# Session Graph Protocol: a TLA+ model

This directory models the Go implementation of the Session Graph Protocol: the
in-memory graph (`pkg/sgp`), the Cayley quad store (`pkg/store/cayley`), the
`sgpd` server and its client, and the harnesses under `examples/` that run a
conversation over them. TLC checks the modules on small instances; TLAPS proves
the safety properties of most of them for instances of every size. `PROJECT.json`
lists the runs, the source lines behind each definition, the mutants, the
findings and the hazards.

    tlc -config Management.cfg MCManagement         # one run
    tlapm ManagementProofs.tla                      # the proofs of one module

## 1. The system

A *session* is a DAG of messages. A harness (an agent's main loop) appends
nodes to an in-memory `Graph`, persists each of them through a `Store`, and
resumes later, possibly in another process, from any node. `sgpd` is the server
that owns a store and lets observers watch sessions.

| Component | State | Operations | Talks to |
|---|---|---|---|
| Session graph, `pkg/sgp/graph.go` | node map, child lists, head, lifecycle flags, end record, event log, under one `RWMutex` | `Start`, `Append`, `AppendTypedNode`, `End`; `ResumeNodes`, `AdvanceHead`, `NeedsResponse`, `Head` | used by harnesses, rebuilt by stores |
| Restore and synthesis, `pkg/sgp/storage.go` | none | `ClassifyEvent`, `RestoreFromEvents`, `RestoreFromNodes`, `SynthesizeEvents`, `topoSortNodes` | stores, client, server |
| Cayley store, `pkg/store/cayley` | a set of quads on disk | `CreateSession`, `WriteNode`, `EndSession`, `LoadGraph`, `GetNode`, `GetLineage`, `GetSession`, `ListSessions`, `GetSessionGraph` | Cayley (external) |
| Node publisher, `watch.go` | subscriber channels of 64 nodes, in memory | `publish`, `Watch`, `cancel` | called by `WriteNode`, used by the server |
| Harness service, `cmd/sgpd/harness_handler.go` | one handler per request | `AppendEvent` (dispatches to the store), `LoadEvents` (load, then synthesize) | store |
| Management service, `management_handler.go` | one goroutine per stream or call | `WatchSession`, `GetSession`, `GetResumeContext`, `GetSessionGraph`, `ListSessions` | store, publisher |
| sgpd client and conversion, `pkg/store/sgpd` | none | `Store` over RPC | harness service |
| Bash and math harness, `examples/sgp-harness-*` | graph, head, call counter | user turn, inference loop with tools, teleport to another process, arrival, close | graph, store, model |
| ADK session service, `adk-oac-sgp-agent/sgpsession` | sessions, app and user state under one lock; a JSON file per session | `Create`, `Get`, `List`, `Delete`, `AppendEvent`, `EnsureSession`, `IngestOrchestratorEvent` | graph, JSON store (external) |
| Coding agent, `adk-oac-sgp-agent/liveagent`, `codingagent`, `oacstream` | one console with a graph per session, a JSON file per session | user turn, parallel tools, subagent search, rewrite of failures, save, close; one envelope of the stream at a time | model, JSON store (external), orchestrator (external) |

What is hard here: callers of one graph interleave; the child lists are a second
copy of the parent edges; a graph is rebuilt from unordered nodes under a wall
clock that ties and steps back; a store call is several queries and one batch,
with readers and crashes in between, and it drops the errors of some queries; a
stream combines a history that is loaded in steps with a channel that fills
meanwhile; a harness appends in memory first and persists afterwards, so a
failed or abandoned write leaves the two apart; two processes hand one session
over while one of them holds the store; a request may be carried out although
its client has given up; a page token names a session in a list that is sorted
anew with each call. `PROJECT.json` has the list, line by line, under `hazards`.

## 2. The modules

| Module | Models | State and actions |
|---|---|---|
| `SessionLog` | what a session promises, over its event log alone | `log`; `Start`, `Emit`, `End` |
| `SessionGraph` | `graph.go`, `types.go` | the fields of `Graph`; one action per writing method. Methods hold the mutex throughout, so a method is one step; a call that returns an error changes nothing and is a stuttering step |
| `TopoSort` | `topoSortNodes` | operators that return the *set* of outcomes, because ties are broken arbitrarily |
| `TopoSortRun` | its loop | `sorting`, the sort in progress; one turn per step |
| `Restore` | the rest of `storage.go` | functions of graphs and logs, applied to every reachable state of `SessionGraph` |
| `CayleyStore` | `store.go`, `quads.go`, `watch.go` | `quads`; `op`, the write in progress on a session; `load`, the `LoadGraph` calls; `subs`, the subscriptions. One step per query or batch |
| `WatchSession` | the handler of a stream | `stream`, one per reader: subscribe, load, replay, live |
| `Management` | the management service: `WatchSession` and the calls that read several times | `query`, a reader's call between its reads, and its answer |
| `ListSessions` | `ListSessions` of store and service, and a client that pages | `members`, `pager`, `pages`; one step per call |
| `HarnessLoop` | the conversation loop the two harnesses share | `proc`, the control state and graph of each process; `made`, every node ever appended; one action per step between two store or model calls |
| `BashHarness` | `sgp-harness-bash`: that loop over a local store, `main`, `spawnHandoff`, `handleArrival` | `store`, the session on disk, which one process at a time can open |
| `SgpdWire` | `pkg/store/sgpd/convert` | functions there and back |
| `MathHarness` | `sgp-harness-math`: that loop over the sgpd client and the harness service | `calls`, the handlers at work on the server; `session`, `stored`, the quads |
| `AdkSession` | `sgpsession/service.go` | `sessions`, `appState`, `userState`, `files`; `ingest`, the calls that take more than one lock |
| `LiveAgent` | `console.go`, `harness.go`, `codingagent/agent.go`, `oacstream`, `main.go` | `stream`, the main loop; `outcomes`, the tool goroutines; `consoles`; `saved`, the files |
| `MC*` | | model values, symmetry and bounds |
| `CommonFacts` | | lemmas the proofs share: induction with sets, sequences, paths in a forest, `topoSortNodes` |
| `HarnessLoopProofs` | | what one step of `HarnessLoop` does to a conversation, whatever the store |
| `SessionGraphProofs`, `ManagementProofs`, `BashHarnessProofs`, `MathHarnessProofs`, `AdkSessionProofs`, `LiveAgentProofs` | | theorems about `SessionGraph`, `Restore` and `TopoSortRun`; `CayleyStore`, `Management` and `ListSessions`; and so on (section 4) |

`SessionGraph` instantiates `SessionLog` with `log <- events`; `Restore` extends
`SessionGraph` and `TopoSort`; `Management` extends `WatchSession`, which extends
`CayleyStore` and `TopoSort`; `BashHarness` and `MathHarness` extend
`HarnessLoop`, the latter with `SgpdWire` and `TopoSort` too. A module of proofs
extends the module it is about.
Definitions marked
*Mutant* are wrong on purpose: each replaces a definition to show that a property
notices. They are used by no specification.

### What is abstracted

**Data.** A message is its subtype, with the names and numbers of tool calls in
the harness modules; typed content is its kind; edges other than parents are a
set of links, as nothing reads their order; IDs are model values or numbers.
Event names, JSON, weights, the spawn reference and the archived flag are left
out. `idGenerator` returns a fresh ID (UUIDs; a graph does not check it). What a
model answers is any member of `Batch`, or a text; a tool succeeds or fails.

**Store.** The order in which Cayley returns values is arbitrary, a batch of
`ApplyDeltas` is atomic, and a crash keeps the quads, as the default backend
(bolt) does: assumptions about an external library. `CayleyStore` follows the
`Store` contract that callers serialise the writes of *one* session; readers
and crashes interleave with each of their steps. `MathHarness` drops that
contract, since an abandoned request runs on beside the next. A query may fail
when its context is cancelled. `LoadGraph` returns some of those errors
(`LoadFails`) and drops others, as `WriteNode` and `EndSession` do: `queried`
then goes on with no values. The constant `QueryFails` switches the dropped
failures on; the passing runs have it off, since one such failure already breaks
the head (run `cayley_cancelled_query`).

**Harnesses.** A harness appends below its head only, so its graph is given by
`made` and a set of IDs. `BashHarness` takes a store call as one step: bolt and
leveldb files are opened by one process at a time. `MathHarness` splits it into
the steps of the handler. `sgpd` is taken to stay up while harnesses crash; its
own crashes are those of `Management`.

**ADK example.** It is written against an earlier API of `pkg/sgp` and a file
store that is not in this tree. Graph and store are external there: `Save`
replaces the session's file or fails.

History variables (`log`, `since`, `ids0`, `made`, `cut`, `acked`, `failed`,
`kept`, `first`, `lost`) serve to state properties, or to bound the model, and influence
no step otherwise.

## 3. The runs

Passing runs:

| Run | Instance | Shows |
|---|---|---|
| `session_graph` | 4 IDs and one foreign ID, 2 roles, messages and typed nodes, up to 3 references per append | types; log and fields agree; parents precede; children invert parents; every node resumes; `AdvanceHead` ends at a leaf or fork; history and ended graphs are stable; refinement of `SessionLog` |
| `topo_sort` | all maps on at most 3 IDs, 2 timestamps | degrees and queue are exact; topological order; error iff cycle; termination |
| `restore` | 4 IDs, parents and `branch_from` links, all timestamps equal | replay, load and synthesis give the graph back; a damaged log never leaves a dangling lineage |
| `management` | 1 session, 3 nodes, merges, 1 reader, channel of 2, crashes | one head, the last node; whole nodes; a loaded graph hangs together; a stream misses nothing, sends parents first, repeats at most once and sends what is pending; `GetSession` is recent, a resume context is a lineage, a drawn graph is closed, every call ends |
| `bash_harness` | 2 processes, batches of two tools and of a tool with a teleport, 2 turns, 2 starts, one failing write, bolt and leveldb | well-formed conversations; the stored session is one lineage; a process at work agrees with the store; every turn ends |
| `math_harness` | 2 processes, batches of two tools and of a teleport, 2 turns, 3 starts, 6 nodes, one connection lost | well-formed conversations; conversions are faithful; one head; acknowledged nodes are stored with their lineages, but for nodes whose write was reported to have failed; no holes in a loaded graph; a session without such a report goes on at the newest acknowledged node or later |
| `adk_session` | 2 users, 2 session IDs, one chosen by both, 2 callers, 3 events, one failing save | the snapshot follows the graph; events are nodes in order; user state is private |
| `live_agent` | 2 stream sessions and a terminal, parallel tools and searches, 2 events, 2 starts, one failing save | files hold whole steps of one console and a clean resume path; what was acknowledged is saved; every envelope is answered |
| `list_sessions` | 4 sessions with every assignment of 4 timestamps, limits 0, 1 and 2, one failing read | nothing that was there is skipped; pages go forward |

Some invariants are conjunctions of named parts, each stated and explained where
it is defined: `LoopInv`, `StreamIsReplayable`, `AnswersAreSound`, `BashInv`,
`ServerInv`, `TakenUpWhole`, `CopiesAgree`, `FileInv` and `ListingInv`; the type
invariant of a module is one of the parts. A conjunction has a mutant for each
part that is not about types.

Violation runs. Each checks a sentence of a document or comment that the code
does not keep; `findings` quotes it.

| Run | What TLC shows |
|---|---|
| `cayley_cancelled_query` | a failed head query leaves two heads |
| `bash_crash_in_batch` | after a crash between two tool results, the rest of the batch is never answered |
| `live_agent_restart` | after a restart, the first event of a session saves an empty graph over its file |

**Bounds.** Four nodes are the fewest with a branch, a merge and a node after
either; three references include a duplicate beside two parents. Three nodes
are enough for a cycle beside a node outside it, and for a reference out of
scope. With all timestamps equal the sort may order independent nodes in every
way, so the `restore` run covers every assignment of timestamps; only the order
of siblings could depend on more, and the properties leave it open. In
`management` three nodes make a branch or a merge with a write after the load
has begun, and a channel of 2 can be empty, partly full, full and over; one
reader suffices because readers do not write, and one session because the quads
of two sessions have different subjects. `MaxTerminals` bounds how often a
session is ended again. In `bash_harness` two starts are a crash and a restart,
or a hand-over, two turns are one before and one after, and `MaxNodes` is out of
reach. `math_harness` needs three starts: a handler that outlives its client can
move the head back when it is carried out late, and it takes one start to
abandon it, one to go on and one to load the result. Its six nodes are the
system message, a question, a batch with its two results, and one more.
`maxToolSteps` is 1 or 2 instead of 10 (8 in the coding agent): the loop is left on an answer, on
an error and at the limit. Three events in `adk_session` are two racing
callers and one more event. Four sessions with a limit of 1 give a page before,
at and after the cursor, and one that arrives late; `MaxPages` is more than the
sessions, so that listings end by themselves, except after a failed read, which
may begin the listing again once. Clients, harnesses and users may stop at any
time, so deadlock is not checked; the liveness properties say where something
has to go on.

What `math_harness` says of lost writes deserves a word. A request whose client
has gone is still carried out, so a write that was reported to have failed may
arrive late, below or beside what was written meanwhile. `AckedIsStored`
therefore says that an acknowledged node is stored, and that whatever is missing
of its lineage was reported to the harness (`failed`). `ResumedAtNewest` is about
sessions without such a report: with three turns and three starts TLC finds
sessions that go on at an older node after one, as the late request moves the
head.

**Fairness.** `TopoSortRun` is sequential code: weak fairness of its step. In
`Management` the handlers of streams and calls are weakly fair: the Go scheduler
runs a goroutine that has something to do, queries return, and `Send` returns
because the client reads or leaves. In `BashHarness` a process that has
something to do goes on: a chat request has a timeout of five minutes and a store
call returns. In `LiveAgent` the same holds of the main loop, as model, tools
and saves return. Writers, users, orchestrators, connections and crashes have no
fairness, and `MathHarness`, `AdkSession` and `ListSessions` state none: their
properties are safety properties.

## 4. The proofs

All theorems are about the specification of the model, with every set of IDs,
processes, readers and batches and every bound, from the named assumptions on
the constants. These say what the code has by construction: empty and foreign
IDs are no IDs of nodes (`ConstantsAssumption`, `StoreAssumption`), event names
are no IDs (`EventAssumption`), a batch has calls and `maxToolSteps` is positive
(`LoopAssumption`, `LiveAssumption`), no process is called `Nobody` (`MathAssumption`). A set of
processes, readers or IDs may be infinite.

| Module | Invariant | What follows |
|---|---|---|
| `SessionGraphProofs` | `IInv` | `TypeOK`, `LogMatchesFields`, `ParentsPrecede`, `ChildrenInvertParents`; `EveryNodeResumes`, `AdvanceHeadEndsAtLeafOrFork`; `HistoryIsImmutable`, `ClosedIsFinal`; `ImplementsSessionLog`, the refinement |
| the same, about `Restore` | `IInv`, `ReferencesHold`, `LogReplays` | `ReplayIsFaithful`, `LoadIsFaithful`, `SynthesizedLogReplays`, `DamageNeverDangles` |
| the same, about `TopoSortRun` | `RunInv` | `LoopInv`, `SortedIsTopological`, `ErrorIffCycle` |
| `ManagementProofs` | `StoreInv`, then `ManagementInv` | `HeadIsLastApplied`, `NodesAreWhole`, `LoadedGraphIsConsistent`, `AnswersAreSound`, `NoNodeMissed`, `StreamIsReplayable` |
| the same, about `ListSessions` | `PagingInv` | `ListingInv` |
| `BashHarnessProofs` | `SessionInv` | `BashInv`, `ConversationIsWellFormed` |
| `MathHarnessProofs` | `MathInv`, then `Newest` and `TalkInv` | `ServerInv`, `WireIsFaithful`; `TakenUpWhole`, `ConversationIsWellFormed` |
| `AdkSessionProofs` | `AdkInv` | `CopiesAgree`, `UserStateIsPrivate` |
| `LiveAgentProofs` | `LiveInv` | `FileInv`, `SavedStepsAreWhole`, `ResumePathIsClean`, `AcknowledgedIsSaved` |

Two hypotheses stand in theorems. `ParentsAreEarlier`, `ChildrenAreInverse`,
`EveryNodeIsResumable`, `AdvanceHeadEnds`, `Refinement` and the four theorems
about `Restore` assume `ExtraParents = {}`, that callers give `AppendTypedNode` no parent edges besides
`parentIDs` (section 6 says why). The theorems about the
store and the management service assume `~QueryFails`, that no query fails whose
error the code drops: one such failure leaves two heads (run
`cayley_cancelled_query`). Queries whose errors are returned may fail.

**The graph.** `AcceptedParents` says what the checks of an append guarantee:
parents that exist, and none only for the first node. `StepCases` reduces `Next`
to a start, an `AppendStep` with those guarantees, or an end. In

    IInv == TypeOK /\ LogMatchesFields /\ ParentsPrecede /\ ChildrenInvertParents

the last two need the second: a parent accepted from the node map precedes the
new node because every node of the map has an event in the log, and a new child
comes last in its list because every other node's only event is earlier. The
refinement needs the invariant too: that a new ID is not in the log and that
`headID` is the log's tip are facts about the fields. Every node has a place in
the log (`Places`), which falls along first parents and rises along children. A
walk whose rank rises ends within as many steps as there are nodes (`WalkEnds`),
so a resume reaches the root and `AdvanceHead` a leaf or a fork; that it stays on
the path from the root needs child lists without repetition.

**The sort.** `SortInv` says that a node's degree counts its dependencies in
scope that are not sorted yet, and that the queue holds exactly the unsorted nodes
of degree 0. When the queue is empty and nodes are left, each has a dependency
among the rest, hence a cycle (`LeftOverIsCycle`); a cycle keeps all its nodes
out of the order (`CycleIsNotSorted`). The same lemmas, iterated, give what
`topoSortNodes` returns for every map (`SortSucceeds`), which the proofs
about streams and loaded graphs use.

**Replay and load.** A fold over a log is a table of graphs, one per event
(`ReplaySteps`), and the tables of a log and of its extension agree
(`ReplayAppend`). So each call extends the log and what it replays to alike, and
`LogReplays`, that this is the graph in memory, is inductive. A load sorts the
nodes; the log itself, in which parents and branch points come first
(`ReferencesHold`), is the order that shows the sort has no cycle to report
(`SortsInOrder`). Linking the nodes in any order with parents first lists each
child once under each of its parents (`WiresAll`), as the graph does, so child
lists are equal up to order. A synthesized log is such an order between a start
and an end: its replay links the same nodes one by one (`HalfwayEnds`), and its
last node is nobody's parent. Whatever the order and number of a session's
events, a replay that is not refused holds some of its nodes with their parents
(`SoundReplay`), and in those every resume reaches the root.

**Store and management service.** `StoreInv` adds to the checked invariants what
makes them inductive: the node of a write in progress is in no log and in no other
write, its parents are in the log of its session, and a `LoadGraph` call holds, after
each of its queries, a set of stored nodes whose growth since the first query
can only add whole nodes. `ManagementInv` says of a stream that what was sent,
what is to be sent and the channel together are a history `H` without
repetition, parents first, with everything stored at the subscription, followed
by live nodes `V`, which are the last published nodes without a gap unless the
channel dropped one. `NoNodeMissed` follows because `H` and `V` overlap at the
subscription, `StreamIsReplayable` because a node published later has parents
that were published or loaded before.

**The loop of the harnesses.** `HarnessLoopProofs` has what both harnesses need: a
process at work has a conversation in which every batch is settled (`Settled`),
but for the one it is answering, with the results of the calls before `idx`
behind it and nothing else (`Answering`, `TalkHolds`). Each action that appends
extends the conversation by one node (`SettledGrows`, `ResultsGrow`,
`AnsweringNext`, `AnsweringDone`) and leaves it such (`TurnContinues`,
`AnswerContinues`, `CallsContinue`, `ResultContinues`, `SpawnContinues`).

**Bash harness.** `SessionInv` relates the file to the one process that has it
open. A batch of the conversation that is not settled is the one this process is
answering; or it is the head of the store, where an arrival takes it up; or its
answering was broken off. No step of the store forgets a batch (`StoreKeeps`).
`ConversationIsWellFormed` holds with failing writes too; only `StoreIsWhole`
and `GraphMatchesStore` are about sessions without one.

**Math harness.** One process is at work at a time, sends one request per node,
and appends only below a node that is stored or was reported to have failed. So
no node is requested twice, only the first can be applied to a session without a
head, and the stored and reported nodes are closed under parents: `MathInv`, for
any number of handlers that outlive their clients. That the wire is faithful
follows from the kinds of request there are (`CallHolds`).

A session without a failed write goes on at the last event of what the server
loads and sorts, so that has to be its newest node. While no write is known to
have failed, every process has loaded a session in which no node's parent is
newer than its head, and it appends there; hence newer nodes have newer parents,
or the same one (`Newest`), even where a handler that was left behind adds a
sibling. On such a map, whose timestamps ascend with its numbers, the queue of
the sort holds ever newer nodes and the order comes out by age (`SortAscends`);
its last node is no older than any acknowledged one (`LastIsNewest`).

`ConversationIsWellFormed` needs more when writes were lost: a load may end with
any stored node below which nothing is stored, on a branch that its process has
left. `TalkInv` says that such a node ends a settled conversation (`TurnHolds`),
whoever made it: the batches in it that are not settled are broken off, or held
by the one process at work, or the node itself, which then has nothing below it
at all. What makes it inductive is `BatchHolds`: a batch that the process at work is
about is passed only by conversations that end with its head, or with the node
above it while the head is being written, or above a stored node; so when the
last result is acknowledged, nothing a load can end with has the batch open
(`Released`). A load indeed ends with a node without stored ones below it, since
the sort lists all of them after their parents (`LastIsLeaf`).

**Listing.** The list is sorted anew for each page, and ties come in any order, so
only time relates one page to the next. `PagingInv` says that a session that was
there at the start has been listed or could not be read, or ties with another,
or is later than the one whose ID is the token; the page that follows begins
behind that one in whatever order it now finds (`RestOfList`, `PageOfRest`).

**ADK service.** A session's events are a subsequence of its graph, the snapshot
is a prefix of the graph and all of it while no save has failed, and a user's key
occurs in that user's state only; copies taken before a lock is released are
prefixes as well.

**Coding agent.** A console is a graph of the process at work, open and ahead of
its file; its steps are whole, but for the one at its head while its tools run
(`ConsoleHolds`, `GraphIsWhole`). Each append and rewrite of console.go keeps the
steps whole and adds only the new head to the lineage of the old one (`TurnKeeps`,
`ResultsKeep`, `LineageGrows`), so a resume goes through no failed call.
A session that has no console is either unknown to the process at work, or its
end is being answered (`Unknown`, `Ending`): hence a console that is made anew
never overwrites what its own process acknowledged. Saves may fail at any time.

**Recursive functions.** `lineage`, `resumeNodes`, the sort and the folds are
recursive functions. Their values are found by induction stated with sets (`LeastNumber`,
`SetInduction`, `IterationExists`) and with tables of paths in a forest
(`PathTable`), in `CommonFacts`.

**Only model-checked.** Liveness (`Terminates`, `PendingIsSent`, `QueryIsAnswered`,
`TurnEnds`, `EnvelopeIsAnswered`): the prover does not handle fairness and ENABLED.

## 5. Not modelled

* The OAC mode of the math harness: it writes nothing, its state is one list of
  messages, and its peer, the orchestrator, is not in the repository.
* The Ollama clients: HTTP requests and the parsing of a model's text. The
  models take any answer.
* The `sgpd` process: flags, listeners, start-up. A shutdown that waits for an
  open stream is listed as a hazard.
* Byte formats: JSON, frames of the stream, quad values, protobuf encoding;
  generated code.
* `GetNode` is read in one step with its quads; a read of a node's edges that
  fails on its own is not modelled. The checks of empty request fields are left
  out.
* In the conversion, typed nodes: `NodeToProto` sends messages and parents only,
  and the harnesses append nothing else.

## 6. Disagreements with the documents that have no run

Behaviours of the modelled code, visible in the definitions, that a document or
comment describes otherwise, or that a reader might not expect:

* `AppendTypedNode` (graph.go:237) appends the caller's edges after the parents
  were checked and the child lists written. A parent edge among them has no child
  entry and may name no node, and `AdvanceHead`, which is documented to walk
  parent edges to a leaf, stops above it. No caller in the repository passes one;
  `ExtraParents` is the constant for them.
* `SPEC.md` says `LoadEvents` returns events in emission order. A synthesized log
  is in an order of the sort, which depends on ties and on the order of siblings.
* `RestoreFromNodes` says it returns an error if a parent reference is missing;
  the sort ignores references out of scope, and the graph is built around the
  hole. A replay (`RestoreFromEvents`) refuses it.
* `SPEC.md`: "Any node is a valid resumption point". After a failed write the
  next turn writes a child of the missing node, and a local store loads it: that
  node does not resume. `StoreIsWhole` is therefore about sessions without a
  failed write.
* `SESSION_MODEL.md` says an ended session is read-only; `WriteNode` takes nodes
  after `EndSession`. It also lists end reasons (`error`, `timeout`,
  `interrupted`) that `End` rejects.
* The `Watcher` interface says the channel receives each node written after the
  subscription; a full channel loses nodes without notice. It says `Watch`
  returns `ErrSessionNotFound`; a channel is registered for any ID.
* `topoSortNodes` says it orders the nodes of a level by timestamp; it sorts only
  the children of each node it takes off.
* A live stream never shows the end of its session, because `EndSession`
  publishes nothing. A stream with history may send a node twice.
* `spawnHandoff` passes `--session-dir` and no `--store`: a session in another
  backend than the default is not found by its destination, which stops, and the
  call of the teleport stays open.
* A session of the ADK service keeps the app and user values it was created
  with in its own state, which hides later values from `Get`.

## 7. What is open

Every safety property of the passing runs has a theorem. Two hazards of PROJECT.json have
no property: the shutdown of `sgpd` that waits for an open stream, whose process
is not modelled, and parent edges among the edges of `AppendTypedNode`, which no
caller passes. A model of the shutdown and one of the OAC mode, once its peer is
there to be read, would come next.
