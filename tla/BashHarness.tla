----------------------------- MODULE BashHarness -----------------------------
(***************************************************************************)
(* sgp-harness-bash: the loop of HarnessLoop over a local Cayley store     *)
(* that the process opens itself, with processes that crash anywhere, are  *)
(* started again on the session by hand, or are started by a teleport.     *)
(***************************************************************************)
EXTENDS HarnessLoop

CONSTANTS
  MaxStarts,      \* bound: process starts, by hand or by teleport
  MaxFailures,    \* bound: store calls that return an error
  StoreType       \* the values of --store the sessions are created with

ASSUME BashAssumption ==
  /\ MaxStarts \in Nat \ {0} /\ MaxFailures \in Nat
  /\ StoreType \subseteq {"mem", "bolt", "leveldb"}

VARIABLES
  storeType,   \* the --store flag the session was created with
  store,       \* the session in that store
  starts,      \* process starts so far
  failures     \* calls of the store that returned an error

bashVars == <<made, proc, turns, cut, storeType, store, starts, failures>>

storeVars == <<storeType, store, starts, failures>>

noSession == [exists |-> FALSE, nodes |-> {}, head |-> NoID, closed |-> FALSE,
              terminal |-> NoID]

BashInit ==
  /\ LoopInit
  /\ storeType \in StoreType
  /\ store = noSession
  /\ starts = 0
  /\ failures = 0

storeFails == failures < MaxFailures /\ failures' = failures + 1

-----------------------------------------------------------------------------
(* main *)

\* Started by hand: without a session, or with --session-id and the store flag
\* the session was created with.
main(p) ==
  /\ \A q \in Process : proc[q] = off
  /\ starts < MaxStarts
  /\ starts' = starts + 1
  /\ proc' = [proc EXCEPT ![p] = IF store.exists THEN opening(storeType)
                                 ELSE [pc |-> "create"]]
  /\ UNCHANGED <<made, turns, cut, storeType, store, failures>>

\* newHarness without a session: CreateSession, then the system message.  An
\* error of either, or of the first write, ends the process.
newHarness(p) ==
  LET h == [running("arrive", {}, NoID, FALSE) EXCEPT !.arriving = TRUE] IN
  /\ proc[p].pc = "create"
  /\ \/ /\ store' = [noSession EXCEPT !.exists = TRUE]
        /\ made' = Append(made, node(NoID, "system", << >>, 0, 0))
        /\ proc' = [proc EXCEPT ![p] = [h EXCEPT !.graph = {Len(made) + 1}, !.head = Len(made) + 1,
                                                 !.next = "arrive", !.pc = "write"]]
        /\ UNCHANGED failures
     \/ /\ storeFails
        /\ proc' = [proc EXCEPT ![p] = off]
        /\ UNCHANGED <<made, store>>
  /\ UNCHANGED <<turns, cut, storeType, starts>>

\* openLocalStore: a memory store is empty, and a file store of another type is
\* another file.  The file is locked while a process has it open (external).
found(flag) == flag = storeType /\ storeType # "mem" /\ store.exists

openLocalStore(p) == \A q \in Process \ {p} : proc[q].pc \in {"off", "open", "create"}

\* Mutant: the status of the session is not read.
resumeHarnessOpen(p) ==
  /\ proc[p].pc = "open"
  /\ openLocalStore(p)
  /\ proc' = [proc EXCEPT ![p] =
                IF found(proc[p].store) THEN running("arrive", store.nodes, store.head, FALSE)
                ELSE off]
  /\ UNCHANGED <<made, turns, cut, storeVars>>

\* newHarness with a session: LoadGraph, then handleArrival.
resumeHarness(p) ==
  /\ proc[p].pc = "open"
  /\ openLocalStore(p)
  /\ proc' = [proc EXCEPT ![p] =
                IF found(proc[p].store)
                THEN running("arrive", store.nodes, store.head, store.closed)
                ELSE off]
  /\ UNCHANGED <<made, turns, cut, storeVars>>

-----------------------------------------------------------------------------
(* The store calls of the loop *)

\* Mutant: the node is stored and the head stays.
persistNodeOnly(p) ==
  /\ writeReturns(p)
  /\ store' = [store EXCEPT !.nodes = @ \cup {proc[p].head}]
  /\ UNCHANGED <<storeType, starts, failures>>

persist(p) ==
  /\ writeReturns(p)
  /\ store' = [store EXCEPT !.nodes = @ \cup {proc[p].head}, !.head = proc[p].head]
  /\ UNCHANGED <<storeType, starts, failures>>

persistFails(p) ==
  /\ storeFails
  /\ writeFails(p)
  /\ UNCHANGED <<storeType, store, starts>>

\* close, and the end of main: an error of End or of EndSession is dropped.
close(p) ==
  /\ proc[p].pc = "close"
  /\ proc' = [proc EXCEPT ![p] = off]
  /\ \/ /\ ~proc[p].closed
        /\ store' = [store EXCEPT !.closed = TRUE, !.terminal = proc[p].head]
        /\ UNCHANGED failures
     \/ proc[p].closed /\ UNCHANGED <<store, failures>>
     \/ ~proc[p].closed /\ storeFails /\ UNCHANGED store
  /\ UNCHANGED <<made, turns, cut, storeType, starts>>

\* The destination is given --session-dir but no --store: it opens the default.
handoff(p) ==
  \E q \in Process :
    /\ starts < MaxStarts /\ starts' = starts + 1
    /\ spawnHandoff(p, q, "bolt")
    /\ UNCHANGED <<storeType, store, failures>>

\* The process stops at any point.  What it answered of a batch is broken off
\* there, unless the call node is still the head of the store.
crash(p) ==
  /\ proc[p].pc \notin {"off", "open", "create"}
  /\ proc' = [proc EXCEPT ![p] = off]
  /\ cut' = IF proc[p].batch \in store.nodes /\ store.head # proc[p].batch
            THEN cut \cup {proc[p].batch} ELSE cut
  /\ UNCHANGED <<made, turns, storeVars>>

Work(p) ==
  \/ LoopStep(p) /\ UNCHANGED storeVars
  \/ newHarness(p) \/ resumeHarness(p)
  \/ persist(p) \/ persistFails(p)
  \/ handoff(p) \/ close(p)

BashNext ==
  \E p \in Process :
    \/ Work(p)
    \/ (handleTurn(p) \/ quit(p)) /\ UNCHANGED storeVars
    \/ main(p) \/ crash(p)

\* A process that has something to do goes on: chat requests have a timeout of
\* five minutes and store calls return.  Nothing is assumed of the user.
BashSpec ==
  BashInit /\ [][BashNext]_bashVars /\ \A p \in Process : WF_bashVars(Work(p))

-----------------------------------------------------------------------------
(* Properties *)

\* Type correctness of the processes, their graphs and the stored session.
BashTypeOK ==
  /\ LoopTypeOK
  /\ storeType \in StoreType
  /\ store \in [exists : BOOLEAN, nodes : SUBSET (1..MaxNodes), head : 0..MaxNodes,
                closed : BOOLEAN, terminal : 0..MaxNodes]
  /\ starts \in 0..MaxStarts
  /\ failures \in 0..MaxFailures

\* While no write has failed, the session in the store is a conversation that can
\* be taken up, whatever crashed and whoever wrote: its nodes are the lineage of
\* its head, and it was ended at that head.
StoreIsWhole ==
  failures = 0 =>
    /\ store.nodes = ToSet(lineage[store.head])
    /\ (store.closed => store.terminal = store.head)

\* A process at work holds the session as the store has it, its end included, but
\* for the node it is just writing: no one else writes to it or ends it in the
\* meantime, not even the process that handed it over.
GraphMatchesStore ==
  \A p \in Process :
    failures = 0 /\ proc[p].pc \in {"arrive", "arrival", "prompt", "infer", "tools", "spawn", "write"} =>
      /\ proc[p].closed = store.closed
      /\ IF writing(p) THEN /\ proc[p].graph = store.nodes \cup {proc[p].head}
                            /\ made[proc[p].head].parent = store.head
         ELSE proc[p].graph = store.nodes /\ proc[p].head = store.head

\* The session has one writer at a time, which agrees with the store, and the
\* store holds one conversation: persist, spawnHandoff and handleArrival keep to
\* that together, across crashes and hand-overs.
BashInv == BashTypeOK /\ StoreIsWhole /\ GraphMatchesStore

\* A turn comes to an end: the prompt is back, or the process has stopped.  The
\* model may call tools without end.
TurnEnds ==
  \A p \in Process :
    proc[p].pc \in {"arrival", "infer", "write", "tools", "spawn", "teleported"}
      ~> proc[p].pc \in {"off", "prompt", "close"}

\* SPEC.md: "You can resume after failure from partial progress."  A process that
\* takes up a session after a crash answers the tool calls left open before it
\* goes on.
CallsAreAnswered ==
  \A p \in Process : canInfer(p) =>
    LET q == toOllamaMessages(p)
    IN \A i \in DOMAIN q : q[i].role = "calls" => answered(q, i)

=============================================================================
