----------------------------- MODULE LiveAgent ------------------------------
(***************************************************************************)
(* The coding agent of examples/adk-oac-sgp-agent: the console and its     *)
(* tool loop (liveagent/console.go over codingagent/agent.go), driven by a *)
(* terminal or, through liveagent/harness.go, by the envelopes of an       *)
(* orchestrator's stream (oacstream/connect_client.go).                    *)
(*                                                                         *)
(* Envelopes are handled one at a time; the tool calls of one step run in  *)
(* goroutines of their own.  A graph is saved as a whole, under its        *)
(* session ID, so a save that fails is made good by the next.  The graph   *)
(* itself (Append, Rewrite) and the file store are external: the example   *)
(* uses an earlier version of pkg/sgp and a store that is not in the tree. *)
(***************************************************************************)
EXTENDS Naturals, FiniteSets, SequencesExt

CONSTANTS
  Session,        \* session IDs
  Terminal,       \* those of terminals, whose files have a directory of their own
  Batch,          \* the tool calls a model may ask for: sequences of names
  maxToolSteps,
  MaxEvents,      \* bound: envelopes or lines received
  MaxStarts,      \* bound: processes started, one after the other
  MaxFailures     \* bound: saves that fail

ASSUME LiveAssumption ==
  /\ Terminal \subseteq Session
  /\ maxToolSteps \in Nat \ {0}
  /\ {MaxEvents, MaxStarts, MaxFailures} \subseteq Nat
  /\ Batch \subseteq Seq({"grep_text", "spawn_subagent_search"}) \ {<< >>}

VARIABLES
  stream,     \* the main loop: what it is doing and for which session
  outcomes,   \* the tool calls of the step in progress
  consoles,   \* Harness.consoles, or the one console of a terminal
  saved,      \* the session files
  spawned,    \* the files of subagent sessions, by their spawned_from
  acked,      \* history: session -> the size of its graph at its last success
  events, starts, failures

liveVars == <<stream, outcomes, consoles, saved, spawned, acked, events, starts, failures>>

none == [start |-> 0]

stopped == [pc |-> "off"]

LiveInit ==
  /\ stream = stopped
  /\ outcomes = << >>
  /\ consoles = [s \in Session |-> none]
  /\ saved = [s \in Session |-> none]
  /\ spawned = {}
  /\ acked = [s \in Session |-> none]
  /\ events = 0 /\ starts = 0 /\ failures = 0

-----------------------------------------------------------------------------
(* The graph of a console.  Nodes are numbered as they are appended; start   *)
(* tells the node IDs of different consoles of one session apart.            *)

\* codingagent.New: a fresh graph with its system message, whatever is saved.
New == [start |-> starts, closed |-> FALSE, head |-> 1,
        nodes |-> <<[kind |-> "system", parent |-> 0, from |-> {}, calls |-> 0]>>]

\* Graph.Append and Graph.Rewrite.
append(c, kind, parent, from, calls) ==
  [c EXCEPT !.nodes = Append(@, [kind |-> kind, parent |-> parent,
                                 from |-> from, calls |-> calls]),
            !.head = Len(c.nodes) + 1]

AddUserTask(c) == append(c, "user", c.head, {}, 0)

AddAssistantPlan(c, calls) == append(c, "plan", c.head, {}, Len(calls))

\* Sibling results under the plan, in the order of the calls.
AddToolResults(c, plan, results) ==
  [c EXCEPT !.nodes = @ \o [i \in DOMAIN results |->
                              [kind |-> results[i], parent |-> plan,
                               from |-> {}, calls |-> 0]],
            !.head = Len(c.nodes) + Len(results)]

\* Mutant: a failure stays where it is when it is the only result.
rewriteSeveral(c, plan, results) ==
  LET all == AddToolResults(c, plan, results)
      ids == {Len(c.nodes) + i : i \in DOMAIN results}
  IN IF Len(results) = 1 THEN all ELSE append(all, "summary", plan, ids, 0)

\* PruneFailedToolCall for one failed result, SummarizeParallelToolCalls for
\* several: a node after the plan that takes the results' place.
rewriteResults(c, plan, results) ==
  LET all == AddToolResults(c, plan, results)
      ids == {Len(c.nodes) + i : i \in DOMAIN results}
  IN IF results = <<"ok">> THEN all ELSE append(all, "summary", plan, ids, 0)

-----------------------------------------------------------------------------

\* The handler is done; what is left is to answer, or to print.
replying(ok) == [stream EXCEPT !.pc = "reply", !.ok = ok]

\* persist, with the graph c of session s: the file is replaced (true), or the
\* save fails and the file stays as it is (false).
persist(s, c, ok) ==
  /\ saved' = IF ok THEN [saved EXCEPT ![s] = c] ELSE saved
  /\ failures' = IF ok THEN failures ELSE failures + 1
  /\ ok \/ failures < MaxFailures

\* NewHarness: no console, until an event needs one.
runOACStream ==
  /\ stream.pc = "off" /\ starts < MaxStarts
  /\ starts' = starts + 1
  /\ consoles' = [s \in Session |-> none]
  /\ stream' = [pc |-> "reading", mode |-> "oac"]
  /\ UNCHANGED <<outcomes, saved, spawned, acked, events, failures>>

\* A terminal session has a new ID.  Without its first save the process ends.
runCodingConsole(s, ok) ==
  /\ stream.pc = "off" /\ starts < MaxStarts
  /\ s \in Terminal /\ saved[s] = none
  /\ starts' = starts + 1
  /\ LET c == [New EXCEPT !.start = starts'] IN
       /\ persist(s, c, ok)
       /\ consoles' = [t \in Session |-> IF t = s /\ ok THEN c ELSE none]
  /\ stream' = IF ok THEN [pc |-> "reading", mode |-> "console"] ELSE stopped
  /\ UNCHANGED <<outcomes, spawned, acked, events>>

\* The next envelope or line.  A terminal has no line that decodes to nothing,
\* and ends by leaving the loop.
Receive(s, body) ==
  /\ stream.pc = "reading" /\ events < MaxEvents
  /\ IF stream.mode = "oac" THEN s \notin Terminal
     ELSE consoles[s] # none /\ body # "undecodable"
  /\ events' = events + 1
  /\ stream' = [pc |-> "handle", mode |-> stream.mode, session |-> s,
                body |-> body, ok |-> FALSE, step |-> 0]
  /\ UNCHANGED <<outcomes, consoles, saved, spawned, acked, starts, failures>>

\* End of the stream, a frame or an envelope that does not parse, an error on
\* the terminal: the process ends and nothing is closed.
streamEnds ==
  /\ stream.pc = "reading"
  /\ stream' = stopped
  /\ consoles' = [s \in Session |-> none]
  /\ UNCHANGED <<outcomes, saved, spawned, acked, events, starts, failures>>

decodeHarnessInputFails ==
  /\ stream.pc = "handle" /\ stream.body = "undecodable"
  /\ stream' = replying(FALSE)
  /\ UNCHANGED <<outcomes, consoles, saved, spawned, acked, events, starts, failures>>

\* Mutant: the console is registered before it is saved.
consoleForSessionEarly(ok) ==
  LET s == stream.session IN
  /\ stream.pc = "handle" /\ stream.body = "event"
  /\ IF consoles[s] # none
     THEN /\ ok /\ stream' = [stream EXCEPT !.pc = "turn"]
          /\ UNCHANGED <<consoles, saved, failures>>
     ELSE /\ persist(s, New, ok)
          /\ consoles' = [consoles EXCEPT ![s] = New]
          /\ stream' = IF ok THEN [stream EXCEPT !.pc = "turn"] ELSE replying(FALSE)
  /\ UNCHANGED <<outcomes, spawned, acked, events, starts>>

\* The console of this process, or a new one.  The store is not asked for the
\* session.  A console whose first save fails is dropped.
consoleForSession(ok) ==
  LET s == stream.session IN
  /\ stream.pc = "handle" /\ stream.body = "event"
  /\ IF consoles[s] # none
     THEN /\ ok /\ stream' = [stream EXCEPT !.pc = "turn"]
          /\ UNCHANGED <<consoles, saved, failures>>
     ELSE /\ persist(s, New, ok)
          /\ consoles' = IF ok THEN [consoles EXCEPT ![s] = New] ELSE consoles
          /\ stream' = IF ok THEN [stream EXCEPT !.pc = "turn"] ELSE replying(FALSE)
  /\ UNCHANGED <<outcomes, spawned, acked, events, starts>>

\* The graph is ahead of the file when the save fails; it is not taken back.
HandleUserTurn(ok) ==
  LET s == stream.session
      c == AddUserTask(consoles[s])
  IN /\ stream.pc = "turn"
     /\ consoles' = [consoles EXCEPT ![s] = c]
     /\ persist(s, c, ok)
     /\ stream' = IF ok THEN [stream EXCEPT !.pc = "infer"] ELSE replying(FALSE)
     /\ UNCHANGED <<outcomes, spawned, acked, events, starts>>

generateContentFails ==
  /\ stream.pc = "infer"
  /\ stream' = replying(FALSE)
  /\ UNCHANGED <<outcomes, consoles, saved, spawned, acked, events, starts, failures>>

\* Mutant: the error of the last save is lost.
finalAnswerUnchecked(ok) ==
  LET s == stream.session
      c == append(consoles[s], "answer", consoles[s].head, {}, 0)
  IN /\ stream.pc = "infer"
     /\ consoles' = [consoles EXCEPT ![s] = c]
     /\ persist(s, c, ok)
     /\ stream' = replying(TRUE)
     /\ UNCHANGED <<outcomes, spawned, acked, events, starts>>

\* A response without calls is the answer, also an empty one.
finalAnswer(ok) ==
  LET s == stream.session
      c == append(consoles[s], "answer", consoles[s].head, {}, 0)
  IN /\ stream.pc = "infer"
     /\ consoles' = [consoles EXCEPT ![s] = c]
     /\ persist(s, c, ok)
     /\ stream' = replying(ok)
     /\ UNCHANGED <<outcomes, spawned, acked, events, starts>>

\* Mutant: the plan is saved before its tools run.
planSaved(calls) ==
  LET s == stream.session
      c == AddAssistantPlan(consoles[s], calls)
  IN /\ stream.pc = "infer"
     /\ consoles' = [consoles EXCEPT ![s] = c]
     /\ saved' = [saved EXCEPT ![s] = c]
     /\ outcomes' = [i \in DOMAIN calls |-> [name |-> calls[i], result |-> "running"]]
     /\ stream' = [stream EXCEPT !.pc = "tools"]
     /\ UNCHANGED <<spawned, acked, events, starts, failures>>

\* A response with calls: the plan is appended, not saved, and the calls begin.
plan(calls) ==
  LET s == stream.session IN
  /\ stream.pc = "infer"
  /\ consoles' = [consoles EXCEPT ![s] = AddAssistantPlan(@, calls)]
  /\ outcomes' = [i \in DOMAIN calls |-> [name |-> calls[i], result |-> "running"]]
  /\ stream' = [stream EXCEPT !.pc = "tools"]
  /\ UNCHANGED <<saved, spawned, acked, events, starts, failures>>

\* One goroutine per call.  An unknown tool, a bad argument or an error of the
\* file system is a failed result.
executeFunctionCall(i, result) ==
  /\ stream.pc = "tools"
  /\ outcomes[i].result = "running"
  /\ outcomes[i].name = "grep_text" \/ result = "failed"
  /\ outcomes' = [outcomes EXCEPT ![i].result = result]
  /\ UNCHANGED <<stream, consoles, saved, spawned, acked, events, starts, failures>>

\* The search in a session of its own, spawned from the plan and saved, ended,
\* before the plan itself is.
spawnSubagentSearch(i, ok) ==
  LET s == stream.session IN
  /\ stream.pc = "tools"
  /\ outcomes[i].result = "running" /\ outcomes[i].name = "spawn_subagent_search"
  /\ ok \/ failures < MaxFailures
  /\ failures' = IF ok THEN failures ELSE failures + 1
  /\ outcomes' = [outcomes EXCEPT ![i].result = IF ok THEN "ok" ELSE "failed"]
  /\ spawned' = IF ~ok THEN spawned
                ELSE spawned \cup {[session |-> s, start |-> starts,
                                    node |-> consoles[s].head]}
  /\ UNCHANGED <<stream, consoles, saved, acked, events, starts>>

\* The loop goes on, or ends without an answer.
afterStep ==
  IF stream.step + 1 = maxToolSteps THEN replying(FALSE)
  ELSE [stream EXCEPT !.pc = "infer", !.step = @ + 1]

\* After wg.Wait: results, rewrite, save.
executeFunctionCalls(ok) ==
  LET s == stream.session
      results == [i \in DOMAIN outcomes |-> outcomes[i].result]
      c == rewriteResults(consoles[s], consoles[s].head, results)
  IN /\ stream.pc = "tools"
     /\ "running" \notin ToSet(results)
     /\ consoles' = [consoles EXCEPT ![s] = c]
     /\ persist(s, c, ok)
     /\ outcomes' = << >>
     /\ stream' = IF ok THEN afterStep ELSE replying(FALSE)
     /\ UNCHANGED <<spawned, acked, events, starts>>

\* The console leaves the map first and is closed then; without one there is
\* nothing to do, and that is a success.  The end of a terminal is the same.
EndSession(ok) ==
  LET s == stream.session
      c == [consoles[s] EXCEPT !.closed = TRUE]
  IN /\ stream.pc = "handle" /\ stream.body = "session_end"
     /\ IF consoles[s] = none THEN ok /\ UNCHANGED <<saved, failures>>
        ELSE persist(s, c, ok)
     /\ consoles' = [consoles EXCEPT ![s] = none]
     /\ stream' = replying(ok)
     /\ UNCHANGED <<outcomes, spawned, acked, events, starts>>

\* Mutant: an event that failed is not answered.
writeEnvelopeOnSuccess ==
  /\ stream.pc = "reply" /\ stream.ok
  /\ LET g == saved[stream.session] IN
       acked' = IF g # none
                THEN [acked EXCEPT ![stream.session] =
                        [start |-> g.start, closed |-> g.closed, size |-> Len(g.nodes)]]
                ELSE acked
  /\ IF stream.body = "session_end"
     THEN stream' = stopped /\ consoles' = [s \in Session |-> none]
     ELSE stream' = [pc |-> "reading", mode |-> stream.mode] /\ UNCHANGED consoles
  /\ UNCHANGED <<outcomes, saved, spawned, events, starts, failures>>

\* writeEnvelope, one per envelope received; after a session end the client
\* closes the stream and the process ends.
writeEnvelope ==
  /\ stream.pc = "reply"
  /\ LET g == saved[stream.session] IN
       acked' = IF stream.ok /\ g # none
                THEN [acked EXCEPT ![stream.session] =
                        [start |-> g.start, closed |-> g.closed, size |-> Len(g.nodes)]]
                ELSE acked
  /\ IF stream.body = "session_end"
     THEN stream' = stopped /\ consoles' = [s \in Session |-> none]
     ELSE stream' = [pc |-> "reading", mode |-> stream.mode] /\ UNCHANGED consoles
  /\ UNCHANGED <<outcomes, saved, spawned, events, starts, failures>>

\* The process is killed, or ends because its answer cannot be written.
crash ==
  /\ stream.pc # "off"
  /\ stream' = stopped
  /\ outcomes' = << >>
  /\ consoles' = [s \in Session |-> none]
  /\ UNCHANGED <<saved, spawned, acked, events, starts, failures>>

-----------------------------------------------------------------------------

\* What the process does by itself once it has an envelope.
Handle ==
  \/ decodeHarnessInputFails \/ generateContentFails \/ writeEnvelope
  \/ \E ok \in BOOLEAN : \/ consoleForSession(ok) \/ HandleUserTurn(ok)
                         \/ finalAnswer(ok) \/ executeFunctionCalls(ok) \/ EndSession(ok)
  \/ \E calls \in Batch : plan(calls)
  \/ \E i \in DOMAIN outcomes : \/ \E r \in {"ok", "failed"} : executeFunctionCall(i, r)
                                \/ \E ok \in BOOLEAN : spawnSubagentSearch(i, ok)

LiveNext ==
  \/ runOACStream
  \/ \E s \in Session, ok \in BOOLEAN : runCodingConsole(s, ok)
  \/ \E s \in Session, body \in {"event", "undecodable", "session_end"} : Receive(s, body)
  \/ Handle
  \/ streamEnds
  \/ crash

\* The model, the tools and the store return; the loop runs on.
LiveSpec == LiveInit /\ [][LiveNext]_liveVars /\ WF_liveVars(Handle)

-----------------------------------------------------------------------------
(* Properties *)

Node == [kind : {"system", "user", "plan", "answer", "ok", "failed", "summary"},
         parent : Nat, from : SUBSET Nat, calls : Nat]

Graphs == [start : 1..MaxStarts, closed : BOOLEAN, head : Nat \ {0}, nodes : Seq(Node)]

\* Type correctness; a turn never begins a step beyond the last.
LiveTypeOK ==
  /\ stream \in {stopped} \cup [pc : {"reading"}, mode : {"oac", "console"}]
       \cup [pc : {"handle", "turn", "infer", "tools", "reply"}, mode : {"oac", "console"},
             session : Session, body : {"event", "undecodable", "session_end"},
             ok : BOOLEAN, step : 0..(maxToolSteps - 1)]
  /\ outcomes \in Seq([name : {"grep_text", "spawn_subagent_search"},
                       result : {"running", "ok", "failed"}])
  /\ {consoles, saved} \subseteq [Session -> {none} \cup Graphs]
  /\ acked \in [Session -> {none} \cup [start : 1..MaxStarts, closed : BOOLEAN, size : Nat]]
  /\ spawned \subseteq [session : Session, start : 1..MaxStarts, node : Nat]

\* A live console and its file never part: the file is an earlier state of this
\* console's graph and of no other, whichever saves failed, and it is open.
SavedFollowsConsole ==
  \A s \in Session : consoles[s] # none =>
    /\ saved[s] # none
    /\ saved[s].start = consoles[s].start
    /\ IsPrefix(saved[s].nodes, consoles[s].nodes)
    /\ ~saved[s].closed

\* The files and the consoles of the agent: well typed, and each file an earlier
\* state of its live console.
FileInv == LiveTypeOK /\ SavedFollowsConsole

\* The children of plan p that are results.
resultsOf(g, p) ==
  {i \in DOMAIN g.nodes : g.nodes[i].parent = p /\ g.nodes[i].kind \in {"ok", "failed"}}

\* No file shows half a step: a plan is there with the results of all its calls,
\* and unless that is one success, with a summary that refers to each of them.
SavedStepsAreWhole ==
  \A s \in Session : saved[s] # none =>
    \A p \in DOMAIN saved[s].nodes : saved[s].nodes[p].kind = "plan" =>
      LET rs == resultsOf(saved[s], p) IN
      /\ Cardinality(rs) = saved[s].nodes[p].calls
      /\ \/ \E i \in rs : rs = {i} /\ saved[s].nodes[i].kind = "ok"
         \/ \E j \in DOMAIN saved[s].nodes :
              /\ saved[s].nodes[j].kind = "summary"
              /\ saved[s].nodes[j].parent = p /\ saved[s].nodes[j].from = rs

\* The nodes a resume from the head goes through.
lineage(g) ==
  LET up[i \in 0..Len(g.nodes)] == IF i = 0 THEN {} ELSE {i} \cup up[g.nodes[i].parent]
  IN up[g.head]

\* "a single failed tool call is rewritten out of the canonical resume path",
\* and of several results none is left on it: a session resumed from its file
\* goes through no failure and no sibling, but through every user task.
ResumePathIsClean ==
  \A s \in Session : saved[s] # none =>
    LET path == lineage(saved[s]) IN
    /\ \A i \in path : saved[s].nodes[i].kind # "failed"
    /\ \A i \in path : saved[s].nodes[i].kind = "ok" =>
         saved[s].nodes[saved[s].nodes[i].parent].calls = 1
    /\ \A i \in DOMAIN saved[s].nodes :
         saved[s].nodes[i].kind \in {"user", "plan", "answer"} => i \in path

\* "persists the resulting SGP graph under the orchestrator session_id, and then
\* acknowledges": a successful event is answered in the file, with the plan of
\* every subagent session it spawned; a successful end of a session of this
\* process has closed it; and what was acknowledged stays in the file as long as
\* no other process takes the session over.
AcknowledgedIsSaved ==
  /\ stream.pc = "reply" /\ stream.ok =>
       LET g == saved[stream.session] IN
       /\ stream.body = "event" => /\ g = consoles[stream.session]
                                   /\ g.nodes[g.head].kind = "answer"
       /\ stream.body = "event" => \A x \in spawned :
            <<x.session, x.start>> = <<stream.session, g.start>> =>
              x.node <= Len(g.nodes) /\ g.nodes[x.node].kind = "plan"
       /\ stream.body = "session_end" /\ g.start = starts => g.closed
  /\ \A s \in Session :
       acked[s] # none /\ acked[s].start = saved[s].start =>
         acked[s].size <= Len(saved[s].nodes) /\ (acked[s].closed => saved[s].closed)

\* Every envelope is answered in the end, or the process stops: the tool loop is
\* bounded whatever the model asks for, and every error path replies.
EnvelopeIsAnswered ==
  stream.pc = "handle" ~> stream.pc \in {"reading", "off"}

\* README of the example: "session transcript history is persisted as immutable
\* append-only SGP nodes."
HistoryIsAppendOnly ==
  [][\A s \in Session : saved[s] # none =>
       saved'[s].start = saved[s].start /\ IsPrefix(saved[s].nodes, saved'[s].nodes)]_liveVars

=============================================================================
