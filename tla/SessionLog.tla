----------------------------- MODULE SessionLog -----------------------------
(***************************************************************************)
(* What one session promises its observers, stated over the emitted event  *)
(* log alone (SPEC.md: the ordering invariant of session.start, "Immuta-   *)
(* bility", "Append-only" and "Resumability"):                             *)
(*                                                                         *)
(*     session.start  ->  node.appended*  ->  session.ended                *)
(*                                                                         *)
(* where every node is new, names only nodes already in the log as its     *)
(* parents, and exactly the first node has none.  session.ended names the  *)
(* node emitted last.  SessionGraph (pkg/sgp/graph.go) implements this     *)
(* with maps and counters; nothing here mentions them.                     *)
(***************************************************************************)
EXTENDS Naturals, Sequences

CONSTANTS
  NoID,      \* the empty ID: no node
  Reason     \* the end reasons a session may record

VARIABLE log

StartEvent == [kind |-> "session.start"]

NodeEvent(id, node) == [kind |-> "node.appended", id |-> id, node |-> node]

EndedEvent(reason, terminal) ==
  [kind |-> "session.ended", reason |-> reason, terminal |-> terminal]

NodeIndices == {i \in DOMAIN log : log[i].kind = "node.appended"}

EmittedIDs == {log[i].id : i \in NodeIndices}

\* The log accepts nodes: it was started and has not been ended.
Open == log # << >> /\ log[Len(log)].kind # "session.ended"

\* The most recently emitted node.  In an open log it is the last event.
Tip == IF log[Len(log)].kind = "node.appended" THEN log[Len(log)].id ELSE NoID

Init == log = << >>

Start == log = << >> /\ log' = << StartEvent >>

\* The event a step adds.  Which node that is, is the implementation's choice.
Added == log'[Len(log) + 1]

Emit ==
  /\ Open
  /\ log' = Append(log, Added)
  /\ Added.kind = "node.appended"
  /\ Added = NodeEvent(Added.id, Added.node)
  /\ Added.id \notin EmittedIDs
  /\ \A k \in DOMAIN Added.node.parents : Added.node.parents[k] \in EmittedIDs
  /\ Added.node.parents = << >> <=> EmittedIDs = {}

End ==
  \E reason \in Reason :
    /\ Open
    /\ log' = Append(log, EndedEvent(reason, Tip))

Next == Start \/ Emit \/ End

Spec == Init /\ [][Next]_log

=============================================================================
