---------------------------- MODULE CayleyStore -----------------------------
(***************************************************************************)
(* The quad store of pkg/store/cayley: sessions and nodes as a set of      *)
(* quads <<subject, predicate, object>> (the label is the session and is   *)
(* never queried), and the in-process publisher of watch.go.               *)
(*                                                                         *)
(* The Store contract lets callers serialise the writes of one session and *)
(* nothing else, so op[s] is the one write in progress on session s, while *)
(* the writes of other sessions, any number of LoadGraph calls and the     *)
(* subscribers run between its steps.  A step is one query or one call of  *)
(* ApplyDeltas; Cayley applies a batch atomically (external).  Calls may   *)
(* come in any order: a session created or ended twice, or written after   *)
(* its end.                                                                *)
(***************************************************************************)
EXTENDS Naturals, FiniteSets, SequencesExt

CONSTANTS
  Session, ID,    \* session IDs and node IDs
  NoID,           \* the empty ID
  Reader,         \* callers of LoadGraph, and of Watch
  BufSize,        \* watchBufSize, scaled down
  MaxParents,     \* bound: parents of one node
  MaxTerminals,   \* bound: different terminal nodes of one session
  QueryFails      \* whether a query can fail, when its context is cancelled

ASSUME StoreAssumption ==
  /\ NoID \notin Session \cup ID
  /\ Session \cap ID = {}
  /\ BufSize \in Nat \ {0}
  /\ MaxParents \in Nat
  /\ MaxTerminals \in Nat
  /\ QueryFails \in BOOLEAN

Reason == {"complete", "failed"}

VARIABLES
  quads,   \* the content of the quad store
  op,      \* session -> the write in progress on it
  load,    \* reader -> its LoadGraph call
  subs,    \* reader -> its subscription
  log      \* history: session -> its nodes in the order they were applied

storeVars == <<quads, op, load, subs, log>>

idle == [call |-> "none"]

noLoad == [pc |-> "none"]

unsubscribed == [on |-> FALSE]

Init ==
  /\ quads = {}
  /\ op = [s \in Session |-> idle]
  /\ load = [r \in Reader |-> noLoad]
  /\ subs = [r \in Reader |-> unsubscribed]
  /\ log = [s \in Session |-> << >>]

-----------------------------------------------------------------------------
(* Queries.  Cayley returns values in no particular order (external). *)

outValues(subject, pred) ==
  {q[3] : q \in {x \in quads : x[1] = subject /\ x[2] = pred}}

inValues(object, pred) ==
  {q[1] : q \in {x \in quads : x[3] = object /\ x[2] = pred}}

\* What a caller of outValues that drops the error goes on with: the values, or
\* nothing at all.
queried(subject, pred) ==
  {outValues(subject, pred)} \cup (IF QueryFails THEN {{}} ELSE {})

\* vals[0], or the zero value of the variable it is assigned to.
firstOf(vals, zero) == IF vals = {} THEN {zero} ELSE vals

\* GetSession finds a session by its timestamp quad.
sessionExists(s) == outValues(s, "timestamp") # {}

\* The status it reports: one of the status quads, open without one.
sessionStatus(s) == UNION {firstOf(vals, "open") : vals \in queried(s, "status")}

storedNodes(s) == inValues(s, "session")

parentsOf(n) == outValues(n, "parent")

-----------------------------------------------------------------------------
(* Writes *)

CreateSession(s) ==
  /\ op[s] = idle
  /\ quads' = quads \cup {<<s, "timestamp", "created">>, <<s, "status", "open">>,
                          <<"sessions", "member", s>>}
  /\ UNCHANGED <<op, load, subs, log>>

\* Mutant: the edges are not in the batch of their node.
nodeToDeltasWithoutEdges(s, n, parents) ==
  {<<n, "session", s>>, <<n, "timestamp", "appended">>}

nodeToDeltas(s, n, parents) ==
  {<<n, "session", s>>, <<n, "timestamp", "appended">>}
    \cup {<<n, "parent", p>> : p \in parents}

\* The IDs no node has yet.
freshIDs ==
  ID \ ((UNION {ToSet(log[s]) : s \in Session})
          \cup {op[s].node : s \in {t \in Session : op[t].call = "write"}})

\* WriteNode looks the session up first.  The nodes come from a Graph: a new
\* ID, and parents already written, which only the first node lacks.
WriteNodeCheck(s, n, parents) ==
  /\ op[s] = idle
  /\ sessionExists(s)
  /\ parents = {} <=> log[s] = << >>
  /\ op' = [op EXCEPT ![s] = [call |-> "write", pc |-> "heads", node |-> n,
                              parents |-> parents, heads |-> {}]]
  /\ UNCHANGED <<quads, load, subs, log>>

WriteNodeReadHeads(s) ==
  /\ op[s].call = "write" /\ op[s].pc = "heads"
  /\ \E heads \in queried(s, "head") :
       op' = [op EXCEPT ![s].pc = "apply", ![s].heads = heads]
  /\ UNCHANGED <<quads, load, subs, log>>

\* Mutant: the old head quads stay.
WriteNodeApplyKeepingHeads(s) ==
  /\ op[s].call = "write" /\ op[s].pc = "apply"
  /\ quads' = quads \cup nodeToDeltas(s, op[s].node, op[s].parents)
                    \cup {<<s, "head", op[s].node>>}
  /\ op' = [op EXCEPT ![s].pc = "publish"]
  /\ log' = [log EXCEPT ![s] = Append(@, op[s].node)]
  /\ UNCHANGED <<load, subs>>

\* The batch deletes the heads read before and sets the new one.  It fails as a
\* whole when one of them is no longer there (IgnoreMissing is not set).
WriteNodeApply(s) ==
  LET old == {<<s, "head", h>> : h \in op[s].heads}
      new == nodeToDeltas(s, op[s].node, op[s].parents)
               \cup {<<s, "head", op[s].node>>}
  IN /\ op[s].call = "write" /\ op[s].pc = "apply"
     /\ IF old \subseteq quads
        THEN /\ quads' = (quads \ old) \cup new
             /\ op' = [op EXCEPT ![s].pc = "publish"]
             /\ log' = [log EXCEPT ![s] = Append(@, op[s].node)]
        ELSE /\ op' = [op EXCEPT ![s] = idle]
             /\ UNCHANGED <<quads, log>>
     /\ UNCHANGED <<load, subs>>

\* Mutant: the channel is registered twice.
publishTwice(sub, n) ==
  IF Len(sub.chan) + 1 < BufSize THEN [sub EXCEPT !.chan = @ \o <<n, n>>]
  ELSE [sub EXCEPT !.dropped = TRUE]

\* publish: a send that does not wait.  A full channel loses the node.
publish(sub, n) ==
  IF Len(sub.chan) < BufSize THEN [sub EXCEPT !.chan = Append(@, n)]
  ELSE [sub EXCEPT !.dropped = TRUE]

WriteNodePublish(s) ==
  /\ op[s].call = "write" /\ op[s].pc = "publish"
  /\ subs' = [r \in Reader |-> IF subs[r].on /\ subs[r].session = s
                               THEN publish(subs[r], op[s].node) ELSE subs[r]]
  /\ op' = [op EXCEPT ![s] = idle]
  /\ UNCHANGED <<quads, load, log>>

\* EndSession does not look the session up.  The terminal node is the caller's
\* head: a node it wrote, or none.
EndSessionReadStatus(s, reason, terminal) ==
  /\ op[s] = idle
  /\ \E old \in queried(s, "status") :
       op' = [op EXCEPT ![s] = [call |-> "end", reason |-> reason,
                                terminal |-> terminal, old |-> old]]
  /\ UNCHANGED <<quads, load, subs, log>>

EndSessionApply(s) ==
  /\ op[s].call = "end"
  /\ quads' = (quads \ {<<s, "status", v>> : v \in op[s].old})
                \cup {<<s, "status", "closed">>, <<s, "end_reason", op[s].reason>>,
                      <<s, "end_node", op[s].terminal>>}
  /\ op' = [op EXCEPT ![s] = idle]
  /\ UNCHANGED <<load, subs, log>>

-----------------------------------------------------------------------------
(* LoadGraph: four rounds of queries, then RestoreFromNodes *)

\* ids0 is history: the nodes stored when the call began.
LoadSession(r, s) ==
  /\ load[r].pc = "none"
  /\ sessionExists(s)
  /\ \E status \in sessionStatus(s) :
       load' = [load EXCEPT ![r] =
                  [pc |-> "head", session |-> s, closed |-> status = "closed",
                   head |-> NoID, reason |-> "none", terminal |-> NoID,
                   nodes |-> {}, ids0 |-> storedNodes(s)]]
  /\ UNCHANGED <<quads, op, subs, log>>

LoadHead(r) ==
  /\ load[r].pc = "head"
  /\ \E vals \in queried(load[r].session, "head") : \E h \in firstOf(vals, NoID) :
       load' = [load EXCEPT ![r].pc = IF load[r].closed THEN "end" ELSE "nodes",
                            ![r].head = h]
  /\ UNCHANGED <<quads, op, subs, log>>

LoadEnd(r) ==
  /\ load[r].pc = "end"
  /\ \E reasons \in queried(load[r].session, "end_reason"),
        terminals \in queried(load[r].session, "end_node") :
       \E reason \in firstOf(reasons, "none"), terminal \in firstOf(terminals, NoID) :
         load' = [load EXCEPT ![r].pc = "nodes", ![r].reason = reason,
                              ![r].terminal = terminal]
  /\ UNCHANGED <<quads, op, subs, log>>

\* Mutant: the node IDs are listed before the head is read.
LoadNodesListedFirst(r) ==
  /\ load[r].pc = "nodes"
  /\ load' = [load EXCEPT ![r].pc = "loaded", ![r].nodes = load[r].ids0]
  /\ UNCHANGED <<quads, op, subs, log>>

\* The node IDs, and GetNode on each.  A node's quads arrive in one batch and
\* never change, so the later queries see what this moment shows.
LoadNodes(r) ==
  /\ load[r].pc = "nodes"
  /\ load' = [load EXCEPT ![r].pc = "loaded",
                          ![r].nodes = storedNodes(load[r].session)]
  /\ UNCHANGED <<quads, op, subs, log>>

\* The listing of the nodes, or GetNode on one of them, returned an error.
LoadFails(r) ==
  /\ load[r].pc = "nodes"
  /\ load' = [load EXCEPT ![r] = noLoad]
  /\ UNCHANGED <<quads, op, subs, log>>

\* The caller drops the graph.
LoadDone(r) ==
  /\ load[r].pc = "loaded"
  /\ load' = [load EXCEPT ![r] = noLoad]
  /\ UNCHANGED <<quads, op, subs, log>>

-----------------------------------------------------------------------------
(* The publisher.  WatchSession composes these with the rest. *)

\* since is history: how many nodes of the session were stored at the time.
Watch(r, s) ==
  /\ ~subs[r].on
  /\ subs' = [subs EXCEPT ![r] = [on |-> TRUE, session |-> s, chan |-> << >>,
                                  dropped |-> FALSE, since |-> Len(log[s])]]
  /\ UNCHANGED <<quads, op, load, log>>

\* The subscriber takes the next node from its channel.
Receive(r) ==
  /\ subs[r].on /\ subs[r].chan # << >>
  /\ subs' = [subs EXCEPT ![r].chan = Tail(@)]
  /\ UNCHANGED <<quads, op, load, log>>

cancel(r) ==
  /\ subs[r].on
  /\ subs' = [subs EXCEPT ![r] = unsubscribed]
  /\ UNCHANGED <<quads, op, load, log>>

-----------------------------------------------------------------------------

Write(s) ==
  \/ CreateSession(s)
  \/ \E ps \in {p \in SUBSET ToSet(log[s]) : Cardinality(p) <= MaxParents} :
       freshIDs # {} /\ WriteNodeCheck(s, CHOOSE n \in freshIDs : TRUE, ps)
  \/ WriteNodeReadHeads(s) \/ WriteNodeApply(s)
  \/ WriteNodePublish(s)
  \/ \E reason \in Reason, terminal \in ToSet(log[s]) \cup {NoID} :
       /\ Cardinality(outValues(s, "end_node") \cup {terminal}) <= MaxTerminals
       /\ EndSessionReadStatus(s, reason, terminal)
  \/ EndSessionApply(s)

LoadGraph(r) ==
  \/ \E s \in Session : LoadSession(r, s)
  \/ LoadHead(r) \/ LoadEnd(r) \/ LoadNodes(r) \/ LoadFails(r) \/ LoadDone(r)

\* The process stops between any two steps and starts again: the quads are on
\* disk, the calls in progress and the subscriptions are gone.
Crash ==
  /\ op' = [s \in Session |-> idle]
  /\ load' = [r \in Reader |-> noLoad]
  /\ subs' = [r \in Reader |-> unsubscribed]
  /\ UNCHANGED <<quads, log>>

Next ==
  \/ \E s \in Session : Write(s)
  \/ \E r \in Reader : LoadGraph(r)
  \/ Crash

Spec == Init /\ [][Next]_storeVars

-----------------------------------------------------------------------------
(* Properties *)

Quad ==
  (Session \X {"timestamp"} \X {"created"})
    \cup (Session \X {"status"} \X {"open", "closed"})
    \cup ({"sessions"} \X {"member"} \X Session)
    \cup (Session \X {"head"} \X ID)
    \cup (Session \X {"end_reason"} \X Reason)
    \cup (Session \X {"end_node"} \X (ID \cup {NoID}))
    \cup (ID \X {"session"} \X Session)
    \cup (ID \X {"timestamp"} \X {"appended"})
    \cup (ID \X {"parent"} \X ID)

WriteOp == [call : {"write"}, pc : {"heads", "apply", "publish"}, node : ID,
            parents : SUBSET ID, heads : SUBSET ID]

EndOp == [call : {"end"}, reason : Reason, terminal : ID \cup {NoID},
          old : SUBSET {"open", "closed"}]

Loading == [pc : {"head", "end", "nodes", "loaded"}, session : Session,
            closed : BOOLEAN, head : ID \cup {NoID}, reason : Reason \cup {"none"},
            terminal : ID \cup {NoID}, nodes : SUBSET ID, ids0 : SUBSET ID]

Subscription == [on : {TRUE}, session : Session, chan : Seq(ID),
                 dropped : BOOLEAN, since : Nat]

\* Type correctness of the quads and of the calls in progress.
StoreTypeOK ==
  /\ quads \subseteq Quad
  /\ op \in [Session -> {idle} \cup WriteOp \cup EndOp]
  /\ load \in [Reader -> {noLoad} \cup Loading]
  /\ subs \in [Reader -> {unsubscribed} \cup Subscription]
  /\ log \in [Session -> Seq(ID)]

writing(s, pc) == op[s].call = "write" /\ op[s].pc = pc

\* A session with nodes has exactly one head quad and it is the node applied
\* last, between any two steps of WriteNode, after a crash at any of them, and
\* whatever runs in between; and the heads WriteNode read are still the heads
\* when it deletes them, so its batch never fails.
HeadIsLastApplied ==
  \A s \in Session :
    /\ outValues(s, "head") = IF log[s] = << >> THEN {} ELSE {Last(log[s])}
    /\ writing(s, "apply") => op[s].heads = outValues(s, "head")

\* The nodes of a session are the ones applied to it, and the parents of each
\* were applied before it: a node's quads are all there or none is.
NodesAreWhole ==
  \A s \in Session :
    /\ storedNodes(s) = ToSet(log[s])
    /\ \A i \in DOMAIN log[s] :
         /\ parentsOf(log[s][i]) \subseteq {log[s][j] : j \in 1..(i - 1)}
         /\ parentsOf(log[s][i]) = {} <=> i = 1

\* LoadGraph reads head, end and nodes at different moments, while writes go on.
\* The graph it returns still hangs together: every node stored when it began
\* is there, parents come with their children, the head and the terminal node
\* are among the nodes, and a graph loaded as closed has its reason.
LoadedGraphIsConsistent ==
  \A r \in Reader :
    load[r].pc = "loaded" =>
      LET g == load[r] IN
      /\ g.ids0 \subseteq g.nodes
      /\ \A n \in g.nodes : parentsOf(n) \subseteq g.nodes
      /\ {g.head, g.terminal} \subseteq g.nodes \cup {NoID}
      /\ g.head = NoID => g.ids0 = {}
      /\ g.closed <=> g.reason # "none"

\* The doc of WriteNode: it "upserts the session's head pointer".  However a call
\* went, a session has no second head.
HeadIsUnique ==
  \A s \in Session : Cardinality(outValues(s, "head")) <= 1

=============================================================================
