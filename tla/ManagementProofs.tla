-------------------------- MODULE ManagementProofs ---------------------------
(***************************************************************************)
(* Proofs about the Cayley store and about the management service over it, *)
(* for every set of sessions, IDs and readers, every buffer size and every *)
(* bound, when no query fails (the hypothesis ~QueryFails: a cancelled     *)
(* query breaks HeadIsUnique, see cayley_cancelled_query).  The invariant  *)
(* of the store comes first, then the one of the streams and calls; the    *)
(* paging of ListSessions, whose failed queries are its own, comes last.   *)
(* CommonFacts has what the history of a stream is.                        *)
(***************************************************************************)
EXTENDS Management, ListSessions, CommonFacts

-----------------------------------------------------------------------------
(* The inductive invariant of the store *)

\* A node ID is in one place of one log.
LogsAreDisjoint ==
  \A s, t \in Session :
    \A i \in DOMAIN log[s], j \in DOMAIN log[t] : log[s][i] = log[t][j] => s = t /\ i = j

\* Only applied nodes have parents.
UnappliedHaveNoParents ==
  \A n \in ID : (\A s \in Session : n \notin ToSet(log[s])) => parentsOf(n) = {}

\* The node of a write: nobody else's and in no log before it is applied, with
\* parents that were; the last one of its session after that.
WritesAreFresh ==
  /\ \A s \in Session :
       /\ writing(s, "heads") \/ writing(s, "apply") =>
            /\ \A t \in Session : op[s].node \notin ToSet(log[t])
            /\ op[s].parents \subseteq ToSet(log[s])
            /\ op[s].parents = {} <=> log[s] = << >>
       /\ writing(s, "publish") => log[s] # << >> /\ op[s].node = Last(log[s])
  /\ \A s, t \in Session :
       op[s].call = "write" /\ op[t].call = "write" /\ op[s].node = op[t].node => s = t

\* Terminal nodes, of calls in progress and stored, are nodes of their session;
\* a session with a closed status has a reason.
EndsAreRecorded ==
  \A s \in Session :
    /\ op[s].call = "end" => op[s].terminal \in ToSet(log[s]) \cup {NoID}
    /\ outValues(s, "end_node") \subseteq ToSet(log[s]) \cup {NoID}
    /\ "closed" \in outValues(s, "status") => outValues(s, "end_reason") # {}

\* What a LoadGraph call holds after each of its queries.
LoadHolds(g) ==
  LET stored == ToSet(log[g.session]) IN
  /\ g.ids0 \subseteq stored
  /\ {g.head, g.terminal} \subseteq stored \cup {NoID}
  /\ g.pc # "head" /\ g.head = NoID => g.ids0 = {}
  /\ g.pc = "end" => g.closed
  /\ g.pc \in {"head", "end"} => g.reason = "none"
  /\ g.closed => outValues(g.session, "end_reason") # {}
  /\ g.pc \in {"nodes", "loaded"} => (g.closed <=> g.reason # "none")
  /\ g.pc = "loaded" =>
       /\ g.ids0 \subseteq g.nodes /\ g.nodes \subseteq stored
       /\ {g.head, g.terminal} \subseteq g.nodes \cup {NoID}
       /\ \A n \in g.nodes : parentsOf(n) \subseteq g.nodes

LoadsAreSound == \A r \in Reader : load[r].pc # "none" => LoadHolds(load[r])

StoreInv ==
  /\ StoreTypeOK
  /\ HeadIsLastApplied
  /\ NodesAreWhole
  /\ LogsAreDisjoint
  /\ UnappliedHaveNoParents
  /\ WritesAreFresh
  /\ EndsAreRecorded
  /\ LoadsAreSound

-----------------------------------------------------------------------------
(* Steps *)

\* A subscriber whose LoadGraph call failed gives both up.
GiveUp(r) ==
  /\ load' = [load EXCEPT ![r] = noLoad]
  /\ subs' = [subs EXCEPT ![r] = unsubscribed]
  /\ UNCHANGED <<quads, op, log>>

\* What the users of the store do to it.
StoreStep ==
  \/ \E s \in Session : Write(s)
  \/ \E r \in Reader : LoadGraph(r) \/ Receive(r) \/ cancel(r) \/ GiveUp(r)
  \/ \E r \in Reader, s \in Session : Watch(r, s)
  \/ Crash

\* The write actions, with what their callers guarantee.
LEMMA WriteCases ==
  ASSUME StoreTypeOK, NEW s \in Session, Write(s)
  PROVE  \/ CreateSession(s)
         \/ \E n \in freshIDs, ps \in SUBSET ToSet(log[s]) : WriteNodeCheck(s, n, ps)
         \/ WriteNodeReadHeads(s)
         \/ WriteNodeApply(s)
         \/ WriteNodePublish(s)
         \/ \E reason \in Reason, terminal \in ToSet(log[s]) \cup {NoID} :
              EndSessionReadStatus(s, reason, terminal)
         \/ EndSessionApply(s)
BY DEF Write

\* A query sees the object of every quad with its subject and predicate.
LEMMA QueryMember ==
  ASSUME StoreTypeOK, NEW a, NEW p, NEW x
  PROVE  /\ x \in outValues(a, p) <=> <<a, p, x>> \in quads
         /\ a \in inValues(x, p) <=> <<a, p, x>> \in quads
<1>1. \A q \in quads : q = <<q[1], q[2], q[3]>>
  BY DEF StoreTypeOK, Quad
<1> QED
  BY <1>1 DEF outValues, inValues

\* The quads of each predicate.
LEMMA QuadTypes ==
  ASSUME StoreTypeOK
  PROVE  /\ \A a, x : <<a, "head", x>> \in quads => a \in Session /\ x \in ID
         /\ \A a, x : <<a, "session", x>> \in quads => a \in ID /\ x \in Session
         /\ \A a, x : <<a, "parent", x>> \in quads => a \in ID /\ x \in ID
         /\ \A a, x : <<a, "status", x>> \in quads => a \in Session /\ x \in {"open", "closed"}
         /\ \A a, x : <<a, "end_reason", x>> \in quads => a \in Session /\ x \in Reason
         /\ \A a, x : <<a, "end_node", x>> \in quads => a \in Session /\ x \in ID \cup {NoID}
BY DEF StoreTypeOK, Quad

\* The values queries return.
LEMMA QueryTypes ==
  ASSUME StoreTypeOK
  PROVE  /\ \A a : outValues(a, "head") \subseteq ID
         /\ \A a : storedNodes(a) \subseteq ID
         /\ \A a : parentsOf(a) \subseteq ID
         /\ \A a : outValues(a, "status") \subseteq {"open", "closed"}
         /\ \A a : outValues(a, "end_reason") \subseteq Reason
         /\ \A a : outValues(a, "end_node") \subseteq ID \cup {NoID}
BY QueryMember, QuadTypes DEF storedNodes, parentsOf

\* A query that does not fail returns what is stored.
LEMMA QuerySucceeds ==
  ASSUME ~QueryFails, NEW a, NEW p
  PROVE  queried(a, p) = {outValues(a, p)}
BY DEF queried

-----------------------------------------------------------------------------
(* Type correctness *)

\* An ID that is fresh is an ID.
LEMMA FreshIsID ==
  ASSUME NEW n \in freshIDs
  PROVE  /\ n \in ID
         /\ \A t \in Session : n \notin ToSet(log[t])
         /\ \A t \in Session : op[t].call = "write" => op[t].node # n
BY DEF freshIDs

\* Every write preserves the types.
LEMMA TypeWrite ==
  ASSUME StoreTypeOK, NEW s \in Session, Write(s)
  PROVE  StoreTypeOK'
<1>1. op[s] \in {idle} \cup WriteOp \cup EndOp /\ log[s] \in Seq(ID)
  BY DEF StoreTypeOK
<1>2. ToSet(log[s]) \subseteq ID
  BY <1>1, ToSetMember
<1>3. CASE CreateSession(s)
  BY <1>3 DEF CreateSession, StoreTypeOK, Quad
<1>4. ASSUME NEW n \in freshIDs, NEW ps \in SUBSET ToSet(log[s]), WriteNodeCheck(s, n, ps)
      PROVE  StoreTypeOK'
  <2>1. [call |-> "write", pc |-> "heads", node |-> n, parents |-> ps, heads |-> {}] \in WriteOp
    BY <1>2, FreshIsID DEF WriteOp
  <2> QED
    BY <1>4, <2>1 DEF WriteNodeCheck, StoreTypeOK
<1>5. CASE WriteNodeReadHeads(s)
  <2>1. PICK heads \in queried(s, "head") :
          op' = [op EXCEPT ![s].pc = "apply", ![s].heads = heads]
    BY <1>5 DEF WriteNodeReadHeads
  <2>2. heads \subseteq ID
    BY <2>1, QueryTypes DEF queried
  <2>3. op[s] \in WriteOp
    BY <1>1, <1>5 DEF WriteNodeReadHeads, idle, EndOp
  <2>4. [op[s] EXCEPT !.pc = "apply", !.heads = heads] \in WriteOp
    BY <2>2, <2>3 DEF WriteOp
  <2> QED
    BY <1>5, <2>1, <2>4 DEF WriteNodeReadHeads, StoreTypeOK
<1>6. CASE WriteNodeApply(s)
  <2>1. op[s] \in WriteOp
    BY <1>1, <1>6 DEF WriteNodeApply, idle, EndOp
  <2>2. op[s].node \in ID /\ op[s].parents \subseteq ID
    BY <2>1 DEF WriteOp
  <2>3. nodeToDeltas(s, op[s].node, op[s].parents) \cup {<<s, "head", op[s].node>>} \subseteq Quad
    BY <2>2 DEF nodeToDeltas, Quad
  <2>4. [op[s] EXCEPT !.pc = "publish"] \in WriteOp
    BY <2>1 DEF WriteOp
  <2>5. Append(log[s], op[s].node) \in Seq(ID)
    BY <1>1, <2>2, AppendPositions
  <2> QED
    BY <1>6, <2>3, <2>4, <2>5 DEF WriteNodeApply, StoreTypeOK
<1>7. CASE WriteNodePublish(s)
  <2>1. op[s] \in WriteOp
    BY <1>1, <1>7 DEF WriteNodePublish, idle, EndOp
  <2>2. op[s].node \in ID
    BY <2>1 DEF WriteOp
  <2>3. ASSUME NEW r \in Reader, subs[r].on
        PROVE  publish(subs[r], op[s].node) \in Subscription
    <3>1. subs[r] \in Subscription
      BY <2>3 DEF StoreTypeOK, unsubscribed
    <3>2. Append(subs[r].chan, op[s].node) \in Seq(ID)
      BY <2>2, <3>1, AppendPositions DEF Subscription
    <3> QED
      BY <3>1, <3>2 DEF publish, Subscription
  <2>4. subs' \in [Reader -> {unsubscribed} \cup Subscription]
    BY <1>7, <2>3 DEF WriteNodePublish, StoreTypeOK
  <2> QED
    BY <1>7, <2>4 DEF WriteNodePublish, StoreTypeOK
<1>8. ASSUME NEW reason \in Reason, NEW terminal \in ToSet(log[s]) \cup {NoID},
             EndSessionReadStatus(s, reason, terminal)
      PROVE  StoreTypeOK'
  <2>1. PICK old \in queried(s, "status") :
          op' = [op EXCEPT ![s] = [call |-> "end", reason |-> reason,
                                   terminal |-> terminal, old |-> old]]
    BY <1>8 DEF EndSessionReadStatus
  <2>2. old \subseteq {"open", "closed"}
    BY <2>1, QueryTypes DEF queried
  <2>3. [call |-> "end", reason |-> reason, terminal |-> terminal, old |-> old] \in EndOp
    BY <1>2, <2>2 DEF EndOp
  <2> QED
    BY <1>8, <2>1, <2>3 DEF EndSessionReadStatus, StoreTypeOK
<1>9. CASE EndSessionApply(s)
  <2>1. op[s] \in EndOp
    BY <1>1, <1>9 DEF EndSessionApply, idle, WriteOp
  <2>2. {<<s, "status", "closed">>, <<s, "end_reason", op[s].reason>>,
         <<s, "end_node", op[s].terminal>>} \subseteq Quad
    BY <2>1 DEF EndOp, Quad
  <2> QED
    BY <1>9, <2>2 DEF EndSessionApply, StoreTypeOK
<1> QED
  BY WriteCases, <1>3, <1>4, <1>5, <1>6, <1>7, <1>8, <1>9

\* Every query of LoadGraph, and its end, preserves the types.
LEMMA TypeLoad ==
  ASSUME StoreTypeOK, NEW r \in Reader, LoadGraph(r)
  PROVE  StoreTypeOK'
<1>1. load[r].pc # "none" => load[r] \in Loading
  BY DEF StoreTypeOK, noLoad
<1>2. ASSUME NEW s \in Session, LoadSession(r, s)
      PROVE  StoreTypeOK'
  <2>1. PICK c \in BOOLEAN :
          load' = [load EXCEPT ![r] =
                     [pc |-> "head", session |-> s, closed |-> c, head |-> NoID,
                      reason |-> "none", terminal |-> NoID, nodes |-> {},
                      ids0 |-> storedNodes(s)]]
    BY <1>2 DEF LoadSession
  <2>2. [pc |-> "head", session |-> s, closed |-> c, head |-> NoID, reason |-> "none",
         terminal |-> NoID, nodes |-> {}, ids0 |-> storedNodes(s)] \in Loading
    BY QueryTypes DEF Loading
  <2> QED
    BY <1>2, <2>1, <2>2 DEF LoadSession, StoreTypeOK
<1>3. CASE LoadHead(r)
  <2>1. PICK vals \in queried(load[r].session, "head") : \E h \in firstOf(vals, NoID) :
          load' = [load EXCEPT ![r].pc = IF load[r].closed THEN "end" ELSE "nodes",
                               ![r].head = h]
    BY <1>3 DEF LoadHead
  <2>2. PICK h \in firstOf(vals, NoID) :
          load' = [load EXCEPT ![r].pc = IF load[r].closed THEN "end" ELSE "nodes",
                               ![r].head = h]
    BY <2>1
  <2>3. h \in ID \cup {NoID}
    BY <2>1, <2>2, QueryTypes DEF queried, firstOf
  <2>4. load[r] \in Loading
    BY <1>1, <1>3 DEF LoadHead
  <2>5. [load[r] EXCEPT !.pc = IF load[r].closed THEN "end" ELSE "nodes", !.head = h] \in Loading
    BY <2>3, <2>4 DEF Loading
  <2> QED
    BY <1>3, <2>2, <2>5 DEF LoadHead, StoreTypeOK
<1>4. CASE LoadEnd(r)
  <2>1. PICK reasons \in queried(load[r].session, "end_reason"),
             terminals \in queried(load[r].session, "end_node") :
          \E reason \in firstOf(reasons, "none"), terminal \in firstOf(terminals, NoID) :
            load' = [load EXCEPT ![r].pc = "nodes", ![r].reason = reason,
                                 ![r].terminal = terminal]
    BY <1>4 DEF LoadEnd
  <2>2. PICK reason \in firstOf(reasons, "none"), terminal \in firstOf(terminals, NoID) :
          load' = [load EXCEPT ![r].pc = "nodes", ![r].reason = reason,
                               ![r].terminal = terminal]
    BY <2>1
  <2>3. reason \in Reason \cup {"none"} /\ terminal \in ID \cup {NoID}
    BY <2>1, <2>2, QueryTypes DEF queried, firstOf
  <2>4. load[r] \in Loading
    BY <1>1, <1>4 DEF LoadEnd
  <2>5. [load[r] EXCEPT !.pc = "nodes", !.reason = reason, !.terminal = terminal] \in Loading
    BY <2>3, <2>4 DEF Loading
  <2> QED
    BY <1>4, <2>2, <2>5 DEF LoadEnd, StoreTypeOK
<1>5. CASE LoadNodes(r)
  <2>1. load[r] \in Loading
    BY <1>1, <1>5 DEF LoadNodes
  <2>2. [load[r] EXCEPT !.pc = "loaded", !.nodes = storedNodes(load[r].session)] \in Loading
    BY <2>1, QueryTypes DEF Loading
  <2> QED
    BY <1>5, <2>2 DEF LoadNodes, StoreTypeOK
<1>6. CASE LoadFails(r) \/ LoadDone(r)
  BY <1>6 DEF LoadFails, LoadDone, StoreTypeOK
<1> QED
  BY <1>2, <1>3, <1>4, <1>5, <1>6 DEF LoadGraph

\* So does what subscribers do, and a crash.
LEMMA TypeOther ==
  ASSUME StoreTypeOK,
         \/ \E r \in Reader : Receive(r) \/ cancel(r) \/ GiveUp(r)
         \/ \E r \in Reader, s \in Session : Watch(r, s)
         \/ Crash
  PROVE  StoreTypeOK'
<1>1. ASSUME NEW r \in Reader, Receive(r)
      PROVE  StoreTypeOK'
  <2>1. subs[r] \in Subscription
    BY <1>1 DEF Receive, StoreTypeOK, unsubscribed
  <2>2. Tail(subs[r].chan) \in Seq(ID)
    BY <1>1, <2>1, TailPositions DEF Receive, Subscription
  <2>3. [subs[r] EXCEPT !.chan = Tail(@)] \in Subscription
    BY <2>1, <2>2 DEF Subscription
  <2> QED
    BY <1>1, <2>3 DEF Receive, StoreTypeOK
<1>2. ASSUME NEW r \in Reader, cancel(r) \/ GiveUp(r)
      PROVE  StoreTypeOK'
  BY <1>2 DEF cancel, GiveUp, StoreTypeOK
<1>3. ASSUME NEW r \in Reader, NEW s \in Session, Watch(r, s)
      PROVE  StoreTypeOK'
  <2>1. Len(log[s]) \in Nat
    BY DEF StoreTypeOK
  <2>2. [on |-> TRUE, session |-> s, chan |-> << >>, dropped |-> FALSE,
         since |-> Len(log[s])] \in Subscription
    BY <2>1 DEF Subscription
  <2> QED
    BY <1>3, <2>2 DEF Watch, StoreTypeOK
<1>4. CASE Crash
  BY <1>4 DEF Crash, StoreTypeOK
<1> QED
  BY <1>1, <1>2, <1>3, <1>4

\* So does every step.
LEMMA TypeStep ==
  ASSUME StoreTypeOK, StoreStep
  PROVE  StoreTypeOK'
BY TypeWrite, TypeLoad, TypeOther DEF StoreStep

-----------------------------------------------------------------------------
(* What a write does to the answers of the queries *)

\* The queries that the invariant is about give the same answers as before.
SameAnswers ==
  /\ \A a : outValues(a, "head")' = outValues(a, "head")
  /\ \A a : storedNodes(a)' = storedNodes(a)
  /\ \A a : parentsOf(a)' = parentsOf(a)
  /\ \A a : outValues(a, "status")' = outValues(a, "status")
  /\ \A a : outValues(a, "end_reason")' = outValues(a, "end_reason")
  /\ \A a : outValues(a, "end_node")' = outValues(a, "end_node")

\* A step that leaves the quads alone changes no answer.
LEMMA SameQuads ==
  ASSUME quads' = quads
  PROVE  SameAnswers
BY DEF SameAnswers, outValues, storedNodes, inValues, parentsOf

\* The values of one query after a step, from the quads after it.
LEMMA QueryMemberAfter ==
  ASSUME StoreTypeOK', NEW a, NEW p, NEW x
  PROVE  /\ x \in outValues(a, p)' <=> <<a, p, x>> \in quads'
         /\ a \in inValues(x, p)' <=> <<a, p, x>> \in quads'
<1>1. \A q \in quads' : q = <<q[1], q[2], q[3]>>
  BY DEF StoreTypeOK, Quad
<1> QED
  BY <1>1 DEF outValues, inValues

\* A step that leaves the quads of a subject and a predicate alone leaves the
\* values.
LEMMA SameOut ==
  ASSUME StoreTypeOK, StoreTypeOK', NEW a, NEW p,
         \A x : <<a, p, x>> \in quads' <=> <<a, p, x>> \in quads
  PROVE  outValues(a, p)' = outValues(a, p)
<1>1. \A q \in quads' : q = <<q[1], q[2], q[3]>>
  BY DEF StoreTypeOK, Quad
<1>2. \A q \in quads : q = <<q[1], q[2], q[3]>>
  BY DEF StoreTypeOK, Quad
<1> QED
  BY <1>1, <1>2 DEF outValues

\* The same for the subjects of an object.
LEMMA SameIn ==
  ASSUME StoreTypeOK, StoreTypeOK', NEW x, NEW p,
         \A a : <<a, p, x>> \in quads' <=> <<a, p, x>> \in quads
  PROVE  inValues(x, p)' = inValues(x, p)
<1>1. \A q \in quads' : q = <<q[1], q[2], q[3]>>
  BY DEF StoreTypeOK, Quad
<1>2. \A q \in quads : q = <<q[1], q[2], q[3]>>
  BY DEF StoreTypeOK, Quad
<1> QED
  BY <1>1, <1>2 DEF inValues

\* CreateSession changes the status alone, and never to closed.
LEMMA CreateEffect ==
  ASSUME StoreTypeOK, StoreTypeOK', NEW s \in Session, CreateSession(s)
  PROVE  /\ \A a : outValues(a, "head")' = outValues(a, "head")
         /\ \A a : storedNodes(a)' = storedNodes(a)
         /\ \A a : parentsOf(a)' = parentsOf(a)
         /\ \A a : "closed" \in outValues(a, "status")' => "closed" \in outValues(a, "status")
         /\ \A a : outValues(a, "end_reason")' = outValues(a, "end_reason")
         /\ \A a : outValues(a, "end_node")' = outValues(a, "end_node")
<1>1. \A a, p, x : p \in {"head", "session", "parent", "end_reason", "end_node"} =>
        (<<a, p, x>> \in quads' <=> <<a, p, x>> \in quads)
  BY DEF CreateSession
<1>2. \A a : <<a, "status", "closed">> \in quads' => <<a, "status", "closed">> \in quads
  BY DEF CreateSession
<1>3. \A a : "closed" \in outValues(a, "status")' => "closed" \in outValues(a, "status")
  BY <1>2, QueryMember, QueryMemberAfter
<1> QED
  BY <1>1, <1>3, SameOut, SameIn DEF storedNodes, parentsOf

\* WriteNodeApply adds the node with its parents and makes it the head.
LEMMA ApplyEffect ==
  ASSUME StoreTypeOK, StoreTypeOK', NEW s \in Session, NEW n, WriteNodeApply(s),
         n = op[s].node, op[s].heads = outValues(s, "head"), parentsOf(n) = {}
  PROVE  /\ op' = [op EXCEPT ![s].pc = "publish"]
         /\ log' = [log EXCEPT ![s] = Append(@, n)]
         /\ outValues(s, "head")' = {n}
         /\ \A a \in Session : a # s => outValues(a, "head")' = outValues(a, "head")
         /\ storedNodes(s)' = storedNodes(s) \cup {n}
         /\ \A a \in Session : a # s => storedNodes(a)' = storedNodes(a)
         /\ parentsOf(n)' = op[s].parents
         /\ \A a : a # n => parentsOf(a)' = parentsOf(a)
         /\ \A a : outValues(a, "status")' = outValues(a, "status")
         /\ \A a : outValues(a, "end_reason")' = outValues(a, "end_reason")
         /\ \A a : outValues(a, "end_node")' = outValues(a, "end_node")
<1> DEFINE old == {<<s, "head", h>> : h \in op[s].heads}
           new == nodeToDeltas(s, n, op[s].parents) \cup {<<s, "head", n>>}
<1>1. \A h \in op[s].heads : <<s, "head", h>> \in quads
  BY QueryMember
<1>2. old \subseteq quads
  BY <1>1
<1>3. /\ quads' = (quads \ old) \cup new
      /\ op' = [op EXCEPT ![s].pc = "publish"]
      /\ log' = [log EXCEPT ![s] = Append(@, n)]
  BY <1>2 DEF WriteNodeApply
<1>4. \A a, p, x : <<a, p, x>> \in old <=> a = s /\ p = "head" /\ x \in op[s].heads
  OBVIOUS
<1>5. \A a, p, x : <<a, p, x>> \in new <=>
        \/ a = n /\ p = "session" /\ x = s
        \/ a = n /\ p = "timestamp" /\ x = "appended"
        \/ a = n /\ p = "parent" /\ x \in op[s].parents
        \/ a = s /\ p = "head" /\ x = n
  BY DEF nodeToDeltas
<1> HIDE DEF old, new
<1>6. \A a, p, x : <<a, p, x>> \in quads' <=>
        \/ <<a, p, x>> \in quads /\ ~(a = s /\ p = "head" /\ x \in op[s].heads)
        \/ a = n /\ p = "session" /\ x = s
        \/ a = n /\ p = "timestamp" /\ x = "appended"
        \/ a = n /\ p = "parent" /\ x \in op[s].parents
        \/ a = s /\ p = "head" /\ x = n
  <2> TAKE a, p, x
  <2>1. <<a, p, x>> \in quads' <=> (<<a, p, x>> \in quads /\ <<a, p, x>> \notin old)
                                   \/ <<a, p, x>> \in new
    BY <1>3
  <2>2. <<a, p, x>> \in old <=> a = s /\ p = "head" /\ x \in op[s].heads
    BY <1>4
  <2>3. <<a, p, x>> \in new <=>
          \/ a = n /\ p = "session" /\ x = s
          \/ a = n /\ p = "timestamp" /\ x = "appended"
          \/ a = n /\ p = "parent" /\ x \in op[s].parents
          \/ a = s /\ p = "head" /\ x = n
    BY <1>5
  <2> QED
    BY <2>1, <2>2, <2>3
<1>7. \A x : <<s, "head", x>> \in quads' <=> x = n
  BY <1>6, QueryMember
<1>8. outValues(s, "head")' = {n}
  BY <1>7, QueryMemberAfter
<1>9. ASSUME NEW a \in Session, a # s
      PROVE  outValues(a, "head")' = outValues(a, "head") /\ storedNodes(a)' = storedNodes(a)
  <2>1. \A x : <<a, "head", x>> \in quads' <=> <<a, "head", x>> \in quads
    BY <1>6, <1>9
  <2>2. \A x : <<x, "session", a>> \in quads' <=> <<x, "session", a>> \in quads
    BY <1>6, <1>9
  <2> QED
    BY <2>1, <2>2, SameOut, SameIn DEF storedNodes
<1>10. \A x : x \in storedNodes(s)' <=> x \in storedNodes(s) \/ x = n
  BY <1>6, QueryMember, QueryMemberAfter DEF storedNodes
<1>11. storedNodes(s)' = storedNodes(s) \cup {n}
  BY <1>10 DEF storedNodes, inValues
<1>12. \A x : x \in parentsOf(n)' <=> x \in op[s].parents
  <2>1. \A x : <<n, "parent", x>> \notin quads
    BY QueryMember DEF parentsOf
  <2>2. \A x : <<n, "parent", x>> \in quads' <=> x \in op[s].parents
    BY <1>6, <2>1
  <2> QED
    BY <2>2, QueryMemberAfter DEF parentsOf
<1>13. parentsOf(n)' = op[s].parents
  BY <1>12 DEF parentsOf, outValues
<1>14. \A a : a # n => parentsOf(a)' = parentsOf(a)
  <2>1. \A a, x : a # n => (<<a, "parent", x>> \in quads' <=> <<a, "parent", x>> \in quads)
    BY <1>6
  <2> QED
    BY <2>1, SameOut DEF parentsOf
<1>15. \A a, p, x : p \in {"status", "end_reason", "end_node"} =>
         (<<a, p, x>> \in quads' <=> <<a, p, x>> \in quads)
  BY <1>6
<1>16. \A a, p : p \in {"status", "end_reason", "end_node"} => outValues(a, p)' = outValues(a, p)
  BY <1>15, SameOut
<1> QED
  BY <1>3, <1>8, <1>9, <1>11, <1>13, <1>14, <1>16

\* EndSessionApply records the end and closes the status.
LEMMA EndEffect ==
  ASSUME StoreTypeOK, StoreTypeOK', NEW s \in Session, EndSessionApply(s)
  PROVE  /\ \A a : outValues(a, "head")' = outValues(a, "head")
         /\ \A a : storedNodes(a)' = storedNodes(a)
         /\ \A a : parentsOf(a)' = parentsOf(a)
         /\ \A a : a # s => outValues(a, "status")' = outValues(a, "status")
         /\ \A a : a # s => outValues(a, "end_reason")' = outValues(a, "end_reason")
         /\ \A a : a # s => outValues(a, "end_node")' = outValues(a, "end_node")
         /\ op[s].reason \in outValues(s, "end_reason")'
         /\ outValues(s, "end_node")' = outValues(s, "end_node") \cup {op[s].terminal}
<1> DEFINE old == {<<s, "status", v>> : v \in op[s].old}
<1>1. \A a, p, x : <<a, p, x>> \in old <=> a = s /\ p = "status" /\ x \in op[s].old
  OBVIOUS
<1>2. quads' = (quads \ old) \cup {<<s, "status", "closed">>, <<s, "end_reason", op[s].reason>>,
                                   <<s, "end_node", op[s].terminal>>}
  BY DEF EndSessionApply
<1> HIDE DEF old
<1>3. \A a, p, x : <<a, p, x>> \in quads' <=>
        \/ <<a, p, x>> \in quads /\ ~(a = s /\ p = "status" /\ x \in op[s].old)
        \/ a = s /\ p = "status" /\ x = "closed"
        \/ a = s /\ p = "end_reason" /\ x = op[s].reason
        \/ a = s /\ p = "end_node" /\ x = op[s].terminal
  BY <1>1, <1>2
<1>4. \A a, p, x : p \in {"head", "session", "parent"} =>
        (<<a, p, x>> \in quads' <=> <<a, p, x>> \in quads)
  BY <1>3
<1>5. \A a, p, x : a # s => (<<a, p, x>> \in quads' <=> <<a, p, x>> \in quads)
  BY <1>3
<1>6. op[s].reason \in outValues(s, "end_reason")'
  BY <1>3, QueryMemberAfter
<1>7. \A x : x \in outValues(s, "end_node")' <=> x \in outValues(s, "end_node") \/ x = op[s].terminal
  <2>1. \A x : <<s, "end_node", x>> \in quads' <=> <<s, "end_node", x>> \in quads \/ x = op[s].terminal
    BY <1>3
  <2> QED
    BY <2>1, QueryMember, QueryMemberAfter
<1>8. outValues(s, "end_node")' = outValues(s, "end_node") \cup {op[s].terminal}
  BY <1>7 DEF outValues
<1> QED
  BY <1>4, <1>5, <1>6, <1>8, SameOut, SameIn DEF storedNodes, parentsOf

-----------------------------------------------------------------------------
(* The writes *)

\* The part of the invariant that is about the quads and the writes.
WriteInv ==
  /\ StoreTypeOK
  /\ HeadIsLastApplied
  /\ NodesAreWhole
  /\ LogsAreDisjoint
  /\ UnappliedHaveNoParents
  /\ WritesAreFresh
  /\ EndsAreRecorded

\* Reads, subscribers and a crash leave the quads and the logs alone, and a
\* write in progress goes on or is gone.
LEMMA WriteInvQuiet ==
  ASSUME WriteInv, StoreTypeOK', quads' = quads, log' = log,
         \A s \in Session : op'[s] = op[s] \/ op'[s] = idle
  PROVE  WriteInv'
<1>1. SameAnswers
  BY SameQuads
<1>2. \A s \in Session : op'[s].call = "write" \/ op'[s].call = "end" => op'[s] = op[s]
  BY DEF idle
<1>3. HeadIsLastApplied'
  BY <1>1, <1>2 DEF WriteInv, HeadIsLastApplied, SameAnswers, writing
<1>4. NodesAreWhole'
  BY <1>1 DEF WriteInv, NodesAreWhole, SameAnswers
<1>5. LogsAreDisjoint' /\ UnappliedHaveNoParents'
  BY <1>1 DEF WriteInv, LogsAreDisjoint, UnappliedHaveNoParents, SameAnswers
<1>6. WritesAreFresh'
  BY <1>2 DEF WriteInv, WritesAreFresh, writing
<1>7. EndsAreRecorded'
  BY <1>1, <1>2 DEF WriteInv, EndsAreRecorded, SameAnswers
<1> QED
  BY <1>3, <1>4, <1>5, <1>6, <1>7 DEF WriteInv

\* CreateSession.
LEMMA WriteInvCreate ==
  ASSUME WriteInv, StoreTypeOK', NEW s \in Session, CreateSession(s)
  PROVE  WriteInv'
<1>1. /\ \A a : outValues(a, "head")' = outValues(a, "head")
      /\ \A a : storedNodes(a)' = storedNodes(a)
      /\ \A a : parentsOf(a)' = parentsOf(a)
      /\ \A a : "closed" \in outValues(a, "status")' => "closed" \in outValues(a, "status")
      /\ \A a : outValues(a, "end_reason")' = outValues(a, "end_reason")
      /\ \A a : outValues(a, "end_node")' = outValues(a, "end_node")
  BY CreateEffect DEF WriteInv
<1>2. op' = op /\ log' = log
  BY DEF CreateSession
<1>3. HeadIsLastApplied'
  BY <1>1, <1>2 DEF WriteInv, HeadIsLastApplied, writing
<1>4. NodesAreWhole'
  BY <1>1, <1>2 DEF WriteInv, NodesAreWhole
<1>5. LogsAreDisjoint' /\ UnappliedHaveNoParents'
  BY <1>1, <1>2 DEF WriteInv, LogsAreDisjoint, UnappliedHaveNoParents
<1>6. WritesAreFresh'
  BY <1>2 DEF WriteInv, WritesAreFresh, writing
<1>7. EndsAreRecorded'
  BY <1>1, <1>2 DEF WriteInv, EndsAreRecorded
<1> QED
  BY <1>3, <1>4, <1>5, <1>6, <1>7 DEF WriteInv

\* WriteNode, before its batch: a new node, and then the heads.
LEMMA WriteInvCheck ==
  ASSUME WriteInv, StoreTypeOK', NEW s \in Session, NEW n \in freshIDs,
         NEW ps \in SUBSET ToSet(log[s]), WriteNodeCheck(s, n, ps)
  PROVE  WriteInv'
<1>1. SameAnswers /\ quads' = quads /\ log' = log
  BY SameQuads DEF WriteNodeCheck
<1>2. /\ op'[s] = [call |-> "write", pc |-> "heads", node |-> n, parents |-> ps, heads |-> {}]
      /\ \A t \in Session : t # s => op'[t] = op[t]
  BY DEF WriteNodeCheck, WriteInv, StoreTypeOK
<1>3. /\ \A t \in Session : n \notin ToSet(log[t])
      /\ \A t \in Session : op[t].call = "write" => op[t].node # n
      /\ ps = {} <=> log[s] = << >>
  BY FreshIsID DEF WriteNodeCheck
<1>4. HeadIsLastApplied'
  BY <1>1, <1>2 DEF WriteInv, HeadIsLastApplied, SameAnswers, writing
<1>5. NodesAreWhole'
  BY <1>1 DEF WriteInv, NodesAreWhole, SameAnswers
<1>6. LogsAreDisjoint' /\ UnappliedHaveNoParents'
  BY <1>1 DEF WriteInv, LogsAreDisjoint, UnappliedHaveNoParents, SameAnswers
<1>7. WritesAreFresh'
  BY <1>1, <1>2, <1>3 DEF WriteInv, WritesAreFresh, writing
<1>8. EndsAreRecorded'
  BY <1>1, <1>2 DEF WriteInv, EndsAreRecorded, SameAnswers
<1> QED
  BY <1>4, <1>5, <1>6, <1>7, <1>8 DEF WriteInv

\* The heads it reads are the heads there are.
LEMMA WriteInvReadHeads ==
  ASSUME ~QueryFails, WriteInv, StoreTypeOK', NEW s \in Session, WriteNodeReadHeads(s)
  PROVE  WriteInv'
<1>1. SameAnswers /\ quads' = quads /\ log' = log
  BY SameQuads DEF WriteNodeReadHeads
<1>2. PICK heads \in queried(s, "head") :
        op' = [op EXCEPT ![s].pc = "apply", ![s].heads = heads]
  BY DEF WriteNodeReadHeads
<1>3. op[s] \in WriteOp /\ heads = outValues(s, "head")
  BY <1>2, QuerySucceeds DEF WriteInv, StoreTypeOK, WriteNodeReadHeads, idle, EndOp
<1>4. /\ op'[s].call = "write" /\ op'[s].pc = "apply" /\ op'[s].node = op[s].node
      /\ op'[s].parents = op[s].parents /\ op'[s].heads = outValues(s, "head")
      /\ \A t \in Session : t # s => op'[t] = op[t]
      /\ op[s].call = "write" /\ op[s].pc = "heads"
  BY <1>2, <1>3 DEF WriteInv, StoreTypeOK, WriteOp, WriteNodeReadHeads
<1>5. HeadIsLastApplied'
  BY <1>1, <1>4 DEF WriteInv, HeadIsLastApplied, SameAnswers, writing
<1>6. NodesAreWhole'
  BY <1>1 DEF WriteInv, NodesAreWhole, SameAnswers
<1>7. LogsAreDisjoint' /\ UnappliedHaveNoParents'
  BY <1>1 DEF WriteInv, LogsAreDisjoint, UnappliedHaveNoParents, SameAnswers
<1>8. WritesAreFresh'
  BY <1>1, <1>4 DEF WriteInv, WritesAreFresh, writing
<1>9. EndsAreRecorded'
  BY <1>1, <1>4 DEF WriteInv, EndsAreRecorded, SameAnswers
<1> QED
  BY <1>5, <1>6, <1>7, <1>8, <1>9 DEF WriteInv

\* The batch of WriteNode.
LEMMA WriteInvApply ==
  ASSUME WriteInv, StoreTypeOK', NEW s \in Session, NEW n, n = op[s].node, WriteNodeApply(s)
  PROVE  WriteInv'
<1>1. op[s] \in WriteOp /\ op[s].call = "write" /\ op[s].pc = "apply" /\ n \in ID
  BY DEF WriteInv, StoreTypeOK, WriteNodeApply, idle, EndOp, WriteOp
<1>2. /\ \A t \in Session : n \notin ToSet(log[t])
      /\ op[s].parents \subseteq ToSet(log[s])
      /\ op[s].parents = {} <=> log[s] = << >>
      /\ op[s].heads = outValues(s, "head")
  BY <1>1 DEF WriteInv, WritesAreFresh, HeadIsLastApplied, writing
<1>3. parentsOf(n) = {}
  BY <1>1, <1>2 DEF WriteInv, UnappliedHaveNoParents
<1>4. /\ op' = [op EXCEPT ![s].pc = "publish"]
      /\ log' = [log EXCEPT ![s] = Append(@, n)]
      /\ outValues(s, "head")' = {n}
      /\ \A a \in Session : a # s => outValues(a, "head")' = outValues(a, "head")
      /\ storedNodes(s)' = storedNodes(s) \cup {n}
      /\ \A a \in Session : a # s => storedNodes(a)' = storedNodes(a)
      /\ parentsOf(n)' = op[s].parents
      /\ \A a : a # n => parentsOf(a)' = parentsOf(a)
      /\ \A a : outValues(a, "status")' = outValues(a, "status")
      /\ \A a : outValues(a, "end_reason")' = outValues(a, "end_reason")
      /\ \A a : outValues(a, "end_node")' = outValues(a, "end_node")
  BY <1>2, <1>3, ApplyEffect DEF WriteInv
<1>5. /\ op'[s].call = "write" /\ op'[s].pc = "publish" /\ op'[s].node = n
      /\ \A t \in Session : t # s => op'[t] = op[t]
  BY <1>1, <1>4 DEF WriteInv, StoreTypeOK, WriteOp
<1>14. PICK L : L = Len(log[s])
  OBVIOUS
<1>6. /\ log'[s] \in Seq(ID) /\ L \in Nat /\ Len(log'[s]) = L + 1 /\ log'[s] # << >>
      /\ DOMAIN log[s] = 1..L /\ DOMAIN log'[s] = 1..(L + 1)
      /\ \A i \in 1..L : log'[s][i] = log[s][i]
      /\ log'[s][L + 1] = n
      /\ \A t \in Session : t # s => log'[t] = log[t]
      /\ log[s] \in Seq(ID) /\ (log[s] = << >> <=> L = 0)
  <2>1. /\ log[s] \in Seq(ID) /\ log'[s] = Append(log[s], n)
        /\ \A t \in Session : t # s => log'[t] = log[t]
    BY <1>1, <1>4 DEF WriteInv, StoreTypeOK
  <2>2. PICK u, v : u = log[s] /\ v = log'[s]
    OBVIOUS
  <2>3. /\ v \in Seq(ID) /\ L \in Nat /\ Len(v) = L + 1 /\ DOMAIN u = 1..L
        /\ DOMAIN v = 1..(L + 1) /\ (\A i \in 1..L : v[i] = u[i]) /\ v[L + 1] = n
    BY <1>1, <1>14, <2>1, <2>2, AppendPositions
  <2>4. v # << >> /\ (u = << >> <=> L = 0)
    BY <1>14, <2>1, <2>2, <2>3
  <2> QED
    BY <2>1, <2>2, <2>3, <2>4
<1>7. ToSet(log'[s]) = ToSet(log[s]) \cup {n}
  BY <1>1, <1>4, AppendToSet DEF WriteInv, StoreTypeOK
<1>8. HeadIsLastApplied'
  <2>1. outValues(s, "head")' = {Last(log'[s])}
    BY <1>4, <1>6 DEF Last
  <2>2. \A t \in Session : t # s =>
          outValues(t, "head")' = IF log'[t] = << >> THEN {} ELSE {Last(log'[t])}
    BY <1>4, <1>6 DEF WriteInv, HeadIsLastApplied
  <2>3. \A t \in Session : writing(t, "apply")' => op'[t].heads = outValues(t, "head")'
    BY <1>4, <1>5 DEF WriteInv, HeadIsLastApplied, writing
  <2> QED
    BY <1>6, <2>1, <2>2, <2>3 DEF HeadIsLastApplied
<1>9. NodesAreWhole'
  <2>1. \A t \in Session : storedNodes(t)' = ToSet(log'[t])
    BY <1>4, <1>6, <1>7 DEF WriteInv, NodesAreWhole
  <2>2. ASSUME NEW t \in Session, NEW i \in DOMAIN log'[t], NEW m, m = log'[t][i]
        PROVE  /\ parentsOf(m)' \subseteq {log'[t][j] : j \in 1..(i - 1)}
               /\ parentsOf(m)' = {} <=> i = 1
    <3>1. CASE t = s /\ i = L + 1
      <4>1. parentsOf(m)' = op[s].parents
        BY <1>4, <1>6, <2>2, <3>1
      <4>2. \A x \in ToSet(log[s]) : \E j \in 1..L : log[s][j] = x
        BY <1>6 DEF ToSet
      <4>3. i - 1 = L
        BY <1>6, <3>1
      <4> QED
        BY <1>2, <1>6, <3>1, <4>1, <4>2, <4>3
    <3>2. CASE ~(t = s /\ i = L + 1)
      <4>1. t = s => i \in 1..L
        BY <1>6, <3>2
      <4>2. i \in DOMAIN log[t] /\ m = log[t][i]
        BY <1>6, <2>2, <4>1
      <4>3. m \in ToSet(log[t])
        BY <4>2 DEF ToSet
      <4>4. parentsOf(m)' = parentsOf(m)
        BY <1>2, <1>4, <4>3
      <4>5. \A j \in 1..(i - 1) : log'[t][j] = log[t][j]
        BY <1>6, <4>1
      <4> QED
        BY <4>2, <4>4, <4>5 DEF WriteInv, NodesAreWhole
    <3> QED
      BY <3>1, <3>2
  <2> QED
    BY <2>1, <2>2 DEF NodesAreWhole
<1>10. LogsAreDisjoint'
  <2>1. \A t \in Session : \A i \in DOMAIN log[t] : log[t][i] # n
    BY <1>2 DEF ToSet
  <2> QED
    BY <1>6, <2>1 DEF WriteInv, LogsAreDisjoint
<1>11. UnappliedHaveNoParents'
  <2>1. ASSUME NEW m \in ID, \A t \in Session : m \notin ToSet(log'[t])
        PROVE  parentsOf(m)' = {}
    <3>1. m # n /\ \A t \in Session : m \notin ToSet(log[t])
      BY <1>6, <1>7, <2>1
    <3> QED
      BY <1>4, <3>1 DEF WriteInv, UnappliedHaveNoParents
  <2> QED
    BY <2>1 DEF UnappliedHaveNoParents
<1>12. WritesAreFresh'
  <2>1. ASSUME NEW t \in Session, t # s, op[t].call = "write"
        PROVE  op[t].node # n
    BY <1>1, <2>1 DEF WriteInv, WritesAreFresh
  <2>2. ASSUME NEW t \in Session, writing(t, "heads")' \/ writing(t, "apply")'
        PROVE  /\ \A u \in Session : op'[t].node \notin ToSet(log'[u])
               /\ op'[t].parents \subseteq ToSet(log'[t])
               /\ op'[t].parents = {} <=> log'[t] = << >>
    <3>1. t # s /\ op'[t] = op[t] /\ log'[t] = log[t] /\ op[t].call = "write"
          /\ (writing(t, "heads") \/ writing(t, "apply"))
      BY <1>5, <1>6, <2>2 DEF writing
    <3> QED
      BY <1>6, <1>7, <2>1, <3>1 DEF WriteInv, WritesAreFresh
  <2>3. ASSUME NEW t \in Session, writing(t, "publish")'
        PROVE  log'[t] # << >> /\ op'[t].node = Last(log'[t])
    BY <1>5, <1>6, <2>3 DEF WriteInv, WritesAreFresh, writing, Last
  <2>4. \A t, u \in Session :
          op'[t].call = "write" /\ op'[u].call = "write" /\ op'[t].node = op'[u].node => t = u
    BY <1>5, <2>1 DEF WriteInv, WritesAreFresh
  <2> QED
    BY <2>2, <2>3, <2>4 DEF WritesAreFresh
<1>13. EndsAreRecorded'
  <2>1. \A t \in Session : ToSet(log[t]) \subseteq ToSet(log'[t])
    BY <1>6, <1>7
  <2> QED
    BY <1>4, <1>5, <2>1 DEF WriteInv, EndsAreRecorded
<1> QED
  BY <1>8, <1>9, <1>10, <1>11, <1>12, <1>13 DEF WriteInv

\* EndSession, before its batch.
LEMMA WriteInvEndRead ==
  ASSUME WriteInv, StoreTypeOK', NEW s \in Session, NEW reason,
         NEW terminal \in ToSet(log[s]) \cup {NoID}, EndSessionReadStatus(s, reason, terminal)
  PROVE  WriteInv'
<1>1. SameAnswers /\ quads' = quads /\ log' = log
  BY SameQuads DEF EndSessionReadStatus
<1>2. /\ op'[s].call = "end" /\ op'[s].terminal = terminal
      /\ \A t \in Session : t # s => op'[t] = op[t]
  BY DEF EndSessionReadStatus, WriteInv, StoreTypeOK
<1>3. HeadIsLastApplied'
  BY <1>1, <1>2 DEF WriteInv, HeadIsLastApplied, SameAnswers, writing
<1>4. NodesAreWhole'
  BY <1>1 DEF WriteInv, NodesAreWhole, SameAnswers
<1>5. LogsAreDisjoint' /\ UnappliedHaveNoParents'
  BY <1>1 DEF WriteInv, LogsAreDisjoint, UnappliedHaveNoParents, SameAnswers
<1>6. WritesAreFresh'
  BY <1>1, <1>2 DEF WriteInv, WritesAreFresh, writing
<1>7. EndsAreRecorded'
  BY <1>1, <1>2 DEF WriteInv, EndsAreRecorded, SameAnswers
<1> QED
  BY <1>3, <1>4, <1>5, <1>6, <1>7 DEF WriteInv

\* The batch of EndSession.
LEMMA WriteInvEndApply ==
  ASSUME WriteInv, StoreTypeOK', NEW s \in Session, EndSessionApply(s)
  PROVE  WriteInv'
<1>1. /\ \A a : outValues(a, "head")' = outValues(a, "head")
      /\ \A a : storedNodes(a)' = storedNodes(a)
      /\ \A a : parentsOf(a)' = parentsOf(a)
      /\ \A a : a # s => outValues(a, "status")' = outValues(a, "status")
      /\ \A a : a # s => outValues(a, "end_reason")' = outValues(a, "end_reason")
      /\ \A a : a # s => outValues(a, "end_node")' = outValues(a, "end_node")
      /\ op[s].reason \in outValues(s, "end_reason")'
      /\ outValues(s, "end_node")' = outValues(s, "end_node") \cup {op[s].terminal}
  BY EndEffect DEF WriteInv
<1>2. /\ log' = log /\ op[s].call = "end" /\ op'[s] = idle
      /\ \A t \in Session : t # s => op'[t] = op[t]
  BY DEF EndSessionApply, WriteInv, StoreTypeOK
<1>3. op'[s].call = "none"
  BY <1>2 DEF idle
<1>4. HeadIsLastApplied'
  BY <1>1, <1>2, <1>3 DEF WriteInv, HeadIsLastApplied, writing
<1>5. NodesAreWhole'
  BY <1>1, <1>2 DEF WriteInv, NodesAreWhole
<1>6. LogsAreDisjoint' /\ UnappliedHaveNoParents'
  BY <1>1, <1>2 DEF WriteInv, LogsAreDisjoint, UnappliedHaveNoParents
<1>7. WritesAreFresh'
  BY <1>2, <1>3 DEF WriteInv, WritesAreFresh, writing
<1>8. EndsAreRecorded'
  BY <1>1, <1>2, <1>3 DEF WriteInv, EndsAreRecorded
<1> QED
  BY <1>4, <1>5, <1>6, <1>7, <1>8 DEF WriteInv

\* Every write keeps the invariant.
LEMMA WriteInvWrite ==
  ASSUME ~QueryFails, WriteInv, NEW s \in Session, Write(s)
  PROVE  WriteInv'
<1>1. StoreTypeOK /\ StoreTypeOK'
  BY TypeWrite DEF WriteInv
<1>2. CASE WriteNodePublish(s)
  <2>1. quads' = quads /\ log' = log /\ \A t \in Session : op'[t] = op[t] \/ op'[t] = idle
    BY <1>1, <1>2 DEF WriteNodePublish, StoreTypeOK
  <2> QED
    BY <1>1, <2>1, WriteInvQuiet
<1> QED
  BY <1>1, <1>2, WriteCases, WriteInvCreate, WriteInvCheck, WriteInvReadHeads,
     WriteInvApply, WriteInvEndRead, WriteInvEndApply

-----------------------------------------------------------------------------
(* Loads *)

\* What was stored stays: a log only grows, an applied node keeps its parents,
\* and the reason of an end is there for good.
Grows ==
  /\ \A s \in Session : Len(log[s]) <= Len(log'[s]) /\ \A i \in 1..Len(log[s]) : log'[s][i] = log[s][i]
  /\ \A s \in Session : ToSet(log[s]) \subseteq ToSet(log'[s])
  /\ \A s \in Session : \A n \in ToSet(log[s]) : parentsOf(n)' = parentsOf(n)
  /\ \A s \in Session : outValues(s, "end_reason") # {} => outValues(s, "end_reason")' # {}

\* A step that leaves the quads and the logs alone lets nothing shrink.
LEMMA GrowsQuiet ==
  ASSUME StoreTypeOK, quads' = quads, log' = log
  PROVE  Grows
<1>1. SameAnswers
  BY SameQuads
<1>2. \A s \in Session : Len(log[s]) \in Nat
  BY DEF StoreTypeOK
<1> QED
  BY <1>1, <1>2 DEF Grows, SameAnswers

\* Neither does a write.
LEMMA GrowsWrite ==
  ASSUME WriteInv, NEW s \in Session, Write(s)
  PROVE  Grows
<1>1. StoreTypeOK /\ StoreTypeOK'
  BY TypeWrite DEF WriteInv
<1>2. \A t \in Session : Len(log[t]) \in Nat
  BY <1>1 DEF StoreTypeOK
<1>3. CASE CreateSession(s)
  <2>1. log' = log
    BY <1>3 DEF CreateSession
  <2> QED
    BY <1>1, <1>2, <1>3, <2>1, CreateEffect DEF Grows
<1>4. CASE WriteNodeApply(s)
  <2>1. PICK n : n = op[s].node
    OBVIOUS
  <2>2. op[s] \in WriteOp /\ op[s].call = "write" /\ op[s].pc = "apply" /\ n \in ID
    BY <1>1, <1>4, <2>1 DEF StoreTypeOK, WriteNodeApply, idle, EndOp, WriteOp
  <2>3. (\A t \in Session : n \notin ToSet(log[t])) /\ op[s].heads = outValues(s, "head")
    BY <2>1, <2>2 DEF WriteInv, WritesAreFresh, HeadIsLastApplied, writing
  <2>4. parentsOf(n) = {}
    BY <2>2, <2>3 DEF WriteInv, UnappliedHaveNoParents
  <2>5. /\ log' = [log EXCEPT ![s] = Append(@, n)]
        /\ \A a : a # n => parentsOf(a)' = parentsOf(a)
        /\ \A a : outValues(a, "end_reason")' = outValues(a, "end_reason")
    BY <1>1, <1>4, <2>1, <2>3, <2>4, ApplyEffect
  <2>6. log[s] \in Seq(ID) /\ log'[s] = Append(log[s], n) /\ \A t \in Session : t # s => log'[t] = log[t]
    BY <1>1, <2>5 DEF StoreTypeOK
  <2>7. /\ Len(log'[s]) = Len(log[s]) + 1
        /\ \A i \in 1..Len(log[s]) : log'[s][i] = log[s][i]
        /\ ToSet(log'[s]) = ToSet(log[s]) \cup {n}
    BY <2>2, <2>6, AppendPositions, AppendToSet
  <2>8. \A t \in Session : /\ Len(log[t]) <= Len(log'[t])
                           /\ \A i \in 1..Len(log[t]) : log'[t][i] = log[t][i]
                           /\ ToSet(log[t]) \subseteq ToSet(log'[t])
    <3> TAKE t \in Session
    <3>1. CASE t = s
      BY <1>2, <2>7, <3>1
    <3>2. CASE t # s
      BY <1>2, <2>6, <3>2
    <3> QED
      BY <3>1, <3>2
  <2> QED
    BY <2>3, <2>5, <2>8 DEF Grows
<1>5. CASE EndSessionApply(s)
  <2>1. log' = log
    BY <1>5 DEF EndSessionApply
  <2>2. \A t \in Session : outValues(t, "end_reason") # {} => outValues(t, "end_reason")' # {}
    BY <1>1, <1>5, EndEffect
  <2> QED
    BY <1>1, <1>2, <1>5, <2>1, <2>2, EndEffect DEF Grows
<1>6. CASE quads' = quads /\ log' = log
  BY <1>1, <1>6, GrowsQuiet
<1> QED
  BY <1>1, <1>3, <1>4, <1>5, <1>6, WriteCases
     DEF WriteNodeCheck, WriteNodeReadHeads, WriteNodePublish, EndSessionReadStatus

\* What a call holds stays true while the store grows.
LEMMA LoadHoldsOn ==
  ASSUME StoreTypeOK, Grows, NEW g \in Loading, LoadHolds(g)
  PROVE  LoadHolds(g)'
<1>1. g.session \in Session /\ g.nodes \subseteq ID
  BY DEF Loading
<1>2. g.pc = "loaded" => \A n \in g.nodes : parentsOf(n)' = parentsOf(n)
  BY <1>1 DEF Grows, LoadHolds
<1> QED
  BY <1>1, <1>2 DEF Grows, LoadHolds

\* A call that goes on or is gone is sound after any step of the others.
LEMMA LoadsKept ==
  ASSUME StoreTypeOK, Grows, LoadsAreSound,
         \A r \in Reader : load'[r] = load[r] \/ load'[r] = noLoad
  PROVE  LoadsAreSound'
<1>1. ASSUME NEW r \in Reader, load'[r].pc # "none"
      PROVE  LoadHolds(load[r])'
  <2>1. PICK g : g = load[r]
    OBVIOUS
  <2>2. load'[r] = g /\ g \in Loading /\ LoadHolds(g)
    BY <1>1, <2>1 DEF noLoad, StoreTypeOK, LoadsAreSound
  <2>3. LoadHolds(g)'
    BY <2>2, LoadHoldsOn
  <2> QED
    BY <2>2, <2>3
<1> QED
  BY <1>1 DEF LoadsAreSound

\* The first query of LoadGraph.
LEMMA LoadSessionHolds ==
  ASSUME ~QueryFails, StoreInv, NEW r \in Reader, NEW s \in Session, LoadSession(r, s)
  PROVE  LoadHolds(load'[r])
<1>1. PICK status \in sessionStatus(s) :
        load' = [load EXCEPT ![r] =
                   [pc |-> "head", session |-> s, closed |-> status = "closed",
                    head |-> NoID, reason |-> "none", terminal |-> NoID,
                    nodes |-> {}, ids0 |-> storedNodes(s)]]
  BY DEF LoadSession
<1>2. status = "closed" => "closed" \in outValues(s, "status")
  BY <1>1, QuerySucceeds DEF sessionStatus, firstOf
<1>3. status = "closed" => outValues(s, "end_reason") # {}
  BY <1>2 DEF StoreInv, EndsAreRecorded
<1>4. load'[r] = [pc |-> "head", session |-> s, closed |-> status = "closed",
                  head |-> NoID, reason |-> "none", terminal |-> NoID,
                  nodes |-> {}, ids0 |-> storedNodes(s)]
  BY <1>1 DEF StoreInv, StoreTypeOK
<1>5. storedNodes(s) = ToSet(log[s])
  BY DEF StoreInv, NodesAreWhole
<1>6. /\ load'[r].pc = "head" /\ load'[r].session = s /\ load'[r].closed = (status = "closed")
      /\ load'[r].head = NoID /\ load'[r].reason = "none" /\ load'[r].terminal = NoID
      /\ load'[r].ids0 = ToSet(log[s])
  BY <1>4, <1>5
<1>7. load'[r].closed => outValues(s, "end_reason") # {}
  BY <1>3, <1>6
<1> QED
  BY <1>6, <1>7 DEF LoadHolds

\* The query for the head.
LEMMA LoadHeadHolds ==
  ASSUME ~QueryFails, StoreInv, NEW r \in Reader, LoadHead(r)
  PROVE  LoadHolds(load'[r])
<1>1. PICK g : g = load[r]
  OBVIOUS
<1>2. g \in Loading /\ LoadHolds(g) /\ g.pc = "head" /\ g.session \in Session
  BY <1>1 DEF LoadHead, StoreInv, StoreTypeOK, noLoad, Loading, LoadsAreSound
<1>3. PICK h \in firstOf(outValues(g.session, "head"), NoID) :
        load' = [load EXCEPT ![r].pc = IF g.closed THEN "end" ELSE "nodes", ![r].head = h]
  <2>1. PICK vals \in queried(g.session, "head") : \E h \in firstOf(vals, NoID) :
          load' = [load EXCEPT ![r].pc = IF g.closed THEN "end" ELSE "nodes", ![r].head = h]
    BY <1>1 DEF LoadHead
  <2>2. vals = outValues(g.session, "head")
    BY QuerySucceeds
  <2> QED
    BY <2>1, <2>2
<1>4. /\ h \in ToSet(log[g.session]) \cup {NoID}
      /\ h = NoID => ToSet(log[g.session]) = {}
  <2>1. log[g.session] \in Seq(ID) /\ NoID \notin ID
    BY <1>2, StoreAssumption DEF StoreInv, StoreTypeOK
  <2>2. outValues(g.session, "head") =
          IF log[g.session] = << >> THEN {} ELSE {Last(log[g.session])}
    BY <1>2 DEF StoreInv, HeadIsLastApplied
  <2>3. CASE log[g.session] = << >>
    BY <1>3, <2>1, <2>2, <2>3, ToSetMember DEF firstOf
  <2>4. CASE log[g.session] # << >>
    <3>1. h = Last(log[g.session])
      BY <1>3, <2>2, <2>4 DEF firstOf
    <3>2. Last(log[g.session]) \in ToSet(log[g.session]) /\ ToSet(log[g.session]) \subseteq ID
      BY <2>1, <2>4, ToSetMember
    <3> QED
      BY <2>1, <3>1, <3>2
  <2> QED
    BY <2>3, <2>4
<1>5. load'[r] = [g EXCEPT !.pc = IF g.closed THEN "end" ELSE "nodes", !.head = h]
  BY <1>1, <1>3 DEF StoreInv, StoreTypeOK
<1>6. /\ load'[r].session = g.session /\ load'[r].closed = g.closed /\ load'[r].head = h
      /\ load'[r].reason = g.reason /\ load'[r].terminal = g.terminal /\ load'[r].ids0 = g.ids0
      /\ load'[r].pc = IF g.closed THEN "end" ELSE "nodes"
  BY <1>2, <1>5 DEF Loading
<1> QED
  BY <1>2, <1>4, <1>6 DEF LoadHolds

\* The queries for the end.
LEMMA LoadEndHolds ==
  ASSUME ~QueryFails, StoreInv, NEW r \in Reader, LoadEnd(r)
  PROVE  LoadHolds(load'[r])
<1>1. PICK g : g = load[r]
  OBVIOUS
<1>2. g \in Loading /\ LoadHolds(g) /\ g.pc = "end" /\ g.session \in Session
  BY <1>1 DEF LoadEnd, StoreInv, StoreTypeOK, noLoad, Loading, LoadsAreSound
<1>3. PICK reason \in firstOf(outValues(g.session, "end_reason"), "none"),
           terminal \in firstOf(outValues(g.session, "end_node"), NoID) :
        load' = [load EXCEPT ![r].pc = "nodes", ![r].reason = reason,
                             ![r].terminal = terminal]
  <2>1. PICK reasons \in queried(g.session, "end_reason"),
             terminals \in queried(g.session, "end_node") :
          \E reason \in firstOf(reasons, "none"), terminal \in firstOf(terminals, NoID) :
            load' = [load EXCEPT ![r].pc = "nodes", ![r].reason = reason,
                                 ![r].terminal = terminal]
    BY <1>1 DEF LoadEnd
  <2>2. reasons = outValues(g.session, "end_reason") /\ terminals = outValues(g.session, "end_node")
    BY QuerySucceeds
  <2> QED
    BY <2>1, <2>2
<1>4. g.closed /\ reason \in outValues(g.session, "end_reason")
  BY <1>2, <1>3 DEF LoadHolds, firstOf
<1>5. reason # "none"
  BY <1>4, QueryTypes DEF StoreInv, Reason
<1>6. terminal \in ToSet(log[g.session]) \cup {NoID}
  BY <1>2, <1>3 DEF StoreInv, EndsAreRecorded, firstOf
<1>7. load'[r] = [g EXCEPT !.pc = "nodes", !.reason = reason, !.terminal = terminal]
  BY <1>1, <1>3 DEF StoreInv, StoreTypeOK
<1>8. /\ load'[r].session = g.session /\ load'[r].closed = g.closed /\ load'[r].head = g.head
      /\ load'[r].reason = reason /\ load'[r].terminal = terminal /\ load'[r].ids0 = g.ids0
      /\ load'[r].pc = "nodes"
  BY <1>2, <1>7 DEF Loading
<1> QED
  BY <1>2, <1>4, <1>5, <1>6, <1>8 DEF LoadHolds

\* The parents of an applied node are applied.
LEMMA ParentsAreApplied ==
  ASSUME StoreTypeOK, NodesAreWhole, NEW s \in Session, NEW n \in ToSet(log[s])
  PROVE  parentsOf(n) \subseteq ToSet(log[s])
<1>1. PICK i \in DOMAIN log[s] : n = log[s][i]
  BY DEF ToSet
<1>2. parentsOf(n) \subseteq {log[s][j] : j \in 1..(i - 1)}
  BY <1>1 DEF NodesAreWhole
<1>3. log[s] \in Seq(ID)
  BY DEF StoreTypeOK
<1>4. \A j \in 1..(i - 1) : j \in DOMAIN log[s]
  BY <1>1, <1>3
<1> QED
  BY <1>2, <1>4 DEF ToSet

\* The queries for the nodes.
LEMMA LoadNodesHolds ==
  ASSUME StoreInv, NEW r \in Reader, LoadNodes(r)
  PROVE  LoadHolds(load'[r])
<1>1. PICK g : g = load[r]
  OBVIOUS
<1>2. g \in Loading /\ LoadHolds(g) /\ g.pc = "nodes" /\ g.session \in Session
  BY <1>1 DEF LoadNodes, StoreInv, StoreTypeOK, noLoad, Loading, LoadsAreSound
<1>3. storedNodes(g.session) = ToSet(log[g.session])
  BY <1>2 DEF StoreInv, NodesAreWhole
<1>4. load'[r] = [g EXCEPT !.pc = "loaded", !.nodes = ToSet(log[g.session])]
  BY <1>1, <1>3 DEF LoadNodes, StoreInv, StoreTypeOK
<1>5. /\ load'[r].session = g.session /\ load'[r].closed = g.closed /\ load'[r].head = g.head
      /\ load'[r].reason = g.reason /\ load'[r].terminal = g.terminal /\ load'[r].ids0 = g.ids0
      /\ load'[r].pc = "loaded" /\ load'[r].nodes = ToSet(log[g.session])
  BY <1>2, <1>4 DEF Loading
<1>6. \A n \in ToSet(log[g.session]) : parentsOf(n) \subseteq ToSet(log[g.session])
  BY <1>2, ParentsAreApplied DEF StoreInv
<1> QED
  BY <1>2, <1>5, <1>6 DEF LoadHolds

\* Every query of LoadGraph keeps the invariant.
LEMMA StoreInvLoad ==
  ASSUME ~QueryFails, StoreInv, NEW r \in Reader, LoadGraph(r)
  PROVE  StoreInv'
<1>1. StoreTypeOK /\ StoreTypeOK' /\ WriteInv
  BY TypeLoad DEF StoreInv, WriteInv
<1>2. quads' = quads /\ log' = log /\ op' = op /\ \A q \in Reader : q # r => load'[q] = load[q]
  BY <1>1 DEF LoadGraph, LoadSession, LoadHead, LoadEnd, LoadNodes, LoadFails, LoadDone,
              StoreTypeOK
<1>3. WriteInv'
  BY <1>1, <1>2, WriteInvQuiet
<1>4. CASE LoadFails(r) \/ LoadDone(r)
  <2>1. load'[r] = noLoad
    BY <1>1, <1>4 DEF LoadFails, LoadDone, StoreTypeOK
  <2> QED
    BY <1>1, <1>2, <1>3, <2>1, LoadsKept, GrowsQuiet DEF StoreInv, WriteInv
<1>5. CASE ~(LoadFails(r) \/ LoadDone(r))
  <2>1. LoadHolds(load'[r])
    BY <1>5, LoadSessionHolds, LoadHeadHolds, LoadEndHolds, LoadNodesHolds DEF LoadGraph
  <2>2. \A q \in Reader : load'[q].pc # "none" => LoadHolds(load'[q])
    BY <1>2, <2>1 DEF StoreInv, LoadsAreSound
  <2>3. SameAnswers
    BY <1>2, SameQuads
  <2>4. ASSUME NEW q \in Reader, load'[q].pc # "none"
        PROVE  LoadHolds(load[q])'
    <3>1. PICK g : g = load'[q]
      OBVIOUS
    <3>2. LoadHolds(g)
      BY <2>2, <2>4, <3>1
    <3>3. LoadHolds(g)'
      BY <1>2, <2>3, <3>2 DEF LoadHolds, SameAnswers
    <3> QED
      BY <3>1, <3>3
  <2> QED
    BY <1>3, <2>4 DEF LoadsAreSound, StoreInv, WriteInv
<1> QED
  BY <1>4, <1>5

\* Every step keeps the invariant, and lets nothing shrink.
LEMMA StoreInvStep ==
  ASSUME ~QueryFails, StoreInv, StoreStep \/ UNCHANGED storeVars
  PROVE  StoreInv' /\ Grows
<1>1. StoreTypeOK /\ WriteInv /\ LoadsAreSound
  BY DEF StoreInv, WriteInv
<1>2. ASSUME NEW s \in Session, Write(s)
      PROVE  StoreInv' /\ Grows
  <2>1. WriteInv' /\ Grows /\ load' = load
    BY <1>1, <1>2, WriteInvWrite, GrowsWrite, WriteCases
       DEF CreateSession, WriteNodeCheck, WriteNodeReadHeads, WriteNodeApply,
           WriteNodePublish, EndSessionReadStatus, EndSessionApply
  <2> QED
    BY <1>1, <2>1, LoadsKept DEF StoreInv, WriteInv
<1>3. ASSUME NEW r \in Reader, LoadGraph(r)
      PROVE  StoreInv' /\ Grows
  <2>1. quads' = quads /\ log' = log
    BY <1>3 DEF LoadGraph, LoadSession, LoadHead, LoadEnd, LoadNodes, LoadFails, LoadDone
  <2> QED
    BY <1>1, <1>3, <2>1, StoreInvLoad, GrowsQuiet
<1>4. CASE \/ \E r \in Reader : Receive(r) \/ cancel(r) \/ GiveUp(r)
           \/ \E r \in Reader, s \in Session : Watch(r, s)
           \/ Crash
           \/ UNCHANGED storeVars
  <2>1. /\ quads' = quads /\ log' = log
        /\ \A s \in Session : op'[s] = op[s] \/ op'[s] = idle
        /\ \A r \in Reader : load'[r] = load[r] \/ load'[r] = noLoad
    BY <1>1, <1>4 DEF Receive, cancel, GiveUp, Watch, Crash, storeVars, StoreTypeOK
  <2>2. StoreTypeOK'
    BY <1>1, <1>4, TypeOther DEF storeVars, StoreTypeOK
  <2> QED
    BY <1>1, <2>1, <2>2, WriteInvQuiet, GrowsQuiet, LoadsKept DEF StoreInv, WriteInv
<1> QED
  BY <1>2, <1>3, <1>4 DEF StoreStep

\* The empty store.
LEMMA StoreInvInit == Init => StoreInv
<1> SUFFICES ASSUME Init PROVE StoreInv
  OBVIOUS
<1>1. StoreTypeOK
  BY DEF Init, StoreTypeOK
<1>2. \A a, p : outValues(a, p) = {} /\ inValues(a, p) = {}
  BY DEF Init, outValues, inValues
<1>3. \A s \in Session : /\ log[s] = << >> /\ DOMAIN log[s] = {} /\ ToSet(log[s]) = {}
                         /\ op[s].call = "none"
  BY DEF Init, ToSet, idle
<1>4. \A r \in Reader : load[r].pc = "none"
  BY DEF Init, noLoad
<1> QED
  BY <1>1, <1>2, <1>3, <1>4
     DEF StoreInv, HeadIsLastApplied, NodesAreWhole, LogsAreDisjoint, UnappliedHaveNoParents,
         WritesAreFresh, EndsAreRecorded, LoadsAreSound, writing, storedNodes, parentsOf

\* What a loaded graph holds is what LoadedGraphIsConsistent asks of it.
LEMMA LoadedGraphHolds == StoreInv => LoadedGraphIsConsistent
BY DEF StoreInv, LoadsAreSound, LoadHolds, LoadedGraphIsConsistent

-----------------------------------------------------------------------------
(* The theorem about the store on its own *)

\* The invariant holds of the store under any writers and loaders.
THEOREM StoreInvariant ==
  ASSUME ~QueryFails
  PROVE  Spec => []StoreInv
<1>1. StoreInv /\ [Next]_storeVars => StoreInv'
  BY StoreInvStep DEF Next, StoreStep
<1> QED
  BY <1>1, StoreInvInit, PTL DEF Spec

-----------------------------------------------------------------------------
(* The inductive invariant of the management service *)

\* A session that is written to was created.
WrittenSessionsExist ==
  \A s \in Session : log[s] # << >> \/ op[s].call = "write" => sessionExists(s)

\* A reader makes one call at a time, its LoadGraph call belongs to it, and it
\* is subscribed while it streams.
CallsAreSeparate ==
  \A r \in Reader :
    /\ stream[r].pc = "off" \/ query[r] = noQuery
    /\ load[r].pc # "none" =>
         \/ stream[r].pc = "load" /\ load[r].session = stream[r].session
         \/ query[r].pc = "session" /\ load[r].session = query[r].session
    /\ subs[r].on <=> stream[r].pc # "off"
    /\ stream[r].pc # "off" => subs[r].session = stream[r].session

\* A head is no older than the first since nodes of a session.
Recent(s, since, head) ==
  IF head = NoID THEN since = 0
  ELSE \E i \in DOMAIN log[s] : i >= since /\ log[s][i] = head

\* What a management call holds between its queries, and its answer.
AnswerHolds(q) ==
  /\ q.pc = "session" => q.since <= Len(log[q.session])
  /\ q.pc = "session.answer" => \A head \in q.head : Recent(q.session, q.since, head)
  /\ q.pc \in {"lineage", "lineage.answer"} =>
       /\ \A i \in DOMAIN q.path : \E s \in Session : q.path[i] \in ToSet(log[s])
       /\ \A i \in 1..(Len(q.path) - 1) : q.path[i] \in parentsOf(q.path[i + 1])
  /\ q.pc = "lineage" /\ q.path # << >> => q.current \in parentsOf(q.path[1])
  /\ q.pc = "lineage.answer" => \E s \in Session : log[s] # << >> /\ q.path[1] = log[s][1]
  /\ q.pc = "graph" =>
       /\ q.nodes \subseteq ToSet(log[q.session])
       /\ \A n \in q.nodes : parentsOf(n) \subseteq q.nodes
  /\ q.pc = "graph.answer" => q.edges \subseteq q.nodes \X q.nodes

AnswersHold ==
  \A r \in Reader :
    /\ AnswerHolds(query[r])
    /\ query[r].pc = "session" /\ load[r].pc \in {"end", "nodes", "loaded"} =>
         Recent(query[r].session, query[r].since, load[r].head)

\* How many nodes of a session were published: all but one in between.
published(s) == IF writing(s, "publish") THEN Len(log[s]) - 1 ELSE Len(log[s])

\* The history of a stream: no node twice, parents first, and everything that
\* was stored when the subscription began.
HistoryHolds(H, st, su) ==
  /\ IsInjective(H)
  /\ \A i \in DOMAIN H : H[i] \in ID =>
       /\ H[i] \in ToSet(log[st.session])
       /\ parentsOf(H[i]) \subseteq {H[j] : j \in 1..(i - 1)}
  /\ st.replay /\ st.pc # "load" =>
       \A i \in 1..su.since : log[st.session][i] \in ToSet(H)

\* What came through the channel: published nodes, none twice, and without a
\* drop the last ones without a gap, all that came after the subscription.
LiveHolds(V, st, su) ==
  LET s == st.session IN
  /\ IsInjective(V)
  /\ \A j \in DOMAIN V : \E p \in 1..published(s) : V[j] = log[s][p]
  /\ ~su.dropped =>
       /\ Len(V) <= published(s) /\ published(s) - Len(V) <= su.since
       /\ \A j \in DOMAIN V : V[j] = log[s][published(s) - Len(V) + j]

\* How history and live nodes are spread over what was sent, what is to be sent
\* and the channel.
Spread(H, V, st, su) ==
  /\ st.pc = "load" => H = << >> /\ st.sent = << >> /\ st.todo = << >> /\ V = su.chan
  /\ st.pc = "replay" => H = st.sent \o st.todo /\ st.todo # << >> /\ V = su.chan
  /\ st.pc = "live" => st.todo = << >> /\ st.sent \o su.chan = H \o V /\ Len(H) <= Len(st.sent)
  /\ ~st.replay => H = << >> /\ st.pc = "live"

StreamEvent == ID \cup {"session.start", "session.ended"}

\* What holds of a stream, its subscription and its LoadGraph call.
StreamHolds(st, su, ld) ==
  /\ su.since <= Len(log[st.session])
  /\ st.pc = "load" /\ ld.pc # "none" =>
       \A i \in 1..su.since : log[st.session][i] \in ld.ids0
  /\ \E H \in Seq(StreamEvent), V \in Seq(ID) :
       /\ Spread(H, V, st, su)
       /\ HistoryHolds(H, st, su)
       /\ LiveHolds(V, st, su)

StreamsHold ==
  \A r \in Reader : stream[r].pc # "off" => StreamHolds(stream[r], subs[r], load[r])

ManagementInv ==
  /\ StoreInv
  /\ ManagementTypeOK
  /\ WrittenSessionsExist
  /\ CallsAreSeparate
  /\ AnswersHold
  /\ StreamsHold

-----------------------------------------------------------------------------
(* The store under the management service *)

\* Whatever the management service does to the store is a step of its users.
LEMMA ManagementStoreStep ==
  ASSUME ManagementTypeOK, [ManagementNext]_managementVars
  PROVE  StoreStep \/ UNCHANGED storeVars
<1>1. CASE UNCHANGED managementVars
  BY <1>1 DEF managementVars, storeVars
<1>2. ASSUME NEW s \in Session, Write(s)
      PROVE  StoreStep
  BY <1>2 DEF StoreStep
<1>3. ASSUME NEW r \in Reader, NEW s \in Session, NEW replay \in BOOLEAN,
             WatchSessionOpen(r, s, replay)
      PROVE  StoreStep
  BY <1>3 DEF WatchSessionOpen, StoreStep
<1>4. ASSUME NEW r \in Reader, Handler(r)
      PROVE  StoreStep \/ UNCHANGED storeVars
  <2>1. CASE WatchSessionLoad(r)
    <3>1. stream[r].session \in Session
      BY <2>1 DEF WatchSessionLoad, ManagementTypeOK, WatchTypeOK, noStream
    <3>2. LoadGraph(r)
      BY <2>1, <3>1 DEF WatchSessionLoad, LoadGraph
    <3> QED  BY <3>2 DEF StoreStep
  <2>2. CASE WatchSessionNoHistory(r)
    BY <2>2 DEF WatchSessionNoHistory
  <2>3. CASE WatchSessionReplay(r)
    <3>1. LoadDone(r)
      BY <2>3 DEF WatchSessionReplay, LoadDone
    <3> QED  BY <3>1 DEF StoreStep, LoadGraph
  <2>4. CASE WatchSessionSendHistory(r)
    BY <2>4 DEF WatchSessionSendHistory
  <2>5. CASE WatchSessionSendLive(r)
    BY <2>5 DEF WatchSessionSendLive, StoreStep
  <2> QED  BY <1>4, <2>1, <2>2, <2>3, <2>4, <2>5 DEF Handler
<1>5. ASSUME NEW r \in Reader, WatchSessionClose(r) \/ WatchSessionLoadFails(r)
      PROVE  StoreStep
  <2>1. cancel(r) \/ GiveUp(r)
    BY <1>5 DEF WatchSessionClose, WatchSessionLoadFails, GiveUp
  <2> QED  BY <2>1 DEF StoreStep
<1>6. ASSUME NEW r \in Reader, Query(r)
      PROVE  StoreStep \/ UNCHANGED storeVars
  <2>1. CASE UNCHANGED watchVars
    BY <2>1 DEF watchVars, storeVars
  <2>2. CASE GetSessionLoad(r)
    <3>1. query[r].session \in Session
      BY <2>2 DEF GetSessionLoad, ManagementTypeOK, noQuery
    <3>2. LoadGraph(r)
      BY <2>2, <3>1 DEF GetSessionLoad, LoadGraph
    <3> QED  BY <3>2 DEF StoreStep
  <2>3. CASE GetSessionReturn(r) \/ GetSessionWithoutHead(r)
    <3>1. LoadGraph(r)
      BY <2>3 DEF GetSessionReturn, GetSessionWithoutHead, LoadGraph
    <3> QED  BY <3>1 DEF StoreStep
  <2>4. GetSessionLoad(r) \/ GetSessionReturn(r) \/ GetSessionWithoutHead(r) \/ UNCHANGED watchVars
    BY <1>6 DEF Query, QueryStep, QueryDone, GetSession, GetSessionGraph, GetResumeContext,
                GetLineage, GetSessionGraphRead
  <2> QED  BY <2>1, <2>2, <2>3, <2>4
<1>7. CASE Crash
  BY <1>7 DEF StoreStep
<1> QED  BY <1>1, <1>2, <1>3, <1>4, <1>5, <1>6, <1>7 DEF ManagementNext

-----------------------------------------------------------------------------
(* The history of a stream *)

\* Parents come first in the log of a session.
LEMMA LogOrder ==
  ASSUME StoreInv, NEW s \in Session
  PROVE  /\ log[s] \in Seq(ID) /\ Len(log[s]) \in Nat /\ DOMAIN log[s] = 1..Len(log[s])
         /\ IsFiniteSet(ToSet(log[s])) /\ IsInjective(log[s])
         /\ \A i \in DOMAIN log[s] : parentsOf(log[s][i]) \subseteq {log[s][j] : j \in 1..(i - 1)}
<1>1. log[s] \in Seq(ID)
  BY DEF StoreInv, StoreTypeOK
<1>2. Len(log[s]) \in Nat /\ DOMAIN log[s] = 1..Len(log[s])
  BY <1>1
<1>4. IsFiniteSet(ToSet(log[s]))
  BY <1>1, ToSetFinite
<1>5. IsInjective(log[s])
  BY DEF StoreInv, LogsAreDisjoint, IsInjective
<1> QED
  BY <1>1, <1>2, <1>4, <1>5 DEF StoreInv, NodesAreWhole

\* The events made of a loaded graph are its nodes, each once, parents first,
\* between the events of the session itself.
LEMMA HistoryEvents ==
  ASSUME StoreInv, NEW r \in Reader, load[r].pc = "loaded", NEW h \in historyOf(load[r])
  PROVE  /\ h \in Seq(StreamEvent) /\ h # << >> /\ IsInjective(h)
         /\ \A i \in DOMAIN h : h[i] \in ID =>
              /\ h[i] \in load[r].nodes
              /\ parentsOf(h[i]) \subseteq {h[j] : j \in 1..(i - 1)}
         /\ load[r].nodes \subseteq ToSet(h)
<1>1. load[r] \in Loading
  BY DEF StoreInv, StoreTypeOK, noLoad
<1> DEFINE g == load[r]
           m == [n \in g.nodes |-> [deps |-> parentsOf(n), ts |-> 0]]
           ending == IF g.closed THEN <<"session.ended">> ELSE << >>
           order == log[g.session]
<1>2. g.session \in Session /\ g.nodes \subseteq ID
  BY <1>1 DEF Loading
<1>3. LoadHolds(g)
  BY DEF StoreInv, LoadsAreSound
<1>4. /\ g.nodes \subseteq ToSet(order)
      /\ \A n \in g.nodes : parentsOf(n) \subseteq g.nodes
  BY <1>3 DEF LoadHolds
<1>5. PICK k \in topoSortNodes(m) : h = <<"session.start">> \o k.sorted \o ending
  BY DEF historyOf
<1>6. DOMAIN m = g.nodes /\ \A n \in g.nodes : depsInScope(m, n) = parentsOf(n)
  BY <1>4 DEF depsInScope
<1>7. FiniteMap(m)
  BY <1>2, <1>4, <1>6, LogOrder, FS_Subset DEF FiniteMap
<1> HIDE DEF m
<1>8. \A i \in DOMAIN order : order[i] \in DOMAIN m =>
        depsInScope(m, order[i]) \subseteq {order[j] : j \in 1..(i - 1)}
  BY <1>2, <1>6, LogOrder
<1>9. /\ k.sorted \in Seq(DOMAIN m) /\ IsInjective(k.sorted)
      /\ ToSet(k.sorted) = DOMAIN m
      /\ \A i \in DOMAIN k.sorted :
           \A d \in depsInScope(m, k.sorted[i]) : \E j \in 1..(i - 1) : k.sorted[j] = d
  <2>1. order \in Seq(ID)
    BY <1>2, LogOrder
  <2>2. Witnesses(order, m)
    BY <1>4, <1>6, <1>8 DEF Witnesses
  <2>3. AllSorted(k.sorted, m)
    BY <1>5, <1>7, <2>1, <2>2, SortSucceeds
  <2> QED
    BY <2>3 DEF AllSorted
<1>10. PICK q : q = k.sorted
  OBVIOUS
<1>11. /\ q \in Seq(StreamEvent) /\ IsInjective(q) /\ ToSet(q) = g.nodes
       /\ \A i \in DOMAIN q : \A d \in parentsOf(q[i]) : \E j \in 1..(i - 1) : q[j] = d
       /\ \A i \in DOMAIN q : q[i] \in g.nodes
  <2>1. DOMAIN m \subseteq StreamEvent
    BY <1>2, <1>6 DEF StreamEvent
  <2>2. \A i \in DOMAIN q : q[i] \in g.nodes
    BY <1>6, <1>9, <1>10
  <2>3. q \in Seq(StreamEvent)
    BY <1>9, <1>10, <2>1, SeqSubset
  <2>4. IsInjective(q) /\ ToSet(q) = g.nodes
    BY <1>6, <1>9, <1>10
  <2>5. \A i \in DOMAIN q : \A d \in parentsOf(q[i]) : \E j \in 1..(i - 1) : q[j] = d
    BY <1>6, <1>9, <1>10, <2>2
  <2> QED
    BY <2>2, <2>3, <2>4, <2>5
<1>12. /\ <<"session.start">> \in Seq(StreamEvent) /\ ending \in Seq(StreamEvent)
       /\ IsInjective(<<"session.start">>) /\ IsInjective(ending)
       /\ ToSet(<<"session.start">>) = {"session.start"}
       /\ ToSet(ending) \subseteq {"session.ended"}
       /\ Len(<<"session.start">>) = 1 /\ <<"session.start">>[1] = "session.start"
  <2>1. "session.start" \in StreamEvent /\ "session.ended" \in StreamEvent
    BY DEF StreamEvent
  <2>2. CASE g.closed
    BY <2>1, <2>2, OneElement
  <2>3. CASE ~g.closed
    <3>1. ending = << >>
      BY <2>3
    <3>2. ending \in Seq(StreamEvent) /\ ToSet(ending) = {} /\ IsInjective(ending)
      BY <3>1 DEF ToSet, IsInjective
    <3> QED
      BY <2>1, <3>2, OneElement
  <2> QED
    BY <2>2, <2>3
<1> DEFINE front == <<"session.start">> \o q
<1>13. /\ front \in Seq(StreamEvent) /\ IsInjective(front)
       /\ \A x : x \in ToSet(front) <=> x = "session.start" \/ x \in g.nodes
  <2>1. "session.start" \notin g.nodes
    BY <1>2, EventAssumption
  <2>2. \A x : ~(x \in ToSet(<<"session.start">>) /\ x \in ToSet(q))
    BY <1>11, <1>12, <2>1
  <2> QED
    <3>1. \A x : x \in ToSet(<<"session.start">>) <=> x = "session.start"
      BY <1>12
    <3>2. /\ front \in Seq(StreamEvent) /\ IsInjective(front)
          /\ \A x : x \in ToSet(front) <=> x \in ToSet(<<"session.start">>) \/ x \in ToSet(q)
      BY <1>11, <1>12, <2>2, ConcatInjective
    <3> HIDE DEF front
    <3> QED
      BY <1>11, <3>1, <3>2
<1>14. /\ h = front \o ending
       /\ h \in Seq(StreamEvent) /\ IsInjective(h)
       /\ \A x : x \in ToSet(h) <=> x \in ToSet(front) \/ x \in ToSet(ending)
  <2>1. "session.ended" \notin g.nodes /\ "session.ended" # "session.start"
    BY <1>2, EventAssumption
  <2>2. \A x : ~(x \in ToSet(front) /\ x \in ToSet(ending))
    BY <1>12, <1>13, <2>1
  <2>3. h = front \o ending
    BY <1>5, <1>10
  <2> HIDE DEF front, ending
  <2> QED
    BY <1>12, <1>13, <2>2, <2>3, ConcatInjective
<1>15. /\ Len(q) \in Nat /\ Len(ending) \in Nat /\ DOMAIN q = 1..Len(q)
       /\ Len(front) = 1 + Len(q)
       /\ front[1] = "session.start"
       /\ \A i \in 2..(Len(q) + 1) : front[i] = q[i - 1]
  BY <1>11, <1>12, ConcatPositions
<1> HIDE DEF front, ending
<1>16. /\ DOMAIN h = 1..(Len(front) + Len(ending))
       /\ \A i \in 1..Len(front) : h[i] = front[i]
       /\ \A i \in (Len(front) + 1)..(Len(front) + Len(ending)) : h[i] = ending[i - Len(front)]
       /\ DOMAIN ending = 1..Len(ending)
  BY <1>12, <1>13, <1>14, ConcatPositions
<1>17. ASSUME NEW i \in DOMAIN h, h[i] \in ID
       PROVE  h[i] \in g.nodes /\ parentsOf(h[i]) \subseteq {h[j] : j \in 1..(i - 1)}
  <2>1. i \in 2..(Len(q) + 1)
    <3>1. i # 1
      BY <1>15, <1>16, <1>17, EventAssumption
    <3>2. ASSUME i \notin 1..Len(front) PROVE FALSE
      <4>1. i - Len(front) \in DOMAIN ending /\ h[i] = ending[i - Len(front)]
        BY <1>15, <1>16, <3>2
      <4>2. h[i] = "session.ended"
        BY <1>12, <4>1 DEF ToSet
      <4> QED
        BY <1>17, <4>2, EventAssumption
    <3> QED
      BY <1>15, <1>16, <3>1, <3>2
  <2>2. h[i] = q[i - 1] /\ i - 1 \in DOMAIN q
    BY <1>15, <1>16, <2>1
  <2>3. ASSUME NEW d \in parentsOf(h[i]) PROVE \E j \in 1..(i - 1) : h[j] = d
    <3>1. PICK j \in 1..(i - 2) : q[j] = d
      BY <1>11, <2>1, <2>2, <2>3
    <3>2. j + 1 \in 1..(i - 1) /\ h[j + 1] = q[j]
      BY <1>15, <1>16, <2>1, <3>1
    <3> QED
      BY <3>1, <3>2
  <2> QED
    BY <1>11, <2>2, <2>3
<1>18. h # << >>
  BY <1>14, <1>15, <1>16
<1>19. g.nodes \subseteq ToSet(h)
  BY <1>13, <1>14
<1> QED
  BY <1>14, <1>17, <1>18, <1>19

-----------------------------------------------------------------------------
(* Type correctness *)

OpenStream == [pc : {"load", "replay", "live"}, session : Session, replay : BOOLEAN,
               todo : Seq(StreamEvent), sent : Seq(StreamEvent)]

SessionQuery == [pc : {"session"}, session : Session, status : {"open", "closed"}, since : Nat]

SessionAnswer == [pc : {"session.answer"}, session : Session, status : {"open", "closed"},
                  since : Nat, head : SUBSET (ID \cup {NoID})]

LineageQuery == [pc : {"lineage"}, current : ID, path : Seq(ID)]

LineageAnswer == [pc : {"lineage.answer"}, path : Seq(ID)]

GraphQuery == [pc : {"graph"}, session : Session, nodes : SUBSET ID]

GraphAnswer == [pc : {"graph.answer"}, session : Session, nodes : SUBSET ID,
                edges : SUBSET (ID \X ID)]

AnyQuery == {noQuery} \cup SessionQuery \cup SessionAnswer \cup LineageQuery \cup LineageAnswer
              \cup GraphQuery \cup GraphAnswer

\* The types of streams and calls by these names.
LEMMA ManagementTypes ==
  ManagementTypeOK <=> /\ StoreTypeOK
                       /\ stream \in [Reader -> {noStream} \cup OpenStream]
                       /\ query \in [Reader -> AnyQuery]
BY DEF ManagementTypeOK, WatchTypeOK, OpenStream, StreamEvent, AnyQuery, SessionQuery,
       SessionAnswer, LineageQuery, LineageAnswer, GraphQuery, GraphAnswer

\* The same after a step.
LEMMA ManagementTypesAfter ==
  ManagementTypeOK' <=> /\ StoreTypeOK'
                        /\ stream' \in [Reader -> {noStream} \cup OpenStream]
                        /\ query' \in [Reader -> AnyQuery]
BY DEF ManagementTypeOK, WatchTypeOK, OpenStream, StreamEvent, AnyQuery, SessionQuery,
       SessionAnswer, LineageQuery, LineageAnswer, GraphQuery, GraphAnswer

\* The type of a call by its state.
LEMMA QueryType ==
  ASSUME NEW q \in AnyQuery
  PROVE  /\ q.pc = "session" <=> q \in SessionQuery
         /\ q.pc = "session.answer" <=> q \in SessionAnswer
         /\ q.pc = "lineage" <=> q \in LineageQuery
         /\ q.pc = "lineage.answer" <=> q \in LineageAnswer
         /\ q.pc = "graph" <=> q \in GraphQuery
         /\ q.pc = "graph.answer" <=> q \in GraphAnswer
         /\ q.pc = "none" <=> q = noQuery
BY DEF AnyQuery, noQuery, SessionQuery, SessionAnswer, LineageQuery, LineageAnswer, GraphQuery,
       GraphAnswer

\* The steps of a stream, and what they leave alone.
LEMMA HandlerTypes ==
  ASSUME StoreInv, ManagementTypeOK, NEW r \in Reader,
         stream[r].pc = "replay" => stream[r].todo # << >>,
         \/ Handler(r) \/ WatchSessionClose(r) \/ WatchSessionLoadFails(r)
         \/ \E s \in Session, replay \in BOOLEAN : WatchSessionOpen(r, s, replay)
  PROVE  stream' \in [Reader -> {noStream} \cup OpenStream]
<1>1. stream \in [Reader -> {noStream} \cup OpenStream]
  BY ManagementTypes
<1>2. stream[r].pc # "off" => stream[r] \in OpenStream
  BY <1>1 DEF noStream
<1>3. ASSUME NEW s \in Session, NEW replay \in BOOLEAN, WatchSessionOpen(r, s, replay)
      PROVE  stream' \in [Reader -> {noStream} \cup OpenStream]
  <2>1. << >> \in Seq(StreamEvent)
    OBVIOUS
  <2>2. [pc |-> IF replay THEN "load" ELSE "live", session |-> s, replay |-> replay,
         todo |-> << >>, sent |-> << >>] \in OpenStream
    BY <2>1 DEF OpenStream
  <2> QED
    BY <1>1, <1>3, <2>2 DEF WatchSessionOpen
<1>4. CASE WatchSessionLoad(r)
  BY <1>1, <1>4 DEF WatchSessionLoad
<1>5. CASE WatchSessionNoHistory(r)
  <2>1. [stream[r] EXCEPT !.pc = "live"] \in OpenStream
    BY <1>2, <1>5 DEF WatchSessionNoHistory, OpenStream
  <2> QED
    BY <1>1, <1>5, <2>1 DEF WatchSessionNoHistory
<1>6. CASE WatchSessionReplay(r)
  <2>1. PICK h \in historyOf(load[r]) : stream' = [stream EXCEPT ![r].pc = "replay", ![r].todo = h]
    BY <1>6 DEF WatchSessionReplay
  <2>2. h \in Seq(StreamEvent)
    BY <1>6, HistoryEvents DEF WatchSessionReplay
  <2>3. [stream[r] EXCEPT !.pc = "replay", !.todo = h] \in OpenStream
    BY <1>2, <1>6, <2>2 DEF WatchSessionReplay, OpenStream
  <2> QED
    BY <1>1, <2>1, <2>3
<1>7. CASE WatchSessionSendHistory(r)
  <2> DEFINE st == [stream[r] EXCEPT !.pc = IF Len(stream[r].todo) = 1 THEN "live" ELSE "replay",
                                     !.todo = Tail(@), !.sent = Append(@, Head(stream[r].todo))]
  <2>1. stream' = [stream EXCEPT ![r] = st]
    BY <1>1, <1>7 DEF WatchSessionSendHistory
  <2>2. stream[r].todo \in Seq(StreamEvent) /\ stream[r].sent \in Seq(StreamEvent)
    BY <1>2, <1>7 DEF WatchSessionSendHistory, OpenStream
  <2>3. Tail(stream[r].todo) \in Seq(StreamEvent) /\ Head(stream[r].todo) \in StreamEvent
    BY <1>7, <2>2, TailPositions DEF WatchSessionSendHistory
  <2>4. Append(stream[r].sent, Head(stream[r].todo)) \in Seq(StreamEvent)
    BY <2>2, <2>3, AppendPositions
  <2>5. st \in OpenStream
    BY <1>2, <1>7, <2>3, <2>4 DEF WatchSessionSendHistory, OpenStream
  <2> QED
    BY <1>1, <2>1, <2>5
<1>8. CASE WatchSessionSendLive(r)
  <2>1. stream[r] \in OpenStream /\ subs[r] \in Subscription /\ subs[r].chan # << >>
    BY <1>2, <1>8, ManagementTypes DEF WatchSessionSendLive, Receive, StoreTypeOK, unsubscribed
  <2>2. Head(subs[r].chan) \in StreamEvent
    <3>1. subs[r].chan \in Seq(ID)
      BY <2>1 DEF Subscription
    <3> QED
      BY <2>1, <3>1, TailPositions DEF StreamEvent
  <2>3. stream[r].sent \in Seq(StreamEvent)
    BY <2>1 DEF OpenStream
  <2>4. Append(stream[r].sent, Head(subs[r].chan)) \in Seq(StreamEvent)
    BY <2>2, <2>3, AppendPositions
  <2>5. [stream[r] EXCEPT !.sent = Append(@, Head(subs[r].chan))] \in OpenStream
    BY <2>1, <2>4 DEF OpenStream
  <2> QED
    BY <1>1, <1>8, <2>5 DEF WatchSessionSendLive
<1>9. CASE WatchSessionClose(r) \/ WatchSessionLoadFails(r)
  BY <1>1, <1>9 DEF WatchSessionClose, WatchSessionLoadFails
<1> QED
  BY <1>3, <1>4, <1>5, <1>6, <1>7, <1>8, <1>9 DEF Handler

\* The steps of the other calls.
LEMMA QueryTypeStep ==
  ASSUME ~QueryFails, StoreInv, ManagementTypeOK, NEW r \in Reader, Query(r)
  PROVE  query' \in [Reader -> AnyQuery]
<1>1. query \in [Reader -> AnyQuery] /\ StoreTypeOK
  BY ManagementTypes
<1>2. /\ query[r].pc = "session" => query[r] \in SessionQuery
      /\ query[r].pc = "lineage" => query[r] \in LineageQuery
      /\ query[r].pc = "graph" => query[r] \in GraphQuery
  BY <1>1, QueryType
<1>3. ASSUME NEW s \in Session, GetSession(r, s)
      PROVE  query' \in [Reader -> AnyQuery]
  <2>1. PICK status \in sessionStatus(s) :
          query' = [query EXCEPT ![r] = [pc |-> "session", session |-> s, status |-> status,
                                         since |-> Len(log[s])]]
    BY <1>3 DEF GetSession
  <2>2. status \in {"open", "closed"}
    BY <1>1, QuerySucceeds, QueryTypes DEF sessionStatus, firstOf
  <2>3. Len(log[s]) \in Nat
    BY LogOrder
  <2> QED
    BY <1>1, <2>1, <2>2, <2>3 DEF AnyQuery, SessionQuery
<1>4. ASSUME NEW s \in Session, GetSessionGraph(r, s)
      PROVE  query' \in [Reader -> AnyQuery]
  BY <1>1, <1>4, QueryTypes DEF GetSessionGraph, AnyQuery, GraphQuery
<1>5. ASSUME NEW n \in ID, GetResumeContext(r, n)
      PROVE  query' \in [Reader -> AnyQuery]
  BY <1>1, <1>5 DEF GetResumeContext, AnyQuery, LineageQuery
<1>6. CASE GetSessionLoad(r)
  BY <1>1, <1>6 DEF GetSessionLoad
<1>7. ASSUME NEW head \in SUBSET (ID \cup {NoID}), query[r].pc = "session", answerSession(r, head)
      PROVE  query' \in [Reader -> AnyQuery]
  BY <1>1, <1>2, <1>7 DEF answerSession, AnyQuery, SessionQuery, SessionAnswer
<1>8. CASE GetSessionReturn(r)
  <2>1. load[r].nodes \subseteq ID
    BY <1>1, <1>8 DEF GetSessionReturn, LoadDone, StoreTypeOK, noLoad, Loading
  <2> QED
    BY <1>7, <1>8, <2>1 DEF GetSessionReturn
<1>9. CASE GetSessionWithoutHead(r)
  BY <1>7, <1>9 DEF GetSessionWithoutHead
<1>10. CASE GetLineage(r)
  <2> DEFINE n == query[r].current
             path == <<n>> \o query[r].path
  <2>1. query[r] \in LineageQuery /\ n \in ID /\ query[r].path \in Seq(ID)
    BY <1>2, <1>10 DEF GetLineage, LineageQuery
  <2>2. path \in Seq(ID)
    BY <2>1, OneElement, ConcatPositions
  <2> HIDE DEF path
  <2>3. CASE query' = [query EXCEPT ![r] = noQuery]
    BY <1>1, <2>3 DEF AnyQuery
  <2>4. CASE query' = [query EXCEPT ![r] = [pc |-> "lineage.answer", path |-> path]]
    BY <1>1, <2>2, <2>4 DEF AnyQuery, LineageAnswer
  <2>5. ASSUME NEW p \in parentsOf(n),
               query' = [query EXCEPT ![r] = [@ EXCEPT !.current = p, !.path = path]]
        PROVE  query' \in [Reader -> AnyQuery]
    <3>1. p \in ID
      BY <1>1, QueryTypes
    <3>2. [query[r] EXCEPT !.current = p, !.path = path] \in LineageQuery
      BY <2>1, <2>2, <3>1 DEF LineageQuery
    <3> QED
      BY <1>1, <2>5, <3>2 DEF AnyQuery
  <2> QED
    BY <1>10, <2>3, <2>4, <2>5 DEF GetLineage, path
<1>11. CASE GetSessionGraphRead(r)
  <2>1. query[r].nodes \subseteq ID /\ query[r].session \in Session
    BY <1>2, <1>11 DEF GetSessionGraphRead, GraphQuery
  <2>2. edgesOf(query[r].nodes) \subseteq ID \X ID
    BY <1>1, <2>1, QueryTypes DEF edgesOf
  <2> QED
    BY <1>1, <1>11, <2>1, <2>2 DEF GetSessionGraphRead, AnyQuery, GraphAnswer
<1>12. CASE QueryDone(r)
  BY <1>1, <1>12 DEF QueryDone, AnyQuery
<1> QED
  BY <1>3, <1>4, <1>5, <1>6, <1>8, <1>9, <1>10, <1>11, <1>12 DEF Query, QueryStep

\* Every step preserves the types.
LEMMA ManagementTypeStep ==
  ASSUME ~QueryFails, StoreInv, ManagementTypeOK, [ManagementNext]_managementVars,
         \A r \in Reader : stream[r].pc = "replay" => stream[r].todo # << >>
  PROVE  ManagementTypeOK'
<1>1. StoreTypeOK'
  BY ManagementStoreStep, StoreInvStep DEF StoreInv
<1>2. /\ stream \in [Reader -> {noStream} \cup OpenStream]
      /\ query \in [Reader -> AnyQuery]
  BY ManagementTypes
<1>3. CASE UNCHANGED <<stream, query>>
  BY <1>1, <1>2, <1>3, ManagementTypesAfter
<1>4. ASSUME NEW r \in Reader, UNCHANGED query,
             \/ Handler(r) \/ WatchSessionClose(r) \/ WatchSessionLoadFails(r)
             \/ \E s \in Session, replay \in BOOLEAN : WatchSessionOpen(r, s, replay)
      PROVE  ManagementTypeOK'
  BY <1>1, <1>2, <1>4, HandlerTypes, ManagementTypesAfter
<1>5. ASSUME NEW r \in Reader, Query(r)
      PROVE  ManagementTypeOK'
  <2>1. UNCHANGED stream
    BY <1>5 DEF Query, QueryStep, QueryDone, GetSession, GetSessionGraph, GetResumeContext,
                GetLineage, GetSessionGraphRead, GetSessionLoad, GetSessionReturn,
                GetSessionWithoutHead, watchVars
  <2> QED
    BY <1>1, <1>2, <1>5, <2>1, QueryTypeStep, ManagementTypesAfter
<1>6. CASE stream' = [r \in Reader |-> noStream] /\ query' = [r \in Reader |-> noQuery]
  BY <1>1, <1>6, ManagementTypesAfter DEF AnyQuery
<1> QED
  BY <1>3, <1>4, <1>5, <1>6 DEF ManagementNext, managementVars

-----------------------------------------------------------------------------
(* Sessions and calls *)

\* A session that was created stays.
LEMMA SessionsStay ==
  ASSUME ~QueryFails, StoreInv, StoreStep \/ UNCHANGED storeVars, NEW s \in Session,
         sessionExists(s)
  PROVE  sessionExists(s)'
<1>1. StoreTypeOK /\ StoreTypeOK'
  BY StoreInvStep DEF StoreInv
<1>2. PICK x : <<s, "timestamp", x>> \in quads
  BY <1>1, QueryMember DEF sessionExists
<1>3. <<s, "timestamp", x>> \in quads'
  <2>1. ASSUME NEW t \in Session, Write(t)
        PROVE  <<s, "timestamp", x>> \in quads'
    BY <1>1, <1>2, <2>1, WriteCases
       DEF CreateSession, WriteNodeCheck, WriteNodeReadHeads, WriteNodeApply, WriteNodePublish,
           EndSessionReadStatus, EndSessionApply
  <2>2. ASSUME NEW r \in Reader, LoadGraph(r)
        PROVE  quads' = quads
    BY <2>2 DEF LoadGraph, LoadSession, LoadHead, LoadEnd, LoadNodes, LoadFails, LoadDone
  <2> QED
    BY <1>2, <2>1, <2>2 DEF StoreStep, storeVars, Receive, cancel, GiveUp, Watch, Crash
<1> QED
  BY <1>1, <1>3, QueryMemberAfter DEF sessionExists

\* A write begins, and a log grows, only in a session that exists.
LEMMA WrittenStep ==
  ASSUME ~QueryFails, StoreInv, WrittenSessionsExist, StoreStep \/ UNCHANGED storeVars
  PROVE  WrittenSessionsExist'
<1>1. StoreTypeOK
  BY DEF StoreInv
<1>2. SUFFICES ASSUME NEW s \in Session, log'[s] # << >> \/ op'[s].call = "write"
               PROVE  sessionExists(s)
  BY SessionsStay DEF WrittenSessionsExist
<1>3. SUFFICES ASSUME log[s] = << >>, op[s].call # "write"
               PROVE  sessionExists(s)
  BY DEF WrittenSessionsExist
<1>4. ASSUME NEW t \in Session, Write(t)
      PROVE  sessionExists(s)
  <2>1. CASE t # s
    <3>1. log'[s] = log[s] /\ op'[s] = op[s]
      BY <1>1, <1>4, <2>1, WriteCases
         DEF CreateSession, WriteNodeCheck, WriteNodeReadHeads, WriteNodeApply, WriteNodePublish,
             EndSessionReadStatus, EndSessionApply, StoreTypeOK
    <3> QED
      BY <1>2, <1>3, <3>1
  <2>2. CASE t = s
    <3>1. CASE \E n \in freshIDs, ps \in SUBSET ToSet(log[s]) : WriteNodeCheck(s, n, ps)
      BY <3>1 DEF WriteNodeCheck
    <3>2. CASE CreateSession(s) \/ EndSessionApply(s)
      BY <1>1, <1>2, <1>3, <3>2 DEF CreateSession, EndSessionApply, StoreTypeOK, idle
    <3>3. ASSUME NEW reason, NEW terminal, EndSessionReadStatus(s, reason, terminal)
          PROVE  FALSE
      BY <1>1, <1>2, <1>3, <3>3 DEF EndSessionReadStatus, StoreTypeOK
    <3> QED
      BY <1>1, <1>3, <1>4, <2>2, <3>1, <3>2, <3>3, WriteCases
         DEF WriteNodeReadHeads, WriteNodeApply, WriteNodePublish
  <2> QED
    BY <2>1, <2>2
<1>5. ASSUME NEW r \in Reader, LoadGraph(r)
      PROVE  UNCHANGED <<log, op>>
  BY <1>5 DEF LoadGraph, LoadSession, LoadHead, LoadEnd, LoadNodes, LoadFails, LoadDone
<1>6. CASE Crash
  BY <1>2, <1>3, <1>6 DEF Crash, idle
<1> QED
  BY <1>2, <1>3, <1>4, <1>5, <1>6 DEF StoreStep, storeVars, Receive, cancel, GiveUp, Watch

\* What a write does to a subscription: it is left alone or the node of the
\* write is published to it.
LEMMA WriteSubs ==
  ASSUME StoreInv, NEW s \in Session, Write(s), NEW r \in Reader
  PROVE  /\ load' = load
         /\ \/ subs'[r] = subs[r] /\ ~(writing(s, "publish") /\ subs[r].on /\ subs[r].session = s)
            \/ /\ writing(s, "publish") /\ WriteNodePublish(s)
               /\ subs[r] \in Subscription /\ subs[r].session = s
               /\ subs'[r] = publish(subs[r], op[s].node)
<1>1. StoreTypeOK
  BY DEF StoreInv
<1>2. CASE WriteNodePublish(s)
  <2>1. subs[r].on => subs[r] \in Subscription
    BY <1>1 DEF StoreTypeOK, unsubscribed
  <2> QED
    BY <1>2, <2>1 DEF WriteNodePublish, writing
<1>3. CASE ~WriteNodePublish(s)
  <2>1. subs' = subs /\ load' = load
    BY <1>1, <1>3, WriteCases
       DEF CreateSession, WriteNodeCheck, WriteNodeReadHeads, WriteNodeApply,
           EndSessionReadStatus, EndSessionApply
  <2>2. op[s] = idle \/ op[s].call = "end" \/ op[s].pc = "heads" \/ op[s].pc = "apply"
    <3>1. WriteNodeApply(s) => op[s].pc = "apply"
      BY DEF WriteNodeApply
    <3>2. WriteNodeReadHeads(s) => op[s].pc = "heads"
      BY DEF WriteNodeReadHeads
    <3> QED
      BY <1>1, <1>3, <3>1, <3>2, WriteCases
         DEF CreateSession, WriteNodeCheck, EndSessionReadStatus, EndSessionApply
  <2>3. ~writing(s, "publish")
    BY <2>2 DEF writing, idle
  <2> QED
    BY <2>1, <2>3
<1> QED
  BY <1>2, <1>3 DEF WriteNodePublish

\* Publishing changes only the channel, or the mark of a drop.
LEMMA PublishEffect ==
  ASSUME NEW sub \in Subscription, NEW n \in ID
  PROVE  /\ publish(sub, n).on /\ publish(sub, n).session = sub.session
         /\ publish(sub, n).since = sub.since
         /\ \/ publish(sub, n).chan = sub.chan /\ publish(sub, n).dropped
            \/ publish(sub, n).chan = Append(sub.chan, n) /\ publish(sub, n).dropped = sub.dropped
<1>1. CASE Len(sub.chan) < BufSize
  <2>1. publish(sub, n) = [sub EXCEPT !.chan = Append(sub.chan, n)]
    BY <1>1 DEF publish
  <2> QED
    BY <2>1 DEF Subscription
<1>2. CASE ~(Len(sub.chan) < BufSize)
  <2>1. publish(sub, n) = [sub EXCEPT !.dropped = TRUE]
    BY <1>2 DEF publish
  <2> QED
    BY <2>1 DEF Subscription
<1> QED
  BY <1>1, <1>2

\* The later queries of a LoadGraph call go on with the call.
LEMMA LoadGoesOn ==
  ASSUME StoreTypeOK, NEW r \in Reader, LoadHead(r) \/ LoadEnd(r) \/ LoadNodes(r)
  PROVE  /\ load[r] \in Loading /\ load[r].pc # "none" /\ load'[r].pc # "none"
         /\ load'[r].session = load[r].session /\ load'[r].ids0 = load[r].ids0
         /\ LoadHead(r) \/ (load[r].pc \in {"end", "nodes"} /\ load'[r].head = load[r].head)
         /\ \A t \in Reader : t # r => load'[t] = load[t]
<1>1. load \in [Reader -> {noLoad} \cup Loading]
  BY DEF StoreTypeOK
<1>2. load[r].pc # "none"
  BY DEF LoadHead, LoadEnd, LoadNodes
<1>3. load[r] \in Loading
  BY <1>1, <1>2 DEF noLoad
<1>4. CASE LoadHead(r)
  <2>1. PICK h : load' = [load EXCEPT ![r].pc = IF load[r].closed THEN "end" ELSE "nodes",
                                      ![r].head = h]
    BY <1>4 DEF LoadHead
  <2>2. load'[r] = [load[r] EXCEPT !.pc = IF load[r].closed THEN "end" ELSE "nodes", !.head = h]
    BY <1>1, <2>1
  <2>3. /\ load'[r].pc = IF load[r].closed THEN "end" ELSE "nodes"
        /\ load'[r].session = load[r].session /\ load'[r].ids0 = load[r].ids0
    BY <1>3, <2>2 DEF Loading
  <2> QED
    BY <1>1, <1>2, <1>3, <1>4, <2>1, <2>3
<1>5. CASE LoadEnd(r)
  <2>1. PICK x, y : load' = [load EXCEPT ![r].pc = "nodes", ![r].reason = x, ![r].terminal = y]
    BY <1>5 DEF LoadEnd
  <2>2. load'[r] = [load[r] EXCEPT !.pc = "nodes", !.reason = x, !.terminal = y]
    BY <1>1, <2>1
  <2>3. /\ load'[r].pc = "nodes"
        /\ load'[r].session = load[r].session /\ load'[r].ids0 = load[r].ids0
        /\ load'[r].head = load[r].head
    BY <1>3, <2>2 DEF Loading
  <2> QED
    BY <1>1, <1>2, <1>3, <1>5, <2>1, <2>3 DEF LoadEnd
<1>6. CASE LoadNodes(r)
  <2>1. load'[r] = [load[r] EXCEPT !.pc = "loaded", !.nodes = storedNodes(load[r].session)]
    BY <1>1, <1>6 DEF LoadNodes
  <2>2. /\ load'[r].pc = "loaded"
        /\ load'[r].session = load[r].session /\ load'[r].ids0 = load[r].ids0
        /\ load'[r].head = load[r].head
    BY <1>3, <2>1 DEF Loading
  <2> QED
    BY <1>1, <1>2, <1>3, <1>6, <2>2 DEF LoadNodes
<1> QED
  BY <1>4, <1>5, <1>6

\* What sending the next event of the history does to the stream.
LEMMA SendHistoryEffect ==
  ASSUME ManagementTypeOK, NEW r \in Reader, WatchSessionSendHistory(r)
  PROVE  /\ stream[r] \in OpenStream /\ stream[r].pc = "replay"
         /\ stream'[r].pc = (IF Len(stream[r].todo) = 1 THEN "live" ELSE "replay")
         /\ stream'[r].session = stream[r].session /\ stream'[r].replay = stream[r].replay
         /\ stream'[r].todo = Tail(stream[r].todo)
         /\ stream'[r].sent = Append(stream[r].sent, Head(stream[r].todo))
<1>1. stream \in [Reader -> {noStream} \cup OpenStream] /\ stream[r].pc = "replay"
  BY ManagementTypes DEF WatchSessionSendHistory
<1>2. stream[r] \in OpenStream
  BY <1>1 DEF noStream
<1>3. stream'[r] = [stream[r] EXCEPT !.pc = IF Len(stream[r].todo) = 1 THEN "live" ELSE "replay",
                                     !.todo = Tail(stream[r].todo),
                                     !.sent = Append(stream[r].sent, Head(stream[r].todo))]
  BY <1>1 DEF WatchSessionSendHistory
<1> QED
  BY <1>1, <1>2, <1>3 DEF OpenStream

\* What passing on a live node does to the stream and to the subscription.
LEMMA SendLiveEffect ==
  ASSUME ManagementTypeOK, NEW r \in Reader, WatchSessionSendLive(r)
  PROVE  /\ stream[r] \in OpenStream /\ subs[r] \in Subscription /\ subs[r].chan # << >>
         /\ stream[r].pc = "live" /\ stream'[r].pc = "live"
         /\ stream'[r].session = stream[r].session /\ stream'[r].replay = stream[r].replay
         /\ stream'[r].todo = stream[r].todo
         /\ stream'[r].sent = Append(stream[r].sent, Head(subs[r].chan))
         /\ subs'[r].on /\ subs'[r].session = subs[r].session
         /\ subs'[r].dropped = subs[r].dropped /\ subs'[r].since = subs[r].since
         /\ subs'[r].chan = Tail(subs[r].chan)
<1>1. /\ stream \in [Reader -> {noStream} \cup OpenStream] /\ stream[r].pc = "live"
      /\ subs \in [Reader -> {unsubscribed} \cup Subscription]
      /\ subs[r].on /\ subs[r].chan # << >>
  BY ManagementTypes DEF WatchSessionSendLive, Receive, StoreTypeOK
<1>2. stream[r] \in OpenStream /\ subs[r] \in Subscription
  BY <1>1 DEF noStream, unsubscribed
<1>3. /\ stream'[r] = [stream[r] EXCEPT !.sent = Append(stream[r].sent, Head(subs[r].chan))]
      /\ subs'[r] = [subs[r] EXCEPT !.chan = Tail(subs[r].chan)]
  BY <1>1 DEF WatchSessionSendLive, Receive
<1>4. /\ stream'[r].pc = "live"
      /\ stream'[r].session = stream[r].session /\ stream'[r].replay = stream[r].replay
      /\ stream'[r].todo = stream[r].todo
      /\ stream'[r].sent = Append(stream[r].sent, Head(subs[r].chan))
  BY <1>1, <1>2, <1>3 DEF OpenStream
<1>5. /\ subs'[r].on /\ subs'[r].session = subs[r].session
      /\ subs'[r].dropped = subs[r].dropped /\ subs'[r].since = subs[r].since
      /\ subs'[r].chan = Tail(subs[r].chan)
  BY <1>2, <1>3 DEF Subscription
<1> QED
  BY <1>1, <1>2, <1>4, <1>5

\* The calls of a reader stay apart.
LEMMA CallsStep ==
  ASSUME ~QueryFails, ManagementInv, [ManagementNext]_managementVars
  PROVE  CallsAreSeparate'
<1>1. /\ StoreTypeOK /\ StoreInv /\ CallsAreSeparate
      /\ stream \in [Reader -> {noStream} \cup OpenStream]
      /\ query \in [Reader -> AnyQuery]
  BY ManagementTypes DEF ManagementInv
<1>2. CASE UNCHANGED managementVars
  BY <1>1, <1>2 DEF managementVars, CallsAreSeparate
<1>3. ASSUME NEW s \in Session, Write(s), UNCHANGED <<stream, query>>
      PROVE  CallsAreSeparate'
  <2>1. ASSUME NEW r \in Reader
        PROVE  /\ load' = load /\ (subs'[r].on <=> subs[r].on)
               /\ subs[r].on => subs'[r].session = subs[r].session
    <3>1. CASE subs'[r] = subs[r]
      BY <1>1, <1>3, <3>1, WriteSubs
    <3>2. CASE subs'[r] # subs[r]
      <4>1. /\ writing(s, "publish") /\ subs[r] \in Subscription
            /\ subs'[r] = publish(subs[r], op[s].node) /\ load' = load
        BY <1>1, <1>3, <3>2, WriteSubs
      <4>2. op[s].node \in ID
        BY <1>1, <4>1 DEF StoreTypeOK, writing, idle, EndOp, WriteOp
      <4>3. subs'[r].on /\ subs'[r].session = subs[r].session
        BY <4>1, <4>2, PublishEffect
      <4>4. subs[r].on
        BY <4>1 DEF Subscription
      <4> QED
        BY <4>1, <4>3, <4>4
    <3> QED
      BY <3>1, <3>2
  <2>2. load' = load
    BY <1>1, <1>3, WriteCases
       DEF CreateSession, WriteNodeCheck, WriteNodeReadHeads, WriteNodeApply, WriteNodePublish,
           EndSessionReadStatus, EndSessionApply
  <2> QED
    BY <1>1, <1>3, <2>1, <2>2 DEF CallsAreSeparate
<1>4. ASSUME NEW r \in Reader, NEW s \in Session, NEW replay \in BOOLEAN,
             free(r), WatchSessionOpen(r, s, replay), UNCHANGED query
      PROVE  CallsAreSeparate'
  <2>1. /\ stream'[r].pc # "off" /\ stream'[r].session = s /\ query[r] = noQuery
        /\ load'[r].pc = "none" /\ subs'[r].on /\ subs'[r].session = s /\ query' = query
    BY <1>1, <1>4 DEF free, WatchSessionOpen, Watch, StoreTypeOK, noLoad
  <2>2. \A t \in Reader : t # r => /\ stream'[t] = stream[t] /\ load'[t] = load[t]
                                   /\ subs'[t] = subs[t] /\ query'[t] = query[t]
    BY <1>1, <1>4 DEF WatchSessionOpen, Watch, StoreTypeOK
  <2> QED
    BY <1>1, <2>1, <2>2 DEF CallsAreSeparate
<1>5. ASSUME NEW r \in Reader, Handler(r) \/ WatchSessionClose(r) \/ WatchSessionLoadFails(r),
             UNCHANGED query
      PROVE  CallsAreSeparate'
  <2>1. \A t \in Reader : t # r => /\ stream'[t] = stream[t] /\ load'[t] = load[t]
                                   /\ subs'[t] = subs[t] /\ query'[t] = query[t]
    BY <1>1, <1>5
       DEF Handler, WatchSessionLoad, LoadSession, LoadHead, LoadEnd, LoadNodes, storeVars,
           WatchSessionNoHistory, WatchSessionReplay, WatchSessionSendHistory,
           WatchSessionSendLive, Receive, WatchSessionClose, cancel, WatchSessionLoadFails,
           StoreTypeOK
  <2>2. stream[r] \in OpenStream /\ subs[r] \in Subscription /\ query'[r] = noQuery
        /\ subs[r].session = stream[r].session /\ subs[r].on /\ stream[r].pc # "off"
    <3>1. stream[r].pc # "off"
      BY <1>5 DEF Handler, WatchSessionLoad, WatchSessionNoHistory, WatchSessionReplay,
                  WatchSessionSendHistory, WatchSessionSendLive, WatchSessionClose,
                  WatchSessionLoadFails
    <3> QED
      BY <1>1, <1>5, <3>1 DEF CallsAreSeparate, noStream, StoreTypeOK, unsubscribed
  <2>3. CASE WatchSessionLoad(r)
    <3>1. /\ stream' = stream /\ subs' = subs /\ stream[r].pc = "load"
      BY <2>3 DEF WatchSessionLoad, LoadSession, LoadHead, LoadEnd, LoadNodes
    <3>2. load'[r].session = stream[r].session
      <4>1. CASE LoadSession(r, stream[r].session)
        BY <1>1, <4>1 DEF LoadSession, StoreTypeOK
      <4>2. CASE LoadHead(r) \/ LoadEnd(r) \/ LoadNodes(r)
        <5>1. load[r].pc # "none" /\ load'[r].session = load[r].session
          BY <1>1, <4>2, LoadGoesOn
        <5>2. load[r].session = stream[r].session
          BY <1>1, <2>2, <1>5, <5>1 DEF CallsAreSeparate, noQuery
        <5> QED
          BY <5>1, <5>2
      <4> QED
        BY <2>3, <4>1, <4>2 DEF WatchSessionLoad
    <3> QED
      BY <1>1, <2>1, <2>2, <3>1, <3>2 DEF CallsAreSeparate
  <2>4. CASE WatchSessionNoHistory(r) \/ WatchSessionReplay(r)
    <3>1. /\ stream'[r].pc # "off" /\ stream'[r].session = stream[r].session
      BY <1>1, <2>2, <2>4 DEF WatchSessionNoHistory, WatchSessionReplay, OpenStream
    <3>2. load'[r].pc = "none" /\ subs' = subs
      BY <1>1, <2>4 DEF WatchSessionNoHistory, WatchSessionReplay, storeVars, StoreTypeOK, noLoad
    <3> QED
      BY <1>1, <2>1, <2>2, <3>1, <3>2 DEF CallsAreSeparate
  <2>5. CASE WatchSessionSendHistory(r) \/ WatchSessionSendLive(r)
    <3>1. /\ stream'[r].pc # "off" /\ stream'[r].session = stream[r].session
      BY <2>5, SendHistoryEffect, SendLiveEffect DEF ManagementInv
    <3>2. load[r].pc = "none"
      BY <1>1, <2>2, <1>5, <2>5
         DEF CallsAreSeparate, WatchSessionSendHistory, WatchSessionSendLive, noQuery
    <3>3. load' = load /\ subs'[r].on /\ subs'[r].session = subs[r].session
      BY <1>1, <2>2, <2>5 DEF WatchSessionSendHistory, WatchSessionSendLive, storeVars, Receive,
                              StoreTypeOK, Subscription
    <3> QED
      BY <1>1, <2>1, <2>2, <3>1, <3>2, <3>3 DEF CallsAreSeparate
  <2>6. CASE WatchSessionClose(r) \/ WatchSessionLoadFails(r)
    <3>1. stream'[r].pc = "off" /\ ~subs'[r].on
      BY <1>1, <2>6 DEF WatchSessionClose, WatchSessionLoadFails, cancel, noStream, unsubscribed,
                        StoreTypeOK
    <3>2. load'[r].pc = "none"
      BY <1>1, <2>2, <1>5, <2>6
         DEF CallsAreSeparate, WatchSessionClose, WatchSessionLoadFails, cancel, noLoad, noQuery,
             StoreTypeOK
    <3> QED
      BY <1>1, <2>1, <2>2, <3>1, <3>2 DEF CallsAreSeparate
  <2> QED
    BY <1>5, <2>3, <2>4, <2>5, <2>6 DEF Handler
<1>6. ASSUME NEW r \in Reader, Query(r)
      PROVE  CallsAreSeparate'
  <2>1. \A t \in Reader : t # r => load'[t] = load[t] /\ query'[t] = query[t]
    BY <1>1, <1>6
       DEF Query, QueryStep, QueryDone, GetSession, GetSessionGraph, GetResumeContext, GetLineage,
           GetSessionGraphRead, GetSessionLoad, GetSessionReturn, GetSessionWithoutHead,
           LoadSession, LoadHead, LoadEnd, LoadNodes, LoadFails, LoadDone, answerSession,
           watchVars, StoreTypeOK
  <2>2. UNCHANGED <<stream, subs>>
    BY <1>6 DEF Query, QueryStep, QueryDone, GetSession, GetSessionGraph, GetResumeContext,
                GetLineage, GetSessionGraphRead, GetSessionLoad, GetSessionReturn,
                GetSessionWithoutHead, LoadSession, LoadHead, LoadEnd, LoadNodes, LoadFails,
                LoadDone, watchVars
  <2>3. stream[r].pc = "off"
    <3>1. free(r) \/ query[r].pc # "none"
      BY <1>6 DEF Query, QueryStep, QueryDone, GetSession, GetSessionGraph, GetResumeContext,
                  GetLineage, GetSessionGraphRead, GetSessionLoad, GetSessionReturn,
                  GetSessionWithoutHead, answered
    <3> QED
      BY <1>1, <3>1 DEF CallsAreSeparate, free, noQuery
  <2>4. load'[r].pc # "none" => query'[r].pc = "session" /\ load'[r].session = query'[r].session
    <3>1. load[r].pc # "none" =>
            /\ query[r].pc = "session" /\ load[r].session = query[r].session
            /\ load[r] \in Loading
      BY <1>1, <2>3 DEF CallsAreSeparate, StoreTypeOK, noLoad
    <3>2. CASE GetSessionLoad(r)
      <4>1. query' = query /\ query[r].pc = "session"
        BY <3>2 DEF GetSessionLoad
      <4>2. CASE LoadSession(r, query[r].session)
        BY <1>1, <4>1, <4>2 DEF LoadSession, StoreTypeOK
      <4>3. CASE LoadHead(r) \/ LoadEnd(r) \/ LoadNodes(r)
        BY <1>1, <3>1, <4>1, <4>3, LoadGoesOn
      <4> QED
        BY <3>2, <4>2, <4>3 DEF GetSessionLoad
    <3>3. CASE GetSessionReturn(r) \/ GetSessionWithoutHead(r)
      BY <1>1, <3>3 DEF GetSessionReturn, GetSessionWithoutHead, LoadDone, LoadFails, StoreTypeOK,
                        noLoad
    <3>4. CASE load' = load /\ query[r].pc # "session"
      BY <3>1, <3>4
    <3>5. ASSUME free(r), UNCHANGED watchVars
          PROVE  load' = load /\ query[r].pc # "session"
      BY <3>5 DEF free, noQuery, watchVars
    <3>6. CASE GetLineage(r) \/ GetSessionGraphRead(r) \/ QueryDone(r)
      BY <3>4, <3>6 DEF GetLineage, GetSessionGraphRead, QueryDone, answered, watchVars
    <3> QED
      BY <1>6, <3>2, <3>3, <3>4, <3>5, <3>6
         DEF Query, QueryStep, GetSession, GetSessionGraph, GetResumeContext
  <2> QED
    BY <1>1, <2>1, <2>2, <2>3, <2>4 DEF CallsAreSeparate
<1>7. CASE Crash /\ stream' = [r \in Reader |-> noStream] /\ query' = [r \in Reader |-> noQuery]
  BY <1>7 DEF Crash, CallsAreSeparate, noStream, noQuery, noLoad, unsubscribed
<1> QED
  BY <1>2, <1>3, <1>4, <1>5, <1>6, <1>7 DEF ManagementNext

-----------------------------------------------------------------------------
(* The answers of the other calls *)

\* A head that is recent stays recent while the store grows.
LEMMA RecentStays ==
  ASSUME StoreInv, StoreInv', Grows, NEW s \in Session, NEW since, NEW head,
         Recent(s, since, head)
  PROVE  Recent(s, since, head)'
<1>1. CASE head = NoID
  BY <1>1 DEF Recent
<1>2. CASE head # NoID
  <2>1. PICK i \in DOMAIN log[s] : i >= since /\ log[s][i] = head
    BY <1>2 DEF Recent
  <2>2. /\ Len(log[s]) \in Nat /\ DOMAIN log[s] = 1..Len(log[s])
        /\ Len(log'[s]) \in Nat /\ DOMAIN log'[s] = 1..Len(log'[s])
        /\ Len(log[s]) <= Len(log'[s])
    BY DEF StoreInv, StoreTypeOK, Grows
  <2>3. i \in DOMAIN log'[s] /\ log'[s][i] = log[s][i]
    BY <2>1, <2>2 DEF Grows
  <2> QED
    BY <1>2, <2>1, <2>3 DEF Recent
<1> QED
  BY <1>1, <1>2

\* What a call holds stays true while the store grows.
LEMMA AnswerStays ==
  ASSUME StoreInv, StoreInv', Grows, NEW q \in AnyQuery, AnswerHolds(q)
  PROVE  AnswerHolds(q)'
<1>1. \A s \in Session : /\ log[s] \in Seq(ID) /\ Len(log[s]) \in Nat
                         /\ log'[s] \in Seq(ID) /\ Len(log'[s]) \in Nat
                         /\ Len(log[s]) <= Len(log'[s])
                         /\ \A i \in 1..Len(log[s]) : log'[s][i] = log[s][i]
                         /\ ToSet(log[s]) \subseteq ToSet(log'[s])
                         /\ \A n \in ToSet(log[s]) : parentsOf(n)' = parentsOf(n)
  BY DEF StoreInv, StoreTypeOK, Grows
<1>2. CASE q.pc = "session"
  <2>1. q.session \in Session /\ q.since \in Nat
    BY <1>2, QueryType DEF SessionQuery
  <2> QED
    BY <1>1, <1>2, <2>1 DEF AnswerHolds
<1>3. CASE q.pc = "session.answer"
  <2>1. q.session \in Session
    BY <1>3, QueryType DEF SessionAnswer
  <2> QED
    BY <1>3, <2>1, RecentStays DEF AnswerHolds
<1>4. CASE q.pc \in {"lineage", "lineage.answer"}
  <2>1. q.path \in Seq(ID)
    BY <1>4, QueryType DEF LineageQuery, LineageAnswer
  <2>2. DOMAIN q.path = 1..Len(q.path) /\ Len(q.path) \in Nat
    BY <2>1
  <2>3. \A i \in DOMAIN q.path : \E s \in Session : q.path[i] \in ToSet(log[s])
    BY <1>4 DEF AnswerHolds
  <2>4. \A i \in DOMAIN q.path : \E s \in Session : q.path[i] \in ToSet(log'[s])
    BY <1>1, <2>3
  <2>5. \A i \in DOMAIN q.path : parentsOf(q.path[i])' = parentsOf(q.path[i])
    BY <1>1, <2>3
  <2>6. ASSUME NEW i \in 1..(Len(q.path) - 1)
        PROVE  q.path[i] \in parentsOf(q.path[i + 1])'
    <3>1. i + 1 \in DOMAIN q.path
      BY <2>2
    <3>2. q.path[i] \in parentsOf(q.path[i + 1])
      BY <1>4 DEF AnswerHolds
    <3> QED
      BY <2>5, <3>1, <3>2
  <2>7. ASSUME q.pc = "lineage", q.path # << >>
        PROVE  q.current \in parentsOf(q.path[1])'
    <3>1. 1 \in DOMAIN q.path
      BY <2>1, <2>7
    <3> QED
      BY <2>5, <2>7, <3>1 DEF AnswerHolds
  <2>8. ASSUME q.pc = "lineage.answer"
        PROVE  \E s \in Session : log'[s] # << >> /\ q.path[1] = log'[s][1]
    <3>1. PICK s \in Session : log[s] # << >> /\ q.path[1] = log[s][1]
      BY <2>8 DEF AnswerHolds
    <3>2. Len(log[s]) >= 1
      BY <1>1, <3>1
    <3>3. log'[s][1] = log[s][1] /\ log'[s] # << >>
      BY <1>1, <3>2
    <3> QED
      BY <3>1, <3>3
  <2> QED
    BY <1>4, <2>4, <2>6, <2>7, <2>8 DEF AnswerHolds
<1>5. CASE q.pc = "graph"
  <2>1. q.session \in Session
    BY <1>5, QueryType DEF GraphQuery
  <2> QED
    BY <1>1, <1>5, <2>1 DEF AnswerHolds
<1>6. CASE q.pc \in {"none", "graph.answer"}
  BY <1>6 DEF AnswerHolds
<1> QED
  BY <1>2, <1>3, <1>4, <1>5, <1>6, QueryType
     DEF AnyQuery, noQuery, SessionQuery, SessionAnswer, LineageQuery, LineageAnswer, GraphQuery,
         GraphAnswer

\* The head LoadGraph reads is the node applied last.
LEMMA HeadIsRecent ==
  ASSUME ~QueryFails, StoreInv, NEW r \in Reader, LoadHead(r), NEW since \in Nat,
         since <= Len(log[load[r].session])
  PROVE  Recent(load[r].session, since, load'[r].head)
<1> DEFINE s == load[r].session
<1>1. load[r] \in Loading /\ s \in Session
  BY DEF StoreInv, StoreTypeOK, LoadHead, noLoad, Loading
<1>2. PICK vals \in queried(s, "head") : \E h \in firstOf(vals, NoID) :
        load' = [load EXCEPT ![r].pc = IF load[r].closed THEN "end" ELSE "nodes", ![r].head = h]
  BY DEF LoadHead
<1>3. vals = outValues(s, "head")
  BY QuerySucceeds
<1>4. PICK h \in firstOf(outValues(s, "head"), NoID) :
        load' = [load EXCEPT ![r].pc = IF load[r].closed THEN "end" ELSE "nodes", ![r].head = h]
  BY <1>2, <1>3
<1>5. load'[r] = [load[r] EXCEPT !.pc = IF load[r].closed THEN "end" ELSE "nodes", !.head = h]
  BY <1>4 DEF StoreInv, StoreTypeOK
<1>6. load'[r].head = h
  BY <1>1, <1>5 DEF Loading
<1>7. outValues(s, "head") = IF log[s] = << >> THEN {} ELSE {Last(log[s])}
  BY <1>1 DEF StoreInv, HeadIsLastApplied
<1>8. log[s] \in Seq(ID) /\ Len(log[s]) \in Nat /\ DOMAIN log[s] = 1..Len(log[s])
  BY <1>1, LogOrder
<1>9. CASE log[s] = << >>
  <2>1. h = NoID /\ Len(log[s]) = 0
    BY <1>4, <1>7, <1>9 DEF firstOf
  <2>2. since = 0
    BY <1>8, <2>1
  <2> QED
    BY <1>6, <2>1, <2>2 DEF Recent
<1>10. CASE log[s] # << >>
  <2>1. h = Last(log[s])
    <3>1. outValues(s, "head") = {Last(log[s])}
      BY <1>7, <1>10
    <3>2. firstOf(outValues(s, "head"), NoID) = outValues(s, "head")
      BY <3>1 DEF firstOf
    <3> QED
      BY <1>4, <3>1, <3>2
  <2>2. Len(log[s]) \in DOMAIN log[s] /\ log[s][Len(log[s])] = h
    BY <1>8, <1>10, <2>1 DEF Last
  <2>3. h # NoID
    BY <1>8, <2>2, StoreAssumption
  <2> QED
    BY <1>6, <1>8, <2>2, <2>3 DEF Recent
<1> QED
  BY <1>9, <1>10

\* A call that is not begun, answered or dropped holds nothing.
LEMMA NoAnswer ==
  AnswerHolds(noQuery)
BY DEF AnswerHolds, noQuery

\* One more node at the front of a lineage that was walked so far.
LEMMA LineageGrows ==
  ASSUME StoreInv, NEW q \in LineageQuery, AnswerHolds(q), NEW n, n = q.current, nodeExists(n)
  PROVE  LET path == <<n>> \o q.path IN
         /\ path \in Seq(ID) /\ path[1] = n /\ path # << >>
         /\ \E s \in Session : n \in ToSet(log[s])
         /\ \A i \in DOMAIN path : \E s \in Session : path[i] \in ToSet(log[s])
         /\ \A i \in 1..(Len(path) - 1) : path[i] \in parentsOf(path[i + 1])
<1> DEFINE path == <<n>> \o q.path
<1>1. n \in ID /\ q.path \in Seq(ID) /\ q.pc = "lineage"
  BY DEF LineageQuery
<1>2. /\ path \in Seq(ID) /\ Len(path) = 1 + Len(q.path) /\ Len(q.path) \in Nat
      /\ DOMAIN path = 1..(1 + Len(q.path)) /\ path[1] = n
      /\ \A i \in 2..(1 + Len(q.path)) : path[i] = q.path[i - 1]
      /\ DOMAIN q.path = 1..Len(q.path)
  BY <1>1, OneElement, ConcatPositions
<1> HIDE DEF path
<1>3. \E s \in Session : n \in ToSet(log[s])
  <2>1. PICK s : <<n, "session", s>> \in quads
    BY QueryMember DEF nodeExists, StoreInv
  <2>2. s \in Session
    BY <2>1, QuadTypes DEF StoreInv
  <2>3. n \in storedNodes(s)
    BY <2>1, QueryMember DEF storedNodes, StoreInv
  <2> QED
    BY <2>2, <2>3 DEF StoreInv, NodesAreWhole
<1>4. ASSUME NEW i \in DOMAIN path
      PROVE  \E s \in Session : path[i] \in ToSet(log[s])
  <2>1. CASE i = 1
    BY <1>2, <1>3, <2>1
  <2>2. CASE i # 1
    <3>1. i - 1 \in DOMAIN q.path /\ path[i] = q.path[i - 1]
      BY <1>2, <2>2
    <3> QED
      BY <1>1, <3>1 DEF AnswerHolds
  <2> QED
    BY <2>1, <2>2
<1>5. ASSUME NEW i \in 1..(Len(path) - 1)
      PROVE  path[i] \in parentsOf(path[i + 1])
  <2>1. path[i + 1] = q.path[i]
    BY <1>2
  <2>2. CASE i = 1
    <3>1. q.path # << >>
      BY <1>2, <2>2
    <3> QED
      BY <1>1, <1>2, <2>1, <2>2, <3>1 DEF AnswerHolds
  <2>3. CASE i # 1
    <3>1. i - 1 \in 1..(Len(q.path) - 1) /\ path[i] = q.path[i - 1]
      BY <1>2, <2>3
    <3>2. q.path[i - 1] \in parentsOf(q.path[(i - 1) + 1])
      BY <1>1, <3>1 DEF AnswerHolds
    <3>3. (i - 1) + 1 = i
      OBVIOUS
    <3> QED
      BY <2>1, <3>1, <3>2, <3>3
  <2> QED
    BY <2>2, <2>3
<1>6. path # << >>
  BY <1>2
<1> QED
  BY <1>2, <1>3, <1>4, <1>5, <1>6 DEF path

\* What a call of the management service holds after its step.
LEMMA QueryAnswers ==
  ASSUME ~QueryFails, ManagementInv, NEW r \in Reader, Query(r), NEW q, q = query'[r]
  PROVE  AnswerHolds(q)
<1>1. /\ StoreInv /\ StoreTypeOK /\ query \in [Reader -> AnyQuery] /\ AnswerHolds(query[r])
      /\ query[r].pc = "session" /\ load[r].pc \in {"end", "nodes", "loaded"} =>
           Recent(query[r].session, query[r].since, load[r].head)
  BY ManagementTypes DEF ManagementInv, AnswersHold
<1>2. /\ query[r].pc = "session" => query[r] \in SessionQuery
      /\ query[r].pc = "lineage" => query[r] \in LineageQuery
      /\ query[r].pc = "graph" => query[r] \in GraphQuery
  BY <1>1, QueryType
<1>3. ASSUME NEW s \in Session, GetSession(r, s)
      PROVE  AnswerHolds(q)
  <2>1. q.pc = "session" /\ q.session = s /\ q.since = Len(log[s])
    BY <1>1, <1>3 DEF GetSession
  <2>2. Len(log[s]) \in Nat
    BY <1>1, LogOrder
  <2> QED
    BY <2>1, <2>2 DEF AnswerHolds
<1>4. ASSUME NEW s \in Session, GetSessionGraph(r, s)
      PROVE  AnswerHolds(q)
  <2>1. q.pc = "graph" /\ q.session = s /\ q.nodes = storedNodes(s)
    BY <1>1, <1>4 DEF GetSessionGraph
  <2>2. storedNodes(s) = ToSet(log[s])
    BY <1>1 DEF StoreInv, NodesAreWhole
  <2>3. \A n \in ToSet(log[s]) : parentsOf(n) \subseteq ToSet(log[s])
    BY <1>1, ParentsAreApplied DEF StoreInv
  <2> QED
    BY <2>1, <2>2, <2>3 DEF AnswerHolds
<1>5. ASSUME NEW n \in ID, GetResumeContext(r, n)
      PROVE  AnswerHolds(q)
  <2>1. q.pc = "lineage" /\ q.path = << >>
    BY <1>1, <1>5 DEF GetResumeContext
  <2>2. DOMAIN q.path = {} /\ 1..(Len(q.path) - 1) = {}
    BY <2>1
  <2> QED
    BY <2>1, <2>2 DEF AnswerHolds
<1>6. CASE GetSessionLoad(r)
  BY <1>1, <1>6 DEF GetSessionLoad
<1>7. ASSUME NEW head, query[r].pc = "session", answerSession(r, head),
             \A x \in head : Recent(query[r].session, query[r].since, x)
      PROVE  AnswerHolds(q)
  <2>1. /\ q.pc = "session.answer" /\ q.session = query[r].session /\ q.since = query[r].since
        /\ q.head = head
    BY <1>1, <1>7 DEF answerSession
  <2> QED
    BY <1>7, <2>1 DEF AnswerHolds
<1>8. CASE GetSessionReturn(r)
  BY <1>1, <1>7, <1>8 DEF GetSessionReturn, LoadDone
<1>9. CASE GetSessionWithoutHead(r)
  BY <1>7, <1>9 DEF GetSessionWithoutHead
<1>10. CASE GetLineage(r)
  <2>1. PICK n : n = query[r].current
    OBVIOUS
  <2> DEFINE path == <<n>> \o query[r].path
  <2>2. query[r] \in LineageQuery
    BY <1>2, <1>10 DEF GetLineage
  <2>3. CASE ~nodeExists(n)
    <3>1. q = noQuery
      BY <1>1, <1>10, <2>1, <2>3 DEF GetLineage
    <3> QED
      BY <3>1, NoAnswer
  <2>4. CASE nodeExists(n)
    <3>1. /\ path \in Seq(ID) /\ path[1] = n /\ path # << >>
          /\ \E s \in Session : n \in ToSet(log[s])
          /\ \A i \in DOMAIN path : \E s \in Session : path[i] \in ToSet(log[s])
          /\ \A i \in 1..(Len(path) - 1) : path[i] \in parentsOf(path[i + 1])
      BY <1>1, <2>1, <2>2, <2>4, LineageGrows
    <3> HIDE DEF path
    <3>2. CASE parentsOf(n) = {}
      <4>1. q = [pc |-> "lineage.answer", path |-> path]
        BY <1>1, <1>10, <2>1, <2>4, <3>2 DEF GetLineage, path
      <4>2. q.pc = "lineage.answer" /\ q.path = path
        BY <4>1
      <4>3. PICK s \in Session : n \in ToSet(log[s])
        BY <3>1
      <4>4. PICK i \in DOMAIN log[s] : n = log[s][i]
        BY <4>3 DEF ToSet
      <4>5. i = 1 /\ log[s] # << >>
        BY <1>1, <3>2, <4>4 DEF StoreInv, NodesAreWhole
      <4> QED
        BY <3>1, <4>2, <4>3, <4>4, <4>5 DEF AnswerHolds
    <3>3. CASE parentsOf(n) # {}
      <4>1. PICK p \in parentsOf(n) :
              query' = [query EXCEPT ![r] = [@ EXCEPT !.current = p, !.path = path]]
        BY <1>1, <1>10, <2>1, <2>4, <3>3 DEF GetLineage, path
      <4>2. q = [query[r] EXCEPT !.current = p, !.path = path]
        BY <1>1, <4>1
      <4>3. q.pc = "lineage" /\ q.path = path /\ q.current = p
        BY <2>2, <4>2 DEF LineageQuery
      <4> QED
        BY <3>1, <4>1, <4>3 DEF AnswerHolds
    <3> QED
      BY <3>2, <3>3
  <2> QED
    BY <2>3, <2>4
<1>11. CASE GetSessionGraphRead(r)
  <2>1. /\ q.pc = "graph.answer" /\ q.nodes = query[r].nodes
        /\ q.edges = edgesOf(query[r].nodes) /\ query[r].pc = "graph"
    BY <1>1, <1>11 DEF GetSessionGraphRead
  <2>2. \A n \in query[r].nodes : parentsOf(n) \subseteq query[r].nodes
    BY <1>1, <2>1 DEF AnswerHolds
  <2>3. edgesOf(query[r].nodes) \subseteq query[r].nodes \X query[r].nodes
    BY <2>2 DEF edgesOf
  <2> QED
    BY <2>1, <2>3 DEF AnswerHolds
<1>12. CASE QueryDone(r)
  BY <1>1, <1>12, NoAnswer DEF QueryDone
<1> QED
  BY <1>3, <1>4, <1>5, <1>6, <1>8, <1>9, <1>10, <1>11, <1>12 DEF Query, QueryStep

\* What the calls hold, and the answers, stay true.
LEMMA AnswersStep ==
  ASSUME ~QueryFails, ManagementInv, [ManagementNext]_managementVars, ManagementTypeOK', StoreInv',
         Grows
  PROVE  AnswersHold'
<1>1. /\ StoreInv /\ StoreTypeOK /\ CallsAreSeparate /\ AnswersHold
      /\ query \in [Reader -> AnyQuery] /\ query' \in [Reader -> AnyQuery]
  BY ManagementTypes, ManagementTypesAfter DEF ManagementInv
<1> DEFINE headRecent(t) ==
             query[t].pc = "session" /\ load[t].pc \in {"end", "nodes", "loaded"} =>
               Recent(query[t].session, query[t].since, load[t].head)
<1>2. ASSUME NEW t \in Reader, query'[t] = query[t]
      PROVE  AnswerHolds(query[t])'
  <2>1. PICK q : q = query[t] /\ q = query'[t] /\ q \in AnyQuery /\ AnswerHolds(q)
    BY <1>1, <1>2 DEF AnswersHold
  <2>2. AnswerHolds(q)'
    BY <1>1, <2>1, AnswerStays
  <2> QED
    BY <2>1, <2>2
<1>3. ASSUME NEW t \in Reader, query'[t] = query[t], load'[t] = load[t]
      PROVE  headRecent(t)'
  <2>1. SUFFICES ASSUME query[t].pc = "session", load[t].pc \in {"end", "nodes", "loaded"}
                 PROVE  Recent(query[t].session, query[t].since, load[t].head)'
    BY <1>3
  <2>2. PICK s, since, head :
          /\ s = query[t].session /\ since = query[t].since /\ head = load[t].head
          /\ s = query'[t].session /\ since = query'[t].since /\ head = load'[t].head
    BY <1>3
  <2>3. s \in Session
    <3>1. query[t] \in AnyQuery
      BY <1>1
    <3>2. query[t] \in SessionQuery
      BY <2>1, <3>1, QueryType
    <3> QED
      BY <2>2, <3>2 DEF SessionQuery
  <2>4. Recent(s, since, head)
    BY <1>1, <2>1, <2>2 DEF AnswersHold
  <2>5. Recent(s, since, head)'
    BY <1>1, <2>3, <2>4, RecentStays
  <2> QED
    BY <2>2, <2>5
<1>4. ASSUME NEW t \in Reader, query'[t] = query[t], load'[t] = load[t]
      PROVE  AnswerHolds(query[t])' /\ headRecent(t)'
  BY <1>2, <1>3, <1>4
<1>5. ASSUME NEW t \in Reader, query'[t] = noQuery
      PROVE  AnswerHolds(query[t])' /\ headRecent(t)'
  <2>1. AnswerHolds(noQuery)'
    BY DEF AnswerHolds, noQuery
  <2> QED
    BY <1>5, <2>1 DEF noQuery
<1>6. ASSUME NEW s \in Session, Write(s), UNCHANGED <<stream, query>>
      PROVE  AnswersHold'
  <2>1. \A t \in Reader : load'[t] = load[t] /\ query'[t] = query[t]
    BY <1>1, <1>6, WriteSubs
  <2> QED
    BY <1>4, <2>1 DEF AnswersHold
<1>7. ASSUME NEW r \in Reader, UNCHANGED query,
             \/ Handler(r) \/ WatchSessionClose(r) \/ WatchSessionLoadFails(r)
             \/ \E s \in Session, replay \in BOOLEAN : free(r) /\ WatchSessionOpen(r, s, replay)
      PROVE  AnswersHold'
  <2>1. \A t \in Reader : query'[t] = query[t] /\ (t # r => load'[t] = load[t])
    BY <1>1, <1>7
       DEF Handler, WatchSessionLoad, LoadSession, LoadHead, LoadEnd, LoadNodes, storeVars,
           WatchSessionNoHistory, WatchSessionReplay, WatchSessionSendHistory,
           WatchSessionSendLive, Receive, WatchSessionClose, cancel, WatchSessionLoadFails,
           WatchSessionOpen, Watch, StoreTypeOK
  <2>2. query[r] = noQuery
    <3>1. free(r) \/ stream[r].pc # "off"
      BY <1>7 DEF Handler, WatchSessionLoad, WatchSessionNoHistory, WatchSessionReplay,
                  WatchSessionSendHistory, WatchSessionSendLive, WatchSessionClose,
                  WatchSessionLoadFails
    <3> QED
      BY <1>1, <3>1 DEF CallsAreSeparate, free
  <2> QED
    BY <1>4, <1>5, <2>1, <2>2 DEF AnswersHold
<1>8. ASSUME NEW r \in Reader, Query(r)
      PROVE  AnswersHold'
  <2>1. \A t \in Reader : t # r => load'[t] = load[t] /\ query'[t] = query[t]
    BY <1>1, <1>8
       DEF Query, QueryStep, QueryDone, GetSession, GetSessionGraph, GetResumeContext, GetLineage,
           GetSessionGraphRead, GetSessionLoad, GetSessionReturn, GetSessionWithoutHead,
           LoadSession, LoadHead, LoadEnd, LoadNodes, LoadFails, LoadDone, answerSession,
           watchVars, StoreTypeOK
  <2>2. AnswerHolds(query[r])'
    <3>1. PICK q : q = query'[r] /\ q \in AnyQuery
      BY <1>1
    <3>2. AnswerHolds(q)'
      BY <1>1, <1>8, <3>1, QueryAnswers, AnswerStays
    <3> QED
      BY <3>1, <3>2
  <2>3. headRecent(r)'
    <3>1. CASE GetSessionLoad(r)
      <4>1. query' = query /\ query[r].pc = "session"
        BY <3>1 DEF GetSessionLoad
      <4>2. CASE LoadSession(r, query[r].session)
        BY <1>1, <4>2 DEF LoadSession, StoreTypeOK
      <4>3. CASE LoadHead(r)
        <5>1. PICK s, since, head :
                /\ s = query[r].session /\ since = query[r].since /\ head = load'[r].head
                /\ s = query'[r].session /\ since = query'[r].since
          BY <4>1
        <5>2. s \in Session /\ since \in Nat /\ since <= Len(log[s])
          BY <1>1, <4>1, <5>1, QueryType DEF SessionQuery, AnswersHold, AnswerHolds
        <5>3. load[r].session = s
          <6>1. load[r].pc # "none"
            BY <4>3 DEF LoadHead
          <6> QED
            BY <1>1, <4>1, <5>1, <6>1 DEF CallsAreSeparate, noQuery
        <5>4. Recent(s, since, head)
          BY <1>1, <4>3, <5>1, <5>2, <5>3, HeadIsRecent
        <5>5. Recent(s, since, head)'
          BY <1>1, <5>2, <5>4, RecentStays
        <5> QED
          BY <5>1, <5>5
      <4>4. CASE LoadEnd(r) \/ LoadNodes(r)
        <5>1. load[r].pc \in {"end", "nodes"} /\ load'[r].head = load[r].head
          BY <1>1, <4>4, LoadGoesOn DEF LoadHead, LoadEnd, LoadNodes
        <5>2. PICK s, since, head :
                /\ s = query[r].session /\ since = query[r].since /\ head = load[r].head
                /\ s = query'[r].session /\ since = query'[r].since /\ head = load'[r].head
          BY <4>1, <5>1
        <5>3. s \in Session
          BY <1>1, <4>1, <5>2, QueryType DEF SessionQuery
        <5>4. Recent(s, since, head)
          BY <1>1, <4>1, <5>1, <5>2 DEF AnswersHold
        <5>5. Recent(s, since, head)'
          BY <1>1, <5>3, <5>4, RecentStays
        <5> QED
          BY <5>2, <5>5
      <4> QED
        BY <3>1, <4>2, <4>3, <4>4 DEF GetSessionLoad
    <3>2. CASE load'[r].pc = "none"
      BY <3>2
    <3>3. GetSessionReturn(r) \/ GetSessionWithoutHead(r) => load'[r].pc = "none"
      BY <1>1 DEF GetSessionReturn, GetSessionWithoutHead, LoadDone, LoadFails, StoreTypeOK, noLoad
    <3>4. ASSUME free(r), UNCHANGED watchVars
          PROVE  load'[r].pc = "none"
      BY <3>4 DEF free, noLoad, watchVars
    <3>5. CASE GetLineage(r) \/ GetSessionGraphRead(r) \/ QueryDone(r)
      <4>1. /\ query[r].pc # "none" /\ query[r].pc # "session"
            /\ UNCHANGED watchVars
        BY <3>5 DEF GetLineage, GetSessionGraphRead, QueryDone, answered
      <4>2. load[r].pc = "none" /\ load' = load
        BY <1>1, <4>1 DEF CallsAreSeparate, noQuery, watchVars
      <4> QED
        BY <3>2, <4>1, <4>2
    <3> QED
      BY <1>8, <3>1, <3>2, <3>3, <3>4, <3>5
         DEF Query, QueryStep, GetSession, GetSessionGraph, GetResumeContext
  <2> QED
    BY <1>4, <2>1, <2>2, <2>3 DEF AnswersHold
<1>9. CASE query' = [r \in Reader |-> noQuery]
  BY <1>5, <1>9 DEF AnswersHold
<1>10. CASE UNCHANGED managementVars
  BY <1>4, <1>10 DEF managementVars, AnswersHold
<1> QED
  BY <1>6, <1>7, <1>8, <1>9, <1>10 DEF ManagementNext

-----------------------------------------------------------------------------
(* The streams *)

\* How many nodes were published.
LEMMA PublishedRange ==
  ASSUME StoreInv, NEW s \in Session
  PROVE  published(s) \in Nat /\ published(s) <= Len(log[s])
<1>1. Len(log[s]) \in Nat /\ (writing(s, "publish") => Len(log[s]) > 0)
  <2>1. log[s] \in Seq(ID)
    BY LogOrder
  <2>2. writing(s, "publish") => log[s] # << >>
    BY DEF StoreInv, WritesAreFresh
  <2> QED
    BY <2>1, <2>2
<1> QED
  BY <1>1 DEF published

\* A write publishes at its last step and at no other.
LEMMA PublishedStep ==
  ASSUME ~QueryFails, StoreInv, StoreInv', NEW s \in Session,
         (\E t \in Session : Write(t) /\ ~(t = s /\ writing(s, "publish"))) \/ UNCHANGED <<op, log>>
  PROVE  published(s)' = published(s)
<1>1. StoreTypeOK /\ Len(log[s]) \in Nat
  BY LogOrder DEF StoreInv
<1>2. CASE UNCHANGED <<op, log>>
  BY <1>2 DEF published, writing
<1>3. ASSUME NEW t \in Session, Write(t), t # s
      PROVE  published(s)' = published(s)
  <2>1. log'[s] = log[s] /\ op'[s] = op[s]
    BY <1>1, <1>3, WriteCases
       DEF CreateSession, WriteNodeCheck, WriteNodeReadHeads, WriteNodeApply, WriteNodePublish,
           EndSessionReadStatus, EndSessionApply, StoreTypeOK
  <2> QED
    BY <2>1 DEF published, writing
<1>4. ASSUME Write(s), ~writing(s, "publish")
      PROVE  published(s)' = published(s)
  <2>1. CASE CreateSession(s) \/ EndSessionApply(s)
    <3>1. log'[s] = log[s] /\ op'[s] = idle
      BY <1>1, <2>1 DEF CreateSession, EndSessionApply, StoreTypeOK
    <3> QED
      BY <1>4, <3>1 DEF published, writing, idle
  <2>2. ASSUME NEW n, NEW ps, WriteNodeCheck(s, n, ps)
        PROVE  published(s)' = published(s)
    <3>1. log'[s] = log[s] /\ op'[s].pc = "heads"
      BY <1>1, <2>2 DEF WriteNodeCheck, StoreTypeOK
    <3> QED
      BY <1>4, <3>1 DEF published, writing
  <2>3. CASE WriteNodeReadHeads(s)
    <3>1. op[s] \in WriteOp
      BY <1>1, <2>3 DEF WriteNodeReadHeads, StoreTypeOK, idle, EndOp
    <3>2. PICK heads : op' = [op EXCEPT ![s].pc = "apply", ![s].heads = heads]
      BY <2>3 DEF WriteNodeReadHeads
    <3>3. op'[s] = [op[s] EXCEPT !.pc = "apply", !.heads = heads]
      BY <1>1, <3>2 DEF StoreTypeOK
    <3>4. log'[s] = log[s] /\ op'[s].pc = "apply"
      BY <2>3, <3>1, <3>3 DEF WriteNodeReadHeads, WriteOp
    <3> QED
      BY <1>4, <3>4 DEF published, writing
  <2>4. CASE WriteNodeApply(s)
    <3>1. PICK n : n = op[s].node
      OBVIOUS
    <3>2. op[s] \in WriteOp /\ op[s].call = "write" /\ op[s].pc = "apply" /\ n \in ID
      BY <1>1, <2>4, <3>1 DEF WriteNodeApply, StoreTypeOK, idle, EndOp, WriteOp
    <3>3. CASE op'[s] = idle /\ log' = log
      BY <1>4, <3>3 DEF published, writing, idle
    <3>4. CASE op'[s] = [op[s] EXCEPT !.pc = "publish"] /\ log'[s] = Append(log[s], n)
      <4>1. op'[s].call = "write" /\ op'[s].pc = "publish"
        BY <3>2, <3>4 DEF WriteOp
      <4>2. Len(log'[s]) = Len(log[s]) + 1
        BY <1>1, <3>2, <3>4, AppendPositions DEF StoreTypeOK
      <4> QED
        BY <1>1, <1>4, <4>1, <4>2 DEF published, writing
    <3> QED
      BY <1>1, <2>4, <3>1, <3>3, <3>4 DEF WriteNodeApply, StoreTypeOK
  <2>5. ASSUME NEW reason, NEW terminal, EndSessionReadStatus(s, reason, terminal)
        PROVE  published(s)' = published(s)
    <3>1. log'[s] = log[s] /\ op'[s].call = "end"
      BY <1>1, <2>5 DEF EndSessionReadStatus, StoreTypeOK
    <3> QED
      BY <1>4, <3>1 DEF published, writing
  <2>6. ~WriteNodePublish(s)
    BY <1>4 DEF WriteNodePublish, writing
  <2> QED
    BY <1>1, <1>4, <2>1, <2>2, <2>3, <2>4, <2>5, <2>6, WriteCases
<1> QED
  BY <1>2, <1>3, <1>4

\* The history of a stream stays one while the store grows.
LEMMA HistoryStays ==
  ASSUME StoreInv, StoreInv', Grows, NEW H, NEW st \in OpenStream, NEW su \in Subscription,
         su.since <= Len(log[st.session]), HistoryHolds(H, st, su)
  PROVE  HistoryHolds(H, st, su)'
<1> DEFINE s == st.session
<1>1. s \in Session /\ su.since \in Nat /\ Len(log[s]) \in Nat /\ su.since <= Len(log[s])
  BY LogOrder DEF OpenStream, Subscription
<1>2. /\ ToSet(log[s]) \subseteq ToSet(log'[s])
      /\ \A n \in ToSet(log[s]) : parentsOf(n)' = parentsOf(n)
      /\ \A i \in 1..su.since : log'[s][i] = log[s][i]
  <2> HIDE DEF s
  <2>1. \A i \in 1..su.since : i \in 1..Len(log[s])
    BY <1>1
  <2> QED
    BY <1>1, <2>1 DEF Grows
<1> HIDE DEF s
<1>3. \A i \in DOMAIN H : H[i] \in ID =>
        H[i] \in ToSet(log[s]) /\ parentsOf(H[i]) \subseteq {H[j] : j \in 1..(i - 1)}
  BY DEF HistoryHolds, s
<1>4. ASSUME NEW i \in DOMAIN H, H[i] \in ID
      PROVE  H[i] \in ToSet(log'[s]) /\ parentsOf(H[i])' \subseteq {H[j] : j \in 1..(i - 1)}
  BY <1>2, <1>3, <1>4
<1>5. ASSUME st.replay, st.pc # "load", NEW i \in 1..su.since
      PROVE  log'[s][i] \in ToSet(H)
  BY <1>2, <1>5 DEF HistoryHolds, s
<1> QED
  BY <1>4, <1>5 DEF HistoryHolds, s

\* What came through the channel stays so until the next node is published.
LEMMA LiveStays ==
  ASSUME StoreInv, StoreInv', Grows, NEW V \in Seq(ID), NEW st \in OpenStream,
         NEW su \in Subscription, LiveHolds(V, st, su),
         NEW s, s = st.session, published(s)' = published(s)
  PROVE  LiveHolds(V, st, su)'
<1>1. s \in Session /\ Len(log[s]) \in Nat
  BY LogOrder DEF OpenStream
<1>2. PICK p \in Nat : p = published(s) /\ p = published(s)' /\ p <= Len(log[s])
  BY <1>1, PublishedRange
<1>3. \A i \in 1..p : log'[s][i] = log[s][i]
  BY <1>1, <1>2 DEF Grows
<1>4. /\ IsInjective(V)
      /\ \A j \in DOMAIN V : \E k \in 1..p : V[j] = log[s][k]
      /\ ~su.dropped => /\ Len(V) <= p /\ p - Len(V) <= su.since
                        /\ \A j \in DOMAIN V : V[j] = log[s][p - Len(V) + j]
  BY <1>2 DEF LiveHolds
<1>5. \A j \in DOMAIN V : \E k \in 1..p : V[j] = log'[s][k]
  BY <1>3, <1>4
<1>6. ASSUME ~su.dropped, NEW j \in DOMAIN V
      PROVE  V[j] = log'[s][p - Len(V) + j]
  <2>1. DOMAIN V = 1..Len(V) /\ Len(V) \in Nat
    OBVIOUS
  <2>2. p - Len(V) + j \in 1..p
    BY <1>4, <1>6, <2>1
  <2> QED
    BY <1>3, <1>4, <1>6, <2>2
<1> QED
  BY <1>2, <1>4, <1>5, <1>6 DEF LiveHolds

\* So a stream that does nothing keeps what holds of it.
LEMMA StreamStays ==
  ASSUME StoreInv, StoreInv', Grows, NEW st \in OpenStream, NEW su \in Subscription, NEW ld,
         StreamHolds(st, su, ld), NEW s, s = st.session, published(s)' = published(s)
  PROVE  StreamHolds(st, su, ld)'
<1>1. /\ s \in Session /\ su.since \in Nat /\ Len(log[s]) \in Nat /\ Len(log'[s]) \in Nat
      /\ Len(log[s]) <= Len(log'[s])
  BY LogOrder DEF OpenStream, Subscription, Grows, StoreInv, StoreTypeOK
<1>2. su.since <= Len(log[s])
  BY DEF StreamHolds
<1>3. su.since <= Len(log'[s])
  BY <1>1, <1>2
<1>4. \A i \in 1..su.since : log'[s][i] = log[s][i]
  BY <1>1, <1>2 DEF Grows
<1>5. PICK H \in Seq(StreamEvent), V \in Seq(ID) :
        Spread(H, V, st, su) /\ HistoryHolds(H, st, su) /\ LiveHolds(V, st, su)
  BY DEF StreamHolds
<1>6. HistoryHolds(H, st, su)' /\ LiveHolds(V, st, su)'
  BY <1>2, <1>5, HistoryStays, LiveStays
<1>7. Spread(H, V, st, su)'
  BY <1>5 DEF Spread
<1>8. st.pc = "load" /\ ld.pc # "none" => \A i \in 1..su.since : log'[s][i] \in ld.ids0
  BY <1>4 DEF StreamHolds
<1> QED
  BY <1>3, <1>5, <1>6, <1>7, <1>8 DEF StreamHolds

\* The node of a write is published to a stream of its session: it is the next
\* one in the log, or it is lost and the stream is marked.
LEMMA StreamPublished ==
  ASSUME StoreInv, StoreInv', Grows, NEW s \in Session, WriteNodePublish(s),
         NEW st \in OpenStream, st.session = s, NEW su \in Subscription, NEW ld,
         StreamHolds(st, su, ld), NEW n, n = op[s].node, NEW sv, sv = publish(su, n)
  PROVE  StreamHolds(st, sv, ld)'
<1>1. /\ op[s].call = "write" /\ op[s].pc = "publish" /\ log' = log /\ op'[s] = idle
      /\ writing(s, "publish")
  BY DEF WriteNodePublish, writing, StoreInv, StoreTypeOK
<1>2. n \in ID
  BY <1>1 DEF StoreInv, StoreTypeOK, idle, EndOp, WriteOp
<1>3. /\ log[s] \in Seq(ID) /\ Len(log[s]) \in Nat /\ DOMAIN log[s] = 1..Len(log[s])
      /\ IsInjective(log[s])
  BY LogOrder
<1>4. log[s] # << >> /\ n = log[s][Len(log[s])]
  BY <1>1 DEF StoreInv, WritesAreFresh, Last
<1>5. PICK p \in Nat : p = published(s) /\ p + 1 = Len(log[s]) /\ p + 1 = published(s)'
  <2>1. published(s) = Len(log[s]) - 1 /\ published(s)' = Len(log[s])
    BY <1>1 DEF published, writing, idle
  <2>2. Len(log[s]) - 1 \in Nat /\ (Len(log[s]) - 1) + 1 = Len(log[s])
    BY <1>3, <1>4
  <2> QED
    BY <2>1, <2>2
<1>6. /\ sv.session = su.session /\ sv.since = su.since /\ su.since \in Nat
      /\ su.chan \in Seq(ID)
      /\ \/ sv.chan = su.chan /\ sv.dropped
         \/ sv.chan = Append(su.chan, n) /\ sv.dropped = su.dropped
  <2>1. su.since \in Nat /\ su.chan \in Seq(ID)
    BY DEF Subscription
  <2> QED
    BY <1>2, <2>1, PublishEffect
<1>7. PICK H \in Seq(StreamEvent), V \in Seq(ID) :
        Spread(H, V, st, su) /\ HistoryHolds(H, st, su) /\ LiveHolds(V, st, su)
  BY DEF StreamHolds
<1>8. HistoryHolds(H, st, sv)'
  <2>1. HistoryHolds(H, st, su)'
    BY <1>7, HistoryStays DEF StreamHolds
  <2> QED
    BY <1>6, <2>1 DEF HistoryHolds
<1>9. /\ sv.since <= Len(log'[s])
      /\ st.pc = "load" /\ ld.pc # "none" => \A i \in 1..sv.since : log'[s][i] \in ld.ids0
  BY <1>1, <1>6 DEF StreamHolds
<1>10. /\ IsInjective(V)
       /\ \A j \in DOMAIN V : \E k \in 1..p : V[j] = log[s][k]
       /\ ~su.dropped => /\ Len(V) <= p /\ p - Len(V) <= su.since
                         /\ \A j \in DOMAIN V : V[j] = log[s][p - Len(V) + j]
  BY <1>5, <1>7 DEF LiveHolds
<1>11. CASE sv.chan = su.chan /\ sv.dropped
  <2>1. Spread(H, V, st, sv)'
    BY <1>7, <1>11 DEF Spread
  <2>2. \A j \in DOMAIN V : \E k \in 1..(p + 1) : V[j] = log'[s][k]
    BY <1>1, <1>10
  <2>3. LiveHolds(V, st, sv)'
    BY <1>5, <1>10, <1>11, <2>2 DEF LiveHolds
  <2> QED
    BY <1>8, <1>9, <2>1, <2>3 DEF StreamHolds
<1>12. CASE sv.chan = Append(su.chan, n) /\ sv.dropped = su.dropped
  <2> DEFINE W == Append(V, n)
  <2>1. /\ W \in Seq(ID) /\ Len(W) = Len(V) + 1 /\ Len(V) \in Nat /\ DOMAIN V = 1..Len(V)
        /\ DOMAIN W = 1..(Len(V) + 1) /\ W[Len(V) + 1] = n
        /\ \A j \in 1..Len(V) : W[j] = V[j]
    BY <1>2, <1>7, AppendPositions
  <2>2. IsInjective(W)
    <3>1. n \notin ToSet(V)
      <4>1. SUFFICES ASSUME NEW j \in DOMAIN V, V[j] = n PROVE FALSE
        BY DEF ToSet
      <4>2. PICK k \in 1..p : V[j] = log[s][k]
        BY <1>10
      <4>3. k \in DOMAIN log[s] /\ Len(log[s]) \in DOMAIN log[s] /\ k # Len(log[s])
        BY <1>3, <1>5
      <4> QED
        BY <1>3, <1>4, <4>1, <4>2, <4>3 DEF IsInjective
    <3> QED
      BY <1>2, <1>7, <1>10, <3>1, AppendedOnce
  <2> HIDE DEF W
  <2>3. \A j \in DOMAIN W : \E k \in 1..(p + 1) : W[j] = log[s][k]
    <3> TAKE j \in DOMAIN W
    <3>1. CASE j \in 1..Len(V)
      BY <1>10, <2>1, <3>1
    <3>2. CASE j = Len(V) + 1
      BY <1>4, <1>5, <2>1, <3>2
    <3> QED
      BY <2>1, <3>1, <3>2
  <2>4. ASSUME ~su.dropped
        PROVE  /\ Len(W) <= p + 1 /\ (p + 1) - Len(W) <= su.since
               /\ \A j \in DOMAIN W : W[j] = log[s][(p + 1) - Len(W) + j]
    <3>1. Len(W) <= p + 1 /\ (p + 1) - Len(W) = p - Len(V) /\ p - Len(V) \in Nat
      BY <1>10, <2>1, <2>4
    <3>2. ASSUME NEW j \in DOMAIN W PROVE W[j] = log[s][(p - Len(V)) + j]
      <4>1. CASE j \in 1..Len(V)
        BY <1>10, <2>1, <2>4, <4>1
      <4>2. CASE j = Len(V) + 1
        <5>1. (p - Len(V)) + j = Len(log[s])
          BY <1>5, <2>1, <4>2
        <5> QED
          BY <1>4, <2>1, <4>2, <5>1
      <4> QED
        BY <2>1, <4>1, <4>2
    <3> QED
      BY <1>10, <2>4, <3>1, <3>2
  <2>5. LiveHolds(W, st, sv)'
    <3>1. ~sv.dropped => ~su.dropped
      BY <1>12
    <3> QED
      BY <1>1, <1>5, <1>6, <2>2, <2>3, <2>4, <3>1 DEF LiveHolds
  <2>6. Spread(H, W, st, sv)'
    <3>1. st.pc \in {"load", "replay"} => W = sv.chan
      BY <1>7, <1>12 DEF Spread, W
    <3>2. ASSUME st.pc = "live" PROVE st.sent \o sv.chan = H \o W
      <4>1. st.sent \in Seq(StreamEvent) /\ su.chan \in Seq(StreamEvent) /\ n \in StreamEvent
            /\ V \in Seq(StreamEvent)
        BY <1>2, <1>6, <1>7, SeqSubset DEF OpenStream, StreamEvent
      <4>2. st.sent \o sv.chan = Append(st.sent \o su.chan, n)
        <5>1. PICK a \in Seq(StreamEvent), b \in Seq(StreamEvent) : a = st.sent /\ b = su.chan
          BY <4>1
        <5>2. a \o Append(b, n) = Append(a \o b, n)
          BY <4>1, ConcatAppend
        <5> QED
          BY <1>12, <5>1, <5>2
      <4>3. H \o W = Append(H \o V, n)
        BY <1>7, <4>1, ConcatAppend DEF W
      <4>4. st.sent \o su.chan = H \o V
        BY <1>7, <3>2 DEF Spread
      <4> QED
        BY <4>2, <4>3, <4>4
    <3> QED
      BY <1>7, <3>1, <3>2 DEF Spread
  <2> QED
    BY <1>8, <1>9, <2>1, <2>5, <2>6 DEF StreamHolds
<1> QED
  BY <1>6, <1>11, <1>12

\* A stream when it is opened.
LEMMA StreamOpens ==
  ASSUME StoreInv, ManagementTypeOK, NEW r \in Reader, NEW s \in Session, NEW replay \in BOOLEAN,
         WatchSessionOpen(r, s, replay),
         NEW st, st = stream'[r], NEW su, su = subs'[r], NEW ld, ld = load'[r]
  PROVE  StreamHolds(st, su, ld)
<1>1. /\ st.pc = (IF replay THEN "load" ELSE "live") /\ st.session = s /\ st.replay = replay
      /\ st.todo = << >> /\ st.sent = << >>
  BY ManagementTypes DEF WatchSessionOpen
<1>2. su.chan = << >> /\ su.dropped = FALSE /\ su.since = Len(log[s])
  BY ManagementTypes DEF WatchSessionOpen, Watch, StoreTypeOK
<1>3. ld.pc = "none"
  BY ManagementTypes DEF WatchSessionOpen, Watch, StoreTypeOK, noLoad
<1>4. Len(log[s]) \in Nat /\ published(s) \in Nat /\ published(s) <= Len(log[s])
  BY LogOrder, PublishedRange
<1>5. << >> \in Seq(StreamEvent) /\ << >> \in Seq(ID) /\ DOMAIN << >> = {} /\ Len(<< >>) = 0
  OBVIOUS
<1>6. Spread(<< >>, << >>, st, su)
  <2>1. st.pc # "replay"
    BY <1>1
  <2>2. << >> \o << >> = << >>
    BY <1>5, ConcatEmpty
  <2> QED
    BY <1>1, <1>2, <1>5, <2>1, <2>2 DEF Spread
<1>7. HistoryHolds(<< >>, st, su)
  <2>1. IsInjective(<< >>)
    BY <1>5 DEF IsInjective
  <2>2. ~(st.replay /\ st.pc # "load")
    BY <1>1
  <2> QED
    BY <1>5, <2>1, <2>2 DEF HistoryHolds
<1>8. LiveHolds(<< >>, st, su)
  <2>1. IsInjective(<< >>)
    BY <1>5 DEF IsInjective
  <2>2. 0 <= published(s) /\ published(s) - 0 <= su.since
    BY <1>2, <1>4
  <2> QED
    BY <1>1, <1>5, <2>1, <2>2 DEF LiveHolds
<1>9. PICK H \in Seq(StreamEvent), V \in Seq(ID) : H = << >> /\ V = << >>
  BY <1>5
<1>10. Spread(H, V, st, su) /\ HistoryHolds(H, st, su) /\ LiveHolds(V, st, su)
  BY <1>6, <1>7, <1>8, <1>9
<1>11. su.since <= Len(log[st.session])
  BY <1>1, <1>2, <1>4
<1> QED
  BY <1>3, <1>9, <1>10, <1>11 DEF StreamHolds

\* A stream while its LoadGraph call goes on: the call found what was stored.
LEMMA StreamLoads ==
  ASSUME ManagementInv, NEW r \in Reader, WatchSessionLoad(r),
         NEW st, st = stream'[r], NEW su, su = subs'[r], NEW ld, ld = load'[r]
  PROVE  StreamHolds(st, su, ld)
<1>1. st = stream[r] /\ su = subs[r] /\ st.pc = "load"
  BY DEF WatchSessionLoad, LoadSession, LoadHead, LoadEnd, LoadNodes
<1>2. StreamHolds(st, su, load[r])
  BY <1>1 DEF ManagementInv, StreamsHold
<1>3. StoreInv /\ StoreTypeOK /\ st \in OpenStream /\ su \in Subscription
  BY <1>1, ManagementTypes
     DEF ManagementInv, CallsAreSeparate, StoreTypeOK, noStream, unsubscribed, StoreInv
<1>4. ASSUME NEW i \in 1..su.since PROVE log[st.session][i] \in ld.ids0
  <2>1. CASE LoadSession(r, stream[r].session)
    <3>1. ld.ids0 = storedNodes(st.session)
      BY <1>1, <1>3, <2>1 DEF LoadSession, StoreTypeOK
    <3>2. st.session \in Session /\ su.since \in Nat /\ su.since <= Len(log[st.session])
      BY <1>2, <1>3 DEF OpenStream, Subscription, StreamHolds
    <3>3. i \in DOMAIN log[st.session]
      BY <1>3, <3>2, LogOrder
    <3> QED
      BY <1>3, <3>1, <3>2, <3>3 DEF StoreInv, NodesAreWhole, ToSet
  <2>2. CASE LoadHead(r) \/ LoadEnd(r) \/ LoadNodes(r)
    <3>1. ld.ids0 = load[r].ids0 /\ load[r].pc # "none"
      BY <1>3, <2>2, LoadGoesOn
    <3> QED
      BY <1>1, <1>2, <3>1 DEF StreamHolds
  <2> QED
    BY <2>1, <2>2 DEF WatchSessionLoad
<1> QED
  BY <1>2, <1>4 DEF StreamHolds

\* Without a session there is no history, and nothing was stored when the
\* subscription began.
LEMMA StreamWithoutHistory ==
  ASSUME ManagementInv, NEW r \in Reader, WatchSessionNoHistory(r),
         NEW st, st = stream'[r], NEW su, su = subs'[r], NEW ld, ld = load'[r]
  PROVE  StreamHolds(st, su, ld)
<1>1. /\ stream[r].pc = "load" /\ su = subs[r] /\ ~sessionExists(stream[r].session)
      /\ stream \in [Reader -> {noStream} \cup OpenStream] /\ StoreInv /\ StoreTypeOK
  BY ManagementTypes DEF WatchSessionNoHistory, storeVars, ManagementInv, StoreInv
<1>2. stream[r] \in OpenStream /\ su \in Subscription
  BY <1>1 DEF ManagementInv, CallsAreSeparate, StoreTypeOK, noStream, unsubscribed
<1>3. st = [stream[r] EXCEPT !.pc = "live"]
  BY <1>1 DEF WatchSessionNoHistory
<1>4. /\ st.pc = "live" /\ st.session = stream[r].session /\ st.replay = stream[r].replay
      /\ st.todo = stream[r].todo /\ st.sent = stream[r].sent /\ st.session \in Session
  BY <1>2, <1>3 DEF OpenStream
<1>5. log[st.session] = << >>
  BY <1>1, <1>4 DEF ManagementInv, WrittenSessionsExist
<1>6. StreamHolds(stream[r], su, load[r])
  BY <1>1 DEF ManagementInv, StreamsHold
<1>7. su.since = 0
  <2>1. su.since \in Nat /\ su.since <= Len(log[st.session])
    BY <1>2, <1>4, <1>6 DEF Subscription, StreamHolds
  <2> QED
    BY <1>5, <2>1
<1>8. PICK H \in Seq(StreamEvent), V \in Seq(ID) :
        /\ Spread(H, V, stream[r], su) /\ HistoryHolds(H, stream[r], su)
        /\ LiveHolds(V, stream[r], su)
  BY <1>6 DEF StreamHolds
<1>9. H = << >> /\ st.sent = << >> /\ st.todo = << >> /\ V = su.chan
  BY <1>1, <1>4, <1>8 DEF Spread
<1>10. Spread(H, V, st, su)
  <2>1. Len(H) <= Len(st.sent)
    BY <1>9
  <2> QED
    BY <1>1, <1>4, <1>8, <1>9, <2>1 DEF Spread
<1>11. HistoryHolds(H, st, su)
  <2>1. 1..su.since = {}
    BY <1>7
  <2> QED
    BY <1>4, <1>8, <2>1 DEF HistoryHolds
<1>12. LiveHolds(V, st, su)
  BY <1>4, <1>8 DEF LiveHolds
<1> QED
  BY <1>4, <1>6, <1>8, <1>10, <1>11, <1>12 DEF StreamHolds

\* The replay begins with the events of the loaded graph, which has all the
\* nodes that were stored when the subscription began.
LEMMA StreamReplays ==
  ASSUME ManagementInv, NEW r \in Reader, WatchSessionReplay(r),
         NEW st, st = stream'[r], NEW su, su = subs'[r], NEW ld, ld = load'[r]
  PROVE  StreamHolds(st, su, ld)
<1>1. /\ stream[r].pc = "load" /\ load[r].pc = "loaded" /\ su = subs[r]
      /\ stream \in [Reader -> {noStream} \cup OpenStream] /\ StoreInv /\ StoreTypeOK
  BY ManagementTypes DEF WatchSessionReplay, ManagementInv, StoreInv
<1>2. /\ stream[r] \in OpenStream /\ su \in Subscription /\ query[r] = noQuery
      /\ load[r].session = stream[r].session
  BY <1>1 DEF ManagementInv, CallsAreSeparate, StoreTypeOK, noStream, unsubscribed, noQuery
<1>3. PICK h \in historyOf(load[r]) : stream' = [stream EXCEPT ![r].pc = "replay", ![r].todo = h]
  BY DEF WatchSessionReplay
<1>4. st = [stream[r] EXCEPT !.pc = "replay", !.todo = h]
  BY <1>1, <1>3
<1>5. /\ st.pc = "replay" /\ st.session = stream[r].session /\ st.replay = stream[r].replay
      /\ st.todo = h /\ st.sent = stream[r].sent /\ st.session \in Session
  BY <1>2, <1>4 DEF OpenStream
<1>6. /\ h \in Seq(StreamEvent) /\ h # << >> /\ IsInjective(h)
      /\ \A i \in DOMAIN h : h[i] \in ID =>
           /\ h[i] \in load[r].nodes
           /\ parentsOf(h[i]) \subseteq {h[j] : j \in 1..(i - 1)}
      /\ load[r].nodes \subseteq ToSet(h)
  BY <1>1, <1>3, HistoryEvents
<1>7. /\ load[r].nodes \subseteq ToSet(log[st.session])
      /\ load[r].ids0 \subseteq load[r].nodes
  BY <1>1, <1>2, <1>5 DEF StoreInv, LoadsAreSound, LoadHolds
<1>8. StreamHolds(stream[r], su, load[r])
  BY <1>1 DEF ManagementInv, StreamsHold
<1>9. PICK H \in Seq(StreamEvent), V \in Seq(ID) :
        Spread(H, V, stream[r], su) /\ LiveHolds(V, stream[r], su)
  BY <1>8 DEF StreamHolds
<1>10. st.sent = << >> /\ V = su.chan /\ stream[r].replay
  BY <1>1, <1>5, <1>9 DEF Spread
<1>11. Spread(h, V, st, su)
  <2>1. << >> \o h = h
    BY <1>6, ConcatEmpty
  <2>2. st.replay
    BY <1>5, <1>10
  <2> QED
    BY <1>5, <1>6, <1>10, <2>1, <2>2 DEF Spread
<1>12. HistoryHolds(h, st, su)
  <2>1. \A i \in 1..su.since : log[st.session][i] \in ToSet(h)
    BY <1>1, <1>5, <1>6, <1>7, <1>8 DEF StreamHolds
  <2> QED
    BY <1>6, <1>7, <2>1 DEF HistoryHolds
<1>13. LiveHolds(V, st, su)
  BY <1>5, <1>9 DEF LiveHolds
<1>14. su.since <= Len(log[st.session])
  BY <1>5, <1>8 DEF StreamHolds
<1> QED
  BY <1>5, <1>6, <1>9, <1>11, <1>12, <1>13, <1>14 DEF StreamHolds

\* An event of the history is sent.
LEMMA StreamSendsHistory ==
  ASSUME ManagementInv, NEW r \in Reader, WatchSessionSendHistory(r),
         NEW st, st = stream'[r], NEW su, su = subs'[r], NEW ld, ld = load'[r]
  PROVE  StreamHolds(st, su, ld)
<1>1. PICK old : old = stream[r]
  OBVIOUS
<1>2. /\ old \in OpenStream /\ old.pc = "replay"
      /\ st.pc = (IF Len(old.todo) = 1 THEN "live" ELSE "replay")
      /\ st.session = old.session /\ st.replay = old.replay
      /\ st.todo = Tail(old.todo) /\ st.sent = Append(old.sent, Head(old.todo))
  BY <1>1, SendHistoryEffect DEF ManagementInv
<1>3. su = subs[r] /\ ld = load[r]
  BY DEF WatchSessionSendHistory, storeVars
<1>4. StreamHolds(old, su, ld)
  BY <1>1, <1>2, <1>3 DEF ManagementInv, StreamsHold
<1>5. PICK H \in Seq(StreamEvent), V \in Seq(ID) :
        Spread(H, V, old, su) /\ HistoryHolds(H, old, su) /\ LiveHolds(V, old, su)
  BY <1>4 DEF StreamHolds
<1>6. H = old.sent \o old.todo /\ old.todo # << >> /\ V = su.chan /\ old.replay
  BY <1>2, <1>5 DEF Spread
<1>7. PICK a \in Seq(StreamEvent), b \in Seq(StreamEvent) : a = old.sent /\ b = old.todo
  BY <1>2 DEF OpenStream
<1>8. /\ st.sent \in Seq(StreamEvent) /\ st.todo \in Seq(StreamEvent)
      /\ st.sent \o st.todo = H /\ Len(st.todo) = Len(b) - 1 /\ Len(b) \in Nat /\ Len(b) >= 1
  <2>1. Append(a, Head(b)) \o Tail(b) = a \o b
    BY <1>6, <1>7, ConcatHeadMoved
  <2>2. /\ Tail(b) \in Seq(StreamEvent) /\ Head(b) \in StreamEvent /\ Len(Tail(b)) = Len(b) - 1
        /\ Len(b) \in Nat /\ Len(b) >= 1
    BY <1>6, <1>7, TailPositions
  <2>3. Append(a, Head(b)) \in Seq(StreamEvent)
    BY <2>2, AppendPositions
  <2> QED
    BY <1>2, <1>6, <1>7, <2>1, <2>2, <2>3
<1>9. Spread(H, V, st, su)
  <2>1. CASE Len(b) = 1
    <3>1. st.pc = "live" /\ Len(st.todo) = 0
      BY <1>2, <1>7, <1>8, <2>1
    <3>2. st.todo = << >>
      BY <1>8, <3>1
    <3>3. st.sent = H
      BY <1>8, <3>2, ConcatEmpty
    <3>4. Len(H) \in Nat
      BY <1>5
    <3>5. st.sent \o su.chan = H \o V
      BY <1>6, <3>3
    <3>6. Len(H) <= Len(st.sent)
      BY <3>3, <3>4
    <3>7. st.replay
      BY <1>2, <1>6
    <3>8. st.pc # "load" /\ st.pc # "replay"
      BY <3>1
    <3> QED
      BY <3>2, <3>5, <3>6, <3>7, <3>8 DEF Spread
  <2>2. CASE Len(b) # 1
    <3>1. st.pc = "replay" /\ Len(st.todo) # 0
      BY <1>2, <1>7, <1>8, <2>2
    <3>2. st.todo # << >>
      BY <3>1
    <3> QED
      BY <1>2, <1>6, <1>8, <3>1, <3>2 DEF Spread
  <2> QED
    BY <2>1, <2>2
<1>10. HistoryHolds(H, st, su) /\ LiveHolds(V, st, su)
  BY <1>2, <1>5 DEF HistoryHolds, LiveHolds
<1>11. su.since <= Len(log[st.session]) /\ st.pc # "load"
  BY <1>2, <1>4 DEF StreamHolds
<1> QED
  BY <1>5, <1>9, <1>10, <1>11 DEF StreamHolds

\* A live node is passed on.
LEMMA StreamSendsLive ==
  ASSUME ManagementInv, NEW r \in Reader, WatchSessionSendLive(r),
         NEW st, st = stream'[r], NEW su, su = subs'[r], NEW ld, ld = load'[r]
  PROVE  StreamHolds(st, su, ld)
<1>1. PICK old, was : old = stream[r] /\ was = subs[r]
  OBVIOUS
<1>2. /\ old \in OpenStream /\ was \in Subscription /\ was.chan # << >>
      /\ old.pc = "live" /\ st.pc = "live"
      /\ st.session = old.session /\ st.replay = old.replay /\ st.todo = old.todo
      /\ st.sent = Append(old.sent, Head(was.chan))
      /\ su.dropped = was.dropped /\ su.since = was.since /\ su.chan = Tail(was.chan)
  BY <1>1, SendLiveEffect DEF ManagementInv
<1>3. StreamHolds(old, was, load[r])
  BY <1>1, <1>2 DEF ManagementInv, StreamsHold
<1>4. PICK H \in Seq(StreamEvent), V \in Seq(ID) :
        Spread(H, V, old, was) /\ HistoryHolds(H, old, was) /\ LiveHolds(V, old, was)
  BY <1>3 DEF StreamHolds
<1>5. old.sent \o was.chan = H \o V /\ Len(H) <= Len(old.sent) /\ old.todo = << >>
  BY <1>2, <1>4 DEF Spread
<1>6. PICK a \in Seq(StreamEvent), b \in Seq(StreamEvent) : a = old.sent /\ b = was.chan
  BY <1>2, SeqSubset DEF OpenStream, Subscription, StreamEvent
<1>7. Append(a, Head(b)) \o Tail(b) = a \o b
  BY <1>2, <1>6, ConcatHeadMoved
<1>8. st.sent \o su.chan = H \o V
  BY <1>2, <1>5, <1>6, <1>7
<1>9. Len(H) <= Len(st.sent)
  <2>1. Head(b) \in StreamEvent
    BY <1>2, <1>6, TailPositions
  <2>2. Len(Append(a, Head(b))) = Len(a) + 1 /\ Len(a) \in Nat /\ Len(H) \in Nat
    BY <1>4, <1>6, <2>1, AppendPositions
  <2> QED
    BY <1>2, <1>5, <1>6, <2>2
<1>10. Spread(H, V, st, su)
  BY <1>2, <1>4, <1>5, <1>8, <1>9 DEF Spread
<1>11. HistoryHolds(H, st, su) /\ LiveHolds(V, st, su)
  BY <1>2, <1>4 DEF HistoryHolds, LiveHolds
<1>12. su.since <= Len(log[st.session]) /\ st.pc # "load"
  BY <1>2, <1>3 DEF StreamHolds
<1> QED
  BY <1>4, <1>10, <1>11, <1>12 DEF StreamHolds

\* What holds of the streams stays true.
LEMMA StreamsStep ==
  ASSUME ~QueryFails, ManagementInv, [ManagementNext]_managementVars, ManagementTypeOK', StoreInv',
         CallsAreSeparate', Grows
  PROVE  StreamsHold'
<1>1. /\ StoreInv /\ StoreTypeOK /\ CallsAreSeparate /\ StreamsHold /\ ManagementTypeOK
      /\ stream \in [Reader -> {noStream} \cup OpenStream]
      /\ stream' \in [Reader -> {noStream} \cup OpenStream]
      /\ StoreTypeOK'
  BY ManagementTypes, ManagementTypesAfter DEF ManagementInv
<1>2. ASSUME NEW t \in Reader
      PROVE  /\ stream[t].pc # "off" => stream[t] \in OpenStream /\ subs[t] \in Subscription
             /\ stream'[t].pc # "off" => stream'[t] \in OpenStream /\ subs'[t] \in Subscription
  <2>1. stream[t].pc # "off" => stream[t] \in OpenStream /\ subs[t] \in Subscription
    BY <1>1 DEF noStream, CallsAreSeparate, StoreTypeOK, unsubscribed
  <2>2. stream'[t].pc # "off" => stream'[t] \in OpenStream /\ subs'[t] \in Subscription
    BY <1>1 DEF noStream, CallsAreSeparate, StoreTypeOK, unsubscribed
  <2> QED
    BY <2>1, <2>2
<1> DEFINE holds(t) == stream[t].pc # "off" => StreamHolds(stream[t], subs[t], load[t])
\* A stream that is left alone while nothing of its session is published.
<1>3. ASSUME NEW t \in Reader, stream'[t] = stream[t], subs'[t] = subs[t],
             load'[t] = load[t] \/ stream[t].pc # "load",
             \A s \in Session : s = stream[t].session => published(s)' = published(s)
      PROVE  holds(t)'
  <2>1. SUFFICES ASSUME stream'[t].pc # "off"
                 PROVE  StreamHolds(stream[t], subs[t], load[t])'
    OBVIOUS
  <2> PICK ld, ln : ld = load[t] /\ ln = load'[t]
    OBVIOUS
  <2>2. PICK st \in OpenStream, su \in Subscription :
          /\ st = stream[t] /\ st = stream'[t] /\ su = subs[t] /\ su = subs'[t]
          /\ ld = load[t] /\ ln = load'[t]
    BY <1>2, <1>3, <2>1
  <2>3. StreamHolds(st, su, ld)
    BY <1>1, <2>1, <2>2 DEF StreamsHold
  <2>4. StreamHolds(st, su, ln)
    BY <1>3, <2>2, <2>3 DEF StreamHolds
  <2>5. PICK s \in Session : s = st.session
    BY DEF OpenStream
  <2>6. published(s)' = published(s)
    BY <1>3, <2>2, <2>5
  <2>7. StreamHolds(st, su, ln)'
    BY <1>1, <2>4, <2>5, <2>6, StreamStays
  <2> QED
    BY <2>2, <2>7
<1>4. ASSUME UNCHANGED <<op, log>>
      PROVE  \A s \in Session : published(s)' = published(s)
  BY <1>1, <1>4, PublishedStep
\* A stream that takes a step of its own.
<1>5. ASSUME NEW t \in Reader, UNCHANGED <<op, log>>,
             NEW st, st = stream'[t], NEW su, su = subs'[t], NEW ld, ld = load'[t],
             StreamHolds(st, su, ld)
      PROVE  holds(t)'
  <2>1. SUFFICES ASSUME stream'[t].pc # "off"
                 PROVE  StreamHolds(stream[t], subs[t], load[t])'
    OBVIOUS
  <2>2. st \in OpenStream /\ su \in Subscription
    BY <1>2, <1>5, <2>1
  <2>3. PICK s \in Session : s = st.session
    BY <2>2 DEF OpenStream
  <2>4. StreamHolds(st, su, ld)'
    BY <1>1, <1>4, <1>5, <2>2, <2>3, StreamStays
  <2> QED
    BY <1>5, <2>4
<1>6. ASSUME NEW s \in Session, Write(s), UNCHANGED <<stream, query>>
      PROVE  StreamsHold'
  <2>1. ASSUME NEW t \in Reader PROVE holds(t)'
    <3>1. CASE stream[t].pc = "off"
      BY <1>6, <3>1
    <3>2. CASE stream[t].pc # "off" /\ ~(writing(s, "publish") /\ stream[t].session = s)
      <4>1. subs[t].session = stream[t].session
        BY <1>1, <3>2 DEF CallsAreSeparate
      <4>2. subs'[t] = subs[t] /\ load' = load
        BY <1>1, <1>6, <3>2, <4>1, WriteSubs
      <4>3. \A u \in Session : u = stream[t].session => published(u)' = published(u)
        BY <1>1, <1>6, <3>2, PublishedStep
      <4> QED
        BY <1>3, <1>6, <4>2, <4>3
    <3>3. CASE stream[t].pc # "off" /\ writing(s, "publish") /\ stream[t].session = s
      <4>1. subs[t].on /\ subs[t].session = s
        BY <1>1, <3>3 DEF CallsAreSeparate
      <4> PICK ld, n, sv : ld = load[t] /\ n = op[s].node /\ sv = subs'[t]
        OBVIOUS
      <4>2. PICK st \in OpenStream, su \in Subscription :
              /\ st = stream[t] /\ st = stream'[t] /\ su = subs[t] /\ sv = subs'[t]
              /\ ld = load[t] /\ ld = load'[t] /\ n = op[s].node
        BY <1>1, <1>2, <1>6, <3>3, WriteSubs
      <4>3. WriteNodePublish(s) /\ sv = publish(su, n)
        BY <1>1, <1>6, <3>3, <4>1, <4>2, WriteSubs
      <4>4. StreamHolds(st, su, ld)
        BY <1>1, <3>3, <4>2 DEF StreamsHold
      <4>5. StreamHolds(st, sv, ld)'
        BY <1>1, <3>3, <4>2, <4>3, <4>4, StreamPublished
      <4> QED
        BY <4>2, <4>5
    <3> QED
      BY <3>1, <3>2, <3>3
  <2> QED
    BY <2>1 DEF StreamsHold
<1>7. ASSUME NEW r \in Reader,
             \/ Handler(r) \/ WatchSessionClose(r) \/ WatchSessionLoadFails(r)
             \/ \E s \in Session, replay \in BOOLEAN : WatchSessionOpen(r, s, replay)
      PROVE  StreamsHold'
  <2>1. /\ UNCHANGED <<op, log>>
        /\ \A t \in Reader : t # r =>
             stream'[t] = stream[t] /\ subs'[t] = subs[t] /\ load'[t] = load[t]
    BY <1>1, <1>7
       DEF Handler, WatchSessionLoad, LoadSession, LoadHead, LoadEnd, LoadNodes, storeVars,
           WatchSessionNoHistory, WatchSessionReplay, WatchSessionSendHistory,
           WatchSessionSendLive, Receive, WatchSessionClose, cancel, WatchSessionLoadFails,
           WatchSessionOpen, Watch, StoreTypeOK
  <2>2. \A t \in Reader : t # r => holds(t)'
    BY <1>3, <1>4, <2>1
  <2>3. holds(r)'
    <3>1. PICK st, su, ld : st = stream'[r] /\ su = subs'[r] /\ ld = load'[r]
      OBVIOUS
    <3>2. CASE WatchSessionClose(r) \/ WatchSessionLoadFails(r)
      BY <1>1, <3>2 DEF WatchSessionClose, WatchSessionLoadFails, noStream
    <3>3. CASE ~(WatchSessionClose(r) \/ WatchSessionLoadFails(r))
      <4>1. StreamHolds(st, su, ld)
        BY <1>1, <1>7, <3>1, <3>3, StreamOpens, StreamLoads, StreamWithoutHistory, StreamReplays,
           StreamSendsHistory, StreamSendsLive DEF Handler
      <4> QED
        BY <1>5, <2>1, <3>1, <4>1
    <3> QED
      BY <3>2, <3>3
  <2> QED
    BY <2>2, <2>3 DEF StreamsHold
<1>8. ASSUME NEW r \in Reader, Query(r)
      PROVE  StreamsHold'
  <2>1. UNCHANGED <<op, log, stream, subs>>
    BY <1>8 DEF Query, QueryStep, QueryDone, GetSession, GetSessionGraph, GetResumeContext,
                GetLineage, GetSessionGraphRead, GetSessionLoad, GetSessionReturn,
                GetSessionWithoutHead, LoadSession, LoadHead, LoadEnd, LoadNodes, LoadFails,
                LoadDone, watchVars
  <2>2. \A t \in Reader : t # r => load'[t] = load[t]
    BY <1>1, <1>8
       DEF Query, QueryStep, QueryDone, GetSession, GetSessionGraph, GetResumeContext, GetLineage,
           GetSessionGraphRead, GetSessionLoad, GetSessionReturn, GetSessionWithoutHead,
           LoadSession, LoadHead, LoadEnd, LoadNodes, LoadFails, LoadDone, watchVars, StoreTypeOK
  <2>3. stream[r].pc = "off"
    <3>1. free(r) \/ query[r].pc # "none"
      BY <1>8 DEF Query, QueryStep, QueryDone, GetSession, GetSessionGraph, GetResumeContext,
                  GetLineage, GetSessionGraphRead, GetSessionLoad, GetSessionReturn,
                  GetSessionWithoutHead, answered
    <3> QED
      BY <1>1, <3>1 DEF CallsAreSeparate, free, noQuery
  <2>4. \A t \in Reader : holds(t)'
    BY <1>3, <1>4, <2>1, <2>2, <2>3
  <2> QED
    BY <2>4 DEF StreamsHold
<1>9. CASE stream' = [r \in Reader |-> noStream]
  BY <1>9 DEF StreamsHold, noStream
<1>10. CASE UNCHANGED managementVars
  <2>1. \A t \in Reader : holds(t)'
    BY <1>3, <1>4, <1>10 DEF managementVars
  <2> QED
    BY <2>1 DEF StreamsHold
<1> QED
  BY <1>6, <1>7, <1>8, <1>9, <1>10 DEF ManagementNext

-----------------------------------------------------------------------------
(* The invariant holds *)

\* It holds when the service starts on an empty store.
LEMMA ManagementInvInit == ManagementInit => ManagementInv
<1> SUFFICES ASSUME ManagementInit PROVE ManagementInv
  OBVIOUS
<1>1. /\ Init /\ stream = [r \in Reader |-> noStream] /\ query = [r \in Reader |-> noQuery]
  BY DEF ManagementInit, WatchInit
<1>2. StoreInv
  BY <1>1, StoreInvInit
<1>3. ManagementTypeOK
  BY <1>1, <1>2, ManagementTypes DEF StoreInv, AnyQuery
<1>4. WrittenSessionsExist
  BY <1>1 DEF Init, WrittenSessionsExist, idle
<1>5. CallsAreSeparate
  BY <1>1 DEF Init, CallsAreSeparate, noStream, noQuery, noLoad, unsubscribed
<1>6. AnswersHold
  <2>1. \A r \in Reader : query[r] = noQuery /\ query[r].pc = "none"
    BY <1>1 DEF noQuery
  <2> QED
    BY <2>1, NoAnswer DEF AnswersHold
<1>7. StreamsHold
  BY <1>1 DEF StreamsHold, noStream
<1> QED
  BY <1>2, <1>3, <1>4, <1>5, <1>6, <1>7 DEF ManagementInv

\* A stream in its replay has something left to send.
LEMMA ReplayHasMore ==
  ASSUME ManagementInv, NEW r \in Reader, stream[r].pc = "replay"
  PROVE  stream[r].todo # << >>
<1>1. StreamHolds(stream[r], subs[r], load[r])
  BY DEF ManagementInv, StreamsHold
<1> QED
  BY <1>1 DEF StreamHolds, Spread

\* Every step preserves it.
LEMMA ManagementInvStep ==
  ASSUME ~QueryFails, ManagementInv, [ManagementNext]_managementVars
  PROVE  ManagementInv'
<1>1. StoreInv /\ ManagementTypeOK /\ WrittenSessionsExist
  BY DEF ManagementInv
<1>2. StoreStep \/ UNCHANGED storeVars
  BY <1>1, ManagementStoreStep
<1>3. StoreInv' /\ Grows
  BY <1>1, <1>2, StoreInvStep
<1>4. ManagementTypeOK'
  BY <1>1, ReplayHasMore, ManagementTypeStep
<1>5. WrittenSessionsExist'
  BY <1>1, <1>2, WrittenStep
<1>6. CallsAreSeparate'
  BY CallsStep
<1>7. AnswersHold'
  BY <1>3, <1>4, AnswersStep
<1>8. StreamsHold'
  BY <1>3, <1>4, <1>6, StreamsStep
<1> QED
  BY <1>3, <1>4, <1>5, <1>6, <1>7, <1>8 DEF ManagementInv

\* The invariant of the store and of the management service over it.
THEOREM ManagementInvariant ==
  ASSUME ~QueryFails
  PROVE  ManagementSpec => []ManagementInv
<1>1. ManagementInit => ManagementInv
  BY ManagementInvInit
<1>2. ManagementInv /\ [ManagementNext]_managementVars => ManagementInv'
  BY ManagementInvStep
<1> QED
  BY <1>1, <1>2, PTL DEF ManagementSpec

-----------------------------------------------------------------------------
(* What the service promises *)

\* However harnesses write, a stream is opened and served and LoadGraph calls
\* go on between the steps of a write, and wherever the process crashes: a
\* session has exactly one head and it is the node applied last, and a batch of
\* WriteNode never fails because of a head that is gone.
THEOREM HeadsAreRight ==
  ASSUME ~QueryFails
  PROVE  ManagementSpec => []HeadIsLastApplied
<1>1. ManagementInv => HeadIsLastApplied
  BY DEF ManagementInv, StoreInv
<1> QED
  BY <1>1, ManagementInvariant, PTL

\* The quads of a node are all there or none is, and a node never comes before
\* its parents.
THEOREM NodesStayWhole ==
  ASSUME ~QueryFails
  PROVE  ManagementSpec => []NodesAreWhole
<1>1. ManagementInv => NodesAreWhole
  BY DEF ManagementInv, StoreInv
<1> QED
  BY <1>1, ManagementInvariant, PTL

\* A graph that LoadGraph puts together from queries at different moments hangs
\* together.
THEOREM LoadedGraphsHangTogether ==
  ASSUME ~QueryFails
  PROVE  ManagementSpec => []LoadedGraphIsConsistent
<1>1. ManagementInv => LoadedGraphIsConsistent
  BY LoadedGraphHolds DEF ManagementInv
<1> QED
  BY <1>1, ManagementInvariant, PTL

\* What the calls hold is what is asked of their answers.
LEMMA AnswersHoldSoundly == ManagementInv => AnswersAreSound
<1> SUFFICES ASSUME ManagementInv PROVE AnswersAreSound
  OBVIOUS
<1>1. \A r \in Reader : AnswerHolds(query[r])
  BY DEF ManagementInv, AnswersHold
<1>2. SessionAnswerIsRecent
  BY <1>1 DEF SessionAnswerIsRecent, AnswerHolds, Recent
<1>3. ResumeContextIsLineage
  BY <1>1 DEF ResumeContextIsLineage, AnswerHolds
<1>4. GraphAnswerIsClosed
  BY <1>1 DEF GraphAnswerIsClosed, AnswerHolds
<1> QED
  BY <1>2, <1>3, <1>4 DEF AnswersAreSound, ManagementInv

\* The answers of GetSession, GetResumeContext and GetSessionGraph, put together
\* from several reads while harnesses write, are sound.
THEOREM AnswersAreRight ==
  ASSUME ~QueryFails
  PROVE  ManagementSpec => []AnswersAreSound
BY AnswersHoldSoundly, ManagementInvariant, PTL

-----------------------------------------------------------------------------
(* What a stream has sent *)

\* Everything sent is an event of the history or a live node, at its place.
LEMMA SentIsSpread ==
  ASSUME NEW st \in OpenStream, NEW su \in Subscription, NEW H \in Seq(StreamEvent),
         NEW V \in Seq(ID), Spread(H, V, st, su), NEW i \in DOMAIN st.sent
  PROVE  /\ i \in Nat /\ i >= 1
         /\ \/ i <= Len(H) /\ st.sent[i] = H[i]
            \/ i > Len(H) /\ i - Len(H) \in DOMAIN V /\ st.sent[i] = V[i - Len(H)]
         /\ \A j \in 1..i : j <= Len(H) => st.sent[j] = H[j]
         /\ \A j \in 1..i : j > Len(H) => j - Len(H) \in DOMAIN V /\ st.sent[j] = V[j - Len(H)]
<1>1. PICK a \in Seq(StreamEvent), c \in Seq(StreamEvent), b \in Seq(StreamEvent) :
        a = st.sent /\ c = su.chan /\ b = st.todo
  BY SeqSubset DEF OpenStream, Subscription, StreamEvent
<1>2. i \in 1..Len(a) /\ Len(a) \in Nat /\ i \in Nat /\ i >= 1 /\ Len(H) \in Nat
  BY <1>1
<1>3. V \in Seq(StreamEvent) /\ Len(V) \in Nat /\ DOMAIN V = 1..Len(V)
  BY SeqSubset DEF StreamEvent
<1>4. CASE st.pc = "load"
  BY <1>1, <1>2, <1>4 DEF Spread
<1>5. CASE st.pc = "replay"
  <2>1. H = a \o b
    BY <1>1, <1>5 DEF Spread
  <2>2. Len(a) <= Len(H) /\ \A j \in 1..Len(a) : H[j] = a[j]
    BY <1>2, <2>1, ConcatPositions
  <2>3. \A j \in 1..i : j <= Len(H) /\ a[j] = H[j]
    BY <1>2, <2>2
  <2> QED
    BY <1>1, <1>2, <2>3
<1>6. CASE st.pc = "live"
  <2>1. a \o c = H \o V
    BY <1>1, <1>6 DEF Spread
  <2>2. /\ Len(a \o c) = Len(a) + Len(c) /\ Len(c) \in Nat
        /\ \A j \in 1..Len(a) : (a \o c)[j] = a[j]
    BY ConcatPositions
  <2>3. /\ Len(H \o V) = Len(H) + Len(V)
        /\ \A j \in 1..Len(H) : (H \o V)[j] = H[j]
        /\ \A j \in (Len(H) + 1)..(Len(H) + Len(V)) : (H \o V)[j] = V[j - Len(H)]
    BY <1>3, ConcatPositions
  <2>4. Len(a) <= Len(H) + Len(V)
    BY <1>2, <2>1, <2>2, <2>3
  <2>5. \A j \in 1..i : j <= Len(H) => a[j] = H[j]
    BY <1>2, <2>1, <2>2, <2>3
  <2>6. \A j \in 1..i : j > Len(H) => j - Len(H) \in 1..Len(V) /\ a[j] = V[j - Len(H)]
    BY <1>2, <1>3, <2>1, <2>2, <2>3, <2>4
  <2> QED
    BY <1>1, <1>2, <1>3, <2>5, <2>6
<1> QED
  BY <1>4, <1>5, <1>6 DEF OpenStream

\* No node is missed.
LEMMA NothingMissed == ManagementInv => NoNodeMissed
<1> SUFFICES ASSUME ManagementInv, NEW r \in Reader, stream[r].pc = "live", ~subs[r].dropped
             PROVE  LET nodes == log[stream[r].session]
                        owed == SubSeq(nodes, IF stream[r].replay THEN 1 ELSE subs[r].since + 1, Len(nodes))
                    IN ToSet(owed) \cap Returned(stream[r].session)
                         \subseteq ToSet(stream[r].sent) \cup ToSet(subs[r].chan)
  BY DEF NoNodeMissed
<1>1. PICK st, su : st = stream[r] /\ su = subs[r]
  OBVIOUS
<1>2. StoreInv /\ StoreTypeOK /\ st \in OpenStream /\ su \in Subscription
  BY <1>1, ManagementTypes
     DEF ManagementInv, CallsAreSeparate, StoreTypeOK, noStream, unsubscribed, StoreInv
<1>3. PICK s \in Session : s = st.session
  BY <1>2 DEF OpenStream
<1>4. StreamHolds(st, su, load[r])
  BY <1>1 DEF ManagementInv, StreamsHold
<1>5. PICK H \in Seq(StreamEvent), V \in Seq(ID) :
        Spread(H, V, st, su) /\ HistoryHolds(H, st, su) /\ LiveHolds(V, st, su)
  BY <1>4 DEF StreamHolds
<1>6. PICK nodes \in Seq(ID) : nodes = log[s]
  BY <1>2 DEF StoreTypeOK
<1>7. PICK p \in Nat : p = published(s) /\ p <= Len(nodes)
  BY <1>2, <1>6, PublishedRange
<1>8. su.since \in Nat /\ su.since <= Len(nodes) /\ Len(nodes) \in Nat
  BY <1>2, <1>3, <1>4, <1>6 DEF Subscription, StreamHolds
<1>9. /\ Len(V) <= p /\ p - Len(V) <= su.since /\ Len(V) \in Nat /\ DOMAIN V = 1..Len(V)
      /\ \A j \in DOMAIN V : V[j] = nodes[p - Len(V) + j]
  BY <1>1, <1>3, <1>5, <1>6, <1>7 DEF LiveHolds
<1> DEFINE from == IF st.replay THEN 1 ELSE su.since + 1
           owed == SubSeq(nodes, from, Len(nodes))
<1>10. ASSUME NEW n \in ToSet(owed), n \in Returned(s)
       PROVE  n \in ToSet(st.sent) \cup ToSet(su.chan)
  <2>1. from \in Nat /\ from >= 1 /\ from <= Len(nodes) + 1
    BY <1>8
  <2>2. PICK k \in from..Len(nodes) : n = nodes[k]
    <3> HIDE DEF from
    <3>1. PICK i \in DOMAIN owed : n = owed[i]
      BY DEF ToSet
    <3>2. i \in 1..((Len(nodes) + 1) - from) /\ owed[i] = nodes[from + i - 1]
      BY <1>8, <2>1, <3>1
    <3>3. from + i - 1 \in from..Len(nodes)
      BY <1>8, <2>1, <3>2
    <3> QED
      BY <3>1, <3>2, <3>3
  <2>3. k \in Nat /\ k >= 1 /\ k <= p
    <3>1. CASE writing(s, "publish")
      <4>1. op[s].node = nodes[Len(nodes)] /\ p = Len(nodes) - 1
        BY <1>2, <1>6, <1>7, <3>1 DEF StoreInv, WritesAreFresh, Last, published
      <4>2. k # Len(nodes)
        BY <1>10, <2>2, <3>1, <4>1 DEF Returned
      <4> QED
        BY <1>8, <2>1, <2>2, <4>1, <4>2
    <3>2. CASE ~writing(s, "publish")
      <4>1. p = Len(nodes)
        BY <1>6, <1>7, <3>2 DEF published
      <4> QED
        BY <1>8, <2>1, <2>2, <4>1
    <3> QED
      BY <3>1, <3>2
  <2>4. n \in ToSet(H) \/ n \in ToSet(V)
    <3>1. CASE k > p - Len(V)
      <4>1. k - (p - Len(V)) \in DOMAIN V /\ p - Len(V) + (k - (p - Len(V))) = k
        BY <1>9, <2>3, <3>1
      <4>2. V[k - (p - Len(V))] = n
        BY <1>9, <2>2, <4>1
      <4> QED
        BY <4>1, <4>2 DEF ToSet
    <3>2. CASE ~(k > p - Len(V))
      <4>1. k \in 1..su.since
        BY <1>7, <1>8, <1>9, <2>3, <3>2
      <4>2. st.replay
        BY <1>8, <2>2, <4>1
      <4> QED
        BY <1>1, <1>3, <1>5, <1>6, <2>2, <4>1, <4>2 DEF HistoryHolds
    <3> QED
      BY <3>1, <3>2
  <2>5. PICK a \in Seq(StreamEvent), c \in Seq(StreamEvent) : a = st.sent /\ c = su.chan
    BY <1>2, SeqSubset DEF OpenStream, Subscription, StreamEvent
  <2>6. a \o c = H \o V /\ V \in Seq(StreamEvent)
    BY <1>1, <1>5, <2>5, SeqSubset DEF Spread, StreamEvent
  <2>7. n \in ToSet(a \o c)
    BY <1>5, <2>4, <2>6, ConcatToSet
  <2> QED
    BY <2>5, <2>7, ConcatToSet
<1> QED
  BY <1>1, <1>3, <1>6, <1>10

\* With its history a stream shows no node before the parents of that node.
LEMMA ParentsGoFirst == ManagementInv => ParentsAreSentFirst
<1> SUFFICES ASSUME ManagementInv, NEW r \in Reader, stream[r].pc # "off", stream[r].replay,
                    ~subs[r].dropped, NEW i \in DOMAIN stream[r].sent, stream[r].sent[i] \in ID
             PROVE  parentsOf(stream[r].sent[i]) \subseteq {stream[r].sent[j] : j \in 1..(i - 1)}
  BY DEF ParentsAreSentFirst
<1>1. PICK st, su : st = stream[r] /\ su = subs[r]
  OBVIOUS
<1>2. StoreInv /\ StoreTypeOK /\ st \in OpenStream /\ su \in Subscription
  BY <1>1, ManagementTypes
     DEF ManagementInv, CallsAreSeparate, StoreTypeOK, noStream, unsubscribed, StoreInv
<1>3. PICK s \in Session : s = st.session
  BY <1>2 DEF OpenStream
<1>4. StreamHolds(st, su, load[r])
  BY <1>1 DEF ManagementInv, StreamsHold
<1>5. PICK H \in Seq(StreamEvent), V \in Seq(ID) :
        Spread(H, V, st, su) /\ HistoryHolds(H, st, su) /\ LiveHolds(V, st, su)
  BY <1>4 DEF StreamHolds
<1>6. /\ i \in Nat /\ i >= 1
      /\ \/ i <= Len(H) /\ st.sent[i] = H[i]
         \/ i > Len(H) /\ i - Len(H) \in DOMAIN V /\ st.sent[i] = V[i - Len(H)]
      /\ \A j \in 1..i : j <= Len(H) => st.sent[j] = H[j]
      /\ \A j \in 1..i : j > Len(H) => j - Len(H) \in DOMAIN V /\ st.sent[j] = V[j - Len(H)]
  BY <1>1, <1>2, <1>5, SentIsSpread
<1>7. Len(H) \in Nat /\ DOMAIN H = 1..Len(H) /\ Len(V) \in Nat /\ DOMAIN V = 1..Len(V)
  BY <1>5
<1>8. CASE i <= Len(H)
  <2>1. i \in DOMAIN H /\ H[i] \in ID /\ st.sent[i] = H[i]
    BY <1>1, <1>6, <1>7, <1>8
  <2>2. parentsOf(H[i]) \subseteq {H[j] : j \in 1..(i - 1)}
    BY <1>5, <2>1 DEF HistoryHolds
  <2>3. \A j \in 1..(i - 1) : st.sent[j] = H[j]
    BY <1>6, <1>7, <1>8
  <2> QED
    BY <1>1, <2>1, <2>2, <2>3
<1>9. CASE i > Len(H)
  <2>1. PICK p \in Nat : p = published(s) /\ p <= Len(log[s])
    BY <1>2, PublishedRange
  <2>2. /\ Len(V) <= p /\ p - Len(V) <= su.since /\ p - Len(V) \in Nat
        /\ \A j \in DOMAIN V : V[j] = log[s][p - Len(V) + j]
    <3>1. /\ Len(V) <= p /\ p - Len(V) <= su.since
          /\ \A j \in DOMAIN V : V[j] = log[s][p - Len(V) + j]
      BY <1>1, <1>3, <1>5, <2>1 DEF LiveHolds
    <3> QED
      BY <1>7, <2>1, <3>1
  <2>3. PICK d \in Nat, m \in 1..Len(V) : d = p - Len(V) /\ m = i - Len(H) /\ st.sent[i] = log[s][d + m]
    <3>1. PICK m : m = i - Len(H)
      OBVIOUS
    <3>2. m \in DOMAIN V /\ st.sent[i] = V[m]
      <4>1. ~(i <= Len(H))
        BY <1>6, <1>7, <1>9
      <4> QED
        BY <1>6, <3>1, <4>1
    <3>3. PICK d \in Nat : d = p - Len(V)
      BY <2>2
    <3>4. V[m] = log[s][d + m]
      BY <2>2, <3>2, <3>3
    <3> QED
      BY <1>7, <3>1, <3>2, <3>3, <3>4
  <2>4. /\ su.since \in Nat /\ st.pc # "load" /\ st.replay
    <3>1. st.pc # "load"
      <4>1. ASSUME st.pc = "load" PROVE FALSE
        <5>1. st.sent = << >> /\ i \in DOMAIN st.sent
          BY <1>1, <1>5, <4>1 DEF Spread
        <5> QED
          BY <5>1
      <4> QED
        BY <4>1
    <3> QED
      BY <1>1, <1>2, <3>1 DEF Subscription
  <2>5. Len(log[s]) \in Nat /\ DOMAIN log[s] = 1..Len(log[s])
    BY <1>2, LogOrder
  <2>6. d + m \in DOMAIN log[s]
    BY <1>7, <2>1, <2>2, <2>3, <2>5
  <2>7. parentsOf(log[s][d + m]) \subseteq {log[s][l] : l \in 1..(d + m - 1)}
    <3>1. \A k \in DOMAIN log[s] : parentsOf(log[s][k]) \subseteq {log[s][l] : l \in 1..(k - 1)}
      BY <1>2, LogOrder
    <3>2. PICK e : e = d + m
      OBVIOUS
    <3>3. e \in DOMAIN log[s]
      BY <2>6, <3>2
    <3>4. parentsOf(log[s][e]) \subseteq {log[s][l] : l \in 1..(e - 1)}
      BY <3>1, <3>3
    <3> QED
      BY <3>2, <3>4
  <2>8. ASSUME NEW l \in 1..(d + m - 1)
        PROVE  \E j \in 1..(i - 1) : st.sent[j] = log[s][l]
    <3>1. CASE l <= d
      <4>1. l \in 1..su.since
        BY <2>2, <2>3, <2>4, <3>1
      <4>2. log[s][l] \in ToSet(H)
        BY <1>3, <1>5, <2>4, <4>1 DEF HistoryHolds
      <4>3. PICK j \in DOMAIN H : H[j] = log[s][l]
        BY <4>2 DEF ToSet
      <4>4. j \in 1..(i - 1) /\ j <= Len(H) /\ j \in 1..i
        BY <1>6, <1>7, <1>9
      <4> QED
        BY <1>6, <4>3, <4>4
    <3>2. CASE l > d
      <4>1. /\ l - d \in DOMAIN V /\ l - d < m /\ d + (l - d) = l
            /\ Len(H) + (l - d) \in 1..(i - 1) /\ Len(H) + (l - d) \in 1..i
            /\ Len(H) + (l - d) > Len(H) /\ (Len(H) + (l - d)) - Len(H) = l - d
        BY <1>6, <1>7, <1>9, <2>3, <3>2
      <4>2. V[l - d] = log[s][l]
        BY <2>2, <2>3, <4>1
      <4>3. st.sent[Len(H) + (l - d)] = V[l - d]
        BY <1>6, <4>1
      <4> QED
        BY <4>1, <4>2, <4>3
    <3> QED
      BY <2>3, <3>1, <3>2
  <2>9. parentsOf(st.sent[i]) \subseteq {log[s][l] : l \in 1..(d + m - 1)}
    BY <2>3, <2>7
  <2>10. parentsOf(st.sent[i]) \subseteq {st.sent[j] : j \in 1..(i - 1)}
    <3> SUFFICES ASSUME NEW x \in parentsOf(st.sent[i])
                 PROVE  \E j \in 1..(i - 1) : x = st.sent[j]
      OBVIOUS
    <3>1. PICK l \in 1..(d + m - 1) : x = log[s][l]
      BY <2>9
    <3> QED
      BY <2>8, <3>1
  <2> QED
    BY <1>1, <2>10
<1> QED
  BY <1>6, <1>7, <1>8, <1>9

\* At most two positions are at most two.
LEMMA TwoAtMost ==
  ASSUME NEW S, NEW a, NEW b, S \subseteq {a, b}
  PROVE  Cardinality(S) \in Nat /\ Cardinality(S) <= 2 /\ (a = b => Cardinality(S) <= 1)
<1>1. IsFiniteSet({}) /\ Cardinality({}) = 0
  BY FS_EmptySet
<1>2. IsFiniteSet({a}) /\ Cardinality({a}) <= 1
  BY <1>1, FS_AddElement
<1>3. IsFiniteSet({a, b}) /\ Cardinality({a, b}) <= 2
  <2>1. {a, b} = {a} \cup {b}
    OBVIOUS
  <2>2. /\ IsFiniteSet({a} \cup {b})
        /\ Cardinality({a} \cup {b}) = IF b \in {a} THEN Cardinality({a}) ELSE Cardinality({a}) + 1
    BY <1>2, FS_AddElement
  <2>3. Cardinality({a}) \in Nat
    BY <1>2, FS_CardinalityType
  <2>4. CASE b \in {a}
    BY <1>2, <2>1, <2>2, <2>3, <2>4
  <2>5. CASE b \notin {a}
    <3> DEFINE few == Cardinality({a})
    <3>1. few \in Nat /\ few <= 1
      BY <1>2, <2>3
    <3>2. Cardinality({a} \cup {b}) = few + 1
      BY <2>2, <2>5
    <3> HIDE DEF few
    <3>3. Cardinality({a} \cup {b}) <= 2
      BY <3>1, <3>2
    <3> QED
      BY <2>1, <2>2, <3>3
  <2> QED
    BY <2>4, <2>5
<1>4. /\ Cardinality(S) \in Nat /\ Cardinality(S) <= Cardinality({a, b})
      /\ Cardinality({a, b}) \in Nat
  BY <1>3, FS_Subset, FS_CardinalityType
<1>5. a = b => Cardinality(S) <= 1
  <2>1. a = b => Cardinality({a, b}) = Cardinality({a})
    OBVIOUS
  <2>2. Cardinality({a}) \in Nat
    BY <1>2, FS_CardinalityType
  <2> QED
    BY <1>2, <1>4, <2>1, <2>2
<1> QED
  BY <1>3, <1>4, <1>5

\* A node is sent at most once from the history and at most once live.
LEMMA TwiceAtMost == ManagementInv => SentTwiceAtMost
<1> SUFFICES ASSUME ManagementInv, NEW r \in Reader, stream[r].pc # "off", NEW n \in ID
             PROVE  Cardinality({i \in DOMAIN stream[r].sent : stream[r].sent[i] = n})
                      <= IF stream[r].replay THEN 2 ELSE 1
  BY DEF SentTwiceAtMost
<1>1. PICK st, su : st = stream[r] /\ su = subs[r]
  OBVIOUS
<1>2. st \in OpenStream /\ su \in Subscription
  BY <1>1, ManagementTypes
     DEF ManagementInv, CallsAreSeparate, StoreTypeOK, noStream, unsubscribed, StoreInv
<1>3. StreamHolds(st, su, load[r])
  BY <1>1 DEF ManagementInv, StreamsHold
<1>4. PICK H \in Seq(StreamEvent), V \in Seq(ID) :
        Spread(H, V, st, su) /\ HistoryHolds(H, st, su) /\ LiveHolds(V, st, su)
  BY <1>3 DEF StreamHolds
<1>5. IsInjective(H) /\ IsInjective(V)
  BY <1>4 DEF HistoryHolds, LiveHolds
<1>6. Len(H) \in Nat /\ DOMAIN H = 1..Len(H)
  BY <1>4
<1> DEFINE at == {i \in DOMAIN st.sent : st.sent[i] = n}
           old == {i \in at : i <= Len(H)}
           live == {i \in at : i > Len(H)}
<1>7. \A i \in at : /\ i \in Nat /\ i >= 1
                    /\ i <= Len(H) => i \in DOMAIN H /\ H[i] = n
                    /\ i > Len(H) => i - Len(H) \in DOMAIN V /\ V[i - Len(H)] = n
  <2> TAKE i \in at
  <2>1. /\ i \in Nat /\ i >= 1
        /\ \/ i <= Len(H) /\ st.sent[i] = H[i]
           \/ i > Len(H) /\ i - Len(H) \in DOMAIN V /\ st.sent[i] = V[i - Len(H)]
    BY <1>2, <1>4, SentIsSpread
  <2> QED
    BY <1>6, <2>1
<1>8. \A i, j \in old : i = j
  BY <1>5, <1>7 DEF IsInjective
<1>9. \A i, j \in live : i = j
  <2> SUFFICES ASSUME NEW i \in live, NEW j \in live PROVE i = j
    OBVIOUS
  <2>1. i - Len(H) = j - Len(H)
    BY <1>5, <1>7 DEF IsInjective
  <2> QED
    BY <1>6, <1>7, <2>1
<1>10. at \subseteq old \cup live
  BY <1>6, <1>7
<1>11. ~st.replay => old = {}
  <2>1. ASSUME ~st.replay PROVE Len(H) = 0
    BY <1>4, <2>1 DEF Spread
  <2> QED
    BY <1>7, <2>1
<1> HIDE DEF at, old, live
<1>12. PICK a, b : at \subseteq {a, b} /\ (~st.replay => a = b)
  <2>1. CASE old = {}
    <3>1. CASE live = {}
      BY <1>10, <2>1, <3>1
    <3>2. CASE live # {}
      <4>1. PICK y : y \in live
        BY <3>2
      <4>2. at \subseteq {y, y}
        BY <1>9, <1>10, <2>1, <4>1
      <4> QED
        BY <4>2
    <3> QED
      BY <3>1, <3>2
  <2>2. CASE old # {}
    <3>1. CASE live = {}
      <4>1. PICK x : x \in old
        BY <2>2
      <4>2. at \subseteq {x, x}
        BY <1>8, <1>10, <3>1, <4>1
      <4> QED
        BY <4>2
    <3>2. CASE live # {}
      <4>1. PICK x, y : x \in old /\ y \in live
        BY <2>2, <3>2
      <4>2. at \subseteq {x, y} /\ st.replay
        <5>1. at \subseteq {x, y}
          BY <1>8, <1>9, <1>10, <4>1
        <5>2. st.replay
          BY <1>11, <2>2
        <5> QED
          BY <5>1, <5>2
      <4> QED
        BY <4>2
    <3> QED
      BY <3>1, <3>2
  <2> QED
    BY <2>1, <2>2
<1>13. Cardinality(at) \in Nat /\ Cardinality(at) <= 2 /\ (~st.replay => Cardinality(at) <= 1)
  BY <1>12, TwoAtMost
<1> QED
  BY <1>1, <1>13 DEF at

\* "Subscribe BEFORE loading history to avoid missing live events": once the
\* history is out, every node of the session was sent or waits in the channel,
\* unless the channel overflowed.
THEOREM WatchersMissNothing ==
  ASSUME ~QueryFails
  PROVE  ManagementSpec => []NoNodeMissed
BY NothingMissed, ManagementInvariant, PTL

\* What a stream has sent is a log its observer can replay: parents come first,
\* and a node comes at most once from the history and once live.
THEOREM StreamsCanBeReplayed ==
  ASSUME ~QueryFails
  PROVE  ManagementSpec => []StreamIsReplayable
<1>1. ManagementInv => StreamIsReplayable
  BY ParentsGoFirst, TwiceAtMost DEF StreamIsReplayable
<1> QED
  BY <1>1, ManagementInvariant, PTL

-----------------------------------------------------------------------------
(* ListSessions, page after page *)

\* A list in the order of time.
forward(q) == \A i, j \in DOMAIN q : i < j => stamp[q[i]] <= stamp[q[j]]

\* What a client in the middle of a listing knows: it holds the last session it
\* was given, and what it has yet to be given is later.
PagerInv ==
  pager.pc = "call" =>
    /\ pages = << >> <=> pager.token = NoToken
    /\ \A i \in DOMAIN pages : pages[i] # << >>
    /\ pager.token # NoToken =>
         /\ pager.token \in members
         /\ \A s \in first : \/ s \in ToSet(listed) \cup lost \/ tied(s)
                             \/ stamp[pager.token] < stamp[s]
         /\ lost = {} => \A s \in ToSet(listed) : stamp[s] <= stamp[pager.token]

\* The inductive invariant of a listing.
PagingInv ==
  /\ ListingInv
  /\ IsFiniteSet(members)
  /\ pager.pc = "idle" => pages = << >> /\ lost = {}
  /\ PagerInv

\* A list of sessions, and the list of all its pages.
LEMMA Stamps ==
  ASSUME ListTypeOK
  PROVE  \A s \in SessionID : stamp[s] \in Nat
BY ListAssumption DEF ListTypeOK

\* What sort.Slice leaves: every session it was given once, in the order of time.
LEMMA SortedOnce ==
  ASSUME ListTypeOK, NEW found \in SUBSET SessionID, IsFiniteSet(found),
         NEW q \in sortedByTimestamp(found)
  PROVE  q \in Seq(found) /\ IsInjective(q) /\ ToSet(q) = found /\ forward(q)
<1>1. Cardinality(found) \in Nat
  BY FS_CardinalityType
<1>2. /\ q \in [1..Cardinality(found) -> found]
      /\ \A i, j \in 1..Cardinality(found) : i # j => q[i] # q[j]
      /\ \A i, j \in 1..Cardinality(found) : i < j => stamp[q[i]] <= stamp[q[j]]
  BY DEF sortedByTimestamp, SetToSeqs
<1>3. q \in Seq(found) /\ Len(q) = Cardinality(found) /\ IsInjective(q) /\ forward(q)
  BY <1>1, <1>2 DEF IsInjective, forward
<1> QED
  BY <1>3, InjectiveLength

\* What is behind a position of a list.
LEMMA PieceOf ==
  ASSUME NEW S, NEW q \in Seq(S), NEW k \in 1..Len(q)
  PROVE  /\ SubSeq(q, 1 + k, Len(q)) \in Seq(S)
         /\ Len(SubSeq(q, 1 + k, Len(q))) = Len(q) - k
         /\ \A i \in 1..(Len(q) - k) : SubSeq(q, 1 + k, Len(q))[i] = q[k + i]
OBVIOUS

\* The sessions behind the cursor are all those that are later, and none that is
\* earlier; all sessions when the cursor is not among them.
LEMMA RestOfList ==
  ASSUME ListTypeOK, NEW found \in SUBSET SessionID, NEW q \in Seq(found),
         IsInjective(q), ToSet(q) = found, forward(q), NEW c, NEW rest, rest = afterCursor(q, c)
  PROVE  /\ rest \in Seq(found) /\ IsInjective(rest) /\ forward(rest)
         /\ c \notin found => ToSet(rest) = found
         /\ c \in found => /\ \A s \in ToSet(rest) : s # c /\ stamp[c] <= stamp[s]
                           /\ \A s \in found \ ToSet(rest) : stamp[s] <= stamp[c]
<1>1. CASE c \notin found
  BY <1>1 DEF afterCursor
<1>2. CASE c \in found
  <2>1. PICK k : k = CHOOSE i \in DOMAIN q : q[i] = c
    OBVIOUS
  <2>2. DOMAIN q = 1..Len(q) /\ Len(q) \in Nat /\ \E i \in DOMAIN q : q[i] = c
    BY <1>2 DEF ToSet
  <2>3. k \in 1..Len(q) /\ q[k] = c
    BY <2>1, <2>2
  <2>4. rest = SubSeq(q, 1 + k, Len(q))
    BY <1>2, <2>1 DEF afterCursor
  <2>6. /\ rest \in Seq(found) /\ Len(rest) = Len(q) - k
        /\ \A i \in 1..(Len(q) - k) : rest[i] = q[k + i]
    BY <2>3, <2>4, PieceOf
  <2>7. /\ Len(rest) \in Nat /\ DOMAIN rest = 1..Len(rest)
        /\ \A i \in 1..Len(rest) : rest[i] = q[k + i] /\ k + i \in 1..Len(q)
    BY <2>2, <2>3, <2>6
  <2>8. IsInjective(rest)
    <3>1. ASSUME NEW i \in DOMAIN rest, NEW j \in DOMAIN rest, rest[i] = rest[j] PROVE i = j
      <4>1. q[k + i] = q[k + j] /\ k + i \in DOMAIN q /\ k + j \in DOMAIN q
        BY <2>2, <2>7, <3>1
      <4>2. k + i = k + j
        BY <4>1 DEF IsInjective
      <4> QED
        BY <2>3, <2>7, <4>2
    <3> QED
      BY <3>1 DEF IsInjective
  <2>9. forward(rest)
    <3>1. ASSUME NEW i \in DOMAIN rest, NEW j \in DOMAIN rest, i < j
          PROVE  stamp[rest[i]] <= stamp[rest[j]]
      <4>1. k + i \in DOMAIN q /\ k + j \in DOMAIN q /\ k + i < k + j
        BY <2>2, <2>3, <2>7, <3>1
      <4> QED
        BY <2>7, <4>1 DEF forward
    <3> QED
      BY <3>1 DEF forward
  <2>10. ASSUME NEW s \in ToSet(rest) PROVE s # c /\ stamp[c] <= stamp[s]
    <3>1. PICK i \in 1..Len(rest) : s = rest[i]
      BY <2>7 DEF ToSet
    <3>2. s = q[k + i] /\ k + i \in DOMAIN q /\ k \in DOMAIN q /\ k < k + i /\ k # k + i
      BY <2>2, <2>3, <2>7, <3>1
    <3> QED
      BY <2>3, <3>2 DEF forward, IsInjective
  <2>11. ASSUME NEW s \in found \ ToSet(rest) PROVE stamp[s] <= stamp[c]
    <3>1. PICK i \in 1..Len(q) : s = q[i]
      BY <2>2 DEF ToSet
    <3>2. ~(k < i)
      <4> SUFFICES ASSUME k < i PROVE FALSE
        OBVIOUS
      <4>1. i - k \in 1..Len(rest) /\ k + (i - k) = i
        BY <2>2, <2>3, <2>6, <3>1
      <4>2. rest[i - k] = s
        BY <2>7, <3>1, <4>1
      <4> QED
        BY <2>7, <4>1, <4>2, <2>11 DEF ToSet
    <3>3. i = k \/ i < k
      BY <2>3, <3>1, <3>2
    <3>4. stamp[s] \in Nat
      BY Stamps
    <3> QED
      BY <2>2, <2>3, <3>1, <3>3, <3>4 DEF forward
  <2> QED
    BY <1>2, <2>6, <2>8, <2>9, <2>10, <2>11
<1> QED
  BY <1>1, <1>2

\* A page is the beginning of the rest; its token is its last session, if any more
\* follow it.
LEMMA PageOfRest ==
  ASSUME ListTypeOK, NEW found \in SUBSET SessionID, NEW rest \in Seq(found),
         IsInjective(rest), forward(rest), NEW limit \in Nat \ {0},
         NEW r, r = cut(rest, limit)
  PROVE  /\ r.page \in Seq(found) /\ Len(r.page) <= limit
         /\ IsInjective(r.page) /\ forward(r.page) /\ ToSet(r.page) \subseteq ToSet(rest)
         /\ r.next = NoToken => r.page = rest
         /\ r.next # NoToken =>
              /\ r.page # << >> /\ r.next \in ToSet(r.page)
              /\ \A s \in ToSet(r.page) : stamp[s] <= stamp[r.next]
              /\ \A s \in ToSet(rest) \ ToSet(r.page) : stamp[r.next] <= stamp[s]
<1>1. DOMAIN rest = 1..Len(rest) /\ Len(rest) \in Nat
  OBVIOUS
<1>2. CASE ~(Len(rest) > limit)
  <2>1. r.page = rest /\ r.next = NoToken
    BY <1>2 DEF cut
  <2> QED
    BY <1>1, <1>2, <2>1
<1>3. CASE Len(rest) > limit
  <2>1. PICK page : page = SubSeq(rest, 1, limit)
    OBVIOUS
  <2>2. r.page = page /\ r.next = rest[limit]
    BY <1>3, <2>1 DEF cut
  <2>3. /\ page \in Seq(found) /\ Len(page) = limit /\ DOMAIN page = 1..limit
        /\ \A i \in 1..limit : page[i] = rest[i] /\ i \in 1..Len(rest)
    BY <1>1, <1>3, <2>1
  <2>4. IsInjective(page) /\ forward(page)
    BY <1>1, <2>3 DEF IsInjective, forward
  <2>5. limit \in 1..limit /\ page[limit] = rest[limit] /\ rest[limit] \in found
    BY <1>1, <1>3, <2>3
  <2>6. r.next \in ToSet(page) /\ page # << >> /\ r.next # NoToken
    BY <2>2, <2>3, <2>5, ListAssumption DEF ToSet
  <2>7. ToSet(page) \subseteq ToSet(rest)
    BY <1>1, <2>3 DEF ToSet
  <2>8. ASSUME NEW s \in ToSet(page) PROVE stamp[s] <= stamp[r.next]
    <3>1. PICK i \in 1..limit : s = rest[i] /\ i \in DOMAIN rest
      BY <1>1, <2>3 DEF ToSet
    <3>2. i < limit \/ i = limit
      BY <3>1
    <3>3. stamp[r.next] \in Nat
      BY <2>2, <2>5, Stamps
    <3> QED
      BY <1>1, <2>2, <2>3, <2>5, <3>1, <3>2, <3>3 DEF forward
  <2>9. ASSUME NEW s \in ToSet(rest) \ ToSet(page) PROVE stamp[r.next] <= stamp[s]
    <3>1. PICK i \in 1..Len(rest) : s = rest[i]
      BY <1>1 DEF ToSet
    <3>2. i \notin 1..limit
      BY <2>3, <3>1, <2>9 DEF ToSet
    <3>3. limit < i /\ limit \in DOMAIN rest
      BY <1>1, <1>3, <3>1, <3>2
    <3> QED
      BY <1>1, <2>2, <3>1, <3>3 DEF forward
  <2> QED
    BY <1>3, <2>2, <2>3, <2>4, <2>6, <2>7, <2>8, <2>9
<1> QED
  BY <1>2, <1>3

\* The pages so far are one list.
LEMMA ListedPages ==
  ASSUME ListTypeOK
  PROVE  /\ listed \in Seq(SessionID)
         /\ pages = << >> => listed = << >>
         /\ \A page \in Seq(SessionID) :
              pages' = Append(pages, page) => listed' = listed \o page
<1>1. pages \in Seq(Seq(SessionID))
  <2>1. Seq(members) \subseteq Seq(SessionID)
    BY SeqSubset DEF ListTypeOK
  <2> QED
    BY <2>1, SeqSubset DEF ListTypeOK
<1>2. PICK seqs : seqs = pages
  OBVIOUS
<1>3. << >> \in Seq(SessionID) /\ seqs \in Seq(Seq(SessionID))
  BY <1>1, <1>2
<1>4. FlattenSeq(seqs) \in Seq(SessionID) /\ FlattenSeq(<< >>) = << >>
  BY <1>3, FlattenAppend
<1>5. \A page \in Seq(SessionID) : FlattenSeq(Append(seqs, page)) = FlattenSeq(seqs) \o page
  BY <1>3, FlattenAppend
<1> QED
  BY <1>2, <1>4, <1>5 DEF listed

\* A call keeps the invariant.
LEMMA ListSessionsStep ==
  ASSUME PagingInv, NEW missed, ListSessions(missed)
  PROVE  PagingInv'
<1>1. /\ pager.pc = "call" /\ missed \subseteq members /\ lost' = lost \cup missed
      /\ Cardinality(lost') <= MaxFailures /\ UNCHANGED <<stamp, members, first>>
  BY DEF ListSessions
<1>2. ListTypeOK /\ NoneSkipped /\ PagesGoForward /\ IsFiniteSet(members) /\ PagerInv
  BY DEF PagingInv, ListingInv
<1>3. PICK token \in SessionID \cup {NoToken}, limit \in Limit :
        pager = [pc |-> "call", token |-> token, limit |-> limit]
  BY <1>1, <1>2 DEF ListTypeOK
<1>4. pager.token = token /\ pager.limit = limit
  BY <1>3
<1>5. PICK found : found = members \ missed
  OBVIOUS
<1>6. found \in SUBSET SessionID /\ found \subseteq members /\ IsFiniteSet(found)
  BY <1>2, <1>5, FS_Subset DEF ListTypeOK
<1>7. PICK most : most = IF limit = 0 THEN defaultLimit ELSE limit
  OBVIOUS
<1>8. most \in Nat \ {0}
  BY <1>7, ListAssumption
<1>9. PICK r \in listing(found, token, limit) :
        /\ pages' = Append(pages, r.page)
        /\ pager' = IF r.next = NoToken THEN [pc |-> "done", limit |-> pager.limit]
                    ELSE [pager EXCEPT !.token = r.next]
  BY <1>4, <1>5 DEF ListSessions
<1>10. PICK q \in sortedByTimestamp(found) : r = cut(afterCursor(q, token), most)
  BY <1>7, <1>9 DEF listing
<1>11. PICK rest : rest = afterCursor(q, token)
  OBVIOUS
<1>12. q \in Seq(found) /\ IsInjective(q) /\ ToSet(q) = found /\ forward(q)
  BY <1>2, <1>6, SortedOnce
<1>13. /\ rest \in Seq(found) /\ IsInjective(rest) /\ forward(rest)
       /\ token \notin found => ToSet(rest) = found
       /\ token \in found => /\ \A s \in ToSet(rest) : s # token /\ stamp[token] <= stamp[s]
                             /\ \A s \in found \ ToSet(rest) : stamp[s] <= stamp[token]
  BY <1>2, <1>6, <1>11, <1>12, RestOfList
<1>14. /\ r.page \in Seq(found) /\ Len(r.page) <= most
       /\ IsInjective(r.page) /\ forward(r.page) /\ ToSet(r.page) \subseteq ToSet(rest)
       /\ r.next = NoToken => r.page = rest
       /\ r.next # NoToken =>
            /\ r.page # << >> /\ r.next \in ToSet(r.page)
            /\ \A s \in ToSet(r.page) : stamp[s] <= stamp[r.next]
            /\ \A s \in ToSet(rest) \ ToSet(r.page) : stamp[r.next] <= stamp[s]
  BY <1>2, <1>6, <1>8, <1>10, <1>11, <1>13, PageOfRest
<1>15. PICK page, next : page = r.page /\ next = r.next
  OBVIOUS
<1>16. /\ page \in Seq(SessionID) /\ page \in Seq(members) /\ DOMAIN page = 1..Len(page)
       /\ Len(page) \in Nat /\ ToSet(page) \subseteq ToSet(rest) /\ ToSet(rest) \subseteq found
  <2>1. page \in Seq(found) /\ Seq(found) \subseteq Seq(SessionID) /\ Seq(found) \subseteq Seq(members)
    BY <1>6, <1>14, <1>15, SeqSubset
  <2> QED
    BY <1>13, <1>14, <1>15, <2>1, ToSetMember
<1>17. PICK old : old = listed
  OBVIOUS
<1>18. old \in Seq(SessionID) /\ listed' = old \o page /\ (pages = << >> => old = << >>)
  BY <1>2, <1>9, <1>15, <1>16, <1>17, ListedPages
<1>19. /\ ToSet(listed') = ToSet(old) \cup ToSet(page)
       /\ DOMAIN listed' = 1..(Len(old) + Len(page)) /\ DOMAIN old = 1..Len(old) /\ Len(old) \in Nat
       /\ \A i \in 1..Len(old) : listed'[i] = old[i]
       /\ \A i \in (Len(old) + 1)..(Len(old) + Len(page)) : listed'[i] = page[i - Len(old)]
  BY <1>16, <1>18, ConcatToSet, ConcatPositions
<1>20. \A s \in SessionID : stamp[s] \in Nat /\ (tied(s)' <=> tied(s))
  BY <1>1, <1>2, Stamps DEF tied
<1>21. /\ pages = << >> <=> token = NoToken
       /\ \A i \in DOMAIN pages : pages[i] # << >>
       /\ token # NoToken =>
            /\ token \in members
            /\ \A s \in first : s \in ToSet(old) \cup lost \/ tied(s) \/ stamp[token] < stamp[s]
            /\ lost = {} => \A s \in ToSet(old) : stamp[s] <= stamp[token]
  BY <1>1, <1>2, <1>4, <1>17 DEF PagerInv
<1>22. first \subseteq members /\ first \subseteq SessionID
  BY <1>2 DEF ListTypeOK
\* What is not behind the cursor was listed before.
<1>23. ASSUME NEW s \in first PROVE s \in ToSet(old) \cup lost' \cup ToSet(rest) \/ tied(s)
  <2> SUFFICES ASSUME s \notin ToSet(old) \cup lost', ~tied(s) PROVE s \in ToSet(rest)
    OBVIOUS
  <2>1. s \in found /\ s \notin lost
    BY <1>1, <1>5, <1>22
  <2>2. CASE token \notin found
    BY <1>13, <2>1, <2>2
  <2>3. CASE token \in found
    <3>1. stamp[token] < stamp[s]
      BY <1>6, <1>21, <2>1, <2>3, ListAssumption
    <3>2. stamp[token] \in Nat /\ stamp[s] \in Nat
      BY <1>6, <1>20, <2>1, <2>3
    <3> QED
      BY <1>13, <2>1, <2>3, <3>1, <3>2
  <2> QED
    BY <2>2, <2>3
\* Without a failed query, what comes now is later than what came before.
<1>24. ASSUME lost' = {}, NEW s \in ToSet(old)
       PROVE  /\ token \in found /\ s \in SessionID /\ stamp[s] <= stamp[token]
              /\ \A t \in ToSet(rest) : stamp[token] <= stamp[t] /\ t # token
  <2>1. missed = {} /\ lost = {} /\ found = members
    BY <1>1, <1>5, <1>24
  <2>2. old # << >> /\ s \in SessionID
    BY <1>18, <1>24, ToSetMember
  <2>3. token # NoToken
    BY <1>18, <1>21, <2>2
  <2> QED
    BY <1>13, <1>21, <1>24, <2>1, <2>2, <2>3
<1>25. IF next = NoToken THEN pager' = [pc |-> "done", limit |-> limit]
       ELSE pager' = [pc |-> "call", token |-> next, limit |-> limit]
  BY <1>3, <1>9, <1>15
<1>26. pager'.limit = limit /\ (pager'.pc = "done" \/ pager'.pc = "call") /\ pager'.pc # "idle"
       /\ (pager'.pc = "done" <=> next = NoToken) /\ (pager'.pc = "call" => pager'.token = next)
  BY <1>25
<1>27. next # NoToken => next \in found /\ next \in SessionID
  BY <1>6, <1>14, <1>15, <1>16
<1>28. /\ pages' = Append(pages, page) /\ pages \in Seq(Seq(members)) /\ pages' \in Seq(Seq(members))
       /\ DOMAIN pages' = 1..(Len(pages) + 1) /\ DOMAIN pages = 1..Len(pages) /\ Len(pages) \in Nat
       /\ pages'[Len(pages) + 1] = page /\ \A i \in 1..Len(pages) : pages'[i] = pages[i]
       /\ pages' # << >>
  <2>1. pages' = Append(pages, page) /\ pages \in Seq(Seq(members))
    BY <1>2, <1>9, <1>15 DEF ListTypeOK
  <2> QED
    BY <1>16, <2>1, AppendPositions
<1>29. ListTypeOK'
  <2>1. pager' \in [pc : {"idle"}] \cup [pc : {"done", "failed"}, limit : Limit]
          \cup [pc : {"call"}, token : SessionID \cup {NoToken}, limit : Limit]
    BY <1>25, <1>27
  <2>2. \A i \in DOMAIN pages' :
          Len(pages'[i]) <= IF pager'.limit = 0 THEN defaultLimit ELSE pager'.limit
    <3>1. ASSUME NEW i \in 1..Len(pages) PROVE Len(pages'[i]) <= most
      <4>1. \A j \in DOMAIN pages : Len(pages[j]) <= most
        BY <1>2, <1>4, <1>7 DEF ListTypeOK
      <4> QED
        BY <1>28, <4>1
    <3>2. Len(pages'[Len(pages) + 1]) <= most
      BY <1>14, <1>15, <1>28
    <3>3. \A i \in DOMAIN pages' : i \in 1..Len(pages) \/ i = Len(pages) + 1
      BY <1>28
    <3> QED
      BY <1>7, <1>26, <3>1, <3>2, <3>3
  <2>3. stamp' \in [SessionID -> Time] /\ members' \subseteq SessionID /\ first' \subseteq members'
        /\ pages' \in Seq(Seq(members')) /\ lost' \subseteq members'
    BY <1>1, <1>2, <1>28 DEF ListTypeOK
  <2> QED
    BY <1>1, <2>1, <2>2, <2>3 DEF ListTypeOK
<1>30. NoneSkipped'
  <2> SUFFICES ASSUME pager'.pc = "done", NEW s \in first'
               PROVE  s \in ToSet(listed') \cup lost' \/ tied(s)'
    BY Zenon DEF NoneSkipped
  <2>1. page = rest
    BY <1>14, <1>15, <1>26
  <2>2. s \in first /\ s \in SessionID
    BY <1>1, <1>22
  <2> QED
    BY <1>19, <1>20, <1>23, <2>1, <2>2
<1>31. ASSUME lost' = {}, NEW i \in DOMAIN listed', NEW j \in DOMAIN listed', i < j
       PROVE  \/ stamp[listed'[i]] < stamp[listed'[j]]
              \/ stamp[listed'[i]] = stamp[listed'[j]] /\ tied(listed'[i])
  <2>1. PICK x, y : x = listed'[i] /\ y = listed'[j]
    OBVIOUS
  <2>2. CASE j \in 1..Len(old)
    <3>1. i \in DOMAIN old /\ j \in DOMAIN old /\ x = old[i] /\ y = old[j]
      BY <1>19, <1>31, <2>1, <2>2
    <3>2. lost = {}
      BY <1>1, <1>31
    <3> QED
      BY <1>2, <1>17, <1>31, <2>1, <3>1, <3>2 DEF PagesGoForward
  <2>3. CASE i \notin 1..Len(old)
    <3>1. PICK a, b : a = i - Len(old) /\ b = j - Len(old)
      OBVIOUS
    <3>2. a \in DOMAIN page /\ b \in DOMAIN page /\ a < b /\ a # b /\ x = page[a] /\ y = page[b]
      BY <1>16, <1>19, <1>31, <2>1, <2>3, <3>1
    <3>3. stamp[x] <= stamp[y] /\ x # y
      BY <1>14, <1>15, <3>2 DEF forward, IsInjective
    <3>4. x \in SessionID /\ y \in SessionID
      BY <1>16, <3>2
    <3>5. stamp[x] \in Nat /\ stamp[y] \in Nat
      BY <1>20, <3>4
    <3>6. stamp[x] = stamp[y] => tied(x)
      BY <3>3, <3>4 DEF tied
    <3> QED
      BY <2>1, <3>3, <3>5, <3>6
  <2>4. CASE i \in 1..Len(old) /\ j \notin 1..Len(old)
    <3>1. PICK b : b = j - Len(old)
      OBVIOUS
    <3>2. b \in DOMAIN page /\ y = page[b] /\ i \in DOMAIN old /\ x = old[i]
      BY <1>16, <1>19, <1>31, <2>1, <2>4, <3>1
    <3>3. x \in ToSet(old) /\ y \in ToSet(rest) /\ y \in SessionID
      BY <1>6, <1>16, <3>2 DEF ToSet
    <3>4. token \in found /\ x \in SessionID /\ stamp[x] <= stamp[token]
          /\ stamp[token] <= stamp[y] /\ y # token
      BY <1>24, <1>31, <3>3
    <3>5. stamp[x] \in Nat /\ stamp[y] \in Nat /\ stamp[token] \in Nat /\ token \in SessionID
      BY <1>6, <1>20, <3>3, <3>4
    <3>6. stamp[x] = stamp[y] => stamp[x] = stamp[token]
      BY <3>4, <3>5
    <3>7. stamp[x] = stamp[y] => tied(x)
      BY <3>3, <3>4, <3>5, <3>6 DEF tied
    <3> QED
      BY <2>1, <3>4, <3>5, <3>7
  <2>5. i \in 1..Len(old) \/ i \notin 1..Len(old)
    OBVIOUS
  <2> QED
    BY <2>2, <2>3, <2>4, <2>5
<1>32. ASSUME next # NoToken, NEW i \in DOMAIN pages' PROVE pages'[i] # << >>
  <2>1. page # << >>
    BY <1>14, <1>15, <1>32
  <2>2. i \in 1..Len(pages) \/ i = Len(pages) + 1
    BY <1>28
  <2> QED
    BY <1>21, <1>28, <2>1, <2>2
<1>33. PagesGoForward'
  <2>1. ASSUME lost' = {}, NEW i \in DOMAIN listed', NEW j \in DOMAIN listed', i < j
        PROVE  \/ stamp'[listed'[i]] < stamp'[listed'[j]]
               \/ stamp'[listed'[i]] = stamp'[listed'[j]] /\ tied(listed[i])'
    <3>1. tied(listed[i])' <=> tied(listed'[i])
      BY <1>1 DEF tied
    <3> QED
      BY <1>1, <1>31, <2>1, <3>1
  <2>2. pager'.pc = "call" => \A i \in DOMAIN pages' : pages'[i] # << >>
    BY <1>26, <1>32
  <2> QED
    BY <2>1, <2>2, Zenon DEF PagesGoForward
<1>34. ASSUME next # NoToken, NEW s \in first
       PROVE  s \in ToSet(listed') \cup lost' \/ tied(s) \/ stamp[next] < stamp[s]
  <2> SUFFICES ASSUME s \notin ToSet(listed') \cup lost', ~tied(s) PROVE stamp[next] < stamp[s]
    OBVIOUS
  <2>1. s \in ToSet(rest) \ ToSet(page)
    BY <1>19, <1>23
  <2>2. stamp[next] <= stamp[s] /\ next \in ToSet(page)
    BY <1>14, <1>15, <1>34, <2>1
  <2>3. s # next /\ s \in SessionID /\ next \in SessionID
    BY <1>22, <1>27, <1>34, <2>1, <2>2
  <2>4. stamp[s] # stamp[next]
    BY <2>3 DEF tied
  <2> QED
    BY <1>20, <2>2, <2>3, <2>4
<1>35. ASSUME next # NoToken, lost' = {}, NEW s \in ToSet(listed')
       PROVE  stamp[s] <= stamp[next]
  <2>1. CASE s \in ToSet(page)
    BY <1>14, <1>15, <1>35, <2>1
  <2>2. CASE s \in ToSet(old)
    <3>1. next \in ToSet(rest)
      BY <1>14, <1>15, <1>35
    <3>2. s \in SessionID /\ token \in SessionID /\ stamp[s] <= stamp[token] /\ stamp[token] <= stamp[next]
      BY <1>6, <1>24, <1>35, <2>2, <3>1
    <3> QED
      BY <1>20, <1>27, <1>35, <3>2
  <2> QED
    BY <1>19, <1>35, <2>1, <2>2
<1>36. PagerInv'
  <2> SUFFICES ASSUME pager'.pc = "call"
               PROVE  /\ pages' = << >> <=> pager'.token = NoToken
                      /\ \A i \in DOMAIN pages' : pages'[i] # << >>
                      /\ pager'.token # NoToken =>
                           /\ pager'.token \in members'
                           /\ \A s \in first' : \/ s \in ToSet(listed') \cup lost' \/ tied(s)'
                                                \/ stamp'[pager'.token] < stamp'[s]
                           /\ lost' = {} => \A s \in ToSet(listed') : stamp'[s] <= stamp'[pager'.token]
    BY Zenon DEF PagerInv
  <2>1. next # NoToken /\ pager'.token = next
    BY <1>26
  <2>2. \A s \in first' : \/ s \in ToSet(listed') \cup lost' \/ tied(s)'
                          \/ stamp'[next] < stamp'[s]
    BY <1>1, <1>20, <1>22, <1>34, <2>1
  <2> QED
    BY <1>1, <1>6, <1>27, <1>28, <1>32, <1>35, <2>1, <2>2
<1> QED
  BY <1>1, <1>2, <1>26, <1>29, <1>30, <1>33, <1>36 DEF PagingInv, ListingInv

\* Before the first call.
LEMMA PagingInit ==
  ASSUME ListInit
  PROVE  PagingInv
<1>1. /\ stamp \in [SessionID -> Time] /\ members = {} /\ pager = [pc |-> "idle"] /\ pages = << >>
      /\ first = {} /\ lost = {}
  BY DEF ListInit
<1>2. pages \in Seq(Seq(members)) /\ DOMAIN pages = {} /\ pager.pc = "idle"
  BY <1>1
<1>3. IsFiniteSet(members) /\ Cardinality(lost) = 0
  BY <1>1, FS_EmptySet
<1>4. ListTypeOK
  <2>1. Cardinality(lost) <= MaxFailures
    BY <1>3, ListAssumption
  <2> QED
    BY <1>1, <1>2, <2>1 DEF ListTypeOK
<1>5. listed = << >> /\ DOMAIN listed = {}
  BY <1>1, <1>4, ListedPages
<1> QED
  BY <1>1, <1>2, <1>3, <1>4, <1>5
     DEF PagingInv, ListingInv, NoneSkipped, PagesGoForward, PagerInv

\* A session more changes nothing for the listing in progress.
LEMMA NewSessionStep ==
  ASSUME PagingInv, NEW s \in SessionID, NewSession(s)
  PROVE  PagingInv'
<1>1. members' = members \cup {s} /\ UNCHANGED <<stamp, pager, pages, first, lost>>
  BY DEF NewSession
<1>2. ListTypeOK /\ NoneSkipped /\ PagesGoForward /\ IsFiniteSet(members) /\ PagerInv
  BY DEF PagingInv, ListingInv
<1>3. IsFiniteSet(members')
  BY <1>1, <1>2, FS_AddElement
<1>4. pages \in Seq(Seq(members'))
  <2>1. Seq(members) \subseteq Seq(members')
    BY <1>1, SeqSubset
  <2> QED
    BY <1>2, <2>1, SeqSubset DEF ListTypeOK
<1>5. ListTypeOK'
  BY <1>1, <1>2, <1>4 DEF ListTypeOK
<1>6. NoneSkipped' /\ PagesGoForward'
  BY <1>1, <1>2 DEF NoneSkipped, PagesGoForward, listed, tied
<1>7. PagerInv'
  BY <1>1, <1>2 DEF PagerInv, listed, tied
<1> QED
  BY <1>1, <1>3, <1>5, <1>6, <1>7 DEF PagingInv, ListingInv

\* The client asks for the first page.
LEMMA BeginStep ==
  ASSUME PagingInv, NEW limit \in Limit, Begin(limit)
  PROVE  PagingInv'
<1>1. /\ pager.pc = "idle" /\ pager' = [pc |-> "call", token |-> NoToken, limit |-> limit]
      /\ first' = members /\ UNCHANGED <<stamp, members, pages, lost>>
  BY DEF Begin
<1>2. ListTypeOK /\ IsFiniteSet(members) /\ pages = << >> /\ lost = {}
  BY <1>1 DEF PagingInv, ListingInv
<1>3. pages' = << >> /\ DOMAIN pages' = {} /\ pager'.pc = "call" /\ pager'.token = NoToken
  BY <1>1, <1>2
<1>4. listed = << >> /\ listed' = listed /\ DOMAIN listed' = {}
  BY <1>1, <1>2, ListedPages DEF listed
<1>5. ListTypeOK'
  BY <1>1, <1>2, <1>3 DEF ListTypeOK
<1>6. NoneSkipped' /\ PagesGoForward' /\ PagerInv'
  BY <1>3, <1>4 DEF NoneSkipped, PagesGoForward, PagerInv
<1> QED
  BY <1>1, <1>2, <1>3, <1>5, <1>6 DEF PagingInv, ListingInv

\* The client stops.
LEMMA ListSessionsFailsStep ==
  ASSUME PagingInv, ListSessionsFails
  PROVE  PagingInv'
<1>1. /\ pager.pc = "call" /\ pager' = [pc |-> "failed", limit |-> pager.limit]
      /\ UNCHANGED <<stamp, members, pages, first, lost>>
  BY DEF ListSessionsFails
<1>2. ListTypeOK /\ PagesGoForward /\ IsFiniteSet(members)
  BY DEF PagingInv, ListingInv
<1>3. pager'.pc = "failed" /\ pager'.limit = pager.limit /\ pager.limit \in Limit
  BY <1>1, <1>2 DEF ListTypeOK
<1>4. ListTypeOK'
  BY <1>1, <1>2, <1>3 DEF ListTypeOK
<1>5. NoneSkipped' /\ PagesGoForward' /\ PagerInv'
  BY <1>1, <1>2, <1>3 DEF NoneSkipped, PagesGoForward, PagerInv, listed, tied
<1> QED
  BY <1>1, <1>2, <1>3, <1>4, <1>5 DEF PagingInv, ListingInv

\* Paging to the end of ListSessions leaves out no session that was there at the
\* start, but for one that could not be read or that shares its timestamp, and goes
\* forward in time: with any number of sessions created meanwhile.
THEOREM ListingIsComplete == ListSpec => []ListingInv
<1>1. ListInit => PagingInv
  BY PagingInit
<1>2. PagingInv /\ [ListNext]_listVars => PagingInv'
  <2> SUFFICES ASSUME PagingInv, [ListNext]_listVars PROVE PagingInv'
    OBVIOUS
  <2>1. ASSUME NEW s \in SessionID, NewSession(s) PROVE PagingInv'
    BY <2>1, NewSessionStep
  <2>2. ASSUME NEW limit \in Limit, Begin(limit) PROVE PagingInv'
    BY <2>2, BeginStep
  <2>3. ASSUME NEW missed \in SUBSET members, ListSessions(missed) PROVE PagingInv'
    <3>1. PICK m : m = missed
      OBVIOUS
    <3> QED
      BY <2>3, <3>1, ListSessionsStep
  <2>4. CASE ListSessionsFails
    BY <2>4, ListSessionsFailsStep
  <2>5. CASE UNCHANGED listVars
    BY <2>5 DEF listVars, PagingInv, ListingInv, ListTypeOK, NoneSkipped, PagesGoForward, PagerInv,
                listed, tied
  <2> QED
    BY <2>1, <2>2, <2>3, <2>4, <2>5 DEF ListNext
<1>3. PagingInv => ListingInv
  BY DEF PagingInv
<1> QED
  BY <1>1, <1>2, <1>3, PTL DEF ListSpec

=============================================================================
