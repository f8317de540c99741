-------------------------- MODULE MathHarnessProofs --------------------------
(***************************************************************************)
(* What sgpd keeps for sgp-harness-math is faithful, has one head, and     *)
(* holds what was acknowledged, for every number of processes, starts,     *)
(* turns and lost connections.                                             *)
(* A session taken up again is whole, and so is every conversation sent    *)
(* to the model.                                                           *)
(*                                                                         *)
(* The argument: one process at a time is at work; it sends one request    *)
(* per node; and it appends only below a node that is stored or was        *)
(* reported to have failed.  So no node is requested twice, only the first *)
(* node can be applied to a session without a head, and the nodes that are *)
(* stored or reported are closed under parents.                            *)
(***************************************************************************)
EXTENDS MathHarness, HarnessLoopProofs

-----------------------------------------------------------------------------
(* The inductive invariant *)

\* The nodes the harness makes: only a batch has calls, only a batch and a result
\* have a call ID, and a parent is an earlier node.
NodeHolds(m, n) ==
  /\ m[n] \in Node /\ m[n].parent < n
  /\ (m[n].role = "calls") <=> (m[n].calls # << >>)
  /\ m[n].role \notin {"calls", "tool"} => m[n].seq = 0
  /\ m[n].role # "tool" => m[n].call = 0

\* The requests there are: for the session, for each node, and for its end.
startEvent == EventToProto([node |-> << >>, reason |-> "", terminal |-> NoID])
nodeEvent(m, n) == EventToProto([node |-> <<n, m[n]>>, reason |-> "", terminal |-> NoID])
endEvent(t) == EventToProto([node |-> << >>, reason |-> "complete", terminal |-> t])

\* A process at work: its head is stored or was reported to have failed, unless it
\* is being written, and its batch is the one its stage is about.  m are the nodes
\* made, S those stored, F those reported.
WorkHolds(h, m, S, F) ==
  /\ h.head <= Len(m) /\ h.batch <= Len(m)
  /\ h.pc # "write" => h.head \in {NoID} \cup S \cup F
  /\ h.pc \in {"tools", "spawn", "write"} => h.head # NoID
  /\ h.head # NoID /\ (h.pc = "write" => h.head # 1) => 1 \in S
  /\ h.pc = "write" /\ h.head = 1 => h.arriving
  /\ stage(h) \in {"arrival", "tools", "spawn"} => h.batch # NoID
  /\ stage(h) \in {"tools", "spawn"} => h.step < maxToolSteps
  /\ stage(h) = "spawn" => "teleport" \in ToSet(m[h.batch].calls)
  /\ stage(h) = "arrive" =>
       \A n \in h.graph : n \in DOMAIN m /\ m[n].parent \in {NoID} \cup h.graph

\* A handler of event e that has read o.
Handler(e, o) ==
  [client : Process \cup {Nobody}, event : {e},
   pc : {"sent", "node.appended", "session.start", "session.ended", "ok", "error"}, old : {o}]

\* A handler: its event is one of the requests, and what it has read is what it
\* will delete.  A node is stored once its handler has applied it and not before.
CallHolds(c, m, S, status) ==
  /\ c \in Handler(c.event, c.old)
  /\ \/ /\ c.event = startEvent /\ c.old = {}
        /\ c.pc \in {"sent", "session.start", "ok"}
        /\ c.pc = "ok" => status # {}
     \/ /\ \E t \in 0..Len(m) : c.event = endEvent(t)
        /\ c.old \subseteq {"open", "closed"}
        /\ c.pc \in {"sent", "session.ended", "ok"}
     \/ \E n \in DOMAIN m :
          /\ c.event = nodeEvent(m, n) /\ c.old \subseteq S
          /\ c.pc \in {"sent", "node.appended", "ok", "error"}
          /\ c.pc \in {"sent", "node.appended"} => n \notin S
          /\ c.pc = "ok" => n \in S
          /\ c.pc = "node.appended" /\ n # 1 => c.old # {}

\* The call a process waits for is the one its control state has made.
Expects(h, event, m) ==
  \/ h.pc = "create" /\ event = startEvent
  \/ h.pc = "write" /\ event = nodeEvent(m, h.head)
  \/ h.pc = "close" /\ event = endEvent(h.head)

\* The node a call is about, if any.
isAbout(c, n) == c.event.node # << >> /\ c.event.node[1].id = n

ServerHolds ==
  /\ session \in [status : SUBSET {"open", "closed"}, head : SUBSET DOMAIN stored,
                  end_node : SUBSET (0..Len(made))]
  /\ DOMAIN stored \subseteq DOMAIN made
  /\ \A n \in DOMAIN stored : stored[n] = made[n]
  /\ \A a, b \in session.head : a = b
  /\ DOMAIN stored # {} => session.head # {} /\ 1 \in DOMAIN stored
  /\ made # << >> => session.status # {}
  /\ Len(made) > 1 => 1 \in DOMAIN stored
  /\ acked \subseteq DOMAIN stored /\ failed \subseteq DOMAIN made

NodesHold ==
  \A n \in DOMAIN made :
    /\ NodeHolds(made, n)
    /\ made[n].parent \in {NoID} \cup DOMAIN stored \cup failed

ProcessesHold ==
  /\ \A p \in Process : proc[p].pc = "create" => made = << >>
  /\ \A p \in Process : proc[p] \in Running => WorkHolds(proc[p], made, DOMAIN stored, failed)
  /\ \A p, q \in Process :
       proc[p].pc \notin {"off", "teleported"} /\ proc[q].pc \notin {"off", "teleported"} => p = q

CallsHold ==
  /\ \A c \in calls : CallHolds(c, made, DOMAIN stored, session.status)
  /\ \A c \in calls : c.client # Nobody => Expects(proc[c.client], c.event, made)
  /\ \A c, d \in calls : c.client = d.client /\ c.client # Nobody => c = d
  /\ \A c, d \in calls : \A n \in DOMAIN made : isAbout(c, n) /\ isAbout(d, n) => c = d
  /\ \A p \in Process : writing(p) /\ waiting(p) = {} =>
       /\ proc[p].head \notin DOMAIN stored
       /\ \A c \in calls : ~isAbout(c, proc[p].head)

MathInv ==
  /\ LoopTypeOK
  /\ starts \in 0..MaxStarts /\ lost \in 0..MaxLost
  /\ ServerHolds
  /\ NodesHold
  /\ ProcessesHold
  /\ CallsHold

-----------------------------------------------------------------------------
(* The wire: what EventToProto does to the three requests *)

\* A message survives the wire, although an assistant message without calls and a
\* batch share a subtype and call IDs are kept with the calls only.
LEMMA NodeSurvives ==
  ASSUME NEW m, NEW n, NodeHolds(m, n)
  PROVE  NodeFromProto(NodeToProto(n, m[n])) = m[n]
<1> PICK x \in Node : x = m[n]
  BY DEF NodeHolds
<1> DEFINE pb == MessageToProto(x)
           b == MessageFromProto(pb)
<1>1. /\ x.role \in {"system", "user", "assistant", "calls", "tool"}
      /\ x.calls \in Seq({"tool", "teleport"}) /\ x.seq \in Nat /\ x.call \in Nat /\ x.parent \in Nat
      /\ x = [parent |-> x.parent, role |-> x.role, calls |-> x.calls, seq |-> x.seq, call |-> x.call]
  BY LoopAssumption DEF Node
<1>2. /\ (x.role = "calls") <=> (x.calls # << >>)
      /\ x.role \notin {"calls", "tool"} => x.seq = 0
      /\ x.role # "tool" => x.call = 0
  BY DEF NodeHolds
<1>3. b.role = x.role /\ b.calls = x.calls /\ b.seq = x.seq /\ b.call = x.call
  <2>1. CASE x.role \in {"system", "user"}
    <3>1. pb = [subtype |-> x.role]
      BY <2>1 DEF MessageToProto
    <3>2. b = [role |-> x.role, calls |-> << >>, seq |-> 0, call |-> 0]
      BY <3>1, <2>1 DEF MessageFromProto
    <3> QED
      BY <3>2, <2>1, <1>2
  <2>2. CASE x.role = "tool"
    <3>1. pb = [subtype |-> "tool", tool_call_id |-> <<x.seq, x.call>>]
      BY <2>2 DEF MessageToProto
    <3>2. b = [role |-> "tool", calls |-> << >>, seq |-> x.seq, call |-> x.call]
      BY <3>1, <1>1 DEF MessageFromProto
    <3> QED
      BY <3>2, <2>2, <1>2
  <2>3. CASE x.role \in {"assistant", "calls"}
    <3> DEFINE tc == [i \in DOMAIN x.calls |-> [id |-> <<x.seq, i>>, name |-> x.calls[i]]]
    <3>1. pb = [subtype |-> "assistant", tool_calls |-> tc]
      BY <2>3 DEF MessageToProto
    <3>2. DOMAIN tc = DOMAIN x.calls /\ \A i \in DOMAIN tc : tc[i].name = x.calls[i] /\ tc[i].id[1] = x.seq
      OBVIOUS
    <3>3. DOMAIN x.calls = 1..Len(x.calls) /\ Len(x.calls) \in Nat
      BY <1>1
    <3>4. tc = << >> <=> x.calls = << >>
      BY <3>2, <3>3, <1>1
    <3>5. x.calls # << >> => 1 \in DOMAIN x.calls
      BY <3>3, <1>1
    <3>6. x.calls = [i \in DOMAIN x.calls |-> x.calls[i]]
      BY <1>1
    <3> HIDE DEF tc
    <3>7. pb.subtype = "assistant" /\ pb.tool_calls = tc
      BY <3>1
    <3> HIDE DEF pb
    <3>8. b = [role |-> IF tc = << >> THEN "assistant" ELSE "calls",
               calls |-> [i \in DOMAIN tc |-> tc[i].name],
               seq |-> IF tc = << >> THEN 0 ELSE tc[1].id[1], call |-> 0]
      BY <3>7 DEF MessageFromProto
    <3>9. b.role = IF tc = << >> THEN "assistant" ELSE "calls"
      BY <3>8
    <3>10. b.calls = x.calls /\ b.call = 0
      BY <3>8, <3>6, <3>2
    <3>11. b.seq = IF tc = << >> THEN 0 ELSE tc[1].id[1]
      BY <3>8
    <3>12. tc # << >> => tc[1].id[1] = x.seq
      BY <3>2, <3>4, <3>5
    <3> HIDE DEF b
    <3> QED
      BY <3>4, <3>9, <3>10, <3>11, <3>12, <2>3, <1>2
  <2> QED
    BY <2>1, <2>2, <2>3, <1>1
<1> DEFINE np == NodeToProto(n, x)
<1>4. np = [id |-> n, message |-> pb, parent_ids |-> IF x.parent = 0 THEN << >> ELSE <<x.parent>>]
  BY DEF NodeToProto
<1> HIDE DEF pb
<1>5. np.message = pb /\ (IF np.parent_ids = << >> THEN 0 ELSE np.parent_ids[1]) = x.parent
  BY <1>4, <1>1
<1> HIDE DEF np
<1>6. NodeFromProto(np) = [parent |-> x.parent, role |-> b.role, calls |-> b.calls, seq |-> b.seq, call |-> b.call]
  BY <1>5 DEF NodeFromProto
<1> HIDE DEF b
<1> QED
  BY <1>6, <1>3, <1>1 DEF np

\* The three requests are told apart on the other side, and their content arrives.
LEMMA StartArrives ==
  startEvent.node = << >> /\ startEvent.reason = "END_REASON_UNSPECIFIED"
  /\ ClassifyEvent(EventFromProto(startEvent)) = "session.start"
BY DEF startEvent, EventToProto, EventFromProto, ClassifyEvent, endReasonToProto,
       endReasonFromProto, NoID

\* The end of a session arrives as one, and with its terminal node.
LEMMA EndArrives ==
  ASSUME NEW t
  PROVE  /\ endEvent(t).node = << >> /\ endEvent(t).reason = "END_REASON_COMPLETE"
         /\ ClassifyEvent(EventFromProto(endEvent(t))) = "session.ended"
         /\ EventFromProto(endEvent(t)).terminal = t
BY DEF endEvent, EventToProto, EventFromProto, ClassifyEvent, endReasonToProto,
       endReasonFromProto

\* A node arrives as one, with its ID and everything the harness put into it.
LEMMA NodeArrives ==
  ASSUME NEW m, NEW n
  PROVE  /\ nodeEvent(m, n).node # << >> /\ nodeEvent(m, n).node[1].id = n
         /\ ClassifyEvent(EventFromProto(nodeEvent(m, n))) = "node.appended"
         /\ NodeHolds(m, n) => /\ EventFromProto(nodeEvent(m, n)).node[1] = n
                               /\ EventFromProto(nodeEvent(m, n)).node[2] = m[n]
<1> DEFINE pb == NodeToProto(n, m[n])
           e == nodeEvent(m, n)
<1>1. pb.id = n
  BY DEF NodeToProto
<1>2. NodeHolds(m, n) => NodeFromProto(pb) = m[n]
  BY NodeSurvives
<1> HIDE DEF pb
<1>3. e.node = <<pb>>
  BY DEF nodeEvent, EventToProto, pb
<1> HIDE DEF e
<1>4. e.node # << >> /\ e.node[1] = pb
  BY <1>3
<1>5. EventFromProto(e).node = <<pb.id, NodeFromProto(pb)>>
  BY <1>4 DEF EventFromProto
<1>6. ClassifyEvent(EventFromProto(e)) = "node.appended"
  BY <1>5 DEF ClassifyEvent
<1> QED
  BY <1>1, <1>2, <1>4, <1>5, <1>6 DEF e

-----------------------------------------------------------------------------
(* Nothing the invariant says is undone when more is made, stored or reported *)

\* What a process relies on stays true when others make, store or report nodes.
LEMMA WorkKept ==
  ASSUME NEW h \in Running, NEW m \in Seq(Node), NEW S, NEW F, WorkHolds(h, m, S, F),
         NEW m2, Extends(m2, m), NEW S2, S \subseteq S2, NEW F2, F \subseteq F2
  PROVE  WorkHolds(h, m2, S2, F2)
<1>1. /\ h.head \in Nat /\ h.batch \in Nat /\ Len(m) \in Nat /\ Len(m2) \in Nat
      /\ DOMAIN m = 1..Len(m)
  BY LoopAssumption DEF Running, Extends
<1>2. h.batch # NoID => m2[h.batch] = m[h.batch]
  <2>1. h.batch # NoID => h.batch \in DOMAIN m
    BY <1>1 DEF WorkHolds, NoID
  <2> QED
    BY <2>1 DEF Extends
<1>3. stage(h) = "spawn" => "teleport" \in ToSet(m2[h.batch].calls)
  BY <1>2 DEF WorkHolds
<1>4. h.head <= Len(m2) /\ h.batch <= Len(m2)
  BY <1>1 DEF WorkHolds, Extends
<1>5. stage(h) = "arrive" =>
        \A n \in h.graph : n \in DOMAIN m2 /\ m2[n].parent \in {NoID} \cup h.graph
  BY DEF WorkHolds, Extends
<1> QED
  BY <1>3, <1>4, <1>5 DEF WorkHolds

\* A request is for a node that was made, or for none.
LEMMA RequestIsKnown ==
  ASSUME NEW c, NEW m, NEW S, NEW status, CallHolds(c, m, S, status), NEW n, isAbout(c, n)
  PROVE  n \in DOMAIN m /\ c.event = nodeEvent(m, n)
<1>1. c.event.node # << >> /\ c.event.node[1].id = n
  BY DEF isAbout
<1>2. PICK k \in DOMAIN m : c.event = nodeEvent(m, k)
  BY <1>1, StartArrives, EndArrives DEF CallHolds
<1> QED
  BY <1>1, <1>2, NodeArrives

\* So does what a handler relies on, unless its own node is stored meanwhile.
LEMMA CallKept ==
  ASSUME NEW c, NEW m \in Seq(Node), NEW S, NEW status, CallHolds(c, m, S, status),
         NEW m2, Extends(m2, m), NEW S2, S \subseteq S2,
         \A n \in S2 : isAbout(c, n) => n \in S,
         NEW status2, status # {} => status2 # {}
  PROVE  CallHolds(c, m2, S2, status2)
<1>1. CASE c.event = startEvent
  <2>1. c.old = {} /\ c.pc \in {"sent", "session.start", "ok"} /\ (c.pc = "ok" => status # {})
    BY <1>1, StartArrives, EndArrives, NodeArrives DEF CallHolds
  <2> QED
    BY <1>1, <2>1 DEF CallHolds
<1>2. CASE \E t \in 0..Len(m) : c.event = endEvent(t)
  <2>1. PICK t \in 0..Len(m) : c.event = endEvent(t)
    BY <1>2
  <2>2. c.old \subseteq {"open", "closed"} /\ c.pc \in {"sent", "session.ended", "ok"}
    BY <2>1, StartArrives, EndArrives, NodeArrives DEF CallHolds
  <2>3. t \in 0..Len(m2)
    BY DEF Extends
  <2> QED
    BY <2>1, <2>2, <2>3 DEF CallHolds
<1>3. CASE \E n \in DOMAIN m : c.event = nodeEvent(m, n)
  <2>1. PICK n \in DOMAIN m :
          /\ c.event = nodeEvent(m, n) /\ c.old \subseteq S
          /\ c.pc \in {"sent", "node.appended", "ok", "error"}
          /\ c.pc \in {"sent", "node.appended"} => n \notin S
          /\ c.pc = "ok" => n \in S
          /\ c.pc = "node.appended" /\ n # 1 => c.old # {}
    BY <1>3, StartArrives, EndArrives, NodeArrives DEF CallHolds
  <2>2. isAbout(c, n)
    BY <2>1, NodeArrives DEF isAbout
  <2>3. n \in DOMAIN m2 /\ m2[n] = m[n]
    BY DEF Extends
  <2>4. c.event = nodeEvent(m2, n)
    BY <2>1, <2>3 DEF nodeEvent
  <2>5. n \in S2 <=> n \in S
    BY <2>2
  <2> QED
    BY <2>1, <2>3, <2>4, <2>5 DEF CallHolds
<1> QED
  BY <1>1, <1>2, <1>3 DEF CallHolds

\* A node stays what it is.
LEMMA NodesKept ==
  ASSUME NEW m \in Seq(Node), NEW m2, Extends(m2, m), NEW n \in DOMAIN m, NodeHolds(m, n)
  PROVE  NodeHolds(m2, n)
BY DEF NodeHolds, Extends

\* The call a process waits for is still the one it made.
LEMMA ExpectsKept ==
  ASSUME NEW h, NEW event, NEW m \in Seq(Node), NEW m2, Extends(m2, m), Expects(h, event, m),
         h.pc = "write" => h.head \in DOMAIN m
  PROVE  Expects(h, event, m2)
<1>1. h.pc = "write" => nodeEvent(m2, h.head) = nodeEvent(m, h.head)
  BY DEF Extends, nodeEvent
<1> QED
  BY <1>1 DEF Expects

-----------------------------------------------------------------------------
(* Four kinds of steps *)

\* A process without a request to wait for, or stopped: nobody is with it.
idle(h) == h.pc \in {"off", "teleported"}

\* A request whose client has given up.
orphan(c) == [c EXCEPT !.client = Nobody]

\* A handler whose client is gone is at the same point of the same request.
LEMMA OrphanHolds ==
  ASSUME NEW c, NEW m, NEW S, NEW status, CallHolds(c, m, S, status)
  PROVE  /\ orphan(c).client = Nobody /\ orphan(c).event = c.event
         /\ CallHolds(orphan(c), m, S, status)
         /\ \A n : isAbout(orphan(c), n) <=> isAbout(c, n)
<1> DEFINE o == orphan(c)
<1>1. c \in Handler(c.event, c.old)
  BY DEF CallHolds
<1>2. /\ o.client = Nobody /\ o.event = c.event /\ o.pc = c.pc /\ o.old = c.old
      /\ o \in Handler(o.event, o.old)
  BY <1>1 DEF orphan, Handler
<1> HIDE DEF o
<1>3. CallHolds(o, m, S, status)
  BY <1>2 DEF CallHolds
<1> QED
  BY <1>2, <1>3 DEF isAbout, o

\* Processes go on, or stop and leave their requests behind; the nodes and what the
\* server has stored stay as they are.
LEMMA ProcessesMove ==
  ASSUME MathInv, UNCHANGED <<made, session, stored>>, LoopTypeOK',
         starts' \in 0..MaxStarts, lost' \in 0..MaxLost,
         acked' \subseteq DOMAIN stored, failed \subseteq failed', failed' \subseteq DOMAIN made,
         \A q \in Process :
           proc'[q] = proc[q] \/ /\ proc'[q].pc # "write"
                                 /\ proc'[q].pc = "create" => made = << >>
                                 /\ proc'[q] \in Running =>
                                      WorkHolds(proc'[q], made, DOMAIN stored, failed'),
         \A q, r \in Process : ~idle(proc'[q]) /\ ~idle(proc'[r]) => q = r,
         \A c \in calls' :
           \/ c \in calls /\ (c.client # Nobody => proc'[c.client] = proc[c.client])
           \/ \E d \in calls \ calls' : d.client # Nobody /\ c = orphan(d),
         \A c \in calls : c.client # Nobody /\ proc'[c.client] = proc[c.client] => c \in calls'
  PROVE  MathInv'
<1>1. made \in Seq(Node) /\ Extends(made, made)
  BY Unmoved DEF MathInv, LoopTypeOK
<1>2. ServerHolds'
  BY DEF MathInv, ServerHolds
<1>3. NodesHold'
  BY DEF MathInv, NodesHold
<1>4. ProcessesHold'
  <2>1. ASSUME NEW q \in Process, proc'[q].pc = "create" PROVE made = << >>
    BY <2>1 DEF MathInv, ProcessesHold
  <2>2. ASSUME NEW q \in Process, proc'[q] \in Running
        PROVE  WorkHolds(proc'[q], made, DOMAIN stored, failed')
    <3>1. CASE proc'[q] = proc[q]
      <4>1. proc[q] \in Running /\ WorkHolds(proc[q], made, DOMAIN stored, failed)
        BY <3>1, <2>2 DEF MathInv, ProcessesHold
      <4>2. WorkHolds(proc[q], made, DOMAIN stored, failed')
        BY <4>1, <1>1, WorkKept
      <4> QED
        BY <3>1, <4>2
    <3> QED
      BY <3>1, <2>2
  <2> QED
    BY <2>1, <2>2 DEF ProcessesHold, idle
<1>5. \A c \in calls : CallHolds(c, made, DOMAIN stored, session.status)
  BY DEF MathInv, CallsHold
<1>6. ASSUME NEW c \in calls'
      PROVE  \E d \in calls : /\ d = c \/ (d \notin calls' /\ c = orphan(d))
                              /\ c.event = d.event /\ (c.client # Nobody => d = c)
                              /\ (c.client # Nobody => proc'[c.client] = proc[c.client])
                              /\ CallHolds(c, made, DOMAIN stored, session.status)
                              /\ \A n : isAbout(c, n) <=> isAbout(d, n)
  <2>1. CASE c \in calls /\ (c.client # Nobody => proc'[c.client] = proc[c.client])
    BY <2>1, <1>5
  <2>2. CASE \E d \in calls \ calls' : d.client # Nobody /\ c = orphan(d)
    <3>1. PICK d \in calls \ calls' : c = orphan(d)
      BY <2>2
    <3>2. CallHolds(d, made, DOMAIN stored, session.status)
      BY <1>5
    <3> QED
      BY <3>1, <3>2, OrphanHolds
  <2> QED
    BY <2>1, <2>2
<1>7. CallsHold'
  <2>1. ASSUME NEW c \in calls', c.client # Nobody PROVE Expects(proc'[c.client], c.event, made)
    BY <2>1, <1>6 DEF MathInv, CallsHold
  <2>2. ASSUME NEW c \in calls', NEW d \in calls', c.client = d.client, c.client # Nobody PROVE c = d
    BY <2>2, <1>6 DEF MathInv, CallsHold
  <2>3. ASSUME NEW c \in calls', NEW d \in calls', NEW n \in DOMAIN made, isAbout(c, n), isAbout(d, n)
        PROVE  c = d
    <3>1. PICK a \in calls : (a = c \/ (a \notin calls' /\ c = orphan(a))) /\ isAbout(a, n)
      BY <2>3, <1>6
    <3>2. PICK b \in calls : (b = d \/ (b \notin calls' /\ d = orphan(b))) /\ isAbout(b, n)
      BY <2>3, <1>6
    <3>3. a = b
      BY <3>1, <3>2 DEF MathInv, CallsHold
    <3> QED
      BY <3>1, <3>2, <3>3
  <2>4. ASSUME NEW q \in Process, proc'[q].pc = "write", \A c \in calls' : c.client # q
        PROVE  /\ proc'[q].head \notin DOMAIN stored
               /\ \A c \in calls' : ~isAbout(c, proc'[q].head)
    <3>1. proc'[q] = proc[q]
      BY <2>4
    <3>2. \A c \in calls : c.client # q
      BY <2>4, <3>1, MathAssumption
    <3>3. /\ proc[q].head \notin DOMAIN stored
          /\ \A c \in calls : ~isAbout(c, proc[q].head)
      BY <2>4, <3>1, <3>2 DEF MathInv, CallsHold, writing, waiting
    <3> QED
      BY <3>1, <3>3, <1>6
  <2> QED
    BY <1>6, <2>1, <2>2, <2>3, <2>4 DEF CallsHold, writing, waiting
<1> QED
  BY <1>2, <1>3, <1>4, <1>7 DEF MathInv

\* A process appends a node below its head and goes on to write it.
LEMMA NodeAppended ==
  ASSUME MathInv, NEW p \in Process, NEW h \in Running, NEW x \in Node,
         made' = Append(made, x), proc' = [proc EXCEPT ![p] = h], LoopTypeOK',
         UNCHANGED <<session, stored, starts, lost, acked, failed>>,
         ~idle(proc[p]),
         NodeHolds(made', Len(made) + 1),
         x.parent \in {NoID} \cup DOMAIN stored \cup failed,
         session.status # {}, Len(made) # 0 => 1 \in DOMAIN stored,
         h.pc = "write", h.head = Len(made) + 1, WorkHolds(h, made', DOMAIN stored, failed),
         \A c \in calls' : c \in calls /\ c.client # p,
         \A c \in calls : c.client # p => c \in calls'
  PROVE  MathInv'
<1> DEFINE n == Len(made) + 1
<1>1. /\ made \in Seq(Node) /\ Extends(made', made) /\ Len(made') = n /\ made'[n] = x
      /\ DOMAIN made' = DOMAIN made \cup {n} /\ n \notin DOMAIN made
      /\ Len(made) \in Nat /\ DOMAIN made = 1..Len(made)
  <2>1. made \in Seq(Node)
    BY DEF MathInv, LoopTypeOK
  <2> QED
    BY <2>1, Appended
<1>2. ServerHolds'
  <2>1. session.end_node \subseteq 0..Len(made')
    BY <1>1 DEF MathInv, ServerHolds
  <2>2. \A i \in DOMAIN stored : stored[i] = made'[i]
    BY <1>1 DEF MathInv, ServerHolds, Extends
  <2>3. Len(made') > 1 => 1 \in DOMAIN stored
    BY <1>1
  <2>4. session \in [status : SUBSET {"open", "closed"}, head : SUBSET DOMAIN stored,
                     end_node : SUBSET (0..Len(made'))]
    BY <2>1 DEF MathInv, ServerHolds
  <2>5. DOMAIN stored \subseteq DOMAIN made' /\ failed \subseteq DOMAIN made'
    BY <1>1 DEF MathInv, ServerHolds
  <2>6. /\ \A a, b \in session.head : a = b
        /\ DOMAIN stored # {} => session.head # {} /\ 1 \in DOMAIN stored
        /\ acked \subseteq DOMAIN stored
    BY DEF MathInv, ServerHolds
  <2> QED
    BY <2>2, <2>3, <2>4, <2>5, <2>6 DEF ServerHolds
<1>3. NodesHold'
  <2>1. ASSUME NEW i \in DOMAIN made
        PROVE  NodeHolds(made', i) /\ made'[i].parent \in {NoID} \cup DOMAIN stored \cup failed
    BY <1>1, NodesKept DEF MathInv, NodesHold, Extends
  <2> QED
    BY <2>1, <1>1 DEF NodesHold
<1>4. proc'[p] = h /\ \A q \in Process : q # p => proc'[q] = proc[q]
  BY DEF MathInv, LoopTypeOK
<1>5. ASSUME NEW q \in Process, q # p PROVE idle(proc[q])
  BY <1>5 DEF MathInv, ProcessesHold, idle
<1>6. ProcessesHold'
  <2>1. ASSUME NEW q \in Process, proc'[q].pc = "create" PROVE FALSE
    BY <2>1, <1>4, <1>5 DEF idle
  <2>2. ASSUME NEW q \in Process, proc'[q] \in Running
        PROVE  WorkHolds(proc'[q], made', DOMAIN stored, failed)
    <3>1. CASE q = p
      BY <3>1, <1>4
    <3>2. CASE q # p
      <4>1. proc[q] \in Running /\ WorkHolds(proc[q], made, DOMAIN stored, failed)
        BY <3>2, <2>2, <1>4 DEF MathInv, ProcessesHold
      <4>2. WorkHolds(proc[q], made', DOMAIN stored, failed)
        BY <4>1, <1>1, WorkKept
      <4> QED
        BY <3>2, <4>2, <1>4
    <3> QED
      BY <3>1, <3>2
  <2>3. ASSUME NEW q \in Process, NEW r \in Process, ~idle(proc'[q]), ~idle(proc'[r]) PROVE q = r
    BY <2>3, <1>4, <1>5
  <2> QED
    BY <2>1, <2>2, <2>3 DEF ProcessesHold, idle
<1>7. ASSUME NEW c \in calls' PROVE CallHolds(c, made', DOMAIN stored, session.status)
  <2>1. CallHolds(c, made, DOMAIN stored, session.status)
    BY DEF MathInv, CallsHold
  <2> QED
    BY <2>1, <1>1, CallKept
<1>8. ASSUME NEW c \in calls', NEW i, isAbout(c, i) PROVE i \in DOMAIN made
  <2>1. CallHolds(c, made, DOMAIN stored, session.status)
    BY DEF MathInv, CallsHold
  <2> QED
    BY <2>1, <1>8, RequestIsKnown
<1>9. CallsHold'
  <2>1. ASSUME NEW c \in calls', c.client # Nobody PROVE FALSE
    <3>1. c.client \in Process /\ c.client # p /\ c \in calls
      BY <2>1, <1>7 DEF CallHolds, Handler
    <3>2. Expects(proc[c.client], c.event, made)
      BY <2>1, <3>1 DEF MathInv, CallsHold
    <3> QED
      BY <3>1, <3>2, <1>5 DEF Expects, idle
  <2>2. ASSUME NEW c \in calls', NEW d \in calls', NEW i \in DOMAIN made', isAbout(c, i), isAbout(d, i)
        PROVE  c = d
    <3>1. i \in DOMAIN made
      BY <2>2, <1>8
    <3> QED
      BY <2>2, <3>1 DEF MathInv, CallsHold
  <2>3. ASSUME NEW q \in Process, proc'[q].pc = "write"
        PROVE  proc'[q].head \notin DOMAIN stored /\ \A c \in calls' : ~isAbout(c, proc'[q].head)
    <3>1. q = p
      BY <2>3, <1>4, <1>5 DEF idle
    <3>2. n \notin DOMAIN stored
      BY <1>1 DEF MathInv, ServerHolds
    <3> QED
      BY <3>1, <3>2, <1>4, <1>8, <1>1
  <2> QED
    BY <1>7, <2>1, <2>2, <2>3 DEF CallsHold, writing
<1> QED
  BY <1>2, <1>3, <1>6, <1>9 DEF MathInv

\* A request is made by a process that waits for none.
LEMMA RequestMade ==
  ASSUME MathInv, NEW p \in Process, NEW r, waiting(p) = {},
         UNCHANGED <<loopVars, session, stored, starts, lost, acked, failed>>,
         calls' = calls \cup {r}, r.client = p,
         CallHolds(r, made, DOMAIN stored, session.status), Expects(proc[p], r.event, made),
         \A n \in DOMAIN made : isAbout(r, n) => \A c \in calls : ~isAbout(c, n)
  PROVE  MathInv'
<1>1. LoopTypeOK' /\ ServerHolds' /\ NodesHold' /\ ProcessesHold'
  BY DEF MathInv, LoopTypeOK, ServerHolds, NodesHold, ProcessesHold, loopVars
<1>2. \A c \in calls : c.client # p
  BY DEF waiting
<1>3. CallsHold'
  <2>1. ASSUME NEW c \in calls' PROVE CallHolds(c, made, DOMAIN stored, session.status)
    BY <2>1 DEF MathInv, CallsHold
  <2>2. ASSUME NEW c \in calls', c.client # Nobody PROVE Expects(proc[c.client], c.event, made)
    BY <2>2 DEF MathInv, CallsHold
  <2>3. ASSUME NEW c \in calls', NEW d \in calls', c.client = d.client, c.client # Nobody PROVE c = d
    BY <2>3, <1>2 DEF MathInv, CallsHold
  <2>4. ASSUME NEW c \in calls', NEW d \in calls', NEW n \in DOMAIN made, isAbout(c, n), isAbout(d, n)
        PROVE  c = d
    BY <2>4 DEF MathInv, CallsHold
  <2>5. ASSUME NEW q \in Process, writing(q), \A c \in calls' : c.client # q
        PROVE  proc[q].head \notin DOMAIN stored /\ \A c \in calls' : ~isAbout(c, proc[q].head)
    <3>1. waiting(q) = {} /\ q # p
      BY <2>5 DEF waiting
    <3>2. proc[q].head \notin DOMAIN stored /\ \A c \in calls : ~isAbout(c, proc[q].head)
      BY <2>5, <3>1 DEF MathInv, CallsHold
    <3>3. idle(proc[p]) \/ idle(proc[q])
      BY <3>1 DEF MathInv, ProcessesHold, idle
    <3> QED
      BY <2>5, <3>3 DEF idle, Expects, writing
  <2> QED
    BY <2>1, <2>2, <2>3, <2>4, <2>5 DEF CallsHold, writing, waiting, loopVars
<1> QED
  BY <1>1, <1>3 DEF MathInv, loopVars

\* A handler goes one step.
LEMMA HandlerMoves ==
  ASSUME MathInv, NEW c \in calls, NEW d, calls' = replace(c, d),
         d.client = c.client, d.event = c.event,
         UNCHANGED <<loopVars, starts, lost, acked, failed>>, ServerHolds',
         DOMAIN stored \subseteq DOMAIN stored',
         \A n \in DOMAIN stored' : n \in DOMAIN stored \/ isAbout(c, n),
         session.status # {} => session'.status # {},
         CallHolds(d, made, DOMAIN stored', session'.status)
  PROVE  MathInv'
<1>1. LoopTypeOK' /\ made \in Seq(Node) /\ Extends(made, made)
  BY Unmoved DEF MathInv, LoopTypeOK, loopVars
<1>2. NodesHold'
  BY DEF MathInv, NodesHold, loopVars
<1>3. ProcessesHold'
  <2>1. ASSUME NEW q \in Process, proc[q] \in Running
        PROVE  WorkHolds(proc[q], made, DOMAIN stored', failed)
    <3>1. WorkHolds(proc[q], made, DOMAIN stored, failed)
      BY <2>1 DEF MathInv, ProcessesHold
    <3> QED
      BY <2>1, <3>1, <1>1, WorkKept
  <2> QED
    BY <2>1 DEF MathInv, ProcessesHold, loopVars
<1>4. \A n : isAbout(d, n) <=> isAbout(c, n)
  BY DEF isAbout
<1>5. ASSUME NEW a \in calls \ {c} PROVE CallHolds(a, made, DOMAIN stored', session'.status)
  <2>1. CallHolds(a, made, DOMAIN stored, session.status)
    BY DEF MathInv, CallsHold
  <2>2. ASSUME NEW n \in DOMAIN stored', isAbout(a, n) PROVE n \in DOMAIN stored
    <3>1. n \in DOMAIN made
      BY <2>1, <2>2, RequestIsKnown
    <3> QED
      BY <2>2, <3>1 DEF MathInv, CallsHold
  <2> QED
    BY <2>1, <2>2, <1>1, CallKept
<1>6. CallsHold'
  <2>1. \A a \in calls' : a = d \/ a \in calls \ {c}
    BY DEF replace
  <2>2. ASSUME NEW a \in calls', a.client # Nobody PROVE Expects(proc[a.client], a.event, made)
    BY <2>1, <2>2 DEF MathInv, CallsHold
  <2>3. ASSUME NEW a \in calls', NEW b \in calls', a.client = b.client, a.client # Nobody PROVE a = b
    BY <2>1, <2>3 DEF MathInv, CallsHold
  <2>4. ASSUME NEW a \in calls', NEW b \in calls', NEW n \in DOMAIN made, isAbout(a, n), isAbout(b, n)
        PROVE  a = b
    BY <2>1, <2>4, <1>4 DEF MathInv, CallsHold
  <2>5. ASSUME NEW q \in Process, writing(q), \A a \in calls' : a.client # q
        PROVE  proc[q].head \notin DOMAIN stored' /\ \A a \in calls' : ~isAbout(a, proc[q].head)
    <3>1. waiting(q) = {}
      BY <2>5 DEF waiting, replace
    <3>2. proc[q].head \notin DOMAIN stored /\ \A a \in calls : ~isAbout(a, proc[q].head)
      BY <2>5, <3>1 DEF MathInv, CallsHold
    <3> QED
      BY <3>2, <2>1, <1>4
  <2> QED
    BY <2>1, <2>2, <2>3, <2>4, <2>5, <1>5 DEF CallsHold, writing, waiting, loopVars
<1> QED
  BY <1>1, <1>2, <1>3, <1>6 DEF MathInv, loopVars

-----------------------------------------------------------------------------
(* The steps of the server *)

\* What a handler can be at: the three requests exclude each other.
LEMMA RequestKinds ==
  ASSUME MathInv, NEW c \in calls
  PROVE  /\ c.client \in Process \cup {Nobody}
         /\ c.event = startEvent =>
              /\ c.old = {} /\ c.pc \in {"sent", "session.start", "ok"}
              /\ c.pc = "ok" => session.status # {}
         /\ c.event # startEvent /\ (\A n \in DOMAIN made : c.event # nodeEvent(made, n)) =>
              /\ \E t \in 0..Len(made) : c.event = endEvent(t)
              /\ c.old \subseteq {"open", "closed"}
              /\ c.pc \in {"sent", "session.ended", "ok"}
         /\ \A n \in DOMAIN made : c.event = nodeEvent(made, n) =>
              /\ c.old \subseteq DOMAIN stored
              /\ c.pc \in {"sent", "node.appended", "ok", "error"}
              /\ c.pc \in {"sent", "node.appended"} => n \notin DOMAIN stored
              /\ c.pc = "ok" => n \in DOMAIN stored
              /\ c.pc = "node.appended" /\ n # 1 => c.old # {}
<1>1. CallHolds(c, made, DOMAIN stored, session.status)
  BY DEF MathInv, CallsHold
<1>2. c.client \in Process \cup {Nobody}
  BY <1>1 DEF CallHolds, Handler
<1>3. c.event = startEvent => /\ c.old = {} /\ c.pc \in {"sent", "session.start", "ok"}
                              /\ c.pc = "ok" => session.status # {}
  BY <1>1, StartArrives, EndArrives, NodeArrives DEF CallHolds
<1>4. ASSUME NEW n \in DOMAIN made, c.event = nodeEvent(made, n)
      PROVE  /\ c.old \subseteq DOMAIN stored
             /\ c.pc \in {"sent", "node.appended", "ok", "error"}
             /\ c.pc \in {"sent", "node.appended"} => n \notin DOMAIN stored
             /\ c.pc = "ok" => n \in DOMAIN stored
             /\ c.pc = "node.appended" /\ n # 1 => c.old # {}
  <2>1. PICK k \in DOMAIN made :
          /\ c.event = nodeEvent(made, k) /\ c.old \subseteq DOMAIN stored
          /\ c.pc \in {"sent", "node.appended", "ok", "error"}
          /\ c.pc \in {"sent", "node.appended"} => k \notin DOMAIN stored
          /\ c.pc = "ok" => k \in DOMAIN stored
          /\ c.pc = "node.appended" /\ k # 1 => c.old # {}
    BY <1>1, <1>4, StartArrives, EndArrives, NodeArrives DEF CallHolds
  <2>2. nodeEvent(made, k).node[1].id = k
    BY NodeArrives
  <2>3. nodeEvent(made, n).node[1].id = n
    BY NodeArrives
  <2>4. k = n
    BY <1>4, <2>1, <2>2, <2>3
  <2> QED
    BY <2>1, <2>4
<1>5. ASSUME c.event # startEvent, \A n \in DOMAIN made : c.event # nodeEvent(made, n)
      PROVE  /\ \E t \in 0..Len(made) : c.event = endEvent(t)
             /\ c.old \subseteq {"open", "closed"}
             /\ c.pc \in {"sent", "session.ended", "ok"}
  BY <1>1, <1>5 DEF CallHolds
<1> QED
  BY <1>2, <1>3, <1>4, <1>5

\* AppendEvent decodes the request and reads what its batch will delete: the head is
\* there unless the node is the first.
LEMMA AppendEventStep ==
  ASSUME MathInv, NEW c \in calls, AppendEvent(c)
  PROVE  MathInv'
<1> DEFINE kind == ClassifyEvent(EventFromProto(c.event))
           pc == IF kind = "node.appended" /\ ~sessionExists THEN "error" ELSE kind
           old == IF kind = "node.appended" THEN session.head
                  ELSE IF kind = "session.ended" THEN session.status ELSE {}
<1>0. PICK d : d = [c EXCEPT !.pc = pc, !.old = old]
  OBVIOUS
<1>1. c.pc = "sent" /\ calls' = replace(c, d)
      /\ UNCHANGED <<loopVars, session, stored, starts, lost, acked, failed>>
  BY <1>0 DEF AppendEvent
<1>2. CallHolds(c, made, DOMAIN stored, session.status)
  BY DEF MathInv, CallsHold
<1>3. ServerHolds'
  BY <1>1 DEF MathInv, ServerHolds, loopVars
<1>4. pc \in {"node.appended", "session.start", "session.ended", "error"}
  BY DEF ClassifyEvent
<1>5. CallHolds(d, made, DOMAIN stored, session.status) /\ d.client = c.client /\ d.event = c.event
  <2>1. /\ d.client = c.client /\ d.event = c.event /\ d.pc = pc /\ d.old = old
        /\ d \in Handler(d.event, d.old)
    <3>1. c \in Handler(c.event, c.old)
      BY <1>2 DEF CallHolds
    <3>2. pc \in {"sent", "node.appended", "session.start", "session.ended", "ok", "error"}
      BY <1>4
    <3> HIDE DEF pc, old
    <3> QED
      BY <1>0, <3>1, <3>2 DEF Handler
  <2>2. CASE c.event = startEvent
    <3>1. pc = "session.start" /\ old = {}
      BY <2>2, StartArrives
    <3> QED
      BY <2>1, <2>2, <3>1 DEF CallHolds
  <2>3. CASE \E n \in DOMAIN made : c.event = nodeEvent(made, n)
    <3>1. PICK n \in DOMAIN made : c.event = nodeEvent(made, n)
      BY <2>3
    <3>2. kind = "node.appended"
      BY <3>1, NodeArrives
    <3>3. made # << >> /\ (n # 1 => Len(made) > 1)
      <4>1. made \in Seq(Node) /\ DOMAIN made = 1..Len(made) /\ Len(made) \in Nat
        BY DEF MathInv, LoopTypeOK
      <4> QED
        BY <4>1
    <3>4. session.status # {} /\ (n # 1 => session.head # {}) /\ session.head \subseteq DOMAIN stored
      BY <3>3 DEF MathInv, ServerHolds
    <3>5. pc = "node.appended" /\ old = session.head
      BY <3>2, <3>4 DEF sessionExists
    <3>6. n \notin DOMAIN stored
      BY <1>1, <3>1, RequestKinds
    <3> QED
      BY <2>1, <3>1, <3>4, <3>5, <3>6 DEF CallHolds
  <2>4. CASE c.event # startEvent /\ \A n \in DOMAIN made : c.event # nodeEvent(made, n)
    <3>1. PICK t \in 0..Len(made) : c.event = endEvent(t)
      BY <2>4, RequestKinds
    <3>2. pc = "session.ended" /\ old = session.status
      BY <3>1, EndArrives
    <3>3. session.status \subseteq {"open", "closed"}
      BY DEF MathInv, ServerHolds
    <3> QED
      BY <2>1, <3>1, <3>2, <3>3 DEF CallHolds
  <2> QED
    BY <2>1, <2>2, <2>3, <2>4
<1> QED
  BY <1>1, <1>3, <1>5, HandlerMoves

\* The batch of WriteNode moves the head it has read, or fails: no second head.
LEMMA ApplyNodeStep ==
  ASSUME MathInv, NEW c \in calls, ApplyNode(c)
  PROVE  MathInv'
<1> DEFINE e == EventFromProto(c.event)
<1>1. CallHolds(c, made, DOMAIN stored, session.status)
  BY DEF MathInv, CallsHold
<1>2. c.pc = "node.appended" /\ UNCHANGED <<loopVars, starts, lost, acked, failed>>
  BY DEF ApplyNode
<1>3. PICK n \in DOMAIN made : c.event = nodeEvent(made, n)
  BY <1>2, RequestKinds
<1>4. /\ c.old \subseteq DOMAIN stored /\ n \notin DOMAIN stored
      /\ n # 1 => c.old # {}
  BY <1>2, <1>3, RequestKinds
<1>5. e.node[1] = n /\ e.node[2] = made[n] /\ isAbout(c, n)
  <2>1. NodeHolds(made, n)
    BY DEF MathInv, NodesHold
  <2> QED
    BY <1>3, <2>1, NodeArrives DEF isAbout
<1> HIDE DEF e
<1>6. CASE c.old \subseteq session.head
  <2>0. PICK d : d = [c EXCEPT !.pc = "ok"]
    OBVIOUS
  <2>1. /\ session' = [session EXCEPT !.head = (@ \ c.old) \cup {n}]
        /\ stored' = [i \in DOMAIN stored \cup {n} |-> IF i = n THEN made[n] ELSE stored[i]]
        /\ calls' = replace(c, d)
    BY <1>5, <1>6, <2>0 DEF ApplyNode, e
  <2>2. d.client = c.client /\ d.event = c.event
        /\ CallHolds(d, made, DOMAIN stored', session'.status)
    <3>1. /\ d.client = c.client /\ d.event = c.event /\ d.pc = "ok" /\ d.old = c.old
          /\ d \in Handler(d.event, d.old)
      <4>1. c \in Handler(c.event, c.old)
        BY <1>1 DEF CallHolds
      <4> QED
        BY <2>0, <4>1 DEF Handler
    <3>2. DOMAIN stored' = DOMAIN stored \cup {n}
      BY <2>1
    <3> QED
      BY <3>1, <3>2, <1>3, <1>4 DEF CallHolds
  <2>3. DOMAIN stored' = DOMAIN stored \cup {n}
        /\ \A i \in DOMAIN stored' : stored'[i] = made[i]
    BY <2>1 DEF MathInv, ServerHolds
  <2>4. session.head \subseteq DOMAIN stored /\ \A a, b \in session.head : a = b
    BY DEF MathInv, ServerHolds
  <2>5. session'.head = {n}
    <3>1. session'.head = (session.head \ c.old) \cup {n}
      BY <2>1 DEF MathInv, ServerHolds
    <3>2. session.head \ c.old = {}
      <4>1. CASE c.old = {}
        <5>1. n = 1 /\ DOMAIN stored = {}
          BY <1>4, <4>1 DEF MathInv, ServerHolds
        <5> QED
          BY <5>1, <2>4
      <4>2. CASE c.old # {}
        BY <4>2, <1>6, <2>4
      <4> QED
        BY <4>1, <4>2
    <3> QED
      BY <3>1, <3>2
  <2>6. 1 \in DOMAIN stored'
    BY <1>4, <2>3 DEF MathInv, ServerHolds
  <2>7. session'.status = session.status
    BY <2>1 DEF MathInv, ServerHolds
  <2>8. ServerHolds'
    <3>1. session' \in [status : SUBSET {"open", "closed"}, head : SUBSET DOMAIN stored',
                        end_node : SUBSET (0..Len(made))]
      <4>1. \E a \in SUBSET {"open", "closed"}, b \in SUBSET (0..Len(made)) :
              session' = [status |-> a, head |-> {n}, end_node |-> b]
        <5>1. session = [status |-> session.status, head |-> session.head, end_node |-> session.end_node]
              /\ session.status \in SUBSET {"open", "closed"}
              /\ session.end_node \in SUBSET (0..Len(made))
          BY DEF MathInv, ServerHolds
        <5>2. session' = [status |-> session.status, head |-> session'.head,
                          end_node |-> session.end_node]
          BY <2>1, <5>1
        <5> QED
          BY <5>1, <5>2, <2>5
      <4> QED
        BY <4>1, <2>3
    <3>2. DOMAIN stored' \subseteq DOMAIN made
      BY <2>3 DEF MathInv, ServerHolds
    <3>3. /\ \A a, b \in session'.head : a = b
          /\ DOMAIN stored' # {} => session'.head # {} /\ 1 \in DOMAIN stored'
          /\ Len(made) > 1 => 1 \in DOMAIN stored'
      BY <2>5, <2>6
    <3>4. /\ made # << >> => session'.status # {}
          /\ acked \subseteq DOMAIN stored' /\ failed \subseteq DOMAIN made
      BY <2>3, <2>7 DEF MathInv, ServerHolds
    <3> QED
      BY <2>3, <3>1, <3>2, <3>3, <3>4, <1>2 DEF ServerHolds, loopVars
  <2> QED
    BY <1>2, <1>5, <2>1, <2>2, <2>3, <2>7, <2>8, HandlerMoves
<1>7. CASE ~(c.old \subseteq session.head)
  <2>0. PICK d : d = [c EXCEPT !.pc = "error"]
    OBVIOUS
  <2>1. calls' = replace(c, d) /\ UNCHANGED <<session, stored>>
    BY <1>7, <2>0 DEF ApplyNode
  <2>2. d.client = c.client /\ d.event = c.event
        /\ CallHolds(d, made, DOMAIN stored, session.status)
    <3>1. /\ d.client = c.client /\ d.event = c.event /\ d.pc = "error" /\ d.old = c.old
          /\ d \in Handler(d.event, d.old)
      <4>1. c \in Handler(c.event, c.old)
        BY <1>1 DEF CallHolds
      <4> QED
        BY <2>0, <4>1 DEF Handler
    <3> QED
      BY <3>1, <1>3, <1>4 DEF CallHolds
  <2>3. ServerHolds'
    BY <1>2, <2>1 DEF MathInv, ServerHolds, loopVars
  <2> QED
    BY <1>2, <2>1, <2>2, <2>3, HandlerMoves
<1> QED
  BY <1>6, <1>7

\* The start or the end of the session; a status is never taken away.
LEMMA ApplySessionStep ==
  ASSUME MathInv, NEW c \in calls, ApplySession(c)
  PROVE  MathInv'
<1> DEFINE e == EventFromProto(c.event)
<1>0. PICK d : d = [c EXCEPT !.pc = "ok"]
  OBVIOUS
<1>1. /\ c.pc \in {"session.start", "session.ended"}
      /\ calls' = replace(c, d)
      /\ session' = IF c.pc = "session.start"
                    THEN [session EXCEPT !.status = @ \cup {"open"}]
                    ELSE [session EXCEPT !.status = (@ \ c.old) \cup {"closed"},
                                         !.end_node = @ \cup {e.terminal}]
      /\ UNCHANGED <<loopVars, stored, starts, lost, acked, failed>>
  BY <1>0 DEF ApplySession
<1>2. CallHolds(c, made, DOMAIN stored, session.status) /\ c \in Handler(c.event, c.old)
  BY DEF MathInv, CallsHold, CallHolds
<1>3. d.client = c.client /\ d.event = c.event /\ d.pc = "ok" /\ d.old = c.old
      /\ d \in Handler(d.event, d.old)
  BY <1>0, <1>2 DEF Handler
<1>4. c.pc = "session.ended" => e.terminal \in 0..Len(made)
  <2>1. ASSUME c.pc = "session.ended" PROVE \E t \in 0..Len(made) : c.event = endEvent(t)
    BY <2>1, RequestKinds
  <2> QED
    BY <2>1, EndArrives
<1> HIDE DEF e
<1>5. PICK a \in SUBSET {"open", "closed"}, h \in SUBSET DOMAIN stored,
           b \in SUBSET (0..Len(made)) :
        session = [status |-> a, head |-> h, end_node |-> b]
  BY DEF MathInv, ServerHolds
<1>6. PICK x \in SUBSET {"open", "closed"}, y \in SUBSET (0..Len(made)) :
        x # {} /\ session' = [status |-> x, head |-> h, end_node |-> y]
  <2>1. CASE c.pc = "session.start"
    <3>1. session' = [status |-> a \cup {"open"}, head |-> h, end_node |-> b]
      BY <1>1, <1>5, <2>1
    <3>2. a \cup {"open"} \in SUBSET {"open", "closed"} /\ a \cup {"open"} # {}
      OBVIOUS
    <3> QED
      BY <3>1, <3>2
  <2>2. CASE c.pc = "session.ended"
    <3>1. session' = [status |-> (a \ c.old) \cup {"closed"}, head |-> h,
                      end_node |-> b \cup {e.terminal}]
      BY <1>1, <1>5, <2>2
    <3>2. (a \ c.old) \cup {"closed"} \in SUBSET {"open", "closed"}
          /\ (a \ c.old) \cup {"closed"} # {}
      OBVIOUS
    <3>3. b \cup {e.terminal} \in SUBSET (0..Len(made))
      BY <1>4, <2>2
    <3> QED
      BY <3>1, <3>2, <3>3
  <2> QED
    BY <1>1, <2>1, <2>2
<1>7. /\ session'.status # {} /\ session'.head = session.head
      /\ session' \in [status : SUBSET {"open", "closed"}, head : SUBSET DOMAIN stored,
                       end_node : SUBSET (0..Len(made))]
  BY <1>5, <1>6
<1>8. ServerHolds'
  BY <1>1, <1>7 DEF MathInv, ServerHolds, loopVars
<1>9. CallHolds(d, made, DOMAIN stored, session'.status)
  <2>1. CASE c.event = startEvent
    <3>1. c.old = {}
      BY <2>1, RequestKinds
    <3> QED
      BY <2>1, <3>1, <1>3, <1>7 DEF CallHolds
  <2>2. CASE \E n \in DOMAIN made : c.event = nodeEvent(made, n)
    BY <2>2, <1>1, RequestKinds
  <2>3. CASE c.event # startEvent /\ \A n \in DOMAIN made : c.event # nodeEvent(made, n)
    <3>1. (\E t \in 0..Len(made) : c.event = endEvent(t)) /\ c.old \subseteq {"open", "closed"}
      BY <2>3, RequestKinds
    <3> QED
      BY <3>1, <1>3 DEF CallHolds
  <2> QED
    BY <2>1, <2>2, <2>3
<1> QED
  BY <1>1, <1>3, <1>7, <1>8, <1>9, HandlerMoves

\* The handler of an abandoned request is gone.
LEMMA HandlerEndsStep ==
  ASSUME MathInv, NEW c \in calls, HandlerEnds(c)
  PROVE  MathInv'
<1>1. /\ c.client = Nobody /\ calls' = calls \ {c}
      /\ UNCHANGED <<loopVars, session, stored, starts, lost, acked, failed>>
  BY DEF HandlerEnds
<1>2. LoopTypeOK' /\ made \in Seq(Node)
  BY <1>1 DEF MathInv, LoopTypeOK, loopVars
<1>3. /\ starts' \in 0..MaxStarts /\ lost' \in 0..MaxLost /\ acked' \subseteq DOMAIN stored
      /\ failed \subseteq failed' /\ failed' \subseteq DOMAIN made
  BY <1>1 DEF MathInv, ServerHolds
<1>4. \A q, r \in Process : ~idle(proc'[q]) /\ ~idle(proc'[r]) => q = r
  BY <1>1 DEF MathInv, ProcessesHold, idle, loopVars
<1>5. proc' = proc /\ UNCHANGED <<made, session, stored>>
  BY <1>1 DEF loopVars
<1> QED
  BY <1>1, <1>2, <1>3, <1>4, <1>5, ProcessesMove

-----------------------------------------------------------------------------
(* The requests of a process *)

\* The request of newHarness.
LEMMA CreateSessionStep ==
  ASSUME MathInv, NEW p \in Process, CreateSession(p)
  PROVE  MathInv'
<1> DEFINE event == [node |-> << >>, reason |-> "", terminal |-> NoID]
<1>1. PICK r : r = request(p, event)
  OBVIOUS
<1>2. /\ waiting(p) = {} /\ proc[p].pc = "create" /\ calls' = calls \cup {r}
      /\ UNCHANGED <<loopVars, session, stored, starts, lost, acked, failed>>
  BY <1>1 DEF CreateSession
<1>3. r.client = p /\ r.event = startEvent /\ r.pc = "sent" /\ r.old = {}
      /\ r \in Handler(r.event, r.old)
  BY <1>1 DEF request, Handler, startEvent
<1>4. CallHolds(r, made, DOMAIN stored, session.status)
  BY <1>3 DEF CallHolds
<1>5. Expects(proc[p], r.event, made)
  BY <1>2, <1>3 DEF Expects
<1>6. \A n \in DOMAIN made : ~isAbout(r, n)
  BY <1>3, StartArrives DEF isAbout
<1> QED
  BY <1>2, <1>3, <1>4, <1>5, <1>6, RequestMade

\* A node is requested once: no handler is at work on it.
LEMMA WriteNodeStep ==
  ASSUME MathInv, NEW p \in Process, WriteNode(p)
  PROVE  MathInv'
<1> DEFINE n == proc[p].head
<1>1. PICK r : r = request(p, [node |-> <<n, made[n]>>, reason |-> "", terminal |-> NoID])
  OBVIOUS
<1>2. /\ waiting(p) = {} /\ proc[p].pc = "write" /\ calls' = calls \cup {r}
      /\ UNCHANGED <<loopVars, session, stored, starts, lost, acked, failed>>
  BY <1>1 DEF WriteNode, writing
<1>3. r.client = p /\ r.event = nodeEvent(made, n) /\ r.pc = "sent" /\ r.old = {}
      /\ r \in Handler(r.event, r.old)
  BY <1>1 DEF request, Handler, nodeEvent
<1>4. proc[p] \in Running
  BY <1>2 DEF MathInv, LoopTypeOK, off
<1>5. n \in DOMAIN made
  <2>1. n \in Nat /\ n # 0 /\ n <= Len(made)
    BY <1>2, <1>4, LoopAssumption DEF MathInv, ProcessesHold, WorkHolds, Running, NoID
  <2>2. made \in Seq(Node)
    BY DEF MathInv, LoopTypeOK
  <2> QED
    BY <2>1, <2>2
<1>6. n \notin DOMAIN stored /\ \A c \in calls : ~isAbout(c, n)
  BY <1>2 DEF MathInv, CallsHold, writing
<1> HIDE DEF n
<1>7. CallHolds(r, made, DOMAIN stored, session.status)
  BY <1>3, <1>5, <1>6 DEF CallHolds
<1>8. Expects(proc[p], r.event, made)
  BY <1>2, <1>3 DEF Expects, n
<1>9. ASSUME NEW i \in DOMAIN made, isAbout(r, i) PROVE \A c \in calls : ~isAbout(c, i)
  <2>1. i = n
    BY <1>9, <1>3, NodeArrives DEF isAbout
  <2> QED
    BY <2>1, <1>6
<1> QED
  BY <1>2, <1>3, <1>7, <1>8, <1>9, RequestMade

-----------------------------------------------------------------------------
(* A process goes on without making a node *)

\* What a process can be.
State ==
  {off, [pc |-> "create"]} \cup Running
    \cup [pc : {"open"}, store : {"mem", "bolt", "leveldb", "sgpd"}]

\* One process goes on, or stops; a call it waited for is answered or left behind.
LEMMA OneMoves ==
  ASSUME MathInv, NEW p \in Process, NEW h \in State,
         UNCHANGED <<made, session, stored>>, proc' = [proc EXCEPT ![p] = h],
         cut' \subseteq 1..Len(made), turns' \in 0..MaxTurns,
         starts' \in 0..MaxStarts, lost' \in 0..MaxLost,
         acked' \subseteq DOMAIN stored, failed \subseteq failed', failed' \subseteq DOMAIN made,
         h.pc # "write", h.pc = "create" => made = << >>,
         h \in Running => WorkHolds(h, made, DOMAIN stored, failed'),
         idle(h) \/ ~idle(proc[p]) \/ \A q \in Process : idle(proc[q]),
         \/ calls' = calls /\ waiting(p) = {}
         \/ (calls' = calls \ waiting(p) \/ calls' \in abandoned(p)) /\ h.pc # proc[p].pc
  PROVE  MathInv'
<1>1. proc \in [Process -> State] /\ made \in Seq(Node) /\ Len(made) <= MaxNodes
  BY DEF MathInv, LoopTypeOK, State
<1>2. proc' \in [Process -> State] /\ proc'[p] = h /\ \A q \in Process : q # p => proc'[q] = proc[q]
  BY <1>1
<1>3. LoopTypeOK'
  BY <1>1, <1>2 DEF LoopTypeOK, State
<1>4. \A q, r \in Process : ~idle(proc'[q]) /\ ~idle(proc'[r]) => q = r
  <2>1. \A q, r \in Process : ~idle(proc[q]) /\ ~idle(proc[r]) => q = r
    BY DEF MathInv, ProcessesHold, idle
  <2> QED
    BY <2>1, <1>2
<1>5. \A q \in Process :
           proc'[q] = proc[q] \/ /\ proc'[q].pc # "write"
                                 /\ proc'[q].pc = "create" => made = << >>
                                 /\ proc'[q] \in Running =>
                                      WorkHolds(proc'[q], made, DOMAIN stored, failed')
  BY <1>2
<1>6. \A c \in calls : c.client \in Process \cup {Nobody}
  BY RequestKinds
<1>7. ASSUME NEW c \in calls'
      PROVE  \/ c \in calls /\ (c.client # Nobody => proc'[c.client] = proc[c.client])
             \/ \E d \in calls \ calls' : d.client # Nobody /\ c = orphan(d)
  <2>1. CASE c \in calls /\ c.client # p
    BY <2>1, <1>2, <1>6
  <2>2. CASE ~(c \in calls /\ c.client # p)
    <3>1. calls' \in abandoned(p)
      BY <2>2 DEF waiting
    <3>2. PICK d \in waiting(p) : c = orphan(d)
          /\ calls' = (calls \ waiting(p)) \cup {orphan(x) : x \in waiting(p)}
      BY <3>1, <2>2 DEF abandoned, orphan, waiting
    <3>3. \A x \in waiting(p) : orphan(x).client = Nobody
      BY OrphanHolds DEF waiting, MathInv, CallsHold
    <3>4. d \in calls /\ d.client = p /\ p # Nobody
      BY MathAssumption DEF waiting
    <3>5. d \notin calls'
      BY <3>2, <3>3, <3>4 DEF waiting
    <3> QED
      BY <3>2, <3>4, <3>5
  <2> QED
    BY <2>1, <2>2
<1>8. ASSUME NEW c \in calls, c.client # Nobody, proc'[c.client] = proc[c.client]
      PROVE  c \in calls'
  <2>1. CASE c.client # p
    BY <2>1 DEF abandoned, waiting
  <2>2. CASE c.client = p
    BY <2>2, <1>8, <1>2 DEF waiting
  <2> QED
    BY <2>1, <2>2
<1> HIDE DEF State
<1> QED
  BY <1>3, <1>4, <1>5, <1>7, <1>8, ProcessesMove

\* A process that does not wait has made no request.
LEMMA NothingAsked ==
  ASSUME MathInv, NEW p \in Process, proc[p].pc \notin {"create", "write", "close"}
  PROVE  waiting(p) = {}
<1> SUFFICES ASSUME NEW c \in waiting(p) PROVE FALSE
  OBVIOUS
<1>1. c \in calls /\ c.client = p /\ c.client # Nobody
  BY MathAssumption DEF waiting
<1> QED
  BY <1>1 DEF MathInv, CallsHold, Expects

\* A call that is waited for is the only one, and of the kind its control state says.
LEMMA OneWaits ==
  ASSUME MathInv, NEW p \in Process, NEW c \in waiting(p)
  PROVE  waiting(p) = {c} /\ c \in calls /\ c.client = p /\ Expects(proc[p], c.event, made)
<1>1. c \in calls /\ c.client = p /\ p # Nobody
  BY MathAssumption DEF waiting
<1>2. \A d \in waiting(p) : d \in calls /\ d.client = p
  BY DEF waiting
<1>3. \A d \in waiting(p) : d = c
  BY <1>1, <1>2 DEF MathInv, CallsHold
<1> QED
  BY <1>1, <1>3 DEF MathInv, CallsHold

\* What is known of a process at work.
LEMMA AtWork ==
  ASSUME MathInv, NEW p \in Process, proc[p].pc \notin {"off", "create", "open"}
  PROVE  /\ proc[p] \in Running /\ WorkHolds(proc[p], made, DOMAIN stored, failed)
         /\ proc \in [Process -> State] /\ proc[p].head \in 0..Len(made) /\ proc[p].batch \in 0..Len(made)
         /\ proc[p].head # NoID => proc[p].head \in DOMAIN made
         /\ proc[p].batch # NoID => proc[p].batch \in DOMAIN made
         /\ made \in Seq(Node) /\ Len(made) \in Nat /\ Len(made) <= MaxNodes
<1>1. proc \in [Process -> State] /\ made \in Seq(Node) /\ Len(made) <= MaxNodes
  BY DEF MathInv, LoopTypeOK, State
<1>2. proc[p] \in Running
  BY <1>1 DEF State, off
<1>3. WorkHolds(proc[p], made, DOMAIN stored, failed)
  BY <1>2 DEF MathInv, ProcessesHold
<1>4. proc[p].head \in Nat /\ proc[p].batch \in Nat /\ Len(made) \in Nat /\ DOMAIN made = 1..Len(made)
  BY <1>1, <1>2, LoopAssumption DEF Running
<1>5. proc[p].head <= Len(made) /\ proc[p].batch <= Len(made)
  BY <1>3 DEF WorkHolds
<1> QED
  BY <1>1, <1>2, <1>3, <1>4, <1>5 DEF NoID

\* A function of the loop returns an error; when it is WriteNode, the node is noted.
LEMMA FailStep ==
  ASSUME MathInv, NEW p \in Process, proc[p].pc \in {"prompt", "infer", "arrival", "write"}, fail(p),
         UNCHANGED <<made, session, stored>>, acked' = acked, starts' = starts,
         turns' \in 0..MaxTurns, lost' \in 0..MaxLost,
         failed' = IF proc[p].pc = "write" THEN failed \cup {proc[p].head} ELSE failed,
         \/ calls' = calls /\ waiting(p) = {}
         \/ (calls' = calls \ waiting(p) \/ calls' \in abandoned(p)) /\ proc[p].pc = "write"
  PROVE  MathInv'
<1>1. PICK g \in Running : g = proc[p]
  BY AtWork
<1>2. WorkHolds(g, made, DOMAIN stored, failed) /\ g.pc \in {"prompt", "infer", "arrival", "write"}
  BY <1>1, AtWork
<1>3. PICK pc \in {"prompt", "close"} :
        proc' = [proc EXCEPT ![p] = IF @.arriving THEN off
                                    ELSE [@ EXCEPT !.pc = pc, !.batch = NoID, !.step = 0]]
  BY DEF fail
<1>4. PICK h : h = IF g.arriving THEN off ELSE [g EXCEPT !.pc = pc, !.batch = NoID, !.step = 0]
  OBVIOUS
<1>5. proc' = [proc EXCEPT ![p] = h]
  BY <1>1, <1>3, <1>4, AtWork
<1>6. cut' \subseteq 1..Len(made)
  <2>1. cut' = cut \cup ({g.batch} \ {NoID})
    BY <1>1 DEF fail
  <2>2. cut \subseteq 1..Len(made)
    BY DEF MathInv, LoopTypeOK
  <2>3. g.batch # NoID => g.batch \in 1..Len(made)
    BY <1>1, AtWork DEF NoID
  <2> QED
    BY <2>1, <2>2, <2>3
<1>7. /\ starts' \in 0..MaxStarts /\ acked' \subseteq DOMAIN stored
      /\ failed \subseteq failed' /\ failed' \subseteq DOMAIN made
  <2>1. failed \subseteq DOMAIN made
    BY DEF MathInv, ServerHolds
  <2>2. proc[p].pc = "write" => proc[p].head \in DOMAIN made
    BY <1>1, <1>2, AtWork DEF WorkHolds
  <2> QED
    BY <2>1, <2>2 DEF MathInv, ServerHolds
<1>8. h = off \/ /\ h \in Running /\ h.pc = pc /\ h.batch = NoID /\ h.step = 0 /\ h.head = g.head
                 /\ ~g.arriving
  <2>1. CASE ~g.arriving
    <3>1. h = [g EXCEPT !.pc = pc, !.batch = NoID, !.step = 0]
      BY <1>4, <2>1
    <3>2. 0 \in 0..maxToolSteps /\ NoID \in 0..MaxNodes
      BY LoopAssumption DEF NoID
    <3>3. h \in Running
      BY <3>1, <3>2 DEF Running
    <3>4. h.pc = pc /\ h.batch = NoID /\ h.step = 0 /\ h.head = g.head
      BY <3>1 DEF Running
    <3> QED
      BY <2>1, <3>3, <3>4
  <2> QED
    BY <1>4, <2>1
<1>9. h \in State /\ h.pc \notin {"write", "create", "infer", "arrival"}
  BY <1>8 DEF State, off
<1>10. h \in Running => WorkHolds(h, made, DOMAIN stored, failed')
  <2> SUFFICES ASSUME h \in Running PROVE WorkHolds(h, made, DOMAIN stored, failed')
    OBVIOUS
  <2>1. h.pc = pc /\ h.batch = NoID /\ h.head = g.head /\ ~g.arriving
    BY <1>8 DEF off, Running
  <2>2. h.head \in {NoID} \cup DOMAIN stored \cup failed'
    BY <1>1, <1>2, <1>7, <2>1 DEF WorkHolds
  <2>3. h.head # NoID => 1 \in DOMAIN stored
    BY <1>2, <2>1 DEF WorkHolds
  <2>4. h.head <= Len(made) /\ h.batch <= Len(made)
    BY <1>1, <2>1, AtWork DEF NoID
  <2> QED
    BY <2>1, <2>2, <2>3, <2>4 DEF WorkHolds, stage
<1>11. ~idle(proc[p])
  BY DEF idle
<1>12. \/ calls' = calls /\ waiting(p) = {}
       \/ (calls' = calls \ waiting(p) \/ calls' \in abandoned(p)) /\ h.pc # proc[p].pc
  BY <1>9
<1>13. h.pc # "write" /\ (h.pc = "create" => made = << >>)
  BY <1>9
<1> QED
  BY <1>5, <1>6, <1>7, <1>9, <1>10, <1>11, <1>12, <1>13, OneMoves

\* The process ends, at most with an error of its call.
LEMMA StopStep ==
  ASSUME MathInv, NEW p \in Process, proc[p].pc # "off", proc' = [proc EXCEPT ![p] = off],
         UNCHANGED <<made, session, stored, acked, failed, turns, starts>>,
         cut' \subseteq 1..Len(made), lost' \in 0..MaxLost,
         \/ calls' = calls /\ waiting(p) = {}
         \/ calls' = calls \ waiting(p) \/ calls' \in abandoned(p)
  PROVE  MathInv'
<1>1. off \in State /\ off.pc = "off" /\ idle(off) /\ off \notin Running
  BY DEF State, off, idle, Running
<1>2. /\ turns' \in 0..MaxTurns /\ starts' \in 0..MaxStarts /\ acked' \subseteq DOMAIN stored
      /\ failed \subseteq failed' /\ failed' \subseteq DOMAIN made
  BY DEF MathInv, LoopTypeOK, ServerHolds
<1> HIDE DEF off
<1> QED
  BY <1>1, <1>2, OneMoves

\* The end is requested, or the graph is closed already.
LEMMA EndSessionStep ==
  ASSUME MathInv, NEW p \in Process, EndSession(p)
  PROVE  MathInv'
<1>1. /\ proc[p].pc = "close" /\ waiting(p) = {}
      /\ UNCHANGED <<made, turns, cut, session, stored, starts, lost, acked, failed>>
  BY DEF EndSession
<1>2. cut' \subseteq 1..Len(made) /\ lost' \in 0..MaxLost
  BY <1>1 DEF MathInv, LoopTypeOK
<1>3. CASE proc[p].closed
  <2>1. proc' = [proc EXCEPT ![p] = off] /\ calls' = calls
    BY <1>3 DEF EndSession
  <2> QED
    BY <1>1, <1>2, <2>1, StopStep
<1>4. CASE ~proc[p].closed
  <2> DEFINE t == proc[p].head
  <2>1. PICK r : r = request(p, [node |-> << >>, reason |-> "complete", terminal |-> t])
    OBVIOUS
  <2>2. calls' = calls \cup {r} /\ proc' = proc
    BY <1>4, <2>1 DEF EndSession
  <2>3. r.client = p /\ r.event = endEvent(t) /\ r.pc = "sent" /\ r.old = {}
        /\ r \in Handler(r.event, r.old)
    BY <2>1 DEF request, Handler, endEvent
  <2>4. t \in 0..Len(made)
    BY <1>1, AtWork
  <2>5. Expects(proc[p], r.event, made)
    BY <1>1, <2>3 DEF Expects
  <2> HIDE DEF t
  <2>6. CallHolds(r, made, DOMAIN stored, session.status)
    BY <2>3, <2>4 DEF CallHolds
  <2>7. \A n \in DOMAIN made : ~isAbout(r, n)
    BY <2>3, EndArrives DEF isAbout
  <2>8. UNCHANGED <<loopVars, session, stored, starts, lost, acked, failed>>
    BY <1>1, <2>2 DEF loopVars
  <2> QED
    BY <1>1, <2>2, <2>3, <2>5, <2>6, <2>7, <2>8, RequestMade
<1> QED
  BY <1>3, <1>4

-----------------------------------------------------------------------------
(* The answer reaches the client, or does not *)

\* The system message is made below nothing.
LEMMA CreateReturnsStep ==
  ASSUME MathInv, NEW p \in Process, NEW c \in waiting(p), createReturns(p, c),
         calls' = calls \ {c}, UNCHANGED <<session, stored, starts, lost>>
  PROVE  MathInv'
<1>1. /\ proc[p].pc = "create" /\ c.pc = "ok" /\ UNCHANGED <<turns, cut, acked, failed>>
  BY DEF createReturns
<1>2. made = << >> /\ made \in Seq(Node) /\ Len(made) = 0 /\ proc \in [Process -> State]
  BY <1>1 DEF MathInv, ProcessesHold, LoopTypeOK, State
<1>3. waiting(p) = {c} /\ c \in calls /\ c.event = startEvent
  BY <1>1, OneWaits DEF Expects
<1>4. session.status # {}
  BY <1>1, <1>3, RequestKinds
<1>5. PICK x : x = node(NoID, "system", << >>, 0, 0)
  OBVIOUS
<1>6. x \in Node /\ x.parent = 0 /\ x.role = "system" /\ x.calls = << >> /\ x.seq = 0 /\ x.call = 0
  BY <1>5, LoopAssumption DEF node, Node, NoID
<1>7. made' = Append(made, x)
  BY <1>5 DEF createReturns
<1>8. Len(made) + 1 = 1 /\ made'[1] = x /\ Len(made') = 1
  BY <1>2, <1>6, <1>7, Appended
<1>9. PICK h : h = [running("write", {1}, 1, FALSE) EXCEPT !.arriving = TRUE, !.next = "arrive"]
  OBVIOUS
<1>10. proc' = [proc EXCEPT ![p] = h]
  BY <1>8, <1>9 DEF createReturns
<1>11. h = [pc |-> "write", next |-> "arrive", graph |-> {1}, head |-> 1, closed |-> FALSE,
            arriving |-> TRUE, step |-> 0, callSeq |-> 0, batch |-> 0, idx |-> 0]
  BY <1>9 DEF running, NoID
<1>12. h \in Running
  <2>1. {1} \in SUBSET (1..MaxNodes) /\ 1 \in 0..MaxNodes /\ 0 \in 0..MaxNodes /\ 0 \in 0..maxToolSteps
    BY LoopAssumption
  <2> QED
    BY <1>11, <2>1 DEF Running
<1>13. h.pc = "write" /\ h.head = 1 /\ h.batch = 0 /\ h.arriving /\ h.next = "arrive"
  BY <1>11
<1>14. WorkHolds(h, made', DOMAIN stored, failed)
  <2>1. h.head <= Len(made') /\ h.batch <= Len(made')
    BY <1>8, <1>13
  <2>2. \A n \in h.graph : n \in DOMAIN made' /\ made'[n].parent = NoID
    <3>1. h.graph = {1} /\ 1 \in DOMAIN made'
      BY <1>2, <1>6, <1>7, <1>11
    <3> QED
      BY <1>6, <1>8, <3>1 DEF NoID
  <2> QED
    BY <1>13, <2>1, <2>2 DEF WorkHolds, stage, NoID
<1>15. NodeHolds(made', Len(made) + 1)
  BY <1>6, <1>8 DEF NodeHolds
<1>16. LoopTypeOK'
  <2>1. made' \in Seq(Node)
    BY <1>2, <1>6, <1>7
  <2>2. Len(made') <= MaxNodes /\ 1..Len(made) \subseteq 1..Len(made')
    BY <1>2, <1>8, LoopAssumption
  <2>3. proc' \in [Process -> State]
    BY <1>2, <1>10, <1>12 DEF State
  <2>4. turns \in 0..MaxTurns /\ cut \subseteq 1..Len(made)
    BY DEF MathInv, LoopTypeOK
  <2> QED
    BY <1>1, <2>1, <2>2, <2>3, <2>4 DEF LoopTypeOK, State
<1>17. /\ \A d \in calls' : d \in calls /\ d.client # p
       /\ \A d \in calls : d.client # p => d \in calls'
  BY <1>3 DEF waiting
<1>18. ~idle(proc[p]) /\ x.parent \in {NoID} \cup DOMAIN stored \cup failed
  BY <1>1, <1>6 DEF idle, NoID
<1>19. Len(made) # 0 => 1 \in DOMAIN stored
  BY <1>2
<1>20. h.head = Len(made) + 1
  BY <1>8, <1>13
<1>21. UNCHANGED <<session, stored, starts, lost, acked, failed>>
  BY <1>1
<1> QED
  BY <1>4, <1>6, <1>7, <1>10, <1>12, <1>13, <1>14, <1>15, <1>16, <1>17, <1>18, <1>19, <1>20, <1>21,
     NodeAppended

\* An acknowledged node is the one its request was for, and is stored.
LEMMA WriteReturnsStep ==
  ASSUME MathInv, NEW p \in Process, NEW c \in waiting(p), c.pc = "ok", writeReturns(p),
         calls' = calls \ {c}, acked' = acked \cup {proc[p].head},
         UNCHANGED <<session, stored, starts, lost, failed>>
  PROVE  MathInv'
<1>1. /\ proc[p].pc = "write" /\ UNCHANGED <<made, turns, cut>>
  BY DEF writeReturns, writing
<1>2. PICK g \in Running : g = proc[p]
  BY <1>1, AtWork
<1>3. WorkHolds(g, made, DOMAIN stored, failed) /\ g.pc = "write"
      /\ proc \in [Process -> State]
  BY <1>1, <1>2, AtWork
<1>4. waiting(p) = {c} /\ c \in calls /\ c.event = nodeEvent(made, g.head)
  BY <1>1, <1>2, OneWaits DEF Expects
<1>5. g.head \in DOMAIN stored
  <2>1. g.head \in DOMAIN made
    BY <1>1, <1>2, <1>3, AtWork DEF WorkHolds
  <2> QED
    BY <1>4, <2>1, RequestKinds
<1>6. PICK h : h = [g EXCEPT !.pc = g.next, !.batch = IF g.next = "infer" THEN NoID ELSE @,
                             !.arriving = @ /\ g.next # "prompt"]
  OBVIOUS
<1>7. proc' = [proc EXCEPT ![p] = h]
  BY <1>2, <1>3, <1>6 DEF writeReturns
<1>8. h \in Running
  <2>1. PICK b \in 0..MaxNodes : b = IF g.next = "infer" THEN NoID ELSE g.batch
    BY LoopAssumption DEF Running, NoID
  <2>2. PICK a \in BOOLEAN : a = (g.arriving /\ g.next # "prompt")
    OBVIOUS
  <2>3. h = [g EXCEPT !.pc = g.next, !.batch = b, !.arriving = a]
    BY <1>6, <2>1, <2>2
  <2>4. g.next \in {"arrive", "arrival", "prompt", "infer", "write", "tools", "spawn",
                    "teleported", "close"}
    BY DEF Running
  <2> QED
    BY <2>3, <2>4 DEF Running
<1>9. h.pc = g.next /\ h.head = g.head /\ h.batch = (IF g.next = "infer" THEN NoID ELSE g.batch)
      /\ h.step = g.step /\ h.graph = g.graph
  BY <1>6 DEF Running
<1>10. g.next \in {"arrive", "arrival", "prompt", "infer", "tools", "spawn"}
  BY DEF Running
<1>11. WorkHolds(h, made, DOMAIN stored, failed)
  <2>1. h.head <= Len(made) /\ h.batch <= Len(made)
    <3>1. NoID <= Len(made)
      BY <1>1, AtWork DEF NoID
    <3> QED
      BY <1>3, <1>9, <3>1 DEF WorkHolds
  <2>2. 1 \in DOMAIN stored
    BY <1>5 DEF MathInv, ServerHolds
  <2>3. h.head # NoID
    BY <1>3, <1>9 DEF WorkHolds
  <2>4. stage(h) = stage(g)
    BY <1>3, <1>9, <1>10 DEF stage
  <2>5. stage(h) \in {"arrival", "tools", "spawn"} => h.batch = g.batch
    BY <1>9, <1>10, <2>4 DEF stage
  <2> QED
    BY <1>3, <1>5, <1>9, <1>10, <2>1, <2>2, <2>3, <2>4, <2>5 DEF WorkHolds
<1>12. h \in State /\ h.pc # "write" /\ h.pc # "create" /\ h.pc # proc[p].pc /\ ~idle(proc[p])
  BY <1>1, <1>8, <1>9, <1>10 DEF State, idle
<1>13. /\ cut' \subseteq 1..Len(made) /\ turns' \in 0..MaxTurns
       /\ starts' \in 0..MaxStarts /\ lost' \in 0..MaxLost
       /\ acked' \subseteq DOMAIN stored /\ failed \subseteq failed' /\ failed' \subseteq DOMAIN made
  BY <1>1, <1>2, <1>5 DEF MathInv, LoopTypeOK, ServerHolds
<1>14. calls' = calls \ waiting(p) /\ UNCHANGED <<made, session, stored>>
  BY <1>1, <1>4
<1>15. h \in Running => WorkHolds(h, made, DOMAIN stored, failed')
  BY <1>11
<1> QED
  BY <1>7, <1>12, <1>13, <1>14, <1>15, OneMoves

\* An answer reaches the process that waits for it.
LEMMA ReplyStep ==
  ASSUME MathInv, NEW p \in Process, NEW c \in calls, Reply(p, c)
  PROVE  MathInv'
<1>1. c \in waiting(p) /\ calls' = calls \ {c} /\ UNCHANGED <<session, stored, starts, lost>>
  BY DEF Reply
<1>2. calls' = calls \ waiting(p)
  BY <1>1, OneWaits
<1>3. /\ cut \subseteq 1..Len(made) /\ lost' \in 0..MaxLost /\ turns \in 0..MaxTurns
  BY <1>1 DEF MathInv, LoopTypeOK
<1>4. CASE createReturns(p, c)
  BY <1>1, <1>4, CreateReturnsStep
<1>5. CASE callEnds(p)
  <2>1. /\ proc[p].pc # "off" /\ proc' = [proc EXCEPT ![p] = off] /\ cut' \subseteq 1..Len(made)
        /\ UNCHANGED <<made, session, stored, acked, failed, turns, starts>>
    BY <1>1, <1>3, <1>5 DEF callEnds
  <2> QED
    BY <1>2, <1>3, <2>1, StopStep
<1>6. CASE c.pc = "ok" /\ writeReturns(p) /\ acked' = acked \cup {proc[p].head} /\ UNCHANGED failed
  BY <1>1, <1>6, WriteReturnsStep
<1>7. CASE c.pc = "error" /\ writeReturnsError(p)
  <2>1. proc[p].pc = "write" /\ fail(p) /\ UNCHANGED <<made, turns>>
        /\ failed' = failed \cup {proc[p].head} /\ acked' = acked
    BY <1>7 DEF writeReturnsError, writeFails, writing
  <2>2. turns' \in 0..MaxTurns /\ starts' = starts /\ UNCHANGED <<made, session, stored>>
    BY <1>1, <1>3, <2>1
  <2> QED
    BY <1>2, <1>3, <2>1, <2>2, FailStep
<1> QED
  BY <1>4, <1>5, <1>6, <1>7 DEF Reply

\* A broken connection leaves the request to its handler, if it had arrived.
LEMMA ConnectionLostStep ==
  ASSUME MathInv, NEW p \in Process, connectionLost(p)
  PROVE  MathInv'
<1>1. /\ lost < MaxLost /\ lost' = lost + 1 /\ calls' \in abandoned(p)
      /\ UNCHANGED <<session, stored, starts>>
  BY DEF connectionLost
<1>2. cut \subseteq 1..Len(made) /\ turns \in 0..MaxTurns
  BY DEF MathInv, LoopTypeOK
<1>3. lost' \in 0..MaxLost
  BY <1>1, MathAssumption DEF MathInv
<1>4. CASE callEnds(p)
  <2>1. /\ proc[p].pc # "off" /\ proc' = [proc EXCEPT ![p] = off] /\ cut' \subseteq 1..Len(made)
        /\ UNCHANGED <<made, session, stored, acked, failed, turns, starts>>
    BY <1>1, <1>2, <1>4 DEF callEnds
  <2> QED
    BY <1>1, <1>3, <2>1, StopStep
<1>5. CASE writeReturnsError(p)
  <2>1. proc[p].pc = "write" /\ fail(p) /\ UNCHANGED <<made, turns>>
        /\ failed' = failed \cup {proc[p].head} /\ acked' = acked
    BY <1>5 DEF writeReturnsError, writeFails, writing
  <2>2. turns' \in 0..MaxTurns /\ starts' = starts /\ UNCHANGED <<made, session, stored>>
    BY <1>1, <1>2, <2>1
  <2> QED
    BY <1>1, <1>3, <2>1, <2>2, FailStep
<1> QED
  BY <1>4, <1>5 DEF connectionLost

\* A process stops at any point.
LEMMA CrashStep ==
  ASSUME MathInv, NEW p \in Process, crash(p)
  PROVE  MathInv'
<1>1. /\ proc[p].pc \notin {"off", "open"} /\ proc' = [proc EXCEPT ![p] = off]
      /\ calls' \in abandoned(p)
      /\ cut' = cut \cup (IF proc[p].pc # "create" /\ proc[p].batch # NoID THEN {proc[p].batch} ELSE {})
      /\ UNCHANGED <<made, turns, session, stored, starts, lost, acked, failed>>
  BY DEF crash
<1>2. cut \subseteq 1..Len(made) /\ lost' \in 0..MaxLost
  BY <1>1 DEF MathInv, LoopTypeOK
<1>3. cut' \subseteq 1..Len(made)
  <2>1. proc[p].pc # "create" /\ proc[p].batch # NoID => proc[p].batch \in 1..Len(made)
    BY <1>1, AtWork DEF NoID
  <2> QED
    BY <1>1, <1>2, <2>1
<1> QED
  BY <1>1, <1>2, <1>3, StopStep

-----------------------------------------------------------------------------
(* The steps of the loop *)

\* A node is appended below the head, by a process that is not writing; then says
\* where the process goes on once the node is written.
LEMMA AppendStep ==
  ASSUME MathInv, NEW p \in Process, proc[p].pc \in {"prompt", "infer", "tools", "spawn", "arrival"},
         proc[p].head # NoID,
         NEW role \in {"user", "assistant", "calls", "tool"}, NEW cs \in Seq({"tool", "teleport"}),
         NEW seq \in Nat, NEW call \in Nat, NEW then \in Running,
         appendNode(p, role, cs, seq, call, then), UNCHANGED serverVars,
         turns' \in 0..MaxTurns, cut' \subseteq 1..Len(made),
         (role = "calls") <=> (cs # << >>),
         role \notin {"calls", "tool"} => seq = 0, role # "tool" => call = 0,
         then.pc \in {"arrival", "prompt", "infer", "tools", "spawn"},
         then.batch <= Len(made) + 1,
         then.pc \in {"arrival", "tools", "spawn"} => then.batch # NoID,
         then.pc \in {"tools", "spawn"} => then.step < maxToolSteps,
         then.pc = "spawn" => then.batch = Len(made) + 1 /\ "teleport" \in ToSet(cs)
  PROVE  MathInv'
<1>1. PICK n \in Nat : n = Len(made) + 1
  BY AtWork
<1>2. /\ WorkHolds(proc[p], made, DOMAIN stored, failed) /\ proc \in [Process -> State]
      /\ made \in Seq(Node) /\ proc[p].head \in DOMAIN made /\ DOMAIN made = 1..Len(made)
      /\ proc[p].head \in Nat /\ proc[p].head < n /\ 1 < n
  <2>1. /\ WorkHolds(proc[p], made, DOMAIN stored, failed) /\ proc \in [Process -> State]
        /\ made \in Seq(Node) /\ proc[p].head \in DOMAIN made
    BY AtWork
  <2> QED
    BY <1>1, <2>1
<1>3. PICK x : x = node(proc[p].head, role, cs, seq, call)
  OBVIOUS
<1>4. PICK h : h = [then EXCEPT !.graph = @ \cup {n}, !.head = n, !.next = then.pc, !.pc = "write"]
  OBVIOUS
<1>5. n <= MaxNodes /\ made' = Append(made, x) /\ proc' = [proc EXCEPT ![p] = h]
  BY <1>1, <1>3, <1>4 DEF appendNode
<1>6. /\ x.parent = proc[p].head /\ x.role = role /\ x.calls = cs /\ x.seq = seq /\ x.call = call
      /\ x \in Node
  <2>1. proc[p].head \in 0..MaxNodes
    BY <1>2, <1>5, LoopAssumption
  <2> QED
    BY <1>3, <2>1 DEF node, Node
<1>7. /\ Extends(made', made) /\ Len(made') = n /\ made'[n] = x /\ made' \in Seq(Node)
      /\ DOMAIN made' = DOMAIN made \cup {n} /\ n \notin DOMAIN made
  BY <1>1, <1>2, <1>5, <1>6, Appended DEF Extends
<1>8. /\ h.pc = "write" /\ h.head = n /\ h.next = then.pc /\ h.batch = then.batch
      /\ h.step = then.step /\ h.graph = then.graph \cup {n}
  BY <1>4 DEF Running
<1>9. h \in Running
  <2>1. n \in 0..MaxNodes /\ n \in 1..MaxNodes
    BY <1>2, <1>5, LoopAssumption
  <2>2. then.graph \cup {n} \in SUBSET (1..MaxNodes)
    BY <2>1 DEF Running
  <2>3. then.pc \in {"arrive", "arrival", "prompt", "infer", "tools", "spawn"}
    OBVIOUS
  <2>4. PICK g : g = then.graph \cup {n}
    OBVIOUS
  <2>5. h = [then EXCEPT !.graph = g, !.head = n, !.next = then.pc, !.pc = "write"]
    BY <1>4, <2>4
  <2>6. g \in SUBSET (1..MaxNodes)
    BY <2>2, <2>4
  <2> QED
    BY <2>1, <2>3, <2>5, <2>6 DEF Running
<1>10. NodeHolds(made', n)
  BY <1>2, <1>6, <1>7 DEF NodeHolds
<1>11. /\ x.parent \in {NoID} \cup DOMAIN stored \cup failed
       /\ 1 \in DOMAIN stored /\ session.status # {}
  <2>1. made # << >>
    BY <1>2
  <2> QED
    BY <1>2, <1>6, <2>1 DEF WorkHolds, MathInv, ServerHolds
<1>12. WorkHolds(h, made', DOMAIN stored, failed)
  <2>1. then.batch <= n /\ (then.pc = "spawn" => then.batch = n)
    BY <1>1
  <2>2. h.head <= Len(made') /\ h.batch <= Len(made') /\ h.head # NoID /\ h.head # 1
    BY <1>2, <1>7, <1>8, <2>1 DEF NoID
  <2>3. stage(h) = then.pc
    BY <1>8 DEF stage
  <2>4. stage(h) = "spawn" => "teleport" \in ToSet(made'[h.batch].calls)
    BY <1>6, <1>7, <1>8, <2>1, <2>3
  <2>5. stage(h) \in {"arrival", "tools", "spawn"} => h.batch # NoID
    BY <1>8, <2>3
  <2>6. (stage(h) \in {"tools", "spawn"} => h.step < maxToolSteps) /\ stage(h) # "arrive"
    BY <1>8, <2>3
  <2> QED
    BY <1>8, <1>11, <2>2, <2>4, <2>5, <2>6 DEF WorkHolds
<1>13. LoopTypeOK'
  <2>1. proc' \in [Process -> State]
    BY <1>2, <1>5, <1>9 DEF State
  <2>2. Len(made') <= MaxNodes
    BY <1>5, <1>7
  <2>3. 1..Len(made) \subseteq 1..Len(made')
    BY <1>2, <1>7
  <2> QED
    BY <1>7, <2>1, <2>2, <2>3 DEF LoopTypeOK, State
<1>14. \A c \in calls' : c \in calls /\ c.client # p
  <2>1. waiting(p) = {}
    BY NothingAsked
  <2> QED
    BY <2>1 DEF waiting, serverVars
<1>15. /\ UNCHANGED <<session, stored, starts, lost, acked, failed>>
       /\ \A c \in calls : c.client # p => c \in calls'
  BY DEF serverVars
<1>16. ~idle(proc[p])
  BY DEF idle
<1>17. NodeHolds(made', Len(made) + 1) /\ h.head = Len(made) + 1 /\ h.pc = "write"
       /\ (Len(made) # 0 => 1 \in DOMAIN stored)
  BY <1>1, <1>8, <1>10, <1>11
<1> QED
  BY <1>5, <1>6, <1>9, <1>11, <1>12, <1>13, <1>14, <1>15, <1>16, <1>17, NodeAppended

\* An append and an inference need a head.
LEMMA CanAppendHasHead ==
  ASSUME NEW p \in Process
  PROVE  (canAppend(p) => proc[p].head # NoID) /\ (canInfer(p) => proc[p].head # NoID)
BY DEF canAppend, canInfer, resumes

\* An error before a node is made.
LEMMA FailsHere ==
  ASSUME MathInv, NEW p \in Process, proc[p].pc \in {"prompt", "infer", "arrival"}, fail(p),
         made' = made, UNCHANGED serverVars, turns' \in 0..MaxTurns
  PROVE  MathInv'
<1>1. waiting(p) = {}
  BY NothingAsked
<1>2. lost' \in 0..MaxLost /\ acked' = acked /\ starts' = starts /\ failed' = failed
      /\ calls' = calls /\ UNCHANGED <<made, session, stored>>
  BY DEF MathInv, serverVars
<1> QED
  BY <1>1, <1>2, FailStep

\* A user turn: a node below the head, or an error of Append.
LEMMA HandleTurnStep ==
  ASSUME MathInv, NEW p \in Process, mathHandleTurn(p)
  PROVE  MathInv'
<1>1. proc[p].pc = "prompt" /\ turns < MaxTurns /\ turns' = turns + 1 /\ UNCHANGED serverVars
  BY DEF mathHandleTurn, handleTurn
<1>2. turns' \in 0..MaxTurns /\ cut \subseteq 1..Len(made)
  BY <1>1, LoopAssumption DEF MathInv, LoopTypeOK
<1>3. CASE canAppend(p)
  <2>1. PICK g \in Running : g = proc[p]
    BY <1>1, AtWork
  <2>2. PICK then : then = [g EXCEPT !.pc = "infer", !.step = 0]
    OBVIOUS
  <2>3. appendNode(p, "user", << >>, 0, 0, then) /\ cut' = cut
    BY <1>3, <2>1, <2>2 DEF mathHandleTurn, handleTurn
  <2>4. then \in Running /\ then.pc = "infer" /\ then.batch = g.batch
    <3>1. 0 \in 0..maxToolSteps
      BY LoopAssumption
    <3> QED
      BY <2>2, <3>1 DEF Running
  <2>5. then.batch <= Len(made) + 1
    BY <1>1, <2>1, <2>4, AtWork
  <2>6. << >> \in Seq({"tool", "teleport"}) /\ 0 \in Nat /\ cut' \subseteq 1..Len(made)
    BY <1>2, <2>3
  <2> QED
    BY <1>1, <1>2, <1>3, <2>3, <2>4, <2>5, <2>6, CanAppendHasHead, AppendStep
<1>4. CASE ~canAppend(p)
  <2>1. fail(p) /\ made' = made
    BY <1>4 DEF mathHandleTurn, handleTurn
  <2> QED
    BY <1>1, <1>2, <2>1, FailsHere
<1> QED
  BY <1>3, <1>4

\* What follows the result of a call: the next call, or the next round.
LEMMA AfterResult ==
  ASSUME MathInv, NEW p \in Process, proc[p].pc \in {"tools", "arrival"},
         NEW step \in 0..maxToolSteps
  PROVE  /\ afterResult(p, step) \in Running
         /\ afterResult(p, step).pc \in {proc[p].pc, "infer"}
         /\ afterResult(p, step).batch = proc[p].batch
         /\ afterResult(p, step).pc = proc[p].pc => afterResult(p, step).step = proc[p].step
<1>1. PICK g \in Running : g = proc[p]
  BY AtWork
<1>2. g.idx \in Nat /\ g.idx + 1 \in Nat /\ g.pc # "infer"
  BY <1>1 DEF Running
<1>3. afterResult(p, step) = [g EXCEPT !.idx = @ + 1]
      \/ afterResult(p, step) = [g EXCEPT !.pc = "infer", !.step = step]
  BY <1>1 DEF afterResult
<1> HIDE DEF afterResult
<1>4. CASE afterResult(p, step) = [g EXCEPT !.idx = @ + 1]
  <2>1. PICK i \in Nat : i = g.idx + 1
    BY <1>2
  <2>2. PICK h : h = [g EXCEPT !.idx = i]
    OBVIOUS
  <2>3. h \in Running /\ h.pc = g.pc /\ h.batch = g.batch /\ h.step = g.step
    BY <2>1, <2>2 DEF Running
  <2>4. afterResult(p, step) = h
    BY <1>4, <2>1, <2>2
  <2> QED
    BY <1>1, <2>3, <2>4
<1>5. CASE afterResult(p, step) = [g EXCEPT !.pc = "infer", !.step = step]
  <2>1. PICK h : h = [g EXCEPT !.pc = "infer", !.step = step]
    OBVIOUS
  <2>2. h \in Running /\ h.pc = "infer" /\ h.batch = g.batch
    BY <2>1 DEF Running
  <2>3. afterResult(p, step) = h
    BY <1>5, <2>1
  <2> QED
    BY <1>1, <1>2, <2>2, <2>3
<1> QED
  BY <1>3, <1>4, <1>5

\* The answer of the model, below the head.
LEMMA FinalAnswerStep ==
  ASSUME MathInv, NEW p \in Process, finalAnswer(p), UNCHANGED serverVars
  PROVE  MathInv'
<1>1. canInfer(p) /\ proc[p].pc = "infer" /\ UNCHANGED <<turns, cut>>
  BY DEF finalAnswer, canInfer
<1>2. PICK g \in Running : g = proc[p]
  BY <1>1, AtWork
<1>3. PICK then : then = [g EXCEPT !.pc = "prompt"]
  OBVIOUS
<1>4. appendNode(p, "assistant", << >>, 0, 0, then)
  BY <1>2, <1>3 DEF finalAnswer
<1>5. then \in Running /\ then.pc = "prompt" /\ then.batch = g.batch
  BY <1>3 DEF Running
<1>6. then.batch <= Len(made) + 1
  BY <1>1, <1>2, <1>5, AtWork
<1>7. << >> \in Seq({"tool", "teleport"}) /\ 0 \in Nat
  OBVIOUS
<1>8. cut' \subseteq 1..Len(made) /\ turns' \in 0..MaxTurns
  BY <1>1 DEF MathInv, LoopTypeOK
<1> QED
  BY <1>1, <1>4, <1>5, <1>6, <1>7, <1>8, CanAppendHasHead, AppendStep

\* A batch becomes the one the process is about.
LEMMA ToolCallsStep ==
  ASSUME MathInv, NEW p \in Process, NEW cs \in Batch, toolCalls(p, cs), UNCHANGED serverVars
  PROVE  MathInv'
<1>1. /\ canInfer(p) /\ proc[p].pc = "infer" /\ proc[p].step < maxToolSteps
      /\ UNCHANGED <<turns, cut>>
  BY DEF toolCalls, canInfer
<1>2. PICK g \in Running : g = proc[p]
  BY <1>1, AtWork
<1>3. PICK seq \in Nat : seq = g.callSeq + 1
  BY DEF Running
<1>4. PICK n \in Nat : n = Len(made) + 1
  BY <1>1, AtWork
<1>5. PICK pc \in {"spawn", "tools"} : pc = IF "teleport" \in ToSet(cs) THEN "spawn" ELSE "tools"
  OBVIOUS
<1>6. PICK then : then = [g EXCEPT !.pc = pc, !.callSeq = seq, !.batch = n, !.idx = 1]
  OBVIOUS
<1>7. appendNode(p, "calls", cs, seq, 0, then)
  BY <1>2, <1>3, <1>4, <1>5, <1>6 DEF toolCalls
<1>8. n <= MaxNodes
  BY <1>4, <1>7 DEF appendNode
<1>9. then \in Running /\ then.pc = pc /\ then.batch = n /\ then.step = g.step
  <2>1. n \in 0..MaxNodes
    BY <1>8, LoopAssumption
  <2> QED
    BY <1>6, <2>1 DEF Running
<1>10. cs \in Seq({"tool", "teleport"}) /\ cs # << >>
  BY LoopAssumption
<1>11. cut' \subseteq 1..Len(made) /\ turns' \in 0..MaxTurns
  BY <1>1 DEF MathInv, LoopTypeOK
<1>12. /\ then.batch <= Len(made) + 1 /\ then.batch = Len(made) + 1 /\ then.batch # NoID
       /\ then.step < maxToolSteps /\ (then.pc = "spawn" => "teleport" \in ToSet(cs))
       /\ then.pc \in {"tools", "spawn"}
  <2>1. n # 0
    BY <1>1, <1>4, AtWork
  <2> QED
    BY <1>1, <1>2, <1>4, <1>5, <1>9, <2>1 DEF NoID
<1> QED
  BY <1>1, <1>7, <1>9, <1>10, <1>11, <1>12, CanAppendHasHead, AppendStep

\* The result of a call, with a step left for the next round.
LEMMA ExecuteToolStep ==
  ASSUME MathInv, NEW p \in Process, executeTool(p), UNCHANGED serverVars
  PROVE  MathInv'
<1>1. /\ proc[p].pc = "tools" /\ UNCHANGED <<turns, cut>>
  BY DEF executeTool
<1>2. proc[p] \in Running /\ WorkHolds(proc[p], made, DOMAIN stored, failed)
  BY <1>1, AtWork
<1>3. /\ proc[p].step < maxToolSteps /\ proc[p].head # NoID /\ proc[p].batch # NoID
  BY <1>1, <1>2 DEF WorkHolds, stage
<1>4. PICK step \in 0..maxToolSteps : step = proc[p].step + 1
  BY <1>2, <1>3, LoopAssumption DEF Running
<1>5. PICK then : then = afterResult(p, step)
  OBVIOUS
<1>6. /\ then \in Running /\ then.pc \in {"tools", "infer"} /\ then.batch = proc[p].batch
      /\ then.pc = "tools" => then.step = proc[p].step
  BY <1>1, <1>5, AfterResult
<1>7. appendNode(p, "tool", << >>, proc[p].callSeq, proc[p].idx, then)
  BY <1>4, <1>5 DEF executeTool
<1>8. proc[p].callSeq \in Nat /\ proc[p].idx \in Nat /\ << >> \in Seq({"tool", "teleport"})
  BY <1>2 DEF Running
<1>9. cut' \subseteq 1..Len(made) /\ turns' \in 0..MaxTurns
  BY <1>1 DEF MathInv, LoopTypeOK
<1>10. then.batch <= Len(made) + 1
  BY <1>1, <1>6, AtWork
<1> QED
  BY <1>1, <1>3, <1>6, <1>7, <1>8, <1>9, <1>10, AppendStep

\* The error result of the first teleport of the batch, which has one.
LEMMA SpawnFailsStep ==
  ASSUME MathInv, NEW p \in Process, spawnFails(p), UNCHANGED serverVars
  PROVE  MathInv'
<1>1. proc[p].pc = "spawn" /\ turns' = turns
  BY DEF spawnFails
<1>2. PICK g \in Running : g = proc[p]
  BY <1>1, AtWork
<1>3. WorkHolds(g, made, DOMAIN stored, failed)
  BY <1>1, <1>2, AtWork
<1>4. /\ g.step < maxToolSteps /\ g.head # NoID /\ g.batch # NoID
      /\ "teleport" \in ToSet(made[g.batch].calls)
  BY <1>1, <1>2, <1>3 DEF WorkHolds, stage
<1>5. PICK s \in Seq({"tool", "teleport"}) : s = made[g.batch].calls
  <2>1. g.batch \in DOMAIN made /\ made \in Seq(Node)
    BY <1>1, <1>2, <1>4, AtWork
  <2>2. made[g.batch] \in Node
    BY <2>1
  <2> QED
    BY <2>2 DEF Node
<1> DEFINE first(k) == s[k] = "teleport" /\ \A j \in 1..(k - 1) : s[j] # "teleport"
<1>6. \E k \in DOMAIN s : first(k)
  <2> DEFINE K == {k \in 1..Len(s) : s[k] = "teleport"}
  <2>1. DOMAIN s = 1..Len(s) /\ Len(s) \in Nat /\ K \in SUBSET Nat
    BY <1>5
  <2>2. K # {}
    BY <1>4, <1>5, ToSetMember
  <2>3. PICK k \in K : \A j \in K : k <= j
    BY <2>1, <2>2, LeastNumber
  <2>4. ASSUME NEW j \in 1..(k - 1) PROVE s[j] # "teleport"
    BY <2>1, <2>3
  <2> QED
    BY <2>1, <2>3, <2>4
<1>7. PICK i \in DOMAIN s : i = CHOOSE k \in DOMAIN s : first(k)
  BY <1>6
<1>8. i \in Nat /\ << >> \in Seq({"tool", "teleport"})
  BY <1>5
<1>9. PICK step \in 0..maxToolSteps : step = g.step + 1
  BY <1>4, LoopAssumption DEF Running
<1>10. PICK then : then = [g EXCEPT !.pc = "infer", !.step = step]
  OBVIOUS
<1>11. appendNode(p, "tool", << >>, g.callSeq, i, then)
  BY <1>2, <1>5, <1>7, <1>9, <1>10 DEF spawnFails
<1>12. then \in Running /\ then.pc = "infer" /\ then.batch = g.batch
  BY <1>10 DEF Running
<1>13. cut' \subseteq 1..Len(made) /\ turns' \in 0..MaxTurns
  <2>1. cut' \subseteq cut \cup {g.batch}
    BY <1>2 DEF spawnFails
  <2>2. g.batch \in 1..Len(made)
    BY <1>1, <1>2, <1>4, AtWork DEF NoID
  <2> QED
    BY <1>1, <2>1, <2>2 DEF MathInv, LoopTypeOK
<1>14. then.batch <= Len(made) + 1
  BY <1>1, <1>2, <1>12, AtWork
<1>15. g.callSeq \in Nat /\ proc[p].head # NoID
  BY <1>2, <1>4 DEF Running
<1> QED
  BY <1>1, <1>8, <1>11, <1>12, <1>13, <1>14, <1>15, AppendStep

\* An error of the inference.
LEMMA InferenceFailsStep ==
  ASSUME MathInv, NEW p \in Process, inferenceFails(p), UNCHANGED serverVars
  PROVE  MathInv'
<1>1. proc[p].pc = "infer" /\ fail(p) /\ made' = made /\ turns' = turns
  BY DEF inferenceFails
<1>2. turns' \in 0..MaxTurns
  BY <1>1 DEF MathInv, LoopTypeOK
<1> QED
  BY <1>1, <1>2, FailsHere

\* A process goes on without a call, a node or a change at the server.
LEMMA GoesOn ==
  ASSUME MathInv, NEW p \in Process, NEW h \in Running, UNCHANGED <<made, turns, cut, serverVars>>,
         proc' = [proc EXCEPT ![p] = h], waiting(p) = {},
         h.pc # "write", WorkHolds(h, made, DOMAIN stored, failed),
         ~idle(proc[p])
  PROVE  MathInv'
<1>1. h \in State /\ h.pc # "create"
  BY DEF State, Running
<1>2. /\ cut' \subseteq 1..Len(made) /\ turns' \in 0..MaxTurns
      /\ starts' \in 0..MaxStarts /\ lost' \in 0..MaxLost /\ acked' \subseteq DOMAIN stored
      /\ failed \subseteq failed' /\ failed' \subseteq DOMAIN made /\ failed' = failed
      /\ calls' = calls /\ UNCHANGED <<made, session, stored>>
  BY DEF MathInv, LoopTypeOK, ServerHolds, serverVars
<1>3. h \in Running => WorkHolds(h, made, DOMAIN stored, failed')
  BY <1>2
<1> QED
  BY <1>1, <1>2, <1>3, OneMoves

\* A session that was handed over, or one at rest.
LEMMA HandleArrivalStep ==
  ASSUME MathInv, NEW p \in Process, handleArrival(p), UNCHANGED serverVars
  PROVE  MathInv'
<1>1. PICK g \in Running : g = proc[p] /\ g.pc = "arrive"
  BY AtWork DEF handleArrival
<1>2. UNCHANGED <<made, turns, cut, serverVars>>
  BY DEF handleArrival
<1>3. WorkHolds(g, made, DOMAIN stored, failed) /\ proc \in [Process -> State]
      /\ g.batch <= Len(made) /\ g.head <= Len(made)
  BY <1>1, AtWork DEF WorkHolds
<1>4. waiting(p) = {} /\ ~idle(proc[p])
  BY <1>1, NothingAsked DEF idle
<1>5. CASE g.head # NoID /\ made[g.head].role = "calls"
  <2>1. PICK h : h = [g EXCEPT !.pc = "arrival", !.arriving = TRUE, !.batch = g.head, !.idx = 1]
    OBVIOUS
  <2>2. proc' = [proc EXCEPT ![p] = h]
    BY <1>1, <1>3, <1>5, <2>1 DEF handleArrival
  <2>3. h \in Running /\ h.pc = "arrival" /\ h.batch = g.head /\ h.head = g.head
    BY <2>1 DEF Running
  <2>4. WorkHolds(h, made, DOMAIN stored, failed)
    BY <1>1, <1>3, <1>5, <2>3 DEF WorkHolds, stage
  <2> QED
    BY <1>2, <1>4, <2>2, <2>3, <2>4, GoesOn
<1>6. CASE ~(g.head # NoID /\ made[g.head].role = "calls")
  <2>1. PICK h : h = [g EXCEPT !.pc = "prompt", !.arriving = FALSE]
    OBVIOUS
  <2>2. proc' = [proc EXCEPT ![p] = h]
    BY <1>1, <1>3, <1>6, <2>1 DEF handleArrival
  <2>3. h \in Running /\ h.pc = "prompt" /\ h.batch = g.batch /\ h.head = g.head
    BY <2>1 DEF Running
  <2>4. WorkHolds(h, made, DOMAIN stored, failed)
    BY <1>1, <1>3, <1>6, <2>3 DEF WorkHolds, stage
  <2> QED
    BY <1>2, <1>4, <2>2, <2>3, <2>4, GoesOn
<1> QED
  BY <1>5, <1>6

\* A call of the batch that was handed over is answered, or Append fails.
LEMMA ArrivalResultStep ==
  ASSUME MathInv, NEW p \in Process, arrivalResult(p), UNCHANGED serverVars
  PROVE  MathInv'
<1>1. proc[p].pc = "arrival" /\ turns' = turns
  BY DEF arrivalResult
<1>2. turns' \in 0..MaxTurns /\ cut \subseteq 1..Len(made)
  BY <1>1 DEF MathInv, LoopTypeOK
<1>3. CASE canAppend(p)
  <2>1. PICK g \in Running : g = proc[p]
    BY <1>1, AtWork
  <2>2. WorkHolds(g, made, DOMAIN stored, failed)
    BY <1>1, <2>1, AtWork
  <2>3. g.batch # NoID
    BY <1>1, <2>1, <2>2 DEF WorkHolds, stage
  <2>4. g.batch \in DOMAIN made /\ made \in Seq(Node)
    BY <1>1, <2>1, <2>3, AtWork
  <2>5. PICK x \in Node : x = made[g.batch]
    BY <2>4
  <2>6. x.seq \in Nat /\ g.idx \in Nat /\ << >> \in Seq({"tool", "teleport"}) /\ 0 \in 0..maxToolSteps
    BY LoopAssumption DEF Node, Running
  <2>7. PICK then : then = afterResult(p, 0)
    OBVIOUS
  <2>8. then \in Running /\ then.pc \in {"arrival", "infer"} /\ then.batch = g.batch
    BY <1>1, <2>1, <2>6, <2>7, AfterResult
  <2>9. appendNode(p, "tool", << >>, x.seq, g.idx, then) /\ cut' = cut
    BY <1>3, <2>1, <2>5, <2>7 DEF arrivalResult
  <2>10. then.batch <= Len(made) + 1
    BY <1>1, <2>1, <2>8, AtWork
  <2>11. cut' \subseteq 1..Len(made) /\ proc[p].head # NoID
    BY <1>2, <1>3, <2>9, CanAppendHasHead
  <2> QED
    BY <1>1, <1>2, <2>3, <2>6, <2>8, <2>9, <2>10, <2>11, AppendStep
<1>4. CASE ~canAppend(p)
  <2>1. fail(p) /\ made' = made
    BY <1>4 DEF arrivalResult
  <2> QED
    BY <1>1, <1>2, <2>1, FailsHere
<1> QED
  BY <1>3, <1>4

\* The process that handed over exits.
LEMMA ExitTeleportedStep ==
  ASSUME MathInv, NEW p \in Process, exitTeleported(p), UNCHANGED serverVars
  PROVE  MathInv'
<1>1. proc[p].pc = "teleported" /\ proc' = [proc EXCEPT ![p] = off] /\ UNCHANGED <<made, turns, cut>>
  BY DEF exitTeleported
<1>2. waiting(p) = {}
  BY <1>1, NothingAsked
<1>3. cut' \subseteq 1..Len(made) /\ lost' \in 0..MaxLost /\ calls' = calls /\ proc[p].pc # "off"
      /\ UNCHANGED <<made, session, stored, acked, failed, turns, starts>>
  BY <1>1 DEF MathInv, LoopTypeOK, serverVars
<1> QED
  BY <1>1, <1>2, <1>3, StopStep

\* The end of the input.
LEMMA QuitStep ==
  ASSUME MathInv, NEW p \in Process, mathInput(p)
  PROVE  MathInv'
<1>1. PICK g \in Running : g = proc[p] /\ g.pc = "prompt"
  BY AtWork DEF mathInput, quit
<1>2. UNCHANGED <<made, turns, cut, serverVars>>
  BY DEF mathInput, quit
<1>3. WorkHolds(g, made, DOMAIN stored, failed) /\ proc \in [Process -> State]
  BY <1>1, AtWork
<1>4. waiting(p) = {} /\ ~idle(proc[p])
  BY <1>1, NothingAsked DEF idle
<1>5. PICK h : h = [g EXCEPT !.pc = "close"]
  OBVIOUS
<1>6. proc' = [proc EXCEPT ![p] = h]
  BY <1>1, <1>3, <1>5 DEF mathInput, quit
<1>7. h \in Running /\ h.pc = "close" /\ h.batch = g.batch /\ h.head = g.head
  BY <1>5 DEF Running
<1>8. WorkHolds(h, made, DOMAIN stored, failed)
  BY <1>1, <1>3, <1>7 DEF WorkHolds, stage
<1> QED
  BY <1>2, <1>4, <1>6, <1>7, <1>8, GoesOn

\* The session passes from a process to the one it started.
LEMMA SpawnHandoffStep ==
  ASSUME MathInv, NEW p \in Process, mathSpawnHandoff(p)
  PROVE  MathInv'
<1>1. PICK q \in Process : spawnHandoff(p, q, "sgpd")
  BY DEF mathSpawnHandoff
<1>2. /\ starts < MaxStarts /\ starts' = starts + 1
      /\ UNCHANGED <<session, stored, calls, lost, acked, failed, made, turns, cut>>
  BY <1>1 DEF mathSpawnHandoff, spawnHandoff
<1>3. PICK g \in Running : g = proc[p] /\ g.pc = "spawn"
  BY <1>1, AtWork DEF spawnHandoff
<1>4. WorkHolds(g, made, DOMAIN stored, failed) /\ proc \in [Process -> State]
  BY <1>3, AtWork
<1>5. PICK h : h = [g EXCEPT !.pc = "teleported"]
  OBVIOUS
<1>6. PICK o : o = opening("sgpd")
  OBVIOUS
<1>7. proc[q] = off /\ q # p
  BY <1>1, <1>3 DEF spawnHandoff, off
<1>8. /\ proc' = [proc EXCEPT ![p] = h, ![q] = o]
      /\ proc'[p] = h /\ proc'[q] = o /\ \A r \in Process : r # p /\ r # q => proc'[r] = proc[r]
  BY <1>1, <1>3, <1>4, <1>5, <1>6, <1>7 DEF spawnHandoff
<1>9. h \in Running /\ h.pc = "teleported" /\ h.batch = g.batch /\ h.head = g.head
  BY <1>5 DEF Running
<1>10. o \in State /\ o.pc = "open" /\ o \notin Running
  BY <1>6 DEF opening, State, Running
<1>11. WorkHolds(h, made, DOMAIN stored, failed)
  BY <1>3, <1>4, <1>9 DEF WorkHolds, stage
<1>12. LoopTypeOK'
  <2>1. proc' \in [Process -> State]
    BY <1>4, <1>8, <1>9, <1>10 DEF State
  <2> QED
    BY <1>2, <2>1 DEF MathInv, LoopTypeOK, State
<1>13. \A r \in Process : ~idle(proc'[r]) => r = q
  <2>1. \A r \in Process : ~idle(proc[r]) => r = p
    BY <1>3 DEF MathInv, ProcessesHold, idle
  <2> QED
    BY <2>1, <1>8, <1>9 DEF idle
<1>14. \A r \in Process :
           proc'[r] = proc[r] \/ /\ proc'[r].pc # "write"
                                 /\ proc'[r].pc = "create" => made = << >>
                                 /\ proc'[r] \in Running =>
                                      WorkHolds(proc'[r], made, DOMAIN stored, failed')
  BY <1>2, <1>8, <1>9, <1>10, <1>11
<1>15. waiting(p) = {} /\ waiting(q) = {}
  BY <1>3, <1>7, NothingAsked DEF off
<1>16. \A c \in calls : c.client \in Process \cup {Nobody} /\ c.client # p /\ c.client # q
  BY <1>15, RequestKinds DEF waiting
<1>17. \A c \in calls' : c \in calls /\ (c.client # Nobody => proc'[c.client] = proc[c.client])
  BY <1>2, <1>8, <1>16
<1>18. /\ starts' \in 0..MaxStarts /\ lost' \in 0..MaxLost /\ acked' \subseteq DOMAIN stored
       /\ failed \subseteq failed' /\ failed' \subseteq DOMAIN made
  BY <1>2, MathAssumption DEF MathInv, ServerHolds
<1>19. UNCHANGED <<made, session, stored>>
  BY <1>2
<1>20. \A c \in calls : c.client # Nobody /\ proc'[c.client] = proc[c.client] => c \in calls'
  BY <1>2
<1>21. \A a, b \in Process : ~idle(proc'[a]) /\ ~idle(proc'[b]) => a = b
  BY <1>13
<1> QED
  BY <1>12, <1>14, <1>17, <1>18, <1>19, <1>20, <1>21, ProcessesMove

\* main with --sgpd-url, for a new session or for one to be taken up.
LEMMA MainStep ==
  ASSUME MathInv, NEW p \in Process, main(p)
  PROVE  MathInv'
<1>1. /\ \A q \in Process : proc[q] = off
      /\ starts < MaxStarts /\ starts' = starts + 1
      /\ UNCHANGED <<made, turns, cut, session, stored, calls, lost, acked, failed>>
  BY DEF main
<1>2. PICK h \in State :
        /\ proc' = [proc EXCEPT ![p] = h]
        /\ h \notin Running /\ h.pc # "write" /\ (h.pc = "create" => made = << >>)
  <2>1. CASE sessionExists /\ proc' = [proc EXCEPT ![p] = opening("sgpd")]
    <3>1. opening("sgpd") \in State /\ opening("sgpd").pc = "open" /\ opening("sgpd") \notin Running
      BY DEF opening, State, Running
    <3> QED
      BY <2>1, <3>1
  <2>2. CASE ~sessionExists /\ proc' = [proc EXCEPT ![p] = [pc |-> "create"]]
    <3>1. made = << >>
      BY <2>2 DEF MathInv, ServerHolds, sessionExists
    <3>2. [pc |-> "create"] \in State /\ [pc |-> "create"].pc = "create"
          /\ [pc |-> "create"] \notin Running
      BY DEF State, Running
    <3> QED
      BY <2>2, <3>1, <3>2
  <2> QED
    BY <2>1, <2>2 DEF main
<1>3. \A q \in Process : idle(proc[q])
  BY <1>1 DEF idle, off
<1>4. calls' = calls /\ waiting(p) = {}
  BY <1>1, NothingAsked DEF off
<1>5. /\ cut' \subseteq 1..Len(made) /\ turns' \in 0..MaxTurns
      /\ starts' \in 0..MaxStarts /\ lost' \in 0..MaxLost /\ acked' \subseteq DOMAIN stored
      /\ failed \subseteq failed' /\ failed' \subseteq DOMAIN made
      /\ UNCHANGED <<made, session, stored>>
  BY <1>1, MathAssumption DEF MathInv, LoopTypeOK, ServerHolds
<1> HIDE DEF State
<1> QED
  BY <1>2, <1>3, <1>4, <1>5, OneMoves

\* The server has stored finitely many nodes.
LEMMA StoredIsFinite ==
  ASSUME MathInv
  PROVE  IsFiniteSet(DOMAIN stored)
<1>1. made \in Seq(Node) /\ DOMAIN stored \subseteq DOMAIN made
  BY DEF MathInv, LoopTypeOK, ServerHolds
<1>2. DOMAIN made = 1..Len(made) /\ Len(made) \in Nat
  BY <1>1
<1>3. IsFiniteSet(1..Len(made))
  BY <1>2, FS_Interval
<1> QED
  BY <1>1, <1>2, <1>3, FS_Subset

\* What SynthesizeEvents lists are stored nodes.
LEMMA SynthesizedNodes ==
  ASSUME MathInv, NEW events \in synthesized
  PROVE  events \in Seq(DOMAIN stored)
<1>1. PICK m : m = [n \in DOMAIN stored |-> [deps |-> {stored[n].parent} \ {NoID}, ts |-> n]]
  OBVIOUS
<1>2. DOMAIN m = DOMAIN stored
  BY <1>1
<1>3. FiniteMap(m)
  BY <1>2, StoredIsFinite DEF FiniteMap
<1>4. PICK k \in topoSortNodes(m) : events = k.sorted
  BY <1>1 DEF synthesized
<1>5. SortInv(m, k)
  BY <1>3, <1>4, TopoSortNodesEnds
<1> QED
  BY <1>2, <1>4, <1>5 DEF SortInv

\* What LoadGraph restores: a head that is stored, and a graph with no holes.
LEMMA LoadGraphStep ==
  ASSUME MathInv, NEW p \in Process, LoadGraph(p)
  PROVE  MathInv'
<1>1. proc[p].pc = "open" /\ UNCHANGED <<made, turns, cut, serverVars>>
  BY DEF LoadGraph
<1>0. PICK events \in synthesized : \E status :
        proc' = [proc EXCEPT ![p] =
                  IF ~sessionExists \/ ~restores(events) THEN off
                  ELSE running("arrive", ToSet(events),
                               IF events = << >> THEN NoID ELSE Last(events),
                               status = "closed")]
  BY DEF LoadGraph
<1>2. PICK status :
        proc' = [proc EXCEPT ![p] =
                  IF ~sessionExists \/ ~restores(events) THEN off
                  ELSE running("arrive", ToSet(events),
                               IF events = << >> THEN NoID ELSE Last(events),
                               status = "closed")]
  BY <1>0
<1>3. waiting(p) = {} /\ ~idle(proc[p])
  BY <1>1, NothingAsked DEF idle
<1>4. CASE ~sessionExists \/ ~restores(events)
  <2>1. proc' = [proc EXCEPT ![p] = off]
    BY <1>2, <1>4
  <2>2. cut' \subseteq 1..Len(made) /\ lost' \in 0..MaxLost /\ calls' = calls /\ proc[p].pc # "off"
        /\ UNCHANGED <<made, session, stored, acked, failed, turns, starts>>
    BY <1>1 DEF MathInv, LoopTypeOK, serverVars
  <2> QED
    BY <1>3, <2>1, <2>2, StopStep
<1>5. CASE restores(events) /\ sessionExists
  <2>1. /\ events \in Seq(DOMAIN stored) /\ DOMAIN stored \subseteq DOMAIN made
        /\ made \in Seq(Node) /\ Len(made) <= MaxNodes /\ DOMAIN made = 1..Len(made) /\ Len(made) \in Nat
    BY SynthesizedNodes DEF MathInv, LoopTypeOK, ServerHolds
  <2>2. PICK head : head = IF events = << >> THEN NoID ELSE Last(events)
    OBVIOUS
  <2>3. PICK graph : graph = ToSet(events)
    OBVIOUS
  <2>4. graph \subseteq DOMAIN stored /\ (head = NoID \/ head \in graph)
    BY <2>1, <2>2, <2>3, ToSetMember
  <2>5. PICK closed \in BOOLEAN : closed = (status = "closed")
    OBVIOUS
  <2>6. PICK h : h = running("arrive", graph, head, closed)
    OBVIOUS
  <2>7. proc' = [proc EXCEPT ![p] = h]
    BY <1>2, <1>5, <2>2, <2>3, <2>5, <2>6
  <2>8. h = [pc |-> "arrive", next |-> "prompt", graph |-> graph, head |-> head, closed |-> closed,
             arriving |-> FALSE, step |-> 0, callSeq |-> 0, batch |-> 0, idx |-> 0]
    BY <2>6 DEF running, NoID
  <2>9. h \in Running
    <3>1. graph \in SUBSET (1..MaxNodes) /\ head \in 0..MaxNodes /\ 0 \in 0..MaxNodes
          /\ 0 \in 0..maxToolSteps
      BY <2>1, <2>4, LoopAssumption DEF NoID
    <3> QED
      BY <2>8, <3>1 DEF Running
  <2>10. h.pc = "arrive" /\ h.head = head /\ h.batch = 0 /\ h.graph = graph
    BY <2>8
  <2>11. head <= Len(made) /\ (head # NoID => 1 \in DOMAIN stored)
    BY <2>1, <2>4 DEF NoID, MathInv, ServerHolds
  <2>12. ASSUME NEW n \in graph PROVE n \in DOMAIN made /\ made[n].parent \in {NoID} \cup graph
    <3>1. PICK i \in 1..Len(events) : events[i] = n
      BY <2>1, <2>3, ToSetMember
    <3>2. DOMAIN events = 1..Len(events)
      BY <2>1
    <3>3. stored[n].parent \in {NoID} \cup {events[j] : j \in 1..(i - 1)}
      BY <1>5, <3>1, <3>2 DEF restores
    <3>4. \A j \in 1..(i - 1) : events[j] \in graph
      <4>1. ASSUME NEW j \in 1..(i - 1) PROVE j \in 1..Len(events)
        BY <2>1
      <4> QED
        BY <2>1, <2>3, <4>1, ToSetMember
    <3>5. stored[n] = made[n] /\ n \in DOMAIN made
      BY <2>1, <2>4 DEF MathInv, ServerHolds
    <3> QED
      BY <3>3, <3>4, <3>5
  <2>13. WorkHolds(h, made, DOMAIN stored, failed)
    BY <2>1, <2>4, <2>10, <2>11, <2>12 DEF WorkHolds, stage, NoID
  <2> QED
    BY <1>1, <1>3, <2>7, <2>9, <2>10, <2>13, GoesOn
<1> QED
  BY <1>4, <1>5

-----------------------------------------------------------------------------
(* Lineages *)

\* A set of nodes that has their parents has their lineages.
LEMMA LineageStays ==
  ASSUME made \in Seq(Node), \A n \in DOMAIN made : made[n].parent < n,
         NEW T \in SUBSET DOMAIN made, \A n \in T : made[n].parent \in {NoID} \cup T
  PROVE  \A n \in T : ToSet(lineage[n]) \subseteq T
<1>1. PICK L \in Nat : L = Len(made)
  OBVIOUS
<1>2. DOMAIN made = 1..L
  BY <1>1
<1>3. PICK up : up = [n \in 1..L |-> made[n].parent]
  OBVIOUS
<1>4. ASSUME NEW n \in 1..L PROVE up[n] \in 0..(n - 1)
  <2>1. made[n] \in Node /\ made[n].parent < n
    BY <1>2
  <2>2. made[n].parent \in Nat
    BY <2>1, LoopAssumption DEF Node
  <2> QED
    BY <1>3, <2>1, <2>2
<1>5. PICK f : IsPathTable(up, L, f)
  BY <1>4, PathTableExists
<1>6. f = [n \in 0..L |-> IF n = NoID THEN << >> ELSE Append(f[made[n].parent], n)]
  <2>1. \A n \in 0..L : n # 0 => up[n] = made[n].parent
    BY <1>3
  <2> QED
    BY <1>5, <2>1 DEF IsPathTable, NoID
<1>7. lineage = [n \in 0..L |-> IF n = NoID THEN << >> ELSE Append(lineage[made[n].parent], n)]
  BY <1>1, <1>6 DEF lineage
<1>8. IsPathTable(up, L, lineage)
  <2>1. \A n \in 0..L : n # 0 => up[n] = made[n].parent
    BY <1>3
  <2>2. PICK g : g = lineage
    OBVIOUS
  <2>3. g = [n \in 0..L |-> IF n = NoID THEN << >> ELSE Append(g[made[n].parent], n)]
    BY <1>7, <2>2
  <2>4. IsPathTable(up, L, g)
    BY <2>1, <2>3 DEF IsPathTable, NoID
  <2> QED
    BY <2>2, <2>4
<1>9. T \in SUBSET (1..L) /\ \A n \in T : up[n] \in {0} \cup T
  BY <1>2, <1>3 DEF NoID
<1>10. \A n \in T : lineage[n] \in Seq(T)
  BY <1>4, <1>8, <1>9, PathTable
<1> QED
  BY <1>10, ToSetMember

-----------------------------------------------------------------------------
(* A session taken up again goes on at its newest node *)

\* While no write is known to have failed, every process has loaded a session that
\* is as new as any node's parent, so that newer nodes have newer parents and the
\* last event of the sort is the newest one, although a handler that was left
\* behind may add a node beside it.
Newest ==
  failed = {} =>
    /\ \A x, y \in DOMAIN made : x < y => made[x].parent <= made[y].parent
    /\ \A p \in Process : proc[p] \in Running /\ ~idle(proc[p]) =>
         /\ \A x \in DOMAIN made : made[x].parent <= proc[p].head
         /\ stage(proc[p]) = "arrive" => \A n \in acked : n <= proc[p].head

\* A step that makes no node: a process keeps its head, or stops, and what it has
\* been told of is its head.
LEMMA NewestMoves ==
  ASSUME MathInv, Newest, NEW p \in Process, NEW h,
         made' = made, failed \subseteq failed', proc' = [proc EXCEPT ![p] = h],
         h \in Running /\ ~idle(h) =>
           /\ proc[p] \in Running /\ ~idle(proc[p]) /\ h.head = proc[p].head
           /\ stage(h) = "arrive" => stage(proc[p]) = "arrive",
         acked' = acked \/ (acked' = acked \cup {h.head} /\ ~idle(proc[p]))
  PROVE  Newest'
<1> SUFFICES ASSUME failed' = {} PROVE Newest'
  BY DEF Newest
<1>1. failed = {} /\ proc \in [Process -> State]
  BY DEF MathInv, LoopTypeOK, State
<1>2. ASSUME NEW q \in Process, proc'[q] \in Running, ~idle(proc'[q])
      PROVE  /\ \A x \in DOMAIN made' : made'[x].parent <= proc'[q].head
             /\ stage(proc'[q]) = "arrive" => \A n \in acked' : n <= proc'[q].head
  <2>1. CASE q = p
    <3>1. proc'[q] = h /\ h \in Running
      BY <1>1, <1>2, <2>1
    <3>2. h.head <= h.head
      BY <3>1, LoopAssumption DEF Running
    <3> QED
      BY <1>1, <1>2, <3>1, <3>2 DEF Newest
  <2>2. CASE q # p
    <3>1. proc'[q] = proc[q]
      BY <1>1, <2>2
    <3>2. idle(proc[p])
      BY <1>2, <2>2, <3>1 DEF MathInv, ProcessesHold, idle
    <3> QED
      BY <1>1, <1>2, <3>1, <3>2 DEF Newest
  <2> QED
    BY <2>1, <2>2
<1>3. \A x, y \in DOMAIN made' : x < y => made'[x].parent <= made'[y].parent
  BY <1>1 DEF Newest
<1> QED
  BY <1>2, <1>3 DEF Newest

\* A node below the head has the newest parent of all.
LEMMA NewestAppends ==
  ASSUME MathInv, Newest, NEW p \in Process,
         proc[p].pc \in {"prompt", "infer", "tools", "spawn", "arrival"}, proc[p].head # NoID,
         NEW role, NEW cs, NEW seq, NEW call, NEW then \in Running, then.pc # "arrive",
         appendNode(p, role, cs, seq, call, then), UNCHANGED serverVars, MathInv'
  PROVE  Newest'
<1> SUFFICES ASSUME failed' = {} PROVE Newest'
  BY DEF Newest
<1>1. failed = {} /\ acked' = acked
  BY DEF serverVars
<1>2. PICK x : x = node(proc[p].head, role, cs, seq, call)
  OBVIOUS
<1>3. PICK n \in Nat : n = Len(made) + 1
  BY AtWork
<1>4. PICK h : h = [then EXCEPT !.graph = @ \cup {n}, !.head = n, !.next = then.pc, !.pc = "write"]
  OBVIOUS
<1>5. made' = Append(made, x) /\ proc' = [proc EXCEPT ![p] = h] /\ x.parent = proc[p].head
  BY <1>2, <1>3, <1>4 DEF appendNode, node
<1>6. /\ proc[p] \in Running /\ proc[p].head \in DOMAIN made /\ made \in Seq(Node)
      /\ DOMAIN made = 1..Len(made) /\ proc \in [Process -> State]
  BY AtWork
<1>7. /\ made' \in Seq(Node) /\ DOMAIN made' = DOMAIN made \cup {n}
      /\ made'[n] = x /\ \A i \in DOMAIN made : made'[i] = made[i]
  <2>1. made' \in Seq(Node) /\ Len(made') = n
    BY <1>3, <1>5, <1>6 DEF MathInv, LoopTypeOK
  <2> QED
    BY <1>3, <1>5, <1>6, <2>1
<1>8. h.head = n /\ stage(h) # "arrive" /\ ~idle(h)
  BY <1>4 DEF stage, Running, idle
<1>9. ~idle(proc[p])
  BY DEF idle
<1>10. ASSUME NEW i \in DOMAIN made PROVE made[i].parent \in Nat /\ i \in Nat /\ i < n
  <2>1. made[i] \in Node /\ i \in Nat /\ i < n
    BY <1>3, <1>6
  <2> QED
    BY <2>1, LoopAssumption DEF Node
<1>11. \A i \in DOMAIN made : made[i].parent <= proc[p].head
  BY <1>1, <1>6, <1>9 DEF Newest
<1>12. proc[p].head \in Nat /\ proc[p].head < n
  BY <1>6, <1>10
<1>13. \A i, j \in DOMAIN made' : i < j => made'[i].parent <= made'[j].parent
  <2> SUFFICES ASSUME NEW i \in DOMAIN made', NEW j \in DOMAIN made', i < j
               PROVE  made'[i].parent <= made'[j].parent
    OBVIOUS
  <2>1. i \in DOMAIN made
    BY <1>7, <1>10
  <2>2. CASE j \in DOMAIN made
    BY <1>1, <1>7, <2>1, <2>2 DEF Newest
  <2>3. CASE j = n
    BY <1>5, <1>7, <1>11, <2>1, <2>3
  <2> QED
    BY <1>7, <2>2, <2>3
<1>14. \A i \in DOMAIN made' : made'[i].parent <= n
  <2>1. \A i \in DOMAIN made : made[i].parent <= n
    BY <1>10, <1>11, <1>12
  <2>2. x.parent <= n
    BY <1>5, <1>12
  <2> QED
    BY <1>7, <2>1, <2>2
<1>15. ASSUME NEW q \in Process, proc'[q] \in Running, ~idle(proc'[q])
       PROVE  /\ \A i \in DOMAIN made' : made'[i].parent <= proc'[q].head
              /\ stage(proc'[q]) = "arrive" => \A k \in acked' : k <= proc'[q].head
  <2>1. proc'[p] = h
    BY <1>5, <1>6
  <2>2. q = p
    BY <1>8, <1>15, <2>1 DEF MathInv, ProcessesHold, idle
  <2> QED
    BY <1>8, <1>14, <2>1, <2>2
<1> QED
  BY <1>13, <1>15 DEF Newest

\* The last event of the sort is the newest node the server has stored.
LEMMA NewestIsLast ==
  ASSUME MathInv, Newest, failed = {}, NEW events \in synthesized, NEW n \in DOMAIN stored
  PROVE  events # << >> /\ Last(events) \in DOMAIN stored /\ n <= Last(events)
<1>1. PICK m : m = [i \in DOMAIN stored |-> [deps |-> {stored[i].parent} \ {NoID}, ts |-> i]]
  OBVIOUS
<1>2. PICK up : up = [i \in DOMAIN stored |-> stored[i].parent]
  OBVIOUS
<1>3. PICK k \in topoSortNodes(m) : events = k.sorted
  BY <1>1 DEF synthesized
<1>4. DOMAIN m = DOMAIN stored /\ FiniteMap(m)
  BY <1>1, StoredIsFinite DEF FiniteMap
<1>5. /\ made \in Seq(Node) /\ DOMAIN made = 1..Len(made) /\ DOMAIN stored \subseteq DOMAIN made
      /\ \A i \in DOMAIN stored : stored[i] = made[i]
  BY DEF MathInv, LoopTypeOK, ServerHolds
<1>6. ASSUME NEW i \in DOMAIN stored
      PROVE  /\ i \in Nat /\ up[i] \in Nat /\ up[i] < i /\ up[i] \in {0} \cup DOMAIN stored
             /\ up[i] = made[i].parent /\ m[i].ts = i /\ m[i].deps = {up[i]} \ {0}
  <2>1. i \in DOMAIN made /\ stored[i] = made[i] /\ made[i] \in Node
    BY <1>5
  <2>2. made[i].parent < i /\ made[i].parent \in {NoID} \cup DOMAIN stored
    BY <2>1 DEF MathInv, NodesHold, NodeHolds
  <2> QED
    BY <1>1, <1>2, <1>5, <2>1, <2>2, LoopAssumption DEF Node, NoID
<1>7. Layered(m, up)
  <2>1. \A x, y \in DOMAIN m : x < y => up[x] <= up[y]
    BY <1>4, <1>5, <1>6 DEF Newest
  <2>2. DOMAIN m \subseteq Nat
    BY <1>4, <1>6
  <2> QED
    BY <1>4, <1>6, <2>1, <2>2 DEF Layered
<1> QED
  BY <1>3, <1>4, <1>7, LastIsNewest

\* A process that loads the session goes on at that node.
LEMMA NewestLoads ==
  ASSUME MathInv, Newest, NEW p \in Process, LoadGraph(p), MathInv'
  PROVE  Newest'
<1>1. proc[p].pc = "open" /\ UNCHANGED <<made, turns, cut, serverVars>>
  BY DEF LoadGraph
<1>2. PICK events \in synthesized : \E status :
        proc' = [proc EXCEPT ![p] =
                  IF ~sessionExists \/ ~restores(events) THEN off
                  ELSE running("arrive", ToSet(events),
                               IF events = << >> THEN NoID ELSE Last(events),
                               status = "closed")]
  BY DEF LoadGraph
<1>3. PICK h : /\ proc' = [proc EXCEPT ![p] = h]
               /\ h = off \/ h.head = IF events = << >> THEN NoID ELSE Last(events)
  <2>1. PICK head, graph : graph = ToSet(events) /\ head = IF events = << >> THEN NoID ELSE Last(events)
    OBVIOUS
  <2>2. PICK status : proc' = [proc EXCEPT ![p] =
                        IF ~sessionExists \/ ~restores(events) THEN off
                        ELSE running("arrive", graph, head, status = "closed")]
    BY <1>2, <2>1
  <2>3. PICK new : new = running("arrive", graph, head, status = "closed")
    OBVIOUS
  <2>4. new.head = head
    BY <2>3 DEF running
  <2>5. proc' = [proc EXCEPT ![p] = off] \/ proc' = [proc EXCEPT ![p] = new]
    BY <2>2, <2>3
  <2> QED
    BY <2>1, <2>4, <2>5
<1>4. failed' = failed /\ acked' = acked /\ stored' = stored /\ made' = made
  BY <1>1 DEF serverVars
<1>5. CASE h = off
  <2>1. ~(h \in Running /\ ~idle(h))
    BY <1>5 DEF idle, off
  <2> QED
    BY <1>3, <1>4, <2>1, NewestMoves
<1>6. CASE h # off /\ failed' = {}
  <2>1. proc'[p] = h /\ \A q \in Process : q # p => proc'[q] = proc[q]
    BY <1>3 DEF MathInv, LoopTypeOK
  <2>2. \A q \in Process : ~idle(proc'[q]) => q = p
    <3>1. ~idle(proc[p])
      BY <1>1 DEF idle
    <3> QED
      BY <2>1, <3>1 DEF MathInv, ProcessesHold, idle
  <2>3. failed = {} /\ acked \subseteq DOMAIN stored
    BY <1>4, <1>6 DEF MathInv, ServerHolds
  <2>4. \A n \in DOMAIN stored : n <= h.head
    BY <1>3, <1>6, <2>3, NewestIsLast
  <2>5. ASSUME NEW x \in DOMAIN made, h \in Running PROVE made[x].parent <= h.head
    <3>1. made[x].parent \in {NoID} \cup DOMAIN stored
      BY <2>3 DEF MathInv, NodesHold
    <3>2. 0 <= h.head
      BY <2>5, LoopAssumption DEF Running
    <3> QED
      BY <2>4, <3>1, <3>2 DEF NoID
  <2> QED
    BY <1>4, <2>1, <2>2, <2>3, <2>4, <2>5 DEF Newest
<1> QED
  BY <1>5, <1>6 DEF Newest

\* The system message has no parent and is the first node.
LEMMA NewestBegins ==
  ASSUME MathInv, NEW p \in Process, NEW c, createReturns(p, c), MathInv'
  PROVE  Newest'
<1>1. made = << >> /\ acked = {} /\ acked' = acked
  <2>1. made = << >> /\ acked' = acked
    BY DEF createReturns, MathInv, ProcessesHold
  <2>2. acked \subseteq DOMAIN made
    BY DEF MathInv, ServerHolds
  <2> QED
    BY <2>1, <2>2
<1>2. made' = <<node(NoID, "system", << >>, 0, 0)>>
  BY <1>1 DEF createReturns
<1>3. DOMAIN made' = {1} /\ made'[1].parent = 0
  BY <1>2 DEF node, NoID
<1>4. \A x, y \in DOMAIN made' : ~(x < y)
  BY <1>3
<1>5. ASSUME NEW q \in Process, proc'[q] \in Running
      PROVE  \A x \in DOMAIN made' : made'[x].parent <= proc'[q].head
  BY <1>3, <1>5, LoopAssumption DEF Running
<1> QED
  BY <1>1, <1>4, <1>5 DEF Newest

\* A step of the server, or a request, which moves no process.
LEMMA NewestStays ==
  ASSUME Newest, UNCHANGED <<made, proc, acked, failed>>
  PROVE  Newest'
BY DEF Newest

\* A function of the loop returns an error.
LEMMA NewestFails ==
  ASSUME MathInv, Newest, NEW p \in Process, proc[p].pc \in {"prompt", "infer", "arrival", "write"},
         fail(p), made' = made, failed \subseteq failed', acked' = acked
  PROVE  Newest'
<1>1. PICK g \in Running : g = proc[p]
  BY AtWork
<1>2. PICK pc \in {"prompt", "close"} :
        proc' = [proc EXCEPT ![p] = IF @.arriving THEN off
                                    ELSE [@ EXCEPT !.pc = pc, !.batch = NoID, !.step = 0]]
  BY DEF fail
<1>3. PICK h : h = IF g.arriving THEN off ELSE [g EXCEPT !.pc = pc, !.batch = NoID, !.step = 0]
  OBVIOUS
<1>4. proc' = [proc EXCEPT ![p] = h]
  BY <1>1, <1>2, <1>3, AtWork
<1>5. h \in Running /\ ~idle(h) => h.head = g.head /\ stage(h) # "arrive"
  BY <1>3 DEF idle, off, stage, Running
<1>6. ~idle(g)
  BY <1>1 DEF idle
<1> QED
  BY <1>1, <1>4, <1>5, <1>6, NewestMoves

\* A step of one process that keeps its head and makes no node.
LEMMA NewestGoesOn ==
  ASSUME MathInv, Newest, NEW p \in Process, NEW pc \in {"close", "teleported", "arrival", "prompt"},
         ~idle(proc[p]), NEW h, h \in Running => h.pc = pc /\ h.head = proc[p].head,
         proc[p] \in Running,
         proc' = [proc EXCEPT ![p] = h], UNCHANGED <<made, acked, failed>>
  PROVE  Newest'
<1>1. h \in Running => stage(h) # "arrive"
  BY DEF stage
<1> QED
  BY <1>1, NewestMoves

\* The answer of a write.
LEMMA NewestWritten ==
  ASSUME MathInv, Newest, NEW p \in Process, writeReturns(p), acked' = acked \cup {proc[p].head},
         failed' = failed
  PROVE  Newest'
<1>1. proc[p].pc = "write" /\ made' = made
  BY DEF writeReturns, writing
<1>2. PICK g \in Running : g = proc[p]
  BY <1>1, AtWork
<1>3. PICK h : h = [g EXCEPT !.pc = g.next, !.batch = IF g.next = "infer" THEN NoID ELSE @,
                             !.arriving = @ /\ g.next # "prompt"]
  OBVIOUS
<1>4. proc \in [Process -> State]
  BY <1>1, AtWork
<1>5. proc' = [proc EXCEPT ![p] = h]
  BY <1>2, <1>3, <1>4 DEF writeReturns
<1>6. h.head = g.head /\ h.pc = g.next /\ g.next # "write"
  BY <1>3 DEF Running
<1>7. stage(h) = stage(g) /\ ~idle(g)
  BY <1>1, <1>2, <1>6 DEF stage, idle
<1> QED
  BY <1>1, <1>2, <1>5, <1>6, <1>7, NewestMoves

\* A process that stops.
LEMMA NewestStops ==
  ASSUME MathInv, Newest, NEW p \in Process, proc' = [proc EXCEPT ![p] = off],
         made' = made, failed \subseteq failed', acked' = acked
  PROVE  Newest'
<1>1. ~(off \in Running /\ ~idle(off))
  BY DEF idle, off
<1> QED
  BY <1>1, NewestMoves

\* What a request brings back.
LEMMA NewestReplies ==
  ASSUME MathInv, Newest, NEW p \in Process, NEW c \in calls, Reply(p, c), MathInv'
  PROVE  Newest'
<1>1. CASE createReturns(p, c)
  BY <1>1, NewestBegins
<1>2. CASE callEnds(p)
  BY <1>2, NewestStops DEF callEnds
<1>3. CASE writeReturns(p) /\ acked' = acked \cup {proc[p].head} /\ UNCHANGED failed
  BY <1>3, NewestWritten
<1>4. CASE writeReturnsError(p)
  BY <1>4, NewestFails DEF writeReturnsError, writeFails, writing
<1> QED
  BY <1>1, <1>2, <1>3, <1>4 DEF Reply

\* The steps of the loop that make a node, fail, or hand over.
LEMMA NewestLoop ==
  ASSUME MathInv, Newest, NEW p \in Process, mathInferenceLoop(p), MathInv'
  PROVE  Newest'
<1>1. UNCHANGED serverVars /\ UNCHANGED <<acked, failed>>
  BY DEF mathInferenceLoop, serverVars
<1>2. CASE inferenceFails(p)
  BY <1>1, <1>2, NewestFails DEF inferenceFails
<1>3. CASE finalAnswer(p)
  <2>1. canInfer(p) /\ proc[p].pc = "infer"
    BY <1>3 DEF finalAnswer, canInfer
  <2>2. PICK g \in Running : g = proc[p]
    BY <2>1, AtWork
  <2>3. PICK then : then = [g EXCEPT !.pc = "prompt"]
    OBVIOUS
  <2>4. appendNode(p, "assistant", << >>, 0, 0, then)
    BY <1>3, <2>2, <2>3 DEF finalAnswer
  <2>5. then \in Running /\ then.pc = "prompt"
    BY <2>3 DEF Running
  <2> QED
    BY <1>1, <2>1, <2>4, <2>5, CanAppendHasHead, NewestAppends
<1>4. ASSUME NEW cs \in Batch, toolCalls(p, cs) PROVE Newest'
  <2>1. canInfer(p) /\ proc[p].pc = "infer"
    BY <1>4 DEF toolCalls, canInfer
  <2>2. PICK g \in Running : g = proc[p]
    BY <2>1, AtWork
  <2>3. PICK seq \in Nat : seq = g.callSeq + 1
    BY DEF Running
  <2>4. PICK n \in Nat : n = Len(made) + 1
    BY <2>1, AtWork
  <2>5. PICK pc \in {"spawn", "tools"} : pc = IF "teleport" \in ToSet(cs) THEN "spawn" ELSE "tools"
    OBVIOUS
  <2>6. PICK then : then = [g EXCEPT !.pc = pc, !.callSeq = seq, !.batch = n, !.idx = 1]
    OBVIOUS
  <2>7. appendNode(p, "calls", cs, seq, 0, then)
    BY <1>4, <2>2, <2>3, <2>4, <2>5, <2>6 DEF toolCalls
  <2>8. n \in 0..MaxNodes
    BY <2>4, <2>7, LoopAssumption DEF appendNode
  <2>9. then \in Running /\ then.pc # "arrive"
    BY <2>6, <2>8 DEF Running
  <2> QED
    BY <1>1, <2>1, <2>7, <2>9, CanAppendHasHead, NewestAppends
<1>5. CASE executeTool(p)
  <2>1. proc[p].pc = "tools"
    BY <1>5 DEF executeTool
  <2>2. PICK g \in Running : g = proc[p]
    BY <2>1, AtWork
  <2>3. g.step < maxToolSteps /\ g.head # NoID
    BY <2>1, <2>2, AtWork DEF WorkHolds, stage
  <2>4. PICK step \in 0..maxToolSteps : step = g.step + 1
    BY <2>3, LoopAssumption DEF Running
  <2>5. PICK then : then = afterResult(p, step)
    OBVIOUS
  <2>6. then \in Running /\ then.pc # "arrive"
    BY <2>1, <2>5, AfterResult
  <2>7. appendNode(p, "tool", << >>, g.callSeq, g.idx, then)
    BY <1>5, <2>2, <2>4, <2>5 DEF executeTool
  <2> QED
    BY <1>1, <2>1, <2>2, <2>3, <2>6, <2>7, NewestAppends
<1>6. CASE spawnFails(p)
  <2>1. proc[p].pc = "spawn"
    BY <1>6 DEF spawnFails
  <2>2. PICK g \in Running : g = proc[p]
    BY <2>1, AtWork
  <2>3. g.step < maxToolSteps /\ g.head # NoID
    BY <2>1, <2>2, AtWork DEF WorkHolds, stage
  <2>4. PICK step \in 0..maxToolSteps : step = g.step + 1
    BY <2>3, LoopAssumption DEF Running
  <2>5. PICK then : then = [g EXCEPT !.pc = "infer", !.step = step]
    OBVIOUS
  <2>6. then \in Running /\ then.pc # "arrive"
    BY <2>5 DEF Running
  <2>7. then = [proc[p] EXCEPT !.pc = "infer", !.step = @ + 1]
    BY <2>2, <2>4, <2>5
  <2>8. PICK i : appendNode(p, "tool", << >>, g.callSeq, i, then)
    BY <1>6, <2>2, <2>7 DEF spawnFails
  <2> QED
    BY <1>1, <2>1, <2>2, <2>3, <2>6, <2>8, NewestAppends
<1> QED
  BY <1>2, <1>3, <1>4, <1>5, <1>6 DEF mathInferenceLoop

\* The arrival: the head is kept, and answers come below it.
LEMMA NewestArrives ==
  ASSUME MathInv, Newest, NEW p \in Process, mathHandleArrival(p), MathInv'
  PROVE  Newest'
<1>1. UNCHANGED serverVars /\ UNCHANGED <<acked, failed>>
  BY DEF mathHandleArrival, serverVars
<1>2. CASE handleArrival(p)
  <2>1. PICK g \in Running : g = proc[p] /\ g.pc = "arrive"
    BY <1>2, AtWork DEF handleArrival
  <2>2. PICK h : /\ proc' = [proc EXCEPT ![p] = h]
                 /\ \/ h = [g EXCEPT !.pc = "arrival", !.arriving = TRUE, !.batch = g.head, !.idx = 1]
                    \/ h = [g EXCEPT !.pc = "prompt", !.arriving = FALSE]
    BY <1>2, <2>1, AtWork DEF handleArrival
  <2>3. h.pc \in {"arrival", "prompt"} /\ h.head = g.head /\ ~idle(g)
    BY <2>1, <2>2 DEF Running, idle
  <2> QED
    BY <1>1, <1>2, <2>1, <2>2, <2>3, NewestGoesOn DEF handleArrival
<1>3. CASE arrivalResult(p) /\ canAppend(p)
  <2>1. proc[p].pc = "arrival"
    BY <1>3 DEF arrivalResult
  <2>2. PICK seq, call, then : then = afterResult(p, 0) /\ appendNode(p, "tool", << >>, seq, call, then)
    BY <1>3 DEF arrivalResult
  <2>3. 0 \in 0..maxToolSteps
    BY LoopAssumption
  <2>4. then \in Running /\ then.pc # "arrive"
    BY <2>1, <2>2, <2>3, AfterResult
  <2> QED
    BY <1>1, <1>3, <2>1, <2>2, <2>4, CanAppendHasHead, NewestAppends
<1>4. CASE arrivalResult(p) /\ ~canAppend(p)
  BY <1>1, <1>4, NewestFails DEF arrivalResult
<1>5. CASE exitTeleported(p)
  BY <1>1, <1>5, NewestStops DEF exitTeleported
<1> QED
  BY <1>2, <1>3, <1>4, <1>5 DEF mathHandleArrival

\* Every step of the math harness.
LEMMA NewestKept ==
  ASSUME MathInv, Newest, MathNext, MathInv'
  PROVE  Newest'
<1>1. CASE Server
  <2>1. UNCHANGED <<made, proc, acked, failed>>
    BY <1>1 DEF Server, AppendEvent, ApplyNode, ApplySession, HandlerEnds, loopVars
  <2> QED
    BY <2>1, NewestStays
<1>2. ASSUME NEW p \in Process, Client(p) PROVE Newest'
  <2>1. CASE CreateSession(p) \/ WriteNode(p)
    BY <2>1, NewestStays DEF CreateSession, WriteNode, loopVars
  <2>2. CASE EndSession(p)
    <3>1. UNCHANGED <<made, acked, failed>> /\ (proc' = proc \/ proc' = [proc EXCEPT ![p] = off])
      BY <2>2 DEF EndSession
    <3> QED
      BY <3>1, NewestStays, NewestStops
  <2>3. CASE LoadGraph(p)
    BY <2>3, NewestLoads
  <2>4. CASE mathInferenceLoop(p) \/ mathHandleArrival(p)
    BY <2>4, NewestLoop, NewestArrives
  <2>5. CASE mathSpawnHandoff(p)
    <3>1. PICK q \in Process : spawnHandoff(p, q, "sgpd")
      BY <2>5 DEF mathSpawnHandoff
    <3>2. UNCHANGED <<made, acked, failed>>
      BY <2>5, <3>1 DEF mathSpawnHandoff, spawnHandoff
    <3>3. PICK o : o = opening("sgpd")
      OBVIOUS
    <3>4. o \notin Running
      BY <3>3 DEF opening, Running
    <3>5. proc \in [Process -> State]
      BY DEF MathInv, LoopTypeOK, State
    <3>6. \A r \in Process :
            proc'[r] = proc[r] \/ proc'[r] \notin Running \/ idle(proc'[r])
      <4> SUFFICES ASSUME NEW r \in Process, proc'[r] # proc[r]
                   PROVE  proc'[r] \notin Running \/ idle(proc'[r])
        OBVIOUS
      <4>1. proc' = [proc EXCEPT ![p].pc = "teleported", ![q] = o]
        BY <3>1, <3>3 DEF spawnHandoff
      <4>2. CASE r = q
        BY <3>4, <3>5, <4>1, <4>2
      <4>3. CASE r # q
        <5>1. r = p /\ proc[p].pc = "spawn" /\ proc'[r] = [proc[p] EXCEPT !.pc = "teleported"]
          BY <3>1, <3>5, <4>1, <4>3 DEF spawnHandoff
        <5>2. proc[p] \in Running
          BY <5>1, AtWork
        <5>3. proc'[r].pc = "teleported"
          BY <5>1, <5>2 DEF Running
        <5> QED
          BY <5>3 DEF idle
      <4> QED
        BY <4>2, <4>3
    <3> QED
      BY <3>2, <3>6 DEF Newest
  <2>6. CASE \E c \in calls : Reply(p, c)
    BY <2>6, NewestReplies
  <2> QED
    BY <1>2, <2>1, <2>2, <2>3, <2>4, <2>5, <2>6 DEF Client
<1>3. ASSUME NEW p \in Process, main(p) PROVE Newest'
  <2>1. PICK h \in {opening("sgpd"), [pc |-> "create"]} :
          proc' = [proc EXCEPT ![p] = h] /\ UNCHANGED <<made, acked, failed>>
    BY <1>3 DEF main
  <2>2. h \notin Running
    BY DEF opening, Running
  <2> QED
    BY <2>1, <2>2, NewestMoves
<1>4. ASSUME NEW p \in Process, mathHandleTurn(p) PROVE Newest'
  <2>1. proc[p].pc = "prompt" /\ UNCHANGED serverVars /\ UNCHANGED <<acked, failed>>
    BY <1>4 DEF mathHandleTurn, handleTurn, serverVars
  <2>2. CASE canAppend(p)
    <3>1. PICK g \in Running : g = proc[p]
      BY <2>1, AtWork
    <3>2. PICK then : then = [g EXCEPT !.pc = "infer", !.step = 0]
      OBVIOUS
    <3>3. appendNode(p, "user", << >>, 0, 0, then)
      BY <1>4, <2>2, <3>1, <3>2 DEF mathHandleTurn, handleTurn
    <3>4. then \in Running /\ then.pc # "arrive"
      <4>1. 0 \in 0..maxToolSteps
        BY LoopAssumption
      <4> QED
        BY <3>2, <4>1 DEF Running
    <3> QED
      BY <2>1, <2>2, <3>3, <3>4, CanAppendHasHead, NewestAppends
  <2>3. CASE ~canAppend(p)
    BY <1>4, <2>1, <2>3, NewestFails DEF mathHandleTurn, handleTurn
  <2> QED
    BY <2>2, <2>3
<1>5. ASSUME NEW p \in Process, mathInput(p) PROVE Newest'
  <2>1. PICK g \in Running : g = proc[p] /\ g.pc = "prompt"
    BY <1>5, AtWork DEF mathInput, quit
  <2>2. PICK h : h = [g EXCEPT !.pc = "close"]
    OBVIOUS
  <2>3. proc' = [proc EXCEPT ![p] = h]
    BY <1>5, <2>1, <2>2, AtWork DEF mathInput, quit
  <2>4. h.pc = "close" /\ h.head = g.head /\ ~idle(g)
    BY <2>1, <2>2 DEF Running, idle
  <2>5. UNCHANGED <<made, acked, failed>>
    BY <1>5 DEF mathInput, quit, serverVars
  <2> QED
    BY <2>1, <2>3, <2>4, <2>5, NewestGoesOn
<1>6. ASSUME NEW p \in Process, connectionLost(p) PROVE Newest'
  <2>1. CASE callEnds(p)
    BY <2>1, NewestStops DEF callEnds
  <2>2. CASE writeReturnsError(p)
    BY <2>2, NewestFails DEF writeReturnsError, writeFails, writing
  <2> QED
    BY <1>6, <2>1, <2>2 DEF connectionLost
<1>7. ASSUME NEW p \in Process, crash(p) PROVE Newest'
  BY <1>7, NewestStops DEF crash
<1> QED
  BY <1>1, <1>2, <1>3, <1>4, <1>5, <1>6, <1>7 DEF MathNext

-----------------------------------------------------------------------------
(* The conversations of processes that take the session up and lose writes *)

\* A stored node comes below n; no node made does.
HasChild(m, S, n) == \E k \in S : m[k].parent = n
Childless(m, n) == \A k \in DOMAIN m : m[k].parent # n

\* A process with a graph, at work on it.
working(h) == h \in Running /\ ~idle(h)

\* The batches that processes at work are about; none of them when it is NoID.
holding == {NoID} \cup {proc[p].batch : p \in {q \in Process : working(proc[q])}}

\* A node below which nothing is stored may be what LoadGraph ends with: its
\* conversation is settled but for itself and for batches in C, and when it is a batch
\* itself no process goes on below it.
TurnHolds(m, S, C, n) ==
  /\ HasChild(m, S, n) \/ Settled(m, lineageIn(m)[n], C \cup {n})
  /\ m[n].role = "calls" /\ n \notin C => HasChild(m, S, n) \/ Childless(m, n)

\* A conversation with batch b in it ends with the head of the process that is about b,
\* or LoadGraph does not end with it.
BatchHolds(h, m, S, b) ==
  \A n \in DOMAIN m : b \in ToSet(lineageIn(m)[n]) =>
    n = h.head \/ HasChild(m, S, n) \/ (h.pc = "write" /\ m[h.head].parent = n)

\* A process at work on the nodes m, with S stored and C broken off.
TalkWorks(h, m, S, C) ==
  /\ TalkHolds(h, m, C)
  /\ h.pc \in {"arrive", "prompt", "infer", "close"} => h.batch = NoID
  /\ h.pc = "write" /\ h.next \in {"arrive", "prompt"} => h.batch = NoID
  /\ h.pc = "write" /\ h.next = "arrive" => h.arriving
  /\ stage(h) \in {"tools", "spawn"} => h.callSeq = m[h.batch].seq
  /\ stage(h) = "spawn" => h.idx = 1 /\ h.batch = h.head
  /\ h.head # NoID /\ m[h.head].role = "calls" /\ h.head \notin C => Childless(m, h.head)
  /\ h.batch # NoID /\ h.batch \notin C => BatchHolds(h, m, S, h.batch)

TalkInv ==
  /\ NodesFit(made)
  /\ \A n \in DOMAIN made : TurnHolds(made, DOMAIN stored, cut \cup holding, n)
  /\ \A p \in Process : working(proc[p]) => TalkWorks(proc[p], made, DOMAIN stored, cut)

\* Batch b need not be held any longer.
Released(b, m, S, C) ==
  \A n \in DOMAIN m :
    /\ b \in ToSet(lineageIn(m)[n]) => HasChild(m, S, n) \/ Settled(m, lineageIn(m)[n], C \cup {n})
    /\ n = b /\ m[n].role = "calls" /\ n \notin C => HasChild(m, S, n) \/ Childless(m, n)

\* A conversation ends with its node.
LEMMA LastOfLineage ==
  ASSUME NEW m, Rooted(m), NEW n \in DOMAIN m
  PROVE  LET s == lineageIn(m)[n] IN
         /\ s \in Seq(DOMAIN m) /\ IsInjective(s) /\ Len(s) \in Nat \ {0} /\ DOMAIN s = 1..Len(s)
         /\ s[Len(s)] = n /\ n \in ToSet(s)
         /\ ToSet(s) = ToSet(lineageIn(m)[m[n].parent]) \cup {n}
<1>1. PICK t \in Seq(DOMAIN m) : t = lineageIn(m)[m[n].parent]
  BY LineageRows
<1>2. PICK s \in Seq(DOMAIN m) : s = lineageIn(m)[n] /\ s = Append(t, n) /\ IsInjective(s)
  BY <1>1, LineageRows
<1>3. PICK L \in Nat : L = Len(t) /\ DOMAIN t = 1..L
  BY <1>1
<1>4. /\ Len(s) = L + 1 /\ DOMAIN s = 1..(L + 1) /\ s[L + 1] = n
      /\ \A i \in 1..L : s[i] = t[i]
  BY <1>2, <1>3, AppendPositions
<1>5. ToSet(s) = ToSet(t) \cup {n}
  BY <1>3, <1>4 DEF ToSet
<1> QED
  BY <1>1, <1>2, <1>3, <1>4, <1>5

\* A batch that ends a settled conversation was broken off.
LEMMA HeadIsAnswered ==
  ASSUME NEW m, Rooted(m), NEW n \in DOMAIN m, NEW C, Settled(m, lineageIn(m)[n], C),
         m[n].role = "calls", m[n].calls # << >>
  PROVE  n \in C
<1> SUFFICES ASSUME n \notin C PROVE FALSE
  OBVIOUS
<1>1. PICK s \in Seq(DOMAIN m) : s = lineageIn(m)[n]
  BY LastOfLineage
<1>2. PICK L \in Nat \ {0} : L = Len(s) /\ DOMAIN s = 1..L /\ s[L] = n
  BY <1>1, LastOfLineage
<1>3. PICK q : q = talk(m, s)
  OBVIOUS
<1>4. DOMAIN q = 1..L /\ q[L] = m[n] /\ Len(q) = L
  BY <1>2, <1>3 DEF talk
<1>5. answered(q, L)
  BY <1>1, <1>2, <1>3 DEF Settled
<1>6. 1 \in DOMAIN m[n].calls
  <2>1. m[n] \in Node
    BY DEF Rooted
  <2> QED
    BY <2>1 DEF Node
<1>7. L + 1 <= L
  BY <1>4, <1>5, <1>6 DEF answered
<1> QED
  BY <1>7

\* A node without nodes below it is in no conversation but its own.
LEMMA Passed ==
  ASSUME NEW m, Rooted(m), NEW b \in DOMAIN m, Childless(m, b)
  PROVE  \A n \in {NoID} \cup DOMAIN m : b \in ToSet(lineageIn(m)[n]) => n = b
<1> DEFINE bad == {n \in DOMAIN m : b \in ToSet(lineageIn(m)[n]) /\ n # b}
<1>1. m \in Seq(Node) /\ DOMAIN m \subseteq Nat /\ lineageIn(m)[NoID] = << >>
  BY LineageRows DEF Rooted
<1>2. bad = {}
  <2> SUFFICES ASSUME bad # {} PROVE FALSE
    OBVIOUS
  <2>1. PICK n \in bad : \A k \in bad : n <= k
    BY <1>1, LeastNumber
  <2>2. b \in ToSet(lineageIn(m)[m[n].parent])
    <3>1. n \in DOMAIN m /\ b \in ToSet(lineageIn(m)[n]) /\ n # b
      BY <2>1
    <3>2. ToSet(lineageIn(m)[n]) = ToSet(lineageIn(m)[m[n].parent]) \cup {n}
      BY <3>1, LastOfLineage
    <3> QED
      BY <3>1, <3>2
  <2>3. m[n].parent \in {NoID} \cup DOMAIN m /\ m[n].parent # b /\ m[n].parent < n
    BY <2>1, LineageRows DEF Childless, Rooted
  <2>4. m[n].parent # NoID
    BY <1>1, <2>2 DEF ToSet
  <2>5. m[n].parent \in bad
    BY <2>2, <2>3, <2>4
  <2>6. m[n].parent \in Nat /\ n \in Nat
    BY <1>1, <2>1, <2>5
  <2> QED
    BY <2>1, <2>3, <2>5, <2>6
<1>3. b \notin ToSet(<< >>)
  BY DEF ToSet
<1> QED
  BY <1>1, <1>2, <1>3

\* What a process relies on stays true when more is stored and broken off.
LEMMA TalkWorksKept ==
  ASSUME NEW h, NEW m, NEW S, NEW C, TalkWorks(h, m, S, C),
         NEW S2, S \subseteq S2, NEW C2, C \subseteq C2
  PROVE  TalkWorks(h, m, S2, C2)
<1>1. TalkHolds(h, m, C2)
  <2>1. PICK s : s = lineageIn(m)[h.head]
    OBVIOUS
  <2>2. \A D, D2 : D \subseteq D2 /\ Settled(m, s, D) => Settled(m, s, D2)
    BY SettledWithout
  <2>3. \A n : C \cup {n} \subseteq C2 \cup {n}
    OBVIOUS
  <2>4. TalkHolds(h, m, C)
    BY DEF TalkWorks
  <2> QED
    BY <2>1, <2>2, <2>3, <2>4 DEF TalkHolds
<1>2. \A b : BatchHolds(h, m, S, b) => BatchHolds(h, m, S2, b)
  BY DEF BatchHolds, HasChild
<1> QED
  BY <1>1, <1>2 DEF TalkWorks

\* At most one process is at work, and what is held is its batch.
LEMMA Holding ==
  ASSUME MathInv
  PROVE  /\ NoID \in holding /\ NoID \in holding'
         /\ \A p \in Process : working(proc[p]) => holding = {NoID, proc[p].batch}
         /\ \A p \in Process : working(proc'[p]) => proc'[p].batch \in holding'
<1>1. \A p, q \in Process : working(proc[p]) /\ working(proc[q]) => p = q
  BY DEF MathInv, ProcessesHold, working, idle
<1>2. ASSUME NEW p \in Process, working(proc[p]) PROVE holding = {NoID, proc[p].batch}
  <2>1. {q \in Process : working(proc[q])} = {p}
    BY <1>1, <1>2
  <2> QED
    BY <2>1 DEF holding
<1> QED
  BY <1>2 DEF holding

\* What need not be held need not be when more is broken off.
LEMMA ReleasedStays ==
  ASSUME NEW b, NEW m, NEW S, NEW C, Released(b, m, S, C), NEW D, C \subseteq D
  PROVE  Released(b, m, S, D)
<1> SUFFICES ASSUME NEW n \in DOMAIN m
             PROVE  /\ b \in ToSet(lineageIn(m)[n]) =>
                         HasChild(m, S, n) \/ Settled(m, lineageIn(m)[n], D \cup {n})
                    /\ n = b /\ m[n].role = "calls" /\ n \notin D => HasChild(m, S, n) \/ Childless(m, n)
  BY DEF Released
<1>1. C \cup {n} \subseteq D \cup {n}
  OBVIOUS
<1>2. Settled(m, lineageIn(m)[n], C \cup {n}) => Settled(m, lineageIn(m)[n], D \cup {n})
  BY <1>1, SettledWithout
<1> QED
  BY <1>2 DEF Released

\* A step that makes no node: what a process lets go of is broken off or answered.
LEMMA TalkMoves ==
  ASSUME MathInv, TalkInv, made' = made, DOMAIN stored \subseteq DOMAIN stored', cut \subseteq cut',
         \A q \in Process : working(proc'[q]) =>
           proc'[q] = proc[q] \/ TalkWorks(proc'[q], made, DOMAIN stored', cut'),
         \A q \in Process : working(proc[q]) =>
           \/ proc[q].batch \in holding' \cup cut'
           \/ Released(proc[q].batch, made, DOMAIN stored', cut')
  PROVE  TalkInv'
<1>1. PICK S, S2, C, C2 : /\ S = DOMAIN stored /\ S2 = DOMAIN stored'
                          /\ C = cut \cup holding /\ C2 = cut' \cup holding'
  OBVIOUS
<1>2. S \subseteq S2 /\ cut' \subseteq C2
  BY <1>1
<1>3. \/ C \subseteq C2
      \/ \E b : C \subseteq C2 \cup {b} /\ Released(b, made, S2, C2)
  <2>1. CASE \E q \in Process : working(proc[q])
    <3>1. PICK q \in Process : working(proc[q])
      BY <2>1
    <3>2. holding = {NoID, proc[q].batch} /\ NoID \in holding'
      BY <3>1, Holding
    <3>3. C \subseteq C2 \cup {proc[q].batch}
      BY <1>1, <3>2
    <3>4. CASE proc[q].batch \in holding' \cup cut'
      BY <1>1, <3>3, <3>4
    <3>5. CASE Released(proc[q].batch, made, S2, cut')
      BY <1>2, <3>3, <3>5, ReleasedStays
    <3> QED
      BY <1>1, <3>1, <3>4, <3>5
  <2>2. CASE ~\E q \in Process : working(proc[q])
    <3>1. holding = {NoID}
      BY <2>2 DEF holding
    <3> QED
      BY <1>1, <3>1, Holding
  <2> QED
    BY <2>1, <2>2
<1>4. ASSUME NEW n \in DOMAIN made PROVE TurnHolds(made, S2, C2, n)
  <2>1. PICK s : s = lineageIn(made)[n]
    OBVIOUS
  <2>2. TurnHolds(made, S, C, n)
    BY <1>1 DEF TalkInv
  <2>3. HasChild(made, S, n) => HasChild(made, S2, n)
    BY <1>2 DEF HasChild
  <2>4. CASE C \subseteq C2
    <3>1. C \cup {n} \subseteq C2 \cup {n}
      BY <2>4
    <3>2. Settled(made, s, C \cup {n}) => Settled(made, s, C2 \cup {n})
      BY <3>1, SettledWithout
    <3> QED
      BY <2>1, <2>2, <2>3, <2>4, <3>2 DEF TurnHolds
  <2>5. CASE \E b : C \subseteq C2 \cup {b} /\ Released(b, made, S2, C2)
    <3>1. PICK b : C \subseteq C2 \cup {b} /\ Released(b, made, S2, C2)
      BY <2>5
    <3>2. b \in ToSet(s) => HasChild(made, S2, n) \/ Settled(made, s, C2 \cup {n})
      BY <2>1, <3>1 DEF Released
    <3>3. b \notin ToSet(s) /\ Settled(made, s, C \cup {n}) => Settled(made, s, C2 \cup {n})
      <4> SUFFICES ASSUME b \notin ToSet(s), Settled(made, s, C \cup {n}), NEW i \in DOMAIN s,
                          made[s[i]].role = "calls", s[i] \notin C2 \cup {n}
                   PROVE  answered(talk(made, s), i)
        BY DEF Settled
      <4>1. s[i] \in ToSet(s)
        BY DEF ToSet
      <4>2. s[i] \notin C \cup {n}
        BY <3>1, <4>1
      <4> QED
        BY <4>2 DEF Settled
    <3>4. made[n].role = "calls" /\ n \notin C2 => HasChild(made, S2, n) \/ Childless(made, n)
      <4>1. CASE n = b
        BY <3>1, <4>1 DEF Released
      <4>2. CASE n # b
        BY <2>2, <2>3, <3>1, <4>2 DEF TurnHolds
      <4> QED
        BY <4>1, <4>2
    <3> QED
      BY <2>1, <2>2, <2>3, <3>2, <3>3, <3>4 DEF TurnHolds
  <2> QED
    BY <1>3, <2>4, <2>5
<1>5. ASSUME NEW q \in Process, working(proc'[q]) PROVE TalkWorks(proc'[q], made, S2, cut')
  <2>1. CASE proc'[q] = proc[q]
    <3>1. TalkWorks(proc[q], made, S, cut)
      BY <1>1, <1>5, <2>1 DEF TalkInv
    <3> QED
      BY <1>2, <2>1, <3>1, TalkWorksKept
  <2> QED
    BY <1>1, <1>5, <2>1
<1>6. NodesFit(made)
  BY DEF TalkInv
<1> QED
  BY <1>1, <1>4, <1>5, <1>6 DEF TalkInv

\* A step of one process that makes no node.
LEMMA TalkGoesOn ==
  ASSUME MathInv, TalkInv, NEW p \in Process, NEW h, made' = made,
         DOMAIN stored \subseteq DOMAIN stored', cut \subseteq cut', proc' = [proc EXCEPT ![p] = h],
         working(h) => TalkWorks(h, made, DOMAIN stored', cut'),
         working(proc[p]) =>
           \/ working(h) /\ h.batch = proc[p].batch
           \/ proc[p].batch \in {NoID} \cup cut'
           \/ Released(proc[p].batch, made, DOMAIN stored', cut')
  PROVE  TalkInv'
<1>1. proc'[p] = h /\ \A q \in Process : q # p => proc'[q] = proc[q]
  BY DEF MathInv, LoopTypeOK
<1>2. /\ NoID \in holding' /\ \A q \in Process : working(proc'[q]) => proc'[q].batch \in holding'
  BY Holding
<1>3. \A q \in Process : working(proc'[q]) =>
        proc'[q] = proc[q] \/ TalkWorks(proc'[q], made, DOMAIN stored', cut')
  BY <1>1
<1>4. \A q \in Process : working(proc[q]) =>
        \/ proc[q].batch \in holding' \cup cut'
        \/ Released(proc[q].batch, made, DOMAIN stored', cut')
  BY <1>1, <1>2
<1> QED
  BY <1>3, <1>4, TalkMoves

\* What a process that is about to append relies on.
LEMMA AboutToAppend ==
  ASSUME MathInv, TalkInv, NEW p \in Process,
         proc[p].pc \in {"prompt", "infer", "tools", "spawn", "arrival"}, proc[p].head # NoID
  PROVE  /\ working(proc[p]) /\ proc[p].head \in DOMAIN made /\ made \in Seq(Node)
         /\ TalkWorks(proc[p], made, DOMAIN stored, cut) /\ Talking(p)
         /\ Settled(made, lineageIn(made)[proc[p].head], cut \cup {proc[p].batch})
         /\ holding = {NoID, proc[p].batch}
         /\ \A q \in Process : q # p => idle(proc[q])
<1>1. PICK g \in Running : g = proc[p]
  BY AtWork
<1>2. /\ g.head \in DOMAIN made /\ made \in Seq(Node)
      /\ proc \in [Process -> State]
  BY <1>1, AtWork
<1>3. ~idle(g) /\ working(g)
  BY <1>1 DEF idle, working
<1>4. \A q \in Process : q # p => idle(proc[q])
  BY <1>1, <1>3 DEF MathInv, ProcessesHold, idle
<1>5. TalkWorks(g, made, DOMAIN stored, cut) /\ NodesFit(made)
  BY <1>1, <1>3 DEF TalkInv
<1>6. PICK s : s = lineageIn(made)[g.head]
  OBVIOUS
<1>7. TalkHolds(g, made, cut) /\ stage(g) = g.pc
  BY <1>1, <1>5 DEF TalkWorks, stage
<1>8. Settled(made, s, cut) \/ Settled(made, s, cut \cup {g.batch})
  BY <1>1, <1>6, <1>7 DEF TalkHolds
<1>9. cut \subseteq cut \cup {g.batch}
  OBVIOUS
<1>10. Settled(made, s, cut \cup {g.batch})
  BY <1>8, <1>9, SettledWithout
<1>11. holding = {NoID, g.batch}
  BY <1>1, <1>3, Holding
<1> QED
  BY <1>1, <1>2, <1>3, <1>4, <1>5, <1>6, <1>7, <1>10, <1>11 DEF Talking

\* A node more: the process that has made it goes on with a conversation that holds,
\* and no conversation that LoadGraph may end with is left unsettled.
LEMMA TalkAppends ==
  ASSUME MathInv, TalkInv, NEW p \in Process,
         proc[p].pc \in {"prompt", "infer", "tools", "spawn", "arrival"}, proc[p].head # NoID,
         NEW x \in Node, NEW h \in Running, Continues(p, x, h),
         h.next \in {"prompt", "infer", "tools", "spawn", "arrival"},
         stored' = stored, cut \subseteq cut',
         x.role = "calls" => h.batch = h.head /\ proc[p].batch = NoID,
         x.role # "calls" => h.batch = proc[p].batch,
         h.next = "prompt" => h.batch = NoID,
         h.next \in {"tools", "spawn"} => h.callSeq = made'[h.batch].seq,
         h.next = "spawn" => h.idx = 1 /\ h.batch = h.head
  PROVE  TalkInv'
<1>1. PICK g \in Running : g = proc[p] /\ g.head \in DOMAIN made
  BY AboutToAppend DEF working
<1>2. PICK n0 \in Nat : n0 = Len(made) + 1
  BY AboutToAppend
<1>3. /\ x.parent = g.head /\ made' = Append(made, x) /\ proc' = [proc EXCEPT ![p] = h]
      /\ h.pc = "write" /\ h.head = n0 /\ TalkHolds(h, made', cut')
      /\ x.role = "calls" => x.calls # << >>
      /\ x.role = "tool" => HasItsBatch(made, lineageIn(made)[x.parent], x.seq)
  BY <1>1, <1>2 DEF Continues
<1>4. /\ made \in Seq(Node) /\ NodesFit(made) /\ Rooted(made) /\ DOMAIN stored \subseteq DOMAIN made
      /\ DOMAIN made = 1..Len(made) /\ g.head # NoID
  <2>1. made \in Seq(Node) /\ NodesFit(made) /\ g.head # NoID
    BY <1>1, AboutToAppend DEF TalkInv
  <2>2. DOMAIN made = 1..Len(made) /\ DOMAIN stored \subseteq DOMAIN made
    BY <2>1 DEF MathInv, ServerHolds
  <2> QED
    BY <2>1, <2>2, NodesAreRooted
<1>5. PICK s \in Seq(DOMAIN made) : s = lineageIn(made)[g.head]
  BY <1>1, <1>4, LineageRows
<1>6. PICK m2 \in Seq(Node) : m2 = made' /\ m2 = Append(made, x)
  <2>1. Append(made, x) \in Seq(Node)
    BY <1>4
  <2> QED
    BY <1>3, <2>1
<1>7. /\ NodesFit(m2) /\ Extends(m2, made) /\ n0 \in DOMAIN m2 /\ m2[n0] = x
      /\ lineageIn(m2)[n0] = Append(s, n0)
      /\ \A k \in {NoID} \cup DOMAIN made : lineageIn(m2)[k] = lineageIn(made)[k]
      /\ x.parent \in {NoID} \cup DOMAIN made /\ x.parent # NoID
  <2>1. x.parent \in {NoID} \cup DOMAIN made /\ x.parent # NoID
    BY <1>1, <1>3, <1>4
  <2>2. lineageIn(made)[x.parent] = s
    BY <1>3, <1>5
  <2>3. NodesFit(Append(made, x)) /\ Extends(Append(made, x), made)
        /\ Len(made) + 1 \in DOMAIN Append(made, x) /\ Append(made, x)[Len(made) + 1] = x
        /\ lineageIn(Append(made, x))[Len(made) + 1]
             = Append(lineageIn(made)[x.parent], Len(made) + 1)
        /\ \A k \in {NoID} \cup DOMAIN made : lineageIn(Append(made, x))[k] = lineageIn(made)[k]
    BY <1>3, <1>4, <2>1, NodesGrow
  <2> QED
    BY <1>2, <1>6, <2>1, <2>2, <2>3
<1>8. DOMAIN m2 = DOMAIN made \cup {n0} /\ n0 \notin DOMAIN made
  BY <1>2, <1>3, <1>4, <1>6, Appended
<1>9. working(h) /\ working(g)
  BY <1>1, <1>3 DEF working, idle
<1>10. PICK S, C, C2 : S = DOMAIN stored /\ C = cut \cup holding /\ C2 = cut' \cup holding'
  OBVIOUS
<1>11. proc \in [Process -> State] /\ proc'[p] = h /\ \A q \in Process : q # p => proc'[q] = proc[q]
  BY <1>1, <1>3, AtWork
<1>12. /\ holding = {NoID, g.batch} /\ NoID \in holding' /\ h.batch \in holding'
  BY <1>1, <1>9, <1>11, Holding
<1>13. C \subseteq C2 /\ (x.role = "calls" => n0 \in C2)
  BY <1>1, <1>3, <1>10, <1>12
<1>14. Settled(made, s, C)
  <2>1. Settled(made, s, cut \cup {g.batch})
    BY <1>1, <1>5, AboutToAppend
  <2>2. cut \cup {g.batch} \subseteq C
    BY <1>10, <1>12
  <2> QED
    BY <2>1, <2>2, SettledWithout
<1>15. \A n : HasChild(made, S, n) => HasChild(m2, S, n)
  BY <1>4, <1>7, <1>10 DEF HasChild, Extends
<1>16. ASSUME NEW n \in DOMAIN made PROVE TurnHolds(m2, S, C2, n)
  <2>1. TurnHolds(made, S, C, n) /\ m2[n] = made[n]
    BY <1>7, <1>10 DEF TalkInv, Extends
  <2>2. PICK t \in Seq(DOMAIN made) : t = lineageIn(made)[n] /\ t = lineageIn(m2)[n]
    BY <1>4, <1>7, LineageRows
  <2>3. C \cup {n} \subseteq C2 \cup {n}
    BY <1>13
  <2>4. Settled(made, t, C \cup {n}) => Settled(m2, t, C2 \cup {n})
    <3>1. Settled(made, t, C \cup {n}) => Settled(made, t, C2 \cup {n})
      BY <2>3, SettledWithout
    <3> QED
      BY <1>4, <1>7, <2>2, <3>1, TalkStays
  <2>5. ASSUME m2[n].role = "calls", n \notin C2 PROVE HasChild(m2, S, n) \/ Childless(m2, n)
    <3>1. HasChild(made, S, n) \/ Childless(made, n)
      BY <1>13, <2>1, <2>5 DEF TurnHolds
    <3>2. CASE Childless(made, n)
      <4>1. n # g.head
        <5> SUFFICES ASSUME n = g.head PROVE FALSE
          OBVIOUS
        <5>1. made[n].calls # << >> /\ made[n].role = "calls"
          BY <1>4, <2>1, <2>5 DEF NodesFit, Placed
        <5>2. Settled(made, lineageIn(made)[n], C)
          BY <1>5, <1>14
        <5>3. n \in C
          BY <1>4, <5>1, <5>2, HeadIsAnswered
        <5> QED
          BY <1>13, <2>5, <5>3
      <4>2. \A k \in DOMAIN m2 : m2[k].parent # n
        BY <1>3, <1>7, <1>8, <3>2, <4>1 DEF Childless, Extends
      <4> QED
        BY <4>2 DEF Childless
    <3> QED
      BY <1>15, <3>1, <3>2
  <2> QED
    BY <1>15, <2>1, <2>2, <2>4, <2>5 DEF TurnHolds
<1>17. TurnHolds(m2, S, C2, n0)
  <2>1. C \subseteq C2 \cup {n0} /\ (x.role = "calls" => Len(made) + 1 \in C2 \cup {n0})
    BY <1>2, <1>13
  <2>2. Settled(Append(made, x), Append(s, Len(made) + 1), C2 \cup {n0})
    BY <1>4, <1>14, <2>1, SettledGrows
  <2>3. Settled(m2, lineageIn(m2)[n0], C2 \cup {n0})
    BY <1>2, <1>3, <1>6, <1>7, <2>2
  <2> QED
    BY <1>7, <1>13, <2>3 DEF TurnHolds
<1>18. Childless(m2, n0)
  <2>1. ASSUME NEW k \in DOMAIN m2 PROVE m2[k].parent # n0
    <3>1. Rooted(m2)
      BY <1>7, NodesAreRooted
    <3>2. m2[k].parent < k /\ m2[k].parent \in Nat
      <4>1. m2[k] \in Node
        OBVIOUS
      <4> QED
        BY <3>1, <4>1, LoopAssumption DEF Rooted, Node
    <3>3. k \in Nat /\ k <= n0
      BY <1>2, <1>4, <1>8
    <3> QED
      BY <3>2, <3>3
  <2> QED
    BY <2>1 DEF Childless
<1>19. ASSUME h.batch # NoID, h.batch \notin cut' PROVE BatchHolds(h, m2, S, h.batch)
  <2> SUFFICES ASSUME NEW n \in DOMAIN m2, h.batch \in ToSet(lineageIn(m2)[n]), n # n0
               PROVE  HasChild(m2, S, n) \/ m2[h.head].parent = n
    BY <1>3 DEF BatchHolds
  <2>1. n \in DOMAIN made /\ h.batch \in ToSet(lineageIn(made)[n])
    BY <1>7, <1>8
  <2>2. h.batch \in DOMAIN made
    <3>1. PICK t \in Seq(DOMAIN made) : t = lineageIn(made)[n]
      BY <1>4, <2>1, LineageRows
    <3>2. h.batch \in ToSet(t)
      BY <2>1, <3>1
    <3> QED
      BY <3>2 DEF ToSet
  <2>3. h.batch = g.batch
    BY <1>1, <1>3, <1>8, <2>2
  <2>4. TalkWorks(g, made, S, cut)
    BY <1>1, <1>10, AboutToAppend
  <2>5. BatchHolds(g, made, S, g.batch)
    BY <1>19, <2>3, <2>4 DEF TalkWorks
  <2>6. n = g.head \/ HasChild(made, S, n)
    BY <1>1, <2>1, <2>3, <2>5 DEF BatchHolds
  <2> QED
    BY <1>3, <1>7, <1>15, <2>6
<1>20. TalkWorks(h, m2, S, cut')
  <2>1. stage(h) = h.next
    BY <1>3 DEF stage
  <2>2. TalkHolds(h, m2, cut')
    BY <1>3, <1>6
  <2>3. h.next \in {"tools", "spawn"} => h.callSeq = m2[h.batch].seq
    BY <1>6
  <2> QED
    BY <1>3, <1>18, <1>19, <2>1, <2>2, <2>3 DEF TalkWorks
<1>21. ASSUME NEW q \in Process, working(proc'[q]) PROVE q = p
  <2>1. q # p => idle(proc[q]) /\ proc'[q] = proc[q]
    BY <1>11, AboutToAppend
  <2> QED
    BY <1>21, <2>1 DEF working
<1>22. \A n \in DOMAIN m2 : TurnHolds(m2, S, C2, n)
  BY <1>8, <1>16, <1>17
<1> QED
  BY <1>6, <1>7, <1>10, <1>11, <1>20, <1>21, <1>22 DEF TalkInv

\* A step of the server, or a request, which moves no process.
LEMMA TalkStands ==
  ASSUME MathInv, TalkInv, UNCHANGED <<made, proc, cut>>, DOMAIN stored \subseteq DOMAIN stored'
  PROVE  TalkInv'
<1>1. holding' = holding
  BY DEF holding
<1>2. \A q \in Process : working(proc[q]) => proc[q].batch \in holding'
  BY <1>1, Holding
<1> QED
  BY <1>2, TalkMoves

\* A process that stops has no batch, or has it broken off.
LEMMA TalkStops ==
  ASSUME MathInv, TalkInv, NEW p \in Process, proc' = [proc EXCEPT ![p] = off],
         made' = made, stored' = stored, cut \subseteq cut',
         working(proc[p]) => proc[p].batch \in {NoID} \cup cut'
  PROVE  TalkInv'
<1>1. off \notin Running
  BY DEF off, Running
<1>2. ~working(off)
  BY <1>1 DEF working
<1> QED
  BY <1>2, TalkGoesOn

\* What a process at work relies on.
LEMMA WorkTalks ==
  ASSUME MathInv, TalkInv, NEW p \in Process, proc[p].pc \notin {"off", "create", "open", "teleported"}
  PROVE  /\ working(proc[p]) /\ TalkWorks(proc[p], made, DOMAIN stored, cut)
         /\ TalkHolds(proc[p], made, cut)
<1>1. proc[p] \in Running
  BY AtWork
<1>2. working(proc[p])
  BY <1>1 DEF working, idle
<1>3. TalkWorks(proc[p], made, DOMAIN stored, cut)
  BY <1>2 DEF TalkInv
<1> QED
  BY <1>2, <1>3 DEF TalkWorks

\* A function of the loop returns an error: what was being answered is broken off.
LEMMA TalkFails ==
  ASSUME MathInv, TalkInv, NEW p \in Process, proc[p].pc \in {"prompt", "infer", "arrival", "write"},
         fail(p), made' = made, stored' = stored
  PROVE  TalkInv'
<1>1. PICK g \in Running : g = proc[p]
  BY AtWork
<1>2. PICK pc \in {"prompt", "close"} :
        proc' = [proc EXCEPT ![p] = IF @.arriving THEN off
                                    ELSE [@ EXCEPT !.pc = pc, !.batch = NoID, !.step = 0]]
  BY DEF fail
<1>3. proc \in [Process -> State]
  BY AtWork
<1>4. cut' = cut \cup ({g.batch} \ {NoID})
  BY <1>1 DEF fail
<1>5. cut \subseteq cut' /\ g.batch \in {NoID} \cup cut'
  BY <1>4
<1>6. CASE g.arriving
  <2>1. proc' = [proc EXCEPT ![p] = off]
    BY <1>1, <1>2, <1>3, <1>6
  <2> QED
    BY <1>1, <1>5, <2>1, TalkStops
<1>7. CASE ~g.arriving
  <2>1. PICK h : h = [g EXCEPT !.pc = pc, !.batch = NoID, !.step = 0]
    OBVIOUS
  <2>2. proc' = [proc EXCEPT ![p] = h]
    BY <1>1, <1>2, <1>3, <1>7, <2>1
  <2>3. h.pc = pc /\ h.batch = NoID /\ h.head = g.head
    BY <2>1 DEF Running
  <2>4. TalkWorks(g, made, DOMAIN stored, cut) /\ TalkHolds(g, made, cut) /\ working(g)
    BY <1>1, WorkTalks
  <2>5. stage(g) # "arrive"
    BY <1>1, <1>7, <2>4 DEF TalkWorks, stage
  <2>6. PICK s : s = lineageIn(made)[g.head]
    OBVIOUS
  <2>7. pc = "prompt" => Settled(made, s, cut')
    <3>1. CASE stage(g) \in {"prompt", "infer"}
      <4>1. Settled(made, s, cut)
        BY <2>4, <2>6, <3>1 DEF TalkHolds
      <4> QED
        BY <1>5, <4>1, SettledWithout
    <3>2. CASE stage(g) \in {"arrival", "tools", "spawn"}
      <4>1. Settled(made, s, cut \cup {g.batch})
        BY <2>4, <2>6, <3>2 DEF TalkHolds
      <4>2. g.batch # NoID
        BY <1>1, <3>2, AtWork DEF WorkHolds
      <4>3. cut \cup {g.batch} \subseteq cut'
        BY <1>4, <4>2
      <4> QED
        BY <4>1, <4>3, SettledWithout
    <3>3. stage(g) \in {"prompt", "infer", "arrival", "tools", "spawn"}
      BY <1>1, <2>5 DEF stage, Running
    <3> QED
      BY <3>1, <3>2, <3>3
  <2>8. TalkHolds(h, made, cut')
    BY <2>3, <2>6, <2>7 DEF TalkHolds, stage
  <2>9. h.head # NoID /\ made[h.head].role = "calls" /\ h.head \notin cut' => Childless(made, h.head)
    BY <1>5, <2>3, <2>4 DEF TalkWorks
  <2>10. TalkWorks(h, made, DOMAIN stored, cut')
    BY <2>3, <2>8, <2>9 DEF TalkWorks, stage
  <2> QED
    BY <1>1, <1>5, <2>2, <2>10, TalkGoesOn
<1> QED
  BY <1>6, <1>7

\* A write that has returned leaves its node on the server: below the nodes above it,
\* something is stored.
LEMMA TalkWritten ==
  ASSUME MathInv, TalkInv, NEW p \in Process, writeReturns(p), stored' = stored,
         proc[p].head \in DOMAIN stored
  PROVE  TalkInv'
<1>1. proc[p].pc = "write" /\ made' = made /\ cut' = cut
  BY DEF writeReturns, writing
<1>2. PICK g \in Running : g = proc[p]
  BY <1>1, AtWork
<1>3. PICK batch : batch = IF g.next = "infer" THEN NoID ELSE g.batch
  OBVIOUS
<1>4. PICK h : h = [g EXCEPT !.pc = g.next, !.batch = batch, !.arriving = @ /\ g.next # "prompt"]
  OBVIOUS
<1>5. proc' = [proc EXCEPT ![p] = h]
  BY <1>2, <1>3, <1>4, AtWork DEF writeReturns
<1>6. /\ h.pc = g.next /\ h.head = g.head /\ h.batch = batch /\ h.idx = g.idx /\ h.callSeq = g.callSeq
      /\ g.pc = "write" /\ g.next \in {"arrive", "arrival", "prompt", "infer", "tools", "spawn"}
      /\ h \in Running
  <2>1. batch \in 0..MaxNodes
    BY <1>3, LoopAssumption DEF Running, NoID
  <2> QED
    BY <1>1, <1>2, <1>4, <2>1 DEF Running
<1>7. stage(h) = g.next /\ stage(g) = g.next /\ working(h)
  BY <1>6 DEF stage, working, idle
<1>8. TalkWorks(g, made, DOMAIN stored, cut) /\ TalkHolds(g, made, cut) /\ working(g)
  BY <1>1, <1>2, WorkTalks
<1>9. \A n \in DOMAIN made : made[g.head].parent = n => HasChild(made, DOMAIN stored, n)
  BY <1>2 DEF HasChild
<1>10. TalkHolds(h, made, cut)
  BY <1>3, <1>6, <1>7, <1>8 DEF TalkHolds
<1>11. \A b : BatchHolds(g, made, DOMAIN stored, b) => BatchHolds(h, made, DOMAIN stored, b)
  BY <1>6, <1>9 DEF BatchHolds
<1>12. TalkWorks(h, made, DOMAIN stored, cut)
  <2>1. /\ g.next \in {"arrive", "prompt"} => g.batch = NoID
        /\ g.next \in {"tools", "spawn"} => g.callSeq = made[g.batch].seq
        /\ g.next = "spawn" => g.idx = 1 /\ g.batch = g.head
        /\ g.head # NoID /\ made[g.head].role = "calls" /\ g.head \notin cut => Childless(made, g.head)
        /\ g.batch # NoID /\ g.batch \notin cut => BatchHolds(g, made, DOMAIN stored, g.batch)
    BY <1>6, <1>7, <1>8 DEF TalkWorks
  <2> QED
    BY <1>3, <1>6, <1>7, <1>10, <1>11, <2>1 DEF TalkWorks
<1>13. h.batch = g.batch \/ g.batch \in {NoID} \cup cut \/ Released(g.batch, made, DOMAIN stored, cut)
  <2> SUFFICES ASSUME g.next = "infer", g.batch # NoID, g.batch \notin cut
               PROVE  Released(g.batch, made, DOMAIN stored, cut)
    BY <1>3, <1>6
  <2>1. BatchHolds(g, made, DOMAIN stored, g.batch)
    BY <1>8 DEF TalkWorks
  <2>2. \A n \in DOMAIN made :
          g.batch \in ToSet(lineageIn(made)[n]) => n = g.head \/ HasChild(made, DOMAIN stored, n)
    BY <1>9, <2>1 DEF BatchHolds
  <2>3. Settled(made, lineageIn(made)[g.head], cut)
    BY <1>7, <1>8 DEF TalkHolds
  <2>4. Settled(made, lineageIn(made)[g.head], cut \cup {g.head})
    BY <2>3, SettledWithout
  <2>5. g.batch \in DOMAIN made /\ made \in Seq(Node) /\ g.head # NoID
    BY <1>1, <1>2, AtWork DEF WorkHolds
  <2>6. g.batch \in ToSet(lineageIn(made)[g.batch])
    <3>1. Rooted(made)
      BY <2>5, NodesAreRooted DEF TalkInv
    <3> QED
      BY <2>5, <3>1, LastOfLineage
  <2>7. g.head # NoID /\ made[g.head].role = "calls" /\ g.head \notin cut => Childless(made, g.head)
    BY <1>8 DEF TalkWorks
  <2> QED
    BY <2>2, <2>4, <2>5, <2>6, <2>7 DEF Released
<1> QED
  BY <1>1, <1>2, <1>5, <1>7, <1>12, <1>13, TalkGoesOn

\* LoadGraph lists every stored node, and none after the nodes below it.
LEMMA LastIsLeaf ==
  ASSUME MathInv, NEW events \in synthesized, events # << >>
  PROVE  Last(events) \in DOMAIN stored /\ ~HasChild(made, DOMAIN stored, Last(events))
<1>1. PICK m : m = [i \in DOMAIN stored |-> [deps |-> {stored[i].parent} \ {NoID}, ts |-> i]]
  OBVIOUS
<1>2. PICK k \in topoSortNodes(m) : events = k.sorted
  BY <1>1 DEF synthesized
<1>3. DOMAIN m = DOMAIN stored /\ FiniteMap(m)
  BY <1>1, StoredIsFinite DEF FiniteMap
<1>4. /\ made \in Seq(Node) /\ DOMAIN made = 1..Len(made) /\ Len(made) \in Nat
      /\ DOMAIN stored \subseteq DOMAIN made
      /\ \A i \in DOMAIN stored : stored[i] = made[i]
  BY DEF MathInv, LoopTypeOK, ServerHolds
<1>5. ASSUME NEW i \in DOMAIN stored
      PROVE  /\ i \in 1..Len(made) /\ made[i].parent \in Nat /\ made[i].parent < i
             /\ depsInScope(m, i) = ({made[i].parent} \ {0}) \cap DOMAIN stored
  <2>1. i \in DOMAIN made /\ stored[i] = made[i] /\ made[i] \in Node
    BY <1>4
  <2>2. made[i].parent < i
    BY <2>1 DEF MathInv, NodesHold, NodeHolds
  <2>3. m[i].deps = {made[i].parent} \ {0}
    BY <1>1, <2>1 DEF NoID
  <2> QED
    BY <1>3, <1>4, <2>1, <2>2, <2>3, LoopAssumption DEF Node, depsInScope
<1>6. PICK s \in Seq(Nat) : s = [i \in 1..Len(made) |-> i]
  <2>1. [i \in 1..Len(made) |-> i] \in Seq(Nat)
    BY <1>4
  <2> QED
    BY <2>1
<1>7. DOMAIN s = 1..Len(made) /\ \A i \in 1..Len(made) : s[i] = i
  BY <1>6
<1>8. Witnesses(s, m)
  <2>1. DOMAIN m \subseteq ToSet(s)
    <3> SUFFICES ASSUME NEW i \in DOMAIN m PROVE i \in ToSet(s)
      OBVIOUS
    <3>1. i \in 1..Len(made)
      BY <1>3, <1>5
    <3> QED
      BY <1>7, <3>1 DEF ToSet
  <2>2. ASSUME NEW i \in DOMAIN s, s[i] \in DOMAIN m
        PROVE  depsInScope(m, s[i]) \subseteq {s[j] : j \in 1..(i - 1)}
    <3> SUFFICES ASSUME NEW d \in depsInScope(m, i) PROVE d \in {s[j] : j \in 1..(i - 1)}
      BY <1>7
    <3>1. i \in DOMAIN stored /\ i \in Nat /\ i <= Len(made)
      BY <1>3, <1>4, <1>7, <2>2
    <3>2. d \in Nat /\ d # 0 /\ d < i
      BY <1>5, <3>1
    <3>3. d \in 1..(i - 1) /\ d \in 1..Len(made)
      BY <1>4, <3>1, <3>2
    <3>4. s[d] = d
      BY <1>7, <3>3
    <3> QED
      BY <3>3, <3>4
  <2> QED
    BY <2>1, <2>2 DEF Witnesses
<1>9. AllSorted(events, m)
  BY <1>2, <1>3, <1>8, SortSucceeds
<1>10. events \in Seq(DOMAIN stored) /\ IsInjective(events) /\ ToSet(events) = DOMAIN stored
       /\ \A i \in DOMAIN events : \A d \in depsInScope(m, events[i]) :
            \E j \in 1..(i - 1) : events[j] = d
  BY <1>3, <1>9 DEF AllSorted
<1>11. PICK L \in Nat \ {0} : L = Len(events) /\ DOMAIN events = 1..L
  BY <1>10
<1>12. Last(events) = events[L] /\ L \in DOMAIN events /\ events[L] \in DOMAIN stored
  BY <1>10, <1>11 DEF Last
<1>13. ASSUME HasChild(made, DOMAIN stored, events[L]) PROVE FALSE
  <2>1. PICK n \in DOMAIN stored : made[n].parent = events[L]
    BY <1>13 DEF HasChild
  <2>2. PICK i \in DOMAIN events : events[i] = n
    BY <1>10 DEF ToSet
  <2>3. events[L] # 0
    BY <1>5, <1>12
  <2>4. events[L] \in depsInScope(m, events[i])
    BY <1>5, <1>12, <2>1, <2>2, <2>3
  <2>5. PICK j \in 1..(i - 1) : events[j] = events[L]
    BY <1>10, <2>4
  <2>6. j \in DOMAIN events /\ j # L
    BY <1>11, <2>2, <2>5
  <2> QED
    BY <1>10, <1>12, <2>5, <2>6 DEF IsInjective
<1> QED
  BY <1>12, <1>13

\* A process that loads the session begins with a conversation that is settled, but
\* for the batch it ends with.
LEMMA TalkLoads ==
  ASSUME MathInv, TalkInv, NEW p \in Process, LoadGraph(p)
  PROVE  TalkInv'
<1>1. proc[p].pc = "open" /\ UNCHANGED <<made, turns, cut, serverVars>>
  BY DEF LoadGraph
<1>2. PICK events \in synthesized : \E status :
        proc' = [proc EXCEPT ![p] =
                  IF ~sessionExists \/ ~restores(events) THEN off
                  ELSE running("arrive", ToSet(events),
                               IF events = << >> THEN NoID ELSE Last(events),
                               status = "closed")]
  BY DEF LoadGraph
<1>3. PICK head : head = IF events = << >> THEN NoID ELSE Last(events)
  OBVIOUS
<1>4. PICK h : /\ proc' = [proc EXCEPT ![p] = h]
               /\ h = off \/ (h.pc = "arrive" /\ h.head = head /\ h.batch = NoID)
  <2>1. PICK graph : graph = ToSet(events)
    OBVIOUS
  <2>2. PICK status : proc' = [proc EXCEPT ![p] =
                        IF ~sessionExists \/ ~restores(events) THEN off
                        ELSE running("arrive", graph, head, status = "closed")]
    BY <1>2, <1>3, <2>1
  <2>3. PICK new : new = running("arrive", graph, head, status = "closed")
    OBVIOUS
  <2>4. new.pc = "arrive" /\ new.head = head /\ new.batch = NoID
    BY <2>3 DEF running
  <2>5. proc' = [proc EXCEPT ![p] = off] \/ proc' = [proc EXCEPT ![p] = new]
    BY <2>2, <2>3
  <2> QED
    BY <2>4, <2>5
<1>5. made' = made /\ stored' = stored /\ cut' = cut
  BY <1>1 DEF serverVars
<1>6. ~working(proc[p])
  BY <1>1 DEF working, Running
<1>7. holding = {NoID}
  <2>1. \A q \in Process : ~working(proc[q])
    BY <1>1, <1>6 DEF MathInv, ProcessesHold, working, idle
  <2> QED
    BY <2>1 DEF holding
<1>8. ~working(off)
  BY DEF working, off, Running
<1>9. ASSUME h # off PROVE TalkWorks(h, made, DOMAIN stored, cut)
  <2>1. h.pc = "arrive" /\ h.head = head /\ h.batch = NoID /\ stage(h) = "arrive"
    BY <1>4, <1>9 DEF stage
  <2>2. made \in Seq(Node) /\ Rooted(made) /\ DOMAIN stored \subseteq DOMAIN made
    BY NodesAreRooted DEF TalkInv, MathInv, LoopTypeOK, ServerHolds
  <2>3. /\ Settled(made, lineageIn(made)[head], cut \cup {head})
        /\ head # NoID /\ made[head].role = "calls" /\ head \notin cut => Childless(made, head)
    <3>1. CASE events = << >>
      <4>1. head = NoID /\ lineageIn(made)[head] = << >>
        BY <1>3, <2>2, <3>1, LineageRows
      <4> QED
        BY <4>1 DEF Settled
    <3>2. CASE events # << >>
      <4>1. head \in DOMAIN stored /\ ~HasChild(made, DOMAIN stored, head)
        BY <1>3, <3>2, LastIsLeaf
      <4>2. TurnHolds(made, DOMAIN stored, cut \cup {NoID}, head)
        BY <1>7, <2>2, <4>1 DEF TalkInv
      <4>3. Settled(made, lineageIn(made)[head], (cut \cup {NoID}) \cup {head})
        BY <4>1, <4>2 DEF TurnHolds
      <4>4. PICK s \in Seq(DOMAIN made) : s = lineageIn(made)[head]
        BY <2>2, <4>1, LineageRows
      <4>5. (cut \cup {NoID}) \cup {head} \subseteq (cut \cup {head}) \cup {NoID}
        OBVIOUS
      <4>6. Settled(made, s, (cut \cup {head}) \cup {NoID})
        BY <4>3, <4>4, <4>5, SettledWithout
      <4>7. Settled(made, s, cut \cup {head})
        BY <2>2, <4>6, SettledWithoutNone
      <4> QED
        BY <4>1, <4>2, <4>4, <4>7 DEF TurnHolds
    <3> QED
      BY <3>1, <3>2
  <2>4. TalkHolds(h, made, cut)
    BY <2>1, <2>3 DEF TalkHolds
  <2> QED
    BY <2>1, <2>3, <2>4 DEF TalkWorks
<1> QED
  BY <1>4, <1>5, <1>6, <1>8, <1>9, TalkGoesOn

\* The first node is the system message.
LEMMA TalkBegins ==
  ASSUME MathInv, TalkInv, MathInv', NEW p \in Process, NEW c, createReturns(p, c), stored' = stored
  PROVE  TalkInv'
<1>1. made = << >> /\ cut' = cut /\ proc[p].pc = "create"
  BY DEF createReturns, MathInv, ProcessesHold
<1>2. PICK x : x = node(NoID, "system", << >>, 0, 0)
  OBVIOUS
<1>3. x \in Node /\ x.parent = NoID /\ x.role = "system"
  BY <1>2, LoopAssumption DEF node, Node, NoID
<1>4. PICK m \in Seq(Node) : m = << >> /\ Len(m) = 0 /\ DOMAIN m = {} /\ NodesFit(m)
  <2>1. << >> \in Seq(Node) /\ Len(<< >>) = 0 /\ DOMAIN << >> = {}
    OBVIOUS
  <2>2. NodesFit(<< >>)
    BY <2>1 DEF NodesFit
  <2> QED
    BY <2>1, <2>2
<1>5. PICK m2 : m2 = Append(m, x) /\ m2 = made'
  BY <1>1, <1>2, <1>4 DEF createReturns
<1>6. NodesFit(m2) /\ m2[1] = x /\ DOMAIN m2 = {1} /\ lineageIn(m2)[1] = Append(lineageIn(m)[NoID], 1)
      /\ m2 \in Seq(Node)
  <2>1. NodesFit(Append(m, x)) /\ Append(m, x)[Len(m) + 1] = x /\ Extends(Append(m, x), m)
        /\ lineageIn(Append(m, x))[Len(m) + 1] = Append(lineageIn(m)[x.parent], Len(m) + 1)
    BY <1>3, <1>4, NodesGrow
  <2>2. DOMAIN Append(m, x) = DOMAIN m \cup {Len(m) + 1}
    BY <1>3, <1>4, Appended
  <2> QED
    BY <1>3, <1>4, <1>5, <2>1, <2>2 DEF Extends
<1>7. lineageIn(m2)[1] = << 1 >>
  <2>1. lineageIn(m)[NoID] = << >>
    BY <1>4, NodesAreRooted, LineageRows
  <2> QED
    BY <1>6, <2>1
<1>8. \A C : Settled(m2, lineageIn(m2)[1], C)
  BY <1>3, <1>6, <1>7 DEF Settled
<1>9. PICK h : /\ h = [running("write", {1}, 1, FALSE) EXCEPT !.arriving = TRUE, !.next = "arrive"]
               /\ proc' = [proc EXCEPT ![p] = h]
  <2>1. PICK n : n = Len(made) + 1 /\ n = 1
    BY <1>1, <1>4
  <2>2. proc' = [proc EXCEPT ![p] =
                   [running("write", {n}, n, FALSE) EXCEPT !.arriving = TRUE, !.next = "arrive"]]
    BY <2>1 DEF createReturns
  <2> QED
    BY <2>1, <2>2
<1>10. h.pc = "write" /\ h.next = "arrive" /\ h.arriving /\ h.head = 1 /\ h.batch = NoID
  BY <1>9 DEF running
<1>11. TalkWorks(h, m2, DOMAIN stored, cut)
  <2>1. stage(h) = "arrive"
    BY <1>10 DEF stage
  <2>2. TalkHolds(h, m2, cut)
    BY <1>8, <1>10, <2>1 DEF TalkHolds
  <2> QED
    BY <1>3, <1>6, <1>10, <2>1, <2>2 DEF TalkWorks
<1>12. \A n \in DOMAIN m2 : TurnHolds(m2, DOMAIN stored, cut \cup holding', n)
  BY <1>3, <1>6, <1>8 DEF TurnHolds
<1>13. ASSUME NEW q \in Process, working(proc'[q]) PROVE proc'[q] = h
  <2>1. proc'[p] = h /\ (q # p => proc'[q] = proc[q])
    BY <1>9 DEF MathInv, LoopTypeOK
  <2>2. q # p => idle(proc[q])
    BY <1>1 DEF MathInv, ProcessesHold, idle
  <2> QED
    BY <1>13, <2>1, <2>2 DEF working
<1>14. \A q \in Process : working(proc'[q]) => TalkWorks(proc'[q], m2, DOMAIN stored, cut)
  BY <1>11, <1>13
<1> QED
  BY <1>1, <1>5, <1>6, <1>12, <1>14 DEF TalkInv

\* An arrival that finds a batch at its head is the one that answers it: nothing is
\* below the batch, stored or not.
LEMMA TalkArrives ==
  ASSUME MathInv, TalkInv, NEW p \in Process, handleArrival(p), stored' = stored
  PROVE  TalkInv'
<1>1. PICK g \in Running : g = proc[p] /\ g.pc = "arrive"
  BY AtWork DEF handleArrival
<1>2. made' = made /\ cut' = cut /\ working(g)
  BY <1>1 DEF handleArrival, working, idle
<1>3. TalkWorks(g, made, DOMAIN stored, cut) /\ TalkHolds(g, made, cut) /\ stage(g) = "arrive"
  BY <1>1, WorkTalks DEF stage
<1>4. g.batch = NoID
  BY <1>1, <1>3 DEF TalkWorks
<1>5. made \in Seq(Node) /\ NodesFit(made) /\ Rooted(made) /\ g.head \in {NoID} \cup DOMAIN made
  BY <1>1, AtWork, NodesAreRooted DEF TalkInv
<1>6. PICK s \in Seq(DOMAIN made) : s = lineageIn(made)[g.head]
  BY <1>5, LineageRows
<1>7. Settled(made, s, cut \cup {g.head})
  BY <1>3, <1>6 DEF TalkHolds
<1>8. g.head # NoID /\ made[g.head].role = "calls" /\ g.head \notin cut => Childless(made, g.head)
  BY <1>3 DEF TalkWorks
<1>9. PICK h : h = IF g.head # NoID /\ made[g.head].role = "calls"
                   THEN [g EXCEPT !.pc = "arrival", !.arriving = TRUE, !.batch = g.head, !.idx = 1]
                   ELSE [g EXCEPT !.pc = "prompt", !.arriving = FALSE]
  OBVIOUS
<1>10. proc' = [proc EXCEPT ![p] = h]
  BY <1>1, <1>9, AtWork DEF handleArrival
<1>11. CASE g.head # NoID /\ made[g.head].role = "calls"
  <2>1. h = [g EXCEPT !.pc = "arrival", !.arriving = TRUE, !.batch = g.head, !.idx = 1]
    BY <1>9, <1>11
  <2>2. h.pc = "arrival" /\ h.head = g.head /\ h.batch = g.head /\ h.idx = 1 /\ stage(h) = "arrival"
    BY <2>1 DEF Running, stage
  <2>3. g.head \in DOMAIN made /\ made[g.head].calls # << >>
    BY <1>5, <1>11 DEF NodesFit, Placed
  <2>4. Answering(made, s, g.head, 1)
    <3>1. PICK t \in Seq(DOMAIN made) : t = lineageIn(made)[made[g.head].parent]
      BY <1>5, <2>3, LineageRows
    <3>2. s = Append(t, g.head)
      BY <1>5, <1>6, <2>3, <3>1, LineageRows
    <3> QED
      BY <1>5, <1>11, <2>3, <3>2, AnsweringLast
  <2>5. TalkHolds(h, made, cut)
    BY <1>6, <1>7, <2>2, <2>4 DEF TalkHolds
  <2>6. g.head \notin cut => BatchHolds(h, made, DOMAIN stored, g.head)
    <3> SUFFICES ASSUME g.head \notin cut PROVE BatchHolds(h, made, DOMAIN stored, g.head)
      OBVIOUS
    <3>1. \A n \in {NoID} \cup DOMAIN made : g.head \in ToSet(lineageIn(made)[n]) => n = g.head
      BY <1>5, <1>8, <1>11, <2>3, Passed
    <3> QED
      BY <2>2, <3>1 DEF BatchHolds
  <2>7. TalkWorks(h, made, DOMAIN stored, cut)
    BY <1>8, <2>2, <2>5, <2>6 DEF TalkWorks
  <2> QED
    BY <1>1, <1>2, <1>4, <1>10, <2>7, TalkGoesOn
<1>12. CASE g.head = NoID \/ made[g.head].role # "calls"
  <2>1. h = [g EXCEPT !.pc = "prompt", !.arriving = FALSE]
    BY <1>9, <1>12
  <2>2. h.pc = "prompt" /\ h.head = g.head /\ h.batch = NoID /\ stage(h) = "prompt"
    BY <1>4, <2>1 DEF Running, stage
  <2>3. Settled(made, s, cut)
    <3>1. CASE g.head = NoID
      BY <1>5, <1>6, <1>7, <3>1, SettledWithoutNone
    <3>2. CASE g.head # NoID
      BY <1>7, <1>12, <3>2, SettledWithoutOther
    <3> QED
      BY <3>1, <3>2
  <2>4. TalkHolds(h, made, cut)
    BY <1>6, <2>2, <2>3 DEF TalkHolds
  <2>5. TalkWorks(h, made, DOMAIN stored, cut)
    BY <1>8, <2>2, <2>4 DEF TalkWorks
  <2> QED
    BY <1>1, <1>2, <1>4, <1>10, <2>5, TalkGoesOn
<1> QED
  BY <1>11, <1>12

\* The batch of a process that hands over is what its successor will find last.
LEMMA TalkHandsOver ==
  ASSUME MathInv, TalkInv, NEW p \in Process, mathSpawnHandoff(p)
  PROVE  TalkInv'
<1>1. PICK q \in Process : spawnHandoff(p, q, "sgpd")
  BY DEF mathSpawnHandoff
<1>2. made' = made /\ stored' = stored /\ cut' = cut
  BY <1>1 DEF mathSpawnHandoff, spawnHandoff
<1>3. PICK g \in Running : g = proc[p] /\ g.pc = "spawn"
  BY <1>1, AtWork DEF spawnHandoff
<1>4. PICK h, o : h = [g EXCEPT !.pc = "teleported"] /\ o = opening("sgpd")
  OBVIOUS
<1>5. h.pc = "teleported" /\ o \notin Running
  BY <1>4 DEF Running, opening
<1>6. ~working(h) /\ ~working(o)
  BY <1>5 DEF working, idle
<1>7. \A r \in Process : proc'[r] = proc[r] \/ proc'[r] = h \/ proc'[r] = o
  BY <1>1, <1>3, <1>4, AtWork DEF spawnHandoff
<1>8. \A r \in Process : working(proc[r]) => r = p
  BY <1>3 DEF MathInv, ProcessesHold, working, idle
<1>9. TalkWorks(g, made, DOMAIN stored, cut) /\ TalkHolds(g, made, cut) /\ stage(g) = "spawn"
  BY <1>3, WorkTalks DEF stage
<1>10. g.batch = g.head /\ Settled(made, lineageIn(made)[g.head], cut \cup {g.head})
  BY <1>9 DEF TalkWorks, TalkHolds
<1>11. g.head \in DOMAIN made /\ g.head # NoID
  BY <1>3, AtWork DEF WorkHolds
<1>12. g.batch \in cut \/ Released(g.batch, made, DOMAIN stored, cut)
  <2> SUFFICES ASSUME g.head \notin cut PROVE Released(g.head, made, DOMAIN stored, cut)
    BY <1>10
  <2>1. BatchHolds(g, made, DOMAIN stored, g.head)
    BY <1>9, <1>10, <1>11 DEF TalkWorks
  <2>2. \A n \in DOMAIN made :
          g.head \in ToSet(lineageIn(made)[n]) => n = g.head \/ HasChild(made, DOMAIN stored, n)
    BY <1>3, <2>1 DEF BatchHolds
  <2>3. made[g.head].role = "calls" => Childless(made, g.head)
    BY <1>9, <1>11 DEF TalkWorks
  <2> QED
    BY <1>10, <2>2, <2>3 DEF Released
<1>13. \A r \in Process : working(proc'[r]) => proc'[r] = proc[r]
  BY <1>6, <1>7
<1>14. \A r \in Process : working(proc[r]) =>
         \/ proc[r].batch \in holding' \cup cut'
         \/ Released(proc[r].batch, made, DOMAIN stored', cut')
  BY <1>2, <1>3, <1>8, <1>12
<1> QED
  BY <1>2, <1>13, <1>14, TalkMoves

\* A user turn.
LEMMA TalkTurns ==
  ASSUME MathInv, TalkInv, NEW p \in Process, mathHandleTurn(p), MathInv'
  PROVE  TalkInv'
<1>1. proc[p].pc = "prompt" /\ stored' = stored /\ handleTurn(p)
  BY DEF mathHandleTurn, handleTurn, serverVars
<1>2. CASE canAppend(p)
  <2>1. proc[p].head # NoID /\ cut' = cut
    BY <1>1, <1>2, CanAppendHasHead DEF handleTurn
  <2>2. Talking(p)
    BY <1>1, <2>1, AboutToAppend
  <2>3. PICK x \in Node, h \in Running :
          Continues(p, x, h) /\ x.role = "user" /\ h.next = "infer" /\ h.batch = proc[p].batch
    BY <1>1, <1>2, <2>2, TurnContinues
  <2> QED
    BY <1>1, <2>1, <2>3, TalkAppends
<1>3. CASE ~canAppend(p)
  <2>1. fail(p) /\ made' = made
    BY <1>1, <1>3 DEF handleTurn
  <2> QED
    BY <1>1, <2>1, TalkFails
<1> QED
  BY <1>2, <1>3

\* The steps of the inference loop.
LEMMA TalkLoop ==
  ASSUME MathInv, TalkInv, NEW p \in Process, mathInferenceLoop(p), MathInv'
  PROVE  TalkInv'
<1>1. stored' = stored
  BY DEF mathInferenceLoop, serverVars
<1>2. CASE inferenceFails(p)
  BY <1>1, <1>2, TalkFails DEF inferenceFails
<1>3. ASSUME canInfer(p)
      PROVE  proc[p].pc = "infer" /\ proc[p].head # NoID /\ Talking(p) /\ proc[p].batch = NoID
  <2>1. proc[p].pc = "infer" /\ proc[p].head # NoID
    BY <1>3, CanAppendHasHead DEF canInfer
  <2>2. Talking(p) /\ TalkWorks(proc[p], made, DOMAIN stored, cut)
    BY <2>1, AboutToAppend
  <2> QED
    BY <2>1, <2>2 DEF TalkWorks
<1>4. CASE finalAnswer(p)
  <2>1. canInfer(p) /\ cut' = cut
    BY <1>4 DEF finalAnswer
  <2>2. proc[p].pc = "infer" /\ proc[p].head # NoID /\ Talking(p) /\ proc[p].batch = NoID
    BY <1>3, <2>1
  <2>3. PICK x \in Node, h \in Running :
          Continues(p, x, h) /\ x.role = "assistant" /\ h.next = "prompt" /\ h.batch = proc[p].batch
    BY <1>4, <2>2, AnswerContinues
  <2> QED
    BY <1>1, <2>1, <2>2, <2>3, TalkAppends
<1>5. ASSUME NEW cs \in Batch, toolCalls(p, cs) PROVE TalkInv'
  <2>1. canInfer(p) /\ cut' = cut
    BY <1>5 DEF toolCalls
  <2>2. proc[p].pc = "infer" /\ proc[p].head # NoID /\ Talking(p) /\ proc[p].batch = NoID
    BY <1>3, <2>1
  <2>3. PICK x \in Node, h \in Running :
          /\ Continues(p, x, h) /\ x.role = "calls"
          /\ h.next \in {"spawn", "tools"} /\ h.batch = h.head /\ h.idx = 1 /\ h.callSeq = x.seq
    BY <1>5, <2>2, CallsContinue
  <2>4. made'[h.head] = x
    <3>1. made' = Append(made, x) /\ h.head = Len(made) + 1 /\ made \in Seq(Node)
      BY <2>2, <2>3 DEF Continues, Talking
    <3> QED
      BY <3>1, Appended
  <2>5. h.callSeq = made'[h.batch].seq
    BY <2>3, <2>4
  <2> QED
    BY <1>1, <2>1, <2>2, <2>3, <2>5, TalkAppends
<1>6. CASE executeTool(p)
  <2>1. PICK g \in Running : g = proc[p] /\ g.pc = "tools"
    BY <1>6, AtWork DEF executeTool
  <2>2. g.step < maxToolSteps /\ g.head # NoID /\ g.batch \in DOMAIN made
    BY <2>1, AtWork DEF WorkHolds, stage
  <2>3. Talking(p) /\ TalkWorks(g, made, DOMAIN stored, cut) /\ made \in Seq(Node)
    BY <2>1, <2>2, AboutToAppend
  <2>4. g.callSeq = made[g.batch].seq
    BY <2>1, <2>3 DEF TalkWorks, stage
  <2>5. PICK step \in 0..maxToolSteps : step = g.step + 1
    BY <2>2, LoopAssumption DEF Running
  <2>6. /\ appendNode(p, "tool", << >>, made[proc[p].batch].seq, proc[p].idx, afterResult(p, step))
        /\ cut' = cut
    BY <1>6, <2>1, <2>4, <2>5 DEF executeTool
  <2>7. PICK x \in Node, h \in Running :
          /\ Continues(p, x, h) /\ x.role = "tool"
          /\ h.next \in {"tools", "infer"} /\ h.batch = g.batch
          /\ h.next = "tools" => h.callSeq = g.callSeq
    BY <2>1, <2>3, <2>6, ResultContinues
  <2>8. made'[g.batch] = made[g.batch]
    <3>1. made' = Append(made, x)
      BY <2>7 DEF Continues
    <3> QED
      BY <2>2, <2>3, <3>1, Appended DEF Extends
  <2>9. h.next \in {"tools", "spawn"} => h.callSeq = made'[h.batch].seq
    BY <2>4, <2>7, <2>8
  <2> QED
    BY <1>1, <2>1, <2>2, <2>6, <2>7, <2>9, TalkAppends
<1>7. CASE spawnFails(p)
  <2>1. PICK g \in Running : g = proc[p] /\ g.pc = "spawn"
    BY <1>7, AtWork DEF spawnFails
  <2>2. g.step < maxToolSteps /\ g.head # NoID /\ "teleport" \in ToSet(made[g.batch].calls)
    BY <2>1, AtWork DEF WorkHolds, stage
  <2>3. Talking(p) /\ TalkWorks(g, made, DOMAIN stored, cut)
    BY <2>1, <2>2, AboutToAppend
  <2>4. g.callSeq = made[g.batch].seq /\ g.idx = 1
    BY <2>1, <2>3 DEF TalkWorks, stage
  <2>5. PICK x \in Node, h \in Running :
          /\ Continues(p, x, h) /\ x.role = "tool" /\ h.next = "infer" /\ h.batch = proc[p].batch
          /\ cut \subseteq cut'
    BY <1>7, <2>1, <2>2, <2>3, <2>4, SpawnContinues
  <2> QED
    BY <1>1, <2>1, <2>2, <2>5, TalkAppends
<1> QED
  BY <1>2, <1>4, <1>5, <1>6, <1>7 DEF mathInferenceLoop

\* The arrival and its results.
LEMMA TalkAnswersArrival ==
  ASSUME MathInv, TalkInv, NEW p \in Process, mathHandleArrival(p), MathInv'
  PROVE  TalkInv'
<1>1. stored' = stored
  BY DEF mathHandleArrival, serverVars
<1>2. CASE handleArrival(p)
  BY <1>1, <1>2, TalkArrives
<1>3. CASE arrivalResult(p) /\ canAppend(p)
  <2>1. proc[p].pc = "arrival" /\ proc[p].head # NoID /\ cut' = cut
    BY <1>3, CanAppendHasHead DEF arrivalResult
  <2>2. Talking(p)
    BY <2>1, AboutToAppend
  <2>3. appendNode(p, "tool", << >>, made[proc[p].batch].seq, proc[p].idx, afterResult(p, 0))
    BY <1>3 DEF arrivalResult
  <2>4. 0 \in 0..maxToolSteps
    BY LoopAssumption
  <2>5. PICK x \in Node, h \in Running :
          /\ Continues(p, x, h) /\ x.role = "tool"
          /\ h.next \in {"arrival", "infer"} /\ h.batch = proc[p].batch
    BY <2>1, <2>2, <2>3, <2>4, ResultContinues
  <2> QED
    BY <1>1, <2>1, <2>5, TalkAppends
<1>4. CASE arrivalResult(p) /\ ~canAppend(p)
  BY <1>1, <1>4, TalkFails DEF arrivalResult
<1>5. CASE exitTeleported(p)
  <2>1. proc[p].pc = "teleported"
    BY <1>5 DEF exitTeleported
  <2>2. ~working(proc[p])
    BY <2>1 DEF working, idle
  <2> QED
    BY <1>1, <1>5, <2>2, TalkStops DEF exitTeleported
<1> QED
  BY <1>2, <1>3, <1>4, <1>5 DEF mathHandleArrival

\* The process of a call that is not about a node.
LEMMA TalkCallEnds ==
  ASSUME MathInv, TalkInv, NEW p \in Process, callEnds(p), stored' = stored
  PROVE  TalkInv'
<1>1. working(proc[p]) => proc[p].batch = NoID
  <2>1. proc[p].pc \in {"create", "close"}
    BY DEF callEnds
  <2>2. proc[p].pc = "create" => ~working(proc[p])
    BY DEF working, Running
  <2>3. working(proc[p]) => TalkWorks(proc[p], made, DOMAIN stored, cut)
    BY DEF TalkInv
  <2> QED
    BY <2>1, <2>2, <2>3 DEF TalkWorks
<1> QED
  BY <1>1, TalkStops DEF callEnds

\* What a request brings back.
LEMMA TalkReplies ==
  ASSUME MathInv, TalkInv, NEW p \in Process, NEW c \in calls, Reply(p, c), MathInv'
  PROVE  TalkInv'
<1>1. stored' = stored
  BY DEF Reply
<1>2. CASE createReturns(p, c)
  BY <1>1, <1>2, TalkBegins
<1>3. CASE callEnds(p)
  BY <1>1, <1>3, TalkCallEnds
<1>4. CASE writeReturns(p) /\ acked' = acked \cup {proc[p].head}
  <2>1. proc[p].head \in DOMAIN stored
    BY <1>1, <1>4 DEF MathInv, ServerHolds
  <2> QED
    BY <1>1, <1>4, <2>1, TalkWritten
<1>5. CASE writeReturnsError(p)
  BY <1>1, <1>5, TalkFails DEF writeReturnsError, writeFails, writing
<1> QED
  BY <1>2, <1>3, <1>4, <1>5 DEF Reply

\* Every step of the math harness.
LEMMA TalkKept ==
  ASSUME MathInv, TalkInv, MathNext, MathInv'
  PROVE  TalkInv'
<1>1. CASE Server
  <2>1. PICK c \in calls : AppendEvent(c) \/ ApplyNode(c) \/ ApplySession(c) \/ HandlerEnds(c)
    BY <1>1 DEF Server
  <2>2. UNCHANGED <<made, proc, cut>>
    BY <2>1 DEF AppendEvent, ApplyNode, ApplySession, HandlerEnds, loopVars
  <2>3. DOMAIN stored \subseteq DOMAIN stored'
    BY <2>1 DEF AppendEvent, ApplyNode, ApplySession, HandlerEnds
  <2> QED
    BY <2>2, <2>3, TalkStands
<1>2. ASSUME NEW p \in Process, Client(p) PROVE TalkInv'
  <2>1. CASE CreateSession(p) \/ WriteNode(p)
    <3>1. UNCHANGED <<loopVars, session, stored, starts, lost, acked, failed>>
      <4>1. CreateSession(p) => UNCHANGED <<loopVars, session, stored, starts, lost, acked, failed>>
        BY Zenon DEF CreateSession
      <4>2. WriteNode(p) => UNCHANGED <<loopVars, session, stored, starts, lost, acked, failed>>
        BY Zenon DEF WriteNode
      <4> QED
        BY <2>1, <4>1, <4>2
    <3>2. UNCHANGED <<made, proc, cut>> /\ stored' = stored
      BY <3>1 DEF loopVars
    <3> QED
      BY <3>2, TalkStands
  <2>2. CASE EndSession(p)
    <3>1. /\ UNCHANGED <<made, cut, stored>> /\ proc[p].pc = "close"
          /\ proc' = proc \/ proc' = [proc EXCEPT ![p] = off]
      BY <2>2 DEF EndSession
    <3>2. proc[p].batch = NoID
      BY <3>1, WorkTalks DEF TalkWorks
    <3> QED
      BY <3>1, <3>2, TalkStands, TalkStops
  <2>3. CASE LoadGraph(p)
    BY <2>3, TalkLoads
  <2>4. CASE mathInferenceLoop(p) \/ mathHandleArrival(p)
    BY <1>2, <2>4, TalkLoop, TalkAnswersArrival
  <2>5. CASE mathSpawnHandoff(p)
    BY <2>5, TalkHandsOver
  <2>6. CASE \E c \in calls : Reply(p, c)
    BY <2>6, TalkReplies
  <2> QED
    BY <1>2, <2>1, <2>2, <2>3, <2>4, <2>5, <2>6 DEF Client
<1>3. ASSUME NEW p \in Process, main(p) PROVE TalkInv'
  <2>1. PICK h \in {opening("sgpd"), [pc |-> "create"]} :
          proc' = [proc EXCEPT ![p] = h] /\ UNCHANGED <<made, cut, stored>>
    BY <1>3 DEF main
  <2>2. ~working(h) /\ ~working(proc[p])
    <3>1. h \notin Running /\ proc[p] = off
      BY <1>3 DEF opening, Running, main
    <3> QED
      BY <3>1 DEF working, off, Running
  <2> QED
    BY <2>1, <2>2, TalkGoesOn
<1>4. ASSUME NEW p \in Process, mathHandleTurn(p) PROVE TalkInv'
  BY <1>4, TalkTurns
<1>5. ASSUME NEW p \in Process, mathInput(p) PROVE TalkInv'
  <2>1. PICK g \in Running : g = proc[p] /\ g.pc = "prompt"
    BY <1>5, AtWork DEF mathInput, quit
  <2>2. PICK h : h = [g EXCEPT !.pc = "close"]
    OBVIOUS
  <2>3. proc' = [proc EXCEPT ![p] = h] /\ UNCHANGED <<made, cut, stored>>
    BY <1>5, <2>1, <2>2, AtWork DEF mathInput, quit, serverVars
  <2>4. h.pc = "close" /\ h.head = g.head /\ h.batch = g.batch /\ stage(h) = "close"
    BY <2>1, <2>2 DEF Running, stage
  <2>5. TalkWorks(g, made, DOMAIN stored, cut)
    BY <2>1, WorkTalks
  <2>6. TalkHolds(h, made, cut)
    BY <2>4 DEF TalkHolds
  <2>7. g.batch = NoID
    BY <2>1, <2>5 DEF TalkWorks
  <2>8. TalkWorks(h, made, DOMAIN stored, cut)
    BY <2>4, <2>5, <2>6, <2>7 DEF TalkWorks
  <2> QED
    BY <2>1, <2>3, <2>7, <2>8, TalkGoesOn
<1>6. ASSUME NEW p \in Process, connectionLost(p) PROVE TalkInv'
  <2>1. stored' = stored /\ (callEnds(p) \/ writeReturnsError(p))
    BY <1>6 DEF connectionLost
  <2>2. CASE callEnds(p)
    BY <2>1, <2>2, TalkCallEnds
  <2>3. CASE writeReturnsError(p)
    BY <2>1, <2>3, TalkFails DEF writeReturnsError, writeFails, writing
  <2> QED
    BY <2>1, <2>2, <2>3
<1>7. ASSUME NEW p \in Process, crash(p) PROVE TalkInv'
  <2>1. working(proc[p]) => proc[p].pc # "create"
    BY DEF working, Running
  <2>2. /\ proc' = [proc EXCEPT ![p] = off] /\ made' = made /\ stored' = stored
        /\ cut' = cut \cup (IF proc[p].pc # "create" /\ proc[p].batch # NoID
                            THEN {proc[p].batch} ELSE {})
    BY <1>7 DEF crash
  <2>3. cut \subseteq cut' /\ (working(proc[p]) => proc[p].batch \in {NoID} \cup cut')
    BY <2>1, <2>2
  <2> QED
    BY <2>2, <2>3, TalkStops
<1> QED
  BY <1>1, <1>2, <1>3, <1>4, <1>5, <1>6, <1>7 DEF MathNext

-----------------------------------------------------------------------------
(* The theorems *)

\* The process of the initial state: none.
LEMMA MathInit0 ==
  ASSUME MathInit
  PROVE  MathInv
<1>1. /\ made = << >> /\ proc = [p \in Process |-> off] /\ turns = 0 /\ cut = {}
      /\ session = [status |-> {}, head |-> {}, end_node |-> {}]
      /\ stored = [n \in {} |-> NoID] /\ calls = {} /\ starts = 0 /\ lost = 0
      /\ acked = {} /\ failed = {}
  BY DEF MathInit, LoopInit
<1>2. made \in Seq(Node) /\ Len(made) = 0 /\ DOMAIN made = {} /\ DOMAIN stored = {}
  BY <1>1
<1>3. LoopTypeOK
  BY <1>1, <1>2, LoopAssumption DEF LoopTypeOK
<1>4. starts \in 0..MaxStarts /\ lost \in 0..MaxLost
  BY <1>1, MathAssumption
<1>5. ServerHolds
  BY <1>1, <1>2 DEF ServerHolds
<1>6. NodesHold
  BY <1>2 DEF NodesHold
<1>7. \A p \in Process : proc[p] = off /\ proc[p].pc = "off" /\ proc[p] \notin Running
  BY <1>1 DEF off, Running
<1>8. ProcessesHold
  BY <1>7 DEF ProcessesHold
<1>9. CallsHold
  BY <1>1, <1>7 DEF CallsHold, writing
<1> QED
  BY <1>3, <1>4, <1>5, <1>6, <1>8, <1>9 DEF MathInv

\* A step of nobody.
LEMMA MathStutters ==
  ASSUME MathInv, UNCHANGED mathVars
  PROVE  MathInv'
<1>1. UNCHANGED <<made, proc, turns, cut, session, stored, calls, starts, lost, acked, failed>>
  BY DEF mathVars
<1>2. LoopTypeOK' /\ starts' \in 0..MaxStarts /\ lost' \in 0..MaxLost
  BY <1>1 DEF MathInv, LoopTypeOK
<1>3. ServerHolds' /\ NodesHold'
  BY <1>1 DEF MathInv, ServerHolds, NodesHold
<1>4. ProcessesHold'
  BY <1>1 DEF MathInv, ProcessesHold
<1>5. CallsHold'
  BY <1>1 DEF MathInv, CallsHold, writing, waiting
<1> QED
  BY <1>2, <1>3, <1>4, <1>5 DEF MathInv

\* A step of the loop changes nothing at the server.
LEMMA LoopStepHolds ==
  ASSUME MathInv, NEW p \in Process, mathInferenceLoop(p) \/ mathHandleArrival(p)
  PROVE  MathInv'
<1>1. UNCHANGED serverVars
  BY DEF mathInferenceLoop, mathHandleArrival
<1>2. \/ inferenceFails(p) \/ finalAnswer(p)
      \/ \E batch \in Batch : toolCalls(p, batch)
      \/ executeTool(p) \/ spawnFails(p)
      \/ handleArrival(p) \/ arrivalResult(p) \/ exitTeleported(p)
  BY DEF mathInferenceLoop, mathHandleArrival
<1> QED
  BY <1>1, <1>2, InferenceFailsStep, FinalAnswerStep, ToolCallsStep, ExecuteToolStep,
     SpawnFailsStep, HandleArrivalStep, ArrivalResultStep, ExitTeleportedStep

\* The steps of a process but for its start, its input and its end.
LEMMA ClientHolds ==
  ASSUME MathInv, NEW p \in Process, Client(p)
  PROVE  MathInv'
<1>1. CASE CreateSession(p) \/ WriteNode(p) \/ EndSession(p) \/ LoadGraph(p)
  BY <1>1, CreateSessionStep, WriteNodeStep, EndSessionStep, LoadGraphStep
<1>2. CASE mathInferenceLoop(p) \/ mathHandleArrival(p)
  BY <1>2, LoopStepHolds
<1>3. CASE mathSpawnHandoff(p)
  BY <1>3, SpawnHandoffStep
<1>4. CASE \E c \in calls : Reply(p, c)
  BY <1>4, ReplyStep
<1> QED
  BY <1>1, <1>2, <1>3, <1>4 DEF Client

\* The inductive invariant of the math harness and its server.
THEOREM MathInvariant == MathSpec => []MathInv
<1>1. MathInit => MathInv
  BY MathInit0
<1>2. MathInv /\ [MathNext]_mathVars => MathInv'
  <2> SUFFICES ASSUME MathInv, [MathNext]_mathVars PROVE MathInv'
    OBVIOUS
  <2>1. CASE Server
    <3>1. PICK c \in calls : AppendEvent(c) \/ ApplyNode(c) \/ ApplySession(c) \/ HandlerEnds(c)
      BY <2>1 DEF Server
    <3> QED
      BY <3>1, AppendEventStep, ApplyNodeStep, ApplySessionStep, HandlerEndsStep
  <2>2. ASSUME NEW p \in Process,
               \/ Client(p) \/ main(p) \/ mathHandleTurn(p) \/ mathInput(p)
               \/ connectionLost(p) \/ crash(p)
        PROVE  MathInv'
    BY <2>2, ClientHolds, MainStep, HandleTurnStep, QuitStep, ConnectionLostStep, CrashStep
  <2>3. CASE UNCHANGED mathVars
    BY <2>3, MathStutters
  <2> QED
    BY <2>1, <2>2, <2>3 DEF MathNext
<1> QED
  BY <1>1, <1>2, PTL DEF MathSpec

\* With handlers of abandoned requests running beside new ones, the server keeps one
\* head and every acknowledged node, and a hole in the lineage of one is a node whose
\* write was reported to have failed.
THEOREM ServerKeepsItsPromise == MathSpec => []ServerInv
<1>1. MathInv => ServerInv
  <2> SUFFICES ASSUME MathInv PROVE ServerInv
    OBVIOUS
  <2>1. ASSUME NEW c \in calls
        PROVE  /\ c.client \in Process \cup {Nobody}
               /\ c.pc \in {"sent", "node.appended", "session.start", "session.ended", "ok", "error"}
               /\ c.old \subseteq IF c.event.node # << >> THEN DOMAIN stored ELSE {"open", "closed"}
    <3>1. CASE c.event = startEvent
      BY <3>1, RequestKinds, StartArrives
    <3>2. CASE \E n \in DOMAIN made : c.event = nodeEvent(made, n)
      <4>1. PICK n \in DOMAIN made : c.event = nodeEvent(made, n)
        BY <3>2
      <4>2. nodeEvent(made, n).node # << >>
        BY NodeArrives
      <4>3. /\ c.client \in Process \cup {Nobody} /\ c.old \subseteq DOMAIN stored
            /\ c.pc \in {"sent", "node.appended", "ok", "error"}
        BY <4>1, RequestKinds
      <4> QED
        BY <4>1, <4>2, <4>3
    <3>3. CASE c.event # startEvent /\ \A n \in DOMAIN made : c.event # nodeEvent(made, n)
      <4>1. PICK t \in 0..Len(made) : c.event = endEvent(t)
        BY <3>3, RequestKinds
      <4>2. endEvent(t).node = << >>
        BY EndArrives
      <4>3. /\ c.client \in Process \cup {Nobody} /\ c.old \subseteq {"open", "closed"}
            /\ c.pc \in {"sent", "session.ended", "ok"}
        BY <3>3, RequestKinds
      <4> QED
        BY <4>1, <4>2, <4>3
    <3> QED
      BY <3>1, <3>2, <3>3
  <2>2. MathTypeOK
    <3>1. /\ session.status \subseteq {"open", "closed"} /\ session.head \subseteq DOMAIN stored
          /\ session.end_node \subseteq 0..Len(made) /\ DOMAIN stored \subseteq DOMAIN made
          /\ acked \subseteq DOMAIN made /\ failed \subseteq DOMAIN made
      BY DEF MathInv, ServerHolds
    <3> QED
      BY <2>1, <3>1 DEF MathTypeOK, MathInv
  <2>3. OneHead
    <3>1. \A a, b \in session.head : a = b
      BY DEF MathInv, ServerHolds
    <3>2. CASE session.head = {}
      BY <3>2, FS_EmptySet DEF OneHead
    <3>3. CASE session.head # {}
      <4>1. PICK n \in session.head : session.head = {n}
        BY <3>1, <3>3
      <4>2. Cardinality({n}) = 1
        BY FS_Singleton
      <4> QED
        BY <4>1, <4>2 DEF OneHead
    <3> QED
      BY <3>2, <3>3
  <2>4. AckedIsStored
    <3> DEFINE T == DOMAIN stored \cup failed
    <3>1. T \in SUBSET DOMAIN made /\ acked \subseteq DOMAIN stored
      BY DEF MathInv, ServerHolds
    <3>2. made \in Seq(Node) /\ \A n \in DOMAIN made : made[n].parent < n
      BY DEF MathInv, LoopTypeOK, NodesHold, NodeHolds
    <3>3. \A n \in T : made[n].parent \in {NoID} \cup T
      BY <3>1 DEF MathInv, NodesHold
    <3> HIDE DEF T
    <3>4. \A n \in T : ToSet(lineage[n]) \subseteq T
      BY <3>1, <3>2, <3>3, LineageStays
    <3> QED
      BY <3>1, <3>4 DEF AckedIsStored, T
  <2> QED
    BY <2>2, <2>3, <2>4 DEF ServerInv
<1> QED
  BY <1>1, MathInvariant, PTL

\* Every stored node is the one that was made, through the conversions there and back,
\* and every request is carried out as the call it was, although its kind is not sent.
THEOREM TheWireIsFaithful == MathSpec => []WireIsFaithful
<1>1. MathInv => WireIsFaithful
  <2> SUFFICES ASSUME MathInv PROVE WireIsFaithful
    OBVIOUS
  <2>1. ASSUME NEW n \in DOMAIN stored
        PROVE  stored[n] = made[n] /\ NodeFromProto(NodeToProto(n, stored[n])) = made[n]
    <3>1. stored[n] = made[n] /\ n \in DOMAIN made
      BY DEF MathInv, ServerHolds
    <3>2. NodeHolds(made, n)
      BY <3>1 DEF MathInv, NodesHold
    <3> QED
      BY <3>1, <3>2, NodeSurvives
  <2>2. ASSUME NEW c \in calls, c.client # Nobody
        PROVE  c.pc \in {"sent", callOf(c.client), "ok", "error"}
    <3>1. Expects(proc[c.client], c.event, made) /\ c.client \in Process
      BY <2>2, RequestKinds DEF MathInv, CallsHold
    <3>2. CASE proc[c.client].pc = "create" /\ c.event = startEvent
      <4>1. callOf(c.client) = "session.start"
        BY <3>2 DEF callOf, writing
      <4> QED
        BY <3>2, <4>1, RequestKinds
    <3>3. CASE proc[c.client].pc = "write" /\ c.event = nodeEvent(made, proc[c.client].head)
      <4>1. callOf(c.client) = "node.appended"
        BY <3>3 DEF callOf, writing
      <4>2. proc[c.client].head \in DOMAIN made
        BY <3>1, <3>3, AtWork DEF WorkHolds
      <4> QED
        BY <3>3, <4>1, <4>2, RequestKinds
    <3>4. CASE proc[c.client].pc = "close" /\ c.event = endEvent(proc[c.client].head)
      <4>1. callOf(c.client) = "session.ended"
        BY <3>4 DEF callOf, writing
      <4>2. c.event # startEvent /\ \A n \in DOMAIN made : c.event # nodeEvent(made, n)
        <5>1. c.event.node = << >> /\ c.event.reason = "END_REASON_COMPLETE"
          BY <3>4, EndArrives
        <5>2. \A n \in DOMAIN made : nodeEvent(made, n).node # << >>
          BY NodeArrives
        <5> QED
          BY <5>1, <5>2, StartArrives
      <4> QED
        BY <4>1, <4>2, RequestKinds
    <3> QED
      BY <3>1, <3>2, <3>3, <3>4 DEF Expects
  <2> QED
    BY <2>1, <2>2 DEF WireIsFaithful
<1> QED
  BY <1>1, MathInvariant, PTL

\* A session taken up again has no holes: every node of its graph resumes.
THEOREM TakenUpWithoutHoles == MathSpec => []LoadedGraphResumes
<1>1. MathInv => LoadedGraphResumes
  <2> SUFFICES ASSUME MathInv, NEW p \in Process, proc[p].pc = "arrive", NEW n \in proc[p].graph
               PROVE  resumes(proc[p].graph, n)
    BY DEF LoadedGraphResumes
  <2>1. PICK g \in Running : g = proc[p]
    BY AtWork
  <2>2. WorkHolds(g, made, DOMAIN stored, failed)
    BY <2>1, AtWork
  <2>3. \A i \in g.graph : i \in DOMAIN made /\ made[i].parent \in {NoID} \cup g.graph
    BY <2>1, <2>2 DEF WorkHolds, stage
  <2>4. made \in Seq(Node) /\ \A i \in DOMAIN made : made[i].parent < i
    BY DEF MathInv, LoopTypeOK, NodesHold, NodeHolds
  <2>5. PICK T \in SUBSET DOMAIN made : T = g.graph
    BY <2>3
  <2>6. \A i \in T : ToSet(lineage[i]) \subseteq T
    BY <2>3, <2>4, <2>5, LineageStays
  <2>7. n # NoID
    BY <2>1, <2>3, <2>4 DEF NoID
  <2> QED
    BY <2>1, <2>5, <2>6, <2>7 DEF resumes
<1> QED
  BY <1>1, MathInvariant, PTL

\* While no write is known to have failed, the nodes of the session and the heads
\* processes have loaded are in order.
LEMMA NewestIsInvariant == MathSpec => []Newest
<1>1. MathInit => Newest
  <2> SUFFICES ASSUME MathInit PROVE Newest
    OBVIOUS
  <2>1. made = << >> /\ \A p \in Process : proc[p].pc = "off"
    BY DEF MathInit, LoopInit, off
  <2> QED
    BY <2>1 DEF Newest, idle
<1>2. MathInv /\ MathInv' /\ Newest /\ [MathNext]_mathVars => Newest'
  <2>1. UNCHANGED mathVars => UNCHANGED <<made, proc, acked, failed>>
    BY DEF mathVars
  <2> QED
    BY <2>1, NewestKept, NewestStays
<1> QED
  BY <1>1, <1>2, MathInvariant, PTL DEF MathSpec

\* A session taken up again is whole and up to date: it has no holes, and while no
\* write is known to have failed it goes on at the newest acknowledged node or later,
\* however the handlers of requests left behind are ordered among the others.
THEOREM SessionsAreTakenUpWhole == MathSpec => []TakenUpWhole
<1>1. MathInv /\ Newest => ResumedAtNewest
  <2> SUFFICES ASSUME MathInv, Newest, failed = {}, NEW p \in Process, proc[p].pc = "arrive",
                      NEW n \in acked
               PROVE  n <= proc[p].head
    BY DEF ResumedAtNewest
  <2>1. proc[p] \in Running /\ ~idle(proc[p]) /\ stage(proc[p]) = "arrive"
    BY AtWork DEF idle, stage
  <2> QED
    BY <2>1 DEF Newest
<1>2. ResumedAtNewest /\ LoadedGraphResumes => TakenUpWhole
  BY DEF TakenUpWhole
<1> QED
  BY <1>1, <1>2, MathInvariant, NewestIsInvariant, TakenUpWithoutHoles, PTL

\* The conversations hold in every reachable state.
LEMMA TalkInvIsInvariant == MathSpec => []TalkInv
<1>1. MathInit => TalkInv
  <2> SUFFICES ASSUME MathInit PROVE TalkInv
    OBVIOUS
  <2>1. made = << >> /\ \A p \in Process : proc[p] = off
    BY DEF MathInit, LoopInit
  <2>2. DOMAIN made = {} /\ \A p \in Process : ~working(proc[p])
    BY <2>1 DEF working, off, Running
  <2> QED
    BY <2>2 DEF TalkInv, NodesFit
<1>2. MathInv /\ MathInv' /\ TalkInv /\ [MathNext]_mathVars => TalkInv'
  <2> SUFFICES ASSUME MathInv, MathInv', TalkInv, MathNext \/ UNCHANGED mathVars PROVE TalkInv'
    OBVIOUS
  <2>1. CASE UNCHANGED mathVars
    <3>1. UNCHANGED <<made, proc, cut>> /\ stored' = stored
      BY <2>1 DEF mathVars
    <3> QED
      BY <3>1, TalkStands
  <2> QED
    BY <2>1, TalkKept
<1> QED
  BY <1>1, <1>2, MathInvariant, PTL DEF MathSpec

\* Every conversation the math harness sends to the model is whole, also when it was
\* taken up from what sgpd had stored, with nodes lost and branches beside it: it begins
\* with the system prompt, its batches are answered in order unless the answering was
\* broken off, and no result stands anywhere else.
THEOREM MathModelGetsWholeConversations == MathSpec => []ConversationIsWellFormed
<1>1. MathInv /\ TalkInv => ConversationIsWellFormed
  <2> SUFFICES ASSUME MathInv, TalkInv PROVE ConversationIsWellFormed
    OBVIOUS
  <2>1. made \in Seq(Node) /\ NodesFit(made)
    BY DEF MathInv, LoopTypeOK, TalkInv
  <2>2. ASSUME NEW p \in Process, canInfer(p)
        PROVE  proc[p].head \in DOMAIN made /\ Settled(made, lineageIn(made)[proc[p].head], cut)
    <3>1. proc[p].pc = "infer" /\ proc[p].head # NoID
      BY <2>2, CanAppendHasHead DEF canInfer
    <3>2. proc[p].head \in DOMAIN made
      BY <3>1, AtWork
    <3>3. TalkHolds(proc[p], made, cut) /\ stage(proc[p]) = "infer"
      BY <3>1, WorkTalks DEF stage
    <3> QED
      BY <3>2, <3>3 DEF TalkHolds
  <2> QED
    BY <2>1, <2>2, WellFormedConversation
<1> QED
  BY <1>1, MathInvariant, TalkInvIsInvariant, PTL

=============================================================================
