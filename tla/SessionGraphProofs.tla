------------------------- MODULE SessionGraphProofs -------------------------
(***************************************************************************)
(* Proofs about SessionGraph, Restore and the loop of topoSortNodes, for   *)
(* all IDs, bounds and sets of callers' inputs.  Where the parent edges    *)
(* themselves are at stake the hypothesis is that AppendTypedNode is given *)
(* no parent edges besides parentIDs (ExtraParents = {}); the rest holds   *)
(* whatever it is given.                                                   *)
(***************************************************************************)
EXTENDS Restore, TopoSortRun, CommonFacts

\* An append that passed its checks, seen from outside: a new node linked under
\* parents that exist, which only the first node lacks.
AppendStep(id, parents, node) ==
  /\ ~closed /\ started
  /\ id \in ID \ DOMAIN nodes
  /\ node \in Node
  /\ parents \in Seq(DOMAIN nodes)
  /\ parents = << >> <=> DOMAIN nodes = {}
  /\ IsInjective(parents)
  /\ ExtraParents = {} => node.parents = parents
  /\ \A l \in node.links : l[2] \in DOMAIN nodes \cup Foreign
  /\ nodes' = [n \in DOMAIN nodes \cup {id} |-> IF n = id THEN node ELSE nodes[n]]
  /\ children' = linkChildren(id, parents)
  /\ headID' = id
  /\ events' = Append(events, Log!NodeEvent(id, node))
  /\ UNCHANGED <<started, closed, terminalNodeID, endReason>>

-----------------------------------------------------------------------------
(* Sequences *)

\* A sequence of bounded length is a sequence.
LEMMA SeqOfIsSeq ==
  ASSUME NEW S, NEW n \in Nat, NEW s \in SeqOf(S, n)
  PROVE  s \in Seq(S)
<1>1. PICK m \in 0..n : s \in [1..m -> S]
  BY DEF SeqOf
<1>2. m \in Nat
  BY <1>1
<1> QED
  BY <1>1, <1>2

-----------------------------------------------------------------------------
(* The checks of an append *)

\* What validateNodeReferences and the checks before it guarantee together.
LEMMA AcceptedParents ==
  ASSUME TypeOK, NEW parents \in acceptedParents
  PROVE  /\ ~closed /\ started
         /\ parents \in Seq(DOMAIN nodes)
         /\ parents = << >> <=> DOMAIN nodes = {}
         /\ IsInjective(parents)
<1>1. PICK ids \in SeqOf(AnyID \cup {NoID}, MaxRefs) :
        appendAllowed(ids) /\ parents \in validateNodeReferences(ids)
  BY DEF acceptedParents
<1>2. ids \in Seq(AnyID \cup {NoID})
  BY SeqOfIsSeq, ConstantsAssumption
<1>3. parents \in SeqOf(DOMAIN nodes, Len(ids)) /\ ToSet(parents) = ToSet(ids)
  BY <1>1 DEF validateNodeReferences
<1>4. parents \in Seq(DOMAIN nodes)
  BY <1>2, <1>3, SeqOfIsSeq
<1>5. parents = << >> => ids = << >>
  <2>1. SUFFICES ASSUME parents = << >> PROVE Len(ids) = 0
    BY <1>2
  <2>2. ToSet(ids) = {}
    BY <1>3, <2>1 DEF ToSet
  <2>3. \A i \in DOMAIN ids : ids[i] \in ToSet(ids)
    BY DEF ToSet
  <2> QED
    BY <2>2, <2>3, <1>2
<1>6. DOMAIN nodes = {} => parents = << >>
  BY <1>4
<1>7. ASSUME NEW i \in DOMAIN parents, NEW j \in DOMAIN parents, i < j
      PROVE  parents[i] # parents[j]
  <2>1. PICK k \in DOMAIN ids : ids[k] = parents[i] /\ \A m \in 1..k : ids[m] # parents[j]
    BY <1>1, <1>7 DEF validateNodeReferences
  <2>2. k \in 1..k
    BY <1>2
  <2> QED
    BY <2>1, <2>2
<1>8. IsInjective(parents)
  <2>1. SUFFICES ASSUME NEW i \in DOMAIN parents, NEW j \in DOMAIN parents,
                        parents[i] = parents[j]
                 PROVE  i = j
    BY Zenon DEF IsInjective
  <2>2. i \in Nat /\ j \in Nat
    BY <1>4
  <2>3. ~(i < j) /\ ~(j < i)
    BY <1>7, <2>1
  <2> QED
    BY <2>2, <2>3
<1> QED
  BY <1>1, <1>4, <1>5, <1>6, <1>8 DEF appendAllowed

\* Every step is a start, an append as above, or an end.
LEMMA StepCases ==
  ASSUME TypeOK, Next
  PROVE  \/ Start
         \/ \E id \in ID, parents \in Seq(AnyID), node \in Node :
              AppendStep(id, parents, node)
         \/ \E reason \in Reason : End(reason)
<1>1. SUFFICES ASSUME NEW parents \in acceptedParents, NEW id \in ID,
                      NEW role \in Roles, NEW ts \in Time,
                      \/ AppendMessage(id, role, ts, parents)
                      \/ \E kind \in TypedKinds, links \in Links,
                            extra \in SeqOf(ExtraParents \cap Nameable, MaxLinks) :
                           AppendTypedNode(id, role, ts, parents, kind, extra, links)
               PROVE  parents \in Seq(AnyID) /\ \E node \in Node : AppendStep(id, parents, node)
  BY DEF Next
<1>2. /\ ~closed /\ started
      /\ parents \in Seq(DOMAIN nodes)
      /\ parents = << >> <=> DOMAIN nodes = {}
      /\ IsInjective(parents)
  BY AcceptedParents
<1>3. DOMAIN nodes \subseteq AnyID /\ Nameable \subseteq AnyID
  BY DEF TypeOK, AnyID, Nameable
<1>4. parents \in Seq(AnyID)
  BY <1>2, <1>3
<1>5. CASE AppendMessage(id, role, ts, parents)
  <2> DEFINE node == [parents |-> parents, links |-> {}, role |-> role,
                      kind |-> Untyped, ts |-> ts]
  <2>1. node \in Node /\ node.links = {}
    BY <1>4 DEF Node
  <2>2. AppendStep(id, parents, node)
    BY <1>2, <1>5, <2>1 DEF AppendStep, AppendMessage, appendNode
  <2> QED
    BY <1>4, <2>1, <2>2
<1>6. CASE \E kind \in TypedKinds, links \in Links,
              extra \in SeqOf(ExtraParents \cap Nameable, MaxLinks) :
             AppendTypedNode(id, role, ts, parents, kind, extra, links)
  <2>1. PICK kind \in TypedKinds, links \in Links,
             extra \in SeqOf(ExtraParents \cap Nameable, MaxLinks) :
               AppendTypedNode(id, role, ts, parents, kind, extra, links)
    BY <1>6
  <2>2. extra \in Seq(ExtraParents \cap Nameable)
    BY SeqOfIsSeq, ConstantsAssumption
  <2>3. extra \in Seq(AnyID)
    BY <1>3, <2>2
  <2>4. ExtraParents = {} => parents \o extra = parents
    <3>1. ExtraParents = {} => extra = << >>
      BY <2>2
    <3> QED
      BY <3>1, <1>4
  <2>5. links \in SUBSET (LinkKinds \X AnyID)
    BY <1>3 DEF Links
  <2> DEFINE node == [parents |-> parents \o extra, links |-> links,
                      role |-> role, kind |-> kind, ts |-> ts]
  <2>6. node \in Node /\ \A l \in node.links : l[2] \in DOMAIN nodes \cup Foreign
    BY <1>4, <2>3, <2>5 DEF Node, Links, Nameable
  <2>7. AppendStep(id, parents, node)
    BY <1>2, <2>1, <2>4, <2>6 DEF AppendStep, AppendTypedNode, appendNode
  <2> QED
    BY <1>4, <2>6, <2>7
<1> QED
  BY <1>1, <1>5, <1>6

-----------------------------------------------------------------------------
(* Type correctness *)

\* The three kinds of events are events.
LEMMA EventKinds ==
  /\ Log!StartEvent \in Event
  /\ \A id \in ID, node \in Node : Log!NodeEvent(id, node) \in Event
  /\ \A r \in Reason, t \in ID \cup {NoID} : Log!EndedEvent(r, t) \in Event
BY DEF Event, Log!StartEvent, Log!NodeEvent, Log!EndedEvent

\* linkChildren keeps the shape of children.
LEMMA LinkChildrenType ==
  ASSUME TypeOK, NEW id \in ID, NEW parents
  PROVE  linkChildren(id, parents) \in [ID -> Seq(ID)]
<1>1. \A p \in ID : children[p] \in Seq(ID) /\ Append(children[p], id) \in Seq(ID)
  BY AppendPositions DEF TypeOK
<1> QED
  BY <1>1 DEF linkChildren

\* Every call preserves the types of the fields.
LEMMA TypeStep ==
  ASSUME TypeOK, [Next]_vars
  PROVE  TypeOK'
<1>1. CASE Start
  <2>1. events' \in Seq(Event)
    BY <1>1, EventKinds, AppendPositions DEF Start, TypeOK
  <2> QED
    BY <1>1, <2>1 DEF Start, TypeOK
<1>2. ASSUME NEW id \in ID, NEW parents, NEW node \in Node,
             AppendStep(id, parents, node)
      PROVE  TypeOK'
  <2>1. events' \in Seq(Event)
    BY <1>2, EventKinds, AppendPositions DEF AppendStep, TypeOK
  <2>2. children' \in [ID -> Seq(ID)]
    BY <1>2, LinkChildrenType DEF AppendStep
  <2>3. DOMAIN nodes' \subseteq ID /\ nodes' \in [DOMAIN nodes' -> Node]
    BY <1>2 DEF AppendStep, TypeOK
  <2> QED
    BY <1>2, <2>1, <2>2, <2>3 DEF AppendStep, TypeOK
<1>3. ASSUME NEW reason \in Reason, End(reason)
      PROVE  TypeOK'
  <2>1. events' \in Seq(Event)
    BY <1>3, EventKinds, AppendPositions DEF End, TypeOK
  <2> QED
    BY <1>3, <2>1 DEF End, TypeOK
<1>4. CASE UNCHANGED vars
  BY <1>4 DEF vars, TypeOK
<1> QED
  BY <1>1, <1>2, <1>3, <1>4, StepCases

\* The new graph has the declared types.
LEMMA TypeInit == Init => TypeOK
<1> SUFFICES ASSUME Init PROVE TypeOK
  OBVIOUS
<1>1. DOMAIN nodes = {} /\ nodes \in [DOMAIN nodes -> Node]
  BY DEF Init
<1>2. children \in [ID -> Seq(ID)]
  BY DEF Init
<1>3. events \in Seq(Event)
  BY DEF Init
<1> QED
  BY <1>1, <1>2, <1>3 DEF Init, TypeOK

\* The fields of Graph keep their types, whatever the callers pass.
THEOREM TypeCorrect == Spec => []TypeOK
<1>1. TypeOK /\ [Next]_vars => TypeOK'
  BY TypeStep
<1> QED
  BY <1>1, TypeInit, PTL DEF Spec

-----------------------------------------------------------------------------
(* The log and the fields *)

\* An append adds one position to the log, and nothing else.
LEMMA AppendedEvent ==
  ASSUME TypeOK, NEW e \in Event, events' = Append(events, e)
  PROVE  /\ Len(events) \in Nat
         /\ Len(events') = Len(events) + 1
         /\ DOMAIN events = 1..Len(events)
         /\ DOMAIN events' = 1..(Len(events) + 1)
         /\ \A i \in 1..Len(events) : events'[i] = events[i]
         /\ events'[Len(events) + 1] = e
         /\ NodeAt' = IF e.kind = "node.appended" THEN NodeAt \cup {Len(events) + 1}
                      ELSE NodeAt
<1>1. /\ Len(events) \in Nat
      /\ Len(events') = Len(events) + 1
      /\ DOMAIN events = 1..Len(events)
      /\ DOMAIN events' = 1..(Len(events) + 1)
      /\ \A i \in 1..Len(events) : events'[i] = events[i]
      /\ events'[Len(events) + 1] = e
  BY AppendPositions DEF TypeOK
<1>2. \A i : i \in NodeAt' <=> i \in NodeAt \/ (i = Len(events) + 1 /\ e.kind = "node.appended")
  BY <1>1 DEF NodeAt
<1>3. NodeAt' = IF e.kind = "node.appended" THEN NodeAt \cup {Len(events) + 1} ELSE NodeAt
  BY <1>2
<1> QED
  BY <1>1, <1>3

\* Start keeps the log and the fields in agreement.
LEMMA LogStart ==
  ASSUME TypeOK, LogMatchesFields, Start
  PROVE  LogMatchesFields'
<1>1. events = << >> /\ Len(events) = 0 /\ NodeAt = {}
  BY DEF LogMatchesFields, Start, NodeAt
<1>2. /\ DOMAIN events' = 1..1 /\ Len(events') = 1
      /\ events'[1] = Log!StartEvent /\ NodeAt' = {}
  BY <1>1, EventKinds, AppendedEvent DEF Start, Log!StartEvent
<1>3. DOMAIN nodes = {} /\ headID = NoID
  BY <1>1 DEF LogMatchesFields, EventsOf
<1> QED
  BY <1>1, <1>2, <1>3 DEF LogMatchesFields, Start, Log!StartEvent, EventsOf

\* So does an append, of a message or of a typed node.
LEMMA LogAppend ==
  ASSUME TypeOK, LogMatchesFields, NEW id \in ID, NEW parents, NEW node \in Node,
         AppendStep(id, parents, node)
  PROVE  LogMatchesFields'
<1> DEFINE L == Len(events)
<1>1. /\ L \in Nat /\ Len(events') = L + 1
      /\ DOMAIN events = 1..L /\ DOMAIN events' = 1..(L + 1)
      /\ \A i \in 1..L : events'[i] = events[i]
      /\ events'[L + 1].kind = "node.appended"
      /\ events'[L + 1].id = id /\ events'[L + 1].node = node
      /\ NodeAt' = NodeAt \cup {L + 1}
  BY EventKinds, AppendedEvent DEF AppendStep, Log!NodeEvent
<1>2. L >= 1 /\ events # << >> /\ events' # << >>
  BY <1>1 DEF LogMatchesFields, AppendStep, TypeOK
<1>3. NodeAt \subseteq 1..L
  BY <1>1 DEF NodeAt
<1>4. /\ \A n \in DOMAIN nodes : n # id /\ nodes'[n] = nodes[n]
      /\ nodes'[id] = node /\ DOMAIN nodes' = DOMAIN nodes \cup {id}
  BY DEF AppendStep
<1>5. \A i \in NodeAt : events[i].id \in DOMAIN nodes /\ events'[i] = events[i]
  BY <1>1, <1>3 DEF LogMatchesFields
<1>6. closed' = FALSE /\ closed = FALSE /\ started' /\ headID' = id
  BY DEF AppendStep, TypeOK
<1>7. \A i \in DOMAIN events' :
        /\ i = 1 <=> events'[i].kind = "session.start"
        /\ events'[i].kind = "session.ended" <=> closed' /\ i = Len(events')
  BY <1>1, <1>2, <1>6 DEF LogMatchesFields
<1>8. /\ \A i \in NodeAt' : events'[i].id \in DOMAIN nodes'
                           /\ nodes'[events'[i].id] = events'[i].node
      /\ \A i, j \in NodeAt' : events'[i].id = events'[j].id => i = j
  BY <1>1, <1>4, <1>5 DEF LogMatchesFields
<1>9. \A n \in DOMAIN nodes' : EventsOf(n)' # {}
  <2>1. \A n \in DOMAIN nodes : \E i \in NodeAt : events[i].id = n
    BY DEF LogMatchesFields, EventsOf
  <2>2. \A n \in DOMAIN nodes' : \E i \in NodeAt' : events'[i].id = n
    BY <1>1, <1>4, <1>5, <2>1
  <2> QED
    BY <2>2 DEF EventsOf
<1>10. /\ headID' = NoID <=> NodeAt' = {}
       /\ \A i \in NodeAt' : (\A j \in NodeAt' : j <= i) => headID' = events'[i].id
  BY <1>1, <1>3, <1>6, ConstantsAssumption
<1> HIDE DEF L
<1> QED
  BY <1>2, <1>6, <1>7, <1>8, <1>9, <1>10 DEF LogMatchesFields

\* So does End.
LEMMA LogEnd ==
  ASSUME TypeOK, LogMatchesFields, NEW reason \in Reason, End(reason)
  PROVE  LogMatchesFields'
<1> DEFINE L == Len(events)
<1>1. /\ L \in Nat /\ Len(events') = L + 1
      /\ DOMAIN events = 1..L /\ DOMAIN events' = 1..(L + 1)
      /\ \A i \in 1..L : events'[i] = events[i]
      /\ events'[L + 1] = Log!EndedEvent(reason, headID)
      /\ events'[L + 1].kind = "session.ended"
      /\ NodeAt' = NodeAt
  BY EventKinds, AppendedEvent DEF End, TypeOK, Log!EndedEvent
<1>2. L >= 1 /\ events # << >> /\ events' # << >>
  BY <1>1 DEF LogMatchesFields, End, TypeOK
<1>3. NodeAt \subseteq 1..L
  BY <1>1 DEF NodeAt
<1>4. \A n : EventsOf(n)' = EventsOf(n)
  BY <1>1, <1>3 DEF EventsOf
<1>5. \A i \in DOMAIN events' :
        /\ i = 1 <=> events'[i].kind = "session.start"
        /\ events'[i].kind = "session.ended" <=> closed' /\ i = Len(events')
  BY <1>1, <1>2 DEF LogMatchesFields, End
<1>6. /\ started' /\ closed' /\ nodes' = nodes /\ headID' = headID
      /\ endReason' = reason /\ terminalNodeID' = headID
  BY DEF End
<1> HIDE DEF L
<1>7. /\ \A i \in NodeAt' : /\ events'[i].id \in DOMAIN nodes'
                            /\ nodes'[events'[i].id] = events'[i].node
      /\ \A i, j \in NodeAt' : events'[i].id = events'[j].id => i = j
      /\ headID' = NoID <=> NodeAt' = {}
      /\ \A i \in NodeAt' : (\A j \in NodeAt' : j <= i) => headID' = events'[i].id
  BY <1>1, <1>3, <1>6 DEF LogMatchesFields
<1>8. \A n \in DOMAIN nodes' : EventsOf(n)' # {}
  BY <1>4, <1>6 DEF LogMatchesFields
<1>9. events'[Len(events')] = Log!EndedEvent(endReason', terminalNodeID')
  BY <1>1, <1>6
<1> QED
  BY <1>2, <1>5, <1>6, <1>7, <1>8, <1>9 DEF LogMatchesFields, Log!EndedEvent

\* So does every call.
LEMMA LogStep ==
  ASSUME TypeOK, LogMatchesFields, [Next]_vars
  PROVE  LogMatchesFields'
<1>1. CASE UNCHANGED vars
  BY <1>1 DEF vars, LogMatchesFields, NodeAt, EventsOf, Log!EndedEvent
<1> QED
  BY <1>1, LogStart, LogAppend, LogEnd, StepCases

\* The lifecycle flags, the node map, the head and the end record always say
\* what the emitted log says, whatever edges AppendTypedNode is given.
THEOREM LogConsistent == Spec => []LogMatchesFields
<1>1. Init => LogMatchesFields
  BY DEF Init, LogMatchesFields, NodeAt
<1>2. TypeOK /\ LogMatchesFields /\ [Next]_vars => LogMatchesFields'
  BY LogStep
<1> QED
  BY <1>1, <1>2, TypeCorrect, PTL DEF Spec

-----------------------------------------------------------------------------
(* Parents and children *)

\* EventsOf after the step, for a node named by any expression.
NewEventsOf(n) == {i \in NodeAt' : events'[i].id = n}

\* What is known of the log before an append, and of its new last position.
LEMMA AppendedNode ==
  ASSUME TypeOK, LogMatchesFields, NEW id \in ID, NEW parents, NEW node \in Node,
         AppendStep(id, parents, node)
  PROVE  /\ Len(events) \in Nat /\ NodeAt \subseteq 1..Len(events)
         /\ Len(events) + 1 \notin NodeAt
         /\ NodeAt' = NodeAt \cup {Len(events) + 1}
         /\ \A i \in NodeAt : events'[i] = events[i] /\ events[i].id # id
         /\ events'[Len(events) + 1].id = id
         /\ events'[Len(events) + 1].node = node
         /\ \A n : n # id => NewEventsOf(n) = EventsOf(n)
         /\ NewEventsOf(id) = {Len(events) + 1}
         /\ Len(events) = 1 <=> DOMAIN nodes = {}
<1> DEFINE L == Len(events)
<1>1. /\ L \in Nat /\ DOMAIN events = 1..L
      /\ \A i \in 1..L : events'[i] = events[i]
      /\ events'[L + 1].id = id /\ events'[L + 1].node = node
      /\ NodeAt' = NodeAt \cup {L + 1}
  BY EventKinds, AppendedEvent DEF AppendStep, Log!NodeEvent
<1>2. NodeAt \subseteq 1..L /\ L + 1 \notin NodeAt
  BY <1>1 DEF NodeAt
<1>3. \A i \in NodeAt : events'[i] = events[i] /\ events[i].id # id
  BY <1>1, <1>2 DEF LogMatchesFields, AppendStep
<1>4. \A n, i : i \in NewEventsOf(n) <=> i \in EventsOf(n) \/ (i = L + 1 /\ n = id)
  BY <1>1, <1>2, <1>3 DEF EventsOf, NewEventsOf
<1>5. EventsOf(id) = {}
  BY <1>3 DEF EventsOf
<1>6. (\A n : n # id => NewEventsOf(n) = EventsOf(n)) /\ NewEventsOf(id) = {L + 1}
  <2>1. \A n : n # id => \A i : i \in NewEventsOf(n) <=> i \in EventsOf(n)
    BY <1>4
  <2>2. \A i : i \in NewEventsOf(id) <=> i = L + 1
    BY <1>4, <1>5
  <2>3. ASSUME NEW n, n # id PROVE NewEventsOf(n) = EventsOf(n)
    BY <2>1, <2>3 DEF NewEventsOf, EventsOf
  <2>4. NewEventsOf(id) = {L + 1}
    BY <2>2 DEF NewEventsOf
  <2> QED
    BY <2>3, <2>4
<1>7. L = 1 <=> DOMAIN nodes = {}
  <2>1. L >= 1 /\ ~closed
    BY <1>1 DEF LogMatchesFields, AppendStep, TypeOK
  <2>2. \A i \in 1..L : events[i].kind = "node.appended" <=> i # 1
    BY <1>1, <2>1 DEF LogMatchesFields, TypeOK, Event
  <2>3. L = 1 <=> NodeAt = {}
    BY <1>1, <2>1, <2>2 DEF NodeAt
  <2>4. NodeAt = {} <=> DOMAIN nodes = {}
    BY DEF LogMatchesFields, EventsOf
  <2> QED
    BY <2>3, <2>4
<1> QED
  BY <1>1, <1>2, <1>3, <1>6, <1>7

\* An append keeps parents before their children.
LEMMA ParentsAppend ==
  ASSUME ExtraParents = {}, TypeOK, LogMatchesFields, ParentsPrecede,
         NEW id \in ID, NEW parents, NEW node \in Node,
         AppendStep(id, parents, node)
  PROVE  ParentsPrecede'
<1> DEFINE L == Len(events)
<1> SUFFICES ASSUME NEW i \in NodeAt'
             PROVE  /\ events'[i].node.parents = << >> <=> i = 2
                    /\ \A k \in DOMAIN events'[i].node.parents :
                         \E j \in NewEventsOf(events'[i].node.parents[k]) : j < i
  BY DEF ParentsPrecede, EventsOf, NewEventsOf
<1>1. CASE i \in NodeAt
  <2>1. events'[i] = events[i]
    BY <1>1, AppendedNode
  <2>2. \A n : EventsOf(n) \subseteq NewEventsOf(n)
    BY AppendedNode DEF EventsOf
  <2> QED
    BY <1>1, <2>1, <2>2 DEF ParentsPrecede
<1>2. CASE i = L + 1
  <2>1. events'[i].node = node /\ L \in Nat
    BY <1>2, AppendedNode
  <2>2. node.parents = << >> <=> i = 2
    <3>1. node.parents = << >> <=> DOMAIN nodes = {}
      BY DEF AppendStep
    <3>2. L = 1 <=> DOMAIN nodes = {}
      BY AppendedNode
    <3>3. L \in Nat
      BY <2>1
    <3> HIDE DEF L
    <3>4. L = 1 <=> i = 2
      BY <1>2, <3>3
    <3> QED
      BY <3>1, <3>2, <3>4
  <2>3. ASSUME NEW k \in DOMAIN node.parents
        PROVE  \E j \in NewEventsOf(node.parents[k]) : j < i
    <3>1. node.parents[k] \in DOMAIN nodes
      BY DEF AppendStep
    <3>2. PICK j : j \in EventsOf(node.parents[k])
      BY <3>1 DEF LogMatchesFields
    <3>3. node.parents[k] # id /\ j \in 1..L
      BY <3>1, <3>2, AppendedNode DEF AppendStep, EventsOf
    <3>4. j \in NewEventsOf(node.parents[k])
      BY <3>2, <3>3, AppendedNode
    <3> QED
      BY <1>2, <2>1, <3>3, <3>4
  <2> QED
    BY <2>1, <2>2, <2>3
<1> QED
  BY <1>1, <1>2, AppendedNode

\* An append keeps the child lists the inverse of the parents.
LEMMA ChildrenAppend ==
  ASSUME ExtraParents = {}, TypeOK, LogMatchesFields, ChildrenInvertParents,
         NEW id \in ID, NEW parents, NEW node \in Node,
         AppendStep(id, parents, node)
  PROVE  ChildrenInvertParents'
<1> DEFINE L == Len(events)
<1> SUFFICES ASSUME NEW p \in ID
             PROVE  /\ ToSet(children'[p])
                         = {n \in DOMAIN nodes' : p \in ToSet(nodes'[n].parents)}
                    /\ \A a, b \in DOMAIN children'[p] : a < b =>
                         \A i \in NewEventsOf(children'[p][a]),
                            j \in NewEventsOf(children'[p][b]) : i < j
  BY DEF ChildrenInvertParents, EventsOf, NewEventsOf
<1>1. children[p] \in Seq(ID)
  BY DEF TypeOK
<1>2. /\ \A n \in DOMAIN nodes : n # id /\ nodes'[n] = nodes[n]
      /\ nodes'[id] = node /\ DOMAIN nodes' = DOMAIN nodes \cup {id}
  BY DEF AppendStep
<1>3. ToSet(children[p]) = {n \in DOMAIN nodes : p \in ToSet(nodes[n].parents)}
  BY DEF ChildrenInvertParents
<1>4. \A a \in DOMAIN children[p] : children[p][a] \in DOMAIN nodes
  BY <1>3 DEF ToSet
<1>5. \A n \in DOMAIN nodes : NewEventsOf(n) = EventsOf(n) /\ EventsOf(n) \subseteq 1..L
  BY <1>2, AppendedNode DEF EventsOf
<1>6. \A a, b \in DOMAIN children[p] : a < b =>
        \A i \in NewEventsOf(children[p][a]), j \in NewEventsOf(children[p][b]) : i < j
  BY <1>4, <1>5 DEF ChildrenInvertParents
<1>7. CASE p \notin ToSet(node.parents)
  <2>1. children'[p] = children[p]
    BY <1>7 DEF AppendStep, linkChildren
  <2>2. {n \in DOMAIN nodes' : p \in ToSet(nodes'[n].parents)} = ToSet(children[p])
    BY <1>2, <1>3, <1>7
  <2> QED
    BY <1>6, <2>1, <2>2
<1>8. CASE p \in ToSet(node.parents)
  <2>1. children'[p] = Append(children[p], id)
    BY <1>8 DEF AppendStep, linkChildren
  <2>2. ToSet(children'[p]) = ToSet(children[p]) \cup {id}
    BY <1>1, <2>1, AppendToSet
  <2>3. {n \in DOMAIN nodes' : p \in ToSet(nodes'[n].parents)}
          = ToSet(children[p]) \cup {id}
    BY <1>2, <1>3, <1>8
  <2>4. /\ DOMAIN children'[p] = 1..(Len(children[p]) + 1) /\ Len(children[p]) \in Nat
        /\ \A a \in 1..Len(children[p]) : children'[p][a] = children[p][a]
        /\ children'[p][Len(children[p]) + 1] = id
        /\ DOMAIN children[p] = 1..Len(children[p])
    BY <1>1, <2>1, AppendPositions
  <2>5. ASSUME NEW a \in DOMAIN children'[p], NEW b \in DOMAIN children'[p], a < b,
               NEW i \in NewEventsOf(children'[p][a]), NEW j \in NewEventsOf(children'[p][b])
        PROVE  i < j
    <3>1. a \in DOMAIN children[p] /\ children'[p][a] = children[p][a]
      BY <2>4, <2>5
    <3>2. CASE b \in DOMAIN children[p]
      BY <1>6, <2>4, <2>5, <3>1, <3>2
    <3>3. CASE b = Len(children[p]) + 1
      <4>1. i \in 1..L
        BY <1>4, <1>5, <2>5, <3>1
      <4>2. j = L + 1 /\ L \in Nat
        BY <2>4, <2>5, <3>3, AppendedNode
      <4> QED
        BY <4>1, <4>2
    <3> QED
      BY <2>4, <3>2, <3>3
  <2> QED
    BY <2>2, <2>3, <2>5
<1> QED
  BY <1>7, <1>8

\* Steps that leave the nodes and their events alone disturb neither.
LEMMA NodesUntouched ==
  ASSUME ParentsPrecede, ChildrenInvertParents,
         nodes' = nodes, children' = children, NodeAt' = NodeAt,
         \A i \in NodeAt : events'[i] = events[i]
  PROVE  ParentsPrecede' /\ ChildrenInvertParents'
<1>1. \A n : NewEventsOf(n) = EventsOf(n)
  BY DEF NewEventsOf, EventsOf
<1>2. ParentsPrecede'
  <2> SUFFICES ASSUME NEW i \in NodeAt'
               PROVE  /\ events'[i].node.parents = << >> <=> i = 2
                      /\ \A k \in DOMAIN events'[i].node.parents :
                           \E j \in NewEventsOf(events'[i].node.parents[k]) : j < i
    BY DEF ParentsPrecede, EventsOf, NewEventsOf
  <2> QED
    BY <1>1 DEF ParentsPrecede
<1>3. ChildrenInvertParents'
  <2> SUFFICES ASSUME NEW p \in ID
               PROVE  /\ ToSet(children'[p])
                           = {n \in DOMAIN nodes' : p \in ToSet(nodes'[n].parents)}
                      /\ \A a, b \in DOMAIN children'[p] : a < b =>
                           \A i \in NewEventsOf(children'[p][a]),
                              j \in NewEventsOf(children'[p][b]) : i < j
    BY DEF ChildrenInvertParents, EventsOf, NewEventsOf
  <2> QED
    BY <1>1 DEF ChildrenInvertParents
<1> QED
  BY <1>2, <1>3

-----------------------------------------------------------------------------
(* The invariants *)

\* ParentsPrecede and ChildrenInvertParents are not inductive by themselves:
\* that every node of the map has an event (LogMatchesFields) is what puts the
\* event of an accepted parent before the new one, and that it has only one is
\* what puts the new child last.
IInv == TypeOK /\ LogMatchesFields /\ ParentsPrecede /\ ChildrenInvertParents

\* The new graph satisfies the invariant.
LEMMA InvInit == Init => IInv
<1> SUFFICES ASSUME Init PROVE IInv
  OBVIOUS
<1>1. NodeAt = {} /\ DOMAIN nodes = {}
  BY DEF Init, NodeAt
<1>2. LogMatchesFields
  BY <1>1 DEF Init, LogMatchesFields
<1>3. ParentsPrecede
  BY <1>1 DEF ParentsPrecede
<1>4. ChildrenInvertParents
  BY <1>1 DEF Init, ChildrenInvertParents, ToSet
<1> QED
  BY <1>2, <1>3, <1>4, TypeInit DEF IInv

\* Every call preserves the invariant.
LEMMA InvStep ==
  ASSUME ExtraParents = {}, IInv, [Next]_vars
  PROVE  IInv'
<1> USE DEF IInv
<1>1. TypeOK' /\ LogMatchesFields'
  BY TypeStep, LogStep
<1>2. CASE Start
  <2>1. NodeAt' = NodeAt /\ \A i \in NodeAt : events'[i] = events[i]
    BY <1>2, EventKinds, AppendedEvent DEF Start, Log!StartEvent, NodeAt
  <2>2. nodes' = nodes /\ children' = children
    BY <1>2 DEF Start
  <2> QED
    BY <1>1, <2>1, <2>2, NodesUntouched
<1>3. ASSUME NEW id \in ID, NEW parents, NEW node \in Node,
             AppendStep(id, parents, node)
      PROVE  IInv'
  BY <1>1, <1>3, ParentsAppend, ChildrenAppend
<1>4. ASSUME NEW reason \in Reason, End(reason)
      PROVE  IInv'
  <2>1. Log!EndedEvent(reason, headID) \in Event
    BY EventKinds DEF TypeOK
  <2>2. NodeAt' = NodeAt /\ \A i \in NodeAt : events'[i] = events[i]
    BY <1>4, <2>1, AppendedEvent DEF End, Log!EndedEvent, NodeAt
  <2>3. nodes' = nodes /\ children' = children
    BY <1>4 DEF End
  <2> QED
    BY <1>1, <2>2, <2>3, NodesUntouched
<1>5. CASE UNCHANGED vars
  <2>1. NodeAt' = NodeAt /\ nodes' = nodes /\ children' = children
    BY <1>5 DEF vars, NodeAt
  <2> QED
    BY <1>1, <1>5, <2>1, NodesUntouched DEF vars
<1> QED
  BY <1>2, <1>3, <1>4, <1>5, StepCases

\* The invariant holds in every reachable state.
LEMMA Invariant ==
  ASSUME ExtraParents = {}
  PROVE  Spec => []IInv
<1>1. IInv /\ [Next]_vars => IInv'
  BY InvStep
<1> QED
  BY <1>1, InvInit, PTL DEF Spec

\* Every parent was emitted before its child, and only the first node has no
\* parent: the session is a DAG with one root, and replay finds every parent.
THEOREM ParentsAreEarlier ==
  ASSUME ExtraParents = {}
  PROVE  Spec => []ParentsPrecede
<1>1. IInv => ParentsPrecede
  BY DEF IInv
<1> QED
  BY <1>1, Invariant, PTL

\* The child lists that AdvanceHead and NeedsResponse read are exactly the
\* inverse of the nodes' parents, in the order of the log.
THEOREM ChildrenAreInverse ==
  ASSUME ExtraParents = {}
  PROVE  Spec => []ChildrenInvertParents
<1>1. IInv => ChildrenInvertParents
  BY DEF IInv
<1> QED
  BY <1>1, Invariant, PTL

-----------------------------------------------------------------------------
(* Walks over the edges *)

\* A walk over the nodes S that rises while it stays in G.
Climbs(f, S, G, rank) ==
  /\ f[0] \in S /\ rank \in [S -> Int]
  /\ \A k \in Nat : f[k] \in S /\ f[k] \in G => f[k + 1] \in S /\ rank[f[k]] < rank[f[k + 1]]

\* Among finitely many nodes it leaves G, within as many steps as there are nodes.
LEMMA WalkEnds ==
  ASSUME NEW S, IsFiniteSet(S), NEW G, NEW rank, NEW f, Climbs(f, S, G, rank)
  PROVE  \E d \in 0..Cardinality(S) : f[d] \in S /\ f[d] \notin G
<1>0. /\ f[0] \in S /\ rank \in [S -> Int]
      /\ \A k \in Nat : f[k] \in S /\ f[k] \in G => f[k + 1] \in S /\ rank[f[k]] < rank[f[k + 1]]
  BY DEF Climbs
<1>1. PICK C \in Nat : C = Cardinality(S)
  BY FS_CardinalityType
<1>2. SUFFICES ASSUME \A d \in 0..C : f[d] \in S => f[d] \in G
               PROVE  FALSE
  BY <1>1
<1> DEFINE rises(k) == \A i \in 0..k : f[i] \in S /\ \A j \in 0..k : i < j => rank[f[i]] < rank[f[j]]
           K == {k \in Nat : k <= C => rises(k)}
<1>3. 0 \in K
  BY <1>0
<1>4. ASSUME NEW k \in K PROVE k + 1 \in K
  <2>1. k \in Nat /\ k + 1 \in Nat
    OBVIOUS
  <2>2. SUFFICES ASSUME k + 1 <= C PROVE rises(k + 1)
    BY <2>1
  <2>3. k \in 0..C /\ rises(k) /\ f[k] \in S
    BY <2>1, <2>2
  <2>4. f[k + 1] \in S /\ rank[f[k]] < rank[f[k + 1]]
    BY <1>0, <1>2, <2>1, <2>3
  <2>5. \A i \in 0..(k + 1) : i \in 0..k \/ i = k + 1
    BY <2>1
  <2>6. \A i \in 0..k : rank[f[i]] < rank[f[k + 1]]
    <3> TAKE i \in 0..k
    <3>1. CASE i = k
      BY <2>4, <3>1
    <3>2. CASE i # k
      <4>1. i < k /\ k \in 0..k
        BY <2>1, <3>2
      <4>2. rank[f[i]] < rank[f[k]]
        BY <2>3, <4>1
      <4>3. rank[f[i]] \in Int /\ rank[f[k]] \in Int /\ rank[f[k + 1]] \in Int
        BY <1>0, <2>3, <2>4
      <4> QED
        BY <2>4, <4>2, <4>3
    <3> QED
      BY <3>1, <3>2
  <2>7. ASSUME NEW i \in 0..(k + 1) PROVE f[i] \in S
    BY <2>3, <2>4, <2>5
  <2>8. ASSUME NEW i \in 0..(k + 1), NEW j \in 0..(k + 1), i < j
        PROVE  rank[f[i]] < rank[f[j]]
    <3>1. i \in 0..k
      BY <2>1, <2>8
    <3>2. CASE j \in 0..k
      BY <2>3, <2>8, <3>1, <3>2
    <3>3. CASE j = k + 1
      BY <2>6, <3>1, <3>3
    <3> QED
      BY <2>5, <3>2, <3>3
  <2> QED
    BY <2>7, <2>8
<1> HIDE DEF rises
<1>5. K = Nat
  <2>1. K \in SUBSET Nat
    OBVIOUS
  <2> HIDE DEF K
  <2> QED
    BY <1>3, <1>4, <2>1, SetInduction
<1>6. rises(C)
  BY <1>1, <1>5
<1>7. PICK q : q = [i \in 1..(C + 1) |-> f[i - 1]]
  OBVIOUS
<1>8. \A i \in 1..(C + 1) : i - 1 \in 0..C /\ q[i] = f[i - 1]
  BY <1>7
<1>9. \A i \in 0..C : f[i] \in S /\ rank[f[i]] \in Int /\ \A j \in 0..C : i < j => rank[f[i]] < rank[f[j]]
  BY <1>0, <1>6 DEF rises
<1>10. q \in Seq(S) /\ Len(q) = C + 1 /\ DOMAIN q = 1..(C + 1)
  <2>1. q \in [1..(C + 1) -> S] /\ C + 1 \in Nat
    BY <1>7, <1>8, <1>9
  <2> QED
    BY <2>1
<1>11. IsInjective(q)
  <2> SUFFICES ASSUME NEW i \in 1..(C + 1), NEW j \in 1..(C + 1), q[i] = q[j], i # j
               PROVE  FALSE
    BY <1>10 DEF IsInjective
  <2>1. PICK a \in 0..C, b \in 0..C : a = i - 1 /\ b = j - 1
    BY <1>8
  <2>2. f[a] = f[b] /\ (a < b \/ b < a)
    BY <1>8, <2>1
  <2>3. rank[f[a]] < rank[f[b]] \/ rank[f[b]] < rank[f[a]]
    BY <1>9, <2>2
  <2>4. rank[f[a]] \in Int /\ rank[f[b]] = rank[f[a]]
    BY <1>9, <2>2
  <2> QED
    BY <2>3, <2>4
<1>12. C + 1 <= C
  BY <1>1, <1>10, <1>11, InjectiveLength
<1> QED
  BY <1>12

\* Each node has one place in the log, after those of its parents; the root is
\* the node emitted first.
LEMMA Places ==
  ASSUME IInv
  PROVE  /\ IsFiniteSet(DOMAIN nodes)
         /\ \E place \in [DOMAIN nodes -> Int] :
              \A n \in DOMAIN nodes :
                /\ EventsOf(n) = {place[n]}
                /\ nodes[n].parents = << >> => n = events[2].id
                /\ \A p \in ToSet(nodes[n].parents) : p \in DOMAIN nodes /\ place[p] < place[n]
<1> USE DEF IInv
<1> DEFINE place == [n \in DOMAIN nodes |-> CHOOSE i \in NodeAt : events[i].id = n]
<1>1. DOMAIN events = 1..Len(events) /\ Len(events) \in Nat /\ NodeAt \subseteq 1..Len(events)
  BY DEF TypeOK, NodeAt
<1>2. ASSUME NEW n \in DOMAIN nodes
      PROVE  /\ place[n] \in NodeAt /\ events[place[n]].id = n /\ events[place[n]].node = nodes[n]
             /\ EventsOf(n) = {place[n]}
  <2>1. \E i \in NodeAt : events[i].id = n
    BY DEF LogMatchesFields, EventsOf
  <2>2. place[n] \in NodeAt /\ events[place[n]].id = n
    BY <2>1
  <2> HIDE DEF place
  <2>3. events[place[n]].node = nodes[n]
    BY <2>2 DEF LogMatchesFields
  <2>4. \A i \in NodeAt : events[i].id = n => i = place[n]
    BY <2>2 DEF LogMatchesFields
  <2> QED
    BY <2>2, <2>3, <2>4 DEF EventsOf
<1>3. place \in [DOMAIN nodes -> 1..Len(events)]
  BY <1>1, <1>2
<1> HIDE DEF place
<1>4. place \in Injection(DOMAIN nodes, 1..Len(events))
  BY <1>2, <1>3 DEF Injection, IsInjective
<1>5. IsFiniteSet(DOMAIN nodes)
  BY <1>1, <1>4, FS_Injection, FS_Interval
<1>6. ASSUME NEW n \in DOMAIN nodes, nodes[n].parents = << >> PROVE n = events[2].id
  BY <1>2, <1>6 DEF ParentsPrecede
<1>7. ASSUME NEW n \in DOMAIN nodes, NEW p \in ToSet(nodes[n].parents)
      PROVE  p \in DOMAIN nodes /\ place[p] < place[n]
  <2>1. PICK k \in DOMAIN nodes[n].parents : nodes[n].parents[k] = p
    BY DEF ToSet
  <2>2. PICK j \in EventsOf(p) : j < place[n]
    BY <1>2, <2>1 DEF ParentsPrecede
  <2>3. p \in DOMAIN nodes
    BY <2>2 DEF EventsOf, LogMatchesFields
  <2> QED
    BY <1>2, <2>2, <2>3
<1>8. place \in [DOMAIN nodes -> Int]
  BY <1>1, <1>3
<1> QED
  BY <1>2, <1>5, <1>6, <1>7, <1>8

\* In N parents come before their children, and a node without one is the root.
Rooted(N, root, place) ==
  /\ IsFiniteSet(DOMAIN N) /\ DOMAIN N \subseteq AnyID /\ place \in [DOMAIN N -> Int]
  /\ \A v \in DOMAIN N :
       /\ N[v].parents \in Seq(AnyID)
       /\ N[v].parents = << >> => v = root
       /\ \A p \in ToSet(N[v].parents) : p \in DOMAIN N /\ place[p] < place[v]

IsLineage(line, root, n) == line # << >> /\ line[1] = root /\ line[Len(line)] = n

\* In a finite map of nodes whose parents come first, the walk of ResumeNodes ends
\* at a root, within as many steps as there are nodes.
LEMMA ResumesIn ==
  ASSUME NEW N, NEW root, NEW place, Rooted(N, root, place), NEW n \in DOMAIN N
  PROVE  IsLineage(resumeNodes(N, n), root, n)
<1>1. /\ IsFiniteSet(DOMAIN N) /\ n \in AnyID /\ place \in [DOMAIN N -> Int]
      /\ \A v \in DOMAIN N : N[v].parents \in Seq(AnyID)
  BY DEF Rooted
<1>2. \A v \in DOMAIN N :
        /\ N[v].parents = << >> => v = root
        /\ \A p \in ToSet(N[v].parents) : p \in DOMAIN N /\ place[p] < place[v]
  BY DEF Rooted
<1> DEFINE above(v) == IF v \in DOMAIN N /\ N[v].parents # << >>
                       THEN N[v].parents[1] ELSE NoID
           rec(u) == [k \in Nat |->
                        IF k = 0 THEN n
                        ELSE IF u[k-1] \in DOMAIN N /\ N[u[k-1]].parents # << >>
                             THEN N[u[k-1]].parents[1] ELSE NoID]
           up == CHOOSE u : u = rec(u)
           isRoot(k) == up[k] \in DOMAIN N /\ N[up[k]].parents = << >>
           C == Cardinality(DOMAIN N)
           depths == {k \in 0..C : isRoot(k)}
<1>3. \E u : u = rec(u)
  <2>1. PICK T : T = AnyID \cup {NoID}
    OBVIOUS
  <2>2. PICK F : F = [v \in T |-> above(v)]
    OBVIOUS
  <2>3. \A v \in T : above(v) \in T
    BY <1>1, <2>1
  <2>4. n \in T /\ F \in [T -> T]
    BY <1>1, <2>1, <2>2, <2>3
  <2>5. PICK u \in [Nat -> T] : u[0] = n /\ \A k \in Nat : k > 0 => u[k] = F[u[k - 1]]
    BY <2>4, IterationExists
  <2>6. ASSUME NEW k \in Nat, k # 0 PROVE u[k] = above(u[k - 1])
    <3>1. k - 1 \in Nat /\ k > 0
      BY <2>6
    <3>2. u[k - 1] \in T
      BY <3>1
    <3> QED
      BY <2>2, <2>5, <3>1, <3>2
  <2>7. u = rec(u)
    BY <2>5, <2>6
  <2> QED
    BY <2>7
<1>4. up = rec(up)
  BY <1>3
<1>5. resumeNodes(N, n) = IF depths = {} THEN << >>
                              ELSE LET d == CHOOSE k \in depths : TRUE
                                   IN [i \in 1..(d + 1) |-> up[d + 1 - i]]
  BY DEF resumeNodes
<1> HIDE DEF up
<1>6. up[0] = n /\ \A k \in Nat : up[k + 1] = above(up[k])
  <2>1. \A k \in Nat : up[k] = rec(up)[k]
    BY <1>4
  <2>2. \A k \in Nat : k + 1 \in Nat /\ k + 1 # 0 /\ (k + 1) - 1 = k
    OBVIOUS
  <2> QED
    BY <2>1, <2>2
<1>7. PICK G : G = {v \in DOMAIN N : N[v].parents # << >>}
  OBVIOUS
<1>8. PICK rank \in [DOMAIN N -> Int] : \A v \in DOMAIN N : rank[v] = 0 - place[v]
  <2>1. [v \in DOMAIN N |-> 0 - place[v]] \in [DOMAIN N -> Int]
    BY <1>1
  <2> QED
    BY <2>1
<1>9. ASSUME NEW k \in Nat, up[k] \in DOMAIN N, up[k] \in G
      PROVE  up[k + 1] \in DOMAIN N /\ rank[up[k]] < rank[up[k + 1]]
  <2>1. PICK v, p : v \in DOMAIN N /\ v = up[k] /\ p = up[k + 1] /\ N[v].parents # << >>
    BY <1>7, <1>9
  <2>2. p = N[v].parents[1]
    BY <1>6, <2>1
  <2>3. p \in ToSet(N[v].parents)
    <3>1. 1 \in DOMAIN N[v].parents
      BY <1>1, <2>1
    <3> QED
      BY <2>2, <3>1 DEF ToSet
  <2>4. p \in DOMAIN N /\ place[p] < place[v] /\ place[p] \in Int /\ place[v] \in Int
    BY <1>1, <1>2, <2>1, <2>3
  <2> QED
    BY <1>8, <2>1, <2>4
<1>10. depths # {}
  <2>1. PICK S : S = DOMAIN N
    OBVIOUS
  <2>2. /\ IsFiniteSet(S) /\ rank \in [S -> Int] /\ up[0] \in S
        /\ \A k \in Nat : up[k] \in S /\ up[k] \in G =>
                         up[k + 1] \in S /\ rank[up[k]] < rank[up[k + 1]]
    BY <1>1, <1>6, <1>9, <2>1
  <2>3. Climbs(up, S, G, rank)
    BY <2>2 DEF Climbs
  <2>4. PICK d \in 0..Cardinality(S) : up[d] \in S /\ up[d] \notin G
    BY <2>2, <2>3, WalkEnds
  <2> QED
    BY <1>7, <2>1, <2>4
<1>11. PICK d \in depths : resumeNodes(N, n) = [i \in 1..(d + 1) |-> up[d + 1 - i]]
  BY <1>5, <1>10
<1>12. d \in Nat /\ up[d] = root
  <2>1. d \in 0..C /\ isRoot(d)
    OBVIOUS
  <2> QED
    BY <1>2, <2>1
<1>13. PICK line : line = resumeNodes(N, n)
  OBVIOUS
<1>14. line = [i \in 1..(d + 1) |-> up[d + 1 - i]] /\ d + 1 \in Nat
  BY <1>11, <1>12, <1>13
<1>15. Len(line) = d + 1 /\ DOMAIN line = 1..(d + 1)
  BY <1>14
<1>16. line[1] = up[d] /\ line[d + 1] = up[0]
  BY <1>12, <1>14
<1>17. line # << >>
  BY <1>12, <1>15
<1> QED
  BY <1>6, <1>12, <1>13, <1>15, <1>16, <1>17 DEF IsLineage

\* From every node of a session the walk ends at its root.
LEMMA ResumesFrom ==
  ASSUME IInv, NEW n \in DOMAIN nodes
  PROVE  IsLineage(resumeNodes(nodes, n), events[2].id, n)
<1>1. PICK N, root : N = nodes /\ root = events[2].id
  OBVIOUS
<1>2. /\ IsFiniteSet(DOMAIN N) /\ DOMAIN N \subseteq AnyID
      /\ \A v \in DOMAIN N : N[v].parents \in Seq(AnyID)
  BY <1>1, Places DEF IInv, TypeOK, AnyID, Node
<1>3. PICK place \in [DOMAIN N -> Int] :
        \A v \in DOMAIN N :
          /\ N[v].parents = << >> => v = root
          /\ \A p \in ToSet(N[v].parents) : p \in DOMAIN N /\ place[p] < place[v]
  BY <1>1, Places
<1>4. Rooted(N, root, place)
  BY <1>2, <1>3 DEF Rooted
<1> QED
  BY <1>1, <1>4, ResumesIn

\* From every node ResumeNodes returns a lineage that begins at the only root of
\* the session and ends at the node.
THEOREM EveryNodeIsResumable ==
  ASSUME ExtraParents = {}
  PROVE  Spec => []EveryNodeResumes
<1>1. IInv => EveryNodeResumes
  BY ResumesFrom DEF EveryNodeResumes, IsLineage
<1> QED
  BY <1>1, Invariant, PTL

\* A node is listed once among the children of another.
LEMMA ChildrenAreDistinct ==
  ASSUME IInv, NEW p \in ID
  PROVE  /\ children[p] \in Seq(DOMAIN nodes) /\ IsInjective(children[p])
         /\ ToSet(children[p]) = {c \in DOMAIN nodes : p \in ToSet(nodes[c].parents)}
<1>1. PICK q : q = children[p]
  OBVIOUS
<1>2. /\ q \in Seq(ID) /\ DOMAIN q = 1..Len(q) /\ Len(q) \in Nat
      /\ ToSet(q) = {c \in DOMAIN nodes : p \in ToSet(nodes[c].parents)}
  BY <1>1 DEF IInv, TypeOK, ChildrenInvertParents
<1>3. \A i \in 1..Len(q) : q[i] \in DOMAIN nodes
  BY <1>2 DEF ToSet
<1>4. q \in Seq(DOMAIN nodes)
  BY <1>2, <1>3
<1>5. PICK place \in [DOMAIN nodes -> Int] : \A n \in DOMAIN nodes : EventsOf(n) = {place[n]}
  BY Places
<1>6. \A a, b \in DOMAIN q : a < b =>
        \A i \in EventsOf(q[a]), j \in EventsOf(q[b]) : i < j
  BY <1>1 DEF IInv, ChildrenInvertParents
<1>7. ASSUME NEW a \in DOMAIN q, NEW b \in DOMAIN q, a < b PROVE q[a] # q[b]
  <2>1. q[a] \in DOMAIN nodes /\ q[b] \in DOMAIN nodes
    BY <1>2, <1>3
  <2>2. place[q[a]] \in EventsOf(q[a]) /\ place[q[b]] \in EventsOf(q[b])
    BY <1>5, <2>1
  <2>3. place[q[a]] < place[q[b]] /\ place[q[a]] \in Int
    BY <1>6, <1>7, <2>1, <2>2
  <2> QED
    BY <2>3
<1>8. \A a, b \in DOMAIN q : a # b => a < b \/ b < a
  BY <1>2
<1>9. IsInjective(q)
  BY <1>7, <1>8 DEF IsInjective
<1> QED
  BY <1>1, <1>2, <1>4, <1>9

\* The walk of AdvanceHead stops, within as many steps as there are nodes, where
\* there is not exactly one child.
LEMMA AdvancesTo ==
  ASSUME IInv, NEW n \in DOMAIN nodes
  PROVE  AdvanceHead(n) \in DOMAIN nodes /\ Len(children[AdvanceHead(n)]) # 1
<1>1. IsFiniteSet(DOMAIN nodes) /\ DOMAIN nodes \subseteq ID /\ children \in [ID -> Seq(ID)]
  BY Places DEF IInv, TypeOK
<1>2. PICK place \in [DOMAIN nodes -> Int] :
        \A v \in DOMAIN nodes :
          \A p \in ToSet(nodes[v].parents) : p \in DOMAIN nodes /\ place[p] < place[v]
  BY Places
<1> DEFINE below(v) == IF Len(children[v]) = 1 THEN children[v][1] ELSE v
           rec(u) == [k \in Nat |->
                        IF k = 0 THEN n
                        ELSE IF Len(children[u[k-1]]) = 1 THEN children[u[k-1]][1]
                             ELSE u[k-1]]
           down == CHOOSE u : u = rec(u)
           C == Cardinality(DOMAIN nodes)
<1>3. \E u : u = rec(u)
  <2>1. PICK F : F = [v \in ID |-> below(v)]
    OBVIOUS
  <2>2. ASSUME NEW v \in ID PROVE below(v) \in ID
    <3>1. children[v] \in Seq(ID)
      BY <1>1
    <3> QED
      BY <3>1
  <2>3. n \in ID /\ F \in [ID -> ID]
    BY <1>1, <2>1, <2>2
  <2>4. PICK u \in [Nat -> ID] : u[0] = n /\ \A k \in Nat : k > 0 => u[k] = F[u[k - 1]]
    BY <2>3, IterationExists
  <2>5. ASSUME NEW k \in Nat, k # 0 PROVE u[k] = below(u[k - 1])
    <3>1. k - 1 \in Nat /\ k > 0
      BY <2>5
    <3>2. u[k - 1] \in ID
      BY <3>1
    <3> QED
      BY <2>1, <2>4, <3>1, <3>2
  <2>6. u = rec(u)
    BY <2>4, <2>5
  <2> QED
    BY <2>6
<1>4. down = rec(down)
  BY <1>3
<1>5. AdvanceHead(n) = down[C]
  BY DEF AdvanceHead
<1> HIDE DEF down
<1>6. down[0] = n /\ \A k \in Nat : down[k + 1] = below(down[k])
  <2>1. \A k \in Nat : down[k] = rec(down)[k]
    BY <1>4
  <2>2. \A k \in Nat : k + 1 \in Nat /\ k + 1 # 0 /\ (k + 1) - 1 = k
    OBVIOUS
  <2> QED
    BY <2>1, <2>2
<1>7. PICK G : G = {v \in DOMAIN nodes : Len(children[v]) = 1}
  OBVIOUS
<1>8. ASSUME NEW k \in Nat, down[k] \in DOMAIN nodes, down[k] \in G
      PROVE  down[k + 1] \in DOMAIN nodes /\ place[down[k]] < place[down[k + 1]]
  <2>1. PICK v, c : v \in DOMAIN nodes /\ v = down[k] /\ c = down[k + 1] /\ Len(children[v]) = 1
    BY <1>7, <1>8
  <2>2. PICK q : q = children[v]
    OBVIOUS
  <2>3. c = q[1] /\ 1 \in DOMAIN q
    <3>1. down[k + 1] = below(down[k])
      BY <1>6
    <3>2. q \in Seq(ID) /\ Len(q) = 1
      BY <1>1, <2>1, <2>2
    <3> QED
      BY <2>1, <2>2, <3>1, <3>2
  <2>4. c \in ToSet(q)
    BY <2>3 DEF ToSet
  <2>5. c \in DOMAIN nodes /\ v \in ToSet(nodes[c].parents)
    BY <1>1, <2>1, <2>2, <2>4, ChildrenAreDistinct
  <2>6. place[v] < place[c]
    BY <1>2, <2>1, <2>5
  <2> QED
    BY <2>1, <2>5, <2>6
<1>9. PICK d \in 0..C : down[d] \in DOMAIN nodes /\ Len(children[down[d]]) # 1
  <2>1. PICK S : S = DOMAIN nodes
    OBVIOUS
  <2>2. /\ IsFiniteSet(S) /\ place \in [S -> Int] /\ down[0] \in S
        /\ \A k \in Nat : down[k] \in S /\ down[k] \in G =>
                         down[k + 1] \in S /\ place[down[k]] < place[down[k + 1]]
    BY <1>1, <1>6, <1>8, <2>1
  <2>3. Climbs(down, S, G, place)
    BY <2>2 DEF Climbs
  <2>4. PICK d \in 0..Cardinality(S) : down[d] \in S /\ down[d] \notin G
    BY <2>2, <2>3, WalkEnds
  <2> QED
    BY <1>7, <2>1, <2>4
<1>10. C \in Nat /\ d \in Nat /\ d <= C
  BY <1>1, FS_CardinalityType
<1> DEFINE K == {k \in Nat : k >= d => down[k] = down[d]}
<1>11. 0 \in K
  BY <1>10
<1>12. ASSUME NEW k \in K PROVE k + 1 \in K
  <2>1. CASE k >= d
    BY <1>6, <1>9, <2>1
  <2>2. CASE ~(k >= d)
    BY <1>10, <2>2
  <2> QED
    BY <2>1, <2>2
<1>13. K = Nat
  <2>1. K \in SUBSET Nat
    OBVIOUS
  <2> HIDE DEF K
  <2> QED
    BY <1>11, <1>12, <2>1, SetInduction
<1>14. down[C] = down[d]
  <2>1. C \in K
    BY <1>10, <1>13
  <2> QED
    BY <1>10, <2>1
<1> QED
  BY <1>5, <1>9, <1>14

\* AdvanceHead ends at a node without children or at a fork, and only a node
\* without children can need a response.
THEOREM AdvanceHeadEnds ==
  ASSUME ExtraParents = {}
  PROVE  Spec => []AdvanceHeadEndsAtLeafOrFork
<1>1. ASSUME IInv PROVE AdvanceHeadEndsAtLeafOrFork
  <2> SUFFICES ASSUME NEW n \in DOMAIN nodes,
                      NEW leaf, leaf = AdvanceHead(n),
                      NEW kids, kids = {c \in DOMAIN nodes : leaf \in ToSet(nodes[c].parents)}
               PROVE  Cardinality(kids) # 1 /\ (NeedsResponse(leaf) => kids = {})
    BY DEF AdvanceHeadEndsAtLeafOrFork
  <2>1. PICK q : q = children[leaf]
    OBVIOUS
  <2>2. leaf \in ID /\ Len(q) # 1
    BY <1>1, <2>1, AdvancesTo DEF IInv, TypeOK
  <2>3. q \in Seq(DOMAIN nodes) /\ IsInjective(q) /\ ToSet(q) = kids
    BY <1>1, <2>1, <2>2, ChildrenAreDistinct
  <2>4. Cardinality(kids) = Len(q)
    <3>1. IsFiniteSet(DOMAIN nodes)
      BY <1>1, Places
    <3>2. Cardinality(ToSet(q)) = Len(q)
      BY <2>3, <3>1, InjectiveLength
    <3> QED
      BY <2>3, <3>2
  <2>5. q = << >> => kids = {}
    BY <2>3, ToSetMember
  <2> QED
    BY <2>1, <2>2, <2>4, <2>5 DEF NeedsResponse
<1> QED
  BY <1>1, Invariant, PTL

-----------------------------------------------------------------------------
(* What a step may not do *)

\* Once End returned, no call changes a field.
THEOREM EndIsFinal == Spec => ClosedIsFinal
<1>1. TypeOK /\ [Next]_vars => [~closed]_vars
  BY StepCases DEF Start, AppendStep, End
<1> QED
  BY <1>1, TypeCorrect, PTL DEF Spec, ClosedIsFinal

\* No call changes or drops a node, an event or a child.
THEOREM HistoryIsKept == Spec => HistoryIsImmutable
<1> DEFINE Kept == /\ \A n \in DOMAIN nodes : n \in DOMAIN nodes' /\ nodes'[n] = nodes[n]
                   /\ IsPrefix(events, events')
                   /\ \A p \in ID : IsPrefix(children[p], children'[p])
<1>1. ASSUME TypeOK, [Next]_vars PROVE [Kept]_vars
  <2>1. /\ events \in Seq(Event) /\ IsPrefix(events, events)
        /\ \A p \in ID : children[p] \in Seq(ID) /\ IsPrefix(children[p], children[p])
    BY <1>1 DEF TypeOK, IsPrefix
  <2>2. CASE Start
    <3>1. IsPrefix(events, events')
      BY <2>1, <2>2, EventKinds, AppendIsPrefix DEF Start
    <3> QED
      BY <2>1, <2>2, <3>1 DEF Start
  <2>3. ASSUME NEW id \in ID, NEW parents, NEW node \in Node,
               AppendStep(id, parents, node)
        PROVE  Kept
    <3>1. IsPrefix(events, events')
      BY <2>1, <2>3, EventKinds, AppendIsPrefix DEF AppendStep
    <3>2. ASSUME NEW p \in ID PROVE IsPrefix(children[p], children'[p])
      <4>1. children'[p] = children[p] \/ children'[p] = Append(children[p], id)
        BY <2>3 DEF AppendStep, linkChildren
      <4> QED
        BY <2>1, <4>1, AppendIsPrefix
    <3>3. \A n \in DOMAIN nodes : n \in DOMAIN nodes' /\ nodes'[n] = nodes[n]
      BY <2>3 DEF AppendStep
    <3> QED
      BY <3>1, <3>2, <3>3
  <2>4. ASSUME NEW reason \in Reason, End(reason)
        PROVE  Kept
    <3>1. IsPrefix(events, events')
      BY <1>1, <2>1, <2>4, EventKinds, AppendIsPrefix DEF End, TypeOK
    <3> QED
      BY <2>1, <2>4, <3>1 DEF End
  <2> HIDE DEF Kept
  <2> QED
    BY <1>1, <2>2, <2>3, <2>4, StepCases
<1> QED
  BY <1>1, TypeCorrect, PTL DEF Spec, HistoryIsImmutable

-----------------------------------------------------------------------------
(* Refinement *)

\* An append is an Emit of the protocol.
LEMMA AppendEmits ==
  ASSUME ExtraParents = {}, IInv, NEW id \in ID, NEW parents, NEW node \in Node,
         AppendStep(id, parents, node)
  PROVE  Log!Emit
<1> USE DEF IInv
<1>1. /\ Len(events) \in Nat /\ DOMAIN events = 1..Len(events)
      /\ events'[Len(events) + 1] = Log!NodeEvent(id, node)
      /\ events' = Append(events, Log!NodeEvent(id, node))
  BY EventKinds, AppendedEvent DEF AppendStep
<1>2. Log!Added = Log!NodeEvent(id, node)
  BY <1>1 DEF Log!Added
<1>3. Log!EmittedIDs = DOMAIN nodes
  <2>1. \A i \in NodeAt : events[i].id \in DOMAIN nodes
    BY DEF LogMatchesFields
  <2>2. \A n \in DOMAIN nodes : \E i \in NodeAt : events[i].id = n
    BY DEF LogMatchesFields, EventsOf
  <2> QED
    BY <2>1, <2>2 DEF Log!EmittedIDs, Log!NodeIndices, NodeAt
<1>4. Log!Open
  <2>1. events # << >> /\ Len(events) \in DOMAIN events
    BY <1>1 DEF LogMatchesFields, AppendStep, TypeOK
  <2> QED
    BY <2>1 DEF LogMatchesFields, AppendStep, Log!Open
<1>5. /\ id \notin DOMAIN nodes
      /\ \A k \in DOMAIN node.parents : node.parents[k] \in DOMAIN nodes
      /\ node.parents = << >> <=> DOMAIN nodes = {}
  BY DEF AppendStep
<1>6. /\ Log!NodeEvent(id, node).kind = "node.appended"
      /\ Log!NodeEvent(id, node).id = id /\ Log!NodeEvent(id, node).node = node
  BY DEF Log!NodeEvent
<1> QED
  BY <1>1, <1>2, <1>3, <1>4, <1>5, <1>6 DEF Log!Emit

\* End is an End of the protocol: headID is the node at the tip of the log.
LEMMA EndEnds ==
  ASSUME IInv, NEW reason \in Reason, End(reason)
  PROVE  Log!End
<1> USE DEF IInv
<1>1. Len(events) \in Nat /\ DOMAIN events = 1..Len(events)
  BY DEF TypeOK
<1>2. events # << >> /\ Len(events) \in DOMAIN events
  BY <1>1 DEF LogMatchesFields, End, TypeOK
<1>3. events[Len(events)].kind # "session.ended"
  BY <1>2 DEF LogMatchesFields, End
<1>4. Log!Tip = headID
  <2>1. CASE events[Len(events)].kind = "node.appended"
    <3>1. Len(events) \in NodeAt /\ \A j \in NodeAt : j <= Len(events)
      BY <1>1, <1>2, <2>1 DEF NodeAt
    <3> QED
      BY <2>1, <3>1 DEF LogMatchesFields, Log!Tip
  <2>2. CASE events[Len(events)].kind # "node.appended"
    <3>1. events[Len(events)].kind = "session.start"
      BY <1>2, <1>3, <2>2 DEF TypeOK, Event
    <3>2. Len(events) = 1
      BY <1>2, <3>1 DEF LogMatchesFields
    <3>3. NodeAt = {}
      BY <1>1, <2>2, <3>2 DEF NodeAt
    <3> QED
      BY <2>2, <3>3 DEF LogMatchesFields, Log!Tip
  <2> QED
    BY <2>1, <2>2
<1> QED
  BY <1>2, <1>3, <1>4 DEF End, Log!End, Log!Open

\* The graph of pkg/sgp implements the session protocol: its log starts once,
\* emits only new nodes under emitted parents and ends at its tip.
THEOREM Refinement ==
  ASSUME ExtraParents = {}
  PROVE  Spec => ImplementsSessionLog
<1>1. Init => Log!Init
  BY DEF Init, Log!Init
<1>2. ASSUME IInv, [Next]_vars PROVE [Log!Next]_events
  <2>1. CASE Start
    <3>1. events = << >>
      BY <1>2, <2>1 DEF Start, IInv, LogMatchesFields
    <3>2. events' = << Log!StartEvent >>
      BY <2>1, <3>1 DEF Start
    <3> QED
      BY <3>1, <3>2 DEF Log!Next, Log!Start
  <2>2. ASSUME NEW id \in ID, NEW parents, NEW node \in Node,
               AppendStep(id, parents, node)
        PROVE  Log!Next
    BY <1>2, <2>2, AppendEmits DEF Log!Next
  <2>3. ASSUME NEW reason \in Reason, End(reason)
        PROVE  Log!Next
    BY <1>2, <2>3, EndEnds DEF Log!Next
  <2>4. CASE UNCHANGED vars
    BY <2>4 DEF vars
  <2> QED
    BY <1>2, <2>1, <2>2, <2>3, <2>4, StepCases DEF IInv
<1> QED
  BY <1>1, <1>2, Invariant, PTL DEF Spec, ImplementsSessionLog, Log!Spec


-----------------------------------------------------------------------------
(* Folds *)

\* The newest position of a set.
LEMMA NewestOf ==
  ASSUME NEW n \in Nat, NEW s \in SUBSET (1..(n + 1)), n + 1 \in s
  PROVE  Max(s) = n + 1
<1>1. \A y \in s : n + 1 >= y /\ y \in Nat
  OBVIOUS
<1>2. Max(s) \in s /\ \A y \in s : Max(s) >= y
  BY <1>1 DEF Max
<1>3. Max(s) >= n + 1 /\ n + 1 >= Max(s) /\ Max(s) \in Nat
  BY <1>1, <1>2
<1> QED
  BY <1>3

\* The newest position of a set that has one.
LEMMA NewestIn ==
  ASSUME NEW n \in Nat, NEW s \in SUBSET (1..n), s # {}
  PROVE  Max(s) \in s
<1> DEFINE I == {k \in Nat : \A y \in s : y <= k}
<1>1. I \in SUBSET Nat /\ n \in I
  OBVIOUS
<1>2. PICK k \in I : \A j \in I : k <= j
  BY <1>1, LeastNumber
<1>3. CASE k \in s
  BY <1>2, <1>3 DEF Max
<1>4. CASE k \notin s
  <2>1. PICK y \in s : TRUE
    OBVIOUS
  <2>2. y \in Nat /\ y >= 1 /\ y <= k /\ k \in Nat
    OBVIOUS
  <2>3. k - 1 \in Nat /\ ~(k <= k - 1)
    BY <2>2
  <2>4. ASSUME NEW z \in s PROVE z <= k - 1
    <3>1. z \in Nat /\ z <= k /\ z # k
      BY <1>4
    <3> QED
      BY <3>1, <2>2
  <2>5. k - 1 \in I
    BY <2>3, <2>4
  <2> QED
    BY <1>2, <2>3, <2>5
<1> QED
  BY <1>3, <1>4

\* The graphs that a replay goes through.
IsReplay(log, L, T) ==
  /\ DOMAIN T = 0..L /\ T[0] = emptyGraph
  /\ \A i \in 1..L : T[i] = applyEventToGraph(T[i - 1], log[i])

\* A replay applies the events one by one.
LEMMA ReplaySteps ==
  ASSUME NEW L \in Nat, NEW log, DOMAIN log = 1..L
  PROVE  \E T : IsReplay(log, L, T) /\ FoldLeft(applyEventToGraph, emptyGraph, log) = T[L]
<1> DEFINE row(f, s) == IF s = {} THEN emptyGraph
                        ELSE applyEventToGraph(f[s \ {Max(s)}], log[Max(s)])
           iter == CHOOSE f : f = [s \in SUBSET (1..L) |-> row(f, s)]
           has(n) == \E f : f = [s \in SUBSET (1..n) |-> row(f, s)]
           N == {n \in Nat : has(n)}
<1>1. FoldLeft(applyEventToGraph, emptyGraph, log) = iter[1..L]
  BY DEF FoldLeft, MapThenFoldSet
<1>2. has(0)
  <2>1. PICK f : f = [s \in SUBSET (1..0) |-> emptyGraph]
    OBVIOUS
  <2>2. \A s \in SUBSET (1..0) : s = {}
    OBVIOUS
  <2>3. f = [s \in SUBSET (1..0) |-> row(f, s)]
    BY <2>1, <2>2
  <2> QED
    BY <2>3
<1>3. ASSUME NEW n \in Nat, has(n) PROVE has(n + 1)
  <2>1. PICK f : f = [s \in SUBSET (1..n) |-> row(f, s)]
    BY <1>3
  <2>2. PICK g : g = [s \in SUBSET (1..(n + 1)) |->
                        IF n + 1 \in s THEN applyEventToGraph(f[s \ {n + 1}], log[n + 1]) ELSE f[s]]
    OBVIOUS
  <2> HIDE DEF row
  <2>3. ASSUME NEW s \in SUBSET (1..(n + 1)), n + 1 \in s
        PROVE  g[s] = row(g, s)
    <3>1. Max(s) = n + 1
      BY <2>3, NewestOf
    <3>2. s \ {n + 1} \in SUBSET (1..n) /\ n + 1 \notin s \ {n + 1} /\ s # {}
      BY <2>3
    <3>3. s \ {n + 1} \in SUBSET (1..(n + 1))
      OBVIOUS
    <3>4. g[s \ {n + 1}] = f[s \ {n + 1}]
      BY <2>2, <3>2, <3>3
    <3>5. g[s] = applyEventToGraph(f[s \ {n + 1}], log[n + 1])
      BY <2>2, <2>3
    <3> QED
      BY <3>1, <3>2, <3>4, <3>5 DEF row
  <2>4. ASSUME NEW s \in SUBSET (1..(n + 1)), n + 1 \notin s
        PROVE  g[s] = row(g, s)
    <3>1. s \in SUBSET (1..n)
      BY <2>4
    <3>2. g[s] = f[s] /\ f[s] = row(f, s)
      BY <2>1, <2>2, <2>4, <3>1
    <3>3. CASE s = {}
      BY <3>2, <3>3 DEF row
    <3>4. CASE s # {}
      <4>1. Max(s) \in s
        BY <3>1, <3>4, NewestIn
      <4>2. s \ {Max(s)} \in SUBSET (1..(n + 1)) /\ n + 1 \notin s \ {Max(s)}
        BY <2>4
      <4>3. g[s \ {Max(s)}] = f[s \ {Max(s)}]
        BY <2>2, <4>2
      <4> QED
        BY <3>2, <3>4, <4>3 DEF row
    <3> QED
      BY <3>3, <3>4
  <2>5. \A s \in SUBSET (1..(n + 1)) : g[s] = row(g, s)
    BY <2>3, <2>4
  <2>6. DOMAIN g = SUBSET (1..(n + 1)) /\ g = [s \in DOMAIN g |-> g[s]]
    BY <2>2
  <2>7. g = [s \in SUBSET (1..(n + 1)) |-> row(g, s)]
    BY <2>5, <2>6
  <2> QED
    BY <2>7
<1> HIDE DEF has
<1>4. N = Nat
  <2>1. N \in SUBSET Nat /\ 0 \in N
    BY <1>2
  <2>2. \A n \in N : n + 1 \in N
    BY <1>3
  <2> QED
    BY <2>1, <2>2, SetInduction
<1>5. has(L)
  BY <1>4
<1>6. iter = [s \in SUBSET (1..L) |-> row(iter, s)]
  BY <1>5 DEF has
<1> HIDE DEF iter
<1>7. PICK T : T = [i \in 0..L |-> iter[1..i]]
  OBVIOUS
<1>8. DOMAIN T = 0..L /\ \A i \in 0..L : T[i] = iter[1..i]
  BY <1>7
<1> HIDE DEF row
<1>9. \A s \in SUBSET (1..L) : iter[s] = row(iter, s)
  BY <1>6
<1>10. T[0] = emptyGraph
  <2>1. 1..0 = {} /\ {} \in SUBSET (1..L) /\ 0 \in 0..L
    OBVIOUS
  <2> QED
    BY <1>8, <1>9, <2>1 DEF row
<1>11. ASSUME NEW i \in 1..L PROVE T[i] = applyEventToGraph(T[i - 1], log[i])
  <2>1. i - 1 \in Nat /\ (i - 1) + 1 = i /\ i \in 0..L /\ i - 1 \in 0..L
    OBVIOUS
  <2>2. 1..i \in SUBSET (1..L) /\ i \in 1..i
    OBVIOUS
  <2>3. Max(1..i) = i
    <3>1. 1..i \in SUBSET (1..((i - 1) + 1)) /\ (i - 1) + 1 \in 1..i
      BY <2>1, <2>2
    <3>2. Max(1..i) = (i - 1) + 1
      BY <2>1, <3>1, NewestOf
    <3> QED
      BY <2>1, <3>2
  <2>4. (1..i) \ {i} = 1..(i - 1) /\ 1..i # {}
    OBVIOUS
  <2>5. iter[1..i] = applyEventToGraph(iter[1..(i - 1)], log[i])
    BY <1>9, <2>2, <2>3, <2>4 DEF row
  <2> QED
    BY <1>8, <2>1, <2>5
<1>12. T[L] = iter[1..L]
  <2>1. L \in 0..L
    OBVIOUS
  <2> QED
    BY <1>8, <2>1
<1> QED
  BY <1>1, <1>8, <1>10, <1>11, <1>12 DEF IsReplay

\* A replay of a log goes on where the replay of its beginning ended.
LEMMA ReplaysAgree ==
  ASSUME NEW L \in Nat, NEW log, NEW T, IsReplay(log, L, T),
         NEW M \in Nat, L <= M, NEW longer, \A i \in 1..L : longer[i] = log[i],
         NEW U, IsReplay(longer, M, U)
  PROVE  \A i \in 0..L : U[i] = T[i]
<1> DEFINE N == {n \in Nat : n <= L => U[n] = T[n]}
<1>1. T[0] = emptyGraph /\ \A i \in 1..L : T[i] = applyEventToGraph(T[i - 1], log[i])
  BY DEF IsReplay
<1>2. U[0] = emptyGraph /\ \A i \in 1..M : U[i] = applyEventToGraph(U[i - 1], longer[i])
  BY DEF IsReplay
<1>3. N \in SUBSET Nat /\ 0 \in N
  BY <1>1, <1>2
<1>4. ASSUME NEW n \in N PROVE n + 1 \in N
  <2>1. SUFFICES ASSUME n + 1 <= L PROVE U[n + 1] = T[n + 1]
    OBVIOUS
  <2>2. n \in Nat /\ n + 1 \in 1..L /\ n + 1 \in 1..M /\ (n + 1) - 1 = n
    BY <2>1
  <2>3. U[n] = T[n] /\ longer[n + 1] = log[n + 1]
    BY <2>1, <2>2
  <2> QED
    BY <1>1, <1>2, <2>2, <2>3
<1>5. N = Nat
  BY <1>3, <1>4, SetInduction
<1> QED
  BY <1>5

\* What a replay of the events in memory gives.
replayed(log) == FoldLeft(applyEventToGraph, emptyGraph, persistedLog(log))

\* An event is replayed after those before it.
LEMMA ReplayAppend ==
  ASSUME NEW log \in Seq(Event), NEW e \in Event
  PROVE  replayed(Append(log, e)) = applyEventToGraph(replayed(log), persisted(e))
<1>1. PICK L : L = Len(log) /\ L \in Nat
  OBVIOUS
<1>2. PICK longer : longer = Append(log, e)
  OBVIOUS
<1>3. /\ DOMAIN log = 1..L /\ DOMAIN longer = 1..(L + 1)
      /\ \A i \in 1..L : longer[i] = log[i]
      /\ longer[L + 1] = e
  BY <1>1, <1>2, AppendPositions
<1>4. PICK w : w = persistedLog(log)
  OBVIOUS
<1>5. PICK x : x = persistedLog(longer)
  OBVIOUS
<1>6. DOMAIN w = 1..L /\ \A i \in 1..L : w[i] = persisted(log[i])
  BY <1>3, <1>4, Zenon DEF persistedLog
<1>7. DOMAIN x = 1..(L + 1) /\ \A i \in 1..(L + 1) : x[i] = persisted(longer[i])
  BY <1>3, <1>5, Zenon DEF persistedLog
<1>8. L + 1 \in Nat /\ L <= L + 1 /\ L + 1 \in 1..(L + 1) /\ (L + 1) - 1 = L /\ L \in 0..L
  BY <1>1
<1>9. PICK T : IsReplay(w, L, T) /\ FoldLeft(applyEventToGraph, emptyGraph, w) = T[L]
  BY <1>1, <1>6, ReplaySteps
<1>10. PICK U : IsReplay(x, L + 1, U) /\ FoldLeft(applyEventToGraph, emptyGraph, x) = U[L + 1]
  BY <1>7, <1>8, ReplaySteps
<1>11. \A i \in 1..L : i \in 1..(L + 1)
  BY <1>1
<1>12. \A i \in 1..L : x[i] = w[i]
  BY <1>3, <1>6, <1>7, <1>11
<1>13. U[L] = T[L]
  BY <1>1, <1>8, <1>9, <1>10, <1>12, ReplaysAgree
<1>14. U[L + 1] = applyEventToGraph(U[L], x[L + 1])
  BY <1>8, <1>10 DEF IsReplay
<1>15. x[L + 1] = persisted(e)
  BY <1>3, <1>7, <1>8
<1>16. replayed(longer) = U[L + 1] /\ replayed(log) = T[L]
  BY <1>4, <1>5, <1>9, <1>10 DEF replayed
<1> QED
  BY <1>2, <1>13, <1>14, <1>15, <1>16

\* No event, no graph.
LEMMA ReplayNothing == replayed(<< >>) = emptyGraph
<1>1. PICK w : w = persistedLog(<< >>)
  OBVIOUS
<1>2. DOMAIN w = 1..0
  BY <1>1 DEF persistedLog
<1>3. PICK T : IsReplay(w, 0, T) /\ FoldLeft(applyEventToGraph, emptyGraph, w) = T[0]
  BY <1>2, ReplaySteps
<1> QED
  BY <1>1, <1>3 DEF replayed, IsReplay

-----------------------------------------------------------------------------
(* Replaying the log of a graph *)

\* The kinds of events are recovered from their fields.
LEMMA EventKindsRecovered ==
  ASSUME NEW id, NEW n, NEW r \in Reason, NEW t
  PROVE  /\ ClassifyEvent(persisted(Log!StartEvent)) = "session.start"
         /\ ClassifyEvent(persisted(Log!NodeEvent(id, n))) = "node.appended"
         /\ persisted(Log!NodeEvent(id, n)).node = <<id, n>>
         /\ ClassifyEvent(persisted(Log!EndedEvent(r, t))) = "session.ended"
         /\ persisted(Log!EndedEvent(r, t)).terminal = t
         /\ persisted(Log!EndedEvent(r, t)).reason = r
<1>1. persisted(Log!StartEvent) = [node |-> << >>, reason |-> "none", terminal |-> NoID]
  BY DEF persisted, Log!StartEvent
<1>2. persisted(Log!NodeEvent(id, n)) = [node |-> <<id, n>>, reason |-> "none", terminal |-> NoID]
  BY DEF persisted, Log!NodeEvent
<1>3. persisted(Log!EndedEvent(r, t)) = [node |-> << >>, reason |-> r, terminal |-> t]
  BY DEF persisted, Log!EndedEvent
<1>4. r # "none" /\ <<id, n>> # << >>
  BY DEF Reason
<1> QED
  BY <1>1, <1>2, <1>3, <1>4 DEF ClassifyEvent

\* The child lists with one node more, linked once under each parent.
OnceMore(ch, id, parents, more) ==
  \A p \in ID : more[p] = IF p \in ToSet(parents) THEN Append(ch[p], id) ELSE ch[p]

\* Without repeated parents a replay links a node as the append did.
LEMMA LinksOnce ==
  ASSUME NEW ch \in [ID -> Seq(ID)], NEW id \in ID, NEW S, NEW parents \in Seq(S), IsInjective(parents)
  PROVE  OnceMore(ch, id, parents, linkNodeParents(ch, id, parents))
<1> SUFFICES ASSUME NEW p \in ID
             PROVE  linkNodeParents(ch, id, parents)[p] =
                      IF p \in ToSet(parents) THEN Append(ch[p], id) ELSE ch[p]
  BY DEF OnceMore
<1>1. PICK J : J = {j \in DOMAIN parents : parents[j] = p}
  OBVIOUS
<1>2. PICK more : more = [k \in 1..Cardinality(J) |-> id]
  OBVIOUS
<1>3. linkNodeParents(ch, id, parents)[p] = ch[p] \o more
  BY <1>1, <1>2 DEF linkNodeParents
<1>4. CASE p \in ToSet(parents)
  <2>1. PICK j \in DOMAIN parents : parents[j] = p
    BY <1>4 DEF ToSet
  <2>2. \A i \in J : i = j
    BY <1>1, <2>1 DEF IsInjective
  <2>3. J = {j}
    BY <1>1, <2>1, <2>2
  <2>4. Cardinality(J) = 1
    BY <2>3, FS_Singleton
  <2>5. more = <<id>>
    BY <1>2, <2>4
  <2>6. ch[p] \o <<id>> = Append(ch[p], id)
    <3>1. ch[p] \in Seq(ID)
      OBVIOUS
    <3> QED
      BY <3>1
  <2> QED
    BY <1>3, <1>4, <2>5, <2>6
<1>5. CASE p \notin ToSet(parents)
  <2>1. J = {}
    BY <1>1, <1>5 DEF ToSet
  <2>2. Cardinality(J) = 0
    BY <2>1, FS_EmptySet
  <2>3. more = << >>
    BY <1>2, <2>2
  <2>4. ch[p] \in Seq(ID)
    OBVIOUS
  <2>5. ch[p] \o << >> = ch[p]
    BY <2>4, ConcatEmpty
  <2> QED
    BY <1>3, <1>5, <2>3, <2>5
<1> QED
  BY <1>4, <1>5

\* The same for the whole map.
LEMMA LinksAsAppended ==
  ASSUME TypeOK, NEW id \in ID, NEW S, NEW parents \in Seq(S), IsInjective(parents)
  PROVE  linkNodeParents(children, id, parents) = linkChildren(id, parents)
<1>1. children \in [ID -> Seq(ID)]
  BY DEF TypeOK
<1>2. \A p \in ID : linkNodeParents(children, id, parents)[p] = linkChildren(id, parents)[p]
  <2>1. SUFFICES ASSUME NEW p \in ID
                 PROVE  linkNodeParents(children, id, parents)[p] = linkChildren(id, parents)[p]
    OBVIOUS
  <2>2. PICK ch : ch = children /\ ch \in [ID -> Seq(ID)]
    BY <1>1
  <2>3. linkNodeParents(ch, id, parents)[p] =
          IF p \in ToSet(parents) THEN Append(ch[p], id) ELSE ch[p]
    BY <2>2, LinksOnce DEF OnceMore
  <2> QED
    BY <2>2, <2>3 DEF linkChildren
<1>3. PICK a : a = linkNodeParents(children, id, parents)
  OBVIOUS
<1>4. PICK b : b = linkChildren(id, parents)
  OBVIOUS
<1>5. DOMAIN a = ID /\ a = [p \in DOMAIN a |-> a[p]]
  BY <1>3 DEF linkNodeParents
<1>6. DOMAIN b = ID /\ b = [p \in DOMAIN b |-> b[p]]
  BY <1>4 DEF linkChildren
<1>7. \A p \in ID : a[p] = b[p]
  BY <1>2, <1>3, <1>4
<1> QED
  BY <1>3, <1>4, <1>5, <1>6, <1>7

\* A graph by its fields.
graphOf(s, c, n, ch, h, t, e) ==
  [started |-> s, closed |-> c, nodes |-> n, children |-> ch, headID |-> h,
   terminalNodeID |-> t, endReason |-> e, err |-> FALSE]

startedGraph(c, n, ch, h, t, e) == graphOf(TRUE, c, n, ch, h, t, e)

endedGraph(s, n, ch, h, t, e) == graphOf(s, TRUE, n, ch, h, t, e)

graphFields == {"started", "closed", "nodes", "children", "headID", "terminalNodeID",
                "endReason", "err"}

\* The nodes of a graph with one more.
withNode(n, id, node) == [k \in DOMAIN n \cup {id} |-> IF k = id THEN node ELSE n[k]]

\* What the replay of one event does.
LEMMA ReplayOneStart ==
  ASSUME NEW c, NEW n, NEW ch, NEW h, NEW t, NEW e
  PROVE  applyEventToGraph(graphOf(FALSE, c, n, ch, h, t, e), persisted(Log!StartEvent)) =
           graphOf(TRUE, c, n, ch, h, t, e)
<1>1. PICK g : g = graphOf(FALSE, c, n, ch, h, t, e)
  OBVIOUS
<1>2. PICK w : w = persisted(Log!StartEvent)
  OBVIOUS
<1>3. ClassifyEvent(w) = "session.start"
  BY <1>2, EventKindsRecovered DEF Reason
<1>4. ~g.started /\ ~g.err
  BY <1>1 DEF graphOf
<1>5. applyEventToGraph(g, w) = [g EXCEPT !.started = TRUE]
  BY <1>3, <1>4 DEF applyEventToGraph, applySessionStartEvent
<1>6. [g EXCEPT !.started = TRUE] = graphOf(TRUE, c, n, ch, h, t, e)
  <2>1. PICK D : D = graphFields
    OBVIOUS
  <2>2. PICK a : a = [g EXCEPT !.started = TRUE]
    OBVIOUS
  <2>3. PICK b : b = graphOf(TRUE, c, n, ch, h, t, e)
    OBVIOUS
  <2>4. g = [d \in D |-> g[d]] /\ b = [d \in D |-> b[d]]
    BY <1>1, <2>1, <2>3 DEF graphOf, graphFields
  <2>5. a = [d \in D |-> a[d]] /\ \A d \in D : a[d] = IF d = "started" THEN TRUE ELSE g[d]
    BY <2>2, <2>4
  <2>6. \A d \in D : a[d] = b[d]
    BY <1>1, <2>1, <2>3, <2>5 DEF graphOf, graphFields
  <2> QED
    BY <2>2, <2>3, <2>4, <2>5, <2>6
<1> QED
  BY <1>1, <1>2, <1>5, <1>6

\* What the replay of a node does: it is refused unless its parents are there.
LEMMA ReplayOneNode ==
  ASSUME NEW c, NEW n, NEW ch, NEW h, NEW t, NEW e, NEW id, NEW m,
         NEW w, w = persisted(Log!NodeEvent(id, m))
  PROVE  /\ ToSet(m.parents) \subseteq DOMAIN n =>
              applyEventToGraph(startedGraph(c, n, ch, h, t, e), w) =
                startedGraph(c, withNode(n, id, m), linkNodeParents(ch, id, m.parents), id, t, e)
         /\ ~ToSet(m.parents) \subseteq DOMAIN n =>
              applyEventToGraph(startedGraph(c, n, ch, h, t, e), w) = failed
<1>1. PICK g : g = graphOf(TRUE, c, n, ch, h, t, e)
  OBVIOUS
<1>3. ClassifyEvent(w) = "node.appended" /\ w.node = <<id, m>>
  BY EventKindsRecovered DEF Reason
<1>4. w.node[1] = id /\ w.node[2] = m
  BY <1>3
<1>5. g.started /\ ~g.err /\ g.nodes = n /\ g.children = ch
  BY <1>1 DEF graphOf
<1>6. applyEventToGraph(g, w) = applyNodeEvent(g, id, m)
  BY <1>3, <1>4, <1>5 DEF applyEventToGraph
<1>7. PICK x : x = withNode(n, id, m)
  OBVIOUS
<1>8. PICK y : y = linkNodeParents(ch, id, m.parents)
  OBVIOUS
<1>9. applyNodeEvent(g, id, m) = IF ~ToSet(m.parents) \subseteq DOMAIN n THEN failed
                                 ELSE [g EXCEPT !.nodes = x, !.children = y, !.headID = id]
  BY <1>5, <1>7, <1>8 DEF applyNodeEvent, withNode
<1>10. [g EXCEPT !.nodes = x, !.children = y, !.headID = id] = graphOf(TRUE, c, x, y, id, t, e)
  <2>1. PICK D : D = graphFields
    OBVIOUS
  <2>2. PICK a : a = [g EXCEPT !.nodes = x, !.children = y, !.headID = id]
    OBVIOUS
  <2>3. PICK b : b = graphOf(TRUE, c, x, y, id, t, e)
    OBVIOUS
  <2>4. g = [d \in D |-> g[d]] /\ b = [d \in D |-> b[d]]
    BY <1>1, <2>1, <2>3 DEF graphOf, graphFields
  <2>5. a = [d \in D |-> a[d]] /\ \A d \in D : a[d] = IF d = "nodes" THEN x ELSE IF d = "children" THEN y
          ELSE IF d = "headID" THEN id ELSE g[d]
    BY <2>2, <2>4
  <2>6. \A d \in D : a[d] = b[d]
    BY <1>1, <2>1, <2>3, <2>5 DEF graphOf, graphFields
  <2> QED
    BY <2>2, <2>3, <2>4, <2>5, <2>6
<1> QED
  BY <1>1, <1>6, <1>7, <1>8, <1>9, <1>10 DEF startedGraph

\* What the replay of an end does.
LEMMA ReplayOneEnd ==
  ASSUME NEW s, NEW c, NEW n, NEW ch, NEW h, NEW t, NEW e, NEW r \in Reason, NEW last,
         NEW w, w = persisted(Log!EndedEvent(r, last))
  PROVE  applyEventToGraph(graphOf(s, c, n, ch, h, t, e), w) = endedGraph(s, n, ch, h, last, r)
<1>1. PICK g : g = graphOf(s, c, n, ch, h, t, e)
  OBVIOUS
<1>3. ClassifyEvent(w) = "session.ended" /\ w.terminal = last /\ w.reason = r
  BY EventKindsRecovered
<1>4. ~g.err
  BY <1>1 DEF graphOf
<1>5. applyEventToGraph(g, w) = [g EXCEPT !.closed = TRUE, !.terminalNodeID = last, !.endReason = r]
  BY <1>3, <1>4 DEF applyEventToGraph
<1>6. [g EXCEPT !.closed = TRUE, !.terminalNodeID = last, !.endReason = r] = graphOf(s, TRUE, n, ch, h, last, r)
  <2>1. PICK D : D = graphFields
    OBVIOUS
  <2>2. PICK a : a = [g EXCEPT !.closed = TRUE, !.terminalNodeID = last, !.endReason = r]
    OBVIOUS
  <2>3. PICK b : b = graphOf(s, TRUE, n, ch, h, last, r)
    OBVIOUS
  <2>4. g = [d \in D |-> g[d]] /\ b = [d \in D |-> b[d]]
    BY <1>1, <2>1, <2>3 DEF graphOf, graphFields
  <2>5. a = [d \in D |-> a[d]] /\ \A d \in D : a[d] = IF d = "closed" THEN TRUE ELSE IF d = "terminalNodeID" THEN last
          ELSE IF d = "endReason" THEN r ELSE g[d]
    BY <2>2, <2>4
  <2>6. \A d \in D : a[d] = b[d]
    BY <1>1, <2>1, <2>3, <2>5 DEF graphOf, graphFields
  <2> QED
    BY <2>2, <2>3, <2>4, <2>5, <2>6
<1> QED
  BY <1>1, <1>5, <1>6 DEF endedGraph

\* The graph in memory, before and after a step.
LEMMA LiveIs ==
  /\ Live = graphOf(started, closed, nodes, children, headID, terminalNodeID, endReason)
  /\ Live' = graphOf(started', closed', nodes', children', headID', terminalNodeID', endReason')
BY Zenon DEF Live, graphOf

\* What is replayed is the graph, at every moment.
LogReplays == replayed(events) = Live

\* Nothing is replayed into the empty graph.
LEMMA ReplayInit == Init => LogReplays
<1>1. SUFFICES ASSUME Init PROVE LogReplays
  OBVIOUS
<1>2. events = << >> /\ Live = emptyGraph
  BY <1>1 DEF Init, Live, emptyGraph
<1> QED
  BY <1>2, ReplayNothing DEF LogReplays

\* Every call extends the graph and its replay alike.
LEMMA ReplayStep ==
  ASSUME ExtraParents = {}, TypeOK, LogReplays, [Next]_vars
  PROVE  LogReplays'
<1>1. CASE UNCHANGED vars
  <2>1. Live' = Live /\ events' = events
    BY <1>1 DEF Live, vars
  <2> QED
    BY <2>1 DEF LogReplays
<1>2. events \in Seq(Event) /\ replayed(events) = Live
  BY DEF TypeOK, LogReplays
<1>3. ASSUME Start PROVE LogReplays'
  <2>1. events' = Append(events, Log!StartEvent) /\ Log!StartEvent \in Event
    BY <1>3, EventKinds DEF Start
  <2>2. replayed(events') = applyEventToGraph(Live, persisted(Log!StartEvent))
    BY <1>2, <2>1, ReplayAppend
  <2>3. /\ started = FALSE /\ started' = TRUE
        /\ UNCHANGED <<closed, nodes, children, headID, terminalNodeID, endReason>>
    BY <1>3 DEF Start, TypeOK
  <2>4. Live = graphOf(FALSE, closed, nodes, children, headID, terminalNodeID, endReason)
    BY <2>3, LiveIs, Zenon
  <2>5. Live' = graphOf(TRUE, closed, nodes, children, headID, terminalNodeID, endReason)
    BY <2>3, LiveIs, Zenon
  <2> QED
    BY <2>2, <2>4, <2>5, ReplayOneStart, Zenon DEF LogReplays
<1>4. ASSUME NEW id \in ID, NEW parents \in Seq(AnyID), NEW n \in Node, AppendStep(id, parents, n)
      PROVE  LogReplays'
  <2>1. events' = Append(events, Log!NodeEvent(id, n)) /\ Log!NodeEvent(id, n) \in Event
    BY <1>4, EventKinds DEF AppendStep
  <2>2. replayed(events') = applyEventToGraph(Live, persisted(Log!NodeEvent(id, n)))
    BY <1>2, <2>1, ReplayAppend
  <2>3. /\ n.parents = parents /\ parents \in Seq(DOMAIN nodes) /\ IsInjective(parents)
        /\ nodes' = withNode(nodes, id, n) /\ headID' = id
        /\ started = TRUE /\ started' = TRUE /\ UNCHANGED <<closed, terminalNodeID, endReason>>
    BY <1>4 DEF AppendStep, TypeOK, withNode
  <2>4. ToSet(n.parents) \subseteq DOMAIN nodes
    BY <2>3, ToSetMember
  <2>5. linkNodeParents(children, id, n.parents) = children'
    BY <1>4, <2>3, LinksAsAppended DEF AppendStep
  <2>6. Live = graphOf(TRUE, closed, nodes, children, headID, terminalNodeID, endReason)
    BY <2>3, LiveIs, Zenon
  <2>7. Live' = graphOf(TRUE, closed, withNode(nodes, id, n), linkNodeParents(children, id, n.parents), id,
                        terminalNodeID, endReason)
    BY <2>3, <2>5, LiveIs, Zenon
  <2>8. applyEventToGraph(graphOf(TRUE, closed, nodes, children, headID, terminalNodeID, endReason),
                          persisted(Log!NodeEvent(id, n)))
          = graphOf(TRUE, closed, withNode(nodes, id, n), linkNodeParents(children, id, n.parents), id,
                    terminalNodeID, endReason)
    <3>1. PICK c, m, ch, h, t, e :
            c = closed /\ m = nodes /\ ch = children /\ h = headID
              /\ t = terminalNodeID /\ e = endReason
      OBVIOUS
    <3>2. PICK w : w = persisted(Log!NodeEvent(id, n))
      OBVIOUS
    <3>3. applyEventToGraph(startedGraph(c, m, ch, h, t, e), w)
            = startedGraph(c, withNode(m, id, n), linkNodeParents(ch, id, n.parents), id, t, e)
      BY <2>4, <3>1, <3>2, ReplayOneNode
    <3> QED
      BY <3>1, <3>2, <3>3 DEF startedGraph
  <2> QED
    BY <2>2, <2>6, <2>7, <2>8 DEF LogReplays
<1>5. ASSUME NEW reason \in Reason, End(reason) PROVE LogReplays'
  <2>1. events' = Append(events, Log!EndedEvent(reason, headID)) /\ Log!EndedEvent(reason, headID) \in Event
    BY <1>5, EventKinds DEF End, TypeOK
  <2>2. replayed(events') = applyEventToGraph(Live, persisted(Log!EndedEvent(reason, headID)))
    BY <1>2, <2>1, ReplayAppend
  <2>3. /\ closed' = TRUE /\ terminalNodeID' = headID /\ endReason' = reason
        /\ UNCHANGED <<started, nodes, children, headID>>
    BY <1>5 DEF End
  <2>4. Live' = graphOf(started, TRUE, nodes, children, headID, headID, reason)
    BY <2>3, LiveIs, Zenon
  <2>5. applyEventToGraph(graphOf(started, closed, nodes, children, headID, terminalNodeID, endReason),
                          persisted(Log!EndedEvent(reason, headID)))
          = graphOf(started, TRUE, nodes, children, headID, headID, reason)
    <3>1. PICK s, c, n, ch, h, t, e :
            s = started /\ c = closed /\ n = nodes /\ ch = children /\ h = headID
              /\ t = terminalNodeID /\ e = endReason
      OBVIOUS
    <3>2. PICK w : w = persisted(Log!EndedEvent(reason, h))
      OBVIOUS
    <3>3. applyEventToGraph(graphOf(s, c, n, ch, h, t, e), w) = endedGraph(s, n, ch, h, h, reason)
      BY <3>2, ReplayOneEnd
    <3> QED
      BY <3>1, <3>2, <3>3 DEF endedGraph
  <2>6. Live = graphOf(started, closed, nodes, children, headID, terminalNodeID, endReason)
    BY LiveIs
  <2> QED
    BY <2>2, <2>4, <2>5, <2>6 DEF LogReplays
<1> QED
  BY <1>1, <1>3, <1>4, <1>5, StepCases

\* A log, its kinds lost, gives back the graph that emitted it.
THEOREM LogIsTheGraph ==
  ASSUME ExtraParents = {}
  PROVE  Spec => []ReplayIsFaithful
<1>1. Init => LogReplays
  BY ReplayInit
<1>2. TypeOK /\ LogReplays /\ [Next]_vars => LogReplays'
  BY ReplayStep
<1>3. LogReplays => ReplayIsFaithful
  <2>1. SUFFICES ASSUME LogReplays, started PROVE RestoreFromEvents(persistedLog(events)) = Live
    BY DEF ReplayIsFaithful
  <2>2. Live.started
    BY <2>1 DEF Live
  <2> QED
    BY <2>1, <2>2 DEF LogReplays, replayed, RestoreFromEvents
<1> QED
  BY <1>1, <1>2, <1>3, TypeCorrect, PTL DEF Spec

-----------------------------------------------------------------------------
(* Restoring a graph from its nodes *)

\* What a sort of the nodes needs besides the parents: no parent is named twice,
\* and a link inside the session leads to a node emitted earlier.  While the
\* session is open there is nothing to restore of an end.
ReferencesHold ==
  /\ \A i \in NodeAt :
       /\ IsInjective(events[i].node.parents)
       /\ \A l \in events[i].node.links : l[2] \in Foreign \/ \E j \in EventsOf(l[2]) : j < i
  /\ ~closed => terminalNodeID = NoID /\ endReason = "none"

\* An append keeps its own references in order, and those of the others.
LEMMA ReferencesAppend ==
  ASSUME ExtraParents = {}, TypeOK, LogMatchesFields, ReferencesHold,
         NEW id \in ID, NEW parents, NEW node \in Node,
         AppendStep(id, parents, node)
  PROVE  ReferencesHold'
<1> SUFFICES ASSUME NEW i \in NodeAt'
             PROVE  /\ IsInjective(events'[i].node.parents)
                    /\ \A l \in events'[i].node.links :
                         l[2] \in Foreign \/ \E j \in NewEventsOf(l[2]) : j < i
  BY DEF ReferencesHold, EventsOf, NewEventsOf, AppendStep
<1>1. CASE i \in NodeAt
  <2>1. events'[i] = events[i]
    BY <1>1, AppendedNode
  <2>2. \A n : EventsOf(n) \subseteq NewEventsOf(n)
    BY AppendedNode DEF EventsOf
  <2> QED
    BY <1>1, <2>1, <2>2 DEF ReferencesHold
<1>2. CASE i = Len(events) + 1
  <2>1. events'[i].node = node /\ Len(events) \in Nat
    BY <1>2, AppendedNode
  <2>2. IsInjective(node.parents)
    BY DEF AppendStep
  <2>3. ASSUME NEW l \in node.links
        PROVE  l[2] \in Foreign \/ \E j \in NewEventsOf(l[2]) : j < i
    <3>1. l[2] \in DOMAIN nodes \/ l[2] \in Foreign
      BY DEF AppendStep
    <3>2. CASE l[2] \in DOMAIN nodes
      <4>1. PICK j : j \in EventsOf(l[2])
        BY <3>2 DEF LogMatchesFields
      <4>2. l[2] # id /\ j \in 1..Len(events)
        BY <3>2, <4>1, AppendedNode DEF AppendStep, EventsOf
      <4>3. j \in NewEventsOf(l[2])
        BY <4>1, <4>2, AppendedNode
      <4> QED
        BY <1>2, <2>1, <4>2, <4>3
    <3> QED
      BY <3>1, <3>2
  <2> QED
    BY <2>1, <2>2, <2>3
<1> QED
  BY <1>1, <1>2, AppendedNode

\* Steps that leave the node events alone keep the references.
LEMMA ReferencesUntouched ==
  ASSUME ReferencesHold, NodeAt' = NodeAt, \A i \in NodeAt : events'[i] = events[i],
         ~closed' => ~closed /\ terminalNodeID' = terminalNodeID /\ endReason' = endReason
  PROVE  ReferencesHold'
<1>1. \A n : NewEventsOf(n) = EventsOf(n)
  BY DEF NewEventsOf, EventsOf
<1> SUFFICES ASSUME NEW i \in NodeAt'
             PROVE  /\ IsInjective(events'[i].node.parents)
                    /\ \A l \in events'[i].node.links :
                         l[2] \in Foreign \/ \E j \in NewEventsOf(l[2]) : j < i
  BY DEF ReferencesHold, EventsOf, NewEventsOf
<1> QED
  BY <1>1 DEF ReferencesHold

\* Every call keeps the references.
LEMMA ReferencesStep ==
  ASSUME ExtraParents = {}, IInv, ReferencesHold, [Next]_vars
  PROVE  ReferencesHold'
<1> USE DEF IInv
<1>2. CASE Start
  <2>1. NodeAt' = NodeAt /\ \A i \in NodeAt : events'[i] = events[i]
    BY <1>2, EventKinds, AppendedEvent DEF Start, Log!StartEvent, NodeAt
  <2>2. UNCHANGED <<closed, terminalNodeID, endReason>>
    BY <1>2 DEF Start
  <2> QED
    BY <2>1, <2>2, ReferencesUntouched
<1>3. ASSUME NEW id \in ID, NEW parents, NEW node \in Node,
             AppendStep(id, parents, node)
      PROVE  ReferencesHold'
  BY <1>3, ReferencesAppend
<1>4. ASSUME NEW reason \in Reason, End(reason)
      PROVE  ReferencesHold'
  <2>1. Log!EndedEvent(reason, headID) \in Event
    BY EventKinds DEF TypeOK
  <2>2. NodeAt' = NodeAt /\ \A i \in NodeAt : events'[i] = events[i]
    BY <1>4, <2>1, AppendedEvent DEF End, Log!EndedEvent, NodeAt
  <2>3. closed'
    BY <1>4 DEF End
  <2> QED
    BY <2>2, <2>3, ReferencesUntouched
<1>5. CASE UNCHANGED vars
  <2>1. NodeAt' = NodeAt /\ \A i \in NodeAt : events'[i] = events[i]
    BY <1>5 DEF vars, NodeAt
  <2>2. UNCHANGED <<closed, terminalNodeID, endReason>>
    BY <1>5 DEF vars
  <2> QED
    BY <2>1, <2>2, ReferencesUntouched
<1> QED
  BY <1>2, <1>3, <1>4, <1>5, StepCases

\* In every reachable state.
LEMMA References ==
  ASSUME ExtraParents = {}
  PROVE  Spec => []ReferencesHold
<1>1. Init => ReferencesHold
  BY DEF Init, ReferencesHold, NodeAt
<1>2. IInv /\ ReferencesHold /\ [Next]_vars => ReferencesHold'
  BY ReferencesStep
<1> QED
  BY <1>1, <1>2, Invariant, PTL DEF Spec

\* The dependencies that are sorted, as RestoreFromNodes and SynthesizeEvents see them.
sortMap(N) == [n \in DOMAIN N |-> [deps |-> nodeDependencyIDs(N[n]), ts |-> N[n].ts]]

\* q has every node of N once, after its parents.
InOrder(N, q) ==
  /\ q \in Seq(DOMAIN N) /\ IsInjective(q) /\ ToSet(q) = DOMAIN N
  /\ \A i \in DOMAIN q : \A p \in ToSet(N[q[i]].parents) : \E j \in 1..(i - 1) : q[j] = p

\* The nodes of a session are always sorted, parents first, however ties are broken.
LEMMA SortsInOrder ==
  ASSUME IInv, ReferencesHold, NEW k \in sortsOf(nodes)
  PROVE  ~cycleDetected(k) /\ InOrder(nodes, k.sorted)
<1> USE DEF IInv
<1>1. PICK N, m : N = nodes /\ m = sortMap(N)
  OBVIOUS
<1>2. k \in topoSortNodes(m) /\ DOMAIN m = DOMAIN N
  BY <1>1 DEF sortsOf, sortMap
<1>3. FiniteMap(m)
  BY <1>1, <1>2, Places DEF FiniteMap
<1>4. \A n \in DOMAIN N : m[n].deps = nodeDependencyIDs(N[n])
  BY <1>1 DEF sortMap
<1>5. PICK s : s = [i \in 1..Len(events) |-> IF i \in NodeAt THEN events[i].id ELSE NoID]
  OBVIOUS
<1>6. Len(events) \in Nat /\ NodeAt \subseteq 1..Len(events)
  BY DEF TypeOK, NodeAt
<1>7. s \in Seq(ID \cup {NoID}) /\ DOMAIN s = 1..Len(events)
  <2>1. \A i \in NodeAt : events[i].id \in ID
    BY DEF LogMatchesFields, TypeOK
  <2>2. s \in [1..Len(events) -> ID \cup {NoID}]
    BY <1>5, <2>1
  <2> QED
    BY <1>5, <1>6, <2>2
<1>8. DOMAIN m \subseteq ToSet(s)
  <2> SUFFICES ASSUME NEW n \in DOMAIN N PROVE n \in ToSet(s)
    BY <1>2
  <2>1. PICK i \in NodeAt : events[i].id = n
    BY <1>1 DEF LogMatchesFields, EventsOf
  <2>2. i \in DOMAIN s /\ s[i] = n
    BY <1>5, <1>6, <1>7, <2>1
  <2> QED
    BY <2>2 DEF ToSet
<1>9. ASSUME NEW i \in DOMAIN s, s[i] \in DOMAIN m, NEW d \in depsInScope(m, s[i])
      PROVE  \E j \in 1..(i - 1) : s[j] = d
  <2>1. s[i] # NoID
    BY <1>1, <1>2, <1>9, ConstantsAssumption DEF TypeOK
  <2>2. i \in NodeAt /\ events[i].id = s[i]
    BY <1>5, <1>7, <2>1
  <2>3. N[s[i]] = events[i].node
    BY <1>1, <2>2 DEF LogMatchesFields
  <2>4. d \in nodeDependencyIDs(events[i].node) /\ d \in DOMAIN N
    BY <1>2, <1>4, <1>9, <2>3 DEF depsInScope
  <2>5. d \in ID /\ d \notin Foreign
    BY <1>1, <2>4, ConstantsAssumption DEF TypeOK
  <2>6. \E j \in EventsOf(d) : j < i
    <3>1. CASE d \in ToSet(events[i].node.parents)
      <4>1. PICK x \in DOMAIN events[i].node.parents : events[i].node.parents[x] = d
        BY <3>1 DEF ToSet
      <4> QED
        BY <2>2, <4>1 DEF ParentsPrecede
    <3>2. CASE d \notin ToSet(events[i].node.parents)
      <4>1. PICK l \in events[i].node.links : l[2] = d
        BY <2>4, <3>2 DEF nodeDependencyIDs
      <4> QED
        BY <2>2, <2>5, <4>1 DEF ReferencesHold
    <3> QED
      BY <3>1, <3>2
  <2>7. PICK j \in EventsOf(d) : j < i
    BY <2>6
  <2>8. j \in NodeAt /\ events[j].id = d /\ j \in 1..Len(events)
    BY <1>6, <2>7 DEF EventsOf
  <2>9. s[j] = d
    BY <1>5, <2>8
  <2>10. j \in 1..(i - 1)
    BY <1>6, <1>7, <2>7, <2>8
  <2> QED
    BY <2>9, <2>10
<1>10. \A i \in DOMAIN s : s[i] \in DOMAIN m => depsInScope(m, s[i]) \subseteq {s[j] : j \in 1..(i - 1)}
  BY <1>9
<1>11. AllSorted(k.sorted, m) /\ ~cycleDetected(k)
  <2>1. Witnesses(s, m)
    BY <1>8, <1>10 DEF Witnesses
  <2> QED
    BY <1>2, <1>3, <1>7, <2>1, SortSucceeds
<1>12. /\ k.sorted \in Seq(DOMAIN m) /\ IsInjective(k.sorted) /\ ToSet(k.sorted) = DOMAIN m
       /\ \A i \in DOMAIN k.sorted :
            \A d \in depsInScope(m, k.sorted[i]) : \E j \in 1..(i - 1) : k.sorted[j] = d
  BY <1>11 DEF AllSorted
<1>13. ASSUME NEW i \in DOMAIN k.sorted, NEW p \in ToSet(N[k.sorted[i]].parents)
       PROVE  \E j \in 1..(i - 1) : k.sorted[j] = p
  <2>1. k.sorted[i] \in DOMAIN N
    BY <1>2, <1>12
  <2>2. p \in DOMAIN N
    BY <1>1, <2>1, Places
  <2>3. p \in depsInScope(m, k.sorted[i])
    BY <1>2, <1>4, <2>1, <2>2 DEF depsInScope, nodeDependencyIDs
  <2> QED
    BY <1>12, <2>3
<1> QED
  BY <1>1, <1>2, <1>11, <1>12, <1>13 DEF InOrder

\* The child lists that RestoreFromNodes makes of the nodes in an order.
wired(M, q) ==
  LET wire(ch, id) == linkNodeParents(ch, id, M[id].parents)
  IN FoldLeft(wire, emptyGraph.children, q)

\* The child lists that RestoreFromNodes goes through.
IsWiring(M, q, L, T) ==
  /\ DOMAIN T = 0..L /\ T[0] = emptyGraph.children
  /\ \A i \in 1..L : T[i] = linkNodeParents(T[i - 1], q[i], M[q[i]].parents)

\* It links the nodes one by one.
LEMMA WiringSteps ==
  ASSUME NEW M, NEW L \in Nat, NEW q, DOMAIN q = 1..L
  PROVE  \E T : IsWiring(M, q, L, T) /\ wired(M, q) = T[L]
<1> DEFINE row(f, s) == IF s = {} THEN emptyGraph.children
                        ELSE linkNodeParents(f[s \ {Max(s)}], q[Max(s)], M[q[Max(s)]].parents)
           iter == CHOOSE f : f = [s \in SUBSET (1..L) |-> row(f, s)]
           has(n) == \E f : f = [s \in SUBSET (1..n) |-> row(f, s)]
           N == {n \in Nat : has(n)}
<1>1. wired(M, q) = iter[1..L]
  BY DEF wired, FoldLeft, MapThenFoldSet
<1>2. has(0)
  <2>1. PICK f : f = [s \in SUBSET (1..0) |-> emptyGraph.children]
    OBVIOUS
  <2>2. \A s \in SUBSET (1..0) : s = {}
    OBVIOUS
  <2>3. f = [s \in SUBSET (1..0) |-> row(f, s)]
    BY <2>1, <2>2
  <2> QED
    BY <2>3
<1>3. ASSUME NEW n \in Nat, has(n) PROVE has(n + 1)
  <2>1. PICK f : f = [s \in SUBSET (1..n) |-> row(f, s)]
    BY <1>3
  <2>2. PICK g : g = [s \in SUBSET (1..(n + 1)) |->
                        IF n + 1 \in s THEN linkNodeParents(f[s \ {n + 1}], q[n + 1], M[q[n + 1]].parents) ELSE f[s]]
    OBVIOUS
  <2> HIDE DEF row
  <2>3. ASSUME NEW s \in SUBSET (1..(n + 1)), n + 1 \in s
        PROVE  g[s] = row(g, s)
    <3>1. Max(s) = n + 1
      BY <2>3, NewestOf
    <3>2. s \ {n + 1} \in SUBSET (1..n) /\ n + 1 \notin s \ {n + 1} /\ s # {}
      BY <2>3
    <3>3. s \ {n + 1} \in SUBSET (1..(n + 1))
      OBVIOUS
    <3>4. g[s \ {n + 1}] = f[s \ {n + 1}]
      BY <2>2, <3>2, <3>3
    <3>5. g[s] = linkNodeParents(f[s \ {n + 1}], q[n + 1], M[q[n + 1]].parents)
      BY <2>2, <2>3
    <3> QED
      BY <3>1, <3>2, <3>4, <3>5 DEF row
  <2>4. ASSUME NEW s \in SUBSET (1..(n + 1)), n + 1 \notin s
        PROVE  g[s] = row(g, s)
    <3>1. s \in SUBSET (1..n)
      BY <2>4
    <3>2. g[s] = f[s] /\ f[s] = row(f, s)
      BY <2>1, <2>2, <2>4, <3>1
    <3>3. CASE s = {}
      BY <3>2, <3>3 DEF row
    <3>4. CASE s # {}
      <4>1. Max(s) \in s
        BY <3>1, <3>4, NewestIn
      <4>2. s \ {Max(s)} \in SUBSET (1..(n + 1)) /\ n + 1 \notin s \ {Max(s)}
        BY <2>4
      <4>3. g[s \ {Max(s)}] = f[s \ {Max(s)}]
        BY <2>2, <4>2
      <4> QED
        BY <3>2, <3>4, <4>3 DEF row
    <3> QED
      BY <3>3, <3>4
  <2>5. \A s \in SUBSET (1..(n + 1)) : g[s] = row(g, s)
    BY <2>3, <2>4
  <2>6. DOMAIN g = SUBSET (1..(n + 1)) /\ g = [s \in DOMAIN g |-> g[s]]
    BY <2>2
  <2>7. g = [s \in SUBSET (1..(n + 1)) |-> row(g, s)]
    BY <2>5, <2>6
  <2> QED
    BY <2>7
<1> HIDE DEF has
<1>4. N = Nat
  <2>1. N \in SUBSET Nat /\ 0 \in N
    BY <1>2
  <2>2. \A n \in N : n + 1 \in N
    BY <1>3
  <2> QED
    BY <2>1, <2>2, SetInduction
<1>5. has(L)
  BY <1>4
<1>6. iter = [s \in SUBSET (1..L) |-> row(iter, s)]
  BY <1>5 DEF has
<1> HIDE DEF iter
<1>7. PICK T : T = [i \in 0..L |-> iter[1..i]]
  OBVIOUS
<1>8. DOMAIN T = 0..L /\ \A i \in 0..L : T[i] = iter[1..i]
  BY <1>7
<1> HIDE DEF row
<1>9. \A s \in SUBSET (1..L) : iter[s] = row(iter, s)
  BY <1>6
<1>10. T[0] = emptyGraph.children
  <2>1. 1..0 = {} /\ {} \in SUBSET (1..L) /\ 0 \in 0..L
    OBVIOUS
  <2> QED
    BY <1>8, <1>9, <2>1 DEF row
<1>11. ASSUME NEW i \in 1..L PROVE T[i] = linkNodeParents(T[i - 1], q[i], M[q[i]].parents)
  <2>1. i - 1 \in Nat /\ (i - 1) + 1 = i /\ i \in 0..L /\ i - 1 \in 0..L
    OBVIOUS
  <2>2. 1..i \in SUBSET (1..L) /\ i \in 1..i
    OBVIOUS
  <2>3. Max(1..i) = i
    <3>1. 1..i \in SUBSET (1..((i - 1) + 1)) /\ (i - 1) + 1 \in 1..i
      BY <2>1, <2>2
    <3>2. Max(1..i) = (i - 1) + 1
      BY <2>1, <3>1, NewestOf
    <3> QED
      BY <2>1, <3>2
  <2>4. (1..i) \ {i} = 1..(i - 1) /\ 1..i # {}
    OBVIOUS
  <2>5. iter[1..i] = linkNodeParents(iter[1..(i - 1)], q[i], M[q[i]].parents)
    BY <1>9, <2>2, <2>3, <2>4 DEF row
  <2> QED
    BY <1>8, <2>1, <2>5
<1>12. T[L] = iter[1..L]
  <2>1. L \in 0..L
    OBVIOUS
  <2> QED
    BY <1>8, <2>1
<1> QED
  BY <1>1, <1>8, <1>10, <1>11, <1>12 DEF IsWiring

\* What they are after the first i nodes.
Linked(M, q, i, ch) ==
  /\ ch \in [ID -> Seq(ID)]
  /\ \A p \in ID : /\ IsInjective(ch[p])
                   /\ ToSet(ch[p]) = {n \in {q[j] : j \in 1..i} : p \in ToSet(M[n].parents)}

\* A node that comes after others is linked to its parents once.
LEMMA LinkedStep ==
  ASSUME NEW M, NEW q \in Seq(ID), IsInjective(q), NEW i \in 1..Len(q), NEW ch, Linked(M, q, i - 1, ch),
         M[q[i]].parents \in Seq(AnyID), IsInjective(M[q[i]].parents)
  PROVE  Linked(M, q, i, linkNodeParents(ch, q[i], M[q[i]].parents))
<1>1. PICK id, parents, more : id = q[i] /\ parents = M[q[i]].parents /\ more = linkNodeParents(ch, id, parents)
  OBVIOUS
<1>2. id \in ID /\ parents \in Seq(AnyID) /\ IsInjective(parents)
  BY <1>1
<1>3. /\ ch \in [ID -> Seq(ID)]
      /\ \A p \in ID : /\ IsInjective(ch[p])
                       /\ ToSet(ch[p]) = {n \in {q[j] : j \in 1..(i - 1)} : p \in ToSet(M[n].parents)}
  BY DEF Linked
<1>4. \A p \in ID : more[p] = IF p \in ToSet(parents) THEN Append(ch[p], id) ELSE ch[p]
  <2>1. OnceMore(ch, id, parents, linkNodeParents(ch, id, parents))
    BY <1>2, <1>3, LinksOnce
  <2> QED
    BY <1>1, <2>1 DEF OnceMore
<1>5. id \notin {q[j] : j \in 1..(i - 1)}
  <2>1. \A j \in 1..(i - 1) : j \in DOMAIN q /\ i \in DOMAIN q /\ j # i
    OBVIOUS
  <2> QED
    BY <1>1, <2>1 DEF IsInjective
<1>6. {q[j] : j \in 1..i} = {q[j] : j \in 1..(i - 1)} \cup {id}
  <2>1. \A j \in 1..i : j \in 1..(i - 1) \/ j = i
    OBVIOUS
  <2>2. i \in 1..i /\ \A j \in 1..(i - 1) : j \in 1..i
    OBVIOUS
  <2> QED
    BY <1>1, <2>1, <2>2
<1>7. ASSUME NEW p \in ID
      PROVE  /\ more[p] \in Seq(ID) /\ IsInjective(more[p])
             /\ ToSet(more[p]) = {n \in {q[j] : j \in 1..i} : p \in ToSet(M[n].parents)}
  <2>1. PICK s, t : s = ch[p] /\ t = more[p]
    OBVIOUS
  <2>2. s \in Seq(ID) /\ IsInjective(s)
        /\ ToSet(s) = {n \in {q[j] : j \in 1..(i - 1)} : p \in ToSet(M[n].parents)}
    BY <1>3, <2>1
  <2>3. CASE p \in ToSet(parents)
    <3>1. t = Append(s, id) /\ id \notin ToSet(s)
      BY <1>4, <1>5, <2>1, <2>2, <2>3
    <3>2. t \in Seq(ID) /\ IsInjective(t) /\ ToSet(t) = ToSet(s) \cup {id}
      BY <1>2, <2>2, <3>1, AppendedOnce, AppendToSet
    <3> QED
      BY <1>1, <1>6, <2>1, <2>2, <2>3, <3>2
  <2>4. CASE p \notin ToSet(parents)
    <3>1. t = s
      BY <1>4, <2>1, <2>4
    <3> QED
      BY <1>1, <1>6, <2>1, <2>2, <2>4, <3>1
  <2> QED
    BY <2>3, <2>4
<1>8. more \in [ID -> Seq(ID)]
  <2>1. DOMAIN more = ID /\ more = [p \in ID |-> more[p]]
    BY <1>1 DEF linkNodeParents
  <2> QED
    BY <1>7, <2>1
<1>9. Linked(M, q, i, more)
  BY <1>7, <1>8 DEF Linked
<1> QED
  BY <1>1, <1>9

\* So the whole order gives the inverse of the parents.
LEMMA WiresAll ==
  ASSUME NEW M, DOMAIN M \subseteq ID, NEW q, InOrder(M, q),
         \A n \in DOMAIN M : M[n].parents \in Seq(AnyID) /\ IsInjective(M[n].parents)
  PROVE  Linked(M, q, Len(q), wired(M, q))
<1>1. q \in Seq(ID) /\ IsInjective(q) /\ q \in Seq(DOMAIN M)
  BY SeqSubset DEF InOrder
<1>2. PICK L : L = Len(q) /\ L \in Nat
  BY <1>1
<1>3. DOMAIN q = 1..L
  BY <1>1, <1>2
<1>4. PICK T : IsWiring(M, q, L, T) /\ wired(M, q) = T[L]
  BY <1>2, <1>3, WiringSteps
<1>5. T[0] = emptyGraph.children /\ \A i \in 1..L : T[i] = linkNodeParents(T[i - 1], q[i], M[q[i]].parents)
  BY <1>4 DEF IsWiring
<1> DEFINE S == {i \in Nat : i <= L => Linked(M, q, i, T[i])}
<1>6. 0 \in S
  <2>1. PICK ch : ch = T[0]
    OBVIOUS
  <2>2. ch = [p \in ID |-> << >>]
    BY <1>5, <2>1 DEF emptyGraph
  <2>3. ch \in [ID -> Seq(ID)] /\ \A p \in ID : IsInjective(ch[p]) /\ ToSet(ch[p]) = {}
    BY <2>2 DEF IsInjective, ToSet
  <2>4. {q[j] : j \in 1..0} = {}
    OBVIOUS
  <2>5. Linked(M, q, 0, ch)
    BY <2>3, <2>4 DEF Linked
  <2> QED
    BY <2>1, <2>5
<1>7. ASSUME NEW i \in S PROVE i + 1 \in S
  <2>1. SUFFICES ASSUME i + 1 <= L PROVE Linked(M, q, i + 1, T[i + 1])
    OBVIOUS
  <2>2. PICK k : k = i + 1
    OBVIOUS
  <2>3. k \in 1..L /\ k \in 1..Len(q) /\ k - 1 = i /\ Linked(M, q, k - 1, T[k - 1])
    BY <1>2, <2>1, <2>2
  <2>4. q[k] \in DOMAIN M
    BY <1>1, <2>3
  <2>5. M[q[k]].parents \in Seq(AnyID) /\ IsInjective(M[q[k]].parents)
    BY <2>4
  <2>6. PICK ch : ch = T[k - 1]
    OBVIOUS
  <2>7. Linked(M, q, k, linkNodeParents(ch, q[k], M[q[k]].parents))
    BY <1>1, <2>3, <2>5, <2>6, LinkedStep
  <2> QED
    BY <1>5, <2>2, <2>3, <2>6, <2>7
<1> HIDE DEF S
<1>8. S = Nat
  <2>1. S \in SUBSET Nat
    BY DEF S
  <2> QED
    BY <1>6, <1>7, <2>1, SetInduction
<1> QED
  BY <1>2, <1>4, <1>8 DEF S

\* The same children under every node, in any order.
SameSiblings(a, b) == \A p \in ID : ToSet(a[p]) = ToSet(b[p]) /\ Len(a[p]) = Len(b[p])

\* Graphs that differ in that order only.
LEMMA SiblingOrderOnly ==
  ASSUME NEW s, NEW c, NEW n, NEW a, NEW b, NEW h, NEW t, NEW e, SameSiblings(a, b)
  PROVE  SameUpToSiblingOrder(graphOf(s, c, n, a, h, t, e), graphOf(s, c, n, b, h, t, e))
<1>1. PICK g, l : g = graphOf(s, c, n, a, h, t, e) /\ l = graphOf(s, c, n, b, h, t, e)
  OBVIOUS
<1>2. [g EXCEPT !.children = << >>] = [l EXCEPT !.children = << >>]
  <2>1. PICK D : D = graphFields
    OBVIOUS
  <2>2. g = [d \in D |-> g[d]] /\ l = [d \in D |-> l[d]]
    BY <1>1, <2>1 DEF graphOf, graphFields
  <2>3. PICK x, y : x = [g EXCEPT !.children = << >>] /\ y = [l EXCEPT !.children = << >>]
    OBVIOUS
  <2>4. /\ x = [d \in D |-> x[d]] /\ \A d \in D : x[d] = IF d = "children" THEN << >> ELSE g[d]
        /\ y = [d \in D |-> y[d]] /\ \A d \in D : y[d] = IF d = "children" THEN << >> ELSE l[d]
    BY <2>2, <2>3
  <2>5. /\ g.started = l.started /\ g.closed = l.closed /\ g.nodes = l.nodes /\ g.headID = l.headID
        /\ g.terminalNodeID = l.terminalNodeID /\ g.endReason = l.endReason /\ g.err = l.err
    BY <1>1 DEF graphOf
  <2>6. \A d \in D : x[d] = y[d]
    BY <2>1, <2>4, <2>5 DEF graphFields
  <2> QED
    BY <2>3, <2>4, <2>6
<1>3. g.children = a /\ l.children = b
  BY <1>1 DEF graphOf
<1> QED
  BY <1>1, <1>2, <1>3 DEF SameUpToSiblingOrder, SameSiblings

\* An order of the nodes wires the children that the session has.
LEMMA WiresTheChildren ==
  ASSUME IInv, ReferencesHold, NEW q, InOrder(nodes, q)
  PROVE  SameSiblings(wired(nodes, q), children)
<1> USE DEF IInv
<1>1. PICK M, ch : M = nodes /\ ch = wired(M, q)
  OBVIOUS
<1>2. DOMAIN M \subseteq ID /\ IsFiniteSet(DOMAIN M)
  BY <1>1, Places DEF TypeOK
<1>3. ASSUME NEW n \in DOMAIN M PROVE M[n].parents \in Seq(AnyID) /\ IsInjective(M[n].parents)
  <2>1. M[n] \in Node
    BY <1>1, <1>3 DEF TypeOK
  <2>2. PICK i \in NodeAt : events[i].id = n
    BY <1>1 DEF LogMatchesFields, EventsOf
  <2>3. M[n] = events[i].node
    BY <1>1, <2>2 DEF LogMatchesFields
  <2> QED
    BY <2>1, <2>2, <2>3 DEF Node, ReferencesHold
<1>4. InOrder(M, q)
  BY <1>1
<1>5. Linked(M, q, Len(q), ch)
  BY <1>1, <1>2, <1>3, <1>4, WiresAll
<1>6. {q[j] : j \in 1..Len(q)} = DOMAIN M
  <2>1. q \in Seq(DOMAIN M) /\ ToSet(q) = DOMAIN M
    BY <1>4 DEF InOrder
  <2>2. DOMAIN q = 1..Len(q)
    BY <2>1
  <2> QED
    BY <2>1, <2>2, Zenon DEF ToSet
<1>7. ASSUME NEW p \in ID
      PROVE  ToSet(ch[p]) = ToSet(children[p]) /\ Len(ch[p]) = Len(children[p])
  <2>1. PICK s, t, S : s = ch[p] /\ t = children[p] /\ S = DOMAIN M
    OBVIOUS
  <2>2. s \in Seq(ID) /\ IsInjective(s) /\ ToSet(s) = {n \in S : p \in ToSet(M[n].parents)}
    BY <1>5, <1>6, <2>1 DEF Linked
  <2>3. t \in Seq(S) /\ IsInjective(t) /\ ToSet(t) = {n \in S : p \in ToSet(M[n].parents)}
    BY <1>1, <2>1, ChildrenAreDistinct
  <2>4. s \in Seq(S)
    <3>1. \A i \in 1..Len(s) : s[i] \in ToSet(s)
      BY <2>2 DEF ToSet
    <3> QED
      BY <2>2, <3>1
  <2>5. IsFiniteSet(S)
    BY <1>2, <2>1
  <2>6. Cardinality(ToSet(s)) = Len(s) /\ Cardinality(ToSet(t)) = Len(t)
    BY <2>2, <2>3, <2>4, <2>5, InjectiveLength
  <2> QED
    BY <2>1, <2>2, <2>3, <2>6
<1> QED
  BY <1>1, <1>7 DEF SameSiblings

\* What RestoreFromNodes returns for the nodes of a session.
LEMMA LoadsTheGraph ==
  ASSUME IInv, ReferencesHold, started,
         NEW g \in RestoreFromNodes(nodes, headID, closed, endReason, terminalNodeID)
  PROVE  SameUpToSiblingOrder(g, Live)
<1>1. PICK k \in sortsOf(nodes) :
        g = IF cycleDetected(k) THEN failed
            ELSE [started |-> TRUE, closed |-> closed, nodes |-> nodes,
                  children |-> wired(nodes, k.sorted), headID |-> headID,
                  terminalNodeID |-> IF closed THEN terminalNodeID ELSE NoID,
                  endReason |-> IF closed THEN endReason ELSE "none", err |-> FALSE]
  BY DEF RestoreFromNodes, wired
<1>2. ~cycleDetected(k) /\ InOrder(nodes, k.sorted)
  BY SortsInOrder
<1>3. PICK a : a = wired(nodes, k.sorted)
  OBVIOUS
<1>4. SameSiblings(a, children)
  BY <1>2, <1>3, WiresTheChildren
<1>5. /\ terminalNodeID = IF closed THEN terminalNodeID ELSE NoID
      /\ endReason = IF closed THEN endReason ELSE "none"
  BY DEF ReferencesHold
<1>6. g = graphOf(TRUE, closed, nodes, a, headID, terminalNodeID, endReason)
  BY <1>1, <1>2, <1>3, <1>5, Zenon DEF graphOf
<1>7. Live = graphOf(TRUE, closed, nodes, children, headID, terminalNodeID, endReason)
  <2>1. started = TRUE
    BY DEF IInv, TypeOK
  <2> QED
    BY <2>1, LiveIs, Zenon
<1>8. PICK c, m, b, h, t, e : c = closed /\ m = nodes /\ b = children /\ h = headID
                             /\ t = terminalNodeID /\ e = endReason
  OBVIOUS
<1>9. SameUpToSiblingOrder(graphOf(TRUE, c, m, a, h, t, e), graphOf(TRUE, c, m, b, h, t, e))
  BY <1>4, <1>8, SiblingOrderOnly
<1> QED
  BY <1>6, <1>7, <1>8, <1>9

\* A graph loaded from its nodes and the stored head is the graph in memory, but
\* for the order of siblings, whatever the timestamps and however ties are broken.
THEOREM NodesAreTheGraph ==
  ASSUME ExtraParents = {}
  PROVE  Spec => []LoadIsFaithful
<1>1. IInv /\ ReferencesHold => LoadIsFaithful
  BY LoadsTheGraph DEF LoadIsFaithful
<1> QED
  BY <1>1, Invariant, References, PTL

-----------------------------------------------------------------------------
(* Replaying a synthesized log *)

\* The nodes among the first i of an order.
partOf(M, q, i) == [n \in {q[j] : j \in 1..i} |-> M[n]]

\* The last of the first i of an order.
lastOf(q, i) == IF i = 0 THEN NoID ELSE q[i]

\* A started graph that has not ended.
openGraph(n, ch, h) == graphOf(TRUE, FALSE, n, ch, h, NoID, "none")

\* The graph after the start and i nodes of a synthesized log.
halfway(M, q, W, i) == openGraph(partOf(M, q, i), W[i], lastOf(q, i))

\* The start of the log.
LEMMA HalfwayStarts ==
  ASSUME NEW M, NEW q, NEW W, W[0] = emptyGraph.children, NEW w, w = persisted(Log!StartEvent)
  PROVE  applyEventToGraph(emptyGraph, w) = halfway(M, q, W, 0)
<1>1. PICK n, ch : n = [x \in {} |-> NoID] /\ ch = [p \in ID |-> << >>]
  OBVIOUS
<1>2. emptyGraph = graphOf(FALSE, FALSE, n, ch, NoID, NoID, "none") /\ W[0] = ch
  BY <1>1 DEF emptyGraph, graphOf
<1>3. partOf(M, q, 0) = n /\ lastOf(q, 0) = NoID
  <2>1. {q[j] : j \in 1..0} = {}
    OBVIOUS
  <2> QED
    BY <1>1, <2>1 DEF partOf, lastOf
<1>4. PICK c, h, e : c = FALSE /\ h = NoID /\ e = "none"
  OBVIOUS
<1>5. applyEventToGraph(graphOf(FALSE, c, n, ch, h, h, e), w) = graphOf(TRUE, c, n, ch, h, h, e)
  BY ReplayOneStart, Zenon
<1> QED
  BY <1>2, <1>3, <1>4, <1>5 DEF halfway, openGraph

\* One node of the log: its parents are there.
LEMMA HalfwayStep ==
  ASSUME NEW M, NEW q, InOrder(M, q), NEW W, IsWiring(M, q, Len(q), W), NEW i \in 1..Len(q),
         NEW w, w = persisted(Log!NodeEvent(q[i], M[q[i]]))
  PROVE  applyEventToGraph(halfway(M, q, W, i - 1), w) = halfway(M, q, W, i)
<1>1. PICK id, m, n, ch : id = q[i] /\ m = M[id] /\ n = partOf(M, q, i - 1) /\ ch = W[i - 1]
  OBVIOUS
<1>2. q \in Seq(DOMAIN M) /\ IsInjective(q) /\ DOMAIN q = 1..Len(q) /\ Len(q) \in Nat
  BY DEF InOrder
<1>3. {q[j] : j \in 1..i} = {q[j] : j \in 1..(i - 1)} \cup {id}
  <2>1. \A j \in 1..i : j \in 1..(i - 1) \/ j = i
    OBVIOUS
  <2>2. i \in 1..i /\ \A j \in 1..(i - 1) : j \in 1..i
    OBVIOUS
  <2> QED
    BY <1>1, <2>1, <2>2
<1>4. DOMAIN n = {q[j] : j \in 1..(i - 1)}
  BY <1>1 DEF partOf
<1>5. ToSet(m.parents) \subseteq DOMAIN n
  BY <1>1, <1>2, <1>4 DEF InOrder
<1>6. withNode(n, id, m) = partOf(M, q, i)
  <2>1. PICK x, y : x = withNode(n, id, m) /\ y = partOf(M, q, i)
    OBVIOUS
  <2>2. DOMAIN x = DOMAIN n \cup {id} /\ x = [k \in DOMAIN x |-> x[k]]
    BY <2>1 DEF withNode
  <2>3. DOMAIN y = DOMAIN n \cup {id} /\ y = [k \in DOMAIN y |-> y[k]]
    BY <1>3, <1>4, <2>1 DEF partOf
  <2>4. \A k \in DOMAIN n \cup {id} : x[k] = M[k]
    BY <1>1, <1>4, <2>1 DEF withNode, partOf
  <2>5. \A k \in DOMAIN n \cup {id} : y[k] = M[k]
    BY <1>3, <1>4, <2>1 DEF partOf
  <2> QED
    BY <2>1, <2>2, <2>3, <2>4, <2>5
<1>7. linkNodeParents(ch, id, m.parents) = W[i]
  BY <1>1 DEF IsWiring
<1>8. lastOf(q, i) = id
  BY <1>1 DEF lastOf
<1>9. PICK c, t, e, h : c = FALSE /\ t = NoID /\ e = "none" /\ h = lastOf(q, i - 1)
  OBVIOUS
<1>10. w = persisted(Log!NodeEvent(id, m))
  BY <1>1
<1>11. applyEventToGraph(startedGraph(c, n, ch, h, t, e), w)
         = startedGraph(c, withNode(n, id, m), linkNodeParents(ch, id, m.parents), id, t, e)
  BY <1>5, <1>10, ReplayOneNode
<1>12. halfway(M, q, W, i - 1) = startedGraph(c, n, ch, h, t, e)
  BY <1>1, <1>9, Zenon DEF halfway, openGraph, startedGraph
<1>13. halfway(M, q, W, i) = startedGraph(c, partOf(M, q, i), W[i], id, t, e)
  BY <1>8, <1>9, Zenon DEF halfway, openGraph, startedGraph
<1> QED
  BY <1>6, <1>7, <1>11, <1>12, <1>13

\* All the nodes of the log.
LEMMA HalfwayEnds ==
  ASSUME NEW M, NEW q, InOrder(M, q), NEW W, IsWiring(M, q, Len(q), W),
         NEW L \in Nat, Len(q) + 1 <= L, NEW w, NEW T, IsReplay(w, L, T),
         w[1] = persisted(Log!StartEvent),
         \A i \in 1..Len(q) : w[i + 1] = persisted(Log!NodeEvent(q[i], M[q[i]]))
  PROVE  T[Len(q) + 1] = halfway(M, q, W, Len(q))
<1>1. Len(q) \in Nat
  BY DEF InOrder
<1>2. T[0] = emptyGraph /\ \A i \in 1..L : T[i] = applyEventToGraph(T[i - 1], w[i])
  BY DEF IsReplay
<1>3. PICK K \in Nat : K = Len(q)
  BY <1>1
<1> DEFINE S == {i \in Nat : i <= K => T[i + 1] = halfway(M, q, W, i)}
<1>4. 0 \in S
  <2>1. 1 \in 1..L /\ 1 - 1 = 0
    BY <1>3
  <2>2. T[1] = applyEventToGraph(emptyGraph, w[1])
    BY <1>2, <2>1
  <2>3. W[0] = emptyGraph.children
    BY DEF IsWiring
  <2>4. T[1] = halfway(M, q, W, 0)
    BY <2>2, <2>3, HalfwayStarts
  <2>5. 0 + 1 = 1
    OBVIOUS
  <2> QED
    BY <2>4, <2>5
<1>5. ASSUME NEW i \in S PROVE i + 1 \in S
  <2>1. SUFFICES ASSUME i + 1 <= K PROVE T[(i + 1) + 1] = halfway(M, q, W, i + 1)
    OBVIOUS
  <2>2. PICK k : k = i + 1
    OBVIOUS
  <2>3. k \in 1..K /\ k \in 1..Len(q) /\ k - 1 = i /\ k \in Nat /\ k + 1 \in 1..L /\ (k + 1) - 1 = k
    BY <1>3, <2>1, <2>2
  <2>4. T[k] = halfway(M, q, W, k - 1)
    BY <2>1, <2>2, <2>3
  <2>5. PICK e : e = w[k + 1]
    OBVIOUS
  <2>6. e = persisted(Log!NodeEvent(q[k], M[q[k]]))
    BY <2>3, <2>5
  <2>7. applyEventToGraph(halfway(M, q, W, k - 1), e) = halfway(M, q, W, k)
    BY <2>3, <2>6, HalfwayStep
  <2> QED
    BY <1>2, <2>2, <2>3, <2>4, <2>5, <2>7
<1> HIDE DEF S
<1>6. S = Nat
  <2>1. S \in SUBSET Nat
    BY DEF S
  <2> QED
    BY <1>4, <1>5, <2>1, SetInduction
<1> QED
  BY <1>3, <1>6 DEF S

\* r is a, then s, then t.
Framed(r, a, s, t) ==
  /\ Len(s) \in Nat /\ Len(t) \in Nat /\ DOMAIN r = 1..(Len(s) + 1 + Len(t))
  /\ r[1] = a
  /\ \A i \in 1..Len(s) : r[i + 1] = s[i]
  /\ \A i \in 1..Len(t) : r[Len(s) + 1 + i] = t[i]

\* The positions of an element before and a sequence after another.
LEMMA FramedPositions ==
  ASSUME NEW S, NEW a \in S, NEW s \in Seq(S), NEW t \in Seq(S), NEW r, r = <<a>> \o s \o t
  PROVE  Framed(r, a, s, t)
<1>1. PICK b, u : b = <<a>> /\ u = b \o s
  OBVIOUS
<1>2. b \in Seq(S) /\ Len(b) = 1 /\ b[1] = a
  BY <1>1
<1>3. /\ u \in Seq(S) /\ Len(s) \in Nat /\ Len(u) = 1 + Len(s) /\ u[1] = a
      /\ \A i \in 1..Len(s) : u[1 + i] = s[i]
  BY <1>1, <1>2, ConcatPositions
<1>4. r = u \o t
  BY <1>1
<1>5. /\ Len(t) \in Nat /\ DOMAIN r = 1..(Len(u) + Len(t))
      /\ \A i \in 1..Len(u) : r[i] = u[i]
      /\ \A i \in 1..Len(t) : r[Len(u) + i] = t[i]
  BY <1>3, <1>4, ConcatPositions
<1>6. \A i \in 1..Len(s) : i + 1 \in 1..Len(u) /\ i + 1 = 1 + i
  BY <1>3
<1>7. 1 \in 1..Len(u) /\ Len(u) = Len(s) + 1
  BY <1>3
<1> QED
  BY <1>3, <1>5, <1>6, <1>7 DEF Framed

\* The reason of an ended session is one that End was given.
LEMMA EndedForAReason ==
  ASSUME TypeOK, LogMatchesFields, started, closed
  PROVE  endReason \in Reason
<1>2. events[Len(events)] = Log!EndedEvent(endReason, terminalNodeID)
  BY DEF LogMatchesFields
<1>3. events # << >>
  BY DEF LogMatchesFields
<1>4. Len(events) \in DOMAIN events
  BY <1>3 DEF TypeOK
<1>5. PICK e \in Event : e = events[Len(events)]
  BY <1>4 DEF TypeOK
<1>6. e.kind = "session.ended" /\ e.reason = endReason
  BY <1>2, <1>5 DEF Log!EndedEvent
<1> QED
  BY <1>5, <1>6 DEF Event

\* The nodes of an order that has them all are the nodes.
LEMMA WholePart ==
  ASSUME NEW M, M = [n \in DOMAIN M |-> M[n]], NEW q, InOrder(M, q)
  PROVE  partOf(M, q, Len(q)) = M
<1>1. q \in Seq(DOMAIN M) /\ ToSet(q) = DOMAIN M
  BY DEF InOrder
<1>2. DOMAIN q = 1..Len(q)
  BY <1>1
<1>3. {q[j] : j \in 1..Len(q)} = DOMAIN M
  BY <1>1, <1>2, Zenon DEF ToSet
<1> QED
  BY <1>3 DEF partOf

\* What a synthesized log is replayed into.
LEMMA SynthesizedGraph ==
  ASSUME IInv, ReferencesHold, started, NEW log \in SynthesizeEvents(Live)
  PROVE  \E q : /\ InOrder(nodes, q)
                /\ RestoreFromEvents(persistedLog(log)) =
                     graphOf(TRUE, closed, nodes, wired(nodes, q), lastOf(q, Len(q)),
                             terminalNodeID, endReason)
<1> USE DEF IInv
<1>1. PICK M : M = nodes
  OBVIOUS
<1>2. Live.nodes = M /\ Live.closed = closed /\ Live.endReason = endReason /\ Live.terminalNodeID = terminalNodeID
  BY <1>1 DEF Live
<1>3. PICK k \in sortsOf(M) :
        log = <<Log!StartEvent>>
                \o [i \in DOMAIN (IF cycleDetected(k) THEN << >> ELSE k.sorted) |->
                      Log!NodeEvent((IF cycleDetected(k) THEN << >> ELSE k.sorted)[i],
                                    M[(IF cycleDetected(k) THEN << >> ELSE k.sorted)[i]])]
                \o (IF closed THEN <<Log!EndedEvent(endReason, terminalNodeID)>> ELSE << >>)
  BY <1>2, Zenon DEF SynthesizeEvents
<1>4. ~cycleDetected(k) /\ InOrder(nodes, k.sorted)
  BY <1>1, <1>3, SortsInOrder
<1>5. PICK q : q = k.sorted
  OBVIOUS
<1>6. PICK E : E = [i \in DOMAIN q |-> Log!NodeEvent(q[i], M[q[i]])]
  OBVIOUS
<1>7. PICK end : end = IF closed THEN <<Log!EndedEvent(endReason, terminalNodeID)>> ELSE << >>
  OBVIOUS
<1>8. log = <<Log!StartEvent>> \o E \o end
  BY <1>3, <1>4, <1>5, <1>6, <1>7, Zenon
<1>9. InOrder(M, q) /\ q \in Seq(DOMAIN M) /\ DOMAIN q = 1..Len(q) /\ Len(q) \in Nat
  <2>1. InOrder(M, q)
    BY <1>1, <1>4, <1>5
  <2>2. q \in Seq(DOMAIN M)
    BY <2>1 DEF InOrder
  <2> QED
    BY <2>1, <2>2
<1>10. E \in Seq(Event) /\ Len(E) = Len(q) /\ \A i \in 1..Len(q) : E[i] = Log!NodeEvent(q[i], M[q[i]])
  <2>1. ASSUME NEW i \in 1..Len(q) PROVE Log!NodeEvent(q[i], M[q[i]]) \in Event
    <3>1. q[i] \in ID /\ M[q[i]] \in Node
      BY <1>1, <1>9 DEF TypeOK
    <3> QED
      BY <3>1, EventKinds
  <2>2. E \in [1..Len(q) -> Event]
    BY <1>6, <1>9, <2>1
  <2> QED
    BY <1>6, <1>9, <2>2
<1>11. Log!StartEvent \in Event
  BY EventKinds
<1>12. closed => endReason \in Reason /\ Log!EndedEvent(endReason, terminalNodeID) \in Event
  BY EndedForAReason, EventKinds DEF TypeOK
<1>13. end \in Seq(Event) /\ (closed => Len(end) = 1 /\ end[1] = Log!EndedEvent(endReason, terminalNodeID))
         /\ (~closed => Len(end) = 0)
  BY <1>7, <1>12
<1>14. /\ DOMAIN log = 1..(Len(q) + 1 + Len(end)) /\ Len(end) \in Nat
       /\ log[1] = Log!StartEvent
       /\ \A i \in 1..Len(q) : log[i + 1] = Log!NodeEvent(q[i], M[q[i]])
       /\ \A i \in 1..Len(end) : log[Len(q) + 1 + i] = end[i]
  <2>1. PICK a, r : a = Log!StartEvent /\ r = log
    OBVIOUS
  <2>2. r = <<a>> \o E \o end /\ a \in Event
    BY <1>8, <1>11, <2>1
  <2>3. Framed(r, a, E, end)
    BY <1>10, <1>13, <2>2, FramedPositions
  <2> QED
    BY <1>10, <2>1, <2>3 DEF Framed
<1>15. PICK L : L = Len(q) + 1 + Len(end)
  OBVIOUS
<1>16. PICK w : w = persistedLog(log)
  OBVIOUS
<1>17. DOMAIN w = 1..L /\ \A i \in 1..L : w[i] = persisted(log[i])
  BY <1>14, <1>15, <1>16 DEF persistedLog
<1>18. L \in Nat /\ 1 \in 1..L /\ Len(q) + 1 <= L /\ (\A i \in 1..Len(q) : i + 1 \in 1..L)
  BY <1>9, <1>14, <1>15
<1>19. /\ w[1] = persisted(Log!StartEvent)
       /\ \A i \in 1..Len(q) : w[i + 1] = persisted(Log!NodeEvent(q[i], M[q[i]]))
  BY <1>14, <1>17, <1>18
<1>20. PICK T : IsReplay(w, L, T) /\ FoldLeft(applyEventToGraph, emptyGraph, w) = T[L]
  BY <1>17, <1>18, ReplaySteps
<1>21. PICK W : IsWiring(M, q, Len(q), W) /\ wired(M, q) = W[Len(q)]
  BY <1>9, WiringSteps
<1>22. T[Len(q) + 1] = halfway(M, q, W, Len(q))
  BY <1>9, <1>18, <1>19, <1>20, <1>21, HalfwayEnds
<1>23. PICK ch, h : ch = wired(M, q) /\ h = lastOf(q, Len(q))
  OBVIOUS
<1>24. M = [n \in DOMAIN M |-> M[n]]
  BY <1>1 DEF TypeOK
<1>25. T[Len(q) + 1] = openGraph(M, ch, h)
  BY <1>9, <1>21, <1>22, <1>23, <1>24, WholePart DEF halfway
<1>26. T[L] = graphOf(TRUE, closed, M, ch, h, terminalNodeID, endReason)
  <2>1. CASE closed
    <3>1. L = Len(q) + 2 /\ L \in 1..L /\ L - 1 = Len(q) + 1 /\ Len(q) + 1 + 1 = L /\ 1 \in 1..Len(end)
      <4>1. PICK m \in Nat : m = Len(q)
        BY <1>9
      <4>2. Len(end) = 1
        BY <1>13, <2>1
      <4>3. L = m + 1 + 1
        BY <1>15, <4>1, <4>2
      <4>4. L = m + 2 /\ L \in 1..L /\ L - 1 = m + 1
        BY <4>3
      <4> QED
        BY <4>1, <4>2, <4>3, <4>4
    <3>2. w[L] = persisted(Log!EndedEvent(endReason, terminalNodeID))
      BY <1>13, <1>14, <1>17, <2>1, <3>1
    <3>3. T[L] = applyEventToGraph(openGraph(M, ch, h), w[L])
      BY <1>20, <1>25, <3>1 DEF IsReplay
    <3>4. PICK r, t, e : r = endReason /\ t = terminalNodeID /\ e = w[L]
      OBVIOUS
    <3>5. r \in Reason /\ e = persisted(Log!EndedEvent(r, t))
      BY <1>12, <2>1, <3>2, <3>4
    <3>6. PICK s, c, x, none : s = TRUE /\ c = FALSE /\ x = NoID /\ none = "none"
      OBVIOUS
    <3>7. applyEventToGraph(graphOf(s, c, M, ch, h, x, none), e) = endedGraph(s, M, ch, h, t, r)
      BY <3>5, ReplayOneEnd
    <3>8. openGraph(M, ch, h) = graphOf(s, c, M, ch, h, x, none)
      BY <3>6, Zenon DEF openGraph
    <3>9. closed = TRUE
      BY <2>1 DEF TypeOK
    <3>10. endedGraph(s, M, ch, h, t, r) = graphOf(TRUE, closed, M, ch, h, t, r)
      BY <3>6, <3>9, Zenon DEF endedGraph
    <3> QED
      BY <3>3, <3>4, <3>7, <3>8, <3>10
  <2>2. CASE ~closed
    <3>1. L = Len(q) + 1
      BY <1>9, <1>13, <1>15, <2>2
    <3>2. closed = FALSE /\ terminalNodeID = NoID /\ endReason = "none"
      BY <2>2 DEF TypeOK, ReferencesHold
    <3>3. openGraph(M, ch, h) = graphOf(TRUE, closed, M, ch, h, terminalNodeID, endReason)
      BY <3>2, Zenon DEF openGraph
    <3> QED
      BY <1>25, <3>1, <3>3
  <2> QED
    BY <2>1, <2>2
<1>27. T[L].started = TRUE
  BY <1>26 DEF graphOf
<1>28. RestoreFromEvents(w) = T[L]
  BY <1>20, <1>27 DEF RestoreFromEvents
<1> QED
  BY <1>1, <1>9, <1>16, <1>23, <1>26, <1>28

\* The head of that graph is a leaf.
LEMMA LastIsLeaf ==
  ASSUME IInv, NEW q, InOrder(nodes, q), DOMAIN nodes # {}
  PROVE  lastOf(q, Len(q)) \in DOMAIN nodes /\ children[lastOf(q, Len(q))] = << >>
<1>1. PICK M : M = nodes
  OBVIOUS
<1>2. /\ q \in Seq(DOMAIN M) /\ IsInjective(q) /\ ToSet(q) = DOMAIN M /\ DOMAIN q = 1..Len(q) /\ Len(q) \in Nat
      /\ \A i \in DOMAIN q : \A p \in ToSet(M[q[i]].parents) : \E j \in 1..(i - 1) : q[j] = p
  BY <1>1 DEF InOrder
<1>3. DOMAIN q # {}
  BY <1>1, <1>2 DEF ToSet
<1>4. Len(q) \in DOMAIN q /\ Len(q) # 0
  BY <1>2, <1>3
<1>5. PICK last : last = q[Len(q)]
  OBVIOUS
<1>6. lastOf(q, Len(q)) = last /\ last \in DOMAIN M /\ last \in ID
  BY <1>1, <1>2, <1>4, <1>5 DEF lastOf, IInv, TypeOK
<1>7. PICK s : s = children[last]
  OBVIOUS
<1>8. s \in Seq(DOMAIN M) /\ ToSet(s) = {c \in DOMAIN M : last \in ToSet(M[c].parents)}
  BY <1>1, <1>6, <1>7, ChildrenAreDistinct
<1>9. ASSUME NEW c \in DOMAIN M, last \in ToSet(M[c].parents) PROVE FALSE
  <2>1. PICK i \in DOMAIN q : q[i] = c
    BY <1>2 DEF ToSet
  <2>2. PICK j \in 1..(i - 1) : q[j] = last
    BY <1>2, <1>9, <2>1
  <2>3. j \in DOMAIN q /\ j < Len(q)
    BY <1>2, <2>1, <2>2
  <2>4. j = Len(q)
    BY <1>2, <1>4, <1>5, <2>2, <2>3 DEF IsInjective
  <2> QED
    BY <1>2, <2>3, <2>4
<1>10. ToSet(s) = {}
  BY <1>8, <1>9
<1>11. s = << >>
  BY <1>8, <1>10 DEF ToSet
<1> QED
  BY <1>1, <1>6, <1>7, <1>11

\* A graph with another head.
LEMMA HeadReplaced ==
  ASSUME NEW s, NEW c, NEW n, NEW ch, NEW h, NEW t, NEW e, NEW head
  PROVE  [graphOf(s, c, n, ch, h, t, e) EXCEPT !.headID = head] = graphOf(s, c, n, ch, head, t, e)
<1>1. PICK g, b : g = graphOf(s, c, n, ch, h, t, e) /\ b = graphOf(s, c, n, ch, head, t, e)
  OBVIOUS
<1>2. PICK D : D = graphFields
  OBVIOUS
<1>3. PICK a : a = [g EXCEPT !.headID = head]
  OBVIOUS
<1>4. g = [d \in D |-> g[d]] /\ b = [d \in D |-> b[d]]
  BY <1>1, <1>2 DEF graphOf, graphFields
<1>5. a = [d \in D |-> a[d]] /\ \A d \in D : a[d] = IF d = "headID" THEN head ELSE g[d]
  BY <1>3, <1>4
<1>6. \A d \in D : a[d] = b[d]
  BY <1>1, <1>2, <1>5 DEF graphOf, graphFields
<1> QED
  BY <1>1, <1>3, <1>4, <1>5, <1>6

\* A synthesized log is replayed into the graph, its head replaced by a leaf.
LEMMA SynthesizedReplays ==
  ASSUME IInv, ReferencesHold, started, NEW log \in SynthesizeEvents(Live),
         NEW g, g = RestoreFromEvents(persistedLog(log))
  PROVE  /\ SameUpToSiblingOrder([g EXCEPT !.headID = headID], Live)
         /\ nodes # [n \in {} |-> NoID] => g.headID \in DOMAIN nodes /\ children[g.headID] = << >>
<1>1. PICK q : /\ InOrder(nodes, q)
               /\ g = graphOf(TRUE, closed, nodes, wired(nodes, q), lastOf(q, Len(q)),
                              terminalNodeID, endReason)
  BY SynthesizedGraph
<1>2. PICK yes, c, m, a, b, h, last, t, e :
        /\ yes = TRUE /\ c = closed /\ m = nodes /\ a = wired(m, q) /\ b = children
        /\ h = headID /\ last = lastOf(q, Len(q)) /\ t = terminalNodeID /\ e = endReason
  OBVIOUS
<1>3. g = graphOf(yes, c, m, a, last, t, e)
  BY <1>1, <1>2, Zenon
<1>4. SameSiblings(a, b)
  BY <1>1, <1>2, WiresTheChildren
<1>5. [g EXCEPT !.headID = h] = graphOf(yes, c, m, a, h, t, e)
  BY <1>3, HeadReplaced
<1>6. SameUpToSiblingOrder(graphOf(yes, c, m, a, h, t, e), graphOf(yes, c, m, b, h, t, e))
  BY <1>4, SiblingOrderOnly
<1>7. Live = graphOf(yes, c, m, b, h, t, e)
  <2>1. started = TRUE
    BY DEF IInv, TypeOK
  <2> QED
    BY <1>2, <2>1, LiveIs, Zenon
<1>8. SameUpToSiblingOrder([g EXCEPT !.headID = headID], Live)
  BY <1>2, <1>5, <1>6, <1>7
<1>9. ASSUME nodes # [n \in {} |-> NoID]
      PROVE  g.headID \in DOMAIN nodes /\ children[g.headID] = << >>
  <2>1. DOMAIN nodes # {}
    <3>1. nodes = [n \in DOMAIN nodes |-> nodes[n]]
      BY DEF IInv, TypeOK
    <3> QED
      BY <1>9, <3>1
  <2>2. g.headID = last
    BY <1>3 DEF graphOf
  <2> QED
    BY <1>1, <1>2, <2>1, <2>2, LastIsLeaf
<1> QED
  BY <1>8, <1>9

\* The log made up for a graph whose store keeps no events gives that graph back,
\* but for the order of siblings and a head that is a leaf of it.
THEOREM SynthesizedIsTheGraph ==
  ASSUME ExtraParents = {}
  PROVE  Spec => []SynthesizedLogReplays
<1>1. IInv /\ ReferencesHold => SynthesizedLogReplays
  BY SynthesizedReplays DEF SynthesizedLogReplays
<1> QED
  BY <1>1, Invariant, References, PTL

-----------------------------------------------------------------------------
(* Replaying a damaged log *)

\* Some of the nodes M, each with its parents.
PartWithParents(M, n) ==
  \A k \in DOMAIN n : k \in DOMAIN M /\ n[k] = M[k] /\ ToSet(M[k].parents) \subseteq DOMAIN n

\* A graph of such nodes, with its head among them; or none.
SoundGraph(M, g) ==
  \/ g = failed
  \/ \E s \in BOOLEAN : \E c, n, ch, h, t, e :
       /\ g = graphOf(s, c, n, ch, h, t, e)
       /\ PartWithParents(M, n) /\ h \in DOMAIN n \cup {NoID}

\* An event of a session with the nodes M.
EventOf(M, e) ==
  \/ e = Log!StartEvent
  \/ \E id \in DOMAIN M : e = Log!NodeEvent(id, M[id])
  \/ \E r \in Reason : \E t : e = Log!EndedEvent(r, t)

\* The events of a log are events of its session.
LEMMA EventsAreOf ==
  ASSUME TypeOK, LogMatchesFields, NEW i \in DOMAIN events
  PROVE  EventOf(nodes, events[i])
<1>1. PICK e \in Event : e = events[i]
  BY DEF TypeOK
<1>2. CASE e \in [kind : {"session.start"}]
  BY <1>1, <1>2 DEF EventOf, Log!StartEvent
<1>3. CASE e \in [kind : {"node.appended"}, id : ID, node : Node]
  <2>1. e.kind = "node.appended" /\ e = Log!NodeEvent(e.id, e.node)
    BY <1>3 DEF Log!NodeEvent
  <2>2. i \in NodeAt
    BY <1>1, <2>1 DEF NodeAt
  <2>3. e.id \in DOMAIN nodes /\ nodes[e.id] = e.node
    BY <1>1, <2>2 DEF LogMatchesFields
  <2> QED
    BY <1>1, <2>1, <2>3 DEF EventOf
<1>4. CASE e \in [kind : {"session.ended"}, reason : Reason, terminal : ID \cup {NoID}]
  <2>1. e.reason \in Reason /\ e = Log!EndedEvent(e.reason, e.terminal)
    BY <1>4 DEF Log!EndedEvent
  <2> QED
    BY <1>1, <2>1 DEF EventOf
<1> QED
  BY <1>1, <1>2, <1>3, <1>4 DEF Event

\* Replaying any of them leaves a sound graph sound.
LEMMA SoundStep ==
  ASSUME NEW M, NEW g, SoundGraph(M, g), NEW x, EventOf(M, x), NEW w, w = persisted(x)
  PROVE  SoundGraph(M, applyEventToGraph(g, w))
<1>1. CASE g = failed
  <2>1. g.err
    BY <1>1 DEF failed, emptyGraph
  <2> QED
    BY <1>1, <2>1 DEF applyEventToGraph, SoundGraph
<1>2. CASE g # failed
  <2>1. PICK s \in BOOLEAN : \E c, n, ch, h, t, e :
          /\ g = graphOf(s, c, n, ch, h, t, e)
          /\ PartWithParents(M, n) /\ h \in DOMAIN n \cup {NoID}
    BY <1>2 DEF SoundGraph
  <2>2. PICK c, n, ch, h, t, e :
          /\ g = graphOf(s, c, n, ch, h, t, e)
          /\ PartWithParents(M, n) /\ h \in DOMAIN n \cup {NoID}
    BY <2>1
  <2>3. ~g.err /\ g.started = s
    BY <2>2 DEF graphOf
  <2>4. CASE x = Log!StartEvent
    <3>1. CASE s
      <4>1. ClassifyEvent(w) = "session.start"
        BY <2>4, EventKindsRecovered DEF Reason
      <4>2. applyEventToGraph(g, w) = failed
        BY <2>3, <3>1, <4>1 DEF applyEventToGraph, applySessionStartEvent
      <4> QED
        BY <4>2 DEF SoundGraph
    <3>2. CASE ~s
      <4>1. g = graphOf(FALSE, c, n, ch, h, t, e)
        BY <2>2, <3>2, Zenon
      <4>2. applyEventToGraph(g, w) = graphOf(TRUE, c, n, ch, h, t, e)
        BY <2>4, <4>1, ReplayOneStart, Zenon
      <4>3. PICK yes \in BOOLEAN : yes = TRUE
        OBVIOUS
      <4>4. applyEventToGraph(g, w) = graphOf(yes, c, n, ch, h, t, e)
        BY <4>2, <4>3, Zenon
      <4> QED
        BY <2>2, <4>4 DEF SoundGraph
    <3> QED
      BY <3>1, <3>2
  <2>5. ASSUME NEW id \in DOMAIN M, x = Log!NodeEvent(id, M[id])
        PROVE  SoundGraph(M, applyEventToGraph(g, w))
    <3>1. PICK m : m = M[id]
      OBVIOUS
    <3>2. w = persisted(Log!NodeEvent(id, m))
      BY <2>5, <3>1
    <3>3. CASE ~s
      <4>1. ClassifyEvent(w) = "node.appended"
        BY <3>2, EventKindsRecovered DEF Reason
      <4>2. applyEventToGraph(g, w) = failed
        BY <2>3, <3>3, <4>1 DEF applyEventToGraph, applyNodeEvent
      <4> QED
        BY <4>2 DEF SoundGraph
    <3>4. CASE s
      <4>1. g = startedGraph(c, n, ch, h, t, e)
        BY <2>2, <3>4, Zenon DEF startedGraph
      <4>2. CASE ToSet(m.parents) \subseteq DOMAIN n
        <5>1. PICK k, l : k = withNode(n, id, m) /\ l = linkNodeParents(ch, id, m.parents)
          OBVIOUS
        <5>2. applyEventToGraph(g, w) = startedGraph(c, k, l, id, t, e)
          BY <3>2, <4>1, <4>2, <5>1, ReplayOneNode
        <5>3. PICK yes \in BOOLEAN : yes = TRUE
          OBVIOUS
        <5>4. applyEventToGraph(g, w) = graphOf(yes, c, k, l, id, t, e)
          BY <5>2, <5>3, Zenon DEF startedGraph
        <5>5. DOMAIN k = DOMAIN n \cup {id}
          BY <5>1 DEF withNode
        <5>6. ASSUME NEW v \in DOMAIN k
              PROVE  v \in DOMAIN M /\ k[v] = M[v] /\ ToSet(M[v].parents) \subseteq DOMAIN k
          <6>1. v \in DOMAIN n \/ v = id
            BY <5>5
          <6>2. k[v] = IF v = id THEN m ELSE n[v]
            BY <5>1, <5>5 DEF withNode
          <6>3. v \in DOMAIN n => v \in DOMAIN M /\ n[v] = M[v] /\ ToSet(M[v].parents) \subseteq DOMAIN n
            BY <2>2 DEF PartWithParents
          <6> QED
            BY <3>1, <4>2, <5>5, <6>1, <6>2, <6>3
        <5>7. PartWithParents(M, k) /\ id \in DOMAIN k \cup {NoID}
          BY <5>5, <5>6 DEF PartWithParents
        <5> QED
          BY <5>4, <5>7 DEF SoundGraph
      <4>3. CASE ~ToSet(m.parents) \subseteq DOMAIN n
        <5>1. applyEventToGraph(g, w) = failed
          BY <3>2, <4>1, <4>3, ReplayOneNode
        <5> QED
          BY <5>1 DEF SoundGraph
      <4> QED
        BY <4>2, <4>3
    <3> QED
      BY <3>3, <3>4
  <2>6. ASSUME NEW r \in Reason, NEW last, x = Log!EndedEvent(r, last)
        PROVE  SoundGraph(M, applyEventToGraph(g, w))
    <3>1. applyEventToGraph(g, w) = endedGraph(s, n, ch, h, last, r)
      BY <2>2, <2>6, ReplayOneEnd
    <3>2. PICK yes : yes = TRUE
      OBVIOUS
    <3>3. applyEventToGraph(g, w) = graphOf(s, yes, n, ch, h, last, r)
      BY <3>1, <3>2, Zenon DEF endedGraph
    <3> QED
      BY <2>2, <3>3 DEF SoundGraph
  <2> QED
    BY <2>4, <2>5, <2>6 DEF EventOf
<1> QED
  BY <1>1, <1>2

\* So any log made of them gives a sound graph, or none.
LEMMA SoundReplay ==
  ASSUME NEW M, NEW S, \A x \in S : EventOf(M, x), NEW log \in Seq(S)
  PROVE  SoundGraph(M, RestoreFromEvents(persistedLog(log)))
<1>1. PICK L \in Nat : L = Len(log)
  OBVIOUS
<1>2. DOMAIN log = 1..L /\ \A i \in 1..L : log[i] \in S
  BY <1>1
<1>3. PICK w : w = persistedLog(log)
  OBVIOUS
<1>4. DOMAIN w = 1..L /\ \A i \in 1..L : w[i] = persisted(log[i])
  BY <1>2, <1>3, Zenon DEF persistedLog
<1>5. PICK T : IsReplay(w, L, T) /\ FoldLeft(applyEventToGraph, emptyGraph, w) = T[L]
  BY <1>4, ReplaySteps
<1>6. T[0] = emptyGraph /\ \A i \in 1..L : T[i] = applyEventToGraph(T[i - 1], w[i])
  BY <1>5 DEF IsReplay
<1> DEFINE N == {i \in Nat : i <= L => SoundGraph(M, T[i])}
<1>7. 0 \in N
  <2>1. PICK no \in BOOLEAN : no = FALSE
    OBVIOUS
  <2>2. PICK n, ch : n = [x \in {} |-> NoID] /\ ch = [p \in ID |-> << >>]
    OBVIOUS
  <2>3. emptyGraph = graphOf(no, no, n, ch, NoID, NoID, "none")
    BY <2>1, <2>2, Zenon DEF emptyGraph, graphOf
  <2>4. PartWithParents(M, n) /\ NoID \in DOMAIN n \cup {NoID}
    BY <2>2 DEF PartWithParents
  <2>5. SoundGraph(M, emptyGraph)
    BY <2>3, <2>4 DEF SoundGraph
  <2> QED
    BY <1>6, <2>5
<1>8. ASSUME NEW i \in N PROVE i + 1 \in N
  <2>1. SUFFICES ASSUME i + 1 <= L PROVE SoundGraph(M, T[i + 1])
    OBVIOUS
  <2>2. PICK k : k = i + 1
    OBVIOUS
  <2>3. k \in 1..L /\ k - 1 = i /\ SoundGraph(M, T[k - 1])
    BY <2>1, <2>2
  <2>4. PICK g, x, v : g = T[k - 1] /\ x = log[k] /\ v = w[k]
    OBVIOUS
  <2>5. SoundGraph(M, g) /\ EventOf(M, x) /\ v = persisted(x)
    BY <1>2, <1>4, <2>3, <2>4
  <2>6. SoundGraph(M, applyEventToGraph(g, v))
    BY <2>5, SoundStep
  <2> QED
    BY <1>6, <2>2, <2>3, <2>4, <2>6
<1> HIDE DEF N
<1>9. N = Nat
  <2>1. N \in SUBSET Nat
    BY DEF N
  <2> QED
    BY <1>7, <1>8, <2>1, SetInduction
<1>10. SoundGraph(M, T[L])
  BY <1>9 DEF N
<1>11. SoundGraph(M, failed)
  BY DEF SoundGraph
<1> QED
  BY <1>3, <1>5, <1>10, <1>11 DEF RestoreFromEvents

\* A damaged log is made of the events of the log.
LEMMA DamagedOf ==
  ASSUME NEW S, NEW log \in Seq(S), NEW bad \in Damaged(log)
  PROVE  bad \in Seq(S)
<1>1. Len(log) \in Nat /\ DOMAIN log = 1..Len(log)
  OBVIOUS
<1>2. ASSUME NEW i \in DOMAIN log, bad = RemoveAt(log, i) PROVE bad \in Seq(S)
  <2>1. PICK s, t : s = SubSeq(log, 1, i - 1) /\ t = SubSeq(log, i + 1, Len(log))
    OBVIOUS
  <2>2. s \in Seq(S) /\ t \in Seq(S)
    BY <1>1, <2>1
  <2>3. bad = s \o t
    BY <1>2, <2>1 DEF RemoveAt
  <2> QED
    BY <2>2, <2>3, ConcatPositions
<1>3. ASSUME NEW i \in DOMAIN log, bad = InsertAt(log, i, log[i]) PROVE bad \in Seq(S)
  <2>1. PICK s, t, m : s = SubSeq(log, 1, i - 1) /\ t = SubSeq(log, i, Len(log)) /\ m = <<log[i]>>
    OBVIOUS
  <2>2. s \in Seq(S) /\ t \in Seq(S) /\ m \in Seq(S)
    BY <1>1, <2>1
  <2>3. bad = s \o m \o t
    BY <1>3, <2>1 DEF InsertAt
  <2>4. s \o m \in Seq(S)
    BY <2>2, ConcatPositions
  <2> QED
    BY <2>2, <2>3, <2>4, ConcatPositions
<1>4. ASSUME NEW i \in 1..(Len(log) - 1), bad = [log EXCEPT ![i] = log[i + 1], ![i + 1] = log[i]]
      PROVE  bad \in Seq(S)
  <2>1. i \in 1..Len(log) /\ i + 1 \in 1..Len(log)
    BY <1>1
  <2>2. log[i] \in S /\ log[i + 1] \in S
    BY <2>1
  <2>3. log \in [1..Len(log) -> S]
    BY <1>1
  <2>4. bad \in [1..Len(log) -> S]
    BY <1>4, <2>2, <2>3
  <2> QED
    BY <1>1, <2>4
<1> QED
  BY <1>2, <1>3, <1>4 DEF Damaged

\* A sound graph can be resumed everywhere.
LEMMA SoundResumes ==
  ASSUME IInv, NEW g, SoundGraph(nodes, g), ~g.err
  PROVE  /\ \A n \in DOMAIN g.nodes : resumeNodes(g.nodes, n) # << >>
         /\ g.headID \in DOMAIN g.nodes \cup {NoID}
<1> USE DEF IInv
<1>1. PICK M : M = nodes
  OBVIOUS
<1>2. g # failed
  BY DEF failed, emptyGraph
<1>3. PICK s \in BOOLEAN : \E c, n, ch, h, t, e :
        /\ g = graphOf(s, c, n, ch, h, t, e)
        /\ PartWithParents(M, n) /\ h \in DOMAIN n \cup {NoID}
  BY <1>1, <1>2 DEF SoundGraph
<1>4. PICK c, n, ch, h, t, e :
        /\ g = graphOf(s, c, n, ch, h, t, e)
        /\ PartWithParents(M, n) /\ h \in DOMAIN n \cup {NoID}
  BY <1>3
<1>5. g.nodes = n /\ g.headID = h
  BY <1>4 DEF graphOf
<1>6. PICK root : root = events[2].id
  OBVIOUS
<1>7. IsFiniteSet(DOMAIN M) /\ DOMAIN M \subseteq AnyID /\ \A v \in DOMAIN M : M[v].parents \in Seq(AnyID)
  BY <1>1, Places DEF TypeOK, AnyID, Node
<1>8. PICK place \in [DOMAIN M -> Int] :
        \A v \in DOMAIN M :
          /\ M[v].parents = << >> => v = root
          /\ \A p \in ToSet(M[v].parents) : p \in DOMAIN M /\ place[p] < place[v]
  BY <1>1, <1>6, Places
<1>9. PICK at : at = [v \in DOMAIN n |-> place[v]]
  OBVIOUS
<1>10. DOMAIN n \subseteq DOMAIN M /\ IsFiniteSet(DOMAIN n)
  BY <1>4, <1>7, FS_Subset DEF PartWithParents
<1>11. at \in [DOMAIN n -> Int] /\ \A v \in DOMAIN n : at[v] = place[v]
  BY <1>9, <1>10
<1>12. ASSUME NEW v \in DOMAIN n
       PROVE  /\ n[v].parents \in Seq(AnyID)
              /\ n[v].parents = << >> => v = root
              /\ \A p \in ToSet(n[v].parents) : p \in DOMAIN n /\ at[p] < at[v]
  <2>1. v \in DOMAIN M /\ n[v] = M[v] /\ ToSet(M[v].parents) \subseteq DOMAIN n
    BY <1>4 DEF PartWithParents
  <2> QED
    BY <1>7, <1>8, <1>11, <2>1
<1>13. Rooted(n, root, at)
  BY <1>7, <1>10, <1>11, <1>12 DEF Rooted
<1>14. \A v \in DOMAIN n : resumeNodes(n, v) # << >>
  BY <1>13, ResumesIn DEF IsLineage
<1> QED
  BY <1>4, <1>5, <1>14

\* A log with an event lost, delivered twice or swapped with its neighbour is
\* refused, or replayed into a graph every node of which can be resumed.
THEOREM DamageIsContained ==
  ASSUME ExtraParents = {}
  PROVE  Spec => []DamageNeverDangles
<1>1. IInv => DamageNeverDangles
  <2>1. SUFFICES ASSUME IInv, NEW log \in Damaged(events),
                        NEW g, g = RestoreFromEvents(persistedLog(log)), ~g.err
                 PROVE  /\ \A n \in DOMAIN g.nodes : resumeNodes(g.nodes, n) # << >>
                        /\ g.headID \in DOMAIN g.nodes \cup {NoID}
    BY DEF DamageNeverDangles
  <2>2. PICK M, S, q : M = nodes /\ S = ToSet(events) /\ q = events
    OBVIOUS
  <2>3. q \in Seq(S)
    <3>1. q \in Seq(Event)
      BY <2>1, <2>2 DEF IInv, TypeOK
    <3>2. \A i \in 1..Len(q) : q[i] \in S
      BY <2>2, <3>1 DEF ToSet
    <3> QED
      BY <3>1, <3>2
  <2>4. \A x \in S : EventOf(M, x)
    BY <2>1, <2>2, EventsAreOf DEF IInv, ToSet
  <2>5. log \in Seq(S)
    BY <2>1, <2>2, <2>3, DamagedOf
  <2>6. SoundGraph(M, g)
    BY <2>1, <2>4, <2>5, SoundReplay
  <2> QED
    BY <2>1, <2>2, <2>6, SoundResumes
<1> QED
  BY <1>1, Invariant, PTL

-----------------------------------------------------------------------------
(* The loop of topoSortNodes, for every set of finite node maps: cycles,     *)
(* references out of scope and equal timestamps included                     *)

\* The inductive invariant: the node map is one of the inputs, and SortInv.
RunInv == sorting.map \in NodeMaps /\ SortInv(sorting.map, sorting)

\* The maps the loop is given are finite.
LEMMA MapsAreFinite ==
  ASSUME NEW m \in NodeMaps
  PROVE  FiniteMap(m)
BY NodeMapsAssumption DEF FiniteMap

\* Both parts of the loop keep the invariant.
LEMMA RunInvariant == SortSpec => []RunInv
<1>1. ASSUME SortInit PROVE RunInv
  <2>1. PICK m \in NodeMaps : sorting \in beginSort(m)
    BY <1>1 DEF SortInit
  <2>2. SortInv(m, sorting)
    BY <2>1, MapsAreFinite, SortInvBegin
  <2> QED
    BY <2>2 DEF RunInv, SortInv
<1>2. ASSUME RunInv, [SortNext]_sorting PROVE RunInv'
  <2>1. CASE Step
    <3>1. PICK m, l : m = sorting.map /\ l = sorting'
      OBVIOUS
    <3>2. m \in NodeMaps /\ SortInv(m, sorting) /\ sorting.queue # << >> /\ l \in dequeue(sorting)
      BY <1>2, <2>1, <3>1 DEF RunInv, Step
    <3>3. SortInv(m, l)
      BY <3>2, MapsAreFinite, SortInvDequeue
    <3>4. l.map = m
      BY <3>3 DEF SortInv
    <3> QED
      BY <3>1, <3>2, <3>3, <3>4 DEF RunInv
  <2>2. CASE UNCHANGED sorting
    BY <1>2, <2>2 DEF RunInv
  <2> QED
    BY <1>2, <2>1, <2>2 DEF SortNext
<1> QED
  BY <1>1, <1>2, PTL DEF SortSpec

\* topoSortNodes, whatever nodes it is given: every turn keeps the types, the
\* degrees count the dependencies still to be sorted, and the queue holds the
\* nodes that wait for nothing, once each.
THEOREM LoopInvariant == SortSpec => []LoopInv
<1>1. RunInv => LoopInv
  BY DEF RunInv, SortInv, LoopInv, SortTypeOK, DegreesCountUnsorted, Nodes, Sorted
<1> QED
  BY <1>1, RunInvariant, PTL

\* The slice topoSortNodes builds is a topological order of its nodes at every
\* moment.
THEOREM TopologicalOrder == SortSpec => []SortedIsTopological
<1>1. RunInv => SortedIsTopological
  BY DEF RunInv, SortInv, SortedIsTopological
<1> QED
  BY <1>1, RunInvariant, PTL

\* topoSortNodes returns errCycleDetected for exactly the inputs with a cycle.
THEOREM CycleIsReported == SortSpec => []ErrorIffCycle
<1>1. ASSUME RunInv, Done
      PROVE  cycleDetected(sorting) <=> Cyclic(sorting.map)
  <2>1. FiniteMap(sorting.map) /\ SortInv(sorting.map, sorting)
    BY <1>1, MapsAreFinite DEF RunInv
  <2>2. ASSUME cycleDetected(sorting) PROVE Cyclic(sorting.map)
    <3> DEFINE S == DOMAIN sorting.map \ ToSet(sorting.sorted)
    <3>1. ToSet(sorting.sorted) # DOMAIN sorting.map
      BY <2>1, <2>2, SortedAll
    <3>2. ToSet(sorting.sorted) \subseteq DOMAIN sorting.map
      BY <2>1, ToSetMember DEF SortInv
    <3>3. S # {} /\ S \in SUBSET DOMAIN sorting.map
      BY <3>1, <3>2
    <3>4. \A n \in S : depsInScope(sorting.map, n) \cap S # {}
      BY <1>1, <2>1, LeftOverIsCycle DEF Done
    <3> QED
      BY <3>3, <3>4 DEF Cyclic
  <2>3. ASSUME Cyclic(sorting.map) PROVE cycleDetected(sorting)
    <3>1. PICK S \in SUBSET DOMAIN sorting.map :
            S # {} /\ \A n \in S : depsInScope(sorting.map, n) \cap S # {}
      BY <2>3 DEF Cyclic
    <3>2. S \cap ToSet(sorting.sorted) = {}
      BY <2>1, <3>1, CycleIsNotSorted
    <3> QED
      BY <2>1, <3>1, <3>2, SortedAll
  <2> QED
    BY <2>2, <2>3
<1>2. RunInv => ErrorIffCycle
  BY <1>1 DEF ErrorIffCycle
<1> QED
  BY <1>2, RunInvariant, PTL

=============================================================================
