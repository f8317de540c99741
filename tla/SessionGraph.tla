---------------------------- MODULE SessionGraph ----------------------------
(***************************************************************************)
(* The in-memory session graph of pkg/sgp/graph.go.  Every method holds    *)
(* graph.mu from its first check to its return, so each method is one      *)
(* action and concurrent callers are interleavings of actions.  A call     *)
(* that returns an error changes no field: it is a stuttering step, and    *)
(* the conditions of the early returns are the guards below.               *)
(*                                                                         *)
(* A node keeps what the code reads again: its Parent edges in order, its  *)
(* other edges as a set of <<kind, target>> links (nothing reads their     *)
(* order), the message subtype, the node kind that stands for the typed    *)
(* content, and the timestamp.  Event names, message text and the spawn    *)
(* reference are left out.                                                 *)
(***************************************************************************)
EXTENDS Naturals, FiniteSets, SequencesExt

CONSTANTS
  ID,            \* the node IDs idGenerator can return in this session
  Foreign,       \* IDs of nodes this graph never holds
  NoID,          \* the empty string
  Roles,         \* message subtypes that callers pass
  TypedKinds,    \* node kinds that callers of AppendTypedNode pass
  LinkKinds,     \* edge kinds other than parent that callers pass
  ExtraParents,  \* targets of parent edges in AppendTypedNode's edges
  Time,          \* values of time.Now().UTC()
  MaxRefs,       \* bound: IDs in one parentIDs argument
  MaxLinks       \* bound: links, and extra parents, of one typed node

Untyped == "untyped"          \* Kind "" of a node made by Append

ASSUME ConstantsAssumption ==
  /\ NoID \notin ID \cup Foreign
  /\ ID \cap Foreign = {}
  /\ Roles \subseteq {"system", "user", "assistant", "tool"}
  /\ ExtraParents \subseteq ID \cup Foreign
  /\ Time \subseteq Nat
  /\ MaxRefs \in Nat
  /\ MaxLinks \in Nat

Reason == {"complete", "failed"}

AnyID == ID \cup Foreign

Node == [parents : Seq(AnyID), links : SUBSET (LinkKinds \X AnyID),
         role : Roles, kind : TypedKinds \cup {Untyped}, ts : Time]

VARIABLES
  started, closed,   \* the lifecycle flags
  nodes,             \* node ID -> node, on the IDs appended so far
  children,          \* parent ID -> IDs of its children in append order
  headID,            \* the last appended node
  terminalNodeID,    \* headID when End was called
  endReason,
  events             \* the emitted events

vars == <<started, closed, nodes, children, headID, terminalNodeID,
          endReason, events>>

Log == INSTANCE SessionLog WITH log <- events

Init ==
  /\ started = FALSE /\ closed = FALSE
  /\ nodes = [n \in {} |-> NoID]
  /\ children = [p \in ID |-> << >>]
  /\ headID = NoID
  /\ terminalNodeID = NoID /\ endReason = "none"
  /\ events = << >>

-----------------------------------------------------------------------------
(* Writing operations *)

Start ==
  /\ ~closed /\ ~started
  /\ started' = TRUE
  /\ events' = Append(events, Log!StartEvent)
  /\ UNCHANGED <<closed, nodes, children, headID, terminalNodeID, endReason>>

\* Mutant: the existence check is missing.
validateWithoutExistence(ids) ==
  {out \in SeqOf(ToSet(ids), Len(ids)) :
     ToSet(out) = ToSet(ids) /\ IsInjective(out)}

\* The references that pass the empty and existence checks, first occurrences
\* in their order: one sequence, or none when a check fails.
validateNodeReferences(ids) ==
  { out \in SeqOf(DOMAIN nodes, Len(ids)) :
      /\ ToSet(out) = ToSet(ids)
      /\ \A i, j \in DOMAIN out : i < j =>
           \E k \in DOMAIN ids :
             /\ ids[k] = out[i]
             /\ \A m \in 1..k : ids[m] # out[j] }

\* Mutant: children is built anew from the parents of the new node.
linkOnlyTheParents(id, parents) ==
  [p \in ToSet(parents) |-> Append(children[p], id)]

\* Mutant: only the first parent gets the child.
linkFirstParent(id, parents) ==
  [p \in ID |-> IF parents # << >> /\ p = parents[1]
                THEN Append(children[p], id) ELSE children[p]]

\* children after linking id under each of its parents.
linkChildren(id, parents) ==
  [p \in ID |-> IF p \in ToSet(parents) THEN Append(children[p], id)
                                        ELSE children[p]]

\* Mutant: the ID generator repeats itself.
appendNodeAgain(id, parents, stored, emitted) ==
  /\ id \in ID
  /\ nodes' = [n \in DOMAIN nodes \cup {id} |->
                 IF n = id THEN stored ELSE nodes[n]]
  /\ children' = linkChildren(id, parents)
  /\ headID' = id
  /\ events' = Append(events, Log!NodeEvent(id, emitted))
  /\ UNCHANGED <<started, closed, terminalNodeID, endReason>>

\* appendNode for a node whose validated parents are given.  stored and
\* emitted are the node as left in graph.nodes and in the event: the same
\* node, unless a caller changes one of them before it unlocks.
appendNode(id, parents, stored, emitted) ==
  /\ id \in ID \ DOMAIN nodes
  /\ nodes' = [n \in DOMAIN nodes \cup {id} |->
                 IF n = id THEN stored ELSE nodes[n]]
  /\ children' = linkChildren(id, parents)
  /\ headID' = id
  /\ events' = Append(events, Log!NodeEvent(id, emitted))
  /\ UNCHANGED <<started, closed, terminalNodeID, endReason>>

\* Mutant: a second root is accepted.
appendAllowedWithoutParent(ids) == ~closed /\ started

\* Mutant: the closed flag is not checked.
appendAllowedAfterEnd(ids) == started /\ (ids = << >> => DOMAIN nodes = {})

\* The checks of appendNode that do not look at the references.
appendAllowed(ids) ==
  /\ ~closed
  /\ started
  /\ ids = << >> => DOMAIN nodes = {}

\* What the caller's parentIDs can come to, over all the calls that pass.
acceptedParents ==
  UNION {validateNodeReferences(ids) :
           ids \in {r \in SeqOf(AnyID \cup {NoID}, MaxRefs) : appendAllowed(r)}}

AppendMessage(id, role, ts, parents) ==
  LET node == [parents |-> parents, links |-> {}, role |-> role,
               kind |-> Untyped, ts |-> ts]
  IN appendNode(id, parents, node, node)

\* Mutant: the kind, content and edges are patched into the stored node only.
AppendTypedNodePatchedOnce(id, role, ts, parents, kind, extra, links) ==
  LET plain == [parents |-> parents, links |-> {}, role |-> role,
                kind |-> Untyped, ts |-> ts]
  IN appendNode(id, parents,
                [plain EXCEPT !.parents = parents \o extra, !.links = links, !.kind = kind],
                plain)

\* The edges argument is not validated.  Its parent edges become parents of
\* the node, after the validated ones, without an entry in children.
AppendTypedNode(id, role, ts, parents, kind, extra, links) ==
  LET node == [parents |-> parents \o extra, links |-> links,
               role |-> role, kind |-> kind, ts |-> ts]
  IN appendNode(id, parents, node, node)

\* Mutant: the event is made before the terminal node is recorded.
EndWithStaleTerminal(reason) ==
  /\ ~closed /\ started
  /\ closed' = TRUE
  /\ terminalNodeID' = headID
  /\ endReason' = reason
  /\ events' = Append(events, Log!EndedEvent(reason, terminalNodeID))
  /\ UNCHANGED <<started, nodes, children, headID>>

End(reason) ==
  /\ ~closed /\ started
  /\ closed' = TRUE
  /\ terminalNodeID' = headID
  /\ endReason' = reason
  /\ events' = Append(events, Log!EndedEvent(reason, headID))
  /\ UNCHANGED <<started, nodes, children, headID>>

\* A caller can only name nodes that exist: appendNode draws the new ID itself.
Nameable == DOMAIN nodes \cup Foreign

Links ==
  {l \in SUBSET (LinkKinds \X Nameable) : Cardinality(l) <= MaxLinks}

Next ==
  \/ Start
  \/ \E parents \in acceptedParents, id \in ID, role \in Roles, ts \in Time :
       \/ AppendMessage(id, role, ts, parents)
       \/ \E kind \in TypedKinds, links \in Links,
             extra \in SeqOf(ExtraParents \cap Nameable, MaxLinks) :
            AppendTypedNode(id, role, ts, parents, kind, extra, links)
  \/ \E reason \in Reason : End(reason)

Spec == Init /\ [][Next]_vars

-----------------------------------------------------------------------------
(* Reading operations, as functions of the maps they read *)

\* ResumeNodes: from n to the first parent, until a node without parents; the
\* IDs root first.  << >> stands for the error of a parent that is not there
\* (and for a walk that never ends).
resumeNodes(nodeMap, n) ==
  LET up[k \in Nat] ==
        IF k = 0 THEN n
        ELSE IF up[k-1] \in DOMAIN nodeMap /\ nodeMap[up[k-1]].parents # << >>
             THEN nodeMap[up[k-1]].parents[1]
             ELSE NoID
      isRoot(k) == up[k] \in DOMAIN nodeMap /\ nodeMap[up[k]].parents = << >>
      depths == {k \in 0..Cardinality(DOMAIN nodeMap) : isRoot(k)}
  IN IF depths = {} THEN << >>
     ELSE LET d == CHOOSE k \in depths : TRUE
          IN [i \in 1..(d + 1) |-> up[d + 1 - i]]

\* Mutant: one step down instead of a walk.
AdvanceHeadOnce(n) == IF Len(children[n]) = 1 THEN children[n][1] ELSE n

\* AdvanceHead: down from n while there is exactly one child.
AdvanceHead(n) ==
  LET down[k \in Nat] ==
        IF k = 0 THEN n
        ELSE IF Len(children[down[k-1]]) = 1 THEN children[down[k-1]][1]
             ELSE down[k-1]
  IN down[Cardinality(DOMAIN nodes)]

requiresResponse(role) == role \in {"user", "tool"}

NeedsResponse(n) == children[n] = << >> /\ requiresResponse(nodes[n].role)

-----------------------------------------------------------------------------
(* Properties *)

Event ==
  [kind : {"session.start"}]
    \cup [kind : {"node.appended"}, id : ID, node : Node]
    \cup [kind : {"session.ended"}, reason : Reason, terminal : ID \cup {NoID}]

\* Type correctness of the Graph fields (graph.go, type Graph).
TypeOK ==
  /\ started \in BOOLEAN /\ closed \in BOOLEAN
  /\ DOMAIN nodes \subseteq ID /\ nodes \in [DOMAIN nodes -> Node]
  /\ children \in [ID -> Seq(ID)]
  /\ headID \in ID \cup {NoID}
  /\ terminalNodeID \in ID \cup {NoID}
  /\ endReason \in Reason \cup {"none"}
  /\ events \in Seq(Event)

\* The positions in the log of the node events, and of the event of one node.
NodeAt == {i \in DOMAIN events : events[i].kind = "node.appended"}

EventsOf(n) == {i \in NodeAt : events[i].id = n}

\* The fields and the log tell the same story at every moment: the flags are
\* the log's first and last event, each stored node is the node of exactly one
\* event (AppendTypedNode rewrites both copies), headID is the node emitted
\* last, and a closed graph's terminal node and reason are the ones emitted.
LogMatchesFields ==
  /\ started <=> events # << >>
  /\ \A i \in DOMAIN events :
       /\ i = 1 <=> events[i].kind = "session.start"
       /\ events[i].kind = "session.ended" <=> closed /\ i = Len(events)
  /\ \A i \in NodeAt : events[i].id \in DOMAIN nodes
                        /\ nodes[events[i].id] = events[i].node
  /\ \A i, j \in NodeAt : events[i].id = events[j].id => i = j
  /\ \A n \in DOMAIN nodes : EventsOf(n) # {}
  /\ headID = NoID <=> NodeAt = {}
  /\ \A i \in NodeAt : (\A j \in NodeAt : j <= i) => headID = events[i].id
  /\ closed => events[Len(events)] = Log!EndedEvent(endReason, terminalNodeID)
                /\ terminalNodeID = headID

\* Every parent of a node was emitted before the node, and only the first node
\* has none: the parent edges have no cycle and one root.
ParentsPrecede ==
  \A i \in NodeAt :
    /\ events[i].node.parents = << >> <=> i = 2
    /\ \A k \in DOMAIN events[i].node.parents :
         \E j \in EventsOf(events[i].node.parents[k]) : j < i

\* children is the inverse of the parent edges: a child is listed once under
\* each of its parents, in the order of the log, and nothing else is listed.
\* NeedsResponse and AdvanceHead read children only.
ChildrenInvertParents ==
  \A p \in ID :
    /\ ToSet(children[p]) = {n \in DOMAIN nodes : p \in ToSet(nodes[n].parents)}
    /\ \A a, b \in DOMAIN children[p] : a < b =>
         \A i \in EventsOf(children[p][a]), j \in EventsOf(children[p][b]) : i < j

\* SPEC.md "Any node is a valid resumption point": from every node ResumeNodes
\* returns a lineage that starts at the only root and ends at the node.
EveryNodeResumes ==
  \A n \in DOMAIN nodes :
    LET line == resumeNodes(nodes, n)
    IN line # << >> /\ line[1] = events[2].id /\ line[Len(line)] = n

\* The doc of AdvanceHead: the walk ends at a node with no child over a parent
\* edge, or stops at a branch point; and only the former can need a response.
AdvanceHeadEndsAtLeafOrFork ==
  \A n \in DOMAIN nodes :
    LET leaf == AdvanceHead(n)
        kids == {c \in DOMAIN nodes : leaf \in ToSet(nodes[c].parents)}
    IN Cardinality(kids) # 1 /\ (NeedsResponse(leaf) => kids = {})

\* SPEC.md "Immutability" and "Append-only": no step, whoever takes it and
\* wherever it appends, changes or drops a node, an event or a child.
HistoryIsImmutable ==
  [][/\ \A n \in DOMAIN nodes : n \in DOMAIN nodes' /\ nodes'[n] = nodes[n]
     /\ IsPrefix(events, events')
     /\ \A p \in ID : IsPrefix(children[p], children'[p])]_vars

\* An ended session stays as it ended: no later call changes any field.
ClosedIsFinal == [][~closed]_vars

\* The graph implements the event log protocol of SessionLog.
ImplementsSessionLog == Log!Spec

=============================================================================
