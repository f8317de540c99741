------------------------------ MODULE Restore -------------------------------
(***************************************************************************)
(* Leaving and re-entering memory, pkg/sgp/storage.go: what a graph looks  *)
(* like when it is rebuilt from an event log (RestoreFromEvents), from a   *)
(* set of nodes (RestoreFromNodes), or from the log made up for a graph    *)
(* whose store keeps no events (SynthesizeEvents).  These are functions;   *)
(* they are applied in every reachable state of SessionGraph, so to every  *)
(* log and every graph the library can produce.                            *)
(***************************************************************************)
EXTENDS SessionGraph, TopoSort

\* The fields of a Graph in one value.  err marks a restore that returned an
\* error, and no graph.
Live ==
  [started |-> started, closed |-> closed, nodes |-> nodes,
   children |-> children, headID |-> headID,
   terminalNodeID |-> terminalNodeID, endReason |-> endReason, err |-> FALSE]

emptyGraph ==
  [started |-> FALSE, closed |-> FALSE, nodes |-> [n \in {} |-> NoID],
   children |-> [p \in ID |-> << >>], headID |-> NoID,
   terminalNodeID |-> NoID, endReason |-> "none", err |-> FALSE]

failed == [emptyGraph EXCEPT !.err = TRUE]

-----------------------------------------------------------------------------
(* The event log *)

\* An event as a log holds it: Kind is not serialised, absent fields are empty.
\* node is << >> or <<id, node>>.
persisted(e) ==
  CASE e.kind = "session.start" ->
         [node |-> << >>, reason |-> "none", terminal |-> NoID]
    [] e.kind = "node.appended" ->
         [node |-> <<e.id, e.node>>, reason |-> "none", terminal |-> NoID]
    [] e.kind = "session.ended" ->
         [node |-> << >>, reason |-> e.reason, terminal |-> e.terminal]

\* Mutant: an end is recognised by its terminal node alone.
classifyByTerminal(w) ==
  IF w.node # << >> THEN "node.appended"
  ELSE IF w.terminal # NoID THEN "session.ended"
  ELSE "session.start"

ClassifyEvent(w) ==
  IF w.node # << >> THEN "node.appended"
  ELSE IF w.reason # "none" \/ w.terminal # NoID THEN "session.ended"
  ELSE "session.start"

applySessionStartEvent(g) ==
  IF g.started THEN failed ELSE [g EXCEPT !.started = TRUE]

\* Mutant: only the first parent gets the child.
linkFirstNodeParent(ch, id, parents) ==
  [p \in ID |-> IF parents # << >> /\ p = parents[1] THEN Append(ch[p], id) ELSE ch[p]]

\* One entry under a parent for each of the node's edges to it.
linkNodeParents(ch, id, parents) ==
  [p \in ID |-> ch[p] \o [k \in 1..Cardinality({j \in DOMAIN parents : parents[j] = p})
                            |-> id]]

\* Mutant: the parents of a replayed node are not looked up.
applyNodeEventUnchecked(g, id, node) ==
  IF ~g.started THEN failed
  ELSE [g EXCEPT !.nodes = [n \in DOMAIN g.nodes \cup {id} |->
                              IF n = id THEN node ELSE g.nodes[n]],
                 !.children = linkNodeParents(g.children, id, node.parents),
                 !.headID = id]

\* Before session.start the graph's session ID is empty, so a node's cannot
\* match it; the logs here are of one session, so afterwards it always does.
applyNodeEvent(g, id, node) ==
  IF ~g.started \/ ~ToSet(node.parents) \subseteq DOMAIN g.nodes THEN failed
  ELSE [g EXCEPT !.nodes = [n \in DOMAIN g.nodes \cup {id} |->
                              IF n = id THEN node ELSE g.nodes[n]],
                 !.children = linkNodeParents(g.children, id, node.parents),
                 !.headID = id]

applyEventToGraph(g, w) ==
  IF g.err THEN g
  ELSE CASE ClassifyEvent(w) = "session.start" -> applySessionStartEvent(g)
         [] ClassifyEvent(w) = "node.appended" ->
              applyNodeEvent(g, w.node[1], w.node[2])
         [] ClassifyEvent(w) = "session.ended" ->
              [g EXCEPT !.closed = TRUE, !.terminalNodeID = w.terminal,
                        !.endReason = w.reason]

\* An empty log, and one without session.start, are errors.
RestoreFromEvents(log) ==
  LET g == FoldLeft(applyEventToGraph, emptyGraph, log)
  IN IF g.started THEN g ELSE failed

-----------------------------------------------------------------------------
(* The node set *)

\* Mutant: a node waits for its first parent only.
firstParentOnly(node) ==
  IF node.parents = << >> THEN {} ELSE {node.parents[1]}

nodeDependencyIDs(node) ==
  ToSet(node.parents) \cup {l[2] : l \in {x \in node.links : x[1] = "branch_from"}}

sortsOf(nodeMap) ==
  topoSortNodes([n \in DOMAIN nodeMap |->
                   [deps |-> nodeDependencyIDs(nodeMap[n]), ts |-> nodeMap[n].ts]])

\* RestoreFromNodes, for each order the sort may have produced.
RestoreFromNodes(nodeMap, head, isClosed, reason, terminal) ==
  LET wire(ch, id) == linkNodeParents(ch, id, nodeMap[id].parents)
      restored(k) ==
        IF cycleDetected(k) THEN failed
        ELSE [started |-> TRUE, closed |-> isClosed, nodes |-> nodeMap,
              children |-> FoldLeft(wire, emptyGraph.children, k.sorted),
              headID |-> head,
              terminalNodeID |-> IF isClosed THEN terminal ELSE NoID,
              endReason |-> IF isClosed THEN reason ELSE "none", err |-> FALSE]
  IN {restored(k) : k \in sortsOf(nodeMap)}

\* SynthesizeEvents of a graph value.  The sort's error is ignored there, and
\* its nil slice gives a log without nodes.
SynthesizeEvents(g) ==
  LET order(k) == IF cycleDetected(k) THEN << >> ELSE k.sorted
      nodeEvents(k) == [i \in DOMAIN order(k) |->
                          Log!NodeEvent(order(k)[i], g.nodes[order(k)[i]])]
      ending == IF g.closed THEN <<Log!EndedEvent(g.endReason, g.terminalNodeID)>>
                ELSE << >>
  IN {<<Log!StartEvent>> \o nodeEvents(k) \o ending : k \in sortsOf(g.nodes)}

persistedLog(log) == [i \in DOMAIN log |-> persisted(log[i])]

-----------------------------------------------------------------------------
(* Properties *)

\* Two graphs that differ at most in the order of siblings.
SameUpToSiblingOrder(g, h) ==
  /\ [g EXCEPT !.children = << >>] = [h EXCEPT !.children = << >>]
  /\ \A p \in ID : /\ ToSet(g.children[p]) = ToSet(h.children[p])
                   /\ Len(g.children[p]) = Len(h.children[p])

\* RestoreFromEvents is the inverse of emitting: the log of a graph, its kinds
\* recovered from the fields alone, rebuilds that graph exactly, sibling order,
\* head, terminal node and closed flag included.
ReplayIsFaithful == started => RestoreFromEvents(persistedLog(events)) = Live

\* RestoreFromNodes rebuilds the same graph from its unordered nodes and the
\* stored head and end, whatever the timestamps and however ties are broken;
\* only siblings may change their order.
LoadIsFaithful ==
  started =>
    \A g \in RestoreFromNodes(nodes, headID, closed, endReason, terminalNodeID) :
      SameUpToSiblingOrder(g, Live)

\* A synthesized log is one that RestoreFromEvents accepts, and it gives back
\* the nodes, the children and the end.  The head of that graph is a leaf, and
\* the stored head when the session has only one leaf.
SynthesizedLogReplays ==
  started =>
    \A log \in SynthesizeEvents(Live) :
      LET g == RestoreFromEvents(persistedLog(log))
      IN /\ SameUpToSiblingOrder([g EXCEPT !.headID = headID], Live)
         /\ nodes # [n \in {} |-> NoID] => g.headID \in DOMAIN nodes
                                           /\ children[g.headID] = << >>

\* The logs a faulty store can hand back: one event lost, one delivered twice,
\* or two neighbours swapped.
Damaged(log) ==
  {RemoveAt(log, i) : i \in DOMAIN log}
    \cup {InsertAt(log, i, log[i]) : i \in DOMAIN log}
    \cup {[log EXCEPT ![i] = log[i + 1], ![i + 1] = log[i]] : i \in 1..(Len(log) - 1)}

\* No damaged log is replayed into a graph that cannot be resumed: either an
\* error is returned, or every node leads back to a root over nodes that are
\* there, and the head is one of them.
DamageNeverDangles ==
  \A log \in Damaged(events) :
    LET g == RestoreFromEvents(persistedLog(log))
    IN ~g.err => /\ \A n \in DOMAIN g.nodes : resumeNodes(g.nodes, n) # << >>
                 /\ g.headID \in DOMAIN g.nodes \cup {NoID}

=============================================================================
