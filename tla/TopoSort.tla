------------------------------ MODULE TopoSort ------------------------------
(***************************************************************************)
(* topoSortNodes of pkg/sgp/storage.go (Kahn's algorithm) as operators.    *)
(* A node map is a function from node IDs to [deps, ts]: the targets of    *)
(* the node's parent and branch_from edges, and its timestamp.             *)
(*                                                                         *)
(* A sort in progress is a record [map, inDegree, queue, sorted].  sort.   *)
(* Slice is not stable and Go iterates maps in random order, so nodes with *)
(* equal timestamps may come in any order: each operator returns the set   *)
(* of the states that can follow.                                          *)
(***************************************************************************)
EXTENDS Naturals, FiniteSets, SequencesExt

\* References to nodes outside the map are skipped.
depsInScope(m, n) == m[n].deps \cap DOMAIN m

\* edgesFrom[id]
edgesFrom(m, id) == {n \in DOMAIN m : id \in depsInScope(m, n)}

\* The orders that sorting S by timestamp can give.
byTimestamp(m, S) ==
  {q \in SetToSeqs(S) :
     \A i, j \in DOMAIN q : i < j => m[q[i]].ts <= m[q[j]].ts}

\* Mutant: references out of scope are counted.
beginSortCountingAll(m) ==
  LET deg == [n \in DOMAIN m |-> Cardinality(m[n].deps)]
  IN {[map |-> m, inDegree |-> deg, queue |-> q, sorted |-> << >>] :
        q \in byTimestamp(m, {n \in DOMAIN m : deg[n] = 0})}

\* The degree counting and the first queue.
beginSort(m) ==
  LET deg == [n \in DOMAIN m |-> Cardinality(depsInScope(m, n))]
  IN {[map |-> m, inDegree |-> deg, queue |-> q, sorted |-> << >>] :
        q \in byTimestamp(m, {n \in DOMAIN m : deg[n] = 0})}

\* Mutant: a node is queued when its first dependency is sorted.
dequeueAtFirstDependency(k) ==
  LET id == Head(k.queue)
      kids == edgesFrom(k.map, id)
      deg == [n \in DOMAIN k.map |-> IF n \in kids THEN k.inDegree[n] - 1
                                                   ELSE k.inDegree[n]]
  IN {[map |-> k.map, inDegree |-> deg, queue |-> Tail(k.queue) \o q,
       sorted |-> Append(k.sorted, id)] : q \in byTimestamp(k.map, kids)}

\* Mutant: a node nothing depends on is skipped before it is taken off.
dequeueUnlessLeaf(k) ==
  LET id == Head(k.queue)
      kids == edgesFrom(k.map, id)
      deg == [n \in DOMAIN k.map |-> IF n \in kids THEN k.inDegree[n] - 1
                                                   ELSE k.inDegree[n]]
  IN IF kids = {} THEN {k}
     ELSE {[map |-> k.map, inDegree |-> deg, queue |-> Tail(k.queue) \o q,
            sorted |-> Append(k.sorted, id)] :
             q \in byTimestamp(k.map, {n \in kids : deg[n] = 0})}

\* One turn of the loop: take the first of the queue, decrement the degree of
\* the nodes that depend on it, and queue those that reached 0.
dequeue(k) ==
  LET id == Head(k.queue)
      kids == edgesFrom(k.map, id)
      deg == [n \in DOMAIN k.map |-> IF n \in kids THEN k.inDegree[n] - 1
                                                   ELSE k.inDegree[n]]
  IN {[map |-> k.map, inDegree |-> deg, queue |-> Tail(k.queue) \o q,
       sorted |-> Append(k.sorted, id)] :
        q \in byTimestamp(k.map, {n \in kids : deg[n] = 0})}

\* Mutant: only a sort that got nowhere is reported.
nothingSorted(k) == DOMAIN k.map # {} /\ k.sorted = << >>

\* When the queue is empty, the nodes left over are reported as a cycle.
cycleDetected(k) == Len(k.sorted) # Cardinality(DOMAIN k.map)

\* The final states of sorting m: the whole of topoSortNodes.
topoSortNodes(m) ==
  LET runs[i \in Nat] ==
        IF i = 0 THEN beginSort(m)
        ELSE UNION {IF k.queue = << >> THEN {k} ELSE dequeue(k) : k \in runs[i-1]}
  IN runs[Cardinality(DOMAIN m)]

=============================================================================
