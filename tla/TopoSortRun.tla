---------------------------- MODULE TopoSortRun -----------------------------
(***************************************************************************)
(* The loop of topoSortNodes as a state machine, one turn per step, from   *)
(* every node map of the constant NodeMaps: RestoreFromNodes hands it      *)
(* whatever a store returns, cycles and dangling references included.      *)
(***************************************************************************)
EXTENDS TopoSort

CONSTANT NodeMaps

ASSUME NodeMapsAssumption ==
  \A m \in NodeMaps :
    /\ IsFiniteSet(DOMAIN m)
    /\ \A n \in DOMAIN m : m[n].ts \in Nat /\ IsFiniteSet(m[n].deps)

VARIABLE sorting

SortInit == \E m \in NodeMaps : sorting \in beginSort(m)

Step == sorting.queue # << >> /\ sorting' \in dequeue(sorting)

SortNext == Step

\* The loop is sequential code: it runs on until its queue is empty.
SortSpec == SortInit /\ [][SortNext]_sorting /\ WF_sorting(SortNext)

-----------------------------------------------------------------------------

Nodes == DOMAIN sorting.map
Sorted == ToSet(sorting.sorted)
Done == sorting.queue = << >>

\* Type correctness of the maps and slices of topoSortNodes.
SortTypeOK ==
  /\ sorting.map \in NodeMaps
  /\ sorting.inDegree \in [Nodes -> Nat]
  /\ sorting.queue \in Seq(Nodes)
  /\ sorting.sorted \in Seq(Nodes)

\* The degree of a node counts its dependencies not sorted yet, and the queue
\* holds, once each, the nodes that wait for nothing: a node is queued when its
\* last dependency is sorted, never earlier, later or twice.
DegreesCountUnsorted ==
  /\ \A n \in Nodes : sorting.inDegree[n] = Cardinality(depsInScope(sorting.map, n) \ Sorted)
  /\ IsInjective(sorting.queue)
  /\ ToSet(sorting.queue) = {n \in Nodes \ Sorted : depsInScope(sorting.map, n) \subseteq Sorted}

\* What every turn of the loop of topoSortNodes keeps: the types of its maps and
\* slices, degrees that count what is still to come, and an exact queue.
LoopInv == SortTypeOK /\ DegreesCountUnsorted

\* The sorted sequence is a topological order at every moment: no node twice,
\* and every node after all of its dependencies.
SortedIsTopological ==
  /\ IsInjective(sorting.sorted)
  /\ \A i \in DOMAIN sorting.sorted :
       \A d \in depsInScope(sorting.map, sorting.sorted[i]) :
         \E j \in 1..(i - 1) : sorting.sorted[j] = d

\* A cycle: a set of nodes each of which depends on a node of the set.
Cyclic(m) ==
  \E S \in SUBSET DOMAIN m :
    S # {} /\ \A n \in S : depsInScope(m, n) \cap S # {}

\* errCycleDetected is returned exactly when the dependencies have a cycle.
ErrorIffCycle == Done => (cycleDetected(sorting) <=> Cyclic(sorting.map))

\* The loop ends.
Terminates == <>Done

=============================================================================
