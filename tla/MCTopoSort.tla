----------------------------- MODULE MCTopoSort -----------------------------
(***************************************************************************)
(* Inputs for TopoSortRun.                                                 *)
(***************************************************************************)
EXTENDS TopoSortRun

\* Every map on a subset of three IDs: self-references, cycles, references out
\* of scope, equal and inverted timestamps.
AllMaps ==
  UNION {[D -> [deps : SUBSET (1..3), ts : {1, 2}]] : D \in SUBSET (1..3)}

=============================================================================
