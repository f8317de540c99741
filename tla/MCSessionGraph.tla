--------------------------- MODULE MCSessionGraph ---------------------------
(***************************************************************************)
(* Small instances of SessionGraph.  The node IDs are interchangeable.     *)
(***************************************************************************)
EXTENDS SessionGraph

CONSTANTS n1, n2, n3, n4, f1

FourIDs == {n1, n2, n3, n4}

ForeignIDs == {f1}

IDSymmetry == Permutations(ID)

=============================================================================
