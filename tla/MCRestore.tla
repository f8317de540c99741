----------------------------- MODULE MCRestore ------------------------------
(***************************************************************************)
(* Small instances of Restore.                                             *)
(***************************************************************************)
EXTENDS Restore

CONSTANTS n1, n2, n3, n4, f1

FourIDs == {n1, n2, n3, n4}

ForeignIDs == {f1}

IDSymmetry == Permutations(ID)

=============================================================================
