---------------------------- MODULE MCAdkSession -----------------------------
(***************************************************************************)
(* A small instance of AdkSession; two users choose one session ID.        *)
(***************************************************************************)
EXTENDS AdkSession

CONSTANTS u1, u2, s1, s2

TwoUsers == {<<u1, s1>>, <<u2, s1>>, <<u2, s2>>}

CallerSymmetry == Permutations(Caller)

=============================================================================
