---------------------------- MODULE MCMathHarness ----------------------------
(***************************************************************************)
(* Small instances of MathHarness.                                         *)
(***************************************************************************)
EXTENDS MathHarness

TwoTools == <<"tool", "tool">>
Teleport == <<"teleport">>

Batches == {TwoTools, Teleport}

ProcessSymmetry == Permutations(Process)

=============================================================================
