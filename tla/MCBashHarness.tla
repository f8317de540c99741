---------------------------- MODULE MCBashHarness ----------------------------
(***************************************************************************)
(* Small instances of BashHarness.                                         *)
(***************************************************************************)
EXTENDS BashHarness

TwoTools == <<"tool", "tool">>
ToolAndTeleport == <<"tool", "teleport">>

Batches == {TwoTools, ToolAndTeleport}
ToolBatches == {TwoTools}

=============================================================================
