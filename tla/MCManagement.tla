---------------------------- MODULE MCManagement ----------------------------
(***************************************************************************)
(* Small instances of Management.                                          *)
(***************************************************************************)
EXTENDS Management

=============================================================================
