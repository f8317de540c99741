--------------------------- MODULE MCCayleyStore ----------------------------
(***************************************************************************)
(* Small instances of CayleyStore.                                         *)
(***************************************************************************)
EXTENDS CayleyStore

=============================================================================
