--------------------------- MODULE MCListSessions ---------------------------
(***************************************************************************)
(* A small instance of ListSessions.  Session IDs are interchangeable.     *)
(***************************************************************************)
EXTENDS ListSessions

SessionSymmetry == Permutations(SessionID)

=============================================================================
