---------------------------- MODULE MCLiveAgent -----------------------------
(***************************************************************************)
(* Small instances of LiveAgent: a call alone, and one beside a search.    *)
(***************************************************************************)
EXTENDS LiveAgent

Batches == {<<"grep_text">>, <<"grep_text", "spawn_subagent_search">>}

=============================================================================
