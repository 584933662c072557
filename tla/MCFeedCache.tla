---------------------------- MODULE MCFeedCache -----------------------------
(***************************************************************************)
(* A reader v and an author a, who may follow and block each other. Both   *)
(* read their home feed; only v reads a stories feed.                      *)
(***************************************************************************)
EXTENDS FeedCache

CONSTANTS v, a, l30

MCEntries == {<<v, "home">>, <<v, l30>>, <<a, "home">>}

=============================================================================
