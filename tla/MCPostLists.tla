----------------------------- MODULE MCPostLists -----------------------------
(* Small instances of PostLists for TLC: the listing NEWEST of two or three  *)
(* posts, latest first.                                                      *)
EXTENDS PostLists

ThreePosts == [newest |-> <<3, 2, 1>>]
=============================================================================
