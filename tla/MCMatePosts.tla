----------------------------- MODULE MCMatePosts ------------------------------
(* A small instance of MatePosts.                                            *)
EXTENDS MatePosts, TLC

(* Tenants, posts and transactions are interchangeable.                      *)
Names == Permutations(User) \cup Permutations(PostId) \cup Permutations(Slot)
===============================================================================
