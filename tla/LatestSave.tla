------------------------------ MODULE LatestSave ------------------------------
(***************************************************************************)
(* What the search preferences of a user promise: they are the content of  *)
(* one request, replaced as a whole, and never by an older request.        *)
(***************************************************************************)
EXTENDS Naturals

CONSTANTS User, Requests

VARIABLE pref   \* number of the request whose content is stored; 0: none

Init == pref = [u \in User |-> 0]

Save(u) == \E s \in 1..Requests : pref[u] < s /\ pref' = [pref EXCEPT ![u] = s]

Next == \E u \in User : Save(u)

Spec == Init /\ [][Next]_pref
===============================================================================
