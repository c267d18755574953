------------------------------ MODULE Tenancy -------------------------------
(***************************************************************************)
(* What tb_room_has_user promises as the rental history of the rooms: a     *)
(* stay begins open, in a room that has been approved, for a user who is    *)
(* not a house owner; it may end, once; nothing else about it ever changes; *)
(* and the stays of a room are forgotten together or not at all.            *)
(***************************************************************************)
EXTENDS FiniteSets

CONSTANTS Tenant, RoomId, RowId

VARIABLES
  stay,    \* the stays on record
  used,    \* keys of the stays there have ever been
  vetted   \* rooms approved so far

vars == <<stay, used, vetted>>

In(r) == {i \in DOMAIN stay : stay[i].room = r}

Init ==
  /\ stay = [i \in {} |-> i]
  /\ used = {}
  /\ vetted = {}

Vet(r) ==
  /\ vetted' = vetted \cup {r}
  /\ UNCHANGED <<stay, used>>

(* The owner of room r edits its members: the stays in out end, and stays   *)
(* with the keys in new begin.                                              *)
Settle(r, out, new) ==
  /\ out \subseteq In(r) /\ new \cap used = {}
  /\ new # {} => r \in vetted
  /\ DOMAIN stay' = DOMAIN stay \cup new
  /\ \A i \in DOMAIN stay :
       stay'[i] = [stay[i] EXCEPT !.open = @ /\ i \notin out]
  /\ \A i \in new : \E u \in Tenant : stay'[i] = [user |-> u, room |-> r, open |-> TRUE]
  /\ used' = used \cup new
  /\ UNCHANGED vetted

(* The rooms in R are removed.                                              *)
Purge(R) ==
  /\ stay' = [i \in DOMAIN stay \ UNION {In(r) : r \in R} |-> stay[i]]
  /\ UNCHANGED <<used, vetted>>

Next ==
  \/ \E r \in RoomId : Vet(r)
  \/ \E r \in RoomId : \E out, new \in SUBSET RowId : Settle(r, out, new)
  \/ \E R \in SUBSET RoomId : Purge(R)

Spec == Init /\ [][Next]_vars
=============================================================================
