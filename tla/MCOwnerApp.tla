----------------------------- MODULE MCOwnerApp -----------------------------
(* Small instances of OwnerApp for TLC: owners o1 and o2, tenants t1, t2.    *)
EXTENDS OwnerApp, TLC

CONSTANTS o1, o2, t1, t2, p1, p2

OneOwner  == {o1, t1, t2}
TwoOwners == {o1, o2, t1}
OneOwnerOneTenant == {o1, t1}
OneOwnerOneTenantRole == (o1 :> "OWNER" @@ t1 :> "MEMBER")
OneOwnerRole  == [u \in OneOwner  |-> IF u = o1 THEN "OWNER" ELSE "MEMBER"]
TwoOwnersRole == [u \in TwoOwners |-> IF u = t1 THEN "MEMBER" ELSE "OWNER"]
OnePhone  == (p1 :> o1)
TwoPhones == (p1 :> o1 @@ p2 :> o2)

(* Keys, exchanges and the tenants of an instance are interchangeable.       *)
Keys == Permutations(RoomId) \cup Permutations(RowId) \cup Permutations(Slot)
KeysAndTenants == Keys \cup Permutations({t1, t2})
=============================================================================
