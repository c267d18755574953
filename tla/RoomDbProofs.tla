---------------------------- MODULE RoomDbProofs ----------------------------
(***************************************************************************)
(* Facts about the tables, the writes of the handlers and their execution,  *)
(* for the proofs of OwnerAppProofs.                                        *)
(***************************************************************************)
EXTENDS RoomServer, TLAPS

IsWrites(w) ==
  /\ Partial(w.role, User, Role)
  /\ Partial(w.room, RoomId, Room)
  /\ w.newRoom \subseteq Room
  /\ w.close \subseteq RowId
  /\ w.newRow \subseteq Stay
  /\ w.dropUser \subseteq User
  /\ w.dropRoom \subseteq RoomId
  /\ w.dropRow \subseteq RowId

Lodgers(d) == {d.row[i].user : i \in DOMAIN d.row}

(* What the writes of request q on snapshot d have to do with q and d.      *)
Traced(d, q, w) ==
  /\ \A u \in DOMAIN w.role :
       \/ u \in DOMAIN d.role /\ w.role[u] = d.role[u]
       \/ u \in Lodgers(d)
       \/ q.op = "edit" /\ u \in DOMAIN q.list /\ w.role[u] = q.list[u]
  /\ \A r \in DOMAIN w.room :
       \/ w.room[r].status = "PENDING"
       \/ q.op = "decide" /\ r = q.room /\ w.room[r].status = q.status
  /\ \A x \in w.newRoom : x.status = "PENDING"
  /\ \A x \in w.newRow : q.op = "edit" /\ x.room = q.room /\ x.user \in DOMAIN q.list
  /\ \A i \in w.close : q.op = "edit" /\ i \in RowsOf(d, q.room)
  /\ w.dropRow = RowsIn(d, w.dropRoom)
  /\ w.dropRoom # {} => q.op \in {"delete", "deleteUser"}

-----------------------------------------------------------------------------
(* Tables.                                                                  *)

LEMMA NothingFacts ==
  DOMAIN Nothing = {} /\ Partial(Nothing, User, Role) /\ Partial(Nothing, RoomId, Room)
BY DEF Nothing, Partial

LEMMA PartialAt ==
  ASSUME NEW f, NEW D, NEW R, Partial(f, D, R), NEW x \in DOMAIN f
  PROVE  x \in D /\ f[x] \in R
BY DEF Partial

LEMMA RowType ==
  ASSUME NEW d, IsDb(d), NEW i \in DOMAIN d.row
  PROVE  i \in RowId /\ d.row[i] \in Row
BY PartialAt DEF IsDb

LEMMA ResidentsType ==
  ASSUME NEW d, IsDb(d), NEW r
  PROVE  Residents(d, r) \subseteq User /\ Residents(d, r) \subseteq Lodgers(d)
BY RowType DEF Residents, OpenRows, RowsOf, Row, Lodgers

(* Only roles that differ from the snapshot's are written.                  *)
LEMMA DirtyFacts ==
  ASSUME NEW d, NEW roles, Partial(roles, User, Role)
  PROVE  /\ Partial(Dirty(d, roles), User, Role)
         /\ \A u \in DOMAIN Dirty(d, roles) :
              u \in DOMAIN roles /\ Dirty(d, roles)[u] = roles[u]
BY DEF Partial, Dirty

-----------------------------------------------------------------------------
(* The members of Request, by their operation.                              *)
LEMMA RequestCases ==
  ASSUME NEW q, IsRequest(q)
  PROVE  \/ q.op = "create" /\ q.by \in User /\ q.max \in Capacity
         \/ q.op = "update" /\ q.by \in User /\ q.room \in RoomId /\ q.max \in Capacity
         \/ q.op = "delete" /\ q.room \in RoomId
         \/ q.op = "edit" /\ q.room \in RoomId /\ Partial(q.list, User, Role)
         \/ q.op = "decide" /\ q.room \in RoomId /\ q.status \in Decision
         \/ q.op = "profile" /\ q.user \in User
         \/ q.op = "deleteUser" /\ q.user \in User
BY DEF IsRequest, IsEdit, IsList, Request

(* Every handler's writes are well typed, and are traced to the request     *)
(* and to the snapshot.                                                     *)
LEMMA WritesFacts ==
  ASSUME NEW d, IsDb(d), NEW q, IsRequest(q), Accepts(d, q)
  PROVE  IsWrites(WritesOf(d, q)) /\ Traced(d, q, WritesOf(d, q))
<1> DEFINE w == WritesOf(d, q)
<1>0. Partial(Nothing, User, Role) /\ Partial(Nothing, RoomId, Room) /\ DOMAIN Nothing = {}
  BY NothingFacts
<1>1. CASE q.op = "create"
  <2>1. w = CreateWrites(d, q)  BY <1>1 DEF WritesOf
  <2>2. [owner |-> q.by, max |-> q.max, status |-> "PENDING"] \in Room
    BY <1>1, RequestCases DEF Room, Status
  <2> HIDE DEF w
  <2>3. /\ w.role = Nothing /\ w.room = Nothing
        /\ w.newRoom = {[owner |-> q.by, max |-> q.max, status |-> "PENDING"]}
        /\ w.close = {} /\ w.newRow = {}
        /\ w.dropUser = {} /\ w.dropRoom = {} /\ w.dropRow = {}
    BY <2>1 DEF CreateWrites, NoWrites
  <2>4. IsWrites(w)  BY <2>2, <2>3, <1>0 DEF IsWrites
  <2>5. Traced(d, q, w)  BY <1>1, <2>3, <1>0 DEF Traced, RowsIn
  <2> QED  BY <2>4, <2>5 DEF w
<1>2. CASE q.op = "update"
  <2>1. w = UpdateWrites(d, q)  BY <1>2 DEF WritesOf
  <2>2. [owner |-> q.by, max |-> q.max, status |-> "PENDING"] \in Room /\ q.room \in RoomId
    BY <1>2, RequestCases DEF Room, Status
  <2> HIDE DEF w
  <2>3. /\ w.role = Nothing
        /\ w.room = [r \in {q.room} |-> [owner |-> q.by, status |-> "PENDING", max |-> q.max]]
        /\ w.newRoom = {} /\ w.close = {} /\ w.newRow = {}
        /\ w.dropUser = {} /\ w.dropRoom = {} /\ w.dropRow = {}
    BY <2>1 DEF UpdateWrites, NoWrites
  <2>4. Partial(w.room, RoomId, Room)  BY <2>2, <2>3 DEF Partial
  <2>5. IsWrites(w)  BY <2>3, <2>4, <1>0 DEF IsWrites
  <2>6. Traced(d, q, w)  BY <1>2, <2>3, <1>0 DEF Traced, RowsIn
  <2> QED  BY <2>5, <2>6 DEF w
<1>3. CASE q.op = "delete"
  <2>1. w = DeleteWrites(d, q)  BY <1>3 DEF WritesOf
  <2>2. Partial(Demoted(d, q.room), User, Role)
    BY ResidentsType DEF Partial, Role, Demoted
  <2>3. q.room \in RoomId  BY <1>3, RequestCases
  <2>4. RowsOf(d, q.room) \subseteq RowId  BY RowType DEF RowsOf
  <2> HIDE DEF w
  <2>5. /\ w.role = Dirty(d, Demoted(d, q.room)) /\ w.room = Nothing
        /\ w.newRoom = {} /\ w.close = {} /\ w.newRow = {} /\ w.dropUser = {}
        /\ w.dropRoom = {q.room} /\ w.dropRow = RowsOf(d, q.room)
    BY <2>1 DEF DeleteWrites, NoWrites
  <2>6. /\ Partial(w.role, User, Role)
        /\ \A u \in DOMAIN w.role : u \in DOMAIN Demoted(d, q.room)
    BY <2>2, <2>5, DirtyFacts
  <2>7. \A u \in DOMAIN w.role : u \in Lodgers(d)
    BY <2>6, ResidentsType DEF Demoted
  <2>8. IsWrites(w)  BY <2>3, <2>4, <2>5, <2>6, <1>0 DEF IsWrites
  <2>9. Traced(d, q, w)  BY <1>3, <2>5, <2>7, <1>0 DEF Traced, RowsIn, RowsOf
  <2> QED  BY <2>8, <2>9 DEF w
<1>4. CASE q.op = "edit"
  <2>1. w = EditWrites(d, q)  BY <1>4 DEF WritesOf
  <2>2. q.room \in RoomId /\ Partial(q.list, User, Role)  BY <1>4, RequestCases
  <2>3. Partial(Assigned(d, q), User, Role)
    BY <2>2, ResidentsType DEF Partial, Role, Assigned
  <2>4. MovedOut(d, q) \subseteq RowId /\ MovedOut(d, q) \subseteq RowsOf(d, q.room)
    BY RowType DEF MovedOut, OpenRows, RowsOf
  <2>5. MovedIn(d, q) \subseteq User /\ MovedIn(d, q) \subseteq DOMAIN q.list
    BY <2>2 DEF MovedIn, Partial
  <2> HIDE DEF w
  <2>6. /\ w.role = Dirty(d, Assigned(d, q)) /\ w.room = Nothing /\ w.newRoom = {}
        /\ w.close = MovedOut(d, q)
        /\ w.newRow = [user : MovedIn(d, q), room : {q.room}]
        /\ w.dropUser = {} /\ w.dropRoom = {} /\ w.dropRow = {}
    BY <2>1 DEF EditWrites, NoWrites
  <2>7. /\ Partial(w.role, User, Role)
        /\ \A u \in DOMAIN w.role : /\ u \in DOMAIN Assigned(d, q)
                                    /\ w.role[u] = Assigned(d, q)[u]
    BY <2>3, <2>6, DirtyFacts
  <2>8. \A u \in DOMAIN w.role :
          u \in Lodgers(d) \/ (u \in DOMAIN q.list /\ w.role[u] = q.list[u])
    BY <2>7, ResidentsType DEF Assigned
  <2>9. IsWrites(w)  BY <2>2, <2>4, <2>5, <2>6, <2>7, <1>0 DEF IsWrites, Stay
  <2>10. Traced(d, q, w)  BY <1>4, <2>4, <2>5, <2>6, <2>8, <1>0 DEF Traced, RowsIn
  <2> QED  BY <2>9, <2>10 DEF w
<1>5. CASE q.op = "decide"
  <2>1. w = DecideWrites(d, q)  BY <1>5 DEF WritesOf
  <2>2. q.room \in RoomId /\ q.room \in DOMAIN d.room /\ q.status \in Status
    BY <1>5, RequestCases DEF Accepts, Decision, Status
  <2>3. d.room[q.room] \in Room  BY <2>2, PartialAt DEF IsDb
  <2> HIDE DEF w
  <2>4. /\ w.role = Nothing
        /\ \/ w.room = Nothing
           \/ w.room = [r \in {q.room} |-> [d.room[r] EXCEPT !.status = q.status]]
        /\ w.newRoom = {} /\ w.close = {} /\ w.newRow = {}
        /\ w.dropUser = {} /\ w.dropRoom = {} /\ w.dropRow = {}
    BY <2>1 DEF DecideWrites, NoWrites
  <2>5. [d.room[q.room] EXCEPT !.status = q.status] \in Room  BY <2>2, <2>3 DEF Room
  <2>6. Partial(w.room, RoomId, Room)
    <3>1. CASE w.room = Nothing  BY <3>1, <1>0
    <3>2. CASE w.room = [r \in {q.room} |-> [d.room[r] EXCEPT !.status = q.status]]
      BY <3>2, <2>2, <2>5 DEF Partial
    <3> QED  BY <3>1, <3>2, <2>4
  <2>7. \A r \in DOMAIN w.room : r = q.room /\ w.room[r].status = q.status
    BY <2>3, <2>4, <1>0 DEF Room
  <2>8. IsWrites(w)  BY <2>4, <2>6, <1>0 DEF IsWrites
  <2>9. Traced(d, q, w)  BY <1>5, <2>4, <2>7, <1>0 DEF Traced, RowsIn
  <2> QED  BY <2>8, <2>9 DEF w
<1>6. CASE q.op = "profile"
  <2>1. w = ProfileWrites(d, q)  BY <1>6 DEF WritesOf
  <2>2. q.user \in DOMAIN d.role  BY <1>6 DEF Accepts
  <2>3. q.user \in User /\ d.role[q.user] \in Role  BY <2>2, PartialAt DEF IsDb
  <2> HIDE DEF w
  <2>4. /\ w.role = [u \in {q.user} |-> d.role[u]] /\ w.room = Nothing
        /\ w.newRoom = {} /\ w.close = {} /\ w.newRow = {}
        /\ w.dropUser = {} /\ w.dropRoom = {} /\ w.dropRow = {}
    BY <2>1 DEF ProfileWrites, NoWrites
  <2>5. Partial(w.role, User, Role)  BY <2>3, <2>4 DEF Partial
  <2>6. IsWrites(w)  BY <2>4, <2>5, <1>0 DEF IsWrites
  <2>7. Traced(d, q, w)  BY <1>6, <2>2, <2>4, <1>0 DEF Traced, RowsIn
  <2> QED  BY <2>6, <2>7 DEF w
<1>7. CASE q.op = "deleteUser"
  <2>1. w = DeleteUserWrites(d, q)  BY <1>7 DEF WritesOf
  <2>2. q.user \in User  BY <1>7, RequestCases
  <2> DEFINE R == RoomsOf(d, q.user)
  <2>3. Leads(d, R) \subseteq User /\ Leads(d, R) \subseteq Lodgers(d)
    BY DEF Leads, IsDb, Partial, RowsIn, Lodgers
  <2>4. R \subseteq RoomId  BY DEF RoomsOf, IsDb, Partial
  <2>5. RowsIn(d, R) \subseteq RowId  BY RowType DEF RowsIn
  <2> HIDE DEF w
  <2>6. /\ w.role = [u \in Leads(d, R) |-> "MEMBER"] /\ w.room = Nothing
        /\ w.newRoom = {} /\ w.close = {} /\ w.newRow = {} /\ w.dropUser = {q.user}
        /\ w.dropRoom = R /\ w.dropRow = RowsIn(d, R)
    BY <2>1 DEF DeleteUserWrites, NoWrites
  <2> HIDE DEF R
  <2>7. Partial(w.role, User, Role)  BY <2>3, <2>6 DEF Partial, Role
  <2>8. IsWrites(w)  BY <2>2, <2>4, <2>5, <2>6, <2>7, <1>0 DEF IsWrites
  <2>9. Traced(d, q, w)  BY <1>7, <2>3, <2>6, <1>0 DEF Traced
  <2> QED  BY <2>8, <2>9 DEF w
<1> QED  BY <1>1, <1>2, <1>3, <1>4, <1>5, <1>6, <1>7, RequestCases

-----------------------------------------------------------------------------
(* n is d after the writes w, row by row; newRooms and newRows are the keys  *)
(* of the inserted rows.                                                    *)
After(n, d, w, used, newRooms, newRows) ==
  /\ n = [role |-> n.role, room |-> n.room, row |-> n.row]
  /\ n.role = [u \in DOMAIN n.role |-> n.role[u]]
  /\ DOMAIN n.role = DOMAIN d.role \ w.dropUser
  /\ \A u \in DOMAIN n.role :
       n.role[u] = IF u \in DOMAIN w.role THEN w.role[u] ELSE d.role[u]
  /\ n.room = [r \in DOMAIN n.room |-> n.room[r]]
  /\ DOMAIN n.room = (DOMAIN d.room \ w.dropRoom) \cup newRooms
  /\ \A r \in DOMAIN n.room :
       IF r \in newRooms
       THEN r \in RoomId \ used.room /\ n.room[r] \in w.newRoom
       ELSE n.room[r] = IF r \in DOMAIN w.room THEN w.room[r] ELSE d.room[r]
  /\ n.row = [i \in DOMAIN n.row |-> n.row[i]]
  /\ DOMAIN n.row = (DOMAIN d.row \ w.dropRow) \cup newRows
  /\ \A i \in DOMAIN n.row :
       IF i \in newRows
       THEN i \in RowId \ used.row /\
            \E x \in w.newRow : n.row[i] = [user |-> x.user, room |-> x.room, open |-> TRUE]
       ELSE n.row[i] = [d.row[i] EXCEPT !.open = @ /\ i \notin w.close]

(* The database after the writes.                                           *)
LEMMA ApplyFacts ==
  ASSUME NEW d, IsDb(d), NEW w, IsWrites(w), NEW used,
         NEW roomKey \in Fresh(w.newRoom, RoomId, used.room),
         NEW rowKey \in Fresh(w.newRow, RowId, used.row)
  PROVE  After(Apply(d, w, roomKey, rowKey), d, w, used,
               {roomKey[x] : x \in w.newRoom}, {rowKey[x] : x \in w.newRow})
<1> DEFINE n == Apply(d, w, roomKey, rowKey)
           newRooms == {roomKey[x] : x \in w.newRoom}
           newRows  == {rowKey[x] : x \in w.newRow}
           Made(key, S, k) == CHOOSE x \in S : key[x] = k
           Stays(i) == IF i \in newRows
                       THEN [user |-> Made(rowKey, w.newRow, i).user,
                             room |-> Made(rowKey, w.newRow, i).room, open |-> TRUE]
                       ELSE [d.row[i] EXCEPT !.open = @ /\ i \notin w.close]
           Holds(r) == IF r \in newRooms THEN Made(roomKey, w.newRoom, r)
                       ELSE IF r \in DOMAIN w.room THEN w.room[r] ELSE d.room[r]
<1>1. /\ n = [role |-> n.role, room |-> n.room, row |-> n.row]
      /\ n.role = [u \in DOMAIN d.role \ w.dropUser |->
                     IF u \in DOMAIN w.role THEN w.role[u] ELSE d.role[u]]
      /\ n.room = [r \in (DOMAIN d.room \ w.dropRoom) \cup newRooms |-> Holds(r)]
      /\ n.row = [i \in (DOMAIN d.row \ w.dropRow) \cup newRows |-> Stays(i)]
  BY DEF Apply
<1>2. roomKey \in [w.newRoom -> RoomId \ used.room] /\ rowKey \in [w.newRow -> RowId \ used.row]
  BY DEF Fresh
<1>3. \A r \in newRooms : r \in RoomId \ used.room /\ Made(roomKey, w.newRoom, r) \in w.newRoom
  BY <1>2
<1>4. \A i \in newRows : i \in RowId \ used.row /\ Made(rowKey, w.newRow, i) \in w.newRow
  BY <1>2
<1> HIDE DEF n, Made
<1>5. /\ DOMAIN n.room = (DOMAIN d.room \ w.dropRoom) \cup newRooms
      /\ \A r \in DOMAIN n.room :
           IF r \in newRooms
           THEN r \in RoomId \ used.room /\ n.room[r] \in w.newRoom
           ELSE n.room[r] = IF r \in DOMAIN w.room THEN w.room[r] ELSE d.room[r]
  BY <1>1, <1>3
<1>6. \A i \in DOMAIN n.row :
        IF i \in newRows
        THEN i \in RowId \ used.row /\
             \E x \in w.newRow : n.row[i] = [user |-> x.user, room |-> x.room, open |-> TRUE]
        ELSE n.row[i] = [d.row[i] EXCEPT !.open = @ /\ i \notin w.close]
  BY <1>1, <1>4
<1>7. /\ n.role = [u \in DOMAIN n.role |-> n.role[u]]
      /\ DOMAIN n.role = DOMAIN d.role \ w.dropUser
      /\ \A u \in DOMAIN n.role :
           n.role[u] = IF u \in DOMAIN w.role THEN w.role[u] ELSE d.role[u]
  BY <1>1
<1>8. n.room = [r \in DOMAIN n.room |-> n.room[r]]  BY <1>1
<1>9. /\ n.row = [i \in DOMAIN n.row |-> n.row[i]]
      /\ DOMAIN n.row = (DOMAIN d.row \ w.dropRow) \cup newRows
  BY <1>1
<1> QED  BY <1>1, <1>5, <1>6, <1>7, <1>8, <1>9 DEF n, After

(* Any such execution leaves well-typed tables.                             *)
LEMMA AfterType ==
  ASSUME NEW d, IsDb(d), NEW w, IsWrites(w), NEW used, NEW newRooms, NEW newRows, NEW n,
         After(n, d, w, used, newRooms, newRows)
  PROVE  IsDb(n)
<1>1. Partial(n.role, User, Role)
  <2>1. Partial(d.role, User, Role) /\ Partial(w.role, User, Role)  BY DEF IsDb, IsWrites
  <2> QED  BY <2>1 DEF Partial, After
<1>2. Partial(n.room, RoomId, Room)
  <2>1. /\ Partial(d.room, RoomId, Room) /\ Partial(w.room, RoomId, Room)
        /\ w.newRoom \subseteq Room
    BY DEF IsDb, IsWrites
  <2> QED  BY <2>1 DEF Partial, After
<1>3. Partial(n.row, RowId, Row)
  <2>1. ASSUME NEW i \in DOMAIN n.row  PROVE i \in RowId /\ n.row[i] \in Row
    <3>1. CASE i \in newRows
      <4>1. PICK x \in w.newRow : n.row[i] = [user |-> x.user, room |-> x.room, open |-> TRUE]
        BY <3>1 DEF After
      <4>2. x \in Stay  BY DEF IsWrites
      <4>3. i \in RowId  BY <3>1 DEF After
      <4> QED  BY <4>1, <4>2, <4>3 DEF Stay, Row
    <3>2. CASE i \notin newRows
      <4>1. i \in DOMAIN d.row  BY <3>2 DEF After
      <4>2. i \in RowId /\ d.row[i] \in Row  BY <4>1, RowType
      <4>3. n.row[i] = [d.row[i] EXCEPT !.open = @ /\ i \notin w.close]
        BY <3>2 DEF After
      <4> QED  BY <4>2, <4>3 DEF Row
    <3> QED  BY <3>1, <3>2
  <2> QED  BY <2>1 DEF Partial, After
<1>4. n = [role |-> n.role, room |-> n.room, row |-> n.row]  BY DEF After
<1> QED  BY <1>1, <1>2, <1>3, <1>4 DEF IsDb
=============================================================================
