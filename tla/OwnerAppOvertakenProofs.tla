----------------------- MODULE OwnerAppOvertakenProofs -----------------------
(***************************************************************************)
(* Theorems about OwnerApp with any number of overlapping handlers: a       *)
(* commit strands a ROOM_MASTER, or leaves a room without its one master,   *)
(* only if its handler was overtaken.  In the lemmas d is the snapshot of   *)
(* the handler, e the database at the commit, n the database after it.      *)
(***************************************************************************)
EXTENDS OwnerAppProofs

(* UpToDate, for any two databases.                                         *)
Agree(d, e, u) ==
  /\ u \in DOMAIN d.role /\ u \in DOMAIN e.role /\ d.role[u] = e.role[u]
  /\ HomesOf(d, u) = HomesOf(e, u)

-----------------------------------------------------------------------------
(* What a commit leaves, row by row.                                        *)

(* The rows that are inserted, one for each stay that begins.               *)
Inserted(n, w, key) ==
  \A x \in w.newRow : n.row[key[x]] = [user |-> x.user, room |-> x.room, open |-> TRUE]

LEMMA NewRows ==
  ASSUME NEW d, NEW w, IsWrites(w), NEW used,
         NEW roomKey, NEW rowKey \in Fresh(w.newRow, RowId, used.row)
  PROVE  Inserted(Apply(d, w, roomKey, rowKey), w, rowKey)
<1>0. PICK n : n = Apply(d, w, roomKey, rowKey)  OBVIOUS
<1> DEFINE newRows == {rowKey[x] : x \in w.newRow}
           Made(k) == CHOOSE x \in w.newRow : rowKey[x] = k
           Stays(i) == IF i \in newRows
                       THEN [user |-> Made(i).user, room |-> Made(i).room, open |-> TRUE]
                       ELSE [d.row[i] EXCEPT !.open = @ /\ i \notin w.close]
<1>1. n.row = [i \in (DOMAIN d.row \ w.dropRow) \cup newRows |-> Stays(i)]
  BY <1>0 DEF Apply
<1>2. /\ rowKey \in [w.newRow -> RowId \ used.row]
      /\ \A x, y \in w.newRow : rowKey[x] = rowKey[y] => x = y
  BY DEF Fresh
<1>3. ASSUME NEW x \in w.newRow PROVE rowKey[x] \in newRows /\ Made(rowKey[x]) = x
  BY <1>2
<1> HIDE DEF Made
<1>4. ASSUME NEW x \in w.newRow
      PROVE  n.row[rowKey[x]] = [user |-> x.user, room |-> x.room, open |-> TRUE]
  BY <1>1, <1>3
<1> QED  BY <1>0, <1>4 DEF Inserted

(* editMember: who is on the list, or was seen in the room, has the role    *)
(* assigned, unless the snapshot had it already; the rows of those who move *)
(* out are closed, and those who move in have a new one.                    *)
EditAfter(d, e, n, q) ==
  /\ \A u \in DOMAIN n.role :
       /\ u \in DOMAIN e.role
       /\ Agree(d, e, u) =>
            n.role[u] = IF u \in DOMAIN q.list THEN q.list[u]
                        ELSE IF u \in Residents(d, q.room) THEN "MEMBER" ELSE e.role[u]
  /\ DOMAIN e.row \subseteq DOMAIN n.row
  /\ \A i \in DOMAIN e.row :
       /\ n.row[i].user = e.row[i].user /\ n.row[i].room = e.row[i].room
       /\ n.row[i].open <=> e.row[i].open /\ i \notin MovedOut(d, q)
  /\ \A i \in DOMAIN n.row \ DOMAIN e.row :
       n.row[i].user \in MovedIn(d, q) /\ n.row[i].room = q.room /\ n.row[i].open
  /\ \A u \in MovedIn(d, q) : \E i \in DOMAIN n.row \ DOMAIN e.row : n.row[i].user = u

(* deleteRoom and deleteUser: the rows seen in the rooms R go, and whoever  *)
(* was seen to live there is no ROOM_MASTER.                                *)
RemoveAfter(d, e, n, q, R) ==
  /\ \A r \in DOMAIN n.room : r \notin R
  /\ DOMAIN n.row = DOMAIN e.row \ RowsIn(d, R)
  /\ \A i \in DOMAIN n.row : n.row[i] = e.row[i]
  /\ \A u \in DOMAIN n.role :
       /\ u \in DOMAIN e.role
       /\ n.role[u] # e.role[u] =>
            /\ n.role[u] = "MEMBER"
            /\ \E i \in RowsIn(d, R) : d.row[i].user = u
                                      /\ (q.op = "delete" => d.row[i].open)
       /\ Agree(d, e, u) /\ (\E i \in RowsIn(d, R) : d.row[i].user = u /\ d.row[i].open) =>
            n.role[u] # "MASTER"

(* The others: a role is at most put back to what was read.                 *)
KeepAfter(d, e, n) ==
  /\ n.row = e.row
  /\ \A u \in DOMAIN n.role :
       u \in DOMAIN e.role /\ (Agree(d, e, u) => n.role[u] = e.role[u])

(* The database a commit leaves, in the terms of After.                     *)
Executed(w) ==
  \E newRows, newRooms, key :
    /\ newRooms \cap spent.room = {} /\ newRows \cap spent.row = {}
    /\ w.newRoom = {} => newRooms = {}
    /\ After(db', db, w, spent, newRooms, newRows)
    /\ \A i \in newRows : \E x \in w.newRow : key[x] = i
    /\ \A x \in w.newRow :
         /\ key[x] \in newRows
         /\ db'.row[key[x]] = [user |-> x.user, room |-> x.room, open |-> TRUE]

LEMMA CommitAfter ==
  ASSUME Typed, NEW c \in Slot, Commit(c), NEW q, q = call[c].req,
         NEW d, d = call[c].snap, NEW w, w = WritesOf(d, q)
  PROVE  /\ IsRequest(q) /\ Accepts(d, q) /\ IsWrites(w) /\ IsDb(d) /\ IsDb(db)
         /\ ForeignKeys(db') /\ RowsStillThere(db, w)
         /\ Executed(w)
<1>2. /\ IsRequest(q) /\ Accepts(d, q) /\ IsWrites(w) /\ IsDb(d)
      /\ ForeignKeys(db') /\ RowsStillThere(db, w)
  BY CommitFacts DEF Typed, TypeOK
<1>3. IsDb(db)  BY DEF Typed, TypeOK, ServerTypeOK
<1>4. PICK roomKey \in Fresh(w.newRoom, RoomId, spent.room),
           rowKey \in Fresh(w.newRow, RowId, spent.row) :
        db' = Apply(db, w, roomKey, rowKey)
  BY DEF Commit
<1>5. PICK newRooms, newRows : newRooms = {roomKey[x] : x \in w.newRoom}
                               /\ newRows = {rowKey[x] : x \in w.newRow}
  OBVIOUS
<1>6. After(db', db, w, spent, newRooms, newRows)
  <2>1. After(Apply(db, w, roomKey, rowKey), db, w, spent, newRooms, newRows)
    BY <1>2, <1>3, <1>5, ApplyFacts, SMTT(60)
  <2> QED  BY <1>4, <2>1
<1>7. \A x \in w.newRow :
        db'.row[rowKey[x]] = [user |-> x.user, room |-> x.room, open |-> TRUE]
  <2>1. Inserted(Apply(db, w, roomKey, rowKey), w, rowKey)
    BY <1>2, NewRows
  <2> QED  BY <1>4, <2>1 DEF Inserted
<1>8. newRooms \cap spent.room = {} /\ newRows \cap spent.row = {}
  BY <1>5 DEF Fresh
<1>9. \A i \in newRows : \E x \in w.newRow : rowKey[x] = i  BY <1>5
<1>10. \A x \in w.newRow : rowKey[x] \in newRows  BY <1>5
<1>11. w.newRoom = {} => newRooms = {}  BY <1>5
<1>12. Executed(w)  BY <1>6, <1>7, <1>8, <1>9, <1>10, <1>11 DEF Executed
<1> QED  BY <1>2, <1>3, <1>12

LEMMA EditCommit ==
  ASSUME Typed, Recorded, NEW c \in Slot, Commit(c), call[c].req.op = "edit"
  PROVE  EditAfter(call[c].snap, db, db', call[c].req)
<1>0. PICK q, d, w, e, n :
        /\ q = call[c].req /\ d = call[c].snap /\ w = WritesOf(d, q) /\ e = db /\ n = db'
  OBVIOUS
<1>1. /\ q.op = "edit" /\ w = EditWrites(d, q) /\ IsDb(d) /\ IsDb(e)
      /\ IsList(q.list) /\ q.room \in RoomId
  BY <1>0, CommitAfter, RequestCases DEF WritesOf, IsList
<1>2. PICK newRows, newRooms, key :
        /\ After(n, e, w, spent, newRooms, newRows)
        /\ newRows \cap spent.row = {}
        /\ \A i \in newRows : \E x \in w.newRow : key[x] = i
        /\ \A x \in w.newRow :
             /\ key[x] \in newRows
             /\ n.row[key[x]] = [user |-> x.user, room |-> x.room, open |-> TRUE]
  <2>1. w = WritesOf(d, q) /\ q = call[c].req /\ d = call[c].snap  BY <1>0
  <2>2. Executed(w)  BY <2>1, CommitAfter
  <2> QED  BY <1>0, <2>2 DEF Executed
<1>3. /\ w.role = Dirty(d, Assigned(d, q))
      /\ w.close = MovedOut(d, q) /\ w.newRow = [user : MovedIn(d, q), room : {q.room}]
      /\ w.dropUser = {} /\ w.dropRow = {}
  BY <1>1 DEF EditWrites, NoWrites
<1>4. ASSUME NEW u \in DOMAIN n.role
      PROVE  /\ u \in DOMAIN e.role
             /\ Agree(d, e, u) =>
                  n.role[u] = IF u \in DOMAIN q.list THEN q.list[u]
                              ELSE IF u \in Residents(d, q.room) THEN "MEMBER" ELSE e.role[u]
  <2>1. /\ u \in DOMAIN e.role
        /\ n.role[u] = IF u \in DOMAIN w.role THEN w.role[u] ELSE e.role[u]
    BY <1>2, <1>3 DEF After
  <2> QED  BY <1>3, <2>1 DEF Dirty, Assigned, Agree
<1>5. DOMAIN n.row = DOMAIN e.row \cup newRows /\ newRows \cap DOMAIN e.row = {}
  BY <1>0, <1>2, <1>3 DEF After, Recorded
<1>6. ASSUME NEW i \in DOMAIN e.row
      PROVE  /\ n.row[i].user = e.row[i].user /\ n.row[i].room = e.row[i].room
             /\ n.row[i].open <=> e.row[i].open /\ i \notin MovedOut(d, q)
  <2>1. n.row[i] = [e.row[i] EXCEPT !.open = @ /\ i \notin w.close]
    BY <1>2, <1>5 DEF After
  <2>2. e.row[i] \in Row  BY <1>1, RowType
  <2> QED  BY <1>3, <2>1, <2>2 DEF Row
<1>7. ASSUME NEW i \in newRows
      PROVE  n.row[i].user \in MovedIn(d, q) /\ n.row[i].room = q.room /\ n.row[i].open
  <2>1. PICK x \in w.newRow : key[x] = i  BY <1>2
  <2>2. n.row[i] = [user |-> x.user, room |-> x.room, open |-> TRUE]  BY <1>2, <2>1
  <2>3. x.user \in MovedIn(d, q) /\ x.room = q.room  BY <1>3
  <2> QED  BY <2>2, <2>3
<1>8. ASSUME NEW u \in MovedIn(d, q) PROVE \E i \in newRows : n.row[i].user = u
  <2>1. [user |-> u, room |-> q.room] \in w.newRow  BY <1>3
  <2>2. PICK x \in w.newRow : x.user = u  BY <2>1
  <2>3. /\ key[x] \in newRows
        /\ n.row[key[x]] = [user |-> x.user, room |-> x.room, open |-> TRUE]
    BY <1>2
  <2>4. n.row[key[x]].user = u  BY <2>2, <2>3
  <2> QED  BY <2>3, <2>4
<1>9. newRows = DOMAIN n.row \ DOMAIN e.row  BY <1>5
<1>10. EditAfter(d, e, n, q)
  BY <1>4, <1>5, <1>6, <1>7, <1>8, <1>9 DEF EditAfter
<1> QED  BY <1>0, <1>10

LEMMA RemoveCommit ==
  ASSUME Typed, NEW c \in Slot, Commit(c), call[c].req.op \in {"delete", "deleteUser"}
  PROVE  \E R : /\ RemoveAfter(call[c].snap, db, db', call[c].req, R)
                /\ call[c].req.op = "deleteUser" => R = RoomsOf(call[c].snap, call[c].req.user)
<1>0. PICK q, d, w, e, n :
        /\ q = call[c].req /\ d = call[c].snap /\ w = WritesOf(d, q) /\ e = db /\ n = db'
  OBVIOUS
<1>1. /\ IsDb(d) /\ IsDb(e) /\ Accepts(d, q) /\ IsWrites(w) /\ RowsStillThere(e, w)
      /\ Executed(w)
  <2>1. w = WritesOf(d, q) /\ q = call[c].req /\ d = call[c].snap  BY <1>0
  <2> QED  BY <1>0, <2>1, CommitAfter
<1>2. PICK newRows, newRooms :
        /\ After(n, e, w, spent, newRooms, newRows)
        /\ newRooms \cap spent.room = {} /\ (w.newRoom = {} => newRooms = {})
        /\ \A i \in newRows : \E x \in w.newRow : TRUE
  BY <1>0, <1>1 DEF Executed
<1>3. PICK R : /\ q.op = "delete" => R = {q.room}
               /\ q.op = "deleteUser" => R = RoomsOf(d, q.user)
  BY <1>0
<1>4. /\ w.newRoom = {} /\ w.close = {} /\ w.newRow = {}
      /\ w.dropRoom = R /\ w.dropRow = RowsIn(d, R)
      /\ \A u \in DOMAIN w.role :
           /\ w.role[u] = "MEMBER"
           /\ \E i \in RowsIn(d, R) : d.row[i].user = u /\ (q.op = "delete" => d.row[i].open)
      /\ \A i \in RowsIn(d, R) :
           d.row[i].open /\ d.row[i].user \in DOMAIN d.role =>
             d.row[i].user \in DOMAIN w.role \/ d.role[d.row[i].user] # "MASTER"
  <2>1. CASE q.op = "delete"
    <3>1. w = DeleteWrites(d, q) /\ R = {q.room}
      BY <1>0, <1>3, <2>1 DEF WritesOf
    <3>2. /\ w.newRoom = {} /\ w.close = {} /\ w.newRow = {}
          /\ w.dropRoom = {q.room} /\ w.dropRow = RowsOf(d, q.room)
          /\ w.role = Dirty(d, Demoted(d, q.room))
      BY <3>1 DEF DeleteWrites, NoWrites
    <3>3. RowsIn(d, R) = RowsOf(d, q.room)  BY <3>1 DEF RowsIn, RowsOf
    <3>4. \A u \in DOMAIN w.role : w.role[u] = "MEMBER" /\ u \in Residents(d, q.room)
      BY <3>2 DEF Dirty, Demoted
    <3>5. \A u \in Residents(d, q.room) :
            \E i \in RowsIn(d, R) : d.row[i].user = u /\ d.row[i].open
      BY <3>3 DEF Residents, OpenRows
    <3>6. \A i \in RowsIn(d, R) : d.row[i].open =>
             d.row[i].user \in DOMAIN w.role \/ d.role[d.row[i].user] = "MEMBER"
      <4>1. \A i \in RowsIn(d, R) : d.row[i].open => d.row[i].user \in Residents(d, q.room)
        BY <3>3 DEF Residents, OpenRows
      <4> QED  BY <3>2, <4>1 DEF Dirty, Demoted
    <3> QED  BY <3>1, <3>2, <3>3, <3>4, <3>5, <3>6
  <2>2. CASE q.op = "deleteUser"
    <3>1. w = DeleteUserWrites(d, q) /\ R = RoomsOf(d, q.user)
      BY <1>0, <1>3, <2>2 DEF WritesOf
    <3>2. /\ w.newRoom = {} /\ w.close = {} /\ w.newRow = {}
          /\ w.dropRoom = R /\ w.dropRow = RowsIn(d, R)
          /\ w.role = [u \in Leads(d, R) |-> "MEMBER"]
      BY <3>1 DEF DeleteUserWrites, NoWrites
    <3> QED  BY <2>2, <3>2 DEF Leads
  <2> QED  BY <1>0, <2>1, <2>2
<1>5. newRows = {} /\ newRooms = {}  BY <1>2, <1>4
<1>6. DOMAIN n.room = DOMAIN e.room \ R  BY <1>2, <1>4, <1>5 DEF After
<1>7. DOMAIN n.row = DOMAIN e.row \ RowsIn(d, R)  BY <1>2, <1>4, <1>5 DEF After
<1>8. ASSUME NEW i \in DOMAIN n.row PROVE n.row[i] = e.row[i]
  <2>1. n.row[i] = [e.row[i] EXCEPT !.open = @ /\ i \notin w.close]
    BY <1>2, <1>5 DEF After
  <2>2. e.row[i] \in Row  BY <1>1, <1>7, RowType
  <2>3. e.row[i].open \in BOOLEAN /\ e.row[i] = [e.row[i] EXCEPT !.open = e.row[i].open]
    BY <2>2 DEF Row
  <2> QED  BY <1>4, <2>1, <2>3
<1>9. ASSUME NEW u \in DOMAIN n.role
      PROVE  /\ u \in DOMAIN e.role
             /\ n.role[u] # e.role[u] =>
                  /\ n.role[u] = "MEMBER"
                  /\ \E i \in RowsIn(d, R) : d.row[i].user = u
                                            /\ (q.op = "delete" => d.row[i].open)
             /\ Agree(d, e, u)
                /\ (\E i \in RowsIn(d, R) : d.row[i].user = u /\ d.row[i].open) =>
                  n.role[u] # "MASTER"
  <2>1. /\ u \in DOMAIN e.role
        /\ n.role[u] = IF u \in DOMAIN w.role THEN w.role[u] ELSE e.role[u]
    BY <1>2 DEF After
  <2>2. ASSUME Agree(d, e, u), NEW i \in RowsIn(d, R), d.row[i].user = u, d.row[i].open
        PROVE  n.role[u] # "MASTER"
    BY <1>4, <2>1, <2>2 DEF Agree
  <2> QED  BY <1>4, <2>1, <2>2
<1>10. RemoveAfter(d, e, n, q, R)
  BY <1>6, <1>7, <1>8, <1>9 DEF RemoveAfter
<1> QED  BY <1>0, <1>3, <1>10

LEMMA KeepCommit ==
  ASSUME Typed, NEW c \in Slot, Commit(c), call[c].req.op \notin {"edit", "delete", "deleteUser"}
  PROVE  KeepAfter(call[c].snap, db, db')
<1>0. PICK q, d, w, e, n :
        /\ q = call[c].req /\ d = call[c].snap /\ w = WritesOf(d, q) /\ e = db /\ n = db'
  OBVIOUS
<1>1. IsDb(d) /\ IsDb(e) /\ IsRequest(q) /\ Accepts(d, q) /\ Executed(w)
  <2>1. w = WritesOf(d, q) /\ q = call[c].req /\ d = call[c].snap  BY <1>0
  <2> QED  BY <1>0, <2>1, CommitAfter
<1>2. PICK newRows, newRooms : /\ After(n, e, w, spent, newRooms, newRows)
                               /\ \A i \in newRows : \E x \in w.newRow : TRUE
  BY <1>0, <1>1 DEF Executed
<1>3. /\ w.close = {} /\ w.newRow = {} /\ w.dropUser = {} /\ w.dropRow = {}
      /\ \A u \in DOMAIN w.role : w.role[u] = d.role[u]
  <2>0. DOMAIN Nothing = {}  BY NothingFacts
  <2>1. CASE q.op = "create"
    BY <1>0, <2>0, <2>1 DEF WritesOf, CreateWrites, NoWrites
  <2>2. CASE q.op = "update"
    BY <1>0, <2>0, <2>2 DEF WritesOf, UpdateWrites, NoWrites
  <2>3. CASE q.op = "decide"
    BY <1>0, <2>0, <2>3 DEF WritesOf, DecideWrites, NoWrites
  <2>4. CASE q.op = "profile"
    BY <1>0, <2>0, <2>4 DEF WritesOf, ProfileWrites, NoWrites
  <2> QED  BY <1>0, <1>1, <2>1, <2>2, <2>3, <2>4, RequestCases
<1>4. newRows = {}  BY <1>2, <1>3
<1>5. ASSUME NEW u \in DOMAIN n.role
      PROVE  u \in DOMAIN e.role /\ (Agree(d, e, u) => n.role[u] = e.role[u])
  BY <1>2, <1>3 DEF After, Agree
<1>6. n.row = e.row
  <2>1. n.row = [i \in DOMAIN n.row |-> n.row[i]] /\ DOMAIN n.row = DOMAIN e.row
    BY <1>2, <1>3, <1>4 DEF After
  <2>2. ASSUME NEW i \in DOMAIN n.row PROVE n.row[i] = e.row[i]
    <3>1. n.row[i] = [e.row[i] EXCEPT !.open = @ /\ i \notin w.close]
      BY <1>2, <1>4 DEF After
    <3>2. e.row[i] \in Row  BY <1>1, <2>1, RowType
    <3>3. e.row[i].open \in BOOLEAN /\ e.row[i] = [e.row[i] EXCEPT !.open = e.row[i].open]
      BY <3>2 DEF Row
    <3> QED  BY <1>3, <3>1, <3>3
  <2>3. e.row = [i \in DOMAIN e.row |-> e.row[i]]  BY <1>1 DEF IsDb, Partial
  <2> QED  BY <2>1, <2>2, <2>3
<1>7. KeepAfter(d, e, n)  BY <1>5, <1>6 DEF KeepAfter
<1> QED  BY <1>0, <1>7

-----------------------------------------------------------------------------
(* A ROOM_MASTER keeps a home.                                              *)

LEMMA EditHome ==
  ASSUME NEW d, NEW e, NEW n, NEW q, EditAfter(d, e, n, q),
         NEW u, Agree(d, e, u), ~Stranded(e, u)
  PROVE  ~Stranded(n, u)
<1> SUFFICES ASSUME u \in DOMAIN n.role, n.role[u] = "MASTER"
             PROVE  \E i \in DOMAIN n.row : n.row[i].user = u /\ n.row[i].open
  BY DEF Stranded, HasRole, HomesOf
<1>1. CASE u \in MovedIn(d, q)
  BY <1>1 DEF EditAfter
<1>2. ASSUME NEW i \in HomesOf(e, u), i \notin MovedOut(d, q)
      PROVE  i \in DOMAIN n.row /\ n.row[i].user = u /\ n.row[i].open
  BY <1>2 DEF EditAfter, HomesOf
<1>3. CASE u \in DOMAIN q.list /\ u \in Residents(d, q.room)
  <2>1. PICK i \in HomesOf(d, u) : TRUE
    BY <1>3 DEF Residents, OpenRows, RowsOf, HomesOf
  <2>2. i \in HomesOf(e, u) /\ i \notin MovedOut(d, q)
    BY <1>3, <2>1 DEF MovedOut, HomesOf, Agree
  <2> QED  BY <1>2, <2>2
<1>4. CASE u \notin DOMAIN q.list
  <2>1. u \notin Residents(d, q.room) /\ e.role[u] = "MASTER" /\ u \in DOMAIN e.role
    BY <1>4 DEF EditAfter
  <2>2. PICK i \in HomesOf(e, u) : TRUE
    BY <2>1 DEF Stranded, HasRole
  <2>3. i \in HomesOf(d, u)  BY <2>2 DEF Agree
  <2>4. i \notin MovedOut(d, q)
    BY <2>1, <2>3 DEF MovedOut, Residents, HomesOf
  <2> QED  BY <1>2, <2>2, <2>4
<1> QED  BY <1>1, <1>3, <1>4 DEF MovedIn

LEMMA RemoveHome ==
  ASSUME NEW d, NEW e, NEW n, NEW q, NEW R, RemoveAfter(d, e, n, q, R),
         NEW u, Agree(d, e, u), ~Stranded(e, u)
  PROVE  ~Stranded(n, u)
<1> SUFFICES ASSUME u \in DOMAIN n.role, n.role[u] = "MASTER"
             PROVE  \E i \in DOMAIN n.row : n.row[i].user = u /\ n.row[i].open
  BY DEF Stranded, HasRole, HomesOf
<1>1. u \in DOMAIN e.role /\ e.role[u] = "MASTER"  BY DEF RemoveAfter
<1>2. PICK i \in HomesOf(e, u) : TRUE
  BY <1>1 DEF Stranded, HasRole
<1>3. i \in HomesOf(d, u)  BY <1>2 DEF Agree
<1>4. i \notin RowsIn(d, R)  BY <1>3 DEF RemoveAfter, HomesOf
<1> QED  BY <1>2, <1>4 DEF RemoveAfter, HomesOf

LEMMA KeepHome ==
  ASSUME NEW d, NEW e, NEW n, KeepAfter(d, e, n), NEW u, Agree(d, e, u), ~Stranded(e, u)
  PROVE  ~Stranded(n, u)
BY DEF KeepAfter, Stranded, HasRole, HomesOf

LEMMA CommitHome ==
  ASSUME Typed, Recorded, NEW c \in Slot, Commit(c), NEW u, UpToDate(c, u), ~Stranded(db, u)
  PROVE  ~Stranded(db', u)
<1>0. Agree(call[c].snap, db, u)  BY DEF UpToDate, Agree
<1>1. CASE call[c].req.op = "edit"  BY <1>0, <1>1, EditCommit, EditHome
<1>2. CASE call[c].req.op \in {"delete", "deleteUser"}
  <2>1. PICK R : RemoveAfter(call[c].snap, db, db', call[c].req, R)
    BY <1>2, RemoveCommit
  <2> QED  BY <1>0, <2>1, RemoveHome
<1>3. CASE call[c].req.op \notin {"edit", "delete", "deleteUser"}
  BY <1>0, <1>3, KeepCommit, KeepHome
<1> QED  BY <1>1, <1>2, <1>3

-----------------------------------------------------------------------------
(* A room keeps its one master.                                             *)

(* Lists that name the same people with the same roles.                     *)
LEMMA SameLed ==
  ASSUME NEW list, NEW list2, Led(list), DOMAIN list2 = DOMAIN list,
         \A u \in DOMAIN list : list2[u] = list[u]
  PROVE  Led(list2)
<1>1. {u \in DOMAIN list2 : list2[u] = "MASTER"} = {u \in DOMAIN list : list[u] = "MASTER"}
  OBVIOUS
<1> QED  BY <1>1 DEF Led

(* The same tenants with the same roles.                                    *)
LEMMA SameTenants ==
  ASSUME NEW e, NEW n, NEW r, Residents(n, r) = Residents(e, r),
         \A u \in Residents(n, r) : n.role[u] = e.role[u],
         Led(MembersShown(e, r))
  PROVE  Led(MembersShown(n, r))
<1>1. DOMAIN MembersShown(n, r) = DOMAIN MembersShown(e, r)
  BY DEF MembersShown
<1>2. \A u \in DOMAIN MembersShown(e, r) : MembersShown(n, r)[u] = MembersShown(e, r)[u]
  BY DEF MembersShown
<1> QED  BY <1>1, <1>2, SameLed

(* The handler knows the tenants of room r as they are, and nobody of them  *)
(* lives in another room.                                                   *)
Known(d, e, n, r) ==
  /\ SameStays(d, e)
  /\ Residents(n, r) \subseteq DOMAIN n.role
  /\ \A u \in Residents(e, r) \cup Residents(n, r) \cup Residents(d, r) : Agree(d, e, u)
  /\ ~Shared(e, r) /\ ~Shared(n, r)

LEMMA HomeIn ==
  ASSUME NEW d, NEW r, NEW u
  PROVE  u \in Residents(d, r) <=> \E i \in HomesOf(d, u) : d.row[i].room = r
BY DEF Residents, OpenRows, RowsOf, HomesOf

(* Who is agreed upon lives in the same rooms by d and by e.                *)
LEMMA AgreeRooms ==
  ASSUME NEW d, NEW e, SameStays(d, e), NEW u, Agree(d, e, u), NEW r
  PROVE  u \in Residents(d, r) <=> u \in Residents(e, r)
<1>1. \A i \in HomesOf(d, u) : i \in HomesOf(e, u) /\ d.row[i].room = e.row[i].room
  BY DEF Agree, HomesOf, SameStays
<1>2. \A i \in HomesOf(e, u) : i \in HomesOf(d, u) /\ d.row[i].room = e.row[i].room
  BY DEF Agree, HomesOf, SameStays
<1> QED  BY <1>1, <1>2, HomeIn

(* editMember of the room itself: its tenants are those of the list.        *)
LEMMA EditMaster ==
  ASSUME NEW d, NEW e, NEW n, NEW q, EditAfter(d, e, n, q),
         Known(d, e, n, q.room), Led(q.list)
  PROVE  Led(MembersShown(n, q.room))
<1>1. ASSUME NEW u \in DOMAIN q.list PROVE u \in Residents(n, q.room)
  <2>1. CASE u \in MovedIn(d, q)
    BY <2>1 DEF EditAfter, Residents, OpenRows, RowsOf
  <2>2. CASE u \in Residents(d, q.room)
    <3>1. PICK i \in HomesOf(d, u) : d.row[i].room = q.room  BY <2>2, HomeIn
    <3>2. i \in HomesOf(e, u) /\ e.row[i].room = q.room /\ i \notin MovedOut(d, q)
      BY <2>2, <3>1 DEF Known, Agree, SameStays, HomesOf, MovedOut
    <3>3. i \in HomesOf(n, u) /\ n.row[i].room = q.room
      BY <3>2 DEF EditAfter, HomesOf
    <3> QED  BY <3>3, HomeIn
  <2> QED  BY <2>1, <2>2 DEF MovedIn
<1>2. ASSUME NEW u \in Residents(n, q.room) PROVE u \in DOMAIN q.list
  <2>1. PICK i \in HomesOf(n, u) : n.row[i].room = q.room  BY HomeIn
  <2>2. CASE i \notin DOMAIN e.row
    BY <2>1, <2>2 DEF EditAfter, HomesOf, MovedIn
  <2>3. CASE i \in DOMAIN e.row
    <3>1. i \in HomesOf(e, u) /\ e.row[i].room = q.room /\ i \notin MovedOut(d, q)
      BY <2>1, <2>3 DEF EditAfter, HomesOf
    <3>2. i \in HomesOf(d, u) /\ d.row[i].room = q.room
      BY <3>1 DEF Known, Agree, SameStays, HomesOf
    <3> QED  BY <3>1, <3>2 DEF MovedOut, OpenRows, RowsOf, HomesOf
  <2> QED  BY <2>2, <2>3
<1>3. ASSUME NEW u \in Residents(n, q.room) PROVE n.role[u] = q.list[u]
  BY <1>2, <1>3 DEF Known, EditAfter
<1>4. DOMAIN MembersShown(n, q.room) = DOMAIN q.list
  BY <1>1, <1>2 DEF MembersShown
<1>5. \A u \in DOMAIN q.list : MembersShown(n, q.room)[u] = q.list[u]
  BY <1>1, <1>3 DEF MembersShown
<1> QED  BY <1>4, <1>5, SameLed

(* editMember of another room touches nobody who lives in this one only.    *)
LEMMA EditElsewhere ==
  ASSUME NEW d, NEW e, NEW n, NEW q, EditAfter(d, e, n, q),
         NEW r, r # q.room, Known(d, e, n, r), Led(MembersShown(e, r))
  PROVE  Led(MembersShown(n, r))
<1>1. ASSUME NEW u \in Residents(e, r) PROVE u \in Residents(n, r)
  <2>1. PICK i \in HomesOf(e, u) : e.row[i].room = r  BY HomeIn
  <2>2. i \notin MovedOut(d, q)
    BY <2>1 DEF Known, SameStays, HomesOf, MovedOut, OpenRows, RowsOf
  <2>3. i \in HomesOf(n, u) /\ n.row[i].room = r
    BY <2>1, <2>2 DEF EditAfter, HomesOf
  <2> QED  BY <2>3, HomeIn
<1>2. ASSUME NEW u \in Residents(n, r) PROVE u \in Residents(e, r)
  <2>1. PICK i \in HomesOf(n, u) : n.row[i].room = r  BY HomeIn
  <2>2. i \in DOMAIN e.row
    BY <2>1 DEF EditAfter, HomesOf
  <2>3. i \in HomesOf(e, u) /\ e.row[i].room = r
    BY <2>1, <2>2 DEF EditAfter, HomesOf
  <2> QED  BY <2>3, HomeIn
<1>3. ASSUME NEW u \in Residents(n, r) PROVE n.role[u] = e.role[u]
  <2>1. u \in Residents(e, r) /\ Agree(d, e, u) /\ u \in DOMAIN n.role
    BY <1>2, <1>3 DEF Known
  <2>2. u \notin Residents(d, q.room)
    <3>1. SUFFICES ASSUME u \in Residents(d, q.room) PROVE FALSE
      OBVIOUS
    <3>2. u \in Residents(e, q.room)  BY <2>1, <3>1, AgreeRooms DEF Known
    <3>3. \E i \in HomesOf(e, u) : e.row[i].room = q.room  BY <3>2, HomeIn
    <3> QED  BY <2>1, <3>3 DEF Known, Shared
  <2>3. u \notin MovedIn(d, q)
    <3>1. SUFFICES ASSUME u \in MovedIn(d, q) PROVE FALSE
      OBVIOUS
    <3>2. \E i \in HomesOf(n, u) : n.row[i].room = q.room
      BY <3>1 DEF EditAfter, HomesOf
    <3> QED  BY <1>3, <3>2 DEF Known, Shared
  <2>4. u \notin DOMAIN q.list  BY <2>2, <2>3 DEF MovedIn
  <2> QED  BY <2>1, <2>2, <2>4 DEF EditAfter
<1>4. Residents(n, r) = Residents(e, r)  BY <1>1, <1>2
<1> QED  BY <1>3, <1>4, SameTenants

(* The removal of other rooms, of which no tenant had a stay before if it   *)
(* is the removal of an owner.                                              *)
LEMMA RemoveElsewhere ==
  ASSUME NEW d, NEW e, NEW n, NEW q, NEW R, RemoveAfter(d, e, n, q, R),
         q.op \in {"delete", "deleteUser"},
         NEW r \in DOMAIN n.room, Known(d, e, n, r), Led(MembersShown(e, r)),
         q.op = "deleteUser" =>
           \A i \in RowsIn(d, R) : d.row[i].open \/ d.row[i].user \notin Residents(e, r)
  PROVE  Led(MembersShown(n, r))
<1>0. r \notin R  BY DEF RemoveAfter
<1>1. ASSUME NEW u \in Residents(e, r) PROVE u \in Residents(n, r)
  <2>1. PICK i \in HomesOf(e, u) : e.row[i].room = r  BY HomeIn
  <2>2. i \notin RowsIn(d, R)
    BY <1>0, <2>1 DEF Known, SameStays, HomesOf, RowsIn
  <2>3. i \in HomesOf(n, u) /\ n.row[i].room = r
    BY <2>1, <2>2 DEF RemoveAfter, HomesOf
  <2> QED  BY <2>3, HomeIn
<1>2. ASSUME NEW u \in Residents(n, r) PROVE u \in Residents(e, r)
  <2>1. PICK i \in HomesOf(n, u) : n.row[i].room = r  BY HomeIn
  <2>2. i \in HomesOf(e, u) /\ e.row[i].room = r
    BY <2>1 DEF RemoveAfter, HomesOf
  <2> QED  BY <2>2, HomeIn
<1>3. ASSUME NEW u \in Residents(n, r) PROVE n.role[u] = e.role[u]
  <2>1. u \in Residents(e, r) /\ Agree(d, e, u) /\ u \in DOMAIN n.role
    BY <1>2, <1>3 DEF Known
  <2>2. ASSUME NEW i \in RowsIn(d, R), d.row[i].user = u, d.row[i].open PROVE FALSE
    <3>1. i \in HomesOf(d, u) /\ d.row[i].room # r
      BY <1>0, <2>2 DEF RowsIn, HomesOf
    <3>2. i \in HomesOf(e, u) /\ e.row[i].room # r
      BY <2>1, <3>1 DEF Known, Agree, SameStays, HomesOf
    <3> QED  BY <2>1, <3>2 DEF Known, Shared
  <2> QED  BY <2>1, <2>2 DEF RemoveAfter
<1>4. Residents(n, r) = Residents(e, r)  BY <1>1, <1>2
<1> QED  BY <1>3, <1>4, SameTenants

LEMMA KeepMaster ==
  ASSUME NEW d, NEW e, NEW n, KeepAfter(d, e, n), NEW r, Known(d, e, n, r),
         Led(MembersShown(e, r))
  PROVE  Led(MembersShown(n, r))
<1>1. Residents(n, r) = Residents(e, r)
  BY DEF KeepAfter, Residents, OpenRows, RowsOf
<1>2. \A u \in Residents(n, r) : n.role[u] = e.role[u]
  BY DEF KeepAfter, Known
<1> QED  BY <1>1, <1>2, SameTenants

LEMMA CommitMaster ==
  ASSUME Typed, Recorded, NEW c \in Slot, Commit(c), NEW r \in DOMAIN db'.room,
         Led(MembersShown(db, r)), ~Shared(db, r), ~Shared(db', r),
         \A u \in Residents(db, r) \cup Residents(db', r) \cup Residents(call[c].snap, r) :
           UpToDate(c, u),
         call[c].req.op = "edit" => Led(call[c].req.list),
         ~Remembers(c, r)
  PROVE  Led(MembersShown(db', r))
<1>0. PICK q, d : q = call[c].req /\ d = call[c].snap
  OBVIOUS
<1>1. Known(d, db, db', r)
  <2>1. SameStays(d, db)  BY <1>0 DEF Recorded, Commit
  <2>2. ForeignKeys(db')  BY CommitFacts DEF Typed, TypeOK
  <2>3. Residents(db', r) \subseteq DOMAIN db'.role
    BY <2>2 DEF ForeignKeys, Residents, OpenRows, RowsOf
  <2>4. \A u \in Residents(db, r) \cup Residents(db', r) \cup Residents(d, r) : Agree(d, db, u)
    BY <1>0 DEF UpToDate, Agree
  <2> QED  BY <2>1, <2>3, <2>4 DEF Known
<1>2. CASE q.op = "edit"
  <2>1. EditAfter(d, db, db', q) /\ Led(q.list)  BY <1>0, <1>2, EditCommit
  <2>2. CASE r = q.room  BY <1>1, <2>1, <2>2, EditMaster
  <2>3. CASE r # q.room  BY <1>1, <2>1, <2>3, EditElsewhere
  <2> QED  BY <2>2, <2>3
<1>3. CASE q.op \in {"delete", "deleteUser"}
  <2>1. PICK R : /\ RemoveAfter(d, db, db', q, R)
                 /\ q.op = "deleteUser" => R = RoomsOf(d, q.user)
    BY <1>0, <1>3, RemoveCommit
  <2>2. q.op = "deleteUser" =>
          \A i \in RowsIn(d, R) : d.row[i].open \/ d.row[i].user \notin Residents(db, r)
    BY <1>0, <2>1 DEF Remembers
  <2> QED  BY <1>1, <1>3, <2>1, <2>2, RemoveElsewhere
<1>4. CASE q.op \notin {"edit", "delete", "deleteUser"}
  <2>1. KeepAfter(d, db, db')  BY <1>0, <1>4, KeepCommit
  <2> QED  BY <1>1, <2>1, KeepMaster
<1> QED  BY <1>2, <1>3, <1>4

-----------------------------------------------------------------------------
(* Only a commit changes the tables.                                        *)
LEMMA OnlyCommits ==
  ASSUME [Next]_vars PROVE UNCHANGED db \/ \E c \in Slot : Commit(c)
BY DEF Next, vars, Server, Begin, Refuse, Rollback, LosePush, Office, Notify, Push, App,
  OnScreen, Ask, LoadRooms, Hear, Tap, OpenEditor, CloseEditor, RemoveMember, AddMember,
  ChooseMaster, SaveMembers, CreateRoom, TypeCapacity, UpdateRoom, RemoveRoom, Receive,
  GiveUp, Relaunch

(* The actions of the two properties.                                       *)
NoneStranded ==
  \A u \in DOMAIN db'.role :
      ~Stranded(db, u) /\ Stranded(db', u) =>
        \E c \in Slot : Commit(c) /\ ~UpToDate(c, u)

NoneUnled ==
  \A r \in DOMAIN db'.room :
      /\ Led(MembersShown(db, r)) /\ ~Led(MembersShown(db', r))
      /\ ~Shared(db, r) /\ ~Shared(db', r)
      => \E c \in Slot :
           /\ Commit(c)
           /\ \/ \E u \in Residents(db, r) \cup Residents(db', r) \cup Residents(call[c].snap, r) :
                   ~UpToDate(c, u)
              \/ call[c].req.op = "edit" /\ ~Led(call[c].req.list)
              \/ Remembers(c, r)

LEMMA WellKept == Spec => [](Typed /\ Recorded)
<1>1. Typed /\ Recorded /\ [Next]_vars => (Typed /\ Recorded)'
  BY TypedNext, RecordedNext
<1> QED  BY <1>1, TypedInit, RecordedInit, PTL DEF Spec

(* Whatever handlers overlap, phones retry and screens are old: a master is *)
(* stranded only by a handler that was overtaken by a commit on that user.  *)
THEOREM MastersKeepHomeHolds == Spec => MastersKeepHome
<1>1. ASSUME Typed, Recorded, [Next]_vars, NEW u \in DOMAIN db'.role,
             ~Stranded(db, u), Stranded(db', u)
      PROVE  \E c \in Slot : Commit(c) /\ ~UpToDate(c, u)
  <2>1. ~UNCHANGED db
    BY <1>1 DEF Stranded, HasRole, HomesOf
  <2>2. PICK c \in Slot : Commit(c)  BY <1>1, <2>1, OnlyCommits
  <2> QED  BY <1>1, <2>2, CommitHome
<1>2. (Typed /\ Recorded) /\ [Next]_vars => [NoneStranded]_vars
  BY <1>1 DEF NoneStranded
<1> QED  BY <1>2, WellKept, PTL DEF Spec, MastersKeepHome, NoneStranded

(* And a room with one master, of which nobody lives elsewhere too, loses   *)
(* it, or gets a second, only by a handler overtaken by a commit on one of  *)
(* its tenants, by a list without one master, or by the removal of an       *)
(* owner in whose rooms a tenant has lived.                                 *)
THEOREM RoomsKeepMasterHolds == Spec => RoomsKeepMaster
<1>1. ASSUME Typed, Recorded, [Next]_vars, NEW r \in DOMAIN db'.room,
             Led(MembersShown(db, r)), ~Led(MembersShown(db', r)),
             ~Shared(db, r), ~Shared(db', r)
      PROVE  \E c \in Slot :
               /\ Commit(c)
               /\ \/ \E u \in Residents(db, r) \cup Residents(db', r) \cup Residents(call[c].snap, r) :
                       ~UpToDate(c, u)
                  \/ call[c].req.op = "edit" /\ ~Led(call[c].req.list)
                  \/ Remembers(c, r)
  <2>1. ~UNCHANGED db
    BY <1>1
  <2>2. PICK c \in Slot : Commit(c)  BY <1>1, <2>1, OnlyCommits
  <2> QED  BY <1>1, <2>2, CommitMaster
<1>2. (Typed /\ Recorded) /\ [Next]_vars => [NoneUnled]_vars
  BY <1>1 DEF NoneUnled
<1> QED  BY <1>2, WellKept, PTL DEF Spec, RoomsKeepMaster, NoneUnled
=============================================================================
