------------------------------- MODULE RoomDb -------------------------------
(***************************************************************************)
(* The tables tb_user, tb_room and tb_room_has_user, the requests that      *)
(* write them, and what the handler of each request writes.                 *)
(*                                                                          *)
(* A table is a function whose domain is the set of primary keys present.   *)
(* A handler reads one snapshot d (InnoDB's REPEATABLE READ, or the single  *)
(* read of a handler without a transaction) and issues Writes: Hibernate    *)
(* rewrites every column of a row it saw change and no other row.  Apply    *)
(* executes these writes on the rows that are in the database by then.      *)
(***************************************************************************)
EXTENDS Naturals, FiniteSets

CONSTANTS
  User,      \* keys of tb_user
  RoomId,    \* keys of tb_room that AUTO_INCREMENT may hand out
  RowId,     \* keys of tb_room_has_user that AUTO_INCREMENT may hand out
  Capacity   \* values of max_guest an owner may type

ASSUME CapacityAssumption == Capacity \subseteq Nat \ {0}

Role   == {"ADMIN", "OWNER", "MASTER", "MEMBER"}
Status == {"APPROVED", "DECLINED", "PENDING"}

Room == [owner : User, max : Capacity, status : Status]
Row  == [user : User, room : RoomId, open : BOOLEAN]  \* open: date_out IS NULL
Stay == [user : User, room : RoomId]                  \* a row to be inserted

(* f is a function into R defined on part of D.                             *)
Partial(f, D, R) == f \in [DOMAIN f -> R] /\ DOMAIN f \subseteq D

IsDb(d) ==
  /\ d = [role |-> d.role, room |-> d.room, row |-> d.row]
  /\ Partial(d.role, User, Role)
  /\ Partial(d.room, RoomId, Room)
  /\ Partial(d.row, RowId, Row)

Decision == {"APPROVED", "DECLINED"}

(* The body of editMember: the members the room shall have, with roles.     *)
IsList(list) == Partial(list, User, Role)

(* Every other request.                                                     *)
Request ==
       [op : {"create"}, by : User, max : Capacity]
  \cup [op : {"update"}, by : User, room : RoomId, max : Capacity]
  \cup [op : {"delete"}, room : RoomId]
  \cup [op : {"decide"}, room : RoomId, status : Decision]
  \cup [op : {"profile"}, user : User]
  \cup [op : {"deleteUser"}, user : User]

IsEdit(q) ==
  /\ q = [op |-> "edit", room |-> q.room, list |-> q.list]
  /\ q.room \in RoomId
  /\ IsList(q.list)

IsRequest(q) == IF q.op = "edit" THEN IsEdit(q) ELSE q \in Request

-----------------------------------------------------------------------------
(* Queries: the repository methods the handlers call.                       *)

RowsOf(d, r)    == {i \in DOMAIN d.row : d.row[i].room = r}
OpenRows(d, r)  == {i \in RowsOf(d, r) : d.row[i].open}
Residents(d, r) == {d.row[i].user : i \in OpenRows(d, r)}
HomesOf(d, u)   == {i \in DOMAIN d.row : d.row[i].user = u /\ d.row[i].open}
HasRole(d, u, x) == u \in DOMAIN d.role /\ d.role[u] = x

(* Mutants: the check forgets the open stay, or the house owner.            *)
MayMoveInTwice(d, u) == u \in DOMAIN d.role /\ d.role[u] # "OWNER"
MayMoveInOwner(d, u) == u \in DOMAIN d.role /\ HomesOf(d, u) = {}

(* findExitedUserInRoom answers OK with the role MEMBER.                    *)
MayMoveIn(d, u) ==
  /\ u \in DOMAIN d.role
  /\ d.role[u] # "OWNER"
  /\ HomesOf(d, u) = {}

(* getRoomResponseModel: every open row with its user's current role.       *)
MembersShown(d, r) == [u \in Residents(d, r) |-> d.role[u]]

-----------------------------------------------------------------------------
(* What a handler writes.                                                   *)

(* Writes are [role, room : rows rewritten of tb_user and tb_room,          *)
(* newRoom, newRow : records to insert, close : rows whose date_out is set,  *)
(* dropUser, dropRoom, dropRow : keys deleted].                              *)

Nothing == [x \in {} |-> x]

NoWrites == [role |-> Nothing, room |-> Nothing, newRoom |-> {}, close |-> {},
             newRow |-> {}, dropUser |-> {}, dropRoom |-> {}, dropRow |-> {}]

(* Hibernate issues no UPDATE for a user whose role the handler did not     *)
(* change from what it had read.                                            *)
Dirty(d, roles) == [u \in {v \in DOMAIN roles : roles[v] # d.role[v]} |-> roles[u]]

CreateWrites(d, q) ==
  [NoWrites EXCEPT
     !.newRoom = {[owner |-> q.by, max |-> q.max, status |-> "PENDING"]}]

(* Mutant: updateRoom stores the number of tenants as max_guest.            *)
UpdateWritesCount(d, q) ==
  [NoWrites EXCEPT
     !.room = [r \in {q.room} |-> [owner |-> q.by, status |-> "PENDING",
                                   max |-> Cardinality(OpenRows(d, q.room))]]]

UpdateWrites(d, q) ==
  [NoWrites EXCEPT
     !.room = [r \in {q.room} |-> [owner |-> q.by, max |-> q.max, status |-> "PENDING"]]]

(* Mutant: deleteRoom leaves the roles of the tenants alone.                *)
DemotedNobody(d, r) == Nothing

(* The roles that deleteRoom gives the tenants of room r.                   *)
Demoted(d, r) == [u \in Residents(d, r) |-> "MEMBER"]

(* Mutant: deleteRoom drops the open stays and keeps the room.              *)
DeleteWritesOpenOnly(d, q) ==
  [NoWrites EXCEPT
     !.role = Dirty(d, Demoted(d, q.room)),
     !.dropRow = OpenRows(d, q.room)]

DeleteWrites(d, q) ==
  [NoWrites EXCEPT
     !.role = Dirty(d, Demoted(d, q.room)),
     !.dropRow = RowsOf(d, q.room),
     !.dropRoom = {q.room}]

(* The three cases of editMember: in both lists, only in the database       *)
(* (moves out), only in the request (moves in).                             *)
MovedOut(d, q) == {i \in OpenRows(d, q.room) : d.row[i].user \notin DOMAIN q.list}
MovedIn(d, q)  == DOMAIN q.list \ Residents(d, q.room)

(* The role of everyone in either list.                                     *)
Assigned(d, q) ==
  [u \in DOMAIN q.list \cup Residents(d, q.room) |->
     IF u \in DOMAIN q.list THEN q.list[u] ELSE "MEMBER"]

(* Mutants: case 2 closes the stay and leaves the role; case 1 is skipped;  *)
(* case 3 enters the stay and leaves the role.                              *)
EditWritesKeepRole(d, q) ==
  [NoWrites EXCEPT
     !.role = Dirty(d, q.list),
     !.close = MovedOut(d, q),
     !.newRow = [user : MovedIn(d, q), room : {q.room}]]
EditWritesSkipBoth(d, q) ==
  [NoWrites EXCEPT
     !.role = Dirty(d, [u \in MovedIn(d, q) \cup (Residents(d, q.room) \ DOMAIN q.list) |->
                          IF u \in DOMAIN q.list THEN q.list[u] ELSE "MEMBER"]),
     !.close = MovedOut(d, q),
     !.newRow = [user : MovedIn(d, q), room : {q.room}]]
EditWritesNewcomers(d, q) ==
  [NoWrites EXCEPT
     !.role = Dirty(d, [u \in Residents(d, q.room) |->
                          IF u \in DOMAIN q.list THEN q.list[u] ELSE "MEMBER"]),
     !.close = MovedOut(d, q),
     !.newRow = [user : MovedIn(d, q), room : {q.room}]]

EditWrites(d, q) ==
  [NoWrites EXCEPT
     !.role = Dirty(d, Assigned(d, q)),
     !.close = MovedOut(d, q),
     !.newRow = [user : MovedIn(d, q), room : {q.room}]]

DecideWrites(d, q) ==
  IF d.room[q.room].status = q.status
  THEN NoWrites
  ELSE [NoWrites EXCEPT
          !.room = [r \in {q.room} |-> [d.room[r] EXCEPT !.status = q.status]]]

(* updateUser, changePassword and resetPassword change other columns, but   *)
(* the UPDATE carries the role_id that was read.                            *)
ProfileWrites(d, q) == [NoWrites EXCEPT !.role = [u \in {q.user} |-> d.role[u]]]

(* deleteUser: an owner's rooms go with their rows, and whoever has a row   *)
(* of theirs, past or present, and is a ROOM_MASTER becomes a MEMBER.       *)
RoomsOf(d, u) ==
  {r \in DOMAIN d.room : d.role[u] = "OWNER" /\ d.room[r].owner = u}
RowsIn(d, R) == {i \in DOMAIN d.row : d.row[i].room \in R}
(* Mutant: it demotes masters who never had a row there.                    *)
LeadsAnywhere(d, R) == {u \in DOMAIN d.role : d.role[u] = "MASTER"}
Leads(d, R)  == {u \in DOMAIN d.role : /\ d.role[u] = "MASTER"
                                       /\ \E i \in RowsIn(d, R) : d.row[i].user = u}

DeleteUserWrites(d, q) ==
  [NoWrites EXCEPT
     !.role = [u \in Leads(d, RoomsOf(d, q.user)) |-> "MEMBER"],
     !.dropRow = RowsIn(d, RoomsOf(d, q.user)),
     !.dropRoom = RoomsOf(d, q.user),
     !.dropUser = {q.user}]

WritesOf(d, q) ==
  CASE q.op = "create"     -> CreateWrites(d, q)
    [] q.op = "update"     -> UpdateWrites(d, q)
    [] q.op = "delete"     -> DeleteWrites(d, q)
    [] q.op = "edit"       -> EditWrites(d, q)
    [] q.op = "decide"     -> DecideWrites(d, q)
    [] q.op = "profile"    -> ProfileWrites(d, q)
    [] q.op = "deleteUser" -> DeleteUserWrites(d, q)

(* The handler reaches its writes: no early return, and no exception from   *)
(* a row it did not find.                                                   *)
Accepts(d, q) ==
  CASE q.op = "create" -> HasRole(d, q.by, "OWNER")
    [] q.op = "update" -> /\ HasRole(d, q.by, "OWNER")
                          /\ q.room \in DOMAIN d.room
                          /\ Cardinality(OpenRows(d, q.room)) <= q.max
    [] q.op = "delete" -> q.room \in DOMAIN d.room
    [] q.op = "edit"   -> /\ DOMAIN q.list \subseteq DOMAIN d.role
                          /\ DOMAIN q.list # {} => q.room \in DOMAIN d.room
                          /\ \A i, j \in MovedOut(d, q) :
                               d.row[i].user = d.row[j].user => i = j
    [] q.op = "decide" -> q.room \in DOMAIN d.room
    [] OTHER           -> q.user \in DOMAIN d.role

-----------------------------------------------------------------------------
(* Execution of the writes on the database as it is at commit.              *)

(* Hibernate rolls back when a row it updates or deletes is no longer       *)
(* there (StaleStateException).                                             *)
RowsStillThere(d, w) ==
  /\ DOMAIN w.role \cup w.dropUser \subseteq DOMAIN d.role
  /\ DOMAIN w.room \cup w.dropRoom \subseteq DOMAIN d.room
  /\ w.close \cup w.dropRow \subseteq DOMAIN d.row

(* d after w, the inserted rows taking the keys roomKey and rowKey.         *)
Apply(d, w, roomKey, rowKey) ==
  LET newRooms == {roomKey[x] : x \in w.newRoom}
      newRows  == {rowKey[x] : x \in w.newRow}
      Made(key, S, k) == CHOOSE x \in S : key[x] = k
  IN [role |-> [u \in DOMAIN d.role \ w.dropUser |->
                  IF u \in DOMAIN w.role THEN w.role[u] ELSE d.role[u]],
      room |-> [r \in (DOMAIN d.room \ w.dropRoom) \cup newRooms |->
                  IF r \in newRooms THEN Made(roomKey, w.newRoom, r)
                  ELSE IF r \in DOMAIN w.room THEN w.room[r] ELSE d.room[r]],
      row  |-> [i \in (DOMAIN d.row \ w.dropRow) \cup newRows |->
                  IF i \in newRows
                  THEN LET s == Made(rowKey, w.newRow, i)
                       IN [user |-> s.user, room |-> s.room, open |-> TRUE]
                  ELSE [d.row[i] EXCEPT !.open = @ /\ i \notin w.close]]]

(* The foreign keys of tb_room and tb_room_has_user.                        *)
ForeignKeys(d) ==
  /\ \A r \in DOMAIN d.room : d.room[r].owner \in DOMAIN d.role
  /\ \A i \in DOMAIN d.row : /\ d.row[i].user \in DOMAIN d.role
                             /\ d.row[i].room \in DOMAIN d.room
=============================================================================
