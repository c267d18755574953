--------------------------- MODULE OwnerAppProofs ---------------------------
(***************************************************************************)
(* Theorems about OwnerApp, for any number of users, rooms, phones,         *)
(* exchanges and overlapping handlers.                                      *)
(***************************************************************************)
EXTENDS OwnerApp, RoomDbProofs

-----------------------------------------------------------------------------
(* Exchanges.                                                               *)

Exchanges(f) ==
  /\ f = [c \in DOMAIN f |-> f[c]] /\ DOMAIN f \subseteq Slot
  /\ \A c \in DOMAIN f : IsCall(f[c])

LEMMA WithExchange ==
  ASSUME NEW f, Exchanges(f), NEW c \in Slot, NEW x, IsCall(x)
  PROVE  Exchanges(With(f, c, x))
BY DEF Exchanges, With

LEMMA WithoutExchange ==
  ASSUME NEW f, Exchanges(f), NEW S
  PROVE  Exchanges(Without(f, S))
BY DEF Exchanges, Without

LEMMA SendType ==
  ASSUME Exchanges(call), NEW c \in Slot, NEW q, IsRequest(q), Send(c, q)
  PROVE  Exchanges(call')
<1>1. IsCall([phase |-> "sent", req |-> q])  BY DEF IsCall
<1> QED  BY <1>1, WithExchange DEF Send

LEMMA SettleType ==
  ASSUME Exchanges(call), NEW c \in DOMAIN call, NEW ok \in BOOLEAN, Settle(c, ok)
  PROVE  Exchanges(call')
<1>1. c \in Slot /\ IsRequest(call[c].req)  BY DEF Exchanges, IsCall
<1>2. IsCall([phase |-> "answered", req |-> call[c].req, ok |-> ok])  BY <1>1 DEF IsCall
<1> QED  BY <1>1, <1>2, WithExchange, WithoutExchange DEF Settle

LEMMA RunningType ==
  ASSUME Exchanges(call), NEW c \in Phase("running")
  PROVE  c \in Slot /\ c \in DOMAIN call /\ IsRequest(call[c].req) /\ IsDb(call[c].snap)
<1>1. c \in DOMAIN call /\ call[c].phase = "running" /\ IsCall(call[c])
  BY DEF Exchanges, Phase
<1> QED  BY <1>1 DEF IsCall, Exchanges

-----------------------------------------------------------------------------
(* Type correctness of the server.                                          *)

LEMMA ServerTypeParts ==
  ServerTypeOK <=> /\ IsDb(db)
                   /\ spent \in [room : SUBSET RoomId, row : SUBSET RowId]
                   /\ Exchanges(call)
                   /\ Partial(wait, Client, Slot)
                   /\ note \subseteq Note
                   /\ vetted \subseteq RoomId
BY DEF ServerTypeOK, Exchanges

LEMMA BeginType ==
  ASSUME ServerTypeOK, NEW c \in Slot, Begin(c)
  PROVE  ServerTypeOK'
<1>1. c \in DOMAIN call /\ IsCall(call[c])  BY DEF Begin, Phase, ServerTypeOK
<1>2. IsCall([phase |-> "running", req |-> call[c].req, snap |-> db])
  BY <1>1 DEF IsCall, ServerTypeOK
<1>3. Exchanges(call')  BY <1>2, ServerTypeParts, WithExchange DEF Begin
<1> QED  BY <1>3 DEF Begin, ServerTypeOK, Exchanges

LEMMA RefuseType ==
  ASSUME ServerTypeOK, NEW c \in Slot, Refuse(c) \/ Rollback(c) \/ LosePush(c)
  PROVE  ServerTypeOK'
<1>1. c \in DOMAIN call /\ Settle(c, FALSE)  BY DEF Refuse, Rollback, LosePush, Phase
<1>2. Exchanges(call')  BY <1>1, ServerTypeParts, SettleType
<1> QED  BY <1>2 DEF Refuse, Rollback, LosePush, ServerTypeOK, Exchanges

LEMMA CommitFacts ==
  ASSUME ServerTypeOK, NEW c \in Slot, Commit(c),
         NEW w, w = WritesOf(call[c].snap, call[c].req)
  PROVE  /\ IsRequest(call[c].req) /\ IsDb(call[c].snap)
         /\ Accepts(call[c].snap, call[c].req)
         /\ IsWrites(w) /\ Traced(call[c].snap, call[c].req, w)
         /\ RowsStillThere(db, w)
         /\ ForeignKeys(db')
         /\ \E newRows \in SUBSET (RowId \ spent.row), newRooms \in SUBSET RoomId :
              /\ After(db', db, w, spent, newRooms, newRows)
              /\ spent' = [room |-> spent.room \cup newRooms, row |-> spent.row \cup newRows]
<1>1. c \in Phase("running") /\ Accepts(call[c].snap, call[c].req) /\ RowsStillThere(db, w)
  BY DEF Commit
<1>2. IsRequest(call[c].req) /\ IsDb(call[c].snap) /\ IsDb(db)
  BY <1>1, RunningType, ServerTypeParts
<1>3. IsWrites(w) /\ Traced(call[c].snap, call[c].req, w)  BY <1>1, <1>2, WritesFacts
<1>4. PICK roomKey \in Fresh(w.newRoom, RoomId, spent.room),
           rowKey \in Fresh(w.newRow, RowId, spent.row) :
        /\ ForeignKeys(Apply(db, w, roomKey, rowKey))
        /\ db' = Apply(db, w, roomKey, rowKey)
        /\ spent' = [room |-> spent.room \cup {roomKey[x] : x \in w.newRoom},
                     row  |-> spent.row \cup {rowKey[x] : x \in w.newRow}]
  BY DEF Commit
<1>5. After(db', db, w, spent, {roomKey[x] : x \in w.newRoom}, {rowKey[x] : x \in w.newRow})
  <2>1. After(Apply(db, w, roomKey, rowKey), db, w, spent,
              {roomKey[x] : x \in w.newRoom}, {rowKey[x] : x \in w.newRow})
    BY <1>2, <1>3, ApplyFacts, SMTT(60)
  <2> QED
    BY <1>4, <2>1
<1>6. {roomKey[x] : x \in w.newRoom} \in SUBSET RoomId
  BY DEF Fresh
<1>7. {rowKey[x] : x \in w.newRow} \in SUBSET (RowId \ spent.row)
  BY DEF Fresh
<1> QED  BY <1>1, <1>2, <1>3, <1>4, <1>5, <1>6, <1>7

LEMMA CommitType ==
  ASSUME ServerTypeOK, NEW c \in Slot, Commit(c)
  PROVE  ServerTypeOK'
<1> DEFINE q == call[c].req
           d == call[c].snap
           w == WritesOf(d, q)
<1> HIDE DEF w
<1>1. /\ IsRequest(q) /\ IsDb(d) /\ Accepts(d, q) /\ IsWrites(w)
      /\ \E newRows \in SUBSET (RowId \ spent.row), newRooms \in SUBSET RoomId :
           /\ After(db', db, w, spent, newRooms, newRows)
           /\ spent' = [room |-> spent.room \cup newRooms, row |-> spent.row \cup newRows]
  BY CommitFacts DEF w
<1>2. IsDb(db')  BY <1>1, AfterType, ServerTypeParts
<1>3. spent' \in [room : SUBSET RoomId, row : SUBSET RowId]
  BY <1>1 DEF ServerTypeOK
<1>4. c \in DOMAIN call  BY DEF Commit, Phase
<1>5. Exchanges(call') /\ vetted' \subseteq RoomId
  <2>1. CASE q.op = "decide"
    <3>1. q.room \in RoomId /\ q.room \in DOMAIN d.room
      BY <1>1, <2>1, RequestCases DEF Accepts
    <3>2. d.room[q.room].owner \in User
      <4>1. Partial(d.room, RoomId, Room)  BY <1>1 DEF IsDb
      <4>2. d.room[q.room] \in Room  BY <3>1, <4>1, PartialAt
      <4> QED  BY <4>2 DEF Room
    <3>3. IsCall([phase |-> "pushing", req |-> q, to |-> d.room[q.room].owner])
      BY <1>1, <2>1, <3>2 DEF IsCall
    <3>4. /\ call' = With(call, c, [phase |-> "pushing", req |-> q, to |-> d.room[q.room].owner])
          /\ vetted' = vetted \cup {r \in {q.room} : q.status = "APPROVED"}
      BY <2>1 DEF Commit
    <3> QED  BY <3>1, <3>3, <3>4, ServerTypeParts, WithExchange
  <2>2. CASE q.op # "decide"
    <3>1. Settle(c, TRUE) /\ vetted' = vetted  BY <2>2 DEF Commit
    <3> QED  BY <3>1, <1>4, ServerTypeParts, SettleType
  <2> QED  BY <2>1, <2>2
<1>6. wait' = wait /\ note' = note  BY DEF Commit
<1> QED  BY <1>2, <1>3, <1>5, <1>6 DEF ServerTypeOK, Exchanges

LEMMA DecidedType ==
  ASSUME ServerTypeOK, NEW c \in Phase("pushing")
  PROVE  /\ Decided(c) \in Note /\ c \in DOMAIN call
         /\ Decided(c).room = call[c].req.room /\ Decided(c).status = call[c].req.status
<1>1. c \in DOMAIN call /\ call[c].phase = "pushing" /\ IsCall(call[c])
  BY DEF Phase, ServerTypeOK
<1>2. IsRequest(call[c].req) /\ call[c].req.op = "decide" /\ call[c].to \in User
  BY <1>1 DEF IsCall
<1>3. call[c].req.room \in RoomId /\ call[c].req.status \in Decision
  BY <1>2, RequestCases
<1> QED  BY <1>1, <1>2, <1>3 DEF Decided, Note

LEMMA PushType ==
  ASSUME ServerTypeOK, NEW c \in Slot, Push(c)
  PROVE  ServerTypeOK'
<1>1. c \in Phase("pushing") /\ Settle(c, TRUE)  BY DEF Push
<1>2. Decided(c) \in Note /\ c \in DOMAIN call  BY <1>1, DecidedType
<1>3. Exchanges(call')  BY <1>1, <1>2, ServerTypeParts, SettleType
<1> QED  BY <1>2, <1>3 DEF Push, ServerTypeOK, Exchanges

LEMMA OfficeType ==
  ASSUME ServerTypeOK, NEW c \in Slot, Office(c)
  PROVE  ServerTypeOK'
<1>1. PICK q \in OfficeRequest : Send(c, q)  BY DEF Office
<1>2. spent.room \subseteq RoomId /\ DOMAIN db.role \subseteq User
  BY DEF ServerTypeOK, IsDb, Partial
<1>3. q \in Request /\ q.op # "edit"  BY <1>2 DEF OfficeRequest, Request
<1>4. Exchanges(call')  BY <1>1, <1>3, ServerTypeParts, SendType DEF IsRequest
<1> QED  BY <1>4 DEF Office, ServerTypeOK, Exchanges

-----------------------------------------------------------------------------
(* Type correctness of the phones.                                          *)

Views(f) ==
  /\ f = [p \in Phone |-> f[p]]
  /\ \A p \in Phone : /\ f[p] = [r \in DOMAIN f[p] |-> f[p][r]]
                       /\ DOMAIN f[p] \subseteq RoomId
                       /\ \A r \in DOMAIN f[p] : IsShown(f[p][r])

Editors(f) ==
  /\ f = [p \in DOMAIN f |-> f[p]] /\ DOMAIN f \subseteq Phone
  /\ \A p \in DOMAIN f : IsEditor(f[p])

LEMMA AppTypeParts ==
  AppTypeOK <=> Views(view) /\ Editors(editor) /\ due \in [Phone -> SUBSET Note]
BY DEF AppTypeOK, Views, Editors

(* The parts after a step.                                                  *)
LEMMA AppTypeNext ==
  ASSUME Views(view'), Editors(editor'), due' \in [Phone -> SUBSET Note]
  PROVE  AppTypeOK'
BY DEF AppTypeOK, Views, Editors

(* What a phone shows, and its editor, are replaced by values of their kind. *)
LEMMA ViewExcept ==
  ASSUME NEW f, Views(f), NEW p \in Phone, NEW x,
         x = [r \in DOMAIN x |-> x[r]], DOMAIN x \subseteq RoomId,
         \A r \in DOMAIN x : IsShown(x[r])
  PROVE  Views([f EXCEPT ![p] = x])
BY DEF Views

LEMMA EditorsFacts ==
  ASSUME NEW f, Editors(f), NEW p \in Phone
  PROVE  /\ Editors(Without(f, {p}))
         /\ \A e : IsEditor(e) => Editors(With(f, p, e))
BY DEF Editors, With, Without

LEMMA ShownType ==
  ASSUME AppTypeOK, NEW p \in Phone, NEW r \in DOMAIN view[p]
  PROVE  /\ r \in RoomId /\ IsShown(view[p][r])
         /\ view[p][r].max \in Capacity /\ IsList(view[p][r].members)
BY DEF AppTypeOK, IsShown

LEMMA OnScreenType ==
  ASSUME ServerTypeOK, OnScreen
  PROVE  ServerTypeOK'
BY DEF OnScreen, ServerTypeOK, IsDb, Partial, IsCall

(* TypeOK alone is not inductive: a phone loads the roles of the members,   *)
(* which exist by the foreign keys that every commit checks.                *)
Typed == TypeOK /\ ForeignKeys(db)

LEMMA MembersShownType ==
  ASSUME Typed, NEW r
  PROVE  IsList(MembersShown(db, r))
<1>1. IsDb(db)  BY DEF Typed, TypeOK, ServerTypeOK
<1>2. Residents(db, r) \subseteq DOMAIN db.role
  BY DEF Typed, ForeignKeys, Residents, OpenRows, RowsOf
<1>3. Partial(db.role, User, Role)  BY <1>1 DEF IsDb
<1> QED  BY <1>2, <1>3 DEF MembersShown, IsList, Partial

LEMMA LoadRoomsType ==
  ASSUME Typed, NEW p \in Phone, LoadRooms(p)
  PROVE  Typed'
<1> DEFINE x == [r \in {y \in DOMAIN db.room : db.room[y].owner = Holder[p]} |->
                   [status |-> db.room[r].status, max |-> db.room[r].max,
                    members |-> MembersShown(db, r)]]
<1>0. TypeOK  BY DEF Typed
<1>1. ASSUME NEW r \in DOMAIN x  PROVE r \in RoomId /\ IsShown(x[r])
  <2>1. Partial(db.room, RoomId, Room)  BY <1>0 DEF TypeOK, ServerTypeOK, IsDb
  <2>2. r \in RoomId /\ db.room[r] \in Room  BY <2>1, PartialAt
  <2> QED  BY <2>2, MembersShownType DEF IsShown, Room
<1>2. Views(view')
  <2>1. view' = [view EXCEPT ![p] = x]  BY DEF LoadRooms
  <2>2. DOMAIN x \subseteq RoomId /\ x = [r \in DOMAIN x |-> x[r]]  BY <1>1
  <2> HIDE DEF x
  <2> QED  BY <1>0, <1>1, <2>1, <2>2, AppTypeParts, ViewExcept DEF TypeOK
<1>3. ServerTypeOK' /\ db' = db  BY <1>0, OnScreenType DEF LoadRooms, TypeOK, OnScreen
<1>4. AppTypeOK'
  <2>1. editor' = editor /\ due' = due  BY DEF LoadRooms
  <2> QED  BY <1>0, <1>2, <2>1, AppTypeParts, AppTypeNext DEF TypeOK
<1> QED  BY <1>3, <1>4 DEF Typed, TypeOK, ForeignKeys

LEMMA HearType ==
  ASSUME Typed, NEW p \in Phone, Hear(p)
  PROVE  Typed'
<1>0. TypeOK  BY DEF Typed
<1>1. PICK n \in due[p] :
        /\ due' = [due EXCEPT ![p] = @ \ {n}]
        /\ view' = [view EXCEPT ![p] =
             [r \in DOMAIN view[p] |-> IF r = n.room THEN [view[p][r] EXCEPT !.status = n.status]
                                       ELSE view[p][r]]]
  BY DEF Hear
<1>2. n \in Note /\ n.status \in Status
  BY <1>0 DEF TypeOK, AppTypeOK, Note, Decision, Status
<1> DEFINE x == [r \in DOMAIN view[p] |->
                   IF r = n.room THEN [view[p][r] EXCEPT !.status = n.status] ELSE view[p][r]]
<1>3. ASSUME NEW r \in DOMAIN x  PROVE r \in RoomId /\ IsShown(x[r])
  <2>1. r \in RoomId /\ IsShown(view[p][r])  BY <1>0, ShownType DEF TypeOK
  <2>2. IsShown([view[p][r] EXCEPT !.status = n.status])  BY <1>2, <2>1 DEF IsShown
  <2> QED  BY <2>1, <2>2
<1>4. Views(view')
  <2>1. view' = [view EXCEPT ![p] = x] /\ x = [r \in DOMAIN x |-> x[r]]  BY <1>1
  <2> HIDE DEF x
  <2> QED  BY <1>0, <1>3, <2>1, AppTypeParts, ViewExcept DEF TypeOK
<1>5. due' \in [Phone -> SUBSET Note]  BY <1>0, <1>1 DEF TypeOK, AppTypeOK
<1>6. ServerTypeOK' /\ db' = db  BY <1>0, OnScreenType DEF Hear, TypeOK, OnScreen
<1>7. AppTypeOK'
  <2>1. editor' = editor  BY DEF Hear
  <2> QED  BY <1>0, <1>4, <1>5, <2>1, AppTypeParts, AppTypeNext DEF TypeOK
<1> QED  BY <1>6, <1>7 DEF Typed, TypeOK, ForeignKeys

LEMMA TapType ==
  ASSUME Typed, NEW p \in Phone, Tap(p)
  PROVE  Typed'
<1>1. AppTypeOK'  BY DEF Tap, Typed, TypeOK, AppTypeOK
<1>2. ServerTypeOK'  BY DEF Tap, Typed, TypeOK, ServerTypeOK
<1> QED  BY <1>1, <1>2 DEF Tap, Typed, TypeOK

(* Steps of the member editor change nothing but the editor.                *)
LEMMA EditorStepType ==
  ASSUME Typed, Editors(editor'), OnScreen, UNCHANGED <<view, due>>
  PROVE  Typed'
<1>1. AppTypeOK'  BY DEF Typed, TypeOK, AppTypeOK, Editors
<1>2. ServerTypeOK' /\ db' = db  BY OnScreenType DEF OnScreen, Typed, TypeOK
<1> QED  BY <1>1, <1>2 DEF Typed, TypeOK

LEMMA OpenEditorType ==
  ASSUME Typed, NEW p \in Phone, OpenEditor(p)
  PROVE  Typed'
<1>1. PICK r \in DOMAIN view[p], m \in User \cup {NoOne} :
        editor' = With(editor, p,
          [room |-> r, max |-> view[p][r].max, members |-> view[p][r].members,
           origin |-> DOMAIN view[p][r].members, chief |-> m])
  <2>1. PICK r \in DOMAIN view[p] :
          \E m \in IF {u \in DOMAIN view[p][r].members : view[p][r].members[u] = "MASTER"} = {}
                   THEN {NoOne}
                   ELSE {u \in DOMAIN view[p][r].members : view[p][r].members[u] = "MASTER"} :
            editor' = With(editor, p,
              [room |-> r, max |-> view[p][r].max, members |-> view[p][r].members,
               origin |-> DOMAIN view[p][r].members, chief |-> m])
    BY DEF OpenEditor
  <2>2. DOMAIN view[p][r].members \subseteq User
    BY ShownType DEF Typed, TypeOK, IsList, Partial
  <2> QED  BY <2>1, <2>2
<1>2. /\ r \in RoomId /\ view[p][r].max \in Capacity /\ IsList(view[p][r].members)
      /\ DOMAIN view[p][r].members \subseteq User
  BY ShownType DEF Typed, TypeOK, IsList, Partial
<1>3. IsEditor([room |-> r, max |-> view[p][r].max, members |-> view[p][r].members,
                origin |-> DOMAIN view[p][r].members, chief |-> m])
  BY <1>2 DEF IsEditor
<1>4. Editors(editor')  BY <1>1, <1>3, AppTypeParts, EditorsFacts DEF Typed, TypeOK
<1> QED  BY <1>4, EditorStepType DEF OpenEditor

LEMMA CloseEditorType ==
  ASSUME Typed, NEW p \in Phone, CloseEditor(p)
  PROVE  Typed'
<1>1. Editors(editor')  BY AppTypeParts, EditorsFacts DEF CloseEditor, Typed, TypeOK
<1> QED  BY <1>1, EditorStepType DEF CloseEditor

LEMMA EditedType ==
  ASSUME Typed, NEW p \in Phone, Editing(p),
         NEW list, IsList(list), NEW chief \in User \cup {NoOne},
         editor' = With(editor, p, Edited(editor[p], list, chief)),
         OnScreen, UNCHANGED <<view, due>>
  PROVE  Typed'
<1>1. IsEditor(editor[p])  BY DEF Editing, Typed, TypeOK, AppTypeOK
<1>2. IsEditor(Edited(editor[p], list, chief))  BY <1>1 DEF IsEditor, Edited
<1>3. Editors(editor')  BY <1>2, AppTypeParts, EditorsFacts DEF Typed, TypeOK
<1> QED  BY <1>3, EditorStepType

LEMMA RemoveMemberType ==
  ASSUME Typed, NEW p \in Phone, RemoveMember(p)
  PROVE  Typed'
<1> DEFINE e == editor[p]
<1>1. IsList(e.members) /\ e.chief \in User \cup {NoOne}
  BY DEF RemoveMember, Editing, Typed, TypeOK, AppTypeOK, IsEditor
<1>2. PICK u \in DOMAIN e.members :
        editor' = With(editor, p,
          Edited(e, Without(e.members, {u}),
                 IF e.members[u] = "MASTER" THEN NoOne ELSE e.chief))
  BY DEF RemoveMember
<1>3. IsList(Without(e.members, {u}))  BY <1>1 DEF IsList, Partial, Without
<1>4. (IF e.members[u] = "MASTER" THEN NoOne ELSE e.chief) \in User \cup {NoOne}  BY <1>1
<1> QED  BY <1>2, <1>3, <1>4, EditedType DEF RemoveMember

LEMMA AddMemberType ==
  ASSUME Typed, NEW p \in Phone, AddMember(p)
  PROVE  Typed'
<1> DEFINE e == editor[p]
<1>1. IsList(e.members) /\ e.chief \in User \cup {NoOne}
  BY DEF AddMember, Editing, Typed, TypeOK, AppTypeOK, IsEditor
<1>2. PICK u \in User : editor' = With(editor, p, Added(e, u))  BY DEF AddMember
<1>3. IsList(With(e.members, u, "MASTER")) /\ IsList(With(e.members, u, "MEMBER"))
  BY <1>1 DEF IsList, Partial, With, Role
<1>4. CASE DOMAIN e.members = {}
  <2>1. editor' = With(editor, p, Edited(e, With(e.members, u, "MASTER"), u))
    BY <1>2, <1>4 DEF Added
  <2> QED  BY <2>1, <1>3, EditedType DEF AddMember
<1>5. CASE DOMAIN e.members # {}
  <2>1. editor' = With(editor, p, Edited(e, With(e.members, u, "MEMBER"), e.chief))
    BY <1>2, <1>5 DEF Added
  <2> QED  BY <2>1, <1>1, <1>3, EditedType DEF AddMember
<1> QED  BY <1>4, <1>5

LEMMA ChooseMasterType ==
  ASSUME Typed, NEW p \in Phone, ChooseMaster(p)
  PROVE  Typed'
<1> DEFINE e == editor[p]
           list(u) == [v \in DOMAIN e.members |-> IF v = u THEN "MASTER"
                                                  ELSE IF v = e.chief THEN "MEMBER"
                                                  ELSE e.members[v]]
<1>1. IsList(e.members)
  BY DEF ChooseMaster, Editing, Typed, TypeOK, AppTypeOK, IsEditor
<1>2. PICK u \in DOMAIN e.members : editor' = With(editor, p, Edited(e, list(u), u))
  BY DEF ChooseMaster
<1>3. u \in User /\ IsList(list(u))  BY <1>1 DEF IsList, Partial, Role
<1> HIDE DEF list
<1> QED  BY <1>2, <1>3, EditedType DEF ChooseMaster

-----------------------------------------------------------------------------
(* Requests, answers and relaunches.                                        *)

LEMMA AskType ==
  ASSUME Typed, NEW p \in Phone, NEW q, IsRequest(q), Ask(p, q)
  PROVE  Typed'
<1>1. PICK c \in Slot : Send(c, q) /\ wait' = With(wait, p, c)  BY DEF Ask
<1>2. Exchanges(call')  BY <1>1, ServerTypeParts, SendType DEF Typed, TypeOK
<1>3. Partial(wait', Client, Slot)
  BY <1>1 DEF Typed, TypeOK, ServerTypeOK, Partial, With, Phone
<1>4. ServerTypeOK'  BY <1>2, <1>3 DEF Ask, Typed, TypeOK, ServerTypeOK, Exchanges
<1>5. AppTypeOK'  BY DEF Ask, Typed, TypeOK, AppTypeOK
<1> QED  BY <1>4, <1>5 DEF Ask, Typed, TypeOK

LEMMA SaveMembersType ==
  ASSUME Typed, NEW p \in Phone, SaveMembers(p)
  PROVE  Typed'
<1> DEFINE q == [op |-> "edit", room |-> editor[p].room, list |-> editor[p].members]
<1>1. Ask(p, q)  BY DEF SaveMembers
<1>2. editor[p].room \in RoomId /\ IsList(editor[p].members)
  BY DEF SaveMembers, Editing, Typed, TypeOK, AppTypeOK, IsEditor
<1>3. IsRequest(q)  BY <1>2 DEF IsRequest, IsEdit
<1> HIDE DEF q
<1> QED  BY <1>1, <1>3, AskType

LEMMA CreateRoomType ==
  ASSUME Typed, NEW p \in Phone, CreateRoom(p)
  PROVE  Typed'
<1>1. PICK m \in Capacity : Ask(p, [op |-> "create", by |-> Holder[p], max |-> m])
  BY DEF CreateRoom
<1>2. IsRequest([op |-> "create", by |-> Holder[p], max |-> m])
  BY HolderAssumption DEF IsRequest, Request
<1> QED  BY <1>1, <1>2, AskType

LEMMA UpdateRoomType ==
  ASSUME Typed, NEW p \in Phone, UpdateRoom(p)
  PROVE  Typed'
<1>1. PICK r \in DOMAIN view[p] :
        Ask(p, [op |-> "update", by |-> Holder[p], room |-> r, max |-> view[p][r].max])
  BY DEF UpdateRoom
<1>2. r \in RoomId /\ view[p][r].max \in Capacity  BY ShownType DEF Typed, TypeOK
<1>3. IsRequest([op |-> "update", by |-> Holder[p], room |-> r, max |-> view[p][r].max])
  BY <1>2, HolderAssumption DEF IsRequest, Request
<1> QED  BY <1>1, <1>3, AskType

LEMMA RemoveRoomType ==
  ASSUME Typed, NEW p \in Phone, RemoveRoom(p)
  PROVE  Typed'
<1>1. PICK r \in DOMAIN view[p] : Ask(p, [op |-> "delete", room |-> r])  BY DEF RemoveRoom
<1>2. r \in RoomId  BY ShownType DEF Typed, TypeOK
<1>3. IsRequest([op |-> "delete", room |-> r])  BY <1>2 DEF IsRequest, Request
<1> QED  BY <1>1, <1>3, AskType

(* One field of one room shown changes.                                     *)
LEMMA ShownExcept ==
  ASSUME AppTypeOK, NEW p \in Phone, NEW r,
         NEW x, \A y : IsShown(y) /\ y = view[p][r] => IsShown(x)
  PROVE  Views([view EXCEPT ![p][r] = x])
<1> DEFINE f == [view[p] EXCEPT ![r] = x]
<1>1. /\ DOMAIN f = DOMAIN view[p] /\ DOMAIN f \subseteq RoomId
      /\ f = [z \in DOMAIN f |-> f[z]]
  BY AppTypeParts DEF Views
<1>2. ASSUME NEW z \in DOMAIN f  PROVE IsShown(f[z])
  <2>1. IsShown(view[p][z])  BY <1>1, ShownType
  <2>2. CASE z = r  BY <2>1, <2>2, <1>1
  <2>3. CASE z # r  BY <2>1, <2>3, <1>1
  <2> QED  BY <2>2, <2>3
<1>3. [view EXCEPT ![p][r] = x] = [view EXCEPT ![p] = f]  OBVIOUS
<1> HIDE DEF f
<1> QED  BY <1>1, <1>2, <1>3, AppTypeParts, ViewExcept

LEMMA TypeCapacityType ==
  ASSUME Typed, NEW p \in Phone, TypeCapacity(p)
  PROVE  Typed'
<1>1. PICK r \in DOMAIN view[p], m \in Capacity :
        view' = [view EXCEPT ![p][r].max = m]
  BY DEF TypeCapacity
<1>2. IsShown([view[p][r] EXCEPT !.max = m])
  <2>1. IsShown(view[p][r])  BY ShownType DEF Typed, TypeOK
  <2> QED  BY <2>1 DEF IsShown
<1>3. Views(view')  BY <1>1, <1>2, ShownExcept DEF Typed, TypeOK
<1>4. ServerTypeOK' /\ db' = db  BY OnScreenType DEF TypeCapacity, OnScreen, Typed, TypeOK
<1>5. AppTypeOK'
  <2>1. editor' = editor /\ due' = due  BY DEF TypeCapacity
  <2> QED  BY <1>3, <2>1, AppTypeParts, AppTypeNext DEF Typed, TypeOK
<1> QED  BY <1>4, <1>5 DEF Typed, TypeOK

LEMMA ReceiveType ==
  ASSUME Typed, NEW p \in Phone, Receive(p)
  PROVE  Typed'
<1> DEFINE q == call[wait[p]].req
<1>1. IsRequest(q)  BY DEF Receive, Phase, Typed, TypeOK, ServerTypeOK, IsCall
<1>2. Exchanges(call') /\ Partial(wait', Client, Slot)
  BY ServerTypeParts, WithoutExchange DEF Receive, Typed, TypeOK, Partial, Without
<1>3. ServerTypeOK'  BY <1>2 DEF Receive, Typed, TypeOK, ServerTypeOK, Exchanges
<1>4. Editors(editor')
  BY AppTypeParts, EditorsFacts DEF Receive, Typed, TypeOK
<1>5. Views(view')
  <2>1. CASE view' = view  BY <2>1, AppTypeParts DEF Typed, TypeOK
  <2>2. CASE view' = [view EXCEPT ![p][q.room].status = "PENDING"]
    <3>1. \A y : IsShown(y) => IsShown([y EXCEPT !.status = "PENDING"])
      BY DEF IsShown, Status
    <3>2. view' = [view EXCEPT ![p][q.room] = [view[p][q.room] EXCEPT !.status = "PENDING"]]
      BY <2>2
    <3> QED  BY <3>1, <3>2, ShownExcept DEF Typed, TypeOK
  <2>3. CASE q.op = "edit" /\ view' = [view EXCEPT ![p][q.room].members = q.list]
    <3>1. IsList(q.list)  BY <1>1, <2>3 DEF IsRequest, IsEdit
    <3>2. \A y : IsShown(y) => IsShown([y EXCEPT !.members = q.list])
      BY <3>1 DEF IsShown
    <3>3. view' = [view EXCEPT ![p][q.room] = [view[p][q.room] EXCEPT !.members = q.list]]
      BY <2>3
    <3> QED  BY <3>2, <3>3, ShownExcept DEF Typed, TypeOK
  <2>4. CASE view' = [view EXCEPT ![p] = Nothing]
    BY <2>4, AppTypeParts, ViewExcept DEF Nothing, Typed, TypeOK
  <2> QED  BY <2>1, <2>2, <2>3, <2>4 DEF Receive
<1>6. AppTypeOK'
  <2>1. due' = due  BY DEF Receive
  <2> QED  BY <1>4, <1>5, <2>1, AppTypeParts, AppTypeNext DEF Typed, TypeOK
<1> QED  BY <1>3, <1>6 DEF Receive, Typed, TypeOK

LEMMA HangUpType ==
  ASSUME Typed, NEW p \in Phone, GiveUp(p) \/ Relaunch(p)
  PROVE  ServerTypeOK'
<1>1. Exchanges(call') /\ Partial(wait', Client, Slot)
  BY ServerTypeParts, WithoutExchange
  DEF GiveUp, Relaunch, Typed, TypeOK, Partial, Without
<1> QED  BY <1>1 DEF GiveUp, Relaunch, Typed, TypeOK, ServerTypeOK, Exchanges

LEMMA GiveUpType ==
  ASSUME Typed, NEW p \in Phone, GiveUp(p)
  PROVE  Typed'
<1>1. AppTypeOK'  BY DEF GiveUp, Typed, TypeOK, AppTypeOK
<1> QED  BY <1>1, HangUpType DEF GiveUp, Typed, TypeOK

LEMMA RelaunchType ==
  ASSUME Typed, NEW p \in Phone, Relaunch(p)
  PROVE  Typed'
<1>1. Views(view')
  BY AppTypeParts, ViewExcept DEF Relaunch, Nothing, Typed, TypeOK
<1>2. Editors(editor')  BY AppTypeParts, EditorsFacts DEF Relaunch, Typed, TypeOK
<1>3. due' \in [Phone -> SUBSET Note]
  BY DEF Relaunch, Typed, TypeOK, AppTypeOK, ServerTypeOK
<1>4. AppTypeOK'  BY <1>1, <1>2, <1>3 DEF AppTypeOK, Views, Editors
<1> QED  BY <1>4, HangUpType DEF Relaunch, Typed, TypeOK

-----------------------------------------------------------------------------
(* Every step of the server.                                                *)

LEMMA NotifyType ==
  ASSUME Typed, NEW c \in Slot, Notify(c)
  PROVE  Typed'
<1>1. ServerTypeOK' /\ db' = db  BY PushType DEF Notify, Push, Typed, TypeOK
<1>2. Decided(c) \in Note  BY DecidedType DEF Notify, Push, Typed, TypeOK
<1>3. due' \in [Phone -> SUBSET Note]  BY <1>2 DEF Notify, Typed, TypeOK, AppTypeOK
<1>4. AppTypeOK'  BY <1>3 DEF Notify, Typed, TypeOK, AppTypeOK
<1> QED  BY <1>1, <1>4 DEF Typed, TypeOK

LEMMA ServerStepType ==
  ASSUME Typed, Server
  PROVE  Typed'
<1>1. PICK c \in Slot : Begin(c) \/ Refuse(c) \/ Commit(c) \/ Rollback(c) \/ LosePush(c)
                         \/ Office(c)
  BY DEF Server
<1>2. AppTypeOK'  BY DEF Server, Typed, TypeOK, AppTypeOK
<1>3. ServerTypeOK' /\ ForeignKeys(db')
  <2>0. ServerTypeOK /\ ForeignKeys(db)  BY DEF Typed, TypeOK
  <2>1. CASE Begin(c)  BY <2>0, <2>1, BeginType DEF Begin
  <2>2. CASE Refuse(c)  BY <2>0, <2>2, RefuseType DEF Refuse
  <2>3. CASE Commit(c)  BY <2>0, <2>3, CommitType, CommitFacts
  <2>4. CASE Rollback(c)  BY <2>0, <2>4, RefuseType DEF Rollback
  <2>5. CASE LosePush(c)  BY <2>0, <2>5, RefuseType DEF LosePush
  <2>6. CASE Office(c)  BY <2>0, <2>6, OfficeType DEF Office
  <2> QED  BY <1>1, <2>1, <2>2, <2>3, <2>4, <2>5, <2>6
<1> QED  BY <1>2, <1>3 DEF Typed, TypeOK

LEMMA TypedInit == Init => Typed
<1> SUFFICES ASSUME Init  PROVE Typed
  OBVIOUS
<1>1. IsDb(db) /\ ForeignKeys(db)
  BY RoleAssumption DEF Init, ServerInit, IsDb, Partial, Nothing, ForeignKeys, Role
<1>2. ServerTypeOK
  BY <1>1 DEF Init, ServerInit, ServerTypeOK, Nothing, Partial
<1>3. AppTypeOK  BY DEF Init, AppTypeOK, Nothing
<1> QED  BY <1>1, <1>2, <1>3 DEF Typed, TypeOK

LEMMA TypedNext == Typed /\ [Next]_vars => Typed'
<1> SUFFICES ASSUME Typed, [Next]_vars  PROVE Typed'
  OBVIOUS
<1>1. CASE UNCHANGED vars
  BY <1>1 DEF vars, Typed, TypeOK, ServerTypeOK, AppTypeOK
<1>2. CASE Server  BY <1>2, ServerStepType
<1>3. CASE \E c \in Slot : Notify(c)  BY <1>3, NotifyType
<1>4. ASSUME NEW p \in Phone, App(p)  PROVE Typed'
  BY <1>4, LoadRoomsType, HearType, TapType, OpenEditorType, CloseEditorType,
     RemoveMemberType, AddMemberType, ChooseMasterType, SaveMembersType, CreateRoomType,
     TypeCapacityType, UpdateRoomType, RemoveRoomType, ReceiveType, GiveUpType, RelaunchType
  DEF App
<1> QED  BY <1>1, <1>2, <1>3, <1>4 DEF Next

(* The variables keep their types, and the foreign keys of the tables hold, *)
(* in every state of every instance: no role the phones load, cache, edit   *)
(* and send back is ever that of an account that does not exist.            *)
THEOREM TypeCorrect == Spec => []TypeOK
<1>1. Typed => TypeOK  BY DEF Typed
<1> QED  BY <1>1, TypedInit, TypedNext, PTL DEF Spec

-----------------------------------------------------------------------------
(* Owners do not rent, and tenants need approval.  Neither property is      *)
(* inductive: what a handler writes comes from its snapshot and from its    *)
(* request, the request from an editor, the editor from a list of rooms and *)
(* from notifications.  Clean says of each of these copies, however old,    *)
(* what the properties say of the database; V is the set of approved rooms. *)

NoOwner(S) == \A u \in S : InitRole[u] # "OWNER"

CleanDb(d, V) ==
  /\ \A u \in DOMAIN d.role : InitRole[u] = "OWNER" => d.role[u] = "OWNER"
  /\ NoOwner(Lodgers(d))
  /\ \A i \in DOMAIN d.row : d.row[i].room \in V
  /\ \A r \in DOMAIN d.room : d.room[r].status = "APPROVED" => r \in V

CleanRequest(q, V) == q.op = "edit" => q.room \in V /\ NoOwner(DOMAIN q.list)

CleanCall(x, V) ==
  /\ CleanRequest(x.req, V)
  /\ x.phase = "running" => CleanDb(x.snap, V)
  /\ x.phase = "pushing" => (x.req.status = "APPROVED" => x.req.room \in V)

CleanCalls(f, V) == \A c \in DOMAIN f : CleanCall(f[c], V)

CleanNotes(N, V) == \A n \in N : n.status = "APPROVED" => n.room \in V

CleanShown(r, x, V) == (x.status = "APPROVED" => r \in V) /\ NoOwner(DOMAIN x.members)

CleanViews(f, V) == \A p \in Phone : \A r \in DOMAIN f[p] : CleanShown(r, f[p][r], V)

CleanEditor(e, V) == e.room \in V /\ NoOwner(DOMAIN e.members) /\ NoOwner(e.origin)

CleanEditors(f, V) == \A p \in DOMAIN f : CleanEditor(f[p], V)

Clean ==
  /\ CleanDb(db, vetted)
  /\ CleanCalls(call, vetted)
  /\ CleanNotes(note, vetted)
  /\ CleanViews(view, vetted)
  /\ CleanEditors(editor, vetted)
  /\ \A p \in Phone : CleanNotes(due[p], vetted)

(* Rooms only ever join the set of approved rooms.                          *)
LEMMA CleanGrows ==
  ASSUME NEW V, NEW W, V \subseteq W
  PROVE  /\ \A d : CleanDb(d, V) => CleanDb(d, W)
         /\ \A q : CleanRequest(q, V) => CleanRequest(q, W)
         /\ \A x : CleanCall(x, V) => CleanCall(x, W)
         /\ \A f : CleanCalls(f, V) => CleanCalls(f, W)
         /\ \A N : CleanNotes(N, V) => CleanNotes(N, W)
         /\ \A f : CleanViews(f, V) => CleanViews(f, W)
         /\ \A f : CleanEditors(f, V) => CleanEditors(f, W)
<1>1. \A d : CleanDb(d, V) => CleanDb(d, W)  BY DEF CleanDb
<1>2. \A q : CleanRequest(q, V) => CleanRequest(q, W)  BY DEF CleanRequest
<1>3. \A x : CleanCall(x, V) => CleanCall(x, W)  BY <1>1, <1>2 DEF CleanCall
<1>4. \A f : CleanCalls(f, V) => CleanCalls(f, W)  BY <1>3 DEF CleanCalls
<1>5. \A N : CleanNotes(N, V) => CleanNotes(N, W)  BY DEF CleanNotes
<1>6. \A f : CleanViews(f, V) => CleanViews(f, W)  BY DEF CleanViews, CleanShown
<1>7. \A f : CleanEditors(f, V) => CleanEditors(f, W)  BY DEF CleanEditors, CleanEditor
<1> QED  BY <1>1, <1>2, <1>3, <1>4, <1>5, <1>6, <1>7

LEMMA WithClean ==
  ASSUME NEW f, NEW V, CleanCalls(f, V), NEW c
  PROVE  /\ \A x : CleanCall(x, V) => CleanCalls(With(f, c, x), V)
         /\ \A S : CleanCalls(Without(f, S), V)
BY DEF CleanCalls, With, Without

LEMMA SettleClean ==
  ASSUME CleanCalls(call, vetted), NEW c \in DOMAIN call, NEW ok, Settle(c, ok)
  PROVE  CleanCalls(call', vetted)
<1>1. CleanCall([phase |-> "answered", req |-> call[c].req, ok |-> ok], vetted)
  BY DEF CleanCalls, CleanCall
<1> QED  BY <1>1, WithClean DEF Settle

LEMMA SendClean ==
  ASSUME CleanCalls(call, vetted), NEW c, NEW q, CleanRequest(q, vetted), Send(c, q)
  PROVE  CleanCalls(call', vetted)
<1>1. CleanCall([phase |-> "sent", req |-> q], vetted)  BY DEF CleanCall
<1> QED  BY <1>1, WithClean DEF Send

-----------------------------------------------------------------------------
(* The commit of a clean request on a clean snapshot.                       *)
LEMMA CommitClean ==
  ASSUME Typed, Clean, NEW c \in Slot, Commit(c)
  PROVE  /\ vetted \subseteq vetted'
         /\ CleanDb(db', vetted')
         /\ CleanCalls(call', vetted')
<1> DEFINE q == call[c].req
           d == call[c].snap
           w == WritesOf(d, q)
<1> HIDE DEF w
<1>1. /\ c \in DOMAIN call /\ call[c].phase = "running"
      /\ CleanDb(d, vetted) /\ CleanRequest(q, vetted)
  BY DEF Commit, Phase, Clean, CleanCalls, CleanCall
<1>2. Traced(d, q, w)  BY CommitFacts DEF w, Typed, TypeOK
<1>3. PICK newRows \in SUBSET (RowId \ spent.row), newRooms \in SUBSET RoomId :
        After(db', db, w, spent, newRooms, newRows)
  BY CommitFacts DEF w, Typed, TypeOK
<1>4. CleanDb(db, vetted) /\ IsDb(db)  BY DEF Clean, Typed, TypeOK, ServerTypeOK
<1>5. /\ vetted \subseteq vetted'
      /\ q.op = "decide" => vetted' = vetted \cup {r \in {q.room} : q.status = "APPROVED"}
  BY DEF Commit
<1>6. ASSUME NEW u \in DOMAIN db'.role, InitRole[u] = "OWNER"
      PROVE  db'.role[u] = "OWNER"
  <2>1. u \in DOMAIN db.role /\ db.role[u] = "OWNER"  BY <1>3, <1>4, <1>6 DEF After, CleanDb
  <2>2. CASE u \in DOMAIN w.role
    <3>1. db'.role[u] = w.role[u]  BY <1>3, <2>2 DEF After
    <3>2. u \notin Lodgers(d)  BY <1>1, <1>6 DEF CleanDb, NoOwner
    <3>3. ~(q.op = "edit" /\ u \in DOMAIN q.list)
      BY <1>1, <1>6 DEF CleanRequest, NoOwner
    <3>4. u \in DOMAIN d.role /\ w.role[u] = d.role[u]  BY <1>2, <2>2, <3>2, <3>3 DEF Traced
    <3> QED  BY <1>1, <1>6, <3>1, <3>4 DEF CleanDb
  <2>3. CASE u \notin DOMAIN w.role  BY <1>3, <2>1, <2>3 DEF After
  <2> QED  BY <2>2, <2>3
<1>7. ASSUME NEW i \in DOMAIN db'.row
      PROVE  InitRole[db'.row[i].user] # "OWNER" /\ db'.row[i].room \in vetted
  <2>1. CASE i \in newRows
    <3>1. PICK x \in w.newRow : db'.row[i] = [user |-> x.user, room |-> x.room, open |-> TRUE]
      BY <1>3, <2>1 DEF After
    <3>2. q.op = "edit" /\ x.room = q.room /\ x.user \in DOMAIN q.list  BY <1>2 DEF Traced
    <3>3. db'.row[i].user = x.user /\ db'.row[i].room = x.room  BY <3>1
    <3> QED  BY <1>1, <3>2, <3>3 DEF CleanRequest, NoOwner
  <2>2. CASE i \notin newRows
    <3>1. i \in DOMAIN db.row  BY <1>3, <2>2 DEF After
    <3>2. db'.row[i] = [db.row[i] EXCEPT !.open = @ /\ i \notin w.close]
      BY <1>3, <2>2 DEF After
    <3>3. db'.row[i].user = db.row[i].user /\ db'.row[i].room = db.row[i].room
      BY <1>4, <3>1, <3>2, RowType DEF Row
    <3> QED  BY <1>4, <3>1, <3>3 DEF CleanDb, NoOwner, Lodgers
  <2> QED  BY <2>1, <2>2
<1>8. ASSUME NEW r \in DOMAIN db'.room, db'.room[r].status = "APPROVED"
      PROVE  r \in vetted'
  <2>1. \/ db'.room[r] \in w.newRoom
        \/ r \in DOMAIN w.room /\ db'.room[r] = w.room[r]
        \/ r \in DOMAIN db.room /\ db'.room[r] = db.room[r]
    BY <1>3 DEF After
  <2>2. CASE db'.room[r] \in w.newRoom  BY <1>2, <1>8, <2>2 DEF Traced
  <2>3. CASE r \in DOMAIN w.room /\ db'.room[r] = w.room[r]
    <3>1. q.op = "decide" /\ r = q.room /\ w.room[r].status = q.status
      BY <1>2, <1>8, <2>3 DEF Traced
    <3> QED  BY <1>5, <1>8, <2>3, <3>1
  <2>4. CASE r \in DOMAIN db.room /\ db'.room[r] = db.room[r]
    BY <1>4, <1>5, <1>8, <2>4 DEF CleanDb
  <2> QED  BY <2>1, <2>2, <2>3, <2>4
<1>9. CleanDb(db', vetted')
  BY <1>5, <1>6, <1>7, <1>8 DEF CleanDb, NoOwner, Lodgers
<1>10. CleanCalls(call', vetted')
  <2>1. CASE q.op = "decide"
    <3>1. call' = With(call, c, [phase |-> "pushing", req |-> q, to |-> d.room[q.room].owner])
      BY <2>1 DEF Commit
    <3>2. CleanCall([phase |-> "pushing", req |-> q, to |-> d.room[q.room].owner], vetted')
      BY <1>5, <2>1 DEF CleanCall, CleanRequest
    <3>3. CleanCalls(call, vetted')  BY <1>5, CleanGrows DEF Clean
    <3> QED  BY <3>1, <3>2, <3>3, WithClean
  <2>2. CASE q.op # "decide"
    <3>1. Settle(c, TRUE) /\ vetted' = vetted  BY <2>2 DEF Commit
    <3> QED  BY <1>1, <3>1, SettleClean DEF Clean
  <2> QED  BY <2>1, <2>2
<1> QED  BY <1>5, <1>9, <1>10

-----------------------------------------------------------------------------
(* The other steps keep every copy clean.                                   *)

LEMMA ServerStepClean ==
  ASSUME Typed, Clean, Server
  PROVE  Clean'
<1>1. PICK c \in Slot : Begin(c) \/ Refuse(c) \/ Commit(c) \/ Rollback(c) \/ LosePush(c)
                         \/ Office(c)
  BY DEF Server
<1>2. UNCHANGED <<view, editor, due>>  BY DEF Server
<1>3. CASE Commit(c)
  <2>1. vetted \subseteq vetted' /\ CleanDb(db', vetted') /\ CleanCalls(call', vetted')
    BY <1>3, CommitClean
  <2>2. note' = note  BY <1>3 DEF Commit
  <2> QED  BY <1>2, <2>1, <2>2, CleanGrows DEF Clean
<1>4. CASE Begin(c)
  <2>1. CleanCall([phase |-> "running", req |-> call[c].req, snap |-> db], vetted)
    BY <1>4 DEF Begin, Phase, Clean, CleanCalls, CleanCall
  <2>2. CleanCalls(call', vetted)  BY <1>4, <2>1, WithClean DEF Begin, Clean
  <2> QED  BY <1>2, <1>4, <2>2 DEF Begin, Clean
<1>5. CASE Refuse(c) \/ Rollback(c) \/ LosePush(c)
  <2>1. c \in DOMAIN call /\ Settle(c, FALSE) /\ UNCHANGED <<db, note, vetted>>
    BY <1>5 DEF Refuse, Rollback, LosePush, Phase
  <2>2. CleanCalls(call', vetted)  BY <2>1, SettleClean DEF Clean
  <2> QED  BY <1>2, <2>1, <2>2 DEF Clean
<1>6. CASE Office(c)
  <2>1. PICK q \in OfficeRequest : Send(c, q)  BY <1>6 DEF Office
  <2>2. CleanRequest(q, vetted)  BY DEF OfficeRequest, CleanRequest
  <2>3. CleanCalls(call', vetted)  BY <2>1, <2>2, SendClean DEF Clean
  <2> QED  BY <1>2, <1>6, <2>3 DEF Office, Clean
<1> QED  BY <1>1, <1>3, <1>4, <1>5, <1>6

LEMMA NotifyClean ==
  ASSUME Typed, Clean, NEW c \in Slot, Notify(c)
  PROVE  Clean'
<1>1. c \in DOMAIN call /\ call[c].phase = "pushing" /\ Push(c)
  BY DEF Notify, Push, Phase
<1>2. Decided(c).status = "APPROVED" => Decided(c).room \in vetted
  BY <1>1, DecidedType DEF Push, Clean, CleanCalls, CleanCall, Typed, TypeOK
<1>3. CleanNotes(note', vetted)  BY <1>1, <1>2 DEF Push, Clean, CleanNotes
<1>4. \A p \in Phone : CleanNotes(due'[p], vetted)
  BY <1>2 DEF Notify, Clean, CleanNotes, Typed, TypeOK, AppTypeOK
<1>5. CleanCalls(call', vetted)  BY <1>1, SettleClean DEF Push, Clean
<1> QED  BY <1>1, <1>3, <1>4, <1>5 DEF Notify, Push, Clean

LEMMA ListClean ==
  ASSUME Typed, Clean, NEW p \in Phone,
         LoadRooms(p) \/ Hear(p) \/ TypeCapacity(p)
  PROVE  Clean'
<1>0. CleanDb(db, vetted) /\ CleanViews(view, vetted)  BY DEF Clean
<1>1. CASE LoadRooms(p)
  <2>1. ASSUME NEW r \in DOMAIN db.room
        PROVE  CleanShown(r, [status |-> db.room[r].status, max |-> db.room[r].max,
                              members |-> MembersShown(db, r)], vetted)
    <3>1. IsDb(db)  BY DEF Typed, TypeOK, ServerTypeOK
    <3>2. NoOwner(Residents(db, r))  BY <1>0, <3>1, ResidentsType DEF CleanDb, NoOwner
    <3> QED  BY <1>0, <3>2 DEF CleanShown, CleanDb, MembersShown
  <2>2. view' = [view EXCEPT ![p] =
          [r \in {x \in DOMAIN db.room : db.room[x].owner = Holder[p]} |->
             [status |-> db.room[r].status, max |-> db.room[r].max,
              members |-> MembersShown(db, r)]]]
    BY <1>1 DEF LoadRooms
  <2>3. CleanViews(view', vetted)
    BY <1>0, <2>1, <2>2 DEF CleanViews, Typed, TypeOK, AppTypeOK
  <2> QED  BY <1>1, <2>3 DEF LoadRooms, OnScreen, Clean
<1>2. CASE Hear(p)
  <2>1. PICK n \in due[p] :
          /\ due' = [due EXCEPT ![p] = @ \ {n}]
          /\ view' = [view EXCEPT ![p] =
               [r \in DOMAIN view[p] |->
                  IF r = n.room THEN [view[p][r] EXCEPT !.status = n.status] ELSE view[p][r]]]
    BY <1>2 DEF Hear
  <2>2. n.status = "APPROVED" => n.room \in vetted  BY DEF Clean, CleanNotes
  <2>3. ASSUME NEW r \in DOMAIN view[p]
        PROVE  CleanShown(r, IF r = n.room THEN [view[p][r] EXCEPT !.status = n.status]
                             ELSE view[p][r], vetted)
    <3>1. IsShown(view[p][r])  BY ShownType DEF Typed, TypeOK
    <3>2. CleanShown(r, view[p][r], vetted)  BY <1>0 DEF CleanViews
    <3>3. [view[p][r] EXCEPT !.status = n.status].status = n.status
      BY <3>1 DEF IsShown
    <3>4. [view[p][r] EXCEPT !.status = n.status].members = view[p][r].members
      BY <3>1 DEF IsShown
    <3> QED  BY <2>2, <3>2, <3>3, <3>4 DEF CleanShown
  <2>4. CleanViews(view', vetted)
    BY <1>0, <2>1, <2>3 DEF CleanViews, Typed, TypeOK, AppTypeOK
  <2>5. \A k \in Phone : CleanNotes(due'[k], vetted)
    BY <2>1 DEF Clean, CleanNotes, Typed, TypeOK, AppTypeOK
  <2> QED  BY <1>2, <2>4, <2>5 DEF Hear, OnScreen, Clean
<1>3. CASE TypeCapacity(p)
  <2>1. PICK r \in DOMAIN view[p], m \in Capacity : view' = [view EXCEPT ![p][r].max = m]
    BY <1>3 DEF TypeCapacity
  <2>2. /\ [view[p][r] EXCEPT !.max = m].status = view[p][r].status
        /\ [view[p][r] EXCEPT !.max = m].members = view[p][r].members
    BY ShownType DEF Typed, TypeOK, IsShown
  <2>3. CleanShown(r, [view[p][r] EXCEPT !.max = m], vetted)
    BY <1>0, <2>2 DEF CleanViews, CleanShown
  <2>4. CleanViews(view', vetted)
    BY <1>0, <2>1, <2>3 DEF CleanViews, Typed, TypeOK, AppTypeOK
  <2> QED  BY <1>3, <2>4 DEF TypeCapacity, OnScreen, Clean
<1> QED  BY <1>1, <1>2, <1>3

LEMMA EditorsCleanFacts ==
  ASSUME CleanEditors(editor, vetted), NEW p
  PROVE  /\ CleanEditors(Without(editor, {p}), vetted)
         /\ \A e : CleanEditor(e, vetted) => CleanEditors(With(editor, p, e), vetted)
BY DEF CleanEditors, With, Without

LEMMA EditorClean ==
  ASSUME Typed, Clean, NEW p \in Phone,
         \/ OpenEditor(p) \/ CloseEditor(p) \/ RemoveMember(p) \/ AddMember(p)
         \/ ChooseMaster(p)
  PROVE  Clean'
<1> DEFINE e == editor[p]
<1>0. CleanEditors(editor, vetted)  BY DEF Clean
<1>1. OnScreen /\ UNCHANGED <<view, due>>
  BY DEF OpenEditor, CloseEditor, RemoveMember, AddMember, ChooseMaster
<1>2. CleanEditors(editor', vetted)
  <2>1. CASE OpenEditor(p)
    <3>1. PICK r \in DOMAIN view[p] :
            /\ view[p][r].status = "APPROVED"
            /\ \E m : editor' = With(editor, p,
                 [room |-> r, max |-> view[p][r].max, members |-> view[p][r].members,
                  origin |-> DOMAIN view[p][r].members, chief |-> m])
      BY <2>1 DEF OpenEditor
    <3>2. r \in vetted /\ NoOwner(DOMAIN view[p][r].members)
      BY <3>1 DEF Clean, CleanViews, CleanShown
    <3>3. PICK m : editor' = With(editor, p,
            [room |-> r, max |-> view[p][r].max, members |-> view[p][r].members,
             origin |-> DOMAIN view[p][r].members, chief |-> m])
      BY <3>1
    <3>4. CleanEditor([room |-> r, max |-> view[p][r].max, members |-> view[p][r].members,
                       origin |-> DOMAIN view[p][r].members, chief |-> m], vetted)
      BY <3>2 DEF CleanEditor
    <3> QED  BY <1>0, <3>3, <3>4, EditorsCleanFacts
  <2>2. CASE CloseEditor(p)  BY <1>0, <2>2, EditorsCleanFacts DEF CloseEditor
  <2>3. ASSUME Editing(p),
               NEW list, NoOwner(DOMAIN list), NEW chief,
               editor' = With(editor, p, Edited(e, list, chief))
        PROVE  CleanEditors(editor', vetted)
    <3>1. CleanEditor(e, vetted)  BY <1>0, <2>3 DEF Editing, CleanEditors
    <3>2. CleanEditor(Edited(e, list, chief), vetted)  BY <2>3, <3>1 DEF Edited, CleanEditor
    <3> QED  BY <1>0, <2>3, <3>2, EditorsCleanFacts
  <2>4. ASSUME Editing(p)  PROVE NoOwner(DOMAIN e.members) /\ NoOwner(e.origin)
    BY <1>0, <2>4 DEF Editing, CleanEditors, CleanEditor
  <2>5. CASE RemoveMember(p)
    <3>1. PICK u, chief : editor' = With(editor, p, Edited(e, Without(e.members, {u}), chief))
      BY <2>5 DEF RemoveMember
    <3>2. NoOwner(DOMAIN Without(e.members, {u}))
      BY <2>4, <2>5 DEF RemoveMember, NoOwner, Without
    <3> QED  BY <2>3, <2>5, <3>1, <3>2 DEF RemoveMember
  <2>6. CASE AddMember(p)
    <3>1. PICK u : /\ u \in e.origin \/ MayMoveIn(db, u)
                   /\ editor' = With(editor, p, Added(e, u))
      BY <2>6 DEF AddMember
    <3>2. InitRole[u] # "OWNER"
      BY <2>4, <2>6, <3>1 DEF AddMember, MayMoveIn, NoOwner, Clean, CleanDb
    <3>3. \A x : NoOwner(DOMAIN With(e.members, u, x))
      BY <2>4, <2>6, <3>2 DEF AddMember, NoOwner, With
    <3>4. PICK x, chief : editor' = With(editor, p, Edited(e, With(e.members, u, x), chief))
      BY <3>1 DEF Added
    <3> QED  BY <2>3, <2>6, <3>3, <3>4 DEF AddMember
  <2>7. CASE ChooseMaster(p)
    <3>1. PICK u : editor' = With(editor, p,
            Edited(e, [v \in DOMAIN e.members |-> IF v = u THEN "MASTER"
                                                  ELSE IF v = e.chief THEN "MEMBER"
                                                  ELSE e.members[v]], u))
      BY <2>7 DEF ChooseMaster
    <3>2. NoOwner(DOMAIN [v \in DOMAIN e.members |-> IF v = u THEN "MASTER"
                                                     ELSE IF v = e.chief THEN "MEMBER"
                                                     ELSE e.members[v]])
      BY <2>4, <2>7 DEF ChooseMaster
    <3> QED  BY <2>3, <2>7, <3>1, <3>2 DEF ChooseMaster
  <2> QED  BY <2>1, <2>2, <2>5, <2>6, <2>7
<1> QED  BY <1>1, <1>2 DEF OnScreen, Clean

LEMMA AskClean ==
  ASSUME Typed, Clean, NEW p \in Phone,
         SaveMembers(p) \/ CreateRoom(p) \/ UpdateRoom(p) \/ RemoveRoom(p)
  PROVE  Clean'
<1>1. PICK q : Ask(p, q) /\ CleanRequest(q, vetted)
  <2>1. CASE SaveMembers(p)
    <3>1. Ask(p, [op |-> "edit", room |-> editor[p].room, list |-> editor[p].members])
      BY <2>1 DEF SaveMembers
    <3>2. CleanEditor(editor[p], vetted)
      BY <2>1 DEF SaveMembers, Editing, Clean, CleanEditors
    <3>3. CleanRequest([op |-> "edit", room |-> editor[p].room, list |-> editor[p].members],
                       vetted)
      BY <3>2 DEF CleanEditor, CleanRequest
    <3> QED  BY <3>1, <3>3
  <2>2. CASE CreateRoom(p) \/ UpdateRoom(p) \/ RemoveRoom(p)
    <3>1. CASE CreateRoom(p)
      <4>1. PICK m : Ask(p, [op |-> "create", by |-> Holder[p], max |-> m])
        BY <3>1 DEF CreateRoom
      <4> QED  BY <4>1 DEF CleanRequest
    <3>2. CASE UpdateRoom(p)
      <4>1. PICK r, m : Ask(p, [op |-> "update", by |-> Holder[p], room |-> r, max |-> m])
        BY <3>2 DEF UpdateRoom
      <4> QED  BY <4>1 DEF CleanRequest
    <3>3. CASE RemoveRoom(p)
      <4>1. PICK r : Ask(p, [op |-> "delete", room |-> r])  BY <3>3 DEF RemoveRoom
      <4> QED  BY <4>1 DEF CleanRequest
    <3> QED  BY <2>2, <3>1, <3>2, <3>3
  <2> QED  BY <2>1, <2>2
<1>2. PICK c \in Slot : Send(c, q)  BY <1>1 DEF Ask
<1>3. CleanCalls(call', vetted)  BY <1>1, <1>2, SendClean DEF Clean
<1> QED  BY <1>1, <1>3 DEF Ask, Clean

LEMMA AnswerClean ==
  ASSUME Typed, Clean, NEW p \in Phone,
         Tap(p) \/ Receive(p) \/ GiveUp(p) \/ Relaunch(p)
  PROVE  Clean'
<1>1. CASE Tap(p)  BY <1>1 DEF Tap, Clean, CleanNotes
<1>2. CASE GiveUp(p)
  <2>1. CleanCalls(call', vetted)  BY <1>2, WithClean DEF GiveUp, Clean
  <2> QED  BY <1>2, <2>1 DEF GiveUp, Clean
<1>3. CASE Relaunch(p)
  <2>1. CleanCalls(call', vetted)  BY <1>3, WithClean DEF Relaunch, Clean
  <2>2. CleanViews(view', vetted)
    BY <1>3 DEF Relaunch, Clean, CleanViews, Nothing, Typed, TypeOK, AppTypeOK
  <2>3. CleanEditors(editor', vetted)  BY <1>3, EditorsCleanFacts DEF Relaunch, Clean
  <2>4. \A k \in Phone : CleanNotes(due'[k], vetted)
    BY <1>3 DEF Relaunch, Clean, CleanNotes, Typed, TypeOK, AppTypeOK
  <2> QED  BY <1>3, <2>1, <2>2, <2>3, <2>4 DEF Relaunch, Clean
<1>4. CASE Receive(p)
  <2> DEFINE q == call[wait[p]].req
  <2>1. CleanCalls(call', vetted)  BY <1>4, WithClean DEF Receive, Clean
  <2>2. CleanEditors(editor', vetted)  BY <1>4, EditorsCleanFacts DEF Receive, Clean
  <2>3. CleanRequest(q, vetted)  BY <1>4 DEF Receive, Phase, Clean, CleanCalls, CleanCall
  <2>4. CleanViews(view', vetted)
    <3>0. CleanViews(view, vetted)  BY DEF Clean
    <3>1. CASE view' = [view EXCEPT ![p][q.room].status = "PENDING"]
      <4>1. ASSUME NEW r \in DOMAIN view[p]
            PROVE  CleanShown(r, [view[p][r] EXCEPT !.status = "PENDING"], vetted)
        <5>1. IsShown(view[p][r])  BY ShownType DEF Typed, TypeOK
        <5>2. /\ [view[p][r] EXCEPT !.status = "PENDING"].status = "PENDING"
              /\ [view[p][r] EXCEPT !.status = "PENDING"].members = view[p][r].members
          BY <5>1 DEF IsShown
        <5> QED  BY <3>0, <5>2 DEF CleanViews, CleanShown
      <4> QED  BY <3>0, <3>1, <4>1 DEF CleanViews, Typed, TypeOK, AppTypeOK
    <3>2. CASE q.op = "edit" /\ view' = [view EXCEPT ![p][q.room].members = q.list]
      <4>1. ASSUME NEW r \in DOMAIN view[p]
            PROVE  CleanShown(r, [view[p][r] EXCEPT !.members = q.list], vetted)
        <5>1. IsShown(view[p][r])  BY ShownType DEF Typed, TypeOK
        <5>2. /\ [view[p][r] EXCEPT !.members = q.list].status = view[p][r].status
              /\ [view[p][r] EXCEPT !.members = q.list].members = q.list
          BY <5>1 DEF IsShown
        <5> QED  BY <2>3, <3>0, <3>2, <5>2 DEF CleanViews, CleanShown, CleanRequest
      <4> QED  BY <3>0, <3>2, <4>1 DEF CleanViews, Typed, TypeOK, AppTypeOK
    <3>3. CASE view' = [view EXCEPT ![p] = Nothing]
      BY <3>0, <3>3 DEF CleanViews, Nothing, Typed, TypeOK, AppTypeOK
    <3>4. CASE view' = view  BY <3>0, <3>4
    <3> QED  BY <1>4, <3>1, <3>2, <3>3, <3>4 DEF Receive
  <2> QED  BY <1>4, <2>1, <2>2, <2>4 DEF Receive, Clean
<1> QED  BY <1>1, <1>2, <1>3, <1>4

LEMMA CleanInit == Init => Clean
BY DEF Init, ServerInit, Nothing, Clean, CleanDb, CleanCalls, CleanNotes, CleanViews,
       CleanEditors, NoOwner, Lodgers

LEMMA CleanNext == Typed /\ Clean /\ [Next]_vars => Clean'
<1> SUFFICES ASSUME Typed, Clean, [Next]_vars  PROVE Clean'
  OBVIOUS
<1>1. CASE UNCHANGED vars
  BY <1>1 DEF vars, Clean
<1>2. CASE Server  BY <1>2, ServerStepClean
<1>3. CASE \E c \in Slot : Notify(c)  BY <1>3, NotifyClean
<1>4. ASSUME NEW p \in Phone, App(p)  PROVE Clean'
  BY <1>4, ListClean, EditorClean, AskClean, AnswerClean DEF App
<1> QED  BY <1>1, <1>2, <1>3, <1>4 DEF Next

LEMMA CleanAlways == Spec => [](Typed /\ Clean)
BY TypedInit, TypedNext, CleanInit, CleanNext, PTL DEF Spec

(* No house owner is ever entered as a tenant or loses the role HOUSE_OWNER *)
(* (UserController.findExitedUserInRoom, RoomController.editMember), for    *)
(* any number of phones, overlapping handlers, retries and relaunches.      *)
THEOREM OwnersNeverRent == Spec => []OwnersDoNotRent
<1>1. Clean => OwnersDoNotRent
  BY DEF Clean, CleanDb, NoOwner, Lodgers, OwnersDoNotRent
<1> QED  BY <1>1, CleanAlways, PTL

(* No stay is ever recorded for a room that was never approved, although    *)
(* only the phone asks for the status (RoomDetailVC.onClickBtnEdit).        *)
THEOREM TenantsHaveApproval == Spec => []TenantsNeedApproval
<1>1. Clean => TenantsNeedApproval  BY DEF Clean, CleanDb, TenantsNeedApproval
<1> QED  BY <1>1, CleanAlways, PTL

-----------------------------------------------------------------------------
(* tb_room_has_user implements Tenancy.  A handler that overlaps others     *)
(* names rows by the keys of its snapshot: Recorded says that a key still   *)
(* in the database is then the same user's stay in the same room.           *)

SameStays(d, e) ==
  \A i \in DOMAIN d.row \cap DOMAIN e.row :
    d.row[i].user = e.row[i].user /\ d.row[i].room = e.row[i].room

Recorded ==
  /\ DOMAIN db.row \subseteq spent.row
  /\ DOMAIN db.room \subseteq spent.room
  /\ \A c \in Phase("running") :
       DOMAIN call[c].snap.row \subseteq spent.row /\ SameStays(call[c].snap, db)

(* The running exchanges of an answer, a push or a hang-up are those of     *)
(* before, on the same snapshots.                                           *)
LEMMA RecordedKept ==
  ASSUME Recorded, UNCHANGED <<db, spent>>,
         \A c \in Phase("running")' : c \in Phase("running") /\ call'[c] = call[c]
  PROVE  Recorded'
BY DEF Recorded

LEMMA SettleRunning ==
  ASSUME NEW c, NEW ok, Settle(c, ok)
  PROVE  \A x \in Phase("running")' : x \in Phase("running") /\ call'[x] = call[x] /\ x # c
BY DEF Settle, With, Without, Phase

LEMMA WithoutRunning ==
  ASSUME NEW S, call' = Without(call, S)
  PROVE  \A x \in Phase("running")' : x \in Phase("running") /\ call'[x] = call[x]
BY DEF Without, Phase

LEMMA SendRunning ==
  ASSUME NEW c, NEW q, Send(c, q)
  PROVE  \A x \in Phase("running")' : x \in Phase("running") /\ call'[x] = call[x]
BY DEF Send, With, Phase

(* What a commit does to a row that is neither inserted nor deleted.        *)
LEMMA CommitRows ==
  ASSUME Typed, Recorded, NEW c \in Slot, Commit(c),
         NEW w, w = WritesOf(call[c].snap, call[c].req),
         NEW newRooms, NEW newRows, After(db', db, w, spent, newRooms, newRows)
  PROVE  /\ newRows \cap spent.row = {} /\ newRooms \cap spent.room = {}
         /\ w.newRow = {} => newRows = {}
         /\ \A i \in DOMAIN db'.row \ newRows :
              /\ i \in DOMAIN db.row
              /\ db'.row[i] = [db.row[i] EXCEPT !.open = @ /\ i \notin w.close]
              /\ db'.row[i].user = db.row[i].user /\ db'.row[i].room = db.row[i].room
              /\ i \notin w.close => db'.row[i] = db.row[i]
<1>1. newRows \cap spent.row = {} /\ (w.newRow = {} => newRows = {})  BY DEF After
<1>2. newRooms \cap spent.room = {}  BY DEF After
<1>3. ASSUME NEW i \in DOMAIN db'.row \ newRows
      PROVE  /\ i \in DOMAIN db.row
             /\ db'.row[i] = [db.row[i] EXCEPT !.open = @ /\ i \notin w.close]
             /\ db'.row[i].user = db.row[i].user /\ db'.row[i].room = db.row[i].room
             /\ i \notin w.close => db'.row[i] = db.row[i]
  <2>1. i \in DOMAIN db.row  BY <1>3 DEF After
  <2>2. db'.row[i] = [db.row[i] EXCEPT !.open = @ /\ i \notin w.close]  BY <1>3 DEF After
  <2>3. db.row[i] \in Row  BY <2>1, RowType DEF Typed, TypeOK, ServerTypeOK
  <2>4. db'.row[i].user = db.row[i].user /\ db'.row[i].room = db.row[i].room
    BY <2>2, <2>3 DEF Row
  <2>5. ASSUME i \notin w.close  PROVE db'.row[i] = db.row[i]
    BY <2>2, <2>3, <2>5 DEF Row
  <2> QED  BY <2>1, <2>2, <2>4, <2>5
<1> QED  BY <1>1, <1>2, <1>3

LEMMA CommitRecorded ==
  ASSUME Typed, Recorded, NEW c \in Slot, Commit(c)
  PROVE  Recorded'
<1> DEFINE w == WritesOf(call[c].snap, call[c].req)
<1> HIDE DEF w
<1>1. PICK newRows \in SUBSET (RowId \ spent.row), newRooms \in SUBSET RoomId :
        /\ After(db', db, w, spent, newRooms, newRows)
        /\ spent' = [room |-> spent.room \cup newRooms, row |-> spent.row \cup newRows]
  BY CommitFacts DEF w, Typed, TypeOK
<1>2. DOMAIN db'.row \subseteq spent'.row /\ DOMAIN db'.room \subseteq spent'.room
  BY <1>1 DEF After, Recorded
<1>3. \A i \in DOMAIN db'.row :
        \/ i \notin spent.row
        \/ i \in DOMAIN db.row /\ db'.row[i].user = db.row[i].user /\ db'.row[i].room = db.row[i].room
  BY <1>1, CommitRows DEF w
<1>4. \A x \in Phase("running")' : x \in Phase("running") /\ call'[x] = call[x]
  <2>1. CASE call[c].req.op = "decide"  BY <2>1 DEF Commit, With, Phase
  <2>2. CASE call[c].req.op # "decide"  BY <2>2, SettleRunning DEF Commit
  <2> QED  BY <2>1, <2>2
<1>5. ASSUME NEW x \in Phase("running")'
      PROVE  DOMAIN call'[x].snap.row \subseteq spent'.row /\ SameStays(call'[x].snap, db')
  BY <1>1, <1>3, <1>4 DEF Recorded, SameStays
<1> QED  BY <1>2, <1>5 DEF Recorded

LEMMA RecordedInit == Init => Recorded
BY DEF Init, ServerInit, Recorded, Nothing, Phase

LEMMA RecordedNext == Typed /\ Recorded /\ [Next]_vars => Recorded'
<1> SUFFICES ASSUME Typed, Recorded, [Next]_vars  PROVE Recorded'
  OBVIOUS
<1>1. CASE UNCHANGED vars  BY <1>1 DEF vars, Recorded, Phase
<1>2. CASE Server
  <2>1. PICK c \in Slot : Begin(c) \/ Refuse(c) \/ Commit(c) \/ Rollback(c) \/ LosePush(c)
                           \/ Office(c)
    BY <1>2 DEF Server
  <2>2. CASE Begin(c)
    <3>1. \A x \in Phase("running")' :
            call'[x].snap = db \/ (x \in Phase("running") /\ call'[x] = call[x])
      BY <2>2 DEF Begin, With, Phase
    <3> QED  BY <2>2, <3>1 DEF Begin, Recorded, SameStays
  <2>3. CASE Refuse(c)  BY <2>3, SettleRunning, RecordedKept DEF Refuse
  <2>4. CASE Commit(c)  BY <2>4, CommitRecorded
  <2>5. CASE Rollback(c)  BY <2>5, SettleRunning, RecordedKept DEF Rollback
  <2>6. CASE LosePush(c)  BY <2>6, SettleRunning, RecordedKept DEF LosePush
  <2>7. CASE Office(c)  BY <2>7, SendRunning, RecordedKept DEF Office
  <2> QED  BY <2>1, <2>2, <2>3, <2>4, <2>5, <2>6, <2>7
<1>3. CASE \E c \in Slot : Notify(c)
  BY <1>3, SettleRunning, RecordedKept DEF Notify, Push
<1>4. ASSUME NEW p \in Phone, App(p)  PROVE Recorded'
  <2>1. CASE OnScreen \/ Tap(p)
    BY <2>1, RecordedKept DEF OnScreen, Tap, Phase
  <2>2. CASE \E q : Ask(p, q)  BY <2>2, SendRunning, RecordedKept DEF Ask
  <2>3. CASE Receive(p) \/ GiveUp(p) \/ Relaunch(p)
    BY <2>3, WithoutRunning, RecordedKept DEF Receive, GiveUp, Relaunch
  <2>4. OnScreen \/ Tap(p) \/ (\E q : Ask(p, q)) \/ Receive(p) \/ GiveUp(p) \/ Relaunch(p)
    BY <1>4 DEF App, LoadRooms, Hear, OpenEditor, CloseEditor, RemoveMember, AddMember,
      ChooseMaster, SaveMembers, CreateRoom, TypeCapacity, UpdateRoom, RemoveRoom
  <2> QED  BY <2>1, <2>2, <2>3, <2>4
<1> QED  BY <1>1, <1>2, <1>3, <1>4 DEF Next

-----------------------------------------------------------------------------
(* A commit is a step of Tenancy, or leaves the history alone.              *)
LEMMA CommitHistory ==
  ASSUME Typed, Clean, Recorded, NEW c \in Slot, Commit(c)
  PROVE  [History!Next]_(History!vars)
<1> DEFINE q == call[c].req
           d == call[c].snap
           w == WritesOf(d, q)
<1> HIDE DEF w
<1>1. PICK newRows \in SUBSET (RowId \ spent.row), newRooms \in SUBSET RoomId :
        /\ After(db', db, w, spent, newRooms, newRows)
        /\ spent' = [room |-> spent.room \cup newRooms, row |-> spent.row \cup newRows]
  BY CommitFacts DEF w, Typed, TypeOK
<1>2. /\ IsRequest(q) /\ IsWrites(w) /\ Traced(d, q, w)
      /\ RowsStillThere(db, w) /\ ForeignKeys(db')
  BY CommitFacts DEF w, Typed, TypeOK
<1>3. c \in Phase("running") /\ CleanRequest(q, vetted) /\ SameStays(d, db)
  BY DEF Commit, Phase, Clean, CleanCalls, CleanCall, Recorded
<1>4. /\ newRows \cap spent.row = {} /\ newRooms \cap spent.room = {}
      /\ w.newRow = {} => newRows = {}
      /\ \A i \in DOMAIN db'.row \ newRows :
           /\ i \in DOMAIN db.row
           /\ db'.row[i] = [db.row[i] EXCEPT !.open = @ /\ i \notin w.close]
           /\ db'.row[i].user = db.row[i].user /\ db'.row[i].room = db.row[i].room
           /\ i \notin w.close => db'.row[i] = db.row[i]
  BY <1>1, CommitRows DEF w
<1>5. /\ DOMAIN db'.row = (DOMAIN db.row \ w.dropRow) \cup newRows
      /\ DOMAIN db'.room = (DOMAIN db.room \ w.dropRoom) \cup newRooms
      /\ db'.row = [i \in DOMAIN db'.row |-> db'.row[i]]
      /\ db.row = [i \in DOMAIN db.row |-> db.row[i]]
  BY <1>1 DEF After, Typed, TypeOK, ServerTypeOK, IsDb, Partial
<1>6. spent'.row = spent.row \cup newRows  BY <1>1
<1>7. CASE q.op = "edit"
  <2>1. w.dropRow = {}  BY <1>2, <1>7 DEF Traced, RowsIn
  <2>2. w.close \subseteq History!In(q.room)
    <3>1. SUFFICES ASSUME NEW i \in w.close  PROVE i \in DOMAIN db.row /\ db.row[i].room = q.room
      BY DEF History!In
    <3>2. i \in DOMAIN d.row /\ d.row[i].room = q.room  BY <1>2 DEF Traced, RowsOf
    <3>3. i \in DOMAIN db.row  BY <1>2 DEF RowsStillThere
    <3> QED  BY <1>3, <3>2, <3>3 DEF SameStays
  <2>3. ASSUME NEW i \in newRows
        PROVE  /\ \E u \in {v \in User : InitRole[v] # "OWNER"} :
                    db'.row[i] = [user |-> u, room |-> q.room, open |-> TRUE]
               /\ q.room \in vetted
    <3>1. PICK x \in w.newRow : db'.row[i] = [user |-> x.user, room |-> x.room, open |-> TRUE]
      BY <1>1, <1>5 DEF After
    <3>2. x.room = q.room /\ x.user \in DOMAIN q.list  BY <1>2 DEF Traced
    <3>3. x.user \in User  BY <1>2 DEF IsWrites, Stay
    <3>4. InitRole[x.user] # "OWNER" /\ q.room \in vetted
      BY <1>3, <1>7, <3>2 DEF CleanRequest, NoOwner
    <3> QED  BY <3>1, <3>2, <3>3, <3>4
  <2>4. vetted' = vetted  BY <1>7 DEF Commit
  <2>5. \A i \in DOMAIN db.row : i \in DOMAIN db'.row \ newRows
    BY <1>4, <1>5, <2>1 DEF Recorded
  <2>6. History!Settle(q.room, w.close, newRows)
    BY <1>4, <1>5, <1>6, <2>1, <2>2, <2>3, <2>4, <2>5 DEF History!Settle
  <2>7. q.room \in RoomId /\ w.close \in SUBSET RowId /\ newRows \in SUBSET RowId
    BY <1>2, <1>7, RequestCases DEF IsWrites
  <2> QED  BY <2>6, <2>7 DEF History!Next
<1>8. CASE q.op # "edit"
  <2>1. newRows = {} /\ w.close = {}  BY <1>2, <1>4, <1>8 DEF Traced
  <2>2. spent'.row = spent.row  BY <1>6, <2>1
  <2>3. CASE w.dropRoom = {}
    <3>1. w.dropRow = {}  BY <1>2, <2>3 DEF Traced, RowsIn
    <3>2. db'.row = db.row
      <4>1. DOMAIN db'.row = DOMAIN db.row  BY <1>5, <2>1, <3>1
      <4>2. \A i \in DOMAIN db.row : db'.row[i] = db.row[i]  BY <1>4, <2>1, <4>1
      <4> QED  BY <1>5, <4>1, <4>2
    <3>3. CASE q.op = "decide" /\ q.status = "APPROVED"
      <4>1. vetted' = vetted \cup {q.room}  BY <3>3 DEF Commit
      <4>2. q.room \in RoomId  BY <1>2, <3>3, RequestCases
      <4> QED  BY <2>2, <3>2, <4>1, <4>2 DEF History!Next, History!Vet
    <3>4. CASE ~(q.op = "decide" /\ q.status = "APPROVED")
      <4>1. vetted' = vetted  BY <3>4 DEF Commit
      <4> QED  BY <2>2, <3>2, <4>1 DEF History!vars
    <3> QED  BY <3>3, <3>4
  <2>4. CASE w.dropRoom # {}
    <3> DEFINE gone == UNION {History!In(r) : r \in w.dropRoom}
    <3>1. vetted' = vetted  BY <1>2, <2>4 DEF Traced, Commit
    <3>2. w.dropRow \subseteq gone
      <4>1. SUFFICES ASSUME NEW i \in w.dropRow
                     PROVE  i \in DOMAIN db.row /\ db.row[i].room \in w.dropRoom
        BY DEF History!In
      <4>2. i \in DOMAIN d.row /\ d.row[i].room \in w.dropRoom  BY <1>2 DEF Traced, RowsIn
      <4>3. i \in DOMAIN db.row  BY <1>2 DEF RowsStillThere
      <4> QED  BY <1>3, <4>2, <4>3 DEF SameStays
    <3>3. gone \subseteq w.dropRow
      <4>1. SUFFICES ASSUME NEW i \in DOMAIN db.row, db.row[i].room \in w.dropRoom,
                            i \notin w.dropRow
                     PROVE  FALSE
        BY DEF History!In
      <4>2. i \in DOMAIN db'.row  BY <1>5, <4>1
      <4>3. db'.row[i].room = db.row[i].room  BY <1>4, <2>1, <4>2
      <4>4. db'.row[i].room \in DOMAIN db'.room  BY <1>2, <4>2 DEF ForeignKeys
      <4>5. w.dropRoom \subseteq spent.room  BY <1>2 DEF RowsStillThere, Recorded
      <4> QED  BY <1>4, <1>5, <4>1, <4>3, <4>4, <4>5
    <3>4. db'.row = [i \in DOMAIN db.row \ gone |-> db.row[i]]
      <4>1. DOMAIN db'.row = DOMAIN db.row \ gone  BY <1>5, <2>1, <3>2, <3>3
      <4>2. \A i \in DOMAIN db'.row : db'.row[i] = db.row[i]  BY <1>4, <2>1
      <4> HIDE DEF gone
      <4> QED  BY <1>5, <4>1, <4>2
    <3>5. w.dropRoom \in SUBSET RoomId  BY <1>2 DEF IsWrites
    <3> QED  BY <2>2, <3>1, <3>4, <3>5 DEF History!Next, History!Purge
  <2> QED  BY <2>3, <2>4
<1> QED  BY <1>7, <1>8

LEMMA HistoryNext ==
  Typed /\ Clean /\ Recorded /\ [Next]_vars => [History!Next]_(History!vars)
<1> SUFFICES ASSUME Typed, Clean, Recorded, [Next]_vars
             PROVE  [History!Next]_(History!vars)
  OBVIOUS
<1>1. CASE \E c \in Slot : Commit(c)  BY <1>1, CommitHistory
<1>2. CASE UNCHANGED <<db, spent, vetted>>  BY <1>2 DEF History!vars
<1>3. (\E c \in Slot : Commit(c)) \/ UNCHANGED <<db, spent, vetted>>
  BY DEF vars, Next, Server, Begin, Refuse, Rollback, LosePush, Office, Notify, Push, App,
    LoadRooms, Hear, Tap, OpenEditor, CloseEditor, RemoveMember, AddMember, ChooseMaster,
    SaveMembers, CreateRoom, TypeCapacity, UpdateRoom, RemoveRoom, Ask, Receive, GiveUp,
    Relaunch, OnScreen
<1> QED  BY <1>1, <1>2, <1>3

(* The rental history is faithful whatever handlers overlap: every commit   *)
(* begins or ends stays of one approved room, or forgets whole rooms, as    *)
(* Tenancy says (RoomController.editMember, deleteRoom;                     *)
(* PageController.deleteUser, approveRoom).                                 *)
THEOREM HistoryIsFaithful == Spec => RentalHistory
<1>1. Init => History!Init  BY DEF Init, ServerInit, Nothing, History!Init
<1>2. Spec => [](Typed /\ Clean /\ Recorded)
  BY TypedInit, TypedNext, CleanInit, CleanNext, RecordedInit, RecordedNext, PTL DEF Spec
<1> QED  BY <1>1, <1>2, HistoryNext, PTL DEF Spec, RentalHistory, History!Spec
=============================================================================
