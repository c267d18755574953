------------------------------ MODULE OwnerApp ------------------------------
(***************************************************************************)
(* House owners' phones and the backend they share: the list of rooms a     *)
(* phone holds (AccountVC, RoomDetailVC), the member editor with its copy   *)
(* of a room (EditMemberVC), and the forms that create, change and remove   *)
(* rooms.  What reaches editMember on the server is what these screens let  *)
(* through, computed from data as old as the screen.                        *)
(***************************************************************************)
EXTENDS RoomServer

CONSTANTS
  Holder,     \* the owner signed in on each phone
  Impatient,  \* phones that may give up on an answer, or be relaunched
  NoOne

Phone == Client

ASSUME HolderAssumption ==
  /\ Holder \in [Phone -> User]
  /\ \A p \in Phone : InitRole[Holder[p]] = "OWNER"
ASSUME NoOneAssumption == NoOne \notin User

VARIABLES
  view,   \* the owner's rooms as last loaded, with their members
  editor, \* the open EditMemberVC of a phone that has one open
  due     \* NEW room decisions the phone's observer has yet to report

vars == <<db, spent, call, wait, note, vetted, view, editor, due>>

IsShown(x) ==
  /\ x = [status |-> x.status, max |-> x.max, members |-> x.members]
  /\ x.status \in Status /\ x.max \in Capacity /\ IsList(x.members)

(* An open editor has copyRoom.members, originMember and roomMaster.        *)
IsEditor(e) ==
  /\ e = [room |-> e.room, max |-> e.max, members |-> e.members,
          origin |-> e.origin, chief |-> e.chief]
  /\ e.room \in RoomId /\ e.max \in Capacity /\ IsList(e.members)
  /\ e.origin \subseteq User /\ e.chief \in User \cup {NoOne}

AppTypeOK ==
  /\ view = [p \in Phone |-> view[p]]
  /\ \A p \in Phone :
       /\ view[p] = [r \in DOMAIN view[p] |-> view[p][r]]
       /\ DOMAIN view[p] \subseteq RoomId
       /\ \A r \in DOMAIN view[p] : IsShown(view[p][r])
  /\ editor = [p \in DOMAIN editor |-> editor[p]] /\ DOMAIN editor \subseteq Phone
  /\ \A p \in DOMAIN editor : IsEditor(editor[p])
  /\ due \in [Phone -> SUBSET Note]

TypeOK == ServerTypeOK /\ AppTypeOK

Init ==
  /\ ServerInit
  /\ view = [p \in Phone |-> Nothing]
  /\ editor = Nothing
  /\ due = [p \in Phone |-> {}]

-----------------------------------------------------------------------------
Idle(p)    == p \notin DOMAIN wait
Editing(p) == Idle(p) /\ p \in DOMAIN editor
Browsing(p) == Idle(p) /\ p \notin DOMAIN editor

Ask(p, q) ==
  /\ \E c \in Slot : Send(c, q) /\ wait' = With(wait, p, c)
  /\ UNCHANGED <<db, spent, note, vetted, view, editor, due>>

OnScreen == UNCHANGED <<db, spent, call, wait, note, vetted>>

(* AccountVC loads the owner's rooms.                                       *)
LoadRooms(p) ==
  /\ Browsing(p)
  /\ view' = [view EXCEPT ![p] =
       [r \in {x \in DOMAIN db.room : db.room[x].owner = Holder[p]} |->
          [status |-> db.room[r].status, max |-> db.room[r].max,
           members |-> MembersShown(db, r)]]]
  /\ OnScreen /\ UNCHANGED <<editor, due>>

(* The observer of NotificationVC reports a decision: the room in the list  *)
(* takes its status.                                                        *)
Hear(p) ==
  /\ \E n \in due[p] :
       /\ due' = [due EXCEPT ![p] = @ \ {n}]
       /\ view' = [view EXCEPT ![p] =
            [r \in DOMAIN @ |-> IF r = n.room THEN [@[r] EXCEPT !.status = n.status]
                                              ELSE @[r]]]
  /\ OnScreen /\ UNCHANGED editor

(* The owner taps the notification in the list: it becomes SEEN.            *)
Tap(p) ==
  /\ \E n \in note : n.to = Holder[p] /\ note' = note \ {n}
  /\ UNCHANGED <<db, spent, call, wait, vetted, view, editor, due>>

-----------------------------------------------------------------------------
(* EditMemberVC.                                                            *)

(* Mutant: the editor opens whatever the status.                            *)
OpenEditorAnyStatus(p) ==
  /\ Browsing(p)
  /\ \E r \in DOMAIN view[p] :
       editor' = With(editor, p,
         [room |-> r, max |-> view[p][r].max, members |-> view[p][r].members,
          origin |-> DOMAIN view[p][r].members, chief |-> NoOne])
  /\ OnScreen /\ UNCHANGED <<view, due>>

OpenEditor(p) ==
  /\ Browsing(p)
  /\ \E r \in DOMAIN view[p] :
       /\ view[p][r].status = "APPROVED"
       /\ LET members == view[p][r].members
              chiefs  == {u \in DOMAIN members : members[u] = "MASTER"}
          IN \E m \in IF chiefs = {} THEN {NoOne} ELSE chiefs :
               editor' = With(editor, p,
                 [room |-> r, max |-> view[p][r].max, members |-> members,
                  origin |-> DOMAIN members, chief |-> m])
  /\ OnScreen /\ UNCHANGED <<view, due>>

CloseEditor(p) ==
  /\ Editing(p)
  /\ editor' = Without(editor, {p})
  /\ OnScreen /\ UNCHANGED <<view, due>>

(* The copy of the members, and the master among them, after an edit.       *)
Edited(e, list, chief) ==
  [room |-> e.room, max |-> e.max, members |-> list, origin |-> e.origin, chief |-> chief]

RemoveMember(p) ==
  /\ Editing(p)
  /\ LET e == editor[p]
     IN \E u \in DOMAIN e.members :
          editor' = With(editor, p,
            Edited(e, Without(e.members, {u}),
                   IF e.members[u] = "MASTER" THEN NoOne ELSE e.chief))
  /\ OnScreen /\ UNCHANGED <<view, due>>

(* addMember: the first member of an empty list is its room master.         *)
Added(e, u) ==
  IF DOMAIN e.members = {}
  THEN Edited(e, With(e.members, u, "MASTER"), u)
  ELSE Edited(e, With(e.members, u, "MEMBER"), e.chief)

(* A member of the room when the editor opened returns without a question   *)
(* to the server; anyone else must be free by findExitedUserInRoom.         *)
AddMember(p) ==
  /\ Editing(p)
  /\ Cardinality(DOMAIN editor[p].members) < editor[p].max
  /\ \E u \in User \ DOMAIN editor[p].members :
       /\ u \in editor[p].origin \/ MayMoveIn(db, u)
       /\ editor' = With(editor, p, Added(editor[p], u))
  /\ OnScreen /\ UNCHANGED <<view, due>>

ChooseMaster(p) ==
  /\ Editing(p)
  /\ LET e == editor[p]
     IN \E u \in DOMAIN e.members :
          editor' = With(editor, p,
            Edited(e, [v \in DOMAIN e.members |-> IF v = u THEN "MASTER"
                                                  ELSE IF v = e.chief THEN "MEMBER"
                                                  ELSE e.members[v]], u))
  /\ OnScreen /\ UNCHANGED <<view, due>>

SaveMembers(p) ==
  /\ Editing(p)
  /\ LET e == editor[p]
     IN /\ DOMAIN e.members = {} \/ e.chief # NoOne
        /\ Ask(p, [op |-> "edit", room |-> e.room, list |-> e.members])

-----------------------------------------------------------------------------
(* CERoomVC and the removal button of RoomDetailVC.                         *)

CreateRoom(p) ==
  /\ Browsing(p)
  /\ \E m \in Capacity : Ask(p, [op |-> "create", by |-> Holder[p], max |-> m])

(* The form works on the very object of the room list: a number typed for   *)
(* max_guest is in the list at once, whether or not it is ever submitted.   *)
TypeCapacity(p) ==
  /\ Browsing(p)
  /\ \E r \in DOMAIN view[p], m \in Capacity :
       view' = [view EXCEPT ![p][r].max = m]
  /\ OnScreen /\ UNCHANGED <<editor, due>>

UpdateRoom(p) ==
  /\ Browsing(p)
  /\ \E r \in DOMAIN view[p] :
       /\ Cardinality(DOMAIN view[p][r].members) <= view[p][r].max
       /\ Ask(p, [op |-> "update", by |-> Holder[p], room |-> r, max |-> view[p][r].max])

RemoveRoom(p) ==
  /\ Browsing(p)
  /\ \E r \in DOMAIN view[p] : Ask(p, [op |-> "delete", room |-> r])

-----------------------------------------------------------------------------
(* The answer arrives.  On success the phone puts what it sent in its own   *)
(* list; after a creation or a removal it empties the list to load it anew. *)
Receive(p) ==
  /\ p \in DOMAIN wait
  /\ wait[p] \in Phase("answered")
  /\ LET q == call[wait[p]].req
     IN IF ~call[wait[p]].ok
        THEN UNCHANGED <<view, editor>>
        ELSE /\ editor' = Without(editor, {p})
             /\ view' = CASE q.op = "update" -> [view EXCEPT ![p][q.room].status = "PENDING"]
                          [] q.op = "edit"   -> [view EXCEPT ![p][q.room].members = q.list]
                          [] OTHER           -> [view EXCEPT ![p] = Nothing]
  /\ call' = Without(call, {wait[p]})
  /\ wait' = Without(wait, {p})
  /\ UNCHANGED <<db, spent, note, vetted, due>>

Forsaken(p) == IF p \in DOMAIN wait THEN {wait[p]} \cap Phase("answered") ELSE {}

(* Alamofire's timeout: the screen reports an error and is usable again,    *)
(* the request goes on.                                                     *)
GiveUp(p) ==
  /\ p \in Impatient \cap DOMAIN wait
  /\ wait' = Without(wait, {p})
  /\ call' = Without(call, Forsaken(p))
  /\ UNCHANGED <<db, spent, note, vetted, view, editor, due>>

(* A relaunch forgets the screens, and the observer reports every decision  *)
(* whose notification is still NEW once more, in no particular order.       *)
Relaunch(p) ==
  /\ p \in Impatient
  /\ wait' = Without(wait, {p})
  /\ call' = Without(call, Forsaken(p))
  /\ view' = [view EXCEPT ![p] = Nothing]
  /\ editor' = Without(editor, {p})
  /\ due' = [due EXCEPT ![p] = {n \in note : n.to = Holder[p]}]
  /\ UNCHANGED <<db, spent, note, vetted>>

-----------------------------------------------------------------------------
Notify(c) ==
  /\ Push(c)
  /\ due' = [p \in Phone |-> due[p] \cup {n \in {Decided(c)} : n.to = Holder[p]}]
  /\ UNCHANGED <<view, editor>>

Server ==
  /\ \E c \in Slot : Begin(c) \/ Refuse(c) \/ Commit(c) \/ Rollback(c) \/ LosePush(c)
                     \/ Office(c)
  /\ UNCHANGED <<view, editor, due>>

App(p) ==
  \/ LoadRooms(p) \/ Hear(p) \/ Tap(p)
  \/ OpenEditor(p) \/ CloseEditor(p) \/ RemoveMember(p) \/ AddMember(p)
  \/ ChooseMaster(p) \/ SaveMembers(p)
  \/ CreateRoom(p) \/ TypeCapacity(p) \/ UpdateRoom(p) \/ RemoveRoom(p)
  \/ Receive(p) \/ GiveUp(p) \/ Relaunch(p)

Next ==
  \/ Server
  \/ \E c \in Slot : Notify(c)
  \/ \E p \in Phone : App(p)

Spec == Init /\ [][Next]_vars

-----------------------------------------------------------------------------
(* Properties that no interleaving, delay or stale screen may break.        *)

(* A house owner never becomes a tenant, however old the answer of          *)
(* findExitedUserInRoom is when the list is saved; so no handler, all of    *)
(* which overwrite the roles of tenants, ever takes the role HOUSE_OWNER    *)
(* from an account (UserController.findExitedUserInRoom,                    *)
(* RoomController.editMember, deleteRoom).                                  *)
OwnersDoNotRent ==
  \A u \in User :
    InitRole[u] = "OWNER" =>
      /\ u \in DOMAIN db.role => db.role[u] = "OWNER"
      /\ \A i \in DOMAIN db.row : db.row[i].user # u

(* Tenants, past or present, are only ever entered in rooms that an         *)
(* administrator approved at some time: the one check is the cached status  *)
(* that RoomDetailVC reads before it opens the editor.                      *)
TenantsNeedApproval ==
  \A i \in DOMAIN db.row : db.row[i].room \in vetted

(* tb_room_has_user is a faithful rental history: whatever handlers         *)
(* overlap, every commit begins and ends stays of one room as Tenancy       *)
(* allows, or forgets whole rooms; a removal that missed a stay in its      *)
(* snapshot, or an edit whose room is gone, must roll back as a whole       *)
(* (RoomController.editMember, deleteRoom; PageController.deleteUser).      *)
History == INSTANCE Tenancy WITH
  Tenant <- {u \in User : InitRole[u] # "OWNER"},
  stay <- db.row, used <- spent.row

RentalHistory == History!Spec

-----------------------------------------------------------------------------
(* What a handler that was not overtaken keeps, whatever else overlaps.     *)

(* The handler in slot c has read of user u what is in the database now.    *)
UpToDate(c, u) ==
  LET d == call[c].snap
  IN /\ u \in DOMAIN d.role /\ u \in DOMAIN db.role /\ d.role[u] = db.role[u]
     /\ HomesOf(d, u) = HomesOf(db, u)

Stranded(d, u) == HasRole(d, u, "MASTER") /\ HomesOf(d, u) = {}

(* A ROOM_MASTER loses the last home, or somebody without a home becomes    *)
(* ROOM_MASTER, only when a handler commits that was overtaken by another   *)
(* commit on that very user: every handler that ends a stay takes the role  *)
(* with it, and none that rewrites a user's row gives it back               *)
(* (RoomController.editMember, deleteRoom; PageController.deleteUser;       *)
(* UserController.updateUser).                                              *)
MastersKeepHome ==
  [][\A u \in DOMAIN db'.role :
       ~Stranded(db, u) /\ Stranded(db', u) =>
         \E c \in Slot : Commit(c) /\ ~UpToDate(c, u)]_vars

(* Of a list of members, exactly one is the ROOM_MASTER.                    *)
Led(list) ==
  DOMAIN list # {} => \E m \in DOMAIN list : {u \in DOMAIN list : list[u] = "MASTER"} = {m}

(* Some tenant of room r lives in another room, too.                        *)
Shared(d, r) == \E u \in Residents(d, r) : \E i \in HomesOf(d, u) : d.row[i].room # r

(* deleteUser finds an old stay of a tenant of r in the owner's rooms.      *)
Remembers(c, r) ==
  LET d == call[c].snap
      q == call[c].req
  IN /\ q.op = "deleteUser"
     /\ \E i \in RowsIn(d, RoomsOf(d, q.user)) :
          ~d.row[i].open /\ d.row[i].user \in Residents(db, r)

(* As long as nobody of a room lives in another room too, an occupied room  *)
(* with one ROOM_MASTER is left without one, or with two, only by a handler *)
(* that was overtaken by a commit on one of its tenants, by a list that     *)
(* names none or two, or by the removal of an owner in whose rooms a tenant *)
(* has lived before (the same handlers).                                    *)
RoomsKeepMaster ==
  [][\A r \in DOMAIN db'.room :
       /\ Led(MembersShown(db, r)) /\ ~Led(MembersShown(db', r))
       /\ ~Shared(db, r) /\ ~Shared(db', r)
       => \E c \in Slot :
            /\ Commit(c)
            /\ \/ \E u \in Residents(db, r) \cup Residents(db', r) \cup Residents(call[c].snap, r) :
                    ~UpToDate(c, u)
               \/ call[c].req.op = "edit" /\ ~Led(call[c].req.list)
               \/ Remembers(c, r)]_vars

-----------------------------------------------------------------------------
(* Properties of a server that runs one handler at a time.                  *)

(* A ROOM_MASTER lives somewhere: whoever moves out, or loses the room to   *)
(* deleteRoom or deleteUser, is a MEMBER again.                             *)
MasterHasHome == \A u \in DOMAIN db.role : ~Stranded(db, u)

-----------------------------------------------------------------------------
(* Properties of one phone that waits for every answer, on such a server.   *)

(* A user lives in one room at a time.  getCurrentRoom and                  *)
(* findExitedUserInRoom ask for the open row and throw on a second.         *)
OneHome == \A u \in User : Cardinality(HomesOf(db, u)) <= 1

(* An occupied room has exactly one ROOM_MASTER, as EditMemberVC demands    *)
(* before it saves.                                                         *)
OneMaster == \A r \in DOMAIN db.room : Led(MembersShown(db, r))

-----------------------------------------------------------------------------
(* What the app tells its users, and does not keep.                         *)

(* A room never holds more tenants than its max_guest: EditMemberVC refuses *)
(* another member when the room is full, and CERoomVC and updateRoom refuse *)
(* a max_guest below the number of tenants.                                 *)
WithinCapacity ==
  \A r \in DOMAIN db.room : Cardinality(OpenRows(db, r)) <= db.room[r].max
=============================================================================
