----------------------------- MODULE RoomPosts -----------------------------
(***************************************************************************)
(* Room posts (type MASTER_POST) and favourites: the handlers that create,  *)
(* change and remove them, and what updateRoom and deleteRoom do to them.   *)
(* createRoomPost, updateRoomPost and createFavourite are no transactions:  *)
(* each of their steps reads or commits on its own.  The others read one    *)
(* snapshot and commit once.  Who lives where, and who is ROOM_MASTER, is   *)
(* the work of editMember (RoomDb); here tenants just move.                 *)
(***************************************************************************)
EXTENDS Naturals, FiniteSets

CONSTANTS
  User,    \* tenants
  RoomId,  \* the rooms at the start, by number
  PostId,  \* numbers that AUTO_INCREMENT may give to posts
  FavId,   \* numbers that AUTO_INCREMENT may give to favourites
  Util,    \* utilities a room may have
  Price,   \* prices a room may have and a post may ask
  Slot,    \* handlers that may run at a time
  Copies   \* bound: rows of tb_post_has_utility for one post and utility

(* Both kinds of numbers are integers, which updateRoom depends on.         *)
ASSUME NumberAssumption == RoomId \subseteq Nat /\ PostId \subseteq Nat
ASSUME CopiesAssumption == Copies \in Nat
ASSUME SlotAssumption == IsFiniteSet(Slot)

VARIABLES
  db,     \* the committed tables
  spent,  \* numbers handed out to posts and to favourites
  call,   \* the handlers that are running
  acked   \* posts whose author was told that they were created (history)

vars == <<db, spent, call, acked>>

Partial(f, D, R) == f \in [DOMAIN f -> R] /\ DOMAIN f \subseteq D

(* district: the post's row of tb_post_has_tb_district is there;            *)
(* utils: how many rows of tb_post_has_utility there are for each utility;  *)
(* now: date_post is later than the date_in of the author's open stay.      *)
Room == [price : Price, utils : SUBSET Util]
Post == [by : User, room : RoomId, price : Price, now : BOOLEAN,
         district : BOOLEAN, utils : [Util -> Nat]]
Columns == [by : User, room : RoomId, price : Price]  \* of tb_post
Favourite == [user : User, post : PostId]

IsDb(d) ==
  /\ d = [room |-> d.room, home |-> d.home, master |-> d.master,
          post |-> d.post, fav |-> d.fav]
  /\ Partial(d.room, RoomId, Room)
  /\ Partial(d.home, User, RoomId)       \* open rows of tb_room_has_user
  /\ d.master \subseteq User             \* users with the role ROOM_MASTER
  /\ Partial(d.post, PostId, Post)
  /\ Partial(d.fav, FavId, Favourite)
  /\ \A f \in DOMAIN d.fav : d.fav[f].post \in DOMAIN d.post

IsCall(x) ==
  CASE x.op = "createRoomPost" ->
         /\ x = [op |-> x.op, at |-> x.at, by |-> x.by, room |-> x.room,
                 price |-> x.price, post |-> x.post, todo |-> x.todo]
         /\ x.at \in {"save", "read", "copy"} /\ x.by \in User /\ x.room \in RoomId
         /\ x.price \in Price /\ x.todo \subseteq Util
         /\ IF x.at = "save" THEN x.post = 0 ELSE x.post \in spent.post
    [] x.op = "updateRoomPost" ->
         /\ x = [op |-> x.op, post |-> x.post, row |-> x.row]
         /\ x.post \in spent.post /\ x.row \in Columns
    [] x.op = "createFavourite" ->
         /\ x = [op |-> x.op, user |-> x.user, post |-> x.post]
         /\ x.user \in User /\ x.post \in spent.post
    [] x.op = "deletePost" ->
         x = [op |-> x.op, post |-> x.post, snap |-> x.snap] /\ x.post \in spent.post
    [] x.op = "deleteRoom" ->
         x = [op |-> x.op, room |-> x.room, snap |-> x.snap] /\ x.room \in RoomId
    [] x.op = "updateRoom" ->
         /\ x = [op |-> x.op, room |-> x.room, new |-> x.new, snap |-> x.snap]
         /\ x.room \in RoomId /\ x.new \in Room
    [] OTHER -> FALSE

TypeOK ==
  /\ IsDb(db)
  /\ spent \in [post : SUBSET PostId, fav : SUBSET FavId]
  /\ DOMAIN db.post \subseteq spent.post /\ DOMAIN db.fav \subseteq spent.fav
  /\ call = [c \in DOMAIN call |-> call[c]] /\ DOMAIN call \subseteq Slot
  /\ \A c \in DOMAIN call : IsCall(call[c]) /\ ("snap" \in DOMAIN call[c] => IsDb(call[c].snap))
  /\ acked \subseteq spent.post

Nothing == [x \in {} |-> x]

Init ==
  /\ \E rooms \in [RoomId -> Room] :
       db = [room |-> rooms, home |-> Nothing, master |-> {}, post |-> Nothing, fav |-> Nothing]
  /\ spent = [post |-> {}, fav |-> {}]
  /\ call = Nothing
  /\ acked = {}

-----------------------------------------------------------------------------
With(f, x, y) == [z \in DOMAIN f \cup {x} |-> IF z = x THEN y ELSE f[z]]
Without(f, S) == [z \in DOMAIN f \ S |-> f[z]]

Lives(d, u, r)     == u \in DOMAIN d.home /\ d.home[u] = r
PostsOf(d, r)      == {p \in DOMAIN d.post : d.post[p].room = r}
Residents(d, r)    == {u \in DOMAIN d.home : d.home[u] = r}
FavouritesOf(d, p) == {f \in DOMAIN d.fav : d.fav[f].post = p}
Marks(d, u, p)     == {f \in FavouritesOf(d, p) : d.fav[f].user = u}

Start(c, x) == c \notin DOMAIN call /\ call' = With(call, c, x)
Goes(c, x)  == call' = With(call, c, x)
Ends(c)     == call' = Without(call, {c})
Runs(c, op) == c \in DOMAIN call /\ call[c].op = op

-----------------------------------------------------------------------------
(* createRoomPost: the checks (their three reads taken at once), the post,  *)
(* the room's utilities one by one, and the district of the room, which is  *)
(* looked up a second time.                                                 *)
CheckAuthor(c) ==
  /\ \E u \in User, r \in DOMAIN db.room, m \in Price :
       /\ u \in db.master /\ Lives(db, u, r)
       /\ Start(c, [op |-> "createRoomPost", at |-> "save", by |-> u, room |-> r,
                    price |-> m, post |-> 0, todo |-> {}])
  /\ UNCHANGED <<db, spent, acked>>

SavePost(c) ==
  /\ Runs(c, "createRoomPost") /\ call[c].at = "save"
  /\ \E p \in PostId \ spent.post :
       /\ db' = [db EXCEPT !.post = With(@, p,
            [by |-> call[c].by, room |-> call[c].room, price |-> call[c].price,
             now |-> Lives(db, call[c].by, call[c].room),
             district |-> FALSE, utils |-> [x \in Util |-> 0]])]
       /\ spent' = [spent EXCEPT !.post = @ \cup {p}]
       /\ Goes(c, [call[c] EXCEPT !.at = "read", !.post = p])
  /\ UNCHANGED acked

ReadUtilities(c) ==
  /\ Runs(c, "createRoomPost") /\ call[c].at = "read"
  /\ LET r == call[c].room
     IN Goes(c, [call[c] EXCEPT !.at = "copy",
                   !.todo = IF r \in DOMAIN db.room THEN db.room[r].utils ELSE {}])
  /\ UNCHANGED <<db, spent, acked>>

CopyUtility(c) ==
  /\ Runs(c, "createRoomPost") /\ call[c].at = "copy"
  /\ call[c].post \in DOMAIN db.post
  /\ \E x \in call[c].todo :
       /\ db' = [db EXCEPT !.post[call[c].post].utils[x] = @ + 1]
       /\ Goes(c, [call[c] EXCEPT !.todo = @ \ {x}])
  /\ UNCHANGED <<spent, acked>>

(* Mutant: a room that is gone is skipped, and CREATED answered all the same. *)
SaveDistrictMaybe(c) ==
  /\ Runs(c, "createRoomPost") /\ call[c].at = "copy" /\ call[c].todo = {}
  /\ call[c].post \in DOMAIN db.post
  /\ db' = [db EXCEPT !.post[call[c].post].district = call[c].room \in DOMAIN db.room]
  /\ acked' = acked \cup {call[c].post}
  /\ Ends(c)
  /\ UNCHANGED spent

SaveDistrict(c) ==
  /\ Runs(c, "createRoomPost") /\ call[c].at = "copy" /\ call[c].todo = {}
  /\ call[c].room \in DOMAIN db.room /\ call[c].post \in DOMAIN db.post
  /\ db' = [db EXCEPT !.post[call[c].post].district = TRUE]
  /\ acked' = acked \cup {call[c].post}
  /\ Ends(c)
  /\ UNCHANGED spent

-----------------------------------------------------------------------------
(* updateRoomPost writes back every column of the row it read; the columns  *)
(* that the author edits are not modelled.                                  *)
ReadPost(c) ==
  /\ \E p \in DOMAIN db.post :
       /\ db.post[p].room \in DOMAIN db.room
       /\ Start(c, [op |-> "updateRoomPost", post |-> p,
                    row |-> [by |-> db.post[p].by, room |-> db.post[p].room,
                             price |-> db.post[p].price]])
  /\ UNCHANGED <<db, spent, acked>>

Written(p, row) ==
  [p EXCEPT !.by = row.by, !.room = row.room, !.price = row.price]

(* Mutant: save() inserts a row that is no longer there.                    *)
WritePostAnyway(c) ==
  /\ Runs(c, "updateRoomPost")
  /\ LET new == [now |-> FALSE, district |-> FALSE, utils |-> [x \in Util |-> 0]]
         row == call[c].row
     IN db' = [db EXCEPT !.post = With(@, call[c].post,
                 IF call[c].post \in DOMAIN @ THEN Written(@[call[c].post], row)
                 ELSE [x \in DOMAIN row \cup DOMAIN new |->
                         IF x \in DOMAIN row THEN row[x] ELSE new[x]])]
  /\ Ends(c)
  /\ UNCHANGED <<spent, acked>>

WritePost(c) ==
  /\ Runs(c, "updateRoomPost")
  /\ call[c].post \in DOMAIN db.post
  /\ db' = [db EXCEPT !.post[call[c].post] = Written(@, call[c].row)]
  /\ Ends(c)
  /\ UNCHANGED <<spent, acked>>

-----------------------------------------------------------------------------
(* Removal.  Hibernate deletes the rows of the snapshot; a row added to the *)
(* posts since makes a foreign key fail, a row gone the row count.          *)
Same(d, P) ==
  /\ P \subseteq DOMAIN db.post
  /\ \A p \in P : /\ db.post[p].utils = d.post[p].utils
                  /\ db.post[p].district = d.post[p].district
                  /\ FavouritesOf(db, p) = FavouritesOf(d, p)

(* Mutant: the favourites of the posts are left.                            *)
DropPosts(P) == [db EXCEPT !.post = Without(@, P)]

Drop(P) == [db EXCEPT !.post = Without(@, P),
                      !.fav = Without(@, UNION {FavouritesOf(db, p) : p \in P})]

BeginDeletePost(c) ==
  /\ \E p \in spent.post : Start(c, [op |-> "deletePost", post |-> p, snap |-> db])
  /\ UNCHANGED <<db, spent, acked>>

DeletePost(c) ==
  /\ Runs(c, "deletePost")
  /\ LET P == {call[c].post} \cap DOMAIN call[c].snap.post
     IN Same(call[c].snap, P) /\ db' = Drop(P)
  /\ Ends(c)
  /\ UNCHANGED <<spent, acked>>

BeginDeleteRoom(c) ==
  /\ \E r \in DOMAIN db.room : Start(c, [op |-> "deleteRoom", room |-> r, snap |-> db])
  /\ UNCHANGED <<db, spent, acked>>

(* What deleteRoom, having read snap, leaves of room r and its residents in *)
(* d.  Only a user row that changes is written: whoever was ROOM_MASTER.    *)
Vacate(d, snap, r) ==
  [d EXCEPT !.room = Without(@, {r}),
            !.home = Without(@, Residents(db, r)),
            !.master = @ \ (Residents(snap, r) \cap snap.master)]

(* Mutant: the posts of the room are left.                                  *)
DeleteRoomOnly(c) ==
  /\ Runs(c, "deleteRoom")
  /\ call[c].room \in DOMAIN db.room
  /\ db' = Vacate(db, call[c].snap, call[c].room)
  /\ Ends(c)
  /\ UNCHANGED <<spent, acked>>

DeleteRoom(c) ==
  /\ Runs(c, "deleteRoom")
  /\ LET r == call[c].room
         d == call[c].snap
     IN /\ r \in DOMAIN db.room
        /\ Residents(db, r) \subseteq Residents(d, r)
        /\ Same(d, PostsOf(d, r))
        /\ db' = Vacate(Drop(PostsOf(d, r)), d, r)
  /\ Ends(c)
  /\ UNCHANGED <<spent, acked>>

-----------------------------------------------------------------------------
(* updateRoom puts the new price and utilities into the latest post of the  *)
(* room's master, if it was written in the present stay.  Before it inserts *)
(* the utilities it removes those of the post whose number is the room's.   *)
BeginUpdateRoom(c) ==
  /\ \E r \in DOMAIN db.room, new \in Room :
       Start(c, [op |-> "updateRoom", room |-> r, new |-> new, snap |-> db])
  /\ UNCHANGED <<db, spent, acked>>

Latest(P) == {p \in P : \A q \in P : q <= p}

Refreshed(d, r) ==
  {p \in DOMAIN d.post :
     /\ d.post[p].by \in d.master /\ Lives(d, d.post[p].by, r)
     /\ p \in Latest({q \in PostsOf(d, r) : d.post[q].by = d.post[p].by})
     /\ d.post[p].now}

(* The number whose utilities are removed, if a post is refreshed at all.   *)
Cleared(d, r) == IF Refreshed(d, r) = {} THEN {} ELSE {r} \cap DOMAIN d.post

(* The posts of which a row is rewritten, deleted or referred to.           *)
Touched(d, r, new) ==
  {p \in Refreshed(d, r) : new.price # d.post[p].price \/ new.utils # {}}
  \cup {p \in Cleared(d, r) : \E x \in Util : d.post[p].utils[x] > 0}

Refresh(d, r, new) ==
  [p \in DOMAIN db.post |->
     [db.post[p] EXCEPT
        !.price = IF p \in Refreshed(d, r) /\ new.price # d.post[p].price THEN new.price ELSE @,
        !.utils = [x \in Util |-> (IF p \in Cleared(d, r) THEN @[x] - d.post[p].utils[x] ELSE @[x])
                                  + (IF p \in Refreshed(d, r) /\ x \in new.utils THEN 1 ELSE 0)]]]

UpdateRoom(c) ==
  /\ Runs(c, "updateRoom")
  /\ LET r == call[c].room
         d == call[c].snap
     IN /\ r \in DOMAIN db.room
        /\ Touched(d, r, call[c].new) \subseteq DOMAIN db.post
        /\ \A p \in Cleared(d, r) \cap DOMAIN db.post, x \in Util :
             d.post[p].utils[x] <= db.post[p].utils[x]
        /\ \A p \in Refreshed(d, r) \cap DOMAIN db.post, x \in Util :
             db.post[p].utils[x] < Copies
        /\ db' = [db EXCEPT !.room[r] = call[c].new, !.post = Refresh(d, r, call[c].new)]
  /\ Ends(c)
  /\ UNCHANGED <<spent, acked>>

-----------------------------------------------------------------------------
(* Mutant: createFavourite inserts without looking.                         *)
CheckFavouriteNot(c) ==
  /\ \E u \in User, p \in spent.post :
       Start(c, [op |-> "createFavourite", user |-> u, post |-> p])
  /\ UNCHANGED <<db, spent, acked>>

CheckFavourite(c) ==
  /\ \E u \in User, p \in spent.post :
       /\ Marks(db, u, p) = {}
       /\ Start(c, [op |-> "createFavourite", user |-> u, post |-> p])
  /\ UNCHANGED <<db, spent, acked>>

SaveFavourite(c) ==
  /\ Runs(c, "createFavourite")
  /\ call[c].post \in DOMAIN db.post
  /\ \E f \in FavId \ spent.fav :
       /\ db' = [db EXCEPT !.fav = With(@, f, [user |-> call[c].user, post |-> call[c].post])]
       /\ spent' = [spent EXCEPT !.fav = @ \cup {f}]
  /\ Ends(c)
  /\ UNCHANGED acked

RemoveFavourite ==
  /\ \E f \in DOMAIN db.fav : db' = [db EXCEPT !.fav = Without(@, {f})]
  /\ UNCHANGED <<spent, call, acked>>

-----------------------------------------------------------------------------
(* An exception (a row or a parent row gone, a deadlock) that the handler   *)
(* answers with CONFLICT, or a server that dies: what has been committed    *)
(* stays.                                                                   *)
Fail(c) ==
  /\ c \in DOMAIN call
  /\ Ends(c)
  /\ UNCHANGED <<db, spent, acked>>

(* editMember, one tenant at a time: a room has at most one ROOM_MASTER.    *)
Masters(r) == Residents(db, r) \cap db.master

MoveIn ==
  /\ \E u \in User \ DOMAIN db.home, r \in DOMAIN db.room :
       db' = [db EXCEPT !.home = With(@, u, r),
                        !.master = IF Masters(r) = {} THEN @ \cup {u} ELSE @]
  /\ UNCHANGED <<spent, call, acked>>

MoveOut ==
  /\ \E u \in DOMAIN db.home :
       db' = [db EXCEPT !.home = Without(@, {u}), !.master = @ \ {u},
                        !.post = [p \in DOMAIN @ |-> IF @[p].by = u
                                                     THEN [@[p] EXCEPT !.now = FALSE]
                                                     ELSE @[p]]]
  /\ UNCHANGED <<spent, call, acked>>

ChangeMaster ==
  /\ \E u \in DOMAIN db.home :
       db' = [db EXCEPT !.master = (@ \ Masters(db.home[u])) \cup {u}]
  /\ UNCHANGED <<spent, call, acked>>

Handler(c) ==
  \/ CheckAuthor(c) \/ SavePost(c) \/ ReadUtilities(c) \/ CopyUtility(c) \/ SaveDistrict(c)
  \/ ReadPost(c) \/ WritePost(c)
  \/ BeginDeletePost(c) \/ DeletePost(c)
  \/ BeginDeleteRoom(c) \/ DeleteRoom(c)
  \/ BeginUpdateRoom(c) \/ UpdateRoom(c)
  \/ CheckFavourite(c) \/ SaveFavourite(c)
  \/ Fail(c)

Next ==
  \/ \E c \in Slot : Handler(c)
  \/ RemoveFavourite \/ MoveIn \/ MoveOut \/ ChangeMaster

Spec == Init /\ [][Next]_vars

-----------------------------------------------------------------------------
(* Properties that overlapping handlers keep.                               *)

(* A post that is gone never comes back: updateRoomPost saves a row it read *)
(* before another handler deleted it (PostController.updateRoomPost,        *)
(* deletePost; RoomController.deleteRoom).                                  *)
NoResurrection ==
  [][\A p \in spent.post \ DOMAIN db.post : p \notin DOMAIN db'.post]_vars

(* A post that its author was told is created can be found by its district, *)
(* as long as it exists: createRoomPost answers CREATED after its last      *)
(* write only (PostController.createRoomPost, Filter).                      *)
Findable == \A p \in acked \cap DOMAIN db.post : db.post[p].district

(* Only overlap parts a post from its room: a post saved by a               *)
(* createRoomPost that checked the room before it went, or one saved after  *)
(* deleteRoom took its snapshot.  A deletion takes along every post that    *)
(* it saw, or rolls back (PostController.createRoomPost;                    *)
(* RoomController.deleteRoom).  Every list of posts looks the room up, and   *)
(* one post without a room makes the whole list fail                        *)
(* (UtilsService.getRoomPostResponseModel, PostController.getPost).         *)
Orphan(d, p) == p \in DOMAIN d.post /\ d.post[p].room \notin DOMAIN d.room

OnlyOverlapOrphans ==
  [][\A p \in PostId : Orphan(db', p) /\ ~Orphan(db, p) =>
       \E c \in Slot :
         \/ SavePost(c) /\ p \notin DOMAIN db.post
         \/ DeleteRoom(c) /\ p \notin DOMAIN call[c].snap.post]_vars

(* A user may mark a post twice, if two handlers look before either saves;  *)
(* but no more often than there are handlers at a time, however many        *)
(* requests come: once a favourite is there, nobody else passes the check   *)
(* (FavouriteController.addFavorite, remove).                               *)
MarksBounded ==
  \A u \in User, p \in DOMAIN db.post : Cardinality(Marks(db, u, p)) <= Cardinality(Slot)

-----------------------------------------------------------------------------
(* What the code does not keep, whether or not handlers overlap.            *)

(* updateRoom changes posts of the room that is updated and no other post   *)
(* (RoomController.updateRoom).                                             *)
OthersUntouched ==
  [][\A c \in Slot : UpdateRoom(c) =>
       \A p \in DOMAIN db.post \ PostsOf(db, call[c].room) : db'.post[p] = db.post[p]]_vars
=============================================================================
