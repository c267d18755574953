---------------------------- MODULE RoomPostsProofs ----------------------------
(***************************************************************************)
(* Proofs about RoomPosts, for every number of tenants, rooms, posts,      *)
(* favourites and handlers.  A handler that is no transaction works on     *)
(* what an earlier step read, a transaction on a snapshot: TypeOK is       *)
(* inductive because it speaks about both.                                 *)
(***************************************************************************)
EXTENDS RoomPosts, FiniteSetTheorems, TLAPS

Calls ==
  /\ call = [c \in DOMAIN call |-> call[c]] /\ DOMAIN call \subseteq Slot
  /\ \A c \in DOMAIN call : IsCall(call[c]) /\ ("snap" \in DOMAIN call[c] => IsDb(call[c].snap))

Numbers ==
  /\ spent \in [post : SUBSET PostId, fav : SUBSET FavId]
  /\ DOMAIN db.post \subseteq spent.post /\ DOMAIN db.fav \subseteq spent.fav
  /\ acked \subseteq spent.post

\* The parts of the type invariant, before and after a step.
LEMMA TypeParts == TypeOK <=> IsDb(db) /\ Calls /\ Numbers
BY DEF TypeOK, Calls, Numbers

LEMMA TypePartsNext == ASSUME IsDb(db'), Calls', Numbers' PROVE TypeOK'
BY DEF TypeOK, Calls, Numbers

-------------------------------------------------------------------------------
(* Tables: functions from the numbers that are present.                      *)

LEMMA PartialAt == ASSUME NEW f, NEW D, NEW R, Partial(f, D, R), NEW x \in DOMAIN f
                   PROVE  x \in D /\ f[x] \in R
BY DEF Partial

LEMMA WithFacts ==
  ASSUME NEW f, NEW D, NEW R, Partial(f, D, R), NEW x \in D, NEW y \in R
  PROVE  /\ Partial(With(f, x, y), D, R)
         /\ DOMAIN With(f, x, y) = DOMAIN f \cup {x}
         /\ With(f, x, y)[x] = y
         /\ \A z \in DOMAIN f : z # x => With(f, x, y)[z] = f[z]
BY DEF Partial, With

LEMMA WithoutFacts ==
  ASSUME NEW f, NEW D, NEW R, Partial(f, D, R), NEW S
  PROVE  /\ Partial(Without(f, S), D, R)
         /\ DOMAIN Without(f, S) = DOMAIN f \ S
         /\ \A z \in DOMAIN f \ S : Without(f, S)[z] = f[z]
BY DEF Partial, Without

LEMMA ExceptFacts ==
  ASSUME NEW f, NEW D, NEW R, Partial(f, D, R), NEW x \in DOMAIN f, NEW y \in R,
         NEW g, g = [f EXCEPT ![x] = y]
  PROVE  /\ Partial(g, D, R) /\ DOMAIN g = DOMAIN f /\ g[x] = y
         /\ \A z \in DOMAIN f : z # x => g[z] = f[z]
BY DEF Partial

LEMMA DbParts ==
  ASSUME NEW d, IsDb(d)
  PROVE  /\ d = [room |-> d.room, home |-> d.home, master |-> d.master,
                 post |-> d.post, fav |-> d.fav]
         /\ Partial(d.room, RoomId, Room) /\ Partial(d.home, User, RoomId)
         /\ d.master \subseteq User
         /\ Partial(d.post, PostId, Post) /\ Partial(d.fav, FavId, Favourite)
         /\ \A f \in DOMAIN d.fav : d.fav[f].post \in DOMAIN d.post
BY DEF IsDb

LEMMA MakeDb ==
  ASSUME NEW d, NEW room, NEW home, NEW master, NEW post, NEW fav,
         d = [room |-> room, home |-> home, master |-> master, post |-> post, fav |-> fav],
         Partial(room, RoomId, Room), Partial(home, User, RoomId), master \subseteq User,
         Partial(post, PostId, Post), Partial(fav, FavId, Favourite),
         \A f \in DOMAIN fav : fav[f].post \in DOMAIN post
  PROVE  IsDb(d)
BY DEF IsDb

\* A post of the table is a row with all its columns.
LEMMA PostRow ==
  ASSUME NEW d, IsDb(d), NEW p \in DOMAIN d.post
  PROVE  /\ p \in PostId /\ d.post[p] \in Post
         /\ d.post[p] = [by |-> d.post[p].by, room |-> d.post[p].room, price |-> d.post[p].price,
                         now |-> d.post[p].now, district |-> d.post[p].district,
                         utils |-> d.post[p].utils]
BY DEF IsDb, Partial, Post

-------------------------------------------------------------------------------
(* Handlers: what starting, going on and ending does to the others.          *)

LEMMA CallStays ==
  ASSUME NEW x, IsCall(x), spent.post \subseteq spent'.post
  PROVE  IsCall(x)'
BY DEF IsCall

LEMMA GoesFacts ==
  ASSUME Calls, spent.post \subseteq spent'.post, NEW c \in Slot, NEW x,
         call' = With(call, c, x), IsCall(x)', "snap" \in DOMAIN x => IsDb(x.snap)
  PROVE  Calls'
<1>1. call' = [k \in DOMAIN call \cup {c} |-> IF k = c THEN x ELSE call[k]]
  BY DEF With
<1>2. ASSUME NEW k \in DOMAIN call'
      PROVE  IsCall(call[k])' /\ ("snap" \in DOMAIN call'[k] => IsDb(call'[k].snap))
  <2>1. CASE k = c
    <3>1. call'[k] = x
      BY <1>1, <2>1
    <3> QED
      BY <3>1
  <2>2. CASE k # c
    <3>1. k \in DOMAIN call /\ call'[k] = call[k]
      BY <1>1, <2>2
    <3>2. IsCall(call[k]) /\ ("snap" \in DOMAIN call[k] => IsDb(call[k].snap))
      BY <3>1 DEF Calls
    <3>3. \A y : IsCall(y) => IsCall(y)'
      BY CallStays
    <3> QED
      BY <3>1, <3>2, <3>3
  <2> QED
    BY <2>1, <2>2
<1>3. call' = [k \in DOMAIN call' |-> call'[k]] /\ DOMAIN call' \subseteq Slot
  BY <1>1 DEF Calls
<1> QED
  BY <1>2, <1>3 DEF Calls, IsDb

LEMMA EndsFacts ==
  ASSUME Calls, spent.post \subseteq spent'.post, NEW c, call' = Without(call, {c})
  PROVE  Calls'
<1>1. call' = [k \in DOMAIN call \ {c} |-> call[k]]
  BY DEF Without
<1>2. ASSUME NEW k \in DOMAIN call'
      PROVE  IsCall(call[k])' /\ ("snap" \in DOMAIN call'[k] => IsDb(call'[k].snap))
  <2>1. k \in DOMAIN call /\ call'[k] = call[k]
    BY <1>1
  <2>2. IsCall(call[k]) /\ ("snap" \in DOMAIN call[k] => IsDb(call[k].snap))
    BY <2>1 DEF Calls
  <2>3. \A y : IsCall(y) => IsCall(y)'
    BY CallStays
  <2> QED
    BY <2>1, <2>2, <2>3
<1>3. call' = [k \in DOMAIN call' |-> call'[k]] /\ DOMAIN call' \subseteq Slot
  BY <1>1 DEF Calls
<1> QED
  BY <1>2, <1>3 DEF Calls, IsDb

LEMMA CallsAlone == ASSUME Calls, UNCHANGED call, spent' = spent PROVE Calls'
BY DEF Calls, IsCall, IsDb

\* What a running handler remembers.
Creates(x) == x = [op |-> x.op, at |-> x.at, by |-> x.by, room |-> x.room,
                   price |-> x.price, post |-> x.post, todo |-> x.todo]

LEMMA CreateCall ==
  ASSUME Calls, NEW c, Runs(c, "createRoomPost"), NEW x, x = call[c]
  PROVE  /\ Creates(x) /\ x.op = "createRoomPost"
         /\ x.at \in {"save", "read", "copy"} /\ x.by \in User /\ x.room \in RoomId
         /\ x.price \in Price /\ x.todo \in SUBSET Util
         /\ IF x.at = "save" THEN x.post = 0 ELSE x.post \in spent.post
         /\ c \in Slot
BY DEF Calls, Runs, IsCall, Creates

LEMMA UpdatePostCall ==
  ASSUME Calls, NEW c, Runs(c, "updateRoomPost")
  PROVE  call[c].post \in spent.post /\ call[c].row \in Columns /\ c \in Slot
BY DEF Calls, Runs, IsCall

LEMMA FavouriteCall ==
  ASSUME Calls, NEW c, Runs(c, "createFavourite")
  PROVE  call[c].user \in User /\ call[c].post \in spent.post /\ c \in Slot
BY DEF Calls, Runs, IsCall

LEMMA DeletePostCall ==
  ASSUME Calls, NEW c, Runs(c, "deletePost")
  PROVE  call[c].post \in spent.post /\ IsDb(call[c].snap) /\ c \in Slot
BY DEF Calls, Runs, IsCall

LEMMA DeleteRoomCall ==
  ASSUME Calls, NEW c, Runs(c, "deleteRoom")
  PROVE  call[c].room \in RoomId /\ IsDb(call[c].snap) /\ c \in Slot
BY DEF Calls, Runs, IsCall

LEMMA UpdateRoomCall ==
  ASSUME Calls, NEW c, Runs(c, "updateRoom")
  PROVE  /\ call[c].room \in RoomId /\ call[c].new \in Room
         /\ IsDb(call[c].snap) /\ c \in Slot
BY DEF Calls, Runs, IsCall

-------------------------------------------------------------------------------
(* Each action.  Besides the types it is shown what a step may do to posts:  *)
(* none comes back, none loses its district, and whoever is told CREATED has *)
(* one with its district.                                                    *)

Effect ==
  /\ DOMAIN db'.post \subseteq DOMAIN db.post \cup (PostId \ spent.post)
  /\ \A p \in DOMAIN db.post \cap DOMAIN db'.post : db.post[p].district => db'.post[p].district
  /\ \A p \in acked' \ acked : p \in DOMAIN db'.post /\ db'.post[p].district

\* The tables do not change.
LEMMA TablesAlone ==
  ASSUME TypeOK, UNCHANGED <<db, spent, acked>>, Calls'
  PROVE  TypeOK' /\ Effect
<1>1. IsDb(db')
  BY TypeParts
<1>2. Numbers'
  BY TypeParts DEF Numbers
<1> QED
  BY <1>1, <1>2, TypePartsNext DEF Effect

\* The tables change and no number is handed out.
LEMMA NoNumber ==
  ASSUME TypeOK, spent' = spent, Calls', IsDb(db'), acked' = acked,
         DOMAIN db'.post \subseteq DOMAIN db.post, DOMAIN db'.fav \subseteq DOMAIN db.fav,
         \A p \in DOMAIN db'.post : db.post[p].district => db'.post[p].district
  PROVE  TypeOK' /\ Effect
<1>1. Numbers'
  BY TypeParts DEF Numbers
<1> QED
  BY <1>1, TypePartsNext DEF Effect

LEMMA CheckAuthorKeeps == ASSUME TypeOK, NEW c \in Slot, CheckAuthor(c) PROVE TypeOK' /\ Effect
<1>1. PICK u \in User, r \in DOMAIN db.room, m \in Price :
        call' = With(call, c, [op |-> "createRoomPost", at |-> "save", by |-> u, room |-> r,
                               price |-> m, post |-> 0, todo |-> {}])
  BY DEF CheckAuthor, Start
<1> DEFINE x == [op |-> "createRoomPost", at |-> "save", by |-> u, room |-> r,
                 price |-> m, post |-> 0, todo |-> {}]
<1>2. UNCHANGED <<db, spent, acked>>
  BY DEF CheckAuthor
<1>3. r \in RoomId
  BY TypeParts, DbParts, PartialAt
<1>4. IsCall(x)' /\ "snap" \notin DOMAIN x
  BY <1>3 DEF IsCall
<1>5. Calls'
  BY <1>1, <1>2, <1>4, TypeParts, GoesFacts
<1> QED
  BY <1>2, <1>5, TablesAlone

\* createRoomPost goes on with its next step.
Follows(x, y) ==
  /\ Creates(y) /\ y.op = x.op /\ y.by = x.by /\ y.room = x.room /\ y.price = x.price

Saved(x, at, post) == [x EXCEPT !.at = at, !.post = post]
Read(x, at, todo)  == [x EXCEPT !.at = at, !.todo = todo]
Copied(x, todo)    == [x EXCEPT !.todo = todo]

LEMMA CreateSaved ==
  ASSUME NEW x, Creates(x), NEW at, NEW post, NEW y, y = Saved(x, at, post)
  PROVE  Follows(x, y) /\ y.at = at /\ y.post = post /\ y.todo = x.todo
BY DEF Creates, Follows, Saved

LEMMA CreateRead ==
  ASSUME NEW x, Creates(x), NEW at, NEW todo, NEW y, y = Read(x, at, todo)
  PROVE  Follows(x, y) /\ y.at = at /\ y.post = x.post /\ y.todo = todo
BY DEF Creates, Follows, Read

LEMMA CreateCopied ==
  ASSUME NEW x, Creates(x), NEW todo, NEW y, y = Copied(x, todo)
  PROVE  Follows(x, y) /\ y.at = x.at /\ y.post = x.post /\ y.todo = todo
BY DEF Creates, Follows, Copied

LEMMA CreateGoes ==
  ASSUME Calls, spent.post \subseteq spent'.post, NEW c \in Slot, Runs(c, "createRoomPost"),
         NEW x, x = call[c], NEW y, Follows(x, y), y.at \in {"read", "copy"},
         y.post \in spent'.post, y.todo \in SUBSET Util, call' = With(call, c, y)
  PROVE  Calls'
<1>1. x.by \in User /\ x.room \in RoomId /\ x.price \in Price /\ y.op = "createRoomPost"
  BY CreateCall DEF Follows
<1>2. y.at # "save" /\ y.at \in {"save", "read", "copy"}
  OBVIOUS
<1>3. IsCall(y)'
  BY <1>1, <1>2 DEF IsCall, Creates, Follows
<1>4. "snap" \notin DOMAIN y
  BY DEF Creates, Follows
<1> QED
  BY <1>3, <1>4, GoesFacts

LEMMA SavePostKeeps == ASSUME TypeOK, NEW c \in Slot, SavePost(c) PROVE TypeOK' /\ Effect
<1>1. Runs(c, "createRoomPost") /\ acked' = acked
  BY DEF SavePost
<1>0. PICK x : x = call[c]
  OBVIOUS
<1>n. PICK at : at = "read"
  OBVIOUS
<1>2. PICK p, row, y :
        /\ p \in PostId \ spent.post
        /\ row = [by |-> x.by, room |-> x.room, price |-> x.price,
                  now |-> Lives(db, x.by, x.room), district |-> FALSE,
                  utils |-> [z \in Util |-> 0]]
        /\ db' = [db EXCEPT !.post = With(@, p, row)]
        /\ spent' = [spent EXCEPT !.post = @ \cup {p}]
        /\ y = Saved(x, at, p)
        /\ call' = With(call, c, y)
  BY <1>0, <1>n DEF SavePost, Goes, Saved
<1>3. /\ Creates(x) /\ x.by \in User /\ x.room \in RoomId /\ x.price \in Price
      /\ x.todo \in SUBSET Util
  BY <1>0, <1>1, TypeParts, CreateCall
<1>5. row \in Post
  BY <1>2, <1>3 DEF Post, Lives
<1>6. Follows(x, y) /\ y.at = at /\ y.post = p /\ y.todo = x.todo
  BY <1>2, <1>3, CreateSaved
<1>7. spent.post \subseteq spent'.post /\ p \in spent'.post /\ spent'.fav = spent.fav
      /\ spent' \in [post : SUBSET PostId, fav : SUBSET FavId]
      /\ spent'.post = spent.post \cup {p}
  BY <1>2, TypeParts DEF Numbers
<1>8. Calls'
  BY <1>0, <1>1, <1>2, <1>3, <1>6, <1>7, <1>n, TypeParts, CreateGoes
<1>9. PICK post : post = With(db.post, p, row)
  OBVIOUS
<1>a. p \in PostId \ spent.post
  BY <1>2
<1>b. Partial(db.post, PostId, Post) /\ p \in PostId
  BY <1>a, TypeParts, DbParts
<1>10. /\ Partial(post, PostId, Post) /\ DOMAIN post = DOMAIN db.post \cup {p}
       /\ \A z \in DOMAIN db.post : z # p => post[z] = db.post[z]
  <2>1. Partial(post, PostId, Post)
    BY <1>5, <1>9, <1>b, WithFacts
  <2>2. DOMAIN post = DOMAIN db.post \cup {p}
    BY <1>9 DEF With
  <2>3. \A z \in DOMAIN db.post : z # p => post[z] = db.post[z]
    BY <1>9 DEF With
  <2> QED
    BY <2>1, <2>2, <2>3
<1>11. db' = [room |-> db.room, home |-> db.home, master |-> db.master,
              post |-> post, fav |-> db.fav]
  BY <1>2, <1>9, TypeParts, DbParts
<1>12. IsDb(db')
  BY <1>10, <1>11, TypeParts, DbParts, MakeDb
<1>13. Numbers'
  BY <1>1, <1>7, <1>10, <1>11, <1>b, TypeParts DEF Numbers
<1>14. p \notin DOMAIN db.post
  BY <1>a, TypeParts DEF Numbers
<1>15. Effect
  BY <1>1, <1>10, <1>11, <1>14, <1>a DEF Effect
<1> QED
  BY <1>8, <1>12, <1>13, <1>15, TypePartsNext

LEMMA ReadUtilitiesKeeps ==
  ASSUME TypeOK, NEW c \in Slot, ReadUtilities(c) PROVE TypeOK' /\ Effect
<1>0. PICK x : x = call[c]
  OBVIOUS
<1>n. PICK at : at = "copy"
  OBVIOUS
<1>1. PICK todo, y :
        /\ todo = IF x.room \in DOMAIN db.room THEN db.room[x.room].utils ELSE {}
        /\ y = Read(x, at, todo)
        /\ call' = With(call, c, y)
  BY <1>0, <1>n DEF ReadUtilities, Goes, Read
<1>2. Runs(c, "createRoomPost") /\ x.at = "read" /\ UNCHANGED <<db, spent, acked>>
  BY <1>0 DEF ReadUtilities
<1>3. Creates(x) /\ x.post \in spent.post
  BY <1>0, <1>2, TypeParts, CreateCall
<1>5. todo \in SUBSET Util
  <2>1. ASSUME x.room \in DOMAIN db.room PROVE db.room[x.room] \in Room
    BY <2>1, TypeParts, DbParts, PartialAt
  <2> QED
    BY <1>1, <2>1 DEF Room
<1>6. Follows(x, y) /\ y.at = at /\ y.post = x.post /\ y.todo = todo
  BY <1>1, <1>3, CreateRead
<1>8. Calls'
  BY <1>0, <1>1, <1>2, <1>3, <1>5, <1>6, <1>n, TypeParts, CreateGoes
<1> QED
  BY <1>2, <1>8, TablesAlone

\* One post is rewritten, and nothing else in the tables.
WithPost(d, p, row) == [d EXCEPT !.post[p] = row]

LEMMA PostChanged ==
  ASSUME TypeOK, NEW p \in DOMAIN db.post, NEW row \in Post, db' = WithPost(db, p, row),
         db.post[p].district => row.district, Calls', spent' = spent,
         acked' \subseteq acked \cup (IF row.district THEN {p} ELSE {})
  PROVE  TypeOK' /\ Effect
<1>1. PICK post : post = [db.post EXCEPT ![p] = row]
  OBVIOUS
<1>2. Partial(db.post, PostId, Post)
  BY TypeParts, DbParts
<1>3. Partial(post, PostId, Post)
  BY <1>1, <1>2, ExceptFacts
<1>4. /\ DOMAIN post = DOMAIN db.post /\ post[p] = row
      /\ \A z \in DOMAIN db.post : z # p => post[z] = db.post[z]
  BY <1>1
<1>5. db' = [room |-> db.room, home |-> db.home, master |-> db.master,
             post |-> post, fav |-> db.fav]
  BY <1>1, TypeParts, DbParts DEF WithPost
<1>6. IsDb(db')
  BY <1>3, <1>4, <1>5, TypeParts, DbParts, MakeDb
<1>7. Numbers'
  BY <1>4, <1>5, TypeParts DEF Numbers
<1>8. Effect
  BY <1>4, <1>5, TypeParts DEF Effect
<1> QED
  BY <1>6, <1>7, <1>8, TypePartsNext

LEMMA CopyUtilityKeeps == ASSUME TypeOK, NEW c \in Slot, CopyUtility(c) PROVE TypeOK' /\ Effect
<1>0. PICK x : x = call[c]
  OBVIOUS
<1>1. PICK z, todo, y :
        /\ z \in x.todo
        /\ todo = x.todo \ {z} /\ y = Copied(x, todo) /\ call' = With(call, c, y)
        /\ db' = [db EXCEPT !.post[x.post].utils[z] = @ + 1]
  BY <1>0 DEF CopyUtility, Goes, Copied
<1>2. /\ Runs(c, "createRoomPost") /\ x.at = "copy" /\ x.post \in DOMAIN db.post
      /\ UNCHANGED <<spent, acked>>
  BY <1>0 DEF CopyUtility
<1>3. Creates(x) /\ x.post \in spent.post /\ x.todo \in SUBSET Util
  BY <1>0, <1>2, TypeParts, CreateCall
<1>4. Follows(x, y) /\ y.at = x.at /\ y.post = x.post /\ y.todo = todo
  BY <1>1, <1>3, CreateCopied
<1>5. Calls'
  BY <1>0, <1>1, <1>2, <1>3, <1>4, TypeParts, CreateGoes
<1>6. PICK p, old, row : /\ p = x.post /\ old = db.post[p]
                         /\ row = [old EXCEPT !.utils[z] = @ + 1]
  OBVIOUS
<1>7. old \in Post /\ p \in DOMAIN db.post
  BY <1>2, <1>6, TypeParts, PostRow
<1>8. row \in Post /\ row.district = old.district
  BY <1>1, <1>3, <1>6, <1>7 DEF Post
<1>9. db' = WithPost(db, p, row)
  BY <1>1, <1>6, <1>7 DEF WithPost
<1> QED
  BY <1>2, <1>5, <1>6, <1>7, <1>8, <1>9, PostChanged

LEMMA SaveDistrictKeeps ==
  ASSUME TypeOK, NEW c \in Slot, SaveDistrict(c) PROVE TypeOK' /\ Effect
<1>1. /\ Ends(c) /\ spent' = spent /\ acked' = acked \cup {call[c].post}
      /\ call[c].post \in DOMAIN db.post
      /\ db' = [db EXCEPT !.post[call[c].post].district = TRUE]
  BY DEF SaveDistrict
<1>2. Calls'
  BY <1>1, TypeParts, EndsFacts DEF Ends
<1>3. PICK p, old, row : /\ p = call[c].post /\ old = db.post[p]
                         /\ row = [old EXCEPT !.district = TRUE]
  OBVIOUS
<1>4. old \in Post /\ p \in DOMAIN db.post
  BY <1>1, <1>3, TypeParts, PostRow
<1>5. row \in Post /\ row.district
  BY <1>3, <1>4 DEF Post
<1>6. db' = WithPost(db, p, row)
  BY <1>1, <1>3, <1>4 DEF WithPost
<1>7. acked' \subseteq acked \cup (IF row.district THEN {p} ELSE {})
  BY <1>1, <1>3, <1>5
<1> QED
  BY <1>1, <1>2, <1>4, <1>5, <1>6, <1>7, PostChanged

-------------------------------------------------------------------------------
(* updateRoomPost.                                                           *)

LEMMA ReadPostKeeps == ASSUME TypeOK, NEW c \in Slot, ReadPost(c) PROVE TypeOK' /\ Effect
<1>1. PICK p, row, y :
        /\ p \in DOMAIN db.post
        /\ row = [by |-> db.post[p].by, room |-> db.post[p].room, price |-> db.post[p].price]
        /\ y = [op |-> "updateRoomPost", post |-> p, row |-> row]
        /\ call' = With(call, c, y)
  BY DEF ReadPost, Start
<1>2. UNCHANGED <<db, spent, acked>>
  BY DEF ReadPost
<1>3. db.post[p] \in Post /\ p \in spent.post
  BY <1>1, TypeParts, PostRow DEF Numbers
<1>4. row \in Columns
  BY <1>1, <1>3 DEF Post, Columns
<1>5. IsCall(y)' /\ "snap" \notin DOMAIN y
  BY <1>1, <1>2, <1>3, <1>4 DEF IsCall
<1>6. Calls'
  BY <1>1, <1>2, <1>5, TypeParts, GoesFacts
<1> QED
  BY <1>2, <1>6, TablesAlone

LEMMA WritePostKeeps == ASSUME TypeOK, NEW c \in Slot, WritePost(c) PROVE TypeOK' /\ Effect
<1>1. /\ Runs(c, "updateRoomPost") /\ Ends(c) /\ UNCHANGED <<spent, acked>>
      /\ call[c].post \in DOMAIN db.post
      /\ db' = [db EXCEPT !.post[call[c].post] = Written(@, call[c].row)]
  BY DEF WritePost
<1>2. Calls'
  BY <1>1, TypeParts, EndsFacts DEF Ends
<1>3. PICK p, old, col, row : /\ p = call[c].post /\ old = db.post[p] /\ col = call[c].row
                              /\ row = Written(old, col)
  OBVIOUS
<1>4. old \in Post /\ p \in DOMAIN db.post /\ col \in Columns
  BY <1>1, <1>3, TypeParts, PostRow, UpdatePostCall
<1>5. row \in Post /\ row.district = old.district
  BY <1>3, <1>4 DEF Post, Columns, Written
<1>6. db' = WithPost(db, p, row)
  BY <1>1, <1>3, <1>4 DEF WithPost
<1> QED
  BY <1>1, <1>2, <1>3, <1>4, <1>5, <1>6, PostChanged

-------------------------------------------------------------------------------
(* Removal.                                                                  *)

LEMMA DropFacts ==
  ASSUME IsDb(db), NEW P, NEW d, d = Drop(P)
  PROVE  /\ IsDb(d) /\ DOMAIN d.post = DOMAIN db.post \ P
         /\ DOMAIN d.fav \subseteq DOMAIN db.fav /\ d.room = db.room
         /\ \A p \in DOMAIN d.post : d.post[p] = db.post[p]
         /\ \A f \in DOMAIN d.fav : d.fav[f] = db.fav[f]
<1> DEFINE S == UNION {FavouritesOf(db, p) : p \in P}
<1>0. d = [db EXCEPT !.post = Without(@, P), !.fav = Without(@, S)]
  BY DEF Drop
<1>s. \A p \in P : \A f : f \in FavouritesOf(db, p) => f \in S
  OBVIOUS
<1> HIDE DEF S
<1>1. PICK post, fav : post = Without(db.post, P) /\ fav = Without(db.fav, S)
  OBVIOUS
<1>2. d = [room |-> db.room, home |-> db.home, master |-> db.master,
           post |-> post, fav |-> fav]
  <2>1. db = [room |-> db.room, home |-> db.home, master |-> db.master,
              post |-> db.post, fav |-> db.fav]
    BY DbParts
  <2>2. d = [db EXCEPT !.post = post, !.fav = fav]
    BY <1>0, <1>1, <2>1
  <2> QED
    BY <2>1, <2>2
<1>3. Partial(db.post, PostId, Post) /\ Partial(db.fav, FavId, Favourite)
  BY DbParts
<1>4. Partial(post, PostId, Post) /\ Partial(fav, FavId, Favourite)
  BY <1>1, <1>3, WithoutFacts
<1>5. /\ DOMAIN post = DOMAIN db.post \ P /\ DOMAIN fav = DOMAIN db.fav \ S
      /\ \A p \in DOMAIN post : post[p] = db.post[p]
      /\ \A f \in DOMAIN fav : fav[f] = db.fav[f]
  BY <1>1 DEF Without
<1>6. ASSUME NEW f \in DOMAIN fav PROVE fav[f].post \in DOMAIN post
  <2>1. f \in DOMAIN db.fav /\ fav[f] = db.fav[f] /\ db.fav[f].post \in DOMAIN db.post
    BY <1>5, DbParts
  <2>2. db.fav[f].post \notin P
    <3>1. PICK p : p = db.fav[f].post
      OBVIOUS
    <3>2. f \in FavouritesOf(db, p)
      BY <2>1, <3>1 DEF FavouritesOf
    <3> QED
      BY <1>5, <1>s, <3>1, <3>2
  <2> QED
    BY <1>5, <2>1, <2>2
<1>7. IsDb(d)
  BY <1>2, <1>4, <1>6, DbParts, MakeDb
<1> QED
  BY <1>2, <1>5, <1>7

LEMMA VacateFacts ==
  ASSUME NEW d, IsDb(d), NEW snap, NEW r, NEW e, e = Vacate(d, snap, r)
  PROVE  IsDb(e) /\ e.post = d.post /\ e.fav = d.fav /\ DOMAIN e.room = DOMAIN d.room \ {r}
<1> DEFINE M == Residents(snap, r) \cap snap.master
<1>0. e = [d EXCEPT !.room = Without(@, {r}), !.home = Without(@, Residents(db, r)),
                    !.master = @ \ M]
  BY DEF Vacate
<1> HIDE DEF M
<1>1. PICK R, S, room, home, master :
        /\ R = Residents(db, r) /\ S = {r}
        /\ room = Without(d.room, S) /\ home = Without(d.home, R) /\ master = d.master \ M
  OBVIOUS
<1>2. e = [room |-> room, home |-> home, master |-> master, post |-> d.post, fav |-> d.fav]
  BY <1>0, <1>1, DbParts
<1>3. Partial(d.room, RoomId, Room) /\ Partial(d.home, User, RoomId)
  BY DbParts
<1>4. Partial(room, RoomId, Room) /\ Partial(home, User, RoomId) /\ master \subseteq User
  BY <1>1, <1>3, DbParts, WithoutFacts
<1>5. IsDb(e)
  BY <1>2, <1>4, DbParts, MakeDb
<1>6. DOMAIN room = DOMAIN d.room \ {r}
  BY <1>1 DEF Without
<1> QED
  BY <1>2, <1>5, <1>6

LEMMA BeginDeletePostKeeps ==
  ASSUME TypeOK, NEW c \in Slot, BeginDeletePost(c) PROVE TypeOK' /\ Effect
<1>1. PICK p, y :
        /\ p \in spent.post
        /\ y = [op |-> "deletePost", post |-> p, snap |-> db]
        /\ call' = With(call, c, y)
  BY DEF BeginDeletePost, Start
<1>2. UNCHANGED <<db, spent, acked>>
  BY DEF BeginDeletePost
<1>3. IsCall(y)' /\ IsDb(y.snap)
  BY <1>1, <1>2, TypeParts DEF IsCall
<1>4. Calls'
  BY <1>1, <1>2, <1>3, TypeParts, GoesFacts
<1> QED
  BY <1>2, <1>4, TablesAlone

LEMMA DeletePostKeeps == ASSUME TypeOK, NEW c \in Slot, DeletePost(c) PROVE TypeOK' /\ Effect
<1>1. PICK P : db' = Drop(P) /\ Ends(c) /\ UNCHANGED <<spent, acked>>
  BY DEF DeletePost
<1>2. Calls'
  BY <1>1, TypeParts, EndsFacts DEF Ends
<1>3. /\ IsDb(db') /\ DOMAIN db'.post \subseteq DOMAIN db.post
      /\ DOMAIN db'.fav \subseteq DOMAIN db.fav
      /\ \A p \in DOMAIN db'.post : db'.post[p] = db.post[p]
  BY <1>1, TypeParts, DropFacts
<1> QED
  BY <1>1, <1>2, <1>3, NoNumber

LEMMA BeginDeleteRoomKeeps ==
  ASSUME TypeOK, NEW c \in Slot, BeginDeleteRoom(c) PROVE TypeOK' /\ Effect
<1>1. PICK r, y :
        /\ r \in DOMAIN db.room
        /\ y = [op |-> "deleteRoom", room |-> r, snap |-> db]
        /\ call' = With(call, c, y)
  BY DEF BeginDeleteRoom, Start
<1>2. UNCHANGED <<db, spent, acked>>
  BY DEF BeginDeleteRoom
<1>3. r \in RoomId
  BY <1>1, TypeParts, DbParts, PartialAt
<1>4. IsCall(y)' /\ IsDb(y.snap)
  BY <1>1, <1>2, <1>3, TypeParts DEF IsCall
<1>5. Calls'
  BY <1>1, <1>2, <1>4, TypeParts, GoesFacts
<1> QED
  BY <1>2, <1>5, TablesAlone

LEMMA DeleteRoomKeeps == ASSUME TypeOK, NEW c \in Slot, DeleteRoom(c) PROVE TypeOK' /\ Effect
<1>1. PICK P, snap, r, d : d = Drop(P) /\ db' = Vacate(d, snap, r)
  BY DEF DeleteRoom
<1>2. Ends(c) /\ UNCHANGED <<spent, acked>>
  BY DEF DeleteRoom
<1>3. Calls'
  BY <1>2, TypeParts, EndsFacts DEF Ends
<1>4. /\ IsDb(d) /\ DOMAIN d.post \subseteq DOMAIN db.post /\ DOMAIN d.fav \subseteq DOMAIN db.fav
      /\ \A p \in DOMAIN d.post : d.post[p] = db.post[p]
  BY <1>1, TypeParts, DropFacts
<1>5. IsDb(db') /\ db'.post = d.post /\ db'.fav = d.fav
  BY <1>1, <1>4, VacateFacts
<1> QED
  BY <1>2, <1>3, <1>4, <1>5, NoNumber

-------------------------------------------------------------------------------
(* updateRoom.                                                               *)

LEMMA BeginUpdateRoomKeeps ==
  ASSUME TypeOK, NEW c \in Slot, BeginUpdateRoom(c) PROVE TypeOK' /\ Effect
<1>1. PICK r, new, y :
        /\ r \in DOMAIN db.room /\ new \in Room
        /\ y = [op |-> "updateRoom", room |-> r, new |-> new, snap |-> db]
        /\ call' = With(call, c, y)
  BY DEF BeginUpdateRoom, Start
<1>2. UNCHANGED <<db, spent, acked>>
  BY DEF BeginUpdateRoom
<1>3. r \in RoomId
  BY <1>1, TypeParts, DbParts, PartialAt
<1>4. IsCall(y)' /\ IsDb(y.snap)
  BY <1>1, <1>2, <1>3, TypeParts DEF IsCall
<1>5. Calls'
  BY <1>1, <1>2, <1>4, TypeParts, GoesFacts
<1> QED
  BY <1>2, <1>5, TablesAlone

\* What updateRoom makes of one post keeps its columns, and counts no row below 0.
Priced(old, price, utils) == [old EXCEPT !.price = price, !.utils = utils]

LEMMA RefreshedRow ==
  ASSUME NEW old \in Post, NEW price, price \in Price, NEW utils, utils \in [Util -> Nat],
         NEW row, row = Priced(old, price, utils)
  PROVE  row \in Post /\ row.district = old.district /\ row.room = old.room
BY DEF Post, Priced

LEMMA RefreshFacts ==
  ASSUME IsDb(db), NEW d, IsDb(d), NEW r, NEW new \in Room, NEW post, post = Refresh(d, r, new),
         \A p \in Cleared(d, r) \cap DOMAIN db.post, x \in Util :
           d.post[p].utils[x] <= db.post[p].utils[x]
  PROVE  /\ Partial(post, PostId, Post) /\ DOMAIN post = DOMAIN db.post
         /\ \A p \in DOMAIN post : /\ post[p].district = db.post[p].district
                                 /\ post[p].room = db.post[p].room
<1>1. DOMAIN post = DOMAIN db.post /\ post = [p \in DOMAIN post |-> post[p]]
  BY DEF Refresh
<1>2. ASSUME NEW p \in DOMAIN db.post
      PROVE  /\ post[p] \in Post /\ post[p].district = db.post[p].district
             /\ post[p].room = db.post[p].room
  <2> DEFINE price0 == IF p \in Refreshed(d, r) /\ new.price # d.post[p].price
                       THEN new.price ELSE db.post[p].price
             utils0 == [x \in Util |->
                          (IF p \in Cleared(d, r) THEN db.post[p].utils[x] - d.post[p].utils[x]
                                                  ELSE db.post[p].utils[x])
                          + (IF p \in Refreshed(d, r) /\ x \in new.utils THEN 1 ELSE 0)]
  <2> DEFINE Body(q) ==
               [db.post[q] EXCEPT
                  !.price = IF q \in Refreshed(d, r) /\ new.price # d.post[q].price
                            THEN new.price ELSE @,
                  !.utils = [x \in Util |->
                               (IF q \in Cleared(d, r) THEN @[x] - d.post[q].utils[x] ELSE @[x])
                               + (IF q \in Refreshed(d, r) /\ x \in new.utils THEN 1 ELSE 0)]]
  <2>a. post = [q \in DOMAIN db.post |-> Body(q)]
    BY DEF Refresh
  <2>b. post[p] = Body(p)
    <3> HIDE DEF Body
    <3> QED
      BY <2>a
  <2>0. post[p] = [db.post[p] EXCEPT !.price = price0, !.utils = utils0]
    BY <2>b
  <2>1. PICK old, price, utils : old = db.post[p] /\ price = price0 /\ utils = utils0
    OBVIOUS
  <2>2. old \in Post
    BY <2>1, PostRow
  <2>3. post[p] = Priced(old, price, utils)
    <3> HIDE DEF price0, utils0
    <3> QED
      BY <2>0, <2>1 DEF Priced
  <2>4. price \in Price
    BY <2>1, <2>2 DEF Post, Room
  <2>5. ASSUME NEW x \in Util PROVE utils[x] \in Nat
    <3>1. old.utils[x] \in Nat
      BY <2>2 DEF Post
    <3>2. ASSUME p \in Cleared(d, r)
          PROVE  d.post[p].utils[x] \in Nat /\ d.post[p].utils[x] <= old.utils[x]
      <4>1. p \in DOMAIN d.post
        BY <3>2 DEF Cleared
      <4>2. d.post[p] \in Post
        BY <4>1, PostRow
      <4> QED
        BY <2>1, <3>2, <4>2 DEF Post
    <3>3. CASE p \in Cleared(d, r)
      BY <2>1, <3>1, <3>2, <3>3
    <3>4. CASE p \notin Cleared(d, r)
      BY <2>1, <3>1, <3>4
    <3> QED
      BY <3>3, <3>4
  <2>6. utils \in [Util -> Nat]
    BY <2>1, <2>5
  <2> QED
    BY <2>1, <2>2, <2>3, <2>4, <2>6, RefreshedRow
<1>3. DOMAIN db.post \subseteq PostId
  BY DbParts DEF Partial
<1> QED
  BY <1>1, <1>2, <1>3 DEF Partial

LEMMA UpdateRoomKeeps == ASSUME TypeOK, NEW c \in Slot, UpdateRoom(c) PROVE TypeOK' /\ Effect
<1>1. PICK r, d, new, room, post :
        /\ r = call[c].room /\ d = call[c].snap /\ new = call[c].new
        /\ room = [db.room EXCEPT ![r] = new] /\ post = Refresh(d, r, new)
  OBVIOUS
<1>2. /\ Runs(c, "updateRoom") /\ Ends(c) /\ UNCHANGED <<spent, acked>>
      /\ r \in DOMAIN db.room
      /\ \A p \in Cleared(d, r) \cap DOMAIN db.post, x \in Util :
           d.post[p].utils[x] <= db.post[p].utils[x]
      /\ db' = [db EXCEPT !.room[r] = new, !.post = post]
  BY <1>1 DEF UpdateRoom
<1>3. Calls'
  BY <1>2, TypeParts, EndsFacts DEF Ends
<1>4. new \in Room /\ IsDb(d)
  BY <1>1, <1>2, TypeParts, UpdateRoomCall
<1>5. /\ Partial(post, PostId, Post) /\ DOMAIN post = DOMAIN db.post
      /\ \A p \in DOMAIN post : post[p].district = db.post[p].district
  BY <1>1, <1>2, <1>4, TypeParts, RefreshFacts
<1>6. Partial(db.room, RoomId, Room)
  BY TypeParts, DbParts
<1>7. Partial(room, RoomId, Room)
  BY <1>1, <1>2, <1>4, <1>6, ExceptFacts
<1>8. db' = [room |-> room, home |-> db.home, master |-> db.master, post |-> post, fav |-> db.fav]
  <2>1. db' = [db EXCEPT !.room = room, !.post = post]
    BY <1>1, <1>2, TypeParts, DbParts
  <2>2. db = [room |-> db.room, home |-> db.home, master |-> db.master,
              post |-> db.post, fav |-> db.fav]
    BY TypeParts, DbParts
  <2> QED
    BY <2>1, <2>2
<1>9. IsDb(db')
  BY <1>5, <1>7, <1>8, TypeParts, DbParts, MakeDb
<1> QED
  BY <1>2, <1>3, <1>5, <1>8, <1>9, NoNumber

-------------------------------------------------------------------------------
(* Favourites, failures, and tenants who move.                               *)

LEMMA CheckFavouriteKeeps ==
  ASSUME TypeOK, NEW c \in Slot, CheckFavourite(c) PROVE TypeOK' /\ Effect
<1>1. PICK u, p, y :
        /\ u \in User /\ p \in spent.post
        /\ y = [op |-> "createFavourite", user |-> u, post |-> p]
        /\ call' = With(call, c, y)
  BY DEF CheckFavourite, Start
<1>2. UNCHANGED <<db, spent, acked>>
  BY DEF CheckFavourite
<1>3. IsCall(y)' /\ "snap" \notin DOMAIN y
  BY <1>1, <1>2 DEF IsCall
<1>4. Calls'
  BY <1>1, <1>2, <1>3, TypeParts, GoesFacts
<1> QED
  BY <1>2, <1>4, TablesAlone

LEMMA SaveFavouriteKeeps ==
  ASSUME TypeOK, NEW c \in Slot, SaveFavourite(c) PROVE TypeOK' /\ Effect
<1>1. PICK f, row, fav :
        /\ f \in FavId \ spent.fav
        /\ row = [user |-> call[c].user, post |-> call[c].post] /\ fav = With(db.fav, f, row)
        /\ db' = [db EXCEPT !.fav = With(@, f, row)]
        /\ spent' = [spent EXCEPT !.fav = @ \cup {f}]
  BY DEF SaveFavourite
<1>2. Runs(c, "createFavourite") /\ Ends(c) /\ call[c].post \in DOMAIN db.post /\ acked' = acked
  BY DEF SaveFavourite
<1>3. row \in Favourite /\ row.post \in DOMAIN db.post
  BY <1>1, <1>2, TypeParts, FavouriteCall, PostRow DEF Favourite
<1>4. /\ spent'.post = spent.post /\ spent'.fav = spent.fav \cup {f}
      /\ spent' \in [post : SUBSET PostId, fav : SUBSET FavId]
  BY <1>1, TypeParts DEF Numbers
<1>5. Calls'
  BY <1>2, <1>4, TypeParts, EndsFacts DEF Ends
<1>6. Partial(db.fav, FavId, Favourite) /\ f \in FavId
  BY <1>1, TypeParts, DbParts
<1>7. Partial(fav, FavId, Favourite)
  BY <1>1, <1>3, <1>6, WithFacts
<1>8. DOMAIN fav = DOMAIN db.fav \cup {f} /\ \A g \in DOMAIN fav : fav[g] \in {db.fav[g], row}
  BY <1>1 DEF With
<1>9. ASSUME NEW g \in DOMAIN fav PROVE fav[g].post \in DOMAIN db.post
  BY <1>1, <1>3, TypeParts, DbParts DEF With
<1>10. db' = [room |-> db.room, home |-> db.home, master |-> db.master,
              post |-> db.post, fav |-> fav]
  BY <1>1, TypeParts, DbParts
<1>11. IsDb(db')
  BY <1>7, <1>9, <1>10, TypeParts, DbParts, MakeDb
<1>12. Numbers'
  BY <1>2, <1>4, <1>8, <1>10, TypeParts DEF Numbers
<1>13. Effect
  BY <1>2, <1>10 DEF Effect
<1> QED
  BY <1>5, <1>11, <1>12, <1>13, TypePartsNext

LEMMA FailKeeps == ASSUME TypeOK, NEW c \in Slot, Fail(c) PROVE TypeOK' /\ Effect
<1>1. Ends(c) /\ UNCHANGED <<db, spent, acked>>
  BY DEF Fail
<1>2. Calls'
  BY <1>1, TypeParts, EndsFacts DEF Ends
<1> QED
  BY <1>1, <1>2, TablesAlone

LEMMA RemoveFavouriteKeeps == ASSUME TypeOK, RemoveFavourite PROVE TypeOK' /\ Effect
<1>1. PICK S, fav : /\ fav = Without(db.fav, S) /\ db' = [db EXCEPT !.fav = fav]
  BY DEF RemoveFavourite
<1>2. UNCHANGED <<spent, call, acked>>
  BY DEF RemoveFavourite
<1>3. Calls'
  BY <1>2, TypeParts, CallsAlone
<1>4. Partial(db.fav, FavId, Favourite)
  BY TypeParts, DbParts
<1>5. Partial(fav, FavId, Favourite)
  BY <1>1, <1>4, WithoutFacts
<1>6. DOMAIN fav \subseteq DOMAIN db.fav /\ \A g \in DOMAIN fav : fav[g] = db.fav[g]
  BY <1>1 DEF Without
<1>7. db' = [room |-> db.room, home |-> db.home, master |-> db.master,
             post |-> db.post, fav |-> fav]
  BY <1>1, TypeParts, DbParts
<1>8. IsDb(db')
  BY <1>5, <1>6, <1>7, TypeParts, DbParts, MakeDb
<1> QED
  BY <1>2, <1>3, <1>6, <1>7, <1>8, NoNumber

LEMMA MoveInKeeps == ASSUME TypeOK, MoveIn PROVE TypeOK' /\ Effect
<1>1. PICK u, r, home, master :
        /\ u \in User /\ r \in DOMAIN db.room
        /\ home = With(db.home, u, r)
        /\ master = IF Masters(r) = {} THEN db.master \cup {u} ELSE db.master
        /\ db' = [db EXCEPT !.home = home, !.master = master]
  BY DEF MoveIn
<1>2. UNCHANGED <<spent, call, acked>>
  BY DEF MoveIn
<1>3. Calls'
  BY <1>2, TypeParts, CallsAlone
<1>4. Partial(db.home, User, RoomId) /\ r \in RoomId
  BY <1>1, TypeParts, DbParts, PartialAt
<1>5. Partial(home, User, RoomId)
  BY <1>1, <1>4, WithFacts
<1>6. master \subseteq User
  BY <1>1, TypeParts, DbParts
<1>7. db' = [room |-> db.room, home |-> home, master |-> master,
             post |-> db.post, fav |-> db.fav]
  <2>1. db = [room |-> db.room, home |-> db.home, master |-> db.master,
              post |-> db.post, fav |-> db.fav]
    BY TypeParts, DbParts
  <2> QED
    BY <1>1, <2>1
<1>8. IsDb(db')
  BY <1>5, <1>6, <1>7, TypeParts, DbParts, MakeDb
<1> QED
  BY <1>2, <1>3, <1>7, <1>8, NoNumber

\* date_out is set: what the tenant posted is older than the next stay.
Aged(row) == [row EXCEPT !.now = FALSE]

LEMMA MoveOutKeeps == ASSUME TypeOK, MoveOut PROVE TypeOK' /\ Effect
<1>0. PICK u \in DOMAIN db.home :
        db' = [db EXCEPT !.home = Without(@, {u}), !.master = @ \ {u},
                         !.post = [p \in DOMAIN @ |-> IF @[p].by = u
                                                      THEN [@[p] EXCEPT !.now = FALSE]
                                                      ELSE @[p]]]
  BY DEF MoveOut
<1>1. PICK S, home, master, post :
        /\ S = {u} /\ home = Without(db.home, S) /\ master = db.master \ S
        /\ post = [p \in DOMAIN db.post |-> IF db.post[p].by = u
                                            THEN [db.post[p] EXCEPT !.now = FALSE]
                                            ELSE db.post[p]]
        /\ db' = [db EXCEPT !.home = home, !.master = master, !.post = post]
  BY <1>0
<1>2. UNCHANGED <<spent, call, acked>>
  BY DEF MoveOut
<1>3. Calls'
  BY <1>2, TypeParts, CallsAlone
<1>4. Partial(db.home, User, RoomId) /\ Partial(db.post, PostId, Post)
  BY TypeParts, DbParts
<1>5. Partial(home, User, RoomId)
  BY <1>1, <1>4, WithoutFacts
<1>6. ASSUME NEW p \in DOMAIN db.post
      PROVE  post[p] \in Post /\ post[p].district = db.post[p].district
  <2>1. db.post[p] \in Post
    BY TypeParts, PostRow
  <2>2. post[p] = db.post[p] \/ post[p] = Aged(db.post[p])
    BY <1>1 DEF Aged
  <2>3. \A row \in Post : Aged(row) \in Post /\ Aged(row).district = row.district
    BY DEF Aged, Post
  <2> QED
    BY <2>1, <2>2, <2>3
<1>7. DOMAIN post = DOMAIN db.post /\ post = [p \in DOMAIN post |-> post[p]]
  BY <1>1
<1>8. Partial(post, PostId, Post)
  BY <1>4, <1>6, <1>7 DEF Partial
<1>9. db' = [room |-> db.room, home |-> home, master |-> master, post |-> post, fav |-> db.fav]
  <2>1. db = [room |-> db.room, home |-> db.home, master |-> db.master,
              post |-> db.post, fav |-> db.fav]
    BY TypeParts, DbParts
  <2> QED
    BY <1>1, <2>1
<1>m. master \subseteq User
  BY <1>1, TypeParts, DbParts
<1>10. IsDb(db')
  BY <1>m, <1>5, <1>7, <1>8, <1>9, TypeParts, DbParts, MakeDb
<1> QED
  BY <1>2, <1>3, <1>6, <1>7, <1>9, <1>10, NoNumber

LEMMA ChangeMasterKeeps == ASSUME TypeOK, ChangeMaster PROVE TypeOK' /\ Effect
<1>1. PICK u, master :
        /\ u \in DOMAIN db.home
        /\ master = (db.master \ Masters(db.home[u])) \cup {u}
        /\ db' = [db EXCEPT !.master = master]
  BY DEF ChangeMaster
<1>2. UNCHANGED <<spent, call, acked>>
  BY DEF ChangeMaster
<1>3. Calls'
  BY <1>2, TypeParts, CallsAlone
<1>4. Partial(db.home, User, RoomId)
  BY TypeParts, DbParts
<1>5. master \subseteq User
  BY <1>1, <1>4, TypeParts, DbParts, PartialAt
<1>6. db' = [room |-> db.room, home |-> db.home, master |-> master,
             post |-> db.post, fav |-> db.fav]
  BY <1>1, TypeParts, DbParts
<1>7. IsDb(db')
  BY <1>5, <1>6, TypeParts, DbParts, MakeDb
<1> QED
  BY <1>2, <1>3, <1>6, <1>7, NoNumber

-------------------------------------------------------------------------------
LEMMA HandlerKeeps == ASSUME TypeOK, NEW c \in Slot, Handler(c) PROVE TypeOK' /\ Effect
<1>1. CASE CheckAuthor(c) \/ SavePost(c) \/ ReadUtilities(c) \/ CopyUtility(c)
           \/ SaveDistrict(c) \/ ReadPost(c) \/ WritePost(c)
  BY <1>1, CheckAuthorKeeps, SavePostKeeps, ReadUtilitiesKeeps, CopyUtilityKeeps,
     SaveDistrictKeeps, ReadPostKeeps, WritePostKeeps
<1>2. CASE BeginDeletePost(c) \/ DeletePost(c) \/ BeginDeleteRoom(c) \/ DeleteRoom(c)
           \/ BeginUpdateRoom(c) \/ UpdateRoom(c)
  BY <1>2, BeginDeletePostKeeps, DeletePostKeeps, BeginDeleteRoomKeeps, DeleteRoomKeeps,
     BeginUpdateRoomKeeps, UpdateRoomKeeps
<1>3. CASE CheckFavourite(c) \/ SaveFavourite(c) \/ Fail(c)
  BY <1>3, CheckFavouriteKeeps, SaveFavouriteKeeps, FailKeeps
<1> QED
  BY <1>1, <1>2, <1>3 DEF Handler

LEMMA NextKeeps == ASSUME TypeOK, [Next]_vars PROVE TypeOK' /\ Effect
<1>1. CASE \E c \in Slot : Handler(c)
  BY <1>1, HandlerKeeps
<1>2. CASE RemoveFavourite \/ MoveIn \/ MoveOut \/ ChangeMaster
  BY <1>2, RemoveFavouriteKeeps, MoveInKeeps, MoveOutKeeps, ChangeMasterKeeps
<1>3. CASE UNCHANGED vars
  BY <1>3, TypeParts, CallsAlone, TablesAlone DEF vars
<1> QED
  BY <1>1, <1>2, <1>3 DEF Next

LEMMA InitType == Init => TypeOK
<1> SUFFICES ASSUME Init PROVE TypeOK
  OBVIOUS
<1>1. PICK rooms \in [RoomId -> Room] :
        db = [room |-> rooms, home |-> Nothing, master |-> {}, post |-> Nothing, fav |-> Nothing]
  BY DEF Init
<1>2. Partial(rooms, RoomId, Room)
  BY DEF Partial
<1>3. DOMAIN Nothing = {} /\ \A D, R : Partial(Nothing, D, R)
  BY DEF Nothing, Partial
<1>4. IsDb(db)
  BY <1>1, <1>2, <1>3 DEF IsDb
<1>5. Calls
  BY <1>3 DEF Init, Calls, Nothing
<1>6. Numbers
  BY <1>1, <1>3 DEF Init, Numbers
<1> QED
  BY <1>4, <1>5, <1>6, TypeParts

(* The tables, the numbers handed out and what the running handlers         *)
(* remember are of their types; no row of utilities is counted below zero.  *)
THEOREM TypeCorrect == Spec => []TypeOK
<1>1. TypeOK /\ [Next]_vars => TypeOK'
  BY NextKeeps
<1> QED
  BY InitType, <1>1, PTL DEF Spec

(* A post that is gone never comes back, however the handlers overlap: no   *)
(* step of updateRoomPost inserts the row it read.                          *)
THEOREM NoResurrectionHolds == Spec => NoResurrection
<1>1. TypeOK /\ [Next]_vars =>
        [\A p \in spent.post \ DOMAIN db.post : p \notin DOMAIN db'.post]_vars
  BY NextKeeps DEF Effect
<1> QED
  BY <1>1, TypeCorrect, PTL DEF Spec, NoResurrection

(* A post that its author was told is created has its district as long as   *)
(* it exists.                                                               *)
THEOREM FindableHolds == Spec => []Findable
<1>1. Init => Findable
  BY DEF Init, Findable
<1>2. TypeOK /\ Findable /\ [Next]_vars => Findable'
  <2> SUFFICES ASSUME TypeOK, Findable, [Next]_vars, NEW p \in acked' \cap DOMAIN db'.post
               PROVE  db'.post[p].district
    BY DEF Findable
  <2>1. Effect
    BY NextKeeps
  <2>2. CASE p \in acked
    <3>1. p \in DOMAIN db.post
      BY <2>1, <2>2, TypeParts DEF Numbers, Effect
    <3> QED
      BY <2>1, <2>2, <3>1 DEF Effect, Findable
  <2>3. CASE p \notin acked
    BY <2>1, <2>3 DEF Effect
  <2> QED
    BY <2>2, <2>3
<1> QED
  BY <1>1, <1>2, TypeCorrect, PTL DEF Spec

-------------------------------------------------------------------------------
(* Overlap.  What a handler remembers of a post may be old, but not the room *)
(* of the post, which no handler ever changes: a stale row puts back the     *)
(* room that is there.                                                       *)

Fits(d, S, x) ==
  /\ x.op = "updateRoomPost" =>
       x.post \in S /\ (x.post \in DOMAIN d.post => x.row.room = d.post[x.post].room)
  /\ x.op = "deleteRoom" =>
       /\ DOMAIN x.snap.post \subseteq S
       /\ \A p \in DOMAIN x.snap.post \cap DOMAIN d.post :
            x.snap.post[p].room = d.post[p].room

RoomsFit == \A k \in DOMAIN call : Fits(db, spent.post, call[k])

\* Posts stay in their rooms, go, or are new.
RoomsKept ==
  /\ spent.post \subseteq spent'.post
  /\ \A p \in DOMAIN db'.post :
       (p \in DOMAIN db.post /\ db'.post[p].room = db.post[p].room) \/ p \notin spent.post

\* Rooms stay, posts stay in their rooms or go.
Still ==
  /\ DOMAIN db'.room = DOMAIN db.room /\ spent'.post = spent.post
  /\ \A p \in DOMAIN db'.post : p \in DOMAIN db.post /\ db'.post[p].room = db.post[p].room

\* Favourites stay or go.
FewerMarks == \A f \in DOMAIN db'.fav : f \in DOMAIN db.fav /\ db'.fav[f] = db.fav[f]

\* A handler goes on, ends or begins, but not to make a favourite.
NoNewMaker ==
  \A k \in DOMAIN call' :
    \/ k \in DOMAIN call /\ call'[k] = call[k]
    \/ call'[k].op # "createFavourite" /\ Fits(db', spent'.post, call'[k])

Quiet == Still /\ FewerMarks /\ NoNewMaker

\* No post is parted from its room, except as OnlyOverlapOrphans says.
NoneParted ==
  \A p \in PostId : Orphan(db', p) /\ ~Orphan(db, p) =>
    \E c \in Slot : \/ SavePost(c) /\ p \notin DOMAIN db.post
                    \/ DeleteRoom(c) /\ p \notin DOMAIN call[c].snap.post

LEMMA StillParts == ASSUME Still PROVE RoomsKept /\ NoneParted
BY DEF Still, RoomsKept, NoneParted, Orphan

LEMMA FitsStay ==
  ASSUME RoomsKept, NEW x, Fits(db, spent.post, x) PROVE Fits(db', spent'.post, x)
BY DEF RoomsKept, Fits

LEMMA RoomsFitStay == ASSUME RoomsFit, RoomsKept, NoNewMaker PROVE RoomsFit'
<1>1. \A x : Fits(db, spent.post, x) => Fits(db', spent'.post, x)
  BY FitsStay
<1>2. \A k \in DOMAIN call' : Fits(db', spent'.post, call'[k])
  BY <1>1 DEF RoomsFit, NoNewMaker
<1> QED
  BY <1>2 DEF RoomsFit, Fits

LEMMA EndsMaker == ASSUME NEW c, Ends(c) \/ UNCHANGED call PROVE NoNewMaker
BY DEF Ends, Without, NoNewMaker

LEMMA GoesMaker ==
  ASSUME NEW c, NEW y, call' = With(call, c, y),
         y.op # "createFavourite", Fits(db', spent'.post, y)
  PROVE  NoNewMaker
<1>1. \A k \in DOMAIN call' : (k \in DOMAIN call /\ call'[k] = call[k]) \/ call'[k] = y
  BY DEF With
<1> QED
  BY <1>1 DEF NoNewMaker

LEMMA TablesStill == ASSUME UNCHANGED <<db, spent>> PROVE Still /\ FewerMarks
BY DEF Still, FewerMarks

LEMMA PostStill ==
  ASSUME TypeOK, NEW p \in DOMAIN db.post, NEW row, row.room = db.post[p].room,
         db' = WithPost(db, p, row), spent' = spent
  PROVE  Still /\ FewerMarks
<1>1. PICK post : post = [db.post EXCEPT ![p] = row]
  OBVIOUS
<1>2. db' = [room |-> db.room, home |-> db.home, master |-> db.master,
             post |-> post, fav |-> db.fav]
  BY <1>1, TypeParts, DbParts DEF WithPost
<1>3. /\ DOMAIN post = DOMAIN db.post /\ post[p] = row
      /\ \A z \in DOMAIN db.post : z # p => post[z] = db.post[z]
  BY <1>1
<1> QED
  BY <1>2, <1>3 DEF Still, FewerMarks

\* A handler of createRoomPost has nothing that Fits asks for.
LEMMA CreateFits == ASSUME NEW x, x.op = "createRoomPost", NEW d, NEW S PROVE Fits(d, S, x)
BY DEF Fits

\* createRoomPost, but for the step that saves the post.
LEMMA CreateQuiet ==
  ASSUME TypeOK, NEW c \in Slot,
         CheckAuthor(c) \/ ReadUtilities(c) \/ CopyUtility(c) \/ SaveDistrict(c)
  PROVE  Quiet
<1>0. PICK x : x = call[c]
  OBVIOUS
<1>1. CASE CheckAuthor(c)
  <2>1. PICK y : y.op = "createRoomPost" /\ call' = With(call, c, y)
    BY <1>1 DEF CheckAuthor, Start
  <2> QED
    BY <1>1, <2>1, CreateFits, TablesStill, GoesMaker DEF CheckAuthor, Quiet
<1>2. ASSUME Runs(c, "createRoomPost")
      PROVE  /\ Creates(x) /\ x.op = "createRoomPost"
             /\ \A y : Follows(x, y) => y.op = "createRoomPost"
  <2>1. Creates(x) /\ x.op = "createRoomPost"
    BY <1>0, <1>2, TypeParts, CreateCall
  <2> QED
    BY <2>1 DEF Follows
<1>4. CASE ReadUtilities(c)
  <2>1. PICK at : at = "copy"
    OBVIOUS
  <2>2. PICK todo, y :
          /\ todo = IF x.room \in DOMAIN db.room THEN db.room[x.room].utils ELSE {}
          /\ y = Read(x, at, todo)
          /\ call' = With(call, c, y)
    BY <1>0, <1>4, <2>1 DEF ReadUtilities, Goes, Read
  <2>3. Runs(c, "createRoomPost") /\ UNCHANGED <<db, spent>>
    BY <1>4 DEF ReadUtilities
  <2>4. y.op = "createRoomPost"
    BY <1>2, <2>2, <2>3, CreateRead
  <2> QED
    BY <2>2, <2>3, <2>4, CreateFits, TablesStill, GoesMaker DEF Quiet
<1>5. CASE CopyUtility(c)
  <2>1. PICK z, todo, y :
          /\ z \in x.todo
          /\ todo = x.todo \ {z} /\ y = Copied(x, todo) /\ call' = With(call, c, y)
          /\ db' = [db EXCEPT !.post[x.post].utils[z] = @ + 1]
    BY <1>0, <1>5 DEF CopyUtility, Goes, Copied
  <2>2. Runs(c, "createRoomPost") /\ x.post \in DOMAIN db.post /\ spent' = spent
    BY <1>0, <1>5 DEF CopyUtility
  <2>3. y.op = "createRoomPost"
    BY <1>2, <2>1, <2>2, CreateCopied
  <2>4. PICK p, old, row : /\ p = x.post /\ old = db.post[p]
                           /\ row = [old EXCEPT !.utils[z] = @ + 1]
    OBVIOUS
  <2>5. old \in Post /\ p \in DOMAIN db.post
    BY <2>2, <2>4, TypeParts, PostRow
  <2>6. row.room = old.room
    BY <2>4, <2>5 DEF Post
  <2>7. db' = WithPost(db, p, row)
    BY <2>1, <2>4, <2>5 DEF WithPost
  <2>8. Still /\ FewerMarks
    BY <2>2, <2>4, <2>5, <2>6, <2>7, PostStill
  <2> QED
    BY <2>1, <2>3, <2>8, CreateFits, GoesMaker DEF Quiet
<1>6. CASE SaveDistrict(c)
  <2>1. /\ Ends(c) /\ call[c].post \in DOMAIN db.post /\ spent' = spent
        /\ db' = [db EXCEPT !.post[call[c].post].district = TRUE]
    BY <1>6 DEF SaveDistrict
  <2>2. PICK p, old, row : /\ p = call[c].post /\ old = db.post[p]
                           /\ row = [old EXCEPT !.district = TRUE]
    OBVIOUS
  <2>3. old \in Post /\ p \in DOMAIN db.post
    BY <2>1, <2>2, TypeParts, PostRow
  <2>4. row.room = old.room
    BY <2>2, <2>3 DEF Post
  <2>5. db' = WithPost(db, p, row)
    BY <2>1, <2>2, <2>3 DEF WithPost
  <2>6. Still /\ FewerMarks
    BY <2>1, <2>2, <2>3, <2>4, <2>5, PostStill
  <2> QED
    BY <2>1, <2>6, EndsMaker DEF Quiet
<1> QED
  BY <1>1, <1>4, <1>5, <1>6

\* createRoomPost saves: the post has a number of its own.
LEMMA SaveNew ==
  ASSUME TypeOK, NEW c \in Slot, SavePost(c)
  PROVE  RoomsKept /\ FewerMarks /\ NoNewMaker /\ NoneParted
<1>0. PICK x, at : x = call[c] /\ at = "read"
  OBVIOUS
<1>1. PICK p, row, y, post :
        /\ p \in PostId \ spent.post
        /\ post = With(db.post, p, row)
        /\ db' = [db EXCEPT !.post = With(@, p, row)]
        /\ spent' = [spent EXCEPT !.post = @ \cup {p}]
        /\ y = Saved(x, at, p)
        /\ call' = With(call, c, y)
  BY <1>0 DEF SavePost, Goes, Saved
<1>2. Runs(c, "createRoomPost")
  BY DEF SavePost
<1>3. y.op = "createRoomPost"
  <2>1. Creates(x) /\ x.op = "createRoomPost"
    BY <1>0, <1>2, TypeParts, CreateCall
  <2> QED
    BY <1>1, <2>1 DEF Saved, Creates
<1>4. db' = [room |-> db.room, home |-> db.home, master |-> db.master,
             post |-> post, fav |-> db.fav]
  BY <1>1, TypeParts, DbParts
<1>5. \A z \in DOMAIN post : (z \in DOMAIN db.post /\ post[z] = db.post[z]) \/ z = p
  BY <1>1 DEF With
<1>6. spent'.post = spent.post \cup {p} /\ p \notin DOMAIN db.post
  BY <1>1, TypeParts DEF Numbers
<1>7. RoomsKept /\ FewerMarks
  BY <1>1, <1>4, <1>5, <1>6 DEF RoomsKept, FewerMarks
<1>8. NoNewMaker
  BY <1>1, <1>3, CreateFits, GoesMaker
<1>9. NoneParted
  BY <1>4, <1>5, <1>6 DEF NoneParted, Orphan
<1> QED
  BY <1>7, <1>8, <1>9

\* updateRoomPost.
LEMMA UpdatePostQuiet ==
  ASSUME TypeOK, RoomsFit, NEW c \in Slot, ReadPost(c) \/ WritePost(c) PROVE Quiet
<1>1. CASE ReadPost(c)
  <2>1. PICK p, row, y :
          /\ p \in DOMAIN db.post
          /\ row = [by |-> db.post[p].by, room |-> db.post[p].room, price |-> db.post[p].price]
          /\ y = [op |-> "updateRoomPost", post |-> p, row |-> row]
          /\ call' = With(call, c, y)
    BY <1>1 DEF ReadPost, Start
  <2>2. UNCHANGED <<db, spent>>
    BY <1>1 DEF ReadPost
  <2>3. Fits(db', spent'.post, y) /\ y.op # "createFavourite"
    BY <2>1, <2>2, TypeParts DEF Fits, Numbers
  <2> QED
    BY <2>1, <2>2, <2>3, TablesStill, GoesMaker DEF Quiet
<1>2. CASE WritePost(c)
  <2>1. /\ Runs(c, "updateRoomPost") /\ Ends(c) /\ call[c].post \in DOMAIN db.post
        /\ db' = [db EXCEPT !.post[call[c].post] = Written(@, call[c].row)] /\ spent' = spent
    BY <1>2 DEF WritePost
  <2>2. PICK x, p, old, col, row :
          /\ x = call[c] /\ p = x.post /\ old = db.post[p] /\ col = x.row
          /\ row = Written(old, col)
    OBVIOUS
  <2>3. old \in Post /\ p \in DOMAIN db.post
    BY <2>1, <2>2, TypeParts, PostRow
  <2>4. col.room = old.room
    BY <2>1, <2>2, <2>3 DEF Fits, RoomsFit, Runs
  <2>5. row.room = old.room
    BY <2>2, <2>3, <2>4 DEF Post, Written
  <2>6. db' = WithPost(db, p, row)
    BY <2>1, <2>2, <2>3 DEF WithPost
  <2> QED
    BY <2>1, <2>2, <2>3, <2>5, <2>6, PostStill, EndsMaker DEF Quiet
<1> QED
  BY <1>1, <1>2

\* deletePost, and the start of deleteRoom.
LEMMA DeleteQuiet ==
  ASSUME TypeOK, NEW c \in Slot, BeginDeletePost(c) \/ DeletePost(c) \/ BeginDeleteRoom(c)
  PROVE  Quiet
<1>1. CASE BeginDeletePost(c)
  <2>1. PICK y : y.op = "deletePost" /\ call' = With(call, c, y)
    BY <1>1 DEF BeginDeletePost, Start
  <2>2. Fits(db', spent'.post, y)
    BY <2>1 DEF Fits
  <2> QED
    BY <1>1, <2>1, <2>2, TablesStill, GoesMaker DEF BeginDeletePost, Quiet
<1>2. CASE DeletePost(c)
  <2>1. PICK P, d : d = Drop(P) /\ db' = d /\ Ends(c) /\ spent' = spent
    BY <1>2 DEF DeletePost
  <2>2. Still /\ FewerMarks
    BY <2>1, TypeParts, DropFacts DEF Still, FewerMarks
  <2> QED
    BY <2>1, <2>2, EndsMaker DEF Quiet
<1>3. CASE BeginDeleteRoom(c)
  <2>1. PICK r, y : /\ y = [op |-> "deleteRoom", room |-> r, snap |-> db]
                    /\ call' = With(call, c, y)
    BY <1>3 DEF BeginDeleteRoom, Start
  <2>2. UNCHANGED <<db, spent>>
    BY <1>3 DEF BeginDeleteRoom
  <2>3. Fits(db', spent'.post, y) /\ y.op # "createFavourite"
    BY <2>1, <2>2, TypeParts DEF Fits, Numbers
  <2> QED
    BY <2>1, <2>2, <2>3, TablesStill, GoesMaker DEF Quiet
<1> QED
  BY <1>1, <1>2, <1>3

\* deleteRoom: what it leaves of the room's posts it had not seen, for the posts it
\* had seen were in the same rooms then.
LEMMA DeleteRoomParts ==
  ASSUME TypeOK, RoomsFit, NEW c \in Slot, DeleteRoom(c)
  PROVE  RoomsKept /\ FewerMarks /\ NoNewMaker /\ NoneParted
<1>1. PICK x, r, snap, P, d :
        /\ x = call[c] /\ r = x.room /\ snap = x.snap /\ P = PostsOf(snap, r)
        /\ d = Drop(P) /\ db' = Vacate(d, snap, r)
  BY DEF DeleteRoom
<1>2. Runs(c, "deleteRoom") /\ Ends(c) /\ spent' = spent
  BY DEF DeleteRoom
<1>3. \A p \in DOMAIN snap.post \cap DOMAIN db.post : snap.post[p].room = db.post[p].room
  BY <1>1, <1>2 DEF RoomsFit, Fits, Runs
<1>4. /\ IsDb(d) /\ DOMAIN d.post = DOMAIN db.post \ P /\ d.room = db.room
      /\ DOMAIN d.fav \subseteq DOMAIN db.fav
      /\ \A p \in DOMAIN d.post : d.post[p] = db.post[p]
      /\ \A f \in DOMAIN d.fav : d.fav[f] = db.fav[f]
  BY <1>1, TypeParts, DropFacts
<1>5. db'.post = d.post /\ db'.fav = d.fav /\ DOMAIN db'.room = DOMAIN db.room \ {r}
  BY <1>1, <1>4, VacateFacts
<1>6. RoomsKept /\ FewerMarks
  BY <1>2, <1>4, <1>5 DEF RoomsKept, FewerMarks
<1>7. ASSUME NEW p \in PostId, Orphan(db', p), ~Orphan(db, p) PROVE p \notin DOMAIN call[c].snap.post
  <2>1. p \in DOMAIN db.post /\ p \notin P /\ db.post[p].room = r
    BY <1>4, <1>5, <1>7 DEF Orphan
  <2>2. p \in DOMAIN snap.post => snap.post[p].room = r
    BY <1>3, <2>1
  <2> QED
    BY <1>1, <2>1, <2>2 DEF PostsOf
<1>8. NoneParted
  BY <1>7 DEF NoneParted
<1> QED
  BY <1>2, <1>6, <1>8, EndsMaker

\* updateRoom.
LEMMA UpdateRoomQuiet ==
  ASSUME TypeOK, NEW c \in Slot, BeginUpdateRoom(c) \/ UpdateRoom(c) PROVE Quiet
<1>1. CASE BeginUpdateRoom(c)
  <2>1. PICK y : y.op = "updateRoom" /\ call' = With(call, c, y)
    BY <1>1 DEF BeginUpdateRoom, Start
  <2>2. Fits(db', spent'.post, y)
    BY <2>1 DEF Fits
  <2> QED
    BY <1>1, <2>1, <2>2, TablesStill, GoesMaker DEF BeginUpdateRoom, Quiet
<1>2. CASE UpdateRoom(c)
  <2>1. PICK r, d, new, room, post :
          /\ r = call[c].room /\ d = call[c].snap /\ new = call[c].new
          /\ room = [db.room EXCEPT ![r] = new] /\ post = Refresh(d, r, new)
    OBVIOUS
  <2>2. /\ Runs(c, "updateRoom") /\ Ends(c) /\ spent' = spent
        /\ \A p \in Cleared(d, r) \cap DOMAIN db.post, x \in Util :
             d.post[p].utils[x] <= db.post[p].utils[x]
        /\ db' = [db EXCEPT !.room = room, !.post = post]
    BY <1>2, <2>1, TypeParts, DbParts DEF UpdateRoom
  <2>3. new \in Room /\ IsDb(d)
    BY <2>1, <2>2, TypeParts, UpdateRoomCall
  <2>4. DOMAIN post = DOMAIN db.post /\ \A p \in DOMAIN post : post[p].room = db.post[p].room
    BY <2>1, <2>2, <2>3, TypeParts, RefreshFacts
  <2>5. db' = [room |-> room, home |-> db.home, master |-> db.master,
               post |-> post, fav |-> db.fav]
    <3>1. db = [room |-> db.room, home |-> db.home, master |-> db.master,
                post |-> db.post, fav |-> db.fav]
      BY TypeParts, DbParts
    <3> QED
      BY <2>2, <3>1
  <2>6. DOMAIN room = DOMAIN db.room
    BY <2>1
  <2>7. Still /\ FewerMarks
    BY <2>2, <2>4, <2>5, <2>6 DEF Still, FewerMarks
  <2> QED
    BY <2>2, <2>7, EndsMaker DEF Quiet
<1> QED
  BY <1>1, <1>2

-------------------------------------------------------------------------------
(* Favourites.  Each handler at work on a favourite may still save one, so   *)
(* that it counts as one: a handler joins only while there is none.          *)

Makers(u, p) ==
  {k \in DOMAIN call : call[k].op = "createFavourite" /\ call[k].user = u /\ call[k].post = p}

\* S, the favourites, and T, the handlers, of one user and post.
Few(S, T) ==
  /\ IsFiniteSet(S) /\ IsFiniteSet(T)
  /\ Cardinality(S) + Cardinality(T) <= Cardinality(Slot)

MarksFit ==
  /\ IsFiniteSet(DOMAIN db.fav)
  /\ \A u \in User, p \in PostId : Few(Marks(db, u, p), Makers(u, p))

LEMMA FewerStay ==
  ASSUME NEW S, NEW T, Few(S, T), NEW A \in SUBSET S, NEW B \in SUBSET T PROVE Few(A, B)
<1>1. IsFiniteSet(A) /\ Cardinality(A) <= Cardinality(S)
  BY FS_Subset DEF Few
<1>2. IsFiniteSet(B) /\ Cardinality(B) <= Cardinality(T)
  BY FS_Subset DEF Few
<1>3. /\ Cardinality(A) \in Nat /\ Cardinality(B) \in Nat
      /\ Cardinality(S) \in Nat /\ Cardinality(T) \in Nat /\ Cardinality(Slot) \in Nat
  BY <1>1, <1>2, FS_CardinalityType, SlotAssumption DEF Few
<1> QED
  BY <1>1, <1>2, <1>3 DEF Few

\* A handler that saves turns into a favourite.
LEMMA SavedStay ==
  ASSUME NEW S, NEW T, Few(S, T), NEW c \in T, NEW f, f \notin S PROVE Few(S \cup {f}, T \ {c})
<1>1. IsFiniteSet(S \cup {f}) /\ Cardinality(S \cup {f}) = Cardinality(S) + 1
  BY FS_AddElement DEF Few
<1>2. IsFiniteSet(T \ {c}) /\ Cardinality(T \ {c}) = Cardinality(T) - 1
  BY FS_RemoveElement DEF Few
<1>3. Cardinality(S) \in Nat /\ Cardinality(T) \in Nat
  BY FS_CardinalityType DEF Few
<1> QED
  BY <1>1, <1>2, <1>3 DEF Few

LEMMA NoneStay == ASSUME NEW T \in SUBSET Slot PROVE Few({}, T)
<1>1. IsFiniteSet(T) /\ Cardinality(T) <= Cardinality(Slot)
  BY FS_Subset, SlotAssumption
<1>2. Cardinality(T) \in Nat /\ Cardinality(Slot) \in Nat
  BY <1>1, FS_CardinalityType, SlotAssumption
<1>3. IsFiniteSet({}) /\ Cardinality({}) = 0
  BY FS_EmptySet
<1> QED
  BY <1>1, <1>2, <1>3 DEF Few

LEMMA FewerMarksFit == ASSUME MarksFit, FewerMarks, NoNewMaker PROVE MarksFit'
<1>1. IsFiniteSet(DOMAIN db'.fav)
  <2>1. DOMAIN db'.fav \in SUBSET DOMAIN db.fav
    BY DEF FewerMarks
  <2> QED
    BY <2>1, FS_Subset DEF MarksFit
<1>2. ASSUME NEW u \in User, NEW p \in PostId PROVE Few(Marks(db', u, p), Makers(u, p)')
  <2>1. Marks(db', u, p) \in SUBSET Marks(db, u, p)
    BY DEF FewerMarks, Marks, FavouritesOf
  <2>2. Makers(u, p)' \in SUBSET Makers(u, p)
    BY DEF NoNewMaker, Makers
  <2>3. Few(Marks(db, u, p), Makers(u, p))
    BY DEF MarksFit
  <2> QED
    BY <2>1, <2>2, <2>3, FewerStay
<1> QED
  BY <1>1, <1>2 DEF MarksFit, Few

\* addFavorite looks: another handler, and no favourite yet.
LEMMA CheckFavouriteParts ==
  ASSUME TypeOK, RoomsFit, MarksFit, NEW c \in Slot, CheckFavourite(c)
  PROVE  RoomsFit' /\ MarksFit' /\ NoneParted
<1>1. PICK u, p, y :
        /\ u \in User /\ p \in spent.post /\ Marks(db, u, p) = {}
        /\ y = [op |-> "createFavourite", user |-> u, post |-> p]
        /\ call' = With(call, c, y)
  BY DEF CheckFavourite, Start
<1>2. UNCHANGED <<db, spent>>
  BY DEF CheckFavourite
<1>3. Still /\ FewerMarks
  BY <1>2, TablesStill
<1>4. \A k \in DOMAIN call' : (k \in DOMAIN call /\ call'[k] = call[k]) \/ call'[k] = y
  BY <1>1 DEF With
<1>5. RoomsFit'
  <2>1. \A k \in DOMAIN call' : Fits(db', spent'.post, call'[k])
    BY <1>1, <1>2, <1>4 DEF RoomsFit, Fits
  <2> QED
    BY <2>1 DEF RoomsFit, Fits
<1>6. ASSUME NEW v \in User, NEW q \in PostId PROVE Few(Marks(db', v, q), Makers(v, q)')
  <2>1. Marks(db', v, q) = Marks(db, v, q)
    BY <1>2
  <2>2. CASE v = u /\ q = p
    <3>1. Makers(v, q)' \in SUBSET Slot
      BY TypeParts, <1>1 DEF Makers, With, Calls
    <3> QED
      BY <1>1, <2>1, <2>2, <3>1, NoneStay
  <2>3. CASE ~(v = u /\ q = p)
    <3>1. Makers(v, q)' \in SUBSET Makers(v, q)
      BY <1>1, <1>4, <2>3 DEF Makers
    <3>2. Few(Marks(db, v, q), Makers(v, q))
      BY DEF MarksFit
    <3>3. Marks(db', v, q) \in SUBSET Marks(db, v, q)
      BY <2>1
    <3> QED
      BY <3>1, <3>2, <3>3, FewerStay
  <2> QED
    BY <2>2, <2>3
<1>7. MarksFit'
  BY <1>2, <1>6 DEF MarksFit, Few
<1> QED
  BY <1>3, <1>5, <1>7, StillParts

\* addFavorite saves.
LEMMA SaveFavouriteParts ==
  ASSUME TypeOK, RoomsFit, MarksFit, NEW c \in Slot, SaveFavourite(c)
  PROVE  RoomsFit' /\ MarksFit' /\ NoneParted
<1>0. PICK x : x = call[c]
  OBVIOUS
<1>1. PICK f, row, fav :
        /\ f \in FavId \ spent.fav
        /\ row = [user |-> x.user, post |-> x.post] /\ fav = With(db.fav, f, row)
        /\ db' = [db EXCEPT !.fav = With(@, f, row)]
        /\ spent' = [spent EXCEPT !.fav = @ \cup {f}]
  BY <1>0 DEF SaveFavourite
<1>2. Runs(c, "createFavourite") /\ Ends(c)
  BY DEF SaveFavourite
<1>3. db' = [room |-> db.room, home |-> db.home, master |-> db.master,
             post |-> db.post, fav |-> fav]
  BY <1>1, TypeParts, DbParts
<1>4. f \notin DOMAIN db.fav /\ spent'.post = spent.post
  BY <1>1, TypeParts DEF Numbers
<1>5. /\ DOMAIN fav = DOMAIN db.fav \cup {f} /\ fav[f] = row
      /\ \A g \in DOMAIN db.fav : fav[g] = db.fav[g]
  BY <1>1, <1>4 DEF With
<1>6. Still
  BY <1>3, <1>4 DEF Still
<1>7. NoNewMaker
  BY <1>2, EndsMaker
<1>8. IsFiniteSet(DOMAIN db'.fav)
  BY <1>3, <1>5, FS_AddElement DEF MarksFit
<1>9. ASSUME NEW v \in User, NEW q \in PostId PROVE Few(Marks(db', v, q), Makers(v, q)')
  <2>1. Few(Marks(db, v, q), Makers(v, q))
    BY DEF MarksFit
  <2>2. Makers(v, q)' = Makers(v, q) \ {c}
    BY <1>2 DEF Makers, Ends, Without
  <2>3. CASE v = x.user /\ q = x.post
    <3>1. c \in Makers(v, q)
      BY <1>0, <1>2, <2>3 DEF Makers, Runs
    <3>2. Marks(db', v, q) = Marks(db, v, q) \cup {f} /\ f \notin Marks(db, v, q)
      BY <1>1, <1>3, <1>4, <1>5, <2>3 DEF Marks, FavouritesOf
    <3> QED
      BY <2>1, <2>2, <3>1, <3>2, SavedStay
  <2>4. CASE ~(v = x.user /\ q = x.post)
    <3>1. Marks(db', v, q) \in SUBSET Marks(db, v, q)
      BY <1>1, <1>3, <1>5, <2>4 DEF Marks, FavouritesOf
    <3>2. Makers(v, q)' \in SUBSET Makers(v, q)
      BY <2>2
    <3> QED
      BY <2>1, <3>1, <3>2, FewerStay
  <2> QED
    BY <2>3, <2>4
<1>10. MarksFit'
  BY <1>8, <1>9 DEF MarksFit, Few
<1> QED
  BY <1>6, <1>7, <1>10, StillParts, RoomsFitStay

-------------------------------------------------------------------------------
\* Steps of no handler.
LEMMA MovesQuiet ==
  ASSUME TypeOK, RemoveFavourite \/ MoveIn \/ MoveOut \/ ChangeMaster PROVE Quiet
<1>1. CASE RemoveFavourite
  <2>1. PICK S, fav : fav = Without(db.fav, S) /\ db' = [db EXCEPT !.fav = fav]
    BY <1>1 DEF RemoveFavourite
  <2>2. \A g \in DOMAIN fav : g \in DOMAIN db.fav /\ fav[g] = db.fav[g]
    BY <2>1 DEF Without
  <2>3. Still /\ FewerMarks
    BY <1>1, <2>1, <2>2, TypeParts, DbParts DEF RemoveFavourite, Still, FewerMarks
  <2> QED
    BY <1>1, <2>3, EndsMaker DEF RemoveFavourite, Quiet
<1>2. CASE MoveIn
  <2>1. PICK home, master : db' = [db EXCEPT !.home = home, !.master = master]
    BY <1>2 DEF MoveIn
  <2>2. UNCHANGED spent
    BY <1>2 DEF MoveIn
  <2>3. db' = [room |-> db.room, home |-> home, master |-> master,
               post |-> db.post, fav |-> db.fav]
    <3>1. db = [room |-> db.room, home |-> db.home, master |-> db.master,
                post |-> db.post, fav |-> db.fav]
      BY TypeParts, DbParts
    <3> QED
      BY <2>1, <3>1
  <2>4. Still /\ FewerMarks
    BY <2>2, <2>3 DEF Still, FewerMarks
  <2> QED
    BY <1>2, <2>4, EndsMaker DEF MoveIn, Quiet
<1>3. CASE MoveOut
  <2>1. PICK u \in DOMAIN db.home :
          db' = [db EXCEPT !.home = Without(@, {u}), !.master = @ \ {u},
                           !.post = [p \in DOMAIN @ |-> IF @[p].by = u
                                                        THEN [@[p] EXCEPT !.now = FALSE]
                                                        ELSE @[p]]]
    BY <1>3 DEF MoveOut
  <2>2. PICK home, master, post :
          /\ post = [p \in DOMAIN db.post |-> IF db.post[p].by = u
                                              THEN [db.post[p] EXCEPT !.now = FALSE]
                                              ELSE db.post[p]]
          /\ db' = [db EXCEPT !.home = home, !.master = master, !.post = post]
    BY <2>1
  <2>3. DOMAIN post = DOMAIN db.post /\ \A p \in DOMAIN post : post[p].room = db.post[p].room
    <3>1. ASSUME NEW p \in DOMAIN post PROVE post[p].room = db.post[p].room
      <4>1. p \in DOMAIN db.post /\ db.post[p] \in Post
        BY <2>2, <3>1, TypeParts, PostRow
      <4>2. post[p] = db.post[p] \/ post[p] = Aged(db.post[p])
        BY <2>2, <4>1 DEF Aged
      <4>3. \A row \in Post : Aged(row).room = row.room
        BY DEF Aged, Post
      <4> QED
        BY <4>1, <4>2, <4>3
    <3> QED
      BY <2>2, <3>1
  <2>4. db' = [room |-> db.room, home |-> home, master |-> master, post |-> post, fav |-> db.fav]
    <3>1. db = [room |-> db.room, home |-> db.home, master |-> db.master,
                post |-> db.post, fav |-> db.fav]
      BY TypeParts, DbParts
    <3> QED
      BY <2>2, <3>1
  <2>5. Still /\ FewerMarks
    BY <1>3, <2>3, <2>4 DEF MoveOut, Still, FewerMarks
  <2> QED
    BY <1>3, <2>5, EndsMaker DEF MoveOut, Quiet
<1>4. CASE ChangeMaster
  <2>1. PICK master : db' = [db EXCEPT !.master = master]
    BY <1>4 DEF ChangeMaster
  <2>2. Still /\ FewerMarks
    BY <1>4, <2>1, TypeParts, DbParts DEF ChangeMaster, Still, FewerMarks
  <2> QED
    BY <1>4, <2>2, EndsMaker DEF ChangeMaster, Quiet
<1> QED
  BY <1>1, <1>2, <1>3, <1>4

LEMMA QuietParts ==
  ASSUME RoomsFit, MarksFit, Quiet PROVE RoomsFit' /\ MarksFit' /\ NoneParted
BY StillParts, RoomsFitStay, FewerMarksFit DEF Quiet

LEMMA OverlapKeeps ==
  ASSUME TypeOK, RoomsFit, MarksFit, [Next]_vars PROVE RoomsFit' /\ MarksFit' /\ NoneParted
<1>1. ASSUME NEW c \in Slot, Handler(c) PROVE RoomsFit' /\ MarksFit' /\ NoneParted
  <2>1. CASE SavePost(c) \/ DeleteRoom(c)
    BY <2>1, SaveNew, DeleteRoomParts, RoomsFitStay, FewerMarksFit
  <2>2. CASE CheckFavourite(c) \/ SaveFavourite(c)
    BY <2>2, CheckFavouriteParts, SaveFavouriteParts
  <2>3. CASE Fail(c)
    BY <2>3, TablesStill, EndsMaker, QuietParts DEF Fail, Quiet
  <2>4. CASE \/ CheckAuthor(c) \/ ReadUtilities(c) \/ CopyUtility(c) \/ SaveDistrict(c)
             \/ ReadPost(c) \/ WritePost(c)
             \/ BeginDeletePost(c) \/ DeletePost(c) \/ BeginDeleteRoom(c)
             \/ BeginUpdateRoom(c) \/ UpdateRoom(c)
    BY <2>4, CreateQuiet, UpdatePostQuiet, DeleteQuiet, UpdateRoomQuiet, QuietParts
  <2> QED
    BY <1>1, <2>1, <2>2, <2>3, <2>4 DEF Handler
<1>2. CASE RemoveFavourite \/ MoveIn \/ MoveOut \/ ChangeMaster
  BY <1>2, MovesQuiet, QuietParts
<1>3. CASE UNCHANGED vars
  BY <1>3, TablesStill, EndsMaker, QuietParts DEF vars, Quiet
<1> QED
  BY <1>1, <1>2, <1>3 DEF Next

LEMMA OverlapInit == Init => RoomsFit /\ MarksFit
<1> SUFFICES ASSUME Init PROVE RoomsFit /\ MarksFit
  OBVIOUS
<1>1. DOMAIN db.fav = {} /\ DOMAIN call = {}
  BY DEF Init, Nothing
<1>2. ASSUME NEW u \in User, NEW p \in PostId PROVE Few(Marks(db, u, p), Makers(u, p))
  <2>1. Marks(db, u, p) = {} /\ Makers(u, p) \in SUBSET Slot
    BY <1>1 DEF Marks, FavouritesOf, Makers
  <2> QED
    BY <2>1, NoneStay
<1> QED
  BY <1>1, <1>2, FS_EmptySet DEF RoomsFit, MarksFit

LEMMA Overlap == Spec => [](TypeOK /\ RoomsFit /\ MarksFit)
<1>1. TypeOK /\ (RoomsFit /\ MarksFit) /\ [Next]_vars => (RoomsFit /\ MarksFit)'
  BY OverlapKeeps
<1> QED
  BY <1>1, OverlapInit, TypeCorrect, PTL DEF Spec

(* Only overlap parts a post from its room: a createRoomPost that had       *)
(* checked the room before it went, or a deleteRoom that began before the   *)
(* post was there.  A deletion leaves none of the posts that it saw.        *)
THEOREM OnlyOverlapOrphansHolds == Spec => OnlyOverlapOrphans
<1>1. (TypeOK /\ RoomsFit /\ MarksFit) /\ [Next]_vars => [NoneParted]_vars
  BY OverlapKeeps
<1> QED
  BY <1>1, Overlap, PTL DEF Spec, OnlyOverlapOrphans, NoneParted

(* However many requests overlap, a user has no more favourites of a post   *)
(* than handlers run at a time; with one, that is one.                      *)
THEOREM MarksBoundedHolds == Spec => []MarksBounded
<1>1. TypeOK /\ RoomsFit /\ MarksFit => MarksBounded
  <2> SUFFICES ASSUME TypeOK, MarksFit, NEW u \in User, NEW p \in DOMAIN db.post
               PROVE  Cardinality(Marks(db, u, p)) <= Cardinality(Slot)
    BY DEF MarksBounded
  <2>1. p \in PostId
    BY TypeParts, PostRow
  <2>2. Few(Marks(db, u, p), Makers(u, p))
    BY <2>1 DEF MarksFit
  <2>3. Cardinality(Marks(db, u, p)) \in Nat /\ Cardinality(Makers(u, p)) \in Nat
    BY <2>2, FS_CardinalityType DEF Few
  <2>4. Cardinality(Slot) \in Nat
    BY SlotAssumption, FS_CardinalityType
  <2> QED
    BY <2>2, <2>3, <2>4 DEF Few
<1> QED
  BY <1>1, Overlap, PTL
===============================================================================
