------------------------------- MODULE MatePosts ------------------------------
(***************************************************************************)
(* Room-mate posts and the search preferences they rewrite.  Every handler *)
(* is one database transaction: it reads a snapshot when it begins, and    *)
(* either commits all of its writes or rolls back.                         *)
(*                                                                         *)
(* A request has a number, and a price or a row of a list is the number of *)
(* the request that wrote it; the rows of one list that one request wrote  *)
(* are inserted and removed together, and are one element here.  The app   *)
(* sends no empty list.                                                    *)
(*                                                                         *)
(* Rows are removed one by one as entities of the snapshot: a row that is  *)
(* gone by then makes the whole transaction roll back.                     *)
(***************************************************************************)
EXTENDS Naturals, FiniteSets

CONSTANTS User,      \* tenants: MEMBER or ROOM_MASTER
          PostId, Slot,
          Requests,  \* how many requests are sent at most
          NoPost, Idle

Request == 1..Requests
PostRow == [by : User, date : Request, price : Request,
            util : SUBSET Request, dist : SUBSET Request]
Op  == {"create", "update", "save", "deletePost", "deleteUser", "updateRoom"}
Txn == [op : Op,
        user : User, target : PostId, stamp : Request,
        ref : 0..Requests, util : SUBSET Request, dist : SUBSET Request,
        post : [PostId -> PostRow \cup {NoPost}]]

ASSUME RequestsAssumption == Requests \in Nat
ASSUME NoPostAssumption   == NoPost \notin PostRow
ASSUME IdleAssumption     == Idle \notin Txn

VARIABLES
  alive,  \* users that are not deleted
  ref,    \* price of tb_reference, 0: no row
  util,   \* tb_utilities_reference
  dist,   \* tb_district_reference
  post,   \* tb_post of type MEMBER_POST, with its utilities and districts
  used,   \* post_id is AUTO_INCREMENT: numbers handed out
  last,   \* number of the last request
  txn     \* running transactions

prefs == <<ref, util, dist>>
vars  == <<alive, prefs, post, used, last, txn>>

Exists(p) == post[p] # NoPost

\* Types, and what the foreign keys and primary keys of the tables ensure.
TypeOK ==
  /\ alive \subseteq User /\ used \subseteq PostId /\ last \in 0..Requests
  /\ ref \in [User -> 0..Requests]
  /\ util \in [User -> SUBSET Request] /\ dist \in [User -> SUBSET Request]
  /\ post \in [PostId -> PostRow \cup {NoPost}]
  /\ txn \in [Slot -> Txn \cup {Idle}]
  /\ \A u \in User : (ref[u] # 0 => u \in alive) /\ (util[u] \cup dist[u] # {} => ref[u] # 0)
  /\ \A p \in PostId : Exists(p) => p \in used /\ post[p].by \in alive

Init ==
  /\ alive = User /\ used = {} /\ last = 0
  /\ ref = [u \in User |-> 0] /\ util = [u \in User |-> {}] /\ dist = [u \in User |-> {}]
  /\ post = [p \in PostId |-> NoPost] /\ txn = [c \in Slot |-> Idle]

-------------------------------------------------------------------------------
\* A transaction begins: what it will read of its user and of the posts.
Begin(c, op, u, p) ==
  /\ txn[c] = Idle /\ last < Requests
  /\ last' = last + 1
  /\ txn' = [txn EXCEPT ![c] =
       [op |-> op, user |-> u, target |-> p, stamp |-> last + 1,
        ref |-> ref[u], util |-> util[u], dist |-> dist[u], post |-> post]]
  /\ UNCHANGED <<alive, prefs, post>>

\* createRoommatePost, for a user that exists; the post gets a number of its own.
BeginCreate(c) == \E u \in alive, p \in PostId \ used : Begin(c, "create", u, p) /\ used' = used \cup {p}

\* updateRoommatePost, of a post of one's own.
BeginUpdate(c) == \E p \in PostId :
  Exists(p) /\ Begin(c, "update", post[p].by, p) /\ UNCHANGED used

\* createReference: whether the user exists is left to the foreign key.
BeginSave(c) == \E u \in User, p \in PostId : Begin(c, "save", u, p) /\ UNCHANGED used

BeginDeletePost(c) == \E p \in PostId :
  Exists(p) /\ Begin(c, "deletePost", post[p].by, p) /\ UNCHANGED used

BeginDeleteUser(c) == \E u \in alive, p \in PostId : Begin(c, "deleteUser", u, p) /\ UNCHANGED used

\* updateRoom with a room post to refresh takes its room's number for a post's, and
\* numbers of rooms and of posts are counted separately: it may be that of any post.
BeginUpdateRoom(c) == \E p \in PostId :
  Exists(p) /\ Begin(c, "updateRoom", post[p].by, p) /\ UNCHANGED used

-------------------------------------------------------------------------------
(* What lets a transaction t commit, and what it then writes.                *)

\* Mutant: the rows are removed by one statement that may find none.
PrefsFitAny(t) == t.user \in alive /\ (t.ref = 0 <=> ref[t.user] = 0)

\* The user is there, a first tb_reference row is still the first, and the rows
\* removed from the two lists are still there.
PrefsFit(t) ==
  /\ t.user \in alive /\ (t.ref = 0 <=> ref[t.user] = 0)
  /\ t.util \subseteq util[t.user] /\ t.dist \subseteq dist[t.user]

SavePrefs(t) ==
  /\ ref'  = [ref  EXCEPT ![t.user] = t.stamp]
  /\ util' = [util EXCEPT ![t.user] = (@ \ t.util) \cup {t.stamp}]
  /\ dist' = [dist EXCEPT ![t.user] = (@ \ t.dist) \cup {t.stamp}]

\* Mutant: the rows of a post are removed by a statement that may find none.
PostFitsAny(t) == Exists(t.target)

\* The post is there, and so are the rows removed from its two lists.
PostFits(t) ==
  /\ Exists(t.target)
  /\ t.post[t.target].util \subseteq post[t.target].util
  /\ t.post[t.target].dist \subseteq post[t.target].dist

\* The saved post; `new' are the rows that replace those of the snapshot.
Rewritten(t, new) ==
  LET p == t.target
  IN  [by |-> t.post[p].by, date |-> t.post[p].date, price |-> t.stamp,
       util |-> (post[p].util \ t.post[p].util) \cup new,
       dist |-> (post[p].dist \ t.post[p].dist) \cup new]

\* Is the target the post of its author with the latest date?
IsNewest(t) == \A q \in PostId :
  t.post[q] # NoPost /\ t.post[q].by = t.user => t.post[q].date <= t.post[t.target].date

Finish(c) == txn' = [txn EXCEPT ![c] = Idle] /\ UNCHANGED <<used, last>>

\* Mutant: a user without preferences gets none.
CommitCreateOnly(c) ==
  LET t == txn[c]
  IN  /\ t # Idle /\ t.op = "create" /\ t.user \in alive
      /\ post' = [post EXCEPT ![t.target] = [by |-> t.user, date |-> t.stamp, price |-> t.stamp,
                                             util |-> {t.stamp}, dist |-> {t.stamp}]]
      /\ IF t.ref = 0 THEN UNCHANGED prefs ELSE PrefsFit(t) /\ SavePrefs(t)
      /\ Finish(c) /\ UNCHANGED alive

CommitCreate(c) ==
  LET t == txn[c]
  IN  /\ t # Idle /\ t.op = "create" /\ PrefsFit(t)
      /\ post' = [post EXCEPT ![t.target] = [by |-> t.user, date |-> t.stamp, price |-> t.stamp,
                                             util |-> {t.stamp}, dist |-> {t.stamp}]]
      /\ SavePrefs(t) /\ Finish(c) /\ UNCHANGED alive

CommitSave(c) ==
  LET t == txn[c]
  IN  /\ t # Idle /\ t.op = "save" /\ PrefsFit(t)
      /\ SavePrefs(t) /\ Finish(c) /\ UNCHANGED <<alive, post>>

\* The newest post takes the preferences with it.  Were there none, `reference' would
\* be null: the exception is caught inside the transaction, which commits what it has
\* done until then, a post without its lists.
CommitNewest(c) ==
  LET t == txn[c]
  IN  /\ t # Idle /\ t.op = "update" /\ IsNewest(t) /\ PostFits(t)
      /\ post' = [post EXCEPT ![t.target] = Rewritten(t, IF t.ref = 0 THEN {} ELSE {t.stamp})]
      /\ IF t.ref = 0 THEN UNCHANGED prefs ELSE PrefsFit(t) /\ SavePrefs(t)
      /\ Finish(c) /\ UNCHANGED alive

\* An older post leaves them alone.
CommitOlder(c) ==
  LET t == txn[c]
  IN  /\ t # Idle /\ t.op = "update" /\ ~IsNewest(t) /\ PostFits(t)
      /\ post' = [post EXCEPT ![t.target] = Rewritten(t, {t.stamp})]
      /\ Finish(c) /\ UNCHANGED <<alive, prefs>>

\* deletePost: its rows first, then the post, which no other row may refer to.
CommitDeletePost(c) ==
  LET t == txn[c]
  IN  /\ t # Idle /\ t.op = "deletePost" /\ PostFits(t)
      /\ post[t.target].util = t.post[t.target].util /\ post[t.target].dist = t.post[t.target].dist
      /\ post' = [post EXCEPT ![t.target] = NoPost]
      /\ Finish(c) /\ UNCHANGED <<alive, prefs>>

\* Mutant: the posts of a user are not looked at.
CommitDeleteUserOnly(c) ==
  LET t == txn[c]
  IN  /\ t # Idle /\ t.op = "deleteUser"
      /\ alive' = alive \ {t.user} /\ Finish(c) /\ UNCHANGED <<prefs, post>>

\* deleteUser removes posts and their districts, and forgets the utilities and the
\* preferences: it can only succeed where there are none.
CommitDeleteUser(c) ==
  LET t == txn[c]
      Mine(f) == {p \in PostId : f[p] # NoPost /\ f[p].by = t.user}
  IN  /\ t # Idle /\ t.op = "deleteUser" /\ t.user \in alive /\ ref[t.user] = 0
      /\ Mine(post) = Mine(t.post)
      /\ \A p \in Mine(post) : post[p].util = {} /\ post[p].dist = t.post[p].dist
      /\ post' = [p \in PostId |-> IF p \in Mine(post) THEN NoPost ELSE post[p]]
      /\ alive' = alive \ {t.user} /\ Finish(c) /\ UNCHANGED prefs

\* updateRoom removes the utilities of the post that has the room's number, row by row.
CommitUpdateRoom(c) ==
  LET t == txn[c]
  IN  /\ t # Idle /\ t.op = "updateRoom" /\ Exists(t.target)
      /\ t.post[t.target].util \subseteq post[t.target].util
      /\ post' = [post EXCEPT ![t.target].util = @ \ t.post[t.target].util]
      /\ Finish(c) /\ UNCHANGED <<alive, prefs>>

\* A failed statement, a deadlock, a lost connection.
Rollback(c) == txn[c] # Idle /\ Finish(c) /\ UNCHANGED <<alive, prefs, post>>

-------------------------------------------------------------------------------
Step(c) ==
  \/ BeginCreate(c) \/ BeginUpdate(c) \/ BeginSave(c) \/ BeginDeletePost(c) \/ BeginDeleteUser(c)
  \/ BeginUpdateRoom(c)
  \/ CommitCreate(c) \/ CommitSave(c) \/ CommitNewest(c) \/ CommitOlder(c)
  \/ CommitDeletePost(c) \/ CommitDeleteUser(c) \/ CommitUpdateRoom(c) \/ Rollback(c)

Next == \E c \in Slot : Step(c)
Spec == Init /\ [][Next]_vars

-------------------------------------------------------------------------------
\* createReference, createRoommatePost, updateRoommatePost: price, utilities and
\* districts of a user's preferences always come from one and the same request.
Whole(u) == IF ref[u] = 0 THEN util[u] = {} /\ dist[u] = {}
                          ELSE util[u] = {ref[u]} /\ dist[u] = {ref[u]}
PrefsWhole == \A u \in User : Whole(u)

\* updateRoommatePost, deletePost, updateRoom: price and districts of a post come from
\* one and the same request, and so do its utilities, unless a room's update took them
\* all away: no overlap mixes two requests or leaves a part of one.
PostWhole == \A p \in PostId :
  Exists(p) => post[p].dist = {post[p].price} /\ post[p].util \in {{}, {post[p].price}}

\* updateRoommatePost reads `reference' without asking whether it is null: the
\* author of a post must have preferences, for as long as the post is there.
PostHasReference == \A p \in PostId : Exists(p) => ref[post[p].by] # 0

\* Overlapping requests of one user, from posts or from the settings, leave the
\* preferences of the latest that succeeded, and never bring back older ones.
Torn == Requests + 1
Saved == INSTANCE LatestSave WITH pref <- [u \in User |-> IF Whole(u) THEN ref[u] ELSE Torn]
SavesInOrder == Saved!Spec
===============================================================================
