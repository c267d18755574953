---------------------------- MODULE MatePostsProofs ---------------------------
(***************************************************************************)
(* Proofs about MatePosts, for every number of users, posts, transactions  *)
(* and requests.  The inductive invariant adds to what the runs check how  *)
(* a running transaction's snapshot relates to the tables: it was whole    *)
(* when it was taken, it is older than the transaction's own number,       *)
(* preferences seen there have not gone away since, and a post that still  *)
(* has the price seen there has no utilities that were not seen.           *)
(***************************************************************************)
EXTENDS MatePosts, TLAPS

\* No number is in use before it is handed out.
Numbered ==
  /\ \A u \in User : ref[u] <= last
  /\ \A c \in Slot : txn[c] # Idle => txn[c].stamp <= last

RowWhole(x) == x.dist = {x.price} /\ x.util \in {{}, {x.price}}

SnapWhole(t) ==
  /\ t.ref < t.stamp
  /\ IF t.ref = 0 THEN t.util = {} /\ t.dist = {} ELSE t.util = {t.ref} /\ t.dist = {t.ref}
  /\ \A p \in PostId : t.post[p] # NoPost =>
       RowWhole(t.post[p])
  /\ t.op = "create" => t.target \in used
  /\ t.op = "update" => /\ t.post[t.target] # NoPost /\ t.post[t.target].by = t.user
                        /\ t.ref # 0
  /\ t.ref # 0 => ref[t.user] # 0

\* The number of a running transaction is on no post yet, in the tables or in a
\* snapshot, and is its own.
Unwritten(t) ==
  /\ \A p \in PostId : post[p] # NoPost => post[p].price # t.stamp
  /\ \A k \in Slot : txn[k] # Idle => \A p \in PostId :
       txn[k].post[p] # NoPost => txn[k].post[p].price # t.stamp

\* What a room's update took from a post seen in t stays away until a later request
\* rewrites the post.
NotRegained(t) == \A p \in PostId :
  post[p] # NoPost /\ t.post[p] # NoPost /\ t.post[p].price = post[p].price =>
    post[p].util \subseteq t.post[p].util

Dated ==
  /\ \A p \in PostId : post[p] # NoPost => post[p].price <= last
  /\ \A c \in Slot : txn[c] # Idle =>
       /\ \A p \in PostId : txn[c].post[p] # NoPost => txn[c].post[p].price <= last
       /\ Unwritten(txn[c]) /\ NotRegained(txn[c])
       /\ \A k \in Slot : txn[k] # Idle /\ txn[k].stamp = txn[c].stamp => k = c

\* What a commit of t may leave of the posts: some, with utilities fewer or the
\* same, and those it has rewritten.
Follows(t) == \A p \in PostId : post'[p] # NoPost =>
  \/ post[p] # NoPost /\ post'[p].price = post[p].price /\ post'[p].util \subseteq post[p].util
  \/ post'[p].price = t.stamp

Snapshots == \A c \in Slot : txn[c] # Idle => SnapWhole(txn[c])

IInv == TypeOK /\ PrefsWhole /\ PostWhole /\ PostHasReference /\ Numbered /\ Snapshots /\ Dated

-------------------------------------------------------------------------------
\* The tables are empty at first.
LEMMA InitIInv == Init => IInv
<1> SUFFICES ASSUME Init PROVE IInv
  OBVIOUS
<1> USE RequestsAssumption DEF Init
<1>1. TypeOK
  BY DEF TypeOK, Exists
<1>2. PrefsWhole /\ PostWhole /\ PostHasReference
  BY DEF PrefsWhole, Whole, PostWhole, PostHasReference, Exists
<1>3. Numbered /\ Snapshots /\ Dated
  BY DEF Numbered, Snapshots, Dated
<1> QED
  BY <1>1, <1>2, <1>3 DEF IInv

\* What a row of the transaction table is.
LEMMA TxnTyped == ASSUME IInv, NEW c \in Slot, txn[c] # Idle
                  PROVE  txn[c] \in Txn /\ SnapWhole(txn[c]) /\ txn[c].stamp <= last
BY DEF IInv, TypeOK, Snapshots, Numbered

\* Ending a transaction leaves the others as they are.
LEMMA FinishFacts ==
  ASSUME IInv, NEW c \in Slot, Finish(c), UNCHANGED last
  PROVE  /\ txn' \in [Slot -> Txn \cup {Idle}]
         /\ \A k \in Slot : txn'[k] # Idle => txn'[k] = txn[k] /\ txn[k] # Idle
BY DEF IInv, TypeOK, Finish

\* A commit whose snapshot fits replaces the preferences as a whole, by newer ones.
LEMMA SavePrefsFacts ==
  ASSUME IInv, NEW c \in Slot, txn[c] # Idle, PrefsFit(txn[c]), SavePrefs(txn[c]), UNCHANGED last
  PROVE  /\ ref' \in [User -> 0..Requests]
         /\ util' \in [User -> SUBSET Request] /\ dist' \in [User -> SUBSET Request]
         /\ ref' = [ref EXCEPT ![txn[c].user] = txn[c].stamp]
         /\ ref[txn[c].user] < txn[c].stamp
         /\ txn[c].user \in alive
         /\ PrefsWhole'
         /\ \A u \in User : ref[u] # 0 => ref'[u] # 0
         /\ \A u \in User : ref'[u] # 0 => ref[u] # 0 \/ u = txn[c].user
         /\ \A u \in User : ref'[u] <= last'
<1> DEFINE t == txn[c]
<1>1. t \in Txn /\ SnapWhole(t) /\ t.stamp <= last
  BY TxnTyped
<1>2. /\ t.user \in User /\ t.stamp \in Request /\ t.ref \in 0..Requests
      /\ t.util \in SUBSET Request /\ t.dist \in SUBSET Request
  BY <1>1 DEF Txn
<1>3. /\ ref \in [User -> 0..Requests] /\ util \in [User -> SUBSET Request]
      /\ dist \in [User -> SUBSET Request] /\ last \in 0..Requests
  BY DEF IInv, TypeOK
<1>4. Whole(t.user)
  BY <1>2 DEF IInv, PrefsWhole
<1>5. ref[t.user] = t.ref /\ util[t.user] = t.util /\ dist[t.user] = t.dist
  <2>1. CASE t.ref = 0
    BY <2>1, <1>1, <1>4 DEF PrefsFit, Whole, SnapWhole
  <2>2. CASE t.ref # 0
    <3>1. ref[t.user] # 0 /\ {t.ref} \subseteq util[t.user]
      BY <2>2, <1>1 DEF PrefsFit, SnapWhole
    <3>2. util[t.user] = {ref[t.user]} /\ dist[t.user] = {ref[t.user]}
      BY <3>1, <1>4 DEF Whole
    <3>3. t.ref = ref[t.user]
      BY <3>1, <3>2
    <3> QED
      BY <3>2, <3>3, <2>2, <1>1 DEF SnapWhole
  <2> QED
    BY <2>1, <2>2
<1>6. ref' = [ref EXCEPT ![t.user] = t.stamp]
  BY DEF SavePrefs
<1>7. /\ util' = [util EXCEPT ![t.user] = {t.stamp}]
      /\ dist' = [dist EXCEPT ![t.user] = {t.stamp}]
  BY <1>2, <1>3, <1>5 DEF SavePrefs
<1>8. t.stamp # 0 /\ t.stamp \in 0..Requests
  BY <1>2, RequestsAssumption DEF Request
<1>9. PrefsWhole'
  <2> SUFFICES ASSUME NEW u \in User PROVE Whole(u)'
    BY DEF PrefsWhole
  <2>1. CASE u = t.user
    BY <2>1, <1>2, <1>3, <1>6, <1>7, <1>8 DEF Whole
  <2>2. CASE u # t.user
    <3>1. ref'[u] = ref[u] /\ util'[u] = util[u] /\ dist'[u] = dist[u]
      BY <2>2, <1>2, <1>3, <1>6, <1>7
    <3>2. Whole(u)
      BY DEF IInv, PrefsWhole
    <3> QED
      BY <3>1, <3>2 DEF Whole
  <2> QED
    BY <2>1, <2>2
<1>10. ref[t.user] < t.stamp /\ t.user \in alive
  BY <1>1, <1>5 DEF SnapWhole, PrefsFit
<1>11. \A u \in User : ref'[u] = IF u = t.user THEN t.stamp ELSE ref[u]
  BY <1>3, <1>6
<1>12. \A u \in User : ref'[u] <= last'
  BY <1>1, <1>11 DEF IInv, Numbered
<1>13. /\ ref' \in [User -> 0..Requests] /\ util' \in [User -> SUBSET Request]
       /\ dist' \in [User -> SUBSET Request]
  BY <1>2, <1>3, <1>6, <1>7, <1>8
<1> QED
  BY <1>6, <1>8, <1>9, <1>10, <1>11, <1>12, <1>13

-------------------------------------------------------------------------------
\* Beginning: the snapshot is whole because the tables are.
LEMMA BeginKeeps ==
  ASSUME IInv, NEW c \in Slot, NEW u \in User, NEW p \in PostId,
         NEW op \in Op,
         Begin(c, op, u, p), used \subseteq used', used' \subseteq PostId,
         op = "create" => p \in used',
         op = "update" => Exists(p) /\ post[p].by = u
  PROVE  IInv'
<1> DEFINE t == [op |-> op, user |-> u, target |-> p, stamp |-> last + 1,
                 ref |-> ref[u], util |-> util[u], dist |-> dist[u], post |-> post]
<1>1. TypeOK /\ Numbered /\ Snapshots /\ PrefsWhole /\ PostWhole /\ PostHasReference /\ Dated
  BY DEF IInv
<1>2. last \in 0..Requests /\ last < Requests /\ last' = last + 1 /\ last + 1 \in Request
      /\ last' \in 0..Requests
  BY <1>1, RequestsAssumption DEF Begin, TypeOK, Request
<1>3. txn' = [txn EXCEPT ![c] = t] /\ UNCHANGED <<alive, ref, util, dist, post>>
  BY DEF Begin, prefs
<1>4. t \in Txn
  BY <1>1, <1>2 DEF TypeOK, Txn
<1>5. \A k \in Slot : txn'[k] = IF k = c THEN t ELSE txn[k]
  BY <1>1, <1>3 DEF TypeOK
<1>6. TypeOK'
  BY <1>1, <1>2, <1>3, <1>4 DEF TypeOK, Exists
<1>7. PrefsWhole' /\ PostWhole' /\ PostHasReference'
  BY <1>1, <1>3 DEF PrefsWhole, Whole, PostWhole, PostHasReference, Exists
<1>8. Numbered'
  <2>1. \A v \in User : ref'[v] <= last'
    BY <1>1, <1>2, <1>3 DEF Numbered, TypeOK
  <2>2. ASSUME NEW k \in Slot, txn'[k] # Idle PROVE txn'[k].stamp <= last'
    <3>1. CASE k = c
      BY <3>1, <1>2, <1>5
    <3>2. CASE k # c
      <4>1. txn'[k] = txn[k] /\ txn[k] # Idle
        BY <3>2, <1>5, <2>2
      <4>2. txn[k].stamp \in Request /\ txn[k].stamp <= last
        BY <4>1, TxnTyped DEF Txn
      <4> QED
        BY <4>1, <4>2, <1>2 DEF Request
    <3> QED
      BY <3>1, <3>2
  <2> QED
    BY <2>1, <2>2 DEF Numbered
<1>9. Snapshots'
  <2> SUFFICES ASSUME NEW k \in Slot, txn'[k] # Idle PROVE SnapWhole(txn[k])'
    BY DEF Snapshots
  <2>1. CASE k = c
    <3>1. txn'[k] = t
      BY <2>1, <1>5
    <3>2. ref[u] \in 0..Requests /\ ref[u] <= last /\ ref[u] < last + 1
      BY <1>1, <1>2 DEF TypeOK, Numbered
    <3>3. IF ref[u] = 0 THEN util[u] = {} /\ dist[u] = {} ELSE util[u] = {ref[u]} /\ dist[u] = {ref[u]}
      BY <1>1 DEF PrefsWhole, Whole
    <3>4. \A q \in PostId : post[q] # NoPost =>
            RowWhole(post[q])
      BY <1>1 DEF PostWhole, RowWhole, Exists
    <3>5. op = "update" => post[p] # NoPost /\ post[p].by = u /\ ref[u] # 0
      BY <1>1 DEF PostHasReference, Exists
    <3> QED
      BY <3>1, <3>2, <3>3, <3>4, <3>5, <1>3 DEF SnapWhole
  <2>2. CASE k # c
    <3>1. txn'[k] = txn[k] /\ txn[k] # Idle
      BY <2>2, <1>5
    <3>2. SnapWhole(txn[k])
      BY <3>1, <1>1 DEF Snapshots
    <3> QED
      BY <3>1, <3>2, <1>3 DEF SnapWhole
  <2> QED
    BY <2>1, <2>2
<1>10. Dated'
  <2>1. \A q \in PostId : post[q] # NoPost => post[q].price \in Request /\ post[q].price <= last
    BY <1>1 DEF TypeOK, Dated, PostRow
  <2>2. \A k \in Slot : txn[k] # Idle =>
          /\ txn[k].stamp \in Request /\ txn[k].stamp <= last
          /\ \A q \in PostId : txn[k].post[q] # NoPost =>
               txn[k].post[q].price \in Request /\ txn[k].post[q].price <= last
    BY <1>1, TxnTyped DEF Dated, Txn, PostRow
  <2>3. \A q \in PostId : post'[q] # NoPost => post'[q].price <= last'
    BY <1>2, <1>3, <2>1 DEF Request
  <2>4. ASSUME NEW k \in Slot, txn'[k] # Idle
        PROVE  /\ \A q \in PostId : txn'[k].post[q] # NoPost => txn'[k].post[q].price <= last'
               /\ Unwritten(txn[k])' /\ NotRegained(txn[k])'
               /\ \A j \in Slot : txn'[j] # Idle /\ txn'[j].stamp = txn'[k].stamp => j = k
    <3>1. \A q \in PostId : txn'[k].post[q] # NoPost => txn'[k].post[q].price <= last'
      BY <1>2, <1>5, <2>1, <2>2, <2>4 DEF Request
    <3>2. \A q \in PostId : post'[q] # NoPost => post'[q].price # txn'[k].stamp
      BY <1>1, <1>2, <1>3, <1>5, <2>1, <2>2, <2>4 DEF Request, Dated, Unwritten
    <3>3. ASSUME NEW j \in Slot, txn'[j] # Idle, NEW q \in PostId, txn'[j].post[q] # NoPost
          PROVE  txn'[j].post[q].price # txn'[k].stamp
      <4>1. CASE k = c
        BY <4>1, <3>3, <1>2, <1>5, <2>1, <2>2 DEF Request
      <4>2. CASE k # c
        <5>1. txn'[k] = txn[k] /\ txn[k] # Idle /\ Unwritten(txn[k])
          BY <4>2, <1>5, <2>4, <1>1 DEF Dated
        <5> QED
          BY <5>1, <3>3, <1>5 DEF Unwritten
      <4> QED
        BY <4>1, <4>2
    <3>4. NotRegained(txn[k])'
      BY <1>1, <1>3, <1>5, <2>4 DEF Dated, NotRegained
    <3>5. ASSUME NEW j \in Slot, txn'[j] # Idle, txn'[j].stamp = txn'[k].stamp PROVE j = k
      BY <3>5, <1>1, <1>2, <1>5, <2>2, <2>4 DEF Dated, Request
    <3> QED
      BY <3>1, <3>2, <3>3, <3>4, <3>5 DEF Unwritten
  <2> QED
    BY <2>3, <2>4 DEF Dated
<1> QED
  BY <1>6, <1>7, <1>8, <1>9, <1>10 DEF IInv

-------------------------------------------------------------------------------
\* The end of a transaction keeps the invariant if the tables it leaves are whole
\* and preferences that were there still are.
LEMMA EndKeeps ==
  ASSUME IInv, NEW c \in Slot, txn[c] # Idle, Finish(c), Follows(txn[c]),
         alive' \subseteq User,
         ref' \in [User -> 0..Requests], util' \in [User -> SUBSET Request],
         dist' \in [User -> SUBSET Request], post' \in [PostId -> PostRow \cup {NoPost}],
         PrefsWhole',
         \A u \in User : /\ ref[u] # 0 => ref'[u] # 0
                         /\ ref'[u] # 0 => u \in alive'
                         /\ ref'[u] <= last',
         \A p \in PostId : post'[p] # NoPost =>
            /\ p \in used /\ post'[p].by \in alive' /\ ref'[post'[p].by] # 0
            /\ RowWhole(post'[p])
  PROVE  IInv'
<1>1. UNCHANGED <<used, last>>
  BY DEF Finish
<1>2. /\ txn' \in [Slot -> Txn \cup {Idle}]
      /\ \A k \in Slot : txn'[k] # Idle => txn'[k] = txn[k] /\ txn[k] # Idle
  BY <1>1, FinishFacts
<1>3. \A u \in User : util'[u] \cup dist'[u] # {} => ref'[u] # 0
  BY DEF PrefsWhole, Whole
<1>4. used' \subseteq PostId /\ last' \in 0..Requests
  BY <1>1 DEF IInv, TypeOK
<1>5. TypeOK'
  BY <1>1, <1>2, <1>3, <1>4 DEF TypeOK, Exists
<1>6. PostWhole' /\ PostHasReference'
  BY DEF PostWhole, RowWhole, PostHasReference, Exists
<1>7. Numbered'
  BY <1>1, <1>2 DEF Numbered, IInv
<1>8. Snapshots'
  <2> SUFFICES ASSUME NEW k \in Slot, txn'[k] # Idle PROVE SnapWhole(txn[k])'
    BY DEF Snapshots
  <2>1. txn'[k] = txn[k] /\ txn[k] # Idle
    BY <1>2
  <2>2. SnapWhole(txn[k]) /\ txn[k] \in Txn
    BY <2>1, TxnTyped
  <2>3. txn[k].user \in User
    BY <2>2 DEF Txn
  <2> QED
    BY <2>1, <2>2, <2>3, <1>1 DEF SnapWhole
<1>9. Dated'
  <2>1. /\ Dated /\ TypeOK /\ txn[c] \in Txn /\ txn[c].stamp <= last
        /\ Unwritten(txn[c])
    BY TxnTyped DEF IInv, Dated
  <2>2. \A p \in PostId : post'[p] # NoPost => post'[p].price <= last'
    BY <1>1, <2>1 DEF Dated, Follows
  <2>3. ASSUME NEW k \in Slot, txn'[k] # Idle
        PROVE  /\ \A p \in PostId : txn'[k].post[p] # NoPost => txn'[k].post[p].price <= last'
               /\ Unwritten(txn[k])' /\ NotRegained(txn[k])'
               /\ \A j \in Slot : txn'[j] # Idle /\ txn'[j].stamp = txn'[k].stamp => j = k
    <3>1. /\ txn'[k] = txn[k] /\ txn[k] # Idle /\ k # c
          /\ Unwritten(txn[k]) /\ NotRegained(txn[k])
      BY <1>2, <2>1, <2>3 DEF Dated, Finish, IInv, TypeOK
    <3>2. \A p \in PostId : txn'[k].post[p] # NoPost => txn'[k].post[p].price <= last'
      BY <1>1, <2>1, <3>1 DEF Dated
    <3>3. txn[k].stamp # txn[c].stamp
      BY <2>1, <3>1 DEF Dated
    <3>4. \A p \in PostId : post'[p] # NoPost => post'[p].price # txn[k].stamp
      BY <3>1, <3>3 DEF Follows, Unwritten
    <3>5. Unwritten(txn[k])'
      BY <1>2, <3>1, <3>4 DEF Unwritten
    <3>6. ASSUME NEW p \in PostId, post'[p] # NoPost, txn[k].post[p] # NoPost,
                 txn[k].post[p].price = post'[p].price
          PROVE  post'[p].util \subseteq txn[k].post[p].util
      <4>1. post'[p].price # txn[c].stamp
        BY <2>1, <3>1, <3>6 DEF Unwritten
      <4> QED
        BY <4>1, <3>1, <3>6 DEF Follows, NotRegained
    <3>7. NotRegained(txn[k])'
      BY <3>1, <3>6 DEF NotRegained
    <3>8. \A j \in Slot : txn'[j] # Idle /\ txn'[j].stamp = txn'[k].stamp => j = k
      BY <1>2, <2>1, <3>1 DEF Dated
    <3> QED
      BY <3>2, <3>5, <3>7, <3>8
  <2> QED
    BY <2>2, <2>3 DEF Dated
<1> QED
  BY <1>5, <1>6, <1>7, <1>8, <1>9 DEF IInv

\* What EndKeeps needs to know of the tables before the step.
LEMMA Before ==
  ASSUME IInv
  PROVE  /\ alive \subseteq User /\ used \subseteq PostId
         /\ ref \in [User -> 0..Requests] /\ util \in [User -> SUBSET Request]
         /\ dist \in [User -> SUBSET Request] /\ post \in [PostId -> PostRow \cup {NoPost}]
         /\ \A u \in User : (ref[u] # 0 => u \in alive) /\ ref[u] <= last
         /\ \A p \in PostId : post[p] # NoPost =>
              /\ p \in used /\ post[p].by \in alive /\ ref[post[p].by] # 0
              /\ RowWhole(post[p])
BY DEF IInv, TypeOK, Numbered, PostWhole, RowWhole, PostHasReference, Exists

\* Neither preferences nor users change: they stay whole.
LEMMA PrefsAlone ==
  ASSUME IInv, UNCHANGED <<prefs, last>>
  PROVE  /\ ref' \in [User -> 0..Requests] /\ util' \in [User -> SUBSET Request]
         /\ dist' \in [User -> SUBSET Request] /\ PrefsWhole'
         /\ \A u \in User : (ref[u] # 0 => ref'[u] # 0) /\ ref'[u] <= last'
<1>1. UNCHANGED <<ref, util, dist, last>>
  BY DEF prefs
<1> QED
  BY <1>1, Before DEF IInv, PrefsWhole, Whole

\* A new post carries the rows of its own request, and its author gets the same.
LEMMA CreateKeeps == ASSUME IInv, NEW c \in Slot, CommitCreate(c) PROVE IInv'
<1> DEFINE t == txn[c]
           row == [by |-> t.user, date |-> t.stamp, price |-> t.stamp,
                   util |-> {t.stamp}, dist |-> {t.stamp}]
<1>1. /\ t # Idle /\ t.op = "create" /\ PrefsFit(t) /\ SavePrefs(t) /\ Finish(c)
      /\ post' = [post EXCEPT ![t.target] = row] /\ alive' = alive /\ UNCHANGED last
  BY DEF CommitCreate, Finish
<1>2. t \in Txn /\ t.target \in used
  BY <1>1, TxnTyped DEF SnapWhole
<1>3. /\ t.user \in User /\ t.stamp \in Request /\ t.target \in PostId
      /\ t.stamp # 0
  BY <1>2, RequestsAssumption DEF Txn, Request
<1>4. row \in PostRow
  BY <1>3 DEF PostRow
<1>5. /\ ref' \in [User -> 0..Requests] /\ util' \in [User -> SUBSET Request]
      /\ dist' \in [User -> SUBSET Request] /\ PrefsWhole'
      /\ ref' = [ref EXCEPT ![t.user] = t.stamp] /\ t.user \in alive
      /\ \A u \in User : /\ ref[u] # 0 => ref'[u] # 0
                         /\ ref'[u] # 0 => ref[u] # 0 \/ u = t.user
                         /\ ref'[u] <= last'
  BY <1>1, SavePrefsFacts
<1>6. ref'[t.user] # 0
  BY <1>3, <1>5, Before
<1>7. \A u \in User : ref'[u] # 0 => u \in alive'
  BY <1>1, <1>5, Before
<1>8. post' \in [PostId -> PostRow \cup {NoPost}]
  BY <1>1, <1>3, <1>4, Before
<1>9. ASSUME NEW p \in PostId, post'[p] # NoPost
      PROVE  /\ p \in used /\ post'[p].by \in alive' /\ ref'[post'[p].by] # 0
             /\ RowWhole(post'[p])
  <2>1. CASE p = t.target
    <3>1. post'[p] = row
      BY <2>1, <1>1, Before
    <3> QED
      BY <3>1, <2>1, <1>1, <1>2, <1>5, <1>6 DEF RowWhole
  <2>2. CASE p # t.target
    <3>1. post'[p] = post[p] /\ post[p] # NoPost
      BY <2>2, <1>1, <1>9, Before
    <3>2. post[p].by \in User
      BY <3>1, Before
    <3> QED
      BY <3>1, <3>2, <1>1, <1>5, Before
  <2> QED
    BY <2>1, <2>2
<1>10. alive' \subseteq User
  BY <1>1, Before
<1>11. Follows(t)
  BY <1>1, <1>3, Before DEF Follows
<1> QED
  BY <1>1, <1>5, <1>7, <1>8, <1>9, <1>10, <1>11, EndKeeps

\* Saving the settings touches no post.
LEMMA SaveKeeps == ASSUME IInv, NEW c \in Slot, CommitSave(c) PROVE IInv'
<1> DEFINE t == txn[c]
<1>1. /\ t # Idle /\ PrefsFit(t) /\ SavePrefs(t) /\ Finish(c)
      /\ UNCHANGED <<alive, post, last>>
  BY DEF CommitSave, Finish
<1>2. /\ ref' \in [User -> 0..Requests] /\ util' \in [User -> SUBSET Request]
      /\ dist' \in [User -> SUBSET Request] /\ PrefsWhole' /\ t.user \in alive
      /\ \A u \in User : /\ ref[u] # 0 => ref'[u] # 0
                         /\ ref'[u] # 0 => ref[u] # 0 \/ u = t.user
                         /\ ref'[u] <= last'
  BY <1>1, SavePrefsFacts
<1>3. \A u \in User : ref'[u] # 0 => u \in alive'
  BY <1>1, <1>2, Before
<1>4. \A p \in PostId : post'[p] # NoPost =>
         /\ p \in used /\ post'[p].by \in alive' /\ ref'[post'[p].by] # 0
         /\ RowWhole(post'[p])
  BY <1>1, <1>2, Before
<1>5. alive' \subseteq User /\ post' \in [PostId -> PostRow \cup {NoPost}] /\ Follows(t)
  BY <1>1, Before DEF Follows
<1> QED
  BY <1>1, <1>2, <1>3, <1>4, <1>5, EndKeeps

\* Rewriting a post whose rows are those of the snapshot replaces them all.
LEMMA RewrittenFacts ==
  ASSUME IInv, NEW c \in Slot, txn[c] # Idle, txn[c].op = "update", PostFits(txn[c])
  PROVE  LET t == txn[c]
             r == Rewritten(t, {t.stamp})
         IN  /\ r \in PostRow /\ r.by = t.user
             /\ RowWhole(r) /\ r.price = t.stamp
             /\ t.target \in used /\ t.target \in PostId /\ t.user \in User
             /\ t.ref # 0 /\ ref[t.user] # 0 /\ t.user \in alive
<1> DEFINE t == txn[c]
           p == t.target
<1>1. t \in Txn /\ SnapWhole(t)
  BY TxnTyped
<1>2. /\ p \in PostId /\ t.user \in User /\ t.stamp \in Request
      /\ t.post \in [PostId -> PostRow \cup {NoPost}]
  BY <1>1 DEF Txn
<1>3. t.post[p] # NoPost /\ t.post[p].by = t.user /\ t.ref # 0 /\ ref[t.user] # 0
  BY <1>1 DEF SnapWhole
<1>4. /\ t.post[p] \in PostRow
      /\ RowWhole(t.post[p])
  BY <1>1, <1>2, <1>3 DEF SnapWhole
<1>5. post[p] # NoPost /\ p \in used
      /\ RowWhole(post[p])
  BY <1>2, Before DEF PostFits, Exists
<1>6. post[p].util = t.post[p].util /\ post[p].dist = t.post[p].dist
  <2>1. post[p].dist = t.post[p].dist /\ t.post[p].price = post[p].price
    BY <1>4, <1>5 DEF PostFits, RowWhole
  <2>2. post[p].util \subseteq t.post[p].util
    BY <2>1, <1>2, <1>3, <1>5 DEF IInv, Dated, NotRegained
  <2> QED
    BY <2>1, <2>2 DEF PostFits
<1>7. Rewritten(t, {t.stamp}) = [by |-> t.user, date |-> t.post[p].date, price |-> t.stamp,
                                 util |-> {t.stamp}, dist |-> {t.stamp}]
  BY <1>3, <1>6 DEF Rewritten
<1>8. t.post[p].date \in Request
  BY <1>4 DEF PostRow
<1>9. Rewritten(t, {t.stamp}) \in PostRow
  BY <1>2, <1>7, <1>8 DEF PostRow
<1>10. /\ Rewritten(t, {t.stamp}).by = t.user
       /\ Rewritten(t, {t.stamp}).price = t.stamp
       /\ RowWhole(Rewritten(t, {t.stamp}))
  BY <1>7 DEF RowWhole
<1>11. t.user \in alive
  BY <1>2, <1>3, Before
<1> QED
  BY <1>2, <1>3, <1>5, <1>9, <1>10, <1>11

\* Either way of updating a post leaves every post whole.
LEMMA PostsAfterUpdate ==
  ASSUME IInv, NEW c \in Slot, txn[c] # Idle, txn[c].op = "update", PostFits(txn[c]),
         post' = [post EXCEPT ![txn[c].target] = Rewritten(txn[c], {txn[c].stamp})],
         alive' = alive, \A u \in User : ref[u] # 0 => ref'[u] # 0
  PROVE  /\ post' \in [PostId -> PostRow \cup {NoPost}] /\ Follows(txn[c])
         /\ \A p \in PostId : post'[p] # NoPost =>
              /\ p \in used /\ post'[p].by \in alive' /\ ref'[post'[p].by] # 0
              /\ RowWhole(post'[p])
<1> DEFINE t == txn[c]
           r == Rewritten(t, {t.stamp})
<1>1. /\ r \in PostRow /\ r.by = t.user /\ RowWhole(r) /\ r.price = t.stamp
      /\ t.target \in used /\ t.target \in PostId /\ t.user \in User
      /\ ref[t.user] # 0 /\ t.user \in alive
  BY RewrittenFacts
<1>2. post' = [post EXCEPT ![t.target] = r]
  OBVIOUS
<1> HIDE DEF r
<1>3. post' \in [PostId -> PostRow \cup {NoPost}] /\ Follows(t)
  BY <1>1, <1>2, Before DEF Follows
<1>4. ASSUME NEW p \in PostId, post'[p] # NoPost
      PROVE  /\ p \in used /\ post'[p].by \in alive' /\ ref'[post'[p].by] # 0
             /\ RowWhole(post'[p])
  <2>1. CASE p = t.target
    <3>1. post'[p] = r
      BY <2>1, <1>2, Before
    <3>2. p \in used /\ r.by \in alive'
      BY <2>1, <1>1
    <3>3. ref'[r.by] # 0
      BY <1>1
    <3>4. RowWhole(r)
      BY <1>1
    <3> QED
      BY <3>1, <3>2, <3>3, <3>4
  <2>2. CASE p # t.target
    <3>1. post'[p] = post[p] /\ post[p] # NoPost
      BY <2>2, <1>2, <1>4, Before
    <3>2. post[p].by \in User
      BY <3>1, Before
    <3> QED
      BY <3>1, <3>2, Before
  <2> QED
    BY <2>1, <2>2
<1> QED
  BY <1>3, <1>4

\* The newest post writes the preferences too: its author has some, as the snapshot
\* shows, so that `reference' is never null.
LEMMA NewestKeeps == ASSUME IInv, NEW c \in Slot, CommitNewest(c) PROVE IInv'
<1> DEFINE t == txn[c]
<1>1. /\ t # Idle /\ t.op = "update" /\ PostFits(t) /\ Finish(c)
      /\ alive' = alive /\ UNCHANGED last
  BY DEF CommitNewest, Finish
<1>2. t.ref # 0
  BY <1>1, RewrittenFacts
<1>3. /\ post' = [post EXCEPT ![t.target] = Rewritten(t, {t.stamp})]
      /\ PrefsFit(t) /\ SavePrefs(t)
  BY <1>2 DEF CommitNewest
<1>4. /\ ref' \in [User -> 0..Requests] /\ util' \in [User -> SUBSET Request]
      /\ dist' \in [User -> SUBSET Request] /\ PrefsWhole' /\ t.user \in alive
      /\ \A u \in User : /\ ref[u] # 0 => ref'[u] # 0
                         /\ ref'[u] # 0 => ref[u] # 0 \/ u = t.user
                         /\ ref'[u] <= last'
  BY <1>1, <1>3, SavePrefsFacts
<1>5. \A u \in User : ref'[u] # 0 => u \in alive'
  BY <1>1, <1>4, Before
<1>6. /\ post' \in [PostId -> PostRow \cup {NoPost}] /\ Follows(t)
      /\ \A p \in PostId : post'[p] # NoPost =>
           /\ p \in used /\ post'[p].by \in alive' /\ ref'[post'[p].by] # 0
           /\ RowWhole(post'[p])
  BY <1>1, <1>3, <1>4, PostsAfterUpdate
<1>7. alive' \subseteq User
  BY <1>1, Before
<1> QED
  BY <1>1, <1>4, <1>5, <1>6, <1>7, EndKeeps

\* An older post is rewritten alone.
LEMMA OlderKeeps == ASSUME IInv, NEW c \in Slot, CommitOlder(c) PROVE IInv'
<1> DEFINE t == txn[c]
<1>1. /\ t # Idle /\ t.op = "update" /\ PostFits(t) /\ Finish(c)
      /\ post' = [post EXCEPT ![t.target] = Rewritten(t, {t.stamp})]
      /\ alive' = alive /\ UNCHANGED <<prefs, last>>
  BY DEF CommitOlder, Finish
<1>2. /\ ref' \in [User -> 0..Requests] /\ util' \in [User -> SUBSET Request]
      /\ dist' \in [User -> SUBSET Request] /\ PrefsWhole'
      /\ \A u \in User : (ref[u] # 0 => ref'[u] # 0) /\ ref'[u] <= last'
  BY <1>1, PrefsAlone
<1>3. ref' = ref
  BY <1>1 DEF prefs
<1>4. \A u \in User : ref'[u] # 0 => u \in alive'
  BY <1>1, <1>3, Before
<1>5. /\ post' \in [PostId -> PostRow \cup {NoPost}] /\ Follows(t)
      /\ \A p \in PostId : post'[p] # NoPost =>
           /\ p \in used /\ post'[p].by \in alive' /\ ref'[post'[p].by] # 0
           /\ RowWhole(post'[p])
  BY <1>1, <1>2, PostsAfterUpdate
<1>6. alive' \subseteq User
  BY <1>1, Before
<1> QED
  BY <1>1, <1>2, <1>4, <1>5, <1>6, EndKeeps

\* A post goes; the preferences it brought stay.
LEMMA DeletePostKeeps == ASSUME IInv, NEW c \in Slot, CommitDeletePost(c) PROVE IInv'
<1> DEFINE t == txn[c]
<1>1. /\ t # Idle /\ Finish(c) /\ post' = [post EXCEPT ![t.target] = NoPost]
      /\ alive' = alive /\ UNCHANGED <<prefs, last>> /\ ref' = ref
  BY DEF CommitDeletePost, Finish, prefs
<1>2. /\ ref' \in [User -> 0..Requests] /\ util' \in [User -> SUBSET Request]
      /\ dist' \in [User -> SUBSET Request] /\ PrefsWhole'
      /\ \A u \in User : (ref[u] # 0 => ref'[u] # 0) /\ ref'[u] <= last'
  BY <1>1, PrefsAlone
<1>3. /\ post' \in [PostId -> PostRow \cup {NoPost}]
      /\ \A p \in PostId : post'[p] # NoPost => post'[p] = post[p]
  BY <1>1, Before
<1>4. alive' \subseteq User /\ \A u \in User : ref'[u] # 0 => u \in alive'
  BY <1>1, Before
<1>5. \A p \in PostId : post'[p] # NoPost =>
        /\ p \in used /\ post'[p].by \in alive' /\ ref'[post'[p].by] # 0
        /\ RowWhole(post'[p])
  BY <1>1, <1>3, Before
<1>6. Follows(t)
  BY <1>3, Before DEF Follows
<1> QED
  BY <1>1, <1>2, <1>3, <1>4, <1>5, <1>6, EndKeeps

\* Only a user without preferences can be deleted, and takes all of its posts along.
LEMMA DeleteUserKeeps == ASSUME IInv, NEW c \in Slot, CommitDeleteUser(c) PROVE IInv'
<1> DEFINE t == txn[c]
           Mine == {p \in PostId : post[p] # NoPost /\ post[p].by = t.user}
<1>1. /\ t # Idle /\ Finish(c)
      /\ post' = [p \in PostId |-> IF p \in Mine THEN NoPost ELSE post[p]]
      /\ alive' = alive \ {t.user} /\ UNCHANGED <<prefs, last>> /\ ref' = ref
      /\ ref[t.user] = 0
  BY DEF CommitDeleteUser, Finish, prefs
<1>2. /\ ref' \in [User -> 0..Requests] /\ util' \in [User -> SUBSET Request]
      /\ dist' \in [User -> SUBSET Request] /\ PrefsWhole'
      /\ \A u \in User : (ref[u] # 0 => ref'[u] # 0) /\ ref'[u] <= last'
  BY <1>1, PrefsAlone
<1>3. /\ post' \in [PostId -> PostRow \cup {NoPost}]
      /\ \A p \in PostId : post'[p] # NoPost => post'[p] = post[p] /\ post[p].by # t.user
  BY <1>1, Before
<1>4. alive' \subseteq User /\ \A u \in User : ref'[u] # 0 => u \in alive'
  BY <1>1, Before
<1>5. \A p \in PostId : post'[p] # NoPost =>
        /\ p \in used /\ post'[p].by \in alive' /\ ref'[post'[p].by] # 0
        /\ RowWhole(post'[p])
  BY <1>1, <1>3, Before
<1>6. Follows(t)
  BY <1>3, Before DEF Follows
<1> QED
  BY <1>1, <1>2, <1>3, <1>4, <1>5, <1>6, EndKeeps

\* A room's update takes the utilities of a post away, all of them or none.
LEMMA UpdateRoomKeeps == ASSUME IInv, NEW c \in Slot, CommitUpdateRoom(c) PROVE IInv'
<1> DEFINE t == txn[c]
           p == t.target
           row == [post[p] EXCEPT !.util = @ \ t.post[p].util]
<1>1. /\ t # Idle /\ Finish(c) /\ post[p] # NoPost /\ t.post[p].util \subseteq post[p].util
      /\ post' = [post EXCEPT ![p].util = @ \ t.post[p].util]
      /\ alive' = alive /\ UNCHANGED <<prefs, last>> /\ ref' = ref
  BY DEF CommitUpdateRoom, Exists, Finish, prefs
<1>2. /\ ref' \in [User -> 0..Requests] /\ util' \in [User -> SUBSET Request]
      /\ dist' \in [User -> SUBSET Request] /\ PrefsWhole'
      /\ \A u \in User : (ref[u] # 0 => ref'[u] # 0) /\ ref'[u] <= last'
  BY <1>1, PrefsAlone
<1>3. p \in PostId /\ post[p] \in PostRow /\ RowWhole(post[p])
  BY <1>1, TxnTyped, Before DEF Txn
<1>4. post' = [post EXCEPT ![p] = row]
  BY <1>1
<1>5. row = [by |-> post[p].by, date |-> post[p].date, price |-> post[p].price,
             util |-> post[p].util \ t.post[p].util, dist |-> post[p].dist]
  BY <1>3 DEF PostRow
<1>6. /\ row \in PostRow /\ row.by = post[p].by /\ row.price = post[p].price
      /\ row.dist = post[p].dist /\ row.util = post[p].util \ t.post[p].util
  BY <1>3, <1>5 DEF PostRow
<1>7. RowWhole(row)
  <2>1. t.post[p].util = {} \/ t.post[p].util = post[p].util
    BY <1>1, <1>3 DEF RowWhole
  <2>2. row.util = post[p].util \/ row.util = {}
    BY <2>1, <1>6
  <2> QED
    BY <2>2, <1>3, <1>6 DEF RowWhole
<1> HIDE DEF row
<1>8. post' \in [PostId -> PostRow \cup {NoPost}]
  BY <1>3, <1>4, <1>6, Before
<1>9. \A q \in PostId : post'[q] = IF q = p THEN row ELSE post[q]
  BY <1>3, <1>4, Before
<1>10. alive' \subseteq User /\ \A u \in User : ref'[u] # 0 => u \in alive'
  BY <1>1, Before
<1>11. ASSUME NEW q \in PostId, post'[q] # NoPost
       PROVE  /\ q \in used /\ post'[q].by \in alive' /\ ref'[post'[q].by] # 0
              /\ RowWhole(post'[q])
  <2>1. CASE q = p
    <3>1. post'[q] = row
      BY <2>1, <1>3, <1>9
    <3>2. p \in used /\ post[p].by \in alive /\ ref[post[p].by] # 0
      BY <1>1, <1>3, Before
    <3>3. p \in used /\ row.by \in alive' /\ ref'[row.by] # 0
      BY <3>2, <1>1, <1>6
    <3> QED
      BY <2>1, <3>1, <3>3, <1>7
  <2>2. CASE q # p
    BY <2>2, <1>1, <1>9, <1>11, Before
  <2> QED
    BY <2>1, <2>2
<1>12. Follows(t)
  BY <1>1, <1>6, <1>9 DEF Follows
<1> QED
  BY <1>1, <1>2, <1>8, <1>10, <1>11, <1>12, EndKeeps

\* A rolled back transaction leaves no trace.
LEMMA RollbackKeeps == ASSUME IInv, NEW c \in Slot, Rollback(c) PROVE IInv'
<1>1. /\ txn[c] # Idle /\ Finish(c) /\ UNCHANGED <<prefs, last>> /\ ref' = ref
      /\ alive' = alive /\ post' = post
  BY DEF Rollback, Finish, prefs
<1>2. /\ ref' \in [User -> 0..Requests] /\ util' \in [User -> SUBSET Request]
      /\ dist' \in [User -> SUBSET Request] /\ PrefsWhole'
      /\ \A u \in User : (ref[u] # 0 => ref'[u] # 0) /\ ref'[u] <= last'
  BY <1>1, PrefsAlone
<1>3. Follows(txn[c])
  BY <1>1 DEF Follows
<1> QED
  BY <1>1, <1>2, <1>3, Before, EndKeeps

-------------------------------------------------------------------------------
\* The six ways a transaction begins.
LEMMA BeginsKeep ==
  ASSUME IInv, NEW c \in Slot,
         \/ BeginCreate(c) \/ BeginUpdate(c) \/ BeginSave(c)
         \/ BeginDeletePost(c) \/ BeginDeleteUser(c) \/ BeginUpdateRoom(c)
  PROVE  IInv'
<1>1. CASE BeginCreate(c)
  <2>1. PICK u \in alive, p \in PostId \ used :
          Begin(c, "create", u, p) /\ used' = used \cup {p}
    BY <1>1 DEF BeginCreate
  <2>2. u \in User /\ used \subseteq used' /\ used' \subseteq PostId /\ p \in used'
    BY <2>1, Before
  <2> QED
    BY <2>1, <2>2, BeginKeeps DEF Op
<1>2. CASE BeginUpdate(c)
  <2>1. PICK p \in PostId : Exists(p) /\ Begin(c, "update", post[p].by, p) /\ UNCHANGED used
    BY <1>2 DEF BeginUpdate
  <2>2. post[p].by \in User /\ used \subseteq used' /\ used' \subseteq PostId
    BY <2>1, Before DEF Exists
  <2> QED
    BY <2>1, <2>2, BeginKeeps DEF Op
<1>3. CASE BeginSave(c)
  <2>1. PICK u \in User, p \in PostId : Begin(c, "save", u, p) /\ UNCHANGED used
    BY <1>3 DEF BeginSave
  <2>2. used \subseteq used' /\ used' \subseteq PostId
    BY <2>1, Before
  <2> QED
    BY <2>1, <2>2, BeginKeeps DEF Op
<1>4. CASE BeginDeletePost(c)
  <2>1. PICK p \in PostId : Exists(p) /\ Begin(c, "deletePost", post[p].by, p) /\ UNCHANGED used
    BY <1>4 DEF BeginDeletePost
  <2>2. post[p].by \in User /\ used \subseteq used' /\ used' \subseteq PostId
    BY <2>1, Before DEF Exists
  <2> QED
    BY <2>1, <2>2, BeginKeeps DEF Op
<1>5. CASE BeginDeleteUser(c)
  <2>1. PICK u \in alive, p \in PostId : Begin(c, "deleteUser", u, p) /\ UNCHANGED used
    BY <1>5 DEF BeginDeleteUser
  <2>2. u \in User /\ used \subseteq used' /\ used' \subseteq PostId
    BY <2>1, Before
  <2> QED
    BY <2>1, <2>2, BeginKeeps DEF Op
<1>6. CASE BeginUpdateRoom(c)
  <2>1. PICK p \in PostId : Exists(p) /\ Begin(c, "updateRoom", post[p].by, p) /\ UNCHANGED used
    BY <1>6 DEF BeginUpdateRoom
  <2>2. post[p].by \in User /\ used \subseteq used' /\ used' \subseteq PostId
    BY <2>1, Before DEF Exists
  <2> QED
    BY <2>1, <2>2, BeginKeeps DEF Op
<1> QED
  BY <1>1, <1>2, <1>3, <1>4, <1>5, <1>6

\* Every step of a transaction, and every stutter, keeps the invariant.
LEMMA NextIInv == IInv /\ [Next]_vars => IInv'
<1> SUFFICES ASSUME IInv, [Next]_vars PROVE IInv'
  OBVIOUS
<1>1. CASE Next
  <2>1. PICK c \in Slot : Step(c)
    BY <1>1 DEF Next
  <2> QED
    BY <2>1, BeginsKeep, CreateKeeps, SaveKeeps, NewestKeeps, OlderKeeps, DeletePostKeeps,
       DeleteUserKeeps, UpdateRoomKeeps, RollbackKeeps DEF Step
<1>2. CASE UNCHANGED vars
  BY <1>2 DEF vars, prefs, IInv, TypeOK, PrefsWhole, Whole, PostWhole, PostHasReference, Exists,
              Numbered, Snapshots, SnapWhole, Dated, Unwritten, NotRegained
<1> QED
  BY <1>1, <1>2

\* The invariant always holds.
LEMMA Invariant == Spec => []IInv
  BY InitIInv, NextIInv, PTL DEF Spec

\* Rows have their types, refer to users that are there, and a user with rows in a
\* list of preferences has preferences (the tables' keys, PageController.deleteUser).
THEOREM TypeCorrect == Spec => []TypeOK
<1>1. IInv => TypeOK
  BY DEF IInv
<1> QED
  BY <1>1, Invariant, PTL

\* Overlapping createReference, createRoommatePost and updateRoommatePost never
\* mix the price, utilities and districts of two requests.
THEOREM PreferencesStayWhole == Spec => []PrefsWhole
<1>1. IInv => PrefsWhole
  BY DEF IInv
<1> QED
  BY <1>1, Invariant, PTL

\* Overlapping updateRoommatePost, deletePost and updateRoom never mix the rows of two
\* requests: districts and price are of one request, and so are the utilities unless a
\* room's update took them.
THEOREM PostsStayWhole == Spec => []PostWhole
<1>1. IInv => PostWhole
  BY DEF IInv
<1> QED
  BY <1>1, Invariant, PTL

\* updateRoommatePost never meets a null `reference': an author has preferences.
THEOREM AuthorsHavePreferences == Spec => []PostHasReference
<1>1. IInv => PostHasReference
  BY DEF IInv
<1> QED
  BY <1>1, Invariant, PTL

-------------------------------------------------------------------------------
\* Where preferences are whole, what LatestSave sees of them is their number.
LEMMA SeenPrefs ==
  ASSUME IInv PROVE [u \in User |-> IF Whole(u) THEN ref[u] ELSE Torn] = ref
BY DEF IInv, TypeOK, PrefsWhole

\* Every commit that writes preferences is a Save of LatestSave, and no other step
\* is seen there.
LEMMA StepSaves == ASSUME IInv, IInv', [Next]_vars
                   PROVE  [\E u \in User : \E s \in 1..Requests :
                             ref[u] < s /\ ref' = [ref EXCEPT ![u] = s]]_ref
<1>1. ASSUME NEW c \in Slot, Step(c), ref' # ref
      PROVE  \E u \in User : \E s \in 1..Requests :
                             ref[u] < s /\ ref' = [ref EXCEPT ![u] = s]
  <2>1. txn[c] # Idle /\ PrefsFit(txn[c]) /\ SavePrefs(txn[c]) /\ UNCHANGED last
    BY <1>1 DEF Step, Begin, BeginCreate, BeginUpdate, BeginSave, BeginDeletePost, BeginDeleteUser,
                CommitCreate, CommitSave, CommitNewest, CommitOlder, CommitDeletePost,
                CommitDeleteUser, BeginUpdateRoom, CommitUpdateRoom, Rollback, Finish, prefs
  <2>2. ref[txn[c].user] < txn[c].stamp /\ ref' = [ref EXCEPT ![txn[c].user] = txn[c].stamp]
    BY <2>1, SavePrefsFacts
  <2>3. txn[c].user \in User /\ txn[c].stamp \in 1..Requests
    BY <2>1, TxnTyped DEF Txn, Request
  <2> QED
    BY <2>2, <2>3
<1>2. CASE UNCHANGED vars
  BY <1>2 DEF vars, prefs
<1> QED
  BY <1>1, <1>2 DEF Next

\* createReference, createRoommatePost and updateRoommatePost implement LatestSave:
\* a user's preferences are those of one request, and never return to an older one.
THEOREM SavesInOrderHolds == Spec => SavesInOrder
<1>1. Init => Saved!Init
  <2> SUFFICES ASSUME Init PROVE Saved!Init
    OBVIOUS
  <2>1. [u \in User |-> IF Whole(u) THEN ref[u] ELSE Torn] = [u \in User |-> 0]
    BY DEF Init, Whole
  <2> QED
    BY <2>1 DEF Saved!Init
<1>2. IInv /\ IInv' /\ [Next]_vars
        => [Saved!Next]_([u \in User |-> IF Whole(u) THEN ref[u] ELSE Torn])
  <2> SUFFICES ASSUME IInv, IInv', [Next]_vars
               PROVE  [Saved!Next]_([u \in User |-> IF Whole(u) THEN ref[u] ELSE Torn])
    OBVIOUS
  <2>1. [u \in User |-> IF Whole(u) THEN ref[u] ELSE Torn] = ref
    BY SeenPrefs
  <2>2. [u \in User |-> IF Whole(u) THEN ref[u] ELSE Torn]' = ref'
    BY DEF IInv, TypeOK, PrefsWhole
  <2>3. CASE ref' = ref
    BY <2>1, <2>2, <2>3
  <2>4. CASE \E u \in User : \E s \in 1..Requests :
               ref[u] < s /\ ref' = [ref EXCEPT ![u] = s]
    BY <2>1, <2>2, <2>4 DEF Saved!Next, Saved!Save
  <2> QED
    BY <2>3, <2>4, StepSaves
<1> QED
  BY <1>1, <1>2, Invariant, PTL DEF Spec, SavesInOrder, Saved!Spec
===============================================================================
