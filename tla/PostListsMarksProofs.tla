-------------------------- MODULE PostListsMarksProofs --------------------------
(***************************************************************************)
(* Proof about PostLists, for any number of posts, loads and favourites,   *)
(* and any page size: when nothing is pending, both lists show of every     *)
(* post whether it is bookmarked, and under which number.  The invariant    *)
(* says what lists, answered loads and the answered bookmark request know   *)
(* of one post while anything is pending.                                   *)
(***************************************************************************)
EXTENDS PostListsProofs

\* A row shows what the server has.
Tells(f, x) == (x.on <=> x.post \in DOMAIN f) /\ (x.on => x.id = f[x.post])

LoneTells(f, q, p)   == \A i \in Rows(q, p) : Rows(q, p) = {i} => Tells(f, q[i])
AllTell(f, q, p)     == \A i \in Rows(q, p) : Tells(f, q[i])
AllOn(q, p)          == \A i \in Rows(q, p) : q[i].on
Lone(q, p)           == \A i, j \in Rows(q, p) : i = j
RowsTell(f, s, q, p) == AllTell(f, q, p) /\ (s = "bookmark" => AllOn(q, p))

\* The answer to the bookmark request has come, and the lists do not have it yet.
Coming(t, p) == t.state = "OK" /\ t.item.post = p

ListsTell(f, ls, t, p) ==
  /\ ~Coming(t, p) => LoneTells(f, ls["all"], p)
  /\ Lone(ls["bookmark"], p)
  /\ ~(Coming(t, p) /\ t.item.on) => RowsTell(f, "bookmark", ls["bookmark"], p)

LoadsTell(f, ld, p) ==
  \A s \in Screen : \A l \in DOMAIN ld[s] : RowsTell(f, s, ld[s][l].rows, p)

TapTells(f, t, p) ==
  Coming(t, p) => (t.item.on <=> p \notin DOMAIN f) /\ (~t.item.on => t.id = f[p])

Right(p) ==
  /\ ListsTell(db.fav, list, tap, p)
  /\ LoadsTell(db.fav, load, p)
  /\ TapTells(db.fav, tap, p)

MarksInv == \A p \in db.post \ doubt : Right(p)

-------------------------------------------------------------------------------
(* Loading.                                                                  *)

LEMMA LoadsOnly ==
  ASSUME MarksInv, UNCHANGED <<db, list, tap, doubt>>,
         \A p \in db.post \ doubt : LoadsTell(db.fav, load', p)
  PROVE  MarksInv'
BY DEF MarksInv, Right

LEMMA NoRows == ASSUME NEW f, NEW s, NEW p PROVE RowsTell(f, s, <<>>, p)
BY DEF RowsTell, AllTell, AllOn, Rows

\* A load of g is x or one of h.
FromLoads(g, h, x) ==
  \A k \in DOMAIN g : g[k] = x \/ (k \in DOMAIN h /\ g[k] = h[k])

LEMMA SetLoad ==
  ASSUME IInv, NEW f, NEW p, LoadsTell(f, load, p), NEW s \in Screen, NEW l, NEW x,
         RowsTell(f, s, x.rows, p),
         \/ load' = [load EXCEPT ![s] = With(@, l, x)]
         \/ l \in DOMAIN load[s] /\ Becomes(s, l, x)
  PROVE  LoadsTell(f, load', p)
<1>1. load = [t \in Screen |-> load[t]] /\ load[s] = [k \in DOMAIN load[s] |-> load[s][k]]
  BY DEF IInv, LoadsOk
<1>2. PICK g : /\ load' = [load EXCEPT ![s] = g]
               /\ FromLoads(g, load[s], x)
  <2>1. CASE load' = [load EXCEPT ![s] = With(@, l, x)]
    <3>1. PICK g : g = With(load[s], l, x)
      OBVIOUS
    <3>2. load' = [load EXCEPT ![s] = g]
      BY <2>1, <3>1
    <3>3. FromLoads(g, load[s], x)
      <4>1. DOMAIN g = DOMAIN load[s] \cup {l}
        BY <3>1 DEF With
      <4>2. ASSUME NEW k \in DOMAIN g PROVE g[k] = IF k = l THEN x ELSE load[s][k]
        BY <3>1, <4>1 DEF With
      <4> QED
        BY <4>1, <4>2 DEF FromLoads
    <3> QED
      BY <3>2, <3>3
  <2>2. CASE l \in DOMAIN load[s] /\ Becomes(s, l, x)
    <3>1. PICK g : g = [load[s] EXCEPT ![l] = x]
      OBVIOUS
    <3>2. load' = [load EXCEPT ![s] = g]
      BY <1>1, <2>2, <3>1 DEF Becomes
    <3>3. FromLoads(g, load[s], x)
      <4>1. DOMAIN g = DOMAIN load[s]
        BY <1>1, <3>1
      <4>2. ASSUME NEW k \in DOMAIN g PROVE g[k] = IF k = l THEN x ELSE load[s][k]
        BY <1>1, <3>1, <4>1
      <4> QED
        BY <4>1, <4>2 DEF FromLoads
    <3> QED
      BY <3>2, <3>3
  <2> QED
    BY <2>1, <2>2
<1>3. ASSUME NEW t \in Screen, NEW k \in DOMAIN load'[t]
      PROVE  RowsTell(f, t, load'[t][k].rows, p)
  <2>1. CASE t = s
    <3>1. load'[t] = g
      BY <1>1, <1>2, <2>1
    <3> QED
      BY <1>2, <1>3, <2>1, <3>1 DEF LoadsTell, FromLoads
  <2>2. CASE t # s
    <3>1. load'[t] = load[t]
      BY <1>1, <1>2, <2>2
    <3> QED
      BY <1>3, <3>1 DEF LoadsTell
  <2> QED
    BY <2>1, <2>2
<1> QED
  BY <1>3 DEF LoadsTell

LEMMA FewerLoads ==
  ASSUME IInv, NEW f, NEW p, LoadsTell(f, load, p), NEW s \in Screen, NEW S,
         load' = [load EXCEPT ![s] = Without(@, S)]
  PROVE  LoadsTell(f, load', p)
<1>1. load = [t \in Screen |-> load[t]]
  BY DEF IInv, LoadsOk
<1>2. PICK g : g = Without(load[s], S)
  OBVIOUS
<1>3. \A k \in DOMAIN g : k \in DOMAIN load[s] /\ g[k] = load[s][k]
  BY <1>2 DEF Without
<1>4. load' = [load EXCEPT ![s] = g]
  BY <1>2
<1>5. ASSUME NEW t \in Screen, NEW k \in DOMAIN load'[t]
      PROVE  RowsTell(f, t, load'[t][k].rows, p)
  <2>1. k \in DOMAIN load[t] /\ load'[t][k] = load[t][k]
    BY <1>1, <1>3, <1>4, <1>5
  <2> QED
    BY <2>1 DEF LoadsTell
<1> QED
  BY <1>5 DEF LoadsTell

LEMMA SendTells ==
  ASSUME IInv, NEW f, NEW p, LoadsTell(f, load, p), NEW s \in Screen, NEW a, NEW b,
         Send(s, a, b)
  PROVE  LoadsTell(f, load', p)
<1>1. PICK l, x : /\ x = [reset |-> b, state |-> "sent", arg |-> a, rows |-> <<>>]
                  /\ load' = [load EXCEPT ![s] = With(@, l, x)]
  BY DEF Send
<1>2. x.rows = <<>>
  BY <1>1
<1> QED
  BY <1>1, <1>2, NoRows, SetLoad

LEMMA RefreshMarks ==
  ASSUME IInv, MarksInv, NEW s \in Screen, Refresh(s) \/ LoadMore(s) PROVE MarksInv'
<1>1. PICK a, b : Send(s, a, b)
  BY DEF Refresh, LoadMore
<1>2. UNCHANGED <<db, list, tap, doubt>>
  BY DEF Refresh, LoadMore
<1>3. \A p \in db.post \ doubt : LoadsTell(db.fav, load', p)
  BY <1>1, SendTells DEF MarksInv, Right
<1> QED
  BY <1>2, <1>3, LoadsOnly

LEMMA EmptyTells ==
  ASSUME NEW f, NEW p
  PROVE  LoneTells(f, <<>>, p) /\ Lone(<<>>, p) /\ RowsTell(f, "bookmark", <<>>, p)
BY DEF LoneTells, Lone, RowsTell, AllTell, AllOn, Rows

LEMMA ChooseMarks == ASSUME IInv, MarksInv, NEW s \in Screen, Choose(s) PROVE MarksInv'
<1>1. PICK a, b : Send(s, a, b)
  BY DEF Choose
<1>2. UNCHANGED <<db, tap, doubt>>
  BY DEF Choose
<1>3. list = [t \in Screen |-> list[t]]
  BY DEF IInv, ListsOk
<1>4. \A t \in Screen : list'[t] = list[t] \/ list'[t] = <<>>
  BY <1>3 DEF Choose
<1>5. ASSUME NEW p \in db.post \ doubt PROVE Right(p)'
  <2>1. LoadsTell(db.fav, load', p)
    BY <1>1, <1>5, SendTells DEF MarksInv, Right
  <2>2. ListsTell(db.fav, list, tap, p) /\ TapTells(db.fav, tap, p)
    BY <1>5 DEF MarksInv, Right
  <2>3. /\ list'["all"] = list["all"] \/ list'["all"] = <<>>
        /\ list'["bookmark"] = list["bookmark"] \/ list'["bookmark"] = <<>>
    BY <1>4 DEF Screen
  <2>4. ListsTell(db.fav, list', tap, p)
    BY <2>2, <2>3, EmptyTells DEF ListsTell
  <2> QED
    BY <1>2, <2>1, <2>2, <2>4 DEF Right
<1> QED
  BY <1>2, <1>5 DEF MarksInv

\* What the server answers.
LEMMA MarkedTells ==
  ASSUME NEW p PROVE /\ Tells(db.fav, Marked(p)) /\ Marked(p).post = p
                     /\ p \in DOMAIN db.fav => Marked(p).on
<1>1. PICK on, id, m : /\ on = (p \in DOMAIN db.fav)
                       /\ id = (IF on THEN db.fav[p] ELSE 0)
                       /\ m = [post |-> p, on |-> on, id |-> id]
  OBVIOUS
<1>2. on <=> p \in DOMAIN db.fav
  BY <1>1, Zenon
<1>3. m = Marked(p)
  <2>1. id = IF p \in DOMAIN db.fav THEN db.fav[p] ELSE 0
    BY <1>1, <1>2
  <2> QED
    BY <1>1, <2>1, Zenon DEF Marked
<1>4. m.post = p /\ m.on = on /\ m.id = id
  BY <1>1
<1>5. Tells(db.fav, m)
  BY <1>1, <1>2, <1>4 DEF Tells
<1> QED
  BY <1>2, <1>3, <1>4, <1>5

LEMMA AnswerTells ==
  ASSUME DbOk(db), NEW s, NEW a, ArgOk(a), NEW p PROVE RowsTell(db.fav, s, Answer(s, a), p)
<1>1. PICK posts, rows : posts = Page(Matching(s, a.listing), a.page) /\ rows = Answer(s, a)
  OBVIOUS
<1>2. PageOf(s, posts)
  BY <1>1, PagePosts
<1>3. rows = [i \in DOMAIN posts |-> Marked(posts[i])]
  BY <1>1 DEF Answer
<1>4. ASSUME NEW i \in Rows(rows, p)
      PROVE  Tells(db.fav, rows[i]) /\ (s = "bookmark" => rows[i].on)
  <2>1. i \in DOMAIN posts /\ rows[i] = Marked(posts[i])
    BY <1>3, <1>4 DEF Rows
  <2>2. s = "bookmark" => posts[i] \in DOMAIN db.fav
    BY <1>2, <2>1 DEF PageOf
  <2> QED
    BY <2>1, <2>2, MarkedTells
<1>5. AllTell(db.fav, rows, p) /\ (s = "bookmark" => AllOn(rows, p))
  BY <1>4 DEF AllTell, AllOn
<1> QED
  BY <1>1, <1>5 DEF RowsTell

LEMMA BecomesMarks ==
  ASSUME IInv, MarksInv, NEW s \in Screen, NEW l \in DOMAIN load[s], NEW x, Becomes(s, l, x),
         \A p \in db.post \ doubt : RowsTell(db.fav, s, x.rows, p),
         UNCHANGED <<db, list, tap, doubt>>
  PROVE  MarksInv'
<1>1. \A p \in db.post \ doubt : LoadsTell(db.fav, load', p)
  BY SetLoad DEF MarksInv, Right
<1> QED
  BY <1>1, LoadsOnly

LEMMA LoadEventMarks ==
  ASSUME IInv, MarksInv, NEW s \in Screen, NEW l,
         AnswerLoad(s, l) \/ RefuseLoad(s, l) \/ LoseLoad(s, l) \/ RetryLoad(s, l)
  PROVE  MarksInv'
<1>1. l \in DOMAIN load[s] /\ UNCHANGED <<db, list, tap, doubt>>
  BY DEF AnswerLoad, RefuseLoad, LoseLoad, RetryLoad, Awaits
<1>2. PICK x : x = load[s][l]
  OBVIOUS
<1>3. /\ x = [reset |-> x.reset, state |-> x.state, arg |-> x.arg, rows |-> x.rows]
      /\ ArgOk(x.arg)
  BY <1>1, <1>2 DEF IInv, LoadsOk, LoadOk
<1>4. \A p \in db.post \ doubt : RowsTell(db.fav, s, x.rows, p)
  BY <1>1, <1>2 DEF MarksInv, Right, LoadsTell
<1>5. CASE AnswerLoad(s, l)
  <2>1. PICK rows, y : rows = Answer(s, x.arg) /\ y = [x EXCEPT !.state = "OK", !.rows = rows]
    OBVIOUS
  <2>2. Becomes(s, l, y)
    BY <1>2, <1>5, <2>1 DEF AnswerLoad
  <2>3. y.rows = rows
    BY <1>3, <2>1
  <2>4. \A p \in db.post \ doubt : RowsTell(db.fav, s, y.rows, p)
    BY <1>3, <2>1, <2>3, AnswerTells DEF IInv
  <2> QED
    BY <1>1, <2>2, <2>4, BecomesMarks
<1>6. CASE RefuseLoad(s, l) \/ LoseLoad(s, l) \/ RetryLoad(s, l)
  <2>1. CASE load' = [load EXCEPT ![s] = Without(@, {l})]
    <3>1. \A p \in db.post \ doubt : LoadsTell(db.fav, load', p)
      BY <2>1, FewerLoads DEF MarksInv, Right
    <3> QED
      BY <1>1, <3>1, LoadsOnly
  <2>2. CASE ~(load' = [load EXCEPT ![s] = Without(@, {l})])
    <3>1. PICK st, a : Becomes(s, l, [x EXCEPT !.state = st, !.arg = a])
      <4>1. CASE RefuseLoad(s, l)
        <5>1. Becomes(s, l, [x EXCEPT !.state = "NOT_FOUND"])
          BY <1>2, <2>2, <4>1 DEF RefuseLoad
        <5>2. [x EXCEPT !.state = "NOT_FOUND"] = [x EXCEPT !.state = "NOT_FOUND", !.arg = x.arg]
          BY <1>3
        <5> QED
          BY <5>1, <5>2
      <4>2. CASE LoseLoad(s, l)
        <5>1. Becomes(s, l, [x EXCEPT !.state = "failed"])
          BY <1>2, <4>2 DEF LoseLoad
        <5>2. [x EXCEPT !.state = "failed"] = [x EXCEPT !.state = "failed", !.arg = x.arg]
          BY <1>3
        <5> QED
          BY <5>1, <5>2
      <4>3. CASE RetryLoad(s, l)
        BY <1>2, <4>3 DEF RetryLoad
      <4> QED
        BY <1>6, <4>1, <4>2, <4>3
    <3>2. PICK y : y = [x EXCEPT !.state = st, !.arg = a]
      OBVIOUS
    <3>3. y.rows = x.rows
      BY <1>3, <3>2
    <3> QED
      BY <1>1, <1>4, <3>1, <3>2, <3>3, BecomesMarks
  <2> QED
    BY <2>1, <2>2
<1> QED
  BY <1>5, <1>6

\* An answer reaches its list.
LEMMA ConcatAt ==
  ASSUME NEW q, IsList(q), NEW r, IsList(r), NEW c, c = q \o r
  PROVE  /\ \A i \in DOMAIN q : i \in DOMAIN c /\ c[i] = q[i]
         /\ \A i \in DOMAIN c :
              \/ i \in DOMAIN q /\ c[i] = q[i]
              \/ i - Len(q) \in DOMAIN r /\ c[i] = r[i - Len(q)]
<1>1. PICK S, T : q \in Seq(S) /\ r \in Seq(T)
  BY DEF IsList
<1>2. q \in Seq(S \cup T) /\ r \in Seq(S \cup T)
  BY <1>1
<1>3. /\ c \in Seq(S \cup T) /\ DOMAIN c = 1..(Len(q) + Len(r))
      /\ Len(q) \in Nat /\ Len(r) \in Nat /\ DOMAIN q = 1..Len(q) /\ DOMAIN r = 1..Len(r)
      /\ \A i \in 1..(Len(q) + Len(r)) : c[i] = IF i <= Len(q) THEN q[i] ELSE r[i - Len(q)]
  BY <1>2, ConcatProperties, LenProperties
<1> QED
  BY <1>3

LEMMA ConcatTells ==
  ASSUME NEW q, IsList(q), NEW r, IsList(r), NEW c, c = q \o r, NEW f, NEW p,
         AllTell(f, r, p)
  PROVE  /\ LoneTells(f, q, p) => LoneTells(f, c, p)
         /\ AllTell(f, q, p) => AllTell(f, c, p)
         /\ AllOn(q, p) /\ AllOn(r, p) => AllOn(c, p)
<1>1. \A i \in Rows(q, p) : i \in Rows(c, p) /\ c[i] = q[i]
  BY ConcatAt DEF Rows
<1>2. ASSUME NEW i \in Rows(c, p)
      PROVE  \/ i \in Rows(q, p) /\ c[i] = q[i]
             \/ i - Len(q) \in Rows(r, p) /\ c[i] = r[i - Len(q)]
  BY ConcatAt DEF Rows
<1>3. ASSUME LoneTells(f, q, p), NEW i \in Rows(c, p), Rows(c, p) = {i} PROVE Tells(f, c[i])
  <2>1. CASE i \in Rows(q, p) /\ c[i] = q[i]
    <3>1. Rows(q, p) = {i}
      BY <1>1, <1>3, <2>1
    <3> QED
      BY <1>3, <2>1, <3>1 DEF LoneTells
  <2>2. CASE i - Len(q) \in Rows(r, p) /\ c[i] = r[i - Len(q)]
    BY <2>2 DEF AllTell
  <2> QED
    BY <1>2, <1>3, <2>1, <2>2
<1> QED
  BY <1>2, <1>3 DEF LoneTells, AllTell, AllOn

LEMMA ReceiveLoadMarks ==
  ASSUME IInv, MarksInv, NEW s \in Screen, NEW l, ReceiveLoad(s, l) PROVE MarksInv'
<1>1. PICK x, b, q : /\ x = load[s][l] /\ b = (IF x.reset THEN <<>> ELSE list[s])
                     /\ q = IF x.state = "NOT_FOUND" THEN <<>> ELSE b \o x.rows
  OBVIOUS
<1>2. /\ l \in DOMAIN load[s] /\ UNCHANGED <<db, tap>>
      /\ load' = [load EXCEPT ![s] = Without(@, {l})]
      /\ doubt' = doubt \cup Twice(list'["bookmark"])
  BY DEF ReceiveLoad
<1>3. list' = [list EXCEPT ![s] = q]
  BY <1>1 DEF ReceiveLoad, IInv, ListsOk
<1>4. list = [t \in Screen |-> list[t]] /\ IsList(list[s]) /\ IsList(x.rows) /\ IsList(<<>>)
  BY <1>1, <1>2, EmptyFits DEF IInv, ListsOk, LoadsOk, LoadOk, Fits
<1>5. ASSUME NEW p \in db.post \ doubt' PROVE Right(p)'
  <2>1. /\ ListsTell(db.fav, list, tap, p) /\ LoadsTell(db.fav, load, p)
        /\ TapTells(db.fav, tap, p)
    BY <1>2, <1>5 DEF MarksInv, Right
  <2>2. LoadsTell(db.fav, load', p)
    BY <1>2, <2>1, FewerLoads
  <2>3. RowsTell(db.fav, s, x.rows, p)
    BY <1>1, <1>2, <2>1 DEF LoadsTell
  <2>4. Lone(list'["bookmark"], p)
    <3>1. p \in Post
      BY <1>5, BoundAssumption DEF IInv, DbOk, Post
    <3>2. p \notin Twice(list'["bookmark"])
      BY <1>2, <1>5
    <3> QED
      BY <3>1, <3>2 DEF Twice, Lone
  <2>5. ~Coming(tap, p) => LoneTells(db.fav, list'["all"], p)
    <3>1. CASE s = "all"
      <4>1. list'["all"] = q
        BY <1>3, <1>4, <3>1
      <4>2. ~Coming(tap, p) => LoneTells(db.fav, b, p)
        BY <1>1, <2>1, <3>1, EmptyTells DEF ListsTell
      <4>3. IsList(b)
        BY <1>1, <1>4
      <4>4. AllTell(db.fav, x.rows, p)
        BY <2>3 DEF RowsTell
      <4>5. LoneTells(db.fav, b, p) => LoneTells(db.fav, b \o x.rows, p)
        BY <1>4, <4>3, <4>4, ConcatTells
      <4> QED
        BY <1>1, <4>1, <4>2, <4>5, EmptyTells
    <3>2. CASE s # "all"
      <4>1. list'["all"] = list["all"]
        BY <1>3, <1>4, <3>2 DEF Screen
      <4> QED
        BY <2>1, <4>1 DEF ListsTell
    <3> QED
      BY <3>1, <3>2
  <2>6. ~(Coming(tap, p) /\ tap.item.on) => RowsTell(db.fav, "bookmark", list'["bookmark"], p)
    <3>1. CASE s = "bookmark"
      <4>1. list'["bookmark"] = q
        BY <1>3, <1>4, <3>1
      <4>2. ~(Coming(tap, p) /\ tap.item.on) => RowsTell(db.fav, "bookmark", b, p)
        BY <1>1, <2>1, <3>1, EmptyTells DEF ListsTell
      <4>3. IsList(b)
        BY <1>1, <1>4
      <4>4. AllTell(db.fav, x.rows, p) /\ AllOn(x.rows, p)
        BY <2>3, <3>1 DEF RowsTell
      <4>5. RowsTell(db.fav, "bookmark", b, p) => RowsTell(db.fav, "bookmark", b \o x.rows, p)
        BY <1>4, <4>3, <4>4, ConcatTells DEF RowsTell
      <4> QED
        BY <1>1, <4>1, <4>2, <4>5, EmptyTells
    <3>2. CASE s # "bookmark"
      <4>1. list'["bookmark"] = list["bookmark"]
        BY <1>3, <1>4, <3>2 DEF Screen
      <4> QED
        BY <2>1, <4>1 DEF ListsTell
    <3> QED
      BY <3>1, <3>2
  <2> QED
    BY <1>2, <2>1, <2>2, <2>4, <2>5, <2>6 DEF Right, ListsTell
<1> QED
  BY <1>2, <1>5 DEF MarksInv

-------------------------------------------------------------------------------
(* The bookmark request.                                                     *)

\* While no answer to it is there, the request does not matter.
LEMMA NotComing ==
  ASSUME MarksInv, UNCHANGED <<db, list, load>>, doubt \subseteq doubt',
         \A p \in db.post \ doubt' : ~Coming(tap, p) /\ ~Coming(tap', p)
  PROVE  MarksInv'
<1>1. ASSUME NEW p \in db.post \ doubt' PROVE Right(p)'
  <2>1. Right(p) /\ ~Coming(tap, p) /\ ~Coming(tap', p)
    BY <1>1 DEF MarksInv
  <2> QED
    BY <2>1 DEF Right, ListsTell, TapTells
<1> QED
  BY <1>1 DEF MarksInv

LEMMA TapBookmarkMarks ==
  ASSUME MarksInv, NEW s \in Screen, TapBookmark(s) PROVE MarksInv'
<1>1. tap.state = "idle"
  BY DEF TapBookmark, Untapped
<1>2. PICK i, t : t = [state |-> "sent", screen |-> s, row |-> i, item |-> list[s][i],
                       id |-> 0] /\ tap' = t
  BY DEF TapBookmark
<1>3. tap'.state = "sent"
  BY <1>2
<1> QED
  BY <1>1, <1>3, NotComing DEF TapBookmark, Coming

LEMMA LoseTapMarks == ASSUME MarksInv, LoseTap PROVE MarksInv'
<1>1. tap' = Idle /\ tap'.state # "OK"
  BY DEF LoseTap, Idle
<1>2. \A p \in db.post \ doubt' : ~Coming(tap, p) /\ ~Coming(tap', p)
  BY <1>1 DEF LoseTap, Coming
<1>3. doubt \subseteq doubt' /\ UNCHANGED <<db, list, load>>
  BY DEF LoseTap
<1> QED
  BY <1>2, <1>3, NotComing

LEMMA ReceiveConflictMarks == ASSUME MarksInv, ReceiveConflict PROVE MarksInv'
<1>1. tap' = Idle /\ tap'.state # "OK" /\ tap.state # "OK"
  BY DEF ReceiveConflict, Idle
<1> QED
  BY <1>1, NotComing DEF ReceiveConflict, Coming

LEMMA CrashMarks == ASSUME MarksInv, Crash PROVE MarksInv'
<1>1. /\ list'["all"] = <<>> /\ list'["bookmark"] = <<>>
      /\ \A s \in Screen : DOMAIN load'[s] = {}
  BY DEF Crash, Screen
<1>2. tap'.state # "OK" /\ UNCHANGED <<db, doubt>>
  BY DEF Crash, Idle
<1>3. ASSUME NEW p \in db.post \ doubt PROVE Right(p)'
  BY <1>1, <1>2, EmptyTells DEF Right, ListsTell, LoadsTell, TapTells, Coming
<1> QED
  BY <1>2, <1>3 DEF MarksInv

\* What the server has of a post stays the same.
SameAt(f, g, p) ==
  (p \in DOMAIN f <=> p \in DOMAIN g) /\ (p \in DOMAIN f => f[p] = g[p])

LEMMA SameTells ==
  ASSUME NEW f, NEW g, NEW p, SameAt(f, g, p)
  PROVE  /\ \A q : LoneTells(f, q, p) => LoneTells(g, q, p)
         /\ \A s, q : RowsTell(f, s, q, p) => RowsTell(g, s, q, p)
<1>1. ASSUME NEW x, x.post = p, Tells(f, x) PROVE Tells(g, x)
  BY <1>1 DEF Tells, SameAt
<1>2. \A q : \A i \in Rows(q, p) : q[i].post = p
  BY DEF Rows
<1>3. \A q : LoneTells(f, q, p) => LoneTells(g, q, p)
  BY <1>1, <1>2 DEF LoneTells
<1>4. \A q : AllTell(f, q, p) => AllTell(g, q, p)
  BY <1>1, <1>2 DEF AllTell
<1> QED
  BY <1>3, <1>4 DEF RowsTell

LEMMA SameRight ==
  ASSUME NEW p, Right(p), SameAt(db.fav, db'.fav, p), UNCHANGED <<list, load>>,
         \/ UNCHANGED tap
         \/ ~Coming(tap, p) /\ ~Coming(tap', p)
  PROVE  Right(p)'
<1>1. LoadsTell(db'.fav, load, p)
  BY SameTells DEF Right, LoadsTell
<1>2. ListsTell(db'.fav, list, tap', p)
  BY SameTells DEF Right, ListsTell
<1>3. TapTells(db'.fav, tap', p)
  BY DEF Right, TapTells, SameAt
<1> QED
  BY <1>1, <1>2, <1>3 DEF Right

LEMMA NotInTransit ==
  ASSUME NEW p \in Post, p \notin InTransit, NEW f PROVE LoadsTell(f, load, p)
<1>1. \A s \in Screen : \A l \in DOMAIN load[s] : Rows(load[s][l].rows, p) = {}
  BY DEF InTransit, Rows
<1> QED
  BY <1>1 DEF LoadsTell, RowsTell, AllTell, AllOn

LEMMA SaysItem ==
  ASSUME IInv, tap.state = "sent", NEW st, NEW id, Says(st, id)
  PROVE  tap'.state = st /\ tap'.id = id /\ tap'.item = tap.item
<1>1. PICK t, u : t = tap /\ u = [t EXCEPT !.state = st, !.id = id]
  OBVIOUS
<1>2. t = [state |-> t.state, screen |-> t.screen, row |-> t.row, item |-> t.item, id |-> t.id]
  BY <1>1, TapShape
<1>3. u.state = st /\ u.id = id /\ u.item = t.item
  BY <1>1, <1>2
<1> QED
  BY <1>1, <1>3 DEF Says

LEMMA AnswerAddMarks == ASSUME IInv, MarksInv, AnswerAdd PROVE MarksInv'
<1>1. PICK p, k : p = tap.item.post /\ k = Len(db.issued) + 1
  OBVIOUS
<1>2. /\ tap.state = "sent" /\ ~tap.item.on /\ UNCHANGED <<list, load>>
      /\ doubt' = doubt \cup ({p} \cap InTransit)
  BY <1>1 DEF AnswerAdd
<1>3. CASE UNCHANGED db /\ Says("CONFLICT", 0)
  <2>1. tap'.state = "CONFLICT"
    BY <1>2, <1>3, SaysItem
  <2> QED
    BY <1>2, <1>3, <2>1, NotComing DEF Coming
<1>4. CASE /\ p \in db.post \ DOMAIN db.fav
           /\ db' = [db EXCEPT !.fav = With(@, p, k), !.issued = Append(@, p)]
           /\ Says("OK", k)
  <2>1. PICK g, issued, e : g = With(db.fav, p, k) /\ issued = Append(db.issued, p) /\ e = db'
    OBVIOUS
  <2>2. e = [post |-> db.post, last |-> db.last, fav |-> g, issued |-> issued]
    BY <1>4, <2>1 DEF IInv, DbOk
  <2>3. db'.post = db.post /\ db'.fav = g
    BY <2>1, <2>2
  <2>4. tap'.state = "OK" /\ tap'.id = k /\ tap'.item = tap.item
    BY <1>2, <1>4, SaysItem
  <2>5. p \in DOMAIN g /\ g[p] = k /\ \A r : r # p => SameAt(db.fav, g, r)
    BY <2>1 DEF With, SameAt
  <2>6. ASSUME NEW r \in db.post \ doubt', r # p PROVE Right(r)'
    <3>1. Right(r) /\ ~Coming(tap, r) /\ ~Coming(tap', r)
      BY <1>1, <1>2, <2>4, <2>6 DEF MarksInv, Coming
    <3> QED
      BY <1>2, <2>3, <2>5, <2>6, <3>1, SameRight
  <2>7. ASSUME p \notin doubt' PROVE Right(p)'
    <3>1. Right(p) /\ ~Coming(tap, p)
      BY <1>2, <1>4, <2>7 DEF MarksInv, Coming
    <3>2. Lone(list["bookmark"], p) /\ RowsTell(db.fav, "bookmark", list["bookmark"], p)
      BY <3>1 DEF Right, ListsTell
    <3>3. Rows(list["bookmark"], p) = {}
      BY <1>4, <3>2 DEF RowsTell, AllTell, AllOn, Tells, Rows
    <3>4. RowsTell(g, "bookmark", list["bookmark"], p)
      BY <3>3 DEF RowsTell, AllTell, AllOn
    <3>5. Coming(tap', p)
      BY <1>1, <2>4 DEF Coming
    <3>6. LoadsTell(g, load, p)
      <4>1. p \in Post /\ p \notin InTransit
        BY <1>1, <1>2, <2>7, TapShape DEF Fit
      <4> QED
        BY <4>1, NotInTransit
    <3>7. TapTells(g, tap', p)
      BY <1>2, <2>4, <2>5 DEF TapTells
    <3>8. ListsTell(g, list, tap', p)
      BY <3>2, <3>4, <3>5 DEF ListsTell
    <3> QED
      BY <1>2, <2>3, <3>6, <3>7, <3>8 DEF Right
  <2> QED
    BY <2>3, <2>6, <2>7 DEF MarksInv
<1> QED
  BY <1>1, <1>3, <1>4 DEF AnswerAdd

LEMMA AnswerRemoveMarks == ASSUME IInv, MarksInv, AnswerRemove PROVE MarksInv'
<1>1. PICK p, P, st :
        /\ p = tap.item.post /\ P = {r \in DOMAIN db.fav : db.fav[r] = tap.item.id}
        /\ db' = [db EXCEPT !.fav = Without(@, P)] /\ Says(st, 0)
        /\ st = IF P = {} THEN "CONFLICT" ELSE "OK"
  BY DEF AnswerRemove
<1>2. /\ tap.state = "sent" /\ tap.item.on /\ UNCHANGED <<list, load>>
      /\ doubt' = doubt \cup (P \cap InTransit)
  BY <1>1 DEF AnswerRemove
<1>3. P \subseteq {p}
  <2>1. db.issued[tap.item.id] = p
    BY <1>1, <1>2, TapShape DEF Fit
  <2>2. \A r \in DOMAIN db.fav : db.issued[db.fav[r]] = r
    BY DEF IInv, DbOk
  <2> QED
    BY <1>1, <2>1, <2>2
<1>4. PICK g, e : g = Without(db.fav, P) /\ e = db'
  OBVIOUS
<1>5. e = [post |-> db.post, last |-> db.last, fav |-> g, issued |-> db.issued]
  BY <1>1, <1>4 DEF IInv, DbOk
<1>6. db'.post = db.post /\ db'.fav = g
  BY <1>4, <1>5
<1>7. tap'.state = st /\ tap'.item = tap.item
  BY <1>1, <1>2, SaysItem
<1>8. (\A r : r \notin P => SameAt(db.fav, g, r)) /\ \A r \in P : r \notin DOMAIN g
  BY <1>4 DEF Without, SameAt
<1>9. ASSUME NEW r \in db.post \ doubt', r \notin P PROVE Right(r)'
  <2>1. ~Coming(tap, r)
    BY <1>2 DEF Coming
  <2>2. ~Coming(tap', r)
    <3>1. CASE P = {}
      BY <1>1, <1>7, <3>1 DEF Coming
    <3>2. CASE P # {}
      BY <1>1, <1>3, <1>7, <1>9, <3>2 DEF Coming
    <3> QED
      BY <3>1, <3>2
  <2>3. Right(r)
    BY <1>2, <1>9 DEF MarksInv
  <2> QED
    BY <1>2, <1>6, <1>8, <1>9, <2>1, <2>2, <2>3, SameRight
<1>10. ASSUME NEW r \in db.post \ doubt', r \in P PROVE Right(r)'
  <2>1. r = p /\ tap'.state = "OK"
    BY <1>1, <1>3, <1>7, <1>10
  <2>2. Right(r) /\ ~Coming(tap, r) /\ Coming(tap', r) /\ tap'.item.on
    BY <1>1, <1>2, <1>7, <1>10, <2>1 DEF MarksInv, Coming
  <2>3. ListsTell(g, list, tap', r)
    BY <2>2 DEF Right, ListsTell
  <2>4. LoadsTell(g, load, r)
    <3>1. r \in Post /\ r \notin InTransit
      BY <1>1, <1>2, <1>10, <2>1, TapShape DEF Fit
    <3> QED
      BY <3>1, NotInTransit
  <2>5. TapTells(g, tap', r)
    BY <1>8, <1>10, <2>2 DEF TapTells
  <2> QED
    BY <1>2, <1>6, <2>3, <2>4, <2>5 DEF Right
<1> QED
  BY <1>6, <1>9, <1>10 DEF MarksInv

-------------------------------------------------------------------------------
(* Its answer reaches the lists.                                             *)

\* What the list of bookmarks knows of a post.
Good(f, q, p) == Lone(q, p) /\ RowsTell(f, "bookmark", q, p)

LEMMA NoRowsGood == ASSUME NEW f, NEW q, NEW p, Rows(q, p) = {} PROVE Good(f, q, p)
BY DEF Good, Lone, RowsTell, AllTell, AllOn

LEMMA RemovedAt ==
  ASSUME NEW q, IsList(q), NEW k \in DOMAIN q, NEW r, r = RemoveAt(q, k)
  PROVE  \A i \in DOMAIN r : \E j \in DOMAIN q :
           j = (IF i < k THEN i ELSE i + 1) /\ j # k /\ i \in Nat /\ r[i] = q[j]
<1>1. PICK S : q \in Seq(S)
  BY DEF IsList
<1>2. Len(q) \in Nat /\ DOMAIN q = 1..Len(q) /\ k \in 1..Len(q)
  BY <1>1, LenProperties
<1>3. PICK a, b : a = SubSeq(q, 1, k - 1) /\ b = SubSeq(q, k + 1, Len(q))
  OBVIOUS
<1>4. r = a \o b
  BY <1>3 DEF RemoveAt
<1>5. \A i \in 1..Len(q) : q[i] \in S
  BY <1>1, <1>2, ElementOfSeq
<1>6. /\ a \in Seq(S) /\ Len(a) = k - 1
      /\ \A i \in 1..(k - 1) : a[i] = q[i]
  <2>1. 1 \in Int /\ k - 1 \in Int /\ \A i \in 1..(k - 1) : q[i] \in S
    BY <1>2, <1>5
  <2>2. /\ a \in Seq(S) /\ Len(a) = IF 1 <= k - 1 THEN k - 1 - 1 + 1 ELSE 0
        /\ \A i \in 1..(k - 1 - 1 + 1) : a[i] = q[1 + i - 1]
    BY <1>3, <2>1, SubSeqProperties
  <2> QED
    BY <1>2, <2>2
<1>7. /\ b \in Seq(S) /\ Len(b) = Len(q) - k
      /\ \A i \in 1..(Len(q) - k) : b[i] = q[k + i]
  <2>1. k + 1 \in Int /\ Len(q) \in Int /\ \A i \in (k + 1)..Len(q) : q[i] \in S
    BY <1>2, <1>5
  <2>2. /\ b \in Seq(S) /\ Len(b) = IF k + 1 <= Len(q) THEN Len(q) - (k + 1) + 1 ELSE 0
        /\ \A i \in 1..(Len(q) - (k + 1) + 1) : b[i] = q[k + 1 + i - 1]
    BY <1>3, <2>1, SubSeqProperties
  <2> QED
    BY <1>2, <2>2
<1>8. /\ DOMAIN r = 1..(Len(a) + Len(b))
      /\ \A i \in 1..(Len(a) + Len(b)) : r[i] = IF i <= Len(a) THEN a[i] ELSE b[i - Len(a)]
  <2>1. /\ Len(r) = Len(a) + Len(b) /\ r \in Seq(S)
        /\ \A i \in 1..(Len(a) + Len(b)) : r[i] = IF i <= Len(a) THEN a[i] ELSE b[i - Len(a)]
    BY <1>4, <1>6, <1>7, ConcatProperties
  <2> QED
    BY <2>1, LenProperties
<1>9. ASSUME NEW i \in DOMAIN r
      PROVE  \E j \in DOMAIN q :
               j = (IF i < k THEN i ELSE i + 1) /\ j # k /\ i \in Nat /\ r[i] = q[j]
  <2>1. i \in 1..(Len(q) - 1)
    BY <1>2, <1>6, <1>7, <1>8, <1>9
  <2>2. CASE i < k
    <3>1. i \in DOMAIN q /\ i # k /\ r[i] = q[i]
      BY <1>2, <1>6, <1>7, <1>8, <1>9, <2>1, <2>2
    <3> QED
      BY <2>1, <2>2, <3>1
  <2>3. CASE ~(i < k)
    <3>1. i - (k - 1) \in 1..(Len(q) - k) /\ r[i] = b[i - (k - 1)]
      BY <1>2, <1>6, <1>7, <1>8, <1>9, <2>1, <2>3
    <3>2. r[i] = q[k + (i - (k - 1))] /\ k + (i - (k - 1)) = i + 1
      BY <1>2, <1>7, <2>1, <3>1
    <3>3. i + 1 \in DOMAIN q /\ i + 1 # k
      BY <1>2, <2>1, <2>3
    <3> QED
      BY <2>1, <2>3, <3>2, <3>3
  <2> QED
    BY <2>2, <2>3
<1> QED
  BY <1>9

LEMMA RemovedGood ==
  ASSUME NEW q, IsList(q), NEW k \in DOMAIN q, NEW r, r = RemoveAt(q, k), NEW f, NEW p
  PROVE  /\ Lone(q, p) => Lone(r, p)
         /\ Good(f, q, p) => Good(f, r, p)
         /\ Lone(q, p) /\ k \in Rows(q, p) => Rows(r, p) = {}
<1>1. k \in Nat
  BY ListFacts
<1>2. ASSUME NEW i \in Rows(r, p)
      PROVE  \E j \in Rows(q, p) :
               j = (IF i < k THEN i ELSE i + 1) /\ j # k /\ i \in Nat /\ r[i] = q[j]
  BY <1>2, RemovedAt DEF Rows
<1>3. ASSUME Lone(q, p), NEW i \in Rows(r, p), NEW j \in Rows(r, p) PROVE i = j
  <2>1. PICK i2 \in Rows(q, p) : i2 = (IF i < k THEN i ELSE i + 1) /\ i \in Nat
    BY <1>2
  <2>2. PICK j2 \in Rows(q, p) : j2 = (IF j < k THEN j ELSE j + 1) /\ j \in Nat
    BY <1>2
  <2>3. i2 = j2
    BY <1>3 DEF Lone
  <2> QED
    BY <1>1, <2>1, <2>2, <2>3
<1>4. AllTell(f, q, p) => AllTell(f, r, p)
  BY <1>2 DEF AllTell
<1>5. AllOn(q, p) => AllOn(r, p)
  BY <1>2 DEF AllOn
<1>6. Lone(q, p) => Lone(r, p)
  BY <1>3 DEF Lone
<1>7. Lone(q, p) /\ k \in Rows(q, p) => Rows(r, p) = {}
  BY <1>2 DEF Lone
<1> QED
  BY <1>4, <1>5, <1>6, <1>7 DEF Good, RowsTell

LEMMA AppendedGood ==
  ASSUME NEW q, IsList(q), NEW m, NEW f, NEW p,
         m.post # p \/ (Rows(q, p) = {} /\ m.on /\ Tells(f, m))
  PROVE  Good(f, q, p) => Good(f, Append(q, m), p)
<1>1. PICK r, n : r = Append(q, m) /\ n = Len(q) + 1
  OBVIOUS
<1>2. /\ DOMAIN r = DOMAIN q \cup {n} /\ r[n] = m /\ n \notin DOMAIN q
      /\ \A i \in DOMAIN q : r[i] = q[i]
  BY <1>1, AppendList
<1>3. CASE m.post # p
  <2>1. Rows(r, p) = Rows(q, p) /\ \A i \in Rows(q, p) : r[i] = q[i]
    BY <1>2, <1>3 DEF Rows
  <2> QED
    BY <1>1, <2>1 DEF Good, Lone, RowsTell, AllTell, AllOn
<1>4. CASE m.post = p
  <2>1. Rows(r, p) = {n}
    BY <1>2, <1>4 DEF Rows
  <2> QED
    BY <1>1, <1>2, <1>4, <2>1 DEF Good, Lone, RowsTell, AllTell, AllOn
<1> QED
  BY <1>3, <1>4

LEMMA NotedGood ==
  ASSUME NEW q, IsList(q), NEW m, m.on \in BOOLEAN, NEW f, NEW p, NEW r,
         r = Noted("bookmark", q, m),
         \/ m.post # p /\ Good(f, q, p)
         \/ m.post = p /\ m.on /\ Tells(f, m) /\ Good(f, q, p)
         \/ m.post = p /\ ~m.on /\ Lone(q, p)
  PROVE  Good(f, r, p) /\ (m.post = p /\ ~m.on => Rows(r, p) = {})
<1>1. PICK S : S = Rows(q, m.post)
  OBVIOUS
<1>2. CASE m.on /\ S = {}
  <2>1. r = Append(q, m)
    BY <1>1, <1>2 DEF Noted
  <2> QED
    BY <1>1, <1>2, <2>1, AppendedGood
<1>3. CASE ~m.on /\ S # {}
  <2>1. r = RemoveAt(q, First(S))
    BY <1>1, <1>3 DEF Noted
  <2>2. S \subseteq DOMAIN q /\ DOMAIN q \subseteq Nat
    <3>1. S \subseteq DOMAIN q
      BY <1>1 DEF Rows
    <3>2. Len(q) \in Nat /\ DOMAIN q = 1..Len(q)
      BY ListFacts
    <3> QED
      BY <3>1, <3>2
  <2>3. First(S) \in S
    BY <1>3, <2>2, FirstIn
  <2>4. First(S) \in DOMAIN q
    BY <2>2, <2>3
  <2>5. CASE m.post # p
    BY <2>1, <2>4, <2>5, RemovedGood
  <2>6. CASE m.post = p
    <3>1. First(S) \in Rows(q, p) /\ Lone(q, p)
      BY <1>1, <1>3, <2>3, <2>6
    <3>2. Rows(r, p) = {}
      BY <2>1, <2>4, <3>1, RemovedGood
    <3> QED
      BY <3>2, NoRowsGood
  <2> QED
    BY <2>5, <2>6
<1>4. CASE ~(m.on /\ S = {}) /\ ~(~m.on /\ S # {})
  <2>1. r = q
    BY <1>1, <1>4 DEF Noted
  <2>2. m.post = p /\ ~m.on => Rows(r, p) = {}
    BY <1>1, <1>4, <2>1
  <2> QED
    BY <2>1, <2>2, NoRowsGood
<1> QED
  BY <1>2, <1>3, <1>4

\* Setting some rows of the post of m.
LEMMA MarkAt ==
  ASSUME NEW d, NEW q, Fits(q, d), NEW m, NEW S, S \subseteq Rows(q, m.post), NEW r,
         r = Mark(q, S, m)
  PROVE  /\ \A p : Rows(r, p) = Rows(q, p)
         /\ \A i \in DOMAIN q : i \notin S => r[i] = q[i]
         /\ \A i \in S : r[i].post = m.post /\ r[i].on = m.on /\ r[i].id = m.id
<1>1. DOMAIN r = DOMAIN q /\ S \subseteq DOMAIN q
  BY DEF Mark, Rows
<1>2. ASSUME NEW i \in DOMAIN q, i \notin S PROVE r[i] = q[i]
  BY <1>2 DEF Mark
<1>3. ASSUME NEW i \in S PROVE r[i].post = m.post /\ r[i].on = m.on /\ r[i].id = m.id
  <2>1. PICK x, on, id, y : /\ x = q[i] /\ on = m.on /\ id = m.id
                            /\ y = [x EXCEPT !.on = on, !.id = id]
    OBVIOUS
  <2>2. r[i] = y
    BY <1>1, <1>3, <2>1 DEF Mark
  <2>3. x = [post |-> x.post, on |-> x.on, id |-> x.id] /\ x.post = m.post
    BY <1>1, <1>3, <2>1 DEF Fits, Fit, Rows
  <2>4. y.post = m.post /\ y.on = on /\ y.id = id
    BY <2>1, <2>3
  <2> QED
    BY <2>1, <2>2, <2>4
<1>4. \A i \in DOMAIN q : r[i].post = q[i].post
  BY <1>1, <1>2, <1>3 DEF Rows
<1> QED
  BY <1>1, <1>2, <1>3, <1>4 DEF Rows

LEMMA MarkGood ==
  ASSUME NEW d, NEW q, Fits(q, d), NEW m, NEW S, S \subseteq Rows(q, m.post), NEW r,
         r = Mark(q, S, m), NEW f, NEW p, Good(f, q, p),
         m.post # p \/ Rows(q, p) = {} \/ (m.on /\ Tells(f, m))
  PROVE  Good(f, r, p)
<1>1. Rows(r, p) = Rows(q, p)
  BY MarkAt
<1>2. CASE Rows(q, p) = {}
  BY <1>1, <1>2, NoRowsGood
<1>3. CASE m.post # p
  <2>1. \A i \in Rows(q, p) : i \in DOMAIN q /\ i \notin S
    BY <1>3 DEF Rows
  <2>2. \A i \in Rows(q, p) : r[i] = q[i]
    BY <2>1, MarkAt
  <2> QED
    BY <1>1, <2>2 DEF Good, Lone, RowsTell, AllTell, AllOn
<1>4. CASE m.post = p /\ m.on /\ Tells(f, m)
  <2>1. ASSUME NEW i \in Rows(q, p) PROVE Tells(f, r[i]) /\ r[i].on
    <3>1. CASE i \in S
      <4>1. r[i].post = m.post /\ r[i].on = m.on /\ r[i].id = m.id
        BY <3>1, MarkAt
      <4> QED
        BY <1>4, <4>1 DEF Tells
    <3>2. CASE i \notin S
      <4>1. r[i] = q[i]
        BY <2>1, <3>2, MarkAt DEF Rows
      <4> QED
        BY <2>1, <4>1 DEF Good, RowsTell, AllTell, AllOn
    <3> QED
      BY <3>1, <3>2
  <2> QED
    BY <1>1, <2>1 DEF Good, Lone, RowsTell, AllTell, AllOn
<1> QED
  BY <1>2, <1>3, <1>4

LEMMA MarkAll ==
  ASSUME NEW d, NEW q, Fits(q, d), NEW m, NEW S \in Touched("all", q, m.post), NEW r,
         r = Mark(q, S, m), NEW f, NEW p,
         \/ m.post # p /\ LoneTells(f, q, p)
         \/ m.post = p /\ Tells(f, m)
  PROVE  LoneTells(f, r, p)
<1>1. S \subseteq Rows(q, m.post) /\ (Rows(q, m.post) # {} => First(Rows(q, m.post)) \in S)
  BY DEF Touched
<1>2. Rows(r, p) = Rows(q, p)
  BY <1>1, MarkAt
<1>3. CASE m.post # p
  <2>1. \A i \in Rows(q, p) : i \in DOMAIN q /\ i \notin S
    BY <1>1, <1>3 DEF Rows
  <2>2. \A i \in Rows(q, p) : r[i] = q[i]
    BY <1>1, <2>1, MarkAt
  <2> QED
    BY <1>2, <1>3, <2>2 DEF LoneTells
<1>4. CASE m.post = p
  <2>1. ASSUME NEW i \in Rows(r, p), Rows(r, p) = {i} PROVE Tells(f, r[i])
    <3>1. Rows(q, m.post) = {i} /\ Rows(q, m.post) \subseteq Nat
      <4>1. Rows(q, m.post) = {i}
        BY <1>2, <1>4, <2>1
      <4>2. Len(q) \in Nat /\ DOMAIN q = 1..Len(q)
        BY ListFacts DEF Fits
      <4>3. Rows(q, m.post) \subseteq DOMAIN q
        BY DEF Rows
      <4> QED
        BY <4>1, <4>2, <4>3
    <3>2. First(Rows(q, m.post)) = i
      BY <3>1, FirstIn
    <3>3. i \in S
      BY <1>1, <3>1, <3>2
    <3>4. r[i].post = m.post /\ r[i].on = m.on /\ r[i].id = m.id
      BY <1>1, <3>3, MarkAt
    <3> QED
      BY <1>4, <3>4 DEF Tells
  <2> QED
    BY <2>1 DEF LoneTells
<1> QED
  BY <1>3, <1>4

LEMMA ReceiveTapMarks == ASSUME IInv, MarksInv, ReceiveTap PROVE MarksInv'
<1>1. PICK ls, m, r : ls = Dropped /\ m = Toggled /\ r = tap.item.post
  OBVIOUS
<1>2. /\ tap.state = "OK" /\ ~RowGone /\ Notify(ls, m) /\ tap' = Idle
      /\ UNCHANGED <<db, load, doubt>>
  BY <1>1 DEF ReceiveTap
<1>3. ListsOk(ls, db) /\ Fit(m, db)
  BY <1>1, <1>2, DroppedOk, ToggledFits
<1>4. m.post = r /\ (m.on <=> ~tap.item.on) /\ m.id = tap.id
  <2>1. PICK x, id, on, y : /\ x = tap.item /\ id = tap.id /\ on = ~x.on
                            /\ y = [x EXCEPT !.on = on, !.id = id]
    OBVIOUS
  <2>2. y = m
    BY <1>1, <2>1 DEF Toggled
  <2>3. Fit(x, db)
    BY <1>2, <2>1, TapShape
  <2>4. y.post = x.post /\ y.on = on /\ y.id = id
    BY <2>1, <2>3 DEF Fit
  <2> QED
    BY <1>1, <2>1, <2>2, <2>4
<1>5. PICK a \in Lists("all", ls["all"], m), b \in Lists("bookmark", ls["bookmark"], m) :
        list' = [s \in Screen |-> IF s = "all" THEN a ELSE b]
  BY <1>2 DEF Notify
<1>6. list'["all"] = a /\ list'["bookmark"] = b
  BY <1>5 DEF Screen
<1>7. PICK S \in Touched("all", ls["all"], m.post) : a = Mark(ls["all"], S, m)
  <2>1. Noted("all", ls["all"], m) = ls["all"]
    BY DEF Noted
  <2> QED
    BY <2>1 DEF Lists
<1>8. PICK q, T : /\ q = Noted("bookmark", ls["bookmark"], m)
                  /\ T \in Touched("bookmark", q, m.post) /\ b = Mark(q, T, m)
  BY DEF Lists
<1>9. T \subseteq Rows(q, m.post)
  BY <1>8 DEF Touched
<1>10. Fits(ls["all"], db) /\ Fits(ls["bookmark"], db) /\ Fits(q, db)
  <2>1. Fits(ls["all"], db) /\ Fits(ls["bookmark"], db)
    BY <1>3 DEF ListsOk, Screen
  <2> QED
    BY <1>3, <1>8, <2>1, NotedFits
<1>11. /\ ls["all"] = list["all"]
       /\ \/ ls["bookmark"] = list["bookmark"]
          \/ /\ tap.row \in DOMAIN list["bookmark"]
             /\ ls["bookmark"] = RemoveAt(list["bookmark"], tap.row)
  <2>1. CASE tap.screen = "all"
    BY <1>1, <2>1 DEF Dropped
  <2>2. CASE tap.screen # "all"
    <3>1. tap.screen = "bookmark"
      BY <1>2, <2>2, TapShape DEF Screen
    <3>2. tap.row \in DOMAIN list["bookmark"]
      BY <1>2, <3>1 DEF RowGone
    <3>3. PICK c : c = RemoveAt(list["bookmark"], tap.row)
      OBVIOUS
    <3>4. ls = [list EXCEPT !["bookmark"] = c]
      BY <1>1, <2>2, <3>3 DEF Dropped
    <3>5. list = [s \in Screen |-> list[s]]
      BY DEF IInv, ListsOk
    <3> QED
      BY <3>2, <3>3, <3>4, <3>5 DEF Screen
  <2> QED
    BY <2>1, <2>2
<1>12. IsList(list["bookmark"]) /\ IsList(ls["bookmark"])
  BY <1>10 DEF IInv, ListsOk, Fits, Screen
<1>13. ASSUME NEW p \in db.post \ doubt PROVE Right(p)'
  <2>1. /\ ListsTell(db.fav, list, tap, p) /\ LoadsTell(db.fav, load, p)
        /\ TapTells(db.fav, tap, p)
    BY <1>13 DEF MarksInv, Right
  <2>2. Coming(tap, p) <=> m.post = p
    BY <1>1, <1>2, <1>4 DEF Coming
  <2>3. m.post = p => Tells(db.fav, m)
    BY <1>4, <2>1, <2>2 DEF TapTells, Tells
  <2>4. LoneTells(db.fav, a, p)
    <3>1. m.post # p => LoneTells(db.fav, ls["all"], p)
      BY <1>11, <2>1, <2>2 DEF ListsTell
    <3> QED
      BY <1>7, <1>10, <2>3, <3>1, MarkAll
  <2>5. Lone(ls["bookmark"], p)
    BY <1>11, <1>12, <2>1, RemovedGood DEF ListsTell
  <2>6. ~(m.post = p /\ ~m.on) => Good(db.fav, ls["bookmark"], p)
    <3>1. ~(m.post = p /\ ~m.on) => Good(db.fav, list["bookmark"], p)
      BY <1>4, <2>1, <2>2 DEF ListsTell, Good
    <3> QED
      BY <1>11, <1>12, <3>1, RemovedGood
  <2>7. Good(db.fav, q, p) /\ (m.post = p /\ ~m.on => Rows(q, p) = {})
    <3>1. m.on \in BOOLEAN
      BY <1>3 DEF Fit
    <3> QED
      BY <1>8, <1>12, <2>3, <2>5, <2>6, <3>1, NotedGood
  <2>8. Good(db.fav, b, p)
    BY <1>8, <1>9, <1>10, <2>3, <2>7, MarkGood
  <2>9. ~Coming(tap', p)
    BY <1>2 DEF Coming, Idle
  <2> QED
    BY <1>2, <1>6, <2>1, <2>4, <2>8, <2>9 DEF Right, ListsTell, TapTells, Good
<1> QED
  BY <1>2, <1>13 DEF MarksInv

-------------------------------------------------------------------------------
(* Other users.                                                              *)

\* Nobody has a row of a post that is yet to be created.
LEMMA Unknown ==
  ASSUME IInv, NEW p, \A n \in Nat : n <= db.last => n # p PROVE Right(p)
<1>1. \A q : Fits(q, db) => Rows(q, p) = {}
  <2>1. \A x : Fit(x, db) => x.post # p
    BY BoundAssumption DEF Fit, Post
  <2> QED
    BY <2>1 DEF Fits, Rows
<1>2. Rows(list["all"], p) = {} /\ Rows(list["bookmark"], p) = {}
  BY <1>1 DEF IInv, ListsOk, Screen
<1>3. \A s \in Screen : \A l \in DOMAIN load[s] : Rows(load[s][l].rows, p) = {}
  BY <1>1 DEF IInv, LoadsOk, LoadOk
<1>4. ~Coming(tap, p)
  BY TapShape, BoundAssumption DEF Coming, Fit, Post
<1>5. LoadsTell(db.fav, load, p)
  BY <1>3 DEF LoadsTell, RowsTell, AllTell, AllOn
<1>6. ListsTell(db.fav, list, tap, p)
  BY <1>2 DEF ListsTell, LoneTells, Lone, RowsTell, AllTell, AllOn
<1> QED
  BY <1>4, <1>5, <1>6 DEF Right, TapTells

LEMMA PublishMarks == ASSUME IInv, MarksInv, Publish PROVE MarksInv'
<1>1. PICK post, last, e : post = db.post \cup {db.last + 1} /\ last = db.last + 1 /\ e = db'
  OBVIOUS
<1>2. UNCHANGED <<list, load, tap, doubt>> /\ db' = [db EXCEPT !.post = post, !.last = last]
  BY <1>1 DEF Publish
<1>3. e = [post |-> post, last |-> last, fav |-> db.fav, issued |-> db.issued]
  BY <1>1, <1>2 DEF IInv, DbOk
<1>4. db'.post = post /\ db'.fav = db.fav
  BY <1>1, <1>3
<1>5. ASSUME NEW p \in db'.post \ doubt PROVE Right(p)
  <2>1. CASE p \in db.post
    BY <1>5, <2>1 DEF MarksInv
  <2>2. CASE p \notin db.post
    <3>1. p = db.last + 1 /\ db.last \in Nat
      BY <1>1, <1>4, <1>5, <2>2, DbFacts DEF IInv
    <3>2. \A n \in Nat : n <= db.last => n # p
      BY <3>1
    <3> QED
      BY <3>2, Unknown
  <2> QED
    BY <2>1, <2>2
<1>6. ASSUME NEW p \in db'.post \ doubt PROVE Right(p)'
  BY <1>2, <1>4, <1>5, <1>6, SameRight DEF SameAt
<1> QED
  BY <1>2, <1>6 DEF MarksInv

LEMMA WithdrawMarks == ASSUME IInv, MarksInv, Withdraw PROVE MarksInv'
<1>1. PICK p \in db.post : db' = [db EXCEPT !.post = @ \ {p}, !.fav = Without(@, {p})]
  BY DEF Withdraw
<1>2. UNCHANGED <<list, load, tap, doubt>>
  BY DEF Withdraw
<1>3. PICK g, e : g = Without(db.fav, {p}) /\ e = db'
  OBVIOUS
<1>4. e = [post |-> db.post \ {p}, last |-> db.last, fav |-> g, issued |-> db.issued]
  BY <1>1, <1>3 DEF IInv, DbOk
<1>5. db'.post = db.post \ {p} /\ db'.fav = g
  BY <1>3, <1>4
<1>6. \A r : r # p => SameAt(db.fav, g, r)
  BY <1>3 DEF Without, SameAt
<1>7. ASSUME NEW r \in db'.post \ doubt PROVE Right(r)'
  <2>1. r # p /\ Right(r)
    BY <1>5, <1>7 DEF MarksInv
  <2> QED
    BY <1>2, <1>5, <1>6, <2>1, SameRight
<1> QED
  BY <1>2, <1>7 DEF MarksInv

-------------------------------------------------------------------------------
LEMMA MarksInit == Init => MarksInv
BY DEF Init, MarksInv

LEMMA MarksNext == ASSUME IInv, MarksInv, [Next]_vars PROVE MarksInv'
<1>1. ASSUME NEW s \in Screen, Loading(s) PROVE MarksInv'
  BY <1>1, RefreshMarks, ChooseMarks, LoadEventMarks, ReceiveLoadMarks DEF Loading
<1>2. ASSUME NEW s \in Screen, TapBookmark(s) PROVE MarksInv'
  BY <1>2, TapBookmarkMarks
<1>3. CASE Tapping
  BY <1>3, AnswerAddMarks, AnswerRemoveMarks, LoseTapMarks, ReceiveTapMarks,
     ReceiveConflictMarks, CrashMarks DEF Tapping
<1>4. CASE Publish \/ Withdraw
  BY <1>4, PublishMarks, WithdrawMarks
<1>5. CASE UNCHANGED vars
  BY <1>5 DEF vars, MarksInv, Right
<1> QED
  BY <1>1, <1>2, <1>3, <1>4, <1>5 DEF Next

\* When nothing is pending, no answer to the bookmark request is to come.
LEMMA ShownMarks == ASSUME IInv, MarksInv PROVE MarksShown
<1>1. SUFFICES ASSUME Settled, NEW s \in Screen, NEW i \in DOMAIN list[s],
                      NEW x, x = list[s][i], x.post \in db.post \ doubt,
                      Rows(list[s], x.post) = {i}
               PROVE  /\ x.on = (x.post \in DOMAIN db.fav)
                      /\ x.on => x.id = db.fav[x.post]
  BY DEF MarksShown
<1>2. ~Coming(tap, x.post)
  <2>1. CASE tap = Idle
    BY <2>1 DEF Idle, Coming
  <2>2. CASE tap # Idle
    <3>1. tap.screen \in Screen /\ tap.state # "idle"
      BY <2>2 DEF IInv, TapOk
    <3> QED
      BY <1>1, <3>1 DEF Settled, Uncovered, Untapped
  <2> QED
    BY <2>1, <2>2
<1>3. ListsTell(db.fav, list, tap, x.post)
  BY <1>1 DEF MarksInv, Right
<1>4. i \in Rows(list[s], x.post)
  BY <1>1
<1>5. Tells(db.fav, x)
  <2>1. CASE s = "all"
    BY <1>1, <1>2, <1>3, <1>4, <2>1 DEF ListsTell, LoneTells
  <2>2. CASE s = "bookmark"
    BY <1>1, <1>2, <1>3, <1>4, <2>2 DEF ListsTell, RowsTell, AllTell
  <2> QED
    BY <2>1, <2>2 DEF Screen
<1>6. x.on \in BOOLEAN
  BY <1>1 DEF IInv, ListsOk, Fits, Fit
<1>7. PICK on : on = x.on
  OBVIOUS
<1>8. on \in BOOLEAN /\ (on <=> x.post \in DOMAIN db.fav)
  BY <1>5, <1>6, <1>7 DEF Tells
<1>9. on = (x.post \in DOMAIN db.fav)
  <2>1. PICK c : c = (x.post \in DOMAIN db.fav)
    OBVIOUS
  <2>2. c \in BOOLEAN
    <3>1. (x.post \in DOMAIN db.fav) \in BOOLEAN
      OBVIOUS
    <3> QED
      BY <2>1, <3>1, Zenon
  <2>3. c <=> x.post \in DOMAIN db.fav
    BY <2>1, Zenon
  <2>4. on = c
    BY <1>8, <2>2, <2>3
  <2> QED
    BY <2>1, <2>4, Zenon
<1> QED
  BY <1>5, <1>7, <1>9 DEF Tells

(* When nothing is pending, both lists show of every post whether the       *)
(* server has it marked, and under which number, unless the post is gone,   *)
(* the list shows it twice, or a request about it was lost or overtook a    *)
(* load: however the tenant scrolls, reorders, filters and marks, and       *)
(* whatever other users create and delete in between (AllVC:                *)
(* didReceiveAddBookmarkNotification, didReceiveRemoveBookmarkNotification, *)
(* roomCVCellDelegate).                                                     *)
THEOREM MarksShownHolds == Spec => []MarksShown
<1>1. Init => IInv /\ MarksInv
  BY InvariantInit, MarksInit
<1>2. IInv /\ MarksInv /\ [Next]_vars => IInv' /\ MarksInv'
  BY InvariantNext, MarksNext
<1>3. IInv /\ MarksInv => MarksShown
  BY ShownMarks
<1> QED
  BY <1>1, <1>2, <1>3, PTL DEF Spec
===============================================================================
