---------------------------- MODULE PostListsProofs ----------------------------
(***************************************************************************)
(* Proof about PostLists, for any number of posts, loads and favourites,   *)
(* and any page size: the types, and that a row that shows a mark carries   *)
(* the number that was issued for the mark of its post.  What a list shows  *)
(* comes from answers that wait, from the model object a request holds, and *)
(* from the other list's notifications: the invariant speaks about all.     *)
(***************************************************************************)
EXTENDS PostLists, SequenceTheorems, WellFoundedInduction, TLAPS

\* A row d's numbers vouch for, and a sequence of such rows.
Fit(m, d) ==
  /\ m = [post |-> m.post, on |-> m.on, id |-> m.id] /\ m.on \in BOOLEAN
  /\ m.post \in Post /\ m.post <= d.last /\ m.id \in Ids \cup {0}
  /\ m.on => m.id \in DOMAIN d.issued /\ d.issued[m.id] = m.post

IsList(q) == \E S : q \in Seq(S)
Fits(q, d) == IsList(q) /\ \A i \in DOMAIN q : Fit(q[i], d)

DbOk(d) ==
  /\ d = [post |-> d.post, last |-> d.last, fav |-> d.fav, issued |-> d.issued]
  /\ d.last \in 0..MaxPost /\ d.post \subseteq 1..d.last
  /\ d.issued \in Seq(Post) /\ Len(d.issued) <= MaxId
  /\ d.fav = [p \in DOMAIN d.fav |-> d.fav[p]] /\ DOMAIN d.fav \subseteq d.post
  /\ \A p \in DOMAIN d.fav : d.fav[p] \in DOMAIN d.issued /\ d.issued[d.fav[p]] = p

ArgOk(a) ==
  a = [listing |-> a.listing, page |-> a.page] /\ a.listing \in Listing /\ a.page \in Nat \ {0}

LoadOk(x, d) ==
  /\ x = [reset |-> x.reset, state |-> x.state, arg |-> x.arg, rows |-> x.rows]
  /\ x.reset \in BOOLEAN /\ x.state \in {"sent", "OK", "NOT_FOUND", "failed"}
  /\ ArgOk(x.arg) /\ Fits(x.rows, d)

ListsOk(ls, d) == ls = [s \in Screen |-> ls[s]] /\ \A s \in Screen : Fits(ls[s], d)
ArgsOk(as)     == as = [s \in Screen |-> as[s]] /\ \A s \in Screen : ArgOk(as[s])
LoadsOk(ld, d) == /\ ld = [s \in Screen |-> ld[s]]
                  /\ \A s \in Screen : /\ ld[s] = [l \in DOMAIN ld[s] |-> ld[s][l]]
                                       /\ DOMAIN ld[s] \subseteq LoadId
                                       /\ \A l \in DOMAIN ld[s] : LoadOk(ld[s][l], d)

\* What the answer to the bookmark request will put into the lists.
TapOk(t, d) ==
  t # Idle =>
    /\ t = [state |-> t.state, screen |-> t.screen, row |-> t.row, item |-> t.item, id |-> t.id]
    /\ t.state \in {"sent", "OK", "CONFLICT"} /\ t.screen \in Screen
    /\ t.row \in Nat \ {0} /\ Fit(t.item, d) /\ t.id \in Ids \cup {0}
    /\ t.state = "OK" /\ ~t.item.on => t.id \in DOMAIN d.issued /\ d.issued[t.id] = t.item.post

IInv ==
  /\ DbOk(db) /\ ListsOk(list, db) /\ ArgsOk(arg) /\ LoadsOk(load, db) /\ TapOk(tap, db)

-------------------------------------------------------------------------------
(* Sequences.                                                                *)

\* The least of some numbers.
LEMMA FirstIn ==
  ASSUME NEW S, S \subseteq Nat, S # {} PROVE First(S) \in S /\ \A j \in S : First(S) <= j
<1>1. \E x \in S : \A y \in S : <<y, x>> \notin OpToRel(<, Nat)
  BY NatLessThanWellFounded, WFMin, Zenon
<1>2. \E x \in S : \A y \in S : ~(y < x)
  <2> SUFFICES ASSUME NEW x \in S, \A y \in S : <<y, x>> \notin OpToRel(<, Nat),
                      NEW y \in S, y < x
               PROVE  FALSE
    BY <1>1, Zenon
  <2> QED
    BY Zenon DEF OpToRel
<1>3. \E i \in S : \A j \in S : i <= j
  BY <1>2
<1> QED
  BY <1>3 DEF First

LEMMA ListFacts ==
  ASSUME NEW q, IsList(q)
  PROVE  Len(q) \in Nat /\ DOMAIN q = 1..Len(q) /\ q \in Seq({q[i] : i \in DOMAIN q})
<1>1. PICK S : q \in Seq(S)
  BY DEF IsList
<1>2. Len(q) \in Nat /\ DOMAIN q = 1..Len(q) /\ q = [i \in 1..Len(q) |-> q[i]]
  BY <1>1, LenProperties
<1>3. q \in Seq({q[i] : i \in DOMAIN q})
  BY <1>2
<1> QED
  BY <1>2, <1>3

LEMMA EmptyFits == ASSUME NEW d PROVE Fits(<<>>, d)
<1>1. <<>> \in Seq({})
  OBVIOUS
<1> QED
  BY <1>1 DEF Fits, IsList

LEMMA ConcatFits ==
  ASSUME NEW d, NEW q, NEW r, Fits(q, d), Fits(r, d) PROVE Fits(q \o r, d)
<1>1. PICK S, T : q \in Seq(S) /\ r \in Seq(T)
  BY DEF Fits, IsList
<1>2. q \in Seq(S \cup T) /\ r \in Seq(S \cup T)
  BY <1>1
<1>3. /\ q \o r \in Seq(S \cup T) /\ DOMAIN (q \o r) = 1..(Len(q) + Len(r))
      /\ Len(q) \in Nat /\ Len(r) \in Nat /\ DOMAIN q = 1..Len(q) /\ DOMAIN r = 1..Len(r)
      /\ \A i \in 1..(Len(q) + Len(r)) : (q \o r)[i] = IF i <= Len(q) THEN q[i] ELSE r[i - Len(q)]
  BY <1>2, ConcatProperties, LenProperties
<1>4. ASSUME NEW i \in DOMAIN (q \o r) PROVE Fit((q \o r)[i], d)
  <2>1. CASE i <= Len(q)
    <3>1. i \in DOMAIN q /\ (q \o r)[i] = q[i]
      BY <1>3, <1>4, <2>1
    <3> QED
      BY <3>1 DEF Fits
  <2>2. CASE ~(i <= Len(q))
    <3>1. i - Len(q) \in DOMAIN r /\ (q \o r)[i] = r[i - Len(q)]
      BY <1>3, <1>4, <2>2
    <3> QED
      BY <3>1 DEF Fits
  <2> QED
    BY <2>1, <2>2
<1> QED
  BY <1>3, <1>4 DEF Fits, IsList

LEMMA AppendList ==
  ASSUME NEW q, IsList(q), NEW m
  PROVE  /\ IsList(Append(q, m)) /\ DOMAIN Append(q, m) = DOMAIN q \cup {Len(q) + 1}
         /\ \A i \in DOMAIN q : Append(q, m)[i] = q[i]
         /\ Append(q, m)[Len(q) + 1] = m
         /\ Len(q) + 1 \notin DOMAIN q
<1>1. PICK S : q \in Seq(S)
  BY DEF IsList
<1>2. q \in Seq(S \cup {m}) /\ m \in S \cup {m}
  BY <1>1
<1>3. /\ Append(q, m) \in Seq(S \cup {m}) /\ Len(Append(q, m)) = Len(q) + 1
      /\ \A i \in 1..Len(q) : Append(q, m)[i] = q[i]
      /\ Append(q, m)[Len(q) + 1] = m
  BY <1>2, AppendProperties
<1>4. Len(q) \in Nat /\ DOMAIN q = 1..Len(q) /\ DOMAIN Append(q, m) = 1..(Len(q) + 1)
  BY <1>2, <1>3, LenProperties
<1> QED
  BY <1>3, <1>4 DEF IsList

LEMMA AppendFits ==
  ASSUME NEW d, NEW q, Fits(q, d), NEW m, Fit(m, d) PROVE Fits(Append(q, m), d)
BY AppendList DEF Fits

LEMMA PartFits ==
  ASSUME NEW d, NEW q, Fits(q, d), NEW m \in Nat \ {0}, NEW n \in Int, n <= Len(q)
  PROVE  Fits(SubSeq(q, m, n), d)
<1>1. PICK S : q \in Seq(S)
  BY DEF Fits, IsList
<1>2. Len(q) \in Nat /\ DOMAIN q = 1..Len(q) /\ \A i \in 1..Len(q) : q[i] \in S
  BY <1>1, LenProperties, ElementOfSeq
<1>3. m \in Int /\ \A i \in m..n : q[i] \in S
  BY <1>2
<1>4. /\ SubSeq(q, m, n) \in Seq(S)
      /\ Len(SubSeq(q, m, n)) = IF m <= n THEN n - m + 1 ELSE 0
      /\ \A i \in 1..(n - m + 1) : SubSeq(q, m, n)[i] = q[m + i - 1]
  BY <1>3, SubSeqProperties
<1>5. DOMAIN SubSeq(q, m, n) = 1..Len(SubSeq(q, m, n))
  BY <1>4, LenProperties
<1>6. ASSUME NEW i \in DOMAIN SubSeq(q, m, n) PROVE Fit(SubSeq(q, m, n)[i], d)
  <2>1. SubSeq(q, m, n)[i] = q[m + i - 1] /\ m + i - 1 \in DOMAIN q
    BY <1>2, <1>4, <1>5, <1>6
  <2> QED
    BY <2>1 DEF Fits
<1> QED
  BY <1>4, <1>6 DEF Fits, IsList

LEMMA RemoveFits ==
  ASSUME NEW d, NEW q, Fits(q, d), NEW i \in DOMAIN q PROVE Fits(RemoveAt(q, i), d)
<1>1. Len(q) \in Nat /\ i \in 1..Len(q)
  BY ListFacts DEF Fits
<1>2. Fits(SubSeq(q, 1, i - 1), d)
  BY <1>1, PartFits
<1>3. Fits(SubSeq(q, i + 1, Len(q)), d)
  BY <1>1, PartFits
<1> QED
  BY <1>2, <1>3, ConcatFits DEF RemoveAt

-------------------------------------------------------------------------------
(* Rows stay good while numbers are only added.                              *)

Grows(d, e) == /\ d.last \in Nat /\ e.last \in Nat /\ d.last <= e.last
               /\ DOMAIN d.issued \subseteq DOMAIN e.issued
               /\ \A k \in DOMAIN d.issued : e.issued[k] = d.issued[k]

LEMMA FitGrows == ASSUME NEW d, NEW e, Grows(d, e), NEW m, Fit(m, d) PROVE Fit(m, e)
<1>1. m.post \in Nat  BY BoundAssumption DEF Fit, Post
<1>2. m.post <= e.last  BY <1>1 DEF Grows, Fit
<1> QED  BY <1>2 DEF Grows, Fit

LEMMA FitsGrows == ASSUME NEW d, NEW e, Grows(d, e), NEW q, Fits(q, d) PROVE Fits(q, e)
BY FitGrows DEF Fits

LEMMA AllGrow ==
  ASSUME NEW d, NEW e, Grows(d, e)
  PROVE  /\ \A ls : ListsOk(ls, d) => ListsOk(ls, e)
         /\ \A ld : LoadsOk(ld, d) => LoadsOk(ld, e)
         /\ \A t : TapOk(t, d) => TapOk(t, e)
<1>1. \A ls : ListsOk(ls, d) => ListsOk(ls, e)
  BY FitsGrows DEF ListsOk
<1>2. \A x : LoadOk(x, d) => LoadOk(x, e)
  BY FitsGrows DEF LoadOk
<1>3. \A ld : LoadsOk(ld, d) => LoadsOk(ld, e)
  BY <1>2 DEF LoadsOk
<1>4. \A t : TapOk(t, d) => TapOk(t, e)
  BY FitGrows DEF TapOk, Grows
<1> QED
  BY <1>1, <1>3, <1>4

\* The chosen elements of a sequence, part by part.
Parts(q, X, n, f) ==
  f = [i \in 0..n |-> IF i = 0 THEN <<>>
                      ELSE IF q[i] \in X THEN Append(f[i - 1], q[i]) ELSE f[i - 1]]

LEMMA PartAt ==
  ASSUME NEW q, NEW X, NEW n, NEW f, Parts(q, X, n, f), NEW i \in 0..n
  PROVE  f[i] = IF i = 0 THEN <<>>
                ELSE IF q[i] \in X THEN Append(f[i - 1], q[i]) ELSE f[i - 1]
<1> DEFINE G(j) == IF j = 0 THEN <<>>
                   ELSE IF q[j] \in X THEN Append(f[j - 1], q[j]) ELSE f[j - 1]
<1>1. f = [j \in 0..n |-> G(j)]  BY DEF Parts
<1> HIDE DEF G
<1>2. f[i] = G(i)  BY <1>1
<1> QED  BY <1>2 DEF G

LEMMA PartsThere == ASSUME NEW q, NEW X, NEW n \in Nat PROVE \E f : Parts(q, X, n, f)
<1> DEFINE Bad == {k \in Nat : ~\E f : Parts(q, X, k, f)}
<1>1. SUFFICES ASSUME Bad # {} PROVE FALSE
  OBVIOUS
<1>2. PICK k \in Bad : \A j \in Bad : k <= j
  BY <1>1, FirstIn
<1>3. k # 0
  <2>1. PICK f : f = [i \in 0..0 |-> <<>>]  OBVIOUS
  <2>2. Parts(q, X, 0, f)  BY <2>1 DEF Parts
  <2> QED  BY <2>2
<1>4. k - 1 \in Nat /\ k - 1 \notin Bad  BY <1>2, <1>3
<1>5. PICK g : Parts(q, X, k - 1, g)  BY <1>4
<1>6. PICK h : h = [i \in 0..k |-> IF i < k THEN g[i]
                                   ELSE IF q[k] \in X THEN Append(g[k - 1], q[k]) ELSE g[k - 1]]
  OBVIOUS
<1>7. ASSUME NEW i \in 0..k
      PROVE  h[i] = IF i = 0 THEN <<>>
                    ELSE IF q[i] \in X THEN Append(h[i - 1], q[i]) ELSE h[i - 1]
  <2>1. CASE i = 0
    <3>1. g[0] = <<>>  BY <1>2, <1>3, <1>5, PartAt
    <3> QED  BY <1>2, <1>3, <1>6, <2>1, <3>1
  <2>2. CASE i # 0 /\ i < k
    <3>1. h[i] = g[i] /\ h[i - 1] = g[i - 1]  BY <1>6, <2>2
    <3>2. g[i] = IF q[i] \in X THEN Append(g[i - 1], q[i]) ELSE g[i - 1]
      BY <1>2, <1>5, <2>2, PartAt
    <3> QED  BY <2>2, <3>1, <3>2
  <2>3. CASE i = k
    <3>1. h[k - 1] = g[k - 1]  BY <1>3, <1>6
    <3> QED  BY <1>3, <1>6, <2>3, <3>1
  <2> QED  BY <2>1, <2>2, <2>3
<1>8. Parts(q, X, k, h)  BY <1>6, <1>7 DEF Parts
<1> QED  BY <1>8

LEMMA PartsTyped ==
  ASSUME NEW T, NEW q \in Seq(T), NEW X, NEW f, Parts(q, X, Len(q), f)
  PROVE  f[Len(q)] \in Seq(T \cap X)
<1> DEFINE Bad == {k \in 0..Len(q) : f[k] \notin Seq(T \cap X)}
<1>1. SUFFICES ASSUME Bad # {} PROVE FALSE
  OBVIOUS
<1>2. PICK k \in Bad : \A j \in Bad : k <= j
  <2>1. Len(q) \in Nat  OBVIOUS
  <2>2. Bad \subseteq Nat  BY <2>1
  <2> QED  BY <1>1, <2>2, FirstIn
<1>3. f[0] = <<>>
  <2>1. PICK i \in 0..Len(q) : i = 0  OBVIOUS
  <2>2. f[i] = <<>>  BY <2>1, PartAt
  <2> QED  BY <2>1, <2>2
<1>4. k # 0
  <2>1. <<>> \in Seq(T \cap X)  OBVIOUS
  <2> QED  BY <1>2, <1>3, <2>1
<1>5. k - 1 \in 0..Len(q) /\ f[k - 1] \in Seq(T \cap X)  BY <1>2, <1>4
<1>6. f[k] = IF q[k] \in X THEN Append(f[k - 1], q[k]) ELSE f[k - 1]
  BY <1>2, <1>4, PartAt
<1>7. q[k] \in T
  <2>1. k \in 1..Len(q)  BY <1>2, <1>4
  <2> QED  BY <2>1, ElementOfSeq
<1>8. f[k] \notin Seq(T \cap X)  BY <1>2
<1> QED
  <2>1. CASE q[k] \in X
    <3>1. q[k] \in T \cap X  BY <1>7, <2>1
    <3>2. Append(f[k - 1], q[k]) \in Seq(T \cap X)  BY <1>5, <3>1
    <3> QED  BY <1>6, <1>8, <2>1, <3>2
  <2>2. CASE q[k] \notin X
    BY <1>5, <1>6, <1>8, <2>2
  <2> QED  BY <2>1, <2>2

LEMMA ChosenTyped ==
  ASSUME NEW T, NEW q \in Seq(T), NEW X PROVE Chosen(q, X) \in Seq(T \cap X)
<1>1. Chosen(q, X) = (CHOOSE f : Parts(q, X, Len(q), f))[Len(q)]
  BY DEF Chosen, Parts
<1>2. PICK f : f = (CHOOSE g : Parts(q, X, Len(q), g))  OBVIOUS
<1>3. Len(q) \in Nat  OBVIOUS
<1>4. Parts(q, X, Len(q), f)  BY <1>2, <1>3, PartsThere
<1> QED  BY <1>1, <1>2, <1>4, PartsTyped

\* What the server answers.
LEMMA MarkedFits == ASSUME DbOk(db), NEW p \in db.post PROVE Fit(Marked(p), db)
<1>1. PICK on, id, m : /\ on = (p \in DOMAIN db.fav)
                       /\ id = (IF on THEN db.fav[p] ELSE 0)
                       /\ m = [post |-> p, on |-> on, id |-> id]
  OBVIOUS
<1>2. m = Marked(p) /\ on \in BOOLEAN
  <2>1. on = (p \in DOMAIN db.fav)
    BY <1>1, Zenon
  <2>2. id = IF p \in DOMAIN db.fav THEN db.fav[p] ELSE 0
    BY <1>1, <2>1
  <2>3. m = [post |-> p, on |-> p \in DOMAIN db.fav,
             id |-> IF p \in DOMAIN db.fav THEN db.fav[p] ELSE 0]
    BY <1>1, <2>1, <2>2, Zenon
  <2>4. on \in BOOLEAN
    <3>1. (p \in DOMAIN db.fav) \in BOOLEAN
      OBVIOUS
    <3> QED
      BY <2>1, <3>1, Zenon
  <2> QED
    BY <2>3, <2>4, Zenon DEF Marked
<1>3. on => id \in DOMAIN db.issued /\ db.issued[id] = p
  BY <1>1 DEF DbOk
<1>4. m = [post |-> m.post, on |-> m.on, id |-> m.id] /\ m.post = p /\ m.on = on /\ m.id = id
  BY <1>1
<1>5. p \in Post /\ p <= db.last  BY BoundAssumption DEF DbOk, Post
<1>6. id \in Ids \cup {0}
  <2>1. on => id \in 1..Len(db.issued)  BY <1>3 DEF DbOk
  <2>2. Len(db.issued) \in Nat /\ Len(db.issued) <= MaxId  BY DEF DbOk
  <2>3. ~on => id = 0  BY <1>1
  <2> QED  BY <2>1, <2>2, <2>3, BoundAssumption DEF Ids
<1> QED
  BY <1>2, <1>3, <1>4, <1>5, <1>6 DEF Fit

\* A page is a part of what matches.
PageOf(s, posts) ==
  /\ Len(posts) \in Nat /\ DOMAIN posts = 1..Len(posts)
  /\ \A i \in DOMAIN posts : posts[i] \in db.post
  /\ s # "all" => \A i \in DOMAIN posts : posts[i] \in DOMAIN db.fav

LEMMA PagePosts ==
  ASSUME DbOk(db), NEW s, NEW a, ArgOk(a), NEW posts,
         posts = Page(Matching(s, a.listing), a.page)
  PROVE  PageOf(s, posts)
<1>1. PICK X : X = IF s = "all" THEN db.post ELSE DOMAIN db.fav  OBVIOUS
<1>2. Shown[a.listing] \in Seq(Post)  BY ShownAssumption DEF ArgOk
<1>3. PICK q : q = Matching(s, a.listing) /\ q \in Seq(Post \cap X)
  BY <1>1, <1>2, ChosenTyped DEF Matching
<1>4. PICK n, m, k : /\ n = a.page /\ m = (n - 1) * PageSize + 1
                     /\ k = Least(n * PageSize, Len(q))
  OBVIOUS
<1>5. n \in Nat \ {0} /\ PageSize \in Nat \ {0} /\ Len(q) \in Nat
  BY <1>3, <1>4, BoundAssumption DEF ArgOk
<1>6. m \in Nat \ {0} /\ k \in Int /\ k <= Len(q)
  <2>1. n * PageSize \in Nat /\ (n - 1) * PageSize \in Nat  BY <1>5
  <2> QED  BY <1>4, <1>5, <2>1 DEF Least
<1>7. \A i \in m..k : i \in 1..Len(q) /\ q[i] \in Post \cap X
  BY <1>3, <1>5, <1>6, ElementOfSeq
<1>8. posts = SubSeq(q, m, k)  BY <1>3, <1>4 DEF Page
<1>9. posts \in Seq(Post \cap X)
  BY <1>6, <1>7, <1>8, SubSeqProperties
<1>10. Len(posts) \in Nat /\ DOMAIN posts = 1..Len(posts)
  BY <1>9, LenProperties
<1>11. \A i \in DOMAIN posts : posts[i] \in X
  BY <1>9, <1>10, ElementOfSeq
<1>12. DOMAIN db.fav \subseteq db.post  BY DEF DbOk
<1> QED
  BY <1>1, <1>10, <1>11, <1>12 DEF PageOf

LEMMA AnswerFits == ASSUME DbOk(db), NEW s, NEW a, ArgOk(a) PROVE Fits(Answer(s, a), db)
<1>1. PICK posts : posts = Page(Matching(s, a.listing), a.page)
  OBVIOUS
<1>2. Len(posts) \in Nat /\ DOMAIN posts = 1..Len(posts)
  BY <1>1, PagePosts DEF PageOf
<1>3. \A i \in DOMAIN posts : posts[i] \in db.post
  <2>1. PageOf(s, posts)
    BY <1>1, PagePosts
  <2> QED
    BY <2>1 DEF PageOf
<1>4. Answer(s, a) = [i \in DOMAIN posts |-> Marked(posts[i])]
  BY <1>1 DEF Answer
<1>5. PICK rows, R : /\ rows = [i \in 1..Len(posts) |-> Marked(posts[i])]
                     /\ R = {Marked(posts[i]) : i \in 1..Len(posts)}
  OBVIOUS
<1>6. rows \in Seq(R)
  BY <1>2, <1>5
<1>7. \A i \in DOMAIN rows : Fit(rows[i], db)
  BY <1>2, <1>3, <1>5, MarkedFits
<1> QED
  BY <1>2, <1>4, <1>5, <1>6, <1>7 DEF Fits, IsList

-------------------------------------------------------------------------------
(* Loads.                                                                    *)

LEMMA LoadSet ==
  ASSUME LoadsOk(load, db), NEW s \in Screen, NEW l \in LoadId, NEW x, LoadOk(x, db),
         load' = [load EXCEPT ![s] = With(@, l, x)]
  PROVE  LoadsOk(load', db)
BY DEF LoadsOk, With

LEMMA LoadBecomes ==
  ASSUME LoadsOk(load, db), NEW s \in Screen, NEW l \in DOMAIN load[s], NEW x, LoadOk(x, db),
         Becomes(s, l, x)
  PROVE  LoadsOk(load', db)
<1>1. PICK f : f = [load[s] EXCEPT ![l] = x]
  OBVIOUS
<1>2. load' = [load EXCEPT ![s] = f]
  BY <1>1 DEF Becomes, LoadsOk
<1>3. /\ DOMAIN f = DOMAIN load[s] /\ f = [k \in DOMAIN f |-> f[k]]
      /\ \A k \in DOMAIN f : LoadOk(f[k], db)
  BY <1>1 DEF LoadsOk
<1> QED
  BY <1>2, <1>3 DEF LoadsOk

LEMMA LoadGone ==
  ASSUME LoadsOk(load, db), NEW s \in Screen, NEW l,
         load' = [load EXCEPT ![s] = Without(@, {l})]
  PROVE  LoadsOk(load', db)
<1>1. PICK f : f = Without(load[s], {l})
  OBVIOUS
<1>2. load' = [load EXCEPT ![s] = f]
  BY <1>1
<1>3. /\ DOMAIN f \subseteq DOMAIN load[s] /\ f = [k \in DOMAIN f |-> f[k]]
      /\ \A k \in DOMAIN f : LoadOk(f[k], db)
  BY <1>1 DEF LoadsOk, Without
<1> QED
  BY <1>2, <1>3 DEF LoadsOk

LEMMA ArgSet ==
  ASSUME ArgsOk(arg), NEW s \in Screen, NEW a, ArgOk(a), arg' = [arg EXCEPT ![s] = a]
  PROVE  ArgsOk(arg')
BY DEF ArgsOk

LEMMA ArgPage ==
  ASSUME ArgsOk(arg), NEW s \in Screen, NEW n \in Nat \ {0}, arg' = [arg EXCEPT ![s].page = n]
  PROVE  ArgsOk(arg')
<1>1. PICK x, a : x = arg[s] /\ a = [x EXCEPT !.page = n]
  OBVIOUS
<1>2. ArgOk(x)
  BY <1>1 DEF ArgsOk
<1>3. ArgOk(a)
  BY <1>1, <1>2 DEF ArgOk
<1>4. arg' = [arg EXCEPT ![s] = a]
  BY <1>1, <1>2
<1> QED
  BY <1>3, <1>4, ArgSet

LEMMA SendKeeps ==
  ASSUME IInv, NEW s \in Screen, NEW a, ArgOk(a), NEW reset \in BOOLEAN, Send(s, a, reset)
  PROVE  ArgsOk(arg') /\ LoadsOk(load', db)
<1>1. PICK l, x : /\ l \in LoadId
                  /\ x = [reset |-> reset, state |-> "sent", arg |-> a, rows |-> <<>>]
                  /\ arg' = [arg EXCEPT ![s] = a]
                  /\ load' = [load EXCEPT ![s] = With(@, l, x)]
  BY DEF Send
<1>2. LoadOk(x, db)
  BY <1>1, EmptyFits DEF LoadOk
<1> QED
  BY <1>1, <1>2, ArgSet, LoadSet DEF IInv

LEMMA RefreshKeeps ==
  ASSUME IInv, NEW s \in Screen, Refresh(s) \/ LoadMore(s) \/ Choose(s) PROVE IInv'
<1>1. PICK a, reset : ArgOk(a) /\ reset \in BOOLEAN /\ Send(s, a, reset)
  <2>0. PICK x : x = arg[s] /\ ArgOk(x)
    BY DEF IInv, ArgsOk
  <2>1. CASE Refresh(s)
    <3>1. PICK a : a = [x EXCEPT !.page = 1]
      OBVIOUS
    <3>2. ArgOk(a)
      BY <2>0, <3>1 DEF ArgOk
    <3> QED
      BY <2>0, <2>1, <3>1, <3>2 DEF Refresh
  <2>2. CASE LoadMore(s)
    <3>1. PICK n : n = Len(list[s]) \div PageSize + 2
      OBVIOUS
    <3>2. Len(list[s]) \in Nat
      BY ListFacts DEF IInv, ListsOk, Fits
    <3>3. n \in Nat \ {0}
      <4>1. \A m \in Nat, k \in Nat \ {0} : m \div k \in Nat
        OBVIOUS
      <4> QED
        <5>1. PICK L \in Nat, K \in Nat \ {0} : L = Len(list[s]) /\ K = PageSize
          BY <3>2, BoundAssumption
        <5>2. PICK k : k = L \div K
          OBVIOUS
        <5>3. k \in Nat
          BY <4>1, <5>2
        <5>4. n = L \div K + 2
          BY <3>1, <5>1, Zenon
        <5>5. n = k + 2
          BY <5>2, <5>4, Zenon
        <5> QED
          BY <5>3, <5>5
    <3>4. PICK a : a = [x EXCEPT !.page = n]
      OBVIOUS
    <3>5. ArgOk(a)
      BY <2>0, <3>3, <3>4 DEF ArgOk
    <3> QED
      BY <2>0, <2>2, <3>1, <3>4, <3>5 DEF LoadMore
  <2>3. CASE Choose(s)
    <3>1. PICK o \in Listing : Send(s, [listing |-> o, page |-> 1], TRUE)
      BY <2>3 DEF Choose
    <3>2. ArgOk([listing |-> o, page |-> 1])
      BY DEF ArgOk
    <3> QED
      BY <3>1, <3>2
  <2> QED
    BY <2>1, <2>2, <2>3
<1>2. ArgsOk(arg') /\ LoadsOk(load', db)
  BY <1>1, SendKeeps
<1>3. UNCHANGED <<db, tap>> /\ list' \in {list, [list EXCEPT ![s] = <<>>]}
  BY DEF Refresh, LoadMore, Choose
<1>4. ListsOk(list', db)
  BY <1>3, EmptyFits DEF IInv, ListsOk
<1> QED
  BY <1>2, <1>3, <1>4 DEF IInv

LEMMA AnswerLoadKeeps ==
  ASSUME IInv, NEW s \in Screen, NEW l, AnswerLoad(s, l) PROVE IInv'
<1>1. PICK x, rows, y : /\ x = load[s][l] /\ rows = Answer(s, x.arg)
                        /\ y = [x EXCEPT !.state = "OK", !.rows = rows]
  OBVIOUS
<1>2. l \in DOMAIN load[s] /\ UNCHANGED <<db, list, arg, tap>>
  BY DEF AnswerLoad, Awaits
<1>3. LoadOk(x, db)
  BY <1>1, <1>2 DEF IInv, LoadsOk
<1>4. Fits(rows, db)
  BY <1>1, <1>3, AnswerFits DEF IInv, LoadOk
<1>5. LoadOk(y, db)
  BY <1>1, <1>3, <1>4 DEF LoadOk
<1>6. Becomes(s, l, y)
  BY <1>1 DEF AnswerLoad
<1>7. LoadsOk(load', db)
  BY <1>2, <1>5, <1>6, LoadBecomes DEF IInv
<1> QED
  BY <1>2, <1>7 DEF IInv

LEMMA KeptPage == ASSUME NEW s, NEW l, NEW n \in Nat \ {0} PROVE Kept(s, l, n) \in Nat \ {0}
BY DEF Kept

LEMMA RefuseLoadKeeps ==
  ASSUME IInv, NEW s \in Screen, NEW l, RefuseLoad(s, l) PROVE IInv'
<1>1. l \in DOMAIN load[s] /\ UNCHANGED <<db, list, tap>>
  BY DEF RefuseLoad, Awaits
<1>2. PICK x, y, n : /\ x = load[s][l] /\ y = [x EXCEPT !.state = "NOT_FOUND"]
                     /\ n = Kept(s, l, arg[s].page)
  OBVIOUS
<1>3. \/ Becomes(s, l, y) /\ UNCHANGED arg
      \/ /\ load' = [load EXCEPT ![s] = Without(@, {l})]
         /\ arg' = [arg EXCEPT ![s].page = n]
  BY <1>2 DEF RefuseLoad, IInv, ArgsOk
<1>4. LoadOk(x, db)
  BY <1>1, <1>2 DEF IInv, LoadsOk
<1>5. LoadOk(y, db)
  BY <1>2, <1>4 DEF LoadOk
<1>6. n \in Nat \ {0}
  BY <1>2, KeptPage DEF IInv, ArgsOk, ArgOk
<1>7. LoadsOk(load', db) /\ ArgsOk(arg')
  BY <1>1, <1>3, <1>5, <1>6, LoadBecomes, LoadGone, ArgPage DEF IInv
<1> QED
  BY <1>1, <1>7 DEF IInv

LEMMA LoseLoadKeeps ==
  ASSUME IInv, NEW s \in Screen, NEW l, LoseLoad(s, l) \/ RetryLoad(s, l) PROVE IInv'
<1>1. l \in DOMAIN load[s] /\ UNCHANGED <<db, list, arg, tap>>
  BY DEF LoseLoad, RetryLoad, Awaits
<1>2. PICK x : x = load[s][l] /\ LoadOk(x, db)
  BY <1>1 DEF IInv, LoadsOk
<1>3. PICK y : Becomes(s, l, y) /\ LoadOk(y, db)
  <2>1. CASE LoseLoad(s, l)
    <3>1. PICK y : y = [x EXCEPT !.state = "failed"]
      OBVIOUS
    <3>2. LoadOk(y, db)
      BY <1>2, <3>1 DEF LoadOk
    <3> QED
      BY <1>2, <2>1, <3>1, <3>2 DEF LoseLoad
  <2>2. CASE RetryLoad(s, l)
    <3>1. PICK a, y : a = arg[s] /\ y = [x EXCEPT !.state = "sent", !.arg = a]
      OBVIOUS
    <3>2. ArgOk(a)
      BY <3>1 DEF IInv, ArgsOk
    <3>3. LoadOk(y, db)
      BY <1>2, <3>1, <3>2 DEF LoadOk
    <3> QED
      BY <1>2, <2>2, <3>1, <3>3 DEF RetryLoad
  <2> QED
    BY <2>1, <2>2
<1>4. LoadsOk(load', db)
  BY <1>1, <1>3, LoadBecomes DEF IInv
<1> QED
  BY <1>1, <1>4 DEF IInv

LEMMA ReceiveLoadKeeps ==
  ASSUME IInv, NEW s \in Screen, NEW l, ReceiveLoad(s, l) PROVE IInv'
<1>1. PICK x, q, n, old :
        /\ x = load[s][l] /\ old = arg[s].page
        /\ q = (IF x.state = "NOT_FOUND" THEN <<>>
                ELSE (IF x.reset THEN <<>> ELSE list[s]) \o x.rows)
        /\ n = Kept(s, l, IF x.state = "OK" /\ x.rows = <<>> /\ old > 1 THEN old - 1 ELSE old)
  OBVIOUS
<1>2. /\ l \in DOMAIN load[s] /\ UNCHANGED <<db, tap>>
      /\ load' = [load EXCEPT ![s] = Without(@, {l})]
  BY DEF ReceiveLoad
<1>3. list' = [list EXCEPT ![s] = q]
  BY <1>1 DEF ReceiveLoad, IInv, ListsOk
<1>4. arg' = [arg EXCEPT ![s].page = n]
  BY <1>1 DEF ReceiveLoad, IInv, ArgsOk
<1>5. Fits(x.rows, db) /\ Fits(list[s], db)
  BY <1>1, <1>2 DEF IInv, LoadsOk, LoadOk, ListsOk
<1>6. Fits(q, db)
  BY <1>1, <1>5, EmptyFits, ConcatFits
<1>7. ListsOk(list', db)
  BY <1>3, <1>6 DEF IInv, ListsOk
<1>8. n \in Nat \ {0}
  <2>1. old \in Nat \ {0}
    BY <1>1 DEF IInv, ArgsOk, ArgOk
  <2>2. PICK k : k = IF x.state = "OK" /\ x.rows = <<>> /\ old > 1 THEN old - 1 ELSE old
    OBVIOUS
  <2>3. k \in Nat \ {0}
    BY <2>1, <2>2
  <2> QED
    BY <1>1, <2>2, <2>3, KeptPage
<1>9. ArgsOk(arg') /\ LoadsOk(load', db)
  BY <1>2, <1>4, <1>8, ArgPage, LoadGone DEF IInv
<1> QED
  BY <1>2, <1>7, <1>9 DEF IInv

-------------------------------------------------------------------------------
(* The bookmark request.                                                     *)

LEMMA TapBookmarkKeeps == ASSUME IInv, NEW s \in Screen, TapBookmark(s) PROVE IInv'
<1>1. PICK i, m, t :
        /\ i \in DOMAIN list[s]
        /\ m = list[s][i]
        /\ t = [state |-> "sent", screen |-> s, row |-> i, item |-> m, id |-> 0]
        /\ tap' = t
  BY DEF TapBookmark
<1>2. UNCHANGED <<db, list, arg, load>>
  BY DEF TapBookmark
<1>3. Fit(m, db) /\ i \in Nat \ {0}
  BY <1>1, ListFacts DEF IInv, ListsOk, Fits
<1>4. TapOk(t, db)
  BY <1>1, <1>3 DEF TapOk
<1> QED
  BY <1>1, <1>2, <1>4 DEF IInv

LEMMA TapShape ==
  ASSUME IInv, tap.state \in {"sent", "OK", "CONFLICT"}
  PROVE  /\ tap # Idle
         /\ tap = [state |-> tap.state, screen |-> tap.screen, row |-> tap.row,
                   item |-> tap.item, id |-> tap.id]
         /\ tap.screen \in Screen /\ tap.row \in Nat \ {0} /\ Fit(tap.item, db)
         /\ tap.id \in Ids \cup {0}
<1>1. tap # Idle
  BY DEF Idle
<1> QED
  BY <1>1 DEF IInv, TapOk

LEMMA SaysKeeps ==
  ASSUME IInv, tap.state = "sent", NEW d, Grows(db, d), NEW st \in {"OK", "CONFLICT"},
         NEW id \in Ids \cup {0}, Says(st, id),
         st = "OK" /\ ~tap.item.on => id \in DOMAIN d.issued /\ d.issued[id] = tap.item.post
  PROVE  TapOk(tap', d)
<1>1. PICK t : t = tap
  OBVIOUS
<1>2. /\ t = [state |-> t.state, screen |-> t.screen, row |-> t.row, item |-> t.item, id |-> t.id]
      /\ t.screen \in Screen /\ t.row \in Nat \ {0} /\ Fit(t.item, db)
  BY <1>1, TapShape
<1>3. Fit(t.item, d)
  BY <1>2, FitGrows
<1>4. PICK u : u = [t EXCEPT !.state = st, !.id = id]
  OBVIOUS
<1>5. /\ u = [state |-> u.state, screen |-> u.screen, row |-> u.row, item |-> u.item, id |-> u.id]
      /\ u.screen = t.screen /\ u.row = t.row /\ u.item = t.item /\ u.state = st /\ u.id = id
  BY <1>2, <1>4
<1>6. tap' = u
  BY <1>1, <1>4 DEF Says
<1> QED
  BY <1>1, <1>2, <1>3, <1>5, <1>6 DEF TapOk

LEMMA DbFacts ==
  ASSUME DbOk(db)
  PROVE  /\ db.last \in Nat /\ db.last <= MaxPost /\ IsList(db.issued) /\ Grows(db, db)
         /\ Len(db.issued) \in Nat /\ DOMAIN db.issued = 1..Len(db.issued)
<1>1. db.last \in Nat /\ db.last <= MaxPost  BY BoundAssumption DEF DbOk
<1>2. db.issued \in Seq(Post)  BY DEF DbOk
<1>3. Len(db.issued) \in Nat /\ DOMAIN db.issued = 1..Len(db.issued)  BY <1>2, LenProperties
<1> QED  BY <1>1, <1>2, <1>3 DEF IsList, Grows

\* db' vouches for whatever db vouched for.
LEMMA GrownKeeps ==
  ASSUME IInv, DbOk(db'), Grows(db, db'), TapOk(tap', db'), UNCHANGED <<list, arg, load>>
  PROVE  IInv'
BY AllGrow DEF IInv

LEMMA AnswerAddKeeps == ASSUME IInv, AnswerAdd PROVE IInv'
<1>1. tap.state = "sent" /\ UNCHANGED <<list, arg, load>>
  BY DEF AnswerAdd
<1>2. PICK p, k : p = tap.item.post /\ k = Len(db.issued) + 1
  OBVIOUS
<1>3. CASE UNCHANGED db /\ Says("CONFLICT", 0)
  <2>1. Grows(db, db')
    BY <1>3, DbFacts DEF IInv
  <2>2. TapOk(tap', db')
    BY <1>1, <1>3, <2>1, SaysKeeps
  <2> QED
    BY <1>1, <1>3, <2>1, <2>2, GrownKeeps DEF IInv
<1>4. CASE /\ p \in db.post /\ k \in Ids
           /\ db' = [db EXCEPT !.fav = With(@, p, k), !.issued = Append(@, p)]
           /\ Says("OK", k)
  <2>1. PICK fav, issued : fav = With(db.fav, p, k) /\ issued = Append(db.issued, p)
    OBVIOUS
  <2>2. db' = [post |-> db.post, last |-> db.last, fav |-> fav, issued |-> issued]
    BY <1>4, <2>1 DEF IInv, DbOk
  <2>3. IsList(db.issued)
    BY DbFacts DEF IInv
  <2>4. /\ IsList(issued) /\ DOMAIN issued = DOMAIN db.issued \cup {k} /\ issued[k] = p
        /\ \A i \in DOMAIN db.issued : issued[i] = db.issued[i]
    BY <1>2, <2>1, <2>3, AppendList
  <2>5. Grows(db, db')
    BY <2>2, <2>4, DbFacts DEF Grows, IInv
  <2>6. \A q \in DOMAIN fav : fav[q] \in DOMAIN issued /\ issued[fav[q]] = q
    BY <2>1, <2>4 DEF IInv, DbOk, With
  <2>7. DbOk(db')
    <3>1. DOMAIN fav = DOMAIN db.fav \cup {p} /\ fav = [q \in DOMAIN fav |-> fav[q]]
      BY <2>1 DEF With
    <3>2. DOMAIN fav \subseteq db.post
      BY <1>4, <3>1 DEF IInv, DbOk
    <3>3. p \in Post
      BY TapShape, <1>1, <1>2 DEF Fit
    <3>4. issued \in Seq(Post) /\ Len(issued) = k
      BY <2>1, <1>2, <3>3, AppendProperties DEF IInv, DbOk
    <3>5. Len(issued) <= MaxId
      BY <1>4, <3>4, BoundAssumption DEF Ids
    <3>6. PICK e : e = db'
      OBVIOUS
    <3>7. e = [post |-> db.post, last |-> db.last, fav |-> fav, issued |-> issued]
      BY <2>2, <3>6
    <3>8. /\ e = [post |-> e.post, last |-> e.last, fav |-> e.fav, issued |-> e.issued]
          /\ e.post = db.post /\ e.last = db.last /\ e.fav = fav /\ e.issued = issued
      BY <3>7
    <3>9. db.last \in 0..MaxPost /\ db.post \subseteq 1..db.last
      BY DEF IInv, DbOk
    <3>10. DbOk(e)
      BY <2>6, <3>1, <3>2, <3>4, <3>5, <3>8, <3>9 DEF DbOk
    <3> QED
      BY <3>6, <3>10
  <2>8. TapOk(tap', db')
    BY <1>1, <1>2, <1>4, <2>2, <2>4, <2>5, SaysKeeps
  <2> QED
    BY <1>1, <2>5, <2>7, <2>8, GrownKeeps
<1> QED
  BY <1>2, <1>3, <1>4 DEF AnswerAdd

\* Marks are removed: the numbers stay issued.
LEMMA UnmarkedDb ==
  ASSUME IInv, NEW post, NEW P, post \subseteq db.post, db.post \ post \subseteq P,
         db' = [db EXCEPT !.post = post, !.fav = Without(@, P)]
  PROVE  DbOk(db') /\ Grows(db, db')
<1>1. PICK fav : fav = Without(db.fav, P)
  OBVIOUS
<1>2. db' = [post |-> post, last |-> db.last, fav |-> fav, issued |-> db.issued]
  BY <1>1 DEF IInv, DbOk
<1>3. \A q \in DOMAIN fav : q \in DOMAIN db.fav /\ fav[q] = db.fav[q]
  BY <1>1 DEF Without
<1>4. DbOk(db')
  <2>1. ASSUME NEW q \in DOMAIN fav PROVE fav[q] \in DOMAIN db.issued /\ db.issued[fav[q]] = q
    <3>1. q \in DOMAIN db.fav /\ fav[q] = db.fav[q]
      BY <1>3, <2>1
    <3>2. db.fav[q] \in DOMAIN db.issued /\ db.issued[db.fav[q]] = q
      BY <3>1 DEF IInv, DbOk
    <3> QED
      BY <3>1, <3>2
  <2>2. PICK e : e = db'
    OBVIOUS
  <2>3. e = [post |-> post, last |-> db.last, fav |-> fav, issued |-> db.issued]
    BY <1>2, <2>2
  <2>4. /\ e = [post |-> e.post, last |-> e.last, fav |-> e.fav, issued |-> e.issued]
        /\ e.post = post /\ e.last = db.last /\ e.fav = fav /\ e.issued = db.issued
    BY <2>3
  <2>5. DOMAIN fav = DOMAIN db.fav \ P /\ fav = [q \in DOMAIN fav |-> fav[q]]
    BY <1>1 DEF Without
  <2>6. DOMAIN fav \subseteq post
    BY <2>5 DEF IInv, DbOk
  <2>7. /\ db.last \in 0..MaxPost /\ post \subseteq 1..db.last
        /\ db.issued \in Seq(Post) /\ Len(db.issued) <= MaxId
    BY DEF IInv, DbOk
  <2>8. DbOk(e)
    BY <2>1, <2>4, <2>5, <2>6, <2>7 DEF DbOk
  <2> QED
    BY <2>2, <2>8
<1>5. db'.last = db.last /\ db'.issued = db.issued
  BY <1>2
<1>6. Grows(db, db')
  BY <1>5, DbFacts DEF Grows, IInv
<1> QED
  BY <1>4, <1>6

LEMMA AnswerRemoveKeeps == ASSUME IInv, AnswerRemove PROVE IInv'
<1>1. tap.state = "sent" /\ tap.item.on /\ UNCHANGED <<list, arg, load>>
  BY DEF AnswerRemove
<1>2. PICK P, st : /\ db' = [db EXCEPT !.fav = Without(@, P)] /\ Says(st, 0)
                   /\ st = IF P = {} THEN "CONFLICT" ELSE "OK"
  BY DEF AnswerRemove
<1>3. db' = [db EXCEPT !.post = db.post, !.fav = Without(@, P)]
  BY <1>2 DEF IInv, DbOk
<1>4. DbOk(db') /\ Grows(db, db')
  BY <1>3, UnmarkedDb
<1>5. TapOk(tap', db')
  BY <1>1, <1>2, <1>4, SaysKeeps
<1> QED
  BY <1>1, <1>4, <1>5, GrownKeeps

LEMMA LoseTapKeeps == ASSUME IInv, LoseTap \/ ReceiveConflict PROVE IInv'
BY DEF IInv, LoseTap, ReceiveConflict, TapOk

LEMMA CrashKeeps == ASSUME IInv, Crash PROVE IInv'
<1>1. UNCHANGED db /\ tap' = Idle
  BY DEF Crash
<1>2. ListsOk(list', db)
  BY EmptyFits DEF Crash, ListsOk
<1>3. LoadsOk(load', db)
  BY DEF Crash, LoadsOk
<1>4. ArgsOk(arg')
  <2>1. ASSUME NEW s \in Screen PROVE ArgOk([arg[s] EXCEPT !.page = 1])
    <3>1. PICK a, b : a = arg[s] /\ b = [a EXCEPT !.page = 1]
      OBVIOUS
    <3>2. ArgOk(a)
      BY <3>1 DEF IInv, ArgsOk
    <3>3. ArgOk(b)
      BY <3>1, <3>2 DEF ArgOk
    <3> QED
      BY <3>1, <3>3
  <2>2. arg' = [s \in Screen |-> [arg[s] EXCEPT !.page = 1]]
    BY DEF Crash
  <2> QED
    BY <2>1, <2>2 DEF ArgsOk
<1> QED
  BY <1>1, <1>2, <1>3, <1>4 DEF IInv, TapOk

-------------------------------------------------------------------------------
(* Its answer reaches the lists.                                             *)

LEMMA MarkFits ==
  ASSUME NEW d, NEW q, Fits(q, d), NEW m, Fit(m, d), NEW S, S \subseteq Rows(q, m.post)
  PROVE  Fits(Mark(q, S, m), d)
<1>1. ASSUME NEW i \in DOMAIN q PROVE Fit(Mark(q, S, m)[i], d)
  <2>1. PICK x : x = q[i] /\ Fit(x, d)
    BY DEF Fits
  <2>2. CASE i \in S
    <3>1. PICK on, id, y : on = m.on /\ id = m.id /\ y = [x EXCEPT !.on = on, !.id = id]
      OBVIOUS
    <3>2. Mark(q, S, m)[i] = y
      BY <2>1, <2>2, <3>1 DEF Mark
    <3>3. x.post = m.post
      BY <2>1, <2>2 DEF Rows
    <3>4. /\ y = [post |-> y.post, on |-> y.on, id |-> y.id]
          /\ y.post = x.post /\ y.on = on /\ y.id = id
      BY <2>1, <3>1 DEF Fit
    <3>5. Fit(y, d)
      BY <3>1, <3>3, <3>4 DEF Fit
    <3> QED
      BY <3>2, <3>5
  <2>3. CASE i \notin S
    <3>1. Mark(q, S, m)[i] = q[i]
      BY <2>3 DEF Mark
    <3> QED
      BY <2>1, <3>1
  <2> QED
    BY <2>2, <2>3
<1>2. PICK r, R : r = Mark(q, S, m) /\ R = {r[i] : i \in DOMAIN q}
  OBVIOUS
<1>3. r = [i \in DOMAIN q |-> r[i]] /\ DOMAIN r = DOMAIN q
  BY <1>2 DEF Mark
<1>4. DOMAIN q = 1..Len(q) /\ Len(q) \in Nat
  BY ListFacts DEF Fits
<1>5. r \in Seq(R)
  BY <1>2, <1>3, <1>4
<1> QED
  BY <1>1, <1>2, <1>3, <1>5 DEF Fits, IsList

LEMMA NotedFits ==
  ASSUME NEW d, NEW s, NEW q, Fits(q, d), NEW m, Fit(m, d) PROVE Fits(Noted(s, q, m), d)
<1>1. PICK S : S = Rows(q, m.post)
  OBVIOUS
<1>2. \/ Noted(s, q, m) = Append(q, m)
      \/ S # {} /\ Noted(s, q, m) = RemoveAt(q, First(S))
      \/ Noted(s, q, m) = q
  BY <1>1 DEF Noted
<1>3. S \subseteq DOMAIN q /\ DOMAIN q \subseteq Nat
  <2>1. DOMAIN q = 1..Len(q) /\ Len(q) \in Nat
    BY ListFacts DEF Fits
  <2>2. S \subseteq DOMAIN q
    BY <1>1 DEF Rows
  <2> QED
    BY <2>1, <2>2
<1>4. S # {} => First(S) \in DOMAIN q
  BY <1>3, FirstIn
<1> QED
  BY <1>2, <1>4, AppendFits, RemoveFits

LEMMA ListsFit ==
  ASSUME NEW d, NEW s, NEW q, Fits(q, d), NEW m, Fit(m, d), NEW a \in Lists(s, q, m)
  PROVE  Fits(a, d)
<1>1. PICK r : r = Noted(s, q, m)
  OBVIOUS
<1>2. PICK S \in Touched(s, r, m.post) : a = Mark(r, S, m)
  BY <1>1 DEF Lists
<1>3. S \subseteq Rows(r, m.post)
  BY <1>2 DEF Touched
<1> QED
  BY <1>1, <1>2, <1>3, NotedFits, MarkFits

LEMMA DroppedOk ==
  ASSUME IInv, tap.state = "OK", ~RowGone PROVE ListsOk(Dropped, db)
<1>1. CASE tap.screen = "all"
  BY <1>1 DEF Dropped, IInv
<1>2. CASE tap.screen # "all"
  <2>1. tap.screen = "bookmark"
    BY <1>2, TapShape DEF Screen
  <2>2. tap.row \in DOMAIN list["bookmark"]
    BY <2>1 DEF RowGone
  <2>3. PICK q : q = RemoveAt(list["bookmark"], tap.row)
    OBVIOUS
  <2>4. Fits(list["bookmark"], db)
    BY DEF IInv, ListsOk, Screen
  <2>5. Fits(q, db)
    BY <2>2, <2>3, <2>4, RemoveFits
  <2>6. Dropped = [list EXCEPT !["bookmark"] = q]
    BY <1>2, <2>3 DEF Dropped
  <2> QED
    BY <2>5, <2>6 DEF IInv, ListsOk
<1> QED
  BY <1>1, <1>2

LEMMA ToggledFits == ASSUME IInv, tap.state = "OK" PROVE Fit(Toggled, db)
<1>1. PICK m, id, on, y : /\ m = tap.item /\ id = tap.id /\ on = ~m.on
                          /\ y = [m EXCEPT !.on = on, !.id = id]
  OBVIOUS
<1>2. Fit(m, db)
  BY <1>1, TapShape
<1>3. ~m.on => id \in DOMAIN db.issued /\ db.issued[id] = m.post
  BY <1>1, TapShape DEF IInv, TapOk
<1>4. /\ y = [post |-> y.post, on |-> y.on, id |-> y.id]
      /\ y.post = m.post /\ y.on = on /\ y.id = id
  BY <1>1, <1>2 DEF Fit
<1>5. on \in BOOLEAN /\ (on => ~m.on)
  BY <1>1
<1>6. Fit(y, db)
  <2>1. id \in Ids \cup {0}
    BY <1>1, TapShape
  <2>2. y.post \in Post /\ y.post <= db.last /\ y.id \in Ids \cup {0}
    BY <1>2, <1>4, <2>1 DEF Fit
  <2>3. y.on => y.id \in DOMAIN db.issued /\ db.issued[y.id] = y.post
    BY <1>3, <1>4, <1>5
  <2> QED
    BY <1>4, <1>5, <2>2, <2>3 DEF Fit
<1>7. Toggled = y
  BY <1>1 DEF Toggled
<1> QED
  BY <1>6, <1>7

LEMMA ReceiveTapKeeps == ASSUME IInv, ReceiveTap PROVE IInv'
<1>1. PICK q, m : q = Dropped /\ m = Toggled
  OBVIOUS
<1>2. /\ tap.state = "OK" /\ ~RowGone /\ Notify(q, m) /\ tap' = Idle
      /\ UNCHANGED <<db, arg, load>>
  BY <1>1 DEF ReceiveTap
<1>3. ListsOk(q, db) /\ Fit(m, db)
  BY <1>1, <1>2, DroppedOk, ToggledFits
<1>4. PICK a \in Lists("all", q["all"], m), b \in Lists("bookmark", q["bookmark"], m) :
        list' = [s \in Screen |-> IF s = "all" THEN a ELSE b]
  BY <1>2 DEF Notify
<1>5. Fits(q["all"], db) /\ Fits(q["bookmark"], db)
  BY <1>3 DEF ListsOk, Screen
<1>6. Fits(a, db) /\ Fits(b, db)
  BY <1>3, <1>5, ListsFit
<1>7. ListsOk(list', db)
  BY <1>4, <1>6 DEF ListsOk
<1> QED
  BY <1>2, <1>7 DEF IInv, TapOk

-------------------------------------------------------------------------------
LEMMA PublishKeeps == ASSUME IInv, Publish \/ Withdraw PROVE IInv'
<1>1. UNCHANGED <<list, arg, load, tap>>
  BY DEF Publish, Withdraw
<1>2. DbOk(db') /\ Grows(db, db')
  <2>1. CASE Publish
    <3>1. PICK post, last, e : /\ post = db.post \cup {db.last + 1} /\ last = db.last + 1
                               /\ e = db'
      OBVIOUS
    <3>2. db' = [db EXCEPT !.post = post, !.last = last]
      BY <2>1, <3>1 DEF Publish
    <3>3. e = [post |-> post, last |-> last, fav |-> db.fav, issued |-> db.issued]
      BY <3>1, <3>2 DEF IInv, DbOk
    <3>4. /\ e = [post |-> e.post, last |-> e.last, fav |-> e.fav, issued |-> e.issued]
          /\ e.post = post /\ e.last = last /\ e.fav = db.fav /\ e.issued = db.issued
      BY <3>3
    <3>5. db.last \in Nat /\ last \in 0..MaxPost /\ db.last < last
      BY <2>1, <3>1, DbFacts, BoundAssumption DEF Publish, IInv
    <3>6. post \subseteq 1..last
      BY <3>1, <3>5 DEF IInv, DbOk
    <3>7. DbOk(e)
      BY <3>1, <3>4, <3>5, <3>6 DEF IInv, DbOk
    <3>8. Grows(db, e)
      BY <3>4, <3>5 DEF Grows
    <3> QED
      BY <3>1, <3>7, <3>8
  <2>2. CASE Withdraw
    <3>1. PICK p \in db.post : db' = [db EXCEPT !.post = @ \ {p}, !.fav = Without(@, {p})]
      BY <2>2 DEF Withdraw
    <3>2. PICK post, P : post = db.post \ {p} /\ P = {p}
      OBVIOUS
    <3>3. db' = [db EXCEPT !.post = post, !.fav = Without(@, P)]
      BY <3>1, <3>2
    <3>4. post \subseteq db.post /\ db.post \ post \subseteq P
      BY <3>2
    <3> QED
      BY <3>3, <3>4, UnmarkedDb
  <2> QED
    BY <2>1, <2>2
<1>3. TapOk(tap', db')
  BY <1>1, <1>2, AllGrow DEF IInv
<1> QED
  BY <1>1, <1>2, <1>3, GrownKeeps

LEMMA InvariantInit == Init => IInv
<1> SUFFICES ASSUME Init PROVE IInv
  OBVIOUS
<1>1. db = [post |-> {}, last |-> 0, fav |-> [p \in {} |-> 0], issued |-> <<>>]
  BY DEF Init
<1>2. IsList(<<>>)
  BY EmptyFits DEF Fits
<1>3. DbOk(db)
  <2>1. PICK fav, d : fav = [p \in {} |-> 0] /\ d = db
    OBVIOUS
  <2>2. d = [post |-> {}, last |-> 0, fav |-> fav, issued |-> <<>>]
    BY <1>1, <2>1
  <2>3. /\ d = [post |-> d.post, last |-> d.last, fav |-> d.fav, issued |-> d.issued]
        /\ d.post = {} /\ d.last = 0 /\ d.fav = fav /\ d.issued = <<>>
    BY <2>2
  <2>4. DOMAIN fav = {} /\ fav = [p \in DOMAIN fav |-> fav[p]]
    BY <2>1
  <2>5. <<>> \in Seq(Post) /\ Len(<<>>) = 0
    OBVIOUS
  <2>6. DbOk(d)
    BY <2>3, <2>4, <2>5, BoundAssumption DEF DbOk
  <2> QED
    BY <2>1, <2>6
<1>4. ListsOk(list, db)
  BY EmptyFits DEF Init, ListsOk
<1>5. ArgsOk(arg)
  BY DEF Init, ArgsOk, ArgOk
<1>6. LoadsOk(load, db)
  BY DEF Init, LoadsOk
<1>7. TapOk(tap, db)
  BY DEF Init, TapOk
<1> QED
  BY <1>3, <1>4, <1>5, <1>6, <1>7 DEF IInv

LEMMA InvariantNext == ASSUME IInv, [Next]_vars PROVE IInv'
<1>1. ASSUME NEW s \in Screen, Loading(s) PROVE IInv'
  BY <1>1, RefreshKeeps, AnswerLoadKeeps, RefuseLoadKeeps, LoseLoadKeeps, ReceiveLoadKeeps
     DEF Loading
<1>2. ASSUME NEW s \in Screen, TapBookmark(s) PROVE IInv'
  BY <1>2, TapBookmarkKeeps
<1>3. CASE Tapping
  BY <1>3, AnswerAddKeeps, AnswerRemoveKeeps, LoseTapKeeps, ReceiveTapKeeps, CrashKeeps
     DEF Tapping
<1>4. CASE Publish \/ Withdraw
  BY <1>4, PublishKeeps
<1>5. CASE UNCHANGED vars
  BY <1>5 DEF vars, IInv
<1> QED
  BY <1>1, <1>2, <1>3, <1>4, <1>5 DEF Next

(* A number that a list keeps for a marked post was issued for that post:   *)
(* however requests, answers, notifications and screens overlap, the button *)
(* never removes the bookmark of another post (BaseVC.processBookmark).     *)
THEOREM NumbersFitHolds == Spec => []NumbersFit
<1>1. IInv => NumbersFit
  BY DEF IInv, ListsOk, Fits, Fit, NumbersFit
<1> QED
  BY <1>1, InvariantInit, InvariantNext, PTL DEF Spec

-------------------------------------------------------------------------------
(* The types.                                                                *)

LEMMA FitIsItem == ASSUME NEW d, NEW m, Fit(m, d) PROVE m \in Item
BY DEF Fit, Item

LEMMA FitsIsSeq == ASSUME NEW d, NEW q, Fits(q, d) PROVE q \in Seq(Item)
<1>1. q \in Seq({q[i] : i \in DOMAIN q}) /\ Len(q) \in Nat /\ DOMAIN q = 1..Len(q)
  BY ListFacts DEF Fits
<1>2. \A i \in DOMAIN q : q[i] \in Item
  BY FitIsItem DEF Fits
<1> QED
  BY <1>1, <1>2

LEMMA ArgIsArgument == ASSUME NEW a, ArgOk(a) PROVE a \in Argument
BY DEF ArgOk, Argument

LEMMA LoadIsLoad == ASSUME NEW d, NEW x, LoadOk(x, d) PROVE IsLoad(x)
BY FitsIsSeq, ArgIsArgument DEF LoadOk, IsLoad

LEMMA TapIsTap == ASSUME NEW d, NEW t, TapOk(t, d) PROVE IsTap(t)
BY FitIsItem DEF TapOk, IsTap

LEMMA Typed == ASSUME IInv, doubt \subseteq Post PROVE TypeOK
<1>1. DbOk(db)
  BY DEF IInv
<1>2. Partial(db.fav, db.post, 1 .. Len(db.issued))
  BY <1>1, DbFacts DEF DbOk, Partial
<1>3. \A p \in DOMAIN db.fav : db.issued[db.fav[p]] = p
  BY <1>1 DEF DbOk
<1>4. list \in [Screen -> Seq(Item)]
  BY FitsIsSeq DEF IInv, ListsOk
<1>5. arg \in [Screen -> Argument]
  BY ArgIsArgument DEF IInv, ArgsOk
<1>6. ASSUME NEW s \in Screen
      PROVE  /\ Partial(load[s], LoadId, {load[s][l] : l \in DOMAIN load[s]})
             /\ \A l \in DOMAIN load[s] : IsLoad(load[s][l])
  BY LoadIsLoad DEF IInv, LoadsOk, Partial
<1>7. IsTap(tap)
  BY TapIsTap DEF IInv
<1>8. /\ db = [post |-> db.post, last |-> db.last, fav |-> db.fav, issued |-> db.issued]
      /\ db.last \in 0 .. MaxPost /\ db.post \subseteq 1 .. db.last
      /\ db.issued \in Seq(Post) /\ Len(db.issued) <= MaxId
  BY <1>1 DEF DbOk
<1> QED
  BY <1>2, <1>3, <1>4, <1>5, <1>6, <1>7, <1>8 DEF TypeOK

LEMMA DoubtKeeps == ASSUME IInv, doubt \subseteq Post, [Next]_vars PROVE doubt' \subseteq Post
<1>1. ASSUME NEW s \in Screen, NEW l, ReceiveLoad(s, l) PROVE doubt' \subseteq Post
  BY <1>1 DEF ReceiveLoad, Twice
<1>2. ASSUME NEW s \in Screen, NEW l \in LoadId,
             AnswerLoad(s, l) \/ RefuseLoad(s, l) \/ LoseLoad(s, l) \/ RetryLoad(s, l)
      PROVE  doubt' \subseteq Post
  BY <1>2 DEF AnswerLoad, RefuseLoad, LoseLoad, RetryLoad
<1>3. ASSUME NEW s \in Screen, Refresh(s) \/ LoadMore(s) \/ Choose(s) \/ TapBookmark(s)
      PROVE  doubt' \subseteq Post
  BY <1>3 DEF Refresh, LoadMore, Choose, TapBookmark
<1>4. CASE AnswerAdd \/ AnswerRemove
  <2>1. InTransit \subseteq Post
    BY DEF InTransit
  <2> QED
    BY <1>4, <2>1 DEF AnswerAdd, AnswerRemove
<1>5. CASE LoseTap
  <2>1. tap # Idle
    BY <1>5 DEF LoseTap, Untapped, Idle
  <2>2. tap.item.post \in Post
    BY <2>1 DEF IInv, TapOk, Fit
  <2> QED
    BY <1>5, <2>2 DEF LoseTap
<1>6. CASE ReceiveTap \/ ReceiveConflict \/ Crash \/ Publish \/ Withdraw
  BY <1>6 DEF ReceiveTap, ReceiveConflict, Crash, Publish, Withdraw
<1>7. CASE UNCHANGED vars
  BY <1>7 DEF vars
<1> QED
  BY <1>1, <1>2, <1>3, <1>4, <1>5, <1>6, <1>7 DEF Next, Loading, Tapping

IAll == IInv /\ doubt \subseteq Post

(* Whatever loads, bookmark requests, posts and deletions do to each other, *)
(* the two lists hold posts that were created, the shared argument of a     *)
(* screen keeps a page from 1 on, and the server marks posts that exist,    *)
(* each under the number that was issued for it (AllVC.requestRoom,         *)
(* FavouriteController.createFavourite).                                    *)
THEOREM TypeOKHolds == Spec => []TypeOK
<1>1. Init => IAll
  BY InvariantInit DEF Init, IAll
<1>2. IAll /\ [Next]_vars => IAll'
  BY InvariantNext, DoubtKeeps DEF IAll
<1>3. IAll => TypeOK
  BY Typed DEF IAll
<1> QED
  BY <1>1, <1>2, <1>3, PTL DEF Spec
===============================================================================
