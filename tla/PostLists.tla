------------------------------ MODULE PostLists ------------------------------
(***************************************************************************)
(* The two lists of room posts in the app of one tenant (AllVC: all posts,  *)
(* and the bookmarked ones), page by page, and the bookmark button.  Each   *)
(* list lies under a progress view while a request of it is pending, but    *)
(* the order menu, the filter and the other list stay in reach.  Loads are  *)
(* answered, or lost, in any order; one bookmark request is pending at a    *)
(* time.  createFavourite is one step here; its two halves are in RoomPosts. *)
(***************************************************************************)
EXTENDS Naturals, SequencesExt

CONSTANTS
  MaxPost,   \* bound: posts ever created; they are numbered 1, 2, ...
  Listing,   \* what order menu and filter may ask for
  Shown,     \* the posts that each listing is about, in its order
  PageSize,  \* MAX_OFFSET
  LoadId,    \* bound: loads that are pending at a time
  MaxId      \* bound: favourites ever created

Post == 1 .. MaxPost

ASSUME ShownAssumption == Shown \in [Listing -> Seq(Post)]
ASSUME BoundAssumption == PageSize \in Nat \ {0} /\ MaxId \in Nat /\ MaxPost \in Nat

VARIABLES
  db,     \* post: posts; last: number of the latest one; fav: favourite id of
          \* each marked post; issued: the post of every favourite id (history)
  list,   \* rooms: what each screen shows
  arg,    \* roomFilter of each screen, one object that all its requests share
  load,   \* the loads of each screen that are pending or have failed
  tap,    \* the bookmark request and the screen it came from
  doubt   \* posts whose bookmark request was lost, or overtook a load, and those
          \* that the bookmarks showed twice (history)

vars == <<db, list, arg, load, tap, doubt>>

Screen == {"all", "bookmark"}
Ids == 1 .. MaxId
Item == [post : Post, on : BOOLEAN, id : Ids \cup {0}]  \* isFavourite, favouriteId
Argument == [listing : Listing, page : Nat \ {0}]

Partial(f, D, R) == DOMAIN f \subseteq D /\ f \in [DOMAIN f -> R]

IsLoad(x) ==
  /\ x = [reset |-> x.reset, state |-> x.state, arg |-> x.arg, rows |-> x.rows]
  /\ x.reset \in BOOLEAN /\ x.arg \in Argument /\ x.rows \in Seq(Item)
  /\ x.state \in {"sent", "OK", "NOT_FOUND", "failed"}

Idle == [state |-> "idle"]

IsTap(x) ==
  \/ x = Idle
  \/ /\ x = [state |-> x.state, screen |-> x.screen, row |-> x.row,
            item |-> x.item, id |-> x.id]
     /\ x.screen \in Screen /\ x.state \in {"sent", "OK", "CONFLICT"} /\ x.row \in Nat \ {0}
     /\ x.item \in Item /\ x.id \in Ids \cup {0}

TypeOK ==
  /\ db = [post |-> db.post, last |-> db.last, fav |-> db.fav, issued |-> db.issued]
  /\ db.last \in 0 .. MaxPost /\ db.post \subseteq 1 .. db.last
  /\ db.issued \in Seq(Post) /\ Len(db.issued) <= MaxId
  /\ Partial(db.fav, db.post, 1 .. Len(db.issued))
  /\ \A p \in DOMAIN db.fav : db.issued[db.fav[p]] = p
  /\ list \in [Screen -> Seq(Item)] /\ arg \in [Screen -> Argument]
  /\ \A s \in Screen : /\ Partial(load[s], LoadId, {load[s][l] : l \in DOMAIN load[s]})
                       /\ \A l \in DOMAIN load[s] : IsLoad(load[s][l])
  /\ IsTap(tap) /\ doubt \subseteq Post

Init ==
  /\ db = [post |-> {}, last |-> 0, fav |-> [p \in {} |-> 0], issued |-> <<>>]
  /\ list = [s \in Screen |-> <<>>]
  /\ \E o \in Listing : arg = [s \in Screen |-> [listing |-> o, page |-> 1]]
  /\ load = [s \in Screen |-> [l \in {} |-> 0]]
  /\ tap = Idle
  /\ doubt = {}

-----------------------------------------------------------------------------
With(f, x, y) == [z \in DOMAIN f \cup {x} |-> IF z = x THEN y ELSE f[z]]
Without(f, S) == [z \in DOMAIN f \ S |-> f[z]]

(* The server's answers: finAllByFilter, finAllBookmarkByFilter, and the    *)
(* mark that getRoomPostResponseModel puts on each post.                    *)
Chosen(q, S) ==
  LET part[i \in 0 .. Len(q)] ==
        IF i = 0 THEN <<>>
        ELSE IF q[i] \in S THEN Append(part[i - 1], q[i]) ELSE part[i - 1]
  IN part[Len(q)]

Matching(s, o) == Chosen(Shown[o], IF s = "all" THEN db.post ELSE DOMAIN db.fav)

Least(m, n) == IF m < n THEN m ELSE n

Page(posts, n) ==
  SubSeq(posts, (n - 1) * PageSize + 1, Least(n * PageSize, Len(posts)))

Marked(p) == [post |-> p, on |-> p \in DOMAIN db.fav,
              id |-> IF p \in DOMAIN db.fav THEN db.fav[p] ELSE 0]

Answer(s, a) ==
  LET posts == Page(Matching(s, a.listing), a.page)
  IN [i \in DOMAIN posts |-> Marked(posts[i])]

(* Neither a progress view nor an error view lies over the list.  (The view *)
(* that says NO_DATA, which does too, is left out.)                         *)
Untapped == tap.state = "idle"
Uncovered(s) == DOMAIN load[s] = {} /\ (~Untapped => tap.screen # s)
Settled == \A s \in Screen : Uncovered(s)

-----------------------------------------------------------------------------
(* Loading (requestRoom).  The request is built from the shared argument.   *)
Send(s, a, reset) ==
  \E l \in LoadId \ UNION {DOMAIN load[t] : t \in Screen} :
    /\ arg' = [arg EXCEPT ![s] = a]
    /\ load' = [load EXCEPT ![s] =
         With(@, l, [reset |-> reset, state |-> "sent", arg |-> a, rows |-> <<>>])]

(* viewDidLoad, and pulling the list down.                                  *)
Refresh(s) ==
  /\ Uncovered(s)
  /\ Send(s, [arg[s] EXCEPT !.page = 1], TRUE)
  /\ UNCHANGED <<db, list, tap, doubt>>

(* Pulling the list up.                                                     *)
LoadMore(s) ==
  /\ Uncovered(s)
  /\ Send(s, [arg[s] EXCEPT !.page = Len(list[s]) \div PageSize + 2], FALSE)
  /\ UNCHANGED <<db, list, tap, doubt>>

(* The order menu; the filter, which empties the list at once.  Neither is  *)
(* under the progress view.                                                 *)
Choose(s) ==
  /\ \E o \in Listing : Send(s, [listing |-> o, page |-> 1], TRUE)
  /\ list' \in {list, [list EXCEPT ![s] = <<>>]}
  /\ UNCHANGED <<db, tap, doubt>>

(* Every new load sets the page: the model forgets one that no other load   *)
(* than l will read again.                                                  *)
Kept(s, l, page) == IF DOMAIN load[s] = {l} THEN 1 ELSE page

Becomes(s, l, x) == load' = [load EXCEPT ![s][l] = x]
Awaits(s, l) == l \in DOMAIN load[s] /\ load[s][l].state = "sent"

AnswerLoad(s, l) ==
  /\ Awaits(s, l)
  /\ LET x == load[s][l]
     IN Becomes(s, l, [x EXCEPT !.state = "OK", !.rows = Answer(s, x.arg)])
  /\ UNCHANGED <<db, list, arg, tap, doubt>>

(* getFavouriteByFilter answers any exception with NOT_FOUND;               *)
(* getPostByFilter leaves it to Spring, and the app then does nothing.      *)
RefuseLoad(s, l) ==
  /\ Awaits(s, l)
  /\ \/ /\ s = "bookmark"
        /\ Becomes(s, l, [load[s][l] EXCEPT !.state = "NOT_FOUND"])
        /\ UNCHANGED arg
     \/ /\ s = "all"
        /\ load' = [load EXCEPT ![s] = Without(@, {l})]
        /\ arg' = [arg EXCEPT ![s].page = Kept(s, l, @)]
  /\ UNCHANGED <<db, list, tap, doubt>>

(* No answer; the server has only read.                                     *)
LoseLoad(s, l) ==
  /\ Awaits(s, l)
  /\ Becomes(s, l, [load[s][l] EXCEPT !.state = "failed"])
  /\ UNCHANGED <<db, list, arg, tap, doubt>>

(* Touching the error view sends the request again, built anew.             *)
RetryLoad(s, l) ==
  /\ l \in DOMAIN load[s] /\ load[s][l].state = "failed"
  /\ Becomes(s, l, [load[s][l] EXCEPT !.state = "sent", !.arg = arg[s]])
  /\ UNCHANGED <<db, list, arg, tap, doubt>>

Rows(q, p) == {i \in DOMAIN q : q[i].post = p}
Twice(q) == {p \in Post : \E i, j \in Rows(q, p) : i # j}

ReceiveLoad(s, l) ==
  /\ l \in DOMAIN load[s] /\ load[s][l].state \in {"OK", "NOT_FOUND"}
  /\ LET x == load[s][l]
     IN /\ list' = [list EXCEPT ![s] =
             IF x.state = "NOT_FOUND" THEN <<>>
             ELSE (IF x.reset THEN <<>> ELSE @) \o x.rows]
        /\ arg' = [arg EXCEPT ![s].page =
             Kept(s, l, IF x.state = "OK" /\ x.rows = <<>> /\ @ > 1 THEN @ - 1 ELSE @)]
  /\ load' = [load EXCEPT ![s] = Without(@, {l})]
  /\ doubt' = doubt \cup Twice(list'["bookmark"])
  /\ UNCHANGED <<db, tap>>

-----------------------------------------------------------------------------
(* The bookmark button (processBookmark).  The request holds the row and    *)
(* the model object; while it is pending its list is under a progress view. *)
TapBookmark(s) ==
  /\ Uncovered(s) /\ Untapped
  /\ \E i \in DOMAIN list[s] :
       tap' = [state |-> "sent", screen |-> s, row |-> i, item |-> list[s][i], id |-> 0]
  /\ UNCHANGED <<db, list, arg, load, doubt>>

Says(state, id) == tap' = [tap EXCEPT !.state = state, !.id = id]

(* Posts in answers that are still on their way to a list.                  *)
InTransit ==
  {p \in Post : \E s \in Screen : \E l \in DOMAIN load[s] :
     \E i \in DOMAIN load[s][l].rows : load[s][l].rows[i].post = p}

(* createFavourite: one favourite per post, and of a post that exists.      *)
AnswerAdd ==
  /\ tap.state = "sent" /\ ~tap.item.on
  /\ LET p == tap.item.post
         k == Len(db.issued) + 1
     IN /\ IF p \in db.post \ DOMAIN db.fav
           THEN /\ k \in Ids
                /\ db' = [db EXCEPT !.fav = With(@, p, k), !.issued = Append(@, p)]
                /\ Says("OK", k)
           ELSE UNCHANGED db /\ Says("CONFLICT", 0)
        /\ doubt' = doubt \cup ({p} \cap InTransit)
  /\ UNCHANGED <<list, arg, load>>

(* removeFavourite goes by the favourite id that the app remembers.         *)
AnswerRemove ==
  /\ tap.state = "sent" /\ tap.item.on
  /\ LET P == {p \in DOMAIN db.fav : db.fav[p] = tap.item.id}
     IN /\ db' = [db EXCEPT !.fav = Without(@, P)]
        /\ Says(IF P = {} THEN "CONFLICT" ELSE "OK", 0)
        /\ doubt' = doubt \cup (P \cap InTransit)
  /\ UNCHANGED <<list, arg, load>>

(* No answer arrives; whether the request did is not known.                 *)
LoseTap ==
  /\ ~Untapped
  /\ doubt' = doubt \cup {tap.item.post}
  /\ tap' = Idle
  /\ UNCHANGED <<db, list, arg, load>>

First(S) == CHOOSE i \in S : \A j \in S : i <= j

(* NOTIFICATION_ADD_BOOKMARK and _REMOVE_BOOKMARK: which rows a list has     *)
(* then.  Both observers look the post up.                                  *)
Noted(s, q, m) ==
  LET S == Rows(q, m.post)
  IN CASE s = "bookmark" /\ m.on /\ S = {} -> Append(q, m)
       [] s = "bookmark" /\ ~m.on /\ S # {} -> RemoveAt(q, First(S))
       [] OTHER -> q

(* Mutant: the observers trust the row of the request.                      *)
TouchedRow(s, q, p) == {IF s = "all" THEN {tap.row} ELSE {}}

(* The rows of q that are set.  The list of all posts sets the first row of  *)
(* the post; any other row of it may be the same object.                    *)
Touched(s, q, p) ==
  {S \in SUBSET Rows(q, p) : s = "all" /\ Rows(q, p) # {} => First(Rows(q, p)) \in S}

Mark(q, S, m) == [i \in DOMAIN q |->
  IF i \in S THEN [q[i] EXCEPT !.on = m.on, !.id = m.id] ELSE q[i]]

Lists(s, q, m) == LET r == Noted(s, q, m) IN {Mark(r, S, m) : S \in Touched(s, r, m.post)}

Notify(q, m) ==
  \E a \in Lists("all", q["all"], m), b \in Lists("bookmark", q["bookmark"], m) :
    list' = [s \in Screen |-> IF s = "all" THEN a ELSE b]

(* The model after the answer; a number is kept only while it may be used.  *)
Toggled == [tap.item EXCEPT !.on = ~@, !.id = tap.id]

(* The list of bookmarks first drops the row that was tapped.               *)
Dropped ==
  IF tap.screen = "all" THEN list
  ELSE [list EXCEPT !["bookmark"] = RemoveAt(@, tap.row)]

RowGone == tap.screen = "bookmark" /\ tap.row \notin DOMAIN list["bookmark"]

(* Mutant: the list of bookmarks drops the row and tells nobody.            *)
ReceiveTapAlone ==
  /\ tap.state = "OK" /\ ~RowGone
  /\ IF tap.screen = "all" THEN Notify(Dropped, Toggled) ELSE list' = Dropped
  /\ tap' = Idle
  /\ UNCHANGED <<db, arg, load, doubt>>

ReceiveTap ==
  /\ tap.state = "OK" /\ ~RowGone
  /\ Notify(Dropped, Toggled)
  /\ tap' = Idle
  /\ UNCHANGED <<db, arg, load, doubt>>

(* remove(at:) of a row that is no longer there stops the app.              *)
Crash ==
  /\ tap.state = "OK" /\ RowGone
  /\ list' = [s \in Screen |-> <<>>]
  /\ load' = [s \in Screen |-> [l \in {} |-> 0]]
  /\ tap' = Idle
  /\ arg' = [s \in Screen |-> [arg[s] EXCEPT !.page = 1]]
  /\ UNCHANGED <<db, doubt>>

(* An alert.                                                                *)
ReceiveConflict ==
  /\ tap.state = "CONFLICT"
  /\ tap' = Idle
  /\ UNCHANGED <<db, list, arg, load, doubt>>

-----------------------------------------------------------------------------
(* Other users create posts and delete them, favourites included.           *)
(* Mutant: nothing cascades from the post to its favourites.                *)
WithdrawAlone ==
  /\ \E p \in db.post : db' = [db EXCEPT !.post = @ \ {p}]
  /\ UNCHANGED <<list, arg, load, tap, doubt>>

Publish ==
  /\ db.last < MaxPost
  /\ db' = [db EXCEPT !.post = @ \cup {db.last + 1}, !.last = @ + 1]
  /\ UNCHANGED <<list, arg, load, tap, doubt>>

Withdraw ==
  /\ \E p \in db.post : db' = [db EXCEPT !.post = @ \ {p}, !.fav = Without(@, {p})]
  /\ UNCHANGED <<list, arg, load, tap, doubt>>

Loading(s) ==
  \/ Refresh(s) \/ LoadMore(s) \/ Choose(s)
  \/ \E l \in LoadId : AnswerLoad(s, l) \/ RefuseLoad(s, l) \/ LoseLoad(s, l)
                         \/ RetryLoad(s, l) \/ ReceiveLoad(s, l)

Tapping == AnswerAdd \/ AnswerRemove \/ LoseTap \/ ReceiveTap \/ ReceiveConflict \/ Crash

Next ==
  \/ \E s \in Screen : Loading(s) \/ TapBookmark(s)
  \/ Tapping \/ Publish \/ Withdraw

Spec == Init /\ [][Next]_vars

-----------------------------------------------------------------------------
(* When nothing is pending, both lists show of every post whether the       *)
(* server has it marked, and under which number, unless the post is gone,   *)
(* the list shows it twice (pages shift when posts are added; of two rows   *)
(* in the bookmarks one stays when the mark is removed elsewhere), or a     *)
(* request about it was reported lost or overtook a load.  It takes the     *)
(* observers of one screen to keep up with the button of the other (AllVC:  *)
(* didReceiveAddBookmarkNotification, didReceiveRemoveBookmarkNotification, *)
(* roomCVCellDelegate).                                                     *)
MarksShown ==
  Settled =>
    \A s \in Screen : \A i \in DOMAIN list[s] :
      LET x == list[s][i]
      IN x.post \in db.post \ doubt /\ Rows(list[s], x.post) = {i} =>
           /\ x.on = (x.post \in DOMAIN db.fav)
           /\ x.on => x.id = db.fav[x.post]

(* However requests, answers and screens overlap, a number that a list      *)
(* keeps for a marked post was issued for that post: the button never       *)
(* removes the bookmark of another one (BaseVC.processBookmark,             *)
(* FavouriteController.remove).                                             *)
NumbersFit ==
  \A s \in Screen : \A i \in DOMAIN list[s] :
    list[s][i].on => /\ list[s][i].id \in DOMAIN db.issued
                     /\ db.issued[list[s][i].id] = list[s][i].post
=============================================================================
