# Roommate / ASP: a verification project

*Roommate* (project "Accommodation Sharing Platform", ASP) lets house owners
offer rooms, lets tenants live in them, and lets tenants look for rooms and
room-mates.  Two programs make the system:

* `backend/asp` - a Spring Boot server: REST controllers for the app, JSP pages
  for the administrator, JPA/Hibernate on MySQL (InnoDB), notifications pushed
  to the Firebase Realtime Database;
* `IOS-UI/Roommate` - the iOS app of owners and tenants (Swift, Alamofire,
  Realm, Firebase), which holds copies of what it last loaded and sends whole
  lists and whole objects back.

All state of the application is in MySQL, all *rules* are spread over both
programs.  That is what this project is about: which rules survive stale
screens, overlapping handlers, lost answers and replayed notifications.

## 1. Inventory

| Component | State | Operations | Correct when |
|---|---|---|---|
| Room handlers (`RoomController`, `RoomService`, `RoomHasUserService`) | `tb_room`, `tb_room_has_user`, `tb_user.role_id` | createRoom, updateRoom, deleteRoom, editMember, removeMember, queries | the rental history is never falsified; one home per user; one ROOM_MASTER per occupied room; never more tenants than `max_guest` |
| Administrator pages (`PageController`) | `tb_room.status_id`, `tb_user` | approveRoom, declineRoom, deleteUser | what is approved is what was reviewed; removing an owner leaves no trace of the rooms |
| Accounts (`UserController`, `UserService`) | `tb_user` | login, createUser, updateUser, changePassword, resetPassword, findExitedUserInRoom | a user is "free" only when in no room; a profile update does not undo a role change |
| Owner's screens (`AccountVC`, `RoomDetailVC`, `EditMemberVC`, `CERoomVC`) | room list, editor copy, form | load, edit members, create, update, remove | what is sent is what the rules allow, although it is computed from old data |
| Notifications (`FireBaseService`, `NotificationVC`, `AccountVC`, `HomeVC`) | Firebase `notifications/users/<id>` with status NEW, NEW_LOADED, SEEN | push, observe, tap, replay at start-up | the phone ends up showing what the database says |
| Posts (`PostController`, `PostService`, `CERoomPostVC`, `CERoommatePostVC`, `PostDetailVC`) | `tb_post`, `tb_post_has_tb_district`, `tb_post_has_utility` | create, update, delete, refresh by updateRoom, removal by deleteRoom | a room post belongs to a room that exists; partial creation leaves nothing |
| Favourites and bookmarks (`FavouriteController`, `BaseVC.processBookmark`, `AllVC`, `HomeVC`, `ShowAllVC`) | `tb_favourite`, one list of objects per screen | add, remove, screen-to-screen callbacks | one favourite per user and post; every screen shows it |
| Search, filters, suggestions (`Filter`, `BookmarkFilter`, `UtilsService`) | none of their own | filter, search, suggest | the result is exactly the matching posts, in the order asked for |
| Ratings (`RoomRateController`, `UserRateController`) | `tb_room_rate`, `tb_user_rate` | save, averages | one rating per pair; averages of no ratings |
| Search preferences (`ReferenceController`) | `tb_reference`, `tb_district_reference`, `tb_utilities_reference` | replace-all | the preferences are the last ones saved, whole |
| Paged lists (`AllVC`, `ShowAllVC`) | page counter, accumulated list | load, load more, refresh | every post is reached once |
| Start-up of the app (`BaseVC.checkAndLoadInitData`, `MainTabBarVC`) | Realm tables, progress view | load reference data, log the stored user in | it ends, and with all tables loaded |
| Sessions and passwords (`SignInVC`, `ChangePasswordVC`, `ResetPasswordVC`, `DBManager`) | stored credentials | sign in, change, reset, log out | the stored password is the one that logs in |
| Reference data, images (`CityController`, `ImageController`, `AmazonService`, ...) | read-only tables, S3 objects | list, upload | no protocol of their own |

Components meet at four places: HTTP requests (Alamofire gives up after its
timeout, the handler goes on), the shared tables (one transaction per
`@Transactional` handler, one per repository call in the others; REPEATABLE READ,
no `@Version`, no locks taken on purpose), Firebase (asynchronous, at least once
per launch as long as the status is NEW, in key order, and keys are random), and
objects shared between screens of the app.

The behaviours that are hard to test: two handlers on the same rows; a check made
on the phone and used on the server later; a lost answer followed by a retry; a
notification applied twice or after a newer one; a whole-row `UPDATE` that
carries columns read long before; handlers that are no transaction.  `PROJECT.json`
lists each at its line ("hazards").

## 2. Modules

| Module | Models | Extends / uses |
|---|---|---|
| `RoomDb` | `tb_user`, `tb_room`, `tb_room_has_user`; what each handler that touches rooms reads, accepts and writes; how Hibernate executes writes on rows that others have changed meanwhile | - |
| `RoomServer` | Tomcat's handlers around it: requests in flight, snapshots, commits, rollbacks, the push of room decisions, the administrator | `RoomDb` |
| `OwnerApp` | the owners' phones: room list, member editor, room form, removal, notifications, timeouts, relaunch | `RoomServer`; `Tenancy` by refinement |
| `Tenancy` | abstract: what the rental history promises | - |
| `RoomPosts` | room posts and favourites on the server, handlers that are no transaction step by step | - |
| `PostLists` | the app's lists of all and of bookmarked posts, paging, the bookmark button, answers in any order | - |
| `AppSession` | one account and the phone of its user: sign-in and sign-out, the start-up loads, the stored user, role notifications, forms that store old copies | - |
| `MatePosts` | room-mate posts and search preferences: overlapping transactions that replace lists as a whole | `LatestSave` by refinement |
| `LatestSave` | abstract: what the search preferences promise | - |
| `RoomDbProofs`, `OwnerAppProofs`, `RoomPostsProofs`, `PostListsProofs`, `AppSessionProofs`, `MatePostsProofs` | the theorems | the module each is named after, `TLAPS` |
| `OwnerAppOvertakenProofs`, `PostListsMarksProofs` | the theorems about handlers that are overtaken, and about the bookmark marks | `OwnerAppProofs`, `PostListsProofs` |
| `MCOwnerApp`, `MCRoomPosts`, `MCPostLists`, `MCAppSession`, `MCMatePosts` | small instances for TLC | |

### How state and actions correspond to the code

**`RoomDb`.** `db` is a record of three tables; a table is a function from the
primary keys that are present.  A handler is split in three operators: `Accepts`
(the guards and early returns, evaluated on the snapshot it read), `WritesOf` (the
rows its persistence context ends up with, one operator per handler:
`CreateWrites`, `UpdateWrites`, `DeleteWrites`, `EditWrites`, `DecideWrites`,
`ProfileWrites`, `DeleteUserWrites`) and `Apply` (the execution of these writes on
the database as it is at the commit).  This is the split that the code has:
entities are read in REPEATABLE READ, changed in memory and flushed as whole rows.
`Dirty` is Hibernate's dirty check.  `ProfileWrites` is what `updateUser`,
`changePassword` and `resetPassword` do to `role_id`: the row is written back with
the role that was read.  Columns that no property tells apart (names, prices,
addresses, dates other than "closed or open") are left out here.

**`RoomServer`.** An exchange goes `sent -> running -> (pushing ->) answered`.
`Begin` takes the snapshot, `Refuse` is an early return, `Commit` executes the
writes when every row is still there and the foreign keys hold, `Rollback` is any
other end (deadlock, stale row, foreign key, a server that dies).  `Push` and
`LosePush` are `FireBaseService.pushNoti` after the decision's transaction.  `spent`
makes AUTO_INCREMENT never return a key.  `Office` is the administrator with pages
that may be old, and the profile screens of any user.

**`OwnerApp`.** One phone per client.  `view` is `AccountVC`'s rooms with the cached
status and capacity, `editor` the copies `EditMemberVC` works on.  `LoadRooms`,
`Hear`, `Tap` (notifications, applied to the cached list), `OpenEditor`,
`CloseEditor`, `RemoveMember`, `AddMember`, `ChooseMaster`, `SaveMembers`,
`CreateRoom`, `TypeCapacity`, `UpdateRoom`, `RemoveRoom` are the handlers of the
buttons; `Receive`, `GiveUp` and `Relaunch` are the answer, Alamofire's timeout and
a new start of the app.  `AddMember` asks `findExitedUserInRoom`; between its answer
and the save anything may happen.  `TypeCapacity` is `CERoomVC` writing the typed
capacity into the room object that the list and the editor share.

**`RoomPosts`.** `createRoomPost`, `updateRoomPost` and `createFavourite` are not
transactional: each call of a repository is a step (`CheckAuthor`, `SavePost`,
`ReadUtilities`, `CopyUtility`, `SaveDistrict`; `ReadPost`, `WritePost`;
`CheckFavourite`, `SaveFavourite`), and `Fail` may strike between any two.
`deletePost`, `deleteRoom` and the part of `updateRoom` that refreshes posts read a
snapshot and commit once.  Tenants move and change masters as `editMember` lets
them, in one step, because that handler is the matter of `RoomDb`.  Rooms are there
from the start and may be removed; when all of them are, nothing can happen any more,
which is why the configurations of this module switch the deadlock check off.

**`PostLists`.** `list` is what the screens show, `arg` the one `FilterArgumentModel`
object all requests of a screen share, `load` the requests that are pending or lie
under an error view, `tap` the bookmark request.  `Refresh`, `LoadMore`, `Choose`
(order menu and filter), `AnswerLoad`, `RefuseLoad`, `LoseLoad`, `RetryLoad`,
`ReceiveLoad` are the life of a load; `TapBookmark`, `AnswerAdd`, `AnswerRemove`,
`LoseTap`, `ReceiveTap`, `ReceiveConflict` that of a bookmark.  `Crash` is
`rooms.remove(at:)` with an index that is gone.  Rows are values; where the code
shares one object between rows, `Touched` leaves open which other rows of the same
post follow.  A post keeps its place in the order.  `doubt` is a history variable:
the posts of which a screen may show the wrong mark until it loads again, because the
answer about them was lost, a load was under way when the mark changed, or the bookmarks
show the post twice.  `Chosen` (the posts of a listing, in its order) is a recursive function,
so that it can be proved about.

**`AppSession`.** The phone has a main queue (`main`: Alamofire's completions and
whatever the code dispatches to the main thread), one background thread per start-up
load (`loader`), and a concurrent queue for Home's handlers of role notifications
(`task`).  `stored` and `table` are the Realm file and survive `Kill`; everything else
is lost by `Stop`, which is also what a forced unwrap of a missing user does.
`Launch` is `MainViewVC.checkLogin` with `MainTabBarVC.viewDidLoad`: either the tab
bar loads first (loader `root`), or its screens each start a load of their own.
A load goes through the tables one by one (`LookUp`, `Answer`, `AnswerTable`,
`AddTable`), then logs the stored user in (`AnswerLogIn`), then `Check` decides between
the screen, an error view and silence.  `Answer` covers an answer, a refusal and a
timeout; all of them call the completion.  `EmptyRealm` and `WriteUser` are the two
write transactions of `DBManager.addUser`, between which the app can be killed but
nothing else can run on the main thread.  `BeginChange` / `EndChange` is `editMember`
with its push before the commit; `Deliver`, `Store`, `Mark` are the observer and
`updateUIForRoleInRoomNotification`, which stores Home's copy of the user with the
role of the notification, whole.  `SignOut` takes the observer and the Realm file away
and leaves what is already queued.  `OpenForm`, `SaveForm`, `StoreCopy` are the profile
and preferences forms with the copy they were opened with.

**`MatePosts`.** `createRoommatePost`, `updateRoommatePost`, `deletePost`,
`createReference` and `deleteUser` are one transaction each, and so is `updateRoom`,
which reaches these tables by mistake: it removes the utilities of the post that has
the room's number (`deleteAllPostHasUtilityByPostId(roomId)`, `RoomController.java:182`),
and rooms and posts have keys of their own that both count from one, so that this may be a
room-mate post.  `BeginUpdateRoom` picks any such post, and `CommitUpdateRoom` removes
the utilities that the snapshot saw.  `Begin...` takes the snapshot, `Commit...` needs what the flush needs - Hibernate's row counts on the rows it
deletes, the primary key of `tb_reference`, the foreign keys - and writes everything,
`Rollback` is any other end.  A list (utilities, districts) is a set of request
numbers: the rows one request wrote are inserted and deleted together.  A price is the
number of its request.  `IsNewest` is decided on the snapshot.  `CommitNewest` contains
the case of a null `reference`, whose exception is caught inside the transaction and
would commit half of the work; `PostHasReference` says that it never occurs.
`deleteUser` forgets the utilities of the posts and the preferences, so that it succeeds
only for a user who has neither; the model says so in its guard, and the mutant that
drops the guard shows that the foreign keys are what it stands for.

### The abstract specifications

`Tenancy` knows only stays, keys ever used and rooms ever approved.  A stay begins
open, in an approved room, for someone who is not an owner; it may end, once; a
room's stays are forgotten together.  `OwnerApp` implements it under
`stay <- db.row, used <- spent.row`: `Commit` of an edit is `Settle`, of a removal
(or of an owner's account) `Purge`, of an approval `Vet`, everything else stutters.

`LatestSave` knows one number per user: the request whose content the preferences
are.  A save replaces it by a later one.  `MatePosts` implements it under
`pref <- ref` where price, utilities and districts agree, and a value outside the
type (`Torn`) where they do not: a mixture of two requests, or a return to an older one,
is no step of `LatestSave`.

## 3. Runs

| Run | Instance | Shows |
|---|---|---|
| `serial` | one owner, two tenants, two rooms, three stays, one handler at a time, approvals, profile updates and removals of users, a phone that waits for its answers | `TypeOK`; `OneMaster`: an occupied room has exactly one ROOM_MASTER; `OneHome`: nobody lives in two rooms; `MasterHasHome`: a ROOM_MASTER lives somewhere; through edits, profile updates, approvals and removals |
| `concurrent` | one owner, one tenant, one room, two handlers at a time, a phone that gives up, retries and is relaunched | `OwnersDoNotRent`, `TenantsNeedApproval`, `RentalHistory` (refinement of `Tenancy`); `MastersKeepHome` and `RoomsKeepMaster`: nobody is left ROOM_MASTER without a home, and no occupied room without its one ROOM_MASTER, except by a handler that was overtaken on that very user, or on one of these tenants |
| `overtaken` | one owner, two tenants, one room, two handlers at a time, approvals and profile updates | `MastersKeepHome`, `RoomsKeepMaster` with a list that hands the role from one tenant to the other while either's profile is written |
| `two_owners` | two owners with a phone each, two rooms, one tenant, approvals and removals of owners | `RoomsKeepMaster` where both owners may take the tenant, and where an owner is removed who had the tenant before |
| `race` | two owners, two rooms, even one handler at a time | `OneHome` violated |
| `typed` | one owner, patient | `WithinCapacity` violated |
| `posts_overlap` | one tenant, two handlers, three favourite numbers, failures inside handlers | `TypeOK` (foreign keys of favourites), `Findable`, `NoResurrection`; `OnlyOverlapOrphans`: a post loses its room only to a `createRoomPost` and a `deleteRoom` that overlap; `MarksBounded`: a user marks a post no more often than there are handlers, however many requests come |
| `number` | room and post numbers overlap | `OthersUntouched` violated |
| `lists` | three posts, pages of two, two favourites ever, one load and one bookmark request pending | `TypeOK`, `NumbersFit`, `MarksShown` |
| `session` | one reference table, one role notification, one change of the password, the three loads, kills at any moment | `TypeOK` (with: nothing survives a stop), `OneCopy`: no table is filled twice; `NoDeadWait`: whoever waits waits for something that is still to come; under fairness `WaitEnds`: no progress view waits for ever, and `RoleSettles`: an app that is started again and again ends with the server's role |
| `signed_out` | as above, no change of the password | `SignedOut` violated |
| `mates` | two tenants, three posts, two transactions at a time, five requests, any post with the number of some room | `TypeOK` (keys), `PrefsWhole`, `PostWhole` (price and districts are of one request; the utilities are of the same, or a room's update took them all), `PostHasReference`, `SavesInOrder` (refinement of `LatestSave`) |

*Bounds and why they are enough.*  Every hazard of the list needs at most two
handlers, two users and two rooms, or a user that returns (three stays).  The third stay
lets a tenant leave and come back while another stays.  Capacities matter to
`WithinCapacity` alone, and `typed` has the two that it takes to differ.  No passing
instance has a room DECLINED, which would multiply its states by those of one more kind of
notification: to the properties checked, a DECLINED room is one that is not
APPROVED, as is a PENDING one.  Posts: one is enough for handlers that meet on it, and
`number` has two, so that one can be another's victim; with the one tenant of `posts_overlap`
a change of masters changes nothing, and a second tenant with three favourite numbers does
not end within minutes (the theorems leave both open).  There are two rows per utility in
`posts_overlap` for a utility copied twice, and three favourite numbers so that a third favourite would fit where two handlers run.  Lists: three
posts over pages of two make a full page, a short one and the shift that shows a
post twice; two favourite numbers let a bookmark be removed and set again.
Overtaken handlers: two tenants are the least for a room whose master changes while
somebody stays, two owners the least for a stay elsewhere that is remembered.  Each clause
that `MastersKeepHome` and `RoomsKeepMaster` except was left out once, and TLC then
finds a handler that needs it: the overtaken handler in `concurrent` and `overtaken`, the
removed owner and the tenant who lives elsewhere in `two_owners`, the tenants of the
snapshot and the list that names no master in the instance of `overtaken` with
`Impatient = {p1}` (which, with profile updates, is too large for a run of a few minutes).
Sessions: one table is enough for two loads to race for it, and further tables only
lengthen a load; one notification, of any role, may be lost, late or about a change
that is rolled back; one answer of a form is under way at a time; a sign-in waits until
the loads of the former session are over; signing out is done with no form open, so that
the answer of a form cannot come after it.  Mates: five requests are two that create, two that
overlap on what was created, and one that comes after; three posts make newest,
older and deleted differ.
The instances are symmetric in keys, exchanges and (where they start alike) tenants.

*Why some properties are checked on a serial server only.*  `OneMaster`, `OneHome` and
`MasterHasHome` are rules that the code keeps only as long as handlers do
not overlap and, for the first two, as long as one phone waits for its answers.  `race` is a
counterexample; section 4 names the instances of others.  No server runs that way:
Tomcat has a pool of request threads.  These three are therefore checked for what they
show of the sequential logic, and are not stated as theorems.  What overlapping
handlers do keep of the ROOM_MASTER rules is said by `MastersKeepHome` and `RoomsKeepMaster`,
and of posts and favourites by `OnlyOverlapOrphans` and `MarksBounded`: the runs with two
handlers check them, and they are proved without any such hypothesis.

*Fairness.*  Only `AppSession` has liveness, under `FairSpec`: weak fairness of the
main queue (`RunMain`: iOS runs it as long as the process lives), of every answer (`Answer`:
Alamofire's timeout calls the completion when nothing else does) and of every loader
thread (`Thread`: the dispatch group's wait ends, because each completion leaves the
group).  Nothing is asked of the user, of the server's transactions or of Firebase: a
notification may stay new, or a handler of it queued, for ever.  `RoleSettles` speaks about
behaviours in which the app is stopped again and again, by the user or by iOS, because
no handler of a running app corrects a role that went wrong; only the next login does.
The loads of `WaitEnds` that may end without a word (`spoilt`) are those that met a table that
could not be read or was deleted meanwhile: `checkAndLoadInitData` has no branch for them.

*Mutants.*  Every property of a passing run has a mutated handler that breaks it
(`PROJECT.json`, "mutants"); the mutated operators stand next to the originals.

## 4. What the runs found

* **Two homes** (`race`): `editMember` inserts a stay without asking again whether
  the tenant is free.  Two owners who looked the tenant up before either saved both
  get the tenant; `getCurrentRoom` then throws.
* **Overfull rooms** (`typed`): a capacity typed into the form and abandoned is used by
  the member editor.
* **Someone else's utilities** (`number`): `updateRoom` passes the room's number to
  `deleteAllPostHasUtilityByPostId`.  The post of that number may be of another room,
  or a room-mate post, which then has no utilities until its author saves it again
  (`PostWhole` in `mates` says that this is the only way to lose them).
* **Signed out, and in again** (`signed_out`): a handler of a role notification that was
  queued before the user signed out, or the answer of a start-up login, stores the user
  with the password again; the next start goes straight into the account.

Known and reproducible on other instances of the same modules, without a run of their own:

* *Two room masters*: `OneMaster` in `MCOwnerAppOvertaken.cfg` with `Impatient = {p1}` and approvals only.
  corrected list is saved; both insert their master.
* *A ROOM_MASTER without a home*: `MasterHasHome` in `overtaken`.  `updateUser` writes the whole row of a
  user it read before the owner's edit ended the stay; the role MASTER is back.
* *A master is demoted from outside*: `RoomsKeepMaster` without `Remembers` in `two_owners`.
  `deleteUser` walks over all rows of the owner's rooms, closed stays included, and demotes any ROOM_MASTER among their
  users, who may lead another owner's room by now.
* *A post without a room, a post marked twice*: both are states of `posts_overlap`.
  `createRoomPost` and `createFavourite` look and then insert,
  in transactions of their own.
* *Unapproved rooms are edited*: with an impatient phone, an `edit` runs on a room that is
  PENDING in its snapshot.  The status is only read from the phone's copy, and a timed
  out update, or an approval reported again after a relaunch, leaves it APPROVED.
* *A page is skipped*: `PostLists` with `PageSize = 1` and two posts; after a full page
  `LoadMore` asks for the page after the next one (`rooms.count/MAX_OFFSET+2`,
  `AllVC.swift:547`), so that the posts in between are never shown.

* *A bookmark that stays*: a post that the list of bookmarks shows twice (a page is asked for
  after the posts have moved) keeps its second row when its mark is removed from another screen:
  `AllVC.swift:394-395` removes the first row only.  The attempt to prove `MarksShown`
  found this, and TLC confirms it with `PageSize = 1`, `MaxId = 3` when `ReceiveLoad`
  leaves `doubt` alone; `MarksShown` therefore leaves such a post out until it is loaded
  again, and says all of the others.

Divergences met while reading, without a run of their own:

* the documents say that the next member is promoted when a ROOM_MASTER is removed
  (`Doc/Doc Final/ASP_Sumary.docx`); the only code that does so is `removeMember`, which no
  screen calls, while the member editor refuses to save without a master;
* the documents let only room masters update a room post; `updateRoomPost` asks for
  the author, not for the role;
* a change of the password is never recorded in the Realm file: the next start logs in with
  the old one, is refused, and shows error views from which one cannot sign out either;
* an edited profile empties the reference tables (`addUser` deletes the file) while
  `successLoaded` stays true: screens that need them find nothing until the next start;
* a tenant with a room-mate post or with preferences cannot be removed by the
  administrator: `deleteUser` always fails on a foreign key, and answers with an error page;
* `requestRoom` does not ask whether an answer is still wanted: the answer to a former
  filter may end up in the list of the new one (`PostLists` with two loads).

## 5. Theorems

*Rooms* (`RoomDbProofs`, `OwnerAppProofs`), for every value of the constants that
satisfies the named assumptions (`CapacityAssumption`, `RoleAssumption`,
`HolderAssumption`, `NoOneAssumption`): any number of users, rooms, stays, phones,
handlers and requests in flight.

| Theorem | States |
|---|---|
| `TypeCorrect` | `Spec => []TypeOK` |
| `OwnersNeverRent` | `Spec => []OwnersDoNotRent` |
| `TenantsHaveApproval` | `Spec => []TenantsNeedApproval` |
| `HistoryIsFaithful` | `Spec => RentalHistory`: `OwnerApp` implements `Tenancy` |

None of the three safety results is inductive as it stands: a handler commits what it
computed from a snapshot that may be old by then, from a request a phone composed
from copies older still.  The inductive invariant therefore speaks about every copy:

* `Typed` = `TypeOK` and `ForeignKeys(db)`; without the foreign keys `MembersShown`
  could apply `role` outside its domain;
* `Clean`: no owner and no room that was never approved occurs as, or in, a
  member list, a stay or a role - in the database, in every snapshot, in every
  request in flight, in every editor and list on a phone, in every notification.
  `AddMember` keeps it because `MayMoveIn` refuses owners, and who is an owner
  never changes; `OpenEditor` because a copy that says APPROVED is of a room in
  `vetted`, which only grows;
* `Recorded`: keys in use are spent, and a row that a snapshot and the database both
  have is the same stay.  This makes `RowsStillThere` (Hibernate's row count) and the
  foreign keys enough for a commit on an old snapshot to be a `Settle` or a `Purge`.

`RoomDbProofs` carries the lemmas about the operators: `WritesFacts` (every handler's
writes are typed and come from its request and its snapshot) and `ApplyFacts` (what
their execution does to each row).  The temporal step of each theorem combines
`Init => Inv`, `Inv /\ [Next]_vars => Inv'` and `Inv => P` by PTL.

*Rooms, when handlers overlap* (`OwnerAppOvertakenProofs`), under the same assumptions:

| Theorem | States |
|---|---|
| `MastersKeepHomeHolds` | `Spec => MastersKeepHome`, an action property |
| `RoomsKeepMasterHolds` | `Spec => RoomsKeepMaster`, an action property |

There is no bound on handlers, owners or phones, and no phone has to wait.  Only a commit
changes roles and stays (`OnlyCommits`), so that both are about one commit, of a handler
that read `d`, on a database `e` that it finds at the flush, which gives `n`.  `EditAfter`,
`RemoveAfter` and `KeepAfter` say what `n` is after `editMember`, after the two handlers that
remove rooms, and after all others (`CommitAfter`); the invariants `Typed` and `Recorded`
are what makes a row of `d` the same row in `e`.  Where `d` and `e` agree on a user
(`Agree`, which is `UpToDate`), whoever leaves with the commit is demoted by it
(`CommitHome`).  Where they agree on all tenants of a room, either the room's list is the
one the handler was sent, or each tenant is as before, because what the handler writes
about other rooms does not reach somebody who lives here only (`EditElsewhere`,
`RemoveElsewhere`, `CommitMaster`).

*Mates* (`MatePostsProofs`), for any number of users, posts, transactions and requests,
under `RequestsAssumption`, `NoPostAssumption` and `IdleAssumption`:

| Theorem | States |
|---|---|
| `TypeCorrect` | `Spec => []TypeOK` |
| `PreferencesStayWhole` | `Spec => []PrefsWhole` |
| `PostsStayWhole` | `Spec => []PostWhole` |
| `AuthorsHavePreferences` | `Spec => []PostHasReference` |
| `SavesInOrderHolds` | `Spec => SavesInOrder`: `MatePosts` implements `LatestSave` |

A commit writes what a snapshot says, so the inductive invariant `IInv` adds what a
snapshot has to do with the tables (`SnapWhole`): it was whole when it was taken, it is older
than its transaction's own number, an update's author had preferences in it, and
preferences that were there have not gone since.  With `Numbered` (no number is in use
before it is handed out) a snapshot that still fits (`PrefsFit`) is exactly what
the tables hold, so that the commit replaces all of it (`SavePrefsFacts`): that gives
wholeness and the order of saves at once.

A post is whole for the same reason, but its utilities may have gone to a room's update since
the snapshot, or before it.  `Dated` gives the argument: a post's price is the number
of the request that wrote it last, no two requests share one, and until a later request rewrites
the post its utilities only become fewer (`NotRegained`; `Follows` says so of every
commit).  So a snapshot that saw no utilities knows that there are none now, and one that
saw some fits only if they are still there: what `updateRoommatePost` leaves is its own rows
and nothing besides.

*Posts* (`RoomPostsProofs`), for any number of users, rooms, posts and handlers:

| Theorem | States |
|---|---|
| `TypeCorrect` | `Spec => []TypeOK` |
| `NoResurrectionHolds` | `Spec => NoResurrection`, an action property |
| `FindableHolds` | `Spec => []Findable` |
| `OnlyOverlapOrphansHolds` | `Spec => OnlyOverlapOrphans`, an action property |
| `MarksBoundedHolds` | `Spec => []MarksBounded` |

The assumptions are those on numbers (`NumberAssumption`), on the bound `Copies`
(`CopiesAssumption`) and `SlotAssumption`: the handlers that may run at a time are finitely
many, as Tomcat's request threads are; how many is left open.  `TypeOK` already speaks about what
handlers and transactions remember, which is what makes it inductive; the lemma of each
action shows `TypeOK'` together with the action's effect on the tables, and the other
results only use these effects.

`OnlyOverlapOrphans` rests on `RoomsFit`: a remembered post may be stale, but not in its
room, which no handler changes, and a number that a handler remembers is spent.  So the
row that `updateRoomPost` puts back, and everything else that is written from memory,
leaves each post with the room it has; `deleteRoom` takes along what its snapshot saw
of the room, and a row that is gone by then makes it roll back.

`MarksBounded` is not inductive: one favourite and two handlers past the check make three.
`MarksFit` counts both: of one user and one post, the favourites plus the handlers that passed
`CheckFavourite` and have not ended (`Makers`) are at most as many as there are slots (`Few`).
A handler joins only while there is no favourite, so that the sum is then the number of
handlers, and each has a slot of its own; `SaveFavourite` turns a handler into a
favourite, and all else makes either fewer.

*Lists* (`PostListsProofs`, `PostListsMarksProofs`), under `BoundAssumption`, for any number
of posts, listings, pages and pending loads:

| Theorem | States |
|---|---|
| `TypeOKHolds` | `Spec => []TypeOK` |
| `NumbersFitHolds` | `Spec => []NumbersFit` |
| `MarksShownHolds` | `Spec => []MarksShown` |

The invariant `IInv` follows a favourite's number wherever it travels: the rows of both
lists, the pages in answers, the object of a bookmark request and its answer.  Each number
is one that `db.issued` gave to that very post, and a number is never issued again.  The
lemmas about sequences say that inserting, removing and appending rows keeps every row
in this state.  What the server answers is a page of `Chosen`, a recursive function; that it
holds only posts that exist is shown by the least place at which it would not (`FirstIn`,
`ChosenTyped`), since an induction theorem cannot be cited.

`MarksShown` speaks about moments at which nothing is pending.  Its invariant
`MarksInv` says, of every post that is there and not in `doubt`, what is known of it at all
other moments: each list tells the mark the server has, until the answer to the bookmark request
of this post has come but is not yet in the lists (`ListsTell`); that answer tells it
(`TapTells`); so does every page that a load brings (`LoadsTell`, because a post whose mark
changes under a load goes into `doubt`).  The bookmarks show such a post at most once, and
only if it is marked.

*Session* (`AppSessionProofs`), for any number of tables, passwords and notifications, under
`RolesAssumption`, `SizesAssumption` and `NoneAssumption`:

| Theorem | States |
|---|---|
| `OneCopyHolds` | `Spec => []OneCopy` |
| `TypeOKHolds` | `Spec => []TypeOK` |
| `NoDeadWaitHolds` | `Spec => []NoDeadWait` |

The invariant of the first, `Copies`, says of each table that it is empty or loaded once: `AddTable`
looks at the table in the same turn of the main queue in which it writes.

`TypeOK` is not inductive: what is stored is put together from a load, an answer
and a notification that met in a queue.  `Typed` adds their agreement (`Queued`, `Handled`): a load that
waits for a login has sent a password (`Sent`); an answer in the main queue belongs to a load that
waits for it, one answer each (`Answered`); while the tab bar's own load runs, or its end waits
in the queue, no screen is there and no other load runs (`RootFirst`); an app that is off
has nothing left to do (`Rested`); a handler of a notification has a password, and its
notification a role.

`NoDeadWait` is the safety half of `WaitEnds`: with fairness, what is still to come does come.  It
is not inductive either, because a screen's load ends without a word when a table is missing.
`WaitInv` says why none is, unless the load is `spoilt` (`Fed`): the rows of the tables it has passed
are in the Realm file or in the main queue; when the answer to its login is in the queue, they
are ahead of it; when the load is at its end, all tables are there.  And a load
logs a user in who is stored: `UserThere` says that tabs are shown to a stored user
except between the two writes of `addUser`, in which nothing else runs on the main thread.

*Only model-checked*: `WaitEnds` and `RoleSettles` of `AppSession`, which are liveness;
`OneMaster`, `OneHome` and `MasterHasHome`, which need a server that runs one handler at a time (section 3); and all violations.  All other invariants and
action properties of passing runs are theorems.
*Out of the prover's reach*: liveness under fairness, `ENABLED`, induction over data,
and modules that reach a RECURSIVE operator; they stay with TLC.

## 6. Not modelled, and why

* Images, the upload to S3, reference data, layout, localisation, the administrator's
  JSP pages that only list: no state of the program's own.
* Vendored libraries (`Pods/`: Realm with its C++ headers, Firebase, Alamofire and
  others).  They are nearly all of the C++ in the repository, and nothing of the
  application is written in it: the server is Java, the apps are Swift.  The modules
  say how the application uses these libraries (a Realm write transaction, a completion on
  the main queue, a timeout), no more.  Every line that "map" names is Java or Swift.
* *Ratings* (`RoomRateController`, `UserRateController`): a row is looked for and then
  inserted or updated, the pattern that `createFavourite` has in `RoomPosts`.
* *Registration* (`createUser`): it asks and then inserts; the UNIQUE KEY on the username
  turns the second of two overlapping registrations into an error answer.
* `removeMember`: no screen calls it.
* In `OwnerApp`: posts (in `RoomPosts`); role notifications to tenants (in `AppSession`,
  nothing on the owners' side reads them); a key that is handed out again
  (AUTO_INCREMENT does not).
* `deleteUser` in `OwnerApp` removes rooms and stays; the rows of other tables make it
  roll back or not, which `Rollback` covers.
* In `RoomPosts`: the identity of utility rows (they are counted), rooms with more than
  one ROOM_MASTER (the matter of `RoomDb`), a tenant who leaves a room and returns to it
  during one handler.
* In `MatePosts`: what `updateRoom` does to the posts of its room, which is in `RoomPosts`;
  `deleteRoom`, which removes only posts that name the room, as room-mate posts do not.
* In `PostLists`: room-mate posts and their favourites, `HomeVC` and `ShowAllVC`, bookmark
  requests of two screens at once; the fields of a filter, of which only the resulting
  listing matters.  The view that says "no data" and covers the list is left out, and the
  page of a filter object is forgotten once no pending load can read it again.
* In `AppSession`: the answers of loads that a former session started, which no screen
  shows any more.
* The filters' predicates and the suggestions (`Filter`, `BookmarkFilter`, `UtilsService`):
  queries without state of their own.

## 7. Plan

In the order of importance:

1. *Runs to add*: approval of a content that was never seen (`approveRoom` saves the
   row it read); two role notifications that arrive out of order.
2. *Ratings* and *accounts*: look-then-insert handlers; averages.
3. *Lists of the home screen*: `HomeVC` and `ShowAllVC`, which share rows with `AllVC`.
4. *Filters and suggestions* as operators against a reference definition.
5. *Proofs*: what each of these modules promises.
