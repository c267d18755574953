------------------------------ MODULE AppSession ------------------------------
(***************************************************************************)
(* One account and the phone of its user: signing in and out, the start-up *)
(* that loads the reference tables and logs the stored user in again, and  *)
(* the notifications that tell the phone the user's role in a room.        *)
(*                                                                         *)
(* The phone has a main queue (Alamofire's completions and whatever the    *)
(* code dispatches to it), one background thread per start-up load, and    *)
(* Home's handlers of role notifications on a concurrent queue.  `stored'  *)
(* and `table' are in the Realm file and survive; the rest is lost when    *)
(* the app stops.                                                          *)
(***************************************************************************)
EXTENDS Naturals, Sequences

CONSTANTS Roles, Member,  \* roles of a tenant, and the one a new user has
          Changes,        \* how often the password is changed at most
          Notes,          \* how many role notifications are pushed at most
          Tables,         \* reference tables (utilities, cities, districts)
          None

ASSUME RolesAssumption == Member \in Roles /\ None \notin Roles
ASSUME SizesAssumption == Changes \in Nat /\ Notes \in Nat /\ Tables \in Nat \ {0}

Passwords == 0..Changes    \* the first one and those it is changed to
Noti     == 1..Notes
Screens  == {"home", "account"}
Loaders  == Screens \cup {"root"}
Row      == [pw : Passwords, role : Roles]
LogIn    == Tables + 1     \* the step of a load after the tables
SignInAt == 0              \* the request of the sign-in form, before a load

ASSUME NoneAssumption  == None \notin Nat /\ None \notin Row

VARIABLES
  account,  \* the server's row of the user
  change,   \* role an editMember has pushed and not yet committed, or None
  note,     \* notifications/users/<id> in Firebase
  stored,   \* the UserModel of the Realm file, or None
  table,    \* copies of each reference table in the Realm file
  ready,    \* BaseVC.successLoaded
  app,      \* "off", "first" (FirstLaunchVC) or "tabs" (MainTabBarVC)
  screen,   \* what each screen shows
  loader,   \* the load each screen, or the tab bar, has started
  main,     \* the main queue
  home,     \* password in Home's copy of the user; None: not set up
  heard,    \* notifications the observer has been given
  task,     \* Home's handler of each notification
  form      \* the row the profile or preferences form was opened with, or None

server == <<account, change, note>>
realm  == <<stored, table>>
phone  == <<ready, app, screen, loader, main, home, heard, task, form>>
vars   == <<server, realm, phone>>

Quiet    == [pc |-> "idle", at |-> 1, pw |-> None, loaded |-> FALSE, spoilt |-> FALSE]
Looking  == [Quiet EXCEPT !.pc = "look"]
NoTask   == [st |-> "idle", pw |-> None]
Unsent   == [st |-> "none", role |-> None]

Reply(l, ok, r) == [do |-> "answer", of |-> l, ok |-> ok, role |-> r]
Fill(t)         == [do |-> "add", of |-> t]
Done(s)         == [do |-> "done", of |-> s]
Final(ok)       == [do |-> "final", of |-> ok]
Save(row)       == [do |-> "save", of |-> row]
Prefer(row)     == [do |-> "prefer", of |-> row]
Write(row)      == [do |-> "write", of |-> row]
MainTask ==
  [do : {"answer"}, of : Loaders, ok : BOOLEAN, role : Roles \cup {None}]
    \cup [do : {"add"}, of : 1..Tables] \cup [do : {"done"}, of : Screens]
    \cup [do : {"final"}, of : BOOLEAN] \cup [do : {"save", "prefer", "write"}, of : Row]

\* The types of the variables, and that the app shows screens, holds copies and
\* hears notifications only while it runs (loss of memory at a stop).
TypeOK ==
  /\ account \in Row /\ change \in Roles \cup {None}
  /\ note \in [Noti -> [st : {"none", "new", "read", "lost"}, role : Roles \cup {None}]]
  /\ stored \in Row \cup {None} /\ table \in [1..Tables -> Nat]
  /\ ready \in BOOLEAN /\ app \in {"off", "first", "tabs"}
  /\ screen \in [Screens -> {"none", "loading", "shown", "error"}]
  /\ loader \in [Loaders -> [pc : {"idle", "look", "asked", "answered", "check"},
                   at : 0..LogIn, pw : Passwords \cup {None}, loaded : BOOLEAN, spoilt : BOOLEAN]]
  /\ main \in Seq(MainTask)
  /\ home \in Passwords \cup {None} /\ heard \subseteq Noti
  /\ task \in [Noti -> [st : {"idle", "queued", "stored"}, pw : Passwords \cup {None}]]
  /\ form \in Row \cup {None}
  /\ app # "tabs" => home = None /\ heard = {} /\ \A s \in Screens : screen[s] = "none"

TypeInit ==
  /\ stored = None /\ table = [t \in 1..Tables |-> 0] /\ ready = FALSE /\ app = "off"
  /\ screen = [s \in Screens |-> "none"] /\ loader = [l \in Loaders |-> Quiet] /\ main = <<>>
  /\ home = None /\ heard = {} /\ task = [n \in Noti |-> NoTask] /\ form = None

Init ==
  /\ account = [pw |-> 0, role |-> Member] /\ change = None /\ note = [n \in Noti |-> Unsent]
  /\ TypeInit

-------------------------------------------------------------------------------
(* The server: a room owner saves a list of members, a password is changed.  *)

\* editMember has set the role and calls pushNoti, still inside its transaction;
\* setValueAsync is not waited for, so the notification may be lost.
\* Bound: saves that leave the role as it is are left out.
BeginChange(r) ==
  /\ change = None /\ r # account.role
  /\ \E n \in Noti : /\ \A k \in Noti : note[k].st = "none" <=> k >= n
                     /\ \E st \in {"new", "lost"} : note' = [note EXCEPT ![n] = [st |-> st, role |-> r]]
  /\ change' = r /\ UNCHANGED <<account, realm, phone>>

\* The transaction commits, or rolls back after the push.
EndChange(commit) ==
  /\ change # None
  /\ account' = IF commit THEN [account EXCEPT !.role = change] ELSE account
  /\ change' = None /\ UNCHANGED <<note, realm, phone>>

\* changePassword asked for on this phone, which then stores the row it has again
\* with the password it had; or resetPassword, from anywhere.
\* Bound: a new password is one that was not used before.
NewPassword ==
  /\ account.pw < Changes
  /\ account' = [account EXCEPT !.pw = @ + 1] /\ UNCHANGED <<change, note, realm, phone>>

\* The server answers a request of load l, or refuses it, or the phone gives up.
\* Whatever happens, the completion is put into the main queue.
Answer(l) ==
  /\ loader[l].pc = "asked"
  /\ \E ok \in BOOLEAN :
       /\ ok /\ loader[l].at \in {SignInAt, LogIn} => loader[l].pw = account.pw
       /\ main' = Append(main, Reply(l, ok, IF ok THEN account.role ELSE None))
  /\ loader' = [loader EXCEPT ![l].pc = "answered"]
  /\ UNCHANGED <<server, realm, ready, app, screen, home, heard, task, form>>

-------------------------------------------------------------------------------
(* Starting and stopping.                                                    *)

\* The process ends: what is not in the Realm file is gone.
Stop ==
  /\ ready' = FALSE /\ app' = "off" /\ screen' = [s \in Screens |-> "none"]
  /\ loader' = [l \in Loaders |-> Quiet] /\ main' = <<>> /\ home' = None
  /\ heard' = {} /\ task' = [n \in Noti |-> NoTask] /\ form' = None

\* addUser runs on the main thread: nothing else does between its two writes.
MainFree == main # <<>> => Head(main).do # "write"

Full(tab) == \A t \in 1..Tables : tab[t] # 0

\* setupUI of the tab bar loads the views of all tabs, each of which calls
\* checkAndLoadInitData; `on' are those that find the network.  Without a stored
\* user the app stops (getUser()!).
SetupTabs(rdy, on, rest) ==
  IF stored = None THEN Stop
  ELSE /\ screen' = [s \in Screens |-> IF s \notin on THEN "error" ELSE IF rdy THEN "shown" ELSE "loading"]
       /\ loader' = [l \in Loaders |-> IF l \in on /\ ~rdy THEN Looking ELSE Quiet]
       /\ home' = IF rdy /\ "home" \in on THEN stored.pw ELSE None
       /\ ready' = rdy /\ app' = "tabs" /\ main' = rest
       /\ UNCHANGED <<heard, task, form>>

\* MainViewVC.checkLogin, then MainTabBarVC.viewDidLoad.
Launch ==
  /\ app = "off"
  /\ IF stored = None
       THEN app' = "first" /\ UNCHANGED <<ready, screen, loader, main, home, heard, task, form>>
       ELSE \/ /\ app' = "tabs" /\ loader' = [loader EXCEPT !["root"] = Looking]
               /\ UNCHANGED <<ready, screen, main, home, heard, task, form>>
            \/ \E on \in SUBSET Screens : SetupTabs(FALSE, on, <<>>)
  /\ UNCHANGED <<server, realm>>

Kill == app # "off" /\ Stop /\ UNCHANGED <<server, realm>>

-------------------------------------------------------------------------------
(* A load: its background thread.                                            *)

\* Is the table there?  If not, ask and wait; after the tables, log the stored user in.
LookUp(l) ==
  /\ loader[l].pc = "look"
  /\ loader' = [loader EXCEPT ![l] =
       IF @.at < LogIn /\ table[@.at] # 0 THEN [@ EXCEPT !.at = loader[l].at + 1]
       ELSE IF @.at < LogIn               THEN [@ EXCEPT !.pc = "asked"]
       ELSE IF stored = None              THEN [@ EXCEPT !.pc = "check"]
       ELSE [@ EXCEPT !.pc = "asked", !.pw = stored.pw]]
  /\ UNCHANGED <<server, realm, ready, app, screen, main, home, heard, task, form>>

Rest(l) == [Quiet EXCEPT !.spoilt = loader[l].spoilt]

\* The end of a screen's load.  A table that is still missing ends it without a
\* word; a refused login puts an error view on the screen.
Check(l) ==
  /\ loader[l].pc = "check"
  /\ loader' = [loader EXCEPT ![l] = Rest(l)]
  /\ IF l = "root"
       THEN main' = Append(main, Final(loader[l].loaded)) /\ UNCHANGED <<ready, screen>>
       ELSE /\ ready' = (Full(table) /\ loader[l].loaded)
            /\ main' = IF ready' THEN Append(main, Done(l)) ELSE main
            /\ screen' = IF Full(table) /\ ~loader[l].loaded /\ app = "tabs"
                           THEN [screen EXCEPT ![l] = "error"] ELSE screen
  /\ UNCHANGED <<server, realm, app, home, heard, task, form>>

-------------------------------------------------------------------------------
(* The main queue.  Each action takes its head.                              *)

AtHead(do) == main # <<>> /\ Head(main).do = do

\* Every load that runs finds the tables emptied.
Emptied == [l \in Loaders |-> [loader[l] EXCEPT !.spoilt = @ \/ loader[l].pc # "idle"]]
NoTables == [t \in 1..Tables |-> 0]

(* Mutant: the rows of an answer are not handed to the main queue.         *)
AnswerTableForgets(l, ok) ==
  /\ loader' = [loader EXCEPT ![l].pc = "look", ![l].at = @ + 1, ![l].spoilt = @ \/ ~ok]
  /\ main' = Tail(main) /\ UNCHANGED <<realm, app>>

\* The completion of a request of load l.
AnswerTable(l, ok) ==
  /\ loader' = [loader EXCEPT ![l].pc = "look", ![l].at = @ + 1, ![l].spoilt = @ \/ ~ok]
  /\ main' = IF ok THEN Append(Tail(main), Fill(loader[l].at)) ELSE Tail(main)
  /\ UNCHANGED <<realm, app>>

(* Mutant: a refused login does not leave the dispatch group.              *)
AnswerLogInStays(l, ok, r) ==
  /\ loader' = IF ok THEN [loader EXCEPT ![l].pc = "check", ![l].loaded = TRUE] ELSE loader
  /\ stored' = IF ok THEN [pw |-> loader[l].pw, role |-> r] ELSE stored
  /\ main' = Tail(main) /\ UNCHANGED <<table, app>>

\* fetchUserData: the answer is stored with the password that was sent.
AnswerLogIn(l, ok, r) ==
  /\ loader' = [loader EXCEPT ![l].pc = "check", ![l].loaded = ok]
  /\ stored' = IF ok THEN [pw |-> loader[l].pw, role |-> r] ELSE stored
  /\ main' = Tail(main) /\ UNCHANGED <<table, app>>

\* SignInVC.requestUser: everything is deleted, the user stored, the tab bar shown.
AnswerSignIn(l, ok, r) ==
  /\ main' = Tail(main)
  /\ IF ok THEN /\ stored' = [pw |-> loader[l].pw, role |-> r] /\ table' = NoTables
                /\ app' = "tabs" /\ loader' = [loader EXCEPT ![l] = Looking]
           ELSE loader' = [loader EXCEPT ![l] = Quiet] /\ UNCHANGED <<realm, app>>

TakeAnswer ==
  /\ AtHead("answer")
  /\ LET m == Head(main)
     IN  CASE loader[m.of].at = SignInAt -> AnswerSignIn(m.of, m.ok, m.role)
           [] loader[m.of].at = LogIn    -> AnswerLogIn(m.of, m.ok, m.role)
           [] OTHER                      -> AnswerTable(m.of, m.ok)
  /\ UNCHANGED <<server, ready, screen, home, heard, task, form>>

(* Mutant: the second look before the rows are added is left out.          *)
AddTableAgain ==
  /\ AtHead("add")
  /\ table' = [table EXCEPT ![Head(main).of] = @ + 1] /\ main' = Tail(main)
  /\ UNCHANGED <<server, stored, ready, app, screen, loader, home, heard, task, form>>

\* The rows of a table are added unless somebody else has added them.
AddTable ==
  /\ AtHead("add")
  /\ table' = [table EXCEPT ![Head(main).of] = IF @ = 0 THEN @ + 1 ELSE @]
  /\ main' = Tail(main)
  /\ UNCHANGED <<server, stored, ready, app, screen, loader, home, heard, task, form>>

\* The completion of a screen's load: Home copies the stored user (and stops the
\* app when there is none) and registers for role notifications.
ShowScreen(s, rest) ==
  IF s = "home" /\ stored = None THEN Stop
  ELSE /\ screen' = [screen EXCEPT ![s] = IF app = "tabs" THEN "shown" ELSE @]
       /\ home' = IF s = "home" /\ app = "tabs" THEN stored.pw ELSE home
       /\ main' = rest /\ UNCHANGED <<ready, app, loader, heard, task, form>>

Complete == AtHead("done") /\ ShowScreen(Head(main).of, Tail(main)) /\ UNCHANGED <<server, realm>>

\* The end of the tab bar's own load.
SetUp ==
  /\ AtHead("final")
  /\ \E on \in SUBSET Screens : SetupTabs(Full(table) /\ Head(main).of, on, Tail(main))
  /\ UNCHANGED <<server, realm>>

\* The completion of editUser.  addUser deletes the whole Realm file, and then writes.
EmptyRealm ==
  /\ AtHead("save")
  /\ stored' = None /\ table' = NoTables
  /\ main' = <<Write(Head(main).of)>> \o Tail(main) /\ form' = None /\ loader' = Emptied
  /\ UNCHANGED <<server, ready, app, screen, home, heard, task>>

\* The completion of saveSuggestSetting: the copy the form was opened with is stored.
StoreCopy ==
  /\ AtHead("prefer")
  /\ stored' = Head(main).of /\ main' = Tail(main) /\ form' = None
  /\ UNCHANGED <<server, table, ready, app, screen, loader, home, heard, task>>

\* The second write of addUser: the row is added unless there is one by now.
WriteUser ==
  /\ AtHead("write")
  /\ stored' = IF stored = None THEN Head(main).of ELSE stored
  /\ main' = Tail(main)
  /\ UNCHANGED <<server, table, ready, app, screen, loader, home, heard, task, form>>

-------------------------------------------------------------------------------
(* Role notifications.                                                       *)

\* The observer is given a notification, in whatever order the keys have; only a
\* new one is posted, and only a Home that is set up handles it.
Deliver(n) ==
  /\ app = "tabs" /\ screen["home"] # "none" /\ MainFree
  /\ note[n].st = "new" /\ n \notin heard
  /\ heard' = heard \cup {n}
  /\ task' = IF home = None THEN task ELSE [task EXCEPT ![n] = [st |-> "queued", pw |-> home]]
  /\ UNCHANGED <<server, realm, ready, app, screen, loader, main, home, form>>

\* updateUIForRoleInRoomNotification: Home's copy of the user, with the role of the
\* notification, replaces the stored row or becomes it.
Store(n) ==
  /\ task[n].st = "queued"
  /\ stored' = [pw |-> task[n].pw, role |-> note[n].role]
  /\ task' = [task EXCEPT ![n].st = "stored"]
  /\ UNCHANGED <<server, table, ready, app, screen, loader, main, home, heard, form>>

(* Mutant: a handled notification stays new.                               *)
MarkNot(n) ==
  /\ task[n].st = "stored"
  /\ task' = [task EXCEPT ![n] = NoTask]
  /\ UNCHANGED <<server, realm, ready, app, screen, loader, main, home, heard, form>>

\* ... and then its status becomes NEW_LOADED.
Mark(n) ==
  /\ task[n].st = "stored"
  /\ note' = [note EXCEPT ![n].st = "read"]
  /\ task' = [task EXCEPT ![n] = NoTask]
  /\ UNCHANGED <<account, change, realm, ready, app, screen, loader, main, home, heard, form>>

\* The user opens it in the list: SEEN.
TapNote(n) ==
  /\ n \in heard /\ note[n].st = "new" /\ MainFree
  /\ note' = [note EXCEPT ![n].st = "read"]
  /\ UNCHANGED <<account, change, realm, phone>>

-------------------------------------------------------------------------------
(* The user.                                                                 *)

\* A tap on an error view asks checkAndLoadInitData again.
Retry(s) ==
  /\ screen[s] = "error" /\ MainFree
  /\ IF ready THEN ShowScreen(s, main)
     ELSE /\ screen' = [screen EXCEPT ![s] = "loading"] /\ loader' = [loader EXCEPT ![s] = Looking]
          /\ UNCHANGED <<ready, app, main, home, heard, task, form>>
  /\ UNCHANGED <<server, realm>>

(* Mutant: the observer of the notifications is not taken away.            *)
SignOutListening ==
  /\ app = "tabs" /\ screen["account"] = "shown" /\ MainFree /\ form = None
  /\ stored' = None /\ table' = NoTables /\ ready' = FALSE /\ app' = "first"
  /\ screen' = [s \in Screens |-> "none"] /\ home' = None /\ loader' = Emptied
  /\ UNCHANGED <<server, main, heard, task, form>>

\* The settings are reached from a loaded account screen only.  What loads, requests
\* and handlers of notifications are still to do is not taken back.
SignOut ==
  /\ app = "tabs" /\ screen["account"] = "shown" /\ MainFree /\ form = None
  /\ stored' = None /\ table' = NoTables /\ ready' = FALSE /\ app' = "first"
  /\ screen' = [s \in Screens |-> "none"] /\ home' = None /\ heard' = {} /\ loader' = Emptied
  /\ UNCHANGED <<server, main, task, form>>

\* Bound: the loads of the former session are over.
SignIn(p) ==
  /\ app = "first" /\ main = <<>> /\ \A l \in Loaders : loader[l].pc = "idle"
  /\ loader' = [loader EXCEPT !["root"] = [Quiet EXCEPT !.pc = "asked", !.at = SignInAt, !.pw = p]]
  /\ UNCHANGED <<server, realm, ready, app, screen, main, home, heard, task, form>>

\* The profile form and the preferences form work on a copy of the stored user.
OpenForm ==
  /\ app = "tabs" /\ screen["account"] = "shown" /\ form = None /\ stored # None /\ MainFree
  /\ form' = stored
  /\ UNCHANGED <<server, realm, ready, app, screen, loader, main, home, heard, task>>

DropForm ==
  /\ form # None /\ form' = None
  /\ UNCHANGED <<server, realm, ready, app, screen, loader, main, home, heard, task>>

\* editUser or saveSuggestSetting was answered with OK; one answer at a time.
SaveForm ==
  /\ form # None /\ \A i \in DOMAIN main : main[i].do \notin {"save", "prefer"}
  /\ \E t \in {Save(form), Prefer(form)} : main' = Append(main, t)
  /\ UNCHANGED <<server, realm, ready, app, screen, loader, home, heard, task, form>>

-------------------------------------------------------------------------------
RunMain == TakeAnswer \/ AddTable \/ Complete \/ SetUp \/ EmptyRealm \/ StoreCopy \/ WriteUser
Thread(l) == LookUp(l) \/ Check(l)

Next ==
  \/ \E r \in Roles : BeginChange(r)
  \/ \E commit \in BOOLEAN : EndChange(commit)
  \/ NewPassword
  \/ \E p \in Passwords : SignIn(p)
  \/ \E l \in Loaders : Answer(l) \/ Thread(l)
  \/ RunMain
  \/ \E n \in Noti : Deliver(n) \/ Store(n) \/ Mark(n) \/ TapNote(n)
  \/ \E s \in Screens : Retry(s)
  \/ Launch \/ Kill \/ SignOut \/ OpenForm \/ DropForm \/ SaveForm

Spec == Init /\ [][Next]_vars

\* Requests time out, the main queue is served and threads run; nothing is asked
\* of the user, the server or Firebase.
Fairness ==
  /\ WF_vars(RunMain)
  /\ \A l \in Loaders : WF_vars(Answer(l)) /\ WF_vars(Thread(l))
FairSpec == Spec /\ Fairness

-------------------------------------------------------------------------------
\* requestArray and requestUtilitiesArray: two screens that load at the same time
\* never add the rows of one table twice.
OneCopy == \A t \in 1..Tables : table[t] <= 1

\* fetchUserData and the DispatchGroup: whoever waits, waits for something that is
\* still to come.  A load in its group's wait has its completion in the main queue; a
\* screen under a progress view has a load that runs, or its completion in the queue,
\* or a load that was spoilt; tabs without screens have the tab bar's own load to
\* bring them, or its end in the queue.
NoDeadWait ==
  /\ \A l \in Loaders : loader[l].pc = "answered" =>
       \E i \in DOMAIN main : main[i].do = "answer" /\ main[i].of = l
  /\ \A s \in Screens : screen[s] = "loading" =>
       \/ loader[s].pc # "idle" \/ loader[s].spoilt
       \/ \E i \in DOMAIN main : main[i].do = "done" /\ main[i].of = s
  /\ app = "tabs" /\ (\A s \in Screens : screen[s] = "none") =>
       \/ loader["root"].pc # "idle"
       \/ \E i \in DOMAIN main : main[i].do = "final"

\* fetchUserData and the DispatchGroup: a screen's progress view ends, in the screen
\* or in an error view that can be tapped, unless a table could not be read or was
\* deleted while the load ran.
WaitEnds == \A s \in Screens :
  screen[s] = "loading" ~> (screen[s] # "loading" \/ loader[s].spoilt)

AtRest ==
  /\ home # None /\ main = <<>>
  /\ \A l \in Loaders : loader[l].pc = "idle"
  /\ \A n \in Noti : task[n].st = "idle"

\* fetchUserData and updateUIForRoleInRoomNotification: whatever notifications were
\* lost, late, handled twice or about a change that was rolled back, and whatever
\* copies were stored over the role, an app that is started again and again ends
\* with the role the server knows.
RoleSettles == []<>(app = "off") => <>[](AtRest => stored.role = account.role)

\* SettingVC: "User session is removed" by signing out; no user stays stored.
SignedOut == app = "first" => stored = None
===============================================================================
