--------------------------- MODULE AppSessionProofs ---------------------------
(***************************************************************************)
(* Proofs about AppSession, for every number of reference tables, passwords*)
(* and notifications: however the loads of the screens overlap, no row of  *)
(* a reference table is added twice; type correctness, which needs that    *)
(* the main queue, the loads and the handlers of notifications agree; and  *)
(* that whoever waits waits for something that is still to come.           *)
(***************************************************************************)
EXTENDS AppSession, TLAPS

Copies == table \in [1..Tables -> 0..1]

\* Steps that leave the tables alone, or empty them.
LEMMA TablesKept == ASSUME Copies, table' \in {table, NoTables} PROVE Copies'
BY DEF Copies, NoTables

LEMMA ServerKeeps ==
  ASSUME \/ \E r \in Roles : BeginChange(r)
         \/ \E commit \in BOOLEAN : EndChange(commit)
         \/ NewPassword
         \/ \E p \in Passwords : SignIn(p)
         \/ \E l \in Loaders : Answer(l) \/ Thread(l)
  PROVE  table' = table
BY DEF BeginChange, EndChange, NewPassword, SignIn, Answer, Thread, LookUp, Check, realm

LEMMA AnswerKeeps == ASSUME Copies, TakeAnswer PROVE Copies'
<1>1. PICK m : \/ AnswerSignIn(m.of, m.ok, m.role)
               \/ AnswerLogIn(m.of, m.ok, m.role)
               \/ AnswerTable(m.of, m.ok)
  BY DEF TakeAnswer
<1>2. table' \in {table, NoTables}
  BY <1>1 DEF AnswerSignIn, AnswerLogIn, AnswerTable, realm
<1> QED
  BY <1>2, TablesKept

\* The rows are added in the main queue, after a second look.
LEMMA AddTableKeeps == ASSUME Copies, AddTable PROVE Copies'
<1>1. PICK t : table' = [table EXCEPT ![t] = IF @ = 0 THEN @ + 1 ELSE @]
  BY DEF AddTable
<1>2. ASSUME NEW k \in 1..Tables PROVE table'[k] \in 0..1
  BY <1>1 DEF Copies
<1>3. table' = [k \in 1..Tables |-> table'[k]]
  BY <1>1 DEF Copies
<1> QED
  BY <1>2, <1>3 DEF Copies

LEMMA RunMainKeeps == ASSUME Copies, RunMain PROVE Copies'
<1>1. CASE TakeAnswer
  BY <1>1, AnswerKeeps
<1>2. CASE AddTable
  BY <1>2, AddTableKeeps
<1>3. CASE Complete \/ SetUp \/ EmptyRealm \/ StoreCopy \/ WriteUser
  <2>1. table' \in {table, NoTables}
    BY <1>3 DEF Complete, SetUp, EmptyRealm, StoreCopy, WriteUser, realm
  <2> QED
    BY <2>1, TablesKept
<1> QED
  BY <1>1, <1>2, <1>3 DEF RunMain

LEMMA UserKeeps ==
  ASSUME \/ \E n \in Noti : Deliver(n) \/ Store(n) \/ Mark(n) \/ TapNote(n)
         \/ \E s \in Screens : Retry(s)
         \/ Launch \/ Kill \/ SignOut \/ OpenForm \/ DropForm \/ SaveForm
  PROVE  table' \in {table, NoTables}
BY DEF Deliver, Store, Mark, TapNote, Retry, Launch, Kill, SignOut, OpenForm, DropForm,
   SaveForm, realm

\* The utilities, cities and districts that every screen offers are in the Realm
\* file at most once each: the loads of two screens, and of the tab bar, may ask for
\* the same table at the same time, and files may be emptied in between.
THEOREM OneCopyHolds == Spec => []OneCopy
<1>1. Init => Copies
  BY DEF Init, TypeInit, Copies
<1>2. Copies /\ [Next]_vars => Copies'
  <2> SUFFICES ASSUME Copies, [Next]_vars PROVE Copies'
    OBVIOUS
  <2>1. CASE RunMain
    BY <2>1, RunMainKeeps
  <2>2. CASE Next /\ ~RunMain
    <3>1. table' \in {table, NoTables}
      BY <2>2, ServerKeeps, UserKeeps DEF Next
    <3> QED
      BY <3>1, TablesKept
  <2>3. CASE UNCHANGED vars
    BY <2>3, TablesKept DEF vars, realm
  <2> QED
    BY <2>1, <2>2, <2>3
<1>3. Copies => OneCopy
  BY DEF Copies, OneCopy
<1> QED
  BY <1>1, <1>2, <1>3, PTL DEF Spec
-------------------------------------------------------------------------------
(* Type correctness.  TypeOK is not inductive: an answer is stored with the *)
(* password of the load it is for, and a handler stores the role of its     *)
(* notification, so that the queues must agree with the loads and the notes.*)

\* A load that waits for the answer of a login has sent a password.
Sent(ld) ==
  \A l \in Loaders :
    /\ ld[l].at \in {SignInAt, LogIn} /\ ld[l].pc \in {"asked", "answered"} =>
         ld[l].pw \in Passwords
    /\ ld[l].at = SignInAt => l = "root" /\ ld[l].pc \in {"asked", "answered"}

\* An answer in the main queue is for a load that waits for it, one for each load.
IsAnswer(m, l) == m.do = "answer" /\ m.of = l
Answered(q, ld) ==
  /\ \A i \in DOMAIN q : \A l \in Loaders :
       IsAnswer(q[i], l) => ld[l].pc = "answered" /\ (q[i].ok => q[i].role \in Roles)
  /\ \A i, j \in DOMAIN q : \A l \in Loaders : IsAnswer(q[i], l) /\ IsAnswer(q[j], l) => i = j

\* While the tab bar's own load runs, or its end waits in the main queue, no screen
\* is there and no other load runs.
IsFinal(m) == m.do = "final"
Busy(q, ld) == ld["root"].pc # "idle" \/ \E i \in DOMAIN q : IsFinal(q[i])
RootFirst(q, ld, sc) ==
  /\ \A i \in DOMAIN q : IsFinal(q[i]) => ld["root"].pc = "idle"
  /\ \A i, j \in DOMAIN q : IsFinal(q[i]) /\ IsFinal(q[j]) => i = j
  /\ Busy(q, ld) => /\ \A s \in Screens : sc[s] = "none" /\ ld[s].pc = "idle"
                    /\ \A i \in DOMAIN q : q[i].do # "done"

\* An error view is on a screen whose load has ended; nothing is left to do when the
\* app does not run.
Rested ==
  /\ \A s \in Screens : screen[s] = "error" => loader[s].pc = "idle"
  /\ app = "off" => main = <<>> /\ form = None /\ \A l \in Loaders : loader[l].pc = "idle"

\* A handler has the password of a Home that is set up, and a notification with a role.
Handled ==
  \A n \in Noti :
    /\ note[n].st # "none" => note[n].role \in Roles
    /\ task[n].st # "idle" => task[n].pw \in Passwords /\ note[n].st # "none"

Queued == Sent(loader) /\ Answered(main, loader) /\ RootFirst(main, loader, screen) /\ Rested

Typed == TypeOK /\ Queued /\ Handled

-------------------------------------------------------------------------------
(* The main queue.                                                          *)

LEMMA TailAt ==
  ASSUME main \in Seq(MainTask), main # <<>>
  PROVE  /\ Tail(main) \in Seq(MainTask) /\ 1 \in DOMAIN main /\ Head(main) = main[1]
         /\ Head(main) \in MainTask
         /\ \A i \in DOMAIN Tail(main) :
              i \in Nat /\ i + 1 \in DOMAIN main /\ Tail(main)[i] = main[i + 1] /\ i + 1 # 1
OBVIOUS

LEMMA AppendAt ==
  ASSUME NEW q \in Seq(MainTask), NEW m \in MainTask
  PROVE  /\ Append(q, m) \in Seq(MainTask)
         /\ \A i \in DOMAIN Append(q, m) : \/ i \in DOMAIN q /\ Append(q, m)[i] = q[i]
                                           \/ i \notin DOMAIN q /\ i = Len(q) + 1
                                              /\ Append(q, m)[i] = m
OBVIOUS

LEMMA FrontAt ==
  ASSUME main \in Seq(MainTask), main # <<>>, NEW m \in MainTask
  PROVE  /\ <<m>> \o Tail(main) \in Seq(MainTask)
         /\ \A i \in DOMAIN (<<m>> \o Tail(main)) :
              /\ i \in DOMAIN main
              /\ (<<m>> \o Tail(main))[i] = IF i = 1 THEN m ELSE main[i]
OBVIOUS

LEMMA MessageFacts ==
  ASSUME NEW m \in MainTask
  PROVE  /\ m.do = "answer" => m.of \in Loaders /\ m.ok \in BOOLEAN /\ m.role \in Roles \cup {None}
         /\ m.do = "add" => m.of \in 1..Tables
         /\ m.do = "done" => m.of \in Screens
         /\ m.do = "final" => m.of \in BOOLEAN
         /\ m.do \in {"save", "prefer", "write"} => m.of \in Row
BY DEF MainTask

LEMMA MessageTypes ==
  /\ \A l \in Loaders, ok \in BOOLEAN, r \in Roles \cup {None} : Reply(l, ok, r) \in MainTask
  /\ \A t \in 1..Tables : Fill(t) \in MainTask
  /\ \A s \in Screens : Done(s) \in MainTask
  /\ \A ok \in BOOLEAN : Final(ok) \in MainTask
  /\ \A x \in Row : Save(x) \in MainTask /\ Prefer(x) \in MainTask /\ Write(x) \in MainTask
BY DEF MainTask, Reply, Fill, Done, Final, Save, Prefer, Write

\* What the agreement of queue and loads needs of a step.
LEMMA AnswersKept ==
  ASSUME NEW q, NEW ld, Answered(q, ld), NEW n,
         \A l \in Loaders : n[l].pc = ld[l].pc \/ ld[l].pc # "answered"
  PROVE  Answered(q, n)
BY DEF Answered

LEMMA AnswersTail ==
  ASSUME main \in Seq(MainTask), main # <<>>, Answered(main, loader), NEW n,
         \A l \in Loaders : n[l].pc = loader[l].pc \/ IsAnswer(Head(main), l),
         NEW r, r = Tail(main)
  PROVE  Answered(r, n)
<1>1. ASSUME NEW i \in DOMAIN Tail(main), NEW l \in Loaders, IsAnswer(Tail(main)[i], l)
      PROVE  /\ n[l].pc = "answered"
             /\ Tail(main)[i].ok => Tail(main)[i].role \in Roles
  <2>1. i + 1 \in DOMAIN main /\ Tail(main)[i] = main[i + 1] /\ i + 1 # 1  BY TailAt
  <2>2. ~IsAnswer(Head(main), l)  BY <1>1, <2>1, TailAt DEF Answered
  <2> QED  BY <1>1, <2>1, <2>2 DEF Answered
<1>2. ASSUME NEW i \in DOMAIN Tail(main), NEW j \in DOMAIN Tail(main), NEW l \in Loaders,
             IsAnswer(Tail(main)[i], l), IsAnswer(Tail(main)[j], l)
      PROVE  i = j
  <2>1. i \in Nat /\ j \in Nat /\ i + 1 = j + 1  BY <1>2, TailAt DEF Answered
  <2> QED  BY <2>1
<1> QED  BY <1>1, <1>2 DEF Answered

LEMMA AnswersAppend ==
  ASSUME NEW q \in Seq(MainTask), NEW ld, Answered(q, ld), NEW m \in MainTask,
         m.do # "answer", NEW n, \A l \in Loaders : n[l].pc = ld[l].pc \/ ld[l].pc # "answered",
         NEW r, r = Append(q, m)
  PROVE  Answered(r, n)
BY AppendAt DEF Answered, IsAnswer

LEMMA FirstQuiet ==
  ASSUME NEW q, NEW ld, NEW sc, ld["root"].pc = "idle", \A i \in DOMAIN q : ~IsFinal(q[i])
  PROVE  RootFirst(q, ld, sc)
BY DEF RootFirst, Busy

LEMMA NotBusy ==
  ASSUME NEW q, NEW ld, NEW sc, RootFirst(q, ld, sc), NEW s \in Screens,
         ld[s].pc # "idle" \/ sc[s] # "none"
  PROVE  ld["root"].pc = "idle" /\ \A i \in DOMAIN q : ~IsFinal(q[i])
BY DEF RootFirst, Busy

LEMMA FirstKept ==
  ASSUME NEW q, NEW ld, NEW sc, RootFirst(q, ld, sc), NEW n, NEW sc2,
         n["root"].pc = "idle" <=> ld["root"].pc = "idle",
         \A s \in Screens : /\ n[s].pc = "idle" <=> ld[s].pc = "idle"
                            /\ sc[s] = "none" => sc2[s] = "none"
  PROVE  RootFirst(q, n, sc2)
BY DEF RootFirst, Busy

LEMMA FirstTail ==
  ASSUME main \in Seq(MainTask), main # <<>>, RootFirst(main, loader, screen), NEW n, NEW sc2,
         n["root"].pc = "idle" <=> loader["root"].pc = "idle",
         \A s \in Screens : /\ n[s].pc = "idle" <=> loader[s].pc = "idle"
                            /\ screen[s] = "none" => sc2[s] = "none",
         NEW r, r = Tail(main)
  PROVE  RootFirst(r, n, sc2)
<1>1. Busy(Tail(main), n) => Busy(main, loader)  BY TailAt DEF Busy
<1>2. \A i, j \in DOMAIN Tail(main) :
        IsFinal(Tail(main)[i]) /\ IsFinal(Tail(main)[j]) => i + 1 = j + 1 /\ i \in Nat /\ j \in Nat
  BY TailAt DEF RootFirst
<1>3. \A i, j \in DOMAIN Tail(main) : IsFinal(Tail(main)[i]) /\ IsFinal(Tail(main)[j]) => i = j
  BY <1>2
<1> QED  BY <1>1, <1>3, TailAt DEF RootFirst

LEMMA FirstAppend ==
  ASSUME NEW q \in Seq(MainTask), NEW ld, NEW sc, RootFirst(q, ld, sc),
         NEW m \in MainTask, ~IsFinal(m), m.do # "done", NEW n, NEW sc2,
         n["root"].pc = "idle" <=> ld["root"].pc = "idle",
         \A s \in Screens : /\ n[s].pc = "idle" <=> ld[s].pc = "idle"
                            /\ sc[s] = "none" => sc2[s] = "none",
         NEW r, r = Append(q, m)
  PROVE  RootFirst(r, n, sc2)
BY AppendAt DEF RootFirst, Busy

-------------------------------------------------------------------------------
(* Steps that leave the queue and the loads alone.                          *)

LEMMA QueuedKept ==
  ASSUME Queued, UNCHANGED <<loader, main, screen, app>>, form' \in {form, None}
  PROVE  Queued'
BY DEF Queued, Rested

LEMMA ServerTyped ==
  ASSUME Typed, \/ \E r \in Roles : BeginChange(r)
                \/ \E commit \in BOOLEAN : EndChange(commit)
                \/ NewPassword
  PROVE  Typed'
<1>1. UNCHANGED <<stored, table, ready, app, screen, loader, main, home, heard, task, form>>
  BY DEF BeginChange, EndChange, NewPassword, realm, phone
<1>2. Queued'  BY <1>1, QueuedKept DEF Typed
<1>3. /\ account' \in Row /\ change' \in Roles \cup {None}
      /\ note' \in [Noti -> [st : {"none", "new", "read", "lost"}, role : Roles \cup {None}]]
      /\ Handled'
  <2>1. CASE \E r \in Roles : BeginChange(r)
    <3>1. PICK r \in Roles, n \in Noti, st \in {"new", "lost"} :
            note' = [note EXCEPT ![n] = [st |-> st, role |-> r]]
      BY <2>1 DEF BeginChange
    <3>2. change' \in Roles /\ account' = account  BY <2>1 DEF BeginChange
    <3> QED  BY <1>1, <3>1, <3>2 DEF Typed, TypeOK, Handled
  <2>2. CASE \E commit \in BOOLEAN : EndChange(commit)
    <3>1. note' = note /\ change' = None /\ account' \in {account, [account EXCEPT !.role = change]}
          /\ change \in Roles
      BY <2>2 DEF EndChange, Typed, TypeOK
    <3> QED  BY <1>1, <3>1 DEF Typed, TypeOK, Row, Handled
  <2>3. CASE NewPassword
    <3>1. /\ note' = note /\ change' = change /\ account.pw < Changes
          /\ account' = [account EXCEPT !.pw = @ + 1]
      BY <2>3 DEF NewPassword
    <3>2. account'.pw \in Passwords
      BY <3>1, SizesAssumption DEF Typed, TypeOK, Row, Passwords
    <3> QED  BY <1>1, <3>1, <3>2 DEF Typed, TypeOK, Row, Handled
  <2> QED  BY <2>1, <2>2, <2>3
<1> QED  BY <1>1, <1>2, <1>3 DEF Typed, TypeOK

LEMMA NoteTyped ==
  ASSUME Typed, NEW n \in Noti, Deliver(n) \/ Store(n) \/ Mark(n) \/ TapNote(n)
  PROVE  Typed'
<1>1. UNCHANGED <<account, change, table, ready, app, screen, loader, main, home, form>>
  BY DEF Deliver, Store, Mark, TapNote, realm, phone, server
<1>2. Queued'  BY <1>1, QueuedKept DEF Typed
<1> DEFINE Notes_ == [Noti -> [st : {"none", "new", "read", "lost"}, role : Roles \cup {None}]]
           Tasks_ == [Noti -> [st : {"idle", "queued", "stored"}, pw : Passwords \cup {None}]]
<1>3. note \in Notes_ /\ task \in Tasks_ /\ Handled /\ None \notin Passwords
  BY NoneAssumption DEF Typed, TypeOK, Passwords
<1>4. /\ stored' \in Row \cup {None} /\ heard' \subseteq Noti
      /\ note' \in Notes_ /\ task' \in Tasks_ /\ Handled'
      /\ app # "tabs" => heard' = {}
  <2>1. CASE Deliver(n)
    <3>1. note' = note /\ stored' = stored /\ heard' = heard \cup {n} /\ app = "tabs"
      BY <2>1 DEF Deliver, server, realm
    <3>2. \/ task' = task
          \/ home # None /\ task' = [task EXCEPT ![n] = [st |-> "queued", pw |-> home]]
      <4>1. CASE home = None   BY <2>1, <4>1 DEF Deliver
      <4>2. CASE home # None   BY <2>1, <4>2 DEF Deliver
      <4> QED  BY <4>1, <4>2
    <3>3. home # None => home \in Passwords  BY DEF Typed, TypeOK
    <3>4. note[n].st = "new"  BY <2>1 DEF Deliver
    <3>5. task' \in Tasks_  BY <1>3, <3>2, <3>3
    <3>6. Handled'  BY <1>3, <3>1, <3>2, <3>3, <3>4 DEF Handled
    <3> QED  BY <1>3, <3>1, <3>5, <3>6 DEF Typed, TypeOK
  <2>2. CASE Store(n)
    <3>1. /\ UNCHANGED <<note, heard>> /\ task[n].st = "queued"
          /\ stored' = [pw |-> task[n].pw, role |-> note[n].role]
          /\ task' = [task EXCEPT ![n].st = "stored"]
      BY <2>2 DEF Store, server
    <3>2. stored' \in Row  BY <1>3, <3>1 DEF Handled, Row
    <3>3. task' \in Tasks_  BY <1>3, <3>1
    <3>4. \A k \in Noti : task'[k].pw = task[k].pw /\ (task'[k].st # "idle" => task[k].st # "idle")
      BY <1>3, <3>1
    <3> QED  BY <1>3, <3>1, <3>2, <3>3, <3>4 DEF Typed, TypeOK, Handled
  <2>3. CASE Mark(n) \/ TapNote(n)
    <3>1. /\ UNCHANGED <<stored, heard>> /\ note[n].st # "none"
          /\ note' = [note EXCEPT ![n].st = "read"]
          /\ task' \in {task, [task EXCEPT ![n] = NoTask]}
      <4>1. CASE Mark(n)     BY <1>3, <4>1 DEF Mark, Handled, realm
      <4>2. CASE TapNote(n)  BY <4>2 DEF TapNote, realm, phone
      <4> QED  BY <2>3, <4>1, <4>2
    <3>2. note' \in Notes_  BY <1>3, <3>1
    <3>4. task' \in Tasks_  BY <1>3, <3>1 DEF NoTask
    <3>3. \A k \in Noti : /\ note'[k].role = note[k].role
                          /\ note'[k].st # "none" <=> note[k].st # "none"
                          /\ task'[k] \in {task[k], NoTask}
      BY <1>3, <3>1
    <3> QED  BY <1>3, <3>1, <3>2, <3>3, <3>4 DEF Typed, TypeOK, Handled, NoTask
  <2> QED  BY <2>1, <2>2, <2>3
<1> QED  BY <1>1, <1>2, <1>4 DEF Typed, TypeOK

LEMMA FormTyped ==
  ASSUME Typed, OpenForm \/ DropForm
  PROVE  Typed'
<1>1. UNCHANGED <<account, change, note, stored, table, ready, app, screen, loader, main,
                  home, heard, task>>
  BY DEF OpenForm, DropForm, server, realm
<1>2. form' \in Row \cup {None}  BY DEF OpenForm, DropForm, Typed, TypeOK
<1>3. Queued' /\ Handled'  BY <1>1 DEF Typed, Queued, Rested, Handled, OpenForm, DropForm
<1> QED  BY <1>1, <1>2, <1>3 DEF Typed, TypeOK

-------------------------------------------------------------------------------
(* The loads.                                                               *)

Load == [pc : {"idle", "look", "asked", "answered", "check"}, at : 0..LogIn,
         pw : Passwords \cup {None}, loaded : BOOLEAN, spoilt : BOOLEAN]

LEMMA LoadFacts ==
  /\ Quiet \in Load /\ Looking \in Load
  /\ Quiet.pc = "idle" /\ Looking.pc = "look" /\ Quiet.at = 1 /\ Looking.at = 1
  /\ 1 \in 1..LogIn /\ LogIn \in Nat /\ LogIn = Tables + 1 /\ LogIn # 0
  /\ "root" \in Loaders /\ "root" \notin Screens /\ Screens \subseteq Loaders
<1>1. Looking = [pc |-> "look", at |-> 1, pw |-> None, loaded |-> FALSE, spoilt |-> FALSE]
  <2>1. PICK ld : ld = [Quiet EXCEPT !.pc = "look"]  OBVIOUS
  <2>2. ld = [pc |-> "look", at |-> 1, pw |-> None, loaded |-> FALSE, spoilt |-> FALSE]
    BY <2>1 DEF Quiet
  <2> QED  BY <2>1, <2>2 DEF Looking
<1>2. 1 \in 1..LogIn /\ LogIn \in Nat /\ LogIn = Tables + 1 /\ LogIn # 0 /\ 1 \in 0..LogIn
  BY SizesAssumption DEF LogIn
<1>3. Quiet \in Load  BY <1>2 DEF Quiet, Load
<1>4. Looking \in Load  BY <1>1, <1>2 DEF Load
<1>5. Quiet.pc = "idle" /\ Looking.pc = "look" /\ Quiet.at = 1 /\ Looking.at = 1
  BY <1>1 DEF Quiet
<1> QED  BY <1>2, <1>3, <1>4, <1>5 DEF Loaders, Screens

\* A step that leaves the server, the notifications and their handlers alone.
LEMMA TypedStep ==
  ASSUME Typed, UNCHANGED <<account, change, note, task>>, stored' \in Row \cup {None},
         table' \in [1..Tables -> Nat], ready' \in BOOLEAN, app' \in {"off", "first", "tabs"},
         screen' \in [Screens -> {"none", "loading", "shown", "error"}],
         loader' \in [Loaders -> Load], main' \in Seq(MainTask), home' \in Passwords \cup {None},
         heard' \subseteq Noti, form' \in Row \cup {None},
         app' # "tabs" => home' = None /\ heard' = {} /\ \A s \in Screens : screen'[s] = "none",
         Queued'
  PROVE  Typed'
BY DEF Typed, TypeOK, Load, Handled

\* A step of the loads and of the queue only.
LEMMA LoadStep ==
  ASSUME Typed, UNCHANGED <<account, change, note, task, stored, table, ready, app, screen, home,
                            heard, form>>,
         loader' \in [Loaders -> Load], main' \in Seq(MainTask), Queued'
  PROVE  Typed'
BY DEF Typed, TypeOK, Load, Handled

LEMMA LoaderTyped ==
  ASSUME Typed
  PROVE  /\ loader \in [Loaders -> Load] /\ main \in Seq(MainTask)
         /\ \A l \in Loaders : loader[l] \in Load
BY DEF Typed, TypeOK, Load

LEMMA SignInTyped ==
  ASSUME Typed, NEW p \in Passwords, SignIn(p)
  PROVE  Typed'
<1>1. /\ UNCHANGED <<account, change, note, task, stored, table, ready, app, screen, home,
                     heard, form, main>>
      /\ app = "first" /\ main = <<>> /\ \A l \in Loaders : loader[l].pc = "idle"
  BY DEF SignIn, server, realm
<1>2. PICK ld : /\ ld = [Quiet EXCEPT !.pc = "asked", !.at = SignInAt, !.pw = p]
                /\ loader' = [loader EXCEPT !["root"] = ld]
  BY DEF SignIn
<1>3. ld = [pc |-> "asked", at |-> 0, pw |-> p, loaded |-> FALSE, spoilt |-> FALSE]
  BY <1>2 DEF Quiet, SignInAt
<1>4. ld \in Load /\ ld.pc = "asked" /\ ld.at = 0 /\ ld.pw = p
  BY <1>3, LoadFacts DEF Load
<1>5. /\ loader'["root"] = ld /\ \A s \in Screens : loader'[s] = loader[s]
      /\ loader' \in [Loaders -> Load]
      /\ \A l \in Loaders : l # "root" => loader'[l] = loader[l]
  BY <1>2, <1>4, LoaderTyped, LoadFacts
<1>6. Sent(loader')  BY <1>4, <1>5 DEF Sent, Typed, Queued
<1>7. Answered(main, loader')  BY <1>1 DEF Answered
<1>8. RootFirst(main, loader', screen)
  BY <1>1, <1>4, <1>5, LoadFacts DEF RootFirst, Typed, TypeOK
<1>9. Rested'  BY <1>1, <1>5, LoadFacts DEF Rested, Typed, Queued
<1> QED  BY <1>1, <1>5, <1>6, <1>7, <1>8, <1>9, LoadStep, LoaderTyped DEF Queued

LEMMA AnswerTyped ==
  ASSUME Typed, NEW l \in Loaders, Answer(l)
  PROVE  Typed'
<1>1. /\ UNCHANGED <<account, change, note, task, stored, table, ready, app, screen, home,
                     heard, form>>
      /\ loader[l].pc = "asked" /\ loader' = [loader EXCEPT ![l].pc = "answered"]
  BY DEF Answer, server, realm
<1>2. PICK ok \in BOOLEAN : main' = Append(main, Reply(l, ok, IF ok THEN account.role ELSE None))
  BY DEF Answer
<1>3. PICK m : m = Reply(l, ok, IF ok THEN account.role ELSE None)  OBVIOUS
<1>4. m \in MainTask /\ m.do = "answer" /\ m.of = l /\ m.ok = ok /\ (ok => m.role \in Roles)
  <2>1. account.role \in Roles  BY DEF Typed, TypeOK, Row
  <2> QED  BY <1>3, <2>1, MessageTypes DEF Reply
<1>5. /\ loader' \in [Loaders -> Load] /\ loader'[l].pc = "answered"
      /\ loader'[l].at = loader[l].at /\ loader'[l].pw = loader[l].pw
      /\ \A k \in Loaders : k # l => loader'[k] = loader[k]
  BY <1>1, LoaderTyped DEF Load
<1>6. /\ main' = Append(main, m) /\ main' \in Seq(MainTask)
      /\ \A i \in DOMAIN main' : \/ i \in DOMAIN main /\ main'[i] = main[i]
                                 \/ i \notin DOMAIN main /\ i = Len(main) + 1 /\ main'[i] = m
  BY <1>2, <1>3, <1>4, AppendAt, LoaderTyped
<1>7. Sent(loader')  BY <1>1, <1>5 DEF Sent, Typed, Queued
<1>8. Answered(main', loader')
  <2>1. \A i \in DOMAIN main : ~IsAnswer(main[i], l)  BY <1>1 DEF Answered, Typed, Queued
  <2>2. ASSUME NEW i \in DOMAIN main', NEW k \in Loaders, IsAnswer(main'[i], k)
        PROVE  loader'[k].pc = "answered" /\ (main'[i].ok => main'[i].role \in Roles)
    BY <1>4, <1>5, <1>6, <2>1, <2>2 DEF Answered, IsAnswer, Typed, Queued
  <2>3. ASSUME NEW i \in DOMAIN main', NEW j \in DOMAIN main', NEW k \in Loaders,
               IsAnswer(main'[i], k), IsAnswer(main'[j], k)
        PROVE  i = j
    <3>1. k = l => main'[i] = m /\ main'[j] = m /\ i = Len(main) + 1 /\ j = Len(main) + 1
      BY <1>6, <2>1, <2>3
    <3>2. k # l => /\ i \in DOMAIN main /\ main'[i] = main[i]
                   /\ j \in DOMAIN main /\ main'[j] = main[j]
      BY <1>4, <1>6, <2>3 DEF IsAnswer
    <3> QED  BY <3>1, <3>2, <2>3 DEF Answered, Typed, Queued
  <2> QED  BY <2>2, <2>3 DEF Answered
<1>9. RootFirst(main', loader', screen)
  <2>1. Busy(main', loader') => Busy(main, loader)
    BY <1>1, <1>4, <1>5, <1>6, LoadFacts DEF Busy, IsFinal
  <2>2. \A i \in DOMAIN main' : IsFinal(main'[i]) \/ main'[i].do = "done" =>
          i \in DOMAIN main /\ main'[i] = main[i]
    BY <1>4, <1>6 DEF IsFinal
  <2>3. l = "root" => \A i \in DOMAIN main : ~IsFinal(main[i])
    BY <1>1 DEF RootFirst, Typed, Queued
  <2>4. Busy(main, loader) => \A s \in Screens : s # l
    BY <1>1 DEF RootFirst, Typed, Queued
  <2> QED  BY <1>5, <2>1, <2>2, <2>3, <2>4, LoadFacts DEF RootFirst, Typed, Queued
<1>10. Rested'  BY <1>1, <1>5, LoadFacts DEF Rested, Typed, Queued
<1> QED  BY <1>1, <1>5, <1>6, <1>7, <1>8, <1>9, <1>10, LoadStep DEF Queued

LEMMA LookUpTyped ==
  ASSUME Typed, NEW l \in Loaders, LookUp(l)
  PROVE  Typed'
<1>1. /\ UNCHANGED <<account, change, note, task, stored, table, ready, app, screen, main, home,
                     heard, form>>
      /\ loader[l].pc = "look"
  BY DEF LookUp, server, realm
<1>2. PICK ld : loader' = [loader EXCEPT ![l] = ld] /\ ld = loader'[l]
  BY LoaderTyped DEF LookUp
<1>3. loader[l] \in Load /\ loader[l].at \in 1..LogIn
  BY <1>1, LoaderTyped, LoadFacts DEF Load, Sent, Typed, Queued, SignInAt
<1>4. /\ ld \in Load /\ ld.at # 0 /\ ld.pc \in {"look", "asked", "check"}
      /\ ld.pc = "asked" /\ ld.at = LogIn => ld.pw \in Passwords
  <2>1. stored # None => stored.pw \in Passwords  BY DEF Typed, TypeOK, Row
  <2>2. CASE loader[l].at < LogIn /\ table[loader[l].at] # 0
    <3>1. ld = [loader[l] EXCEPT !.at = loader[l].at + 1]
      BY <1>2, <2>2, LoaderTyped DEF LookUp
    <3> QED  BY <1>1, <1>3, <2>2, <3>1, LoadFacts DEF Load
  <2>3. CASE loader[l].at < LogIn /\ table[loader[l].at] = 0
    <3>1. ld = [loader[l] EXCEPT !.pc = "asked"]  BY <1>2, <2>3, LoaderTyped DEF LookUp
    <3> QED  BY <1>1, <1>3, <2>3, <3>1, LoadFacts DEF Load
  <2>4. CASE ~(loader[l].at < LogIn) /\ stored = None
    <3>1. ld = [loader[l] EXCEPT !.pc = "check"]  BY <1>2, <2>4, LoaderTyped DEF LookUp
    <3> QED  BY <1>1, <1>3, <2>4, <3>1, LoadFacts DEF Load
  <2>5. CASE ~(loader[l].at < LogIn) /\ stored # None
    <3>1. PICK p \in Passwords : p = stored.pw  BY <2>1, <2>5
    <3>2. ld = [loader[l] EXCEPT !.pc = "asked", !.pw = p]
      BY <1>2, <2>5, <3>1, LoaderTyped DEF LookUp
    <3>3. ld.pc = "asked" /\ ld.pw = p /\ ld.at = loader[l].at  BY <1>3, <3>2 DEF Load
    <3>4. ld \in Load  BY <1>3, <3>2 DEF Load
    <3> QED  BY <1>3, <3>3, <3>4, LoadFacts
  <2> QED  BY <2>2, <2>3, <2>4, <2>5
<1>5. /\ loader'[l] = ld /\ loader' \in [Loaders -> Load]
      /\ \A k \in Loaders : k # l => loader'[k] = loader[k]
  BY <1>2, <1>4, LoaderTyped
<1>6. Sent(loader')  BY <1>4, <1>5 DEF Sent, Typed, Queued, SignInAt
<1>7. Answered(main, loader')
  BY <1>1, <1>5, AnswersKept DEF Typed, Queued
<1>8. RootFirst(main, loader', screen)
  BY <1>1, <1>4, <1>5, FirstKept, LoadFacts DEF Typed, Queued
<1>9. Rested'  BY <1>1, <1>5, LoadFacts DEF Rested, Typed, Queued
<1> QED  BY <1>1, <1>5, <1>6, <1>7, <1>8, <1>9, LoadStep, LoaderTyped DEF Queued

LEMMA CheckTyped ==
  ASSUME Typed, NEW l \in Loaders, Check(l)
  PROVE  Typed'
<1>1. /\ UNCHANGED <<account, change, note, task, stored, table, app, home, heard, form>>
      /\ loader[l].pc = "check" /\ loader' = [loader EXCEPT ![l] = Rest(l)]
  BY DEF Check, server, realm
<1>2. PICK ld : /\ ld = [Quiet EXCEPT !.spoilt = loader[l].spoilt]
                /\ loader' = [loader EXCEPT ![l] = ld]
  BY <1>1 DEF Rest
<1>3. ld = [pc |-> "idle", at |-> 1, pw |-> None, loaded |-> FALSE, spoilt |-> loader[l].spoilt]
  BY <1>2 DEF Quiet
<1>4. ld \in Load /\ ld.pc = "idle" /\ ld.at = 1
  BY <1>3, LoaderTyped, LoadFacts DEF Load
<1>5. /\ loader'[l] = ld /\ loader' \in [Loaders -> Load]
      /\ \A k \in Loaders : k # l => loader'[k] = loader[k]
  BY <1>2, <1>4, LoaderTyped
<1>6. Sent(loader')  BY <1>4, <1>5, LoadFacts DEF Sent, Typed, Queued, SignInAt
<1>7. app # "off"  BY <1>1 DEF Rested, Typed, Queued
<1>8. loader[l].loaded \in BOOLEAN  BY LoaderTyped DEF Load
<1>9. CASE l = "root"
  <2>1. main' = Append(main, Final(loader[l].loaded)) /\ ready' = ready /\ screen' = screen
    BY <1>9 DEF Check
  <2>2. PICK m : m = Final(loader[l].loaded)  OBVIOUS
  <2>3. m \in MainTask /\ m.do = "final"  BY <1>8, <2>2, MessageTypes DEF Final
  <2>4. /\ main' = Append(main, m) /\ main' \in Seq(MainTask)
        /\ \A i \in DOMAIN main' : \/ i \in DOMAIN main /\ main'[i] = main[i]
                                   \/ i \notin DOMAIN main /\ i = Len(main) + 1 /\ main'[i] = m
    BY <2>1, <2>2, <2>3, AppendAt, LoaderTyped
  <2>5. Answered(main', loader')
    BY <1>1, <1>5, <2>3, <2>4, AnswersAppend, LoaderTyped DEF Typed, Queued
  <2>6. RootFirst(main', loader', screen)
    <3>1. Busy(main, loader)  BY <1>1, <1>9 DEF Busy
    <3>2. \A i \in DOMAIN main : ~IsFinal(main[i]) /\ main[i].do # "done"
      BY <1>1, <1>9, <3>1 DEF RootFirst, Typed, Queued
    <3>3. \A s \in Screens : screen[s] = "none" /\ loader'[s].pc = "idle"
      BY <1>5, <1>9, <3>1, LoadFacts DEF RootFirst, Typed, Queued
    <3> QED  BY <1>4, <1>5, <1>9, <2>3, <2>4, <3>2, <3>3 DEF RootFirst
  <2>7. Rested'  BY <1>1, <1>5, <1>7, <1>9, <2>1, LoadFacts DEF Rested, Typed, Queued
  <2> QED  BY <1>1, <1>5, <1>6, <2>1, <2>4, <2>5, <2>6, <2>7, LoadStep DEF Queued
<1>10. CASE l # "root"
  <2>1. l \in Screens  BY <1>10 DEF Loaders, Screens
  <2>2. /\ ready' \in BOOLEAN
        /\ main' = Append(main, Done(l)) \/ main' = main
        /\ \/ screen' = screen
           \/ app = "tabs" /\ screen' = [screen EXCEPT ![l] = "error"]
    <3>1. ready' = (Full(table) /\ loader[l].loaded)  BY <1>10 DEF Check
    <3>2. ready' \in BOOLEAN  BY <1>8, <3>1
    <3>3. main' = Append(main, Done(l)) \/ main' = main  BY <1>10 DEF Check
    <3>4. \/ screen' = screen
          \/ app = "tabs" /\ screen' = [screen EXCEPT ![l] = "error"]
      <4> DEFINE bad == Full(table) /\ ~loader[l].loaded /\ app = "tabs"
      <4>1. CASE bad   BY <1>10, <4>1 DEF Check
      <4>2. CASE ~bad  BY <1>10, <4>2 DEF Check
      <4> QED  BY <4>1, <4>2
    <3> QED  BY <3>2, <3>3, <3>4
  <2>3. PICK m : m = Done(l)  OBVIOUS
  <2>4. m \in MainTask /\ m.do = "done"  BY <2>1, <2>3, MessageTypes DEF Done
  <2>5. loader["root"].pc = "idle" /\ \A i \in DOMAIN main : ~IsFinal(main[i])
    BY <1>1, <2>1, NotBusy DEF Typed, Queued
  <2>6. ASSUME main' = main
        PROVE  /\ main' \in Seq(MainTask) /\ Answered(main', loader')
               /\ RootFirst(main', loader', screen')
    <3>1. Answered(main', loader')
      BY <1>1, <1>5, <2>6, AnswersKept DEF Typed, Queued
    <3>2. RootFirst(main', loader', screen')
      BY <1>5, <1>10, <2>5, <2>6, LoadFacts DEF RootFirst, Busy
    <3> QED  BY <2>6, <3>1, <3>2, LoaderTyped
  <2>7. ASSUME main' = Append(main, m)
        PROVE  /\ main' \in Seq(MainTask) /\ Answered(main', loader')
               /\ RootFirst(main', loader', screen')
    <3>1. /\ main' \in Seq(MainTask)
          /\ \A i \in DOMAIN main' : \/ i \in DOMAIN main /\ main'[i] = main[i]
                                     \/ i \notin DOMAIN main /\ i = Len(main) + 1 /\ main'[i] = m
      BY <2>4, <2>7, AppendAt, LoaderTyped
    <3>2. Answered(main', loader')
      BY <1>1, <1>5, <2>4, <2>7, AnswersAppend, LoaderTyped DEF Typed, Queued
    <3>3. \A i \in DOMAIN main' : ~IsFinal(main'[i])
      BY <2>4, <2>5, <3>1 DEF IsFinal
    <3>4. RootFirst(main', loader', screen')
      BY <1>5, <1>10, <2>5, <3>3, LoadFacts DEF RootFirst, Busy
    <3> QED  BY <2>7, <3>1, <3>2, <3>4
  <2>8. main' \in Seq(MainTask) /\ Answered(main', loader') /\ RootFirst(main', loader', screen')
    BY <2>2, <2>3, <2>6, <2>7, LoaderTyped
  <2>9. /\ screen' \in [Screens -> {"none", "loading", "shown", "error"}]
        /\ \A s \in Screens : s # l => screen'[s] = screen[s]
        /\ app # "tabs" => screen' = screen
    BY <2>2 DEF Typed, TypeOK
  <2>10. Rested'  BY <1>1, <1>4, <1>5, <1>7, <2>9, LoadFacts DEF Rested, Typed, Queued
  <2> QED
    BY <1>1, <1>5, <1>6, <2>2, <2>8, <2>9, <2>10, TypedStep DEF Queued, Typed, TypeOK
<1> QED  BY <1>9, <1>10

-------------------------------------------------------------------------------
(* The main queue: answers.                                                 *)

\* The load that is answered goes on with n.
GoesOn(n) ==
  /\ n \in [Loaders -> Load] /\ Sent(n)
  /\ Answered(Tail(main), n) /\ RootFirst(Tail(main), n, screen)
  /\ \A s \in Screens : screen[s] = "error" => n[s].pc = "idle"
  /\ app # "off"

LEMMA AnsweredLoad ==
  ASSUME Typed, AtHead("answer"), NEW l \in Loaders, Head(main).of = l,
         NEW ld \in Load, ld.pc \in {"look", "check"}, ld.at # 0,
         NEW n, n = [loader EXCEPT ![l] = ld]
  PROVE  GoesOn(n)
<1>1. main \in Seq(MainTask) /\ main # <<>> /\ IsAnswer(Head(main), l)
  BY LoaderTyped DEF AtHead, IsAnswer
<1>2. 1 \in DOMAIN main /\ Head(main) = main[1]  BY <1>1, TailAt
<1>3. loader[l].pc = "answered"  BY <1>1, <1>2 DEF Typed, Queued, Answered
<1>4. /\ n \in [Loaders -> Load] /\ n[l] = ld
      /\ \A k \in Loaders : k # l => n[k] = loader[k]
  BY LoaderTyped
<1>5. Sent(n)  BY <1>4 DEF Sent, Typed, Queued, SignInAt
<1>6. PICK r : r = Tail(main)  OBVIOUS
<1>7. \A k \in Loaders : n[k].pc = loader[k].pc \/ IsAnswer(Head(main), k)  BY <1>1, <1>4
<1>8. Answered(r, n)  BY <1>1, <1>6, <1>7, AnswersTail DEF Typed, Queued
<1>9. RootFirst(r, n, screen)
  <2>1. \A k \in Loaders : n[k].pc = "idle" <=> loader[k].pc = "idle"  BY <1>3, <1>4
  <2> QED  BY <1>1, <1>6, <2>1, FirstTail, LoadFacts DEF Typed, Queued
<1>10. app # "off"  BY <1>3 DEF Rested, Typed, Queued
<1>11. \A s \in Screens : screen[s] = "error" => n[s].pc = "idle"
  BY <1>3, <1>4, LoadFacts DEF Rested, Typed, Queued
<1> QED  BY <1>4, <1>5, <1>6, <1>8, <1>9, <1>10, <1>11 DEF GoesOn

LEMMA TakeAnswerTyped == ASSUME Typed, TakeAnswer PROVE Typed'
<1>1. /\ UNCHANGED <<account, change, note, task, ready, screen, home, heard, form>>
      /\ AtHead("answer")
  BY DEF TakeAnswer, server
<1>2. /\ main \in Seq(MainTask) /\ main # <<>>
      /\ 1 \in DOMAIN main /\ Head(main) = main[1] /\ Head(main) \in MainTask
      /\ Tail(main) \in Seq(MainTask)
  BY <1>1, LoaderTyped, TailAt DEF AtHead
<1>3. PICK l \in Loaders, ok \in BOOLEAN, r \in Roles \cup {None} :
        l = Head(main).of /\ ok = Head(main).ok /\ r = Head(main).role
  BY <1>1, <1>2, MessageFacts DEF AtHead
<1>4. loader[l].pc = "answered" /\ (ok => r \in Roles)
  BY <1>1, <1>2, <1>3 DEF Typed, Queued, Answered, IsAnswer, AtHead
<1>5. loader[l] \in Load  BY LoaderTyped
<1>6. PICK q : q = Tail(main) /\ q \in Seq(MainTask)  BY <1>2
<1>7. CASE loader[l].at = SignInAt
  <2>1. AnswerSignIn(l, ok, r)  BY <1>3, <1>7, LoadFacts DEF TakeAnswer, SignInAt
  <2>2. l = "root" /\ loader[l].pw \in Passwords
    BY <1>4, <1>7 DEF Typed, Queued, Sent
  <2>3. CASE ok
    <3>1. /\ stored' = [pw |-> loader[l].pw, role |-> r] /\ table' = NoTables
          /\ app' = "tabs" /\ loader' = [loader EXCEPT ![l] = Looking] /\ main' = Tail(main)
      BY <2>1, <2>3 DEF AnswerSignIn
    <3>2. GoesOn(loader')
      <4>1. PICK ld : ld = Looking  OBVIOUS
      <4>2. ld \in Load /\ ld.pc = "look" /\ ld.at # 0  BY <4>1, LoadFacts
      <4>3. loader' = [loader EXCEPT ![l] = ld]  BY <3>1, <4>1
      <4> QED  BY <1>1, <1>3, <4>2, <4>3, AnsweredLoad
    <3>3. stored' \in Row /\ table' \in [1..Tables -> Nat]
      BY <1>4, <2>2, <2>3, <3>1 DEF Row, NoTables
    <3>4. Queued'  BY <1>1, <3>1, <3>2 DEF Queued, Rested, GoesOn
    <3> QED  BY <1>1, <1>2, <3>1, <3>2, <3>3, <3>4, TypedStep DEF Typed, TypeOK, GoesOn
  <2>4. CASE ~ok
    <3>1. /\ UNCHANGED <<stored, table, app>> /\ loader' = [loader EXCEPT ![l] = Quiet]
          /\ main' = Tail(main)
      BY <2>1, <2>4 DEF AnswerSignIn, realm
    <3>2. /\ loader'[l] = Quiet /\ loader' \in [Loaders -> Load]
          /\ \A k \in Loaders : k # l => loader'[k] = loader[k]
      BY <3>1, LoaderTyped, LoadFacts
    <3>3. Sent(loader')  BY <3>2, LoadFacts DEF Sent, Typed, Queued, SignInAt
    <3>4. Answered(main', loader')
      <4>1. \A k \in Loaders : loader'[k].pc = loader[k].pc \/ IsAnswer(Head(main), k)
        BY <1>1, <1>3, <3>2 DEF IsAnswer, AtHead
      <4> QED  BY <1>2, <3>1, <4>1, AnswersTail DEF Typed, Queued
    <3>5. RootFirst(main', loader', screen')
      <4>1. \A i \in DOMAIN main : ~IsFinal(main[i])
        BY <1>4, <2>2 DEF RootFirst, Typed, Queued
      <4>2. \A i \in DOMAIN main' : ~IsFinal(main'[i])  BY <1>2, <3>1, <4>1, TailAt
      <4> QED  BY <2>2, <3>2, <4>2, LoadFacts DEF RootFirst, Busy
    <3>6. app # "off"  BY <1>4 DEF Rested, Typed, Queued
    <3>7. Rested'  BY <1>1, <2>2, <3>1, <3>2, <3>6, LoadFacts DEF Rested, Typed, Queued
    <3> QED  BY <1>1, <1>2, <3>1, <3>2, <3>3, <3>4, <3>5, <3>7, LoadStep DEF Queued
  <2> QED  BY <2>3, <2>4
<1>8. CASE loader[l].at = LogIn
  <2>1. AnswerLogIn(l, ok, r)  BY <1>3, <1>8, LoadFacts DEF TakeAnswer, SignInAt
  <2>2. /\ loader' = [loader EXCEPT ![l].pc = "check", ![l].loaded = ok]
        /\ stored' = IF ok THEN [pw |-> loader[l].pw, role |-> r] ELSE stored
        /\ main' = Tail(main) /\ UNCHANGED <<table, app>>
    BY <2>1 DEF AnswerLogIn
  <2>3. PICK ld : loader' = [loader EXCEPT ![l] = ld] /\ ld = loader'[l]
    BY <2>2, LoaderTyped
  <2>4. ld \in Load /\ ld.pc = "check" /\ ld.at # 0
    <3>1. ld = [pc |-> "check", at |-> LogIn, pw |-> loader[l].pw, loaded |-> ok,
                spoilt |-> loader[l].spoilt]
      BY <1>5, <1>8, <2>2, <2>3, LoaderTyped DEF Load
    <3> QED  BY <1>5, <3>1, LoadFacts DEF Load
  <2>5. GoesOn(loader')
    BY <1>1, <1>3, <2>3, <2>4, AnsweredLoad
  <2>6. stored' \in Row \cup {None}
    <3>1. loader[l].pw \in Passwords  BY <1>4, <1>8 DEF Typed, Queued, Sent
    <3> QED  BY <1>4, <2>2, <3>1 DEF Row, Typed, TypeOK
  <2>7. Queued'  BY <1>1, <2>2, <2>5 DEF Queued, Rested, GoesOn
  <2> QED  BY <1>1, <1>2, <2>2, <2>5, <2>6, <2>7, TypedStep DEF Typed, TypeOK, GoesOn
<1>9. CASE loader[l].at \notin {SignInAt, LogIn}
  <2>1. AnswerTable(l, ok)  BY <1>3, <1>9 DEF TakeAnswer
  <2>2. /\ loader' = [loader EXCEPT ![l].pc = "look", ![l].at = @ + 1, ![l].spoilt = @ \/ ~ok]
        /\ UNCHANGED <<stored, table, app>>
    BY <2>1 DEF AnswerTable, realm
  <2>3. loader[l].at \in 1..Tables  BY <1>5, <1>9, LoadFacts, SizesAssumption DEF Load, SignInAt
  <2>4. PICK ld : loader' = [loader EXCEPT ![l] = ld] /\ ld = loader'[l]
    BY <2>2, LoaderTyped
  <2>5. ld \in Load /\ ld.pc = "look" /\ ld.at # 0
    <3>1. ld = [pc |-> "look", at |-> loader[l].at + 1, pw |-> loader[l].pw,
                loaded |-> loader[l].loaded, spoilt |-> (loader[l].spoilt \/ ~ok)]
      BY <1>5, <2>2, <2>4, LoaderTyped DEF Load
    <3> QED  BY <1>5, <2>3, <3>1, LoadFacts, SizesAssumption DEF Load
  <2>6. GoesOn(loader')
    BY <1>1, <1>3, <2>4, <2>5, AnsweredLoad
  <2>7. /\ main' \in Seq(MainTask) /\ Answered(main', loader') /\ RootFirst(main', loader', screen)
    <3>1. ASSUME main' = Tail(main)
          PROVE  /\ main' \in Seq(MainTask) /\ Answered(main', loader')
                 /\ RootFirst(main', loader', screen)
      BY <1>2, <2>6, <3>1 DEF GoesOn
    <3>2. ASSUME main' = Append(Tail(main), Fill(loader[l].at))
          PROVE  /\ main' \in Seq(MainTask) /\ Answered(main', loader')
                 /\ RootFirst(main', loader', screen)
      <4>1. PICK m : m = Fill(loader[l].at)  OBVIOUS
      <4>2. m \in MainTask /\ m.do = "add" /\ ~IsFinal(m)
        BY <2>3, <4>1, MessageTypes DEF Fill, IsFinal
      <4>3. main' = Append(q, m) /\ q \in Seq(MainTask)  BY <1>6, <3>2, <4>1
      <4>4. Answered(q, loader') /\ RootFirst(q, loader', screen)  BY <1>6, <2>6 DEF GoesOn
      <4>5. Answered(main', loader')  BY <4>2, <4>3, <4>4, AnswersAppend
      <4>6. RootFirst(main', loader', screen)  BY <4>2, <4>3, <4>4, FirstAppend
      <4>7. main' \in Seq(MainTask)  BY <4>2, <4>3, AppendAt
      <4> QED  BY <4>5, <4>6, <4>7
    <3> QED  BY <2>1, <3>1, <3>2 DEF AnswerTable
  <2>8. Queued'  BY <1>1, <2>2, <2>6, <2>7 DEF Queued, Rested, GoesOn
  <2> QED  BY <1>1, <2>2, <2>6, <2>7, <2>8, LoadStep DEF GoesOn
<1> QED  BY <1>7, <1>8, <1>9

-------------------------------------------------------------------------------
(* The main queue: everything else.                                         *)

LEMMA TakenQueued ==
  ASSUME Typed, main # <<>>, main' = Tail(main), UNCHANGED <<loader, screen, app>>,
         form' \in {form, None}
  PROVE  Queued' /\ main' \in Seq(MainTask)
<1>1. main \in Seq(MainTask)  BY LoaderTyped
<1>2. main' \in Seq(MainTask)  BY <1>1, TailAt
<1>3. Answered(main', loader)  BY <1>1, AnswersTail DEF Typed, Queued
<1>4. RootFirst(main', loader, screen)  BY <1>1, FirstTail DEF Typed, Queued
<1>5. Rested'
  <2>1. app = "off" => main = <<>>  BY DEF Typed, Queued, Rested
  <2> QED  BY <2>1 DEF Typed, Queued, Rested
<1> QED  BY <1>2, <1>3, <1>4, <1>5 DEF Typed, Queued

LEMMA AddTableTyped == ASSUME Typed, AddTable PROVE Typed'
<1>1. /\ UNCHANGED <<account, change, note, task, stored, ready, app, screen, loader, home,
                     heard, form>>
      /\ main # <<>> /\ main' = Tail(main)
      /\ table' = [table EXCEPT ![Head(main).of] = IF @ = 0 THEN @ + 1 ELSE @]
  BY DEF AddTable, AtHead, server
<1>2. table' \in [1..Tables -> Nat]
  <2>1. PICK t : table' = [table EXCEPT ![t] = IF @ = 0 THEN @ + 1 ELSE @]  BY <1>1
  <2>2. ASSUME NEW k \in 1..Tables PROVE table'[k] \in Nat
    BY <2>1 DEF Typed, TypeOK
  <2>3. table' = [k \in 1..Tables |-> table'[k]]  BY <2>1 DEF Typed, TypeOK
  <2> QED  BY <2>2, <2>3
<1>3. Queued' /\ main' \in Seq(MainTask)  BY <1>1, TakenQueued
<1> QED  BY <1>1, <1>2, <1>3, TypedStep DEF Typed, TypeOK, Load

LEMMA StoreTyped == ASSUME Typed, StoreCopy \/ WriteUser PROVE Typed'
<1>1. /\ UNCHANGED <<account, change, note, task, table, ready, app, screen, loader, home, heard>>
      /\ main # <<>> /\ main' = Tail(main) /\ form' \in {form, None}
      /\ stored' \in {stored, Head(main).of} /\ Head(main).do \in {"prefer", "write"}
  BY DEF StoreCopy, WriteUser, AtHead, server
<1>2. Head(main).of \in Row  BY <1>1, LoaderTyped, TailAt, MessageFacts
<1>3. Queued' /\ main' \in Seq(MainTask)  BY <1>1, TakenQueued
<1> QED  BY <1>1, <1>2, <1>3, TypedStep DEF Typed, TypeOK, Load

\* Emptying the file spoils the loads and does nothing else to them.
LEMMA EmptiedLoads ==
  ASSUME Typed
  PROVE  /\ Emptied \in [Loaders -> Load]
         /\ \A l \in Loaders : /\ Emptied[l].pc = loader[l].pc /\ Emptied[l].at = loader[l].at
                               /\ Emptied[l].pw = loader[l].pw
<1>1. ASSUME NEW l \in Loaders
      PROVE  /\ Emptied[l] \in Load /\ Emptied[l].pc = loader[l].pc
             /\ Emptied[l].at = loader[l].at /\ Emptied[l].pw = loader[l].pw
  <2>1. loader[l] \in Load  BY LoaderTyped
  <2>2. PICK ld : ld = [loader[l] EXCEPT !.spoilt = @ \/ loader[l].pc # "idle"]  OBVIOUS
  <2>3. ld = [pc |-> loader[l].pc, at |-> loader[l].at, pw |-> loader[l].pw,
              loaded |-> loader[l].loaded,
              spoilt |-> (loader[l].spoilt \/ loader[l].pc # "idle")]
    BY <2>1, <2>2 DEF Load
  <2>4. Emptied[l] = ld  BY <2>2 DEF Emptied
  <2> QED  BY <2>1, <2>3, <2>4 DEF Load
<1> QED  BY <1>1 DEF Emptied

LEMMA EmptyRealmTyped == ASSUME Typed, EmptyRealm PROVE Typed'
<1>1. /\ UNCHANGED <<account, change, note, task, ready, app, screen, home, heard>>
      /\ main # <<>> /\ form' = None /\ loader' = Emptied
      /\ stored' = None /\ table' = NoTables /\ Head(main).do = "save"
  BY DEF EmptyRealm, AtHead, server
<1>2. main \in Seq(MainTask)  BY LoaderTyped
<1>3. PICK m \in MainTask : m = Write(Head(main).of)
  BY <1>1, <1>2, TailAt, MessageFacts, MessageTypes
<1>4. m.do = "write"  BY <1>3 DEF Write
<1>5. /\ main' \in Seq(MainTask)
      /\ \A i \in DOMAIN main' : i \in DOMAIN main /\ (main'[i] = m \/ main'[i] = main[i])
  <2>1. main' = <<m>> \o Tail(main)  BY <1>3 DEF EmptyRealm
  <2> QED  BY <1>1, <1>2, <2>1, FrontAt
<1>6. Sent(loader')  BY <1>1, EmptiedLoads DEF Sent, Typed, Queued
<1>7. Answered(main', loader')
  BY <1>1, <1>4, <1>5, EmptiedLoads DEF Answered, IsAnswer, Typed, Queued
<1>8. RootFirst(main', loader', screen)
  BY <1>1, <1>4, <1>5, EmptiedLoads, LoadFacts DEF RootFirst, Busy, IsFinal, Typed, Queued
<1>9. Rested'  BY <1>1, EmptiedLoads, LoadFacts DEF Rested, Typed, Queued
<1>10. table' \in [1..Tables -> Nat]  BY <1>1 DEF NoTables
<1> QED
  BY <1>1, <1>5, <1>6, <1>7, <1>8, <1>9, <1>10, EmptiedLoads, TypedStep
  DEF Typed, TypeOK, Queued

\* The app stops.
LEMMA StopTyped ==
  ASSUME Typed, Stop, UNCHANGED <<account, change, note, stored, table>>
  PROVE  Typed'
<1>1. loader' = [l \in Loaders |-> Quiet] /\ main' = <<>> /\ app' = "off"
      /\ screen' = [s \in Screens |-> "none"] /\ form' = None
      /\ task' = [n \in Noti |-> NoTask] /\ heard' = {} /\ home' = None /\ ready' = FALSE
  BY DEF Stop
<1>2. Quiet \in Load /\ Quiet.pc = "idle" /\ Quiet.at = 1  BY LoadFacts
<1>3. /\ loader' \in [Loaders -> Load]
      /\ \A l \in Loaders : loader'[l].pc = "idle" /\ loader'[l].at = 1
  BY <1>1, <1>2
<1>4. main' \in Seq(MainTask) /\ DOMAIN main' = {}  BY <1>1
<1>5. Sent(loader')  BY <1>3, LoadFacts DEF Sent, SignInAt
<1>6. Answered(main', loader')  BY <1>4 DEF Answered
<1>7. RootFirst(main', loader', screen')  BY <1>3, <1>4, LoadFacts DEF RootFirst, Busy
<1>8. Rested'  BY <1>1, <1>3, LoadFacts DEF Rested
<1>9. Handled'  BY <1>1 DEF Handled, Typed, NoTask
<1>10. task' \in [Noti -> [st : {"idle", "queued", "stored"}, pw : Passwords \cup {None}]]
  BY <1>1 DEF NoTask
<1> QED
  BY <1>1, <1>3, <1>4, <1>5, <1>6, <1>7, <1>8, <1>9, <1>10 DEF Typed, TypeOK, Queued, Load

LEMMA ShowTyped ==
  ASSUME Typed, NEW s \in Screens, NEW rest \in Seq(MainTask), Answered(rest, loader),
         loader["root"].pc = "idle", \A i \in DOMAIN rest : ~IsFinal(rest[i]), app # "off",
         ShowScreen(s, rest), UNCHANGED <<account, change, note, stored, table>>
  PROVE  Typed'
<1>1. CASE s = "home" /\ stored = None
  BY <1>1, StopTyped DEF ShowScreen
<1>2. CASE ~(s = "home" /\ stored = None)
  <2>1. /\ UNCHANGED <<ready, app, loader, heard, task, form>> /\ main' = rest
        /\ screen' = [screen EXCEPT ![s] = IF app = "tabs" THEN "shown" ELSE @]
        /\ home' = IF s = "home" /\ app = "tabs" THEN stored.pw ELSE home
    BY <1>2 DEF ShowScreen
  <2>2. /\ screen' \in [Screens -> {"none", "loading", "shown", "error"}]
        /\ \A k \in Screens : screen'[k] = "error" => screen[k] = "error"
        /\ app # "tabs" => screen' = screen
    BY <2>1 DEF Typed, TypeOK
  <2>3. home' \in Passwords \cup {None} /\ (app # "tabs" => home' = home)
    BY <1>2, <2>1 DEF Typed, TypeOK, Row
  <2>4. RootFirst(main', loader', screen')  BY <2>1, LoadFacts DEF RootFirst, Busy
  <2>5. Rested'  BY <2>1, <2>2 DEF Rested, Typed, Queued
  <2>6. Queued'  BY <2>1, <2>4, <2>5 DEF Typed, Queued
  <2> QED  BY <2>1, <2>2, <2>3, <2>6, TypedStep, LoaderTyped DEF Typed, TypeOK
<1> QED  BY <1>1, <1>2

LEMMA CompleteTyped == ASSUME Typed, Complete PROVE Typed'
<1>1. /\ UNCHANGED <<account, change, note, stored, table>>
      /\ main # <<>> /\ Head(main).do = "done"
  BY DEF Complete, AtHead, server, realm
<1>2. main \in Seq(MainTask)  BY LoaderTyped
<1>3. PICK s \in Screens, rest \in Seq(MainTask) : s = Head(main).of /\ rest = Tail(main)
  BY <1>1, <1>2, TailAt, MessageFacts
<1>4. ShowScreen(s, rest)  BY <1>3 DEF Complete
<1>5. Answered(rest, loader)  BY <1>1, <1>2, <1>3, AnswersTail DEF Typed, Queued
<1>6. ~Busy(main, loader)  BY <1>1, <1>2, TailAt DEF RootFirst, Typed, Queued
<1>7. loader["root"].pc = "idle" /\ \A i \in DOMAIN rest : ~IsFinal(rest[i])
  BY <1>1, <1>2, <1>3, <1>6, TailAt DEF Busy
<1>8. app # "off"  BY <1>1 DEF Rested, Typed, Queued
<1> QED  BY <1>1, <1>4, <1>5, <1>7, <1>8, ShowTyped

LEMMA SetupTyped ==
  ASSUME Typed, NEW rdy \in BOOLEAN, NEW on \in SUBSET Screens, NEW rest \in Seq(MainTask),
         \A i \in DOMAIN rest : ~IsFinal(rest[i]) /\ rest[i].do # "answer",
         SetupTabs(rdy, on, rest), UNCHANGED <<account, change, note, stored, table>>
  PROVE  Typed'
<1>1. CASE stored = None
  BY <1>1, StopTyped DEF SetupTabs
<1>2. CASE stored # None
  <2>1. /\ screen' = [s \in Screens |-> IF s \notin on THEN "error"
                                        ELSE IF rdy THEN "shown" ELSE "loading"]
        /\ loader' = [l \in Loaders |-> IF l \in on /\ ~rdy THEN Looking ELSE Quiet]
        /\ home' = IF rdy /\ "home" \in on THEN stored.pw ELSE None
        /\ ready' = rdy /\ app' = "tabs" /\ main' = rest /\ UNCHANGED <<heard, task, form>>
    BY <1>2 DEF SetupTabs
  <2>2. screen' \in [Screens -> {"none", "loading", "shown", "error"}]  BY <2>1
  <2>3. home' \in Passwords \cup {None}  BY <1>2, <2>1 DEF Typed, TypeOK, Row
  <2>4. /\ loader' \in [Loaders -> Load] /\ loader'["root"].pc = "idle"
        /\ \A l \in Loaders : loader'[l].at = 1
    BY <2>1, LoadFacts
  <2>5. \A s \in Screens : screen'[s] = "error" => loader'[s].pc = "idle"
    BY <2>1, LoadFacts
  <2>6. Sent(loader')  BY <2>4, SizesAssumption DEF Sent, SignInAt, LogIn
  <2>7. Answered(main', loader')  BY <2>1 DEF Answered, IsAnswer
  <2>8. RootFirst(main', loader', screen')  BY <2>1, <2>4 DEF RootFirst, Busy
  <2>9. Rested'  BY <2>1, <2>5 DEF Rested
  <2>10. Queued'  BY <2>6, <2>7, <2>8, <2>9 DEF Queued
  <2> QED  BY <2>1, <2>2, <2>3, <2>4, <2>10, TypedStep DEF Typed, TypeOK
<1> QED  BY <1>1, <1>2

LEMMA SetUpTyped == ASSUME Typed, SetUp PROVE Typed'
<1>1. /\ UNCHANGED <<account, change, note, stored, table>>
      /\ main # <<>> /\ Head(main).do = "final"
  BY DEF SetUp, AtHead, server, realm
<1>2. main \in Seq(MainTask)  BY LoaderTyped
<1>3. Head(main).of \in BOOLEAN  BY <1>1, <1>2, TailAt, MessageFacts
<1>4. PICK rest \in Seq(MainTask), rdy \in BOOLEAN, on \in SUBSET Screens :
        rest = Tail(main) /\ SetupTabs(rdy, on, rest)
  <2>1. PICK on \in SUBSET Screens : SetupTabs(Full(table) /\ Head(main).of, on, Tail(main))
    BY DEF SetUp
  <2>2. (Full(table) /\ Head(main).of) \in BOOLEAN  BY <1>3
  <2> QED  BY <1>1, <1>2, <2>1, <2>2, TailAt
<1>5. Busy(main, loader) /\ 1 \in DOMAIN main /\ IsFinal(main[1])
  BY <1>1, <1>2, TailAt DEF Busy, IsFinal
<1>6. \A l \in Loaders : loader[l].pc = "idle"
  BY <1>5 DEF RootFirst, Typed, Queued, Loaders
<1>7. \A i \in DOMAIN main : main[i].do # "answer"
  <2>1. \A i \in DOMAIN main : main[i].do = "answer" => main[i].of \in Loaders
    BY <1>2, MessageFacts
  <2> QED  BY <1>6, <2>1 DEF Answered, IsAnswer, Typed, Queued
<1>8. \A i \in DOMAIN main : IsFinal(main[i]) => i = 1
  BY <1>5 DEF RootFirst, Typed, Queued
<1>9. \A i \in DOMAIN rest : ~IsFinal(rest[i]) /\ rest[i].do # "answer"
  BY <1>1, <1>2, <1>4, <1>7, <1>8, TailAt
<1> QED  BY <1>1, <1>4, <1>9, SetupTyped

LEMMA RunMainTyped == ASSUME Typed, RunMain PROVE Typed'
BY TakeAnswerTyped, AddTableTyped, CompleteTyped, SetUpTyped, EmptyRealmTyped, StoreTyped
   DEF RunMain

-------------------------------------------------------------------------------
(* The user.                                                                *)

LEMMA RetryTyped == ASSUME Typed, NEW s \in Screens, Retry(s) PROVE Typed'
<1>1. UNCHANGED <<account, change, note, stored, table>> /\ screen[s] = "error"
  BY DEF Retry, server, realm
<1>2. app = "tabs" /\ loader[s].pc = "idle"
  BY <1>1 DEF Typed, TypeOK, Queued, Rested
<1>3. loader["root"].pc = "idle" /\ \A i \in DOMAIN main : ~IsFinal(main[i])
  BY <1>1, NotBusy DEF Typed, Queued
<1>4. CASE ready
  <2>1. ShowScreen(s, main)  BY <1>4 DEF Retry
  <2> QED
    BY <1>1, <1>2, <1>3, <2>1, ShowTyped, LoaderTyped DEF Typed, Queued
<1>5. CASE ~ready
  <2>1. /\ screen' = [screen EXCEPT ![s] = "loading"] /\ loader' = [loader EXCEPT ![s] = Looking]
        /\ UNCHANGED <<ready, app, main, home, heard, task, form>>
    BY <1>5 DEF Retry
  <2>2. /\ loader'[s] = Looking /\ loader' \in [Loaders -> Load]
        /\ \A k \in Loaders : k # s => loader'[k] = loader[k]
    BY <2>1, LoaderTyped, LoadFacts
  <2>3. /\ screen' \in [Screens -> {"none", "loading", "shown", "error"}]
        /\ \A k \in Screens : screen'[k] = "error" => k # s /\ screen[k] = "error"
    BY <2>1 DEF Typed, TypeOK
  <2>4. Sent(loader')  BY <2>2, LoadFacts DEF Sent, Typed, Queued, SignInAt
  <2>5. Answered(main, loader')  BY <1>2, <2>2, AnswersKept DEF Typed, Queued
  <2>6. RootFirst(main, loader', screen')
    BY <1>3, <2>2, LoadFacts DEF RootFirst, Busy
  <2>7. Rested'  BY <1>2, <2>1, <2>2, <2>3, LoadFacts DEF Rested, Typed, Queued
  <2>8. Queued'  BY <2>1, <2>4, <2>5, <2>6, <2>7 DEF Queued
  <2> QED  BY <1>1, <1>2, <2>1, <2>2, <2>3, <2>8, TypedStep DEF Typed, TypeOK
<1> QED  BY <1>4, <1>5

LEMMA LaunchTyped == ASSUME Typed, Launch PROVE Typed'
<1>1. UNCHANGED <<account, change, note, stored, table>> /\ app = "off"
  BY DEF Launch, server, realm
<1>2. /\ main = <<>> /\ \A l \in Loaders : loader[l].pc = "idle"
      /\ \A s \in Screens : screen[s] = "none"
  BY <1>1 DEF Typed, TypeOK, Queued, Rested
<1>3. CASE stored = None
  <2>1. app' = "first" /\ UNCHANGED <<ready, screen, loader, main, home, heard, task, form>>
    BY <1>3 DEF Launch
  <2>2. Rested'  BY <2>1 DEF Rested, Typed, Queued
  <2>3. Queued'  BY <2>1, <2>2 DEF Typed, Queued
  <2> QED  BY <1>1, <2>1, <2>3, TypedStep, LoaderTyped DEF Typed, TypeOK
<1>4. ASSUME app' = "tabs", loader' = [loader EXCEPT !["root"] = Looking],
             UNCHANGED <<ready, screen, main, home, heard, task, form>>
      PROVE  Typed'
  <2>1. /\ loader'["root"] = Looking /\ loader' \in [Loaders -> Load]
        /\ \A k \in Loaders : k # "root" => loader'[k] = loader[k]
    BY <1>4, LoaderTyped, LoadFacts
  <2>2. Sent(loader')  BY <2>1, LoadFacts DEF Sent, Typed, Queued, SignInAt
  <2>3. DOMAIN main = {}  BY <1>2
  <2>4. Answered(main, loader')  BY <2>3 DEF Answered
  <2>5. RootFirst(main, loader', screen)  BY <1>2, <2>1, <2>3, LoadFacts DEF RootFirst
  <2>6. Rested'  BY <1>2, <1>4 DEF Rested
  <2>7. Queued'  BY <1>4, <2>2, <2>4, <2>5, <2>6 DEF Queued
  <2> QED  BY <1>1, <1>4, <2>1, <2>7, TypedStep, LoaderTyped DEF Typed, TypeOK
<1>5. ASSUME NEW on \in SUBSET Screens, SetupTabs(FALSE, on, <<>>)
      PROVE  Typed'
  <2>1. main \in Seq(MainTask) /\ DOMAIN main = {}  BY <1>2, LoaderTyped
  <2>2. SetupTabs(FALSE, on, main)  BY <1>2, <1>5
  <2> QED  BY <1>1, <2>1, <2>2, SetupTyped
<1> QED  BY <1>3, <1>4, <1>5 DEF Launch

LEMMA SignOutTyped == ASSUME Typed, SignOut PROVE Typed'
<1>1. /\ UNCHANGED <<account, change, note, task, main, form>>
      /\ stored' = None /\ table' = NoTables /\ ready' = FALSE /\ app' = "first"
      /\ screen' = [s \in Screens |-> "none"] /\ home' = None /\ heard' = {}
      /\ loader' = Emptied
  BY DEF SignOut, server
<1>2. Sent(loader')  BY <1>1, EmptiedLoads DEF Sent, Typed, Queued
<1>3. Answered(main, loader')  BY <1>1, EmptiedLoads, AnswersKept DEF Typed, Queued
<1>4. RootFirst(main, loader', screen')
  BY <1>1, EmptiedLoads, LoadFacts, FirstKept DEF Typed, Queued
<1>5. Rested'  BY <1>1 DEF Rested
<1>6. Queued'  BY <1>1, <1>2, <1>3, <1>4, <1>5 DEF Queued
<1>7. table' \in [1..Tables -> Nat]  BY <1>1 DEF NoTables
<1> QED  BY <1>1, <1>6, <1>7, EmptiedLoads, TypedStep DEF Typed, TypeOK

LEMMA SaveFormTyped == ASSUME Typed, SaveForm PROVE Typed'
<1>1. /\ UNCHANGED <<account, change, note, task, stored, table, ready, app, screen, loader, home,
                     heard, form>>
      /\ form # None
  BY DEF SaveForm, server, realm
<1>2. form \in Row  BY <1>1 DEF Typed, TypeOK
<1>3. PICK m \in MainTask : main' = Append(main, m) /\ m.do \in {"save", "prefer"}
  <2>1. PICK t \in {Save(form), Prefer(form)} : main' = Append(main, t)  BY DEF SaveForm
  <2>2. t = Save(form) \/ t = Prefer(form)  OBVIOUS
  <2>3. t \in MainTask  BY <1>2, <2>2, MessageTypes
  <2>4. t.do \in {"save", "prefer"}  BY <2>2 DEF Save, Prefer
  <2> QED  BY <2>1, <2>3, <2>4
<1>4. Answered(main', loader)
  BY <1>3, AnswersAppend, LoaderTyped DEF Typed, Queued
<1>5. RootFirst(main', loader, screen)
  BY <1>3, FirstAppend, LoaderTyped DEF Typed, Queued, IsFinal
<1>6. main' \in Seq(MainTask)  BY <1>3, AppendAt, LoaderTyped
<1>7. Rested'  BY <1>1 DEF Rested, Typed, Queued
<1>8. Queued'  BY <1>1, <1>4, <1>5, <1>7 DEF Typed, Queued
<1> QED  BY <1>1, <1>6, <1>8, LoadStep, LoaderTyped

LEMMA TypedInit == Init => Typed
<1> SUFFICES ASSUME Init PROVE Typed
  OBVIOUS
<1>1. /\ account \in Row /\ change = None /\ note = [n \in Noti |-> Unsent]
      /\ TypeInit
  BY RolesAssumption, SizesAssumption DEF Init, Row, Passwords
<1>2. /\ loader \in [Loaders -> Load] /\ main \in Seq(MainTask) /\ DOMAIN main = {}
      /\ \A l \in Loaders : loader[l].pc = "idle" /\ loader[l].at = 1
  BY <1>1, LoadFacts DEF TypeInit
<1>3. TypeOK  BY <1>1, <1>2 DEF TypeOK, TypeInit, Unsent, NoTask, Load
<1>4. Sent(loader)  BY <1>2, SizesAssumption DEF Sent, SignInAt, LogIn
<1>5. Answered(main, loader) /\ RootFirst(main, loader, screen)
  BY <1>2, LoadFacts DEF Answered, RootFirst, Busy
<1>6. Rested  BY <1>1, <1>2, LoadFacts DEF Rested, TypeInit
<1>7. Handled  BY <1>1 DEF Handled, TypeInit, Unsent, NoTask
<1> QED  BY <1>3, <1>4, <1>5, <1>6, <1>7 DEF Typed, Queued

LEMMA TypedNext == Typed /\ [Next]_vars => Typed'
<1> SUFFICES ASSUME Typed, [Next]_vars PROVE Typed'
  OBVIOUS
<1>1. CASE \/ \E r \in Roles : BeginChange(r)
           \/ \E commit \in BOOLEAN : EndChange(commit)
           \/ NewPassword
  BY <1>1, ServerTyped
<1>2. CASE \E p \in Passwords : SignIn(p)
  BY <1>2, SignInTyped
<1>3. CASE \E l \in Loaders : Answer(l) \/ Thread(l)
  BY <1>3, AnswerTyped, LookUpTyped, CheckTyped DEF Thread
<1>4. CASE RunMain
  BY <1>4, RunMainTyped
<1>5. CASE \E n \in Noti : Deliver(n) \/ Store(n) \/ Mark(n) \/ TapNote(n)
  BY <1>5, NoteTyped
<1>6. CASE \E s \in Screens : Retry(s)
  BY <1>6, RetryTyped
<1>7. CASE Launch \/ SignOut \/ OpenForm \/ DropForm \/ SaveForm
  BY <1>7, LaunchTyped, SignOutTyped, FormTyped, SaveFormTyped
<1>8. CASE Kill
  BY <1>8, StopTyped DEF Kill, server, realm
<1>9. CASE UNCHANGED vars
  <2>1. UNCHANGED <<account, change, note, stored, table, ready, app, screen, loader, main,
                    home, heard, task, form>>
    BY <1>9 DEF vars, server, realm, phone
  <2>2. Queued'  BY <2>1, QueuedKept DEF Typed
  <2> QED  BY <2>1, <2>2 DEF Typed, TypeOK, Handled
<1> QED
  BY <1>1, <1>2, <1>3, <1>4, <1>5, <1>6, <1>7, <1>8, <1>9 DEF Next

\* Whatever was answered late, repeated, or taken up by a session that has ended: every
\* row that is stored is a user with a password and a role, every load is at one of its
\* steps, and an app that shows no tabs keeps no copy of the user and hears nothing.
THEOREM TypeOKHolds == Spec => []TypeOK
<1>1. Typed => TypeOK
  BY DEF Typed
<1> QED
  BY <1>1, TypedInit, TypedNext, PTL DEF Spec

-------------------------------------------------------------------------------
(* Nobody waits for nothing.  NoDeadWait is not inductive: a load ends      *)
(* without a word unless all tables are there by then or it is spoilt, so   *)
(* that the tables it has passed must be in the Realm file or on their way, *)
(* ahead of the answer to its login.                                        *)

IsFill(m, t) == m.do = "add" /\ m.of = t
IsDone(m, s) == m.do = "done" /\ m.of = s

\* NoDeadWait of a queue, loads, screens and an app.
Served(q, ld, sc, a) ==
  /\ \A l \in Loaders : ld[l].pc = "answered" => \E i \in DOMAIN q : IsAnswer(q[i], l)
  /\ \A s \in Screens : sc[s] = "loading" =>
       \/ ld[s].pc # "idle" \/ ld[s].spoilt
       \/ \E i \in DOMAIN q : IsDone(q[i], s)
  /\ a = "tabs" /\ (\A s \in Screens : sc[s] = "none") => Busy(q, ld)

\* The tables that load x of l has passed are there or on their way; when it waits for
\* the answer to its login, ahead of that answer; when it ends, all are there.  It logs
\* a user in who is stored.
Coming(q, t, n) == \E i \in DOMAIN q : i < n /\ IsFill(q[i], t)
OnTheWay(x, tab, q) ==
  \A t \in 1..Tables : t < x.at => tab[t] # 0 \/ \E i \in DOMAIN q : IsFill(q[i], t)
AheadOf(l, tab, q) ==
  \A j \in DOMAIN q : IsAnswer(q[j], l) =>
    \A t \in 1..Tables : tab[t] # 0 \/ Coming(q, t, j)
Fed(l, x, tab, q, st) ==
  ~x.spoilt =>
    /\ x.pc \in {"look", "asked", "answered"} => OnTheWay(x, tab, q)
    /\ x.pc = "answered" /\ x.at = LogIn => AheadOf(l, tab, q)
    /\ x.pc = "check" => Full(tab)
    /\ x.pc # "idle" /\ x.at # SignInAt => st # None

AllFed == \A l \in Loaders : Fed(l, loader[l], table, main, stored)

\* Tabs are shown to a user who is stored, but for a moment within addUser.
UserThere == app = "tabs" /\ MainFree => stored # None
SignInFirst == \A l \in Loaders : loader[l].at = SignInAt => app = "first"

WaitInv == Served(main, loader, screen, app) /\ AllFed /\ UserThere /\ SignInFirst

\* What is in queue q is in queue r, except perhaps message m.
Loses(q, r, m) == \A j \in DOMAIN q : (\E k \in DOMAIN r : r[k] = q[j]) \/ q[j] = m

LEMMA TailLoses ==
  ASSUME main \in Seq(MainTask), main # <<>>, NEW r, r = Tail(main)
  PROVE  /\ Loses(main, r, Head(main))
         /\ \A j \in DOMAIN main : j = 1 \/ (j - 1 \in DOMAIN r /\ r[j - 1] = main[j])
<1>1. \A j \in DOMAIN main : j = 1 \/ (j - 1 \in DOMAIN r /\ r[j - 1] = main[j])
  OBVIOUS
<1>2. 1 \in DOMAIN main => main[1] = Head(main)
  OBVIOUS
<1> QED
  BY <1>1, <1>2 DEF Loses

LEMMA AppendLoses ==
  ASSUME NEW q \in Seq(MainTask), NEW m \in MainTask, NEW r, r = Append(q, m)
  PROVE  /\ \A j \in DOMAIN q : j \in DOMAIN r /\ r[j] = q[j]
         /\ Len(q) + 1 \in DOMAIN r /\ r[Len(q) + 1] = m /\ Loses(q, r, m)
<1>1. /\ \A j \in DOMAIN q : j \in DOMAIN r /\ r[j] = q[j]
      /\ Len(q) + 1 \in DOMAIN r /\ r[Len(q) + 1] = m
  OBVIOUS
<1> QED
  BY <1>1 DEF Loses

\* What serving needs of a step: who waits has waited, and the one message that is
\* taken, if any, is not what it waits for.
LEMMA ServedKept ==
  ASSUME NEW q, NEW ld, NEW sc, NEW a, Served(q, ld, sc, a),
         NEW r, NEW n, NEW sc2, NEW a2, NEW m, Loses(q, r, m),
         \A l \in Loaders : n[l].pc = "answered" => ld[l].pc = "answered" /\ ~IsAnswer(m, l),
         \A s \in Screens : sc2[s] = "loading" =>
           /\ sc[s] = "loading" /\ ~IsDone(m, s)
           /\ ld[s].pc # "idle" => n[s].pc # "idle"
           /\ ld[s].spoilt => n[s].spoilt,
         a2 = "tabs" /\ (\A s \in Screens : sc2[s] = "none") =>
           \/ n["root"].pc # "idle"
           \/ /\ a = "tabs" /\ (\A s \in Screens : sc[s] = "none") /\ ~IsFinal(m)
              /\ ld["root"].pc # "idle" => n["root"].pc # "idle"
  PROVE  Served(r, n, sc2, a2)
<1>1. ASSUME NEW l \in Loaders, n[l].pc = "answered" PROVE \E i \in DOMAIN r : IsAnswer(r[i], l)
  BY <1>1 DEF Served, Loses
<1>2. ASSUME NEW s \in Screens, sc2[s] = "loading", n[s].pc = "idle", ~n[s].spoilt
      PROVE  \E i \in DOMAIN r : IsDone(r[i], s)
  BY <1>2 DEF Served, Loses
<1>3. ASSUME a2 = "tabs", \A s \in Screens : sc2[s] = "none" PROVE Busy(r, n)
  BY <1>3 DEF Served, Loses, Busy
<1> QED
  BY <1>1, <1>2, <1>3 DEF Served

\* The head of the queue is taken: no answer to load l, and a table only to be there.
LEMMA FedTail ==
  ASSUME main \in Seq(MainTask), main # <<>>, NEW r, r = Tail(main), NEW l, NEW x, NEW tab,
         NEW tab2, NEW st, NEW st2, Fed(l, x, tab, main, st), st # None => st2 # None,
         \A t \in 1..Tables : tab[t] # 0 \/ IsFill(Head(main), t) => tab2[t] # 0
  PROVE  Fed(l, x, tab2, r, st2)
<1>1. \A j \in DOMAIN main : j \in Nat /\ (j = 1 \/ (j - 1 \in DOMAIN r /\ r[j - 1] = main[j]))
  BY TailLoses
<1>2. /\ 1 \in DOMAIN main => main[1] = Head(main)
      /\ \A j \in DOMAIN r : j \in Nat /\ j + 1 \in DOMAIN main /\ r[j] = main[j + 1]
  BY TailAt
<1>3. OnTheWay(x, tab, main) => OnTheWay(x, tab2, r)
  BY <1>1, <1>2 DEF OnTheWay
<1>4. AheadOf(l, tab, main) => AheadOf(l, tab2, r)
  <2> SUFFICES ASSUME AheadOf(l, tab, main), NEW j \in DOMAIN r, IsAnswer(r[j], l),
                      NEW t \in 1..Tables, tab2[t] = 0
               PROVE  Coming(r, t, j)
    BY DEF AheadOf
  <2>1. j \in Nat /\ j + 1 \in DOMAIN main /\ IsAnswer(main[j + 1], l) /\ tab[t] = 0
    BY <1>2
  <2>2. PICK i \in DOMAIN main : i < j + 1 /\ IsFill(main[i], t)
    BY <2>1 DEF AheadOf, Coming
  <2>3. i # 1
    BY <1>2, <2>2
  <2>4. i - 1 \in DOMAIN r /\ r[i - 1] = main[i] /\ i - 1 < j
    BY <1>1, <2>1, <2>2, <2>3
  <2> QED
    BY <2>2, <2>4 DEF Coming
<1>5. Full(tab) => Full(tab2)
  BY DEF Full
<1> QED
  BY <1>3, <1>4, <1>5 DEF Fed

LEMMA FedAppend ==
  ASSUME NEW q \in Seq(MainTask), NEW m \in MainTask, NEW r, r = Append(q, m), NEW l, NEW x,
         NEW tab, NEW st, Fed(l, x, tab, q, st), ~IsAnswer(m, l)
  PROVE  Fed(l, x, tab, r, st)
<1>1. /\ \A j \in DOMAIN q : j \in DOMAIN r /\ r[j] = q[j]
      /\ \A j \in DOMAIN r : (j \in DOMAIN q /\ r[j] = q[j]) \/ r[j] = m
  BY AppendLoses, AppendAt
<1>2. OnTheWay(x, tab, q) => OnTheWay(x, tab, r)
  BY <1>1 DEF OnTheWay
<1>3. AheadOf(l, tab, q) => AheadOf(l, tab, r)
  BY <1>1 DEF AheadOf, Coming
<1> QED
  BY <1>2, <1>3 DEF Fed

\* A load that ended, starts, or is spoilt.
LEMMA FedFresh ==
  ASSUME NEW l, NEW x, NEW tab, NEW q, NEW st,
         \/ x.pc = "idle" \/ x.spoilt
         \/ x.pc \in {"look", "asked"} /\ x.at \in 0..1 /\ (x.at = SignInAt \/ st # None)
  PROVE  Fed(l, x, tab, q, st)
BY DEF Fed, OnTheWay

\* Whatever leaves queue, loads, tables, screens and the app alone keeps the user.
LEMMA WaitSame ==
  ASSUME WaitInv, UNCHANGED <<table, app, screen, loader, main>>,
         stored' = stored \/ stored' # None
  PROVE  WaitInv'
<1>1. \A l \in Loaders : Fed(l, loader[l], table, main, stored')
  BY DEF WaitInv, AllFed, Fed
<1> QED
  BY <1>1 DEF WaitInv, AllFed, UserThere, SignInFirst, MainFree

\* Nothing is taken from the queue.
LEMMA ServedStay ==
  ASSUME NEW q, NEW ld, NEW sc, NEW a, Served(q, ld, sc, a),
         NEW r, NEW n, NEW sc2, NEW a2, \A j \in DOMAIN q : \E k \in DOMAIN r : r[k] = q[j],
         \A l \in Loaders : n[l].pc = "answered" => ld[l].pc = "answered",
         \A s \in Screens : sc2[s] = "loading" =>
           /\ sc[s] = "loading"
           /\ ld[s].pc # "idle" => n[s].pc # "idle"
           /\ ld[s].spoilt => n[s].spoilt,
         a2 = "tabs" /\ (\A s \in Screens : sc2[s] = "none") =>
           \/ n["root"].pc # "idle"
           \/ /\ a = "tabs" /\ (\A s \in Screens : sc[s] = "none")
              /\ ld["root"].pc # "idle" => n["root"].pc # "idle"
  PROVE  Served(r, n, sc2, a2)
<1>1. PICK m : m = [do |-> "none"]
  OBVIOUS
<1>2. ~IsFinal(m) /\ \A x : ~IsAnswer(m, x) /\ ~IsDone(m, x)
  BY <1>1 DEF IsFinal, IsAnswer, IsDone
<1>3. Loses(q, r, m)
  BY DEF Loses
<1> QED
  BY <1>2, <1>3, ServedKept

LEMMA FreeAppend ==
  ASSUME main \in Seq(MainTask), NEW m \in MainTask, main' = Append(main, m), MainFree'
  PROVE  MainFree
BY DEF MainFree

-------------------------------------------------------------------------------
(* The steps that keep queue and loads.                                     *)

LEMMA ServerWaits ==
  ASSUME WaitInv, \/ \E r \in Roles : BeginChange(r)
                  \/ \E commit \in BOOLEAN : EndChange(commit)
                  \/ NewPassword \/ OpenForm \/ DropForm \/ UNCHANGED vars
  PROVE  WaitInv'
<1>1. UNCHANGED <<table, app, screen, loader, main, stored>>
  BY DEF BeginChange, EndChange, NewPassword, OpenForm, DropForm, vars, realm, phone
<1> QED
  BY <1>1, WaitSame

LEMMA NoteWaits ==
  ASSUME Typed, WaitInv, NEW n \in Noti, Deliver(n) \/ Store(n) \/ Mark(n) \/ TapNote(n)
  PROVE  WaitInv'
<1>1. UNCHANGED <<table, app, screen, loader, main>>
  BY DEF Deliver, Store, Mark, TapNote, realm, phone
<1>2. stored' = stored \/ stored' # None
  <2>1. CASE Store(n)
    <3>1. stored' = [pw |-> task[n].pw, role |-> note[n].role] /\ task[n].st = "queued"
      BY <2>1 DEF Store
    <3>2. stored' \in Row
      BY <3>1 DEF Typed, Handled, Row
    <3> QED
      BY <3>2, NoneAssumption
  <2>2. CASE Deliver(n) \/ Mark(n) \/ TapNote(n)
    BY <2>2 DEF Deliver, Mark, TapNote, realm, phone
  <2> QED
    BY <2>1, <2>2
<1> QED
  BY <1>1, <1>2, WaitSame

\* All loads are over, or have just begun.
LEMMA Fresh ==
  ASSUME NEW st, \A l \in Loaders : \/ loader'[l].pc = "idle" \/ loader'[l].spoilt
                                    \/ /\ loader'[l].pc \in {"look", "asked"}
                                       /\ loader'[l].at \in 0..1
                                       /\ loader'[l].at = SignInAt \/ st # None,
         stored' = st
  PROVE  AllFed'
BY FedFresh DEF AllFed

LEMMA StopWaits == ASSUME Stop PROVE WaitInv'
<1>1. /\ loader' = [l \in Loaders |-> Quiet] /\ app' = "off"
      /\ screen' = [s \in Screens |-> "none"]
  BY DEF Stop
<1>2. \A l \in Loaders : loader'[l].pc = "idle" /\ loader'[l].at # SignInAt
  BY <1>1, LoadFacts DEF SignInAt
<1>3. AllFed'
  BY <1>2, Fresh
<1> QED
  BY <1>1, <1>2, <1>3 DEF WaitInv, Served, UserThere, SignInFirst

LEMMA SetupWaits ==
  ASSUME NEW rdy \in BOOLEAN, NEW on \in SUBSET Screens, NEW rest, SetupTabs(rdy, on, rest),
         stored' = stored
  PROVE  WaitInv'
<1>1. CASE stored = None
  BY <1>1, StopWaits DEF SetupTabs
<1>2. CASE stored # None
  <2>1. /\ screen' = [s \in Screens |-> IF s \notin on THEN "error"
                                        ELSE IF rdy THEN "shown" ELSE "loading"]
        /\ loader' = [l \in Loaders |-> IF l \in on /\ ~rdy THEN Looking ELSE Quiet]
        /\ app' = "tabs"
    BY <1>2 DEF SetupTabs
  <2>2. \A l \in Loaders : /\ loader'[l] \in {Looking, Quiet}
                           /\ l \in on /\ ~rdy => loader'[l] = Looking
    BY <2>1
  <2>3. \A l \in Loaders : /\ loader'[l].pc \in {"idle", "look"} /\ loader'[l].at = 1
                           /\ l \in on /\ ~rdy => loader'[l].pc = "look"
    BY <2>2, LoadFacts
  <2>4. AllFed'
    BY <1>2, <2>3, Fresh
  <2>5. \A s \in Screens : screen'[s] # "none" /\ (screen'[s] = "loading" => s \in on /\ ~rdy)
    BY <2>1
  <2>6. Served(main', loader', screen', app')
    BY <2>3, <2>5, LoadFacts DEF Served, Screens
  <2> QED
    BY <1>2, <2>1, <2>3, <2>4, <2>6 DEF WaitInv, UserThere, SignInFirst, SignInAt
<1> QED
  BY <1>1, <1>2

-------------------------------------------------------------------------------
(* The steps of the loads.                                                  *)

LEMMA SignInWaits ==
  ASSUME Typed, WaitInv, NEW p \in Passwords, SignIn(p)
  PROVE  WaitInv'
<1>1. /\ app = "first" /\ \A l \in Loaders : loader[l].pc = "idle"
      /\ UNCHANGED <<app, screen, main, stored>>
  BY DEF SignIn, realm
<1>2. PICK ld : /\ ld = [Quiet EXCEPT !.pc = "asked", !.at = SignInAt, !.pw = p]
                /\ loader' = [loader EXCEPT !["root"] = ld]
  BY DEF SignIn
<1>3. ld = [pc |-> "asked", at |-> 0, pw |-> p, loaded |-> FALSE, spoilt |-> FALSE]
  BY <1>2 DEF Quiet, SignInAt
<1>4. ld.pc = "asked" /\ ld.at = SignInAt /\ SignInAt \in 0..1
  BY <1>3 DEF SignInAt
<1>5. \A l \in Loaders : loader'[l] = ld \/ loader'[l].pc = "idle"
  BY <1>1, <1>2, LoaderTyped
<1>6. AllFed'
  BY <1>1, <1>4, <1>5, Fresh
<1>7. \A s \in Screens : screen'[s] = "none"
  BY <1>1 DEF Typed, TypeOK
<1>8. \A l \in Loaders : loader'[l].pc # "answered"
  BY <1>4, <1>5
<1>9. Served(main', loader', screen', app')
  BY <1>1, <1>7, <1>8 DEF Served
<1> QED
  BY <1>1, <1>6, <1>9 DEF WaitInv, UserThere, SignInFirst

LEMMA AnswerWaits ==
  ASSUME Typed, WaitInv, NEW l \in Loaders, Answer(l)
  PROVE  WaitInv'
<1>1. /\ UNCHANGED <<stored, table, app, screen>>
      /\ loader[l].pc = "asked" /\ loader' = [loader EXCEPT ![l].pc = "answered"]
  BY DEF Answer, realm
<1>2. PICK ok \in BOOLEAN : main' = Append(main, Reply(l, ok, IF ok THEN account.role ELSE None))
  BY DEF Answer
<1>3. PICK m : m = Reply(l, ok, IF ok THEN account.role ELSE None)
  OBVIOUS
<1>4. m \in MainTask /\ m.do = "answer" /\ m.of = l
  <2>1. account.role \in Roles  BY DEF Typed, TypeOK, Row
  <2> QED  BY <1>3, <2>1, MessageTypes DEF Reply
<1>5. /\ loader'[l].pc = "answered" /\ loader'[l].at = loader[l].at
      /\ loader'[l].spoilt = loader[l].spoilt
      /\ \A k \in Loaders : k # l => loader'[k] = loader[k]
  BY <1>1, LoaderTyped DEF Load
<1>6. /\ main \in Seq(MainTask) /\ main' = Append(main, m)
      /\ \A j \in DOMAIN main : j \in DOMAIN main' /\ main'[j] = main[j]
      /\ Len(main) + 1 \in DOMAIN main' /\ main'[Len(main) + 1] = m
      /\ \A j \in DOMAIN main : j \in Nat /\ j < Len(main) + 1
  BY <1>2, <1>3, <1>4, AppendLoses, LoaderTyped
<1>7. \A j \in DOMAIN main' : \/ j \in DOMAIN main /\ main'[j] = main[j]
                              \/ j = Len(main) + 1 /\ main'[j] = m
  BY <1>4, <1>6, AppendAt
<1>8. Served(main', loader', screen', app')
  <2>1. ASSUME NEW k \in Loaders, loader'[k].pc = "answered"
        PROVE  \E i \in DOMAIN main' : IsAnswer(main'[i], k)
    BY <1>4, <1>5, <1>6, <2>1 DEF Served, WaitInv, IsAnswer
  <2>2. ASSUME NEW s \in Screens, screen'[s] = "loading", loader'[s].pc = "idle",
               ~loader'[s].spoilt
        PROVE  \E i \in DOMAIN main' : IsDone(main'[i], s)
    BY <1>1, <1>5, <1>6, <2>2, LoadFacts DEF Served, WaitInv
  <2>3. Busy(main, loader) => Busy(main', loader')
    BY <1>1, <1>5, <1>6, LoadFacts DEF Busy
  <2> QED
    BY <1>1, <2>1, <2>2, <2>3 DEF Served, WaitInv
<1>9. ASSUME NEW k \in Loaders PROVE Fed(k, loader'[k], table', main', stored')
  <2>1. CASE k # l
    BY <1>1, <1>4, <1>5, <1>6, <2>1, FedAppend DEF WaitInv, AllFed, IsAnswer
  <2>2. CASE k = l /\ ~loader[l].spoilt
    <3>1. OnTheWay(loader[l], table, main) /\ (loader[l].at # SignInAt => stored # None)
      BY <1>1, <2>2 DEF WaitInv, AllFed, Fed
    <3>2. OnTheWay(loader'[l], table, main')
      BY <1>5, <1>6, <3>1 DEF OnTheWay
    <3>3. \A j \in DOMAIN main' : IsAnswer(main'[j], l) => j = Len(main) + 1
      BY <1>1, <1>7 DEF Typed, Queued, Answered
    <3>4. loader[l].at = LogIn => AheadOf(l, table, main')
      <4> SUFFICES ASSUME loader[l].at = LogIn, NEW j \in DOMAIN main', IsAnswer(main'[j], l),
                          NEW t \in 1..Tables, table[t] = 0
                   PROVE  Coming(main', t, j)
        BY DEF AheadOf
      <4>1. t < LogIn
        BY SizesAssumption DEF LogIn
      <4>2. PICK i \in DOMAIN main : IsFill(main[i], t)
        BY <3>1, <4>1 DEF OnTheWay
      <4>3. j = Len(main) + 1
        BY <3>3
      <4> QED
        BY <1>6, <4>2, <4>3 DEF Coming
    <3> QED
      BY <1>1, <1>5, <2>2, <3>1, <3>2, <3>4 DEF Fed
  <2>3. CASE k = l /\ loader[l].spoilt
    BY <1>5, <2>3 DEF Fed
  <2> QED
    BY <2>1, <2>2, <2>3
<1>10. UserThere'
  BY <1>1, <1>4, <1>6, FreeAppend DEF UserThere, WaitInv
<1>11. SignInFirst'
  BY <1>1, <1>5 DEF SignInFirst, WaitInv
<1> QED
  BY <1>8, <1>9, <1>10, <1>11 DEF WaitInv, AllFed

LEMMA LookUpWaits ==
  ASSUME Typed, WaitInv, NEW l \in Loaders, LookUp(l)
  PROVE  WaitInv'
<1>1. UNCHANGED <<stored, table, app, screen, main>> /\ loader[l].pc = "look"
  BY DEF LookUp, realm
<1>2. PICK ld : loader' = [loader EXCEPT ![l] = ld] /\ ld = loader'[l]
  BY LoaderTyped DEF LookUp
<1>3. /\ loader[l] \in Load /\ loader[l].at \in 1..LogIn
      /\ \A k \in Loaders : k # l => loader'[k] = loader[k]
  BY <1>1, <1>2, LoaderTyped, LoadFacts DEF Load, Sent, Typed, Queued, SignInAt
<1>4. /\ ld.spoilt = loader[l].spoilt /\ ld.pc \in {"look", "asked", "check"} /\ ld.at # 0
      /\ Fed(l, ld, table, main, stored)
  <2>1. /\ ~loader[l].spoilt => OnTheWay(loader[l], table, main) /\ stored # None
    BY <1>1, <1>3, LoadFacts DEF WaitInv, AllFed, Fed, SignInAt
  <2>2. CASE loader[l].at < LogIn /\ table[loader[l].at] # 0
    <3>1. ld = [loader[l] EXCEPT !.at = loader[l].at + 1]
      BY <1>2, <2>2, LoaderTyped DEF LookUp
    <3>2. /\ ld.at = loader[l].at + 1 /\ ld.pc = "look" /\ ld.spoilt = loader[l].spoilt
      BY <1>1, <1>3, <3>1 DEF Load
    <3>3. OnTheWay(loader[l], table, main) => OnTheWay(ld, table, main)
      BY <1>3, <2>2, <3>2, LoadFacts DEF OnTheWay
    <3>4. ld.at # 0
      BY <1>3, <3>2, LoadFacts
    <3> QED
      BY <2>1, <3>2, <3>3, <3>4 DEF Fed
  <2>3. CASE loader[l].at < LogIn /\ table[loader[l].at] = 0
    <3>1. ld = [loader[l] EXCEPT !.pc = "asked"]  BY <1>2, <2>3, LoaderTyped DEF LookUp
    <3>2. ld.at = loader[l].at /\ ld.pc = "asked" /\ ld.spoilt = loader[l].spoilt
      BY <1>3, <3>1 DEF Load
    <3>3. OnTheWay(loader[l], table, main) => OnTheWay(ld, table, main)
      BY <3>2 DEF OnTheWay
    <3> QED
      BY <1>3, <2>1, <3>2, <3>3 DEF Fed
  <2>4. CASE ~(loader[l].at < LogIn) /\ stored = None
    <3>1. ld = [loader[l] EXCEPT !.pc = "check"]  BY <1>2, <2>4, LoaderTyped DEF LookUp
    <3>2. ld.at = loader[l].at /\ ld.pc = "check" /\ ld.spoilt = loader[l].spoilt
      BY <1>3, <3>1 DEF Load
    <3> QED
      BY <1>3, <2>1, <2>4, <3>2 DEF Fed
  <2>5. CASE ~(loader[l].at < LogIn) /\ stored # None
    <3>1. PICK p : p = stored.pw  OBVIOUS
    <3>2. ld = [loader[l] EXCEPT !.pc = "asked", !.pw = p]
      BY <1>2, <2>5, <3>1, LoaderTyped DEF LookUp
    <3>3. ld.at = loader[l].at /\ ld.pc = "asked" /\ ld.spoilt = loader[l].spoilt
      BY <1>3, <3>2 DEF Load
    <3>4. OnTheWay(loader[l], table, main) => OnTheWay(ld, table, main)
      BY <3>3 DEF OnTheWay
    <3> QED
      BY <1>3, <2>1, <3>3, <3>4 DEF Fed
  <2> QED
    BY <2>2, <2>3, <2>4, <2>5
<1>5. AllFed'
  BY <1>1, <1>2, <1>3, <1>4 DEF AllFed, WaitInv
<1>6. \A k \in Loaders : /\ loader'[k].pc = "answered" => loader[k].pc = "answered"
                         /\ loader[k].pc # "idle" => loader'[k].pc # "idle"
                         /\ loader[k].spoilt => loader'[k].spoilt
                         /\ loader'[k].at = SignInAt => loader[k].at = SignInAt
  BY <1>1, <1>2, <1>3, <1>4 DEF SignInAt
<1>7. Served(main', loader', screen', app')
  BY <1>1, <1>6, ServedStay, LoadFacts DEF WaitInv
<1> QED
  BY <1>1, <1>5, <1>6, <1>7 DEF WaitInv, UserThere, MainFree, SignInFirst

LEMMA CheckWaits ==
  ASSUME Typed, WaitInv, NEW l \in Loaders, Check(l)
  PROVE  WaitInv'
<1>1. /\ UNCHANGED <<stored, table, app>>
      /\ loader[l].pc = "check" /\ loader' = [loader EXCEPT ![l] = Rest(l)]
  BY DEF Check, realm
<1>2. PICK ld : /\ ld = [Quiet EXCEPT !.spoilt = loader[l].spoilt]
                /\ loader' = [loader EXCEPT ![l] = ld]
  BY <1>1 DEF Rest
<1>3. ld = [pc |-> "idle", at |-> 1, pw |-> None, loaded |-> FALSE, spoilt |-> loader[l].spoilt]
  BY <1>2 DEF Quiet
<1>4. /\ loader'[l] = ld /\ ld.pc = "idle" /\ ld.at = 1 /\ ld.spoilt = loader[l].spoilt
      /\ \A k \in Loaders : k # l => loader'[k] = loader[k]
  BY <1>2, <1>3, LoaderTyped
<1>5. PICK m : m = IF l = "root" THEN Final(loader[l].loaded) ELSE Done(l)
  OBVIOUS
<1>6. /\ m \in MainTask /\ m.do \in {"final", "done"}
      /\ l = "root" => IsFinal(m)
      /\ l # "root" => l \in Screens /\ IsDone(m, l)
  <2>1. loader[l].loaded \in BOOLEAN /\ (l # "root" => l \in Screens)
    BY LoaderTyped DEF Load, Loaders, Screens
  <2> QED
    BY <1>5, <2>1, MessageTypes DEF Final, Done, IsFinal, IsDone
<1>7. main \in Seq(MainTask) /\ (main' = main \/ main' = Append(main, m))
  <2>1. CASE l = "root"   BY <1>5, <2>1, LoaderTyped DEF Check
  <2>2. CASE l # "root"   BY <1>5, <2>2, LoaderTyped DEF Check
  <2> QED  BY <2>1, <2>2
<1>8. \A j \in DOMAIN main : j \in DOMAIN main' /\ main'[j] = main[j]
  BY <1>6, <1>7, AppendLoses
<1>9. ASSUME NEW k \in Loaders PROVE Fed(k, loader'[k], table', main', stored')
  <2>1. CASE k = l
    BY <1>4, <2>1, FedFresh
  <2>2. CASE k # l
    <3>1. Fed(k, loader'[k], table, main, stored) /\ ~IsAnswer(m, k)
      BY <1>4, <1>6, <2>2 DEF WaitInv, AllFed, IsAnswer
    <3> QED
      BY <1>1, <1>6, <1>7, <3>1, FedAppend
  <2> QED
    BY <2>1, <2>2
<1>10. UserThere'
  <2>1. MainFree' => MainFree
    BY <1>6, <1>7, FreeAppend DEF MainFree
  <2> QED
    BY <1>1, <2>1 DEF UserThere, WaitInv
<1>11. SignInFirst'
  BY <1>1, <1>4 DEF SignInFirst, WaitInv, SignInAt
<1>12. \A k \in Loaders : loader'[k].pc = "answered" =>
         \E i \in DOMAIN main' : IsAnswer(main'[i], k)
  BY <1>4, <1>8 DEF Served, WaitInv
<1>13. Served(main', loader', screen', app')
  <2>1. CASE l = "root"
    <3>1. main' = Append(main, m) /\ screen' = screen
      BY <1>5, <2>1 DEF Check
    <3>2. Busy(main', loader')
      BY <1>6, <1>7, <2>1, <3>1, AppendLoses DEF Busy
    <3>3. \A s \in Screens : screen'[s] = "none"
      BY <1>1, <2>1, <3>1 DEF RootFirst, Busy, Typed, Queued
    <3> QED
      BY <1>12, <3>2, <3>3 DEF Served
  <2>2. CASE l # "root"
    <3>1. l \in Screens
      BY <1>6, <2>2
    <3>2. ~Busy(main, loader)
      BY <1>1, <3>1 DEF RootFirst, Typed, Queued
    <3> DEFINE bad == Full(table) /\ ~loader[l].loaded /\ app = "tabs"
    <3>3. /\ bad => screen' = [screen EXCEPT ![l] = "error"]
          /\ ~bad => screen' = screen
      BY <2>2 DEF Check
    <3>4. \A s \in Screens : /\ screen'[s] = "none" => screen[s] = "none"
                             /\ screen'[s] = "loading" => screen[s] = "loading" /\ (s = l => ~bad)
      <4>1. CASE bad   BY <3>1, <3>3, <4>1 DEF Typed, TypeOK
      <4>2. CASE ~bad  BY <3>3, <4>2
      <4> QED  BY <4>1, <4>2
    <3>5. screen'[l] = "loading" /\ ~loader[l].spoilt => IsDone(m, l) /\ main' = Append(main, m)
      <4> SUFFICES ASSUME screen'[l] = "loading", ~loader[l].spoilt
                   PROVE  IsDone(m, l) /\ main' = Append(main, m)
        OBVIOUS
      <4>1. Full(table)
        BY <1>1 DEF WaitInv, AllFed, Fed
      <4>2. app = "tabs"
        BY <3>1, <3>4 DEF Typed, TypeOK
      <4>3. loader[l].loaded
        BY <3>1, <3>4, <4>1, <4>2
      <4>4. ready'
        BY <2>2, <4>1, <4>3 DEF Check
      <4> QED
        BY <1>5, <1>6, <2>2, <4>4 DEF Check
    <3>6. ASSUME NEW s \in Screens, screen'[s] = "loading", loader'[s].pc = "idle",
                 ~loader'[s].spoilt
          PROVE  \E i \in DOMAIN main' : IsDone(main'[i], s)
      <4>1. CASE s = l
        BY <1>4, <1>6, <1>7, <3>5, <3>6, <4>1, AppendLoses
      <4>2. CASE s # l
        BY <1>4, <1>8, <3>4, <3>6, <4>2, LoadFacts DEF Served, WaitInv
      <4> QED
        BY <4>1, <4>2
    <3> QED
      BY <1>1, <1>12, <3>2, <3>4, <3>6 DEF Served, WaitInv
  <2> QED
    BY <2>1, <2>2
<1> QED
  BY <1>9, <1>10, <1>11, <1>13 DEF WaitInv, AllFed

-------------------------------------------------------------------------------
(* The main queue.                                                          *)

\* The head is taken, no load is touched, and no screen begins to wait.
LEMMA TakenWaits ==
  ASSUME Typed, WaitInv, main # <<>>, main' = Tail(main), UNCHANGED <<loader, app>>,
         stored' # None \/ app # "tabs", stored # None => stored' # None,
         ~IsFinal(Head(main)), Head(main).do # "answer",
         \A s \in Screens : /\ screen'[s] = "loading" => /\ screen[s] = "loading"
                                                         /\ ~IsDone(Head(main), s)
                            /\ screen'[s] = "none" => screen[s] = "none",
         \A t \in 1..Tables : table[t] # 0 \/ IsFill(Head(main), t) => table'[t] # 0
  PROVE  WaitInv'
<1>1. main \in Seq(MainTask)
  BY LoaderTyped
<1>2. PICK r : r = Tail(main) /\ r = main'
  OBVIOUS
<1>3. Loses(main, r, Head(main))
  BY <1>1, <1>2, TailLoses
<1>4. Served(r, loader, screen', app)
  BY <1>3, ServedKept DEF WaitInv, IsAnswer
<1>5. ASSUME NEW k \in Loaders PROVE Fed(k, loader[k], table', r, stored')
  <2>1. Fed(k, loader[k], table, main, stored)
    BY DEF WaitInv, AllFed
  <2> QED
    BY <1>1, <1>2, <2>1, FedTail
<1> QED
  BY <1>2, <1>4, <1>5 DEF WaitInv, AllFed, UserThere, SignInFirst

LEMMA AddTableWaits == ASSUME Typed, WaitInv, AddTable PROVE WaitInv'
<1>1. /\ UNCHANGED <<stored, app, screen, loader>>
      /\ main # <<>> /\ main' = Tail(main) /\ Head(main).do = "add"
      /\ table' = [table EXCEPT ![Head(main).of] = IF @ = 0 THEN @ + 1 ELSE @]
  BY DEF AddTable, AtHead
<1>2. PICK h : h = Head(main).of
  OBVIOUS
<1>3. ASSUME NEW t \in 1..Tables, table[t] # 0 \/ IsFill(Head(main), t) PROVE table'[t] # 0
  <2>1. table' = [table EXCEPT ![h] = IF @ = 0 THEN @ + 1 ELSE @] /\ (table[t] # 0 \/ t = h)
    BY <1>1, <1>2, <1>3 DEF IsFill
  <2> QED
    BY <2>1 DEF Typed, TypeOK
<1>4. MainFree
  BY <1>1 DEF MainFree
<1>5. ~IsFinal(Head(main)) /\ \A s \in Screens : ~IsDone(Head(main), s)
  BY <1>1 DEF IsFinal, IsDone
<1> QED
  BY <1>1, <1>3, <1>4, <1>5, TakenWaits DEF WaitInv, UserThere

LEMMA StoreWaits == ASSUME Typed, WaitInv, StoreCopy \/ WriteUser PROVE WaitInv'
<1>1. /\ UNCHANGED <<table, app, screen, loader>>
      /\ main # <<>> /\ main' = Tail(main) /\ Head(main).do \in {"prefer", "write"}
  BY DEF StoreCopy, WriteUser, AtHead
<1>2. Head(main).of \in Row
  BY <1>1, LoaderTyped, TailAt, MessageFacts
<1>3. stored' # None
  <2>1. stored' = Head(main).of \/ (stored # None /\ stored' = stored)
    BY DEF StoreCopy, WriteUser
  <2> QED
    BY <1>2, <2>1, NoneAssumption
<1>4. ~IsFinal(Head(main)) /\ \A s \in Screens : ~IsDone(Head(main), s)
  BY <1>1 DEF IsFinal, IsDone
<1>5. \A t \in 1..Tables : ~IsFill(Head(main), t)
  BY <1>1 DEF IsFill
<1> QED
  BY <1>1, <1>3, <1>4, <1>5, TakenWaits

LEMMA CompleteWaits == ASSUME Typed, WaitInv, Complete PROVE WaitInv'
<1>1. /\ UNCHANGED <<stored, table>> /\ main # <<>> /\ Head(main).do = "done"
      /\ ShowScreen(Head(main).of, Tail(main))
  BY DEF Complete, AtHead, realm
<1>2. CASE Head(main).of = "home" /\ stored = None
  BY <1>1, <1>2, StopWaits DEF ShowScreen
<1>3. CASE ~(Head(main).of = "home" /\ stored = None)
  <2>1. PICK h : h = Head(main).of
    OBVIOUS
  <2>2. /\ UNCHANGED <<app, loader>> /\ main' = Tail(main)
        /\ screen' = [screen EXCEPT ![h] = IF app = "tabs" THEN "shown" ELSE @]
    BY <1>1, <1>3, <2>1 DEF ShowScreen
  <2>3. \A s \in Screens : /\ screen'[s] = "loading" => screen[s] = "loading" /\ s # h
                           /\ screen'[s] = "none" => screen[s] = "none"
    BY <2>2 DEF Typed, TypeOK
  <2>4. MainFree /\ ~IsFinal(Head(main)) /\ \A s \in Screens : IsDone(Head(main), s) => s = h
    BY <1>1, <2>1 DEF MainFree, IsFinal, IsDone
  <2>5. \A t \in 1..Tables : ~IsFill(Head(main), t)
    BY <1>1 DEF IsFill
  <2> QED
    BY <1>1, <2>2, <2>3, <2>4, <2>5, TakenWaits DEF WaitInv, UserThere
<1> QED
  BY <1>2, <1>3

LEMMA SetUpWaits == ASSUME SetUp PROVE WaitInv'
<1>1. PICK on \in SUBSET Screens : SetupTabs(Full(table) /\ Head(main).of, on, Tail(main))
  BY DEF SetUp
<1>2. stored' = stored
  BY DEF SetUp, realm
<1> QED
  BY <1>1, <1>2, SetupWaits

\* Loads that run are spoilt when the file is emptied, and the others have nothing to lose.
LEMMA EmptiedFed ==
  ASSUME Typed, loader' = Emptied
  PROVE  /\ AllFed'
         /\ \A k \in Loaders : loader[k].spoilt => loader'[k].spoilt
<1>1. ASSUME NEW k \in Loaders
      PROVE  /\ loader'[k].pc = "idle" \/ loader'[k].spoilt
             /\ loader[k].spoilt => loader'[k].spoilt
  <2>1. PICK ld : ld = [loader[k] EXCEPT !.spoilt = @ \/ loader[k].pc # "idle"]  OBVIOUS
  <2>2. ld = loader'[k]  BY <2>1 DEF Emptied
  <2>3. loader[k] \in Load  BY LoaderTyped
  <2>4. /\ ld.pc = loader[k].pc
        /\ ld.spoilt = (loader[k].spoilt \/ loader[k].pc # "idle")
    BY <2>1, <2>3 DEF Load
  <2> QED
    BY <2>2, <2>3, <2>4 DEF Load
<1> QED
  BY <1>1, Fresh

LEMMA FrontLoses ==
  ASSUME main \in Seq(MainTask), main # <<>>, NEW m, NEW r, r = <<m>> \o Tail(main)
  PROVE  Loses(main, r, Head(main)) /\ r # <<>> /\ Head(r) = m
<1>1. \A j \in DOMAIN main : j = 1 \/ (j \in DOMAIN r /\ r[j] = main[j])
  OBVIOUS
<1>2. (1 \in DOMAIN main => main[1] = Head(main)) /\ r # <<>> /\ Head(r) = m
  OBVIOUS
<1> QED
  BY <1>1, <1>2 DEF Loses

LEMMA EmptyRealmWaits == ASSUME Typed, WaitInv, EmptyRealm PROVE WaitInv'
<1>1. /\ UNCHANGED <<app, screen>> /\ main # <<>> /\ loader' = Emptied
      /\ Head(main).do = "save" /\ main' = <<Write(Head(main).of)>> \o Tail(main)
  BY DEF EmptyRealm, AtHead
<1>2. PICK m : m = Write(Head(main).of)
  OBVIOUS
<1>3. m.do = "write"
  BY <1>2 DEF Write
<1>4. PICK r : r = <<m>> \o Tail(main) /\ r = main'
  BY <1>1, <1>2
<1>5. Loses(main, r, Head(main)) /\ r # <<>> /\ Head(r) = m
  BY <1>1, <1>4, LoaderTyped, FrontLoses
<1>6. /\ AllFed' /\ \A k \in Loaders : loader[k].spoilt => loader'[k].spoilt
      /\ \A k \in Loaders : loader'[k].pc = loader[k].pc /\ loader'[k].at = loader[k].at
  BY <1>1, EmptiedFed, EmptiedLoads
<1>7. ~IsFinal(Head(main)) /\ \A x : ~IsAnswer(Head(main), x) /\ ~IsDone(Head(main), x)
  BY <1>1 DEF IsFinal, IsDone, IsAnswer
<1>8. Served(r, loader', screen', app')
  BY <1>1, <1>5, <1>6, <1>7, ServedKept, LoadFacts DEF WaitInv
<1>9. ~MainFree'
  BY <1>3, <1>4, <1>5 DEF MainFree
<1> QED
  BY <1>1, <1>4, <1>6, <1>8, <1>9 DEF WaitInv, UserThere, SignInFirst

LEMMA SignOutWaits == ASSUME Typed, WaitInv, SignOut PROVE WaitInv'
<1>1. /\ UNCHANGED main /\ app' = "first" /\ screen' = [s \in Screens |-> "none"]
      /\ loader' = Emptied
  BY DEF SignOut
<1>2. AllFed' /\ \A k \in Loaders : loader'[k].pc = loader[k].pc
  BY <1>1, EmptiedFed, EmptiedLoads
<1>3. Served(main', loader', screen', app')
  BY <1>1, <1>2 DEF Served, WaitInv
<1> QED
  BY <1>1, <1>2, <1>3 DEF WaitInv, UserThere, SignInFirst

\* The other loads do not notice an answer to load l.
LEMMA OthersFed ==
  ASSUME Typed, WaitInv, AtHead("answer"), NEW l \in Loaders, Head(main).of = l,
         NEW r, r = Tail(main), table' = table, stored # None => stored' # None
  PROVE  /\ \A k \in Loaders : Fed(k, loader[k], table', r, stored')
         /\ Loses(main, r, Head(main))
         /\ \A k \in Loaders : IsAnswer(Head(main), k) <=> k = l
         /\ \A s \in Screens : ~IsDone(Head(main), s)
         /\ ~IsFinal(Head(main)) /\ MainFree /\ loader[l].pc = "answered"
         /\ main \in Seq(MainTask) /\ r \in Seq(MainTask)
<1>1. main \in Seq(MainTask) /\ main # <<>> /\ Head(main).do = "answer" /\ r \in Seq(MainTask)
  BY LoaderTyped, TailAt DEF AtHead
<1>2. /\ \A k \in Loaders : IsAnswer(Head(main), k) <=> k = l
      /\ \A s \in Screens : ~IsDone(Head(main), s)
      /\ ~IsFinal(Head(main)) /\ MainFree
  BY <1>1 DEF IsAnswer, IsDone, IsFinal, MainFree
<1>3. loader[l].pc = "answered"
  BY <1>1, <1>2, TailAt DEF Typed, Queued, Answered
<1>4. \A t \in 1..Tables : ~IsFill(Head(main), t)
  BY <1>1 DEF IsFill
<1>5. ASSUME NEW k \in Loaders PROVE Fed(k, loader[k], table', r, stored')
  <2>1. Fed(k, loader[k], table, main, stored)
    BY DEF WaitInv, AllFed
  <2> QED
    BY <1>1, <1>4, <2>1, FedTail
<1> QED
  BY <1>1, <1>2, <1>3, <1>5, TailLoses

LEMMA SignInAnswerWaits ==
  ASSUME Typed, WaitInv, AtHead("answer"), NEW l \in Loaders, Head(main).of = l,
         loader[l].at = SignInAt, NEW ok \in BOOLEAN, NEW x \in Roles \cup {None},
         ok => x \in Roles, AnswerSignIn(l, ok, x), screen' = screen
  PROVE  WaitInv'
<1>1. l = "root" /\ loader[l].pw \in Passwords /\ loader[l].pc = "answered"
  <2>1. loader[l].pc = "answered"
    BY LoaderTyped, TailAt DEF Typed, Queued, Answered, IsAnswer, AtHead
  <2> QED
    BY <2>1 DEF Typed, Queued, Sent
<1>2. \A s \in Screens : screen'[s] = "none" /\ loader[s].pc = "idle"
  BY <1>1 DEF Typed, Queued, RootFirst, Busy
<1>3. CASE ok
  <2>1. /\ stored' = [pw |-> loader[l].pw, role |-> x] /\ app' = "tabs"
        /\ loader' = [loader EXCEPT ![l] = Looking]
    BY <1>3 DEF AnswerSignIn
  <2>2. stored' # None
    <3>1. stored' \in Row
      BY <1>1, <1>3, <2>1 DEF Row
    <3> QED
      BY <3>1, NoneAssumption
  <2>3. loader'["root"] = Looking /\ \A s \in Screens : loader'[s] = loader[s]
    BY <1>1, <2>1, LoaderTyped, LoadFacts
  <2>4. \A k \in Loaders : k = "root" \/ k \in Screens
    BY DEF Loaders
  <2>5. \A k \in Loaders : \/ loader'[k].pc = "look" /\ loader'[k].at = 1
                           \/ loader'[k].pc = "idle" /\ loader'[k].at = loader[k].at /\ k # "root"
    BY <1>2, <2>3, <2>4, LoadFacts
  <2>6. AllFed'
    BY <2>2, <2>5, Fresh
  <2>7. SignInFirst'
    BY <2>1 , <2>5 DEF SignInFirst, Typed, Queued, Sent, SignInAt
  <2>8. Served(main', loader', screen', app')
    BY <1>2, <2>3, <2>5, LoadFacts DEF Served, Busy
  <2> QED
    BY <2>2, <2>6, <2>7, <2>8 DEF WaitInv, UserThere
<1>4. CASE ~ok
  <2>1. loader' = [loader EXCEPT ![l] = Quiet] /\ UNCHANGED <<stored, app>>
    BY <1>4 DEF AnswerSignIn, realm
  <2>2. app = "first"
    BY DEF WaitInv, SignInFirst
  <2>3. \A k \in Loaders : loader'[k].pc = "idle"
    BY <1>1, <1>2, <2>1, LoaderTyped, LoadFacts DEF Loaders
  <2>4. AllFed'
    BY <2>3, Fresh
  <2>5. Served(main', loader', screen', app')
    BY <1>2, <2>1, <2>2, <2>3 DEF Served
  <2> QED
    BY <2>1, <2>2, <2>4, <2>5 DEF WaitInv, UserThere, SignInFirst
<1> QED
  BY <1>3, <1>4

LEMMA LogInAnswerWaits ==
  ASSUME Typed, WaitInv, AtHead("answer"), NEW l \in Loaders, Head(main).of = l,
         loader[l].at = LogIn, NEW ok \in BOOLEAN, NEW x \in Roles \cup {None},
         ok => x \in Roles, AnswerLogIn(l, ok, x), screen' = screen
  PROVE  WaitInv'
<1>1. /\ loader' = [loader EXCEPT ![l].pc = "check", ![l].loaded = ok]
      /\ stored' = IF ok THEN [pw |-> loader[l].pw, role |-> x] ELSE stored
      /\ UNCHANGED <<table, app>>
  BY DEF AnswerLogIn
<1>2. PICK r : r = Tail(main) /\ r = main'
  BY DEF AnswerLogIn
<1>3. stored # None => stored' # None
  <2>1. loader[l].pc = "answered"
    BY LoaderTyped, TailAt DEF Typed, Queued, Answered, IsAnswer, AtHead
  <2>2. ok => stored' \in Row
    BY <1>1, <2>1 DEF Row, Typed, Queued, Sent
  <2> QED
    BY <1>1, <2>2, NoneAssumption
<1>4. /\ \A k \in Loaders : Fed(k, loader[k], table', r, stored')
      /\ Loses(main, r, Head(main))
      /\ \A k \in Loaders : IsAnswer(Head(main), k) <=> k = l
      /\ \A s \in Screens : ~IsDone(Head(main), s)
      /\ ~IsFinal(Head(main)) /\ MainFree /\ loader[l].pc = "answered"
      /\ main \in Seq(MainTask) /\ r \in Seq(MainTask)
  BY <1>1, <1>2, <1>3, OthersFed
<1>5. /\ loader'[l].pc = "check" /\ loader'[l].at = loader[l].at
      /\ loader'[l].spoilt = loader[l].spoilt
      /\ \A k \in Loaders : k # l => loader'[k] = loader[k]
  BY <1>1, LoaderTyped DEF Load
<1>6. ~loader[l].spoilt => Full(table)
  <2>1. 1 \in DOMAIN main /\ IsAnswer(main[1], l) /\ \A i \in DOMAIN main : ~(i < 1)
    BY <1>4, TailAt DEF AtHead
  <2>2. ~loader[l].spoilt => AheadOf(l, table, main)
    BY <1>4 DEF WaitInv, AllFed, Fed
  <2> QED
    BY <2>1, <2>2 DEF AheadOf, Coming, Full
<1>7. ASSUME NEW k \in Loaders PROVE Fed(k, loader'[k], table', r, stored')
  <2>1. CASE k # l
    BY <1>4, <1>5, <2>1
  <2>2. CASE k = l
    <3>1. ~loader[l].spoilt => stored' # None
      BY <1>3, <1>4, LoadFacts DEF WaitInv, AllFed, Fed, SignInAt
    <3> QED
      BY <1>1, <1>5, <1>6, <2>2, <3>1 DEF Fed
  <2> QED
    BY <2>1, <2>2
<1>8. Served(r, loader', screen', app')
  <2>1. \A k \in Loaders : /\ loader'[k].pc = "answered" =>
                                loader[k].pc = "answered" /\ ~IsAnswer(Head(main), k)
                           /\ loader[k].pc # "idle" => loader'[k].pc # "idle"
                           /\ loader[k].spoilt => loader'[k].spoilt
    BY <1>4, <1>5
  <2>2. Served(main, loader, screen, app) /\ app' = app
    BY <1>1 DEF WaitInv
  <2> QED
    BY <1>4, <2>1, <2>2, ServedKept, LoadFacts
<1> QED
  BY <1>1, <1>2, <1>3, <1>4, <1>5, <1>7, <1>8 DEF WaitInv, AllFed, UserThere, SignInFirst

LEMMA TableAnswerWaits ==
  ASSUME Typed, WaitInv, AtHead("answer"), NEW l \in Loaders, Head(main).of = l,
         loader[l].at \in 1..Tables, NEW ok \in BOOLEAN, AnswerTable(l, ok), screen' = screen
  PROVE  WaitInv'
<1>1. /\ loader' = [loader EXCEPT ![l].pc = "look", ![l].at = @ + 1, ![l].spoilt = @ \/ ~ok]
      /\ UNCHANGED <<stored, table, app>>
  BY DEF AnswerTable, realm
<1>2. PICK q : q = Tail(main)
  OBVIOUS
<1>3. /\ \A k \in Loaders : Fed(k, loader[k], table, q, stored)
      /\ Loses(main, q, Head(main))
      /\ \A k \in Loaders : IsAnswer(Head(main), k) <=> k = l
      /\ \A s \in Screens : ~IsDone(Head(main), s)
      /\ ~IsFinal(Head(main)) /\ MainFree /\ loader[l].pc = "answered"
      /\ main \in Seq(MainTask) /\ q \in Seq(MainTask)
  BY <1>1, <1>2, OthersFed
<1>4. PICK ld : loader' = [loader EXCEPT ![l] = ld] /\ ld = loader'[l]
  BY <1>1, LoaderTyped
<1>5. ld = [pc |-> "look", at |-> loader[l].at + 1, pw |-> loader[l].pw,
            loaded |-> loader[l].loaded, spoilt |-> (loader[l].spoilt \/ ~ok)]
  BY <1>1, <1>4, LoaderTyped DEF Load
<1>6. /\ ld.pc = "look" /\ ld.at = loader[l].at + 1 /\ ld.at # SignInAt
      /\ loader[l].spoilt \/ ~ok => ld.spoilt
      /\ \A k \in Loaders : k # l => loader'[k] = loader[k]
  <2>1. ld.pc = "look" /\ ld.at = loader[l].at + 1 /\ (loader[l].spoilt \/ ~ok => ld.spoilt)
    BY <1>5
  <2> QED
    BY <1>4, <2>1, LoaderTyped DEF SignInAt
<1>7. PICK m \in MainTask : m = Fill(loader[l].at)
  BY MessageTypes
<1>8. IsFill(m, loader[l].at) /\ m.do = "add"
  BY <1>7 DEF Fill, IsFill
<1>9. main' = IF ok THEN Append(q, m) ELSE q
  BY <1>2, <1>7 DEF AnswerTable
<1>10. \A j \in DOMAIN q : j \in DOMAIN main' /\ main'[j] = q[j]
  BY <1>3, <1>9, AppendLoses
<1>11. ASSUME NEW k \in Loaders PROVE Fed(k, loader[k], table, main', stored)
  BY <1>3, <1>8, <1>9, FedAppend DEF IsAnswer
<1>12. ASSUME NEW k \in Loaders PROVE Fed(k, loader'[k], table', main', stored')
  <2>1. CASE k # l
    BY <1>1, <1>6, <1>11, <2>1
  <2>2. CASE k = l /\ ~ld.spoilt
    <3>1. ok /\ ~loader[l].spoilt
      BY <1>6, <2>2
    <3>2. OnTheWay(loader[l], table, main') /\ stored # None
      BY <1>3, <1>11, <3>1, SizesAssumption DEF Fed, SignInAt
    <3>3. \E i \in DOMAIN main' : IsFill(main'[i], loader[l].at)
      BY <1>3, <1>8, <1>9, <3>1, AppendLoses
    <3>4. \A t \in 1..Tables : t < ld.at => t < loader[l].at \/ t = loader[l].at
      BY <1>6
    <3>5. OnTheWay(ld, table, main')
      BY <3>2, <3>3, <3>4 DEF OnTheWay
    <3> QED
      BY <1>1, <1>4, <1>6, <2>2, <3>2, <3>5 DEF Fed
  <2>3. CASE k = l /\ ld.spoilt
    BY <1>4, <2>3 DEF Fed
  <2> QED
    BY <2>1, <2>2, <2>3
<1>13. Served(main', loader', screen', app')
  <2>1. Loses(main, main', Head(main))
    BY <1>3, <1>10 DEF Loses
  <2>2. \A k \in Loaders : /\ loader'[k].pc = "answered" =>
                                loader[k].pc = "answered" /\ ~IsAnswer(Head(main), k)
                           /\ loader[k].pc # "idle" => loader'[k].pc # "idle"
                           /\ loader[k].spoilt => loader'[k].spoilt
    BY <1>3, <1>4, <1>6
  <2>3. Served(main, loader, screen, app) /\ app' = app
    BY <1>1 DEF WaitInv
  <2> QED
    BY <1>3, <2>1, <2>2, <2>3, ServedKept, LoadFacts
<1>14. SignInFirst'
  BY <1>1, <1>4, <1>6 DEF SignInFirst, WaitInv
<1> QED
  BY <1>1, <1>3, <1>12, <1>13, <1>14 DEF WaitInv, AllFed, UserThere

LEMMA TakeAnswerWaits == ASSUME Typed, WaitInv, TakeAnswer PROVE WaitInv'
<1>1. AtHead("answer") /\ screen' = screen
  BY DEF TakeAnswer
<1>2. main \in Seq(MainTask) /\ main # <<>> /\ Head(main) \in MainTask
  BY <1>1, LoaderTyped, TailAt DEF AtHead
<1>3. PICK l \in Loaders, ok \in BOOLEAN, x \in Roles \cup {None} :
        l = Head(main).of /\ ok = Head(main).ok /\ x = Head(main).role
  BY <1>1, <1>2, MessageFacts DEF AtHead
<1>4. (ok => x \in Roles) /\ loader[l] \in Load
  BY <1>1, <1>2, <1>3, TailAt, LoaderTyped DEF Typed, Queued, Answered, IsAnswer, AtHead
<1>5. CASE loader[l].at = SignInAt
  <2>1. AnswerSignIn(l, ok, x)  BY <1>3, <1>5, LoadFacts DEF TakeAnswer, SignInAt
  <2> QED  BY <1>1, <1>3, <1>4, <1>5, <2>1, SignInAnswerWaits
<1>6. CASE loader[l].at = LogIn
  <2>1. AnswerLogIn(l, ok, x)  BY <1>3, <1>6, LoadFacts DEF TakeAnswer, SignInAt
  <2> QED  BY <1>1, <1>3, <1>4, <1>6, <2>1, LogInAnswerWaits
<1>7. CASE loader[l].at \notin {SignInAt, LogIn}
  <2>1. AnswerTable(l, ok)  BY <1>3, <1>7 DEF TakeAnswer
  <2>2. loader[l].at \in 1..Tables  BY <1>4, <1>7, LoadFacts, SizesAssumption DEF Load, SignInAt
  <2> QED  BY <1>1, <1>3, <2>1, <2>2, TableAnswerWaits
<1> QED
  BY <1>5, <1>6, <1>7

LEMMA RunMainWaits == ASSUME Typed, WaitInv, RunMain PROVE WaitInv'
BY TakeAnswerWaits, AddTableWaits, CompleteWaits, SetUpWaits, EmptyRealmWaits, StoreWaits
   DEF RunMain

-------------------------------------------------------------------------------
(* The user.                                                                *)

LEMMA RetryWaits == ASSUME Typed, WaitInv, NEW s \in Screens, Retry(s) PROVE WaitInv'
<1>1. UNCHANGED <<stored, table>> /\ screen[s] = "error" /\ MainFree
  BY DEF Retry, realm
<1>2. app = "tabs" /\ stored # None
  BY <1>1 DEF Typed, TypeOK, WaitInv, UserThere
<1>3. CASE ready
  <2>1. ShowScreen(s, main)
    BY <1>3 DEF Retry
  <2>2. /\ UNCHANGED <<app, loader, main>> /\ screen' = [screen EXCEPT ![s] = "shown"]
    BY <1>2, <2>1 DEF ShowScreen
  <2>3. \A k \in Screens : /\ screen'[k] = "loading" => screen[k] = "loading"
                           /\ screen'[k] = "none" => screen[k] = "none"
    BY <2>2 DEF Typed, TypeOK
  <2>4. Served(main', loader', screen', app')
    BY <2>2, <2>3 DEF Served, WaitInv
  <2> QED
    BY <1>1, <2>2, <2>4 DEF WaitInv, AllFed, UserThere, SignInFirst, MainFree
<1>4. CASE ~ready
  <2>1. /\ screen' = [screen EXCEPT ![s] = "loading"] /\ loader' = [loader EXCEPT ![s] = Looking]
        /\ UNCHANGED <<app, main>>
    BY <1>4 DEF Retry
  <2>2. /\ loader'[s].pc = "look" /\ loader'[s].at = 1
        /\ \A k \in Loaders : k # s => loader'[k] = loader[k]
    BY <2>1, LoaderTyped, LoadFacts
  <2>3. screen'[s] = "loading" /\ \A k \in Screens : k # s => screen'[k] = screen[k]
    BY <2>1 DEF Typed, TypeOK
  <2>4. Served(main', loader', screen', app')
    BY <2>1, <2>2, <2>3, LoadFacts DEF Served, WaitInv
  <2>5. ASSUME NEW k \in Loaders PROVE Fed(k, loader'[k], table', main', stored')
    <3>1. CASE k = s
      BY <1>1, <1>2, <2>2, <3>1, FedFresh
    <3>2. CASE k # s
      BY <1>1, <2>1, <2>2, <3>2 DEF WaitInv, AllFed
    <3> QED
      BY <3>1, <3>2
  <2> QED
    BY <1>1, <1>2, <2>1, <2>2, <2>4, <2>5 DEF WaitInv, AllFed, UserThere, SignInFirst, SignInAt
<1> QED
  BY <1>3, <1>4

LEMMA LaunchWaits == ASSUME Typed, WaitInv, Launch PROVE WaitInv'
<1>1. stored' = stored /\ app = "off"
  BY DEF Launch, realm
<1>2. /\ \A l \in Loaders : loader[l].pc = "idle"
      /\ \A s \in Screens : screen[s] = "none"
  BY <1>1 DEF Typed, TypeOK, Queued, Rested
<1>3. CASE stored = None
  <2>1. app' = "first" /\ UNCHANGED <<screen, loader, main>>
    BY <1>3 DEF Launch
  <2>2. AllFed'
    BY <1>2, <2>1, Fresh
  <2> QED
    BY <1>2, <2>1, <2>2 DEF WaitInv, Served, UserThere, SignInFirst
<1>4. ASSUME stored # None, app' = "tabs", loader' = [loader EXCEPT !["root"] = Looking],
             UNCHANGED <<screen, main>>
      PROVE  WaitInv'
  <2>1. loader'["root"].pc = "look" /\ \A s \in Screens : loader'[s].pc = "idle"
    BY <1>2, <1>4, LoaderTyped, LoadFacts
  <2>2. \A l \in Loaders : \/ loader'[l].pc = "idle" /\ loader'[l].at = loader[l].at
                           \/ loader'[l].pc = "look" /\ loader'[l].at = 1
    BY <1>2, <1>4, LoaderTyped, LoadFacts
  <2>3. AllFed'
    BY <1>1, <1>4, <2>2, Fresh
  <2>4. Served(main', loader', screen', app')
    BY <1>2, <1>4, <2>1, <2>2 DEF Served, Busy
  <2>5. SignInFirst'
    BY <1>1, <2>2 DEF SignInFirst, WaitInv, SignInAt
  <2> QED
    BY <1>1, <1>4, <2>3, <2>4, <2>5 DEF WaitInv, UserThere
<1>5. ASSUME NEW on \in SUBSET Screens, SetupTabs(FALSE, on, <<>>)
      PROVE  WaitInv'
  BY <1>1, <1>5, SetupWaits
<1> QED
  BY <1>3, <1>4, <1>5 DEF Launch

LEMMA SaveFormWaits == ASSUME Typed, WaitInv, SaveForm PROVE WaitInv'
<1>1. /\ UNCHANGED <<stored, table, app, screen, loader>> /\ form # None
  BY DEF SaveForm, realm
<1>2. form \in Row  BY <1>1 DEF Typed, TypeOK
<1>3. PICK m \in MainTask : main' = Append(main, m) /\ m.do \in {"save", "prefer"}
  <2>1. PICK t \in {Save(form), Prefer(form)} : main' = Append(main, t)  BY DEF SaveForm
  <2>2. t = Save(form) \/ t = Prefer(form)  OBVIOUS
  <2>3. t \in MainTask  BY <1>2, <2>2, MessageTypes
  <2>4. t.do \in {"save", "prefer"}  BY <2>2 DEF Save, Prefer
  <2> QED  BY <2>1, <2>3, <2>4
<1>4. main \in Seq(MainTask) /\ \A j \in DOMAIN main : j \in DOMAIN main' /\ main'[j] = main[j]
  BY <1>3, AppendLoses, LoaderTyped
<1>5. Served(main', loader', screen', app')
  BY <1>1, <1>4, ServedStay DEF WaitInv
<1>6. ASSUME NEW k \in Loaders PROVE Fed(k, loader[k], table, main', stored)
  <2>1. Fed(k, loader[k], table, main, stored) /\ ~IsAnswer(m, k)
    BY <1>3 DEF WaitInv, AllFed, IsAnswer
  <2> QED
    BY <1>3, <1>4, <2>1, FedAppend
<1>7. MainFree' => MainFree
  BY <1>3, <1>4, FreeAppend
<1> QED
  BY <1>1, <1>5, <1>6, <1>7 DEF WaitInv, AllFed, UserThere, SignInFirst

LEMMA WaitInit == Init => WaitInv
<1> SUFFICES ASSUME Init PROVE WaitInv
  OBVIOUS
<1>1. /\ app = "off" /\ screen = [s \in Screens |-> "none"]
      /\ loader = [l \in Loaders |-> Quiet]
  BY DEF Init, TypeInit
<1>2. \A l \in Loaders : loader[l].pc = "idle" /\ loader[l].at # SignInAt
  BY <1>1, LoadFacts DEF SignInAt
<1>3. AllFed
  BY <1>2, FedFresh DEF AllFed
<1> QED
  BY <1>1, <1>2, <1>3 DEF WaitInv, Served, UserThere, SignInFirst

LEMMA WaitNext == Typed /\ WaitInv /\ [Next]_vars => WaitInv'
<1> SUFFICES ASSUME Typed, WaitInv, [Next]_vars PROVE WaitInv'
  OBVIOUS
<1>1. CASE \/ \E r \in Roles : BeginChange(r)
           \/ \E commit \in BOOLEAN : EndChange(commit)
           \/ NewPassword \/ OpenForm \/ DropForm \/ UNCHANGED vars
  BY <1>1, ServerWaits
<1>2. CASE \E p \in Passwords : SignIn(p)
  BY <1>2, SignInWaits
<1>3. CASE \E l \in Loaders : Answer(l) \/ Thread(l)
  BY <1>3, AnswerWaits, LookUpWaits, CheckWaits DEF Thread
<1>4. CASE RunMain
  BY <1>4, RunMainWaits
<1>5. CASE \E n \in Noti : Deliver(n) \/ Store(n) \/ Mark(n) \/ TapNote(n)
  BY <1>5, NoteWaits
<1>6. CASE \E s \in Screens : Retry(s)
  BY <1>6, RetryWaits
<1>7. CASE Launch \/ SignOut \/ SaveForm
  BY <1>7, LaunchWaits, SignOutWaits, SaveFormWaits
<1>8. CASE Kill
  BY <1>8, StopWaits DEF Kill
<1> QED
  BY <1>1, <1>2, <1>3, <1>4, <1>5, <1>6, <1>7, <1>8 DEF Next

\* Whoever waits, waits for something that is still to come: a load for a completion
\* that is in the main queue, a screen under its progress view for its load or for the
\* completion of it, and tabs without screens for the tab bar's own load.  The only
\* screen that may wait for ever is one whose load met a table that could not be read,
\* or lost its tables to an emptied Realm file.  That its load does not end without a
\* word needs that the rows of every table it has passed are in the file before the
\* answer to its login is taken up: they come first in the main queue.
THEOREM NoDeadWaitHolds == Spec => []NoDeadWait
<1> DEFINE Whole == Typed /\ WaitInv
<1>1. Init => Whole
  BY TypedInit, WaitInit
<1>2. Whole /\ [Next]_vars => Whole'
  BY TypedNext, WaitNext
<1>3. Whole => NoDeadWait
  BY DEF WaitInv, Served, NoDeadWait, Busy, IsAnswer, IsDone, IsFinal
<1> QED
  BY <1>1, <1>2, <1>3, PTL DEF Spec
===============================================================================
