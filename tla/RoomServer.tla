----------------------------- MODULE RoomServer -----------------------------
(***************************************************************************)
(* The backend serving the requests of RoomDb: Tomcat runs up to Threads    *)
(* handlers at a time, each reads its snapshot when it begins and commits   *)
(* its writes later, and the clients' connections wait for the answers.     *)
(* Who sends which request is the business of the module that extends this  *)
(* one (OwnerApp).                                                          *)
(***************************************************************************)
EXTENDS RoomDb

CONSTANTS
  InitRole,  \* tb_user at the start: the users and their roles
  Slot,      \* HTTP exchanges that may exist at a time
  Client,    \* connections' client ends that wait for answers
  Threads,   \* handlers that may run at a time
  OfficeOps  \* which of APPROVED, DECLINED, profile, deleteUser an instance sends

ASSUME RoleAssumption == InitRole \in [User -> {"ADMIN", "OWNER", "MEMBER"}]

VARIABLES
  db,     \* the committed database
  spent,  \* keys AUTO_INCREMENT has handed out: it never hands one out again
  call,   \* the exchange in each slot in use
  wait,   \* the slot whose answer a client awaits
  note,   \* room decisions under notifications/users/<owner> whose status is NEW
  vetted  \* rooms an administrator has approved, ever (history)

serverVars == <<db, spent, call, wait, note, vetted>>

Note == [to : User, room : RoomId, status : Decision]

(* An exchange is sent, then running on its snapshot, then, for a room      *)
(* decision, pushing the notification, then answered.                       *)
IsCall(x) ==
  /\ IsRequest(x.req)
  /\ CASE x.phase = "sent" -> x = [phase |-> "sent", req |-> x.req]
       [] x.phase = "running" ->
            x = [phase |-> "running", req |-> x.req, snap |-> x.snap] /\ IsDb(x.snap)
       [] x.phase = "pushing" ->
            /\ x = [phase |-> "pushing", req |-> x.req, to |-> x.to]
            /\ x.req.op = "decide" /\ x.to \in User
       [] x.phase = "answered" ->
            x = [phase |-> "answered", req |-> x.req, ok |-> x.ok] /\ x.ok \in BOOLEAN
       [] OTHER -> FALSE

ServerTypeOK ==
  /\ IsDb(db)
  /\ spent \in [room : SUBSET RoomId, row : SUBSET RowId]
  /\ call = [c \in DOMAIN call |-> call[c]] /\ DOMAIN call \subseteq Slot
  /\ \A c \in DOMAIN call : IsCall(call[c])
  /\ Partial(wait, Client, Slot)
  /\ note \subseteq Note
  /\ vetted \subseteq RoomId

ServerInit ==
  /\ db = [role |-> InitRole, room |-> Nothing, row |-> Nothing]
  /\ spent = [room |-> {}, row |-> {}]
  /\ call = Nothing
  /\ wait = Nothing
  /\ note = {}
  /\ vetted = {}

-----------------------------------------------------------------------------
Phase(ph) == {c \in DOMAIN call : call[c].phase = ph}
Awaited(c) == \E k \in DOMAIN wait : wait[k] = c

(* f with x |-> y, and f without the arguments in S.                        *)
With(f, x, y)  == [z \in DOMAIN f \cup {x} |-> IF z = x THEN y ELSE f[z]]
Without(f, S)  == [z \in DOMAIN f \ S |-> f[z]]

Send(c, q) ==
  /\ c \notin DOMAIN call
  /\ call' = With(call, c, [phase |-> "sent", req |-> q])

(* Nobody reads the answer of an exchange that no client awaits.            *)
Settle(c, ok) ==
  call' = IF Awaited(c)
          THEN With(call, c, [phase |-> "answered", req |-> call[c].req, ok |-> ok])
          ELSE Without(call, {c})

-----------------------------------------------------------------------------
Begin(c) ==
  /\ c \in Phase("sent")
  /\ Cardinality(Phase("running")) < Threads
  /\ call' = With(call, c, [phase |-> "running", req |-> call[c].req, snap |-> db])
  /\ UNCHANGED <<db, spent, wait, note, vetted>>

(* Early return, or an exception in the handler.                            *)
Refuse(c) ==
  /\ c \in Phase("running")
  /\ ~Accepts(call[c].snap, call[c].req)
  /\ Settle(c, FALSE)
  /\ UNCHANGED <<db, spent, wait, note, vetted>>

Fresh(S, n, used) == {key \in [S -> n \ used] : \A x, y \in S : key[x] = key[y] => x = y}

Commit(c) ==
  /\ c \in Phase("running")
  /\ LET q == call[c].req
         d == call[c].snap
         w == WritesOf(d, q)
     IN /\ Accepts(d, q)
        /\ RowsStillThere(db, w)
        /\ \E roomKey \in Fresh(w.newRoom, RoomId, spent.room),
              rowKey \in Fresh(w.newRow, RowId, spent.row) :
             /\ ForeignKeys(Apply(db, w, roomKey, rowKey))
             /\ db' = Apply(db, w, roomKey, rowKey)
             /\ spent' = [room |-> spent.room \cup {roomKey[x] : x \in w.newRoom},
                          row  |-> spent.row \cup {rowKey[x] : x \in w.newRow}]
        /\ IF q.op = "decide"
           THEN /\ call' = With(call, c, [phase |-> "pushing", req |-> q,
                                          to |-> d.room[q.room].owner])
                /\ vetted' = vetted \cup {r \in {q.room} : q.status = "APPROVED"}
           ELSE Settle(c, TRUE) /\ UNCHANGED vetted
  /\ UNCHANGED <<wait, note>>

(* A request that never arrives, a handler that InnoDB or Hibernate rolls   *)
(* back (deadlock, a row gone, a foreign key of these tables or of another),*)
(* or a server that dies before the commit.                                 *)
Rollback(c) ==
  /\ c \in Phase("sent") \cup Phase("running")
  /\ Settle(c, FALSE)
  /\ UNCHANGED <<db, spent, wait, note, vetted>>

(* approveRoom and declineRoom push after the save has committed.           *)
Decided(c) == [to |-> call[c].to, room |-> call[c].req.room, status |-> call[c].req.status]

Push(c) ==
  /\ c \in Phase("pushing")
  /\ note' = note \cup {Decided(c)}
  /\ Settle(c, TRUE)
  /\ UNCHANGED <<db, spent, wait, vetted>>

(* The server dies in between, or Firebase drops the asynchronous write.    *)
LosePush(c) ==
  /\ c \in Phase("pushing")
  /\ Settle(c, FALSE)
  /\ UNCHANGED <<db, spent, wait, note, vetted>>

(* The administrator's pages list any room and any user; the profile        *)
(* endpoints serve any user.  A decision comes from a page that listed the  *)
(* room while it was PENDING, perhaps long ago.                             *)
OfficeRequest ==
       [op : {"decide"}, room : spent.room, status : OfficeOps \cap Decision]
  \cup [op : OfficeOps \cap {"profile", "deleteUser"}, user : DOMAIN db.role]

Office(c) ==
  /\ \E q \in OfficeRequest : Send(c, q)
  /\ UNCHANGED <<db, spent, wait, note, vetted>>
=============================================================================
