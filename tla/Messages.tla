------------------------------ MODULE Messages ------------------------------
(***************************************************************************)
(* The messages of one group chat: sending, editing and deleting them,     *)
(* what is published to the members that are online, what a client asks    *)
(* for when it connects again, and the pages of the history. Every query   *)
(* and every publication is a step.                                        *)
(*                                                                         *)
(* A message is timed by the start of the transaction that inserts it      *)
(* (created_at DEFAULT NOW()), and seen once that has committed: messages  *)
(* need not appear in the order of their times.                            *)
(***************************************************************************)
EXTENDS Naturals, FiniteSetsExt

CONSTANTS
  Users,
  Movers,      \* the users that may leave the group or join it
  Readers,     \* the users that read the history
  MessageIds,  \* numbers: the order of the UUIDs, no order of creation
  Tasks,       \* handlers that can run at once
  NoUser,
  NoMessage,
  PageMax,     \* the largest page of the history (50)
  SyncMax,     \* the most messages a sync returns (100)
  MaxTime,     \* bound: the clock
  MaxRequests, \* bound: the requests of a behaviour
  MaxMoves,    \* bound: how often members come and go, by chat or socket
  MaxFaults    \* bound: how many queries fail

ASSUME MoversAndReadersAreUsers == Movers \cup Readers \subseteq Users
ASSUME IdsAreNumbers == MessageIds \subseteq 1..MaxTime
ASSUME NoMessageIsNoMessage == NoMessage \notin MessageIds
ASSUME NoUserIsNoUser == NoUser \notin Users
ASSUME PagesAreNotEmpty == PageMax \in Nat \ {0} /\ SyncMax \in Nat \ {0}
ASSUME BoundsAreNaturals ==
  {MaxTime, MaxRequests, MaxMoves, MaxFaults} \subseteq Nat

VARIABLES
  row,      \* the table messages, with what a transaction has not committed
  member,   \* chat_participants with left_at NULL
  clock,
  online,   \* the users with a socket, subscribed to user:{id}:events
  pushed,   \* what each user's client has got over a socket
  since,    \* the latest time among those: what the client asks from
  walk,     \* each client's walk through the history
  task,
  ever,     \* history: who was a member when a message appeared, or since
  requests, moves, faults

data == <<row, member, clock, ever>>
client == <<online, pushed, since, walk>>
bounds == <<requests, moves, faults>>
vars == <<data, client, task, bounds>>

NoRow == [state |-> "none", sender |-> NoUser, at |-> 0, content |-> "none"]

Row == [state : {"none", "open", "live", "deleted"},
        sender : Users \cup {NoUser},
        at : 0..MaxTime,
        content : {"none", "first", "edited"}]

(* Rows that queries can find: committed and with deleted_at NULL. *)
Live == {m \in MessageIds : row[m].state = "live"}

(* ORDER BY created_at, id. *)
Before(m, n) ==
  \/ row[m].at < row[n].at
  \/ row[m].at = row[n].at /\ m < n

Handler(at, op, u, m, time) ==
  [at |-> at, op |-> op, actor |-> u, msg |-> m, time |-> time, rest |-> {},
   due |-> {}]

IdleTask == Handler("idle", "none", NoUser, NoMessage, 0)

Task == [at : {"idle", "begin", "check", "insert", "commit", "members",
               "notify", "verify", "find", "verifyAgain", "write", "query"},
         op : {"none", "send", "edit", "delete", "list", "sync"},
         actor : Users \cup {NoUser},
         msg : MessageIds \cup {NoMessage},
         time : 0..MaxTime,
         rest : SUBSET Users,  \* to whom the message is still to be published
         due : SUBSET Users]   \* history: who stayed to hear it

NoWalk == [dir |-> "none", limit |-> 1, cursor |-> NoMessage,
           must |-> {}, got |-> {}, done |-> TRUE]

Walk == [dir : {"none", "before", "after"}, limit : 1..PageMax,
         cursor : MessageIds \cup {NoMessage},
         must : SUBSET MessageIds,  \* what the history was at the start
         got : SUBSET MessageIds, done : BOOLEAN]

(* A chat with a history of one sender, and every client up to date. *)
Init ==
  /\ member \in SUBSET Users \ {{}}
  /\ \E old \in SUBSET MessageIds, sender \in Users :
       /\ row = [m \in MessageIds |->
                   IF m \in old
                     THEN [state |-> "live", sender |-> sender, at |-> m,
                           content |-> "first"]
                     ELSE NoRow]
       /\ clock = Max(old \cup {0})
       /\ ever = [m \in MessageIds |-> IF m \in old THEN member ELSE {}]
       /\ pushed = [u \in Users |-> IF u \in member THEN old ELSE {}]
       /\ since = [u \in Users |->
                     IF u \in member THEN Max(old \cup {0}) ELSE 0]
  /\ online = Users
  /\ walk = [u \in Users |-> NoWalk]
  /\ task = [t \in Tasks |-> IdleTask]
  /\ requests = 0 /\ moves = 0 /\ faults = 0

-----------------------------------------------------------------------------
Return(t) == task' = [task EXCEPT ![t] = IdleTask]
Goto(t, step) == task' = [task EXCEPT ![t].at = step]

Spawn(t, handler) ==
  /\ task[t].at = "idle"
  /\ task' = [task EXCEPT ![t] = handler]

(* Requests about messages, from anyone, with any id. *)
Request(t, u) ==
  /\ requests < MaxRequests
  /\ requests' = requests + 1
  /\ \/ Spawn(t, Handler("begin", "send", u, NoMessage, 0))
     \/ \E op \in {"edit", "delete"}, m \in MessageIds :
          Spawn(t, Handler("verify", op, u, m, 0))
  /\ UNCHANGED <<data, client, moves, faults>>

(* A client sets out to read the history, backwards from the end, as the   *)
(* default is, or forwards from the beginning ...                          *)
StartWalk(u) ==
  /\ u \in Readers
  /\ requests < MaxRequests
  /\ requests' = requests + 1
  /\ \E dir \in {"before", "after"}, limit \in 1..PageMax :
       walk' = [walk EXCEPT ![u] =
                  [dir |-> dir, limit |-> limit, cursor |-> NoMessage,
                   must |-> Live, got |-> {}, done |-> FALSE]]
  /\ UNCHANGED <<data, online, pushed, since, task, moves, faults>>

(* ... and asks for one page after another. *)
NextPage(t, u) ==
  /\ ~walk[u].done
  /\ \A s \in Tasks : ~(task[s].op = "list" /\ task[s].actor = u)
  /\ Spawn(t, Handler("verify", "list", u, NoMessage, 0))
  /\ UNCHANGED <<data, client, bounds>>

-----------------------------------------------------------------------------
(***************************************************************************)
(* send_message: one transaction, then the publications. Nothing of the    *)
(* transaction is seen before it commits.                                  *)
(***************************************************************************)
Overlapping == \E s \in Tasks : task[s].at \in {"check", "insert", "commit"}

(* Transactions that overlap may have one time. *)
Begin(t) ==
  /\ task[t].at = "begin"
  /\ \E now \in {clock + 1} \cup (IF Overlapping THEN {clock} ELSE {}) :
       /\ now <= MaxTime
       /\ clock' = now
       /\ task' = [task EXCEPT ![t].at = "check", ![t].time = now]
  /\ UNCHANGED <<row, member, ever, client, bounds>>

ensure_active_membership(t) ==
  /\ task[t].at = "check"
  /\ IF task[t].actor \in member THEN Goto(t, "insert") ELSE Return(t)
  /\ UNCHANGED <<data, client, bounds>>

Insert(t) ==
  /\ task[t].at = "insert"
  /\ \E m \in {n \in MessageIds : row[n] = NoRow} :
       /\ row' = [row EXCEPT ![m] =
                    [state |-> "open", sender |-> task[t].actor,
                     at |-> task[t].time, content |-> "first"]]
       /\ task' = [task EXCEPT ![t].at = "commit", ![t].msg = m]
  /\ UNCHANGED <<member, clock, ever, client, bounds>>

Commit(t) ==
  /\ task[t].at = "commit"
  /\ row' = [row EXCEPT ![task[t].msg].state = "live"]
  /\ ever' = [ever EXCEPT ![task[t].msg] = member]
  /\ task' = [task EXCEPT ![t].at = "members",
                          ![t].due = (member \cap online) \ {task[t].actor}]
  /\ UNCHANGED <<member, clock, client, bounds>>

(* This definition, and below GetAllParticipants, EditRevives and          *)
(* ListQueryKeepsCursor, are mutants: a definition after it with a         *)
(* plausible mistake, for checking that the properties notice. No other    *)
(* definition uses one.                                                    *)
NotifyIfSeveral(t, others) ==
  /\ task[t].at = "members"
  /\ IF Cardinality(others) <= 1
       THEN Return(t)
       ELSE task' = [task EXCEPT ![t].at = "notify", ![t].rest = others]
  /\ UNCHANGED <<data, client, bounds>>

Notify(t, others) ==
  /\ task[t].at = "members"
  /\ IF others = {}
       THEN Return(t)
       ELSE task' = [task EXCEPT ![t].at = "notify", ![t].rest = others]
  /\ UNCHANGED <<data, client, bounds>>

GetAllParticipants(t) == Notify(t, Users \ {task[t].actor})

get_chat_participants(t) == Notify(t, member \ {task[t].actor})

(* A client takes what it is sent and remembers the latest time of it. *)
Receive(u, messages) ==
  /\ pushed' = [pushed EXCEPT ![u] = @ \cup messages]
  /\ since' = [since EXCEPT ![u] = Max({@} \cup {row[m].at : m \in messages})]

(* To one participant after another; whoever has no socket misses it. *)
Publish(t) ==
  /\ task[t].at = "notify"
  /\ \E u \in task[t].rest :
       /\ IF task[t].rest = {u}
            THEN Return(t)
            ELSE task' = [task EXCEPT ![t].rest = @ \ {u}]
       /\ IF u \in online THEN Receive(u, {task[t].msg})
                          ELSE UNCHANGED <<pushed, since>>
  /\ UNCHANGED <<data, online, walk, bounds>>

-----------------------------------------------------------------------------
(***************************************************************************)
(* Editing and deleting. The handlers ask whether the user is in the chat; *)
(* edit_message then finds the message, asks again, and writes by the id   *)
(* alone. delete_message is one guarded UPDATE.                            *)
(***************************************************************************)
verify_participant(t) ==
  /\ task[t].at \in {"verify", "verifyAgain"}
  /\ IF task[t].actor \in member
       THEN Goto(t, CASE task[t].op = "list" -> "query"
                      [] task[t].op = "delete" -> "write"
                      [] task[t].op = "edit" /\ task[t].at = "verify" -> "find"
                      [] task[t].at = "verifyAgain" -> "write")
       ELSE Return(t)
  /\ UNCHANGED <<data, client, bounds>>

FindMessage(t) ==
  /\ task[t].at = "find"
  /\ IF task[t].msg \in Live /\ row[task[t].msg].sender = task[t].actor
       THEN Goto(t, "verifyAgain")
       ELSE Return(t)
  /\ UNCHANGED <<data, client, bounds>>

EditRevives(t) ==
  /\ task[t].at = "write"
  /\ task[t].op = "edit"
  /\ row' = [row EXCEPT ![task[t].msg].content = "edited",
                        ![task[t].msg].state = "live"]
  /\ Return(t)
  /\ UNCHANGED <<member, clock, ever, client, bounds>>

(* Also a row that was deleted in the meantime gets the new content. *)
edit_message(t) ==
  /\ task[t].at = "write"
  /\ task[t].op = "edit"
  /\ row' = [row EXCEPT ![task[t].msg].content = "edited"]
  /\ Return(t)
  /\ UNCHANGED <<member, clock, ever, client, bounds>>

delete_message(t) ==
  LET m == task[t].msg IN
  /\ task[t].at = "write"
  /\ task[t].op = "delete"
  /\ row' = IF m \in Live /\ row[m].sender = task[t].actor
              THEN [row EXCEPT ![m].state = "deleted", ![m].content = "none"]
              ELSE row
  /\ Return(t)
  /\ UNCHANGED <<member, clock, ever, client, bounds>>

-----------------------------------------------------------------------------
(***************************************************************************)
(* list_messages. One more than the page is fetched, to see whether there  *)
(* are more, but never more than PageMax; the rows are brought into the    *)
(* order of time and cut at the page's size, and the last one left is the  *)
(* next cursor: in either direction.                                       *)
(***************************************************************************)
Earliest(S, n) ==
  {m \in S : Cardinality({k \in S : Before(k, m)}) < n}
Latest(S, n) ==
  {m \in S : Cardinality({k \in S : Before(m, k)}) < n}

Fetched(dir, cursor, n) ==
  IF dir = "before"
    THEN Latest({m \in Live : cursor # NoMessage => Before(m, cursor)}, n)
    ELSE Earliest({m \in Live : cursor # NoMessage => Before(cursor, m)}, n)

Last(S) == CHOOSE m \in S : \A k \in S : k = m \/ Before(k, m)

ListQueryKeepsCursor(t) ==
  LET u == task[t].actor
      w == walk[u]
      rows == Fetched(w.dir, w.cursor, Min({w.limit + 1, PageMax}))
      page == Earliest(rows, w.limit)
  IN
  /\ task[t].at = "query" /\ task[t].op = "list"
  /\ walk' = [walk EXCEPT
       ![u].got = @ \cup page,
       ![u].done = rows = page,
       ![u].cursor = IF rows = {} THEN NoMessage ELSE Last(rows)]
  /\ Return(t)
  /\ UNCHANGED <<data, online, pushed, since, bounds>>

ListQuery(t) ==
  LET u == task[t].actor
      w == walk[u]
      rows == Fetched(w.dir, w.cursor, Min({w.limit + 1, PageMax}))
      page == Earliest(rows, w.limit)
  IN
  /\ task[t].at = "query" /\ task[t].op = "list"
  /\ walk' = [walk EXCEPT
       ![u].got = @ \cup page,
       ![u].done = rows = page,
       ![u].cursor = IF page = {} THEN NoMessage ELSE Last(page)]
  /\ Return(t)
  /\ UNCHANGED <<data, online, pushed, since, bounds>>

(* list_messages_since, by the time alone; of rows of one time that do not *)
(* all fit, any may be left out. A user who is not a member gets nothing.  *)
SyncQuery(t) ==
  LET u == task[t].actor
      later == {m \in Live : row[m].at > task[t].time /\ u \in member}
  IN
  /\ task[t].at = "query" /\ task[t].op = "sync"
  /\ \E page \in SUBSET later :
       /\ Cardinality(page) = Min({SyncMax, Cardinality(later)})
       /\ \A m \in page, k \in later \ page : row[m].at <= row[k].at
       /\ Receive(u, page)
  /\ Return(t)
  /\ UNCHANGED <<data, online, walk, bounds>>

-----------------------------------------------------------------------------
(* A client that connects asks for what it missed, as it sees it then. *)
Connect(t, u) ==
  /\ moves < MaxMoves
  /\ moves' = moves + 1
  /\ u \notin online
  /\ online' = online \cup {u}
  /\ Spawn(t, Handler("query", "sync", u, NoMessage, since[u]))
  /\ UNCHANGED <<data, pushed, since, walk, requests, faults>>

(* What a sync finds for a closed socket goes nowhere. *)
Disconnect(u) ==
  /\ moves < MaxMoves
  /\ moves' = moves + 1
  /\ u \in online
  /\ online' = online \ {u}
  /\ task' = [t \in Tasks |->
                IF task[t].op = "sync" /\ task[t].actor = u
                  THEN IdleTask
                  ELSE [task[t] EXCEPT !.due = @ \ {u}]]
  /\ UNCHANGED <<data, pushed, since, walk, requests, faults>>

(* add_participant and remove_participant, the subject of Groups. *)
Join(u) ==
  /\ moves < MaxMoves
  /\ moves' = moves + 1
  /\ u \in Movers \ member
  /\ member' = member \cup {u}
  /\ ever' = [m \in MessageIds |->
                IF row[m].state \in {"live", "deleted"}
                  THEN ever[m] \cup {u} ELSE ever[m]]
  /\ UNCHANGED <<row, clock, client, task, requests, faults>>

Leave(u) ==
  /\ moves < MaxMoves
  /\ moves' = moves + 1
  /\ u \in Movers \cap member
  /\ member' = member \ {u}
  /\ task' = [t \in Tasks |-> [task[t] EXCEPT !.due = @ \ {u}]]
  /\ UNCHANGED <<row, clock, ever, client, requests, faults>>

(* A query or a publication fails, or the process stops: the request ends  *)
(* where it is, and a transaction leaves nothing behind.                   *)
QueryFails(t) ==
  /\ faults < MaxFaults
  /\ faults' = faults + 1
  /\ task[t].at # "idle"
  /\ row' = IF task[t].at = "commit"
              THEN [row EXCEPT ![task[t].msg] = NoRow] ELSE row
  /\ Return(t)
  /\ UNCHANGED <<member, clock, ever, client, requests, moves>>

-----------------------------------------------------------------------------
TaskStep(t) ==
  \/ Begin(t) \/ ensure_active_membership(t) \/ Insert(t) \/ Commit(t)
  \/ get_chat_participants(t) \/ Publish(t)
  \/ verify_participant(t) \/ FindMessage(t) \/ edit_message(t)
  \/ delete_message(t) \/ ListQuery(t) \/ SyncQuery(t)

Next ==
  \/ \E t \in Tasks :
       \/ \E u \in Users : Request(t, u) \/ NextPage(t, u) \/ Connect(t, u)
       \/ TaskStep(t)
       \/ QueryFails(t)
  \/ \E u \in Users : StartWalk(u) \/ Disconnect(u) \/ Join(u) \/ Leave(u)

Spec == Init /\ [][Next]_vars

-----------------------------------------------------------------------------
(* Every variable keeps its type, and a row that is not yet committed      *)
(* belongs to the one transaction that is about to commit it.              *)
TypeOK ==
  /\ row \in [MessageIds -> Row]
  /\ member \subseteq Users
  /\ clock \in 0..MaxTime
  /\ online \subseteq Users
  /\ pushed \in [Users -> SUBSET MessageIds]
  /\ since \in [Users -> 0..MaxTime]
  /\ walk \in [Users -> Walk]
  /\ task \in [Tasks -> Task]
  /\ ever \in [MessageIds -> SUBSET Users]
  /\ requests \in 0..MaxRequests
  /\ moves \in 0..MaxMoves
  /\ faults \in 0..MaxFaults
  /\ \A m \in MessageIds : row[m].state = "open" =>
       Cardinality({t \in Tasks : task[t].at = "commit" /\ task[t].msg = m})
         = 1

(* However sends overlap with members leaving, a socket brings no message  *)
(* to a user who has not been a member at any time since it was sent.      *)
PushedOnlyToMembers ==
  \A u \in Users : \A m \in pushed[u] : u \in ever[m]

Complete(w) == w.done => \A m \in w.must \cap Live : m \in w.got

(* A client that reads the history forwards, by less than the largest page *)
(* at a time, has at the end all that was there when it began and still    *)
(* is, whatever was sent and deleted meanwhile.                            *)
ForwardWalkIsComplete ==
  \A u \in Users :
    walk[u].dir = "after" /\ walk[u].limit < PageMax => Complete(walk[u])

(* Although edit_message writes by the id alone, only a request of the     *)
(* sender changes a message, and never its sender or its time.             *)
OnlyTheSenderChanges ==
  [][\A m \in MessageIds :
       row[m].state \in {"live", "deleted"} /\ row'[m] # row[m] =>
         /\ row'[m].sender = row[m].sender
         /\ row'[m].at = row[m].at
         /\ \E t \in Tasks : /\ task[t].msg = m
                             /\ task[t].op \in {"edit", "delete"}
                             /\ task[t].actor = row[m].sender]_vars

(* An edit that overtakes a deletion does not bring the message back into  *)
(* the history.                                                            *)
DeletedIsFinal ==
  [][\A m \in MessageIds :
       row[m].state = "deleted" => row'[m].state = "deleted"]_vars

(* Unless a query or a publication fails, a send returns only when every   *)
(* other member that was online as it committed, and stayed in the group   *)
(* and online, has received the message.                                   *)
AcceptedIsHeard ==
  [][\A t \in Tasks :
       /\ task[t].at \in {"members", "notify"}
       /\ task'[t].at = "idle"
       /\ faults' = faults
       => \A u \in task[t].due : task[t].msg \in pushed'[u]]_vars

-----------------------------------------------------------------------------
(* "paginas consistentes sin saltos ni duplicados aunque lleguen mensajes  *)
(* nuevos" (backend_roadmap.md:1248), for the default direction.           *)
BackwardWalkIsComplete ==
  \A u \in Users :
    walk[u].dir = "before" /\ walk[u].limit < PageMax => Complete(walk[u])

(* "todos los mensajes [...] llegados despues de since que aun no tiene el *)
(* cliente" (backend_roadmap.md:1460): after a sync that is not cut off,   *)
(* the client has all messages but its own and those still on their way.   *)
SyncIsComplete ==
  [][\A t \in Tasks :
       /\ SyncQuery(t)
       /\ task[t].actor \in member
       /\ Cardinality({m \in Live : row[m].at > task[t].time}) <= SyncMax
       => \A m \in Live :
            \/ m \in pushed'[task[t].actor]
            \/ row[m].sender = task[t].actor
            \/ \E s \in Tasks : task[s].msg = m]_vars
=============================================================================
