--------------------------- MODULE Messages_proofs ---------------------------
(***************************************************************************)
(* Theorems about Messages, for any users, messages, requests at once,     *)
(* page sizes, moves and failures. IInv is what the steps of the requests  *)
(* rest on, and WalkFits what the pages of the history rest on: that a     *)
(* page one row short of what was fetched leaves nothing before its end.   *)
(***************************************************************************)
EXTENDS Messages, WellFoundedInduction, FiniteSetTheorems, TLAPS

-----------------------------------------------------------------------------
(* Bounded sets of numbers have a maximum, and rows have a last one. *)

LEMMA MaxIsMax ==
  ASSUME NEW n \in Nat, NEW S \in SUBSET (0..n), S # {}
  PROVE  Max(S) \in S /\ \A x \in S : Max(S) >= x
<1> DEFINE below == {m \in Nat : \E x \in S : m = n - x}
           less == {ss \in Nat \X Nat : ss[1] < ss[2]}
<1>1. below \subseteq Nat /\ below # {}
  <2>1. PICK x \in S : TRUE
    OBVIOUS
  <2>2. n - x \in Nat
    OBVIOUS
  <2> QED
    BY <2>2
<1>2. PICK y \in below : \A z \in below : y <= z
  <2>1. IsWellFoundedOn(less, Nat)
    BY NatLessThanWellFounded DEF OpToRel
  <2> HIDE DEF below, less
  <2>2. PICK y \in below : \A z \in below : <<z, y>> \notin less
    BY <1>1, <2>1, WFMin
  <2>3. \A z \in below : y \in Nat /\ z \in Nat /\ ~(z < y)
    BY <1>1, <2>2 DEF less
  <2> QED
    BY <2>3
<1>3. PICK x \in S : y = n - x
  OBVIOUS
<1>4. \A z \in S : x >= z
  <2> SUFFICES ASSUME NEW z \in S PROVE x >= z
    OBVIOUS
  <2>1. n - z \in below
    OBVIOUS
  <2>2. n - x <= n - z
    BY <1>2, <1>3, <2>1
  <2> QED
    BY <2>2
<1> HIDE DEF below, less
<1> QED
  BY <1>4 DEF Max

LEMMA LastIsLast ==
  ASSUME row \in [MessageIds -> Row], NEW S \in SUBSET MessageIds, S # {}
  PROVE  Last(S) \in S /\ \A k \in S : k = Last(S) \/ Before(k, Last(S))
<1> DEFINE times == {row[m].at : m \in S}
<1>1. /\ MaxTime \in Nat /\ MessageIds \subseteq 1..MaxTime
      /\ \A m \in S : row[m].at \in 0..MaxTime
  BY BoundsAreNaturals, IdsAreNumbers DEF Row
<1>2. times \in SUBSET (0..MaxTime) /\ times # {}
  BY <1>1
<1>3. PICK time \in times : \A x \in times : time >= x
  BY <1>1, <1>2, MaxIsMax
<1> DEFINE latest == {m \in S : row[m].at = time}
<1>4. latest \in SUBSET (0..MaxTime) /\ latest # {}
  <2>1. latest \subseteq 0..MaxTime
    <3>1. latest \subseteq S
      OBVIOUS
    <3> HIDE DEF latest, times
    <3>2. S \subseteq 0..MaxTime
      BY <1>1
    <3> QED
      BY <3>1, <3>2
  <2>2. PICK m \in S : row[m].at = time
    BY <1>3
  <2> QED
    BY <2>1, <2>2
<1>5. PICK m \in latest : \A k \in latest : m >= k
  <2> HIDE DEF latest, times
  <2> QED
    BY <1>1, <1>4, MaxIsMax
<1>6. \A k \in S : k = m \/ Before(k, m)
  <2> SUFFICES ASSUME NEW k \in S, k # m PROVE Before(k, m)
    OBVIOUS
  <2>1. /\ row[k].at \in Nat /\ time \in Nat /\ row[k].at <= time
        /\ row[m].at = time /\ k \in Nat /\ m \in Nat
    BY <1>1, <1>3, <1>5
  <2>2. CASE row[k].at = time
    BY <1>5, <2>1, <2>2 DEF Before
  <2>3. CASE row[k].at < time
    BY <2>1, <2>3 DEF Before
  <2> QED
    BY <2>1, <2>2, <2>3
<1>7. m \in S
  OBVIOUS
<1> QED
  BY <1>6, <1>7 DEF Last

-----------------------------------------------------------------------------
(* The invariant. *)

Stored ==
  /\ row \in [MessageIds -> Row]
  /\ member \subseteq Users
  /\ clock \in 0..MaxTime
  /\ online \subseteq Users
  /\ pushed \in [Users -> SUBSET MessageIds]
  /\ since \in [Users -> 0..MaxTime]
  /\ walk \in [Users -> Walk]
  /\ ever \in [MessageIds -> SUBSET Users]

Counted ==
  /\ requests \in 0..MaxRequests
  /\ moves \in 0..MaxMoves
  /\ faults \in 0..MaxFaults

Published == {m \in MessageIds : row[m].state \in {"live", "deleted"}}

(* Whoever is a member is counted among those who ever were, and only what *)
(* was published has been pushed.                                          *)
History ==
  /\ \A m \in Published : member \subseteq ever[m]
  /\ \A u \in Users : pushed[u] \subseteq Published
  /\ PushedOnlyToMembers

Committing(t, m) == task[t].at = "commit" /\ task[t].msg = m

(* A row that is open has one transaction. *)
Owned ==
  /\ \A m \in MessageIds : row[m].state = "open" => \E t \in Tasks : Committing(t, m)
  /\ \A t, u \in Tasks : \A m \in MessageIds :
       Committing(t, m) /\ Committing(u, m) => t = u

SendingSteps == {"begin", "check", "insert", "commit", "members", "notify"}

(* What a request knows is so; and it has yet to reach whoever is due. *)
Fits(t) ==
  LET k == task[t] IN
  /\ k.at # "idle" => k.actor \in Users
  /\ k.at \in SendingSteps => k.op = "send"
  /\ k.at \in {"verify", "write"} => k.op \in {"edit", "delete", "list"}
  /\ k.at \in {"verify", "find", "verifyAgain", "write"} /\ k.op # "list" =>
       k.msg \in MessageIds
  /\ k.at \in {"find", "verifyAgain"} => k.op = "edit"
  /\ k.at \in {"verifyAgain", "write"} /\ k.op = "edit" =>
       k.msg \in Published /\ row[k.msg].sender = k.actor
  /\ k.at = "commit" => k.msg \in MessageIds /\ row[k.msg].state = "open"
  /\ k.at \in {"members", "notify"} => k.msg \in Published /\ k.due \subseteq online
  /\ k.at = "members" => k.due \subseteq member \ {k.actor}
  /\ k.at = "notify" =>
       /\ k.rest \subseteq ever[k.msg]
       /\ \A u \in k.due : u \in k.rest \/ k.msg \in pushed[u]

IInv ==
  /\ Stored
  /\ Counted
  /\ task \in [Tasks -> Task]
  /\ History
  /\ Owned
  /\ \A t \in Tasks : Fits(t)

(* What a step may not take from the other requests. Of the rows that are  *)
(* open, it may close those of S.                                          *)
Kept(S) ==
  /\ \A m \in Published : /\ m \in Published'
                          /\ row'[m].sender = row[m].sender
                          /\ ever[m] \subseteq ever'[m]
  /\ \A m \in MessageIds \ S : row[m].state = "open" => row'[m].state = "open"
  /\ \A u \in Users : pushed[u] \subseteq pushed'[u]

AllStay == member \subseteq member' /\ online \subseteq online'

-----------------------------------------------------------------------------
(* Requests. *)

LEMMA Rests ==
  ASSUME IInv, NEW S, Kept(S), NEW u \in Tasks,
         task[u].at = "commit" => task[u].msg \notin S,
         NEW D, D \subseteq task[u].due,
         D \subseteq online => D \subseteq online',
         D \subseteq member => D \subseteq member',
         task'[u] = [task[u] EXCEPT !.due = D]
  PROVE  Fits(u)'
<1>1. Fits(u) /\ task[u] \in Task
  BY DEF IInv
<1>2. /\ task'[u].at = task[u].at /\ task'[u].op = task[u].op
      /\ task'[u].actor = task[u].actor /\ task'[u].msg = task[u].msg
      /\ task'[u].rest = task[u].rest /\ task'[u].due = D
  BY <1>1 DEF Task
<1>3. PICK m : m = task[u].msg
  OBVIOUS
<1>4. /\ m \in Published => /\ m \in Published'
                            /\ row'[m].sender = row[m].sender
                            /\ ever[m] \subseteq ever'[m]
      /\ m \in MessageIds /\ m \notin S /\ row[m].state = "open" =>
           row'[m].state = "open"
      /\ \A x \in Users : pushed[x] \subseteq pushed'[x]
  BY DEF Kept
<1>5. task[u].due \subseteq Users
  BY <1>1 DEF Task
<1>6. task'[u].at \in {"members", "notify"} => m \in Published' /\ D \subseteq online'
  BY <1>1, <1>2, <1>3, <1>4 DEF Fits
<1>7. task'[u].at = "members" => D \subseteq member' \ {task[u].actor}
  BY <1>1, <1>2 DEF Fits
<1>8. task'[u].at = "notify" =>
        /\ task[u].rest \subseteq ever'[m]
        /\ \A x \in D : x \in task[u].rest \/ m \in pushed'[x]
  BY <1>1, <1>2, <1>3, <1>4, <1>5 DEF Fits
<1>9. /\ task'[u].at \in {"verifyAgain", "write"} /\ task'[u].op = "edit" =>
           m \in Published' /\ row'[m].sender = task[u].actor
      /\ task'[u].at = "commit" => m \in MessageIds /\ row'[m].state = "open"
  BY <1>1, <1>2, <1>3, <1>4 DEF Fits
<1> QED
  BY <1>1, <1>2, <1>3, <1>6, <1>7, <1>8, <1>9 DEF Fits, SendingSteps

LEMMA Stays ==
  ASSUME IInv, NEW S, Kept(S), AllStay, NEW u \in Tasks,
         task[u].at = "commit" => task[u].msg \notin S,
         task'[u] = task[u]
  PROVE  Fits(u)'
<1>1. task[u] \in Task
  BY DEF IInv
<1>2. task'[u] = [task[u] EXCEPT !.due = task[u].due]
  BY <1>1 DEF Task
<1> QED
  BY <1>2, Rests DEF AllStay

LEMMA Moves ==
  ASSUME IInv, NEW t \in Tasks, NEW new \in Task, task' = [task EXCEPT ![t] = new],
         NEW S, Kept(S), AllStay,
         S \subseteq {m \in MessageIds : Committing(t, m)}
  PROVE  /\ task' \in [Tasks -> Task]
         /\ task'[t] = new
         /\ \A u \in Tasks \ {t} : task'[u] = task[u]
         /\ \A u \in Tasks \ {t} : Fits(u)'
<1>1. /\ task' \in [Tasks -> Task]
      /\ task'[t] = new
      /\ \A u \in Tasks \ {t} : task'[u] = task[u]
  BY DEF IInv
<1>2. ASSUME NEW u \in Tasks \ {t}
      PROVE  Fits(u)'
  <2>1. task[u].at = "commit" => task[u].msg \notin S
    BY DEF IInv, Owned, Committing
  <2>2. task'[u] = task[u]
    BY <1>1
  <2> QED
    BY <2>1, <2>2, Stays
<1> QED
  BY <1>1, <1>2

LEMMA IdleIsTask == IdleTask \in Task /\ IdleTask.at = "idle" /\ IdleTask.op = "none"
BY BoundsAreNaturals DEF IdleTask, Handler, Task

LEMMA IdleFits ==
  ASSUME NEW t \in Tasks, task'[t] = IdleTask
  PROVE  Fits(t)' /\ \A m : ~Committing(t, m)'
BY IdleIsTask DEF Fits, Committing, SendingSteps

LEMMA Returns ==
  ASSUME IInv, NEW t \in Tasks, Return(t),
         NEW S, Kept(S), AllStay,
         S \subseteq {m \in MessageIds : Committing(t, m)}
  PROVE  /\ task' \in [Tasks -> Task]
         /\ task'[t] = IdleTask
         /\ \A u \in Tasks \ {t} : task'[u] = task[u]
         /\ \A u \in Tasks : Fits(u)'
<1>1. IdleTask \in Task /\ task' = [task EXCEPT ![t] = IdleTask]
  BY IdleIsTask DEF Return
<1>2. /\ task' \in [Tasks -> Task]
      /\ task'[t] = IdleTask
      /\ \A u \in Tasks \ {t} : task'[u] = task[u]
      /\ \A u \in Tasks \ {t} : Fits(u)'
  BY <1>1, Moves
<1> QED
  BY <1>2, IdleFits

(* Who owns the open rows stays so where none is opened or closed. *)
LEMMA OwnersStay ==
  ASSUME IInv,
         \A m \in MessageIds : row'[m].state = "open" => row[m].state = "open",
         \A t \in Tasks : \A m \in MessageIds :
           Committing(t, m)' <=> Committing(t, m)
  PROVE  Owned'
BY DEF IInv, Owned

-----------------------------------------------------------------------------
(* Steps that write no message, and push none. *)

NoMessageStep == UNCHANGED <<row, member, ever, pushed>> /\ online \subseteq online'

LEMMA NoMessageKeeps ==
  ASSUME IInv, NoMessageStep
  PROVE  Kept({}) /\ AllStay /\ History'
<1>1. UNCHANGED <<row, member, ever, pushed>> /\ online \subseteq online'
  BY DEF NoMessageStep
<1>2. Published' = Published
  BY <1>1 DEF Published
<1>3. History'
  BY <1>1, <1>2 DEF IInv, History, PushedOnlyToMembers
<1> QED
  BY <1>1, <1>2, <1>3 DEF Kept, AllStay

(* A request moves to another step, and nothing happens but that. *)
LEMMA MoveKeeps ==
  ASSUME IInv, NoMessageStep, Stored', Counted',
         NEW t \in Tasks, NEW new \in Task, task' = [task EXCEPT ![t] = new],
         task[t].at # "commit", new.at # "commit", Fits(t)'
  PROVE  IInv'
<1>1. Kept({}) /\ AllStay /\ History'
  BY NoMessageKeeps
<1>2. /\ task' \in [Tasks -> Task]
      /\ task'[t] = new
      /\ \A u \in Tasks \ {t} : task'[u] = task[u]
      /\ \A u \in Tasks \ {t} : Fits(u)'
  BY <1>1, Moves
<1>3. \A u \in Tasks : \A m \in MessageIds : Committing(u, m)' <=> Committing(u, m)
  BY <1>2 DEF Committing
<1>4. Owned'
  BY <1>3, OwnersStay DEF NoMessageStep
<1> QED
  BY <1>1, <1>2, <1>4 DEF IInv

LEMMA ReturnKeeps ==
  ASSUME IInv, NoMessageStep, Stored', Counted', NEW t \in Tasks, Return(t),
         task[t].at # "commit"
  PROVE  IInv'
<1>1. task' = [task EXCEPT ![t] = IdleTask] /\ task'[t] = IdleTask
  BY DEF Return, IInv
<1>2. Fits(t)'
  BY <1>1, IdleFits
<1> QED
  BY <1>1, <1>2, IdleIsTask, MoveKeeps

LEMMA GotoTask ==
  ASSUME IInv, NEW t \in Tasks,
         NEW step \in {"insert", "query", "write", "find", "verifyAgain"},
         Goto(t, step)
  PROVE  \E new \in Task :
           /\ task' = [task EXCEPT ![t] = new] /\ task'[t] = new /\ new.at = step
           /\ new.op = task[t].op /\ new.actor = task[t].actor
           /\ new.msg = task[t].msg
<1> DEFINE new == [task[t] EXCEPT !.at = step]
<1>1. task[t] \in Task /\ task \in [Tasks -> Task]
  BY DEF IInv
<1>2. /\ new \in Task /\ new.at = step /\ new.op = task[t].op
      /\ new.actor = task[t].actor /\ new.msg = task[t].msg
  BY <1>1 DEF Task
<1>3. task' = [task EXCEPT ![t] = new]
  BY DEF Goto
<1> HIDE DEF new
<1> QED
  BY <1>1, <1>2, <1>3

LEMMA GotoKeeps ==
  ASSUME IInv, NoMessageStep, UNCHANGED <<clock, client, bounds>>, NEW t \in Tasks,
         NEW step \in {"insert", "query", "write", "find", "verifyAgain"},
         Goto(t, step), task[t].at \notin {"idle", "commit"},
         step = "insert" => task[t].op = "send",
         step = "insert" \/ step = "query" \/
           /\ task[t].op \in {"edit", "delete"}
           /\ task[t].msg \in MessageIds,
         step \in {"find", "verifyAgain"} => task[t].op = "edit",
         step \in {"verifyAgain", "write"} /\ task[t].op = "edit" =>
           task[t].msg \in Published /\ row[task[t].msg].sender = task[t].actor
  PROVE  IInv'
<1>1. PICK new \in Task :
        /\ task' = [task EXCEPT ![t] = new] /\ task'[t] = new /\ new.at = step
        /\ new.op = task[t].op /\ new.actor = task[t].actor
        /\ new.msg = task[t].msg
  BY GotoTask
<1>2. task[t].actor \in Users
  BY DEF IInv, Fits
<1>3. Published' = Published /\ row' = row
  BY DEF NoMessageStep, Published
<1>4. Fits(t)'
  BY <1>1, <1>2, <1>3 DEF Fits, SendingSteps
<1>5. Stored' /\ Counted'
  BY DEF IInv, Stored, Counted, NoMessageStep, client, bounds
<1> QED
  BY <1>1, <1>4, <1>5, MoveKeeps

(* A request returns, and leaves the rows open that are. *)
LEMMA LastStepKeeps ==
  ASSUME IInv, Kept({}), AllStay, History', Stored', Counted',
         NEW t \in Tasks, Return(t), task[t].at # "commit",
         \A m \in MessageIds : row'[m].state = "open" => row[m].state = "open"
  PROVE  IInv'
<1>1. /\ task' \in [Tasks -> Task] /\ task'[t] = IdleTask
      /\ \A x \in Tasks \ {t} : task'[x] = task[x]
      /\ \A x \in Tasks : Fits(x)'
  BY Returns
<1>2. Owned'
  BY <1>1, IdleIsTask, OwnersStay DEF Committing
<1> QED
  BY <1>1, <1>2 DEF IInv

-----------------------------------------------------------------------------
(* Every action keeps the invariant: requests and the checks of handlers.  *)

LEMMA NewRequest ==
  ASSUME IInv, NEW u \in Users, NEW time \in 0..MaxTime,
         NEW op \in {"send", "edit", "delete", "list", "sync"},
         NEW m \in MessageIds \cup {NoMessage},
         NEW at \in {"begin", "verify", "query"},
         at = "begin" => op = "send",
         at = "verify" => \/ op = "list"
                          \/ op \in {"edit", "delete"} /\ m \in MessageIds,
         NEW t \in Tasks, Spawn(t, Handler(at, op, u, m, time)),
         NoMessageStep, Stored', Counted'
  PROVE  IInv'
<1> DEFINE new == Handler(at, op, u, m, time)
<1>1. /\ new \in Task /\ new.at = at /\ new.op = op /\ new.actor = u
      /\ new.msg = m
  BY DEF Handler, Task
<1>2. task' = [task EXCEPT ![t] = new] /\ task[t].at = "idle"
  BY DEF Spawn
<1> HIDE DEF new
<1>3. task'[t] = new
  BY <1>2 DEF IInv
<1>4. Fits(t)'
  BY <1>1, <1>3 DEF Fits, SendingSteps
<1> QED
  BY <1>1, <1>2, <1>4, MoveKeeps

LEMMA CountStep ==
  ASSUME NEW n \in Nat, NEW x \in 0..n, x < n
  PROVE  x + 1 \in 0..n
OBVIOUS

LEMMA ArriveKeeps ==
  ASSUME IInv, NEW t \in Tasks, NEW u \in Users,
         Request(t, u) \/ NextPage(t, u) \/ Connect(t, u)
  PROVE  IInv'
<1>1. 0 \in 0..MaxTime /\ since[u] \in 0..MaxTime
  BY BoundsAreNaturals DEF IInv, Stored
<1>2. NoMessageStep
  BY DEF Request, NextPage, Connect, NoMessageStep, data, client
<1>3. Stored'
  BY DEF IInv, Stored, Request, NextPage, Connect, data, client
<1>4. Counted'
  <2>1. CASE Request(t, u)
    BY <2>1, CountStep, BoundsAreNaturals DEF IInv, Counted, Request
  <2>2. CASE NextPage(t, u)
    BY <2>2 DEF IInv, Counted, NextPage, bounds
  <2>3. CASE Connect(t, u)
    BY <2>3, CountStep, BoundsAreNaturals DEF IInv, Counted, Connect
  <2> QED
    BY <2>1, <2>2, <2>3
<1>5. \/ Spawn(t, Handler("begin", "send", u, NoMessage, 0))
      \/ \E op \in {"edit", "delete"}, m \in MessageIds :
           Spawn(t, Handler("verify", op, u, m, 0))
      \/ Spawn(t, Handler("verify", "list", u, NoMessage, 0))
      \/ Spawn(t, Handler("query", "sync", u, NoMessage, since[u]))
  BY DEF Request, NextPage, Connect
<1> QED
  BY <1>1, <1>2, <1>3, <1>4, <1>5, NewRequest

LEMMA StartWalkKeeps ==
  ASSUME IInv, NEW u \in Users, StartWalk(u)
  PROVE  IInv'
<1>1. NoMessageStep /\ task' = task /\ UNCHANGED <<clock, since, online>>
  BY DEF StartWalk, NoMessageStep, data
<1>2. Counted'
  BY CountStep, BoundsAreNaturals DEF IInv, Counted, StartWalk
<1>3. Stored'
  <2>1. PICK dir \in {"before", "after"}, limit \in 1..PageMax :
          walk' = [walk EXCEPT ![u] =
                    [dir |-> dir, limit |-> limit, cursor |-> NoMessage,
                     must |-> Live, got |-> {}, done |-> FALSE]]
    BY DEF StartWalk
  <2>2. Live \subseteq MessageIds
    BY DEF Live
  <2>3. [dir |-> dir, limit |-> limit, cursor |-> NoMessage,
         must |-> Live, got |-> {}, done |-> FALSE] \in Walk
    BY <2>2 DEF Walk
  <2>4. walk' \in [Users -> Walk]
    BY <2>1, <2>3 DEF IInv, Stored
  <2> QED
    BY <1>1, <2>4 DEF IInv, Stored, NoMessageStep
<1>4. Kept({}) /\ AllStay /\ History'
  BY <1>1, NoMessageKeeps
<1>5. \A t \in Tasks : Fits(t)'
  BY <1>1, <1>4, Stays
<1>6. Owned'
  BY <1>1, OwnersStay DEF NoMessageStep, Committing
<1> QED
  BY <1>1, <1>2, <1>3, <1>4, <1>5, <1>6 DEF IInv

LEMMA CheckKeeps ==
  ASSUME IInv, NEW t \in Tasks,
         ensure_active_membership(t) \/ verify_participant(t) \/ FindMessage(t)
  PROVE  IInv'
<1>1. NoMessageStep /\ UNCHANGED <<clock, client, bounds>>
  BY DEF ensure_active_membership, verify_participant, FindMessage, NoMessageStep,
     data, client
<1>2. Stored' /\ Counted'
  BY <1>1 DEF IInv, Stored, Counted, NoMessageStep, client, bounds
<1>3. task[t].at \in {"check", "verify", "verifyAgain", "find"}
  BY DEF ensure_active_membership, verify_participant, FindMessage
<1>4. CASE Return(t)
  BY <1>1, <1>2, <1>3, <1>4, ReturnKeeps
<1>5. CASE task[t].at = "check" /\ Goto(t, "insert")
  <2>1. task[t].op = "send"
    BY <1>5 DEF IInv, Fits, SendingSteps
  <2> QED
    BY <1>1, <1>3, <1>5, <2>1, GotoKeeps
<1>6. CASE FindMessage(t) /\ ~Return(t)
  <2>1. /\ task[t].msg \in Live /\ row[task[t].msg].sender = task[t].actor
        /\ Goto(t, "verifyAgain") /\ task[t].at = "find"
    BY <1>6 DEF FindMessage
  <2>2. task[t].msg \in Published /\ task[t].msg \in MessageIds
    BY <2>1 DEF Live, Published
  <2>3. task[t].op = "edit"
    BY <2>1 DEF IInv, Fits
  <2> QED
    BY <1>1, <1>3, <2>1, <2>2, <2>3, GotoKeeps
<1>7. CASE verify_participant(t) /\ ~Return(t)
  <2>1. /\ task[t].at = "verify" => task[t].op \in {"edit", "delete", "list"}
        /\ task[t].at = "verifyAgain" => task[t].op = "edit"
        /\ task[t].op # "list" => task[t].msg \in MessageIds
        /\ task[t].at = "verifyAgain" =>
             task[t].msg \in Published /\ row[task[t].msg].sender = task[t].actor
    BY <1>3, <1>7 DEF IInv, Fits, verify_participant
  <2>2. \/ task[t].op = "list" /\ Goto(t, "query")
        \/ task[t].op = "delete" /\ Goto(t, "write")
        \/ task[t].op = "edit" /\ task[t].at = "verify" /\ Goto(t, "find")
        \/ task[t].op = "edit" /\ task[t].at = "verifyAgain" /\ Goto(t, "write")
    BY <1>7, <2>1 DEF verify_participant
  <2> QED
    BY <1>1, <1>3, <2>1, <2>2, GotoKeeps
<1> QED
  BY <1>4, <1>5, <1>6, <1>7 DEF ensure_active_membership

-----------------------------------------------------------------------------
(* ... the transaction of a send, ...                                      *)

LEMMA BeginKeeps ==
  ASSUME IInv, NEW t \in Tasks, Begin(t)
  PROVE  IInv'
<1>1. /\ task[t].at = "begin" /\ task[t] \in Task /\ task[t].actor \in Users
      /\ task[t].op = "send"
  BY DEF Begin, IInv, Fits, SendingSteps
<1>2. PICK now : /\ now \in {clock, clock + 1} /\ now <= MaxTime
                 /\ clock' = now
                 /\ task' = [task EXCEPT ![t].at = "check", ![t].time = now]
  BY DEF Begin
<1>3. now \in 0..MaxTime
  BY <1>2, BoundsAreNaturals DEF IInv, Stored
<1>4. /\ UNCHANGED <<row, member, ever, online, pushed, since, walk>>
      /\ UNCHANGED <<requests, moves, faults>>
  BY DEF Begin, client, bounds
<1>5. NoMessageStep /\ Stored' /\ Counted'
  BY <1>2, <1>3, <1>4 DEF NoMessageStep, IInv, Stored, Counted
<1> DEFINE new == [task[t] EXCEPT !.at = "check", !.time = now]
<1>6. /\ new \in Task /\ new.at = "check" /\ new.actor = task[t].actor
      /\ new.op = task[t].op
  BY <1>1, <1>3 DEF Task
<1>7. task' = [task EXCEPT ![t] = new]
  BY <1>2
<1> HIDE DEF new
<1>8. task'[t] = new
  BY <1>7 DEF IInv
<1>9. Fits(t)'
  BY <1>1, <1>6, <1>8 DEF Fits, SendingSteps
<1> QED
  BY <1>1, <1>5, <1>6, <1>7, <1>9, MoveKeeps

LEMMA InsertKeeps ==
  ASSUME IInv, NEW t \in Tasks, Insert(t)
  PROVE  IInv'
<1>1. PICK m \in MessageIds :
        /\ row[m] = NoRow
        /\ row' = [row EXCEPT ![m] = [state |-> "open", sender |-> task[t].actor,
                                      at |-> task[t].time, content |-> "first"]]
        /\ task' = [task EXCEPT ![t].at = "commit", ![t].msg = m]
  BY DEF Insert
<1>2. /\ task[t].at = "insert" /\ task[t] \in Task /\ task[t].actor \in Users
      /\ task \in [Tasks -> Task] /\ row \in [MessageIds -> Row]
      /\ task[t].op = "send"
  BY DEF Insert, IInv, Stored, Fits, SendingSteps
<1>3. /\ UNCHANGED <<member, clock, ever, online, pushed, since, walk>>
      /\ UNCHANGED <<requests, moves, faults>>
  BY DEF Insert, client, bounds
<1>4. [state |-> "open", sender |-> task[t].actor, at |-> task[t].time,
       content |-> "first"] \in Row
  BY <1>2 DEF Row, Task
<1>5. /\ row' \in [MessageIds -> Row]
      /\ row'[m].state = "open" /\ row[m].state = "none"
      /\ \A n \in MessageIds \ {m} : row'[n] = row[n]
  BY <1>1, <1>2, <1>4 DEF NoRow
<1>6. Stored' /\ Counted'
  BY <1>3, <1>5 DEF IInv, Stored, Counted
<1>7. Published' = Published
  BY <1>5 DEF Published
<1>8. Kept({}) /\ AllStay /\ History'
  <2>1. \A n \in Published : n # m
    BY <1>5 DEF Published
  <2>2. Kept({}) /\ AllStay
    BY <1>3, <1>5, <1>7, <2>1 DEF Kept, AllStay, Published
  <2>3. History'
    BY <1>3, <1>7 DEF IInv, History, PushedOnlyToMembers
  <2> QED
    BY <2>2, <2>3
<1> DEFINE new == [task[t] EXCEPT !.at = "commit", !.msg = m]
<1>9. /\ new \in Task /\ new.at = "commit" /\ new.actor = task[t].actor
      /\ new.msg = m /\ new.op = task[t].op
  BY <1>2 DEF Task
<1>10. task' = [task EXCEPT ![t] = new]
  BY <1>1
<1> HIDE DEF new
<1>11. /\ task' \in [Tasks -> Task]
       /\ task'[t] = new
       /\ \A u \in Tasks \ {t} : task'[u] = task[u]
       /\ \A u \in Tasks \ {t} : Fits(u)'
  BY <1>8, <1>9, <1>10, Moves
<1>12. Fits(t)'
  BY <1>2, <1>5, <1>9, <1>11 DEF Fits, SendingSteps
<1>13. Owned'
  <2>1. \A u \in Tasks : ~Committing(u, m)
    BY <1>5 DEF IInv, Fits, Committing
  <2>2. Committing(t, m)' /\ \A n \in MessageIds \ {m} : ~Committing(t, n)'
    BY <1>9, <1>11 DEF Committing
  <2>3. \A u \in Tasks \ {t} : \A n \in MessageIds :
          Committing(u, n)' <=> Committing(u, n)
    BY <1>11 DEF Committing
  <2>4. \A n \in MessageIds : ~Committing(t, n)
    BY <1>2 DEF Committing
  <2>5. \A n \in MessageIds : row'[n].state = "open" =>
          \E u \in Tasks : Committing(u, n)'
    BY <1>5, <2>2, <2>3, <2>4 DEF IInv, Owned
  <2>6. \A x, u \in Tasks : \A n \in MessageIds :
          Committing(x, n)' /\ Committing(u, n)' => x = u
    BY <2>1, <2>2, <2>3 DEF IInv, Owned
  <2> QED
    BY <2>5, <2>6 DEF Owned, Committing
<1> QED
  BY <1>6, <1>8, <1>11, <1>12, <1>13 DEF IInv

(* Where the transaction of t ends, and with it the row it had open. *)
LEMMA OwnersWithout ==
  ASSUME IInv, NEW t \in Tasks, NEW m \in MessageIds, Committing(t, m),
         row'[m].state # "open", \A n \in MessageIds \ {m} : row'[n] = row[n],
         task'[t].at # "commit", \A u \in Tasks \ {t} : task'[u] = task[u]
  PROVE  Owned'
<1>1. \A u \in Tasks \ {t} : \A n \in MessageIds :
        Committing(u, n)' <=> Committing(u, n)
  BY DEF Committing
<1>2. \A n \in MessageIds : ~Committing(t, n)'
  BY DEF Committing
<1>3. \A n \in MessageIds \ {m} : ~Committing(t, n)
  BY DEF Committing
<1>4. \A n \in MessageIds : row'[n].state = "open" =>
        \E u \in Tasks : Committing(u, n)'
  BY <1>1, <1>3 DEF IInv, Owned
<1>5. \A x, u \in Tasks : \A n \in MessageIds :
        Committing(x, n)' /\ Committing(u, n)' => x = u
  BY <1>1, <1>2 DEF IInv, Owned
<1> QED
  BY <1>4, <1>5 DEF Owned, Committing

LEMMA CommitKeeps ==
  ASSUME IInv, NEW t \in Tasks, Commit(t)
  PROVE  IInv'
<1>1. PICK m \in MessageIds : Committing(t, m) /\ row[m].state = "open"
  BY DEF Commit, IInv, Fits, Committing
<1>2. /\ task[t] \in Task /\ task[t].msg = m /\ task[t].at = "commit"
      /\ task \in [Tasks -> Task] /\ row \in [MessageIds -> Row]
      /\ task[t].actor \in Users
      /\ ever \in [MessageIds -> SUBSET Users] /\ member \subseteq Users
      /\ task[t].op = "send"
  BY <1>1 DEF IInv, Stored, Fits, Committing, SendingSteps
<1> DEFINE due == (member \cap online) \ {task[t].actor}
<1>3. /\ row' = [row EXCEPT ![m].state = "live"]
      /\ ever' = [ever EXCEPT ![m] = member]
      /\ task' = [task EXCEPT ![t].at = "members", ![t].due = due]
      /\ UNCHANGED <<member, clock, online, pushed, since, walk>>
      /\ UNCHANGED <<requests, moves, faults>>
  BY <1>2 DEF Commit, client, bounds
<1>4. /\ row' \in [MessageIds -> Row]
      /\ row'[m].state = "live"
      /\ \A n \in MessageIds \ {m} : row'[n] = row[n]
      /\ ever' \in [MessageIds -> SUBSET Users]
      /\ ever'[m] = member
      /\ \A n \in MessageIds \ {m} : ever'[n] = ever[n]
  BY <1>2, <1>3 DEF Row
<1>5. Stored' /\ Counted'
  BY <1>3, <1>4 DEF IInv, Stored, Counted
<1>6. Published' = Published \cup {m} /\ m \notin Published
  BY <1>1, <1>4 DEF Published
<1>7. Kept({m}) /\ AllStay
  BY <1>3, <1>4, <1>6 DEF Kept, AllStay, Published
<1>8. History'
  <2>1. \A u \in Users : m \notin pushed[u]
    BY <1>6 DEF IInv, History
  <2>2. \A n \in Published' : member' \subseteq ever'[n]
    BY <1>3, <1>4, <1>6 DEF IInv, History, Published
  <2>3. \A u \in Users : pushed'[u] \subseteq Published'
    BY <1>3, <1>6 DEF IInv, History
  <2>4. PushedOnlyToMembers'
    BY <1>3, <1>4, <2>1 DEF IInv, History, Stored, PushedOnlyToMembers
  <2> QED
    BY <2>2, <2>3, <2>4 DEF History
<1>9. due \subseteq Users /\ due \subseteq online /\ due \subseteq member \ {task[t].actor}
  BY <1>2
<1> HIDE DEF due
<1> DEFINE new == [task[t] EXCEPT !.at = "members", !.due = due]
<1>10. /\ new \in Task /\ new.at = "members" /\ new.due = due
       /\ new.actor = task[t].actor /\ new.msg = m /\ new.op = task[t].op
  BY <1>2, <1>9 DEF Task
<1>11. task' = [task EXCEPT ![t] = new]
  BY <1>3
<1> HIDE DEF new
<1>12. /\ task' \in [Tasks -> Task]
       /\ task'[t] = new
       /\ \A u \in Tasks \ {t} : task'[u] = task[u]
       /\ \A u \in Tasks \ {t} : Fits(u)'
  BY <1>1, <1>7, <1>10, <1>11, Moves
<1>13. /\ task'[t].at = "members" /\ task'[t].op = "send" /\ task'[t].msg = m
       /\ task'[t].actor = task[t].actor /\ task'[t].due = due
  BY <1>2, <1>10, <1>12
<1>14. Fits(t)'
  <2>1. /\ m \in Published' /\ due \subseteq online'
        /\ due \subseteq member' \ {task[t].actor}
    BY <1>3, <1>6, <1>9
  <2> QED
    BY <1>2, <1>13, <2>1 DEF Fits, SendingSteps
<1>15. Owned'
  <2>1. row'[m].state # "open" /\ task'[t].at # "commit"
    BY <1>4, <1>13
  <2> QED
    BY <1>1, <1>4, <1>12, <2>1, OwnersWithout
<1> QED
  BY <1>5, <1>8, <1>12, <1>14, <1>15 DEF IInv

LEMMA FailKeeps ==
  ASSUME IInv, NEW t \in Tasks, QueryFails(t)
  PROVE  IInv'
<1>1. /\ Return(t)
      /\ UNCHANGED <<member, clock, ever, online, pushed, since, walk>>
  BY DEF QueryFails, client
<1>2. Counted'
  BY CountStep, BoundsAreNaturals DEF IInv, Counted, QueryFails
<1>3. CASE task[t].at # "commit"
  <2>1. row' = row
    BY <1>3 DEF QueryFails
  <2>2. NoMessageStep /\ Stored'
    BY <1>1, <2>1 DEF NoMessageStep, IInv, Stored
  <2> QED
    BY <1>1, <1>2, <1>3, <2>2, ReturnKeeps
<1>4. CASE task[t].at = "commit"
  <2>1. PICK m \in MessageIds : Committing(t, m) /\ row[m].state = "open"
    BY <1>4 DEF IInv, Fits, Committing
  <2>2. row' = [row EXCEPT ![m] = NoRow]
    BY <1>4, <2>1 DEF QueryFails, Committing
  <2>3. NoRow \in Row /\ NoRow.state = "none"
    BY BoundsAreNaturals DEF NoRow, Row
  <2>4. /\ row' \in [MessageIds -> Row] /\ row'[m].state = "none"
        /\ \A n \in MessageIds \ {m} : row'[n] = row[n]
    BY <2>2, <2>3 DEF IInv, Stored
  <2>5. Stored'
    BY <1>1, <2>4 DEF IInv, Stored
  <2>6. Published' = Published /\ m \notin Published
    BY <2>1, <2>4 DEF Published
  <2>7. Kept({m}) /\ AllStay /\ History'
    <3>1. Kept({m}) /\ AllStay
      BY <1>1, <2>4, <2>6 DEF Kept, AllStay, Published
    <3>2. History'
      BY <1>1, <2>6 DEF IInv, History, PushedOnlyToMembers
    <3> QED
      BY <3>1, <3>2
  <2>8. /\ task' \in [Tasks -> Task] /\ task'[t] = IdleTask
        /\ \A u \in Tasks \ {t} : task'[u] = task[u]
        /\ \A u \in Tasks : Fits(u)'
    BY <1>1, <2>1, <2>7, Returns
  <2>9. Owned'
    BY <2>1, <2>4, <2>8, IdleIsTask, OwnersWithout
  <2> QED
    BY <1>2, <2>5, <2>7, <2>8, <2>9 DEF IInv
<1> QED
  BY <1>3, <1>4

-----------------------------------------------------------------------------
(* ... the publications, ...                                               *)

LEMMA NotifyKeeps ==
  ASSUME IInv, NEW t \in Tasks, get_chat_participants(t)
  PROVE  IInv'
<1> DEFINE others == member \ {task[t].actor}
<1>1. /\ task[t].at = "members" /\ task[t] \in Task /\ task[t].actor \in Users
      /\ member \subseteq Users /\ task \in [Tasks -> Task]
      /\ task[t].op = "send"
  BY DEF get_chat_participants, Notify, IInv, Stored, Fits, SendingSteps
<1>2. NoMessageStep /\ Stored' /\ Counted'
  BY DEF get_chat_participants, Notify, NoMessageStep, data, client, bounds, IInv,
     Stored, Counted
<1>3. CASE Return(t)
  BY <1>1, <1>2, <1>3, ReturnKeeps
<1>4. CASE task' = [task EXCEPT ![t].at = "notify", ![t].rest = others]
  <2> DEFINE new == [task[t] EXCEPT !.at = "notify", !.rest = others]
  <2>1. /\ new \in Task /\ new.at = "notify" /\ new.rest = others
        /\ new.actor = task[t].actor /\ new.msg = task[t].msg
        /\ new.due = task[t].due /\ new.op = task[t].op
    BY <1>1 DEF Task
  <2>2. task' = [task EXCEPT ![t] = new]
    BY <1>4
  <2> HIDE DEF new
  <2>3. task'[t] = new
    BY <1>1, <2>2
  <2>4. /\ task[t].msg \in Published /\ task[t].due \subseteq online
        /\ task[t].due \subseteq others
    BY <1>1 DEF IInv, Fits
  <2>5. others \subseteq ever[task[t].msg]
    BY <2>4 DEF IInv, History
  <2>6. /\ UNCHANGED <<ever, online, pushed>> /\ Published' = Published
    BY DEF get_chat_participants, Notify, data, client, Published
  <2>7. Fits(t)'
    BY <1>1, <2>1, <2>3, <2>4, <2>5, <2>6 DEF Fits, SendingSteps
  <2> QED
    BY <1>1, <1>2, <2>1, <2>2, <2>7, MoveKeeps
<1> QED
  BY <1>3, <1>4 DEF get_chat_participants, Notify

LEMMA ReceiveTypes ==
  ASSUME IInv, NEW u \in Users, NEW messages \in SUBSET MessageIds,
         Receive(u, messages)
  PROVE  /\ pushed' \in [Users -> SUBSET MessageIds]
         /\ since' \in [Users -> 0..MaxTime]
         /\ pushed'[u] = pushed[u] \cup messages
         /\ \A x \in Users \ {u} : pushed'[x] = pushed[x]
<1>1. /\ pushed \in [Users -> SUBSET MessageIds]
      /\ since \in [Users -> 0..MaxTime]
      /\ MaxTime \in Nat
      /\ \A m \in messages : row[m].at \in 0..MaxTime
  BY BoundsAreNaturals DEF IInv, Stored, Row
<1> DEFINE times == {since[u]} \cup {row[m].at : m \in messages}
<1>2. times \in SUBSET (0..MaxTime) /\ times # {}
  BY <1>1
<1>3. since' = [since EXCEPT ![u] = Max(times)]
  BY DEF Receive
<1> HIDE DEF times
<1>4. Max(times) \in 0..MaxTime
  BY <1>1, <1>2, MaxIsMax
<1>5. since' \in [Users -> 0..MaxTime]
  BY <1>1, <1>3, <1>4
<1>6. pushed' = [pushed EXCEPT ![u] = pushed[u] \cup messages]
  BY DEF Receive
<1> QED
  BY <1>1, <1>5, <1>6

(* A client receives messages whose members it has been among. *)
LEMMA ReceiveKeeps ==
  ASSUME IInv, NEW u \in Users, NEW messages \in SUBSET Published,
         \A m \in messages : u \in ever[m],
         Receive(u, messages),
         UNCHANGED <<data, online, walk, bounds>>
  PROVE  Kept({}) /\ AllStay /\ History' /\ Stored' /\ Counted'
         /\ \A m \in MessageIds : row'[m] = row[m]
<1>1. messages \in SUBSET MessageIds
  BY DEF Published
<1>2. /\ pushed' \in [Users -> SUBSET MessageIds]
      /\ since' \in [Users -> 0..MaxTime]
      /\ pushed'[u] = pushed[u] \cup messages
      /\ \A x \in Users \ {u} : pushed'[x] = pushed[x]
  BY <1>1, ReceiveTypes
<1>3. UNCHANGED <<row, member, clock, ever, online, walk, requests, moves, faults>>
  BY DEF data, bounds
<1>4. Published' = Published
  BY <1>3 DEF Published
<1>5. Stored' /\ Counted'
  BY <1>2, <1>3 DEF IInv, Stored, Counted
<1>6. Kept({}) /\ AllStay
  BY <1>2, <1>3, <1>4 DEF Kept, AllStay, Published
<1>7. History'
  <2>1. \A m \in Published' : member' \subseteq ever'[m]
    BY <1>3, <1>4 DEF IInv, History
  <2>2. \A x \in Users : pushed'[x] \subseteq Published'
    BY <1>2, <1>4 DEF IInv, History
  <2>3. PushedOnlyToMembers'
    BY <1>2, <1>3 DEF IInv, History, PushedOnlyToMembers
  <2> QED
    BY <2>1, <2>2, <2>3 DEF History
<1> QED
  BY <1>3, <1>5, <1>6, <1>7

LEMMA PublishKeeps ==
  ASSUME IInv, NEW t \in Tasks, Publish(t)
  PROVE  IInv'
<1>1. /\ task[t].at = "notify" /\ task[t] \in Task /\ task \in [Tasks -> Task]
      /\ task[t].rest \subseteq Users /\ task[t].msg \in Published
      /\ task[t].due \subseteq online /\ task[t].actor \in Users
      /\ task[t].rest \subseteq ever[task[t].msg]
      /\ \A x \in task[t].due : x \in task[t].rest \/ task[t].msg \in pushed[x]
      /\ task[t].op = "send"
  BY DEF Publish, IInv, Fits, Task, SendingSteps
<1>2. PICK u \in task[t].rest :
        /\ IF task[t].rest = {u}
             THEN Return(t)
             ELSE task' = [task EXCEPT ![t].rest = task[t].rest \ {u}]
        /\ IF u \in online THEN Receive(u, {task[t].msg})
                           ELSE UNCHANGED <<pushed, since>>
        /\ UNCHANGED <<data, online, walk, bounds>>
  BY DEF Publish
<1>3. /\ Kept({}) /\ AllStay /\ History' /\ Stored' /\ Counted'
      /\ \A m \in MessageIds : row'[m] = row[m]
      /\ u \in online => task[t].msg \in pushed'[u]
  <2>1. CASE u \in online
    <3>1. {task[t].msg} \in SUBSET Published /\ u \in ever[task[t].msg] /\ u \in Users
      BY <1>1, <1>2
    <3>2. task[t].msg \in MessageIds
      BY <1>1 DEF Published
    <3>3. Receive(u, {task[t].msg}) /\ UNCHANGED <<data, online, walk, bounds>>
      BY <1>2, <2>1
    <3>4. task[t].msg \in pushed'[u]
      BY <3>1, <3>2, <3>3, ReceiveTypes
    <3> QED
      BY <3>1, <3>3, <3>4, ReceiveKeeps
  <2>2. CASE u \notin online
    <3>1. NoMessageStep /\ UNCHANGED <<clock, online, since, walk, requests, moves, faults>>
      BY <1>2, <2>2 DEF NoMessageStep, data, bounds
    <3>2. Stored' /\ Counted'
      BY <3>1 DEF IInv, Stored, Counted, NoMessageStep
    <3>3. \A m \in MessageIds : row'[m] = row[m]
      BY <3>1 DEF NoMessageStep
    <3> QED
      BY <2>2, <3>1, <3>2, <3>3, NoMessageKeeps
  <2> QED
    BY <2>1, <2>2
<1>4. CASE Return(t)
  BY <1>1, <1>3, <1>4, LastStepKeeps
<1>5. CASE task' = [task EXCEPT ![t].rest = task[t].rest \ {u}]
  <2> DEFINE rest == task[t].rest \ {u}
             new == [task[t] EXCEPT !.rest = rest]
  <2>1. /\ new \in Task /\ new.at = "notify" /\ new.rest = rest
        /\ new.actor = task[t].actor /\ new.msg = task[t].msg
        /\ new.due = task[t].due /\ new.op = task[t].op
    BY <1>1 DEF Task
  <2>2. task' = [task EXCEPT ![t] = new]
    BY <1>5
  <2> HIDE DEF new
  <2>3. /\ task' \in [Tasks -> Task] /\ task'[t] = new
        /\ \A x \in Tasks \ {t} : task'[x] = task[x]
        /\ \A x \in Tasks \ {t} : Fits(x)'
    BY <1>3, <2>1, <2>2, Moves
  <2>4. /\ task[t].msg \in Published' /\ rest \subseteq ever'[task[t].msg]
        /\ \A x \in Users : pushed[x] \subseteq pushed'[x]
        /\ task[t].due \subseteq online'
    BY <1>1, <1>3 DEF Kept, AllStay
  <2>5. \A x \in task[t].due : x \in rest \/ task[t].msg \in pushed'[x]
    <3>1. task[t].due \subseteq Users
      BY <1>1 DEF Task
    <3> QED
      BY <1>1, <1>3, <2>4, <3>1
  <2> HIDE DEF rest
  <2>6. Fits(t)'
    BY <1>1, <2>1, <2>3, <2>4, <2>5 DEF Fits, SendingSteps
  <2>7. Owned'
    BY <1>1, <1>3, <2>1, <2>3, OwnersStay DEF Committing
  <2> QED
    BY <1>3, <2>3, <2>6, <2>7 DEF IInv
<1> QED
  BY <1>2, <1>4, <1>5

-----------------------------------------------------------------------------
(* ... editing and deleting, ...                                           *)

(* A request writes a row that is published, which stays published and     *)
(* the sender's.                                                           *)
LEMMA WriteKeeps ==
  ASSUME IInv, NEW t \in Tasks, Return(t), task[t].at = "write",
         row' \in [MessageIds -> Row],
         \A m \in MessageIds : row'[m].sender = row[m].sender,
         \A m \in MessageIds : row'[m].state = row[m].state \/
           {row[m].state, row'[m].state} \subseteq {"live", "deleted"},
         UNCHANGED <<member, clock, ever, client, bounds>>
  PROVE  IInv'
<1>1. /\ UNCHANGED <<member, clock, ever, online, pushed, since, walk>>
      /\ UNCHANGED <<requests, moves, faults>>
  BY DEF client, bounds
<1>2. Stored' /\ Counted'
  BY <1>1 DEF IInv, Stored, Counted
<1>3. /\ Published' = Published
      /\ \A m \in MessageIds : row'[m].state = "open" <=> row[m].state = "open"
  BY DEF Published
<1>4. Kept({}) /\ AllStay
  BY <1>1, <1>3 DEF Kept, AllStay, Published
<1>5. History'
  BY <1>1, <1>3 DEF IInv, History, PushedOnlyToMembers
<1> QED
  BY <1>2, <1>3, <1>4, <1>5, LastStepKeeps

LEMMA EditKeeps ==
  ASSUME IInv, NEW t \in Tasks, edit_message(t)
  PROVE  IInv'
<1>1. PICK m : m = task[t].msg
  OBVIOUS
<1>2. /\ Return(t) /\ task[t].at = "write"
      /\ row' = [row EXCEPT ![m].content = "edited"]
      /\ UNCHANGED <<member, clock, ever, client, bounds>>
      /\ row \in [MessageIds -> Row]
  BY <1>1 DEF edit_message, IInv, Stored
<1>3. m \in MessageIds
  BY <1>1 DEF edit_message, IInv, Fits
<1>4. /\ row' \in [MessageIds -> Row]
      /\ row'[m].sender = row[m].sender /\ row'[m].state = row[m].state
      /\ \A n \in MessageIds \ {m} : row'[n] = row[n]
  BY <1>2, <1>3 DEF Row
<1> QED
  BY <1>2, <1>4, WriteKeeps

LEMMA DeleteKeeps ==
  ASSUME IInv, NEW t \in Tasks, delete_message(t)
  PROVE  IInv'
<1>1. PICK m : m = task[t].msg
  OBVIOUS
<1>2. /\ Return(t) /\ task[t].at = "write"
      /\ UNCHANGED <<member, clock, ever, client, bounds>>
      /\ row \in [MessageIds -> Row]
  BY DEF delete_message, IInv, Stored
<1>3. CASE row' = row
  BY <1>2, <1>3, WriteKeeps
<1>4. CASE row' # row
  <2>1. /\ m \in MessageIds /\ row[m].state = "live"
        /\ row' = [row EXCEPT ![m].state = "deleted", ![m].content = "none"]
    BY <1>1, <1>4 DEF delete_message, Live
  <2>2. /\ row' \in [MessageIds -> Row]
        /\ row'[m].sender = row[m].sender /\ row'[m].state = "deleted"
        /\ \A n \in MessageIds \ {m} : row'[n] = row[n]
    BY <1>2, <2>1 DEF Row
  <2> QED
    BY <1>2, <2>1, <2>2, WriteKeeps
<1> QED
  BY <1>3, <1>4

-----------------------------------------------------------------------------
(* ... the pages of the history and of a sync, ...                         *)

LEMMA ListKeeps ==
  ASSUME IInv, NEW t \in Tasks, ListQuery(t)
  PROVE  IInv'
<1>1. PICK u : u = task[t].actor
  OBVIOUS
<1>2. PICK w : w = walk[u]
  OBVIOUS
<1> DEFINE rows == Fetched(w.dir, w.cursor, Min({w.limit + 1, PageMax}))
           page == Earliest(rows, w.limit)
           done == rows = page
           cursor == IF page = {} THEN NoMessage ELSE Last(page)
<1>3. /\ task[t].at = "query"
      /\ walk' = [walk EXCEPT ![u].got = walk[u].got \cup page,
                              ![u].done = done,
                              ![u].cursor = cursor]
      /\ Return(t)
      /\ UNCHANGED <<row, member, clock, ever, online, pushed, since>>
      /\ UNCHANGED <<requests, moves, faults>>
  BY <1>1, <1>2 DEF ListQuery, data, bounds
<1>4. u \in Users /\ walk \in [Users -> Walk] /\ row \in [MessageIds -> Row]
  BY <1>1, <1>3 DEF IInv, Stored, Fits
<1>5. page \subseteq MessageIds
  BY DEF Earliest, Latest, Fetched, Live
<1>6. done \in BOOLEAN
  OBVIOUS
<1> HIDE DEF rows, page, done
<1>7. cursor \in MessageIds \cup {NoMessage}
  BY <1>4, <1>5, LastIsLast
<1> HIDE DEF cursor
<1>8. walk' \in [Users -> Walk]
  <2> DEFINE new == [w EXCEPT !.got = w.got \cup page, !.done = done,
                              !.cursor = cursor]
  <2>1. new \in Walk
    BY <1>2, <1>4, <1>5, <1>6, <1>7 DEF Walk
  <2>2. walk' = [walk EXCEPT ![u] = new]
    BY <1>2, <1>3
  <2> HIDE DEF new
  <2> QED
    BY <1>4, <2>1, <2>2
<1>9. NoMessageStep /\ Stored' /\ Counted'
  BY <1>3, <1>8 DEF NoMessageStep, IInv, Stored, Counted
<1> QED
  BY <1>3, <1>9, ReturnKeeps

LEMMA SyncKeeps ==
  ASSUME IInv, NEW t \in Tasks, SyncQuery(t)
  PROVE  IInv'
<1>1. PICK u : u = task[t].actor
  OBVIOUS
<1>2. PICK page \in SUBSET {m \in Live : row[m].at > task[t].time /\ u \in member} :
        Receive(u, page)
  BY <1>1 DEF SyncQuery
<1>3. /\ task[t].at = "query" /\ u \in Users /\ Return(t)
      /\ UNCHANGED <<data, online, walk, bounds>>
  BY <1>1 DEF SyncQuery, IInv, Fits
<1>4. page \in SUBSET Published /\ \A m \in page : u \in ever[m]
  BY <1>2 DEF Live, Published, IInv, History
<1>5. /\ Kept({}) /\ AllStay /\ History' /\ Stored' /\ Counted'
      /\ \A m \in MessageIds : row'[m] = row[m]
  BY <1>2, <1>3, <1>4, ReceiveKeeps
<1> QED
  BY <1>3, <1>5, LastStepKeeps

-----------------------------------------------------------------------------
(* ... and those who come and go.                                          *)

LEMMA OffUsers ==
  ASSUME IInv, NEW x \in Tasks, NEW u
  PROVE  [task[x] EXCEPT !.due = task[x].due \ {u}] \in Task
BY DEF IInv, Task

LEMMA DisconnectKeeps ==
  ASSUME IInv, NEW u \in Users, Disconnect(u)
  PROVE  IInv'
<1>1. /\ online' = online \ {u}
      /\ UNCHANGED <<row, member, clock, ever, pushed, since, walk>>
      /\ UNCHANGED <<requests, faults>>
  BY DEF Disconnect, data
<1>2. Stored' /\ Counted'
  <2>1. Counted'
    BY <1>1, CountStep, BoundsAreNaturals DEF IInv, Counted, Disconnect
  <2> QED
    BY <1>1, <2>1 DEF IInv, Stored
<1>3. Published' = Published
  BY <1>1 DEF Published
<1>4. Kept({}) /\ History'
  BY <1>1, <1>3 DEF Kept, IInv, History, PushedOnlyToMembers
<1>5. ASSUME NEW x \in Tasks
      PROVE  /\ task'[x] \in Task /\ Fits(x)'
             /\ \A m \in MessageIds : Committing(x, m)' <=> Committing(x, m)
  <2>1. task[x] \in Task
    BY DEF IInv
  <2>2. CASE task[x].op = "sync" /\ task[x].actor = u
    <3>1. task'[x] = IdleTask
      BY <2>2 DEF Disconnect
    <3>2. task[x].at # "commit"
      BY <2>2 DEF IInv, Fits, SendingSteps
    <3> QED
      BY <3>1, <3>2, IdleIsTask, IdleFits DEF Committing
  <2>3. CASE ~(task[x].op = "sync" /\ task[x].actor = u)
    <3>1. task'[x] = [task[x] EXCEPT !.due = task[x].due \ {u}]
      BY <2>3 DEF Disconnect
    <3>2. task[x].due \ {u} \subseteq online => task[x].due \ {u} \subseteq online'
      BY <1>1
    <3>3. Fits(x)'
      BY <1>1, <1>4, <3>1, <3>2, Rests
    <3>4. task'[x].at = task[x].at /\ task'[x].msg = task[x].msg
      BY <2>1, <3>1 DEF Task
    <3> QED
      BY <3>1, <3>3, <3>4, OffUsers DEF Committing
  <2> QED
    BY <2>2, <2>3
<1>6. task' \in [Tasks -> Task]
  <2>1. task' = [x \in Tasks |-> task'[x]]
    BY DEF Disconnect
  <2> QED
    BY <1>5, <2>1
<1>7. Owned'
  BY <1>1, <1>5, OwnersStay
<1> QED
  BY <1>2, <1>4, <1>5, <1>6, <1>7 DEF IInv

LEMMA JoinKeeps ==
  ASSUME IInv, NEW u \in Users, Join(u)
  PROVE  IInv'
<1>1. /\ member' = member \cup {u}
      /\ ever' = [m \in MessageIds |-> IF row[m].state \in {"live", "deleted"}
                                         THEN ever[m] \cup {u} ELSE ever[m]]
      /\ UNCHANGED <<row, clock, online, pushed, since, walk, task>>
      /\ UNCHANGED <<requests, faults>>
  BY DEF Join, client
<1>2. ever \in [MessageIds -> SUBSET Users] /\ member \subseteq Users
  BY DEF IInv, Stored
<1>3. /\ ever' \in [MessageIds -> SUBSET Users]
      /\ \A m \in MessageIds : ever[m] \subseteq ever'[m]
      /\ \A m \in Published : ever'[m] = ever[m] \cup {u}
  BY <1>1, <1>2 DEF Published
<1>4. Stored' /\ Counted'
  <2>1. Counted'
    BY <1>1, CountStep, BoundsAreNaturals DEF IInv, Counted, Join
  <2> QED
    BY <1>1, <1>2, <1>3, <2>1 DEF IInv, Stored
<1>5. Published' = Published /\ Published \subseteq MessageIds
  BY <1>1 DEF Published
<1>6. Kept({}) /\ AllStay
  BY <1>1, <1>3, <1>5 DEF Kept, AllStay
<1>7. History'
  <2>1. \A m \in Published' : member' \subseteq ever'[m]
    BY <1>1, <1>3, <1>5 DEF IInv, History
  <2>2. \A x \in Users : pushed'[x] \subseteq Published'
    BY <1>1, <1>5 DEF IInv, History
  <2>3. \A x \in Users : \A m \in pushed[x] : m \in MessageIds /\ x \in ever[m]
    BY DEF IInv, History, Stored, PushedOnlyToMembers
  <2>4. PushedOnlyToMembers'
    BY <1>1, <1>3, <2>3 DEF PushedOnlyToMembers
  <2> QED
    BY <2>1, <2>2, <2>4 DEF History
<1>8. \A t \in Tasks : Fits(t)'
  BY <1>1, <1>6, Stays
<1>9. Owned'
  BY <1>1, OwnersStay DEF Committing
<1>10. task' \in [Tasks -> Task]
  BY <1>1 DEF IInv
<1> QED
  BY <1>4, <1>7, <1>8, <1>9, <1>10 DEF IInv

LEMMA LeaveKeeps ==
  ASSUME IInv, NEW u \in Users, Leave(u)
  PROVE  IInv'
<1>1. /\ member' = member \ {u}
      /\ task' = [x \in Tasks |-> [task[x] EXCEPT !.due = task[x].due \ {u}]]
      /\ UNCHANGED <<row, clock, ever, online, pushed, since, walk>>
      /\ UNCHANGED <<requests, faults>>
  BY DEF Leave, client
<1>2. Stored' /\ Counted'
  <2>1. Counted'
    BY <1>1, CountStep, BoundsAreNaturals DEF IInv, Counted, Leave
  <2> QED
    BY <1>1, <2>1 DEF IInv, Stored
<1>3. Published' = Published
  BY <1>1 DEF Published
<1>4. Kept({})
  BY <1>1, <1>3 DEF Kept
<1>5. History'
  BY <1>1, <1>3 DEF IInv, History, PushedOnlyToMembers
<1>6. task' \in [Tasks -> Task]
  BY <1>1, OffUsers
<1>7. ASSUME NEW x \in Tasks
      PROVE  /\ Fits(x)'
             /\ \A m \in MessageIds : Committing(x, m)' <=> Committing(x, m)
  <2>1. task'[x] = [task[x] EXCEPT !.due = task[x].due \ {u}] /\ task[x] \in Task
    BY <1>1 DEF IInv
  <2>2. task[x].due \ {u} \subseteq member => task[x].due \ {u} \subseteq member'
    BY <1>1
  <2>3. Fits(x)'
    BY <1>1, <1>4, <2>1, <2>2, Rests
  <2>4. task'[x].at = task[x].at /\ task'[x].msg = task[x].msg
    BY <2>1 DEF Task
  <2> QED
    BY <2>3, <2>4 DEF Committing
<1>8. Owned'
  BY <1>1, <1>7, OwnersStay
<1> QED
  BY <1>2, <1>5, <1>6, <1>7, <1>8 DEF IInv

-----------------------------------------------------------------------------
(* The invariant holds in every state. *)

LEMMA InitHolds == Init => IInv
<1> SUFFICES ASSUME Init PROVE IInv
  OBVIOUS
<1>1. PICK old \in SUBSET MessageIds, sender \in Users :
        /\ row = [m \in MessageIds |->
                    IF m \in old
                      THEN [state |-> "live", sender |-> sender, at |-> m,
                            content |-> "first"]
                      ELSE NoRow]
        /\ clock = Max(old \cup {0})
        /\ ever = [m \in MessageIds |-> IF m \in old THEN member ELSE {}]
        /\ pushed = [u \in Users |-> IF u \in member THEN old ELSE {}]
        /\ since = [u \in Users |-> IF u \in member THEN Max(old \cup {0}) ELSE 0]
  BY DEF Init
<1>2. /\ member \subseteq Users /\ online = Users
      /\ walk = [u \in Users |-> NoWalk]
      /\ task = [t \in Tasks |-> IdleTask]
      /\ requests = 0 /\ moves = 0 /\ faults = 0
  BY DEF Init
<1>3. MaxTime \in Nat /\ MessageIds \subseteq 1..MaxTime
  BY BoundsAreNaturals, IdsAreNumbers
<1>4. Max(old \cup {0}) \in 0..MaxTime
  <2>1. old \cup {0} \in SUBSET (0..MaxTime) /\ old \cup {0} # {}
    BY <1>3
  <2> QED
    BY <1>3, <2>1, MaxIsMax
<1>5. NoRow \in Row /\ NoRow.state = "none"
  BY <1>3 DEF NoRow, Row
<1>6. \A m \in MessageIds :
        [state |-> "live", sender |-> sender, at |-> m, content |-> "first"] \in Row
  BY <1>3 DEF Row
<1>7. /\ row \in [MessageIds -> Row]
      /\ \A m \in old : row[m].state = "live"
      /\ \A m \in MessageIds \ old : row[m].state = "none"
  BY <1>1, <1>5, <1>6
<1>8. NoWalk \in Walk
  BY PagesAreNotEmpty DEF NoWalk, Walk
<1>9. Stored
  <2>1. /\ pushed \in [Users -> SUBSET MessageIds]
        /\ ever \in [MessageIds -> SUBSET Users]
    BY <1>1, <1>2
  <2>2. since \in [Users -> 0..MaxTime] /\ clock \in 0..MaxTime
    BY <1>1, <1>3, <1>4
  <2>3. walk \in [Users -> Walk]
    BY <1>2, <1>8
  <2> QED
    BY <1>2, <1>7, <2>1, <2>2, <2>3 DEF Stored
<1>10. Counted
  BY <1>2, BoundsAreNaturals DEF Counted
<1>11. Published = old
  BY <1>7 DEF Published
<1>12. History
  BY <1>1, <1>11 DEF History, PushedOnlyToMembers
<1>13. /\ task \in [Tasks -> Task]
       /\ \A t \in Tasks : task[t].at = "idle" /\ task[t].op = "none"
  BY <1>2, IdleIsTask
<1>14. Owned
  BY <1>7, <1>13 DEF Owned, Committing
<1>15. \A t \in Tasks : Fits(t)
  BY <1>13 DEF Fits, SendingSteps
<1> QED
  BY <1>9, <1>10, <1>12, <1>13, <1>14, <1>15 DEF IInv

LEMMA QuietKeeps ==
  ASSUME IInv, UNCHANGED vars
  PROVE  IInv'
<1>1. NoMessageStep /\ task' = task
      /\ UNCHANGED <<clock, online, since, walk, requests, moves, faults>>
  BY DEF vars, data, client, bounds, NoMessageStep
<1>2. Stored' /\ Counted' /\ task' \in [Tasks -> Task]
  BY <1>1 DEF IInv, Stored, Counted, NoMessageStep
<1>3. Kept({}) /\ AllStay /\ History'
  BY <1>1, NoMessageKeeps
<1>4. \A t \in Tasks : Fits(t)'
  BY <1>1, <1>3, Stays
<1>5. Owned'
  BY <1>1, OwnersStay DEF NoMessageStep, Committing
<1> QED
  BY <1>2, <1>3, <1>4, <1>5 DEF IInv

LEMMA StepKeeps == IInv /\ [Next]_vars => IInv'
<1> SUFFICES ASSUME IInv, [Next]_vars PROVE IInv'
  OBVIOUS
<1>1. CASE UNCHANGED vars
  BY <1>1, QuietKeeps
<1>2. ASSUME NEW t \in Tasks, NEW u \in Users,
             Request(t, u) \/ NextPage(t, u) \/ Connect(t, u)
      PROVE  IInv'
  BY <1>2, ArriveKeeps
<1>3. ASSUME NEW t \in Tasks, TaskStep(t)
      PROVE  IInv'
  BY <1>3, BeginKeeps, CheckKeeps, InsertKeeps, CommitKeeps, NotifyKeeps,
     PublishKeeps, EditKeeps, DeleteKeeps, ListKeeps, SyncKeeps DEF TaskStep
<1>4. ASSUME NEW t \in Tasks, QueryFails(t)
      PROVE  IInv'
  BY <1>4, FailKeeps
<1>5. ASSUME NEW u \in Users,
             StartWalk(u) \/ Disconnect(u) \/ Join(u) \/ Leave(u)
      PROVE  IInv'
  BY <1>5, StartWalkKeeps, DisconnectKeeps, JoinKeeps, LeaveKeeps
<1> QED
  BY <1>1, <1>2, <1>3, <1>4, <1>5 DEF Next

LEMMA Invariant == Spec => []IInv
BY InitHolds, StepKeeps, PTL DEF Spec

-----------------------------------------------------------------------------
(* The theorems. *)

LEMMA OneOwnerOfARow ==
  ASSUME IInv, NEW m \in MessageIds, row[m].state = "open"
  PROVE  Cardinality({t \in Tasks : task[t].at = "commit" /\ task[t].msg = m}) = 1
<1>1. PICK t \in Tasks : Committing(t, m)
  BY DEF IInv, Owned
<1>2. {u \in Tasks : task[u].at = "commit" /\ task[u].msg = m} = {t}
  BY <1>1 DEF IInv, Owned, Committing
<1> QED
  BY <1>2, FS_Singleton

(* Every variable of the chat keeps its type, and the row of a transaction *)
(* that has not committed belongs to exactly one request.                  *)
THEOREM MessageTypesHold == Spec => []TypeOK
<1>1. IInv => TypeOK
  BY OneOwnerOfARow DEF IInv, Stored, Counted, TypeOK
<1> QED
  BY <1>1, Invariant, PTL

(* What a socket brings, by the publication of a message or by a sync,     *)
(* is for a user who has been a member since the message was sent.         *)
THEOREM OnlyMembersAreTold == Spec => []PushedOnlyToMembers
<1>1. IInv => PushedOnlyToMembers
  BY DEF IInv, History
<1> QED
  BY <1>1, Invariant, PTL

(* The steps that write a row. *)
LEMMA RowWriters ==
  ASSUME [Next]_vars
  PROVE  row' = row \/ \E t \in Tasks : \/ Insert(t) \/ Commit(t) \/ QueryFails(t)
                                       \/ edit_message(t) \/ delete_message(t)
<1>1. ASSUME NEW t \in Tasks, TaskStep(t)
      PROVE  \/ row' = row
             \/ Insert(t) \/ Commit(t) \/ edit_message(t) \/ delete_message(t)
  BY <1>1 DEF TaskStep, Begin, ensure_active_membership, get_chat_participants,
     Notify, Publish, verify_participant, FindMessage, ListQuery, SyncQuery, data
<1>2. ASSUME NEW t \in Tasks, NEW u \in Users,
             Request(t, u) \/ NextPage(t, u) \/ Connect(t, u)
      PROVE  row' = row
  BY <1>2 DEF Request, NextPage, Connect, data
<1>3. ASSUME NEW u \in Users,
             StartWalk(u) \/ Disconnect(u) \/ Join(u) \/ Leave(u)
      PROVE  row' = row
  BY <1>3 DEF StartWalk, Disconnect, Join, Leave, data
<1> QED
  BY <1>1, <1>2, <1>3 DEF Next, vars, data

LEMMA DeletedStays ==
  ASSUME IInv, [Next]_vars, NEW m \in MessageIds, row[m].state = "deleted"
  PROVE  row'[m].state = "deleted"
<1>1. row \in [MessageIds -> Row] /\ m \in Published
  BY DEF IInv, Stored, Published
<1>2. CASE row' = row
  BY <1>2
<1>3. ASSUME NEW t \in Tasks, Insert(t)
      PROVE  row'[m].state = "deleted"
  BY <1>1, <1>3 DEF Insert, NoRow
<1>4. ASSUME NEW t \in Tasks, Commit(t) \/ QueryFails(t), row' # row
      PROVE  row'[m].state = "deleted"
  <2>1. PICK n \in MessageIds : n = task[t].msg /\ row[n].state = "open"
    BY <1>4 DEF Commit, QueryFails, IInv, Fits
  <2>2. m # n
    BY <2>1
  <2> QED
    BY <1>1, <1>4, <2>1, <2>2 DEF Commit, QueryFails
<1>5. ASSUME NEW t \in Tasks, edit_message(t)
      PROVE  row'[m].state = "deleted"
  BY <1>1, <1>5 DEF edit_message, Row
<1>6. ASSUME NEW t \in Tasks, delete_message(t)
      PROVE  row'[m].state = "deleted"
  BY <1>1, <1>6 DEF delete_message, Live, Row
<1> QED
  BY <1>2, <1>3, <1>4, <1>5, <1>6, RowWriters

(* A deleted message does not come back, although edit_message writes by   *)
(* the id alone and may do so after the deletion.                          *)
THEOREM DeletedStaysDeleted == Spec => DeletedIsFinal
<1>1. IInv /\ [Next]_vars =>
        [\A m \in MessageIds :
           row[m].state = "deleted" => row'[m].state = "deleted"]_vars
  BY DeletedStays
<1> QED
  BY <1>1, Invariant, PTL DEF Spec, DeletedIsFinal

LEMMA OnlySenders ==
  ASSUME IInv, [Next]_vars, NEW m \in MessageIds,
         row[m].state \in {"live", "deleted"}, row'[m] # row[m]
  PROVE  /\ row'[m].sender = row[m].sender
         /\ row'[m].at = row[m].at
         /\ \E t \in Tasks : /\ task[t].msg = m
                             /\ task[t].op \in {"edit", "delete"}
                             /\ task[t].actor = row[m].sender
<1>1. row \in [MessageIds -> Row]
  BY DEF IInv, Stored
<1>2. ASSUME NEW t \in Tasks, Insert(t)
      PROVE  FALSE
  BY <1>1, <1>2 DEF Insert, NoRow
<1>3. ASSUME NEW t \in Tasks, Commit(t) \/ QueryFails(t)
      PROVE  FALSE
  <2>1. PICK n \in MessageIds : n = task[t].msg /\ row[n].state = "open"
    BY <1>3 DEF Commit, QueryFails, IInv, Fits
  <2>2. m # n
    BY <2>1
  <2> QED
    BY <1>1, <1>3, <2>1, <2>2 DEF Commit, QueryFails
<1>4. ASSUME NEW t \in Tasks, edit_message(t)
      PROVE  /\ row'[m].sender = row[m].sender /\ row'[m].at = row[m].at
             /\ task[t].msg = m /\ task[t].op = "edit"
             /\ task[t].actor = row[m].sender
  <2>1. /\ task[t].at = "write" /\ task[t].op = "edit"
        /\ row' = [row EXCEPT ![task[t].msg].content = "edited"]
    BY <1>4 DEF edit_message
  <2>2. task[t].msg = m
    BY <1>1, <2>1
  <2> QED
    BY <1>1, <2>1, <2>2 DEF IInv, Fits, Row
<1>5. ASSUME NEW t \in Tasks, delete_message(t)
      PROVE  /\ row'[m].sender = row[m].sender /\ row'[m].at = row[m].at
             /\ task[t].msg = m /\ task[t].op = "delete"
             /\ task[t].actor = row[m].sender
  <2>1. task[t].op = "delete"
    BY <1>5 DEF delete_message
  <2>2. PICK n : n = task[t].msg
    OBVIOUS
  <2>3. /\ row[n].sender = task[t].actor
        /\ row' = [row EXCEPT ![n].state = "deleted", ![n].content = "none"]
    BY <1>5, <2>2 DEF delete_message
  <2>4. m = n
    BY <1>1, <2>3
  <2> QED
    BY <1>1, <2>1, <2>2, <2>3, <2>4 DEF Row
<1> QED
  BY <1>2, <1>3, <1>4, <1>5, RowWriters

(* However a membership, a deletion and other edits come between its three *)
(* queries and its UPDATE by the id, an edit is of the sender's, and so is *)
(* a deletion; and neither touches the sender or the time.                 *)
THEOREM OnlySendersChange == Spec => OnlyTheSenderChanges
<1>1. IInv /\ [Next]_vars =>
        [\A m \in MessageIds :
           row[m].state \in {"live", "deleted"} /\ row'[m] # row[m] =>
             /\ row'[m].sender = row[m].sender
             /\ row'[m].at = row[m].at
             /\ \E t \in Tasks : /\ task[t].msg = m
                                 /\ task[t].op \in {"edit", "delete"}
                                 /\ task[t].actor = row[m].sender]_vars
  BY OnlySenders
<1> QED
  BY <1>1, Invariant, PTL DEF Spec, OnlyTheSenderChanges

(* A step takes a send to its end only if it has reached whoever was due.  *)
LEMMA HeardAtTheEnd ==
  ASSUME IInv, [Next]_vars, NEW t \in Tasks,
         task[t].at \in {"members", "notify"}, task'[t].at = "idle",
         faults' = faults
  PROVE  \A u \in task[t].due : task[t].msg \in pushed'[u]
<1>1. /\ task[t] \in Task /\ task[t].op = "send" /\ task \in [Tasks -> Task]
      /\ task[t].msg \in Published /\ task[t].msg \in MessageIds
      /\ faults \in Nat /\ task[t].due \subseteq online
  BY BoundsAreNaturals DEF IInv, Fits, SendingSteps, Counted, Published
<1>2. CASE get_chat_participants(t)
  <2>1. task[t].at = "members"
    BY <1>2 DEF get_chat_participants, Notify
  <2>2. task[t].due \subseteq member \ {task[t].actor}
    BY <2>1 DEF IInv, Fits
  <2>3. CASE member \ {task[t].actor} = {}
    BY <2>2, <2>3
  <2>4. CASE member \ {task[t].actor} # {}
    <3> DEFINE others == member \ {task[t].actor}
    <3>1. task' = [task EXCEPT ![t].at = "notify", ![t].rest = others]
      BY <1>2, <2>4 DEF get_chat_participants, Notify
    <3> HIDE DEF others
    <3>2. task'[t].at = "notify"
      BY <1>1, <3>1 DEF Task
    <3> QED
      BY <3>2
  <2> QED
    BY <2>3, <2>4
<1>3. CASE Publish(t)
  <2>1. PICK u \in task[t].rest :
          /\ IF task[t].rest = {u}
               THEN Return(t)
               ELSE task' = [task EXCEPT ![t].rest = task[t].rest \ {u}]
          /\ IF u \in online THEN Receive(u, {task[t].msg})
                             ELSE UNCHANGED <<pushed, since>>
    BY <1>3 DEF Publish
  <2>2. task[t].rest = {u}
    <3>1. CASE task' = [task EXCEPT ![t].rest = task[t].rest \ {u}]
      <4>1. task'[t].at = task[t].at
        BY <1>1, <3>1 DEF Task
      <4> QED
        BY <4>1
    <3> QED
      BY <2>1, <3>1
  <2>3. /\ \A x \in task[t].due : x = u \/ task[t].msg \in pushed[x]
        /\ u \in Users
    BY <1>1, <1>3, <2>1, <2>2 DEF Publish, IInv, Fits, Task
  <2>4. /\ u \in online => task[t].msg \in pushed'[u]
        /\ \A x \in Users \ {u} : pushed'[x] = pushed[x]
    <3>1. CASE u \in online
      <4>1. {task[t].msg} \in SUBSET MessageIds
        BY <1>1
      <4> QED
        BY <2>1, <2>3, <3>1, <4>1, ReceiveTypes
    <3>2. CASE u \notin online
      BY <2>1, <3>2
    <3> QED
      BY <3>1, <3>2
  <2>5. task[t].due \subseteq Users
    BY <1>1 DEF Task
  <2> QED
    BY <1>1, <2>3, <2>4, <2>5
<1>4. CASE \E s \in Tasks : QueryFails(s)
  BY <1>1, <1>4 DEF QueryFails
<1>5. CASE \E u \in Users : Disconnect(u)
  <2>1. PICK u : task' = [x \in Tasks |->
                            IF task[x].op = "sync" /\ task[x].actor = u
                              THEN IdleTask
                              ELSE [task[x] EXCEPT !.due = task[x].due \ {u}]]
    BY <1>5 DEF Disconnect
  <2>2. task'[t] = [task[t] EXCEPT !.due = task[t].due \ {u}]
    BY <1>1, <2>1
  <2>3. task'[t].at = task[t].at
    BY <1>1, <2>2 DEF Task
  <2> QED
    BY <2>3
<1>6. CASE \E u \in Users : Leave(u)
  <2>1. PICK u : task' = [x \in Tasks |-> [task[x] EXCEPT !.due = task[x].due \ {u}]]
    BY <1>6 DEF Leave
  <2>2. task'[t].at = task[t].at
    BY <1>1, <2>1 DEF Task
  <2> QED
    BY <2>2
<1>7. CASE task'[t] = task[t]
  BY <1>7
<1>8. \/ task'[t] = task[t]
      \/ get_chat_participants(t) \/ Publish(t)
      \/ \E s \in Tasks : QueryFails(s)
      \/ \E u \in Users : Disconnect(u) \/ Leave(u)
  <2>1. ASSUME NEW s \in Tasks \ {t}, TaskStep(s)
        PROVE  task'[t] = task[t]
    <3>1. \E new : task' = [task EXCEPT ![s] = new]
      <4>1. CASE Return(s)
        BY <4>1 DEF Return
      <4>2. CASE \E step : Goto(s, step)
        BY <4>2 DEF Goto
      <4>3. CASE Begin(s)
        BY <4>3 DEF Begin
      <4>4. CASE Insert(s)
        BY <4>4 DEF Insert
      <4>5. CASE Commit(s)
        BY <4>5 DEF Commit
      <4>6. CASE get_chat_participants(s) /\ ~Return(s)
        BY <4>6 DEF get_chat_participants, Notify
      <4>7. CASE Publish(s) /\ ~Return(s)
        BY <4>7 DEF Publish
      <4> QED
        BY <2>1, <4>1, <4>2, <4>3, <4>4, <4>5, <4>6, <4>7
        DEF TaskStep, ensure_active_membership, verify_participant, FindMessage,
            edit_message, delete_message, ListQuery, SyncQuery
    <3> QED
      BY <1>1, <3>1
  <2>2. ASSUME TaskStep(t)
        PROVE  get_chat_participants(t) \/ Publish(t)
    BY <2>2 DEF TaskStep, Begin, ensure_active_membership, Insert, Commit,
       verify_participant, FindMessage, edit_message, delete_message, ListQuery,
       SyncQuery
  <2>3. ASSUME NEW s \in Tasks, NEW u \in Users,
               Request(s, u) \/ NextPage(s, u) \/ Connect(s, u)
        PROVE  task'[t] = task[t]
    <3>1. task[s].at = "idle" /\ \E new : task' = [task EXCEPT ![s] = new]
      BY <2>3 DEF Request, NextPage, Connect, Spawn
    <3> QED
      BY <1>1, <3>1
  <2>4. ASSUME NEW u \in Users, StartWalk(u) \/ Join(u)
        PROVE  task'[t] = task[t]
    BY <2>4 DEF StartWalk, Join
  <2> QED
    BY <2>1, <2>2, <2>3, <2>4 DEF Next, vars
<1> QED
  BY <1>2, <1>3, <1>4, <1>5, <1>6, <1>7, <1>8

(* A send that returns without a failure has reached every other member    *)
(* that stayed: in the group, and online.                                  *)
THEOREM AcceptedSendsAreHeard == Spec => AcceptedIsHeard
<1>1. IInv /\ [Next]_vars =>
        [\A t \in Tasks :
           /\ task[t].at \in {"members", "notify"}
           /\ task'[t].at = "idle"
           /\ faults' = faults
           => \A u \in task[t].due : task[t].msg \in pushed'[u]]_vars
  BY HeardAtTheEnd
<1> QED
  BY <1>1, Invariant, PTL DEF Spec, AcceptedIsHeard

-----------------------------------------------------------------------------
(***************************************************************************)
(* The history read forwards. Whatever of it a walk has not brought yet is *)
(* still live and behind the cursor, as long as pages are to come.         *)
(***************************************************************************)
WalkFits(u) ==
  LET w == walk[u] IN
    w.dir = "after" /\ w.limit < PageMax =>
      /\ w.must \subseteq Published
      /\ w.cursor \in Published \cup {NoMessage}
      /\ \A m \in w.must \cap Live :
           \/ m \in w.got
           \/ ~w.done /\ (w.cursor # NoMessage => Before(w.cursor, m))

WalksFit == \A u \in Users : WalkFits(u)

(* The order of the history is total, and every part of it has a first     *)
(* message, as it has a last one.                                          *)

LEMMA TimesAreNumbers ==
  ASSUME row \in [MessageIds -> Row]
  PROVE  /\ MaxTime \in Nat /\ MessageIds \subseteq 1..MaxTime
         /\ \A m \in MessageIds : row[m].at \in 0..MaxTime
BY BoundsAreNaturals, IdsAreNumbers DEF Row

LEMMA BeforeIsTotal ==
  ASSUME row \in [MessageIds -> Row]
  PROVE  /\ \A m \in MessageIds : ~Before(m, m)
         /\ \A m, n \in MessageIds : m = n \/ Before(m, n) \/ Before(n, m)
         /\ \A m, n \in MessageIds : Before(m, n) => ~Before(n, m)
         /\ \A k, m, n \in MessageIds :
              Before(k, m) /\ Before(m, n) => Before(k, n)
<1>1. \A m \in MessageIds : m \in Nat /\ row[m].at \in Nat
  BY TimesAreNumbers
<1> QED
  BY <1>1 DEF Before

LEMMA LeastNumber ==
  ASSUME NEW S \in SUBSET Nat, S # {}
  PROVE  \E x \in S : \A y \in S : x <= y
<1> DEFINE less == {ss \in Nat \X Nat : ss[1] < ss[2]}
<1>1. IsWellFoundedOn(less, Nat)
  BY NatLessThanWellFounded DEF OpToRel
<1> HIDE DEF less
<1>2. PICK x \in S : \A y \in S : <<y, x>> \notin less
  BY <1>1, WFMin
<1>3. \A y \in S : ~(y < x)
  BY <1>2 DEF less
<1> QED
  BY <1>3

LEMMA FirstIsThere ==
  ASSUME row \in [MessageIds -> Row], NEW S \in SUBSET MessageIds, S # {}
  PROVE  \E f \in S : \A k \in S : ~Before(k, f)
<1>1. \A m \in S : m \in Nat /\ row[m].at \in Nat
  BY TimesAreNumbers
<1> DEFINE times == {row[m].at : m \in S}
<1>2. PICK time \in times : \A x \in times : time <= x
  <2>1. times \in SUBSET Nat /\ times # {}
    BY <1>1
  <2> HIDE DEF times
  <2> QED
    BY <2>1, LeastNumber
<1> DEFINE earliest == {m \in S : row[m].at = time}
<1>3. PICK f \in earliest : \A k \in earliest : f <= k
  <2>1. earliest \in SUBSET Nat /\ earliest # {}
    BY <1>1
  <2> HIDE DEF earliest
  <2> QED
    BY <2>1, LeastNumber
<1>4. ASSUME NEW k \in S PROVE ~Before(k, f)
  <2>1. time <= row[k].at /\ row[f].at = time
    BY <1>2
  <2>2. row[k].at = time => f <= k
    BY <1>3
  <2>3. f \in Nat /\ k \in Nat /\ time \in Nat /\ row[k].at \in Nat
    BY <1>1
  <2> QED
    BY <2>1, <2>2, <2>3 DEF Before
<1> QED
  BY <1>4

(* The messages of S before m, by which Earliest counts. *)
Preceding(S, m) == {k \in S : Before(k, m)}

LEMMA PrecedingIsFinite ==
  ASSUME NEW S \in SUBSET MessageIds, NEW m
  PROVE  /\ IsFiniteSet(Preceding(S, m))
         /\ Cardinality(Preceding(S, m)) \in Nat
<1>1. IsFiniteSet(1..MaxTime)
  BY BoundsAreNaturals, FS_Interval
<1>2. Preceding(S, m) \subseteq 1..MaxTime
  BY IdsAreNumbers DEF Preceding
<1> QED
  BY <1>1, <1>2, FS_Subset, FS_CardinalityType

LEMMA EarliestIsAnInitialPart ==
  ASSUME row \in [MessageIds -> Row],
         NEW S \in SUBSET MessageIds, NEW n \in Nat,
         NEW m \in Earliest(S, n), NEW k \in S, Before(k, m)
  PROVE  k \in Earliest(S, n)
<1>1. m \in S /\ Cardinality(Preceding(S, m)) < n
  BY DEF Earliest, Preceding
<1>2. Preceding(S, k) \subseteq Preceding(S, m)
  BY <1>1, BeforeIsTotal DEF Preceding
<1>3. Cardinality(Preceding(S, k)) <= Cardinality(Preceding(S, m))
  BY <1>2, PrecedingIsFinite, FS_Subset
<1>4. Cardinality(Preceding(S, k)) < n
  BY <1>1, <1>3, PrecedingIsFinite
<1> QED
  BY <1>4 DEF Earliest, Preceding

LEMMA RestIsLater ==
  ASSUME row \in [MessageIds -> Row],
         NEW S \in SUBSET MessageIds, NEW n \in Nat,
         NEW m \in Earliest(S, n), NEW k \in S, k \notin Earliest(S, n)
  PROVE  Before(m, k)
<1>1. m \in S
  BY DEF Earliest
<1> QED
  BY <1>1, EarliestIsAnInitialPart, BeforeIsTotal

(* A page of a history that is not empty is not empty. *)
LEMMA PageIsNotEmpty ==
  ASSUME row \in [MessageIds -> Row], NEW S \in SUBSET MessageIds, S # {},
         NEW n \in Nat \ {0}
  PROVE  Earliest(S, n) # {}
<1>1. PICK f \in S : \A k \in S : ~Before(k, f)
  BY FirstIsThere
<1>2. {k \in S : Before(k, f)} = {}
  BY <1>1
<1>3. f \in Earliest(S, n)
  BY <1>2, FS_EmptySet DEF Earliest
<1> QED
  BY <1>3

(* What does not fit into n has a message that n others precede. *)
LEMMA NextOne ==
  ASSUME row \in [MessageIds -> Row], NEW S \in SUBSET MessageIds,
         NEW n \in Nat \ {0}, NEW m \in S, m \notin Earliest(S, n)
  PROVE  \E x \in S : Cardinality(Preceding(S, x)) = n
<1> DEFINE later == {k \in S : Cardinality(Preceding(S, k)) >= n}
<1>1. m \in later
  <2>1. ~(Cardinality(Preceding(S, m)) < n)
    BY DEF Earliest, Preceding
  <2>2. Cardinality(Preceding(S, m)) \in Nat
    BY PrecedingIsFinite
  <2> QED
    BY <2>1, <2>2
<1>2. PICK x \in later : \A k \in later : ~Before(k, x)
  BY <1>1, FirstIsThere
<1> DEFINE before == Preceding(S, x)
<1>3. Cardinality(before) >= n /\ before # {}
  BY <1>2, FS_EmptySet
<1>4. PICK y \in before : \A k \in before : k = y \/ Before(k, y)
  <2>1. before \subseteq MessageIds
    BY DEF Preceding
  <2> HIDE DEF before
  <2> QED
    BY <1>3, <2>1, LastIsLast
<1>5. y \in S /\ x \in S /\ Before(y, x)
  BY <1>4 DEF Preceding
<1>6. before = Preceding(S, y) \cup {y} /\ y \notin Preceding(S, y)
  BY <1>4, <1>5, BeforeIsTotal DEF Preceding
<1>7. Cardinality(before) = Cardinality(Preceding(S, y)) + 1
  BY <1>6, PrecedingIsFinite, FS_AddElement
<1>8. ~(Cardinality(Preceding(S, y)) >= n)
  BY <1>2, <1>5
<1>9. Cardinality(before) = n
  BY <1>3, <1>7, <1>8, PrecedingIsFinite
<1> QED
  BY <1>5, <1>9

(* One row more than the page is enough to see that there are more, and    *)
(* then all that is left is behind the last row of the page.               *)
LEMMA PageThenRest ==
  ASSUME row \in [MessageIds -> Row], NEW S \in SUBSET MessageIds,
         NEW n \in Nat \ {0},
         NEW m \in S, m \notin Earliest(Earliest(S, n + 1), n)
  PROVE  /\ Earliest(Earliest(S, n + 1), n) # Earliest(S, n + 1)
         /\ Earliest(Earliest(S, n + 1), n) # {}
         /\ Before(Last(Earliest(Earliest(S, n + 1), n)), m)
<1> DEFINE rows == Earliest(S, n + 1)
           page == Earliest(rows, n)
<1>1. rows \in SUBSET S /\ page \in SUBSET rows /\ rows \in SUBSET MessageIds
  BY DEF Earliest
<1>2. rows # {} /\ page # {}
  <2>1. rows # {}
    BY PageIsNotEmpty
  <2> HIDE DEF rows
  <2> QED
    BY <1>1, <2>1, PageIsNotEmpty
<1>3. Last(page) \in page
  <2> HIDE DEF page, rows
  <2> QED
    BY <1>1, <1>2, LastIsLast
<1>4. CASE m \in rows
  <2>1. Before(Last(page), m)
    <3>1. m \notin page
      OBVIOUS
    <3> HIDE DEF rows
    <3> QED
      BY <1>1, <1>3, <1>4, <3>1, RestIsLater
  <2> QED
    BY <1>2, <1>4, <2>1
<1>5. CASE m \notin rows
  <2>1. Before(Last(page), m)
    <3>1. Last(page) \in rows
      BY <1>1, <1>3
    <3> HIDE DEF page
    <3> QED
      BY <1>5, <3>1, RestIsLater
  <2>2. m \notin Earliest(S, n)
    <3>1. Cardinality(Preceding(S, m)) \in Nat
          /\ ~(Cardinality(Preceding(S, m)) < n + 1)
      BY <1>5, PrecedingIsFinite DEF Earliest, Preceding
    <3> QED
      BY <3>1 DEF Earliest, Preceding
  <2>3. PICK x \in S : Cardinality(Preceding(S, x)) = n
    BY <2>2, NextOne
  <2>4. x \in rows
    BY <2>3 DEF Earliest, Preceding
  <2>5. Preceding(rows, x) = Preceding(S, x)
    BY <1>1, <2>4, EarliestIsAnInitialPart DEF Preceding
  <2>6. x \notin page
    <3> HIDE DEF rows
    <3> QED
      BY <2>3, <2>5 DEF Earliest, Preceding
  <2> QED
    BY <1>2, <2>1, <2>4, <2>6
<1> QED
  BY <1>4, <1>5

LEMMA NoPublishedLost ==
  ASSUME IInv, [Next]_vars, NEW m \in Published
  PROVE  m \in Published'
<1>1. /\ m \in MessageIds /\ row[m].state \in {"live", "deleted"}
      /\ row \in [MessageIds -> Row]
  BY DEF Published, IInv, Stored
<1>2. CASE row' = row
  BY <1>1, <1>2 DEF Published
<1>3. ASSUME NEW t \in Tasks, Insert(t)
      PROVE  row'[m] = row[m]
  BY <1>1, <1>3 DEF Insert, NoRow
<1>4. ASSUME NEW t \in Tasks, Commit(t) \/ QueryFails(t), row' # row
      PROVE  row'[m] = row[m]
  <2>1. PICK n \in MessageIds : n = task[t].msg /\ row[n].state = "open"
    BY <1>4 DEF Commit, QueryFails, IInv, Fits
  <2>2. m # n
    BY <1>1, <2>1
  <2> QED
    BY <1>1, <1>4, <2>1, <2>2 DEF Commit, QueryFails
<1>5. ASSUME NEW t \in Tasks, edit_message(t)
      PROVE  row'[m].state = row[m].state
  BY <1>1, <1>5 DEF edit_message, Row
<1>6. ASSUME NEW t \in Tasks, delete_message(t)
      PROVE  row'[m].state \in {"live", "deleted"}
  <2>1. PICK n : n = task[t].msg
    OBVIOUS
  <2>2. \/ row' = row
        \/ row' = [row EXCEPT ![n].state = "deleted", ![n].content = "none"]
    BY <1>6, <2>1 DEF delete_message
  <2> QED
    BY <1>1, <2>2 DEF Row
<1> QED
  BY <1>1, <1>2, <1>3, <1>4, <1>5, <1>6, RowWriters DEF Published

LEMMA PublishedStays ==
  ASSUME IInv, [Next]_vars, NEW m \in Published
  PROVE  /\ m \in Published'
         /\ row'[m].at = row[m].at
         /\ m \in Live' => m \in Live
<1>1. m \in MessageIds /\ row[m].state \in {"live", "deleted"}
  BY DEF Published
<1>2. row'[m].at = row[m].at
  BY <1>1, OnlySenders
<1>3. m \in Live' => m \in Live
  BY <1>1, DeletedStays DEF Live
<1>4. m \in Published'
  BY NoPublishedLost
<1> QED
  BY <1>2, <1>3, <1>4

(* A walk that a step leaves alone still fits. *)
LEMMA WalkStays ==
  ASSUME IInv, [Next]_vars, NEW u \in Users, WalkFits(u), walk'[u] = walk[u]
  PROVE  WalkFits(u)'
<1> DEFINE w == walk[u]
<1> SUFFICES ASSUME w.dir = "after", w.limit < PageMax
             PROVE  /\ w.must \subseteq Published'
                    /\ w.cursor \in Published' \cup {NoMessage}
                    /\ \A m \in w.must \cap Live' :
                         \/ m \in w.got
                         \/ /\ ~w.done
                            /\ w.cursor # NoMessage =>
                                 \/ row'[w.cursor].at < row'[m].at
                                 \/ /\ row'[w.cursor].at = row'[m].at
                                    /\ w.cursor < m
  BY DEF WalkFits, Before
<1>1. /\ w.must \subseteq Published
      /\ w.cursor \in Published \cup {NoMessage}
      /\ \A m \in w.must \cap Live :
           \/ m \in w.got
           \/ ~w.done /\ (w.cursor # NoMessage => Before(w.cursor, m))
  BY DEF WalkFits
<1> HIDE DEF w
<1>2. ASSUME NEW m \in w.must \cap Live', m \notin w.got
      PROVE  /\ ~w.done
             /\ w.cursor # NoMessage =>
                  \/ row'[w.cursor].at < row'[m].at
                  \/ /\ row'[w.cursor].at = row'[m].at
                     /\ w.cursor < m
  <2>1. m \in Live /\ row'[m].at = row[m].at
    BY <1>1, <1>2, PublishedStays
  <2>2. w.cursor # NoMessage => row'[w.cursor].at = row[w.cursor].at
    BY <1>1, PublishedStays
  <2> QED
    BY <1>1, <1>2, <2>1, <2>2 DEF Before
<1> QED
  BY <1>1, <1>2, PublishedStays

(* The walk that is set out on, and the one that goes on. *)
LEMMA StartFits ==
  ASSUME IInv, NEW u \in Users, StartWalk(u)
  PROVE  WalkFits(u)' /\ \A v \in Users \ {u} : walk'[v] = walk[v]
<1>1. PICK dir \in {"before", "after"}, limit \in 1..PageMax :
        walk' = [walk EXCEPT ![u] =
                   [dir |-> dir, limit |-> limit, cursor |-> NoMessage,
                    must |-> Live, got |-> {}, done |-> FALSE]]
  BY DEF StartWalk
<1>2. row' = row
  BY DEF StartWalk, data
<1>3. walk \in [Users -> Walk]
  BY DEF IInv, Stored
<1>4. /\ walk'[u].cursor = NoMessage
      /\ walk'[u].must = Live
      /\ ~walk'[u].done
      /\ \A v \in Users \ {u} : walk'[v] = walk[v]
  BY <1>1, <1>3
<1>5. Live \subseteq Published'
  BY <1>2 DEF Live, Published
<1> QED
  BY <1>4, <1>5 DEF WalkFits

LEMMA ListFits ==
  ASSUME IInv, NEW t \in Tasks, ListQuery(t), WalkFits(task[t].actor)
  PROVE  \A v \in Users :
           WalkFits(v)' \/ walk'[v] = walk[v]
<1>1. PICK u \in Users : u = task[t].actor
  BY DEF ListQuery, IInv, Fits
<1>2. PICK w \in Walk : w = walk[u]
  BY DEF IInv, Stored
<1> DEFINE ahead == {m \in Live : w.cursor # NoMessage => Before(w.cursor, m)}
           rows == Fetched(w.dir, w.cursor, Min({w.limit + 1, PageMax}))
           page == Earliest(rows, w.limit)
           done == rows = page
           cursor == IF page = {} THEN NoMessage ELSE Last(page)
<1>3. /\ walk' = [walk EXCEPT ![u].got = walk[u].got \cup page,
                              ![u].done = done,
                              ![u].cursor = cursor]
      /\ row' = row
  BY <1>1, <1>2 DEF ListQuery, data
<1>4. row \in [MessageIds -> Row] /\ walk \in [Users -> Walk]
  BY DEF IInv, Stored
<1>5. WalkFits(u)
  BY <1>1
<1>6. ASSUME w.dir = "after", w.limit < PageMax
      PROVE  /\ cursor \in Published \cup {NoMessage}
             /\ \A m \in ahead \ page :
                  ~done /\ (cursor # NoMessage => Before(cursor, m))
  <2>1. w.limit \in Nat \ {0} /\ PageMax \in Nat
    BY <1>2, PagesAreNotEmpty DEF Walk
  <2>2. Min({w.limit + 1, PageMax}) = w.limit + 1
    <3>1. w.limit + 1 <= PageMax
      BY <1>6, <2>1
    <3> QED
      BY <2>1, <3>1 DEF Min
  <2>3. rows = Earliest(ahead, w.limit + 1)
    BY <1>6, <2>2 DEF Fetched
  <2>4. ahead \in SUBSET MessageIds
    BY DEF Live
  <2>5. page \in SUBSET Live
    BY <2>3 DEF Earliest
  <2> HIDE DEF ahead, rows
  <2>6. page # {} => Last(page) \in page
    <3>1. page \in SUBSET MessageIds
      BY <2>5 DEF Live
    <3> HIDE DEF page
    <3> QED
      BY <1>4, <3>1, LastIsLast
  <2>7. cursor \in Published \cup {NoMessage}
    BY <2>5, <2>6 DEF Live, Published
  <2>8. ASSUME NEW m \in ahead \ page
        PROVE  rows # page /\ page # {} /\ Before(Last(page), m)
    BY <1>4, <2>1, <2>3, <2>4, PageThenRest
  <2> QED
    BY <2>7, <2>8
<1>7. \A v \in Users \ {u} : walk'[v] = walk[v]
  BY <1>3, <1>4
<1>8. /\ walk'[u].dir = w.dir
      /\ walk'[u].limit = w.limit
      /\ walk'[u].must = w.must
      /\ walk'[u].got = w.got \cup page
      /\ walk'[u].done = done
      /\ walk'[u].cursor = cursor
  <2> HIDE DEF page, done, cursor
  <2> QED
    BY <1>2, <1>3, <1>4 DEF Walk
<1>9. Published' = Published /\ Live' = Live
  BY <1>3 DEF Published, Live
<1>10. \A m, n : Before(m, n)' <=> Before(m, n)
  BY <1>3 DEF Before
<1>11. ASSUME w.dir = "after", w.limit < PageMax,
              NEW m \in w.must \cap Live, m \notin w.got \cup page
       PROVE  ~done /\ (cursor # NoMessage => Before(cursor, m))
  <2>1. m \in ahead
    BY <1>2, <1>5, <1>11 DEF WalkFits
  <2> QED
    BY <1>6, <1>11, <2>1
<1> HIDE DEF page, done, cursor, ahead, rows
<1>12. WalkFits(u)'
  BY <1>2, <1>3, <1>5, <1>6, <1>8, <1>9, <1>11 DEF WalkFits, Before
<1> QED
  BY <1>7, <1>12

LEMMA WalkWriters ==
  ASSUME [Next]_vars
  PROVE  \/ walk' = walk
         \/ \E t \in Tasks : ListQuery(t)
         \/ \E u \in Users : StartWalk(u)
<1>1. ASSUME NEW t \in Tasks, TaskStep(t)
      PROVE  walk' = walk \/ ListQuery(t)
  BY <1>1 DEF TaskStep, Begin, ensure_active_membership, Insert, Commit,
     get_chat_participants, Notify, Publish, verify_participant, FindMessage,
     edit_message, delete_message, SyncQuery, client
<1>2. ASSUME NEW t \in Tasks, NEW u \in Users,
             Request(t, u) \/ NextPage(t, u) \/ Connect(t, u)
      PROVE  walk' = walk
  BY <1>2 DEF Request, NextPage, Connect, client
<1>3. ASSUME NEW t \in Tasks, QueryFails(t)
      PROVE  walk' = walk
  BY <1>3 DEF QueryFails, client
<1>4. ASSUME NEW u \in Users, Disconnect(u) \/ Join(u) \/ Leave(u)
      PROVE  walk' = walk
  BY <1>4 DEF Disconnect, Join, Leave, client
<1> QED
  BY <1>1, <1>2, <1>3, <1>4 DEF Next, vars, client

LEMMA WalksStep == IInv /\ WalksFit /\ [Next]_vars => WalksFit'
<1> SUFFICES ASSUME IInv, \A u \in Users : WalkFits(u), [Next]_vars,
                    NEW u \in Users
             PROVE  WalkFits(u)'
  BY DEF WalksFit
<1>1. CASE walk'[u] = walk[u]
  BY <1>1, WalkStays
<1>2. ASSUME NEW t \in Tasks, ListQuery(t)
      PROVE  WalkFits(u)'
  <2>1. task[t].actor \in Users
    BY <1>2 DEF ListQuery, IInv, Fits
  <2> QED
    BY <1>1, <1>2, <2>1, ListFits
<1>3. ASSUME NEW v \in Users, StartWalk(v)
      PROVE  WalkFits(u)'
  BY <1>1, <1>3, StartFits
<1> QED
  BY <1>1, <1>2, <1>3, WalkWriters

(* Reading forwards, by less than the largest page, misses nothing that    *)
(* was there at the beginning and still is: each answer's next cursor has  *)
(* behind it all of that which is not in a page yet, whatever is sent,     *)
(* edited and deleted in between.                                          *)
THEOREM ForwardWalksAreComplete == Spec => []ForwardWalkIsComplete
<1>1. Init => WalksFit
  BY DEF Init, WalksFit, WalkFits, NoWalk
<1>2. WalksFit => ForwardWalkIsComplete
  BY DEF WalksFit, WalkFits, ForwardWalkIsComplete, Complete
<1> QED
  BY <1>1, <1>2, WalksStep, Invariant, PTL DEF Spec
=============================================================================
