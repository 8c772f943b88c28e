---------------------------- MODULE Calls_proofs ----------------------------
(***************************************************************************)
(* Theorems about Calls, for any users, calls, number of concurrent        *)
(* handler tasks, query failures and crashes.                              *)
(*                                                                         *)
(* The safety properties of Calls are not inductive: that an event is true *)
(* when it is published rests on what the publishing task remembers, and   *)
(* that it stays true on what no write may undo. IInv adds both.           *)
(* AnnounceInv adds who still has to publish the status a row has, and     *)
(* SerialInv what a single task may rely on between its queries.           *)
(***************************************************************************)
EXTENDS Calls, TLAPS

-----------------------------------------------------------------------------
(* What a task remembers agrees with the table. *)
TaskFits(t) ==
  LET k == task[t] IN
    /\ k.at \in InitiateSteps => k.user \in Users /\ k.peer \in Users
    /\ k.at \in {"incoming", "ring", "push"} =>
         /\ k.call \in CallIds
         /\ row[k.call].status # "absent"
         /\ k.peer = row[k.call].receiver
    /\ k.at \in AcceptSteps \cup EndSteps =>
         /\ k.user \in Users
         /\ k.call \in CallIds
         /\ row[k.call].status # "absent"
    /\ k.at \in {"acceptWrite", "accepted"} =>
         k.user = row[k.call].receiver
    /\ k.at = "accepted" => row[k.call].started
    /\ k.at \in EndSteps => k.want \in Book!Terminal
    /\ k.at \in {"endWrite", "notify"} =>
         k.user \in Book!Parties(row[k.call])

EventIsTrue(e) ==
  /\ row[e.call].status # "absent"
  /\ e.type # "ice" => e.to \in Book!Parties(row[e.call])
  /\ e.type = "accepted" => e.to = row[e.call].caller /\ row[e.call].started

RowsFit ==
  \A c \in CallIds : row[c].status # "absent" =>
    row[c].caller \in Users /\ row[c].receiver \in Users

IInv ==
  /\ TypeOK
  /\ RowsFit
  /\ TimestampsAgree
  /\ \A t \in Tasks : TaskFits(t)
  /\ \A e \in sent : EventIsTrue(e)

(* What no write undoes: a row that exists keeps its parties and its       *)
(* started_at.                                                             *)
RowsKept ==
  \A c \in CallIds : row[c].status # "absent" =>
    /\ row'[c].status # "absent"
    /\ row[c].started => row'[c].started
    /\ row'[c].caller = row[c].caller
    /\ row'[c].receiver = row[c].receiver

RowsGood ==
  /\ row' \in [CallIds -> Book!Row]
  /\ RowsKept
  /\ RowsFit'
  /\ TimestampsAgree'

-----------------------------------------------------------------------------
(* The writes of the repository. *)

LEMMA UpdatedRow ==
  ASSUME row \in [CallIds -> Book!Row], NEW c \in CallIds,
         NEW s \in Book!Active \cup Book!Terminal,
         NEW started \in BOOLEAN, NEW ended \in BOOLEAN,
         update_status(c, s, started, ended)
  PROVE  /\ row' \in [CallIds -> Book!Row]
         /\ \A d \in CallIds \ {c} : row'[d] = row[d]
         /\ row'[c].status = s
         /\ row'[c].caller = row[c].caller
         /\ row'[c].receiver = row[c].receiver
         /\ row'[c].started <=> (row[c].started \/ started)
         /\ row'[c].ended = ended
<1>1. row[c] \in Book!Row
  OBVIOUS
<1>2. row' = [row EXCEPT ![c] = [row[c] EXCEPT
                !.status = s, !.started = row[c].started \/ started,
                !.ended = ended]]
  BY DEF update_status
<1>3. (row[c].started \/ started) \in BOOLEAN
  OBVIOUS
<1> DEFINE r == [row[c] EXCEPT !.status = s,
                   !.started = row[c].started \/ started, !.ended = ended]
<1>4. /\ r \in Book!Row
      /\ r.status = s
      /\ r.caller = row[c].caller
      /\ r.receiver = row[c].receiver
      /\ r.started = (row[c].started \/ started)
      /\ r.ended = ended
  BY <1>1, <1>3 DEF Book!Row
<1>5. row'[c] = r /\ \A d \in CallIds \ {c} : row'[d] = row[d]
  BY <1>2
<1>6. row' \in [CallIds -> Book!Row]
  BY <1>2, <1>4
<1> HIDE DEF r
<1> QED
  BY <1>4, <1>5, <1>6

LEMMA UpdateIsGood ==
  ASSUME IInv, NEW c \in CallIds, row[c].status # "absent",
         NEW s \in Book!Active \cup Book!Terminal,
         NEW started \in BOOLEAN, NEW ended \in BOOLEAN,
         update_status(c, s, started, ended),
         ended <=> s \in Book!Terminal,
         s = "answered" => started
  PROVE  RowsGood
<1>1. /\ row' \in [CallIds -> Book!Row]
      /\ \A d \in CallIds \ {c} : row'[d] = row[d]
      /\ row'[c].status = s
      /\ row'[c].caller = row[c].caller
      /\ row'[c].receiver = row[c].receiver
      /\ row'[c].started <=> (row[c].started \/ started)
      /\ row'[c].ended = ended
  BY UpdatedRow DEF IInv, TypeOK
<1>2. s # "absent"
  BY DEF Book!Active, Book!Terminal
<1>3. RowsKept
  BY <1>1, <1>2 DEF RowsKept
<1>4. RowsFit'
  BY <1>1, <1>2 DEF IInv, RowsFit
<1>5. TimestampsAgree'
  BY <1>1, Zenon DEF IInv, TimestampsAgree
<1> QED
  BY <1>1, <1>3, <1>4, <1>5 DEF RowsGood

LEMMA CreateIsGood ==
  ASSUME IInv, NEW c \in CallIds, row[c].status = "absent",
         NEW u \in Users, NEW v \in Users, create(c, u, v)
  PROVE  RowsGood /\ row'[c].status = "initiated" /\ row'[c].receiver = v
<1> DEFINE r == [status |-> "initiated", caller |-> u, receiver |-> v,
                 started |-> FALSE, ended |-> FALSE]
<1>1. row' = [row EXCEPT ![c] = r]
  BY DEF create, Book!NewRow
<1>2. r \in Book!Row
  BY DEF Book!Row, Book!Active
<1>3. row' \in [CallIds -> Book!Row]
  BY <1>1, <1>2 DEF IInv, TypeOK
<1>4. row'[c] = r /\ \A d \in CallIds \ {c} : row'[d] = row[d]
  BY <1>1 DEF IInv, TypeOK
<1>5. RowsKept
  BY <1>4 DEF RowsKept
<1>6. RowsFit'
  BY <1>4 DEF IInv, RowsFit
<1>7. TimestampsAgree'
  BY <1>4 DEF IInv, TimestampsAgree, Book!Terminal
<1> QED
  BY <1>3, <1>4, <1>5, <1>6, <1>7 DEF RowsGood

LEMMA SameRowsAreGood ==
  ASSUME IInv, UNCHANGED row PROVE RowsGood
BY DEF IInv, TypeOK, RowsFit, TimestampsAgree, RowsGood, RowsKept

-----------------------------------------------------------------------------
(* A step keeps IInv if it writes the table as above, leaves the task it   *)
(* moves fitting, touches no other task and publishes only what is true.   *)

LEMMA FrameTask ==
  ASSUME IInv, RowsKept, NEW t \in Tasks, task'[t] = task[t], TaskFits(t)
  PROVE  TaskFits(t)'
BY DEF TaskFits, RowsKept, Book!Parties, AcceptSteps, EndSteps

LEMMA FrameEvent ==
  ASSUME IInv, RowsKept, NEW e \in sent
  PROVE  EventIsTrue(e)'
BY DEF IInv, TypeOK, Event, EventIsTrue, RowsKept, Book!Parties

LEMMA GoodStep ==
  ASSUME IInv, RowsGood,
         NEW t \in Tasks, task' \in [Tasks -> Task],
         \A s \in Tasks \ {t} : task'[s] = task[s],
         TaskFits(t)',
         sent' \subseteq Event,
         \A e \in sent' \ sent : EventIsTrue(e)',
         faults' \in 0..MaxFaults, crashes' \in 0..MaxCrashes
  PROVE  IInv'
<1>1. \A s \in Tasks : TaskFits(s)'
  <2> TAKE s \in Tasks
  <2>1. CASE s = t
    BY <2>1
  <2>2. CASE s # t
    BY <2>2, FrameTask DEF IInv, RowsGood
  <2> QED
    BY <2>1, <2>2
<1>2. \A e \in sent' : EventIsTrue(e)'
  BY FrameEvent DEF RowsGood
<1> QED
  BY <1>1, <1>2 DEF IInv, TypeOK, RowsGood

(* The three ways a handler goes on. *)
LEMMA ReturnFits ==
  ASSUME IInv, NEW t \in Tasks, Return(t)
  PROVE  /\ task' \in [Tasks -> Task]
         /\ \A s \in Tasks \ {t} : task'[s] = task[s]
         /\ TaskFits(t)'
<1>1. IdleTask \in Task
  BY DEF IdleTask, Handler, Task, Steps, Ops
<1>2. task'[t] = IdleTask
  BY DEF Return, IInv, TypeOK
<1> QED
  BY <1>1, <1>2 DEF Return, IInv, TypeOK, TaskFits, IdleTask, Handler,
     InitiateSteps,
     AcceptSteps, EndSteps

LEMMA GotoMoves ==
  ASSUME IInv, NEW t \in Tasks, NEW step \in Steps, Goto(t, step)
  PROVE  /\ task' \in [Tasks -> Task]
         /\ \A s \in Tasks \ {t} : task'[s] = task[s]
         /\ task'[t].at = step
         /\ task'[t].op = task[t].op
         /\ task'[t].user = task[t].user
         /\ task'[t].peer = task[t].peer
         /\ task'[t].call = task[t].call
         /\ task'[t].want = task[t].want
         /\ task'[t].started = task[t].started
BY DEF Goto, IInv, TypeOK, Task

LEMMA SpawnMoves ==
  ASSUME IInv, NEW t \in Tasks, NEW new \in Task, Spawn(t, new)
  PROVE  /\ task' \in [Tasks -> Task]
         /\ \A s \in Tasks \ {t} : task'[s] = task[s]
         /\ task'[t] = new
BY DEF Spawn, IInv, TypeOK

LEMMA RewriteMoves ==
  ASSUME IInv, NEW t \in Tasks, NEW new \in Task,
         task' = [task EXCEPT ![t] = new]
  PROVE  /\ task' \in [Tasks -> Task]
         /\ \A s \in Tasks \ {t} : task'[s] = task[s]
         /\ task'[t] = new
BY DEF IInv, TypeOK

(* publish adds one event, which is an Event if the call and user are. *)
LEMMA PublishAdds ==
  ASSUME IInv, NEW type \in EventTypes, NEW c \in CallIds, NEW u \in Users,
         publish(type, c, u),
         EventIsTrue([type |-> type, call |-> c, to |-> u])'
  PROVE  sent' \subseteq Event /\ \A e \in sent' \ sent : EventIsTrue(e)'
BY DEF publish, IInv, TypeOK, Event

(* A device was told only of calls that exist. *)
LEMMA ToldExists ==
  ASSUME IInv, NEW u \in Users, NEW c \in Told(u)
  PROVE  c \in CallIds /\ row[c].status # "absent"
BY DEF IInv, TypeOK, Event, Told, EventIsTrue

-----------------------------------------------------------------------------
(* One lemma per action. *)

LEMMA ClientInitiateStep ==
  ASSUME IInv, NEW t \in Tasks, NEW u \in Users, NEW v \in Users,
         ClientInitiate(t, u, v)
  PROVE  IInv'
<1> DEFINE new == [at |-> "checkReceiver", op |-> "initiate", user |-> u,
                   peer |-> v, call |-> NoCall, want |-> "none",
                   started |-> FALSE]
<1>1. new \in Task
  BY DEF Task, Steps, InitiateSteps, Ops
<1>2. Spawn(t, new)
  BY DEF ClientInitiate, Handler
<1>3. TaskFits(t)'
  BY <1>1, <1>2, SpawnMoves DEF TaskFits, InitiateSteps, AcceptSteps, EndSteps
<1> QED
  BY <1>1, <1>2, <1>3, SpawnMoves, SameRowsAreGood, GoodStep
  DEF ClientInitiate, IInv, TypeOK

LEMMA ClientAboutCallStep ==
  ASSUME IInv, NEW t \in Tasks, NEW u \in Users, NEW c \in Told(u),
         NEW op \in Ops, NEW want \in Book!Terminal \cup {"none"},
         NEW step \in {"acceptRead", "endRead"},
         step = "endRead" => want \in Book!Terminal,
         Spawn(t, Handler(step, op, u, NoUser, c, want)),
         UNCHANGED <<row, sent, faults, crashes>>
  PROVE  IInv'
<1>1. c \in CallIds /\ row[c].status # "absent"
  BY ToldExists
<1>2. Handler(step, op, u, NoUser, c, want) \in Task
  BY <1>1 DEF Handler, Task, Steps, AcceptSteps, EndSteps
<1>3. TaskFits(t)'
  BY <1>1, <1>2, SpawnMoves DEF TaskFits, Handler, InitiateSteps, AcceptSteps,
     EndSteps
<1> QED
  BY <1>2, <1>3, SpawnMoves, SameRowsAreGood, GoodStep DEF IInv, TypeOK

LEMMA ClientIceStep ==
  ASSUME IInv, NEW u \in Users, NEW v \in Users, NEW c \in CallIds,
         ClientIceCandidate(u, v, c)
  PROVE  IInv'
<1>1. row[c].status # "absent"
  BY ToldExists DEF ClientIceCandidate
<1>2. EventIsTrue([type |-> "ice", call |-> c, to |-> v])'
  BY <1>1 DEF ClientIceCandidate, EventIsTrue
<1>3. sent' \subseteq Event /\ \A e \in sent' \ sent : EventIsTrue(e)'
  BY <1>2, PublishAdds DEF ClientIceCandidate, EventTypes
<1>4. \A s \in Tasks : TaskFits(s)'
  BY FrameTask, SameRowsAreGood DEF ClientIceCandidate, IInv, RowsGood
<1>5. \A e \in sent' : EventIsTrue(e)'
  BY <1>3, FrameEvent, SameRowsAreGood DEF ClientIceCandidate, RowsGood
<1> QED
  BY <1>3, <1>4, <1>5 DEF ClientIceCandidate, IInv, TypeOK, RowsFit,
     TimestampsAgree

(* A handler that only returns, whatever it wrote. *)
LEMMA ReturnStep ==
  ASSUME IInv, RowsGood, NEW t \in Tasks, Return(t), UNCHANGED sent,
         faults' \in 0..MaxFaults, crashes' \in 0..MaxCrashes
  PROVE  IInv'
BY ReturnFits, GoodStep DEF IInv, TypeOK

LEMMA CheckReceiverStep ==
  ASSUME IInv, NEW t \in Tasks, CheckReceiver(t) PROVE IInv'
<1> USE SameRowsAreGood DEF CheckReceiver
<1>1. CASE Return(t)
  BY <1>1, ReturnStep DEF IInv, TypeOK
<1>2. CASE Goto(t, "checkCaller")
  <2>1. TaskFits(t)
    BY DEF IInv
  <2>2. TaskFits(t)'
    BY <1>2, <2>1, GotoMoves DEF Steps, TaskFits, InitiateSteps, AcceptSteps,
       EndSteps
  <2> QED
    BY <1>2, <2>2, GotoMoves, GoodStep DEF IInv, TypeOK, Steps, InitiateSteps
<1> QED
  BY <1>1, <1>2

LEMMA CheckCallerStep ==
  ASSUME IInv, NEW t \in Tasks, CheckCaller(t) PROVE IInv'
<1> USE SameRowsAreGood DEF CheckCaller
<1>1. CASE Return(t)
  BY <1>1, ReturnStep DEF IInv, TypeOK
<1>2. CASE Goto(t, "insert")
  <2>1. TaskFits(t)
    BY DEF IInv
  <2>2. TaskFits(t)'
    BY <1>2, <2>1, GotoMoves DEF Steps, TaskFits, InitiateSteps, AcceptSteps,
       EndSteps
  <2> QED
    BY <1>2, <2>2, GotoMoves, GoodStep DEF IInv, TypeOK, Steps, InitiateSteps
<1> QED
  BY <1>1, <1>2

LEMMA InsertCallStep ==
  ASSUME IInv, NEW t \in Tasks, InsertCall(t) PROVE IInv'
<1>1. PICK c \in CallIds :
        /\ row[c].status = "absent"
        /\ create(c, task[t].user, task[t].peer)
        /\ task' = [task EXCEPT ![t].at = "incoming", ![t].call = c]
  BY DEF InsertCall
<1>2. task[t].user \in Users /\ task[t].peer \in Users
  BY DEF InsertCall, IInv, TaskFits, InitiateSteps
<1>3. /\ RowsGood
      /\ row'[c].status = "initiated"
      /\ row'[c].receiver = task[t].peer
  BY <1>1, <1>2, CreateIsGood
<1>4. /\ task' \in [Tasks -> Task]
      /\ \A s \in Tasks \ {t} : task'[s] = task[s]
      /\ task'[t].at = "incoming"
      /\ task'[t].user = task[t].user
      /\ task'[t].peer = task[t].peer
      /\ task'[t].call = c
  <2> DEFINE new == [task[t] EXCEPT !.at = "incoming", !.call = c]
  <2>1. task[t] \in Task
    BY DEF IInv, TypeOK
  <2>2. /\ new \in Task
        /\ new.at = "incoming" /\ new.call = c
        /\ new.user = task[t].user /\ new.peer = task[t].peer
    BY <2>1 DEF Task, Steps, InitiateSteps
  <2>3. task' = [task EXCEPT ![t] = new]
    BY <1>1
  <2> HIDE DEF new
  <2> QED
    BY <2>2, <2>3, RewriteMoves
<1>5. TaskFits(t)'
  BY <1>2, <1>3, <1>4 DEF TaskFits, InitiateSteps, AcceptSteps, EndSteps
<1> QED
  BY <1>3, <1>4, <1>5, GoodStep DEF InsertCall, IInv, TypeOK

LEMMA PublishIncomingStep ==
  ASSUME IInv, NEW t \in Tasks, PublishIncoming(t) PROVE IInv'
<1> USE DEF PublishIncoming
<1>1. TaskFits(t)
  BY DEF IInv
<1>2. /\ task[t].call \in CallIds
      /\ row[task[t].call].status # "absent"
      /\ task[t].peer = row[task[t].call].receiver
      /\ task[t].peer \in Users
  BY <1>1 DEF TaskFits, InitiateSteps
<1>3. sent' \subseteq Event /\ \A e \in sent' \ sent : EventIsTrue(e)'
  BY <1>2, PublishAdds DEF EventIsTrue, EventTypes, Book!Parties
<1>4. TaskFits(t)'
  BY <1>1, GotoMoves DEF TaskFits, Steps, InitiateSteps, AcceptSteps, EndSteps
<1> QED
  BY <1>3, <1>4, GotoMoves, SameRowsAreGood, GoodStep DEF IInv, TypeOK, Steps,
     InitiateSteps

LEMMA RingIsGood ==
  ASSUME IInv, NEW t \in Tasks, task[t].at = "ring",
         update_status(task[t].call, "ringing", FALSE, FALSE)
  PROVE  RowsGood
<1>1. task[t].call \in CallIds /\ row[task[t].call].status # "absent"
  BY DEF IInv, TaskFits
<1>2. "ringing" \in Book!Active \cup Book!Terminal
  BY DEF Book!Active
<1>3. FALSE <=> "ringing" \in Book!Terminal
  BY DEF Book!Terminal
<1>4. "ringing" # "answered"
  OBVIOUS
<1> QED
  BY <1>1, <1>2, <1>3, <1>4, UpdateIsGood

LEMMA MarkRingingStep ==
  ASSUME IInv, NEW t \in Tasks, NEW f \in 0..MaxFaults,
         task[t].at = "ring",
         \/ update_status(task[t].call, "ringing", FALSE, FALSE)
         \/ UNCHANGED row,
         Goto(t, "push"), UNCHANGED <<sent, crashes>>, faults' = f
  PROVE  IInv'
<1>1. TaskFits(t)
  BY DEF IInv
<1>2. task[t].call \in CallIds /\ row[task[t].call].status # "absent"
  BY <1>1 DEF TaskFits
<1>3. RowsGood
  BY RingIsGood, SameRowsAreGood
<1>4. TaskFits(t)'
  BY <1>1, <1>2, <1>3, GotoMoves DEF RowsGood, RowsKept, TaskFits, Steps,
     InitiateSteps, AcceptSteps, EndSteps
<1> QED
  BY <1>3, <1>4, GotoMoves, GoodStep DEF IInv, TypeOK, Steps, InitiateSteps

LEMMA EnqueuePushStep ==
  ASSUME IInv, NEW t \in Tasks, EnqueuePush(t) PROVE IInv'
<1> USE DEF EnqueuePush
<1>1. /\ task[t].call \in CallIds
      /\ row[task[t].call].status # "absent"
      /\ task[t].peer = row[task[t].call].receiver
      /\ task[t].peer \in Users
  BY DEF IInv, TaskFits, InitiateSteps
<1>2. sent' \subseteq Event /\ \A e \in sent' \ sent : EventIsTrue(e)'
  BY <1>1, PublishAdds DEF EventIsTrue, EventTypes, Book!Parties
<1> QED
  BY <1>2, ReturnFits, SameRowsAreGood, GoodStep DEF IInv, TypeOK

LEMMA AcceptReadStep ==
  ASSUME IInv, NEW t \in Tasks, AcceptRead(t) PROVE IInv'
<1> USE SameRowsAreGood DEF AcceptRead
<1>1. CASE Return(t)
  BY <1>1, ReturnStep DEF IInv, TypeOK
<1>2. CASE /\ row[task[t].call].receiver = task[t].user
           /\ Goto(t, "acceptWrite")
  <2>1. TaskFits(t)
    BY DEF IInv
  <2>2. TaskFits(t)'
    BY <1>2, <2>1, GotoMoves DEF Steps, TaskFits, InitiateSteps, AcceptSteps,
       EndSteps
  <2> QED
    BY <1>2, <2>2, GotoMoves, GoodStep DEF IInv, TypeOK, Steps, AcceptSteps
<1> QED
  BY <1>1, <1>2

LEMMA AnswerIsGood ==
  ASSUME IInv, NEW t \in Tasks, task[t].at = "acceptWrite",
         update_status(task[t].call, "answered", TRUE, FALSE)
  PROVE  RowsGood /\ row'[task[t].call].started
<1>1. task[t].call \in CallIds /\ row[task[t].call].status # "absent"
  BY DEF IInv, TaskFits, AcceptSteps
<1>2. RowsGood
  BY <1>1, UpdateIsGood DEF Book!Active, Book!Terminal
<1>3. row'[task[t].call].started
  BY <1>1, UpdatedRow DEF IInv, TypeOK, Book!Active
<1> QED
  BY <1>2, <1>3

LEMMA AcceptWriteStep ==
  ASSUME IInv, NEW t \in Tasks, AcceptWrite(t) PROVE IInv'
<1> USE DEF AcceptWrite
<1>1. TaskFits(t)
  BY DEF IInv
<1>2. RowsGood /\ row'[task[t].call].started
  BY AnswerIsGood
<1>3. TaskFits(t)'
  BY <1>1, <1>2, GotoMoves DEF RowsGood, RowsKept, TaskFits, Steps,
     InitiateSteps, AcceptSteps, EndSteps
<1> QED
  BY <1>2, <1>3, GotoMoves, GoodStep DEF IInv, TypeOK, Steps, AcceptSteps

LEMMA PublishAcceptedStep ==
  ASSUME IInv, NEW t \in Tasks, PublishAccepted(t) PROVE IInv'
<1> USE DEF PublishAccepted
<1>1. /\ task[t].call \in CallIds
      /\ row[task[t].call].status # "absent"
      /\ row[task[t].call].started
  BY DEF IInv, TaskFits, AcceptSteps
<1>2. row[task[t].call].caller \in Users
  BY <1>1 DEF IInv, RowsFit
<1>3. sent' \subseteq Event /\ \A e \in sent' \ sent : EventIsTrue(e)'
  BY <1>1, <1>2, PublishAdds DEF EventIsTrue, EventTypes, Book!Parties
<1> QED
  BY <1>3, ReturnFits, SameRowsAreGood, GoodStep DEF IInv, TypeOK

(* A refused end_call returns, or asks again for Missed. *)
LEMMA EndCallRefusedStep ==
  ASSUME IInv, RowsGood, NEW t \in Tasks, NEW f \in 0..MaxFaults,
         task[t].at \in {"endRead", "endWrite"}, EndCallRefused(t),
         UNCHANGED <<sent, crashes>>, faults' = f
  PROVE  IInv'
<1>1. CASE Return(t)
  BY <1>1, ReturnStep DEF IInv, TypeOK
<1>2. CASE task' = [task EXCEPT ![t].at = "endRead", ![t].want = "missed"]
  <2>1. TaskFits(t)
    BY DEF IInv
  <2>2. /\ task' \in [Tasks -> Task]
        /\ \A s \in Tasks \ {t} : task'[s] = task[s]
        /\ task'[t].at = "endRead"
        /\ task'[t].want = "missed"
        /\ task'[t].user = task[t].user
        /\ task'[t].call = task[t].call
    <3> DEFINE new == [task[t] EXCEPT !.at = "endRead", !.want = "missed"]
    <3>1. task[t] \in Task
      BY DEF IInv, TypeOK
    <3>2. /\ new \in Task
          /\ new.at = "endRead" /\ new.want = "missed"
          /\ new.user = task[t].user /\ new.call = task[t].call
      BY <3>1 DEF Task, Steps, EndSteps, Book!Terminal
    <3>3. task' = [task EXCEPT ![t] = new]
      BY <1>2
    <3> HIDE DEF new
    <3> QED
      BY <3>2, <3>3, RewriteMoves
  <2>3. TaskFits(t)'
    BY <2>1, <2>2 DEF RowsGood, RowsKept, TaskFits, InitiateSteps,
       AcceptSteps, EndSteps, Book!Terminal
  <2> QED
    BY <2>2, <2>3, GoodStep DEF IInv, TypeOK
<1> QED
  BY <1>1, <1>2 DEF EndCallRefused

LEMMA EndReadStep ==
  ASSUME IInv, NEW t \in Tasks, EndRead(t) PROVE IInv'
<1> DEFINE r == row[task[t].call]
<1>1. CASE EndCallRefused(t)
  BY <1>1, EndCallRefusedStep, SameRowsAreGood DEF EndRead, IInv, TypeOK
<1>2. CASE /\ task[t].user \in Book!Parties(r)
           /\ task' = [task EXCEPT ![t].at = "endWrite",
                                   ![t].started = r.started]
  <2>1. TaskFits(t)
    BY DEF IInv
  <2>2. r.started \in BOOLEAN
    BY <2>1 DEF EndRead, TaskFits, IInv, TypeOK, EndSteps, Book!Row
  <2>3. /\ task' \in [Tasks -> Task]
        /\ \A s \in Tasks \ {t} : task'[s] = task[s]
        /\ task'[t].at = "endWrite"
        /\ task'[t].want = task[t].want
        /\ task'[t].user = task[t].user
        /\ task'[t].call = task[t].call
    <3> DEFINE new == [task[t] EXCEPT !.at = "endWrite",
                                      !.started = r.started]
    <3>1. task[t] \in Task
      BY DEF IInv, TypeOK
    <3>2. task' = [task EXCEPT ![t] = new]
      BY <1>2
    <3> HIDE DEF r
    <3>3. /\ new \in Task
          /\ new.at = "endWrite" /\ new.want = task[t].want
          /\ new.user = task[t].user /\ new.call = task[t].call
      BY <2>2, <3>1 DEF Task, Steps, EndSteps
    <3> HIDE DEF new
    <3> QED
      BY <3>2, <3>3, RewriteMoves
  <2>4. TaskFits(t)'
    BY <1>2, <2>1, <2>3 DEF EndRead, TaskFits, InitiateSteps, AcceptSteps,
       EndSteps, Book!Parties
  <2> QED
    BY <2>3, <2>4, GoodStep, SameRowsAreGood DEF EndRead, IInv, TypeOK
<1> QED
  BY <1>1, <1>2 DEF EndRead

LEMMA EndIsGood ==
  ASSUME IInv, NEW t \in Tasks, task[t].at = "endWrite",
         update_status(task[t].call, task[t].want, task[t].started, TRUE)
  PROVE  RowsGood
<1>1. /\ task[t].call \in CallIds
      /\ row[task[t].call].status # "absent"
      /\ task[t].want \in Book!Terminal
      /\ task[t].started \in BOOLEAN
  BY DEF IInv, TypeOK, Task, TaskFits, EndSteps
<1> QED
  BY <1>1, UpdateIsGood DEF Book!Terminal

LEMMA EndWriteStep ==
  ASSUME IInv, NEW t \in Tasks, EndWrite(t) PROVE IInv'
<1> USE DEF EndWrite
<1>1. TaskFits(t)
  BY DEF IInv
<1>2. RowsGood
  BY EndIsGood
<1>3. "notify" \in Steps /\ Goto(t, "notify")
  BY DEF Steps, EndSteps
<1>4. /\ task'[t].at = "notify"
      /\ task'[t].user = task[t].user
      /\ task'[t].call = task[t].call
      /\ task'[t].want = task[t].want
  BY <1>3, GotoMoves
<1>5. TaskFits(t)'
  BY <1>1, <1>2, <1>4 DEF RowsGood, RowsKept, TaskFits,
     InitiateSteps, AcceptSteps, EndSteps, Book!Parties
<1> QED
  BY <1>2, <1>3, <1>5, GotoMoves, GoodStep DEF IInv, TypeOK

LEMMA NotifyEndStep ==
  ASSUME IInv, NEW t \in Tasks, NotifyEnd(t) PROVE IInv'
<1> USE DEF NotifyEnd
<1>1. task[t].call \in CallIds /\ row[task[t].call].status # "absent"
  BY DEF IInv, TaskFits, EndSteps
<1>2. /\ NotifyTarget(t) \in Users
      /\ NotifyTarget(t) \in Book!Parties(row[task[t].call])
  BY <1>1 DEF NotifyTarget, IInv, RowsFit, Book!Parties
<1>3. PICK c \in CallIds, u \in Users, type \in {"ended", "rejected"} :
        /\ c = task[t].call
        /\ u = NotifyTarget(t)
        /\ publish(type, c, u)
  BY <1>1, <1>2
<1>4. EventIsTrue([type |-> type, call |-> c, to |-> u])'
  BY <1>1, <1>2, <1>3 DEF EventIsTrue, Book!Parties
<1>5. sent' \subseteq Event /\ \A e \in sent' \ sent : EventIsTrue(e)'
  BY <1>3, <1>4, PublishAdds DEF EventTypes
<1> QED
  BY <1>5, ReturnFits, SameRowsAreGood, GoodStep DEF IInv, TypeOK

LEMMA QueryFailsStep ==
  ASSUME IInv, NEW t \in Tasks, QueryFails(t) PROVE IInv'
<1>1. faults + 1 \in 0..MaxFaults
  BY BoundsAreNaturals DEF QueryFails, IInv, TypeOK
<1>2. CASE Return(t)
  BY <1>1, <1>2, ReturnStep, SameRowsAreGood DEF QueryFails, IInv, TypeOK
<1>3. CASE task[t].at = "ring" /\ Goto(t, "push")
  BY <1>1, <1>3, MarkRingingStep DEF QueryFails
<1>4. CASE task[t].at \in {"endRead", "endWrite"} /\ EndCallRefused(t)
  BY <1>1, <1>4, EndCallRefusedStep, SameRowsAreGood DEF QueryFails
<1> QED
  BY <1>2, <1>3, <1>4 DEF QueryFails

LEMMA ReplyLostStep ==
  ASSUME IInv, NEW t \in Tasks, ReplyLost(t) PROVE IInv'
<1>1. faults + 1 \in 0..MaxFaults
  BY BoundsAreNaturals DEF ReplyLost, IInv, TypeOK
<1>2. ASSUME task[t].at = "insert", Return(t), NEW c \in CallIds,
             row[c].status = "absent", create(c, task[t].user, task[t].peer)
      PROVE  IInv'
  <2>1. task[t].user \in Users /\ task[t].peer \in Users
    BY <1>2 DEF IInv, TaskFits, InitiateSteps
  <2> QED
    BY <1>1, <1>2, <2>1, CreateIsGood, ReturnStep DEF ReplyLost, IInv, TypeOK
<1>3. CASE /\ task[t].at = "ring"
           /\ update_status(task[t].call, "ringing", FALSE, FALSE)
           /\ Goto(t, "push")
  BY <1>1, <1>3, MarkRingingStep DEF ReplyLost
<1>4. CASE /\ task[t].at = "acceptWrite"
           /\ update_status(task[t].call, "answered", TRUE, FALSE)
           /\ Return(t)
  BY <1>1, <1>4, AnswerIsGood, ReturnStep DEF ReplyLost, IInv, TypeOK
<1>5. CASE /\ task[t].at = "endWrite"
           /\ update_status(task[t].call, task[t].want, task[t].started, TRUE)
           /\ EndCallRefused(t)
  BY <1>1, <1>5, EndIsGood, EndCallRefusedStep DEF ReplyLost
<1> QED
  BY <1>2, <1>3, <1>4, <1>5 DEF ReplyLost

LEMMA CrashStep ==
  ASSUME IInv, Crash PROVE IInv'
<1>1. crashes + 1 \in 0..MaxCrashes
  BY BoundsAreNaturals DEF Crash, IInv, TypeOK
<1>2. IdleTask \in Task
  BY DEF IdleTask, Handler, Task, Steps, Ops
<1>3. \A t \in Tasks : TaskFits(t)'
  BY DEF Crash, TaskFits, IdleTask, Handler, InitiateSteps, AcceptSteps,
     EndSteps
<1>4. \A e \in sent' : EventIsTrue(e)'
  BY DEF Crash, IInv, EventIsTrue
<1> QED
  BY <1>1, <1>2, <1>3, <1>4 DEF Crash, IInv, TypeOK, RowsFit, TimestampsAgree

-----------------------------------------------------------------------------
LEMMA InitIInv == Init => IInv
<1> SUFFICES ASSUME Init PROVE IInv
  OBVIOUS
<1>1. Book!AbsentRow \in Book!Row
  BY DEF Book!AbsentRow, Book!Row
<1>2. IdleTask \in Task
  BY DEF IdleTask, Handler, Task, Steps, Ops
<1>3. TypeOK
  BY <1>1, <1>2, BoundsAreNaturals DEF Init, TypeOK
<1>4. RowsFit /\ TimestampsAgree
  BY DEF Init, RowsFit, TimestampsAgree, Book!AbsentRow, Book!Terminal
<1>5. \A t \in Tasks : TaskFits(t)
  BY DEF Init, TaskFits, IdleTask, Handler, InitiateSteps, AcceptSteps,
     EndSteps
<1> QED
  BY <1>3, <1>4, <1>5 DEF Init, IInv

LEMMA NextIInv == IInv /\ [Next]_vars => IInv'
<1> SUFFICES ASSUME IInv, [Next]_vars PROVE IInv'
  OBVIOUS
<1>1. CASE Client
  <2>1. ASSUME NEW t \in Tasks, NEW u \in Users, NEW v \in Users,
               ClientInitiate(t, u, v)
        PROVE  IInv'
    BY <2>1, ClientInitiateStep
  <2>2. ASSUME NEW t \in Tasks, NEW u \in Users, NEW c \in CallIds,
               ClientAccept(t, u, c)
        PROVE  IInv'
    BY <2>2, ClientAboutCallStep DEF ClientAccept, Ops
  <2>3. ASSUME NEW t \in Tasks, NEW u \in Users, NEW c \in CallIds,
               ClientReject(t, u, c)
        PROVE  IInv'
    BY <2>3, ClientAboutCallStep DEF ClientReject, Ops, Book!Terminal
  <2>4. ASSUME NEW t \in Tasks, NEW u \in Users, NEW c \in CallIds,
               ClientHangup(t, u, c)
        PROVE  IInv'
    BY <2>4, ClientAboutCallStep DEF ClientHangup, Ops, Book!Terminal
  <2>5. ASSUME NEW u \in Users, NEW v \in Users, NEW c \in CallIds,
               ClientIceCandidate(u, v, c)
        PROVE  IInv'
    BY <2>5, ClientIceStep
  <2> QED
    BY <1>1, <2>1, <2>2, <2>3, <2>4, <2>5 DEF Client
<1>2. ASSUME NEW t \in Tasks, TaskStep(t) PROVE IInv'
  <2>1. CASE MarkRinging(t)
    BY <2>1, MarkRingingStep DEF MarkRinging, IInv, TypeOK
  <2> QED
    BY <1>2, <2>1, CheckReceiverStep, CheckCallerStep, InsertCallStep,
       PublishIncomingStep, EnqueuePushStep, AcceptReadStep, AcceptWriteStep,
       PublishAcceptedStep, EndReadStep, EndWriteStep, NotifyEndStep
    DEF TaskStep
<1>3. ASSUME NEW t \in Tasks, QueryFails(t) \/ ReplyLost(t) PROVE IInv'
  BY <1>3, QueryFailsStep, ReplyLostStep
<1>4. CASE Crash
  BY <1>4, CrashStep
<1>5. CASE UNCHANGED vars
  BY <1>5 DEF vars, IInv, TypeOK, RowsFit, TimestampsAgree, TaskFits,
     EventIsTrue
<1> QED
  BY <1>1, <1>2, <1>3, <1>4, <1>5 DEF Next

LEMMA Invariance == Spec => []IInv
BY InitIInv, NextIInv, PTL DEF Spec

-----------------------------------------------------------------------------
(* Every variable keeps its type. *)
THEOREM TypeCorrect == Spec => []TypeOK
<1>1. IInv => TypeOK
  BY DEF IInv
<1> QED
  BY <1>1, Invariance, PTL

(* Whatever writes of mark_ringing, accept_call and end_call interleave,   *)
(* the timestamps of a row agree with its status.                          *)
THEOREM TimestampsAlwaysAgree == Spec => []TimestampsAgree
<1>1. IInv => TimestampsAgree
  BY DEF IInv
<1> QED
  BY <1>1, Invariance, PTL

(* The authorisation found by the read of accept_call or end_call holds    *)
(* when the row is written.                                                *)
THEOREM WritersAuthorised == Spec => []WriterIsAuthorised
<1>1. IInv => WriterIsAuthorised
  BY DEF IInv, TaskFits, WriterIsAuthorised
<1> QED
  BY <1>1, Invariance, PTL

(* The events published to the devices stay true of the table, and reach   *)
(* the parties of the call only.                                           *)
THEOREM EventsTrue == Spec => []EventsAreTrue
<1>1. IInv => EventsAreTrue
  BY DEF IInv, EventIsTrue, EventsAreTrue
<1> QED
  BY <1>1, Invariance, PTL

(* Every step of every handler keeps the rows that exist. *)
LEMMA NextKeepsRows == IInv /\ [Next]_vars => RowsKept
<1> SUFFICES ASSUME IInv, [Next]_vars PROVE RowsKept
  OBVIOUS
<1> USE DEF RowsGood
<1>1. UNCHANGED row => RowsKept
  BY SameRowsAreGood
<1>2. ASSUME NEW t \in Tasks, task[t].at = "insert", NEW c \in CallIds,
             row[c].status = "absent", create(c, task[t].user, task[t].peer)
      PROVE  RowsKept
  <2>1. task[t].user \in Users /\ task[t].peer \in Users
    BY <1>2 DEF IInv, TaskFits, InitiateSteps
  <2> QED
    BY <1>2, <2>1, CreateIsGood
<1>3. ASSUME NEW t \in Tasks, TaskStep(t) PROVE RowsKept
  <2>1. CASE InsertCall(t)
    BY <2>1, <1>2 DEF InsertCall
  <2>2. CASE MarkRinging(t)
    BY <2>2, RingIsGood DEF MarkRinging
  <2>3. CASE AcceptWrite(t)
    BY <2>3, AnswerIsGood DEF AcceptWrite
  <2>4. CASE EndWrite(t)
    BY <2>4, EndIsGood DEF EndWrite
  <2> QED
    BY <1>1, <1>3, <2>1, <2>2, <2>3, <2>4
    DEF TaskStep, CheckReceiver, CheckCaller, PublishIncoming, EnqueuePush,
        AcceptRead, PublishAccepted, EndRead, NotifyEnd
<1>4. ASSUME NEW t \in Tasks, QueryFails(t) PROVE RowsKept
  BY <1>1, <1>4 DEF QueryFails
<1>5. ASSUME NEW t \in Tasks, ReplyLost(t) PROVE RowsKept
  BY <1>2, <1>5, RingIsGood, AnswerIsGood, EndIsGood DEF ReplyLost
<1>6. CASE Client \/ Crash \/ UNCHANGED vars
  BY <1>1, <1>6 DEF Client, ClientInitiate, ClientAccept, ClientReject,
     ClientHangup, ClientIceCandidate, Crash, vars
<1> QED
  BY <1>3, <1>4, <1>5, <1>6 DEF Next

(* No step loses the started_at of an answered call or changes the parties *)
(* of a call.                                                              *)
THEOREM StartedAlwaysKept == Spec => StartedIsKept
<1>1. RowsKept =>
        \A c \in CallIds : row[c].status # "absent" =>
          /\ row[c].started => row'[c].started
          /\ row'[c].caller = row[c].caller
          /\ row'[c].receiver = row[c].receiver
  BY DEF RowsKept
<1> QED
  BY <1>1, Invariance, NextKeepsRows, PTL DEF Spec, StartedIsKept

-----------------------------------------------------------------------------
(***************************************************************************)
(* Who announces what. While nothing fails, the status of a row is either  *)
(* announced, or a task at work on the call is about to announce it. It is *)
(* the last write that counts: each write of a status leaves its own task  *)
(* behind it, whatever the tasks of earlier writes still do.               *)
(***************************************************************************)
PublishedTo(type, c, u) == [type |-> type, call |-> c, to |-> u] \in sent

AtWork(c, steps) ==
  \E t \in Tasks : task[t].call = c /\ task[t].at \in steps

Notifying(c, op) ==
  \E t \in Tasks :
    task[t].call = c /\ task[t].at = "notify" /\ task[t].op = op

Owed(c) ==
  LET r == row[c] IN
    /\ r.status = "initiated" => AtWork(c, {"incoming", "ring"})
    /\ r.status = "ringing" =>
         /\ PublishedTo("incoming", c, r.receiver)
         /\ PublishedTo("push", c, r.receiver) \/ AtWork(c, {"push"})
    /\ r.status = "answered" =>
         PublishedTo("accepted", c, r.caller) \/ AtWork(c, {"accepted"})
    /\ r.status \in {"rejected", "busy"} =>
         PublishedTo("rejected", c, r.caller) \/ Notifying(c, "reject")
    /\ r.status \in {"ended", "missed"} =>
         \/ \E u \in Book!Parties(r) : PublishedTo("ended", c, u)
         \/ Notifying(c, "hangup")

(* What a task has told already, and what it is going to tell. *)
Tells(t) ==
  LET k == task[t] IN
    /\ k.at \in {"ring", "push"} =>
         PublishedTo("incoming", k.call, row[k.call].receiver)
    /\ k.at \in EndSteps =>
         \/ k.op = "reject" /\ k.want \in {"rejected", "busy"}
         \/ k.op = "hangup" /\ k.want \in {"ended", "missed"}

Untroubled == faults = 0 /\ crashes = 0

AnnounceInv ==
  /\ \A t \in Tasks : Tells(t)
  /\ Untroubled => \A c \in CallIds : Owed(c)

(* The steps after which a task's share of an announcement changes. *)
Announcing == {"incoming", "ring", "push", "accepted", "notify"}

LEMMA KeepsTelling ==
  ASSUME IInv, RowsKept, sent \subseteq sent',
         NEW t \in Tasks, task'[t] = task[t], Tells(t)
  PROVE  Tells(t)'
<1>1. task[t].at \in {"ring", "push"} =>
        /\ task[t].call \in CallIds
        /\ row'[task[t].call].receiver = row[task[t].call].receiver
  BY DEF IInv, TaskFits, RowsKept
<1> QED
  BY <1>1 DEF Tells, PublishedTo

LEMMA KeepsOwed ==
  ASSUME NEW c \in CallIds, row'[c] = row[c], sent \subseteq sent', Owed(c),
         NEW t \in Tasks, \A s \in Tasks \ {t} : task'[s] = task[s],
         ~(task[t].call = c /\ task[t].at \in Announcing)
  PROVE  Owed(c)'
<1>1. ASSUME NEW steps \in SUBSET Announcing, AtWork(c, steps)
      PROVE  AtWork(c, steps)'
  BY <1>1 DEF AtWork
<1>2. ASSUME NEW op, Notifying(c, op)
      PROVE  Notifying(c, op)'
  BY <1>2 DEF Notifying, Announcing
<1>3. ASSUME NEW type, NEW u, PublishedTo(type, c, u)
      PROVE  PublishedTo(type, c, u)'
  BY <1>3 DEF PublishedTo
<1>4. Book!Parties(row'[c]) = Book!Parties(row[c])
  OBVIOUS
<1>5. /\ {"incoming", "ring"} \in SUBSET Announcing
      /\ {"push"} \in SUBSET Announcing
      /\ {"accepted"} \in SUBSET Announcing
  BY DEF Announcing
<1> QED
  BY <1>1, <1>2, <1>3, <1>4, <1>5 DEF Owed, Book!Parties

LEMMA AnnounceStep ==
  ASSUME IInv, AnnounceInv, RowsKept, sent \subseteq sent',
         NEW t \in Tasks, \A s \in Tasks \ {t} : task'[s] = task[s],
         Tells(t)',
         Untroubled' =>
           /\ Untroubled
           /\ \A c \in CallIds :
                \/ /\ row'[c] = row[c]
                   /\ ~(task[t].call = c /\ task[t].at \in Announcing)
                \/ Owed(c)'
  PROVE  AnnounceInv'
<1>1. \A s \in Tasks : Tells(s)'
  <2> TAKE s \in Tasks
  <2>1. CASE s = t
    BY <2>1
  <2>2. CASE s # t
    BY <2>2, KeepsTelling DEF AnnounceInv
  <2> QED
    BY <2>1, <2>2
<1>2. ASSUME Untroubled', NEW c \in CallIds
      PROVE  Owed(c)'
  <2>1. Owed(c)
    BY <1>2 DEF AnnounceInv
  <2> QED
    BY <1>2, <2>1, KeepsOwed
<1> QED
  BY <1>1, <1>2 DEF AnnounceInv

(* A task that announces nothing returns or goes on to announce nothing. *)
LEMMA QuietStep ==
  ASSUME IInv, AnnounceInv, RowsKept, sent' = sent,
         NEW t \in Tasks, task[t].at \notin Announcing,
         \A s \in Tasks \ {t} : task'[s] = task[s],
         Tells(t)',
         Untroubled' => Untroubled /\ UNCHANGED row
  PROVE  AnnounceInv'
BY AnnounceStep

LEMMA ReturnTells ==
  ASSUME IInv, NEW t \in Tasks, Return(t) PROVE Tells(t)'
<1>1. task'[t] = IdleTask
  BY DEF Return, IInv, TypeOK
<1> QED
  BY <1>1 DEF Tells, IdleTask, Handler, EndSteps

LEMMA SpawnAnnounces ==
  ASSUME IInv, AnnounceInv, NEW t \in Tasks, NEW new \in Task, Spawn(t, new),
         new.at \in {"checkReceiver", "acceptRead", "endRead"},
         new.at = "endRead" =>
           \/ new.op = "reject" /\ new.want \in {"rejected", "busy"}
           \/ new.op = "hangup" /\ new.want \in {"ended", "missed"},
         UNCHANGED <<row, sent, faults, crashes>>
  PROVE  AnnounceInv'
<1>1. task'[t] = new /\ \A s \in Tasks \ {t} : task'[s] = task[s]
  BY SpawnMoves
<1>2. Tells(t)'
  BY <1>1 DEF Tells, EndSteps
<1>3. task[t].at \notin Announcing
  BY DEF Spawn, Announcing
<1> QED
  BY <1>1, <1>2, <1>3, QuietStep, SameRowsAreGood DEF RowsGood, Untroubled

LEMMA ClientAnnounces == ASSUME IInv, AnnounceInv, Client PROVE AnnounceInv'
<1>1. ASSUME NEW t \in Tasks, NEW u \in Users, NEW v \in Users,
             ClientInitiate(t, u, v)
      PROVE  AnnounceInv'
  <2> DEFINE new == Handler("checkReceiver", "initiate", u, v, NoCall, "none")
  <2>1. new \in Task /\ new.at = "checkReceiver"
    BY DEF Handler, Task, Steps, InitiateSteps, Ops
  <2> HIDE DEF new
  <2>2. Spawn(t, new) /\ UNCHANGED <<row, sent, faults, crashes>>
    BY <1>1 DEF ClientInitiate, new
  <2> QED
    BY <2>1, <2>2, SpawnAnnounces
<1>2. ASSUME NEW t \in Tasks, NEW u \in Users,
             NEW c \in CallIds, c \in Told(u),
             NEW op \in {"accept", "reject", "hangup"},
             NEW want \in Book!Terminal \cup {"none"},
             NEW step \in {"acceptRead", "endRead"},
             step = "endRead" =>
               \/ op = "reject" /\ want \in {"rejected", "busy"}
               \/ op = "hangup" /\ want \in {"ended", "missed"},
             Spawn(t, Handler(step, op, u, NoUser, c, want)),
             UNCHANGED <<row, sent, faults, crashes>>
      PROVE  AnnounceInv'
  <2> DEFINE new == Handler(step, op, u, NoUser, c, want)
  <2>1. new \in Task /\ new.at = step /\ new.op = op /\ new.want = want
    BY DEF Handler, Task, Steps, AcceptSteps, EndSteps, Ops
  <2> HIDE DEF new
  <2>2. Spawn(t, new)
    BY <1>2 DEF new
  <2> QED
    BY <1>2, <2>1, <2>2, SpawnAnnounces
<1>3. ASSUME NEW t \in Tasks, NEW u \in Users, NEW c \in CallIds,
             ClientAccept(t, u, c)
      PROVE  AnnounceInv'
  BY <1>2, <1>3 DEF ClientAccept
<1>4. ASSUME NEW t \in Tasks, NEW u \in Users, NEW c \in CallIds,
             ClientReject(t, u, c)
      PROVE  AnnounceInv'
  BY <1>2, <1>4 DEF ClientReject, Book!Terminal
<1>5. ASSUME NEW t \in Tasks, NEW u \in Users, NEW c \in CallIds,
             ClientHangup(t, u, c)
      PROVE  AnnounceInv'
  BY <1>2, <1>5 DEF ClientHangup, Book!Terminal
<1>6. ASSUME NEW u \in Users, NEW v \in Users, NEW c \in CallIds,
             ClientIceCandidate(u, v, c)
      PROVE  AnnounceInv'
  <2>1. /\ sent \subseteq sent'
        /\ UNCHANGED <<row, task, faults, crashes>>
    BY <1>6 DEF ClientIceCandidate, publish
  <2>2. \A t \in Tasks : Tells(t)'
    BY <2>1, KeepsTelling, SameRowsAreGood DEF AnnounceInv, RowsGood
  <2>3. ASSUME Untroubled', NEW d \in CallIds PROVE Owed(d)'
    <3>1. Owed(d)
      BY <2>1, <2>3 DEF AnnounceInv, Untroubled
    <3> QED
      BY <2>1, <3>1 DEF Owed, PublishedTo, AtWork, Notifying, Book!Parties
  <2> QED
    BY <2>2, <2>3 DEF AnnounceInv
<1> QED
  BY <1>1, <1>3, <1>4, <1>5, <1>6 DEF Client

-----------------------------------------------------------------------------
LEMMA CheckReceiverAnnounces ==
  ASSUME IInv, AnnounceInv, NEW t \in Tasks, CheckReceiver(t)
  PROVE  AnnounceInv'
<1> USE DEF CheckReceiver
<1>1. /\ \A s \in Tasks \ {t} : task'[s] = task[s]
      /\ Tells(t)'
  BY ReturnFits, ReturnTells, GotoMoves DEF Tells, Steps, InitiateSteps,
     EndSteps
<1> QED
  BY <1>1, QuietStep, SameRowsAreGood DEF RowsGood, Announcing, Untroubled

LEMMA CheckCallerAnnounces ==
  ASSUME IInv, AnnounceInv, NEW t \in Tasks, CheckCaller(t)
  PROVE  AnnounceInv'
<1> USE DEF CheckCaller
<1>1. /\ \A s \in Tasks \ {t} : task'[s] = task[s]
      /\ Tells(t)'
  BY ReturnFits, ReturnTells, GotoMoves DEF Tells, Steps, InitiateSteps,
     EndSteps
<1> QED
  BY <1>1, QuietStep, SameRowsAreGood DEF RowsGood, Announcing, Untroubled

LEMMA AcceptReadAnnounces ==
  ASSUME IInv, AnnounceInv, NEW t \in Tasks, AcceptRead(t)
  PROVE  AnnounceInv'
<1> USE DEF AcceptRead
<1>1. /\ \A s \in Tasks \ {t} : task'[s] = task[s]
      /\ Tells(t)'
  BY ReturnFits, ReturnTells, GotoMoves DEF Tells, Steps, AcceptSteps,
     EndSteps
<1> QED
  BY <1>1, QuietStep, SameRowsAreGood DEF RowsGood, Announcing, Untroubled

(* A refused end_call keeps to what it would tell. *)
LEMMA RefusedTells ==
  ASSUME IInv, NEW t \in Tasks, EndCallRefused(t)
  PROVE  /\ \A s \in Tasks \ {t} : task'[s] = task[s]
         /\ Tells(t)'
<1>1. CASE Return(t)
  BY <1>1, ReturnFits, ReturnTells
<1>2. CASE /\ task[t].op = "hangup"
           /\ task' = [task EXCEPT ![t].at = "endRead", ![t].want = "missed"]
  <2>1. task[t] \in Task
    BY DEF IInv, TypeOK
  <2>2. /\ task'[t].at = "endRead"
        /\ task'[t].op = "hangup"
        /\ task'[t].want = "missed"
        /\ \A s \in Tasks \ {t} : task'[s] = task[s]
    BY <1>2, <2>1 DEF IInv, TypeOK, Task
  <2> QED
    BY <2>2 DEF Tells
<1> QED
  BY <1>1, <1>2 DEF EndCallRefused

LEMMA EndReadAnnounces ==
  ASSUME IInv, AnnounceInv, NEW t \in Tasks, EndRead(t)
  PROVE  AnnounceInv'
<1> DEFINE r == row[task[t].call]
<1>1. /\ \A s \in Tasks \ {t} : task'[s] = task[s]
      /\ Tells(t)'
  <2>1. CASE EndCallRefused(t)
    BY <2>1, RefusedTells
  <2>2. CASE task' = [task EXCEPT ![t].at = "endWrite",
                                  ![t].started = r.started]
    <3>1. task[t] \in Task /\ Tells(t)
      BY DEF IInv, TypeOK, AnnounceInv
    <3>2. /\ task'[t].at = "endWrite"
          /\ task'[t].op = task[t].op
          /\ task'[t].want = task[t].want
          /\ \A s \in Tasks \ {t} : task'[s] = task[s]
      BY <2>2, <3>1 DEF IInv, TypeOK, Task
    <3> QED
      BY <3>1, <3>2 DEF EndRead, Tells, EndSteps
  <2> QED
    BY <2>1, <2>2 DEF EndRead
<1> QED
  BY <1>1, QuietStep, SameRowsAreGood DEF EndRead, RowsGood, Announcing,
     Untroubled

-----------------------------------------------------------------------------
(* A write of a status: the task that made it is at work on the call. *)

LEMMA InsertCallAnnounces ==
  ASSUME IInv, AnnounceInv, NEW t \in Tasks, InsertCall(t)
  PROVE  AnnounceInv'
<1>1. PICK c \in CallIds :
        /\ row[c].status = "absent"
        /\ create(c, task[t].user, task[t].peer)
        /\ task' = [task EXCEPT ![t].at = "incoming", ![t].call = c]
  BY DEF InsertCall
<1>2. task[t].user \in Users /\ task[t].peer \in Users
  BY DEF InsertCall, IInv, TaskFits, InitiateSteps
<1>3. RowsKept /\ row'[c].status = "initiated"
  BY <1>1, <1>2, CreateIsGood DEF RowsGood
<1>4. \A d \in CallIds \ {c} : row'[d] = row[d]
  BY <1>1 DEF create, IInv, TypeOK
<1>5. /\ task'[t].at = "incoming"
      /\ task'[t].call = c
      /\ \A s \in Tasks \ {t} : task'[s] = task[s]
  <2>1. task[t] \in Task
    BY DEF IInv, TypeOK
  <2> QED
    BY <1>1, <2>1 DEF IInv, TypeOK, Task
<1>6. Tells(t)'
  BY <1>5 DEF Tells, EndSteps
<1>7. Owed(c)'
  BY <1>3, <1>5 DEF Owed, AtWork
<1> QED
  BY <1>3, <1>4, <1>5, <1>6, <1>7, AnnounceStep DEF InsertCall, Announcing,
     Untroubled

(* update_status leaves every other call as it is. *)
LEMMA WriteAnnounces ==
  ASSUME IInv, AnnounceInv, NEW t \in Tasks,
         NEW s \in Book!Active \cup Book!Terminal,
         NEW started \in BOOLEAN, NEW ended \in BOOLEAN,
         NEW c \in CallIds, c = task[t].call,
         update_status(c, s, started, ended),
         RowsKept, sent' = sent, UNCHANGED <<faults, crashes>>,
         \A u \in Tasks \ {t} : task'[u] = task[u],
         Tells(t)',
         row'[c].status = s => Owed(c)'
  PROVE  AnnounceInv'
<1>1. /\ \A d \in CallIds \ {c} : row'[d] = row[d]
      /\ row'[c].status = s
  BY UpdatedRow DEF IInv, TypeOK
<1> QED
  BY <1>1, AnnounceStep DEF Untroubled

LEMMA MarkRingingAnnounces ==
  ASSUME IInv, AnnounceInv, NEW t \in Tasks, MarkRinging(t)
  PROVE  AnnounceInv'
<1>0. PICK c \in CallIds : c = task[t].call
  BY DEF MarkRinging, IInv, TaskFits
<1>1. /\ task[t].at = "ring"
      /\ update_status(c, "ringing", FALSE, FALSE)
      /\ Goto(t, "push")
      /\ UNCHANGED <<sent, faults, crashes>>
  BY <1>0 DEF MarkRinging
<1>2. c \in CallIds /\ row[c].status # "absent"
  BY <1>0, <1>1 DEF IInv, TaskFits
<1>3. RowsKept /\ row'[c].receiver = row[c].receiver
  BY <1>0, <1>1, <1>2, RingIsGood DEF RowsGood, RowsKept
<1>4. PublishedTo("incoming", c, row[c].receiver)
  BY <1>0, <1>1 DEF AnnounceInv, Tells
<1>5. PublishedTo("incoming", c, row[c].receiver)'
  BY <1>0, <1>1, <1>3, <1>4 DEF PublishedTo
<1>6. /\ task'[t].at = "push"
      /\ task'[t].call = c
      /\ \A s \in Tasks \ {t} : task'[s] = task[s]
  BY <1>0, <1>1, GotoMoves DEF Steps, InitiateSteps
<1>7. Tells(t)'
  BY <1>0, <1>5, <1>6 DEF Tells, EndSteps
<1>8. row'[c].status = "ringing" => Owed(c)'
  BY <1>0, <1>5, <1>6 DEF Owed, AtWork
<1> QED
  BY <1>0, <1>1, <1>2, <1>3, <1>6, <1>7, <1>8, WriteAnnounces DEF Book!Active

LEMMA AcceptWriteAnnounces ==
  ASSUME IInv, AnnounceInv, NEW t \in Tasks, AcceptWrite(t)
  PROVE  AnnounceInv'
<1>0. PICK c \in CallIds : c = task[t].call
  BY DEF AcceptWrite, IInv, TaskFits, AcceptSteps
<1>1. /\ task[t].at = "acceptWrite"
      /\ update_status(c, "answered", TRUE, FALSE)
      /\ Goto(t, "accepted")
      /\ UNCHANGED <<sent, faults, crashes>>
  BY <1>0 DEF AcceptWrite
<1>2. c \in CallIds
  BY <1>0, <1>1 DEF IInv, TaskFits, AcceptSteps
<1>3. RowsKept
  BY <1>0, <1>1, AnswerIsGood DEF RowsGood
<1>4. /\ task'[t].at = "accepted"
      /\ task'[t].call = c
      /\ \A s \in Tasks \ {t} : task'[s] = task[s]
  BY <1>0, <1>1, GotoMoves DEF Steps, AcceptSteps
<1>5. Tells(t)'
  BY <1>0, <1>4 DEF Tells, EndSteps
<1>6. row'[c].status = "answered" => Owed(c)'
  BY <1>0, <1>4 DEF Owed, AtWork
<1> QED
  BY <1>0, <1>1, <1>2, <1>3, <1>4, <1>5, <1>6, WriteAnnounces DEF Book!Active

LEMMA EndWriteAnnounces ==
  ASSUME IInv, AnnounceInv, NEW t \in Tasks, EndWrite(t)
  PROVE  AnnounceInv'
<1>0. PICK c \in CallIds, w \in Book!Terminal :
        c = task[t].call /\ w = task[t].want
  BY DEF EndWrite, IInv, TaskFits, EndSteps
<1>1. /\ task[t].at = "endWrite"
      /\ update_status(c, w, task[t].started, TRUE)
      /\ Goto(t, "notify")
      /\ UNCHANGED <<sent, faults, crashes>>
  BY <1>0 DEF EndWrite
<1>2. /\ c \in CallIds
      /\ w \in Book!Terminal
      /\ task[t].started \in BOOLEAN
  BY <1>0, <1>1 DEF IInv, TypeOK, Task, TaskFits, EndSteps
<1>3. RowsKept
  BY <1>0, <1>1, EndIsGood DEF RowsGood
<1>4. \/ task[t].op = "reject" /\ w \in {"rejected", "busy"}
      \/ task[t].op = "hangup" /\ w \in {"ended", "missed"}
  BY <1>0, <1>1 DEF AnnounceInv, Tells, EndSteps
<1>5. /\ task'[t].at = "notify"
      /\ task'[t].call = c
      /\ task'[t].op = task[t].op
      /\ task'[t].want = w
      /\ \A s \in Tasks \ {t} : task'[s] = task[s]
  BY <1>0, <1>1, GotoMoves DEF Steps, EndSteps
<1>6. Tells(t)'
  BY <1>0, <1>4, <1>5 DEF Tells, EndSteps
<1>7. row'[c].status = w => Owed(c)'
  BY <1>0, <1>4, <1>5 DEF Owed, Notifying
<1> QED
  BY <1>0, <1>1, <1>2, <1>3, <1>5, <1>6, <1>7, WriteAnnounces

-----------------------------------------------------------------------------
(* A publication: what the task owed is among the events. *)

LEMMA PublishAnnounces ==
  ASSUME IInv, AnnounceInv, NEW t \in Tasks, task[t].at \in Announcing,
         UNCHANGED <<row, faults, crashes>>, sent \subseteq sent',
         \A s \in Tasks \ {t} : task'[s] = task[s],
         Tells(t)',
         NEW c \in CallIds, c = task[t].call, Owed(c) => Owed(c)'
  PROVE  AnnounceInv'
BY AnnounceStep, SameRowsAreGood DEF RowsGood, Untroubled, AnnounceInv

LEMMA PublishIncomingAnnounces ==
  ASSUME IInv, AnnounceInv, NEW t \in Tasks, PublishIncoming(t)
  PROVE  AnnounceInv'
<1>0. PICK c \in CallIds : c = task[t].call
  BY DEF PublishIncoming, IInv, TaskFits
<1>1. /\ task[t].at = "incoming"
      /\ publish("incoming", c, task[t].peer)
      /\ Goto(t, "ring")
      /\ UNCHANGED <<row, faults, crashes>>
  BY <1>0 DEF PublishIncoming
<1>2. task[t].peer = row[c].receiver
  BY <1>0, <1>1 DEF IInv, TaskFits
<1>3. sent \subseteq sent' /\ PublishedTo("incoming", c, row[c].receiver)'
  BY <1>0, <1>1, <1>2 DEF publish, PublishedTo
<1>4. /\ task'[t].at = "ring"
      /\ task'[t].call = c
      /\ \A s \in Tasks \ {t} : task'[s] = task[s]
  BY <1>0, <1>1, GotoMoves DEF Steps, InitiateSteps
<1>5. Tells(t)'
  BY <1>0, <1>1, <1>3, <1>4 DEF Tells, EndSteps
<1>6. Owed(c) => Owed(c)'
  BY <1>0, <1>1, <1>3, <1>4
  DEF Owed, AtWork, Notifying, PublishedTo, Book!Parties
<1> QED
  BY <1>0, <1>1, <1>3, <1>4, <1>5, <1>6, PublishAnnounces DEF Announcing

(* The last step of a handler. *)
LEMMA ReturnAnnounces ==
  ASSUME IInv, AnnounceInv, NEW t \in Tasks,
         task[t].at \in {"push", "accepted", "notify"},
         NEW c \in CallIds, c = task[t].call, NEW type, NEW u,
         publish(type, c, u), Return(t),
         UNCHANGED <<row, faults, crashes>>,
         LET r == row[c] IN
           /\ task[t].at = "push" => type = "push" /\ u = r.receiver
           /\ task[t].at = "accepted" => type = "accepted" /\ u = r.caller
           /\ task[t].at = "notify" /\ task[t].op = "reject" =>
                type = "rejected" /\ u = r.caller
           /\ task[t].at = "notify" /\ task[t].op = "hangup" =>
                type = "ended" /\ u \in Book!Parties(r)
  PROVE  AnnounceInv'
<1>1. sent \subseteq sent' /\ PublishedTo(type, c, u)'
  BY DEF publish, PublishedTo
<1>2. \A s \in Tasks \ {t} : task'[s] = task[s]
  BY ReturnFits
<1>3. Tells(t)'
  BY ReturnTells
<1>4. ASSUME NEW steps \in SUBSET {"incoming", "ring", "push", "accepted"},
             AtWork(c, steps), task[t].at \notin steps
      PROVE  AtWork(c, steps)'
  BY <1>2, <1>4 DEF AtWork
<1>5. ASSUME NEW op, Notifying(c, op),
             ~(task[t].at = "notify" /\ task[t].op = op)
      PROVE  Notifying(c, op)'
  BY <1>2, <1>5 DEF Notifying
<1>6. ASSUME NEW e, NEW v, PublishedTo(e, c, v) PROVE PublishedTo(e, c, v)'
  BY <1>1, <1>6 DEF PublishedTo
<1>7. Owed(c) => Owed(c)'
  <2> SUFFICES ASSUME Owed(c) PROVE Owed(c)'
    OBVIOUS
  <2>1. row[c].status = "initiated" => AtWork(c, {"incoming", "ring"})'
    BY <1>4 DEF Owed
  <2>2. row[c].status = "ringing" =>
          /\ PublishedTo("incoming", c, row[c].receiver)'
          /\ \/ PublishedTo("push", c, row[c].receiver)'
             \/ AtWork(c, {"push"})'
    BY <1>1, <1>4, <1>6 DEF Owed
  <2>3. row[c].status = "answered" =>
          \/ PublishedTo("accepted", c, row[c].caller)'
          \/ AtWork(c, {"accepted"})'
    BY <1>1, <1>4, <1>6 DEF Owed
  <2>4. row[c].status \in {"rejected", "busy"} =>
          PublishedTo("rejected", c, row[c].caller)' \/ Notifying(c, "reject")'
    BY <1>1, <1>5, <1>6 DEF Owed
  <2>5. row[c].status \in {"ended", "missed"} =>
          \/ \E v \in Book!Parties(row[c]) : PublishedTo("ended", c, v)'
          \/ Notifying(c, "hangup")'
    BY <1>1, <1>5, <1>6 DEF Owed
  <2> QED
    BY <2>1, <2>2, <2>3, <2>4, <2>5 DEF Owed, PublishedTo, Book!Parties
<1> QED
  BY <1>1, <1>2, <1>3, <1>7, PublishAnnounces DEF Announcing

LEMMA EnqueuePushAnnounces ==
  ASSUME IInv, AnnounceInv, NEW t \in Tasks, EnqueuePush(t)
  PROVE  AnnounceInv'
<1>1. /\ task[t].at = "push"
      /\ task[t].call \in CallIds
      /\ task[t].peer = row[task[t].call].receiver
  BY DEF EnqueuePush, IInv, TaskFits
<1> QED
  BY <1>1, ReturnAnnounces DEF EnqueuePush

LEMMA PublishAcceptedAnnounces ==
  ASSUME IInv, AnnounceInv, NEW t \in Tasks, PublishAccepted(t)
  PROVE  AnnounceInv'
<1>1. task[t].call \in CallIds
  BY DEF PublishAccepted, IInv, TaskFits, AcceptSteps
<1> QED
  BY <1>1, ReturnAnnounces DEF PublishAccepted

LEMMA NotifyEndAnnounces ==
  ASSUME IInv, AnnounceInv, NEW t \in Tasks, NotifyEnd(t)
  PROVE  AnnounceInv'
<1> DEFINE r == row[task[t].call]
<1>1. /\ task[t].at = "notify"
      /\ task[t].op \in {"reject", "hangup"}
      /\ task[t].call \in CallIds
  BY DEF NotifyEnd, AnnounceInv, IInv, TaskFits, Tells, EndSteps
<1>2. CASE task[t].op = "reject"
  <2>1. publish("rejected", task[t].call, r.caller)
    BY <1>2 DEF NotifyEnd, NotifyTarget
  <2> QED
    BY <1>1, <1>2, <2>1, ReturnAnnounces DEF NotifyEnd
<1>3. CASE task[t].op = "hangup"
  <2>1. /\ publish("ended", task[t].call, NotifyTarget(t))
        /\ NotifyTarget(t) \in Book!Parties(r)
    BY <1>3 DEF NotifyEnd, NotifyTarget, Book!Parties
  <2> QED
    BY <1>1, <1>3, <2>1, ReturnAnnounces DEF NotifyEnd
<1> QED
  BY <1>1, <1>2, <1>3

-----------------------------------------------------------------------------
(* After a failure nothing is owed, but the tasks still keep to what they  *)
(* would tell.                                                             *)

LEMMA TroubledStep ==
  ASSUME IInv, AnnounceInv, RowsKept, sent' = sent,
         NEW t \in Tasks, \A s \in Tasks \ {t} : task'[s] = task[s],
         Tells(t)', ~Untroubled'
  PROVE  AnnounceInv'
BY AnnounceStep

LEMMA RingTroubled ==
  ASSUME IInv, AnnounceInv, RowsKept, sent' = sent, NEW t \in Tasks,
         task[t].at = "ring", Goto(t, "push"), ~Untroubled'
  PROVE  AnnounceInv'
<1>0. PICK c \in CallIds : c = task[t].call
  BY DEF IInv, TaskFits
<1>1. c \in CallIds /\ row[c].status # "absent"
  BY <1>0 DEF IInv, TaskFits
<1>2. row'[c].receiver = row[c].receiver
  BY <1>0, <1>1 DEF RowsKept
<1>3. PublishedTo("incoming", c, row[c].receiver)
  BY <1>0 DEF AnnounceInv, Tells
<1>4. PublishedTo("incoming", c, row[c].receiver)'
  BY <1>0, <1>2, <1>3 DEF PublishedTo
<1>5. /\ task'[t].at = "push"
      /\ task'[t].call = c
      /\ \A s \in Tasks \ {t} : task'[s] = task[s]
  BY <1>0, GotoMoves DEF Steps, InitiateSteps
<1>6. Tells(t)'
  BY <1>0, <1>4, <1>5 DEF Tells, EndSteps
<1> QED
  BY <1>0, <1>5, <1>6, TroubledStep

LEMMA QueryFailsAnnounces ==
  ASSUME IInv, AnnounceInv, NEW t \in Tasks, QueryFails(t)
  PROVE  AnnounceInv'
<1>1. ~Untroubled' /\ sent' = sent /\ UNCHANGED row
  BY DEF QueryFails, Untroubled, IInv, TypeOK
<1>2. RowsKept
  BY <1>1, SameRowsAreGood DEF RowsGood
<1>3. CASE Return(t)
  BY <1>1, <1>2, <1>3, ReturnFits, ReturnTells, TroubledStep
<1>4. CASE task[t].at = "ring" /\ Goto(t, "push")
  BY <1>1, <1>2, <1>4, RingTroubled
<1>5. CASE EndCallRefused(t)
  BY <1>1, <1>2, <1>5, RefusedTells, TroubledStep
<1> QED
  BY <1>3, <1>4, <1>5 DEF QueryFails

LEMMA ReplyLostAnnounces ==
  ASSUME IInv, AnnounceInv, NEW t \in Tasks, ReplyLost(t)
  PROVE  AnnounceInv'
<1>1. ~Untroubled' /\ sent' = sent
  BY DEF ReplyLost, Untroubled, IInv, TypeOK
<1>2. ASSUME task[t].at = "insert", Return(t), NEW c \in CallIds,
             row[c].status = "absent", create(c, task[t].user, task[t].peer)
      PROVE  AnnounceInv'
  <2>1. task[t].user \in Users /\ task[t].peer \in Users
    BY <1>2 DEF IInv, TaskFits, InitiateSteps
  <2>2. RowsKept
    BY <1>2, <2>1, CreateIsGood DEF RowsGood
  <2> QED
    BY <1>1, <1>2, <2>2, ReturnFits, ReturnTells, TroubledStep
<1>3. CASE /\ task[t].at = "ring"
           /\ update_status(task[t].call, "ringing", FALSE, FALSE)
           /\ Goto(t, "push")
  BY <1>1, <1>3, RingIsGood, RingTroubled DEF RowsGood
<1>4. CASE /\ task[t].at = "acceptWrite"
           /\ update_status(task[t].call, "answered", TRUE, FALSE)
           /\ Return(t)
  BY <1>1, <1>4, AnswerIsGood, ReturnFits, ReturnTells, TroubledStep
  DEF RowsGood
<1>5. CASE /\ task[t].at = "endWrite"
           /\ update_status(task[t].call, task[t].want, task[t].started, TRUE)
           /\ EndCallRefused(t)
  BY <1>1, <1>5, EndIsGood, RefusedTells, TroubledStep DEF RowsGood
<1> QED
  BY <1>2, <1>3, <1>4, <1>5 DEF ReplyLost

LEMMA CrashAnnounces == ASSUME IInv, AnnounceInv, Crash PROVE AnnounceInv'
<1>1. ~Untroubled'
  BY DEF Crash, Untroubled, IInv, TypeOK
<1>2. \A t \in Tasks : Tells(t)'
  BY DEF Crash, Tells, IdleTask, Handler, EndSteps
<1> QED
  BY <1>1, <1>2 DEF AnnounceInv

LEMMA NextAnnounces == IInv /\ AnnounceInv /\ [Next]_vars => AnnounceInv'
<1> SUFFICES ASSUME IInv, AnnounceInv, [Next]_vars PROVE AnnounceInv'
  OBVIOUS
<1>1. ASSUME NEW t \in Tasks, TaskStep(t) PROVE AnnounceInv'
  BY <1>1, CheckReceiverAnnounces, CheckCallerAnnounces, InsertCallAnnounces,
     PublishIncomingAnnounces, MarkRingingAnnounces, EnqueuePushAnnounces,
     AcceptReadAnnounces, AcceptWriteAnnounces, PublishAcceptedAnnounces,
     EndReadAnnounces, EndWriteAnnounces, NotifyEndAnnounces
  DEF TaskStep
<1>2. CASE UNCHANGED vars
  <2>1. \A t \in Tasks : Tells(t)'
    BY <1>2 DEF vars, AnnounceInv, Tells, PublishedTo
  <2>2. \A c \in CallIds : Owed(c) => Owed(c)'
    BY <1>2 DEF vars, Owed, PublishedTo, AtWork, Notifying, Book!Parties
  <2>3. Untroubled' => Untroubled
    BY <1>2 DEF vars, Untroubled
  <2> QED
    BY <2>1, <2>2, <2>3 DEF AnnounceInv
<1> QED
  BY <1>1, <1>2, ClientAnnounces, QueryFailsAnnounces, ReplyLostAnnounces,
     CrashAnnounces
  DEF Next

(* Unless a query failed or the server crashed, no call is left without    *)
(* the announcement of the status it has: whichever of mark_ringing,       *)
(* accept_call and end_call wrote last has published, or will.             *)
THEOREM OutcomeAlwaysAnnounced == Spec => []OutcomeIsAnnounced
<1>1. Init => AnnounceInv
  BY DEF Init, AnnounceInv, Tells, Owed, IdleTask, Handler, EndSteps,
     Book!AbsentRow
<1>2. IInv /\ AnnounceInv => OutcomeIsAnnounced
  <2> SUFFICES ASSUME IInv, AnnounceInv, Untroubled, NEW c \in CallIds,
                      \A t \in Tasks : task[t].call # c
               PROVE  Announced(c)
    BY DEF OutcomeIsAnnounced, Untroubled
  <2>1. /\ Owed(c)
        /\ \A steps : ~AtWork(c, steps)
        /\ \A op : ~Notifying(c, op)
    BY DEF AnnounceInv, AtWork, Notifying
  <2>2. row[c].status \in {"absent", "initiated", "ringing", "answered",
                           "rejected", "busy", "ended", "missed"}
    BY DEF IInv, TypeOK, Book!Row, Book!Active, Book!Terminal
  <2> QED
    BY <2>1, <2>2 DEF Owed, PublishedTo, Announced, Book!Parties
<1> QED
  BY <1>1, <1>2, Invariance, NextAnnounces, PTL DEF Spec

-----------------------------------------------------------------------------
(***************************************************************************)
(* What the atomic book of calls entails (module CallBook).                *)
(***************************************************************************)

(* The row that Open writes is a row, and only its own call changes. *)
LEMMA OpenedRow ==
  ASSUME Book!BookTypeOK, NEW c \in CallIds, NEW u \in Users, NEW v \in Users,
         Book!Open(c, u, v)
  PROVE  /\ row'[c] = [status |-> "initiated", caller |-> u, receiver |-> v,
                       started |-> FALSE, ended |-> FALSE]
         /\ \A d \in CallIds \ {c} : row'[d] = row[d]
BY DEF Book!Open, Book!BookTypeOK, Book!NewRow

(* Every row of the book is a well-formed row (the calls table's columns). *)
THEOREM BookTypeCorrect == Book!Spec => []Book!BookTypeOK
<1>1. Book!Init => Book!BookTypeOK
  BY DEF Book!Init, Book!BookTypeOK, Book!AbsentRow, Book!Row
<1>2. Book!BookTypeOK /\ [Book!Next]_row => Book!BookTypeOK'
  <2> SUFFICES ASSUME Book!BookTypeOK, [Book!Next]_row PROVE Book!BookTypeOK'
    OBVIOUS
  <2>1. ASSUME NEW c \in CallIds, NEW u \in Users, NEW v \in Users,
               Book!Open(c, u, v)
        PROVE  Book!BookTypeOK'
    BY <2>1 DEF Book!Open, Book!BookTypeOK, Book!Row, Book!NewRow, Book!Active
  <2>2. ASSUME NEW c \in CallIds, Book!Ring(c) PROVE Book!BookTypeOK'
    BY <2>2 DEF Book!Ring, Book!BookTypeOK, Book!Row, Book!Active
  <2>3. ASSUME NEW c \in CallIds, Book!Answer(c) PROVE Book!BookTypeOK'
    BY <2>3 DEF Book!Answer, Book!BookTypeOK, Book!Row, Book!Active
  <2>4. ASSUME NEW c \in CallIds, NEW s \in Book!Terminal, Book!Finish(c, s)
        PROVE  Book!BookTypeOK'
    <3> DEFINE r == [row[c] EXCEPT !.status = s, !.ended = TRUE]
    <3>1. row[c] \in Book!Row /\ row' = [row EXCEPT ![c] = r]
      BY <2>4 DEF Book!Finish, Book!BookTypeOK
    <3>2. r \in Book!Row
      BY <3>1 DEF Book!Row
    <3> HIDE DEF r
    <3> QED
      BY <3>1, <3>2 DEF Book!BookTypeOK
  <2>5. CASE UNCHANGED row
    BY <2>5 DEF Book!BookTypeOK
  <2> QED
    BY <2>1, <2>2, <2>3, <2>4, <2>5 DEF Book!Next
<1> QED
  BY <1>1, <1>2, PTL DEF Book!Spec

(* initiate_call's promise: no user is a party of two active calls. Open   *)
(* checks both parties; no other operation makes a call active again.      *)
THEOREM BookOneActiveCall == Book!Spec => []Book!OneActiveCall
<1>1. Book!Init => Book!OneActiveCall
  BY DEF Book!Init, Book!OneActiveCall, Book!AbsentRow, Book!Active
<1>2. Book!BookTypeOK /\ Book!OneActiveCall /\ [Book!Next]_row =>
    Book!OneActiveCall'
  <2> SUFFICES ASSUME Book!BookTypeOK, Book!OneActiveCall, [Book!Next]_row
               PROVE  Book!OneActiveCall'
    OBVIOUS
  <2>1. ASSUME NEW c \in CallIds, NEW u \in Users, NEW v \in Users,
               Book!Open(c, u, v)
        PROVE  Book!OneActiveCall'
    <3>0. /\ row'[c] = [status |-> "initiated", caller |-> u,
                        receiver |-> v, started |-> FALSE, ended |-> FALSE]
          /\ \A d \in CallIds \ {c} : row'[d] = row[d]
      BY <2>1, OpenedRow, Zenon
    <3>1. row'[c].caller = u /\ row'[c].receiver = v
      BY <3>0
    <3>2. \A d \in CallIds : row[d].status \in Book!Active =>
            Book!Parties(row[d]) \cap {u, v} = {}
      BY <2>1 DEF Book!Open, Book!InActiveCall
    <3> QED
      BY <3>0, <3>1, <3>2 DEF Book!OneActiveCall, Book!Parties
  <2>2. ASSUME NEW c \in CallIds,
               \A d \in CallIds : Book!Parties(row'[d]) = Book!Parties(row[d]),
               \A d \in CallIds :
                 row'[d].status \in Book!Active =>
                     row[d].status \in Book!Active
        PROVE  Book!OneActiveCall'
    BY <2>2 DEF Book!OneActiveCall
  <2>3. ASSUME NEW c \in CallIds, Book!Ring(c) PROVE Book!OneActiveCall'
    BY <2>2, <2>3 DEF Book!Ring, Book!BookTypeOK, Book!Row, Book!Active,
       Book!Parties
  <2>4. ASSUME NEW c \in CallIds, Book!Answer(c) PROVE Book!OneActiveCall'
    BY <2>2, <2>4 DEF Book!Answer, Book!BookTypeOK, Book!Row, Book!Active,
       Book!Parties
  <2>5. ASSUME NEW c \in CallIds, NEW s \in Book!Terminal, Book!Finish(c, s)
        PROVE  Book!OneActiveCall'
    BY <2>2, <2>5 DEF Book!Finish, Book!BookTypeOK, Book!Row, Book!Active,
       Book!Terminal, Book!Parties
  <2>6. CASE UNCHANGED row
    BY <2>6 DEF Book!OneActiveCall
  <2> QED
    BY <2>1, <2>3, <2>4, <2>5, <2>6 DEF Book!Next
<1> QED
  BY <1>1, <1>2, BookTypeCorrect, PTL DEF Book!Spec

(* A terminal status is final: no operation touches the row again. *)
THEOREM BookTerminalIsFinal == Book!Spec => Book!TerminalIsFinal
<1> DEFINE Final ==
      \A c \in CallIds : row[c].status \in Book!Terminal => row'[c] = row[c]
<1>1. Book!BookTypeOK /\ [Book!Next]_row => [Final]_row
  <2> SUFFICES ASSUME Book!BookTypeOK, Book!Next PROVE Final
    OBVIOUS
  <2>1. PICK c \in CallIds : \/ \E u, v \in Users : Book!Open(c, u, v)
                             \/ Book!Ring(c)
                             \/ Book!Answer(c)
                             \/ \E s \in Book!Terminal : Book!Finish(c, s)
    BY DEF Book!Next
  <2>2. row[c].status \notin Book!Terminal
    BY <2>1 DEF Book!Open, Book!Ring, Book!Answer, Book!Finish, Book!Active,
       Book!Terminal
  <2>3. \A d \in CallIds \ {c} : row'[d] = row[d]
    BY <2>1 DEF Book!Open, Book!Ring, Book!Answer, Book!Finish, Book!BookTypeOK
  <2> QED
    BY <2>2, <2>3
<1> QED
  BY <1>1, BookTypeCorrect, PTL DEF Book!Spec, Book!TerminalIsFinal

-----------------------------------------------------------------------------
(* The task of a serial server: what it read is true of the table still.   *)
ReadHolds(t) ==
  LET k == task[t] IN
    /\ k.at \in {"checkCaller", "insert"} =>
         k.user # k.peer /\ ~Book!InActiveCall(k.peer)
    /\ k.at = "insert" => ~Book!InActiveCall(k.user)
    /\ k.at \in {"incoming", "ring"} => row[k.call].status = "initiated"
    /\ k.at = "acceptWrite" => row[k.call].status \in {"initiated", "ringing"}
    /\ k.at = "endWrite" =>
         row[k.call].status \in Book!Active /\ k.started = row[k.call].started

SerialInv == \A t \in Tasks : ReadHolds(t)

(* The moves of the only task, and the rows they leave alone. *)
OnlyTask == \A s, t \in Tasks : s = t

LEMMA SerialStep ==
  ASSUME OnlyTask, NEW t \in Tasks, ReadHolds(t)'
  PROVE  SerialInv'
BY DEF OnlyTask, SerialInv

LEMMA IdleReadHolds ==
  ASSUME IInv, NEW t \in Tasks, Return(t)
  PROVE  ReadHolds(t)'
<1>1. task'[t] = IdleTask
  BY DEF Return, IInv, TypeOK
<1> QED
  BY <1>1 DEF ReadHolds, IdleTask, Handler

LEMMA RefusedReadHolds ==
  ASSUME IInv, NEW t \in Tasks, EndCallRefused(t)
  PROVE  ReadHolds(t)'
<1>1. CASE Return(t)
  BY <1>1, IdleReadHolds
<1>2. CASE task' = [task EXCEPT ![t].at = "endRead", ![t].want = "missed"]
  <2>1. task[t] \in Task
    BY DEF IInv, TypeOK
  <2>2. task'[t].at = "endRead"
    BY <1>2, <2>1 DEF IInv, TypeOK, Task
  <2> QED
    BY <2>2 DEF ReadHolds
<1> QED
  BY <1>1, <1>2 DEF EndCallRefused

LEMMA SpawnReadHolds ==
  ASSUME IInv, NEW t \in Tasks, NEW new \in Task, Spawn(t, new),
         new.at \in {"checkReceiver", "acceptRead", "endRead"}
  PROVE  ReadHolds(t)'
<1>1. task'[t] = new
  BY SpawnMoves
<1> QED
  BY <1>1 DEF ReadHolds

LEMMA ClientSerial ==
  ASSUME OnlyTask, IInv, SerialInv, Client
  PROVE  SerialInv' /\ UNCHANGED row
<1>1. UNCHANGED row
  BY DEF Client, ClientInitiate, ClientAccept, ClientReject, ClientHangup,
     ClientIceCandidate
<1>2. ASSUME NEW t \in Tasks, NEW at \in {"checkReceiver", "acceptRead",
                                          "endRead"},
             NEW op \in Ops, NEW u \in Users, NEW v \in Users \cup {NoUser},
             NEW c \in CallIds \cup {NoCall},
             NEW want \in Book!Terminal \cup {"none"},
             Spawn(t, Handler(at, op, u, v, c, want))
      PROVE  SerialInv'
  <2> DEFINE new == Handler(at, op, u, v, c, want)
  <2>1. new \in Task /\ new.at = at
    BY DEF Handler, Task, Steps, InitiateSteps, AcceptSteps, EndSteps
  <2> HIDE DEF new
  <2>2. Spawn(t, new)
    BY <1>2 DEF new
  <2> QED
    BY <2>1, <2>2, SpawnReadHolds, SerialStep
<1>3. ASSUME NEW t \in Tasks, NEW u \in Users, NEW v \in Users,
             ClientInitiate(t, u, v)
      PROVE  SerialInv'
  BY <1>2, <1>3 DEF ClientInitiate, Ops
<1>4. ASSUME NEW t \in Tasks, NEW u \in Users, NEW c \in CallIds,
             \/ ClientAccept(t, u, c)
             \/ ClientReject(t, u, c)
             \/ ClientHangup(t, u, c)
      PROVE  SerialInv'
  BY <1>2, <1>4
  DEF ClientAccept, ClientReject, ClientHangup, Ops, Book!Terminal
<1>5. ASSUME NEW u \in Users, NEW v \in Users, NEW c \in CallIds,
             ClientIceCandidate(u, v, c)
      PROVE  SerialInv'
  BY <1>5 DEF ClientIceCandidate, SerialInv, ReadHolds, Book!InActiveCall,
     Book!Parties
<1> QED
  BY <1>1, <1>3, <1>4, <1>5 DEF Client

(* The steps that write no row. *)
LEMMA QuietSerial ==
  ASSUME OnlyTask, IInv, SerialInv, NEW t \in Tasks,
         \/ CheckReceiver(t) \/ CheckCaller(t) \/ PublishIncoming(t)
         \/ EnqueuePush(t) \/ AcceptRead(t) \/ PublishAccepted(t)
         \/ EndRead(t) \/ NotifyEnd(t) \/ QueryFails(t)
  PROVE  SerialInv' /\ UNCHANGED row
<1>1. UNCHANGED row
  BY DEF CheckReceiver, CheckCaller, PublishIncoming, EnqueuePush, AcceptRead,
     PublishAccepted, EndRead, NotifyEnd, QueryFails
<1>2. ReadHolds(t)
  BY DEF SerialInv
<1>3. CASE Return(t) \/ EndCallRefused(t)
  BY <1>1, <1>3, IdleReadHolds, RefusedReadHolds, SerialStep
<1>4. CASE /\ task[t].at = "checkReceiver" /\ Goto(t, "checkCaller")
           /\ task[t].user # task[t].peer
           /\ ~Book!InActiveCall(task[t].peer)
  BY <1>1, <1>4, GotoMoves, SerialStep
  DEF ReadHolds, Steps, InitiateSteps, Book!InActiveCall, Book!Parties
<1>5. CASE /\ task[t].at = "checkCaller" /\ Goto(t, "insert")
           /\ ~Book!InActiveCall(task[t].user)
  BY <1>1, <1>2, <1>5, GotoMoves, SerialStep
  DEF ReadHolds, Steps, InitiateSteps, Book!InActiveCall, Book!Parties
<1>6. CASE task[t].at = "incoming" /\ Goto(t, "ring")
  BY <1>1, <1>2, <1>6, GotoMoves, SerialStep
  DEF ReadHolds, Steps, InitiateSteps
<1>7. CASE Goto(t, "push")
  <2>1. task'[t].at = "push"
    BY <1>7, GotoMoves DEF Steps, InitiateSteps
  <2>2. ReadHolds(t)'
    BY <2>1 DEF ReadHolds
  <2> QED
    BY <1>1, <2>2, SerialStep
<1>8. CASE /\ Goto(t, "acceptWrite")
           /\ row[task[t].call].status \in {"initiated", "ringing"}
  BY <1>1, <1>8, GotoMoves, SerialStep DEF ReadHolds, Steps, AcceptSteps
<1>9. CASE LET r == row[task[t].call] IN
             /\ r.status \in Book!Active
             /\ task' = [task EXCEPT ![t].at = "endWrite",
                                     ![t].started = r.started]
  <2>1. task[t] \in Task
    BY DEF IInv, TypeOK
  <2>2. /\ task'[t].at = "endWrite"
        /\ task'[t].call = task[t].call
        /\ task'[t].started = row[task[t].call].started
    BY <1>9, <2>1 DEF IInv, TypeOK, Task
  <2> QED
    BY <1>1, <1>9, <2>2, SerialStep DEF ReadHolds
<1> QED
  BY <1>1, <1>3, <1>4, <1>5, <1>6, <1>7, <1>8, <1>9
  DEF CheckReceiver, CheckCaller, PublishIncoming, EnqueuePush, AcceptRead,
      PublishAccepted, EndRead, NotifyEnd, QueryFails, is_user_in_active_call

-----------------------------------------------------------------------------
(* The steps that write a row are steps of the book. *)

LEMMA BookOpens ==
  ASSUME IInv, SerialInv, NEW t \in Tasks, task[t].at = "insert",
         NEW c \in CallIds, row[c].status = "absent",
         create(c, task[t].user, task[t].peer)
  PROVE  Book!Next
<1>1. /\ task[t].user \in Users /\ task[t].peer \in Users
      /\ task[t].user # task[t].peer
      /\ ~Book!InActiveCall(task[t].user)
      /\ ~Book!InActiveCall(task[t].peer)
  BY DEF IInv, TaskFits, InitiateSteps, SerialInv, ReadHolds
<1>2. Book!Open(c, task[t].user, task[t].peer)
  BY <1>1 DEF Book!Open, create
<1> QED
  BY <1>1, <1>2 DEF Book!Next

LEMMA BookRings ==
  ASSUME IInv, SerialInv, NEW t \in Tasks, task[t].at = "ring",
         update_status(task[t].call, "ringing", FALSE, FALSE)
  PROVE  Book!Next
<1>1. PICK c \in CallIds : c = task[t].call /\ row[c].status = "initiated"
  BY DEF IInv, TaskFits, SerialInv, ReadHolds
<1>2. row[c] \in Book!Row /\ row[c].ended = FALSE
  BY <1>1 DEF IInv, TypeOK, TimestampsAgree, Book!Row, Book!Terminal
<1>3. row' = [row EXCEPT ![c] = [row[c] EXCEPT !.status = "ringing",
                !.started = row[c].started \/ FALSE, !.ended = FALSE]]
  BY <1>1 DEF update_status
<1>4. [row[c] EXCEPT !.status = "ringing",
                !.started = row[c].started \/ FALSE, !.ended = FALSE]
        = [row[c] EXCEPT !.status = "ringing"]
  BY <1>2 DEF Book!Row
<1>5. Book!Ring(c)
  BY <1>1, <1>3, <1>4 DEF Book!Ring
<1> QED
  BY <1>5 DEF Book!Next

LEMMA BookAnswers ==
  ASSUME IInv, SerialInv, NEW t \in Tasks, task[t].at = "acceptWrite",
         update_status(task[t].call, "answered", TRUE, FALSE)
  PROVE  Book!Next
<1>1. PICK c \in CallIds : /\ c = task[t].call
                           /\ row[c].status \in {"initiated", "ringing"}
  BY DEF IInv, TaskFits, AcceptSteps, SerialInv, ReadHolds
<1>2. row[c] \in Book!Row /\ row[c].ended = FALSE
  BY <1>1 DEF IInv, TypeOK, TimestampsAgree, Book!Row, Book!Terminal
<1>3. row' = [row EXCEPT ![c] = [row[c] EXCEPT !.status = "answered",
                !.started = row[c].started \/ TRUE, !.ended = FALSE]]
  BY <1>1 DEF update_status
<1>4. [row[c] EXCEPT !.status = "answered",
                !.started = row[c].started \/ TRUE, !.ended = FALSE]
        = [row[c] EXCEPT !.status = "answered", !.started = TRUE]
  BY <1>2 DEF Book!Row
<1>5. Book!Answer(c)
  BY <1>1, <1>3, <1>4 DEF Book!Answer
<1> QED
  BY <1>5 DEF Book!Next

LEMMA BookFinishes ==
  ASSUME IInv, SerialInv, NEW t \in Tasks, task[t].at = "endWrite",
         update_status(task[t].call, task[t].want, task[t].started, TRUE)
  PROVE  Book!Next
<1>1. PICK c \in CallIds, w \in Book!Terminal :
        /\ c = task[t].call
        /\ w = task[t].want
        /\ row[c].status \in Book!Active
        /\ task[t].started = row[c].started
  BY DEF IInv, TaskFits, EndSteps, SerialInv, ReadHolds
<1>2. row[c] \in Book!Row
  BY DEF IInv, TypeOK
<1>3. row' = [row EXCEPT ![c] = [row[c] EXCEPT !.status = w,
                !.started = row[c].started \/ row[c].started, !.ended = TRUE]]
  BY <1>1 DEF update_status
<1>4. [row[c] EXCEPT !.status = w,
                !.started = row[c].started \/ row[c].started, !.ended = TRUE]
        = [row[c] EXCEPT !.status = w, !.ended = TRUE]
  BY <1>2 DEF Book!Row
<1>5. Book!Finish(c, w)
  BY <1>1, <1>3, <1>4 DEF Book!Finish
<1> QED
  BY <1>5 DEF Book!Next

LEMMA WriteSerial ==
  ASSUME OnlyTask, IInv, SerialInv, NEW t \in Tasks,
         \/ InsertCall(t) \/ MarkRinging(t) \/ AcceptWrite(t) \/ EndWrite(t)
         \/ ReplyLost(t)
  PROVE  SerialInv' /\ Book!Next
<1>1. Book!Next
  BY BookOpens, BookRings, BookAnswers, BookFinishes
  DEF InsertCall, MarkRinging, AcceptWrite, EndWrite, ReplyLost
<1>2. CASE Return(t) \/ EndCallRefused(t)
  BY <1>1, <1>2, IdleReadHolds, RefusedReadHolds, SerialStep
<1>3. CASE \E step \in {"push", "accepted", "notify"} : Goto(t, step)
  BY <1>1, <1>3, GotoMoves, SerialStep
  DEF ReadHolds, Steps, InitiateSteps, AcceptSteps, EndSteps
<1>4. CASE InsertCall(t)
  <2>1. PICK c \in CallIds :
          /\ row[c].status = "absent"
          /\ create(c, task[t].user, task[t].peer)
          /\ task' = [task EXCEPT ![t].at = "incoming", ![t].call = c]
    BY <1>4 DEF InsertCall
  <2>2. task[t].user \in Users /\ task[t].peer \in Users
    BY <1>4 DEF InsertCall, IInv, TaskFits, InitiateSteps
  <2>3. row'[c].status = "initiated"
    BY <2>1, <2>2, CreateIsGood
  <2>4. task[t] \in Task
    BY DEF IInv, TypeOK
  <2>5. task'[t].at = "incoming" /\ task'[t].call = c
    BY <2>1, <2>4 DEF IInv, TypeOK, Task
  <2> QED
    BY <1>1, <2>3, <2>5, SerialStep DEF ReadHolds
<1> QED
  BY <1>2, <1>3, <1>4
  DEF InsertCall, MarkRinging, AcceptWrite, EndWrite, ReplyLost

LEMMA NextSerial ==
  ASSUME OnlyTask
  PROVE  IInv /\ SerialInv /\ [Next]_vars => SerialInv' /\ [Book!Next]_row
<1> SUFFICES ASSUME IInv, SerialInv, [Next]_vars
             PROVE  SerialInv' /\ [Book!Next]_row
  OBVIOUS
<1>1. ASSUME NEW t \in Tasks, TaskStep(t) \/ QueryFails(t) \/ ReplyLost(t)
      PROVE  SerialInv' /\ [Book!Next]_row
  BY <1>1, QuietSerial, WriteSerial DEF TaskStep
<1>2. CASE Crash
  BY <1>2 DEF Crash, SerialInv, ReadHolds, IdleTask, Handler
<1>3. CASE UNCHANGED vars
  BY <1>3 DEF vars, SerialInv, ReadHolds, Book!InActiveCall, Book!Parties
<1> QED
  BY <1>1, <1>2, <1>3, ClientSerial DEF Next

(* If the handlers ran one at a time, each to its end or to a failure or a *)
(* crash of the server, their queries would keep every promise of the      *)
(* book of calls. What breaks them is the interleaving alone.              *)
THEOREM SerialKeepsTheBook ==
  ASSUME \A s, t \in Tasks : s = t
  PROVE  Spec => ImplementsBook
<1>1. OnlyTask
  BY DEF OnlyTask
<1>2. Init => SerialInv
  BY DEF Init, SerialInv, ReadHolds, IdleTask, Handler
<1>3. Init => Book!Init
  BY DEF Init, Book!Init
<1>4. IInv /\ SerialInv /\ [Next]_vars => SerialInv' /\ [Book!Next]_row
  BY <1>1, NextSerial
<1> QED
  BY <1>2, <1>3, <1>4, Invariance, PTL DEF Spec, ImplementsBook, Book!Spec
=============================================================================
