-------------------------------- MODULE Calls --------------------------------
(***************************************************************************)
(* WebRTC call signalling, as the code performs it: every message of a     *)
(* client about a call is handled by a spawned task (ws/handlers.rs,       *)
(* 355-633) that runs CallService and publishes an event, and every await  *)
(* of that task is a step of its own. Any number of tasks, also of one     *)
(* socket, interleave between their steps; a crash of the server loses     *)
(* them all and keeps the calls table.                                     *)
(*                                                                         *)
(* The calls table, its statuses and rows are those of module CallBook,    *)
(* which states what the service promises.                                 *)
(***************************************************************************)
EXTENDS Naturals

CONSTANTS
  Users, CallIds,
  Tasks,        \* handler tasks that can be in flight at once
  NoUser, NoCall,
  MaxFaults,    \* bound: database queries that fail in a behaviour
  MaxCrashes    \* bound: crashes of the server in a behaviour

ASSUME NoUserIsNoUser == NoUser \notin Users
ASSUME NoCallIsNoCall == NoCall \notin CallIds
ASSUME BoundsAreNaturals == MaxFaults \in Nat /\ MaxCrashes \in Nat

VARIABLES
  row,      \* the calls table
  task,     \* the handler tasks: where each is and what it remembers
  sent,     \* what has been sent to users' devices so far: [type, call, to]
  faults, crashes

vars == <<row, task, sent, faults, crashes>>

Book == INSTANCE CallBook

-----------------------------------------------------------------------------
(***************************************************************************)
(* A task is at one of its awaits. It remembers the user whose socket      *)
(* spawned it, the receiver and call type it was given or the call it is   *)
(* about, and, between the read and the write of end_call, the terminal    *)
(* status it wants and the started_at it read.                             *)
(***************************************************************************)
InitiateSteps == {"checkReceiver", "checkCaller", "insert",
                  "incoming", "ring", "push"}
AcceptSteps == {"acceptRead", "acceptWrite", "accepted"}
EndSteps == {"endRead", "endWrite", "notify"}
Steps == {"idle"} \cup InitiateSteps \cup AcceptSteps \cup EndSteps

Ops == {"none", "initiate", "accept", "reject", "hangup"}

Task == [at : Steps, op : Ops,
         user : Users \cup {NoUser}, peer : Users \cup {NoUser},
         call : CallIds \cup {NoCall},
         want : Book!Terminal \cup {"none"}, started : BOOLEAN]

Handler(at, op, user, peer, call, want) ==
  [at |-> at, op |-> op, user |-> user, peer |-> peer, call |-> call,
   want |-> want, started |-> FALSE]

IdleTask == Handler("idle", "none", NoUser, NoUser, NoCall, "none")

EventTypes == {"incoming", "push", "accepted", "rejected", "ended", "ice"}
Event == [type : EventTypes, call : CallIds, to : Users]

Init ==
  /\ row = [c \in CallIds |-> Book!AbsentRow]
  /\ task = [t \in Tasks |-> IdleTask]
  /\ sent = {}
  /\ faults = 0
  /\ crashes = 0

-----------------------------------------------------------------------------
(***************************************************************************)
(* The queries of PostgresCallRepository, one atomic statement each.       *)
(***************************************************************************)
is_user_in_active_call(u) == Book!InActiveCall(u)

create(c, u, v) == row' = [row EXCEPT ![c] = Book!NewRow(u, v)]

(* A definition named ...Without..., ...Early and the like is a mutant: the *)
(* definition after it with a plausible mistake, for checking that the     *)
(* properties notice. No other definition uses one.                        *)
UpdateWithoutCoalesce(c, s, started, ended) ==
  row' = [row EXCEPT ![c].status = s, ![c].started = started,
                     ![c].ended = ended]

(* No condition on the status the row has: the row is overwritten, except  *)
(* that COALESCE keeps a started_at the caller does not pass.              *)
update_status(c, s, started, ended) ==
  row' = [row EXCEPT ![c].status  = s,
                     ![c].started = @ \/ started,
                     ![c].ended   = ended]

(* PUBLISH to user:{u}:events, or a job of the push queue. Neither is sure *)
(* to arrive: a device that missed an event is one that never acts on it.  *)
publish(type, c, u) ==
  sent' = sent \cup {[type |-> type, call |-> c, to |-> u]}

(* The calls whose id the devices of u may have learned. *)
Told(u) == {e.call : e \in {f \in sent : f.to = u}}

-----------------------------------------------------------------------------
Goto(t, step) == task' = [task EXCEPT ![t].at = step]
Return(t) == task' = [task EXCEPT ![t] = IdleTask]
Spawn(t, new) == task[t].at = "idle" /\ task' = [task EXCEPT ![t] = new]

(***************************************************************************)
(* Clients. A user may call anyone; what it can say of a call it was told  *)
(* of is up to it, whatever the status of the call. The caller itself is   *)
(* told of its call only by an event of the other side.                    *)
(***************************************************************************)
ClientInitiate(t, u, v) ==
  /\ Spawn(t, Handler("checkReceiver", "initiate", u, v, NoCall, "none"))
  /\ UNCHANGED <<row, sent, faults, crashes>>

ClientAccept(t, u, c) ==
  /\ c \in Told(u)
  /\ Spawn(t, Handler("acceptRead", "accept", u, NoUser, c, "none"))
  /\ UNCHANGED <<row, sent, faults, crashes>>

(* The reason the client gives decides between Busy and Rejected. *)
ClientReject(t, u, c) ==
  /\ c \in Told(u)
  /\ \E s \in {"busy", "rejected"} :
       Spawn(t, Handler("endRead", "reject", u, NoUser, c, s))
  /\ UNCHANGED <<row, sent, faults, crashes>>

ClientHangup(t, u, c) ==
  /\ c \in Told(u)
  /\ Spawn(t, Handler("endRead", "hangup", u, NoUser, c, "ended"))
  /\ UNCHANGED <<row, sent, faults, crashes>>

(* call:ice-candidate is relayed to whomever the client names, unchecked,  *)
(* and carries the call id: how a caller can learn it before the answer. A *)
(* relay to a user who has the id already changes nothing here.            *)
ClientIceCandidate(u, v, c) ==
  /\ c \in Told(u)
  /\ c \notin Told(v)
  /\ publish("ice", c, v)
  /\ UNCHANGED <<row, task, faults, crashes>>

-----------------------------------------------------------------------------
(***************************************************************************)
(* CallInitiate: initiate_call, then call:incoming, mark_ringing, the push *)
(* job. A refusal is answered with call:error on the caller's own socket.  *)
(***************************************************************************)
CheckReceiver(t) ==
  /\ task[t].at = "checkReceiver"
  /\ IF task[t].user = task[t].peer \/ is_user_in_active_call(task[t].peer)
       THEN Return(t)
       ELSE Goto(t, "checkCaller")
  /\ UNCHANGED <<row, sent, faults, crashes>>

CheckCallerWithoutLook(t) ==
  /\ task[t].at = "checkCaller"
  /\ Goto(t, "insert")
  /\ UNCHANGED <<row, sent, faults, crashes>>

CheckCaller(t) ==
  /\ task[t].at = "checkCaller"
  /\ IF is_user_in_active_call(task[t].user)
       THEN Return(t)
       ELSE Goto(t, "insert")
  /\ UNCHANGED <<row, sent, faults, crashes>>

(* The row is inserted whatever has changed since the two checks. *)
InsertCall(t) ==
  /\ task[t].at = "insert"
  /\ \E c \in CallIds :
       /\ row[c].status = "absent"
       /\ create(c, task[t].user, task[t].peer)
       /\ task' = [task EXCEPT ![t].at = "incoming", ![t].call = c]
  /\ UNCHANGED <<sent, faults, crashes>>

PublishIncoming(t) ==
  /\ task[t].at = "incoming"
  /\ publish("incoming", task[t].call, task[t].peer)
  /\ Goto(t, "ring")
  /\ UNCHANGED <<row, faults, crashes>>

MarkRingingWithoutUpdate(t) ==
  /\ task[t].at = "ring"
  /\ Goto(t, "push")
  /\ UNCHANGED <<row, sent, faults, crashes>>

(* mark_ringing reads nothing: it also overwrites an answer or an end that *)
(* came between the call:incoming event and this query.                    *)
MarkRinging(t) ==
  /\ task[t].at = "ring"
  /\ update_status(task[t].call, "ringing", FALSE, FALSE)
  /\ Goto(t, "push")
  /\ UNCHANGED <<sent, faults, crashes>>

(* The push job wakes the receiver's devices and carries the call id; the  *)
(* push worker may lose it.                                                *)
EnqueuePush(t) ==
  /\ task[t].at = "push"
  /\ publish("push", task[t].call, task[t].peer)
  /\ Return(t)
  /\ UNCHANGED <<row, faults, crashes>>

-----------------------------------------------------------------------------
(***************************************************************************)
(* CallAccept: accept_call reads the row, checks it, then overwrites it.   *)
(***************************************************************************)
AcceptReadWithoutReceiver(t) ==
  /\ task[t].at = "acceptRead"
  /\ IF row[task[t].call].status \in {"initiated", "ringing"}
       THEN Goto(t, "acceptWrite")
       ELSE Return(t)
  /\ UNCHANGED <<row, sent, faults, crashes>>

AcceptRead(t) ==
  /\ task[t].at = "acceptRead"
  /\ IF /\ row[task[t].call].receiver = task[t].user
        /\ row[task[t].call].status \in {"initiated", "ringing"}
       THEN Goto(t, "acceptWrite")
       ELSE Return(t)
  /\ UNCHANGED <<row, sent, faults, crashes>>

AcceptWrite(t) ==
  /\ task[t].at = "acceptWrite"
  /\ update_status(task[t].call, "answered", TRUE, FALSE)
  /\ Goto(t, "accepted")
  /\ UNCHANGED <<sent, faults, crashes>>

PublishAcceptedEarly(t) ==
  /\ task[t].at \in {"acceptWrite", "accepted"}
  /\ publish("accepted", task[t].call, row[task[t].call].caller)
  /\ Return(t)
  /\ UNCHANGED <<row, faults, crashes>>

PublishAccepted(t) ==
  /\ task[t].at = "accepted"
  /\ publish("accepted", task[t].call, row[task[t].call].caller)
  /\ Return(t)
  /\ UNCHANGED <<row, faults, crashes>>

-----------------------------------------------------------------------------
(***************************************************************************)
(* CallReject and CallHangup: end_call reads the row, checks it, then      *)
(* overwrites it. A hangup that is refused asks again, for Missed; so does *)
(* one whose query failed.                                                 *)
(***************************************************************************)
EndCallRefused(t) ==
  IF task[t].op = "hangup" /\ task[t].want = "ended"
    THEN task' = [task EXCEPT ![t].at = "endRead", ![t].want = "missed"]
    ELSE Return(t)

EndRead(t) ==
  /\ task[t].at = "endRead"
  /\ LET r == row[task[t].call] IN
       IF task[t].user \in Book!Parties(r) /\ r.status \in Book!Active
         THEN task' = [task EXCEPT ![t].at = "endWrite",
                                   ![t].started = r.started]
         ELSE EndCallRefused(t)
  /\ UNCHANGED <<row, sent, faults, crashes>>

EndWriteWithoutEndedAt(t) ==
  /\ task[t].at = "endWrite"
  /\ update_status(task[t].call, task[t].want, task[t].started,
                   task[t].started)
  /\ Goto(t, "notify")
  /\ UNCHANGED <<sent, faults, crashes>>

EndWrite(t) ==
  /\ task[t].at = "endWrite"
  /\ update_status(task[t].call, task[t].want, task[t].started, TRUE)
  /\ Goto(t, "notify")
  /\ UNCHANGED <<sent, faults, crashes>>

(* A rejection is announced to the caller, whoever sent it; a hangup to    *)
(* the other party.                                                        *)
NotifyTarget(t) ==
  LET r == row[task[t].call] IN
    IF task[t].op = "hangup" /\ task[t].user = r.caller
      THEN r.receiver
      ELSE r.caller

NotifyEnd(t) ==
  /\ task[t].at = "notify"
  /\ publish(IF task[t].op = "hangup" THEN "ended" ELSE "rejected",
             task[t].call, NotifyTarget(t))
  /\ Return(t)
  /\ UNCHANGED <<row, faults, crashes>>

-----------------------------------------------------------------------------
(***************************************************************************)
(* A query returns an error. The error of mark_ringing is ignored; the     *)
(* others end the task, except that a hangup asks again. An UPDATE or      *)
(* INSERT whose reply is lost may have been applied.                       *)
(***************************************************************************)
QueryFails(t) ==
  /\ faults < MaxFaults
  /\ faults' = faults + 1
  /\ \/ /\ task[t].at \in {"checkReceiver", "checkCaller", "insert",
                           "acceptRead", "acceptWrite"}
        /\ Return(t)
     \/ task[t].at = "ring" /\ Goto(t, "push")
     \/ task[t].at \in {"endRead", "endWrite"} /\ EndCallRefused(t)
  /\ UNCHANGED <<row, sent, crashes>>

ReplyLost(t) ==
  /\ faults < MaxFaults
  /\ faults' = faults + 1
  /\ \/ /\ task[t].at = "insert"
        /\ \E c \in CallIds : /\ row[c].status = "absent"
                              /\ create(c, task[t].user, task[t].peer)
        /\ Return(t)
     \/ /\ task[t].at = "ring"
        /\ update_status(task[t].call, "ringing", FALSE, FALSE)
        /\ Goto(t, "push")
     \/ /\ task[t].at = "acceptWrite"
        /\ update_status(task[t].call, "answered", TRUE, FALSE)
        /\ Return(t)
     \/ /\ task[t].at = "endWrite"
        /\ update_status(task[t].call, task[t].want, task[t].started, TRUE)
        /\ EndCallRefused(t)
  /\ UNCHANGED <<sent, crashes>>

Crash ==
  /\ crashes < MaxCrashes
  /\ crashes' = crashes + 1
  /\ task' = [t \in Tasks |-> IdleTask]
  /\ UNCHANGED <<row, sent, faults>>

-----------------------------------------------------------------------------
TaskStep(t) ==
  \/ CheckReceiver(t) \/ CheckCaller(t) \/ InsertCall(t)
  \/ PublishIncoming(t) \/ MarkRinging(t) \/ EnqueuePush(t)
  \/ AcceptRead(t) \/ AcceptWrite(t) \/ PublishAccepted(t)
  \/ EndRead(t) \/ EndWrite(t) \/ NotifyEnd(t)

Client ==
  \/ \E t \in Tasks, u, v \in Users : ClientInitiate(t, u, v)
  \/ \E t \in Tasks, u \in Users, c \in CallIds :
       ClientAccept(t, u, c) \/ ClientReject(t, u, c) \/ ClientHangup(t, u, c)
  \/ \E u, v \in Users, c \in CallIds : ClientIceCandidate(u, v, c)

Next ==
  \/ Client
  \/ \E t \in Tasks : TaskStep(t) \/ QueryFails(t) \/ ReplyLost(t)
  \/ Crash

Spec == Init /\ [][Next]_vars

-----------------------------------------------------------------------------
(* Every variable keeps its type. *)
TypeOK ==
  /\ row \in [CallIds -> Book!Row]
  /\ task \in [Tasks -> Task]
  /\ sent \subseteq Event
  /\ faults \in 0..MaxFaults
  /\ crashes \in 0..MaxCrashes

(* The timestamps agree with the status however the writes of mark_ringing,*)
(* accept_call and end_call interleave: ended_at is set exactly while the  *)
(* status is terminal, and an answered call has a started_at               *)
(* (019_webrtc_calls.sql:38-39).                                           *)
TimestampsAgree ==
  \A c \in CallIds :
    /\ row[c].ended <=> row[c].status \in Book!Terminal
    /\ row[c].status = "answered" => row[c].started

(* The check of who the user is, made when the row was read, still holds   *)
(* when the row is written and when the event goes out: only the receiver  *)
(* is about to answer, only a party is about to end (service.rs:73 and     *)
(* 109), although anyone may hold the call id.                             *)
WriterIsAuthorised ==
  \A t \in Tasks :
    /\ task[t].at \in {"acceptWrite", "accepted"} =>
         task[t].user = row[task[t].call].receiver
    /\ task[t].at \in {"endWrite", "notify"} =>
         task[t].user \in Book!Parties(row[task[t].call])

(* What the events say is true of the table: an answer is announced to the *)
(* caller of a call that did start, and no event of the server's own goes  *)
(* to anyone but the parties of the call.                                  *)
EventsAreTrue ==
  \A e \in sent :
    /\ row[e.call].status # "absent"
    /\ e.type # "ice" => e.to \in Book!Parties(row[e.call])
    /\ e.type = "accepted" =>
         e.to = row[e.call].caller /\ row[e.call].started

(* Once no task is working on a call, and if no query failed and nothing   *)
(* crashed, the call is past "initiated" and the event that announces its  *)
(* present status has been published, whichever of the racing writes came  *)
(* last.                                                                   *)
Announced(c) ==
  LET r == row[c]
      Published(type, users) ==
        \E e \in sent : e.type = type /\ e.call = c /\ e.to \in users
  IN CASE r.status = "absent"    -> TRUE
       [] r.status = "initiated" -> FALSE
       [] r.status = "ringing"   -> /\ Published("incoming", {r.receiver})
                                    /\ Published("push", {r.receiver})
       [] r.status = "answered"  -> Published("accepted", {r.caller})
       [] r.status \in {"rejected", "busy"} ->
            Published("rejected", {r.caller})
       [] r.status \in {"ended", "missed"} ->
            Published("ended", Book!Parties(r))

OutcomeIsAnnounced ==
  faults = 0 /\ crashes = 0 =>
    \A c \in CallIds : (\A t \in Tasks : task[t].call # c) => Announced(c)

(* No write loses the started_at of an answered call, although end_call    *)
(* writes back the one it read before the answer and mark_ringing writes   *)
(* none, and no write changes the parties of a call.                       *)
StartedIsKept ==
  [][\A c \in CallIds : row[c].status # "absent" =>
       /\ row[c].started => row'[c].started
       /\ row'[c].caller = row[c].caller
       /\ row'[c].receiver = row[c].receiver]_vars

-----------------------------------------------------------------------------
(* With one handler at a time, the steps of CallService implement its      *)
(* atomic promise: only free users are connected, a status is left only    *)
(* forwards, a terminal one never.                                         *)
ImplementsBook == Book!Spec

(* service.rs:19-20: initiate_call "verifies that neither party is already *)
(* in an active call".                                                     *)
OneActiveCall == Book!OneActiveCall
=============================================================================
