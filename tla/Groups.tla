------------------------------- MODULE Groups -------------------------------
(***************************************************************************)
(* The membership of one group: its roles, keys and invite link, under     *)
(* concurrent requests of its members. The repository checks the roles by  *)
(* one or two queries and writes by another (transfer_ownership by a       *)
(* transaction that checks nothing again), so that a request may write on  *)
(* the strength of roles that have changed. Every query is a step.         *)
(*                                                                         *)
(* Events are published after the write to chat:{id}:events, a channel no  *)
(* part of the server subscribes to, and are left out.                     *)
(***************************************************************************)
EXTENDS Naturals

CONSTANTS
  Users,
  Tasks,      \* requests that can be in flight at once
  NoUser,
  MaxRequests \* bound: the requests of a behaviour

ASSUME NoUserIsNoUser == NoUser \notin Users
ASSUME MaxRequestsIsNatural == MaxRequests \in Nat

VARIABLES
  role,     \* chat_participants.role, also of those who left
  in,       \* the users whose left_at is NULL
  key,      \* the users whose encryption_key_enc is of the key made last
  link,     \* invite_link is one that was handed out
  deleted,  \* chats.deleted_at is set
  task,
  requests, \* how many have arrived
  stale,    \* history: a request wrote although a role it read had changed
  barred    \* history: who was out when the key made last was made, and has
            \* not been added since

chat == <<role, in, key, link, deleted, barred>>
vars == <<chat, task, requests, stale>>

Rank == [member |-> 1, moderator |-> 2, admin |-> 3, owner |-> 4]
Roles == DOMAIN Rank
Outranks(r, s) == Rank[r] > Rank[s]

(* get_participant_role: "out" stands for no active row. *)
get_participant_role(u) == IF u \in in THEN role[u] ELSE "out"

Steps == {"idle", "readActor", "readTarget", "readChat", "readOwner",
          "findLink", "readMember", "write"}
Ops == {"none", "add", "remove", "setRole", "setLink", "deleteLink",
        "rotate", "transfer", "join", "delete"}

Task == [at : Steps, op : Ops,
         actor : Users \cup {NoUser}, target : Users \cup {NoUser},
         want : Roles \cup {"none"},
         sawActor : Roles \cup {"out", "none"},
         sawTarget : Roles \cup {"out", "none"}]

Handler(at, op, u, v, want) ==
  [at |-> at, op |-> op, actor |-> u, target |-> v, want |-> want,
   sawActor |-> "none", sawTarget |-> "none"]

IdleTask == Handler("idle", "none", NoUser, NoUser, "none")

(* create_group_chat, one transaction: the creator owns the group. *)
Init ==
  /\ \E creator \in Users, others \in SUBSET Users :
       /\ in = others \cup {creator}
       /\ role = [u \in Users |-> IF u = creator THEN "owner" ELSE
                                  IF u \in others THEN "member" ELSE "none"]
  /\ key = {}
  /\ link = FALSE
  /\ deleted = FALSE
  /\ task = [t \in Tasks |-> IdleTask]
  /\ requests = 0
  /\ stale = FALSE
  /\ barred = {}

-----------------------------------------------------------------------------
Return(t) == task' = [task EXCEPT ![t] = IdleTask]
Goto(t, step) == task' = [task EXCEPT ![t].at = step]

(***************************************************************************)
(* Requests arrive, from any user about any other. The handlers refuse to  *)
(* add oneself, to make an owner by a change of role, and to transfer to   *)
(* oneself.                                                                *)
(***************************************************************************)
Spawn(t, handler) ==
  /\ task[t].at = "idle"
  /\ task' = [task EXCEPT ![t] = handler]

Request(t, u) ==
  /\ requests < MaxRequests
  /\ requests' = requests + 1
  /\ \E v \in Users :
       \/ /\ v # u
          /\ \E op \in {"add", "transfer"} :
               Spawn(t, Handler("readActor", op, u, v, "none"))
       \/ Spawn(t, Handler("readActor", "remove", u, v, "none"))
       \/ \E r \in Roles \ {"owner"} :
            Spawn(t, Handler("readActor", "setRole", u, v, r))
  /\ UNCHANGED <<chat, stale>>

RequestOnGroup(t, u) ==
  /\ requests < MaxRequests
  /\ requests' = requests + 1
  /\ \/ \E op \in {"setLink", "deleteLink", "rotate"} :
          Spawn(t, Handler("readActor", op, u, u, "none"))
     \/ Spawn(t, Handler("findLink", "join", u, u, "none"))
     \/ Spawn(t, Handler("readChat", "delete", u, u, "none"))
  /\ UNCHANGED <<chat, stale>>

-----------------------------------------------------------------------------
(***************************************************************************)
(* The queries that decide. Each operation asks for the actor's role; what *)
(* that role must be, and what is asked next, depends on the operation.    *)
(***************************************************************************)
AfterActor(op) ==
  CASE op = "add" -> "readChat"
    [] op \in {"remove", "setRole", "transfer"} -> "readTarget"
    [] op \in {"setLink", "deleteLink", "rotate"} -> "write"

(* This definition, and below TargetMayEqually, EnterAsBefore and          *)
(* RotateForAll, are mutants: the definition after it with a plausible     *)
(* mistake, for checking that the properties notice. No other definition   *)
(* uses one.                                                               *)
ActorMayTransferAnyway(op, r) ==
  op \in {"transfer", "remove", "setRole"} \/ ~Outranks("admin", r)

ActorMay(op, r) ==
  CASE op \in {"add", "setLink", "deleteLink", "rotate"} ->
         ~Outranks("admin", r)
    [] op = "transfer" -> r = "owner"
    [] op \in {"remove", "setRole"} -> TRUE

ReadActor(t) ==
  LET r == get_participant_role(task[t].actor) IN
  /\ task[t].at = "readActor"
  /\ IF r # "out" /\ ActorMay(task[t].op, r)
       THEN task' = [task EXCEPT ![t].at = AfterActor(task[t].op),
                                 ![t].sawActor = r]
       ELSE Return(t)
  /\ UNCHANGED <<chat, requests, stale>>

(* A member may leave unless it owns the group, and be removed by whoever  *)
(* outranks it; a role changes by one who outranks both the old and the    *)
(* new; ownership goes to any active member.                               *)
TargetMayEqually(k, r) ==
  CASE k.op = "remove" -> ~Outranks(r, k.sawActor)
    [] k.op = "setRole" -> /\ Outranks(k.sawActor, r)
                           /\ Outranks(k.sawActor, k.want)
    [] k.op = "transfer" -> TRUE

TargetMay(k, r) ==
  CASE k.op = "remove" /\ k.actor = k.target -> k.sawActor # "owner"
    [] k.op = "remove" /\ k.actor # k.target -> Outranks(k.sawActor, r)
    [] k.op = "setRole" -> /\ Outranks(k.sawActor, r)
                           /\ Outranks(k.sawActor, k.want)
    [] k.op = "transfer" -> TRUE

ReadTarget(t) ==
  LET r == get_participant_role(task[t].target) IN
  /\ task[t].at = "readTarget"
  /\ IF r # "out" /\ TargetMay(task[t], r)
       THEN task' = [task EXCEPT ![t].at = "write", ![t].sawTarget = r]
       ELSE Return(t)
  /\ UNCHANGED <<chat, requests, stale>>

(* add_participant and delete_chat ask whether the chat is still there;    *)
(* delete_chat, by the same query, whether the user is active in it.       *)
ReadChat(t) ==
  /\ task[t].at = "readChat"
  /\ IF deleted \/ (task[t].op = "delete" /\ task[t].actor \notin in)
       THEN Return(t)
       ELSE Goto(t, IF task[t].op = "delete" THEN "readOwner" ELSE "readMember")
  /\ UNCHANGED <<chat, requests, stale>>

(* delete_chat: is the role owner? Here left_at is not looked at. *)
ReadOwner(t) ==
  LET r == role[task[t].actor] IN
  /\ task[t].at = "readOwner"
  /\ task' = [task EXCEPT ![t].at = "write", ![t].sawActor = r,
                          ![t].sawTarget = r]
  /\ UNCHANGED <<chat, requests, stale>>

(* find_chat_by_slug, with the slug that was handed out last. *)
FindLink(t) ==
  /\ task[t].at = "findLink"
  /\ IF link /\ ~deleted THEN Goto(t, "readMember") ELSE Return(t)
  /\ UNCHANGED <<chat, requests, stale>>

ReadMember(t) ==
  /\ task[t].at = "readMember"
  /\ IF task[t].target \in in
       THEN Return(t)
       ELSE task' = [task EXCEPT
              ![t].at = "write", ![t].sawTarget = "out",
              ![t].sawActor = IF task[t].op = "join" THEN "out" ELSE @]
  /\ UNCHANGED <<chat, requests, stale>>

-----------------------------------------------------------------------------
(***************************************************************************)
(* The writes. None looks again at what the checks saw.                    *)
(***************************************************************************)
Write(t, op) ==
  LET k == task[t] IN
  /\ k.at = "write"
  /\ k.op = op
  /\ stale' = \/ stale
              \/ get_participant_role(k.actor) # k.sawActor
              \/ /\ k.sawTarget # "none"
                 /\ get_participant_role(k.target) # k.sawTarget
  /\ Return(t)
  /\ UNCHANGED requests

(* INSERT ... ON CONFLICT DO UPDATE: an old row is made active again, as a *)
(* member.                                                                 *)
EnterAsBefore(u) ==
  /\ in' = in \cup {u}
  /\ role' = [role EXCEPT ![u] = IF @ = "none" THEN "member" ELSE @]

Enter(u) ==
  /\ in' = in \cup {u}
  /\ role' = [role EXCEPT ![u] = "member"]

add_participant(t) ==
  /\ Write(t, "add")
  /\ Enter(task[t].target)
  /\ key' \in {key \cup {task[t].target}, key \ {task[t].target}}
  /\ barred' = barred \ {task[t].target}
  /\ UNCHANGED <<link, deleted>>

(* A returning member keeps the key it had. *)
join_by_invite(t) ==
  /\ Write(t, "join")
  /\ Enter(task[t].target)
  /\ UNCHANGED <<key, link, deleted, barred>>

remove_participant(t) ==
  /\ Write(t, "remove")
  /\ in' = in \ {task[t].target}
  /\ UNCHANGED <<role, key, link, deleted, barred>>

(* An UPDATE of the active row; without one, an error. *)
update_participant_role(t) ==
  /\ Write(t, "setRole")
  /\ role' = IF task[t].target \in in
               THEN [role EXCEPT ![task[t].target] = task[t].want]
               ELSE role
  /\ UNCHANGED <<in, key, link, deleted, barred>>

(* Deleting the link draws a new one, which nobody is told. *)
set_invite_link(t) ==
  /\ \/ Write(t, "setLink") /\ link' = TRUE
     \/ Write(t, "deleteLink") /\ link' = FALSE
  /\ UNCHANGED <<role, in, key, deleted, barred>>

RotateForAll(t) ==
  /\ Write(t, "rotate")
  /\ \E members \in SUBSET Users \ {{}} :
       key' = {u \in members : role[u] # "none"}
  /\ barred' = Users \ in
  /\ UNCHANGED <<role, in, link, deleted>>

(* The client sends a key for each of the members it believes there are;   *)
(* only active rows take it.                                               *)
rotate_group_key(t) ==
  /\ Write(t, "rotate")
  /\ \E members \in SUBSET Users \ {{}} : key' = members \cap in
  /\ barred' = Users \ in
  /\ UNCHANGED <<role, in, link, deleted>>

(* Both rows, whether or not they are active. *)
transfer_ownership(t) ==
  /\ Write(t, "transfer")
  /\ role' = [role EXCEPT ![task[t].actor] = "admin",
                          ![task[t].target] = "owner"]
  /\ UNCHANGED <<in, key, link, deleted, barred>>

(* The owner deletes the group, anyone else leaves it. *)
delete_chat(t) ==
  /\ Write(t, "delete")
  /\ IF task[t].sawActor = "owner"
       THEN deleted' = TRUE /\ in' = in
       ELSE deleted' = deleted /\ in' = in \ {task[t].actor}
  /\ UNCHANGED <<role, key, link, barred>>

(* A failed query ends the request, as a crash of the server does; what a  *)
(* statement did before its reply was lost is the statement's own step.    *)
QueryFails(t) ==
  /\ task[t].at # "idle"
  /\ Return(t)
  /\ UNCHANGED <<chat, requests, stale>>

-----------------------------------------------------------------------------
TaskStep(t) ==
  \/ ReadActor(t) \/ ReadTarget(t) \/ ReadChat(t) \/ ReadOwner(t)
  \/ FindLink(t) \/ ReadMember(t)
  \/ add_participant(t) \/ join_by_invite(t) \/ remove_participant(t)
  \/ update_participant_role(t) \/ set_invite_link(t) \/ rotate_group_key(t)
  \/ transfer_ownership(t) \/ delete_chat(t)

Next ==
  \E t \in Tasks :
    \/ \E u \in Users : Request(t, u) \/ RequestOnGroup(t, u)
    \/ TaskStep(t)
    \/ QueryFails(t)

Spec == Init /\ [][Next]_vars

-----------------------------------------------------------------------------
(* Every variable keeps its type, and an active member has a role. *)
TypeOK ==
  /\ role \in [Users -> Roles \cup {"none"}]
  /\ in \subseteq Users
  /\ \A u \in in : role[u] # "none"
  /\ key \subseteq Users
  /\ link \in BOOLEAN
  /\ deleted \in BOOLEAN
  /\ task \in [Tasks -> Task]
  /\ requests \in 0..MaxRequests
  /\ stale \in BOOLEAN
  /\ barred \subseteq Users

Owners == {u \in in : role[u] = "owner"}

(* Until a request writes on roles that changed since it read them, the    *)
(* checks of the operations keep the group owned by exactly one member.    *)
OneOwner == ~stale => \E u \in Users : Owners = {u}

(* However requests overlap, no one becomes an owner except by a transfer  *)
(* that found its actor to be the owner.                                   *)
OwnerOnlyByTransfer ==
  [][\A u \in Users : role[u] # "owner" /\ role'[u] = "owner" =>
       \E t \in Tasks : /\ task[t].op = "transfer"
                        /\ task[t].target = u
                        /\ task[t].sawActor = "owner"]_vars

(* Whoever leaves, whatever the role and whatever happens to the row then, *)
(* comes back as a member.                                                 *)
BackAsMember ==
  [][\A u \in Users : u \notin in /\ u \in in' => role'[u] = "member"]_vars

(* Whoever was out of the group when its newest key was made does not have *)
(* that key, although the client that made it may have taken the user for  *)
(* a member and the user may have had the key before it; and does not get  *)
(* it by coming back through the link, but only from an admin who adds the *)
(* user again (chat.rs:1713-1754, 1690).                                   *)
NoKeyForTheAbsent == key \cap barred = {}

-----------------------------------------------------------------------------
(* "only the owner can transfer ownership" (chat.rs:1770), which leaves a  *)
(* group with one owner at most, whatever requests overlap.                *)
AtMostOneOwner == \A u, v \in Owners : u = v
=============================================================================
