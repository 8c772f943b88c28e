--------------------------- MODULE Groups_proofs ----------------------------
(***************************************************************************)
(* Theorems about Groups and about Gateway, the connections over which the *)
(* members hear of each other, for any users, connections, concurrent      *)
(* requests, events and faults. The two share no state, and each has its   *)
(* half of the module.                                                     *)
(*                                                                         *)
(* That the checks keep the group owned by one member rests on what each   *)
(* request remembers of them: IInv adds it. A write that is not stale then *)
(* acts on the very roles that passed the checks.                          *)
(***************************************************************************)
EXTENDS Groups, Gateway, FiniteSetTheorems, TLAPS

-----------------------------------------------------------------------------
Checked == {"remove", "setRole", "transfer"}
ByRole == Checked \cup {"add", "setLink", "deleteLink", "rotate"}

(* What a request remembers passed the checks of its operation. *)
Remembers(k) ==
    /\ k.at # "idle" => k.actor \in Users /\ k.target \in Users
    /\ k.at = "readActor" => k.op \in ByRole
    /\ k.at = "readTarget" => k.op \in Checked
    /\ k.at = "findLink" => k.op = "join"
    /\ k.at = "readChat" => k.op \in {"add", "delete"}
    /\ k.at = "readMember" => k.op \in {"add", "join"}
    /\ k.at = "readOwner" => k.op = "delete"
    /\ k.op = "setRole" => k.want \in Roles \ {"owner"}
    /\ k.op = "transfer" => k.actor # k.target
    /\ k.op = "delete" => k.actor = k.target
    /\ k.op \in Checked /\ k.at \in {"readTarget", "write"} =>
         k.sawActor \in Roles /\ ActorMay(k.op, k.sawActor)
    /\ k.op \in Checked /\ k.at = "write" =>
         k.sawTarget \in Roles /\ TargetMay(k, k.sawTarget)
    /\ k.op \in {"add", "join"} /\ k.at = "write" => k.sawTarget = "out"
    /\ k.op = "delete" /\ k.at = "write" => k.sawActor \in Roles

Fits(t) ==
  /\ Remembers(task[t])
  /\ task[t].at = "readOwner" => role[task[t].actor] # "none"

IInv ==
  /\ TypeOK
  /\ \A t \in Tasks : Fits(t)
  /\ OneOwner

(* No row of chat_participants is ever deleted. *)
RowsStay == \A u \in Users : role[u] # "none" => role'[u] # "none"

-----------------------------------------------------------------------------
LEMMA RolesAre ==
  /\ Roles = {"member", "moderator", "admin", "owner"}
  /\ \A r \in Roles : Rank[r] \in 1..4 /\ (Rank[r] = 4 => r = "owner")
  /\ Rank["owner"] = 4
BY DEF Roles, Rank

LEMMA NothingOutranksTheOwner ==
  ASSUME NEW r \in Roles PROVE ~Outranks(r, "owner")
BY RolesAre DEF Outranks

LEMMA RoleOfActive ==
  ASSUME TypeOK, NEW u \in Users
  PROVE  /\ get_participant_role(u) \in Roles \cup {"out"}
         /\ get_participant_role(u) = "out" <=> u \notin in
         /\ u \in in => get_participant_role(u) = role[u]
BY RolesAre DEF TypeOK, get_participant_role

(* A step is good if it leaves the table well typed, its own task fitting  *)
(* and the others alone, and one owner unless a write was stale.           *)
KeysFit == key \subseteq Users /\ barred \subseteq Users

ChatFits ==
  /\ role \in [Users -> Roles \cup {"none"}]
  /\ in \subseteq Users
  /\ \A u \in in : role[u] # "none"
  /\ KeysFit
  /\ link \in BOOLEAN
  /\ deleted \in BOOLEAN
  /\ requests \in 0..MaxRequests
  /\ stale \in BOOLEAN

LEMMA GoodStep ==
  ASSUME IInv, NEW t \in Tasks,
         ChatFits', RowsStay,
         task' \in [Tasks -> Task],
         \A s \in Tasks \ {t} : task'[s] = task[s],
         Fits(t)',
         OneOwner'
  PROVE  IInv'
<1>1. \A s \in Tasks : Fits(s)'
  <2> TAKE s \in Tasks
  <2>1. CASE s # t
    <3>1. Fits(s) /\ task'[s] = task[s]
      BY <2>1 DEF IInv
    <3>2. Remembers(task'[s])
      BY <3>1 DEF Fits
    <3>3. task[s].at = "readOwner" => role'[task[s].actor] # "none"
      BY <3>1 DEF Fits, Remembers, RowsStay
    <3> QED
      BY <3>1, <3>2, <3>3 DEF Fits
  <2> QED
    BY <2>1
<1> QED
  BY <1>1 DEF IInv, TypeOK, ChatFits, KeysFit

LEMMA ReturnFits ==
  ASSUME IInv, NEW t \in Tasks, Return(t)
  PROVE  /\ task' \in [Tasks -> Task]
         /\ \A s \in Tasks \ {t} : task'[s] = task[s]
         /\ Fits(t)'
<1>1. IdleTask \in Task
  BY DEF IdleTask, Handler, Task, Steps, Ops
<1>2. /\ task' \in [Tasks -> Task]
      /\ \A s \in Tasks \ {t} : task'[s] = task[s]
      /\ task'[t] = IdleTask
  BY <1>1 DEF Return, IInv, TypeOK
<1> QED
  BY <1>2 DEF Fits, Remembers, IdleTask, Handler, Checked

LEMMA GotoMoves ==
  ASSUME IInv, NEW t \in Tasks, NEW step \in Steps, Goto(t, step)
  PROVE  /\ task' \in [Tasks -> Task]
         /\ \A s \in Tasks \ {t} : task'[s] = task[s]
         /\ task'[t].at = step
         /\ task'[t].op = task[t].op
         /\ task'[t].actor = task[t].actor
         /\ task'[t].target = task[t].target
         /\ task'[t].want = task[t].want
         /\ task'[t].sawActor = task[t].sawActor
         /\ task'[t].sawTarget = task[t].sawTarget
BY DEF Goto, IInv, TypeOK, Task

LEMMA RewriteMoves ==
  ASSUME IInv, NEW t \in Tasks, NEW new \in Task,
         task' = [task EXCEPT ![t] = new]
  PROVE  /\ task' \in [Tasks -> Task]
         /\ \A s \in Tasks \ {t} : task'[s] = task[s]
         /\ task'[t] = new
BY DEF IInv, TypeOK

(* Requests and reads leave the group alone. *)
LEMMA SameChat ==
  ASSUME IInv, UNCHANGED <<chat, stale>>, requests' \in 0..MaxRequests
  PROVE  ChatFits' /\ RowsStay /\ OneOwner'
BY DEF IInv, TypeOK, ChatFits, KeysFit, RowsStay, OneOwner, Owners, chat

LEMMA SameChatAtRead ==
  ASSUME IInv, UNCHANGED <<chat, requests, stale>>
  PROVE  ChatFits' /\ RowsStay /\ OneOwner'
BY SameChat DEF IInv, TypeOK

LEMMA GivingUp ==
  ASSUME IInv, NEW t \in Tasks, Return(t), UNCHANGED <<chat, requests, stale>>
  PROVE  IInv'
BY ReturnFits, SameChatAtRead, GoodStep

-----------------------------------------------------------------------------
LEMMA SpawnFits ==
  ASSUME IInv, NEW t \in Tasks, NEW u \in Users, NEW v \in Users,
         NEW step \in {"readActor", "findLink", "readChat"}, NEW op \in Ops,
         NEW want \in Roles \cup {"none"},
         Spawn(t, Handler(step, op, u, v, want)),
         step = "readActor" => op \in ByRole,
         step = "findLink" => op = "join",
         step = "readChat" => op = "delete",
         op = "setRole" => want \in Roles \ {"owner"},
         op = "transfer" => v # u,
         op = "delete" => v = u,
         requests < MaxRequests, requests' = requests + 1,
         UNCHANGED <<chat, stale>>
  PROVE  IInv'
<1>1. requests' \in 0..MaxRequests
  BY MaxRequestsIsNatural DEF IInv, TypeOK
<1>2. Handler(step, op, u, v, want) \in Task
  BY DEF Handler, Task, Steps
<1>3. /\ task' \in [Tasks -> Task]
      /\ \A s \in Tasks \ {t} : task'[s] = task[s]
      /\ task'[t] = Handler(step, op, u, v, want)
  BY <1>2 DEF IInv, TypeOK, Spawn
<1>4. Fits(t)'
  BY <1>3 DEF Fits, Remembers, Handler, ByRole, Checked
<1> QED
  BY <1>1, <1>3, <1>4, SameChat, GoodStep

LEMMA RequestStep ==
  ASSUME IInv, NEW t \in Tasks, NEW u \in Users, Request(t, u)
  PROVE  IInv'
<1> USE DEF Ops, ByRole, Checked
<1>1. PICK v \in Users :
        \/ /\ v # u
           /\ \E op \in {"add", "transfer"} :
                Spawn(t, Handler("readActor", op, u, v, "none"))
        \/ Spawn(t, Handler("readActor", "remove", u, v, "none"))
        \/ \E r \in Roles \ {"owner"} :
             Spawn(t, Handler("readActor", "setRole", u, v, r))
  BY DEF Request
<1>2. /\ requests < MaxRequests /\ requests' = requests + 1
      /\ UNCHANGED <<chat, stale>>
  BY DEF Request
<1>3. ASSUME v # u, NEW op \in {"add", "transfer"},
             Spawn(t, Handler("readActor", op, u, v, "none"))
      PROVE  IInv'
  <2>1. op \in Ops
    OBVIOUS
  <2> QED
    BY <1>2, <1>3, <2>1, SpawnFits
<1>4. CASE Spawn(t, Handler("readActor", "remove", u, v, "none"))
  BY <1>2, <1>4, SpawnFits
<1>5. ASSUME NEW r \in Roles \ {"owner"},
             Spawn(t, Handler("readActor", "setRole", u, v, r))
      PROVE  IInv'
  BY <1>2, <1>5, SpawnFits
<1> QED
  BY <1>1, <1>3, <1>4, <1>5

LEMMA RequestOnGroupStep ==
  ASSUME IInv, NEW t \in Tasks, NEW u \in Users, RequestOnGroup(t, u)
  PROVE  IInv'
<1> USE DEF Ops, ByRole, Checked
<1>1. /\ requests < MaxRequests /\ requests' = requests + 1
      /\ UNCHANGED <<chat, stale>>
  BY DEF RequestOnGroup
<1>2. ASSUME NEW op \in {"setLink", "deleteLink", "rotate"},
             Spawn(t, Handler("readActor", op, u, u, "none"))
      PROVE  IInv'
  <2>1. op \in Ops
    OBVIOUS
  <2> QED
    BY <1>1, <1>2, <2>1, SpawnFits
<1>3. CASE Spawn(t, Handler("findLink", "join", u, u, "none"))
  BY <1>1, <1>3, SpawnFits
<1>4. CASE Spawn(t, Handler("readChat", "delete", u, u, "none"))
  BY <1>1, <1>4, SpawnFits
<1> QED
  BY <1>2, <1>3, <1>4 DEF RequestOnGroup

LEMMA ReadActorStep ==
  ASSUME IInv, NEW t \in Tasks, ReadActor(t) PROVE IInv'
<1> DEFINE r == get_participant_role(task[t].actor)
<1>1. CASE Return(t)
  BY <1>1, GivingUp DEF ReadActor
<1>2. CASE /\ r # "out" /\ ActorMay(task[t].op, r)
           /\ task' = [task EXCEPT ![t].at = AfterActor(task[t].op),
                                   ![t].sawActor = r]
  <2>1. Fits(t) /\ task[t].at = "readActor" /\ task[t].op \in ByRole
        /\ task[t].actor \in Users /\ task[t].target \in Users
    BY DEF ReadActor, IInv, Fits, Remembers
  <2>2. r \in Roles
    BY <1>2, <2>1, RoleOfActive DEF IInv
  <2>3. /\ AfterActor(task[t].op) \in {"readChat", "readTarget", "write"}
        /\ AfterActor(task[t].op) = "readChat" => task[t].op = "add"
        /\ AfterActor(task[t].op) = "readTarget" <=> task[t].op \in Checked
        /\ AfterActor(task[t].op) = "write" =>
             task[t].op \in {"setLink", "deleteLink", "rotate"}
    BY <2>1 DEF AfterActor, ByRole, Checked
  <2>4. AfterActor(task[t].op) \in Steps
    BY <2>3 DEF Steps
  <2> HIDE DEF r
  <2>5. /\ task' \in [Tasks -> Task]
        /\ \A s \in Tasks \ {t} : task'[s] = task[s]
        /\ task'[t].at = AfterActor(task[t].op)
        /\ task'[t].op = task[t].op
        /\ task'[t].actor = task[t].actor
        /\ task'[t].target = task[t].target
        /\ task'[t].want = task[t].want
        /\ task'[t].sawActor = r
    <3> DEFINE next == AfterActor(task[t].op)
               new == [task[t] EXCEPT !.at = next, !.sawActor = r]
    <3>1. task[t] \in Task
      BY DEF IInv, TypeOK
    <3>2. task' = [task EXCEPT ![t] = new]
      BY <1>2
    <3>3. next \in Steps
      BY <2>4
    <3> HIDE DEF next
    <3>4. /\ new \in Task
          /\ new.at = next /\ new.op = task[t].op
          /\ new.actor = task[t].actor /\ new.target = task[t].target
          /\ new.want = task[t].want /\ new.sawActor = r
      BY <2>2, <3>1, <3>3 DEF Task
    <3> HIDE DEF new
    <3>5. task'[t].at = next
      BY <3>2, <3>4, RewriteMoves
    <3> QED
      BY <3>2, <3>4, <3>5, RewriteMoves DEF next
  <2>6. ActorMay(task'[t].op, task'[t].sawActor)
    BY <1>2, <2>5
  <2>7. Fits(t)'
    BY <2>1, <2>2, <2>3, <2>5, <2>6 DEF Fits, Remembers, Checked
  <2> QED
    BY <2>5, <2>7, SameChatAtRead, GoodStep DEF ReadActor
<1> QED
  BY <1>1, <1>2 DEF ReadActor

LEMMA ReadTargetStep ==
  ASSUME IInv, NEW t \in Tasks, ReadTarget(t) PROVE IInv'
<1> DEFINE r == get_participant_role(task[t].target)
<1>1. CASE Return(t)
  BY <1>1, GivingUp DEF ReadTarget
<1>2. CASE /\ r # "out" /\ TargetMay(task[t], r)
           /\ task' = [task EXCEPT ![t].at = "write", ![t].sawTarget = r]
  <2>1. Fits(t) /\ task[t].at = "readTarget" /\ task[t].op \in Checked
        /\ task[t].actor \in Users /\ task[t].target \in Users
    BY DEF ReadTarget, IInv, Fits, Remembers
  <2>2. r \in Roles
    BY <1>2, <2>1, RoleOfActive DEF IInv
  <2> HIDE DEF r
  <2>3. /\ task' \in [Tasks -> Task]
        /\ \A s \in Tasks \ {t} : task'[s] = task[s]
        /\ task'[t].at = "write"
        /\ task'[t].op = task[t].op
        /\ task'[t].actor = task[t].actor
        /\ task'[t].target = task[t].target
        /\ task'[t].want = task[t].want
        /\ task'[t].sawActor = task[t].sawActor
        /\ task'[t].sawTarget = r
    BY <1>2, <2>2 DEF IInv, TypeOK, Task, Steps
  <2>4. TargetMay(task'[t], r)
    BY <1>2, <2>1, <2>3 DEF TargetMay, Checked
  <2>5. Fits(t)'
    BY <2>1, <2>2, <2>3, <2>4 DEF Fits, Remembers, Checked
  <2> QED
    BY <2>3, <2>5, SameChatAtRead, GoodStep DEF ReadTarget
<1> QED
  BY <1>1, <1>2 DEF ReadTarget

LEMMA ReadChatStep ==
  ASSUME IInv, NEW t \in Tasks, ReadChat(t) PROVE IInv'
<1>1. CASE Return(t)
  BY <1>1, GivingUp DEF ReadChat
<1>2. CASE ~Return(t)
  <2>1. PICK step \in {"readOwner", "readMember"} :
          /\ Goto(t, step)
          /\ step = "readOwner" <=> task[t].op = "delete"
          /\ step = "readOwner" => task[t].actor \in in
    BY <1>2 DEF ReadChat
  <2>2. step \in Steps
    BY DEF Steps
  <2>3. Fits(t) /\ task[t].at = "readChat"
    BY DEF ReadChat, IInv
  <2>4. UNCHANGED role /\ \A u \in in : role[u] # "none"
    BY DEF ReadChat, chat, IInv, TypeOK
  <2>5. Fits(t)'
    BY <2>1, <2>2, <2>3, <2>4, GotoMoves DEF Fits, Remembers, Checked
  <2> QED
    BY <2>1, <2>2, <2>5, GotoMoves, SameChatAtRead, GoodStep DEF ReadChat
<1> QED
  BY <1>1, <1>2

LEMMA ReadOwnerStep ==
  ASSUME IInv, NEW t \in Tasks, ReadOwner(t) PROVE IInv'
<1> DEFINE r == role[task[t].actor]
<1>1. /\ Fits(t) /\ task[t].at = "readOwner" /\ task[t].op = "delete"
      /\ task[t].actor \in Users /\ task[t].target \in Users
      /\ r # "none"
  BY DEF ReadOwner, IInv, Fits, Remembers
<1>2. r \in Roles
  BY <1>1 DEF IInv, TypeOK
<1>3. task' = [task EXCEPT ![t].at = "write", ![t].sawActor = r,
                           ![t].sawTarget = r]
  BY DEF ReadOwner
<1> HIDE DEF r
<1>4. /\ task' \in [Tasks -> Task]
      /\ \A s \in Tasks \ {t} : task'[s] = task[s]
      /\ task'[t].at = "write"
      /\ task'[t].op = task[t].op
      /\ task'[t].actor = task[t].actor
      /\ task'[t].target = task[t].target
      /\ task'[t].sawActor = r
  <2> DEFINE new == [task[t] EXCEPT !.at = "write", !.sawActor = r,
                                    !.sawTarget = r]
  <2>1. task[t] \in Task
    BY DEF IInv, TypeOK
  <2>2. /\ new \in Task
        /\ new.at = "write" /\ new.op = task[t].op
        /\ new.actor = task[t].actor /\ new.target = task[t].target
        /\ new.sawActor = r
    BY <1>2, <2>1 DEF Task, Steps
  <2>3. task' = [task EXCEPT ![t] = new]
    BY <1>3
  <2> HIDE DEF new
  <2> QED
    BY <2>2, <2>3, RewriteMoves
<1>5. Fits(t)'
  BY <1>1, <1>2, <1>4 DEF Fits, Remembers, Checked
<1> QED
  BY <1>4, <1>5, SameChatAtRead, GoodStep DEF ReadOwner

LEMMA FindLinkStep ==
  ASSUME IInv, NEW t \in Tasks, FindLink(t) PROVE IInv'
<1>1. CASE Return(t)
  BY <1>1, GivingUp DEF FindLink
<1>2. CASE Goto(t, "readMember")
  <2>1. Fits(t) /\ task[t].at = "findLink"
    BY DEF FindLink, IInv
  <2>2. "readMember" \in Steps
    BY DEF Steps
  <2>3. Fits(t)'
    BY <1>2, <2>1, <2>2, GotoMoves DEF Fits, Remembers, Checked
  <2> QED
    BY <1>2, <2>2, <2>3, GotoMoves, SameChatAtRead, GoodStep DEF FindLink
<1> QED
  BY <1>1, <1>2 DEF FindLink

LEMMA ReadMemberStep ==
  ASSUME IInv, NEW t \in Tasks, ReadMember(t) PROVE IInv'
<1>1. CASE Return(t)
  BY <1>1, GivingUp DEF ReadMember
<1>2. CASE ~Return(t)
  <2>1. /\ Fits(t) /\ task[t].at = "readMember"
        /\ task[t].op \in {"add", "join"}
        /\ task[t].actor \in Users /\ task[t].target \in Users
    BY DEF ReadMember, IInv, Fits, Remembers
  <2>2. PICK r \in Roles \cup {"out", "none"} :
          task' = [task EXCEPT ![t].at = "write", ![t].sawTarget = "out",
                               ![t].sawActor = r]
    BY <1>2 DEF ReadMember, IInv, TypeOK, Task
  <2>3. /\ task' \in [Tasks -> Task]
        /\ \A s \in Tasks \ {t} : task'[s] = task[s]
        /\ task'[t].at = "write"
        /\ task'[t].op = task[t].op
        /\ task'[t].actor = task[t].actor
        /\ task'[t].target = task[t].target
        /\ task'[t].sawTarget = "out"
    <3> DEFINE new == [task[t] EXCEPT !.at = "write", !.sawTarget = "out",
                                      !.sawActor = r]
    <3>1. task[t] \in Task
      BY DEF IInv, TypeOK
    <3>2. /\ new \in Task
          /\ new.at = "write" /\ new.op = task[t].op
          /\ new.actor = task[t].actor /\ new.target = task[t].target
          /\ new.sawTarget = "out"
      BY <3>1 DEF Task, Steps
    <3>3. task' = [task EXCEPT ![t] = new]
      BY <2>2
    <3> HIDE DEF new
    <3> QED
      BY <3>2, <3>3, RewriteMoves
  <2>4. Fits(t)'
    BY <2>1, <2>3 DEF Fits, Remembers, Checked
  <2> QED
    BY <2>3, <2>4, SameChatAtRead, GoodStep DEF ReadMember
<1> QED
  BY <1>1, <1>2

-----------------------------------------------------------------------------
(* What a write that was not stale acts on: the roles that passed.         *)
LEMMA Fresh ==
  ASSUME IInv, NEW t \in Tasks, NEW op, Write(t, op), ~stale'
  PROVE  /\ ~stale
         /\ get_participant_role(task[t].actor) = task[t].sawActor
         /\ task[t].sawTarget # "none" =>
              get_participant_role(task[t].target) = task[t].sawTarget
BY DEF Write

LEMMA WriteStep ==
  ASSUME IInv, NEW t \in Tasks, NEW op, Write(t, op),
         role' \in [Users -> Roles \cup {"none"}],
         in' \subseteq Users,
         \A u \in in' : role'[u] # "none",
         KeysFit', link' \in BOOLEAN, deleted' \in BOOLEAN,
         RowsStay,
         OneOwner'
  PROVE  IInv'
<1>1. Return(t) /\ UNCHANGED requests
  BY DEF Write
<1>2. stale' \in BOOLEAN
  BY DEF Write, IInv, TypeOK
<1>3. ChatFits'
  BY <1>1, <1>2 DEF ChatFits, IInv, TypeOK
<1> QED
  BY <1>1, <1>3, ReturnFits, GoodStep

(* Most writes that are not stale leave the owner be. *)
LEMMA SameOwners ==
  ASSUME IInv, NEW t \in Tasks, NEW op, Write(t, op),
         ~stale' => Owners' = Owners
  PROVE  OneOwner'
<1>1. ~stale' => ~stale
  BY Fresh
<1> QED
  BY <1>1 DEF IInv, OneOwner

LEMMA WriteFits ==
  ASSUME IInv, NEW t \in Tasks, NEW op \in Ops, Write(t, op)
  PROVE  /\ Fits(t) /\ task[t].at = "write" /\ task[t].op = op
         /\ task[t].actor \in Users /\ task[t].target \in Users
BY DEF Write, IInv, Fits, Remembers

LEMMA EnterStep ==
  ASSUME IInv, NEW t \in Tasks, NEW op \in {"add", "join"}, Write(t, op),
         Enter(task[t].target), KeysFit',
         UNCHANGED <<link, deleted>>
  PROVE  IInv'
<1>1. op \in Ops
  BY DEF Ops
<1>2. /\ Fits(t) /\ task[t].at = "write" /\ task[t].op \in {"add", "join"}
      /\ task[t].target \in Users
  BY <1>1, WriteFits
<1>3. task[t].sawTarget = "out"
  BY <1>2 DEF Fits, Remembers
<1>4. ~stale' => task[t].target \notin in
  BY <1>2, <1>3, Fresh, RoleOfActive DEF IInv
<1>5. PICK u \in Users : u = task[t].target
  BY <1>2
<1>6. in' = in \cup {u} /\ role' = [role EXCEPT ![u] = "member"]
  BY <1>5 DEF Enter
<1>7. /\ role' \in [Users -> Roles \cup {"none"}]
      /\ in' \subseteq Users
      /\ \A v \in in' : role'[v] # "none"
      /\ RowsStay
  BY <1>6, RolesAre DEF IInv, TypeOK, RowsStay
<1>8. link' \in BOOLEAN /\ deleted' \in BOOLEAN
  BY DEF IInv, TypeOK
<1>9. ~stale' => Owners' = Owners
  BY <1>4, <1>5, <1>6 DEF IInv, TypeOK, Owners
<1> QED
  BY <1>7, <1>8, <1>9, WriteStep, SameOwners

LEMMA AddStep ==
  ASSUME IInv, NEW t \in Tasks, add_participant(t) PROVE IInv'
<1>1. Write(t, "add") /\ Enter(task[t].target) /\ UNCHANGED <<link, deleted>>
  BY DEF add_participant
<1>2. task[t].target \in Users
  BY <1>1, WriteFits DEF Ops
<1>3. KeysFit'
  BY <1>2 DEF add_participant, IInv, TypeOK, KeysFit
<1> QED
  BY <1>1, <1>3, EnterStep

LEMMA JoinStep ==
  ASSUME IInv, NEW t \in Tasks, join_by_invite(t) PROVE IInv'
<1>1. /\ Write(t, "join") /\ Enter(task[t].target)
      /\ UNCHANGED <<link, deleted>>
  BY DEF join_by_invite
<1>2. KeysFit'
  BY DEF join_by_invite, IInv, TypeOK, KeysFit
<1> QED
  BY <1>1, <1>2, EnterStep

(* A target whose role a request saw, and may act on, is not the owner.    *)
LEMMA TargetIsNotOwner ==
  ASSUME IInv, NEW t \in Tasks, NEW op \in {"remove", "setRole"},
         Write(t, op), ~stale'
  PROVE  task[t].target \notin Owners
<1>1. op \in Ops
  BY DEF Ops
<1>2. /\ Fits(t) /\ task[t].at = "write" /\ task[t].op = op
      /\ task[t].actor \in Users /\ task[t].target \in Users
  BY <1>1, WriteFits
<1>3. /\ task[t].sawActor \in Roles /\ task[t].sawTarget \in Roles
      /\ TargetMay(task[t], task[t].sawTarget)
  BY <1>2 DEF Fits, Remembers, Checked
<1>4. /\ get_participant_role(task[t].actor) = task[t].sawActor
      /\ get_participant_role(task[t].target) = task[t].sawTarget
  BY <1>3, Fresh, RolesAre
<1>5. task[t].sawTarget # "owner"
  <2>1. CASE op = "remove" /\ task[t].actor = task[t].target
    <3>1. task[t].sawActor # "owner"
      BY <1>2, <1>3, <2>1 DEF TargetMay
    <3> QED
      BY <1>4, <2>1, <3>1
  <2>2. CASE op = "remove" /\ task[t].actor # task[t].target
    <3>1. Outranks(task[t].sawActor, task[t].sawTarget)
      BY <1>2, <1>3, <2>2 DEF TargetMay
    <3> QED
      BY <1>3, <3>1, NothingOutranksTheOwner
  <2>3. CASE op = "setRole"
    <3>1. Outranks(task[t].sawActor, task[t].sawTarget)
      BY <1>2, <1>3, <2>3 DEF TargetMay
    <3> QED
      BY <1>3, <3>1, NothingOutranksTheOwner
  <2> QED
    BY <2>1, <2>2, <2>3
<1> QED
  BY <1>2, <1>4, <1>5, RoleOfActive DEF IInv, Owners

LEMMA RemoveStep ==
  ASSUME IInv, NEW t \in Tasks, remove_participant(t) PROVE IInv'
<1>1. Write(t, "remove")
  BY DEF remove_participant
<1>2. in' = in \ {task[t].target} /\ UNCHANGED <<role, key, link, deleted, barred>>
  BY DEF remove_participant
<1>3. ~stale' => task[t].target \notin Owners
  BY <1>1, TargetIsNotOwner
<1>4. ~stale' => Owners' = Owners
  BY <1>2, <1>3 DEF Owners
<1>5. OneOwner'
  BY <1>1, <1>4, SameOwners
<1> QED
  BY <1>1, <1>2, <1>5, WriteStep DEF IInv, TypeOK, RowsStay, KeysFit

LEMMA SetRoleStep ==
  ASSUME IInv, NEW t \in Tasks, update_participant_role(t) PROVE IInv'
<1>1. Write(t, "setRole")
  BY DEF update_participant_role
<1>2. /\ Fits(t) /\ task[t].op = "setRole" /\ task[t].target \in Users
  BY <1>1, WriteFits DEF Ops
<1>3. PICK u \in Users, want \in Roles \ {"owner"} :
        u = task[t].target /\ want = task[t].want
  BY <1>2 DEF Fits, Remembers
<1>4. /\ role' = IF u \in in THEN [role EXCEPT ![u] = want] ELSE role
      /\ UNCHANGED <<in, key, link, deleted, barred>>
  BY <1>3 DEF update_participant_role
<1>5. ~stale' => u \notin Owners
  BY <1>1, <1>3, TargetIsNotOwner
<1>6. /\ role' \in [Users -> Roles \cup {"none"}]
      /\ \A v \in in' : role'[v] # "none"
      /\ RowsStay
  BY <1>4, RolesAre DEF IInv, TypeOK, RowsStay
<1>7. ~stale' => Owners' = Owners
  BY <1>4, <1>5 DEF Owners, IInv, TypeOK
<1>8. OneOwner'
  BY <1>1, <1>7, SameOwners
<1>9. /\ in' \subseteq Users /\ KeysFit'
      /\ link' \in BOOLEAN /\ deleted' \in BOOLEAN
  BY <1>4 DEF IInv, TypeOK, KeysFit
<1> QED
  BY <1>1, <1>6, <1>8, <1>9, WriteStep

(* Writes that touch neither roles nor members. *)
LEMMA RolesApart ==
  ASSUME IInv, NEW t \in Tasks, NEW op, Write(t, op),
         UNCHANGED <<role, in>>,
         KeysFit', link' \in BOOLEAN, deleted' \in BOOLEAN
  PROVE  IInv'
<1>1. Owners' = Owners
  BY DEF Owners
<1>2. OneOwner'
  BY <1>1, SameOwners
<1>3. /\ role' \in [Users -> Roles \cup {"none"}]
      /\ in' \subseteq Users
      /\ \A u \in in' : role'[u] # "none"
      /\ RowsStay
  BY DEF IInv, TypeOK, RowsStay
<1> QED
  BY <1>2, <1>3, WriteStep

LEMMA SetLinkStep ==
  ASSUME IInv, NEW t \in Tasks, set_invite_link(t) PROVE IInv'
<1>1. /\ UNCHANGED <<role, in>> /\ KeysFit'
      /\ link' \in BOOLEAN /\ deleted' \in BOOLEAN
  BY DEF set_invite_link, IInv, TypeOK, KeysFit
<1>2. Write(t, "setLink") \/ Write(t, "deleteLink")
  BY DEF set_invite_link
<1> QED
  BY <1>1, <1>2, RolesApart

LEMMA RotateStep ==
  ASSUME IInv, NEW t \in Tasks, rotate_group_key(t) PROVE IInv'
<1>1. /\ UNCHANGED <<role, in>> /\ KeysFit'
      /\ link' \in BOOLEAN /\ deleted' \in BOOLEAN
  BY DEF rotate_group_key, IInv, TypeOK, KeysFit
<1>2. Write(t, "rotate")
  BY DEF rotate_group_key
<1> QED
  BY <1>1, <1>2, RolesApart

LEMMA TransferStep ==
  ASSUME IInv, NEW t \in Tasks, transfer_ownership(t) PROVE IInv'
<1>1. Write(t, "transfer")
  BY DEF transfer_ownership
<1>2. /\ Fits(t) /\ task[t].at = "write" /\ task[t].op = "transfer"
      /\ task[t].actor \in Users /\ task[t].target \in Users
  BY <1>1, WriteFits DEF Ops
<1>3. /\ task[t].actor # task[t].target
      /\ ActorMay("transfer", task[t].sawActor)
      /\ task[t].sawTarget \in Roles
  BY <1>2 DEF Fits, Remembers, Checked
<1>4. task[t].sawActor = "owner"
  BY <1>3 DEF ActorMay
<1>5. PICK u \in Users, v \in Users : u = task[t].actor /\ v = task[t].target
  BY <1>2
<1>6. /\ u # v
      /\ role' = [role EXCEPT ![u] = "admin", ![v] = "owner"]
      /\ UNCHANGED <<in, key, link, deleted, barred>>
  BY <1>3, <1>5 DEF transfer_ownership
<1>7. /\ role' \in [Users -> Roles \cup {"none"}]
      /\ \A w \in in' : role'[w] # "none"
      /\ RowsStay
  BY <1>6, RolesAre DEF IInv, TypeOK, RowsStay
<1>8. ~stale' => Owners' = {v}
  <2> SUFFICES ASSUME ~stale' PROVE Owners' = {v}
    OBVIOUS
  <2>1. /\ ~stale
        /\ get_participant_role(u) = "owner"
        /\ get_participant_role(v) \in Roles
    BY <1>1, <1>3, <1>4, <1>5, Fresh, RolesAre
  <2>2. u \in Owners /\ v \in in
    BY <2>1, RoleOfActive, RolesAre DEF IInv, Owners
  <2>3. Owners = {u}
    BY <2>1, <2>2 DEF IInv, OneOwner
  <2> QED
    BY <1>6, <2>2, <2>3 DEF Owners, IInv, TypeOK
<1>9. OneOwner'
  BY <1>8 DEF OneOwner
<1>10. /\ in' \subseteq Users /\ KeysFit'
       /\ link' \in BOOLEAN /\ deleted' \in BOOLEAN
  BY <1>6 DEF IInv, TypeOK, KeysFit
<1> QED
  BY <1>1, <1>7, <1>9, <1>10, WriteStep

LEMMA DeleteStep ==
  ASSUME IInv, NEW t \in Tasks, delete_chat(t) PROVE IInv'
<1>1. Write(t, "delete") /\ UNCHANGED <<role, key, link, barred>>
  BY DEF delete_chat
<1>2. /\ Fits(t) /\ task[t].at = "write" /\ task[t].op = "delete"
      /\ task[t].actor \in Users
  BY <1>1, WriteFits DEF Ops
<1>3. /\ deleted' \in BOOLEAN
      /\ in' = in \/ (/\ task[t].sawActor # "owner"
                      /\ in' = in \ {task[t].actor})
  BY DEF delete_chat, IInv, TypeOK
<1>4. ~stale' => Owners' = Owners
  <2>1. CASE in' = in
    BY <1>1, <2>1 DEF Owners
  <2>2. CASE task[t].sawActor # "owner" /\ in' = in \ {task[t].actor}
    <3>1. ~stale' => get_participant_role(task[t].actor) # "owner"
      BY <1>1, <2>2, Fresh
    <3>2. ~stale' => task[t].actor \notin Owners
      BY <1>2, <3>1, RoleOfActive DEF IInv, Owners
    <3> QED
      BY <1>1, <2>2, <3>2 DEF Owners
  <2> QED
    BY <1>3, <2>1, <2>2
<1>5. OneOwner'
  BY <1>1, <1>4, SameOwners
<1>6. /\ role' \in [Users -> Roles \cup {"none"}]
      /\ in' \subseteq Users
      /\ \A u \in in' : role'[u] # "none"
      /\ RowsStay
      /\ KeysFit' /\ link' \in BOOLEAN
  BY <1>1, <1>3 DEF IInv, TypeOK, RowsStay, KeysFit
<1> QED
  BY <1>1, <1>3, <1>5, <1>6, WriteStep

-----------------------------------------------------------------------------
LEMMA InitIInv == Init => IInv
<1> SUFFICES ASSUME Init PROVE IInv
  OBVIOUS
<1>1. PICK creator \in Users, others \in SUBSET Users :
        /\ in = others \cup {creator}
        /\ role = [u \in Users |-> IF u = creator THEN "owner" ELSE
                                   IF u \in others THEN "member" ELSE "none"]
  BY DEF Init
<1>2. IdleTask \in Task
  BY DEF IdleTask, Handler, Task, Steps, Ops
<1>3. TypeOK
  <2>1. role \in [Users -> Roles \cup {"none"}]
    BY <1>1, RolesAre
  <2>2. in \subseteq Users /\ \A u \in in : role[u] # "none"
    BY <1>1
  <2>3. task \in [Tasks -> Task]
    BY <1>2 DEF Init
  <2>4. requests \in 0..MaxRequests
    BY MaxRequestsIsNatural DEF Init
  <2> QED
    BY <2>1, <2>2, <2>3, <2>4 DEF Init, TypeOK
<1>4. ASSUME NEW t \in Tasks PROVE Fits(t)
  <2>1. task[t] = IdleTask
    BY DEF Init
  <2> QED
    BY <2>1 DEF Fits, Remembers, IdleTask, Handler, Checked
<1>5. Owners = {creator}
  BY <1>1 DEF Owners
<1> QED
  BY <1>3, <1>4, <1>5 DEF IInv, OneOwner

LEMMA NextIInv == IInv /\ [Next]_vars => IInv'
<1> SUFFICES ASSUME IInv, [Next]_vars PROVE IInv'
  OBVIOUS
<1>1. CASE UNCHANGED vars
  <2>1. UNCHANGED <<chat, task, requests, stale>>
    BY <1>1 DEF vars
  <2>2. requests' \in 0..MaxRequests
    BY <2>1 DEF IInv, TypeOK
  <2>3. ChatFits' /\ OneOwner'
    BY <2>1, <2>2, SameChat
  <2>4. ASSUME NEW t \in Tasks PROVE Fits(t)'
    BY <2>1 DEF IInv, Fits, chat
  <2>5. task' \in [Tasks -> Task]
    BY <2>1 DEF IInv, TypeOK
  <2> QED
    BY <2>3, <2>4, <2>5 DEF IInv, TypeOK, ChatFits, KeysFit
<1>2. ASSUME NEW t \in Tasks, NEW u \in Users,
             Request(t, u) \/ RequestOnGroup(t, u)
      PROVE  IInv'
  BY <1>2, RequestStep, RequestOnGroupStep
<1>3. ASSUME NEW t \in Tasks, TaskStep(t) PROVE IInv'
  BY <1>3, ReadActorStep, ReadTargetStep, ReadChatStep, ReadOwnerStep,
     FindLinkStep, ReadMemberStep, AddStep, JoinStep, RemoveStep, SetRoleStep,
     SetLinkStep, RotateStep, TransferStep, DeleteStep
     DEF TaskStep
<1>4. ASSUME NEW t \in Tasks, QueryFails(t) PROVE IInv'
  BY <1>4, GivingUp DEF QueryFails
<1> QED
  BY <1>1, <1>2, <1>3, <1>4 DEF Next

LEMMA Invariance == Spec => []IInv
BY InitIInv, NextIInv, PTL DEF Spec

(* Every variable keeps its type, and an active member of the group has a  *)
(* role, whatever requests overlap and whichever queries fail.             *)
THEOREM GroupTypeCorrect == Spec => []TypeOK
<1>1. IInv => TypeOK
  BY DEF IInv
<1> QED
  BY <1>1, Invariance, PTL

(* The checks of the handlers suffice for requests that do not overtake    *)
(* one another: the group then always has exactly one owner.               *)
THEOREM OneOwnerUnlessStale == Spec => []OneOwner
<1>1. IInv => OneOwner
  BY DEF IInv
<1> QED
  BY <1>1, Invariance, PTL

(* Only transfer_ownership makes an owner, and only for one who found to   *)
(* be the owner: no overlap of requests makes update_participant_role,     *)
(* add_participant or join_by_invite do so.                                *)
THEOREM OwnershipOnlyByTransfer == Spec => OwnerOnlyByTransfer
<1> DEFINE Became(u) == role[u] # "owner" /\ role'[u] = "owner"
           ByTransfer(u) == \E t \in Tasks : /\ task[t].op = "transfer"
                                             /\ task[t].target = u
                                             /\ task[t].sawActor = "owner"
<1>1. ASSUME IInv, Next, NEW u \in Users, Became(u) PROVE ByTransfer(u)
  <2>1. PICK t \in Tasks :
          \/ \E v \in Users : Request(t, v) \/ RequestOnGroup(t, v)
          \/ TaskStep(t)
          \/ QueryFails(t)
    BY <1>1 DEF Next
  <2>2. role' # role
    BY <1>1
  <2>3. \/ add_participant(t) \/ join_by_invite(t)
        \/ update_participant_role(t) \/ transfer_ownership(t)
    BY <2>1, <2>2
    DEF TaskStep, Request, RequestOnGroup, QueryFails, ReadActor,
         ReadTarget, ReadChat, ReadOwner, FindLink, ReadMember,
         remove_participant, set_invite_link, rotate_group_key, delete_chat,
         chat
  <2>4. role \in [Users -> Roles \cup {"none"}]
    BY <1>1 DEF IInv, TypeOK
  <2>5. CASE add_participant(t) \/ join_by_invite(t)
    <3>1. role' = [role EXCEPT ![task[t].target] = "member"]
      BY <2>5 DEF add_participant, join_by_invite, Enter
    <3> QED
      BY <1>1, <2>4, <3>1
  <2>6. CASE update_participant_role(t)
    <3>1. task[t].want # "owner"
      <4>1. Write(t, "setRole")
        BY <2>6 DEF update_participant_role
      <4>2. Fits(t) /\ task[t].op = "setRole"
        BY <1>1, <4>1 DEF Write, IInv
      <4> QED
        BY <4>2 DEF Fits, Remembers
    <3>2. \/ role' = role
          \/ role' = [role EXCEPT ![task[t].target] = task[t].want]
      BY <2>6 DEF update_participant_role
    <3> QED
      BY <1>1, <2>4, <3>1, <3>2
  <2>7. CASE transfer_ownership(t)
    <3>1. Write(t, "transfer")
      BY <2>7 DEF transfer_ownership
    <3>2. Fits(t) /\ task[t].at = "write" /\ task[t].op = "transfer"
      BY <1>1, <3>1 DEF Write, IInv
    <3>3. ActorMay("transfer", task[t].sawActor)
      BY <3>2 DEF Fits, Remembers, Checked
    <3>4. task[t].sawActor = "owner"
      BY <3>3 DEF ActorMay
    <3>5. role' = [role EXCEPT ![task[t].actor] = "admin",
                               ![task[t].target] = "owner"]
      BY <2>7 DEF transfer_ownership
    <3>6. task[t].target = u
      BY <1>1, <2>4, <3>5
    <3> QED
      BY <3>2, <3>4, <3>6
  <2> QED
    BY <2>3, <2>5, <2>6, <2>7
<1>2. IInv /\ [Next]_vars =>
        [\A u \in Users : Became(u) => ByTransfer(u)]_vars
  BY <1>1
<1>3. [][\A u \in Users : Became(u) => ByTransfer(u)]_vars
        <=> OwnerOnlyByTransfer
  BY DEF OwnerOnlyByTransfer
<1> QED
  BY <1>2, <1>3, Invariance, PTL DEF Spec

(* Of all statements only two make a row active.                          *)
LEMMA OnlyTwoEnter ==
  ASSUME IInv, [Next]_vars
  PROVE  \/ in' \subseteq in
         \/ \E t \in Tasks :
              task[t].target \in Users /\ Enter(task[t].target)
<1>1. CASE UNCHANGED in
  BY <1>1
<1>2. ASSUME NEW t \in Tasks, TaskStep(t)
      PROVE  \/ in' \subseteq in
             \/ task[t].target \in Users /\ Enter(task[t].target)
  <2>1. CASE \/ ReadActor(t) \/ ReadTarget(t) \/ ReadChat(t) \/ ReadOwner(t)
             \/ FindLink(t) \/ ReadMember(t)
    BY <2>1 DEF ReadActor, ReadTarget, ReadChat, ReadOwner, FindLink,
                ReadMember, chat
  <2>2. CASE add_participant(t) \/ join_by_invite(t)
    <3>1. task[t].at = "write" /\ Enter(task[t].target)
      BY <2>2 DEF add_participant, join_by_invite, Write
    <3>2. task[t].target \in Users
      BY <3>1 DEF IInv, Fits, Remembers
    <3> QED
      BY <3>1, <3>2
  <2>3. CASE \/ remove_participant(t) \/ update_participant_role(t)
             \/ set_invite_link(t) \/ rotate_group_key(t)
             \/ transfer_ownership(t) \/ delete_chat(t)
    BY <2>3 DEF remove_participant, update_participant_role, set_invite_link,
                rotate_group_key, transfer_ownership, delete_chat
  <2> QED
    BY <1>2, <2>1, <2>2, <2>3 DEF TaskStep
<1>3. ASSUME NEW t \in Tasks, NEW u \in Users,
             Request(t, u) \/ RequestOnGroup(t, u)
      PROVE  UNCHANGED in
  BY <1>3 DEF Request, RequestOnGroup, chat
<1>4. ASSUME NEW t \in Tasks, QueryFails(t)
      PROVE  UNCHANGED in
  BY <1>4 DEF QueryFails, chat
<1> QED
  BY <1>1, <1>2, <1>3, <1>4 DEF Next, vars, chat

(* Whoever comes back, after whatever role and however requests overlap,   *)
(* comes back as a member: both statements that make a row active set its  *)
(* role (INSERT ... ON CONFLICT DO UPDATE, chat.rs:1438, 1690).             *)
THEOREM ReturnsAsMember == Spec => BackAsMember
<1> DEFINE Back == \A u \in Users :
                     u \notin in /\ u \in in' => role'[u] = "member"
<1>1. IInv /\ [Next]_vars => [Back]_vars
  <2> SUFFICES ASSUME IInv, [Next]_vars,
                      NEW u \in Users, u \notin in, u \in in'
               PROVE  role'[u] = "member"
    OBVIOUS
  <2>1. PICK t \in Tasks : task[t].target \in Users /\ Enter(task[t].target)
    BY OnlyTwoEnter
  <2>2. u = task[t].target
    BY <2>1 DEF Enter
  <2> QED
    BY <2>1, <2>2 DEF Enter, IInv, TypeOK
<1> QED
  BY <1>1, Invariance, PTL DEF Spec, BackAsMember

(* A rotation takes the key from all who are out, also from those who had *)
(* the last one; after it only add_participant brings the key to somebody, *)
(* and that is someone an admin has chosen to add.                         *)
LEMMA AbsentStayWithout ==
  ASSUME NoKeyForTheAbsent, [Next]_vars
  PROVE  NoKeyForTheAbsent'
<1>1. ASSUME UNCHANGED <<key, barred>>
      PROVE  NoKeyForTheAbsent'
  BY <1>1 DEF NoKeyForTheAbsent
<1>2. ASSUME NEW t \in Tasks, rotate_group_key(t)
      PROVE  NoKeyForTheAbsent'
  <2>1. key' \subseteq in /\ barred' = Users \ in
    BY <1>2 DEF rotate_group_key
  <2> QED
    BY <2>1 DEF NoKeyForTheAbsent
<1>3. ASSUME NEW t \in Tasks, add_participant(t)
      PROVE  NoKeyForTheAbsent'
  <2>1. /\ key' \subseteq key \cup {task[t].target}
        /\ barred' = barred \ {task[t].target}
    BY <1>3 DEF add_participant
  <2> QED
    BY <2>1 DEF NoKeyForTheAbsent
<1>4. ASSUME NEW t \in Tasks, TaskStep(t),
             ~rotate_group_key(t), ~add_participant(t)
      PROVE  UNCHANGED <<key, barred>>
  BY <1>4 DEF TaskStep, ReadActor, ReadTarget, ReadChat, ReadOwner, FindLink,
              ReadMember, join_by_invite, remove_participant,
              update_participant_role, set_invite_link, transfer_ownership,
              delete_chat, chat
<1>5. ASSUME NEW t \in Tasks, NEW u \in Users,
             Request(t, u) \/ RequestOnGroup(t, u)
      PROVE  UNCHANGED <<key, barred>>
  BY <1>5 DEF Request, RequestOnGroup, chat
<1>6. ASSUME NEW t \in Tasks, QueryFails(t)
      PROVE  UNCHANGED <<key, barred>>
  BY <1>6 DEF QueryFails, chat
<1>7. CASE UNCHANGED vars
  BY <1>1, <1>7 DEF vars, chat
<1> QED
  BY <1>1, <1>2, <1>3, <1>4, <1>5, <1>6, <1>7 DEF Next

(* Whoever was out of the group when its newest key was made does not have *)
(* it, whether the user had the key before, whoever the client that made   *)
(* the key took for members, and although the user may have come back by   *)
(* the link since: a rotation writes to active rows only and a return by   *)
(* the link leaves the key (chat.rs:1733-1742, 1690).                      *)
THEOREM AbsentGetNoKey == Spec => []NoKeyForTheAbsent
<1>1. Init => NoKeyForTheAbsent
  BY DEF Init, NoKeyForTheAbsent
<1> QED
  BY <1>1, AbsentStayWithout, PTL DEF Spec

-----------------------------------------------------------------------------
(***************************************************************************)
(* Gateway, for any number of connections, tickets, events and faults.     *)
(* GatewayInv adds to the properties that an open socket has a writer and  *)
(* is counted, that a connection about to register has room while its      *)
(* count is good, that used tickets are gone, and that an event stays with *)
(* the sockets it was published to. First what each action does to the     *)
(* records, then a lemma for each part of GatewayInv.                      *)
(***************************************************************************)

(* The steps of a connection before it has a socket. *)
Before == {"idle", "del", "limit", "upgrade"}

(* A writer lives as long as its socket, at least. *)
WriterFits ==
  \A c \in Conns :
    /\ socket[c] = "open" => writer[c] = "alive"
    /\ writer[c] = "alive" => socket[c] # "none"
    /\ conn[c].at \in Before => socket[c] = "none"

(* Open sockets are counted, and who is about to register has room. *)
CountFits ==
  ~late =>
    /\ Open \subseteq registry
    /\ Cardinality(registry) <= Limit
    /\ \A c \in Conns : conn[c].at = "upgrade" /\ conn[c].current =>
         Cardinality(registry) < Limit

(* A ticket that somebody holds, and no longer has to delete, is deleted. *)
TicketFits ==
  \A c \in Conns :
    /\ conn[c].at = "del" => conn[c].ticket \in Tickets
    /\ faults = 0 /\ conn[c].ticket \in Tickets /\ conn[c].at # "del" =>
         ticket[conn[c].ticket] = "gone"

Queued(c, e) == \E i \in DOMAIN queue[c] : queue[c][i] = e

(* An event is kept for every open socket that was subscribed. *)
Kept ==
  \A e \in Events : \A c \in event[e].audience :
    \/ socket[c] = "closed"
    \/ socket[c] = "open" /\ (e \in got[c] \/ Queued(c, e))

(* Somebody stood for the presence that made a push unnecessary. *)
Decided ==
  \A e \in Events :
    faults = 0 /\ event[e].at = "done" /\ e \notin pushed =>
      event[e].owing # {}

GatewayInv ==
  /\ GatewayTypeOK
  /\ WriterFits
  /\ CountFits
  /\ PresenceIsOwed
  /\ TicketFits
  /\ Kept
  /\ Decided

-----------------------------------------------------------------------------
ConnSteps == {"idle", "del", "limit", "upgrade", "presence", "open", "remove",
          "offline", "closed"}

(* Only the connection c changes, and only its step. *)
Moves(c, step) ==
  /\ conn' \in [Conns -> Conn]
  /\ \A d \in Conns \ {c} : conn'[d] = conn[d]
  /\ conn'[c].at = step
  /\ conn'[c].ticket = conn[c].ticket
  /\ conn'[c].current = conn[c].current

LEMMA ProceedMoves ==
  ASSUME GatewayTypeOK, NEW c \in Conns, NEW step \in ConnSteps,
         Proceed(c, step)
  PROVE  Moves(c, step)
<1>. DEFINE new == [conn[c] EXCEPT !.at = step]
<1>1. conn \in [Conns -> Conn] /\ conn' = [conn EXCEPT ![c] = new]
  BY DEF Proceed, GatewayTypeOK
<1>2. /\ new \in Conn /\ new.at = step
      /\ new.ticket = conn[c].ticket /\ new.current = conn[c].current
  BY <1>1 DEF Conn, ConnSteps
<1>. HIDE DEF new
<1>. QED
  BY <1>1, <1>2 DEF Moves

LEMMA ReaderMoves ==
  ASSUME GatewayTypeOK, NEW c \in Conns, ReaderEnds(c)
  PROVE  \E step \in {"remove", "offline"} : Moves(c, step)
<1>1. PICK step \in {"remove", "offline"} : Proceed(c, step)
  BY DEF ReaderEnds
<1>. QED
  BY <1>1, ProceedMoves DEF ConnSteps

LEMMA GetTicketMoves ==
  ASSUME GatewayTypeOK, NEW c \in Conns, NEW k \in Tickets, GetTicket(c, k)
  PROVE  /\ conn' \in [Conns -> Conn]
         /\ \A d \in Conns \ {c} : conn'[d] = conn[d]
         /\ conn'[c].at = "del"
         /\ conn'[c].ticket = k
<1>. DEFINE new == [conn[c] EXCEPT !.at = "del", !.ticket = k]
<1>1. conn' = [conn EXCEPT ![c] = new]
  BY DEF GetTicket
<1>2. conn[c] \in Conn
  BY DEF GatewayTypeOK
<1>3. new \in Conn /\ new.at = "del" /\ new.ticket = k
  BY <1>2 DEF Conn
<1>. HIDE DEF new
<1>. QED
  BY <1>1, <1>3 DEF GatewayTypeOK

LEMMA CheckLimitMoves ==
  ASSUME GatewayTypeOK, NEW c \in Conns, CheckLimit(c)
  PROVE  /\ conn' \in [Conns -> Conn]
         /\ \A d \in Conns \ {c} : conn'[d] = conn[d]
         /\ conn'[c].at \in {"closed", "upgrade"}
         /\ conn'[c].at = "upgrade" => Cardinality(registry') < Limit
         /\ conn'[c].ticket = conn[c].ticket
<1>. DEFINE step == IF Cardinality(registry') >= Limit
                      THEN "closed" ELSE "upgrade"
            new == [conn[c] EXCEPT !.at = step, !.current = TRUE]
<1>1. conn' = [conn EXCEPT ![c] = new]
  BY DEF CheckLimit, GatewayTypeOK, Conn
<1>2. step \in {"closed", "upgrade"}
  OBVIOUS
<1>. HIDE DEF step
<1>3. new \in Conn /\ new.at = step /\ new.ticket = conn[c].ticket
  <2>1. conn[c] \in Conn
    BY DEF GatewayTypeOK
  <2>. QED
    BY <1>2, <2>1 DEF Conn
<1>4. /\ IsFiniteSet(registry')
      /\ Cardinality(registry') \in Nat
  BY ConnsAreFinite, FS_Subset, FS_CardinalityType
     DEF CheckLimit, Alive, GatewayTypeOK
<1>5. step = "upgrade" => Cardinality(registry') < Limit
  BY <1>4, LimitIsPositive DEF step
<1>. HIDE DEF new
<1>. QED
  BY <1>1, <1>2, <1>3, <1>5 DEF GatewayTypeOK

LEMMA RegisterMoves ==
  ASSUME GatewayTypeOK, NEW c \in Conns, Register(c)
  PROVE  /\ conn' \in [Conns -> Conn]
         /\ conn'[c].at = "presence"
         /\ conn'[c].ticket = conn[c].ticket
         /\ \A d \in Conns \ {c} : /\ conn'[d].at = conn[d].at
                                   /\ conn'[d].ticket = conn[d].ticket
                                   /\ conn'[d].current = FALSE
<1>. DEFINE new(d) == IF d = c THEN [conn[d] EXCEPT !.at = "presence"]
                      ELSE [conn[d] EXCEPT !.current = FALSE]
<1>1. conn' = [d \in Conns |-> new(d)]
  BY DEF Register
<1>2. ASSUME NEW d \in Conns
      PROVE  /\ new(d) \in Conn
             /\ new(d).ticket = conn[d].ticket
             /\ d = c => new(d).at = "presence"
             /\ d # c => new(d).at = conn[d].at /\ new(d).current = FALSE
  <2>1. conn[d] \in Conn
    BY DEF GatewayTypeOK
  <2>. QED
    BY <2>1 DEF Conn
<1>. HIDE DEF new
<1>. QED
  BY <1>1, <1>2

LEMMA CrashMoves ==
  ASSUME GatewayTypeOK, Crash
  PROVE  /\ conn' \in [Conns -> Conn]
         /\ \A c \in Conns : /\ conn'[c].at \in {"idle", "closed"}
                             /\ conn'[c].at = "idle" <=> conn[c].at = "idle"
                             /\ conn'[c].ticket = conn[c].ticket
<1>. DEFINE new(c) == IF conn[c].at = "idle" THEN conn[c]
                      ELSE [conn[c] EXCEPT !.at = "closed"]
<1>1. conn' = [c \in Conns |-> new(c)]
  BY DEF Crash
<1>2. ASSUME NEW c \in Conns
      PROVE  /\ new(c) \in Conn
             /\ new(c).at = "idle" <=> conn[c].at = "idle"
             /\ new(c).at \in {"idle", "closed"}
             /\ new(c).ticket = conn[c].ticket
  <2>1. CASE conn[c].at = "idle"
    BY <2>1 DEF GatewayTypeOK
  <2>2. CASE conn[c].at # "idle"
    <3>1. conn[c] \in Conn
      BY DEF GatewayTypeOK
    <3>. QED
      BY <2>2, <3>1 DEF Conn
  <2>. QED
    BY <2>1, <2>2
<1>. HIDE DEF new
<1>. QED
  BY <1>1, <1>2

-----------------------------------------------------------------------------
LEMMA PublishMoves ==
  ASSUME GatewayTypeOK, NEW e \in Events, Publish(e)
  PROVE  /\ event' \in [Events -> Event]
         /\ \A f \in Events \ {e} : event'[f] = event[f]
         /\ event'[e].at = "published"
         /\ event'[e].audience \subseteq
              {c \in Alive(Open) : forwarder[c] = "subscribed"}
         /\ event'[e].owing = event[e].owing
<1>. DEFINE audience == {c \in Alive(Conns) : forwarder[c] = "subscribed"}
                          \cap Open
            new == [event[e] EXCEPT !.at = "published", !.audience = audience]
<1>1. event' = [event EXCEPT ![e] = new]
  BY DEF Publish
<1>2. new \in Event /\ new.at = "published" /\ new.audience = audience
        /\ new.owing = event[e].owing
  <2>1. event[e] \in Event
    BY DEF GatewayTypeOK
  <2>2. audience \in SUBSET Conns
    BY DEF Alive
  <2>. HIDE DEF audience
  <2>. QED
    BY <2>1, <2>2 DEF Event
<1>3. audience \subseteq {c \in Alive(Open) : forwarder[c] = "subscribed"}
  BY DEF Alive, Open
<1>. HIDE DEF new, audience
<1>. QED
  BY <1>1, <1>2, <1>3 DEF GatewayTypeOK

LEMMA CheckPresenceMoves ==
  ASSUME GatewayTypeOK, NEW e \in Events, CheckPresence(e)
  PROVE  /\ event' \in [Events -> Event]
         /\ \A f \in Events \ {e} : event'[f] = event[f]
         /\ event'[e].at = "done"
         /\ event'[e].audience = event[e].audience
         /\ event'[e].owing = Owing
<1>. DEFINE new == [event[e] EXCEPT !.at = "done", !.owing = Owing]
<1>1. event' = [event EXCEPT ![e] = new]
  BY DEF CheckPresence
<1>2. new \in Event /\ new.at = "done" /\ new.owing = Owing
        /\ new.audience = event[e].audience
  <2>1. event[e] \in Event
    BY DEF GatewayTypeOK
  <2>2. Owing \in SUBSET Conns
    BY DEF Owing
  <2>. QED
    BY <2>1, <2>2 DEF Event
<1>. HIDE DEF new
<1>. QED
  BY <1>1, <1>2 DEF GatewayTypeOK

LEMMA CrashEvents ==
  ASSUME GatewayTypeOK, Crash
  PROVE  /\ event' \in [Events -> Event]
         /\ \A e \in Events : event'[e].audience = event[e].audience
<1>. DEFINE new(e) == IF event[e].at = "published"
                        THEN [event[e] EXCEPT !.at = "done"] ELSE event[e]
<1>1. event' = [e \in Events |-> new(e)]
  BY DEF Crash
<1>2. ASSUME NEW e \in Events
      PROVE  new(e) \in Event /\ new(e).audience = event[e].audience
  <2>0. event[e] \in Event
    BY DEF GatewayTypeOK
  <2>1. CASE event[e].at = "published"
    BY <2>0, <2>1 DEF Event
  <2>2. CASE event[e].at # "published"
    BY <2>2 DEF GatewayTypeOK
  <2>. QED
    BY <2>1, <2>2
<1>. HIDE DEF new
<1>. QED
  BY <1>1, <1>2

-----------------------------------------------------------------------------
LEMMA FaultCounts ==
  ASSUME GatewayTypeOK, UNCHANGED faults \/ Fault
  PROVE  faults' \in 0..MaxFaults /\ (faults' = 0 => faults = 0)
BY MaxFaultsIsNatural DEF GatewayTypeOK, Fault

-----------------------------------------------------------------------------
LEMMA TypeStep ==
  ASSUME GatewayTypeOK, [GatewayNext]_gatewayVars
  PROVE  GatewayTypeOK'
<1>1. ASSUME NEW k \in Tickets, create_ws_ticket(k)
      PROVE  GatewayTypeOK'
  BY <1>1
     DEF create_ws_ticket, GatewayTypeOK, redis, tasks, sending
<1>2. ASSUME NEW k \in Tickets, TicketExpires(k)
      PROVE  GatewayTypeOK'
  BY <1>2
     DEF TicketExpires, GatewayTypeOK, redis, tasks, sending
<1>3. ASSUME NEW c \in Conns, NEW k \in Tickets, GetTicket(c, k)
      PROVE  GatewayTypeOK'
  BY <1>3, GetTicketMoves
     DEF GetTicket, GatewayTypeOK, redis, tasks, sending
<1>4. ASSUME NEW c \in Conns, UpgradeFails(c)
      PROVE  GatewayTypeOK'
  BY <1>4, ProceedMoves
     DEF UpgradeFails, GatewayTypeOK, redis, tasks, sending, Moves, ConnSteps
<1>5. ASSUME NEW c \in Conns, WriteAnswer(c)
      PROVE  GatewayTypeOK'
  BY <1>5
     DEF WriteAnswer, GatewayTypeOK, redis, tasks, sending
<1>6. ASSUME NEW c \in Conns, Close(c)
      PROVE  GatewayTypeOK'
  BY <1>6
     DEF Close, GatewayTypeOK, redis, tasks, sending
<1>7. ASSUME NEW c \in Conns, DelTicket(c)
      PROVE  GatewayTypeOK'
  BY <1>7, ProceedMoves, MaxFaultsIsNatural
     DEF DelTicket, GatewayTypeOK, redis, tasks, sending, Moves, ConnSteps,
         Fault
<1>8. ASSUME NEW c \in Conns, CheckLimit(c)
      PROVE  GatewayTypeOK'
  BY <1>8, CheckLimitMoves
     DEF CheckLimit, GatewayTypeOK, redis, tasks, sending, Alive
<1>9. ASSUME NEW c \in Conns, Register(c)
      PROVE  GatewayTypeOK'
  BY <1>9, RegisterMoves
     DEF Register, GatewayTypeOK, redis, tasks, sending
<1>10. ASSUME NEW c \in Conns, SetPresence(c)
      PROVE  GatewayTypeOK'
  <2>1. conn' \in [Conns -> Conn]
    BY <1>10, ProceedMoves DEF SetPresence, Moves, ConnSteps
  <2>2. presence' \in BOOLEAN
    BY <1>10 DEF SetPresence, GatewayTypeOK
  <2>3. faults' \in 0..MaxFaults
    BY <1>10, FaultCounts DEF SetPresence
  <2>. QED
    BY <1>10, <2>1, <2>2, <2>3 DEF SetPresence, GatewayTypeOK, redis, tasks,
       sending
<1>11. ASSUME NEW c \in Conns, ReaderEnds(c)
      PROVE  GatewayTypeOK'
  BY <1>11, ReaderMoves
     DEF ReaderEnds, GatewayTypeOK, redis, tasks, sending, Moves, Alive
<1>12. ASSUME NEW c \in Conns, RemoveEntry(c)
      PROVE  GatewayTypeOK'
  BY <1>12, ProceedMoves
     DEF RemoveEntry, GatewayTypeOK, redis, tasks, sending, Moves, ConnSteps
<1>13. ASSUME NEW c \in Conns, DelPresence(c)
      PROVE  GatewayTypeOK'
  <2>1. conn' \in [Conns -> Conn]
    BY <1>13, ProceedMoves DEF DelPresence, Moves, ConnSteps
  <2>2. presence' \in BOOLEAN
    BY <1>13 DEF DelPresence, GatewayTypeOK
  <2>3. faults' \in 0..MaxFaults
    BY <1>13, FaultCounts DEF DelPresence
  <2>. QED
    BY <1>13, <2>1, <2>2, <2>3 DEF DelPresence, GatewayTypeOK, redis, tasks,
       sending
<1>14. ASSUME NEW c \in Conns, Subscribe(c)
      PROVE  GatewayTypeOK'
  <2>1. forwarder' \in [Conns -> {"none", "starting", "subscribed", "gone"}]
    <3>1. forwarder \in [Conns -> {"none", "starting", "subscribed", "gone"}]
      BY DEF GatewayTypeOK
    <3>2. PICK new \in {"subscribed", "gone"} :
            forwarder' = [forwarder EXCEPT ![c] = new]
      BY <1>14 DEF Subscribe
    <3>. QED
      BY <3>1, <3>2
  <2>2. faults' \in 0..MaxFaults
    BY <1>14, FaultCounts DEF Subscribe
  <2>. QED
    BY <1>14, <2>1, <2>2 DEF Subscribe, GatewayTypeOK, redis, sending
<1>15. ASSUME NEW c \in Conns, WriteNext(c)
      PROVE  GatewayTypeOK'
  <2>1. Head(queue[c]) \in Events /\ Tail(queue[c]) \in Seq(Events)
    <3>1. queue[c] \in Seq(Events) /\ queue[c] # <<>>
      BY <1>15 DEF WriteNext, GatewayTypeOK
    <3>. QED
      BY <3>1
  <2>2. /\ queue' \in [Conns -> Seq(Events)]
        /\ got' \in [Conns -> SUBSET Events]
        /\ writer' \in [Conns -> {"none", "alive", "gone"}]
        /\ \A d \in Conns : writer'[d] = "gone" => queue'[d] = <<>>
    <3>1. CASE socket[c] = "open"
      <4>1. /\ queue' = [queue EXCEPT ![c] = Tail(queue[c])]
            /\ got' = [got EXCEPT ![c] = got[c] \cup {Head(queue[c])}]
            /\ UNCHANGED writer
            /\ writer[c] = "alive"
        BY <1>15, <3>1 DEF WriteNext
      <4>. QED
        BY <2>1, <4>1 DEF GatewayTypeOK
    <3>2. CASE socket[c] # "open"
      <4>1. /\ queue' = [queue EXCEPT ![c] = <<>>]
            /\ writer' = [writer EXCEPT ![c] = "gone"]
            /\ UNCHANGED got
        BY <1>15, <3>2 DEF WriteNext
      <4>2. <<>> \in Seq(Events)
        OBVIOUS
      <4>. QED
        BY <4>1, <4>2 DEF GatewayTypeOK
    <3>. QED
      BY <3>1, <3>2
  <2>. QED
    BY <1>15, <2>2 DEF WriteNext, GatewayTypeOK, redis, sending
<1>16. CASE PresenceExpires
  BY <1>16
     DEF PresenceExpires, GatewayTypeOK, redis, tasks, sending
<1>17. ASSUME NEW e \in Events, Publish(e)
      PROVE  GatewayTypeOK'
  <2>. DEFINE hearing == {c \in Alive(Conns) : forwarder[c] = "subscribed"}
  <2>1. ASSUME NEW c \in Conns
        PROVE  /\ queue'[c] = IF c \in hearing THEN Append(queue[c], e)
                                               ELSE queue[c]
               /\ queue'[c] \in Seq(Events)
    BY <1>17 DEF Publish, GatewayTypeOK
  <2>2. queue' \in [Conns -> Seq(Events)]
    BY <1>17, <2>1 DEF Publish
  <2>3. ASSUME NEW c \in Conns, writer[c] = "gone" PROVE queue'[c] = <<>>
    BY <2>1, <2>3 DEF GatewayTypeOK, Alive
  <2>4. event' \in [Events -> Event]
    BY <1>17, PublishMoves
  <2>. HIDE DEF hearing
  <2>. QED
    BY <1>17, <2>2, <2>3, <2>4 DEF Publish, GatewayTypeOK, redis
<1>18. ASSUME NEW e \in Events, CheckPresence(e)
      PROVE  GatewayTypeOK'
  <2>1. event' \in [Events -> Event]
    BY <1>18, CheckPresenceMoves
  <2>2. pushed' \subseteq Events
    BY <1>18 DEF CheckPresence, GatewayTypeOK
  <2>3. faults' \in 0..MaxFaults
    BY <1>18, FaultCounts DEF CheckPresence
  <2>. QED
    BY <1>18, <2>1, <2>2, <2>3 DEF CheckPresence, GatewayTypeOK, redis, tasks
<1>19. CASE Crash
  BY <1>19, CrashMoves, CrashEvents, MaxFaultsIsNatural
     DEF Crash, GatewayTypeOK, redis, tasks, sending, Fault
<1>20. CASE UNCHANGED gatewayVars
  BY <1>20 DEF GatewayTypeOK, redis, tasks, sending, gatewayVars
<1>. QED
  BY <1>1, <1>2, <1>3, <1>4, <1>5, <1>6, <1>7, <1>8, <1>9, <1>10, <1>11,
     <1>12, <1>13, <1>14, <1>15, <1>16, <1>17, <1>18, <1>19, <1>20
  DEF GatewayNext, Serve
-----------------------------------------------------------------------------
LEMMA WriterStays ==
  ASSUME WriterFits, UNCHANGED <<socket, writer>>,
         \A d \in Conns : conn'[d].at \in Before => conn[d].at \in Before
  PROVE  WriterFits'
BY DEF WriterFits

LEMMA WriterStep ==
  ASSUME GatewayTypeOK, WriterFits, [GatewayNext]_gatewayVars
  PROVE  WriterFits'
<1>1. ASSUME NEW k \in Tickets, create_ws_ticket(k)
      PROVE  WriterFits'
  BY <1>1
     DEF create_ws_ticket, GatewayTypeOK, WriterFits, Before, redis, tasks,
         sending
<1>2. ASSUME NEW k \in Tickets, TicketExpires(k)
      PROVE  WriterFits'
  BY <1>2
     DEF TicketExpires, GatewayTypeOK, WriterFits, Before, redis, tasks,
         sending
<1>3. ASSUME NEW c \in Conns, NEW k \in Tickets, GetTicket(c, k)
      PROVE  WriterFits'
  BY <1>3, GetTicketMoves
     DEF GetTicket, GatewayTypeOK, WriterFits, Before, redis, tasks, sending
<1>4. ASSUME NEW c \in Conns, UpgradeFails(c)
      PROVE  WriterFits'
  BY <1>4, ProceedMoves
     DEF UpgradeFails, GatewayTypeOK, WriterFits, Before, redis, tasks,
         sending,
        Moves, ConnSteps
<1>5. ASSUME NEW c \in Conns, WriteAnswer(c)
      PROVE  WriterFits'
  BY <1>5
     DEF WriteAnswer, GatewayTypeOK, WriterFits, Before, redis, tasks, sending
<1>6. ASSUME NEW c \in Conns, Close(c)
      PROVE  WriterFits'
  BY <1>6
     DEF Close, GatewayTypeOK, WriterFits, Before, redis, tasks, sending
<1>7. ASSUME NEW c \in Conns, DelTicket(c)
      PROVE  WriterFits'
  BY <1>7, ProceedMoves, WriterStays
     DEF DelTicket, Before, tasks, Moves, ConnSteps
<1>8. ASSUME NEW c \in Conns, CheckLimit(c)
      PROVE  WriterFits'
  BY <1>8, CheckLimitMoves, WriterStays
     DEF CheckLimit, Before, tasks
<1>9. ASSUME NEW c \in Conns, Register(c)
      PROVE  WriterFits'
  BY <1>9, RegisterMoves
     DEF Register, GatewayTypeOK, WriterFits, Before, redis, tasks, sending
<1>10. ASSUME NEW c \in Conns, SetPresence(c)
      PROVE  WriterFits'
  BY <1>10, ProceedMoves
     DEF SetPresence, GatewayTypeOK, WriterFits, Before, redis, tasks, sending,
        Moves, ConnSteps, Fault
<1>11. ASSUME NEW c \in Conns, ReaderEnds(c)
      PROVE  WriterFits'
  BY <1>11, ReaderMoves
     DEF ReaderEnds, GatewayTypeOK, WriterFits, Before, redis, tasks, sending,
         Moves,
        Alive
<1>12. ASSUME NEW c \in Conns, RemoveEntry(c)
      PROVE  WriterFits'
  BY <1>12, ProceedMoves
     DEF RemoveEntry, GatewayTypeOK, WriterFits, Before, redis, tasks, sending,
        Moves, ConnSteps
<1>13. ASSUME NEW c \in Conns, DelPresence(c)
      PROVE  WriterFits'
  BY <1>13, ProceedMoves
     DEF DelPresence, GatewayTypeOK, WriterFits, Before, redis, tasks, sending,
        Moves, ConnSteps, Fault
<1>14. ASSUME NEW c \in Conns, Subscribe(c)
      PROVE  WriterFits'
  BY <1>14
     DEF Subscribe, GatewayTypeOK, WriterFits, Before, redis, tasks, sending,
         Fault
<1>15. ASSUME NEW c \in Conns, WriteNext(c)
      PROVE  WriterFits'
  BY <1>15
     DEF WriteNext, GatewayTypeOK, WriterFits, Before, redis, tasks, sending
<1>16. CASE PresenceExpires
  BY <1>16
     DEF PresenceExpires, GatewayTypeOK, WriterFits, Before, redis, tasks,
         sending
<1>17. ASSUME NEW e \in Events, Publish(e)
      PROVE  WriterFits'
  BY <1>17, PublishMoves
     DEF Publish, GatewayTypeOK, WriterFits, Before, redis, tasks, sending,
         Alive
<1>18. ASSUME NEW e \in Events, CheckPresence(e)
      PROVE  WriterFits'
  BY <1>18, CheckPresenceMoves
     DEF CheckPresence, GatewayTypeOK, WriterFits, Before, redis, tasks,
         sending,
        Fault
<1>19. CASE Crash
  BY <1>19, CrashMoves, CrashEvents
     DEF Crash, GatewayTypeOK, WriterFits, Before, redis, tasks, sending, Fault
<1>20. CASE UNCHANGED gatewayVars
  BY <1>20 DEF GatewayTypeOK, WriterFits, Before, redis, tasks, sending,
     gatewayVars
<1>. QED
  BY <1>1, <1>2, <1>3, <1>4, <1>5, <1>6, <1>7, <1>8, <1>9, <1>10, <1>11,
     <1>12, <1>13, <1>14, <1>15, <1>16, <1>17, <1>18, <1>19, <1>20
  DEF GatewayNext, Serve
-----------------------------------------------------------------------------
LEMMA FewerOfFew ==
  ASSUME GatewayTypeOK, NEW S \in SUBSET registry
  PROVE  /\ IsFiniteSet(S)
         /\ Cardinality(S) \in Nat
         /\ Cardinality(registry) \in Nat
         /\ Cardinality(S) <= Cardinality(registry)
<1>1. IsFiniteSet(registry)
  BY ConnsAreFinite, FS_Subset DEF GatewayTypeOK
<1>. QED
  BY <1>1, FS_Subset, FS_CardinalityType

(* Dropping senders that are not those of open sockets keeps the count. *)
LEMMA CountsStay ==
  ASSUME GatewayTypeOK, CountFits, late' = late,
         registry' \subseteq registry, Open' \subseteq Open,
         Open \cap registry \subseteq registry',
         \A d \in Conns :
           conn'[d].at = "upgrade" /\ conn'[d].current =>
             \/ Cardinality(registry') < Limit
             \/ conn[d].at = "upgrade" /\ conn[d].current
  PROVE  CountFits'
<1>1. /\ Cardinality(registry') \in Nat
      /\ Cardinality(registry) \in Nat
      /\ Cardinality(registry') <= Cardinality(registry)
  BY FewerOfFew
<1>. QED
  BY <1>1, LimitIsPositive DEF CountFits

LEMMA CountStep ==
  ASSUME GatewayTypeOK, WriterFits, CountFits, [GatewayNext]_gatewayVars
  PROVE  CountFits'
<1>1. ASSUME NEW k \in Tickets, create_ws_ticket(k)
      PROVE  CountFits'
  BY <1>1
     DEF create_ws_ticket, GatewayTypeOK, CountFits, Open, redis, tasks,
         sending
<1>2. ASSUME NEW k \in Tickets, TicketExpires(k)
      PROVE  CountFits'
  BY <1>2
     DEF TicketExpires, GatewayTypeOK, CountFits, Open, redis, tasks, sending
<1>3. ASSUME NEW c \in Conns, NEW k \in Tickets, GetTicket(c, k)
      PROVE  CountFits'
  <2>1. \A d \in Conns : conn'[d].at = "upgrade" =>
          conn[d].at = "upgrade" /\ conn'[d].current = conn[d].current
    BY <1>3, GetTicketMoves
  <2>2. UNCHANGED <<registry, socket, late>>
    BY <1>3 DEF GetTicket
  <2>. QED
    BY <2>1, <2>2 DEF CountFits, Open
<1>4. ASSUME NEW c \in Conns, UpgradeFails(c)
      PROVE  CountFits'
  BY <1>4, ProceedMoves
     DEF UpgradeFails, GatewayTypeOK, CountFits, Open, redis, tasks, sending,
         Moves,
        ConnSteps
<1>5. ASSUME NEW c \in Conns, WriteAnswer(c)
      PROVE  CountFits'
  BY <1>5
     DEF WriteAnswer, GatewayTypeOK, CountFits, Open, redis, tasks, sending
<1>6. ASSUME NEW c \in Conns, Close(c)
      PROVE  CountFits'
  BY <1>6
     DEF Close, GatewayTypeOK, CountFits, Open, redis, tasks, sending
<1>7. ASSUME NEW c \in Conns, DelTicket(c)
      PROVE  CountFits'
  BY <1>7, ProceedMoves
     DEF DelTicket, GatewayTypeOK, CountFits, Open, redis, tasks, sending,
         Moves,
        ConnSteps, Fault
<1>8. ASSUME NEW c \in Conns, CheckLimit(c)
      PROVE  CountFits'
  <2>1. /\ registry' \subseteq registry
        /\ Open \cap registry \subseteq registry'
        /\ Open' = Open
        /\ late' = late
    BY <1>8 DEF CheckLimit, Alive, Open, GatewayTypeOK, WriterFits
  <2>2. \A d \in Conns : conn'[d].at = "upgrade" /\ conn'[d].current =>
          \/ Cardinality(registry') < Limit
          \/ conn[d].at = "upgrade" /\ conn[d].current
    BY <1>8, CheckLimitMoves
  <2>. QED
    BY <2>1, <2>2, CountsStay
<1>9. ASSUME NEW c \in Conns, Register(c)
      PROVE  CountFits'
  <2>. SUFFICES ASSUME ~late'
                PROVE  /\ Open' \subseteq registry'
                       /\ Cardinality(registry') <= Limit
                       /\ \A d \in Conns :
                            ~(conn'[d].at = "upgrade" /\ conn'[d].current)
    BY DEF CountFits
  <2>1. ~late /\ conn[c].current /\ Cardinality(registry) < Limit
    BY <1>9 DEF Register, CountFits
  <2>2. Open' \subseteq registry'
    BY <1>9, <2>1 DEF Register, CountFits, Open, GatewayTypeOK
  <2>3. Cardinality(registry') <= Limit
    <3>1. IsFiniteSet(registry) /\ Cardinality(registry) \in Nat
      BY FewerOfFew
    <3>2. Cardinality(registry') <= Cardinality(registry) + 1
      <4>1. registry' = registry \cup {c}
        BY <1>9 DEF Register
      <4>2. Cardinality(registry \cup {c}) =
              IF c \in registry THEN Cardinality(registry)
                               ELSE Cardinality(registry) + 1
        BY <3>1, FS_AddElement
      <4>. QED
        BY <3>1, <4>1, <4>2
    <3>3. Cardinality(registry') \in Nat
      BY <1>9, <3>1, FS_AddElement, FS_CardinalityType DEF Register
    <3>. QED
      BY <2>1, <3>1, <3>2, <3>3, LimitIsPositive
  <2>4. \A d \in Conns : ~(conn'[d].at = "upgrade" /\ conn'[d].current)
    BY <1>9, RegisterMoves
  <2>. QED
    BY <2>2, <2>3, <2>4
<1>10. ASSUME NEW c \in Conns, SetPresence(c)
      PROVE  CountFits'
  BY <1>10, ProceedMoves
     DEF SetPresence, GatewayTypeOK, CountFits, Open, redis, tasks, sending,
         Moves,
        ConnSteps, Fault
<1>11. ASSUME NEW c \in Conns, ReaderEnds(c)
      PROVE  CountFits'
  <2>1. /\ registry' \subseteq registry
        /\ Open \cap registry \subseteq registry'
        /\ Open' = Open
        /\ late' = late
    BY <1>11 DEF ReaderEnds, Alive, Open, GatewayTypeOK, WriterFits
  <2>2. \A d \in Conns : conn'[d].at = "upgrade" /\ conn'[d].current =>
          conn[d].at = "upgrade" /\ conn[d].current
    BY <1>11, ReaderMoves DEF Moves
  <2>. QED
    BY <2>1, <2>2, CountsStay
<1>12. ASSUME NEW c \in Conns, RemoveEntry(c)
      PROVE  CountFits'
  BY <1>12, ProceedMoves
     DEF RemoveEntry, GatewayTypeOK, CountFits, Open, redis, tasks, sending,
         Moves,
        ConnSteps
<1>13. ASSUME NEW c \in Conns, DelPresence(c)
      PROVE  CountFits'
  BY <1>13, ProceedMoves
     DEF DelPresence, GatewayTypeOK, CountFits, Open, redis, tasks, sending,
         Moves,
        ConnSteps, Fault
<1>14. ASSUME NEW c \in Conns, Subscribe(c)
      PROVE  CountFits'
  BY <1>14
     DEF Subscribe, GatewayTypeOK, CountFits, Open, redis, tasks, sending,
         Fault
<1>15. ASSUME NEW c \in Conns, WriteNext(c)
      PROVE  CountFits'
  BY <1>15
     DEF WriteNext, GatewayTypeOK, CountFits, Open, redis, tasks, sending
<1>16. CASE PresenceExpires
  BY <1>16
     DEF PresenceExpires, GatewayTypeOK, CountFits, Open, redis, tasks, sending
<1>17. ASSUME NEW e \in Events, Publish(e)
      PROVE  CountFits'
  BY <1>17, PublishMoves
     DEF Publish, GatewayTypeOK, CountFits, Open, redis, tasks, sending, Alive
<1>18. ASSUME NEW e \in Events, CheckPresence(e)
      PROVE  CountFits'
  BY <1>18, CheckPresenceMoves
     DEF CheckPresence, GatewayTypeOK, CountFits, Open, redis, tasks, sending,
         Fault
<1>19. CASE Crash
  <2>1. registry' = {} /\ Open' = {}
    BY <1>19 DEF Crash, Open, GatewayTypeOK
  <2>2. Cardinality(registry') = 0
    BY <2>1, FS_EmptySet
  <2>3. \A d \in Conns : conn'[d].at # "upgrade"
    BY <1>19, CrashMoves
  <2>. QED
    BY <2>1, <2>2, <2>3, LimitIsPositive DEF CountFits
<1>20. CASE UNCHANGED gatewayVars
  BY <1>20 DEF GatewayTypeOK, CountFits, Open, redis, tasks, sending,
     gatewayVars
<1>. QED
  BY <1>1, <1>2, <1>3, <1>4, <1>5, <1>6, <1>7, <1>8, <1>9, <1>10, <1>11,
     <1>12, <1>13, <1>14, <1>15, <1>16, <1>17, <1>18, <1>19, <1>20
  DEF GatewayNext, Serve
-----------------------------------------------------------------------------
LEMMA PresenceStep ==
  ASSUME GatewayTypeOK, PresenceIsOwed, [GatewayNext]_gatewayVars
  PROVE  PresenceIsOwed'
<1>1. ASSUME NEW k \in Tickets, create_ws_ticket(k)
      PROVE  PresenceIsOwed'
  BY <1>1
     DEF create_ws_ticket, GatewayTypeOK, PresenceIsOwed, Owing, redis, tasks,
        sending
<1>2. ASSUME NEW k \in Tickets, TicketExpires(k)
      PROVE  PresenceIsOwed'
  BY <1>2
     DEF TicketExpires, GatewayTypeOK, PresenceIsOwed, Owing, redis, tasks,
         sending
<1>3. ASSUME NEW c \in Conns, NEW k \in Tickets, GetTicket(c, k)
      PROVE  PresenceIsOwed'
  BY <1>3, GetTicketMoves
     DEF GetTicket, GatewayTypeOK, PresenceIsOwed, Owing, redis, tasks, sending
<1>4. ASSUME NEW c \in Conns, UpgradeFails(c)
      PROVE  PresenceIsOwed'
  BY <1>4, ProceedMoves
     DEF UpgradeFails, GatewayTypeOK, PresenceIsOwed, Owing, redis, tasks,
         sending,
        Moves, ConnSteps
<1>5. ASSUME NEW c \in Conns, WriteAnswer(c)
      PROVE  PresenceIsOwed'
  BY <1>5
     DEF WriteAnswer, GatewayTypeOK, PresenceIsOwed, Owing, redis, tasks,
         sending
<1>6. ASSUME NEW c \in Conns, Close(c)
      PROVE  PresenceIsOwed'
  BY <1>6
     DEF Close, GatewayTypeOK, PresenceIsOwed, Owing, redis, tasks, sending
<1>7. ASSUME NEW c \in Conns, DelTicket(c)
      PROVE  PresenceIsOwed'
  BY <1>7, ProceedMoves
     DEF DelTicket, GatewayTypeOK, PresenceIsOwed, Owing, redis, tasks,
         sending,
        Moves, ConnSteps, Fault
<1>8. ASSUME NEW c \in Conns, CheckLimit(c)
      PROVE  PresenceIsOwed'
  BY <1>8, CheckLimitMoves
     DEF CheckLimit, GatewayTypeOK, PresenceIsOwed, Owing, redis, tasks,
         sending,
        Alive
<1>9. ASSUME NEW c \in Conns, Register(c)
      PROVE  PresenceIsOwed'
  BY <1>9, RegisterMoves
     DEF Register, GatewayTypeOK, PresenceIsOwed, Owing, redis, tasks, sending
<1>10. ASSUME NEW c \in Conns, SetPresence(c)
      PROVE  PresenceIsOwed'
  BY <1>10, ProceedMoves
     DEF SetPresence, GatewayTypeOK, PresenceIsOwed, Owing, redis, tasks,
         sending,
        Moves, ConnSteps, Fault
<1>11. ASSUME NEW c \in Conns, ReaderEnds(c)
      PROVE  PresenceIsOwed'
  BY <1>11, ReaderMoves
     DEF ReaderEnds, GatewayTypeOK, PresenceIsOwed, Owing, redis, tasks,
         sending,
        Moves, Alive
<1>12. ASSUME NEW c \in Conns, RemoveEntry(c)
      PROVE  PresenceIsOwed'
  BY <1>12, ProceedMoves
     DEF RemoveEntry, GatewayTypeOK, PresenceIsOwed, Owing, redis, tasks,
         sending,
        Moves, ConnSteps
<1>13. ASSUME NEW c \in Conns, DelPresence(c)
      PROVE  PresenceIsOwed'
  BY <1>13, ProceedMoves
     DEF DelPresence, GatewayTypeOK, PresenceIsOwed, Owing, redis, tasks,
         sending,
        Moves, ConnSteps, Fault
<1>14. ASSUME NEW c \in Conns, Subscribe(c)
      PROVE  PresenceIsOwed'
  BY <1>14
     DEF Subscribe, GatewayTypeOK, PresenceIsOwed, Owing, redis, tasks,
         sending,
        Fault
<1>15. ASSUME NEW c \in Conns, WriteNext(c)
      PROVE  PresenceIsOwed'
  BY <1>15
     DEF WriteNext, GatewayTypeOK, PresenceIsOwed, Owing, redis, tasks, sending
<1>16. CASE PresenceExpires
  BY <1>16
     DEF PresenceExpires, GatewayTypeOK, PresenceIsOwed, Owing, redis, tasks,
         sending
<1>17. ASSUME NEW e \in Events, Publish(e)
      PROVE  PresenceIsOwed'
  BY <1>17 DEF Publish, PresenceIsOwed, Owing, redis
<1>18. ASSUME NEW e \in Events, CheckPresence(e)
      PROVE  PresenceIsOwed'
  <2>1. faults' = 0 => faults = 0
    BY <1>18, FaultCounts DEF CheckPresence
  <2>. QED
    BY <1>18, <2>1 DEF CheckPresence, PresenceIsOwed, Owing, redis
<1>19. CASE Crash
  BY <1>19, CrashMoves, CrashEvents
     DEF Crash, GatewayTypeOK, PresenceIsOwed, Owing, redis, tasks, sending,
         Fault
<1>20. CASE UNCHANGED gatewayVars
  BY <1>20 DEF GatewayTypeOK, PresenceIsOwed, Owing, redis, tasks, sending,
     gatewayVars
<1>. QED
  BY <1>1, <1>2, <1>3, <1>4, <1>5, <1>6, <1>7, <1>8, <1>9, <1>10, <1>11,
     <1>12, <1>13, <1>14, <1>15, <1>16, <1>17, <1>18, <1>19, <1>20
  DEF GatewayNext, Serve
-----------------------------------------------------------------------------
LEMMA TicketsStay ==
  ASSUME TicketFits, UNCHANGED ticket, faults' = 0 => faults = 0,
         \A d \in Conns : /\ conn'[d].ticket = conn[d].ticket
                          /\ conn'[d].at = "del" <=> conn[d].at = "del"
  PROVE  TicketFits'
BY DEF TicketFits

LEMMA TicketStep ==
  ASSUME GatewayTypeOK, TicketFits, [GatewayNext]_gatewayVars
  PROVE  TicketFits'
<1>1. ASSUME NEW k \in Tickets, create_ws_ticket(k)
      PROVE  TicketFits'
  BY <1>1
     DEF create_ws_ticket, GatewayTypeOK, TicketFits, redis, tasks, sending
<1>2. ASSUME NEW k \in Tickets, TicketExpires(k)
      PROVE  TicketFits'
  BY <1>2
     DEF TicketExpires, GatewayTypeOK, TicketFits, redis, tasks, sending
<1>3. ASSUME NEW c \in Conns, NEW k \in Tickets, GetTicket(c, k)
      PROVE  TicketFits'
  <2>1. \A d \in Conns \ {c} : conn'[d] = conn[d]
    BY <1>3, GetTicketMoves
  <2>2. conn'[c].at = "del" /\ conn'[c].ticket = k
    BY <1>3, GetTicketMoves
  <2>3. UNCHANGED <<ticket, faults>>
    BY <1>3 DEF GetTicket, redis
  <2>. QED
    BY <2>1, <2>2, <2>3 DEF TicketFits
<1>4. ASSUME NEW c \in Conns, UpgradeFails(c)
      PROVE  TicketFits'
  <2>1. \A d \in Conns : /\ conn'[d].ticket = conn[d].ticket
                         /\ conn'[d].at = "del" <=> conn[d].at = "del"
    BY <1>4, ProceedMoves DEF UpgradeFails, Moves, ConnSteps
  <2>2. UNCHANGED ticket /\ (faults' = 0 => faults = 0)
    BY <1>4 DEF UpgradeFails, redis
  <2>. QED
    BY <2>1, <2>2, TicketsStay
<1>5. ASSUME NEW c \in Conns, WriteAnswer(c)
      PROVE  TicketFits'
  BY <1>5
     DEF WriteAnswer, GatewayTypeOK, TicketFits, redis, tasks, sending
<1>6. ASSUME NEW c \in Conns, Close(c)
      PROVE  TicketFits'
  BY <1>6
     DEF Close, GatewayTypeOK, TicketFits, redis, tasks, sending
<1>7. ASSUME NEW c \in Conns, DelTicket(c)
      PROVE  TicketFits'
  <2>1. /\ Moves(c, "limit")
        /\ conn[c].at = "del"
        /\ conn[c].ticket \in Tickets
    BY <1>7, ProceedMoves DEF DelTicket, ConnSteps, TicketFits
  <2>2. faults' = 0 =>
          faults = 0 /\ ticket' = [ticket EXCEPT ![conn[c].ticket] = "gone"]
    BY <1>7, MaxFaultsIsNatural DEF DelTicket, Fault, GatewayTypeOK
  <2>3. ASSUME NEW d \in Conns
        PROVE  /\ conn'[d].at = "del" => conn'[d].ticket \in Tickets
               /\ faults' = 0 /\ conn'[d].ticket \in Tickets
                    /\ conn'[d].at # "del" => ticket'[conn'[d].ticket] = "gone"
    <3>1. CASE d = c
      BY <2>1, <2>2, <3>1 DEF Moves, GatewayTypeOK
    <3>2. CASE d # c
      BY <2>1, <2>2, <3>2 DEF Moves, GatewayTypeOK, TicketFits
    <3>. QED
      BY <3>1, <3>2
  <2>. QED
    BY <2>3 DEF TicketFits
<1>8. ASSUME NEW c \in Conns, CheckLimit(c)
      PROVE  TicketFits'
  <2>1. \A d \in Conns : /\ conn'[d].ticket = conn[d].ticket
                         /\ conn'[d].at = "del" <=> conn[d].at = "del"
    BY <1>8, CheckLimitMoves DEF CheckLimit
  <2>2. UNCHANGED ticket /\ (faults' = 0 => faults = 0)
    BY <1>8 DEF CheckLimit, redis
  <2>. QED
    BY <2>1, <2>2, TicketsStay
<1>9. ASSUME NEW c \in Conns, Register(c)
      PROVE  TicketFits'
  BY <1>9, RegisterMoves
     DEF Register, GatewayTypeOK, TicketFits, redis, tasks, sending
<1>10. ASSUME NEW c \in Conns, SetPresence(c)
      PROVE  TicketFits'
  <2>1. \A d \in Conns : /\ conn'[d].ticket = conn[d].ticket
                         /\ conn'[d].at = "del" <=> conn[d].at = "del"
    BY <1>10, ProceedMoves DEF SetPresence, Moves, ConnSteps
  <2>2. UNCHANGED ticket /\ (faults' = 0 => faults = 0)
    BY <1>10, FaultCounts DEF SetPresence, redis
  <2>. QED
    BY <2>1, <2>2, TicketsStay
<1>11. ASSUME NEW c \in Conns, ReaderEnds(c)
      PROVE  TicketFits'
  <2>1. \A d \in Conns : /\ conn'[d].ticket = conn[d].ticket
                         /\ conn'[d].at = "del" <=> conn[d].at = "del"
    BY <1>11, ReaderMoves DEF ReaderEnds, Moves
  <2>2. UNCHANGED ticket /\ (faults' = 0 => faults = 0)
    BY <1>11 DEF ReaderEnds, redis
  <2>. QED
    BY <2>1, <2>2, TicketsStay
<1>12. ASSUME NEW c \in Conns, RemoveEntry(c)
      PROVE  TicketFits'
  <2>1. \A d \in Conns : /\ conn'[d].ticket = conn[d].ticket
                         /\ conn'[d].at = "del" <=> conn[d].at = "del"
    BY <1>12, ProceedMoves DEF RemoveEntry, Moves, ConnSteps
  <2>2. UNCHANGED ticket /\ (faults' = 0 => faults = 0)
    BY <1>12 DEF RemoveEntry, redis
  <2>. QED
    BY <2>1, <2>2, TicketsStay
<1>13. ASSUME NEW c \in Conns, DelPresence(c)
      PROVE  TicketFits'
  <2>1. \A d \in Conns : /\ conn'[d].ticket = conn[d].ticket
                         /\ conn'[d].at = "del" <=> conn[d].at = "del"
    BY <1>13, ProceedMoves DEF DelPresence, Moves, ConnSteps
  <2>2. UNCHANGED ticket /\ (faults' = 0 => faults = 0)
    BY <1>13, FaultCounts DEF DelPresence, redis
  <2>. QED
    BY <2>1, <2>2, TicketsStay
<1>14. ASSUME NEW c \in Conns, Subscribe(c)
      PROVE  TicketFits'
  BY <1>14
     DEF Subscribe, GatewayTypeOK, TicketFits, redis, tasks, sending, Fault
<1>15. ASSUME NEW c \in Conns, WriteNext(c)
      PROVE  TicketFits'
  BY <1>15
     DEF WriteNext, GatewayTypeOK, TicketFits, redis, tasks, sending
<1>16. CASE PresenceExpires
  BY <1>16
     DEF PresenceExpires, GatewayTypeOK, TicketFits, redis, tasks, sending
<1>17. ASSUME NEW e \in Events, Publish(e)
      PROVE  TicketFits'
  BY <1>17, PublishMoves
     DEF Publish, GatewayTypeOK, TicketFits, redis, tasks, sending, Alive
<1>18. ASSUME NEW e \in Events, CheckPresence(e)
      PROVE  TicketFits'
  <2>1. \A d \in Conns : /\ conn'[d].ticket = conn[d].ticket
                         /\ conn'[d].at = "del" <=> conn[d].at = "del"
    BY <1>18, FaultCounts DEF CheckPresence
  <2>2. UNCHANGED ticket /\ (faults' = 0 => faults = 0)
    BY <1>18, FaultCounts DEF CheckPresence, redis
  <2>. QED
    BY <2>1, <2>2, TicketsStay
<1>19. CASE Crash
  BY <1>19, CrashMoves, CrashEvents
     DEF Crash, GatewayTypeOK, TicketFits, redis, tasks, sending, Fault
<1>20. CASE UNCHANGED gatewayVars
  BY <1>20 DEF GatewayTypeOK, TicketFits, redis, tasks, sending, gatewayVars
<1>. QED
  BY <1>1, <1>2, <1>3, <1>4, <1>5, <1>6, <1>7, <1>8, <1>9, <1>10, <1>11,
     <1>12, <1>13, <1>14, <1>15, <1>16, <1>17, <1>18, <1>19, <1>20
  DEF GatewayNext, Serve
-----------------------------------------------------------------------------
(* What matters to Kept: connections neither open again nor lose events. *)
LEMMA KeptStays ==
  ASSUME GatewayTypeOK, Kept,
         \A e \in Events : event'[e].audience = event[e].audience,
         \A c \in Conns :
           /\ socket[c] = "closed" => socket'[c] = "closed"
           /\ socket[c] = "open" =>
                \/ socket'[c] = "closed"
                \/ /\ socket'[c] = "open"
                   /\ \A e \in Events : e \in got[c] \/ Queued(c, e) =>
                        e \in got'[c] \/ Queued(c, e)'
  PROVE  Kept'
<1>1. \A e \in Events : event[e].audience \subseteq Conns
  BY DEF GatewayTypeOK, Event
<1>. QED
  BY <1>1 DEF Kept

LEMMA KeptStep ==
  ASSUME GatewayTypeOK, WriterFits, Kept, [GatewayNext]_gatewayVars
  PROVE  Kept'
<1>1. ASSUME NEW k \in Tickets, create_ws_ticket(k)
      PROVE  Kept'
  BY <1>1
     DEF create_ws_ticket, GatewayTypeOK, Kept, Queued, redis, tasks, sending
<1>2. ASSUME NEW k \in Tickets, TicketExpires(k)
      PROVE  Kept'
  BY <1>2
     DEF TicketExpires, GatewayTypeOK, Kept, Queued, redis, tasks, sending
<1>3. ASSUME NEW c \in Conns, NEW k \in Tickets, GetTicket(c, k)
      PROVE  Kept'
  <2>1. UNCHANGED <<socket, queue, got, event>>
    BY <1>3 DEF GetTicket, tasks, sending
  <2>. QED
    BY <2>1, KeptStays DEF Queued, GatewayTypeOK
<1>4. ASSUME NEW c \in Conns, UpgradeFails(c)
      PROVE  Kept'
  BY <1>4, ProceedMoves
     DEF UpgradeFails, GatewayTypeOK, Kept, Queued, redis, tasks, sending,
         Moves,
        ConnSteps
<1>5. ASSUME NEW c \in Conns, WriteAnswer(c)
      PROVE  Kept'
  BY <1>5
     DEF WriteAnswer, GatewayTypeOK, Kept, Queued, redis, tasks, sending
<1>6. ASSUME NEW c \in Conns, Close(c)
      PROVE  Kept'
  BY <1>6
     DEF Close, GatewayTypeOK, Kept, Queued, redis, tasks, sending
<1>7. ASSUME NEW c \in Conns, DelTicket(c)
      PROVE  Kept'
  BY <1>7, ProceedMoves
     DEF DelTicket, GatewayTypeOK, Kept, Queued, redis, tasks, sending, Moves,
         ConnSteps,
        Fault
<1>8. ASSUME NEW c \in Conns, CheckLimit(c)
      PROVE  Kept'
  <2>1. UNCHANGED <<socket, queue, got, event>>
    BY <1>8 DEF CheckLimit, tasks, sending
  <2>. QED
    BY <2>1, KeptStays DEF Queued, GatewayTypeOK
<1>9. ASSUME NEW c \in Conns, Register(c)
      PROVE  Kept'
  <2>1. UNCHANGED <<queue, got, event>>
    BY <1>9 DEF Register, sending
  <2>2. socket[c] = "none" /\ socket' = [socket EXCEPT ![c] = "open"]
    BY <1>9 DEF Register, WriterFits, Before
  <2>. QED
    BY <2>1, <2>2, KeptStays DEF Queued, GatewayTypeOK
<1>10. ASSUME NEW c \in Conns, SetPresence(c)
      PROVE  Kept'
  BY <1>10, ProceedMoves
     DEF SetPresence, GatewayTypeOK, Kept, Queued, redis, tasks, sending,
         Moves,
        ConnSteps, Fault
<1>11. ASSUME NEW c \in Conns, ReaderEnds(c)
      PROVE  Kept'
  BY <1>11, ReaderMoves
     DEF ReaderEnds, GatewayTypeOK, Kept, Queued, redis, tasks, sending,
         Moves, Alive
<1>12. ASSUME NEW c \in Conns, RemoveEntry(c)
      PROVE  Kept'
  BY <1>12, ProceedMoves
     DEF RemoveEntry, GatewayTypeOK, Kept, Queued, redis, tasks, sending,
         Moves,
        ConnSteps
<1>13. ASSUME NEW c \in Conns, DelPresence(c)
      PROVE  Kept'
  BY <1>13, ProceedMoves
     DEF DelPresence, GatewayTypeOK, Kept, Queued, redis, tasks, sending,
         Moves,
        ConnSteps, Fault
<1>14. ASSUME NEW c \in Conns, Subscribe(c)
      PROVE  Kept'
  BY <1>14
     DEF Subscribe, GatewayTypeOK, Kept, Queued, redis, tasks, sending, Fault
<1>15. ASSUME NEW c \in Conns, WriteNext(c)
      PROVE  Kept'
  <2>1. UNCHANGED <<socket, event>>
    BY <1>15 DEF WriteNext, sending
  <2>2. ASSUME NEW d \in Conns, socket[d] = "open", NEW e \in Events,
               e \in got[d] \/ Queued(d, e)
        PROVE  e \in got'[d] \/ Queued(d, e)'
    <3>1. CASE d # c
      BY <1>15, <2>2, <3>1 DEF WriteNext, Queued, GatewayTypeOK
    <3>2. CASE d = c
      <4>1. /\ got'[c] = got[c] \cup {Head(queue[c])}
            /\ queue'[c] = Tail(queue[c])
            /\ queue[c] \in Seq(Events) /\ queue[c] # <<>>
        BY <1>15, <2>2, <3>2 DEF WriteNext, GatewayTypeOK
      <4>2. CASE e \in got[c]
        BY <3>2, <4>1, <4>2
      <4>3. CASE Queued(c, e)
        <5>1. PICK i \in DOMAIN queue[c] : queue[c][i] = e
          BY <4>3 DEF Queued
        <5>2. CASE i = 1
          BY <3>2, <4>1, <5>1, <5>2
        <5>3. CASE i # 1
          <6>1. i - 1 \in DOMAIN Tail(queue[c]) /\ Tail(queue[c])[i - 1] = e
            BY <4>1, <5>1, <5>3
          <6>. QED
            BY <3>2, <4>1, <6>1 DEF Queued
        <5>. QED
          BY <5>2, <5>3
      <4>. QED
        BY <2>2, <3>2, <4>2, <4>3
    <3>. QED
      BY <3>1, <3>2
  <2>. QED
    BY <2>1, <2>2, KeptStays DEF GatewayTypeOK
<1>16. CASE PresenceExpires
  BY <1>16
     DEF PresenceExpires, GatewayTypeOK, Kept, Queued, redis, tasks, sending
<1>17. ASSUME NEW e \in Events, Publish(e)
      PROVE  Kept'
  <2>. DEFINE hearing == {c \in Alive(Conns) : forwarder[c] = "subscribed"}
  <2>1. UNCHANGED <<socket, got>>
    BY <1>17 DEF Publish
  <2>2. ASSUME NEW d \in Conns
        PROVE  /\ queue[d] \in Seq(Events)
               /\ queue'[d] = IF d \in hearing THEN Append(queue[d], e)
                                               ELSE queue[d]
    BY <1>17 DEF Publish, GatewayTypeOK
  <2>3. ASSUME NEW d \in hearing PROVE Queued(d, e)'
    <3>1. d \in Conns
      BY DEF Alive
    <3>2. queue'[d] = Append(queue[d], e) /\ queue[d] \in Seq(Events)
      BY <2>2, <3>1
    <3>. QED
      BY <3>2 DEF Queued
  <2>4. ASSUME NEW d \in Conns, NEW f \in Events, Queued(d, f)
        PROVE  Queued(d, f)'
    <3>1. PICK i \in DOMAIN queue[d] : queue[d][i] = f
      BY <2>4 DEF Queued
    <3>2. i \in DOMAIN queue'[d] /\ queue'[d][i] = f
      <4>1. CASE d \in hearing
        <5>1. queue'[d] = Append(queue[d], e) /\ queue[d] \in Seq(Events)
          BY <2>2, <4>1
        <5>. QED
          BY <3>1, <5>1
      <4>2. CASE d \notin hearing
        BY <2>2, <3>1, <4>2
      <4>. QED
        BY <4>1, <4>2
    <3>. QED
      BY <3>2 DEF Queued
  <2>5. event'[e].audience \subseteq hearing \cap Open
    BY <1>17, PublishMoves DEF Alive, Open
  <2>. HIDE DEF hearing
  <2>6. ASSUME NEW f \in Events, NEW d \in event'[f].audience
        PROVE  \/ socket'[d] = "closed"
               \/ socket'[d] = "open" /\ (f \in got'[d] \/ Queued(d, f)')
    <3>1. CASE f = e
      BY <2>1, <2>3, <2>5, <2>6, <3>1 DEF Open
    <3>2. CASE f # e
      <4>1. d \in event[f].audience
        BY <1>17, <2>6, <3>2, PublishMoves
      <4>2. d \in Conns
        BY <4>1 DEF GatewayTypeOK, Event
      <4>. QED
        BY <2>1, <2>4, <4>1, <4>2 DEF Kept
    <3>. QED
      BY <3>1, <3>2
  <2>. QED
    BY <2>6 DEF Kept
<1>18. ASSUME NEW e \in Events, CheckPresence(e)
      PROVE  Kept'
  <2>1. UNCHANGED <<socket, queue, got>>
    BY <1>18 DEF CheckPresence, tasks
  <2>2. \A f \in Events : event'[f].audience = event[f].audience
    BY <1>18, CheckPresenceMoves
  <2>. QED
    BY <2>1, <2>2, KeptStays DEF Queued, GatewayTypeOK
<1>19. CASE Crash
  <2>1. \A d \in Conns : socket[d] # "none" => socket'[d] = "closed"
    BY <1>19 DEF Crash, GatewayTypeOK
  <2>. QED
    BY <1>19, <2>1, CrashEvents, KeptStays DEF GatewayTypeOK
<1>20. CASE UNCHANGED gatewayVars
  BY <1>20 DEF GatewayTypeOK, Kept, Queued, redis, tasks, sending, gatewayVars
<1>. QED
  BY <1>1, <1>2, <1>3, <1>4, <1>5, <1>6, <1>7, <1>8, <1>9, <1>10, <1>11,
     <1>12, <1>13, <1>14, <1>15, <1>16, <1>17, <1>18, <1>19, <1>20
  DEF GatewayNext, Serve
-----------------------------------------------------------------------------
LEMMA DecidedStep ==
  ASSUME GatewayTypeOK, PresenceIsOwed, Decided, [GatewayNext]_gatewayVars
  PROVE  Decided'
<1>1. ASSUME NEW k \in Tickets, create_ws_ticket(k)
      PROVE  Decided'
  BY <1>1
     DEF create_ws_ticket, GatewayTypeOK, Decided, redis, tasks, sending
<1>2. ASSUME NEW k \in Tickets, TicketExpires(k)
      PROVE  Decided'
  BY <1>2
     DEF TicketExpires, GatewayTypeOK, Decided, redis, tasks, sending
<1>3. ASSUME NEW c \in Conns, NEW k \in Tickets, GetTicket(c, k)
      PROVE  Decided'
  BY <1>3, GetTicketMoves
     DEF GetTicket, GatewayTypeOK, Decided, redis, tasks, sending
<1>4. ASSUME NEW c \in Conns, UpgradeFails(c)
      PROVE  Decided'
  BY <1>4, ProceedMoves
     DEF UpgradeFails, GatewayTypeOK, Decided, redis, tasks, sending, Moves,
         ConnSteps
<1>5. ASSUME NEW c \in Conns, WriteAnswer(c)
      PROVE  Decided'
  BY <1>5
     DEF WriteAnswer, GatewayTypeOK, Decided, redis, tasks, sending
<1>6. ASSUME NEW c \in Conns, Close(c)
      PROVE  Decided'
  BY <1>6
     DEF Close, GatewayTypeOK, Decided, redis, tasks, sending
<1>7. ASSUME NEW c \in Conns, DelTicket(c)
      PROVE  Decided'
  <2>1. UNCHANGED <<event, pushed>> /\ (faults' = 0 => faults = 0)
    BY <1>7, FaultCounts DEF DelTicket, sending
  <2>. QED
    BY <2>1 DEF Decided
<1>8. ASSUME NEW c \in Conns, CheckLimit(c)
      PROVE  Decided'
  BY <1>8, CheckLimitMoves
     DEF CheckLimit, GatewayTypeOK, Decided, redis, tasks, sending, Alive
<1>9. ASSUME NEW c \in Conns, Register(c)
      PROVE  Decided'
  BY <1>9, RegisterMoves
     DEF Register, GatewayTypeOK, Decided, redis, tasks, sending
<1>10. ASSUME NEW c \in Conns, SetPresence(c)
      PROVE  Decided'
  <2>1. UNCHANGED <<event, pushed>> /\ (faults' = 0 => faults = 0)
    BY <1>10, FaultCounts DEF SetPresence, sending
  <2>. QED
    BY <2>1 DEF Decided
<1>11. ASSUME NEW c \in Conns, ReaderEnds(c)
      PROVE  Decided'
  BY <1>11, ReaderMoves
     DEF ReaderEnds, GatewayTypeOK, Decided, redis, tasks, sending, Moves,
         Alive
<1>12. ASSUME NEW c \in Conns, RemoveEntry(c)
      PROVE  Decided'
  BY <1>12, ProceedMoves
     DEF RemoveEntry, GatewayTypeOK, Decided, redis, tasks, sending, Moves,
         ConnSteps
<1>13. ASSUME NEW c \in Conns, DelPresence(c)
      PROVE  Decided'
  <2>1. UNCHANGED <<event, pushed>> /\ (faults' = 0 => faults = 0)
    BY <1>13, FaultCounts DEF DelPresence, sending
  <2>. QED
    BY <2>1 DEF Decided
<1>14. ASSUME NEW c \in Conns, Subscribe(c)
      PROVE  Decided'
  <2>1. UNCHANGED <<event, pushed>> /\ (faults' = 0 => faults = 0)
    BY <1>14, FaultCounts DEF Subscribe, sending
  <2>. QED
    BY <2>1 DEF Decided
<1>15. ASSUME NEW c \in Conns, WriteNext(c)
      PROVE  Decided'
  BY <1>15
     DEF WriteNext, GatewayTypeOK, Decided, redis, tasks, sending
<1>16. CASE PresenceExpires
  BY <1>16
     DEF PresenceExpires, GatewayTypeOK, Decided, redis, tasks, sending
<1>17. ASSUME NEW e \in Events, Publish(e)
      PROVE  Decided'
  <2>1. UNCHANGED <<pushed, faults>>
    BY <1>17 DEF Publish
  <2>. QED
    BY <1>17, <2>1, PublishMoves DEF Decided
<1>18. ASSUME NEW e \in Events, CheckPresence(e)
      PROVE  Decided'
  <2>1. ASSUME NEW f \in Events, faults' = 0, event'[f].at = "done",
               f \notin pushed'
        PROVE  event'[f].owing # {}
    <3>1. faults = 0 /\ UNCHANGED faults
      BY <1>18, <2>1, MaxFaultsIsNatural DEF CheckPresence, Fault,
         GatewayTypeOK
    <3>2. /\ ~presence => e \in pushed'
          /\ pushed \subseteq pushed'
      BY <1>18, <3>1, MaxFaultsIsNatural DEF CheckPresence, Fault,
         GatewayTypeOK
    <3>3. CASE f = e
      BY <1>18, <2>1, <3>1, <3>2, <3>3, CheckPresenceMoves DEF PresenceIsOwed
    <3>4. CASE f # e
      BY <1>18, <2>1, <3>1, <3>2, <3>4, CheckPresenceMoves DEF Decided
    <3>. QED
      BY <3>3, <3>4
  <2>. QED
    BY <2>1 DEF Decided
<1>19. CASE Crash
  BY <1>19, CrashMoves, CrashEvents
     DEF Crash, GatewayTypeOK, Decided, redis, tasks, sending, Fault
<1>20. CASE UNCHANGED gatewayVars
  BY <1>20 DEF GatewayTypeOK, Decided, redis, tasks, sending, gatewayVars
<1>. QED
  BY <1>1, <1>2, <1>3, <1>4, <1>5, <1>6, <1>7, <1>8, <1>9, <1>10, <1>11,
     <1>12, <1>13, <1>14, <1>15, <1>16, <1>17, <1>18, <1>19, <1>20
  DEF GatewayNext, Serve
-----------------------------------------------------------------------------
LEMMA InitGatewayInv == GatewayInit => GatewayInv
<1>. SUFFICES ASSUME GatewayInit PROVE GatewayInv
  OBVIOUS
<1>1. GatewayTypeOK
  <2>1. /\ conn \in [Conns -> Conn]
        /\ event \in [Events -> Event]
    BY DEF GatewayInit, Conn, Event
  <2>2. queue \in [Conns -> Seq(Events)]
    <3>1. <<>> \in Seq(Events)
      OBVIOUS
    <3>. QED
      BY <3>1 DEF GatewayInit
  <2>3. /\ ticket \in [Tickets -> {"new", "valid", "gone"}]
        /\ socket \in [Conns -> {"none", "open", "closed"}]
        /\ writer \in [Conns -> {"none", "alive", "gone"}]
        /\ forwarder \in [Conns -> {"none", "starting", "subscribed", "gone"}]
        /\ got \in [Conns -> SUBSET Events]
    BY DEF GatewayInit
  <2>4. /\ registry \subseteq Conns
        /\ pushed \subseteq Events
        /\ presence \in BOOLEAN
        /\ late \in BOOLEAN
        /\ \A c \in Conns : writer[c] # "gone"
    BY DEF GatewayInit
  <2>5. faults \in 0..MaxFaults
    BY MaxFaultsIsNatural DEF GatewayInit
  <2>. QED
    BY <2>1, <2>2, <2>3, <2>4, <2>5 DEF GatewayTypeOK
<1>2. CountFits
  BY FS_EmptySet, LimitIsPositive DEF GatewayInit, CountFits, Open
<1>3. WriterFits /\ PresenceIsOwed /\ TicketFits
  BY NoTicketIsNoTicket
     DEF GatewayInit, WriterFits, Before, PresenceIsOwed, TicketFits
<1>4. Kept /\ Decided
  BY DEF GatewayInit, Kept, Decided
<1>. QED
  BY <1>1, <1>2, <1>3, <1>4 DEF GatewayInv

LEMMA NextGatewayInv == GatewayInv /\ [GatewayNext]_gatewayVars => GatewayInv'
BY TypeStep, WriterStep, CountStep, PresenceStep, TicketStep, KeptStep,
   DecidedStep DEF GatewayInv

(* The strengthened invariant holds in every behaviour of the gateway. *)
THEOREM GatewayInvariance == GatewaySpec => []GatewayInv
<1>. QED
  BY InitGatewayInv, NextGatewayInv, PTL DEF GatewaySpec

(* Every variable keeps its type, and nothing is queued for a writer that  *)
(* is gone.                                                                *)
THEOREM GatewayTypeCorrect == GatewaySpec => []GatewayTypeOK
<1>1. GatewayInv => GatewayTypeOK
  BY DEF GatewayInv
<1>. QED
  BY <1>1, GatewayInvariance, PTL

(* The limit holds unless a connection was registered on an old count.     *)
THEOREM LimitHoldsUnlessStale == GatewaySpec => []LimitHolds
<1>1. GatewayInv => LimitHolds
  <2>. SUFFICES ASSUME GatewayInv, ~late PROVE Cardinality(Open) <= Limit
    BY DEF LimitHolds
  <2>1. Open \in SUBSET registry /\ Cardinality(registry) <= Limit
    BY DEF GatewayInv, CountFits
  <2>2. /\ Cardinality(Open) \in Nat
        /\ Cardinality(registry) \in Nat
        /\ Cardinality(Open) <= Cardinality(registry)
    BY <2>1, FewerOfFew DEF GatewayInv
  <2>. QED
    BY <2>1, <2>2, LimitIsPositive
<1>. QED
  BY <1>1, GatewayInvariance, PTL

(* Without a fault, a presence key has a connection that will delete it.   *)
THEOREM PresenceAlwaysOwed == GatewaySpec => []PresenceIsOwed
<1>1. GatewayInv => PresenceIsOwed
  BY DEF GatewayInv
<1>. QED
  BY <1>1, GatewayInvariance, PTL

(* Without a fault, a message that was not pushed reaches the client, but  *)
(* where the presence stood for a connection being set up or torn down.    *)
THEOREM AlwaysHeardOrPushed == GatewaySpec => []HeardOrPushed
<1>1. GatewayInv => HeardOrPushed
  <2>. SUFFICES ASSUME GatewayInv, faults = 0, NEW e \in Events,
                       event[e].at = "done", e \notin pushed
                PROVE  \E c \in event[e].owing :
                         \/ c \notin event[e].audience
                         \/ e \in got[c]
                         \/ Queued(c, e)
                         \/ socket[c] = "closed"
    BY DEF HeardOrPushed, Queued
  <2>1. PICK c \in event[e].owing : TRUE
    BY DEF GatewayInv, Decided
  <2>. QED
    BY <2>1 DEF GatewayInv, Kept
<1>. QED
  BY <1>1, GatewayInvariance, PTL

(* A connection begins by finding a valid ticket.                          *)
LEMMA OnlyGetTicketAsks ==
  ASSUME GatewayTypeOK, [GatewayNext]_gatewayVars, NEW c \in Conns,
         conn[c].at = "idle", conn'[c].at = "del"
  PROVE  \E k \in Tickets : ticket[k] = "valid" /\ conn'[c].ticket = k
<1>1. ASSUME NEW d \in Conns, NEW k \in Tickets, GetTicket(d, k)
      PROVE  ticket[k] = "valid" /\ conn'[c].ticket = k
  BY <1>1, GetTicketMoves DEF GetTicket
<1>2. ASSUME NEW d \in Conns,
             UpgradeFails(d) \/ DelTicket(d) \/ SetPresence(d)
               \/ RemoveEntry(d) \/ DelPresence(d)
      PROVE  FALSE
  <2>1. PICK step \in ConnSteps \ {"del"} : Proceed(d, step)
    BY <1>2 DEF UpgradeFails, DelTicket, SetPresence, RemoveEntry, DelPresence,
                ConnSteps
  <2>. QED
    BY <2>1, ProceedMoves DEF Moves
<1>3. ASSUME NEW d \in Conns, CheckLimit(d) \/ Register(d) \/ ReaderEnds(d)
      PROVE  FALSE
  BY <1>3, CheckLimitMoves, RegisterMoves, ReaderMoves DEF Moves
<1>4. ASSUME Crash PROVE FALSE
  BY <1>4, CrashMoves
<1>5. ASSUME UNCHANGED conn PROVE FALSE
  BY <1>5
<1>6. ASSUME \/ \E k \in Tickets : create_ws_ticket(k) \/ TicketExpires(k)
             \/ \E d \in Conns : WriteAnswer(d) \/ Close(d) \/ Subscribe(d)
                                  \/ WriteNext(d)
             \/ PresenceExpires
             \/ \E e \in Events : Publish(e) \/ CheckPresence(e)
             \/ UNCHANGED gatewayVars
      PROVE  UNCHANGED conn
  BY <1>6 DEF create_ws_ticket, TicketExpires, WriteAnswer, Close, Subscribe,
              WriteNext, PresenceExpires, Publish, CheckPresence, gatewayVars
<1>. QED
  BY <1>1, <1>2, <1>3, <1>4, <1>5, <1>6 DEF GatewayNext, Serve

(* Without a fault, a ticket that a connection has deleted is not accepted *)
(* again.                                                                  *)
THEOREM TicketsAreSpent == GatewaySpec => TicketIsSpent
<1>. DEFINE Spent ==
       \A c, d \in Conns :
         /\ conn[c].at = "idle"
         /\ conn'[c].at = "del"
         /\ conn[d].ticket = conn'[c].ticket
         /\ faults = 0
         => conn[d].at = "del"
<1>1. GatewayInv /\ [GatewayNext]_gatewayVars => [Spent]_gatewayVars
  <2>. SUFFICES ASSUME GatewayInv, [GatewayNext]_gatewayVars,
                       NEW c \in Conns, NEW d \in Conns,
                       conn[c].at = "idle", conn'[c].at = "del",
                       conn[d].ticket = conn'[c].ticket, faults = 0
                PROVE  conn[d].at = "del"
    OBVIOUS
  <2>1. PICK k \in Tickets : ticket[k] = "valid" /\ conn'[c].ticket = k
    BY OnlyGetTicketAsks DEF GatewayInv
  <2>. QED
    BY <2>1 DEF GatewayInv, TicketFits
<1>. QED
  BY <1>1, GatewayInvariance, PTL DEF GatewaySpec, TicketIsSpent
=============================================================================
