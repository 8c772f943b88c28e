--------------------------- MODULE Sessions_proofs ---------------------------
(***************************************************************************)
(* Theorems about Sessions, for any devices, session ids, requests at once *)
(* and faults. What a request relies on is that sessions stay drawn, keep  *)
(* their device and never get a row back (Kept); every write keeps that.   *)
(***************************************************************************)
EXTENDS Sessions, TLAPS

-----------------------------------------------------------------------------
(* The invariant. *)

Stored ==
  /\ row \in [Devices -> SessionIds \cup {NoSession}]
  /\ device \in [SessionIds -> Devices \cup {NoDevice}]
  /\ issued \subseteq SessionIds
  /\ dead \subseteq SessionIds
  /\ refresh \subseteq SessionIds
  /\ cache \subseteq SessionIds
  /\ late \subseteq SessionIds

(* Only drawn sessions are in use, and a row is one of its device. *)
DrawnOnly == issued \subseteq Drawn
RowsFit == \A d \in Devices : row[d] \in SessionIds => device[row[d]] = d

(* What a request knows is so. *)
Fits(t) ==
  LET k == task[t] IN
  /\ k.at \in IssueSteps \cup RefreshSteps => k.op = "issue" /\ k.device \in Devices
  /\ k.at \in {"store"} \cup RefreshSteps \cup RequestSteps => k.sid \in Drawn
  /\ k.at \in {"store"} \cup RefreshSteps => device[k.sid] = k.device
  /\ k.op = "logout" => k.target = k.sid
  /\ k.at \in {"delCache", "delRefreshKey"} => ~HasRow(k.sid)
  /\ k.at = "delRefreshKey" => (k.sid \in cache => k.sid \in late)

IInv ==
  /\ TypeOK
  /\ loggedOut \subseteq Drawn
  /\ DrawnOnly
  /\ RowsFit
  /\ \A t \in Tasks : Fits(t)
  /\ LogoutSticks

(* What a step may not take from the requests that rely on it. *)
Kept ==
  \A s \in Drawn :
    /\ s \in Drawn'
    /\ device'[s] = device[s]
    /\ HasRow(s)' => HasRow(s)
    /\ s \in cache' /\ s \notin late' /\ ~HasRow(s) => s \in cache /\ s \notin late

GoodWrite == Kept /\ Stored' /\ DrawnOnly' /\ RowsFit'

-----------------------------------------------------------------------------
(* Requests. *)

LEMMA Rests ==
  ASSUME IInv, Kept, NEW u \in Tasks, task'[u] = task[u]
  PROVE  Fits(u)'
<1>1. Fits(u)
  BY DEF IInv
<1>2. PICK s : s = task[u].sid
  OBVIOUS
<1>3. s \in Drawn =>
        /\ s \in Drawn' /\ device'[s] = device[s]
        /\ HasRow(s)' => HasRow(s)
        /\ s \in cache' /\ s \notin late' /\ ~HasRow(s) => s \in cache /\ s \notin late
  BY DEF Kept
<1>4. /\ HasRow(task[u].sid) <=> HasRow(s)
      /\ (HasRow(task[u].sid))' <=> HasRow(s)'
  BY <1>2 DEF HasRow
<1>5. /\ task[u].at \in {"store"} \cup RefreshSteps \cup RequestSteps => s \in Drawn
      /\ task[u].at \in {"store"} \cup RefreshSteps => device[s] = task[u].device
      /\ task[u].at \in {"delCache", "delRefreshKey"} => ~HasRow(s)
      /\ task[u].at = "delRefreshKey" => (s \in cache => s \in late)
  BY <1>1, <1>2, <1>4 DEF Fits
<1>6. /\ task[u].at \in {"store"} \cup RefreshSteps \cup RequestSteps => s \in Drawn'
      /\ task[u].at \in {"store"} \cup RefreshSteps => device'[s] = task[u].device
      /\ task[u].at \in {"delCache", "delRefreshKey"} => ~HasRow(s)'
      /\ task[u].at = "delRefreshKey" => (s \in cache' => s \in late')
  BY <1>3, <1>5 DEF RequestSteps
<1> QED
  BY <1>1, <1>2, <1>4, <1>6 DEF Fits

LEMMA Moves ==
  ASSUME IInv, Kept, NEW t \in Tasks, NEW new \in Task,
         task' = [task EXCEPT ![t] = new]
  PROVE  /\ task' \in [Tasks -> Task]
         /\ task'[t] = new
         /\ \A u \in Tasks \ {t} : task'[u] = task[u]
         /\ \A u \in Tasks \ {t} : Fits(u)'
<1>1. task \in [Tasks -> Task]
  BY DEF IInv, TypeOK
<1>2. /\ task' \in [Tasks -> Task]
      /\ task'[t] = new
      /\ \A u \in Tasks \ {t} : task'[u] = task[u]
  BY <1>1
<1>3. \A u \in Tasks \ {t} : Fits(u)'
  BY <1>2, Rests
<1> QED
  BY <1>2, <1>3

LEMMA IdleFits == IdleTask \in Task /\ IdleTask.at = "idle" /\ IdleTask.op = "none"
BY DEF IdleTask, Handler, Task, Steps, Ops

LEMMA Returns ==
  ASSUME IInv, Kept, NEW t \in Tasks, Return(t)
  PROVE  /\ task' \in [Tasks -> Task]
         /\ task'[t] = IdleTask
         /\ \A u \in Tasks \ {t} : task'[u] = task[u]
         /\ \A u \in Tasks : Fits(u)'
<1>1. /\ task' \in [Tasks -> Task]
      /\ task'[t] = IdleTask
      /\ \A u \in Tasks \ {t} : task'[u] = task[u]
      /\ \A u \in Tasks \ {t} : Fits(u)'
  BY Moves, IdleFits DEF Return
<1>2. Fits(t)'
  BY <1>1, IdleFits DEF Fits, IssueSteps, RefreshSteps, RequestSteps
<1> QED
  BY <1>1, <1>2

LEMMA Goes ==
  ASSUME IInv, Kept, NEW t \in Tasks, NEW step \in Steps, Goto(t, step)
  PROVE  /\ task' \in [Tasks -> Task]
         /\ task'[t] = [task[t] EXCEPT !.at = step]
         /\ task'[t].at = step
         /\ task'[t].op = task[t].op /\ task'[t].device = task[t].device
         /\ task'[t].sid = task[t].sid /\ task'[t].target = task[t].target
         /\ \A u \in Tasks \ {t} : task'[u] = task[u]
         /\ \A u \in Tasks \ {t} : Fits(u)'
<1> DEFINE new == [task[t] EXCEPT !.at = step]
<1>1. task[t] \in Task
  BY DEF IInv, TypeOK
<1>2. /\ new \in Task
      /\ new.at = step
      /\ new.op = task[t].op /\ new.device = task[t].device
      /\ new.sid = task[t].sid /\ new.target = task[t].target
  BY <1>1 DEF Task
<1>3. task' = [task EXCEPT ![t] = new]
  BY DEF Goto
<1> HIDE DEF new
<1>4. /\ task' \in [Tasks -> Task]
      /\ task'[t] = new
      /\ \A u \in Tasks \ {t} : task'[u] = task[u]
      /\ \A u \in Tasks \ {t} : Fits(u)'
  BY <1>2, <1>3, Moves
<1> QED
  BY <1>2, <1>4 DEF new

(* The invariant, from what was written and what the requests know. *)
LEMMA Assembled ==
  ASSUME IInv, GoodWrite, task' \in [Tasks -> Task], \A t \in Tasks : Fits(t)',
         loggedOut' = loggedOut, faults' \in 0..MaxFaults
  PROVE  IInv'
<1>1. TypeOK'
  BY DEF IInv, TypeOK, GoodWrite, Stored
<1>2. loggedOut' \subseteq Drawn'
  BY DEF IInv, GoodWrite, Kept
<1>3. LogoutSticks'
  <2> SUFFICES ASSUME NEW s \in loggedOut
               PROVE  ~HasRow(s)' /\ (s \in cache' => s \in late')
    BY DEF LogoutSticks, HasRow
  <2>1. s \in Drawn /\ ~HasRow(s) /\ (s \in cache => s \in late)
    BY DEF IInv, LogoutSticks
  <2> QED
    BY <2>1 DEF GoodWrite, Kept
<1> QED
  BY <1>1, <1>2, <1>3 DEF IInv, GoodWrite

-----------------------------------------------------------------------------
(* The writes. *)

LEMMA NoWrite ==
  ASSUME IInv, UNCHANGED tables, late' = late
  PROVE  GoodWrite
<1>1. UNCHANGED <<row, dead, device, refresh, cache, issued, late>>
  BY DEF tables
<1>2. Drawn' = Drawn
  BY <1>1 DEF Drawn
<1>3. \A s \in Drawn : HasRow(s)' <=> HasRow(s)
  BY <1>1 DEF HasRow
<1>4. Kept
  BY <1>1, <1>2, <1>3 DEF Kept
<1>5. Stored' /\ DrawnOnly' /\ RowsFit'
  BY <1>1, <1>2 DEF IInv, TypeOK, Stored, DrawnOnly, RowsFit
<1> QED
  BY <1>4, <1>5 DEF GoodWrite

(* Writes of sets only. *)
LEMMA SetWrite ==
  ASSUME IInv, UNCHANGED <<row, device>>,
         issued' \subseteq Drawn, dead' \subseteq SessionIds,
         refresh' \subseteq SessionIds, cache' \subseteq SessionIds,
         late' \subseteq SessionIds,
         \A s \in Drawn :
           s \in cache' /\ s \notin late' /\ ~HasRow(s) => s \in cache /\ s \notin late
  PROVE  GoodWrite
<1>1. Drawn' = Drawn /\ Drawn \subseteq SessionIds
  BY DEF Drawn
<1>2. \A s \in Drawn : HasRow(s)' <=> HasRow(s)
  BY DEF HasRow
<1>3. Kept
  BY <1>1, <1>2 DEF Kept
<1>4. Stored' /\ DrawnOnly' /\ RowsFit'
  BY <1>1 DEF IInv, TypeOK, Stored, DrawnOnly, RowsFit
<1> QED
  BY <1>3, <1>4 DEF GoodWrite

LEMMA UpsertWrite ==
  ASSUME IInv, NEW t \in Tasks, NEW s \in SessionIds, task[t].at = "upsert",
         upsert_session(t, s),
         UNCHANGED <<dead, refresh, cache, issued, late>>
  PROVE  GoodWrite /\ s \notin Drawn /\ s \in Drawn'
         /\ row'[task[t].device] = s /\ device'[s] = task[t].device
         /\ \A d \in Devices \ {task[t].device} : row'[d] = row[d]
<1>1. task[t].device \in Devices
  BY DEF IInv, Fits, IssueSteps
<1>2. /\ row \in [Devices -> SessionIds \cup {NoSession}]
      /\ device \in [SessionIds -> Devices \cup {NoDevice}]
      /\ issued \subseteq SessionIds
  BY DEF IInv, TypeOK
<1>3. /\ s \notin Drawn
      /\ row' = [row EXCEPT ![task[t].device] = s]
      /\ device' = [device EXCEPT ![s] = task[t].device]
  BY DEF upsert_session
<1>4. /\ row' \in [Devices -> SessionIds \cup {NoSession}]
      /\ row'[task[t].device] = s
      /\ \A d \in Devices \ {task[t].device} : row'[d] = row[d]
  BY <1>1, <1>2, <1>3
<1>5. /\ device' \in [SessionIds -> Devices \cup {NoDevice}]
      /\ device'[s] = task[t].device
      /\ \A x \in SessionIds \ {s} : device'[x] = device[x]
  BY <1>1, <1>2, <1>3
<1>6. \A x \in Drawn : x \in SessionIds \ {s} /\ x \in Drawn'
  BY <1>3, <1>5 DEF Drawn
<1>7. s \in Drawn'
  BY <1>1, <1>5, NoDeviceIsNoDevice DEF Drawn
<1>8. Kept
  <2>1. \A x \in Drawn : HasRow(x)' => HasRow(x)
    BY <1>1, <1>4, <1>6 DEF HasRow
  <2> QED
    BY <1>5, <1>6, <2>1 DEF Kept
<1>9. Stored' /\ DrawnOnly'
  BY <1>4, <1>5, <1>6 DEF IInv, TypeOK, Stored, DrawnOnly
<1>10. RowsFit'
  <2> SUFFICES ASSUME NEW d \in Devices, row'[d] \in SessionIds
               PROVE  device'[row'[d]] = d
    BY DEF RowsFit
  <2>1. CASE d = task[t].device
    BY <1>4, <1>5, <2>1
  <2>2. CASE d # task[t].device
    <3>1. row'[d] = row[d] /\ device[row[d]] = d
      BY <1>4, <2>2 DEF IInv, RowsFit
    <3>2. row[d] \in Drawn
      BY <3>1, NoDeviceIsNoDevice DEF Drawn
    <3> QED
      BY <1>5, <1>6, <3>1, <3>2
  <2> QED
    BY <2>1, <2>2
<1> QED
  BY <1>3, <1>4, <1>5, <1>7, <1>8, <1>9, <1>10 DEF GoodWrite

LEMMA DeleteWrite ==
  ASSUME IInv, NEW x, delete_session(x),
         UNCHANGED <<dead, device, refresh, cache, issued, late>>
  PROVE  GoodWrite /\ (x # NoSession => ~HasRow(x)')
<1>1. row \in [Devices -> SessionIds \cup {NoSession}]
  BY DEF IInv, TypeOK
<1>2. /\ row' \in [Devices -> SessionIds \cup {NoSession}]
      /\ \A d \in Devices : row'[d] = IF row[d] = x THEN NoSession ELSE row[d]
  BY <1>1 DEF delete_session
<1>3. Drawn' = Drawn /\ NoSession \notin Drawn
  BY NoSessionIsNoSession DEF Drawn
<1>4. \A s \in Drawn : HasRow(s)' => HasRow(s)
  BY <1>2, <1>3 DEF HasRow
<1>5. Kept
  BY <1>3, <1>4 DEF Kept
<1>6. Stored' /\ DrawnOnly'
  BY <1>2, <1>3 DEF IInv, TypeOK, Stored, DrawnOnly
<1>7. RowsFit'
  BY <1>2, NoSessionIsNoSession DEF IInv, RowsFit
<1>8. x # NoSession => ~HasRow(x)'
  BY <1>2 DEF HasRow
<1> QED
  BY <1>5, <1>6, <1>7, <1>8 DEF GoodWrite

-----------------------------------------------------------------------------
(* Every action keeps the invariant. *)

LEMMA ArriveKeeps ==
  ASSUME IInv, NEW t \in Tasks, Arrive(t)
  PROVE  IInv'
<1>1. UNCHANGED <<tables, history, faults>>
  BY DEF Arrive, Login, Refresh, Request
<1>2. GoodWrite
  BY <1>1, NoWrite DEF history
<1>3. /\ issued \subseteq SessionIds /\ DrawnOnly
      /\ device \in [SessionIds -> Devices \cup {NoDevice}]
      /\ Drawn \subseteq SessionIds /\ Drawn \subseteq Drawn'
      /\ \A s \in Drawn : device[s] \in Devices /\ device'[s] = device[s]
  BY <1>2 DEF IInv, TypeOK, Drawn, GoodWrite, Kept
<1>4. PICK new \in Task :
        /\ task' = [task EXCEPT ![t] = new]
        /\ new.at \in {"upsert", "getRefresh", "getCache"}
        /\ new.at \in {"upsert", "getRefresh"} =>
             new.op = "issue" /\ new.device \in Devices
        /\ new.at # "upsert" => new.sid \in Drawn
        /\ new.at = "getRefresh" => device[new.sid] = new.device
        /\ new.op = "logout" => new.target = new.sid
  <2>1. CASE \E d \in Devices : Login(t, d)
    <3>1. PICK d \in Devices : Login(t, d)
      BY <2>1
    <3> DEFINE new == Handler("upsert", "issue", d, NoSession, NoSession)
    <3>2. new \in Task /\ new.at = "upsert" /\ new.op = "issue" /\ new.device = d
      BY DEF Handler, Task, Steps, IssueSteps, Ops
    <3>3. task' = [task EXCEPT ![t] = new]
      BY <3>1 DEF Login, Spawn
    <3> HIDE DEF new
    <3> QED
      BY <3>2, <3>3
  <2>2. CASE \E s \in SessionIds : Refresh(t, s)
    <3>1. PICK s \in SessionIds : Refresh(t, s)
      BY <2>2
    <3>2. s \in Drawn /\ device[s] \in Devices
      BY <1>3, <3>1 DEF Refresh, DrawnOnly
    <3> DEFINE new == Handler("getRefresh", "issue", device[s], s, NoSession)
    <3>3. /\ new \in Task /\ new.at = "getRefresh" /\ new.op = "issue"
          /\ new.device = device[s] /\ new.sid = s
      BY <3>2 DEF Handler, Task, Steps, RefreshSteps, Ops
    <3>4. task' = [task EXCEPT ![t] = new]
      BY <3>1 DEF Refresh, Spawn
    <3> HIDE DEF new
    <3> QED
      BY <3>2, <3>3, <3>4
  <2>3. CASE \E s \in SessionIds : Request(t, s)
    <3>1. PICK s \in SessionIds : Request(t, s)
      BY <2>3
    <3>2. s \in Drawn
      BY <1>3, <3>1 DEF Request, DrawnOnly
    <3>3. PICK op \in {"other", "logout", "revoke"}, x \in SessionIds \cup {NoSession} :
            /\ Spawn(t, Handler("getCache", op, NoDevice, s, x))
            /\ op = "logout" => x = s
      BY <1>3, <3>1 DEF Request
    <3> DEFINE new == Handler("getCache", op, NoDevice, s, x)
    <3>4. /\ new \in Task /\ new.at = "getCache" /\ new.op = op
          /\ new.sid = s /\ new.target = x
      BY <3>2, <3>3 DEF Handler, Task, Steps, RequestSteps, Ops
    <3>5. task' = [task EXCEPT ![t] = new]
      BY <3>3 DEF Spawn
    <3> HIDE DEF new
    <3> QED
      BY <3>2, <3>3, <3>4, <3>5
  <2> QED
    BY <2>1, <2>2, <2>3 DEF Arrive
<1>5. /\ task' \in [Tasks -> Task]
      /\ task'[t] = new
      /\ \A u \in Tasks \ {t} : Fits(u)'
  BY <1>2, <1>4, Moves DEF GoodWrite
<1>6. Fits(t)'
  <2>1. /\ new.at \in {"getRefresh", "getCache"} => new.sid \in Drawn'
        /\ new.at = "getRefresh" => device'[new.sid] = new.device
        /\ new.at = "upsert" => new.at \notin RefreshSteps \cup RequestSteps
        /\ new.at = "getCache" => new.at \notin RefreshSteps \cup IssueSteps
    BY <1>3, <1>4 DEF IssueSteps, RefreshSteps, RequestSteps
  <2> QED
    BY <1>4, <1>5, <2>1 DEF Fits
<1> QED
  BY <1>1, <1>2, <1>5, <1>6, Assembled DEF history, IInv, TypeOK

LEMMA UpsertKeeps ==
  ASSUME IInv, NEW t \in Tasks, UpsertSession(t)
  PROVE  IInv'
<1>1. PICK s \in SessionIds :
        /\ upsert_session(t, s)
        /\ task' = [task EXCEPT ![t].at = "store", ![t].sid = s]
  BY DEF UpsertSession
<1>2. GoodWrite /\ s \in Drawn' /\ device'[s] = task[t].device
  BY <1>1, UpsertWrite DEF UpsertSession, history
<1>3. /\ task[t] \in Task /\ task[t].at = "upsert"
      /\ task[t].op = "issue" /\ task[t].device \in Devices
  BY DEF UpsertSession, IInv, TypeOK, Fits, IssueSteps
<1> DEFINE new == [task[t] EXCEPT !.at = "store", !.sid = s]
<1>4. /\ new \in Task
      /\ new.at = "store" /\ new.op = "issue"
      /\ new.device = task[t].device /\ new.sid = s
  BY <1>3 DEF Task, Steps, IssueSteps
<1>5. task' = [task EXCEPT ![t] = new]
  BY <1>1
<1> HIDE DEF new
<1>6. /\ task' \in [Tasks -> Task]
      /\ task'[t] = new
      /\ \A u \in Tasks \ {t} : Fits(u)'
  BY <1>2, <1>4, <1>5, Moves DEF GoodWrite
<1>7. Fits(t)'
  BY <1>2, <1>3, <1>4, <1>6 DEF Fits
<1> QED
  BY <1>2, <1>6, <1>7, Assembled DEF UpsertSession, history, IInv, TypeOK

LEMMA TokenKeeps ==
  ASSUME IInv, NEW t \in Tasks, StoreRefresh(t) \/ GetRefresh(t) \/ DelRefresh(t)
  PROVE  IInv'
<1>1. /\ task[t].at \in {"store", "getRefresh", "delRefresh"}
      /\ task[t].at \in {"store", "getRefresh", "delRefresh"} => task[t].sid \in Drawn
      /\ task[t].at # "store" => /\ task[t].op = "issue"
                                 /\ task[t].device \in Devices
                                 /\ device[task[t].sid] = task[t].device
  BY DEF StoreRefresh, GetRefresh, DelRefresh, IInv, Fits, RefreshSteps
<1>2. Drawn \subseteq SessionIds
  BY DEF Drawn
<1>3. GoodWrite
  <2>1. /\ UNCHANGED <<row, device, dead, cache, late>>
        /\ issued' \subseteq Drawn /\ refresh' \subseteq SessionIds
    BY <1>1, <1>2 DEF StoreRefresh, GetRefresh, DelRefresh, tables, history,
         IInv, TypeOK, DrawnOnly
  <2> QED
    BY <2>1, SetWrite DEF IInv, TypeOK
<1>4. /\ loggedOut' = loggedOut /\ faults' \in 0..MaxFaults
      /\ GoodWrite /\ Kept
  BY <1>3 DEF StoreRefresh, GetRefresh, DelRefresh, history, IInv, TypeOK, GoodWrite
<1>5. CASE Return(t)
  BY <1>4, <1>5, Returns, Assembled
<1>6. CASE task[t].at = "getRefresh" /\ Goto(t, "delRefresh")
  <2>1. /\ task' \in [Tasks -> Task]
        /\ task'[t].at = "delRefresh"
        /\ task'[t].op = task[t].op /\ task'[t].device = task[t].device
        /\ task'[t].sid = task[t].sid /\ task'[t].target = task[t].target
        /\ \A u \in Tasks \ {t} : Fits(u)'
    BY <1>4, <1>6, Goes DEF Steps, RefreshSteps
  <2>2. /\ task[t].sid \in Drawn'
        /\ device'[task[t].sid] = task[t].device
    BY <1>1, <1>4, <1>6 DEF Kept
  <2>3. Fits(t)'
    BY <1>1, <1>6, <2>1, <2>2 DEF Fits
  <2> QED
    BY <1>4, <2>1, <2>3, Assembled
<1>7. CASE task[t].at = "delRefresh" /\ Goto(t, "upsert")
  <2>1. /\ task' \in [Tasks -> Task]
        /\ task'[t].at = "upsert"
        /\ task'[t].op = task[t].op /\ task'[t].device = task[t].device
        /\ task'[t].sid = task[t].sid /\ task'[t].target = task[t].target
        /\ \A u \in Tasks \ {t} : Fits(u)'
    BY <1>4, <1>7, Goes DEF Steps, IssueSteps
  <2>2. Fits(t)'
    BY <1>1, <1>7, <2>1 DEF Fits, RefreshSteps, RequestSteps
  <2> QED
    BY <1>4, <2>1, <2>2, Assembled
<1> QED
  BY <1>5, <1>6, <1>7 DEF StoreRefresh, GetRefresh, DelRefresh

(* From one step of the middleware to another, or to the handler. *)
LEMMA GoesOn ==
  ASSUME IInv, Kept, NEW t \in Tasks, task[t].at \in RequestSteps,
         NEW step \in {"checkRow", "setCache", "deleteRow"}, Goto(t, step)
  PROVE  task' \in [Tasks -> Task] /\ \A u \in Tasks : Fits(u)'
<1>1. step \in Steps /\ step \in RequestSteps
  BY DEF Steps, RequestSteps
<1>2. /\ task' \in [Tasks -> Task]
      /\ task'[t].at = step /\ task'[t].op = task[t].op
      /\ task'[t].sid = task[t].sid /\ task'[t].target = task[t].target
      /\ \A u \in Tasks \ {t} : Fits(u)'
  BY <1>1, Goes
<1>3. task[t].sid \in Drawn' /\ (task[t].op = "logout" => task[t].target = task[t].sid)
  BY DEF IInv, Fits, Kept
<1>4. Fits(t)'
  BY <1>2, <1>3 DEF Fits, IssueSteps, RefreshSteps
<1> QED
  BY <1>2, <1>4

LEMMA Enters ==
  ASSUME IInv, Kept, NEW t \in Tasks, task[t].at \in RequestSteps, Enter(t)
  PROVE  task' \in [Tasks -> Task] /\ \A u \in Tasks : Fits(u)'
BY GoesOn, Returns DEF Enter

LEMMA RequestKeeps ==
  ASSUME IInv, NEW t \in Tasks, GetCache(t) \/ CheckRow(t) \/ SetCache(t)
  PROVE  IInv'
<1>1. task[t].at \in RequestSteps /\ task[t].sid \in Drawn
  BY DEF GetCache, CheckRow, SetCache, IInv, Fits, RequestSteps
<1>2. loggedOut' = loggedOut /\ faults' \in 0..MaxFaults
  BY DEF GetCache, CheckRow, SetCache, history, IInv, TypeOK
<1>3. GoodWrite
  <2>1. CASE GetCache(t) \/ CheckRow(t)
    BY <2>1, NoWrite DEF GetCache, CheckRow, history
  <2>2. CASE SetCache(t)
    <3>1. /\ UNCHANGED <<row, device, dead, issued, refresh>>
          /\ cache' = cache \cup {task[t].sid}
          /\ late' = IF HasRow(task[t].sid) THEN late ELSE late \cup {task[t].sid}
      BY <2>2 DEF SetCache
    <3>2. cache' \subseteq SessionIds /\ late' \subseteq SessionIds
      BY <1>1, <3>1 DEF IInv, TypeOK, Drawn
    <3>3. \A s \in Drawn : s \in cache' /\ s \notin late' /\ ~HasRow(s) =>
            s \in cache /\ s \notin late
      BY <3>1
    <3> QED
      BY <3>1, <3>2, <3>3, SetWrite DEF IInv, TypeOK, DrawnOnly
  <2> QED
    BY <2>1, <2>2
<1>4. task' \in [Tasks -> Task] /\ \A u \in Tasks : Fits(u)'
  <2>1. \/ Enter(t) \/ Return(t)
        \/ Goto(t, "checkRow") \/ Goto(t, "setCache")
    BY DEF GetCache, CheckRow, SetCache
  <2> QED
    BY <1>1, <1>3, <2>1, Enters, Returns, GoesOn DEF GoodWrite
<1> QED
  BY <1>2, <1>3, <1>4, Assembled

LEMMA UncacheWrite ==
  ASSUME IInv, NEW x, uncache(x), UNCHANGED <<row, dead, device, refresh, issued>>
  PROVE  GoodWrite
<1>1. cache' = cache \ {x} /\ late' = late \ {x}
  BY DEF uncache
<1>2. /\ cache' \subseteq SessionIds /\ late' \subseteq SessionIds
      /\ \A s \in Drawn : s \in cache' /\ s \notin late' /\ ~HasRow(s) =>
           s \in cache /\ s \notin late
  BY <1>1 DEF IInv, TypeOK
<1> QED
  BY <1>2, SetWrite DEF IInv, TypeOK, DrawnOnly

LEMMA DeleteRowKeeps ==
  ASSUME IInv, NEW t \in Tasks, DeleteRow(t)
  PROVE  IInv'
<1>1. /\ task[t].sid \in Drawn /\ task[t].sid # NoSession
      /\ task[t].op = "logout" => task[t].target = task[t].sid
  BY NoSessionIsNoSession DEF DeleteRow, IInv, Fits, RequestSteps, Drawn
<1>2. PICK x : x = task[t].target
  OBVIOUS
<1>3. GoodWrite /\ (x # NoSession => ~HasRow(x)')
  BY <1>2, DeleteWrite DEF DeleteRow, history
<1>4. loggedOut' = loggedOut /\ faults' \in 0..MaxFaults
  BY DEF DeleteRow, history, IInv, TypeOK
<1>5. CASE Return(t)
  BY <1>3, <1>4, <1>5, Returns, Assembled DEF GoodWrite
<1>6. CASE task[t].op = "logout" /\ Goto(t, "delCache")
  <2>1. /\ task' \in [Tasks -> Task]
        /\ task'[t].at = "delCache" /\ task'[t].op = task[t].op
        /\ task'[t].sid = task[t].sid /\ task'[t].target = task[t].target
        /\ \A u \in Tasks \ {t} : Fits(u)'
    BY <1>3, <1>6, Goes DEF GoodWrite, Steps, RequestSteps
  <2>2. task'[t].sid = x /\ ~HasRow(x)' /\ x \in Drawn'
    BY <1>1, <1>2, <1>3, <1>6, <2>1 DEF GoodWrite, Kept
  <2>3. ~(HasRow(task[t].sid))'
    BY <2>2 DEF HasRow
  <2>4. Fits(t)'
    BY <1>1, <1>6, <2>1, <2>2, <2>3 DEF Fits, IssueSteps, RefreshSteps
  <2> QED
    BY <1>3, <1>4, <2>1, <2>4, Assembled
<1> QED
  BY <1>5, <1>6 DEF DeleteRow

LEMMA DelCacheKeeps ==
  ASSUME IInv, NEW t \in Tasks, DelCache(t)
  PROVE  IInv'
<1>1. PICK x : x = task[t].sid
  OBVIOUS
<1>2. /\ task[t].at = "delCache" /\ x \in Drawn /\ ~HasRow(x)
      /\ task[t].op = "logout" => task[t].target = x
  BY <1>1 DEF DelCache, IInv, Fits, RequestSteps, HasRow
<1>3. GoodWrite
  BY <1>1, UncacheWrite DEF DelCache
<1>4. /\ task' \in [Tasks -> Task]
      /\ task'[t].at = "delRefreshKey" /\ task'[t].op = task[t].op
      /\ task'[t].sid = x /\ task'[t].target = task[t].target
      /\ \A u \in Tasks \ {t} : Fits(u)'
  BY <1>1, <1>3, Goes DEF DelCache, GoodWrite, Steps, RequestSteps
<1>5. x \in Drawn' /\ ~HasRow(x)' /\ x \notin cache'
  BY <1>1, <1>2, <1>3 DEF GoodWrite, Kept, DelCache, uncache
<1>6. ~(HasRow(task[t].sid))'
  BY <1>4, <1>5 DEF HasRow
<1>7. Fits(t)'
  BY <1>2, <1>4, <1>5, <1>6 DEF Fits, IssueSteps, RefreshSteps
<1> QED
  BY <1>3, <1>4, <1>7, Assembled DEF DelCache, IInv, TypeOK

(* The logout that is answered leaves no row and no entry. *)
LEMMA DelRefreshKeyKeeps ==
  ASSUME IInv, NEW t \in Tasks, DelRefreshKey(t)
  PROVE  IInv'
<1>1. PICK x : x = task[t].sid
  OBVIOUS
<1>2. /\ x \in Drawn /\ ~HasRow(x)
      /\ x \in cache => x \in late
  BY <1>1 DEF DelRefreshKey, IInv, Fits, RequestSteps, HasRow
<1>3. /\ UNCHANGED <<row, dead, device, refresh, cache, issued, late, faults>>
      /\ loggedOut' = loggedOut \cup {x} /\ Return(t)
  BY <1>1 DEF DelRefreshKey, tables
<1>4. GoodWrite
  BY <1>3, NoWrite DEF tables
<1>5. task' \in [Tasks -> Task] /\ \A u \in Tasks : Fits(u)'
  BY <1>3, <1>4, Returns DEF GoodWrite
<1>6. Drawn' = Drawn /\ Drawn \subseteq SessionIds
  BY <1>3 DEF Drawn
<1>7. TypeOK'
  BY <1>2, <1>3, <1>4, <1>5, <1>6 DEF IInv, TypeOK, GoodWrite, Stored
<1>8. LogoutSticks'
  <2> SUFFICES ASSUME NEW s \in loggedOut'
               PROVE  ~HasRow(s)' /\ (s \in cache' => s \in late')
    BY DEF LogoutSticks, HasRow
  <2>1. ~HasRow(s) /\ (s \in cache => s \in late)
    BY <1>2, <1>3 DEF IInv, LogoutSticks
  <2> QED
    BY <1>3, <2>1 DEF HasRow
<1> QED
  BY <1>2, <1>3, <1>4, <1>5, <1>6, <1>7, <1>8 DEF IInv, GoodWrite

LEMMA TimeKeeps ==
  ASSUME IInv, NEW s \in SessionIds, SessionExpires(s) \/ CacheExpires(s)
  PROVE  IInv'
<1>1. /\ task' = task /\ loggedOut' = loggedOut /\ faults' \in 0..MaxFaults
      /\ task \in [Tasks -> Task]
  BY DEF SessionExpires, CacheExpires, history, IInv, TypeOK
<1>2. GoodWrite
  <2>1. CASE SessionExpires(s)
    <3>1. /\ UNCHANGED <<row, device, issued, cache, late>>
          /\ dead' \subseteq SessionIds /\ refresh' \subseteq SessionIds
      BY <2>1 DEF SessionExpires, history, IInv, TypeOK
    <3> QED
      BY <3>1, SetWrite DEF IInv, TypeOK, DrawnOnly
  <2>2. CASE CacheExpires(s)
    BY <2>2, UncacheWrite DEF CacheExpires
  <2> QED
    BY <2>1, <2>2
<1>3. \A t \in Tasks : Fits(t)'
  BY <1>1, <1>2, Rests DEF GoodWrite
<1> QED
  BY <1>1, <1>2, <1>3, Assembled

LEMMA FaultKeeps ==
  ASSUME IInv, faults' \in 0..MaxFaults,
         \/ Crash
         \/ \E t \in Tasks : CommandFails(t) \/ ReplyLost(t)
  PROVE  IInv'
<1>1. CASE Crash
  <2>1. GoodWrite /\ loggedOut' = loggedOut
    BY <1>1, NoWrite DEF Crash, history
  <2>2. task' = [t \in Tasks |-> IdleTask]
    BY <1>1 DEF Crash
  <2>3. task' \in [Tasks -> Task] /\ \A t \in Tasks : task'[t] = IdleTask
    BY <2>2, IdleFits
  <2>4. \A t \in Tasks : Fits(t)'
    BY <2>3, IdleFits DEF Fits, IssueSteps, RefreshSteps, RequestSteps
  <2> QED
    BY <2>1, <2>3, <2>4, Assembled
<1>2. CASE \E t \in Tasks : CommandFails(t)
  <2>1. PICK t \in Tasks : CommandFails(t)
    BY <1>2
  <2>2. GoodWrite /\ loggedOut' = loggedOut
    BY <2>1, NoWrite DEF CommandFails, history
  <2>3. \/ Return(t)
        \/ task[t].at \in RequestSteps /\ Goto(t, "checkRow")
        \/ task[t].at \in RequestSteps /\ Enter(t)
    BY <2>1 DEF CommandFails, RequestSteps
  <2>4. task' \in [Tasks -> Task] /\ \A u \in Tasks : Fits(u)'
    BY <2>2, <2>3, Returns, GoesOn, Enters DEF GoodWrite
  <2> QED
    BY <2>2, <2>4, Assembled
<1>3. CASE \E t \in Tasks : ReplyLost(t)
  <2>1. PICK t \in Tasks : ReplyLost(t)
    BY <1>3
  <2>2. /\ Return(t) /\ UNCHANGED <<dead, issued, loggedOut>>
        /\ issued' \subseteq Drawn
        /\ task[t].at = "store" => task[t].sid \in SessionIds
    BY <2>1 DEF ReplyLost, IInv, DrawnOnly, Fits, Drawn
  <2>3. GoodWrite
    <3>1. CASE task[t].at = "upsert" /\ \E s \in SessionIds : upsert_session(t, s)
      BY <2>1, <2>2, <3>1, UpsertWrite DEF ReplyLost
    <3>2. CASE task[t].at \in {"store", "delRefresh"}
      <4>1. /\ UNCHANGED <<row, device, dead, cache, late>>
            /\ refresh' \subseteq SessionIds
        BY <2>1, <2>2, <3>2 DEF ReplyLost, IInv, TypeOK
      <4> QED
        BY <2>2, <4>1, SetWrite DEF IInv, TypeOK
    <3>3. CASE task[t].at = "deleteRow"
      BY <2>1, <2>2, <3>3, DeleteWrite DEF ReplyLost
    <3>4. CASE task[t].at = "delCache"
      BY <2>1, <2>2, <3>4, UncacheWrite DEF ReplyLost
    <3> QED
      BY <2>1, <3>1, <3>2, <3>3, <3>4 DEF ReplyLost
  <2>4. task' \in [Tasks -> Task] /\ \A u \in Tasks : Fits(u)'
    BY <2>2, <2>3, Returns DEF GoodWrite
  <2> QED
    BY <2>2, <2>3, <2>4, Assembled
<1> QED
  BY <1>1, <1>2, <1>3

LEMMA QuietKeeps ==
  ASSUME IInv, UNCHANGED vars
  PROVE  IInv'
<1>1. GoodWrite /\ task' = task /\ loggedOut' = loggedOut /\ faults' = faults
  BY NoWrite DEF vars, history
<1>2. \A t \in Tasks : Fits(t)'
  BY <1>1, Rests DEF GoodWrite
<1> QED
  BY <1>1, <1>2, Assembled DEF IInv, TypeOK

LEMMA InitHolds ==
  ASSUME Init
  PROVE  IInv
<1>1. TypeOK
  <2>1. task \in [Tasks -> Task]
    BY IdleFits DEF Init
  <2>2. faults \in 0..MaxFaults
    BY MaxFaultsIsNatural DEF Init
  <2> QED
    BY <2>1, <2>2 DEF Init, TypeOK
<1>2. \A t \in Tasks : Fits(t)
  BY IdleFits DEF Init, Fits, IssueSteps, RefreshSteps, RequestSteps
<1>3. DrawnOnly /\ RowsFit /\ LogoutSticks /\ loggedOut \subseteq Drawn
  BY NoSessionIsNoSession DEF Init, DrawnOnly, RowsFit, LogoutSticks
<1> QED
  BY <1>1, <1>2, <1>3 DEF IInv

LEMMA StepKeeps ==
  ASSUME IInv, [Next]_vars
  PROVE  IInv'
<1>1. CASE UNCHANGED vars
  BY <1>1, QuietKeeps
<1>2. ASSUME NEW t \in Tasks, Arrive(t)
      PROVE  IInv'
  BY <1>2, ArriveKeeps
<1>3. ASSUME NEW t \in Tasks, TaskStep(t)
      PROVE  IInv'
  BY <1>3, UpsertKeeps, TokenKeeps, RequestKeeps, DeleteRowKeeps, DelCacheKeeps,
     DelRefreshKeyKeeps DEF TaskStep
<1>4. CASE Crash \/ \E t \in Tasks : CommandFails(t) \/ ReplyLost(t)
  <2>1. faults < MaxFaults /\ faults' = faults + 1
    BY <1>4 DEF Crash, CommandFails, ReplyLost
  <2>2. faults' \in 0..MaxFaults
    BY <2>1, MaxFaultsIsNatural DEF IInv, TypeOK
  <2> QED
    BY <1>4, <2>2, FaultKeeps
<1>5. ASSUME NEW s \in SessionIds, SessionExpires(s) \/ CacheExpires(s)
      PROVE  IInv'
  BY <1>5, TimeKeeps
<1> QED
  BY <1>1, <1>2, <1>3, <1>4, <1>5 DEF Next

LEMMA Invariant == Spec => []IInv
<1>1. Init => IInv
  BY InitHolds
<1>2. IInv /\ [Next]_vars => IInv'
  BY StepKeeps
<1> QED
  BY <1>1, <1>2, PTL DEF Spec

-----------------------------------------------------------------------------
(* Every variable of Sessions keeps its type, whatever overlaps or fails.  *)
THEOREM SessionTypesHold == Spec => []TypeOK
<1>1. IInv => TypeOK
  BY DEF IInv
<1> QED
  BY <1>1, Invariant, PTL

(* A logout that was answered leaves neither a row nor, but for an entry   *)
(* that was written after the row had gone, a cache entry (auth/mod.rs     *)
(* 730-813).                                                               *)
THEOREM LogoutAlwaysSticks == Spec => []LogoutSticks
<1>1. IInv => LogoutSticks
  BY DEF IInv
<1> QED
  BY <1>1, Invariant, PTL

-----------------------------------------------------------------------------
(* Only a request that found the row of a session is about to cache it.    *)
LEMMA EntersCache ==
  ASSUME IInv, Next, NEW u \in Tasks, task'[u].at = "setCache"
  PROVE  /\ task'[u].sid = task[u].sid
         /\ task[u].at = "setCache" \/ HasRow(task[u].sid)
<1>1. task \in [Tasks -> Task]
  BY DEF IInv, TypeOK
<1>2. ASSUME NEW t \in Tasks, Return(t)
      PROVE  task'[u] = task[u]
  BY <1>1, <1>2, IdleFits DEF Return
<1>3. ASSUME NEW t \in Tasks, NEW step \in {"delRefresh", "upsert", "checkRow",
                "deleteRow", "delCache", "delRefreshKey"}, Goto(t, step)
      PROVE  task'[u] = task[u]
  BY <1>1, <1>3 DEF Goto, Task
<1>4. ASSUME NEW t \in Tasks, NEW op, NEW d, NEW s, NEW x,
             NEW at \in {"upsert", "getRefresh", "getCache"},
             Spawn(t, Handler(at, op, d, s, x))
      PROVE  task'[u] = task[u]
  BY <1>1, <1>4 DEF Spawn, Handler
<1>5. ASSUME NEW t \in Tasks, Enter(t)
      PROVE  task'[u] = task[u]
  BY <1>2, <1>3, <1>5 DEF Enter
<1>6. ASSUME NEW t \in Tasks, Arrive(t)
      PROVE  task'[u] = task[u]
  BY <1>4, <1>6 DEF Arrive, Login, Refresh, Request
<1>7. ASSUME NEW t \in Tasks, UpsertSession(t)
      PROVE  task'[u] = task[u]
  BY <1>1, <1>7 DEF UpsertSession, Task
<1>8. ASSUME NEW t \in Tasks, CheckRow(t), ~Return(t)
      PROVE  task'[u] = task[u] \/ (HasRow(task[u].sid) /\ task'[u].sid = task[u].sid)
  BY <1>1, <1>8 DEF CheckRow, Goto, Task
<1>9. ASSUME NEW t \in Tasks, TaskStep(t), ~UpsertSession(t), ~CheckRow(t)
      PROVE  task'[u] = task[u]
  <2>1. \/ Return(t) \/ Enter(t)
        \/ \E step \in {"delRefresh", "upsert", "checkRow", "delCache", "delRefreshKey"} :
             Goto(t, step)
    BY <1>9 DEF TaskStep, StoreRefresh, GetRefresh, DelRefresh, GetCache, SetCache,
         DeleteRow, DelCache, DelRefreshKey
  <2> QED
    BY <1>2, <1>3, <1>5, <2>1
<1>10. ASSUME NEW t \in Tasks, CommandFails(t) \/ ReplyLost(t)
       PROVE  task'[u] = task[u]
  BY <1>2, <1>3, <1>5, <1>10 DEF CommandFails, ReplyLost
<1>11. ASSUME Crash
       PROVE  FALSE
  BY <1>11, IdleFits DEF Crash
<1>12. ASSUME NEW s \in SessionIds, SessionExpires(s) \/ CacheExpires(s)
       PROVE  task'[u] = task[u]
  BY <1>12 DEF SessionExpires, CacheExpires
<1> QED
  BY <1>2, <1>6, <1>7, <1>8, <1>9, <1>10, <1>11, <1>12 DEF Next

(* No step gives a drawn session a row. *)
LEMMA RowsStayGone ==
  ASSUME IInv, Next, NEW s \in Drawn, ~HasRow(s)
  PROVE  s \in Drawn' /\ ~HasRow(s)'
<1>1. CASE UNCHANGED <<row, device>>
  BY <1>1 DEF Drawn, HasRow
<1>2. ASSUME NEW t \in Tasks, NEW x \in SessionIds, task[t].at = "upsert",
             upsert_session(t, x), UNCHANGED <<dead, refresh, cache, issued, late>>
      PROVE  s \in Drawn' /\ ~HasRow(s)'
  BY <1>2, UpsertWrite DEF GoodWrite, Kept
<1>3. ASSUME NEW t \in Tasks, delete_session(task[t].target),
             UNCHANGED <<dead, device, refresh, cache, issued, late>>
      PROVE  s \in Drawn' /\ ~HasRow(s)'
  BY <1>3, DeleteWrite DEF GoodWrite, Kept
<1>4. ASSUME NEW t \in Tasks, ReplyLost(t), ~UNCHANGED <<row, device>>
      PROVE  s \in Drawn' /\ ~HasRow(s)'
  BY <1>2, <1>3, <1>4 DEF ReplyLost
<1>5. ASSUME NEW t \in Tasks, UpsertSession(t) \/ DeleteRow(t)
      PROVE  s \in Drawn' /\ ~HasRow(s)'
  BY <1>2, <1>3, <1>5 DEF UpsertSession, DeleteRow, history
<1>6. ASSUME NEW t \in Tasks, TaskStep(t), ~UpsertSession(t), ~DeleteRow(t)
      PROVE  UNCHANGED <<row, device>>
  BY <1>6 DEF TaskStep, StoreRefresh, GetRefresh, DelRefresh, GetCache, CheckRow,
       SetCache, DelCache, DelRefreshKey, tables
<1>7. ASSUME NEW t \in Tasks, Arrive(t) \/ CommandFails(t)
      PROVE  UNCHANGED <<row, device>>
  BY <1>7 DEF Arrive, Login, Refresh, Request, CommandFails, tables
<1>8. ASSUME \/ Crash
             \/ \E x \in SessionIds : SessionExpires(x) \/ CacheExpires(x)
      PROVE  UNCHANGED <<row, device>>
  BY <1>8 DEF Crash, SessionExpires, CacheExpires, tables
<1> QED
  BY <1>1, <1>4, <1>5, <1>6, <1>7, <1>8 DEF Next

(* Only a request about to cache a session caches it. *)
LEMMA CacheGrows ==
  ASSUME IInv, Next, NEW s \in SessionIds, s \in cache', s \notin cache
  PROVE  \E t \in Tasks : task[t].at = "setCache" /\ task[t].sid = s
<1>1. ASSUME NEW t \in Tasks, SetCache(t)
      PROVE  task[t].at = "setCache" /\ task[t].sid = s
  BY <1>1 DEF SetCache
<1>2. ASSUME NEW t \in Tasks, TaskStep(t), ~SetCache(t)
      PROVE  FALSE
  BY <1>2 DEF TaskStep, UpsertSession, StoreRefresh, GetRefresh, DelRefresh,
       GetCache, CheckRow, DeleteRow, DelCache, DelRefreshKey, tables, uncache
<1>3. ASSUME NEW t \in Tasks, Arrive(t) \/ CommandFails(t) \/ ReplyLost(t)
      PROVE  FALSE
  BY <1>3 DEF Arrive, Login, Refresh, Request, CommandFails, ReplyLost, tables,
       uncache
<1>4. ASSUME \/ Crash
             \/ \E x \in SessionIds : SessionExpires(x) \/ CacheExpires(x)
      PROVE  FALSE
  BY <1>4 DEF Crash, SessionExpires, CacheExpires, tables, uncache
<1> QED
  BY <1>1, <1>2, <1>3, <1>4 DEF Next

(* A session that was replaced or deleted, and that neither the cache nor  *)
(* a request about to fill it remembers, is never valid again: no retry,   *)
(* refresh, expiry or restart brings it back (middleware/auth.rs:78-95).   *)
THEOREM GoneStaysGone == Spec => GoneForGood
<1>1. ASSUME IInv, Next, NEW s \in SessionIds, Gone(s)
      PROVE  Gone(s)'
  <2>1. /\ s \in Drawn /\ ~HasRow(s) /\ s \notin cache
        /\ \A t \in Tasks : ~(task[t].at = "setCache" /\ task[t].sid = s)
    BY <1>1 DEF Gone
  <2>2. s \in Drawn' /\ ~HasRow(s)'
    BY <1>1, <2>1, RowsStayGone
  <2>3. s \notin cache'
    BY <1>1, <2>1, CacheGrows
  <2>4. ASSUME NEW t \in Tasks, task'[t].at = "setCache", task'[t].sid = s
        PROVE  FALSE
    <3>1. task[t].sid = s /\ HasRow(task[t].sid)
      BY <1>1, <2>1, <2>4, EntersCache
    <3> QED
      BY <2>1, <3>1 DEF HasRow
  <2> QED
    BY <2>2, <2>3, <2>4 DEF Gone
<1>2. ASSUME IInv, UNCHANGED vars, NEW s \in SessionIds, Gone(s)
      PROVE  Gone(s)'
  BY <1>2 DEF vars, tables, Gone, Drawn, HasRow
<1>3. IInv /\ [Next]_vars => [\A s \in SessionIds : Gone(s) => Gone(s)']_vars
  BY <1>1, <1>2
<1> QED
  BY <1>3, Invariant, PTL DEF Spec, GoneForGood

-----------------------------------------------------------------------------
(* A session in the table can be renewed, or some request is about to make *)
(* it so, or to put another in its place.                                  *)
Renewed(d) ==
  \/ row[d] \in refresh /\ row[d] \in issued
  \/ \E t \in Tasks : task[t].at = "store" /\ task[t].sid = row[d]
  \/ \E t \in Tasks : task[t].at = "upsert" /\ task[t].device = d

AllRenewed ==
  faults = 0 => \A d \in Devices : row[d] \in SessionIds \ dead => Renewed(d)

LEMMA OthersRest ==
  ASSUME IInv, NEW t \in Tasks, Arrive(t) \/ TaskStep(t), NEW u \in Tasks \ {t}
  PROVE  task'[u] = task[u]
<1>1. task \in [Tasks -> Task]
  BY DEF IInv, TypeOK
<1>2. CASE Arrive(t)
  BY <1>1, <1>2 DEF Arrive, Login, Refresh, Request, Spawn
<1>3. CASE TaskStep(t)
  BY <1>1, <1>3 DEF TaskStep, UpsertSession, StoreRefresh, GetRefresh, DelRefresh,
     GetCache, CheckRow, SetCache, DeleteRow, DelCache, DelRefreshKey, Goto, Return,
     Enter
<1> QED
  BY <1>2, <1>3

(* It stays renewed where the table and the tokens stay, and no witness is *)
(* the request that moves.                                                 *)
LEMMA RenewedRests ==
  ASSUME IInv, NEW d \in Devices, Renewed(d), row'[d] = row[d],
         row[d] \in refresh /\ row[d] \in issued =>
           row[d] \in refresh' /\ row[d] \in issued',
         \A t \in Tasks : task[t].at \in {"store", "upsert"} => task'[t] = task[t]
  PROVE  Renewed(d)'
BY DEF Renewed

LEMMA RenewedNext ==
  ASSUME IInv, AllRenewed, Next, faults' = 0,
         NEW d \in Devices, row'[d] \in SessionIds \ dead'
  PROVE  Renewed(d)'
<1>1. task \in [Tasks -> Task] /\ faults \in Nat
  BY MaxFaultsIsNatural DEF IInv, TypeOK
<1>2. faults = 0
  <2>1. faults' = faults \/ faults' = faults + 1
    BY DEF Next, Arrive, Login, Refresh, Request, TaskStep, UpsertSession,
       StoreRefresh, GetRefresh, DelRefresh, GetCache, CheckRow, SetCache, DeleteRow,
       DelCache, DelRefreshKey, CommandFails, ReplyLost, Crash, SessionExpires,
       CacheExpires
  <2> QED
    BY <1>1, <2>1
<1>3. row[d] \in SessionIds \ dead => Renewed(d)
  BY <1>2 DEF AllRenewed
<1>4. ASSUME NEW t \in Tasks, Arrive(t)
      PROVE  Renewed(d)'
  <2>1. /\ UNCHANGED <<row, dead, refresh, issued>> /\ task[t].at = "idle"
    BY <1>4 DEF Arrive, Login, Refresh, Request, Spawn, tables
  <2> QED
    BY <1>3, <1>4, <2>1, OthersRest, RenewedRests
<1>5. ASSUME NEW t \in Tasks, UpsertSession(t)
      PROVE  Renewed(d)'
  <2>1. PICK s \in SessionIds :
          /\ upsert_session(t, s)
          /\ task' = [task EXCEPT ![t].at = "store", ![t].sid = s]
    BY <1>5 DEF UpsertSession
  <2>2. /\ row'[task[t].device] = s
        /\ \A e \in Devices \ {task[t].device} : row'[e] = row[e]
        /\ UNCHANGED <<dead, refresh, issued>>
    BY <1>5, <2>1, UpsertWrite DEF UpsertSession, history
  <2>3. task'[t].at = "store" /\ task'[t].sid = s
    BY <1>1, <2>1 DEF Task
  <2>4. CASE d = task[t].device
    BY <2>2, <2>3, <2>4 DEF Renewed
  <2>5. CASE d # task[t].device
    <3>1. row'[d] = row[d] /\ Renewed(d)
      BY <1>3, <2>2, <2>5
    <3>2. task[t].at = "upsert"
      BY <1>5 DEF UpsertSession
    <3>3. \A u \in Tasks \ {t} : task'[u] = task[u]
      BY <1>5, OthersRest DEF TaskStep
    <3> QED
      BY <2>2, <2>5, <3>1, <3>2, <3>3 DEF Renewed
  <2> QED
    BY <2>4, <2>5
<1>6. ASSUME NEW t \in Tasks, StoreRefresh(t)
      PROVE  Renewed(d)'
  <2>1. /\ UNCHANGED <<row, dead>> /\ task[t].at = "store"
        /\ refresh' = refresh \cup {task[t].sid} /\ issued' = issued \cup {task[t].sid}
    BY <1>6 DEF StoreRefresh
  <2>2. \A u \in Tasks \ {t} : task'[u] = task[u]
    BY <1>6, OthersRest DEF TaskStep
  <2> QED
    BY <1>3, <2>1, <2>2 DEF Renewed
<1>7. ASSUME NEW t \in Tasks, DelRefresh(t)
      PROVE  Renewed(d)'
  <2>1. /\ UNCHANGED <<row, dead, issued>> /\ task[t].at = "delRefresh"
        /\ refresh' = refresh \ {task[t].sid}
        /\ device[task[t].sid] = task[t].device
    BY <1>7 DEF DelRefresh, IInv, Fits, RefreshSteps
  <2>2. \A u \in Tasks \ {t} : task'[u] = task[u]
    BY <1>7, OthersRest DEF TaskStep
  <2>3. task'[t].at = "upsert" /\ task'[t].device = task[t].device
    BY <1>1, <1>7 DEF DelRefresh, Goto, Task
  <2>4. CASE row[d] = task[t].sid
    <3>1. task[t].device = d
      BY <2>1, <2>4 DEF IInv, RowsFit
    <3> QED
      BY <2>3, <3>1 DEF Renewed
  <2>5. CASE row[d] # task[t].sid
    BY <1>3, <2>1, <2>2, <2>5 DEF Renewed
  <2> QED
    BY <2>4, <2>5
<1>8. ASSUME NEW t \in Tasks, TaskStep(t),
             ~UpsertSession(t), ~StoreRefresh(t), ~DelRefresh(t)
      PROVE  Renewed(d)'
  <2>1. /\ UNCHANGED <<dead, refresh, issued>>
        /\ row'[d] = row[d]
        /\ task[t].at \notin {"store", "upsert"}
    <3>1. row'[d] # NoSession /\ row \in [Devices -> SessionIds \cup {NoSession}]
      BY NoSessionIsNoSession DEF IInv, TypeOK
    <3> QED
      BY <1>8, <3>1 DEF TaskStep, GetRefresh, GetCache, CheckRow, SetCache, DeleteRow,
         DelCache, DelRefreshKey, tables, delete_session
  <2>2. \A u \in Tasks \ {t} : task'[u] = task[u]
    BY <1>8, OthersRest
  <2> QED
    BY <1>3, <2>1, <2>2, RenewedRests
<1>9. ASSUME NEW t \in Tasks, CommandFails(t) \/ ReplyLost(t)
      PROVE  FALSE
  BY <1>2, <1>9 DEF CommandFails, ReplyLost
<1>10. ASSUME Crash
       PROVE  FALSE
  BY <1>2, <1>10 DEF Crash
<1>11. ASSUME NEW s \in SessionIds, SessionExpires(s) \/ CacheExpires(s)
       PROVE  Renewed(d)'
  <2>1. /\ UNCHANGED <<row, issued, task>>
        /\ row[d] \in refresh => row[d] \in refresh'
        /\ dead \subseteq dead'
    BY <1>11 DEF SessionExpires, CacheExpires
  <2> QED
    BY <1>3, <2>1, RenewedRests
<1> QED
  BY <1>4, <1>5, <1>6, <1>7, <1>8, <1>9, <1>10, <1>11 DEF Next

(* Without a fault, the session of a device for which nothing is running   *)
(* can be renewed, whatever logins and refreshes overlapped before         *)
(* (auth/mod.rs:170-216).                                                  *)
THEOREM AlwaysRenewable == Spec => []SessionIsRenewable
<1>1. Init => AllRenewed
  BY NoSessionIsNoSession DEF Init, AllRenewed
<1>2. IInv /\ AllRenewed /\ [Next]_vars => AllRenewed'
  <2>1. ASSUME IInv, AllRenewed, UNCHANGED vars
        PROVE  AllRenewed'
    BY <2>1 DEF vars, tables, AllRenewed, Renewed
  <2>2. ASSUME IInv, AllRenewed, Next
        PROVE  AllRenewed'
    <3> SUFFICES ASSUME faults' = 0, NEW d \in Devices, row'[d] \in SessionIds \ dead'
                 PROVE  Renewed(d)'
      BY DEF AllRenewed
    <3> QED
      BY <2>2, RenewedNext
  <2> QED
    BY <2>1, <2>2
<1>3. IInv /\ AllRenewed => SessionIsRenewable
  <2> SUFFICES ASSUME IInv, AllRenewed, faults = 0, NEW d \in Devices,
                      row[d] \in SessionIds \ dead,
                      \A t \in Tasks : task[t].op = "issue" => task[t].device # d
               PROVE  row[d] \in refresh /\ row[d] \in issued
    BY DEF SessionIsRenewable
  <2>1. Renewed(d)
    BY DEF AllRenewed
  <2>2. ASSUME NEW t \in Tasks, task[t].at = "store", task[t].sid = row[d]
        PROVE  FALSE
    <3>1. task[t].op = "issue" /\ device[row[d]] = task[t].device /\ device[row[d]] = d
      BY <2>2 DEF IInv, Fits, RowsFit, IssueSteps
    <3> QED
      BY <3>1
  <2>3. ASSUME NEW t \in Tasks, task[t].at = "upsert", task[t].device = d
        PROVE  FALSE
    BY <2>3 DEF IInv, Fits, IssueSteps
  <2> QED
    BY <2>1, <2>2, <2>3 DEF Renewed
<1> QED
  BY <1>1, <1>2, <1>3, Invariant, PTL DEF Spec
=============================================================================
