------------------------------ MODULE Sessions ------------------------------
(***************************************************************************)
(* The sessions of one account: logins, token refreshes, authenticated     *)
(* requests, logouts and revocations, as concurrent requests of an HTTP    *)
(* server. A session is kept in three places written one after the other:  *)
(* the user_sessions table (one row per device), the refresh tokens in     *)
(* Redis, and a cache in Redis of the sessions found valid. Every await of *)
(* a request is a step of its own.                                         *)
(*                                                                         *)
(* issue_tokens draws a new session id, and with it one access token and   *)
(* one refresh token: a session stands for both of its tokens.             *)
(***************************************************************************)
EXTENDS Naturals

CONSTANTS
  Devices,      \* the device ids of the account
  SessionIds,   \* bound: the session ids that can be drawn
  Tasks,        \* requests that can be in flight at once
  NoDevice, NoSession,
  MaxFaults     \* bound: failed commands and crashes in a behaviour

ASSUME NoDeviceIsNoDevice == NoDevice \notin Devices
ASSUME NoSessionIsNoSession == NoSession \notin SessionIds
ASSUME MaxFaultsIsNatural == MaxFaults \in Nat

VARIABLES
  row,        \* user_sessions: the session of each device
  dead,       \* sessions whose row, if it still exists, has expired
  device,     \* the device a session was issued to
  refresh,    \* Redis refresh:{hash}: sessions whose refresh token is stored
  cache,      \* Redis session:{id}: sessions cached as active
  issued,     \* sessions whose two tokens were returned to the client
  task,       \* the requests in flight
  loggedOut,  \* history: sessions whose logout was answered with success
  late,       \* history: cache entries written when the row was already gone
  faults

tables == <<row, dead, device, refresh, cache, issued>>
history == <<loggedOut, late>>
vars == <<tables, task, history, faults>>

IssueSteps == {"upsert", "store"}
RefreshSteps == {"getRefresh", "delRefresh"}
RequestSteps == {"getCache", "checkRow", "setCache",
                 "deleteRow", "delCache", "delRefreshKey"}
Steps == {"idle"} \cup IssueSteps \cup RefreshSteps \cup RequestSteps

Ops == {"none", "issue", "other", "logout", "revoke"}

(* A request knows the device it issues tokens for, the session whose      *)
(* token it carries or has just drawn, and the session it is to delete.    *)
Task == [at : Steps, op : Ops, device : Devices \cup {NoDevice},
         sid : SessionIds \cup {NoSession},
         target : SessionIds \cup {NoSession}]

Handler(at, op, d, s, target) ==
  [at |-> at, op |-> op, device |-> d, sid |-> s, target |-> target]

IdleTask == Handler("idle", "none", NoDevice, NoSession, NoSession)

Init ==
  /\ row = [d \in Devices |-> NoSession]
  /\ dead = {}
  /\ device = [s \in SessionIds |-> NoDevice]
  /\ refresh = {}
  /\ cache = {}
  /\ issued = {}
  /\ task = [t \in Tasks |-> IdleTask]
  /\ loggedOut = {}
  /\ late = {}
  /\ faults = 0

Drawn == {s \in SessionIds : device[s] # NoDevice}
HasRow(s) == \E d \in Devices : row[d] = s

-----------------------------------------------------------------------------
Goto(t, step) == task' = [task EXCEPT ![t].at = step]
Return(t) == task' = [task EXCEPT ![t] = IdleTask]
Spawn(t, new) == task[t].at = "idle" /\ task' = [task EXCEPT ![t] = new]

(***************************************************************************)
(* Requests arrive. Proving the phone by a code, for a new account, a      *)
(* login or the second factor, ends in issue_tokens. Either token of a     *)
(* session may be sent at any time, also twice. (A request whose access    *)
(* token has expired is refused before it reads or writes anything.)       *)
(***************************************************************************)
Login(t, d) ==
  /\ Spawn(t, Handler("upsert", "issue", d, NoSession, NoSession))
  /\ UNCHANGED <<tables, history, faults>>

Refresh(t, s) ==
  /\ s \in issued
  /\ Spawn(t, Handler("getRefresh", "issue", device[s], s, NoSession))
  /\ UNCHANGED <<tables, history, faults>>

Request(t, s) ==
  /\ s \in issued
  /\ \/ Spawn(t, Handler("getCache", "other", NoDevice, s, NoSession))
     \/ Spawn(t, Handler("getCache", "logout", NoDevice, s, s))
     \/ \E x \in Drawn :
          Spawn(t, Handler("getCache", "revoke", NoDevice, s, x))
  /\ UNCHANGED <<tables, history, faults>>

-----------------------------------------------------------------------------
(***************************************************************************)
(* issue_tokens: upsert_session replaces the session of the device, then   *)
(* the refresh token is stored, and the pair is returned.                  *)
(***************************************************************************)
upsert_session(t, s) ==
  /\ s \notin Drawn
  /\ row' = [row EXCEPT ![task[t].device] = s]
  /\ device' = [device EXCEPT ![s] = task[t].device]

UpsertSession(t) ==
  /\ task[t].at = "upsert"
  /\ \E s \in SessionIds :
       /\ upsert_session(t, s)
       /\ task' = [task EXCEPT ![t].at = "store", ![t].sid = s]
  /\ UNCHANGED <<dead, refresh, cache, issued, history, faults>>

(* This definition, and below CheckRowByDevice and DelCacheSkipped, are    *)
(* mutants: the definition after it with a plausible mistake, for checking *)
(* that the properties notice. No other definition uses one.               *)
StoreRefreshElsewhere(t) ==
  /\ task[t].at = "store"
  /\ issued' = issued \cup {task[t].sid}
  /\ Return(t)
  /\ UNCHANGED <<row, dead, device, refresh, cache, history, faults>>

StoreRefresh(t) ==
  /\ task[t].at = "store"
  /\ refresh' = refresh \cup {task[t].sid}
  /\ issued' = issued \cup {task[t].sid}
  /\ Return(t)
  /\ UNCHANGED <<row, dead, device, cache, history, faults>>

-----------------------------------------------------------------------------
(***************************************************************************)
(* validate_refresh_token: GET, then DEL whose count is not looked at. The *)
(* session's row is not looked at either.                                  *)
(***************************************************************************)
GetRefresh(t) ==
  /\ task[t].at = "getRefresh"
  /\ IF task[t].sid \in refresh THEN Goto(t, "delRefresh") ELSE Return(t)
  /\ UNCHANGED <<tables, history, faults>>

DelRefresh(t) ==
  /\ task[t].at = "delRefresh"
  /\ refresh' = refresh \ {task[t].sid}
  /\ Goto(t, "upsert")
  /\ UNCHANGED <<row, dead, device, cache, issued, history, faults>>

-----------------------------------------------------------------------------
(***************************************************************************)
(* auth_middleware: validate_session asks the cache, else the table, and   *)
(* then fills the cache. A Redis error counts as a miss on the read and is *)
(* ignored on the write.                                                   *)
(***************************************************************************)
Enter(t) == IF task[t].op = "other" THEN Return(t) ELSE Goto(t, "deleteRow")

GetCache(t) ==
  /\ task[t].at = "getCache"
  /\ IF task[t].sid \in cache THEN Enter(t) ELSE Goto(t, "checkRow")
  /\ UNCHANGED <<tables, history, faults>>

CheckRowByDevice(t) ==
  /\ task[t].at = "checkRow"
  /\ IF row[device[task[t].sid]] # NoSession
       THEN Goto(t, "setCache")
       ELSE Return(t)
  /\ UNCHANGED <<tables, history, faults>>

CheckRow(t) ==
  /\ task[t].at = "checkRow"
  /\ IF HasRow(task[t].sid) /\ task[t].sid \notin dead
       THEN Goto(t, "setCache")
       ELSE Return(t)
  /\ UNCHANGED <<tables, history, faults>>

SetCache(t) ==
  /\ task[t].at = "setCache"
  /\ cache' = cache \cup {task[t].sid}
  /\ late' = IF HasRow(task[t].sid) THEN late ELSE late \cup {task[t].sid}
  /\ Enter(t)
  /\ UNCHANGED <<row, dead, device, refresh, issued, loggedOut, faults>>

-----------------------------------------------------------------------------
(***************************************************************************)
(* delete_session (the handler) deletes the row of the session it names.   *)
(* logout deletes its own, then the cache entry, then a key of Redis named *)
(* after the session id, where no refresh token is: those are stored under *)
(* the hash of the token.                                                  *)
(***************************************************************************)
delete_session(s) ==
  row' = [d \in Devices |-> IF row[d] = s THEN NoSession ELSE row[d]]

DeleteRow(t) ==
  /\ task[t].at = "deleteRow"
  /\ delete_session(task[t].target)
  /\ IF task[t].op = "logout" THEN Goto(t, "delCache") ELSE Return(t)
  /\ UNCHANGED <<dead, device, refresh, cache, issued, history, faults>>

uncache(s) == cache' = cache \ {s} /\ late' = late \ {s}

DelCacheSkipped(t) ==
  /\ task[t].at = "delCache"
  /\ Goto(t, "delRefreshKey")
  /\ UNCHANGED <<tables, history, faults>>

DelCache(t) ==
  /\ task[t].at = "delCache"
  /\ uncache(task[t].sid)
  /\ Goto(t, "delRefreshKey")
  /\ UNCHANGED <<row, dead, device, refresh, issued, loggedOut, faults>>

DelRefreshKey(t) ==
  /\ task[t].at = "delRefreshKey"
  /\ loggedOut' = loggedOut \cup {task[t].sid}
  /\ Return(t)
  /\ UNCHANGED <<tables, late, faults>>

-----------------------------------------------------------------------------
(* Time: the row and the refresh token of a session have one life,         *)
(* refresh_ttl; a cache entry has one of its own, or is evicted.           *)
SessionExpires(s) ==
  /\ s \in Drawn
  /\ dead' = dead \cup {s}
  /\ refresh' = refresh \ {s}
  /\ UNCHANGED <<row, device, cache, issued, task, history, faults>>

CacheExpires(s) ==
  /\ s \in cache
  /\ uncache(s)
  /\ UNCHANGED <<row, dead, device, refresh, issued, task, loggedOut, faults>>

-----------------------------------------------------------------------------
(***************************************************************************)
(* A query or a Redis command fails, with or without having been applied.  *)
(* The request ends with an error, except where validate_session goes on.  *)
(***************************************************************************)
CommandFails(t) ==
  /\ faults < MaxFaults
  /\ faults' = faults + 1
  /\ \/ task[t].at \notin {"idle", "getCache", "setCache"} /\ Return(t)
     \/ task[t].at = "getCache" /\ Goto(t, "checkRow")
     \/ task[t].at = "setCache" /\ Enter(t)
  /\ UNCHANGED <<tables, history>>

ReplyLost(t) ==
  /\ faults < MaxFaults
  /\ faults' = faults + 1
  /\ Return(t)
  /\ \/ /\ task[t].at = "upsert"
        /\ \E s \in SessionIds : upsert_session(t, s)
        /\ UNCHANGED <<refresh, cache, late>>
     \/ /\ task[t].at = "store"
        /\ refresh' = refresh \cup {task[t].sid}
        /\ UNCHANGED <<row, device, cache, late>>
     \/ /\ task[t].at = "delRefresh"
        /\ refresh' = refresh \ {task[t].sid}
        /\ UNCHANGED <<row, device, cache, late>>
     \/ /\ task[t].at = "deleteRow"
        /\ delete_session(task[t].target)
        /\ UNCHANGED <<device, refresh, cache, late>>
     \/ /\ task[t].at = "delCache"
        /\ uncache(task[t].sid)
        /\ UNCHANGED <<row, device, refresh>>
  /\ UNCHANGED <<dead, issued, loggedOut>>

Crash ==
  /\ faults < MaxFaults
  /\ faults' = faults + 1
  /\ task' = [t \in Tasks |-> IdleTask]
  /\ UNCHANGED <<tables, history>>

-----------------------------------------------------------------------------
Arrive(t) ==
  \/ \E d \in Devices : Login(t, d)
  \/ \E s \in SessionIds : Refresh(t, s) \/ Request(t, s)

TaskStep(t) ==
  \/ UpsertSession(t) \/ StoreRefresh(t)
  \/ GetRefresh(t) \/ DelRefresh(t)
  \/ GetCache(t) \/ CheckRow(t) \/ SetCache(t)
  \/ DeleteRow(t) \/ DelCache(t) \/ DelRefreshKey(t)

Next ==
  \/ \E t \in Tasks : Arrive(t) \/ TaskStep(t) \/ CommandFails(t) \/ ReplyLost(t)
  \/ \E s \in SessionIds : SessionExpires(s) \/ CacheExpires(s)
  \/ Crash

Spec == Init /\ [][Next]_vars

-----------------------------------------------------------------------------
(* Every variable keeps its type. *)
TypeOK ==
  /\ row \in [Devices -> SessionIds \cup {NoSession}]
  /\ device \in [SessionIds -> Devices \cup {NoDevice}]
  /\ issued \subseteq SessionIds
  /\ task \in [Tasks -> Task]
  /\ dead \subseteq SessionIds
  /\ refresh \subseteq SessionIds
  /\ cache \subseteq SessionIds
  /\ loggedOut \subseteq SessionIds
  /\ late \subseteq SessionIds
  /\ faults \in 0..MaxFaults

(* However logins and refreshes of a device overlap, once none is running  *)
(* and if nothing failed, the session in the table is one the client can   *)
(* renew: it was given the pair, and the refresh token is stored until the *)
(* session expires.                                                        *)
SessionIsRenewable ==
  faults = 0 =>
    \A d \in Devices :
      /\ row[d] \in SessionIds \ dead
      /\ \A t \in Tasks : task[t].op = "issue" => task[t].device # d
      => row[d] \in refresh /\ row[d] \in issued

(* A logout that was answered took effect: the session has no row and no   *)
(* cache entry, unless a request that found the row before it was deleted  *)
(* wrote the entry after.                                                  *)
LogoutSticks ==
  \A s \in loggedOut : ~HasRow(s) /\ (s \in cache => s \in late)

(* A session that was replaced or deleted, and that neither the cache nor  *)
(* a request about to write the cache remembers, never comes back: no      *)
(* retry, refresh, restart or expiry makes it valid again.                 *)
Gone(s) ==
  /\ s \in Drawn
  /\ ~HasRow(s)
  /\ s \notin cache
  /\ \A t \in Tasks : ~(task[t].at = "setCache" /\ task[t].sid = s)

GoneForGood == [][\A s \in SessionIds : Gone(s) => Gone(s)']_vars

-----------------------------------------------------------------------------
(* README.md:452 promises "Refresh token rotation (one-time use)": no two  *)
(* requests go on to issue tokens for one refresh token.                   *)
RefreshTokenIsUsedOnce ==
  \A t, u \in Tasks :
    /\ task[t].at = "upsert" /\ task[t].sid # NoSession
    /\ task[u].at = "upsert" /\ task[u].sid = task[t].sid
    => t = u
=============================================================================
