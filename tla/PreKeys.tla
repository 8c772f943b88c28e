------------------------------ MODULE PreKeys -------------------------------
(***************************************************************************)
(* The published keys of one user: the row of user_keys (identity key and  *)
(* prekey_count) and the one-time pre-keys, as handlers/keys writes them   *)
(* and as get_user_public_keys (migration 011) hands them out. Any number  *)
(* of uploads by the user and of requests for its bundle by others run at  *)
(* once.                                                                   *)
(*                                                                         *)
(* A statement of Postgres is a step, with two exceptions: the function is *)
(* a transaction of several statements, whose effects are seen by others   *)
(* when it ends, and a statement that finds a row locked waits with the    *)
(* snapshot that it began with. The keys of an installation of the app are *)
(* those of one identity key; which bytes they are does not matter.        *)
(***************************************************************************)
EXTENDS Naturals, Sequences, FiniteSets

CONSTANTS
  KeyIds,       \* the key_id that clients number their one-time pre-keys by
  Users,        \* those who ask for the bundle
  Installs,     \* installations of the user's app, each with its identity
  Batches,      \* the sequences of key ids that an upload may bring
  Tasks,        \* requests that are served at once
  NoKey, NoUser, NoInstall,
  MaxRequests,  \* bound: requests in a behaviour
  MaxFaults     \* bound: queries that fail, and crashes, in a behaviour

ASSUME NoKeyIsNoKey == NoKey \notin KeyIds
ASSUME NoInstallIsNoInstall == NoInstall \notin Installs
ASSUME BatchesAreOfKeyIds == Batches \subseteq Seq(KeyIds)
ASSUME KeyIdsAreFinite == IsFiniteSet(KeyIds)
ASSUME BoundsAreNaturals == MaxRequests \in Nat /\ MaxFaults \in Nat

VARIABLES
  key,       \* one_time_prekeys by key_id: serial 0 where there is no row
  identity,  \* identity_key of the row in user_keys; NoInstall: no row
  count,     \* prekey_count of that row
  task,      \* the requests
  given,     \* history: the bundles with a one-time key that were returned
  short,     \* history: keys were stored that count may not include
  unseen,    \* history: keys handed out that count may still include
  requests, faults

keys == <<key, identity, count>>
vars == <<keys, task, given, short, unseen, requests, faults>>

Key == [serial : Nat, install : Installs \cup {NoInstall}, used : BOOLEAN]

AbsentKey == [serial |-> 0, install |-> NoInstall, used |-> FALSE]

Stored == {k \in KeyIds : key[k].serial # 0}
Gone == {k \in Stored : key[k].used}
Unused == Stored \ Gone

-----------------------------------------------------------------------------
BundleSteps == {"blocked", "blockedBy", "lock", "decrement", "return"}
UploadSteps == {"upsert", "insert", "recount", "waits"}
Steps == {"idle", "count"} \cup BundleSteps \cup UploadSteps

Task == [at : Steps,
         user : Users \cup {NoUser},           \* who asks for the bundle
         install : Installs \cup {NoInstall},  \* who uploads
         batch : Batches \cup {<<>>},
         valid : BOOLEAN,          \* the batch is one that passes the checks
         key : KeyIds \cup {NoKey},  \* locked, and consumed by this request
         row : BOOLEAN,            \* the row of user_keys is locked by it
         n : Nat,                  \* the prekey_count it is going to write
         stored : SUBSET KeyIds,   \* the snapshot of a recount that waits:
         gone : SUBSET KeyIds]     \* the keys it sees, and those consumed

Handler(at, u, i, batch, valid) ==
  [at |-> at, user |-> u, install |-> i, batch |-> batch, valid |-> valid,
   key |-> NoKey, row |-> FALSE, n |-> 0, stored |-> {}, gone |-> {}]

IdleTask == Handler("idle", NoUser, NoInstall, <<>>, TRUE)

Locked == {task[t].key : t \in Tasks}
RowIsFree == \A t \in Tasks : ~task[t].row

Goto(t, step) == task' = [task EXCEPT ![t].at = step]
Return(t) == task' = [task EXCEPT ![t] = IdleTask]

Init ==
  /\ key = [k \in KeyIds |-> AbsentKey]
  /\ identity = NoInstall
  /\ count = 0
  /\ task = [t \in Tasks |-> IdleTask]
  /\ given = {}
  /\ short = FALSE
  /\ unseen = {}
  /\ requests = 0
  /\ faults = 0

-----------------------------------------------------------------------------
(* Requests. Ids that repeat fail the checks of upload_keys, other things  *)
(* may; upload_prekeys refuses an empty batch and checks nothing.          *)
Spawn(t, handler) ==
  /\ task[t].at = "idle"
  /\ requests < MaxRequests
  /\ requests' = requests + 1
  /\ task' = [task EXCEPT ![t] = handler]
  /\ UNCHANGED <<keys, given, short, unseen, faults>>

upload_keys(t) ==
  \E i \in Installs, batch \in Batches \cup {<<>>}, valid \in BOOLEAN :
    /\ valid => \A m, n \in DOMAIN batch : batch[m] = batch[n] => m = n
    /\ Spawn(t, Handler("upsert", NoUser, i, batch, valid))

upload_prekeys(t) ==
  \E i \in Installs, batch \in Batches \ {<<>>} :
    Spawn(t, Handler("insert", NoUser, i, batch, TRUE))

get_key_bundle(t) ==
  \E u \in Users : Spawn(t, Handler("blocked", u, NoInstall, <<>>, TRUE))

-----------------------------------------------------------------------------
(***************************************************************************)
(* upload_keys replaces the identity before it checks the one-time keys.   *)
(* An id that is stored already keeps its key, whoever uploaded it.        *)
(***************************************************************************)
upsert_keys(t) ==
  /\ task[t].at = "upsert"
  /\ RowIsFree
  /\ identity' = task[t].install
  /\ UNCHANGED <<key, count>>

Upsert(t) ==
  /\ upsert_keys(t)
  /\ IF task[t].batch = <<>> THEN Goto(t, "count")
     ELSE IF ~task[t].valid THEN Return(t)
     ELSE Goto(t, "insert")
  /\ UNCHANGED <<given, short, unseen, requests, faults>>

(* BIGSERIAL numbers the new rows in the order of the batch. *)
Before(i, batch) ==
  {j \in KeyIds \ Stored : \E m \in DOMAIN batch :
                            batch[m] = j /\ \A n \in 1..m : batch[n] # i}

NewKey(i, k) ==
  [serial |-> Cardinality(Stored) + Cardinality(Before(i, k.batch)) + 1,
   install |-> k.install, used |-> FALSE]

InsertKeys(t) ==
  LET k == task[t] IN
  /\ k.at = "insert"
  /\ key' = [i \in KeyIds |->
       IF key[i].serial = 0 /\ \E n \in DOMAIN k.batch : k.batch[n] = i
         THEN NewKey(i, k) ELSE key[i]]
  /\ UNCHANGED <<identity, count>>

add_one_time_prekeys(t) ==
  /\ InsertKeys(t)
  /\ Goto(t, "recount")
  /\ UNCHANGED <<given, short, unseen, requests, faults>>

(* UPDATE user_keys SET prekey_count = n, by a statement whose snapshot    *)
(* counted n unused keys; since then the keys in handed were given out,    *)
(* and others were stored if more. There may be no row to update.          *)
SetCount(n, handed, more) ==
  /\ IF identity = NoInstall
       THEN short' = TRUE /\ UNCHANGED <<count, unseen>>
       ELSE count' = n /\ unseen' = handed /\ short' = more
  /\ UNCHANGED <<key, identity>>

(* This definition, and below LockKeyLoosely and DecrementAlone, are       *)
(* mutants: a definition after it with a plausible mistake, for checking   *)
(* that the properties notice. No other definition uses one.               *)
RecountStored(t) ==
  /\ task[t].at = "recount"
  /\ RowIsFree
  /\ SetCount(Cardinality(Stored), {}, FALSE)
  /\ Goto(t, "count")
  /\ UNCHANGED <<given, requests, faults>>

Recount(t) ==
  /\ task[t].at = "recount"
  /\ RowIsFree
  /\ SetCount(Cardinality(Unused), {}, FALSE)
  /\ Goto(t, "count")
  /\ UNCHANGED <<given, requests, faults>>

(* Somebody has locked the row: the statement waits, with its snapshot.    *)
RecountWaits(t) ==
  /\ task[t].at = "recount"
  /\ ~RowIsFree
  /\ task' = [task EXCEPT ![t].at = "waits",
                          ![t].stored = Stored, ![t].gone = Gone]
  /\ UNCHANGED <<keys, given, short, unseen, requests, faults>>

RecountAfterAll(t) ==
  LET k == task[t] IN
  /\ k.at = "waits"
  /\ RowIsFree
  /\ SetCount(Cardinality(k.stored \ k.gone), Gone \ k.gone,
              Stored # k.stored)
  /\ Goto(t, "count")
  /\ UNCHANGED <<given, requests, faults>>

-----------------------------------------------------------------------------
(***************************************************************************)
(* get_key_bundle. Blocks are rows that others write at any time: either   *)
(* of the two queries may refuse.                                          *)
(***************************************************************************)
IsBlocked(t) ==
  /\ \/ task[t].at = "blocked" /\ Goto(t, "blockedBy")
     \/ task[t].at = "blockedBy" /\ Goto(t, "lock")
     \/ task[t].at \in {"blocked", "blockedBy"} /\ Return(t)
  /\ UNCHANGED <<keys, given, short, unseen, requests, faults>>

LockKeyLoosely(t) ==
  /\ task[t].at = "lock"
  /\ \/ \E k \in Unused :
          /\ \A i \in Unused : key[k].serial <= key[i].serial
          /\ task' = [task EXCEPT ![t].at = "decrement", ![t].key = k]
     \/ Unused = {} /\ Goto(t, "return")
  /\ UNCHANGED <<keys, given, short, unseen, requests, faults>>

(* SELECT ... FOR UPDATE SKIP LOCKED, and the row is marked as consumed. *)
LockKey(t) ==
  LET open == Unused \ Locked IN
  /\ task[t].at = "lock"
  /\ \/ \E k \in open :
          /\ \A i \in open : key[k].serial <= key[i].serial
          /\ task' = [task EXCEPT ![t].at = "decrement", ![t].key = k]
     \/ open = {} /\ Goto(t, "return")
  /\ UNCHANGED <<keys, given, short, unseen, requests, faults>>

DecrementAlone(t) ==
  /\ task[t].at = "decrement"
  /\ RowIsFree
  /\ \A s \in Tasks \ {t} : task[s].key = NoKey
  /\ task' = [task EXCEPT ![t].at = "return",
                          ![t].row = identity # NoInstall,
                          ![t].n = IF count = 0 THEN 0 ELSE count - 1]
  /\ UNCHANGED <<keys, given, short, unseen, requests, faults>>

(* Without a row of user_keys there is nothing to update, or to lock. *)
Decrement(t) ==
  /\ task[t].at = "decrement"
  /\ RowIsFree
  /\ task' = [task EXCEPT ![t].at = "return",
                          ![t].row = identity # NoInstall,
                          ![t].n = IF count = 0 THEN 0 ELSE count - 1]
  /\ UNCHANGED <<keys, given, short, unseen, requests, faults>>

(* What the end of the transaction makes visible. *)
Commit(t) ==
  LET k == task[t] IN
  /\ k.at = "return"
  /\ key' = IF k.key = NoKey THEN key ELSE [key EXCEPT ![k.key].used = TRUE]
  /\ count' = IF k.row THEN k.n ELSE count
  /\ unseen' = IF k.row \/ k.key = NoKey THEN unseen ELSE unseen \cup {k.key}
  /\ UNCHANGED identity

(* RETURN QUERY: without a row of user_keys the answer is 404, and the key *)
(* that was consumed is lost.                                              *)
get_user_public_keys(t) ==
  LET k == task[t] IN
  /\ Commit(t)
  /\ given' = given \cup
       (IF k.key # NoKey /\ identity # NoInstall
          THEN {[key |-> k.key, to |-> k.user, install |-> key[k.key].install,
                 identity |-> identity]} ELSE {})
  /\ IF identity = NoInstall THEN Return(t)
     ELSE task' = [task EXCEPT ![t].at = "count", ![t].key = NoKey,
                               ![t].row = FALSE]
  /\ UNCHANGED <<short, requests, faults>>

(* get_prekey_count, at the end of every handler: the answer. *)
get_prekey_count(t) ==
  /\ task[t].at = "count"
  /\ Return(t)
  /\ UNCHANGED <<keys, given, short, unseen, requests, faults>>

-----------------------------------------------------------------------------
Fault == faults < MaxFaults /\ faults' = faults + 1

(* A query fails: a transaction is rolled back, and the handler gives up.  *)
QueryFails(t) ==
  /\ Fault
  /\ task[t].at # "idle"
  /\ Return(t)
  /\ short' = (short \/ task[t].at \in {"recount", "waits"})
  /\ UNCHANGED <<keys, given, unseen, requests>>

(* A statement took effect, and the handler does not learn of it. *)
ReplyLost(t) ==
  /\ Fault
  /\ \/ upsert_keys(t) /\ UNCHANGED <<short, unseen>>
     \/ InsertKeys(t) /\ short' = TRUE /\ UNCHANGED unseen
     \/ Commit(t) /\ UNCHANGED short
  /\ Return(t)
  /\ UNCHANGED <<given, requests>>

Crash ==
  /\ Fault
  /\ task' = [t \in Tasks |-> IdleTask]
  /\ short' =
       (short \/ \E t \in Tasks : task[t].at \in {"recount", "waits"})
  /\ UNCHANGED <<keys, given, unseen, requests>>

-----------------------------------------------------------------------------
Request(t) == upload_keys(t) \/ upload_prekeys(t) \/ get_key_bundle(t)

TaskStep(t) ==
  \/ Upsert(t) \/ add_one_time_prekeys(t)
  \/ Recount(t) \/ RecountWaits(t) \/ RecountAfterAll(t)
  \/ IsBlocked(t) \/ LockKey(t) \/ Decrement(t) \/ get_user_public_keys(t)
  \/ get_prekey_count(t)

Next ==
  \/ \E t \in Tasks :
       Request(t) \/ TaskStep(t) \/ QueryFails(t) \/ ReplyLost(t)
  \/ Crash

(* The runtime polls every task that can go on, and Postgres grants a lock *)
(* that is free.                                                           *)
Fairness == \A t \in Tasks : WF_vars(TaskStep(t))

Spec == Init /\ [][Next]_vars /\ Fairness

-----------------------------------------------------------------------------
(* Every variable keeps its type. *)
TypeOK ==
  /\ key \in [KeyIds -> Key]
  /\ identity \in Installs \cup {NoInstall}
  /\ count \in Nat
  /\ task \in [Tasks -> Task]
  /\ given \subseteq [key : KeyIds, to : Users,
                      install : Installs \cup {NoInstall},
                      identity : Installs]
  /\ short \in BOOLEAN
  /\ unseen \subseteq KeyIds
  /\ requests \in 0..MaxRequests
  /\ faults \in 0..MaxFaults

(* Handing out by select, two updates and a return implements the pool     *)
(* that hands out each key once, however bundles, uploads, failures and    *)
(* crashes interleave (get_user_public_keys, migration 011:103-108).       *)
Pool == INSTANCE KeyPool WITH
          Keys <- KeyIds, Takers <- Users,
          supplied <- Stored,
          gone <- Gone,
          taken <- {[key |-> g.key, to |-> g.to] : g \in given}

ImplementsPool == Pool!Spec

(* prekey_count is a second account of the unused keys, kept by counting   *)
(* after an upload and by subtracting at a bundle. Whatever overlaps or    *)
(* fails, it includes no more than the unused keys and those that were     *)
(* handed out while the last recount waited, or without a row to subtract  *)
(* from. With no request in flight it includes all unused keys, unless a   *)
(* failure left an upload uncounted, the row was not there, or another     *)
(* upload was stored while the last recount waited (keys.rs:73-87,         *)
(* migration 011:106).                                                     *)
CountIsRight ==
  /\ count <= Cardinality(Unused \cup unseen)
  /\ /\ \A t \in Tasks : task[t].at = "idle"
     /\ identity # NoInstall
     /\ ~short
     => Cardinality(Unused) <= count

(* Bundles wait for each other's locks, uploads for those of bundles: every*)
(* request is answered all the same (no circle of waiting, no lock left    *)
(* behind by a rollback).                                                  *)
RequestsEnd ==
  \A t \in Tasks : task[t].at # "idle" ~> task[t].at = "idle"

(* "Uploads or replaces the full key bundle for the authenticated user     *)
(* (identity key, signed pre-key, and one-time pre-keys)"                  *)
(* (API_USE_DOC.md:425): a bundle is of one installation. The code keeps   *)
(* the one-time keys that are stored and gives them out with the new       *)
(* identity.                                                               *)
BundleIsOfOneInstall == \A g \in given : g.install = g.identity
=============================================================================
