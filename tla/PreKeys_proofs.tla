--------------------------- MODULE PreKeys_proofs ---------------------------
(***************************************************************************)
(* Theorems about PreKeys, for any keys, users, batches and requests at    *)
(* once: it implements the pool that gives each key to one session at      *)
(* most. What makes it so is that a key which a bundle has locked is       *)
(* unused, and locked by that bundle alone, until its transaction ends.    *)
(* The count of the keys left, a second account of the same pool, is kept  *)
(* right by the lock of the row: nobody counts while a bundle that is to   *)
(* subtract holds it, and what a count that waited did not see is among    *)
(* what was handed out since its snapshot (AccountInv).                    *)
(***************************************************************************)
EXTENDS PreKeys, FiniteSetTheorems, TLAPS

-----------------------------------------------------------------------------
(* A bundle is asked for by a user, and what it has locked is unused. *)
Fits(t) ==
  /\ task[t].at \in BundleSteps => task[t].user \in Users
  /\ task[t].key # NoKey =>
       /\ task[t].at \in {"decrement", "return"}
       /\ task[t].key \in Unused

LockedByOne ==
  \A s, t \in Tasks :
    s # t /\ task[s].key = task[t].key => task[s].key = NoKey

GivenIsUsed == \A g \in given : g.key \in Stored /\ key[g.key].used

GivenOnce == \A g, h \in given : g.key = h.key => g = h

LockInv ==
  /\ \A t \in Tasks : Fits(t)
  /\ LockedByOne
  /\ GivenIsUsed
  /\ GivenOnce

IInv == TypeOK /\ LockInv

(* prekey_count, the second account. After an insert, and until the end of *)
(* the count that the same upload makes, it may be behind the keys.        *)
Counting == {"recount", "waits"}
Recounting == \E t \in Tasks : task[t].at \in Counting

Less == IF count = 0 THEN 0 ELSE count - 1

(* A bundle subtracts only when it has locked a key, and while it has the  *)
(* row locked what it is going to write is one less than what is there.    *)
Subtracts(t) ==
  /\ task[t].at = "decrement" => task[t].key # NoKey
  /\ task[t].row => /\ task[t].at = "return" /\ task[t].key # NoKey
                    /\ task[t].n = Less

RowOfOne == \A s, t \in Tasks : s # t => ~(task[s].row /\ task[t].row)

(* Keys are neither taken out of the table nor back from being consumed:   *)
(* the snapshot of a count that waits is one of less.                      *)
Saw(t) ==
  task[t].at = "waits" =>
    task[t].stored \subseteq Stored /\ task[t].gone \subseteq Gone

Bounded == count <= Cardinality(Unused \cup unseen)

Agrees == short \/ Recounting \/ Cardinality(Unused) <= count

AccountInv ==
  /\ \A t \in Tasks : Subtracts(t) /\ Saw(t)
  /\ RowOfOne
  /\ Bounded
  /\ Agrees

(* A request, or the end of one, leaves the pool as it is. *)
Mapped == {[key |-> g.key, to |-> g.to] : g \in given}

-----------------------------------------------------------------------------
(* What writes to the record of one request do. *)

LEMMA Moves ==
  ASSUME TypeOK, NEW t \in Tasks, NEW new \in Task,
         task' = [task EXCEPT ![t] = new]
  PROVE  /\ task' \in [Tasks -> Task]
         /\ \A s \in Tasks \ {t} : task'[s] = task[s]
         /\ task'[t] = new
BY DEF TypeOK

LEMMA IdleIsTask ==
  /\ IdleTask \in Task /\ IdleTask.at = "idle" /\ IdleTask.key = NoKey
  /\ ~IdleTask.row
<1> DEFINE new == [at |-> "idle", user |-> NoUser, install |-> NoInstall,
                   batch |-> <<>>, valid |-> TRUE, key |-> NoKey,
                   row |-> FALSE, n |-> 0, stored |-> {}, gone |-> {}]
<1>1. IdleTask = new
  BY DEF IdleTask, Handler
<1>2. new \in Task /\ new.at = "idle" /\ new.key = NoKey /\ ~new.row
  BY DEF Task, Steps
<1> QED
  BY <1>1, <1>2

LEMMA ReturnMoves ==
  ASSUME TypeOK, NEW t \in Tasks, Return(t)
  PROVE  /\ task' \in [Tasks -> Task]
         /\ \A s \in Tasks \ {t} : task'[s] = task[s]
         /\ task'[t].at = "idle" /\ task'[t].key = NoKey
         /\ ~task'[t].row
BY Moves, IdleIsTask DEF Return

LEMMA GotoMoves ==
  ASSUME TypeOK, NEW t \in Tasks, NEW step \in Steps, Goto(t, step)
  PROVE  /\ task' \in [Tasks -> Task]
         /\ \A s \in Tasks \ {t} : task'[s] = task[s]
         /\ task'[t].at = step
         /\ task'[t].user = task[t].user
         /\ task'[t].key = task[t].key
         /\ task'[t].row => task[t].row
<1> DEFINE new == [task[t] EXCEPT !.at = step]
<1>1. task[t] \in Task /\ task' = [task EXCEPT ![t] = new]
  BY DEF TypeOK, Goto
<1>2. /\ new \in Task /\ new.at = step /\ new.user = task[t].user
      /\ new.key = task[t].key
      /\ new.row => task[t].row
  BY <1>1 DEF Task
<1> HIDE DEF new
<1> QED
  BY <1>1, <1>2, Moves

LEMMA LockMoves ==
  ASSUME TypeOK, NEW t \in Tasks, NEW k \in KeyIds,
         task' = [task EXCEPT ![t].at = "decrement", ![t].key = k]
  PROVE  /\ task' \in [Tasks -> Task]
         /\ \A s \in Tasks \ {t} : task'[s] = task[s]
         /\ task'[t].at = "decrement"
         /\ task'[t].user = task[t].user
         /\ task'[t].key = k
         /\ task'[t].row => task[t].row
<1> DEFINE new == [task[t] EXCEPT !.at = "decrement", !.key = k]
<1>1. task[t] \in Task /\ task' = [task EXCEPT ![t] = new]
  BY DEF TypeOK
<1>2. /\ new \in Task /\ new.at = "decrement" /\ new.user = task[t].user
      /\ new.key = k
      /\ new.row => task[t].row
  BY <1>1 DEF Task, Steps, BundleSteps
<1> HIDE DEF new
<1> QED
  BY <1>1, <1>2, Moves

LEMMA DecrementMoves ==
  ASSUME TypeOK, NEW t \in Tasks, Decrement(t)
  PROVE  /\ task' \in [Tasks -> Task]
         /\ \A s \in Tasks \ {t} : task'[s] = task[s]
         /\ task'[t].at = "return"
         /\ task'[t].user = task[t].user
         /\ task'[t].key = task[t].key
         /\ task'[t].n = IF count = 0 THEN 0 ELSE count - 1
<1> DEFINE less == IF count = 0 THEN 0 ELSE count - 1
           row == identity # NoInstall
           new == [task[t] EXCEPT !.at = "return", !.row = row, !.n = less]
<1>1. task[t] \in Task /\ task' = [task EXCEPT ![t] = new]
  BY DEF TypeOK, Decrement
<1>2. less \in Nat
  BY DEF TypeOK
<1>3. row \in BOOLEAN
  OBVIOUS
<1> HIDE DEF less, row
<1>4. /\ new \in Task /\ new.at = "return" /\ new.user = task[t].user
      /\ new.key = task[t].key /\ new.n = less
  BY <1>1, <1>2, <1>3 DEF Task, Steps, BundleSteps
<1> HIDE DEF new
<1> QED
  BY <1>1, <1>4, Moves DEF less

LEMMA WaitMoves ==
  ASSUME TypeOK, NEW t \in Tasks, RecountWaits(t)
  PROVE  /\ task' \in [Tasks -> Task]
         /\ \A s \in Tasks \ {t} : task'[s] = task[s]
         /\ task'[t].at = "waits"
         /\ task'[t].key = task[t].key
         /\ task'[t].row => task[t].row
         /\ task'[t].stored = Stored /\ task'[t].gone = Gone
<1> DEFINE new == [task[t] EXCEPT !.at = "waits", !.stored = Stored,
                                  !.gone = Gone]
<1>1. task[t] \in Task /\ task' = [task EXCEPT ![t] = new]
  BY DEF TypeOK, RecountWaits
<1>2. Stored \in SUBSET KeyIds /\ Gone \in SUBSET KeyIds
  BY DEF Stored, Gone
<1>3. /\ new \in Task /\ new.at = "waits" /\ new.key = task[t].key
      /\ new.row => task[t].row
      /\ new.stored = Stored /\ new.gone = Gone
  BY <1>1, <1>2 DEF Task, Steps, UploadSteps
<1> HIDE DEF new
<1> QED
  BY <1>1, <1>3, Moves

LEMMA AnswerMoves ==
  ASSUME TypeOK, NEW t \in Tasks,
         task' = [task EXCEPT ![t].at = "count", ![t].key = NoKey,
                              ![t].row = FALSE]
  PROVE  /\ task' \in [Tasks -> Task]
         /\ \A s \in Tasks \ {t} : task'[s] = task[s]
         /\ task'[t].at = "count"
         /\ task'[t].key = NoKey
         /\ ~task'[t].row
<1> DEFINE new == [task[t] EXCEPT !.at = "count", !.key = NoKey, !.row = FALSE]
<1>1. task[t] \in Task /\ task' = [task EXCEPT ![t] = new]
  BY DEF TypeOK
<1>2. new \in Task /\ new.at = "count" /\ new.key = NoKey /\ ~new.row
  BY <1>1 DEF Task, Steps
<1> HIDE DEF new
<1> QED
  BY <1>1, <1>2, Moves

-----------------------------------------------------------------------------
(* What the statements do to the tables. *)

LEMMA Counted ==
  ASSUME NEW S \in SUBSET KeyIds
  PROVE  IsFiniteSet(S) /\ Cardinality(S) \in Nat
<1>1. IsFiniteSet(S)
  BY KeyIdsAreFinite, FS_Subset
<1> QED
  BY <1>1, FS_CardinalityType

LEMMA CountedInOrder ==
  ASSUME NEW T \in SUBSET KeyIds, NEW S \in SUBSET T
  PROVE  Cardinality(S) <= Cardinality(T)
BY Counted, FS_Subset

LEMMA OneLess ==
  ASSUME NEW S \in SUBSET KeyIds, NEW x \in S
  PROVE  Cardinality(S \ {x}) = Cardinality(S) - 1
<1>1. IsFiniteSet(S)
  BY Counted
<1> QED
  BY <1>1, FS_RemoveElement

LEMMA UnusedIsCounted ==
  /\ Unused \in SUBSET KeyIds /\ Stored \in SUBSET KeyIds
  /\ Cardinality(Unused) \in Nat /\ Cardinality(Stored) \in Nat
<1>1. Unused \in SUBSET KeyIds /\ Stored \in SUBSET KeyIds
  BY DEF Stored, Unused
<1> QED
  BY <1>1, Counted

LEMMA NewKeyIsKey ==
  ASSUME NEW i \in KeyIds, NEW k \in Task
  PROVE  NewKey(i, k) \in Key /\ NewKey(i, k).serial # 0
         /\ ~NewKey(i, k).used
<1>1. IsFiniteSet(Before(i, k.batch))
  BY KeyIdsAreFinite, FS_Subset DEF Before
<1>2. Cardinality(Before(i, k.batch)) \in Nat
  BY <1>1, FS_CardinalityType
<1> DEFINE n == Cardinality(Stored) + Cardinality(Before(i, k.batch)) + 1
<1>3. n \in Nat /\ n # 0
  BY <1>2, UnusedIsCounted
<1>4. NewKey(i, k) = [serial |-> n, install |-> k.install, used |-> FALSE]
  BY DEF NewKey
<1>5. k.install \in Installs \cup {NoInstall}
  BY DEF Task
<1> HIDE DEF n
<1> QED
  BY <1>3, <1>4, <1>5 DEF Key

(* An insert adds unused keys and leaves those that are stored alone. *)
LEMMA InsertAdds ==
  ASSUME TypeOK, NEW t \in Tasks, InsertKeys(t)
  PROVE  /\ key' \in [KeyIds -> Key]
         /\ Stored \subseteq Stored'
         /\ Unused \subseteq Unused'
         /\ Gone' = Gone
<1>1. \A i \in KeyIds :
        \/ key'[i] = key[i]
        \/ key[i].serial = 0 /\ key'[i] = NewKey(i, task[t])
  BY DEF InsertKeys
<1>a. task[t] \in Task
  BY DEF TypeOK
<1>2. \A i \in KeyIds :
        \/ key'[i] = key[i]
        \/ key[i].serial = 0 /\ key'[i].serial # 0 /\ ~key'[i].used
  BY <1>1, <1>a, NewKeyIsKey
<1>3. key' \in [KeyIds -> Key]
  <2>1. DOMAIN key' = KeyIds /\ key' = [i \in KeyIds |-> key'[i]]
    BY DEF InsertKeys
  <2>2. \A i \in KeyIds : key'[i] \in Key
    BY <1>1, NewKeyIsKey DEF TypeOK
  <2> QED
    BY <2>1, <2>2
<1> QED
  BY <1>2, <1>3 DEF Stored, Unused, Gone

(* The end of a bundle uses up the key it has locked, and no other. *)
LEMMA CommitUses ==
  ASSUME TypeOK, LockInv, NEW t \in Tasks, Commit(t)
  PROVE  /\ key' \in [KeyIds -> Key]
         /\ Stored' = Stored
         /\ Unused' = Unused \ {task[t].key}
         /\ task[t].key = NoKey => Gone' = Gone
         /\ task[t].key # NoKey => /\ task[t].key \in Stored \ Gone
                                   /\ Gone' = Gone \cup {task[t].key}
         /\ count' \in Nat
         /\ identity' = identity
         /\ unseen' \subseteq KeyIds
<1>1. count' \in Nat /\ identity' = identity
  BY DEF Commit, TypeOK, Task
<1>a. unseen' \subseteq KeyIds
  BY DEF Commit, TypeOK, Task
<1>2. CASE task[t].key = NoKey
  <2>1. key' = key /\ NoKey \notin Unused
    BY <1>2, NoKeyIsNoKey DEF Commit, Unused, Gone, Stored
  <2> QED
    BY <1>1, <1>a, <1>2, <2>1 DEF TypeOK, Stored, Unused, Gone
<1>3. CASE task[t].key # NoKey
  <2> DEFINE k == task[t].key
             used == [key[k] EXCEPT !.used = TRUE]
  <2>1. k \in Unused /\ k \in KeyIds /\ key[k] \in Key
    BY <1>3 DEF LockInv, Fits, Unused, Gone, Stored, TypeOK
  <2>2. key' = [key EXCEPT ![k] = used]
    BY <1>3 DEF Commit
  <2>3. used \in Key /\ used.used /\ used.serial = key[k].serial
    BY <2>1 DEF Key
  <2> HIDE DEF k, used
  <2>4. key' \in [KeyIds -> Key]
    BY <2>1, <2>2, <2>3 DEF TypeOK
  <2>5. /\ key'[k].used /\ key'[k].serial = key[k].serial
        /\ \A i \in KeyIds \ {k} : key'[i] = key[i]
    BY <2>1, <2>2, <2>3 DEF TypeOK
  <2>6. key[k].serial # 0 /\ ~key[k].used
    BY <2>1 DEF Unused, Gone, Stored
  <2>7. Stored' = Stored
    BY <2>1, <2>5 DEF Stored
  <2>8. Unused' = Unused \ {k} /\ Gone' = Gone \cup {k} /\ k \in Stored \ Gone
    BY <2>1, <2>5, <2>6 DEF Stored, Unused, Gone
  <2> QED
    BY <1>1, <1>a, <1>3, <2>4, <2>7, <2>8 DEF k
<1> QED
  BY <1>2, <1>3

-----------------------------------------------------------------------------
(* A step that moves one request keeps the invariant if the request fits   *)
(* afterwards and locks no key that another has locked, the keys that      *)
(* others have locked stay unused, and so do what was given.               *)
LEMMA LockStep ==
  ASSUME IInv, NEW t \in Tasks,
         \A s \in Tasks \ {t} : task'[s] = task[s],
         Fits(t)',
         task'[t].key \in {NoKey, task[t].key} \/ task'[t].key \notin Locked,
         \A s \in Tasks \ {t} : task[s].key \in Unused =>
           task[s].key \in Unused',
         GivenIsUsed', GivenOnce'
  PROVE  LockInv'
<1>1. ASSUME NEW s \in Tasks \ {t} PROVE Fits(s)'
  BY <1>1 DEF IInv, LockInv, Fits
<1>2. \A s \in Tasks \ {t} :
        task'[s].key = task'[t].key => task'[s].key = NoKey
  BY DEF IInv, LockInv, LockedByOne, Locked
<1>3. LockedByOne'
  BY <1>2 DEF IInv, LockInv, LockedByOne
<1> QED
  BY <1>1, <1>3 DEF LockInv

(* Most steps leave keys and bundles alone. *)
LEMMA QuietStep ==
  ASSUME IInv, NEW t \in Tasks,
         \A s \in Tasks \ {t} : task'[s] = task[s],
         task'[t].at \in BundleSteps => task'[t].user \in Users,
         \/ task'[t].key = NoKey
         \/ /\ task'[t].at \in {"decrement", "return"}
            /\ task'[t].key = task[t].key
         \/ /\ task'[t].at \in {"decrement", "return"}
            /\ task'[t].key \in Unused \ Locked,
         UNCHANGED <<key, given>>
  PROVE  LockInv'
<1>1. Unused' = Unused /\ Stored' = Stored
  BY DEF Unused, Gone, Stored
<1>2. Fits(t)'
  BY <1>1 DEF IInv, LockInv, Fits
<1>3. GivenIsUsed' /\ GivenOnce'
  BY <1>1 DEF IInv, LockInv, GivenIsUsed, GivenOnce
<1> QED
  BY <1>1, <1>2, <1>3, LockStep

-----------------------------------------------------------------------------
(* Every step keeps the invariant: first the types, then the locks. *)

LEMMA SpawnKeeps ==
  ASSUME IInv, NEW t \in Tasks,
         NEW at \in Steps, NEW u \in Users \cup {NoUser},
         NEW i \in Installs \cup {NoInstall},
         NEW batch \in Batches \cup {<<>>}, NEW valid \in BOOLEAN,
         at \in BundleSteps => u \in Users,
         Spawn(t, Handler(at, u, i, batch, valid))
  PROVE  IInv' /\ UNCHANGED <<key, given>>
<1> DEFINE new == [at |-> at, user |-> u, install |-> i, batch |-> batch,
                   valid |-> valid, key |-> NoKey, row |-> FALSE, n |-> 0,
                   stored |-> {}, gone |-> {}]
<1>a. /\ NoKey \in KeyIds \cup {NoKey} /\ 0 \in Nat /\ FALSE \in BOOLEAN
      /\ {} \in SUBSET KeyIds
  OBVIOUS
<1>1. new \in Task /\ new.at = at /\ new.user = u /\ new.key = NoKey
  BY <1>a DEF Task
<1>2. task' = [task EXCEPT ![t] = new] /\ TypeOK
  BY DEF Spawn, IInv, Handler
<1> HIDE DEF new
<1>3. /\ task' \in [Tasks -> Task]
      /\ \A s \in Tasks \ {t} : task'[s] = task[s]
      /\ task'[t] = new
  BY <1>1, <1>2, Moves
<1>4. /\ UNCHANGED <<key, identity, count, given, short, unseen, faults>>
      /\ requests' = requests + 1 /\ requests < MaxRequests
  BY DEF Spawn, keys
<1>5. TypeOK'
  BY <1>2, <1>3, <1>4, BoundsAreNaturals DEF TypeOK
<1>6. LockInv'
  BY <1>1, <1>3, <1>4, QuietStep
<1> QED
  BY <1>4, <1>5, <1>6 DEF IInv

(* A step of the request t that neither stores nor hands out a key. *)
LEMMA QuietKeeps ==
  ASSUME IInv, NEW t \in Tasks,
         task' \in [Tasks -> Task],
         \A s \in Tasks \ {t} : task'[s] = task[s],
         task'[t].at \in BundleSteps => task'[t].user \in Users,
         \/ task'[t].key = NoKey
         \/ /\ task'[t].at \in {"decrement", "return"}
            /\ task'[t].key = task[t].key
         \/ /\ task'[t].at \in {"decrement", "return"}
            /\ task'[t].key \in Unused \ Locked,
         UNCHANGED <<key, given, requests>>,
         identity' \in Installs \cup {NoInstall}, count' \in Nat,
         short' \in BOOLEAN, unseen' \subseteq KeyIds,
         faults' \in 0..MaxFaults
  PROVE  IInv' /\ UNCHANGED <<key, given>>
<1>1. TypeOK'
  BY DEF IInv, TypeOK
<1>2. LockInv'
  BY QuietStep
<1> QED
  BY <1>1, <1>2 DEF IInv

LEMMA RequestKeeps ==
  ASSUME IInv, NEW t \in Tasks, Request(t)
  PROVE  IInv' /\ UNCHANGED <<key, given>>
<1>0. /\ NoUser \in Users \cup {NoUser}
      /\ NoInstall \in Installs \cup {NoInstall}
      /\ <<>> \in Batches \cup {<<>>} /\ TRUE \in BOOLEAN
      /\ {"upsert", "insert", "blocked"} \subseteq Steps
      /\ "blocked" \in BundleSteps
      /\ "upsert" \notin BundleSteps /\ "insert" \notin BundleSteps
  BY DEF Steps, BundleSteps, UploadSteps
<1>1. CASE upload_keys(t)
  <2>1. PICK i \in Installs, batch \in Batches \cup {<<>>}, valid \in BOOLEAN :
          Spawn(t, Handler("upsert", NoUser, i, batch, valid))
    BY <1>1 DEF upload_keys
  <2> QED
    BY <1>0, <2>1, SpawnKeeps
<1>2. CASE upload_prekeys(t)
  <2>1. PICK i \in Installs, batch \in Batches :
          Spawn(t, Handler("insert", NoUser, i, batch, TRUE))
    BY <1>2 DEF upload_prekeys
  <2> QED
    BY <1>0, <2>1, SpawnKeeps
<1>3. CASE get_key_bundle(t)
  <2>1. PICK u \in Users :
          Spawn(t, Handler("blocked", u, NoInstall, <<>>, TRUE))
    BY <1>3 DEF get_key_bundle
  <2> QED
    BY <1>0, <2>1, SpawnKeeps
<1> QED
  BY <1>1, <1>2, <1>3 DEF Request

LEMMA UpsertKeeps ==
  ASSUME IInv, NEW t \in Tasks, Upsert(t)
  PROVE  IInv' /\ UNCHANGED <<key, given>>
<1>0. TypeOK /\ task[t] \in Task /\ task[t].at = "upsert"
  BY DEF IInv, TypeOK, Upsert, upsert_keys
<1>1. /\ task[t].key = NoKey
      /\ {"count", "insert"} \subseteq Steps
      /\ {"count", "insert", "idle"} \cap BundleSteps = {}
  BY <1>0 DEF IInv, LockInv, Fits, Steps, BundleSteps, UploadSteps
<1>2. /\ UNCHANGED <<key, given, requests, short, unseen, faults, count>>
      /\ identity' = task[t].install
  BY DEF Upsert, upsert_keys
<1>3. Goto(t, "count") \/ Return(t) \/ Goto(t, "insert")
  BY DEF Upsert
<1>4. /\ task' \in [Tasks -> Task]
      /\ \A s \in Tasks \ {t} : task'[s] = task[s]
      /\ task'[t].at \in {"count", "insert", "idle"}
      /\ task'[t].key = NoKey
  <2>1. CASE Return(t)
    BY <1>0, <2>1, ReturnMoves
  <2>2. CASE Goto(t, "count")
    BY <1>0, <1>1, <2>2, GotoMoves
  <2>3. CASE Goto(t, "insert")
    BY <1>0, <1>1, <2>3, GotoMoves
  <2> QED
    BY <1>3, <2>1, <2>2, <2>3
<1>5. /\ identity' \in Installs \cup {NoInstall}
      /\ count' \in Nat /\ short' \in BOOLEAN /\ faults' \in 0..MaxFaults
      /\ unseen' \subseteq KeyIds
  BY <1>0, <1>2 DEF TypeOK, Task
<1> QED
  BY <1>1, <1>2, <1>4, <1>5, QuietKeeps

LEMMA RecountKeeps ==
  ASSUME IInv, NEW t \in Tasks,
         Recount(t) \/ RecountWaits(t) \/ RecountAfterAll(t)
  PROVE  IInv' /\ UNCHANGED <<key, given>>
<1>0. /\ TypeOK /\ task[t] \in Task /\ task[t].at \in {"recount", "waits"}
      /\ UNCHANGED <<key, given, requests, faults, identity>>
  BY DEF IInv, TypeOK, Recount, RecountWaits, RecountAfterAll, SetCount, keys
<1>1. /\ task[t].key = NoKey
      /\ "count" \in Steps /\ {"count", "waits"} \cap BundleSteps = {}
  BY <1>0 DEF IInv, LockInv, Fits, Steps, BundleSteps
<1>2. count' \in Nat /\ short' \in BOOLEAN /\ unseen' \subseteq KeyIds
  <2>1. CASE Recount(t)
    BY <1>0, <2>1, UnusedIsCounted DEF Recount, SetCount, TypeOK
  <2>2. CASE RecountWaits(t)
    BY <1>0, <2>2 DEF RecountWaits, TypeOK, keys
  <2>3. CASE RecountAfterAll(t)
    <3>1. task[t].stored \ task[t].gone \in SUBSET KeyIds
      BY <1>0 DEF Task
    <3>2. Cardinality(task[t].stored \ task[t].gone) \in Nat
      BY <3>1, Counted
    <3>3. Gone \ task[t].gone \subseteq KeyIds
      BY DEF Gone, Stored
    <3> QED
      BY <1>0, <2>3, <3>2, <3>3 DEF RecountAfterAll, SetCount, TypeOK
  <2> QED
    BY <2>1, <2>2, <2>3
<1>3. /\ task' \in [Tasks -> Task]
      /\ \A s \in Tasks \ {t} : task'[s] = task[s]
      /\ task'[t].at \in {"count", "waits"}
      /\ task'[t].key = NoKey
  <2>1. CASE Goto(t, "count")
    BY <1>0, <1>1, <2>1, GotoMoves
  <2>2. CASE RecountWaits(t)
    BY <1>0, <1>1, <2>2, WaitMoves
  <2> QED
    BY <2>1, <2>2 DEF Recount, RecountAfterAll
<1>4. identity' \in Installs \cup {NoInstall} /\ faults' \in 0..MaxFaults
  BY <1>0 DEF TypeOK
<1> QED
  BY <1>0, <1>1, <1>2, <1>3, <1>4, QuietKeeps

LEMMA InsertKeeps ==
  ASSUME IInv, NEW t \in Tasks, InsertKeys(t),
         Goto(t, "recount") \/ Return(t),
         short' \in BOOLEAN, unseen' \subseteq KeyIds,
         faults' \in 0..MaxFaults,
         UNCHANGED <<given, requests>>
  PROVE  /\ IInv'
         /\ Stored \subseteq Stored' /\ Gone' = Gone /\ given' = given
<1>0. /\ TypeOK /\ task[t] \in Task /\ task[t].at = "insert"
      /\ UNCHANGED <<identity, count>>
  BY DEF IInv, TypeOK, InsertKeys
<1>1. /\ task[t].key = NoKey
      /\ "recount" \in Steps /\ {"recount", "idle"} \cap BundleSteps = {}
  BY <1>0 DEF IInv, LockInv, Fits, Steps, BundleSteps, UploadSteps
<1>2. /\ key' \in [KeyIds -> Key]
      /\ Stored \subseteq Stored'
      /\ Unused \subseteq Unused'
      /\ Gone' = Gone
  BY <1>0, InsertAdds
<1>3. /\ task' \in [Tasks -> Task]
      /\ \A s \in Tasks \ {t} : task'[s] = task[s]
      /\ task'[t].at \in {"recount", "idle"}
      /\ task'[t].key = NoKey
  <2>1. CASE Return(t)
    BY <1>0, <2>1, ReturnMoves
  <2>2. CASE Goto(t, "recount")
    BY <1>0, <1>1, <2>2, GotoMoves
  <2> QED
    BY <2>1, <2>2
<1>4. TypeOK'
  BY <1>0, <1>2, <1>3 DEF TypeOK
<1>5. Fits(t)'
  BY <1>1, <1>3 DEF Fits
<1>6. GivenIsUsed' /\ GivenOnce'
  <2>1. \A g \in given : g.key \in Gone
    BY DEF IInv, LockInv, GivenIsUsed, Gone, TypeOK
  <2>2. \A g \in given : g.key \in Gone'
    BY <1>2, <2>1
  <2> QED
    BY <2>2 DEF IInv, LockInv, GivenIsUsed, GivenOnce, Gone
<1>7. LockInv'
  BY <1>2, <1>3, <1>5, <1>6, LockStep
<1> QED
  BY <1>2, <1>4, <1>7 DEF IInv

(* The steps of a bundle before its transaction ends, and the last query. *)
LEMMA BundleKeeps ==
  ASSUME IInv, NEW t \in Tasks,
         IsBlocked(t) \/ LockKey(t) \/ Decrement(t) \/ get_prekey_count(t)
  PROVE  IInv' /\ UNCHANGED <<key, given>>
<1>0. TypeOK /\ task[t] \in Task /\ Fits(t)
  BY DEF IInv, TypeOK, LockInv
<1>1. UNCHANGED <<key, given, requests, identity, count, short, unseen,
                  faults>>
  BY DEF IsBlocked, LockKey, Decrement, get_prekey_count, keys
<1>2. /\ {"blockedBy", "lock", "return"} \subseteq Steps
      /\ {"blocked", "blockedBy", "lock", "decrement"} \subseteq BundleSteps
      /\ "idle" \notin BundleSteps
  BY DEF Steps, BundleSteps
<1>3. /\ identity' \in Installs \cup {NoInstall} /\ count' \in Nat
      /\ short' \in BOOLEAN /\ faults' \in 0..MaxFaults
      /\ unseen' \subseteq KeyIds
  BY <1>0, <1>1 DEF TypeOK
<1> DEFINE Fine ==
      /\ task' \in [Tasks -> Task]
      /\ \A s \in Tasks \ {t} : task'[s] = task[s]
      /\ task'[t].at \in BundleSteps => task'[t].user \in Users
      /\ \/ task'[t].key = NoKey
         \/ /\ task'[t].at \in {"decrement", "return"}
            /\ task'[t].key = task[t].key
         \/ /\ task'[t].at \in {"decrement", "return"}
            /\ task'[t].key \in Unused \ Locked
<1>4. ASSUME Return(t) PROVE Fine
  BY <1>0, <1>2, <1>4, ReturnMoves
<1>5. ASSUME NEW step \in {"blockedBy", "lock", "return"}, Goto(t, step),
             task[t].at \in {"blocked", "blockedBy", "lock"}
      PROVE  Fine
  <2>1. /\ task' \in [Tasks -> Task]
        /\ \A s \in Tasks \ {t} : task'[s] = task[s]
        /\ task'[t].user = task[t].user
        /\ task'[t].key = task[t].key
    BY <1>0, <1>2, <1>5, GotoMoves
  <2>2. task[t].user \in Users /\ task[t].key = NoKey
    BY <1>0, <1>2, <1>5 DEF Fits
  <2> QED
    BY <2>1, <2>2
<1>6. CASE IsBlocked(t)
  BY <1>1, <1>3, <1>4, <1>5, <1>6, QuietKeeps DEF IsBlocked
<1>7. CASE LockKey(t)
  <2>1. task[t].at = "lock"
    BY <1>7 DEF LockKey
  <2>2. CASE Goto(t, "return")
    BY <1>1, <1>3, <1>5, <2>1, <2>2, QuietKeeps
  <2>3. ASSUME NEW k \in Unused \ Locked,
               task' = [task EXCEPT ![t].at = "decrement", ![t].key = k]
        PROVE  Fine
    <3>1. k \in KeyIds /\ task[t].user \in Users
      BY <1>0, <1>2, <2>1, <2>3 DEF Unused, Gone, Stored, Fits
    <3> QED
      BY <1>0, <2>3, <3>1, LockMoves
  <2>4. Fine \/ Goto(t, "return")
    BY <1>7, <2>3 DEF LockKey
  <2> QED
    BY <1>1, <1>3, <2>2, <2>4, QuietKeeps
<1>8. CASE Decrement(t)
  <2>1. task[t].at = "decrement" /\ task[t].user \in Users
    BY <1>0, <1>2, <1>8 DEF Decrement, Fits
  <2>2. Fine
    BY <1>0, <1>8, <2>1, DecrementMoves
  <2> QED
    BY <1>1, <1>3, <2>2, QuietKeeps
<1>9. CASE get_prekey_count(t)
  <2>1. Fine
    BY <1>4, <1>9 DEF get_prekey_count
  <2> QED
    BY <1>1, <1>3, <2>1, QuietKeeps
<1> QED
  BY <1>6, <1>7, <1>8, <1>9

(* A bundle that hands out a key hands out one that nobody was given. *)
LEMMA AnswerKeeps ==
  ASSUME IInv, NEW t \in Tasks, get_user_public_keys(t)
  PROVE  /\ IInv'
         /\ Stored' = Stored
         /\ \/ Gone' = Gone /\ given' = given
            \/ /\ task[t].key \in Stored \ Gone
               /\ Gone' = Gone \cup {task[t].key}
               /\ \/ given' = given
                  \/ /\ task[t].user \in Users
                     /\ \E g : /\ given' = given \cup {g}
                               /\ g.key = task[t].key
                               /\ g.to = task[t].user
<1> DEFINE k == task[t]
           g == [key |-> k.key, to |-> k.user, install |-> key[k.key].install,
                 identity |-> identity]
           hands == k.key # NoKey /\ identity # NoInstall
<1>0. /\ TypeOK /\ LockInv /\ k \in Task /\ Commit(t) /\ k.at = "return"
      /\ UNCHANGED <<requests, faults>>
  BY DEF IInv, TypeOK, get_user_public_keys, Commit
<1>1. /\ key' \in [KeyIds -> Key]
      /\ Stored' = Stored
      /\ Unused' = Unused \ {k.key}
      /\ k.key = NoKey => Gone' = Gone
      /\ k.key # NoKey => /\ k.key \in Stored \ Gone
                          /\ Gone' = Gone \cup {k.key}
      /\ count' \in Nat
      /\ identity' = identity
      /\ unseen' \subseteq KeyIds
  BY <1>0, CommitUses
<1>2. given' = IF hands THEN given \cup {g} ELSE given
  BY DEF get_user_public_keys
<1>3. short' \in BOOLEAN
  BY <1>0 DEF get_user_public_keys, TypeOK
<1>4. /\ k.user \in Users
      /\ hands => /\ g.key = k.key /\ g.to = k.user
                  /\ g \in [key : KeyIds, to : Users,
                            install : Installs \cup {NoInstall},
                            identity : Installs]
  <2>1. k.user \in Users
    BY <1>0 DEF LockInv, Fits, BundleSteps
  <2>2. ASSUME hands PROVE g \in [key : KeyIds, to : Users,
                            install : Installs \cup {NoInstall},
                            identity : Installs]
    <3>1. k.key \in KeyIds
      BY <1>1, <2>2 DEF Stored
    <3>2. key[k.key].install \in Installs \cup {NoInstall}
      BY <1>0, <3>1 DEF TypeOK, Key
    <3>3. identity \in Installs
      BY <1>0, <2>2 DEF TypeOK
    <3> QED
      BY <2>1, <3>1, <3>2, <3>3
  <2> QED
    BY <2>1, <2>2
<1>5. /\ task' \in [Tasks -> Task]
      /\ \A s \in Tasks \ {t} : task'[s] = task[s]
      /\ task'[t].at \notin BundleSteps
      /\ task'[t].key = NoKey
  <2>1. CASE Return(t)
    BY <1>0, <2>1, ReturnMoves DEF BundleSteps
  <2>2. CASE task' = [task EXCEPT ![t].at = "count", ![t].key = NoKey,
                                  ![t].row = FALSE]
    BY <1>0, <2>2, AnswerMoves DEF BundleSteps
  <2> QED
    BY <2>1, <2>2 DEF get_user_public_keys
<1> HIDE DEF k, g
<1>6. TypeOK'
  BY <1>0, <1>1, <1>2, <1>3, <1>4, <1>5 DEF TypeOK
<1>7. GivenIsUsed'
  <2>1. \A h \in given : h.key \in Gone
    BY <1>0 DEF LockInv, GivenIsUsed, Gone
  <2>2. \A h \in given' : h.key \in Gone'
    BY <1>1, <1>2, <1>4, <2>1
  <2> QED
    BY <2>2 DEF GivenIsUsed, Gone
<1>8. GivenOnce'
  <2>1. \A h \in given : h.key \in Gone
    BY <1>0 DEF LockInv, GivenIsUsed, Gone
  <2>2. hands => \A h \in given : h.key # g.key
    BY <1>1, <1>4, <2>1
  <2> QED
    BY <1>0, <1>2, <2>2 DEF LockInv, GivenOnce
<1>9. LockInv'
  <2>1. Fits(t)'
    BY <1>5 DEF Fits
  <2>2. \A s \in Tasks \ {t} : task[s].key \in Unused =>
          task[s].key \in Unused'
    <3> SUFFICES ASSUME NEW s \in Tasks \ {t}, task[s].key \in Unused
                 PROVE  task[s].key # k.key
      BY <1>1
    <3>1. task[s].key # NoKey
      BY NoKeyIsNoKey DEF Unused, Gone, Stored
    <3> QED
      BY <1>0, <3>1 DEF LockInv, LockedByOne, k
  <2> QED
    BY <1>5, <1>7, <1>8, <2>1, <2>2, LockStep
<1> QED
  BY <1>0, <1>1, <1>2, <1>4, <1>6, <1>9 DEF IInv, k

(* A transaction that ended, and whose answer is lost, loses the key. *)
LEMMA LostCommitKeeps ==
  ASSUME IInv, NEW t \in Tasks, Commit(t), Return(t),
         short' \in BOOLEAN, faults' \in 0..MaxFaults,
         UNCHANGED <<given, requests>>
  PROVE  /\ IInv'
         /\ Stored' = Stored /\ given' = given
         /\ \/ Gone' = Gone
            \/ /\ task[t].key \in Stored \ Gone
               /\ Gone' = Gone \cup {task[t].key}
<1>0. TypeOK /\ LockInv
  BY DEF IInv
<1>1. /\ key' \in [KeyIds -> Key]
      /\ Stored' = Stored
      /\ Unused' = Unused \ {task[t].key}
      /\ task[t].key = NoKey => Gone' = Gone
      /\ task[t].key # NoKey => /\ task[t].key \in Stored \ Gone
                                /\ Gone' = Gone \cup {task[t].key}
      /\ count' \in Nat
      /\ identity' = identity
      /\ unseen' \subseteq KeyIds
  BY <1>0, CommitUses
<1>2. /\ task' \in [Tasks -> Task]
      /\ \A s \in Tasks \ {t} : task'[s] = task[s]
      /\ task'[t].at = "idle" /\ task'[t].key = NoKey
  BY <1>0, ReturnMoves
<1>3. TypeOK'
  BY <1>0, <1>1, <1>2 DEF TypeOK
<1>4. Fits(t)'
  BY <1>2 DEF Fits, BundleSteps
<1>5. GivenIsUsed' /\ GivenOnce'
  <2>1. \A h \in given : h.key \in Gone
    BY <1>0 DEF LockInv, GivenIsUsed, Gone
  <2>2. \A h \in given' : h.key \in Gone'
    BY <1>1, <2>1
  <2> QED
    BY <1>0, <2>2 DEF LockInv, GivenIsUsed, GivenOnce, Gone
<1>6. \A s \in Tasks \ {t} : task[s].key \in Unused =>
        task[s].key \in Unused'
  <2> SUFFICES ASSUME NEW s \in Tasks \ {t}, task[s].key \in Unused
               PROVE  task[s].key # task[t].key
    BY <1>1
  <2>1. task[s].key # NoKey
    BY NoKeyIsNoKey DEF Unused, Gone, Stored
  <2> QED
    BY <1>0, <2>1 DEF LockInv, LockedByOne
<1>7. LockInv'
  BY <1>2, <1>4, <1>5, <1>6, LockStep
<1> QED
  BY <1>1, <1>3, <1>7 DEF IInv

LEMMA FaultCounts ==
  ASSUME IInv, Fault
  PROVE  faults' \in 0..MaxFaults
BY BoundsAreNaturals DEF IInv, TypeOK, Fault

LEMMA QueryFailsKeeps ==
  ASSUME IInv, NEW t \in Tasks, QueryFails(t)
  PROVE  IInv' /\ UNCHANGED <<key, given>>
<1>1. /\ task' \in [Tasks -> Task]
      /\ \A s \in Tasks \ {t} : task'[s] = task[s]
      /\ task'[t].at = "idle" /\ task'[t].key = NoKey
  BY ReturnMoves DEF QueryFails, IInv
<1>2. /\ UNCHANGED <<key, given, requests, identity, count, unseen>>
      /\ short' \in BOOLEAN
  BY DEF QueryFails, keys, IInv, TypeOK
<1>3. /\ identity' \in Installs \cup {NoInstall} /\ count' \in Nat
      /\ unseen' \subseteq KeyIds
  BY <1>2 DEF IInv, TypeOK
<1> QED
  BY <1>1, <1>2, <1>3, FaultCounts, QuietKeeps DEF QueryFails, BundleSteps

LEMMA CrashKeeps ==
  ASSUME IInv, Crash
  PROVE  IInv' /\ UNCHANGED <<key, given>>
<1>1. /\ UNCHANGED <<key, given, requests, identity, count, unseen>>
      /\ short' \in BOOLEAN
      /\ task' = [t \in Tasks |-> IdleTask]
      /\ faults' \in 0..MaxFaults
  BY FaultCounts DEF Crash, keys, IInv, TypeOK
<1>2. \A t \in Tasks : task'[t].at = "idle" /\ task'[t].key = NoKey
  BY <1>1, IdleIsTask
<1>3. TypeOK'
  BY <1>1, IdleIsTask DEF IInv, TypeOK
<1>4. LockInv'
  BY <1>1, <1>2 DEF IInv, LockInv, Fits, BundleSteps, LockedByOne,
                    GivenIsUsed, GivenOnce, Stored
<1> QED
  BY <1>1, <1>3, <1>4 DEF IInv

-----------------------------------------------------------------------------
(* The pool sees a step as one of its own, or does not see it. *)

PoolStep == [Pool!Next]_(Pool!pool)

LEMMA QuietInPool ==
  ASSUME UNCHANGED <<key, given>>
  PROVE  PoolStep
BY DEF PoolStep, Pool!pool, Gone, Stored

LEMMA SupplyInPool ==
  ASSUME key' \in [KeyIds -> Key], Stored \subseteq Stored', Gone' = Gone,
         given' = given
  PROVE  PoolStep
<1>1. Stored' \in SUBSET KeyIds /\ Stored' = Stored \cup Stored'
  BY DEF Stored
<1>2. Pool!Supply(Stored')
  BY <1>1 DEF Pool!Supply, Gone
<1> QED
  BY <1>1, <1>2 DEF PoolStep, Pool!Next

LEMMA LoseInPool ==
  ASSUME NEW k \in Stored \ Gone, Stored' = Stored,
         Gone' = Gone \cup {k}, given' = given
  PROVE  PoolStep
<1>1. Pool!Lose(k) /\ k \in KeyIds
  BY DEF Pool!Lose, Gone, Stored
<1> QED
  BY <1>1 DEF PoolStep, Pool!Next

LEMMA TakeInPool ==
  ASSUME NEW k \in Stored \ Gone, NEW u \in Users, Stored' = Stored,
         Gone' = Gone \cup {k},
         NEW g, given' = given \cup {g}, g.key = k, g.to = u
  PROVE  PoolStep
<1>1. Mapped' = Mapped \cup {[key |-> k, to |-> u]}
  BY DEF Mapped
<1>2. Pool!Take(k, u) /\ k \in KeyIds
  BY <1>1 DEF Pool!Take, Gone, Stored, Mapped
<1> QED
  BY <1>2 DEF PoolStep, Pool!Next

LEMMA NothingInPool ==
  ASSUME Stored' = Stored, Gone' = Gone, given' = given
  PROVE  PoolStep
BY DEF PoolStep, Pool!pool, Gone

-----------------------------------------------------------------------------
LEMMA Step ==
  ASSUME IInv, [Next]_vars
  PROVE  IInv' /\ PoolStep
<1>1. CASE UNCHANGED vars
  <2>1. UNCHANGED <<key, identity, count, task, given, short, unseen,
                    requests, faults>>
    BY <1>1 DEF vars, keys
  <2>2. TypeOK'
    BY <2>1 DEF IInv, TypeOK
  <2>3. LockInv'
    BY <2>1 DEF IInv, LockInv, Fits, LockedByOne, GivenIsUsed, GivenOnce,
                Unused, Gone, Stored
  <2> QED
    BY <2>1, <2>2, <2>3, QuietInPool DEF IInv
<1>2. CASE Crash
  BY <1>2, CrashKeeps, QuietInPool
<1>3. ASSUME NEW t \in Tasks, Request(t)
      PROVE  IInv' /\ PoolStep
  BY <1>3, RequestKeeps, QuietInPool
<1>4. ASSUME NEW t \in Tasks, TaskStep(t)
      PROVE  IInv' /\ PoolStep
  <2>1. CASE Upsert(t)
    BY <2>1, UpsertKeeps, QuietInPool
  <2>2. CASE add_one_time_prekeys(t)
    <3>1. /\ InsertKeys(t) /\ Goto(t, "recount")
          /\ UNCHANGED <<given, short, unseen, requests, faults>>
      BY <2>2 DEF add_one_time_prekeys
    <3>2. /\ short' \in BOOLEAN /\ unseen' \subseteq KeyIds
          /\ faults' \in 0..MaxFaults
      BY <3>1 DEF IInv, TypeOK
    <3>3. /\ IInv' /\ Stored \subseteq Stored' /\ Gone' = Gone
          /\ given' = given
      BY <3>1, <3>2, InsertKeeps
    <3>4. key' \in [KeyIds -> Key]
      BY <3>3 DEF IInv, TypeOK
    <3> QED
      BY <3>3, <3>4, SupplyInPool
  <2>3. CASE Recount(t) \/ RecountWaits(t) \/ RecountAfterAll(t)
    BY <2>3, RecountKeeps, QuietInPool
  <2>4. CASE IsBlocked(t) \/ LockKey(t) \/ Decrement(t) \/ get_prekey_count(t)
    BY <2>4, BundleKeeps, QuietInPool
  <2>5. CASE get_user_public_keys(t)
    BY <2>5, AnswerKeeps, NothingInPool, LoseInPool, TakeInPool
  <2> QED
    BY <1>4, <2>1, <2>2, <2>3, <2>4, <2>5 DEF TaskStep
<1>5. ASSUME NEW t \in Tasks, QueryFails(t)
      PROVE  IInv' /\ PoolStep
  BY <1>5, QueryFailsKeeps, QuietInPool
<1>6. ASSUME NEW t \in Tasks, ReplyLost(t)
      PROVE  IInv' /\ PoolStep
  <2>1. /\ Return(t) /\ UNCHANGED <<given, requests>>
        /\ short' \in BOOLEAN /\ faults' \in 0..MaxFaults
    BY <1>6, FaultCounts DEF ReplyLost, IInv, TypeOK
  <2>2. CASE upsert_keys(t) /\ UNCHANGED unseen
    <3>1. /\ task' \in [Tasks -> Task]
          /\ \A s \in Tasks \ {t} : task'[s] = task[s]
          /\ task'[t].at = "idle" /\ task'[t].key = NoKey
      BY <2>1, ReturnMoves DEF IInv
    <3>2. /\ UNCHANGED <<key, count, unseen>> /\ task[t] \in Task
          /\ identity' = task[t].install
      BY <2>2 DEF upsert_keys, IInv, TypeOK
    <3>3. /\ identity' \in Installs \cup {NoInstall} /\ count' \in Nat
          /\ unseen' \subseteq KeyIds
      BY <3>2 DEF IInv, TypeOK, Task
    <3>4. task'[t].at \notin BundleSteps
      BY <3>1 DEF BundleSteps
    <3>5. IInv' /\ UNCHANGED <<key, given>>
      BY <2>1, <3>1, <3>2, <3>3, <3>4, QuietKeeps
    <3> QED
      BY <3>5, QuietInPool
  <2>3. CASE InsertKeys(t) /\ UNCHANGED unseen
    <3>1. unseen' \subseteq KeyIds
      BY <2>3 DEF IInv, TypeOK
    <3>2. /\ IInv' /\ Stored \subseteq Stored' /\ Gone' = Gone
          /\ given' = given
      BY <2>1, <2>3, <3>1, InsertKeeps
    <3>3. key' \in [KeyIds -> Key]
      BY <3>2 DEF IInv, TypeOK
    <3> QED
      BY <3>2, <3>3, SupplyInPool
  <2>4. CASE Commit(t)
    BY <2>1, <2>4, LostCommitKeeps, NothingInPool, LoseInPool
  <2> QED
    BY <1>6, <2>2, <2>3, <2>4 DEF ReplyLost
<1> QED
  BY <1>1, <1>2, <1>3, <1>4, <1>5, <1>6 DEF Next

LEMMA Start == ASSUME Init PROVE IInv /\ Pool!Init
<1>1. /\ key = [k \in KeyIds |-> AbsentKey] /\ given = {}
      /\ task = [t \in Tasks |-> IdleTask]
      /\ identity = NoInstall /\ count = 0 /\ short = FALSE /\ unseen = {}
      /\ requests = 0 /\ faults = 0
  BY DEF Init
<1>2. AbsentKey \in Key /\ AbsentKey.serial = 0
  BY DEF AbsentKey, Key
<1>3. TypeOK
  <2>1. key \in [KeyIds -> Key] /\ task \in [Tasks -> Task]
    BY <1>1, <1>2, IdleIsTask
  <2>a. short \in BOOLEAN
    BY <1>1, Zenon
  <2>2. /\ count \in Nat /\ unseen \subseteq KeyIds
        /\ identity \in Installs \cup {NoInstall}
        /\ requests \in 0..MaxRequests /\ faults \in 0..MaxFaults
    BY <1>1, BoundsAreNaturals
  <2>3. given \subseteq [key : KeyIds, to : Users,
                         install : Installs \cup {NoInstall},
                         identity : Installs]
    BY <1>1
  <2> QED
    BY <2>1, <2>a, <2>2, <2>3, Zenon DEF TypeOK
<1>4. \A t \in Tasks : task[t].at = "idle" /\ task[t].key = NoKey
  BY <1>1, IdleIsTask
<1>5. LockInv
  BY <1>1, <1>4 DEF LockInv, Fits, BundleSteps, LockedByOne, GivenIsUsed,
                    GivenOnce
<1>6. Stored = {}
  BY <1>1, <1>2 DEF Stored
<1>7. Pool!Init
  BY <1>1, <1>6 DEF Pool!Init, Gone
<1> QED
  BY <1>3, <1>5, <1>7 DEF IInv

-----------------------------------------------------------------------------
(* The count of the keys. A step leaves the account in order if the        *)
(* request has no lock on the row afterwards, the count is left alone or   *)
(* nobody else has the row locked, and the count stays between its bounds. *)
LEMMA AccountStep ==
  ASSUME AccountInv, NEW t \in Tasks,
         \A s \in Tasks \ {t} : task'[s] = task[s],
         task'[t].at = "decrement" => task'[t].key # NoKey,
         ~task'[t].row,
         task'[t].at # "waits" \/ Saw(t)',
         Stored \subseteq Stored', Gone \subseteq Gone',
         count' = count \/ \A s \in Tasks \ {t} : ~task[s].row,
         Bounded', Agrees'
  PROVE  AccountInv'
<1>1. ASSUME NEW s \in Tasks PROVE Subtracts(s)'
  <2>1. CASE s = t
    BY <2>1 DEF Subtracts
  <2>2. CASE s # t
    <3>1. task'[s] = task[s] /\ Subtracts(s)
      BY <2>2 DEF AccountInv
    <3>2. CASE ~task[s].row
      BY <3>1, <3>2 DEF Subtracts
    <3>3. CASE task[s].row
      <4>1. Less' = Less
        BY <2>2, <3>3 DEF Less
      <4> QED
        BY <3>1, <4>1 DEF Subtracts
    <3> QED
      BY <3>2, <3>3
  <2> QED
    BY <2>1, <2>2
<1>2. ASSUME NEW s \in Tasks PROVE Saw(s)'
  <2>1. CASE s = t
    BY <2>1 DEF Saw
  <2>2. CASE s # t
    BY <2>2 DEF AccountInv, Saw
  <2> QED
    BY <2>1, <2>2
<1>3. RowOfOne'
  BY DEF AccountInv, RowOfOne
<1> QED
  BY <1>1, <1>2, <1>3 DEF AccountInv

(* Most steps touch neither the keys nor the count.                        *)
LEMMA QuietAccount ==
  ASSUME AccountInv, NEW t \in Tasks,
         \A s \in Tasks \ {t} : task'[s] = task[s],
         UNCHANGED <<key, count, unseen>>,
         short => short',
         task[t].at \in Counting => task'[t].at \in Counting \/ short',
         task'[t].at = "decrement" => task'[t].key # NoKey,
         task'[t].at # "waits" \/ Saw(t)',
         task'[t].row => task[t].row /\ task[t].at # "return"
  PROVE  AccountInv'
<1>1. ~task'[t].row
  BY DEF AccountInv, Subtracts
<1>2. Stored' = Stored /\ Gone' = Gone /\ Unused' = Unused
  BY DEF Unused, Gone, Stored
<1>3. Bounded'
  BY <1>2 DEF AccountInv, Bounded
<1>4. Agrees'
  <2>1. Recounting => Recounting' \/ short'
    BY DEF Recounting
  <2> QED
    BY <1>2, <2>1 DEF AccountInv, Agrees
<1> QED
  BY <1>1, <1>2, <1>3, <1>4, AccountStep

LEMMA RequestAccounts ==
  ASSUME IInv, AccountInv, NEW t \in Tasks, Request(t)
  PROVE  AccountInv'
<1>1. ASSUME NEW at \in {"upsert", "insert", "blocked"}, NEW u, NEW i,
             NEW batch, NEW valid, Spawn(t, Handler(at, u, i, batch, valid))
      PROVE  AccountInv'
  <2> DEFINE new == [at |-> at, user |-> u, install |-> i, batch |-> batch,
                     valid |-> valid, key |-> NoKey, row |-> FALSE, n |-> 0,
                     stored |-> {}, gone |-> {}]
  <2>1. /\ task' = [task EXCEPT ![t] = new] /\ DOMAIN task = Tasks
        /\ UNCHANGED <<key, count, short, unseen>> /\ task[t].at = "idle"
    BY <1>1 DEF Spawn, Handler, keys, IInv, TypeOK
  <2>2. new.at = at /\ ~new.row
    OBVIOUS
  <2> HIDE DEF new
  <2>3. task'[t] = new /\ \A s \in Tasks \ {t} : task'[s] = task[s]
    BY <2>1
  <2> QED
    BY <2>1, <2>2, <2>3, QuietAccount DEF Counting
<1> QED
  BY <1>1 DEF Request, upload_keys, upload_prekeys, get_key_bundle

LEMMA UpsertAccounts ==
  ASSUME IInv, AccountInv, NEW t \in Tasks, Upsert(t)
  PROVE  AccountInv'
<1>1. /\ task[t].at = "upsert" /\ UNCHANGED <<key, count, short, unseen>>
      /\ Return(t) \/ \E step \in {"count", "insert"} : Goto(t, step)
  BY DEF Upsert, upsert_keys
<1>2. /\ \A s \in Tasks \ {t} : task'[s] = task[s]
      /\ task'[t].at \notin {"decrement", "waits"}
      /\ task'[t].row => task[t].row
  <2>1. {"count", "insert"} \subseteq Steps
    BY DEF Steps, UploadSteps
  <2> QED
    BY <1>1, <2>1, ReturnMoves, GotoMoves DEF IInv
<1> QED
  BY <1>1, <1>2, QuietAccount DEF Counting

(* What was inserted is to be counted, or the account is known to be off.  *)
LEMMA InsertAccounts ==
  ASSUME IInv, AccountInv, NEW t \in Tasks, InsertKeys(t),
         UNCHANGED unseen,
         \A s \in Tasks \ {t} : task'[s] = task[s],
         task'[t].at \notin {"decrement", "waits"},
         task'[t].row => task[t].row,
         task'[t].at \in Counting \/ short'
  PROVE  AccountInv'
<1>1. /\ count' = count /\ task[t].at = "insert" /\ TypeOK /\ Bounded
      /\ Stored \subseteq Stored' /\ Unused \subseteq Unused'
      /\ Gone' = Gone
  BY InsertAdds DEF InsertKeys, IInv, AccountInv
<1>2. ~task'[t].row
  BY <1>1 DEF AccountInv, Subtracts
<1>3. Agrees'
  BY DEF Agrees, Recounting
<1>4. Bounded'
  <2>1. /\ Unused \cup unseen \in SUBSET (Unused' \cup unseen')
        /\ Unused' \cup unseen' \in SUBSET KeyIds
        /\ Unused \cup unseen \in SUBSET KeyIds
    BY <1>1 DEF TypeOK, Unused, Stored
  <2>2. Cardinality(Unused \cup unseen) <= Cardinality(Unused' \cup unseen')
    BY <2>1, CountedInOrder
  <2>3. /\ Cardinality(Unused \cup unseen) \in Nat
        /\ Cardinality(Unused' \cup unseen') \in Nat
    BY <2>1, Counted
  <2>4. count \in Nat
    BY <1>1 DEF TypeOK
  <2> QED
    BY <1>1, <2>2, <2>3, <2>4 DEF Bounded
<1> QED
  BY <1>1, <1>2, <1>3, <1>4, AccountStep

(* A count that waited includes the unused keys but for those stored since *)
(* its snapshot, and apart from them only keys handed out since.           *)
LEMMA SnapshotCounts ==
  ASSUME IInv, NEW t \in Tasks, Saw(t), task[t].at = "waits"
  PROVE  LET k == task[t]
             n == Cardinality(k.stored \ k.gone)
         IN  /\ n <= Cardinality(Unused \cup (Gone \ k.gone))
             /\ Stored = k.stored => Cardinality(Unused) <= n
<1> DEFINE k == task[t]
<1>1. k.stored \subseteq Stored /\ k.gone \subseteq Gone
  BY DEF Saw
<1>2. /\ Stored \in SUBSET KeyIds /\ Gone \in SUBSET KeyIds
      /\ Unused = Stored \ Gone
  BY DEF Stored, Gone, Unused
<1> HIDE DEF k
<1>3. Cardinality(k.stored \ k.gone)
        <= Cardinality(Unused \cup (Gone \ k.gone))
  <2>1. /\ k.stored \ k.gone \in SUBSET (Unused \cup (Gone \ k.gone))
        /\ Unused \cup (Gone \ k.gone) \in SUBSET KeyIds
    BY <1>1, <1>2
  <2> QED
    BY <2>1, CountedInOrder
<1>4. Stored = k.stored =>
        Cardinality(Unused) <= Cardinality(k.stored \ k.gone)
  <2> SUFFICES ASSUME Stored = k.stored
               PROVE  Cardinality(Unused) <= Cardinality(k.stored \ k.gone)
    OBVIOUS
  <2>1. /\ Unused \in SUBSET (k.stored \ k.gone)
        /\ k.stored \ k.gone \in SUBSET KeyIds
    BY <1>1, <1>2
  <2> QED
    BY <2>1, CountedInOrder
<1> QED
  BY <1>3, <1>4 DEF k

(* With the row locked by nobody, nobody is about to write an older count. *)
LEMMA RecountAccounts ==
  ASSUME IInv, AccountInv, NEW t \in Tasks,
         Recount(t) \/ RecountWaits(t) \/ RecountAfterAll(t)
  PROVE  AccountInv'
<1>0. /\ TypeOK /\ {"count", "waits"} \subseteq Steps
      /\ Bounded /\ Agrees /\ Saw(t)
  BY DEF IInv, Steps, UploadSteps, AccountInv
<1>1. CASE RecountWaits(t)
  <2>1. task[t].at = "recount" /\ UNCHANGED <<key, count, short, unseen>>
    BY <1>1 DEF RecountWaits, keys
  <2>2. /\ \A s \in Tasks \ {t} : task'[s] = task[s]
        /\ task'[t].at = "waits"
        /\ task'[t].row => task[t].row
        /\ task'[t].stored = Stored /\ task'[t].gone = Gone
    BY <1>0, <1>1, WaitMoves
  <2>3. Stored' = Stored /\ Gone' = Gone
    BY <2>1 DEF Stored, Gone
  <2>4. Saw(t)'
    BY <2>2, <2>3 DEF Saw
  <2> QED
    BY <2>1, <2>2, <2>4, QuietAccount DEF Counting
<1>2. CASE Recount(t) \/ RecountAfterAll(t)
  <2>1. /\ RowIsFree /\ Goto(t, "count") /\ key' = key
        /\ task[t].at \in Counting
    BY <1>2 DEF Recount, RecountAfterAll, SetCount, Counting
  <2>2. /\ \A s \in Tasks \ {t} : task'[s] = task[s]
        /\ task'[t].at = "count"
        /\ task'[t].row => task[t].row
    BY <1>0, <2>1, GotoMoves
  <2>3. Stored' = Stored /\ Gone' = Gone /\ Unused' = Unused
    BY <2>1 DEF Unused, Gone, Stored
  <2>4. ~task'[t].row /\ \A s \in Tasks \ {t} : ~task[s].row
    BY <2>1, <2>2 DEF RowIsFree
  <2>5. Bounded' /\ Agrees'
    <3>1. CASE identity = NoInstall
      <4>1. short' = TRUE /\ UNCHANGED <<count, unseen>>
        BY <1>2, <3>1 DEF Recount, RecountAfterAll, SetCount
      <4> QED
        BY <1>0, <2>3, <4>1 DEF Bounded, Agrees
    <3>2. CASE identity # NoInstall /\ Recount(t)
      <4>1. count' = Cardinality(Unused) /\ unseen' = {}
        BY <3>2 DEF Recount, SetCount
      <4>2. Unused \cup {} = Unused /\ Cardinality(Unused) \in Nat
        BY UnusedIsCounted
      <4> QED
        BY <2>3, <4>1, <4>2 DEF Bounded, Agrees
    <3>3. CASE identity # NoInstall /\ RecountAfterAll(t)
      <4>1. /\ count' = Cardinality(task[t].stored \ task[t].gone)
            /\ unseen' = Gone \ task[t].gone
            /\ short' = (Stored # task[t].stored)
            /\ task[t].at = "waits"
        BY <3>3 DEF RecountAfterAll, SetCount
      <4>2. /\ count' <= Cardinality(Unused \cup unseen')
            /\ Stored = task[t].stored => Cardinality(Unused) <= count'
        BY <1>0, <4>1, SnapshotCounts
      <4>3. Bounded'
        BY <2>3, <4>2 DEF Bounded
      <4>4. Agrees'
        BY <2>3, <4>1, <4>2 DEF Agrees
      <4> QED
        BY <4>3, <4>4
    <3> QED
      BY <1>2, <3>1, <3>2, <3>3
  <2> QED
    BY <2>2, <2>3, <2>4, <2>5, AccountStep
<1> QED
  BY <1>1, <1>2

LEMMA DecrementAccounts ==
  ASSUME IInv, AccountInv, NEW t \in Tasks, Decrement(t)
  PROVE  AccountInv'
<1>1. /\ task[t].at = "decrement" /\ RowIsFree
      /\ UNCHANGED <<key, count, short, unseen>>
  BY DEF Decrement, keys
<1>2. /\ \A s \in Tasks \ {t} : task'[s] = task[s]
      /\ task'[t].at = "return" /\ task'[t].key = task[t].key
      /\ task'[t].n = Less
  BY DecrementMoves DEF IInv, Less
<1>3. /\ Less' = Less /\ Unused' = Unused
      /\ Stored' = Stored /\ Gone' = Gone
  BY <1>1 DEF Less, Unused, Gone, Stored
<1>4. \A s \in Tasks : ~task[s].row
  BY <1>1 DEF RowIsFree
<1>5. \A s \in Tasks : Subtracts(s)'
  BY <1>1, <1>2, <1>3, <1>4 DEF AccountInv, Subtracts
<1>a. \A s \in Tasks : Saw(s)'
  BY <1>2, <1>3 DEF AccountInv, Saw
<1>b. Bounded'
  BY <1>1, <1>3 DEF AccountInv, Bounded
<1>6. RowOfOne'
  BY <1>2, <1>4 DEF RowOfOne
<1>7. Recounting' <=> Recounting
  BY <1>1, <1>2 DEF Recounting, Counting
<1>8. Agrees'
  BY <1>1, <1>3, <1>7 DEF AccountInv, Agrees
<1> QED
  BY <1>5, <1>a, <1>b, <1>6, <1>8 DEF AccountInv

LEMMA BundleAccounts ==
  ASSUME IInv, AccountInv, NEW t \in Tasks,
         IsBlocked(t) \/ LockKey(t) \/ get_prekey_count(t)
  PROVE  AccountInv'
<1>1. /\ task[t].at \in {"blocked", "blockedBy", "lock", "count"}
      /\ UNCHANGED <<key, count, short, unseen>>
  BY DEF IsBlocked, LockKey, get_prekey_count, keys
<1>2. \/ Return(t)
      \/ \E step \in {"blockedBy", "lock", "return"} : Goto(t, step)
      \/ \E k \in Unused :
           task' = [task EXCEPT ![t].at = "decrement", ![t].key = k]
  BY DEF IsBlocked, LockKey, get_prekey_count
<1>3. /\ {"blockedBy", "lock", "return"} \subseteq Steps
      /\ \A k \in Unused : k \in KeyIds /\ k # NoKey
  BY NoKeyIsNoKey DEF Steps, BundleSteps, Unused, Gone, Stored
<1>4. /\ \A s \in Tasks \ {t} : task'[s] = task[s]
      /\ task'[t].at = "decrement" => task'[t].key # NoKey
      /\ task'[t].at # "waits"
      /\ task'[t].row => task[t].row
  BY <1>2, <1>3, ReturnMoves, GotoMoves, LockMoves DEF IInv
<1> QED
  BY <1>1, <1>4, QuietAccount DEF Counting

(* The end of a bundle takes one key off the unused ones, and one off the  *)
(* count if it has the row locked. Without it, count still has the key.    *)
LEMMA CommitAccounts ==
  ASSUME IInv, AccountInv, NEW t \in Tasks, Commit(t),
         \A s \in Tasks \ {t} : task'[s] = task[s],
         task'[t].at \notin {"decrement", "waits"}, ~task'[t].row,
         UNCHANGED short
  PROVE  AccountInv'
<1> DEFINE k == task[t].key
<1>1. /\ task[t].at = "return" /\ Subtracts(t) /\ RowOfOne
      /\ Bounded /\ Agrees
      /\ Unused' = Unused \ {k}
      /\ Stored' = Stored /\ Gone \subseteq Gone'
      /\ TypeOK /\ LockInv
  BY CommitUses DEF IInv, AccountInv, Commit
<1>2. Recounting => Recounting'
  BY <1>1 DEF Recounting, Counting
<1>3. /\ Unused \in SUBSET KeyIds /\ Unused' \in SUBSET KeyIds
      /\ unseen \in SUBSET KeyIds /\ count \in Nat
      /\ Cardinality(Unused) \in Nat /\ Cardinality(Unused') \in Nat
      /\ Cardinality(Unused \cup unseen) \in Nat
  <2>1. /\ Unused \in SUBSET KeyIds /\ unseen \in SUBSET KeyIds
        /\ count \in Nat
    BY <1>1, UnusedIsCounted DEF TypeOK
  <2>2. /\ Unused' \in SUBSET KeyIds
        /\ Unused \cup unseen \in SUBSET KeyIds
    BY <1>1, <2>1
  <2> QED
    BY <2>1, <2>2, Counted
<1>4. k # NoKey => k \in Unused
  BY <1>1 DEF LockInv, Fits
<1>5. CASE ~task[t].row /\ k = NoKey
  <2>1. count' = count /\ unseen' = unseen
    BY <1>5 DEF Commit
  <2>2. Unused' = Unused
    BY <1>1, <1>5, NoKeyIsNoKey DEF Unused, Gone, Stored
  <2>3. Bounded' /\ Agrees'
    BY <1>1, <1>2, <2>1, <2>2 DEF Bounded, Agrees
  <2> QED
    BY <1>1, <2>1, <2>3, AccountStep
<1>6. CASE ~task[t].row /\ k # NoKey
  <2>1. count' = count /\ unseen' = unseen \cup {k}
    BY <1>6 DEF Commit
  <2>2. Unused' \cup unseen' = Unused \cup unseen
    BY <1>1, <1>4, <1>6, <2>1
  <2>3. Cardinality(Unused') <= Cardinality(Unused)
    BY <1>1, <1>3, CountedInOrder
  <2>4. Bounded'
    BY <1>1, <2>1, <2>2 DEF Bounded
  <2>5. Agrees'
    BY <1>1, <1>2, <1>3, <2>1, <2>3 DEF Agrees
  <2> QED
    BY <1>1, <2>1, <2>4, <2>5, AccountStep
<1>7. CASE task[t].row
  <2>1. /\ k # NoKey /\ k \in Unused /\ task[t].n = Less
        /\ \A s \in Tasks \ {t} : ~task[s].row
    BY <1>1, <1>4, <1>7 DEF Subtracts, RowOfOne
  <2>2. count' = Less /\ unseen' = unseen
    BY <1>7, <2>1 DEF Commit
  <2>3. Agrees'
    <3>1. Cardinality(Unused') = Cardinality(Unused) - 1
      BY <1>1, <1>3, <2>1, OneLess
    <3>2. Cardinality(Unused) <= count => Cardinality(Unused') <= count'
      BY <1>3, <2>2, <3>1 DEF Less
    <3> QED
      BY <1>1, <1>2, <3>2 DEF Agrees
  <2>4. Bounded'
    <3> DEFINE all == Unused \cup unseen
               rest == all \ {k}
               now == Unused' \cup unseen'
    <3>1. /\ rest \in SUBSET now /\ now \in SUBSET KeyIds
          /\ all \in SUBSET KeyIds /\ k \in all
      BY <1>1, <1>3, <2>1, <2>2
    <3>2. Cardinality(rest) <= Cardinality(now)
      BY <3>1, CountedInOrder
    <3>3. Cardinality(rest) = Cardinality(all) - 1
      BY <3>1, OneLess
    <3>4. Cardinality(now) \in Nat /\ Cardinality(all) \in Nat
      BY <3>1, Counted
    <3>5. count <= Cardinality(all)
      BY <1>1 DEF Bounded
    <3> HIDE DEF all, rest, now
    <3>6. count' <= Cardinality(now)
      BY <1>3, <2>2, <3>2, <3>3, <3>4, <3>5 DEF Less
    <3> QED
      BY <3>6 DEF Bounded, now
  <2> QED
    BY <1>1, <2>1, <2>3, <2>4, AccountStep
<1> QED
  BY <1>5, <1>6, <1>7

LEMMA AnswerAccounts ==
  ASSUME IInv, AccountInv, NEW t \in Tasks, get_user_public_keys(t)
  PROVE  AccountInv'
<1>1. /\ Commit(t) /\ TypeOK /\ UNCHANGED short
      /\ \/ Return(t)
         \/ task' = [task EXCEPT ![t].at = "count", ![t].key = NoKey,
                                 ![t].row = FALSE]
  BY DEF get_user_public_keys, IInv
<1>2. /\ \A s \in Tasks \ {t} : task'[s] = task[s]
      /\ task'[t].at \notin {"decrement", "waits"} /\ ~task'[t].row
  BY <1>1, ReturnMoves, AnswerMoves
<1> QED
  BY <1>1, <1>2, CommitAccounts

LEMMA QueryFailsAccounts ==
  ASSUME IInv, AccountInv, NEW t \in Tasks, QueryFails(t)
  PROVE  AccountInv'
<1>1. /\ Return(t) /\ UNCHANGED <<key, count, unseen>> /\ TypeOK
      /\ short' = (short \/ task[t].at \in Counting)
  BY DEF QueryFails, keys, IInv, Counting
<1>2. /\ \A s \in Tasks \ {t} : task'[s] = task[s]
      /\ task'[t].at = "idle" /\ ~task'[t].row
  BY <1>1, ReturnMoves
<1> QED
  BY <1>1, <1>2, QuietAccount

LEMMA ReplyLostAccounts ==
  ASSUME IInv, AccountInv, NEW t \in Tasks, ReplyLost(t)
  PROVE  AccountInv'
<1>1. /\ \A s \in Tasks \ {t} : task'[s] = task[s]
      /\ task'[t].at = "idle" /\ ~task'[t].row
  BY ReturnMoves DEF ReplyLost, IInv
<1>2. CASE upsert_keys(t) /\ UNCHANGED <<short, unseen>>
  <2>1. task[t].at = "upsert" /\ UNCHANGED <<key, count>>
    BY <1>2 DEF upsert_keys
  <2> QED
    BY <1>1, <1>2, <2>1, QuietAccount DEF Counting
<1>3. CASE InsertKeys(t) /\ short' = TRUE /\ UNCHANGED unseen
  BY <1>1, <1>3, InsertAccounts
<1>4. CASE Commit(t) /\ UNCHANGED short
  BY <1>1, <1>4, CommitAccounts
<1> QED
  BY <1>2, <1>3, <1>4 DEF ReplyLost

LEMMA CrashAccounts ==
  ASSUME IInv, AccountInv, Crash
  PROVE  AccountInv'
<1>1. /\ \A t \in Tasks : task'[t].at = "idle" /\ ~task'[t].row
      /\ UNCHANGED <<key, count, unseen>>
      /\ short' = (short \/ Recounting)
  BY IdleIsTask DEF Crash, keys, Recounting, Counting
<1>2. Unused' = Unused
  BY <1>1 DEF Unused, Gone, Stored
<1>3. Agrees'
  BY <1>1, <1>2 DEF AccountInv, Agrees
<1>4. RowOfOne' /\ \A t \in Tasks : Subtracts(t)' /\ Saw(t)'
  BY <1>1 DEF RowOfOne, Subtracts, Saw
<1>5. Bounded'
  BY <1>1, <1>2 DEF AccountInv, Bounded
<1> QED
  BY <1>3, <1>4, <1>5 DEF AccountInv

LEMMA AccountKeeps ==
  ASSUME IInv, AccountInv, [Next]_vars
  PROVE  AccountInv'
<1>1. CASE UNCHANGED vars
  <2>1. UNCHANGED <<key, count, task, short, unseen>>
    BY <1>1 DEF vars, keys
  <2>2. Stored' = Stored /\ Gone' = Gone /\ Unused' = Unused
    BY <2>1 DEF Unused, Gone, Stored
  <2> QED
    BY <2>1, <2>2 DEF AccountInv, Subtracts, RowOfOne, Saw, Bounded, Agrees,
                      Recounting, Less
<1>2. ASSUME NEW t \in Tasks, TaskStep(t)
      PROVE  AccountInv'
  <2>1. CASE add_one_time_prekeys(t)
    <3>1. /\ InsertKeys(t) /\ Goto(t, "recount") /\ UNCHANGED unseen
          /\ "recount" \in Steps
      BY <2>1 DEF add_one_time_prekeys, Steps, UploadSteps
    <3>2. /\ \A s \in Tasks \ {t} : task'[s] = task[s]
          /\ task'[t].at = "recount"
          /\ task'[t].row => task[t].row
      BY <3>1, GotoMoves DEF IInv
    <3> QED
      BY <3>1, <3>2, InsertAccounts DEF Counting
  <2> QED
    BY <1>2, <2>1, UpsertAccounts, RecountAccounts, DecrementAccounts,
       BundleAccounts, AnswerAccounts DEF TaskStep
<1> QED
  BY <1>1, <1>2, RequestAccounts, QueryFailsAccounts, ReplyLostAccounts,
     CrashAccounts DEF Next

-----------------------------------------------------------------------------
(* The invariant holds always, for any number of requests at once. *)
THEOREM InvHolds == Spec => []IInv
<1>1. Init => IInv
  BY Start
<1>2. IInv /\ [Next]_vars => IInv'
  BY Step
<1> QED
  BY <1>1, <1>2, PTL DEF Spec

(* Every variable keeps its type; so n, which the transaction of a bundle  *)
(* writes to prekey_count, is never below zero.                            *)
THEOREM TypesHold == Spec => []TypeOK
<1>1. IInv => TypeOK
  BY DEF IInv
<1> QED
  BY <1>1, InvHolds, PTL

(* No two sessions are set up with the same one-time key, whatever runs at *)
(* once, and whatever fails (get_user_public_keys, migration 011).         *)
THEOREM KeysAreGivenOnce == Spec => []GivenOnce
<1>1. IInv => GivenOnce
  BY DEF IInv, LockInv
<1> QED
  BY <1>1, InvHolds, PTL

(* The statements that hand out a key implement the pool that hands out    *)
(* each key in one step: initial states are initial states of the pool,    *)
(* and every step is one of the pool or leaves it as it is.                *)
THEOREM PoolIsImplemented == Spec => ImplementsPool
<1>1. Init => Pool!Init
  BY Start
<1>2. IInv /\ [Next]_vars => [Pool!Next]_(Pool!pool)
  BY Step DEF PoolStep
<1> QED
  BY <1>1, <1>2, InvHolds, PTL DEF Spec, ImplementsPool, Pool!Spec

(* prekey_count, which uploads set by counting and bundles lower by one:   *)
(* whatever overlaps or fails, it includes no more than the unused keys    *)
(* and those handed out while the last count waited or without a row to    *)
(* lower; and with no request in flight it includes all unused keys, but   *)
(* for an upload that a failure left uncounted, that had no row, or that   *)
(* was stored while the last count waited (keys.rs:73-87, migration        *)
(* 011:106).                                                               *)
THEOREM CountKeepsRight == Spec => []CountIsRight
<1>1. Init => AccountInv
  <2> SUFFICES ASSUME Init PROVE AccountInv
    OBVIOUS
  <2>1. /\ \A t \in Tasks : task[t].at = "idle" /\ ~task[t].row
        /\ count = 0 /\ unseen = {}
    BY IdleIsTask DEF Init
  <2>2. Unused = {}
    BY DEF Init, AbsentKey, Unused, Gone, Stored
  <2>3. Unused \cup unseen = {} /\ Cardinality({}) = 0
    BY <2>1, <2>2, FS_EmptySet
  <2>4. Bounded /\ Agrees
    BY <2>1, <2>2, <2>3 DEF Bounded, Agrees
  <2> QED
    BY <2>1, <2>4 DEF AccountInv, Subtracts, Saw, RowOfOne
<1>2. IInv /\ AccountInv /\ [Next]_vars => AccountInv'
  BY AccountKeeps
<1>3. AccountInv => CountIsRight
  BY DEF AccountInv, Bounded, Agrees, Recounting, Counting, CountIsRight
<1> QED
  BY <1>1, <1>2, <1>3, InvHolds, PTL DEF Spec
=============================================================================
