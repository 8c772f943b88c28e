------------------------------ MODULE CallBook ------------------------------
(***************************************************************************)
(* What the call service promises: a book of calls in which every          *)
(* operation of CallService happens at once.                               *)
(*                                                                         *)
(* CallService (domain/src/call/service.rs) documents its operations as if *)
(* each were one step: a call is opened only between two parties who are   *)
(* free, it rings, it is answered once, and a terminal status is final.    *)
(* Module Calls models the operations as the code performs them, one query *)
(* at a time.                                                              *)
(***************************************************************************)
CONSTANTS
  Users,      \* the accounts that may call one another
  CallIds,    \* the primary keys the calls table may hand out
  NoUser      \* the value of a party column of a row that does not exist

VARIABLE row  \* the calls table, one row per id

(***************************************************************************)
(* CallStatus: the three active statuses, then the four terminal ones. A   *)
(* row that was never inserted has status "absent".                        *)
(***************************************************************************)
Active == {"initiated", "ringing", "answered"}
Terminal == {"ended", "missed", "rejected", "busy"}

(***************************************************************************)
(* A row keeps its parties, its status, and whether started_at and         *)
(* ended_at are set (the instants themselves are abstracted).              *)
(***************************************************************************)
Row == [status   : Active \cup Terminal \cup {"absent"},
        caller   : Users \cup {NoUser},
        receiver : Users \cup {NoUser},
        started  : BOOLEAN,
        ended    : BOOLEAN]

AbsentRow == [status |-> "absent", caller |-> NoUser, receiver |-> NoUser,
              started |-> FALSE, ended |-> FALSE]

(* create: the row an INSERT writes. *)
NewRow(u, v) == [status |-> "initiated", caller |-> u, receiver |-> v,
                 started |-> FALSE, ended |-> FALSE]

Parties(r) == {r.caller, r.receiver}

(* is_user_in_active_call: some active row names the user as a party. *)
InActiveCall(u) ==
  \E c \in CallIds : row[c].status \in Active /\ u \in Parties(row[c])

Init == row = [c \in CallIds |-> AbsentRow]

(* A call is opened between two distinct users, both free. *)
Open(c, u, v) ==
  /\ row[c].status = "absent"
  /\ u # v
  /\ ~InActiveCall(u)
  /\ ~InActiveCall(v)
  /\ row' = [row EXCEPT ![c] = NewRow(u, v)]

(* The receiver has been told of the call. *)
Ring(c) ==
  /\ row[c].status = "initiated"
  /\ row' = [row EXCEPT ![c].status = "ringing"]

(* The receiver answers; started_at is set. *)
Answer(c) ==
  /\ row[c].status \in {"initiated", "ringing"}
  /\ row' = [row EXCEPT ![c].status = "answered", ![c].started = TRUE]

(* A party ends an active call, for good. *)
Finish(c, s) ==
  /\ row[c].status \in Active
  /\ s \in Terminal
  /\ row' = [row EXCEPT ![c].status = s, ![c].ended = TRUE]

Next ==
  \E c \in CallIds :
    \/ \E u, v \in Users : Open(c, u, v)
    \/ Ring(c)
    \/ Answer(c)
    \/ \E s \in Terminal : Finish(c, s)

Spec == Init /\ [][Next]_row

-----------------------------------------------------------------------------
BookTypeOK == row \in [CallIds -> Row]

(* No user is a party of two active calls ("verifies that neither party is *)
(* already in an active call", service.rs:19-20).                          *)
OneActiveCall ==
  \A c, d \in CallIds :
    /\ c # d
    /\ row[c].status \in Active
    /\ row[d].status \in Active
    => Parties(row[c]) \cap Parties(row[d]) = {}

(* A call that reached a terminal status is never touched again ("Only     *)
(* allow terminal transitions from active states", service.rs:115).        *)
TerminalIsFinal ==
  [][\A c \in CallIds : row[c].status \in Terminal => row'[c] = row[c]]_row
=============================================================================
