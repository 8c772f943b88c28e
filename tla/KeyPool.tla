------------------------------ MODULE KeyPool -------------------------------
(***************************************************************************)
(* What the pool of one-time pre-keys of a user promises the sessions that *)
(* are set up with it: a key that was uploaded is handed out to one        *)
(* session at most, whole and at once. It may be used up without reaching  *)
(* anybody, and never comes back (005_one_time_prekeys.sql; module PreKeys *)
(* is how the code does it).                                               *)
(***************************************************************************)
CONSTANTS Keys, Takers

VARIABLES
  supplied,  \* the keys that were uploaded
  gone,      \* those that are used up
  taken      \* who was given which: [key, to]

pool == <<supplied, gone, taken>>

Init == supplied = {} /\ gone = {} /\ taken = {}

Supply(S) ==
  /\ supplied' = supplied \cup S
  /\ UNCHANGED <<gone, taken>>

Lose(k) ==
  /\ k \in supplied \ gone
  /\ gone' = gone \cup {k}
  /\ UNCHANGED <<supplied, taken>>

Take(k, u) ==
  /\ k \in supplied \ gone
  /\ gone' = gone \cup {k}
  /\ taken' = taken \cup {[key |-> k, to |-> u]}
  /\ UNCHANGED supplied

Next ==
  \/ \E S \in SUBSET Keys : Supply(S)
  \/ \E k \in Keys : Lose(k) \/ \E u \in Takers : Take(k, u)

Spec == Init /\ [][Next]_pool

-----------------------------------------------------------------------------
(* Nobody but the one it was given to knows a key of the pool: two sessions*)
(* are never set up with the same one.                                     *)
GivenOnce == \A p, q \in taken : p.key = q.key => p = q
=============================================================================
