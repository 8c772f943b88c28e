---------------------------- MODULE OneTimeCode -----------------------------
(***************************************************************************)
(* What a one-time code promises: only the last one that was issued is     *)
(* good, it is good once, and it does not outlive more than Limit wrong    *)
(* attempts. It may be lost at any time. Otp is how the code keeps the     *)
(* promise; SignIn relies on it.                                           *)
(***************************************************************************)
EXTENDS Naturals

CONSTANT Limit

VARIABLES
  issued,   \* how many codes were issued: they are numbered
  code,     \* the one that is good; 0: none
  misses,   \* the wrong attempts it has outlived
  matched   \* the codes that were used

slot == <<issued, code, misses, matched>>

Init == issued = 0 /\ code = 0 /\ misses = 0 /\ matched = {}

Issue ==
  /\ issued' = issued + 1
  /\ code' = issued + 1
  /\ misses' = 0
  /\ UNCHANGED matched

Miss ==
  /\ code # 0
  /\ misses < Limit
  /\ misses' = misses + 1
  /\ UNCHANGED <<issued, code, matched>>

Drop ==
  /\ code # 0
  /\ code' = 0
  /\ misses' = 0
  /\ UNCHANGED <<issued, matched>>

Match ==
  /\ code # 0
  /\ code \notin matched
  /\ matched' = matched \cup {code}
  /\ code' = 0
  /\ misses' = 0
  /\ UNCHANGED issued

Next == Issue \/ Miss \/ Drop \/ Match

Spec == Init /\ [][Next]_slot
=============================================================================
