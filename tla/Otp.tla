-------------------------------- MODULE Otp ---------------------------------
(***************************************************************************)
(* One one-time code in Redis (services/otp.rs): the key of the code, the  *)
(* key that counts the failed attempts, and the key that counts how many   *)
(* codes were asked for. Every kind of code (register, login, recover, the *)
(* two of the second factor) has keys of its own and the same functions.   *)
(* Each function is one command or one Lua script, so a step; what is hard *)
(* is that the three keys expire each by itself. A command whose reply is  *)
(* lost has done what it does.                                             *)
(*                                                                         *)
(* Time passes in ticks of a quarter of a second. An expiry is a number of *)
(* ticks that are left, 0 where there is no key.                           *)
(***************************************************************************)
EXTENDS Naturals

CONSTANTS
  Ttl,        \* otp_ttl, in seconds
  Window,     \* of check_rate_limit, in seconds
  RateLimit,  \* codes in a window; kinds that are not limited: MaxAsks
  MaxAsks     \* bound: codes that are asked for in a behaviour

ASSUME TtlIsPositive == Ttl \in Nat \ {0}
ASSUME RateIsNatural == Window \in Nat \ {0} /\ RateLimit \in Nat
ASSUME MaxAsksIsNatural == MaxAsks \in Nat

VARIABLES
  issued,     \* history: how many codes were stored: they are numbered
  code,       \* the code that is stored
  left,       \* its expiry
  tries,      \* {key}:attempts: failed attempts
  triesLeft,  \* its expiry; Never: the key has none
  rate,       \* rate:{...}: codes asked for
  rateLeft,   \* its expiry
  pending,    \* requests that may store a code and have not yet
  asks,
  misses,     \* history: the failed attempts that the code has outlived
  matched     \* history: the codes that were matched

slot == <<issued, code, left, misses, matched>>
counter == <<tries, triesLeft>>
limiter == <<rate, rateLeft, pending, asks>>
otpVars == <<slot, counter, limiter>>

Second == 4
MaxAttempts == 3
Never == Ttl * Second + Second

(* TTL: Redis answers in seconds, rounded. *)
Rounded(ticks) == ((ticks + 2) \div Second) * Second

OtpInit ==
  /\ issued = 0 /\ code = 0 /\ left = 0 /\ misses = 0 /\ matched = {}
  /\ tries = 0 /\ triesLeft = 0
  /\ rate = 0 /\ rateLeft = 0 /\ pending = 0 /\ asks = 0

-----------------------------------------------------------------------------
(* register and login ask for a code: INCR, and EXPIRE at the first.       *)
check_rate_limit ==
  /\ asks < MaxAsks
  /\ asks' = asks + 1
  /\ rate' = rate + 1
  /\ rateLeft' = IF rate = 0 THEN Window * Second ELSE rateLeft
  /\ pending' = IF rate < RateLimit THEN pending + 1 ELSE pending
  /\ UNCHANGED <<slot, counter>>

(* SET EX: whatever code there was, and however long it had left. The      *)
(* attempts stay. (This definition, and below MatchKeepsCode, are mutants: *)
(* a definition after it with a plausible mistake, for checking that the   *)
(* properties notice. No other definition uses one.)                       *)
StoreForever ==
  /\ pending > 0
  /\ pending' = pending - 1
  /\ issued' = issued + 1
  /\ code' = issued + 1
  /\ left' = 0
  /\ misses' = 0
  /\ UNCHANGED <<matched, counter, rate, rateLeft, asks>>

store_otp ==
  /\ pending > 0
  /\ pending' = pending - 1
  /\ issued' = issued + 1
  /\ code' = issued + 1
  /\ left' = Ttl * Second
  /\ misses' = 0
  /\ UNCHANGED <<matched, counter, rate, rateLeft, asks>>

(* The request fails first: the user is known, or unknown, or a query or   *)
(* the process fails.                                                      *)
AskFails ==
  /\ pending > 0
  /\ pending' = pending - 1
  /\ UNCHANGED <<slot, counter, rate, rateLeft, asks>>

-----------------------------------------------------------------------------
(***************************************************************************)
(* verify_otp_with_limit, a Lua script. A stored code matches and is gone  *)
(* with its attempts; a wrong attempt is counted, the first with the       *)
(* expiry that the code has left, unless that is rounded to nothing; the   *)
(* third takes the code with it.                                           *)
(***************************************************************************)
Forget == code' = 0 /\ left' = 0 /\ misses' = 0

MatchKeepsCode ==
  /\ code # 0
  /\ matched' = matched \cup {code}
  /\ tries' = 0 /\ triesLeft' = 0
  /\ UNCHANGED <<issued, code, left, misses, limiter>>

Matched ==
  /\ code # 0
  /\ matched' = matched \cup {code}
  /\ Forget
  /\ tries' = 0 /\ triesLeft' = 0
  /\ UNCHANGED <<issued, limiter>>

Expiry(l) == IF Rounded(l) > 0 THEN Rounded(l) ELSE Never

Invalid ==
  /\ code # 0
  /\ tries + 1 < MaxAttempts
  /\ tries' = tries + 1
  /\ triesLeft' = IF tries = 0 THEN Expiry(left) ELSE triesLeft
  /\ misses' = misses + 1
  /\ UNCHANGED <<issued, code, left, matched, limiter>>

Exceeded ==
  /\ code # 0
  /\ tries + 1 >= MaxAttempts
  /\ Forget
  /\ tries' = 0 /\ triesLeft' = 0
  /\ UNCHANGED <<issued, matched, limiter>>

-----------------------------------------------------------------------------
(* Redis drops what has no time left. *)
Tick ==
  /\ left # 0 \/ triesLeft \notin {0, Never} \/ rateLeft # 0
  /\ IF left = 1 THEN Forget
     ELSE /\ left' = IF left = 0 THEN 0 ELSE left - 1
          /\ UNCHANGED <<code, misses>>
  /\ triesLeft' = IF triesLeft \in {0, Never} THEN triesLeft ELSE triesLeft - 1
  /\ tries' = IF triesLeft = 1 THEN 0 ELSE tries
  /\ rateLeft' = IF rateLeft = 0 THEN 0 ELSE rateLeft - 1
  /\ rate' = IF rateLeft = 1 THEN 0 ELSE rate
  /\ UNCHANGED <<issued, matched, pending, asks>>

verify_otp_with_limit == Matched \/ Invalid \/ Exceeded

OtpNext ==
  \/ check_rate_limit \/ store_otp \/ AskFails
  \/ verify_otp_with_limit
  \/ Tick

(* Time goes on. Nobody has to ask for a code, or to send one. *)
OtpSpec == OtpInit /\ [][OtpNext]_otpVars /\ WF_otpVars(Tick)

-----------------------------------------------------------------------------
(* Every variable keeps its type: no key outlives what it was set to, and  *)
(* the count of attempts never stands at the limit.                        *)
OtpTypeOK ==
  /\ issued \in 0..MaxAsks /\ asks \in 0..MaxAsks
  /\ code \in 0..issued
  /\ left \in 0..Ttl * Second
  /\ misses \in Nat
  /\ matched \subseteq 1..issued
  /\ tries \in 0..MaxAttempts - 1
  /\ triesLeft \in 0..Never
  /\ rate \in 0..MaxAsks
  /\ rateLeft \in 0..Window * Second
  /\ pending \in 0..MaxAsks

(* Three keys with expiries of their own keep the promise of a one-time    *)
(* code: it is good once, only the last one is, and it does not outlive    *)
(* more than five wrong attempts: those that an older count still allowed, *)
(* those of its own, and those of the last moments, which Redis rounds     *)
(* away (otp.rs:112-140).                                                  *)
Code == INSTANCE OneTimeCode WITH Limit <- 5

ImplementsCode == Code!Spec

(* A code that nobody uses expires, and whoever asked too often may ask    *)
(* again, though every attempt and refusal touches the same keys.          *)
KeysExpire ==
  /\ \A n \in 1..MaxAsks : code = n ~> code # n
  /\ rate # 0 ~> rate = 0

(* "OTP Verification (all endpoints) | 3 failed attempts | Invalidates OTP"*)
(* (README.md:479): no code outlives three wrong attempts. A count begun   *)
(* under an older code expires with that one, and the new code has its     *)
(* three attempts anew.                                                    *)
ThreeFailuresInvalidate == misses < 3
=============================================================================
