----------------------------- MODULE Otp_proofs -----------------------------
(***************************************************************************)
(* Theorems about Otp, for any lifetime of a code, any rate limit and any  *)
(* number of codes: the three keys keep the promise of OneTimeCode, with   *)
(* five as the number of wrong attempts that a code may outlive. The       *)
(* second half is about SignIn, the handlers that send the codes and take  *)
(* them back, for any number of requests.                                  *)
(***************************************************************************)
EXTENDS Otp, SignIn, Integers, SequenceTheorems, TLAPS

-----------------------------------------------------------------------------
(* How many more wrong attempts a code can outlive that has l ticks left:  *)
(* two while nothing was counted yet, and two more if there is a second    *)
(* left, since the count may then expire before the code does.             *)
Fresh(l) == IF l >= 5 THEN 4 ELSE 2

(* With a count: those that it allows, and those after it expires. *)
Spare ==
  IF tries = 0 THEN Fresh(left)
  ELSE (2 - tries) + IF triesLeft < left THEN Fresh(left - triesLeft) ELSE 0

Keys ==
  /\ code = 0 <=> left = 0
  /\ code = 0 => misses = 0
  /\ tries = 0 <=> triesLeft = 0

LastCodeOnly == code # 0 => code = issued /\ code \notin matched

Asked == issued + pending <= asks /\ rate <= asks

Budget == code # 0 => misses + Spare <= 5

IInv ==
  /\ OtpTypeOK
  /\ Asked
  /\ Keys
  /\ LastCodeOnly
  /\ Budget

-----------------------------------------------------------------------------
(* Arithmetic: what Redis rounds, and what it does to the count. *)

LEMMA Ticks ==
  /\ Ttl * Second \in Nat /\ Ttl * Second > 0
  /\ Never \in Nat /\ Never > Ttl * Second
  /\ Window * Second \in Nat /\ Window * Second > 0
  /\ MaxAttempts = 3
BY TtlIsPositive, RateIsNatural DEF Second, Never, MaxAttempts

LEMMA Rounding ==
  ASSUME NEW l \in 1..Ttl * Second
  PROVE  /\ Expiry(l) \in 1..Never
         /\ l < 5 => Expiry(l) >= l
         /\ Expiry(l) < l => l - Expiry(l) = 1
<1>1. Ttl * 4 \in Nat /\ l \in Nat /\ l >= 1 /\ l <= Ttl * 4
  BY TtlIsPositive DEF Second
<1> DEFINE r == ((l + 2) \div 4) * 4
<1>2. /\ r \in Nat
      /\ r = 0 \/ r >= 4
      /\ r >= l - 1
      /\ r <= l + 2
      /\ l < 5 /\ r > 0 => r >= l
  BY <1>1
<1>3. r <= Ttl * 4 + 4
  BY <1>1, <1>2
<1>4. /\ Expiry(l) = IF r > 0 THEN r ELSE Never
      /\ Never = Ttl * 4 + 4
  BY DEF Expiry, Rounded, Never, Second
<1> HIDE DEF r
<1> QED
  BY <1>1, <1>2, <1>3, <1>4

-----------------------------------------------------------------------------
(* Each step keeps the invariant, and is a step of the promise, or none.   *)

CodeStep == [Code!Next]_(Code!slot)

LEMMA QuietInCode ==
  ASSUME UNCHANGED <<issued, code, misses, matched>>
  PROVE  CodeStep
BY DEF CodeStep, Code!slot

LEMMA DropInCode ==
  ASSUME code # 0, code' = 0, misses' = 0, UNCHANGED <<issued, matched>>
  PROVE  CodeStep
BY DEF CodeStep, Code!Next, Code!Drop

LEMMA AskKeeps ==
  ASSUME IInv, check_rate_limit \/ AskFails
  PROVE  IInv' /\ CodeStep
<1>1. UNCHANGED <<issued, code, left, misses, matched, tries, triesLeft>>
  BY DEF check_rate_limit, AskFails, slot, counter
<1>2. /\ asks' \in 0..MaxAsks /\ rate' \in 0..MaxAsks
      /\ pending' \in 0..MaxAsks /\ Asked'
      /\ rateLeft' \in 0..Window * Second
  <2>1. /\ issued \in Nat /\ asks \in Nat /\ pending \in Nat /\ rate \in Nat
        /\ MaxAsks \in Nat /\ asks <= MaxAsks /\ rate <= asks
        /\ issued + pending <= asks /\ rateLeft \in 0..Window * Second
    BY MaxAsksIsNatural DEF IInv, OtpTypeOK, Asked
  <2>2. CASE AskFails
    BY <1>1, <2>1, <2>2 DEF AskFails, Asked
  <2>3. CASE check_rate_limit
    <3>1. /\ asks' = asks + 1 /\ asks < MaxAsks /\ rate' = rate + 1
          /\ pending' = pending \/ pending' = pending + 1
          /\ rateLeft' = Window * Second \/ rateLeft' = rateLeft
      BY <2>3 DEF check_rate_limit
    <3>2. rateLeft' \in 0..Window * Second
      BY <2>1, <3>1, Ticks
    <3>3. asks' \in 0..MaxAsks /\ rate' \in 0..MaxAsks /\ rate' <= asks'
      BY <2>1, <3>1
    <3>4. pending' \in 0..MaxAsks /\ issued' + pending' <= asks'
      BY <1>1, <2>1, <3>1
    <3> QED
      BY <3>2, <3>3, <3>4 DEF Asked
  <2> QED
    BY <2>2, <2>3
<1>3. OtpTypeOK'
  BY <1>1, <1>2 DEF IInv, OtpTypeOK
<1>4. Keys' /\ LastCodeOnly' /\ Budget'
  BY <1>1 DEF IInv, Keys, LastCodeOnly, Budget, Spare
<1> QED
  BY <1>1, <1>2, <1>3, <1>4, QuietInCode DEF IInv

LEMMA StoreKeeps ==
  ASSUME IInv, store_otp
  PROVE  IInv' /\ CodeStep
<1>1. /\ issued \in Nat /\ asks \in Nat /\ pending \in Nat /\ MaxAsks \in Nat
      /\ asks <= MaxAsks /\ issued + pending <= asks /\ pending > 0
      /\ tries \in 0..2 /\ triesLeft \in Nat
      /\ matched \subseteq 1..issued
  BY MaxAsksIsNatural, Ticks DEF IInv, OtpTypeOK, store_otp, Asked
<1>2. /\ pending' = pending - 1 /\ issued' = issued + 1
      /\ code' = issued + 1 /\ left' = Ttl * Second /\ misses' = 0
      /\ UNCHANGED <<matched, tries, triesLeft, rate, rateLeft, asks>>
  BY DEF store_otp, counter
<1>3. OtpTypeOK'
  <2>1. /\ issued' \in 0..MaxAsks /\ pending' \in 0..MaxAsks
        /\ code' \in 0..issued' /\ misses' \in Nat
        /\ left' \in 0..Ttl * Second
    BY <1>1, <1>2, Ticks
  <2>2. matched' \subseteq 1..issued'
    BY <1>1, <1>2
  <2> QED
    BY <1>2, <2>1, <2>2 DEF IInv, OtpTypeOK
<1>4. Asked'
  BY <1>1, <1>2 DEF Asked, IInv
<1>5. Keys'
  BY <1>1, <1>2, Ticks DEF Keys, IInv
<1>6. LastCodeOnly'
  BY <1>1, <1>2 DEF LastCodeOnly
<1>7. Budget'
  <2>1. tries' # 0 => tries' \in 1..2
    BY <1>1, <1>2
  <2>2. left' \in Nat /\ triesLeft' \in Nat
    BY <1>1, <1>2, Ticks
  <2>3. Spare' <= 5 /\ Spare' \in Int
    <3>1. \A l, k \in Int : Fresh(l - k) \in 2..4 /\ Fresh(l) \in 2..4
      BY DEF Fresh
    <3>2. CASE tries' = 0
      BY <2>2, <3>1, <3>2 DEF Spare
    <3>3. CASE tries' # 0
      BY <2>1, <2>2, <3>1, <3>3 DEF Spare
    <3> QED
      BY <3>2, <3>3
  <2>4. misses' = 0
    BY <1>2
  <2> QED
    BY <2>3, <2>4 DEF Budget, Spare
<1>8. CodeStep
  BY <1>2 DEF CodeStep, Code!Next, Code!Issue
<1> QED
  BY <1>3, <1>4, <1>5, <1>6, <1>7, <1>8 DEF IInv

LEMMA MatchedKeeps ==
  ASSUME IInv, Matched
  PROVE  IInv' /\ CodeStep
<1>1. /\ code # 0 /\ matched' = matched \cup {code}
      /\ code' = 0 /\ left' = 0 /\ misses' = 0
      /\ tries' = 0 /\ triesLeft' = 0
      /\ UNCHANGED <<issued, rate, rateLeft, pending, asks>>
  BY DEF Matched, Forget, limiter
<1>2. OtpTypeOK'
  <2>1. /\ issued \in Nat /\ code \in 1..issued /\ matched \subseteq 1..issued
    BY <1>1 DEF IInv, OtpTypeOK
  <2>2. /\ code' \in 0..issued' /\ matched' \subseteq 1..issued'
        /\ left' \in 0..Ttl * Second /\ misses' \in Nat
        /\ tries' \in 0..MaxAttempts - 1 /\ triesLeft' \in 0..Never
    BY <1>1, <2>1, Ticks
  <2> QED
    BY <1>1, <2>2 DEF IInv, OtpTypeOK
<1>3. Keys' /\ LastCodeOnly' /\ Budget' /\ Asked'
  BY <1>1 DEF IInv, Keys, LastCodeOnly, Budget, Asked
<1>4. code \notin matched
  BY <1>1 DEF IInv, LastCodeOnly
<1>5. CodeStep
  BY <1>1, <1>4 DEF CodeStep, Code!Next, Code!Match
<1> QED
  BY <1>2, <1>3, <1>5 DEF IInv

LEMMA ExceededKeeps ==
  ASSUME IInv, Exceeded
  PROVE  IInv' /\ CodeStep
<1>1. /\ code # 0
      /\ code' = 0 /\ left' = 0 /\ misses' = 0
      /\ tries' = 0 /\ triesLeft' = 0
      /\ UNCHANGED <<issued, matched, rate, rateLeft, pending, asks>>
  BY DEF Exceeded, Forget, limiter
<1>2. OtpTypeOK'
  <2>1. /\ code' \in 0..issued' /\ left' \in 0..Ttl * Second
        /\ misses' \in Nat /\ tries' \in 0..MaxAttempts - 1
        /\ triesLeft' \in 0..Never
    BY <1>1, Ticks DEF IInv, OtpTypeOK
  <2> QED
    BY <1>1, <2>1 DEF IInv, OtpTypeOK
<1>3. Keys' /\ LastCodeOnly' /\ Budget' /\ Asked'
  BY <1>1 DEF IInv, Keys, LastCodeOnly, Budget, Asked
<1> QED
  BY <1>1, <1>2, <1>3, DropInCode DEF IInv

(* A wrong attempt: the code that outlives it has one less to outlive. *)
LEMMA InvalidKeeps ==
  ASSUME IInv, Invalid
  PROVE  IInv' /\ CodeStep
<1>1. /\ code # 0 /\ tries + 1 < 3 /\ tries' = tries + 1
      /\ triesLeft' = IF tries = 0 THEN Expiry(left) ELSE triesLeft
      /\ misses' = misses + 1
      /\ UNCHANGED <<issued, code, left, matched, rate, rateLeft, pending,
                     asks>>
  BY DEF Invalid, limiter, MaxAttempts
<1>2. /\ left \in 1..Ttl * Second /\ misses \in Nat /\ tries \in 0..1
      /\ triesLeft \in 0..Never /\ Never \in Nat
      /\ tries = 0 <=> triesLeft = 0
      /\ misses + Spare <= 5
  BY <1>1, Ticks DEF IInv, OtpTypeOK, Keys, Budget
<1>3. /\ Expiry(left) \in 1..Never
      /\ left < 5 => Expiry(left) >= left
      /\ Expiry(left) < left => left - Expiry(left) = 1
  BY <1>2, Rounding
<1>4. triesLeft' \in 1..Never /\ tries' \in 1..2
  BY <1>1, <1>2, <1>3
<1>5. Spare \in Int /\ Spare' \in Int /\ Spare' <= Spare - 1 /\ Spare >= 1
  <2>1. CASE tries = 0
    <3>1. Spare = Fresh(left) /\ tries' = 1 /\ triesLeft' = Expiry(left)
      BY <1>1, <2>1 DEF Spare
    <3>2. Spare' = 1 + IF Expiry(left) < left
                         THEN Fresh(left - Expiry(left)) ELSE 0
      BY <1>1, <3>1 DEF Spare
    <3> QED
      BY <1>2, <1>3, <3>1, <3>2, Ticks DEF Fresh
  <2>2. CASE tries = 1
    <3>1. triesLeft' = triesLeft /\ tries' = 2 /\ left' = left
      BY <1>1, <2>2
    <3> QED
      BY <1>2, <2>2, <3>1, Ticks DEF Spare, Fresh
  <2> QED
    BY <1>2, <2>1, <2>2
<1>6. misses < 5 /\ misses' + Spare' <= 5 /\ misses' \in Nat
  <2>1. misses' = misses + 1 /\ misses \in Nat /\ misses + Spare <= 5
    BY <1>1, <1>2
  <2> QED
    BY <1>5, <2>1 DEF Spare
<1>7. OtpTypeOK'
  <2>1. tries' \in 0..MaxAttempts - 1 /\ triesLeft' \in 0..Never
    BY <1>4, Ticks
  <2> QED
    BY <1>1, <1>6, <2>1 DEF IInv, OtpTypeOK
<1>8. Keys' /\ LastCodeOnly' /\ Budget' /\ Asked'
  BY <1>1, <1>4, <1>6 DEF IInv, Keys, LastCodeOnly, Budget, Asked
<1>9. CodeStep
  BY <1>1, <1>6 DEF CodeStep, Code!Next, Code!Miss
<1> QED
  BY <1>7, <1>8, <1>9 DEF IInv

(* Time: a count and a code lose a tick each, and what is left of the code *)
(* when the count expires stays the same.                                  *)
LEMMA TickKeeps ==
  ASSUME IInv, Tick
  PROVE  IInv' /\ CodeStep
<1>1. /\ UNCHANGED <<issued, matched, pending, asks>>
      /\ \/ left = 1 /\ code' = 0 /\ left' = 0 /\ misses' = 0
         \/ /\ left # 1 /\ code' = code /\ misses' = misses
            /\ left' = IF left = 0 THEN 0 ELSE left - 1
      /\ triesLeft' =
           IF triesLeft \in {0, Never} THEN triesLeft ELSE triesLeft - 1
      /\ tries' = IF triesLeft = 1 THEN 0 ELSE tries
      /\ rateLeft' = IF rateLeft = 0 THEN 0 ELSE rateLeft - 1
      /\ rate' = IF rateLeft = 1 THEN 0 ELSE rate
  BY DEF Tick, Forget
<1>2. /\ left \in 0..Ttl * Second /\ misses \in Nat /\ tries \in 0..2
      /\ triesLeft \in 0..Never /\ rateLeft \in 0..Window * Second
      /\ rate \in Nat /\ rate <= asks /\ asks \in 0..MaxAsks
      /\ rate \in 0..MaxAsks
      /\ code = 0 <=> left = 0
      /\ code = 0 => misses = 0
      /\ tries = 0 <=> triesLeft = 0
      /\ code \in 0..issued /\ issued \in Nat
      /\ Never \in Nat /\ Never > Ttl * Second /\ Ttl * Second \in Nat
      /\ Never > 1
  BY Ticks DEF IInv, OtpTypeOK, Keys, Asked
<1>3. /\ left' \in 0..Ttl * Second /\ misses' \in Nat /\ code' \in 0..issued
      /\ code' = 0 <=> left' = 0
      /\ code' = 0 => misses' = 0
      /\ code' # 0 => code' = code /\ left' = left - 1 /\ left > 1
      /\ code' # 0 => misses' = misses /\ code # 0
  BY <1>1, <1>2
<1>4. /\ triesLeft' \in 0..Never /\ tries' \in 0..2
      /\ tries' = 0 <=> triesLeft' = 0
  BY <1>1, <1>2
<1>5. /\ rateLeft' \in 0..Window * Second
      /\ rate' \in 0..MaxAsks /\ rate' <= asks
  <2>1. rate' = 0 \/ rate' = rate
    BY <1>1
  <2>2. rate' \in 0..MaxAsks /\ rate' <= asks
    BY <1>2, <2>1, MaxAsksIsNatural
  <2> DEFINE w == Window * Second
  <2>3. w \in Nat /\ rateLeft \in 0..w
    BY <1>2, Ticks
  <2> HIDE DEF w
  <2>4. rateLeft' \in 0..w
    BY <1>1, <2>3
  <2> QED
    BY <2>2, <2>4 DEF w
<1>6. OtpTypeOK'
  <2>1. tries' \in 0..MaxAttempts - 1
    BY <1>4, Ticks
  <2> QED
    BY <1>1, <1>3, <1>4, <1>5, <2>1 DEF IInv, OtpTypeOK
<1>7. Keys' /\ LastCodeOnly' /\ Asked'
  BY <1>1, <1>3, <1>4, <1>5 DEF IInv, Keys, LastCodeOnly, Asked
<1>8. ASSUME code' # 0 PROVE Spare' \in Int /\ Spare \in Int /\ Spare' <= Spare
  <2>1. left' = left - 1 /\ left > 1 /\ left \in Nat
    BY <1>2, <1>3, <1>8
  <2>2. CASE tries = 0
    <3>1. tries' = 0
      BY <1>1, <1>2, <2>2
    <3> QED
      BY <2>1, <2>2, <3>1 DEF Spare, Fresh
  <2>3. CASE tries # 0 /\ triesLeft = 1
    <3>1. tries' = 0 /\ tries \in 1..2
      BY <1>1, <1>2, <2>3
    <3> QED
      BY <2>1, <2>3, <3>1 DEF Spare, Fresh
  <2>4. CASE tries # 0 /\ triesLeft # 1
    <3>1. /\ tries' = tries /\ tries \in 1..2 /\ triesLeft > 1
          /\ triesLeft \in Nat
      BY <1>1, <1>2, <2>4
    <3>2. CASE triesLeft = Never
      <4>1. triesLeft' = triesLeft /\ triesLeft > left /\ triesLeft > left'
        BY <1>1, <1>2, <2>1, <3>2
      <4> QED
        BY <2>1, <3>1, <4>1 DEF Spare
    <3>3. CASE triesLeft # Never
      <4>1. triesLeft' = triesLeft - 1
        BY <1>1, <3>1, <3>3
      <4> QED
        BY <2>1, <3>1, <4>1 DEF Spare, Fresh
    <3> QED
      BY <3>2, <3>3
  <2> QED
    BY <2>2, <2>3, <2>4
<1>9. Budget'
  <2>1. ASSUME code' # 0 PROVE misses' + Spare' <= 5
    BY <1>2, <1>3, <1>8, <2>1 DEF IInv, Budget
  <2> QED
    BY <2>1 DEF Budget
<1>10. CodeStep
  <2>1. CASE code' = code
    <3>1. misses' = misses
      BY <1>1, <1>2, <2>1
    <3> QED
      BY <1>1, <2>1, <3>1, QuietInCode
  <2>2. CASE code' # code
    <3>1. code # 0 /\ code' = 0 /\ misses' = 0
      BY <1>1, <2>2, <1>2
    <3> QED
      BY <1>1, <3>1, DropInCode
  <2> QED
    BY <2>1, <2>2
<1> QED
  BY <1>6, <1>7, <1>9, <1>10 DEF IInv

-----------------------------------------------------------------------------
LEMMA Step ==
  ASSUME IInv, [OtpNext]_otpVars
  PROVE  IInv' /\ CodeStep
<1>1. CASE UNCHANGED otpVars
  <2>1. UNCHANGED <<issued, code, left, misses, matched, tries, triesLeft,
                    rate, rateLeft, pending, asks>>
    BY <1>1 DEF otpVars, slot, counter, limiter
  <2>2. IInv'
    BY <2>1 DEF IInv, OtpTypeOK, Asked, Keys, LastCodeOnly, Budget, Spare
  <2> QED
    BY <2>1, <2>2, QuietInCode
<1> QED
  BY <1>1, AskKeeps, StoreKeeps, MatchedKeeps, InvalidKeeps, ExceededKeeps,
     TickKeeps DEF OtpNext, verify_otp_with_limit

LEMMA Start == ASSUME OtpInit PROVE IInv /\ Code!Init
<1>1. /\ issued = 0 /\ code = 0 /\ left = 0 /\ misses = 0 /\ matched = {}
      /\ tries = 0 /\ triesLeft = 0
      /\ rate = 0 /\ rateLeft = 0 /\ pending = 0 /\ asks = 0
  BY DEF OtpInit
<1>2. OtpTypeOK
  BY <1>1, Ticks, MaxAsksIsNatural DEF OtpTypeOK
<1>3. Asked /\ Keys /\ LastCodeOnly /\ Budget
  BY <1>1 DEF Asked, Keys, LastCodeOnly, Budget
<1>4. Code!Init
  BY <1>1 DEF Code!Init
<1> QED
  BY <1>2, <1>3, <1>4 DEF IInv

-----------------------------------------------------------------------------
(* The invariant holds always. *)
THEOREM InvHolds == OtpSpec => []IInv
<1>1. OtpInit => IInv
  BY Start
<1>2. IInv /\ [OtpNext]_otpVars => IInv'
  BY Step
<1> QED
  BY <1>1, <1>2, PTL DEF OtpSpec

(* Every variable keeps its type: the count of attempts is always below    *)
(* the limit, and no key outlives what it was set to.                      *)
THEOREM TypesHold == OtpSpec => []OtpTypeOK
<1>1. IInv => OtpTypeOK
  BY DEF IInv
<1> QED
  BY <1>1, InvHolds, PTL

(* A code and its attempts, each with an expiry of its own, implement the  *)
(* one-time code: matched once, the last one only, and at most five wrong  *)
(* attempts outlived, for every lifetime.                                  *)
THEOREM CodeIsImplemented == OtpSpec => ImplementsCode
<1>1. OtpInit => Code!Init
  BY Start
<1>2. IInv /\ [OtpNext]_otpVars => [Code!Next]_(Code!slot)
  BY Step DEF CodeStep
<1> QED
  BY <1>1, <1>2, InvHolds, PTL DEF OtpSpec, ImplementsCode, Code!Spec

-----------------------------------------------------------------------------
(***************************************************************************)
(* The sign-in that these codes are for: module SignIn, for any number of  *)
(* requests, codes and faults.                                             *)
(***************************************************************************)

(* What a request may have yet to await. *)
Rests ==
  {<<>>,
   <<"limit", "find", "store">>, <<"find", "store">>, <<"store">>,
   <<"match", "insert", "sadd", "issue">>, <<"insert", "sadd", "issue">>,
   <<"sadd", "issue">>, <<"issue">>,
   <<"find", "limit", "store">>, <<"limit", "store">>,
   <<"match", "find", "issue">>, <<"find", "issue">>,
   <<"match", "find">>, <<"find">>,
   <<"match", "find", "update", "sadd">>, <<"find", "update", "sadd">>,
   <<"update", "sadd">>, <<"sadd">>}

RequestType == [kind : Kinds, todo : Rests, code : Codes \cup {0}]

(* Where a request has taken back a code and is not yet through with it.   *)
Taken ==
  {<<"insert", "sadd", "issue">>, <<"sadd", "issue">>, <<"issue">>,
   <<"find", "issue">>,
   <<"find", "update", "sadd">>, <<"update", "sadd">>, <<"sadd">>}

(* What the requests about each kind of code may have yet to await.        *)
RegisterRests ==
  {<<>>,
   <<"limit", "find", "store">>,
   <<"find", "store">>,
   <<"store">>,
   <<"match", "insert", "sadd", "issue">>,
   <<"insert", "sadd", "issue">>,
   <<"sadd", "issue">>,
   <<"issue">>}
LoginRests ==
  {<<"find", "limit", "store">>,
   <<"limit", "store">>,
   <<"store">>,
   <<"match", "find", "issue">>,
   <<"find", "issue">>,
   <<"issue">>}
RecoverRests ==
  {<<"find", "store">>,
   <<"store">>,
   <<"match", "find">>,
   <<"find">>}
SetupRests ==
  {<<"store">>,
   <<"match", "find", "update", "sadd">>,
   <<"find", "update", "sadd">>,
   <<"update", "sadd">>,
   <<"sadd">>}
SecondRests ==
  {<<"store">>,
   <<"match", "find", "issue">>,
   <<"find", "issue">>,
   <<"issue">>}

Fits(r) ==
  /\ r \in RequestType
  /\ r.kind = "register" => r.todo \in RegisterRests
  /\ r.kind = "login" => r.todo \in LoginRests
  /\ r.kind = "recover" => r.todo \in RecoverRests
  /\ r.kind = "setup" => r.todo \in SetupRests
  /\ r.kind = "second" => r.todo \in SecondRests
  /\ r.todo = <<>> => r = Idle
  /\ r.todo \in Taken => r.code # 0

(* The code that a request has taken back is its own, and as good as new. *)
Holds(r) == r.code # 0 =>
  /\ r.code \in 1..Len(kind)
  /\ opened[r.code] = 0
  /\ \A k \in Kinds : good[k] # r.code
  /\ \/ kind[r.code] = r.kind
     \/ r.kind = "second" /\ r.todo = <<"store">>

(* A request that has registered the account, and has yet to open the      *)
(* session.                                                                *)
Registrar(r) ==
  r.kind = "register" /\ r.todo \in {<<"sadd", "issue">>, <<"issue">>}

(* Who has registered the account is alone with it; who has found it may   *)
(* add to it; and a code that is not of the second factor opens a session  *)
(* only if it is no younger than that.                                     *)
MayWrite(r) ==
  /\ Registrar(r) =>
       /\ account
       /\ \A c \in 1..Len(kind) : kind[c] = "register" => opened[c] = 0
  /\ r.todo \in {<<"update", "sadd">>, <<"sadd">>} => account
  /\ /\ twoFa /\ r.kind # "second"
     /\ r.todo \in {<<"sadd", "issue">>, <<"issue">>}
     => r.code <= enabledAt

(* The bounds, and the types of the variables.                             *)
Types ==
  /\ MaxCodes \in Nat /\ MaxFaults \in Nat
  /\ account \in BOOLEAN /\ hashed \in BOOLEAN /\ twoFa \in BOOLEAN
  /\ enabledAt \in 0..Len(kind)
  /\ kind \in Seq(Kinds) /\ Len(kind) <= MaxCodes
  /\ good \in [Kinds -> 0..Len(kind)]
  /\ opened \in [Codes -> Nat]
  /\ token \in BOOLEAN
  /\ DOMAIN task = Tasks /\ task = [t \in Tasks |-> task[t]]
  /\ faults \in 0..MaxFaults

(* A good code is of its kind and has opened nothing.                      *)
GoodCodes == \A k \in Kinds : good[k] # 0 =>
  kind[good[k]] = k /\ opened[good[k]] = 0

Opened ==
  /\ \A c \in Codes : opened[c] <= 1 /\ (opened[c] > 0 => c <= Len(kind))
  /\ \A c \in 1..Len(kind) : kind[c] = "register" /\ opened[c] > 0 => account

(* No two requests have the same code, nor both the registration.          *)
Exclusive == \A s, t \in Tasks : s # t =>
  /\ task[s].code # 0 => task[s].code # task[t].code
  /\ ~(Registrar(task[s]) /\ Registrar(task[t]))

Found ==
  /\ hashed => account
  /\ twoFa => account
  /\ account /\ faults = 0 => hashed \/ \E t \in Tasks : At(t, "sadd")

SignInInv ==
  /\ Types
  /\ GoodCodes
  /\ Opened
  /\ \A t \in Tasks : Fits(task[t]) /\ Holds(task[t]) /\ MayWrite(task[t])
  /\ Exclusive
  /\ RegisteredOnce
  /\ SecondFactorGuards
  /\ Found

-----------------------------------------------------------------------------
(* The requests, await by await. *)

LEMMA HeadOfRest ==
  ASSUME NEW r \in Rests, r # <<>>
  PROVE
    /\ Head(r) = "limit" <=>
         r \in {<<"limit", "find", "store">>, <<"limit", "store">>}
    /\ Head(r) = "find" <=>
         r \in {<<"find", "store">>, <<"find", "limit", "store">>,
                <<"find", "issue">>, <<"find">>, <<"find", "update", "sadd">>}
    /\ Head(r) = "store" <=> r \in {<<"store">>}
    /\ Head(r) = "match" <=>
         r \in {<<"match", "insert", "sadd", "issue">>,
                <<"match", "find", "issue">>, <<"match", "find">>,
                <<"match", "find", "update", "sadd">>}
    /\ Head(r) = "insert" <=> r \in {<<"insert", "sadd", "issue">>}
    /\ Head(r) = "sadd" <=> r \in {<<"sadd", "issue">>, <<"sadd">>}
    /\ Head(r) = "issue" <=> r \in {<<"issue">>}
    /\ Head(r) = "update" <=> r \in {<<"update", "sadd">>}
<1>1. CASE r = <<"limit", "find", "store">>
  BY <1>1
<1>2. CASE r = <<"find", "store">>
  BY <1>2
<1>3. CASE r = <<"store">>
  BY <1>3
<1>4. CASE r = <<"match", "insert", "sadd", "issue">>
  BY <1>4
<1>5. CASE r = <<"insert", "sadd", "issue">>
  BY <1>5
<1>6. CASE r = <<"sadd", "issue">>
  BY <1>6
<1>7. CASE r = <<"issue">>
  BY <1>7
<1>8. CASE r = <<"find", "limit", "store">>
  BY <1>8
<1>9. CASE r = <<"limit", "store">>
  BY <1>9
<1>10. CASE r = <<"match", "find", "issue">>
  BY <1>10
<1>11. CASE r = <<"find", "issue">>
  BY <1>11
<1>12. CASE r = <<"match", "find">>
  BY <1>12
<1>13. CASE r = <<"find">>
  BY <1>13
<1>14. CASE r = <<"match", "find", "update", "sadd">>
  BY <1>14
<1>15. CASE r = <<"find", "update", "sadd">>
  BY <1>15
<1>16. CASE r = <<"update", "sadd">>
  BY <1>16
<1>17. CASE r = <<"sadd">>
  BY <1>17
<1> QED
  BY <1>1, <1>2, <1>3, <1>4, <1>5, <1>6, <1>7, <1>8, <1>9, <1>10, <1>11,
     <1>12, <1>13, <1>14, <1>15, <1>16, <1>17 DEF Rests

LEMMA TailOfRest ==
  /\ Tail(<<"limit", "find", "store">>) = <<"find", "store">>
  /\ Tail(<<"find", "store">>) = <<"store">>
  /\ Tail(<<"store">>) = <<>>
  /\ Tail(<<"match", "insert", "sadd", "issue">>) = <<"insert", "sadd",
                                                      "issue">>
  /\ Tail(<<"insert", "sadd", "issue">>) = <<"sadd", "issue">>
  /\ Tail(<<"sadd", "issue">>) = <<"issue">>
  /\ Tail(<<"issue">>) = <<>>
  /\ Tail(<<"find", "limit", "store">>) = <<"limit", "store">>
  /\ Tail(<<"limit", "store">>) = <<"store">>
  /\ Tail(<<"match", "find", "issue">>) = <<"find", "issue">>
  /\ Tail(<<"find", "issue">>) = <<"issue">>
  /\ Tail(<<"match", "find">>) = <<"find">>
  /\ Tail(<<"find">>) = <<>>
  /\ Tail(<<"match", "find", "update", "sadd">>) = <<"find", "update", "sadd">>
  /\ Tail(<<"find", "update", "sadd">>) = <<"update", "sadd">>
  /\ Tail(<<"update", "sadd">>) = <<"sadd">>
  /\ Tail(<<"sadd">>) = <<>>
OBVIOUS

-----------------------------------------------------------------------------
(* What keeps the invariant whatever it does to the requests: a step that  *)
(* leaves the account, the codes and the sessions alone, and at most loses *)
(* codes that were good.                                                   *)

LEMMA IdleFits ==
  /\ Fits(Idle) /\ Idle.code = 0 /\ Idle.todo = <<>>
  /\ ~Registrar(Idle) /\ Holds(Idle) /\ MayWrite(Idle)
<1>1. Idle \in RequestType
  BY DEF Idle, RequestType, Rests, Kinds
<1>2. Idle.code = 0 /\ Idle.todo = <<>> /\ Idle.kind = "register"
  BY DEF Idle
<1>3. Idle.todo \notin Taken /\ ~Registrar(Idle)
      /\ Idle.todo \notin {<<"update", "sadd">>, <<"sadd">>,
                             <<"sadd", "issue">>, <<"issue">>}
  BY <1>2 DEF Taken, Registrar
<1>4. Fits(Idle)
  BY <1>1, <1>2, <1>3 DEF Fits, RegisterRests
<1>5. Holds(Idle) /\ MayWrite(Idle)
  BY <1>2, <1>3, Zenon DEF Holds, MayWrite
<1> QED
  BY <1>2, <1>3, <1>4, <1>5

LEMMA QuietKeeps ==
  ASSUME SignInInv,
         UNCHANGED <<account, hashed, twoFa, enabledAt, kind, opened>>,
         good' \in [Kinds -> 0..Len(kind)],
         \A k \in Kinds : good'[k] \in {0, good[k]},
         token' \in BOOLEAN,
         faults' \in faults..MaxFaults,
         DOMAIN task' = Tasks, task' = [t \in Tasks |-> task'[t]],
         \A t \in Tasks : task'[t] # task[t] =>
           /\ Fits(task'[t]) /\ Holds(task[t])' /\ MayWrite(task'[t])
           /\ ~Registrar(task'[t])
           /\ At(t, "sadd") => faults' > 0
           /\ \A s \in Tasks : s # t /\ task'[t].code # 0 =>
                                  task'[s].code # task'[t].code
  PROVE  SignInInv'
<1>1. Types'
  BY DEF SignInInv, Types
<1>2. GoodCodes' /\ Opened'
  BY DEF SignInInv, GoodCodes, Opened
<1>3. \A t \in Tasks : Fits(task[t])' /\ Holds(task[t])' /\ MayWrite(task[t])'
  <2> SUFFICES ASSUME NEW t \in Tasks
               PROVE  Fits(task[t])' /\ Holds(task[t])' /\ MayWrite(task[t])'
    OBVIOUS
  <2>1. CASE task'[t] = task[t]
    BY <2>1 DEF SignInInv, Fits, Holds, MayWrite
  <2>2. CASE task'[t] # task[t]
    BY <2>2 DEF Fits, MayWrite
  <2> QED
    BY <2>1, <2>2
<1>4. Exclusive'
  <2> SUFFICES ASSUME NEW s \in Tasks, NEW t \in Tasks, s # t
               PROVE  /\ task'[s].code # 0 => task'[s].code # task'[t].code
                      /\ ~(Registrar(task'[s]) /\ Registrar(task'[t]))
    BY DEF Exclusive, Registrar
  <2>1. CASE task'[s] = task[s] /\ task'[t] = task[t]
    BY <2>1 DEF SignInInv, Exclusive
  <2>2. CASE task'[s] # task[s] \/ task'[t] # task[t]
    BY <2>2
  <2> QED
    BY <2>1, <2>2
<1>5. RegisteredOnce' /\ SecondFactorGuards'
  BY DEF SignInInv, RegisteredOnce, SecondFactorGuards
<1>6. Found'
  <2>1. ASSUME faults' = 0, NEW t \in Tasks, At(t, "sadd")
        PROVE  At(t, "sadd")'
    <3>1. task'[t] = task[t]
      BY <2>1
    <3> QED
      BY <2>1, <3>1 DEF At
  <2>2. faults' = 0 => faults = 0
    BY DEF SignInInv, Types
  <2> QED
    BY <2>1, <2>2 DEF SignInInv, Found
<1> QED
  BY <1>1, <1>2, <1>3, <1>4, <1>5, <1>6 DEF SignInInv

LEMMA Moved ==
  ASSUME SignInInv, NEW t \in Tasks, NEW r, task' = [task EXCEPT ![t] = r]
  PROVE  /\ DOMAIN task' = Tasks
         /\ task' = [u \in Tasks |-> task'[u]]
         /\ task'[t] = r
         /\ \A u \in Tasks : u # t => task'[u] = task[u]
BY DEF SignInInv, Types

LEMMA ReturnKeeps ==
  ASSUME SignInInv, NEW t \in Tasks, Return(t),
         UNCHANGED <<account, hashed, twoFa, enabledAt, kind, opened>>,
         good' \in [Kinds -> 0..Len(kind)],
         \A k \in Kinds : good'[k] \in {0, good[k]},
         token' \in BOOLEAN,
         faults' \in faults..MaxFaults,
         At(t, "sadd") => faults' > 0
  PROVE  SignInInv'
<1>1. /\ DOMAIN task' = Tasks
      /\ task' = [u \in Tasks |-> task'[u]]
      /\ task'[t] = Idle
      /\ \A u \in Tasks : u # t => task'[u] = task[u]
  BY Moved DEF Return
<1>2. Holds(task[t])'
  BY <1>1, IdleFits DEF Holds
<1> QED
  BY <1>1, <1>2, IdleFits, QuietKeeps

(* Where a request goes on that has no code to take back first. *)
LEMMA GoesOn ==
  ASSUME NEW r \in Rests, r # <<>>, Head(r) # "match", Tail(r) # <<>>
  PROVE  /\ Tail(r) \in Rests /\ r # <<"store">>
         /\ Tail(r) \in Taken => r \in Taken
         /\ r \in RegisterRests => Tail(r) \in RegisterRests
         /\ r \in LoginRests => Tail(r) \in LoginRests
         /\ r \in RecoverRests => Tail(r) \in RecoverRests
         /\ r \in SetupRests => Tail(r) \in SetupRests
         /\ r \in SecondRests => Tail(r) \in SecondRests
<1> USE DEF Rests, Taken, RegisterRests, LoginRests, RecoverRests,
            SetupRests, SecondRests
<1>1. CASE r = <<"limit", "find", "store">>
  BY <1>1, TailOfRest
<1>2. CASE r = <<"find", "store">>
  BY <1>2, TailOfRest
<1>3. CASE r = <<"insert", "sadd", "issue">>
  BY <1>3, TailOfRest
<1>4. CASE r = <<"sadd", "issue">>
  BY <1>4, TailOfRest
<1>5. CASE r = <<"find", "limit", "store">>
  BY <1>5, TailOfRest
<1>6. CASE r = <<"limit", "store">>
  BY <1>6, TailOfRest
<1>7. CASE r = <<"find", "issue">>
  BY <1>7, TailOfRest
<1>8. CASE r = <<"find", "update", "sadd">>
  BY <1>8, TailOfRest
<1>9. CASE r = <<"update", "sadd">>
  BY <1>9, TailOfRest
<1> HIDE DEF Taken, RegisterRests, LoginRests, RecoverRests,
            SetupRests, SecondRests
<1>10. CASE r \in {<<"store">>, <<"issue">>, <<"find">>, <<"sadd">>}
  BY <1>10, TailOfRest
<1>11. CASE r \in {<<"match", "insert", "sadd", "issue">>,
                  <<"match", "find", "issue">>, <<"match", "find">>,
                  <<"match", "find", "update", "sadd">>}
  BY <1>11, HeadOfRest
<1> QED
  BY <1>1, <1>2, <1>3, <1>4, <1>5, <1>6, <1>7, <1>8, <1>9, <1>10, <1>11

(* A request that goes on has the same code, and what it has yet to await  *)
(* still fits it. *)
LEMMA Proceeds ==
  ASSUME SignInInv, NEW t \in Tasks, Proceed(t),
         task[t].todo # <<>>, Head(task[t].todo) # "match"
  PROVE  /\ DOMAIN task' = Tasks
         /\ task' = [u \in Tasks |-> task'[u]]
         /\ \A u \in Tasks : u # t => task'[u] = task[u]
         /\ Fits(task'[t])
         /\ task'[t].todo = Tail(task[t].todo)
         /\ \/ task'[t] = Idle
            \/ /\ task'[t].kind = task[t].kind
               /\ task'[t].code = task[t].code
               /\ task[t].todo # <<"store">>
<1> DEFINE r == task[t]
           n == [r EXCEPT !.todo = Tail(r.todo)]
           m == IF Tail(r.todo) = <<>> THEN Idle ELSE n
<1>1. task' = [task EXCEPT ![t] = m]
  BY DEF Proceed
<1>2. /\ DOMAIN task' = Tasks
      /\ task' = [u \in Tasks |-> task'[u]]
      /\ task'[t] = m
      /\ \A u \in Tasks : u # t => task'[u] = task[u]
  <2> HIDE DEF m
  <2> QED
    BY <1>1, Moved
<1>3. r \in RequestType /\ Fits(r)
  BY DEF SignInInv, Fits
<1>4. n \in [kind : Kinds, todo : {Tail(r.todo)}, code : Codes \cup {0}]
      /\ n.kind = r.kind /\ n.code = r.code /\ n.todo = Tail(r.todo)
  BY <1>3 DEF RequestType
<1>5. ASSUME Tail(r.todo) # <<>>
      PROVE  Fits(n) /\ r.todo # <<"store">>
  <2>1. /\ r.todo \in Rests /\ r.kind \in Kinds
        /\ r.code \in Codes \cup {0}
        /\ r.todo # <<>> /\ Head(r.todo) # "match"
    BY <1>3 DEF RequestType
  <2> HIDE DEF r, n
  <2>2. n \in RequestType /\ r.todo # <<"store">>
    BY <1>4, <1>5, <2>1, GoesOn DEF RequestType
  <2> QED
    BY <1>3, <1>4, <1>5, <2>1, <2>2, GoesOn DEF Fits
<1> HIDE DEF n
<1>6. CASE Tail(r.todo) = <<>>
  BY <1>2, <1>6, IdleFits
<1>7. CASE Tail(r.todo) # <<>>
  BY <1>2, <1>4, <1>5, <1>7
<1> QED
  BY <1>2, <1>6, <1>7

LEMMA HoldsStays ==
  ASSUME NEW r, NEW n, Holds(r), UNCHANGED <<kind, opened>>,
         \A k \in Kinds : good'[k] \in {0, good[k]},
         n.code = r.code, n.kind = r.kind, r.todo # <<"store">>,
         r.code \in Nat
  PROVE  Holds(n)'
BY DEF Holds

LEMMA StillApart ==
  ASSUME SignInInv, NEW t \in Tasks,
         \A u \in Tasks : u # t => task'[u] = task[u],
         task'[t].code \in {0, task[t].code}
  PROVE  \A s \in Tasks : s # t /\ task'[t].code # 0 =>
                             task'[s].code # task'[t].code
BY DEF SignInInv, Exclusive

(* A request that goes on without writing anything. *)
LEMMA ProceedKeeps ==
  ASSUME SignInInv, NEW t \in Tasks, Proceed(t),
         UNCHANGED <<account, hashed, twoFa, enabledAt, good, kind, opened,
                     faults>>,
         token' \in BOOLEAN,
         task[t].todo # <<>>,
         Head(task[t].todo) \notin {"match", "sadd"},
         MayWrite(task'[t]), ~Registrar(task'[t])
  PROVE  SignInInv'
<1>1. /\ Types /\ Fits(task[t]) /\ Holds(task[t])
      /\ task[t].code \in Nat
  BY DEF SignInInv, Fits, RequestType, Codes
<1>2. /\ DOMAIN task' = Tasks
      /\ task' = [u \in Tasks |-> task'[u]]
      /\ \A u \in Tasks : u # t => task'[u] = task[u]
      /\ Fits(task'[t])
      /\ \/ task'[t] = Idle
         \/ /\ task'[t].kind = task[t].kind
            /\ task'[t].code = task[t].code
            /\ task[t].todo # <<"store">>
  BY Proceeds
<1>3. Holds(task[t])'
  BY <1>1, <1>2, HoldsStays, IdleFits DEF Types, Holds
<1>4. \A s \in Tasks : s # t /\ task'[t].code # 0 =>
                         task'[s].code # task'[t].code
  BY <1>2, StillApart, IdleFits
<1> QED
  BY <1>1, <1>2, <1>3, <1>4, QuietKeeps DEF At, Types

LEMMA HeadFound ==
  ASSUME NEW r, Fits(r), r.todo # <<>>, Head(r.todo) = "find"
  PROVE  /\ r.kind = "register" => Tail(r.todo) = <<"store">>
         /\ Tail(r.todo) = <<"issue">> => r.todo = <<"find", "issue">>
         /\ Tail(r.todo) # <<"sadd", "issue">>
         /\ Tail(r.todo) # <<"sadd">>
         /\ Tail(r.todo) = <<"update", "sadd">> => r.kind = "setup"
<1>1. r.todo \in Rests
  BY DEF Fits, RequestType
<1>2. r.todo \in {<<"find", "store">>, <<"find", "limit", "store">>,
                 <<"find", "issue">>, <<"find">>, <<"find", "update", "sadd">>}
  BY <1>1, HeadOfRest
<1>3. CASE r.todo = <<"find", "store">>
  BY <1>3, TailOfRest
<1>4. CASE r.todo = <<"find", "limit", "store">>
  BY <1>4, TailOfRest DEF Fits, RegisterRests
<1>5. CASE r.todo = <<"find", "issue">>
  BY <1>5, TailOfRest DEF Fits, RegisterRests
<1>6. CASE r.todo = <<"find">>
  BY <1>6, TailOfRest DEF Fits, RegisterRests
<1>7. CASE r.todo = <<"find", "update", "sadd">>
  <2>1. Tail(r.todo) = <<"update", "sadd">>
    BY <1>7, TailOfRest
  <2>2. r.kind = "setup"
    BY <1>7 DEF Fits, RegisterRests, LoginRests, RecoverRests, SecondRests,
                RequestType, Kinds
  <2> QED
    BY <2>1, <2>2
<1> QED
  BY <1>2, <1>3, <1>4, <1>5, <1>6, <1>7

LEMMA HeadLimited ==
  ASSUME NEW r \in Rests, r # <<>>, Head(r) = "limit"
  PROVE  Tail(r) \in {<<"find", "store">>, <<"store">>}
BY HeadOfRest, TailOfRest

LEMMA SpawnKeeps ==
  ASSUME SignInInv, NEW t \in Tasks, NEW k, NEW h, Spawn(t, k, h),
         Fits([kind |-> k, todo |-> h, code |-> 0]),
         h \notin Taken
  PROVE  SignInInv'
<1> DEFINE r == [kind |-> k, todo |-> h, code |-> 0]
<1>1. /\ DOMAIN task' = Tasks
      /\ task' = [u \in Tasks |-> task'[u]]
      /\ task'[t] = r
      /\ \A u \in Tasks : u # t => task'[u] = task[u]
  BY Moved DEF Spawn
<1>2. UNCHANGED <<account, hashed, twoFa, enabledAt, good, kind, opened,
                  token, faults>>
  BY DEF Spawn, user, codes
<1>3. Holds(task[t])'
  BY <1>1 DEF Holds
<1>4. /\ h # <<"sadd", "issue">> /\ h # <<"issue">>
      /\ h # <<"update", "sadd">> /\ h # <<"sadd">>
  BY DEF Taken
<1>5. MayWrite(r) /\ ~Registrar(r)
  BY <1>4 DEF MayWrite, Registrar
<1>6. ~At(t, "sadd")
  BY DEF At, Spawn, Idle
<1> HIDE DEF r
<1> QED
  <2>1. Types
    BY DEF SignInInv
  <2>2. task'[t].code = 0
    BY <1>1 DEF r
  <2> QED
    BY <1>1, <1>2, <1>3, <1>5, <1>6, <2>1, <2>2, QuietKeeps DEF r, Types

LEMMA HandlersFit ==
  /\ Fits([kind |-> "register", todo |-> register, code |-> 0])
  /\ Fits([kind |-> "register", todo |-> verify_phone, code |-> 0])
  /\ Fits([kind |-> "login", todo |-> login, code |-> 0])
  /\ Fits([kind |-> "login", todo |-> login_verify, code |-> 0])
  /\ Fits([kind |-> "recover", todo |-> recover, code |-> 0])
  /\ Fits([kind |-> "recover", todo |-> recover_verify, code |-> 0])
  /\ Fits([kind |-> "setup", todo |-> two_fa_setup, code |-> 0])
  /\ Fits([kind |-> "setup", todo |-> two_fa_setup_verify, code |-> 0])
  /\ Fits([kind |-> "second", todo |-> two_fa_verify, code |-> 0])
  /\ \A h \in {register, verify_phone, login, login_verify,
               recover, recover_verify, two_fa_setup,
               two_fa_setup_verify, two_fa_verify} :
       h \notin Taken
<1> USE DEF RequestType, Rests, Kinds
<1>1. /\ Fits([kind |-> "register", todo |-> register, code |-> 0])
      /\ register \notin Taken
  <2>1. register \in Rests /\ register \in RegisterRests
        /\ register # <<>>
        /\ register \notin Taken
    BY DEF register, Rests, RegisterRests, Taken
  <2> QED
    BY <2>1 DEF Fits
<1>2. /\ Fits([kind |-> "register", todo |-> verify_phone, code |-> 0])
      /\ verify_phone \notin Taken
  <2>1. verify_phone \in Rests /\ verify_phone \in RegisterRests
        /\ verify_phone # <<>>
        /\ verify_phone \notin Taken
    BY DEF verify_phone, Rests, RegisterRests, Taken
  <2> QED
    BY <2>1 DEF Fits
<1>3. /\ Fits([kind |-> "login", todo |-> login, code |-> 0])
      /\ login \notin Taken
  <2>1. login \in Rests /\ login \in LoginRests /\ login # <<>>
        /\ login \notin Taken
    BY DEF login, Rests, LoginRests, Taken
  <2> QED
    BY <2>1 DEF Fits
<1>4. /\ Fits([kind |-> "login", todo |-> login_verify, code |-> 0])
      /\ login_verify \notin Taken
  <2>1. login_verify \in Rests /\ login_verify \in LoginRests
        /\ login_verify # <<>>
        /\ login_verify \notin Taken
    BY DEF login_verify, Rests, LoginRests, Taken
  <2> QED
    BY <2>1 DEF Fits
<1>5. /\ Fits([kind |-> "recover", todo |-> recover, code |-> 0])
      /\ recover \notin Taken
  <2>1. recover \in Rests /\ recover \in RecoverRests /\ recover # <<>>
        /\ recover \notin Taken
    BY DEF recover, Rests, RecoverRests, Taken
  <2> QED
    BY <2>1 DEF Fits
<1>6. /\ Fits([kind |-> "recover", todo |-> recover_verify, code |-> 0])
      /\ recover_verify \notin Taken
  <2>1. recover_verify \in Rests /\ recover_verify \in RecoverRests
        /\ recover_verify # <<>>
        /\ recover_verify \notin Taken
    BY DEF recover_verify, Rests, RecoverRests, Taken
  <2> QED
    BY <2>1 DEF Fits
<1>7. /\ Fits([kind |-> "setup", todo |-> two_fa_setup, code |-> 0])
      /\ two_fa_setup \notin Taken
  <2>1. two_fa_setup \in Rests /\ two_fa_setup \in SetupRests
        /\ two_fa_setup # <<>>
        /\ two_fa_setup \notin Taken
    BY DEF two_fa_setup, Rests, SetupRests, Taken
  <2> QED
    BY <2>1 DEF Fits
<1>8. /\ Fits([kind |-> "setup", todo |-> two_fa_setup_verify, code |-> 0])
      /\ two_fa_setup_verify \notin Taken
  <2>1. two_fa_setup_verify \in Rests
        /\ two_fa_setup_verify \in SetupRests /\ two_fa_setup_verify # <<>>
        /\ two_fa_setup_verify \notin Taken
    BY DEF two_fa_setup_verify, Rests, SetupRests, Taken
  <2> QED
    BY <2>1 DEF Fits
<1>9. /\ Fits([kind |-> "second", todo |-> two_fa_verify, code |-> 0])
      /\ two_fa_verify \notin Taken
  <2>1. two_fa_verify \in Rests /\ two_fa_verify \in SecondRests
        /\ two_fa_verify # <<>>
        /\ two_fa_verify \notin Taken
    BY DEF two_fa_verify, Rests, SecondRests, Taken
  <2> QED
    BY <2>1 DEF Fits
<1> QED
  BY <1>1, <1>2, <1>3, <1>4, <1>5, <1>6, <1>7, <1>8, <1>9

LEMMA RequestKeeps ==
  ASSUME SignInInv, NEW t \in Tasks, Request(t)
  PROVE  SignInInv'
BY SpawnKeeps, HandlersFit DEF Request

LEMMA CheckLimitKeeps ==
  ASSUME SignInInv, NEW t \in Tasks, CheckLimit(t)
  PROVE  SignInInv'
<1>1. /\ UNCHANGED <<account, hashed, twoFa, enabledAt, good, kind, opened,
                     token, faults>>
      /\ Types /\ Fits(task[t]) /\ Holds(task[t])
      /\ task[t].todo # <<>> /\ Head(task[t].todo) = "limit"
  BY DEF CheckLimit, user, codes, At, SignInInv
<1>2. CASE Return(t)
  BY <1>1, <1>2, ReturnKeeps DEF Types, At
<1>3. CASE Proceed(t)
  <2>1. Tail(task[t].todo) \in {<<"find", "store">>, <<"store">>}
    BY <1>1, HeadLimited DEF Fits, RequestType
  <2>2. task'[t].todo \in {<<"find", "store">>, <<"store">>}
    BY <1>1, <1>3, <2>1, Proceeds
  <2>3. MayWrite(task'[t]) /\ ~Registrar(task'[t])
    BY <2>2 DEF MayWrite, Registrar
  <2> QED
    BY <1>1, <1>3, <2>3, ProceedKeeps DEF Types
<1> QED
  BY <1>2, <1>3 DEF CheckLimit

LEMMA FindUserKeeps ==
  ASSUME SignInInv, NEW t \in Tasks, FindUser(t)
  PROVE  SignInInv'
<1>1. /\ UNCHANGED <<account, hashed, twoFa, enabledAt, good, kind, opened,
                     faults>>
      /\ Types /\ Fits(task[t]) /\ Holds(task[t])
      /\ task[t].todo # <<>> /\ Head(task[t].todo) = "find"
      /\ token' \in BOOLEAN
  BY DEF FindUser, user, codes, At, SignInInv, Types
<1>2. CASE Return(t)
  BY <1>1, <1>2, ReturnKeeps DEF Types, At
<1>3. ASSUME Proceed(t), account # (task[t].kind = "register"),
             ~ /\ task[t].todo = Tail(login_verify)
               /\ task[t].kind = "login" /\ twoFa
      PROVE  SignInInv'
  <2>1. task'[t].todo = Tail(task[t].todo)
    BY <1>1, <1>3, Proceeds
  <2>2. \/ task'[t] = Idle
        \/ task'[t].kind = task[t].kind /\ task'[t].code = task[t].code
    BY <1>1, <1>3, Proceeds
  <2>3. ~Registrar(task'[t])
    <3>1. CASE task'[t] = Idle
      BY <3>1, IdleFits
    <3>2. CASE task'[t].kind = task[t].kind
      <4>1. task[t].kind = "register" => task'[t].todo = <<"store">>
        BY <1>1, <2>1, HeadFound
      <4> QED
        BY <3>2, <4>1 DEF Registrar
    <3> QED
      BY <2>2, <3>1, <3>2
  <2>4. task'[t].todo \in {<<"update", "sadd">>, <<"sadd">>} => account
    <3>1. SUFFICES ASSUME task'[t].todo = <<"update", "sadd">>
                   PROVE  account
      BY <1>1, <2>1, HeadFound
    <3>2. task[t].kind = "setup"
      BY <1>1, <2>1, <3>1, HeadFound
    <3> QED
      BY <1>1, <1>3, <3>2 DEF Types
  <2>5. ~ /\ twoFa /\ task'[t].kind # "second"
          /\ task'[t].todo \in {<<"sadd", "issue">>, <<"issue">>}
    <3>1. SUFFICES ASSUME twoFa, task'[t].kind # "second",
                          task'[t].todo = <<"issue">>
                   PROVE  FALSE
      BY <1>1, <2>1, HeadFound
    <3>2. task[t].todo = <<"find", "issue">>
      BY <1>1, <2>1, <3>1, HeadFound
    <3>3. task[t].todo = Tail(login_verify)
      BY <3>2, TailOfRest DEF login_verify
    <3>4. task'[t].kind = task[t].kind
      <4>1. task'[t].todo # <<>>
        BY <3>1
      <4> QED
        BY <2>2, <4>1, IdleFits
    <3>5. task[t].kind \in {"login", "second"}
      BY <1>1, <3>2 DEF Fits, RegisterRests, RecoverRests, SetupRests,
                        RequestType, Kinds
    <3> QED
      BY <1>3, <3>1, <3>3, <3>4, <3>5
  <2>6. MayWrite(task'[t])
    BY <2>3, <2>4, <2>5 DEF MayWrite
  <2> QED
    BY <1>1, <1>3, <2>3, <2>6, ProceedKeeps
<1>4. ASSUME task' = [task EXCEPT ![t].kind = "second",
                                  ![t].todo = second_factor]
      PROVE  SignInInv'
  <2> DEFINE n == [task[t] EXCEPT !.kind = "second", !.todo = second_factor]
  <2>1. task' = [task EXCEPT ![t] = n]
    BY <1>1, <1>4 DEF Types
  <2>2. /\ n.kind = "second" /\ n.todo = <<"store">>
        /\ n.code = task[t].code /\ n \in RequestType
    BY <1>1 DEF second_factor, Fits, RequestType, Rests, Kinds
  <2> HIDE DEF n
  <2>3. /\ DOMAIN task' = Tasks
        /\ task' = [u \in Tasks |-> task'[u]]
        /\ task'[t] = n
        /\ \A u \in Tasks : u # t => task'[u] = task[u]
    BY <2>1, Moved
  <2>4. /\ n.todo # <<>> /\ n.todo \notin Taken
        /\ n.todo \in SecondRests /\ ~Registrar(n) /\ MayWrite(n)
    BY <2>2 DEF Taken, SecondRests, Registrar, MayWrite
  <2>5. Fits(n)
    BY <2>2, <2>4 DEF Fits
  <2>6. Holds(task[t])'
    BY <1>1, <2>2, <2>3 DEF Holds
  <2>7. \A s \in Tasks : s # t /\ task'[t].code # 0 =>
                           task'[s].code # task'[t].code
    BY <2>2, <2>3, StillApart
  <2> QED
    BY <1>1, <2>3, <2>4, <2>5, <2>6, <2>7, QuietKeeps DEF At, Types
<1> QED
  BY <1>2, <1>3, <1>4 DEF FindUser

LEMMA HeadMatched ==
  ASSUME NEW r \in Rests, r # <<>>, Head(r) = "match"
  PROVE  /\ Tail(r) \in {<<"insert", "sadd", "issue">>, <<"find", "issue">>,
                        <<"find">>, <<"find", "update", "sadd">>}
         /\ r \in RegisterRests => Tail(r) \in RegisterRests
         /\ r \in LoginRests => Tail(r) \in LoginRests
         /\ r \in RecoverRests => Tail(r) \in RecoverRests
         /\ r \in SetupRests => Tail(r) \in SetupRests
         /\ r \in SecondRests => Tail(r) \in SecondRests
<1>1. r \in {<<"match", "insert", "sadd", "issue">>,
            <<"match", "find", "issue">>, <<"match", "find">>,
            <<"match", "find", "update", "sadd">>}
  BY HeadOfRest
<1> USE TailOfRest DEF RegisterRests, LoginRests, RecoverRests, SetupRests,
                       SecondRests
<1>2. CASE r = <<"match", "insert", "sadd", "issue">>
  BY <1>2
<1>3. CASE r = <<"match", "find", "issue">>
  BY <1>3
<1>4. CASE r = <<"match", "find">>
  BY <1>4
<1>5. CASE r = <<"match", "find", "update", "sadd">>
  BY <1>5
<1> QED
  BY <1>1, <1>2, <1>3, <1>4, <1>5

LEMMA MatchLosesCode ==
  ASSUME SignInInv, NEW t \in Tasks, verify_otp(t)
  PROVE  /\ good' \in [Kinds -> 0..Len(kind)]
         /\ \A k \in Kinds : good'[k] \in {0, good[k]}
         /\ task[t].kind \in Kinds
         /\ good'[task[t].kind] = 0
         /\ \A k \in Kinds \ {task[t].kind} : good'[k] = good[k]
         /\ good[task[t].kind] # 0
         /\ task[t].todo # <<>> /\ Head(task[t].todo) = "match"
<1>1. good \in [Kinds -> 0..Len(kind)] /\ task[t].kind \in Kinds
      /\ Len(kind) \in Nat
  BY DEF SignInInv, Types, Fits, RequestType
<1> QED
  BY <1>1 DEF verify_otp, At

LEMMA VerifyCodeKeeps ==
  ASSUME SignInInv, NEW t \in Tasks, VerifyCode(t)
  PROVE  SignInInv'
<1>1. /\ UNCHANGED <<account, hashed, twoFa, enabledAt, kind, opened, token,
                     faults>>
      /\ Types /\ Fits(task[t]) /\ Holds(task[t]) /\ GoodCodes
      /\ \A s \in Tasks : Holds(task[s])
  BY DEF VerifyCode, user, SignInInv
<1>2. CASE At(t, "match") /\ Return(t) /\ UNCHANGED good
  BY <1>1, <1>2, ReturnKeeps DEF Types, At
<1>3. ASSUME verify_otp(t),
             task' = [task EXCEPT ![t].todo = Tail(@),
                                  ![t].code = good[task[t].kind]]
      PROVE  SignInInv'
  <2> DEFINE n == [task[t] EXCEPT !.todo = Tail(task[t].todo),
                                  !.code = good[task[t].kind]]
  <2>1. task' = [task EXCEPT ![t] = n]
    BY <1>1, <1>3 DEF Types
  <2>2. /\ task[t] \in RequestType /\ task[t].todo \in Rests
        /\ Head(task[t].todo) = "match" /\ task[t].todo # <<>>
        /\ task[t].kind \in Kinds
        /\ good[task[t].kind] \in 1..Len(kind)
        /\ Len(kind) \in Nat /\ Len(kind) <= MaxCodes
    BY <1>1, <1>3, MatchLosesCode DEF Fits, RequestType, Types
  <2>3. Tail(task[t].todo) \in Rests
    BY <2>2, HeadMatched DEF Rests
  <2>4. /\ n.kind = task[t].kind /\ n.todo = Tail(task[t].todo)
        /\ n.code = good[task[t].kind] /\ n \in RequestType
    <3>1. good[task[t].kind] \in Codes
      BY <2>2 DEF Codes, Types, SignInInv
    <3> QED
      BY <2>2, <2>3, <3>1 DEF RequestType
  <2> HIDE DEF n
  <2>5. /\ DOMAIN task' = Tasks
        /\ task' = [u \in Tasks |-> task'[u]]
        /\ task'[t] = n
        /\ \A u \in Tasks : u # t => task'[u] = task[u]
    BY <2>1, Moved
  <2>6. n.todo \in {<<"insert", "sadd", "issue">>, <<"find", "issue">>,
                   <<"find">>, <<"find", "update", "sadd">>}
    BY <2>2, <2>4, HeadMatched
  <2>7. n.todo # <<>> /\ n.code # 0 /\ ~Registrar(n) /\ MayWrite(n)
    <3>1. n.todo # <<>>
      BY <2>6
    <3>3. n.code # 0
      BY <2>2, <2>4
    <3>2. n.todo \notin {<<"sadd", "issue">>, <<"issue">>,
                        <<"update", "sadd">>, <<"sadd">>}
      BY <2>6
    <3> QED
      BY <3>1, <3>2, <3>3, Zenon DEF Registrar, MayWrite
  <2>8. Fits(n)
    BY <1>1, <2>2, <2>4, <2>7, HeadMatched DEF Fits
  <2>9. Holds(task[t])'
    <3>1. /\ opened[n.code] = 0 /\ kind[n.code] = n.kind
          /\ n.code \in 1..Len(kind)
      BY <1>1, <2>2, <2>4 DEF GoodCodes
    <3>2. \A k \in Kinds : good'[k] # n.code
      <4> SUFFICES ASSUME NEW k \in Kinds, good'[k] = n.code
                   PROVE  FALSE
        OBVIOUS
      <4>1. k # task[t].kind /\ good'[k] = good[k] /\ good[k] # 0
        BY <1>3, <2>2, <2>4, MatchLosesCode
      <4>2. kind[good[k]] = k
        BY <1>1, <4>1 DEF GoodCodes
      <4> QED
        BY <2>4, <3>1, <4>1, <4>2
    <3> QED
      BY <1>1, <2>5, <3>1, <3>2 DEF Holds
  <2>10. \A s \in Tasks : s # t => task'[s].code # task'[t].code
    BY <1>1, <2>2, <2>4, <2>5 DEF Holds
  <2>11. ~At(t, "sadd")
    BY <2>2 DEF At
  <2>12. token' \in BOOLEAN /\ faults' \in faults..MaxFaults
    BY <1>1 DEF Types
  <2>13. /\ good' \in [Kinds -> 0..Len(kind)]
         /\ \A k \in Kinds : good'[k] \in {0, good[k]}
    BY <1>3, MatchLosesCode
  <2> QED
    BY <1>1, <2>5, <2>7, <2>8, <2>9, <2>10, <2>11, <2>12, <2>13, QuietKeeps
<1> QED
  BY <1>2, <1>3 DEF VerifyCode

LEMMA LossKeeps ==
  ASSUME SignInInv, (\E k \in Kinds : CodeIsLost(k)) \/ TokenExpires
  PROVE  SignInInv'
<1>1. /\ UNCHANGED <<account, hashed, twoFa, enabledAt, kind, opened, task,
                     faults>>
      /\ token' \in BOOLEAN /\ faults' \in faults..MaxFaults
      /\ good' \in [Kinds -> 0..Len(kind)]
      /\ \A k \in Kinds : good'[k] \in {0, good[k]}
  <2>1. Types /\ Len(kind) \in Nat
    BY DEF SignInInv, Types
  <2>2. CASE TokenExpires
    <3>1. /\ UNCHANGED <<account, hashed, twoFa, enabledAt, good, kind,
                         opened, task, faults>>
          /\ token' \in BOOLEAN
      BY <2>2 DEF TokenExpires, user, codes
    <3>2. faults' \in faults..MaxFaults /\ good' \in [Kinds -> 0..Len(kind)]
      BY <2>1, <3>1 DEF Types
    <3> QED
      BY <3>1, <3>2
  <2>3. CASE \E k \in Kinds : CodeIsLost(k)
    <3>1. PICK k \in Kinds : CodeIsLost(k)
      BY <2>3
    <3>2. /\ UNCHANGED <<account, hashed, twoFa, enabledAt, kind, opened,
                         token, task, faults>>
          /\ good' = [good EXCEPT ![k] = 0]
      BY <3>1 DEF CodeIsLost, user
    <3>3. good \in [Kinds -> 0..Len(kind)] /\ 0 \in 0..Len(kind)
      BY <2>1 DEF Types
    <3>4. /\ good' \in [Kinds -> 0..Len(kind)]
          /\ \A j \in Kinds : good'[j] \in {0, good[j]}
      BY <3>2, <3>3
    <3>5. token' \in BOOLEAN /\ faults' \in faults..MaxFaults
      BY <2>1, <3>2 DEF Types
    <3> QED
      BY <3>2, <3>4, <3>5
  <2> QED
    BY <2>2, <2>3
<1>2. DOMAIN task' = Tasks /\ task' = [t \in Tasks |-> task'[t]]
  BY <1>1 DEF SignInInv, Types
<1> QED
  BY <1>1, <1>2, QuietKeeps

LEMMA CrashKeeps ==
  ASSUME SignInInv, Crash
  PROVE  SignInInv'
<1>1. /\ UNCHANGED <<account, hashed, twoFa, enabledAt, good, kind, opened,
                     token>>
      /\ task' = [t \in Tasks |-> Idle]
      /\ faults' = faults + 1 /\ faults' \in faults..MaxFaults /\ faults' > 0
      /\ Types
  BY DEF SignInInv, Types, Crash, Fault, user, codes
<1>2. /\ DOMAIN task' = Tasks /\ \A t \in Tasks : task'[t] = Idle
  BY <1>1
<1>3. \A t \in Tasks : Holds(task[t])'
  BY <1>2, IdleFits DEF Holds
<1> QED
  BY <1>1, <1>2, <1>3, IdleFits, QuietKeeps DEF Types

LEMMA CommandFailsKeeps ==
  ASSUME SignInInv, NEW t \in Tasks, CommandFails(t)
  PROVE  SignInInv'
<1>1. /\ UNCHANGED <<account, hashed, twoFa, enabledAt, good, kind, opened,
                     token>>
      /\ Return(t)
      /\ faults' = faults + 1 /\ faults' \in faults..MaxFaults /\ faults' > 0
      /\ Types
  BY DEF SignInInv, Types, CommandFails, Fault, user, codes
<1> QED
  BY <1>1, ReturnKeeps DEF Types

-----------------------------------------------------------------------------
(* The steps that write: a code, the account, its hash, its second factor, *)
(* a session.                                                              *)

LEMMA LastAwait ==
  ASSUME SignInInv, NEW t \in Tasks, At(t, "store") \/ At(t, "issue")
  PROVE  /\ Tail(task[t].todo) = <<>>
         /\ At(t, "store") => task[t].todo = <<"store">>
         /\ At(t, "issue") => task[t].todo = <<"issue">>
         /\ Proceed(t) => Return(t)
<1>1. task[t].todo \in Rests /\ task[t].todo # <<>>
  BY DEF SignInInv, Fits, RequestType, At
<1>2. /\ At(t, "store") => task[t].todo = <<"store">>
      /\ At(t, "issue") => task[t].todo = <<"issue">>
  BY <1>1, HeadOfRest DEF At
<1>3. Tail(task[t].todo) = <<>>
  BY <1>2, TailOfRest
<1> QED
  BY <1>2, <1>3 DEF Proceed, Return

LEMMA StoreOtpKeeps ==
  ASSUME SignInInv, NEW t \in Tasks, StoreOtp(t), Return(t),
         UNCHANGED <<account, hashed, twoFa, enabledAt, opened>>,
         token' \in BOOLEAN, faults' \in faults..MaxFaults
  PROVE  SignInInv'
<1> DEFINE n == Len(kind) + 1
           q == task[t].kind
<1>1. /\ Types /\ GoodCodes /\ Opened /\ Exclusive /\ Found
      /\ RegisteredOnce /\ SecondFactorGuards
      /\ \A s \in Tasks : Fits(task[s]) /\ Holds(task[s]) /\ MayWrite(task[s])
  BY DEF SignInInv
<1>2. q \in Kinds
  BY <1>1 DEF Fits, RequestType
<1>3. /\ kind \in Seq(Kinds) /\ Len(kind) \in Nat /\ n <= MaxCodes
      /\ MaxCodes \in Nat /\ n \in Codes
      /\ kind' = Append(kind, q) /\ good' = [good EXCEPT ![q] = n]
      /\ good \in [Kinds -> 0..Len(kind)]
  BY <1>1 DEF Types, StoreOtp, Codes
<1>4. /\ kind' \in Seq(Kinds) /\ Len(kind') = n /\ kind'[n] = q
      /\ \A c \in 1..Len(kind) : kind'[c] = kind[c]
  BY <1>2, <1>3
<1>5. /\ good' \in [Kinds -> 0..n] /\ good'[q] = n
      /\ \A k \in Kinds : k # q => good'[k] = good[k]
  BY <1>2, <1>3
<1>6. opened[n] = 0
  <2>1. opened[n] \in Nat /\ (opened[n] > 0 => n <= Len(kind))
    BY <1>1, <1>3 DEF Types, Opened
  <2> QED
    BY <1>3, <2>1
<1> HIDE DEF n, q
<1>7. /\ DOMAIN task' = Tasks
      /\ task' = [u \in Tasks |-> task'[u]]
      /\ task'[t] = Idle
      /\ \A u \in Tasks : u # t => task'[u] = task[u]
  BY Moved DEF Return
<1>8. Len(kind) + 1 = n /\ n \in Nat
  BY <1>3 DEF n
<1>9. Types'
  <2>1. enabledAt' \in 0..n /\ faults' \in 0..MaxFaults
    BY <1>1, <1>8 DEF Types
  <2> QED
    BY <1>1, <1>3, <1>4, <1>5, <1>7, <2>1 DEF Types
<1>10. GoodCodes'
  <2> SUFFICES ASSUME NEW k \in Kinds, good'[k] # 0
               PROVE  kind'[good'[k]] = k /\ opened[good'[k]] = 0
    BY DEF GoodCodes
  <2>1. CASE k = q
    BY <1>4, <1>5, <1>6, <2>1
  <2>2. CASE k # q
    <3>1. good'[k] = good[k] /\ good[k] \in 1..Len(kind)
      BY <1>3, <1>5, <2>2
    <3> QED
      BY <1>1, <1>4, <3>1 DEF GoodCodes
  <2> QED
    BY <2>1, <2>2
<1>11. Opened'
  <2>1. \A c \in Codes : opened[c] <= 1 /\ (opened[c] > 0 => c <= n)
    BY <1>1, <1>3, <1>8 DEF Opened, Codes
  <2>2. ASSUME NEW c \in 1..n, kind'[c] = "register", opened[c] > 0
        PROVE  account
    <3>1. c \in 1..Len(kind)
      BY <1>6, <1>8, <2>2
    <3> QED
      BY <1>1, <1>4, <2>2, <3>1 DEF Opened
  <2> QED
    BY <1>4, <2>1, <2>2 DEF Opened
<1>12. ASSUME NEW s \in Tasks, s # t
       PROVE  Holds(task[s])' /\ MayWrite(task[s])'
  <2>1. task'[s] = task[s] /\ Holds(task[s]) /\ MayWrite(task[s])
    BY <1>1, <1>7, <1>12
  <2>2. MayWrite(task[s])'
    <3>1. ASSUME Registrar(task[s]), NEW c \in 1..n, kind'[c] = "register"
          PROVE  opened[c] = 0
      <4>1. CASE c = n
        BY <1>6, <4>1
      <4>2. CASE c # n
        BY <1>4, <1>8, <2>1, <3>1, <4>2 DEF MayWrite
      <4> QED
        BY <4>1, <4>2
    <3> QED
      BY <1>4, <2>1, <3>1 DEF MayWrite, Registrar
  <2>3. Holds(task[s])'
    <3> SUFFICES ASSUME task[s].code # 0
                 PROVE  /\ task[s].code \in 1..n
                        /\ opened[task[s].code] = 0
                        /\ \A k \in Kinds : good'[k] # task[s].code
                        /\ \/ kind'[task[s].code] = task[s].kind
                           \/ /\ task[s].kind = "second"
                              /\ task[s].todo = <<"store">>
      BY <1>4, <2>1 DEF Holds
    <3>1. task[s].code \in 1..Len(kind)
      BY <2>1 DEF Holds
    <3>2. /\ kind'[task[s].code] = kind[task[s].code]
          /\ opened[task[s].code] = 0
          /\ \A k \in Kinds : good[k] # task[s].code
          /\ \/ kind[task[s].code] = task[s].kind
             \/ task[s].kind = "second" /\ task[s].todo = <<"store">>
      BY <1>4, <2>1, <3>1 DEF Holds
    <3>3. task[s].code \in 1..n /\ task[s].code # n
      BY <1>8, <3>1
    <3>4. \A k \in Kinds : good'[k] # task[s].code
      BY <1>5, <3>2, <3>3
    <3> QED
      BY <3>2, <3>3, <3>4
  <2> QED
    BY <2>2, <2>3
<1>13. \A s \in Tasks : (Fits(task[s]) /\ Holds(task[s]) /\ MayWrite(task[s]))'
  BY <1>1, <1>7, <1>12, IdleFits DEF Holds, MayWrite
<1>14. Exclusive'
  <2> SUFFICES ASSUME NEW r \in Tasks, NEW s \in Tasks, r # s
               PROVE  /\ task'[r].code # 0 => task'[r].code # task'[s].code
                      /\ ~(Registrar(task'[r]) /\ Registrar(task'[s]))
    BY DEF Exclusive, Registrar
  <2> QED
    BY <1>1, <1>7, IdleFits DEF Exclusive
<1>15. RegisteredOnce' /\ SecondFactorGuards'
  <2>1. ASSUME NEW c \in 1..n, opened[c] > 0
        PROVE  c \in 1..Len(kind) /\ kind'[c] = kind[c]
    BY <1>4, <1>6, <1>8, <2>1
  <2>2. RegisteredOnce'
    BY <1>1, <1>4, <2>1 DEF RegisteredOnce
  <2>3. SecondFactorGuards'
    <3> SUFFICES ASSUME twoFa, NEW c \in enabledAt + 1..n, opened[c] > 0
                 PROVE  kind'[c] = "second"
      BY <1>4 DEF SecondFactorGuards
    <3>1. c \in 1..n /\ enabledAt \in Nat
      BY <1>1, <1>8 DEF Types
    <3> QED
      BY <1>1, <2>1, <3>1 DEF SecondFactorGuards
  <2> QED
    BY <2>2, <2>3
<1>16. Found'
  <2>1. ~At(t, "sadd")
    BY DEF StoreOtp, At
  <2>2. \A s \in Tasks : At(s, "sadd") => At(s, "sadd")'
    BY <1>7, <2>1 DEF At
  <2>3. faults' = 0 => faults = 0
    BY <1>1 DEF Types
  <2> QED
    BY <1>1, <2>2, <2>3 DEF Found
<1> QED
  BY <1>9, <1>10, <1>11, <1>13, <1>14, <1>15, <1>16 DEF SignInInv

LEMMA HeadWrites ==
  ASSUME NEW r, Fits(r), r.todo # <<>>
  PROVE  /\ Head(r.todo) = "insert" =>
              /\ r.kind = "register" /\ r.code # 0
              /\ Tail(r.todo) = <<"sadd", "issue">>
         /\ Head(r.todo) = "update" =>
              r.kind = "setup" /\ Tail(r.todo) = <<"sadd">>
         /\ Head(r.todo) = "sadd" =>
              \/ r.todo = <<"sadd">> /\ Tail(r.todo) = <<>>
              \/ Registrar(r) /\ Tail(r.todo) = <<"issue">>
<1>1. r.todo \in Rests /\ r.kind \in Kinds
  BY DEF Fits, RequestType
<1>2. ASSUME Head(r.todo) = "insert"
      PROVE  /\ r.kind = "register" /\ r.code # 0
             /\ Tail(r.todo) = <<"sadd", "issue">>
  <2>1. r.todo = <<"insert", "sadd", "issue">>
    BY <1>1, <1>2, HeadOfRest
  <2>2. r.code # 0 /\ Tail(r.todo) = <<"sadd", "issue">>
    BY <2>1, TailOfRest DEF Fits, Taken
  <2>3. r.kind = "register"
    BY <1>1, <2>1 DEF Fits, LoginRests, RecoverRests, SetupRests, SecondRests,
                      Kinds
  <2> QED
    BY <2>2, <2>3
<1>3. ASSUME Head(r.todo) = "update"
      PROVE  r.kind = "setup" /\ Tail(r.todo) = <<"sadd">>
  <2>1. r.todo = <<"update", "sadd">>
    BY <1>1, <1>3, HeadOfRest
  <2>2. r.kind = "setup"
    BY <1>1, <2>1 DEF Fits, RegisterRests, LoginRests, RecoverRests,
                      SecondRests, Kinds
  <2> QED
    BY <2>1, <2>2, TailOfRest
<1>4. ASSUME Head(r.todo) = "sadd"
      PROVE  \/ r.todo = <<"sadd">> /\ Tail(r.todo) = <<>>
             \/ Registrar(r) /\ Tail(r.todo) = <<"issue">>
  <2>1. r.todo \in {<<"sadd", "issue">>, <<"sadd">>}
    BY <1>1, <1>4, HeadOfRest
  <2>2. CASE r.todo = <<"sadd">>
    BY <2>2, TailOfRest
  <2>3. CASE r.todo = <<"sadd", "issue">>
    <3>1. r.kind = "register"
      BY <1>1, <2>3 DEF Fits, LoginRests, RecoverRests, SetupRests,
                        SecondRests, Kinds
    <3> QED
      BY <2>3, <3>1, TailOfRest DEF Registrar
  <2> QED
    BY <2>1, <2>2, <2>3
<1> QED
  BY <1>2, <1>3, <1>4

(* The account is there: there was none, so nobody is past this await. *)
LEMMA InsertKeeps ==
  ASSUME SignInInv, NEW t \in Tasks, At(t, "insert"),
         account' = TRUE,
         UNCHANGED <<hashed, twoFa, enabledAt, good, kind, opened, token>>,
         faults' \in faults..MaxFaults,
         \/ Return(t) /\ (account \/ faults' > 0)
         \/ Proceed(t) /\ ~account
  PROVE  SignInInv'
<1>1. /\ Types /\ GoodCodes /\ Opened /\ Exclusive /\ Found
      /\ RegisteredOnce /\ SecondFactorGuards
      /\ \A s \in Tasks : Fits(task[s]) /\ Holds(task[s]) /\ MayWrite(task[s])
      /\ task[t].todo # <<>> /\ Head(task[t].todo) = "insert"
      /\ task[t].code \in Nat
  BY DEF SignInInv, At, Fits, RequestType, Codes
<1>2. /\ DOMAIN task' = Tasks
      /\ task' = [u \in Tasks |-> task'[u]]
      /\ \A u \in Tasks : u # t => task'[u] = task[u]
      /\ Fits(task'[t])
      /\ \/ task'[t] = Idle /\ (account \/ faults' > 0)
         \/ /\ ~account /\ task'[t].kind = "register"
            /\ task'[t].code = task[t].code
            /\ task'[t].todo = <<"sadd", "issue">>
            /\ task[t].todo # <<"store">>
  <2>1. CASE Return(t) /\ (account \/ faults' > 0)
    BY <2>1, Moved, IdleFits DEF Return
  <2>2. CASE Proceed(t) /\ ~account
    <3>1. task[t].kind = "register" /\ Tail(task[t].todo) = <<"sadd", "issue">>
      BY <1>1, HeadWrites
    <3>2. <<"sadd", "issue">> # <<>>
      OBVIOUS
    <3> QED
      BY <1>1, <2>2, <3>1, <3>2, Proceeds, IdleFits
  <2> QED
    BY <2>1, <2>2
<1>3. Types'
  BY <1>1, <1>2 DEF Types
<1>4. GoodCodes' /\ Opened' /\ RegisteredOnce' /\ SecondFactorGuards'
  BY <1>1 DEF GoodCodes, Opened, RegisteredOnce, SecondFactorGuards
<1>5. ASSUME NEW s \in Tasks, s # t
      PROVE  (Fits(task[s]) /\ Holds(task[s]) /\ MayWrite(task[s]))'
  BY <1>1, <1>2, <1>5 DEF Holds, MayWrite
<1>6. CASE task'[t] = Idle /\ (account \/ faults' > 0)
  <2>1. (Fits(task[t]) /\ Holds(task[t]) /\ MayWrite(task[t]))'
    BY <1>6, IdleFits DEF Holds, MayWrite
  <2>2. Exclusive'
    <3> SUFFICES ASSUME NEW r \in Tasks, NEW s \in Tasks, r # s
                 PROVE  /\ task'[r].code # 0 => task'[r].code # task'[s].code
                        /\ ~(Registrar(task'[r]) /\ Registrar(task'[s]))
      BY DEF Exclusive, Registrar
    <3> QED
      BY <1>1, <1>2, <1>6, IdleFits DEF Exclusive
  <2>3. Found'
    <3>1. ~At(t, "sadd")
      BY <1>1 DEF At
    <3>2. \A s \in Tasks : At(s, "sadd") => At(s, "sadd")'
      BY <1>2, <3>1 DEF At
    <3>3. faults' = 0 => faults = 0
      BY <1>1 DEF Types
    <3> QED
      BY <1>1, <1>6, <3>2, <3>3 DEF Found
  <2> QED
    BY <1>3, <1>4, <1>5, <2>1, <2>2, <2>3 DEF SignInInv
<1>7. CASE /\ ~account /\ task'[t].kind = "register"
           /\ task'[t].code = task[t].code
           /\ task'[t].todo = <<"sadd", "issue">>
           /\ task[t].todo # <<"store">>
  <2>1. \A s \in Tasks : ~Registrar(task[s])
    BY <1>1, <1>7 DEF MayWrite
  <2>2. \A c \in 1..Len(kind) : kind[c] = "register" => opened[c] = 0
    <3> SUFFICES ASSUME NEW c \in 1..Len(kind), kind[c] = "register"
                 PROVE  opened[c] = 0
      OBVIOUS
    <3>1. c \in Codes /\ opened[c] \in Nat
      BY <1>1 DEF Types, Codes
    <3> QED
      BY <1>1, <1>7, <3>1 DEF Opened
  <2>3. MayWrite(task[t])'
    <3>1. task'[t].todo \notin {<<"update", "sadd">>, <<"sadd">>}
      BY <1>7
    <3>2. ~twoFa'
      BY <1>1, <1>7 DEF Found
    <3> QED
      BY <2>2, <3>1, <3>2 DEF MayWrite
  <2>4. Holds(task[t])'
    <3>1. task[t].kind = "register"
      BY <1>1, HeadWrites
    <3> QED
      BY <1>1, <1>7, <3>1 DEF Holds
  <2>5. Exclusive'
    <3> SUFFICES ASSUME NEW r \in Tasks, NEW s \in Tasks, r # s
                 PROVE  /\ task'[r].code # 0 => task'[r].code # task'[s].code
                        /\ ~(Registrar(task'[r]) /\ Registrar(task'[s]))
      BY DEF Exclusive, Registrar
    <3> QED
      BY <1>1, <1>2, <1>7, <2>1 DEF Exclusive
  <2>6. Found'
    <3>1. At(t, "sadd")'
      <4>1. /\ <<"sadd", "issue">> # <<>>
            /\ Head(<<"sadd", "issue">>) = "sadd"
        OBVIOUS
      <4> QED
        BY <1>7, <4>1 DEF At
    <3> QED
      BY <3>1 DEF Found
  <2> QED
    BY <1>2, <1>3, <1>4, <1>5, <2>3, <2>4, <2>5, <2>6 DEF SignInInv
<1> QED
  BY <1>2, <1>6, <1>7

LEMMA AddHashKeeps ==
  ASSUME SignInInv, NEW t \in Tasks, At(t, "sadd"),
         hashed' = TRUE,
         UNCHANGED <<account, twoFa, enabledAt, good, kind, opened, token>>,
         faults' \in faults..MaxFaults,
         Return(t) \/ Proceed(t)
  PROVE  SignInInv'
<1>1. /\ Types /\ GoodCodes /\ Opened /\ Exclusive /\ Found
      /\ RegisteredOnce /\ SecondFactorGuards
      /\ \A s \in Tasks : Fits(task[s]) /\ Holds(task[s]) /\ MayWrite(task[s])
      /\ task[t].todo # <<>> /\ Head(task[t].todo) = "sadd"
      /\ task[t].code \in Nat
  BY DEF SignInInv, At, Fits, RequestType, Codes
<1>2. account
  <2>1. task[t].todo = <<"sadd">> \/ Registrar(task[t])
    BY <1>1, HeadWrites
  <2> QED
    BY <1>1, <2>1 DEF MayWrite
<1>3. /\ DOMAIN task' = Tasks
      /\ task' = [u \in Tasks |-> task'[u]]
      /\ \A u \in Tasks : u # t => task'[u] = task[u]
      /\ Fits(task'[t])
      /\ \/ task'[t] = Idle
         \/ /\ Registrar(task[t]) /\ task'[t].kind = task[t].kind
            /\ task'[t].code = task[t].code
            /\ task'[t].todo = <<"issue">>
            /\ task[t].todo # <<"store">>
  <2>1. CASE Return(t)
    BY <2>1, Moved, IdleFits DEF Return
  <2>2. CASE Proceed(t)
    <3>1. CASE Registrar(task[t]) /\ Tail(task[t].todo) = <<"issue">>
      BY <1>1, <2>2, <3>1, Proceeds
    <3>2. CASE Tail(task[t].todo) = <<>>
      BY <2>1, <2>2, <3>2 DEF Proceed, Return
    <3> QED
      BY <1>1, <3>1, <3>2, HeadWrites
  <2> QED
    BY <2>1, <2>2
<1>4. Types'
  BY <1>1, <1>3 DEF Types
<1>5. GoodCodes' /\ Opened' /\ RegisteredOnce' /\ SecondFactorGuards'
  BY <1>1 DEF GoodCodes, Opened, RegisteredOnce, SecondFactorGuards
<1>6. ASSUME NEW s \in Tasks, s # t
      PROVE  (Fits(task[s]) /\ Holds(task[s]) /\ MayWrite(task[s]))'
  BY <1>1, <1>3, <1>6 DEF Holds, MayWrite
<1>7. /\ (Holds(task[t]) /\ MayWrite(task[t]))'
      /\ Registrar(task'[t]) => Registrar(task[t])
      /\ task'[t].code \in {0, task[t].code}
  <2>1. CASE task'[t] = Idle
    BY <2>1, IdleFits DEF Holds, MayWrite
  <2>2. CASE /\ Registrar(task[t]) /\ task'[t].kind = task[t].kind
             /\ task'[t].code = task[t].code
             /\ task'[t].todo = <<"issue">>
             /\ task[t].todo # <<"store">>
    <3>1. Holds(task[t])'
      BY <1>1, <2>2 DEF Holds
    <3>2. MayWrite(task[t])'
      <4>1. Registrar(task[t]) => account /\ \A c \in 1..Len(kind) :
              kind[c] = "register" => opened[c] = 0
        BY <1>1 DEF MayWrite
      <4>2. task'[t].todo \notin {<<"update", "sadd">>, <<"sadd">>}
        BY <2>2
      <4>3. twoFa /\ task[t].kind # "second" => task[t].code <= enabledAt
        BY <1>1, <2>2 DEF MayWrite, Registrar
      <4> QED
        BY <2>2, <4>1, <4>2, <4>3 DEF MayWrite
    <3> QED
      BY <2>2, <3>1, <3>2
  <2> QED
    BY <1>3, <2>1, <2>2
<1>8. Exclusive'
  <2> SUFFICES ASSUME NEW r \in Tasks, NEW s \in Tasks, r # s
               PROVE  /\ task'[r].code # 0 => task'[r].code # task'[s].code
                      /\ ~(Registrar(task'[r]) /\ Registrar(task'[s]))
    BY DEF Exclusive, Registrar
  <2> QED
    BY <1>1, <1>3, <1>7 DEF Exclusive
<1>9. Found'
  BY <1>1, <1>2 DEF Found
<1> QED
  BY <1>3, <1>4, <1>5, <1>6, <1>7, <1>8, <1>9 DEF SignInInv

LEMMA UpdateKeeps ==
  ASSUME SignInInv, NEW t \in Tasks, set_two_fa(t),
         UNCHANGED <<account, hashed, good, kind, opened, token>>,
         faults' \in faults..MaxFaults,
         Return(t) \/ Proceed(t)
  PROVE  SignInInv'
<1>1. /\ Types /\ GoodCodes /\ Opened /\ Exclusive /\ Found
      /\ RegisteredOnce /\ SecondFactorGuards
      /\ \A s \in Tasks : Fits(task[s]) /\ Holds(task[s]) /\ MayWrite(task[s])
      /\ task[t].todo # <<>> /\ Head(task[t].todo) = "update"
      /\ task[t].code \in Nat /\ Len(kind) \in Nat
      /\ twoFa' = TRUE
      /\ enabledAt' = IF twoFa THEN enabledAt ELSE Len(kind)
  BY DEF SignInInv, At, Fits, RequestType, Codes, set_two_fa, Types
<1>2. task[t].kind = "setup" /\ Tail(task[t].todo) = <<"sadd">>
  BY <1>1, HeadWrites
<1>3. account
  <2>1. task[t].todo = <<"update", "sadd">>
    BY <1>1, HeadOfRest DEF Fits, RequestType
  <2> QED
    BY <1>1, <2>1 DEF MayWrite
<1>4. /\ DOMAIN task' = Tasks
      /\ task' = [u \in Tasks |-> task'[u]]
      /\ \A u \in Tasks : u # t => task'[u] = task[u]
      /\ Fits(task'[t])
      /\ \/ task'[t] = Idle
         \/ /\ task'[t].kind = task[t].kind
            /\ task'[t].code = task[t].code
            /\ task'[t].todo = <<"sadd">>
            /\ task[t].todo # <<"store">>
  <2>1. CASE Return(t)
    BY <2>1, Moved, IdleFits DEF Return
  <2>2. CASE Proceed(t)
    BY <1>1, <1>2, <2>2, Proceeds
  <2> QED
    BY <2>1, <2>2
<1>5. Types'
  <2>1. enabledAt' \in 0..Len(kind)
    BY <1>1 DEF Types
  <2> QED
    BY <1>1, <1>4, <2>1 DEF Types
<1>6. GoodCodes' /\ Opened' /\ RegisteredOnce'
  BY <1>1 DEF GoodCodes, Opened, RegisteredOnce
<1>7. SecondFactorGuards'
  <2>1. CASE twoFa
    BY <1>1, <2>1 DEF SecondFactorGuards
  <2>2. CASE ~twoFa
    BY <1>1, <2>2 DEF SecondFactorGuards
  <2> QED
    BY <2>1, <2>2
<1>8. ASSUME NEW s \in Tasks, s # t
      PROVE  (Fits(task[s]) /\ Holds(task[s]) /\ MayWrite(task[s]))'
  <2>1. task'[s] = task[s]
    BY <1>4, <1>8
  <2>2. task[s].code <= Len(kind)
    <3>1. task[s].code \in Nat
      BY <1>1 DEF Fits, RequestType, Codes
    <3> QED
      BY <1>1, <3>1 DEF Holds
  <2>3. MayWrite(task[s])'
    BY <1>1, <2>1, <2>2 DEF MayWrite, Registrar
  <2> QED
    BY <1>1, <2>1, <2>3 DEF Holds
<1>9. /\ Holds(task[t])' /\ MayWrite(task[t])' /\ ~Registrar(task'[t])
      /\ task'[t].code \in {0, task[t].code}
  <2>1. CASE task'[t] = Idle
    <3>1. Registrar(task'[t]) = FALSE /\ task'[t].todo = <<>>
      BY <2>1, IdleFits
    <3>2. <<>> \notin {<<"update", "sadd">>, <<"sadd">>,
                      <<"sadd", "issue">>, <<"issue">>}
      OBVIOUS
    <3> QED
      BY <2>1, <3>1, <3>2, IdleFits DEF Holds, MayWrite
  <2>2. CASE /\ task'[t].kind = task[t].kind
             /\ task'[t].code = task[t].code
             /\ task'[t].todo = <<"sadd">>
             /\ task[t].todo # <<"store">>
    <3>1. Holds(task[t])'
      BY <1>1, <2>2 DEF Holds
    <3>2. task'[t].todo \notin {<<"sadd", "issue">>, <<"issue">>}
      BY <2>2
    <3>3. MayWrite(task[t])' /\ ~Registrar(task'[t])
      BY <1>3, <3>2 DEF MayWrite, Registrar
    <3> QED
      BY <2>2, <3>1, <3>3
  <2> QED
    BY <1>4, <2>1, <2>2
<1>10. Exclusive'
  <2> SUFFICES ASSUME NEW r \in Tasks, NEW s \in Tasks, r # s
               PROVE  /\ task'[r].code # 0 => task'[r].code # task'[s].code
                      /\ ~(Registrar(task'[r]) /\ Registrar(task'[s]))
    BY DEF Exclusive, Registrar
  <2> QED
    BY <1>1, <1>4, <1>9 DEF Exclusive
<1>11. Found'
  <2>1. ~At(t, "sadd")
    BY <1>1 DEF At
  <2>2. \A s \in Tasks : At(s, "sadd") => At(s, "sadd")'
    BY <1>4, <2>1 DEF At
  <2>3. faults' = 0 => faults = 0
    BY <1>1 DEF Types
  <2> QED
    BY <1>1, <1>3, <2>2, <2>3 DEF Found
<1> QED
  BY <1>4, <1>5, <1>6, <1>7, <1>8, <1>9, <1>10, <1>11 DEF SignInInv

(* The code that opens the session is nobody else's, and is not good any   *)
(* more: so it is the first session of the code, and the last.             *)
LEMMA IssueKeeps ==
  ASSUME SignInInv, NEW t \in Tasks, IssueTokens(t)
  PROVE  SignInInv'
<1> DEFINE c == task[t].code
<1>1. /\ Types /\ GoodCodes /\ Opened /\ Exclusive /\ Found
      /\ RegisteredOnce /\ SecondFactorGuards
      /\ \A s \in Tasks : Fits(task[s]) /\ Holds(task[s]) /\ MayWrite(task[s])
      /\ UNCHANGED <<account, hashed, twoFa, enabledAt, good, kind, token,
                     faults>>
      /\ opened' = [opened EXCEPT ![c] = @ + 1]
      /\ Len(kind) \in Nat
  BY DEF SignInInv, Types, IssueTokens, user, codes
<1>2. At(t, "issue") /\ Return(t) /\ task[t].todo = <<"issue">>
  BY LastAwait DEF IssueTokens
<1>3. /\ c \in 1..Len(kind) /\ c \in Codes /\ opened[c] = 0
      /\ \A k \in Kinds : good[k] # c
      /\ kind[c] = task[t].kind
  <2>1. task[t].todo \in Taken /\ task[t].todo # <<"store">>
    BY <1>2 DEF Taken
  <2>2. c # 0
    BY <1>1, <2>1 DEF Fits
  <2> QED
    BY <1>1, <2>1, <2>2 DEF Holds, Types, Codes
<1>4. /\ opened' \in [Codes -> Nat] /\ opened'[c] = 1
      /\ \A d \in Codes : d # c => opened'[d] = opened[d]
  BY <1>1, <1>3 DEF Types
<1>5. /\ DOMAIN task' = Tasks
      /\ task' = [u \in Tasks |-> task'[u]]
      /\ task'[t] = Idle
      /\ \A u \in Tasks : u # t => task'[u] = task[u]
  BY <1>2, Moved DEF Return
<1>6. \A s \in Tasks : s # t => task[s].code # c
  BY <1>1, <1>3 DEF Exclusive
<1>7. task[t].kind = "register" => Registrar(task[t])
  BY <1>2 DEF Registrar
<1> HIDE DEF c
<1>8. 1..Len(kind) \subseteq Codes
  BY <1>1 DEF Types, Codes
<1>9. Types'
  BY <1>1, <1>4, <1>5 DEF Types
<1>10. GoodCodes'
  <2> SUFFICES ASSUME NEW k \in Kinds, good[k] # 0
               PROVE  kind[good[k]] = k /\ opened'[good[k]] = 0
    BY <1>1 DEF GoodCodes
  <2>1. good[k] \in 1..Len(kind)
    BY <1>1 DEF Types
  <2> QED
    BY <1>1, <1>3, <1>4, <1>8, <2>1 DEF GoodCodes
<1>11. Opened'
  <2>1. \A d \in Codes : /\ opened'[d] <= 1
                         /\ opened'[d] > 0 => d <= Len(kind)
    BY <1>1, <1>3, <1>4 DEF Opened
  <2>2. kind[c] = "register" => account
    BY <1>1, <1>3, <1>7 DEF MayWrite
  <2>3. \A d \in 1..Len(kind) :
          kind[d] = "register" /\ opened'[d] > 0 => account
    BY <1>1, <1>4, <1>8, <2>2 DEF Opened
  <2> QED
    BY <1>1, <2>1, <2>3 DEF Opened
<1>12. ASSUME NEW s \in Tasks, s # t
       PROVE  Holds(task[s])' /\ MayWrite(task[s])'
  <2>1. task'[s] = task[s] /\ Holds(task[s]) /\ MayWrite(task[s])
    BY <1>1, <1>5, <1>12
  <2>2. Holds(task[s])'
    <3>1. task[s].code # c
      BY <1>6, <1>12
    <3> QED
      BY <1>1, <1>4, <1>8, <2>1, <3>1 DEF Holds
  <2>3. MayWrite(task[s])'
    <3>1. ASSUME Registrar(task[s]),
                 NEW d \in 1..Len(kind), kind[d] = "register"
          PROVE  opened'[d] = 0
      <4>1. ~Registrar(task[t])
        BY <1>1, <1>12, <3>1 DEF Exclusive
      <4>2. d # c
        BY <1>3, <1>7, <3>1, <4>1
      <4> QED
        BY <1>4, <1>8, <2>1, <3>1, <4>2 DEF MayWrite
    <3> QED
      BY <1>1, <2>1, <3>1 DEF MayWrite, Registrar
  <2> QED
    BY <2>2, <2>3
<1>13. \A s \in Tasks : (Fits(task[s]) /\ Holds(task[s]) /\ MayWrite(task[s]))'
  <2>1. (Fits(task[t]) /\ Holds(task[t]) /\ MayWrite(task[t]))'
    <3>1. <<>> \notin {<<"update", "sadd">>, <<"sadd">>,
                      <<"sadd", "issue">>, <<"issue">>}
      OBVIOUS
    <3> QED
      BY <1>5, <3>1, IdleFits DEF Holds, MayWrite
  <2> QED
    BY <1>1, <1>5, <1>12, <2>1
<1>14. Exclusive'
  <2> SUFFICES ASSUME NEW r \in Tasks, NEW s \in Tasks, r # s
               PROVE  /\ task'[r].code # 0 => task'[r].code # task'[s].code
                      /\ ~(Registrar(task'[r]) /\ Registrar(task'[s]))
    BY DEF Exclusive, Registrar
  <2> QED
    BY <1>1, <1>5, IdleFits DEF Exclusive
<1>15. RegisteredOnce'
  <2> SUFFICES ASSUME NEW d \in 1..Len(kind), NEW e \in 1..Len(kind),
                      kind[d] = "register", opened'[d] > 0,
                      kind[e] = "register", opened'[e] > 0
               PROVE  d = e
    BY <1>1 DEF RegisteredOnce
  <2>1. CASE kind[c] = "register"
    <3>1. \A x \in 1..Len(kind) : kind[x] = "register" => opened[x] = 0
      BY <1>1, <1>3, <1>7, <2>1 DEF MayWrite
    <3> QED
      BY <1>4, <1>8, <3>1
  <2>2. CASE kind[c] # "register"
    BY <1>1, <1>4, <1>8, <2>2 DEF RegisteredOnce
  <2> QED
    BY <2>1, <2>2
<1>16. SecondFactorGuards'
  <2> SUFFICES ASSUME twoFa, NEW d \in enabledAt + 1..Len(kind), opened'[d] > 0
               PROVE  kind[d] = "second"
    BY <1>1 DEF SecondFactorGuards
  <2>1. d \in 1..Len(kind) /\ enabledAt \in Nat /\ d > enabledAt
    BY <1>1 DEF Types
  <2>2. CASE d = c
    <3>1. task[t].kind # "second" => c <= enabledAt
      BY <1>1, <1>2 DEF MayWrite, c
    <3> QED
      BY <1>3, <2>1, <2>2, <3>1
  <2>3. CASE d # c
    BY <1>1, <1>4, <1>8, <2>1, <2>3 DEF SecondFactorGuards
  <2> QED
    BY <2>2, <2>3
<1>17. Found'
  <2>1. ~At(t, "sadd")
    BY <1>2 DEF At
  <2>2. \A s \in Tasks : At(s, "sadd") => At(s, "sadd")'
    BY <1>5, <2>1 DEF At
  <2> QED
    BY <1>1, <2>2 DEF Found
<1> QED
  BY <1>9, <1>10, <1>11, <1>13, <1>14, <1>15, <1>16, <1>17 DEF SignInInv

-----------------------------------------------------------------------------
(* Init, the steps, and what follows. *)

LEMMA ReplyLostKeeps ==
  ASSUME SignInInv, NEW t \in Tasks, ReplyLost(t)
  PROVE  SignInInv'
<1>1. /\ faults' \in faults..MaxFaults /\ faults' > 0
      /\ Return(t) /\ UNCHANGED <<opened, token>>
      /\ token \in BOOLEAN
  BY DEF ReplyLost, Fault, SignInInv, Types
<1>2. CASE StoreOtp(t) /\ UNCHANGED user
  BY <1>1, <1>2, StoreOtpKeeps DEF user
<1>3. CASE verify_otp(t) /\ UNCHANGED <<kind, user>>
  <2>1. UNCHANGED <<account, hashed, twoFa, enabledAt, kind>>
    BY <1>3 DEF user
  <2> QED
    BY <1>1, <1>3, <2>1, MatchLosesCode, ReturnKeeps
<1>4. CASE /\ At(t, "insert") /\ account' = TRUE
           /\ UNCHANGED <<hashed, twoFa, enabledAt, codes>>
  BY <1>1, <1>4, InsertKeeps DEF codes
<1>5. CASE set_two_fa(t) /\ UNCHANGED <<account, hashed, codes>>
  BY <1>1, <1>5, UpdateKeeps DEF codes
<1>6. CASE /\ At(t, "sadd") /\ hashed' = TRUE
           /\ UNCHANGED <<account, twoFa, enabledAt, codes>>
  BY <1>1, <1>6, AddHashKeeps DEF codes
<1> QED
  BY <1>2, <1>3, <1>4, <1>5, <1>6 DEF ReplyLost

LEMMA TaskStepKeeps ==
  ASSUME SignInInv, NEW t \in Tasks, TaskStep(t)
  PROVE  SignInInv'
<1>1. faults \in faults..MaxFaults /\ token \in BOOLEAN
  BY DEF SignInInv, Types
<1>2. CASE StoreCode(t)
  <2>1. StoreOtp(t) /\ Return(t)
    BY <1>2, LastAwait DEF StoreCode, StoreOtp
  <2>2. /\ UNCHANGED <<account, hashed, twoFa, enabledAt, opened, faults>>
        /\ token' \in BOOLEAN
    BY <1>1, <1>2 DEF StoreCode, user
  <2> QED
    BY <1>1, <2>1, <2>2, StoreOtpKeeps
<1>3. CASE InsertUser(t)
  <2>1. account \in BOOLEAN
    BY DEF SignInInv, Types
  <2> QED
    BY <1>1, <1>3, <2>1, InsertKeeps DEF InsertUser, codes
<1>4. CASE AddHash(t)
  BY <1>1, <1>4, AddHashKeeps DEF AddHash, codes
<1>5. CASE UpdateUser(t)
  BY <1>1, <1>5, UpdateKeeps DEF UpdateUser, codes
<1> QED
  BY <1>2, <1>3, <1>4, <1>5, CheckLimitKeeps, FindUserKeeps,
     VerifyCodeKeeps, IssueKeeps DEF TaskStep

LEMMA NextKeeps == SignInInv /\ [Next]_(vars) => SignInInv'
<1> SUFFICES ASSUME SignInInv, [Next]_(vars)
             PROVE  SignInInv'
  OBVIOUS
<1>1. CASE UNCHANGED vars
  <2>1. UNCHANGED <<account, hashed, twoFa, enabledAt, good, kind, opened,
                    token, task, faults>>
    BY <1>1 DEF vars, user, codes
  <2>2. Types
    BY DEF SignInInv
  <2>3. good' \in [Kinds -> 0..Len(kind)] /\ token' \in BOOLEAN
        /\ faults' \in faults..MaxFaults
        /\ DOMAIN task' = Tasks /\ task' = [t \in Tasks |-> task'[t]]
    BY <2>1, <2>2 DEF Types
  <2> QED
    BY <2>1, <2>3, QuietKeeps
<1> QED
  BY <1>1, RequestKeeps, TaskStepKeeps, CommandFailsKeeps, ReplyLostKeeps,
     LossKeeps, CrashKeeps DEF Next

LEMMA InitHolds ==
  ASSUME Init
  PROVE  SignInInv
<1>1. /\ kind = <<>> /\ Len(kind) = 0 /\ kind \in Seq(Kinds)
      /\ account = FALSE /\ hashed = FALSE /\ twoFa = FALSE /\ enabledAt = 0
      /\ \A t \in Tasks : task[t] = Idle
      /\ \A c \in Codes : opened[c] = 0
      /\ \A k \in Kinds : good[k] = 0
  BY DEF Init
<1>2. Types
  <2>1. /\ good \in [Kinds -> 0..Len(kind)]
        /\ opened \in [Codes -> Nat]
        /\ DOMAIN task = Tasks /\ task = [t \in Tasks |-> task[t]]
        /\ token = FALSE /\ faults = 0
    BY <1>1 DEF Init
  <2>2. enabledAt \in 0..Len(kind) /\ Len(kind) <= MaxCodes
        /\ faults \in 0..MaxFaults
    BY <1>1, <2>1, BoundsAreNaturals
  <2> QED
    BY <1>1, <2>1, <2>2, BoundsAreNaturals DEF Types
<1>3. GoodCodes /\ Opened /\ Found
  BY <1>1 DEF GoodCodes, Opened, Found
<1>4. \A t \in Tasks : Fits(task[t]) /\ Holds(task[t]) /\ MayWrite(task[t])
  BY <1>1, IdleFits
<1>5. Exclusive
  BY <1>1, IdleFits DEF Exclusive
<1>6. RegisteredOnce /\ SecondFactorGuards
  BY <1>1 DEF RegisteredOnce, SecondFactorGuards
<1> QED
  BY <1>2, <1>3, <1>4, <1>5, <1>6 DEF SignInInv

(* The invariant holds always.                                             *)
LEMMA SignInInvariant == Spec => []SignInInv
<1>1. Init => SignInInv
  BY InitHolds
<1> QED
  BY <1>1, NextKeeps, PTL DEF Spec

Awaits ==
  {"limit", "find", "store", "match", "insert", "sadd", "issue", "update"}

Ends(h) == {SubSeq(h, n, Len(h)) : n \in 1..Len(h) + 1}

LEMMA RestsAreTodos == Rests \subseteq UNION {Ends(h) : h \in Handlers}
<1>1. ASSUME NEW h \in Seq(Awaits)
      PROVE  h \in Ends(h) /\ <<>> \in Ends(h)
  <2>1. SubSeq(h, 1, Len(h)) = h /\ SubSeq(h, Len(h) + 1, Len(h)) = <<>>
        /\ Len(h) \in Nat
    BY <1>1, SubSeqFull, SubSeqEmpty
  <2>2. 1 \in 1..Len(h) + 1 /\ Len(h) + 1 \in 1..Len(h) + 1
    BY <2>1
  <2> QED
    BY <2>1, <2>2 DEF Ends
<1>2. ASSUME NEW h \in Seq(Awaits), NEW e \in Ends(h), e # <<>>
      PROVE  Tail(e) \in Ends(h)
  <2>1. PICK n \in 1..Len(h) + 1 : e = SubSeq(h, n, Len(h))
    BY <1>2 DEF Ends
  <2>2. n \in 1..Len(h) /\ Len(h) \in n..Len(h) /\ n + 1 \in 1..Len(h) + 1
    BY <1>2, <2>1, SubSeqEmpty
  <2>3. Tail(e) = SubSeq(h, n + 1, Len(h))
    BY <2>1, <2>2, HeadTailOfSubSeq
  <2> QED
    BY <2>2, <2>3 DEF Ends
<1>4. {<<"limit", "find", "store">>,
         <<"find", "store">>,
         <<"store">>} \subseteq Ends(register)
  <2>1. register \in Seq(Awaits) /\ register = <<"limit", "find", "store">>
    BY DEF register, Awaits
  <2>2. <<"limit", "find", "store">> \in Ends(register)
    BY <1>1, <2>1
  <2>3. <<"find", "store">> \in Ends(register)
    BY <1>2, <2>1, <2>2, TailOfRest
  <2>4. <<"store">> \in Ends(register)
    BY <1>2, <2>1, <2>3, TailOfRest
  <2> QED
    BY <2>2, <2>3, <2>4
<1>5. {<<"match", "insert", "sadd", "issue">>,
         <<"insert", "sadd", "issue">>,
         <<"sadd", "issue">>,
         <<"issue">>} \subseteq Ends(verify_phone)
  <2>1. verify_phone \in Seq(Awaits)
        /\ verify_phone = <<"match", "insert", "sadd", "issue">>
    BY DEF verify_phone, Awaits
  <2>2. <<"match", "insert", "sadd", "issue">> \in Ends(verify_phone)
    BY <1>1, <2>1
  <2>3. <<"insert", "sadd", "issue">> \in Ends(verify_phone)
    BY <1>2, <2>1, <2>2, TailOfRest
  <2>4. <<"sadd", "issue">> \in Ends(verify_phone)
    BY <1>2, <2>1, <2>3, TailOfRest
  <2>5. <<"issue">> \in Ends(verify_phone)
    BY <1>2, <2>1, <2>4, TailOfRest
  <2> QED
    BY <2>2, <2>3, <2>4, <2>5
<1>6. {<<"find", "limit", "store">>,
         <<"limit", "store">>,
         <<"store">>} \subseteq Ends(login)
  <2>1. login \in Seq(Awaits) /\ login = <<"find", "limit", "store">>
    BY DEF login, Awaits
  <2>2. <<"find", "limit", "store">> \in Ends(login)
    BY <1>1, <2>1
  <2>3. <<"limit", "store">> \in Ends(login)
    BY <1>2, <2>1, <2>2, TailOfRest
  <2>4. <<"store">> \in Ends(login)
    BY <1>2, <2>1, <2>3, TailOfRest
  <2> QED
    BY <2>2, <2>3, <2>4
<1>7. {<<"match", "find", "issue">>,
         <<"find", "issue">>,
         <<"issue">>} \subseteq Ends(login_verify)
  <2>1. login_verify \in Seq(Awaits) /\ login_verify = <<"match", "find",
                                                             "issue">>
    BY DEF login_verify, Awaits
  <2>2. <<"match", "find", "issue">> \in Ends(login_verify)
    BY <1>1, <2>1
  <2>3. <<"find", "issue">> \in Ends(login_verify)
    BY <1>2, <2>1, <2>2, TailOfRest
  <2>4. <<"issue">> \in Ends(login_verify)
    BY <1>2, <2>1, <2>3, TailOfRest
  <2> QED
    BY <2>2, <2>3, <2>4
<1>8. {<<"match", "find">>,
         <<"find">>} \subseteq Ends(recover_verify)
  <2>1. /\ recover_verify \in Seq(Awaits)
        /\ recover_verify = <<"match", "find">>
    BY DEF recover_verify, Awaits
  <2>2. <<"match", "find">> \in Ends(recover_verify)
    BY <1>1, <2>1
  <2>3. <<"find">> \in Ends(recover_verify)
    BY <1>2, <2>1, <2>2, TailOfRest
  <2> QED
    BY <2>2, <2>3
<1>9. {<<"match", "find", "update", "sadd">>,
         <<"find", "update", "sadd">>,
         <<"update", "sadd">>,
         <<"sadd">>} \subseteq Ends(two_fa_setup_verify)
  <2>1. two_fa_setup_verify \in Seq(Awaits)
        /\ two_fa_setup_verify = <<"match", "find", "update", "sadd">>
    BY DEF two_fa_setup_verify, Awaits
  <2>2. <<"match", "find", "update", "sadd">> \in Ends(two_fa_setup_verify)
    BY <1>1, <2>1
  <2>3. <<"find", "update", "sadd">> \in Ends(two_fa_setup_verify)
    BY <1>2, <2>1, <2>2, TailOfRest
  <2>4. <<"update", "sadd">> \in Ends(two_fa_setup_verify)
    BY <1>2, <2>1, <2>3, TailOfRest
  <2>5. <<"sadd">> \in Ends(two_fa_setup_verify)
    BY <1>2, <2>1, <2>4, TailOfRest
  <2> QED
    BY <2>2, <2>3, <2>4, <2>5
<1>10. <<>> \in Ends(register)
  <2>1. register \in Seq(Awaits)
    BY DEF register, Awaits
  <2> QED
    BY <1>1, <2>1
<1> QED
  BY <1>4, <1>5, <1>6, <1>7, <1>8, <1>9, <1>10 DEF Rests, Handlers

(* Every variable of SignIn keeps its type, a request always has one of    *)
(* the rests of a handler to await, and who writes the account or is       *)
(* issued tokens has taken back a code (auth/mod.rs:124-173, 406-475).     *)
THEOREM SignInTypeCorrect == Spec => []TypeOK
<1>1. SignInInv => TypeOK
  <2> SUFFICES ASSUME SignInInv
               PROVE  TypeOK
    OBVIOUS
  <2>1. ASSUME NEW t \in Tasks
        PROVE  /\ task[t] \in Task
               /\ At(t, "insert") \/ At(t, "update") \/ At(t, "issue") =>
                    task[t].code # 0
    <3>1. Fits(task[t]) /\ task[t] \in RequestType
      BY DEF SignInInv, Fits
    <3>2. task[t] \in Task
      BY <3>1, RestsAreTodos DEF RequestType, Task, Ends
    <3>3. At(t, "insert") \/ At(t, "update") \/ At(t, "issue") =>
            task[t].todo \in Taken
      BY <3>1, HeadOfRest DEF RequestType, At, Taken
    <3> QED
      BY <3>1, <3>2, <3>3 DEF Fits
  <2>2. task \in [Tasks -> Task]
    BY <2>1 DEF SignInInv, Types
  <2> QED
    BY <2>1, <2>2 DEF SignInInv, Types, TypeOK
<1>2. Spec => []SignInInv
  BY SignInInvariant
<1> QED
  BY <1>1, <1>2, PTL

(* A code opens one session at most, however many requests send it at      *)
(* once: the request that takes it back is the only one that has it, and   *)
(* it is not good any more (otp.rs:118-122).                               *)
THEOREM SignInCodeOpensOneSession == Spec => []CodeOpensOneSession
<1>1. SignInInv => CodeOpensOneSession
  BY DEF SignInInv, Opened, CodeOpensOneSession
<1>2. Spec => []SignInInv
  BY SignInInvariant
<1> QED
  BY <1>1, <1>2, PTL

(* Of all codes to register, one opens a session at most: who inserts the  *)
(* account is alone with it until its session is there, and the code of    *)
(* everybody else ends with the row that is found (auth/mod.rs:319-325).   *)
THEOREM SignInRegisteredOnce == Spec => []RegisteredOnce
<1>1. SignInInv => RegisteredOnce
  BY DEF SignInInv
<1>2. Spec => []SignInInv
  BY SignInInvariant
<1> QED
  BY <1>1, <1>2, PTL

(* Once the second factor is on, no code younger than that opens a session *)
(* but those of the second factor, whatever the requests under way had     *)
(* read before (auth/mod.rs:433-455).                                      *)
THEOREM SignInSecondFactorGuards == Spec => []SecondFactorGuards
<1>1. SignInInv => SecondFactorGuards
  BY DEF SignInInv
<1>2. Spec => []SignInInv
  BY SignInInvariant
<1> QED
  BY <1>1, <1>2, PTL

(* The hash is there only for an account, and for every account once no    *)
(* request is about to add it and nothing has failed (user.rs:175).        *)
THEOREM SignInFoundByContacts == Spec => []FoundByContacts
<1>1. SignInInv => FoundByContacts
  BY DEF SignInInv, Found, FoundByContacts
<1>2. Spec => []SignInInv
  BY SignInInvariant
<1> QED
  BY <1>1, <1>2, PTL
=============================================================================
