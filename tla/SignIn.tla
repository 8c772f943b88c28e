------------------------------- MODULE SignIn -------------------------------
(***************************************************************************)
(* How the account of one phone number comes to be and is signed in to:    *)
(* the handlers of handlers/auth that send codes and take them back, run   *)
(* by any number of clients at once, up to the point where tokens are      *)
(* issued (module Sessions goes on from there). A code is the one-time     *)
(* code that module Otp implements; which kind it is, is part of its key.  *)
(* Each await of a handler is a step. Whether a code reaches the phone is  *)
(* not up to this program: whoever sends a code sends the one that is good *)
(* now, or one that is refused.                                            *)
(***************************************************************************)
EXTENDS Naturals, Sequences, FiniteSets

CONSTANTS
  Tasks,     \* requests that are served at once
  MaxCodes,  \* bound: codes in a behaviour
  MaxFaults  \* bound: commands that fail, and crashes, in a behaviour

ASSUME BoundsAreNaturals == MaxCodes \in Nat /\ MaxFaults \in Nat

VARIABLES
  account,    \* the row of users: is there one
  hashed,     \* Redis phone_hashes holds its hash
  twoFa,      \* two_fa_enabled
  good,       \* the code of each kind that is good; 0: none
  kind,       \* history: the kinds of the codes that were stored, in order
  opened,     \* history: the sessions that each code opened
  token,      \* somebody holds a temp token
  enabledAt,  \* history: the codes stored when twoFa was set
  task,       \* the requests
  faults

user == <<account, hashed, twoFa, enabledAt>>
codes == <<good, kind>>
vars == <<user, codes, opened, token, task, faults>>

Kinds == {"register", "login", "recover", "setup", "second"}
Codes == 1..MaxCodes

-----------------------------------------------------------------------------
(* The handlers: what each awaits, one after the other. *)
register == <<"limit", "find", "store">>
HashFirst == <<"match", "sadd", "insert", "issue">>
verify_phone == <<"match", "insert", "sadd", "issue">>
login == <<"find", "limit", "store">>
login_verify == <<"match", "find", "issue">>
second_factor == <<"store">>              \* login_verify, if twoFa
recover == <<"find", "store">>
recover_verify == <<"match", "find">>
two_fa_setup == <<"store">>
two_fa_setup_verify == <<"match", "find", "update", "sadd">>
two_fa_verify == <<"match", "find", "issue">>

Handlers ==
  {register, verify_phone, login, login_verify, second_factor, recover,
   recover_verify, two_fa_setup, two_fa_setup_verify, two_fa_verify}

(* A request: the kind of code it is about, what it has yet to await, and  *)
(* the code that it has taken back.                                        *)
Task == [kind : Kinds,
         todo : UNION {{SubSeq(h, n, Len(h)) : n \in 1..Len(h) + 1} :
                         h \in Handlers},
         code : Codes \cup {0}]

Idle == [kind |-> "register", todo |-> <<>>, code |-> 0]

At(t, step) == task[t].todo # <<>> /\ Head(task[t].todo) = step

Proceed(t) ==
  LET rest == Tail(task[t].todo)
  IN  task' = [task EXCEPT ![t] = IF rest = <<>> THEN Idle
                                  ELSE [task[t] EXCEPT !.todo = rest]]

Return(t) == task' = [task EXCEPT ![t] = Idle]

Init ==
  /\ account = FALSE /\ hashed = FALSE /\ twoFa = FALSE /\ enabledAt = 0
  /\ good = [k \in Kinds |-> 0]
  /\ kind = <<>>
  /\ opened = [c \in Codes |-> 0]
  /\ token = FALSE
  /\ task = [t \in Tasks |-> Idle]
  /\ faults = 0

-----------------------------------------------------------------------------
(* Anybody may send a phone number, with a code or without. The set-up of  *)
(* the second factor is for those who have a session; two_fa_verify asks   *)
(* for a temp token, and does not mind where it is from.                   *)
SignedIn == \E c \in Codes : opened[c] > 0

Spawn(t, k, handler) ==
  /\ task[t] = Idle
  /\ task' = [task EXCEPT ![t] = [kind |-> k, todo |-> handler, code |-> 0]]
  /\ UNCHANGED <<user, codes, opened, token, faults>>

Request(t) ==
  \/ Spawn(t, "register", register) \/ Spawn(t, "register", verify_phone)
  \/ Spawn(t, "login", login) \/ Spawn(t, "login", login_verify)
  \/ Spawn(t, "recover", recover) \/ Spawn(t, "recover", recover_verify)
  \/ /\ SignedIn
     /\ \/ Spawn(t, "setup", two_fa_setup)
        \/ Spawn(t, "setup", two_fa_setup_verify)
  \/ token /\ Spawn(t, "second", two_fa_verify)

-----------------------------------------------------------------------------
(* check_rate_limit: how many have asked before is not kept here. *)
CheckLimit(t) ==
  /\ At(t, "limit")
  /\ Proceed(t) \/ Return(t)
  /\ UNCHANGED <<user, codes, opened, token, faults>>

(***************************************************************************)
(* find_by_phone and find_by_id. Who registers must be unknown, everybody  *)
(* else known. login_verify goes on to the second factor if the row says   *)
(* so; recover_verify answers with a temp token.                           *)
(***************************************************************************)
ForgetsSecondFactor(t) ==
  /\ At(t, "find")
  /\ IF account = (task[t].kind = "register") THEN Return(t) ELSE Proceed(t)
  /\ token' = (token \/ (account /\ task[t].todo = Tail(recover_verify)))
  /\ UNCHANGED <<user, codes, opened, faults>>

FindUser(t) ==
  /\ At(t, "find")
  /\ IF account = (task[t].kind = "register") THEN Return(t)
     ELSE IF task[t].todo = Tail(login_verify) /\ task[t].kind = "login" /\ twoFa
       THEN task' = [task EXCEPT ![t].kind = "second",
                                 ![t].todo = second_factor]
       ELSE Proceed(t)
  /\ token' = (token \/ (account /\ task[t].todo = Tail(recover_verify)))
  /\ UNCHANGED <<user, codes, opened, faults>>

(* store_*_otp. login_verify answers with a temp token after it. *)
StoreOtp(t) ==
  /\ At(t, "store")
  /\ Len(kind) < MaxCodes
  /\ kind' = Append(kind, task[t].kind)
  /\ good' = [good EXCEPT ![task[t].kind] = Len(kind) + 1]

StoreCode(t) ==
  /\ StoreOtp(t)
  /\ Proceed(t)
  /\ token' = (token \/ task[t].kind = "second")
  /\ UNCHANGED <<user, opened, faults>>

(* verify_*_otp: the code that is good is taken back, once; any other is   *)
(* refused. (MatchLeavesCode and MatchBlindly, ForgetsSecondFactor and      *)
(* HashFirst above and InsertAnyway below are mutants: the definition      *)
(* after it with a plausible mistake, for checking that the properties     *)
(* notice. No other definition uses one.)                                  *)
MatchLeavesCode(t) ==
  /\ At(t, "match")
  /\ good[task[t].kind] # 0
  /\ UNCHANGED good

MatchBlindly(t) ==
  /\ At(t, "match")
  /\ good' = [good EXCEPT ![task[t].kind] = 0]

verify_otp(t) ==
  /\ At(t, "match")
  /\ good[task[t].kind] # 0
  /\ good' = [good EXCEPT ![task[t].kind] = 0]

VerifyCode(t) ==
  /\ \/ /\ verify_otp(t)
        /\ task' = [task EXCEPT ![t].todo = Tail(@),
                                ![t].code = good[task[t].kind]]
     \/ At(t, "match") /\ Return(t) /\ UNCHANGED good
  /\ UNCHANGED <<user, kind, opened, token, faults>>

(* A code expires, or goes with the third wrong attempt. *)
CodeIsLost(k) ==
  /\ good[k] # 0
  /\ good' = [good EXCEPT ![k] = 0]
  /\ UNCHANGED <<user, kind, opened, token, task, faults>>

TokenExpires ==
  /\ token
  /\ token' = FALSE
  /\ UNCHANGED <<user, codes, opened, task, faults>>

-----------------------------------------------------------------------------
(* UserRepository::create: the row, unless the phone has one. *)
InsertAnyway(t) ==
  /\ At(t, "insert")
  /\ account' = TRUE
  /\ Proceed(t)
  /\ UNCHANGED <<hashed, twoFa, enabledAt, codes, opened, token, faults>>

InsertUser(t) ==
  /\ At(t, "insert")
  /\ account' = TRUE
  /\ IF account THEN Return(t) ELSE Proceed(t)
  /\ UNCHANGED <<hashed, twoFa, enabledAt, codes, opened, token, faults>>

(* create and update end with SADD phone_hashes. *)
AddHash(t) ==
  /\ At(t, "sadd")
  /\ hashed' = TRUE
  /\ Proceed(t)
  /\ UNCHANGED <<account, twoFa, enabledAt, codes, opened, token, faults>>

(* UserRepository::update, of the whole row as it was found. *)
set_two_fa(t) ==
  /\ At(t, "update")
  /\ twoFa' = TRUE
  /\ enabledAt' = IF twoFa THEN enabledAt ELSE Len(kind)

UpdateUser(t) ==
  /\ set_two_fa(t)
  /\ Proceed(t)
  /\ UNCHANGED <<account, hashed, codes, opened, token, faults>>

(* issue_tokens: the request is answered with a session. *)
IssueTokens(t) ==
  /\ At(t, "issue")
  /\ opened' = [opened EXCEPT ![task[t].code] = @ + 1]
  /\ Proceed(t)
  /\ UNCHANGED <<user, codes, token, faults>>

-----------------------------------------------------------------------------
(* A command fails, or its effect is there and its reply is lost: either   *)
(* way the request ends with an error. What a request has done stays.      *)
Fault == faults < MaxFaults /\ faults' = faults + 1

CommandFails(t) ==
  /\ Fault
  /\ task[t] # Idle
  /\ Return(t)
  /\ UNCHANGED <<user, codes, opened, token>>

ReplyLost(t) ==
  /\ Fault
  /\ \/ StoreOtp(t) /\ UNCHANGED user
     \/ verify_otp(t) /\ UNCHANGED <<kind, user>>
     \/ /\ At(t, "insert")
        /\ account' = TRUE
        /\ UNCHANGED <<hashed, twoFa, enabledAt, codes>>
     \/ set_two_fa(t) /\ UNCHANGED <<account, hashed, codes>>
     \/ /\ At(t, "sadd")
        /\ hashed' = TRUE
        /\ UNCHANGED <<account, twoFa, enabledAt, codes>>
  /\ Return(t)
  /\ UNCHANGED <<opened, token>>

Crash ==
  /\ Fault
  /\ task' = [t \in Tasks |-> Idle]
  /\ UNCHANGED <<user, codes, opened, token>>

-----------------------------------------------------------------------------
TaskStep(t) ==
  \/ CheckLimit(t) \/ FindUser(t) \/ StoreCode(t) \/ VerifyCode(t)
  \/ InsertUser(t) \/ AddHash(t) \/ UpdateUser(t) \/ IssueTokens(t)

Next ==
  \/ \E t \in Tasks :
       Request(t) \/ TaskStep(t) \/ CommandFails(t) \/ ReplyLost(t)
  \/ \E k \in Kinds : CodeIsLost(k)
  \/ TokenExpires
  \/ Crash

Spec == Init /\ [][Next]_vars

-----------------------------------------------------------------------------
(* Every variable keeps its type, and who writes the account or is issued  *)
(* tokens has taken back a code.                                           *)
TypeOK ==
  /\ account \in BOOLEAN /\ hashed \in BOOLEAN /\ twoFa \in BOOLEAN
  /\ enabledAt \in 0..Len(kind)
  /\ kind \in Seq(Kinds) /\ Len(kind) <= MaxCodes
  /\ good \in [Kinds -> 0..Len(kind)]
  /\ opened \in [Codes -> Nat]
  /\ token \in BOOLEAN
  /\ task \in [Tasks -> Task]
  /\ \A t \in Tasks :
       At(t, "insert") \/ At(t, "update") \/ At(t, "issue") =>
         task[t].code # 0
  /\ faults \in 0..MaxFaults

(* A code opens one session at most, whoever sends it how often and at     *)
(* once: it is gone before anything is done with it (otp.rs:118-122).      *)
CodeOpensOneSession == \A c \in Codes : opened[c] <= 1

(* The account is registered once. Codes that were sent to register it,    *)
(* by requests that did not know of it yet, open no session to it: they    *)
(* would be a way past the second factor (auth/mod.rs:319-325).            *)
RegisteredOnce ==
  \A c, d \in 1..Len(kind) :
    /\ kind[c] = "register" /\ opened[c] > 0
    /\ kind[d] = "register" /\ opened[d] > 0
    => c = d

(* Once the second factor is enabled, a code that is sent afterwards opens *)
(* a session only if it is that of the second factor: no login that read   *)
(* the account earlier, no registration and no recovery gets around it     *)
(* (auth/mod.rs:433-455).                                                  *)
SecondFactorGuards ==
  twoFa => \A c \in enabledAt + 1..Len(kind) :
             opened[c] > 0 => kind[c] = "second"

(* The hash by which contacts find the phone is there for an account, and  *)
(* only for one, once nobody is about to add it: only a failure between    *)
(* the two databases leaves an account that no contact finds (user.rs:175).*)
FoundByContacts ==
  /\ hashed => account
  /\ /\ account
     /\ faults = 0
     /\ \A t \in Tasks : ~At(t, "sadd")
     => hashed
=============================================================================
