------------------------ MODULE PrivateChats_proofs -------------------------
(***************************************************************************)
(* Theorems about PrivateChats, for any number of chats, uploads, messages *)
(* and requests: that blocks are respected, that asking again gives the    *)
(* chat there is, which messages are marked as read unseen, and that a     *)
(* file is attached once.                                                  *)
(***************************************************************************)
EXTENDS PrivateChats, TLAPS

-----------------------------------------------------------------------------
(* The steps of send_message after the message has its number.             *)
Open == {"notBlocked", "insert", "commit"}

(* What a request knows, and what still holds of it.                       *)
Fits(k) ==
  /\ k.at # "idle" => k.user \in Users
  /\ k.at \in DeleteSteps \cup SendSteps \cup ReadSteps
              \cup {"getChat", "pendMember"} => k.chat \in chats
  /\ k.at \in Open => k.msg \in 1..begun /\ k.msg \notin Committed
  /\ k.at \in ReadSteps =>
       /\ k.seen <= Len(log)
       /\ \E n \in 1..k.seen : log[n] = k.msg
  /\ k.at \in ConfirmSteps => k.upload \in Uploads /\ k.msg \in Committed
  /\ k.at \in {"message", "uploader", "confirm"} => upload[k.upload].stored
  /\ k.at \in {"uploader", "confirm"} => k.chat = msg[k.msg].chat

(* A block that has stood since a send was asked for: past the check the   *)
(* other is not in the chat, and so gets no row of message_status.         *)
Shut(k) == k.shut =>
  /\ blocks # {}
  /\ k.at = "insert" => Peer(k.user) \notin in[k.chat]
  /\ k.at = "commit" => Peer(k.user) \notin k.to

(* Messages are begun by one request each. *)
OwnMessage == \A s, t \in Tasks :
  s # t /\ task[s].at \in Open /\ task[t].at \in Open =>
    task[s].msg # task[t].msg

(* Whoever is about to insert a chat is alone in that, and there is none.  *)
OneInserts == ~overlapped =>
  \A t \in Tasks : task[t].at = "insertChat" =>
    Both = {} /\ \A s \in Tasks \ {t} : task[s].at # "insertChat"

(* The inductive invariant. *)
IInv ==
  /\ TypeOK
  /\ \A t \in Tasks : Fits(task[t]) /\ Shut(task[t])
  /\ OwnMessage
  /\ OneInserts
  /\ BlockIsRespected
  /\ OneChatUnlessOverlapping
  /\ ReadUnseenOnlyIfLate

-----------------------------------------------------------------------------
(* Of two users, each has the other as its peer.                            *)
LEMMA PeerIsOther ==
  ASSUME NEW u \in Users
  PROVE  /\ Peer(u) \in Users /\ Peer(u) # u
         /\ \A v \in Users : v = u \/ v = Peer(u)
BY TheyAreTwo DEF Peer

LEMMA PeerIsSomebody ==
  ASSUME NEW u \in Users \cup {NoUser}
  PROVE  Peer(u) \in Users
BY TheyAreTwo, NobodyIsNobody DEF Peer

LEMMA NobodyDoes ==
  /\ IdleTask \in Task /\ IdleTask.at = "idle" /\ ~IdleTask.shut
  /\ Fits(IdleTask) /\ Shut(IdleTask)
<1>1. /\ IdleTask.at = "idle" /\ ~IdleTask.shut
      /\ IdleTask \in Task
  BY BoundsAreNaturals DEF IdleTask, Task
<1> QED
  BY <1>1 DEF Fits, Shut, DeleteSteps, SendSteps, ReadSteps, ConfirmSteps, Open

LEMMA Unpacked ==
  ASSUME IInv
  PROVE  /\ TypeOK /\ OwnMessage /\ OneInserts
         /\ BlockIsRespected /\ OneChatUnlessOverlapping
         /\ ReadUnseenOnlyIfLate
         /\ task \in [Tasks -> Task]
         /\ \A t \in Tasks : Fits(task[t]) /\ Shut(task[t]) /\ task[t] \in Task
BY DEF IInv, TypeOK

(* One request moves. *)
LEMMA Moved ==
  ASSUME task \in [Tasks -> Task], NEW t \in Tasks, NEW k \in Task,
         task' = [task EXCEPT ![t] = k]
  PROVE  /\ task' \in [Tasks -> Task] /\ task'[t] = k
         /\ \A s \in Tasks : s # t => task'[s] = task[s]
OBVIOUS

(* A step that only moves one request keeps the invariant if what the      *)
(* request is about to do fits.                                            *)
LEMMA QuietKeeps ==
  ASSUME IInv, NEW t \in Tasks, NEW k \in Task,
         task' = [task EXCEPT ![t] = k],
         UNCHANGED <<chats, in, blocks, begun, msg, log, unseen, upload,
                     overlapped>>,
         requests' \in 0..MaxRequests, faults' \in 0..MaxFaults,
         Fits(k), Shut(k), k.at # "insertChat",
         k.at \in Open => task[t].at \in Open /\ k.msg = task[t].msg
  PROVE  IInv'
<1>1. /\ task' \in [Tasks -> Task] /\ task'[t] = k
      /\ \A s \in Tasks : s # t => task'[s] = task[s]
  BY Unpacked, Moved
<1>2. Both' = Both /\ Committed' = Committed
  BY DEF Both, Committed
<1>3. TypeOK'
  BY <1>1, <1>2, Unpacked DEF TypeOK
<1>4. \A s \in Tasks : Fits(task[s])' /\ Shut(task[s])'
  <2> SUFFICES ASSUME NEW s \in Tasks
               PROVE  Fits(task[s])' /\ Shut(task[s])'
    OBVIOUS
  <2>1. Fits(task'[s]) /\ Shut(task'[s])
    BY <1>1, Unpacked
  <2>2. Fits(task[s])'
    BY <1>2, <2>1 DEF Fits
  <2> QED
    BY <2>1, <2>2 DEF Shut
<1>5. OwnMessage'
  BY <1>1, Unpacked DEF OwnMessage
<1>6. OneInserts'
  BY <1>1, <1>2, Unpacked DEF OneInserts
<1>7. BlockIsRespected' /\ OneChatUnlessOverlapping' /\ ReadUnseenOnlyIfLate'
  BY <1>2, Unpacked DEF BlockIsRespected, OneChatUnlessOverlapping,
     OneChatPerPair,
                        ReadUnseenOnlyIfLate
<1> QED
  BY <1>3, <1>4, <1>5, <1>6, <1>7 DEF IInv

LEMMA ReturnKeeps ==
  ASSUME IInv, NEW t \in Tasks, Return(t),
         UNCHANGED <<chats, in, blocks, begun, msg, log, unseen, upload,
                     overlapped>>,
         requests' \in 0..MaxRequests, faults' \in 0..MaxFaults
  PROVE  IInv'
<1>1. IdleTask.at # "insertChat" /\ IdleTask.at \notin Open
  BY NobodyDoes DEF Open
<1> QED
  BY <1>1, NobodyDoes, QuietKeeps DEF Return

AllSteps ==
  CreateSteps \cup DeleteSteps \cup BlockSteps \cup SendSteps \cup ReadSteps
    \cup UploadSteps \cup ConfirmSteps

LEMMA StepOn ==
  ASSUME NEW k \in Task, NEW step \in AllSteps, NEW n,
         n = [k EXCEPT !.at = step]
  PROVE  /\ n \in Task /\ n.at = step /\ n.user = k.user /\ n.chat = k.chat
         /\ n.msg = k.msg /\ n.upload = k.upload /\ n.to = k.to
         /\ n.seen = k.seen /\ n.shut = k.shut
BY DEF Task, AllSteps

(* A check of the handler. *)
LEMMA CheckKeeps ==
  ASSUME IInv, NEW t \in Tasks, NEW good, NEW step \in AllSteps,
         Check(t, good, step),
         UNCHANGED <<chats, in, blocks, begun, msg, log, unseen, upload, overlapped,
                     requests, faults>>,
         NEW n, n = [task[t] EXCEPT !.at = step],
         good => Fits(n) /\ Shut(n),
         step # "insertChat",
         step \in Open => task[t].at \in Open
  PROVE  IInv'
<1>1. requests' \in 0..MaxRequests /\ faults' \in 0..MaxFaults
  BY Unpacked DEF TypeOK
<1>2. CASE Return(t)
  BY <1>1, <1>2, ReturnKeeps
<1>3. CASE good /\ Goto(t, step)
  <2>1. n \in Task /\ n.at = step /\ n.msg = task[t].msg
    BY Unpacked, StepOn
  <2>2. task' = [task EXCEPT ![t] = n]
    BY <1>3, Unpacked DEF Goto
  <2> QED
    BY <1>1, <1>3, <2>1, <2>2, QuietKeeps
<1> QED
  BY <1>2, <1>3 DEF Check

Still ==
  UNCHANGED <<chats, in, blocks, begun, msg, log, unseen, upload, overlapped,
              requests, faults>>

LEMMA ChecksKeep ==
  ASSUME IInv, NEW t \in Tasks,
         \/ FindOwn(t) \/ is_user_blocked(t) \/ ensure_not_blocked(t)
         \/ verify_participant(t) \/ CheckUploader(t)
         \/ get_pending_attachment(t) \/ head_object(t) \/ CheckMember(t)
  PROVE  IInv'
<1> DEFINE k == task[t]
           n(step) == [k EXCEPT !.at = step]
<1>1. k \in Task /\ Fits(k) /\ Shut(k)
  BY Unpacked
<1>2. ASSUME NEW step \in AllSteps
      PROVE  /\ n(step) \in Task /\ n(step).at = step /\ n(step).user = k.user
             /\ n(step).chat = k.chat /\ n(step).msg = k.msg
             /\ n(step).upload = k.upload /\ n(step).to = k.to
             /\ n(step).seen = k.seen /\ n(step).shut = k.shut
  BY <1>1, StepOn
<1> USE DEF AllSteps, CreateSteps, DeleteSteps, BlockSteps, SendSteps, ReadSteps,
            UploadSteps, ConfirmSteps
<1> HIDE DEF n
<1>3. CASE FindOwn(t)
  <2>1. k.at = "own" /\ Check(t, k.user \in in[k.chat], "leave")
        /\ "leave" \in AllSteps /\ Still
    BY <1>3 DEF FindOwn, chat, message, bounds, Still
  <2>2. Fits(n("leave")) /\ Shut(n("leave"))
    BY <1>1, <1>2, <2>1 DEF Fits, Shut, Open
  <2> QED
    BY <2>1, <2>2, CheckKeeps DEF n, Open, Still
<1>4. CASE is_user_blocked(t)
  <2>1. k.at = "isBlocked" /\ Check(t, k.user \notin blocks, "block")
        /\ "block" \in AllSteps /\ Still
    BY <1>4 DEF is_user_blocked, chat, message, bounds, Still
  <2>2. Fits(n("block")) /\ Shut(n("block"))
    BY <1>1, <1>2, <2>1 DEF Fits, Shut, Open
  <2> QED
    BY <2>1, <2>2, CheckKeeps DEF n, Open, Still
<1>5. CASE ensure_not_blocked(t)
  <2>1. k.at = "notBlocked"
        /\ Check(t, blocks = {} \/ Peer(k.user) \notin in[k.chat], "insert")
        /\ "insert" \in AllSteps /\ Still
    BY <1>5 DEF ensure_not_blocked, chat, message, bounds, Still
  <2>2. ASSUME blocks = {} \/ Peer(k.user) \notin in[k.chat]
        PROVE  Fits(n("insert")) /\ Shut(n("insert"))
    BY <1>1, <1>2, <2>1, <2>2 DEF Fits, Shut, Open
  <2> QED
    BY <2>1, <2>2, CheckKeeps DEF n, Open, Still
<1>6. CASE verify_participant(t)
  <2>1. k.at = "verify" /\ Check(t, k.user \in in[k.chat], "mark")
        /\ "mark" \in AllSteps /\ Still
    BY <1>6 DEF verify_participant, chat, message, bounds, Still
  <2>2. Fits(n("mark")) /\ Shut(n("mark"))
    BY <1>1, <1>2, <2>1 DEF Fits, Shut, Open
  <2> QED
    BY <2>1, <2>2, CheckKeeps DEF n, Open, Still
<1>7. CASE CheckUploader(t)
  <2>1. Still
    BY <1>7 DEF CheckUploader, chat, message, bounds, Still
  <2>2. CASE k.at = "getChat" /\ Check(t, k.user \in in[k.chat], "pendMember")
    <3>1. Fits(n("pendMember")) /\ Shut(n("pendMember"))
          /\ "pendMember" \in AllSteps
      BY <1>1, <1>2, <2>2 DEF Fits, Shut, Open
    <3> QED
      BY <2>1, <2>2, <3>1, CheckKeeps DEF n, Open, Still
  <2>3. CASE k.at = "pendMember" /\ Check(t, k.user \in in[k.chat], "pend")
    <3>1. Fits(n("pend")) /\ Shut(n("pend"))
          /\ "pend" \in AllSteps
      BY <1>1, <1>2, <2>3 DEF Fits, Shut, Open
    <3> QED
      BY <2>1, <2>3, <3>1, CheckKeeps DEF n, Open, Still
  <2> QED
    BY <1>7, <2>2, <2>3 DEF CheckUploader
<1>8. CASE get_pending_attachment(t)
  <2>1. k.at = "pending" /\ Check(t, upload[k.upload].msg = 0, "head")
        /\ "head" \in AllSteps /\ Still
    BY <1>8 DEF get_pending_attachment, chat, message, bounds, Still
  <2>2. Fits(n("head")) /\ Shut(n("head"))
    BY <1>1, <1>2, <2>1 DEF Fits, Shut, Open
  <2> QED
    BY <2>1, <2>2, CheckKeeps DEF n, Open, Still
<1>9. CASE head_object(t)
  <2>1. k.at = "head" /\ Check(t, upload[k.upload].stored, "message")
        /\ "message" \in AllSteps /\ Still
    BY <1>9 DEF head_object, chat, message, bounds, Still
  <2>2. ASSUME upload[k.upload].stored
        PROVE  Fits(n("message")) /\ Shut(n("message"))
    BY <1>1, <1>2, <2>1, <2>2 DEF Fits, Shut, Open
  <2> QED
    BY <2>1, <2>2, CheckKeeps DEF n, Open, Still
<1>10. CASE CheckMember(t)
  <2>1. k.at = "uploader" /\ Check(t, k.user \in in[k.chat], "confirm")
        /\ "confirm" \in AllSteps /\ Still
    BY <1>10 DEF CheckMember, chat, message, bounds, Still
  <2>2. Fits(n("confirm")) /\ Shut(n("confirm"))
    BY <1>1, <1>2, <2>1 DEF Fits, Shut, Open
  <2> QED
    BY <2>1, <2>2, CheckKeeps DEF n, Open, Still
<1> QED
  BY <1>3, <1>4, <1>5, <1>6, <1>7, <1>8, <1>9, <1>10

LEMMA InsertKeeps ==
  ASSUME IInv, NEW t \in Tasks, Insert(t)
  PROVE  IInv'
<1> DEFINE k == task[t]
           n == [k EXCEPT !.at = "commit", !.to = in[k.chat]]
<1>1. /\ k \in Task /\ Fits(k) /\ Shut(k) /\ k.at = "insert"
      /\ k.chat \in ChatIds
  BY Unpacked DEF Insert, Fits, SendSteps, TypeOK
<1>2. /\ in[k.chat] \subseteq Users
      /\ requests \in 0..MaxRequests /\ faults \in 0..MaxFaults
  BY <1>1, Unpacked DEF TypeOK
<1>3. /\ n \in Task /\ n.at = "commit" /\ n.user = k.user /\ n.chat = k.chat
      /\ n.msg = k.msg /\ n.to = in[k.chat] /\ n.shut = k.shut
  BY <1>1, <1>2 DEF Task, SendSteps
<1>4. task' = [task EXCEPT ![t] = n] /\ Still
  BY <1>1, Unpacked DEF Insert, Still, chat, message, bounds
<1> HIDE DEF n
<1>5. Fits(n) /\ Shut(n)
  BY <1>1, <1>3 DEF Fits, Shut, Open, DeleteSteps, SendSteps, ReadSteps,
     ConfirmSteps
<1> QED
  BY <1>1, <1>2, <1>3, <1>4, <1>5, QuietKeeps DEF Open, Still

LEMMA LogIsCommitted ==
  ASSUME IInv
  PROVE  /\ Len(log) \in Nat /\ begun \in Nat /\ begun <= MaxMessages
         /\ \A n \in 1..Len(log) : log[n] \in Committed
         /\ \A m \in Committed : \E n \in 1..Len(log) : log[n] = m
         /\ Committed \subseteq 1..begun /\ Committed \subseteq Ids
         /\ MaxMessages \in Nat
<1>1. /\ log \in Seq(1..begun) /\ begun \in 0..MaxMessages
      /\ MaxMessages \in Nat
  BY Unpacked, BoundsAreNaturals DEF TypeOK
<1>2. /\ Len(log) \in Nat /\ DOMAIN log = 1..Len(log)
      /\ \A n \in 1..Len(log) : log[n] \in 1..begun
  BY <1>1
<1>3. Committed = {log[n] : n \in 1..Len(log)}
  BY <1>2 DEF Committed, Range
<1> QED
  BY <1>1, <1>2, <1>3 DEF Ids

LEMMA FindMessageKeeps ==
  ASSUME IInv, NEW t \in Tasks, FindMessage(t)
  PROVE  IInv'
<1> DEFINE k == task[t]
           n == [k EXCEPT !.at = "uploader", !.chat = msg[k.msg].chat]
<1>1. k \in Task /\ Fits(k) /\ Shut(k) /\ k.at = "message" /\ Still
  BY Unpacked DEF FindMessage, Still, chat, message, bounds
<1>2. /\ msg[k.msg].chat \in ChatIds \cup {NoChat}
      /\ requests \in 0..MaxRequests /\ faults \in 0..MaxFaults
  <2>1. k.msg \in Ids
    BY <1>1, LogIsCommitted DEF Fits, ConfirmSteps
  <2> QED
    BY <2>1, Unpacked DEF TypeOK, Message
<1>3. /\ n \in Task /\ n.at = "uploader" /\ n.user = k.user
      /\ n.chat = msg[k.msg].chat /\ n.msg = k.msg /\ n.upload = k.upload
      /\ n.shut = k.shut
  BY <1>1, <1>2 DEF Task, ConfirmSteps
<1>4. CASE Return(t)
  BY <1>1, <1>2, <1>4, ReturnKeeps DEF Still
<1>5. CASE task' = [task EXCEPT ![t].at = "uploader", ![t].chat = msg[k.msg].chat]
  <2>1. task' = [task EXCEPT ![t] = n]
    BY <1>1, <1>5, Unpacked
  <2> HIDE DEF n
  <2>2. Fits(n) /\ Shut(n)
    BY <1>1, <1>3 DEF Fits, Shut, Open, DeleteSteps, SendSteps, ReadSteps,
       ConfirmSteps
  <2> QED
    BY <1>1, <1>2, <1>3, <2>1, <2>2, QuietKeeps DEF Open, Still
<1> QED
  BY <1>4, <1>5 DEF FindMessage

LEMMA GivesUp ==
  ASSUME IInv, NEW t \in Tasks, Answer(t) \/ QueryFails(t)
  PROVE  IInv'
<1>1. requests \in 0..MaxRequests /\ faults \in 0..MaxFaults
      /\ MaxFaults \in Nat
  BY Unpacked, BoundsAreNaturals DEF TypeOK
<1>2. CASE Answer(t)
  BY <1>1, <1>2, ReturnKeeps DEF Answer, chat, message, bounds
<1>3. CASE QueryFails(t)
  BY <1>1, <1>3, ReturnKeeps DEF QueryFails, Fault, chat, message
<1> QED
  BY <1>2, <1>3

LEMMA SpawnKeeps ==
  ASSUME IInv, NEW t \in Tasks, NEW k \in Task, Spawn(t, k),
         Fits(k), Shut(k), k.at \notin Open, k.at # "insertChat"
  PROVE  IInv'
<1>1. /\ task' = [task EXCEPT ![t] = k]
      /\ UNCHANGED <<chats, in, blocks, begun, msg, log, unseen, upload,
                     overlapped>>
      /\ requests' = requests + 1 /\ requests < MaxRequests /\ faults' = faults
  BY DEF Spawn, chat, message
<1>2. requests' \in 0..MaxRequests /\ faults' \in 0..MaxFaults
  BY <1>1, Unpacked, BoundsAreNaturals DEF TypeOK
<1> QED
  BY <1>1, <1>2, QuietKeeps

(* Each action keeps the invariant.                                         *)
LEMMA RequestKeeps ==
  ASSUME IInv, NEW t \in Tasks, NEW u \in Users, Request(t, u)
  PROVE  IInv'
<1>1. ASSUME NEW at \in {"find", "isBlocked", "pend", "own", "member", "getChat",
                        "verify", "pending"},
             NEW c \in ChatIds \cup {NoChat}, NEW m \in 0..MaxMessages,
             NEW x \in Uploads \cup {NoUpload},
             NEW k, k = Handler(at, u, c, m, x)
      PROVE  /\ k \in Task /\ k.at = at /\ k.user = u /\ k.chat = c
             /\ k.msg = m /\ k.upload = x
             /\ at = "verify" => k.seen = Len(log)
             /\ k.shut => blocks # {}
  BY <1>1, LogIsCommitted DEF Handler, Task, CreateSteps, DeleteSteps,
     BlockSteps,
      SendSteps, ReadSteps, UploadSteps, ConfirmSteps
<1>2. 0 \in 0..MaxMessages /\ NoChat \in ChatIds \cup {NoChat}
      /\ NoUpload \in Uploads \cup {NoUpload}
  BY LogIsCommitted
<1>3. ASSUME NEW at \in {"find", "isBlocked", "pend"},
             Spawn(t, Handler(at, u, NoChat, 0, NoUpload))
      PROVE  IInv'
  <2> DEFINE k == Handler(at, u, NoChat, 0, NoUpload)
  <2>1. /\ k \in Task /\ k.at = at /\ k.user = u
        /\ k.shut => blocks # {}
    BY <1>1, <1>2
  <2> HIDE DEF k
  <2>2. Fits(k) /\ Shut(k)
    BY <2>1 DEF Fits, Shut, Open, DeleteSteps, SendSteps,
       ReadSteps, ConfirmSteps
  <2> QED
    BY <1>3, <2>1, <2>2, SpawnKeeps DEF k, Open
<1>4. ASSUME NEW c \in chats, NEW at \in {"own", "member", "getChat"},
             Spawn(t, Handler(at, u, c, 0, NoUpload))
      PROVE  IInv'
  <2> DEFINE k == Handler(at, u, c, 0, NoUpload)
  <2>1. /\ k \in Task /\ k.at = at /\ k.user = u /\ k.chat = c
        /\ k.shut => blocks # {}
    BY <1>1, <1>2, Unpacked DEF TypeOK
  <2> HIDE DEF k
  <2>2. Fits(k) /\ Shut(k)
    BY <2>1 DEF Fits, Shut, Open, DeleteSteps, SendSteps,
       ReadSteps, ConfirmSteps
  <2> QED
    BY <1>4, <2>1, <2>2, SpawnKeeps DEF k, Open
<1>5. ASSUME NEW c \in chats, NEW m \in Shown(c),
             Spawn(t, Handler("verify", u, c, m, NoUpload))
      PROVE  IInv'
  <2> DEFINE k == Handler("verify", u, c, m, NoUpload)
  <2>1. m \in Committed /\ m \in 0..MaxMessages
    BY LogIsCommitted DEF Shown
  <2>2. /\ k \in Task /\ k.at = "verify" /\ k.user = u /\ k.chat = c
        /\ k.msg = m
        /\ k.seen = Len(log)
        /\ k.shut => blocks # {}
    BY <1>1, <1>2, <2>1, Unpacked DEF TypeOK
  <2> HIDE DEF k
  <2>3. Fits(k) /\ Shut(k)
    BY <2>1, <2>2, LogIsCommitted DEF Fits, Shut, Open, DeleteSteps, SendSteps,
       ReadSteps, ConfirmSteps
  <2> QED
    BY <1>5, <2>2, <2>3, SpawnKeeps DEF k, Open
<1>6. ASSUME NEW x \in Uploads, NEW m \in Committed,
             Spawn(t, Handler("pending", u, NoChat, m, x))
      PROVE  IInv'
  <2> DEFINE k == Handler("pending", u, NoChat, m, x)
  <2>1. /\ m \in 0..MaxMessages /\ NoChat \in ChatIds \cup {NoChat}
        /\ x \in Uploads \cup {NoUpload}
    BY LogIsCommitted
  <2>2. /\ k \in Task /\ k.at = "pending" /\ k.user = u /\ k.msg = m
        /\ k.upload = x
        /\ k.shut => blocks # {}
    BY <1>1, <2>1
  <2> HIDE DEF k
  <2>3. Shut(k)
    BY <2>2 DEF Shut
  <2>4. Fits(k)
    BY <2>2 DEF Fits, Open, DeleteSteps, SendSteps, ReadSteps,
       ConfirmSteps
  <2> QED
    BY <1>6, <2>2, <2>3, <2>4, SpawnKeeps DEF k, Open
<1> QED
  BY <1>3, <1>4, <1>5, <1>6 DEF Request

LEMMA FindChatKeeps ==
  ASSUME IInv, NEW t \in Tasks, FindChat(t)
  PROVE  IInv'
<1> DEFINE k == task[t]
<1>1. /\ k \in Task /\ Fits(k) /\ Shut(k) /\ k.at = "find"
      /\ UNCHANGED <<chats, in, blocks, begun, msg, log, unseen, upload,
                     requests, faults>>
      /\ requests \in 0..MaxRequests /\ faults \in 0..MaxFaults
  BY Unpacked DEF FindChat, chat, message, bounds, TypeOK
<1>2. ASSUME NEW c \in Both, UNCHANGED overlapped,
             task' = [task EXCEPT ![t].at = "answer", ![t].chat = c]
      PROVE  IInv'
  <2> DEFINE n == [k EXCEPT !.at = "answer", !.chat = c]
  <2>1. task' = [task EXCEPT ![t] = n]
    BY <1>1, <1>2, Unpacked
  <2>2. /\ n \in Task /\ n.at = "answer" /\ n.user = k.user /\ n.shut = k.shut
    BY <1>1, Unpacked DEF Task, CreateSteps, TypeOK, Both
  <2> HIDE DEF n
  <2>3. Fits(n) /\ Shut(n)
    BY <1>1, <2>2 DEF Fits, Shut, Open, DeleteSteps, SendSteps, ReadSteps,
       ConfirmSteps
  <2> QED
    BY <1>1, <1>2, <2>1, <2>2, <2>3, QuietKeeps DEF Open
<1>3. ASSUME Both = {}, Goto(t, "insertChat"), Overlap(t)
      PROVE  IInv'
  <2> DEFINE n == [k EXCEPT !.at = "insertChat"]
  <2>1. /\ n \in Task /\ n.at = "insertChat" /\ n.user = k.user
        /\ n.shut = k.shut
    BY <1>1, StepOn DEF AllSteps, CreateSteps
  <2>2. task' = [task EXCEPT ![t] = n]
    BY <1>3, Unpacked DEF Goto
  <2> HIDE DEF n
  <2>3. /\ task' \in [Tasks -> Task] /\ task'[t] = n
        /\ \A s \in Tasks : s # t => task'[s] = task[s]
    BY <2>1, <2>2, Unpacked, Moved
  <2>4. Both' = Both /\ Committed' = Committed
    BY <1>1 DEF Both, Committed
  <2>5. overlapped' = (overlapped \/ \E s \in Tasks \ {t} : task[s].at = "insertChat")
        /\ overlapped \in BOOLEAN
    BY <1>3, Unpacked DEF Overlap, TypeOK
  <2>6. TypeOK'
    BY <1>1, <2>3, <2>4, <2>5, Unpacked DEF TypeOK
  <2>7. Fits(n) /\ Shut(n)
    BY <1>1, <2>1 DEF Fits, Shut, Open, DeleteSteps, SendSteps, ReadSteps,
       ConfirmSteps
  <2>8. \A s \in Tasks : Fits(task[s])' /\ Shut(task[s])'
    <3> SUFFICES ASSUME NEW s \in Tasks
                 PROVE  Fits(task[s])' /\ Shut(task[s])'
      OBVIOUS
    <3>1. Fits(task'[s]) /\ Shut(task'[s])
      BY <2>3, <2>7, Unpacked
    <3>2. Fits(task[s])'
      BY <1>1, <2>4, <3>1 DEF Fits
    <3> QED
      BY <1>1, <3>1, <3>2 DEF Shut
  <2>9. OwnMessage'
    BY <2>1, <2>3, Unpacked DEF OwnMessage, Open
  <2>10. OneInserts'
    BY <1>3, <2>3, <2>4, <2>5 DEF OneInserts
  <2>11. BlockIsRespected' /\ OneChatUnlessOverlapping'
         /\ ReadUnseenOnlyIfLate'
    BY <1>1, <2>4, <2>5, Unpacked
    DEF BlockIsRespected, OneChatUnlessOverlapping, OneChatPerPair,
        ReadUnseenOnlyIfLate
  <2> QED
    BY <2>6, <2>8, <2>9, <2>10, <2>11 DEF IInv
<1> QED
  BY <1>2, <1>3 DEF FindChat

LEMMA InsertChatKeeps ==
  ASSUME IInv, NEW t \in Tasks, NEW c \in ChatIds, insert_chat(t, c),
         NEW k \in Task, task' = [task EXCEPT ![t] = k],
         k.at \in {"idle", "answer"}, Fits(k), Shut(k),
         requests' \in 0..MaxRequests, faults' \in 0..MaxFaults
  PROVE  IInv'
<1>1. /\ UNCHANGED <<blocks, begun, msg, log, unseen, upload, overlapped>>
      /\ chats' = chats \cup {c} /\ in' = [in EXCEPT ![c] = Users]
      /\ c \notin chats /\ task[t].at = "insertChat"
      /\ in \in [ChatIds -> SUBSET Users] /\ chats \subseteq ChatIds
  BY Unpacked DEF insert_chat, message, TypeOK
<1>2. /\ task' \in [Tasks -> Task] /\ task'[t] = k
      /\ \A s \in Tasks : s # t => task'[s] = task[s]
  BY Unpacked, Moved
<1>3. /\ in' \in [ChatIds -> SUBSET Users]
      /\ \A d \in ChatIds : d # c => in'[d] = in[d]
      /\ Committed' = Committed
      /\ Both' \subseteq Both \cup {c}
  BY <1>1 DEF Committed, Both
<1>4. TypeOK'
  BY <1>1, <1>2, <1>3, Unpacked DEF TypeOK
<1>5. \A s \in Tasks : Fits(task[s])' /\ Shut(task[s])'
  <2> SUFFICES ASSUME NEW s \in Tasks
               PROVE  Fits(task[s])' /\ Shut(task[s])'
    OBVIOUS
  <2>1. Fits(task'[s]) /\ Shut(task'[s])
    BY <1>2, Unpacked
  <2>2. Fits(task[s])'
    BY <1>1, <1>3, <2>1 DEF Fits
  <2>3. task'[s].at = "insert" => in'[task'[s].chat] = in[task'[s].chat]
    BY <1>1, <1>3, <2>1 DEF Fits, SendSteps
  <2> QED
    BY <1>1, <2>1, <2>2, <2>3 DEF Shut
<1>6. OwnMessage'
  BY <1>2, Unpacked DEF OwnMessage, Open
<1>7. ~overlapped => Both = {}
      /\ \A s \in Tasks \ {t} : task[s].at # "insertChat"
  BY <1>1, Unpacked DEF OneInserts
<1>8. OneInserts'
  BY <1>1, <1>2, <1>7 DEF OneInserts
<1>9. OneChatUnlessOverlapping'
  BY <1>1, <1>3, <1>7 DEF OneChatUnlessOverlapping, OneChatPerPair
<1>10. BlockIsRespected' /\ ReadUnseenOnlyIfLate'
  BY <1>1, <1>3, Unpacked DEF BlockIsRespected, ReadUnseenOnlyIfLate
<1> QED
  BY <1>4, <1>5, <1>6, <1>8, <1>9, <1>10 DEF IInv

LEMMA InsertChatAnswers ==
  ASSUME IInv, NEW t \in Tasks, InsertChat(t)
  PROVE  IInv'
<1>1. PICK c \in ChatIds : /\ insert_chat(t, c)
                          /\ task' = [task EXCEPT ![t].at = "answer", ![t].chat = c]
                          /\ UNCHANGED bounds
  BY DEF InsertChat
<1> DEFINE n == [task[t] EXCEPT !.at = "answer", !.chat = c]
<1>2. /\ task[t] \in Task /\ Fits(task[t]) /\ Shut(task[t])
      /\ task[t].at = "insertChat"
      /\ requests' \in 0..MaxRequests /\ faults' \in 0..MaxFaults
  BY <1>1, Unpacked DEF insert_chat, TypeOK, bounds
<1>3. task' = [task EXCEPT ![t] = n]
  BY <1>1, Unpacked
<1>4. n \in Task /\ n.at = "answer" /\ n.user = task[t].user
      /\ n.shut = task[t].shut
  BY <1>2 DEF Task, CreateSteps
<1> HIDE DEF n
<1>5. Fits(n) /\ Shut(n)
  BY <1>2, <1>4 DEF Fits, Shut, Open, DeleteSteps, SendSteps, ReadSteps,
     ConfirmSteps
<1> QED
  BY <1>1, <1>2, <1>3, <1>4, <1>5, InsertChatKeeps

(* What a request did and then returned: what is left to show of a step    *)
(* that ends a request.                                                    *)
Ends(t) ==
  /\ Return(t)
  /\ requests' \in 0..MaxRequests /\ faults' \in 0..MaxFaults

LEMMA Ended ==
  ASSUME IInv, NEW t \in Tasks, Ends(t)
  PROVE  /\ task' \in [Tasks -> Task] /\ task'[t] = IdleTask
         /\ \A s \in Tasks : s # t => task'[s] = task[s]
         /\ \A s \in Tasks : task'[s].at # "idle" => s # t
         /\ OwnMessage'
         /\ \A s \in Tasks : Fits(task'[s]) /\ Shut(task'[s])
<1>1. /\ task' \in [Tasks -> Task] /\ task'[t] = IdleTask
      /\ \A s \in Tasks : s # t => task'[s] = task[s]
  BY Unpacked, Moved, NobodyDoes DEF Ends, Return
<1>2. OwnMessage'
  BY <1>1, Unpacked, NobodyDoes DEF OwnMessage, Open
<1> QED
  BY <1>1, <1>2, Unpacked, NobodyDoes

LEMMA LeaveKeeps ==
  ASSUME IInv, NEW t \in Tasks, leave(t), Ends(t)
  PROVE  IInv'
<1> DEFINE c == task[t].chat
<1>1. /\ UNCHANGED <<chats, blocks, begun, msg, log, unseen, upload,
                     overlapped>>
      /\ in' = [in EXCEPT ![c] = in[c] \ {task[t].user}]
      /\ in \in [ChatIds -> SUBSET Users] /\ chats \subseteq ChatIds
      /\ c \in chats
  BY Unpacked DEF leave, message, TypeOK, Fits, DeleteSteps
<1> HIDE DEF c
<1>2. /\ in' \in [ChatIds -> SUBSET Users]
      /\ \A d \in ChatIds : in'[d] \subseteq in[d]
      /\ Committed' = Committed
      /\ Both' \subseteq Both
  BY <1>1 DEF Committed, Both
<1>3. TypeOK'
  BY <1>1, <1>2, Ended, Unpacked DEF TypeOK, Ends
<1>4. \A s \in Tasks : Fits(task[s])' /\ Shut(task[s])'
  <2> SUFFICES ASSUME NEW s \in Tasks
               PROVE  Fits(task[s])' /\ Shut(task[s])'
    OBVIOUS
  <2>1. Fits(task'[s]) /\ Shut(task'[s])
    BY Ended
  <2>2. Fits(task[s])'
    BY <1>1, <1>2, <2>1 DEF Fits
  <2>3. task'[s].at = "insert" =>
      in'[task'[s].chat] \subseteq in[task'[s].chat]
    BY <1>1, <1>2, <2>1 DEF Fits, SendSteps
  <2> QED
    BY <1>1, <2>1, <2>2, <2>3 DEF Shut
<1>5. OneInserts'
  BY <1>1, <1>2, Ended, Unpacked, NobodyDoes DEF OneInserts
<1>6. OneChatUnlessOverlapping'
  BY <1>1, <1>2, Unpacked DEF OneChatUnlessOverlapping, OneChatPerPair
<1>7. BlockIsRespected' /\ ReadUnseenOnlyIfLate'
  BY <1>1, <1>2, Unpacked DEF BlockIsRespected, ReadUnseenOnlyIfLate
<1> QED
  BY <1>3, <1>4, <1>5, <1>6, <1>7, Ended DEF IInv

LEMMA BlockKeeps ==
  ASSUME IInv, NEW t \in Tasks, block_user(t), Ends(t)
  PROVE  IInv'
<1>1. /\ UNCHANGED <<chats, in, begun, msg, log, unseen, upload, overlapped>>
      /\ blocks' = blocks \cup {task[t].user} /\ task[t].user \in Users
  BY Unpacked DEF block_user, chat, message, Fits
<1>2. Committed' = Committed /\ Both' = Both
  BY <1>1 DEF Committed, Both
<1>3. TypeOK'
  BY <1>1, <1>2, Ended, Unpacked DEF TypeOK, Ends
<1>4. \A s \in Tasks : Fits(task[s])' /\ Shut(task[s])'
  <2> SUFFICES ASSUME NEW s \in Tasks
               PROVE  Fits(task[s])' /\ Shut(task[s])'
    OBVIOUS
  <2>1. Fits(task'[s]) /\ Shut(task'[s])
    BY Ended
  <2>2. Fits(task[s])'
    BY <1>1, <1>2, <2>1 DEF Fits
  <2> QED
    BY <1>1, <2>1, <2>2 DEF Shut
<1>5. OneInserts'
  BY <1>1, <1>2, Ended, Unpacked, NobodyDoes DEF OneInserts
<1>6. BlockIsRespected' /\ OneChatUnlessOverlapping' /\ ReadUnseenOnlyIfLate'
  BY <1>1, <1>2, Unpacked DEF BlockIsRespected, OneChatUnlessOverlapping,
     OneChatPerPair,
                              ReadUnseenOnlyIfLate
<1> QED
  BY <1>3, <1>4, <1>5, <1>6, Ended DEF IInv

LEMMA UnblockKeeps ==
  ASSUME IInv, NEW u \in Users, unblock_user(u)
  PROVE  IInv'
<1>1. /\ UNCHANGED <<chats, in, begun, msg, log, unseen, upload, overlapped,
                     requests, faults>>
      /\ blocks' = blocks \ {u}
      /\ u \in blocks
      /\ task' = [t \in Tasks |->
                    [task[t] EXCEPT !.shut = task[t].shut /\ blocks # {u}]]
  BY DEF unblock_user, chat, message, bounds
<1>2. Committed' = Committed /\ Both' = Both
  BY <1>1 DEF Committed, Both
<1>3. ASSUME NEW t \in Tasks
      PROVE  /\ task'[t] \in Task /\ task'[t].at = task[t].at
             /\ task'[t].user = task[t].user /\ task'[t].chat = task[t].chat
             /\ task'[t].msg = task[t].msg /\ task'[t].upload = task[t].upload
             /\ task'[t].to = task[t].to /\ task'[t].seen = task[t].seen
             /\ task'[t].shut = (task[t].shut /\ blocks # {u})
  <2> DEFINE k == task[t]
             n == [k EXCEPT !.shut = k.shut /\ blocks # {u}]
  <2>1. k \in Task /\ task'[t] = n
    BY <1>1, Unpacked
  <2>2. /\ n \in Task /\ n.at = k.at /\ n.user = k.user /\ n.chat = k.chat
        /\ n.msg = k.msg /\ n.upload = k.upload /\ n.to = k.to
        /\ n.seen = k.seen /\ n.shut = (k.shut /\ blocks # {u})
    BY <2>1 DEF Task
  <2> QED
    BY <2>1, <2>2
<1>4. task' \in [Tasks -> Task]
  BY <1>1, <1>3
<1>5. TypeOK'
  BY <1>1, <1>2, <1>4, Unpacked DEF TypeOK
<1>6. \A s \in Tasks : Fits(task[s])' /\ Shut(task[s])'
  <2> SUFFICES ASSUME NEW s \in Tasks
               PROVE  Fits(task[s])' /\ Shut(task[s])'
    OBVIOUS
  <2> DEFINE k == task[s]
             n == task'[s]
  <2>1. /\ Fits(k) /\ Shut(k)
        /\ n.at = k.at /\ n.user = k.user /\ n.chat = k.chat /\ n.msg = k.msg
        /\ n.upload = k.upload /\ n.to = k.to /\ n.seen = k.seen
        /\ n.shut = (k.shut /\ blocks # {u})
    BY <1>3, Unpacked
  <2> HIDE DEF k, n
  <2>2. Fits(n)
    BY <2>1 DEF Fits
  <2>3. Fits(task[s])'
    BY <1>1, <1>2, <2>2 DEF Fits, n
  <2>4. Shut(task[s])'
    BY <1>1, <2>1 DEF Shut, n
  <2> QED
    BY <2>3, <2>4
<1>7. OwnMessage'
  BY <1>3, Unpacked DEF OwnMessage
<1>8. OneInserts'
  BY <1>1, <1>2, <1>3, Unpacked DEF OneInserts
<1>9. BlockIsRespected' /\ OneChatUnlessOverlapping' /\ ReadUnseenOnlyIfLate'
  BY <1>1, <1>2, Unpacked DEF BlockIsRespected, OneChatUnlessOverlapping,
     OneChatPerPair,
                              ReadUnseenOnlyIfLate
<1> QED
  BY <1>5, <1>6, <1>7, <1>8, <1>9 DEF IInv

LEMMA MemberKeeps ==
  ASSUME IInv, NEW t \in Tasks, ensure_active_membership(t)
  PROVE  IInv'
<1> DEFINE k == task[t]
           n == [k EXCEPT !.at = "notBlocked", !.msg = begun + 1]
           m == IF k.user \in in[k.chat] THEN n ELSE IdleTask
<1>1. /\ k \in Task /\ Fits(k) /\ Shut(k) /\ k.at = "member"
      /\ UNCHANGED <<chats, in, blocks, msg, log, unseen, upload, overlapped,
                     requests, faults>>
      /\ begun' = begun + 1 /\ begun < MaxMessages
      /\ begun \in Nat /\ MaxMessages \in Nat
  BY Unpacked, LogIsCommitted DEF ensure_active_membership, chat, bounds
<1>2. task' = [task EXCEPT ![t] = m]
  <2>1. CASE k.user \in in[k.chat]
    BY <1>1, <2>1, Unpacked DEF ensure_active_membership
  <2>2. CASE k.user \notin in[k.chat]
    BY <1>1, <2>2, Unpacked DEF ensure_active_membership, Return
  <2> QED
    BY <2>1, <2>2
<1>3. /\ n \in Task /\ n.at = "notBlocked" /\ n.user = k.user
      /\ n.chat = k.chat
      /\ n.msg = begun + 1 /\ n.shut = k.shut
  <2>1. begun + 1 \in 0..MaxMessages /\ k \in Task
    BY <1>1
  <2> QED
    BY <2>1 DEF Task, SendSteps
<1> HIDE DEF n
<1>4. m \in Task /\ (m = n \/ m = IdleTask)
  BY <1>3, NobodyDoes
<1> HIDE DEF m
<1>5. /\ task' \in [Tasks -> Task] /\ task'[t] = m
      /\ \A s \in Tasks : s # t => task'[s] = task[s]
  BY <1>2, <1>4, Unpacked, Moved
<1>6. Committed' = Committed /\ Both' = Both /\ begun + 1 \notin Committed
      /\ Committed \subseteq 1..begun
  BY <1>1, LogIsCommitted DEF Committed, Both
<1>7. TypeOK'
  <2>1. log \in Seq(1..begun') /\ begun' \in 0..MaxMessages
    BY <1>1, Unpacked DEF TypeOK
  <2> QED
    BY <1>1, <1>5, <1>6, <2>1, Unpacked DEF TypeOK
<1>8. \A s \in Tasks : Fits(task[s])' /\ Shut(task[s])'
  <2> SUFFICES ASSUME NEW s \in Tasks
               PROVE  Fits(task[s])' /\ Shut(task[s])'
    OBVIOUS
  <2>1. CASE task'[s] = n
    <3>1. Fits(task[s])'
      BY <1>1, <1>3, <1>6, <2>1
      DEF Fits, Open, DeleteSteps, SendSteps, ReadSteps, ConfirmSteps
    <3>2. Shut(task[s])'
      BY <1>1, <1>3, <2>1 DEF Shut
    <3> QED
      BY <3>1, <3>2
  <2>2. CASE task'[s] # n
    <3>1. Fits(task'[s]) /\ Shut(task'[s])
      BY <1>4, <1>5, <2>2, Unpacked, NobodyDoes
    <3>2. Fits(task[s])'
      BY <1>1, <1>6, <3>1 DEF Fits
    <3> QED
      BY <1>1, <3>1, <3>2 DEF Shut
  <2> QED
    BY <2>1, <2>2
<1>9. OwnMessage'
  <2>1. \A s \in Tasks : task[s].at \in Open => task[s].msg # begun + 1
    BY <1>1, Unpacked DEF Fits
  <2>2. m.at \in Open => m.msg = begun + 1
    BY <1>3, <1>4, NobodyDoes DEF Open
  <2> QED
    BY <1>5, <2>1, <2>2, Unpacked DEF OwnMessage
<1>10. OneInserts'
  BY <1>1, <1>3, <1>4, <1>5, <1>6, Unpacked, NobodyDoes DEF OneInserts
<1>11. BlockIsRespected' /\ OneChatUnlessOverlapping' /\ ReadUnseenOnlyIfLate'
  BY <1>1, <1>6, Unpacked DEF BlockIsRespected, OneChatUnlessOverlapping,
     OneChatPerPair,
                              ReadUnseenOnlyIfLate
<1> QED
  BY <1>7, <1>8, <1>9, <1>10, <1>11 DEF IInv

LEMMA CommitKeeps ==
  ASSUME IInv, NEW t \in Tasks, commit_message(t), Ends(t)
  PROVE  IInv'
<1> DEFINE k == task[t]
           row == [chat |-> k.chat, sender |-> k.user, deleted |-> FALSE,
                   status |-> [u \in Users |-> IF u \in k.to THEN "sent" ELSE "none"],
                   shut |-> k.shut]
<1>1. /\ k \in Task /\ Fits(k) /\ Shut(k) /\ k.at = "commit"
      /\ UNCHANGED <<chats, in, blocks, begun, unseen, upload, overlapped>>
      /\ msg' = [msg EXCEPT ![k.msg] = row]
      /\ log' = Append(log, k.msg)
  BY Unpacked DEF commit_message, chat
<1>2. /\ k.msg \in 1..begun /\ k.msg \notin Committed /\ k.user \in Users
      /\ k.chat \in chats /\ k.msg \in Ids
  BY <1>1, LogIsCommitted DEF Fits, Open, SendSteps, Ids
<1>3. /\ row \in Message /\ row.sender = k.user /\ row.shut = k.shut
      /\ row.shut => row.status[Peer(k.user)] = "none"
  <2>1. k.shut \in BOOLEAN /\ k.chat \in ChatIds \cup {NoChat}
    BY <1>1 DEF Task
  <2>2. k.shut => Peer(k.user) \notin k.to /\ Peer(k.user) \in Users
    BY <1>1, <1>2, PeerIsOther DEF Shut
  <2> QED
    BY <1>2, <2>1, <2>2 DEF Message
<1> HIDE DEF row
<1>4. /\ msg' \in [Ids -> Message] /\ msg'[k.msg] = row
      /\ \A m \in Ids : m # k.msg => msg'[m] = msg[m]
  BY <1>1, <1>2, <1>3, Unpacked DEF TypeOK
<1>5. /\ log \in Seq(1..begun) /\ Len(log) \in Nat
      /\ log' \in Seq(1..begun) /\ Len(log') = Len(log) + 1
      /\ \A i \in 1..Len(log) : log'[i] = log[i]
      /\ log'[Len(log) + 1] = k.msg
      /\ DOMAIN log = 1..Len(log) /\ DOMAIN log' = 1..Len(log) + 1
  BY <1>1, <1>2, Unpacked DEF TypeOK
<1>6. Committed' = Committed \cup {k.msg} /\ Both' = Both
  <2>1. Committed' = Committed \cup {k.msg}
    BY <1>5 DEF Committed, Range
  <2> QED
    BY <1>1, <2>1 DEF Both
<1>7. Committed \subseteq Ids
  BY LogIsCommitted
<1>8. TypeOK'
  BY <1>1, <1>4, <1>5, <1>6, Ended, Unpacked DEF TypeOK, Ends
<1>9. \A s \in Tasks : Fits(task[s])' /\ Shut(task[s])'
  <2> SUFFICES ASSUME NEW s \in Tasks
               PROVE  Fits(task[s])' /\ Shut(task[s])'
    OBVIOUS
  <2>1. Fits(task'[s]) /\ Shut(task'[s])
    BY Ended
  <2>2. task'[s].at \in Open => task'[s].msg # k.msg
    BY <1>1, Ended, Unpacked, NobodyDoes DEF OwnMessage, Open
  <2>3. task'[s].at \in {"uploader", "confirm"} =>
          task'[s].chat = msg'[task'[s].msg].chat
    BY <1>2, <1>4, <1>7, <2>1 DEF Fits, ConfirmSteps
  <2>4. task'[s].at \in ReadSteps =>
          /\ task'[s].seen <= Len(log')
          /\ \E n \in 1..task'[s].seen : log'[n] = task'[s].msg
    <3> SUFFICES ASSUME task'[s].at \in ReadSteps
                 PROVE  /\ task'[s].seen <= Len(log')
                        /\ \E n \in 1..task'[s].seen : log'[n] = task'[s].msg
      OBVIOUS
    <3>1. task'[s].seen \in Nat
      BY Ended DEF Task
    <3> QED
      BY <1>5, <2>1, <3>1 DEF Fits
  <2>5. Fits(task[s])'
    BY <1>1, <1>6, <2>1, <2>2, <2>3, <2>4 DEF Fits
  <2> QED
    BY <1>1, <2>1, <2>5 DEF Shut
<1>10. OneInserts'
  BY <1>1, <1>6, Ended, Unpacked, NobodyDoes DEF OneInserts
<1>11. OneChatUnlessOverlapping'
  BY <1>1, <1>6, Unpacked DEF OneChatUnlessOverlapping, OneChatPerPair
<1>12. BlockIsRespected'
  BY <1>2, <1>3, <1>4, <1>6, <1>7, Unpacked DEF BlockIsRespected
<1>13. ReadUnseenOnlyIfLate'
  <2> SUFFICES ASSUME NEW m \in unseen
               PROVE  \E i, j \in DOMAIN log' : i < j /\ log'[j] = m
               /\ log'[i] > m
    BY <1>1 DEF ReadUnseenOnlyIfLate
  <2>1. PICK i \in DOMAIN log, j \in DOMAIN log : i < j /\ log[j] = m
        /\ log[i] > m
    BY Unpacked DEF ReadUnseenOnlyIfLate
  <2> QED
    BY <1>5, <2>1
<1> QED
  BY <1>8, <1>9, <1>10, <1>11, <1>12, <1>13, Ended DEF IInv

(* The rows of messages that change keep their chat, their sender and      *)
(* whether a block stood; nobody who had none gets a status.               *)
LEMMA RowsKeep ==
  ASSUME IInv, msg' \in [Ids -> Message],
         \A m \in Ids :
           /\ msg'[m].chat = msg[m].chat /\ msg'[m].sender = msg[m].sender
           /\ msg'[m].shut = msg[m].shut
           /\ \A u \in Users : msg[m].status[u] = "none" =>
               msg'[m].status[u] = "none",
         task' \in [Tasks -> Task],
         \A s \in Tasks : task'[s] = task[s] \/ task'[s] = IdleTask,
         UNCHANGED <<chats, in, blocks, begun, log, upload, overlapped>>,
         requests' \in 0..MaxRequests, faults' \in 0..MaxFaults,
         unseen' \subseteq Committed, ReadUnseenOnlyIfLate'
  PROVE  IInv'
<1>1. Committed' = Committed /\ Both' = Both /\ Committed \subseteq Ids
  BY LogIsCommitted DEF Committed, Both
<1>2. TypeOK'
  BY <1>1, Unpacked DEF TypeOK
<1>3. \A s \in Tasks : Fits(task[s])' /\ Shut(task[s])'
  <2> SUFFICES ASSUME NEW s \in Tasks
               PROVE  Fits(task[s])' /\ Shut(task[s])'
    OBVIOUS
  <2>1. Fits(task'[s]) /\ Shut(task'[s])
    BY Unpacked, NobodyDoes
  <2>2. task'[s].at \in {"uploader", "confirm"} =>
          task'[s].chat = msg'[task'[s].msg].chat
    BY <1>1, <2>1 DEF Fits, ConfirmSteps
  <2>3. Fits(task[s])'
    BY <1>1, <2>1, <2>2 DEF Fits
  <2> QED
    BY <2>1, <2>3 DEF Shut
<1>4. OwnMessage'
  BY Unpacked, NobodyDoes DEF OwnMessage, Open
<1>5. OneInserts'
  BY <1>1, Unpacked, NobodyDoes DEF OneInserts
<1>6. OneChatUnlessOverlapping'
  BY <1>1, Unpacked DEF OneChatUnlessOverlapping, OneChatPerPair
<1>7. BlockIsRespected'
  <2> SUFFICES ASSUME NEW m \in Committed, msg'[m].shut
               PROVE  msg'[m].status[Peer(msg'[m].sender)] = "none"
    BY <1>1 DEF BlockIsRespected
  <2>1. msg[m].status[Peer(msg[m].sender)] = "none" /\ m \in Ids
    BY <1>1, Unpacked DEF BlockIsRespected
  <2>2. msg[m].sender \in Users \cup {NoUser}
    BY <2>1, Unpacked DEF TypeOK, Message
  <2> QED
    BY <2>1, <2>2, PeerIsSomebody
<1> QED
  BY <1>2, <1>3, <1>4, <1>5, <1>6, <1>7 DEF IInv

LEMMA DeleteKeeps ==
  ASSUME IInv, NEW m \in Ids, delete_message(m)
  PROVE  IInv'
<1>1.
      /\ UNCHANGED <<chats, in, blocks, begun, log, unseen, upload, task, overlapped,
                     requests, faults>>
      /\ msg' = [msg EXCEPT ![m].deleted = TRUE]
      /\ msg \in [Ids -> Message]
  BY Unpacked DEF delete_message, chat, bounds, TypeOK
<1>2. /\ msg' \in [Ids -> Message]
      /\ \A n \in Ids :
           /\ msg'[n].chat = msg[n].chat /\ msg'[n].sender = msg[n].sender
           /\ msg'[n].shut = msg[n].shut /\ msg'[n].status = msg[n].status
  BY <1>1 DEF Message
<1>3. Committed' = Committed
  BY <1>1 DEF Committed
<1>4. /\ requests' \in 0..MaxRequests /\ faults' \in 0..MaxFaults
      /\ unseen' \subseteq Committed
  BY <1>1, Unpacked DEF TypeOK
<1>5. ReadUnseenOnlyIfLate'
  BY <1>1, Unpacked DEF ReadUnseenOnlyIfLate
<1> QED
  BY <1>1, <1>2, <1>4, <1>5, RowsKeep, Unpacked

(* What is marked was committed before the message that was read up to, or *)
(* it is late: begun before that message, and committed after it.          *)
LEMMA MarkReadKeeps ==
  ASSUME IInv, NEW t \in Tasks, mark_messages_read(t), Ends(t)
  PROVE  IInv'
<1> DEFINE k == task[t]
           marked == {m \in Shown(k.chat) :
                        /\ m \in 1..k.msg
                        /\ msg[m].sender # k.user
                        /\ k.user \in in[k.chat]
                        /\ ~msg[m].deleted
                        /\ msg[m].status[k.user] = "sent"}
<1>1. /\ k \in Task /\ Fits(k) /\ k.at = "mark"
      /\ UNCHANGED <<chats, in, blocks, begun, log, upload, overlapped>>
      /\ msg' = [m \in Ids |-> IF m \in marked
                   THEN [msg[m] EXCEPT !.status[k.user] = "read"] ELSE msg[m]]
      /\ unseen' = unseen \cup (marked \ {log[n] : n \in 1..k.seen})
      /\ msg \in [Ids -> Message]
  BY Unpacked DEF mark_messages_read, Mark, chat, TypeOK
<1>2. /\ marked \subseteq Committed
      /\ \A m \in marked : m \in 1..k.msg /\ msg[m].status[k.user] = "sent"
      /\ k.user \in Users
  BY <1>1 DEF Shown, Fits
<1> HIDE DEF marked
<1>3. ASSUME NEW m \in Ids
      PROVE  /\ msg'[m] \in Message
             /\ msg'[m].chat = msg[m].chat /\ msg'[m].sender = msg[m].sender
             /\ msg'[m].shut = msg[m].shut
             /\ \A u \in Users :
                  msg[m].status[u] = "none" => msg'[m].status[u] = "none"
  <2>1. CASE m \notin marked
    BY <1>1, <2>1
  <2>2. CASE m \in marked
    <3> DEFINE row == [msg[m] EXCEPT !.status[k.user] = "read"]
    <3>1. msg'[m] = row
      BY <1>1, <2>2
    <3>2. msg[m] \in Message
          /\ msg[m].status \in [Users -> {"none", "sent", "read"}]
      BY <1>1 DEF Message
    <3>3. /\ row.chat = msg[m].chat /\ row.sender = msg[m].sender
          /\ row.shut = msg[m].shut
          /\ row.status = [msg[m].status EXCEPT ![k.user] = "read"]
          /\ row \in Message
      BY <1>2, <3>2 DEF Message
    <3> HIDE DEF row
    <3> QED
      BY <1>2, <2>2, <3>1, <3>2, <3>3
  <2> QED
    BY <2>1, <2>2
<1>4. msg' \in [Ids -> Message]
  BY <1>1, <1>3
<1>5. unseen' \subseteq Committed
  BY <1>1, <1>2, Unpacked DEF TypeOK
<1>6. ReadUnseenOnlyIfLate'
  <2> SUFFICES ASSUME NEW m \in unseen'
               PROVE  \E i, j \in DOMAIN log : i < j /\ log[j] = m
               /\ log[i] > m
    BY <1>1 DEF ReadUnseenOnlyIfLate
  <2>1. CASE m \in unseen
    BY <2>1, Unpacked DEF ReadUnseenOnlyIfLate
  <2>2. CASE m \notin unseen
    <3>1. m \in marked /\ m \notin {log[n] : n \in 1..k.seen}
      BY <1>1, <2>2
    <3>2. /\ k.seen \in Nat /\ k.seen <= Len(log) /\ Len(log) \in Nat
          /\ DOMAIN log = 1..Len(log)
      BY <1>1, LogIsCommitted, Unpacked DEF Fits, ReadSteps, Task, TypeOK
    <3>3. PICK i \in 1..k.seen : log[i] = k.msg
      BY <1>1 DEF Fits, ReadSteps
    <3>4. PICK j \in 1..Len(log) : log[j] = m
      BY <1>2, <3>1, LogIsCommitted
    <3>5. m \in 1..k.msg /\ m # k.msg /\ j \notin 1..k.seen /\ k.msg \in Nat
      BY <1>1, <1>2, <3>1, <3>3, <3>4 DEF Task
    <3> QED
      BY <3>2, <3>3, <3>4, <3>5
  <2> QED
    BY <2>1, <2>2
<1> QED
  BY <1>1, <1>3, <1>4, <1>5, <1>6, Ended, RowsKeep DEF Ends

(* The rows of uploads that change keep what was stored.                   *)
LEMMA UploadsKeep ==
  ASSUME IInv, upload' \in [Uploads -> Upload],
         \A x \in Uploads : upload[x].stored => upload'[x].stored,
         task' \in [Tasks -> Task],
         \A s \in Tasks : task'[s] = task[s] \/ task'[s] = IdleTask,
         UNCHANGED <<chats, in, blocks, begun, msg, log, unseen, overlapped>>,
         requests' \in 0..MaxRequests, faults' \in 0..MaxFaults
  PROVE  IInv'
<1>1. Committed' = Committed /\ Both' = Both
  BY DEF Committed, Both
<1>2. TypeOK'
  BY <1>1, Unpacked DEF TypeOK
<1>3. \A s \in Tasks : Fits(task[s])' /\ Shut(task[s])'
  <2> SUFFICES ASSUME NEW s \in Tasks
               PROVE  Fits(task[s])' /\ Shut(task[s])'
    OBVIOUS
  <2>1. Fits(task'[s]) /\ Shut(task'[s])
    BY Unpacked, NobodyDoes
  <2>2. task'[s].at \in {"message", "uploader", "confirm"} =>
          upload'[task'[s].upload].stored
    BY <2>1 DEF Fits, ConfirmSteps
  <2>3. Fits(task[s])'
    BY <1>1, <2>1, <2>2 DEF Fits
  <2> QED
    BY <2>1, <2>3 DEF Shut
<1>4. OwnMessage'
  BY Unpacked, NobodyDoes DEF OwnMessage, Open
<1>5. OneInserts'
  BY <1>1, Unpacked, NobodyDoes DEF OneInserts
<1>6. BlockIsRespected' /\ OneChatUnlessOverlapping' /\ ReadUnseenOnlyIfLate'
  BY <1>1, Unpacked DEF BlockIsRespected, OneChatUnlessOverlapping,
     OneChatPerPair,
                        ReadUnseenOnlyIfLate
<1> QED
  BY <1>2, <1>3, <1>4, <1>5, <1>6 DEF IInv

LEMMA PutKeeps ==
  ASSUME IInv, NEW x \in Uploads, Put(x)
  PROVE  IInv'
<1>1.
      /\ UNCHANGED <<chats, in, blocks, begun, msg, log, unseen, overlapped, task,
                     requests, faults>>
      /\ upload' = [upload EXCEPT ![x].stored = TRUE]
      /\ upload \in [Uploads -> Upload]
      /\ requests' \in 0..MaxRequests /\ faults' \in 0..MaxFaults
  BY Unpacked DEF Put, chat, message, bounds, TypeOK
<1>2. /\ upload' \in [Uploads -> Upload]
      /\ \A y \in Uploads : upload[y].stored => upload'[y].stored
  BY <1>1 DEF Upload
<1> QED
  BY <1>1, <1>2, UploadsKeep, Unpacked

LEMMA PendKeeps ==
  ASSUME IInv, NEW t \in Tasks, create_pending_attachment(t), Ends(t)
  PROVE  IInv'
<1>1. /\ UNCHANGED <<chats, in, blocks, begun, msg, log, unseen, overlapped>>
      /\ task[t] \in Task
      /\ upload \in [Uploads -> Upload]
  BY Unpacked DEF create_pending_attachment, chat, message, TypeOK
<1>2. PICK x \in Uploads :
        upload' = [upload EXCEPT ![x].by = task[t].user, ![x].chat = task[t].chat]
  BY DEF create_pending_attachment
<1>3. /\ upload' \in [Uploads -> Upload]
      /\ \A y \in Uploads : upload[y].stored => upload'[y].stored
  <2>1. task[t].user \in Users \cup {NoUser}
        /\ task[t].chat \in ChatIds \cup {NoChat}
    BY <1>1 DEF Task
  <2> QED
    BY <1>1, <1>2, <2>1 DEF Upload
<1> QED
  BY <1>1, <1>3, Ended, UploadsKeep DEF Ends

LEMMA ConfirmKeeps ==
  ASSUME IInv, NEW t \in Tasks, confirm_attachment(t), Ends(t)
  PROVE  IInv'
<1>1. /\ UNCHANGED <<chats, in, blocks, begun, msg, log, unseen, overlapped>>
      /\ task[t] \in Task
      /\ upload \in [Uploads -> Upload]
      /\ \/ upload' = upload
         \/ upload' = [upload EXCEPT ![task[t].upload].msg = task[t].msg]
  BY Unpacked DEF confirm_attachment, chat, message, TypeOK
<1>2. /\ upload' \in [Uploads -> Upload]
      /\ \A y \in Uploads : upload[y].stored => upload'[y].stored
  <2>1. task[t].msg \in 0..MaxMessages
    BY <1>1 DEF Task
  <2> QED
    BY <1>1, <2>1 DEF Upload
<1> QED
  BY <1>1, <1>2, Ended, UploadsKeep DEF Ends

-----------------------------------------------------------------------------
(* A request ends with its last statement, or with a fault.                 *)
LEMMA EndsWhenDone ==
  ASSUME IInv, NEW t \in Tasks, Return(t), UNCHANGED bounds \/ Fault
  PROVE  Ends(t)
BY Unpacked, BoundsAreNaturals DEF Ends, TypeOK, Fault, bounds

LEMMA ReplyLostKeeps ==
  ASSUME IInv, NEW t \in Tasks, ReplyLost(t)
  PROVE  IInv'
<1>1. Ends(t) /\ Return(t)
  BY EndsWhenDone DEF ReplyLost
<1>2. ASSUME NEW c \in ChatIds, insert_chat(t, c)
      PROVE  IInv'
  BY <1>1, <1>2, InsertChatKeeps, NobodyDoes DEF Ends, Return
<1> QED
  BY <1>1, <1>2, LeaveKeeps, BlockKeeps, CommitKeeps, MarkReadKeeps, PendKeeps,
     ConfirmKeeps DEF ReplyLost

LEMMA TaskStepKeeps ==
  ASSUME IInv, NEW t \in Tasks, TaskStep(t)
  PROVE  IInv'
<1>1. CASE Leave(t) \/ Block(t) \/ Commit(t) \/ MarkRead(t) \/ Pend(t) \/ Confirm(t)
  <2>1. Ends(t)
    BY <1>1, EndsWhenDone DEF Leave, Block, Commit, MarkRead, Pend, Confirm
  <2> QED
    BY <1>1, <2>1, LeaveKeeps, BlockKeeps, CommitKeeps, MarkReadKeeps,
       PendKeeps,
       ConfirmKeeps DEF Leave, Block, Commit, MarkRead, Pend, Confirm
<1> QED
  BY <1>1, FindChatKeeps, InsertChatAnswers, GivesUp, ChecksKeep, MemberKeeps,
     InsertKeeps, FindMessageKeeps DEF TaskStep

(* The invariant holds at first, and every step keeps it.                  *)
LEMMA Inductive == Spec => []IInv
<1>1. Init => IInv
  <2> SUFFICES ASSUME Init PROVE IInv
    OBVIOUS
  <2>1. Committed = {} /\ Len(log) = 0
    BY DEF Init, Committed, Range
  <2>2. /\ chats \subseteq ChatIds /\ in \in [ChatIds -> SUBSET Users]
        /\ \A c \in ChatIds \ chats : in[c] = {}
        /\ \A c, d \in chats : c = d
    BY DEF Init
  <2>3. NoMessage \in Message /\ NoRow \in Upload
    BY BoundsAreNaturals DEF NoMessage, Message, NoRow, Upload
  <2>4. TypeOK
    <3>1. log \in Seq(1..begun)
      BY DEF Init
    <3>2. /\ msg \in [Ids -> Message] /\ upload \in [Uploads -> Upload]
          /\ task \in [Tasks -> Task]
      BY <2>3, NobodyDoes DEF Init
    <3>3. /\ begun \in 0..MaxMessages
          /\ requests \in 0..MaxRequests /\ faults \in 0..MaxFaults
      BY BoundsAreNaturals DEF Init
    <3>4. overlapped \in BOOLEAN /\ unseen \subseteq Committed
          /\ blocks \subseteq Users
      BY DEF Init
    <3> QED
      BY <2>2, <3>1, <3>2, <3>3, <3>4 DEF TypeOK
  <2>5. \A t \in Tasks : Fits(task[t]) /\ Shut(task[t]) /\ task[t].at = "idle"
    BY NobodyDoes DEF Init
  <2>6. OwnMessage /\ OneInserts
    BY <2>5 DEF OwnMessage, OneInserts, Open
  <2>7. BlockIsRespected /\ OneChatUnlessOverlapping /\ ReadUnseenOnlyIfLate
    BY <2>1, <2>2 DEF Init, BlockIsRespected, OneChatUnlessOverlapping,
       OneChatPerPair,
                      Both, ReadUnseenOnlyIfLate
  <2> QED
    BY <2>4, <2>5, <2>6, <2>7 DEF IInv
<1>2. IInv /\ [Next]_vars => IInv'
  <2> SUFFICES ASSUME IInv, [Next]_vars PROVE IInv'
    OBVIOUS
  <2>1. CASE UNCHANGED vars
    <3>1. UNCHANGED <<chats, in, blocks, begun, msg, log, unseen, upload, task,
                      overlapped, requests, faults>>
      BY <2>1 DEF vars, chat, message, bounds
    <3>2. /\ upload' \in [Uploads -> Upload] /\ task' \in [Tasks -> Task]
          /\ requests' \in 0..MaxRequests /\ faults' \in 0..MaxFaults
      BY <3>1, Unpacked DEF TypeOK
    <3> QED
      BY <3>1, <3>2, UploadsKeep
  <2>2. CASE Next
    BY <2>2, RequestKeeps, TaskStepKeeps, GivesUp, ReplyLostKeeps,
       UnblockKeeps,
       DeleteKeeps, PutKeeps DEF Next
  <2> QED
    BY <2>1, <2>2
<1> QED
  BY <1>1, <1>2, PTL DEF Spec

-----------------------------------------------------------------------------
(* The variables of the private chats keep their types, and an id that is   *)
(* not in use has no participants (chat.rs:69-170).                         *)
THEOREM PrivateTypeCorrect == Spec => []TypeOK
BY Inductive, PTL DEF IInv

(* A message asked for under a block that stays never reaches the other: the*)
(* check of send_message excludes a peer who is in the chat, and one who is *)
(* not in it when the rows of message_status are written gets none          *)
(* (chat.rs:375, 1916-1946).                                                *)
THEOREM BlockedSeesNothing == Spec => []BlockIsRespected
BY Inductive, PTL DEF IInv

(* Two chats of the same two come only of requests that were about to insert*)
(* at the same time: neither a failed request, nor one whose reply is lost, *)
(* nor one who leaves makes a second one (chat.rs:69-87).                   *)
THEOREM SecondChatNeedsOverlap == Spec => []OneChatUnlessOverlapping
BY Inductive, PTL DEF IInv

(* What is marked as read without having been shown was begun before, and   *)
(* committed after, a message that was shown                                *)
(* (014_message_read_function.sql).                                         *)
THEOREM UnseenIsLate == Spec => []ReadUnseenOnlyIfLate
BY Inductive, PTL DEF IInv

(* The row of a file gets a message once, after the object is stored, and   *)
(* one of the chat of the file: the UPDATE checks the row again, and what a *)
(* confirmation has looked at before it does not change (chat.rs:633-684).  *)
THEOREM FileAttachedOnce == Spec => AttachedOnce
<1> DEFINE Once ==
      \A x \in Uploads : upload'[x].msg # upload[x].msg =>
        /\ upload[x].msg = 0
        /\ upload[x].stored
        /\ msg[upload'[x].msg].chat = upload[x].chat
<1>1. ASSUME IInv, NEW t \in Tasks, confirm_attachment(t)
      PROVE  Once
  <2> DEFINE k == task[t]
  <2>1. /\ k.at = "confirm" /\ k \in Task /\ Fits(k)
        /\ upload \in [Uploads -> Upload]
    BY <1>1, Unpacked DEF confirm_attachment, TypeOK
  <2>2. /\ k.upload \in Uploads /\ upload[k.upload].stored
        /\ k.chat = msg[k.msg].chat
    BY <2>1 DEF Fits, ConfirmSteps
  <2>3. CASE upload' = upload
    BY <2>3
  <2>4. CASE /\ upload[k.upload].chat = k.chat /\ upload[k.upload].msg = 0
             /\ upload' = [upload EXCEPT ![k.upload].msg = k.msg]
    <3>1. /\ \A x \in Uploads : x # k.upload => upload'[x] = upload[x]
          /\ upload'[k.upload].msg = k.msg
      BY <2>1, <2>2, <2>4 DEF Upload
    <3> QED
      BY <2>2, <2>4, <3>1
  <2> QED
    BY <1>1, <2>3, <2>4 DEF confirm_attachment
<1>2. ASSUME IInv, NEW t \in Tasks, create_pending_attachment(t)
      PROVE  Once
  <2>1. upload \in [Uploads -> Upload]
    BY <1>2, Unpacked DEF TypeOK
  <2>2. \A x \in Uploads : upload'[x].msg = upload[x].msg
    BY <1>2, <2>1 DEF create_pending_attachment, Upload
  <2> QED
    BY <2>2
<1>3. ASSUME IInv, NEW x \in Uploads, Put(x)
      PROVE  Once
  <2>1. upload \in [Uploads -> Upload]
    BY <1>3, Unpacked DEF TypeOK
  <2>2. \A y \in Uploads : upload'[y].msg = upload[y].msg
    BY <1>3, <2>1 DEF Put, Upload
  <2> QED
    BY <2>2
<1>4. ASSUME UNCHANGED upload
      PROVE  Once
  BY <1>4
<1> HIDE DEF Once
<1>5. ASSUME NEW t \in Tasks, NEW u \in Users, Request(t, u)
      PROVE  UNCHANGED upload
  BY <1>5 DEF Request, Spawn
<1>6. ASSUME IInv, NEW t \in Tasks, TaskStep(t) \/ ReplyLost(t) \/ QueryFails(t)
      PROVE  Once
  <2>1. ASSUME Pend(t) \/ Confirm(t)
        PROVE  Once
    BY <1>1, <1>2, <1>6, <2>1 DEF Pend, Confirm
  <2>2. ASSUME QueryFails(t)
        PROVE  Once
    BY <1>4, <2>2 DEF QueryFails
  <2>3. ASSUME ReplyLost(t)
        PROVE  Once
    BY <1>1, <1>2, <1>4, <1>6, <2>3
    DEF ReplyLost, insert_chat, leave, block_user, commit_message,
        mark_messages_read, Mark
  <2>4. ASSUME FindChat(t) \/ InsertChat(t) \/ Answer(t) \/ FindOwn(t) \/ Leave(t)
                 \/ is_user_blocked(t) \/ Block(t) \/ ensure_active_membership(t)
                 \/ ensure_not_blocked(t) \/ Insert(t) \/ Commit(t)
        PROVE  Once
    BY <1>4, <2>4
    DEF FindChat, InsertChat, insert_chat, Answer, FindOwn, Leave, leave,
        is_user_blocked, Block, block_user, ensure_active_membership,
        ensure_not_blocked, Insert, Commit, commit_message
  <2>5. ASSUME verify_participant(t) \/ MarkRead(t) \/ CheckUploader(t)
                 \/ get_pending_attachment(t) \/ head_object(t) \/ FindMessage(t)
                 \/ CheckMember(t)
        PROVE  Once
    BY <1>4, <2>5
    DEF verify_participant, MarkRead, mark_messages_read, Mark, CheckUploader,
        get_pending_attachment, head_object, FindMessage, CheckMember
  <2> QED
    BY <1>6, <2>1, <2>2, <2>3, <2>4, <2>5 DEF TaskStep
<1>7. ASSUME IInv, Next
      PROVE  Once
  BY <1>3, <1>4, <1>5, <1>6, <1>7 DEF Next, unblock_user, delete_message
<1>8. IInv /\ [Next]_vars => [Once]_vars
  BY <1>7
<1> QED
  BY <1>8, Inductive, PTL DEF Spec, AttachedOnce, Once
=============================================================================
