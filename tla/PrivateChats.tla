---------------------------- MODULE PrivateChats ----------------------------
(***************************************************************************)
(* What two users do to each other: the private chats that they open and   *)
(* leave, the blocks they set, the messages they send and mark as read,    *)
(* and the files they attach. Requests of both run at once; a statement of *)
(* Postgres is a step, and what a transaction did is seen when it commits. *)
(* The publication of a message and its history are in module Messages.    *)
(*                                                                         *)
(* A message is numbered by its created_at, the time at which its          *)
(* transaction began; log is the order in which they committed.            *)
(***************************************************************************)
EXTENDS Naturals, Sequences, SequencesExt

CONSTANTS
  Users,        \* the two
  ChatIds,
  Uploads,      \* ids of message_attachments
  Tasks,        \* requests that are served at once
  NoUser, NoChat, NoUpload,
  MaxMessages,  \* bound: messages that are begun
  MaxRequests,  \* bound: requests in a behaviour
  MaxFaults     \* bound: statements that fail

ASSUME TheyAreTwo == \E u, v \in Users : u # v /\ Users = {u, v}
ASSUME NobodyIsNobody == NoUser \notin Users
ASSUME NoChatIsNoChat == NoChat \notin ChatIds
ASSUME BoundsAreNaturals == {MaxMessages, MaxRequests, MaxFaults} \subseteq Nat

VARIABLES
  chats,       \* the ids in use
  in,          \* chat_participants with left_at NULL
  blocks,      \* user_blocks: who blocks the other
  begun,       \* messages whose transaction has begun
  msg,         \* messages and message_status, where committed
  log,         \* history: the messages in the order of their commits
  upload,      \* message_attachments, and whether the object is stored
  task,        \* the requests
  overlapped,  \* history: two requests were about to insert a chat
  unseen,      \* history: messages marked as read by a client that could
               \* not know of them when it asked
  requests, faults

chat == <<chats, in>>
message == <<begun, msg, log, unseen>>
bounds == <<requests, faults>>
vars == <<chat, blocks, message, upload, task, overlapped, bounds>>

Ids == 1..MaxMessages

Peer(u) == CHOOSE v \in Users : v # u

Message == [chat : ChatIds \cup {NoChat}, sender : Users \cup {NoUser},
            status : [Users -> {"none", "sent", "read"}],
            deleted : BOOLEAN,
            shut : BOOLEAN]   \* history: a block stood since it was asked for

NoMessage == [chat |-> NoChat, sender |-> NoUser,
              status |-> [u \in Users |-> "none"],
              deleted |-> FALSE, shut |-> FALSE]

Upload == [by : Users \cup {NoUser}, chat : ChatIds \cup {NoChat},
           stored : BOOLEAN,    \* the object is in the storage
           msg : 0..MaxMessages]  \* 0: not confirmed

NoRow == [by |-> NoUser, chat |-> NoChat, stored |-> FALSE, msg |-> 0]

CreateSteps == {"find", "insertChat", "answer"}
DeleteSteps == {"own", "leave"}
BlockSteps == {"isBlocked", "block"}
SendSteps == {"member", "notBlocked", "insert", "commit"}
ReadSteps == {"verify", "mark"}
UploadSteps == {"getChat", "pendMember", "pend"}
ConfirmSteps == {"pending", "head", "message", "uploader", "confirm"}

Task == [at : {"idle"} \cup CreateSteps \cup DeleteSteps \cup BlockSteps
              \cup SendSteps \cup ReadSteps \cup UploadSteps \cup ConfirmSteps,
         user : Users \cup {NoUser},
         chat : ChatIds \cup {NoChat},
         msg : 0..MaxMessages,  \* sent, or read up to, or attached to
         upload : Uploads \cup {NoUpload},
         to : SUBSET Users,     \* send: the rows of message_status
         seen : Nat,            \* history: how much was committed at first
         shut : BOOLEAN]        \* history: a block has stood all the time

Handler(at, u, c, m, x) ==
  [at |-> at, user |-> u, chat |-> c, msg |-> m, upload |-> x, to |-> {},
   seen |-> IF at = "verify" THEN Len(log) ELSE 0,
   shut |-> at = "member" /\ blocks # {}]

IdleTask == [at |-> "idle", user |-> NoUser, chat |-> NoChat, msg |-> 0,
             upload |-> NoUpload, to |-> {}, seen |-> 0, shut |-> FALSE]

Goto(t, step) == task' = [task EXCEPT ![t].at = step]
Return(t) == task' = [task EXCEPT ![t] = IdleTask]

(* A check of the handler: it goes on, or answers with an error. *)
Check(t, good, step) == IF good THEN Goto(t, step) ELSE Return(t)

(* Either they have a chat from before, or not. *)
Init ==
  /\ chats \in {{}} \cup {{c} : c \in ChatIds}
  /\ in = [c \in ChatIds |-> IF c \in chats THEN Users ELSE {}]
  /\ blocks = {}
  /\ begun = 0
  /\ msg = [m \in Ids |-> NoMessage]
  /\ log = <<>>
  /\ upload = [x \in Uploads |-> NoRow]
  /\ task = [t \in Tasks |-> IdleTask]
  /\ overlapped = FALSE
  /\ unseen = {}
  /\ requests = 0 /\ faults = 0

-----------------------------------------------------------------------------
Committed == Range(log)

(* What a client of the chat may have been shown. *)
Shown(c) == {m \in Committed : msg[m].chat = c}

Spawn(t, handler) ==
  /\ task[t].at = "idle"
  /\ requests < MaxRequests
  /\ requests' = requests + 1
  /\ task' = [task EXCEPT ![t] = handler]
  /\ UNCHANGED <<chat, blocks, message, upload, overlapped, faults>>

(* Either may ask for anything of which it knows the id. *)
Request(t, u) ==
  \/ Spawn(t, Handler("find", u, NoChat, 0, NoUpload))
  \/ Spawn(t, Handler("isBlocked", u, NoChat, 0, NoUpload))
  \/ Spawn(t, Handler("pend", u, NoChat, 0, NoUpload))   \* for a story
  \/ \E c \in chats :
       \/ Spawn(t, Handler("own", u, c, 0, NoUpload))
       \/ Spawn(t, Handler("member", u, c, 0, NoUpload))
       \/ Spawn(t, Handler("getChat", u, c, 0, NoUpload))
       \/ \E m \in Shown(c) : Spawn(t, Handler("verify", u, c, m, NoUpload))
  \/ \E x \in Uploads, m \in Committed :
       /\ upload[x].by = u
       /\ Spawn(t, Handler("pending", u, NoChat, m, x))

-----------------------------------------------------------------------------
(***************************************************************************)
(* create_private_chat: a chat in which both are active is returned; if    *)
(* there is none, one is inserted, with both, by a transaction. (FindUsed, *)
(* InsertParticipants, and below BlocksOther, MarkAll and ConfirmAgain are *)
(* mutants: a definition after it with a plausible mistake, for checking   *)
(* that the properties notice. No other definition uses one.)              *)
(***************************************************************************)
Both == {c \in chats : in[c] = Users}

Overlap(t) ==
  overlapped' = (overlapped \/ \E s \in Tasks \ {t} : task[s].at = "insertChat")

FindUsed(t) ==
  /\ task[t].at = "find"
  /\ \/ \E c \in {d \in Both : Shown(d) # {}} :
          /\ task' = [task EXCEPT ![t].at = "answer", ![t].chat = c]
          /\ UNCHANGED overlapped
     \/ /\ \A d \in Both : Shown(d) = {}
        /\ Goto(t, "insertChat")
        /\ Overlap(t)
  /\ UNCHANGED <<chat, blocks, message, upload, bounds>>

FindChat(t) ==
  /\ task[t].at = "find"
  /\ \/ \E c \in Both :
          /\ task' = [task EXCEPT ![t].at = "answer", ![t].chat = c]
          /\ UNCHANGED overlapped
     \/ /\ Both = {}
        /\ Goto(t, "insertChat")
        /\ Overlap(t)
  /\ UNCHANGED <<chat, blocks, message, upload, bounds>>

InsertParticipants(t, c) ==
  /\ task[t].at = "insertChat"
  /\ c \notin chats
  /\ in' = [in EXCEPT ![c] = Users]
  /\ UNCHANGED <<chats, blocks, message, upload, overlapped>>

insert_chat(t, c) ==
  /\ task[t].at = "insertChat"
  /\ c \notin chats
  /\ chats' = chats \cup {c}
  /\ in' = [in EXCEPT ![c] = Users]
  /\ UNCHANGED <<blocks, message, upload, overlapped>>

InsertChat(t) ==
  \E c \in ChatIds :
    /\ insert_chat(t, c)
    /\ task' = [task EXCEPT ![t].at = "answer", ![t].chat = c]
    /\ UNCHANGED bounds

(* get_chat_for_user: what is answered, or 404. *)
Answer(t) ==
  /\ task[t].at = "answer"
  /\ Return(t)
  /\ UNCHANGED <<chat, blocks, message, upload, overlapped, bounds>>

(* delete_chat, for a private chat: whoever asks leaves it. *)
FindOwn(t) ==
  /\ task[t].at = "own"
  /\ Check(t, task[t].user \in in[task[t].chat], "leave")
  /\ UNCHANGED <<chat, blocks, message, upload, overlapped, bounds>>

leave(t) ==
  /\ task[t].at = "leave"
  /\ in' = [in EXCEPT ![task[t].chat] = @ \ {task[t].user}]
  /\ UNCHANGED <<chats, blocks, message, upload, overlapped>>

Leave(t) == leave(t) /\ Return(t) /\ UNCHANGED bounds

-----------------------------------------------------------------------------
(* block_user looks first, and the INSERT does nothing on a conflict. *)
is_user_blocked(t) ==
  /\ task[t].at = "isBlocked"
  /\ Check(t, task[t].user \notin blocks, "block")
  /\ UNCHANGED <<chat, blocks, message, upload, overlapped, bounds>>

block_user(t) ==
  /\ task[t].at = "block"
  /\ blocks' = blocks \cup {task[t].user}
  /\ UNCHANGED <<chat, message, upload, overlapped>>

Block(t) == block_user(t) /\ Return(t) /\ UNCHANGED bounds

(* One DELETE, and nothing else. *)
unblock_user(u) ==
  /\ u \in blocks
  /\ blocks' = blocks \ {u}
  /\ task' = [t \in Tasks |->
                [task[t] EXCEPT !.shut = @ /\ blocks # {u}]]
  /\ UNCHANGED <<chat, message, upload, overlapped, bounds>>

-----------------------------------------------------------------------------
(***************************************************************************)
(* send_message, a transaction that locks nothing: it begins, and with it  *)
(* created_at is set; membership; blocks, of either by the other; the      *)
(* message, with a row of message_status for whoever is active then; the   *)
(* end.                                                                    *)
(***************************************************************************)
ensure_active_membership(t) ==
  LET k == task[t] IN
  /\ k.at = "member"
  /\ begun < MaxMessages
  /\ begun' = begun + 1
  /\ IF k.user \in in[k.chat]
       THEN task' = [task EXCEPT ![t].at = "notBlocked", ![t].msg = begun + 1]
       ELSE Return(t)
  /\ UNCHANGED <<chat, blocks, msg, log, unseen, upload, overlapped, bounds>>

BlocksOther(t) ==
  /\ task[t].at = "notBlocked"
  /\ Check(t, task[t].user \notin blocks, "insert")
  /\ UNCHANGED <<chat, blocks, message, upload, overlapped, bounds>>

(* Only a participant that is still active is joined with the blocks. *)
ensure_not_blocked(t) ==
  LET k == task[t] IN
  /\ k.at = "notBlocked"
  /\ Check(t, blocks = {} \/ Peer(k.user) \notin in[k.chat], "insert")
  /\ UNCHANGED <<chat, blocks, message, upload, overlapped, bounds>>

Insert(t) ==
  /\ task[t].at = "insert"
  /\ task' = [task EXCEPT ![t].at = "commit", ![t].to = in[task[t].chat]]
  /\ UNCHANGED <<chat, blocks, message, upload, overlapped, bounds>>

commit_message(t) ==
  LET k == task[t] IN
  /\ k.at = "commit"
  /\ msg' = [msg EXCEPT ![k.msg] =
       [chat |-> k.chat, sender |-> k.user, deleted |-> FALSE,
        status |-> [u \in Users |-> IF u \in k.to THEN "sent" ELSE "none"],
        shut |-> k.shut]]
  /\ log' = Append(log, k.msg)
  /\ UNCHANGED <<chat, blocks, begun, unseen, upload, overlapped>>

Commit(t) == commit_message(t) /\ Return(t) /\ UNCHANGED bounds

(* The UPDATE of delete_message; Messages has the handler. *)
delete_message(m) ==
  /\ m \in Committed
  /\ ~msg[m].deleted
  /\ msg' = [msg EXCEPT ![m].deleted = TRUE]
  /\ UNCHANGED <<chat, blocks, begun, log, unseen, upload, task, overlapped,
                 bounds>>

-----------------------------------------------------------------------------
(* mark_messages_read: everything of the other, up to a time.              *)
verify_participant(t) ==
  /\ task[t].at = "verify"
  /\ Check(t, task[t].user \in in[task[t].chat], "mark")
  /\ UNCHANGED <<chat, blocks, message, upload, overlapped, bounds>>

Mark(t, which) ==
  LET k == task[t]
      marked == {m \in Shown(k.chat) :
                  /\ m \in which
                  /\ msg[m].sender # k.user
                  /\ k.user \in in[k.chat]
                  /\ ~msg[m].deleted
                  /\ msg[m].status[k.user] = "sent"}
  IN /\ k.at = "mark"
     /\ msg' = [m \in Ids |-> IF m \in marked
                  THEN [msg[m] EXCEPT !.status[k.user] = "read"] ELSE msg[m]]
     /\ unseen' = unseen \cup (marked \ {log[n] : n \in 1..k.seen})
     /\ UNCHANGED <<chat, blocks, begun, log, upload, overlapped>>

MarkAll(t) == Mark(t, Ids)

mark_messages_read(t) == Mark(t, 1..task[t].msg)

MarkRead(t) == mark_messages_read(t) /\ Return(t) /\ UNCHANGED bounds

-----------------------------------------------------------------------------
(* create_upload_url: get_chat_for_user, and the membership once more.     *)
CheckUploader(t) ==
  /\ \/ task[t].at = "getChat"
        /\ Check(t, task[t].user \in in[task[t].chat], "pendMember")
     \/ task[t].at = "pendMember"
        /\ Check(t, task[t].user \in in[task[t].chat], "pend")
  /\ UNCHANGED <<chat, blocks, message, upload, overlapped, bounds>>

create_pending_attachment(t) ==
  /\ task[t].at = "pend"
  /\ \E x \in Uploads :
       /\ upload[x] = NoRow
       /\ upload' = [upload EXCEPT ![x].by = task[t].user,
                                   ![x].chat = task[t].chat]
  /\ UNCHANGED <<chat, blocks, message, overlapped>>

Pend(t) == create_pending_attachment(t) /\ Return(t) /\ UNCHANGED bounds

(* The client uploads by the URL it was given, as often as it likes. *)
Put(x) ==
  /\ upload[x].by # NoUser
  /\ ~upload[x].stored
  /\ upload' = [upload EXCEPT ![x].stored = TRUE]
  /\ UNCHANGED <<chat, blocks, message, task, overlapped, bounds>>

(***************************************************************************)
(* confirm_attachment: the row, the object, and in a transaction the       *)
(* message, the membership and an UPDATE that checks the row once more.    *)
(***************************************************************************)
get_pending_attachment(t) ==
  /\ task[t].at = "pending"
  /\ Check(t, upload[task[t].upload].msg = 0, "head")
  /\ UNCHANGED <<chat, blocks, message, upload, overlapped, bounds>>

head_object(t) ==
  /\ task[t].at = "head"
  /\ Check(t, upload[task[t].upload].stored, "message")
  /\ UNCHANGED <<chat, blocks, message, upload, overlapped, bounds>>

FindMessage(t) ==
  LET m == msg[task[t].msg] IN
  /\ task[t].at = "message"
  /\ IF m.deleted THEN Return(t)
     ELSE task' = [task EXCEPT ![t].at = "uploader", ![t].chat = m.chat]
  /\ UNCHANGED <<chat, blocks, message, upload, overlapped, bounds>>

CheckMember(t) ==
  /\ task[t].at = "uploader"
  /\ Check(t, task[t].user \in in[task[t].chat], "confirm")
  /\ UNCHANGED <<chat, blocks, message, upload, overlapped, bounds>>

ConfirmAgain(t) ==
  LET k == task[t]
      x == upload[k.upload]
  IN /\ k.at = "confirm"
     /\ upload' = IF x.by = k.user /\ x.chat = k.chat
                    THEN [upload EXCEPT ![k.upload].msg = k.msg] ELSE upload
     /\ UNCHANGED <<chat, blocks, message, overlapped>>

confirm_attachment(t) ==
  LET k == task[t]
      x == upload[k.upload]
  IN /\ k.at = "confirm"
     /\ upload' = IF x.by = k.user /\ x.chat = k.chat /\ x.msg = 0
                    THEN [upload EXCEPT ![k.upload].msg = k.msg] ELSE upload
     /\ UNCHANGED <<chat, blocks, message, overlapped>>

Confirm(t) == confirm_attachment(t) /\ Return(t) /\ UNCHANGED bounds

-----------------------------------------------------------------------------
(* A statement fails, and with it its transaction, or it takes effect and  *)
(* its reply is lost. Either way the handler gives up.                     *)
Fault == faults < MaxFaults /\ faults' = faults + 1 /\ UNCHANGED requests

QueryFails(t) ==
  /\ Fault
  /\ task[t].at # "idle"
  /\ Return(t)
  /\ UNCHANGED <<chat, blocks, message, upload, overlapped>>

ReplyLost(t) ==
  /\ Fault
  /\ \/ \E c \in ChatIds : insert_chat(t, c)
     \/ leave(t) \/ block_user(t) \/ commit_message(t)
     \/ mark_messages_read(t) \/ create_pending_attachment(t)
     \/ confirm_attachment(t)
  /\ Return(t)

-----------------------------------------------------------------------------
TaskStep(t) ==
  \/ FindChat(t) \/ InsertChat(t) \/ Answer(t) \/ FindOwn(t) \/ Leave(t)
  \/ is_user_blocked(t) \/ Block(t)
  \/ ensure_active_membership(t) \/ ensure_not_blocked(t)
  \/ Insert(t) \/ Commit(t)
  \/ verify_participant(t) \/ MarkRead(t)
  \/ CheckUploader(t) \/ Pend(t)
  \/ get_pending_attachment(t) \/ head_object(t) \/ FindMessage(t)
  \/ CheckMember(t) \/ Confirm(t)

Next ==
  \/ \E t \in Tasks :
       \/ \E u \in Users : Request(t, u)
       \/ TaskStep(t) \/ QueryFails(t) \/ ReplyLost(t)
  \/ \E u \in Users : unblock_user(u)
  \/ \E m \in Ids : delete_message(m)
  \/ \E x \in Uploads : Put(x)

Spec == Init /\ [][Next]_vars

-----------------------------------------------------------------------------
(* Every variable keeps its type, and a chat has participants from its     *)
(* first moment on.                                                        *)
TypeOK ==
  /\ chats \subseteq ChatIds
  /\ in \in [ChatIds -> SUBSET Users]
  /\ \A c \in ChatIds \ chats : in[c] = {}
  /\ blocks \subseteq Users
  /\ begun \in 0..MaxMessages
  /\ msg \in [Ids -> Message]
  /\ log \in Seq(1..begun)
  /\ upload \in [Uploads -> Upload]
  /\ task \in [Tasks -> Task]
  /\ overlapped \in BOOLEAN
  /\ unseen \subseteq Committed
  /\ requests \in 0..MaxRequests
  /\ faults \in 0..MaxFaults

(* A message that is asked for while one of the two blocks the other, and  *)
(* that stays so, does not reach the other, whoever blocks whom and        *)
(* whatever chat it goes to (chat.rs:375, 1916-1946).                      *)
BlockIsRespected ==
  \A m \in Committed : msg[m].shut => msg[m].status[Peer(msg[m].sender)] = "none"

(* "Crear chat privado dos veces devuelve el mismo chat_id"                *)
(* (backend_roadmap.md:1194): while both are in one, there is no other.    *)
OneChatPerPair == \A c, d \in Both : c = d

(* Asking again gives the chat there is: two chats with both in them come  *)
(* of two requests that were about to insert one, never of a lost reply, a *)
(* failure, or of one who left and came back (chat.rs:69-87).              *)
OneChatUnlessOverlapping == ~overlapped => OneChatPerPair

(* A client reads up to the time of a message that it was shown. What it   *)
(* marks without having been shown it, was begun earlier and committed     *)
(* later than a message that it was shown (014_message_read_function.sql). *)
ReadUnseenOnlyIfLate ==
  \A m \in unseen :
    \E i, j \in DOMAIN log : i < j /\ log[j] = m /\ log[i] > m

(* A file is attached once, when its object has been stored, to a message  *)
(* of the chat it was uploaded for, whatever confirmations run at once     *)
(* (chat.rs:633-684).                                                      *)
AttachedOnce ==
  [][\A x \in Uploads : upload'[x].msg # upload[x].msg =>
       /\ upload[x].msg = 0
       /\ upload[x].stored
       /\ msg[upload'[x].msg].chat = upload[x].chat]_vars
=============================================================================
