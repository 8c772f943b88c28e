# Mesty API: a verification project

Mesty is the server of an end-to-end encrypted messenger: an axum HTTP and
WebSocket API (`crates/api`) over a domain layer (`crates/domain`), Postgres
repositories and Redis (`crates/infrastructure`). Requests and socket messages
run as concurrent tokio tasks. Almost no operation takes a lock or a
serialisable transaction: it reads by one query, decides, and writes by
another, and it uses Redis beside Postgres without a transaction across both.
What can go wrong is therefore in the interleavings, and that is what these
modules are about.

The directory holds TLA+ modules, the TLC configurations that check them on
small instances, theorems proved with TLAPS, and `PROJECT.json`, which maps
every definition to the source lines it models and lists runs, mutants,
findings, hazards and theorems.

## 1. The system

| Part | State | Operations | Works with |
| --- | --- | --- | --- |
| Calls (`domain/src/call`, `ws/handlers.rs`) | `calls` rows: parties, status, `started_at`, `ended_at` | initiate, ring, accept, reject, hang up, relay ICE | gateway events, push queue |
| Sessions (`handlers/auth`, `services/jwt.rs`, `middleware/auth.rs`) | `user_sessions` rows, Redis `refresh:{hash}` and `session:{id}` | issue tokens, refresh, authenticate, log out, revoke | sign-in before, every route after |
| One-time codes and sign-in (`services/otp.rs`, `handlers/auth`) | three Redis keys per code, the row of `users`, `phone_hashes` | register, log in, recover, second factor, each in two requests | sessions, contacts |
| Groups (`chat.rs` from 1312, `handlers/groups`) | `chat_participants` rows: role, `left_at`, key; `chats.invite_link`, `deleted_at` | add, remove, change role, link, join, rotate key, transfer, delete | messages (membership) |
| Chats and messages (`chat.rs`, `handlers/chats`) | `chats`, `messages`, `message_status`, reactions | open, leave, send, edit, delete, read, list, sync | gateway events, push queue, attachments, blocks |
| Attachments (`handlers/attachments`, `services/storage.rs`) | `message_attachments`, object storage | request an upload, confirm | messages |
| WebSocket gateway (`ws/handlers.rs`) | Redis tickets and presence, connection registry, subscriptions | ticket, upgrade, message, close | Redis pub/sub, all of the above |
| Encryption keys (`repositories/keys.rs`, migration 011) | `user_keys` with `prekey_count`, `one_time_prekeys` | upload, replenish, take a bundle, count | blocks |
| Stories and contacts (`handlers/stories`, `handlers/contacts`) | `stories`, exceptions, views, reactions; `contacts` | create, delete, feed, view, react; add and remove a contact | users, push queue |
| Users, profiles, blocks (`repositories/user.rs`) | `users`, `user_blocks` | create, update, block, unblock | nearly everything |
| Push worker (`services/push.rs`) | Redis list | enqueue, pop, send | calls, messages, stories |
| Notifications, settings, rate limiting, startup, metrics | single rows, or none | single statements | - |

Interaction is by method calls within one task, by the shared tables and keys,
and by Redis publish/subscribe on `user:{id}:events` (which every socket of the
user forwards to its client). Events on `chat:{id}:events` are published but no
part of the server subscribes to that channel.

What is hard: two tasks between a check and a write; a crash or a failed
command between two stores; an event published before or after the write it
announces; a retry after a lost reply; history columns (`left_at`, old roles,
old keys) that come back; caches that outlive what they cache.
What makes each part correct is listed with its hazards, line by line, in
`PROJECT.json`.

## 2. The modules

| Module | What it is |
| --- | --- |
| `CallBook` | what the call service promises, each operation atomic |
| `Calls` | call signalling as the code performs it, one await at a time |
| `Calls_proofs` | theorems about `Calls` and `CallBook`, for all values of the constants |
| `MCCalls` | symmetry for TLC |
| `Sessions` | sessions over Postgres and Redis, one await at a time |
| `Sessions_proofs` | theorems about `Sessions` |
| `MCSessions` | symmetry for TLC |
| `OneTimeCode` | what a one-time code promises |
| `Otp` | the three Redis keys of a code, with the time they have left |
| `Otp_proofs` | that they keep the promise, for every lifetime; theorems about `SignIn` |
| `SignIn` | the handlers that send codes and take them back, up to the tokens |
| `MCSignIn` | symmetry for TLC |
| `KeyPool` | what a pool of one-time pre-keys promises |
| `PreKeys` | the published keys of a user, one statement at a time, with row locks |
| `PreKeys_proofs` | that they implement the pool, and that the stored count is right |
| `MCPreKeys` | the batches of uploads for TLC |
| `Groups` | membership of a group, one query at a time |
| `Groups_proofs` | theorems about `Groups` and `Gateway` |
| `MCGroups` | symmetry for TLC |
| `Messages` | the messages of a group chat, their publication, history and sync |
| `Messages_proofs` | theorems about `Messages` |
| `MCMessages` | symmetry for TLC |
| `PrivateChats` | private chats, blocks, what is marked as read, attachments |
| `PrivateChats_proofs` | theorems about `PrivateChats` |
| `MCPrivateChats` | symmetry for TLC |
| `Gateway` | the WebSocket connections of one user, one turn of a task at a time |
| `MCGateway` | the instance for TLC |
| `Stories` | one story and who gets to see it, with the author's contacts |
| `Stories_proofs` | theorems about `Stories` |
| `MCStories` | symmetry for TLC |

The modules about requests have one shape. `task` maps each of `Tasks` to a
record of where the handler is and what it remembers between two awaits (its
local variables, no more). Each query, Redis command or publication is an
action that is enabled at one step; a handler that refuses returns to `idle`.
Data the properties do not tell apart (offers, call types, device names, clock
values, names of groups) are left out.

### Calls

`row` is the `calls` table, `sent` everything published to devices, which also
decides what a client may know: a client can name a call only after an event
told it the id (`Told`). Actions follow `ws/handlers.rs` 355-633 through
`CallService`: `CheckReceiver`, `CheckCaller`, `InsertCall`, `PublishIncoming`,
`MarkRinging`, `EnqueuePush` are `CallInitiate`; `AcceptRead`, `AcceptWrite`,
`PublishAccepted` are `CallAccept`; `EndRead`, `EndWrite`, `NotifyEnd` with
`EndCallRefused` are `CallReject` and `CallHangup`, the latter's second try
included. `QueryFails`, `ReplyLost` and `Crash` are the failures: an error
before or after a statement took effect, and the loss of all tasks. Delivery of
events is never assumed: an event in `sent` may or may not be acted on.

`CallBook` is the abstract specification. `ImplementsBook` is its
specification under the identity mapping (`Book == INSTANCE CallBook`).

### Sessions

One account. A session id stands for the access and the refresh token issued
with it. `row` holds the session of each device (`UNIQUE (user_id, device_id)`),
`refresh` the tokens stored under their hash, `cache` the `session:{id}`
entries. `UpsertSession` and `StoreRefresh` are `issue_tokens`; `GetRefresh`
and `DelRefresh` `validate_refresh_token`; `GetCache`, `CheckRow` and
`SetCache` `validate_session`; `DeleteRow`, `DelCache` and `DelRefreshKey`
logout, of which revocation performs only the first. Expiry may come at any
time. `loggedOut` and `late` are history variables: no action reads them.
The one-time codes and the second factor are behind `Login`, which may happen
at any time.

### Otp and SignIn

`Otp` is one code of one phone: its key, the key that counts wrong attempts and
the key that counts how many codes were asked for. Each function of
`services/otp.rs` is one command or Lua script, so a step; what is hard is that
the keys expire each by itself. Time goes in ticks of a quarter of a second,
because Redis' `TTL`, from which the script takes the expiry of the counter,
answers in seconds, rounded: half a second before the end it says 1, a quarter
before it 0, and the counter then gets no expiry at all (`Never`). A wrong code
is counted (`Invalid`) and the third takes the code with it (`Exceeded`);
storing another code renews the expiry and leaves the count.

`OneTimeCode` is the abstract specification: only the last code is good, it is
good once, and it does not outlive more than `Limit` wrong attempts. `Otp`
implements it with a limit of five, and not with the three that README.md names:
a code may outlive one wrong attempt under a count that an older code began and
that expires with it, two under a count of its own, and two more in the last
moments, when that count has expired by a rounded `TTL` and the code has not.
`otp_attempts` shows a code that outlives three.

`SignIn` uses codes as `OneTimeCode` has them. A handler of `handlers/auth` is
written as the sequence of what it awaits (`verify_phone == <<"match", "insert",
"sadd", "issue">>`) and each await is an action: `CheckLimit`, `FindUser`,
`StoreCode`, `VerifyCode`, `InsertUser`, `AddHash`, `UpdateUser`, `IssueTokens`.
`login_verify` goes over to `second_factor` when the row it finds says so.
`two_fa_verify` asks for a temp token and does not mind which handler gave it.
Whoever sends a code sends the one that is good or one that is refused; whether
it reaches the phone is outside. `CommandFails`, `ReplyLost` and `Crash` leave
behind what a request has done between Postgres and Redis. `kind`, `opened` and
`enabledAt` are history variables.

### PreKeys

One user whose bundles others ask for. A statement is a step, but
`get_user_public_keys` of migration 011 is a transaction: `LockKey` is its
`SELECT ... FOR UPDATE SKIP LOCKED`, `Decrement` waits for and locks the row of
`user_keys`, and `Commit` makes both visible. An upload is the upsert of the
identity, the insertion that skips ids already there, and the recount. A recount
that finds the row locked waits with its snapshot (`stored` and `gone` of the
task; `RecountWaits`, `RecountAfterAll`), as an UPDATE with a sub-select does
under READ COMMITTED. `Installs` are installations of the app, each with an identity.
`KeyPool` is the abstract specification; `Pool` maps the rows to it
(`supplied`: the rows, `gone`: those consumed, `taken`: the bundles returned).
`given`, `short` and `unseen` are history variables. `short` says that keys were
stored that the count may not include, because of a failure between insertion
and recount, a missing row, or an upload while the last recount waited.
`unseen` has the keys that were handed out and that the count may still include:
those a recount did not see because it waited, and those consumed when there was
no row to subtract from. `CountIsRight` does not excuse the overlap of a recount
with bundles: it says by how much the count can then be too high.

### Groups

One group, from `create_group_chat` on. Rows of members who left keep their
role, as in the table. `ReadActor`, `ReadTarget`, `ReadChat`, `ReadOwner`,
`FindLink` and `ReadMember` are the queries that decide; the writes have the
names of the repository's methods. `sawActor` and `sawTarget` are the roles a
request read; `stale` is a history variable that says that some request wrote
although a role it had read was no longer that. `key` is the set of users whose
stored key is of the newest generation, and `barred`, a history variable, the set
of those who were out of the group when that key was made and whom nobody has
added since: a rotation sets it, `add_participant` alone takes a user off it.

### Messages

One group chat with its table `messages`. A send is one transaction (`Begin`,
`ensure_active_membership`, `Insert`, `Commit`) and then the publications
(`get_chat_participants`, `Publish`, one recipient after another). A row is
`open` until its transaction commits, and `created_at` is the time of `Begin`,
as `NOW()` is in Postgres; only transactions that overlap may have the same
time. An edit is `verify_participant`, `FindMessage`, `verify_participant`
again and `edit_message`; a deletion is one guarded UPDATE. `ListQuery` is
`list_messages` with what the handler does to its rows: one more than the page
is asked for, `PageMax` at most, the rows are put in the order of time, cut,
and the last that is left is the next cursor.

The client is external and does what `backend_roadmap.md` 6.4 documents: it
keeps the latest time it was sent (`since`) and asks for what is later once
when it connects (`Connect`); it walks the history by `next_cursor` until
`has_more` is false (`StartWalk`, `NextPage`). Its subscription is active as
soon as it is connected; how that comes about is the gateway's part. `Join` and
`Leave` are the writes of `Groups`, reduced to membership. Message contents are
`first` or `edited`. `ever` (who was a member since the message appeared),
`due` (who stayed a member and online since the commit) and `must` (the history
when a walk began) are history variables.

### PrivateChats

Two users. `FindChat` and `InsertChat` are `create_private_chat`, `FindOwn` and
`Leave` its deletion by one side; `is_user_blocked` and `Block` the two queries
of `block_user`; `unblock_user` is one DELETE. A send is the transaction of
`send_message`: membership, blocks, message, commit, without locks; `Insert`
fixes who gets a row of `message_status`. A message is numbered by its
`created_at`, the time its transaction began, and `log` is the order of the
commits, so that a message may appear before one of an earlier time.
`mark_messages_read` marks everything up to the time of a message that the
client was shown (`seen`: how much of `log` it could know of). Attachments are
`create_upload_url` (`CheckUploader`, `Pend`) and `confirm_attachment` with the
check of the object and the guarded UPDATE; `Put`, the client's upload to the
storage, is external. Publication and history of a message are those of
`Messages`. `log`, `unseen`, `overlapped` and the field `shut` (a block stood
since the message was asked for) are history.

### Stories

One story of one author. `InsertStory` and `InsertException` are `create_story`,
which inserts the exceptions one by one after the story; an exception for an
unknown user fails the request and leaves the story. `list_stories` is the
query of the feed, `Find`, `can_user_view_story` and `MarkViewed` are
`view_story`, and with `has_viewed` and `React` `react_to_story`; both end with
the notification, the look at the presence and the push job, none of which
fails the request. Whether somebody may see the story mostly depends on the
author's contacts: `create_contact` and `delete_contact` with the queries before
them, and `Register`, by which a phone gets a user after it was made a contact.
`wish`, `answered`, `shown`, `late` and `ever` are history variables: what was
asked for, whether the author has the answer, who was given the story, and who
was allowed to see it at some time.

### Gateway

The connections of one user in one server process. `conn` is the handler of a
connection and then its reader: `GetTicket`, `DelTicket`, `CheckLimit` are
`ws_handler`; `Register`, `SetPresence` `handle_socket`; `ReaderEnds`,
`RemoveEntry`, `DelPresence` the cleanup. `writer` and `forwarder` are the other
two tasks. A closed socket is noticed by its reader at once and by its writer
only at the next write (`WriteNext`, or `WriteAnswer` for an answer that was on its
way), and until then its sender counts as open (`Alive`). The forwarder of a
closed connection stays subscribed. `queue` is what lies between the
publication and the socket: Redis' buffer and the channel. `Publish` and
`CheckPresence` are the part of `publish_message_event` for one recipient who
has not muted the chat; in `Messages` a socket is simply there or not.
`DelTicket`, `SetPresence`, `DelPresence` and `Subscribe` may fail, and the code
goes on; `Crash` loses all but Redis. `current`, `late`, `audience` and `owing`
are history variables.

## 3. The runs

| Run | Instance | Shows |
| --- | --- | --- |
| `calls` | 3 users, 1 call, 2 tasks, 1 failed query, 1 crash | `TimestampsAgree`, `WriterIsAuthorised`, `EventsAreTrue`, `OutcomeIsAnnounced`, `StartedIsKept`: the row stays coherent, only the right party writes, what was announced is what happened |
| `calls_serial` | 3 users, 2 calls, 1 task, 1 failed query | `ImplementsBook`: a handler on its own implements `CallBook` |
| `sessions` | 2 devices, 2 sessions, 2 tasks, 1 failure or crash | `SessionIsRenewable`, `LogoutSticks`, `GoneForGood` |
| `signin` | 2 tasks, 4 codes, 1 failure or crash | `CodeOpensOneSession`, `RegisteredOnce`, `SecondFactorGuards`, `FoundByContacts` |
| `otp` | lifetime 2 s, window 3 s, 2 codes per window, 3 requests | `ImplementsCode`, `KeysExpire` |
| `prekeys` | 2 key ids, 1 user, 1 installation, 2 tasks, 5 requests, 1 failure or crash | `CountIsRight`, `ImplementsPool`, `RequestsEnd` |
| `groups` | 3 users, 2 tasks, 4 requests | `OneOwner` unless a write is stale, `OwnerOnlyByTransfer`, `BackAsMember`, `NoKeyForTheAbsent` |
| `private` | 2 users, 2 chats, 1 upload, 2 tasks, 2 messages, 5 requests, 1 failure | `BlockIsRespected`, `OneChatUnlessOverlapping`, `ReadUnseenOnlyIfLate`, `AttachedOnce` |
| `messages` | 2 users, 3 ids, 2 tasks, 2 requests, 3 moves, 1 failure, pages of 2, syncs of 1 | `PushedOnlyToMembers`, `AcceptedIsHeard`, `DeletedIsFinal`, `ForwardWalkIsComplete` |
| `messages_sync` | 2 users, 2 ids, 2 tasks, 1 reconnect | **violated**, `SyncIsComplete`: the sync leaves out a message that was committed late |
| `gateway` | 2 connections for a limit of 1, 2 tickets, 1 message, 1 fault | `LimitHolds`, `PresenceIsOwed`, `HeardOrPushed`, `TicketIsSpent`, `PresenceEnds` |
| `stories` | 2 viewers, 2 tasks, 2 contacts, 4 requests, 1 failure | `ViewersWereAllowed`, `WishHolds` |

Every module's `TypeOK` is a theorem; the runs `signin`, `private` and `stories`
check it as well.

These instances, which `PROJECT.json` does not list as runs, each end in a
counterexample too:

| Instance | Violated | By |
| --- | --- | --- |
| `calls_busy.cfg` (`MCCalls`) | `OneActiveCall` | two initiations at once |
| `sessions_refresh_twice.cfg` (`MCSessions`) | `RefreshTokenIsUsedOnce` | two refreshes at once |
| `groups_two_owners.cfg` (`MCGroups`) | `AtMostOneOwner` | two transfers at once |
| `messages_history.cfg` (`MCMessages`) | `BackwardWalkIsComplete` | reading backwards |
| `gateway_limit.cfg` (`MCGateway`) | `RefusedOnlyAtLimit` | a closed connection that still counts |
| `otp_attempts.cfg` (`Otp`) | `ThreeFailuresInvalidate` | a count older than the code |
| `prekeys_reinstall.cfg` (`MCPreKeys`) | `BundleIsOfOneInstall` | an upload after a reinstallation |

Why the bounds suffice. Two tasks are the least at which checks and writes of
different requests interleave, and each hazard is a race of two. Three users
make a caller, a callee and someone with no business in the call, or an owner
and two heirs. Two calls are needed for "busy"; the races on one row need one
call, which leaves room for failures. Two sessions make a session and the one
that replaces it. Four requests are a promotion, a departure, a link and a
return. In `messages` any subset of the ids may be history from the start, so
that pages have something to turn; a request is a send, an edit, a deletion or
a walk, a move is a join, a departure, a connection or its end. In `gateway`,
two connections for a limit of one race for the last place, follow each other,
and share or do not share a ticket and the presence key. In `signin` four codes
are a registration, a set-up of the second factor, a login and its second
factor. In `otp` a lifetime of two seconds has room for a second code
during the life of the first, and for rounding up and down; the third code
meets the limit of two. In `prekeys` two ids in any order and batch, repeated
ids included, make a key in use, a key left and none left; five requests are an
upload, two bundles, and two more that meet them. In `private` two chats are a
doubled one, two messages an early and a late one, and five requests a block, a
send, a confirmation and two that overlap them. In `stories` the second viewer
is the one an exception is not about, and two contacts are one that is removed
and added again. Users, ids and tasks are interchangeable where they have no
order, hence the symmetry sets; no run with liveness uses one.

Deadlock is not checked: when the ids of an instance are used up, or no request
arrives, nothing more need happen, and a server without clients rests. That no
request of `PreKeys`, the one module with locks, waits for ever is `RequestsEnd`.
The bounds are constants: `MaxFaults`, `MaxCrashes`, `MaxRequests`, `MaxMoves`,
`MaxTime`, `MaxAsks`, `MaxCodes`, `MaxMessages` and `MaxContacts`, smaller
values of what the code sets (`PageMax`, `SyncMax`, `Ttl`, `Window`,
`RateLimit`),
and the sizes of the sets of ids.

Fairness is assumed where the runtime provides it. `Gateway`: `WF(Serve(c))`,
the handler and the reader of a connection go on when they can, which is what
tokio does with a task that is ready. `PreKeys`: `WF(TaskStep(t))`, the same for
a request, and that Postgres grants a lock that is free; weak fairness suffices,
as a row is locked only between two steps of a request that nothing else holds
up. `Otp`: `WF(Tick)`, time goes on. Clients, the network, key expiry elsewhere
and the other tasks may take for ever. The liveness properties are
`PresenceEnds`, `RequestsEnd` and `KeysExpire`; all others are safety
properties, and elsewhere the code has no scheduler or timeout that would
justify fairness (a call whose parties vanish stays active for ever, see the
hazards).

Every property of a passing run has a mutant in `PROJECT.json`: a definition
with a plausible mistake, kept beside the right one in the module, under which
TLC finds the property violated.

## 4. What the violations mean

* Initiations race (`calls_busy`): the check and the insert are separate
  statements and the table has no constraint.
* Refresh (`sessions_refresh_twice`): GET and DEL are two commands, and the
  count that DEL returns is dropped.
* Transfer (`groups_two_owners`): the role is read before the transaction, and
  the updates inside it are unconditional.
* History (`messages_history`): the repository brings the rows of a backward
  page into ascending order before the handler cuts the page, so the cut takes
  the newest and the cursor is the newest that is left. Forwards, the same
  lines are right (`ForwardWalkIsComplete`), for pages below the largest: at
  the largest the row that tells whether there are more is never fetched.
* Sync (`messages_sync`): two sends overlap, the one that began later commits
  and is published first, the client gets it and closes its socket; the time it
  then asks from is past the other message.
* Limit (`gateway_limit`): the reader's cleanup keeps the sender of its own
  closed connection, because the writer that would drop the channel waits for
  something to write. Nothing cleans again before the next event and upgrade.
* Attempts (`otp_attempts`): storing a code does not reset the count of wrong
  attempts, and the count expires by itself; when that happens during the life
  of a code, its attempts begin anew.
* Reinstallation (`prekeys_reinstall`): an upload replaces the identity and
  keeps the one-time keys that are stored, which are then handed out with an
  identity they do not belong to.
* Further disagreements of code and documents are listed under "findings".
  Three are stated as properties without an instance of their own:
  `OneChatPerPair` (two requests at once make two chats), `ContactsListHides`
  (the list of a story for contacts is not looked at) and `ContactsAreUsers` (a
  contact who registers later stays without a user).

## 5. What is proved

Every theorem holds for any sets of users, ids and tasks and any bounds. The
assumptions are named where the constants are declared: `NoUser`, `NoCall` and
the like are not elements of the sets they complete, bounds are natural numbers,
lifetimes are positive, key ids and connections are finitely many. TLC evaluates
them in the runs.

Every safety property that a run checks and the code keeps is stated by a
theorem. The definitions named below are parts of the inductive invariants, which
TLC has found to hold on the instances of the runs as well.

### `Calls_proofs`: Calls and CallBook

`TypeOK`, `TimestampsAgree`, `WriterIsAuthorised`, `EventsAreTrue` and
`StartedIsKept` are not inductive by themselves. `IInv` adds what every task
remembers about its call (`TaskFits`: the call exists, its parties are the ones
the task knows, its start was written before the answer is announced) and that
an existing row has two users as its parties (`RowsFit`). The argument has two
halves: a write keeps whatever other tasks rely on (`RowsKept`: a row never
disappears, loses its start or changes its parties), whatever its status; and
the writer's own facts follow from its read. `GoodStep` puts the halves together
once; then there is a lemma per action.

`OutcomeIsAnnounced` has an invariant of its own, `AnnounceInv`: as long as
nothing has failed, each status has been told to the party that needs it or a
task that wrote that very status is about to tell it (`Owed`), and a task that
has told keeps having told (`Tells`). What must be seen is that a task which
overwrites the status of another takes over the duty to announce, and that the
statuses a rejection and a hangup write are announced by different events.

`OneActiveCall` and `TerminalIsFinal` hold of the atomic book: `Open` checks
both parties in the step that inserts. `SerialKeepsTheBook` shows that `Calls`
implements the book if there is one task at most, for any users, calls, failures
and crashes: what the task has read still holds when it writes (`SerialInv`),
each of its writes is one step of the book, and everything else is a stutter.
The hypothesis is the instance `calls_serial`; with a second task the refinement
is false (`calls_busy`), so that it is the interleaving alone that breaks the
book, and no single handler.

### `Sessions_proofs`

`TypeOK`, `LogoutSticks`, `GoneForGood` and `SessionIsRenewable`. `IInv` says
that only sessions that were drawn are anywhere, and in a row of their own
device (`DrawnOnly`, `RowsFit`), and what each request knows of the session it
is about (`Fits`); a request about to cache a session that has since logged out
is one of `late`. `Kept` is what a step may not take from the others.
Renewability needs a second invariant, `AllRenewed`, only while no failure has
happened: each row has its refresh token, or a request that is going to store
it.

### `Groups_proofs`: Groups and Gateway

`TypeOK`, `OneOwner` and `OwnerOnlyByTransfer`. The invariant records for each
request that what it saw of the actor and the target passed the checks; a write
that is not stale then acts on those very roles. `BackAsMember` is about steps:
of all statements only two make a row active (`OnlyTwoEnter`), and both write the
role of a member. `NoKeyForTheAbsent` is about states, so that it says something
of a user who was removed with the key before in hand: a rotation, stale as it
may be, writes active rows only and takes the newest key from all others, and of
the other statements only the one that adds a user gives a key
(`AbsentStayWithout`).

For the gateway `TypeOK` (there `GatewayTypeOK`), `LimitHolds`,
`PresenceIsOwed`, `HeardOrPushed` and `TicketIsSpent`. `GatewayInv` adds that an
open socket has a living writer and is in the registry, that a connection about
to register has room as long as its count is good (`CountFits`), that a ticket
someone has used and need not delete any more is gone (`TicketFits`), and that
an event stays with every open socket that was subscribed when it was published
(`Kept`). `HeardOrPushed` then follows from `PresenceIsOwed`: if the presence
made a push unnecessary, somebody stood for it.

### `Messages_proofs`

`TypeOK`, `PushedOnlyToMembers`, `DeletedIsFinal`, `AcceptedIsHeard` and that
only requests of its sender change a message. `IInv` joins the types of rows and
counters (`Stored`, `Counted`) with what the history variables have to do with
them (`History`), that an open row belongs to one send (`Owned`), and what each
request remembers (`Fits(t)`): the list a send has yet to publish to holds only
users who were members since the commit, and whoever is due to hear is in that
list or has been sent the message. `Kept` again says what a step may not take
from the others.

`ForwardWalkIsComplete`: whatever of the history a walk began with is still
there and has not been brought yet lies behind the cursor, and more pages are to
come (`WalkFits`). The lemmas say that `Before` is a total order and what a page
of `Earliest` rows leaves: all that is not on it is behind its last row, and
that nothing is left when the repository returned no more than the page holds
(`PageThenRest`). This is where the row fetched beyond the page is needed, and
why the theorem is about pages below the largest.

### `PreKeys_proofs`

`TypeOK`, the refinement of `KeyPool`, and that a key is given in one bundle at
most. The invariant `LockInv` is what the row locks give: a key that a
transaction holds is stored and unused, no two hold the same, and a key that was
given is used. A commit is then a `Take` or a `Lose` of the pool, an insertion a
`Supply`, and everything else a stutter. Batches are finite sequences of any
length.

`CountIsRight` needs `AccountInv`: the stored count is at most that of the
unused keys and those of `unseen` (`Bounded`) and at least that of the unused
ones, unless it is short or an upload is still going to count (`Agrees`); only
one transaction has the row of `user_keys` locked (`RowOfOne`); a bundle that
subtracts has locked a key and is going to write one less than the row says
(`Subtracts`), so that its commit takes one key and one from the count; and what
a recount saw before it waited is still stored, or consumed (`Saw`), so that what
it writes differs from the keys by what came since its snapshot
(`SnapshotCounts`).

### `Otp_proofs`: Otp and SignIn

For the keys in Redis `TypeOK` (there `OtpTypeOK`) and the refinement of
`OneTimeCode` with a limit of five, for every lifetime, window and limit. The
invariant `Budget` says that the wrong attempts a code has outlived, and those
it may still outlive given the time both keys have left (`Spare`), are five at
most; the arithmetic is in how the rounded `TTL` compares with the time that is
left.

For sign-in `TypeOK`, `CodeOpensOneSession`, `RegisteredOnce`,
`SecondFactorGuards` and `FoundByContacts`, for any number of requests, codes
and failures. `SignInInv` says that a code that is good is of its kind and has
opened nothing (`GoodCodes`); that a request has left to do one of a few
sequences, by its kind (`Fits`), and holds a code that is good for nobody any
more and has opened nothing yet (`Holds`); that no two requests hold the same
code, nor both the registration (`Exclusive`); and what the last steps of a
request may rely on (`MayWrite`): who registered the account is about to open
its first session, and a code that passes by the second factor was asked for
before that was enabled. `Found` is the half of `FoundByContacts` that goes
through a request: the hash is stored, or somebody is about to store it.

### `PrivateChats_proofs`

`TypeOK`, `BlockIsRespected`, `OneChatUnlessOverlapping`, `ReadUnseenOnlyIfLate`
and `AttachedOnce`, for any number of chats, uploads, messages and requests.
`Fits` is what a request knows of the chat, message or upload it is about,
`Shut` that a send which began under a block is past a check that took the
other out of the recipients, `OwnMessage` that a message that is not committed
belongs to one request, and `OneInserts` that whoever is about to insert a chat
is alone in it, unless requests have overlapped.

### `Stories_proofs`

`TypeOK`, `ViewersWereAllowed` and `WishHolds`, for any number of viewers,
contacts and requests. `Knows` is what each request knows of the viewer and of
the story when it writes; one request creates the story (`OneCreates`); the rows
have what was asked for, as far as the exceptions have got, and all of it once
the author has the answer (`Published`); and whoever may see the story now is
one of those who ever could (`Audience \subseteq ever`), which is what makes a
view that was decided before the audience changed a view by someone allowed.

### Only model-checked

The liveness properties `KeysExpire`, `RequestsEnd` and `PresenceEnds`: the
provers reach neither fairness nor ENABLED, and "the request ends" is an
induction over what it has left to do. Of the properties that the code breaks
(section 4) nothing is proved; TLC's counterexamples show them.

## 6. Not modelled

* Reactions to messages, `update_chat`, `update_contact`, the preview list of
  chats, notifications and the settings of a chat: single statements on rows
  that nothing else decides by.
* `sync_contacts` only reads what `SignIn` writes to `phone_hashes`.
* Typing indicators, and the events `messages_read`, `reaction_added` and
  `reaction_removed`: they are published to `chat:{id}:events`, to which
  nothing subscribes.
* The loop of the push worker: it pops a job and sends nothing yet, so there is
  no outcome to state anything about.
* The sliding window of `rate_limiter.rs` and the profile cache: no handler uses
  them. The fixed window that the handlers do use is in `Otp`.
* TURN credentials, fingerprints and presigned URLs: computed from their inputs,
  and nothing is kept.
* Startup, routing, configuration, the bucket's lifecycle, headers, logging and
  metrics keep no protocol state.

What could follow: one model of a message from the request of its sender to the
socket of its reader, which joins `Messages` and `Gateway`, and for it the
conditions on the storage and on Redis under which nothing that was accepted is
missed.
