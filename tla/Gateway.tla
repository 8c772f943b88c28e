------------------------------ MODULE Gateway ------------------------------
(***************************************************************************)
(* The WebSocket connections of one user: tickets, the limit on            *)
(* connections, presence, the subscription to user:{id}:events and the     *)
(* choice between a socket and a push notification for what is published   *)
(* there. Every Redis command, every locked access to the registry and     *)
(* every turn of a task is a step.                                         *)
(*                                                                         *)
(* A connection has three tasks besides its handler: the reader, which     *)
(* cleans up when the socket ends, the writer, which notices the end only  *)
(* when it has something to write, and the forwarder, which never ends.    *)
(***************************************************************************)
EXTENDS Naturals, FiniteSets, Sequences

CONSTANTS
  Conns,      \* connection attempts, each made once
  Tickets,
  Events,     \* messages published to the user
  NoTicket,
  Limit,      \* connections of a user at once (5)
  MaxFaults   \* bound: failing commands and crashes

ASSUME NoTicketIsNoTicket == NoTicket \notin Tickets
ASSUME ConnsAreFinite == IsFiniteSet(Conns)
ASSUME LimitIsPositive == Limit \in Nat \ {0}
ASSUME MaxFaultsIsNatural == MaxFaults \in Nat

VARIABLES
  ticket,     \* the keys ws:ticket:{uuid}
  registry,   \* WsConnections: the senders registered for the user
  presence,   \* whether presence:{user_id} exists
  conn,       \* the handler of each connection, and then its reader
  socket,     \* "none", "open", "closed"
  writer,     \* the writer task: "none", "alive", or "gone" with its channel
  forwarder,  \* "none", "starting", "subscribed", "gone"
  queue,      \* what the forwarder and the server have given the writer
  got,        \* the events that each socket has brought to the client
  event,      \* the handler that publishes each event
  pushed,     \* events for which a push notification was enqueued
  late,      \* history: a connection was registered on an old count
  faults

redis == <<ticket, presence>>
tasks == <<writer, forwarder, queue>>
sending == <<event, pushed>>
gatewayVars == <<redis, registry, conn, socket, tasks, got, sending, late,
                 faults>>

Conn == [at : {"idle", "del", "limit", "upgrade", "presence", "open",
               "remove", "offline", "closed"},
         ticket : Tickets \cup {NoTicket},
         current : BOOLEAN]  \* history: no other was registered since limit

Event == [at : {"new", "published", "done"},
          audience : SUBSET Conns,  \* history: the open, subscribed sockets
          owing : SUBSET Conns]     \* history: who stood for the presence

(* The connections that have set the presence and are to delete it. *)
Owing == {c \in Conns : conn[c].at \in {"open", "remove", "offline"}}

Open == {c \in Conns : socket[c] = "open"}

GatewayInit ==
  /\ ticket = [k \in Tickets |-> "new"]
  /\ registry = {}
  /\ presence = FALSE
  /\ conn = [c \in Conns |->
               [at |-> "idle", ticket |-> NoTicket, current |-> FALSE]]
  /\ socket = [c \in Conns |-> "none"]
  /\ writer = [c \in Conns |-> "none"]
  /\ forwarder = [c \in Conns |-> "none"]
  /\ queue = [c \in Conns |-> <<>>]
  /\ got = [c \in Conns |-> {}]
  /\ event = [e \in Events |-> [at |-> "new", audience |-> {}, owing |-> {}]]
  /\ pushed = {}
  /\ late = FALSE
  /\ faults = 0

-----------------------------------------------------------------------------
Proceed(c, step) == conn' = [conn EXCEPT ![c].at = step]

Fault == faults < MaxFaults /\ faults' = faults + 1

(* is_closed: the writer, and with it the receiving end, is gone. *)
Alive(S) == {c \in S : writer[c] = "alive"}

create_ws_ticket(k) ==
  /\ ticket[k] = "new"
  /\ ticket' = [ticket EXCEPT ![k] = "valid"]
  /\ UNCHANGED <<presence, registry, conn, socket, tasks, got, sending, late,
                 faults>>

TicketExpires(k) ==
  /\ ticket[k] = "valid"
  /\ ticket' = [ticket EXCEPT ![k] = "gone"]
  /\ UNCHANGED <<presence, registry, conn, socket, tasks, got, sending, late,
                 faults>>

(***************************************************************************)
(* ws_handler                                                              *)
(***************************************************************************)
GetTicket(c, k) ==
  /\ conn[c].at = "idle"
  /\ ticket[k] = "valid"
  /\ conn' = [conn EXCEPT ![c].at = "del", ![c].ticket = k]
  /\ UNCHANGED <<redis, registry, socket, tasks, got, sending, late, faults>>

(* This definition, and below CheckLimitLate, ReaderJoinsWriter,           *)
(* RemoveAndEnd and PushUnlessRegistered, are mutants: the definition      *)
(* after it with a plausible mistake, for checking that the properties     *)
(* notice. No other definition uses one.                                   *)
DelTicketSkipped(c) ==
  /\ conn[c].at = "del"
  /\ Proceed(c, "limit")
  /\ UNCHANGED <<redis, registry, socket, tasks, got, sending, late, faults>>

(* The outcome of DEL is not looked at. *)
DelTicket(c) ==
  /\ conn[c].at = "del"
  /\ \/ ticket' = [ticket EXCEPT ![conn[c].ticket] = "gone"]
        /\ UNCHANGED faults
     \/ Fault /\ UNCHANGED ticket
  /\ Proceed(c, "limit")
  /\ UNCHANGED <<presence, registry, socket, tasks, got, sending, late>>

CheckLimitLate(c) ==
  /\ conn[c].at = "limit"
  /\ registry' = Alive(registry)
  /\ conn' = [conn EXCEPT
       ![c].at = IF Cardinality(registry') > Limit THEN "closed" ELSE "upgrade",
       ![c].current = TRUE]
  /\ UNCHANGED <<redis, socket, tasks, got, sending, late, faults>>

CheckLimit(c) ==
  /\ conn[c].at = "limit"
  /\ registry' = Alive(registry)
  /\ conn' = [conn EXCEPT
       ![c].at = IF Cardinality(registry') >= Limit THEN "closed" ELSE "upgrade",
       ![c].current = TRUE]
  /\ UNCHANGED <<redis, socket, tasks, got, sending, late, faults>>

(* The client goes before the protocol is switched. *)
UpgradeFails(c) ==
  /\ conn[c].at = "upgrade"
  /\ Proceed(c, "closed")
  /\ UNCHANGED <<redis, registry, socket, tasks, got, sending, late, faults>>

-----------------------------------------------------------------------------
(***************************************************************************)
(* handle_socket                                                           *)
(***************************************************************************)
Register(c) ==
  /\ conn[c].at = "upgrade"
  /\ registry' = registry \cup {c}
  /\ socket' = [socket EXCEPT ![c] = "open"]
  /\ writer' = [writer EXCEPT ![c] = "alive"]
  /\ late' = (late \/ ~conn[c].current)
  /\ conn' = [d \in Conns |->
                IF d = c THEN [conn[d] EXCEPT !.at = "presence"]
                         ELSE [conn[d] EXCEPT !.current = FALSE]]
  /\ UNCHANGED <<redis, forwarder, queue, got, sending, faults>>

SetPresence(c) ==
  /\ conn[c].at = "presence"
  /\ \/ presence' = TRUE /\ UNCHANGED faults
     \/ Fault /\ UNCHANGED presence
  /\ forwarder' = [forwarder EXCEPT ![c] = "starting"]
  /\ Proceed(c, "open")
  /\ UNCHANGED <<ticket, registry, socket, writer, queue, got, sending, late>>

(* The forwarder gives up if it cannot subscribe; the socket stays. *)
Subscribe(c) ==
  /\ forwarder[c] = "starting"
  /\ \/ forwarder' = [forwarder EXCEPT ![c] = "subscribed"]
        /\ UNCHANGED faults
     \/ Fault /\ forwarder' = [forwarder EXCEPT ![c] = "gone"]
  /\ UNCHANGED <<redis, registry, conn, socket, writer, queue, got, sending,
                 late>>

(* A write to a closed socket ends the writer and drops its channel. *)
WriteNext(c) ==
  /\ writer[c] = "alive"
  /\ queue[c] # <<>>
  /\ IF socket[c] = "open"
       THEN /\ got' = [got EXCEPT ![c] = @ \cup {Head(queue[c])}]
            /\ queue' = [queue EXCEPT ![c] = Tail(@)]
            /\ UNCHANGED writer
       ELSE /\ writer' = [writer EXCEPT ![c] = "gone"]
            /\ queue' = [queue EXCEPT ![c] = <<>>]
            /\ UNCHANGED got
  /\ UNCHANGED <<redis, registry, conn, socket, forwarder, sending, late,
                 faults>>

(* The answer to a request that came over the socket before it was closed  *)
(* goes through the writer, too. Such requests change nothing here.        *)
WriteAnswer(c) ==
  /\ writer[c] = "alive"
  /\ socket[c] = "closed"
  /\ writer' = [writer EXCEPT ![c] = "gone"]
  /\ queue' = [queue EXCEPT ![c] = <<>>]
  /\ UNCHANGED <<redis, registry, conn, socket, forwarder, got, sending, late,
                 faults>>

(* The client closes the socket, or the network does. *)
Close(c) ==
  /\ socket[c] = "open"
  /\ socket' = [socket EXCEPT ![c] = "closed"]
  /\ UNCHANGED <<redis, registry, conn, tasks, got, sending, late, faults>>

ReaderJoinsWriter(c) ==
  /\ conn[c].at = "open"
  /\ socket[c] = "closed"
  /\ writer[c] = "gone"
  /\ registry' = Alive(registry)
  /\ Proceed(c, IF registry' = {} THEN "remove" ELSE "offline")
  /\ UNCHANGED <<redis, socket, tasks, got, sending, late, faults>>

(* The reader sees the end of the socket and drops closed senders. It      *)
(* releases the entry before it removes it.                                *)
ReaderEnds(c) ==
  /\ conn[c].at = "open"
  /\ socket[c] = "closed"
  /\ registry' = Alive(registry)
  /\ Proceed(c, IF registry' = {} THEN "remove" ELSE "offline")
  /\ UNCHANGED <<redis, socket, tasks, got, sending, late, faults>>

RemoveAndEnd(c) ==
  /\ conn[c].at = "remove"
  /\ registry' = {}
  /\ late' = (late \/ registry # {})
  /\ Proceed(c, "closed")
  /\ UNCHANGED <<redis, socket, tasks, got, sending, faults>>

RemoveEntry(c) ==
  /\ conn[c].at = "remove"
  /\ registry' = {}
  /\ late' = (late \/ registry # {})
  /\ Proceed(c, "offline")
  /\ UNCHANGED <<redis, socket, tasks, got, sending, faults>>

DelPresence(c) ==
  /\ conn[c].at = "offline"
  /\ \/ presence' = FALSE /\ UNCHANGED faults
     \/ Fault /\ UNCHANGED presence
  /\ Proceed(c, "closed")
  /\ UNCHANGED <<ticket, registry, socket, tasks, got, sending, late>>

PresenceExpires ==
  /\ presence
  /\ presence' = FALSE
  /\ UNCHANGED <<ticket, registry, conn, socket, tasks, got, sending, late,
                 faults>>

-----------------------------------------------------------------------------
(***************************************************************************)
(* publish_message_event, for one recipient who has not muted the chat     *)
(***************************************************************************)
Publish(e) ==
  LET hearing == {c \in Alive(Conns) : forwarder[c] = "subscribed"} IN
  /\ event[e].at = "new"
  /\ event' = [event EXCEPT ![e].at = "published",
                            ![e].audience = hearing \cap Open]
  /\ queue' = [c \in Conns |->
                 IF c \in hearing THEN Append(queue[c], e) ELSE queue[c]]
  /\ UNCHANGED <<redis, registry, conn, socket, writer, forwarder, got,
                 pushed, late, faults>>

PushUnlessRegistered(e) ==
  /\ event[e].at = "published"
  /\ event' = [event EXCEPT ![e].at = "done", ![e].owing = Owing]
  /\ pushed' = IF registry # {} THEN pushed ELSE pushed \cup {e}
  /\ UNCHANGED <<redis, registry, conn, socket, tasks, got, late, faults>>

(* A presence that cannot be looked up counts as absent; a push that       *)
(* cannot be enqueued is given up.                                         *)
CheckPresence(e) ==
  /\ event[e].at = "published"
  /\ event' = [event EXCEPT ![e].at = "done", ![e].owing = Owing]
  /\ \/ /\ pushed' = IF presence THEN pushed ELSE pushed \cup {e}
        /\ UNCHANGED faults
     \/ /\ Fault
        /\ pushed' = IF presence THEN pushed \cup {e} ELSE pushed
  /\ UNCHANGED <<redis, registry, conn, socket, tasks, got, late>>

(* The process dies and starts again: Redis stays. *)
Crash ==
  /\ Fault
  /\ registry' = {}
  /\ conn' = [c \in Conns |->
                IF conn[c].at = "idle" THEN conn[c]
                ELSE [conn[c] EXCEPT !.at = "closed"]]
  /\ socket' = [c \in Conns |->
                  IF socket[c] = "open" THEN "closed" ELSE socket[c]]
  /\ writer' = [c \in Conns |-> IF writer[c] = "none" THEN "none" ELSE "gone"]
  /\ forwarder' = [c \in Conns |->
                     IF forwarder[c] = "none" THEN "none" ELSE "gone"]
  /\ queue' = [c \in Conns |-> <<>>]
  /\ event' = [e \in Events |->
                 IF event[e].at = "published"
                   THEN [event[e] EXCEPT !.at = "done"] ELSE event[e]]
  /\ UNCHANGED <<redis, got, pushed, late>>

-----------------------------------------------------------------------------
(* What the handler and then the reader of a connection go on to do. *)
Serve(c) ==
  \/ DelTicket(c) \/ CheckLimit(c) \/ Register(c) \/ SetPresence(c)
  \/ ReaderEnds(c) \/ RemoveEntry(c) \/ DelPresence(c)

GatewayNext ==
  \/ \E k \in Tickets : create_ws_ticket(k) \/ TicketExpires(k)
  \/ \E c \in Conns :
       \/ \E k \in Tickets : GetTicket(c, k)
       \/ UpgradeFails(c) \/ WriteAnswer(c) \/ Close(c)
       \/ Serve(c) \/ Subscribe(c) \/ WriteNext(c)
  \/ PresenceExpires
  \/ \E e \in Events : Publish(e) \/ CheckPresence(e)
  \/ Crash

(* A task that can go on does. Clients and expiry may take for ever. *)
Fairness == \A c \in Conns : WF_gatewayVars(Serve(c))

GatewaySpec == GatewayInit /\ [][GatewayNext]_gatewayVars /\ Fairness

-----------------------------------------------------------------------------
(* Every variable keeps its type, and nothing waits for a writer that is   *)
(* gone: a send into its channel fails.                                    *)
GatewayTypeOK ==
  /\ ticket \in [Tickets -> {"new", "valid", "gone"}]
  /\ registry \subseteq Conns
  /\ presence \in BOOLEAN
  /\ conn \in [Conns -> Conn]
  /\ socket \in [Conns -> {"none", "open", "closed"}]
  /\ writer \in [Conns -> {"none", "alive", "gone"}]
  /\ forwarder \in [Conns -> {"none", "starting", "subscribed", "gone"}]
  /\ queue \in [Conns -> Seq(Events)]
  /\ got \in [Conns -> SUBSET Events]
  /\ event \in [Events -> Event]
  /\ pushed \subseteq Events
  /\ late \in BOOLEAN
  /\ faults \in 0..MaxFaults
  /\ \A c \in Conns : writer[c] = "gone" => queue[c] = <<>>

(* A user has no more than Limit sockets open, unless another connection   *)
(* was registered between the count and the registration of one, or an     *)
(* entry was removed that had been filled again: closed connections that   *)
(* are still counted or no longer counted do not loosen the limit.         *)
LimitHolds == late \/ Cardinality(Open) <= Limit

(* While no command has failed and the process has not died, a presence    *)
(* key has a connection that will delete it, although every connection     *)
(* sets and deletes the one key.                                           *)
PresenceIsOwed == faults = 0 /\ presence => Owing # {}

(* A message for which no push was enqueued has reached the client or is   *)
(* on its way to it, but where the presence stood for a connection that    *)
(* was not yet subscribed, or whose socket was closed. So the choice by    *)
(* the presence, made after the publication, loses nothing else.           *)
HeardOrPushed ==
  faults = 0 =>
    \A e \in Events :
      event[e].at = "done" /\ e \notin pushed =>
        \E c \in event[e].owing :
          \/ c \notin event[e].audience
          \/ e \in got[c]
          \/ \E i \in DOMAIN queue[c] : queue[c][i] = e
          \/ socket[c] = "closed"

(* Unless its DEL failed, a ticket that one connection has used up is not  *)
(* accepted again; only connections that ask at once can share it.         *)
TicketIsSpent ==
  [][\A c, d \in Conns :
       /\ conn[c].at = "idle"
       /\ conn'[c].at = "del"
       /\ conn[d].ticket = conn'[c].ticket
       /\ faults = 0
       => conn[d].at = "del"]_gatewayVars

(* After a socket closes the presence ends, or another socket is open,     *)
(* without waiting for the key to expire, unless there was a fault: the    *)
(* reader always comes to delete it, whatever the registry holds.          *)
PresenceEnds ==
  \A c \in Conns :
    socket[c] = "closed" ~> ~presence \/ Open # {} \/ faults > 0

-----------------------------------------------------------------------------
(* "5 active conns" (README.md:483): an upgrade is refused only while that *)
(* many connections of the user have not ended.                            *)
RefusedOnlyAtLimit ==
  [][\A c \in Conns :
       conn[c].at = "limit" /\ conn'[c].at = "closed" =>
         Cardinality({d \in Conns : conn[d].at = "presence"} \cup Owing)
           >= Limit]_gatewayVars
=============================================================================
