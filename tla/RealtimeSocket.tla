---------------------------- MODULE RealtimeSocket ----------------------------
(***************************************************************************)
(* The WebSocket between the app (src/mobile/src/store/notificationStore.  *)
(* ts, components/NotificationRuntime.tsx) and the server (src/src/        *)
(* realtime/websocketServer.ts, tickets of realtimeHub.ts).                *)
(*                                                                         *)
(* The app keeps one variable "socket", but connect waits for a ticket     *)
(* before it sets it, and the callbacks of a socket do not ask whether it  *)
(* is still the current one: several connects, a disconnect and the close  *)
(* of an older socket may cross.                                           *)
(***************************************************************************)
EXTENDS Naturals, FiniteSets

CONSTANTS Sockets,          \* connections at a time, ids reused once closed
          Hubs,             \* server processes
          NoSocket,
          MaxConnects       \* bound: connects waiting for a ticket at a time

ASSUME NoSocketAssumption == NoSocket \notin Sockets
ASSUME MaxConnectsAssumption == MaxConnects \in Nat

VARIABLES
    socket,         \* the variable of the store
    wanted,         \* shouldReconnect
    timer,          \* reconnectTimer is set
    connects,       \* connect calls waiting for their ticket
    present,        \* there is a user and the app is active
    client,         \* client[s]: the app's end of a connection
    peer,           \* peer[s]: the server's end of it
    isAlive,        \* isAlive[s] at the server
    cut,            \* cut[s]: the network between the two ends is gone
    onRedis,        \* onRedis[h]: the hub's publisher is ready
    ticket          \* ticket[s]: where the ticket of connection s is kept

socketVars == <<socket, wanted, timer, connects, present, client, peer,
                isAlive, cut, onRedis, ticket>>
app == <<socket, wanted, timer, connects, present>>
wire == <<client, peer, isAlive, cut>>
tickets == <<onRedis, ticket>>

SocketInit ==
    /\ socket = NoSocket
    /\ wanted = FALSE /\ timer = FALSE /\ connects = 0 /\ present = FALSE
    /\ client = [s \in Sockets |-> "none"]
    /\ peer = [s \in Sockets |-> "none"]
    /\ isAlive = [s \in Sockets |-> FALSE]
    /\ cut = [s \in Sockets |-> FALSE]
    /\ onRedis = [h \in Hubs |-> TRUE]
    /\ ticket = [s \in Sockets |-> "none"]

SocketTypeOK ==
    /\ socket \in Sockets \cup {NoSocket}
    /\ {wanted, timer, present} \subseteq BOOLEAN
    /\ connects \in 0..MaxConnects
    /\ client \in [Sockets -> {"none", "connecting", "open", "closing"}]
    /\ peer \in [Sockets -> {"none", "checking", "open"}]
    /\ {isAlive, cut} \subseteq [Sockets -> BOOLEAN]
    /\ onRedis \in [Hubs -> BOOLEAN]
    /\ ticket \in [Sockets -> {"none", "redis"} \cup Hubs]

Live(s) == s # NoSocket /\ client[s] \in {"connecting", "open"}

-----------------------------------------------------------------------------
(***************************************************************************)
(* The store.                                                              *)
(***************************************************************************)
\* connect up to its await: a live socket is enough.
Connecting ==
    /\ wanted' = TRUE
    /\ IF Live(socket) THEN UNCHANGED connects
       ELSE connects < MaxConnects /\ connects' = connects + 1

ScheduleReconnect == timer' = (timer \/ wanted)

\* The effects of NotificationRuntime: a user appears, or the app is active again.
Connect ==
    /\ present' = TRUE /\ Connecting
    /\ UNCHANGED <<socket, timer, wire, tickets>>

ReconnectTimer ==
    /\ timer /\ timer' = FALSE
    /\ Connecting
    /\ UNCHANGED <<socket, present, wire, tickets>>

\* issueRealtimeTicket at hub h, in Redis or in the memory of the process.
TicketIssued(h, s) ==
    /\ connects > 0 /\ connects' = connects - 1
    /\ client[s] = "none" /\ peer[s] = "none"
    /\ ticket' = [ticket EXCEPT ![s] = IF onRedis[h] THEN "redis" ELSE h]
    /\ client' = [client EXCEPT ![s] = "connecting"]
    /\ socket' = s
    /\ UNCHANGED <<wanted, timer, present, peer, isAlive, cut, onRedis>>

\* Mutant: a ticket that cannot be had is not asked for again.
TicketRefusedForGood ==
    /\ connects > 0 /\ connects' = connects - 1
    /\ UNCHANGED <<socket, wanted, timer, present, wire, tickets>>

TicketRefused ==
    /\ connects > 0 /\ connects' = connects - 1
    /\ ScheduleReconnect
    /\ UNCHANGED <<socket, wanted, present, wire, tickets>>

Opened(s) ==
    /\ client[s] = "connecting" /\ peer[s] = "open" /\ ~cut[s]
    /\ client' = [client EXCEPT ![s] = "open"]
    /\ UNCHANGED <<app, peer, isAlive, cut, tickets>>

\* onerror closes whatever socket is current, not the one that failed.
Failed(s) ==
    /\ Live(s)
    /\ client' = [c \in Sockets |-> IF c \in {s, socket} /\ Live(c) THEN "closing" ELSE client[c]]
    /\ UNCHANGED <<app, peer, isAlive, cut, tickets>>

\* The server or the network ended it.
Ended(s) ==
    /\ Live(s)
    /\ client' = [client EXCEPT ![s] = "closing"]
    /\ UNCHANGED <<app, peer, isAlive, cut, tickets>>

OnClose(s) ==
    /\ client[s] = "closing"
    /\ client' = [client EXCEPT ![s] = "none"]
    /\ socket' = NoSocket
    /\ ScheduleReconnect
    /\ UNCHANGED <<wanted, connects, present, peer, isAlive, cut, tickets>>

Disconnect ==
    /\ present' = FALSE
    /\ wanted' = FALSE /\ timer' = FALSE
    /\ client' = [c \in Sockets |-> IF c = socket /\ Live(c) THEN "closing" ELSE client[c]]
    /\ socket' = NoSocket
    /\ UNCHANGED <<connects, peer, isAlive, cut, tickets>>

-----------------------------------------------------------------------------
(***************************************************************************)
(* The server.                                                             *)
(***************************************************************************)
\* consumeRealtimeTicket takes the ticket, if this hub looks where it is kept.
Consume(h, s) ==
    /\ client[s] = "connecting" /\ peer[s] = "none"
    /\ IF ticket[s] = (IF onRedis[h] THEN "redis" ELSE h)
       THEN /\ ticket' = [ticket EXCEPT ![s] = "none"]
            /\ peer' = [peer EXCEPT ![s] = "checking"]
            /\ UNCHANGED client
       ELSE /\ client' = [client EXCEPT ![s] = "closing"]
            /\ UNCHANGED <<ticket, peer>>
    /\ UNCHANGED <<app, isAlive, cut, onRedis>>

\* The session of the ticket is looked up: still active, or not any more.
Upgrade(s) ==
    /\ peer[s] = "checking"
    /\ \/ /\ peer' = [peer EXCEPT ![s] = "open"]
          /\ isAlive' = [isAlive EXCEPT ![s] = TRUE]
          /\ UNCHANGED client
       \/ /\ peer' = [peer EXCEPT ![s] = "none"]
          /\ client' = [client EXCEPT ![s] = IF Live(s) THEN "closing" ELSE @]
          /\ UNCHANGED isAlive
    /\ UNCHANGED <<app, cut, tickets>>

\* Its peer has closed and the server hears of it.
PeerClosed(s) ==
    /\ peer[s] = "open" /\ client[s] \in {"none", "closing"} /\ ~cut[s]
    /\ peer' = [peer EXCEPT ![s] = "none"]
    /\ UNCHANGED <<app, client, isAlive, cut, tickets>>

\* Mutant: the mark an answer sets is never taken back.
HeartbeatOfTheMarked(s) ==
    /\ peer[s] = "open" /\ ~isAlive[s]
    /\ peer' = [peer EXCEPT ![s] = "none"]
    /\ cut' = [cut EXCEPT ![s] = FALSE]
    /\ client' = [client EXCEPT ![s] = IF Live(s) THEN "closing" ELSE @]
    /\ UNCHANGED <<app, isAlive, tickets>>

Heartbeat(s) ==
    /\ peer[s] = "open"
    /\ IF isAlive[s]
       THEN isAlive' = [isAlive EXCEPT ![s] = FALSE] /\ UNCHANGED <<peer, client, cut>>
       ELSE /\ peer' = [peer EXCEPT ![s] = "none"]
            /\ cut' = [cut EXCEPT ![s] = FALSE]
            /\ client' = [client EXCEPT ![s] = IF Live(s) THEN "closing" ELSE @]
            /\ UNCHANGED isAlive
    /\ UNCHANGED <<app, tickets>>

Pong(s) ==
    /\ peer[s] = "open" /\ ~isAlive[s] /\ client[s] = "open" /\ ~cut[s]
    /\ isAlive' = [isAlive EXCEPT ![s] = TRUE]
    /\ UNCHANGED <<app, client, peer, cut, tickets>>

\* The network goes without a word to either end.
CutOff(s) ==
    /\ peer[s] = "open" /\ ~cut[s]
    /\ cut' = [cut EXCEPT ![s] = TRUE]
    /\ UNCHANGED <<app, client, peer, isAlive, tickets>>

RedisFlips(h) ==
    /\ onRedis' = [onRedis EXCEPT ![h] = ~@]
    /\ UNCHANGED <<app, wire, ticket>>

-----------------------------------------------------------------------------
SocketNext ==
    \/ Connect \/ ReconnectTimer \/ TicketRefused \/ Disconnect
    \/ \E h \in Hubs, s \in Sockets : TicketIssued(h, s) \/ Consume(h, s)
    \/ \E s \in Sockets :
          \/ Opened(s) \/ Failed(s) \/ Ended(s) \/ OnClose(s)
          \/ Upgrade(s) \/ PeerClosed(s) \/ Heartbeat(s) \/ Pong(s) \/ CutOff(s)
    \/ \E h \in Hubs : RedisFlips(h)

\* The interval of the server runs on.
SocketFairness == \A s \in Sockets : WF_socketVars(Heartbeat(s))

SocketSpec == SocketInit /\ [][SocketNext]_socketVars /\ SocketFairness

-----------------------------------------------------------------------------
\* While the app is present it is connected or on its way to be: a connection
\* lives or closes, a ticket is awaited or the timer runs.  Callbacks of older
\* sockets, which clear the variable of a newer one, do not leave it stranded.
AlwaysOnTheWay ==
    present => \/ socket # NoSocket /\ client[socket] # "none"
               \/ connects > 0
               \/ timer

\* A connection whose network has gone is not kept at the server for ever.
LostPeersAreTerminated == \A s \in Sockets : cut[s] ~> peer[s] = "none"
=============================================================================
