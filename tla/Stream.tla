------------------------------- MODULE Stream -------------------------------
(***************************************************************************)
(* The live channel of the dashboard: one browser tab (ws-client), its     *)
(* sockets, and the server's side of them (ws-server on ws-bus).  A socket  *)
(* whose token is refused is closed with 4401, and the tab waits for a     *)
(* login; a subscribe frame is authorised channel by channel, with an      *)
(* await, before it is registered; a socket may break at any time, and the *)
(* two ends notice it on their own.                                        *)
(***************************************************************************)
EXTENDS Integers, Sequences, FiniteSets

CONSTANTS
  Channels,
  MaxSockets, \* bound on the sockets a tab opens
  MaxTroubles, \* bound on broken connections, expired tokens and refused channels
  MaxLogins,  \* bound on changes of the credentials
  MaxMounts   \* bound on the components that come and go

ASSUME StreamAssumption ==
  /\ IsFiniteSet(Channels)
  /\ MaxSockets \in Nat /\ MaxTroubles \in Nat /\ MaxLogins \in Nat /\ MaxMounts \in Nat

VARIABLES
  listeners,  \* WsClient.channelListeners: the channels with a listener
  ws,         \* WsClient.ws: the socket, 0 for null
  shown,      \* WsClient.status
  timer,      \* WsClient.reconnectTimer is set
  expired,    \* the token the tab has stored is one that verifyToken refuses
  wire,       \* per socket: "none", "connecting", "barred" (connecting with a token that is
              \* refused), "open", "broken", "refused" (closed with 4401), "over"
  held,       \* per socket the server's end: "none", "open", "closed"
  inbox,      \* per socket the frames on their way to the server
  waiting,    \* per socket and channel the authorisations under way
  teardowns,  \* per socket ClientState.unsubscribers: its channels
  bus,        \* per socket and channel the callbacks in WsBus.subscribers
  troubles, logins, mounts,   \* so far
  overtaken,  \* ghost: an authorisation returned to a changed socket
  barred,     \* ghost: a refusal is the last the tab saw of its sockets
  denied      \* ghost: the sockets and channels whose last authorisation was refused

boundVars == <<troubles, logins, mounts>>
streamVars == <<listeners, ws, shown, timer, expired, wire, held, inbox, waiting,
                teardowns, bus, boundVars, overtaken, barred, denied>>
tabVars == <<listeners, ws, shown, timer, expired, barred>>
serverVars == <<held, waiting, teardowns, bus, overtaken, denied>>

Sockets == 1..MaxSockets
Frames == {"sub", "unsub"} \X Channels
Wires == {"none", "connecting", "barred", "open", "broken", "refused", "over"}

StreamTypeOK ==
  /\ listeners \subseteq Channels
  /\ ws \in 0..MaxSockets
  /\ shown \in {"connecting", "open", "closed", "error"}
  /\ timer \in BOOLEAN /\ expired \in BOOLEAN /\ overtaken \in BOOLEAN /\ barred \in BOOLEAN
  /\ wire \in [Sockets -> Wires]
  /\ held \in [Sockets -> {"none", "open", "closed"}]
  /\ \A s \in Sockets : inbox[s] \in Seq(Frames)
  /\ waiting \in [Sockets -> [Channels -> Nat]]
  /\ teardowns \in [Sockets -> SUBSET Channels]
  /\ bus \in [Sockets -> [Channels -> Nat]]
  /\ troubles \in 0..MaxTroubles /\ logins \in 0..MaxLogins /\ mounts \in 0..MaxMounts
  /\ denied \subseteq Sockets \X Channels

StreamInit ==
  /\ listeners = {} /\ ws = 0 /\ shown = "closed" /\ timer = FALSE
  /\ expired = FALSE /\ barred = FALSE /\ denied = {}
  /\ wire = [s \in Sockets |-> "none"] /\ held = [s \in Sockets |-> "none"]
  /\ inbox = [s \in Sockets |-> <<>>]
  /\ waiting = [s \in Sockets |-> [c \in Channels |-> 0]]
  /\ teardowns = [s \in Sockets |-> {}]
  /\ bus = [s \in Sockets |-> [c \in Channels |-> 0]]
  /\ troubles = 0 /\ logins = 0 /\ mounts = 0
  /\ overtaken = FALSE

Trouble ==
  /\ troubles < MaxTroubles /\ troubles' = troubles + 1
  /\ UNCHANGED <<logins, mounts>>

-----------------------------------------------------------------------------
(* The tab *)

NewSocket(s) == wire[s] = "none" /\ \A r \in Sockets : r < s => wire[r] # "none"

\* connect, when there is no socket: with the token that is stored now.
Connects(s) ==
  /\ NewSocket(s)
  /\ ws' = s /\ shown' = "connecting" /\ barred' = FALSE
  /\ wire' = [wire EXCEPT ![s] = IF expired THEN "barred" ELSE "connecting"]

\* subscribe: the first listener of a channel connects, or asks at once.
Mounts(c) ==
  /\ mounts < MaxMounts /\ mounts' = mounts + 1 /\ UNCHANGED <<troubles, logins>>
  /\ c \notin listeners
  /\ listeners' = listeners \cup {c}
  /\ \/ ws = 0 /\ (\E s \in Sockets : Connects(s)) /\ inbox' = inbox
     \/ /\ ws # 0
        /\ inbox' = IF shown = "open" /\ wire[ws] \in {"open", "broken"}
                      THEN [inbox EXCEPT ![ws] = Append(@, <<"sub", c>>)] ELSE inbox
        /\ UNCHANGED <<ws, shown, wire, barred>>
  /\ UNCHANGED <<timer, expired, serverVars>>

\* The last listener of a channel goes.
Unmounts(c) ==
  /\ c \in listeners
  /\ listeners' = listeners \ {c}
  /\ inbox' = IF shown = "open" /\ ws # 0 /\ wire[ws] \in {"open", "broken"}
                THEN [inbox EXCEPT ![ws] = Append(@, <<"unsub", c>>)] ELSE inbox
  /\ UNCHANGED <<ws, shown, timer, expired, barred, wire, boundVars, serverVars>>

\* A frame for every channel in cs, in some order.
Subscribes(cs, frames) ==
  /\ Len(frames) = Cardinality(cs)
  /\ {frames[i] : i \in 1..Len(frames)} = {"sub"} \X cs

\* Mutant: a new socket is not told of the channels.
OpensSilently(s) ==
  /\ wire[s] = "connecting"
  /\ wire' = [wire EXCEPT ![s] = "open"]
  /\ held' = [held EXCEPT ![s] = "open"]
  /\ shown' = "open"
  /\ UNCHANGED <<listeners, ws, timer, expired, barred, inbox, waiting, teardowns, bus,
                 boundVars, overtaken, denied>>

\* The open event, and onConnection on the server: the channels are asked for
\* again, on the tab's current socket.
Opens(s) ==
  /\ wire[s] = "connecting"
  /\ wire' = [wire EXCEPT ![s] = "open"]
  /\ held' = [held EXCEPT ![s] = "open"]
  /\ shown' = "open"
  /\ \E frames \in [1..Cardinality(listeners) -> {"sub"} \X listeners] :
       /\ Subscribes(listeners, frames)
       /\ inbox' = IF ws = s THEN [inbox EXCEPT ![s] = frames] ELSE inbox
  /\ UNCHANGED <<listeners, ws, timer, expired, barred, waiting, teardowns, bus, boundVars,
                 overtaken, denied>>

\* onConnection refuses the token: the socket opens, and is closed with 4401 at once;
\* what the tab sends on it is lost.
OpensRefused(s) ==
  /\ wire[s] = "barred"
  /\ wire' = [wire EXCEPT ![s] = "refused"]
  /\ shown' = "open"
  /\ UNCHANGED <<listeners, ws, timer, expired, barred, inbox, boundVars, serverVars>>

\* The close event of any socket the tab ever had: the current one is given up.
SeesClose(s) ==
  /\ wire[s] = "broken"
  /\ wire' = [wire EXCEPT ![s] = "over"]
  /\ ws' = 0 /\ shown' = "closed" /\ timer' = TRUE
  /\ UNCHANGED <<listeners, expired, barred, inbox, boundVars, serverVars>>

\* ... with code 4401: no reconnect is scheduled.
SeesRefusal(s) ==
  /\ wire[s] = "refused"
  /\ wire' = [wire EXCEPT ![s] = "over"]
  /\ ws' = 0 /\ shown' = "error" /\ barred' = TRUE
  /\ UNCHANGED <<listeners, timer, expired, inbox, boundVars, serverVars>>

\* The reconnect timer fires; a socket that is there is kept.
Reconnects ==
  /\ timer
  /\ timer' = FALSE
  /\ \/ ws = 0 /\ (\E s \in Sockets : Connects(s))
     \/ ws # 0 /\ UNCHANGED <<ws, shown, wire, barred>>
  /\ UNCHANGED <<listeners, expired, inbox, boundVars, serverVars>>

\* The session ends: the stored token is refused from now on.
Expires ==
  /\ Trouble
  /\ ~expired /\ expired' = TRUE
  /\ UNCHANGED <<listeners, ws, shown, timer, barred, wire, inbox, serverVars>>

\* authChanged, after a login or a logout: the socket is closed (one the server has refused
\* keeps its code), a new one opened if anyone listens.
AuthChanges ==
  /\ logins < MaxLogins /\ logins' = logins + 1 /\ UNCHANGED <<troubles, mounts>>
  /\ timer' = FALSE /\ expired' \in BOOLEAN
  /\ LET closed == IF ws # 0 /\ wire[ws] # "refused"
                     THEN [wire EXCEPT ![ws] = "broken"] ELSE wire IN
     \/ /\ listeners # {}
        /\ \E s \in Sockets :
             /\ NewSocket(s)
             /\ ws' = s /\ shown' = "connecting" /\ barred' = FALSE
             /\ wire' = [closed EXCEPT ![s] = IF expired' THEN "barred" ELSE "connecting"]
     \/ /\ listeners = {}
        /\ ws' = 0 /\ shown' = "closed" /\ wire' = closed /\ barred' = barred
  /\ UNCHANGED <<listeners, inbox, serverVars>>

-----------------------------------------------------------------------------
(* The network and the server *)

\* It cannot be opened, the connection breaks, or the heartbeat gives it up.
Breaks(s) ==
  /\ Trouble
  /\ wire[s] \in {"connecting", "barred", "open"}
  /\ wire' = [wire EXCEPT ![s] = "broken"]
  /\ UNCHANGED <<tabVars, inbox, serverVars>>

\* onMessage: a channel that is there is accepted, another one is authorised
\* first; an unsubscribe tears down what is registered.
Receives(s) ==
  /\ held[s] = "open" /\ inbox[s] # <<>>
  /\ inbox' = [inbox EXCEPT ![s] = Tail(@)]
  /\ LET c == Head(inbox[s])[2] IN
     \/ /\ Head(inbox[s])[1] = "sub"
        /\ waiting' = IF c \in teardowns[s] THEN waiting
                      ELSE [waiting EXCEPT ![s][c] = @ + 1]
        /\ UNCHANGED <<teardowns, bus>>
     \/ /\ Head(inbox[s])[1] = "unsub"
        /\ teardowns' = [teardowns EXCEPT ![s] = @ \ {c}]
        /\ bus' = IF c \in teardowns[s] THEN [bus EXCEPT ![s][c] = @ - 1] ELSE bus
        /\ waiting' = waiting
  /\ UNCHANGED <<tabVars, wire, held, boundVars, overtaken, denied>>

\* authorizeChannel grants: the channel is registered, whatever the socket has
\* become since.
Authorised(s, c) ==
  /\ waiting[s][c] > 0
  /\ waiting' = [waiting EXCEPT ![s][c] = @ - 1]
  /\ teardowns' = [teardowns EXCEPT ![s] = @ \cup {c}]
  /\ bus' = [bus EXCEPT ![s][c] = @ + 1]
  /\ overtaken' = (overtaken \/ held[s] = "closed" \/ c \in teardowns[s])
  /\ denied' = denied \ {<<s, c>>}
  /\ UNCHANGED <<tabVars, wire, held, inbox, boundVars>>

\* It refuses, or throws: nothing is registered, and the tab does not ask again.
ChannelRefused(s, c) ==
  /\ Trouble
  /\ waiting[s][c] > 0
  /\ waiting' = [waiting EXCEPT ![s][c] = @ - 1]
  /\ denied' = denied \cup {<<s, c>>}
  /\ UNCHANGED <<tabVars, wire, held, inbox, teardowns, bus, overtaken>>

\* Mutant: the subscriptions of a closed socket stay on the bus.
ServerClosesOnly(s) ==
  /\ held[s] = "open" /\ wire[s] \in {"broken", "over"}
  /\ held' = [held EXCEPT ![s] = "closed"]
  /\ inbox' = [inbox EXCEPT ![s] = <<>>]
  /\ teardowns' = [teardowns EXCEPT ![s] = {}]
  /\ UNCHANGED <<tabVars, wire, waiting, bus, boundVars, overtaken, denied>>

\* onClose: every registered subscription is torn down.
ServerCloses(s) ==
  /\ held[s] = "open" /\ wire[s] \in {"broken", "over"}
  /\ held' = [held EXCEPT ![s] = "closed"]
  /\ inbox' = [inbox EXCEPT ![s] = <<>>]
  /\ bus' = [bus EXCEPT ![s] = [c \in Channels |->
                                 IF c \in teardowns[s] THEN @[c] - 1 ELSE @[c]]]
  /\ teardowns' = [teardowns EXCEPT ![s] = {}]
  /\ UNCHANGED <<tabVars, wire, waiting, boundVars, overtaken, denied>>

StreamNext ==
  \/ \E c \in Channels : Mounts(c) \/ Unmounts(c)
  \/ \E s \in Sockets : \/ Opens(s) \/ OpensRefused(s) \/ SeesClose(s) \/ SeesRefusal(s)
                       \/ Breaks(s) \/ Receives(s) \/ ServerCloses(s)
  \/ Reconnects \/ Expires \/ AuthChanges
  \/ \E s \in Sockets, c \in Channels : Authorised(s, c) \/ ChannelRefused(s, c)

\* Timers fire, sockets open, and what was sent or closed is heard of.
Proceeds ==
  \/ Reconnects
  \/ \E s \in Sockets :
       \/ Opens(s) \/ OpensRefused(s) \/ SeesClose(s) \/ SeesRefusal(s)
       \/ Receives(s) \/ ServerCloses(s)
       \/ \E c \in Channels : Authorised(s, c) \/ ChannelRefused(s, c)

StreamFairness == WF_streamVars(Proceeds)

StreamSpec == StreamInit /\ [][StreamNext]_streamVars /\ StreamFairness

-----------------------------------------------------------------------------
\* The server sends the channel to the tab.
Reaches(c) == \E s \in Sockets : wire[s] = "open" /\ held[s] = "open" /\ bus[s][c] > 0

\* Connections break, tabs log in again, components come and go: in the end the tab hears
\* every channel it listens to (ws-client: "re-issues subscribe frames after every
\* reconnect"), but a channel whose authorisation on the tab's socket was refused or threw;
\* and unless the last the tab saw of its sockets is the refusal of a token, after which it
\* waits for a login or a component, also when that socket was no longer the tab's.
StreamSettles ==
  <>[](barred \/ \A c \in listeners : Reaches(c) \/ <<ws, c>> \in denied)

\* The bus holds one callback per registered channel and none for a closed
\* socket (ws-server: "On disconnect, all subscriptions are torn down"), unless
\* an authorisation returned after a close, or beside another of its channel.
BusMatchesSockets ==
  ~overtaken => \A s \in Sockets, c \in Channels :
    bus[s][c] = IF c \in teardowns[s] /\ held[s] = "open" THEN 1 ELSE 0
=============================================================================
