------------------------------ MODULE Gateway ------------------------------
(***************************************************************************)
(* MGatewayServer with the connection pool of its MEndpointCache: a client *)
(* request is forwarded as a server call over the pooled connection to a   *)
(* server of the wanted type, and the client gets one envelope for it.     *)
(* Everything runs on one thread, in frames: the event loop, then the tick *)
(* of the cache, then PumpServerCallMaintenance.                           *)
(*                                                                         *)
(* A connection object is named by the request that made it.  That answers *)
(* and calls of an earlier TCP session do nothing to a later one of the    *)
(* same object is what ServerConnection shows.                             *)
(***************************************************************************)
EXTENDS Naturals, Sequences

CONSTANTS
    Request,      \* client requests, for functions of the manifest, each of another
                  \* client, numbered as they arrive
    Server,       \* ServerIds of the targets
    TypeOf,       \* their ServerTypes
    None,         \* no connection
    NoHandler,    \* ServerTypes whose service has no Rpc_OnServerHandshake
    Handshake,    \* the request of TryConnect, next to those of the clients
    Refusal,      \* the answer of a peer without the handler
    MaxChanges,   \* bound: snapshots of the registry
    MaxFaults     \* bound: broken links, failed or unanswered handshakes, registry outages

ASSUME InstanceAssumption ==
    /\ Request \subseteq Nat /\ {None, Handshake, Refusal} \cap Request = {}
    /\ Handshake # Refusal
    /\ DOMAIN TypeOf = Server
    /\ MaxChanges \in Nat /\ MaxFaults \in Nat

VARIABLES
    phase,        \* where the main loop is in its frame, or that the process ended
    toTick,       \* pooled connections that the tick has still to drive
    left,         \* clients that are gone from ClientConnections, by request
    received,     \* requests that arrived
    sent,         \* envelopes sent for each request
    route,        \* entries of GPendingServerCalls, by request: the connection
    table,        \* Endpoints
    bConnected,   \* the connection to the registry stands
    pool,         \* ConnectionPool
    object,       \* the connection objects and their sockets
    answered,     \* history: requests that the target answered
    lost,         \* history: requests whose link went down after they were forwarded
    changes,      \* snapshots so far
    faults        \* what went wrong so far

client == <<left, received, sent>>
discovery == <<table, bConnected, changes>>
connections == <<pool, object>>
history == <<answered, lost>>
vars == <<phase, toTick, client, route, discovery, connections, history, faults>>

Connection == Request
Type == {TypeOf[s] : s \in Server}
Pooled == {pool[s] : s \in Server} \ {None}

(* An object: its State, whether its socket is usable, what the peer has     *)
(* been asked and has not answered, and the answers under way.  While it is  *)
(* Connected its handshake has an entry in GPendingServerCalls.              *)
NoObject == [state |-> "none", up |-> FALSE, atPeer |-> {}, arriving |-> {}]

\* TryConnect: the socket is there, and the handshake is sent.
Asking == [state |-> "Connected", up |-> TRUE, atPeer |-> {Handshake}, arriving |-> {}]

\* Disconnect.  The pump of the same frame drops the handshake without effect.
Disconnected == [state |-> "Disconnected", up |-> FALSE, atPeer |-> {}, arriving |-> {}]

Broken(o) == [o EXCEPT !.up = FALSE, !.atPeer = {}, !.arriving = {}]

IsConnected(k) == object[k].state = "Authenticated"
IsTransportConnected(k) == object[k].state \in {"Connected", "Authenticated"} /\ object[k].up

ForwardedOn(k) == {r \in Request : route[r] = k}

Init ==
    /\ phase = "events" /\ toTick = {}
    /\ left = {} /\ received = {}
    /\ sent = [r \in Request |-> << >>]
    /\ route = [r \in Request |-> None]
    /\ table = [s \in Server |-> "absent"]
    /\ bConnected = TRUE
    /\ pool = [s \in Server |-> None]
    /\ object = [k \in Connection |-> NoObject]
    /\ answered = {} /\ lost = {}
    /\ changes = 0 /\ faults = 0

Fault == faults < MaxFaults /\ faults' = faults + 1

-----------------------------------------------------------------------------
(* The event loop: clients, and snapshots of the registry. *)

\* The client is looked up when its envelope is ready.
Send(r, kind) == sent' = IF r \in left THEN sent ELSE [sent EXCEPT ![r] = Append(@, kind)]

SendClientError(r) == Send(r, "error")

\* GetOrConnect begins anywhere in the list and takes the first that is healthy.
Selectable(t) == {s \in Server : TypeOf[s] = t /\ table[s] = "healthy"}

\* LazyConnect makes a connection, which takes the place of the one in the pool and
\* is not authenticated yet.  Its handshake may break the socket.
Connects(r, s, made) ==
    /\ object' = [k \in Connection |->
         IF k = r THEN made ELSE IF k = pool[s] THEN NoObject ELSE object[k]]
    /\ pool' = [pool EXCEPT ![s] = r]
    /\ IF made = Asking THEN UNCHANGED faults ELSE Fault

\* The pool has no authenticated connection: the request fails.
NoTarget(r, s) ==
    /\ \/ \E made \in {Asking, Disconnected} : Connects(r, s, made)
       \/ UNCHANGED <<connections, faults>>
    /\ SendClientError(r)
    /\ UNCHANGED <<route, lost>>

\* Mutation: the entry of a call that was not sent stays.
NotSentStays(r, k) ==
    /\ SendClientError(r)
    /\ route' = [route EXCEPT ![r] = k]

\* CancelServerCall and the error.
NotSent(r, k) ==
    /\ SendClientError(r)
    /\ UNCHANGED route

\* RegisterServerCall and SendServerCallMessage.  A packet that is too large is
\* not sent; sending may break the socket.
Forwards(r, k) ==
    /\ \/ /\ object[k].up
          /\ route' = [route EXCEPT ![r] = k]
          /\ object' = [object EXCEPT ![k].atPeer = @ \cup {r}]
          /\ UNCHANGED <<sent, lost, faults>>
       \/ /\ NotSent(r, k)
          /\ UNCHANGED <<object, lost, faults>>
       \/ /\ object[k].up /\ Fault
          /\ NotSent(r, k)
          /\ object' = [object EXCEPT ![k] = Broken(@)]
          /\ lost' = lost \cup ForwardedOn(k)
    /\ UNCHANGED pool

HandleClientPacket(r, t) ==
    /\ phase = "events"
    /\ r \notin received /\ \A q \in Request : q < r => q \in received
    /\ received' = received \cup {r}
    /\ \/ /\ Selectable(t) = {}
          /\ SendClientError(r)
          /\ UNCHANGED <<route, connections, lost, faults>>
       \/ \E s \in Selectable(t) :
            IF pool[s] # None /\ IsConnected(pool[s]) THEN Forwards(r, pool[s]) ELSE NoTarget(r, s)
    /\ UNCHANGED <<phase, toTick, left, discovery, answered>>

\* The callback of OnAccept for the end of a client's connection.  Bound: it is
\* left out where nothing would be sent to the client any more.
ClientLeaves(r) ==
    /\ phase = "events" /\ route[r] # None /\ r \notin left
    /\ left' = left \cup {r}
    /\ UNCHANGED <<phase, toTick, received, sent, route, discovery, connections, history, faults>>

\* Mutation: what is not listed goes, connected or not.
UnlistedOnly(live) == {s \in Server : pool[s] # None /\ s \notin live}

\* PurgeDisappeared is given the servers of one type, and looks at all.
Purged(live) == {s \in Server : pool[s] # None /\ s \notin live /\ ~ IsConnected(pool[s])}

\* A snapshot of the servers of type t.
OnEndpointChange(t) ==
    /\ phase = "events" /\ bConnected
    /\ changes < MaxChanges /\ changes' = changes + 1
    /\ \E listed \in [{s \in Server : TypeOf[s] = t} -> {"absent", "healthy", "unhealthy"}] :
         LET gone == Purged({s \in DOMAIN listed : listed[s] # "absent"}) IN
         /\ table' = [s \in Server |-> IF s \in DOMAIN listed THEN listed[s] ELSE table[s]]
         /\ pool' = [s \in Server |-> IF s \in gone THEN None ELSE pool[s]]
         /\ object' = [k \in Connection |->
                IF \E s \in gone : pool[s] = k THEN NoObject ELSE object[k]]
    /\ UNCHANGED <<phase, toTick, client, route, bConnected, history, faults>>

OnRegistryDisconnected ==
    /\ phase = "events" /\ bConnected /\ Fault
    /\ bConnected' = FALSE
    /\ UNCHANGED <<phase, toTick, client, route, table, changes, connections, history>>

-----------------------------------------------------------------------------
(* MEndpointCache::Tick. *)

BeginTick ==
    /\ phase = "events" /\ bConnected
    /\ phase' = "tick" /\ toTick' = Pooled
    /\ UNCHANGED <<client, route, discovery, connections, history, faults>>

\* Without the registry the pool is not driven, nor in the frame that finds it.
TickUnconnected ==
    /\ phase = "events" /\ ~ bConnected
    /\ phase' = "pump"
    /\ UNCHANGED <<toTick, client, route, discovery, connections, history, faults>>

TryConnectRegistry ==
    /\ phase = "events" /\ ~ bConnected
    /\ phase' = "pump" /\ bConnected' = TRUE
    /\ UNCHANGED <<toTick, client, route, table, changes, connections, history, faults>>

\* Connection k has its tick, and o is what is left of it.
Ticked(k, o) ==
    /\ phase = "tick" /\ k \in toTick
    /\ toTick' = toTick \ {k}
    /\ object' = [object EXCEPT ![k] = o]
    /\ UNCHANGED <<phase, client, route, discovery, pool, history, faults>>

\* The reconnect timer has not elapsed, or has.
TickWaits(k) == object[k].state = "Disconnected" /\ Ticked(k, object[k])
TickReconnects(k) == object[k].state = "Disconnected" /\ Ticked(k, Asking)

\* The loop of ProcessRecv takes an answer.  A late one finds no entry.
Receive(k, x) ==
    /\ phase = "tick" /\ k \in toTick
    /\ x \in object[k].arriving \ {Refusal}
    /\ object' = [object EXCEPT ![k].arriving = @ \ {x},
                                ![k].state = IF x = Handshake THEN "Authenticated" ELSE @]
    /\ IF x \in Request /\ route[x] = k
       THEN Send(x, "answer") /\ route' = [route EXCEPT ![x] = None]
       ELSE UNCHANGED <<sent, route>>
    /\ UNCHANGED <<phase, toTick, left, received, discovery, pool, history, faults>>

\* The handshake is refused: the continuation disconnects inside the loop, which goes
\* on with a transport that is gone, and the process ends.
ReceiveRefusal(k) ==
    /\ phase = "tick" /\ k \in toTick
    /\ Refusal \in object[k].arriving /\ object[k].state = "Connected"
    /\ phase' = "ended" /\ toTick' = {}
    /\ object' = [object EXCEPT ![k] = Disconnected]
    /\ UNCHANGED <<client, route, discovery, pool, history, faults>>

\* Mutation: a socket that is closed is not looked at.
ReadOnly(o) == o

\* The loop is over: a socket that is closed ends the session.
AfterRead(o) == IF o.up THEN o ELSE Disconnected

EndReceive(k) ==
    /\ object[k].state \in {"Connected", "Authenticated"} /\ object[k].arriving = {}
    /\ Ticked(k, AfterRead(object[k]))

EndTick ==
    /\ phase = "tick" /\ toTick = {}
    /\ phase' = "pump"
    /\ UNCHANGED <<toTick, client, route, discovery, connections, history, faults>>

-----------------------------------------------------------------------------
(* PumpServerCallMaintenance.  DeadlineSeconds of an entry may have passed. *)

\* The probe is asked first; that of a connection that is gone fails, too.
ExpiryOf(r) == IF ~ IsTransportConnected(route[r]) THEN "disconnected" ELSE "timeout"

\* The callbacks run one at a time.
PumpExpires(r) ==
    /\ phase = "pump" /\ route[r] # None
    /\ Send(r, ExpiryOf(r))
    /\ route' = [route EXCEPT ![r] = None]
    /\ UNCHANGED <<phase, toTick, left, received, discovery, connections, history, faults>>

\* The continuation of a handshake that failed disconnects.
HandshakeTimesOut(k) ==
    /\ phase = "pump" /\ object[k].state = "Connected" /\ object[k].up /\ Fault
    /\ object' = [object EXCEPT ![k] = Disconnected]
    /\ UNCHANGED <<phase, toTick, client, route, discovery, pool, history>>

\* No entry is left whose connection is lost, be it a request or a handshake.
EndPump ==
    /\ phase = "pump"
    /\ \A r \in Request : route[r] # None => IsTransportConnected(route[r])
    /\ phase' = "events"
    /\ object' = [k \in Connection |->
         IF object[k].state = "Connected" /\ ~ object[k].up THEN Disconnected ELSE object[k]]
    /\ UNCHANGED <<toTick, client, route, discovery, pool, history, faults>>

-----------------------------------------------------------------------------
(* The targets and the network. *)

\* What the target of connection k answers to x.
AnswerTo(k, x) ==
    IF x = Handshake /\ \E s \in Server : pool[s] = k /\ TypeOf[s] \in NoHandler
    THEN Refusal ELSE x

PeerAnswers(k, x) ==
    /\ phase # "ended"
    /\ x \in object[k].atPeer
    /\ object' = [object EXCEPT ![k].atPeer = @ \ {x}, ![k].arriving = @ \cup {AnswerTo(k, x)}]
    /\ answered' = answered \cup ({x} \cap Request)
    /\ UNCHANGED <<phase, toTick, client, route, discovery, pool, lost, faults>>

LinkDown(k) ==
    /\ phase # "ended" /\ object[k].up /\ Fault
    /\ object' = [object EXCEPT ![k] = Broken(@)]
    /\ lost' = lost \cup ForwardedOn(k)
    /\ UNCHANGED <<phase, toTick, client, route, discovery, pool, answered>>

-----------------------------------------------------------------------------
Drive(k) ==
    \/ TickWaits(k) \/ TickReconnects(k) \/ EndReceive(k) \/ ReceiveRefusal(k)
    \/ \E x \in object[k].arriving : Receive(k, x)

Frame ==
    \/ BeginTick \/ TickUnconnected \/ TryConnectRegistry
    \/ \E k \in toTick : Drive(k)
    \/ EndTick
    \/ \E r \in Request : PumpExpires(r)
    \/ EndPump

Next ==
    \/ \E r \in Request, t \in Type : HandleClientPacket(r, t)
    \/ \E r \in Request : ClientLeaves(r)
    \/ \E t \in Type : OnEndpointChange(t)
    \/ OnRegistryDisconnected
    \/ Frame
    \/ \E k \in Connection : \E x \in object[k].atPeer : PeerAnswers(k, x)
    \/ \E k \in Connection : HandshakeTimesOut(k) \/ LinkDown(k)

\* While the process lives the main loop runs, its timers elapse and the registry
\* comes back; a peer that has a handshake answers it, one way or the other.
\* Nothing is assumed of the answers to requests.
Fairness ==
    /\ WF_vars(Frame)
    /\ SF_vars(TryConnectRegistry)
    /\ SF_vars(\E k \in Connection : TickReconnects(k))
    /\ WF_vars(\E k \in Connection : PeerAnswers(k, Handshake))
    /\ SF_vars(\E r \in Request : PumpExpires(r))

Safety == Init /\ [][Next]_vars

Spec == Safety /\ Fairness

-----------------------------------------------------------------------------
TypeOK ==
    /\ phase \in {"events", "tick", "pump", "ended"} /\ toTick \subseteq Pooled
    /\ \A r \in Request : route[r] \in Connection \cup {None} /\ Len(sent[r]) <= 1
    /\ \A s \in Server :
        /\ table[s] \in {"absent", "healthy", "unhealthy"}
        /\ pool[s] # None => object[pool[s]].state # "none"
    /\ \A k \in Connection :
        /\ object[k].state \in {"none", "Disconnected", "Connected", "Authenticated"}
        /\ object[k].state # "none" <=> k \in Pooled
        /\ object[k].arriving \cup object[k].atPeer \subseteq Request \cup {Handshake, Refusal}

\* What a client sees of its request: nothing yet, the one envelope, or it has left.
Forwarded == {r \in received : sent[r] # <<"error">>}

Seen(r) ==
    IF r \notin Forwarded THEN "none"
    ELSE IF Len(sent[r]) > 1 THEN "several"
    ELSE IF sent[r] # << >> THEN sent[r][1]
    ELSE IF r \in left THEN "left" ELSE "none"

\* A request that is forwarded is a call of CallContract to its client: exactly one
\* envelope, an answer only if the target gave it, and, unless the process ends,
\* always one, whatever happens to connection, pool, registry and target.
Contract == INSTANCE CallContract WITH
    Call <- Request,
    Failure <- {"disconnected", "timeout", "left"},
    made <- Forwarded,
    result <- [r \in Request |-> Seen(r)]

ImplementsContract ==
    Contract!Safety /\ (<>(phase = "ended") \/ Contract!Liveness)

\* A request is given up as disconnected only when its link really went down:
\* neither a snapshot without its server nor another request takes away the
\* connection that a call is waiting on.
DisconnectedMeansLost ==
    \A r \in Request : sent[r] = <<"disconnected">> => r \in lost

\* A connection that no request replaces any more, and that stays in the pool, is
\* authenticated in the end, whatever snapshots purged and registry outages left
\* undriven before.  Requests that keep coming may replace it in every frame; and a
\* target without the handler, once it answers, ends the process instead.
PoolRecovers ==
    \A s \in Server, k \in Connection :
        <>[](pool[s] = k /\ phase # "ended") => <>[](IsConnected(k) /\ object[k].up)
=============================================================================
