----------------------------- MODULE Discovery -----------------------------
(***************************************************************************)
(* Service discovery: MServiceRegistry keeps the table of endpoints, and   *)
(* the MEndpointCache of every server registers there, keeps its entry     *)
(* alive with heartbeats and follows the table by the snapshots it is      *)
(* sent.  All servers here are of one type, so one sequence number counts  *)
(* the snapshots.                                                          *)
(*                                                                         *)
(* A server has one connection at a time to the registry; connection n of  *)
(* server s is <<s, n>>, and its session at the registry may outlive it.   *)
(* What travels is a queue each way.  A connection that is down has lost   *)
(* what was still to come, but the end that reads may get some of it first.*)
(***************************************************************************)
EXTENDS Integers, SequencesExt

CONSTANTS
    Server,      \* ServerIds, of one ServerType; a restarted server keeps its own
    Steady,      \* bound: servers that fail only with the registry, and are settled when a fault happens
    MaxFaults,   \* bound: exits of servers, broken links, crashes of the registry, stalls
    MaxUnread    \* bound: the registry sends while every server has less left to read

ASSUME ServerAssumption == IsFiniteSet(Server)
ASSUME BoundAssumption == Steady \subseteq Server /\ MaxFaults \in Nat /\ MaxUnread \in Nat \ {0}

VARIABLES
    up,         \* the server process runs
    conn,       \* number of the connection behind Registry.Conn: 0 when not bConnected
    dead,       \* a send failed on it: Conn is set but not IsConnected
    view,       \* Endpoints of the cache: the last snapshot accepted
    lastSeq,    \* LastSeq of the cache
    made,       \* connections made so far
    live,       \* connection made[s] is up
    toRegistry, \* packets under way on each connection
    toClient,   \* snapshots under way on the present connection
    regUp,      \* the registry process runs
    endpoints,  \* its Endpoints: absent, healthy or unhealthy
    silence,    \* time since LastHeartbeatMs: 0, 1 past HeartbeatTimeoutMs, 2 past EvictAfterMs
    seq,        \* MonotonicSeq
    session,    \* its Sessions, by connection
    fresh,      \* history: a snapshot was accepted over the present connection
    faults      \* what went wrong so far

client == <<up, conn, dead, made>>
cache == <<view, lastSeq, fresh>>
registry == <<regUp, endpoints, silence, seq, session>>
network == <<live, toRegistry, toClient>>
vars == <<client, cache, registry, network, faults>>

Connection == Server \X (1 .. MaxFaults + 1)
Present(s) == <<s, made[s]>>
NoSession == [state |-> "none", registered |-> FALSE, named |-> FALSE]
NoEndpoints == [s \in Server |-> "absent"]

\* The connection c has both ends.
Up(c) == c = Present(c[1]) /\ live[c[1]]

Init ==
    /\ up = [s \in Server |-> FALSE]
    /\ conn = [s \in Server |-> 0]
    /\ dead = [s \in Server |-> FALSE]
    /\ view = [s \in Server |-> NoEndpoints]
    /\ lastSeq = [s \in Server |-> 0]
    /\ made = [s \in Server |-> 0]
    /\ live = [s \in Server |-> FALSE]
    /\ toRegistry = [c \in Connection |-> << >>]
    /\ toClient = [s \in Server |-> << >>]
    /\ regUp = TRUE
    /\ endpoints = NoEndpoints
    /\ silence = [s \in Server |-> 0]
    /\ seq = 0
    /\ session = [c \in Connection |-> NoSession]
    /\ fresh = [s \in Server |-> FALSE]
    /\ faults = 0

\* The server has registered, and has read a snapshot.
Settled(s) == fresh[s] /\ toRegistry[Present(s)] = << >>

Fault ==
    /\ faults < MaxFaults /\ faults' = faults + 1
    /\ \A s \in Steady : Settled(s)

-----------------------------------------------------------------------------
(* A server: MEndpointCache. *)

\* TryConnectRegistry: the connection, which OnAccept gives a session, and the
\* packets sent on it at once.
Connect(s, packets) ==
    /\ made' = [made EXCEPT ![s] = @ + 1]
    /\ conn' = [conn EXCEPT ![s] = made'[s]]
    /\ live' = [live EXCEPT ![s] = TRUE]
    /\ dead' = [dead EXCEPT ![s] = FALSE]
    /\ toRegistry' = [toRegistry EXCEPT ![<<s, made'[s]>>] = packets]
    /\ session' = [session EXCEPT ![<<s, made'[s]>>] = [NoSession EXCEPT !.state = "open"]]
    /\ fresh' = [fresh EXCEPT ![s] = FALSE]

\* BindRegistry and RegisterLocal.  Without a registry the server goes on, and
\* the request for the list is not made up for later.
Start(s) ==
    /\ ~ up[s]
    /\ up' = [up EXCEPT ![s] = TRUE]
    /\ IF regUp THEN Connect(s, <<"Register", "ListEndpoints">>)
                ELSE UNCHANGED <<conn, dead, made, live, toRegistry, session, fresh>>
    /\ UNCHANGED <<view, lastSeq, toClient, regUp, endpoints, silence, seq, faults>>

\* Mutation: a connection that stands is replaced.
WantsConnectionAlways(s) == up[s]

\* The tests of Tick and TryConnectRegistry.
WantsConnection(s) == up[s] /\ conn[s] = 0

\* OnRegistryConnected registers again; it has no lists to ask for.
Reconnect(s) ==
    /\ WantsConnection(s) /\ regUp
    /\ Connect(s, <<"Register">>)
    /\ UNCHANGED <<up, view, lastSeq, toClient, regUp, endpoints, silence, seq, faults>>

\* SendToRegistry: a connection that is down takes the packet, or fails for good.
SendToRegistry(s, packet) ==
    CASE dead[s] -> UNCHANGED <<toRegistry, dead>>
      [] ~ dead[s] /\ live[s] ->
           /\ toRegistry' = [toRegistry EXCEPT ![Present(s)] = Append(@, packet)]
           /\ UNCHANGED dead
      [] OTHER ->
           /\ \E failed \in BOOLEAN : dead' = [dead EXCEPT ![s] = failed]
           /\ UNCHANGED toRegistry

\* Heartbeats that find the endpoint just renewed would change nothing.
Due(s) == ~ live[s] \/ silence[s] > 0 \/ ~ session[Present(s)].named

\* Tick when connected.  Bound: a heartbeat is sent when it is due and waits for
\* what was sent before.
SendHeartbeat(s) ==
    /\ up[s] /\ conn[s] # 0
    /\ Due(s) /\ toRegistry[Present(s)] = << >>
    /\ SendToRegistry(s, "Heartbeat")
    /\ UNCHANGED <<up, conn, made, cache, registry, live, toClient, faults>>

\* OnEndpointChange refuses a snapshot with a lower number than the last one.
Accepted(s, snapshot) == snapshot.seq >= lastSeq[s]

\* HandleRegistryPacket: a snapshot replaces the view.
ReceiveSnapshot(s) ==
    /\ up[s] /\ conn[s] # 0 /\ ~ dead[s] /\ toClient[s] # << >>
    /\ LET snapshot == Head(toClient[s]) IN
       IF Accepted(s, snapshot)
       THEN /\ view' = [view EXCEPT ![s] = snapshot.table]
            /\ lastSeq' = [lastSeq EXCEPT ![s] = snapshot.seq]
            /\ fresh' = [fresh EXCEPT ![s] = TRUE]
       ELSE UNCHANGED cache
    /\ toClient' = [toClient EXCEPT ![s] = Tail(@)]
    /\ UNCHANGED <<client, registry, live, toRegistry, faults>>

\* The loop reports the end of the connection: OnRegistryDisconnected.  It never
\* does once a send has failed, for RunOnce passes over such a connection.
NoticeDisconnect(s) ==
    /\ up[s] /\ conn[s] # 0 /\ ~ live[s] /\ ~ dead[s]
    /\ conn' = [conn EXCEPT ![s] = 0]
    /\ toClient' = [toClient EXCEPT ![s] = << >>]
    /\ UNCHANGED <<up, dead, made, cache, registry, live, toRegistry, faults>>

\* The process is gone: what its cache knew, too.
Gone(s) ==
    /\ up' = [up EXCEPT ![s] = FALSE]
    /\ conn' = [conn EXCEPT ![s] = 0]
    /\ dead' = [dead EXCEPT ![s] = FALSE]
    /\ live' = [live EXCEPT ![s] = FALSE]
    /\ toClient' = [toClient EXCEPT ![s] = << >>]
    /\ view' = [view EXCEPT ![s] = NoEndpoints]
    /\ lastSeq' = [lastSeq EXCEPT ![s] = 0]
    /\ fresh' = [fresh EXCEPT ![s] = FALSE]

Crash(s) ==
    /\ up[s] /\ s \notin Steady /\ Fault
    /\ Gone(s)
    /\ UNCHANGED <<made, registry, toRegistry>>

\* DeregisterAndShutdown.
Stop(s) ==
    /\ up[s] /\ s \notin Steady /\ Fault
    /\ toRegistry' = IF conn[s] # 0 /\ ~ dead[s] /\ live[s]
                     THEN [toRegistry EXCEPT ![Present(s)] = Append(@, "Deregister")]
                     ELSE toRegistry
    /\ Gone(s)
    /\ UNCHANGED <<made, registry>>

LinkBreaks(s) ==
    /\ live[s] /\ s \notin Steady /\ Fault
    /\ live' = [live EXCEPT ![s] = FALSE]
    /\ UNCHANGED <<client, cache, registry, toRegistry, toClient>>

-----------------------------------------------------------------------------
(* The registry: MServiceRegistry, whose handlers all run on one thread. *)

\* SendTo: a session whose connection is down loses the packet, or fails for good.
Failing(sessions) == {c \in Connection : sessions[c].state = "open" /\ ~ Up(c)}

SomeFail(sessions, exposed) ==
    \E failed \in SUBSET exposed :
        session' = [c \in Connection |->
            IF c \in failed THEN [sessions[c] EXCEPT !.state = "dead"] ELSE sessions[c]]

\* The table at several numbers that follow seq.
Snapshots(table, count) == [k \in 1 .. count |-> [seq |-> seq + k, table |-> table]]

\* SendEndpointChange, once for each of so many changes, to every session.
Push(table, sessions, count) ==
    /\ endpoints' = table
    /\ seq' = seq + count
    /\ toClient' = [s \in Server |->
         IF live[s] /\ sessions[Present(s)].state = "open"
         THEN toClient[s] \o Snapshots(table, count) ELSE toClient[s]]
    /\ \A s \in Server : live[s] => Len(toClient[s]) < MaxUnread
    /\ SomeFail(sessions, Failing(sessions))

\* HandlePacket takes the next packet of kind packet.
Handling(c, packet) ==
    /\ session[c].state = "open" /\ toRegistry[c] # << >> /\ Head(toRegistry[c]) = packet
    /\ toRegistry' = [toRegistry EXCEPT ![c] = Tail(@)]
    /\ UNCHANGED <<client, cache, live, regUp, faults>>

InUse(c) == endpoints[c[1]] # "absent" /\ ~ session[c].registered

HandleRegister(c) ==
    LET s == c[1] IN
    /\ Handling(c, "Register")
    /\ IF InUse(c)
       THEN UNCHANGED <<endpoints, seq, session, toClient, silence>>
       ELSE /\ Push([endpoints EXCEPT ![s] = "healthy"],
                    [session EXCEPT ![c].registered = TRUE, ![c].named = TRUE], 1)
            /\ silence' = [silence EXCEPT ![s] = 0]

HandleDeregister(c) ==
    LET s == c[1] IN
    /\ Handling(c, "Deregister")
    /\ IF endpoints[s] = "absent"
       THEN UNCHANGED <<endpoints, seq, session, toClient, silence>>
       ELSE /\ Push([endpoints EXCEPT ![s] = "absent"], [session EXCEPT ![c].registered = FALSE], 1)
            /\ silence' = [silence EXCEPT ![s] = 0]

\* A heartbeat counts only in the session that registered the server, and only
\* while the server has an endpoint.
HandleHeartbeat(c) ==
    LET s == c[1]
        counts == session[c].named /\ endpoints[s] # "absent" IN
    /\ Handling(c, "Heartbeat")
    /\ silence' = IF counts THEN [silence EXCEPT ![s] = 0] ELSE silence
    /\ IF counts /\ endpoints[s] = "unhealthy"
       THEN Push([endpoints EXCEPT ![s] = "healthy"], session, 1)
       ELSE UNCHANGED <<endpoints, seq, session, toClient>>

HealthyOnly(table) == [s \in Server |-> IF table[s] = "healthy" THEN "healthy" ELSE "absent"]

\* The answer goes to the session that asked, with a number of its own.
HandleListEndpoints(c) ==
    LET s == c[1] IN
    /\ Handling(c, "ListEndpoints")
    /\ seq' = seq + 1
    /\ IF Up(c)
       THEN /\ toClient' = [toClient EXCEPT ![s] =
                 Append(@, [seq |-> seq', table |-> HealthyOnly(endpoints)])]
            /\ Len(toClient[s]) < MaxUnread
            /\ UNCHANGED session
       ELSE /\ SomeFail(session, {c})
            /\ UNCHANGED toClient
    /\ UNCHANGED <<endpoints, silence>>

\* Mutation: the endpoint of a closed session stays.
ClosesKeeping(c) ==
    /\ session' = [session EXCEPT ![c] = NoSession]
    /\ UNCHANGED <<endpoints, seq, toClient, silence>>

\* The callback of OnAccept for the end of a connection: the endpoint goes, be it
\* this session's or that of a later session of the same server.
Closes(c) ==
    LET rest == [session EXCEPT ![c] = NoSession] IN
    IF session[c].registered /\ endpoints[c[1]] # "absent"
    THEN /\ Push([endpoints EXCEPT ![c[1]] = "absent"], rest, 1)
         /\ silence' = [silence EXCEPT ![c[1]] = 0]
    ELSE /\ session' = rest
         /\ UNCHANGED <<endpoints, seq, toClient, silence>>

\* The loop notices the end of a connection, with or without the packets that
\* came before it.  A session that a send has failed is passed over for good.
SessionCloses(c) ==
    /\ session[c].state = "open" /\ ~ Up(c)
    /\ Closes(c)
    /\ toRegistry' = [toRegistry EXCEPT ![c] = << >>]
    /\ UNCHANGED <<client, cache, live, regUp, faults>>

\* A server whose heartbeats reach the registry.
Beating(s) == up[s] /\ live[s] /\ ~ dead[s] /\ session[Present(s)].named

\* The registry has work to do: it does not take it 15 seconds, but in a stall.
Busy ==
    \E c \in Connection :
        session[c].state = "open" /\ (toRegistry[c] # << >> \/ ~ Up(c))

\* Only a stall keeps s silent: of its process, of the network or of the registry.
Stalling(s) == Beating(s) \/ Busy

\* Time passes without a heartbeat of s.
SilenceGrows(s) ==
    /\ regUp /\ endpoints[s] # "absent" /\ silence[s] < 2
    /\ IF Stalling(s) THEN Fault ELSE UNCHANGED faults
    /\ silence' = [silence EXCEPT ![s] = @ + 1]
    /\ UNCHANGED <<client, cache, network, regUp, endpoints, seq, session>>

\* Mutation: an endpoint that is already unhealthy is not looked at any more.
EvictedHealthy == {s \in Server : endpoints[s] = "healthy" /\ silence[s] = 2}

Evicted == {s \in Server : endpoints[s] # "absent" /\ silence[s] = 2}

Marked == {s \in Server : endpoints[s] = "healthy" /\ silence[s] = 1}

\* Mutation: only what is erased is announced.
EvictionsOnly == Cardinality(Evicted)

\* ChangedTypes has an element for each change, all of the same type here.
Changes == Cardinality(Evicted) + Cardinality(Marked)

TickHeartbeats ==
    /\ regUp /\ Evicted \cup Marked # {}
    /\ Push([s \in Server |-> IF s \in Evicted THEN "absent"
                              ELSE IF s \in Marked THEN "unhealthy" ELSE endpoints[s]],
            session, Changes)
    /\ silence' = [s \in Server |-> IF s \in Evicted THEN 0 ELSE silence[s]]
    /\ UNCHANGED <<client, cache, live, toRegistry, regUp, faults>>

\* The registry keeps nothing: its table and its numbers begin anew.
RegistryCrash ==
    /\ regUp /\ Fault
    /\ regUp' = FALSE
    /\ endpoints' = NoEndpoints /\ seq' = 0
    /\ silence' = [s \in Server |-> 0]
    /\ session' = [c \in Connection |-> NoSession]
    /\ toRegistry' = [c \in Connection |-> << >>]
    /\ live' = [s \in Server |-> FALSE]
    /\ UNCHANGED <<client, cache, toClient>>

RegistryStart ==
    /\ ~ regUp
    /\ regUp' = TRUE
    /\ UNCHANGED <<client, cache, network, endpoints, silence, seq, session, faults>>

-----------------------------------------------------------------------------
ServerSteps(s) == Reconnect(s) \/ SendHeartbeat(s) \/ ReceiveSnapshot(s) \/ NoticeDisconnect(s)

Handle(c) ==
    HandleRegister(c) \/ HandleDeregister(c) \/ HandleHeartbeat(c) \/ HandleListEndpoints(c)

SessionSteps(c) == Handle(c) \/ SessionCloses(c)

Next ==
    \/ \E s \in Server : ServerSteps(s) \/ Start(s) \/ Crash(s) \/ Stop(s) \/ LinkBreaks(s) \/ SilenceGrows(s)
    \/ \E c \in Connection : SessionSteps(c)
    \/ TickHeartbeats \/ RegistryCrash \/ RegistryStart

\* The loops of the servers and of the registry run, and time passes; nothing
\* makes a process start, stop or fail.
Fairness ==
    /\ \A s \in Server : WF_vars(Reconnect(s)) /\ WF_vars(SendHeartbeat(s))
                         /\ WF_vars(ReceiveSnapshot(s)) /\ WF_vars(NoticeDisconnect(s))
                         /\ WF_vars(~ Stalling(s) /\ SilenceGrows(s))
    /\ \A c \in Connection : WF_vars(Handle(c)) /\ WF_vars(SessionCloses(c))
    /\ WF_vars(TickHeartbeats)

Spec == Init /\ [][Next]_vars /\ Fairness

-----------------------------------------------------------------------------
State == {"absent", "healthy", "unhealthy"}
Table == [Server -> State]
Packet == {"Register", "ListEndpoints", "Heartbeat", "Deregister"}

TypeOK ==
    /\ up \in [Server -> BOOLEAN] /\ dead \in [Server -> BOOLEAN] /\ live \in [Server -> BOOLEAN]
    /\ \A s \in Server : conn[s] \in {0, made[s]} /\ made[s] \in 0 .. MaxFaults + 1
    /\ view \in [Server -> Table] /\ endpoints \in Table
    /\ \A c \in Connection : Range(toRegistry[c]) \subseteq Packet
    /\ \A s \in Server : \A k \in DOMAIN toClient[s] : toClient[s][k].table \in Table
    /\ silence \in [Server -> 0 .. 2]
    /\ \A s \in Server : endpoints[s] = "absent" => silence[s] = 0
    /\ \A c \in Connection : session[c].state \in {"none", "open", "dead"}

\* Every endpoint has a session that is registered for it, which takes it away at
\* the end of the connection: none is left behind by what sessions of a server
\* that restarts or reconnects do to each other.
NoGhost ==
    \A s \in Server : endpoints[s] # "absent" =>
        \E n \in 1 .. MaxFaults + 1 : session[<<s, n>>].registered

\* A server that accepted a snapshot over its present connection and has no other
\* to read sees the healthy endpoints the registry has, across reconnections,
\* evictions and snapshots it refused.
Following(s) ==
    up[s] /\ live[s] /\ fresh[s] /\ session[Present(s)].state = "open" /\ toClient[s] = << >>

CaughtUp == \A s \in Server : Following(s) => HealthyOnly(view[s]) = HealthyOnly(endpoints)

\* A server that is gone for good leaves the table, though its session may never
\* be told of the end of the connection.
DeadForgotten ==
    \A s \in Server : <>[](~ up[s]) => <>[](endpoints[s] = "absent")
=============================================================================
