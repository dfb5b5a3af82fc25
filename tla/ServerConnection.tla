-------------------------- MODULE ServerConnection --------------------------
(***************************************************************************)
(* One outgoing MServerConnection (Common/Net/ServerConnection): connect,  *)
(* handshake, receive loop, disconnect and reconnect, driven by the frame  *)
(* of MNetServerBase::Run, which runs the event loops, then Tick, then     *)
(* PumpServerCallMaintenance, on one thread.                               *)
(*                                                                         *)
(* The handshake is a server call.  A connection object keeps its address  *)
(* over reconnects, and the address is all the call table compares, so a   *)
(* call of an earlier session could be mistaken for one of the present     *)
(* session: calls are therefore named by the session that made them.  What *)
(* a call does otherwise is the contract that ServerCall proves.           *)
(***************************************************************************)
EXTENDS Naturals, Sequences

CONSTANTS
    HandshakeAnswers,  \* how the peer answers: "ok", "refused" (no such handler)
    MaxSessions,       \* bound: TCP sessions; the last one meets no failure
    MaxAttempts,       \* bound: consecutive refused attempts of the reconnect timer
    MaxData            \* bound: packets waiting to be received

ASSUME AnswersAssumption == HandshakeAnswers \subseteq {"ok", "refused"} /\ "ok" \in HandshakeAnswers
ASSUME BoundAssumption == MaxSessions \in Nat \ {0} /\ MaxAttempts \in Nat /\ MaxData \in Nat \ {0}

VARIABLES
    phase,       \* where the main loop is in its frame
    state,       \* State
    channel,     \* Transport: NoChannel, or the session it belongs to
    connected,   \* bConnected of the socket under Transport
    session,     \* number of TCP sessions made so far
    reconnectDue,\* ReconnectTimer >= ReconnectInterval
    attempts,    \* ReconnectAttempts
    calls,       \* handshake calls in the table, by session
    overdue,     \* those whose deadline has passed
    asked,       \* the peer has the handshake request of the current session
    inbox,       \* packets the socket can deliver, in order
    ack          \* history: session whose handshake was acknowledged last

vars == <<phase, state, channel, connected, session, reconnectDue, attempts,
          calls, overdue, asked, inbox, ack>>

NoChannel == 0
Session == 1 .. MaxSessions
States == {"Disconnected", "Connected", "Authenticated"}
Answer(n, a) == [call |-> n, kind |-> a]
Data == [call |-> 0, kind |-> "data"]

\* Failures happen in every session but the last.
Unstable == session < MaxSessions

IsTransportConnected == state \in {"Connected", "Authenticated"} /\ connected

Init ==
    /\ phase = "events"
    /\ state = "Disconnected" /\ channel = NoChannel /\ connected = FALSE
    /\ session = 0 /\ ack = 0
    /\ reconnectDue = FALSE /\ attempts = 0
    /\ calls = {} /\ overdue = {}
    /\ asked = FALSE /\ inbox = << >>

-----------------------------------------------------------------------------
(* Operators for the calls the actions make. *)

\* GPendingServerCalls.erase: the deadline goes with the entry.
Remove(S) == calls' = calls \ S /\ overdue' = overdue \ S

CloseChannel ==
    /\ channel' = NoChannel
    /\ connected' = FALSE
    /\ asked' = FALSE
    /\ inbox' = << >>

\* Mutation: State is not reset.
DisconnectKeepsState == CloseChannel /\ UNCHANGED state

\* Mutation: the socket is closed, the channel object stays.
DisconnectKeepsChannel ==
    /\ state' = "Disconnected"
    /\ connected' = FALSE /\ asked' = FALSE /\ inbox' = << >>
    /\ UNCHANGED channel

\* Disconnect(): closes and drops the channel whatever the state was.
Disconnect == state' = "Disconnected" /\ CloseChannel

\* Mutation: the continuation ignores the error.
HandshakeFailureIgnored == UNCHANGED <<state, channel, connected, asked, inbox>>

\* The continuation of SendHandshake when the call fails: only a connection
\* that still waits for its handshake is given up.
HandshakeFailed ==
    IF state = "Connected" THEN Disconnect ELSE UNCHANGED <<state, channel, connected, asked, inbox>>

\* ConnectTo fails: refused or timed out.
ConnectFails ==
    /\ state' = "Disconnected"
    /\ CloseChannel
    /\ UNCHANGED <<session, calls, overdue>>

\* TCP connect and SendHandshake; the call is registered, the request is out.
ConnectAndAsk ==
    /\ session < MaxSessions
    /\ session' = session + 1
    /\ state' = "Connected"
    /\ channel' = session'
    /\ connected' = TRUE
    /\ calls' = calls \cup {session'}
    /\ asked' = TRUE
    /\ inbox' = << >>
    /\ UNCHANGED overdue

\* TCP connect, but sending the handshake breaks the socket: the call is
\* cancelled and its continuation disconnects before TryConnect returns.
ConnectAndBreak ==
    /\ session + 1 < MaxSessions
    /\ session' = session + 1
    /\ Disconnect
    /\ UNCHANGED <<calls, overdue>>

TryConnectSucceeds == ConnectAndAsk \/ ConnectAndBreak

-----------------------------------------------------------------------------
(* Event loop phase: handlers may ask for the connection. *)

Connect ==
    /\ phase = "events"
    /\ state = "Disconnected"
    /\ TryConnectSucceeds \/ ConnectFails
    /\ UNCHANGED <<phase, reconnectDue, attempts, ack>>

EndEvents ==
    /\ phase = "events"
    /\ phase' = "tick"
    /\ UNCHANGED <<state, channel, connected, session, reconnectDue, attempts,
                   calls, overdue, asked, inbox, ack>>

-----------------------------------------------------------------------------
(* Tick. *)

TickWaits ==
    /\ phase = "tick"
    /\ state = "Disconnected"
    /\ ~ reconnectDue
    /\ phase' = "pump"
    /\ UNCHANGED <<state, channel, connected, session, reconnectDue, attempts,
                   calls, overdue, asked, inbox, ack>>

TickReconnects ==
    /\ phase = "tick"
    /\ state = "Disconnected"
    /\ reconnectDue
    /\ phase' = "pump"
    /\ reconnectDue' = FALSE
    /\ \/ TryConnectSucceeds
       \/ attempts < MaxAttempts /\ ConnectFails
    /\ attempts' = IF attempts < MaxAttempts THEN attempts + 1 ELSE attempts
    /\ UNCHANGED ack

TickReceives ==
    /\ phase = "tick"
    /\ state # "Disconnected"
    /\ phase' = "recv"
    /\ UNCHANGED <<state, channel, connected, session, reconnectDue, attempts,
                   calls, overdue, asked, inbox, ack>>

\* The loop of ProcessRecv takes a packet from the channel and handles it.
ReceivePacket(p) ==
    /\ phase = "recv"
    /\ channel # NoChannel
    /\ connected /\ inbox # << >> /\ p = Head(inbox)
    /\ UNCHANGED <<phase, session, reconnectDue>>

\* A response without an entry in the table, or any other packet.
ReceiveOther(p) ==
    /\ ReceivePacket(p)
    /\ p.call \notin calls
    /\ inbox' = Tail(inbox)
    /\ UNCHANGED <<state, channel, connected, attempts, calls, overdue, asked, ack>>

\* The handshake is acknowledged; a late answer finds another state.
ReceiveHandshakeOk(p) ==
    /\ ReceivePacket(p)
    /\ p.call \in calls /\ p.kind = "ok"
    /\ Remove({p.call})
    /\ inbox' = Tail(inbox)
    /\ IF state = "Connected"
       THEN state' = "Authenticated" /\ attempts' = 0 /\ ack' = p.call
       ELSE UNCHANGED <<state, attempts, ack>>
    /\ UNCHANGED <<channel, connected, asked>>

\* The handshake is refused: the continuation disconnects inside the loop.
ReceiveHandshakeRefused(p) ==
    /\ ReceivePacket(p)
    /\ p.call \in calls /\ p.kind = "refused"
    /\ Remove({p.call})
    /\ IF state = "Connected"
       THEN Disconnect
       ELSE inbox' = Tail(inbox) /\ UNCHANGED <<state, channel, connected, asked>>
    /\ UNCHANGED <<attempts, ack>>

\* The loop ends when nothing more can be read; a heartbeat may break the socket.
ReceiveEnds ==
    /\ phase = "recv"
    /\ channel # NoChannel
    /\ connected /\ inbox = << >>
    /\ phase' = "pump"
    /\ UNCHANGED <<state, channel, session, reconnectDue, attempts, calls,
                   overdue, ack>>
    /\ \/ UNCHANGED <<connected, asked, inbox>>
       \/ /\ Unstable /\ state = "Authenticated"
          /\ connected' = FALSE /\ asked' = FALSE /\ UNCHANGED inbox

\* Mutation: the loop returns without looking at the socket.
ReceiveLeavesClosed ==
    /\ phase = "recv"
    /\ channel # NoChannel
    /\ ~ connected
    /\ phase' = "pump"
    /\ UNCHANGED <<state, channel, connected, session, reconnectDue, attempts,
                   calls, overdue, asked, inbox, ack>>

\* The socket is found closed: the session is over.
ReceiveFindsClosed ==
    /\ phase = "recv"
    /\ channel # NoChannel
    /\ ~ connected
    /\ phase' = "pump"
    /\ Disconnect
    /\ UNCHANGED <<session, reconnectDue, attempts, calls, overdue, ack>>

-----------------------------------------------------------------------------
(* PumpServerCallMaintenance, once per frame. *)

\* Mutation: a broken link is left to the deadline.
ExpiredByDeadlineOnly == calls \cap overdue

Expired == {n \in calls : ~ IsTransportConnected \/ n \in overdue}

Pump ==
    /\ phase = "pump"
    /\ phase' = "events"
    /\ Remove(Expired)
    /\ IF Expired # {} THEN HandshakeFailed
                       ELSE UNCHANGED <<state, channel, connected, asked, inbox>>
    /\ UNCHANGED <<session, reconnectDue, attempts, ack>>

-----------------------------------------------------------------------------
(* Time, the peer and the network. *)

ReconnectTimerElapses ==
    /\ state = "Disconnected" /\ ~ reconnectDue
    /\ reconnectDue' = TRUE
    /\ UNCHANGED <<phase, state, channel, connected, session, attempts, calls,
                   overdue, asked, inbox, ack>>

DeadlinePasses(n) ==
    /\ n \in calls \ overdue
    /\ n < MaxSessions
    /\ overdue' = overdue \cup {n}
    /\ UNCHANGED <<phase, state, channel, connected, session, reconnectDue,
                   attempts, calls, asked, inbox, ack>>

PeerAnswers(a) ==
    /\ asked
    /\ asked' = FALSE
    /\ inbox' = Append(inbox, Answer(channel, a))
    /\ UNCHANGED <<phase, state, channel, connected, session, reconnectDue,
                   attempts, calls, overdue, ack>>

PeerSendsData ==
    /\ connected
    /\ Len(inbox) < MaxData
    /\ inbox' = Append(inbox, Data)
    /\ UNCHANGED <<phase, state, channel, connected, session, reconnectDue,
                   attempts, calls, overdue, asked, ack>>

LinkDown ==
    /\ connected /\ Unstable
    /\ connected' = FALSE
    /\ asked' = FALSE
    /\ inbox' = << >>
    /\ UNCHANGED <<phase, state, channel, session, reconnectDue, attempts,
                   calls, overdue, ack>>

-----------------------------------------------------------------------------
Receive ==
    \/ \E p \in {inbox[i] : i \in DOMAIN inbox} :
         ReceiveOther(p) \/ ReceiveHandshakeOk(p) \/ ReceiveHandshakeRefused(p)
    \/ ReceiveEnds \/ ReceiveFindsClosed

Frame == EndEvents \/ TickWaits \/ TickReconnects \/ TickReceives \/ Receive \/ Pump

Environment ==
    \/ ReconnectTimerElapses \/ PeerSendsData \/ LinkDown
    \/ \E n \in calls : DeadlinePasses(n)
    \/ \E a \in HandshakeAnswers : PeerAnswers(a)

Next == Connect \/ Frame \/ Environment

Safety == Init /\ [][Next]_vars

\* The main loop keeps running frames, the timer runs, and a peer that has the
\* handshake request answers it.  ReceiveEnds is strongly fair: the loop reads
\* faster than the peer can keep sending, so a frame does not last for ever.
Spec ==
    /\ Safety
    /\ WF_vars(Frame)
    /\ SF_vars(ReceiveEnds)
    /\ WF_vars(ReconnectTimerElapses)
    /\ \A a \in HandshakeAnswers : WF_vars(PeerAnswers(a))

-----------------------------------------------------------------------------
\* Types; a connection has a channel exactly while it is not disconnected.
TypeOK ==
    /\ phase \in {"events", "tick", "recv", "pump"}
    /\ state \in States
    /\ channel \in Session \cup {NoChannel}
    /\ state = "Disconnected" <=> channel = NoChannel
    /\ connected \in BOOLEAN /\ asked \in BOOLEAN /\ reconnectDue \in BOOLEAN
    /\ session \in 0 .. MaxSessions /\ ack \in 0 .. MaxSessions
    /\ attempts \in 0 .. MaxAttempts
    /\ calls \subseteq Session /\ overdue \subseteq calls
    /\ inbox \in Seq([call : 0 .. MaxSessions, kind : {"ok", "refused", "data"}])

\* A connection that counts as usable was acknowledged in the session it is in:
\* no answer given to an earlier session authenticates the present one.
AuthenticatedInThisSession == state = "Authenticated" => ack = channel

\* Between frames a connection that is up but not authenticated has its own
\* handshake call in the table, so an answer, the deadline or the probe will
\* move it on: it cannot stay half open.
NeverHalfOpen ==
    phase = "events" /\ state = "Connected" => channel \in calls

\* A frame ends with no handshake call of a session that is over, which is what
\* keeps the failure of an old handshake from closing a new session.
NoStaleHandshake == phase = "events" => calls \subseteq {channel}

\* The pump closes a session only because of that session's own handshake.
FailureClosesItsOwnSession ==
    [][phase = "pump" /\ channel # NoChannel /\ channel' = NoChannel
         => channel \in calls \ calls']_vars

\* ProcessRecv never calls through a channel that is gone (ServerConnection.h:
\* every message channel answers false when it is no longer usable, and does
\* not crash).
ReceivesOnAChannel == phase = "recv" => channel # NoChannel

\* Once failures stop, the connection is authenticated on a live socket for good:
\* the tick, the pump and the timer between them leave no way to be stuck.  It
\* says nothing of a program that has called through a channel that is gone.
EventuallyAuthenticated ==
    []ReceivesOnAChannel => <>[](state = "Authenticated" /\ connected)
=============================================================================
