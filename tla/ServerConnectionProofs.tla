----------------------- MODULE ServerConnectionProofs -----------------------
(***************************************************************************)
(* The sessions of one connection stay apart, for any number of sessions,  *)
(* attempts and packets: an answer authenticates the session it was given  *)
(* in, a connection is never left half open, and the failure of a          *)
(* handshake closes its own session and no other.                          *)
(***************************************************************************)
EXTENDS ServerConnection, TLAPS

\* Packet of the inbox, as the types have it.
InboxPacket == [call : 0 .. MaxSessions, kind : {"ok", "refused", "data"}]

\* State and Transport go together, and what is known of a channel is of the
\* session that is being made now.
ChannelSound ==
    /\ state = "Disconnected" <=> channel = NoChannel
    /\ channel \in {NoChannel, session}
    /\ channel = NoChannel => ~ connected /\ ~ asked /\ inbox = << >>
    /\ calls \subseteq 1 .. session

\* What the socket delivers was sent in the session of the channel.
InboxOfThisSession == \A i \in DOMAIN inbox : inbox[i].call \in {0, channel}

\* A connection that waits for its handshake has the call, whatever the phase.
Waiting == state = "Connected" => channel \in calls

\* A call outlives its session only between the tick that ends the session and the
\* pump of the same frame.
CallsOfThisSession == calls \subseteq {channel} \/ (phase = "pump" /\ state = "Disconnected")

Inv ==
    /\ TypeOK /\ ChannelSound /\ InboxOfThisSession /\ Waiting /\ CallsOfThisSession
    /\ AuthenticatedInThisSession

-----------------------------------------------------------------------------
\* The main loop starts without a connection.
LEMMA InvInit == Init => Inv
<1> USE BoundAssumption
<1> SUFFICES ASSUME Init PROVE Inv
  OBVIOUS
<1>1. TypeOK
  <2>1. << >> \in Seq(InboxPacket)
    OBVIOUS
  <2>2. 0 \in 0 .. MaxSessions /\ 0 \in 0 .. MaxAttempts
    OBVIOUS
  <2> QED  BY <2>1, <2>2 DEF Init, TypeOK, States, NoChannel, InboxPacket
<1>2. ChannelSound /\ InboxOfThisSession /\ Waiting /\ CallsOfThisSession /\ AuthenticatedInThisSession
  BY DEF Init, ChannelSound, InboxOfThisSession, Waiting, CallsOfThisSession,
         AuthenticatedInThisSession, NoChannel
<1> QED  BY <1>1, <1>2 DEF Inv

\* Whatever is taken from the front, or put at the end for the session that has
\* the channel, leaves the inbox of that session.
LEMMA InboxTail ==
  ASSUME TypeOK, InboxOfThisSession, inbox # << >>
  PROVE  /\ Head(inbox) \in InboxPacket /\ Head(inbox).call \in {0, channel}
         /\ Tail(inbox) \in Seq(InboxPacket)
         /\ \A i \in DOMAIN Tail(inbox) : Tail(inbox)[i].call \in {0, channel}
<1>1. inbox \in Seq(InboxPacket)
  BY DEF TypeOK, InboxPacket
<1>2. Head(inbox) = inbox[1] /\ 1 \in DOMAIN inbox /\ Head(inbox) \in InboxPacket
  BY <1>1
<1>3. Tail(inbox) \in Seq(InboxPacket)
  BY <1>1
<1>4. ASSUME NEW i \in DOMAIN Tail(inbox)
      PROVE  Tail(inbox)[i] = inbox[i + 1] /\ i + 1 \in DOMAIN inbox
  BY <1>1
<1> QED  BY <1>2, <1>3, <1>4 DEF InboxOfThisSession

LEMMA InboxAppend ==
  ASSUME TypeOK, InboxOfThisSession, NEW p \in InboxPacket, p.call \in {0, channel}
  PROVE  /\ Append(inbox, p) \in Seq(InboxPacket)
         /\ \A i \in DOMAIN Append(inbox, p) : Append(inbox, p)[i].call \in {0, channel}
<1>1. inbox \in Seq(InboxPacket)
  BY DEF TypeOK, InboxPacket
<1>2. ASSUME NEW i \in DOMAIN Append(inbox, p)
      PROVE  Append(inbox, p)[i] = p \/ (i \in DOMAIN inbox /\ Append(inbox, p)[i] = inbox[i])
  BY <1>1
<1> QED  BY <1>1, <1>2 DEF InboxOfThisSession

-----------------------------------------------------------------------------
\* Connecting: by a handler, or by the tick.
LEMMA ConnectKeeps ==
  ASSUME Inv, state = "Disconnected", TryConnectSucceeds \/ ConnectFails,
         attempts' \in 0 .. MaxAttempts, reconnectDue' \in BOOLEAN, ack' = ack,
         calls \subseteq {channel},
         \/ phase = "events" /\ phase' = "events"
         \/ phase = "tick" /\ phase' = "pump"
  PROVE  Inv'
<1> USE BoundAssumption DEF NoChannel
<1>1. channel = 0 /\ calls = {} /\ overdue = {} /\ session \in 0 .. MaxSessions /\ ack \in 0 .. MaxSessions
  BY DEF Inv, TypeOK, ChannelSound, Session
<1>2. << >> \in Seq(InboxPacket) /\ DOMAIN << >> = {}
  OBVIOUS
<1>3. CASE ConnectAndAsk
  <2>1. session' = session + 1 /\ channel' = session' /\ calls' = {session'} /\ overdue' = {}
    BY <1>1, <1>3 DEF ConnectAndAsk
  <2>2. session' \in Session
    BY <1>1, <1>3, <2>1 DEF ConnectAndAsk, Session
  <2>3. TypeOK'
    BY <1>1, <1>2, <1>3, <2>1, <2>2 DEF ConnectAndAsk, TypeOK, States, Session, InboxPacket
  <2>4. ChannelSound' /\ Waiting' /\ CallsOfThisSession' /\ AuthenticatedInThisSession'
    BY <1>1, <1>3, <2>1, <2>2 DEF ConnectAndAsk, ChannelSound, Waiting, CallsOfThisSession,
                                 AuthenticatedInThisSession, Session
  <2>5. InboxOfThisSession'
    BY <1>2, <1>3 DEF ConnectAndAsk, InboxOfThisSession
  <2> QED  BY <2>3, <2>4, <2>5 DEF Inv
<1>4. CASE ConnectAndBreak \/ ConnectFails
  <2>1. /\ state' = "Disconnected" /\ channel' = 0 /\ connected' = FALSE /\ asked' = FALSE
        /\ inbox' = << >> /\ calls' = {} /\ overdue' = {}
        /\ session' \in 0 .. MaxSessions
    BY <1>1, <1>4 DEF ConnectAndBreak, ConnectFails, Disconnect, CloseChannel
  <2>2. TypeOK'
    BY <1>1, <1>2, <2>1 DEF TypeOK, States, InboxPacket, Session
  <2>3. ChannelSound' /\ Waiting' /\ CallsOfThisSession' /\ AuthenticatedInThisSession'
    BY <2>1 DEF ChannelSound, Waiting, CallsOfThisSession, AuthenticatedInThisSession
  <2>4. InboxOfThisSession'
    BY <1>2, <2>1 DEF InboxOfThisSession
  <2> QED  BY <2>2, <2>3, <2>4 DEF Inv
<1> QED  BY <1>3, <1>4 DEF TryConnectSucceeds

\* The session ends, and only its own handshake may be left for the pump.
LEMMA DisconnectKeeps ==
  ASSUME Inv, Disconnect, UNCHANGED <<session, reconnectDue, attempts, ack>>,
         calls' \subseteq calls, overdue' \subseteq calls',
         \/ phase' = "pump"
         \/ phase' \in {"events", "recv"} /\ calls' = {}
  PROVE  Inv'
<1> USE BoundAssumption DEF NoChannel
<1>1. /\ state' = "Disconnected" /\ channel' = 0 /\ connected' = FALSE /\ asked' = FALSE
      /\ inbox' = << >>
  BY DEF Disconnect, CloseChannel
<1>2. << >> \in Seq(InboxPacket) /\ DOMAIN << >> = {}
  OBVIOUS
<1>3. TypeOK'
  BY <1>1, <1>2 DEF Inv, TypeOK, States, InboxPacket
<1>4. ChannelSound' /\ Waiting' /\ CallsOfThisSession' /\ AuthenticatedInThisSession'
  BY <1>1 DEF Inv, ChannelSound, Waiting, CallsOfThisSession, AuthenticatedInThisSession
<1>5. InboxOfThisSession'
  BY <1>1, <1>2 DEF InboxOfThisSession
<1> QED  BY <1>3, <1>4, <1>5 DEF Inv

\* Time, and the way of the loop between its phases.
LEMMA PhaseKeeps ==
  ASSUME Inv, UNCHANGED <<state, channel, session, calls, ack, attempts>>,
         phase' \in {"tick", "recv", "pump", "events"},
         phase' = phase \/ calls \subseteq {channel},
         reconnectDue' \in BOOLEAN, connected' \in {connected, FALSE}, asked' \in {asked, FALSE},
         overdue' \subseteq calls,
         inbox' = inbox \/ inbox' = << >>
  PROVE  Inv'
<1>1. << >> \in Seq(InboxPacket) /\ DOMAIN << >> = {}
  OBVIOUS
<1>2. TypeOK'
  BY <1>1 DEF Inv, TypeOK, InboxPacket
<1>3. ChannelSound'
  <2>1. channel = NoChannel => connected' = FALSE /\ asked' = FALSE /\ inbox' = << >>
    BY DEF Inv, TypeOK, ChannelSound
  <2> QED  BY <2>1 DEF Inv, ChannelSound
<1>4. Waiting' /\ CallsOfThisSession' /\ AuthenticatedInThisSession'
  BY DEF Inv, ChannelSound, Waiting, CallsOfThisSession, AuthenticatedInThisSession
<1>5. InboxOfThisSession'
  BY <1>1 DEF Inv, InboxOfThisSession
<1> QED  BY <1>2, <1>3, <1>4, <1>5 DEF Inv

-----------------------------------------------------------------------------
\* A packet is taken: it is of this session, and so is an answer it holds.
LEMMA ReceiveKeeps ==
  ASSUME Inv, NEW p, ReceiveOther(p) \/ ReceiveHandshakeOk(p) \/ ReceiveHandshakeRefused(p)
  PROVE  Inv'
<1> USE BoundAssumption DEF NoChannel
<1>1. /\ phase = "recv" /\ channel # 0 /\ connected /\ inbox # << >> /\ p = Head(inbox)
      /\ UNCHANGED <<phase, session, reconnectDue>>
  BY DEF ReceiveOther, ReceiveHandshakeOk, ReceiveHandshakeRefused, ReceivePacket
<1>2. /\ p.call \in {0, channel} /\ Tail(inbox) \in Seq(InboxPacket)
      /\ \A i \in DOMAIN Tail(inbox) : Tail(inbox)[i].call \in {0, channel}
  BY <1>1, InboxTail DEF Inv
<1>3. calls \subseteq {channel} /\ 0 \notin calls
  BY <1>1 DEF Inv, CallsOfThisSession, TypeOK, Session
<1>4. CASE ReceiveOther(p)
  <2>1. inbox' = Tail(inbox) /\ UNCHANGED <<state, channel, connected, attempts, calls, overdue, asked, ack>>
    BY <1>4 DEF ReceiveOther
  <2>2. TypeOK'
    BY <1>1, <1>2, <2>1 DEF Inv, TypeOK, InboxPacket
  <2> QED  BY <1>1, <1>2, <2>1, <2>2 DEF Inv, ChannelSound, InboxOfThisSession, Waiting,
                                       CallsOfThisSession, AuthenticatedInThisSession
<1>5. CASE ReceiveHandshakeOk(p)
  <2>1. /\ inbox' = Tail(inbox) /\ UNCHANGED <<channel, connected, asked>>
        /\ p.call = channel /\ calls' = {} /\ overdue' = {}
    BY <1>2, <1>3, <1>5 DEF ReceiveHandshakeOk, Remove, Inv, TypeOK
  <2>2. CASE state = "Connected"
    <3>1. state' = "Authenticated" /\ attempts' = 0 /\ ack' = channel
      BY <1>5, <2>1, <2>2 DEF ReceiveHandshakeOk
    <3>2. TypeOK'
      BY <1>1, <1>2, <2>1, <3>1 DEF Inv, TypeOK, InboxPacket, States, Session
    <3> QED  BY <1>1, <1>2, <2>1, <2>2, <3>1, <3>2 DEF Inv, ChannelSound, InboxOfThisSession, Waiting,
                                     CallsOfThisSession, AuthenticatedInThisSession
  <2>3. CASE state # "Connected"
    <3>1. UNCHANGED <<state, attempts, ack>>
      BY <1>5, <2>3 DEF ReceiveHandshakeOk
    <3>2. TypeOK'
      BY <1>1, <1>2, <2>1, <3>1 DEF Inv, TypeOK, InboxPacket
    <3> QED  BY <1>1, <1>2, <2>1, <2>3, <3>1, <3>2 DEF Inv, ChannelSound, InboxOfThisSession, Waiting,
                                     CallsOfThisSession, AuthenticatedInThisSession
  <2> QED  BY <2>2, <2>3
<1>6. CASE ReceiveHandshakeRefused(p)
  <2>1. /\ UNCHANGED <<attempts, ack>>
        /\ p.call = channel /\ calls' = {} /\ overdue' = {}
    BY <1>2, <1>3, <1>6 DEF ReceiveHandshakeRefused, Remove, Inv, TypeOK
  <2>2. CASE state = "Connected"
    BY <1>1, <1>6, <2>1, <2>2, DisconnectKeeps DEF ReceiveHandshakeRefused
  <2>3. CASE state # "Connected"
    <3>1. inbox' = Tail(inbox) /\ UNCHANGED <<state, channel, connected, asked>>
      BY <1>6, <2>3 DEF ReceiveHandshakeRefused
    <3>2. TypeOK'
      BY <1>1, <1>2, <2>1, <3>1 DEF Inv, TypeOK, InboxPacket
    <3> QED  BY <1>1, <1>2, <2>1, <2>3, <3>1, <3>2 DEF Inv, ChannelSound, InboxOfThisSession, Waiting,
                                     CallsOfThisSession, AuthenticatedInThisSession
  <2> QED  BY <2>2, <2>3
<1> QED  BY <1>4, <1>5, <1>6

\* In the pump no call of an earlier session is left, so a handshake that has failed is
\* that of the channel, and the session it closes is its own.
LEMMA PumpRemoves ==
  ASSUME Inv, Pump
  PROVE  /\ calls' \subseteq {channel} /\ calls' \subseteq calls /\ overdue' \subseteq calls'
         /\ state = "Disconnected" => calls' = {}
         /\ Expired # {} /\ state # "Disconnected" => calls' = {} /\ channel \in calls
<1>1. calls' = calls \ Expired /\ overdue' = overdue \ Expired /\ Expired \subseteq calls
  BY DEF Pump, Remove, Expired
<1>2. state = "Disconnected" => Expired = calls
  BY DEF Expired, IsTransportConnected
<1>3. state # "Disconnected" => calls \subseteq {channel}
  BY DEF Inv, CallsOfThisSession
<1>4. overdue \subseteq calls
  BY DEF Inv, TypeOK
<1> QED  BY <1>1, <1>2, <1>3, <1>4

LEMMA PumpKeeps ==
  ASSUME Inv, Pump
  PROVE  Inv'
<1>1. phase = "pump" /\ phase' = "events" /\ UNCHANGED <<session, reconnectDue, attempts, ack>>
  BY DEF Pump
<1>2. CASE Expired # {} /\ state = "Connected"
  <2>1. Disconnect
    BY <1>2 DEF Pump, HandshakeFailed
  <2>2. calls' = {} /\ overdue' \subseteq calls'
    BY <1>2, PumpRemoves
  <2> QED  BY <1>1, <2>1, <2>2, DisconnectKeeps
<1>3. CASE Expired = {} \/ state # "Connected"
  <2>1. UNCHANGED <<state, channel, connected, asked, inbox>>
    BY <1>3 DEF Pump, HandshakeFailed
  <2>2. /\ calls' \subseteq {channel} /\ calls' \subseteq calls /\ overdue' \subseteq calls'
        /\ state = "Connected" => calls' = calls
    <3>1. Expired = {} => calls' = calls
      BY DEF Pump, Remove
    <3> QED  BY <1>3, <3>1, PumpRemoves
  <2>3. TypeOK'
    BY <1>1, <2>1, <2>2 DEF Inv, TypeOK
  <2> QED  BY <1>1, <2>1, <2>2, <2>3 DEF Inv, ChannelSound, InboxOfThisSession, Waiting,
                                       CallsOfThisSession, AuthenticatedInThisSession
<1> QED  BY <1>2, <1>3

\* What the peer sends goes to the channel that it was connected by.
LEMMA PeerKeeps ==
  ASSUME Inv, NEW p \in InboxPacket, p.call \in {0, channel},
         inbox' = Append(inbox, p), channel # NoChannel,
         asked' \in BOOLEAN,
         UNCHANGED <<phase, state, channel, connected, session, reconnectDue, attempts, calls, overdue, ack>>
  PROVE  Inv'
<1>1. /\ Append(inbox, p) \in Seq(InboxPacket)
      /\ \A i \in DOMAIN Append(inbox, p) : Append(inbox, p)[i].call \in {0, channel}
  BY InboxAppend DEF Inv
<1>2. TypeOK'
  BY <1>1 DEF Inv, TypeOK, InboxPacket
<1> QED  BY <1>1, <1>2 DEF Inv, ChannelSound, InboxOfThisSession, Waiting, CallsOfThisSession,
                           AuthenticatedInThisSession

-----------------------------------------------------------------------------
\* Every step keeps the invariant.
LEMMA InvStep == Inv /\ [Next]_vars => Inv'
<1> USE BoundAssumption
<1> SUFFICES ASSUME Inv, [Next]_vars PROVE Inv'
  OBVIOUS
<1>1. /\ calls \subseteq {channel} \/ phase = "pump"
      /\ overdue \subseteq calls /\ attempts \in 0 .. MaxAttempts
      /\ connected \in BOOLEAN /\ asked \in BOOLEAN /\ reconnectDue \in BOOLEAN
      /\ channel = NoChannel => ~ asked /\ ~ connected
      /\ phase \in {"events", "tick", "recv", "pump"}
  BY DEF Inv, CallsOfThisSession, TypeOK, ChannelSound
<1>2. CASE UNCHANGED vars
  BY <1>1, <1>2, PhaseKeeps DEF vars
<1>3. CASE Connect
  BY <1>1, <1>3, ConnectKeeps DEF Connect
<1>4. CASE EndEvents \/ TickWaits \/ TickReceives
  BY <1>1, <1>4, PhaseKeeps DEF EndEvents, TickWaits, TickReceives
<1>5. CASE TickReconnects
  <2>1. attempts' \in 0 .. MaxAttempts
    <3>1. attempts' = IF attempts < MaxAttempts THEN attempts + 1 ELSE attempts
      BY <1>5 DEF TickReconnects
    <3> QED  BY <1>1, <3>1
  <2>2. /\ state = "Disconnected" /\ calls \subseteq {channel} /\ ack' = ack
        /\ phase = "tick" /\ phase' = "pump"
        /\ TryConnectSucceeds \/ ConnectFails
        /\ reconnectDue' \in BOOLEAN
    BY <1>1, <1>5 DEF TickReconnects
  <2> QED  BY <2>1, <2>2, ConnectKeeps
<1>6. CASE Receive
  <2>1. ASSUME NEW p, ReceiveOther(p) \/ ReceiveHandshakeOk(p) \/ ReceiveHandshakeRefused(p)
        PROVE  Inv'
    BY <2>1, ReceiveKeeps
  <2>2. CASE ReceiveEnds
    <3>1. /\ calls \subseteq {channel} /\ phase' = "pump"
          /\ connected' \in {connected, FALSE} /\ asked' \in {asked, FALSE}
          /\ inbox' = inbox
      BY <1>1, <2>2 DEF ReceiveEnds
    <3> QED  BY <1>1, <2>2, <3>1, PhaseKeeps DEF ReceiveEnds
  <2>3. CASE ReceiveFindsClosed
    BY <1>1, <2>3, DisconnectKeeps DEF ReceiveFindsClosed
  <2> QED  BY <1>6, <2>1, <2>2, <2>3 DEF Receive
<1>7. CASE Pump
  BY <1>7, PumpKeeps
<1>8. CASE ReconnectTimerElapses \/ LinkDown
  <2>1. /\ reconnectDue' \in BOOLEAN
        /\ connected' \in {connected, FALSE} /\ asked' \in {asked, FALSE}
        /\ inbox' = inbox \/ inbox' = << >>
        /\ phase' = phase
    BY <1>1, <1>8 DEF ReconnectTimerElapses, LinkDown
  <2>2. UNCHANGED <<state, channel, session, calls, ack, attempts, overdue>>
    BY <1>8 DEF ReconnectTimerElapses, LinkDown
  <2> QED  BY <1>1, <2>1, <2>2, PhaseKeeps
<1>9. CASE PeerSendsData
  <2>1. Data \in InboxPacket /\ Data.call = 0
    BY DEF Data, InboxPacket
  <2>2. channel # NoChannel
    BY <1>1, <1>9 DEF PeerSendsData
  <2> QED  BY <1>1, <1>9, <2>1, <2>2, PeerKeeps DEF PeerSendsData
<1>10. ASSUME NEW n \in calls, DeadlinePasses(n) PROVE Inv'
  BY <1>1, <1>10, PhaseKeeps DEF DeadlinePasses
<1>11. ASSUME NEW a \in HandshakeAnswers, PeerAnswers(a) PROVE Inv'
  <2>1. channel # NoChannel /\ asked' = FALSE
    BY <1>1, <1>11 DEF PeerAnswers
  <2>2. Answer(channel, a) \in InboxPacket /\ Answer(channel, a).call = channel
    BY AnswersAssumption DEF Answer, InboxPacket, Inv, TypeOK, Session, NoChannel
  <2> QED  BY <1>11, <2>1, <2>2, PeerKeeps DEF PeerAnswers
<1> QED  BY <1>2, <1>3, <1>4, <1>5, <1>6, <1>7, <1>8, <1>9, <1>10, <1>11 DEF Next, Frame, Environment

\* The invariant the other results rest on: what the channel, the inbox and the
\* call table hold is of one session.
THEOREM Inductive == Spec => []Inv
  BY InvInit, InvStep, PTL DEF Spec, Safety

\* Every state is well typed.
THEOREM TypeCorrect == Spec => []TypeOK
<1>1. Inv => TypeOK
  BY DEF Inv
<1> QED  BY <1>1, Inductive, PTL

\* MServerConnection is authenticated only by an answer given in its present session,
\* although a connection object keeps its address over reconnects.
THEOREM SessionsAuthenticateThemselves == Spec => []AuthenticatedInThisSession
<1>1. Inv => AuthenticatedInThisSession
  BY DEF Inv
<1> QED  BY <1>1, Inductive, PTL

\* A connection that waits for its handshake always has the call that moves it on.
THEOREM NoConnectionIsHalfOpen == Spec => []NeverHalfOpen
<1>1. Inv => NeverHalfOpen
  BY DEF Inv, Waiting, NeverHalfOpen
<1> QED  BY <1>1, Inductive, PTL

\* No handshake call outlives the frame in which its session ended.
THEOREM HandshakesEndWithTheirSession == Spec => []NoStaleHandshake
<1>1. Inv => NoStaleHandshake
  BY DEF Inv, CallsOfThisSession, NoStaleHandshake
<1> QED  BY <1>1, Inductive, PTL

\* PumpServerCallMaintenance closes a session only for the handshake of that session.
THEOREM OnlyItsOwnFailureCloses == Spec => FailureClosesItsOwnSession
<1>1. Inv /\ [Next]_vars =>
        [phase = "pump" /\ channel # NoChannel /\ channel' = NoChannel => channel \in calls \ calls']_vars
  <2> SUFFICES ASSUME Inv, Next, phase = "pump", channel # NoChannel, channel' = NoChannel
               PROVE  channel \in calls \ calls'
    BY DEF vars
  <2>1. Pump
    BY DEF Next, Connect, Frame, EndEvents, TickWaits, TickReconnects, TickReceives, Receive,
           ReceiveOther, ReceiveHandshakeOk, ReceiveHandshakeRefused, ReceivePacket, ReceiveEnds,
           ReceiveFindsClosed, Environment, ReconnectTimerElapses, PeerSendsData, LinkDown,
           DeadlinePasses, PeerAnswers
  <2>2. Expired # {} /\ state = "Connected"
    BY <2>1 DEF Pump, HandshakeFailed
  <2> QED  BY <2>1, <2>2, PumpRemoves
<1> QED  BY <1>1, InvInit, InvStep, PTL DEF Spec, Safety, FailureClosesItsOwnSession
=============================================================================
