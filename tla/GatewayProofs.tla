--------------------------- MODULE GatewayProofs ---------------------------
(***************************************************************************)
(* For any requests, targets and bounds: a call through the pool loses its *)
(* connection only with its link, and a forwarded request keeps the        *)
(* contract of a call to its client.                                       *)
(***************************************************************************)
EXTENDS Gateway, TLAPS

State == {"none", "Disconnected", "Connected", "Authenticated"}
Kind == {"error", "answer", "disconnected", "timeout"}
Packet == Request \cup {Handshake, Refusal}
Object == [state : State, up : BOOLEAN, atPeer : SUBSET Packet, arriving : SUBSET Packet]

\* The types of the variables.
Types ==
    /\ phase \in {"events", "tick", "pump", "ended"}
    /\ left \subseteq received /\ received \subseteq Request
    /\ sent \in [Request -> Seq(Kind)]
    /\ route \in [Request -> Request \cup {None}]
    /\ table \in [Server -> {"absent", "healthy", "unhealthy"}]
    /\ pool \in [Server -> Request \cup {None}]
    /\ object \in [Request -> Object]
    /\ answered \subseteq Request

\* An object is in the pool for one server, or it is gone; the tick drives what
\* is in the pool, and only the tick changes what it has still to drive.
PoolSound ==
    /\ \A s \in Server : pool[s] # None => pool[s] \in received
    /\ \A s, t \in Server : pool[s] = pool[t] /\ pool[s] # None => s = t
    /\ \A k \in Request : object[k].state # "none" <=> k \in Pooled
    /\ toTick \subseteq Pooled
    /\ phase # "tick" => toTick = {}

\* The entry of a request is there until its envelope is sent.
EntrySound ==
    \A r \in Request :
        /\ r \notin received => route[r] = None /\ sent[r] = << >>
        /\ route[r] # None => sent[r] = << >>
        /\ Len(sent[r]) <= 1

\* A request that is forwarded has a connection that stands, or lost its link.
LinkHistory ==
    \A r \in Request :
        /\ route[r] # None /\ r \notin lost =>
               object[route[r]].state = "Authenticated" /\ object[route[r]].up
        /\ sent[r] = <<"disconnected">> => r \in lost

\* What travels stems from a request that was forwarded, over one connection, and
\* an answer from one that the target answered.
PacketsSound ==
    /\ answered \subseteq Forwarded
    /\ \A k \in Request, x \in Request :
        /\ x \in object[k].atPeer => x \in Forwarded \ answered
        /\ x \in object[k].arriving => x \in answered
        /\ \A j \in Request : x \in object[k].atPeer \cap object[j].atPeer => j = k

Inv == Types /\ PoolSound /\ EntrySound /\ LinkHistory /\ PacketsSound

-----------------------------------------------------------------------------
\* What the objects of the code's states are.
LEMMA ObjectsTyped ==
    /\ NoObject \in Object /\ Asking \in Object /\ Disconnected \in Object
    /\ NoObject.state = "none" /\ NoObject.atPeer = {} /\ NoObject.arriving = {}
    /\ Disconnected.state = "Disconnected" /\ Disconnected.atPeer = {} /\ Disconnected.arriving = {}
    /\ Asking.state = "Connected" /\ Asking.atPeer = {Handshake} /\ Asking.arriving = {}
  BY DEF NoObject, Asking, Disconnected, Object, State, Packet

\* A link that breaks takes along what travels on it, and leaves the state.
LEMMA BrokenTyped ==
  ASSUME NEW o \in Object
  PROVE  /\ Broken(o) \in Object /\ Broken(o).state = o.state
         /\ Broken(o).atPeer = {} /\ Broken(o).arriving = {}
  BY DEF Broken, Object

\* Nothing has happened in the initial state.
LEMMA InvInit == Init => Inv
<1> SUFFICES ASSUME Init PROVE Inv
  OBVIOUS
<1> USE InstanceAssumption
<1>1. object \in [Request -> Object]
  BY ObjectsTyped DEF Init, Connection
<1>2. Types
  BY <1>1 DEF Init, Types
<1>3. PoolSound
  BY ObjectsTyped DEF Init, PoolSound, Pooled, Connection
<1>4. EntrySound /\ LinkHistory /\ PacketsSound
  BY DEF Init, EntrySound, LinkHistory, PacketsSound, Forwarded, NoObject, Connection
<1> QED  BY <1>2, <1>3, <1>4 DEF Inv

\* Where nothing new travels and no request comes or is refused, what travels stays sound.
LEMMA PacketsFrame ==
  ASSUME PacketsSound, Forwarded' = Forwarded, UNCHANGED answered,
         \A j \in Request :
             /\ object'[j].atPeer \subseteq object[j].atPeer
             /\ object'[j].arriving \subseteq object[j].arriving
  PROVE  PacketsSound'
<1>1. answered' \subseteq Forwarded'
  BY DEF PacketsSound
<1>2. ASSUME NEW j \in Request, NEW y \in Request
      PROVE  /\ y \in object'[j].atPeer => y \in Forwarded' \ answered'
             /\ y \in object'[j].arriving => y \in answered'
             /\ \A i \in Request : y \in object'[j].atPeer \cap object'[i].atPeer => i = j
  BY DEF PacketsSound
<1> QED  BY <1>1, <1>2 DEF PacketsSound

\* A step that only takes connections forward keeps the invariant: no object
\* comes or goes, nothing new travels, and a call that is not counted as lost
\* keeps its connection.
LEMMA ObjectFrame ==
  ASSUME Inv, UNCHANGED <<left, received, sent, route, table, pool, answered>>,
         phase' \in {"events", "tick", "pump", "ended"}, toTick' \subseteq Pooled,
         phase' # "tick" => toTick' = {},
         object' \in [Request -> Object], lost \subseteq lost',
         \A k \in Request :
             /\ object'[k].state = "none" <=> object[k].state = "none"
             /\ object'[k].atPeer \subseteq object[k].atPeer
             /\ object'[k].arriving \subseteq object[k].arriving,
         \A r \in Request : route[r] # None /\ r \notin lost' =>
             object'[route[r]].state = object[route[r]].state /\ object'[route[r]].up
  PROVE  Inv'
<1>1. Types'
  BY DEF Inv, Types
<1>2. Pooled' = Pooled
  BY DEF Pooled
<1>3. PoolSound'
  BY <1>2 DEF Inv, PoolSound
<1>4. EntrySound'
  BY DEF Inv, EntrySound
<1>5. LinkHistory'
  BY DEF Inv, LinkHistory
<1>6. Forwarded' = Forwarded
  BY DEF Forwarded
<1>7. PacketsSound'
  BY <1>6, PacketsFrame DEF Inv
<1> QED  BY <1>1, <1>3, <1>4, <1>5, <1>7 DEF Inv

\* Connections that stay as they are for the calls on them, and envelopes of
\* which none is a new "disconnected", keep the history of the links.
LEMMA LinkFrame ==
  ASSUME Inv, UNCHANGED lost,
         \A r \in Request : route'[r] # None => route'[r] = route[r],
         \A r \in Request : sent'[r] = <<"disconnected">> => sent[r] = <<"disconnected">> \/ r \in lost,
         \A j \in Request : object[j].state = "Authenticated" /\ object[j].up =>
             object'[j].state = "Authenticated" /\ object'[j].up
  PROVE  LinkHistory'
<1> SUFFICES ASSUME NEW r \in Request
             PROVE  /\ route'[r] # None /\ r \notin lost =>
                          object'[route'[r]].state = "Authenticated" /\ object'[route'[r]].up
                    /\ sent'[r] = <<"disconnected">> => r \in lost
  BY DEF LinkHistory
<1>1. ASSUME route'[r] # None, r \notin lost
      PROVE  object'[route'[r]].state = "Authenticated" /\ object'[route'[r]].up
  <2>1. route[r] \in Request /\ route'[r] = route[r]
    BY <1>1 DEF Inv, Types
  <2>2. object[route[r]].state = "Authenticated" /\ object[route[r]].up
    BY <1>1, <2>1 DEF Inv, LinkHistory
  <2> QED  BY <1>1, <2>1, <2>2
<1>2. sent'[r] = <<"disconnected">> => r \in lost
  BY DEF Inv, LinkHistory
<1> QED  BY <1>1, <1>2

\* An envelope for a request that has none yet is its only one.
LEMMA SendsOne ==
  ASSUME Types, NEW r \in Request, NEW kind \in Kind, sent[r] = << >>, Send(r, kind)
  PROVE  /\ sent' = IF r \in left THEN sent ELSE [sent EXCEPT ![r] = <<kind>>]
         /\ sent' \in [Request -> Seq(Kind)]
<1>1. Append(sent[r], kind) = <<kind>>
  BY DEF Types
<1>2. <<kind>> \in Seq(Kind)
  OBVIOUS
<1> QED  BY <1>1, <1>2 DEF Send, Types

-----------------------------------------------------------------------------
\* A request that failed at once has its envelope, and is not forwarded.
LEMMA FailsAtOnce ==
  ASSUME Inv, NEW r \in Request, r \notin received, SendClientError(r), UNCHANGED answered,
         received' = received \cup {r}
  PROVE  /\ sent' = [sent EXCEPT ![r] = <<"error">>]
         /\ sent' \in [Request -> Seq(Kind)]
         /\ Forwarded' = Forwarded
<1>1. r \notin left /\ sent[r] = << >>
  BY DEF Inv, Types, EntrySound
<1>2. "error" \in Kind
  BY DEF Kind
<1>3. sent' = [sent EXCEPT ![r] = <<"error">>] /\ sent' \in [Request -> Seq(Kind)]
  BY <1>1, <1>2, SendsOne DEF SendClientError, Inv
<1>4. Forwarded' = Forwarded
  BY <1>3 DEF Forwarded, Inv, Types
<1> QED  BY <1>3, <1>4

\* A connection that a request makes takes the place of one no call depends on.
LEMMA ConnectsKeeps ==
  ASSUME Inv, NEW r \in Request, r \notin received, NEW s \in Server,
         pool[s] = None \/ ~ IsConnected(pool[s]),
         NoTarget(r, s), received' = received \cup {r},
         phase = "events", UNCHANGED <<phase, toTick, left, table, answered>>
  PROVE  Inv'
<1> USE InstanceAssumption DEF Connection
<1>1. /\ sent' = [sent EXCEPT ![r] = <<"error">>] /\ sent' \in [Request -> Seq(Kind)]
      /\ Forwarded' = Forwarded
  BY FailsAtOnce DEF NoTarget
<1>2. EntrySound'
  BY <1>1 DEF NoTarget, Inv, EntrySound, Types
<1>3. <<"error">> # <<"disconnected">>
  OBVIOUS
<1>4. CASE UNCHANGED connections
  <2>1. Types'
    BY <1>1, <1>4 DEF NoTarget, Inv, Types, connections
  <2>2. PoolSound'
    <3>1. pool' = pool /\ object' = object /\ Pooled' = Pooled
      BY <1>4 DEF connections, Pooled
    <3> QED  BY <3>1 DEF Inv, PoolSound
  <2>3. LinkHistory'
    BY <1>1, <1>3, <1>4 DEF NoTarget, Inv, LinkHistory, Types, connections
  <2>4. PacketsSound'
    BY <1>1, <1>4 DEF Inv, PacketsSound, connections
  <2> QED  BY <1>2, <2>1, <2>2, <2>3, <2>4 DEF Inv
<1>5. ASSUME NEW made \in {Asking, Disconnected}, Connects(r, s, made) PROVE Inv'
  <2>1. /\ made \in Object /\ made.state # "none" /\ made.arriving = {}
        /\ made.atPeer \subseteq {Handshake}
    BY ObjectsTyped
  <2>2. NoObject \in Object /\ NoObject.state = "none" /\ NoObject.atPeer = {} /\ NoObject.arriving = {}
    BY ObjectsTyped
  <2>3. /\ pool' = [pool EXCEPT ![s] = r]
        /\ object' = [k \in Request |-> IF k = r THEN made ELSE IF k = pool[s] THEN NoObject ELSE object[k]]
    BY <1>5 DEF Connects
  <2>4. Types'
    BY <1>1, <2>1, <2>2, <2>3 DEF NoTarget, Inv, Types
  <2>5. PoolSound'
    <3>1. Pooled' = (Pooled \ {pool[s]}) \cup {r}
      BY <2>3 DEF Inv, Types, PoolSound, Pooled
    <3>2. \A t \in Server : pool'[t] # None => pool'[t] \in received'
      BY <2>3 DEF Inv, Types, PoolSound
    <3>3. \A t, u \in Server : pool'[t] = pool'[u] /\ pool'[t] # None => t = u
      BY <2>3 DEF Inv, Types, PoolSound
    <3>4. \A k \in Request : object'[k].state # "none" <=> k \in Pooled'
      BY <2>1, <2>2, <2>3, <3>1 DEF Inv, PoolSound
    <3>5. toTick = {}
      BY DEF Inv, PoolSound
    <3> QED  BY <3>2, <3>3, <3>4, <3>5 DEF PoolSound
  <2>6. LinkHistory'
    <3>1. \A q \in Request : route[q] # None /\ q \notin lost => route[q] # r /\ route[q] # pool[s]
      <4>1. object[r].state = "none"
        BY DEF Inv, PoolSound, Pooled
      <4> QED  BY <4>1 DEF Inv, Types, LinkHistory, IsConnected
    <3> QED  BY <1>1, <1>3, <2>3, <3>1 DEF NoTarget, Inv, Types, LinkHistory
  <2>7. PacketsSound'
    <3>1. \A k \in Request : object'[k].atPeer \cap Request \subseteq object[k].atPeer
                             /\ object'[k].arriving \subseteq object[k].arriving
      BY <2>1, <2>2, <2>3
    <3> QED  BY <1>1, <3>1 DEF Inv, PacketsSound
  <2> QED  BY <1>2, <2>4, <2>5, <2>6, <2>7 DEF Inv
<1> QED  BY <1>4, <1>5 DEF NoTarget

\* A request that cannot be sent leaves no entry, whatever becomes of the link.
LEMMA NotSentKeeps ==
  ASSUME Inv, NEW r \in Request, r \notin received, NEW k \in Request,
         NotSent(r, k), received' = received \cup {r},
         \/ UNCHANGED <<object, lost>>
         \/ object' = [object EXCEPT ![k] = Broken(@)] /\ lost' = lost \cup ForwardedOn(k),
         UNCHANGED <<phase, toTick, left, table, pool, answered>>
  PROVE  Inv'
<1>1. /\ sent' = [sent EXCEPT ![r] = <<"error">>] /\ sent' \in [Request -> Seq(Kind)]
      /\ Forwarded' = Forwarded /\ route' = route
  BY FailsAtOnce DEF NotSent
<1>2. <<"error">> # <<"disconnected">>
  OBVIOUS
<1>3. EntrySound'
  BY <1>1 DEF Inv, EntrySound, Types
<1>4. /\ object' \in [Request -> Object]
      /\ \A j \in Request :
           /\ object'[j].state = object[j].state
           /\ object'[j].atPeer \subseteq object[j].atPeer
           /\ object'[j].arriving \subseteq object[j].arriving
           /\ j # k \/ object' = object => object'[j].up = object[j].up
  <2>1. object[k] \in Object /\ object \in [Request -> Object]
    BY DEF Inv, Types
  <2>2. CASE object' = object
    BY <2>1, <2>2
  <2>3. CASE object' = [object EXCEPT ![k] = Broken(object[k])]
    BY <2>1, <2>3, BrokenTyped
  <2> QED  BY <2>2, <2>3
<1>5. Types'
  BY <1>1, <1>4 DEF Inv, Types
<1>6. PoolSound'
  <2>1. Pooled' = Pooled
    BY DEF Pooled
  <2> QED  BY <1>4, <2>1 DEF Inv, PoolSound
<1>7. LinkHistory'
  <2>1. lost \subseteq lost' /\ \A q \in Request : route[q] = k /\ q \notin lost' => object' = object
    BY DEF ForwardedOn
  <2>2. ASSUME NEW q \in Request, route'[q] # None, q \notin lost'
        PROVE  object'[route'[q]].state = "Authenticated" /\ object'[route'[q]].up
    <3>1. route[q] \in Request /\ route'[q] = route[q] /\ q \notin lost
      BY <1>1, <2>1, <2>2 DEF Inv, Types
    <3>2. object[route[q]].state = "Authenticated" /\ object[route[q]].up
      BY <3>1, InstanceAssumption DEF Inv, LinkHistory
    <3> QED  BY <1>4, <2>1, <2>2, <3>1, <3>2
  <2>3. ASSUME NEW q \in Request, sent'[q] = <<"disconnected">> PROVE q \in lost'
    BY <1>1, <1>2, <2>1, <2>3 DEF Inv, Types, LinkHistory
  <2> QED  BY <2>2, <2>3 DEF LinkHistory
<1>8. PacketsSound'
  BY <1>1, <1>4 DEF Inv, PacketsSound
<1> QED  BY <1>3, <1>5, <1>6, <1>7, <1>8 DEF Inv

\* A request that goes out has an entry, and a connection that stands.
LEMMA ForwardsKeeps ==
  ASSUME Inv, NEW r \in Request, r \notin received, NEW s \in Server,
         pool[s] # None, IsConnected(pool[s]),
         Forwards(r, pool[s]), received' = received \cup {r},
         UNCHANGED <<phase, toTick, left, table, answered>>
  PROVE  Inv'
<1> DEFINE k == pool[s]
<1>1. k \in Request
  BY DEF Inv, Types
<1>2. CASE /\ object[k].up
           /\ route' = [route EXCEPT ![r] = k]
           /\ object' = [object EXCEPT ![k].atPeer = @ \cup {r}]
           /\ UNCHANGED <<sent, lost, pool>>
  <2>1. /\ object' \in [Request -> Object]
        /\ \A j \in Request :
             /\ object'[j].state = object[j].state
             /\ object'[j].up = object[j].up
             /\ object'[j].arriving = object[j].arriving
             /\ object'[j].atPeer = IF j = k THEN object[j].atPeer \cup {r} ELSE object[j].atPeer
    BY <1>1, <1>2 DEF Inv, Types, Object, Packet
  <2>2. r \notin Forwarded /\ sent[r] = << >> /\ << >> # <<"error">>
    BY DEF Forwarded, Inv, EntrySound
  <2>3. Forwarded' = Forwarded \cup {r}
    BY <1>2, <2>2 DEF Forwarded
  <2>4. Types'
    BY <1>1, <1>2, <2>1, <2>3 DEF Inv, Types
  <2>5. PoolSound'
    <3>1. Pooled' = Pooled
      BY <1>2 DEF Pooled
    <3> QED  BY <1>2, <2>1, <3>1 DEF Inv, PoolSound
  <2>6. EntrySound'
    BY <1>1, <1>2, <2>2 DEF Inv, EntrySound, Types
  <2>7. LinkHistory'
    BY <1>1, <1>2, <2>1 DEF Inv, LinkHistory, Types, IsConnected
  <2>8. PacketsSound'
    BY <1>1, <1>2, <2>1, <2>2, <2>3 DEF Inv, PacketsSound
  <2> QED  BY <2>4, <2>5, <2>6, <2>7, <2>8 DEF Inv
<1>3. CASE NotSent(r, k) /\ UNCHANGED <<object, lost, pool>>
  BY <1>1, <1>3, NotSentKeeps
<1>4. CASE /\ NotSent(r, k) /\ UNCHANGED pool
           /\ object' = [object EXCEPT ![k] = Broken(@)]
           /\ lost' = lost \cup ForwardedOn(k)
  BY <1>1, <1>4, NotSentKeeps
<1> QED  BY <1>2, <1>3, <1>4 DEF Forwards

\* The packet of a client keeps the invariant, whatever becomes of it.
LEMMA HandleClientPacketKeeps ==
  ASSUME Inv, NEW r \in Request, NEW t \in Type, HandleClientPacket(r, t)
  PROVE  Inv'
<1>1. /\ phase = "events" /\ r \notin received /\ received' = received \cup {r}
      /\ UNCHANGED <<phase, toTick, left, table, answered>>
  BY DEF HandleClientPacket, discovery
<1>2. CASE SendClientError(r) /\ UNCHANGED <<route, connections, lost, faults>>
  <2>1. /\ sent' = [sent EXCEPT ![r] = <<"error">>] /\ sent' \in [Request -> Seq(Kind)]
        /\ Forwarded' = Forwarded
    BY <1>1, <1>2, FailsAtOnce
  <2>2. <<"error">> # <<"disconnected">>
    OBVIOUS
  <2>3. pool' = pool /\ object' = object /\ Pooled' = Pooled
    BY <1>2 DEF connections, Pooled
  <2>4. Types' /\ EntrySound'
    BY <1>1, <1>2, <2>1, <2>3 DEF Inv, Types, EntrySound
  <2>5. PoolSound'
    BY <1>1, <2>3 DEF Inv, PoolSound
  <2>6. LinkHistory'
    BY <1>2, <2>1, <2>2, <2>3 DEF Inv, LinkHistory, Types
  <2>7. PacketsSound'
    BY <1>1, <2>1, <2>3 DEF Inv, PacketsSound
  <2> QED  BY <2>4, <2>5, <2>6, <2>7 DEF Inv
<1>3. ASSUME NEW s \in Server, pool[s] # None, IsConnected(pool[s]), Forwards(r, pool[s])
      PROVE  Inv'
  BY <1>1, <1>3, ForwardsKeeps
<1>4. ASSUME NEW s \in Server, pool[s] = None \/ ~ IsConnected(pool[s]), NoTarget(r, s)
      PROVE  Inv'
  BY <1>1, <1>4, ConnectsKeeps
<1> QED  BY <1>2, <1>3, <1>4 DEF HandleClientPacket, Selectable

\* A client that leaves takes nothing with it.
LEMMA ClientLeavesKeeps ==
  ASSUME Inv, NEW r \in Request, ClientLeaves(r)
  PROVE  Inv'
<1>1. Types' /\ EntrySound' /\ LinkHistory'
  BY DEF ClientLeaves, Inv, Types, EntrySound, LinkHistory, discovery, connections, history
<1>2. pool' = pool /\ object' = object /\ Pooled' = Pooled /\ Forwarded' = Forwarded
  BY DEF ClientLeaves, connections, Pooled, Forwarded
<1>3. PoolSound' /\ PacketsSound'
  BY <1>2 DEF ClientLeaves, Inv, PoolSound, PacketsSound, history
<1> QED  BY <1>1, <1>3 DEF Inv

\* A snapshot takes away only connections no call depends on.
LEMMA OnEndpointChangeKeeps ==
  ASSUME Inv, NEW t \in Type, OnEndpointChange(t)
  PROVE  Inv'
<1> USE InstanceAssumption DEF Connection
<1>1. PICK listed \in [{s \in Server : TypeOf[s] = t} -> {"absent", "healthy", "unhealthy"}] :
        LET gone == Purged({s \in DOMAIN listed : listed[s] # "absent"}) IN
        /\ table' = [s \in Server |-> IF s \in DOMAIN listed THEN listed[s] ELSE table[s]]
        /\ pool' = [s \in Server |-> IF s \in gone THEN None ELSE pool[s]]
        /\ object' = [k \in Request |->
               IF \E s \in gone : pool[s] = k THEN NoObject ELSE object[k]]
  BY DEF OnEndpointChange
<1> DEFINE gone == Purged({s \in DOMAIN listed : listed[s] # "absent"})
<1>2. /\ UNCHANGED <<phase, toTick, left, received, sent, route, answered, lost>>
      /\ phase = "events" /\ toTick = {}
  BY DEF OnEndpointChange, client, history, Inv, PoolSound
<1>3. \A s \in gone : s \in Server /\ pool[s] # None /\ ~ IsConnected(pool[s])
  BY DEF Purged
<1> HIDE DEF gone
<1>4. /\ pool' = [s \in Server |-> IF s \in gone THEN None ELSE pool[s]]
      /\ object' = [k \in Request |-> IF \E s \in gone : pool[s] = k THEN NoObject ELSE object[k]]
  BY <1>1 DEF gone
<1>5. Types'
  <2>1. table' \in [Server -> {"absent", "healthy", "unhealthy"}]
    BY <1>1 DEF Inv, Types
  <2> QED  BY <1>2, <1>4, <2>1, ObjectsTyped DEF Inv, Types
<1>6. PoolSound'
  <2>1. \A s \in Server : pool'[s] # None => pool'[s] = pool[s]
    BY <1>4
  <2>2. ASSUME NEW k \in Request PROVE object'[k].state # "none" <=> k \in Pooled'
    <3>1. CASE \E s \in gone : pool[s] = k
      <4>1. k \notin Pooled'
        BY <1>3, <1>4, <3>1 DEF Inv, PoolSound, Pooled
      <4> QED  BY <1>4, <3>1, <4>1, ObjectsTyped
    <3>2. CASE ~ \E s \in gone : pool[s] = k
      <4>1. k \in Pooled' <=> k \in Pooled
        BY <1>4, <3>2 DEF Pooled
      <4> QED  BY <1>4, <3>2, <4>1 DEF Inv, PoolSound
    <3> QED  BY <3>1, <3>2
  <2> QED  BY <1>2, <2>1, <2>2 DEF Inv, PoolSound
<1>7. EntrySound'
  BY <1>2 DEF Inv, EntrySound
<1>8. LinkHistory'
  <2>1. ASSUME NEW q \in Request, route[q] # None, q \notin lost
        PROVE  object'[route[q]] = object[route[q]]
    BY <1>3, <1>4, <2>1 DEF Inv, LinkHistory, Types, IsConnected
  <2> QED  BY <1>2, <2>1 DEF Inv, LinkHistory
<1>9. PacketsSound'
  <2>1. Forwarded' = Forwarded
    BY <1>2 DEF Forwarded
  <2>2. \A k \in Request : object'[k].atPeer \subseteq object[k].atPeer
                           /\ object'[k].arriving \subseteq object[k].arriving
    BY <1>4, ObjectsTyped
  <2> QED  BY <1>2, <2>1, <2>2 DEF Inv, PacketsSound
<1> QED  BY <1>5, <1>6, <1>7, <1>8, <1>9 DEF Inv

\* What the tick leaves of a connection keeps the invariant, if its session ends
\* only with its socket.
LEMMA TickedKeeps ==
  ASSUME Inv, NEW k \in Request, NEW o \in Object, Ticked(k, o), o.state # "none",
         o.atPeer \subseteq object[k].atPeer \/ o = Asking, o.arriving \subseteq object[k].arriving,
         \/ o.state = object[k].state /\ o.up = object[k].up
         \/ object[k].state # "Authenticated"
         \/ ~ object[k].up
  PROVE  Inv'
<1> USE InstanceAssumption DEF Connection
<1>1. /\ phase = "tick" /\ k \in toTick /\ toTick' = toTick \ {k}
      /\ object' = [object EXCEPT ![k] = o]
      /\ UNCHANGED <<phase, left, received, sent, route, table, pool, answered, lost>>
  BY DEF Ticked, client, discovery, history
<1>2. /\ object' \in [Request -> Object] /\ toTick' \subseteq Pooled
      /\ \A j \in Request : object'[j].arriving \subseteq object[j].arriving
      /\ \A j \in Request : object'[j].atPeer \cap Request \subseteq object[j].atPeer
      /\ \A j \in Request : object'[j].state = "none" <=> object[j].state = "none"
  BY <1>1, ObjectsTyped DEF Inv, Types, PoolSound
<1>3. Types'
  BY <1>1, <1>2 DEF Inv, Types
<1>4. Pooled' = Pooled /\ Forwarded' = Forwarded
  BY <1>1 DEF Pooled, Forwarded
<1>5. PoolSound'
  BY <1>1, <1>2, <1>4 DEF Inv, PoolSound
<1>6. EntrySound'
  BY <1>1 DEF Inv, EntrySound
<1>7. LinkHistory'
  BY <1>1 DEF Inv, Types, LinkHistory
<1>8. PacketsSound'
  BY <1>1, <1>2, <1>4 DEF Inv, PacketsSound
<1> QED  BY <1>3, <1>5, <1>6, <1>7, <1>8 DEF Inv

\* The tick of a connection keeps the invariant when nothing has arrived on it.
LEMMA DriveKeeps ==
  ASSUME Inv, NEW k \in Request, TickWaits(k) \/ TickReconnects(k) \/ EndReceive(k)
  PROVE  Inv'
<1>1. object[k] \in Object
  BY DEF Inv, Types
<1>2. CASE TickWaits(k)
  BY <1>1, <1>2, TickedKeeps DEF TickWaits
<1>3. CASE TickReconnects(k)
  BY <1>1, <1>3, ObjectsTyped, TickedKeeps DEF TickReconnects
<1>4. CASE EndReceive(k)
  <2>1. CASE object[k].up
    BY <1>1, <1>4, <2>1, TickedKeeps DEF EndReceive, AfterRead
  <2>2. CASE ~ object[k].up
    BY <1>1, <1>4, <2>2, ObjectsTyped, TickedKeeps DEF EndReceive, AfterRead
  <2> QED  BY <2>1, <2>2
<1> QED  BY <1>2, <1>3, <1>4

\* An answer that is read gives the envelope to its request, if it still waits.
LEMMA ReceiveKeeps ==
  ASSUME Inv, NEW k \in Request, NEW x \in Packet, Receive(k, x)
  PROVE  Inv'
<1> USE InstanceAssumption DEF Connection
<1>1. /\ phase = "tick" /\ x \in object[k].arriving /\ x # Refusal
      /\ UNCHANGED <<phase, toTick, left, received, table, pool, answered, lost>>
  BY DEF Receive, discovery, history
<1>2. object[k] \in Object /\ object \in [Request -> Object]
  BY DEF Inv, Types
<1>3. /\ object' \in [Request -> Object]
      /\ \A j \in Request :
           /\ object'[j].state = "none" => object[j].state = "none"
           /\ object[j].state = "Authenticated" => object'[j].state = "Authenticated"
           /\ object'[j].up = object[j].up
           /\ object'[j].atPeer = object[j].atPeer
           /\ object'[j].arriving \subseteq object[j].arriving
           /\ j # k => object'[j] = object[j]
  BY <1>2 DEF Receive, Object, State
<1>4. Pooled' = Pooled
  BY <1>1 DEF Pooled
<1>5. PoolSound'
  <2>1. k \in Pooled
    BY DEF Receive, Inv, PoolSound
  <2> QED  BY <1>1, <1>3, <1>4, <2>1 DEF Inv, PoolSound
<1>6. CASE UNCHANGED <<sent, route>>
  <2>1. Types' /\ EntrySound'
    BY <1>1, <1>3, <1>6 DEF Inv, Types, EntrySound
  <2>2. LinkHistory'
    BY <1>1, <1>3, <1>6, LinkFrame
  <2>3. Forwarded' = Forwarded
    BY <1>1, <1>6 DEF Forwarded
  <2>4. PacketsSound'
    BY <1>1, <1>3, <2>3, PacketsFrame DEF Inv
  <2> QED  BY <1>5, <2>1, <2>2, <2>4 DEF Inv
<1>7. CASE x \in Request /\ route[x] = k /\ Send(x, "answer") /\ route' = [route EXCEPT ![x] = None]
  <2>1. sent[x] = << >>
    BY <1>7 DEF Inv, EntrySound
  <2>2. /\ sent' = IF x \in left THEN sent ELSE [sent EXCEPT ![x] = <<"answer">>]
        /\ sent' \in [Request -> Seq(Kind)]
    BY <1>7, <2>1, SendsOne DEF Inv, Kind
  <2>3. <<"answer">> # <<"disconnected">> /\ <<"answer">> # <<"error">> /\ << >> # <<"error">>
    OBVIOUS
  <2>4. Types'
    BY <1>1, <1>3, <1>7, <2>2 DEF Inv, Types
  <2>5. EntrySound'
    BY <1>1, <1>7, <2>2 DEF Inv, EntrySound, Types
  <2>6. LinkHistory'
    BY <1>1, <1>3, <1>7, <2>2, <2>3, LinkFrame DEF Inv, Types
  <2>7. Forwarded' = Forwarded
    BY <1>1, <2>1, <2>2, <2>3 DEF Forwarded, Inv, Types
  <2>8. PacketsSound'
    BY <1>1, <1>3, <2>7, PacketsFrame DEF Inv
  <2> QED  BY <1>5, <2>4, <2>5, <2>6, <2>8 DEF Inv
<1> QED  BY <1>6, <1>7 DEF Receive

\* A handshake that is refused ends the process, and takes no call along: the
\* connection was not authenticated yet.
LEMMA RefusalKeeps ==
  ASSUME Inv, NEW k \in Request, ReceiveRefusal(k)
  PROVE  Inv'
<1> USE DEF Connection
<1>1. /\ phase' = "ended" /\ toTick' = {}
      /\ object' = [object EXCEPT ![k] = Disconnected]
      /\ UNCHANGED <<left, received, sent, route, table, pool, answered, lost>>
  BY DEF ReceiveRefusal, client, discovery, history
<1>2. \A r \in Request : route[r] # None /\ r \notin lost =>
        route[r] # k /\ object[route[r]].state = "Authenticated" /\ object[route[r]].up
  BY DEF ReceiveRefusal, Inv, LinkHistory
<1>3. object \in [Request -> Object] /\ object[k].state = "Connected"
  BY DEF ReceiveRefusal, Inv, Types
<1>4. /\ object' \in [Request -> Object]
      /\ \A j \in Request :
           /\ object'[j].state = "none" <=> object[j].state = "none"
           /\ object'[j].atPeer \subseteq object[j].atPeer
           /\ object'[j].arriving \subseteq object[j].arriving
  BY <1>1, <1>3, ObjectsTyped
<1>5. \A r \in Request : route[r] # None /\ r \notin lost' =>
        object'[route[r]].state = object[route[r]].state /\ object'[route[r]].up
  BY <1>1, <1>2, <1>3 DEF Inv, Types
<1> QED  BY <1>1, <1>4, <1>5, ObjectFrame

\* The pump gives up a request as disconnected only when its link is lost.
LEMMA PumpExpiresKeeps ==
  ASSUME Inv, NEW r \in Request, PumpExpires(r)
  PROVE  Inv'
<1> USE InstanceAssumption DEF Connection
<1>1. /\ phase = "pump" /\ route[r] # None /\ sent[r] = << >> /\ route' = [route EXCEPT ![r] = None]
      /\ UNCHANGED <<phase, toTick, left, received, table, pool, object, answered, lost>>
  BY DEF PumpExpires, discovery, connections, history, Inv, EntrySound
<1> DEFINE kind == ExpiryOf(r)
<1>2. /\ kind \in {"disconnected", "timeout"} /\ kind \in Kind
      /\ kind = "disconnected" => r \in lost
  BY <1>1 DEF ExpiryOf, IsTransportConnected, Kind, Inv, LinkHistory
<1>3. Send(r, kind)
  BY DEF PumpExpires
<1> HIDE DEF kind
<1>4. /\ sent' = IF r \in left THEN sent ELSE [sent EXCEPT ![r] = <<kind>>]
      /\ sent' \in [Request -> Seq(Kind)]
  BY <1>1, <1>2, <1>3, SendsOne DEF Inv
<1>5. /\ <<kind>> = <<"disconnected">> => kind = "disconnected"
      /\ <<kind>> # <<"error">> /\ << >> # <<"error">>
  BY <1>2
<1>6. Types' /\ EntrySound'
  BY <1>1, <1>4 DEF Inv, Types, EntrySound
<1>7. LinkHistory'
  BY <1>1, <1>2, <1>4, <1>5 DEF Inv, LinkHistory, Types
<1>8. Forwarded' = Forwarded /\ Pooled' = Pooled
  BY <1>1, <1>4, <1>5 DEF Forwarded, Pooled, Inv, Types
<1>9. PoolSound' /\ PacketsSound'
  BY <1>1, <1>8 DEF Inv, PoolSound, PacketsSound
<1> QED  BY <1>6, <1>7, <1>9 DEF Inv

\* An answer of the target stems from what it was asked.
LEMMA PeerAnswersKeeps ==
  ASSUME Inv, NEW k \in Request, NEW x \in Packet, PeerAnswers(k, x)
  PROVE  Inv'
<1> USE InstanceAssumption
<1> DEFINE y0 == AnswerTo(k, x)
<1>0. y0 \in Packet /\ (y0 \in Request => y0 = x)
  BY DEF AnswerTo, Packet
<1>1. /\ x \in object[k].atPeer
      /\ answered' = answered \cup ({x} \cap Request)
      /\ UNCHANGED <<phase, toTick, left, received, sent, route, table, pool, lost>>
  BY DEF PeerAnswers, client, discovery
<1>2. object[k] \in Object /\ object \in [Request -> Object]
  BY DEF Inv, Types
<1>3. /\ object' \in [Request -> Object]
      /\ \A j \in Request :
           /\ object'[j].state = object[j].state
           /\ object'[j].up = object[j].up
           /\ object'[j].atPeer = IF j = k THEN object[j].atPeer \ {x} ELSE object[j].atPeer
           /\ object'[j].arriving = IF j = k THEN object[j].arriving \cup {y0} ELSE object[j].arriving
  BY <1>0, <1>2 DEF PeerAnswers, Object
<1> HIDE DEF y0
<1>4. Pooled' = Pooled /\ Forwarded' = Forwarded
  BY <1>1 DEF Pooled, Forwarded
<1>5. Types'
  BY <1>1, <1>3 DEF Inv, Types, Packet
<1>6. PoolSound' /\ EntrySound'
  BY <1>1, <1>3, <1>4 DEF Inv, PoolSound, EntrySound
<1>7. LinkHistory'
  BY <1>1, <1>3, LinkFrame DEF PeerAnswers, client
<1>8. PacketsSound'
  <2>1. x \in Request => x \in Forwarded
    BY <1>1 DEF Inv, PacketsSound
  <2>2. answered' \subseteq Forwarded
    BY <1>1, <2>1 DEF Inv, PacketsSound
  <2>3. ASSUME NEW j \in Request, NEW y \in Request
        PROVE  /\ y \in object'[j].atPeer => y \in Forwarded \ answered'
               /\ y \in object'[j].arriving => y \in answered'
               /\ \A i \in Request : y \in object'[j].atPeer \cap object'[i].atPeer => i = j
    <3>1. \A i \in Request : y \in object'[i].atPeer => y \in object[i].atPeer
      BY <1>3
    <3>2. \A i \in Request : y \in object'[j].atPeer \cap object'[i].atPeer => i = j
      BY <3>1 DEF Inv, PacketsSound
    <3>3. y \in object'[j].atPeer => y # x
      <4>1. CASE j = k
        BY <1>3, <4>1
      <4>2. CASE j # k
        <5>1. ASSUME y = x, y \in object'[j].atPeer PROVE FALSE
          BY <1>1, <3>1, <4>2, <5>1 DEF Inv, PacketsSound
        <5> QED  BY <5>1
      <4> QED  BY <4>1, <4>2
    <3>4. y \in object'[j].atPeer => y \in Forwarded \ answered'
      BY <1>1, <3>1, <3>3 DEF Inv, PacketsSound
    <3>5. y \in object'[j].arriving => y \in object[j].arriving \/ y = x
      BY <1>0, <1>3
    <3>6. y \in object[j].arriving => y \in answered
      BY DEF Inv, PacketsSound
    <3>7. y \in object'[j].arriving => y \in answered'
      BY <1>1, <3>5, <3>6
    <3> QED  BY <3>2, <3>4, <3>7
  <2> QED  BY <1>4, <2>2, <2>3 DEF PacketsSound
<1> QED  BY <1>5, <1>6, <1>7, <1>8 DEF Inv

\* The other steps leave the calls and the packets alone, or break a link.
LEMMA FrameStepsKeep ==
  ASSUME Inv,
         \/ OnRegistryDisconnected \/ BeginTick \/ TickUnconnected \/ TryConnectRegistry
         \/ EndTick \/ EndPump
         \/ \E k \in Request : HandshakeTimesOut(k) \/ LinkDown(k)
         \/ UNCHANGED vars
  PROVE  Inv'
<1> USE DEF Connection
<1>1. object \in [Request -> Object] /\ phase \in {"events", "tick", "pump", "ended"}
  BY DEF Inv, Types
<1>2. \A r \in Request : route[r] # None /\ r \notin lost =>
        route[r] \in Request /\ object[route[r]].state = "Authenticated" /\ object[route[r]].up
  BY DEF Inv, Types, LinkHistory
<1>3. toTick \subseteq Pooled /\ (phase # "tick" => toTick = {})
  BY DEF Inv, PoolSound
<1>4. CASE OnRegistryDisconnected \/ BeginTick \/ TickUnconnected \/ TryConnectRegistry \/ EndTick
           \/ UNCHANGED vars
  BY <1>1, <1>2, <1>3, <1>4, ObjectFrame
     DEF OnRegistryDisconnected, BeginTick, TickUnconnected, TryConnectRegistry, EndTick,
         vars, client, discovery, connections, history
<1>5. CASE EndPump
  BY <1>1, <1>2, <1>3, <1>5, ObjectFrame, ObjectsTyped DEF EndPump, client, discovery, history
<1>6. ASSUME NEW k \in Request, HandshakeTimesOut(k) PROVE Inv'
  BY <1>1, <1>2, <1>3, <1>6, ObjectFrame, ObjectsTyped DEF HandshakeTimesOut, client, discovery, history
<1>7. ASSUME NEW k \in Request, LinkDown(k) PROVE Inv'
  <2>1. /\ object' = [object EXCEPT ![k] = Broken(object[k])]
        /\ \A r \in Request : r \notin lost' => r \notin lost /\ route[r] # k
        /\ lost \subseteq lost'
    BY <1>7 DEF LinkDown, ForwardedOn
  <2> QED  BY <1>1, <1>2, <1>3, <1>7, <2>1, ObjectFrame, BrokenTyped DEF LinkDown, client, discovery
<1> QED  BY <1>4, <1>5, <1>6, <1>7

\* Every step keeps the invariant.
LEMMA InvStep == Inv /\ [Next]_vars => Inv'
<1> SUFFICES ASSUME Inv, [Next]_vars PROVE Inv'
  OBVIOUS
<1>1. \A k \in Request : object[k].atPeer \subseteq Packet /\ object[k].arriving \subseteq Packet
  BY DEF Inv, Types, Object
<1>2. toTick \subseteq Request
  BY DEF Inv, Types, PoolSound, Pooled
<1> QED
  BY <1>1, <1>2, HandleClientPacketKeeps, ClientLeavesKeeps, OnEndpointChangeKeeps, DriveKeeps,
     ReceiveKeeps, RefusalKeeps, PumpExpiresKeeps, PeerAnswersKeeps, FrameStepsKeep
     DEF Next, Frame, Drive, Connection

\* The invariant that the other theorems rest on: the types, that the pool and its
\* objects agree, that an entry goes with its envelope, that a call keeps its
\* connection until the link is lost, and where packets come from.
THEOREM Inductive == Spec => []Inv
  BY InvInit, InvStep, PTL DEF Spec, Safety

\* Every reachable state is well typed: no request has two envelopes, and the pool
\* and the connection objects agree.
THEOREM TypeCorrect == Spec => []TypeOK
<1>1. Inv => TypeOK
  <2> SUFFICES ASSUME Inv PROVE TypeOK
    OBVIOUS
  <2>1. \A s \in Server : pool[s] # None => pool[s] \in Request /\ object[pool[s]].state # "none"
    BY DEF Inv, Types, PoolSound, Pooled
  <2>2. \A k \in Request :
          /\ object[k].state \in State
          /\ object[k].arriving \cup object[k].atPeer \subseteq Request \cup {Handshake, Refusal}
    BY DEF Inv, Types, Object, Packet
  <2> QED  BY <2>1, <2>2 DEF TypeOK, Inv, Types, PoolSound, EntrySound, Connection, State
<1> QED  BY <1>1, Inductive, PTL

\* No snapshot and no other request ever takes away the connection of a call.
THEOREM CallsKeepTheirConnection == Spec => []DisconnectedMeansLost
<1>1. Inv => DisconnectedMeansLost
  BY DEF Inv, LinkHistory, DisconnectedMeansLost
<1> QED  BY <1>1, Inductive, PTL

-----------------------------------------------------------------------------
(* Refinement: every step of the gateway is a step of CallContract, or none. *)

ClientSees == [r \in Request |-> Seen(r)]

\* Nothing is forwarded yet.
LEMMA ContractInit == Init => Contract!Init
  BY DEF Init, Contract!Init, Forwarded, Seen

\* A step that sends nothing, and in which nobody answers or leaves, is none of
\* the contract.
LEMMA ContractStutters ==
  ASSUME UNCHANGED <<left, received, sent, answered>>
  PROVE  [Contract!Next]_(Contract!cvars)
<1>1. Forwarded' = Forwarded
  BY DEF Forwarded
<1>2. \A r \in Request : Seen(r)' = Seen(r)
  BY <1>1 DEF Seen
<1>3. ClientSees' = ClientSees
  BY <1>2 DEF ClientSees
<1> QED  BY <1>1, <1>3 DEF ClientSees, Contract!cvars

\* The packet of a client makes a call, unless it fails at once.
LEMMA PacketRefines ==
  ASSUME Inv, NEW r \in Request, NEW t \in Type, HandleClientPacket(r, t)
  PROVE  [Contract!Next]_(Contract!cvars)
<1>1. /\ r \notin received /\ received' = received \cup {r} /\ sent[r] = << >>
      /\ UNCHANGED <<left, answered>> /\ r \notin Forwarded
  BY DEF HandleClientPacket, Inv, Types, EntrySound, Forwarded
<1>2. CASE SendClientError(r)
  <2>1. sent' = [sent EXCEPT ![r] = <<"error">>] /\ Forwarded' = Forwarded
    BY <1>1, <1>2, FailsAtOnce
  <2>2. \A q \in Request : Seen(q)' = Seen(q)
    BY <1>1, <2>1 DEF Seen, Inv, Types
  <2>3. ClientSees' = ClientSees
    BY <2>2 DEF ClientSees
  <2> QED  BY <1>1, <2>1, <2>3 DEF ClientSees, Contract!cvars
<1>3. CASE UNCHANGED sent
  <2>1. Forwarded' = Forwarded \cup {r}
    <3>1. << >> # <<"error">>
      OBVIOUS
    <3> QED  BY <1>1, <1>3, <3>1 DEF Forwarded
  <2>2. \A q \in Request : Seen(q)' = Seen(q)
    <3>1. Len(sent[r]) = 0 /\ r \notin left
      BY <1>1 DEF Inv, Types
    <3> QED  BY <1>1, <1>3, <2>1, <3>1 DEF Seen
  <2>3. ClientSees' = ClientSees
    BY <2>2 DEF ClientSees
  <2>4. Contract!Make(r)
    BY <1>1, <2>1, <2>3 DEF ClientSees, Contract!Make
  <2> QED  BY <2>4 DEF Contract!Next
<1> QED  BY <1>2, <1>3 DEF HandleClientPacket, Forwards, NotSent, NoTarget

\* The envelope of a forwarded request settles its call, unless its client left.
LEMMA EnvelopeRefines ==
  ASSUME Inv, NEW r \in Request, NEW kind \in {"answer", "disconnected", "timeout"},
         route[r] # None, Send(r, kind), kind = "answer" => r \in answered,
         UNCHANGED <<left, received, answered>>
  PROVE  [Contract!Next]_(Contract!cvars)
<1>1. sent[r] = << >> /\ r \in received /\ r \in Forwarded
  <2>1. << >> # <<"error">>
    OBVIOUS
  <2> QED  BY <2>1 DEF Inv, EntrySound, Forwarded
<1>2. CASE r \in left
  BY <1>2, ContractStutters DEF Send
<1>3. CASE r \notin left
  <2>1. sent' = [sent EXCEPT ![r] = <<kind>>]
    BY <1>1, <1>3, SendsOne DEF Inv, Kind
  <2>2. Len(<<kind>>) = 1 /\ <<kind>>[1] = kind /\ <<kind>> # << >> /\ <<kind>> # <<"error">>
        /\ Len(<< >>) = 0
    OBVIOUS
  <2>3. Forwarded' = Forwarded
    BY <1>1, <2>1, <2>2 DEF Forwarded, Inv, Types
  <2>4. Seen(r) = "none" /\ Seen(r)' = kind
    BY <1>1, <1>3, <2>1, <2>2, <2>3 DEF Seen, Inv, Types
  <2>5. \A q \in Request : q # r => Seen(q)' = Seen(q)
    BY <2>1, <2>3 DEF Seen, Inv, Types
  <2>6. ClientSees' = [ClientSees EXCEPT ![r] = kind]
    BY <2>4, <2>5 DEF ClientSees
  <2>7. CASE kind = "answer"
    <3>1. Contract!SettleWithAnswer(r)
      BY <2>3, <2>4, <2>6, <2>7 DEF ClientSees, Contract!SettleWithAnswer, Contract!Settled
    <3> QED  BY <3>1 DEF Contract!Next, Contract!Settle
  <2>8. CASE kind # "answer"
    <3>1. Contract!SettleWithFailure(r, kind)
      BY <1>1, <2>3, <2>4, <2>6 DEF ClientSees, Contract!SettleWithFailure, Contract!Settled
    <3>2. kind \in {"disconnected", "timeout", "left"}
      BY <2>8
    <3> QED  BY <3>1, <3>2 DEF Contract!Next, Contract!Settle
  <2> QED  BY <2>7, <2>8
<1> QED  BY <1>2, <1>3

\* A client that leaves gives its call up.
LEMMA LeaveRefines ==
  ASSUME Inv, NEW r \in Request, ClientLeaves(r)
  PROVE  [Contract!Next]_(Contract!cvars)
<1>1. /\ sent[r] = << >> /\ r \in Forwarded /\ r \notin left
      /\ left' = left \cup {r} /\ UNCHANGED <<received, sent, answered>>
  <2>1. << >> # <<"error">>
    OBVIOUS
  <2> QED  BY <2>1 DEF ClientLeaves, Inv, EntrySound, Forwarded, history
<1>2. Forwarded' = Forwarded
  BY <1>1 DEF Forwarded
<1>3. Seen(r) = "none" /\ Seen(r)' = "left"
  BY <1>1, <1>2 DEF Seen
<1>4. \A q \in Request : q # r => Seen(q)' = Seen(q)
  BY <1>1, <1>2 DEF Seen
<1>5. ClientSees' = [ClientSees EXCEPT ![r] = "left"]
  BY <1>3, <1>4 DEF ClientSees
<1>6. Contract!SettleWithFailure(r, "left")
  BY <1>1, <1>2, <1>3, <1>5 DEF ClientSees, Contract!SettleWithFailure, Contract!Settled
<1> QED  BY <1>6 DEF Contract!Next, Contract!Settle

\* The target answers a call that was forwarded, or the handshake.
LEMMA AnswerRefines ==
  ASSUME Inv, NEW k \in Request, NEW x \in Packet, PeerAnswers(k, x)
  PROVE  [Contract!Next]_(Contract!cvars)
<1>1. UNCHANGED <<left, received, sent>> /\ x \in object[k].atPeer
  BY DEF PeerAnswers, client
<1>2. CASE x \notin Request
  <2>1. answered' = answered
    BY <1>2 DEF PeerAnswers
  <2> QED  BY <1>1, <2>1, ContractStutters
<1>3. CASE x \in Request
  <2>1. x \in Request /\ x \in Forwarded \ answered /\ answered' = answered \cup {x}
    BY <1>1, <1>3 DEF PeerAnswers, Inv, PacketsSound
  <2>2. Forwarded' = Forwarded
    BY <1>1 DEF Forwarded
  <2>3. \A q \in Request : Seen(q)' = Seen(q)
    BY <1>1, <2>2 DEF Seen
  <2>4. ClientSees' = ClientSees
    BY <2>3 DEF ClientSees
  <2>5. Contract!Answer(x)
    BY <2>1, <2>2, <2>4 DEF ClientSees, Contract!Answer
  <2> QED  BY <2>1, <2>5 DEF Contract!Next
<1> QED  BY <1>2, <1>3

\* Every step of the gateway is a step of the contract or a stutter.
LEMMA ContractStep == Inv /\ [Next]_vars => [Contract!Next]_(Contract!cvars)
<1> SUFFICES ASSUME Inv, [Next]_vars PROVE [Contract!Next]_(Contract!cvars)
  OBVIOUS
<1> USE InstanceAssumption DEF Connection
<1>1. \A k \in Request : object[k].atPeer \subseteq Packet /\ object[k].arriving \subseteq Packet
  BY DEF Inv, Types, Object
<1>2. toTick \subseteq Request
  BY DEF Inv, Types, PoolSound, Pooled
<1>3. ASSUME NEW k \in Request, NEW x \in Packet, Receive(k, x)
      PROVE  [Contract!Next]_(Contract!cvars)
  <2>1. UNCHANGED <<left, received, answered>> /\ x \in object[k].arriving
    BY <1>3 DEF Receive, history
  <2>2. CASE UNCHANGED <<sent, route>>
    BY <2>1, <2>2, ContractStutters
  <2>3. CASE x \in Request /\ route[x] = k /\ Send(x, "answer")
    <3>1. route[x] # None /\ x \in answered
      BY <2>1, <2>3 DEF Inv, PacketsSound
    <3> QED  BY <2>1, <2>3, <3>1, EnvelopeRefines
  <2> QED  BY <1>3, <2>2, <2>3 DEF Receive
<1>4. ASSUME NEW r \in Request, PumpExpires(r)
      PROVE  [Contract!Next]_(Contract!cvars)
  <2>1. ExpiryOf(r) \in {"disconnected", "timeout"}
    BY DEF ExpiryOf
  <2> DEFINE kind == ExpiryOf(r)
  <2>2. route[r] # None /\ Send(r, kind) /\ UNCHANGED <<left, received, answered>>
    BY <1>4 DEF PumpExpires, history
  <2> HIDE DEF kind
  <2>3. kind \in {"disconnected", "timeout"}
    BY <2>1 DEF kind
  <2> QED  BY <2>2, <2>3, EnvelopeRefines
<1>5. ASSUME NEW t \in Type, OnEndpointChange(t)
      PROVE  [Contract!Next]_(Contract!cvars)
  BY <1>5, ContractStutters DEF OnEndpointChange, client, history
<1>6. ASSUME NEW k \in Request,
             TickWaits(k) \/ TickReconnects(k) \/ EndReceive(k) \/ ReceiveRefusal(k)
      PROVE  [Contract!Next]_(Contract!cvars)
  BY <1>6, ContractStutters DEF TickWaits, TickReconnects, EndReceive, ReceiveRefusal, Ticked, client, history
<1>7. CASE OnRegistryDisconnected \/ BeginTick \/ TickUnconnected \/ TryConnectRegistry \/ EndTick
           \/ EndPump \/ UNCHANGED vars
  BY <1>7, ContractStutters
     DEF OnRegistryDisconnected, BeginTick, TickUnconnected, TryConnectRegistry, EndTick, EndPump,
         vars, client, history
<1>8. ASSUME NEW k \in Request, HandshakeTimesOut(k) \/ LinkDown(k)
      PROVE  [Contract!Next]_(Contract!cvars)
  BY <1>8, ContractStutters DEF HandshakeTimesOut, LinkDown, client, history
<1> QED
  BY <1>1, <1>2, <1>3, <1>4, <1>5, <1>6, <1>7, <1>8, PacketRefines, LeaveRefines, AnswerRefines
     DEF Next, Frame, Drive

\* A forwarded request keeps the contract of a call to its client: it is answered
\* only by its target, and never twice, through every pool, registry and link
\* failure.
THEOREM RefinesContract == Spec => Contract!Safety
  BY Inductive, ContractInit, ContractStep, PTL DEF Spec, Safety, Contract!Safety
=============================================================================
