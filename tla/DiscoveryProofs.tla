--------------------------- MODULE DiscoveryProofs ---------------------------
(***************************************************************************)
(* Service discovery, for any servers and any number of faults: a server   *)
(* makes no more connections than its faults account for, no endpoint is   *)
(* left without a session that takes it away, and a server that has read   *)
(* all it was sent sees what the registry has.                             *)
(***************************************************************************)
EXTENDS Discovery, FiniteSetTheorems, TLAPS

Snapshot == [seq : Nat, table : Table]
Session == [state : {"none", "open", "dead"}, registered : BOOLEAN, named : BOOLEAN]

\* The servers, the registry, and what is between them.
ClientTyped ==
    /\ up \in [Server -> BOOLEAN] /\ dead \in [Server -> BOOLEAN]
    /\ conn \in [Server -> Nat] /\ made \in [Server -> 0 .. MaxFaults + 1]
    /\ \A s \in Server : conn[s] \in {0, made[s]}

CacheTyped == view \in [Server -> Table] /\ lastSeq \in [Server -> Nat] /\ fresh \in [Server -> BOOLEAN]

RegistryTyped ==
    /\ regUp \in BOOLEAN /\ endpoints \in Table /\ silence \in [Server -> 0 .. 2]
    /\ \A s \in Server : endpoints[s] = "absent" => silence[s] = 0
    /\ seq \in Nat /\ session \in [Connection -> Session]

NetworkTyped ==
    /\ live \in [Server -> BOOLEAN]
    /\ toRegistry \in [Connection -> Seq(Packet)] /\ toClient \in [Server -> Seq(Snapshot)]
    /\ faults \in 0 .. MaxFaults

Types == ClientTyped /\ CacheTyped /\ RegistryTyped /\ NetworkTyped

\* Each connection after the first was made for a fault, and a connection that is up
\* has its session; what is still to be read is of the connection the server holds.
Linked(s) ==
    /\ made[s] <= faults + IF live[s] THEN 1 ELSE 0
    /\ live[s] => up[s] /\ conn[s] = made[s] /\ made[s] # 0 /\ session[Present(s)].state = "open"
    /\ ~ up[s] => conn[s] = 0
    /\ conn[s] = 0 => toClient[s] = << >>
    /\ \A n \in 1 .. MaxFaults + 1 : n > made[s] => session[<<s, n>>] = NoSession

ConnectionsSound == \A s \in Server : Linked(s)

\* The snapshots q come one after the other, and none after number n.
Numbered(q, n) ==
    /\ \A i \in DOMAIN q : q[i].seq <= n
    /\ \A i, j \in DOMAIN q : i <= j => q[i].seq <= q[j].seq

\* What a server with a connection sees last is what the registry has: the last
\* snapshot it is still to read, or its view once it accepted one.
Feed(s) ==
    /\ Numbered(toClient[s], seq)
    /\ fresh[s] => lastSeq[s] <= seq /\ \A i \in DOMAIN toClient[s] : lastSeq[s] <= toClient[s][i].seq
    /\ toClient[s] # << >>
         => HealthyOnly(toClient[s][Len(toClient[s])].table) = HealthyOnly(endpoints)
    /\ fresh[s] /\ toClient[s] = << >> => HealthyOnly(view[s]) = HealthyOnly(endpoints)

FeedSound == \A s \in Server : live[s] => Feed(s)

Inv == Types /\ ConnectionsSound /\ NoGhost /\ FeedSound

-----------------------------------------------------------------------------
LEMMA Constant ==
  /\ NoEndpoints \in Table /\ NoSession \in Session
  /\ NoSession.state = "none" /\ NoSession.registered = FALSE
  /\ \A table \in Table : HealthyOnly(table) \in Table /\ HealthyOnly(HealthyOnly(table)) = HealthyOnly(table)
<1>1. NoEndpoints \in Table /\ NoSession \in Session /\ NoSession.state = "none" /\ NoSession.registered = FALSE
  BY DEF NoEndpoints, Table, State, NoSession, Session
<1>2. ASSUME NEW table \in Table
      PROVE  HealthyOnly(table) \in Table /\ HealthyOnly(HealthyOnly(table)) = HealthyOnly(table)
  BY DEF HealthyOnly, Table, State
<1> QED  BY <1>1, <1>2

\* No server has connected, and the registry knows none.
LEMMA InvInit == Init => Inv
<1> USE BoundAssumption
<1> SUFFICES ASSUME Init PROVE Inv
  OBVIOUS
<1>1. << >> \in Seq(Packet) /\ << >> \in Seq(Snapshot) /\ 0 \in 0 .. MaxFaults + 1 /\ 0 \in 0 .. MaxFaults
  OBVIOUS
<1>2. ClientTyped
  BY <1>1 DEF Init, ClientTyped
<1>3. CacheTyped
  BY Constant DEF Init, CacheTyped
<1>4. RegistryTyped
  BY Constant DEF Init, RegistryTyped
<1>5. NetworkTyped
  BY <1>1 DEF Init, NetworkTyped
<1>6. ConnectionsSound
  <2> SUFFICES ASSUME NEW s \in Server
               PROVE  /\ made[s] <= faults + IF live[s] THEN 1 ELSE 0
                      /\ live[s] => up[s] /\ conn[s] = made[s] /\ made[s] # 0 /\ session[Present(s)].state = "open"
                      /\ ~ up[s] => conn[s] = 0
                      /\ conn[s] = 0 => toClient[s] = << >>
                      /\ \A n \in 1 .. MaxFaults + 1 : n > made[s] => session[<<s, n>>] = NoSession
    BY DEF ConnectionsSound, Linked
  <2>1. made[s] = 0 /\ faults = 0 /\ ~ live[s] /\ conn[s] = 0 /\ toClient[s] = << >>
    BY DEF Init
  <2>2. \A n \in 1 .. MaxFaults + 1 : session[<<s, n>>] = NoSession
    BY DEF Init, Connection
  <2> QED  BY <2>1, <2>2
<1>7. NoGhost
  BY DEF Init, NoGhost, NoEndpoints
<1>8. FeedSound
  BY DEF Init, FeedSound
<1> QED  BY <1>2, <1>3, <1>4, <1>5, <1>6, <1>7, <1>8 DEF Inv, Types

-----------------------------------------------------------------------------
(* Queues of snapshots.                                                    *)

\* A queue that gets newer snapshots stays in order, and ends with the last of them.
LEMMA QueueGrows ==
  ASSUME NEW q \in Seq(Snapshot), NEW add \in Seq(Snapshot), NEW n \in Nat, NEW m \in Nat, n <= m,
         Numbered(q, n), \A i \in DOMAIN add : n <= add[i].seq /\ add[i].seq <= m,
         \A i, j \in DOMAIN add : i <= j => add[i].seq <= add[j].seq
  PROVE  /\ q \o add \in Seq(Snapshot) /\ Numbered(q \o add, m)
         /\ add # << >> => q \o add # << >> /\ (q \o add)[Len(q \o add)] = add[Len(add)]
         /\ \A i \in DOMAIN (q \o add) :
              \/ \E j \in DOMAIN q : (q \o add)[i] = q[j]
              \/ \E j \in DOMAIN add : (q \o add)[i] = add[j]
<1> DEFINE w == q \o add
           l == Len(q)
<1>1. /\ w \in Seq(Snapshot) /\ Len(w) = l + Len(add) /\ l \in Nat /\ Len(add) \in Nat
      /\ DOMAIN w = 1 .. Len(w) /\ DOMAIN q = 1 .. l /\ DOMAIN add = 1 .. Len(add)
  OBVIOUS
<1>2. \A i \in DOMAIN w : IF i <= l THEN i \in DOMAIN q /\ w[i] = q[i]
                                   ELSE i - l \in DOMAIN add /\ w[i] = add[i - l]
  OBVIOUS
<1>3. \A i \in DOMAIN q : q[i].seq \in Nat
  <2>1. \A i \in DOMAIN q : q[i] \in Snapshot
    OBVIOUS
  <2> QED  BY <2>1 DEF Snapshot
<1>4. \A i \in DOMAIN add : add[i].seq \in Nat
  <2>1. \A i \in DOMAIN add : add[i] \in Snapshot
    OBVIOUS
  <2> QED  BY <2>1 DEF Snapshot
<1> HIDE DEF w, l
<1>5. \A i \in DOMAIN w : w[i].seq <= m
  <2> SUFFICES ASSUME NEW i \in DOMAIN w PROVE w[i].seq <= m
    OBVIOUS
  <2>1. CASE i <= l
    <3>1. i \in DOMAIN q /\ w[i] = q[i] /\ q[i].seq <= n
      BY <1>2, <2>1 DEF Numbered
    <3> QED  BY <1>3, <3>1
  <2>2. CASE ~ (i <= l)
    BY <1>2, <2>2
  <2> QED  BY <2>1, <2>2
<1>6. \A i, j \in DOMAIN w : i <= j => w[i].seq <= w[j].seq
  <2> SUFFICES ASSUME NEW i \in DOMAIN w, NEW j \in DOMAIN w, i <= j PROVE w[i].seq <= w[j].seq
    OBVIOUS
  <2>0. i \in Nat /\ j \in Nat
    BY <1>1
  <2>1. CASE j <= l
    <3>1. i <= l
      BY <1>1, <2>0, <2>1
    <3>2. i \in DOMAIN q /\ j \in DOMAIN q /\ w[i] = q[i] /\ w[j] = q[j]
      BY <1>2, <2>1, <3>1
    <3> QED  BY <3>2 DEF Numbered
  <2>2. CASE ~ (j <= l) /\ i <= l
    <3>1. i \in DOMAIN q /\ w[i] = q[i] /\ j - l \in DOMAIN add /\ w[j] = add[j - l]
      BY <1>2, <2>2
    <3>2. q[i].seq <= n /\ n <= add[j - l].seq
      BY <3>1 DEF Numbered
    <3>3. \A a, b, c \in Nat : a <= b /\ b <= c => a <= c
      OBVIOUS
    <3> QED  BY <1>3, <1>4, <3>1, <3>2, <3>3
  <2>3. CASE ~ (j <= l) /\ ~ (i <= l)
    <3>1. i - l \in DOMAIN add /\ w[i] = add[i - l] /\ j - l \in DOMAIN add /\ w[j] = add[j - l]
      BY <1>2, <2>3
    <3>2. i - l <= j - l
      BY <1>1, <2>0
    <3> QED  BY <3>1, <3>2
  <2> QED  BY <2>1, <2>2, <2>3
<1>7. ASSUME add # << >> PROVE w # << >> /\ w[Len(w)] = add[Len(add)]
  <2>1. Len(add) # 0
    BY <1>7
  <2>2. Len(w) \in DOMAIN w /\ ~ (Len(w) <= l) /\ Len(w) - l = Len(add)
    BY <1>1, <2>1
  <2>3. w # << >>
    BY <1>1, <2>2
  <2> QED  BY <1>2, <2>2, <2>3
<1>8. \A i \in DOMAIN w : (\E j \in DOMAIN q : w[i] = q[j]) \/ (\E j \in DOMAIN add : w[i] = add[j])
  BY <1>2
<1>9. w \in Seq(Snapshot) /\ Numbered(w, m)
  BY <1>1, <1>5, <1>6 DEF Numbered
<1> QED  BY <1>7, <1>8, <1>9 DEF w

LEMMA AppendJoins ==
  ASSUME NEW X, NEW q \in Seq(X), NEW x \in X
  PROVE  Append(q, x) = q \o <<x>> /\ Append(q, x) \in Seq(X)
  OBVIOUS

\* The rest of a queue.
LEMMA QueueTail ==
  ASSUME NEW q \in Seq(Snapshot), q # << >>, NEW n \in Nat, Numbered(q, n)
  PROVE  /\ Tail(q) \in Seq(Snapshot) /\ Numbered(Tail(q), n) /\ Head(q) \in Snapshot
         /\ 1 \in DOMAIN q /\ Head(q) = q[1] /\ q[1].seq <= n
         /\ \A i \in DOMAIN Tail(q) : i + 1 \in DOMAIN q /\ Tail(q)[i] = q[i + 1] /\ q[1].seq <= Tail(q)[i].seq
         /\ Tail(q) # << >> => Tail(q)[Len(Tail(q))] = q[Len(q)]
         /\ Tail(q) = << >> => Head(q) = q[Len(q)]
<1> DEFINE r == Tail(q)
<1>1. /\ r \in Seq(Snapshot) /\ Head(q) \in Snapshot /\ 1 \in DOMAIN q /\ Head(q) = q[1]
      /\ Len(r) = Len(q) - 1 /\ Len(q) \in Nat /\ Len(r) \in Nat
      /\ DOMAIN r = 1 .. Len(r) /\ DOMAIN q = 1 .. Len(q)
      /\ \A i \in DOMAIN r : i + 1 \in DOMAIN q /\ r[i] = q[i + 1] /\ 1 <= i + 1
  OBVIOUS
<1> HIDE DEF r
<1>2. r = << >> => Len(r) = 0
  BY <1>1
<1>3. r # << >> => Len(r) # 0
  BY <1>1
<1>4. \A i, j \in DOMAIN r : i <= j => i + 1 <= j + 1
  BY <1>1
<1>5. Numbered(r, n)
  BY <1>1, <1>4 DEF Numbered
<1>6. q[1].seq <= n /\ \A i \in DOMAIN r : q[1].seq <= r[i].seq
  BY <1>1 DEF Numbered
<1>7. r # << >> => r[Len(r)] = q[Len(q)]
  <2>1. Len(r) # 0 => Len(r) \in DOMAIN r /\ Len(r) + 1 = Len(q)
    BY <1>1
  <2> QED  BY <1>1, <1>3, <2>1
<1>8. r = << >> => Head(q) = q[Len(q)]
  BY <1>1, <1>2
<1> QED  BY <1>1, <1>5, <1>6, <1>7, <1>8 DEF r

-----------------------------------------------------------------------------
(* Sessions and connections.                                               *)

LEMMA TypeParts ==
  ASSUME Inv
  PROVE  /\ ClientTyped /\ CacheTyped /\ RegistryTyped /\ NetworkTyped
         /\ ConnectionsSound /\ NoGhost /\ FeedSound
BY DEF Inv, Types

LEMMA LivePresent ==
  ASSUME Inv, NEW s \in Server, live[s]
  PROVE  /\ Present(s) \in Connection /\ Present(s)[1] = s /\ Up(Present(s))
         /\ session[Present(s)].state = "open"
<1>1. session[Present(s)].state = "open" /\ made[s] # 0 /\ made[s] \in 0 .. MaxFaults + 1
  BY TypeParts DEF ConnectionsSound, Linked, ClientTyped
<1>2. made[s] \in 1 .. MaxFaults + 1
  BY <1>1, BoundAssumption
<1> QED  BY <1>1, <1>2 DEF Present, Connection, Up

LEMMA SomeFailParts ==
  ASSUME NEW sessions \in [Connection -> Session], NEW exposed, exposed \subseteq Connection,
         SomeFail(sessions, exposed)
  PROVE  /\ session' \in [Connection -> Session]
         /\ \A c \in Connection : /\ session'[c].registered = sessions[c].registered
                                  /\ c \notin exposed => session'[c] = sessions[c]
<1>1. PICK failed \in SUBSET exposed : session' = [c \in Connection |->
            IF c \in failed THEN [sessions[c] EXCEPT !.state = "dead"] ELSE sessions[c]]
  BY DEF SomeFail
<1>2. ASSUME NEW c \in Connection
      PROVE  /\ [sessions[c] EXCEPT !.state = "dead"] \in Session
             /\ [sessions[c] EXCEPT !.state = "dead"].registered = sessions[c].registered
  <2>1. sessions[c] \in Session
    OBVIOUS
  <2> QED  BY <2>1 DEF Session
<1> QED  BY <1>1, <1>2

\* What holds of the sessions of the registry, whatever it does with them.
SessionsSound(sessions, table) ==
    /\ \A s \in Server : live[s] => sessions[Present(s)].state = "open"
    /\ \A s \in Server : \A n \in 1 .. MaxFaults + 1 : n > made[s] => sessions[<<s, n>>] = NoSession
    /\ \A s \in Server : table[s] # "absent" => \E n \in 1 .. MaxFaults + 1 : sessions[<<s, n>>].registered

LEMMA SessionsAreSound == ASSUME Inv PROVE SessionsSound(session, endpoints)
  BY TypeParts DEF ConnectionsSound, Linked, NoGhost, SessionsSound

\* Sending to a session that is down may end it, which touches none that matters.
LEMMA SendsKeep ==
  ASSUME Inv, NEW sessions \in [Connection -> Session], NEW table, SessionsSound(sessions, table),
         NEW exposed, exposed \subseteq Connection, SomeFail(sessions, exposed),
         \A c \in exposed : sessions[c].state = "open" /\ ~ Up(c)
  PROVE  session' \in [Connection -> Session] /\ SessionsSound(session', table)
<1>1. /\ session' \in [Connection -> Session]
      /\ \A c \in Connection : /\ session'[c].registered = sessions[c].registered
                               /\ c \notin exposed => session'[c] = sessions[c]
  BY SomeFailParts
<1>2. ASSUME NEW s \in Server, live[s] PROVE session'[Present(s)].state = "open"
  <2>1. Present(s) \in Connection /\ Present(s) \notin exposed
    BY <1>2, LivePresent
  <2> QED  BY <1>1, <1>2, <2>1 DEF SessionsSound
<1>3. ASSUME NEW s \in Server, NEW n \in 1 .. MaxFaults + 1, n > made[s] PROVE session'[<<s, n>>] = NoSession
  <2>1. <<s, n>> \in Connection /\ sessions[<<s, n>>] = NoSession
    BY <1>3 DEF SessionsSound, Connection
  <2>2. <<s, n>> \notin exposed
    BY <2>1, Constant
  <2> QED  BY <1>1, <2>1, <2>2
<1>4. ASSUME NEW s \in Server, table[s] # "absent"
      PROVE  \E n \in 1 .. MaxFaults + 1 : session'[<<s, n>>].registered
  <2>1. PICK n \in 1 .. MaxFaults + 1 : sessions[<<s, n>>].registered
    BY <1>4 DEF SessionsSound
  <2>2. <<s, n>> \in Connection
    BY DEF Connection
  <2> QED  BY <1>1, <2>1, <2>2
<1> QED  BY <1>1, <1>2, <1>3, <1>4 DEF SessionsSound

\* Steps of the registry, or of a server that keeps its connection, that send no snapshot.
LEMMA QuietKeeps ==
  ASSUME Inv, UNCHANGED <<up, conn, made, cache, live, regUp, endpoints, seq, toClient>>,
         dead' \in [Server -> BOOLEAN], toRegistry' \in [Connection -> Seq(Packet)],
         silence' \in [Server -> 0 .. 2], \A s \in Server : endpoints[s] = "absent" => silence'[s] = 0,
         faults' \in 0 .. MaxFaults, faults <= faults',
         session' \in [Connection -> Session], SessionsSound(session', endpoints)
  PROVE  Inv'
<1>1. Types'
  BY TypeParts DEF Types, ClientTyped, CacheTyped, RegistryTyped, NetworkTyped, cache
<1>2. ConnectionsSound'
  <2> SUFFICES ASSUME NEW s \in Server
               PROVE  /\ made[s] <= faults' + IF live[s] THEN 1 ELSE 0
                      /\ live[s] => up[s] /\ conn[s] = made[s] /\ made[s] # 0 /\ session'[Present(s)].state = "open"
                      /\ ~ up[s] => conn[s] = 0
                      /\ conn[s] = 0 => toClient[s] = << >>
                      /\ \A n \in 1 .. MaxFaults + 1 : n > made[s] => session'[<<s, n>>] = NoSession
    BY DEF ConnectionsSound, Linked, Present
  <2>1. /\ made[s] <= faults + IF live[s] THEN 1 ELSE 0
        /\ live[s] => up[s] /\ conn[s] = made[s] /\ made[s] # 0
        /\ ~ up[s] => conn[s] = 0
        /\ conn[s] = 0 => toClient[s] = << >>
    BY TypeParts DEF ConnectionsSound, Linked
  <2>2. made[s] \in Nat /\ faults \in Nat /\ faults' \in Nat
    BY TypeParts, BoundAssumption DEF ClientTyped, NetworkTyped
  <2>3. made[s] <= faults' + IF live[s] THEN 1 ELSE 0
    BY <2>1, <2>2
  <2> QED  BY <2>1, <2>3 DEF SessionsSound
<1>3. NoGhost'
  BY DEF NoGhost, SessionsSound
<1>4. FeedSound'
  <2>1. \A s \in Server : live'[s] => live[s] /\ Feed(s)
    BY TypeParts DEF FeedSound
  <2> QED  BY <2>1 DEF FeedSound, Feed, Numbered, cache
<1> QED  BY <1>1, <1>2, <1>3, <1>4 DEF Inv

-----------------------------------------------------------------------------
(* Snapshots are sent.                                                     *)

LEMMA SnapshotsOf ==
  ASSUME Inv, NEW table \in Table, NEW count \in Nat \ {0}
  PROVE  /\ Snapshots(table, count) \in Seq(Snapshot) /\ Snapshots(table, count) # << >>
         /\ \A i \in DOMAIN Snapshots(table, count) :
              /\ Snapshots(table, count)[i].table = table
              /\ seq <= Snapshots(table, count)[i].seq /\ Snapshots(table, count)[i].seq <= seq + count
         /\ \A i, j \in DOMAIN Snapshots(table, count) :
              i <= j => Snapshots(table, count)[i].seq <= Snapshots(table, count)[j].seq
         /\ Snapshots(table, count)[Len(Snapshots(table, count))].table = table
<1> DEFINE f == [k \in 1 .. count |-> [seq |-> seq + k, table |-> table]]
<1>1. seq \in Nat /\ count \in Nat /\ count # 0
  BY TypeParts DEF RegistryTyped
<1>2. \A k \in 1 .. count : [seq |-> seq + k, table |-> table] \in Snapshot
  BY <1>1 DEF Snapshot
<1>3. /\ f \in Seq(Snapshot) /\ Len(f) = count /\ DOMAIN f = 1 .. count
      /\ \A k \in 1 .. count : f[k].seq = seq + k /\ f[k].table = table
  BY <1>1, <1>2
<1>4. f = Snapshots(table, count)
  BY DEF Snapshots
<1> HIDE DEF f
<1>5. f # << >> /\ count \in 1 .. count
  BY <1>1, <1>3
<1>6. \A i \in 1 .. count : seq <= seq + i /\ seq + i <= seq + count
  BY <1>1
<1>7. \A i, j \in 1 .. count : i <= j => seq + i <= seq + j
  BY <1>1
<1>8. \A i \in DOMAIN f : f[i].table = table /\ seq <= f[i].seq /\ f[i].seq <= seq + count
  BY <1>3, <1>6
<1>9. \A i, j \in DOMAIN f : i <= j => f[i].seq <= f[j].seq
  BY <1>3, <1>7
<1>10. f[Len(f)].table = table
  BY <1>3, <1>5
<1> QED  BY <1>3, <1>4, <1>5, <1>8, <1>9, <1>10

\* A connected server that is sent newer snapshots, the last of them of the table the
\* registry has now, still ends with what the registry has.
LEMMA FeedGrows ==
  ASSUME Inv, NEW s \in Server, live[s], live'[s], UNCHANGED cache, seq' \in Nat, seq <= seq',
         NEW add \in Seq(Snapshot), add # << >>, toClient'[s] = toClient[s] \o add,
         \A i \in DOMAIN add : seq <= add[i].seq /\ add[i].seq <= seq',
         \A i, j \in DOMAIN add : i <= j => add[i].seq <= add[j].seq,
         HealthyOnly(add[Len(add)].table) = HealthyOnly(endpoints')
  PROVE  Feed(s)'
<1>1. /\ toClient[s] \in Seq(Snapshot) /\ seq \in Nat /\ lastSeq[s] \in Nat
      /\ Numbered(toClient[s], seq)
      /\ fresh[s] => lastSeq[s] <= seq /\ \A i \in DOMAIN toClient[s] : lastSeq[s] <= toClient[s][i].seq
  BY TypeParts DEF NetworkTyped, RegistryTyped, CacheTyped, FeedSound, Feed
<1>2. PICK q : q = toClient[s]
  OBVIOUS
<1>3. /\ q \o add \in Seq(Snapshot) /\ Numbered(q \o add, seq')
      /\ q \o add # << >> /\ (q \o add)[Len(q \o add)] = add[Len(add)]
      /\ \A i \in DOMAIN (q \o add) :
           \/ \E j \in DOMAIN q : (q \o add)[i] = q[j]
           \/ \E j \in DOMAIN add : (q \o add)[i] = add[j]
  <2>1. q \in Seq(Snapshot) /\ Numbered(q, seq) /\ seq \in Nat
    BY <1>1, <1>2
  <2>2. PICK m \in Nat : m = seq'
    OBVIOUS
  <2>3. seq <= m /\ \A i \in DOMAIN add : seq <= add[i].seq /\ add[i].seq <= m
    BY <2>2
  <2>4. /\ q \o add \in Seq(Snapshot) /\ Numbered(q \o add, m)
        /\ q \o add # << >> /\ (q \o add)[Len(q \o add)] = add[Len(add)]
        /\ \A i \in DOMAIN (q \o add) :
             \/ \E j \in DOMAIN q : (q \o add)[i] = q[j]
             \/ \E j \in DOMAIN add : (q \o add)[i] = add[j]
    BY <2>1, <2>3, QueueGrows
  <2> QED  BY <2>2, <2>4
<1>4. PICK w : w = q \o add
  OBVIOUS
<1>5. toClient'[s] = w /\ Numbered(w, seq') /\ w # << >> /\ w[Len(w)] = add[Len(add)]
  BY <1>2, <1>3, <1>4
<1>6. ASSUME fresh[s] PROVE lastSeq[s] <= seq' /\ \A i \in DOMAIN w : lastSeq[s] <= w[i].seq
  <2>1. \A a, b, c \in Nat : a <= b /\ b <= c => a <= c
    OBVIOUS
  <2>2. lastSeq[s] <= seq /\ lastSeq[s] <= seq'
    BY <1>1, <1>6, <2>1
  <2>3. \A j \in DOMAIN q : lastSeq[s] <= q[j].seq
    BY <1>1, <1>2, <1>6
  <2>4. \A j \in DOMAIN add : lastSeq[s] <= add[j].seq
    <3>1. \A j \in DOMAIN add : add[j] \in Snapshot
      OBVIOUS
    <3>2. \A j \in DOMAIN add : add[j].seq \in Nat
      BY <3>1 DEF Snapshot
    <3> QED  BY <1>1, <2>1, <2>2, <3>2
  <2> QED  BY <1>3, <1>4, <2>2, <2>3, <2>4
<1>7. fresh'[s] = fresh[s] /\ lastSeq'[s] = lastSeq[s]
  BY DEF cache
<1>8. Numbered(toClient[s], seq)'
  BY <1>5 DEF Numbered
<1> QED  BY <1>5, <1>6, <1>7, <1>8 DEF Feed

\* Steps of the registry that send snapshots.
LEMMA SentKeeps ==
  ASSUME Inv, UNCHANGED <<client, cache, live, regUp, faults>>,
         endpoints' \in Table, seq' \in Nat, toRegistry' \in [Connection -> Seq(Packet)],
         silence' \in [Server -> 0 .. 2], \A s \in Server : endpoints'[s] = "absent" => silence'[s] = 0,
         session' \in [Connection -> Session], SessionsSound(session', endpoints'),
         toClient' \in [Server -> Seq(Snapshot)], \A s \in Server : ~ live[s] => toClient'[s] = toClient[s],
         \A s \in Server : live[s] => Feed(s)'
  PROVE  Inv'
<1>1. Types'
  BY TypeParts DEF Types, ClientTyped, CacheTyped, RegistryTyped, NetworkTyped, cache, client
<1>2. ConnectionsSound'
  <2> SUFFICES ASSUME NEW s \in Server
               PROVE  /\ made[s] <= faults + IF live[s] THEN 1 ELSE 0
                      /\ live[s] => up[s] /\ conn[s] = made[s] /\ made[s] # 0 /\ session'[Present(s)].state = "open"
                      /\ ~ up[s] => conn[s] = 0
                      /\ conn[s] = 0 => toClient'[s] = << >>
                      /\ \A n \in 1 .. MaxFaults + 1 : n > made[s] => session'[<<s, n>>] = NoSession
    BY DEF ConnectionsSound, Linked, Present, client
  <2>1. /\ made[s] <= faults + IF live[s] THEN 1 ELSE 0
        /\ live[s] => up[s] /\ conn[s] = made[s] /\ made[s] # 0
        /\ ~ up[s] => conn[s] = 0
        /\ conn[s] = 0 => toClient[s] = << >>
    BY TypeParts DEF ConnectionsSound, Linked
  <2>2. conn[s] = 0 => ~ live[s]
    BY <2>1
  <2> QED  BY <2>1, <2>2 DEF SessionsSound
<1>3. NoGhost'
  BY DEF NoGhost, SessionsSound
<1>4. FeedSound'
  BY DEF FeedSound
<1> QED  BY <1>1, <1>2, <1>3, <1>4 DEF Inv

\* SendEndpointChange, by whichever handler changed the table.
LEMMA PushKeeps ==
  ASSUME Inv, NEW table \in Table, NEW sessions \in [Connection -> Session], NEW count \in Nat \ {0},
         Push(table, sessions, count), SessionsSound(sessions, table),
         UNCHANGED <<client, cache, live, regUp, faults>>, toRegistry' \in [Connection -> Seq(Packet)],
         silence' \in [Server -> 0 .. 2], \A s \in Server : table[s] = "absent" => silence'[s] = 0
  PROVE  Inv'
<1> DEFINE add == Snapshots(table, count)
<1>1. /\ add \in Seq(Snapshot) /\ add # << >>
      /\ \A i \in DOMAIN add : add[i].table = table /\ seq <= add[i].seq /\ add[i].seq <= seq + count
      /\ \A i, j \in DOMAIN add : i <= j => add[i].seq <= add[j].seq
      /\ add[Len(add)].table = table
  BY SnapshotsOf
<1>2. endpoints' = table /\ seq' = seq + count /\ seq \in Nat /\ seq' \in Nat /\ seq <= seq'
  BY TypeParts DEF Push, RegistryTyped
<1>3. /\ toClient' = [s \in Server |->
           IF live[s] /\ sessions[Present(s)].state = "open" THEN toClient[s] \o add ELSE toClient[s]]
      /\ toClient \in [Server -> Seq(Snapshot)]
  BY TypeParts DEF Push, NetworkTyped
<1> HIDE DEF add
<1>4. toClient' \in [Server -> Seq(Snapshot)] /\ \A s \in Server : ~ live[s] => toClient'[s] = toClient[s]
  <2>1. \A s \in Server : toClient[s] \o add \in Seq(Snapshot)
    BY <1>1, <1>3
  <2> QED  BY <1>3, <2>1
<1>5. \A s \in Server : live[s] => toClient'[s] = toClient[s] \o add
  BY <1>3 DEF SessionsSound
<1>6. ASSUME NEW s \in Server, live[s] PROVE Feed(s)'
  <2>1. \A i \in DOMAIN add : seq <= add[i].seq /\ add[i].seq <= seq'
    BY <1>1, <1>2
  <2>2. HealthyOnly(add[Len(add)].table) = HealthyOnly(endpoints')
    BY <1>1, <1>2
  <2>3. live'[s] /\ UNCHANGED cache
    BY <1>6
  <2> QED  BY <1>1, <1>2, <1>5, <1>6, <2>1, <2>2, <2>3, FeedGrows
<1>7. session' \in [Connection -> Session] /\ SessionsSound(session', table)
  <2>1. SomeFail(sessions, Failing(sessions))
    BY DEF Push
  <2>2. Failing(sessions) \subseteq Connection /\ \A c \in Failing(sessions) : sessions[c].state = "open" /\ ~ Up(c)
    BY DEF Failing
  <2> QED  BY <2>1, <2>2, SendsKeep
<1> QED  BY <1>2, <1>4, <1>6, <1>7, SentKeeps

-----------------------------------------------------------------------------
(* The registry handles a packet.                                          *)

LEMMA HandlingParts ==
  ASSUME Inv, NEW c \in Connection, NEW packet, Handling(c, packet)
  PROVE  /\ c[1] \in Server /\ c[2] \in 1 .. MaxFaults + 1 /\ c = <<c[1], c[2]>>
         /\ toRegistry' \in [Connection -> Seq(Packet)]
         /\ session[c].state = "open" /\ session[c] \in Session /\ session \in [Connection -> Session]
         /\ endpoints \in Table /\ silence \in [Server -> 0 .. 2]
         /\ UNCHANGED <<client, cache, live, regUp, faults>>
<1>1. c[1] \in Server /\ c[2] \in 1 .. MaxFaults + 1 /\ c = <<c[1], c[2]>>
  BY DEF Connection
<1>2. toRegistry \in [Connection -> Seq(Packet)] /\ toRegistry[c] \in Seq(Packet) /\ toRegistry[c] # << >>
  BY TypeParts DEF NetworkTyped, Handling
<1>3. Tail(toRegistry[c]) \in Seq(Packet)
  BY <1>2
<1>4. toRegistry' = [toRegistry EXCEPT ![c] = Tail(toRegistry[c])]
  BY DEF Handling
<1>5. toRegistry' \in [Connection -> Seq(Packet)]
  BY <1>2, <1>3, <1>4
<1>6. session \in [Connection -> Session] /\ endpoints \in Table /\ silence \in [Server -> 0 .. 2]
  BY TypeParts DEF RegistryTyped
<1> QED  BY <1>1, <1>5, <1>6 DEF Handling

\* What a handler that changes one endpoint leaves: the table, the times, and the session.
LEMMA OneChange ==
  ASSUME Inv, NEW s \in Server, NEW v \in State
  PROVE  /\ [endpoints EXCEPT ![s] = v] \in Table
         /\ \A u \in Server : [endpoints EXCEPT ![s] = v][u] = IF u = s THEN v ELSE endpoints[u]
         /\ [silence EXCEPT ![s] = 0] \in [Server -> 0 .. 2]
         /\ \A u \in Server : [silence EXCEPT ![s] = 0][u] = IF u = s THEN 0 ELSE silence[u]
         /\ \A u \in Server : endpoints[u] = "absent" => silence[u] = 0
BY TypeParts DEF RegistryTyped, Table

\* One session changes: the present ones stay open, and an endpoint of the server keeps
\* a session that is registered.
LEMMA OneSession ==
  ASSUME Inv, NEW c \in Connection, NEW r \in Session, NEW sessions, sessions = [session EXCEPT ![c] = r],
         NEW table,
         Up(c) => r.state = "open", session[c] = NoSession => r = NoSession,
         \A u \in Server : table[u] # "absent" =>
            \/ u = c[1] /\ r.registered = TRUE
            \/ endpoints[u] # "absent" /\ (u # c[1] \/ session[c].registered = FALSE)
  PROVE  sessions \in [Connection -> Session] /\ SessionsSound(sessions, table)
<1>1. SessionsSound(session, endpoints) /\ session \in [Connection -> Session]
  BY SessionsAreSound, TypeParts DEF RegistryTyped
<1>2. c[1] \in Server /\ c[2] \in 1 .. MaxFaults + 1 /\ c = <<c[1], c[2]>>
  BY DEF Connection
<1>3. /\ sessions \in [Connection -> Session] /\ sessions[c] = r
      /\ \A d \in Connection : d # c => sessions[d] = session[d]
  BY <1>1
<1>4. ASSUME NEW u \in Server, live[u] PROVE sessions[Present(u)].state = "open"
  <2>1. Present(u) \in Connection /\ session[Present(u)].state = "open" /\ Up(Present(u))
    BY <1>4, LivePresent
  <2>2. CASE Present(u) = c
    BY <1>3, <2>1, <2>2
  <2>3. CASE Present(u) # c
    BY <1>3, <2>1, <2>3
  <2> QED  BY <2>2, <2>3
<1>5. ASSUME NEW u \in Server, NEW n \in 1 .. MaxFaults + 1, n > made[u] PROVE sessions[<<u, n>>] = NoSession
  <2>1. session[<<u, n>>] = NoSession /\ <<u, n>> \in Connection
    BY <1>1, <1>5 DEF SessionsSound, Connection
  <2> QED  BY <1>3, <2>1
<1>6. ASSUME NEW u \in Server, table[u] # "absent" PROVE \E n \in 1 .. MaxFaults + 1 : sessions[<<u, n>>].registered
  <2>1. CASE u = c[1] /\ r.registered = TRUE
    <3>1. sessions[<<u, c[2]>>].registered
      BY <1>2, <1>3, <2>1
    <3> QED  BY <1>2, <3>1
  <2>2. CASE endpoints[u] # "absent" /\ (u # c[1] \/ session[c].registered = FALSE)
    <3>1. PICK n \in 1 .. MaxFaults + 1 : session[<<u, n>>].registered
      BY <1>1, <2>2 DEF SessionsSound
    <3>2. <<u, n>> \in Connection /\ <<u, n>> # c
      <4>1. <<u, n>> \in Connection /\ <<u, n>>[1] = u
        BY DEF Connection
      <4> QED  BY <2>2, <3>1, <4>1
    <3> QED  BY <1>3, <3>1, <3>2
  <2> QED  BY <1>6, <2>1, <2>2
<1> QED  BY <1>3, <1>4, <1>5, <1>6 DEF SessionsSound

\* A packet that changes nothing.
LEMMA IgnoredKeeps ==
  ASSUME Inv, NEW c \in Connection, NEW packet, Handling(c, packet),
         UNCHANGED <<endpoints, seq, session, toClient, silence>>
  PROVE  Inv'
<1>1. /\ toRegistry' \in [Connection -> Seq(Packet)] /\ session \in [Connection -> Session]
      /\ silence \in [Server -> 0 .. 2] /\ UNCHANGED <<client, cache, live, regUp, faults>>
  BY HandlingParts
<1>2. SessionsSound(session, endpoints)
  BY SessionsAreSound
<1>3. /\ dead \in [Server -> BOOLEAN] /\ faults \in 0 .. MaxFaults /\ faults <= faults
      /\ \A s \in Server : endpoints[s] = "absent" => silence[s] = 0
  BY TypeParts, BoundAssumption DEF ClientTyped, NetworkTyped, RegistryTyped
<1>4. UNCHANGED <<up, conn, made, cache, live, regUp, endpoints, seq, toClient, dead, faults>>
  BY <1>1 DEF client
<1>5. session' \in [Connection -> Session] /\ SessionsSound(session', endpoints)
  BY <1>1, <1>2
<1> QED  BY <1>1, <1>3, <1>4, <1>5, QuietKeeps

LEMMA RegisterKeeps == ASSUME Inv, NEW c \in Connection, HandleRegister(c) PROVE Inv'
<1>1. Handling(c, "Register")
  BY DEF HandleRegister
<1>2. PICK s : s = c[1]
  OBVIOUS
<1>3. /\ s \in Server /\ c[2] \in 1 .. MaxFaults + 1 /\ c = <<s, c[2]>>
      /\ toRegistry' \in [Connection -> Seq(Packet)]
      /\ session[c].state = "open" /\ session[c] \in Session /\ session \in [Connection -> Session]
      /\ UNCHANGED <<client, cache, live, regUp, faults>>
  BY <1>1, <1>2, HandlingParts
<1>4. CASE UNCHANGED <<endpoints, seq, session, toClient, silence>>
  BY <1>1, <1>4, IgnoredKeeps
<1>5. CASE /\ Push([endpoints EXCEPT ![s] = "healthy"],
                    [session EXCEPT ![c].registered = TRUE, ![c].named = TRUE], 1)
           /\ silence' = [silence EXCEPT ![s] = 0]
  <2>1. PICK r \in Session : r = [session[c] EXCEPT !.registered = TRUE, !.named = TRUE]
    BY <1>3 DEF Session
  <2> DEFINE table == [endpoints EXCEPT ![s] = "healthy"]
  <2>0. r.state = "open" /\ r.registered = TRUE
    BY <1>3, <2>1 DEF Session
  <2>2. PICK sessions : sessions = [session EXCEPT ![c] = r]
    OBVIOUS
  <2>3. [session EXCEPT ![c].registered = TRUE, ![c].named = TRUE] = [session EXCEPT ![c] = r]
    <3>1. [session EXCEPT ![c].registered = TRUE] = [session EXCEPT ![c] = [session[c] EXCEPT !.registered = TRUE]]
      OBVIOUS
    <3> QED  BY <1>3, <2>1
  <2>5. /\ table \in Table /\ \A u \in Server : table[u] = IF u = s THEN "healthy" ELSE endpoints[u]
        /\ silence' \in [Server -> 0 .. 2] /\ \A u \in Server : table[u] = "absent" => silence'[u] = 0
    <3>1. "healthy" \in State
      BY DEF State
    <3> QED  BY <1>3, <1>5, <3>1, OneChange
  <2> HIDE DEF table
  <2>6. sessions \in [Connection -> Session] /\ SessionsSound(sessions, table)
    <3>1. session[c] # NoSession
      BY <1>3, Constant
    <3>2. \A u \in Server : table[u] # "absent" =>
            \/ u = c[1] /\ r.registered = TRUE
            \/ endpoints[u] # "absent" /\ (u # c[1] \/ session[c].registered = FALSE)
      BY <1>2, <2>0, <2>5
    <3>3. (Up(c) => r.state = "open") /\ (session[c] = NoSession => r = NoSession)
      BY <2>0, <3>1
    <3> QED  BY <2>2, <3>2, <3>3, OneSession
  <2>7. Push(table, sessions, 1)
    BY <1>5, <2>2, <2>3 DEF table
  <2>8. 1 \in Nat \ {0}
    OBVIOUS
  <2> QED  BY <1>3, <2>5, <2>6, <2>7, <2>8, PushKeeps
<1> QED  BY <1>2, <1>4, <1>5 DEF HandleRegister

LEMMA DeregisterKeeps == ASSUME Inv, NEW c \in Connection, HandleDeregister(c) PROVE Inv'
<1>1. Handling(c, "Deregister")
  BY DEF HandleDeregister
<1>2. PICK s : s = c[1]
  OBVIOUS
<1>3. /\ s \in Server /\ toRegistry' \in [Connection -> Seq(Packet)]
      /\ session[c].state = "open" /\ session[c] \in Session /\ session \in [Connection -> Session]
      /\ UNCHANGED <<client, cache, live, regUp, faults>>
  BY <1>1, <1>2, HandlingParts
<1>4. CASE UNCHANGED <<endpoints, seq, session, toClient, silence>>
  BY <1>1, <1>4, IgnoredKeeps
<1>5. CASE /\ Push([endpoints EXCEPT ![s] = "absent"], [session EXCEPT ![c].registered = FALSE], 1)
           /\ silence' = [silence EXCEPT ![s] = 0]
  <2>1. PICK r \in Session : r = [session[c] EXCEPT !.registered = FALSE]
    BY <1>3 DEF Session
  <2> DEFINE table == [endpoints EXCEPT ![s] = "absent"]
  <2>0. r.state = "open"
    BY <1>3, <2>1 DEF Session
  <2>2. PICK sessions : sessions = [session EXCEPT ![c] = r]
    OBVIOUS
  <2>3. [session EXCEPT ![c].registered = FALSE] = [session EXCEPT ![c] = r]
    BY <2>1
  <2>4. /\ table \in Table /\ \A u \in Server : table[u] = IF u = s THEN "absent" ELSE endpoints[u]
        /\ silence' \in [Server -> 0 .. 2] /\ \A u \in Server : table[u] = "absent" => silence'[u] = 0
    <3>1. "absent" \in State
      BY DEF State
    <3> QED  BY <1>3, <1>5, <3>1, OneChange
  <2> HIDE DEF table
  <2>5. sessions \in [Connection -> Session] /\ SessionsSound(sessions, table)
    <3>1. session[c] # NoSession
      BY <1>3, Constant
    <3>2. \A u \in Server : table[u] # "absent" =>
            \/ u = c[1] /\ r.registered = TRUE
            \/ endpoints[u] # "absent" /\ (u # c[1] \/ session[c].registered = FALSE)
      BY <1>2, <2>4
    <3>3. (Up(c) => r.state = "open") /\ (session[c] = NoSession => r = NoSession)
      BY <2>0, <3>1
    <3> QED  BY <2>2, <3>2, <3>3, OneSession
  <2>6. Push(table, sessions, 1)
    BY <1>5, <2>2, <2>3 DEF table
  <2>7. 1 \in Nat \ {0}
    OBVIOUS
  <2> QED  BY <1>3, <2>4, <2>5, <2>6, <2>7, PushKeeps
<1> QED  BY <1>2, <1>4, <1>5 DEF HandleDeregister

LEMMA HeartbeatKeeps == ASSUME Inv, NEW c \in Connection, HandleHeartbeat(c) PROVE Inv'
<1>1. Handling(c, "Heartbeat")
  BY DEF HandleHeartbeat
<1>2. PICK s : s = c[1]
  OBVIOUS
<1>3. /\ s \in Server /\ toRegistry' \in [Connection -> Seq(Packet)]
      /\ session \in [Connection -> Session] /\ silence \in [Server -> 0 .. 2]
      /\ UNCHANGED <<client, cache, live, regUp, faults>>
  BY <1>1, <1>2, HandlingParts
<1>4. silence' \in [Server -> 0 .. 2] /\ \A u \in Server : endpoints[u] = "absent" => silence'[u] = 0
  <2>1. "absent" \in State
    BY DEF State
  <2>2. silence' = silence \/ silence' = [silence EXCEPT ![s] = 0]
    BY <1>2 DEF HandleHeartbeat
  <2> QED  BY <1>3, <2>1, <2>2, OneChange
<1>5. SessionsSound(session, endpoints)
  BY SessionsAreSound
<1>6. CASE UNCHANGED <<endpoints, seq, session, toClient>>
  <2>1. /\ dead' \in [Server -> BOOLEAN] /\ faults' \in 0 .. MaxFaults /\ faults <= faults'
        /\ UNCHANGED <<up, conn, made, cache, live, regUp, endpoints, seq, toClient>>
    <3>1. dead \in [Server -> BOOLEAN] /\ faults \in 0 .. MaxFaults /\ faults <= faults
      BY TypeParts, BoundAssumption DEF ClientTyped, NetworkTyped
    <3> QED  BY <1>3, <1>6, <3>1 DEF client
  <2>2. session' \in [Connection -> Session] /\ SessionsSound(session', endpoints)
    BY <1>3, <1>5, <1>6
  <2> QED  BY <1>3, <1>4, <2>1, <2>2, QuietKeeps
<1>7. CASE endpoints[s] = "unhealthy" /\ Push([endpoints EXCEPT ![s] = "healthy"], session, 1)
  <2> DEFINE table == [endpoints EXCEPT ![s] = "healthy"]
  <2>1. table \in Table /\ \A u \in Server : table[u] = IF u = s THEN "healthy" ELSE endpoints[u]
    <3>1. "healthy" \in State
      BY DEF State
    <3> QED  BY <1>3, <3>1, OneChange
  <2>2. Push(table, session, 1)
    BY <1>7
  <2> HIDE DEF table
  <2>3. \A u \in Server : table[u] # "absent" => endpoints[u] # "absent"
    BY <1>7, <2>1
  <2>4. \A u \in Server : table[u] = "absent" => silence'[u] = 0
    BY <1>4, <2>1
  <2>5. SessionsSound(session, table)
    BY <1>5, <2>3 DEF SessionsSound
  <2>6. 1 \in Nat \ {0}
    OBVIOUS
  <2> QED  BY <1>3, <1>4, <2>1, <2>2, <2>4, <2>5, <2>6, PushKeeps
<1> QED  BY <1>2, <1>6, <1>7 DEF HandleHeartbeat

\* The answer to the session that asked.
LEMMA ListKeeps == ASSUME Inv, NEW c \in Connection, HandleListEndpoints(c) PROVE Inv'
<1>1. Handling(c, "ListEndpoints")
  BY DEF HandleListEndpoints
<1>2. PICK s : s = c[1]
  OBVIOUS
<1>3. /\ s \in Server /\ toRegistry' \in [Connection -> Seq(Packet)]
      /\ session[c].state = "open" /\ session \in [Connection -> Session] /\ endpoints \in Table
      /\ silence \in [Server -> 0 .. 2]
      /\ UNCHANGED <<client, cache, live, regUp, faults, endpoints, silence>>
  BY <1>1, <1>2, HandlingParts DEF HandleListEndpoints
<1>4. /\ seq' = seq + 1 /\ seq \in Nat /\ seq' \in Nat /\ seq <= seq'
      /\ toClient \in [Server -> Seq(Snapshot)]
      /\ \A u \in Server : endpoints[u] = "absent" => silence[u] = 0
  BY TypeParts DEF RegistryTyped, NetworkTyped, HandleListEndpoints
<1>5. SessionsSound(session, endpoints)
  BY SessionsAreSound
<1>6. ASSUME NEW u \in Server, live[u], toClient'[u] = toClient[u] PROVE Feed(u)'
  <2>1. Feed(u)
    BY <1>6, TypeParts DEF FeedSound
  <2>2. \A i \in DOMAIN toClient[u] : toClient[u][i].seq <= seq'
    <3>1. toClient[u] \in Seq(Snapshot)
      BY <1>4
    <3>2. \A i \in DOMAIN toClient[u] : toClient[u][i] \in Snapshot
      BY <3>1
    <3>3. \A i \in DOMAIN toClient[u] : toClient[u][i].seq \in Nat /\ toClient[u][i].seq <= seq
      BY <2>1, <3>2 DEF Snapshot, Feed, Numbered
    <3>4. \A a \in Nat : a <= seq => a <= seq'
      BY <1>4
    <3> QED  BY <3>3, <3>4
  <2>3. fresh[u] => lastSeq[u] <= seq'
    <3>1. \A a \in Nat : a <= seq => a <= seq'
      BY <1>4
    <3>2. lastSeq[u] \in Nat
      BY TypeParts DEF CacheTyped
    <3> QED  BY <2>1, <3>1, <3>2 DEF Feed
  <2> QED  BY <1>3, <1>6, <2>1, <2>2, <2>3 DEF Feed, Numbered, cache
<1>7. CASE Up(c)
  <2>1. live[s] /\ session' = session
    BY <1>2, <1>7 DEF Up, HandleListEndpoints
  <2> DEFINE x == [seq |-> seq + 1, table |-> HealthyOnly(endpoints)]
             add == <<x>>
  <2>2. toClient' = [toClient EXCEPT ![s] = Append(toClient[s], x)]
    BY <1>2, <1>4, <1>7 DEF HandleListEndpoints
  <2>3. x \in Snapshot /\ x.seq = seq' /\ HealthyOnly(x.table) = HealthyOnly(endpoints)
    BY <1>3, <1>4, Constant DEF Snapshot
  <2> HIDE DEF x
  <2>4. Append(toClient[s], x) = toClient[s] \o add /\ Append(toClient[s], x) \in Seq(Snapshot)
    BY <1>3, <1>4, <2>3, AppendJoins
  <2>5. toClient' \in [Server -> Seq(Snapshot)] /\ toClient'[s] = toClient[s] \o add
        /\ \A u \in Server : u # s => toClient'[u] = toClient[u]
    BY <1>3, <1>4, <2>2, <2>4
  <2>6. add \in Seq(Snapshot) /\ add # << >> /\ Len(add) = 1 /\ DOMAIN add = 1 .. 1 /\ add[1] = x
    BY <2>3
  <2> HIDE DEF add
  <2>7. Feed(s)'
    <3>1. \A i \in DOMAIN add : add[i] = x
      BY <2>6
    <3>2. seq' <= seq' /\ live'[s] /\ UNCHANGED cache /\ seq' \in Nat /\ seq <= seq'
      BY <1>3, <1>4, <2>1
    <3>3. HealthyOnly(add[Len(add)].table) = HealthyOnly(endpoints')
      BY <1>3, <2>3, <2>6
    <3>4. \A i \in DOMAIN add : seq <= add[i].seq /\ add[i].seq <= seq'
      BY <2>3, <3>1, <3>2
    <3>5. \A i, j \in DOMAIN add : i <= j => add[i].seq <= add[j].seq
      BY <2>3, <3>1, <3>2
    <3> QED  BY <1>3, <2>1, <2>5, <2>6, <3>2, <3>3, <3>4, <3>5, FeedGrows
  <2>8. \A u \in Server : live[u] => Feed(u)'
    BY <1>6, <2>5, <2>7
  <2>9. \A u \in Server : ~ live[u] => toClient'[u] = toClient[u]
    BY <2>1, <2>5
  <2>10. endpoints' \in Table /\ silence' \in [Server -> 0 .. 2] /\ \A u \in Server : endpoints'[u] = "absent" => silence'[u] = 0
    BY <1>3, <1>4
  <2>11. session' \in [Connection -> Session] /\ SessionsSound(session', endpoints')
    BY <1>3, <1>5, <2>1
  <2> QED  BY <1>3, <1>4, <2>5, <2>8, <2>9, <2>10, <2>11, SentKeeps
<1>8. CASE ~ Up(c)
  <2>1. SomeFail(session, {c}) /\ toClient' = toClient
    BY <1>8 DEF HandleListEndpoints
  <2>2. session' \in [Connection -> Session] /\ SessionsSound(session', endpoints)
    <3>1. PICK exposed : exposed = {c}
      OBVIOUS
    <3>2. exposed \subseteq Connection /\ \A d \in exposed : session[d].state = "open" /\ ~ Up(d)
      BY <1>3, <1>8, <3>1
    <3>3. SomeFail(session, exposed)
      BY <2>1, <3>1
    <3>4. PICK table : table = endpoints
      OBVIOUS
    <3>5. SessionsSound(session, table) /\ session \in [Connection -> Session]
      BY <1>3, <1>5, <3>4
    <3>6. session' \in [Connection -> Session] /\ SessionsSound(session', table)
      BY <3>2, <3>3, <3>5, SendsKeep
    <3> QED  BY <3>4, <3>6
  <2>3. \A u \in Server : live[u] => Feed(u)'
    BY <1>6, <2>1
  <2>4. /\ endpoints' \in Table /\ silence' \in [Server -> 0 .. 2]
        /\ \A u \in Server : endpoints'[u] = "absent" => silence'[u] = 0
        /\ toClient' \in [Server -> Seq(Snapshot)] /\ \A u \in Server : ~ live[u] => toClient'[u] = toClient[u]
        /\ SessionsSound(session', endpoints')
    BY <1>3, <1>4, <2>1, <2>2
  <2> QED  BY <1>3, <1>4, <2>2, <2>3, <2>4, SentKeeps
<1> QED  BY <1>7, <1>8

\* The end of a session takes its endpoint, whoever registered it last.
LEMMA SessionClosesKeeps == ASSUME Inv, NEW c \in Connection, SessionCloses(c) PROVE Inv'
<1>1. PICK s : s = c[1]
  OBVIOUS
<1>2. /\ s \in Server /\ ~ Up(c) /\ UNCHANGED <<client, cache, live, regUp, faults>>
      /\ session \in [Connection -> Session] /\ silence \in [Server -> 0 .. 2]
  BY <1>1, TypeParts DEF Connection, SessionCloses, RegistryTyped
<1>3. toRegistry' \in [Connection -> Seq(Packet)]
  <2>1. toRegistry \in [Connection -> Seq(Packet)] /\ << >> \in Seq(Packet)
    BY TypeParts DEF NetworkTyped
  <2> QED  BY <2>1 DEF SessionCloses
<1>4. PICK rest : rest = [session EXCEPT ![c] = NoSession]
  OBVIOUS
<1>5. NoSession \in Session
  BY Constant
<1>6. CASE /\ session[c].registered /\ endpoints[s] # "absent"
           /\ Push([endpoints EXCEPT ![s] = "absent"], rest, 1)
           /\ silence' = [silence EXCEPT ![s] = 0]
  <2> DEFINE table == [endpoints EXCEPT ![s] = "absent"]
  <2>1. /\ table \in Table /\ \A u \in Server : table[u] = IF u = s THEN "absent" ELSE endpoints[u]
        /\ silence' \in [Server -> 0 .. 2] /\ \A u \in Server : table[u] = "absent" => silence'[u] = 0
    <3>1. "absent" \in State
      BY DEF State
    <3> QED  BY <1>2, <1>6, <3>1, OneChange
  <2>2. Push(table, rest, 1)
    BY <1>6
  <2> HIDE DEF table
  <2>3. rest \in [Connection -> Session] /\ SessionsSound(rest, table)
    <3>1. \A u \in Server : table[u] # "absent" => u # s /\ endpoints[u] # "absent"
      BY <2>1
    <3> QED  BY <1>1, <1>2, <1>4, <1>5, <3>1, OneSession
  <2>4. 1 \in Nat \ {0}
    OBVIOUS
  <2> QED  BY <1>2, <1>3, <2>1, <2>2, <2>3, <2>4, PushKeeps
<1>7. CASE /\ ~ (session[c].registered /\ endpoints[s] # "absent")
           /\ session' = rest /\ UNCHANGED <<endpoints, seq, toClient, silence>>
  <2>1. rest \in [Connection -> Session] /\ SessionsSound(rest, endpoints)
    <3>1. \A u \in Server : endpoints[u] # "absent" =>
            endpoints[u] # "absent" /\ (u # c[1] \/ session[c].registered = FALSE)
      <4>1. session[c].registered \in BOOLEAN
        BY <1>2 DEF Session
      <4> QED  BY <1>1, <1>7, <4>1
    <3> QED  BY <1>1, <1>2, <1>4, <1>5, <3>1, OneSession
  <2>2. /\ dead \in [Server -> BOOLEAN] /\ faults \in 0 .. MaxFaults /\ faults <= faults
        /\ \A u \in Server : endpoints[u] = "absent" => silence[u] = 0
    BY TypeParts, BoundAssumption DEF ClientTyped, NetworkTyped, RegistryTyped
  <2>3. /\ UNCHANGED <<up, conn, made, cache, live, regUp, endpoints, seq, toClient, dead, faults, silence>>
        /\ session' \in [Connection -> Session] /\ SessionsSound(session', endpoints)
    BY <1>2, <1>7, <2>1 DEF client
  <2> QED  BY <1>2, <1>3, <2>2, <2>3, QuietKeeps
<1> QED  BY <1>1, <1>4, <1>6, <1>7 DEF SessionCloses, Closes

-----------------------------------------------------------------------------
(* Time passes.                                                            *)

LEMMA TickKeeps == ASSUME Inv, TickHeartbeats PROVE Inv'
<1>1. /\ endpoints \in Table /\ silence \in [Server -> 0 .. 2]
      /\ \A s \in Server : endpoints[s] = "absent" => silence[s] = 0
      /\ session \in [Connection -> Session] /\ SessionsSound(session, endpoints)
  BY TypeParts, SessionsAreSound DEF RegistryTyped
<1>2. Changes \in Nat \ {0}
  <2>1. IsFiniteSet(Evicted) /\ IsFiniteSet(Marked)
    <3>1. Evicted \subseteq Server /\ Marked \subseteq Server
      BY DEF Evicted, Marked
    <3> QED  BY <3>1, ServerAssumption, FS_Subset
  <2>2. Cardinality(Evicted) \in Nat /\ Cardinality(Marked) \in Nat
    BY <2>1, FS_CardinalityType
  <2>3. Evicted # {} => Cardinality(Evicted) # 0
    BY <2>1, FS_EmptySet
  <2>4. Marked # {} => Cardinality(Marked) # 0
    BY <2>1, FS_EmptySet
  <2>5. Evicted # {} \/ Marked # {}
    BY DEF TickHeartbeats
  <2>6. \A a, b \in Nat : a # 0 \/ b # 0 => a + b \in Nat \ {0}
    OBVIOUS
  <2> QED  BY <2>2, <2>3, <2>4, <2>5, <2>6 DEF Changes
<1>3. PICK table : table = [s \in Server |-> IF s \in Evicted THEN "absent"
                                             ELSE IF s \in Marked THEN "unhealthy" ELSE endpoints[s]]
  OBVIOUS
<1>4. PICK count \in Nat \ {0} : count = Changes
  BY <1>2
<1>5. table \in Table
  BY <1>1, <1>3 DEF Table, State
<1>6. Push(table, session, count)
  BY <1>3, <1>4 DEF TickHeartbeats
<1>7. \A s \in Server : silence'[s] = IF s \in Evicted THEN 0 ELSE silence[s]
  BY DEF TickHeartbeats
<1>8. silence' \in [Server -> 0 .. 2]
  <2>1. 0 \in 0 .. 2
    OBVIOUS
  <2> QED  BY <1>1, <2>1 DEF TickHeartbeats
<1>9. ASSUME NEW s \in Server PROVE (table[s] = "absent" => silence'[s] = 0) /\ (table[s] # "absent" => endpoints[s] # "absent")
  <2>1. CASE s \in Evicted
    BY <1>3, <1>7, <2>1
  <2>2. CASE s \notin Evicted /\ s \in Marked
    BY <1>3, <2>2 DEF Marked
  <2>3. CASE s \notin Evicted /\ s \notin Marked
    BY <1>1, <1>3, <1>7, <2>3
  <2> QED  BY <2>1, <2>2, <2>3
<1>10. SessionsSound(session, table)
  BY <1>1, <1>9 DEF SessionsSound
<1>11. toRegistry' \in [Connection -> Seq(Packet)] /\ UNCHANGED <<client, cache, live, regUp, faults>>
  BY TypeParts DEF TickHeartbeats, NetworkTyped
<1>12. \A s \in Server : table[s] = "absent" => silence'[s] = 0
  BY <1>9
<1> QED  BY <1>1, <1>5, <1>6, <1>8, <1>10, <1>11, <1>12, PushKeeps

LEMMA FaultParts ==
  ASSUME Inv, Fault
  PROVE  /\ faults \in Nat /\ faults' \in 0 .. MaxFaults /\ faults' = faults + 1 /\ faults <= faults'
BY TypeParts, BoundAssumption DEF NetworkTyped, Fault

LEMMA SilenceKeeps == ASSUME Inv, NEW s \in Server, SilenceGrows(s) PROVE Inv'
<1>1. /\ silence \in [Server -> 0 .. 2] /\ silence[s] < 2 /\ endpoints[s] # "absent"
      /\ \A u \in Server : endpoints[u] = "absent" => silence[u] = 0
      /\ session \in [Connection -> Session] /\ SessionsSound(session, endpoints)
      /\ toRegistry \in [Connection -> Seq(Packet)] /\ dead \in [Server -> BOOLEAN] /\ faults \in 0 .. MaxFaults
  BY TypeParts, SessionsAreSound DEF SilenceGrows, RegistryTyped, NetworkTyped, ClientTyped
<1>2. silence' = [silence EXCEPT ![s] = silence[s] + 1]
  BY DEF SilenceGrows
<1>3. silence' \in [Server -> 0 .. 2]
  <2>1. \A n \in 0 .. 2 : n < 2 => n + 1 \in 0 .. 2
    OBVIOUS
  <2> QED  BY <1>1, <1>2, <2>1
<1>4. \A u \in Server : endpoints[u] = "absent" => silence'[u] = 0
  BY <1>1, <1>2
<1>5. faults' \in 0 .. MaxFaults /\ faults <= faults'
  <2>1. CASE Fault
    BY <2>1, FaultParts
  <2>2. CASE faults' = faults
    BY <1>1, <2>2, BoundAssumption
  <2> QED  BY <2>1, <2>2 DEF SilenceGrows
<1>6. UNCHANGED <<up, conn, made, cache, live, regUp, endpoints, seq, toClient, dead, toRegistry, session>>
  BY DEF SilenceGrows, client, network
<1>7. session' \in [Connection -> Session] /\ SessionsSound(session', endpoints)
  BY <1>1, <1>6
<1> QED  BY <1>1, <1>3, <1>4, <1>5, <1>6, <1>7, QuietKeeps

-----------------------------------------------------------------------------
(* The servers.                                                            *)

LEMMA HeartbeatSentKeeps == ASSUME Inv, NEW s \in Server, SendHeartbeat(s) PROVE Inv'
<1>1. /\ silence \in [Server -> 0 .. 2] /\ \A u \in Server : endpoints[u] = "absent" => silence[u] = 0
      /\ session \in [Connection -> Session] /\ SessionsSound(session, endpoints)
      /\ toRegistry \in [Connection -> Seq(Packet)] /\ dead \in [Server -> BOOLEAN] /\ faults \in 0 .. MaxFaults
  BY TypeParts, SessionsAreSound DEF RegistryTyped, NetworkTyped, ClientTyped
<1>2. UNCHANGED <<up, conn, made, cache, live, regUp, endpoints, seq, toClient, silence, session, faults>>
  BY DEF SendHeartbeat, registry
<1>3. toRegistry' \in [Connection -> Seq(Packet)] /\ dead' \in [Server -> BOOLEAN]
  <2>1. CASE UNCHANGED <<toRegistry, dead>>
    BY <1>1, <2>1
  <2>2. CASE live[s] /\ toRegistry' = [toRegistry EXCEPT ![Present(s)] = Append(toRegistry[Present(s)], "Heartbeat")]
             /\ UNCHANGED dead
    <3>1. Present(s) \in Connection /\ "Heartbeat" \in Packet
      BY <2>2, LivePresent DEF Packet
    <3>2. Append(toRegistry[Present(s)], "Heartbeat") \in Seq(Packet)
      BY <1>1, <3>1
    <3> QED  BY <1>1, <2>2, <3>1, <3>2
  <2>3. CASE (\E failed \in BOOLEAN : dead' = [dead EXCEPT ![s] = failed]) /\ UNCHANGED toRegistry
    BY <1>1, <2>3
  <2> QED  BY <2>1, <2>2, <2>3 DEF SendHeartbeat, SendToRegistry
<1>4. faults' \in 0 .. MaxFaults /\ faults <= faults'
  BY <1>1, <1>2, BoundAssumption
<1>5. session' \in [Connection -> Session] /\ SessionsSound(session', endpoints)
  BY <1>1, <1>2
<1>6. silence' \in [Server -> 0 .. 2] /\ \A u \in Server : endpoints[u] = "absent" => silence'[u] = 0
  BY <1>1, <1>2
<1> QED  BY <1>2, <1>3, <1>4, <1>5, <1>6, QuietKeeps

\* A step of one server, which touches nothing of the others, nor the table.
LEMMA ServerKeeps ==
  ASSUME Inv, NEW s \in Server, ClientTyped', CacheTyped', NetworkTyped', faults <= faults',
         UNCHANGED <<regUp, endpoints, silence, seq>>, session' \in [Connection -> Session],
         \A u \in Server \ {s} :
            /\ up'[u] = up[u] /\ conn'[u] = conn[u] /\ made'[u] = made[u] /\ live'[u] = live[u]
            /\ toClient'[u] = toClient[u] /\ view'[u] = view[u] /\ lastSeq'[u] = lastSeq[u] /\ fresh'[u] = fresh[u],
         \A u \in Server : \A n \in 1 .. MaxFaults + 1 :
            u # s \/ session[<<u, n>>] # NoSession => session'[<<u, n>>] = session[<<u, n>>],
         Linked(s)', live'[s] => Feed(s)'
  PROVE  Inv'
<1>1. Types'
  BY TypeParts DEF Types, RegistryTyped
<1>2. ASSUME NEW u \in Server, u # s PROVE Linked(u)' /\ (live'[u] => Feed(u)')
  <2>1. u \in Server \ {s}
    BY <1>2
  <2>2. Linked(u) /\ (live[u] => Feed(u))
    BY TypeParts DEF ConnectionsSound, FeedSound
  <2>3. made'[u] <= faults' + IF live'[u] THEN 1 ELSE 0
    <3>1. made[u] \in Nat /\ faults \in Nat /\ faults' \in Nat
      BY TypeParts, BoundAssumption DEF ClientTyped, NetworkTyped
    <3> QED  BY <2>1, <2>2, <3>1 DEF Linked
  <2>4. \A n \in 1 .. MaxFaults + 1 : session'[<<u, n>>] = session[<<u, n>>]
    BY <1>2
  <2>5. live[u] => session'[Present(u)] = session[Present(u)] /\ Present(u)' = Present(u)
    <3>1. live[u] => made[u] \in 1 .. MaxFaults + 1
      BY <2>2, TypeParts, BoundAssumption DEF Linked, ClientTyped
    <3> QED  BY <2>1, <2>4, <3>1 DEF Present
  <2>6. Linked(u)'
    BY <2>1, <2>2, <2>3, <2>4, <2>5 DEF Linked, Present
  <2>7. live'[u] => Feed(u)'
    BY <2>1, <2>2 DEF Feed, Numbered
  <2> QED  BY <2>6, <2>7
<1>3. ConnectionsSound' /\ FeedSound'
  BY <1>2 DEF ConnectionsSound, FeedSound
<1>4. NoGhost'
  <2> SUFFICES ASSUME NEW u \in Server, endpoints'[u] # "absent"
               PROVE  \E n \in 1 .. MaxFaults + 1 : session'[<<u, n>>].registered
    BY DEF NoGhost
  <2>1. PICK n \in 1 .. MaxFaults + 1 : session[<<u, n>>].registered
    BY TypeParts DEF NoGhost
  <2>2. session[<<u, n>>] # NoSession
    BY <2>1, Constant
  <2> QED  BY <2>1, <2>2
<1> QED  BY <1>1, <1>3, <1>4 DEF Inv

\* Nothing but what the cache knows and the queue it reads changes.
LEMMA ReceiveKeeps == ASSUME Inv, NEW s \in Server, ReceiveSnapshot(s) PROVE Inv'
<1>1. /\ up[s] /\ conn[s] # 0 /\ toClient[s] # << >>
      /\ UNCHANGED <<client, registry, live, toRegistry, faults>>
  BY DEF ReceiveSnapshot
<1>2. PICK q : q = toClient[s]
  OBVIOUS
<1>3. q \in Seq(Snapshot) /\ q # << >> /\ toClient \in [Server -> Seq(Snapshot)]
  BY <1>1, <1>2, TypeParts DEF NetworkTyped
<1>4. toClient' = [toClient EXCEPT ![s] = Tail(q)]
  BY <1>2 DEF ReceiveSnapshot
<1>5. Head(q) \in Snapshot /\ Tail(q) \in Seq(Snapshot)
  BY <1>3
<1>6. Head(q).table \in Table /\ Head(q).seq \in Nat
  BY <1>5 DEF Snapshot
<1>7. \/ /\ Head(q).seq >= lastSeq[s]
         /\ view' = [view EXCEPT ![s] = Head(q).table] /\ lastSeq' = [lastSeq EXCEPT ![s] = Head(q).seq]
         /\ fresh' = [fresh EXCEPT ![s] = TRUE]
      \/ /\ ~ (Head(q).seq >= lastSeq[s]) /\ UNCHANGED <<view, lastSeq, fresh>>
  BY <1>2 DEF ReceiveSnapshot, Accepted, cache
<1>8. CacheTyped /\ CacheTyped' /\ ClientTyped' /\ NetworkTyped'
  <2>1. CacheTyped'
    BY <1>6, <1>7, TypeParts DEF CacheTyped
  <2>2. ClientTyped'
    BY <1>1, TypeParts DEF ClientTyped, client
  <2>3. NetworkTyped'
    BY <1>1, <1>3, <1>4, <1>5, TypeParts DEF NetworkTyped
  <2> QED  BY <2>1, <2>2, <2>3, TypeParts
<1>9. Linked(s)'
  <2>1. Linked(s)
    BY TypeParts DEF ConnectionsSound
  <2> QED  BY <1>1, <2>1 DEF Linked, Present, client, registry
<1>10. ASSUME live'[s] PROVE Feed(s)'
  <2>1. Feed(s) /\ seq \in Nat /\ seq' = seq /\ endpoints' = endpoints /\ lastSeq[s] \in Nat
    BY <1>1, <1>8, <1>10, TypeParts DEF FeedSound, RegistryTyped, registry, CacheTyped
  <2>2. Numbered(q, seq) /\ HealthyOnly(q[Len(q)].table) = HealthyOnly(endpoints)
    BY <1>2, <1>3, <2>1 DEF Feed
  <2>3. /\ Numbered(Tail(q), seq)
        /\ 1 \in DOMAIN q /\ Head(q) = q[1] /\ q[1].seq <= seq
        /\ \A i \in DOMAIN Tail(q) : i + 1 \in DOMAIN q /\ Tail(q)[i] = q[i + 1] /\ q[1].seq <= Tail(q)[i].seq
        /\ Tail(q) # << >> => Tail(q)[Len(Tail(q))] = q[Len(q)]
        /\ Tail(q) = << >> => Head(q) = q[Len(q)]
    BY <1>3, <2>1, <2>2, QueueTail
  <2>4. PICK r : r = Tail(q)
    OBVIOUS
  <2>5. toClient'[s] = r /\ Numbered(r, seq) /\ Numbered(toClient[s], seq)'
    BY <1>3, <1>4, <2>1, <2>3, <2>4 DEF Numbered
  <2>6. r # << >> => HealthyOnly(r[Len(r)].table) = HealthyOnly(endpoints)
    BY <2>2, <2>3, <2>4
  <2>7. CASE Head(q).seq >= lastSeq[s] /\ view' = [view EXCEPT ![s] = Head(q).table]
             /\ lastSeq' = [lastSeq EXCEPT ![s] = Head(q).seq] /\ fresh' = [fresh EXCEPT ![s] = TRUE]
    <3>1. lastSeq'[s] = q[1].seq /\ view'[s] = Head(q).table
      BY <1>8, <2>3, <2>7 DEF CacheTyped
    <3>2. lastSeq'[s] <= seq /\ \A i \in DOMAIN r : lastSeq'[s] <= r[i].seq
      BY <2>3, <2>4, <3>1
    <3>3. r = << >> => HealthyOnly(view'[s]) = HealthyOnly(endpoints)
      BY <2>2, <2>3, <2>4, <3>1
    <3> QED  BY <2>1, <2>5, <2>6, <3>2, <3>3 DEF Feed
  <2>8. CASE ~ (Head(q).seq >= lastSeq[s]) /\ UNCHANGED <<view, lastSeq, fresh>>
    <3>1. ~ fresh[s]
      <4>1. fresh[s] => lastSeq[s] <= q[1].seq
        BY <1>2, <2>1, <2>3 DEF Feed
      <4>2. q[1].seq \in Nat
        BY <1>6, <2>3
      <4> QED  BY <2>1, <2>3, <2>8, <4>1, <4>2
    <3> QED  BY <2>1, <2>5, <2>6, <2>8, <3>1 DEF Feed
  <2> QED  BY <1>7, <2>7, <2>8
<1>11. faults <= faults' /\ session' \in [Connection -> Session] /\ session' = session
       /\ UNCHANGED <<regUp, endpoints, silence, seq>>
  BY <1>1, TypeParts, BoundAssumption DEF NetworkTyped, RegistryTyped, registry
<1>12. ASSUME NEW u \in Server \ {s}
       PROVE  /\ up'[u] = up[u] /\ conn'[u] = conn[u] /\ made'[u] = made[u] /\ live'[u] = live[u]
              /\ toClient'[u] = toClient[u] /\ view'[u] = view[u] /\ lastSeq'[u] = lastSeq[u] /\ fresh'[u] = fresh[u]
  BY <1>1, <1>3, <1>4, <1>7, <1>8 DEF client, CacheTyped
<1> QED  BY <1>8, <1>9, <1>10, <1>11, <1>12, ServerKeeps

LEMMA DisconnectKeeps == ASSUME Inv, NEW s \in Server, NoticeDisconnect(s) PROVE Inv'
<1>1. /\ ~ live[s] /\ conn' = [conn EXCEPT ![s] = 0] /\ toClient' = [toClient EXCEPT ![s] = << >>]
      /\ UNCHANGED <<up, dead, made, cache, registry, live, toRegistry, faults>>
  BY DEF NoticeDisconnect
<1>2. ClientTyped' /\ CacheTyped' /\ NetworkTyped'
  <2>1. ClientTyped'
    BY <1>1, TypeParts DEF ClientTyped
  <2>2. CacheTyped'
    BY <1>1, TypeParts DEF CacheTyped, cache
  <2>3. << >> \in Seq(Snapshot)
    OBVIOUS
  <2>4. NetworkTyped'
    BY <1>1, <2>3, TypeParts DEF NetworkTyped
  <2> QED  BY <2>1, <2>2, <2>4
<1>3. Linked(s)'
  <2>1. Linked(s) /\ conn'[s] = 0 /\ toClient'[s] = << >>
    BY <1>1, TypeParts DEF ConnectionsSound, ClientTyped, NetworkTyped
  <2> QED  BY <1>1, <2>1 DEF Linked, Present, registry
<1>4. faults <= faults' /\ session' \in [Connection -> Session] /\ session' = session
      /\ UNCHANGED <<regUp, endpoints, silence, seq>> /\ ~ live'[s]
  BY <1>1, TypeParts, BoundAssumption DEF NetworkTyped, RegistryTyped, registry
<1>5. ASSUME NEW u \in Server \ {s}
      PROVE  /\ up'[u] = up[u] /\ conn'[u] = conn[u] /\ made'[u] = made[u] /\ live'[u] = live[u]
             /\ toClient'[u] = toClient[u] /\ view'[u] = view[u] /\ lastSeq'[u] = lastSeq[u] /\ fresh'[u] = fresh[u]
  BY <1>1, TypeParts DEF cache, ClientTyped, NetworkTyped
<1> QED  BY <1>2, <1>3, <1>4, <1>5, ServerKeeps

\* A server without a connection makes one, for which a fault accounts.
LEMMA ConnectKeeps ==
  ASSUME Inv, NEW s \in Server, conn[s] = 0, NEW packets \in Seq(Packet), Connect(s, packets),
         up' \in [Server -> BOOLEAN], up'[s], \A u \in Server \ {s} : up'[u] = up[u],
         UNCHANGED <<view, lastSeq, toClient, regUp, endpoints, silence, seq, faults>>
  PROVE  Inv'
<1>1. Linked(s) /\ ClientTyped /\ CacheTyped /\ RegistryTyped /\ NetworkTyped
  BY TypeParts DEF ConnectionsSound
<1>2. ~ live[s] /\ toClient[s] = << >>
  BY <1>1 DEF Linked
<1>3. PICK m : m = made[s] + 1
  OBVIOUS
<1>4. m \in 1 .. MaxFaults + 1 /\ made[s] \in Nat /\ made[s] < m /\ m <= faults + 1 /\ m \in Nat /\ m # 0
  <2>1. made[s] \in Nat /\ faults \in Nat /\ faults <= MaxFaults /\ MaxFaults \in Nat
    BY <1>1, BoundAssumption DEF ClientTyped, NetworkTyped
  <2>2. made[s] <= faults
    BY <1>1, <1>2, <2>1 DEF Linked
  <2> QED  BY <1>3, <2>1, <2>2
<1>5. made' = [made EXCEPT ![s] = m] /\ made'[s] = m
  BY <1>1, <1>3 DEF Connect, ClientTyped
<1>6. PICK c : c = <<s, m>>
  OBVIOUS
<1>7. c \in Connection
  BY <1>4, <1>6 DEF Connection
<1>8. /\ conn' = [conn EXCEPT ![s] = m] /\ live' = [live EXCEPT ![s] = TRUE] /\ dead' = [dead EXCEPT ![s] = FALSE]
      /\ toRegistry' = [toRegistry EXCEPT ![c] = packets]
      /\ session' = [session EXCEPT ![c] = [NoSession EXCEPT !.state = "open"]]
      /\ fresh' = [fresh EXCEPT ![s] = FALSE]
  BY <1>5, <1>6 DEF Connect
<1>9. [NoSession EXCEPT !.state = "open"] \in Session /\ [NoSession EXCEPT !.state = "open"].state = "open"
  BY DEF NoSession, Session
<1>10. ClientTyped'
  <2>1. conn' \in [Server -> Nat] /\ dead' \in [Server -> BOOLEAN] /\ made' \in [Server -> 0 .. MaxFaults + 1]
    <3>1. m \in 0 .. MaxFaults + 1
      BY <1>4, BoundAssumption
    <3> QED  BY <1>1, <1>4, <1>5, <1>8, <3>1 DEF ClientTyped
  <2>2. \A u \in Server : conn'[u] \in {0, made'[u]}
    BY <1>1, <1>5, <1>8 DEF ClientTyped
  <2> QED  BY <2>1, <2>2 DEF ClientTyped
<1>11. CacheTyped' /\ ~ fresh'[s]
  BY <1>1, <1>8 DEF CacheTyped
<1>12. NetworkTyped' /\ live'[s]
  BY <1>1, <1>8 DEF NetworkTyped
<1>13. session' \in [Connection -> Session] /\ session'[c].state = "open" /\ \A d \in Connection : d # c => session'[d] = session[d]
  BY <1>1, <1>7, <1>8, <1>9 DEF RegistryTyped
<1>14. session[c] = NoSession
  BY <1>1, <1>4, <1>6 DEF Linked
<1>15. ASSUME NEW u \in Server, NEW n \in 1 .. MaxFaults + 1, u # s \/ session[<<u, n>>] # NoSession
       PROVE  session'[<<u, n>>] = session[<<u, n>>]
  <2>1. <<u, n>> \in Connection /\ <<u, n>> # c
    BY <1>6, <1>14, <1>15 DEF Connection
  <2> QED  BY <1>13, <2>1
<1>16. Linked(s)'
  <2>1. \A n \in 1 .. MaxFaults + 1 : n > m => session'[<<s, n>>] = NoSession
    <3> SUFFICES ASSUME NEW n \in 1 .. MaxFaults + 1, n > m PROVE session'[<<s, n>>] = NoSession
      OBVIOUS
    <3>1. n > made[s] /\ n # m
      BY <1>4
    <3>2. <<s, n>> \in Connection /\ <<s, n>> # c
      BY <1>6, <3>1 DEF Connection
    <3> QED  BY <1>1, <1>13, <3>1, <3>2 DEF Linked
  <2>2. conn'[s] = m /\ made'[s] = m /\ m # 0 /\ Present(s)' = c
    BY <1>1, <1>4, <1>5, <1>6, <1>8 DEF ClientTyped, Present
  <2>3. session'[Present(s)'].state = "open"
    BY <1>13, <2>2
  <2>4. m <= faults' + IF live'[s] THEN 1 ELSE 0
    BY <1>4, <1>12
  <2> QED  BY <2>1, <2>2, <2>3, <2>4 DEF Linked, Present
<1>17. Feed(s)'
  <2>1. toClient'[s] = << >> /\ ~ fresh'[s]
    BY <1>2, <1>11
  <2> QED  BY <2>1 DEF Feed, Numbered
<1>18. ASSUME NEW u \in Server \ {s}
       PROVE  /\ up'[u] = up[u] /\ conn'[u] = conn[u] /\ made'[u] = made[u] /\ live'[u] = live[u]
              /\ toClient'[u] = toClient[u] /\ view'[u] = view[u] /\ lastSeq'[u] = lastSeq[u] /\ fresh'[u] = fresh[u]
  BY <1>1, <1>5, <1>8 DEF ClientTyped, CacheTyped, NetworkTyped
<1>19. faults <= faults'
  BY <1>1, BoundAssumption DEF NetworkTyped
<1> QED  BY <1>10, <1>11, <1>12, <1>13, <1>15, <1>16, <1>17, <1>18, <1>19, ServerKeeps

LEMMA PacketSequences == <<"Register">> \in Seq(Packet) /\ <<"Register", "ListEndpoints">> \in Seq(Packet)
<1>1. "Register" \in Packet /\ "ListEndpoints" \in Packet
  BY DEF Packet
<1> HIDE DEF Packet
<1> QED  BY <1>1

LEMMA ReconnectKeeps == ASSUME Inv, NEW s \in Server, Reconnect(s) PROVE Inv'
<1>1. conn[s] = 0 /\ Connect(s, <<"Register">>)
  BY DEF Reconnect, WantsConnection
<1>2. UNCHANGED <<view, lastSeq, toClient, regUp, endpoints, silence, seq, faults>>
  BY DEF Reconnect
<1>3. up' \in [Server -> BOOLEAN] /\ up'[s] /\ \A u \in Server \ {s} : up'[u] = up[u]
  BY TypeParts DEF Reconnect, WantsConnection, ClientTyped
<1> QED  BY <1>1, <1>2, <1>3, PacketSequences, ConnectKeeps

LEMMA StartKeeps == ASSUME Inv, NEW s \in Server, Start(s) PROVE Inv'
<1>1. ~ up[s] /\ conn[s] = 0
  BY TypeParts DEF Start, ConnectionsSound, Linked
<1>2. up' = [up EXCEPT ![s] = TRUE] /\ UNCHANGED <<view, lastSeq, toClient, regUp, endpoints, silence, seq, faults>>
  BY DEF Start
<1>3. up' \in [Server -> BOOLEAN] /\ up'[s] /\ \A u \in Server \ {s} : up'[u] = up[u]
  BY <1>2, TypeParts DEF ClientTyped
<1>4. CASE Connect(s, <<"Register", "ListEndpoints">>)
  BY <1>1, <1>2, <1>3, <1>4, PacketSequences, ConnectKeeps
<1>5. CASE UNCHANGED <<conn, dead, made, live, toRegistry, session, fresh>>
  <2>1. ClientTyped' /\ CacheTyped' /\ NetworkTyped'
    BY <1>2, <1>3, <1>5, TypeParts DEF ClientTyped, CacheTyped, NetworkTyped
  <2>2. Linked(s) /\ ~ live[s] /\ conn'[s] = 0
    BY <1>1, <1>5, TypeParts DEF ConnectionsSound, Linked
  <2>3. Linked(s)' /\ ~ live'[s]
    BY <1>2, <1>5, <2>2 DEF Linked, Present
  <2>4. faults <= faults' /\ session' \in [Connection -> Session] /\ session' = session
    BY <1>2, <1>5, TypeParts, BoundAssumption DEF NetworkTyped, RegistryTyped
  <2>5. ASSUME NEW u \in Server \ {s}
        PROVE  /\ up'[u] = up[u] /\ conn'[u] = conn[u] /\ made'[u] = made[u] /\ live'[u] = live[u]
               /\ toClient'[u] = toClient[u] /\ view'[u] = view[u] /\ lastSeq'[u] = lastSeq[u] /\ fresh'[u] = fresh[u]
    BY <1>2, <1>3, <1>5
  <2> QED  BY <1>2, <2>1, <2>3, <2>4, <2>5, ServerKeeps
<1> QED  BY <1>4, <1>5 DEF Start

-----------------------------------------------------------------------------
(* What goes wrong.                                                        *)

\* A process that is gone, by a crash or its shutdown.
LEMMA GoneKeeps ==
  ASSUME Inv, NEW s \in Server, Fault, Gone(s), UNCHANGED <<made, registry>>,
         toRegistry' \in [Connection -> Seq(Packet)]
  PROVE  Inv'
<1>1. Linked(s) /\ ClientTyped /\ CacheTyped /\ RegistryTyped /\ NetworkTyped
  BY TypeParts DEF ConnectionsSound
<1>2. /\ up' = [up EXCEPT ![s] = FALSE] /\ conn' = [conn EXCEPT ![s] = 0] /\ dead' = [dead EXCEPT ![s] = FALSE]
      /\ live' = [live EXCEPT ![s] = FALSE] /\ toClient' = [toClient EXCEPT ![s] = << >>]
      /\ view' = [view EXCEPT ![s] = NoEndpoints] /\ lastSeq' = [lastSeq EXCEPT ![s] = 0]
      /\ fresh' = [fresh EXCEPT ![s] = FALSE]
  BY DEF Gone
<1>3. faults \in Nat /\ faults' \in 0 .. MaxFaults /\ faults' = faults + 1 /\ faults <= faults'
  BY FaultParts
<1>4. ClientTyped'
  BY <1>1, <1>2 DEF ClientTyped
<1>5. CacheTyped'
  BY <1>1, <1>2, Constant DEF CacheTyped
<1>6. NetworkTyped'
  <2>1. << >> \in Seq(Snapshot)
    OBVIOUS
  <2> QED  BY <1>1, <1>2, <1>3, <2>1 DEF NetworkTyped
<1>7. Linked(s)' /\ ~ live'[s]
  <2>1. ~ live'[s] /\ conn'[s] = 0 /\ toClient'[s] = << >>
    BY <1>1, <1>2 DEF ClientTyped, NetworkTyped
  <2>2. made[s] <= faults'
    <3>1. made[s] \in Nat
      BY <1>1, BoundAssumption DEF ClientTyped
    <3> QED  BY <1>1, <1>3, <3>1 DEF Linked
  <2>3. made[s] \in Nat /\ faults' \in Nat
    BY <1>1, <1>3, BoundAssumption DEF ClientTyped
  <2>4. made'[s] <= faults' + IF live'[s] THEN 1 ELSE 0
    BY <2>1, <2>2, <2>3
  <2> QED  BY <1>1, <2>1, <2>4 DEF Linked, registry
<1>8. session' \in [Connection -> Session] /\ session' = session /\ UNCHANGED <<regUp, endpoints, silence, seq>>
  BY <1>1 DEF RegistryTyped, registry
<1>9. ASSUME NEW u \in Server \ {s}
      PROVE  /\ up'[u] = up[u] /\ conn'[u] = conn[u] /\ made'[u] = made[u] /\ live'[u] = live[u]
             /\ toClient'[u] = toClient[u] /\ view'[u] = view[u] /\ lastSeq'[u] = lastSeq[u] /\ fresh'[u] = fresh[u]
  BY <1>1, <1>2 DEF ClientTyped, CacheTyped, NetworkTyped
<1> QED  BY <1>3, <1>4, <1>5, <1>6, <1>7, <1>8, <1>9, ServerKeeps

LEMMA CrashKeeps == ASSUME Inv, NEW s \in Server, Crash(s) PROVE Inv'
<1>1. toRegistry' \in [Connection -> Seq(Packet)]
  BY TypeParts DEF Crash, NetworkTyped
<1>2. Fault /\ Gone(s) /\ UNCHANGED <<made, registry>>
  BY DEF Crash
<1> QED  BY <1>1, <1>2, GoneKeeps

LEMMA StopKeeps == ASSUME Inv, NEW s \in Server, Stop(s) PROVE Inv'
<1>1. toRegistry \in [Connection -> Seq(Packet)]
  BY TypeParts DEF NetworkTyped
<1>2. CASE live[s] /\ toRegistry' = [toRegistry EXCEPT ![Present(s)] = Append(toRegistry[Present(s)], "Deregister")]
  <2>1. Present(s) \in Connection /\ "Deregister" \in Packet
    BY <1>2, LivePresent DEF Packet
  <2>2. Append(toRegistry[Present(s)], "Deregister") \in Seq(Packet)
    BY <1>1, <2>1
  <2>3. toRegistry' \in [Connection -> Seq(Packet)]
    BY <1>1, <1>2, <2>1, <2>2
  <2>4. Fault /\ Gone(s) /\ UNCHANGED <<made, registry>>
    BY DEF Stop
  <2> QED  BY <2>3, <2>4, GoneKeeps
<1>3. CASE toRegistry' = toRegistry
  <2>1. Fault /\ Gone(s) /\ UNCHANGED <<made, registry>> /\ toRegistry' \in [Connection -> Seq(Packet)]
    BY <1>1, <1>3 DEF Stop
  <2> QED  BY <2>1, GoneKeeps
<1> QED  BY <1>2, <1>3 DEF Stop

LEMMA LinkKeeps == ASSUME Inv, NEW s \in Server, LinkBreaks(s) PROVE Inv'
<1>1. Linked(s) /\ ClientTyped /\ CacheTyped /\ RegistryTyped /\ NetworkTyped
  BY TypeParts DEF ConnectionsSound
<1>2. /\ live[s] /\ live' = [live EXCEPT ![s] = FALSE]
      /\ UNCHANGED <<client, cache, registry, toRegistry, toClient>>
  BY DEF LinkBreaks
<1>3. faults \in Nat /\ faults' \in 0 .. MaxFaults /\ faults' = faults + 1 /\ faults <= faults'
  BY FaultParts DEF LinkBreaks
<1>4. ClientTyped' /\ CacheTyped'
  BY <1>1, <1>2 DEF ClientTyped, CacheTyped, client, cache
<1>5. NetworkTyped' /\ ~ live'[s]
  BY <1>1, <1>2, <1>3 DEF NetworkTyped
<1>6. Linked(s)'
  <2>1. made[s] \in Nat /\ faults' \in Nat
    BY <1>1, <1>3, BoundAssumption DEF ClientTyped
  <2>2. made[s] <= faults' + IF live'[s] THEN 1 ELSE 0
    BY <1>1, <1>2, <1>3, <1>5, <2>1 DEF Linked
  <2> QED  BY <1>1, <1>2, <1>5, <2>2 DEF Linked, registry, client
<1>7. session' \in [Connection -> Session] /\ session' = session /\ UNCHANGED <<regUp, endpoints, silence, seq>>
  BY <1>1, <1>2 DEF RegistryTyped, registry
<1>8. ASSUME NEW u \in Server \ {s}
      PROVE  /\ up'[u] = up[u] /\ conn'[u] = conn[u] /\ made'[u] = made[u] /\ live'[u] = live[u]
             /\ toClient'[u] = toClient[u] /\ view'[u] = view[u] /\ lastSeq'[u] = lastSeq[u] /\ fresh'[u] = fresh[u]
  BY <1>1, <1>2 DEF client, cache, NetworkTyped
<1> QED  BY <1>3, <1>4, <1>5, <1>6, <1>7, <1>8, ServerKeeps

LEMMA RegistryCrashKeeps == ASSUME Inv, RegistryCrash PROVE Inv'
<1>1. /\ regUp' = FALSE /\ endpoints' = NoEndpoints /\ seq' = 0
      /\ silence' = [s \in Server |-> 0] /\ session' = [c \in Connection |-> NoSession]
      /\ toRegistry' = [c \in Connection |-> << >>] /\ live' = [s \in Server |-> FALSE]
      /\ UNCHANGED <<client, cache, toClient>>
  BY DEF RegistryCrash
<1>2. faults \in Nat /\ faults' \in 0 .. MaxFaults /\ faults' = faults + 1 /\ faults <= faults'
  BY FaultParts DEF RegistryCrash
<1>3. ClientTyped' /\ CacheTyped'
  BY <1>1, TypeParts DEF ClientTyped, CacheTyped, client, cache
<1>4. RegistryTyped'
  <2>1. endpoints' \in Table /\ session' \in [Connection -> Session] /\ seq' \in Nat /\ regUp' \in BOOLEAN
    BY <1>1, Constant
  <2>2. silence' \in [Server -> 0 .. 2] /\ \A s \in Server : silence'[s] = 0
    BY <1>1
  <2> QED  BY <2>1, <2>2 DEF RegistryTyped
<1>5. NetworkTyped'
  <2>1. << >> \in Seq(Packet)
    OBVIOUS
  <2> QED  BY <1>1, <1>2, <2>1, TypeParts DEF NetworkTyped
<1>6. ConnectionsSound'
  <2> SUFFICES ASSUME NEW s \in Server PROVE Linked(s)'
    BY DEF ConnectionsSound
  <2>1. Linked(s) /\ made[s] \in Nat /\ faults' \in Nat /\ ~ live'[s]
    BY <1>1, <1>2, TypeParts, BoundAssumption DEF ConnectionsSound, ClientTyped
  <2>2. made[s] <= faults' + IF live'[s] THEN 1 ELSE 0
    BY <1>2, <2>1 DEF Linked
  <2>3. \A n \in 1 .. MaxFaults + 1 : session'[<<s, n>>] = NoSession
    BY <1>1 DEF Connection
  <2> QED  BY <1>1, <2>1, <2>2, <2>3 DEF Linked, client
<1>7. NoGhost'
  BY <1>1 DEF NoGhost, NoEndpoints
<1>8. FeedSound'
  BY <1>1 DEF FeedSound
<1> QED  BY <1>3, <1>4, <1>5, <1>6, <1>7, <1>8 DEF Inv, Types

LEMMA RegistryStartKeeps == ASSUME Inv, RegistryStart PROVE Inv'
<1>1. regUp' = TRUE /\ UNCHANGED <<client, cache, network, endpoints, silence, seq, session, faults>>
  BY DEF RegistryStart
<1>2. Types'
  BY <1>1, TypeParts DEF Types, ClientTyped, CacheTyped, RegistryTyped, NetworkTyped, client, cache, network
<1>3. ConnectionsSound'
  BY <1>1, TypeParts DEF ConnectionsSound, Linked, Present, client, network
<1>4. NoGhost'
  BY <1>1, TypeParts DEF NoGhost
<1>5. FeedSound'
  BY <1>1, TypeParts DEF FeedSound, Feed, Numbered, cache, network
<1> QED  BY <1>2, <1>3, <1>4, <1>5 DEF Inv

LEMMA StutterKeeps == ASSUME Inv, UNCHANGED vars PROVE Inv'
<1>1. Types'
  BY TypeParts DEF Types, ClientTyped, CacheTyped, RegistryTyped, NetworkTyped, vars, client, cache, network, registry
<1>2. ConnectionsSound'
  BY TypeParts DEF ConnectionsSound, Linked, Present, vars, client, network, registry
<1>3. NoGhost'
  BY TypeParts DEF NoGhost, vars, registry
<1>4. FeedSound'
  BY TypeParts DEF FeedSound, Feed, Numbered, vars, cache, network, registry
<1> QED  BY <1>1, <1>2, <1>3, <1>4 DEF Inv

-----------------------------------------------------------------------------
LEMMA InvNext == Inv /\ [Next]_vars => Inv'
<1> SUFFICES ASSUME Inv, [Next]_vars PROVE Inv'
  OBVIOUS
<1>1. ASSUME NEW s \in Server, ServerSteps(s) PROVE Inv'
  BY <1>1, ReconnectKeeps, HeartbeatSentKeeps, ReceiveKeeps, DisconnectKeeps DEF ServerSteps
<1>2. ASSUME NEW s \in Server, Start(s) \/ Crash(s) \/ Stop(s) \/ LinkBreaks(s) \/ SilenceGrows(s) PROVE Inv'
  BY <1>2, StartKeeps, CrashKeeps, StopKeeps, LinkKeeps, SilenceKeeps
<1>3. ASSUME NEW c \in Connection, SessionSteps(c) PROVE Inv'
  BY <1>3, RegisterKeeps, DeregisterKeeps, HeartbeatKeeps, ListKeeps, SessionClosesKeeps DEF SessionSteps, Handle
<1>4. CASE TickHeartbeats \/ RegistryCrash \/ RegistryStart
  BY <1>4, TickKeeps, RegistryCrashKeeps, RegistryStartKeeps
<1>5. CASE UNCHANGED vars
  BY <1>5, StutterKeeps
<1> QED  BY <1>1, <1>2, <1>3, <1>4, <1>5 DEF Next

\* What holds together in every state of the registry and its servers.
THEOREM Inductive == Spec => []Inv
BY InvInit, InvNext, PTL DEF Spec

\* Every variable keeps its type; a server that is connected holds the last connection
\* it made, and an endpoint that is absent is not waited for.
THEOREM TypeCorrect == Spec => []TypeOK
<1>1. Inv => TypeOK
  <2> SUFFICES ASSUME Inv PROVE TypeOK
    OBVIOUS
  <2>1. /\ up \in [Server -> BOOLEAN] /\ dead \in [Server -> BOOLEAN] /\ live \in [Server -> BOOLEAN]
        /\ \A s \in Server : conn[s] \in {0, made[s]} /\ made[s] \in 0 .. MaxFaults + 1
        /\ view \in [Server -> Table] /\ endpoints \in Table /\ silence \in [Server -> 0 .. 2]
        /\ \A s \in Server : endpoints[s] = "absent" => silence[s] = 0
    BY TypeParts DEF ClientTyped, CacheTyped, RegistryTyped, NetworkTyped
  <2>2. \A c \in Connection : session[c].state \in {"none", "open", "dead"}
    BY TypeParts DEF RegistryTyped, Session
  <2>3. ASSUME NEW c \in Connection PROVE Range(toRegistry[c]) \subseteq Packet
    <3>1. toRegistry[c] \in Seq(Packet)
      BY TypeParts DEF NetworkTyped
    <3> QED  BY <3>1 DEF Range
  <2>4. ASSUME NEW s \in Server, NEW k \in DOMAIN toClient[s] PROVE toClient[s][k].table \in Table
    <3>1. toClient[s] \in Seq(Snapshot)
      BY TypeParts DEF NetworkTyped
    <3>2. toClient[s][k] \in Snapshot
      BY <3>1
    <3> QED  BY <3>2 DEF Snapshot
  <2> QED  BY <2>1, <2>2, <2>3, <2>4 DEF TypeOK
<1> QED  BY <1>1, Inductive, PTL

\* MServiceRegistry leaves no endpoint behind: whatever the sessions of a server that
\* restarts or reconnects do to each other, one is registered that takes it away.
THEOREM EndpointsHaveSessions == Spec => []NoGhost
<1>1. Inv => NoGhost
  BY DEF Inv
<1> QED  BY <1>1, Inductive, PTL

\* A cache that accepted a snapshot over its present connection and has read all it
\* was sent sees the healthy endpoints the registry has: OnEndpointChange refuses
\* nothing that it needs, and the last snapshot it is sent is never stale.
THEOREM CachesCatchUp == Spec => []CaughtUp
<1>1. Inv => CaughtUp
  BY TypeParts DEF CaughtUp, Following, FeedSound, Feed
<1> QED  BY <1>1, Inductive, PTL
=============================================================================
