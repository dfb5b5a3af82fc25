# Mession: a TLA+ verification project

This directory holds TLA+ modules of the Mession server framework (C++20, `src/Source`),
the TLC configurations that check them on small instances, and theorems about them whose
proofs TLAPS checks. All paths below are relative to `src/Source` unless they start with
`Docs/`.

What is covered so far: the table of pending server calls, the outgoing server connection, the
gateway with the pool of connections it forwards over, service discovery and the registry, the
actor mailbox and the actor outbox, the player service, and the asynchronous log. Sections 1 to 3 are the inventory, 4 to 7 say what
is modelled, checked and proved, 8 lists disagreements of code and documents, 9 is the plan.

## 1. The system

A deployment is a set of server processes: one *ServiceRegistry*, *Gateways* that clients
connect to, and services (*EchoService*, *PlayerService*, ...) that the gateways forward to.
Every process runs the loop of `MNetServerBase::Run` (`Common/Net/NetServerBase.cpp:136-150`):

    MasterLoop.RunOnce()            sockets, tasks, accepted connections
    TickBackends()                  outgoing connections: receive, heartbeat, reconnect
    PumpServerCallMaintenance()     pending server calls: broken links and deadlines

The Gateway and the registry do everything on this thread. EchoService and PlayerService
hand accepted connections to *Sub reactors* (`Common/Runtime/Concurrency/SubReactorPool.cpp`),
threads with an event loop of their own: requests of different connections run in parallel
there, and meet in process-wide tables that are guarded by one mutex each. There is no
multi-object locking. The hard part is everything that happens between two critical
sections, and between two frames of the loop.

| Component | State | Operations | Hard behaviour |
|---|---|---|---|
| RPC call table (`Common/Net/Rpc/RpcServerCall`) | `GPendingServerCalls` by CallId, next CallId, promises | `CallServerFunction`, register, cancel, consume, pump, dispatch | three parties settle one promise; callbacks after the unlock; sources compared by address |
| Outgoing connection (`Common/Net/ServerConnection`) | `State`, `Transport`, reconnect timer, attempts | connect, handshake, tick, receive loop, disconnect | the handshake is itself a server call; continuations re-enter the loop that runs them |
| Actor outbox and routes (`Common/Runtime/Actor/MActorSystem`, `Common/Net/Routing/ActorRouter`, `Common/Net/Rpc/MRpcChannel`) | outbox and sequence number per actor, route lists | `SendActor`, enqueue, drain, acknowledge, register | posts of many threads against drains and acknowledgements of the main thread |
| Player service (`Servers/Player`) | player objects, item containers | `RegisterPlayer`, member calls | check-then-act over two tables, member state without a lock |
| Actor mailbox (`MActorSystem`, `MActorHandle`, `SubReactorPool`) | local actors, pending counters, Sub queues | register, unregister, dispatch, save, load | lifetime of an actor against its queued messages |
| Discovery client (`Common/Net/ServiceDiscovery/EndpointCache`) | endpoints, `LastSeq`, pooled connections | subscribe, register, push, purge, `GetOrConnect` | registry restart, reconnect, stale pushes |
| Registry (`Servers/ServiceRegistry`) | endpoints, sessions, sequence numbers | register, heartbeat, evict, push | a server that is back before its old session is gone |
| Event loop (`Common/Runtime/EventLoop`, `Common/Net/NetServerBase`) | connections, pending tasks | accept, poll, close, post | close callbacks, hand-over to Subs |
| Log pipeline (`Common/Runtime/Log`) | lock-free ring, inboxes of the writers | enqueue, dispatch, write, stop | publication order, bounded inbox, stopping order |
| Gateway (`Servers/Gateway`) | client sessions | forward, answer | answers for clients that have left |
| Async (`Common/Runtime/Async`) | futures, executors | await, resume | the thread a continuation runs on |

They interact by calls and callbacks: a service calls `CallServerFunction` on a connection
that the discovery client pools; the connection's receive loop hands responses to the call
table; the call table completes promises, whose continuations call back into connections
(`SendHandshake`), the discovery client or the gateway. `SendActor` asks the route table and
the discovery client for connections, the discovery client drains the outbox when an
endpoint appears and acknowledges entries when the peer confirms.

`PROJECT.json` lists every part, the ones that are not modelled too, and the hazards: the
places where a test would hardly reach what can go wrong, each with the property that covers
it or the reason why none does.

## 2. What makes each part correct

- *Call table.* A call is completed at most once, by its own answer and nothing else; it does
  not stay in the table after that; every call is settled whatever the peer does.
- *Connection.* A session is authenticated by its own handshake only, and closed by its own
  failure only; it is never left half open; it recovers when failures stop; the loop never
  uses a channel that is gone.
- *Outbox.* Each thread's posts wait in order; the copy of a post for one route is not written
  twice, and reaches the server of that route; an acknowledgement removes exactly what it
  acknowledges; the outbox stays within its limit; a post that could not be sent is kept.
- *Player service.* An online player is one object; whoever is told it is registered will find
  it; the items the answers report as used are gone.
- *Mailbox.* The pending counter of an actor is exact, so no interleaving shuts it off or lets
  its mailbox grow; `OnCreated` and `OnMessage`, which are posted, run on one thread, and so
  does `OnDestroyed`, which is not posted; messages of one sender keep their order; a
  message accepted is handled, be the actor replaced meanwhile; a stale list of actors reaches
  the cache only when two changes overlap.
- *Discovery.* No endpoint is left behind by sessions of a server that restarts or reconnects; a
  dead server leaves the table; a client that has read what it was sent sees the table; a server
  that stays connected is listed.
- *Log.* While calls take turns the ring is a queue, and what is published is written; what leaves
  the ring reaches its sinks once and in order; shutdown takes all that was accepted, ends, and
  closes no sink before all that left the ring is written.
- *Gateway.* A forwarded request gets exactly one envelope, an answer only if the target gave it;
  no call loses its connection to a snapshot or to another request; a connection that stays in
  the pool is authenticated.

Some of these do not hold of the code; section 8 says which. Three of them are checked as they
stand, by the runs that expect a violation. Of the others the properties keep what is true: copies
of a post are not doubled, wherever they go (`NoDuplicates`); the posted methods run on one thread
(`OneThread`); the ring is a queue as far as the dispatcher takes it (`RingIsAQueue`); the table
agrees with the sessions (`NoGhost`, `CaughtUp`), though a live server may be in neither.

## 3. Order of importance

The call table first: everything that crosses processes is a server call. Then the connection,
whose handshake is one. Then the outbox, which promises delivery on top of both, and the
player service as the one business service that runs on several Subs. Then the infrastructure
that all of them stand on: the mailbox, discovery and the log. The gateway is a composition: a
client request through the call table, the pool of discovery and the connections at once.

## 4. The modules

| Module | What it is |
|---|---|
| `CallContract` | what a caller may rely on: a call that was made is settled once, with an answer only if the peer answered, and is settled eventually |
| `ServerCall` | the call table and all threads at it; refines `CallContract` |
| `MCServerCall` | symmetry for TLC |
| `ServerCallProofs` | theorems about `ServerCall` |
| `ServerConnection` | one outgoing connection and the frame that drives it |
| `ServerConnectionProofs` | theorems about `ServerConnection` |
| `Gateway`, `MCGateway` | client requests, the call table and the connection pool in one main loop; refines `CallContract` |
| `GatewayProofs` | theorems about `Gateway` |
| `Discovery` | the registry and the endpoint caches of its servers |
| `DiscoveryProofs` | theorems about `Discovery` |
| `ActorMailbox` | one actor, the threads that use it and the Subs that run it |
| `ActorMailboxProofs` | theorems about `ActorMailbox` |
| `LogPipeline`, `MCLogPipeline` | the ring, the dispatcher, the writers and the shutdown of the log |
| `LogPipelineProofs` | theorems about `LogPipeline` |
| `ActorOutbox`, `MCActorOutbox` | remote posts of one actor |
| `ActorOutboxProofs` | theorems about `ActorOutbox` |
| `PlayerService` | one player on several Subs |
| `PlayerServiceProofs` | theorems about `PlayerService` |

Each definition is mapped to the lines it stands for in `PROJECT.json`. Conventions common
to all modules: one action per critical section, and one per stretch of code that runs
without a lock where another thread can see the difference; an operator keeps the name of the
function it models; a comment that starts with *Mutation* marks an operator that changes one
definition the way a plausible bug would. The mutation operators are not used by the
specification; each property is checked to fail when one of them takes the place of the
definition it belongs to.

**ServerCall.** `thread[c]` is the program counter of `CallServerFunction` for call `c`:
`RegisterServerCall`, then `SendRequest`, or `SendFails`, `CancelServerCall`, `FailPromise`.
The pump is `PumpCollect` (the scan under `GServerCallMutex`) and one `PumpInvoke` per
collected callback; a reader is `ConsumeServerCall` (find and erase under the mutex) and
`ReaderInvoke`. `expiring` and `consuming` hold what these two have taken out of the table and
not yet completed: the window all hazards of the table live in. A `DeadlineSeconds` is a
member of `overdue` or not. A response names the connection object and the function, which is
all `ConsumeServerCall` compares; a CallId, taken from an atomic counter, is used once.
The connection is reduced to `state`, `transport` (the socket) and the number of its session.
`StrayResponse` is a packet of a peer that carries a CallId that is pending with another
source.

**ServerConnection.** `phase` is the position in the frame: events, tick, receive loop, pump.
`Connect`, `TickReconnects`, the `Receive...` actions and `Pump` are the handlers with
everything they call; the continuation of `SendHandshake` is part of whichever step completes
the handshake call. Handshake calls are named by the session that made them, because the
table can only compare the object, which is the same in every session. Everything else about
a call is the contract that `ServerCall` is shown to keep.

**ActorOutbox.** `SendActor` is cut where it releases a lock: `Allocate`, `FindRoutes`, and per
route `CheckRoute`, `SendRoute`, `EnqueueRoute`. `Drain` is the part of `DrainActorOutbox` under
`ActorsMutex`, `Resend` one turn of the loop after it. `Channel` models that
`MRpcChannel::SendActor` looks the actor up again and takes its first route, whatever route the
caller meant. Acknowledgements are enabled for any peer a post was written to, in any order
and any number of times.

**PlayerService.** `doing[s]` is the request a Sub handles. Registration is
`FindPlayer`, `AddRoute`, `Register` (each one critical section, on two different mutexes),
then the unlocked `push_back`, cut into `ReadEnd` and `Store`: `players` is what the vector's
memory holds and `end` where it ends, because a thread that stores at an end it read earlier takes
the end back and leaves elements beyond it. `UseItem` is cut where it reads the stock: `Look` (is
there any), `Take` (the minimum) and `Subtract`. An `int` that two threads touch is undefined
behaviour; each of the later reads allows the value read before and the value read again. The
requested count is any int32, as nobody checks it, and what is stored wraps.

**Gateway.** Everything runs on one thread, so the model's steps are the pieces of a frame:
client packets and snapshots of the registry (`phase = "events"`), the tick of each pooled
connection, the pump. A connection object is a record of its `State`, whether its socket is
usable, what its peer has and what is under way back; it is named by the request that made it
(`LazyConnect` makes a new object each time). `route` is the part of `GPendingServerCalls` that
belongs to requests; the entry of a handshake is implied by an object that is `Connected`.
`HandleClientPacket` is `GetOrConnect` and then `NoTarget`, `NotSent` or `Forwards`. A deadline is a
choice in `PumpExpires`: five seconds may have passed in any frame. A target whose type is in
`NoHandler` refuses the handshake (`AnswerTo`); `ReceiveRefusal` is what follows, the continuation
that disconnects inside the receive loop and the end of the process (`phase = "ended"`). `Purged` is the body of
`PurgeDisappeared`, which is given the servers of one type and looks at the whole pool. That
answers of an old TCP session do nothing to a later one of the same object is shown by
`ServerConnection`, and not repeated. The refinement maps a request that is forwarded to a call
and the envelope its client got to the result, so a second envelope, an answer nobody gave and
silence all break it.

**Discovery.** Connection `n` of server `s` is `<<s, n>>`; the registry's session for it may
outlive it, and `toRegistry` and `toClient` are the packets under way. `Handling` is what the
handlers of the registry share, and each handler acts on its table with the snapshots it pushes
(`Push`) and the sends that break a connection (`SomeFail`: a broken one is skipped by the poll
loop until the process ends, `NetEventLoop.cpp:100-104`). Time is `silence`, which passes the
thresholds of 15 and 30 seconds; `TickHeartbeats` marks, evicts and pushes in one step, as the code
does. `RegistryCrash` loses the table and the numbers; the caches keep theirs.

**ActorMailbox.** An operation of a thread is a record with the step it is at and what it
looked up: `Register` (the entry is in the table), `PostCreated`, `CollectList`, `ReportList`;
`RegisterAgain` (the thread is inside `OnDestroyed` of the entry it replaces, and holds
`ActorsMutex`: `Locked` keeps the others out) and `Replace`; `Unregister` and `Destroyed` (between them
the thread is inside `OnDestroyed`, without a lock);
`DispatchFinds`, `Count`, then `Refuse` or `PostMessage`; `HandleFinds` and `HandlePosts`. The Sub
loop is `Swap` (take all tasks), `BeginTask` and `EndTask`. Entries are numbered, so that a lambda of
an entry that was replaced is told from one of its successor.

**LogPipeline.** `TryEnqueue` is cut at each access to shared memory: `Check` (dequeue position),
`Claim` (the compare-and-swap), `BeginWrite` and `EndWrite` of the slot, `Publish` (the loop that raises
the published position). A slot that is copied while it is written, or written twice at once,
yields `Garbled`: that is undefined behaviour in C++, and the model allows any of the records or a
mixture. `Copy`, `Deliver` and `Push` are the dispatcher, which blocks on a full inbox; a writer
is `WriterTakes`, `WriterWrites`, `WriterExits`; `main` walks the steps of `MLog::Shutdown` in
`ShutdownOrder`.

## 5. The runs

| Run | Question | Expected |
|---|---|---|
| `ServerCallSafety` | is each call completed once, by its own answer, and gone from the table? | pass |
| `ServerCallContract` | does the table implement `CallContract`, liveness included? | pass |
| `ServerConnection` | do sessions stay apart, and does the connection recover? | pass |
| `ServerConnectionRefused` | does the receive loop always have a channel? | violation |
| `ActorOutbox` | order, no duplicates, exact acknowledgement, limit | pass |
| `ActorOutboxDrain` | is a post whose resend fails kept? | violation |
| `PlayerService` | is an online player one object that can be found? | pass |
| `PlayerServiceItems` | is what was used gone? | violation |
| `Gateway` | does each forwarded request get its one envelope, and does the pool recover, whatever the registry and the network do? | pass |
| `Discovery` | are endpoints left behind, dead servers forgotten, the table seen? | pass |
| `ActorMailbox` | counter, one thread, order, delivery | pass |
| `LogPipeline` | is the ring a queue for calls that take turns, do sinks get theirs, does shutdown end? | pass |

Bounds, each a named constant in a guard:

- `ServerCallSafety`: two calls, two connections, two functions, two sessions in all, a stray
  response only when nothing else is in flight. Two of each is what the hazards need: a call
  and another one it could be confused with, by connection, by function or by session. One
  session break and reconnect is enough for every stale answer. Calls and functions are
  interchangeable and nothing orders connections, so the run uses symmetry.
  `ServerCallContract` checks liveness, so it uses no symmetry, and one connection and one
  function: what happens between two is the question of the other run.
- `ServerConnection`: three sessions, so that an old handshake can meet a new session and that
  one can fail too; two counted reconnect attempts, because the counter only grows;
  two data packets, so that the answer can be first, in between or last.
- `ActorOutbox`: two threads, two targets, an outbox of two, two posts, two registrations. Two
  posts with two routes make four entries, which overflow an outbox of two, and the second
  registration reuses a sequence number.
- `PlayerService`: three Subs (two that race and one that is answered in between), three
  objects, a stock of two, two uses, and numbers of int32 from -3 to 2: a request
  for less than nothing, for nothing, for some, and one that wraps.
- `Gateway`: three requests (one makes the connection, one is forwarded over it, one comes
  after something went wrong and replaces it), two targets of two types (a snapshot of one
  purges the pool of the other), of which `Player` has no handler of the handshake, as in the
  repository, two snapshots (listed, then gone or unhealthy), two faults of
  any kind: a broken link, a send that breaks the socket, a handshake that is not answered in
  time, a registry outage. Requests are numbered as they arrive, which loses nothing, as they
  differ in nothing else; a client leaves only while its request is under way.
- `Discovery`: two servers and two faults, a fault being an exit of a server, a broken link, a
  crash of the registry or a stall that makes a live server look dead. One of the two servers is
  `Steady`: it fails only with the registry and has caught up when a fault happens, so the
  run is about the other one's sessions and about both after a crash. The registry pushes while every
  server has less than one snapshot to read, heartbeats are sent when they are due, and silence
  passes a threshold only when the server stalls or the registry has nothing to do. Larger
  queues repeat what one snapshot in flight shows: a snapshot replaces the whole table.
- `ActorMailbox`: two threads, two Subs, two registrations, two messages, and a mailbox of one:
  both threads meet at the limit, and an entry is replaced while its message waits.
- The runs that expect a violation use the bounds of their component's run or smaller ones; the
  behaviour they show is a few steps long.
- `LogPipeline`: two threads, two sinks, a ring of two slots, batches of two, an inbox of one
  batch, three records: the ring wraps, is full, and an inbox is full while the other is not.
  Two records go to both sinks, the one between them to one.

`CHECK_DEADLOCK FALSE` is set where the model may stop: in `ServerCall*` every call is settled
and the sessions are used up; in `PlayerService*` the bound on requests is
reached; in `ServerConnection*` the call through a missing channel ends the process. In
`ActorMailbox` and `LogPipeline` the program ends, and in `Discovery` and `Gateway` the bounds on
faults, snapshots and requests are reached; in `Gateway` a refused handshake ends the process, too.

Fairness:

- `ServerCall`: the thread in `CallServerFunction` finishes it, the clock advances, the pump
  runs in every frame, and a reader runs the callback it has taken. Nothing is assumed of the
  peer or the network: the deadline is what settles a call nobody answers.
- `ServerConnection`: the main loop keeps running (`Frame`), the reconnect timer advances, the
  peer answers a handshake it has. `ReceiveEnds` is strongly fair: the loop empties the socket
  faster than a peer keeps filling it, for otherwise one frame would last for ever. Recovery
  is stated for the case that failures stop, so the last of the three sessions meets none,
  and for runs that do not call through a missing channel.
- `PlayerService`: a Sub carries on with a request it has begun.
- `Gateway`: the main loop runs (`Frame`), the registry comes back when it is tried often enough,
  the reconnect timers elapse, a peer that has a handshake answers it, if only with a refusal, and a
  deadline that is due
  is met by the pump. Nothing is assumed of answers to requests or of the registry's snapshots.
  `TryConnectRegistry`, `TickReconnects` and `PumpExpires` are strongly fair because each is
  possible in one part of a frame only. Failures are bounded, so `PoolRecovers` speaks of what
  happens once they stop. It is stated of one connection object that stays in the pool: requests
  that keep coming may replace it in every frame (section 8), and then it says nothing. It and the
  liveness part of `ImplementsContract` are stated for runs in which the process does not end.
- `Discovery`: the loops of the servers and the registry run, and time passes. A process need not be
  started again, and a stall need not happen.
- `ActorMailbox`: a Sub runs its tasks and a thread goes on with what it has begun.
- `LogPipeline`: the dispatcher and the writers run, and a shutdown that has begun goes on. Shutdown
  begins only when no producer is inside `TryEnqueue`: `MServiceMain::Run` calls it when the Sub
  threads are joined, and it deletes the ring. So nothing is assumed of producers.
- `ActorOutbox`: safety only. The code promises no delivery that could be checked: nothing
  retries a post unless the registry pushes the endpoint again.

## 6. What is proved

Every safety invariant and every action property that a passing run checks is a theorem, for all
values of the constants. Each proof module states an inductive invariant `Inv`, shows that `Init`
implies it and that every action keeps it, one lemma per action, and draws the properties from it.
The assumptions are those that the component's module names; each is stated below. TLC checked the inductive
invariants on the instances of section 5 before they were proved.

`ServerCallProofs`, for any sets of calls, connections and functions and any bounds
(assumptions: `NullAssumption` and `BoundAssumption` of `ServerCall`, which only say that the
null values are not calls or sources and that bounds are numbers):

- `TypeCorrect`, `CompletesAtMostOnce`, `NothingLeaks`, `SettledForGood`, `AnswersAreGenuine`,
  `DisconnectedIsTrue`: the properties of the run `ServerCallSafety`.
- `RefinesContract`: every step of the table is a step of `CallContract` or leaves it alone.

Most of these properties are not inductive. "Completed at most once" is a count of zero or one,
and says nothing of who may still increase it. `Inductive` establishes `TypeOK`, `SourceFixed`
(a call that was made has the source it expects), `Ownership` and `Provenance`;
`NoLeakedEntry` and `LinkHistory` are proved on top of them:

- `Ownership` says where the *right to complete* a call is: in at most one of the table, the
  pump's list and one reader's hands. While it is in one of them the call has not been
  completed, and no action makes a second copy, because both critical sections erase what
  they take.
- `Provenance` says that a response from the source a call expects, in flight or in a
  reader's hands, stems from a request the peer answered. Stray responses exist in the model;
  only the source comparison rejects them.
- `LinkHistory` says that an open call whose probe fails, and a call the pump collected as
  disconnected, has had its link down.
- `NoLeakedEntry` needs `Ownership`: the callback that settles a call runs only after the call
  has left the table. `SettledForGood` needs none of it: every writer of a promise goes
  through `SetValue`.

`PlayerServiceProofs`, for any number of Subs, objects and requests and any range of int32 (assumptions:
the stock and the bounds are numbers, the stock and the number of objects not zero, the stock in
the range):

- `NoPlayerIsReplaced`. The check of `RegisterPlayer` and the insertion are apart, so the check is
  no argument. The invariant is that at most one Sub stands before `Register`, that the route is
  there when it does, and that no object is in the system until it is done: the route table, not
  the actor table, decides the race.
- `ConfirmedIsUnderWay`: a request is told that the player is registered only when its object is in
  the system or the request that won the race is one step from handing it over. `ConfirmedIsFound` is
  this and the fairness of that one step.
- `TypeCorrect`. The invariant `Types` says that the end a thread has read is within what is
  stored, that every count is an int32 number, and that what a request is about to take is no more
  than it saw. The proof found an error of the model: it had cut the elements off at the new end,
  so that a later store left a gap. The run was too small to show it; `end` is
  now a variable of its own.

`GatewayProofs`, for any sets of servers and clients, any numbers of requests and any bounds
and any set of types that refuse the handshake (assumption: `InstanceAssumption` of `Gateway`, which
says that requests are numbers, and that the null value, the handshake and its refusal are not):

- `TypeCorrect` and `CallsKeepTheirConnection`: the type invariant and `DisconnectedMeansLost`.
- `RefinesContract`: a request that is forwarded is a call of `CallContract`. Every step of
  the gateway is a step of the contract or leaves the calls alone.

`DisconnectedMeansLost` speaks of envelopes that have been sent, and the step that sends one looks at the
pool, which three parties change: a request that connects, a push of the registry, and the tick.
`Inductive` therefore establishes, with the types:

- `LinkHistory`: a request that is still in the table is on a connection that is
  authenticated and up, unless its link was lost. A push of the registry closes only connections that
  are not authenticated, a tick ends a session only when its link is down, and a request makes a
  connection only in the place of one that is not authenticated. A refusal ends the session of a
  connection that is not authenticated either (`RefusalKeeps`).
- `PoolSound`: no object is in two places of the pool, so what is done to one server's
  connection is done to no other's, and an object that is in no place is free.
- `EntrySound`: an entry is there only before the envelope, and there is one envelope at most; this
  is what makes a second answer, or an answer after the pump, impossible.
- `PacketsSound`: a packet travels on one connection, and an answer stems from a forwarded
  request that the target answered; the contract's `Answer` needs it.

`ServerConnectionProofs`, for any number of sessions, attempts and packets (assumptions:
`AnswersAssumption`, a peer may accept, and `BoundAssumption`, the bounds are numbers):
`TypeCorrect`, `SessionsAuthenticateThemselves`, `NoConnectionIsHalfOpen`,
`HandshakesEndWithTheirSession` and `OnlyItsOwnFailureCloses`. The table of calls can only compare the object,
which is the same in every session, so nothing in the code that completes a handshake says which
session it is of. The invariant says why it cannot be another: an answer in the socket was
sent in the session of the channel, because the packets go with the socket
(`InboxOfThisSession`), and a call of a session that is over is in the table only between the tick that
ended the session and the pump of the same frame, when the connection is down
(`CallsOfThisSession`). A waiting connection has its call in the table in every phase (`Waiting`), not only between
frames, where `NeverHalfOpen` looks.

`ActorMailboxProofs`, for any number of threads, Subs, registrations and messages and any limit
(assumption: `SizeAssumption`, that these are numbers, the Subs and the limit not zero): `TypeCorrect`, `CounterIsExact`,
`MethodsRunOnOneThread`, which is about the methods that are posted and not about `OnDestroyed`,
`SendersKeepTheirOrder`, `StaleListsNeedAnOverlap`. The parts of the invariant:

- `OneSub`: every task of the actor is in the queue or the batch of one Sub, the one its id gives.
- `Numbers` and `LineOrder`: a thread has one message under way, and it comes after all it posted;
  the queue, the batch and what was handled follow one another in that order.
- `Places`: the counter is the size of the set of messages that hold a place. Sets of numbers
  and not sums over queues: each step adds or removes one element, and `Numbers` says that it is a new
  one. A message that was let in holds its place before it is in a queue, so the limit is stated for
  these, too.
- `ReportSound`: until two changes overlap at most one thread changes the list, and what it
  collected is still the case.

`LogPipelineProofs`, for any number of producers, sinks and records and any sizes of the ring,
the batches and the inboxes (assumption: `SizeAssumption`, that sizes are positive numbers and each record goes to some
sink): `TypeCorrect`, `TurnsMakeAQueue`,
`NothingStaysUnpublished`, `SinksGetTheirRecords`, `ShutdownLeavesNothing`. The parts of the invariant:

`TurnsMakeAQueue` says what the ring keeps and gives while calls take turns; it does not say that all
of it is taken in the end, which at Shutdown is not so.

- `RingSound`: every claimed position that is not published has a thread that is about to publish
  it; a position that was read as dequeued is not ahead of the dispatcher.
- `TurnsSound`: while calls take turns, the thread that is inside has claimed the next position, in
  a slot the dispatcher is done with, and writes it alone; every slot between the dispatcher and
  the published head holds what was claimed for it. Slots are positions modulo the capacity,
  and the proof rests on two positions less than a capacity apart having different slots.
- `BatchSound` and `DeliveredInOrder`: what was taken, and where each part of it is.
- `WriterSound` and `ShutdownSound`: the threads end in the order of `ShutdownOrder`, the
  dispatcher before the writers, and a joined writer has an empty inbox.

`ActorOutboxProofs`, for any threads, targets, limits and numbers of posts (assumptions:
`LocalAssumption`, the local route is no target, and `BoundAssumption`, the bounds are numbers):
`TypeCorrect`, `OutboxKeepsOrder`, `PostsAreNotDuplicated`, `AcknowledgementsAreExact`. That nothing is
written twice is not inductive, as a count says nothing of who may still write. `OnePlace` says
that a post waits for a route in one place at most, the loop of `SendActor`, the outbox or the resend;
`WrittenOnce`, that a copy that still waits for its route was not written for it; `OnItsLast`, that a thread works on its last post, so what it appends is the newest of the
thread. `AcknowledgementsAreExact` needs `Numbered`: a registration gives each number to one post.

`DiscoveryProofs`, for any finite set of servers and any number of faults (assumptions:
`ServerAssumption`, the servers are finitely many, which the number of changes needs, and
`BoundAssumption`): `TypeCorrect`, `EndpointsHaveSessions`, `CachesCatchUp`. The parts of the invariant:

- `ConnectionsSound`: a connection that is up is the last its server made and has an open session,
  a server without a connection has nothing to read, and sessions of connections not yet made
  do not exist; each connection after the first is paid for by a fault, which is why there
  are numbers enough.
- `NoGhost` is inductive once sessions are known to keep what they registered when a send to them
  fails (`SendsKeep`) and a close is known to take the endpoint away.
- `FeedSound`: the snapshots on their way to a connected server are in order, none older than
  the one it accepted, and the last of them, or its view when none is left, agrees with the
  registry's table. A cache that kept a number from before a restart of the registry refuses
  snapshots, but then it has accepted none over this connection, and `CaughtUp` does not speak of it.

Two laws are proved by induction on the length of a sequence, for the operators `Kept` of
`ActorOutbox` and `FlattenSeq` of the community modules: by a first-order form of it, that a nonempty set of numbers has
a least one (`NatMin`, `NatInd`), which needs no operator as a parameter.

Only model-checked: the liveness properties, which are beyond the prover. These are
`EventuallyAuthenticated`, `ConfirmedIsFound`, `ShutdownEnds`, `DeadForgotten`,
`AcceptedIsHandled`, `PoolRecovers` and the liveness part of both `ImplementsContract` (`RefinesContract` is the rest of
it). `UsedIsGone`, `ReceivesOnAChannel` and `FailedResendIsKept` are false.

## 7. Abstractions and what is left out

- Payloads, error texts and the wire formats are left out. A response is genuine or not by its
  CallId, function and connection.
- `LinkDown` may end a session at any moment. The code notices it in a read, a write or a
  poll; the model lets the flag flip earlier than that, which adds behaviours and removes none.
  Packets that were received and not read yet are lost with it, as in
  `MTcpConnection::ReceivePacket`.
- `SendFails` covers the refusal of a packet that is too large or meets a dead link, and
  a send that breaks the socket.
- `Connecting` is never seen between steps: `TryConnect` is synchronous.
- The owner's explicit `Disconnect`, `MServerConnectionManager`, and a connection whose endpoint
  class is missing are not modelled. Callbacks such as `OnAuthenticated` are taken to change
  nothing of the connection.
- `ActorOutbox` has no removal of routes: no code asks for one. Negative acknowledgements, which
  `DispatchActorPostMessage` sends for a post it cannot take (`EndpointCache.cpp:165-181, 200`), are
  left out because the receiver only logs them (`EndpointCache.cpp:110-113`) and the entry stays.
  `AckOutbox` is not called by anything, and appears as a mutation.
- `UseItem` is asked for any int32 count. No property says that the stock never rises: a negative
  count raises it, and nothing in the repository says that it is refused.
- `push_back` on several threads may also corrupt memory; the model keeps to lost elements.
- The end of the program is modelled in `LogPipeline` and, as far as the Subs go, in
  `ActorMailbox`; not for pending calls and connections.
- `Gateway`: `PushClientDownlink` and its broadcast, functions that are not in the manifest and
  shutdown are left out. There is one target per type; the order in which `GetOrConnect` looks at several is the
  choice in `Selectable`. The per-Sub pools of other services are not modelled.
- `Discovery`: one server type; no acknowledgements, whose only use is a log line; `UpdateActors` and
  the resending it leads to are in `ActorMailbox` and `ActorOutbox`. A send buffer that overflows
  is one of the ways a connection fails.
- `ActorMailbox`: one actor. Saving and loading, replies of `Call`, handles to actors elsewhere and
  `MActorSystem::Shutdown` are left out, and so is what `OnCreated` and `OnDestroyed` do; on which
  thread they run, and beside what, is modelled.
- `LogPipeline`: `Flush` and `HandleFatal` take records out of the ring on the calling thread, beside
  the dispatcher; they are not modelled, nor are `BlockingEnqueue`, `Init` and `AddWriter`, the flush
  policy and the formats. The rotation of files is inside one write.
- Not modelled at all, each with its reason in `PROJECT.json`: the executors of `Async` (the
  frames that await are generated at build time), the sample `EchoService`, start-up, the event
  bus, sockets, wire formats and serialization, objects and assets, utilities, the embedded
  Lua interpreter, which is third-party code and most of the repository's lines, tools and scripts.

## 8. Where code and documents disagree

With a run that shows it:

- `ServerConnection.cpp:198`: the receive loop uses `Transport` after the continuation of a
  refused handshake has reset it. `ServerConnection.h:107` promises that channels that are no
  longer usable answer false and do not crash. An answer with an error is ordinary:
  a class without the handler for the handshake answers `server_call_missing_handler`.
- `MActorSystem.cpp:345`: the drain ignores the result of a resend. The comment at line 314
  says that failed messages stay in the outbox.
- `MPlayerItemContainer.cpp:44`: member methods run on the thread that read the request.
  `MPlayerActor.h:23` says they run on the host actor's Sub and need no lock.

Modelled as the code has it, so that the model does the same, without a property of its own:

- `MRpcChannel.cpp:60`: the channel looks the actor up again and takes its first route, so every
  copy of a fan-out goes to the first server. `ActorRouter.h:97` says that each route is sent to by
  itself, `MActorSystem.h:90` that a resend goes to the target of its entry.
- `MActorSystem.cpp:72, 107`: `Register` and `Unregister` call `OnDestroyed` on the caller's thread,
  possibly beside an `OnMessage`. `IActor.h:52` says that it runs on the actor's Sub.
- `MpscRingBuffer.h:67`: a producer publishes past an earlier slot that is claimed and not yet
  written. Lines 10-11 say that a slot is published after it was written, and that the
  consumer reads only what is published.
- `Dispatcher.cpp:40`: the dispatcher leaves its loop when it is told to stop, and what it has not
  taken stays in the ring. `Log.h:37` says that `Shutdown` drains it.
- `EndpointCache.cpp:465`: a refused registration is only logged, and `Register` goes out only when a
  connection is made. Line 464 says that it is retried in the rhythm of heartbeats and
  reconnections. A server that reconnects before the registry has closed its old session is
  refused with `AlreadyExists` (`ServiceRegistryServer.cpp:108-117`), the close of the old session
  takes the endpoint away, and the server stays unlisted while its connection stands; likewise
  a live server that was evicted in a stall (`ServiceRegistryServer.cpp:160-167`).

Met while reading, without a run:

- `ServerConnection.h:166` says of `ReconnectAttempts` that it only grows;
  `ServerConnection.cpp:253` resets it.
- `Connect()` returns true although the handshake could not be sent and the connection is
  Disconnected again.
- `EndpointCache.h:150` says that a push with a number less than or equal to the last one is
  discarded; `EndpointCache.cpp:354` compares with less-than.
- A server that is started while the registry is away registers later but never asks for the
  lists it wanted (`EndpointCache.cpp:255`).
- The header of `GetOrConnect` says that it returns a usable connection. It returns one that is
  still in its handshake, and makes another in its place at each call until one is
  authenticated: a request in every frame keeps the handshake from ever being completed.
- The comment of the per-Sub `GetOrConnect` (`EndpointCache.h:278`) says that `LazyConnect` writes the
  connection to the global pool, too. It does not, so nothing ticks these connections.
- `GatewayServer.h:142-143` says that a function that is not in the manifest is answered with an empty
  envelope; `GatewayServer.cpp:286-289` returns without one.
- `HandleFatal` (`Log.cpp:281`) takes records out while the dispatcher may, and the ring has one
  consumer.
- `OnCreated` is posted after the actor can be found (`MActorSystem.cpp:83`), so a message can be
  handled before it.
- At the limit of the mailbox a message can be refused though there is room, while another
  thread has raised the counter and not yet lowered it (`MActorSystem.cpp:175`).
- The texts of `LOG_FATAL` in `EndpointCache.cpp` speak of a debug abort; the macro (`Log.h:93`) only
  logs.
- `LastSeq` is kept over a restart of the registry, which numbers from 1 again.
- `SendActor` drops a post to a remote actor when no local entry of that id exists
  (`MActorSystem.cpp:352-355`): there is no outbox to keep it in. No service handles actor posts on accepted
  connections, while the documents call delivery at-least-once.
- `EchoService` saves its actors after the Sub pool is gone.

## 9. Plan

Done: the modules of section 4, with the proofs of section 6. Next, in this order:

1. What is left to prove: abstract specifications that `ActorOutbox` and `LogPipeline` implement (a
   set of posts that wait per route; a queue for callers that take turns), with
   refinement mappings in place of the separate invariants.
2. A composition of `ServerConnection` with `ServerCall`, in which the handshake is a call of the
   table, in place of the contract that stands for it now.
3. The per-Sub pools of the endpoint cache, and the saving and loading of actors at shutdown.
4. `MLog::Flush` and `HandleFatal` as second consumers of the ring.
