---------------------------- MODULE LogPipeline ----------------------------
(***************************************************************************)
(* The asynchronous log of MLog (Common/Runtime/Log): any thread writes    *)
(* into TMpscRingBuffer, the one dispatcher thread takes batches out and   *)
(* hands them to a writer thread per sink, and ServiceMain shuts it all    *)
(* down at the end of the program.                                         *)
(*                                                                         *)
(* TryEnqueue is split at every access to memory that another thread uses. *)
(* The assignment of a record takes time: copying a slot meanwhile, or     *)
(* writing it twice at once, can leave a garbled record, whose words come  *)
(* from either.                                                            *)
(***************************************************************************)
EXTENDS Integers, FiniteSets, SequencesExt

CONSTANTS
    Producer,     \* threads that log
    NumSinks,     \* writers in GWriters
    Routing,      \* the SinkMask of each record, as a set of sinks
    Capacity,     \* slots of the ring
    BatchSize,    \* most records the dispatcher takes at once
    MaxBatches,   \* kMaxBatches of a writer's inbox
    MaxRecords    \* bound: calls of WriteV

ASSUME SizeAssumption ==
    /\ Capacity \in Nat \ {0} /\ BatchSize \in Nat \ {0} /\ MaxBatches \in Nat \ {0}
    /\ NumSinks \in Nat \ {0} /\ MaxRecords \in Nat
    /\ Routing \in [1 .. MaxRecords -> SUBSET (1 .. NumSinks) \ {{}}]

VARIABLES
    calls,          \* calls of WriteV so far; they number the records
    enqueuePos, publishedHead, dequeuePos, slots,   \* the ring
    producer,       \* TryEnqueue in progress, by thread
    dispatching,    \* bRunning of the dispatcher
    dispatcher,     \* where its loop is
    writing,        \* bRunning of each writer
    writer,         \* where its loop is
    inbox,          \* Inbox of each writer
    main,           \* progress of Shutdown: an index into ShutdownOrder
    written,        \* what each sink received
    claims,         \* history: the record that claimed each position of the ring
    taken,          \* history: what the dispatcher took from each position
    overlapped      \* history: two calls of TryEnqueue ran at the same time

ring == <<enqueuePos, publishedHead, dequeuePos, slots>>
back == <<dispatching, dispatcher, writing, writer, inbox, main, written, taken>>
front == <<calls, enqueuePos, publishedHead, producer, claims, overlapped>>
vars == <<front, dequeuePos, slots, back>>

Sink == 1 .. NumSinks
Record == 1 .. MaxRecords
Blank == 0                \* the record a slot is constructed with: its mask is empty
Garbled(content) == - content     \* a mixture with the mask of that record
Content == - MaxRecords .. MaxRecords
Idle == [step |-> "idle"]

Polling == [step |-> "poll", batch |-> << >>, count |-> 0, sink |-> 1]

IndexOf(position) == position % Capacity

Init ==
    /\ calls = 0
    /\ enqueuePos = 0 /\ publishedHead = 0 /\ dequeuePos = 0
    /\ slots = [i \in 0 .. Capacity - 1 |-> Blank]
    /\ producer = [p \in Producer |-> Idle]
    /\ dispatching = TRUE
    /\ dispatcher = Polling
    /\ writing = [s \in Sink |-> TRUE]
    /\ writer = [s \in Sink |-> [step |-> "loop", batch |-> << >>]]
    /\ inbox = [s \in Sink |-> << >>]
    /\ main = 1
    /\ written = [s \in Sink |-> << >>]
    /\ claims = << >> /\ taken = << >>
    /\ overlapped = FALSE

-----------------------------------------------------------------------------
(* The order in which Shutdown stops the threads. *)

\* Mutation: the writers are stopped first.
WritersFirst == <<"up", "writers", "dispatcher", "close", "down">>

ShutdownOrder == <<"up", "dispatcher", "writers", "close", "down">>

Stage == ShutdownOrder[main]

-----------------------------------------------------------------------------
(* A producer: MLog::WriteV and TMpscRingBuffer::TryEnqueue. *)

At(p, step) == producer[p].step = step
Inside(p) == ~ At(p, "idle")
GoTo(p, step) == producer' = [producer EXCEPT ![p].step = step]

\* WriteV builds the record; TryEnqueue begins by loading the positions.
WriteV(p) ==
    /\ At(p, "idle") /\ Stage = "up" /\ calls < MaxRecords
    /\ calls' = calls + 1
    /\ producer' = [producer EXCEPT ![p] = [step |-> "check", record |-> calls',
                                            cur |-> enqueuePos, tail |-> dequeuePos, mixed |-> FALSE]]
    /\ overlapped' = (overlapped \/ \E q \in Producer : Inside(q))
    /\ UNCHANGED <<ring, claims, back>>

\* Mutation: one record more than there are slots.
FullByOne(p) == publishedHead - producer[p].tail > Capacity

\* What is published and not yet taken fills the ring.
Full(p) == publishedHead - producer[p].tail >= Capacity

Check(p) ==
    /\ At(p, "check")
    /\ IF Full(p) THEN producer' = [producer EXCEPT ![p] = Idle] ELSE GoTo(p, "claim")
    /\ UNCHANGED <<calls, ring, claims, overlapped, back>>

Claim(p) ==
    /\ At(p, "claim")
    /\ enqueuePos = producer[p].cur
    /\ enqueuePos' = enqueuePos + 1
    /\ claims' = Append(claims, producer[p].record)
    /\ GoTo(p, "write")
    /\ UNCHANGED <<calls, publishedHead, dequeuePos, slots, overlapped, back>>

\* Another thread claimed: the exchange fails, and the loop starts over.  (So it
\* does when a weak exchange fails by itself, with newer values of the same state.)
ClaimFails(p) ==
    /\ At(p, "claim")
    /\ enqueuePos # producer[p].cur
    /\ producer' = [producer EXCEPT ![p].step = "check", ![p].cur = enqueuePos,
                                    ![p].tail = dequeuePos]
    /\ UNCHANGED <<calls, ring, claims, overlapped, back>>

\* Threads whose assignment to slot i is under way.
WritersOf(i) == {p \in Producer : At(p, "copy") /\ IndexOf(producer[p].cur) = i}

\* Two threads write one slot when a claim lags a whole ring behind.
BeginWrite(p) ==
    LET others == WritersOf(IndexOf(producer[p].cur)) IN
    /\ At(p, "write")
    /\ producer' = [q \in Producer |->
         IF q = p THEN [producer[p] EXCEPT !.step = "copy", !.mixed = others # {}]
         ELSE IF q \in others THEN [producer[q] EXCEPT !.mixed = TRUE]
         ELSE producer[q]]
    /\ UNCHANGED <<calls, ring, claims, overlapped, back>>

EndWrite(p) ==
    LET i == IndexOf(producer[p].cur)
        mine == producer[p].record IN
    /\ At(p, "copy")
    /\ \E content \in IF producer[p].mixed
                      THEN {mine, Garbled(mine), slots[i], Garbled(slots[i])} ELSE {mine} :
         slots' = [slots EXCEPT ![i] = content]
    /\ GoTo(p, "publish")
    /\ UNCHANGED <<calls, enqueuePos, publishedHead, dequeuePos, claims, overlapped, back>>

\* Mutation: publish one's own position only when it is the next one.
PublishInTurn(p) ==
    publishedHead' = IF publishedHead = producer[p].cur THEN publishedHead + 1 ELSE publishedHead

\* The exchange loop raises PublishedHead past the claimed position, whatever
\* the positions before it hold.
RaisePublished(p) ==
    publishedHead' = IF publishedHead < producer[p].cur + 1 THEN producer[p].cur + 1
                     ELSE publishedHead

Publish(p) ==
    /\ At(p, "publish")
    /\ RaisePublished(p)
    /\ producer' = [producer EXCEPT ![p] = Idle]
    /\ UNCHANGED <<calls, enqueuePos, dequeuePos, slots, claims, overlapped, back>>

Producing(p) ==
    Check(p) \/ Claim(p) \/ ClaimFails(p) \/ BeginWrite(p) \/ EndWrite(p) \/ Publish(p)

-----------------------------------------------------------------------------
(* The dispatcher: MLogDispatcher::RunLoop and DequeueBatch. *)

Available == publishedHead - dequeuePos

\* Nothing to take: the dispatcher sleeps and looks again.
Poll ==
    /\ dispatcher.step = "poll" /\ dispatching
    /\ Available > 0
    /\ dispatcher' = [dispatcher EXCEPT !.step = "copy",
                          !.count = IF Available < BatchSize THEN Available ELSE BatchSize]
    /\ UNCHANGED <<front, dequeuePos, slots, dispatching, writing, writer, inbox, main, written,
                   taken>>

\* What copying slot i can give.
Readable(i) ==
    IF WritersOf(i) = {} THEN {slots[i]}
    ELSE {slots[i], Garbled(slots[i])} \cup {Garbled(producer[p].record) : p \in WritersOf(i)}

\* The slots are copied one by one; only then does DequeuePos move.
Copy ==
    /\ dispatcher.step = "copy"
    /\ \E content \in Readable(IndexOf(dequeuePos + Len(dispatcher.batch))) :
         LET batch == Append(dispatcher.batch, content) IN
         /\ taken' = Append(taken, content)
         /\ IF Len(batch) < dispatcher.count
            THEN dispatcher' = [dispatcher EXCEPT !.batch = batch] /\ UNCHANGED dequeuePos
            ELSE /\ dispatcher' = [dispatcher EXCEPT !.step = "deliver", !.batch = batch]
                 /\ dequeuePos' = dequeuePos + dispatcher.count
    /\ UNCHANGED <<front, slots, dispatching, writing, writer, inbox, main, written>>

MaskOf(content) ==
    IF content = Blank THEN {} ELSE Routing[IF content > 0 THEN content ELSE - content]

\* The records of a batch whose SinkMask names sink s.
Partition(batch, s) ==
    FlattenSeq([i \in DOMAIN batch |-> IF s \in MaskOf(batch[i]) THEN <<batch[i]>> ELSE << >>])

NextSink ==
    dispatcher' = IF dispatcher.sink = NumSinks
                  THEN Polling
                  ELSE [dispatcher EXCEPT !.sink = @ + 1]

\* Mutation: the inbox grows without a limit.
PushUnbounded(s, batch) == inbox' = [inbox EXCEPT ![s] = Append(@, batch)]

\* Mutation: a full inbox gives the batch up instead of waiting.
PushOrDrop(s, batch) ==
    inbox' = IF Len(inbox[s]) < MaxBatches THEN [inbox EXCEPT ![s] = Append(@, batch)] ELSE inbox

\* EnqueueBatch waits for room, without looking at anything else.
Push(s, batch) ==
    /\ Len(inbox[s]) < MaxBatches
    /\ inbox' = [inbox EXCEPT ![s] = Append(@, batch)]

Deliver ==
    LET s == dispatcher.sink
        part == Partition(dispatcher.batch, s) IN
    /\ dispatcher.step = "deliver"
    /\ IF part = << >> THEN UNCHANGED inbox ELSE Push(s, part)
    /\ NextSink
    /\ UNCHANGED <<front, dequeuePos, slots, dispatching, writing, writer, main, written, taken>>

\* What is left in the ring stays there.
DispatcherExits ==
    /\ dispatcher.step = "poll" /\ ~ dispatching
    /\ dispatcher' = [dispatcher EXCEPT !.step = "exited"]
    /\ UNCHANGED <<front, dequeuePos, slots, dispatching, writing, writer, inbox, main, written,
                   taken>>

-----------------------------------------------------------------------------
(* The writer of sink s: MLogSinkWriter::RunLoop; FlushSync at its end takes *)
(* batches in the same way.                                                  *)

WriterTakes(s) ==
    /\ writer[s].step = "loop" /\ inbox[s] # << >>
    /\ writer' = [writer EXCEPT ![s] = [step |-> "write", batch |-> Head(inbox[s])]]
    /\ inbox' = [inbox EXCEPT ![s] = Tail(@)]
    /\ UNCHANGED <<front, dequeuePos, slots, dispatching, dispatcher, writing, main, written,
                   taken>>

WriterWrites(s) ==
    /\ writer[s].step = "write"
    /\ written' = [written EXCEPT ![s] = @ \o writer[s].batch]
    /\ writer' = [writer EXCEPT ![s] = [step |-> "loop", batch |-> << >>]]
    /\ UNCHANGED <<front, dequeuePos, slots, dispatching, dispatcher, writing, inbox, main, taken>>

WriterExits(s) ==
    /\ writer[s].step = "loop" /\ inbox[s] = << >> /\ ~ writing[s]
    /\ writer' = [writer EXCEPT ![s].step = "exited"]
    /\ UNCHANGED <<front, dequeuePos, slots, dispatching, dispatcher, writing, inbox, main,
                   written, taken>>

-----------------------------------------------------------------------------
(* The main thread: MLog::Shutdown.  MServiceMain::Run calls it when the Sub *)
(* threads are joined, so no other thread is logging.                        *)

BeginShutdown ==
    /\ Stage = "up"
    /\ \A p \in Producer : ~ Inside(p)
    /\ main' = main + 1
    /\ UNCHANGED <<front, dequeuePos, slots, dispatching, dispatcher, writing, writer, inbox,
                   written, taken>>

StopDispatcher ==
    /\ Stage = "dispatcher" /\ dispatching
    /\ dispatching' = FALSE
    /\ UNCHANGED <<front, dequeuePos, slots, dispatcher, writing, writer, inbox, main, written,
                   taken>>

JoinDispatcher ==
    /\ Stage = "dispatcher" /\ dispatcher.step = "exited"
    /\ main' = main + 1
    /\ UNCHANGED <<front, dequeuePos, slots, dispatching, dispatcher, writing, writer, inbox,
                   written, taken>>

\* The writers are stopped one after the other.
StopWriter(s) ==
    /\ Stage = "writers" /\ writing[s]
    /\ \A r \in Sink : r < s => writer[r].step = "joined"
    /\ writing' = [writing EXCEPT ![s] = FALSE]
    /\ UNCHANGED <<front, dequeuePos, slots, dispatching, dispatcher, writer, inbox, main,
                   written, taken>>

\* Mutation: Stop does not join the thread before it empties the inbox.
StoppedUnjoined(s) == ~ writing[s] /\ writer[s].step # "joined"

\* The thread that Stop joins has left its loop.
Stopped(s) == ~ writing[s] /\ writer[s].step = "exited"

\* Stop joins the writer and empties what is left in its inbox itself.
JoinWriter(s) ==
    /\ Stage = "writers" /\ Stopped(s)
    /\ written' = [written EXCEPT ![s] = @ \o FlattenSeq(inbox[s])]
    /\ inbox' = [inbox EXCEPT ![s] = << >>]
    /\ writer' = [writer EXCEPT ![s].step = "joined"]
    /\ main' = IF s = NumSinks THEN main + 1 ELSE main
    /\ UNCHANGED <<front, dequeuePos, slots, dispatching, dispatcher, writing, taken>>

CloseSinks ==
    /\ Stage = "close"
    /\ main' = main + 1
    /\ UNCHANGED <<front, dequeuePos, slots, dispatching, dispatcher, writing, writer, inbox,
                   written, taken>>

-----------------------------------------------------------------------------
Dispatching == Poll \/ Copy \/ Deliver \/ DispatcherExits
Writing(s) == WriterTakes(s) \/ WriterWrites(s) \/ WriterExits(s)
ShuttingDown ==
    \/ StopDispatcher \/ JoinDispatcher \/ CloseSinks
    \/ \E s \in Sink : StopWriter(s) \/ JoinWriter(s)

Next ==
    \/ \E p \in Producer : WriteV(p) \/ Producing(p)
    \/ Dispatching
    \/ \E s \in Sink : Writing(s)
    \/ BeginShutdown \/ ShuttingDown

\* The threads the log owns run, and so does a Shutdown that has begun; nothing
\* makes a producer go on, or the program end.
Fairness ==
    /\ WF_vars(Dispatching)
    /\ \A s \in Sink : WF_vars(Writing(s))
    /\ WF_vars(ShuttingDown)

Spec == Init /\ [][Next]_vars /\ Fairness

-----------------------------------------------------------------------------
TypeOK ==
    /\ calls \in 0 .. MaxRecords
    /\ 0 <= dequeuePos /\ dequeuePos <= publishedHead /\ publishedHead <= enqueuePos
    /\ enqueuePos = Len(claims)
    /\ slots \in [0 .. Capacity - 1 -> Content]
    /\ \A p \in Producer :
         producer[p].step \in {"idle", "check", "claim", "write", "copy", "publish"}
    /\ dispatcher.step \in {"poll", "copy", "deliver", "exited"}
    /\ \A s \in Sink :
        /\ writer[s].step \in {"loop", "write", "exited", "joined"}
        /\ Len(inbox[s]) <= MaxBatches
    /\ main \in DOMAIN ShutdownOrder

\* As long as calls of TryEnqueue take turns the ring is a queue: at each position
\* that was taken the dispatcher got the record that claimed it, and each position
\* that is published and not yet taken still holds its record.  It does not say
\* that they are taken: the dispatcher leaves the rest in the ring when it is stopped.
RingIsAQueue ==
    overlapped \/
      /\ \A i \in DOMAIN taken : taken[i] = claims[i]
      /\ \A pos \in Len(taken) .. publishedHead - 1 : slots[IndexOf(pos)] = claims[pos + 1]

\* No accepted record stays behind unpublished: when no thread is inside
\* TryEnqueue, the reader may read everything that was claimed.
NothingStuck == (\A p \in Producer : ~ Inside(p)) => publishedHead = enqueuePos

\* What the dispatcher took and has not handed to sink s.
Undelivered(s) ==
    CASE dispatcher.step = "copy" -> Partition(dispatcher.batch, s)
      [] dispatcher.step = "deliver" /\ dispatcher.sink <= s -> Partition(dispatcher.batch, s)
      [] OTHER -> << >>

\* From the ring on nothing is lost, doubled or reordered, whatever the writers,
\* a full inbox and Shutdown do: what a sink has, its writer holds and its inbox
\* waits with is what the dispatcher took for it.
DeliveredInOrder ==
    \A s \in Sink :
        written[s] \o writer[s].batch \o FlattenSeq(inbox[s]) \o Undelivered(s)
            = Partition(taken, s)

\* A sink is closed only when all that was taken for it is written, and no
\* thread is left to use it (SinkWriter.h: after Stop the inbox is empty and the
\* writer makes no more calls).
ClosedIsComplete ==
    Stage = "down" => \A s \in Sink : written[s] = Partition(taken, s) /\ writer[s].step = "joined"

\* Shutdown ends: the dispatcher it waits for may itself wait for room in an
\* inbox, so the writers must run until the dispatcher has left.
ShutdownEnds == Stage # "up" ~> Stage = "down"
=============================================================================
