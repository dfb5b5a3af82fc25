---------------------------- MODULE ActorMailbox ----------------------------
(***************************************************************************)
(* One actor of MActorSystem and the Sub threads that run its methods:     *)
(* any thread may register, replace or unregister the actor and post       *)
(* messages to it, by DispatchLocal or through a MActorHandle it keeps,    *)
(* and each Sub runs the tasks posted to its MTaskEventLoop.               *)
(*                                                                         *)
(* An operation is split where it leaves a lock or touches an atomic; what *)
(* it has looked up meanwhile is in its record.  The entries of one        *)
(* ActorId, past and present, are numbered: 0 stands for none.             *)
(***************************************************************************)
EXTENDS Integers, FiniteSets, SequencesExt

CONSTANTS
    Thread,               \* threads that use the actor
    ActorId, SubCount,    \* the Subs are 0 .. SubCount - 1
    kMaxPendingPerActor,
    MaxEntries,           \* bound: calls of Register
    MaxMessages           \* bound: messages posted

ASSUME SizeAssumption ==
    /\ ActorId \in Nat /\ SubCount \in Nat \ {0}
    /\ kMaxPendingPerActor \in Nat \ {0}
    /\ MaxEntries \in Nat /\ MaxMessages \in Nat

VARIABLES
    current,     \* the entry of LocalActors
    entries,     \* entries made so far
    pending,     \* PendingCounter of each entry
    operation,   \* what each thread is doing
    queue,       \* PendingTasks of each Sub
    batch,       \* ToRun of each Sub, with the task it runs in front
    inTask,      \* the Sub is inside that task
    running,     \* bRunning of the Sub pool
    reported,    \* the ActorIds the endpoint cache was last given name the actor
    posted,      \* messages posted so far; they number the messages
    handled,     \* history: what OnMessage of each entry was given
    overlapped   \* history: two changes of the actor list were under way at once

subs == <<queue, batch, inTask, running>>
list == <<current, entries, reported, overlapped>>
vars == <<list, pending, operation, subs, posted, handled>>

Sub == 0 .. SubCount - 1
Entry == 1 .. MaxEntries
Idle == [step |-> "idle"]

Init ==
    /\ current = 0 /\ entries = 0
    /\ pending = [e \in Entry |-> 0]
    /\ operation = [t \in Thread |-> Idle]
    /\ queue = [s \in Sub |-> << >>]
    /\ batch = [s \in Sub |-> << >>]
    /\ inTask = [s \in Sub |-> FALSE]
    /\ running = TRUE
    /\ reported = FALSE
    /\ posted = 0
    /\ handled = [e \in Entry |-> << >>]
    /\ overlapped = FALSE

-----------------------------------------------------------------------------
(* Operations in progress. *)

At(t, step) == operation[t].step = step
Goes(t, next) == operation' = [operation EXCEPT ![t] = next]
Step(t, step) == operation' = [operation EXCEPT ![t].step = step]

\* MTaskEventLoop::Post.
PostTask(s, task) == queue' = [queue EXCEPT ![s] = Append(@, task)]

\* The Sub that a handle posts to, and that Register chooses without a preference.
HashSub == ActorId % SubCount

\* Mutation: Register prefers the next Sub.
PlacedNext == (HashSub + 1) % SubCount

\* SubId of an entry.  No caller of Register names a preferred Sub.
PlacedOn == HashSub

-----------------------------------------------------------------------------
(* Register and Unregister. *)

ChangingList(t) == operation[t].step \in {"destroy", "created", "notify", "report"}

NoteOverlap == overlapped' = (overlapped \/ \E t \in Thread : ChangingList(t))

\* Another thread holds ActorsMutex while OnDestroyed of an entry it replaces runs.
\* Whoever else takes the mutex is done with it in the same step.
Locked(t) == \E u \in Thread \ {t} : At(u, "replaced")

Insert(t) ==
    /\ entries < MaxEntries
    /\ entries' = entries + 1
    /\ current' = entries'
    /\ NoteOverlap
    /\ Goes(t, [step |-> "created", entry |-> entries'])
    /\ UNCHANGED <<reported, pending, subs, posted, handled>>

Register(t) ==
    /\ At(t, "idle") /\ running /\ ~ Locked(t)
    /\ current = 0
    /\ Insert(t)

\* An actor that is there is replaced: its OnDestroyed runs first, under the lock,
\* on the thread that registers the new one ...
RegisterAgain(t) ==
    /\ At(t, "idle") /\ running /\ ~ Locked(t)
    /\ current # 0 /\ entries < MaxEntries
    /\ Goes(t, [step |-> "replaced", entry |-> current])
    /\ UNCHANGED <<list, pending, subs, posted, handled>>

\* ... and returns.
Replace(t) == At(t, "replaced") /\ Insert(t)

\* OnCreated is posted when the lock is released.
PostCreated(t) ==
    /\ At(t, "created")
    /\ PostTask(PlacedOn, [kind |-> "created", entry |-> operation[t].entry])
    /\ Step(t, "notify")
    /\ UNCHANGED <<list, pending, batch, inTask, running, posted, handled>>

\* The entry is erased under the lock; its OnDestroyed runs on the caller's thread
\* when the lock is released.
Unregister(t) ==
    /\ At(t, "idle") /\ running /\ ~ Locked(t)
    /\ current # 0
    /\ current' = 0
    /\ NoteOverlap
    /\ Goes(t, [step |-> "destroy", entry |-> current])
    /\ UNCHANGED <<entries, reported, pending, subs, posted, handled>>

Destroyed(t) ==
    /\ At(t, "destroy")
    /\ Step(t, "notify")
    /\ UNCHANGED <<list, pending, subs, posted, handled>>

\* NotifyRegistryActorChange collects the list under the lock.
CollectList(t) ==
    /\ At(t, "notify") /\ ~ Locked(t)
    /\ Goes(t, [step |-> "report", listed |-> current # 0])
    /\ UNCHANGED <<list, pending, subs, posted, handled>>

\* Mutation: the report of a list without the actor is left out.
ReportPresentOnly(t) == reported' = (reported \/ operation[t].listed)

Report(t) == reported' = operation[t].listed

\* UpdateLocalActorIds takes a lock of its own.
ReportList(t) ==
    /\ At(t, "report")
    /\ Report(t)
    /\ Goes(t, Idle)
    /\ UNCHANGED <<current, entries, overlapped, pending, subs, posted, handled>>

-----------------------------------------------------------------------------
(* DispatchLocal, and Post of a handle. *)

\* The entry is looked up under the lock.  Without one the message is refused.
DispatchFinds(t) ==
    /\ At(t, "idle") /\ running /\ ~ Locked(t)
    /\ current # 0 /\ posted < MaxMessages
    /\ posted' = posted + 1
    /\ Goes(t, [step |-> "count", entry |-> current, message |-> posted'])
    /\ UNCHANGED <<list, pending, subs, handled>>

\* The value that fetch_add leaves is compared.
Over(e) == pending[e] + 1 > kMaxPendingPerActor

Count(t) ==
    LET e == operation[t].entry IN
    /\ At(t, "count")
    /\ pending' = [pending EXCEPT ![e] = @ + 1]
    /\ Step(t, IF Over(e) THEN "refuse" ELSE "post")
    /\ UNCHANGED <<list, subs, posted, handled>>

\* Mutation: a refused message keeps its place.
KeepPlace(e) == UNCHANGED pending

Uncount(e) == pending' = [pending EXCEPT ![e] = @ - 1]

Refuse(t) ==
    /\ At(t, "refuse")
    /\ Uncount(operation[t].entry)
    /\ Goes(t, Idle)
    /\ UNCHANGED <<list, subs, posted, handled>>

\* Mutation: a message of a handle is taken to hold a place too.
MessageCounted(t, counted) ==
    [kind |-> "message", entry |-> operation[t].entry, message |-> operation[t].message,
     from |-> t, counted |-> TRUE]

Message(t, counted) ==
    [kind |-> "message", entry |-> operation[t].entry, message |-> operation[t].message,
     from |-> t, counted |-> counted]

PostMessage(t) ==
    /\ At(t, "post")
    /\ PostTask(PlacedOn, Message(t, TRUE))
    /\ Goes(t, Idle)
    /\ UNCHANGED <<list, pending, batch, inTask, running, posted, handled>>

\* A handle keeps the actor it found; its Post does not look at the counter.
HandleFinds(t) ==
    /\ At(t, "idle") /\ running /\ ~ Locked(t)
    /\ current # 0 /\ posted < MaxMessages
    /\ posted' = posted + 1
    /\ Goes(t, [step |-> "handle", entry |-> current, message |-> posted'])
    /\ UNCHANGED <<list, pending, subs, handled>>

HandlePosts(t) ==
    /\ At(t, "handle")
    /\ PostTask(HashSub, Message(t, FALSE))
    /\ Goes(t, Idle)
    /\ UNCHANGED <<list, pending, batch, inTask, running, posted, handled>>

Continues(t) ==
    \/ Replace(t) \/ PostCreated(t) \/ Destroyed(t) \/ CollectList(t) \/ ReportList(t)
    \/ Count(t) \/ Refuse(t) \/ PostMessage(t) \/ HandlePosts(t)

-----------------------------------------------------------------------------
(* A Sub: the loop of MSubReactorPool and MTaskEventLoop::RunOnce. *)

\* Mutation: the newest task is run first.
TakenReversed(s) == Reverse(queue[s])

\* Mutation: what is queued is taken, but a single task of it is kept.
TakenFirst(s) == <<Head(queue[s])>>

Taken(s) == queue[s]

\* A turn of the loop takes all that is queued.  That bRunning was read before makes
\* no difference: once it is false nothing is posted any more.
Swap(s) ==
    /\ running /\ batch[s] = << >> /\ queue[s] # << >>
    /\ batch' = [batch EXCEPT ![s] = Taken(s)]
    /\ queue' = [queue EXCEPT ![s] = << >>]
    /\ UNCHANGED <<list, pending, operation, inTask, running, posted, handled>>

BeginTask(s) ==
    /\ batch[s] # << >> /\ ~ inTask[s]
    /\ inTask' = [inTask EXCEPT ![s] = TRUE]
    /\ UNCHANGED <<list, pending, operation, queue, batch, running, posted, handled>>

\* OnMessage returns, and then the task gives its place back.
EndTask(s) ==
    LET task == Head(batch[s]) IN
    /\ inTask[s]
    /\ inTask' = [inTask EXCEPT ![s] = FALSE]
    /\ batch' = [batch EXCEPT ![s] = Tail(@)]
    /\ IF task.kind = "message"
       THEN /\ handled' = [handled EXCEPT ![task.entry] = Append(@, task)]
            /\ IF task.counted THEN Uncount(task.entry) ELSE UNCHANGED pending
       ELSE UNCHANGED <<handled, pending>>
    /\ UNCHANGED <<list, operation, queue, running, posted>>

\* MSubReactorPool::Shutdown: a Sub ends the batch it has and no other.  The pool
\* goes when the threads that use it are done.
Shutdown ==
    /\ running /\ \A t \in Thread : At(t, "idle")
    /\ running' = FALSE
    /\ UNCHANGED <<list, pending, operation, queue, batch, inTask, posted, handled>>

-----------------------------------------------------------------------------
SubSteps(s) == Swap(s) \/ BeginTask(s) \/ EndTask(s)

Next ==
    \/ \E t \in Thread :
         \/ Register(t) \/ RegisterAgain(t) \/ Unregister(t)
         \/ DispatchFinds(t) \/ HandleFinds(t) \/ Continues(t)
    \/ \E s \in Sub : SubSteps(s)
    \/ Shutdown

\* The Sub threads run, and an operation that has begun goes on.
Fairness ==
    /\ \A t \in Thread : WF_vars(Continues(t))
    /\ \A s \in Sub : WF_vars(SubSteps(s))

Spec == Init /\ [][Next]_vars /\ Fairness

-----------------------------------------------------------------------------
TypeOK ==
    /\ current \in 0 .. entries /\ entries \in 0 .. MaxEntries
    /\ pending \in [Entry -> 0 .. MaxMessages]
    /\ \A t \in Thread : operation[t].step \in
         {"idle", "replaced", "created", "destroy", "notify", "report",
          "count", "refuse", "post", "handle"}
    /\ \A s \in Sub : inTask[s] => batch[s] # << >>
    /\ running \in BOOLEAN /\ reported \in BOOLEAN /\ overlapped \in BOOLEAN
    /\ posted \in 0 .. MaxMessages

\* Messages that hold a place in the mailbox of entry e: those that wait or run ...
Waiting(e) ==
    {m \in 1 .. posted : \E s \in Sub : \E k \in ToSet(queue[s]) \cup ToSet(batch[s]) :
         k.kind = "message" /\ k.entry = e /\ k.counted /\ k.message = m}

\* ... and those of dispatches that are about to post or to give up.
Dispatching(e) ==
    {m \in 1 .. posted : \E t \in Thread :
         /\ operation[t].step \in {"refuse", "post"}
         /\ operation[t].entry = e /\ operation[t].message = m}

\* The counter of an entry is the number of messages that hold a place: no
\* refusal, replacement or shutdown ever leaves a place taken, which would shut
\* the actor off.  And however many threads post at the limit, no more messages
\* than that wait or run.
CounterExact ==
    \A e \in Entry :
        /\ pending[e] = Cardinality(Waiting(e) \cup Dispatching(e))
        /\ Cardinality(Waiting(e)) <= kMaxPendingPerActor

\* The Sub is in OnCreated or OnMessage of that entry.
Inside(s, e) == inTask[s] /\ Head(batch[s]).entry = e

\* The methods of an entry that are posted, OnCreated and OnMessage, run on one thread
\* at a time, though its registration and its handles each compute the Sub.  OnDestroyed,
\* which Register and Unregister call on their own thread, may be beside them.
OneThread == \A e \in Entry : \A s, r \in Sub : Inside(s, e) /\ Inside(r, e) => s = r

\* An entry gets each message of a thread once, and in the order it was posted,
\* whichever way.
PerSenderFifo ==
    \A e \in Entry : \A i, j \in DOMAIN handled[e] :
        i < j /\ handled[e][i].from = handled[e][j].from
            => handled[e][i].message < handled[e][j].message

\* When no change is under way, the list last reported is right, unless two
\* changes overlapped: a list collected before the other change may be sent after.
StaleNeedsOverlap ==
    overlapped \/ (\E t \in Thread : ChangingList(t)) \/ reported = (current # 0)

\* A message that was posted is handled, even by an entry that is replaced
\* meanwhile, unless the Subs stop.
AcceptedIsHandled ==
    \A m \in 1 .. MaxMessages :
        (\E s \in Sub : \E i \in DOMAIN queue[s] :
             queue[s][i].kind = "message" /\ queue[s][i].message = m)
          ~> (~ running \/ \E e \in Entry : \E i \in DOMAIN handled[e] : handled[e][i].message = m)
=============================================================================
