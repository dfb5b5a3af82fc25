------------------------- MODULE ActorMailboxProofs -------------------------
(***************************************************************************)
(* The mailbox of one actor, for any number of threads, Subs, entries and  *)
(* messages: the counter of an entry is exact, what is posted to it runs   *)
(* on one Sub, each sender's messages arrive in order, and the endpoint    *)
(* cache is wrong only after two changes of the actor list have overlapped.*)
(***************************************************************************)
EXTENDS ActorMailbox, FiniteSetTheorems, TLAPS

Number == 1 .. MaxMessages
InProgress == {"count", "refuse", "post", "handle"}

MessageTask ==
    [kind : {"message"}, entry : Entry, message : Number, from : Thread, counted : BOOLEAN]
Task == [kind : {"created"}, entry : Entry] \cup MessageTask

Operation ==
    [step : {"idle"}] \cup [step : {"replaced", "created", "destroy", "notify"}, entry : Entry]
      \cup [step : {"report"}, listed : BOOLEAN]
      \cup [step : InProgress, entry : Entry, message : Number]

\* The steps of a thread, and those of them that change the list of actors or are about to.
ChangesList(t) ==
    Register(t) \/ RegisterAgain(t) \/ Replace(t) \/ Unregister(t) \/ Destroyed(t)

ThreadStep(t) ==
    \/ Register(t) \/ RegisterAgain(t) \/ Unregister(t)
    \/ DispatchFinds(t) \/ HandleFinds(t) \/ Continues(t)

\* TypeOK leaves the records of tasks and operations open.
Types ==
    /\ TypeOK
    /\ operation \in [Thread -> Operation]
    /\ queue \in [Sub -> Seq(Task)] /\ batch \in [Sub -> Seq(Task)]
    /\ inTask \in [Sub -> BOOLEAN]
    /\ handled \in [Entry -> Seq(MessageTask)]

-----------------------------------------------------------------------------
(* Order.  A message number is given out once, by a thread that has no other *)
(* message under way, and all tasks of the actor pass through one queue.     *)

MessagesOf(q) == {k \in {q[i] : i \in DOMAIN q} : k.kind = "message"}

Queued == MessagesOf(queue[HashSub])
Batched == MessagesOf(batch[HashSub])
Given == UNION {MessagesOf(handled[e]) : e \in Entry}
Placed == Queued \cup Batched \cup Given

Before(a, b) == a.message # b.message /\ (a.from = b.from => a.message < b.message)

Ordered(q) ==
    \A i, j \in DOMAIN q :
        i < j /\ q[i].kind = "message" /\ q[j].kind = "message" => Before(q[i], q[j])

OneSub == \A s \in Sub : s # HashSub => queue[s] = << >> /\ batch[s] = << >>

LineOrder ==
    /\ Ordered(queue[HashSub]) /\ Ordered(batch[HashSub])
    /\ \A e \in Entry : Ordered(handled[e])
    /\ \A a \in Batched, b \in Queued : Before(a, b)
    /\ \A a \in Given, b \in Batched \cup Queued : Before(a, b)

\* What thread t is about to post comes after everything it posted.
Comes(k, t) ==
    k.message # operation[t].message /\ (k.from = t => k.message < operation[t].message)

Underway(t) == operation[t].step \in InProgress

Numbers ==
    /\ \A k \in Placed : k.message <= posted
    /\ \A t \in Thread : Underway(t) =>
         operation[t].message <= posted /\ \A k \in Placed : Comes(k, t)
    /\ \A t, u \in Thread : Underway(t) /\ Underway(u) /\ t # u
         => operation[t].message # operation[u].message

-----------------------------------------------------------------------------
(* The counter, with the numbers of the messages that hold a place. *)

InLine(e) == {k.message : k \in {x \in Queued \cup Batched : x.entry = e /\ x.counted}}

AtStep(e, S) ==
    {operation[t].message : t \in {u \in Thread : operation[u].step \in S /\ operation[u].entry = e}}

Holding(e) == InLine(e) \cup AtStep(e, {"refuse", "post"})
LetIn(e) == InLine(e) \cup AtStep(e, {"post"})

\* A thread that is about to post has been let in: it is one of those the limit counts.
Places ==
    \A e \in Entry :
        /\ pending[e] = Cardinality(Holding(e))
        /\ Cardinality(LetIn(e)) <= kMaxPendingPerActor

-----------------------------------------------------------------------------
(* The endpoint cache: until two changes overlap, at most one is under way, and *)
(* what it collected is still the case.                                         *)

ReportSound ==
    ~ overlapped =>
        /\ \A t, u \in Thread : ChangingList(t) /\ ChangingList(u) => t = u
        /\ \A t \in Thread : operation[t].step = "report" => operation[t].listed = (current # 0)
        /\ (\A t \in Thread : ~ ChangingList(t)) => reported = (current # 0)

Inv == Types /\ OneSub /\ LineOrder /\ Numbers /\ Places /\ ReportSound

-----------------------------------------------------------------------------
(* Sequences of tasks. *)

LEMMA HashSubIsSub == HashSub \in Sub
  BY SizeAssumption DEF HashSub, Sub

LEMMA EmptyLine == MessagesOf(<< >>) = {} /\ Ordered(<< >>)
  BY DEF MessagesOf, Ordered

\* A task put at the end comes after the messages that are there.
LEMMA AppendTask ==
  ASSUME NEW T, NEW q \in Seq(T), NEW k \in T
  PROVE  /\ Append(q, k) \in Seq(T)
         /\ MessagesOf(Append(q, k)) = MessagesOf(q) \cup {x \in {k} : x.kind = "message"}
         /\ Ordered(q) /\ (k.kind = "message" => \A a \in MessagesOf(q) : Before(a, k))
              => Ordered(Append(q, k))
<1>1. Append(q, k) \in Seq(T) /\ Len(Append(q, k)) = Len(q) + 1 /\ Len(q) \in Nat
  OBVIOUS
<1>2. DOMAIN q = 1 .. Len(q) /\ DOMAIN Append(q, k) = 1 .. Len(q) + 1
  BY <1>1
<1>3. /\ \A i \in DOMAIN q : i \in DOMAIN Append(q, k) /\ Append(q, k)[i] = q[i]
      /\ Len(q) + 1 \in DOMAIN Append(q, k) /\ Append(q, k)[Len(q) + 1] = k
      /\ \A i \in DOMAIN Append(q, k) : i \in DOMAIN q \/ i = Len(q) + 1
  BY <1>1, <1>2
<1>4. {Append(q, k)[i] : i \in DOMAIN Append(q, k)} = {q[i] : i \in DOMAIN q} \cup {k}
  <2>1. ASSUME NEW x \in {Append(q, k)[i] : i \in DOMAIN Append(q, k)}
        PROVE  x \in {q[i] : i \in DOMAIN q} \cup {k}
    BY <1>3
  <2>2. ASSUME NEW x \in {q[i] : i \in DOMAIN q} \cup {k}
        PROVE  x \in {Append(q, k)[i] : i \in DOMAIN Append(q, k)}
    BY <1>3
  <2> QED  BY <2>1, <2>2
<1>5. MessagesOf(Append(q, k)) = MessagesOf(q) \cup {x \in {k} : x.kind = "message"}
  BY <1>4 DEF MessagesOf
<1>6. ASSUME Ordered(q), k.kind = "message" => \A a \in MessagesOf(q) : Before(a, k)
      PROVE  Ordered(Append(q, k))
  <2> SUFFICES ASSUME NEW i \in DOMAIN Append(q, k), NEW j \in DOMAIN Append(q, k), i < j,
                      Append(q, k)[i].kind = "message", Append(q, k)[j].kind = "message"
               PROVE  Before(Append(q, k)[i], Append(q, k)[j])
    BY DEF Ordered
  <2>1. i \in DOMAIN q
    BY <1>1, <1>2
  <2>2. CASE j \in DOMAIN q
    BY <1>3, <1>6, <2>1, <2>2 DEF Ordered
  <2>3. CASE j = Len(q) + 1
    BY <1>3, <1>6, <2>1, <2>3 DEF MessagesOf
  <2> QED  BY <1>3, <2>2, <2>3
<1> QED  BY <1>1, <1>5, <1>6

\* The first task comes before the messages that stay.
LEMMA TakeTask ==
  ASSUME NEW T, NEW q \in Seq(T), q # << >>
  PROVE  /\ Head(q) \in T /\ Tail(q) \in Seq(T)
         /\ MessagesOf(q) = MessagesOf(Tail(q)) \cup {x \in {Head(q)} : x.kind = "message"}
         /\ Ordered(q) => /\ Ordered(Tail(q))
                          /\ Head(q).kind = "message"
                               => \A b \in MessagesOf(Tail(q)) : Before(Head(q), b)
<1>1. Head(q) \in T /\ Tail(q) \in Seq(T) /\ Len(Tail(q)) = Len(q) - 1 /\ Len(q) \in Nat \ {0}
      /\ Head(q) = q[1]
  OBVIOUS
<1>2. DOMAIN q = 1 .. Len(q) /\ DOMAIN Tail(q) = 1 .. Len(q) - 1
  BY <1>1
<1>3. /\ 1 \in DOMAIN q
      /\ \A i \in DOMAIN Tail(q) : i + 1 \in DOMAIN q /\ i + 1 > 1 /\ Tail(q)[i] = q[i + 1]
      /\ \A i \in DOMAIN q : i = 1 \/ (i - 1 \in DOMAIN Tail(q) /\ q[i] = Tail(q)[i - 1])
  BY <1>1, <1>2
<1>4. {q[i] : i \in DOMAIN q} = {Tail(q)[i] : i \in DOMAIN Tail(q)} \cup {Head(q)}
  <2>1. ASSUME NEW x \in {q[i] : i \in DOMAIN q}
        PROVE  x \in {Tail(q)[i] : i \in DOMAIN Tail(q)} \cup {Head(q)}
    BY <1>1, <1>3
  <2>2. ASSUME NEW x \in {Tail(q)[i] : i \in DOMAIN Tail(q)} \cup {Head(q)}
        PROVE  x \in {q[i] : i \in DOMAIN q}
    BY <1>1, <1>3
  <2> QED  BY <2>1, <2>2
<1>5. MessagesOf(q) = MessagesOf(Tail(q)) \cup {x \in {Head(q)} : x.kind = "message"}
  BY <1>4 DEF MessagesOf
<1>6. ASSUME Ordered(q) PROVE Ordered(Tail(q))
  BY <1>2, <1>3, <1>6 DEF Ordered
<1>7. ASSUME Ordered(q), Head(q).kind = "message", NEW b \in MessagesOf(Tail(q))
      PROVE  Before(Head(q), b)
  <2>1. PICK i \in DOMAIN Tail(q) : b = Tail(q)[i] /\ b.kind = "message"
    BY DEF MessagesOf
  <2> QED  BY <1>1, <1>3, <1>7, <2>1 DEF Ordered
<1> QED  BY <1>1, <1>5, <1>6, <1>7

LEMMA MessagesTyped ==
  ASSUME NEW q \in Seq(Task) PROVE MessagesOf(q) \subseteq MessageTask
<1>1. \A i \in DOMAIN q : q[i] \in Task
  OBVIOUS
<1> QED  BY <1>1 DEF MessagesOf, Task

LEMMA PlacedTyped ==
  ASSUME Types PROVE Queued \subseteq MessageTask /\ Batched \subseteq MessageTask /\ Given \subseteq MessageTask
<1>1. Queued \subseteq MessageTask /\ Batched \subseteq MessageTask
  BY MessagesTyped, HashSubIsSub DEF Types, Queued, Batched
<1>2. ASSUME NEW e \in Entry PROVE MessagesOf(handled[e]) \subseteq MessageTask
  <2>1. handled[e] \in Seq(MessageTask)
    BY DEF Types
  <2>2. \A i \in DOMAIN handled[e] : handled[e][i] \in MessageTask
    BY <2>1
  <2> QED  BY <2>2 DEF MessagesOf
<1> QED  BY <1>1, <1>2 DEF Given

-----------------------------------------------------------------------------
(* Types. *)

LEMMA TypesInit == Init => Types
<1> SUFFICES ASSUME Init PROVE Types
  OBVIOUS
<1>1. << >> \in Seq(Task) /\ << >> \in Seq(MessageTask)
  OBVIOUS
<1>2. Idle \in Operation
  BY DEF Idle, Operation
<1>3. 0 \in 0 .. MaxMessages /\ 0 \in 0 .. MaxEntries
  BY SizeAssumption
<1>4. /\ current \in 0 .. entries /\ entries \in 0 .. MaxEntries /\ posted \in 0 .. MaxMessages
      /\ pending \in [Entry -> 0 .. MaxMessages]
  BY <1>3 DEF Init
<1>5. \A t \in Thread : operation[t].step = "idle"
  BY DEF Init, Idle
<1>6. \A s \in Sub : inTask[s] = FALSE
  BY DEF Init
<1>7. running \in BOOLEAN /\ reported \in BOOLEAN /\ overlapped \in BOOLEAN
  BY DEF Init
<1>8. TypeOK
  BY <1>4, <1>5, <1>6, <1>7 DEF TypeOK
<1> QED  BY <1>1, <1>2, <1>8 DEF Init, Types

\* The records of operations that go on.
LEMMA StepsTyped ==
  ASSUME NEW o \in Operation
  PROVE  /\ o.step \in {"idle", "replaced", "created", "destroy", "notify", "report"} \cup InProgress
         /\ o.step \in {"created", "destroy"} =>
              o.entry \in Entry /\ [o EXCEPT !.step = "notify"] = [step |-> "notify", entry |-> o.entry]
         /\ o.step = "report" => o.listed \in BOOLEAN
         /\ o.step \in InProgress => o.entry \in Entry /\ o.message \in Number
         /\ o.step = "count" => \A s \in {"refuse", "post"} :
              [o EXCEPT !.step = s] = [step |-> s, entry |-> o.entry, message |-> o.message]
<1>1. o.step \in {"idle", "replaced", "created", "destroy", "notify", "report"} \cup InProgress
  BY DEF Operation, InProgress
<1>2. ASSUME o.step \in {"created", "destroy"}
      PROVE  o.entry \in Entry /\ [o EXCEPT !.step = "notify"] = [step |-> "notify", entry |-> o.entry]
  <2>1. o \in [step : {"replaced", "created", "destroy", "notify"}, entry : Entry]
    BY <1>2 DEF Operation, InProgress
  <2> QED  BY <2>1
<1>3. ASSUME o.step = "report" PROVE o.listed \in BOOLEAN
  BY <1>3 DEF Operation, InProgress
<1>4. ASSUME o.step \in InProgress PROVE o \in [step : InProgress, entry : Entry, message : Number]
  BY <1>4 DEF Operation, InProgress
<1>5. ASSUME o.step = "count", NEW s \in {"refuse", "post"}
      PROVE  [o EXCEPT !.step = s] = [step |-> s, entry |-> o.entry, message |-> o.message]
  <2>1. o \in [step : InProgress, entry : Entry, message : Number]
    BY <1>4, <1>5 DEF InProgress
  <2> QED  BY <2>1
<1> QED  BY <1>1, <1>2, <1>3, <1>4, <1>5

\* What each step of a thread makes of its operation.
LEMMA OperationKeeps ==
  ASSUME Types, NEW t \in Thread,
         ThreadStep(t)
  PROVE  operation' \in [Thread -> Operation]
<1> USE DEF Types
<1>0. operation \in [Thread -> Operation] /\ operation[t] \in Operation
  OBVIOUS
<1>1. current \in 0 .. entries /\ entries \in 0 .. MaxEntries /\ posted \in 0 .. MaxMessages
  BY DEF TypeOK
<1>2. SUFFICES \E o \in Operation : operation' = [operation EXCEPT ![t] = o]
  BY <1>0
<1>3. CASE Register(t) \/ Replace(t)
  <2>1. entries + 1 \in Entry
    BY <1>1, <1>3, SizeAssumption DEF Register, Replace, Insert, Entry
  <2>2. [step |-> "created", entry |-> entries + 1] \in Operation
    BY <2>1 DEF Operation
  <2> QED  BY <1>3, <2>2 DEF Register, Replace, Insert, Goes
<1>4. CASE RegisterAgain(t) \/ Unregister(t)
  <2>1. current \in Entry
    BY <1>1, <1>4, SizeAssumption DEF RegisterAgain, Unregister, Entry
  <2>2. /\ [step |-> "replaced", entry |-> current] \in Operation
        /\ [step |-> "destroy", entry |-> current] \in Operation
    BY <2>1 DEF Operation
  <2> QED  BY <1>4, <2>2 DEF RegisterAgain, Unregister, Goes
<1>5. CASE DispatchFinds(t) \/ HandleFinds(t)
  <2>1. current \in Entry /\ posted + 1 \in Number
    BY <1>1, <1>5, SizeAssumption DEF DispatchFinds, HandleFinds, Entry, Number
  <2>2. /\ [step |-> "count", entry |-> current, message |-> posted + 1] \in Operation
        /\ [step |-> "handle", entry |-> current, message |-> posted + 1] \in Operation
    BY <2>1 DEF Operation, InProgress
  <2> QED  BY <1>5, <2>2 DEF DispatchFinds, HandleFinds, Goes
<1>6. CASE PostCreated(t) \/ Destroyed(t)
  <2>1. operation[t].step \in {"created", "destroy"}
    BY <1>6 DEF PostCreated, Destroyed, At
  <2>2. [step |-> "notify", entry |-> operation[t].entry] \in Operation
    BY <1>0, <2>1, StepsTyped DEF Operation
  <2>3. operation' = [operation EXCEPT ![t] = [step |-> "notify", entry |-> operation[t].entry]]
    <3>1. operation' = [operation EXCEPT ![t] = [operation[t] EXCEPT !.step = "notify"]]
      BY <1>6 DEF PostCreated, Destroyed, Step
    <3> QED  BY <1>0, <2>1, <3>1, StepsTyped
  <2> QED  BY <2>2, <2>3
<1>7. CASE CollectList(t)
  <2>1. [step |-> "report", listed |-> current # 0] \in Operation
    BY DEF Operation
  <2> QED  BY <1>7, <2>1 DEF CollectList, Goes
<1>8. CASE ReportList(t) \/ Refuse(t) \/ PostMessage(t) \/ HandlePosts(t)
  <2>1. Idle \in Operation
    BY DEF Operation, Idle
  <2> QED  BY <1>8, <2>1 DEF ReportList, Refuse, PostMessage, HandlePosts, Goes
<1>9. CASE Count(t)
  <2> DEFINE e == operation[t].entry
             s == IF Over(e) THEN "refuse" ELSE "post"
  <2>1. s \in {"refuse", "post"}
    OBVIOUS
  <2>2. operation' = [operation EXCEPT ![t] = [operation[t] EXCEPT !.step = s]]
    BY <1>9 DEF Count, Step
  <2>3. e \in Entry /\ operation[t].message \in Number
    BY <1>0, <1>9, StepsTyped DEF Count, At, InProgress
  <2>4. [operation[t] EXCEPT !.step = s] = [step |-> s, entry |-> e, message |-> operation[t].message]
    <3> HIDE DEF s
    <3> QED  BY <1>0, <1>9, <2>1, StepsTyped DEF Count, At
  <2>5. [step |-> s, entry |-> e, message |-> operation[t].message] \in Operation
    BY <2>1, <2>3 DEF Operation, InProgress
  <2> QED  BY <2>2, <2>4, <2>5
<1> QED  BY <1>3, <1>4, <1>5, <1>6, <1>7, <1>8, <1>9 DEF ThreadStep, ChangesList, Continues

\* The task that thread t posts.
LEMMA PostedTyped ==
  ASSUME Types, NEW t \in Thread
  PROVE  /\ operation[t].step = "created" => [kind |-> "created", entry |-> operation[t].entry] \in Task
         /\ operation[t].step \in InProgress => \A b \in BOOLEAN :
              Message(t, b) \in MessageTask /\ Message(t, b) \in Task
<1>1. operation[t] \in Operation
  BY DEF Types
<1>2. ASSUME operation[t].step = "created"
      PROVE  [kind |-> "created", entry |-> operation[t].entry] \in Task
  BY <1>1, <1>2, StepsTyped DEF Task
<1>3. ASSUME operation[t].step \in InProgress, NEW b \in BOOLEAN
      PROVE  Message(t, b) \in MessageTask
  BY <1>1, <1>3, StepsTyped DEF MessageTask, Message
<1> QED  BY <1>2, <1>3 DEF Task

\* PostTask adds one task to the queue of the Sub of the hash.
LEMMA PostKeeps ==
  ASSUME Types, NEW k \in Task, PostTask(HashSub, k)
  PROVE  /\ queue' \in [Sub -> Seq(Task)]
         /\ queue'[HashSub] = Append(queue[HashSub], k)
         /\ \A s \in Sub : s # HashSub => queue'[s] = queue[s]
<1>1. queue \in [Sub -> Seq(Task)] /\ queue[HashSub] \in Seq(Task)
  BY HashSubIsSub DEF Types
<1>2. Append(queue[HashSub], k) \in Seq(Task)
  BY <1>1
<1> QED  BY <1>1, <1>2, HashSubIsSub DEF PostTask

\* What a thread posts.
LEMMA ThreadPosts ==
  ASSUME Types, NEW t \in Thread
  PROVE  /\ PostCreated(t) => /\ PostTask(HashSub, [kind |-> "created", entry |-> operation[t].entry])
                              /\ [kind |-> "created", entry |-> operation[t].entry] \in Task
         /\ PostMessage(t) => PostTask(HashSub, Message(t, TRUE)) /\ Message(t, TRUE) \in MessageTask
         /\ HandlePosts(t) => PostTask(HashSub, Message(t, FALSE)) /\ Message(t, FALSE) \in MessageTask
BY PostedTyped DEF PostCreated, PostMessage, HandlePosts, At, InProgress, PlacedOn

LEMMA QueueKeeps ==
  ASSUME Types, NEW t \in Thread,
         ThreadStep(t)
  PROVE  queue' \in [Sub -> Seq(Task)]
<1>1. CASE ChangesList(t) \/ DispatchFinds(t) \/ HandleFinds(t) \/ CollectList(t)
           \/ ReportList(t) \/ Count(t) \/ Refuse(t)
  BY <1>1 DEF Types, ChangesList, Register, RegisterAgain, Replace, Insert, Unregister, Destroyed,
              DispatchFinds, HandleFinds, CollectList, ReportList, Count, Refuse, subs
<1>2. CASE PostCreated(t) \/ PostMessage(t) \/ HandlePosts(t)
  BY <1>2, ThreadPosts, PostKeeps DEF Task
<1> QED  BY <1>1, <1>2 DEF ThreadStep, ChangesList, Continues

\* A step of a thread leaves the batches alone.
LEMMA ThreadKeepsBatches ==
  ASSUME NEW t \in Thread,
         ThreadStep(t)
  PROVE  batch' = batch /\ inTask' = inTask /\ handled' = handled /\ running' = running
BY DEF ThreadStep, ChangesList, Register, RegisterAgain, Replace, Insert, Unregister, Destroyed,
       DispatchFinds, HandleFinds, Continues, PostCreated, CollectList, ReportList, Count, Refuse, PostMessage, HandlePosts, subs

\* The list of actors and the message numbers.
ListTyped ==
    /\ current \in 0 .. entries /\ entries \in 0 .. MaxEntries
    /\ running \in BOOLEAN /\ reported \in BOOLEAN /\ overlapped \in BOOLEAN
    /\ posted \in 0 .. MaxMessages

LEMMA ListKeeps ==
  ASSUME Types, NEW t \in Thread,
         ThreadStep(t)
  PROVE  ListTyped'
<1>0. ListTyped /\ operation[t] \in Operation
  BY DEF Types, TypeOK, ListTyped
<1> USE SizeAssumption
<1>1. CASE Register(t) \/ Replace(t)
  <2>1. /\ current' \in 0 .. entries' /\ entries' \in 0 .. MaxEntries
        /\ posted' = posted /\ reported' = reported
    BY <1>0, <1>1 DEF Register, Replace, Insert, ListTyped
  <2>2. overlapped' \in BOOLEAN
    BY <1>1 DEF Register, Replace, Insert, NoteOverlap
  <2> QED  BY <1>0, <2>1, <2>2, ThreadKeepsBatches DEF ListTyped
<1>2. CASE Unregister(t)
  <2>1. current' \in 0 .. entries' /\ entries' = entries /\ posted' = posted /\ reported' = reported
    BY <1>0, <1>2 DEF Unregister, ListTyped
  <2>2. overlapped' \in BOOLEAN
    BY <1>2 DEF Unregister, NoteOverlap
  <2> QED  BY <1>0, <2>1, <2>2, ThreadKeepsBatches DEF ListTyped
<1>3. CASE DispatchFinds(t) \/ HandleFinds(t)
  <2>1. posted' \in 0 .. MaxMessages /\ UNCHANGED list
    BY <1>0, <1>3 DEF DispatchFinds, HandleFinds, ListTyped
  <2> QED  BY <1>0, <2>1, ThreadKeepsBatches DEF ListTyped, list
<1>4. CASE ReportList(t)
  <2>1. operation[t].listed \in BOOLEAN
    BY <1>0, <1>4, StepsTyped DEF ReportList, At
  <2>2. reported' \in BOOLEAN /\ UNCHANGED <<current, entries, overlapped, posted>>
    BY <1>4, <2>1 DEF ReportList, Report
  <2> QED  BY <1>0, <2>2, ThreadKeepsBatches DEF ListTyped
<1>5. CASE \/ RegisterAgain(t) \/ Destroyed(t) \/ PostCreated(t) \/ CollectList(t)
           \/ Count(t) \/ Refuse(t) \/ PostMessage(t) \/ HandlePosts(t)
  <2>1. UNCHANGED <<list, posted>>
    BY <1>5 DEF RegisterAgain, Destroyed, PostCreated, CollectList, Count, Refuse, PostMessage, HandlePosts
  <2> QED  BY <1>0, <2>1, ThreadKeepsBatches DEF ListTyped, list
<1> QED  BY <1>1, <1>2, <1>3, <1>4, <1>5 DEF ThreadStep, ChangesList, Continues

\* What a Sub takes, begins and ends.
LEMMA BatchOf ==
  ASSUME Types, NEW s \in Sub
  PROVE  /\ batch[s] \in Seq(Task) /\ queue[s] \in Seq(Task) /\ inTask[s] \in BOOLEAN
         /\ inTask[s] => batch[s] # << >>
         /\ batch[s] # << >> => /\ Head(batch[s]) \in Task /\ Tail(batch[s]) \in Seq(Task)
                                /\ Head(batch[s]).entry \in Entry
                                /\ Head(batch[s]).kind = "message" => Head(batch[s]) \in MessageTask
<1>1. batch[s] \in Seq(Task) /\ queue[s] \in Seq(Task) /\ inTask[s] \in BOOLEAN
  BY DEF Types
<1>2. inTask[s] => batch[s] # << >>
  BY DEF Types, TypeOK
<1>3. ASSUME batch[s] # << >> PROVE Head(batch[s]) \in Task /\ Tail(batch[s]) \in Seq(Task)
  BY <1>1, <1>3, TakeTask
<1>4. \A k \in Task : k.entry \in Entry /\ (k.kind = "message" => k \in MessageTask)
  BY DEF Task, MessageTask
<1> QED  BY <1>1, <1>2, <1>3, <1>4

LEMMA SubKeeps ==
  ASSUME Types, NEW s \in Sub, SubSteps(s)
  PROVE  /\ queue' \in [Sub -> Seq(Task)] /\ batch' \in [Sub -> Seq(Task)]
         /\ inTask' \in [Sub -> BOOLEAN] /\ handled' \in [Entry -> Seq(MessageTask)]
         /\ \A r \in Sub : inTask'[r] => batch'[r] # << >>
         /\ UNCHANGED <<list, operation, running, posted>>
<1>0. /\ queue \in [Sub -> Seq(Task)] /\ batch \in [Sub -> Seq(Task)] /\ inTask \in [Sub -> BOOLEAN]
      /\ handled \in [Entry -> Seq(MessageTask)] /\ \A r \in Sub : inTask[r] => batch[r] # << >>
  BY BatchOf DEF Types
<1>1. CASE Swap(s)
  <2>1. << >> \in Seq(Task)
    OBVIOUS
  <2>2. queue' \in [Sub -> Seq(Task)] /\ batch' \in [Sub -> Seq(Task)]
    BY <1>0, <1>1, <2>1 DEF Swap, Taken
  <2>3. inTask' = inTask /\ handled' = handled /\ UNCHANGED <<list, operation, running, posted>>
    BY <1>1 DEF Swap
  <2>4. ASSUME NEW r \in Sub, inTask[r] PROVE batch'[r] # << >>
    BY <1>0, <1>1, <2>4 DEF Swap, Taken
  <2> QED  BY <1>0, <2>2, <2>3, <2>4
<1>2. CASE BeginTask(s)
  <2>1. /\ inTask' \in [Sub -> BOOLEAN] /\ queue' = queue /\ batch' = batch /\ handled' = handled
        /\ UNCHANGED <<list, operation, running, posted>>
    BY <1>0, <1>2 DEF BeginTask
  <2>2. \A r \in Sub : r # s => inTask'[r] = inTask[r]
    BY <1>0, <1>2 DEF BeginTask
  <2>3. batch[s] # << >>
    BY <1>2 DEF BeginTask
  <2> QED  BY <1>0, <2>1, <2>2, <2>3
<1>3. CASE EndTask(s)
  <2> DEFINE task == Head(batch[s])
  <2>1. batch[s] # << >> /\ Tail(batch[s]) \in Seq(Task) /\ task \in Task /\ task.entry \in Entry
    BY <1>3, BatchOf DEF EndTask
  <2>2. /\ inTask' = [inTask EXCEPT ![s] = FALSE] /\ batch' = [batch EXCEPT ![s] = Tail(batch[s])]
        /\ queue' = queue /\ UNCHANGED <<list, operation, running, posted>>
    BY <1>3 DEF EndTask
  <2>3. inTask' \in [Sub -> BOOLEAN] /\ batch' \in [Sub -> Seq(Task)]
    BY <1>0, <2>1, <2>2
  <2>4. ASSUME NEW r \in Sub, inTask'[r] PROVE batch'[r] # << >>
    <3>1. r # s
      BY <1>0, <2>2, <2>4
    <3>2. inTask'[r] = inTask[r] /\ batch'[r] = batch[r]
      BY <1>0, <2>2, <3>1
    <3> QED  BY <1>0, <2>4, <3>2
  <2>5. handled' \in [Entry -> Seq(MessageTask)]
    <3>1. CASE task.kind = "message"
      <4>1. task \in MessageTask /\ handled[task.entry] \in Seq(MessageTask)
        BY <1>0, <2>1, <3>1, BatchOf
      <4>2. Append(handled[task.entry], task) \in Seq(MessageTask)
        BY <4>1
      <4>3. handled' = [handled EXCEPT ![task.entry] = Append(handled[task.entry], task)]
        BY <1>3, <3>1 DEF EndTask
      <4> QED  BY <1>0, <4>2, <4>3
    <3>2. CASE task.kind # "message"
      BY <1>0, <1>3, <3>2 DEF EndTask
    <3> QED  BY <3>1, <3>2
  <2> QED  BY <1>0, <2>2, <2>3, <2>4, <2>5
<1> QED  BY <1>1, <1>2, <1>3 DEF SubSteps

\* Everything but the counters, which are bounded by the messages they count.
LEMMA RestKeeps ==
  ASSUME Types, [Next]_vars, pending' \in [Entry -> 0 .. MaxMessages] PROVE Types'
<1>0. SUFFICES /\ ListTyped' /\ operation' \in [Thread -> Operation]
               /\ queue' \in [Sub -> Seq(Task)] /\ batch' \in [Sub -> Seq(Task)]
               /\ inTask' \in [Sub -> BOOLEAN] /\ handled' \in [Entry -> Seq(MessageTask)]
               /\ \A r \in Sub : inTask'[r] => batch'[r] # << >>
  <2>1. ASSUME operation' \in [Thread -> Operation]
        PROVE  \A t \in Thread : operation'[t].step \in
                 {"idle", "replaced", "created", "destroy", "notify", "report",
                  "count", "refuse", "post", "handle"}
    <3> TAKE t \in Thread
    <3>1. operation'[t] \in Operation
      BY <2>1
    <3>2. operation'[t].step
            \in {"idle", "replaced", "created", "destroy", "notify", "report"} \cup InProgress
      BY <3>1, StepsTyped
    <3> QED  BY <3>2 DEF InProgress
  <2> QED  BY <2>1 DEF Types, TypeOK, ListTyped
<1>1. /\ ListTyped /\ operation \in [Thread -> Operation]
      /\ queue \in [Sub -> Seq(Task)] /\ batch \in [Sub -> Seq(Task)]
      /\ inTask \in [Sub -> BOOLEAN] /\ handled \in [Entry -> Seq(MessageTask)]
      /\ \A r \in Sub : inTask[r] => batch[r] # << >>
  BY BatchOf DEF Types, TypeOK, ListTyped
<1>2. ASSUME NEW t \in Thread,
             ThreadStep(t)
      PROVE  /\ ListTyped' /\ operation' \in [Thread -> Operation] /\ queue' \in [Sub -> Seq(Task)]
             /\ batch' = batch /\ inTask' = inTask /\ handled' = handled
  BY <1>2, ListKeeps, OperationKeeps, QueueKeeps, ThreadKeepsBatches
<1>3. ASSUME NEW s \in Sub, SubSteps(s) PROVE ListTyped'
  BY <1>1, <1>3, SubKeeps DEF ListTyped, list
<1>4. ASSUME Shutdown PROVE ListTyped' /\ UNCHANGED <<operation, queue, batch, inTask, handled>>
  BY <1>1, <1>4 DEF Shutdown, ListTyped, list
<1>5. ASSUME UNCHANGED vars PROVE ListTyped' /\ UNCHANGED <<operation, queue, batch, inTask, handled>>
  BY <1>1, <1>5 DEF vars, subs, ListTyped, list
<1> QED  BY <1>1, <1>2, <1>3, <1>4, <1>5, SubKeeps DEF Next, ThreadStep

-----------------------------------------------------------------------------
(* The order of messages. *)

LEMMA OneSubKeeps ==
  ASSUME Types, OneSub, [Next]_vars PROVE OneSub'
<1> SUFFICES ASSUME NEW s \in Sub, s # HashSub PROVE queue'[s] = << >> /\ batch'[s] = << >>
  BY DEF OneSub, HashSub
<1>0. queue[s] = << >> /\ batch[s] = << >>
  BY DEF OneSub
<1>1. ASSUME NEW t \in Thread,
             ThreadStep(t)
      PROVE  queue'[s] = << >> /\ batch'[s] = << >>
  <2>1. batch' = batch
    BY <1>1, ThreadKeepsBatches
  <2>2. CASE ChangesList(t) \/ DispatchFinds(t) \/ HandleFinds(t) \/ CollectList(t)
             \/ ReportList(t) \/ Count(t) \/ Refuse(t)
    BY <1>0, <2>1, <2>2 DEF ChangesList, Register, RegisterAgain, Replace, Insert, Unregister, Destroyed,
                            DispatchFinds, HandleFinds, CollectList, ReportList, Count, Refuse, subs
  <2>3. CASE PostCreated(t) \/ PostMessage(t) \/ HandlePosts(t)
    BY <1>0, <2>1, <2>3, ThreadPosts, PostKeeps DEF Task
  <2> QED  BY <1>1, <2>2, <2>3 DEF ThreadStep, ChangesList, Continues
<1>2. ASSUME NEW r \in Sub, SubSteps(r) PROVE queue'[s] = << >> /\ batch'[s] = << >>
  <2>1. CASE Swap(r)
    BY <1>0, <2>1 DEF Swap, Taken, Types
  <2>2. CASE BeginTask(r)
    BY <1>0, <2>2 DEF BeginTask
  <2>3. CASE EndTask(r)
    <3>1. r # s
      BY <1>0, <2>3, BatchOf DEF EndTask
    <3> QED  BY <1>0, <2>3, <3>1 DEF EndTask, Types
  <2> QED  BY <1>2, <2>1, <2>2, <2>3 DEF SubSteps
<1>3. ASSUME Shutdown \/ UNCHANGED vars PROVE queue'[s] = << >> /\ batch'[s] = << >>
  BY <1>0, <1>3 DEF Shutdown, vars, subs
<1> QED  BY <1>1, <1>2, <1>3 DEF Next, ThreadStep

\* What a step of thread t does to the operations: those of other threads stay, and
\* a message number is new or the one thread t has.
LEMMA ThreadOperation ==
  ASSUME Types, NEW t \in Thread,
         ThreadStep(t)
  PROVE  /\ \A u \in Thread : u # t => operation'[u] = operation[u]
         /\ \/ posted' = posted /\ operation'[t].step \notin InProgress
            \/ /\ posted' = posted /\ Count(t) /\ operation[t].step = "count"
               /\ operation'[t] = [step |-> IF Over(operation[t].entry) THEN "refuse" ELSE "post",
                                   entry |-> operation[t].entry, message |-> operation[t].message]
            \/ /\ posted' = posted + 1 /\ operation'[t].step \in {"count", "handle"}
               /\ operation'[t].message = posted + 1
<1>0. operation \in [Thread -> Operation] /\ operation[t] \in Operation
  BY DEF Types
<1>1. \A u \in Thread : u # t => operation'[u] = operation[u]
  BY <1>0 DEF ThreadStep, ChangesList, Register, RegisterAgain, Replace, Insert, Unregister, Destroyed,
     DispatchFinds, HandleFinds, Continues, PostCreated, CollectList, ReportList, Count, Refuse, PostMessage, HandlePosts, Goes, Step
<1>2. CASE Register(t) \/ Replace(t)
  <2>1. operation'[t].step = "created"
    BY <1>0, <1>2 DEF Register, Replace, Insert, Goes
  <2> QED  BY <1>1, <1>2, <2>1 DEF Register, Replace, Insert, InProgress
<1>3. CASE RegisterAgain(t) \/ Unregister(t)
  <2>1. operation'[t].step \in {"replaced", "destroy"}
    BY <1>0, <1>3 DEF RegisterAgain, Unregister, Goes
  <2> QED  BY <1>1, <1>3, <2>1 DEF RegisterAgain, Unregister, InProgress
<1>4. CASE DispatchFinds(t)
  BY <1>0, <1>1, <1>4 DEF DispatchFinds, Goes
<1>5. CASE HandleFinds(t)
  BY <1>0, <1>1, <1>5 DEF HandleFinds, Goes
<1>6. CASE PostCreated(t) \/ Destroyed(t)
  <2>1. operation'[t].step = "notify" /\ posted' = posted
    <3>1. operation'[t] = [operation[t] EXCEPT !.step = "notify"]
      BY <1>0, <1>6 DEF PostCreated, Destroyed, Step
    <3>2. operation[t].step \in {"created", "destroy"}
      BY <1>6 DEF PostCreated, Destroyed, At
    <3>3. operation'[t] = [step |-> "notify", entry |-> operation[t].entry]
      BY <1>0, <3>1, <3>2, StepsTyped
    <3> QED  BY <1>6, <3>3 DEF PostCreated, Destroyed
  <2> QED  BY <1>1, <2>1 DEF InProgress
<1>7. CASE CollectList(t)
  <2>1. operation'[t].step = "report"
    BY <1>0, <1>7 DEF CollectList, Goes
  <2> QED  BY <1>1, <1>7, <2>1 DEF CollectList, InProgress
<1>8. CASE ReportList(t) \/ Refuse(t) \/ PostMessage(t) \/ HandlePosts(t)
  <2>1. operation' = [operation EXCEPT ![t] = Idle] /\ posted' = posted
    BY <1>8 DEF ReportList, Refuse, PostMessage, HandlePosts, Goes
  <2>2. operation'[t] = Idle
    BY <1>0, <2>1
  <2> QED  BY <1>1, <2>1, <2>2 DEF InProgress, Idle
<1>9. CASE Count(t)
  <2> DEFINE s == IF Over(operation[t].entry) THEN "refuse" ELSE "post"
  <2>1. operation'[t] = [operation[t] EXCEPT !.step = s] /\ operation[t].step = "count" /\ posted' = posted
    BY <1>0, <1>9 DEF Count, Step, At
  <2>2. s \in {"refuse", "post"}
    OBVIOUS
  <2>3. operation'[t] = [step |-> s, entry |-> operation[t].entry, message |-> operation[t].message]
    <3> HIDE DEF s
    <3> QED  BY <1>0, <2>1, <2>2, StepsTyped
  <2> QED  BY <1>1, <1>9, <2>1, <2>3
<1> QED  BY <1>2, <1>3, <1>4, <1>5, <1>6, <1>7, <1>8, <1>9 DEF ThreadStep, ChangesList, Continues

\* The numbers stay sound when thread t posts nothing, or the message it has under way.
LEMMA NumbersKeep ==
  ASSUME Types, Numbers, NEW t \in Thread,
         ThreadStep(t),
         \A k \in Placed' : k \in Placed \/
            /\ Underway(t) /\ operation'[t].step \notin InProgress
            /\ k.from = t /\ k.message = operation[t].message
  PROVE  Numbers'
<1> DEFINE o == operation'[t]
<1>op. /\ \A u \in Thread : u # t => operation'[u] = operation[u]
      /\ \/ posted' = posted /\ o.step \notin InProgress
         \/ posted' = posted /\ operation[t].step = "count" /\ o.message = operation[t].message
         \/ posted' = posted + 1 /\ o.message = posted + 1
  <2> USE ThreadOperation
  <2>1. \A u \in Thread : u # t => operation'[u] = operation[u]
    OBVIOUS
  <2>2. \/ posted' = posted /\ o.step \notin InProgress
        \/ /\ posted' = posted /\ operation[t].step = "count"
           /\ o = [step |-> IF Over(operation[t].entry) THEN "refuse" ELSE "post",
                                   entry |-> operation[t].entry, message |-> operation[t].message]
        \/ posted' = posted + 1 /\ o.message = posted + 1
    OBVIOUS
  <2> QED  BY <2>1, <2>2
<1>0. /\ posted \in Nat /\ posted' \in {posted, posted + 1}
      /\ \A u \in Thread : u # t => operation'[u] = operation[u]
  BY <1>op, SizeAssumption DEF Types, TypeOK
<1>1. \A u \in Thread : Underway(u) => operation[u].message \in Nat /\ operation[u].message <= posted
  <2> TAKE u \in Thread
  <2>1. operation[u] \in Operation
    BY DEF Types
  <2>2. Underway(u) => operation[u].message \in 1 .. MaxMessages
    BY <2>1, StepsTyped DEF Underway, Number
  <2> QED  BY <2>2, SizeAssumption DEF Numbers
<1>2. \A k \in Placed : k.message \in Nat /\ k.message <= posted
  BY PlacedTyped, SizeAssumption DEF Numbers, Placed, MessageTask, Number
<1>3. \A k \in Placed' : k.message \in Nat /\ k.message <= posted /\ k.message <= posted'
  BY <1>0, <1>1, <1>2
<1>4. \/ operation'[t].step \notin InProgress
      \/ Underway(t) /\ operation'[t].message = operation[t].message
      \/ posted' = posted + 1 /\ operation'[t].message = posted + 1
  BY <1>op DEF Underway, InProgress
<1>5. ASSUME NEW u \in Thread, operation'[u].step \in InProgress
      PROVE  /\ operation'[u].message <= posted'
             /\ \A k \in Placed' : /\ k.message # operation'[u].message
                                   /\ k.from = u => k.message < operation'[u].message
  <2>1. CASE u # t
    <3>1. operation'[u] = operation[u] /\ Underway(u)
      BY <1>0, <1>5, <2>1 DEF Underway
    <3>2. operation'[u].message <= posted'
      BY <1>0, <1>1, <3>1
    <3>3. ASSUME NEW k \in Placed'
          PROVE  /\ k.message # operation'[u].message
                 /\ k.from = u => k.message < operation'[u].message
      <4>1. CASE k \in Placed
        BY <3>1, <4>1 DEF Numbers, Comes
      <4>2. CASE k \notin Placed
        <5>1. Underway(t) /\ k.from = t /\ k.message = operation[t].message
          BY <4>2
        <5> QED  BY <2>1, <3>1, <5>1 DEF Numbers
      <4> QED  BY <4>1, <4>2
    <3> QED  BY <3>2, <3>3
  <2>2. CASE u = t
    <3>1. \A k \in Placed' : k \in Placed
      BY <1>5, <2>2
    <3>2. CASE Underway(t) /\ operation'[t].message = operation[t].message
      BY <1>0, <1>1, <2>2, <3>1, <3>2 DEF Numbers, Comes
    <3>3. CASE posted' = posted + 1 /\ operation'[t].message = posted + 1
      BY <1>0, <1>2, <2>2, <3>1, <3>3
    <3> QED  BY <1>4, <1>5, <2>2, <3>2, <3>3
  <2> QED  BY <2>1, <2>2
<1>6. ASSUME NEW u \in Thread, NEW v \in Thread, u # v,
             operation'[u].step \in InProgress, operation'[v].step \in InProgress
      PROVE  operation'[u].message # operation'[v].message
  <2>1. CASE u # t /\ v # t
    BY <1>0, <1>6, <2>1 DEF Numbers, Underway
  <2>2. ASSUME NEW w \in Thread, w # t, operation'[w].step \in InProgress,
               operation'[t].step \in InProgress
        PROVE  operation'[t].message # operation'[w].message
    <3>1. operation'[w] = operation[w] /\ Underway(w)
      BY <1>0, <2>2 DEF Underway
    <3>2. operation[w].message \in Nat /\ operation[w].message <= posted
      BY <1>1, <3>1
    <3>3. CASE Underway(t) /\ operation'[t].message = operation[t].message
      BY <2>2, <3>1, <3>3 DEF Numbers
    <3>4. CASE operation'[t].message = posted + 1
      BY <1>0, <3>1, <3>2, <3>4
    <3> QED  BY <1>4, <2>2, <3>3, <3>4
  <2> QED  BY <1>6, <2>1, <2>2
<1> QED  BY <1>3, <1>5, <1>6 DEF Numbers, Underway, Comes

\* A message put at the end of the line comes after all its sender has posted.
LEMMA PostOrders ==
  ASSUME Types, LineOrder, Numbers, NEW t \in Thread, Underway(t), NEW b \in BOOLEAN,
         PostTask(HashSub, Message(t, b)), UNCHANGED <<batch, handled>>
  PROVE  /\ LineOrder' /\ Batched' = Batched /\ Given' = Given
         /\ Queued' = Queued \cup {Message(t, b)}
<1> DEFINE k == Message(t, b)
<1>1. k \in Task /\ k.kind = "message" /\ k.from = t /\ k.message = operation[t].message
  BY PostedTyped DEF Underway, Message
<1>2. queue[HashSub] \in Seq(Task) /\ queue'[HashSub] = Append(queue[HashSub], k)
  BY <1>1, PostKeeps, HashSubIsSub DEF Types
<1>3. \A a \in Placed : Before(a, k)
  BY <1>1 DEF Numbers, Comes, Before
<1>4. Queued' = Queued \cup {k} /\ Batched' = Batched /\ Given' = Given
  <2>1. MessagesOf(queue'[HashSub]) = Queued \cup {k}
    BY <1>1, <1>2, AppendTask DEF Queued
  <2> QED  BY <2>1 DEF Queued, Batched, Given, HashSub
<1>5. Ordered(queue'[HashSub])
  <2>1. Ordered(queue[HashSub]) /\ \A a \in MessagesOf(queue[HashSub]) : Before(a, k)
    BY <1>3 DEF LineOrder, Placed, Queued
  <2> HIDE DEF k
  <2> QED  BY <1>1, <1>2, <2>1, AppendTask
<1>6. /\ \A x \in Batched, y \in Queued \cup {k} : Before(x, y)
      /\ \A x \in Given, y \in Batched \cup Queued \cup {k} : Before(x, y)
  BY <1>3 DEF LineOrder, Placed
<1>7. LineOrder'
  <2>1. Ordered(batch'[HashSub]) /\ \A e \in Entry : Ordered(handled'[e])
    BY DEF LineOrder
  <2>2. /\ \A x \in Batched', y \in Queued' : Before(x, y)
        /\ \A x \in Given', y \in Batched' \cup Queued' : Before(x, y)
    BY <1>4, <1>6
  <2> QED  BY <1>5, <2>1, <2>2 DEF LineOrder, HashSub, Before
<1> QED  BY <1>4, <1>7

\* A step of a thread keeps the order of the line.
LEMMA ThreadOrderKeeps ==
  ASSUME Types, LineOrder, Numbers, NEW t \in Thread,
         ThreadStep(t)
  PROVE  LineOrder' /\ Numbers'
<1>0. batch' = batch /\ handled' = handled
  BY ThreadKeepsBatches
<1>1. CASE ChangesList(t) \/ DispatchFinds(t) \/ HandleFinds(t) \/ CollectList(t)
           \/ ReportList(t) \/ Count(t) \/ Refuse(t)
  <2>1. queue' = queue
    BY <1>1 DEF ChangesList, Register, RegisterAgain, Replace, Insert, Unregister, Destroyed,
                DispatchFinds, HandleFinds, CollectList, ReportList, Count,
                Refuse, subs
  <2>2. Queued' = Queued /\ Batched' = Batched /\ Given' = Given
    BY <1>0, <2>1 DEF Queued, Batched, Given, HashSub
  <2>3. LineOrder'
    BY <1>0, <2>1, <2>2 DEF LineOrder, HashSub
  <2> QED  BY <2>2, <2>3, NumbersKeep DEF Placed
<1>2. CASE PostCreated(t)
  <2> DEFINE k == [kind |-> "created", entry |-> operation[t].entry]
  <2>1. k \in Task /\ queue'[HashSub] = Append(queue[HashSub], k) /\ queue[HashSub] \in Seq(Task)
    BY <1>2, ThreadPosts, PostKeeps, HashSubIsSub DEF Types
  <2>2. k.kind # "message"
    OBVIOUS
  <2>3. MessagesOf(queue'[HashSub]) = MessagesOf(queue[HashSub]) /\ Ordered(queue'[HashSub])
    <3>1. Ordered(queue[HashSub])
      BY DEF LineOrder
    <3> HIDE DEF k
    <3>2. /\ MessagesOf(Append(queue[HashSub], k))
               = MessagesOf(queue[HashSub]) \cup {x \in {k} : x.kind = "message"}
          /\ Ordered(Append(queue[HashSub], k))
      BY <2>1, <2>2, <3>1, AppendTask
    <3>3. {x \in {k} : x.kind = "message"} = {}
      BY <2>2
    <3> QED  BY <2>1, <3>2, <3>3
  <2>4. Queued' = Queued /\ Batched' = Batched /\ Given' = Given
    BY <1>0, <2>3 DEF Queued, Batched, Given, HashSub
  <2>5. LineOrder'
    BY <1>0, <2>3, <2>4 DEF LineOrder, HashSub
  <2> QED  BY <2>4, <2>5, NumbersKeep DEF Placed
<1>3. CASE PostMessage(t) \/ HandlePosts(t)
  <2>1. PICK b \in BOOLEAN : PostTask(HashSub, Message(t, b))
    BY <1>3, ThreadPosts
  <2>2. Underway(t) /\ operation'[t].step \notin InProgress
    <3>1. operation' = [operation EXCEPT ![t] = Idle] /\ operation[t].step \in {"post", "handle"}
      BY <1>3 DEF PostMessage, HandlePosts, Goes, At
    <3>2. operation'[t] = Idle
      BY <3>1 DEF Types
    <3> QED  BY <3>1, <3>2 DEF Underway, InProgress, Idle
  <2>3. /\ LineOrder' /\ Batched' = Batched /\ Given' = Given
        /\ Queued' = Queued \cup {Message(t, b)}
    BY <1>0, <2>1, <2>2, PostOrders
  <2>4. Message(t, b).from = t /\ Message(t, b).message = operation[t].message
    BY DEF Message
  <2>5. \A k \in Placed' : k \in Placed \/
          /\ Underway(t) /\ operation'[t].step \notin InProgress
          /\ k.from = t /\ k.message = operation[t].message
    BY <2>2, <2>3, <2>4 DEF Placed
  <2> QED  BY <2>3, <2>5, NumbersKeep
<1> QED  BY <1>1, <1>2, <1>3 DEF ThreadStep, ChangesList, Continues

\* The end of a task moves its message from the front of the batch to what was handled.
LEMMA EndMoves ==
  ASSUME Types, OneSub, LineOrder, NEW s \in Sub, EndTask(s)
  PROVE  LET task == Head(batch[s])
             taken == {x \in {task} : x.kind = "message"} IN
         /\ s = HashSub /\ task \in Task
         /\ batch[s] # << >> /\ queue' = queue
         /\ batch'[HashSub] = Tail(batch[HashSub])
         /\ Queued' = Queued /\ Batched = Batched' \cup taken /\ Given' = Given \cup taken
         /\ \A e \in Entry : Ordered(handled'[e])
         /\ task.kind = "message" => \A x \in Batched' : Before(task, x)
<1> DEFINE task == Head(batch[s])
           taken == {x \in {task} : x.kind = "message"}
<1>1. batch[s] # << >> /\ task \in Task /\ task.entry \in Entry
  BY BatchOf DEF EndTask
<1>2. s = HashSub
  BY <1>1 DEF OneSub
<1>3. queue' = queue /\ batch'[HashSub] = Tail(batch[HashSub])
  BY <1>2 DEF EndTask, Types
<1>4. batch[HashSub] \in Seq(Task) /\ Ordered(batch[HashSub])
  BY HashSubIsSub DEF Types, LineOrder
<1>5. /\ Batched = MessagesOf(Tail(batch[HashSub])) \cup taken
      /\ task.kind = "message" => \A x \in MessagesOf(Tail(batch[HashSub])) : Before(task, x)
  BY <1>1, <1>2, <1>4, TakeTask DEF Batched
<1>6. Batched' = MessagesOf(Tail(batch[HashSub])) /\ Queued' = Queued
  BY <1>3 DEF Batched, Queued, HashSub
<1>7. ASSUME NEW e \in Entry
      PROVE  /\ Ordered(handled'[e])
             /\ MessagesOf(handled'[e]) = MessagesOf(handled[e])
                  \cup {x \in taken : e = task.entry}
  <2>1. handled \in [Entry -> Seq(MessageTask)] /\ Ordered(handled[e])
    BY DEF Types, LineOrder
  <2>2. CASE task.kind = "message" /\ e = task.entry
    <3>1. handled'[e] = Append(handled[e], task)
      BY <2>1, <2>2 DEF EndTask
    <3>2. task \in MessageTask /\ handled[e] \in Seq(MessageTask)
      BY <1>1, <2>1, <2>2, BatchOf
    <3>3. \A a \in MessagesOf(handled[e]) : Before(a, task)
      <4>1. task \in Batched
        BY <1>5, <2>2
      <4>2. MessagesOf(handled[e]) \subseteq Given
        BY DEF Given
      <4> QED  BY <4>1, <4>2 DEF LineOrder
    <3> HIDE DEF task
    <3>4. /\ MessagesOf(handled'[e]) = MessagesOf(handled[e]) \cup {x \in {task} : x.kind = "message"}
          /\ Ordered(handled'[e])
      BY <2>1, <3>1, <3>2, <3>3, AppendTask
    <3> QED  BY <2>2, <3>4
  <2>3. CASE ~ (task.kind = "message" /\ e = task.entry)
    <3>1. handled'[e] = handled[e]
      BY <1>1, <2>1, <2>3 DEF EndTask
    <3>2. {x \in taken : e = task.entry} = {}
      BY <2>3
    <3> QED  BY <2>1, <3>1, <3>2
  <2> QED  BY <2>2, <2>3
<1>8. Given' = Given \cup taken
  <2>1. Given' = UNION {MessagesOf(handled'[e]) : e \in Entry}
    BY DEF Given
  <2> HIDE DEF task, taken
  <2>2. ASSUME NEW x PROVE x \in Given' <=> x \in Given \cup taken
    BY <1>1, <1>7, <2>1 DEF Given
  <2> QED  BY <2>2
<1> QED  BY <1>1, <1>2, <1>3, <1>5, <1>6, <1>7, <1>8

LEMMA SubOrderKeeps ==
  ASSUME Types, OneSub, LineOrder, Numbers, NEW s \in Sub, SubSteps(s)
  PROVE  LineOrder' /\ Numbers'
<1>0. posted' = posted /\ operation' = operation
  BY SubKeeps
<1>1. SUFFICES LineOrder' /\ Placed' = Placed
  <2>1. ASSUME Placed' = Placed PROVE Numbers'
    BY <1>0, <2>1 DEF Numbers, Underway, Comes
  <2> QED  BY <2>1
<1>2. CASE Swap(s)
  <2>1. s = HashSub
    BY <1>2 DEF Swap, OneSub
  <2>2. /\ batch[HashSub] = << >> /\ batch'[HashSub] = queue[HashSub] /\ queue'[HashSub] = << >>
        /\ handled' = handled
    BY <1>2, <2>1, HashSubIsSub DEF Swap, Taken, Types
  <2>3. Batched = {} /\ Queued' = {} /\ Batched' = Queued /\ Given' = Given
    BY <2>2, EmptyLine DEF Batched, Queued, Given, HashSub
  <2>4. /\ Ordered(queue'[HashSub]) /\ Ordered(batch'[HashSub])
        /\ \A e \in Entry : Ordered(handled'[e])
    BY <2>2, EmptyLine DEF LineOrder
  <2>5. /\ \A a \in Batched', b \in Queued' : Before(a, b)
        /\ \A a \in Given', b \in Batched' \cup Queued' : Before(a, b)
    BY <2>3 DEF LineOrder
  <2> QED  BY <2>3, <2>4, <2>5 DEF LineOrder, Placed, HashSub, Before
<1>3. CASE BeginTask(s)
  <2>1. queue' = queue /\ batch' = batch /\ handled' = handled
    BY <1>3 DEF BeginTask
  <2>2. Queued' = Queued /\ Batched' = Batched /\ Given' = Given
    BY <2>1 DEF Queued, Batched, Given, HashSub
  <2> QED  BY <2>1, <2>2 DEF LineOrder, Placed, HashSub
<1>4. CASE EndTask(s)
  <2> DEFINE task == Head(batch[s])
             taken == {x \in {task} : x.kind = "message"}
  <2>1. /\ batch[s] # << >> /\ s = HashSub /\ queue' = queue
        /\ batch'[HashSub] = Tail(batch[HashSub])
        /\ Queued' = Queued /\ Batched = Batched' \cup taken /\ Given' = Given \cup taken
        /\ \A e \in Entry : Ordered(handled'[e])
        /\ task.kind = "message" => \A x \in Batched' : Before(task, x)
    BY <1>4, EndMoves
  <2>2. Ordered(queue'[HashSub]) /\ Ordered(batch'[HashSub])
    <3>1. batch[HashSub] \in Seq(Task) /\ Ordered(batch[HashSub]) /\ Ordered(queue[HashSub])
      BY HashSubIsSub DEF Types, LineOrder
    <3> QED  BY <2>1, <3>1, TakeTask
  <2>3. \A x \in taken : x = task /\ task.kind = "message" /\ x \in Batched
    BY <2>1
  <2> HIDE DEF task, taken
  <2>4. \A a \in Batched', b \in Queued' : Before(a, b)
    BY <2>1 DEF LineOrder
  <2>5. ASSUME NEW a \in Given', NEW b \in Batched' \cup Queued' PROVE Before(a, b)
    <3>1. CASE a \in Given
      BY <2>1, <2>5, <3>1 DEF LineOrder
    <3>2. CASE a \in taken
      BY <2>1, <2>3, <2>5, <3>2 DEF LineOrder
    <3> QED  BY <2>1, <2>5, <3>1, <3>2
  <2>6. Placed' = Placed
    BY <2>1 DEF Placed
  <2> QED  BY <2>1, <2>2, <2>4, <2>5, <2>6 DEF LineOrder, HashSub, Before
<1> QED  BY <1>2, <1>3, <1>4 DEF SubSteps

LEMMA OrderKeeps ==
  ASSUME Types, OneSub, LineOrder, Numbers, [Next]_vars PROVE LineOrder' /\ Numbers'
<1>1. ASSUME Shutdown \/ UNCHANGED vars PROVE LineOrder' /\ Numbers'
  <2>1. queue' = queue /\ batch' = batch /\ handled' = handled /\ operation' = operation
        /\ posted' = posted
    BY <1>1 DEF Shutdown, vars, subs
  <2>2. Queued' = Queued /\ Batched' = Batched /\ Given' = Given
    BY <2>1 DEF Queued, Batched, Given, HashSub
  <2>3. LineOrder'
    BY <2>1, <2>2 DEF LineOrder, HashSub
  <2>4. Numbers'
    BY <2>1, <2>2 DEF Numbers, Placed, Underway, Comes
  <2> QED  BY <2>3, <2>4
<1> QED  BY <1>1, ThreadOrderKeeps, SubOrderKeeps DEF Next, ThreadStep

-----------------------------------------------------------------------------
(* The counters. *)

LEMMA HoldingTyped ==
  ASSUME Types, NEW e \in Entry
  PROVE  /\ LetIn(e) \subseteq Holding(e) /\ Holding(e) \subseteq Number
         /\ IsFiniteSet(Holding(e)) /\ IsFiniteSet(LetIn(e))
         /\ Cardinality(Holding(e)) \in 0 .. MaxMessages /\ Cardinality(LetIn(e)) \in Nat
<1>1. InLine(e) \subseteq Number
  BY PlacedTyped DEF InLine, MessageTask
<1>2. ASSUME NEW t \in Thread, operation[t].step \in {"refuse", "post"}
      PROVE  operation[t].message \in Number
  <2>1. operation[t] \in Operation
    BY DEF Types
  <2> QED  BY <1>2, <2>1, StepsTyped DEF InProgress
<1>3. AtStep(e, {"refuse", "post"}) \subseteq Number /\ AtStep(e, {"post"}) \subseteq AtStep(e, {"refuse", "post"})
  BY <1>2 DEF AtStep
<1>4. LetIn(e) \subseteq Holding(e) /\ Holding(e) \subseteq Number
  BY <1>1, <1>3 DEF LetIn, Holding
<1>5. IsFiniteSet(Number) /\ Cardinality(Number) = MaxMessages
  BY FS_Interval, SizeAssumption DEF Number
<1>6. IsFiniteSet(Holding(e)) /\ Cardinality(Holding(e)) <= MaxMessages
  BY <1>4, <1>5, FS_Subset
<1>7. IsFiniteSet(LetIn(e))
  BY <1>4, <1>6, FS_Subset
<1>8. Cardinality(Holding(e)) \in Nat /\ Cardinality(LetIn(e)) \in Nat
  BY <1>6, <1>7, FS_CardinalityType
<1> QED  BY <1>4, <1>6, <1>7, <1>8, SizeAssumption

\* Threads that are not at the steps of S, before or after, do not matter.
LEMMA AtStepSame ==
  ASSUME NEW e, NEW S,
         \A u \in Thread : operation[u].step \in S \/ operation'[u].step \in S
                             => operation'[u] = operation[u]
  PROVE  AtStep(e, S)' = AtStep(e, S)
<1>1. AtStep(e, S)' = {operation'[t].message : t \in {u \in Thread :
                          operation'[u].step \in S /\ operation'[u].entry = e}}
  BY DEF AtStep
<1>2. {u \in Thread : operation'[u].step \in S /\ operation'[u].entry = e}
        = {u \in Thread : operation[u].step \in S /\ operation[u].entry = e}
  OBVIOUS
<1>3. ASSUME NEW m PROVE m \in AtStep(e, S)' <=> m \in AtStep(e, S)
  BY <1>1, <1>2 DEF AtStep
<1> QED  BY <1>3

\* Thread t leaves the steps of S and takes its message along.
LEMMA AtStepLeft ==
  ASSUME Numbers, NEW e, NEW S \in SUBSET InProgress, NEW t \in Thread,
         operation[t].step \in S, operation'[t].step \notin S,
         \A u \in Thread : u # t => operation'[u] = operation[u]
  PROVE  AtStep(e, S)' = IF operation[t].entry = e THEN AtStep(e, S) \ {operation[t].message}
                         ELSE AtStep(e, S)
<1>1. ASSUME NEW m
      PROVE  m \in AtStep(e, S)' <=>
               \E u \in Thread : operation'[u].step \in S /\ operation'[u].entry = e /\ operation'[u].message = m
  BY DEF AtStep
<1>2. ASSUME NEW m
      PROVE  m \in AtStep(e, S) <=>
               \E u \in Thread : operation[u].step \in S /\ operation[u].entry = e /\ operation[u].message = m
  BY DEF AtStep
<1>3. \A u \in Thread : u # t /\ operation[u].step \in S => operation[u].message # operation[t].message
  BY DEF Numbers, Underway
<1> DEFINE R == IF operation[t].entry = e THEN AtStep(e, S) \ {operation[t].message}
                ELSE AtStep(e, S)
<1>4. ASSUME NEW m, m \in AtStep(e, S)' PROVE m \in R
  <2>1. PICK u \in Thread : operation'[u].step \in S /\ operation'[u].entry = e /\ operation'[u].message = m
    BY <1>1, <1>4
  <2>2. u # t /\ operation'[u] = operation[u]
    BY <2>1
  <2>3. m \in AtStep(e, S) /\ m # operation[t].message
    BY <1>2, <1>3, <2>1, <2>2
  <2> QED  BY <2>3
<1>5. ASSUME NEW m, m \in R PROVE m \in AtStep(e, S)'
  <2>1. PICK u \in Thread : operation[u].step \in S /\ operation[u].entry = e /\ operation[u].message = m
    BY <1>2, <1>5
  <2>2. u # t
    BY <1>5, <2>1
  <2> QED  BY <1>1, <2>1, <2>2
<1> QED  BY <1>4, <1>5

\* Thread t comes to a step of S with a message.
LEMMA AtStepReached ==
  ASSUME NEW e, NEW S, NEW t \in Thread,
         operation[t].step \notin S, operation'[t].step \in S,
         \A u \in Thread : u # t => operation'[u] = operation[u]
  PROVE  AtStep(e, S)' = IF operation'[t].entry = e THEN AtStep(e, S) \cup {operation'[t].message}
                         ELSE AtStep(e, S)
<1>1. ASSUME NEW m
      PROVE  m \in AtStep(e, S)' <=>
               \E u \in Thread : operation'[u].step \in S /\ operation'[u].entry = e /\ operation'[u].message = m
  BY DEF AtStep
<1>2. ASSUME NEW m
      PROVE  m \in AtStep(e, S) <=>
               \E u \in Thread : operation[u].step \in S /\ operation[u].entry = e /\ operation[u].message = m
  BY DEF AtStep
<1> DEFINE R == IF operation'[t].entry = e THEN AtStep(e, S) \cup {operation'[t].message}
                ELSE AtStep(e, S)
<1>3. ASSUME NEW m, m \in AtStep(e, S)' PROVE m \in R
  <2>1. PICK u \in Thread : operation'[u].step \in S /\ operation'[u].entry = e /\ operation'[u].message = m
    BY <1>1, <1>3
  <2>2. CASE u = t
    BY <2>1, <2>2
  <2>3. CASE u # t
    BY <1>2, <2>1, <2>3
  <2> QED  BY <2>2, <2>3
<1>4. ASSUME NEW m, m \in R PROVE m \in AtStep(e, S)'
  <2>1. CASE operation'[t].entry = e /\ m = operation'[t].message
    BY <1>1, <2>1
  <2>2. CASE m \in AtStep(e, S)
    <3>1. PICK u \in Thread : operation[u].step \in S /\ operation[u].entry = e /\ operation[u].message = m
      BY <1>2, <2>2
    <3>2. u # t /\ operation'[u] = operation[u]
      BY <3>1
    <3> QED  BY <1>1, <3>1, <3>2
  <2> QED  BY <1>4, <2>1, <2>2
<1> QED  BY <1>3, <1>4

\* What the line holds after a post, and after the end of a task.
LEMMA InLineChanges ==
  ASSUME NEW e, NEW k
  PROVE  /\ Queued' \cup Batched' = Queued \cup Batched => InLine(e)' = InLine(e)
         /\ Queued' \cup Batched' = Queued \cup Batched \cup {k}
              => InLine(e)' = InLine(e) \cup {n \in {k.message} : k.entry = e /\ k.counted}
         /\ Queued \cup Batched = Queued' \cup Batched' \cup {k}
              /\ (\A x \in Queued' \cup Batched' : x.message # k.message)
              => InLine(e)' = InLine(e) \ {n \in {k.message} : k.entry = e /\ k.counted}
<1>1. InLine(e)' = {x.message : x \in {y \in Queued' \cup Batched' : y.entry = e /\ y.counted}}
  BY DEF InLine
<1>2. ASSUME NEW m
      PROVE  /\ m \in InLine(e)' <=>
                  \E x \in Queued' \cup Batched' : x.entry = e /\ x.counted /\ x.message = m
             /\ m \in InLine(e) <=>
                  \E x \in Queued \cup Batched : x.entry = e /\ x.counted /\ x.message = m
  BY <1>1 DEF InLine
<1>3. ASSUME Queued' \cup Batched' = Queued \cup Batched PROVE InLine(e)' = InLine(e)
  BY <1>1, <1>3 DEF InLine
<1>4. ASSUME Queued' \cup Batched' = Queued \cup Batched \cup {k}
      PROVE  InLine(e)' = InLine(e) \cup {n \in {k.message} : k.entry = e /\ k.counted}
  <2>1. ASSUME NEW m
        PROVE  m \in InLine(e)' <=> m \in InLine(e) \/ (k.entry = e /\ k.counted /\ m = k.message)
    BY <1>2, <1>4
  <2> QED  BY <2>1
<1>5. ASSUME Queued \cup Batched = Queued' \cup Batched' \cup {k},
             \A x \in Queued' \cup Batched' : x.message # k.message
      PROVE  InLine(e)' = InLine(e) \ {n \in {k.message} : k.entry = e /\ k.counted}
  <2>1. ASSUME NEW m
        PROVE  m \in InLine(e)' <=> m \in InLine(e) /\ ~ (k.entry = e /\ k.counted /\ m = k.message)
    <3>1. ASSUME m \in InLine(e)'
          PROVE  m \in InLine(e) /\ m # k.message
      BY <1>2, <1>5, <3>1
    <3>2. ASSUME m \in InLine(e), ~ (k.entry = e /\ k.counted /\ m = k.message)
          PROVE  m \in InLine(e)'
      <4>1. PICK x \in Queued \cup Batched : x.entry = e /\ x.counted /\ x.message = m
        BY <1>2, <3>2
      <4>2. x \in Queued' \cup Batched'
        BY <1>5, <3>2, <4>1
      <4> QED  BY <1>2, <4>1, <4>2
    <3> QED  BY <3>1, <3>2
  <2> QED  BY <2>1
<1> QED  BY <1>3, <1>4, <1>5

PendingTyped == pending \in [Entry -> 0 .. MaxMessages]

LEMMA PlacesSame ==
  ASSUME Types, Places, pending' = pending,
         \A e \in Entry : Holding(e)' = Holding(e) /\ LetIn(e)' = LetIn(e)
  PROVE  Places' /\ PendingTyped'
BY DEF Places, Types, TypeOK, PendingTyped, Entry

\* A place is given back: the message leaves those that hold one.
LEMMA PlaceGivenBack ==
  ASSUME Types, Places, NEW a \in Entry, NEW m \in Holding(a),
         Uncount(a),
         \A e \in Entry : /\ Holding(e)' = IF e = a THEN Holding(e) \ {m} ELSE Holding(e)
                          /\ LetIn(e)' \subseteq LetIn(e)
  PROVE  Places' /\ PendingTyped'
<1>0. /\ pending \in [Entry -> 0 .. MaxMessages] /\ pending' = [pending EXCEPT ![a] = pending[a] - 1]
      /\ kMaxPendingPerActor \in Nat
  BY SizeAssumption DEF Types, TypeOK, Uncount
<1>1. ASSUME NEW e \in Entry PROVE Cardinality(LetIn(e)') <= kMaxPendingPerActor
  <2>1. IsFiniteSet(LetIn(e)) /\ Cardinality(LetIn(e)) \in Nat
    BY HoldingTyped
  <2>2. IsFiniteSet(LetIn(e)') /\ Cardinality(LetIn(e)') <= Cardinality(LetIn(e))
    BY <2>1, FS_Subset
  <2>3. Cardinality(LetIn(e)') \in Nat
    BY <2>2, FS_CardinalityType
  <2> QED  BY <1>0, <2>1, <2>2, <2>3 DEF Places
<1>2. ASSUME NEW e \in Entry
      PROVE  pending'[e] = Cardinality(Holding(e)') /\ pending'[e] \in 0 .. MaxMessages
  <2>1. /\ IsFiniteSet(Holding(e)) /\ Cardinality(Holding(e)) \in 0 .. MaxMessages
        /\ pending[e] = Cardinality(Holding(e))
    BY HoldingTyped DEF Places
  <2>2. CASE e = a
    <3>1. Cardinality(Holding(e) \ {m}) = Cardinality(Holding(e)) - 1 /\ IsFiniteSet(Holding(e) \ {m})
      BY <2>1, <2>2, FS_RemoveElement
    <3>2. Cardinality(Holding(e) \ {m}) \in Nat
      BY <3>1, FS_CardinalityType
    <3>3. Holding(e)' = Holding(e) \ {m} /\ pending'[e] = pending[e] - 1
      BY <1>0, <2>2
    <3>4. pending'[e] = Cardinality(Holding(e)')
      BY <2>1, <3>1, <3>3
    <3> QED  BY <2>1, <3>1, <3>2, <3>3, <3>4, SizeAssumption
  <2>3. CASE e # a
    BY <1>0, <2>1, <2>3
  <2> QED  BY <2>2, <2>3
<1>3. PendingTyped'
  BY <1>0, <1>2 DEF PendingTyped, Entry
<1> QED  BY <1>1, <1>2, <1>3 DEF Places, Entry

\* Only the thread that finds the counter within the limit is let in.
LEMMA PlaceTaken ==
  ASSUME Types, Places, NEW a \in Entry, NEW m, m \in Number, m \notin Holding(a),
         pending' = [pending EXCEPT ![a] = @ + 1],
         \A e \in Entry :
            /\ Holding(e)' = IF e = a THEN Holding(e) \cup {m} ELSE Holding(e)
            /\ LetIn(e)' = LetIn(e) \/ (e = a /\ ~ Over(a) /\ LetIn(e)' \subseteq Holding(e)')
  PROVE  Places' /\ PendingTyped'
<1>0. /\ pending \in [Entry -> 0 .. MaxMessages] /\ pending' = [pending EXCEPT ![a] = pending[a] + 1]
      /\ kMaxPendingPerActor \in Nat
  BY SizeAssumption DEF Types, TypeOK
<1>1. ASSUME NEW e \in Entry
      PROVE  /\ pending'[e] = Cardinality(Holding(e)') /\ pending'[e] \in 0 .. MaxMessages
             /\ IsFiniteSet(Holding(e)')
  <2>1. /\ IsFiniteSet(Holding(e)) /\ Cardinality(Holding(e)) \in 0 .. MaxMessages
        /\ pending[e] = Cardinality(Holding(e)) /\ Holding(e) \subseteq Number
    BY HoldingTyped DEF Places
  <2>2. CASE e = a
    <3>1. Cardinality(Holding(e) \cup {m}) = Cardinality(Holding(e)) + 1 /\ IsFiniteSet(Holding(e) \cup {m})
      BY <2>1, <2>2, FS_AddElement
    <3>2. Holding(e)' = Holding(e) \cup {m} /\ pending'[e] = pending[e] + 1
      BY <1>0, <2>2
    <3>3. IsFiniteSet(Number) /\ Cardinality(Number) = MaxMessages
      BY FS_Interval, SizeAssumption DEF Number
    <3>4. Cardinality(Holding(e) \cup {m}) <= MaxMessages
      <4>1. Holding(e) \cup {m} \in SUBSET Number
        BY <2>1
      <4>2. Cardinality(Holding(e) \cup {m}) <= Cardinality(Number)
        BY <3>3, <4>1, FS_Subset
      <4> QED  BY <3>3, <4>2
    <3>5. pending'[e] = Cardinality(Holding(e)')
      BY <2>1, <3>1, <3>2
    <3> QED  BY <2>1, <3>1, <3>2, <3>4, <3>5, SizeAssumption
  <2>3. CASE e # a
    BY <1>0, <2>1, <2>3
  <2> QED  BY <2>2, <2>3
<1>2. ASSUME NEW e \in Entry PROVE Cardinality(LetIn(e)') <= kMaxPendingPerActor
  <2>1. CASE LetIn(e)' = LetIn(e)
    BY <2>1 DEF Places
  <2>2. CASE e = a /\ ~ Over(a) /\ LetIn(e)' \subseteq Holding(e)'
    <3>1. pending'[e] = pending[a] + 1 /\ pending'[e] <= kMaxPendingPerActor
      BY <1>0, <2>2 DEF Over
    <3>2. IsFiniteSet(LetIn(e)') /\ Cardinality(LetIn(e)') <= Cardinality(Holding(e)')
      BY <1>1, <2>2, FS_Subset
    <3>3. Cardinality(LetIn(e)') \in Nat
      BY <3>2, FS_CardinalityType
    <3>4. pending'[e] = Cardinality(Holding(e)') /\ pending'[e] \in Nat
      BY <1>1, SizeAssumption
    <3> QED  BY <1>0, <3>1, <3>2, <3>3, <3>4
  <2> QED  BY <2>1, <2>2
<1>3. PendingTyped'
  BY <1>0, <1>1 DEF PendingTyped, Entry
<1> QED  BY <1>1, <1>2, <1>3 DEF Places, Entry

\* A step of thread t that neither comes to nor leaves a place.
LEMMA HoldingSame ==
  ASSUME NEW t \in Thread, \A u \in Thread : u # t => operation'[u] = operation[u],
         operation[t].step \notin {"refuse", "post"}, operation'[t].step \notin {"refuse", "post"},
         \A e \in Entry : InLine(e)' = InLine(e)
  PROVE  \A e \in Entry : Holding(e)' = Holding(e) /\ LetIn(e)' = LetIn(e)
<1> TAKE e \in Entry
<1>1. AtStep(e, {"refuse", "post"})' = AtStep(e, {"refuse", "post"}) /\ AtStep(e, {"post"})' = AtStep(e, {"post"})
  BY AtStepSame
<1> QED  BY <1>1 DEF Holding, LetIn

LEMMA ThreadPlacesKeep ==
  ASSUME Types, OneSub, LineOrder, Numbers, Places, NEW t \in Thread,
         ThreadStep(t)
  PROVE  Places' /\ PendingTyped'
<1>0. /\ operation \in [Thread -> Operation] /\ operation[t] \in Operation
      /\ \A u \in Thread : u # t => operation'[u] = operation[u]
      /\ batch' = batch /\ handled' = handled
  BY ThreadOperation, ThreadKeepsBatches DEF Types
<1>1. CASE ChangesList(t) \/ DispatchFinds(t) \/ HandleFinds(t) \/ CollectList(t)
           \/ ReportList(t)
  <2>1. queue' = queue /\ pending' = pending
    BY <1>1 DEF ChangesList, Register, RegisterAgain, Replace, Insert, Unregister, Destroyed,
                DispatchFinds, HandleFinds, CollectList, ReportList, subs
  <2>2. Queued' = Queued /\ Batched' = Batched
    BY <1>0, <2>1 DEF Queued, Batched, HashSub
  <2>3. operation[t].step \in {"idle", "replaced", "destroy", "notify", "report"}
    BY <1>1 DEF ChangesList, Register, RegisterAgain, Replace, Insert, Unregister, Destroyed,
                DispatchFinds, HandleFinds, CollectList, ReportList, At
  <2>4. operation'[t].step
          \in {"replaced", "created", "destroy", "notify", "count", "handle", "report", "idle"}
    <3>1. CASE Register(t) \/ Replace(t)
      BY <1>0, <3>1 DEF Register, Replace, Insert, Goes
    <3>2. CASE RegisterAgain(t) \/ Unregister(t)
      BY <1>0, <3>2 DEF RegisterAgain, Unregister, Goes
    <3>7. CASE Destroyed(t)
      <4>1. operation'[t] = [operation[t] EXCEPT !.step = "notify"]
        BY <1>0, <3>7 DEF Destroyed, Step
      <4>2. operation[t].step = "destroy"
        BY <3>7 DEF Destroyed, At
      <4>3. operation'[t] = [step |-> "notify", entry |-> operation[t].entry]
        BY <1>0, <4>1, <4>2, StepsTyped
      <4> QED  BY <4>3
    <3>3. CASE DispatchFinds(t)
      BY <1>0, <3>3 DEF DispatchFinds, Goes
    <3>4. CASE HandleFinds(t)
      BY <1>0, <3>4 DEF HandleFinds, Goes
    <3>5. CASE CollectList(t)
      BY <1>0, <3>5 DEF CollectList, Goes
    <3>6. CASE ReportList(t)
      BY <1>0, <3>6 DEF ReportList, Goes, Idle
    <3> QED  BY <1>1, <3>1, <3>2, <3>3, <3>4, <3>5, <3>6, <3>7 DEF ChangesList
  <2>5. \A e \in Entry : InLine(e)' = InLine(e)
    BY <2>2 DEF InLine
  <2>6. \A e \in Entry : Holding(e)' = Holding(e) /\ LetIn(e)' = LetIn(e)
    BY <1>0, <2>3, <2>4, <2>5, HoldingSame
  <2> QED  BY <2>1, <2>6, PlacesSame
<1>2. CASE PostCreated(t) \/ HandlePosts(t)
  <2>1. pending' = pending /\ operation[t].step \in {"created", "handle"}
    BY <1>2 DEF PostCreated, HandlePosts, At
  <2>2. operation'[t].step \notin {"refuse", "post"}
    <3>1. CASE PostCreated(t)
      <4>1. operation'[t] = [operation[t] EXCEPT !.step = "notify"]
        BY <1>0, <3>1 DEF PostCreated, Step
      <4>2. operation[t].step = "created"
        BY <3>1 DEF PostCreated, At
      <4>3. operation'[t] = [step |-> "notify", entry |-> operation[t].entry]
        BY <1>0, <4>1, <4>2, StepsTyped
      <4> QED  BY <4>3
    <3>2. CASE HandlePosts(t)
      <4>1. operation'[t] = Idle
        BY <1>0, <3>2 DEF HandlePosts, Goes
      <4> QED  BY <4>1 DEF Idle
    <3> QED  BY <1>2, <3>1, <3>2
  <2>3. ASSUME NEW e \in Entry PROVE InLine(e)' = InLine(e)
    <3>1. CASE PostCreated(t)
      <4> DEFINE k == [kind |-> "created", entry |-> operation[t].entry]
      <4>1. k \in Task /\ queue'[HashSub] = Append(queue[HashSub], k) /\ queue[HashSub] \in Seq(Task)
        BY <3>1, ThreadPosts, PostKeeps, HashSubIsSub DEF Types
      <4>2. {x \in {k} : x.kind = "message"} = {}
        OBVIOUS
      <4>3. MessagesOf(Append(queue[HashSub], k))
              = MessagesOf(queue[HashSub]) \cup {x \in {k} : x.kind = "message"}
        <5> HIDE DEF k
        <5> QED  BY <4>1, AppendTask
      <4>4. Queued' = Queued /\ Batched' = Batched
        BY <1>0, <4>1, <4>2, <4>3 DEF Queued, Batched, HashSub
      <4> QED  BY <4>4 DEF InLine
    <3>2. CASE HandlePosts(t)
      <4> DEFINE k == Message(t, FALSE)
      <4>1. Queued' \cup Batched' = Queued \cup Batched \cup {k}
        <5>1. PostTask(HashSub, k) /\ Underway(t)
          BY <3>2, ThreadPosts DEF HandlePosts, At, Underway, InProgress
        <5> QED  BY <1>0, <5>1, PostOrders
      <4>2. k.counted = FALSE
        BY DEF Message
      <4> HIDE DEF k
      <4>3. InLine(e)' = InLine(e) \cup {n \in {k.message} : k.entry = e /\ k.counted}
        BY <4>1, InLineChanges
      <4> QED  BY <4>2, <4>3
    <3> QED  BY <1>2, <3>1, <3>2
  <2>4. \A e \in Entry : Holding(e)' = Holding(e) /\ LetIn(e)' = LetIn(e)
    BY <1>0, <2>1, <2>2, <2>3, HoldingSame
  <2> QED  BY <2>1, <2>4, PlacesSame
<1>3. CASE Count(t)
  <2> DEFINE a == operation[t].entry
             m == operation[t].message
             s == IF Over(a) THEN "refuse" ELSE "post"
  <2>1. operation[t].step = "count" /\ queue' = queue /\ pending' = [pending EXCEPT ![a] = @ + 1]
    BY <1>3 DEF Count, At, subs
  <2>2. a \in Entry /\ m \in Number
    BY <1>0, <2>1, StepsTyped DEF InProgress
  <2>3. operation'[t] = [step |-> s, entry |-> a, message |-> m]
    <3>1. operation'[t] = [operation[t] EXCEPT !.step = s]
      BY <1>0, <1>3 DEF Count, Step
    <3>2. s \in {"refuse", "post"}
      OBVIOUS
    <3> HIDE DEF s
    <3> QED  BY <1>0, <2>1, <3>1, <3>2, StepsTyped
  <2>4. operation'[t].step = s /\ operation'[t].entry = a /\ operation'[t].message = m
    BY <2>3
  <2>5. \A e \in Entry : InLine(e)' = InLine(e)
    <3>1. Queued' = Queued /\ Batched' = Batched
      BY <1>0, <2>1 DEF Queued, Batched, HashSub
    <3> QED  BY <3>1 DEF InLine
  <2>6. ASSUME NEW e \in Entry
        PROVE  Holding(e)' = IF e = a THEN Holding(e) \cup {m} ELSE Holding(e)
    <3>1. AtStep(e, {"refuse", "post"})' = IF a = e THEN AtStep(e, {"refuse", "post"}) \cup {m}
                                           ELSE AtStep(e, {"refuse", "post"})
      BY <1>0, <2>1, <2>4, AtStepReached
    <3> QED  BY <2>5, <3>1 DEF Holding
  <2>7. ASSUME NEW e \in Entry
        PROVE  LetIn(e)' = LetIn(e) \/ (e = a /\ ~ Over(a) /\ LetIn(e)' \subseteq Holding(e)')
    <3>1. CASE e = a /\ ~ Over(a)
      <4>1. LetIn(e)' \subseteq Holding(e)'
        <5>1. AtStep(e, {"post"})' \subseteq AtStep(e, {"refuse", "post"})'
          BY DEF AtStep
        <5> QED  BY <5>1 DEF LetIn, Holding
      <4> QED  BY <3>1, <4>1
    <3>2. CASE Over(a)
      <4>1. \A u \in Thread : operation[u].step \in {"post"} \/ operation'[u].step \in {"post"}
                                => operation'[u] = operation[u]
        BY <1>0, <2>1, <2>4, <3>2
      <4>2. AtStep(e, {"post"})' = AtStep(e, {"post"})
        BY <4>1, AtStepSame
      <4> QED  BY <2>5, <4>2 DEF LetIn
    <3>3. CASE e # a
      <4>1. CASE s = "post"
        <5>1. AtStep(e, {"post"})' = AtStep(e, {"post"})
          BY <1>0, <2>1, <2>4, <3>3, <4>1, AtStepReached
        <5> QED  BY <2>5, <5>1 DEF LetIn
      <4> QED  BY <3>2, <4>1
    <3> QED  BY <3>1, <3>2, <3>3
  <2>8. m \notin Holding(a)
    <3>1. Underway(t)
      BY <2>1 DEF Underway, InProgress
    <3>2. m \notin InLine(a)
      BY <3>1 DEF InLine, Numbers, Comes, Placed
    <3>3. ASSUME NEW u \in Thread, operation[u].step \in {"refuse", "post"}
          PROVE  operation[u].message # m
      <4>1. u # t /\ Underway(u)
        BY <2>1, <3>3 DEF Underway, InProgress
      <4> QED  BY <3>1, <4>1 DEF Numbers
    <3>4. m \notin AtStep(a, {"refuse", "post"})
      BY <3>3 DEF AtStep
    <3> QED  BY <3>2, <3>4 DEF Holding
  <2> HIDE DEF a, m, s
  <2> QED  BY <2>1, <2>2, <2>6, <2>7, <2>8, PlaceTaken
<1>4. CASE Refuse(t)
  <2> DEFINE a == operation[t].entry
             m == operation[t].message
  <2>1. operation[t].step = "refuse" /\ queue' = queue /\ Uncount(a)
    BY <1>4 DEF Refuse, At, subs
  <2>2. operation'[t].step = "idle"
    <3>1. operation'[t] = Idle
      BY <1>0, <1>4 DEF Refuse, Goes
    <3> QED  BY <3>1 DEF Idle
  <2>3. a \in Entry /\ m \in Number
    BY <1>0, <2>1, StepsTyped DEF InProgress
  <2>4. \A e \in Entry : InLine(e)' = InLine(e)
    <3>1. Queued' = Queued /\ Batched' = Batched
      BY <1>0, <2>1 DEF Queued, Batched, HashSub
    <3> QED  BY <3>1 DEF InLine
  <2>5. \A e \in Entry : m \notin InLine(e)
    <3>1. Underway(t)
      BY <2>1 DEF Underway, InProgress
    <3> QED  BY <3>1 DEF InLine, Numbers, Comes, Placed
  <2>6. ASSUME NEW e \in Entry
        PROVE  /\ Holding(e)' = IF e = a THEN Holding(e) \ {m} ELSE Holding(e)
               /\ LetIn(e)' \subseteq LetIn(e)
    <3>1. AtStep(e, {"refuse", "post"})' = IF a = e THEN AtStep(e, {"refuse", "post"}) \ {m}
                                           ELSE AtStep(e, {"refuse", "post"})
      <4>1. {"refuse", "post"} \in SUBSET InProgress
        BY DEF InProgress
      <4> QED  BY <1>0, <2>1, <2>2, <4>1, AtStepLeft
    <3>2. AtStep(e, {"post"})' = AtStep(e, {"post"})
      <4>1. \A u \in Thread : operation[u].step \in {"post"} \/ operation'[u].step \in {"post"}
                                => operation'[u] = operation[u]
        BY <1>0, <2>1, <2>2
      <4> QED  BY <4>1, AtStepSame
    <3> QED  BY <2>4, <2>5, <3>1, <3>2 DEF Holding, LetIn
  <2>7. m \in Holding(a)
    BY <2>1 DEF Holding, AtStep
  <2> HIDE DEF a, m
  <2> QED  BY <2>1, <2>3, <2>6, <2>7, PlaceGivenBack
<1>5. CASE PostMessage(t)
  <2> DEFINE a == operation[t].entry
             m == operation[t].message
             k == Message(t, TRUE)
  <2>1. operation[t].step = "post" /\ pending' = pending /\ PostTask(HashSub, k)
    BY <1>5, ThreadPosts DEF PostMessage, At
  <2>2. operation'[t].step = "idle"
    <3>1. operation'[t] = Idle
      BY <1>0, <1>5 DEF PostMessage, Goes
    <3> QED  BY <3>1 DEF Idle
  <2>3. Queued' \cup Batched' = Queued \cup Batched \cup {k}
    <3>1. Underway(t)
      BY <2>1 DEF Underway, InProgress
    <3> QED  BY <1>0, <2>1, <3>1, PostOrders
  <2>4. k.entry = a /\ k.counted = TRUE /\ k.message = m
    BY DEF Message
  <2>5. ASSUME NEW e \in Entry
        PROVE  InLine(e)' = IF e = a THEN InLine(e) \cup {m} ELSE InLine(e)
    <3> HIDE DEF a, m, k
    <3>1. InLine(e)' = InLine(e) \cup {n \in {k.message} : k.entry = e /\ k.counted}
      BY <2>3, InLineChanges
    <3> QED  BY <2>4, <3>1
  <2>6. ASSUME NEW e \in Entry, NEW S \in SUBSET {"refuse", "post"}, "post" \in S
        PROVE  /\ AtStep(e, S)' = IF a = e THEN AtStep(e, S) \ {m} ELSE AtStep(e, S)
               /\ a = e => m \in AtStep(e, S)
    <3>1. S \in SUBSET InProgress /\ operation[t].step \in S /\ operation'[t].step \notin S
      BY <2>1, <2>2, <2>6 DEF InProgress
    <3>2. AtStep(e, S)' = IF a = e THEN AtStep(e, S) \ {m} ELSE AtStep(e, S)
      BY <1>0, <3>1, AtStepLeft
    <3> QED  BY <3>1, <3>2 DEF AtStep
  <2>7. ASSUME NEW e \in Entry PROVE Holding(e)' = Holding(e) /\ LetIn(e)' = LetIn(e)
    <3>1. /\ AtStep(e, {"refuse", "post"})' = IF a = e THEN AtStep(e, {"refuse", "post"}) \ {m}
                                              ELSE AtStep(e, {"refuse", "post"})
          /\ a = e => m \in AtStep(e, {"refuse", "post"})
      BY <2>6
    <3>2. /\ AtStep(e, {"post"})' = IF a = e THEN AtStep(e, {"post"}) \ {m} ELSE AtStep(e, {"post"})
          /\ a = e => m \in AtStep(e, {"post"})
      BY <2>6
    <3> HIDE DEF a, m, k
    <3> QED  BY <2>5, <3>1, <3>2 DEF Holding, LetIn
  <2> QED  BY <2>1, <2>7, PlacesSame
<1> QED  BY <1>1, <1>2, <1>3, <1>4, <1>5 DEF ThreadStep, ChangesList, Continues

LEMMA SubPlacesKeep ==
  ASSUME Types, OneSub, LineOrder, Numbers, Places, NEW s \in Sub, SubSteps(s)
  PROVE  Places' /\ PendingTyped'
<1>0. operation' = operation
  BY SubKeeps
<1>1. \A e, S : AtStep(e, S)' = AtStep(e, S)
  BY <1>0 DEF AtStep
<1>2. ASSUME pending' = pending, \A e \in Entry : InLine(e)' = InLine(e) PROVE Places' /\ PendingTyped'
  <2>1. \A e \in Entry : Holding(e)' = Holding(e) /\ LetIn(e)' = LetIn(e)
    BY <1>1, <1>2 DEF Holding, LetIn
  <2> QED  BY <1>2, <2>1, PlacesSame
<1>3. CASE Swap(s) \/ BeginTask(s)
  <2>1. Queued' \cup Batched' = Queued \cup Batched
    <3>1. CASE Swap(s)
      <4>1. s = HashSub
        BY <3>1 DEF Swap, OneSub
      <4>2. batch[HashSub] = << >> /\ batch'[HashSub] = queue[HashSub] /\ queue'[HashSub] = << >>
        BY <3>1, <4>1, HashSubIsSub DEF Swap, Taken, Types
      <4> QED  BY <4>2, EmptyLine DEF Batched, Queued, HashSub
    <3>2. CASE BeginTask(s)
      BY <3>2 DEF BeginTask, Queued, Batched, HashSub
    <3> QED  BY <1>3, <3>1, <3>2
  <2>2. \A e \in Entry : InLine(e)' = InLine(e)
    BY <2>1, InLineChanges
  <2>3. pending' = pending
    BY <1>3 DEF Swap, BeginTask
  <2> QED  BY <1>2, <2>2, <2>3
<1>4. CASE EndTask(s)
  <2> DEFINE task == Head(batch[s])
  <2>1. /\ batch[s] # << >> /\ task \in Task
        /\ Queued' = Queued /\ Batched = Batched' \cup {x \in {task} : x.kind = "message"}
        /\ task.kind = "message" => \A x \in Batched' : Before(task, x)
    BY <1>4, EndMoves
  <2>2. CASE task.kind # "message"
    <3>1. pending' = pending
      BY <1>4, <2>2 DEF EndTask
    <3>2. {x \in {task} : x.kind = "message"} = {}
      BY <2>2
    <3>3. Queued' \cup Batched' = Queued \cup Batched
      BY <2>1, <3>2
    <3> QED  BY <1>2, <3>1, <3>3, InLineChanges
  <2>3. CASE task.kind = "message"
    <3>1. task \in MessageTask /\ task.entry \in Entry /\ task.counted \in BOOLEAN
      BY <2>1, <2>3, BatchOf DEF MessageTask
    <3>2. Batched = Batched' \cup {task} /\ task \in Batched
      BY <2>1, <2>3
    <3>3. \A x \in Queued' \cup Batched' : x.message # task.message
      BY <2>1, <2>3, <3>2 DEF LineOrder, Before
    <3>4. ASSUME NEW e \in Entry
          PROVE  InLine(e)' = InLine(e) \ {n \in {task.message} : task.entry = e /\ task.counted}
      <4> HIDE DEF task
      <4> QED  BY <2>1, <3>2, <3>3, InLineChanges
    <3>5. CASE task.counted = TRUE
      <4>1. Uncount(task.entry)
        BY <1>4, <2>3, <3>5 DEF EndTask
      <4>2. task.message \in Holding(task.entry)
        BY <3>2, <3>5 DEF Holding, InLine
      <4>3. ASSUME NEW e \in Entry
            PROVE  /\ Holding(e)' = IF e = task.entry THEN Holding(e) \ {task.message} ELSE Holding(e)
                   /\ LetIn(e)' \subseteq LetIn(e)
        <5>1. \A t \in Thread : operation[t].step \in {"refuse", "post"}
                => operation[t].message # task.message
          <6>1. task \in Placed
            BY <3>2 DEF Placed
          <6> QED  BY <6>1 DEF Numbers, Underway, InProgress, Comes
        <5>2. task.message \notin AtStep(e, {"refuse", "post"})
          BY <5>1 DEF AtStep
        <5>3. InLine(e)' = IF e = task.entry THEN InLine(e) \ {task.message} ELSE InLine(e)
          <6> HIDE DEF task
          <6> QED  BY <3>4, <3>5
        <5> HIDE DEF task
        <5> QED  BY <1>1, <5>2, <5>3 DEF Holding, LetIn
      <4> HIDE DEF task
      <4> QED  BY <3>1, <4>1, <4>2, <4>3, PlaceGivenBack
    <3>6. CASE task.counted = FALSE
      <4>1. pending' = pending
        BY <1>4, <2>3, <3>6 DEF EndTask
      <4>2. \A e \in Entry : InLine(e)' = InLine(e)
        <5> HIDE DEF task
        <5> QED  BY <3>4, <3>6
      <4> QED  BY <1>2, <4>1, <4>2
    <3> QED  BY <3>1, <3>5, <3>6
  <2> QED  BY <2>2, <2>3
<1> QED  BY <1>3, <1>4 DEF SubSteps

LEMMA PlacesKeep ==
  ASSUME Types, OneSub, LineOrder, Numbers, Places, [Next]_vars PROVE Places' /\ PendingTyped'
<1>1. ASSUME Shutdown \/ UNCHANGED vars PROVE Places' /\ PendingTyped'
  <2>1. queue' = queue /\ batch' = batch /\ operation' = operation /\ pending' = pending
    BY <1>1 DEF Shutdown, vars, subs
  <2>2. \A e \in Entry : InLine(e)' = InLine(e)
    BY <2>1 DEF InLine, Queued, Batched, HashSub
  <2>3. \A e, S : AtStep(e, S)' = AtStep(e, S)
    BY <2>1 DEF AtStep
  <2>4. \A e \in Entry : Holding(e)' = Holding(e) /\ LetIn(e)' = LetIn(e)
    BY <2>2, <2>3 DEF Holding, LetIn
  <2> QED  BY <2>1, <2>4, PlacesSame
<1> QED  BY <1>1, ThreadPlacesKeep, SubPlacesKeep DEF Next, ThreadStep

-----------------------------------------------------------------------------
(* The endpoint cache. *)

\* A change of the list that begins while no other is under way.
LEMMA ChangeBegins ==
  ASSUME Types, ReportSound, NEW t \in Thread, Register(t) \/ Replace(t) \/ Unregister(t)
  PROVE  ReportSound'
<1> SUFFICES ASSUME ~ overlapped' PROVE ReportSound'
  BY DEF ReportSound
<1>1. overlapped' = (overlapped \/ \E u \in Thread : ChangingList(u))
  BY DEF Register, Replace, Insert, Unregister, NoteOverlap
<1>2. \A u \in Thread : ~ ChangingList(u)
  BY <1>1
<1>3. \A u \in Thread : u # t => operation'[u] = operation[u]
  BY ThreadOperation DEF ThreadStep, Continues
<1>4. operation'[t].step \in {"created", "destroy"}
  BY DEF Register, Replace, Insert, Unregister, Goes, Types
<1>5. \A u \in Thread : operation'[u].step \in {"destroy", "created", "notify", "report"} => u = t
  BY <1>2, <1>3 DEF ChangingList
<1>6. \A u \in Thread : operation'[u].step # "report"
  BY <1>4, <1>5
<1> QED  BY <1>4, <1>5, <1>6 DEF ReportSound, ChangingList

\* The steps of a change, made by the only thread that changes the list.
LEMMA ChangeGoesOn ==
  ASSUME Types, ReportSound, NEW t \in Thread,
         PostCreated(t) \/ Destroyed(t) \/ CollectList(t) \/ ReportList(t)
  PROVE  ReportSound'
<1>0. overlapped' = overlapped /\ current' = current /\ operation \in [Thread -> Operation]
  BY DEF PostCreated, Destroyed, CollectList, ReportList, list, Types
<1> SUFFICES ASSUME ~ overlapped PROVE ReportSound'
  BY <1>0 DEF ReportSound
<1>1. ChangingList(t)
  BY DEF PostCreated, Destroyed, CollectList, ReportList, At, ChangingList
<1>2. \A u \in Thread : u # t => ~ ChangingList(u)
  BY <1>1 DEF ReportSound
<1>3. \A u \in Thread : u # t => operation'[u] = operation[u]
  BY ThreadOperation DEF ThreadStep, Continues
<1>4. \A u \in Thread : operation'[u].step \in {"destroy", "created", "notify", "report"} => u = t
  BY <1>2, <1>3 DEF ChangingList
<1>5. CASE PostCreated(t) \/ Destroyed(t)
  <2>1. operation'[t] = [operation[t] EXCEPT !.step = "notify"]
    BY <1>0, <1>5 DEF PostCreated, Destroyed, Step
  <2>2. operation[t].step \in {"created", "destroy"}
    BY <1>5 DEF PostCreated, Destroyed, At
  <2>3. operation'[t] = [step |-> "notify", entry |-> operation[t].entry]
    BY <1>0, <2>1, <2>2, StepsTyped
  <2>4. operation'[t].step = "notify"
    BY <2>3
  <2> QED  BY <1>4, <2>4 DEF ReportSound, ChangingList
<1>6. CASE CollectList(t)
  <2>1. operation'[t] = [step |-> "report", listed |-> current # 0]
    BY <1>0, <1>6 DEF CollectList, Goes
  <2>2. operation'[t].step = "report" /\ operation'[t].listed = (current # 0)
    BY <2>1
  <2> QED  BY <1>0, <1>4, <2>2 DEF ReportSound, ChangingList
<1>7. CASE ReportList(t)
  <2>1. operation[t].step = "report" /\ reported' = operation[t].listed
    BY <1>7 DEF ReportList, At, Report
  <2>2. reported' = (current # 0)
    BY <2>1 DEF ReportSound
  <2>3. operation'[t].step = "idle"
    <3>1. operation'[t] = Idle
      BY <1>0, <1>7 DEF ReportList, Goes
    <3> QED  BY <3>1 DEF Idle
  <2>4. \A u \in Thread : operation'[u].step \notin {"destroy", "created", "notify", "report"}
    BY <1>4, <2>3
  <2> QED  BY <1>0, <2>2, <2>4 DEF ReportSound, ChangingList
<1> QED  BY <1>5, <1>6, <1>7

\* A dispatch does not touch the list, nor does a registration that waits for OnDestroyed.
LEMMA DispatchApart ==
  ASSUME Types, ReportSound, NEW t \in Thread,
         \/ RegisterAgain(t) \/ DispatchFinds(t) \/ HandleFinds(t) \/ Count(t) \/ Refuse(t)
         \/ PostMessage(t) \/ HandlePosts(t)
  PROVE  ReportSound'
<1>0. UNCHANGED <<overlapped, current, reported>> /\ operation \in [Thread -> Operation]
  BY DEF RegisterAgain, DispatchFinds, HandleFinds, Count, Refuse, PostMessage, HandlePosts, list, Types
<1>1. operation[t].step \in {"idle", "replaced"} \cup InProgress
  BY DEF RegisterAgain, DispatchFinds, HandleFinds, Count, Refuse, PostMessage, HandlePosts, At, InProgress
<1>2. operation'[t].step \in {"idle", "replaced"} \cup InProgress
  <2>1. CASE DispatchFinds(t) \/ HandleFinds(t)
    BY <1>0, <2>1 DEF DispatchFinds, HandleFinds, Goes, InProgress
  <2>2. CASE Refuse(t) \/ PostMessage(t) \/ HandlePosts(t)
    <3>1. operation'[t] = Idle
      BY <1>0, <2>2 DEF Refuse, PostMessage, HandlePosts, Goes
    <3> QED  BY <3>1 DEF Idle
  <2>3. CASE Count(t)
    <3>1. operation'[t].step \in InProgress
      <4>1. posted' = posted /\ operation[t].step = "count"
        BY <2>3 DEF Count, At
      <4>2. operation'[t] = [operation[t] EXCEPT !.step = IF Over(operation[t].entry) THEN "refuse" ELSE "post"]
        BY <1>0, <2>3 DEF Count, Step
      <4>3. operation[t] \in [step : InProgress, entry : Entry, message : Number]
        <5>1. operation[t] \in Operation
          BY <1>0
        <5> QED  BY <4>1, <5>1 DEF Operation, InProgress
      <4>4. operation'[t].step = IF Over(operation[t].entry) THEN "refuse" ELSE "post"
        BY <4>2, <4>3
      <4> QED  BY <4>4 DEF InProgress
    <3> QED  BY <3>1
  <2>4. CASE RegisterAgain(t)
    BY <1>0, <2>4 DEF RegisterAgain, Goes
  <2> QED  BY <2>1, <2>2, <2>3, <2>4
<1>3. \A u \in Thread : u # t => operation'[u] = operation[u]
  BY ThreadOperation DEF ThreadStep, ChangesList, Continues
<1>4. \A u \in Thread : operation'[u].step \in {"destroy", "created", "notify", "report"} <=> ChangingList(u)
  BY <1>1, <1>2, <1>3 DEF ChangingList, InProgress
<1>5. \A u \in Thread : ChangingList(u) => operation'[u] = operation[u]
  BY <1>1, <1>3 DEF ChangingList, InProgress
<1>6. \A u \in Thread : ChangingList(u)' <=> ChangingList(u)
  BY <1>4 DEF ChangingList
<1>7. \A u \in Thread : operation'[u].step = "report" =>
         operation[u].step = "report" /\ operation'[u].listed = operation[u].listed
  BY <1>4, <1>5
<1> QED  BY <1>0, <1>6, <1>7 DEF ReportSound

LEMMA ReportKeeps ==
  ASSUME Types, ReportSound, [Next]_vars PROVE ReportSound'
<1>1. ASSUME UNCHANGED <<overlapped, current, reported, operation>> PROVE ReportSound'
  BY <1>1 DEF ReportSound, ChangingList
<1>2. ASSUME NEW s \in Sub, SubSteps(s) PROVE ReportSound'
  BY <1>1, <1>2, SubKeeps DEF list
<1>3. ASSUME Shutdown \/ UNCHANGED vars PROVE ReportSound'
  BY <1>1, <1>3 DEF Shutdown, vars, list
<1>4. ASSUME NEW t \in Thread,
             ThreadStep(t)
      PROVE  ReportSound'
  BY <1>4, ChangeBegins, ChangeGoesOn, DispatchApart DEF ThreadStep, ChangesList, Continues
<1> QED  BY <1>2, <1>3, <1>4 DEF Next, ThreadStep

-----------------------------------------------------------------------------
LEMMA InvInit == Init => Inv
<1> SUFFICES ASSUME Init PROVE Inv
  OBVIOUS
<1>1. Types
  BY TypesInit
<1>2. /\ \A s \in Sub : queue[s] = << >> /\ batch[s] = << >>
      /\ \A e \in Entry : handled[e] = << >>
      /\ \A t \in Thread : operation[t].step = "idle"
  BY DEF Init, Idle
<1>3. Queued = {} /\ Batched = {} /\ Given = {}
  BY <1>2, EmptyLine, HashSubIsSub DEF Queued, Batched, Given
<1>4. OneSub /\ LineOrder
  BY <1>2, <1>3, EmptyLine, HashSubIsSub DEF OneSub, LineOrder
<1>5. Numbers
  BY <1>2, <1>3 DEF Numbers, Placed, Underway, InProgress
<1>6. Places
  <2>1. \A e \in Entry : Holding(e) = {} /\ LetIn(e) = {}
    BY <1>2, <1>3 DEF Holding, LetIn, InLine, AtStep
  <2>2. \A e \in Entry : pending[e] = 0
    BY DEF Init
  <2> QED  BY <2>1, <2>2, FS_EmptySet, SizeAssumption DEF Places
<1>7. ReportSound
  <2>1. reported = FALSE /\ current = 0
    BY DEF Init
  <2> QED  BY <1>2, <2>1 DEF ReportSound, ChangingList
<1> QED  BY <1>1, <1>4, <1>5, <1>6, <1>7 DEF Inv

LEMMA InvStep == Inv /\ [Next]_vars => Inv'
<1> SUFFICES ASSUME Inv, [Next]_vars PROVE Inv'
  OBVIOUS
<1>1. Places' /\ PendingTyped'
  BY PlacesKeep DEF Inv
<1>2. Types'
  BY <1>1, RestKeeps DEF Inv, PendingTyped, Entry
<1>3. OneSub' /\ LineOrder' /\ Numbers' /\ ReportSound'
  BY OneSubKeeps, OrderKeeps, ReportKeeps DEF Inv
<1> QED  BY <1>1, <1>2, <1>3 DEF Inv

\* Whatever the threads and the Subs do, in any order, the mailbox stays sound.
THEOREM Inductive == Spec => []Inv
<1> QED  BY InvInit, InvStep, PTL DEF Spec

\* Every state is well typed.
THEOREM TypeCorrect == Spec => []TypeOK
<1>1. Inv => TypeOK
  BY DEF Inv, Types
<1> QED  BY <1>1, Inductive, PTL

\* The sets the counter is compared with are the numbers of the messages that hold a place.
LEMMA PlacesCounted == Inv => CounterExact
<1> SUFFICES ASSUME Inv, NEW e \in Entry
             PROVE  /\ pending[e] = Cardinality(Waiting(e) \cup Dispatching(e))
                    /\ Cardinality(Waiting(e)) <= kMaxPendingPerActor
  BY DEF CounterExact
<1>0. Types /\ OneSub /\ Numbers /\ Places
  BY DEF Inv
<1>1. Waiting(e) = InLine(e)
  <2>1. ASSUME NEW s \in Sub, s # HashSub PROVE ToSet(queue[s]) \cup ToSet(batch[s]) = {}
    BY <1>0, <2>1 DEF OneSub, ToSet
  <2>2. {k \in ToSet(queue[HashSub]) \cup ToSet(batch[HashSub]) : k.kind = "message"} = Queued \cup Batched
    BY DEF ToSet, Queued, Batched, MessagesOf
  <2>3. \A k \in Queued \cup Batched : k.message \in 1 .. posted
    <3>1. \A k \in Queued \cup Batched : k.message \in Number /\ k.message <= posted
      BY <1>0, PlacedTyped DEF MessageTask, Numbers, Placed
    <3>2. posted \in Nat
      BY <1>0, SizeAssumption DEF Types, TypeOK
    <3> QED  BY <3>1, <3>2, SizeAssumption DEF Number
  <2>4. ASSUME NEW m PROVE m \in Waiting(e) <=> m \in InLine(e)
    <3>1. m \in Waiting(e) <=> m \in 1 .. posted /\ \E k \in Queued \cup Batched :
                                  k.entry = e /\ k.counted /\ k.message = m
      BY <2>1, <2>2, HashSubIsSub DEF Waiting
    <3>2. m \in InLine(e) <=> \E k \in Queued \cup Batched : k.entry = e /\ k.counted /\ k.message = m
      BY DEF InLine
    <3> QED  BY <2>3, <3>1, <3>2
  <2> QED  BY <2>4
<1>2. Dispatching(e) = AtStep(e, {"refuse", "post"})
  <2>1. ASSUME NEW t \in Thread, operation[t].step \in {"refuse", "post"}
        PROVE  operation[t].message \in 1 .. posted
    <3>1. operation[t] \in Operation
      BY <1>0 DEF Types
    <3>2. operation[t].message \in Number /\ operation[t].message <= posted
      BY <1>0, <2>1, <3>1, StepsTyped DEF InProgress, Numbers, Underway
    <3>3. posted \in Nat
      BY <1>0, SizeAssumption DEF Types, TypeOK
    <3> QED  BY <3>2, <3>3, SizeAssumption DEF Number
  <2>2. ASSUME NEW m PROVE m \in Dispatching(e) <=> m \in AtStep(e, {"refuse", "post"})
    BY <2>1 DEF Dispatching, AtStep
  <2> QED  BY <2>2
<1>3. pending[e] = Cardinality(Waiting(e) \cup Dispatching(e))
  BY <1>0, <1>1, <1>2 DEF Places, Holding
<1>4. Cardinality(Waiting(e)) <= kMaxPendingPerActor
  <2>1. IsFiniteSet(LetIn(e)) /\ Cardinality(LetIn(e)) \in Nat /\ Cardinality(LetIn(e)) <= kMaxPendingPerActor
    BY <1>0, HoldingTyped DEF Places
  <2>2. Waiting(e) \in SUBSET LetIn(e)
    BY <1>1 DEF LetIn
  <2>3. Cardinality(Waiting(e)) <= Cardinality(LetIn(e)) /\ IsFiniteSet(Waiting(e))
    BY <2>1, <2>2, FS_Subset
  <2>4. Cardinality(Waiting(e)) \in Nat
    BY <2>3, FS_CardinalityType
  <2> QED  BY <2>1, <2>3, <2>4, SizeAssumption
<1> QED  BY <1>3, <1>4

\* DispatchLocal and the tasks it posts count exactly, and the limit is kept however
\* many threads post at it.
THEOREM CounterIsExact == Spec => []CounterExact
BY Inductive, PlacesCounted, PTL

\* Two Subs are never inside OnCreated or OnMessage of one entry.  (OnDestroyed is not
\* posted: it runs on the thread that registers or unregisters, and may run beside them.)
THEOREM MethodsRunOnOneThread == Spec => []OneThread
<1>1. Inv => OneThread
  BY DEF Inv, Types, TypeOK, OneSub, OneThread, Inside
<1> QED  BY <1>1, Inductive, PTL

\* What an entry is given of one thread it is given once and in order, by dispatch
\* and by handle alike.
THEOREM SendersKeepTheirOrder == Spec => []PerSenderFifo
<1>1. Inv => PerSenderFifo
  <2> SUFFICES ASSUME Inv, NEW e \in Entry, NEW i \in DOMAIN handled[e], NEW j \in DOMAIN handled[e],
                      i < j, handled[e][i].from = handled[e][j].from
               PROVE  handled[e][i].message < handled[e][j].message
    BY DEF PerSenderFifo
  <2>1. handled[e] \in Seq(MessageTask) /\ Ordered(handled[e])
    BY DEF Inv, Types, LineOrder
  <2>2. handled[e][i] \in MessageTask /\ handled[e][j] \in MessageTask
    BY <2>1
  <2> QED  BY <2>1, <2>2 DEF Ordered, MessageTask, Before
<1> QED  BY <1>1, Inductive, PTL

\* The endpoint cache names the actor wrongly only after two changes overlapped.
THEOREM StaleListsNeedAnOverlap == Spec => []StaleNeedsOverlap
<1>1. Inv => StaleNeedsOverlap
  BY DEF Inv, ReportSound, StaleNeedsOverlap
<1> QED  BY <1>1, Inductive, PTL
=============================================================================
