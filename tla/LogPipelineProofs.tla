------------------------- MODULE LogPipelineProofs --------------------------
(***************************************************************************)
(* The asynchronous log, for any number of producers, sinks and records    *)
(* and any sizes of the ring, the batches and the inboxes: positions of    *)
(* the ring are claimed, published and taken in order, calls that take     *)
(* turns find a queue, every sink is handed what was taken for it, in      *)
(* order, and Shutdown closes none before it has written that.             *)
(***************************************************************************)
EXTENDS LogPipeline, FiniteSetTheorems, SequenceTheorems, TLAPS

Logging ==
    [step : {"check", "claim", "write", "copy", "publish"}, record : Record,
     cur : Nat, tail : Nat, mixed : BOOLEAN]

Types ==
    /\ TypeOK
    /\ enqueuePos \in Nat /\ publishedHead \in Nat /\ dequeuePos \in Nat
    /\ claims \in Seq(Record) /\ taken \in Seq(Content)
    /\ producer \in [Producer -> [step : {"idle"}] \cup Logging]
    /\ overlapped \in BOOLEAN /\ dispatching \in BOOLEAN
    /\ dispatcher \in [step : {"poll", "copy", "deliver", "exited"}, batch : Seq(Content),
                       count : Nat, sink : Sink]
    /\ writing \in [Sink -> BOOLEAN]
    /\ writer \in [Sink -> [step : {"loop", "write", "exited", "joined"}, batch : Seq(Content)]]
    /\ inbox \in [Sink -> Seq(Seq(Content))]
    /\ written \in [Sink -> Seq(Content)]

-----------------------------------------------------------------------------
(* The ring. *)

\* The thread has claimed a position and not published it.
Claimed(p) == producer[p].step \in {"write", "copy", "publish"}

\* A position that is claimed is published, or a thread is about to publish it.
RingSound ==
    /\ \A p \in Producer : Claimed(p) => producer[p].cur < enqueuePos
    /\ \A pos \in Nat : publishedHead <= pos /\ pos < enqueuePos
         => \E p \in Producer : Claimed(p) /\ producer[p].cur = pos
    /\ \A p \in Producer : Inside(p) => producer[p].tail <= dequeuePos

\* What the dispatcher copies has been published.
BatchSound ==
    /\ dispatcher.step \in {"poll", "exited"} => dispatcher.batch = << >>
    /\ dispatcher.step # "deliver" => dispatcher.sink = 1
    /\ dispatcher.step = "copy" =>
         /\ Len(dispatcher.batch) < dispatcher.count
         /\ dequeuePos + dispatcher.count <= publishedHead
    /\ Len(taken) = dequeuePos + (IF dispatcher.step = "copy" THEN Len(dispatcher.batch) ELSE 0)

\* While calls take turns: the one that is inside has claimed the next position, in
\* a slot that the dispatcher is done with, and writes it alone; what is published
\* and not yet taken is what was claimed.
TurnsSound ==
    ~ overlapped =>
        /\ \A p, q \in Producer : Inside(p) /\ Inside(q) => p = q
        /\ \A p \in Producer : Inside(p) /\ ~ Claimed(p) => producer[p].cur = enqueuePos
        /\ \A p \in Producer : producer[p].step = "claim" => publishedHead - dequeuePos < Capacity
        /\ \A p \in Producer : Claimed(p) =>
             /\ producer[p].cur = publishedHead /\ enqueuePos = publishedHead + 1
             /\ producer[p].record = claims[enqueuePos]
             /\ publishedHead - dequeuePos < Capacity
        /\ \A p \in Producer : producer[p].step = "copy" => ~ producer[p].mixed
        /\ \A p \in Producer : producer[p].step = "publish" =>
             slots[IndexOf(publishedHead)] = claims[enqueuePos]
        /\ \A pos \in Nat : dequeuePos <= pos /\ pos < publishedHead
             => slots[IndexOf(pos)] = claims[pos + 1]
        /\ \A i \in DOMAIN taken : taken[i] = claims[i]

-----------------------------------------------------------------------------
(* The sinks. *)

\* Only a writer that is writing holds a batch, and one that is joined has an empty inbox.
WriterSound ==
    \A s \in Sink :
        /\ writer[s].step # "write" => writer[s].batch = << >>
        /\ writer[s].step = "joined" => inbox[s] = << >>
        /\ writer[s].step \in {"exited", "joined"} => ~ writing[s]

\* The threads end in order: the dispatcher, then one writer after the other.
ShutdownSound ==
    /\ \A s \in Sink : ~ writing[s] =>
         main > 2 /\ \A r \in Sink : r < s => writer[r].step = "joined"
    /\ main > 2 => dispatcher.step = "exited"
    /\ main > 3 => \A s \in Sink : writer[s].step = "joined"

Inv ==
    /\ Types /\ RingSound /\ BatchSound /\ TurnsSound
    /\ WriterSound /\ ShutdownSound /\ DeliveredInOrder

-----------------------------------------------------------------------------
(* FlattenSeq, by induction with the least number.                         *)

\* A nonempty set of numbers has a least element.
LEMMA NatMin == ASSUME NEW T, T \subseteq Nat, T # {} PROVE \E x \in T : \A y \in T : x <= y
<1> DEFINE R == {ss \in Nat \X Nat : ss[1] < ss[2]}
<1>1. IsWellFoundedOn(R, Nat)
  BY NatLessThanWellFounded DEF OpToRel
<1> HIDE DEF R
<1>2. \E x \in T : \A y \in T : ~ (<<y, x>> \in R)
  BY <1>1, WFMin
<1>3. PICK x \in T : \A y \in T : ~ (<<y, x>> \in R)
  BY <1>2
<1>4. \A y \in T : x <= y
  <2>1. TAKE y \in T
  <2>2. <<y, x>> \in Nat \X Nat
    OBVIOUS
  <2>3. <<y, x>> \notin R
    BY <1>3
  <2> QED BY <2>2, <2>3 DEF R
<1> QED BY <1>4

\* A set that holds 0, and each successor of its numbers, holds all of them.
LEMMA NatInd == ASSUME NEW T, 0 \in T, \A n \in Nat : n \in T => n + 1 \in T PROVE Nat \subseteq T
<1> SUFFICES ASSUME Nat \ T # {} PROVE FALSE
  OBVIOUS
<1>1. PICK x \in Nat \ T : \A y \in Nat \ T : x <= y
  BY NatMin
<1>2. x # 0 /\ x - 1 \in Nat /\ ~ (x <= x - 1)
  BY <1>1
<1>3. x - 1 \in T
  BY <1>1, <1>2
<1>4. (x - 1) + 1 = x
  BY <1>1
<1> QED BY <1>1, <1>2, <1>3, <1>4

\* F is the function FlattenSeq builds from the first n sequences of ss.
Joins(F, n, ss) == F = [i \in 1 .. n |-> IF i = 1 THEN ss[i] ELSE F[i - 1] \o ss[i]]

\* There is such a function for every n.
LEMMA JoinsExist == ASSUME NEW n \in Nat, NEW ss PROVE \E F : Joins(F, n, ss)
<1> DEFINE T == {m \in Nat : \E F : Joins(F, m, ss)}
<1>1. 0 \in T
  <2> DEFINE G == [i \in 1 .. 0 |-> ss[i]]
  <2>0. 1 .. 0 = {}
    OBVIOUS
  <2>1. Joins(G, 0, ss)
    BY <2>0 DEF Joins
  <2>2. \E F : Joins(F, 0, ss)
    BY <2>1
  <2> QED BY <2>2
<1>2. ASSUME NEW m \in Nat, m \in T PROVE m + 1 \in T
  <2>1. PICK F : Joins(F, m, ss)
    BY <1>2
  <2> DEFINE G == [i \in 1 .. m + 1 |-> IF i \in 1 .. m THEN F[i] ELSE IF i = 1 THEN ss[i] ELSE F[i-1] \o ss[i]]
  <2>2. ASSUME NEW i \in 1 .. m + 1 PROVE G[i] = IF i = 1 THEN ss[i] ELSE G[i - 1] \o ss[i]
      <4>1. CASE i = m + 1
        <5>1. i \notin 1 .. m /\ (i # 1 => i - 1 \in 1 .. m /\ i - 1 \in 1 .. m + 1)
          BY <4>1
        <5>2. G[i] = IF i = 1 THEN ss[i] ELSE F[i-1] \o ss[i]
          BY <5>1
        <5>3. i # 1 => G[i-1] = F[i-1]
          BY <5>1
        <5> QED BY <5>2, <5>3
      <4>2. CASE i # m + 1
        <5>1. i \in 1 .. m /\ G[i] = F[i]
           BY <4>2
        <5>2. i # 1 => i - 1 \in 1 .. m + 1 /\ i - 1 \in 1 .. m
           BY <5>1
        <5>3. i # 1 => G[i - 1] = F[i - 1]
           BY <5>2
        <5>4. F[i] = IF i = 1 THEN ss[i] ELSE F[i-1] \o ss[i]
           BY <2>1, <5>1 DEF Joins
        <5> QED BY <5>1, <5>3, <5>4
      <4> QED BY <4>1, <4>2
  <2>3. G = [i \in 1 .. m + 1 |-> G[i]]
    OBVIOUS
  <2>4. Joins(G, m + 1, ss)
    <3> HIDE DEF G
    <3> QED BY <2>2, <2>3 DEF Joins
  <2>5. \E H : Joins(H, m + 1, ss)
    BY <2>4
  <2> QED BY <2>5
<1>3. Nat \subseteq T
  <2> HIDE DEF T
  <2> QED BY <1>1, <1>2, NatInd
<1> QED BY <1>3

\* What FlattenSeq chooses is that function.
LEMMA FlattenUnfold == ASSUME NEW ss, Len(ss) \in Nat \ {0}
   PROVE \E F : Joins(F, Len(ss), ss) /\ FlattenSeq(ss) = F[Len(ss)]
<1> DEFINE n == Len(ss)
<1>1. \E F : Joins(F, n, ss)
  BY JoinsExist
<1>2. FlattenSeq(ss) = (CHOOSE F : Joins(F, n, ss))[n]
  BY DEF FlattenSeq, Joins
<1>3. Joins(CHOOSE F : Joins(F, n, ss), n, ss)
  <2> HIDE DEF n
  <2> QED  BY <1>1, Zenon
<1> QED BY <1>2, <1>3

\* Sequences that agree up to n are joined alike up to n.
LEMMA JoinsAgree ==
  ASSUME NEW n \in Nat, NEW m \in Nat, n <= m, NEW ss, NEW tt, NEW F, NEW G,
         Joins(F, n, ss), Joins(G, m, tt), \A i \in 1 .. n : ss[i] = tt[i]
  PROVE  \A i \in 1 .. n : F[i] = G[i]
<1>1. ASSUME NEW i \in 1 .. n
      PROVE  /\ F[i] = IF i = 1 THEN ss[i] ELSE F[i - 1] \o ss[i]
             /\ G[i] = IF i = 1 THEN ss[i] ELSE G[i - 1] \o ss[i]
  <2>1. i \in 1 .. m /\ ss[i] = tt[i]
    OBVIOUS
  <2>2. F[i] = IF i = 1 THEN ss[i] ELSE F[i - 1] \o ss[i]
    BY DEF Joins
  <2>3. G[i] = IF i = 1 THEN tt[i] ELSE G[i - 1] \o tt[i]
    BY <2>1 DEF Joins
  <2> QED  BY <2>1, <2>2, <2>3
<1> DEFINE T == {k \in Nat : k \in 1 .. n => F[k] = G[k]}
<1>2. 0 \in T
  OBVIOUS
<1>3. ASSUME NEW k \in Nat, k \in T PROVE k + 1 \in T
  <2> SUFFICES ASSUME k + 1 \in 1 .. n PROVE F[k + 1] = G[k + 1]
    OBVIOUS
  <2>1. CASE k = 0
    BY <1>1, <2>1
  <2>2. CASE k # 0
    <3>1. k \in 1 .. n /\ F[k] = G[k]
      BY <1>3, <2>2
    <3>2. (k + 1) - 1 = k /\ k + 1 # 1
      BY <2>2
    <3>3. F[k + 1] = F[k] \o ss[k + 1] /\ G[k + 1] = G[k] \o ss[k + 1]
      BY <1>1, <3>2
    <3> QED  BY <3>1, <3>3
  <2> QED  BY <2>1, <2>2
<1>4. Nat \subseteq T
  <2> HIDE DEF T
  <2> QED  BY <1>2, <1>3, NatInd
<1> QED  BY <1>4

\* Nothing is joined to nothing.
LEMMA FlattenEmpty == FlattenSeq(<< >>) = << >>
  BY DEF FlattenSeq

\* One sequence more is joined at the end.
LEMMA FlattenAppend ==
  ASSUME NEW ss, NEW X, ss \in Seq(X), NEW x \in X
  PROVE  FlattenSeq(Append(ss, x)) = IF ss = << >> THEN x ELSE FlattenSeq(ss) \o x
<1> DEFINE tt == Append(ss, x)
           n == Len(ss)
<1>1. /\ n \in Nat /\ Len(tt) = n + 1 /\ tt[n + 1] = x
      /\ \A i \in 1 .. n : ss[i] = tt[i]
  OBVIOUS
<1>2. PICK G : Joins(G, n + 1, tt) /\ FlattenSeq(tt) = G[n + 1]
  <2>1. n + 1 \in Nat \ {0}
    BY <1>1
  <2> HIDE DEF tt, n
  <2> QED  BY <1>1, <2>1, FlattenUnfold
<1>3. G[n + 1] = IF n + 1 = 1 THEN tt[n + 1] ELSE G[(n + 1) - 1] \o tt[n + 1]
  <2>1. n + 1 \in 1 .. n + 1
    BY <1>1
  <2> HIDE DEF tt, n
  <2> QED  BY <1>2, <2>1 DEF Joins
<1>4. CASE n = 0
  <2>1. ss = << >>
    BY <1>4
  <2> QED  BY <1>1, <1>2, <1>3, <1>4, <2>1
<1>5. CASE n # 0
  <2>1. PICK F : Joins(F, n, ss) /\ FlattenSeq(ss) = F[n]
    BY <1>1, <1>5, FlattenUnfold
  <2>2. F[n] = G[n]
    <3>1. \A i \in 1 .. n : F[i] = G[i]
      <4> HIDE DEF tt, n
      <4> QED  BY <1>1, <1>2, <2>1, JoinsAgree
    <3> QED  BY <1>1, <1>5, <3>1
  <2>3. (n + 1) - 1 = n /\ n + 1 # 1 /\ ss # << >>
    BY <1>1, <1>5
  <2>4. FlattenSeq(tt) = G[n] \o x
    <3> HIDE DEF tt, n
    <3> QED  BY <1>1, <1>2, <1>3, <2>3
  <2> QED  BY <2>1, <2>2, <2>3, <2>4
<1> QED  BY <1>4, <1>5

\* A sequence of sequences that is not empty has a last one.
LEMMA FrontAndLast ==
  ASSUME NEW X, NEW tt \in Seq(Seq(X)), tt # << >>
  PROVE  \E firsts \in Seq(Seq(X)), x \in Seq(X) : tt = Append(firsts, x)
BY SequenceEmptyOrAppend

\* A sequence of some length is not empty.
LEMMA NotEmpty == ASSUME NEW X, NEW s \in Seq(X), Len(s) # 0 PROVE s # << >>
  OBVIOUS

\* It does not matter which two of three sequences are joined first.
LEMMA JoinsAssociate ==
  ASSUME NEW X, NEW a \in Seq(X), NEW b \in Seq(X), NEW c \in Seq(X)
  PROVE  (a \o b) \o c = a \o (b \o c)
BY ConcatAssociative

\* Sequences over X are joined to a sequence over X.
LEMMA FlattenTyped ==
  ASSUME NEW X, NEW ss \in Seq(Seq(X)) PROVE FlattenSeq(ss) \in Seq(X)
<1> DEFINE T == {n \in Nat : \A tt \in Seq(Seq(X)) : Len(tt) = n => FlattenSeq(tt) \in Seq(X)}
<1>1. 0 \in T
  <2>1. << >> \in Seq(X)
    OBVIOUS
  <2> QED  BY <2>1, FlattenEmpty
<1>2. ASSUME NEW n \in Nat, n \in T PROVE n + 1 \in T
  <2> SUFFICES ASSUME NEW tt \in Seq(Seq(X)), Len(tt) = n + 1 PROVE FlattenSeq(tt) \in Seq(X)
    OBVIOUS
  <2>0. tt # << >>
    OBVIOUS
  <2>1. PICK firsts \in Seq(Seq(X)), x \in Seq(X) : tt = Append(firsts, x)
    BY <2>0, FrontAndLast
  <2>2. Len(firsts) = n
    BY <2>1
  <2>3. FlattenSeq(firsts) \in Seq(X)
    BY <1>2, <2>2
  <2>4. FlattenSeq(tt) = IF firsts = << >> THEN x ELSE FlattenSeq(firsts) \o x
    BY <2>1, FlattenAppend
  <2> QED  BY <2>3, <2>4
<1>3. Nat \subseteq T
  <2> HIDE DEF T
  <2> QED  BY <1>1, <1>2, NatInd
<1> QED  BY <1>3

\* One sequence more, the first one too, is joined at the end.
LEMMA FlattenMore ==
  ASSUME NEW X, NEW ss \in Seq(Seq(X)), NEW x \in Seq(X)
  PROVE  FlattenSeq(Append(ss, x)) = FlattenSeq(ss) \o x
<1>1. CASE ss = << >>
  <2>1. << >> \o x = x
    OBVIOUS
  <2>2. FlattenSeq(Append(ss, x)) = x
    BY <1>1, FlattenAppend
  <2> QED  BY <1>1, <2>1, <2>2, FlattenEmpty
<1>2. CASE ss # << >>
  BY <1>2, FlattenAppend
<1> QED  BY <1>1, <1>2

\* A single sequence is its own first one.
LEMMA FlattenFirstOfOne ==
  ASSUME NEW X, NEW x \in Seq(X)
  PROVE  LET tt == Append(<< >>, x) IN FlattenSeq(tt) = Head(tt) \o FlattenSeq(Tail(tt))
<1> DEFINE tt == Append(<< >>, x)
<1>1. << >> \in Seq(Seq(X))
  OBVIOUS
<1>2. FlattenSeq(tt) = << >> \o x
  BY <1>1, FlattenMore, FlattenEmpty
<1>3. Head(tt) = x /\ Tail(tt) = << >>
  OBVIOUS
<1>4. << >> \o x = x /\ x \o << >> = x
  OBVIOUS
<1> QED  BY <1>2, <1>3, <1>4, FlattenEmpty

\* The first sequence stays the first when one is added at the end.
LEMMA FlattenFirstOfMore ==
  ASSUME NEW X, NEW firsts \in Seq(Seq(X)), firsts # << >>, NEW x \in Seq(X),
         FlattenSeq(firsts) = Head(firsts) \o FlattenSeq(Tail(firsts))
  PROVE  LET tt == Append(firsts, x) IN FlattenSeq(tt) = Head(tt) \o FlattenSeq(Tail(tt))
<1> DEFINE tt == Append(firsts, x)
           a == Head(firsts)
           b == FlattenSeq(Tail(firsts))
<1>1. a \in Seq(X) /\ Tail(firsts) \in Seq(Seq(X)) /\ Head(tt) = a /\ Tail(tt) = Append(Tail(firsts), x)
  OBVIOUS
<1>2. b \in Seq(X)
  BY <1>1, FlattenTyped
<1>3. FlattenSeq(tt) = (a \o b) \o x
  BY FlattenMore
<1>4. FlattenSeq(Tail(tt)) = b \o x
  BY <1>1, FlattenMore
<1> HIDE DEF a, b, tt
<1>5. (a \o b) \o x = a \o (b \o x)
  <2>1. a \in Seq(X) /\ b \in Seq(X)
    BY <1>1, <1>2
  <2> QED  BY ONLY <2>1, JoinsAssociate, x \in Seq(X)
<1>6. FlattenSeq(tt) = Head(tt) \o FlattenSeq(Tail(tt))
  BY <1>1, <1>3, <1>4, <1>5
<1> QED  BY <1>6 DEF tt

\* The first sequence comes before what the others are joined to.
LEMMA FlattenFirst ==
  ASSUME NEW X, NEW ss \in Seq(Seq(X)), ss # << >>
  PROVE  FlattenSeq(ss) = Head(ss) \o FlattenSeq(Tail(ss))
<1> DEFINE First(tt) == FlattenSeq(tt) = Head(tt) \o FlattenSeq(Tail(tt))
           T == {n \in Nat : \A tt \in Seq(Seq(X)) : Len(tt) = n + 1 => First(tt)}
<1> HIDE DEF First
<1>1. ASSUME NEW n \in Nat, NEW tt \in Seq(Seq(X)), Len(tt) = n + 1,
             \A firsts \in Seq(Seq(X)) : Len(firsts) = n /\ n # 0 => First(firsts)
      PROVE  First(tt)
  <2> HIDE DEF T
  <2>1. tt # << >>
    BY <1>1, NotEmpty
  <2>2. PICK firsts \in Seq(Seq(X)), x \in Seq(X) : tt = Append(firsts, x)
    BY <2>1, FrontAndLast
  <2>3. Len(firsts) = n
    BY <1>1, <2>2
  <2>4. CASE n = 0
    <3>1. firsts = << >>
      BY <2>3, <2>4
    <3> QED  BY <2>2, <3>1, FlattenFirstOfOne DEF First
  <2>5. CASE n # 0
    <3>1. firsts # << >> /\ First(firsts)
      BY <1>1, <2>3, <2>5, NotEmpty
    <3> QED  BY <2>2, <3>1, FlattenFirstOfMore DEF First
  <2> QED  BY <2>4, <2>5
<1>2. 0 \in T
  BY <1>1
<1>3. ASSUME NEW n \in Nat, n \in T PROVE n + 1 \in T
  <2> SUFFICES ASSUME NEW tt \in Seq(Seq(X)), Len(tt) = (n + 1) + 1 PROVE First(tt)
    OBVIOUS
  <2>1. \A firsts \in Seq(Seq(X)) : Len(firsts) = n + 1 => First(firsts)
    BY <1>3
  <2> QED  BY <1>1, <2>1
<1>4. Nat \subseteq T
  <2> HIDE DEF T
  <2> QED  BY <1>2, <1>3, NatInd
<1>5. Len(ss) - 1 \in Nat /\ Len(ss) = (Len(ss) - 1) + 1
  OBVIOUS
<1>6. First(ss)
  BY <1>4, <1>5
<1> QED  BY <1>6 DEF First

-----------------------------------------------------------------------------
(* Partition. *)

\* The records of a batch for sink s, one sequence for each.
Parts(batch, s) == [i \in DOMAIN batch |-> IF s \in MaskOf(batch[i]) THEN <<batch[i]>> ELSE << >>]

LEMMA PartsTyped ==
  ASSUME NEW b \in Seq(Content), NEW s PROVE Parts(b, s) \in Seq(Seq(Content))
<1>1. DOMAIN b = 1 .. Len(b) /\ Len(b) \in Nat
  OBVIOUS
<1>2. ASSUME NEW i \in DOMAIN b
      PROVE  (IF s \in MaskOf(b[i]) THEN <<b[i]>> ELSE << >>) \in Seq(Content)
  <2>1. b[i] \in Content
    OBVIOUS
  <2>2. \A c \in Content : <<c>> \in Seq(Content)
    OBVIOUS
  <2>3. << >> \in Seq(Content)
    OBVIOUS
  <2> QED  BY <2>1, <2>2, <2>3
<1> QED  BY <1>1, <1>2, IsASeq DEF Parts

LEMMA PartitionTyped ==
  ASSUME NEW b \in Seq(Content), NEW s PROVE Partition(b, s) \in Seq(Content)
BY PartsTyped, FlattenTyped DEF Partition, Parts

LEMMA PartitionEmpty == ASSUME NEW s PROVE Partition(<< >>, s) = << >>
<1>1. Parts(<< >>, s) = << >>
  BY DEF Parts
<1> QED  BY <1>1, FlattenEmpty DEF Partition, Parts

\* The records that sink s gets of one more record: that one, or none.
Share(c, s) == IF s \in MaskOf(c) THEN <<c>> ELSE << >>

LEMMA PartitionAppend ==
  ASSUME NEW b \in Seq(Content), NEW c \in Content, NEW s
  PROVE  /\ Partition(Append(b, c), s) = Partition(b, s) \o Share(c, s)
         /\ Share(c, s) \in Seq(Content)
<1>1. Share(c, s) \in Seq(Content)
  <2>1. <<c>> \in Seq(Content) /\ << >> \in Seq(Content)
    OBVIOUS
  <2> QED  BY <2>1 DEF Share
<1>2. Parts(Append(b, c), s) = Append(Parts(b, s), Share(c, s))
  <2>1. /\ Len(b) \in Nat /\ DOMAIN b = 1 .. Len(b) /\ DOMAIN Append(b, c) = 1 .. Len(b) + 1
        /\ Append(b, c)[Len(b) + 1] = c /\ \A i \in 1 .. Len(b) : Append(b, c)[i] = b[i]
    OBVIOUS
  <2>2. Append(b, c) \in Seq(Content)
    OBVIOUS
  <2>3. /\ Parts(Append(b, c), s) \in Seq(Seq(Content))
        /\ Append(Parts(b, s), Share(c, s)) \in Seq(Seq(Content))
    BY <1>1, <2>2, PartsTyped, AppendProperties
  <2>4. Parts(b, s) \in Seq(Seq(Content)) /\ Len(Parts(b, s)) = Len(b)
    BY <2>1, PartsTyped DEF Parts
  <2>5. /\ Len(Parts(Append(b, c), s)) = Len(b) + 1
        /\ Len(Append(Parts(b, s), Share(c, s))) = Len(b) + 1
    BY <1>1, <2>1, <2>3, <2>4, AppendProperties DEF Parts
  <2>6. ASSUME NEW i \in 1 .. Len(b) + 1
        PROVE  Parts(Append(b, c), s)[i] = Append(Parts(b, s), Share(c, s))[i]
    <3>1. Parts(Append(b, c), s)[i] = Share(Append(b, c)[i], s)
      BY <2>1 DEF Parts, Share
    <3>2. CASE i = Len(b) + 1
      BY <1>1, <2>1, <2>4, <3>1, <3>2, AppendProperties
    <3>3. CASE i # Len(b) + 1
      <4>1. i \in 1 .. Len(b)
        BY <2>1, <3>3
      <4>2. Append(Parts(b, s), Share(c, s))[i] = Parts(b, s)[i]
        BY <1>1, <2>4, <4>1, AppendProperties
      <4>3. Parts(b, s)[i] = Share(b[i], s)
        BY <2>1, <4>1 DEF Parts, Share
      <4> QED  BY <2>1, <3>1, <4>1, <4>2, <4>3
    <3> QED  BY <3>2, <3>3
  <2> QED  BY <2>3, <2>5, <2>6, SeqEqual
<1>3. FlattenSeq(Parts(Append(b, c), s)) = FlattenSeq(Parts(b, s)) \o Share(c, s)
  BY <1>1, <1>2, PartsTyped, FlattenMore
<1> QED  BY <1>1, <1>3 DEF Partition, Parts

-----------------------------------------------------------------------------
(* Positions and slots. *)

LEMMA IndexTyped == ASSUME NEW pos \in Nat PROVE IndexOf(pos) \in 0 .. Capacity - 1
  BY SizeAssumption DEF IndexOf

\* Positions that are less than a ring apart have different slots.
LEMMA IndexDiffers ==
  ASSUME NEW a \in Nat, NEW b \in Nat, a < b, b - a < Capacity PROVE IndexOf(a) # IndexOf(b)
<1> SUFFICES ASSUME a % Capacity = b % Capacity PROVE FALSE
  BY DEF IndexOf
<1>1. Capacity \in Nat /\ Capacity > 0
  BY SizeAssumption
<1>2. /\ a \div Capacity \in Int /\ b \div Capacity \in Int
      /\ a = Capacity * (a \div Capacity) + (a % Capacity)
      /\ b = Capacity * (b \div Capacity) + (b % Capacity)
      /\ a % Capacity \in Int
  BY <1>1
<1> DEFINE d == (b \div Capacity) - (a \div Capacity)
<1>3. d \in Int /\ b - a = Capacity * d
  BY <1>1, <1>2
<1> HIDE DEF d
<1>4. CASE d <= 0
  <2>1. Capacity * d <= 0
    BY <1>1, <1>3, <1>4
  <2> QED  BY <1>3, <2>1
<1>5. CASE d >= 1
  <2>1. Capacity * d >= Capacity
    BY <1>1, <1>3, <1>5
  <2> QED  BY <1>1, <1>3, <2>1
<1> QED  BY <1>3, <1>4, <1>5

-----------------------------------------------------------------------------
(* The first state. *)

LEMMA TypesInit == Init => Types
<1> SUFFICES ASSUME Init PROVE Types
  OBVIOUS
<1>0. /\ Capacity \in Nat \ {0} /\ NumSinks \in Nat \ {0} /\ MaxBatches \in Nat \ {0}
      /\ MaxRecords \in Nat
  BY SizeAssumption
<1>1. << >> \in Seq(Content) /\ << >> \in Seq(Record) /\ << >> \in Seq(Seq(Content))
  OBVIOUS
<1>2. Blank \in Content /\ 1 \in Sink
  BY <1>0 DEF Blank, Content, Sink
<1>3. producer \in [Producer -> [step : {"idle"}] \cup Logging]
  <2>1. Idle \in [step : {"idle"}]
    BY DEF Idle
  <2> QED  BY <2>1 DEF Init
<1>4. dispatcher \in [step : {"poll", "copy", "deliver", "exited"}, batch : Seq(Content),
                      count : Nat, sink : Sink]
  BY <1>1, <1>2 DEF Init, Polling
<1>5. /\ writing \in [Sink -> BOOLEAN] /\ inbox \in [Sink -> Seq(Seq(Content))]
      /\ written \in [Sink -> Seq(Content)]
      /\ writer \in [Sink -> [step : {"loop", "write", "exited", "joined"}, batch : Seq(Content)]]
  BY <1>1 DEF Init
<1>6. slots \in [0 .. Capacity - 1 -> Content]
  BY <1>2 DEF Init
<1>7. TypeOK
  <2>1. Len(<< >>) = 0
    OBVIOUS
  <2>2. \A p \in Producer : producer[p].step = "idle"
    BY DEF Init, Idle
  <2>3. \A s \in Sink : writer[s].step = "loop" /\ Len(inbox[s]) <= MaxBatches
    BY <1>0, <2>1 DEF Init
  <2>4. main \in DOMAIN ShutdownOrder
    BY DEF Init, ShutdownOrder
  <2>5. dispatcher.step = "poll"
    BY DEF Init, Polling
  <2>6. /\ calls \in 0 .. MaxRecords /\ enqueuePos = Len(claims)
        /\ 0 <= dequeuePos /\ dequeuePos <= publishedHead /\ publishedHead <= enqueuePos
    BY <1>0, <2>1 DEF Init
  <2> QED  BY <1>6, <2>2, <2>3, <2>4, <2>5, <2>6 DEF TypeOK
<1> QED  BY <1>1, <1>3, <1>4, <1>5, <1>7 DEF Init, Types

LEMMA InvInit == Init => Inv
<1> SUFFICES ASSUME Init PROVE Inv
  OBVIOUS
<1>0. Types
  BY TypesInit
<1>1. \A p \in Producer : producer[p].step = "idle"
  BY DEF Init, Idle
<1>2. RingSound
  BY <1>1 DEF Init, RingSound, Claimed, Inside, At
<1>3. dispatcher = [step |-> "poll", batch |-> << >>, count |-> 0, sink |-> 1]
  BY DEF Init, Polling
<1>4. BatchSound
  <2>1. Len(<< >>) = 0
    OBVIOUS
  <2> QED  BY <1>3, <2>1 DEF Init, BatchSound
<1>5. TurnsSound
  <2>1. DOMAIN taken = {}
    BY DEF Init
  <2> QED  BY <1>1, <2>1 DEF Init, TurnsSound, Claimed, Inside, At
<1>6. WriterSound
  BY DEF Init, WriterSound
<1>7. ShutdownSound
  BY DEF Init, ShutdownSound
<1>8. DeliveredInOrder
  <2> SUFFICES ASSUME NEW s \in Sink
               PROVE  written[s] \o writer[s].batch \o FlattenSeq(inbox[s]) \o Undelivered(s)
                        = Partition(taken, s)
    BY DEF DeliveredInOrder
  <2>1. written[s] = << >> /\ writer[s].batch = << >> /\ inbox[s] = << >> /\ taken = << >>
    BY DEF Init
  <2>2. Undelivered(s) = << >>
    BY <1>3 DEF Undelivered
  <2>3. << >> \o << >> \o << >> \o << >> = << >>
    OBVIOUS
  <2> QED  BY <2>1, <2>2, <2>3, FlattenEmpty, PartitionEmpty
<1> QED  BY <1>0, <1>2, <1>4, <1>5, <1>6, <1>7, <1>8 DEF Inv

-----------------------------------------------------------------------------
(* The types are kept. *)

\* What has to be shown of a step of a producer, which leaves the rest alone.
LEMMA FrontTypes ==
  ASSUME Types, UNCHANGED <<dequeuePos, back>>,
         calls' \in 0 .. MaxRecords,
         enqueuePos' \in Nat, publishedHead' \in Nat,
         dequeuePos <= publishedHead', publishedHead' <= enqueuePos',
         claims' \in Seq(Record), enqueuePos' = Len(claims'),
         slots' \in [0 .. Capacity - 1 -> Content],
         producer' \in [Producer -> [step : {"idle"}] \cup Logging],
         overlapped' \in BOOLEAN
  PROVE  Types'
<1>1. /\ dispatcher' = dispatcher /\ writer' = writer /\ inbox' = inbox /\ main' = main
      /\ written' = written /\ taken' = taken /\ dequeuePos' = dequeuePos
      /\ writing' = writing
  BY DEF back
<1>2. dispatching' \in BOOLEAN
  <2>1. dispatching' = dispatching /\ dispatching \in BOOLEAN
    BY DEF back, Types
  <2> QED  BY <2>1, Zenon
<1>3. ASSUME NEW p \in Producer
      PROVE  producer'[p].step \in {"idle", "check", "claim", "write", "copy", "publish"}
  <2>1. producer'[p] \in [step : {"idle"}] \cup Logging
    OBVIOUS
  <2> QED  BY <2>1 DEF Logging
<1>4. TypeOK'
  BY <1>1, <1>3 DEF Types, TypeOK
<1> QED  BY <1>1, <1>2, <1>4 DEF Types

\* Of a step of the log's own threads, and of Shutdown.
LEMMA BackTypes ==
  ASSUME Types, UNCHANGED <<front, slots>>,
         dequeuePos' \in Nat, dequeuePos' <= publishedHead,
         taken' \in Seq(Content), dispatching' \in BOOLEAN,
         dispatcher' \in [step : {"poll", "copy", "deliver", "exited"}, batch : Seq(Content),
                          count : Nat, sink : Sink],
         writing' \in [Sink -> BOOLEAN],
         writer' \in [Sink -> [step : {"loop", "write", "exited", "joined"},
                               batch : Seq(Content)]],
         inbox' \in [Sink -> Seq(Seq(Content))],
         \A s \in Sink : Len(inbox'[s]) <= MaxBatches,
         written' \in [Sink -> Seq(Content)],
         main' \in DOMAIN ShutdownOrder
  PROVE  Types'
<1>1. /\ calls' = calls /\ enqueuePos' = enqueuePos /\ publishedHead' = publishedHead
      /\ producer' = producer /\ claims' = claims /\ slots' = slots
  BY DEF front
<1>2. overlapped' \in BOOLEAN
  <2>1. overlapped' = overlapped /\ overlapped \in BOOLEAN
    BY DEF front, Types
  <2> QED  BY <2>1, Zenon
<1>3. dispatcher'.step \in {"poll", "copy", "deliver", "exited"}
  OBVIOUS
<1>4. \A s \in Sink : writer'[s].step \in {"loop", "write", "exited", "joined"}
  OBVIOUS
<1>5. TypeOK'
  <2>1. /\ calls \in 0 .. MaxRecords /\ enqueuePos = Len(claims) /\ publishedHead <= enqueuePos
        /\ slots \in [0 .. Capacity - 1 -> Content]
        /\ \A p \in Producer :
             producer[p].step \in {"idle", "check", "claim", "write", "copy", "publish"}
    BY DEF Types, TypeOK
  <2>2. 0 <= dequeuePos'
    OBVIOUS
  <2> QED  BY <1>1, <1>3, <1>4, <2>1, <2>2 DEF TypeOK
<1> QED  BY <1>1, <1>2, <1>5 DEF Types

\* A thread that is inside TryEnqueue has the fields of its record.
LEMMA InsideTyped ==
  ASSUME Types, NEW p \in Producer, Inside(p) PROVE producer[p] \in Logging
<1>1. producer[p] \in [step : {"idle"}] \cup Logging
  BY DEF Types
<1> QED  BY <1>1 DEF Inside, At

LEMMA ProducerTypes ==
  ASSUME Types, RingSound, NEW p \in Producer, WriteV(p) \/ Producing(p) PROVE Types'
<1> DEFINE P == [Producer -> [step : {"idle"}] \cup Logging]
<1>0. /\ calls \in 0 .. MaxRecords /\ enqueuePos \in Nat /\ publishedHead \in Nat
      /\ dequeuePos \in Nat /\ dequeuePos <= publishedHead /\ publishedHead <= enqueuePos
      /\ claims \in Seq(Record) /\ enqueuePos = Len(claims)
      /\ slots \in [0 .. Capacity - 1 -> Content] /\ producer \in P /\ MaxRecords \in Nat
  BY SizeAssumption DEF Types, TypeOK
<1>00. overlapped \in BOOLEAN
  BY DEF Types
<1>i. Idle \in [step : {"idle"}]
  BY DEF Idle
<1>1. CASE WriteV(p)
  <2>1. calls' \in 0 .. MaxRecords /\ calls' \in Record
    BY <1>0, <1>1 DEF WriteV, Record
  <2>2. producer' \in P
    <3>1. [step |-> "check", record |-> calls', cur |-> enqueuePos, tail |-> dequeuePos,
           mixed |-> FALSE] \in Logging
      BY <1>0, <2>1 DEF Logging
    <3> QED  BY <1>0, <1>1, <3>1 DEF WriteV
  <2>3. overlapped' \in BOOLEAN
    BY <1>1 DEF WriteV
  <2>4. UNCHANGED <<ring, claims, back>>
    BY <1>1 DEF WriteV
  <2> QED  BY <1>0, <2>1, <2>2, <2>3, <2>4, FrontTypes DEF ring
<1>2. ASSUME Producing(p) PROVE UNCHANGED <<dequeuePos, back, calls>> /\ overlapped' \in BOOLEAN
  <2>1. UNCHANGED <<dequeuePos, back, calls>>
    BY <1>2 DEF Producing, Check, Claim, ClaimFails, BeginWrite, EndWrite, Publish, ring
  <2>2. overlapped' = overlapped
    BY <1>2 DEF Producing, Check, Claim, ClaimFails, BeginWrite, EndWrite, Publish
  <2> QED  BY <1>00, <2>1, <2>2, Zenon
<1>3. ASSUME Producing(p) PROVE Inside(p)
  BY <1>3 DEF Producing, Check, Claim, ClaimFails, BeginWrite, EndWrite, Publish, Inside, At
<1>4. ASSUME NEW st \in {"check", "claim", "write", "copy", "publish"}, GoTo(p, st),
             producer[p] \in Logging
      PROVE  producer' \in P
  <2>1. [producer[p] EXCEPT !.step = st] \in Logging
    BY <1>4 DEF Logging
  <2>2. producer' = [producer EXCEPT ![p] = [producer[p] EXCEPT !.step = st]]
    BY <1>4 DEF GoTo
  <2> QED  BY <1>0, <2>1, <2>2
<1>5. CASE Check(p)
  <2>1. Producing(p) /\ UNCHANGED <<ring, claims>>
    BY <1>5 DEF Producing, Check
  <2>2. producer[p] \in Logging
    BY <1>3, <2>1, InsideTyped
  <2>3. producer' \in P
    <3>1. CASE Full(p)
      BY <1>0, <1>5, <1>i, <3>1 DEF Check
    <3>2. CASE ~ Full(p)
      <4>1. GoTo(p, "claim")
        BY <1>5, <3>2 DEF Check
      <4> QED  BY <1>4, <2>2, <4>1
    <3> QED  BY <3>1, <3>2
  <2> QED  BY <1>0, <1>2, <2>1, <2>3, FrontTypes DEF ring
<1>6. CASE Claim(p)
  <2>1. Producing(p) /\ UNCHANGED <<publishedHead, slots>> /\ GoTo(p, "write")
    BY <1>6 DEF Producing, Claim
  <2>2. producer[p] \in Logging
    BY <1>3, <2>1, InsideTyped
  <2>3. producer' \in P
    BY <1>4, <2>1, <2>2
  <2>4. enqueuePos' = enqueuePos + 1 /\ claims' = Append(claims, producer[p].record)
    BY <1>6 DEF Claim
  <2>5. claims' \in Seq(Record) /\ Len(claims') = Len(claims) + 1
    <3>1. producer[p].record \in Record
      BY <2>2 DEF Logging
    <3> QED  BY <1>0, <2>4, <3>1
  <2> QED  BY <1>0, <1>2, <2>1, <2>3, <2>4, <2>5, FrontTypes
<1>7. CASE ClaimFails(p)
  <2>1. Producing(p) /\ UNCHANGED <<ring, claims>>
    BY <1>7 DEF Producing, ClaimFails
  <2>2. producer[p] \in Logging
    BY <1>3, <2>1, InsideTyped
  <2>3. producer' \in P
    <3>1. [producer[p] EXCEPT !.step = "check", !.cur = enqueuePos, !.tail = dequeuePos] \in Logging
      BY <1>0, <2>2 DEF Logging
    <3>2. producer' = [producer EXCEPT ![p] = [producer[p] EXCEPT !.step = "check",
                                                  !.cur = enqueuePos, !.tail = dequeuePos]]
      BY <1>7 DEF ClaimFails
    <3> QED  BY <1>0, <3>1, <3>2
  <2> QED  BY <1>0, <1>2, <2>1, <2>3, FrontTypes DEF ring
<1>8. CASE BeginWrite(p)
  <2>1. Producing(p) /\ UNCHANGED <<ring, claims>>
    BY <1>8 DEF Producing, BeginWrite
  <2>2. producer[p] \in Logging
    BY <1>3, <2>1, InsideTyped
  <2> DEFINE others == WritersOf(IndexOf(producer[p].cur))
             new(q) == IF q = p THEN [producer[p] EXCEPT !.step = "copy", !.mixed = others # {}]
                       ELSE IF q \in others THEN [producer[q] EXCEPT !.mixed = TRUE]
                       ELSE producer[q]
  <2>3. producer' = [q \in Producer |-> new(q)]
    BY <1>8 DEF BeginWrite
  <2>4. ASSUME NEW q \in Producer PROVE new(q) \in [step : {"idle"}] \cup Logging
    <3>1. CASE q = p
      <4>1. (others # {}) \in BOOLEAN
        OBVIOUS
      <4> HIDE DEF others
      <4> QED  BY <2>2, <3>1, <4>1 DEF Logging
    <3>2. CASE q # p /\ q \in others
      <4>1. producer[q] \in Logging
        BY <3>2, InsideTyped DEF WritersOf, Inside, At
      <4> HIDE DEF others
      <4> QED  BY <3>2, <4>1 DEF Logging
    <3>3. CASE q # p /\ q \notin others
      <4> HIDE DEF others
      <4> QED  BY <1>0, <3>3
    <3> QED  BY <3>1, <3>2, <3>3
  <2>5. producer' \in P
    <3> HIDE DEF new
    <3> QED  BY <2>3, <2>4
  <2> QED  BY <1>0, <1>2, <2>1, <2>5, FrontTypes DEF ring
<1>9. CASE EndWrite(p)
  <2>1. /\ Producing(p) /\ UNCHANGED <<enqueuePos, publishedHead, claims>>
        /\ GoTo(p, "publish")
    BY <1>9 DEF Producing, EndWrite
  <2>2. producer[p] \in Logging
    BY <1>3, <2>1, InsideTyped
  <2>3. producer' \in P
    BY <1>4, <2>1, <2>2
  <2>4. producer[p].record \in Record /\ producer[p].cur \in Nat
    BY <2>2 DEF Logging
  <2>5. slots' \in [0 .. Capacity - 1 -> Content]
    <3> DEFINE i == IndexOf(producer[p].cur)
    <3>1. i \in 0 .. Capacity - 1
      BY <2>4, IndexTyped
    <3>2. slots[i] \in Content
      BY <1>0, <3>1
    <3>3. PICK c \in {producer[p].record, Garbled(producer[p].record), slots[i],
                      Garbled(slots[i])} : slots' = [slots EXCEPT ![i] = c]
      BY <1>9 DEF EndWrite
    <3>4. c \in Content
      <4> HIDE DEF i
      <4> QED  BY <1>0, <2>4, <3>2, <3>3 DEF Record, Content, Garbled
    <3> QED  BY <1>0, <3>3, <3>4
  <2> QED  BY <1>0, <1>2, <2>1, <2>3, <2>5, FrontTypes
<1>10. CASE Publish(p)
  <2>1. Producing(p) /\ UNCHANGED <<enqueuePos, slots, claims>>
    BY <1>10 DEF Producing, Publish
  <2>2. producer[p] \in Logging
    BY <1>3, <2>1, InsideTyped
  <2>3. producer' \in P
    BY <1>0, <1>10, <1>i DEF Publish
  <2>4. producer[p].cur \in Nat /\ producer[p].cur < enqueuePos
    <3>1. Claimed(p)
      BY <1>10 DEF Publish, At, Claimed
    <3> QED  BY <2>2, <3>1 DEF Logging, RingSound
  <2>5. publishedHead' \in Nat /\ dequeuePos <= publishedHead' /\ publishedHead' <= enqueuePos
    BY <1>0, <1>10, <2>4 DEF Publish, RaisePublished
  <2> QED  BY <1>0, <1>2, <2>1, <2>3, <2>5, FrontTypes
<1> QED  BY <1>1, <1>5, <1>6, <1>7, <1>8, <1>9, <1>10 DEF Producing

\* What can be read of a slot is a record, whole or garbled.
LEMMA ReadableTyped ==
  ASSUME Types, NEW i \in 0 .. Capacity - 1 PROVE Readable(i) \subseteq Content
<1>1. slots[i] \in Content /\ MaxRecords \in Nat
  BY SizeAssumption DEF Types, TypeOK
<1>2. \A c \in Content : Garbled(c) \in Content
  BY <1>1 DEF Content, Garbled
<1>3. ASSUME NEW p \in WritersOf(i) PROVE producer[p].record \in Content
  <2>1. producer[p] \in Logging
    BY <1>3, InsideTyped DEF WritersOf, Inside, At
  <2> QED  BY <1>1, <2>1 DEF Logging, Record, Content
<1> QED  BY <1>1, <1>2, <1>3 DEF Readable

LEMMA DispatcherTypes ==
  ASSUME Types, BatchSound, Dispatching PROVE Types'
<1> DEFINE D == [step : {"poll", "copy", "deliver", "exited"}, batch : Seq(Content),
                 count : Nat, sink : Sink]
<1>0. /\ publishedHead \in Nat /\ dequeuePos \in Nat /\ dequeuePos <= publishedHead
      /\ taken \in Seq(Content) /\ dispatcher \in D
      /\ writing \in [Sink -> BOOLEAN] /\ inbox \in [Sink -> Seq(Seq(Content))]
      /\ writer \in [Sink -> [step : {"loop", "write", "exited", "joined"}, batch : Seq(Content)]]
      /\ written \in [Sink -> Seq(Content)] /\ main \in DOMAIN ShutdownOrder
      /\ \A s \in Sink : Len(inbox[s]) <= MaxBatches
      /\ BatchSize \in Nat /\ NumSinks \in Nat
  BY SizeAssumption DEF Types, TypeOK
<1>1. UNCHANGED <<front, slots, writing, writer, main, written>> /\ dispatching' = dispatching
  BY DEF Dispatching, Poll, Copy, Deliver, DispatcherExits
<1>2. dispatching' \in BOOLEAN
  <2>1. dispatching \in BOOLEAN
    BY DEF Types
  <2> QED  BY <1>1, <2>1, Zenon
<1>3. CASE Poll
  <2>1. UNCHANGED <<dequeuePos, inbox, taken>>
    BY <1>3 DEF Poll
  <2>2. dispatcher' \in D
    <3>1. Available \in Nat
      BY <1>0 DEF Available
    <3>2. (IF Available < BatchSize THEN Available ELSE BatchSize) \in Nat
      BY <1>0, <3>1
    <3> QED  BY <1>0, <1>3, <3>2 DEF Poll
  <2> QED  BY <1>0, <1>1, <1>2, <2>1, <2>2, BackTypes
<1>4. CASE Copy
  <2> DEFINE b == dispatcher.batch
             k == dispatcher.count
  <2>0. b \in Seq(Content) /\ Len(b) \in Nat /\ k \in Nat /\ dispatcher.step = "copy"
    BY <1>0, <1>4 DEF Copy
  <2>1. dequeuePos + k <= publishedHead
    BY <2>0 DEF BatchSound
  <2>2. PICK c \in Readable(IndexOf(dequeuePos + Len(b))) :
          /\ taken' = Append(taken, c)
          /\ IF Len(Append(b, c)) < k
             THEN dispatcher' = [dispatcher EXCEPT !.batch = Append(b, c)] /\ UNCHANGED dequeuePos
             ELSE /\ dispatcher' = [dispatcher EXCEPT !.step = "deliver", !.batch = Append(b, c)]
                  /\ dequeuePos' = dequeuePos + k
    BY <1>4 DEF Copy
  <2>3. c \in Content
    BY <1>0, <2>0, IndexTyped, ReadableTyped
  <2>4. taken' \in Seq(Content) /\ Append(b, c) \in Seq(Content)
    BY <1>0, <2>0, <2>2, <2>3
  <2>5. dispatcher' \in D /\ dequeuePos' \in Nat /\ dequeuePos' <= publishedHead
    <3> HIDE DEF b, k
    <3>1. CASE Len(Append(b, c)) < k
      BY <1>0, <2>2, <2>4, <3>1
    <3>2. CASE ~ (Len(Append(b, c)) < k)
      <4>1. dequeuePos' = dequeuePos + k
        BY <2>2, <3>2
      <4>2. dispatcher' = [dispatcher EXCEPT !.step = "deliver", !.batch = Append(b, c)]
        BY <2>2, <3>2
      <4>3. dispatcher' \in D
        BY <1>0, <2>4, <4>2
      <4>4. dequeuePos' \in Nat
        BY <1>0, <2>0, <4>1
      <4> QED  BY <2>1, <4>1, <4>3, <4>4
    <3> QED  BY <3>1, <3>2
  <2>6. inbox' = inbox
    BY <1>4 DEF Copy
  <2> QED  BY <1>0, <1>1, <1>2, <2>4, <2>5, <2>6, BackTypes
<1>5. CASE Deliver
  <2> DEFINE s == dispatcher.sink
             part == Partition(dispatcher.batch, s)
  <2>0. s \in Sink /\ part \in Seq(Content)
    BY <1>0, PartitionTyped
  <2>1. UNCHANGED <<dequeuePos, taken>>
    BY <1>5 DEF Deliver
  <2>2. dispatcher' \in D
    <3>1. << >> \in Seq(Content) /\ 1 \in Sink
      BY <1>0, <2>0 DEF Sink
    <3>2. s # NumSinks => s + 1 \in Sink
      <4>1. s \in Sink /\ NumSinks \in Nat
        BY <1>0, <2>0
      <4> HIDE DEF s
      <4> QED  BY <4>1 DEF Sink
    <3>3. CASE s = NumSinks
      BY <1>5, <3>1, <3>3 DEF Deliver, NextSink, Polling
    <3>4. CASE s # NumSinks
      BY <1>0, <1>5, <3>2, <3>4 DEF Deliver, NextSink
    <3> QED  BY <3>3, <3>4
  <2>3. inbox' \in [Sink -> Seq(Seq(Content))] /\ \A r \in Sink : Len(inbox'[r]) <= MaxBatches
    <3>1. CASE part = << >>
      BY <1>0, <1>5, <3>1 DEF Deliver
    <3>2. CASE part # << >>
      <4>1. Len(inbox[s]) < MaxBatches /\ inbox' = [inbox EXCEPT ![s] = Append(inbox[s], part)]
        BY <1>5, <3>2 DEF Deliver, Push
      <4>2. inbox[s] \in Seq(Seq(Content)) /\ MaxBatches \in Nat
        BY <1>0, <2>0, SizeAssumption
      <4> HIDE DEF s, part
      <4>3. /\ Append(inbox[s], part) \in Seq(Seq(Content))
            /\ Len(Append(inbox[s], part)) <= MaxBatches
        BY <2>0, <4>1, <4>2
      <4> QED  BY <1>0, <2>0, <4>1, <4>3
    <3> QED  BY <3>1, <3>2
  <2> QED  BY <1>0, <1>1, <1>2, <2>1, <2>2, <2>3, BackTypes
<1>6. CASE DispatcherExits
  <2>1. UNCHANGED <<dequeuePos, inbox, taken>> /\ dispatcher' = [dispatcher EXCEPT !.step = "exited"]
    BY <1>6 DEF DispatcherExits
  <2>2. dispatcher' \in D
    BY <1>0, <2>1
  <2> QED  BY <1>0, <1>1, <1>2, <2>1, <2>2, BackTypes
<1> QED  BY <1>3, <1>4, <1>5, <1>6 DEF Dispatching

LEMMA WriterTypes ==
  ASSUME Types, NEW s \in Sink, Writing(s) PROVE Types'
<1> DEFINE W == [step : {"loop", "write", "exited", "joined"}, batch : Seq(Content)]
<1>0. /\ publishedHead \in Nat /\ dequeuePos \in Nat /\ dequeuePos <= publishedHead
      /\ taken \in Seq(Content)
      /\ dispatcher \in [step : {"poll", "copy", "deliver", "exited"}, batch : Seq(Content),
                         count : Nat, sink : Sink]
      /\ writing \in [Sink -> BOOLEAN] /\ inbox \in [Sink -> Seq(Seq(Content))]
      /\ writer \in [Sink -> W]
      /\ written \in [Sink -> Seq(Content)] /\ main \in DOMAIN ShutdownOrder
      /\ \A r \in Sink : Len(inbox[r]) <= MaxBatches
  BY DEF Types, TypeOK
<1>1. /\ UNCHANGED <<front, dequeuePos, slots, dispatcher, writing, main, taken>>
      /\ dispatching' = dispatching
  BY DEF Writing, WriterTakes, WriterWrites, WriterExits
<1>2. dispatching' \in BOOLEAN
  <2>1. dispatching \in BOOLEAN
    BY DEF Types
  <2> QED  BY <1>1, <2>1, Zenon
<1>3. << >> \in Seq(Content)
  OBVIOUS
<1>4. CASE WriterTakes(s)
  <2>1. /\ inbox[s] # << >> /\ inbox' = [inbox EXCEPT ![s] = Tail(inbox[s])]
        /\ writer' = [writer EXCEPT ![s] = [step |-> "write", batch |-> Head(inbox[s])]]
        /\ written' = written
    BY <1>4 DEF WriterTakes
  <2>2. inbox[s] \in Seq(Seq(Content)) /\ Len(inbox[s]) <= MaxBatches
    BY <1>0
  <2>3. /\ Tail(inbox[s]) \in Seq(Seq(Content)) /\ Head(inbox[s]) \in Seq(Content)
        /\ Len(Tail(inbox[s])) <= MaxBatches
    BY <2>1, <2>2, SizeAssumption
  <2>4. writer' \in [Sink -> W]
    BY <1>0, <2>1, <2>3
  <2>5. inbox' \in [Sink -> Seq(Seq(Content))] /\ \A r \in Sink : Len(inbox'[r]) <= MaxBatches
    BY <1>0, <2>1, <2>3
  <2> QED  BY <1>0, <1>1, <1>2, <2>1, <2>4, <2>5, BackTypes
<1>5. CASE WriterWrites(s)
  <2>1. /\ inbox' = inbox /\ written' = [written EXCEPT ![s] = written[s] \o writer[s].batch]
        /\ writer' = [writer EXCEPT ![s] = [step |-> "loop", batch |-> << >>]]
    BY <1>5 DEF WriterWrites
  <2>2. written[s] \in Seq(Content) /\ writer[s].batch \in Seq(Content)
    BY <1>0
  <2>3. written[s] \o writer[s].batch \in Seq(Content)
    BY <2>2
  <2>4. writer' \in [Sink -> W] /\ written' \in [Sink -> Seq(Content)]
    BY <1>0, <1>3, <2>1, <2>3
  <2> QED  BY <1>0, <1>1, <1>2, <2>1, <2>4, BackTypes
<1>6. CASE WriterExits(s)
  <2>1. /\ inbox' = inbox /\ written' = written
        /\ writer' = [writer EXCEPT ![s] = [writer[s] EXCEPT !.step = "exited"]]
    BY <1>6 DEF WriterExits
  <2>2. [writer[s] EXCEPT !.step = "exited"] \in W
    BY <1>0
  <2>3. writer' \in [Sink -> W]
    BY <1>0, <2>1, <2>2
  <2> QED  BY <1>0, <1>1, <1>2, <2>1, <2>3, BackTypes
<1> QED  BY <1>4, <1>5, <1>6 DEF Writing

\* The stages of Shutdown by number.
LEMMA Stages ==
  /\ DOMAIN ShutdownOrder = 1 .. 5
  /\ main \in DOMAIN ShutdownOrder =>
       /\ Stage = "up" <=> main = 1
       /\ Stage = "dispatcher" <=> main = 2
       /\ Stage = "writers" <=> main = 3
       /\ Stage = "close" <=> main = 4
       /\ Stage = "down" <=> main = 5
BY DEF ShutdownOrder, Stage

LEMMA MainTypes ==
  ASSUME Types, BeginShutdown \/ ShuttingDown PROVE Types'
<1> DEFINE W == [step : {"loop", "write", "exited", "joined"}, batch : Seq(Content)]
<1>0. /\ publishedHead \in Nat /\ dequeuePos \in Nat /\ dequeuePos <= publishedHead
      /\ taken \in Seq(Content)
      /\ dispatcher \in [step : {"poll", "copy", "deliver", "exited"}, batch : Seq(Content),
                         count : Nat, sink : Sink]
      /\ writing \in [Sink -> BOOLEAN] /\ inbox \in [Sink -> Seq(Seq(Content))]
      /\ writer \in [Sink -> W]
      /\ written \in [Sink -> Seq(Content)] /\ main \in 1 .. 5
      /\ \A r \in Sink : Len(inbox[r]) <= MaxBatches
  BY Stages DEF Types, TypeOK
<1>1. UNCHANGED <<front, dequeuePos, slots, dispatcher, taken>>
  BY DEF BeginShutdown, ShuttingDown, StopDispatcher, JoinDispatcher, CloseSinks, StopWriter,
         JoinWriter
<1>2. ASSUME dispatching' = dispatching PROVE dispatching' \in BOOLEAN
  <2>1. dispatching \in BOOLEAN
    BY DEF Types
  <2> QED  BY <1>2, <2>1, Zenon
<1>3. CASE BeginShutdown \/ JoinDispatcher \/ CloseSinks
  <2>1. UNCHANGED <<writing, writer, inbox, written>> /\ dispatching' = dispatching
    BY <1>3 DEF BeginShutdown, JoinDispatcher, CloseSinks
  <2>2. main' = main + 1 /\ main \in 1 .. 4
    BY <1>0, <1>3, Stages DEF BeginShutdown, JoinDispatcher, CloseSinks
  <2>3. main' \in DOMAIN ShutdownOrder
    BY <2>2, Stages
  <2> QED  BY <1>0, <1>1, <1>2, <2>1, <2>3, BackTypes
<1>4. CASE StopDispatcher
  <2>1. UNCHANGED <<writing, writer, inbox, written, main>> /\ dispatching' \in BOOLEAN
    BY <1>4 DEF StopDispatcher
  <2> QED  BY <1>0, <1>1, <2>1, BackTypes, Stages
<1>5. ASSUME NEW s \in Sink, StopWriter(s) PROVE Types'
  <2>1. UNCHANGED <<writer, inbox, written, main>> /\ dispatching' = dispatching
    BY <1>5 DEF StopWriter
  <2>2. writing' \in [Sink -> BOOLEAN]
    BY <1>0, <1>5 DEF StopWriter
  <2> QED  BY <1>0, <1>1, <1>2, <2>1, <2>2, BackTypes, Stages
<1>6. ASSUME NEW s \in Sink, JoinWriter(s) PROVE Types'
  <2>1. /\ writing' = writing /\ dispatching' = dispatching
        /\ inbox' = [inbox EXCEPT ![s] = << >>]
        /\ written' = [written EXCEPT ![s] = written[s] \o FlattenSeq(inbox[s])]
        /\ writer' = [writer EXCEPT ![s] = [writer[s] EXCEPT !.step = "joined"]]
    BY <1>6 DEF JoinWriter
  <2>2. written[s] \in Seq(Content) /\ inbox[s] \in Seq(Seq(Content)) /\ writer[s] \in W
    BY <1>0
  <2>3. FlattenSeq(inbox[s]) \in Seq(Content)
    BY <2>2, FlattenTyped
  <2>4. written' \in [Sink -> Seq(Content)]
    <3>1. written[s] \o FlattenSeq(inbox[s]) \in Seq(Content)
      BY <2>2, <2>3
    <3> QED  BY <1>0, <2>1, <3>1
  <2>5. writer' \in [Sink -> W]
    <3>1. [writer[s] EXCEPT !.step = "joined"] \in W
      BY <2>2
    <3> QED  BY <1>0, <2>1, <3>1
  <2>6. inbox' \in [Sink -> Seq(Seq(Content))] /\ \A r \in Sink : Len(inbox'[r]) <= MaxBatches
    <3>1. << >> \in Seq(Seq(Content)) /\ Len(<< >>) <= MaxBatches
      BY SizeAssumption
    <3> QED  BY <1>0, <2>1, <3>1
  <2>7. main' \in DOMAIN ShutdownOrder
    <3>1. main = 3
      BY <1>0, <1>6, Stages DEF JoinWriter
    <3>2. main' = main \/ main' = main + 1
      BY <1>6 DEF JoinWriter
    <3> QED  BY <3>1, <3>2, Stages
  <2> QED  BY <1>0, <1>1, <1>2, <2>1, <2>4, <2>5, <2>6, <2>7, BackTypes
<1> QED  BY <1>3, <1>4, <1>5, <1>6 DEF ShuttingDown

-----------------------------------------------------------------------------
(* What the steps of each thread leave alone. *)

LEMMA ProducerLeaves ==
  ASSUME NEW p, WriteV(p) \/ Producing(p)
  PROVE  /\ UNCHANGED <<dequeuePos, dispatching, dispatcher, writing, writer>>
         /\ UNCHANGED <<inbox, main, written, taken>>
BY DEF WriteV, Producing, Check, Claim, ClaimFails, BeginWrite, EndWrite, Publish, ring, back

LEMMA DispatcherLeaves ==
  ASSUME Dispatching
  PROVE  UNCHANGED <<calls, enqueuePos, publishedHead, producer, claims, overlapped, slots,
                     dispatching, writing, writer, main, written>>
BY DEF Dispatching, Poll, Copy, Deliver, DispatcherExits, front

LEMMA WriterLeaves ==
  ASSUME NEW s, Writing(s)
  PROVE  UNCHANGED <<calls, enqueuePos, publishedHead, dequeuePos, producer, claims, overlapped,
                     slots, dispatching, dispatcher, writing, main, taken>>
BY DEF Writing, WriterTakes, WriterWrites, WriterExits, front

LEMMA MainLeaves ==
  ASSUME BeginShutdown \/ ShuttingDown
  PROVE  UNCHANGED <<calls, enqueuePos, publishedHead, dequeuePos, producer, claims, overlapped,
                     slots, dispatcher, taken>>
BY DEF BeginShutdown, ShuttingDown, StopDispatcher, JoinDispatcher, CloseSinks, StopWriter,
       JoinWriter, front

-----------------------------------------------------------------------------
(* The ring. *)

\* What a producer's step leaves in the records of the others.
LEMMA OthersKeep ==
  ASSUME Types, NEW p \in Producer, WriteV(p) \/ Producing(p)
  PROVE  /\ producer'[p].step # producer[p].step
         /\ \A q \in Producer : q # p =>
              /\ producer'[q].step = producer[q].step
              /\ Inside(q) => /\ producer'[q].cur = producer[q].cur
                              /\ producer'[q].tail = producer[q].tail
                              /\ producer'[q].record = producer[q].record
              /\ ~ BeginWrite(p) => producer'[q] = producer[q]
<1>0. producer \in [Producer -> [step : {"idle"}] \cup Logging]
  BY DEF Types
<1>1. CASE WriteV(p)
  BY <1>0, <1>1 DEF WriteV, At
<1>2. CASE Check(p)
  <2>1. CASE Full(p)
    <3>1. producer[p].step = "check" /\ producer' = [producer EXCEPT ![p] = Idle]
      BY <1>2, <2>1 DEF Check, At
    <3> QED  BY <1>0, <1>2, <3>1 DEF Idle
  <2>2. CASE ~ Full(p)
    <3>1. producer[p].step = "check" /\ GoTo(p, "claim") /\ Inside(p)
      BY <1>2, <2>2 DEF Check, At, Inside
    <3>2. producer[p] \in Logging
      BY <3>1, InsideTyped
    <3> QED  BY <1>0, <1>2, <3>1, <3>2 DEF GoTo, Logging
  <2> QED  BY <2>1, <2>2
<1>3. CASE Claim(p)
  BY <1>0, <1>3 DEF Claim, At, GoTo
<1>4. CASE ClaimFails(p)
  BY <1>0, <1>4 DEF ClaimFails, At
<1>5. CASE BeginWrite(p)
  <2> DEFINE others == WritersOf(IndexOf(producer[p].cur))
  <2>1. producer' = [q \in Producer |->
         IF q = p THEN [producer[p] EXCEPT !.step = "copy", !.mixed = others # {}]
         ELSE IF q \in others THEN [producer[q] EXCEPT !.mixed = TRUE]
         ELSE producer[q]]
    BY <1>5 DEF BeginWrite
  <2>2. producer[p].step = "write" /\ Inside(p)
    BY <1>5 DEF BeginWrite, At, Inside
  <2>3. producer[p] \in Logging /\ \A q \in others : q \in Producer /\ producer[q] \in Logging
    BY <2>2, InsideTyped DEF WritersOf, Inside, At
  <2> HIDE DEF others
  <2>4. producer'[p].step = "copy"
    BY <2>1, <2>3 DEF Logging
  <2>5. ASSUME NEW q \in Producer, q # p
        PROVE  /\ producer'[q].step = producer[q].step
               /\ Inside(q) => /\ producer'[q].cur = producer[q].cur
                               /\ producer'[q].tail = producer[q].tail
                               /\ producer'[q].record = producer[q].record
    <3>1. CASE q \in others
      <4>1. producer'[q] = [producer[q] EXCEPT !.mixed = TRUE] /\ producer[q] \in Logging
        BY <2>1, <2>3, <2>5, <3>1
      <4> QED  BY <4>1 DEF Logging
    <3>2. CASE q \notin others
      BY <2>1, <2>5, <3>2
    <3> QED  BY <3>1, <3>2
  <2> QED  BY <1>5, <2>2, <2>4, <2>5
<1>6. CASE EndWrite(p)
  BY <1>0, <1>6 DEF EndWrite, At, GoTo
<1>7. CASE Publish(p)
  BY <1>0, <1>7 DEF Publish, At, Idle
<1> QED  BY <1>1, <1>2, <1>3, <1>4, <1>5, <1>6, <1>7 DEF Producing

\* The thread goes from one step to another and keeps what it knows.
Advances(p, from, to) ==
    /\ producer[p].step = from /\ producer'[p].step = to
    /\ producer[p] \in Logging /\ producer'[p] \in Logging
    /\ producer'[p].cur = producer[p].cur /\ producer'[p].tail = producer[p].tail
    /\ producer'[p].record = producer[p].record

\* What its step leaves in the record of the thread that takes it.
LEMMA OwnStep ==
  ASSUME Types, NEW p \in Producer
  PROVE  /\ WriteV(p) => /\ producer[p].step = "idle" /\ producer'[p].step = "check"
                         /\ producer'[p].cur = enqueuePos /\ producer'[p].tail = dequeuePos
         /\ Check(p) => \/ producer[p].step = "check" /\ producer'[p].step = "idle"
                        \/ Advances(p, "check", "claim") /\ ~ Full(p)
         /\ Claim(p) => Advances(p, "claim", "write")
         /\ ClaimFails(p) => /\ producer[p].step = "claim" /\ producer'[p].step = "check"
                             /\ producer'[p].cur = enqueuePos /\ producer'[p].tail = dequeuePos
         /\ BeginWrite(p) =>
              /\ Advances(p, "write", "copy")
              /\ producer'[p].mixed = (WritersOf(IndexOf(producer[p].cur)) # {})
         /\ EndWrite(p) => Advances(p, "copy", "publish") /\ producer'[p].mixed = producer[p].mixed
         /\ Publish(p) => producer[p].step = "publish" /\ producer'[p].step = "idle"
<1>0. producer \in [Producer -> [step : {"idle"}] \cup Logging]
  BY DEF Types
<1>1. ASSUME NEW from, NEW to \in {"check", "claim", "write", "copy", "publish"},
             producer[p].step = from, from # "idle", GoTo(p, to)
      PROVE  Advances(p, from, to) /\ producer'[p].mixed = producer[p].mixed
  <2>1. producer[p] \in Logging
    BY <1>1, InsideTyped DEF Inside, At
  <2>2. producer'[p] = [producer[p] EXCEPT !.step = to]
    BY <1>0, <1>1 DEF GoTo
  <2> QED  BY <1>1, <2>1, <2>2 DEF Advances, Logging
<1>2. ASSUME WriteV(p)
      PROVE  /\ producer[p].step = "idle" /\ producer'[p].step = "check"
             /\ producer'[p].cur = enqueuePos /\ producer'[p].tail = dequeuePos
  BY <1>0, <1>2 DEF WriteV, At
<1>3. ASSUME Check(p)
      PROVE  \/ producer[p].step = "check" /\ producer'[p].step = "idle"
             \/ Advances(p, "check", "claim") /\ ~ Full(p)
  <2>1. producer[p].step = "check"
    BY <1>3 DEF Check, At
  <2>2. CASE Full(p)
    <3>1. producer' = [producer EXCEPT ![p] = Idle]
      BY <1>3, <2>2 DEF Check
    <3> QED  BY <1>0, <2>1, <3>1 DEF Idle
  <2>3. CASE ~ Full(p)
    BY <1>1, <1>3, <2>1, <2>3 DEF Check
  <2> QED  BY <2>2, <2>3
<1>4. ASSUME Claim(p) PROVE Advances(p, "claim", "write")
  BY <1>1, <1>4 DEF Claim, At
<1>5. ASSUME ClaimFails(p)
      PROVE  /\ producer[p].step = "claim" /\ producer'[p].step = "check"
             /\ producer'[p].cur = enqueuePos /\ producer'[p].tail = dequeuePos
  <2>1. producer[p].step = "claim" /\ Inside(p)
    BY <1>5 DEF ClaimFails, At, Inside
  <2>2. producer[p] \in Logging
    BY <2>1, InsideTyped
  <2>3. producer'[p] = [producer[p] EXCEPT !.step = "check", !.cur = enqueuePos,
                                           !.tail = dequeuePos]
    BY <1>0, <1>5 DEF ClaimFails
  <2> QED  BY <2>1, <2>2, <2>3 DEF Logging
<1>6. ASSUME BeginWrite(p)
      PROVE  /\ Advances(p, "write", "copy")
             /\ producer'[p].mixed = (WritersOf(IndexOf(producer[p].cur)) # {})
  <2>1. producer[p].step = "write" /\ Inside(p)
    BY <1>6 DEF BeginWrite, At, Inside
  <2>2. producer[p] \in Logging
    BY <2>1, InsideTyped
  <2> DEFINE m == (WritersOf(IndexOf(producer[p].cur)) # {})
  <2>3. producer'[p] = [producer[p] EXCEPT !.step = "copy", !.mixed = m]
    BY <1>6 DEF BeginWrite
  <2>4. m \in BOOLEAN
    OBVIOUS
  <2> HIDE DEF m
  <2>5. producer'[p].mixed = m
    BY <2>2, <2>3 DEF Logging
  <2>6. producer'[p] \in Logging
    BY <2>2, <2>3, <2>4 DEF Logging
  <2>7. /\ producer'[p].step = "copy" /\ producer'[p].cur = producer[p].cur
        /\ producer'[p].tail = producer[p].tail /\ producer'[p].record = producer[p].record
    BY <2>2, <2>3 DEF Logging
  <2>8. Advances(p, "write", "copy")
    BY <2>1, <2>2, <2>6, <2>7 DEF Advances
  <2> QED  BY <2>5, <2>8 DEF m
<1>7. ASSUME EndWrite(p)
      PROVE  Advances(p, "copy", "publish") /\ producer'[p].mixed = producer[p].mixed
  BY <1>1, <1>7 DEF EndWrite, At
<1>8. ASSUME Publish(p) PROVE producer[p].step = "publish" /\ producer'[p].step = "idle"
  BY <1>0, <1>8 DEF Publish, At, Idle
<1> QED  BY <1>2, <1>3, <1>4, <1>5, <1>6, <1>7, <1>8

\* The positions after a step of a producer.
LEMMA PositionsMove ==
  ASSUME Types, RingSound, NEW p \in Producer, WriteV(p) \/ Producing(p)
  PROVE  /\ enqueuePos' = enqueuePos + (IF Claim(p) THEN 1 ELSE 0)
         /\ Claim(p) => producer[p].cur = enqueuePos
         /\ ~ Publish(p) => publishedHead' = publishedHead
         /\ Publish(p) => /\ producer[p].cur \in Nat
                          /\ publishedHead' >= producer[p].cur + 1
                          /\ publishedHead' \in {publishedHead, producer[p].cur + 1}
         /\ publishedHead' >= publishedHead /\ publishedHead' \in Nat
<1>0. enqueuePos \in Nat /\ publishedHead \in Nat
  BY DEF Types
<1>1. /\ ~ Publish(p) => publishedHead' = publishedHead
      /\ ~ Claim(p) => enqueuePos' = enqueuePos
      /\ Claim(p) => enqueuePos' = enqueuePos + 1 /\ producer[p].cur = enqueuePos
  BY DEF WriteV, Producing, Check, Claim, ClaimFails, BeginWrite, EndWrite, Publish, ring
<1>2. ASSUME Publish(p)
      PROVE  /\ producer[p].cur \in Nat
             /\ publishedHead' >= producer[p].cur + 1 /\ publishedHead' >= publishedHead
             /\ publishedHead' \in {publishedHead, producer[p].cur + 1} /\ publishedHead' \in Nat
  <2>1. producer[p].step = "publish" /\ Inside(p)
    BY <1>2 DEF Publish, At, Inside
  <2>2. producer[p].cur \in Nat
    BY <2>1, InsideTyped DEF Logging
  <2> QED  BY <1>0, <1>2, <2>2 DEF Publish, RaisePublished
<1>3. enqueuePos' = enqueuePos + (IF Claim(p) THEN 1 ELSE 0)
  BY <1>0, <1>1
<1> QED  BY <1>0, <1>1, <1>2, <1>3

LEMMA RingSoundKeep ==
  ASSUME Types, RingSound, NEW p \in Producer, WriteV(p) \/ Producing(p)
  PROVE  RingSound'
<1>0. enqueuePos \in Nat /\ publishedHead \in Nat /\ dequeuePos \in Nat /\ dequeuePos' = dequeuePos
  BY ProducerLeaves DEF Types
<1>1. ASSUME NEW q \in Producer, Inside(q) PROVE producer[q].cur \in Nat /\ producer[q].tail \in Nat
  BY <1>1, InsideTyped DEF Logging
<1>2. ASSUME NEW q \in Producer, Claimed(q)' PROVE producer'[q].cur < enqueuePos'
  <2>1. CASE q # p
    <3>1. Claimed(q) /\ Inside(q)
      BY <1>2, <2>1, OthersKeep DEF Claimed, Inside, At
    <3>2. producer'[q].cur = producer[q].cur /\ producer[q].cur < enqueuePos
      BY <2>1, <3>1, OthersKeep DEF RingSound
    <3> QED  BY <1>0, <1>1, <3>1, <3>2, PositionsMove
  <2>2. CASE q = p
    <3>1. Claim(p) \/ BeginWrite(p) \/ EndWrite(p)
      BY <1>2, <2>2, OwnStep DEF Claimed, Producing, Advances
    <3>2. producer'[p].cur = producer[p].cur /\ producer[p].cur \in Nat
      BY <3>1, OwnStep DEF Advances, Logging
    <3>3. CASE Claim(p)
      BY <1>0, <2>2, <3>2, <3>3, PositionsMove
    <3>4. CASE BeginWrite(p) \/ EndWrite(p)
      <4>1. Claimed(p)
        BY <3>4 DEF BeginWrite, EndWrite, At, Claimed
      <4>2. producer[p].cur < enqueuePos
        BY <4>1 DEF RingSound
      <4> QED  BY <1>0, <2>2, <3>2, <4>2, PositionsMove
    <3> QED  BY <3>1, <3>3, <3>4
  <2> QED  BY <2>1, <2>2
<1>3. ASSUME NEW pos \in Nat, publishedHead' <= pos, pos < enqueuePos'
      PROVE  \E q \in Producer : Claimed(q)' /\ producer'[q].cur = pos
  <2>1. CASE pos = enqueuePos
    <3>1. Claim(p)
      BY <1>0, <1>3, <2>1, PositionsMove
    <3>2. Claimed(p)' /\ producer'[p].cur = pos
      BY <2>1, <3>1, OwnStep, PositionsMove DEF Advances, Claimed
    <3> QED  BY <3>2
  <2>2. CASE pos # enqueuePos
    <3>1. publishedHead <= pos /\ pos < enqueuePos
      BY <1>0, <1>3, <2>2, PositionsMove
    <3>2. PICK q \in Producer : Claimed(q) /\ producer[q].cur = pos
      BY <3>1 DEF RingSound
    <3>3. Claimed(q)' /\ producer'[q].cur = pos
      <4>1. CASE q # p
        BY <3>2, <4>1, OthersKeep DEF Claimed, Inside, At
      <4>2. CASE q = p
        <5>1. ~ Publish(p)
          BY <1>0, <1>3, <3>2, <4>2, PositionsMove
        <5>2. BeginWrite(p) \/ EndWrite(p)
          BY <3>2, <4>2, <5>1, OwnStep DEF Claimed, Producing, Advances
        <5> QED  BY <3>2, <4>2, <5>2, OwnStep DEF Claimed, Advances
      <4> QED  BY <4>1, <4>2
    <3> QED  BY <3>3
  <2> QED  BY <2>1, <2>2
<1>4. ASSUME NEW q \in Producer, Inside(q)' PROVE producer'[q].tail <= dequeuePos'
  <2>1. CASE q # p
    <3>1. Inside(q)
      BY <1>4, <2>1, OthersKeep DEF Inside, At
    <3> QED  BY <1>0, <2>1, <3>1, OthersKeep DEF RingSound
  <2>2. CASE q = p
    <3>1. CASE WriteV(p) \/ ClaimFails(p)
      BY <1>0, <2>2, <3>1, OwnStep
    <3>2. CASE Check(p) \/ Claim(p) \/ BeginWrite(p) \/ EndWrite(p)
      <4>1. Inside(p) /\ producer'[p].tail = producer[p].tail
        BY <1>4, <2>2, <3>2, OwnStep DEF Advances, Inside, At
      <4> QED  BY <1>0, <2>2, <4>1 DEF RingSound
    <3>3. CASE Publish(p)
      BY <1>4, <2>2, <3>3, OwnStep DEF Inside, At
    <3> QED  BY <3>1, <3>2, <3>3 DEF Producing
  <2> QED  BY <2>1, <2>2
<1> QED  BY <1>2, <1>3, <1>4 DEF RingSound

\* A step of the dispatcher only lets the slots go.
LEMMA DequeueMoves ==
  ASSUME Types, BatchSound, Dispatching
  PROVE  dequeuePos' \in Nat /\ dequeuePos <= dequeuePos'
<1>0. dequeuePos \in Nat /\ dispatcher.count \in Nat
  BY DEF Types
<1>1. dequeuePos' = dequeuePos \/ dequeuePos' = dequeuePos + dispatcher.count
  BY DEF Dispatching, Poll, Copy, Deliver, DispatcherExits
<1> QED  BY <1>0, <1>1

LEMMA RingSoundDequeue ==
  ASSUME Types, RingSound, dequeuePos' \in Nat, dequeuePos <= dequeuePos',
         UNCHANGED <<producer, enqueuePos, publishedHead>>
  PROVE  RingSound'
<1>1. ASSUME NEW q \in Producer, Inside(q) PROVE producer[q].tail <= dequeuePos'
  <2>1. producer[q].tail <= dequeuePos /\ producer[q].tail \in Nat /\ dequeuePos \in Nat
    BY <1>1, InsideTyped DEF RingSound, Types, Logging
  <2> QED  BY <2>1
<1> QED  BY <1>1 DEF RingSound, Claimed, Inside, At

-----------------------------------------------------------------------------
(* The dispatcher's batch. *)

\* What a step of the dispatcher's Copy does.
LEMMA CopyStep ==
  ASSUME Types, BatchSound, Copy
  PROVE  \E c \in Readable(IndexOf(dequeuePos + Len(dispatcher.batch))) :
           /\ c \in Content /\ taken' = Append(taken, c) /\ inbox' = inbox
           /\ dispatcher.step = "copy" /\ dispatcher.sink = 1 /\ dispatcher'.sink = 1
           /\ dispatcher'.batch = Append(dispatcher.batch, c)
           /\ dispatcher'.count = dispatcher.count
           /\ \/ /\ dispatcher'.step = "copy" /\ dequeuePos' = dequeuePos
                 /\ Len(dispatcher'.batch) < dispatcher.count
              \/ /\ dispatcher'.step = "deliver" /\ dequeuePos' = dequeuePos + dispatcher.count
                 /\ Len(dispatcher.batch) + 1 = dispatcher.count
<1> DEFINE b == dispatcher.batch
           k == dispatcher.count
<1>1. /\ dequeuePos \in Nat /\ b \in Seq(Content) /\ Len(b) \in Nat /\ k \in Nat
      /\ dispatcher \in [step : {"poll", "copy", "deliver", "exited"}, batch : Seq(Content),
                         count : Nat, sink : Sink]
  BY DEF Types
<1>2. dispatcher.step = "copy" /\ inbox' = inbox /\ dispatcher.sink = 1 /\ Len(b) < k
  BY DEF Copy, BatchSound
<1>3. PICK c \in Readable(IndexOf(dequeuePos + Len(b))) :
          /\ taken' = Append(taken, c)
          /\ IF Len(Append(b, c)) < k
             THEN dispatcher' = [dispatcher EXCEPT !.batch = Append(b, c)] /\ UNCHANGED dequeuePos
             ELSE /\ dispatcher' = [dispatcher EXCEPT !.step = "deliver", !.batch = Append(b, c)]
                  /\ dequeuePos' = dequeuePos + k
  BY DEF Copy
<1>4. c \in Content
  BY <1>1, <1>3, IndexTyped, ReadableTyped
<1>5. Len(Append(b, c)) = Len(b) + 1
  BY <1>1, <1>4
<1>6. CASE Len(Append(b, c)) < k
  <2>1. dispatcher' = [dispatcher EXCEPT !.batch = Append(b, c)] /\ dequeuePos' = dequeuePos
    BY <1>3, <1>6
  <2>2. /\ dispatcher'.step = "copy" /\ dispatcher'.sink = 1 /\ dispatcher'.batch = Append(b, c)
        /\ dispatcher'.count = k
    BY <1>1, <1>2, <2>1
  <2> QED  BY <1>2, <1>3, <1>4, <1>6, <2>1, <2>2
<1>7. CASE ~ (Len(Append(b, c)) < k)
  <2>1. /\ dispatcher' = [dispatcher EXCEPT !.step = "deliver", !.batch = Append(b, c)]
        /\ dequeuePos' = dequeuePos + k
    BY <1>3, <1>7
  <2>2. /\ dispatcher'.step = "deliver" /\ dispatcher'.sink = 1
        /\ dispatcher'.batch = Append(b, c) /\ dispatcher'.count = k
    BY <1>1, <1>2, <2>1
  <2>3. Len(b) + 1 = k
    <3> HIDE DEF b, k
    <3> QED  BY <1>1, <1>2, <1>5, <1>7
  <2> QED  BY <1>2, <1>3, <1>4, <2>1, <2>2, <2>3
<1> QED  BY <1>6, <1>7

LEMMA BatchSoundKeep ==
  ASSUME Types, BatchSound, Dispatching PROVE BatchSound'
<1>0. /\ publishedHead \in Nat /\ dequeuePos \in Nat /\ taken \in Seq(Content)
      /\ dispatcher \in [step : {"poll", "copy", "deliver", "exited"}, batch : Seq(Content),
                         count : Nat, sink : Sink]
      /\ publishedHead' = publishedHead
  BY DispatcherLeaves DEF Types
<1>1. CASE Poll
  <2> DEFINE k == IF Available < BatchSize THEN Available ELSE BatchSize
  <2>1. /\ dequeuePos' = dequeuePos /\ taken' = taken /\ dispatcher.step = "poll"
        /\ dispatcher' = [dispatcher EXCEPT !.step = "copy", !.count = k]
    BY <1>1 DEF Poll
  <2>2. k \in Nat /\ 0 < k /\ dequeuePos + k <= publishedHead
    BY <1>0, <1>1, SizeAssumption DEF Poll, Available
  <2> HIDE DEF k
  <2>3. /\ dispatcher'.step = "copy" /\ dispatcher'.count = k /\ dispatcher'.batch = << >>
        /\ dispatcher'.sink = 1 /\ Len(taken) = dequeuePos
    BY <1>0, <2>1 DEF BatchSound
  <2>4. Len(<< >>) = 0
    OBVIOUS
  <2> QED  BY <1>0, <2>1, <2>2, <2>3, <2>4 DEF BatchSound
<1>2. CASE Copy
  <2>1. PICK c \in Content :
           /\ taken' = Append(taken, c)
           /\ dispatcher'.sink = 1 /\ dispatcher.step = "copy"
           /\ dispatcher'.batch = Append(dispatcher.batch, c)
           /\ dispatcher'.count = dispatcher.count
           /\ \/ /\ dispatcher'.step = "copy" /\ dequeuePos' = dequeuePos
                 /\ Len(dispatcher'.batch) < dispatcher.count
              \/ /\ dispatcher'.step = "deliver" /\ dequeuePos' = dequeuePos + dispatcher.count
                 /\ Len(dispatcher.batch) + 1 = dispatcher.count
    BY <1>2, CopyStep
  <2>2. dispatcher.batch \in Seq(Content) /\ dispatcher.count \in Nat
    BY <1>0
  <2>3. /\ Len(taken') = Len(taken) + 1 /\ Len(taken) = dequeuePos + Len(dispatcher.batch)
        /\ Len(dispatcher'.batch) = Len(dispatcher.batch) + 1
        /\ Len(dispatcher.batch) \in Nat /\ dequeuePos + dispatcher.count <= publishedHead
    BY <1>0, <2>1, <2>2 DEF BatchSound
  <2>4. CASE dispatcher'.step = "copy"
    <3>1. dequeuePos' = dequeuePos /\ Len(dispatcher'.batch) < dispatcher'.count
      BY <2>1, <2>4
    <3>2. Len(taken') = dequeuePos' + Len(dispatcher'.batch)
      BY <1>0, <2>3, <3>1
    <3>3. dequeuePos' + dispatcher'.count <= publishedHead'
      BY <1>0, <2>1, <2>3, <3>1
    <3> QED  BY <2>1, <2>4, <3>1, <3>2, <3>3 DEF BatchSound
  <2>5. CASE dispatcher'.step # "copy"
    <3>1. /\ dispatcher'.step = "deliver" /\ dequeuePos' = dequeuePos + dispatcher.count
          /\ Len(dispatcher.batch) + 1 = dispatcher.count
      BY <2>1, <2>5
    <3>2. Len(taken') = dequeuePos' + 0
      BY <1>0, <2>2, <2>3, <3>1
    <3> QED  BY <3>1, <3>2 DEF BatchSound
  <2> QED  BY <2>4, <2>5
<1>3. CASE Deliver
  <2>1. dequeuePos' = dequeuePos /\ taken' = taken /\ NextSink /\ dispatcher.step = "deliver"
    BY <1>3 DEF Deliver
  <2>2. \/ dispatcher'.step = "poll" /\ dispatcher'.batch = << >> /\ dispatcher'.sink = 1
        \/ dispatcher'.step = "deliver"
    BY <1>0, <2>1 DEF NextSink, Polling
  <2> QED  BY <2>1, <2>2 DEF BatchSound
<1>4. CASE DispatcherExits
  <2>1. /\ dequeuePos' = dequeuePos /\ taken' = taken /\ dispatcher.step = "poll"
        /\ dispatcher' = [dispatcher EXCEPT !.step = "exited"]
    BY <1>4 DEF DispatcherExits
  <2>2. /\ dispatcher'.step = "exited" /\ dispatcher'.batch = dispatcher.batch
        /\ dispatcher'.sink = dispatcher.sink
    BY <1>0, <2>1
  <2> QED  BY <2>1, <2>2 DEF BatchSound
<1> QED  BY <1>1, <1>2, <1>3, <1>4 DEF Dispatching

\* A producer can only publish more.
LEMMA BatchSoundPublish ==
  ASSUME Types, BatchSound, UNCHANGED <<dispatcher, dequeuePos, taken>>,
         publishedHead' \in Nat, publishedHead <= publishedHead'
  PROVE  BatchSound'
<1>1. /\ publishedHead \in Nat /\ dequeuePos \in Nat /\ dispatcher.count \in Nat
  BY DEF Types
<1> QED  BY <1>1 DEF BatchSound

-----------------------------------------------------------------------------
(* Calls that take turns. *)

\* Nothing is taken that was not published.
LEMMA TakenBound ==
  ASSUME Types, BatchSound
  PROVE  /\ Len(taken) \in Nat /\ DOMAIN taken = 1 .. Len(taken) /\ Len(taken) <= publishedHead
         /\ publishedHead <= Len(claims) /\ Len(claims) \in Nat
<1>1. /\ taken \in Seq(Content) /\ claims \in Seq(Record) /\ dispatcher.batch \in Seq(Content)
      /\ dispatcher.count \in Nat /\ dequeuePos \in Nat /\ publishedHead \in Nat
      /\ dequeuePos <= publishedHead /\ publishedHead <= enqueuePos /\ enqueuePos = Len(claims)
  BY DEF Types, TypeOK
<1>2. Len(dispatcher.batch) \in Nat
  BY <1>1
<1>3. CASE dispatcher.step = "copy"
  <2>1. /\ Len(dispatcher.batch) < dispatcher.count
        /\ dequeuePos + dispatcher.count <= publishedHead
        /\ Len(taken) = dequeuePos + Len(dispatcher.batch)
    BY <1>3 DEF BatchSound
  <2> QED  BY <1>1, <1>2, <2>1
<1>4. CASE dispatcher.step # "copy"
  <2>1. Len(taken) = dequeuePos + 0
    BY <1>4 DEF BatchSound
  <2> QED  BY <1>1, <2>1
<1> QED  BY <1>3, <1>4

\* A claim keeps the record of every earlier position.
LEMMA ClaimKeeps ==
  ASSUME Types, NEW p \in Producer, WriteV(p) \/ Producing(p)
  PROVE  /\ \A i \in 1 .. Len(claims) : claims'[i] = claims[i]
         /\ Claim(p) => claims'[enqueuePos'] = producer[p].record
         /\ ~ Claim(p) => claims' = claims
<1>1. claims \in Seq(Record) /\ enqueuePos = Len(claims)
  BY DEF Types, TypeOK
<1>2. CASE Claim(p)
  <2>1. claims' = Append(claims, producer[p].record) /\ enqueuePos' = enqueuePos + 1
    BY <1>2 DEF Claim
  <2>2. producer[p].record \in Record
    BY <1>2, OwnStep DEF Advances, Logging
  <2> QED  BY <1>1, <1>2, <2>1, <2>2
<1>3. CASE ~ Claim(p)
  <2>1. claims' = claims
    BY <1>3 DEF WriteV, Producing, Check, ClaimFails, BeginWrite, EndWrite, Publish
  <2> QED  BY <1>3, <2>1
<1> QED  BY <1>2, <1>3

\* When no thread has claimed a position, all that is claimed is published.
LEMMA AllPublished ==
  ASSUME Types, RingSound, \A q \in Producer : ~ Claimed(q)
  PROVE  publishedHead = enqueuePos
<1>1. publishedHead \in Nat /\ enqueuePos \in Nat /\ publishedHead <= enqueuePos
  BY DEF Types, TypeOK
<1>2. ~ (publishedHead < enqueuePos)
  BY <1>1 DEF RingSound
<1> QED  BY <1>1, <1>2

LEMMA TurnsSoundKeep ==
  ASSUME Types, RingSound, BatchSound, TurnsSound, NEW p \in Producer, WriteV(p) \/ Producing(p)
  PROVE  TurnsSound'
<1> SUFFICES ASSUME ~ overlapped' PROVE TurnsSound'
  BY DEF TurnsSound
<1>0. /\ enqueuePos \in Nat /\ publishedHead \in Nat /\ dequeuePos \in Nat
      /\ dequeuePos <= publishedHead /\ publishedHead <= enqueuePos /\ enqueuePos = Len(claims)
      /\ slots \in [0 .. Capacity - 1 -> Content] /\ Capacity \in Nat
  BY SizeAssumption DEF Types, TypeOK
<1>1. ~ overlapped /\ (WriteV(p) => \A q \in Producer : ~ Inside(q))
  <2>1. CASE WriteV(p)
    <3>1. overlapped' = (overlapped \/ \E q \in Producer : Inside(q))
      BY <2>1 DEF WriteV
    <3> QED  BY <3>1
  <2>2. CASE Producing(p)
    <3>1. overlapped' = overlapped /\ ~ WriteV(p)
      BY <2>2 DEF WriteV, Producing, Check, Claim, ClaimFails, BeginWrite, EndWrite, Publish, At
    <3> QED  BY <3>1, Zenon
  <2> QED  BY <2>1, <2>2
<1>2. ASSUME NEW q \in Producer, Inside(q) PROVE Producing(p) /\ q = p
  <2>1. Producing(p) /\ Inside(p)
    BY <1>1, <1>2 DEF Producing, Check, Claim, ClaimFails, BeginWrite, EndWrite, Publish,
                      Inside, At
  <2> QED  BY <1>1, <1>2, <2>1 DEF TurnsSound
<1>3. ASSUME NEW q \in Producer, Inside(q)' PROVE q = p
  <2>1. q # p => Inside(q)
    BY <1>3, OthersKeep DEF Inside, At
  <2> QED  BY <1>2, <2>1
<1>4. \A q \in Producer : Claimed(q)' \/ (producer'[q].step \in {"claim", "copy", "publish"}) => q = p
  BY <1>3 DEF Claimed, Inside, At
<1>5. ASSUME Inside(p)', ~ Claimed(p)' PROVE producer'[p].cur = enqueuePos'
  <2>1. WriteV(p) \/ Check(p) \/ ClaimFails(p)
    BY <1>5, OwnStep DEF Producing, Advances, Claimed, Inside, At
  <2>2. enqueuePos' = enqueuePos
    BY <2>1 DEF WriteV, Check, ClaimFails, ring
  <2>3. CASE WriteV(p) \/ ClaimFails(p)
    BY <2>2, <2>3, OwnStep
  <2>4. CASE Check(p)
    <3>1. Inside(p) /\ ~ Claimed(p) /\ producer'[p].cur = producer[p].cur
      BY <1>5, <2>4, OwnStep DEF Advances, Claimed, Inside, At
    <3> QED  BY <1>1, <2>2, <3>1 DEF TurnsSound
  <2> QED  BY <2>1, <2>3, <2>4
<1>6. ASSUME producer'[p].step = "claim" PROVE publishedHead' - dequeuePos' < Capacity
  <2>1. Check(p) /\ ~ Full(p) /\ Inside(p)
    BY <1>6, OwnStep DEF Producing, Advances, Check, Inside, At
  <2>2. UNCHANGED <<publishedHead, dequeuePos>>
    BY <2>1 DEF Check, ring
  <2>3. producer[p].tail <= dequeuePos /\ producer[p].tail \in Nat
    BY <2>1, InsideTyped DEF RingSound, Logging
  <2>4. publishedHead - producer[p].tail < Capacity
    BY <1>0, <2>1, <2>3 DEF Full
  <2> QED  BY <1>0, <2>2, <2>3, <2>4
<1>7. ASSUME Claimed(p)'
      PROVE  /\ producer'[p].cur = publishedHead' /\ enqueuePos' = publishedHead' + 1
             /\ producer'[p].record = claims'[enqueuePos']
             /\ publishedHead' - dequeuePos' < Capacity
  <2>1. Claim(p) \/ BeginWrite(p) \/ EndWrite(p)
    BY <1>7, OwnStep DEF Producing, Advances, Claimed
  <2>2. UNCHANGED <<publishedHead, dequeuePos>>
    BY <2>1 DEF Claim, BeginWrite, EndWrite, ring
  <2>3. CASE Claim(p)
    <3>1. producer[p].step = "claim" /\ producer'[p].record = producer[p].record
          /\ producer'[p].cur = producer[p].cur
      BY <2>3, OwnStep DEF Advances
    <3>2. \A q \in Producer : ~ Claimed(q)
      BY <1>2, <3>1 DEF Claimed, Inside, At
    <3>3. publishedHead = enqueuePos
      BY <3>2, AllPublished
    <3>4. publishedHead - dequeuePos < Capacity
      BY <1>1, <3>1 DEF TurnsSound
    <3>5. /\ producer[p].cur = enqueuePos /\ enqueuePos' = enqueuePos + 1
          /\ claims'[enqueuePos'] = producer[p].record
      BY <1>0, <2>3, PositionsMove, ClaimKeeps
    <3> QED  BY <2>2, <3>1, <3>3, <3>4, <3>5
  <2>4. CASE BeginWrite(p) \/ EndWrite(p)
    <3>1. /\ Claimed(p) /\ producer'[p].record = producer[p].record
          /\ producer'[p].cur = producer[p].cur
      BY <2>4, OwnStep DEF Advances, Claimed
    <3>2. UNCHANGED <<enqueuePos, claims>>
      BY <2>4 DEF BeginWrite, EndWrite, ring
    <3> QED  BY <1>1, <2>2, <3>1, <3>2 DEF TurnsSound
  <2> QED  BY <2>1, <2>3, <2>4
<1>8. ASSUME producer'[p].step = "copy" PROVE ~ producer'[p].mixed
  <2>1. BeginWrite(p)
    BY <1>8, OwnStep DEF Producing, Advances
  <2>2. producer[p].step = "write"
    BY <2>1, OwnStep DEF Advances
  <2>3. WritersOf(IndexOf(producer[p].cur)) = {}
    BY <1>2, <2>2 DEF WritersOf, Inside, At
  <2>4. producer'[p].mixed = (WritersOf(IndexOf(producer[p].cur)) # {})
    BY <2>1, OwnStep
  <2> QED  BY <2>3, <2>4
<1>9. ASSUME EndWrite(p)
      PROVE  /\ slots' = [slots EXCEPT ![IndexOf(publishedHead)] = claims[enqueuePos]]
             /\ UNCHANGED <<enqueuePos, publishedHead, claims>>
             /\ publishedHead - dequeuePos < Capacity
  <2>1. UNCHANGED <<enqueuePos, publishedHead, claims>>
    BY <1>9 DEF EndWrite
  <2>2. producer[p].step = "copy" /\ Claimed(p)
    BY <1>9, OwnStep DEF Advances, Claimed
  <2>3. /\ ~ producer[p].mixed /\ producer[p].cur = publishedHead
        /\ producer[p].record = claims[enqueuePos] /\ publishedHead - dequeuePos < Capacity
    BY <1>1, <2>2 DEF TurnsSound
  <2>4. slots' = [slots EXCEPT ![IndexOf(producer[p].cur)] = producer[p].record]
    BY <1>9, <2>3 DEF EndWrite
  <2> QED  BY <2>1, <2>3, <2>4
<1>10. ASSUME producer'[p].step = "publish" PROVE slots'[IndexOf(publishedHead')] = claims'[enqueuePos']
  <2>1. EndWrite(p)
    BY <1>10, OwnStep DEF Producing, Advances
  <2>2. IndexOf(publishedHead) \in 0 .. Capacity - 1
    BY <1>0, IndexTyped
  <2>3. IndexOf(publishedHead') = IndexOf(publishedHead)
    BY <1>9, <2>1 DEF IndexOf
  <2> QED  BY <1>0, <1>9, <2>1, <2>2, <2>3
<1>11. ASSUME NEW pos \in Nat, dequeuePos' <= pos, pos < publishedHead'
       PROVE  slots'[IndexOf(pos)] = claims'[pos + 1]
  <2>0. dequeuePos' = dequeuePos
    BY ProducerLeaves
  <2>1. CASE Publish(p)
    <3>1. producer[p].step = "publish" /\ Claimed(p) /\ slots' = slots /\ claims' = claims
      BY <2>1 DEF Publish, At, Claimed
    <3>2. /\ producer[p].cur = publishedHead /\ enqueuePos = publishedHead + 1
          /\ slots[IndexOf(publishedHead)] = claims[enqueuePos]
      BY <1>1, <3>1 DEF TurnsSound
    <3>3. publishedHead' = publishedHead + 1
      BY <1>0, <2>1, <3>2, PositionsMove
    <3>4. CASE pos = publishedHead
      BY <3>1, <3>2, <3>4
    <3>5. CASE pos # publishedHead
      <4>1. dequeuePos <= pos /\ pos < publishedHead
        BY <1>0, <1>11, <2>0, <3>3, <3>5
      <4> QED  BY <1>1, <3>1, <4>1 DEF TurnsSound
    <3> QED  BY <3>4, <3>5
  <2>2. CASE ~ Publish(p)
    <3>1. publishedHead' = publishedHead
      BY <2>2, PositionsMove
    <3>2. slots[IndexOf(pos)] = claims[pos + 1]
      BY <1>1, <1>11, <2>0, <3>1 DEF TurnsSound
    <3>3. claims'[pos + 1] = claims[pos + 1]
      <4>1. pos + 1 \in 1 .. Len(claims)
        BY <1>0, <1>11, <3>1
      <4> QED  BY <4>1, ClaimKeeps
    <3>4. slots'[IndexOf(pos)] = slots[IndexOf(pos)]
      <4>1. CASE EndWrite(p)
        <5>1. /\ slots' = [slots EXCEPT ![IndexOf(publishedHead)] = claims[enqueuePos]]
              /\ publishedHead - dequeuePos < Capacity
          BY <1>9, <4>1
        <5>2. pos < publishedHead /\ publishedHead - pos < Capacity
          BY <1>0, <1>11, <2>0, <3>1, <5>1
        <5>3. IndexOf(pos) # IndexOf(publishedHead) /\ IndexOf(pos) \in 0 .. Capacity - 1
          BY <1>0, <5>2, IndexDiffers, IndexTyped
        <5> QED  BY <1>0, <5>1, <5>3
      <4>2. CASE ~ EndWrite(p)
        <5>1. slots' = slots
          BY <2>2, <4>2 DEF WriteV, Producing, Check, Claim, ClaimFails, BeginWrite, ring
        <5> QED  BY <5>1
      <4> QED  BY <4>1, <4>2
    <3> QED  BY <3>2, <3>3, <3>4
  <2> QED  BY <2>1, <2>2
<1>12. ASSUME NEW i \in DOMAIN taken' PROVE taken'[i] = claims'[i]
  <2>1. taken' = taken
    BY ProducerLeaves
  <2>2. i \in DOMAIN taken /\ i \in 1 .. Len(claims)
    BY <1>12, <2>1, TakenBound, <1>0
  <2>3. taken[i] = claims[i] /\ claims'[i] = claims[i]
    BY <1>1, <2>2, ClaimKeeps DEF TurnsSound
  <2> QED  BY <2>1, <2>3
<1>13. \A q, r \in Producer : Inside(q)' /\ Inside(r)' => q = r
  BY <1>3
<1>14. \A q \in Producer : Inside(q)' /\ ~ Claimed(q)' => producer'[q].cur = enqueuePos'
  BY <1>3, <1>5
<1>15. \A q \in Producer : producer'[q].step = "claim" => publishedHead' - dequeuePos' < Capacity
  BY <1>4, <1>6
<1>16. \A q \in Producer : Claimed(q)' =>
             /\ producer'[q].cur = publishedHead' /\ enqueuePos' = publishedHead' + 1
             /\ producer'[q].record = claims'[enqueuePos']
             /\ publishedHead' - dequeuePos' < Capacity
  BY <1>4, <1>7
<1>17. \A q \in Producer : producer'[q].step = "copy" => ~ producer'[q].mixed
  BY <1>4, <1>8
<1>18. \A q \in Producer : producer'[q].step = "publish" =>
             slots'[IndexOf(publishedHead')] = claims'[enqueuePos']
  BY <1>4, <1>10
<1>19. \A pos \in Nat : dequeuePos' <= pos /\ pos < publishedHead'
             => slots'[IndexOf(pos)] = claims'[pos + 1]
  BY <1>11
<1>20. \A i \in DOMAIN taken' : taken'[i] = claims'[i]
  BY <1>12
<1> QED  BY <1>13, <1>14, <1>15, <1>16, <1>17, <1>18, <1>19, <1>20 DEF TurnsSound, IndexOf

\* The dispatcher copies what was claimed, from a slot that nobody writes.
LEMMA CopyTakesTheClaimed ==
  ASSUME Types, RingSound, BatchSound, TurnsSound, ~ overlapped, Copy
  PROVE  \A i \in DOMAIN taken' : taken'[i] = claims[i]
<1> DEFINE pos == dequeuePos + Len(dispatcher.batch)
<1>0. /\ dispatcher.batch \in Seq(Content) /\ dispatcher.count \in Nat
      /\ dequeuePos \in Nat /\ publishedHead \in Nat /\ Len(dispatcher.batch) \in Nat
      /\ taken \in Seq(Content) /\ Capacity \in Nat
  BY SizeAssumption DEF Types
<1>1. PICK c \in Readable(IndexOf(pos)) :
         /\ c \in Content /\ taken' = Append(taken, c) /\ dispatcher.step = "copy"
  BY CopyStep
<1>2. dequeuePos <= pos /\ pos < publishedHead /\ pos \in Nat /\ Len(taken) = pos
  BY <1>0, <1>1 DEF BatchSound
<1> HIDE DEF pos
<1>3. WritersOf(IndexOf(pos)) = {}
  <2> SUFFICES ASSUME NEW p \in Producer, producer[p].step = "copy",
                      IndexOf(producer[p].cur) = IndexOf(pos)
               PROVE  FALSE
    BY DEF WritersOf, At
  <2>1. producer[p].cur = publishedHead /\ publishedHead - dequeuePos < Capacity
    BY DEF TurnsSound, Claimed
  <2>2. pos < publishedHead /\ publishedHead - pos < Capacity
    BY <1>0, <1>2, <2>1
  <2> QED  BY <1>0, <1>2, <2>1, <2>2, IndexDiffers
<1>4. c = claims[pos + 1]
  <2>1. c = slots[IndexOf(pos)]
    BY <1>1, <1>3 DEF Readable
  <2> QED  BY <1>2, <2>1 DEF TurnsSound
<1>5. ASSUME NEW i \in DOMAIN taken' PROVE taken'[i] = claims[i]
  <2>1. DOMAIN taken' = 1 .. pos + 1 /\ taken'[pos + 1] = c /\ pos \in Nat
    BY <1>0, <1>1, <1>2
  <2>2. \A j \in 1 .. pos : taken'[j] = taken[j] /\ j \in DOMAIN taken
    BY <1>0, <1>1, <1>2
  <2>3. CASE i = pos + 1
    BY <1>4, <2>1, <2>3
  <2>4. CASE i # pos + 1
    <3>1. i \in 1 .. pos
      BY <2>1, <2>4, <1>5
    <3> QED  BY <2>2, <3>1 DEF TurnsSound
  <2> QED  BY <2>3, <2>4
<1> QED  BY <1>5

LEMMA TurnsSoundDequeue ==
  ASSUME Types, RingSound, BatchSound, TurnsSound, Dispatching PROVE TurnsSound'
<1>0. UNCHANGED <<producer, enqueuePos, publishedHead, claims, slots>> /\ overlapped' = overlapped
  BY DispatcherLeaves
<1>1. dequeuePos' \in Nat /\ dequeuePos <= dequeuePos' /\ dequeuePos \in Nat /\ publishedHead \in Nat
      /\ Capacity \in Nat
  BY DequeueMoves, SizeAssumption DEF Types
<1> SUFFICES ASSUME ~ overlapped' PROVE TurnsSound'
  BY DEF TurnsSound
<1>2. ~ overlapped
  BY <1>0, Zenon
<1>3. \A i \in DOMAIN taken' : taken'[i] = claims'[i]
  <2>1. CASE Copy
    BY <1>0, <1>2, <2>1, CopyTakesTheClaimed
  <2>2. CASE ~ Copy
    <3>1. taken' = taken
      BY <2>2 DEF Dispatching, Poll, Deliver, DispatcherExits
    <3> QED  BY <1>0, <1>2, <3>1 DEF TurnsSound
  <2> QED  BY <2>1, <2>2
<1>4. publishedHead - dequeuePos < Capacity => publishedHead - dequeuePos' < Capacity
  <2>1. \A a, b, h, c \in Nat : a <= b /\ h - a < c => h - b < c
    OBVIOUS
  <2> QED  BY <1>1, <2>1
<1>5. \A pos \in Nat : dequeuePos' <= pos => dequeuePos <= pos
  BY <1>1
<1>6. /\ \A p, q \in Producer : Inside(p)' /\ Inside(q)' => p = q
      /\ \A p \in Producer : Inside(p)' /\ ~ Claimed(p)' => producer'[p].cur = enqueuePos'
      /\ \A p \in Producer : producer'[p].step = "claim" => publishedHead' - dequeuePos' < Capacity
      /\ \A p \in Producer : Claimed(p)' =>
           /\ producer'[p].cur = publishedHead' /\ enqueuePos' = publishedHead' + 1
           /\ producer'[p].record = claims'[enqueuePos']
           /\ publishedHead' - dequeuePos' < Capacity
      /\ \A p \in Producer : producer'[p].step = "copy" => ~ producer'[p].mixed
      /\ \A p \in Producer : producer'[p].step = "publish" =>
           slots'[IndexOf(publishedHead')] = claims'[enqueuePos']
  BY <1>0, <1>2, <1>4 DEF TurnsSound, Inside, At, Claimed, IndexOf
<1>7. \A pos \in Nat : dequeuePos' <= pos /\ pos < publishedHead'
        => slots'[IndexOf(pos)] = claims'[pos + 1]
  BY <1>0, <1>2, <1>5 DEF TurnsSound
<1> QED  BY <1>3, <1>6, <1>7 DEF TurnsSound, IndexOf

LEMMA TurnsSoundOther ==
  ASSUME TurnsSound, UNCHANGED <<producer, enqueuePos, publishedHead, dequeuePos, claims, slots, taken>>,
         overlapped' = overlapped
  PROVE  TurnsSound'
<1> SUFFICES ASSUME ~ overlapped' PROVE TurnsSound'
  BY DEF TurnsSound
<1>1. ~ overlapped
  BY Zenon
<1> QED  BY <1>1 DEF TurnsSound, Inside, At, Claimed, IndexOf

-----------------------------------------------------------------------------
(* The writers and Shutdown. *)

LEMMA WriterSoundKeep ==
  ASSUME Types, WriterSound, ShutdownSound, Next PROVE WriterSound'
<1>0. /\ inbox \in [Sink -> Seq(Seq(Content))] /\ writing \in [Sink -> BOOLEAN]
      /\ writer \in [Sink -> [step : {"loop", "write", "exited", "joined"}, batch : Seq(Content)]]
      /\ main \in DOMAIN ShutdownOrder
  BY DEF Types, TypeOK
<1>1. CASE UNCHANGED <<writer, inbox, writing>>
  BY <1>1 DEF WriterSound
<1>2. CASE Deliver
  <2>1. UNCHANGED <<writer, writing>> /\ dispatcher.step = "deliver"
    BY <1>2 DEF Deliver
  <2>2. \A r \in Sink : writer[r].step # "joined"
    BY <2>1 DEF ShutdownSound, WriterSound
  <2> QED  BY <2>1, <2>2 DEF WriterSound
<1>3. ASSUME NEW s \in Sink, Writing(s) PROVE WriterSound'
  <2>1. writing' = writing
    BY <1>3, WriterLeaves
  <2>2. CASE WriterTakes(s)
    <3>1. /\ writer[s].step = "loop"
          /\ writer' = [writer EXCEPT ![s] = [step |-> "write", batch |-> Head(inbox[s])]]
          /\ inbox' = [inbox EXCEPT ![s] = Tail(inbox[s])]
      BY <2>2 DEF WriterTakes
    <3>2. writer'[s].step = "write" /\ \A r \in Sink \ {s} : writer'[r] = writer[r] /\ inbox'[r] = inbox[r]
      BY <1>0, <3>1
    <3> QED  BY <2>1, <3>2 DEF WriterSound
  <2>3. CASE WriterWrites(s)
    <3>1. /\ writer' = [writer EXCEPT ![s] = [step |-> "loop", batch |-> << >>]]
          /\ inbox' = inbox
      BY <2>3 DEF WriterWrites
    <3>2. /\ writer'[s].step = "loop" /\ writer'[s].batch = << >>
          /\ \A r \in Sink \ {s} : writer'[r] = writer[r]
      BY <1>0, <3>1
    <3> QED  BY <2>1, <3>1, <3>2 DEF WriterSound
  <2>4. CASE WriterExits(s)
    <3>1. /\ writer[s].step = "loop" /\ ~ writing[s]
          /\ writer' = [writer EXCEPT ![s] = [writer[s] EXCEPT !.step = "exited"]]
          /\ inbox' = inbox
      BY <2>4 DEF WriterExits
    <3>2. /\ writer'[s].step = "exited" /\ writer'[s].batch = writer[s].batch
          /\ \A r \in Sink \ {s} : writer'[r] = writer[r]
      BY <1>0, <3>1
    <3> QED  BY <2>1, <3>1, <3>2 DEF WriterSound
  <2> QED  BY <1>3, <2>2, <2>3, <2>4 DEF Writing
<1>4. ASSUME NEW s \in Sink, StopWriter(s) PROVE WriterSound'
  <2>1. writing' = [writing EXCEPT ![s] = FALSE] /\ UNCHANGED <<writer, inbox>>
    BY <1>4 DEF StopWriter
  <2>2. \A r \in Sink : ~ writing[r] => ~ writing'[r]
    BY <1>0, <2>1
  <2> QED  BY <2>1, <2>2 DEF WriterSound
<1>5. ASSUME NEW s \in Sink, JoinWriter(s) PROVE WriterSound'
  <2>1. /\ writer[s].step = "exited" /\ ~ writing[s] /\ writing' = writing
        /\ writer' = [writer EXCEPT ![s] = [writer[s] EXCEPT !.step = "joined"]]
        /\ inbox' = [inbox EXCEPT ![s] = << >>]
    BY <1>5 DEF JoinWriter, Stopped
  <2>2. /\ writer'[s].step = "joined" /\ writer'[s].batch = writer[s].batch /\ inbox'[s] = << >>
        /\ \A r \in Sink \ {s} : writer'[r] = writer[r] /\ inbox'[r] = inbox[r]
    BY <1>0, <2>1
  <2> QED  BY <2>1, <2>2 DEF WriterSound
<1>6. ASSUME \E p \in Producer : WriteV(p) \/ Producing(p) PROVE UNCHANGED <<writer, inbox, writing>>
  BY <1>6, ProducerLeaves
<1>7. ASSUME Poll \/ Copy \/ DispatcherExits \/ BeginShutdown \/ StopDispatcher \/ JoinDispatcher \/ CloseSinks
      PROVE  UNCHANGED <<writer, inbox, writing>>
  BY <1>7 DEF Poll, Copy, DispatcherExits, BeginShutdown, StopDispatcher, JoinDispatcher, CloseSinks
<1> QED  BY <1>1, <1>2, <1>3, <1>4, <1>5, <1>6, <1>7 DEF Next, Dispatching, ShuttingDown

LEMMA ShutdownSoundKeep ==
  ASSUME Types, WriterSound, ShutdownSound, Next PROVE ShutdownSound'
<1>0. /\ writing \in [Sink -> BOOLEAN] /\ main \in DOMAIN ShutdownOrder /\ main \in 1 .. 5
      /\ writer \in [Sink -> [step : {"loop", "write", "exited", "joined"}, batch : Seq(Content)]]
      /\ dispatcher \in [step : {"poll", "copy", "deliver", "exited"}, batch : Seq(Content),
                         count : Nat, sink : Sink]
      /\ NumSinks \in Nat \ {0}
  BY Stages, SizeAssumption DEF Types, TypeOK
<1>1. CASE UNCHANGED <<writer, dispatcher, writing, main>>
  BY <1>1 DEF ShutdownSound
<1>2. CASE Dispatching
  <2>1. UNCHANGED <<writer, writing, main>>
    BY <1>2, DispatcherLeaves
  <2>2. dispatcher.step = "exited" => FALSE
    BY <1>2 DEF Dispatching, Poll, Copy, Deliver, DispatcherExits
  <2>3. ~ (main > 2)
    BY <2>2 DEF ShutdownSound
  <2> QED  BY <1>0, <2>1, <2>3 DEF ShutdownSound
<1>3. ASSUME NEW s \in Sink, Writing(s) PROVE ShutdownSound'
  <2>1. UNCHANGED <<dispatcher, writing, main>>
    BY <1>3, WriterLeaves
  <2>2. /\ writer[s].step \in {"loop", "write"} /\ \A r \in Sink \ {s} : writer'[r] = writer[r]
    BY <1>0, <1>3 DEF Writing, WriterTakes, WriterWrites, WriterExits
  <2> QED  BY <2>1, <2>2 DEF ShutdownSound
<1>4. CASE BeginShutdown \/ JoinDispatcher \/ CloseSinks
  <2>1. UNCHANGED <<writer, dispatcher, writing>> /\ main' = main + 1
    BY <1>4 DEF BeginShutdown, JoinDispatcher, CloseSinks
  <2>2. main = 1 \/ (main = 2 /\ dispatcher.step = "exited") \/ main = 4
    BY <1>0, <1>4, Stages DEF BeginShutdown, JoinDispatcher, CloseSinks
  <2>3. main > 2 => main' > 2
    BY <1>0, <2>1
  <2>4. main' > 2 => dispatcher.step = "exited"
    BY <1>0, <2>1, <2>2 DEF ShutdownSound
  <2>5. main' > 3 => main > 3
    BY <1>0, <2>1, <2>2
  <2> QED  BY <2>1, <2>3, <2>4, <2>5 DEF ShutdownSound
<1>5. CASE StopDispatcher
  <2>1. UNCHANGED <<writer, dispatcher, writing, main>>
    BY <1>5 DEF StopDispatcher
  <2> QED  BY <1>1, <2>1
<1>6. ASSUME NEW s \in Sink, StopWriter(s) PROVE ShutdownSound'
  <2>1. /\ UNCHANGED <<writer, dispatcher, main>> /\ writing' = [writing EXCEPT ![s] = FALSE]
        /\ \A r \in Sink : r < s => writer[r].step = "joined"
    BY <1>6 DEF StopWriter
  <2>2. main > 2
    BY <1>0, <1>6, Stages DEF StopWriter
  <2>3. \A r \in Sink \ {s} : writing'[r] = writing[r]
    BY <1>0, <2>1
  <2> QED  BY <2>1, <2>2, <2>3 DEF ShutdownSound
<1>7. ASSUME NEW s \in Sink, JoinWriter(s) PROVE ShutdownSound'
  <2>1. /\ UNCHANGED <<dispatcher, writing>> /\ ~ writing[s]
        /\ writer' = [writer EXCEPT ![s] = [writer[s] EXCEPT !.step = "joined"]]
        /\ main' = IF s = NumSinks THEN main + 1 ELSE main
    BY <1>7 DEF JoinWriter, Stopped
  <2>2. main = 3
    BY <1>0, <1>7, Stages DEF JoinWriter
  <2>3. writer'[s].step = "joined" /\ \A r \in Sink \ {s} : writer'[r] = writer[r]
    BY <1>0, <2>1
  <2>4. \A r \in Sink : writer[r].step = "joined" => writer'[r].step = "joined"
    BY <2>3
  <2>5. main' > 2
    BY <2>1, <2>2
  <2>6. main' > 3 => \A r \in Sink : writer'[r].step = "joined"
    <3> SUFFICES ASSUME main' > 3, NEW r \in Sink PROVE writer'[r].step = "joined"
      OBVIOUS
    <3>1. s = NumSinks
      BY <2>1, <2>2
    <3>2. r = s \/ r < s
      BY <1>0, <3>1 DEF Sink
    <3>3. \A t \in Sink : t < s => writer[t].step = "joined"
      BY <2>1 DEF ShutdownSound
    <3> QED  BY <2>3, <2>4, <3>2, <3>3
  <2>7. \A r \in Sink : ~ writing'[r] =>
          main' > 2 /\ \A t \in Sink : t < r => writer'[t].step = "joined"
    BY <2>1, <2>4, <2>5 DEF ShutdownSound
  <2>8. dispatcher'.step = "exited"
    BY <2>1, <2>2 DEF ShutdownSound
  <2> QED  BY <2>6, <2>7, <2>8 DEF ShutdownSound
<1>8. ASSUME \E p \in Producer : WriteV(p) \/ Producing(p)
      PROVE  UNCHANGED <<writer, dispatcher, writing, main>>
  BY <1>8, ProducerLeaves
<1> QED  BY <1>1, <1>2, <1>3, <1>4, <1>5, <1>6, <1>7, <1>8 DEF Next, ShuttingDown

-----------------------------------------------------------------------------
(* From the ring to the sinks. *)

\* Joining contents: associativity, and what it does with nothing.
LEMMA JoinAssociative == \A x, y, z \in Seq(Content) : (x \o y) \o z = x \o (y \o z)
  OBVIOUS

LEMMA JoinTyped == \A x, y \in Seq(Content) : x \o y \in Seq(Content)
  OBVIOUS

LEMMA JoinNothing == \A x \in Seq(Content) : x \o << >> = x
  OBVIOUS

\* All of the inbox is in the sink.
LEMMA JoinPasses ==
  \A a, c, d \in Seq(Content) :
     (a \o c) \o << >> \o << >> \o d = a \o << >> \o c \o d
<1> TAKE a, c, d \in Seq(Content)
<1>1. a \o c \in Seq(Content)
  BY JoinTyped, Zenon
<1>2. (a \o c) \o << >> = a \o c /\ a \o << >> = a
  BY JoinNothing, <1>1, Zenon
<1> QED  BY <1>2

\* What has been taken for a sink, wherever it is.
Ours(s) == written[s] \o writer[s].batch \o FlattenSeq(inbox[s]) \o Undelivered(s)

LEMMA OursTyped ==
  ASSUME Types, NEW s \in Sink
  PROVE  /\ written[s] \in Seq(Content) /\ writer[s].batch \in Seq(Content)
         /\ inbox[s] \in Seq(Seq(Content))
         /\ FlattenSeq(inbox[s]) \in Seq(Content) /\ Undelivered(s) \in Seq(Content)
         /\ dispatcher.batch \in Seq(Content) /\ taken \in Seq(Content)
         /\ Partition(dispatcher.batch, s) \in Seq(Content)
<1>1. /\ written[s] \in Seq(Content) /\ writer[s].batch \in Seq(Content)
      /\ inbox[s] \in Seq(Seq(Content)) /\ dispatcher.batch \in Seq(Content)
      /\ taken \in Seq(Content)
  BY DEF Types
<1>2. Partition(dispatcher.batch, s) \in Seq(Content) /\ << >> \in Seq(Content)
  BY <1>1, PartitionTyped
<1>3. Undelivered(s) \in Seq(Content)
  BY <1>2 DEF Undelivered
<1> QED  BY <1>1, <1>2, <1>3, FlattenTyped

\* What the dispatcher copies is added for every sink that its mask names.
LEMMA DeliveredCopy ==
  ASSUME Types, BatchSound, DeliveredInOrder, Copy, NEW s \in Sink
  PROVE  Ours(s)' = Partition(taken', s)
<1> DEFINE b == dispatcher.batch
<1>1. PICK c \in Content :
        /\ taken' = Append(taken, c) /\ inbox' = inbox
        /\ dispatcher.step = "copy" /\ dispatcher'.sink = 1 /\ dispatcher'.batch = Append(b, c)
        /\ dispatcher'.step \in {"copy", "deliver"}
  BY CopyStep
<1>2. UNCHANGED <<written, writer>>
  BY DispatcherLeaves DEF Dispatching
<1>3. Undelivered(s) = Partition(b, s)
  BY <1>1 DEF Undelivered
<1>4. Undelivered(s)' = Partition(Append(b, c), s)
  <2>1. 1 <= s
    BY DEF Sink
  <2> QED  BY <1>1, <2>1 DEF Undelivered, Partition, MaskOf
<1>5. /\ Partition(Append(b, c), s) = Partition(b, s) \o Share(c, s)
      /\ Partition(taken', s) = Partition(taken, s) \o Share(c, s)
      /\ Share(c, s) \in Seq(Content)
  BY <1>1, OursTyped, PartitionAppend
<1>6. Ours(s) = Partition(taken, s)
  BY DEF DeliveredInOrder, Ours
<1> DEFINE w == written[s]
           v == writer[s].batch
           i == FlattenSeq(inbox[s])
           u == Undelivered(s)
           e == Share(c, s)
<1>7. w \o v \o i \in Seq(Content) /\ u \in Seq(Content) /\ e \in Seq(Content)
  BY <1>5, OursTyped
<1>8. Ours(s)' = w \o v \o i \o (u \o e)
  BY <1>1, <1>2, <1>3, <1>4, <1>5 DEF Ours
<1>9. Ours(s) = w \o v \o i \o u
  BY DEF Ours
<1> HIDE DEF w, v, i, u, e
<1>10. (w \o v \o i \o u) \o e = w \o v \o i \o (u \o e)
  BY <1>7, JoinAssociative, Zenon
<1> QED  BY <1>5, <1>6, <1>8, <1>9, <1>10 DEF e

\* What the dispatcher has for a sink moves to the inbox, if it is anything.
LEMMA DeliveredDeliver ==
  ASSUME Types, BatchSound, DeliveredInOrder, Deliver, NEW s \in Sink
  PROVE  Ours(s)' = Partition(taken', s)
<1> DEFINE k == dispatcher.sink
           part == Partition(dispatcher.batch, k)
<1>0. /\ k \in Sink /\ NumSinks \in Nat /\ part \in Seq(Content)
      /\ inbox \in [Sink -> Seq(Seq(Content))]
      /\ dispatcher \in [step : {"poll", "copy", "deliver", "exited"}, batch : Seq(Content),
                         count : Nat, sink : Sink]
  BY PartitionTyped, SizeAssumption DEF Types
<1>1. /\ UNCHANGED <<written, writer, taken>> /\ dispatcher.step = "deliver" /\ NextSink
      /\ IF part = << >> THEN UNCHANGED inbox
         ELSE inbox' = [inbox EXCEPT ![k] = Append(inbox[k], part)]
  BY DEF Deliver, Push
<1>2. Ours(s) = Partition(taken, s)
  BY DEF DeliveredInOrder, Ours
<1>3. k \in 1 .. NumSinks /\ s \in 1 .. NumSinks
  BY <1>0 DEF Sink
<1>4. CASE s = k
  <2>1. Undelivered(s) = part
    BY <1>1, <1>3, <1>4 DEF Undelivered
  <2>2. Undelivered(s)' = << >>
    <3>1. CASE k = NumSinks
      <4>1. dispatcher'.step = "poll"
        BY <1>1, <3>1 DEF NextSink, Polling
      <4> QED  BY <4>1 DEF Undelivered
    <3>2. CASE k # NumSinks
      <4>1. dispatcher'.step = "deliver" /\ dispatcher'.sink = k + 1
        BY <1>0, <1>1, <3>2 DEF NextSink
      <4>2. ~ (k + 1 <= s)
        BY <1>3, <1>4
      <4> QED  BY <4>1, <4>2 DEF Undelivered
    <3> QED  BY <3>1, <3>2
  <2>3. FlattenSeq(inbox'[s]) = FlattenSeq(inbox[s]) \o part
    <3>1. inbox[s] \in Seq(Seq(Content)) /\ FlattenSeq(inbox[s]) \in Seq(Content)
      BY OursTyped
    <3>2. CASE part = << >>
      <4>1. FlattenSeq(inbox[s]) \o << >> = FlattenSeq(inbox[s])
        BY <3>1, JoinNothing, Zenon
      <4> QED  BY <1>1, <3>2, <4>1
    <3>3. CASE part # << >>
      <4>1. inbox'[s] = Append(inbox[s], part)
        BY <1>0, <1>1, <1>4, <3>3
      <4> HIDE DEF part
      <4> QED  BY <1>0, <3>1, <4>1, FlattenMore
    <3> QED  BY <3>2, <3>3
  <2> DEFINE w == written[s]
             v == writer[s].batch
             i == FlattenSeq(inbox[s])
  <2>4. w \in Seq(Content) /\ v \in Seq(Content) /\ i \in Seq(Content) /\ part \in Seq(Content)
    BY <1>0, OursTyped
  <2>5. Ours(s)' = w \o v \o (i \o part) \o << >>
    BY <1>1, <2>2, <2>3 DEF Ours
  <2>6. Ours(s) = w \o v \o i \o part
    BY <2>1 DEF Ours
  <2> HIDE DEF w, v, i, part
  <2>7. w \o v \o i \o part = w \o v \o (i \o part) \o << >>
    <3>1. w \o v \in Seq(Content) /\ i \o part \in Seq(Content)
      BY <2>4, JoinTyped
    <3>2. w \o v \o (i \o part) \in Seq(Content)
      BY <3>1, JoinTyped
    <3>3. w \o v \o (i \o part) \o << >> = w \o v \o (i \o part)
      BY <3>2, JoinNothing, Zenon
    <3>4. w \o v \o i \o part = w \o v \o (i \o part)
      <4>1. w \o v \in Seq(Content)
        BY <3>1
      <4> QED  BY <2>4, <4>1, JoinAssociative, Zenon
    <3> QED  BY <3>3, <3>4
  <2> QED  BY <1>1, <1>2, <2>5, <2>6, <2>7
<1>5. CASE s # k
  <2>1. inbox'[s] = inbox[s]
    BY <1>0, <1>1, <1>5
  <2>2. Undelivered(s)' = Undelivered(s)
    <3>1. CASE k = NumSinks
      <4>1. dispatcher'.step = "poll" /\ ~ (k <= s)
        BY <1>1, <1>3, <1>5, <3>1 DEF NextSink, Polling
      <4> QED  BY <1>1, <4>1 DEF Undelivered
    <3>2. CASE k # NumSinks
      <4>1. /\ dispatcher'.step = "deliver" /\ dispatcher'.sink = k + 1
            /\ dispatcher'.batch = dispatcher.batch
        BY <1>0, <1>1, <3>2 DEF NextSink
      <4>2. (k + 1 <= s) <=> (k <= s)
        BY <1>3, <1>5
      <4> QED  BY <1>1, <4>1, <4>2 DEF Undelivered, Partition, MaskOf
    <3> QED  BY <3>1, <3>2
  <2> QED  BY <1>1, <1>2, <2>1, <2>2 DEF Ours
<1> QED  BY <1>4, <1>5

\* A writer takes its batches from the front of the inbox and writes them.
LEMMA DeliveredWriting ==
  ASSUME Types, WriterSound, DeliveredInOrder, NEW r \in Sink, Writing(r), NEW s \in Sink
  PROVE  Ours(s)' = Partition(taken', s)
<1>0. /\ inbox \in [Sink -> Seq(Seq(Content))] /\ written \in [Sink -> Seq(Content)]
      /\ writer \in [Sink -> [step : {"loop", "write", "exited", "joined"}, batch : Seq(Content)]]
  BY DEF Types
<1>1. UNCHANGED <<dispatcher, taken>>
  BY WriterLeaves
<1>2. Undelivered(s)' = Undelivered(s)
  BY <1>1 DEF Undelivered, Partition, MaskOf
<1>3. Ours(s) = Partition(taken, s)
  BY DEF DeliveredInOrder, Ours
<1> DEFINE w == written[s]
           v == writer[s].batch
           d == Undelivered(s)
<1>4. w \in Seq(Content) /\ v \in Seq(Content) /\ d \in Seq(Content)
  BY OursTyped
<1>5. CASE s # r
  <2>1. written'[s] = written[s] /\ writer'[s] = writer[s] /\ inbox'[s] = inbox[s]
    BY <1>0, <1>5 DEF Writing, WriterTakes, WriterWrites, WriterExits
  <2> QED  BY <1>1, <1>2, <1>3, <2>1 DEF Ours
<1>6. CASE s = r /\ WriterTakes(s)
  <2>1. /\ writer[s].step = "loop" /\ inbox[s] # << >> /\ written' = written
        /\ writer'[s].batch = Head(inbox[s]) /\ inbox'[s] = Tail(inbox[s])
    BY <1>0, <1>6 DEF WriterTakes
  <2> DEFINE h == Head(inbox[s])
             t == FlattenSeq(Tail(inbox[s]))
  <2>2. inbox[s] \in Seq(Seq(Content))
    BY <1>0
  <2>3. h \in Seq(Content) /\ Tail(inbox[s]) \in Seq(Seq(Content))
    BY <2>1, <2>2
  <2>4. t \in Seq(Content)
    BY <2>3, FlattenTyped
  <2>5. FlattenSeq(inbox[s]) = h \o t
    BY <2>1, <2>2, FlattenFirst
  <2>6. v = << >>
    BY <2>1 DEF WriterSound
  <2>7. Ours(s)' = w \o h \o t \o d
    BY <1>2, <2>1 DEF Ours
  <2>8. Ours(s) = w \o << >> \o (h \o t) \o d
    BY <2>5, <2>6 DEF Ours
  <2> HIDE DEF w, h, t, d
  <2>9. w \o h \o t \o d = w \o << >> \o (h \o t) \o d
    <3>1. w \o << >> = w
      BY <1>4, JoinNothing, Zenon
    <3>2. w \o h \o t = w \o (h \o t)
      BY <1>4, <2>3, <2>4, JoinAssociative, Zenon
    <3> QED  BY <3>1, <3>2
  <2> QED  BY <1>1, <1>3, <2>7, <2>8, <2>9
<1>7. CASE s = r /\ WriterWrites(s)
  <2>1. /\ written'[s] = w \o v /\ writer'[s].batch = << >> /\ inbox' = inbox
    BY <1>0, <1>7 DEF WriterWrites
  <2> DEFINE i == FlattenSeq(inbox[s])
  <2>2. i \in Seq(Content)
    BY OursTyped
  <2>3. Ours(s)' = (w \o v) \o << >> \o i \o d
    BY <1>2, <2>1 DEF Ours
  <2>4. Ours(s) = w \o v \o i \o d
    BY DEF Ours
  <2> HIDE DEF w, v, i, d
  <2>5. (w \o v) \o << >> \o i \o d = w \o v \o i \o d
    <3>1. w \o v \in Seq(Content)
      BY <1>4, JoinTyped
    <3>2. (w \o v) \o << >> = w \o v
      BY <3>1, JoinNothing, Zenon
    <3> QED  BY <3>2
  <2> QED  BY <1>1, <1>3, <2>3, <2>4, <2>5
<1>8. CASE s = r /\ WriterExits(s)
  <2>1. written' = written /\ inbox' = inbox /\ writer'[s].batch = writer[s].batch
    BY <1>0, <1>8 DEF WriterExits
  <2> QED  BY <1>1, <1>2, <1>3, <2>1 DEF Ours
<1> QED  BY <1>5, <1>6, <1>7, <1>8 DEF Writing

\* Stop writes what is left in the inbox of the writer it has joined.
LEMMA DeliveredJoin ==
  ASSUME Types, WriterSound, DeliveredInOrder, NEW r \in Sink, JoinWriter(r), NEW s \in Sink
  PROVE  Ours(s)' = Partition(taken', s)
<1>0. /\ inbox \in [Sink -> Seq(Seq(Content))] /\ written \in [Sink -> Seq(Content)]
      /\ writer \in [Sink -> [step : {"loop", "write", "exited", "joined"}, batch : Seq(Content)]]
  BY DEF Types
<1>1. UNCHANGED <<dispatcher, taken>>
  BY DEF JoinWriter
<1>2. Undelivered(s)' = Undelivered(s)
  BY <1>1 DEF Undelivered, Partition, MaskOf
<1>3. Ours(s) = Partition(taken, s)
  BY DEF DeliveredInOrder, Ours
<1>4. CASE s # r
  <2>1. written'[s] = written[s] /\ writer'[s] = writer[s] /\ inbox'[s] = inbox[s]
    BY <1>0, <1>4 DEF JoinWriter
  <2> QED  BY <1>1, <1>2, <1>3, <2>1 DEF Ours
<1>5. CASE s = r
  <2> DEFINE w == written[s]
             i == FlattenSeq(inbox[s])
             d == Undelivered(s)
  <2>1. /\ written'[s] = w \o i /\ inbox'[s] = << >> /\ writer[s].step = "exited"
        /\ writer'[s].batch = writer[s].batch
    BY <1>0, <1>5 DEF JoinWriter, Stopped
  <2>2. writer[s].batch = << >>
    BY <2>1 DEF WriterSound
  <2>3. w \in Seq(Content) /\ i \in Seq(Content) /\ d \in Seq(Content)
    BY OursTyped
  <2>4. Ours(s)' = (w \o i) \o << >> \o << >> \o d
    BY <1>2, <2>1, <2>2, FlattenEmpty DEF Ours
  <2>5. Ours(s) = w \o << >> \o i \o d
    BY <2>2 DEF Ours
  <2> HIDE DEF w, i, d
  <2>6. (w \o i) \o << >> \o << >> \o d = w \o << >> \o i \o d
    BY <2>3, JoinPasses, Zenon
  <2> QED  BY <1>1, <1>3, <2>4, <2>5, <2>6
<1> QED  BY <1>4, <1>5

LEMMA DeliveredKeep ==
  ASSUME Types, BatchSound, WriterSound, DeliveredInOrder, Next PROVE DeliveredInOrder'
<1> SUFFICES ASSUME NEW s \in Sink PROVE Ours(s)' = Partition(taken', s)
  BY DEF DeliveredInOrder, Ours, Partition, MaskOf
<1>0. Ours(s) = Partition(taken, s)
  BY DEF DeliveredInOrder, Ours
<1>1. CASE UNCHANGED <<written, writer, inbox, dispatcher, taken>>
  <2>1. Undelivered(s)' = Undelivered(s)
    BY <1>1 DEF Undelivered, Partition, MaskOf
  <2> QED  BY <1>0, <1>1, <2>1 DEF Ours
<1>2. CASE Poll \/ DispatcherExits
  <2>1. UNCHANGED <<written, writer, inbox, taken>>
    BY <1>2 DEF Poll, DispatcherExits
  <2>2. dispatcher.step = "poll" /\ dispatcher.batch = << >>
    BY <1>2 DEF Poll, DispatcherExits, BatchSound
  <2>3. dispatcher'.batch = << >> /\ dispatcher'.step \in {"copy", "exited"}
    <3>1. dispatcher \in [step : {"poll", "copy", "deliver", "exited"}, batch : Seq(Content),
                          count : Nat, sink : Sink]
      BY DEF Types
    <3> QED  BY <1>2, <2>2, <3>1 DEF Poll, DispatcherExits
  <2>4. Undelivered(s) = << >>
    BY <2>2 DEF Undelivered
  <2>5. Undelivered(s)' = << >>
    <3>1. Partition(<< >>, s) = << >>
      BY PartitionEmpty
    <3> QED  BY <2>3, <3>1 DEF Undelivered, Partition, MaskOf
  <2> QED  BY <1>0, <2>1, <2>4, <2>5 DEF Ours
<1>3. CASE Copy
  BY <1>3, DeliveredCopy
<1>4. CASE Deliver
  BY <1>4, DeliveredDeliver
<1>5. ASSUME NEW r \in Sink, Writing(r) PROVE Ours(s)' = Partition(taken', s)
  BY <1>5, DeliveredWriting
<1>6. ASSUME NEW r \in Sink, JoinWriter(r) PROVE Ours(s)' = Partition(taken', s)
  BY <1>6, DeliveredJoin
<1>7. ASSUME \E p \in Producer : WriteV(p) \/ Producing(p)
      PROVE  UNCHANGED <<written, writer, inbox, dispatcher, taken>>
  BY <1>7, ProducerLeaves
<1>8. ASSUME \/ BeginShutdown \/ StopDispatcher \/ JoinDispatcher \/ CloseSinks
             \/ \E r \in Sink : StopWriter(r)
      PROVE  UNCHANGED <<written, writer, inbox, dispatcher, taken>>
  BY <1>8 DEF BeginShutdown, StopDispatcher, JoinDispatcher, CloseSinks, StopWriter
<1> QED  BY <1>1, <1>2, <1>3, <1>4, <1>5, <1>6, <1>7, <1>8 DEF Next, Dispatching, ShuttingDown

-----------------------------------------------------------------------------
(* The theorems. *)

LEMMA InvStep == Inv /\ [Next]_vars => Inv'
<1> SUFFICES ASSUME Inv, [Next]_vars PROVE Inv'
  OBVIOUS
<1>0. /\ Types /\ RingSound /\ BatchSound /\ TurnsSound
      /\ WriterSound /\ ShutdownSound /\ DeliveredInOrder
  BY DEF Inv
<1>1. CASE Next
  <2>1. WriterSound' /\ ShutdownSound' /\ DeliveredInOrder'
    BY <1>0, <1>1, WriterSoundKeep, ShutdownSoundKeep, DeliveredKeep
  <2>2. ASSUME NEW p \in Producer, WriteV(p) \/ Producing(p)
        PROVE  Types' /\ RingSound' /\ BatchSound' /\ TurnsSound'
    <3>1. publishedHead' \in Nat /\ publishedHead <= publishedHead'
      BY <1>0, <2>2, PositionsMove
    <3>2. UNCHANGED <<dispatcher, dequeuePos, taken>>
      BY <2>2, ProducerLeaves
    <3>3. BatchSound'
      BY <1>0, <3>1, <3>2, BatchSoundPublish
    <3> QED  BY <1>0, <2>2, <3>3, ProducerTypes, RingSoundKeep, TurnsSoundKeep
  <2>3. CASE Dispatching
    <3>1. Types' /\ BatchSound' /\ TurnsSound'
      BY <1>0, <2>3, DispatcherTypes, BatchSoundKeep, TurnsSoundDequeue
    <3>2. UNCHANGED <<producer, enqueuePos, publishedHead>>
      BY <2>3, DispatcherLeaves
    <3>3. dequeuePos' \in Nat /\ dequeuePos <= dequeuePos'
      BY <1>0, <2>3, DequeueMoves
    <3>4. RingSound'
      BY <1>0, <3>2, <3>3, RingSoundDequeue
    <3> QED  BY <2>1, <3>1, <3>4 DEF Inv
  <2>4. CASE (\E s \in Sink : Writing(s)) \/ BeginShutdown \/ ShuttingDown
    <3>1. Types'
      BY <1>0, <2>4, WriterTypes, MainTypes
    <3>2. /\ UNCHANGED <<enqueuePos, publishedHead, dequeuePos, producer, claims, slots, taken>>
          /\ UNCHANGED dispatcher
      BY <2>4, WriterLeaves, MainLeaves
    <3>3. overlapped' = overlapped
      BY <2>4, WriterLeaves, MainLeaves
    <3>4. publishedHead \in Nat /\ dequeuePos \in Nat
      BY <1>0 DEF Types
    <3>5. RingSound'
      BY <1>0, <3>2, <3>4, RingSoundDequeue
    <3>6. BatchSound'
      BY <1>0, <3>2, <3>4, BatchSoundPublish
    <3>7. TurnsSound'
      BY <1>0, <3>2, <3>3, TurnsSoundOther
    <3> QED  BY <2>1, <3>1, <3>5, <3>6, <3>7 DEF Inv
  <2> QED  BY <1>1, <2>1, <2>2, <2>3, <2>4 DEF Inv, Next
<1>2. CASE UNCHANGED vars
  <2>1. /\ UNCHANGED <<enqueuePos, publishedHead, dequeuePos, producer, claims, slots, taken>>
        /\ UNCHANGED <<calls, dispatcher, writing, writer, inbox, main, written>>
    BY <1>2 DEF vars, front, back
  <2>2. overlapped' = overlapped /\ dispatching' = dispatching
    BY <1>2 DEF vars, front, back
  <2>3. Types'
    <3>1. UNCHANGED <<front, slots>>
      BY <1>2 DEF vars
    <3>2. dispatching' \in BOOLEAN
      <4>1. dispatching \in BOOLEAN
        BY <1>0 DEF Types
      <4> QED  BY <2>2, <4>1, Zenon
    <3>3. /\ dequeuePos \in Nat /\ dequeuePos <= publishedHead /\ taken \in Seq(Content)
          /\ dispatcher \in [step : {"poll", "copy", "deliver", "exited"}, batch : Seq(Content),
                             count : Nat, sink : Sink]
          /\ writing \in [Sink -> BOOLEAN] /\ inbox \in [Sink -> Seq(Seq(Content))]
          /\ writer \in [Sink -> [step : {"loop", "write", "exited", "joined"},
                                  batch : Seq(Content)]]
          /\ written \in [Sink -> Seq(Content)] /\ main \in DOMAIN ShutdownOrder
          /\ \A s \in Sink : Len(inbox[s]) <= MaxBatches
      BY <1>0 DEF Types, TypeOK
    <3> QED  BY <1>0, <2>1, <3>1, <3>2, <3>3, BackTypes
  <2>4. publishedHead \in Nat /\ dequeuePos \in Nat
    BY <1>0 DEF Types
  <2>5. RingSound'
    BY <1>0, <2>1, <2>4, RingSoundDequeue
  <2>6. BatchSound'
    BY <1>0, <2>1, <2>4, BatchSoundPublish
  <2>7. TurnsSound'
    BY <1>0, <2>1, <2>2, TurnsSoundOther
  <2>8. WriterSound' /\ ShutdownSound'
    BY <1>0, <2>1 DEF WriterSound, ShutdownSound
  <2>9. DeliveredInOrder'
    BY <1>0, <2>1 DEF DeliveredInOrder, Undelivered, Partition, MaskOf
  <2> QED  BY <2>3, <2>5, <2>6, <2>7, <2>8, <2>9 DEF Inv
<1> QED  BY <1>1, <1>2

\* Inv holds in every state of every behaviour.
THEOREM Inductive == Spec => []Inv
  BY InvInit, InvStep, PTL DEF Spec

\* Counters, slots, threads, inboxes and the progress of Shutdown keep their types: the
\* three positions of the ring never overtake one another, and no inbox exceeds its limit.
THEOREM TypeCorrect == Spec => []TypeOK
<1>1. Inv => TypeOK
  BY DEF Inv, Types
<1> QED  BY <1>1, Inductive, PTL

\* Calls of TryEnqueue that take turns make a queue of the ring, whatever the dispatcher
\* does meanwhile: it took what was claimed at each position, and the positions that it has
\* still to take hold what was claimed there.  Whether it takes them is another matter: once
\* it is stopped it does not.
THEOREM TurnsMakeAQueue == Spec => []RingIsAQueue
<1>1. Inv => RingIsAQueue
  <2> SUFFICES ASSUME Inv, ~ overlapped
               PROVE  /\ \A i \in DOMAIN taken : taken[i] = claims[i]
                      /\ \A pos \in Len(taken) .. publishedHead - 1 :
                           slots[IndexOf(pos)] = claims[pos + 1]
    BY DEF RingIsAQueue
  <2>1. /\ dequeuePos \in Nat /\ publishedHead \in Nat /\ Len(dispatcher.batch) \in Nat
    BY DEF Inv, Types
  <2>2. dequeuePos <= Len(taken) /\ Len(taken) \in Nat
    BY <2>1 DEF Inv, BatchSound
  <2>3. ASSUME NEW pos \in Len(taken) .. publishedHead - 1
        PROVE  slots[IndexOf(pos)] = claims[pos + 1]
    <3>1. pos \in Nat /\ dequeuePos <= pos /\ pos < publishedHead
      BY <2>1, <2>2
    <3> QED  BY <3>1 DEF Inv, TurnsSound
  <2> QED  BY <2>3 DEF Inv, TurnsSound
<1> QED  BY <1>1, Inductive, PTL

\* When no thread is inside TryEnqueue the reader may read all that was claimed.
THEOREM NothingStaysUnpublished == Spec => []NothingStuck
<1>1. Inv => NothingStuck
  <2> SUFFICES ASSUME Inv, \A p \in Producer : ~ Inside(p) PROVE publishedHead = enqueuePos
    BY DEF NothingStuck
  <2>1. \A p \in Producer : ~ Claimed(p)
    BY DEF Claimed, Inside, At
  <2> QED  BY <2>1, AllPublished DEF Inv
<1> QED  BY <1>1, Inductive, PTL

\* From the ring on, nothing is lost, doubled or reordered on its way to a sink.
THEOREM SinksGetTheirRecords == Spec => []DeliveredInOrder
<1>1. Inv => DeliveredInOrder
  BY DEF Inv
<1> QED  BY <1>1, Inductive, PTL

\* When Shutdown has closed the sinks, each has all that was taken for it, and no writer
\* runs any more.
THEOREM ShutdownLeavesNothing == Spec => []ClosedIsComplete
<1>1. Inv => ClosedIsComplete
  <2> SUFFICES ASSUME Inv, Stage = "down", NEW s \in Sink
               PROVE  written[s] = Partition(taken, s) /\ writer[s].step = "joined"
    BY DEF ClosedIsComplete
  <2>1. main = 5
    BY Stages DEF Inv, Types, TypeOK
  <2>2. dispatcher.step = "exited" /\ writer[s].step = "joined"
    BY <2>1 DEF Inv, ShutdownSound
  <2>3. writer[s].batch = << >> /\ inbox[s] = << >>
    BY <2>2 DEF Inv, WriterSound
  <2>4. Undelivered(s) = << >>
    BY <2>2 DEF Undelivered
  <2>5. written[s] \o << >> \o << >> \o << >> = Partition(taken, s)
    BY <2>3, <2>4, FlattenEmpty DEF Inv, DeliveredInOrder
  <2>6. written[s] \in Seq(Content)
    BY DEF Inv, Types
  <2>7. written[s] \o << >> = written[s]
    BY <2>6, JoinNothing, Zenon
  <2> QED  BY <2>2, <2>5, <2>7
<1> QED  BY <1>1, Inductive, PTL
=============================================================================
