-------------------------- MODULE ActorOutboxProofs --------------------------
(***************************************************************************)
(* Remote actor posts, for any threads, targets and limits: the outbox     *)
(* keeps the order of each thread's posts to a target, the copy of a post  *)
(* for one route is written at most once, and an acknowledgement removes   *)
(* what it is for and nothing else of its registration.                    *)
(***************************************************************************)
EXTENDS ActorOutbox, WellFoundedInduction, TLAPS

PostRecord ==
    [thread : Thread, sequence : 1 .. MaxPosts, registration : 1 .. MaxRegistrations,
     writes : [Target -> Nat], reached : SUBSET (Target \X Target)]

Sending ==
    [step : {"idle"}]
      \cup [step : {"find"}, post : Post]
      \cup [step : {"route", "send", "enqueue"}, post : Post, todo : Seq(Target)]

Main ==
    [step : {"idle"}]
      \cup [step : {"drain"}, target : Target]
      \cup [step : {"resend"}, entries : Seq(Entry)]

\* What a loop over the routes still has before it, and what a resend has.
Todo(t) == IF sending[t].step \in {"route", "send", "enqueue"} THEN sending[t].todo ELSE << >>
Resending == IF main.step = "resend" THEN main.entries ELSE << >>

Types ==
    /\ TypeOK
    /\ posts \in Seq(PostRecord)
    /\ sending \in [Thread -> Sending]
    /\ main \in Main
    /\ \A t \in Thread : sending[t].step \in {"route", "send", "enqueue"} => sending[t].todo # << >>
    /\ main.step = "resend" => main.entries # << >>

\* The entries of a sequence are of posts there are, one of each for a target.
EntriesSound(s) ==
    /\ \A i \in DOMAIN s : s[i].post \in DOMAIN posts /\ s[i].sequence = posts[s[i].post].sequence
    /\ \A i, j \in DOMAIN s : s[i].post = s[j].post /\ s[i].target = s[j].target => i = j

Active(t) == sending[t].step # "idle"

\* A thread works on the last of its posts.
OnItsLast ==
    \A t \in Thread : Active(t) =>
        /\ sending[t].post \in DOMAIN posts
        /\ posts[sending[t].post].thread = t
        /\ \A p \in DOMAIN posts : posts[p].thread = t => p <= sending[t].post

\* A post waits for a route in one place: in the loop over the routes, in the outbox or
\* in the resend.
OnePlace ==
    /\ EntriesSound(outbox) /\ EntriesSound(Resending)
    /\ \A i \in DOMAIN outbox, j \in DOMAIN Resending :
         ~ (outbox[i].post = Resending[j].post /\ outbox[i].target = Resending[j].target)
    /\ \A t \in Thread : \A i, j \in DOMAIN Todo(t) : Todo(t)[i] = Todo(t)[j] => i = j
    /\ \A t \in Thread : \A k \in DOMAIN Todo(t) :
         /\ \A i \in DOMAIN outbox :
              ~ (outbox[i].post = sending[t].post /\ outbox[i].target = Todo(t)[k])
         /\ \A i \in DOMAIN Resending :
              ~ (Resending[i].post = sending[t].post /\ Resending[i].target = Todo(t)[k])

\* The copy of post p for T is still to be written.
Waits(p, T) ==
    \/ \E t \in Thread : \E k \in DOMAIN Todo(t) : sending[t].post = p /\ Todo(t)[k] = T
    \/ \E i \in DOMAIN outbox : outbox[i].post = p /\ outbox[i].target = T
    \/ \E i \in DOMAIN Resending : Resending[i].post = p /\ Resending[i].target = T

\* The routes of post p are still to be found.
Searching(p) == \E t \in Thread : At(t, "find") /\ sending[t].post = p

\* A copy that waits has not been written, and one that was written does not wait; a
\* post that has not found its routes has no copies.
WrittenOnce ==
    \A p \in DOMAIN posts, T \in Target :
        /\ posts[p].writes[T] <= 1
        /\ Waits(p, T) => posts[p].writes[T] = 0
        /\ Searching(p) => posts[p].writes[T] = 0 /\ ~ Waits(p, T)

\* A registration numbers its posts one after the other.
Numbered ==
    /\ nextSequenceId <= Len(posts)
    /\ \A p \in DOMAIN posts : posts[p].registration <= registrations
    /\ registered => \A p \in DOMAIN posts :
         posts[p].registration = registrations => posts[p].sequence <= nextSequenceId
    /\ \A p, q \in DOMAIN posts :
         posts[p].registration = posts[q].registration /\ posts[p].sequence = posts[q].sequence
           => p = q

Inv == Types /\ OnItsLast /\ OnePlace /\ WrittenOnce /\ Numbered /\ OrderKept

-----------------------------------------------------------------------------
(* Kept, by induction with the least number.                               *)

\* A nonempty set of numbers has a least element.
LEMMA NatMin == ASSUME NEW T, T \subseteq Nat, T # {} PROVE \E x \in T : \A y \in T : x <= y
<1> DEFINE R == {ss \in Nat \X Nat : ss[1] < ss[2]}
<1>1. IsWellFoundedOn(R, Nat)
  BY NatLessThanWellFounded DEF OpToRel
<1> HIDE DEF R
<1>2. \E x \in T : \A y \in T : ~ (<<y, x>> \in R)
  BY <1>1, WFMin
<1>3. PICK x \in T : \A y \in T : ~ (<<y, x>> \in R)
  BY <1>2
<1>4. \A y \in T : x <= y
  <2>1. TAKE y \in T
  <2>2. <<y, x>> \in Nat \X Nat
    OBVIOUS
  <2>3. <<y, x>> \notin R
    BY <1>3
  <2> QED BY <2>2, <2>3 DEF R
<1> QED BY <1>4

\* A set that holds 0, and each successor of its numbers, holds all of them.
LEMMA NatInd == ASSUME NEW T, 0 \in T, \A n \in Nat : n \in T => n + 1 \in T PROVE Nat \subseteq T
<1> SUFFICES ASSUME Nat \ T # {} PROVE FALSE
  OBVIOUS
<1>1. PICK x \in Nat \ T : \A y \in Nat \ T : x <= y
  BY NatMin
<1>2. x # 0 /\ x - 1 \in Nat /\ ~ (x <= x - 1)
  BY <1>1
<1>3. x - 1 \in T
  BY <1>1, <1>2
<1>4. (x - 1) + 1 = x
  BY <1>1
<1> QED BY <1>1, <1>2, <1>3, <1>4

\* F is the function Kept builds from the first n elements of s.
Keeps(F, n, s, I) ==
    F = [m \in 0 .. n |-> IF m = 0 THEN << >> ELSE IF m \in I THEN Append(F[m - 1], s[m]) ELSE F[m - 1]]

\* There is such a function for every n.
LEMMA KeepsExist == ASSUME NEW n \in Nat, NEW s, NEW I PROVE \E F : Keeps(F, n, s, I)
<1> DEFINE T == {m \in Nat : \E F : Keeps(F, m, s, I)}
<1>1. 0 \in T
  <2> DEFINE G == [m \in 0 .. 0 |-> << >>]
  <2>0. \A m \in 0 .. 0 : m = 0
    OBVIOUS
  <2>1. Keeps(G, 0, s, I)
    BY <2>0 DEF Keeps
  <2>2. \E F : Keeps(F, 0, s, I)
    BY <2>1
  <2> QED BY <2>2
<1>2. ASSUME NEW n1 \in Nat, n1 \in T PROVE n1 + 1 \in T
  <2>1. PICK F : Keeps(F, n1, s, I)
    BY <1>2
  <2> DEFINE G == [m \in 0 .. n1 + 1 |-> IF m \in 0 .. n1 THEN F[m]
                     ELSE IF m \in I THEN Append(F[m - 1], s[m]) ELSE F[m - 1]]
  <2>2. ASSUME NEW m \in 0 .. n1 + 1
        PROVE  G[m] = IF m = 0 THEN << >> ELSE IF m \in I THEN Append(G[m - 1], s[m]) ELSE G[m - 1]
    <3>1. CASE m = n1 + 1
      <4>1. m \notin 0 .. n1 /\ m # 0 /\ m - 1 \in 0 .. n1 /\ m - 1 \in 0 .. n1 + 1
        BY <3>1
      <4>2. G[m] = IF m \in I THEN Append(F[m - 1], s[m]) ELSE F[m - 1]
        BY <4>1
      <4>3. G[m - 1] = F[m - 1]
        BY <4>1
      <4> QED  BY <4>1, <4>2, <4>3
    <3>2. CASE m # n1 + 1
      <4>1. m \in 0 .. n1 /\ G[m] = F[m]
        BY <3>2
      <4>2. m # 0 => m - 1 \in 0 .. n1 + 1 /\ m - 1 \in 0 .. n1
        BY <4>1
      <4>3. m # 0 => G[m - 1] = F[m - 1]
        BY <4>2
      <4>4. F[m] = IF m = 0 THEN << >> ELSE IF m \in I THEN Append(F[m - 1], s[m]) ELSE F[m - 1]
        BY <2>1, <4>1 DEF Keeps
      <4> QED  BY <4>1, <4>3, <4>4
    <3> QED  BY <3>1, <3>2
  <2>3. G = [m \in 0 .. n1 + 1 |-> G[m]]
    OBVIOUS
  <2>4. Keeps(G, n1 + 1, s, I)
    <3> HIDE DEF G
    <3> QED  BY <2>2, <2>3 DEF Keeps
  <2>5. \E H : Keeps(H, n1 + 1, s, I)
    BY <2>4
  <2> QED  BY <2>5
<1>3. Nat \subseteq T
  <2> HIDE DEF T
  <2> QED  BY <1>1, <1>2, NatInd
<1> QED  BY <1>3

\* Kept is its value at the end.
LEMMA KeptUnfold == ASSUME NEW s, Len(s) \in Nat, NEW I
   PROVE \E F : Keeps(F, Len(s), s, I) /\ Kept(s, I) = F[Len(s)]
<1> DEFINE n == Len(s)
<1>1. \E F : Keeps(F, n, s, I)
  BY KeepsExist
<1>2. Kept(s, I) = (CHOOSE F : Keeps(F, n, s, I))[n]
  BY DEF Kept, Keeps
<1>3. Keeps(CHOOSE F : Keeps(F, n, s, I), n, s, I)
  <2> HIDE DEF n
  <2> QED  BY <1>1, Zenon
<1> QED  BY <1>2, <1>3

\* u takes, in their order, the elements at the positions of I among the first n of s: P[a]
\* is the position of the element that is now at a.
Picks(P, u, n, s, I) ==
    /\ P \in [1 .. Len(u) -> 1 .. n]
    /\ \A a \in 1 .. Len(u) : P[a] \in I /\ u[a] = s[P[a]]
    /\ \A a, b \in 1 .. Len(u) : a < b => P[a] < P[b]
    /\ \A i \in 1 .. n : i \in I => \E a \in 1 .. Len(u) : P[a] = i

\* What the function has after n elements takes those of I among them.
LEMMA KeepsPicks ==
  ASSUME NEW X, NEW s \in Seq(X), NEW I, NEW F, Keeps(F, Len(s), s, I)
  PROVE  \A n \in 0 .. Len(s) : F[n] \in Seq(X) /\ Len(F[n]) <= n /\ \E P : Picks(P, F[n], n, s, I)
<1> DEFINE N == Len(s)
           T == {n \in Nat : n <= N =>
                   F[n] \in Seq(X) /\ Len(F[n]) <= n /\ \E P : Picks(P, F[n], n, s, I)}
<1>0. N \in Nat
  OBVIOUS
<1>1. 0 \in T
  <2>1. F[0] = << >>
    <3>1. 0 \in 0 .. N
      OBVIOUS
    <3> QED  BY <3>1 DEF Keeps
  <2>2. << >> \in Seq(X) /\ Len(<< >>) = 0 /\ 1 .. 0 = {}
    OBVIOUS
  <2> DEFINE P == [a \in 1 .. 0 |-> 0]
  <2>3. Picks(P, << >>, 0, s, I)
    BY <2>2 DEF Picks
  <2>4. \E Q : Picks(Q, F[0], 0, s, I)
    BY <2>1, <2>3
  <2>5. F[0] \in Seq(X) /\ Len(F[0]) <= 0
    BY <2>1, <2>2
  <2> HIDE DEF P
  <2> QED  BY <2>4, <2>5
<1>2. ASSUME NEW n \in Nat, n \in T PROVE n + 1 \in T
  <2> SUFFICES ASSUME n + 1 <= N
               PROVE  F[n + 1] \in Seq(X) /\ Len(F[n + 1]) <= n + 1 /\ \E P : Picks(P, F[n + 1], n + 1, s, I)
    OBVIOUS
  <2>1. n <= N /\ n \in 0 .. N /\ n + 1 \in 0 .. N /\ n + 1 \in 1 .. N /\ n + 1 # 0 /\ (n + 1) - 1 = n
    BY <1>0
  <2>2. F[n] \in Seq(X) /\ Len(F[n]) <= n /\ Len(F[n]) \in Nat /\ \E P : Picks(P, F[n], n, s, I)
    BY <1>2, <2>1
  <2>3. PICK P : Picks(P, F[n], n, s, I)
    BY <2>2
  <2>4. F[n + 1] = IF n + 1 \in I THEN Append(F[n], s[n + 1]) ELSE F[n]
    BY <2>1 DEF Keeps
  <2>5. s[n + 1] \in X
    BY <2>1
  <2>6. CASE n + 1 \in I
    <3> DEFINE u == F[n]
               v == Append(u, s[n + 1])
               Q == [a \in 1 .. Len(v) |-> IF a \in 1 .. Len(u) THEN P[a] ELSE n + 1]
    <3>1. /\ v \in Seq(X) /\ Len(v) = Len(u) + 1 /\ v[Len(u) + 1] = s[n + 1]
          /\ \A a \in 1 .. Len(u) : v[a] = u[a]
      BY <2>2, <2>5
    <3>2. /\ \A a \in 1 .. Len(v) : a \in 1 .. Len(u) \/ (a = Len(u) + 1 /\ a \notin 1 .. Len(u))
          /\ Len(u) + 1 \in 1 .. Len(v) /\ Len(u) + 1 \notin 1 .. Len(u)
          /\ \A a \in 1 .. Len(u) : a \in 1 .. Len(v)
      BY <2>2, <3>1
    <3>3. /\ \A a \in 1 .. Len(u) : Q[a] = P[a] /\ P[a] \in 1 .. n /\ P[a] \in 1 .. n + 1 /\ P[a] < n + 1
          /\ Q[Len(u) + 1] = n + 1
      <4>1. \A a \in 1 .. Len(u) : Q[a] = P[a]
        BY <3>2
      <4>2. Q[Len(u) + 1] = n + 1
        BY <3>2
      <4>3. \A a \in 1 .. Len(u) : P[a] \in 1 .. n
        BY <2>3 DEF Picks
      <4>4. \A x \in 1 .. n : x \in 1 .. n + 1 /\ x < n + 1
        OBVIOUS
      <4> HIDE DEF Q, u, v
      <4> QED  BY <4>1, <4>2, <4>3, <4>4
    <3>4. Q \in [1 .. Len(v) -> 1 .. n + 1]
      <4>1. \A a \in 1 .. Len(v) : Q[a] \in 1 .. n + 1
        <5>1. n + 1 \in 1 .. n + 1
          OBVIOUS
        <5> HIDE DEF Q, u, v
        <5> QED  BY <3>2, <3>3, <5>1
      <4>2. Q = [a \in 1 .. Len(v) |-> Q[a]]
        OBVIOUS
      <4> HIDE DEF Q
      <4> QED  BY <4>1, <4>2
    <3>5. \A a \in 1 .. Len(u) : P[a] \in I /\ u[a] = s[P[a]]
      BY <2>3 DEF Picks
    <3>6. \A a, b \in 1 .. Len(u) : a < b => P[a] < P[b]
      BY <2>3 DEF Picks
    <3>7. \A i \in 1 .. n : i \in I => \E a \in 1 .. Len(u) : P[a] = i
      BY <2>3 DEF Picks
    <3> HIDE DEF Q
    <3>8. \A a \in 1 .. Len(v) : Q[a] \in I /\ v[a] = s[Q[a]]
      <4> HIDE DEF u, v
      <4> QED  BY <2>6, <3>1, <3>2, <3>3, <3>5
    <3>9. \A a, b \in 1 .. Len(v) : a < b => Q[a] < Q[b]
      <4> SUFFICES ASSUME NEW a \in 1 .. Len(v), NEW b \in 1 .. Len(v), a < b PROVE Q[a] < Q[b]
        OBVIOUS
      <4>1. a \in 1 .. Len(u)
        BY <2>2, <3>1
      <4> HIDE DEF u, v
      <4>2. CASE b \in 1 .. Len(u)
        BY <3>3, <3>6, <4>1, <4>2
      <4>3. CASE b = Len(u) + 1
        BY <3>3, <4>1, <4>3
      <4> QED  BY <3>2, <4>2, <4>3
    <3>10. \A i \in 1 .. n + 1 : i \in I => \E a \in 1 .. Len(v) : Q[a] = i
      <4> SUFFICES ASSUME NEW i \in 1 .. n + 1, i \in I PROVE \E a \in 1 .. Len(v) : Q[a] = i
        OBVIOUS
      <4>1. i \in 1 .. n \/ i = n + 1
        OBVIOUS
      <4> HIDE DEF u, v
      <4> QED  BY <3>2, <3>3, <3>7, <4>1
    <3>11. Picks(Q, v, n + 1, s, I)
      <4> HIDE DEF u, v
      <4> QED  BY <3>4, <3>8, <3>9, <3>10 DEF Picks
    <3>12. F[n + 1] = v
      BY <2>4, <2>6
    <3>13. Len(v) <= n + 1
      <4>1. \A x, y \in Nat : x <= y => x + 1 <= y + 1
        OBVIOUS
      <4> QED  BY <2>2, <3>1, <4>1
    <3> HIDE DEF v
    <3> QED  BY <3>1, <3>11, <3>12, <3>13
  <2>7. CASE n + 1 \notin I
    <3>1. F[n + 1] = F[n]
      BY <2>4, <2>7
    <3>2. Picks(P, F[n], n + 1, s, I)
      <4>1. \A x \in 1 .. n + 1 : x \in 1 .. n \/ x = n + 1
        OBVIOUS
      <4>2. \A x \in 1 .. n : x \in 1 .. n + 1
        OBVIOUS
      <4> QED  BY <2>3, <2>7, <4>1, <4>2 DEF Picks
    <3>3. Len(F[n]) <= n + 1
      BY <2>2
    <3> QED  BY <2>2, <3>1, <3>2, <3>3
  <2> QED  BY <2>6, <2>7
<1>3. Nat \subseteq T
  <2> HIDE DEF T
  <2> QED  BY <1>1, <1>2, NatInd
<1> QED  BY <1>0, <1>3

\* Kept takes the elements at the positions of I, and nothing else, in their order.
LEMMA KeptPicks ==
  ASSUME NEW X, NEW s \in Seq(X), NEW I
  PROVE  /\ Kept(s, I) \in Seq(X) /\ Len(Kept(s, I)) <= Len(s)
         /\ \E P : Picks(P, Kept(s, I), Len(s), s, I)
<1>1. PICK F : Keeps(F, Len(s), s, I) /\ Kept(s, I) = F[Len(s)]
  BY KeptUnfold
<1>2. Len(s) \in 0 .. Len(s)
  OBVIOUS
<1> QED  BY <1>1, <1>2, KeepsPicks

\* u has some of the elements of s, in their order.
Within(u, s) ==
    /\ \A a \in DOMAIN u : \E i \in DOMAIN s : u[a] = s[i]
    /\ \A a, b \in DOMAIN u : a < b => \E i, j \in DOMAIN s : i < j /\ u[a] = s[i] /\ u[b] = s[j]

LEMMA KeptWithin ==
  ASSUME NEW X, NEW s \in Seq(X), NEW I
  PROVE  /\ Within(Kept(s, I), s)
         /\ \A a \in DOMAIN Kept(s, I) : \E i \in DOMAIN s : i \in I /\ Kept(s, I)[a] = s[i]
         /\ \A i \in DOMAIN s : i \in I => \E a \in DOMAIN Kept(s, I) : Kept(s, I)[a] = s[i]
<1> DEFINE u == Kept(s, I)
<1>1. u \in Seq(X) /\ \E P : Picks(P, u, Len(s), s, I)
  BY KeptPicks
<1> HIDE DEF u
<1>2. PICK P : Picks(P, u, Len(s), s, I)
  BY <1>1
<1>3. DOMAIN u = 1 .. Len(u) /\ DOMAIN s = 1 .. Len(s)
  BY <1>1
<1>4. \A a \in DOMAIN u : P[a] \in DOMAIN s /\ P[a] \in I /\ u[a] = s[P[a]]
  BY <1>2, <1>3 DEF Picks
<1>5. \A a, b \in DOMAIN u : a < b => P[a] < P[b]
  BY <1>2, <1>3 DEF Picks
<1>6. \A i \in DOMAIN s : i \in I => \E a \in DOMAIN u : P[a] = i
  BY <1>2, <1>3 DEF Picks
<1>7. Within(u, s)
  BY <1>4, <1>5 DEF Within
<1>8. /\ \A a \in DOMAIN u : \E i \in DOMAIN s : i \in I /\ u[a] = s[i]
      /\ \A i \in DOMAIN s : i \in I => \E a \in DOMAIN u : u[a] = s[i]
  BY <1>4, <1>6
<1> QED  BY <1>7, <1>8 DEF u

\* What follows the first element.
LEMMA TailWithin ==
  ASSUME NEW X, NEW s \in Seq(X), s # << >>
  PROVE  /\ Tail(s) \in Seq(X) /\ Head(s) \in X /\ Within(Tail(s), s)
         /\ Len(Tail(s)) = Len(s) - 1 /\ Len(s) >= 1
         /\ 1 \in DOMAIN s /\ Head(s) = s[1]
         /\ \A a \in DOMAIN Tail(s) : a + 1 \in DOMAIN s /\ a + 1 # 1 /\ Tail(s)[a] = s[a + 1]
<1>1. /\ Tail(s) \in Seq(X) /\ Head(s) \in X
      /\ 1 \in DOMAIN s /\ Head(s) = s[1]
      /\ Len(Tail(s)) = Len(s) - 1 /\ Len(s) >= 1
      /\ \A a \in DOMAIN Tail(s) : a + 1 \in DOMAIN s /\ a + 1 # 1 /\ Tail(s)[a] = s[a + 1]
  OBVIOUS
<1>2. \A a, b \in DOMAIN Tail(s) : a < b => a + 1 < b + 1
  BY <1>1
<1>3. Within(Tail(s), s)
  <2> DEFINE u == Tail(s)
  <2> HIDE DEF u
  <2> QED  BY <1>1, <1>2 DEF Within, u
<1> QED  BY <1>1, <1>3

\* One element more at the end.
LEMMA AppendParts ==
  ASSUME NEW X, NEW s \in Seq(X), NEW e \in X
  PROVE  /\ Append(s, e) \in Seq(X) /\ Len(Append(s, e)) = Len(s) + 1
         /\ DOMAIN Append(s, e) = DOMAIN s \cup {Len(s) + 1}
         /\ Append(s, e)[Len(s) + 1] = e
         /\ \A i \in DOMAIN s : Append(s, e)[i] = s[i] /\ i < Len(s) + 1 /\ i # Len(s) + 1
  OBVIOUS

LEMMA DistinctWithin ==
  ASSUME NEW X, NEW u \in Seq(X), NEW s \in Seq(X), Within(u, s), \A i, j \in DOMAIN s : s[i] = s[j] => i = j
  PROVE  \A a, b \in DOMAIN u : u[a] = u[b] => a = b
<1> SUFFICES ASSUME NEW a \in DOMAIN u, NEW b \in DOMAIN u, u[a] = u[b], a # b PROVE FALSE
  OBVIOUS
<1>1. DOMAIN u \subseteq Nat /\ DOMAIN s \subseteq Nat
  OBVIOUS
<1>2. a < b \/ b < a
  BY <1>1
<1>3. \A i, j \in Nat : i < j => i # j
  OBVIOUS
<1> QED  BY <1>1, <1>2, <1>3 DEF Within

-----------------------------------------------------------------------------
\* An actor that starts is registered and has sent nothing.
LEMMA InvInit == Init => Inv
<1> USE BoundAssumption, LocalAssumption
<1> SUFFICES ASSUME Init PROVE Inv
  OBVIOUS
<1>1. << >> \in Seq(Entry) /\ << >> \in Seq(PostRecord) /\ << >> \in Seq(Route) /\ Len(<< >>) = 0
  OBVIOUS
<1>2. routes \in Seq(Route) /\ IsInjective(routes)
  <2>1. CASE routes = << >>
    BY <1>1, <2>1 DEF IsInjective
  <2>2. CASE routes = <<Local>>
    BY <2>2 DEF IsInjective, Route
  <2> QED  BY <2>1, <2>2 DEF Init
<1>3. Types
  BY <1>1, <1>2 DEF Init, Types, TypeOK, Idle, Sending, Main
<1>4. DOMAIN posts = {} /\ DOMAIN outbox = {} /\ Resending = << >> /\ DOMAIN Resending = {}
  BY DEF Init, Resending, Idle
<1>5. \A t \in Thread : Todo(t) = << >> /\ DOMAIN Todo(t) = {}
  BY DEF Init, Todo, Idle
<1>6. OnItsLast /\ OnePlace
  BY <1>4, <1>5 DEF Init, Idle, Active, OnItsLast, OnePlace, EntriesSound
<1>7. WrittenOnce /\ Numbered /\ OrderKept
  BY <1>1, <1>4 DEF Init, WrittenOnce, Numbered, OrderKept
<1> QED  BY <1>3, <1>6, <1>7 DEF Inv

-----------------------------------------------------------------------------
(* What the threads and the main thread have in hand.                      *)

InLoop(t) == sending[t].step \in {"route", "send", "enqueue"}

LEMMA SendingParts ==
  ASSUME Types, NEW t \in Thread
  PROVE  /\ sending[t].step \in {"idle", "find", "route", "send", "enqueue"}
         /\ ~ Active(t) => sending[t] \in [step : {"idle"}]
         /\ Active(t) => sending[t].post \in Post
         /\ InLoop(t) => /\ sending[t] \in [step : {"route", "send", "enqueue"}, post : Post, todo : Seq(Target)]
                         /\ Todo(t) = sending[t].todo /\ Todo(t) # << >>
         /\ ~ InLoop(t) => Todo(t) = << >>
         /\ Todo(t) \in Seq(Target)
<1>1. sending[t] \in Sending
  BY DEF Types
<1>2. << >> \in Seq(Target)
  OBVIOUS
<1>3. InLoop(t) => sending[t].todo # << >>
  BY DEF Types, InLoop
<1> QED  BY <1>1, <1>2, <1>3 DEF Sending, Active, InLoop, Todo

LEMMA MainParts ==
  ASSUME Types
  PROVE  /\ main.step \in {"idle", "drain", "resend"}
         /\ main.step = "drain" => main \in [step : {"drain"}, target : Target]
         /\ main.step = "resend" => /\ main \in [step : {"resend"}, entries : Seq(Entry)]
                                    /\ Resending = main.entries /\ Resending # << >>
         /\ main.step # "resend" => Resending = << >>
         /\ Resending \in Seq(Entry)
<1>1. main \in Main
  BY DEF Types
<1>2. << >> \in Seq(Entry)
  OBVIOUS
<1>3. main.step = "resend" => main.entries # << >>
  BY DEF Types
<1> QED  BY <1>1, <1>2, <1>3 DEF Main, Resending

\* What the threads have in hand has the types it should.
SendingTyped ==
    /\ sending \in [Thread -> Sending]
    /\ \A t \in Thread : sending[t].step \in {"idle", "find", "route", "send", "enqueue"}
    /\ \A t \in Thread : sending[t].step \in {"route", "send", "enqueue"} => sending[t].todo # << >>

\* Only t goes on, with todo left of its routes.
GoesOn(t, todo) ==
    /\ \A u \in Thread : u # t => sending'[u] = sending[u]
    /\ \A u \in Thread : u # t => Todo(u)' = Todo(u)
    /\ Todo(t)' = todo
    /\ Active(t)' => sending'[t].post = sending[t].post /\ sending'[t].step # "find"

\* Continue goes on to the next route, or ends the loop.
LEMMA ContinueGoesOn ==
  ASSUME Types, NEW t \in Thread, Active(t), NEW todo \in Seq(Target), Continue(t, todo)
  PROVE  SendingTyped' /\ GoesOn(t, todo)
<1> DEFINE r == [step |-> "route", post |-> sending[t].post, todo |-> todo]
<1>1. sending \in [Thread -> Sending] /\ sending[t].post \in Post
  BY SendingParts DEF Types
<1>2. sending' = [sending EXCEPT ![t] = IF todo = << >> THEN Idle ELSE r]
  BY DEF Continue
<1>3. r \in Sending /\ Idle \in Sending
  BY <1>1 DEF Sending, Idle
<1>4. r.step = "route" /\ r.post = sending[t].post /\ r.todo = todo /\ Idle.step = "idle"
  BY DEF Idle
<1> HIDE DEF r
<1>5. /\ sending' \in [Thread -> Sending]
      /\ sending'[t] = IF todo = << >> THEN Idle ELSE r
      /\ \A u \in Thread : u # t => sending'[u] = sending[u]
  BY <1>1, <1>2, <1>3
<1>6. SendingTyped'
  BY <1>4, <1>5 DEF SendingTyped, Types, TypeOK
<1>7. Todo(t)' = todo
  BY <1>4, <1>5 DEF Todo
<1>8. \A u \in Thread : u # t => Todo(u)' = Todo(u)
  BY <1>5 DEF Todo
<1>9. Active(t)' => sending'[t].post = sending[t].post /\ sending'[t].step # "find"
  BY <1>4, <1>5 DEF Active
<1> QED  BY <1>5, <1>6, <1>7, <1>8, <1>9 DEF GoesOn

\* GoTo stays at the route.
LEMMA GoToGoesOn ==
  ASSUME Types, NEW t \in Thread, InLoop(t), NEW step \in {"send", "enqueue"}, GoTo(t, step)
  PROVE  SendingTyped' /\ GoesOn(t, Todo(t))
<1>1. /\ sending \in [Thread -> Sending]
      /\ sending[t] \in [step : {"route", "send", "enqueue"}, post : Post, todo : Seq(Target)]
      /\ Todo(t) = sending[t].todo /\ Todo(t) # << >>
  BY SendingParts DEF Types
<1>2. sending' = [sending EXCEPT ![t] = [sending[t] EXCEPT !.step = step]]
  BY DEF GoTo
<1> DEFINE r == [sending[t] EXCEPT !.step = step]
<1>3. /\ r \in [step : {"route", "send", "enqueue"}, post : Post, todo : Seq(Target)]
      /\ r.step = step /\ r.post = sending[t].post /\ r.todo = sending[t].todo
  BY <1>1
<1>4. r \in Sending
  BY <1>3 DEF Sending
<1> HIDE DEF r
<1>5. /\ sending' \in [Thread -> Sending] /\ sending'[t] = r
      /\ \A u \in Thread : u # t => sending'[u] = sending[u]
  BY <1>1, <1>2, <1>4 DEF r
<1>6. SendingTyped'
  BY <1>1, <1>3, <1>5 DEF SendingTyped, Types, TypeOK
<1>7. Todo(t)' = Todo(t)
  BY <1>1, <1>3, <1>5 DEF Todo
<1>8. \A u \in Thread : u # t => Todo(u)' = Todo(u)
  BY <1>5 DEF Todo
<1>9. Active(t)' => sending'[t].post = sending[t].post /\ sending'[t].step # "find"
  BY <1>3, <1>5 DEF Active
<1> QED  BY <1>5, <1>6, <1>7, <1>8, <1>9 DEF GoesOn

-----------------------------------------------------------------------------
(* What a step does to the posts.                                          *)

\* The posts are those there were, numbered as they were.
SamePosts ==
    /\ posts' \in Seq(PostRecord) /\ Len(posts') = Len(posts) /\ DOMAIN posts' = DOMAIN posts
    /\ \A p \in DOMAIN posts :
         /\ posts'[p].thread = posts[p].thread /\ posts'[p].sequence = posts[p].sequence
         /\ posts'[p].registration = posts[p].registration

\* The posts there were are numbered as they were.
OldPosts ==
    \A p \in DOMAIN posts :
        /\ p \in DOMAIN posts'
        /\ posts'[p].thread = posts[p].thread /\ posts'[p].sequence = posts[p].sequence
        /\ posts'[p].registration = posts[p].registration

\* What was written is as it was but for post q.
SameWritesBut(q) ==
    \A p \in DOMAIN posts : p # q => posts'[p] = posts[p]

LEMMA PostParts ==
  ASSUME Types
  PROVE  /\ posts \in Seq(PostRecord) /\ Len(posts) \in Nat /\ DOMAIN posts = 1 .. Len(posts)
         /\ DOMAIN posts \subseteq Nat /\ Len(posts) <= MaxPosts /\ DOMAIN posts \subseteq Post
         /\ \A p \in DOMAIN posts : posts[p] \in PostRecord
<1> USE BoundAssumption
<1>1. posts \in Seq(PostRecord) /\ Len(posts) <= MaxPosts
  BY DEF Types, TypeOK
<1>2. DOMAIN posts = 1 .. Len(posts) /\ Len(posts) \in Nat
  BY <1>1
<1>3. DOMAIN posts \subseteq Post
  BY <1>1, <1>2 DEF Post
<1>4. \A p \in DOMAIN posts : posts[p] \in PostRecord
  BY <1>1
<1> QED  BY <1>1, <1>2, <1>3, <1>4

LEMMA UnchangedPosts == ASSUME Types, UNCHANGED posts PROVE SamePosts /\ \A q : SameWritesBut(q)
  BY PostParts DEF SamePosts, SameWritesBut

LEMMA PostChanges ==
  ASSUME Types, NEW q \in DOMAIN posts, NEW r \in PostRecord, posts' = [posts EXCEPT ![q] = r],
         r.thread = posts[q].thread, r.sequence = posts[q].sequence, r.registration = posts[q].registration
  PROVE  SamePosts /\ SameWritesBut(q) /\ posts'[q] = r
<1>1. posts \in Seq(PostRecord) /\ DOMAIN posts = 1 .. Len(posts)
  BY PostParts
<1>2. /\ posts' \in Seq(PostRecord) /\ Len(posts') = Len(posts) /\ DOMAIN posts' = DOMAIN posts
      /\ \A p \in DOMAIN posts : posts'[p] = IF p = q THEN r ELSE posts[p]
  BY <1>1
<1> QED  BY <1>2 DEF SamePosts, SameWritesBut

LEMMA WritesOf ==
  ASSUME Types, NEW p \in DOMAIN posts
  PROVE  posts[p].writes \in [Target -> Nat] /\ \A T \in Target : posts[p].writes[T] \in Nat
<1>1. posts[p] \in PostRecord
  BY PostParts
<1> QED  BY <1>1 DEF PostRecord

\* The channel is to a server when it accepts; one copy of the post is written.
LEMMA AcceptWrites ==
  ASSUME Types, NEW q \in DOMAIN posts, NEW T \in Target, ChannelAccepts(q, T)
  PROVE  /\ SamePosts /\ SameWritesBut(q)
         /\ \A U \in Target : posts'[q].writes[U] = IF U = T THEN posts[q].writes[U] + 1
                                                           ELSE posts[q].writes[U]
<1> DEFINE w == [posts[q].writes EXCEPT ![T] = @ + 1]
           r == [posts[q] EXCEPT !.writes = w, !.reached = @ \cup {<<T, Channel>>}]
<1>1. posts[q] \in PostRecord /\ Channel \in Target /\ posts[q].writes \in [Target -> Nat]
  BY PostParts, WritesOf DEF ChannelAccepts, Types, TypeOK
<1>2. posts' = [posts EXCEPT ![q] = r]
  BY DEF ChannelAccepts
<1>3. /\ w \in [Target -> Nat]
      /\ \A U \in Target : w[U] = IF U = T THEN posts[q].writes[U] + 1 ELSE posts[q].writes[U]
  BY <1>1
<1> HIDE DEF w
<1>4. /\ r \in PostRecord /\ r.thread = posts[q].thread /\ r.sequence = posts[q].sequence
      /\ r.registration = posts[q].registration /\ r.writes = w
  <2>1. posts[q].reached \cup {<<T, Channel>>} \in SUBSET (Target \X Target)
    BY <1>1 DEF PostRecord
  <2> QED  BY <1>1, <1>3, <2>1 DEF PostRecord
<1> HIDE DEF r
<1> QED  BY <1>2, <1>3, <1>4, PostChanges

\* The posts a thread or a resend has in hand exist.
LEMMA HandPosts ==
  ASSUME Inv
  PROVE  /\ \A t \in Thread : Active(t) => sending[t].post \in DOMAIN posts
         /\ main.step = "resend" => /\ Head(main.entries) \in Entry /\ Head(main.entries).post \in DOMAIN posts
                                    /\ Resending = main.entries /\ Resending # << >>
<1>1. \A t \in Thread : Active(t) => sending[t].post \in DOMAIN posts
  BY DEF Inv, OnItsLast
<1>2. ASSUME main.step = "resend"
      PROVE  /\ Head(main.entries) \in Entry /\ Head(main.entries).post \in DOMAIN posts
             /\ Resending = main.entries /\ Resending # << >>
  <2>1. Resending \in Seq(Entry) /\ Resending = main.entries /\ Resending # << >>
    BY <1>2, MainParts DEF Inv
  <2>2. 1 \in DOMAIN Resending /\ Head(Resending) = Resending[1] /\ Head(Resending) \in Entry
    BY <2>1, TailWithin
  <2> QED  BY <2>1, <2>2 DEF Inv, OnePlace, EntriesSound
<1> QED  BY <1>1, <1>2

-----------------------------------------------------------------------------
(* Steps after which no more is in hand than before.                       *)

\* No thread has routes it did not have.
ThreadsShrink ==
    \A u \in Thread :
        /\ Todo(u)' \in Seq(Target) /\ Within(Todo(u)', Todo(u))
        /\ \A k \in DOMAIN Todo(u)' : sending'[u].post = sending[u].post

LEMMA SameWithin == \A s : (\A a, b \in DOMAIN s : a < b => a < b) => Within(s, s)
  BY DEF Within

LEMMA EmptyWithin == \A s : Within(<< >>, s)
<1>1. DOMAIN << >> = {}
  OBVIOUS
<1> QED  BY <1>1 DEF Within

LEMMA ActiveWithTodo ==
  ASSUME NEW t \in Thread, NEW k \in DOMAIN Todo(t) PROVE InLoop(t) /\ Active(t)
<1>1. Todo(t) # << >> => InLoop(t)
  BY DEF Todo, InLoop
<1>2. DOMAIN << >> = {}
  OBVIOUS
<1>3. InLoop(t) => Active(t)
  BY DEF InLoop, Active
<1> QED  BY <1>1, <1>2, <1>3

LEMMA LoopShrinks ==
  ASSUME Types, NEW t \in Thread, NEW todo \in Seq(Target), GoesOn(t, todo), Within(todo, Todo(t))
  PROVE  ThreadsShrink
<1> SUFFICES ASSUME NEW u \in Thread
             PROVE  /\ Todo(u)' \in Seq(Target) /\ Within(Todo(u)', Todo(u))
                    /\ \A k \in DOMAIN Todo(u)' : sending'[u].post = sending[u].post
  BY DEF ThreadsShrink
<1>1. CASE u = t
  <2>1. ASSUME NEW k \in DOMAIN Todo(u)' PROVE Active(t)'
    <3>1. DOMAIN << >> = {}
      OBVIOUS
    <3>2. Todo(t)' # << >> => sending'[t].step \in {"route", "send", "enqueue"}
      BY DEF Todo
    <3> QED  BY <1>1, <2>1, <3>1, <3>2 DEF Active
  <2> QED  BY <1>1, <2>1 DEF GoesOn
<1>2. CASE u # t
  BY <1>2, SameWithin, SendingParts DEF GoesOn
<1> QED  BY <1>1, <1>2

LEMMA SameThreads == ASSUME Types, UNCHANGED sending PROVE ThreadsShrink
<1>1. \A u \in Thread : Todo(u)' = Todo(u)
  BY DEF Todo
<1> QED  BY <1>1, SameWithin, SendingParts DEF ThreadsShrink

\* The entries of a sequence of entries stay sound in what is within it.
LEMMA SoundWithin ==
  ASSUME Inv, OldPosts, NEW s \in Seq(Entry), NEW u \in Seq(Entry), Within(u, s), EntriesSound(s)
  PROVE  /\ \A i \in DOMAIN u : u[i].post \in DOMAIN posts' /\ u[i].sequence = posts'[u[i].post].sequence
         /\ \A i, j \in DOMAIN u : u[i].post = u[j].post /\ u[i].target = u[j].target => i = j
<1>1. \A i \in DOMAIN u : \E a \in DOMAIN s : u[i] = s[a]
  BY DEF Within
<1>2. \A i \in DOMAIN u : u[i].post \in DOMAIN posts' /\ u[i].sequence = posts'[u[i].post].sequence
  BY <1>1 DEF EntriesSound, OldPosts
<1>3. ASSUME NEW i \in DOMAIN u, NEW j \in DOMAIN u, u[i].post = u[j].post, u[i].target = u[j].target, i # j
      PROVE  FALSE
  <2>1. i \in Nat /\ j \in Nat /\ DOMAIN s \subseteq Nat
    OBVIOUS
  <2>2. i < j \/ j < i
    BY <1>3, <2>1
  <2>3. \A a, b \in Nat : a < b => a # b
    OBVIOUS
  <2>4. ASSUME NEW a \in DOMAIN s, NEW b \in DOMAIN s, a # b
        PROVE  ~ (s[a].post = s[b].post /\ s[a].target = s[b].target)
    BY <2>4 DEF EntriesSound
  <2>5. \A k, l \in DOMAIN u : k < l => \E a, b \in DOMAIN s : a # b /\ u[k] = s[a] /\ u[l] = s[b]
    BY <2>1, <2>3 DEF Within
  <2>6. PICK a \in DOMAIN s, b \in DOMAIN s :
          a # b /\ ((u[i] = s[a] /\ u[j] = s[b]) \/ (u[j] = s[a] /\ u[i] = s[b]))
    BY <2>2, <2>5
  <2> QED  BY <1>3, <2>4, <2>6
<1> QED  BY <1>2, <1>3

LEMMA OutboxParts ==
  ASSUME Types PROVE outbox \in Seq(Entry) /\ DOMAIN outbox = 1 .. Len(outbox) /\ Len(outbox) \in Nat
<1>1. outbox \in Seq(Entry)
  BY DEF Types, TypeOK
<1> QED  BY <1>1

\* If no more is in hand, everything still waits in one place, in its order.
LEMMA ShrinkKeepsOld ==
  ASSUME Inv, OldPosts, ThreadsShrink, outbox' \in Seq(Entry), Resending' \in Seq(Entry),
         Within(outbox', outbox), Within(Resending', Resending)
  PROVE  /\ OnePlace' /\ OrderKept'
         /\ \A p, T : Waits(p, T)' => Waits(p, T)
<1>1. outbox \in Seq(Entry) /\ Resending \in Seq(Entry)
  BY OutboxParts, MainParts DEF Inv
<1>2. EntriesSound(outbox)'
  <2>1. EntriesSound(outbox)
    BY DEF Inv, OnePlace
  <2>2. /\ \A i \in DOMAIN outbox' : outbox'[i].post \in DOMAIN posts' /\ outbox'[i].sequence = posts'[outbox'[i].post].sequence
        /\ \A i, j \in DOMAIN outbox' : outbox'[i].post = outbox'[j].post /\ outbox'[i].target = outbox'[j].target => i = j
    BY <1>1, <2>1, SoundWithin
  <2> QED  BY <2>2 DEF EntriesSound
<1>3. EntriesSound(Resending)'
  <2>1. EntriesSound(Resending)
    BY DEF Inv, OnePlace
  <2>2. /\ \A i \in DOMAIN Resending' : Resending'[i].post \in DOMAIN posts' /\ Resending'[i].sequence = posts'[Resending'[i].post].sequence
        /\ \A i, j \in DOMAIN Resending' : Resending'[i].post = Resending'[j].post /\ Resending'[i].target = Resending'[j].target => i = j
    BY <1>1, <2>1, SoundWithin
  <2> QED  BY <2>2 DEF EntriesSound
<1>4. /\ \A i \in DOMAIN outbox' : \E a \in DOMAIN outbox : outbox'[i] = outbox[a]
      /\ \A i \in DOMAIN Resending' : \E a \in DOMAIN Resending : Resending'[i] = Resending[a]
      /\ \A u \in Thread : \A k \in DOMAIN Todo(u)' :
           sending'[u].post = sending[u].post /\ \E a \in DOMAIN Todo(u) : Todo(u)'[k] = Todo(u)[a]
  BY DEF Within, ThreadsShrink
<1>5. \A i \in DOMAIN outbox', j \in DOMAIN Resending' :
        ~ (outbox'[i].post = Resending'[j].post /\ outbox'[i].target = Resending'[j].target)
  <2>1. \A i \in DOMAIN outbox, j \in DOMAIN Resending :
          ~ (outbox[i].post = Resending[j].post /\ outbox[i].target = Resending[j].target)
    BY DEF Inv, OnePlace
  <2> QED  BY <1>4, <2>1
<1>6. \A u \in Thread : \A i, j \in DOMAIN Todo(u)' : Todo(u)'[i] = Todo(u)'[j] => i = j
  <2> SUFFICES ASSUME NEW u \in Thread PROVE \A i, j \in DOMAIN Todo(u)' : Todo(u)'[i] = Todo(u)'[j] => i = j
    OBVIOUS
  <2>1. Todo(u) \in Seq(Target) /\ \A i, j \in DOMAIN Todo(u) : Todo(u)[i] = Todo(u)[j] => i = j
    BY SendingParts DEF Inv, OnePlace
  <2>2. Todo(u)' \in Seq(Target) /\ Within(Todo(u)', Todo(u))
    BY DEF ThreadsShrink
  <2> QED  BY <2>1, <2>2, DistinctWithin
<1>7. \A u \in Thread : \A k \in DOMAIN Todo(u)' :
        /\ \A i \in DOMAIN outbox' : ~ (outbox'[i].post = sending'[u].post /\ outbox'[i].target = Todo(u)'[k])
        /\ \A i \in DOMAIN Resending' : ~ (Resending'[i].post = sending'[u].post /\ Resending'[i].target = Todo(u)'[k])
  <2>1. \A u \in Thread : \A k \in DOMAIN Todo(u) :
          /\ \A i \in DOMAIN outbox : ~ (outbox[i].post = sending[u].post /\ outbox[i].target = Todo(u)[k])
          /\ \A i \in DOMAIN Resending : ~ (Resending[i].post = sending[u].post /\ Resending[i].target = Todo(u)[k])
    BY DEF Inv, OnePlace
  <2> QED  BY <1>4, <2>1
<1>8. OnePlace'
  BY <1>2, <1>3, <1>5, <1>6, <1>7 DEF OnePlace
<1>9. OrderKept'
  <2> SUFFICES ASSUME NEW i \in DOMAIN outbox', NEW j \in DOMAIN outbox', i < j,
                      outbox'[i].target = outbox'[j].target,
                      posts'[outbox'[i].post].thread = posts'[outbox'[j].post].thread
               PROVE  outbox'[i].post < outbox'[j].post
    BY DEF OrderKept
  <2>1. PICK a \in DOMAIN outbox, b \in DOMAIN outbox : a < b /\ outbox'[i] = outbox[a] /\ outbox'[j] = outbox[b]
    BY DEF Within
  <2>2. outbox[a].post \in DOMAIN posts /\ outbox[b].post \in DOMAIN posts
    BY DEF Inv, OnePlace, EntriesSound
  <2>3. posts[outbox[a].post].thread = posts[outbox[b].post].thread
    BY <2>1, <2>2 DEF OldPosts
  <2> QED  BY <2>1, <2>3 DEF Inv, OrderKept
<1>10. ASSUME NEW p, NEW T, Waits(p, T)' PROVE Waits(p, T)
  BY <1>4, <1>10 DEF Waits
<1> QED  BY <1>8, <1>9, <1>10

LEMMA ShrinkKeeps ==
  ASSUME Inv, SamePosts, ThreadsShrink, outbox' \in Seq(Entry), Resending' \in Seq(Entry),
         Within(outbox', outbox), Within(Resending', Resending)
  PROVE  /\ OnePlace' /\ OrderKept'
         /\ \A p, T : Waits(p, T)' => Waits(p, T)
<1>1. OldPosts
  BY DEF SamePosts, OldPosts
<1> QED  BY <1>1, ShrinkKeepsOld

-----------------------------------------------------------------------------
(* What was written and what waits.                                        *)

\* No thread comes to look for the routes of a post.
NoNewSearch == \A p : Searching(p)' => Searching(p)

LEMMA LoopFindsNothing == ASSUME NEW t \in Thread, NEW todo, GoesOn(t, todo) PROVE NoNewSearch
<1>1. ASSUME NEW u \in Thread, At(u, "find")' PROVE sending'[u] = sending[u] /\ At(u, "find")
  BY <1>1 DEF GoesOn, At, Active
<1> QED  BY <1>1 DEF NoNewSearch, Searching

LEMMA SameFinds == ASSUME UNCHANGED sending PROVE NoNewSearch
  BY DEF NoNewSearch, Searching, At

\* A step writes copies that waited and wait no more, and lets no other copy wait.
LEMMA WritesKeep ==
  ASSUME Inv, SamePosts, NoNewSearch, \A p, T : Waits(p, T)' => Waits(p, T),
         \A p \in DOMAIN posts, T \in Target :
            \/ posts'[p].writes[T] = posts[p].writes[T]
            \/ /\ posts'[p].writes[T] = posts[p].writes[T] + 1
               /\ Waits(p, T) /\ ~ Waits(p, T)'
  PROVE  WrittenOnce'
<1> SUFFICES ASSUME NEW p \in DOMAIN posts', NEW T \in Target
             PROVE  /\ posts'[p].writes[T] <= 1
                    /\ Waits(p, T)' => posts'[p].writes[T] = 0
                    /\ Searching(p)' => posts'[p].writes[T] = 0 /\ ~ Waits(p, T)'
  BY DEF WrittenOnce
<1>1. /\ p \in DOMAIN posts /\ posts[p].writes[T] <= 1
      /\ Waits(p, T) => posts[p].writes[T] = 0
      /\ Searching(p)' => posts[p].writes[T] = 0 /\ ~ Waits(p, T)
  BY DEF Inv, WrittenOnce, SamePosts, NoNewSearch
<1>2. CASE posts'[p].writes[T] = posts[p].writes[T]
  BY <1>1, <1>2
<1>3. CASE posts'[p].writes[T] = posts[p].writes[T] + 1 /\ Waits(p, T) /\ ~ Waits(p, T)'
  BY <1>1, <1>3
<1> QED  BY <1>1, <1>2, <1>3

\* A thread that goes on stays at its last post.
LEMMA LoopKeepsLast ==
  ASSUME Inv, SamePosts, NEW t \in Thread, NEW todo, Active(t), GoesOn(t, todo)
  PROVE  OnItsLast'
<1> SUFFICES ASSUME NEW u \in Thread, Active(u)'
             PROVE  /\ sending'[u].post \in DOMAIN posts'
                    /\ posts'[sending'[u].post].thread = u
                    /\ \A p \in DOMAIN posts' : posts'[p].thread = u => p <= sending'[u].post
  BY DEF OnItsLast
<1>1. Active(u) /\ sending'[u].post = sending[u].post
  BY DEF GoesOn, Active
<1>2. /\ sending[u].post \in DOMAIN posts
      /\ posts[sending[u].post].thread = u
      /\ \A p \in DOMAIN posts : posts[p].thread = u => p <= sending[u].post
  BY <1>1 DEF Inv, OnItsLast
<1> QED  BY <1>1, <1>2 DEF SamePosts

LEMMA SameKeepsLast ==
  ASSUME Inv, SamePosts, UNCHANGED sending
  PROVE  OnItsLast'
<1> SUFFICES ASSUME NEW u \in Thread, Active(u)'
             PROVE  /\ sending'[u].post \in DOMAIN posts'
                    /\ posts'[sending'[u].post].thread = u
                    /\ \A p \in DOMAIN posts' : posts'[p].thread = u => p <= sending'[u].post
  BY DEF OnItsLast
<1>1. Active(u)
  BY DEF Active
<1> QED  BY <1>1 DEF Inv, OnItsLast, SamePosts

\* The numbers are as they were.
LEMMA SameNumbers ==
  ASSUME Inv, SamePosts, UNCHANGED <<registered, nextSequenceId, registrations>>
  PROVE  Numbered'
BY DEF Inv, Numbered, SamePosts

-----------------------------------------------------------------------------
(* The types, part by part.                                                *)

MainTyped ==
    /\ main \in Main /\ main.step \in {"idle", "drain", "resend"}
    /\ main.step = "resend" => main.entries # << >>

PostsTyped == posts \in Seq(PostRecord) /\ Len(posts) <= MaxPosts

OutboxTyped == outbox \in Seq(Entry) /\ Len(outbox) <= MaxOutbox

RoutesTyped == routes \in Seq(Route) /\ IsInjective(routes)

ActorTyped ==
    /\ registered \in BOOLEAN
    /\ registrations \in 1 .. MaxRegistrations
    /\ nextSequenceId \in 0 .. MaxPosts
    /\ connected \subseteq Target

LEMMA TypesParts ==
  Types <=> SendingTyped /\ MainTyped /\ PostsTyped /\ OutboxTyped /\ RoutesTyped /\ ActorTyped
<1>1. Types => SendingTyped /\ MainTyped /\ PostsTyped /\ OutboxTyped /\ RoutesTyped /\ ActorTyped
  BY DEF Types, TypeOK, SendingTyped, MainTyped, PostsTyped, OutboxTyped, RoutesTyped, ActorTyped
<1>2. SendingTyped /\ MainTyped /\ PostsTyped /\ OutboxTyped /\ RoutesTyped /\ ActorTyped => TypeOK
  BY DEF TypeOK, SendingTyped, MainTyped, PostsTyped, OutboxTyped, RoutesTyped, ActorTyped
<1>3. SendingTyped /\ MainTyped /\ PostsTyped /\ TypeOK => Types
  BY DEF Types, SendingTyped, MainTyped, PostsTyped
<1> QED  BY <1>1, <1>2, <1>3

LEMMA TypesPrimed ==
  Types' <=> SendingTyped' /\ MainTyped' /\ PostsTyped' /\ OutboxTyped' /\ RoutesTyped' /\ ActorTyped'
BY TypesParts, PTL

LEMMA SamePostsTyped == ASSUME Types, SamePosts PROVE PostsTyped'
  BY PostParts DEF SamePosts, PostsTyped

LEMMA SameActor == ASSUME Types, UNCHANGED <<registered, registrations, nextSequenceId, connected>> PROVE ActorTyped'
<1>1. ActorTyped
  BY TypesParts
<1> QED  BY <1>1 DEF ActorTyped

LEMMA SameMain == ASSUME Types, UNCHANGED main PROVE MainTyped' /\ Resending' = Resending /\ Resending \in Seq(Entry) /\ Within(Resending', Resending)
<1>1. MainTyped /\ Resending \in Seq(Entry)
  BY TypesParts, MainParts
<1> QED  BY <1>1, SameWithin DEF MainTyped, Resending

LEMMA SameSending == ASSUME Types, UNCHANGED sending PROVE SendingTyped'
<1>1. SendingTyped
  BY TypesParts
<1> QED  BY <1>1 DEF SendingTyped

LEMMA SameOutbox == ASSUME Types, UNCHANGED outbox PROVE OutboxTyped' /\ outbox' \in Seq(Entry) /\ Within(outbox', outbox)
<1>1. OutboxTyped
  BY TypesParts
<1> QED  BY <1>1, SameWithin DEF OutboxTyped

LEMMA SameRoutes == ASSUME Types, UNCHANGED routes PROVE RoutesTyped'
<1>1. RoutesTyped
  BY TypesParts
<1> QED  BY <1>1 DEF RoutesTyped

-----------------------------------------------------------------------------
(* SendActor, step by step.                                                *)

\* A route that a thread has before it waits nowhere else.
LEMMA TodoAlone ==
  ASSUME Inv, NEW t \in Thread, NEW k \in DOMAIN Todo(t)
  PROVE  /\ \A i \in DOMAIN outbox : ~ (outbox[i].post = sending[t].post /\ outbox[i].target = Todo(t)[k])
         /\ \A i \in DOMAIN Resending : ~ (Resending[i].post = sending[t].post /\ Resending[i].target = Todo(t)[k])
         /\ \A u \in Thread : \A j \in DOMAIN Todo(u) :
              sending[u].post = sending[t].post => u = t /\ (Todo(u)[j] = Todo(t)[k] => j = k)
<1>1. /\ \A i \in DOMAIN outbox : ~ (outbox[i].post = sending[t].post /\ outbox[i].target = Todo(t)[k])
      /\ \A i \in DOMAIN Resending : ~ (Resending[i].post = sending[t].post /\ Resending[i].target = Todo(t)[k])
  BY DEF Inv, OnePlace
<1>2. ASSUME NEW u \in Thread, NEW j \in DOMAIN Todo(u), sending[u].post = sending[t].post
      PROVE  u = t
  <2>1. Active(t) /\ Active(u)
    BY ActiveWithTodo
  <2>2. posts[sending[t].post].thread = t /\ posts[sending[u].post].thread = u
    BY <2>1 DEF Inv, OnItsLast
  <2> QED  BY <1>2, <2>2
<1>3. \A j \in DOMAIN Todo(t) : Todo(t)[j] = Todo(t)[k] => j = k
  BY DEF Inv, OnePlace
<1> QED  BY <1>1, <1>2, <1>3

\* A thread that goes on without a write and without putting anything aside.
LEMMA CheckRouteKeeps == ASSUME Inv, NEW t \in Thread, CheckRoute(t) PROVE Inv'
<1>1. Types /\ InLoop(t) /\ Active(t)
  BY DEF Inv, CheckRoute, At, InLoop, Active
<1>2. SendingTyped' /\ GoesOn(t, Todo(t))
  <2>1. PICK step \in {"send", "enqueue"} : GoTo(t, step)
    BY DEF CheckRoute
  <2> QED  BY <1>1, <2>1, GoToGoesOn
<1>3. SamePosts /\ \A q : SameWritesBut(q)
  BY <1>1, UnchangedPosts DEF CheckRoute
<1>4. Types'
  BY <1>1, <1>2, <1>3, TypesPrimed, SamePostsTyped, SameActor, SameMain, SameOutbox, SameRoutes DEF CheckRoute
<1>5. ThreadsShrink
  BY <1>1, <1>2, LoopShrinks, SendingParts, SameWithin
<1>6. OnePlace' /\ OrderKept' /\ \A p, T : Waits(p, T)' => Waits(p, T)
  BY <1>1, <1>3, <1>5, ShrinkKeeps, SameMain, SameOutbox DEF CheckRoute
<1>7. WrittenOnce'
  BY <1>2, <1>3, <1>6, LoopFindsNothing, WritesKeep DEF CheckRoute
<1>8. OnItsLast'
  BY <1>1, <1>2, <1>3, LoopKeepsLast
<1>9. Numbered'
  BY <1>3, SameNumbers DEF CheckRoute
<1> QED  BY <1>4, <1>6, <1>7, <1>8, <1>9 DEF Inv

\* The packet is accepted, and the route is done; or it is refused, and put aside.
LEMMA SendRouteKeeps == ASSUME Inv, NEW t \in Thread, SendRoute(t) PROVE Inv'
<1>1. Types /\ InLoop(t) /\ Active(t) /\ sending[t].post \in DOMAIN posts
  BY DEF Inv, SendRoute, At, InLoop, Active, OnItsLast
<1>2. Todo(t) \in Seq(Target) /\ Todo(t) # << >> /\ Todo(t) = sending[t].todo
  BY <1>1, SendingParts
<1>3. CASE ChannelAccepts(sending[t].post, Head(sending[t].todo)) /\ Continue(t, Tail(sending[t].todo))
  <2> DEFINE q == sending[t].post
             todo == Tail(Todo(t))
  <2>1. /\ todo \in Seq(Target) /\ Within(todo, Todo(t)) /\ Head(Todo(t)) \in Target
        /\ 1 \in DOMAIN Todo(t) /\ Head(Todo(t)) = Todo(t)[1]
        /\ \A a \in DOMAIN todo : a + 1 \in DOMAIN Todo(t) /\ a + 1 # 1 /\ todo[a] = Todo(t)[a + 1]
    BY <1>2, TailWithin
  <2>2. SendingTyped' /\ GoesOn(t, todo)
    BY <1>1, <1>2, <1>3, <2>1, ContinueGoesOn
  <2>3. /\ SamePosts /\ SameWritesBut(q)
        /\ \A U \in Target : posts'[q].writes[U] = IF U = Head(Todo(t)) THEN posts[q].writes[U] + 1
                                                                       ELSE posts[q].writes[U]
    BY <1>1, <1>2, <1>3, <2>1, AcceptWrites
  <2>4. Types'
    BY <1>1, <2>2, <2>3, TypesPrimed, SamePostsTyped, SameActor, SameMain, SameOutbox, SameRoutes DEF SendRoute
  <2>5. ThreadsShrink
    BY <1>1, <2>1, <2>2, LoopShrinks
  <2>6. OnePlace' /\ OrderKept' /\ \A p, T : Waits(p, T)' => Waits(p, T)
    BY <1>1, <2>3, <2>5, ShrinkKeeps, SameMain, SameOutbox DEF SendRoute
  <2>7. Waits(q, Head(Todo(t)))
    BY <2>1 DEF Waits
  <2>8. PICK p, T : p = q /\ T = Head(Todo(t))
    OBVIOUS
  <2>9. ~ Waits(p, T)'
    <3>1. /\ \A i \in DOMAIN outbox : ~ (outbox[i].post = p /\ outbox[i].target = T)
          /\ \A i \in DOMAIN Resending : ~ (Resending[i].post = p /\ Resending[i].target = T)
          /\ \A u \in Thread : \A j \in DOMAIN Todo(u) :
               sending[u].post = p => u = t /\ (Todo(u)[j] = T => j = 1)
      BY <2>1, <2>8, TodoAlone
    <3>2. outbox' = outbox /\ Resending' = Resending
      BY <1>1, SameMain DEF SendRoute
    <3>3. ASSUME NEW u \in Thread, NEW k \in DOMAIN Todo(u)', sending'[u].post = p, Todo(u)'[k] = T
          PROVE  FALSE
      <4>1. sending[u].post = p /\ \E a \in DOMAIN Todo(u) : Todo(u)'[k] = Todo(u)[a]
        BY <2>5, <3>3 DEF ThreadsShrink, Within
      <4>2. u = t
        BY <3>1, <4>1
      <4>3. Todo(u)' = todo
        BY <2>2, <4>2 DEF GoesOn
      <4>4. k + 1 \in DOMAIN Todo(t) /\ k + 1 # 1 /\ T = Todo(t)[k + 1]
        BY <2>1, <3>3, <4>3
      <4> QED  BY <3>1, <4>1, <4>2, <4>4
    <3> QED  BY <3>1, <3>2, <3>3 DEF Waits
  <2>10. WrittenOnce'
    <3>1. \A r \in DOMAIN posts, U \in Target :
            \/ posts'[r].writes[U] = posts[r].writes[U]
            \/ posts'[r].writes[U] = posts[r].writes[U] + 1 /\ r = p /\ U = T
      BY <2>3, <2>8 DEF SameWritesBut
    <3>2. Waits(p, T)
      BY <2>7, <2>8
    <3> QED  BY <2>2, <2>3, <2>6, <2>9, <3>1, <3>2, LoopFindsNothing, WritesKeep
  <2>11. OnItsLast'
    BY <1>1, <2>2, <2>3, LoopKeepsLast
  <2>12. Numbered'
    BY <2>3, SameNumbers DEF SendRoute
  <2> QED  BY <2>4, <2>6, <2>10, <2>11, <2>12 DEF Inv
<1>4. CASE ChannelRefuses /\ GoTo(t, "enqueue")
  <2>2. SendingTyped' /\ GoesOn(t, Todo(t))
    BY <1>1, <1>4, GoToGoesOn
  <2>3. SamePosts /\ \A q : SameWritesBut(q)
    BY <1>1, <1>4, UnchangedPosts DEF ChannelRefuses
  <2>4. Types'
    BY <1>1, <2>2, <2>3, TypesPrimed, SamePostsTyped, SameActor, SameMain, SameOutbox, SameRoutes DEF SendRoute
  <2>5. ThreadsShrink
    BY <1>1, <1>2, <2>2, LoopShrinks, SameWithin
  <2>6. OnePlace' /\ OrderKept' /\ \A p, T : Waits(p, T)' => Waits(p, T)
    BY <1>1, <2>3, <2>5, ShrinkKeeps, SameMain, SameOutbox DEF SendRoute
  <2>7. WrittenOnce'
    BY <1>4, <2>2, <2>3, <2>6, LoopFindsNothing, WritesKeep DEF ChannelRefuses
  <2>8. OnItsLast'
    BY <1>1, <2>2, <2>3, LoopKeepsLast
  <2>9. Numbered'
    BY <2>3, SameNumbers DEF SendRoute
  <2> QED  BY <2>4, <2>6, <2>7, <2>8, <2>9 DEF Inv
<1> QED  BY <1>3, <1>4 DEF SendRoute

LEMMA Narrow ==
  ASSUME NEW X, NEW Y, NEW s \in Seq(X), \A i \in DOMAIN s : s[i] \in Y
  PROVE  s \in Seq(Y)
<1>1. s \in [1 .. Len(s) -> Y] /\ Len(s) \in Nat
  OBVIOUS
<1> QED  BY <1>1

\* The remote routes are distinct, and none is the local one.
LEMMA RemoteRoutes ==
  ASSUME Types, NEW remote, remote = Kept(routes, {i \in DOMAIN routes : routes[i] # Local})
  PROVE  remote \in Seq(Target) /\ \A i, j \in DOMAIN remote : remote[i] = remote[j] => i = j
<1> DEFINE I == {i \in DOMAIN routes : routes[i] # Local}
<1>1. routes \in Seq(Route) /\ \A i, j \in DOMAIN routes : routes[i] = routes[j] => i = j
  BY TypesParts DEF RoutesTyped, IsInjective
<1>2. \A i \in DOMAIN routes : routes[i] \in Route
  BY <1>1
<1>3. \A i \in I : i \in DOMAIN routes /\ routes[i] # Local
  OBVIOUS
<1>4. remote = Kept(routes, I)
  OBVIOUS
<1> HIDE DEF I
<1>5. remote \in Seq(Route)
  BY <1>1, <1>4, KeptPicks
<1>6. Within(remote, routes) /\ \A a \in DOMAIN remote : \E i \in DOMAIN routes : i \in I /\ remote[a] = routes[i]
  <2>1. /\ Within(Kept(routes, I), routes)
        /\ \A a \in DOMAIN Kept(routes, I) : \E i \in DOMAIN routes : i \in I /\ Kept(routes, I)[a] = routes[i]
    BY <1>1, KeptWithin
  <2> QED  BY <1>4, <2>1
<1>7. \A a \in DOMAIN remote : remote[a] \in Target
  BY <1>2, <1>3, <1>6 DEF Route
<1> QED  BY <1>1, <1>5, <1>6, <1>7, Narrow, DistinctWithin

\* A copy for each remote route found is to be written, and none was.
LEMMA FindRoutesKeeps == ASSUME Inv, NEW t \in Thread, FindRoutes(t) PROVE Inv'
<1>1. Types /\ At(t, "find")
  BY DEF Inv, FindRoutes
<1>2. PICK q : q = sending[t].post
  OBVIOUS
<1>3. q \in DOMAIN posts /\ Active(t) /\ \A T \in Target : posts[q].writes[T] = 0 /\ ~ Waits(q, T)
  <2>1. q \in DOMAIN posts /\ Active(t) /\ Searching(q)
    BY <1>1, <1>2 DEF At, Active, Inv, OnItsLast, Searching
  <2> QED  BY <2>1 DEF Inv, WrittenOnce
<1>4. PICK remote : remote = Kept(routes, {i \in DOMAIN routes : routes[i] # Local})
  OBVIOUS
<1>5. remote \in Seq(Target) /\ Len(remote) \in Nat /\ \A i, j \in DOMAIN remote : remote[i] = remote[j] => i = j
  <2>1. remote \in Seq(Target) /\ \A i, j \in DOMAIN remote : remote[i] = remote[j] => i = j
    BY <1>1, <1>4, RemoteRoutes
  <2> QED  BY <2>1
<1>6. Continue(t, remote) /\ posts' = posts
  BY <1>4 DEF FindRoutes
<1>7. SendingTyped' /\ GoesOn(t, remote)
  BY <1>1, <1>3, <1>5, <1>6, ContinueGoesOn
<1>8. SamePosts
  BY <1>1, <1>6, UnchangedPosts
<1>9. Types'
  BY <1>1, <1>7, <1>8, TypesPrimed, SamePostsTyped, SameActor, SameMain, SameOutbox, SameRoutes DEF FindRoutes
<1>10. /\ outbox' = outbox /\ outbox \in Seq(Entry)
       /\ Resending' = Resending /\ Resending \in Seq(Entry)
  BY <1>1, SameMain, SameOutbox DEF FindRoutes
<1>11. /\ \A i \in DOMAIN outbox : outbox[i].target \in Target
       /\ \A i \in DOMAIN Resending : Resending[i].target \in Target
  <2>1. \A s \in Seq(Entry) : \A i \in DOMAIN s : s[i] \in Entry
    OBVIOUS
  <2> QED  BY <1>10, <2>1 DEF Entry
<1>12. /\ \A i \in DOMAIN outbox : outbox[i].post # q
       /\ \A i \in DOMAIN Resending : Resending[i].post # q
  BY <1>3, <1>11 DEF Waits
<1>13. /\ Todo(t)' = remote /\ \A u \in Thread : u # t => Todo(u)' = Todo(u) /\ sending'[u] = sending[u]
       /\ \A k \in DOMAIN remote : sending'[t].post = q
  <2>1. Todo(t)' = remote /\ \A u \in Thread : u # t => Todo(u)' = Todo(u) /\ sending'[u] = sending[u]
    BY <1>7 DEF GoesOn
  <2>2. ASSUME NEW k \in DOMAIN remote PROVE Active(t)'
    <3>1. DOMAIN << >> = {}
      OBVIOUS
    <3>2. Todo(t)' # << >> => sending'[t].step \in {"route", "send", "enqueue"}
      BY DEF Todo
    <3> QED  BY <2>1, <2>2, <3>1, <3>2 DEF Active
  <2> QED  BY <1>2, <1>7, <2>1, <2>2 DEF GoesOn
<1>14. OnePlace'
  <2>1. EntriesSound(outbox)' /\ EntriesSound(Resending)'
    BY <1>8, <1>10 DEF Inv, OnePlace, EntriesSound, SamePosts
  <2>2. \A i \in DOMAIN outbox', j \in DOMAIN Resending' :
          ~ (outbox'[i].post = Resending'[j].post /\ outbox'[i].target = Resending'[j].target)
    BY <1>10 DEF Inv, OnePlace
  <2>3. \A u \in Thread : \A i, j \in DOMAIN Todo(u)' : Todo(u)'[i] = Todo(u)'[j] => i = j
    BY <1>5, <1>13 DEF Inv, OnePlace
  <2>4. \A u \in Thread : \A k \in DOMAIN Todo(u)' :
          /\ \A i \in DOMAIN outbox' : ~ (outbox'[i].post = sending'[u].post /\ outbox'[i].target = Todo(u)'[k])
          /\ \A i \in DOMAIN Resending' : ~ (Resending'[i].post = sending'[u].post /\ Resending'[i].target = Todo(u)'[k])
    BY <1>10, <1>12, <1>13 DEF Inv, OnePlace
  <2> QED  BY <2>1, <2>2, <2>3, <2>4 DEF OnePlace
<1>15. OrderKept'
  <2>1. \A i \in DOMAIN outbox : outbox[i].post \in DOMAIN posts
    BY DEF Inv, OnePlace, EntriesSound
  <2>2. \A i \in DOMAIN outbox : posts'[outbox[i].post].thread = posts[outbox[i].post].thread
    BY <1>8, <2>1 DEF SamePosts
  <2> QED  BY <1>10, <2>2 DEF Inv, OrderKept
<1>16. WrittenOnce'
  <2>1. \A p, T : p # q /\ Waits(p, T)' => Waits(p, T)
    BY <1>10, <1>13 DEF Waits
  <2>2. ~ Searching(q)' /\ \A p : Searching(p)' => Searching(p)
    <3>1. ASSUME NEW u \in Thread, At(u, "find")' PROVE sending'[u] = sending[u] /\ At(u, "find") /\ u # t
      BY <1>7, <3>1 DEF GoesOn, At, Active
    <3>2. \A u \in Thread : At(u, "find") /\ u # t => sending[u].post # q
      BY <1>1, <1>2 DEF At, Active, Inv, OnItsLast
    <3> QED  BY <3>1, <3>2 DEF Searching
  <2> QED  BY <1>3, <1>6, <2>1, <2>2 DEF Inv, WrittenOnce
<1>17. OnItsLast'
  BY <1>2, <1>3, <1>7, <1>8, LoopKeepsLast
<1>18. Numbered'
  BY <1>8, SameNumbers DEF FindRoutes
<1> QED  BY <1>9, <1>14, <1>15, <1>16, <1>17, <1>18 DEF Inv

\* Enqueueing keeps some of the outbox and puts the entry at its end, or does nothing.
LEMMA EnqueueParts ==
  ASSUME Types, NEW e \in Entry, EnqueueActorOutbox(e)
  PROVE  /\ outbox' \in Seq(Entry) /\ Len(outbox') <= MaxOutbox
         /\ \/ outbox' = outbox
            \/ \E base \in Seq(Entry) : Within(base, outbox) /\ outbox' = Append(base, e)
<1> USE BoundAssumption
<1>1. outbox \in Seq(Entry) /\ Len(outbox) <= MaxOutbox /\ Len(outbox) \in Nat
  BY OutboxParts, TypesParts DEF OutboxTyped
<1>2. CASE ~ registered
  BY <1>1, <1>2 DEF EnqueueActorOutbox
<1>3. CASE registered /\ Len(outbox) >= MaxOutbox
  <2>1. outbox' = Append(Tail(outbox), e)
    BY <1>3 DEF EnqueueActorOutbox
  <2>2. outbox # << >>
    BY <1>1, <1>3
  <2>3. Tail(outbox) \in Seq(Entry) /\ Within(Tail(outbox), outbox) /\ Len(Tail(outbox)) = Len(outbox) - 1
    BY <1>1, <2>2, TailWithin
  <2>4. outbox' \in Seq(Entry) /\ Len(outbox') = Len(Tail(outbox)) + 1
    BY <2>1, <2>3, AppendParts
  <2>5. Len(outbox') <= MaxOutbox
    BY <1>1, <2>3, <2>4
  <2> QED  BY <2>1, <2>3, <2>4, <2>5
<1>4. CASE registered /\ ~ (Len(outbox) >= MaxOutbox)
  <2>1. outbox' = Append(outbox, e)
    BY <1>4 DEF EnqueueActorOutbox
  <2>2. outbox' \in Seq(Entry) /\ Len(outbox') = Len(outbox) + 1
    BY <1>1, <2>1, AppendParts
  <2>3. Len(outbox') <= MaxOutbox
    BY <1>1, <1>4, <2>2
  <2>4. Within(outbox, outbox)
    BY SameWithin
  <2> QED  BY <1>1, <2>1, <2>2, <2>3, <2>4
<1> QED  BY <1>2, <1>3, <1>4

\* The route moves from the loop to the end of the outbox.
LEMMA EnqueueRouteKeeps == ASSUME Inv, NEW t \in Thread, EnqueueRoute(t) PROVE Inv'
<1>1. Types /\ InLoop(t) /\ Active(t)
  BY DEF Inv, EnqueueRoute, At, InLoop, Active
<1>2. PICK q, T : q = sending[t].post /\ T = Head(Todo(t))
  OBVIOUS
<1>3. Todo(t) \in Seq(Target) /\ Todo(t) # << >> /\ Todo(t) = sending[t].todo
  BY <1>1, SendingParts
<1>4. PICK todo : todo = Tail(Todo(t))
  OBVIOUS
<1>5. /\ todo \in Seq(Target) /\ Within(todo, Todo(t)) /\ T \in Target
      /\ 1 \in DOMAIN Todo(t) /\ T = Todo(t)[1]
      /\ \A a \in DOMAIN todo : a + 1 \in DOMAIN Todo(t) /\ a + 1 # 1 /\ todo[a] = Todo(t)[a + 1]
  BY <1>2, <1>3, <1>4, TailWithin
<1>6. q \in DOMAIN posts /\ posts[q].thread = t /\ \A p \in DOMAIN posts : posts[p].thread = t => p <= q
  BY <1>1, <1>2 DEF Inv, OnItsLast
<1>7. PICK e : e = [target |-> T, sequence |-> posts[q].sequence, post |-> q]
  OBVIOUS
<1>8. e \in Entry /\ e.target = T /\ e.sequence = posts[q].sequence /\ e.post = q
  <2>1. posts[q].sequence \in 1 .. MaxPosts /\ q \in Post
    BY <1>1, <1>6, PostParts DEF PostRecord
  <2> QED  BY <1>5, <1>7, <2>1 DEF Entry
<1>9. EnqueueActorOutbox(e) /\ Continue(t, todo)
  BY <1>2, <1>3, <1>4, <1>7 DEF EnqueueRoute
<1>10. SendingTyped' /\ GoesOn(t, todo)
  BY <1>1, <1>5, <1>9, ContinueGoesOn
<1>11. SamePosts /\ \A r : SameWritesBut(r)
  BY <1>1, UnchangedPosts DEF EnqueueRoute
<1>12. /\ outbox' \in Seq(Entry) /\ Len(outbox') <= MaxOutbox
       /\ \/ outbox' = outbox
          \/ \E base \in Seq(Entry) : Within(base, outbox) /\ outbox' = Append(base, e)
  BY <1>1, <1>8, <1>9, EnqueueParts
<1>13. Types'
  <2>1. OutboxTyped'
    BY <1>12 DEF OutboxTyped
  <2> QED  BY <1>1, <1>10, <1>11, <2>1, TypesPrimed, SamePostsTyped, SameActor, SameMain, SameRoutes DEF EnqueueRoute
<1>14. ThreadsShrink
  BY <1>1, <1>5, <1>10, LoopShrinks
<1>15. Resending' = Resending /\ Resending \in Seq(Entry) /\ Within(Resending', Resending)
  BY <1>1, SameMain DEF EnqueueRoute
<1>16. OnItsLast' /\ Numbered'
  BY <1>1, <1>10, <1>11, LoopKeepsLast, SameNumbers DEF EnqueueRoute
<1>17. CASE outbox' = outbox
  <2>1. Within(outbox', outbox)
    BY <1>17, SameWithin
  <2>2. OnePlace' /\ OrderKept' /\ \A p, U : Waits(p, U)' => Waits(p, U)
    BY <1>11, <1>12, <1>14, <1>15, <2>1, ShrinkKeeps
  <2>3. WrittenOnce'
    BY <1>10, <1>11, <2>2, LoopFindsNothing, WritesKeep DEF EnqueueRoute
  <2> QED  BY <1>13, <1>16, <2>2, <2>3 DEF Inv
<1>18. ASSUME NEW base \in Seq(Entry), Within(base, outbox), outbox' = Append(base, e)
       PROVE  Inv'
  <2>1. /\ DOMAIN outbox' = DOMAIN base \cup {Len(base) + 1} /\ outbox'[Len(base) + 1] = e
        /\ \A i \in DOMAIN base : outbox'[i] = base[i] /\ i < Len(base) + 1 /\ i # Len(base) + 1
    BY <1>8, <1>18, AppendParts
  <2>2. PICK n : n = Len(base) + 1
    OBVIOUS
  <2>3. /\ \A i \in DOMAIN outbox' : i \in DOMAIN base \/ i = n
        /\ n \in DOMAIN outbox' /\ outbox'[n] = e /\ n \notin DOMAIN base
        /\ \A i \in DOMAIN base : i \in DOMAIN outbox' /\ outbox'[i] = base[i]
    BY <2>1, <2>2
  <2>4. \A i \in DOMAIN base : \E a \in DOMAIN outbox : base[i] = outbox[a]
    BY <1>18 DEF Within
  <2>5. /\ \A i \in DOMAIN outbox : ~ (outbox[i].post = q /\ outbox[i].target = T)
        /\ \A i \in DOMAIN Resending : ~ (Resending[i].post = q /\ Resending[i].target = T)
        /\ \A u \in Thread : \A j \in DOMAIN Todo(u) :
             sending[u].post = q => u = t /\ (Todo(u)[j] = T => j = 1)
    BY <1>2, <1>5, TodoAlone
  <2>6. \A i \in DOMAIN base : ~ (base[i].post = q /\ base[i].target = T)
    BY <2>4, <2>5
  <2>7. EntriesSound(outbox)'
    <3>1. outbox \in Seq(Entry) /\ EntriesSound(outbox)
      BY <1>1, OutboxParts DEF Inv, OnePlace
    <3>2. /\ \A i \in DOMAIN base : base[i].post \in DOMAIN posts' /\ base[i].sequence = posts'[base[i].post].sequence
          /\ \A i, j \in DOMAIN base : base[i].post = base[j].post /\ base[i].target = base[j].target => i = j
      <4>1. OldPosts
        BY <1>11 DEF SamePosts, OldPosts
      <4> QED  BY <1>18, <3>1, <4>1, SoundWithin
    <3>3. q \in DOMAIN posts' /\ e.sequence = posts'[q].sequence
      BY <1>6, <1>8, <1>11 DEF SamePosts
    <3>4. \A i \in DOMAIN outbox' : outbox'[i].post \in DOMAIN posts' /\ outbox'[i].sequence = posts'[outbox'[i].post].sequence
      BY <1>8, <2>3, <3>2, <3>3
    <3>5. \A i, j \in DOMAIN outbox' : outbox'[i].post = outbox'[j].post /\ outbox'[i].target = outbox'[j].target => i = j
      BY <1>8, <2>3, <2>6, <3>2
    <3> QED  BY <3>4, <3>5 DEF EntriesSound
  <2>8. EntriesSound(Resending)'
    BY <1>11, <1>15 DEF Inv, OnePlace, EntriesSound, SamePosts
  <2>9. \A i \in DOMAIN outbox', j \in DOMAIN Resending' :
          ~ (outbox'[i].post = Resending'[j].post /\ outbox'[i].target = Resending'[j].target)
    <3>1. \A i \in DOMAIN outbox, j \in DOMAIN Resending :
            ~ (outbox[i].post = Resending[j].post /\ outbox[i].target = Resending[j].target)
      BY DEF Inv, OnePlace
    <3> QED  BY <1>8, <1>15, <2>3, <2>4, <2>5, <3>1
  <2>10. \A u \in Thread : /\ Todo(u)' \in Seq(Target) /\ Within(Todo(u)', Todo(u))
                           /\ \A k \in DOMAIN Todo(u)' : /\ sending'[u].post = sending[u].post
                                                         /\ \E a \in DOMAIN Todo(u) : Todo(u)'[k] = Todo(u)[a]
    BY <1>14 DEF ThreadsShrink, Within
  <2>11. \A u \in Thread : \A i, j \in DOMAIN Todo(u)' : Todo(u)'[i] = Todo(u)'[j] => i = j
    <3> SUFFICES ASSUME NEW u \in Thread PROVE \A i, j \in DOMAIN Todo(u)' : Todo(u)'[i] = Todo(u)'[j] => i = j
      OBVIOUS
    <3>1. Todo(u) \in Seq(Target) /\ \A i, j \in DOMAIN Todo(u) : Todo(u)[i] = Todo(u)[j] => i = j
      BY <1>1, SendingParts DEF Inv, OnePlace
    <3> QED  BY <2>10, <3>1, DistinctWithin
  <2>12. ASSUME NEW u \in Thread, NEW k \in DOMAIN Todo(u)'
         PROVE  ~ (q = sending'[u].post /\ T = Todo(u)'[k])
    <3> SUFFICES ASSUME q = sending'[u].post, T = Todo(u)'[k] PROVE FALSE
      OBVIOUS
    <3>1. PICK a \in DOMAIN Todo(u) : sending[u].post = q /\ Todo(u)'[k] = Todo(u)[a]
      BY <2>10
    <3>2. u = t
      BY <2>5, <3>1
    <3>3. Todo(u)' = todo
      BY <1>10, <3>2 DEF GoesOn
    <3>4. k + 1 \in DOMAIN Todo(t) /\ k + 1 # 1 /\ T = Todo(t)[k + 1]
      BY <1>5, <3>3
    <3> QED  BY <2>5, <3>1, <3>2, <3>4
  <2>13. \A u \in Thread : \A k \in DOMAIN Todo(u)' :
          /\ \A i \in DOMAIN outbox' : ~ (outbox'[i].post = sending'[u].post /\ outbox'[i].target = Todo(u)'[k])
          /\ \A i \in DOMAIN Resending' : ~ (Resending'[i].post = sending'[u].post /\ Resending'[i].target = Todo(u)'[k])
    <3>1. \A u \in Thread : \A k \in DOMAIN Todo(u) :
          /\ \A i \in DOMAIN outbox : ~ (outbox[i].post = sending[u].post /\ outbox[i].target = Todo(u)[k])
          /\ \A i \in DOMAIN Resending : ~ (Resending[i].post = sending[u].post /\ Resending[i].target = Todo(u)[k])
      BY DEF Inv, OnePlace
    <3>2. \A u \in Thread : \A k \in DOMAIN Todo(u)' :
            \A i \in DOMAIN base : ~ (base[i].post = sending'[u].post /\ base[i].target = Todo(u)'[k])
      BY <2>4, <2>10, <3>1
    <3>3. \A u \in Thread : \A k \in DOMAIN Todo(u)' :
            \A i \in DOMAIN outbox' : ~ (outbox'[i].post = sending'[u].post /\ outbox'[i].target = Todo(u)'[k])
      BY <1>8, <2>3, <2>12, <3>2
    <3>4. \A u \in Thread : \A k \in DOMAIN Todo(u)' :
            \A i \in DOMAIN Resending' : ~ (Resending'[i].post = sending'[u].post /\ Resending'[i].target = Todo(u)'[k])
      BY <1>15, <2>10, <3>1
    <3> QED  BY <3>3, <3>4
  <2>14. OnePlace'
    BY <2>7, <2>8, <2>9, <2>11, <2>13 DEF OnePlace
  <2>15. OrderKept'
    <3> SUFFICES ASSUME NEW i \in DOMAIN outbox', NEW j \in DOMAIN outbox', i < j,
                        outbox'[i].target = outbox'[j].target,
                        posts'[outbox'[i].post].thread = posts'[outbox'[j].post].thread
                 PROVE  outbox'[i].post < outbox'[j].post
      BY DEF OrderKept
    <3>1. \A a \in DOMAIN outbox : outbox[a].post \in DOMAIN posts /\ outbox[a].post \in Nat
      BY <1>1, PostParts DEF Inv, OnePlace, EntriesSound
    <3>2. posts' = posts
      BY DEF EnqueueRoute
    <3>3. DOMAIN base \subseteq Nat /\ Len(base) \in Nat /\ \A a \in DOMAIN base : a <= Len(base)
      OBVIOUS
    <3>4. i \in DOMAIN base
      <4>1. CASE i = n
        <5>1. \A m \in DOMAIN base : ~ (n < m)
          BY <2>2, <3>3
        <5>2. ~ (n < n)
          BY <2>2, <3>3
        <5> QED  BY <2>3, <4>1, <5>1, <5>2
      <4> QED  BY <2>3, <4>1
    <3>5. CASE j \in DOMAIN base
      <4>1. PICK a \in DOMAIN outbox, b \in DOMAIN outbox : a < b /\ base[i] = outbox[a] /\ base[j] = outbox[b]
        BY <1>18, <3>4, <3>5 DEF Within
      <4>2. outbox'[i] = outbox[a] /\ outbox'[j] = outbox[b]
        BY <2>3, <3>4, <3>5, <4>1
      <4> QED  BY <3>2, <4>1, <4>2 DEF Inv, OrderKept
    <3>6. CASE j = n
      <4>1. PICK a \in DOMAIN outbox : base[i] = outbox[a]
        BY <2>4, <3>4
      <4>2. outbox'[i] = outbox[a] /\ outbox'[j] = e
        BY <2>3, <3>4, <3>6, <4>1
      <4>3. posts[outbox[a].post].thread = t /\ outbox[a].target = T
        BY <1>6, <1>8, <3>2, <4>2
      <4>4. outbox[a].post <= q /\ outbox[a].post # q
        BY <1>6, <2>5, <3>1, <4>3
      <4>5. q \in Nat
        BY <1>1, <1>6, PostParts
      <4> QED  BY <1>8, <3>1, <4>2, <4>4, <4>5
    <3> QED  BY <2>3, <3>5, <3>6
  <2>16. ASSUME NEW p, NEW U, Waits(p, U)' PROVE Waits(p, U)
    <3>1. ASSUME NEW i \in DOMAIN outbox', outbox'[i].post = p, outbox'[i].target = U PROVE Waits(p, U)
      <4>1. CASE i \in DOMAIN base
        BY <2>3, <2>4, <3>1, <4>1 DEF Waits
      <4>2. CASE i = n
        <5>1. p = q /\ U = T
          BY <1>8, <2>3, <3>1, <4>2
        <5> QED  BY <1>2, <1>5, <5>1 DEF Waits
      <4> QED  BY <2>3, <4>1, <4>2
    <3> QED  BY <1>15, <2>10, <2>16, <3>1 DEF Waits
  <2>17. WrittenOnce'
    BY <1>10, <1>11, <2>16, LoopFindsNothing, WritesKeep DEF EnqueueRoute
  <2> QED  BY <1>13, <1>16, <2>14, <2>15, <2>17 DEF Inv
<1> QED  BY <1>12, <1>17, <1>18

\* The new post is the last of its thread, and waits for nothing yet.
LEMMA AllocateKeeps == ASSUME Inv, NEW t \in Thread, Allocate(t) PROVE Inv'
<1> USE BoundAssumption
<1>1. Types /\ sending[t] = Idle /\ registered /\ Len(posts) < MaxPosts
  BY DEF Inv, Allocate
<1>2. PICK n, sq : n = Len(posts) + 1 /\ sq = nextSequenceId + 1
  OBVIOUS
<1>3. /\ posts \in Seq(PostRecord) /\ Len(posts) \in Nat /\ DOMAIN posts = 1 .. Len(posts)
      /\ nextSequenceId \in Nat /\ nextSequenceId <= Len(posts)
      /\ registrations \in 1 .. MaxRegistrations
  BY <1>1, PostParts, TypesParts DEF ActorTyped, Inv, Numbered
<1>4. n \in Post /\ sq \in 1 .. MaxPosts /\ sq <= n /\ \A p \in DOMAIN posts : p \in Nat /\ p < n /\ p # n
  BY <1>1, <1>2, <1>3 DEF Post
<1>5. PICK rec : rec = [thread |-> t, sequence |-> sq, registration |-> registrations,
                        writes |-> [T \in Target |-> 0], reached |-> {}]
  OBVIOUS
<1>6. /\ rec \in PostRecord /\ rec.thread = t /\ rec.sequence = sq /\ rec.registration = registrations
      /\ \A T \in Target : rec.writes[T] = 0
  BY <1>3, <1>4, <1>5 DEF PostRecord
<1>7. nextSequenceId' = sq /\ posts' = Append(posts, rec)
  BY <1>2, <1>5 DEF Allocate
<1>8. /\ posts' \in Seq(PostRecord) /\ Len(posts') = n /\ DOMAIN posts' = DOMAIN posts \cup {n}
      /\ posts'[n] = rec /\ \A p \in DOMAIN posts : posts'[p] = posts[p]
  BY <1>2, <1>3, <1>6, <1>7, AppendParts
<1>9. /\ sending' \in [Thread -> Sending] /\ sending'[t] = [step |-> "find", post |-> n]
      /\ \A u \in Thread : u # t => sending'[u] = sending[u]
  <2>1. sending' = [sending EXCEPT ![t] = [step |-> "find", post |-> Len(posts')]]
    BY DEF Allocate
  <2>2. [step |-> "find", post |-> n] \in Sending
    BY <1>4 DEF Sending
  <2>3. sending \in [Thread -> Sending]
    BY <1>1 DEF Types
  <2> QED  BY <1>8, <2>1, <2>2, <2>3
<1>10. Types'
  <2>1. SendingTyped'
    BY <1>1, <1>9, TypesParts DEF SendingTyped
  <2>2. PostsTyped'
    BY <1>1, <1>2, <1>3, <1>8 DEF PostsTyped
  <2>3. ActorTyped'
    <3>1. sq \in 0 .. MaxPosts
      BY <1>4
    <3> QED  BY <1>1, <1>7, <3>1, TypesParts DEF ActorTyped, Allocate
  <2> QED  BY <1>1, <2>1, <2>2, <2>3, TypesPrimed, SameMain, SameOutbox, SameRoutes DEF Allocate
<1>11. \A u \in Thread : Todo(u)' = Todo(u)
  <2>1. Todo(t)' = << >> /\ Todo(t) = << >>
    BY <1>1, <1>9 DEF Todo, Idle
  <2> QED  BY <1>9, <2>1 DEF Todo
<1>12. ThreadsShrink
  <2> SUFFICES ASSUME NEW u \in Thread
               PROVE  /\ Todo(u)' \in Seq(Target) /\ Within(Todo(u)', Todo(u))
                      /\ \A k \in DOMAIN Todo(u)' : sending'[u].post = sending[u].post
    BY DEF ThreadsShrink
  <2>1. Todo(u) \in Seq(Target)
    BY <1>1, SendingParts
  <2>2. Todo(t) = << >>
    BY <1>1 DEF Todo, Idle
  <2>3. DOMAIN << >> = {}
    OBVIOUS
  <2> QED  BY <1>9, <1>11, <2>1, <2>2, <2>3, SameWithin
<1>13. OldPosts
  BY <1>8 DEF OldPosts
<1>14. OnePlace' /\ OrderKept' /\ \A p, T : Waits(p, T)' => Waits(p, T)
  BY <1>1, <1>12, <1>13, ShrinkKeepsOld, SameMain, SameOutbox DEF Allocate
<1>15. WrittenOnce'
  <2>1. \A T : ~ Waits(n, T)
    <3>1. \A u \in Thread : \A k \in DOMAIN Todo(u) : sending[u].post \in DOMAIN posts
      BY ActiveWithTodo DEF Inv, OnItsLast
    <3>2. /\ \A i \in DOMAIN outbox : outbox[i].post \in DOMAIN posts
          /\ \A i \in DOMAIN Resending : Resending[i].post \in DOMAIN posts
      BY DEF Inv, OnePlace, EntriesSound
    <3> QED  BY <1>4, <3>1, <3>2 DEF Waits
  <2>2. \A p : Searching(p)' => p = n \/ Searching(p)
    BY <1>9 DEF Searching, At
  <2>3. ASSUME NEW p \in DOMAIN posts', NEW T \in Target, p = n
        PROVE  posts'[p].writes[T] = 0 /\ ~ Waits(p, T)'
    BY <1>6, <1>8, <1>14, <2>1, <2>3
  <2>4. ASSUME NEW p \in DOMAIN posts', NEW T \in Target, p # n
        PROVE  /\ posts'[p].writes[T] <= 1
               /\ Waits(p, T)' => posts'[p].writes[T] = 0
               /\ Searching(p)' => posts'[p].writes[T] = 0 /\ ~ Waits(p, T)'
    BY <1>8, <1>14, <2>2, <2>4 DEF Inv, WrittenOnce
  <2> QED  BY <2>3, <2>4 DEF WrittenOnce
<1>16. OnItsLast'
  <2> SUFFICES ASSUME NEW u \in Thread, Active(u)'
               PROVE  /\ sending'[u].post \in DOMAIN posts'
                      /\ posts'[sending'[u].post].thread = u
                      /\ \A p \in DOMAIN posts' : posts'[p].thread = u => p <= sending'[u].post
      BY DEF OnItsLast
  <2>1. CASE u = t
    <3>1. sending'[u].post = n /\ n \in DOMAIN posts' /\ posts'[n] = rec
      BY <1>8, <1>9, <2>1
    <3>2. \A p \in DOMAIN posts' : p <= n
      <4>1. n <= n /\ \A p \in DOMAIN posts : p <= n
        BY <1>2, <1>3
      <4> QED  BY <1>8, <4>1
    <3> QED  BY <1>6, <2>1, <3>1, <3>2
  <2>2. CASE u # t
    <3>1. Active(u) /\ sending'[u] = sending[u]
      BY <1>9, <2>2 DEF Active
    <3>2. /\ sending[u].post \in DOMAIN posts
          /\ posts[sending[u].post].thread = u
          /\ \A p \in DOMAIN posts : posts[p].thread = u => p <= sending[u].post
      BY <3>1 DEF Inv, OnItsLast
    <3> QED  BY <1>6, <1>8, <2>2, <3>1, <3>2
  <2> QED  BY <2>1, <2>2
<1>17. Numbered'
  <2>1. /\ \A p \in DOMAIN posts : posts[p].registration <= registrations
        /\ \A p \in DOMAIN posts : posts[p].registration = registrations => posts[p].sequence <= nextSequenceId
        /\ \A p, q \in DOMAIN posts :
             posts[p].registration = posts[q].registration /\ posts[p].sequence = posts[q].sequence
               => p = q
    BY <1>1 DEF Inv, Numbered
  <2>2. /\ registered' = registered /\ registrations' = registrations /\ registrations <= registrations
        /\ nextSequenceId <= sq /\ sq <= sq
    BY <1>2, <1>3 DEF Allocate
  <2>3. \A p \in DOMAIN posts :
          posts[p].registration = registrations => posts[p].sequence # sq /\ posts[p].sequence <= sq
    <3>1. \A p \in DOMAIN posts : posts[p].sequence \in Nat
      BY <1>1, PostParts DEF PostRecord
    <3>2. \A x \in Nat : x <= nextSequenceId => x # sq /\ x <= sq
      BY <1>2, <1>3
    <3> QED  BY <2>1, <3>1, <3>2
  <2>4. nextSequenceId' <= Len(posts')
    BY <1>4, <1>7, <1>8
  <2>5. \A p \in DOMAIN posts' : posts'[p].registration <= registrations'
    BY <1>6, <1>8, <2>1, <2>2
  <2>6. \A p \in DOMAIN posts' :
          posts'[p].registration = registrations' => posts'[p].sequence <= nextSequenceId'
    BY <1>6, <1>7, <1>8, <2>2, <2>3
  <2>7. \A p, q \in DOMAIN posts' :
          posts'[p].registration = posts'[q].registration /\ posts'[p].sequence = posts'[q].sequence
            => p = q
    BY <1>6, <1>8, <2>1, <2>3
  <2> QED  BY <2>4, <2>5, <2>6, <2>7 DEF Numbered
<1> QED  BY <1>10, <1>14, <1>15, <1>16, <1>17 DEF Inv

-----------------------------------------------------------------------------
(* The main thread.                                                        *)

\* Steps that leave the posts and the threads alone, and hand nothing over.
LEMMA QuietKeeps ==
  ASSUME Inv, UNCHANGED <<sending, posts>>, Types', Numbered', outbox' \in Seq(Entry), Resending' \in Seq(Entry),
         Within(outbox', outbox), Within(Resending', Resending)
  PROVE  Inv'
<1>1. Types
  BY DEF Inv
<1>2. SamePosts
  BY <1>1, UnchangedPosts
<1>3. ThreadsShrink
  BY <1>1, SameThreads
<1>4. OnePlace' /\ OrderKept' /\ \A p, T : Waits(p, T)' => Waits(p, T)
  BY <1>2, <1>3, ShrinkKeeps
<1>5. WrittenOnce'
  BY <1>2, <1>4, SameFinds, WritesKeep
<1>6. OnItsLast'
  BY <1>2, SameKeepsLast
<1> QED  BY <1>4, <1>5, <1>6 DEF Inv

LEMMA EndpointListsKeeps == ASSUME Inv, NEW T \in Target, EndpointLists(T) PROVE Inv'
<1>1. Types /\ main = Idle
  BY DEF Inv, EndpointLists
<1>2. Resending = << >> /\ Resending' = << >> /\ << >> \in Seq(Entry)
  <2>1. << >> \in Seq(Entry)
    OBVIOUS
  <2> QED  BY <1>1, <2>1 DEF Resending, Idle, EndpointLists
<1>3. MainTyped'
  BY DEF EndpointLists, MainTyped, Main
<1>4. RoutesTyped'
  <2>1. RoutesTyped
    BY <1>1, TypesParts
  <2>2. CASE routes' = routes
    BY <2>1, <2>2 DEF RoutesTyped
  <2>3. CASE routes' = <<T>>
    BY <2>3 DEF RoutesTyped, IsInjective, Route
  <2> QED  BY <2>2, <2>3 DEF EndpointLists
<1>5. SamePosts
  BY <1>1, UnchangedPosts DEF EndpointLists
<1>6. Types'
  <2>1. ActorTyped'
    BY <1>1, TypesParts DEF ActorTyped, EndpointLists
  <2> QED  BY <1>1, <1>3, <1>4, <1>5, <2>1, TypesPrimed, SamePostsTyped, SameSending, SameOutbox DEF EndpointLists
<1>7. Numbered'
  BY DEF EndpointLists, Inv, Numbered
<1> QED  BY <1>1, <1>2, <1>6, <1>7, QuietKeeps, SameOutbox, EmptyWithin DEF EndpointLists

\* The entries of the target move from the outbox to the resend.
LEMMA DrainStepKeeps == ASSUME Inv, Drain PROVE Inv'
<1>1. Types /\ main.step = "drain"
  BY DEF Inv, Drain
<1>2. PICK T : T = main.target
  OBVIOUS
<1>3. Resending = << >> /\ outbox \in Seq(Entry) /\ outbox' = Kept(outbox, {i \in DOMAIN outbox : outbox[i].target # T})
  <2>1. Resending = << >> /\ outbox \in Seq(Entry)
    BY <1>1, MainParts, OutboxParts
  <2> QED  BY <1>2, <2>1 DEF Drain
<1>4. PICK match : match = Kept(outbox, {i \in DOMAIN outbox : outbox[i].target = T})
  OBVIOUS
<1>5. /\ match \in Seq(Entry) /\ Within(match, outbox)
      /\ \A a \in DOMAIN match : match[a].target = T
  <2> DEFINE I == {i \in DOMAIN outbox : outbox[i].target = T}
  <2>1. \A i \in I : outbox[i].target = T
    OBVIOUS
  <2>2. match = Kept(outbox, I)
    BY <1>4
  <2> HIDE DEF I
  <2>3. Kept(outbox, I) \in Seq(Entry)
    BY <1>3, KeptPicks
  <2>4. /\ Within(Kept(outbox, I), outbox)
        /\ \A a \in DOMAIN Kept(outbox, I) : \E i \in DOMAIN outbox : i \in I /\ Kept(outbox, I)[a] = outbox[i]
    BY <1>3, KeptWithin
  <2> QED  BY <2>1, <2>2, <2>3, <2>4
<1>6. /\ outbox' \in Seq(Entry) /\ Len(outbox') <= Len(outbox) /\ Within(outbox', outbox)
      /\ \A a \in DOMAIN outbox' : outbox'[a].target # T
  <2> DEFINE I == {i \in DOMAIN outbox : outbox[i].target # T}
  <2>1. \A i \in I : outbox[i].target # T
    OBVIOUS
  <2>2. outbox' = Kept(outbox, I)
    BY <1>3
  <2> HIDE DEF I
  <2>3. Kept(outbox, I) \in Seq(Entry) /\ Len(Kept(outbox, I)) <= Len(outbox)
    BY <1>3, KeptPicks
  <2>4. /\ Within(Kept(outbox, I), outbox)
        /\ \A a \in DOMAIN Kept(outbox, I) : \E i \in DOMAIN outbox : i \in I /\ Kept(outbox, I)[a] = outbox[i]
    BY <1>3, KeptWithin
  <2> QED  BY <2>1, <2>2, <2>3, <2>4
<1>7. main' = IF match = << >> THEN Idle ELSE [step |-> "resend", entries |-> match]
  BY <1>2, <1>4 DEF Drain, Matching
<1>8. MainTyped' /\ Resending' = match
  <2>1. CASE match = << >>
    BY <1>7, <2>1 DEF MainTyped, Main, Resending, Idle
  <2>2. CASE match # << >>
    BY <1>5, <1>7, <2>2 DEF MainTyped, Main, Resending
  <2> QED  BY <2>1, <2>2
<1>9. SamePosts
  BY <1>1, UnchangedPosts DEF Drain
<1>10. Types'
  <2>1. OutboxTyped'
    <3>1. Len(outbox) \in Nat /\ Len(outbox') \in Nat /\ Len(outbox) <= MaxOutbox /\ MaxOutbox \in Nat
      BY <1>1, <1>6, OutboxParts, TypesParts, BoundAssumption DEF OutboxTyped
    <3>2. \A a, b, c \in Nat : a <= b /\ b <= c => a <= c
      OBVIOUS
    <3> QED  BY <1>6, <3>1, <3>2 DEF OutboxTyped
  <2> QED  BY <1>1, <1>8, <1>9, <2>1, TypesPrimed, SamePostsTyped, SameSending, SameActor, SameRoutes DEF Drain
<1>11. \A u \in Thread : Todo(u)' = Todo(u) /\ sending'[u] = sending[u]
  BY DEF Drain, Todo
<1>12. posts' = posts
  BY DEF Drain
<1>13. /\ \A i \in DOMAIN outbox' : \E a \in DOMAIN outbox : outbox'[i] = outbox[a]
       /\ \A i \in DOMAIN match : \E a \in DOMAIN outbox : match[i] = outbox[a]
  BY <1>5, <1>6 DEF Within
<1>14. OldPosts
  BY <1>12 DEF OldPosts
<1>15. EntriesSound(outbox)
  BY DEF Inv, OnePlace
<1>16. EntriesSound(outbox)'
  <2>1. /\ \A i \in DOMAIN outbox' : outbox'[i].post \in DOMAIN posts' /\ outbox'[i].sequence = posts'[outbox'[i].post].sequence
        /\ \A i, j \in DOMAIN outbox' : outbox'[i].post = outbox'[j].post /\ outbox'[i].target = outbox'[j].target => i = j
    BY <1>3, <1>6, <1>14, <1>15, SoundWithin
  <2> QED  BY <2>1 DEF EntriesSound
<1>17. EntriesSound(Resending)'
  <2>1. /\ \A i \in DOMAIN match : match[i].post \in DOMAIN posts' /\ match[i].sequence = posts'[match[i].post].sequence
        /\ \A i, j \in DOMAIN match : match[i].post = match[j].post /\ match[i].target = match[j].target => i = j
    BY <1>3, <1>5, <1>14, <1>15, SoundWithin
  <2> QED  BY <1>8, <2>1 DEF EntriesSound
<1>18. \A i \in DOMAIN outbox', j \in DOMAIN Resending' :
         ~ (outbox'[i].post = Resending'[j].post /\ outbox'[i].target = Resending'[j].target)
  BY <1>5, <1>6, <1>8
<1>19. \A u \in Thread : \A i, j \in DOMAIN Todo(u)' : Todo(u)'[i] = Todo(u)'[j] => i = j
  BY <1>11 DEF Inv, OnePlace
<1>20. \A u \in Thread : \A k \in DOMAIN Todo(u)' :
         /\ \A i \in DOMAIN outbox' : ~ (outbox'[i].post = sending'[u].post /\ outbox'[i].target = Todo(u)'[k])
         /\ \A i \in DOMAIN Resending' : ~ (Resending'[i].post = sending'[u].post /\ Resending'[i].target = Todo(u)'[k])
  <2>1. \A u \in Thread : \A k \in DOMAIN Todo(u) :
          \A i \in DOMAIN outbox : ~ (outbox[i].post = sending[u].post /\ outbox[i].target = Todo(u)[k])
    BY DEF Inv, OnePlace
  <2> QED  BY <1>8, <1>11, <1>13, <2>1
<1>21. OnePlace'
  BY <1>16, <1>17, <1>18, <1>19, <1>20 DEF OnePlace
<1>22. OrderKept'
  <2> SUFFICES ASSUME NEW i \in DOMAIN outbox', NEW j \in DOMAIN outbox', i < j,
                      outbox'[i].target = outbox'[j].target,
                      posts'[outbox'[i].post].thread = posts'[outbox'[j].post].thread
               PROVE  outbox'[i].post < outbox'[j].post
    BY DEF OrderKept
  <2>1. PICK a \in DOMAIN outbox, b \in DOMAIN outbox : a < b /\ outbox'[i] = outbox[a] /\ outbox'[j] = outbox[b]
    BY <1>6 DEF Within
  <2> QED  BY <1>12, <2>1 DEF Inv, OrderKept
<1>23. \A p, U : Waits(p, U)' => Waits(p, U)
  BY <1>8, <1>11, <1>13 DEF Waits
<1>24. WrittenOnce'
  BY <1>9, <1>12, <1>23, SameFinds, WritesKeep DEF Drain
<1>25. OnItsLast'
  BY <1>9, <1>12, SameKeepsLast DEF Drain
<1>26. Numbered'
  BY <1>9, SameNumbers DEF Drain
<1> QED  BY <1>10, <1>21, <1>22, <1>24, <1>25, <1>26 DEF Inv

\* The first entry of the resend leaves it, written or not.
LEMMA ResendKeeps == ASSUME Inv, Resend PROVE Inv'
<1>1. Types /\ main.step = "resend"
  BY DEF Inv, Resend
<1>2. PICK q, T : q = Head(Resending).post /\ T = Head(Resending).target
  OBVIOUS
<1>3. /\ main \in [step : {"resend"}, entries : Seq(Entry)]
      /\ Resending = main.entries /\ Resending \in Seq(Entry) /\ Resending # << >>
  BY <1>1, MainParts
<1>4. PICK rest : rest = Tail(Resending)
  OBVIOUS
<1>5. /\ rest \in Seq(Entry) /\ Head(Resending) \in Entry /\ Within(rest, Resending)
      /\ Len(rest) = Len(Resending) - 1
      /\ 1 \in DOMAIN Resending /\ Head(Resending) = Resending[1]
      /\ \A a \in DOMAIN rest : a + 1 \in DOMAIN Resending /\ a + 1 # 1 /\ rest[a] = Resending[a + 1]
  BY <1>3, <1>4, TailWithin
<1>6. T \in Target /\ q \in DOMAIN posts
  BY <1>1, <1>2, <1>3, <1>5, HandPosts DEF Entry
<1>7. MainTyped' /\ Resending' = rest
  <2>1. main' = IF Len(Resending) = 1 THEN Idle ELSE [main EXCEPT !.entries = rest]
    BY <1>3, <1>4 DEF Resend
  <2>2. CASE Len(Resending) = 1
    <3>1. Len(rest) = 0
      BY <1>5, <2>2
    <3>2. rest = << >>
      BY <1>5, <3>1
    <3> QED  BY <2>1, <2>2, <3>2 DEF MainTyped, Main, Resending, Idle
  <2>3. CASE Len(Resending) # 1
    <3>1. Len(rest) # 0
      BY <1>3, <1>5, <2>3
    <3>2. rest # << >>
      BY <3>1
    <3>3. main' = [main EXCEPT !.entries = rest]
      BY <2>1, <2>3
    <3>4. main' \in [step : {"resend"}, entries : Seq(Entry)] /\ main'.step = "resend" /\ main'.entries = rest
      BY <1>3, <1>5, <3>3
    <3> QED  BY <3>2, <3>4 DEF MainTyped, Main, Resending
  <2> QED  BY <2>2, <2>3
<1>8. SamePosts /\ \A p \in DOMAIN posts, U \in Target :
                     \/ posts'[p].writes[U] = posts[p].writes[U]
                     \/ posts'[p].writes[U] = posts[p].writes[U] + 1 /\ p = q /\ U = T
  <2>1. CASE ChannelAccepts(Head(main.entries).post, Head(main.entries).target)
    <3>1. /\ SamePosts /\ SameWritesBut(q)
          /\ \A U \in Target : posts'[q].writes[U] = IF U = T THEN posts[q].writes[U] + 1
                                                            ELSE posts[q].writes[U]
      BY <1>1, <1>2, <1>3, <1>6, <2>1, AcceptWrites
    <3> QED  BY <3>1 DEF SameWritesBut
  <2>2. CASE ChannelRefuses
    <3>1. posts' = posts
      BY <2>2 DEF ChannelRefuses
    <3> QED  BY <1>1, <3>1, UnchangedPosts
  <2> QED  BY <2>1, <2>2 DEF Resend
<1>9. Types'
  BY <1>1, <1>7, <1>8, TypesPrimed, SamePostsTyped, SameSending, SameActor, SameOutbox, SameRoutes DEF Resend
<1>10. ThreadsShrink
  BY <1>1, SameThreads DEF Resend
<1>11. OnePlace' /\ OrderKept' /\ \A p, U : Waits(p, U)' => Waits(p, U)
  BY <1>1, <1>5, <1>7, <1>8, <1>10, ShrinkKeeps, SameOutbox DEF Resend
<1>12. Waits(q, T) /\ ~ Waits(q, T)'
  <2>1. Waits(q, T)
    BY <1>2, <1>5 DEF Waits
  <2>2. \A i \in DOMAIN outbox : ~ (outbox[i].post = q /\ outbox[i].target = T)
    BY <1>2, <1>5 DEF Inv, OnePlace
  <2>3. \A u \in Thread : \A k \in DOMAIN Todo(u) : ~ (sending[u].post = q /\ Todo(u)[k] = T)
    BY <1>2, <1>5 DEF Inv, OnePlace
  <2>4. \A i \in DOMAIN rest : ~ (rest[i].post = q /\ rest[i].target = T)
    <3> SUFFICES ASSUME NEW i \in DOMAIN rest, rest[i].post = q, rest[i].target = T PROVE FALSE
      OBVIOUS
    <3>1. i + 1 \in DOMAIN Resending /\ i + 1 # 1 /\ Resending[i + 1].post = Resending[1].post
          /\ Resending[i + 1].target = Resending[1].target
      BY <1>2, <1>5
    <3> QED  BY <1>5, <3>1 DEF Inv, OnePlace, EntriesSound
  <2>5. outbox' = outbox /\ \A u \in Thread : Todo(u)' = Todo(u) /\ sending'[u] = sending[u]
    BY DEF Resend, Todo
  <2> QED  BY <1>7, <2>1, <2>2, <2>3, <2>4, <2>5 DEF Waits
<1>13. WrittenOnce'
  BY <1>8, <1>11, <1>12, SameFinds, WritesKeep DEF Resend
<1>14. OnItsLast'
  BY <1>8, SameKeepsLast DEF Resend
<1>15. Numbered'
  BY <1>8, SameNumbers DEF Resend
<1> QED  BY <1>9, <1>11, <1>13, <1>14, <1>15 DEF Inv

\* An acknowledgement only takes entries out of the outbox.
LEMMA AcknowledgeKeeps == ASSUME Inv, NEW p, NEW T, Acknowledge(p, T) PROVE Inv'
<1>1. Types
  BY DEF Inv
<1>2. outbox \in Seq(Entry)
  BY <1>1, OutboxParts
<1>3. PICK I : outbox' = Kept(outbox, I)
  BY DEF Acknowledge, AckOutboxByRoute
<1>4. outbox' \in Seq(Entry) /\ Len(outbox') <= Len(outbox) /\ Within(outbox', outbox)
  <2>1. Kept(outbox, I) \in Seq(Entry) /\ Len(Kept(outbox, I)) <= Len(outbox)
    BY <1>2, KeptPicks
  <2>2. Within(Kept(outbox, I), outbox)
    BY <1>2, KeptWithin
  <2> QED  BY <1>3, <2>1, <2>2
<1>5. SamePosts
  BY <1>1, UnchangedPosts DEF Acknowledge
<1>6. Types'
  <2>1. OutboxTyped'
    <3>1. Len(outbox) \in Nat /\ Len(outbox') \in Nat /\ Len(outbox) <= MaxOutbox /\ MaxOutbox \in Nat
      BY <1>1, <1>4, OutboxParts, TypesParts, BoundAssumption DEF OutboxTyped
    <3>2. \A a, b, c \in Nat : a <= b /\ b <= c => a <= c
      OBVIOUS
    <3> QED  BY <1>4, <3>1, <3>2 DEF OutboxTyped
  <2> QED  BY <1>1, <1>5, <2>1, TypesPrimed, SamePostsTyped, SameSending, SameMain, SameActor, SameRoutes DEF Acknowledge
<1>7. Numbered'
  BY <1>5, SameNumbers DEF Acknowledge
<1> QED  BY <1>1, <1>4, <1>6, <1>7, QuietKeeps, SameMain DEF Acknowledge

-----------------------------------------------------------------------------
(* Registration, routes and connections.                                   *)

LEMMA ForgetKeeps ==
  ASSUME Inv, outbox' = << >>, nextSequenceId' = 0, UNCHANGED <<routes, connected, sending, main, posts>>,
         registered' \in BOOLEAN, registrations' \in 1 .. MaxRegistrations,
         registrations <= registrations', registered' => registrations < registrations'
  PROVE  Inv'
<1> USE BoundAssumption
<1>1. Types
  BY DEF Inv
<1>2. << >> \in Seq(Entry) /\ Len(<< >>) = 0
  OBVIOUS
<1>3. SamePosts
  BY <1>1, UnchangedPosts
<1>4. Types'
  <2>1. OutboxTyped'
    BY <1>2 DEF OutboxTyped
  <2>2. ActorTyped'
    <3>1. 0 \in 0 .. MaxPosts /\ connected \subseteq Target
      BY <1>1, TypesParts DEF ActorTyped
    <3> QED  BY <3>1 DEF ActorTyped
  <2> QED  BY <1>1, <1>3, <2>1, <2>2, TypesPrimed, SamePostsTyped, SameSending, SameMain, SameRoutes
<1>5. Numbered'
  <2>1. /\ \A p \in DOMAIN posts : posts[p].registration <= registrations
        /\ \A p, q \in DOMAIN posts :
             posts[p].registration = posts[q].registration /\ posts[p].sequence = posts[q].sequence
               => p = q
    BY DEF Inv, Numbered
  <2>2. Len(posts) \in Nat /\ registrations \in Nat /\ \A p \in DOMAIN posts : posts[p].registration \in Nat
    BY <1>1, PostParts, TypesParts DEF ActorTyped, PostRecord
  <2>3. \A p \in DOMAIN posts : posts[p].registration <= registrations'
    <3>1. \A a, b, c \in Nat : a <= b /\ b <= c => a <= c
      OBVIOUS
    <3>2. registrations' \in Nat
      OBVIOUS
    <3> QED  BY <2>1, <2>2, <3>1, <3>2
  <2>4. registered' => \A p \in DOMAIN posts : posts[p].registration # registrations'
    <3>1. \A a, b, c \in Nat : a <= b /\ b < c => a # c
      OBVIOUS
    <3>2. registrations' \in Nat
      OBVIOUS
    <3> QED  BY <2>1, <2>2, <3>1, <3>2
  <2>5. nextSequenceId' <= Len(posts')
    BY <2>2
  <2> QED  BY <2>1, <2>3, <2>4, <2>5 DEF Numbered
<1>6. Within(outbox', outbox)
  BY EmptyWithin
<1> QED  BY <1>1, <1>2, <1>4, <1>5, <1>6, QuietKeeps, SameMain

LEMMA RegisterActorKeeps == ASSUME Inv, NEW r \in Route, RegisterActor(r) PROVE Inv'
<1>1. Types
  BY DEF Inv
<1>2. SamePosts
  BY <1>1, UnchangedPosts DEF RegisterActor
<1>3. RoutesTyped'
  <2>1. routes \in Seq(Route) /\ \A i, j \in DOMAIN routes : routes[i] = routes[j] => i = j
    BY <1>1, TypesParts DEF RoutesTyped, IsInjective
  <2>2. DOMAIN routes = 1 .. Len(routes)
    BY <2>1
  <2>3. \A i \in DOMAIN routes : routes[i] # r
    BY <2>2 DEF RegisterActor, Contains
  <2>4. /\ routes' \in Seq(Route) /\ DOMAIN routes' = DOMAIN routes \cup {Len(routes) + 1}
        /\ routes'[Len(routes) + 1] = r
        /\ \A i \in DOMAIN routes : routes'[i] = routes[i]
    BY <2>1, AppendParts DEF RegisterActor
  <2> QED  BY <2>1, <2>3, <2>4 DEF RoutesTyped, IsInjective
<1>4. Types'
  BY <1>1, <1>2, <1>3, TypesPrimed, SamePostsTyped, SameSending, SameMain, SameActor, SameOutbox DEF RegisterActor
<1>5. Numbered'
  BY <1>2, SameNumbers DEF RegisterActor
<1> QED  BY <1>1, <1>4, <1>5, QuietKeeps, SameMain, SameOutbox DEF RegisterActor

LEMMA LinkChangesKeeps == ASSUME Inv, NEW T \in Target, LinkChanges(T) PROVE Inv'
<1>1. Types
  BY DEF Inv
<1>2. SamePosts
  BY <1>1, UnchangedPosts DEF LinkChanges
<1>3. ActorTyped'
  <2>1. connected' \subseteq Target
    BY <1>1, TypesParts DEF ActorTyped, LinkChanges
  <2> QED  BY <1>1, <2>1, TypesParts DEF ActorTyped, LinkChanges
<1>4. Types'
  BY <1>1, <1>2, <1>3, TypesPrimed, SamePostsTyped, SameSending, SameMain, SameOutbox, SameRoutes DEF LinkChanges
<1>5. Numbered'
  BY <1>2, SameNumbers DEF LinkChanges
<1> QED  BY <1>1, <1>4, <1>5, QuietKeeps, SameMain, SameOutbox DEF LinkChanges

-----------------------------------------------------------------------------
LEMMA InvNext == Inv /\ [Next]_vars => Inv'
<1> USE BoundAssumption
<1> SUFFICES ASSUME Inv, [Next]_vars PROVE Inv'
  OBVIOUS
<1>1. Types
  BY DEF Inv
<1>2. ASSUME NEW t \in Thread, SendActor(t) PROVE Inv'
  BY <1>2, AllocateKeeps, FindRoutesKeeps, CheckRouteKeeps, SendRouteKeeps, EnqueueRouteKeeps DEF SendActor
<1>3. ASSUME NEW T \in Target, EndpointLists(T) \/ LinkChanges(T) PROVE Inv'
  BY <1>3, EndpointListsKeeps, LinkChangesKeeps
<1>4. CASE Drain
  BY <1>4, DrainStepKeeps
<1>5. CASE Resend
  BY <1>5, ResendKeeps
<1>6. ASSUME NEW p \in DOMAIN posts, NEW T \in Target, Acknowledge(p, T) PROVE Inv'
  BY <1>6, AcknowledgeKeeps
<1>7. CASE Register
  <2>1. registrations \in 1 .. MaxRegistrations
    BY <1>1, TypesParts DEF ActorTyped
  <2>2. /\ registrations' \in 1 .. MaxRegistrations /\ registrations < registrations'
        /\ registrations <= registrations'
    BY <1>7, <2>1 DEF Register
  <2>3. registered' \in BOOLEAN
    BY <1>7 DEF Register
  <2> QED  BY <1>7, <2>2, <2>3, ForgetKeeps DEF Register
<1>8. CASE Unregister
  <2>1. registrations' \in 1 .. MaxRegistrations /\ registrations <= registrations'
    BY <1>1, <1>8, TypesParts DEF ActorTyped, Unregister
  <2>2. registered' \in BOOLEAN /\ ~ registered'
    BY <1>8 DEF Unregister
  <2> QED  BY <1>8, <2>1, <2>2, ForgetKeeps DEF Unregister
<1>9. ASSUME NEW r \in Route, RegisterActor(r) PROVE Inv'
  BY <1>9, RegisterActorKeeps
<1>10. CASE UNCHANGED vars
  <2>1. UNCHANGED <<registered, nextSequenceId, outbox, routes, connected, sending, main, registrations, posts>>
    BY <1>10 DEF vars
  <2>2. SamePosts
    BY <1>1, <2>1, UnchangedPosts
  <2>3. Types'
    BY <1>1, <2>1, <2>2, TypesPrimed, SamePostsTyped, SameSending, SameMain, SameActor, SameOutbox, SameRoutes
  <2>4. Numbered'
    BY <2>1, <2>2, SameNumbers
  <2> QED  BY <1>1, <2>1, <2>3, <2>4, QuietKeeps, SameMain, SameOutbox
<1> QED  BY <1>2, <1>3, <1>4, <1>5, <1>6, <1>7, <1>8, <1>9, <1>10 DEF Next

\* The inductive invariant of SendActor and the outbox.
THEOREM Inductive == Spec => []Inv
<1>1. Init => Inv
  BY InvInit
<1>2. Inv /\ [Next]_vars => Inv'
  BY InvNext
<1> QED  BY <1>1, <1>2, PTL DEF Spec

\* The actor's entry, its routes and what the threads have in hand are what their
\* types say, and the outbox never holds more than kMaxOutboxPerActor entries.
THEOREM TypeCorrect == Spec => []TypeOK
<1>1. Inv => TypeOK
  BY DEF Inv, Types
<1> QED  BY <1>1, Inductive, PTL

\* Whatever the threads, the drains and the acknowledgements do in between, posts of
\* one thread to one target wait in the order they were made, and none waits twice.
THEOREM OutboxKeepsOrder == Spec => []OrderKept
<1>1. Inv => OrderKept
  BY DEF Inv
<1> QED  BY <1>1, Inductive, PTL

\* However sends, refusals, drains and resends interleave, SendActor and the drain
\* write the copy of a post for one route at most once.
THEOREM PostsAreNotDuplicated == Spec => []NoDuplicates
<1>1. Inv => NoDuplicates
  BY DEF Inv, WrittenOnce, NoDuplicates
<1> QED  BY <1>1, Inductive, PTL

\* An acknowledgement takes no entry but that of the acknowledged post and the peer
\* that acknowledged it, of those the same registration numbered.
LEMMA AckTakesItsOwn ==
  ASSUME Inv, NEW p \in DOMAIN posts, NEW T \in Target, Acknowledge(p, T),
         NEW e \in Entries \ {outbox'[i] : i \in DOMAIN outbox'}
  PROVE  (e.post = p /\ e.target = T) \/ posts[e.post].registration # posts[p].registration
<1>1. outbox \in Seq(Entry)
  BY OutboxParts DEF Inv
<1>2. PICK a \in DOMAIN outbox : e = outbox[a]
  BY DEF Entries
<1> DEFINE I == {i \in DOMAIN outbox : ~ (outbox[i].sequence = posts[p].sequence /\ outbox[i].target = T)}
<1>3. a \notin I => e.sequence = posts[p].sequence /\ e.target = T
  BY <1>2
<1>4. outbox' = Kept(outbox, I)
  BY DEF Acknowledge, AckOutboxByRoute
<1> HIDE DEF I
<1>5. \A i \in DOMAIN outbox : i \in I => \E b \in DOMAIN outbox' : outbox'[b] = outbox[i]
  <2>1. \A i \in DOMAIN outbox : i \in I => \E b \in DOMAIN Kept(outbox, I) : Kept(outbox, I)[b] = outbox[i]
    BY <1>1, KeptWithin
  <2> QED  BY <1>4, <2>1
<1>6. e.sequence = posts[p].sequence /\ e.target = T
  BY <1>2, <1>3, <1>5
<1>7. e.post \in DOMAIN posts /\ e.sequence = posts[e.post].sequence
  BY <1>2 DEF Inv, OnePlace, EntriesSound
<1> QED  BY <1>6, <1>7 DEF Inv, Numbered

\* An acknowledgement of one peer leaves what other peers have not acknowledged, and
\* every other post of the registration, in the outbox.
THEOREM AcknowledgementsAreExact == Spec => AckIsExact
<1>1. ASSUME Inv
      PROVE  \A p \in DOMAIN posts, T \in Target : Acknowledge(p, T) =>
               \A e \in Entries \ {outbox'[i] : i \in DOMAIN outbox'} :
                  \/ e.post = p /\ e.target = T
                  \/ posts[e.post].registration # posts[p].registration
  BY <1>1, AckTakesItsOwn
<1>2. Inv => [\A p \in DOMAIN posts, T \in Target : Acknowledge(p, T) =>
               \A e \in Entries \ {outbox'[i] : i \in DOMAIN outbox'} :
                  \/ e.post = p /\ e.target = T
                  \/ posts[e.post].registration # posts[p].registration]_vars
  BY <1>1
<1> QED  BY <1>2, Inductive, PTL DEF AckIsExact
=============================================================================
