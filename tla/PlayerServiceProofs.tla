------------------------- MODULE PlayerServiceProofs -------------------------
(***************************************************************************)
(* A player that is online is never replaced, and every state is well      *)
(* typed, for any number of Sub threads, registrations and requests of any *)
(* count: what the unprotected accesses leave is still a container of      *)
(* player objects, and no request takes more than it saw.                  *)
(***************************************************************************)
EXTENDS PlayerService, TLAPS

\* doing is a function on the Subs, whatever record each of them holds.
DoingIsAFunction == doing = [s \in Sub |-> doing[s]]

\* Whoever is about to register the object owns the route, alone, and nobody
\* is there yet.
OneRegistrar ==
    /\ \A s \in Sub : At(s, "register") => route /\ actor = NoActor
    /\ \A s, t \in Sub : At(s, "register") /\ At(t, "register") => s = t
    /\ actor # NoActor => route

Inv == DoingIsAFunction /\ OneRegistrar

\* Initially nobody registers anything.
LEMMA InvInit == Init => Inv
  BY DEF Init, Inv, DoingIsAFunction, OneRegistrar, At, Idle

\* A step of s that leaves the route and the actor alone and does not bring s
\* to the registration keeps the invariant.
LEMMA InvFrame ==
  ASSUME Inv, UNCHANGED <<route, actor>>, NEW s \in Sub,
         Become(s, doing'[s]), doing'[s].step # "register"
  PROVE  Inv'
<1>1. doing' = [t \in Sub |-> doing'[t]]
  BY DEF Inv, DoingIsAFunction, Become
<1>2. ASSUME NEW t \in Sub, doing'[t].step = "register"
      PROVE  doing[t].step = "register"
  BY <1>2 DEF Inv, DoingIsAFunction, Become
<1>3. OneRegistrar'
  BY <1>2 DEF Inv, OneRegistrar, At
<1> QED  BY <1>1, <1>3 DEF Inv, DoingIsAFunction

\* Every step keeps the invariant: only the first to insert the route goes on to
\* register.
LEMMA InvStep == Inv /\ [Next]_vars => Inv'
<1> SUFFICES ASSUME Inv, [Next]_vars PROVE Inv'
  OBVIOUS
<1>1. CASE UNCHANGED vars
  BY <1>1 DEF vars, Inv, DoingIsAFunction, OneRegistrar, At
<1>2. ASSUME NEW s \in Sub, RegisterPlayer(s) PROVE Inv'
  <2>1. CASE FindPlayer(s)
    <3>1. Become(s, doing'[s]) /\ doing'[s].step # "register"
      BY <2>1 DEF FindPlayer, Become, Inv, DoingIsAFunction
    <3> QED  BY <2>1, <3>1, InvFrame DEF FindPlayer
  <2>2. CASE AddRoute(s)
    <3>1. CASE route
      <4>1. Become(s, doing'[s]) /\ doing'[s].step # "register"
        BY <2>2, <3>1 DEF AddRoute, Become, Inv, DoingIsAFunction
      <4> QED  BY <2>2, <3>1, <4>1, InvFrame DEF AddRoute
    <3>2. CASE ~ route
      <4>1. route' /\ actor' = actor /\ actor = NoActor
        BY <2>2, <3>2 DEF AddRoute, Inv, OneRegistrar
      <4>2. \A t \in Sub : t # s => doing'[t] = doing[t] /\ ~ At(t, "register")
        BY <2>2, <3>2 DEF AddRoute, Become, Inv, DoingIsAFunction, OneRegistrar
      <4>3. doing' = [t \in Sub |-> doing'[t]]
        BY <2>2 DEF AddRoute, Become, Inv, DoingIsAFunction
      <4>4. OneRegistrar'
        BY <4>1, <4>2 DEF OneRegistrar, At
      <4> QED  BY <4>3, <4>4 DEF Inv, DoingIsAFunction
    <3> QED  BY <3>1, <3>2
  <2>3. CASE Register(s)
    <3>1. route' /\ route
      BY <2>3 DEF Register, Inv, OneRegistrar
    <3>2. \A t \in Sub : doing'[t].step # "register"
      <4>1. \A t \in Sub : t # s => doing'[t] = doing[t] /\ ~ At(t, "register")
        BY <2>3 DEF Register, Become, Inv, DoingIsAFunction, OneRegistrar
      <4>2. doing'[s].step = "hold"
        BY <2>3 DEF Register, Become, Inv, DoingIsAFunction
      <4> QED  BY <4>1, <4>2 DEF At
    <3>3. doing' = [t \in Sub |-> doing'[t]]
      BY <2>3 DEF Register, Become, Inv, DoingIsAFunction
    <3>4. OneRegistrar'
      BY <3>1, <3>2 DEF OneRegistrar, At
    <3> QED  BY <3>3, <3>4 DEF Inv, DoingIsAFunction
  <2>4. CASE ReadEnd(s)
    <3>1. Become(s, doing'[s]) /\ doing'[s].step # "register"
      BY <2>4 DEF ReadEnd, Become, Inv, DoingIsAFunction
    <3> QED  BY <2>4, <3>1, InvFrame DEF ReadEnd
  <2>5. CASE Store(s)
    <3>1. Become(s, doing'[s]) /\ doing'[s].step # "register"
      BY <2>5 DEF Store, Idle, Become, Inv, DoingIsAFunction
    <3> QED  BY <2>5, <3>1, InvFrame DEF Store
  <2> QED  BY <1>2, <2>1, <2>2, <2>3, <2>4, <2>5 DEF RegisterPlayer
<1>3. ASSUME NEW s \in Sub, UseItem(s) PROVE Inv'
  <2>1. ASSUME NEW n \in Int32, FindMember(s, n) PROVE Inv'
    <3>1. Become(s, doing'[s]) /\ doing'[s].step # "register"
      BY <2>1 DEF FindMember, Become, Inv, DoingIsAFunction
    <3> QED  BY <2>1, <3>1, InvFrame DEF FindMember
  <2>2. CASE Look(s)
    <3>1. Become(s, doing'[s]) /\ doing'[s].step # "register"
      BY <2>2 DEF Look, Idle, Become, Inv, DoingIsAFunction
    <3> QED  BY <2>2, <3>1, InvFrame DEF Look
  <2>3. CASE Take(s)
    <3>1. Become(s, doing'[s]) /\ doing'[s].step # "register"
      BY <2>3 DEF Take, Become, Inv, DoingIsAFunction
    <3> QED  BY <2>3, <3>1, InvFrame DEF Take
  <2>4. CASE Subtract(s)
    <3>1. Become(s, doing'[s]) /\ doing'[s].step # "register"
      BY <2>4 DEF Subtract, Idle, Become, Inv, DoingIsAFunction
    <3> QED  BY <2>4, <3>1, InvFrame DEF Subtract
  <2> QED  BY <1>3, <2>1, <2>2, <2>3, <2>4 DEF UseItem
<1> QED  BY <1>1, <1>2, <1>3 DEF Next

\* An actor that is registered is never replaced: Register is only reached while
\* nobody is there.
THEOREM NoPlayerIsReplaced == Spec => OnlineActorStays
<1>1. Inv /\ [Next]_vars => [actor # NoActor => actor' = actor]_vars
  <2> SUFFICES ASSUME Inv, Next PROVE actor # NoActor => actor' = actor
    BY DEF vars
  <2>1. PICK s \in Sub : RegisterPlayer(s) \/ UseItem(s)
    BY DEF Next
  <2>2. CASE Register(s)
    BY <2>2 DEF Register, Inv, OneRegistrar
  <2>3. CASE ~ Register(s)
    BY <2>1, <2>3 DEF RegisterPlayer, UseItem, FindPlayer, AddRoute, ReadEnd,
                      Store, FindMember, Look, Take, Subtract
  <2> QED  BY <2>2, <2>3
<1> QED  BY <1>1, InvInit, InvStep, PTL DEF Spec, OnlineActorStays

-----------------------------------------------------------------------------
(* The types. *)

\* A request in progress, by what its thread has read so far.
Doing ==
    [step : {"idle"}]
      \cup [step : {"route", "register", "hold"}, object : Object]
      \cup [step : {"store"}, object : Object, size : Nat]
      \cup [step : {"look"}, object : Object, count : Int32]
      \cup [step : {"take", "subtract"}, object : Object, seen : Int32, count : Int32]

\* The end that a thread has read is not beyond what is stored, for elements are only
\* written over.
Types ==
    /\ TypeOK
    /\ \A s \in Sub : doing[s] \in Doing /\ (At(s, "store") => doing[s].size <= Len(players))

LEMMA TypesInit == Init => Types
<1> SUFFICES ASSUME Init PROVE Types
  OBVIOUS
<1>1. /\ Stock \in Int32 /\ 0 \in Int32 /\ MaxObjects \in Nat /\ MaxUses \in Nat
  BY StockAssumption, BoundAssumption DEF Int32, MinInt
<1>2. << >> \in Seq(Object) /\ Len(<< >>) = 0
  OBVIOUS
<1>3. \A s \in Sub : doing[s] = [step |-> "idle"]
  BY DEF Init, Idle
<1>4. \A s \in Sub : doing[s] \in Doing /\ doing[s].step = "idle"
  <2>1. [step |-> "idle"] \in [step : {"idle"}] /\ [step |-> "idle"].step = "idle"
    OBVIOUS
  <2>2. [step |-> "idle"] \in Doing
    BY <2>1 DEF Doing
  <2> QED  BY <1>3, <2>1, <2>2
<1>5. items \in [Object -> Int32]
  BY <1>1 DEF Init
<1>6. used \in [Object -> Int32]
  BY <1>1 DEF Init
<1>7. TypeOK
  <2>1. route \in BOOLEAN /\ confirmed \in BOOLEAN
    BY DEF Init
  <2>2. players \in Seq(Object) /\ end \in 0 .. Len(players)
    BY <1>2 DEF Init
  <2>3. actor \in Object \cup {NoActor} /\ created \in 0 .. MaxObjects /\ uses \in 0 .. MaxUses
    BY <1>1 DEF Init
  <2> QED  BY <1>4, <1>5, <1>6, <2>1, <2>2, <2>3 DEF TypeOK, At
<1> QED  BY <1>4, <1>7 DEF Types, At

\* The record of a thread, by its step.
LEMMA DoingByStep ==
  ASSUME Types, NEW s \in Sub
  PROVE  /\ doing[s].step \in {"route", "register", "hold", "store", "look", "take", "subtract"}
              => doing[s].object \in Object
         /\ At(s, "store") => doing[s].size \in Nat /\ doing[s].size <= Len(players)
         /\ At(s, "look") \/ At(s, "take") \/ At(s, "subtract") => doing[s].count \in Int32
         /\ At(s, "take") \/ At(s, "subtract") => doing[s].seen \in Int32
<1>1. doing[s] \in Doing /\ (At(s, "store") => doing[s].size <= Len(players))
  BY DEF Types
<1> QED  BY <1>1 DEF Doing, At

\* What has to be shown of a step of thread s.
LEMMA TypesFrame ==
  ASSUME Types, DoingIsAFunction, NEW s \in Sub, Become(s, doing'[s]), doing'[s] \in Doing,
         doing'[s].step = "store" => doing'[s].size <= Len(players'),
         route' \in BOOLEAN, confirmed' \in BOOLEAN, actor' \in Object \cup {NoActor},
         players' \in Seq(Object), Len(players) <= Len(players'), end' \in 0 .. Len(players'),
         doing'[s].step = "subtract" => doing'[s].count <= doing'[s].seen,
         items' \in [Object -> Int32], used' \in [Object -> Int32],
         created' \in 0 .. MaxObjects, uses' \in 0 .. MaxUses
  PROVE  Types'
<1>1. \A t \in Sub : t # s => doing'[t] = doing[t]
  BY DEF Become, DoingIsAFunction
<1>2. Len(players) \in Nat /\ Len(players') \in Nat
  BY DEF Types, TypeOK
<1>3. ASSUME NEW t \in Sub
      PROVE  doing'[t] \in Doing /\ (doing'[t].step = "store" => doing'[t].size <= Len(players'))
  <2>1. CASE t = s
    BY <2>1
  <2>2. CASE t # s
    <3>1. doing'[t] = doing[t] /\ doing[t] \in Doing
      BY <1>1, <2>2 DEF Types
    <3>2. doing[t].step = "store" => doing[t].size \in Nat /\ doing[t].size <= Len(players)
      BY DoingByStep DEF At
    <3> QED  BY <1>2, <3>1, <3>2
  <2> QED  BY <2>1, <2>2
<1>4. \A t \in Sub : doing'[t].step \in
         {"idle", "route", "register", "hold", "store", "look", "take", "subtract"}
  BY <1>3 DEF Doing
<1>5. \A t \in Sub : doing'[t].step = "subtract" => doing'[t].count <= doing'[t].seen
  BY <1>1 DEF Types, TypeOK, At
<1>6. TypeOK'
  BY <1>4, <1>5 DEF TypeOK, At
<1> QED  BY <1>3, <1>6 DEF Types, At

\* A store within a sequence.
LEMMA StoreTyped ==
  ASSUME NEW X, NEW q \in Seq(X), NEW i, NEW x \in X
  PROVE  [q EXCEPT ![i] = x] \in Seq(X) /\ Len([q EXCEPT ![i] = x]) = Len(q)
<1> DEFINE r == [q EXCEPT ![i] = x]
<1>1. q \in [1 .. Len(q) -> X] /\ Len(q) \in Nat
  OBVIOUS
<1>2. r \in [1 .. Len(q) -> X]
  BY <1>1
<1> HIDE DEF r
<1>3. r \in Seq(X) /\ Len(r) = Len(q)
  BY <1>1, <1>2
<1> QED  BY <1>3 DEF r

\* A sum or a difference of two int32 numbers is stored as an int32 number: it is off by
\* less than one turn of the range.
LEMMA WrapTyped ==
  ASSUME NEW a \in Int32, NEW b \in Int32 PROVE Wrap(a + b) \in Int32 /\ Wrap(a - b) \in Int32
<1>1. MaxInt \in Nat
  BY StockAssumption
<1>2. /\ a \in Int /\ a <= MaxInt /\ - MaxInt - 1 <= a
      /\ b \in Int /\ b <= MaxInt /\ - MaxInt - 1 <= b
  BY <1>1 DEF Int32, MinInt
<1>3. ASSUME NEW n \in Int, n <= 2 * MaxInt + 1, - 2 * MaxInt - 2 <= n PROVE Wrap(n) \in Int32
  BY <1>1, <1>3 DEF Wrap, Int32, MinInt
<1> QED  BY <1>1, <1>2, <1>3

LEMMA TypesStep == Types /\ DoingIsAFunction /\ [Next]_vars => Types'
<1> SUFFICES ASSUME Types, DoingIsAFunction, [Next]_vars PROVE Types'
  OBVIOUS
<1>0. /\ actor \in Object \cup {NoActor} /\ players \in Seq(Object) /\ end \in 0 .. Len(players)
      /\ items \in [Object -> Int32] /\ used \in [Object -> Int32]
      /\ created \in 0 .. MaxObjects /\ uses \in 0 .. MaxUses
      /\ MaxObjects \in Nat /\ MaxUses \in Nat /\ Len(players) \in Nat
      /\ Len(players) <= Len(players)
  BY BoundAssumption DEF Types, TypeOK
<1>1. route \in BOOLEAN /\ confirmed \in BOOLEAN
  BY DEF Types, TypeOK
<1>2. CASE UNCHANGED vars
  BY <1>2 DEF vars, Types, TypeOK, At
<1>3. ASSUME NEW s \in Sub, NEW d \in Doing, Become(s, d)
      PROVE  doing'[s] = d /\ Become(s, doing'[s])
  BY <1>3 DEF Become, DoingIsAFunction
<1>4. ASSUME NEW s \in Sub, FindPlayer(s) PROVE Types'
  <2>1. created' = created + 1 /\ created < MaxObjects
    BY <1>4 DEF FindPlayer
  <2>2. created' \in Object /\ created' \in 0 .. MaxObjects
    BY <1>0, <2>1 DEF Object
  <2> DEFINE d == [step |-> "route", object |-> created']
  <2>3. d \in Doing
    BY <2>2 DEF Doing
  <2>4. doing'[s] = d /\ Become(s, doing'[s])
    BY <1>3, <1>4, <2>3 DEF FindPlayer
  <2>5. route' = route /\ confirmed' = confirmed
    BY <1>4 DEF FindPlayer
  <2>6. route' \in BOOLEAN /\ confirmed' \in BOOLEAN
    BY <1>1, <2>5, Zenon
  <2>7. UNCHANGED <<actor, players, end, items, used, uses>>
    BY <1>4 DEF FindPlayer
  <2> QED  BY <1>0, <2>2, <2>3, <2>4, <2>6, <2>7, TypesFrame
<1>5. ASSUME NEW s \in Sub, AddRoute(s) PROVE Types'
  <2>1. doing[s].object \in Object
    BY <1>5, DoingByStep DEF AddRoute, At
  <2> DEFINE d == [step |-> IF route THEN "hold" ELSE "register", object |-> doing[s].object]
  <2>2. d \in Doing /\ d.step # "store"
    <3>1. (IF route THEN "hold" ELSE "register") \in {"route", "register", "hold"}
      OBVIOUS
    <3> QED  BY <2>1, <3>1 DEF Doing
  <2>3. doing'[s] = d /\ Become(s, doing'[s])
    BY <1>3, <1>5, <2>2 DEF AddRoute
  <2>4. route' \in BOOLEAN /\ confirmed' = confirmed
    BY <1>5 DEF AddRoute
  <2>5. confirmed' \in BOOLEAN
    BY <1>1, <2>4, Zenon
  <2>6. UNCHANGED <<actor, players, end, items, used, uses, created>>
    BY <1>5 DEF AddRoute
  <2> QED  BY <1>0, <2>2, <2>3, <2>4, <2>5, <2>6, TypesFrame
<1>6. ASSUME NEW s \in Sub, Register(s) PROVE Types'
  <2>1. doing[s].object \in Object
    BY <1>6, DoingByStep DEF Register, At
  <2> DEFINE d == [step |-> "hold", object |-> doing[s].object]
  <2>2. d \in Doing /\ d.step # "store"
    BY <2>1 DEF Doing
  <2>3. doing'[s] = d /\ Become(s, doing'[s])
    BY <1>3, <1>6, <2>2 DEF Register
  <2>4. route' = route /\ confirmed' = confirmed /\ actor' = doing[s].object
    BY <1>6 DEF Register
  <2>5. route' \in BOOLEAN /\ confirmed' \in BOOLEAN
    BY <1>1, <2>4, Zenon
  <2>6. UNCHANGED <<players, end, items, used, uses, created>>
    BY <1>6 DEF Register
  <2> QED  BY <1>0, <2>1, <2>2, <2>3, <2>4, <2>5, <2>6, TypesFrame
<1>7. ASSUME NEW s \in Sub, ReadEnd(s) PROVE Types'
  <2>1. doing[s].object \in Object
    BY <1>7, DoingByStep DEF ReadEnd, At
  <2> DEFINE d == [step |-> "store", object |-> doing[s].object, size |-> end]
  <2>2. d \in Doing /\ end <= Len(players)
    BY <1>0, <2>1 DEF Doing
  <2>3. doing'[s] = d /\ Become(s, doing'[s])
    BY <1>3, <1>7, <2>2 DEF ReadEnd
  <2>4. route' = route /\ confirmed' = confirmed
    BY <1>7 DEF ReadEnd
  <2>5. route' \in BOOLEAN /\ confirmed' \in BOOLEAN
    BY <1>1, <2>4, Zenon
  <2>6. UNCHANGED <<actor, players, end, items, used, uses, created>>
    BY <1>7 DEF ReadEnd
  <2>7. doing'[s] \in Doing /\ doing'[s].size <= Len(players') /\ Len(players) <= Len(players')
    BY <1>0, <2>2, <2>3, <2>6
  <2> QED  BY <1>0, <2>3, <2>5, <2>6, <2>7, TypesFrame
<1>8. ASSUME NEW s \in Sub, Store(s) PROVE Types'
  <2>1. /\ doing[s].object \in Object /\ doing[s].size \in Nat
        /\ doing[s].size <= Len(players)
    BY <1>8, DoingByStep DEF Store, At
  <2>2. Idle \in Doing /\ Idle.step = "idle"
    BY DEF Idle, Doing
  <2>3. doing'[s] = Idle /\ Become(s, doing'[s])
    BY <1>3, <1>8, <2>2 DEF Store
  <2>4. route' = route /\ confirmed' \in BOOLEAN
    BY <1>8 DEF Store
  <2>5. route' \in BOOLEAN
    BY <1>1, <2>4, Zenon
  <2>6. /\ end' = doing[s].size + 1
        /\ players' = IF end' <= Len(players) THEN [players EXCEPT ![end'] = doing[s].object]
                      ELSE Append(players, doing[s].object)
    BY <1>8 DEF Store
  <2>7. players' \in Seq(Object) /\ Len(players) <= Len(players') /\ end' \in 0 .. Len(players')
    <3>1. CASE end' <= Len(players)
      <4>1. players' = [players EXCEPT ![end'] = doing[s].object]
        BY <2>6, <3>1
      <4>2. players' \in Seq(Object) /\ Len(players') = Len(players)
        <5>1. players \in Seq(Object) /\ doing[s].object \in Object
          BY <1>0, <2>1
        <5> QED  BY <4>1, <5>1, StoreTyped
      <4> QED  BY <1>0, <2>1, <2>6, <3>1, <4>2
    <3>2. CASE ~ (end' <= Len(players))
      <4>1. players' = Append(players, doing[s].object)
        BY <2>6, <3>2
      <4>2. players' \in Seq(Object) /\ Len(players') = Len(players) + 1
        BY <1>0, <2>1, <4>1
      <4> QED  BY <1>0, <2>1, <2>6, <3>2, <4>2
    <3> QED  BY <3>1, <3>2
  <2>8. UNCHANGED <<actor, items, used, uses, created>>
    BY <1>8 DEF Store
  <2> QED  BY <1>0, <2>2, <2>3, <2>4, <2>5, <2>7, <2>8, TypesFrame
<1>9. ASSUME NEW s \in Sub, NEW n \in Int32, FindMember(s, n) PROVE Types'
  <2>1. actor \in Object /\ uses' = uses + 1 /\ uses < MaxUses
    BY <1>0, <1>9 DEF FindMember
  <2> DEFINE d == [step |-> "look", object |-> actor, count |-> n]
  <2>2. d \in Doing /\ d.step # "store"
    BY <2>1 DEF Doing
  <2>3. doing'[s] = d /\ Become(s, doing'[s])
    BY <1>3, <1>9, <2>2 DEF FindMember
  <2>4. route' = route /\ confirmed' = confirmed
    BY <1>9 DEF FindMember
  <2>5. route' \in BOOLEAN /\ confirmed' \in BOOLEAN
    BY <1>1, <2>4, Zenon
  <2>6. UNCHANGED <<actor, players, end, items, used, created>>
    BY <1>9 DEF FindMember
  <2>7. uses' \in 0 .. MaxUses
    BY <1>0, <2>1
  <2> QED  BY <1>0, <2>2, <2>3, <2>5, <2>6, <2>7, TypesFrame
<1>10. ASSUME NEW s \in Sub, Look(s) PROVE Types'
  <2> DEFINE seen == items[doing[s].object]
             d == [step |-> "take", object |-> doing[s].object,
                   seen |-> seen, count |-> doing[s].count]
  <2>1. doing[s].object \in Object /\ doing[s].count \in Int32
    BY <1>10, DoingByStep DEF Look, At
  <2>2. seen \in Int32
    BY <1>0, <2>1
  <2>3. Become(s, IF seen <= 0 THEN Idle ELSE d)
    BY <1>10 DEF Look
  <2>4. d \in Doing /\ d.step = "take"
    <3> HIDE DEF seen
    <3> QED  BY <2>1, <2>2 DEF Doing
  <2>5. Idle \in Doing /\ Idle.step = "idle"
    BY DEF Idle, Doing
  <2>6. doing'[s] \in Doing /\ doing'[s].step \in {"idle", "take"} /\ Become(s, doing'[s])
    <3> HIDE DEF seen, d
    <3> QED  BY <1>3, <2>3, <2>4, <2>5
  <2>7. route' = route /\ confirmed' = confirmed
    BY <1>10 DEF Look
  <2>8. route' \in BOOLEAN /\ confirmed' \in BOOLEAN
    BY <1>1, <2>7, Zenon
  <2>9. UNCHANGED <<actor, players, end, items, used, created, uses>>
    BY <1>10 DEF Look
  <2> QED  BY <1>0, <2>6, <2>8, <2>9, TypesFrame
<1>11. ASSUME NEW s \in Sub, Take(s) PROVE Types'
  <2>1. /\ doing[s].object \in Object /\ doing[s].count \in Int32
        /\ doing[s].seen \in Int32 /\ items[doing[s].object] \in Int32
    BY <1>0, <1>11, DoingByStep DEF Take, At
  <2>2. PICK seen \in {doing[s].seen, items[doing[s].object]} :
          Become(s, [step |-> "subtract", object |-> doing[s].object,
                     seen |-> seen, count |-> Smaller(doing[s].count, seen)])
    BY <1>11 DEF Take
  <2> DEFINE d == [step |-> "subtract", object |-> doing[s].object,
                   seen |-> seen, count |-> Smaller(doing[s].count, seen)]
  <2>3. seen \in Int32
    BY <2>1, <2>2
  <2>4. Smaller(doing[s].count, seen) \in Int32 /\ Smaller(doing[s].count, seen) <= seen
    <3>1. doing[s].count \in Int /\ seen \in Int
      BY <2>1, <2>3 DEF Int32
    <3> QED  BY <2>1, <2>3, <3>1 DEF Smaller
  <2>5. d \in Doing /\ d.step = "subtract" /\ d.count <= d.seen
    BY <2>1, <2>3, <2>4 DEF Doing
  <2>6. doing'[s] = d /\ Become(s, doing'[s])
    <3> HIDE DEF d
    <3>1. Become(s, d)
      BY <2>2 DEF d
    <3> QED  BY <1>3, <2>5, <3>1
  <2>7. route' = route /\ confirmed' = confirmed
    BY <1>11 DEF Take
  <2>8. route' \in BOOLEAN /\ confirmed' \in BOOLEAN
    BY <1>1, <2>7, Zenon
  <2>9. UNCHANGED <<actor, players, end, items, used, created, uses>>
    BY <1>11 DEF Take
  <2> HIDE DEF d
  <2> QED  BY <1>0, <2>5, <2>6, <2>8, <2>9, TypesFrame
<1>12. ASSUME NEW s \in Sub, Subtract(s) PROVE Types'
  <2> DEFINE o == doing[s].object
  <2>1. /\ o \in Object /\ doing[s].seen \in Int32 /\ doing[s].count \in Int32
    BY <1>12, DoingByStep DEF Subtract, At
  <2>2. PICK base \in {doing[s].seen, items[o]} :
          items' = [items EXCEPT ![o] = Wrap(base - doing[s].count)]
    BY <1>12 DEF Subtract
  <2>3. base \in Int32 /\ used[o] \in Int32
    BY <1>0, <2>1, <2>2
  <2>4. items' \in [Object -> Int32]
    <3>1. Wrap(base - doing[s].count) \in Int32
      BY <2>1, <2>3, WrapTyped
    <3> HIDE DEF o
    <3> QED  BY <1>0, <2>1, <2>2, <3>1
  <2>5. used' \in [Object -> Int32]
    <3>1. used' = [used EXCEPT ![o] = Wrap(used[o] + doing[s].count)]
      BY <1>12 DEF Subtract
    <3>2. Wrap(used[o] + doing[s].count) \in Int32
      BY <2>1, <2>3, WrapTyped
    <3> HIDE DEF o
    <3> QED  BY <1>0, <2>1, <3>1, <3>2
  <2>6. Idle \in Doing /\ Idle.step = "idle"
    BY DEF Idle, Doing
  <2>7. doing'[s] = Idle /\ Become(s, doing'[s])
    BY <1>3, <1>12, <2>6 DEF Subtract
  <2>8. route' = route /\ confirmed' = confirmed
    BY <1>12 DEF Subtract
  <2>9. route' \in BOOLEAN /\ confirmed' \in BOOLEAN
    BY <1>1, <2>8, Zenon
  <2>10. UNCHANGED <<actor, players, end, created, uses>>
    BY <1>12 DEF Subtract
  <2> QED  BY <1>0, <2>4, <2>5, <2>6, <2>7, <2>9, <2>10, TypesFrame
<1> QED  BY <1>2, <1>4, <1>5, <1>6, <1>7, <1>8, <1>9, <1>10, <1>11, <1>12
         DEF Next, RegisterPlayer, UseItem

\* Every state is well typed: threads that store into PlayerActors at once leave player
\* objects there and nothing else, every count is an int32 number, whatever was asked for,
\* and no request takes more than it saw.
THEOREM TypeCorrect == Spec => []TypeOK
<1>1. Inv => DoingIsAFunction
  BY DEF Inv
<1>2. Types => TypeOK
  BY DEF Types
<1> QED  BY <1>1, <1>2, InvInit, InvStep, TypesInit, TypesStep, PTL DEF Spec

-----------------------------------------------------------------------------
(* Answers and the object.                                                 *)

\* The request that put the route there, and has not handed its object over yet.
Registrar == \E s \in Sub : At(s, "register")

\* A request has passed the route table only when the route is there, and the route
\* is there only for an object that is in the system or on its way.
Winner ==
    /\ route => actor # NoActor \/ Registrar
    /\ \A s \in Sub : At(s, "hold") \/ At(s, "store") => route
    /\ confirmed => route

ConfirmedOrUnderWay == confirmed => actor # NoActor \/ Registrar

LEMMA WinnerInit == Init => Winner
  BY DEF Init, Winner, At, Idle

\* A step of s that leaves the route and the actor alone, does not begin or end a
\* registration, and holds the object or answers only with the route.
LEMMA WinnerFrame ==
  ASSUME Winner, DoingIsAFunction, NEW s \in Sub, Become(s, doing'[s]), UNCHANGED <<route, actor>>,
         ~ At(s, "register"), doing'[s].step \in {"hold", "store"} => route, confirmed' => route
  PROVE  Winner'
<1>1. \A t \in Sub : t # s => doing'[t] = doing[t]
  BY DEF Become, DoingIsAFunction
<1>2. Registrar => Registrar'
  BY <1>1 DEF Registrar, At
<1>3. ASSUME NEW t \in Sub, doing'[t].step = "hold" \/ doing'[t].step = "store" PROVE route'
  BY <1>1, <1>3 DEF Winner, At
<1> QED  BY <1>2, <1>3 DEF Winner, At

LEMMA WinnerStep == Winner /\ Inv /\ Types /\ [Next]_vars => Winner'
<1> SUFFICES ASSUME Winner, Inv, Types, [Next]_vars PROVE Winner'
  OBVIOUS
<1>1. DoingIsAFunction /\ (confirmed => route)
  BY DEF Inv, Winner
<1>2. CASE UNCHANGED vars
  BY <1>2 DEF vars, Winner, Registrar, At
<1>3. ASSUME NEW s \in Sub, FindPlayer(s) \/ UseItem(s) PROVE Winner'
  <2>1. Become(s, doing'[s]) /\ doing'[s].step \notin {"hold", "store"} /\ ~ At(s, "register")
    BY <1>1, <1>3 DEF FindPlayer, UseItem, FindMember, Look, Take, Subtract, Become,
                        DoingIsAFunction, At, Idle
  <2>2. UNCHANGED <<route, actor, confirmed>>
    BY <1>3 DEF FindPlayer, UseItem, FindMember, Look, Take, Subtract
  <2> QED  BY <1>1, <2>1, <2>2, WinnerFrame
<1>4. ASSUME NEW s \in Sub, AddRoute(s) PROVE Winner'
  <2>1. /\ Become(s, doing'[s]) /\ doing'[s].step = IF route THEN "hold" ELSE "register"
        /\ ~ At(s, "register") /\ route' = TRUE /\ UNCHANGED <<actor, confirmed>>
    BY <1>1, <1>4 DEF AddRoute, Become, DoingIsAFunction, At
  <2>2. CASE route
    <3>1. route' = route
      BY <2>1, <2>2 DEF Types, TypeOK
    <3> QED  BY <1>1, <2>1, <2>2, <3>1, WinnerFrame
  <2>3. CASE ~ route
    <3>1. Registrar'
      BY <2>1, <2>3 DEF Registrar, At
    <3> QED  BY <2>1, <3>1 DEF Winner
  <2> QED  BY <2>2, <2>3
<1>5. ASSUME NEW s \in Sub, Register(s) PROVE Winner'
  <2>1. actor' \in Object /\ route /\ route' = route
    BY <1>5, DoingByStep DEF Register, Inv, OneRegistrar, At
  <2>2. actor' # NoActor
    BY <2>1 DEF Object, NoActor
  <2> QED  BY <2>1, <2>2 DEF Winner
<1>6. ASSUME NEW s \in Sub, ReadEnd(s) \/ Store(s) PROVE Winner'
  <2>1. Become(s, doing'[s]) /\ ~ At(s, "register") /\ route
    BY <1>1, <1>6 DEF ReadEnd, Store, Become, DoingIsAFunction, Winner, At
  <2>2. UNCHANGED <<route, actor>>
    BY <1>6 DEF ReadEnd, Store
  <2> QED  BY <1>1, <2>1, <2>2, WinnerFrame
<1> QED  BY <1>2, <1>3, <1>4, <1>5, <1>6 DEF Next, RegisterPlayer

\* Whoever was told that the player is registered finds it, or finds it after one step of
\* the request that won the race: what ConfirmedIsFound needs fairness for is that step.
THEOREM ConfirmedIsUnderWay == Spec => []ConfirmedOrUnderWay
<1>1. Inv => DoingIsAFunction
  BY DEF Inv
<1>2. Winner => ConfirmedOrUnderWay
  BY DEF Winner, ConfirmedOrUnderWay
<1> QED  BY <1>1, <1>2, InvInit, InvStep, TypesInit, TypesStep, WinnerInit, WinnerStep, PTL DEF Spec
=============================================================================
