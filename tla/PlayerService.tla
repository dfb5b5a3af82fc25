---------------------------- MODULE PlayerService ----------------------------
(***************************************************************************)
(* Player registration and member calls of MPlayerService (Servers/Player) *)
(* on the actor runtime: MActorSystem::Find and Register, the local route  *)
(* of MActorRouter, DispatchFrameworkMemberCall and the item container.    *)
(*                                                                         *)
(* Requests arrive on connections, and a connection belongs to one Sub     *)
(* reactor: requests of different connections run on different threads.    *)
(* The module follows one player id and one item.  Each critical section   *)
(* of ActorsMutex or RoutesMutex is one step; what runs without a lock is  *)
(* cut between its reads and its writes.                                   *)
(***************************************************************************)
EXTENDS Integers, Sequences

CONSTANTS
    Sub,         \* Sub reactor threads
    Stock,       \* items an item container starts with
    MaxInt,      \* the largest int32 (the runs use a small one)
    MaxObjects,  \* bound: player objects that are created
    MaxUses      \* bound: UseItem requests

ASSUME StockAssumption == Stock \in Nat \ {0} /\ MaxInt \in Nat /\ Stock <= MaxInt
ASSUME BoundAssumption == MaxObjects \in Nat \ {0} /\ MaxUses \in Nat

VARIABLES
    route,    \* the router has a local route for the player
    actor,    \* the object MActorSystem holds for the player, or NoActor
    players,  \* what is stored in PlayerActors, beyond its end too
    end,      \* the end of PlayerActors: elements it has
    items,    \* Items[id] of each object's container
    doing,    \* the request each Sub is handling
    created,  \* objects created so far
    uses,     \* UseItem requests so far
    confirmed,\* history: a RegisterPlayer was answered with success
    used      \* history: items each object's requests took, an int32 too

vars == <<route, actor, players, end, items, doing, created, uses, confirmed, used>>

NoActor == 0
Object == 1 .. MaxObjects
Idle == [step |-> "idle"]

MinInt == - MaxInt - 1
Int32 == MinInt .. MaxInt

\* What the build stores for a sum or a difference of two int32 numbers.
Wrap(n) ==
    IF n > MaxInt THEN n - (2 * MaxInt + 2)
    ELSE IF n < MinInt THEN n + (2 * MaxInt + 2)
    ELSE n

Smaller(a, b) == IF a < b THEN a ELSE b

Init ==
    /\ route = FALSE
    /\ actor = NoActor
    /\ players = << >> /\ end = 0
    /\ items = [o \in Object |-> Stock]
    /\ doing = [s \in Sub |-> Idle]
    /\ created = 0 /\ uses = 0
    /\ confirmed = FALSE
    /\ used = [o \in Object |-> 0]

At(s, step) == doing[s].step = step
Become(s, d) == doing' = [doing EXCEPT ![s] = d]

-----------------------------------------------------------------------------
(* RegisterPlayer. *)

\* The player is not online yet: create the object and its container.  A player
\* that is found is answered player_already_online.
FindPlayer(s) ==
    /\ At(s, "idle")
    /\ actor = NoActor
    /\ created < MaxObjects
    /\ created' = created + 1
    /\ Become(s, [step |-> "route", object |-> created'])
    /\ UNCHANGED <<route, actor, players, end, items, uses, confirmed, used>>

\* Mutation: the route that exists is not noticed.
AddRouteAgain(s) ==
    /\ At(s, "route")
    /\ route' = TRUE
    /\ Become(s, [step |-> "register", object |-> doing[s].object])
    /\ UNCHANGED <<actor, players, end, items, created, uses, confirmed, used>>

\* Mutation: the object is not handed to MActorSystem.
AddRouteOnly(s) ==
    /\ At(s, "route")
    /\ route' = TRUE
    /\ Become(s, [step |-> "hold", object |-> doing[s].object])
    /\ UNCHANGED <<actor, players, end, items, created, uses, confirmed, used>>

\* MActorRouter::RegisterActor, under RoutesMutex: if the route exists it
\* returns, and MActorSystem never sees the object.
AddRoute(s) ==
    /\ At(s, "route")
    /\ route' = TRUE
    /\ Become(s, [step |-> IF route THEN "hold" ELSE "register", object |-> doing[s].object])
    /\ UNCHANGED <<actor, players, end, items, created, uses, confirmed, used>>

\* MActorSystem::Register, under ActorsMutex: an object that is there is replaced.
Register(s) ==
    /\ At(s, "register")
    /\ actor' = doing[s].object
    /\ Become(s, [step |-> "hold", object |-> doing[s].object])
    /\ UNCHANGED <<route, players, end, items, created, uses, confirmed, used>>

\* PlayerActors.push_back reads the end of the vector ...
ReadEnd(s) ==
    /\ At(s, "hold")
    /\ Become(s, [step |-> "store", object |-> doing[s].object, size |-> end])
    /\ UNCHANGED <<route, actor, players, end, items, created, uses, confirmed, used>>

\* ... and writes there, over what another thread may have stored; then the
\* request is answered with success.
Store(s) ==
    /\ At(s, "store")
    /\ end' = doing[s].size + 1
    /\ players' = IF end' <= Len(players) THEN [players EXCEPT ![end'] = doing[s].object]
                  ELSE Append(players, doing[s].object)
    /\ confirmed' = TRUE
    /\ Become(s, Idle)
    /\ UNCHANGED <<route, actor, items, created, uses, used>>

-----------------------------------------------------------------------------
(* FrameworkMemberDispatch of UseItem. *)

\* MActorSystem::Find and FindMember; without the player: member_host_not_found.
\* The requested count n is any int32: nothing on the way looks at it.
FindMember(s, n) ==
    /\ At(s, "idle")
    /\ actor # NoActor
    /\ uses < MaxUses
    /\ uses' = uses + 1
    /\ Become(s, [step |-> "look", object |-> actor, count |-> n])
    /\ UNCHANGED <<route, actor, players, end, items, created, confirmed, used>>

\* UseItem: look at the count; an empty slot is answered with bOk = false.
Look(s) ==
    LET seen == items[doing[s].object] IN
    /\ At(s, "look")
    /\ Become(s, IF seen <= 0 THEN Idle
                 ELSE [step |-> "take", object |-> doing[s].object,
                       seen |-> seen, count |-> doing[s].count])
    /\ UNCHANGED <<route, actor, players, end, items, created, uses, confirmed, used>>

\* Mutation: what is asked for is taken, whatever is there.
TakeAsked(s) ==
    /\ At(s, "take")
    /\ \E seen \in {doing[s].seen, items[doing[s].object]} :
          Become(s, [step |-> "subtract", object |-> doing[s].object,
                     seen |-> seen, count |-> doing[s].count])
    /\ UNCHANGED <<route, actor, players, end, items, created, uses, confirmed, used>>

\* Used = std::min(InRequest.Count, It->second): a build may use the value that was
\* looked at, or read it again.
Take(s) ==
    /\ At(s, "take")
    /\ \E seen \in {doing[s].seen, items[doing[s].object]} :
          Become(s, [step |-> "subtract", object |-> doing[s].object,
                     seen |-> seen, count |-> Smaller(doing[s].count, seen)])
    /\ UNCHANGED <<route, actor, players, end, items, created, uses, confirmed, used>>

\* It->second -= Used: a build may use the value it compared, or read it again.
Subtract(s) ==
    /\ At(s, "subtract")
    /\ \E base \in {doing[s].seen, items[doing[s].object]} :
          items' = [items EXCEPT ![doing[s].object] = Wrap(base - doing[s].count)]
    /\ used' = [used EXCEPT ![doing[s].object] = Wrap(@ + doing[s].count)]
    /\ Become(s, Idle)
    /\ UNCHANGED <<route, actor, players, end, created, uses, confirmed>>

-----------------------------------------------------------------------------
RegisterPlayer(s) == FindPlayer(s) \/ AddRoute(s) \/ Register(s) \/ ReadEnd(s) \/ Store(s)
UseItem(s) == (\E n \in Int32 : FindMember(s, n)) \/ Look(s) \/ Take(s) \/ Subtract(s)

Next == \E s \in Sub : RegisterPlayer(s) \/ UseItem(s)

\* A Sub reactor carries on with the request it has begun.
Spec ==
    /\ Init /\ [][Next]_vars
    /\ \A s \in Sub : WF_vars(doing[s] # Idle /\ (RegisterPlayer(s) \/ UseItem(s)))

-----------------------------------------------------------------------------
\* The types: the ends of PlayerActors lie within what is stored, counts are int32
\* numbers, and a request never takes more than it saw, whatever count it asked for.
TypeOK ==
    /\ route \in BOOLEAN /\ confirmed \in BOOLEAN
    /\ actor \in Object \cup {NoActor}
    /\ players \in Seq(Object) /\ end \in 0 .. Len(players)
    /\ items \in [Object -> Int32] /\ used \in [Object -> Int32]
    /\ created \in 0 .. MaxObjects /\ uses \in 0 .. MaxUses
    /\ \A s \in Sub : doing[s].step \in
         {"idle", "route", "register", "hold", "store", "look", "take", "subtract"}
    /\ \A s \in Sub : At(s, "subtract") => doing[s].count <= doing[s].seen

\* A player that is online is never replaced by another object, whatever
\* requests register it at once: the check of RegisterPlayer and the insertion
\* are two critical sections, and only the route table decides between them.
OnlineActorStays == [][actor # NoActor => actor' = actor]_vars

\* Whoever is told that the player is registered will find it: a request that
\* lost the race is answered before the object of the winner is in the system.
ConfirmedIsFound == confirmed ~> actor # NoActor

\* What the requests took is what is gone (MPlayerActor.h: member
\* methods run on the Sub thread of the host actor, so that state shared
\* between members needs no lock).
UsedIsGone == \A o \in Object : Wrap(items[o] + used[o]) = Stock
=============================================================================
