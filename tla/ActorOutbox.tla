----------------------------- MODULE ActorOutbox -----------------------------
(***************************************************************************)
(* Remote actor posts: MActorSystem::SendActor (Common/Runtime/Actor) with *)
(* its per-actor outbox, the route table of MActorRouter it consults, and  *)
(* the resending done by MEndpointCache::OnEndpointChange.                 *)
(*                                                                         *)
(* Entries of different actors share nothing but the mutex, so the module  *)
(* follows one actor id.  Posts come from any thread; endpoint pushes and  *)
(* acknowledgements are handled by the main thread.  Each critical section *)
(* of ActorsMutex or RoutesMutex is one step.                              *)
(***************************************************************************)
EXTENDS Naturals, SequencesExt

CONSTANTS
    Thread,            \* threads that post
    Target,            \* remote server types
    Local,             \* the local route (EServerType::Unknown)
    MaxOutbox,         \* kMaxOutboxPerActor
    MaxPosts,          \* bound: posts
    MaxRegistrations   \* bound: times the actor is registered

ASSUME LocalAssumption == Local \notin Target
ASSUME BoundAssumption ==
    MaxOutbox \in Nat \ {0} /\ MaxPosts \in Nat /\ MaxRegistrations \in Nat \ {0}

VARIABLES
    registered,     \* the actor has an entry in LocalActors
    nextSequenceId, \* NextSequenceId of that entry
    outbox,         \* Outbox of that entry, oldest first
    routes,         \* ActorRoutes of the actor, in insertion order
    connected,      \* targets whose pooled connection is authenticated
    sending,        \* SendActor in progress, by thread
    main,           \* the endpoint push the main thread is handling
    registrations,  \* history: registrations so far
    posts           \* history: one record per numbered post

vars == <<registered, nextSequenceId, outbox, routes, connected, sending, main,
          registrations, posts>>

Post == 1 .. MaxPosts
Route == Target \cup {Local}
Entry == [target : Target, sequence : 1 .. MaxPosts, post : Post]
Idle == [step |-> "idle"]

Init ==
    /\ registered = TRUE /\ registrations = 1
    /\ nextSequenceId = 0
    /\ outbox = << >>
    /\ routes \in {<< >>, <<Local>>}
    /\ connected = {}
    /\ sending = [t \in Thread |-> Idle]
    /\ main = Idle
    /\ posts = << >>

-----------------------------------------------------------------------------
(* The outbox operations, and the channel they use. *)

\* The elements of s at the positions of I, in their order: what a loop that
\* copies some elements and passes over the others leaves.
Kept(s, I) ==
    LET kept[n \in 0 .. Len(s)] ==
          IF n = 0 THEN << >>
          ELSE IF n \in I THEN Append(kept[n - 1], s[n]) ELSE kept[n - 1]
    IN kept[Len(s)]

\* Mutation: the limit is not looked at.
EnqueueUnbounded(e) ==
    outbox' = IF registered THEN Append(outbox, e) ELSE outbox

\* A full outbox drops its oldest entry; without the actor nothing is kept.
EnqueueActorOutbox(e) ==
    outbox' = IF ~ registered THEN outbox
              ELSE IF Len(outbox) >= MaxOutbox THEN Append(Tail(outbox), e)
              ELSE Append(outbox, e)

\* Mutation: acknowledge every route, up to the sequence number (AckOutbox).
AckUpTo(s, T) ==
    outbox' = SelectSeq(outbox, LAMBDA e : e.sequence > s)

\* Mutation: the kept entries come back in the order they were put aside last.
AckReverses(s, T) ==
    outbox' = Reverse(SelectSeq(outbox, LAMBDA e : ~ (e.sequence = s /\ e.target = T)))

AckOutboxByRoute(s, T) ==
    outbox' = Kept(outbox, {i \in DOMAIN outbox : ~ (outbox[i].sequence = s /\ outbox[i].target = T)})

\* MRpcChannel::SendActor looks the actor up again and uses its FIRST route.
Channel == IF routes # << >> THEN Head(routes) ELSE Local

\* The copy of post p for route T is written; it goes where the channel leads.
ChannelAccepts(p, T) ==
    /\ Channel \in connected
    /\ posts' = [posts EXCEPT ![p].writes[T] = @ + 1, ![p].reached = @ \cup {<<T, Channel>>}]

\* No connection, or the send buffer refuses the packet.
ChannelRefuses == UNCHANGED posts

-----------------------------------------------------------------------------
(* SendActor(id, msg) on thread t. *)

\* AllocateSequenceId; without a local entry SendActor returns false here.
Allocate(t) ==
    /\ sending[t] = Idle
    /\ Len(posts) < MaxPosts
    /\ registered
    /\ nextSequenceId' = nextSequenceId + 1
    /\ posts' = Append(posts, [thread |-> t, sequence |-> nextSequenceId',
                               registration |-> registrations,
                               writes |-> [T \in Target |-> 0], reached |-> {}])
    /\ sending' = [sending EXCEPT ![t] = [step |-> "find", post |-> Len(posts')]]
    /\ UNCHANGED <<registered, outbox, routes, connected, main, registrations>>

\* The next remote route, or the end of the loop.
Continue(t, todo) ==
    sending' = [sending EXCEPT ![t] =
        IF todo = << >> THEN Idle
        ELSE [step |-> "route", post |-> sending[t].post, todo |-> todo]]

At(t, step) == sending[t].step = step
GoTo(t, step) == sending' = [sending EXCEPT ![t].step = step]

\* FindAllActorRoutes; local routes are skipped.
FindRoutes(t) ==
    /\ At(t, "find")
    /\ Continue(t, Kept(routes, {i \in DOMAIN routes : routes[i] # Local}))
    /\ UNCHANGED <<registered, nextSequenceId, outbox, routes, connected, main,
                   registrations, posts>>

\* GetOrConnect(Route.ServerType) and IsConnected.
CheckRoute(t) ==
    /\ At(t, "route")
    /\ GoTo(t, IF Head(sending[t].todo) \in connected THEN "send" ELSE "enqueue")
    /\ UNCHANGED <<registered, nextSequenceId, outbox, routes, connected, main,
                   registrations, posts>>

SendRoute(t) ==
    /\ At(t, "send")
    /\ \/ /\ ChannelAccepts(sending[t].post, Head(sending[t].todo))
          /\ Continue(t, Tail(sending[t].todo))
       \/ ChannelRefuses /\ GoTo(t, "enqueue")
    /\ UNCHANGED <<registered, nextSequenceId, outbox, routes, connected, main,
                   registrations>>

EnqueueRoute(t) ==
    /\ At(t, "enqueue")
    /\ EnqueueActorOutbox([target   |-> Head(sending[t].todo),
                           sequence |-> posts[sending[t].post].sequence,
                           post     |-> sending[t].post])
    /\ Continue(t, Tail(sending[t].todo))
    /\ UNCHANGED <<registered, nextSequenceId, routes, connected, main,
                   registrations, posts>>

-----------------------------------------------------------------------------
(* The main thread: endpoint pushes and acknowledgements. *)

\* OnEndpointChange: an endpoint of type T lists the actor.  Only an actor
\* without any route gets one.
EndpointLists(T) ==
    /\ main = Idle
    /\ routes' = IF routes = << >> THEN <<T>> ELSE routes
    /\ main' = [step |-> "drain", target |-> T]
    /\ UNCHANGED <<registered, nextSequenceId, outbox, connected, sending,
                   registrations, posts>>

Matching(T) == Kept(outbox, {i \in DOMAIN outbox : outbox[i].target = T})

\* Mutation: the entries are read but not taken.
DrainKeeps ==
    /\ main.step = "drain"
    /\ main' = IF Matching(main.target) = << >> THEN Idle
               ELSE [step |-> "resend", entries |-> Matching(main.target)]
    /\ UNCHANGED <<registered, nextSequenceId, outbox, routes, connected,
                   sending, registrations, posts>>

\* DrainActorOutbox, under the lock: take the entries for the target.
Drain ==
    /\ main.step = "drain"
    /\ main' = IF Matching(main.target) = << >> THEN Idle
               ELSE [step |-> "resend", entries |-> Matching(main.target)]
    /\ outbox' = Kept(outbox, {i \in DOMAIN outbox : outbox[i].target # main.target})
    /\ UNCHANGED <<registered, nextSequenceId, routes, connected, sending,
                   registrations, posts>>

\* DrainActorOutbox, after the lock: the result of the send is not looked at.
Resend ==
    /\ main.step = "resend"
    /\ \/ ChannelAccepts(Head(main.entries).post, Head(main.entries).target)
       \/ ChannelRefuses
    /\ main' = IF Len(main.entries) = 1 THEN Idle ELSE [main EXCEPT !.entries = Tail(@)]
    /\ UNCHANGED <<registered, nextSequenceId, outbox, routes, connected,
                   sending, registrations>>

\* MT_ServerPush with status Delivered, from a peer the post was written to.
Acknowledge(p, T) ==
    /\ main = Idle
    /\ \E R \in Target : <<R, T>> \in posts[p].reached
    /\ AckOutboxByRoute(posts[p].sequence, T)
    /\ UNCHANGED <<registered, nextSequenceId, routes, connected, sending, main,
                   registrations, posts>>

-----------------------------------------------------------------------------
(* Registration, routes and connections change at any time. *)

\* Register replaces an entry that exists: its outbox and numbering are gone.
Register ==
    /\ registrations < MaxRegistrations
    /\ registrations' = registrations + 1
    /\ registered' = TRUE
    /\ nextSequenceId' = 0
    /\ outbox' = << >>
    /\ UNCHANGED <<routes, connected, sending, main, posts>>

Unregister ==
    /\ registered
    /\ registered' = FALSE
    /\ nextSequenceId' = 0
    /\ outbox' = << >>
    /\ UNCHANGED <<routes, connected, sending, main, registrations, posts>>

\* MActorRouter::RegisterActor: a route the actor has is not added again.
RegisterActor(r) ==
    /\ ~ Contains(routes, r)
    /\ routes' = Append(routes, r)
    /\ UNCHANGED <<registered, nextSequenceId, outbox, connected, sending, main,
                   registrations, posts>>

\* The connection completes its handshake, or breaks (module ServerConnection).
LinkChanges(T) ==
    /\ connected' = IF T \in connected THEN connected \ {T} ELSE connected \cup {T}
    /\ UNCHANGED <<registered, nextSequenceId, outbox, routes, sending, main,
                   registrations, posts>>

-----------------------------------------------------------------------------
SendActor(t) ==
    Allocate(t) \/ FindRoutes(t) \/ CheckRoute(t) \/ SendRoute(t) \/ EnqueueRoute(t)

Next ==
    \/ \E t \in Thread : SendActor(t)
    \/ \E T \in Target : EndpointLists(T) \/ LinkChanges(T)
    \/ Drain \/ Resend
    \/ \E p \in DOMAIN posts, T \in Target : Acknowledge(p, T)
    \/ Register \/ Unregister
    \/ \E r \in Route : RegisterActor(r)

Spec == Init /\ [][Next]_vars

-----------------------------------------------------------------------------
TypeOK ==
    /\ registered \in BOOLEAN
    /\ registrations \in 1 .. MaxRegistrations
    /\ nextSequenceId \in 0 .. MaxPosts
    /\ outbox \in Seq(Entry) /\ Len(outbox) <= MaxOutbox
    /\ routes \in Seq(Route) /\ IsInjective(routes)
    /\ connected \subseteq Target
    /\ \A t \in Thread : sending[t].step \in {"idle", "find", "route", "send", "enqueue"}
    /\ main.step \in {"idle", "drain", "resend"}
    /\ Len(posts) <= MaxPosts

\* Posts of one thread to one target wait in the order they were made, and none
\* waits twice: the outbox is resent in that order.
OrderKept ==
    \A i, j \in DOMAIN outbox :
        /\ i < j
        /\ outbox[i].target = outbox[j].target
        /\ posts[outbox[i].post].thread = posts[outbox[j].post].thread
        => outbox[i].post < outbox[j].post

\* However sends, refusals and drains interleave, the copy of a post for one route
\* is written to the wire at most once: it is in the loop, in the outbox or in the
\* resend, and is not left there when it is written.  It does not say to which peer
\* the channel takes the copy: that is always the one of the first route (Channel).
NoDuplicates == \A p \in DOMAIN posts, T \in Target : posts[p].writes[T] <= 1

Entries == {outbox[i] : i \in DOMAIN outbox}

\* An acknowledgement removes nothing but the acknowledged post, for the peer
\* that acknowledged it: a post another route still waits for is kept.  Numbers
\* start again when the actor is registered again, so the promise holds between
\* posts numbered by the same registration.
AckIsExact ==
    [][\A p \in DOMAIN posts, T \in Target : Acknowledge(p, T) =>
         \A e \in Entries \ {outbox'[i] : i \in DOMAIN outbox'} :
            \/ e.post = p /\ e.target = T
            \/ posts[e.post].registration # posts[p].registration]_vars

\* A post whose resend fails stays in the outbox for the next attempt
\* (DrainActorOutbox: failed messages stay in the outbox, to be retried).
FailedResendIsKept ==
    [][Resend /\ ChannelRefuses =>
         Head(main.entries) \in {outbox'[i] : i \in DOMAIN outbox'}]_vars
=============================================================================
