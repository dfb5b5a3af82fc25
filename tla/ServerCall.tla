----------------------------- MODULE ServerCall -----------------------------
(***************************************************************************)
(* The table of pending server calls (Common/Net/Rpc/RpcServerCall) with   *)
(* the threads that touch it: the thread that runs CallServerFunction, the *)
(* thread that reads a connection and consumes responses, and the main     *)
(* loop that runs PumpServerCallMaintenance every frame.  Each section     *)
(* under GServerCallMutex is one action; a completion callback runs after  *)
(* the lock is released, as an action of its own.  In the multi-reactor    *)
(* services (EchoService, PlayerService) these threads really are          *)
(* different; in the Gateway they are one thread, whose interleavings are  *)
(* a subset of these.                                                      *)
(*                                                                         *)
(* The connection is kept to what a call can observe of it: the state of   *)
(* MServerConnection, whether its socket is usable, and which TCP session  *)
(* it is in.  Payloads, and the success or business error an answer        *)
(* carries, are abstracted to "answer".                                    *)
(***************************************************************************)
EXTENDS Naturals, FiniteSets

CONSTANTS
    Call,         \* the CallIds GNextServerCallId hands out, each once
    Connection,   \* connection objects, compared by address
    Function,     \* FunctionIds
    NoCall,       \* no completion in a reading thread's hands
    NoSource,     \* what is expected for a call not registered yet
    MaxSessions,  \* bound: TCP sessions made in all, over all connections
    MaxInFlight   \* bound: responses in flight when a stray one appears

ASSUME NullAssumption == NoCall \notin Call /\ NoSource \notin [conn : Connection, fn : Function]
ASSUME BoundAssumption == MaxSessions \in Nat /\ MaxInFlight \in Nat

VARIABLES
    thread,       \* thread[c]: how far CallServerFunction got with call c
    expected,     \* expected[c]: the source an answer to c must have
    pending,      \* keys of GPendingServerCalls
    overdue,      \* entries of pending whose DeadlineSeconds has passed
    expiring,     \* ExpiredCalls of the running pump: <<call, error>> pairs
    consuming,    \* consuming[k]: call whose Completion the reader of k took
    promise,      \* promise[c]: "none" or what the promise was first set to
    state,        \* state[k]: MServerConnection::State
    transport,    \* transport[k]: bConnected of the socket below
    session,      \* session[k]: number of the current TCP session of k
    requests,     \* requests on their way or with the peer, not answered yet
    responses,    \* response packets in flight
    completions,  \* history: completions[c] counts runs of c's callback
    answered,     \* history: calls the peer answered
    lost          \* history: calls whose link was down while they were open

callVars == <<thread, expected, pending, overdue, expiring, consuming, promise>>
linkVars == <<state, transport, session>>
wireVars == <<requests, responses>>
history  == <<completions, answered, lost>>
vars     == <<callVars, linkVars, wireVars, history>>

Source   == [conn : Connection, fn : Function]
Packet   == [call : Call, conn : Connection, fn : Function]
Expiry   == {"disconnected", "timeout"}
Failure  == Expiry \cup {"send_failed"}
Progress == {"idle", "registered", "failing", "cancelled", "returned"}

PacketOf(c) == [call |-> c, conn |-> expected[c].conn, fn |-> expected[c].fn]

\* IsTransportConnected: true from the TCP connect on, before authentication.
IsTransportConnected(k) == state[k] \in {"Connected", "Authenticated"} /\ transport[k]

\* Mutation: the probe takes a connection for lost until it is authenticated.
LivenessProbeIsConnected(c) == state[expected[c].conn] = "Authenticated"

\* What BuildServerCallLivenessProbe returns for the connection of call c.
LivenessProbe(c) == IsTransportConnected(expected[c].conn)

\* Mutation: only the function is compared.
SourceMatchesFunctionOnly(c, r) == r.fn = expected[c].fn

\* The two comparisons of ConsumeServerCall; the source is the connection object.
SourceMatches(c, r) == r.fn = expected[c].fn /\ r.conn = expected[c].conn

\* Mutation: the last value wins.
SetValueOverwrites(c, v) == promise' = [promise EXCEPT ![c] = v]

\* MPromise::SetValue: a promise that is ready ignores a second value.
SetValue(c, v) == promise' = IF promise[c] = "none" THEN [promise EXCEPT ![c] = v] ELSE promise

\* Calling the completion lambda of CallServerFunction sets the promise.
Complete(c, v) ==
    /\ SetValue(c, v)
    /\ completions' = [completions EXCEPT ![c] = @ + 1]

\* GPendingServerCalls.erase: the entry goes, its deadline with it.
Erase(S) == pending' = pending \ S /\ overdue' = overdue \ S

On(k, packets) == {p \in packets : p.conn = k}

\* The calls made on k whose future is still open.
CallsOn(k) == {c \in Call : thread[c] # "idle" /\ promise[c] = "none" /\ expected[c].conn = k}

\* The socket of k stops being usable: the responses under way on it are gone;
\* a request may still be with the peer, which cannot answer it any more.
LoseLink(k) ==
    /\ transport' = [transport EXCEPT ![k] = FALSE]
    /\ responses' = responses \ On(k, responses)
    /\ lost' = lost \cup CallsOn(k)

-----------------------------------------------------------------------------
Init ==
    /\ thread = [c \in Call |-> "idle"]
    /\ expected = [c \in Call |-> NoSource]
    /\ pending = {}
    /\ overdue = {}
    /\ expiring = {}
    /\ consuming = [k \in Connection |-> NoCall]
    /\ promise = [c \in Call |-> "none"]
    /\ state = [k \in Connection |-> "Disconnected"]
    /\ transport = [k \in Connection |-> FALSE]
    /\ session = [k \in Connection |-> 0]
    /\ requests = {}
    /\ responses = {}
    /\ completions = [c \in Call |-> 0]
    /\ answered = {}
    /\ lost = {}

-----------------------------------------------------------------------------
(* The calling thread: CallServerFunction. *)

\* Mutation: the entry is inserted before its source is filled in.
RegisterWithoutSource(c, source) ==
    /\ thread[c] = "idle"
    /\ thread' = [thread EXCEPT ![c] = "registered"]
    /\ pending' = pending \cup {c}
    /\ lost' = IF IsTransportConnected(source.conn) THEN lost ELSE lost \cup {c}
    /\ UNCHANGED <<expected, overdue, expiring, consuming, promise, linkVars,
                   wireVars, completions, answered>>

RegisterServerCall(c, source) ==
    /\ thread[c] = "idle"
    /\ thread' = [thread EXCEPT ![c] = "registered"]
    /\ expected' = [expected EXCEPT ![c] = source]
    /\ pending' = pending \cup {c}
    /\ lost' = IF IsTransportConnected(source.conn) THEN lost ELSE lost \cup {c}
    /\ UNCHANGED <<overdue, expiring, consuming, promise, linkVars,
                   wireVars, completions, answered>>

SendRequest(c) ==
    /\ thread[c] = "registered"
    /\ IsTransportConnected(expected[c].conn)
    /\ thread' = [thread EXCEPT ![c] = "returned"]
    /\ requests' = requests \cup {[packet |-> PacketOf(c), session |-> session[expected[c].conn]]}
    /\ UNCHANGED <<expected, pending, overdue, expiring, consuming, promise,
                   linkVars, responses, history>>

\* Refused because the link is down or the packet is too large, or the send
\* itself breaks the socket (send buffer overflow, an error while flushing).
SendFails(c) ==
    /\ thread[c] = "registered"
    /\ thread' = [thread EXCEPT ![c] = "failing"]
    /\ \/ IsTransportConnected(expected[c].conn) /\ LoseLink(expected[c].conn)
       \/ UNCHANGED <<transport, responses, lost>>
    /\ UNCHANGED <<expected, pending, overdue, expiring, consuming, promise,
                   state, session, requests, completions, answered>>

\* Mutation: the failing caller does not cancel.
CancelForgotten(c) ==
    /\ thread[c] = "failing"
    /\ thread' = [thread EXCEPT ![c] = "cancelled"]
    /\ UNCHANGED <<expected, pending, overdue, expiring, consuming, promise,
                   linkVars, wireVars, history>>

CancelServerCall(c) ==
    /\ thread[c] = "failing"
    /\ thread' = [thread EXCEPT ![c] = "cancelled"]
    /\ Erase({c})
    /\ UNCHANGED <<expected, expiring, consuming, promise, linkVars,
                   wireVars, history>>

FailPromise(c) ==
    /\ thread[c] = "cancelled"
    /\ thread' = [thread EXCEPT ![c] = "returned"]
    /\ SetValue(c, "send_failed")
    /\ UNCHANGED <<expected, pending, overdue, expiring, consuming, linkVars,
                   wireVars, history>>

-----------------------------------------------------------------------------
(* The main loop: PumpServerCallMaintenance, and the clock it reads. *)

DeadlinePasses(c) ==
    /\ c \in pending \ overdue
    /\ overdue' = overdue \cup {c}
    /\ UNCHANGED <<thread, expected, pending, expiring, consuming, promise,
                   linkVars, wireVars, history>>

\* The error the pump gives an entry it removes: the probe is asked first.
ExpiryOf(c) == IF ~ LivenessProbe(c) THEN "disconnected" ELSE "timeout"

\* Mutation: the pump looks for broken links only.
ExpiredWithoutDeadline == {c \in pending : ~ LivenessProbe(c)}

Expired == {c \in pending : ~ LivenessProbe(c) \/ c \in overdue}

\* The scan of the whole table, under the lock.
PumpCollect ==
    /\ expiring = {}
    /\ Expired # {}
    /\ expiring' = {<<c, ExpiryOf(c)>> : c \in Expired}
    /\ Erase(Expired)
    /\ UNCHANGED <<thread, expected, consuming, promise, linkVars,
                   wireVars, history>>

\* One callback of the collected list, after the lock is released.
PumpInvoke(c, e) ==
    /\ <<c, e>> \in expiring
    /\ expiring' = expiring \ {<<c, e>>}
    /\ Complete(c, e)
    /\ UNCHANGED <<thread, expected, pending, overdue, consuming, linkVars,
                   wireVars, answered, lost>>

-----------------------------------------------------------------------------
(* The thread that reads connection k: HandleServerCallResponse. *)

\* Mutation: the entry is copied, not taken out.
ConsumeWithoutErase(r) ==
    /\ consuming[r.conn] = NoCall
    /\ IsTransportConnected(r.conn)
    /\ r.call \in pending
    /\ SourceMatches(r.call, r)
    /\ consuming' = [consuming EXCEPT ![r.conn] = r.call]
    /\ responses' = responses \ {r}
    /\ UNCHANGED <<thread, expected, pending, overdue, expiring, promise,
                   linkVars, requests, history>>

\* ConsumeServerCall finds and erases the entry under the lock.
ConsumeServerCall(r) ==
    /\ consuming[r.conn] = NoCall
    /\ IsTransportConnected(r.conn)
    /\ r.call \in pending
    /\ SourceMatches(r.call, r)
    /\ consuming' = [consuming EXCEPT ![r.conn] = r.call]
    /\ Erase({r.call})
    /\ responses' = responses \ {r}
    /\ UNCHANGED <<thread, expected, expiring, promise, linkVars,
                   requests, history>>

\* An unknown CallId or another source: the packet is dropped, the entry stays.
RejectResponse(r) ==
    /\ consuming[r.conn] = NoCall
    /\ IsTransportConnected(r.conn)
    /\ r.call \notin pending \/ ~ SourceMatches(r.call, r)
    /\ responses' = responses \ {r}
    /\ UNCHANGED <<callVars, linkVars, requests, history>>

ReaderInvoke(k) ==
    /\ consuming[k] # NoCall
    /\ Complete(consuming[k], "answer")
    /\ consuming' = [consuming EXCEPT ![k] = NoCall]
    /\ UNCHANGED <<thread, expected, pending, overdue, expiring, linkVars,
                   wireVars, answered, lost>>

-----------------------------------------------------------------------------
(* The peer. *)

\* DispatchServerCall answers at once or when its handler's future is ready.
\* CanSendServerCallResponse is false once the session of the request is over.
DispatchServerCall(q) ==
    LET p == q.packet
        live == q.session = session[p.conn] /\ transport[p.conn]
    IN  /\ requests' = requests \ {q}
        /\ responses' = IF live THEN responses \cup {p} ELSE responses
        /\ answered' = answered \cup {p.call}
        /\ UNCHANGED <<callVars, linkVars, completions, lost>>

\* A response that carries a CallId of ours but not its source.
StrayResponse(r) ==
    /\ r.call \in pending
    /\ ~ (r.fn = expected[r.call].fn /\ r.conn = expected[r.call].conn)
    /\ IsTransportConnected(r.conn)
    /\ Cardinality(responses) < MaxInFlight
    /\ responses' = responses \cup {r}
    /\ UNCHANGED <<callVars, linkVars, requests, history>>

-----------------------------------------------------------------------------
(* The connection: MServerConnection as seen from a call. *)

\* TryConnect reaches TCP connect; the handshake is itself a server call.
TryConnect(k) ==
    /\ state[k] = "Disconnected"
    /\ \E n \in 1 .. MaxSessions :
         /\ \A j \in Connection : session[j] < n
         /\ n = 1 \/ \E j \in Connection : session[j] = n - 1
         /\ session' = [session EXCEPT ![k] = n]
    /\ state' = [state EXCEPT ![k] = "Connected"]
    /\ transport' = [transport EXCEPT ![k] = TRUE]
    /\ UNCHANGED <<callVars, wireVars, history>>

Authenticate(k) ==
    /\ state[k] = "Connected"
    /\ transport[k]
    /\ state' = [state EXCEPT ![k] = "Authenticated"]
    /\ UNCHANGED <<callVars, transport, session, wireVars, history>>

\* The peer closes or crashes, or the network cuts the session.
LinkDown(k) ==
    /\ transport[k]
    /\ LoseLink(k)
    /\ UNCHANGED <<callVars, state, session, requests, completions, answered>>

\* Tick notices the dead socket, or a failed handshake gives the session up.
Disconnect(k) ==
    /\ state[k] = "Connected" \/ (state[k] = "Authenticated" /\ ~ transport[k])
    /\ consuming[k] = NoCall
    /\ state' = [state EXCEPT ![k] = "Disconnected"]
    /\ LoseLink(k)
    /\ UNCHANGED <<callVars, session, requests, completions, answered>>

-----------------------------------------------------------------------------
Caller(c) ==
    \/ \E source \in Source : RegisterServerCall(c, source)
    \/ SendRequest(c) \/ SendFails(c) \/ CancelServerCall(c)
    \/ FailPromise(c)

Next ==
    \/ \E c \in Call : Caller(c) \/ DeadlinePasses(c)
    \/ PumpCollect
    \/ \E c \in Call, e \in Expiry : PumpInvoke(c, e)
    \/ \E r \in responses : ConsumeServerCall(r) \/ RejectResponse(r)
    \/ \E k \in Connection : ReaderInvoke(k)
    \/ \E q \in requests : DispatchServerCall(q)
    \/ \E r \in Packet : StrayResponse(r)
    \/ \E k \in Connection : TryConnect(k) \/ Authenticate(k) \/ LinkDown(k) \/ Disconnect(k)

\* The calling thread finishes what it began, the clock advances, the main
\* loop runs every frame and a reader runs the callback it took.  The peer
\* and the network owe nothing.
Fairness ==
    /\ \A c \in Call :
         /\ WF_vars(SendRequest(c) \/ SendFails(c))
         /\ WF_vars(CancelServerCall(c))
         /\ WF_vars(FailPromise(c))
         /\ WF_vars(DeadlinePasses(c))
    /\ WF_vars(PumpCollect)
    /\ \A c \in Call, e \in Expiry : WF_vars(PumpInvoke(c, e))
    /\ \A k \in Connection : WF_vars(ReaderInvoke(k))

Safety == Init /\ [][Next]_vars

Spec == Safety /\ Fairness

-----------------------------------------------------------------------------
\* Types; every entry of the table has the function and the connection that its
\* answer is compared with.
TypeOK ==
    /\ thread \in [Call -> Progress]
    /\ expected \in [Call -> Source \cup {NoSource}]
    /\ pending \subseteq {c \in Call : expected[c] \in Source}
    /\ overdue \subseteq pending
    /\ expiring \subseteq Call \X Expiry
    /\ consuming \in [Connection -> Call \cup {NoCall}]
    /\ promise \in [Call -> Failure \cup {"none", "answer"}]
    /\ state \in [Connection -> {"Disconnected", "Connected", "Authenticated"}]
    /\ transport \in [Connection -> BOOLEAN]
    /\ session \in [Connection -> Nat]
    /\ requests \subseteq [packet : Packet, session : Nat]
    /\ responses \subseteq Packet
    /\ completions \in [Call -> Nat]
    /\ answered \subseteq Call
    /\ lost \subseteq Call

\* A completion callback runs at most once, whatever the reading threads, the
\* pump and the cancelling caller race for (RpcServerCall.h: the callback of
\* one CallId fires at most once, because taking the entry out deletes it).
OneCompletion == \A c \in Call : completions[c] <= 1

\* An entry leaves the table before, or together with, its promise being
\* settled: no call is settled and still waits for the pump or a response,
\* and a call given up on after a failed send is not in the table.
NoLeakedEntry ==
    \A c \in Call :
        promise[c] # "none" \/ thread[c] = "cancelled" => c \notin pending

\* A call is settled with an answer only if the peer answered that very call:
\* a response of another function or from another connection settles nothing.
AnswerIsGenuine == \A c \in Call : promise[c] = "answer" => c \in answered

\* "server_call_disconnected" is reported only if the link of the call really
\* was down when it was registered or went down since; in particular a call
\* made during the handshake is not mistaken for one on a lost connection.
DisconnectedMeansLost == \A c \in Call : promise[c] = "disconnected" => c \in lost

\* What the future of a call yielded never changes, although a failed send, the
\* pump and a late response may all try to set the same promise.
SettledOnce ==
    [][\A c \in Call : promise[c] # "none" => promise'[c] = promise[c]]_vars

\* The contract a caller sees: the module implements CallContract, which adds
\* that every call made is settled (by the send, an answer or the pump).
Contract == INSTANCE CallContract WITH
    made <- {c \in Call : thread[c] # "idle"},
    result <- promise

ImplementsContract == Contract!Spec
=============================================================================
