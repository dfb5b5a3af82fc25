-------------------------- MODULE ServerCallProofs --------------------------
(***************************************************************************)
(* Proofs about ServerCall for any sets of calls, connections and          *)
(* functions.  The safety argument has three parts, each an invariant of   *)
(* its own: who holds a call's completion (Ownership), what a matching     *)
(* response on the wire stands for (Provenance), and what the link of an   *)
(* open call has been through (LinkHistory).                               *)
(***************************************************************************)
EXTENDS ServerCall, TLAPS

Expiring(c)     == \E e \in Expiry : <<c, e>> \in expiring
Held(c, k)      == consuming[k] = c

\* The completion of a call is in one place at most: the table, the list of
\* the running pump, or the hands of one reading thread.  A call whose
\* completion is somewhere has not completed; a call not made is nowhere.
OnePlace ==
    /\ \A c \in pending : ~ Expiring(c)
    /\ \A c \in pending, k \in Connection : ~ Held(c, k)
    /\ \A c \in Call, k \in Connection : Held(c, k) => ~ Expiring(c)

OneHolder ==
    /\ \A c \in Call, e1, e2 \in Expiry :
         <<c, e1>> \in expiring /\ <<c, e2>> \in expiring => e1 = e2
    /\ \A c \in Call, k1, k2 \in Connection : Held(c, k1) /\ Held(c, k2) => k1 = k2

OpenUntilRun ==
    \A c \in Call :
        c \in pending \/ Expiring(c) \/ (\E k \in Connection : Held(c, k))
          => completions[c] = 0 /\ thread[c] # "idle"

IdleIsUntouched ==
    \A c \in Call : thread[c] = "idle" => completions[c] = 0 /\ promise[c] = "none"

Ownership == OnePlace /\ OneHolder /\ OpenUntilRun /\ IdleIsUntouched /\ OneCompletion

\* Packets name calls that were made; one from the source a call expects is
\* that call's own answer, and so is what a reading thread is about to deliver.
Provenance ==
    /\ \A q \in requests : thread[q.packet.call] # "idle"
    /\ \A r \in responses :
         /\ thread[r.call] # "idle"
         /\ SourceMatches(r.call, r) => r.call \in answered
    /\ \A k \in Connection : consuming[k] # NoCall => consuming[k] \in answered
    /\ AnswerIsGenuine

\* An open call whose probe fails now has had its link down.
LinkHistory ==
    /\ \A c \in Call :
         thread[c] # "idle" /\ promise[c] = "none" /\ ~ LivenessProbe(c) => c \in lost
    /\ \A c \in Call : <<c, "disconnected">> \in expiring => c \in lost
    /\ DisconnectedMeansLost

\* The source of a call is fixed when the call is registered.
SourceFixed == \A c \in Call : thread[c] # "idle" => expected[c] \in Source

-----------------------------------------------------------------------------
USE DEF Source, Packet, Expiry, Failure, Progress

\* The initial state is of its type.
LEMMA TypeInit == Init => TypeOK
  BY NullAssumption DEF Init, TypeOK

\* Every step keeps every variable in its type; proved action by action.
LEMMA TypeStep == TypeOK /\ SourceFixed /\ [Next]_vars => TypeOK' /\ SourceFixed'
<1> SUFFICES ASSUME TypeOK, SourceFixed, [Next]_vars
             PROVE  TypeOK' /\ SourceFixed'
  OBVIOUS
<1> USE NullAssumption, BoundAssumption DEF TypeOK, SourceFixed
<1>1. ASSUME NEW c \in Call, NEW source \in Source, RegisterServerCall(c, source)
      PROVE  TypeOK' /\ SourceFixed'
  BY <1>1 DEF RegisterServerCall, IsTransportConnected, linkVars, wireVars
<1>2. ASSUME NEW c \in Call, SendRequest(c)
      PROVE  TypeOK' /\ SourceFixed'
  <2>1. [packet |-> PacketOf(c), session |-> session[expected[c].conn]]
          \in [packet : Packet, session : Nat]
    BY <1>2 DEF SendRequest, PacketOf
  <2> QED  BY <1>2, <2>1 DEF SendRequest, linkVars, history
<1>3. ASSUME NEW c \in Call, SendFails(c)
      PROVE  TypeOK' /\ SourceFixed'
  BY <1>3 DEF SendFails, LoseLink, CallsOn, On
<1>4. ASSUME NEW c \in Call, CancelServerCall(c) \/ FailPromise(c) \/ DeadlinePasses(c)
      PROVE  TypeOK' /\ SourceFixed'
  BY <1>4 DEF CancelServerCall, FailPromise, DeadlinePasses, SetValue, Erase,
              linkVars, wireVars, history
<1>5. CASE PumpCollect
  <2>1. {<<c, ExpiryOf(c)>> : c \in Expired} \subseteq Call \X Expiry
    BY DEF Expired, ExpiryOf
  <2> QED  BY <1>5, <2>1 DEF PumpCollect, Erase, linkVars, wireVars, history
<1>6. ASSUME NEW c \in Call, NEW e \in Expiry, PumpInvoke(c, e)
      PROVE  TypeOK' /\ SourceFixed'
  BY <1>6 DEF PumpInvoke, Complete, SetValue, linkVars, wireVars
<1>7. ASSUME NEW r \in responses, ConsumeServerCall(r) \/ RejectResponse(r)
      PROVE  TypeOK' /\ SourceFixed'
  BY <1>7 DEF ConsumeServerCall, RejectResponse, Erase, callVars, linkVars, history
<1>8. ASSUME NEW k \in Connection, ReaderInvoke(k)
      PROVE  TypeOK' /\ SourceFixed'
  BY <1>8 DEF ReaderInvoke, Complete, SetValue, linkVars, wireVars
<1>9. ASSUME NEW q \in requests, DispatchServerCall(q)
      PROVE  TypeOK' /\ SourceFixed'
  BY <1>9 DEF DispatchServerCall, callVars, linkVars
<1>10. ASSUME NEW r \in Packet, StrayResponse(r)
       PROVE  TypeOK' /\ SourceFixed'
  BY <1>10 DEF StrayResponse, callVars, linkVars, history
<1>11. ASSUME NEW k \in Connection, TryConnect(k) \/ Authenticate(k)
       PROVE  TypeOK' /\ SourceFixed'
  <2>1. CASE TryConnect(k)
    <3>1. PICK n \in 1 .. MaxSessions : session' = [session EXCEPT ![k] = n]
      BY <2>1 DEF TryConnect
    <3>2. n \in Nat
      BY <3>1
    <3> QED  BY <2>1, <3>1, <3>2 DEF TryConnect, callVars, wireVars, history
  <2>2. CASE Authenticate(k)
    BY <2>2 DEF Authenticate, callVars, wireVars, history
  <2> QED  BY <1>11, <2>1, <2>2
<1>12. ASSUME NEW k \in Connection, LinkDown(k) \/ Disconnect(k)
       PROVE  TypeOK' /\ SourceFixed'
  <2>1. LoseLink(k) /\ UNCHANGED <<callVars, session, requests, completions, answered>>
        /\ state' \in [Connection -> {"Disconnected", "Connected", "Authenticated"}]
    BY <1>12 DEF LinkDown, Disconnect
  <2>2. /\ transport' \in [Connection -> BOOLEAN]
        /\ responses' \subseteq Packet /\ lost' \subseteq Call
    BY <2>1 DEF LoseLink, CallsOn
  <2> QED  BY <2>1, <2>2 DEF callVars
<1>13. CASE UNCHANGED vars
  BY <1>13 DEF vars, callVars, linkVars, wireVars, history
<1> QED
  BY <1>1, <1>2, <1>3, <1>4, <1>5, <1>6, <1>7, <1>8, <1>9, <1>10, <1>11, <1>12, <1>13
     DEF Next, Caller

\* The type invariant holds of every behaviour, for all constants.
THEOREM TypeCorrect == Safety => [](TypeOK /\ SourceFixed)
<1>1. Init => TypeOK /\ SourceFixed
  BY TypeInit DEF Init, SourceFixed
<1> QED
  BY <1>1, TypeStep, PTL DEF Safety

-----------------------------------------------------------------------------
(* Ownership: who may still run the completion of a call. *)

\* Initially no call is anywhere.
LEMMA OwnershipInit == Init => Ownership
  BY NullAssumption DEF Init, Ownership, OnePlace, OneHolder, OpenUntilRun, IdleIsUntouched, Expiring, Held, OneCompletion

\* A step that leaves the table, the list, the readers' hands, the counts and
\* the promises alone, and takes no call back to idle, disturbs nothing.
LEMMA OwnershipFrame ==
  ASSUME Ownership, TypeOK,
         UNCHANGED <<expiring, consuming, completions, promise>>,
         pending' \subseteq pending,
         \A c \in Call : thread[c] # "idle" => thread'[c] # "idle",
         \A c \in Call : thread'[c] = "idle" => thread[c] = "idle"
  PROVE  Ownership'
  BY DEF Ownership, OnePlace, OneHolder, OpenUntilRun, IdleIsUntouched, Expiring, Held, OneCompletion, TypeOK

\* Every step keeps each call in one place and each completion in one hand.
LEMMA OwnershipStep == TypeOK /\ Ownership /\ [Next]_vars => Ownership'
<1> SUFFICES ASSUME TypeOK, Ownership, [Next]_vars
             PROVE  Ownership'
  OBVIOUS
<1> USE NullAssumption
<1>1. ASSUME NEW c \in Call, NEW source \in Source, RegisterServerCall(c, source)
      PROVE  Ownership'
  <2>1. /\ thread[c] = "idle" /\ thread' = [thread EXCEPT ![c] = "registered"]
        /\ pending' = pending \cup {c}
        /\ UNCHANGED <<expiring, consuming, promise, completions>>
    BY <1>1 DEF RegisterServerCall
  <2>2. completions[c] = 0 /\ ~ Expiring(c) /\ \A k \in Connection : ~ Held(c, k)
    BY <2>1 DEF Ownership, OpenUntilRun, IdleIsUntouched
  <2> QED  BY <2>1, <2>2 DEF Ownership, OnePlace, OneHolder, OpenUntilRun, IdleIsUntouched, Expiring, Held, OneCompletion, TypeOK
<1>2. ASSUME NEW c \in Call, SendRequest(c) \/ SendFails(c) \/ CancelServerCall(c)
      PROVE  Ownership'
  <2>1. /\ UNCHANGED <<expiring, consuming, completions, promise>>
        /\ pending' \subseteq pending
        /\ thread[c] # "idle"
        /\ \E s \in Progress \ {"idle"} : thread' = [thread EXCEPT ![c] = s]
    BY <1>2 DEF SendRequest, SendFails, CancelServerCall, Erase, history
  <2> QED  BY <2>1, OwnershipFrame DEF TypeOK
<1>3. ASSUME NEW c \in Call, FailPromise(c)
      PROVE  Ownership'
  <2>1. /\ thread[c] = "cancelled" /\ thread' = [thread EXCEPT ![c] = "returned"]
        /\ UNCHANGED <<pending, expiring, consuming, completions>>
        /\ \A d \in Call \ {c} : promise'[d] = promise[d]
    BY <1>3 DEF FailPromise, SetValue, history, TypeOK
  <2> QED  BY <2>1 DEF Ownership, OnePlace, OneHolder, OpenUntilRun, IdleIsUntouched, Expiring, Held, OneCompletion, TypeOK
<1>4. CASE PumpCollect
  <2>1. /\ expiring = {} /\ expiring' = {<<c, ExpiryOf(c)>> : c \in Expired}
        /\ pending' = pending \ Expired /\ Expired \subseteq pending
        /\ UNCHANGED <<thread, consuming, promise, completions>>
    BY <1>4 DEF PumpCollect, Erase, history, Expired
  <2>2. \A c \in Call, e \in Expiry : <<c, e>> \in expiring' <=> c \in Expired /\ e = ExpiryOf(c)
    BY <2>1 DEF ExpiryOf
  <2>3. \A c \in Call : Expiring(c)' <=> c \in Expired
    BY <2>2 DEF Expiring, ExpiryOf
  <2> HIDE DEF Expiry
  <2>4. \A c \in Call, k \in Connection : Held(c, k)' <=> Held(c, k)
    BY <2>1 DEF Held
  <2>5. OneCompletion'
    BY <2>1 DEF OneCompletion, Ownership
  <2>6. (\A c \in pending : ~ Expiring(c))' /\ (\A c \in pending, k \in Connection : ~ Held(c, k))'
    BY <2>1, <2>3, <2>4 DEF Ownership, OnePlace, TypeOK
  <2>7. \A c \in Call : Expiring(c)' => completions[c] = 0 /\ thread[c] # "idle"
                                     /\ \A k \in Connection : ~ Held(c, k)
    BY <2>1, <2>3 DEF Ownership, OnePlace, OpenUntilRun
  <2>8. (\A c \in Call, e1, e2 \in Expiry :
           <<c, e1>> \in expiring /\ <<c, e2>> \in expiring => e1 = e2)'
    BY <2>2
  <2> QED  BY <2>1, <2>4, <2>5, <2>6, <2>7, <2>8 DEF Ownership, OnePlace, OneHolder, OpenUntilRun, IdleIsUntouched
<1>5. ASSUME NEW c \in Call, NEW e \in Expiry, PumpInvoke(c, e)
      PROVE  Ownership'
  <2>1. /\ <<c, e>> \in expiring /\ expiring' = expiring \ {<<c, e>>}
        /\ UNCHANGED <<thread, pending, consuming>>
        /\ completions' = [completions EXCEPT ![c] = @ + 1]
        /\ \A d \in Call \ {c} : promise'[d] = promise[d]
    BY <1>5 DEF PumpInvoke, Complete, SetValue, TypeOK
  <2>2. Expiring(c) /\ completions[c] = 0 /\ thread[c] # "idle" /\ c \notin pending
    BY <2>1 DEF Ownership, OnePlace, OpenUntilRun, Expiring
  <2>3. ~ Expiring(c)' /\ \A d \in Call : Expiring(d)' => Expiring(d)
    BY <2>1 DEF Ownership, OneHolder, Expiring
  <2>4. completions'[c] = 1 /\ \A d \in Call \ {c} : completions'[d] = completions[d]
    BY <2>1, <2>2 DEF TypeOK
  <2>5. \A k \in Connection : ~ Held(c, k)
    BY <2>2 DEF Ownership, OnePlace, OneHolder
  <2>6. \A d \in Call, k \in Connection : Held(d, k)' <=> Held(d, k)
    BY <2>1 DEF Held
  <2>7. OneCompletion'
    BY <2>4 DEF OneCompletion, Ownership
  <2>8. OnePlace'
    BY <2>1, <2>3, <2>6 DEF Ownership, OnePlace, TypeOK
  <2>9. OneHolder'
    BY <2>1, <2>6 DEF Ownership, OneHolder
  <2>10. OpenUntilRun'
    BY <2>1, <2>2, <2>3, <2>4, <2>5, <2>6 DEF Ownership, OpenUntilRun
  <2>11. IdleIsUntouched'
    BY <2>1, <2>2, <2>4 DEF Ownership, IdleIsUntouched
  <2> QED  BY <2>7, <2>8, <2>9, <2>10, <2>11 DEF Ownership
<1>6. ASSUME NEW r \in responses, ConsumeServerCall(r)
      PROVE  Ownership'
  <2> DEFINE c == r.call
  <2>1. /\ c \in pending /\ consuming' = [consuming EXCEPT ![r.conn] = c]
        /\ pending' = pending \ {c} /\ c \in Call /\ r.conn \in Connection
        /\ UNCHANGED <<thread, expiring, promise, completions>>
    BY <1>6 DEF ConsumeServerCall, Erase, history, TypeOK
  <2> HIDE DEF c
  <2>2. completions[c] = 0 /\ thread[c] # "idle" /\ ~ Expiring(c) /\ \A k \in Connection : ~ Held(c, k)
    BY <2>1 DEF Ownership, OnePlace, OpenUntilRun
  <2>3. \A k \in Connection : Held(c, k)' <=> k = r.conn
    BY <2>1, <2>2 DEF Held, TypeOK
  <2>4. \A d \in Call \ {c}, k \in Connection : Held(d, k)' => Held(d, k)
    BY <2>1 DEF Held, TypeOK
  <2>5. \A d \in Call : Expiring(d)' <=> Expiring(d)
    BY <2>1 DEF Expiring
  <2>6. OneCompletion'
    BY <2>1 DEF OneCompletion, Ownership
  <2>7. pending' \subseteq Call
    BY <2>1 DEF TypeOK
  <2>8. OnePlace'
    BY <2>1, <2>2, <2>3, <2>4, <2>5, <2>7 DEF Ownership, OnePlace
  <2>9. OneHolder'
    BY <2>1, <2>3, <2>4 DEF Ownership, OneHolder, Held
  <2>10. OpenUntilRun'
    BY <2>1, <2>2, <2>4, <2>5, <2>7 DEF Ownership, OpenUntilRun
  <2>11. IdleIsUntouched'
    BY <2>1 DEF Ownership, IdleIsUntouched
  <2> QED  BY <2>6, <2>8, <2>9, <2>10, <2>11 DEF Ownership
<1>7. ASSUME NEW k \in Connection, ReaderInvoke(k)
      PROVE  Ownership'
  <2>0. PICK c \in Call : c = consuming[k]
    BY <1>7 DEF ReaderInvoke, TypeOK
  <2>1. /\ consuming' = [consuming EXCEPT ![k] = NoCall]
        /\ completions' = [completions EXCEPT ![c] = @ + 1]
        /\ \A d \in Call \ {c} : promise'[d] = promise[d]
        /\ UNCHANGED <<thread, pending, expiring>>
    BY <1>7, <2>0 DEF ReaderInvoke, Complete, SetValue, TypeOK
  <2>2. Held(c, k)
    BY <2>0 DEF Held
  <2>3. completions[c] = 0 /\ thread[c] # "idle" /\ ~ Expiring(c) /\ c \notin pending
    BY <2>2 DEF Ownership, OnePlace, OpenUntilRun
  <2>4. \A j \in Connection : ~ Held(c, j)'
    BY <2>1, <2>2 DEF Held, Ownership, OnePlace, OneHolder, TypeOK
  <2>5. \A d \in Call, j \in Connection : Held(d, j)' => Held(d, j)
    BY <2>1, <2>2 DEF Held, TypeOK
  <2>6. completions'[c] = 1 /\ \A d \in Call \ {c} : completions'[d] = completions[d]
    BY <2>1, <2>2, <2>3 DEF TypeOK
  <2>7. \A d \in Call : Expiring(d)' <=> Expiring(d)
    BY <2>1 DEF Expiring
  <2>8. OneCompletion'
    BY <2>6 DEF OneCompletion, Ownership
  <2>9. OnePlace'
    BY <2>1, <2>5, <2>7 DEF Ownership, OnePlace, TypeOK
  <2>10. OneHolder'
    BY <2>1, <2>5, <2>7 DEF Ownership, OneHolder
  <2>11. OpenUntilRun'
    BY <2>1, <2>3, <2>4, <2>5, <2>6, <2>7 DEF Ownership, OpenUntilRun
  <2>12. IdleIsUntouched'
    BY <2>1, <2>3, <2>6 DEF Ownership, IdleIsUntouched
  <2> QED  BY <2>8, <2>9, <2>10, <2>11, <2>12 DEF Ownership
<1>8. ASSUME UNCHANGED <<thread, pending, expiring, consuming, completions, promise>>
      PROVE  Ownership'
  BY <1>8, OwnershipFrame
<1>9. ASSUME NEW r \in Packet, RejectResponse(r) \/ StrayResponse(r)
      PROVE  Ownership'
  BY <1>8, <1>9 DEF RejectResponse, StrayResponse, callVars, history
<1>10. ASSUME NEW q \in requests, DispatchServerCall(q)
       PROVE  Ownership'
  BY <1>8, <1>10 DEF DispatchServerCall, callVars
<1>11. ASSUME NEW k \in Connection,
              TryConnect(k) \/ Authenticate(k) \/ LinkDown(k) \/ Disconnect(k)
       PROVE  Ownership'
  BY <1>8, <1>11 DEF TryConnect, Authenticate, LinkDown, Disconnect, callVars, history
<1>12. ASSUME NEW c \in Call, DeadlinePasses(c)
       PROVE  Ownership'
  BY <1>8, <1>12 DEF DeadlinePasses, history
<1>13. CASE UNCHANGED vars
  BY <1>8, <1>13 DEF vars, callVars, history
<1> QED
  BY <1>1, <1>2, <1>3, <1>4, <1>5, <1>6, <1>7, <1>9, <1>10, <1>11, <1>12, <1>13
     DEF Next, Caller, TypeOK

\* For any number of calls, connections and threads the completion callback of
\* a call runs at most once.
THEOREM CompletesAtMostOnce == Safety => []OneCompletion
<1>1. Ownership => OneCompletion
  BY DEF Ownership
<1> QED
  BY <1>1, TypeCorrect, OwnershipInit, OwnershipStep, PTL DEF Safety

-----------------------------------------------------------------------------
(* NoLeakedEntry: a settled or cancelled call is not in the table. *)

\* Initially the table is empty.
LEMMA NoLeakInit == Init => NoLeakedEntry
  BY DEF Init, NoLeakedEntry

\* No step settles or cancels a call and leaves it in the table.
LEMMA NoLeakStep ==
  TypeOK /\ Ownership /\ Ownership' /\ NoLeakedEntry /\ [Next]_vars => NoLeakedEntry'
<1> SUFFICES ASSUME TypeOK, Ownership, NoLeakedEntry, [Next]_vars
             PROVE  NoLeakedEntry'
  OBVIOUS
<1> USE NullAssumption
<1>1. ASSUME NEW c \in Call, NEW source \in Source, RegisterServerCall(c, source)
      PROVE  NoLeakedEntry'
  BY <1>1 DEF RegisterServerCall, Ownership, IdleIsUntouched, NoLeakedEntry, TypeOK
<1>2. ASSUME NEW c \in Call, SendRequest(c) \/ SendFails(c)
      PROVE  NoLeakedEntry'
  BY <1>2 DEF SendRequest, SendFails, NoLeakedEntry, TypeOK
<1>3. ASSUME NEW c \in Call, CancelServerCall(c)
      PROVE  NoLeakedEntry'
  BY <1>3 DEF CancelServerCall, Erase, NoLeakedEntry, TypeOK
<1>4. ASSUME NEW c \in Call, FailPromise(c)
      PROVE  NoLeakedEntry'
  BY <1>4 DEF FailPromise, SetValue, NoLeakedEntry, TypeOK
<1>5. CASE PumpCollect
  BY <1>5 DEF PumpCollect, Erase, NoLeakedEntry
<1>6. ASSUME NEW c \in Call, NEW e \in Expiry, PumpInvoke(c, e)
      PROVE  NoLeakedEntry'
  <2>1. c \notin pending
    BY <1>6 DEF PumpInvoke, Ownership, OnePlace, Expiring
  <2> QED  BY <1>6, <2>1 DEF PumpInvoke, Complete, SetValue, NoLeakedEntry, TypeOK
<1>7. ASSUME NEW r \in responses, ConsumeServerCall(r)
      PROVE  NoLeakedEntry'
  BY <1>7 DEF ConsumeServerCall, Erase, NoLeakedEntry
<1>8. ASSUME NEW k \in Connection, ReaderInvoke(k)
      PROVE  NoLeakedEntry'
  <2>1. PICK c \in Call : c = consuming[k] /\ c \notin pending
    BY <1>8 DEF ReaderInvoke, TypeOK, Ownership, OnePlace, Held
  <2> QED  BY <1>8, <2>1 DEF ReaderInvoke, Complete, SetValue, NoLeakedEntry, TypeOK
<1>9. ASSUME UNCHANGED <<thread, pending, promise>>
      PROVE  NoLeakedEntry'
  BY <1>9 DEF NoLeakedEntry
<1>10. ASSUME NEW r \in Packet, RejectResponse(r) \/ StrayResponse(r)
       PROVE  NoLeakedEntry'
  BY <1>9, <1>10 DEF RejectResponse, StrayResponse, callVars
<1>11. ASSUME NEW q \in requests, DispatchServerCall(q)
       PROVE  NoLeakedEntry'
  BY <1>9, <1>11 DEF DispatchServerCall, callVars
<1>12. ASSUME NEW k \in Connection,
              TryConnect(k) \/ Authenticate(k) \/ LinkDown(k) \/ Disconnect(k)
       PROVE  NoLeakedEntry'
  BY <1>9, <1>12 DEF TryConnect, Authenticate, LinkDown, Disconnect, callVars
<1>13. ASSUME NEW c \in Call, DeadlinePasses(c)
       PROVE  NoLeakedEntry'
  BY <1>9, <1>13 DEF DeadlinePasses
<1>14. CASE UNCHANGED vars
  BY <1>9, <1>14 DEF vars, callVars
<1> QED
  BY <1>1, <1>2, <1>3, <1>4, <1>5, <1>6, <1>7, <1>8, <1>10, <1>11, <1>12, <1>13, <1>14
     DEF Next, Caller, TypeOK

\* No call that is settled, or cancelled after a failed send, is left in the table.
THEOREM NothingLeaks == Safety => []NoLeakedEntry
<1>1. Safety => []Ownership
  BY TypeCorrect, OwnershipInit, OwnershipStep, PTL DEF Safety
<1> QED
  BY <1>1, TypeCorrect, NoLeakInit, NoLeakStep, PTL DEF Safety

-----------------------------------------------------------------------------
(* SettledOnce: the promise keeps its first value. *)

\* MPromise::SetValue never changes a value that is set.
LEMMA SetValueKeeps ==
  ASSUME TypeOK, NEW c \in Call, NEW v, SetValue(c, v),
         NEW d \in Call, promise[d] # "none"
  PROVE  promise'[d] = promise[d]
  BY DEF SetValue, TypeOK

\* No step changes what a settled call yielded.
LEMMA SettledStep ==
  TypeOK /\ [Next]_vars
    => [\A c \in Call : promise[c] # "none" => promise'[c] = promise[c]]_vars
<1> SUFFICES ASSUME TypeOK, [Next]_vars,
                    NEW d \in Call, promise[d] # "none"
             PROVE  promise'[d] = promise[d]
  OBVIOUS
<1> USE NullAssumption
<1>1. ASSUME UNCHANGED promise
      PROVE  promise'[d] = promise[d]
  BY <1>1
<1>2. ASSUME NEW c \in Call, FailPromise(c)
      PROVE  promise'[d] = promise[d]
  BY <1>2, SetValueKeeps DEF FailPromise
<1>3. ASSUME NEW c \in Call, NEW e \in Expiry, PumpInvoke(c, e)
      PROVE  promise'[d] = promise[d]
  BY <1>3, SetValueKeeps DEF PumpInvoke, Complete
<1>4. ASSUME NEW k \in Connection, ReaderInvoke(k)
      PROVE  promise'[d] = promise[d]
  <2>1. consuming[k] \in Call
    BY <1>4 DEF ReaderInvoke, TypeOK
  <2> QED  BY <1>4, <2>1, SetValueKeeps DEF ReaderInvoke, Complete
<1>5. CASE UNCHANGED vars
  BY <1>1, <1>5 DEF vars, callVars
<1>6. ASSUME NEW c \in Call, Caller(c) \/ DeadlinePasses(c)
      PROVE  promise'[d] = promise[d]
  BY <1>1, <1>2, <1>6 DEF Caller, RegisterServerCall, SendRequest, SendFails,
     CancelServerCall, DeadlinePasses
<1>7. CASE PumpCollect
  BY <1>1, <1>7 DEF PumpCollect
<1>8. ASSUME NEW r \in Packet, ConsumeServerCall(r) \/ RejectResponse(r) \/ StrayResponse(r)
      PROVE  promise'[d] = promise[d]
  BY <1>1, <1>8 DEF ConsumeServerCall, RejectResponse, StrayResponse, callVars
<1>9. ASSUME NEW q \in requests, DispatchServerCall(q)
      PROVE  promise'[d] = promise[d]
  BY <1>1, <1>9 DEF DispatchServerCall, callVars
<1>10. ASSUME NEW k \in Connection,
              TryConnect(k) \/ Authenticate(k) \/ LinkDown(k) \/ Disconnect(k)
       PROVE  promise'[d] = promise[d]
  BY <1>1, <1>10 DEF TryConnect, Authenticate, LinkDown, Disconnect, callVars
<1> QED
  BY <1>3, <1>4, <1>5, <1>6, <1>7, <1>8, <1>9, <1>10 DEF Next, TypeOK

\* What a call's future yielded never changes afterwards.
THEOREM SettledForGood == Safety => SettledOnce
  BY TypeCorrect, SettledStep, PTL DEF Safety, SettledOnce

-----------------------------------------------------------------------------
(* Provenance: what a matching response, and a taken completion, stand for. *)

\* Initially there is no response and no answer.
LEMMA ProvenanceInit == Init => Provenance
  BY DEF Init, Provenance, AnswerIsGenuine

\* A step that adds no response and settles nothing keeps the provenance of both.
LEMMA ProvenanceFrame ==
  ASSUME Provenance, TypeOK, requests' \subseteq requests, responses' \subseteq responses,
         UNCHANGED <<consuming, promise, expected, answered>>,
         \A c \in Call : thread[c] # "idle" => thread'[c] # "idle"
  PROVE  Provenance'
  BY DEF Provenance, AnswerIsGenuine, SourceMatches, TypeOK

\* Every step: a response that matches a call was given by the peer to that call.
LEMMA ProvenanceStep ==
  TypeOK /\ TypeOK' /\ SourceFixed /\ Ownership /\ Provenance /\ [Next]_vars => Provenance'
<1> SUFFICES ASSUME TypeOK, TypeOK', SourceFixed, Ownership, Provenance, [Next]_vars
             PROVE  Provenance'
  OBVIOUS
<1> USE NullAssumption
<1>1. ASSUME NEW c \in Call, NEW source \in Source, RegisterServerCall(c, source)
      PROVE  Provenance'
  <2>1. /\ thread[c] = "idle" /\ thread' = [thread EXCEPT ![c] = "registered"]
        /\ expected' = [expected EXCEPT ![c] = source]
        /\ UNCHANGED <<requests, responses, consuming, promise, answered>>
    BY <1>1 DEF RegisterServerCall, wireVars
  <2>2. \A r \in responses : r.call # c
    BY <2>1 DEF Provenance
  <2> QED  BY <2>1, <2>2 DEF Provenance, AnswerIsGenuine, SourceMatches, TypeOK
<1>2. ASSUME NEW c \in Call, SendRequest(c)
      PROVE  Provenance'
  <2>1. /\ thread' = [thread EXCEPT ![c] = "returned"]
        /\ requests' = requests \cup {[packet |-> PacketOf(c), session |-> session[expected[c].conn]]}
        /\ PacketOf(c).call = c
        /\ UNCHANGED <<responses, consuming, promise, expected, answered>>
    BY <1>2 DEF SendRequest, history, PacketOf
  <2>2. (\A q \in requests : thread[q.packet.call] # "idle")'
    BY <2>1 DEF Provenance, TypeOK
  <2>3. (\A r \in responses : thread[r.call] # "idle" /\ (SourceMatches(r.call, r) => r.call \in answered))'
    BY <2>1 DEF Provenance, TypeOK, SourceMatches
  <2> QED  BY <2>1, <2>2, <2>3 DEF Provenance, AnswerIsGenuine
<1>3. ASSUME NEW c \in Call, SendFails(c) \/ CancelServerCall(c) \/ DeadlinePasses(c)
      PROVE  Provenance'
  <2>1. /\ requests' \subseteq requests /\ responses' \subseteq responses
        /\ UNCHANGED <<consuming, promise, expected, answered>>
        /\ \A d \in Call : thread[d] # "idle" => thread'[d] # "idle"
    BY <1>3 DEF SendFails, CancelServerCall, DeadlinePasses, LoseLink, On, wireVars, history, TypeOK
  <2> QED  BY <2>1, ProvenanceFrame
<1>4. ASSUME NEW c \in Call, NEW v \in Failure, SetValue(c, v),
             requests' = requests, responses' = responses,
             UNCHANGED <<consuming, expected, answered>>,
             \A d \in Call : thread[d] # "idle" => thread'[d] # "idle"
      PROVE  Provenance'
  <2>1. AnswerIsGenuine'
    BY <1>4 DEF SetValue, Provenance, AnswerIsGenuine, TypeOK
  <2> QED  BY <1>4, <2>1 DEF Provenance, SourceMatches, TypeOK
<1>5. ASSUME NEW c \in Call, FailPromise(c)
      PROVE  Provenance'
  BY <1>4, <1>5 DEF FailPromise, wireVars, history, TypeOK
<1>6. ASSUME NEW c \in Call, NEW e \in Expiry, PumpInvoke(c, e)
      PROVE  Provenance'
  BY <1>4, <1>6 DEF PumpInvoke, Complete, wireVars
<1>7. CASE PumpCollect
  BY <1>7, ProvenanceFrame DEF PumpCollect, wireVars, history
<1>8. ASSUME NEW r \in responses, ConsumeServerCall(r)
      PROVE  Provenance'
  <2>1. /\ consuming' = [consuming EXCEPT ![r.conn] = r.call]
        /\ r.call \in answered /\ responses' \subseteq responses
        /\ UNCHANGED <<thread, requests, promise, expected, answered>>
    BY <1>8 DEF ConsumeServerCall, history, Provenance
  <2> QED  BY <2>1 DEF Provenance, AnswerIsGenuine, SourceMatches, TypeOK
<1>9. ASSUME NEW r \in responses, RejectResponse(r)
      PROVE  Provenance'
  BY <1>9, ProvenanceFrame DEF RejectResponse, callVars, history
<1>10. ASSUME NEW k \in Connection, ReaderInvoke(k)
       PROVE  Provenance'
  <2>1. PICK c \in Call : c = consuming[k] /\ c \in answered
    BY <1>10 DEF ReaderInvoke, TypeOK, Provenance
  <2>2. AnswerIsGenuine'
    BY <1>10, <2>1 DEF ReaderInvoke, Complete, SetValue, Provenance, AnswerIsGenuine, TypeOK
  <2>3. (\A j \in Connection : consuming[j] # NoCall => consuming[j] \in answered)'
    BY <1>10 DEF ReaderInvoke, Provenance, TypeOK
  <2> QED  BY <1>10, <2>2, <2>3 DEF ReaderInvoke, wireVars, Provenance, SourceMatches
<1>11. ASSUME NEW q \in requests, DispatchServerCall(q)
       PROVE  Provenance'
  <2>1. /\ requests' \subseteq requests /\ responses' \subseteq responses \cup {q.packet}
        /\ answered' = answered \cup {q.packet.call}
        /\ UNCHANGED <<thread, expected, consuming, promise>>
        /\ thread[q.packet.call] # "idle"
    BY <1>11 DEF DispatchServerCall, callVars, Provenance
  <2> QED  BY <2>1 DEF Provenance, AnswerIsGenuine, SourceMatches
<1>12. ASSUME NEW r \in Packet, StrayResponse(r)
       PROVE  Provenance'
  <2>1. /\ responses' = responses \cup {r} /\ ~ SourceMatches(r.call, r)
        /\ thread[r.call] # "idle"
        /\ UNCHANGED <<requests, thread, expected, consuming, promise, answered>>
    BY <1>12 DEF StrayResponse, SourceMatches, callVars, history, Ownership, OpenUntilRun
  <2> QED  BY <2>1 DEF Provenance, AnswerIsGenuine, SourceMatches
<1>13. ASSUME NEW k \in Connection,
              TryConnect(k) \/ Authenticate(k) \/ LinkDown(k) \/ Disconnect(k)
       PROVE  Provenance'
  <2>1. /\ requests' \subseteq requests /\ responses' \subseteq responses
        /\ UNCHANGED <<thread, consuming, promise, expected, answered>>
    BY <1>13 DEF TryConnect, Authenticate, LinkDown, Disconnect, LoseLink, On,
       callVars, wireVars, history
  <2> QED  BY <2>1, ProvenanceFrame
<1>14. CASE UNCHANGED vars
  BY <1>14, ProvenanceFrame DEF vars, callVars, wireVars, history
<1> QED
  BY <1>1, <1>2, <1>3, <1>5, <1>6, <1>7, <1>8, <1>9, <1>10, <1>11, <1>12, <1>13, <1>14
     DEF Next, Caller

\* The inductive invariant of the module: what the later theorems start from.
THEOREM Inductive == Safety => [](TypeOK /\ SourceFixed /\ Ownership /\ Provenance)
  BY TypeCorrect, OwnershipInit, OwnershipStep, ProvenanceInit, ProvenanceStep, PTL DEF Safety

\* A call is settled with an answer only if the peer answered that call.
THEOREM AnswersAreGenuine == Safety => []AnswerIsGenuine
<1>1. Provenance => AnswerIsGenuine
  BY DEF Provenance
<1> QED
  BY <1>1, Inductive, PTL

-----------------------------------------------------------------------------
(* LinkHistory: "disconnected" is never reported of a link that held. *)

\* Initially no link has been lost.
LEMMA LinkInit == Init => LinkHistory
  BY DEF Init, LinkHistory, DisconnectedMeansLost

\* A step under which no link goes down, no call is made and no promise is
\* reset keeps the history true, if what it collects was already lost.
LEMMA LinkFrame ==
  ASSUME LinkHistory, TypeOK, TypeOK', UNCHANGED <<expected, lost>>,
         \A c \in Call : thread'[c] # "idle" => thread[c] # "idle",
         \A c \in Call : promise'[c] = "none" => promise[c] = "none",
         \A c \in Call : promise'[c] = "disconnected" => c \in lost,
         \A c \in Call : <<c, "disconnected">> \in expiring' => c \in lost,
         \A k \in Connection : IsTransportConnected(k) => IsTransportConnected(k)',
         \A c \in Call : thread[c] # "idle" => expected[c].conn \in Connection
  PROVE  LinkHistory'
<1>1. \A c \in Call : thread'[c] # "idle" /\ ~ LivenessProbe(c)' => ~ LivenessProbe(c)
  BY DEF LivenessProbe
<1> QED  BY <1>1 DEF LinkHistory, DisconnectedMeansLost

\* A step that takes the link of k down marks every open call on k.
LEMMA LoseLinkKeeps ==
  ASSUME LinkHistory, TypeOK, TypeOK', SourceFixed, NEW k \in Connection, LoseLink(k),
         UNCHANGED <<expected, expiring, promise>>,
         \A c \in Call : thread'[c] # "idle" => thread[c] # "idle",
         \A j \in Connection \ {k} : state'[j] = state[j]
  PROVE  LinkHistory'
<1>1. \A c \in Call : thread[c] # "idle" => expected[c].conn \in Connection
  BY DEF SourceFixed
<1>2. \A j \in Connection \ {k} : IsTransportConnected(j)' <=> IsTransportConnected(j)
  BY DEF LoseLink, IsTransportConnected, TypeOK
<1>3. lost \subseteq lost'
  BY DEF LoseLink
<1>4. ASSUME NEW c \in Call, thread'[c] # "idle", promise'[c] = "none", ~ LivenessProbe(c)'
      PROVE  c \in lost'
  <2>1. CASE expected[c].conn = k
    BY <1>4, <2>1 DEF LoseLink, CallsOn
  <2>2. CASE expected[c].conn # k
    BY <1>1, <1>2, <1>3, <1>4, <2>2 DEF LivenessProbe, LinkHistory
  <2> QED  BY <2>1, <2>2
<1> QED  BY <1>3, <1>4 DEF LinkHistory, DisconnectedMeansLost

\* Every step: what is reported as disconnected was open when its link went down.
LEMMA LinkStep ==
  /\ TypeOK /\ TypeOK' /\ SourceFixed /\ NoLeakedEntry /\ Ownership
  /\ LinkHistory /\ [Next]_vars
  => LinkHistory'
<1> SUFFICES ASSUME TypeOK, TypeOK', SourceFixed, NoLeakedEntry, Ownership,
                    LinkHistory, [Next]_vars
             PROVE  LinkHistory'
  OBVIOUS
<1> USE NullAssumption
<1>0. \A c \in Call : thread[c] # "idle" => expected[c].conn \in Connection
  BY DEF SourceFixed
<1>1. ASSUME NEW c \in Call, NEW source \in Source, RegisterServerCall(c, source)
      PROVE  LinkHistory'
  <2>1. /\ thread' = [thread EXCEPT ![c] = "registered"]
        /\ expected' = [expected EXCEPT ![c] = source]
        /\ UNCHANGED <<state, transport, promise, expiring>>
        /\ lost \subseteq lost'
        /\ IsTransportConnected(source.conn) \/ c \in lost'
    BY <1>1 DEF RegisterServerCall, linkVars
  <2>2. \A d \in Call \ {c} : LivenessProbe(d)' <=> LivenessProbe(d)
    BY <2>1 DEF LivenessProbe, IsTransportConnected, TypeOK
  <2>3. LivenessProbe(c)' \/ c \in lost'
    BY <2>1 DEF LivenessProbe, IsTransportConnected, TypeOK
  <2> QED  BY <2>1, <2>2, <2>3 DEF LinkHistory, DisconnectedMeansLost, TypeOK
<1>2. ASSUME UNCHANGED <<expected, lost, expiring, promise>>,
             \A d \in Call : thread'[d] # "idle" => thread[d] # "idle",
             \A k \in Connection : IsTransportConnected(k) => IsTransportConnected(k)'
      PROVE  LinkHistory'
  BY <1>0, <1>2, LinkFrame DEF LinkHistory, DisconnectedMeansLost
<1>3. ASSUME UNCHANGED <<state, transport>>
      PROVE  \A k \in Connection : IsTransportConnected(k) <=> IsTransportConnected(k)'
  BY <1>3 DEF IsTransportConnected
<1>4. ASSUME NEW c \in Call, SendRequest(c) \/ CancelServerCall(c) \/ DeadlinePasses(c)
      PROVE  LinkHistory'
  BY <1>2, <1>3, <1>4 DEF SendRequest, CancelServerCall, DeadlinePasses, linkVars, history, TypeOK
<1>5. ASSUME NEW c \in Call, SendFails(c)
      PROVE  LinkHistory'
  <2>1. thread[c] # "idle" /\ thread' = [thread EXCEPT ![c] = "failing"]
        /\ UNCHANGED <<expected, expiring, promise, state>>
    BY <1>5 DEF SendFails
  <2>2. \A d \in Call : thread'[d] # "idle" => thread[d] # "idle"
    BY <2>1 DEF TypeOK
  <2>3. CASE LoseLink(expected[c].conn)
    BY <1>0, <2>1, <2>2, <2>3, LoseLinkKeeps
  <2>4. CASE UNCHANGED <<transport, lost>>
    BY <1>2, <1>3, <2>1, <2>2, <2>4
  <2> QED  BY <1>5, <2>3, <2>4 DEF SendFails
<1>6. ASSUME NEW c \in Call, NEW v, SetValue(c, v), v # "none",
             v = "disconnected" => c \in lost,
             expiring' \subseteq expiring, UNCHANGED <<expected, lost, state, transport>>,
             \A d \in Call : thread'[d] # "idle" => thread[d] # "idle"
      PROVE  LinkHistory'
  <2>1. \A d \in Call : promise'[d] = "none" => promise[d] = "none"
    BY <1>6 DEF SetValue, TypeOK
  <2>2. \A d \in Call : promise'[d] = "disconnected" => d \in lost
    BY <1>6 DEF SetValue, LinkHistory, DisconnectedMeansLost, TypeOK
  <2>3. \A d \in Call : <<d, "disconnected">> \in expiring' => d \in lost
    BY <1>6 DEF LinkHistory
  <2> QED  BY <1>0, <1>3, <1>6, <2>1, <2>2, <2>3, LinkFrame
<1>7. ASSUME NEW c \in Call, FailPromise(c)
      PROVE  LinkHistory'
  BY <1>6, <1>7 DEF FailPromise, linkVars, history, TypeOK
<1>8. ASSUME NEW c \in Call, NEW e \in Expiry, PumpInvoke(c, e)
      PROVE  LinkHistory'
  BY <1>6, <1>8 DEF PumpInvoke, Complete, linkVars, LinkHistory
<1>9. ASSUME NEW k \in Connection, ReaderInvoke(k)
      PROVE  LinkHistory'
  <2>1. PICK c \in Call : c = consuming[k]
    BY <1>9 DEF ReaderInvoke, TypeOK
  <2> QED  BY <1>6, <1>9, <2>1 DEF ReaderInvoke, Complete, linkVars
<1>10. CASE PumpCollect
  <2>1. /\ expiring' = {<<c, ExpiryOf(c)>> : c \in Expired}
        /\ UNCHANGED <<thread, expected, promise, state, transport, lost>>
    BY <1>10 DEF PumpCollect, linkVars, history
  <2>2. \A c \in Call : <<c, "disconnected">> \in expiring' => c \in pending /\ ~ LivenessProbe(c)
    BY <2>1 DEF ExpiryOf, Expired
  <2>3. \A c \in pending : thread[c] # "idle" /\ promise[c] = "none"
    BY DEF NoLeakedEntry, Ownership, OpenUntilRun, TypeOK
  <2>4. \A c \in Call : <<c, "disconnected">> \in expiring' => c \in lost
    BY <2>2, <2>3 DEF LinkHistory
  <2> QED
    BY <1>0, <1>3, <2>1, <2>4, LinkFrame DEF LinkHistory, DisconnectedMeansLost
<1>11. ASSUME NEW r \in responses, ConsumeServerCall(r) \/ RejectResponse(r)
       PROVE  LinkHistory'
  BY <1>2, <1>3, <1>11 DEF ConsumeServerCall, RejectResponse, callVars, linkVars, history
<1>12. ASSUME NEW r \in Packet, StrayResponse(r)
       PROVE  LinkHistory'
  BY <1>2, <1>3, <1>12 DEF StrayResponse, callVars, linkVars, history
<1>13. ASSUME NEW q \in requests, DispatchServerCall(q)
       PROVE  LinkHistory'
  BY <1>2, <1>3, <1>13 DEF DispatchServerCall, callVars, linkVars
<1>14. ASSUME NEW k \in Connection, TryConnect(k) \/ Authenticate(k)
       PROVE  LinkHistory'
  <2>1. \A j \in Connection : IsTransportConnected(j) => IsTransportConnected(j)'
    BY <1>14 DEF TryConnect, Authenticate, IsTransportConnected, TypeOK
  <2> QED  BY <1>2, <1>14, <2>1 DEF TryConnect, Authenticate, callVars, history
<1>15. ASSUME NEW k \in Connection, LinkDown(k) \/ Disconnect(k)
       PROVE  LinkHistory'
  BY <1>15, LoseLinkKeeps DEF LinkDown, Disconnect, callVars, TypeOK
<1>16. CASE UNCHANGED vars
  BY <1>2, <1>3, <1>16 DEF vars, callVars, linkVars, history
<1> QED
  BY <1>1, <1>4, <1>5, <1>7, <1>8, <1>9, <1>10, <1>11, <1>12, <1>13, <1>14, <1>15, <1>16
     DEF Next, Caller

\* "server_call_disconnected" is never reported of a call whose link held.
THEOREM DisconnectedIsTrue == Safety => []DisconnectedMeansLost
<1>1. LinkHistory => DisconnectedMeansLost
  BY DEF LinkHistory
<1> QED
  BY <1>1, Inductive, NothingLeaks, LinkInit, LinkStep, PTL DEF Safety

-----------------------------------------------------------------------------
(* Refinement: every step of the module is a step of CallContract, or none. *)

ContractMade == {c \in Call : thread[c] # "idle"}

\* The initial state of the table is one of the contract.
LEMMA ContractInit == Init => Contract!Init
  BY DEF Init, Contract!Init

\* Setting a promise settles an open call, and is no step for a settled one.
LEMMA SettleRefines ==
  ASSUME TypeOK, Provenance, NEW c \in Call, NEW v \in Failure \cup {"answer"},
         SetValue(c, v), thread[c] # "idle", v = "answer" => c \in answered,
         ContractMade' = ContractMade, UNCHANGED answered
  PROVE  [Contract!Next]_(Contract!cvars)
<1>1. CASE promise[c] # "none"
  BY <1>1 DEF SetValue, ContractMade, Contract!cvars
<1>2. CASE promise[c] = "none" /\ v = "answer"
  <2>1. Contract!SettleWithAnswer(c)
    BY <1>2 DEF SetValue, ContractMade, Contract!SettleWithAnswer, Contract!Settled
  <2> QED  BY <2>1 DEF Contract!Next, Contract!Settle
<1>3. CASE promise[c] = "none" /\ v \in Failure
  <2>1. Contract!SettleWithFailure(c, v)
    BY <1>3 DEF SetValue, ContractMade, Contract!SettleWithFailure, Contract!Settled
  <2> QED  BY <1>3, <2>1 DEF Contract!Next, Contract!Settle
<1> QED  BY <1>1, <1>2, <1>3

\* Every step of the table is a step of the contract or a stutter.
LEMMA ContractStep ==
  TypeOK /\ Ownership /\ Provenance /\ [Next]_vars => [Contract!Next]_(Contract!cvars)
<1> SUFFICES ASSUME TypeOK, Ownership, Provenance, [Next]_vars
             PROVE  [Contract!Next]_(Contract!cvars)
  OBVIOUS
<1> USE NullAssumption
<1>1. ASSUME NEW c \in Call, NEW source \in Source, RegisterServerCall(c, source)
      PROVE  [Contract!Next]_(Contract!cvars)
  <2>1. Contract!Make(c)
    BY <1>1 DEF RegisterServerCall, Contract!Make, TypeOK
  <2> QED  BY <2>1 DEF Contract!Next
<1>2. ASSUME ContractMade' = ContractMade, UNCHANGED <<promise, answered>>
      PROVE  [Contract!Next]_(Contract!cvars)
  BY <1>2 DEF ContractMade, Contract!cvars
<1>3. ASSUME UNCHANGED thread
      PROVE  ContractMade' = ContractMade
  BY <1>3 DEF ContractMade
<1>4. ASSUME NEW c \in Call, SendRequest(c) \/ SendFails(c) \/ CancelServerCall(c)
      PROVE  [Contract!Next]_(Contract!cvars)
  <2>1. thread[c] # "idle" /\ \E p \in Progress \ {"idle"} : thread' = [thread EXCEPT ![c] = p]
    BY <1>4 DEF SendRequest, SendFails, CancelServerCall
  <2>2. ContractMade' = ContractMade
    BY <2>1 DEF ContractMade, TypeOK
  <2> QED  BY <1>2, <1>4, <2>2 DEF SendRequest, SendFails, CancelServerCall, history
<1>5. ASSUME NEW c \in Call, FailPromise(c)
      PROVE  [Contract!Next]_(Contract!cvars)
  <2>1. ContractMade' = ContractMade
    BY <1>5 DEF FailPromise, ContractMade, TypeOK
  <2> QED  BY <1>5, <2>1, SettleRefines DEF FailPromise, history
<1>6. ASSUME NEW c \in Call, NEW e \in Expiry, PumpInvoke(c, e)
      PROVE  [Contract!Next]_(Contract!cvars)
  <2>1. thread[c] # "idle"
    BY <1>6 DEF PumpInvoke, Ownership, OpenUntilRun, Expiring
  <2> QED  BY <1>3, <1>6, <2>1, SettleRefines DEF PumpInvoke, Complete
<1>7. ASSUME NEW k \in Connection, ReaderInvoke(k)
      PROVE  [Contract!Next]_(Contract!cvars)
  <2>1. PICK c \in Call : c = consuming[k] /\ c \in answered /\ thread[c] # "idle"
    BY <1>7 DEF ReaderInvoke, TypeOK, Provenance, Ownership, OpenUntilRun, Held
  <2> QED  BY <1>3, <1>7, <2>1, SettleRefines DEF ReaderInvoke, Complete
<1>8. ASSUME NEW q \in requests, DispatchServerCall(q)
      PROVE  [Contract!Next]_(Contract!cvars)
  <2> DEFINE c == q.packet.call
  <2>1. /\ c \in Call /\ c \in ContractMade
        /\ answered' = answered \cup {c}
        /\ UNCHANGED <<thread, promise>>
    BY <1>8 DEF DispatchServerCall, callVars, Provenance, ContractMade, TypeOK
  <2> HIDE DEF c
  <2>2. CASE c \in answered
    BY <1>2, <1>3, <2>1, <2>2
  <2>3. CASE c \notin answered
    <3>1. Contract!Answer(c)
      BY <1>3, <2>1, <2>3 DEF Contract!Answer, ContractMade
    <3> QED  BY <2>1, <3>1 DEF Contract!Next
  <2> QED  BY <2>2, <2>3
<1>9. ASSUME NEW c \in Call, DeadlinePasses(c)
      PROVE  [Contract!Next]_(Contract!cvars)
  BY <1>2, <1>3, <1>9 DEF DeadlinePasses, history
<1>10. CASE PumpCollect
  BY <1>2, <1>3, <1>10 DEF PumpCollect, history
<1>11. ASSUME NEW r \in Packet, ConsumeServerCall(r) \/ RejectResponse(r) \/ StrayResponse(r)
       PROVE  [Contract!Next]_(Contract!cvars)
  BY <1>2, <1>3, <1>11 DEF ConsumeServerCall, RejectResponse, StrayResponse, callVars, history
<1>12. ASSUME NEW k \in Connection,
              TryConnect(k) \/ Authenticate(k) \/ LinkDown(k) \/ Disconnect(k)
       PROVE  [Contract!Next]_(Contract!cvars)
  BY <1>2, <1>3, <1>12 DEF TryConnect, Authenticate, LinkDown, Disconnect, callVars, history
<1>13. CASE UNCHANGED vars
  BY <1>2, <1>3, <1>13 DEF vars, callVars, history
<1> QED
  BY <1>1, <1>4, <1>5, <1>6, <1>7, <1>8, <1>9, <1>10, <1>11, <1>12, <1>13
     DEF Next, Caller, TypeOK

\* The table of pending calls, with every race on it, keeps the contract of a
\* call: nothing is settled twice, before it is made, or with an answer that
\* the peer did not give.
THEOREM RefinesContract == Safety => Contract!Safety
  BY Inductive, ContractInit, ContractStep, PTL DEF Safety, Contract!Safety
=============================================================================
