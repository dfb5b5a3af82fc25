---------------------------- MODULE CallContract ----------------------------
(***************************************************************************)
(* What a caller of CallServerFunction is promised, with no table, lock,   *)
(* thread or socket: a call that is made is settled exactly once, and it   *)
(* is settled with the peer's answer only after the peer produced one.     *)
(* ServerCall implements this specification.                               *)
(***************************************************************************)
CONSTANTS
    Call,      \* the calls a process makes (CallIds)
    Failure    \* the ways a call settles without an answer

VARIABLES
    made,      \* calls the caller has started
    answered,  \* calls for which the peer produced an answer
    result     \* result[c]: "none" until the future of c is settled

cvars == <<made, answered, result>>

Settled(c) == result[c] # "none"

Init ==
    /\ made = {}
    /\ answered = {}
    /\ result = [c \in Call |-> "none"]

Make(c) ==
    /\ c \notin made
    /\ made' = made \cup {c}
    /\ UNCHANGED <<answered, result>>

Answer(c) ==
    /\ c \in made \ answered
    /\ answered' = answered \cup {c}
    /\ UNCHANGED <<made, result>>

SettleWithAnswer(c) ==
    /\ c \in answered
    /\ ~ Settled(c)
    /\ result' = [result EXCEPT ![c] = "answer"]
    /\ UNCHANGED <<made, answered>>

SettleWithFailure(c, f) ==
    /\ c \in made
    /\ ~ Settled(c)
    /\ result' = [result EXCEPT ![c] = f]
    /\ UNCHANGED <<made, answered>>

Settle(c) == SettleWithAnswer(c) \/ \E f \in Failure : SettleWithFailure(c, f)

Next == \E c \in Call : Make(c) \/ Answer(c) \/ Settle(c)

Safety == Init /\ [][Next]_cvars

\* Every call that is made is settled in the end.
Liveness == \A c \in Call : WF_cvars(Settle(c))

Spec == Safety /\ Liveness
=============================================================================
