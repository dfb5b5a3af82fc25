---------------------------- MODULE MCActorOutbox ----------------------------
(* Model values for ActorOutbox: the threads, and the server types, are alike. *)
EXTENDS ActorOutbox, TLC

Symmetry == Permutations(Thread) \cup Permutations(Target)
=============================================================================
