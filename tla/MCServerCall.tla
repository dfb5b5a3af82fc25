---------------------------- MODULE MCServerCall ----------------------------
(* Instances of ServerCall for TLC.  Calls, connections and functions are   *)
(* interchangeable for the safety properties; the run that checks liveness  *)
(* uses no symmetry.                                                        *)
EXTENDS ServerCall, TLC

Symmetry == Permutations(Call) \cup Permutations(Connection) \cup Permutations(Function)
=============================================================================
