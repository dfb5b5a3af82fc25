----------------------------- MODULE MCGateway -----------------------------
(* Two targets, of two types; MPlayerService has no handler of the handshake. *)
EXTENDS Gateway

CONSTANTS s1, s2

MCServer == {s1, s2}
MCTypeOf == [s \in MCServer |-> IF s = s1 THEN "Echo" ELSE "Player"]
=============================================================================
