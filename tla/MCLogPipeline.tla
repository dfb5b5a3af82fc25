--------------------------- MODULE MCLogPipeline ---------------------------
(* Three records over two sinks: to both, and to one. *)
EXTENDS LogPipeline

MCRouting == <<{1, 2}, {2}, {1, 2}>>
=============================================================================
