--------------------------- MODULE MCReadRegistry ---------------------------
(* A small instance of ReadRegistry. *)
EXTENDS ReadRegistry, TLC

CONSTANTS c1, c2

\* A thread with batches of up to two reads, and one that reads one at a time.
PairAndSingle == c1 :> 2 @@ c2 :> 1
=============================================================================
