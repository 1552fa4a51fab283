-------------------------- MODULE MCReasoningLoop --------------------------
(* Small instances of ReasoningLoop. *)
EXTENDS ReasoningLoop

CONSTANTS w1, w2, h1, h2, r1, r2, b1, b2, e1, e2

TwoHosts == w1 :> h1 @@ w2 :> h2
OneHost == w1 :> h1 @@ w2 :> h1
SameBinding == w1 :> b1 @@ w2 :> b1
OtherBinding == w1 :> b1 @@ w2 :> b2

Allow(calls, reads) ==
    [model_calls |-> calls, tokens |-> 10 * calls, cost_nano_usd |-> 10 * calls,
     provider_requests |-> 2 * calls, tool_calls |-> reads, backend_reads |-> 2 * reads]

ThreeCallsTwoReads == Allow(3, 2)
ThreeCallsOneRead == Allow(3, 1)

\* One count and one generation request per model call; two backend reads per request.
OneModelCall == [Allow(1, 0) EXCEPT !.tool_calls = 0]
OneReadEach == [r \in Requests |-> Allow(0, 1)]
=============================================================================
