----------------------------- MODULE MCServices -----------------------------
(***************************************************************************)
(* One instance of each of the independent services; a behaviour is one of *)
(* a single part, the others stay as they began.                           *)
(***************************************************************************)
EXTENDS PaymentTraffic, MemoryEvidence, HostRuntime, Incidents, EvidenceMemory, TraceReads, TLC

VARIABLE part

Parts == {"traffic", "memory", "host", "incidents", "evidence", "trace"}

Attempt(s, b) == [sample |-> s, body |-> b]

\* The probe of a duplicate and of a changed body, and an ordinary batch.
MCPlans == {[probe |-> TRUE, role |-> "webhook",
             attempts |-> <<Attempt("s1", "x"), Attempt("s1", "x"), Attempt("s1", "y")>>],
            [probe |-> FALSE, role |-> "payments",
             attempts |-> <<Attempt("s1", "x"), Attempt("s2", "x")>>]}
MCPeers == <<"risk", "webhook">>
MCDeclines == {<<"webhook", "s2">>}

Scope(i, n) == [incident |-> i, ns |-> n]
MCScopes == {Scope("i1", "a"), Scope("i2", "a"), Scope("i1", "b")}
MCOriginals == {Scope("i0", "a"), Scope("i1", "b")}

\* Logs: every short sequence of lines, and some with whole, linked, cyclic and cut objects.
Line(k) == [kind |-> k, id |-> 0, parent |-> 0]
Span(i, p) == [kind |-> "span", id |-> i, parent |-> p]
Object(i, p) == <<Line("open"), Span(i, p), Line("close")>>
ShortLogs == UNION {[1..n -> {Line("open"), Line("close"), Span(1, 2), Line("bad")}] : n \in 0..2}
LongLogs == {Object(1, 2) \o Object(2, 1),
             Object(1, 2) \o Object(2, 3) \o Object(3, 1),
             Object(1, 0) \o Object(3, 1),
             Object(1, 2) \o Object(2, 3) \o Object(3, 4) \o Object(4, 0),
             Object(2, 2) \o <<Line("open"), Line("outside"), Line("close")>>,
             <<Line("open"), Line("other")>> \o Object(2, 4)}
MCTexts == {<<first, Object(1, 2)>> : first \in ShortLogs \cup LongLogs}

Init ==
  /\ part \in Parts
  /\ TrafficInit /\ MemoryInit /\ HostInit /\ IncidentInit /\ EvidenceInit /\ TraceInit
  /\ part # "traffic" => plan.probe
  /\ part # "trace" => text = CHOOSE t \in Texts : TRUE

Next ==
  /\ UNCHANGED part
  /\ \/ part = "traffic" /\ TrafficNext
          /\ UNCHANGED <<memoryVars, hostVars, incidentVars, evidenceVars, traceVars>>
     \/ part = "memory" /\ MemoryNext
          /\ UNCHANGED <<trafficVars, hostVars, incidentVars, evidenceVars, traceVars>>
     \/ part = "host" /\ HostNext
          /\ UNCHANGED <<trafficVars, memoryVars, incidentVars, evidenceVars, traceVars>>
     \/ part = "incidents" /\ IncidentNext
          /\ UNCHANGED <<trafficVars, memoryVars, hostVars, evidenceVars, traceVars>>
     \/ part = "evidence" /\ EvidenceNext
          /\ UNCHANGED <<trafficVars, memoryVars, hostVars, incidentVars, traceVars>>
     \/ part = "trace" /\ TraceNext
          /\ UNCHANGED <<trafficVars, memoryVars, hostVars, incidentVars, evidenceVars>>

servicesVars == <<part, trafficVars, memoryVars, hostVars, incidentVars, evidenceVars, traceVars>>

Spec ==
  /\ Init /\ [][Next]_servicesVars
  /\ part = "traffic" => TrafficFairness
  /\ part = "host" => HostFairness

\* Every batch of traffic ends with its receipt, whatever hangs behind it; every call of the
\* host's session returns, and after close() has begun every client is closed in the end.
ServicesEnd ==
  /\ part = "traffic" => TrafficEnds
  /\ part = "host" => HostEnds
=============================================================================
