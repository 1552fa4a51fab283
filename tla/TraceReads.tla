----------------------------- MODULE TraceReads -----------------------------
(***************************************************************************)
(* The trace reader (tools/traces.py, evidence/trace_span.py): it reads a  *)
(* deployment, its pods, and each pod's log between two reads of the pod's *)
(* identity while the cluster restarts containers and replaces pods; it    *)
(* frames the spans in the log, checks their parents and publishes them.   *)
(***************************************************************************)
EXTENDS Integers, Sequences, FiniteSets, SequencesExt

CONSTANTS Slots,        \* 1..n, the pods of the service
          Texts,        \* [Slots -> Seq(line)]: what the containers may have logged
          MaxChanges,   \* bound: changes of the cluster during a collection
          MaxCommands,  \* MAX_COMMANDS_PER_SERVICE
          MaxSpans      \* MAX_SPANS

\* A line of a log; see parse_console_log below.
LineKinds == {"open", "close", "span", "outside", "bad", "other"}
Lines == [kind : LineKinds, id : Nat, parent : Nat]

\* A list of more than two pods is refused, which is what the reservation of commands
\* covers; a span without an id of its own is invalid.
ASSUME TraceAssumption ==
  /\ IsFiniteSet(Slots) /\ Slots = 1..Cardinality(Slots)
  /\ {MaxChanges, MaxCommands, MaxSpans} \subseteq Nat
  /\ 2 + 3 * Cardinality(Slots) <= MaxCommands
  /\ \A t \in Texts : t \in [Slots -> Seq(Lines)]
  /\ \A t \in Texts : \A s \in Slots : \A i \in DOMAIN t[s] : t[s][i].kind = "span" => t[s][i].id # 0

VARIABLES deployment,  \* its uid
          pods,        \* per slot: [owner, uid, restarts]
          text,        \* per slot: the lines logged
          changes,
          trace,       \* the reader: [at, deployment, todo, pod, source, commands]
          captures,    \* the logs kept: [pod, source, lines, parsed]
          graph        \* the published summary

traceVars == <<deployment, pods, text, changes, trace, captures, graph>>

NoPod == [owner |-> 0, uid |-> 0, restarts |-> 0]
NoGraph == [nodes |-> {}, resolved |-> 0, unresolved |-> 0, roots |-> 0]

TraceInit ==
  /\ deployment = 1
  /\ pods = [s \in Slots |-> [owner |-> 1, uid |-> s, restarts |-> 0]]
  /\ text \in Texts
  /\ changes = 0
  /\ trace = [at |-> "deployment", deployment |-> 0, todo |-> {}, pod |-> NoPod, source |-> NoPod,
              commands |-> 0]
  /\ captures = {} /\ graph = NoGraph

-----------------------------------------------------------------------------
(* The cluster.                                                            *)

Changed ==
  /\ trace.at \notin {"failed", "published"} /\ changes < MaxChanges
  /\ changes' = changes + 1
  /\ UNCHANGED <<text, trace, captures, graph>>

RestartContainer(s) ==
  /\ Changed /\ pods[s] # NoPod
  /\ pods' = [pods EXCEPT ![s].restarts = @ + 1] /\ UNCHANGED deployment

\* A pod goes away, or a new one, with a uid of its own, takes its place.
ReplacePod(s) ==
  /\ Changed
  /\ \E new \in {NoPod, [owner |-> deployment, uid |-> Cardinality(Slots) + changes + 1,
                         restarts |-> 0]} : pods' = [pods EXCEPT ![s] = new]
  /\ UNCHANGED deployment

\* The old deployment's pods remain for a while.
RecreateDeployment == Changed /\ deployment' = deployment + 1 /\ UNCHANGED pods

-----------------------------------------------------------------------------
(* parse_console_log.  A line is [kind, id, parent]: "open", "close", the  *)
(* "span" its object holds, a span "outside" the window, a "bad" field, or *)
(* "other" text.                                                           *)

Framing == [open |-> FALSE, body |-> "none", span |-> <<>>, spans |-> <<>>, partial |-> 0,
            malformed |-> 0, excluded |-> 0]

\* The object's lines decide its verdict when it is closed; a span that is its own parent
\* is invalid.
Held(v, line) ==
  IF line.kind = "bad" \/ v.body = "bad" \/ (line.kind = "span" /\ line.id = line.parent)
  THEN [v EXCEPT !.body = "bad"]
  ELSE [v EXCEPT !.body = IF line.kind = "other" THEN @ ELSE line.kind,
                 !.span = IF line.kind = "span" THEN <<[id |-> line.id, parent |-> line.parent]>> ELSE @]

ClosedObject(v) ==
  LET closed == [v EXCEPT !.open = FALSE, !.body = "none", !.span = <<>>]
  IN  CASE v.body = "span" -> [closed EXCEPT !.spans = @ \o v.span]
        [] v.body = "outside" -> [closed EXCEPT !.excluded = @ + 1]
        [] OTHER -> [closed EXCEPT !.malformed = @ + 1]

Frame(v, line) ==
  CASE line.kind = "open" -> [v EXCEPT !.open = TRUE, !.body = "none",
                                       !.partial = IF v.open THEN @ + 1 ELSE @]
    [] line.kind # "open" /\ ~v.open -> [v EXCEPT !.partial = IF line.kind = "other" THEN @ ELSE @ + 1]
    [] line.kind = "close" /\ v.open -> ClosedObject(v)
    [] OTHER -> Held(v, line)

Framed(lines) == FoldLeft(Frame, Framing, lines)

Parsed(lines) ==
  LET v == Framed(lines)
  IN  [spans |-> v.spans, malformed |-> v.malformed, excluded |-> v.excluded,
       partial |-> IF v.open THEN v.partial + 1 ELSE v.partial]

-----------------------------------------------------------------------------
(* summarize_graph                                                         *)

Spans == UNION {Range(c.parsed.spans) : c \in captures}

Conflict(nodes) == \E s, t \in nodes : s.id = t.id /\ s # t

\* The walk from a span to its parents, until one is unknown or absent (0).
Ancestor(nodes, span) ==
  LET up[n \in 0..Cardinality(nodes)] ==
        IF n = 0 THEN span.id
        ELSE IF \E s \in nodes : s.id = up[n - 1]
             THEN (CHOOSE s \in nodes : s.id = up[n - 1]).parent ELSE 0
  IN  up

\* A parent seen before closes a cycle.
Cyclic(nodes) ==
  \E span \in nodes : LET up == Ancestor(nodes, span)
                      IN  \E n, m \in DOMAIN up : n < m /\ up[n] = up[m] /\ up[n] # 0

Summary(nodes) ==
  LET resolved == {s \in nodes : \E t \in nodes : t.id = s.parent}
      roots == {s \in nodes : s.parent = 0}
  IN  [nodes |-> nodes, resolved |-> Cardinality(resolved), roots |-> Cardinality(roots),
       unresolved |-> Cardinality(nodes) - Cardinality(resolved) - Cardinality(roots)]

-----------------------------------------------------------------------------
(* TraceRead                                                               *)

ReadTo(at) == trace' = [trace EXCEPT !.at = at, !.commands = @ + 1]
Reader == UNCHANGED <<deployment, pods, text, changes>>

\* A command that fails, a bad answer or the deadline ends the collection.
GiveUpTrace ==
  /\ trace.at \notin {"failed", "published"}
  /\ trace' = [trace EXCEPT !.at = "failed"]
  /\ Reader /\ UNCHANGED <<captures, graph>>

ReadDeployment ==
  /\ trace.at = "deployment"
  /\ trace' = [trace EXCEPT !.at = "list", !.commands = @ + 1, !.deployment = deployment]
  /\ Reader /\ UNCHANGED <<captures, graph>>

ListPods ==
  /\ trace.at = "list"
  /\ trace' = [trace EXCEPT !.at = "next", !.commands = @ + 1, !.todo = Range(pods) \ {NoPod}]
  /\ Reader /\ UNCHANGED <<captures, graph>>

\* The pod's ReplicaSet must belong to the deployment read first.
ReadReplica ==
  /\ trace.at = "next"
  /\ \E pod \in trace.todo :
       /\ pod.owner = trace.deployment
       /\ trace' = [trace EXCEPT !.at = "logs", !.commands = @ + 1, !.pod = pod, !.todo = @ \ {pod}]
  /\ Reader /\ UNCHANGED <<captures, graph>>

\* The log of the container that runs now, by the pod's name.
ReadLog ==
  /\ trace.at = "logs"
  /\ \E s \in Slots : /\ pods[s].uid = trace.pod.uid
                      /\ trace' = [trace EXCEPT !.at = "after", !.commands = @ + 1, !.source = pods[s]]
  /\ Reader /\ UNCHANGED <<captures, graph>>

\* Mutant: the identity leaves the restarts out.
SameIdentityLoosely(pod) == pod.uid = trace.pod.uid /\ pod.owner = trace.pod.owner

SameIdentity(pod) == pod = trace.pod

ReadAgain ==
  /\ trace.at = "after"
  /\ \E s \in Slots :
       /\ pods[s].uid = trace.pod.uid /\ SameIdentity(pods[s])
       /\ LET parsed == Parsed(text[s])
          IN  /\ Len(parsed.spans) <= MaxSpans
              /\ captures' = captures \cup {[pod |-> trace.pod, source |-> trace.source,
                                             lines |-> text[s], parsed |-> parsed]}
  /\ ReadTo("next")
  /\ Reader /\ UNCHANGED graph

\* The logs together keep the limit, duplicates agree, parents form no cycle; then every log
\* and every span is published.
PublishTrace ==
  /\ trace.at = "next" /\ trace.todo = {}
  /\ MapThenSumSet(LAMBDA c : Len(c.parsed.spans), captures) <= MaxSpans
  /\ ~Conflict(Spans) /\ ~Cyclic(Spans)
  /\ graph' = Summary(Spans)
  /\ trace' = [trace EXCEPT !.at = "published"]
  /\ Reader /\ UNCHANGED captures

TraceNext ==
  \/ \E s \in Slots : RestartContainer(s) \/ ReplacePod(s)
  \/ RecreateDeployment
  \/ ReadDeployment \/ ListPods \/ ReadReplica \/ ReadLog \/ ReadAgain \/ PublishTrace \/ GiveUpTrace

TraceSpec == TraceInit /\ [][TraceNext]_traceVars

-----------------------------------------------------------------------------
(* Properties.                                                             *)

Kinds(lines, kinds) == {i \in DOMAIN lines : lines[i].kind \in kinds}

\* The delimiter after line i closes the object opened there.
ClosedAt(lines, i) ==
  \E j \in Kinds(lines, {"close"}) : i < j /\ \A k \in Kinds(lines, {"open"}) : ~(i < k /\ k < j)

InObject(lines, i) ==
  \E j \in Kinds(lines, {"open"}) : j < i /\ \A k \in Kinds(lines, {"close"}) : ~(j < k /\ k < i)

\* Every object that begins in a log is counted once: kept, malformed or outside if it is
\* complete, partial if it is cut off; and so is every stray line of a clipped one.
Accounted(c) ==
  LET opens == Kinds(c.lines, {"open"})
      complete == {i \in opens : ClosedAt(c.lines, i)}
      stray == {i \in Kinds(c.lines, {"close", "span", "outside", "bad"}) : ~InObject(c.lines, i)}
  IN  /\ Len(c.parsed.spans) + c.parsed.malformed + c.parsed.excluded = Cardinality(complete)
      /\ c.parsed.partial = Cardinality(opens \ complete) + Cardinality(stray)

\* No chain of parents in a published graph closes: every set of spans has one whose parent
\* is not in it.
Forest(nodes) ==
  \A set \in (SUBSET nodes) \ {{}} : \E s \in set : \A t \in set : t.id # s.parent

\* Every log that is kept was written by the very container whose identity is recorded with
\* it, although containers restart and pods are replaced between the reads; its lines are
\* all accounted for, the published spans form a forest with every edge counted, and the
\* service's reservation of commands covers them.
TraceHonest ==
  /\ \A c \in captures : c.source = c.pod /\ c.pod.owner = trace.deployment /\ Accounted(c)
  /\ trace.commands <= MaxCommands
  /\ Forest(graph.nodes)
  /\ graph.resolved + graph.unresolved + graph.roots = Cardinality(graph.nodes)
=============================================================================
