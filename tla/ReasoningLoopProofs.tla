------------------------ MODULE ReasoningLoopProofs ------------------------
(***************************************************************************)
(* Proofs about ReasoningLoop, for any workers, hosts, bindings, requests, *)
(* evidence, costs and limits.                                             *)
(*                                                                         *)
(* A session is a walk along the journal.  What it knows after k receipts  *)
(* is a point, and the next point is a function of the next receipt        *)
(* (After).  The inductive invariant says that there is one history of     *)
(* points, h[0], h[1], ..., behind the journal: the k-th charge was made   *)
(* at h[k-1], and every session, whoever reserved, completed or crashed    *)
(* before, stands at a point of this history.  So a session that finds its *)
(* operation unreserved stands at the end of the journal, and no two       *)
(* sessions ever hold an uncompleted reservation.                          *)
(*                                                                         *)
(* Out of reads, the hosted providers end the run; the local one may go on *)
(* without them and without a receipt.  A refusal is a fact about the      *)
(* charges before it (Refused) and is never taken back, because charges    *)
(* only add up (MoreCharges): a replay that comes to the same reads        *)
(* (Barred) is refused them again and goes on where the history does.      *)
(***************************************************************************)
EXTENDS ReasoningLoop, SequenceTheorems, FiniteSetTheorems, WellFoundedInduction, TLAPS

Point(stage, turn, evidence, preferred, invalid, done, requests) ==
  [stage |-> stage, turn |-> turn, evidence |-> evidence, preferred |-> preferred,
   invalid |-> invalid, done |-> done, requests |-> requests]

\* The point of session s.
At(stage, s) == Point(stage, s.turn, s.evidence, s.preferred, s.invalid, s.done, s.requests)

Turned(turn, evidence, preferred, invalid, done, requests) ==
  IF turn = ModelCalls THEN Point("end", turn, evidence, preferred, invalid, done, requests)
                       ELSE Point("model", turn + 1, evidence, preferred, invalid, done, <<>>)

\* Where the model's answer leads.
Decided(p, answer) ==
  IF answer.status = "INVALID_OUTPUT"
    THEN IF p.invalid = 1 THEN At("end", p)
         ELSE Turned(p.turn, p.evidence, p.preferred, p.invalid + 1, p.done, p.requests)
  ELSE IF answer.status # "OK" \/ answer.reads = <<>> THEN At("end", p)
  ELSE IF Wanted(p.done, answer.reads) = <<>>
    THEN Turned(p.turn, p.evidence, p.preferred, p.invalid, p.done, p.requests)
  ELSE Point("reads", p.turn, p.evidence, p.preferred, p.invalid, p.done,
             Wanted(p.done, answer.reads))

Stopping(results) == {i \in DOMAIN results : results[i].status \in AuthorityFailures \ {"ERROR"}}

\* The next turn of the local provider that goes without the reads it asked for.
Skipped(p) == Turned(p.turn, p.evidence, p.preferred, p.invalid, p.done, p.requests)

\* Where the results of a batch of reads lead.
Accepted(p, results) ==
  IF Stopping(results) # {} THEN At("end", p)
  ELSE IF Len(Merge(p.evidence, Found(results))) > MaxEvidence
    THEN IF Local /\ p.turn < ModelCalls THEN Skipped(p) ELSE At("end", p)
  ELSE Turned(p.turn, Merge(p.evidence, Found(results)), ToSet(Found(results)), p.invalid,
              p.done \cup ToSet(p.requests), p.requests)

After(p, result) == IF p.stage = "model" THEN Decided(p, result) ELSE Accepted(p, result)

Stages == {"model", "reads", "end"}

\* The order in which a walk meets its points.
Rank(p) == 3 * p.turn + (IF p.stage = "model" THEN 0 ELSE IF p.stage = "reads" THEN 1 ELSE 2)

OpAt(p) == <<p.stage, p.turn>>

ReadsCost(batch) == [d \in Dims |-> SumFunction([i \in DOMAIN batch |-> ReadCost[batch[i]][d]])]
BatchCharge(p) == Charge(OpAt(p), p.requests, ReadsCost(p.requests))

\* A ledger with these charges refuses the batch of p to a provider that goes on without it.
Refused(charges, p) ==
  /\ Local /\ p.stage = "reads" /\ p.turn < ModelCalls
  /\ ~WithinLimits(Append(charges, BatchCharge(p)))

\* Where a walk that comes to p, with these charges made, is charged next.
Onward(charges, p) == IF Refused(charges, p) THEN Skipped(p) ELSE p

Upto(s, k) == [i \in 1..k |-> s[i]]

\* What an operation at p is bound to, in a run bound to b.
Work(p, b) ==
  IF p.stage = "model"
    THEN [op |-> OpAt(p), binding |-> b,
          context |-> [evidence |-> p.evidence, preferred |-> p.preferred]]
    ELSE p.requests

IsList(s) == s \in Seq(ToSet(s))

IsRow(r) == r \in [binding : {r.binding}, charges : {r.charges}, completions : {r.completions}]

IsSession(s) ==
  s \in [turn : {s.turn}, evidence : {s.evidence}, preferred : {s.preferred},
         invalid : {s.invalid}, done : {s.done}, receipts : {s.receipts},
         requests : {s.requests}, expected : {s.expected}, observed : {s.observed}]

n == Len(ledger.completions)
m == Len(ledger.charges)

RowInv ==
  /\ IsRow(ledger) /\ IsList(ledger.charges) /\ IsList(ledger.completions)
  /\ m \in {n, n + 1}
  /\ ledger.binding = Nil => ledger = Row(Nil)

\* One history of points is behind the journal.
HistoryInv(h) ==
  /\ h = [k \in 0..n |-> h[k]] /\ h[0] = At("model", NoSession)
  /\ \A k \in 0..n : h[k].stage \in Stages /\ h[k].turn \in Turns
  /\ \A i, j \in 0..n : i < j => Rank(h[i]) < Rank(h[j])
  /\ \A k \in 1..m : /\ h[k-1].stage # "end"
                     /\ ledger.charges[k].op = OpAt(h[k-1])
                     /\ ledger.charges[k].work = Work(h[k-1], ledger.binding)
                     /\ h[k-1].stage = "model" => ledger.charges[k].work \in artifacts
  /\ \A k \in 1..n : LET c == ledger.completions[k] IN
       /\ c.op = OpAt(h[k-1]) /\ c.artifact.op = c.op /\ c.artifact \in artifacts
       /\ c.artifact.work = Work(h[k-1], ledger.binding)
       /\ h[k-1].stage = "model" => c.artifact.result.status # "FINISHED"
       /\ h[k] = Onward(Upto(ledger.charges, k), After(h[k-1], c.artifact.result))

ModelPCs == {"authority", "model", "model_reserve", "model_dispatch", "model_publish",
             "model_complete", "model_restore"}
ReadsPCs == {"reads", "reads_reserve", "reads_dispatch", "reads_publish", "reads_complete",
             "reads_restore"}
Holding == {"model_dispatch", "model_publish", "model_complete", "reads_dispatch",
            "reads_publish", "reads_complete"}

StageOf(label) == IF label \in ModelPCs THEN "model" ELSE IF label \in ReadsPCs THEN "reads" ELSE "end"

\* The session is at the point of the history that its receipts lead to, ...
On(h, w) == h[Len(sess[w].receipts)] = At(StageOf(pc[w]), sess[w])

\* ... or still before it, about to be refused its reads.
Barred(h, w) ==
  LET k == Len(sess[w].receipts)
      p == At("reads", sess[w])
  IN  /\ pc[w] \in {"reads", "reads_reserve"} /\ k \in 1..n
      /\ p = After(h[k-1], ledger.completions[k].artifact.result)
      /\ Refused(Upto(ledger.charges, k), p)

Standing(h, w) ==
  LET s == sess[w]
      k == Len(s.receipts)
  IN  /\ Binding[w] = ledger.binding
      /\ IsList(s.receipts) /\ k \in 0..n
      /\ \A i \in 1..k : s.receipts[i] = ledger.completions[i].artifact
      /\ On(h, w) \/ Barred(h, w)

\* The copy of the row the session read, when the charges were those it knows or more.
CopyInv(w) ==
  LET copy == sess[w].expected.charges IN
  /\ IsList(copy) /\ Len(copy) \in Len(sess[w].receipts)..m
  /\ \A i \in 1..Len(copy) : copy[i] = ledger.charges[i]

Holds(w) ==
  LET s == sess[w]
      op == Op(StageOf(pc[w]), s)
  IN  /\ Len(s.receipts) = n /\ m = n + 1
      /\ pc[w] \in {"model_dispatch", "reads_dispatch"} => dispatched[op] = 0
      /\ pc[w] \in {"model_publish", "model_complete"} => s.observed.status # "FINISHED"
      /\ pc[w] \in {"model_complete", "reads_complete"} => s.expected = ledger
      /\ pc[w] = "model_complete" => ModelReceipt(w) \in artifacts
      /\ pc[w] = "reads_complete" => ReadReceipt(w) \in artifacts

SessionOK(h, w) ==
  /\ IsSession(sess[w])
  /\ pc[w] \in {"idle", "open"} => sess[w] = NoSession
  /\ pc[w] \notin {"idle", "open"} => Standing(h, w)
  /\ pc[w] \in {"model_reserve", "reads_reserve"} =>
       ~Charged(sess[w].expected, Op(StageOf(pc[w]), sess[w]))
  /\ pc[w] = "model_reserve" => Prompt(w) \in artifacts
  /\ pc[w] = "reads_reserve" => CopyInv(w)
  /\ pc[w] \in Holding => Holds(w)
  /\ pc[w] \in {"model_restore", "reads_restore"} => Len(sess[w].receipts) < m
  /\ pc[w] = "final" => n > 0 /\ ledger.completions[n].artifact.result.status = "OK"

SessionInv(h) == \A w \in Workers : SessionOK(h, w)

AloneInv == \A v, w \in Workers : pc[v] \in Holding /\ pc[w] \in Holding => v = w

DispatchInv ==
  /\ dispatched \in [Operations -> Nat]
  /\ \A op \in Operations : dispatched[op] <= 1 /\ (dispatched[op] = 1 => Charged(ledger, op))

AnswerInv(h) ==
  \A a \in answers :
    /\ h[n].stage = "end" /\ n > 0
    /\ a.receipts = [i \in DOMAIN ledger.completions |-> ledger.completions[i].artifact]
    /\ a.reason = "FINISHED" <=> ledger.completions[n].artifact.result.status = "OK"

Tables == pc \in [Workers -> PCs] /\ sess = [w \in Workers |-> sess[w]]

WalkInv(h) ==
  /\ Tables /\ RowInv /\ AloneInv /\ DispatchInv
  /\ HistoryInv(h) /\ SessionInv(h) /\ AnswerInv(h)

IInv == \E h : WalkInv(h)

-----------------------------------------------------------------------------
(* Lists, the ledger's lookups and its outcomes.                           *)

LEMMA ListFacts ==
    ASSUME NEW s, IsList(s)
    PROVE  Len(s) \in Nat /\ DOMAIN s = 1..Len(s)
  BY DEF IsList

LEMMA AppendFacts ==
    ASSUME NEW s, IsList(s), NEW x
    PROVE  /\ IsList(Append(s, x)) /\ Len(Append(s, x)) = Len(s) + 1
           /\ \A i \in 1..Len(s) : Append(s, x)[i] = s[i]
           /\ Append(s, x)[Len(s) + 1] = x
  <1> DEFINE T == ToSet(s) \cup {x}
             t == Append(s, x)
  <1>1. s \in Seq(ToSet(s))
    BY DEF IsList
  <1>2. s \in Seq(T) /\ x \in T
    BY <1>1
  <1> HIDE DEF T
  <1>3. /\ t \in Seq(T) /\ Len(t) = Len(s) + 1 /\ \A i \in 1..Len(s) : t[i] = s[i]
        /\ t[Len(s) + 1] = x
    BY <1>2
  <1>4. DOMAIN t = 1..Len(t) /\ Len(t) \in Nat
    BY <1>3
  <1> HIDE DEF t
  <1>5. \A i \in DOMAIN t : t[i] \in ToSet(t)
    BY DEF ToSet
  <1>6. t = [i \in 1..Len(t) |-> t[i]]
    BY <1>3, <1>4
  <1>7. t \in Seq(ToSet(t))
    BY <1>4, <1>5, <1>6
  <1> QED
    BY <1>3, <1>7 DEF IsList, t

LEMMA PrefixOfAppend ==
    ASSUME NEW s, IsList(s), NEW x
    PROVE  IsPrefix(s, Append(s, x)) /\ IsPrefix(s, s)
  <1> DEFINE t == Append(s, x)
             T == ToSet(s) \cup {x}
  <1>1. s \in Seq(T) /\ x \in T
    BY DEF IsList
  <1> HIDE DEF T
  <1>2. t \in Seq(T) /\ Len(t) = Len(s) + 1 /\ \A i \in 1..Len(s) : t[i] = s[i]
    BY <1>1
  <1> HIDE DEF t
  <1>3. SubSeq(t, 1, Len(s)) = [i \in 1..Len(s) |-> t[i]]
    BY <1>1, <1>2
  <1>4. SubSeq(s, 1, Len(s)) = [i \in 1..Len(s) |-> s[i]]
    BY <1>1
  <1>5. Len(s) \in Nat /\ Len(s) <= Len(t)
    BY <1>1, <1>2
  <1> QED
    BY <1>2, <1>3, <1>4, <1>5 DEF IsPrefix, t

LEMMA ReserveFacts ==
    ASSUME NEW e, NEW c
    PROVE  /\ ReserveOutcome(e, c) = "NEW" =>
                ledger = e /\ ~Charged(e, c.op) /\ WithinLimits(Append(e.charges, c))
           /\ ReserveOutcome(e, c) = "DENIED" => ~WithinLimits(Append(e.charges, c))
           /\ ReserveOutcome(e, c) = "EXISTING" => Charged(e, c.op)
           /\ ReserveOutcome(e, c) \in {"EXISTING", "DENIED", "NEW", "CONFLICT"}
  <1> DEFINE existing == Charged(e, c.op)
             within == WithinLimits(Append(e.charges, c))
             same == ChargeOf(e, c.op) = c
             un == Unchanged(e)
  <1>1. CASE existing /\ same /\ un
    BY <1>1 DEF ReserveOutcome
  <1>2. CASE ~existing /\ ~within
    BY <1>2 DEF ReserveOutcome
  <1>3. CASE ~existing /\ within /\ un
    BY <1>3 DEF ReserveOutcome, Unchanged
  <1>4. CASE /\ ~(existing /\ same /\ un) /\ ~(~existing /\ ~within)
             /\ ~(~existing /\ within /\ un)
    BY <1>4 DEF ReserveOutcome
  <1> QED
    BY <1>1, <1>2, <1>3, <1>4

LEMMA CompleteFacts ==
    ASSUME NEW e, NEW op, NEW receipt
    PROVE  /\ CompleteOutcome(e, op, receipt) = "NEW" => ledger = e
           /\ ledger = e /\ Charged(e, op) /\ ~Settled(e, op) => CompleteOutcome(e, op, receipt) = "NEW"
  <1> DEFINE existing == Settled(e, op)
             same == CompletionOf(e, op) = receipt
             un == Unchanged(e)
             charged == Charged(e, op)
  <1>1. CASE existing /\ same /\ un
    BY <1>1 DEF CompleteOutcome
  <1>2. CASE ~existing /\ charged /\ un
    BY <1>2 DEF CompleteOutcome, Unchanged
  <1>3. CASE ~(existing /\ same /\ un) /\ ~(~existing /\ charged /\ un)
    BY <1>3 DEF CompleteOutcome, Unchanged
  <1> QED
    BY <1>1, <1>2, <1>3

\* The lookups of the operation of a point of the history.
LEMMA Lookups ==
    ASSUME RowInv, NEW h, HistoryInv(h), NEW k \in 0..n
    PROVE  /\ Charged(ledger, OpAt(h[k])) <=> k < m
           /\ Settled(ledger, OpAt(h[k])) <=> k < n
           /\ k < m => ChargeOf(ledger, OpAt(h[k])) = ledger.charges[k + 1]
           /\ k < n => CompletionOf(ledger, OpAt(h[k])) = ledger.completions[k + 1].artifact
  <1> DEFINE c == ledger.charges
             d == ledger.completions
             op == OpAt(h[k])
  <1>1. /\ n \in Nat /\ m \in Nat /\ m <= n + 1 /\ DOMAIN c = 1..m /\ DOMAIN d = 1..n /\ n <= m
    BY ListFacts DEF RowInv, n, m
  <1>2. /\ \A i \in 0..n : h[i].stage \in Stages /\ h[i].turn \in Nat
        /\ \A i, j \in 0..n : i < j => Rank(h[i]) < Rank(h[j])
        /\ \A i \in 1..m : c[i].op = OpAt(h[i-1]) /\ h[i-1].stage # "end"
        /\ \A i \in 1..n : d[i].op = OpAt(h[i-1])
    <2>1. \A t \in Turns : t \in Nat
      BY LoopAssumption DEF Turns
    <2> QED
      BY <2>1 DEF HistoryInv
  <1>3. ASSUME NEW i \in 0..n, OpAt(h[i]) = op PROVE i = k
    <2>1. h[i].stage = h[k].stage /\ h[i].turn = h[k].turn
      BY <1>3 DEF OpAt
    <2>2. Rank(h[i]) = Rank(h[k]) /\ Rank(h[i]) \in Nat
      BY <1>2, <2>1 DEF Rank, Stages
    <2> QED
      BY <1>1, <1>2, <2>2
  <1>4. ASSUME NEW i \in DOMAIN c, c[i].op = op PROVE i = k + 1
    <2>1. i \in 1..m /\ i - 1 \in 0..n
      BY <1>1
    <2>2. OpAt(h[i-1]) = op
      BY <1>2, <1>4, <2>1
    <2>3. i - 1 = k
      BY <1>3, <2>1, <2>2
    <2> QED
      BY <2>1, <2>3
  <1>5. ASSUME NEW i \in DOMAIN d, d[i].op = op PROVE i = k + 1
    <2>1. i \in 1..n /\ i - 1 \in 0..n
      BY <1>1
    <2>2. OpAt(h[i-1]) = op
      BY <1>2, <1>5, <2>1
    <2>3. i - 1 = k
      BY <1>3, <2>1, <2>2
    <2> QED
      BY <2>1, <2>3
  <1>6. k < m => k + 1 \in DOMAIN c /\ c[k + 1].op = op
    BY <1>1, <1>2
  <1>7. k < n => k + 1 \in DOMAIN d /\ d[k + 1].op = op
    BY <1>1, <1>2
  <1>8. /\ \A i \in DOMAIN c : i = k + 1 => k < m
        /\ \A i \in DOMAIN d : i = k + 1 => k < n
    BY <1>1
  <1> HIDE DEF op, c, d
  <1>9. k < m => (CHOOSE i \in DOMAIN c : c[i].op = op) = k + 1
    BY <1>4, <1>6
  <1>10. k < n => (CHOOSE i \in DOMAIN d : d[i].op = op) = k + 1
    BY <1>5, <1>7
  <1> QED
    BY <1>4, <1>5, <1>6, <1>7, <1>8, <1>9, <1>10 DEF Charged, ChargeOf, Settled, CompletionOf, c, d, op

-----------------------------------------------------------------------------
(* The walk: what a session does with a receipt.                           *)

LEMMA AfterFacts ==
    ASSUME NEW p, p.stage \in {"model", "reads"}, p.turn \in Turns, NEW r
    PROVE  After(p, r).stage \in Stages /\ After(p, r).turn \in Turns /\ Rank(p) < Rank(After(p, r))
  <1>0. p.turn \in Nat /\ \A t \in Turns : t # ModelCalls => t + 1 \in Turns
    <2>1. ModelCalls \in Nat
      BY LoopAssumption
    <2> QED
      BY <2>1 DEF Turns
  <1>1. ASSUME NEW q, q.stage = "end", q.turn = p.turn
        PROVE  q.stage \in Stages /\ q.turn \in Turns /\ Rank(p) < Rank(q)
    BY <1>0, <1>1 DEF Stages, Rank
  <1>2. ASSUME NEW q, q.stage = "model", q.turn = p.turn + 1, p.turn # ModelCalls
        PROVE  q.stage \in Stages /\ q.turn \in Turns /\ Rank(p) < Rank(q)
    BY <1>0, <1>2 DEF Stages, Rank
  <1>3. ASSUME NEW q, q.stage = "reads", q.turn = p.turn, p.stage = "model"
        PROVE  q.stage \in Stages /\ q.turn \in Turns /\ Rank(p) < Rank(q)
    BY <1>0, <1>3 DEF Stages, Rank
  <1> DEFINE q == After(p, r)
  <1>4. \/ q.stage = "end" /\ q.turn = p.turn
        \/ q.stage = "model" /\ q.turn = p.turn + 1 /\ p.turn # ModelCalls
        \/ q.stage = "reads" /\ q.turn = p.turn /\ p.stage = "model"
    <2>1. CASE p.stage = "model"
      BY <2>1 DEF After, Decided, Turned, At, Point
    <2>2. CASE p.stage = "reads"
      BY <2>2 DEF After, Accepted, Skipped, Turned, At, Point
    <2> QED
      BY <2>1, <2>2
  <1> HIDE DEF q
  <1>5. q.stage \in Stages /\ q.turn \in Turns /\ Rank(p) < Rank(q)
    BY <1>1, <1>2, <1>3, <1>4
  <1> QED
    BY <1>5 DEF q

LEMMA OnwardFacts ==
    ASSUME NEW p, p.stage \in Stages, p.turn \in Turns, NEW charges, NEW q, q = Onward(charges, p)
    PROVE  /\ q.stage \in Stages /\ q.turn \in Turns /\ Rank(p) <= Rank(q)
           /\ p.stage # "reads" \/ ~Refused(charges, p) => q = p
           /\ q.stage = "reads" => q = p /\ ~Refused(charges, p)
           /\ Refused(charges, p) => Rank(p) < Rank(q) /\ q = Skipped(p) /\ q.stage = "model"
           /\ q.stage = "end" => q = p
  <1>0. p.turn \in Nat /\ ModelCalls \in Nat /\ \A t \in Turns : t < ModelCalls => t + 1 \in Turns
    <2>1. ModelCalls \in Nat
      BY LoopAssumption
    <2> QED
      BY <2>1 DEF Turns
  <1>1. CASE ~Refused(charges, p)
    <2>1. q = p
      BY <1>1 DEF Onward
    <2>2. Rank(p) \in Nat
      BY <1>0 DEF Rank
    <2> QED
      BY <1>1, <2>1, <2>2
  <1>2. CASE Refused(charges, p)
    <2>1. q = Skipped(p) /\ p.stage = "reads" /\ p.turn < ModelCalls
      BY <1>2 DEF Onward, Refused
    <2>2. q.stage = "model" /\ q.turn = p.turn + 1
      BY <1>0, <2>1 DEF Skipped, Turned, Point
    <2>3. q.turn \in Turns
      BY <1>0, <2>1, <2>2
    <2>4. Rank(p) < Rank(q) /\ Rank(p) <= Rank(q)
      BY <1>0, <2>1, <2>2 DEF Rank
    <2> QED
      BY <1>2, <2>1, <2>2, <2>3, <2>4 DEF Stages
  <1> QED
    BY <1>1, <1>2

PcAt(stage) == IF stage = "model" THEN "authority" ELSE IF stage = "reads" THEN "reads" ELSE "final"

Others(w) == \A v \in Workers : v # w => pc'[v] = pc[v] /\ sess'[v] = sess[v]

Left(w) == pc'[w] = "idle" /\ sess'[w] = NoSession /\ Others(w)

\* The session goes on at point p, with these receipts.
GoesOn(w, p, receipts) ==
  /\ pc'[w] = PcAt(p.stage) /\ At(p.stage, sess'[w]) = p /\ sess'[w].receipts = receipts
  /\ IsSession(sess'[w]) /\ Others(w)

TablesNext == pc' \in [Workers -> PCs] /\ sess' = [w \in Workers |-> sess'[w]]

LEMMA ProceedFacts ==
    ASSUME Tables, NEW w \in Workers, NEW label \in PCs, NEW s, Proceed(w, label, s)
    PROVE  pc'[w] = label /\ sess'[w] = s /\ Others(w) /\ TablesNext
  BY DEF Tables, TablesNext, Proceed, Others

LEMMA GotoFacts ==
    ASSUME Tables, NEW w \in Workers, NEW label \in PCs, Goto(w, label)
    PROVE  pc'[w] = label /\ sess' = sess /\ Others(w) /\ TablesNext
  BY DEF Tables, TablesNext, Goto, Others

LEMMA LeaveFacts ==
    ASSUME Tables, NEW w \in Workers, Leave(w)
    PROVE  Left(w) /\ TablesNext
  BY ProceedFacts DEF Leave, Left, PCs

LEMMA ReturnFacts ==
    ASSUME Tables, NEW w \in Workers, NEW reason, NEW receipts, Return(w, reason, receipts)
    PROVE  /\ Left(w) /\ TablesNext
           /\ \/ answers' = answers
              \/ reason \in Decisive /\ answers' = answers \cup {[reason |-> reason, receipts |-> receipts]}
  BY LeaveFacts DEF Return

LEMMA NextTurnFacts ==
    ASSUME Tables, NEW w \in Workers, NEW s, IsSession(s), NextTurn(w, s)
    PROVE  /\ \/ Left(w)
              \/ GoesOn(w, Turned(s.turn, s.evidence, s.preferred, s.invalid, s.done, s.requests), s.receipts)
           /\ TablesNext /\ answers' = answers /\ pc'[w] # "final"
  <1>1. CASE s.turn = ModelCalls
    <2>1. Return(w, "BUDGET_EXHAUSTED", s.receipts) /\ "BUDGET_EXHAUSTED" \notin Decisive
      BY <1>1 DEF NextTurn, Decisive
    <2> QED
      BY <2>1, ReturnFacts DEF Left
  <1>2. CASE s.turn # ModelCalls
    <2> DEFINE t == [s EXCEPT !.turn = @ + 1, !.requests = <<>>]
    <2>1. Proceed(w, "authority", t) /\ answers' = answers /\ "authority" \in PCs
      BY <1>2 DEF NextTurn, PCs
    <2>2. /\ IsSession(t) /\ t.turn = s.turn + 1 /\ t.requests = <<>> /\ t.receipts = s.receipts
          /\ t.evidence = s.evidence /\ t.preferred = s.preferred /\ t.invalid = s.invalid
          /\ t.done = s.done
      BY DEF IsSession
    <2> HIDE DEF t
    <2>3. pc'[w] = "authority" /\ sess'[w] = t /\ Others(w) /\ TablesNext
      BY <2>1, ProceedFacts
    <2> DEFINE q == Turned(s.turn, s.evidence, s.preferred, s.invalid, s.done, s.requests)
    <2>4. q = Point("model", s.turn + 1, s.evidence, s.preferred, s.invalid, s.done, <<>>)
      BY <1>2 DEF Turned
    <2>5. q.stage = "model" /\ At("model", t) = q
      BY <2>2, <2>4 DEF At, Point
    <2> QED
      BY <2>1, <2>2, <2>3, <2>5 DEF GoesOn, PcAt
  <1> QED
    BY <1>1, <1>2

LEMMA DecideFacts ==
    ASSUME Tables, NEW w \in Workers, NEW s, IsSession(s), NEW answer, Decide(w, s, answer)
    PROVE  /\ Left(w) \/ GoesOn(w, Decided(At("model", s), answer), s.receipts)
           /\ TablesNext
           /\ pc'[w] = "final" => answer.status = "OK"
           /\ \/ answers' = answers
              \/ /\ Decided(At("model", s), answer).stage = "end" /\ answer.status # "OK"
                 /\ answers' = answers \cup {[reason |-> answer.status, receipts |-> s.receipts]}
  <1> DEFINE p == At("model", s)
             q == Decided(p, answer)
  <1>0. /\ p.turn = s.turn /\ p.evidence = s.evidence /\ p.preferred = s.preferred
        /\ p.invalid = s.invalid /\ p.done = s.done /\ p.requests = s.requests
        /\ At("end", p).stage = "end" /\ At("end", p) = At("end", s)
    BY DEF At, Point
  <1> HIDE DEF p
  <1>1. CASE answer.status = "INVALID_OUTPUT" /\ s.invalid = 1
    <2>1. Return(w, "INVALID_OUTPUT", s.receipts)
      BY <1>1 DEF Decide
    <2>2. q.stage = "end"
      BY <1>0, <1>1 DEF Decided
    <2> QED
      BY <1>1, <2>1, <2>2, ReturnFacts DEF Left, p
  <1>2. CASE answer.status = "INVALID_OUTPUT" /\ s.invalid # 1
    <2> DEFINE t == [s EXCEPT !.invalid = @ + 1]
    <2>1. NextTurn(w, t)
      BY <1>2 DEF Decide
    <2>2. /\ IsSession(t) /\ t.invalid = s.invalid + 1 /\ t.turn = s.turn /\ t.requests = s.requests
          /\ t.receipts = s.receipts /\ t.evidence = s.evidence /\ t.preferred = s.preferred
          /\ t.done = s.done
      BY DEF IsSession
    <2> HIDE DEF t
    <2>3. q = Turned(t.turn, t.evidence, t.preferred, t.invalid, t.done, t.requests)
      BY <1>0, <1>2, <2>2 DEF Decided
    <2> QED
      BY <1>2, <2>1, <2>2, <2>3, NextTurnFacts DEF p
  <1>3. CASE answer.status \notin {"OK", "INVALID_OUTPUT"}
    <2>1. Return(w, answer.status, s.receipts)
      BY <1>3 DEF Decide
    <2>2. q.stage = "end"
      BY <1>0, <1>3 DEF Decided
    <2> QED
      BY <1>3, <2>1, <2>2, ReturnFacts DEF Left, p
  <1>4. CASE answer.status = "OK" /\ answer.reads = <<>>
    <2>1. Proceed(w, "final", s) /\ answers' = answers /\ "final" \in PCs
      BY <1>4 DEF Decide, PCs
    <2>2. q = At("end", s) /\ q.stage = "end"
      BY <1>0, <1>4 DEF Decided
    <2>3. pc'[w] = "final" /\ sess'[w] = s /\ Others(w) /\ TablesNext
      BY <2>1, ProceedFacts
    <2> QED
      BY <1>4, <2>1, <2>2, <2>3 DEF GoesOn, PcAt, p
  <1>5. CASE answer.status = "OK" /\ answer.reads # <<>> /\ Wanted(s.done, answer.reads) = <<>>
    <2>1. NextTurn(w, s)
      BY <1>5 DEF Decide
    <2>2. q = Turned(s.turn, s.evidence, s.preferred, s.invalid, s.done, s.requests)
      BY <1>0, <1>5 DEF Decided
    <2> QED
      BY <1>5, <2>1, <2>2, NextTurnFacts DEF p
  <1>6. CASE answer.status = "OK" /\ answer.reads # <<>> /\ Wanted(s.done, answer.reads) # <<>>
    <2> DEFINE t == [s EXCEPT !.requests = Wanted(s.done, answer.reads)]
    <2>1. Proceed(w, "reads", t) /\ answers' = answers /\ "reads" \in PCs
      BY <1>6 DEF Decide, PCs
    <2>2. /\ IsSession(t) /\ t.requests = Wanted(s.done, answer.reads) /\ t.turn = s.turn
          /\ t.invalid = s.invalid /\ t.receipts = s.receipts /\ t.evidence = s.evidence
          /\ t.preferred = s.preferred /\ t.done = s.done
      BY DEF IsSession
    <2> HIDE DEF t
    <2>3. q = At("reads", t) /\ q.stage = "reads"
      BY <1>0, <1>6, <2>2 DEF Decided, At, Point
    <2>4. pc'[w] = "reads" /\ sess'[w] = t /\ Others(w) /\ TablesNext
      BY <2>1, ProceedFacts
    <2> QED
      BY <1>6, <2>1, <2>2, <2>3, <2>4 DEF GoesOn, PcAt, p
  <1> QED
    BY <1>1, <1>2, <1>3, <1>4, <1>5, <1>6

LEMMA AcceptFacts ==
    ASSUME Tables, NEW w \in Workers, NEW s, IsSession(s), NEW results, Accept(w, s, results)
    PROVE  /\ Left(w) \/ GoesOn(w, Accepted(At("reads", s), results), s.receipts)
           /\ TablesNext /\ answers' = answers /\ pc'[w] # "final"
  <1> DEFINE p == At("reads", s)
             q == Accepted(p, results)
             items == Found(results)
             merged == Merge(s.evidence, items)
  <1>0. /\ p.turn = s.turn /\ p.evidence = s.evidence /\ p.preferred = s.preferred
        /\ p.invalid = s.invalid /\ p.done = s.done /\ p.requests = s.requests
    BY DEF At, Point
  <1> HIDE DEF p
  <1>1. CASE Stopping(results) # {}
    <2>1. PICK i \in Stopping(results) : Return(w, results[i].status, s.receipts)
      BY <1>1 DEF Accept, Stopping
    <2>2. results[i].status \notin Decisive
      BY DEF Stopping, AuthorityFailures, Decisive
    <2> QED
      BY <2>1, <2>2, ReturnFacts DEF Left
  <1>2. CASE Stopping(results) = {} /\ Len(merged) > MaxEvidence
    <2>1. OutOfReads(w, s)
      BY <1>2 DEF Accept, Stopping
    <2>2. CASE ~(Local /\ s.turn < ModelCalls)
      <3>1. Return(w, "BUDGET_EXHAUSTED", s.receipts) /\ "BUDGET_EXHAUSTED" \notin Decisive
        BY <2>1, <2>2 DEF OutOfReads, Decisive
      <3> QED
        BY <3>1, ReturnFacts DEF Left
    <2>3. CASE Local /\ s.turn < ModelCalls
      <3>1. NextTurn(w, s)
        BY <2>1, <2>3 DEF OutOfReads
      <3>2. q = Turned(s.turn, s.evidence, s.preferred, s.invalid, s.done, s.requests)
        BY <1>0, <1>2, <2>3 DEF Accepted, Skipped
      <3> QED
        BY <3>1, <3>2, NextTurnFacts DEF p
    <2> QED
      BY <2>2, <2>3
  <1>3. CASE Stopping(results) = {} /\ ~(Len(merged) > MaxEvidence)
    <2> DEFINE t == [s EXCEPT !.evidence = merged, !.preferred = ToSet(items),
                              !.done = @ \cup ToSet(s.requests)]
    <2>1. NextTurn(w, t)
      BY <1>3 DEF Accept, Stopping
    <2>2. /\ IsSession(t) /\ t.turn = s.turn /\ t.requests = s.requests /\ t.receipts = s.receipts
          /\ t.evidence = merged /\ t.preferred = ToSet(items) /\ t.invalid = s.invalid
          /\ t.done = s.done \cup ToSet(s.requests)
      BY DEF IsSession
    <2> HIDE DEF t
    <2>3. q = Turned(t.turn, t.evidence, t.preferred, t.invalid, t.done, t.requests)
      BY <1>0, <1>3, <2>2 DEF Accepted
    <2> QED
      BY <2>1, <2>2, <2>3, NextTurnFacts DEF p
  <1> QED
    BY <1>1, <1>2, <1>3

\* A new copy of the row, or a new observation, is no new point.
SamePoint(t, s) ==
  /\ IsSession(t) /\ t.receipts = s.receipts /\ t.turn = s.turn /\ t.evidence = s.evidence
  /\ t.preferred = s.preferred /\ t.requests = s.requests
  /\ \A stage : At(stage, t) = At(stage, s) /\ Op(stage, t) = Op(stage, s)

LEMMA Fields ==
    ASSUME NEW s, IsSession(s), NEW e, NEW o
    PROVE  /\ SamePoint([s EXCEPT !.expected = e], s)
           /\ [s EXCEPT !.expected = e].expected = e
           /\ [s EXCEPT !.expected = e].observed = s.observed
           /\ SamePoint([s EXCEPT !.observed = o], s)
           /\ [s EXCEPT !.observed = o].observed = o
           /\ SamePoint([s EXCEPT !.expected = e, !.observed = o], s)
  <1> DEFINE a == [s EXCEPT !.expected = e]
             b == [s EXCEPT !.observed = o]
             c == [s EXCEPT !.expected = e, !.observed = o]
  <1>1. /\ IsSession(a) /\ a.receipts = s.receipts /\ a.turn = s.turn /\ a.evidence = s.evidence
        /\ a.preferred = s.preferred /\ a.requests = s.requests /\ a.invalid = s.invalid
        /\ a.done = s.done /\ a.expected = e /\ a.observed = s.observed
    BY DEF IsSession
  <1>2. /\ IsSession(b) /\ b.receipts = s.receipts /\ b.turn = s.turn /\ b.evidence = s.evidence
        /\ b.preferred = s.preferred /\ b.requests = s.requests /\ b.invalid = s.invalid
        /\ b.done = s.done /\ b.observed = o
    BY DEF IsSession
  <1>3. /\ IsSession(c) /\ c.receipts = s.receipts /\ c.turn = s.turn /\ c.evidence = s.evidence
        /\ c.preferred = s.preferred /\ c.requests = s.requests /\ c.invalid = s.invalid
        /\ c.done = s.done
    BY DEF IsSession
  <1> HIDE DEF a, b, c
  <1>4. SamePoint(a, s) /\ SamePoint(b, s) /\ SamePoint(c, s)
    BY <1>1, <1>2, <1>3 DEF SamePoint, At, Op
  <1> QED
    BY <1>1, <1>2, <1>4 DEF a, b, c

-----------------------------------------------------------------------------
(* What the compare-and-set alone gives: the journal is append-only, and   *)
(* an operation is the business of one session.                            *)

RowShape == IsRow(ledger) /\ IsList(ledger.charges) /\ IsList(ledger.completions)

Extends ==
  ledger.binding # Nil =>
    /\ ledger'.binding = ledger.binding
    /\ IsPrefix(ledger.charges, ledger'.charges)
    /\ IsPrefix(ledger.completions, ledger'.completions)

Grown ==
  /\ RowShape' /\ Extends
  /\ \A o : Charged(ledger, o) => Charged(ledger, o)'

LEMMA SameGrown ==
    ASSUME RowShape, ledger' = ledger
    PROVE  Grown
  <1>1. IsPrefix(ledger.charges, ledger.charges) /\ IsPrefix(ledger.completions, ledger.completions)
    BY PrefixOfAppend DEF RowShape
  <1> QED
    BY <1>1 DEF Grown, RowShape, Extends, Charged, IsRow, IsList

LEMMA OpenGrown ==
    ASSUME RowShape, NEW b, ledger' = Opened(b)
    PROVE  Grown
  <1>1. CASE ledger = Row(Nil)
    <2>1. /\ ledger.binding = Nil /\ ledger.charges = <<>> /\ ledger' = Row(b)
          /\ ledger'.charges = <<>> /\ ledger'.completions = <<>>
      BY <1>1 DEF Opened, Row
    <2>2. IsRow(ledger')
      BY <2>1 DEF IsRow, Row
    <2>3. IsList(<<>>)
      BY DEF IsList
    <2> QED
      BY <2>1, <2>2, <2>3 DEF Grown, RowShape, Extends, Charged, IsRow, IsList
  <1>2. CASE ledger # Row(Nil)
    BY <1>2, SameGrown DEF Opened
  <1> QED
    BY <1>1, <1>2

LEMMA ReserveGrown ==
    ASSUME RowShape, NEW e, NEW c, Reserve(e, c)
    PROVE  /\ Grown
           /\ ReserveOutcome(e, c) = "NEW" => ~Charged(ledger, c.op) /\ Charged(ledger', c.op)
  <1>1. CASE ReserveOutcome(e, c) # "NEW"
    BY <1>1, SameGrown DEF Reserve
  <1>2. CASE ReserveOutcome(e, c) = "NEW"
    <2> DEFINE cc == Append(ledger.charges, c)
    <2>1. ledger = e /\ ~Charged(ledger, c.op)
      BY <1>2, ReserveFacts
    <2>2. ledger' = [ledger EXCEPT !.charges = cc]
      BY <1>2, <2>1 DEF Reserve
    <2>3. /\ IsList(cc) /\ IsPrefix(ledger.charges, cc) /\ Len(cc) = Len(ledger.charges) + 1
          /\ IsPrefix(ledger.completions, ledger.completions)
          /\ \A i \in 1..Len(ledger.charges) : cc[i] = ledger.charges[i]
          /\ cc[Len(ledger.charges) + 1] = c
      BY AppendFacts, PrefixOfAppend DEF RowShape
    <2>4. /\ Len(ledger.charges) \in Nat /\ DOMAIN ledger.charges = 1..Len(ledger.charges)
          /\ DOMAIN cc = 1..(Len(ledger.charges) + 1)
      BY <2>3, ListFacts DEF RowShape
    <2> HIDE DEF cc
    <2>5. /\ ledger'.binding = ledger.binding /\ ledger'.completions = ledger.completions
          /\ ledger'.charges = cc /\ IsRow(ledger)'
      BY <2>2 DEF RowShape, IsRow
    <2>6. RowShape'
      BY <2>3, <2>5 DEF RowShape, IsList
    <2>7. \A i \in DOMAIN ledger.charges : i \in DOMAIN cc /\ cc[i] = ledger.charges[i]
      BY <2>3, <2>4
    <2>8. Len(ledger.charges) + 1 \in DOMAIN cc
      BY <2>4
    <2>9. (\A o : Charged(ledger, o) => Charged(ledger, o)') /\ Charged(ledger', c.op)
      BY <2>3, <2>5, <2>7, <2>8 DEF Charged
    <2> QED
      BY <2>1, <2>3, <2>5, <2>6, <2>9 DEF Grown, Extends
  <1> QED
    BY <1>1, <1>2

LEMMA CompleteGrown ==
    ASSUME RowShape, NEW e, NEW op, NEW x, Complete(e, op, x)
    PROVE  Grown
  <1>1. CASE CompleteOutcome(e, op, x) # "NEW"
    BY <1>1, SameGrown DEF Complete
  <1>2. CASE CompleteOutcome(e, op, x) = "NEW"
    <2> DEFINE y == [op |-> op, artifact |-> x]
               cc == Append(ledger.completions, y)
    <2>1. ledger = e
      BY <1>2, CompleteFacts
    <2>2. ledger' = [ledger EXCEPT !.completions = cc]
      BY <1>2, <2>1 DEF Complete
    <2> HIDE DEF y
    <2>3. /\ IsList(cc) /\ IsPrefix(ledger.completions, cc)
          /\ IsPrefix(ledger.charges, ledger.charges)
      BY AppendFacts, PrefixOfAppend DEF RowShape
    <2> HIDE DEF cc
    <2>4. /\ ledger'.binding = ledger.binding /\ ledger'.charges = ledger.charges
          /\ ledger'.completions = cc /\ IsRow(ledger)'
      BY <2>2 DEF RowShape, IsRow
    <2>5. RowShape'
      BY <2>3, <2>4 DEF RowShape, IsList
    <2> QED
      BY <2>3, <2>4, <2>5 DEF Grown, Extends, Charged
  <1> QED
    BY <1>1, <1>2

LEMMA NextGrown ==
    ASSUME RowShape, [Next]_vars
    PROVE  Grown
  <1>1. CASE UNCHANGED vars
    BY <1>1, SameGrown DEF vars
  <1>2. CASE Next
    <2>1. PICK w \in Workers : Enter(w) \/ Step(w) \/ Crash(w)
      BY <1>2 DEF Next
    <2>2. CASE Open(w)
      BY <2>2, OpenGrown DEF Open
    <2>3. CASE ModelReserve(w) \/ ReadsReserve(w)
      BY <2>3, ReserveGrown DEF ModelReserve, ReadsReserve
    <2>4. CASE ModelComplete(w) \/ ReadsComplete(w)
      BY <2>4, CompleteGrown DEF ModelComplete, ReadsComplete, Completed
    <2>5. CASE Enter(w) \/ Authority(w) \/ Final(w) \/ Crash(w)
      BY <2>5, SameGrown DEF Enter, Authority, Final, Crash
    <2>6. CASE Model(w) \/ ModelDispatch(w) \/ ModelPublish(w) \/ ModelRestore(w)
      BY <2>6, SameGrown DEF Model, ModelDispatch, Dispatch, ModelPublish, Publish, ModelRestore
    <2>7. CASE Reads(w) \/ ReadsDispatch(w) \/ ReadsPublish(w) \/ ReadsRestore(w)
      BY <2>7, SameGrown DEF Reads, ReadsDispatch, Dispatch, ReadsPublish, Publish, ReadsRestore
    <2> QED
      BY <2>1, <2>2, <2>3, <2>4, <2>5, <2>6, <2>7 DEF Step
  <1> QED
    BY <1>1, <1>2

LEMMA InitShape == Init => RowShape
  <1>1. IsList(<<>>)
    BY DEF IsList
  <1> QED
    BY <1>1 DEF Init, RowShape, Row, IsRow

(* With every provider, a step only appends to the journal, and never      *)
(* rebinds it: uncertain work is never refunded.                           *)
THEOREM NeverRefunded == Spec => JournalOnlyGrows
  <1>1. RowShape /\ [Next]_vars => RowShape'
    BY NextGrown DEF Grown
  <1>2. RowShape /\ [Next]_vars =>
          [ledger.binding # Nil =>
             /\ ledger'.binding = ledger.binding
             /\ IsPrefix(ledger.charges, ledger'.charges)
             /\ IsPrefix(ledger.completions, ledger'.completions)]_vars
    BY NextGrown DEF Grown, Extends
  <1> QED
    BY <1>1, <1>2, InitShape, PTL DEF Spec, JournalOnlyGrows

-----------------------------------------------------------------------------
(* One dispatch per operation.                                             *)

OpOf(w) == Op(StageOf(pc[w]), sess[w])

OwnInv ==
  /\ Tables /\ RowShape /\ DispatchInv
  /\ \A w \in Workers :
       /\ IsSession(sess[w]) /\ sess[w].turn \in Turns
       /\ pc[w] \in Holding => Charged(ledger, OpOf(w))
       /\ pc[w] \in {"model_dispatch", "reads_dispatch"} => dispatched[OpOf(w)] = 0
  /\ \A v, w \in Workers :
       pc[v] \in Holding /\ pc[w] \in Holding /\ OpOf(v) = OpOf(w) => v = w

\* The session is at a place where it holds no reservation.
Free(w) ==
  /\ TablesNext /\ Others(w) /\ pc'[w] \notin Holding
  /\ IsSession(sess'[w]) /\ sess'[w].turn \in Turns

LEMMA LeaveFree ==
    ASSUME Tables, NEW w \in Workers, Leave(w)
    PROVE  Free(w)
  <1>1. IsSession(NoSession) /\ NoSession.turn = 1
    BY DEF IsSession, NoSession
  <1>2. 1 \in Turns
    <2>1. ModelCalls \in Nat /\ ModelCalls > 0
      BY LoopAssumption
    <2> QED
      BY <2>1 DEF Turns
  <1>3. Left(w) /\ TablesNext
    BY LeaveFacts
  <1> QED
    BY <1>1, <1>2, <1>3 DEF Free, Left, Holding

LEMMA NextTurnFree ==
    ASSUME Tables, NEW w \in Workers, NEW s, IsSession(s), s.turn \in Turns, NextTurn(w, s)
    PROVE  Free(w)
  <1>1. CASE s.turn = ModelCalls
    BY <1>1, LeaveFree DEF NextTurn, Return
  <1>2. CASE s.turn # ModelCalls
    <2> DEFINE t == [s EXCEPT !.turn = @ + 1, !.requests = <<>>]
    <2>1. Proceed(w, "authority", t) /\ "authority" \in PCs \ Holding
      BY <1>2 DEF NextTurn, PCs, Holding
    <2>2. IsSession(t) /\ t.turn = s.turn + 1
      BY DEF IsSession
    <2> HIDE DEF t
    <2>3. s.turn + 1 \in Turns
      <3>1. ModelCalls \in Nat
        BY LoopAssumption
      <3> QED
        BY <1>2, <3>1 DEF Turns
    <2> QED
      BY <2>1, <2>2, <2>3, ProceedFacts DEF Free
  <1> QED
    BY <1>1, <1>2

LEMMA OutOfReadsFree ==
    ASSUME Tables, NEW w \in Workers, NEW s, IsSession(s), s.turn \in Turns, OutOfReads(w, s)
    PROVE  Free(w)
  BY NextTurnFree, LeaveFree DEF OutOfReads, Return

LEMMA DecideFree ==
    ASSUME Tables, NEW w \in Workers, NEW s, IsSession(s), s.turn \in Turns, NEW answer,
           Decide(w, s, answer)
    PROVE  Free(w)
  <1>1. CASE answer.status = "INVALID_OUTPUT" /\ s.invalid = 1
    BY <1>1, LeaveFree DEF Decide, Return
  <1>2. CASE answer.status = "INVALID_OUTPUT" /\ s.invalid # 1
    <2> DEFINE t == [s EXCEPT !.invalid = @ + 1]
    <2>1. NextTurn(w, t)
      BY <1>2 DEF Decide
    <2>2. IsSession(t) /\ t.turn = s.turn
      BY DEF IsSession
    <2> HIDE DEF t
    <2> QED
      BY <2>1, <2>2, NextTurnFree
  <1>3. CASE answer.status \notin {"OK", "INVALID_OUTPUT"}
    BY <1>3, LeaveFree DEF Decide, Return
  <1>4. CASE answer.status = "OK" /\ answer.reads = <<>>
    <2>1. Proceed(w, "final", s) /\ "final" \in PCs \ Holding
      BY <1>4 DEF Decide, PCs, Holding
    <2> QED
      BY <2>1, ProceedFacts DEF Free
  <1>5. CASE answer.status = "OK" /\ answer.reads # <<>> /\ Wanted(s.done, answer.reads) = <<>>
    <2>1. NextTurn(w, s)
      BY <1>5 DEF Decide
    <2> QED
      BY <2>1, NextTurnFree
  <1>6. CASE answer.status = "OK" /\ answer.reads # <<>> /\ Wanted(s.done, answer.reads) # <<>>
    <2> DEFINE t == [s EXCEPT !.requests = Wanted(s.done, answer.reads)]
    <2>1. Proceed(w, "reads", t) /\ "reads" \in PCs \ Holding
      BY <1>6 DEF Decide, PCs, Holding
    <2>2. IsSession(t) /\ t.turn = s.turn
      BY DEF IsSession
    <2> HIDE DEF t
    <2> QED
      BY <2>1, <2>2, ProceedFacts DEF Free
  <1> QED
    BY <1>1, <1>2, <1>3, <1>4, <1>5, <1>6

LEMMA AcceptFree ==
    ASSUME Tables, NEW w \in Workers, NEW s, IsSession(s), s.turn \in Turns, NEW results,
           Accept(w, s, results)
    PROVE  Free(w)
  <1> DEFINE items == Found(results)
             merged == Merge(s.evidence, items)
  <1>1. CASE Stopping(results) # {}
    <2>1. PICK i \in Stopping(results) : Return(w, results[i].status, s.receipts)
      BY <1>1 DEF Accept, Stopping
    <2> QED
      BY <2>1, LeaveFree DEF Return
  <1>2. CASE Stopping(results) = {} /\ Len(merged) > MaxEvidence
    <2>1. OutOfReads(w, s)
      BY <1>2 DEF Accept, Stopping
    <2> QED
      BY <2>1, OutOfReadsFree
  <1>3. CASE Stopping(results) = {} /\ ~(Len(merged) > MaxEvidence)
    <2> DEFINE t == [s EXCEPT !.evidence = merged, !.preferred = ToSet(items),
                              !.done = @ \cup ToSet(s.requests)]
    <2>1. NextTurn(w, t)
      BY <1>3 DEF Accept, Stopping
    <2>2. IsSession(t) /\ t.turn = s.turn
      BY DEF IsSession
    <2> HIDE DEF t
    <2> QED
      BY <2>1, <2>2, NextTurnFree
  <1> QED
    BY <1>1, <1>2, <1>3

\* A step that ends outside a reservation takes nothing from the others.
LEMMA FreeStep ==
    ASSUME OwnInv, NEW w \in Workers, Free(w), Grown, dispatched' = dispatched
    PROVE  OwnInv'
  <1>1. Tables' /\ RowShape'
    BY DEF Free, TablesNext, Tables, Grown
  <1>2. DispatchInv'
    BY DEF OwnInv, DispatchInv, Grown
  <1>3. \A v \in Workers : v # w => pc'[v] = pc[v] /\ sess'[v] = sess[v] /\ OpOf(v)' = OpOf(v)
    BY DEF Free, Others, OpOf, Op, StageOf
  <1>4. \A v \in Workers : v # w =>
          /\ IsSession(sess[v])' /\ sess'[v].turn \in Turns
          /\ pc'[v] \in Holding => Charged(ledger, OpOf(v))'
          /\ pc'[v] \in {"model_dispatch", "reads_dispatch"} => dispatched'[OpOf(v)'] = 0
    <2> SUFFICES ASSUME NEW v \in Workers, v # w
                 PROVE  /\ IsSession(sess[v])' /\ sess'[v].turn \in Turns
                        /\ pc'[v] \in Holding => Charged(ledger, OpOf(v))'
                        /\ pc'[v] \in {"model_dispatch", "reads_dispatch"} => dispatched'[OpOf(v)'] = 0
      OBVIOUS
    <2>1. pc'[v] = pc[v] /\ sess'[v] = sess[v] /\ OpOf(v)' = OpOf(v)
      BY <1>3
    <2>2. /\ IsSession(sess[v]) /\ sess[v].turn \in Turns
          /\ pc[v] \in Holding => Charged(ledger, OpOf(v))
          /\ pc[v] \in {"model_dispatch", "reads_dispatch"} => dispatched[OpOf(v)] = 0
      BY DEF OwnInv
    <2>3. Charged(ledger, OpOf(v)) => Charged(ledger, OpOf(v))'
      BY <2>1 DEF Grown, Charged
    <2> QED
      BY <2>1, <2>2, <2>3 DEF IsSession
  <1>5. \A v, u \in Workers :
          pc'[v] \in Holding /\ pc'[u] \in Holding /\ OpOf(v)' = OpOf(u)' => v = u
    BY <1>3 DEF OwnInv, Free
  <1>6. /\ IsSession(sess[w])' /\ sess'[w].turn \in Turns /\ pc'[w] \notin Holding
        /\ pc'[w] \notin {"model_dispatch", "reads_dispatch"}
    BY DEF Free, IsSession, Holding
  <1> QED
    BY <1>1, <1>2, <1>4, <1>5, <1>6 DEF OwnInv

\* A step into or within a reservation: taken anew, or kept by its holder.
LEMMA HoldStep ==
    ASSUME OwnInv, NEW w \in Workers, TablesNext, Others(w), Grown,
           IsSession(sess'[w]), sess'[w].turn \in Turns, DispatchInv',
           \A o \in Operations : o # OpOf(w)' => dispatched'[o] = dispatched[o],
           pc'[w] \in Holding, OpOf(w)' = OpOf(w), Charged(ledger, OpOf(w))',
           pc[w] \in Holding \/ ~Charged(ledger, OpOf(w)),
           pc'[w] \in {"model_dispatch", "reads_dispatch"} => dispatched'[OpOf(w)'] = 0
    PROVE  OwnInv'
  <1>1. Tables' /\ RowShape'
    BY DEF TablesNext, Tables, Grown
  <1>2. \A v \in Workers : v # w => pc'[v] = pc[v] /\ sess'[v] = sess[v] /\ OpOf(v)' = OpOf(v)
    BY DEF Others, OpOf, Op, StageOf
  <1>3. \A v \in Workers : v # w /\ pc[v] \in Holding => OpOf(v) # OpOf(w)
    BY DEF OwnInv
  <1>4. ASSUME NEW v \in Workers, v # w
        PROVE  /\ IsSession(sess[v])' /\ sess'[v].turn \in Turns
               /\ pc'[v] \in Holding => Charged(ledger, OpOf(v))'
               /\ pc'[v] \in {"model_dispatch", "reads_dispatch"} => dispatched'[OpOf(v)'] = 0
    <2>1. pc'[v] = pc[v] /\ sess'[v] = sess[v] /\ OpOf(v)' = OpOf(v)
      BY <1>2, <1>4
    <2>2. /\ IsSession(sess[v]) /\ sess[v].turn \in Turns
          /\ pc[v] \in Holding => Charged(ledger, OpOf(v))
          /\ pc[v] \in {"model_dispatch", "reads_dispatch"} => dispatched[OpOf(v)] = 0
      BY DEF OwnInv
    <2>3. Charged(ledger, OpOf(v)) => Charged(ledger, OpOf(v))'
      BY <2>1 DEF Grown, Charged
    <2>4. pc[v] \in {"model_dispatch", "reads_dispatch"} => OpOf(v) \in Operations
      BY <2>2 DEF OpOf, Op, StageOf, ModelPCs, ReadsPCs, Operations, Kinds
    <2>5. pc[v] \in {"model_dispatch", "reads_dispatch"} => OpOf(v) # OpOf(w)
      BY <1>3, <1>4 DEF Holding
    <2> QED
      BY <2>1, <2>2, <2>3, <2>4, <2>5 DEF IsSession
  <1>5. \A v, u \in Workers :
          pc'[v] \in Holding /\ pc'[u] \in Holding /\ OpOf(v)' = OpOf(u)' => v = u
    BY <1>2, <1>3 DEF OwnInv
  <1>6. IsSession(sess[w])'
    BY DEF IsSession
  <1> QED
    BY <1>1, <1>4, <1>5, <1>6 DEF OwnInv

LEMMA TakeStep ==
    ASSUME OwnInv, NEW w \in Workers, NEW label \in {"model_dispatch", "reads_dispatch"},
           pc[w] \in {"model_reserve", "reads_reserve"}, StageOf(label) = StageOf(pc[w]),
           Goto(w, label), Grown, dispatched' = dispatched,
           ~Charged(ledger, OpOf(w)), Charged(ledger, OpOf(w))'
    PROVE  OwnInv'
  <1>1. label \in PCs /\ label \in Holding
    BY DEF PCs, Holding
  <1>2. pc'[w] = label /\ sess' = sess /\ Others(w) /\ TablesNext
    BY <1>1, GotoFacts DEF OwnInv
  <1>3. IsSession(sess'[w]) /\ sess'[w].turn \in Turns
    BY <1>2 DEF OwnInv
  <1>4. OpOf(w)' = OpOf(w)
    BY <1>2 DEF OpOf, Op, StageOf
  <1>5. OpOf(w) \in Operations
    BY <1>2, <1>3 DEF OpOf, Op, StageOf, ModelPCs, ReadsPCs, Operations, Kinds
  <1>6. DispatchInv'
    BY DEF OwnInv, DispatchInv, Grown
  <1>7. dispatched[OpOf(w)] = 0
    <2>1. /\ dispatched \in [Operations -> Nat]
          /\ \A o \in Operations : dispatched[o] <= 1 /\ (dispatched[o] = 1 => Charged(ledger, o))
      BY DEF OwnInv, DispatchInv
    <2>2. dispatched[OpOf(w)] \in Nat /\ dispatched[OpOf(w)] <= 1 /\ dispatched[OpOf(w)] # 1
      BY <1>5, <2>1
    <2> QED
      BY <2>2
  <1> QED
    BY <1>1, <1>2, <1>3, <1>4, <1>6, <1>7, HoldStep

LEMMA AskStep ==
    ASSUME OwnInv, NEW w \in Workers, NEW kind \in Kinds, NEW label \in Holding,
           pc[w] \in {"model_dispatch", "reads_dispatch"}, StageOf(pc[w]) = kind,
           label \notin {"model_dispatch", "reads_dispatch"}, StageOf(label) = kind,
           NEW results, Dispatch(w, kind, label, results)
    PROVE  OwnInv'
  <1> DEFINE s == sess[w]
             op == Op(kind, s)
  <1>1. PICK r \in results : Proceed(w, label, [s EXCEPT !.observed = r])
    BY DEF Dispatch
  <1>2. dispatched' = [dispatched EXCEPT ![op] = @ + 1] /\ ledger' = ledger
    BY DEF Dispatch
  <1> DEFINE t == [s EXCEPT !.observed = r]
  <1>3. IsSession(s) /\ s.turn \in Turns /\ Charged(ledger, OpOf(w)) /\ dispatched[OpOf(w)] = 0
    BY DEF OwnInv, Holding
  <1>4. SamePoint(t, s)
    BY <1>3, Fields
  <1> HIDE DEF t
  <1>5. pc'[w] = label /\ sess'[w] = t /\ Others(w) /\ TablesNext
    <2>1. label \in PCs
      BY DEF PCs, Holding
    <2> QED
      BY <1>1, <2>1, ProceedFacts DEF OwnInv, t
  <1>6. OpOf(w) = op /\ OpOf(w)' = op /\ op \in Operations
    BY <1>3, <1>4, <1>5 DEF OpOf, Op, StageOf, SamePoint, Operations
  <1>7. Grown
    BY <1>2, SameGrown DEF OwnInv
  <1>8. DispatchInv' /\ \A o \in Operations : o # op => dispatched'[o] = dispatched[o]
    <2>1. /\ dispatched \in [Operations -> Nat]
          /\ \A o \in Operations : dispatched[o] <= 1 /\ (dispatched[o] = 1 => Charged(ledger, o))
      BY DEF OwnInv, DispatchInv
    <2>2. dispatched' \in [Operations -> Nat]
      BY <1>2, <1>6, <2>1
    <2>3. dispatched'[op] = 1 /\ \A o \in Operations : o # op => dispatched'[o] = dispatched[o]
      BY <1>2, <1>3, <1>6, <2>1
    <2>4. \A o : Charged(ledger, o)' <=> Charged(ledger, o)
      BY <1>2 DEF Charged
    <2> QED
      BY <1>3, <1>6, <2>1, <2>2, <2>3, <2>4 DEF DispatchInv
  <1>9. IsSession(sess'[w]) /\ sess'[w].turn \in Turns
    BY <1>3, <1>4, <1>5 DEF SamePoint
  <1>10. Charged(ledger, OpOf(w))'
    BY <1>2, <1>3, <1>6 DEF Charged
  <1>11. pc[w] \in Holding
    BY DEF Holding
  <1> QED
    BY <1>5, <1>6, <1>7, <1>8, <1>9, <1>10, <1>11, HoldStep

LEMMA PublishStep ==
    ASSUME OwnInv, NEW w \in Workers, NEW label \in Holding, pc[w] \in Holding,
           label \notin {"model_dispatch", "reads_dispatch"}, StageOf(label) = StageOf(pc[w]),
           NEW receipt, Publish(w, label, receipt)
    PROVE  OwnInv'
  <1> DEFINE s == sess[w]
             t == [s EXCEPT !.expected = ledger]
  <1>1. Proceed(w, label, t) /\ dispatched' = dispatched /\ ledger' = ledger
    BY DEF Publish
  <1>2. IsSession(s) /\ s.turn \in Turns /\ Charged(ledger, OpOf(w))
    BY DEF OwnInv
  <1>3. SamePoint(t, s)
    BY <1>2, Fields
  <1> HIDE DEF t
  <1>4. pc'[w] = label /\ sess'[w] = t /\ Others(w) /\ TablesNext
    <2>1. label \in PCs
      BY DEF PCs, Holding
    <2> QED
      BY <1>1, <2>1, ProceedFacts DEF OwnInv
  <1>5. OpOf(w)' = OpOf(w)
    BY <1>3, <1>4 DEF OpOf, Op, StageOf, SamePoint
  <1>6. Grown
    BY <1>1, SameGrown DEF OwnInv
  <1>7. DispatchInv'
    BY <1>1, <1>6 DEF OwnInv, DispatchInv, Grown
  <1>8. IsSession(sess'[w]) /\ sess'[w].turn \in Turns
    BY <1>2, <1>3, <1>4 DEF SamePoint
  <1>9. Charged(ledger, OpOf(w))'
    BY <1>1, <1>2, <1>5 DEF Charged
  <1> QED
    BY <1>1, <1>4, <1>5, <1>6, <1>7, <1>8, <1>9, HoldStep

LEMMA GotoFree ==
    ASSUME OwnInv, NEW w \in Workers, NEW label \in PCs \ Holding, Goto(w, label)
    PROVE  Free(w)
  BY GotoFacts DEF OwnInv, Free

LEMMA ExpectFree ==
    ASSUME OwnInv, NEW w \in Workers, NEW label \in PCs \ Holding, NEW t,
           SamePoint(t, sess[w]), Proceed(w, label, t)
    PROVE  Free(w)
  <1>1. pc'[w] = label /\ sess'[w] = t /\ Others(w) /\ TablesNext
    BY ProceedFacts DEF OwnInv
  <1>2. IsSession(t) /\ t.turn \in Turns
    BY DEF OwnInv, SamePoint
  <1> QED
    BY <1>1, <1>2 DEF Free

LEMMA RestoreFree ==
    ASSUME OwnInv, NEW w \in Workers, ModelRestore(w) \/ ReadsRestore(w)
    PROVE  Free(w) /\ ledger' = ledger /\ dispatched' = dispatched
  <1>1. ledger' = ledger /\ dispatched' = dispatched
    BY DEF ModelRestore, ReadsRestore
  <1>2. ASSUME NEW x PROVE /\ IsSession([sess[w] EXCEPT !.receipts = Append(@, x)])
                           /\ [sess[w] EXCEPT !.receipts = Append(@, x)].turn \in Turns
    <2>1. IsSession(sess[w]) /\ sess[w].turn \in Turns
      BY DEF OwnInv
    <2> QED
      BY <2>1 DEF IsSession
  <1>3. CASE Leave(w)
    BY <1>1, <1>3, LeaveFree DEF OwnInv
  <1>4. CASE ModelRestore(w)
    <2> DEFINE op == Op("model", sess[w])
               x == CompletionOf(ledger, op)
               t == [sess[w] EXCEPT !.receipts = Append(@, x)]
    <2>1. Leave(w) \/ Decide(w, t, x.result)
      <3>1. CASE ~PromptMatches(w)
        BY <1>4, <3>1 DEF ModelRestore, Raise
      <3>2. CASE PromptMatches(w) /\ ~Settled(ledger, op)
        BY <1>4, <3>2 DEF ModelRestore, Return
      <3>3. CASE PromptMatches(w) /\ Settled(ledger, op) /\ ~ReceiptMatches(x, op, Prompt(w))
        BY <1>4, <3>3 DEF ModelRestore, Raise
      <3>4. CASE PromptMatches(w) /\ Settled(ledger, op) /\ ReceiptMatches(x, op, Prompt(w))
        BY <1>4, <3>4 DEF ModelRestore
      <3> QED
        BY <3>1, <3>2, <3>3, <3>4
    <2>2. IsSession(t) /\ t.turn \in Turns /\ Tables
      BY <1>2 DEF OwnInv
    <2> HIDE DEF t, x
    <2> QED
      BY <1>1, <1>3, <2>1, <2>2, DecideFree
  <1>5. CASE ReadsRestore(w)
    <2> DEFINE op == Op("reads", sess[w])
               x == CompletionOf(ledger, op)
               t == [sess[w] EXCEPT !.receipts = Append(@, x)]
    <2>1. Leave(w) \/ Accept(w, t, x.result)
      <3>1. CASE ~Settled(ledger, op)
        BY <1>5, <3>1 DEF ReadsRestore, Return
      <3>2. CASE Settled(ledger, op) /\ ~ReceiptMatches(x, op, sess[w].requests)
        BY <1>5, <3>2 DEF ReadsRestore, Raise
      <3>3. CASE Settled(ledger, op) /\ ReceiptMatches(x, op, sess[w].requests)
        BY <1>5, <3>3 DEF ReadsRestore
      <3> QED
        BY <3>1, <3>2, <3>3
    <2>2. IsSession(t) /\ t.turn \in Turns /\ Tables
      BY <1>2 DEF OwnInv
    <2> HIDE DEF t, x
    <2> QED
      BY <1>1, <1>3, <2>1, <2>2, AcceptFree
  <1> QED
    BY <1>4, <1>5

LEMMA PrepareFree ==
    ASSUME OwnInv, NEW w \in Workers, Model(w) \/ Reads(w)
    PROVE  Free(w) /\ ledger' = ledger /\ dispatched' = dispatched
  <1>1. ledger' = ledger /\ dispatched' = dispatched
    BY DEF Model, Reads
  <1> DEFINE t == [sess[w] EXCEPT !.expected = ledger]
  <1>2. SamePoint(t, sess[w])
    BY Fields DEF OwnInv
  <1>3. {"model_reserve", "model_restore", "reads_reserve", "reads_restore"} \subseteq PCs \ Holding
    BY DEF PCs, Holding
  <1>4. CASE Model(w)
    <2> DEFINE op == Op("model", sess[w])
    <2>1. CASE Charged(ledger, op)
      BY <1>1, <1>3, <1>4, <2>1, GotoFree DEF Model
    <2>2. CASE ~Charged(ledger, op) /\ Len(sess[w].evidence) > PromptItems
      BY <1>1, <1>4, <2>2, LeaveFree DEF Model, Return, OwnInv
    <2>3. CASE ~Charged(ledger, op) /\ ~(Len(sess[w].evidence) > PromptItems)
      <3>1. Proceed(w, "model_reserve", t)
        BY <1>4, <2>3 DEF Model
      <3> HIDE DEF t
      <3> QED
        BY <1>1, <1>2, <1>3, <3>1, ExpectFree
    <2> QED
      BY <2>1, <2>2, <2>3
  <1>5. CASE Reads(w)
    <2> DEFINE op == Op("reads", sess[w])
    <2>1. CASE ~Charged(ledger, op)
      <3>1. Proceed(w, "reads_reserve", t)
        BY <1>5, <2>1 DEF Reads
      <3> HIDE DEF t
      <3> QED
        BY <1>1, <1>2, <1>3, <3>1, ExpectFree
    <2>2. CASE Charged(ledger, op) /\ ChargeOf(ledger, op).work # sess[w].requests
      BY <1>1, <1>5, <2>2, LeaveFree DEF Reads, Raise, OwnInv
    <2>3. CASE Charged(ledger, op) /\ ~(ChargeOf(ledger, op).work # sess[w].requests)
      BY <1>1, <1>3, <1>5, <2>3, GotoFree DEF Reads
    <2> QED
      BY <2>1, <2>2, <2>3
  <1> QED
    BY <1>4, <1>5

LEMMA ReserveOwn ==
    ASSUME OwnInv, NEW w \in Workers, NEW label \in {"model_dispatch", "reads_dispatch"},
           pc[w] \in {"model_reserve", "reads_reserve"}, StageOf(label) = StageOf(pc[w]),
           NEW c, c.op = OpOf(w), Reserve(sess[w].expected, c), dispatched' = dispatched,
           ReserveOutcome(sess[w].expected, c) = "NEW" => Goto(w, label),
           ReserveOutcome(sess[w].expected, c) # "NEW" => Free(w)
    PROVE  OwnInv'
  <1> DEFINE outcome == ReserveOutcome(sess[w].expected, c)
  <1>1. Grown /\ (outcome = "NEW" => ~Charged(ledger, c.op) /\ Charged(ledger', c.op))
    BY ReserveGrown DEF OwnInv
  <1>2. CASE outcome = "NEW"
    <2>1. pc'[w] = label /\ sess' = sess
      BY <1>2, GotoFacts DEF PCs, OwnInv
    <2>2. OpOf(w)' = OpOf(w)
      BY <2>1 DEF OpOf, Op, StageOf
    <2>3. ~Charged(ledger, OpOf(w)) /\ Charged(ledger, OpOf(w))'
      BY <1>1, <1>2, <2>2 DEF Charged
    <2> QED
      BY <1>1, <1>2, <2>3, TakeStep
  <1>3. CASE outcome # "NEW"
    BY <1>1, <1>3, FreeStep
  <1> QED
    BY <1>2, <1>3

LEMMA ModelReserveOwn ==
    ASSUME OwnInv, NEW w \in Workers, ModelReserve(w)
    PROVE  OwnInv'
  <1>1. PICK c : c = ModelCharge(w)
    OBVIOUS
  <1> DEFINE outcome == ReserveOutcome(sess[w].expected, c)
  <1>2. /\ pc[w] = "model_reserve" /\ dispatched' = dispatched /\ Reserve(sess[w].expected, c)
        /\ StageOf(pc[w]) = "model" /\ StageOf("model_dispatch") = "model"
    BY <1>1 DEF ModelReserve, StageOf, ModelPCs
  <1>3. c.op = OpOf(w)
    BY <1>1, <1>2 DEF ModelCharge, Charge, OpOf
  <1>4. CASE outcome = "NEW"
    <2>1. Goto(w, "model_dispatch")
      BY <1>1, <1>4 DEF ModelReserve
    <2> QED
      BY <1>2, <1>3, <1>4, <2>1, ReserveOwn
  <1>5. CASE outcome # "NEW"
    <2>1. outcome = "CONFLICT" => Leave(w)
      BY <1>1 DEF ModelReserve, Raise
    <2>2. outcome # "CONFLICT" => Leave(w)
      BY <1>1, <1>5 DEF ModelReserve, Return
    <2>3. Leave(w)
      BY <2>1, <2>2
    <2>4. Free(w)
      BY <2>3, LeaveFree DEF OwnInv
    <2> QED
      BY <1>2, <1>3, <1>5, <2>4, ReserveOwn
  <1> QED
    BY <1>4, <1>5

LEMMA ReadsReserveOwn ==
    ASSUME OwnInv, NEW w \in Workers, ReadsReserve(w)
    PROVE  OwnInv'
  <1>1. PICK c : c = ReadCharge(w)
    OBVIOUS
  <1> DEFINE outcome == ReserveOutcome(sess[w].expected, c)
             t == [sess[w] EXCEPT !.expected = Nil]
  <1>2. /\ pc[w] = "reads_reserve" /\ dispatched' = dispatched /\ Reserve(sess[w].expected, c)
        /\ StageOf(pc[w]) = "reads" /\ StageOf("reads_dispatch") = "reads"
    BY <1>1 DEF ReadsReserve, StageOf, ModelPCs, ReadsPCs
  <1>3. c.op = OpOf(w)
    BY <1>1, <1>2 DEF ReadCharge, Charge, OpOf
  <1>4. CASE outcome = "NEW"
    <2>1. Goto(w, "reads_dispatch")
      BY <1>1, <1>4 DEF ReadsReserve
    <2> QED
      BY <1>2, <1>3, <1>4, <2>1, ReserveOwn
  <1>5. CASE outcome # "NEW"
    <2>1. outcome = "CONFLICT" => Leave(w)
      BY <1>1 DEF ReadsReserve, Raise
    <2>2. outcome # "CONFLICT" => OutOfReads(w, t)
      BY <1>1, <1>5 DEF ReadsReserve
    <2>3. IsSession(t) /\ t.turn \in Turns /\ Tables
      <3>1. IsSession(sess[w]) /\ sess[w].turn \in Turns /\ Tables
        BY DEF OwnInv
      <3> QED
        BY <3>1 DEF IsSession
    <2> HIDE DEF t
    <2>4. Free(w)
      BY <2>1, <2>2, <2>3, LeaveFree, OutOfReadsFree
    <2> QED
      BY <1>2, <1>3, <1>5, <2>4, ReserveOwn
  <1> QED
    BY <1>4, <1>5

LEMMA CompletedOwn ==
    ASSUME OwnInv, NEW w \in Workers, ModelComplete(w) \/ ReadsComplete(w)
    PROVE  Free(w) /\ Grown /\ dispatched' = dispatched
  <1>1. PICK kind, next, x :
          /\ kind \in Kinds
          /\ next \in {"model_restore", "reads_restore"}
          /\ Completed(w, kind, next, x)
    BY DEF ModelComplete, ReadsComplete, Kinds
  <1>2. Grown /\ dispatched' = dispatched
    BY <1>1, CompleteGrown DEF Completed, OwnInv
  <1> DEFINE t == [sess[w] EXCEPT !.expected = Nil, !.observed = Nil]
  <1>3. Raise(w) \/ Proceed(w, next, t)
    BY <1>1 DEF Completed
  <1>4. SamePoint(t, sess[w]) /\ Tables /\ next \in PCs \ Holding
    BY <1>1, Fields DEF OwnInv, PCs, Holding
  <1> HIDE DEF t
  <1> QED
    BY <1>2, <1>3, <1>4, ExpectFree, LeaveFree DEF Raise

LEMMA NextOwn ==
    ASSUME OwnInv, [Next]_vars
    PROVE  OwnInv'
  <1>1. RowShape /\ Tables
    BY DEF OwnInv
  <1>2. CASE UNCHANGED vars
    <2>1. /\ ledger' = ledger /\ pc' = pc /\ sess' = sess /\ dispatched' = dispatched
      BY <1>2 DEF vars
    <2>2. Tables' /\ RowShape' /\ DispatchInv'
      BY <1>1, <2>1 DEF OwnInv, Tables, RowShape, DispatchInv, Charged, IsRow, IsList
    <2>3. \A w \in Workers : OpOf(w)' = OpOf(w)
      BY <2>1 DEF OpOf, Op, StageOf
    <2> QED
      BY <2>1, <2>2, <2>3 DEF OwnInv, Charged, IsSession
  <1>3. CASE Next
    <2>1. PICK w \in Workers : Enter(w) \/ Step(w) \/ Crash(w)
      BY <1>3 DEF Next
    <2>2. CASE Enter(w) \/ Open(w) \/ Authority(w) \/ Final(w) \/ Crash(w)
      <3>1. {"open", "authority", "model"} \subseteq PCs \ Holding
        BY DEF PCs, Holding
      <3>2. Free(w)
        <4>1. CASE Enter(w)
          BY <3>1, <4>1, GotoFree DEF Enter
        <4>2. CASE Open(w)
          <5>1. Goto(w, "authority") \/ Raise(w)
            BY <4>2 DEF Open
          <5> QED
            BY <1>1, <3>1, <5>1, GotoFree, LeaveFree DEF Raise
        <4>3. CASE Authority(w)
          BY <1>1, <3>1, <4>3, GotoFree, LeaveFree DEF Authority, Return
        <4>4. CASE Final(w)
          BY <1>1, <4>4, LeaveFree DEF Final, Return
        <4>5. CASE Crash(w)
          BY <1>1, <4>5, LeaveFree DEF Crash, Raise
        <4> QED
          BY <2>2, <4>1, <4>2, <4>3, <4>4, <4>5
      <3>3. dispatched' = dispatched
        BY <2>2 DEF Enter, Open, Authority, Final, Crash
      <3> QED
        BY <1>1, <3>2, <3>3, NextGrown, FreeStep
    <2>3. CASE Model(w) \/ Reads(w) \/ ModelRestore(w) \/ ReadsRestore(w)
      BY <1>1, <2>3, PrepareFree, RestoreFree, SameGrown, FreeStep
    <2>4. CASE ModelReserve(w) \/ ReadsReserve(w)
      BY <2>4, ModelReserveOwn, ReadsReserveOwn
    <2>5. CASE ModelComplete(w) \/ ReadsComplete(w)
      BY <2>5, CompletedOwn, FreeStep
    <2>6. CASE ModelDispatch(w)
      <3>1. /\ pc[w] = "model_dispatch" /\ Dispatch(w, "model", "model_publish", Observations)
            /\ StageOf(pc[w]) = "model" /\ StageOf("model_publish") = "model"
            /\ "model_publish" \in Holding /\ "model" \in Kinds
        BY <2>6 DEF ModelDispatch, StageOf, ModelPCs, Holding, Kinds
      <3> QED
        BY <3>1, AskStep
    <2>7. CASE ReadsDispatch(w)
      <3>1. PICK r : r = Results(sess[w].requests)
        OBVIOUS
      <3>2. /\ pc[w] = "reads_dispatch" /\ Dispatch(w, "reads", "reads_publish", r)
            /\ StageOf(pc[w]) = "reads" /\ StageOf("reads_publish") = "reads"
            /\ "reads_publish" \in Holding /\ "reads" \in Kinds
        BY <2>7, <3>1 DEF ReadsDispatch, StageOf, ModelPCs, ReadsPCs, Holding, Kinds
      <3> QED
        BY <3>2, AskStep
    <2>8. CASE ModelPublish(w)
      <3>1. PICK x : x = ModelReceipt(w)
        OBVIOUS
      <3>2. /\ pc[w] = "model_publish" /\ Publish(w, "model_complete", x)
            /\ StageOf(pc[w]) = "model" /\ StageOf("model_complete") = "model"
            /\ "model_complete" \in Holding /\ "model_publish" \in Holding
        BY <2>8, <3>1 DEF ModelPublish, StageOf, ModelPCs, Holding
      <3> QED
        BY <3>2, PublishStep
    <2>9. CASE ReadsPublish(w)
      <3>1. PICK x : x = ReadReceipt(w)
        OBVIOUS
      <3>2. /\ pc[w] = "reads_publish" /\ Publish(w, "reads_complete", x)
            /\ StageOf(pc[w]) = "reads" /\ StageOf("reads_complete") = "reads"
            /\ "reads_complete" \in Holding /\ "reads_publish" \in Holding
        BY <2>9, <3>1 DEF ReadsPublish, StageOf, ModelPCs, ReadsPCs, Holding
      <3> QED
        BY <3>2, PublishStep
    <2> QED
      BY <2>1, <2>2, <2>3, <2>4, <2>5, <2>6, <2>7, <2>8, <2>9 DEF Step
  <1> QED
    BY <1>2, <1>3

LEMMA InitOwn == Init => OwnInv
  <1> SUFFICES ASSUME Init PROVE OwnInv
    OBVIOUS
  <1>1. Tables /\ DispatchInv /\ RowShape
    BY InitShape DEF Init, Tables, DispatchInv, PCs
  <1>2. IsSession(NoSession) /\ NoSession.turn \in Turns
    <2>1. ModelCalls \in Nat /\ ModelCalls > 0
      BY LoopAssumption
    <2> QED
      BY <2>1 DEF IsSession, NoSession, Turns
  <1> QED
    BY <1>1, <1>2 DEF Init, OwnInv, Holding

-----------------------------------------------------------------------------
(* Sums.  Induction over the naturals, from the least element of a set,    *)
(* gives the recursion of SumFunction and FoldLeft for every finite domain.*)

LEMMA Least ==
  ASSUME NEW T \in SUBSET Nat, T # {}
  PROVE  \E x \in T : \A y \in T : x <= y
  <1> DEFINE R == {ss \in Nat \X Nat : ss[1] < ss[2]}
  <1>1. IsWellFoundedOn(R, Nat)
    BY NatLessThanWellFounded, Zenon DEF OpToRel
  <1>2. PICK x \in T : \A y \in T : ~(<<y, x>> \in R)
    BY <1>1, WFMin, Zenon
  <1>3. ASSUME NEW y \in T PROVE x <= y
    <2>1. ~(<<y, x>> \in R)
      BY <1>2
    <2>2. x \in Nat /\ y \in Nat /\ <<y, x>> \in Nat \X Nat
      OBVIOUS
    <2>3. ~(y < x)
      BY <2>1, <2>2
    <2> QED
      BY <2>2, <2>3
  <1> QED
    BY <1>3

LEMMA Induct ==
  ASSUME NEW T \in SUBSET Nat, 0 \in T, \A k \in T : k + 1 \in T
  PROVE  T = Nat
  <1> SUFFICES ASSUME Nat \ T # {} PROVE FALSE
    OBVIOUS
  <1>1. PICK k \in Nat \ T : \A x \in Nat \ T : k <= x
    BY Least
  <1>2. k - 1 \in Nat /\ k - 1 \notin Nat \ T
    BY <1>1
  <1> QED
    BY <1>1, <1>2

\* The element the sum takes next, and what it makes of a set.
Picked(T) == CHOOSE x \in T : TRUE
Summed(fun, f, T) == IF T = {} THEN 0 ELSE fun[Picked(T)] + f[T \ {Picked(T)}]
Sums(fun, f, S) == f = [T \in SUBSET S |-> Summed(fun, f, T)]

LEMMA Smaller ==
  ASSUME NEW S, IsFiniteSet(S), NEW T \in SUBSET S, NEW x \in T, NEW k \in Nat, Cardinality(T) = k + 1
  PROVE  Cardinality(T \ {x}) = k /\ T \ {x} \in SUBSET S
  <1>1. IsFiniteSet(T)
    BY FS_Subset
  <1>2. Cardinality(T \ {x}) = Cardinality(T) - 1
    BY <1>1, FS_RemoveElement
  <1> QED
    BY <1>2

LEMMA SizeOf ==
  ASSUME NEW S, IsFiniteSet(S), NEW T \in SUBSET S
  PROVE  Cardinality(T) \in Nat /\ (Cardinality(T) = 0 <=> T = {})
  <1>1. IsFiniteSet(T)
    BY FS_Subset
  <1> QED
    BY <1>1, FS_CardinalityType, FS_EmptySet

LEMMA SumsExists ==
  ASSUME NEW fun, NEW S, IsFiniteSet(S) PROVE \E f : Sums(fun, f, S)
  <1> DEFINE Fits(f, k) == \A T \in SUBSET S : Cardinality(T) <= k => f[T] = Summed(fun, f, T)
             K == {k \in Nat : \E f : Fits(f, k)}
  <1>1. 0 \in K
    <2> DEFINE f == [T \in SUBSET S |-> 0]
    <2>1. ASSUME NEW T \in SUBSET S, Cardinality(T) <= 0 PROVE f[T] = Summed(fun, f, T)
      <3>1. T = {}
        BY <2>1, SizeOf
      <3> QED
        BY <3>1 DEF Summed
    <2>2. Fits(f, 0)
      BY <2>1
    <2> QED
      BY <2>2
  <1>2. ASSUME NEW k \in K PROVE k + 1 \in K
    <2>1. PICK f : Fits(f, k)
      OBVIOUS
    <2> DEFINE g == [T \in SUBSET S |-> Summed(fun, f, T)]
    <2>2. ASSUME NEW T \in SUBSET S, Cardinality(T) <= k + 1 PROVE g[T] = Summed(fun, g, T)
      <3>1. CASE T = {}
        BY <3>1 DEF Summed
      <3>2. CASE T # {}
        <4> DEFINE x == Picked(T)
        <4>1. x \in T
          BY <3>2, Zenon DEF Picked
        <4>2. IsFiniteSet(T) /\ Cardinality(T) \in Nat
          BY FS_Subset, SizeOf
        <4>3. Cardinality(T \ {x}) <= k /\ T \ {x} \in SUBSET S
          <5>1. Cardinality(T \ {x}) = Cardinality(T) - 1
            BY <4>1, <4>2, FS_RemoveElement
          <5>2. k \in Nat
            OBVIOUS
          <5> QED
            BY <2>2, <4>2, <5>1, <5>2
        <4>4. f[T \ {x}] = Summed(fun, f, T \ {x})
          BY <2>1, <4>3
        <4>5. g[T \ {x}] = f[T \ {x}]
          BY <4>3, <4>4
        <4>6. g[T] = Summed(fun, f, T)
          OBVIOUS
        <4> HIDE DEF g, x
        <4> QED
          BY <4>5, <4>6, Zenon DEF Summed, x
      <3> QED
        BY <3>1, <3>2
    <2> HIDE DEF g
    <2>3. Fits(g, k + 1)
      BY <2>2
    <2> QED
      BY <2>3
  <1>3. K = Nat
    BY <1>1, <1>2, Induct
  <1>4. Cardinality(S) \in Nat
    BY FS_CardinalityType
  <1>5. PICK f : Fits(f, Cardinality(S))
    BY <1>3, <1>4
  <1> DEFINE g == [T \in SUBSET S |-> f[T]]
  <1>6. ASSUME NEW T \in SUBSET S PROVE g[T] = Summed(fun, g, T)
    <2>1. Cardinality(T) <= Cardinality(S)
      BY FS_Subset
    <2>2. g[T] = Summed(fun, f, T)
      BY <1>5, <2>1
    <2>3. CASE T = {}
      BY <2>2, <2>3 DEF Summed
    <2>4. CASE T # {}
      <3>1. T \ {Picked(T)} \in SUBSET S
        OBVIOUS
      <3>2. g[T \ {Picked(T)}] = f[T \ {Picked(T)}]
        BY <3>1
      <3> HIDE DEF g
      <3> QED
        BY <2>2, <2>4, <3>2, Zenon DEF Summed
    <2> QED
      BY <2>3, <2>4
  <1>7. g = [T \in SUBSET S |-> g[T]]
    BY Zenon
  <1> HIDE DEF g
  <1>8. g = [T \in SUBSET S |-> Summed(fun, g, T)]
    BY <1>6, <1>7, Zenon
  <1> QED
    BY <1>8, Zenon DEF Sums

LEMMA SumIs ==
  ASSUME NEW fun, NEW S, DOMAIN fun = S, IsFiniteSet(S)
  PROVE  \E f : Sums(fun, f, S) /\ SumFunction(fun) = f[S]
  <1> DEFINE f == CHOOSE f : Sums(fun, f, S)
  <1>1. SumFunction(fun) = (CHOOSE h : h = [T \in SUBSET DOMAIN fun |->
           IF T = {} THEN 0 ELSE fun[CHOOSE x \in T : TRUE] + h[T \ {CHOOSE x \in T : TRUE}]])[DOMAIN fun]
    BY Zenon DEF SumFunction, SumFunctionOnSet, FoldFunctionOnSet, MapThenFoldSet
  <1>2. SumFunction(fun) = f[S]
    BY <1>1, Zenon DEF Sums, Summed, Picked
  <1>3. Sums(fun, f, S)
    BY SumsExists, Zenon
  <1> QED
    BY <1>2, <1>3

LEMMA SumsNat ==
  ASSUME NEW S, IsFiniteSet(S), NEW fun \in [S -> Nat], NEW f, Sums(fun, f, S)
  PROVE  f[{}] = 0 /\ \A T \in SUBSET S : f[T] \in Nat
  <1>1. \A T \in SUBSET S : f[T] = Summed(fun, f, T)
    BY Zenon DEF Sums
  <1>2. f[{}] = 0
    BY <1>1 DEF Summed
  <1> DEFINE K == {k \in Nat : \A T \in SUBSET S : Cardinality(T) = k => f[T] \in Nat}
  <1>3. 0 \in K
    BY <1>2, SizeOf
  <1>4. ASSUME NEW k \in K PROVE k + 1 \in K
    <2>1. ASSUME NEW T \in SUBSET S, Cardinality(T) = k + 1 PROVE f[T] \in Nat
      <3>1. T # {}
        BY <2>1, SizeOf
      <3>2. Picked(T) \in T
        BY <3>1, Zenon DEF Picked
      <3>3. f[T \ {Picked(T)}] \in Nat
        BY <2>1, <3>2, Smaller
      <3>4. f[T] = fun[Picked(T)] + f[T \ {Picked(T)}]
        BY <1>1, <3>1, Zenon DEF Summed
      <3>5. fun[Picked(T)] \in Nat
        BY <3>2
      <3> QED
        BY <3>3, <3>4, <3>5
    <2> QED
      BY <2>1
  <1>5. K = Nat
    BY <1>3, <1>4, Induct
  <1> QED
    BY <1>2, <1>5, SizeOf

\* The order in which a sum takes its elements does not matter.
LEMMA SumsRemove ==
  ASSUME NEW S, IsFiniteSet(S), NEW fun \in [S -> Nat], NEW f, Sums(fun, f, S)
  PROVE  \A T \in SUBSET S : \A x \in T : f[T] = fun[x] + f[T \ {x}]
  <1>1. \A T \in SUBSET S : f[T] = Summed(fun, f, T)
    BY Zenon DEF Sums
  <1>2. \A T \in SUBSET S : f[T] \in Nat
    BY SumsNat
  <1> DEFINE K == {k \in Nat : \A T \in SUBSET S : Cardinality(T) = k =>
                                 \A x \in T : f[T] = fun[x] + f[T \ {x}]}
  <1>3. 0 \in K
    BY SizeOf
  <1>4. ASSUME NEW k \in K PROVE k + 1 \in K
    <2>1. ASSUME NEW T \in SUBSET S, Cardinality(T) = k + 1, NEW x \in T
          PROVE  f[T] = fun[x] + f[T \ {x}]
      <3> DEFINE y == Picked(T)
      <3>1. y \in T
        BY Zenon DEF Picked
      <3>2. f[T] = fun[y] + f[T \ {y}]
        BY <1>1, Zenon DEF Summed
      <3> HIDE DEF y
      <3>3. CASE x = y
        BY <3>2, <3>3
      <3>4. CASE x # y
        <4>1. /\ Cardinality(T \ {x}) = k /\ T \ {x} \in SUBSET S
              /\ Cardinality(T \ {y}) = k /\ T \ {y} \in SUBSET S
          BY <2>1, <3>1, Smaller
        <4>2. y \in T \ {x} /\ x \in T \ {y}
          BY <3>1, <3>4
        <4>3. f[T \ {x}] = fun[y] + f[(T \ {x}) \ {y}]
          BY <4>1, <4>2
        <4>4. f[T \ {y}] = fun[x] + f[(T \ {y}) \ {x}]
          BY <4>1, <4>2
        <4>5. (T \ {x}) \ {y} = (T \ {y}) \ {x} /\ (T \ {x}) \ {y} \in SUBSET S
          OBVIOUS
        <4>6. fun[x] \in Nat /\ fun[y] \in Nat /\ f[(T \ {x}) \ {y}] \in Nat
          BY <1>2, <3>1, <4>5
        <4>7. \A a, b, r \in Nat : b + (a + r) = a + (b + r)
          OBVIOUS
        <4>8. f[T] = fun[y] + (fun[x] + f[(T \ {x}) \ {y}])
          BY <3>2, <4>4, <4>5, Zenon
        <4>9. fun[x] + f[T \ {x}] = fun[x] + (fun[y] + f[(T \ {x}) \ {y}])
          BY <4>3, Zenon
        <4> QED
          BY <4>6, <4>7, <4>8, <4>9, Zenon
      <3> QED
        BY <3>3, <3>4
    <2> QED
      BY <2>1
  <1>5. K = Nat
    BY <1>3, <1>4, Induct
  <1> QED
    BY <1>5, SizeOf

LEMMA SumNat ==
  ASSUME NEW S, IsFiniteSet(S), NEW fun \in [S -> Nat]
  PROVE  SumFunction(fun) \in Nat /\ (S = {} => SumFunction(fun) = 0)
  <1>1. PICK f : Sums(fun, f, S) /\ SumFunction(fun) = f[S]
    BY SumIs
  <1>2. f[{}] = 0 /\ \A T \in SUBSET S : f[T] \in Nat
    BY <1>1, SumsNat
  <1>3. S \in SUBSET S
    OBVIOUS
  <1> QED
    BY <1>1, <1>2, <1>3

\* A sum is within another whose terms its own are mapped to, each to one of its own.
LEMMA SumWithin ==
  ASSUME NEW S, IsFiniteSet(S), NEW fun \in [S -> Nat],
         NEW V, IsFiniteSet(V), NEW gun \in [V -> Nat],
         NEW at \in [S -> V], \A x, y \in S : at[x] = at[y] => x = y,
         \A x \in S : fun[x] = gun[at[x]]
  PROVE  SumFunction(fun) <= SumFunction(gun)
  <1>1. PICK f : Sums(fun, f, S) /\ SumFunction(fun) = f[S]
    BY SumIs
  <1>2. PICK g : Sums(gun, g, V) /\ SumFunction(gun) = g[V]
    BY SumIs
  <1>3. /\ f[{}] = 0 /\ \A T \in SUBSET S : f[T] \in Nat
        /\ \A T \in SUBSET S : \A x \in T : f[T] = fun[x] + f[T \ {x}]
    BY <1>1, SumsNat, SumsRemove
  <1>4. /\ \A U \in SUBSET V : g[U] \in Nat
        /\ \A U \in SUBSET V : \A x \in U : g[U] = gun[x] + g[U \ {x}]
    BY <1>2, SumsNat, SumsRemove
  <1> DEFINE K == {k \in Nat : \A T \in SUBSET S : \A U \in SUBSET V :
                     Cardinality(T) = k /\ (\A x \in T : at[x] \in U) => f[T] <= g[U]}
  <1>5. 0 \in K
    <2>1. ASSUME NEW T \in SUBSET S, NEW U \in SUBSET V, Cardinality(T) = 0 PROVE f[T] <= g[U]
      <3>1. f[T] = 0
        BY <1>3, <2>1, SizeOf
      <3> QED
        BY <1>4, <3>1
    <2> QED
      BY <2>1
  <1>6. ASSUME NEW k \in K PROVE k + 1 \in K
    <2>1. ASSUME NEW T \in SUBSET S, NEW U \in SUBSET V, Cardinality(T) = k + 1, \A x \in T : at[x] \in U
          PROVE  f[T] <= g[U]
      <3>1. PICK x \in T : TRUE
        BY <2>1, SizeOf
      <3>2. Cardinality(T \ {x}) = k /\ T \ {x} \in SUBSET S /\ U \ {at[x]} \in SUBSET V
        BY <2>1, Smaller
      <3>3. \A y \in T \ {x} : at[y] \in U \ {at[x]}
        BY <2>1
      <3>4. f[T \ {x}] <= g[U \ {at[x]}]
        BY <3>2, <3>3
      <3>5. f[T] = fun[x] + f[T \ {x}] /\ g[U] = gun[at[x]] + g[U \ {at[x]}]
        BY <1>3, <1>4, <2>1
      <3>6. fun[x] = gun[at[x]] /\ fun[x] \in Nat /\ f[T \ {x}] \in Nat /\ g[U \ {at[x]}] \in Nat
        BY <1>3, <1>4, <3>2
      <3> QED
        BY <3>4, <3>5, <3>6
    <2> QED
      BY <2>1
  <1>7. K = Nat
    BY <1>5, <1>6, Induct
  <1>8. Cardinality(S) \in Nat /\ S \in SUBSET S /\ V \in SUBSET V /\ \A x \in S : at[x] \in V
    BY SizeOf
  <1>9. f[S] <= g[V]
    BY <1>7, <1>8
  <1> QED
    BY <1>1, <1>2, <1>9


-----------------------------------------------------------------------------
(* request_reads keeps a batch a batch of requests.                        *)

LEMMA Greatest ==
  ASSUME NEW k \in Nat, NEW T \in SUBSET (1..k), T # {}
  PROVE  Max(T) \in T /\ \A t \in T : t <= Max(T)
  <1> DEFINE U == {u \in Nat : \A t \in T : t <= u}
  <1>1. k \in U /\ U \in SUBSET Nat
    OBVIOUS
  <1>2. PICK u \in U : \A v \in U : u <= v
    BY <1>1, Least
  <1>3. u \in T
    <2>1. SUFFICES ASSUME u \notin T PROVE FALSE
      OBVIOUS
    <2>2. PICK t \in T : TRUE
      OBVIOUS
    <2>3. u \in Nat /\ u >= 1 /\ \A x \in T : x <= u - 1
      BY <2>1, <2>2
    <2>4. u - 1 \in U
      BY <2>3
    <2> QED
      BY <1>2, <2>3, <2>4
  <1>4. \E x \in T : \A t \in T : x >= t
    BY <1>2, <1>3
  <1>5. Max(T) \in T /\ \A t \in T : Max(T) >= t
    BY <1>4 DEF Max
  <1> QED
    BY <1>5

LEMMA GreatestIs ==
  ASSUME NEW k \in Nat, NEW T \in SUBSET (1..k), NEW x \in T, \A t \in T : t <= x
  PROVE  Max(T) = x
  <1>1. Max(T) \in T /\ \A t \in T : t <= Max(T)
    BY Greatest
  <1>2. Max(T) \in 1..k /\ x \in 1..k
    BY <1>1
  <1> QED
    BY <1>1, <1>2

Keep(done, kept, r) == IF Local /\ r \in done THEN kept ELSE Append(kept, r)
Kept(done, reads, f, T) == IF T = {} THEN <<>> ELSE Keep(done, f[T \ {Max(T)}], reads[Max(T)])
Keeps(done, reads, f, k) == f = [T \in SUBSET (1..k) |-> Kept(done, reads, f, T)]

LEMMA KeepsExists ==
  ASSUME NEW done, NEW reads, NEW size \in Nat PROVE \E f : Keeps(done, reads, f, size)
  <1> DEFINE K == {k \in Nat : \E f : Keeps(done, reads, f, k)}
  <1>1. 0 \in K
    <2> DEFINE f == [T \in SUBSET (1..0) |-> <<>>]
    <2>1. \A T \in SUBSET (1..0) : T = {}
      OBVIOUS
    <2>2. f = [T \in SUBSET (1..0) |-> Kept(done, reads, f, T)]
      BY <2>1 DEF Kept
    <2>3. \E g : Keeps(done, reads, g, 0)
      BY <2>2 DEF Keeps
    <2> QED
      BY <2>3
  <1>2. ASSUME NEW k \in K PROVE k + 1 \in K
    <2>1. k \in Nat
      OBVIOUS
    <2>2. PICK f : Keeps(done, reads, f, k)
      OBVIOUS
    <2>3. f = [T \in SUBSET (1..k) |-> Kept(done, reads, f, T)]
      BY <2>2 DEF Keeps
    <2> DEFINE g == [T \in SUBSET (1..(k + 1)) |->
                       IF k + 1 \in T THEN Keep(done, f[T \ {k + 1}], reads[k + 1]) ELSE f[T]]
    <2>4. ASSUME NEW T \in SUBSET (1..(k + 1)) PROVE g[T] = Kept(done, reads, g, T)
      <3>1. CASE k + 1 \in T
        <4>1. k + 1 \in Nat /\ \A t \in T : t <= k + 1
          BY <2>1
        <4>2. Max(T) = k + 1
          BY <3>1, <4>1, GreatestIs
        <4>3. T \ {k + 1} \in SUBSET (1..(k + 1)) /\ k + 1 \notin T \ {k + 1}
          BY <2>1
        <4>4. g[T \ {k + 1}] = f[T \ {k + 1}]
          BY <4>3
        <4>5. g[T] = Keep(done, f[T \ {k + 1}], reads[k + 1])
          BY <3>1
        <4> HIDE DEF g
        <4> QED
          BY <3>1, <4>2, <4>4, <4>5, Zenon DEF Kept
      <3>2. CASE k + 1 \notin T
        <4>1. T \in SUBSET (1..k)
          BY <2>1, <3>2
        <4>2. g[T] = f[T] /\ f[T] = Kept(done, reads, f, T)
          BY <2>3, <3>2, <4>1, Zenon
        <4>3. CASE T = {}
          BY <4>2, <4>3, Zenon DEF Kept
        <4>4. CASE T # {}
          <5>1. Max(T) \in T
            BY <2>1, <4>1, <4>4, Greatest
          <5>2. T \ {Max(T)} \in SUBSET (1..(k + 1)) /\ k + 1 \notin T \ {Max(T)}
            BY <3>2
          <5>3. g[T \ {Max(T)}] = f[T \ {Max(T)}]
            BY <5>2
          <5> HIDE DEF g
          <5> QED
            BY <4>2, <4>4, <5>3, Zenon DEF Kept
        <4> QED
          BY <4>3, <4>4
      <3> QED
        BY <3>1, <3>2
    <2>5. g = [T \in SUBSET (1..(k + 1)) |-> g[T]]
      BY Zenon
    <2> HIDE DEF g
    <2>6. g = [T \in SUBSET (1..(k + 1)) |-> Kept(done, reads, g, T)]
      BY <2>4, <2>5, Zenon
    <2>7. Keeps(done, reads, g, k + 1)
      BY <2>6, Zenon DEF Keeps
    <2> QED
      BY <2>1, <2>7
  <1>3. K = Nat
    BY <1>1, <1>2, Induct
  <1> QED
    BY <1>3

LEMMA WantedRequests ==
  ASSUME NEW done, NEW reads \in Seq(Requests)
  PROVE  Wanted(done, reads) \in Seq(Requests)
  <1> DEFINE size == Len(reads)
             f == CHOOSE f : Keeps(done, reads, f, size)
  <1>1. size \in Nat /\ DOMAIN reads = 1..size /\ \A i \in 1..size : reads[i] \in Requests
    BY LenProperties, ElementOfSeq
  <1> HIDE DEF size
  <1>2. Wanted(done, reads) = (CHOOSE h : h = [T \in SUBSET DOMAIN reads |->
           IF T = {} THEN <<>>
           ELSE IF Local /\ reads[Max(T)] \in done THEN h[T \ {Max(T)}]
                ELSE Append(h[T \ {Max(T)}], reads[Max(T)])])[DOMAIN reads]
    BY Zenon DEF Wanted, FoldLeft, MapThenFoldSet
  <1>3. Wanted(done, reads) = f[1..size]
    BY <1>1, <1>2, Zenon DEF Keeps, Kept, Keep
  <1>4. Keeps(done, reads, f, size)
    BY <1>1, KeepsExists, Zenon
  <1> HIDE DEF f
  <1>5. ASSUME NEW T \in SUBSET (1..size) PROVE f[T] = Kept(done, reads, f, T)
    BY <1>4, Zenon DEF Keeps
  <1> DEFINE K == {k \in Nat : k <= size => f[1..k] \in Seq(Requests)}
  <1>6. 0 \in K
    <2>1. 1..0 = {} /\ 1..0 \in SUBSET (1..size)
      OBVIOUS
    <2>2. f[1..0] = <<>>
      BY <1>5, <2>1, Zenon DEF Kept
    <2>3. <<>> \in Seq(Requests) /\ 0 \in Nat
      OBVIOUS
    <2> QED
      BY <2>2, <2>3, Zenon
  <1>7. ASSUME NEW k \in K PROVE k + 1 \in K
    <2>1. SUFFICES ASSUME k + 1 <= size PROVE f[1..(k + 1)] \in Seq(Requests)
      OBVIOUS
    <2>2. /\ k + 1 \in Nat /\ 1..(k + 1) \in SUBSET (1..size) /\ k + 1 \in 1..(k + 1)
          /\ \A t \in 1..(k + 1) : t <= k + 1
      BY <1>1, <2>1
    <2>3. Max(1..(k + 1)) = k + 1
      BY <2>2, GreatestIs
    <2>4. (1..(k + 1)) \ {k + 1} = 1..k /\ 1..(k + 1) # {}
      <3>1. k \in Nat
        OBVIOUS
      <3>2. \A i \in Int : i \in (1..(k + 1)) \ {k + 1} <=> i \in 1..k
        BY <3>1
      <3> HIDE DEF K
      <3> QED
        BY <2>2, <3>1, <3>2
    <2>5. f[1..(k + 1)] = Keep(done, f[1..k], reads[k + 1])
      BY <1>5, <2>2, <2>3, <2>4, Zenon DEF Kept
    <2>6. f[1..k] \in Seq(Requests)
      BY <1>1, <2>1
    <2>7. reads[k + 1] \in Requests
      BY <1>1, <2>1
    <2>8. Append(f[1..k], reads[k + 1]) \in Seq(Requests)
      BY <2>6, <2>7, AppendProperties
    <2> QED
      BY <2>5, <2>6, <2>8 DEF Keep
  <1>8. K = Nat
    BY <1>6, <1>7, Induct
  <1> QED
    BY <1>1, <1>3, <1>8

LEMMA ObservedReads ==
  ASSUME NEW answer \in Observations, NEW done
  PROVE  Wanted(done, answer.reads) \in Seq(Requests)
  <1>1. \A s, r : Observation(s, r).reads = r
    BY DEF Observation
  <1>2. answer.reads = <<>> \/ answer.reads \in Batches
    BY <1>1 DEF Observations
  <1>3. <<>> \in Seq(Requests)
    OBVIOUS
  <1>4. ASSUME NEW b \in Batches PROVE b \in Seq(Requests)
    <2>1. b \in SeqOf(Requests, 2)
      BY DEF Batches
    <2>2. PICK k \in 0..2 : b \in [1..k -> Requests]
      BY <2>1 DEF SeqOf
    <2> QED
      BY <2>2
  <1> QED
    BY <1>2, <1>3, <1>4, WantedRequests


-----------------------------------------------------------------------------
(* What was dispatched stays within the allowances.                        *)

Answered == {"model_publish", "model_complete"}

JournalInv ==
  /\ \A i \in DOMAIN ledger.completions :
       ledger.completions[i].op[1] = "model" => ledger.completions[i].artifact.result \in Observations
  /\ \A i \in DOMAIN ledger.charges : ledger.charges[i].cost \in [Dims -> Nat]
  /\ WithinLimits(ledger.charges)

SpendInv ==
  /\ \A w \in Workers :
       /\ sess[w].requests \in Seq(Requests)
       /\ pc[w] \in Answered => sess[w].observed \in Observations
  /\ JournalInv

\* The session moves to a place where it has no answer of the model in hand.
Moves(w) == Others(w) /\ sess'[w].requests \in Seq(Requests) /\ pc'[w] \notin Answered

LEMMA MovesStep ==
    ASSUME SpendInv, NEW w \in Workers, Moves(w), JournalInv'
    PROVE  SpendInv'
  BY DEF SpendInv, Moves, Others

LEMMA SameJournal ==
    ASSUME JournalInv, ledger' = ledger
    PROVE  JournalInv'
  <1>1. WithinLimits(ledger.charges)'
    BY DEF JournalInv, WithinLimits, Total
  <1> QED
    BY <1>1 DEF JournalInv

LEMMA LeaveMoves ==
    ASSUME Tables, NEW w \in Workers, Leave(w)
    PROVE  Moves(w)
  <1>1. Left(w)
    BY LeaveFacts
  <1>2. NoSession.requests \in Seq(Requests)
    BY DEF NoSession
  <1> QED
    BY <1>1, <1>2 DEF Left, Moves, Answered

LEMMA GotoMoves ==
    ASSUME OwnInv, SpendInv, NEW w \in Workers, NEW label \in PCs \ Answered, Goto(w, label)
    PROVE  Moves(w)
  BY GotoFacts DEF OwnInv, SpendInv, Moves

LEMMA ProceedMoves ==
    ASSUME Tables, NEW w \in Workers, NEW label \in PCs \ Answered, NEW t,
           t.requests \in Seq(Requests), Proceed(w, label, t)
    PROVE  Moves(w)
  BY ProceedFacts DEF Moves

LEMMA NextTurnMoves ==
    ASSUME Tables, NEW w \in Workers, NEW s, IsSession(s), s.requests \in Seq(Requests), NextTurn(w, s)
    PROVE  Moves(w)
  <1>1. CASE s.turn = ModelCalls
    BY <1>1, LeaveMoves DEF NextTurn, Return
  <1>2. CASE s.turn # ModelCalls
    <2> DEFINE t == [s EXCEPT !.turn = @ + 1, !.requests = <<>>]
    <2>1. Proceed(w, "authority", t) /\ "authority" \in PCs \ Answered
      BY <1>2 DEF NextTurn, PCs, Answered
    <2>2. t.requests = <<>>
      BY DEF IsSession
    <2>3. t.requests \in Seq(Requests)
      BY <2>2
    <2> HIDE DEF t
    <2> QED
      BY <2>1, <2>3, ProceedMoves
  <1> QED
    BY <1>1, <1>2

LEMMA OutOfReadsMoves ==
    ASSUME Tables, NEW w \in Workers, NEW s, IsSession(s), s.requests \in Seq(Requests), OutOfReads(w, s)
    PROVE  Moves(w)
  BY NextTurnMoves, LeaveMoves DEF OutOfReads, Return

LEMMA DecideMoves ==
    ASSUME Tables, NEW w \in Workers, NEW s, IsSession(s), s.requests \in Seq(Requests),
           NEW answer \in Observations, Decide(w, s, answer)
    PROVE  Moves(w)
  <1>1. CASE answer.status = "INVALID_OUTPUT" /\ s.invalid = 1
    BY <1>1, LeaveMoves DEF Decide, Return
  <1>2. CASE answer.status = "INVALID_OUTPUT" /\ s.invalid # 1
    <2> DEFINE t == [s EXCEPT !.invalid = @ + 1]
    <2>1. NextTurn(w, t)
      BY <1>2 DEF Decide
    <2>2. IsSession(t) /\ t.requests = s.requests
      BY DEF IsSession
    <2> HIDE DEF t
    <2> QED
      BY <2>1, <2>2, NextTurnMoves
  <1>3. CASE answer.status \notin {"OK", "INVALID_OUTPUT"}
    BY <1>3, LeaveMoves DEF Decide, Return
  <1>4. CASE answer.status = "OK" /\ answer.reads = <<>>
    <2>1. Proceed(w, "final", s) /\ "final" \in PCs \ Answered
      BY <1>4 DEF Decide, PCs, Answered
    <2> QED
      BY <2>1, ProceedMoves
  <1>5. CASE answer.status = "OK" /\ answer.reads # <<>> /\ Wanted(s.done, answer.reads) = <<>>
    <2>1. NextTurn(w, s)
      BY <1>5 DEF Decide
    <2> QED
      BY <2>1, NextTurnMoves
  <1>6. CASE answer.status = "OK" /\ answer.reads # <<>> /\ Wanted(s.done, answer.reads) # <<>>
    <2>1. PICK wanted : wanted = Wanted(s.done, answer.reads)
      OBVIOUS
    <2> DEFINE t == [s EXCEPT !.requests = wanted]
    <2>2. Proceed(w, "reads", t) /\ "reads" \in PCs \ Answered
      BY <1>6, <2>1 DEF Decide, PCs, Answered
    <2>3. t.requests = wanted
      BY DEF IsSession
    <2>4. wanted \in Seq(Requests)
      BY <2>1, ObservedReads
    <2> HIDE DEF t
    <2> QED
      BY <2>2, <2>3, <2>4, ProceedMoves
  <1> QED
    BY <1>1, <1>2, <1>3, <1>4, <1>5, <1>6

LEMMA AcceptMoves ==
    ASSUME Tables, NEW w \in Workers, NEW s, IsSession(s), s.requests \in Seq(Requests),
           NEW results, Accept(w, s, results)
    PROVE  Moves(w)
  <1> DEFINE items == Found(results)
             merged == Merge(s.evidence, items)
  <1>1. CASE Stopping(results) # {}
    <2>1. PICK i \in Stopping(results) : Return(w, results[i].status, s.receipts)
      BY <1>1 DEF Accept, Stopping
    <2> QED
      BY <2>1, LeaveMoves DEF Return
  <1>2. CASE Stopping(results) = {} /\ Len(merged) > MaxEvidence
    <2>1. OutOfReads(w, s)
      BY <1>2 DEF Accept, Stopping
    <2> QED
      BY <2>1, OutOfReadsMoves
  <1>3. CASE Stopping(results) = {} /\ ~(Len(merged) > MaxEvidence)
    <2> DEFINE t == [s EXCEPT !.evidence = merged, !.preferred = ToSet(items),
                              !.done = @ \cup ToSet(s.requests)]
    <2>1. NextTurn(w, t)
      BY <1>3 DEF Accept, Stopping
    <2>2. IsSession(t) /\ t.requests = s.requests
      BY DEF IsSession
    <2> HIDE DEF t
    <2> QED
      BY <2>1, <2>2, NextTurnMoves
  <1> QED
    BY <1>1, <1>2, <1>3

\* A completion of the model that is in the journal holds an answer of the model.
LEMMA SettledAnswer ==
    ASSUME JournalInv, NEW op, op[1] = "model", Settled(ledger, op)
    PROVE  CompletionOf(ledger, op).result \in Observations
  <1> DEFINE i == CHOOSE i \in DOMAIN ledger.completions : ledger.completions[i].op = op
  <1>1. i \in DOMAIN ledger.completions /\ ledger.completions[i].op = op
    BY Zenon DEF Settled
  <1>2. CompletionOf(ledger, op) = ledger.completions[i].artifact
    BY Zenon DEF CompletionOf
  <1> HIDE DEF i
  <1> QED
    BY <1>1, <1>2 DEF JournalInv

LEMMA RestoreMoves ==
    ASSUME OwnInv, SpendInv, NEW w \in Workers, ModelRestore(w) \/ ReadsRestore(w)
    PROVE  Moves(w)
  <1>1. Tables /\ IsSession(sess[w]) /\ sess[w].requests \in Seq(Requests) /\ JournalInv
    BY DEF OwnInv, SpendInv
  <1>2. ASSUME NEW x PROVE /\ IsSession([sess[w] EXCEPT !.receipts = Append(@, x)])
                           /\ [sess[w] EXCEPT !.receipts = Append(@, x)].requests = sess[w].requests
    BY <1>1 DEF IsSession
  <1>3. CASE ModelRestore(w)
    <2> DEFINE op == Op("model", sess[w])
               x == CompletionOf(ledger, op)
               t == [sess[w] EXCEPT !.receipts = Append(@, x)]
    <2>1. Leave(w) \/ (Settled(ledger, op) /\ Decide(w, t, x.result))
      <3>1. CASE ~PromptMatches(w)
        BY <1>3, <3>1 DEF ModelRestore, Raise
      <3>2. CASE PromptMatches(w) /\ ~Settled(ledger, op)
        BY <1>3, <3>2 DEF ModelRestore, Return
      <3>3. CASE PromptMatches(w) /\ Settled(ledger, op) /\ ~ReceiptMatches(x, op, Prompt(w))
        BY <1>3, <3>3 DEF ModelRestore, Raise
      <3>4. CASE PromptMatches(w) /\ Settled(ledger, op) /\ ReceiptMatches(x, op, Prompt(w))
        BY <1>3, <3>4 DEF ModelRestore
      <3> QED
        BY <3>1, <3>2, <3>3, <3>4
    <2>2. IsSession(t) /\ t.requests \in Seq(Requests)
      BY <1>1, <1>2
    <2>3. op[1] = "model"
      BY DEF Op
    <2> HIDE DEF t, op
    <2>4. Settled(ledger, op) => x.result \in Observations
      BY <1>1, <2>3, SettledAnswer
    <2> HIDE DEF x
    <2> QED
      BY <1>1, <2>1, <2>2, <2>4, DecideMoves, LeaveMoves
  <1>4. CASE ReadsRestore(w)
    <2> DEFINE op == Op("reads", sess[w])
               x == CompletionOf(ledger, op)
               t == [sess[w] EXCEPT !.receipts = Append(@, x)]
    <2>1. Leave(w) \/ Accept(w, t, x.result)
      <3>1. CASE ~Settled(ledger, op)
        BY <1>4, <3>1 DEF ReadsRestore, Return
      <3>2. CASE Settled(ledger, op) /\ ~ReceiptMatches(x, op, sess[w].requests)
        BY <1>4, <3>2 DEF ReadsRestore, Raise
      <3>3. CASE Settled(ledger, op) /\ ReceiptMatches(x, op, sess[w].requests)
        BY <1>4, <3>3 DEF ReadsRestore
      <3> QED
        BY <3>1, <3>2, <3>3
    <2>2. IsSession(t) /\ t.requests \in Seq(Requests)
      BY <1>1, <1>2
    <2> HIDE DEF t, x
    <2> QED
      BY <1>1, <2>1, <2>2, AcceptMoves, LeaveMoves
  <1> QED
    BY <1>3, <1>4

LEMMA PrepareMoves ==
    ASSUME OwnInv, SpendInv, NEW w \in Workers, Model(w) \/ Reads(w)
    PROVE  Moves(w)
  <1>1. Tables /\ IsSession(sess[w]) /\ sess[w].requests \in Seq(Requests)
    BY DEF OwnInv, SpendInv
  <1> DEFINE t == [sess[w] EXCEPT !.expected = ledger]
  <1>2. t.requests \in Seq(Requests)
    BY <1>1 DEF IsSession
  <1>3. {"model_reserve", "model_restore", "reads_reserve", "reads_restore"} \subseteq PCs \ Answered
    BY DEF PCs, Answered
  <1>4. \/ Leave(w) \/ Goto(w, "model_restore") \/ Goto(w, "reads_restore")
        \/ Proceed(w, "model_reserve", t) \/ Proceed(w, "reads_reserve", t)
    <2>1. CASE Model(w)
      <3> DEFINE op == Op("model", sess[w])
      <3>1. CASE Charged(ledger, op)
        BY <2>1, <3>1 DEF Model
      <3>2. CASE ~Charged(ledger, op) /\ Len(sess[w].evidence) > PromptItems
        BY <2>1, <3>2 DEF Model, Return
      <3>3. CASE ~Charged(ledger, op) /\ ~(Len(sess[w].evidence) > PromptItems)
        BY <2>1, <3>3 DEF Model
      <3> QED
        BY <3>1, <3>2, <3>3
    <2>2. CASE Reads(w)
      <3> DEFINE op == Op("reads", sess[w])
      <3>1. CASE ~Charged(ledger, op)
        BY <2>2, <3>1 DEF Reads
      <3>2. CASE Charged(ledger, op) /\ ChargeOf(ledger, op).work # sess[w].requests
        BY <2>2, <3>2 DEF Reads, Raise
      <3>3. CASE Charged(ledger, op) /\ ~(ChargeOf(ledger, op).work # sess[w].requests)
        BY <2>2, <3>3 DEF Reads
      <3> QED
        BY <3>1, <3>2, <3>3
    <2> QED
      BY <2>1, <2>2
  <1> HIDE DEF t
  <1> QED
    BY <1>1, <1>2, <1>3, <1>4, LeaveMoves, GotoMoves, ProceedMoves


LEMMA EmptyWithin == WithinLimits(<<>>)
  <1>1. ASSUME NEW d \in Dims PROVE Total(<<>>, d) <= Limits[d]
    <2> DEFINE fun == [i \in DOMAIN <<>> |-> <<>>[i].cost[d]]
    <2>1. DOMAIN <<>> = {}
      OBVIOUS
    <2>2. fun \in [{} -> Nat] /\ IsFiniteSet({})
      BY <2>1, FS_EmptySet
    <2> HIDE DEF fun
    <2>3. SumFunction(fun) = 0
      BY <2>2, SumNat
    <2>4. Total(<<>>, d) = 0
      BY <2>3 DEF Total, fun
    <2>5. Limits[d] \in Nat
      BY LimitsAssumption
    <2> QED
      BY <2>4, <2>5
  <1> QED
    BY <1>1 DEF WithinLimits

LEMMA OpenJournal ==
    ASSUME JournalInv, NEW b, ledger' = Opened(b)
    PROVE  JournalInv'
  <1>1. CASE ledger = Row(Nil)
    <2>1. ledger'.charges = <<>> /\ ledger'.completions = <<>>
      BY <1>1 DEF Opened, Row
    <2>2. WithinLimits(ledger.charges)'
      BY <2>1, EmptyWithin DEF WithinLimits, Total
    <2> QED
      BY <2>1, <2>2 DEF JournalInv
  <1>2. CASE ledger # Row(Nil)
    BY <1>2, SameJournal DEF Opened
  <1> QED
    BY <1>1, <1>2

LEMMA ReservedWithin ==
    ASSUME NEW e, NEW c, ReserveOutcome(e, c) = "NEW"
    PROVE  WithinLimits(Append(e.charges, c))
  <1> DEFINE existing == Charged(e, c.op)
             within == WithinLimits(Append(e.charges, c))
             same == ChargeOf(e, c.op) = c
             un == Unchanged(e)
  <1>1. CASE existing /\ same /\ un
    BY <1>1 DEF ReserveOutcome
  <1>2. CASE ~existing /\ ~within
    BY <1>2 DEF ReserveOutcome
  <1>3. CASE ~within /\ existing /\ ~(same /\ un)
    BY <1>3 DEF ReserveOutcome
  <1> QED
    BY <1>1, <1>2, <1>3 DEF ReserveOutcome

LEMMA ReserveJournal ==
    ASSUME RowShape, JournalInv, NEW e, NEW c, c.cost \in [Dims -> Nat], Reserve(e, c)
    PROVE  JournalInv'
  <1>1. CASE ReserveOutcome(e, c) # "NEW"
    BY <1>1, SameJournal DEF Reserve
  <1>2. CASE ReserveOutcome(e, c) = "NEW"
    <2>1. ledger = e /\ WithinLimits(Append(e.charges, c))
      BY <1>2, ReserveFacts, ReservedWithin
    <2>2. PICK cc : cc = Append(ledger.charges, c)
      OBVIOUS
    <2>3. ledger' = [ledger EXCEPT !.charges = cc]
      BY <1>2, <2>1, <2>2 DEF Reserve
    <2>4. /\ IsList(cc) /\ Len(cc) = Len(ledger.charges) + 1
          /\ \A i \in 1..Len(ledger.charges) : cc[i] = ledger.charges[i]
          /\ cc[Len(ledger.charges) + 1] = c
      BY <2>2, AppendFacts DEF RowShape
    <2>5. /\ Len(ledger.charges) \in Nat /\ DOMAIN ledger.charges = 1..Len(ledger.charges)
          /\ DOMAIN cc = 1..(Len(ledger.charges) + 1)
      BY <2>4, ListFacts DEF RowShape
    <2>6. ledger'.completions = ledger.completions /\ ledger'.charges = cc
      BY <2>3 DEF RowShape, IsRow
    <2>7. ASSUME NEW i \in DOMAIN cc PROVE cc[i].cost \in [Dims -> Nat]
      <3>1. i \in DOMAIN ledger.charges \/ i = Len(ledger.charges) + 1
        BY <2>5
      <3> QED
        BY <2>4, <2>5, <3>1 DEF JournalInv
    <2>8. WithinLimits(cc)
      BY <2>1, <2>2
    <2>9. WithinLimits(ledger.charges)'
      BY <2>6, <2>8 DEF WithinLimits, Total
    <2> QED
      BY <2>6, <2>7, <2>9 DEF JournalInv
  <1> QED
    BY <1>1, <1>2

LEMMA CompleteJournal ==
    ASSUME RowShape, JournalInv, NEW e, NEW op, NEW x, op[1] = "model" => x.result \in Observations,
           Complete(e, op, x)
    PROVE  JournalInv'
  <1>1. CASE CompleteOutcome(e, op, x) # "NEW"
    BY <1>1, SameJournal DEF Complete
  <1>2. CASE CompleteOutcome(e, op, x) = "NEW"
    <2> DEFINE y == [op |-> op, artifact |-> x]
    <2>1. ledger = e
      BY <1>2, CompleteFacts
    <2>2. PICK cc : cc = Append(ledger.completions, y)
      OBVIOUS
    <2>3. ledger' = [ledger EXCEPT !.completions = cc]
      BY <1>2, <2>1, <2>2 DEF Complete
    <2>3a. y.op = op /\ y.artifact = x
      OBVIOUS
    <2> HIDE DEF y
    <2>4. /\ IsList(cc) /\ Len(cc) = Len(ledger.completions) + 1
          /\ \A i \in 1..Len(ledger.completions) : cc[i] = ledger.completions[i]
          /\ cc[Len(ledger.completions) + 1] = y
      BY <2>2, AppendFacts DEF RowShape
    <2>5. /\ Len(ledger.completions) \in Nat /\ DOMAIN ledger.completions = 1..Len(ledger.completions)
          /\ DOMAIN cc = 1..(Len(ledger.completions) + 1)
      BY <2>4, ListFacts DEF RowShape
    <2>6. ledger'.charges = ledger.charges /\ ledger'.completions = cc
      BY <2>3 DEF RowShape, IsRow
    <2>7. ASSUME NEW i \in DOMAIN cc, cc[i].op[1] = "model" PROVE cc[i].artifact.result \in Observations
      <3>1. CASE i \in DOMAIN ledger.completions
        BY <2>4, <2>5, <2>7, <3>1 DEF JournalInv
      <3>2. CASE i = Len(ledger.completions) + 1
        BY <2>3a, <2>4, <2>7, <3>2
      <3> QED
        BY <2>5, <3>1, <3>2
    <2>8. WithinLimits(ledger.charges)'
      BY <2>6 DEF JournalInv, WithinLimits, Total
    <2> QED
      BY <2>6, <2>7, <2>8 DEF JournalInv
  <1> QED
    BY <1>1, <1>2

LEMMA ModelReserveSpend ==
    ASSUME OwnInv, SpendInv, NEW w \in Workers, ModelReserve(w)
    PROVE  SpendInv'
  <1>1. PICK c : c = ModelCharge(w)
    OBVIOUS
  <1>2. c.cost \in [Dims -> Nat] /\ Reserve(sess[w].expected, c)
    BY <1>1, LoopAssumption DEF ModelCharge, Charge, ModelReserve
  <1>3. JournalInv'
    BY <1>2, ReserveJournal DEF OwnInv, SpendInv
  <1>4. Goto(w, "model_dispatch") \/ Leave(w)
    BY <1>1 DEF ModelReserve, Raise, Return
  <1>5. "model_dispatch" \in PCs \ Answered /\ Tables
    BY DEF PCs, Answered, OwnInv
  <1>6. Moves(w)
    BY <1>4, <1>5, GotoMoves, LeaveMoves
  <1> QED
    BY <1>3, <1>6, MovesStep

LEMMA BatchCosts ==
    ASSUME NEW batch \in Seq(Requests)
    PROVE  ReadsCost(batch) \in [Dims -> Nat]
  <1>1. ASSUME NEW d \in Dims PROVE SumFunction([i \in DOMAIN batch |-> ReadCost[batch[i]][d]]) \in Nat
    <2> DEFINE fun == [i \in DOMAIN batch |-> ReadCost[batch[i]][d]]
    <2>1. Len(batch) \in Nat /\ DOMAIN batch = 1..Len(batch) /\ \A i \in DOMAIN batch : batch[i] \in Requests
      BY LenProperties, ElementOfSeq
    <2>2. \A i \in DOMAIN batch : ReadCost[batch[i]][d] \in Nat
      BY <2>1, LoopAssumption
    <2>3. fun \in [DOMAIN batch -> Nat] /\ IsFiniteSet(DOMAIN batch)
      BY <2>1, <2>2, FS_Interval
    <2> HIDE DEF fun
    <2>4. SumFunction(fun) \in Nat
      BY <2>3, SumNat
    <2> QED
      BY <2>4 DEF fun
  <1> QED
    BY <1>1 DEF ReadsCost

LEMMA ReadsReserveSpend ==
    ASSUME OwnInv, SpendInv, NEW w \in Workers, ReadsReserve(w)
    PROVE  SpendInv'
  <1> DEFINE batch == sess[w].requests
             t == [sess[w] EXCEPT !.expected = Nil]
  <1>1. PICK c : c = ReadCharge(w)
    OBVIOUS
  <1>2. c.cost = ReadsCost(batch) /\ Reserve(sess[w].expected, c)
    BY <1>1 DEF ReadCharge, ReadsCost, Charge, ReadsReserve
  <1>3. Tables /\ IsSession(sess[w]) /\ batch \in Seq(Requests)
    BY DEF OwnInv, SpendInv
  <1>5. c.cost \in [Dims -> Nat]
    BY <1>2, <1>3, BatchCosts
  <1>6. JournalInv'
    BY <1>2, <1>5, ReserveJournal DEF OwnInv, SpendInv
  <1> DEFINE outcome == ReserveOutcome(sess[w].expected, c)
  <1>7. Goto(w, "reads_dispatch") \/ Leave(w) \/ OutOfReads(w, t)
    BY <1>1 DEF ReadsReserve, Raise
  <1>8. IsSession(t) /\ t.requests \in Seq(Requests)
    BY <1>3 DEF IsSession
  <1> HIDE DEF t
  <1>9. "reads_dispatch" \in PCs \ Answered
    BY DEF PCs, Answered
  <1>10. Moves(w)
    BY <1>3, <1>7, <1>8, <1>9, GotoMoves, LeaveMoves, OutOfReadsMoves
  <1> QED
    BY <1>6, <1>10, MovesStep

LEMMA CompletedSpend ==
    ASSUME OwnInv, SpendInv, NEW w \in Workers, ModelComplete(w) \/ ReadsComplete(w)
    PROVE  SpendInv'
  <1> DEFINE t == [sess[w] EXCEPT !.expected = Nil, !.observed = Nil]
  <1>1. PICK kind, next, x :
          /\ next \in {"model_restore", "reads_restore"}
          /\ Completed(w, kind, next, x)
          /\ kind \in Kinds
          /\ kind = "model" => x.result \in Observations
    <2>1. CASE ModelComplete(w)
      <3>1. sess[w].observed \in Observations
        BY <2>1 DEF ModelComplete, SpendInv, Answered
      <3>2. ModelReceipt(w).result = sess[w].observed
        BY DEF ModelReceipt
      <3> QED
        BY <2>1, <3>1, <3>2 DEF ModelComplete, Kinds
    <2>2. CASE ReadsComplete(w)
      BY <2>2 DEF ReadsComplete, Kinds
    <2> QED
      BY <2>1, <2>2
  <1>2. Op(kind, sess[w])[1] = kind /\ Complete(sess[w].expected, Op(kind, sess[w]), x)
    BY <1>1 DEF Op, Completed
  <1>3. PICK op : op = Op(kind, sess[w])
    OBVIOUS
  <1>4. JournalInv'
    <2>1. op[1] = "model" => x.result \in Observations
      BY <1>1, <1>2, <1>3
    <2>2. Complete(sess[w].expected, op, x) /\ RowShape /\ JournalInv
      BY <1>2, <1>3 DEF OwnInv, SpendInv
    <2> QED
      BY <2>1, <2>2, CompleteJournal
  <1>5. Leave(w) \/ Proceed(w, next, t)
    BY <1>1 DEF Completed, Raise
  <1>6. Tables /\ t.requests \in Seq(Requests) /\ next \in PCs \ Answered
    <2>1. IsSession(sess[w]) /\ sess[w].requests \in Seq(Requests) /\ Tables
      BY DEF OwnInv, SpendInv
    <2>2. t.requests = sess[w].requests
      BY <2>1 DEF IsSession
    <2> QED
      BY <1>1, <2>1, <2>2 DEF PCs, Answered
  <1> HIDE DEF t
  <1>7. Moves(w)
    BY <1>5, <1>6, LeaveMoves, ProceedMoves
  <1> QED
    BY <1>4, <1>7, MovesStep

LEMMA AskSpend ==
    ASSUME OwnInv, SpendInv, NEW w \in Workers, ModelDispatch(w) \/ ReadsDispatch(w)
    PROVE  SpendInv'
  <1>1. PICK label, r :
          /\ label \in PCs
          /\ Proceed(w, label, [sess[w] EXCEPT !.observed = r])
          /\ label \in Answered => r \in Observations
    <2>1. CASE ModelDispatch(w)
      <3>1. Dispatch(w, "model", "model_publish", Observations) /\ "model_publish" \in PCs
        BY <2>1 DEF ModelDispatch, PCs
      <3>2. PICK r \in Observations : Proceed(w, "model_publish", [sess[w] EXCEPT !.observed = r])
        BY <3>1 DEF Dispatch
      <3> QED
        BY <3>1, <3>2
    <2>2. CASE ReadsDispatch(w)
      <3>1. PICK results : Dispatch(w, "reads", "reads_publish", results)
        BY <2>2 DEF ReadsDispatch
      <3>2. "reads_publish" \in PCs \ Answered
        BY DEF PCs, Answered
      <3>3. PICK r \in results : Proceed(w, "reads_publish", [sess[w] EXCEPT !.observed = r])
        BY <3>1 DEF Dispatch
      <3> QED
        BY <3>2, <3>3
    <2> QED
      BY <2>1, <2>2
  <1>2. PICK t : t = [sess[w] EXCEPT !.observed = r]
    OBVIOUS
  <1>3. Tables /\ IsSession(sess[w]) /\ sess[w].requests \in Seq(Requests) /\ JournalInv /\ ledger' = ledger
    BY DEF OwnInv, SpendInv, ModelDispatch, ReadsDispatch, Dispatch
  <1>4. t.requests = sess[w].requests /\ t.observed = r
    BY <1>2, <1>3 DEF IsSession
  <1>5. pc'[w] = label /\ sess'[w] = t /\ Others(w)
    BY <1>1, <1>2, <1>3, ProceedFacts
  <1>6. JournalInv'
    BY <1>3, SameJournal
  <1>7. \A v \in Workers : v # w => pc'[v] = pc[v] /\ sess'[v] = sess[v]
    BY <1>5 DEF Others
  <1> QED
    BY <1>1, <1>3, <1>4, <1>5, <1>6, <1>7 DEF SpendInv

LEMMA PublishSpend ==
    ASSUME OwnInv, SpendInv, NEW w \in Workers, ModelPublish(w) \/ ReadsPublish(w)
    PROVE  SpendInv'
  <1>1. PICK t : t = [sess[w] EXCEPT !.expected = ledger]
    OBVIOUS
  <1>2. PICK label \in PCs : Proceed(w, label, t) /\ (label \in Answered => pc[w] \in Answered)
    <2>1. "model_complete" \in PCs /\ "reads_complete" \in PCs /\ "reads_complete" \notin Answered /\ "model_publish" \in Answered
      BY DEF PCs, Answered
    <2> QED
      BY <1>1, <2>1 DEF ModelPublish, ReadsPublish, Publish
  <1>3. Tables /\ IsSession(sess[w]) /\ sess[w].requests \in Seq(Requests) /\ JournalInv /\ ledger' = ledger
    BY DEF OwnInv, SpendInv, ModelPublish, ReadsPublish, Publish
  <1>4. t.requests = sess[w].requests /\ t.observed = sess[w].observed
    BY <1>1, <1>3 DEF IsSession
  <1>5. pc'[w] = label /\ sess'[w] = t /\ Others(w)
    BY <1>2, <1>3, ProceedFacts
  <1>6. JournalInv'
    BY <1>3, SameJournal
  <1>7. \A v \in Workers : v # w => pc'[v] = pc[v] /\ sess'[v] = sess[v]
    BY <1>5 DEF Others
  <1> QED
    BY <1>2, <1>3, <1>4, <1>5, <1>6, <1>7 DEF SpendInv

LEMMA NextSpend ==
    ASSUME OwnInv, SpendInv, [Next]_vars
    PROVE  SpendInv'
  <1>1. Tables /\ JournalInv
    BY DEF OwnInv, SpendInv
  <1>2. CASE UNCHANGED vars
    <2>1. ledger' = ledger /\ pc' = pc /\ sess' = sess
      BY <1>2 DEF vars
    <2> QED
      BY <1>1, <2>1, SameJournal DEF SpendInv
  <1>3. CASE Next
    <2>1. PICK w \in Workers : Enter(w) \/ Step(w) \/ Crash(w)
      BY <1>3 DEF Next
    <2>2. CASE Enter(w) \/ Open(w) \/ Authority(w) \/ Final(w) \/ Crash(w)
      <3>1. {"open", "authority", "model"} \subseteq PCs \ Answered
        BY DEF PCs, Answered
      <3>2. Leave(w) \/ \E label \in {"open", "authority", "model"} : Goto(w, label)
        BY <2>2 DEF Enter, Open, Authority, Final, Crash, Raise, Return
      <3>3. Moves(w)
        BY <1>1, <3>1, <3>2, LeaveMoves, GotoMoves
      <3>4. ledger' = ledger \/ ledger' = Opened(Binding[w])
        BY <2>2 DEF Enter, Open, Authority, Final, Crash
      <3> QED
        BY <1>1, <3>3, <3>4, SameJournal, OpenJournal, MovesStep
    <2>3. CASE Model(w) \/ Reads(w)
      <3>1. ledger' = ledger
        BY <2>3 DEF Model, Reads
      <3> QED
        BY <1>1, <2>3, <3>1, PrepareMoves, SameJournal, MovesStep
    <2>4. CASE ModelRestore(w) \/ ReadsRestore(w)
      <3>1. ledger' = ledger
        BY <2>4 DEF ModelRestore, ReadsRestore
      <3> QED
        BY <1>1, <2>4, <3>1, RestoreMoves, SameJournal, MovesStep
    <2>5. CASE ModelReserve(w) \/ ReadsReserve(w)
      BY <2>5, ModelReserveSpend, ReadsReserveSpend
    <2>6. CASE ModelComplete(w) \/ ReadsComplete(w)
      BY <2>6, CompletedSpend
    <2>7. CASE ModelDispatch(w) \/ ReadsDispatch(w)
      BY <2>7, AskSpend
    <2>8. CASE ModelPublish(w) \/ ReadsPublish(w)
      BY <2>8, PublishSpend
    <2> QED
      BY <2>1, <2>2, <2>3, <2>4, <2>5, <2>6, <2>7, <2>8 DEF Step
  <1> QED
    BY <1>2, <1>3

LEMMA InitSpend == Init => SpendInv
  <1> SUFFICES ASSUME Init PROVE SpendInv
    OBVIOUS
  <1>1. ledger.charges = <<>> /\ ledger.completions = <<>>
    BY DEF Init, Row
  <1>2. JournalInv
    BY <1>1, EmptyWithin DEF JournalInv
  <1>3. NoSession.requests \in Seq(Requests)
    BY DEF NoSession
  <1> QED
    BY <1>2, <1>3 DEF Init, SpendInv, Answered

LEMMA SpendInvWithin == OwnInv /\ SpendInv => SpendWithinLimits
  <1> SUFFICES ASSUME OwnInv, SpendInv, NEW d \in Dims PROVE Spent(d) <= Limits[d]
    BY DEF SpendWithinLimits
  <1> DEFINE asked == {o \in Operations : dispatched[o] > 0}
             charges == ledger.charges
             At1(op) == CHOOSE i \in DOMAIN charges : charges[i].op = op
             at == [op \in asked |-> At1(op)]
             fun == [op \in asked |-> dispatched[op] * ChargeOf(ledger, op).cost[d]]
             gun == [i \in DOMAIN charges |-> charges[i].cost[d]]
  <1>1. /\ dispatched \in [Operations -> Nat]
        /\ \A op \in Operations : dispatched[op] <= 1 /\ (dispatched[op] = 1 => Charged(ledger, op))
    BY DEF OwnInv, DispatchInv
  <1>2. \A i \in DOMAIN charges : charges[i].cost[d] \in Nat
    BY DEF SpendInv, JournalInv
  <1>3. gun \in [DOMAIN charges -> Nat]
    BY <1>2
  <1>4. IsFiniteSet(DOMAIN charges)
    <2>1. Len(charges) \in Nat /\ DOMAIN charges = 1..Len(charges)
      BY ListFacts DEF OwnInv, RowShape
    <2> QED
      BY <2>1, FS_Interval
  <1>5. ASSUME NEW op \in asked
        PROVE  /\ dispatched[op] = 1 /\ at[op] \in DOMAIN charges /\ charges[at[op]].op = op
               /\ fun[op] = gun[at[op]]
    <2>1. dispatched[op] = 1 /\ Charged(ledger, op)
      BY <1>1
    <2>2. At1(op) \in DOMAIN charges /\ charges[At1(op)].op = op
      BY <2>1, Zenon DEF Charged
    <2>3. ChargeOf(ledger, op) = charges[At1(op)]
      BY Zenon DEF ChargeOf
    <2>4. at[op] = At1(op)
      OBVIOUS
    <2> HIDE DEF At1
    <2>5. fun[op] = dispatched[op] * charges[At1(op)].cost[d]
      BY <2>3
    <2>6. gun[At1(op)] = charges[At1(op)].cost[d] /\ charges[At1(op)].cost[d] \in Nat
      BY <1>2, <2>2
    <2>7. \A c \in Nat : 1 * c = c
      OBVIOUS
    <2> HIDE DEF fun, gun, at
    <2>8. fun[op] = gun[At1(op)]
      BY <2>1, <2>5, <2>6, <2>7
    <2> QED
      BY <2>1, <2>2, <2>4, <2>8
  <1>6. at \in [asked -> DOMAIN charges]
    BY <1>5
  <1>7. \A x, y \in asked : at[x] = at[y] => x = y
    <2>1. \A x \in asked : charges[at[x]].op = x
      BY <1>5
    <2> HIDE DEF at, asked, charges
    <2> QED
      BY <2>1, Zenon
  <1>8. fun \in [asked -> Nat]
    <2>1. ASSUME NEW op \in asked PROVE fun[op] \in Nat
      BY <1>3, <1>5
    <2> QED
      BY <2>1
  <1>9. IsFiniteSet(asked)
    <2>1. at \in Injection(asked, DOMAIN charges)
      BY <1>6, <1>7 DEF Injection, IsInjective
    <2> QED
      BY <1>4, <2>1, FS_Injection
  <1>10. Spent(d) = SumFunction(fun) /\ Total(charges, d) = SumFunction(gun)
    BY DEF Spent, Total
  <1>11. \A x \in asked : fun[x] = gun[at[x]]
    BY <1>5
  <1> HIDE DEF fun, gun, at, asked
  <1>12. SumFunction(fun) <= SumFunction(gun) /\ SumFunction(fun) \in Nat /\ SumFunction(gun) \in Nat
    BY <1>3, <1>4, <1>6, <1>7, <1>8, <1>9, <1>11, SumWithin, SumNat
  <1>13. Total(charges, d) <= Limits[d]
    BY DEF SpendInv, JournalInv, WithinLimits
  <1>14. Limits[d] \in Nat
    BY LimitsAssumption
  <1> QED
    BY <1>10, <1>12, <1>13, <1>14

LEMMA SpendInductive == Spec => [](OwnInv /\ SpendInv)
  <1>1. OwnInv /\ SpendInv /\ [Next]_vars => (OwnInv /\ SpendInv)'
    BY NextOwn, NextSpend
  <1>2. Init => OwnInv /\ SpendInv
    BY InitOwn, InitSpend
  <1> QED
    BY <1>1, <1>2, PTL DEF Spec

(* SpendWithinLimits: with every provider, and however sessions of several *)
(* hosts interleave, crash and start over, the sum over everything that    *)
(* was really dispatched to the model and to the read backends stays       *)
(* within every allowance of the run.                                      *)
THEOREM SpendStaysWithin == Spec => []SpendWithinLimits
  BY SpendInductive, SpendInvWithin, PTL

-----------------------------------------------------------------------------
(* One step of one session leaves the others where they stand.             *)

LEMMA Numbers ==
    ASSUME RowInv
    PROVE  /\ n \in Nat /\ m \in Nat /\ n <= m /\ m <= n + 1
           /\ DOMAIN ledger.charges = 1..m /\ DOMAIN ledger.completions = 1..n
  BY ListFacts DEF RowInv, n, m

LEMMA StandingKept ==
    ASSUME NEW h, NEW v, Standing(h, v), pc'[v] = pc[v], sess'[v] = sess[v], ledger' = ledger
    PROVE  Standing(h, v)'
  <1>1. On(h, v) => On(h, v)'
    BY DEF On, At, StageOf
  <1>2. Barred(h, v) => Barred(h, v)'
    BY DEF Barred, n, At
  <1> QED
    BY <1>1, <1>2 DEF Standing, n, IsList

LEMMA HoldsKept ==
    ASSUME NEW v, Holds(v), pc'[v] = pc[v], sess'[v] = sess[v], ledger' = ledger,
           artifacts \subseteq artifacts', dispatched' = dispatched
    PROVE  Holds(v)'
  <1>1. Prompt(v)' = Prompt(v) /\ ModelReceipt(v)' = ModelReceipt(v) /\ ReadReceipt(v)' = ReadReceipt(v)
    BY DEF Prompt, ModelReceipt, ReadReceipt, Op, Context
  <1>2. Op(StageOf(pc[v]), sess[v])' = Op(StageOf(pc[v]), sess[v]) /\ n' = n /\ m' = m
    BY DEF Op, StageOf, n, m
  <1> QED
    BY <1>1, <1>2 DEF Holds

LEMMA SessionKept ==
    ASSUME NEW h, NEW v \in Workers, SessionOK(h, v), pc'[v] = pc[v], sess'[v] = sess[v],
           ledger' = ledger, artifacts \subseteq artifacts',
           pc[v] \in Holding => dispatched' = dispatched
    PROVE  SessionOK(h, v)'
  <1>1. Prompt(v)' = Prompt(v) /\ n' = n /\ m' = m
    BY DEF Prompt, Op, Context, n, m
  <1>2. Op(StageOf(pc[v]), sess[v])' = Op(StageOf(pc[v]), sess[v])
    BY DEF Op, StageOf
  <1>3. pc[v] \notin {"idle", "open"} => Standing(h, v)'
    BY StandingKept DEF SessionOK
  <1>4. pc[v] \in Holding => Holds(v)'
    BY HoldsKept DEF SessionOK
  <1>5. IsSession(sess[v])'
    BY DEF SessionOK, IsSession
  <1>6. CopyInv(v) => CopyInv(v)'
    BY <1>1 DEF CopyInv, IsList
  <1> QED
    BY <1>1, <1>2, <1>3, <1>4, <1>5, <1>6 DEF SessionOK, Charged

LEMMA HistoryKept ==
    ASSUME NEW h, HistoryInv(h), ledger' = ledger, artifacts \subseteq artifacts'
    PROVE  HistoryInv(h)'
  BY DEF HistoryInv, n, m

LEMMA QuietStep ==
    ASSUME NEW h, WalkInv(h), NEW w \in Workers, TablesNext, Others(w),
           ledger' = ledger, artifacts \subseteq artifacts', dispatched' = dispatched,
           pc'[w] \in Holding => pc[w] \in Holding,
           SessionOK(h, w)', AnswerInv(h)'
    PROVE  WalkInv(h)'
  <1>1. Tables'
    BY DEF TablesNext, Tables
  <1>2. RowInv'
    BY DEF WalkInv, RowInv, n, m, IsRow, IsList
  <1>3. AloneInv'
    BY DEF WalkInv, AloneInv, Others
  <1>4. DispatchInv'
    BY DEF WalkInv, DispatchInv, Charged
  <1>5. HistoryInv(h)'
    BY HistoryKept DEF WalkInv
  <1>6. ASSUME NEW v \in Workers PROVE SessionOK(h, v)'
    <2>1. CASE v = w
      BY <2>1
    <2>2. CASE v # w
      BY <2>2, SessionKept DEF WalkInv, SessionInv, Others
    <2> QED
      BY <2>1, <2>2
  <1> QED
    BY <1>1, <1>2, <1>3, <1>4, <1>5, <1>6 DEF WalkInv, SessionInv

LEMMA LeftOK ==
    ASSUME NEW h, NEW w \in Workers, Left(w)
    PROVE  SessionOK(h, w)' /\ pc'[w] \notin Holding
  <1>1. IsSession(NoSession)
    BY DEF IsSession, NoSession
  <1> QED
    BY <1>1 DEF SessionOK, Left, Holding, IsSession

\* The session raises, or returns without a decision of the model.
LEMMA LeavingStep ==
    ASSUME NEW h, WalkInv(h), NEW w \in Workers, TablesNext, Left(w),
           ledger' = ledger, artifacts \subseteq artifacts', dispatched' = dispatched,
           answers' = answers
    PROVE  WalkInv(h)'
  <1>1. AnswerInv(h)'
    BY DEF WalkInv, AnswerInv, n
  <1> QED
    BY <1>1, LeftOK, QuietStep DEF Left

LEMMA Raising ==
    ASSUME NEW h, WalkInv(h), NEW w \in Workers, Raise(w),
           ledger' = ledger, artifacts \subseteq artifacts', dispatched' = dispatched
    PROVE  WalkInv(h)'
  BY LeaveFacts, LeavingStep DEF Raise, WalkInv

LEMMA Returning ==
    ASSUME NEW h, WalkInv(h), NEW w \in Workers, NEW reason, reason \notin Decisive, NEW receipts,
           Return(w, reason, receipts),
           ledger' = ledger, artifacts \subseteq artifacts', dispatched' = dispatched
    PROVE  WalkInv(h)'
  BY ReturnFacts, LeavingStep DEF WalkInv

-----------------------------------------------------------------------------
(* Where a session stands, and what its operation is bound to.             *)

LEMMA PointFields ==
    ASSUME NEW stage, NEW s
    PROVE  /\ At(stage, s).stage = stage /\ At(stage, s).turn = s.turn
           /\ At(stage, s).evidence = s.evidence /\ At(stage, s).preferred = s.preferred
           /\ At(stage, s).requests = s.requests
           /\ OpAt(At(stage, s)) = Op(stage, s)
  BY DEF At, Point, OpAt, Op

\* Only a session that is about to reserve reads can be off the history.
LEMMA OnTrack ==
    ASSUME NEW h, WalkInv(h), NEW w \in Workers,
           pc[w] \notin {"idle", "open", "reads", "reads_reserve"}
    PROVE  On(h, w)
  BY DEF WalkInv, SessionInv, SessionOK, Standing, Barred

LEMMA Place ==
    ASSUME NEW h, WalkInv(h), NEW w \in Workers, pc[w] \notin {"idle", "open"},
           NEW k, k = Len(sess[w].receipts)
    PROVE  /\ k \in 0..n /\ IsList(sess[w].receipts) /\ Binding[w] = ledger.binding
           /\ \A i \in 1..k : sess[w].receipts[i] = ledger.completions[i].artifact
           /\ On(h, w) \/ Barred(h, w)
  <1>1. Standing(h, w)
    BY DEF WalkInv, SessionInv, SessionOK
  <1> QED
    BY <1>1 DEF Standing

LEMMA Position ==
    ASSUME NEW h, WalkInv(h), NEW w \in Workers, pc[w] \notin {"idle", "open"}, On(h, w),
           NEW k, k = Len(sess[w].receipts)
    PROVE  /\ k \in 0..n /\ IsList(sess[w].receipts) /\ Binding[w] = ledger.binding
           /\ \A i \in 1..k : sess[w].receipts[i] = ledger.completions[i].artifact
           /\ h[k] = At(StageOf(pc[w]), sess[w]) /\ h[k].stage = StageOf(pc[w])
           /\ h[k].turn = sess[w].turn /\ sess[w].turn \in Turns
           /\ OpAt(h[k]) = Op(StageOf(pc[w]), sess[w])
           /\ StageOf(pc[w]) = "model" => Work(h[k], ledger.binding) = Prompt(w)
           /\ StageOf(pc[w]) = "reads" => Work(h[k], ledger.binding) = sess[w].requests
           /\ StageOf(pc[w]) \in Kinds => Op(StageOf(pc[w]), sess[w]) \in Operations
  <1>2. /\ k \in 0..n /\ IsList(sess[w].receipts) /\ Binding[w] = ledger.binding
        /\ \A i \in 1..k : sess[w].receipts[i] = ledger.completions[i].artifact
        /\ h[k] = At(StageOf(pc[w]), sess[w])
    BY Place DEF On
  <1>3. h[k].turn \in Turns
    BY <1>2 DEF WalkInv, HistoryInv
  <1>4. /\ h[k].stage = StageOf(pc[w]) /\ h[k].turn = sess[w].turn
        /\ h[k].evidence = sess[w].evidence /\ h[k].preferred = sess[w].preferred
        /\ h[k].requests = sess[w].requests /\ OpAt(h[k]) = Op(StageOf(pc[w]), sess[w])
    BY <1>2, PointFields
  <1>5. StageOf(pc[w]) = "model" => Work(h[k], ledger.binding) = Prompt(w)
    BY <1>2, <1>4 DEF Work, Prompt, Context
  <1>6. StageOf(pc[w]) = "reads" => Work(h[k], ledger.binding) = sess[w].requests
    BY <1>2, <1>4 DEF Work
  <1>7. StageOf(pc[w]) \in Kinds => Op(StageOf(pc[w]), sess[w]) \in Operations
    BY <1>3, <1>4 DEF Op, Operations
  <1> QED
    BY <1>2, <1>3, <1>4, <1>5, <1>6, <1>7

\* The journal's view of the operation the session has come to.
LEMMA View ==
    ASSUME NEW h, WalkInv(h), NEW w \in Workers, pc[w] \notin {"idle", "open"}, On(h, w),
           NEW k, k = Len(sess[w].receipts), NEW op, op = Op(StageOf(pc[w]), sess[w])
    PROVE  /\ Charged(ledger, op) <=> k < m
           /\ Settled(ledger, op) <=> k < n
           /\ k < m => ChargeOf(ledger, op) = ledger.charges[k + 1]
           /\ k < n => CompletionOf(ledger, op) = ledger.completions[k + 1].artifact
  <1>1. k \in 0..n /\ OpAt(h[k]) = op
    BY Position
  <1> QED
    BY <1>1, Lookups DEF WalkInv

\* A session at its end has walked the whole journal.
LEMMA AtTheEnd ==
    ASSUME RowInv, NEW h, HistoryInv(h), NEW k \in 0..n, h[k].stage = "end"
    PROVE  k = n /\ m = n
  <1>1. \A j \in 1..m : h[j-1].stage # "end"
    BY DEF HistoryInv
  <1>2. n \in Nat /\ m \in Nat /\ n <= m /\ m <= n + 1
    BY Numbers
  <1>3. ~(k + 1 \in 1..m)
    BY <1>1, <1>2
  <1> QED
    BY <1>2, <1>3

LEMMA StagesOfPCs ==
    /\ \A label \in ModelPCs : StageOf(label) = "model"
    /\ \A label \in ReadsPCs : StageOf(label) = "reads"
    /\ StageOf("final") = "end"
    /\ ModelPCs \subseteq PCs /\ ReadsPCs \subseteq PCs
  BY DEF ModelPCs, ReadsPCs, StageOf, PCs

\* A session keeps its place when neither the journal nor its point changes.
LEMMA StandsStill ==
    ASSUME NEW h, NEW w \in Workers, Standing(h, w), ledger' = ledger,
           sess'[w].receipts = sess[w].receipts,
           At(StageOf(pc[w]), sess'[w]) = At(StageOf(pc[w]), sess[w]),
           StageOf(pc'[w]) = StageOf(pc[w]),
           On(h, w) \/ pc'[w] \in {"reads", "reads_reserve"}
    PROVE  Standing(h, w)'
  <1>1. At(StageOf(pc[w]), sess[w])' = At(StageOf(pc[w]), sess[w])
    BY DEF At, StageOf
  <1>2. On(h, w) => On(h, w)'
    BY <1>1 DEF On
  <1>3. ASSUME Barred(h, w), ~On(h, w) PROVE Barred(h, w)'
    <2>1. StageOf(pc[w]) = "reads"
      BY <1>3 DEF Barred, StageOf, ModelPCs, ReadsPCs
    <2>2. At("reads", sess[w])' = At("reads", sess[w])
      BY <2>1 DEF At
    <2> QED
      BY <1>3, <2>2 DEF Barred, n
  <1> QED
    BY <1>2, <1>3 DEF Standing, n, IsList

\* What a session is about to be refused was never charged.
LEMMA NeverCharged ==
    ASSUME NEW h, WalkInv(h), NEW w \in Workers, Barred(h, w),
           NEW k, k = Len(sess[w].receipts)
    PROVE  /\ ~Charged(ledger, Op("reads", sess[w]))
           /\ k \in 1..n /\ h[k] = Skipped(At("reads", sess[w])) /\ sess[w].turn \in Turns
           /\ Refused(Upto(ledger.charges, k), At("reads", sess[w]))
  <1> DEFINE p == At("reads", sess[w])
  <1>1. /\ k \in 1..n /\ p = After(h[k-1], ledger.completions[k].artifact.result)
        /\ Refused(Upto(ledger.charges, k), p)
    BY DEF Barred
  <1>2. /\ n \in Nat /\ m \in Nat /\ n <= m /\ m <= n + 1 /\ k - 1 \in 0..n /\ k \in 1..m /\ k \in 0..n
        /\ DOMAIN ledger.charges = 1..m
    BY <1>1, Numbers DEF WalkInv
  <1>3. /\ h[k] = Onward(Upto(ledger.charges, k), p)
        /\ h[k-1].stage \in {"model", "reads"} /\ h[k-1].turn \in Turns
    BY <1>1, <1>2 DEF WalkInv, HistoryInv, Stages
  <1>4. p.stage = "reads" /\ p.turn = sess[w].turn /\ OpAt(p) = Op("reads", sess[w])
    BY PointFields
  <1>5. p.turn \in Turns /\ p.stage \in Stages /\ Rank(h[k-1]) < Rank(p)
    <2>1. \A r : After(h[k-1], r).turn \in Turns /\ After(h[k-1], r).stage \in Stages
                /\ Rank(h[k-1]) < Rank(After(h[k-1], r))
      BY <1>3, AfterFacts
    <2> QED
      BY <1>1, <2>1
  <1>6. Rank(p) < Rank(h[k]) /\ h[k] = Skipped(p)
    BY <1>1, <1>3, <1>5, OnwardFacts
  <1> HIDE DEF p
  <1>7. ASSUME NEW i \in 0..n PROVE OpAt(h[i]) # OpAt(p)
    <2>1. SUFFICES ASSUME OpAt(h[i]) = OpAt(p) PROVE FALSE
      OBVIOUS
    <2>2. h[i].stage = p.stage /\ h[i].turn = p.turn
      BY <2>1 DEF OpAt
    <2>3. Rank(h[i]) = Rank(p)
      BY <2>2 DEF Rank
    <2>4. \A a \in 0..n : Rank(h[a]) \in Int
      <3>1. \A t \in Turns : t \in Nat
        BY LoopAssumption DEF Turns
      <3> QED
        BY <3>1 DEF WalkInv, HistoryInv, Rank
    <2>5. \A a, b \in 0..n : a < b => Rank(h[a]) < Rank(h[b])
      BY DEF WalkInv, HistoryInv
    <2>6. Rank(h[i]) < Rank(h[k]) /\ Rank(h[k-1]) < Rank(h[i])
      BY <1>5, <1>6, <2>3
    <2>7. ~(k < i) /\ i # k /\ ~(i < k - 1) /\ i # k - 1
      <3>1. Rank(h[i]) \in Int /\ Rank(h[k]) \in Int /\ Rank(h[k-1]) \in Int
        BY <1>2, <2>4
      <3>2. \A x, y, z \in Int : x < y /\ z < x => ~(y < x) /\ x # y /\ ~(x < z) /\ x # z
        OBVIOUS
      <3>3. /\ ~(Rank(h[k]) < Rank(h[i])) /\ Rank(h[i]) # Rank(h[k])
            /\ ~(Rank(h[i]) < Rank(h[k-1])) /\ Rank(h[i]) # Rank(h[k-1])
        BY <2>6, <3>1, <3>2
      <3>4. k < i => Rank(h[k]) < Rank(h[i])
        BY <1>2, <2>5
      <3>5. i < k - 1 => Rank(h[i]) < Rank(h[k-1])
        BY <1>2, <2>5
      <3> QED
        BY <3>3, <3>4, <3>5, Zenon
    <2> QED
      BY <1>2, <2>7
  <1>8. ASSUME NEW i \in DOMAIN ledger.charges PROVE ledger.charges[i].op # OpAt(p)
    <2>1. i \in 1..m /\ i - 1 \in 0..n
      BY <1>2
    <2>2. ledger.charges[i].op = OpAt(h[i-1])
      BY <2>1 DEF WalkInv, HistoryInv
    <2> QED
      BY <1>7, <2>1, <2>2
  <1> QED
    BY <1>1, <1>4, <1>5, <1>6, <1>8 DEF Charged, p

-----------------------------------------------------------------------------
(* Steps that leave the journal as it is.                                  *)

LEMMA EnterStep ==
    ASSUME NEW h, WalkInv(h), NEW w \in Workers, Enter(w)
    PROVE  WalkInv(h)'
  <1>1. /\ pc[w] = "idle" /\ Goto(w, "open") /\ ledger' = ledger /\ artifacts' = artifacts
        /\ dispatched' = dispatched /\ answers' = answers /\ "open" \in PCs
    BY DEF Enter, PCs
  <1>2. pc'[w] = "open" /\ sess' = sess /\ Others(w) /\ TablesNext
    BY <1>1, GotoFacts DEF WalkInv
  <1>3. AnswerInv(h)'
    BY <1>1 DEF WalkInv, AnswerInv, n
  <1>4. sess[w] = NoSession /\ IsSession(sess[w])
    BY <1>1 DEF WalkInv, SessionInv, SessionOK
  <1>5. SessionOK(h, w)'
    BY <1>2, <1>4 DEF SessionOK, Holding, IsSession
  <1> QED
    BY <1>1, <1>2, <1>3, <1>5, QuietStep DEF Holding

LEMMA AuthorityStep ==
    ASSUME NEW h, WalkInv(h), NEW w \in Workers, Authority(w)
    PROVE  WalkInv(h)'
  <1>1. /\ pc[w] = "authority" /\ ledger' = ledger /\ artifacts' = artifacts
        /\ dispatched' = dispatched
    BY DEF Authority
  <1>2. CASE Goto(w, "model") /\ answers' = answers
    <2>1. pc'[w] = "model" /\ sess' = sess /\ Others(w) /\ TablesNext
      BY <1>2, GotoFacts DEF WalkInv, PCs
    <2>2. AnswerInv(h)'
      BY <1>1, <1>2 DEF WalkInv, AnswerInv, n
    <2>3. Standing(h, w) /\ IsSession(sess[w])
      BY <1>1 DEF WalkInv, SessionInv, SessionOK
    <2>4. StageOf(pc'[w]) = StageOf(pc[w])
      BY <1>1, <2>1 DEF StageOf, ModelPCs
    <2>5. Standing(h, w)'
      BY <1>1, <2>1, <2>3, <2>4, StandsStill, OnTrack
    <2>6. SessionOK(h, w)'
      BY <2>1, <2>3, <2>5 DEF SessionOK, Holding, IsSession
    <2> QED
      BY <1>1, <2>1, <2>2, <2>6, QuietStep DEF Holding
  <1>3. CASE \E failure \in AuthorityFailures : Return(w, failure, sess[w].receipts)
    <2>1. \A failure \in AuthorityFailures : failure \notin Decisive
      BY DEF AuthorityFailures, Decisive
    <2> QED
      BY <1>1, <1>3, <2>1, Returning
  <1> QED
    BY <1>2, <1>3 DEF Authority

LEMMA CrashStep ==
    ASSUME NEW h, WalkInv(h), NEW w \in Workers, Crash(w)
    PROVE  WalkInv(h)'
  BY Raising DEF Crash

\* A session that opened the row stands at the beginning of the journal.
LEMMA Beginning ==
    ASSUME NEW h, HistoryInv(h)', RowInv', NEW w \in Workers, ledger'.binding = Binding[w],
           pc'[w] = "authority", sess'[w] = NoSession
    PROVE  SessionOK(h, w)'
  <1>1. /\ 0 \in 0..n' /\ h[0] = At("model", NoSession) /\ Len(NoSession.receipts) = 0
        /\ IsList(NoSession.receipts) /\ IsSession(NoSession)
    <2>1. 0 \in 0..n'
      BY ListFacts DEF RowInv, n, IsList
    <2>2. NoSession.receipts = <<>> /\ IsSession(NoSession)
      BY DEF NoSession, IsSession
    <2>3. Len(<<>>) = 0 /\ IsList(<<>>)
      BY DEF IsList
    <2> QED
      BY <2>1, <2>2, <2>3 DEF HistoryInv, At, NoSession
  <1>2. StageOf(pc'[w]) = "model"
    BY DEF StageOf, ModelPCs
  <1>3. \A i \in 1..0 : FALSE
    OBVIOUS
  <1>4. Standing(h, w)'
    <2>1. On(h, w)'
      BY <1>1, <1>2 DEF On, At, StageOf
    <2> QED
      BY <1>1, <1>3, <2>1 DEF Standing, IsList
  <1> QED
    BY <1>1, <1>4 DEF SessionOK, Holding, IsSession

LEMMA OpenStep ==
    ASSUME NEW h, WalkInv(h), NEW w \in Workers, Open(w)
    PROVE  WalkInv(h)'
  <1>1. /\ pc[w] = "open" /\ ledger' = Opened(Binding[w]) /\ artifacts' = artifacts
        /\ dispatched' = dispatched /\ sess[w] = NoSession /\ Binding[w] # Nil
    BY LoopAssumption DEF Open, WalkInv, SessionInv, SessionOK
  <1>2. CASE ledger'.binding # Binding[w]
    <2>1. Raise(w)
      BY <1>2 DEF Open
    <2>2. ledger' = ledger
      BY <1>1, <1>2 DEF Opened, Row
    <2> QED
      BY <1>1, <2>1, <2>2, Raising
  <1>3. CASE ledger'.binding = Binding[w]
    <2>1. /\ Goto(w, "authority") /\ answers' = answers /\ "authority" \in PCs
      BY <1>3 DEF Open, PCs
    <2>2. pc'[w] = "authority" /\ sess' = sess /\ Others(w) /\ TablesNext
      BY <2>1, GotoFacts DEF WalkInv
    <2>3. CASE ledger' = ledger
      <3>1. HistoryInv(h)' /\ RowInv' /\ AnswerInv(h)'
        BY <1>1, <2>1, <2>3, HistoryKept DEF WalkInv, RowInv, AnswerInv, n, m, IsRow, IsList
      <3>2. SessionOK(h, w)'
        BY <1>1, <1>3, <2>2, <3>1, Beginning
      <3> QED
        BY <1>1, <2>2, <2>3, <3>1, <3>2, QuietStep DEF Holding
    <2>4. CASE ledger = Row(Nil) /\ ledger' = Row(Binding[w])
      <3>1. /\ ledger.binding = Nil /\ ledger.charges = <<>> /\ ledger.completions = <<>>
            /\ ledger'.charges = <<>> /\ ledger'.completions = <<>>
        BY <2>4 DEF Row
      <3>2. n = 0 /\ m = 0 /\ n' = 0 /\ m' = 0
        BY <3>1 DEF n, m
      <3>3. Tables'
        BY <2>2 DEF TablesNext, Tables
      <3>4. RowInv'
        <4>1. IsRow(ledger)'
          BY <2>4 DEF IsRow, Row
        <4>2. IsList(<<>>)
          BY DEF IsList
        <4> QED
          BY <1>1, <1>3, <3>1, <3>2, <4>1, <4>2 DEF RowInv, IsList
      <3>5. AloneInv'
        BY <2>2 DEF WalkInv, AloneInv, Others, Holding
      <3>6. DispatchInv'
        BY <1>1, <3>1 DEF WalkInv, DispatchInv, Charged
      <3>7. HistoryInv(h)'
        <4>1. \A k \in 1..0 : FALSE
          OBVIOUS
        <4> QED
          BY <3>2, <4>1 DEF WalkInv, HistoryInv
      <3>8. AnswerInv(h)'
        BY <2>1, <3>2 DEF WalkInv, AnswerInv
      <3>9. ASSUME NEW v \in Workers PROVE SessionOK(h, v)'
        <4>1. CASE v = w
          BY <1>1, <1>3, <2>2, <3>4, <3>7, <4>1, Beginning
        <4>2. CASE v # w
          <5>1. pc[v] \in {"idle", "open"}
            BY <3>1, LoopAssumption DEF WalkInv, SessionInv, SessionOK, Standing
          <5>2. sess[v] = NoSession /\ IsSession(sess[v])
            BY <5>1 DEF WalkInv, SessionInv, SessionOK
          <5> QED
            BY <2>2, <4>2, <5>1, <5>2 DEF SessionOK, Holding, IsSession, Others
        <4> QED
          BY <4>1, <4>2
      <3> QED
        BY <3>3, <3>4, <3>5, <3>6, <3>7, <3>8, <3>9 DEF WalkInv, SessionInv
    <2> QED
      BY <1>1, <2>3, <2>4 DEF Opened
  <1> QED
    BY <1>2, <1>3

LEMMA FinalStep ==
    ASSUME NEW h, WalkInv(h), NEW w \in Workers, Final(w)
    PROVE  WalkInv(h)'
  <1>1. /\ pc[w] = "final" /\ ledger' = ledger /\ artifacts' = artifacts
        /\ dispatched' = dispatched
    BY DEF Final
  <1>2. PICK reason \in {"FINISHED"} \cup AuthorityFailures : Return(w, reason, sess[w].receipts)
    BY DEF Final
  <1>3. /\ Left(w) /\ TablesNext
        /\ \/ answers' = answers
           \/ answers' = answers \cup {[reason |-> reason, receipts |-> sess[w].receipts]}
    BY <1>2, ReturnFacts DEF WalkInv
  <1>4. CASE reason \in AuthorityFailures
    <2>1. reason \notin Decisive
      BY <1>4 DEF AuthorityFailures, Decisive
    <2> QED
      BY <1>1, <1>2, <2>1, Returning
  <1>5. CASE reason = "FINISHED"
    <2> DEFINE a == [reason |-> reason, receipts |-> sess[w].receipts]
               r == sess[w].receipts
    <2>0. pc[w] \notin {"idle", "open"} /\ StageOf(pc[w]) = "end"
      BY <1>1, StagesOfPCs
    <2>1. /\ Len(r) \in 0..n /\ IsList(r)
          /\ \A i \in 1..Len(r) : r[i] = ledger.completions[i].artifact
          /\ h[Len(r)].stage = "end"
      BY <1>1, <2>0, OnTrack, Position
    <2>2. Len(r) = n
      BY <2>1, AtTheEnd DEF WalkInv
    <2>3. n > 0 /\ ledger.completions[n].artifact.result.status = "OK"
      BY <1>1 DEF WalkInv, SessionInv, SessionOK
    <2>4. DOMAIN ledger.completions = 1..n
      BY Numbers DEF WalkInv
    <2>5. r = [i \in 1..Len(r) |-> r[i]]
      BY <2>1 DEF IsList
    <2> HIDE DEF r
    <2>6. r = [i \in DOMAIN ledger.completions |-> ledger.completions[i].artifact]
      BY <2>1, <2>2, <2>4, <2>5
    <2>7. a.receipts = r /\ a.reason = "FINISHED"
      BY <1>5 DEF r
    <2> HIDE DEF a
    <2>8. /\ h[n].stage = "end" /\ n > 0
          /\ a.receipts = [i \in DOMAIN ledger.completions |-> ledger.completions[i].artifact]
          /\ a.reason = "FINISHED" <=> ledger.completions[n].artifact.result.status = "OK"
      BY <2>1, <2>2, <2>3, <2>6, <2>7
    <2>9. \A b \in answers' : b \in answers \/ b = a
      BY <1>3 DEF a
    <2>10. AnswerInv(h)'
      BY <1>1, <2>8, <2>9 DEF WalkInv, AnswerInv, n
    <2> QED
      BY <1>1, <1>3, <2>10, LeftOK, QuietStep DEF Left
  <1> QED
    BY <1>2, <1>4, <1>5

LEMMA SamePrompt ==
    ASSUME NEW w, SamePoint(sess'[w], sess[w])
    PROVE  Prompt(w)' = Prompt(w)
  BY DEF SamePoint, Prompt, Op, Context

LEMMA ModelStep ==
    ASSUME NEW h, WalkInv(h), NEW w \in Workers, Model(w)
    PROVE  WalkInv(h)'
  <1> DEFINE s == sess[w]
             op == Op("model", s)
  <1>1. /\ pc[w] = "model" /\ ledger' = ledger /\ dispatched' = dispatched
        /\ pc[w] \notin {"idle", "open"} /\ StageOf(pc[w]) = "model"
    BY DEF Model, StageOf, ModelPCs
  <1>2. IsSession(s) /\ Standing(h, w) /\ On(h, w)
    BY <1>1, OnTrack DEF WalkInv, SessionInv, SessionOK
  <1>3. Charged(ledger, op) <=> Len(s.receipts) < m
    BY <1>1, <1>2, View
  <1>4. AnswerInv(h) /\ Tables
    BY DEF WalkInv
  <1>5. CASE Charged(ledger, op)
    <2>1. Goto(w, "model_restore") /\ answers' = answers /\ artifacts' = artifacts
      BY <1>5 DEF Model
    <2>2. pc'[w] = "model_restore" /\ sess' = sess /\ Others(w) /\ TablesNext
      BY <1>4, <2>1, GotoFacts DEF PCs
    <2>3. StageOf(pc'[w]) = "model"
      BY <2>2 DEF StageOf, ModelPCs
    <2>4. Standing(h, w)'
      BY <1>1, <1>2, <2>2, <2>3, StandsStill
    <2>5. Len(sess'[w].receipts) < m'
      BY <1>1, <1>3, <1>5, <2>2 DEF m
    <2>6. SessionOK(h, w)'
      BY <1>2, <2>2, <2>4, <2>5 DEF SessionOK, Holding, IsSession
    <2>7. AnswerInv(h)'
      BY <1>1, <1>4, <2>1 DEF AnswerInv, n
    <2> QED
      BY <1>1, <2>1, <2>2, <2>6, <2>7, QuietStep DEF Holding
  <1>6. CASE ~Charged(ledger, op) /\ Len(s.evidence) > PromptItems
    <2>1. Return(w, "BUDGET_EXHAUSTED", s.receipts) /\ artifacts' = artifacts
          /\ "BUDGET_EXHAUSTED" \notin Decisive
      BY <1>6 DEF Model, Decisive
    <2> QED
      BY <1>1, <2>1, Returning
  <1>7. CASE ~Charged(ledger, op) /\ ~(Len(s.evidence) > PromptItems)
    <2> DEFINE t == [s EXCEPT !.expected = ledger]
    <2>1. Proceed(w, "model_reserve", t) /\ artifacts' = artifacts \cup {Prompt(w)} /\ answers' = answers
      BY <1>7 DEF Model
    <2>2. SamePoint(t, s) /\ t.expected = ledger
      BY <1>2, Fields
    <2> HIDE DEF t
    <2>3. pc'[w] = "model_reserve" /\ sess'[w] = t /\ Others(w) /\ TablesNext
      BY <1>4, <2>1, ProceedFacts DEF PCs
    <2>4. StageOf(pc'[w]) = "model"
      BY <2>3 DEF StageOf, ModelPCs
    <2>5. Standing(h, w)'
      BY <1>1, <1>2, <2>2, <2>3, <2>4, StandsStill DEF SamePoint
    <2>6. Prompt(w)' \in artifacts'
      BY <2>1, <2>2, <2>3, SamePrompt
    <2>7. ~Charged(sess'[w].expected, Op(StageOf(pc'[w]), sess'[w]))
      BY <1>7, <2>2, <2>3, <2>4 DEF SamePoint
    <2>8. ~Charged(sess[w].expected, Op(StageOf(pc[w]), sess[w]))'
      BY <2>7 DEF Charged, Op, StageOf
    <2>9. SessionOK(h, w)'
      BY <2>2, <2>3, <2>5, <2>6, <2>8 DEF SessionOK, Holding, IsSession, SamePoint
    <2>10. AnswerInv(h)'
      BY <1>1, <1>4, <2>1 DEF AnswerInv, n
    <2> QED
      BY <1>1, <2>1, <2>3, <2>9, <2>10, QuietStep DEF Holding
  <1> QED
    BY <1>5, <1>6, <1>7

LEMMA ReadsStep ==
    ASSUME NEW h, WalkInv(h), NEW w \in Workers, Reads(w)
    PROVE  WalkInv(h)'
  <1> DEFINE s == sess[w]
             op == Op("reads", s)
  <1>1. /\ pc[w] = "reads" /\ ledger' = ledger /\ dispatched' = dispatched /\ artifacts' = artifacts
        /\ pc[w] \notin {"idle", "open"} /\ StageOf(pc[w]) = "reads"
    BY DEF Reads, StageOf, ModelPCs, ReadsPCs
  <1>2. IsSession(s) /\ Standing(h, w)
    BY <1>1 DEF WalkInv, SessionInv, SessionOK
  <1>3. Charged(ledger, op) => Len(s.receipts) < m /\ On(h, w)
    BY <1>1, <1>2, View, NeverCharged DEF Standing
  <1>4. AnswerInv(h) /\ Tables
    BY DEF WalkInv
  <1>5. CASE Charged(ledger, op) /\ ~(ChargeOf(ledger, op).work # s.requests)
    <2>1. Goto(w, "reads_restore") /\ answers' = answers
      BY <1>5 DEF Reads
    <2>2. pc'[w] = "reads_restore" /\ sess' = sess /\ Others(w) /\ TablesNext
      BY <1>4, <2>1, GotoFacts DEF PCs
    <2>3. StageOf(pc'[w]) = "reads"
      BY <2>2 DEF StageOf, ModelPCs, ReadsPCs
    <2>4. Standing(h, w)'
      BY <1>1, <1>2, <1>3, <1>5, <2>2, <2>3, StandsStill
    <2>5. Len(sess'[w].receipts) < m'
      BY <1>1, <1>3, <1>5, <2>2 DEF m
    <2>6. SessionOK(h, w)'
      BY <1>2, <2>2, <2>4, <2>5 DEF SessionOK, Holding, IsSession
    <2>7. AnswerInv(h)'
      BY <1>1, <1>4, <2>1 DEF AnswerInv, n
    <2> QED
      BY <1>1, <2>1, <2>2, <2>6, <2>7, QuietStep DEF Holding
  <1>6. CASE Charged(ledger, op) /\ ChargeOf(ledger, op).work # s.requests
    <2>1. Raise(w)
      BY <1>6 DEF Reads
    <2> QED
      BY <1>1, <2>1, Raising
  <1>7. CASE ~Charged(ledger, op)
    <2> DEFINE t == [s EXCEPT !.expected = ledger]
    <2>1. Proceed(w, "reads_reserve", t) /\ answers' = answers
      BY <1>7 DEF Reads
    <2>2. SamePoint(t, s) /\ t.expected = ledger
      BY <1>2, Fields
    <2> HIDE DEF t
    <2>3. pc'[w] = "reads_reserve" /\ sess'[w] = t /\ Others(w) /\ TablesNext
      BY <1>4, <2>1, ProceedFacts DEF PCs
    <2>4. StageOf(pc'[w]) = "reads"
      BY <2>3 DEF StageOf, ModelPCs, ReadsPCs
    <2>5. Standing(h, w)'
      BY <1>1, <1>2, <2>2, <2>3, <2>4, StandsStill DEF SamePoint
    <2>7. ~Charged(sess'[w].expected, Op(StageOf(pc'[w]), sess'[w]))
      BY <1>7, <2>2, <2>3, <2>4 DEF SamePoint
    <2>8. ~Charged(sess[w].expected, Op(StageOf(pc[w]), sess[w]))'
      BY <2>7 DEF Charged, Op, StageOf
    <2>11. CopyInv(w)'
      <3>1. IsList(ledger.charges) /\ n \in Nat /\ m \in Nat /\ n <= m /\ Len(s.receipts) \in 0..n
        BY <1>1, Numbers, Place DEF WalkInv, RowInv
      <3>2. Len(ledger.charges) = m /\ m \in Len(s.receipts)..m
        BY <3>1 DEF m
      <3>3. m' = m /\ sess'[w].receipts = s.receipts /\ sess'[w].expected = ledger /\ ledger' = ledger
        BY <1>1, <2>2, <2>3 DEF m, SamePoint
      <3> QED
        BY <3>1, <3>2, <3>3 DEF CopyInv, IsList
    <2>9. SessionOK(h, w)'
      BY <2>2, <2>3, <2>5, <2>8, <2>11 DEF SessionOK, Holding, IsSession, SamePoint
    <2>10. AnswerInv(h)'
      BY <1>1, <1>4, <2>1 DEF AnswerInv, n
    <2> QED
      BY <1>1, <2>3, <2>9, <2>10, QuietStep DEF Holding
  <1> QED
    BY <1>5, <1>6, <1>7

LEMMA ModelPublishStep ==
    ASSUME NEW h, WalkInv(h), NEW w \in Workers, ModelPublish(w)
    PROVE  WalkInv(h)'
  <1> DEFINE s == sess[w]
             t == [s EXCEPT !.expected = ledger]
  <1>1. /\ pc[w] = "model_publish" /\ ledger' = ledger /\ dispatched' = dispatched
        /\ artifacts' = artifacts \cup {ModelReceipt(w)} /\ answers' = answers
        /\ Proceed(w, "model_complete", t)
        /\ StageOf(pc[w]) = "model" /\ StageOf("model_complete") = "model"
    BY DEF ModelPublish, Publish, StageOf, ModelPCs
  <1>2. IsSession(s) /\ Standing(h, w) /\ Holds(w)
    BY <1>1 DEF WalkInv, SessionInv, SessionOK, Holding
  <1>3. SamePoint(t, s) /\ t.expected = ledger /\ t.observed = s.observed
    BY <1>2, Fields
  <1> HIDE DEF t
  <1>4. pc'[w] = "model_complete" /\ sess'[w] = t /\ Others(w) /\ TablesNext
    BY <1>1, ProceedFacts DEF PCs, WalkInv
  <1>5. Standing(h, w)'
    BY <1>1, <1>2, <1>3, <1>4, StandsStill, OnTrack DEF SamePoint
  <1>6. ModelReceipt(w)' = ModelReceipt(w)
    BY <1>3, <1>4, SamePrompt DEF ModelReceipt, SamePoint, Op
  <1>7. Holds(w)'
    BY <1>1, <1>2, <1>3, <1>4, <1>6 DEF Holds, SamePoint, n, m
  <1>8. SessionOK(h, w)'
    BY <1>3, <1>4, <1>5, <1>7 DEF SessionOK, IsSession, SamePoint
  <1>9. AnswerInv(h)'
    BY <1>1 DEF WalkInv, AnswerInv, n
  <1> QED
    BY <1>1, <1>4, <1>8, <1>9, QuietStep DEF Holding

LEMMA ReadsPublishStep ==
    ASSUME NEW h, WalkInv(h), NEW w \in Workers, ReadsPublish(w)
    PROVE  WalkInv(h)'
  <1> DEFINE s == sess[w]
             t == [s EXCEPT !.expected = ledger]
  <1>1. /\ pc[w] = "reads_publish" /\ ledger' = ledger /\ dispatched' = dispatched
        /\ artifacts' = artifacts \cup {ReadReceipt(w)} /\ answers' = answers
        /\ Proceed(w, "reads_complete", t)
        /\ StageOf(pc[w]) = "reads" /\ StageOf("reads_complete") = "reads"
    BY DEF ReadsPublish, Publish, StageOf, ModelPCs, ReadsPCs
  <1>2. IsSession(s) /\ Standing(h, w) /\ Holds(w)
    BY <1>1 DEF WalkInv, SessionInv, SessionOK, Holding
  <1>3. SamePoint(t, s) /\ t.expected = ledger /\ t.observed = s.observed
    BY <1>2, Fields
  <1> HIDE DEF t
  <1>4. pc'[w] = "reads_complete" /\ sess'[w] = t /\ Others(w) /\ TablesNext
    BY <1>1, ProceedFacts DEF PCs, WalkInv
  <1>5. Standing(h, w)'
    BY <1>1, <1>2, <1>3, <1>4, StandsStill, OnTrack DEF SamePoint
  <1>6. ReadReceipt(w)' = ReadReceipt(w)
    BY <1>3, <1>4 DEF ReadReceipt, SamePoint, Op
  <1>7. Holds(w)'
    BY <1>1, <1>2, <1>3, <1>4, <1>6 DEF Holds, SamePoint, n, m
  <1>8. SessionOK(h, w)'
    BY <1>3, <1>4, <1>5, <1>7 DEF SessionOK, IsSession, SamePoint
  <1>9. AnswerInv(h)'
    BY <1>1 DEF WalkInv, AnswerInv, n
  <1> QED
    BY <1>1, <1>4, <1>8, <1>9, QuietStep DEF Holding

\* The receipt of the operation at a point leads to the next point.
LEMMA Successor ==
    ASSUME NEW h, WalkInv(h), NEW k \in 0..n, k + 1 \in 1..n
    PROVE  /\ h[k + 1] = Onward(Upto(ledger.charges, k + 1),
                                After(h[k], ledger.completions[k + 1].artifact.result))
           /\ h[k].stage = "model" => ledger.completions[k + 1].artifact.result.status # "FINISHED"
           /\ h[k].stage \in {"model", "reads"} /\ h[k].turn \in Turns
  <1>1. HistoryInv(h)
    BY DEF WalkInv
  <1>2. \A j \in 1..n :
          /\ h[j] = Onward(Upto(ledger.charges, j), After(h[j-1], ledger.completions[j].artifact.result))
          /\ h[j-1].stage = "model" => ledger.completions[j].artifact.result.status # "FINISHED"
    BY <1>1 DEF HistoryInv
  <1>3. (k + 1) - 1 = k /\ k + 1 \in 1..m
    BY Numbers DEF WalkInv
  <1>4. h[k].stage \in Stages /\ h[k].turn \in Turns /\ h[k].stage # "end"
    BY <1>1, <1>3 DEF HistoryInv
  <1> QED
    BY <1>2, <1>3, <1>4 DEF Stages

\* The place of a session that takes the next receipt of the journal.
Comes(h, k, p, rr) ==
  /\ k + 1 \in 0..n /\ k + 1 \in 1..n /\ (k + 1) - 1 = k
  /\ IsList(rr) /\ Len(rr) = k + 1
  /\ \A i \in 1..(k + 1) : rr[i] = ledger.completions[i].artifact
  /\ p.stage \in Stages /\ p.turn \in Turns
  /\ h[k + 1] = Onward(Upto(ledger.charges, k + 1), p)
  /\ p.stage = "end" => k + 1 = n /\ n > 0

LEMMA NextPlace ==
    ASSUME NEW h, WalkInv(h), NEW w \in Workers, pc[w] \notin {"idle", "open"},
           NEW k, k = Len(sess[w].receipts), k < n,
           NEW p, p = After(h[k], ledger.completions[k + 1].artifact.result),
           NEW rr, rr = Append(sess[w].receipts, ledger.completions[k + 1].artifact)
    PROVE  Comes(h, k, p, rr)
  <1>1. n \in Nat
    BY Numbers DEF WalkInv
  <1>2. /\ k \in 0..n /\ IsList(sess[w].receipts)
        /\ \A i \in 1..k : sess[w].receipts[i] = ledger.completions[i].artifact
    BY Place
  <1>3. PICK r, x : r = sess[w].receipts /\ x = ledger.completions[k + 1].artifact
    OBVIOUS
  <1>4. /\ k + 1 \in 0..n /\ k + 1 \in 1..n /\ (k + 1) - 1 = k
        /\ \A i \in 1..(k + 1) : i \in 1..k \/ i = k + 1
    <2>1. \A a, b \in Nat : a < b => /\ a + 1 \in 0..b /\ a + 1 \in 1..b /\ (a + 1) - 1 = a
                                     /\ \A i \in 1..(a + 1) : i \in 1..a \/ i = a + 1
      OBVIOUS
    <2>2. k \in Nat
      BY <1>2
    <2> QED
      BY <1>1, <2>1, <2>2, Zenon
  <1>5. /\ IsList(rr) /\ Len(rr) = k + 1 /\ rr[k + 1] = x /\ \A i \in 1..k : rr[i] = r[i]
    <2>1. IsList(r) /\ rr = Append(r, x) /\ k = Len(r)
      BY <1>2, <1>3
    <2>2. /\ IsList(Append(r, x)) /\ Len(Append(r, x)) = Len(r) + 1
          /\ \A i \in 1..Len(r) : Append(r, x)[i] = r[i]
          /\ Append(r, x)[Len(r) + 1] = x
      BY <2>1, AppendFacts, Zenon
    <2> QED
      BY <2>1, <2>2, Zenon
  <1>6. \A i \in 1..(k + 1) : rr[i] = ledger.completions[i].artifact
    BY <1>2, <1>3, <1>4, <1>5, Zenon
  <1>7. /\ h[k + 1] = Onward(Upto(ledger.charges, k + 1), p)
        /\ h[k].stage \in {"model", "reads"} /\ h[k].turn \in Turns
    BY <1>2, <1>4, Successor
  <1>8. p.stage \in Stages /\ p.turn \in Turns
    <2>1. PICK a, res : a = h[k] /\ p = After(a, res)
      OBVIOUS
    <2>2. a.stage \in {"model", "reads"} /\ a.turn \in Turns
      BY <1>7, <2>1
    <2>3. After(a, res).stage \in Stages /\ After(a, res).turn \in Turns
      BY <2>2, AfterFacts
    <2> QED
      BY <2>1, <2>3, Zenon
  <1>9. p.stage = "end" => k + 1 = n /\ n > 0
    <2>1. SUFFICES ASSUME p.stage = "end" PROVE k + 1 = n /\ n > 0
      OBVIOUS
    <2>2. ~Refused(Upto(ledger.charges, k + 1), p)
      BY <2>1 DEF Refused
    <2>3. h[k + 1].stage = "end"
      BY <1>7, <2>1, <2>2, Zenon DEF Onward
    <2>4. k + 1 = n
      BY <1>4, <2>3, AtTheEnd DEF WalkInv
    <2> QED
      BY <1>2, <2>4
  <1> QED
    BY <1>4, <1>5, <1>6, <1>7, <1>8, <1>9 DEF Comes

\* The session takes the next receipt of the journal and stands at the point it leads to.
LEMMA GoesOnStep ==
    ASSUME NEW h, WalkInv(h), NEW w \in Workers, pc[w] \notin {"idle", "open"},
           NEW k, k = Len(sess[w].receipts), k < n,
           NEW p, p = After(h[k], ledger.completions[k + 1].artifact.result),
           GoesOn(w, p, Append(sess[w].receipts, ledger.completions[k + 1].artifact)),
           pc'[w] = "final" => ledger.completions[k + 1].artifact.result.status = "OK",
           TablesNext, ledger' = ledger, artifacts' = artifacts, dispatched' = dispatched,
           AnswerInv(h)'
    PROVE  WalkInv(h)'
  <1>1. PICK rr : rr = Append(sess[w].receipts, ledger.completions[k + 1].artifact)
    OBVIOUS
  <1>2. /\ k + 1 \in 0..n /\ k + 1 \in 1..n /\ (k + 1) - 1 = k
        /\ IsList(rr) /\ Len(rr) = k + 1
        /\ \A i \in 1..(k + 1) : rr[i] = ledger.completions[i].artifact
        /\ p.stage \in Stages /\ p.turn \in Turns
        /\ h[k + 1] = Onward(Upto(ledger.charges, k + 1), p)
        /\ p.stage = "end" => k + 1 = n /\ n > 0
    <2>1. Comes(h, k, p, rr)
      BY <1>1, NextPlace, Zenon
    <2> QED
      BY <2>1, Zenon DEF Comes
  <1>3. Binding[w] = ledger.binding
    BY Place
  <1>6. /\ pc'[w] = PcAt(p.stage) /\ At(p.stage, sess'[w]) = p /\ sess'[w].receipts = rr
        /\ IsSession(sess'[w]) /\ Others(w)
    BY <1>1 DEF GoesOn
  <1>7. StageOf(pc'[w]) = p.stage
    BY <1>2, <1>6 DEF PcAt, Stages, StageOf, ModelPCs, ReadsPCs
  <1>8. pc'[w] \in {"authority", "reads", "final"} /\ (pc'[w] = "final" => p.stage = "end")
    BY <1>2, <1>6 DEF PcAt, Stages
  <1>9. Standing(h, w)'
    <2>1. n' = n
      BY DEF n
    <2>2. On(h, w)' \/ Barred(h, w)'
      <3>1. CASE Refused(Upto(ledger.charges, k + 1), p)
        <4>1. p.stage = "reads" /\ pc'[w] = "reads"
          BY <1>6, <3>1 DEF Refused, PcAt
        <4>2. At("reads", sess'[w]) = p /\ Len(sess'[w].receipts) = k + 1
          BY <1>2, <1>6, <4>1
        <4>3. At("reads", sess[w])' = p
          BY <4>2 DEF At
        <4> QED
          BY <1>2, <2>1, <3>1, <4>1, <4>2, <4>3 DEF Barred
      <3>2. CASE ~Refused(Upto(ledger.charges, k + 1), p)
        <4>1. h[Len(sess'[w].receipts)] = At(StageOf(pc'[w]), sess'[w])
          BY <1>2, <1>6, <1>7, <3>2 DEF Onward
        <4> QED
          BY <4>1 DEF On, At, StageOf
      <3> QED
        BY <3>1, <3>2
    <2>4. IsList(sess[w].receipts)'
      BY <1>2, <1>6 DEF IsList
    <2> QED
      BY <1>2, <1>3, <1>6, <2>1, <2>2, <2>4 DEF Standing
  <1>10. pc'[w] = "final" => n' > 0 /\ ledger'.completions[n'].artifact.result.status = "OK"
    <2>1. n' = n
      BY DEF n
    <2>2. pc'[w] = "final" => k + 1 = n /\ n > 0
      BY <1>2, <1>8
    <2> QED
      BY <2>1, <2>2
  <1>11. SessionOK(h, w)'
    BY <1>6, <1>8, <1>9, <1>10 DEF SessionOK, Holding, IsSession
  <1> QED
    BY <1>6, <1>8, <1>11, QuietStep DEF Holding

LEMMA ModelRestoreStep ==
    ASSUME NEW h, WalkInv(h), NEW w \in Workers, ModelRestore(w)
    PROVE  WalkInv(h)'
  <1> DEFINE s == sess[w]
             k == Len(s.receipts)
             op == Op("model", s)
             receipt == CompletionOf(ledger, op)
             t == [s EXCEPT !.receipts = Append(@, receipt)]
  <1>1. /\ pc[w] = "model_restore" /\ ledger' = ledger /\ dispatched' = dispatched
        /\ artifacts' = artifacts /\ pc[w] \notin {"idle", "open"} /\ StageOf(pc[w]) = "model"
    BY DEF ModelRestore, StageOf, ModelPCs
  <1>2. IsSession(s)
    BY DEF WalkInv, SessionInv, SessionOK
  <1>3. CASE ~PromptMatches(w)
    <2>1. Raise(w)
      BY <1>3 DEF ModelRestore
    <2> QED
      BY <1>1, <2>1, Raising
  <1>4. CASE PromptMatches(w) /\ ~Settled(ledger, op)
    <2>1. Return(w, "UNKNOWN_COMPLETION", s.receipts) /\ "UNKNOWN_COMPLETION" \notin Decisive
      BY <1>4 DEF ModelRestore, Decisive
    <2> QED
      BY <1>1, <2>1, Returning
  <1>5. CASE PromptMatches(w) /\ Settled(ledger, op) /\ ~ReceiptMatches(receipt, op, Prompt(w))
    <2>1. Raise(w)
      BY <1>5 DEF ModelRestore
    <2> QED
      BY <1>1, <2>1, Raising
  <1>6. CASE PromptMatches(w) /\ Settled(ledger, op) /\ ReceiptMatches(receipt, op, Prompt(w))
    <2>1. Decide(w, t, receipt.result)
      BY <1>6 DEF ModelRestore
    <2>0. On(h, w)
      BY <1>1, OnTrack
    <2>2. k < n /\ receipt = ledger.completions[k + 1].artifact
      BY <1>1, <1>6, <2>0, View
    <2>3. /\ k \in 0..n /\ IsList(s.receipts) /\ h[k] = At("model", s) /\ h[k].stage = "model"
          /\ \A i \in 1..k : s.receipts[i] = ledger.completions[i].artifact
      BY <1>1, <2>0, Position
    <2>4. n \in Nat /\ DOMAIN ledger.completions = 1..n
      BY Numbers DEF WalkInv
    <2>5. k + 1 \in 1..n /\ k \in Nat
      BY <2>2, <2>3, <2>4
    <2> DEFINE rr == Append(s.receipts, receipt)
    <2>6. /\ IsSession(t) /\ t.receipts = rr /\ t.turn = s.turn
          /\ t.evidence = s.evidence /\ t.preferred = s.preferred /\ t.invalid = s.invalid
          /\ t.done = s.done /\ t.requests = s.requests
      BY <1>2 DEF IsSession
    <2>7. /\ IsList(rr) /\ Len(rr) = k + 1 /\ \A i \in 1..k : rr[i] = s.receipts[i]
          /\ rr[k + 1] = receipt
      BY <2>3, AppendFacts
    <2> HIDE DEF t, rr, receipt, k
    <2>8. At("model", t) = h[k]
      BY <2>3, <2>6 DEF At
    <2>15. PICK p : p = After(h[k], receipt.result)
      OBVIOUS
    <2>9. /\ h[k + 1] = Onward(Upto(ledger.charges, k + 1), p) /\ receipt.result.status # "FINISHED"
          /\ p.stage \in Stages /\ p.turn \in Turns
      BY <2>2, <2>3, <2>5, <2>15, Successor, AfterFacts
    <2>10. p = Decided(At("model", t), receipt.result)
      BY <2>3, <2>8, <2>15 DEF After
    <2>16. p.stage = "end" => h[k + 1].stage = "end"
      BY <2>9, OnwardFacts
    <2>11. /\ Left(w) \/ GoesOn(w, p, rr)
           /\ TablesNext
           /\ pc'[w] = "final" => receipt.result.status = "OK"
           /\ \/ answers' = answers
              \/ /\ h[k + 1].stage = "end" /\ receipt.result.status # "OK"
                 /\ answers' = answers \cup {[reason |-> receipt.result.status, receipts |-> rr]}
      BY <2>1, <2>6, <2>10, <2>16, DecideFacts DEF WalkInv
    <2>12. AnswerInv(h)'
      <3>1. CASE answers' = answers
        BY <1>1, <3>1 DEF WalkInv, AnswerInv, n
      <3>2. CASE /\ h[k + 1].stage = "end" /\ receipt.result.status # "OK"
                 /\ answers' = answers \cup {[reason |-> receipt.result.status, receipts |-> rr]}
        <4> DEFINE a == [reason |-> receipt.result.status, receipts |-> rr]
        <4>1. k + 1 = n
          BY <2>4, <2>5, <3>2, AtTheEnd DEF WalkInv
        <4>2. rr = [i \in 1..Len(rr) |-> rr[i]]
          BY <2>7 DEF IsList
        <4>3. \A i \in 1..n : i \in 1..k \/ i = k + 1
          BY <2>5, <4>1
        <4>4. \A i \in 1..n : rr[i] = ledger.completions[i].artifact
          BY <2>2, <2>3, <2>7, <4>3
        <4>5. rr = [i \in DOMAIN ledger.completions |-> ledger.completions[i].artifact]
          BY <2>4, <2>7, <4>1, <4>2, <4>4
        <4>6. a.receipts = rr /\ a.reason = receipt.result.status
          OBVIOUS
        <4> HIDE DEF a
        <4>7. /\ h[n].stage = "end" /\ n > 0
              /\ a.receipts = [i \in DOMAIN ledger.completions |-> ledger.completions[i].artifact]
              /\ a.reason = "FINISHED" <=> ledger.completions[n].artifact.result.status = "OK"
          BY <2>2, <2>4, <2>5, <2>9, <3>2, <4>1, <4>5, <4>6
        <4>8. \A b \in answers' : b \in answers \/ b = a
          BY <3>2 DEF a
        <4> QED
          BY <1>1, <4>7, <4>8 DEF WalkInv, AnswerInv, n
      <3> QED
        BY <2>11, <3>1, <3>2
    <2>13. CASE Left(w)
      BY <1>1, <2>11, <2>12, <2>13, LeftOK, QuietStep DEF Left
    <2>14. CASE GoesOn(w, p, rr)
      BY <1>1, <2>2, <2>11, <2>12, <2>14, <2>15, GoesOnStep DEF rr, k
    <2> QED
      BY <2>11, <2>13, <2>14
  <1> QED
    BY <1>3, <1>4, <1>5, <1>6

LEMMA ReadsRestoreStep ==
    ASSUME NEW h, WalkInv(h), NEW w \in Workers, ReadsRestore(w)
    PROVE  WalkInv(h)'
  <1> DEFINE s == sess[w]
             k == Len(s.receipts)
             op == Op("reads", s)
             receipt == CompletionOf(ledger, op)
             t == [s EXCEPT !.receipts = Append(@, receipt)]
  <1>1. /\ pc[w] = "reads_restore" /\ ledger' = ledger /\ dispatched' = dispatched
        /\ artifacts' = artifacts /\ pc[w] \notin {"idle", "open"} /\ StageOf(pc[w]) = "reads"
    BY DEF ReadsRestore, StageOf, ModelPCs, ReadsPCs
  <1>2. IsSession(s)
    BY DEF WalkInv, SessionInv, SessionOK
  <1>3. CASE ~Settled(ledger, op)
    <2>1. Return(w, "UNKNOWN_COMPLETION", s.receipts) /\ "UNKNOWN_COMPLETION" \notin Decisive
      BY <1>3 DEF ReadsRestore, Decisive
    <2> QED
      BY <1>1, <2>1, Returning
  <1>4. CASE Settled(ledger, op) /\ ~ReceiptMatches(receipt, op, s.requests)
    <2>1. Raise(w)
      BY <1>4 DEF ReadsRestore
    <2> QED
      BY <1>1, <2>1, Raising
  <1>5. CASE Settled(ledger, op) /\ ReceiptMatches(receipt, op, s.requests)
    <2>1. Accept(w, t, receipt.result)
      BY <1>5 DEF ReadsRestore
    <2>0. On(h, w)
      BY <1>1, OnTrack
    <2>2. k < n /\ receipt = ledger.completions[k + 1].artifact
      BY <1>1, <1>5, <2>0, View
    <2>3. k \in 0..n /\ h[k] = At("reads", s) /\ h[k].stage = "reads"
      BY <1>1, <2>0, Position
    <2>4. n \in Nat
      BY Numbers DEF WalkInv
    <2>5. k + 1 \in 1..n
      BY <2>2, <2>3, <2>4
    <2> DEFINE rr == Append(s.receipts, receipt)
    <2>6. /\ IsSession(t) /\ t.receipts = rr /\ t.turn = s.turn
          /\ t.evidence = s.evidence /\ t.preferred = s.preferred /\ t.invalid = s.invalid
          /\ t.done = s.done /\ t.requests = s.requests
      BY <1>2 DEF IsSession
    <2> HIDE DEF t, rr, receipt, k
    <2>7. At("reads", t) = h[k]
      BY <2>3, <2>6 DEF At
    <2>8. PICK p : p = After(h[k], receipt.result)
      OBVIOUS
    <2>9. p = Accepted(At("reads", t), receipt.result)
      BY <2>3, <2>7, <2>8 DEF After
    <2>10. /\ Left(w) \/ GoesOn(w, p, rr)
           /\ TablesNext /\ answers' = answers /\ pc'[w] # "final"
      BY <2>1, <2>6, <2>9, AcceptFacts DEF WalkInv
    <2>11. AnswerInv(h)'
      BY <1>1, <2>10 DEF WalkInv, AnswerInv, n
    <2>12. CASE Left(w)
      BY <1>1, <2>10, <2>11, <2>12, LeftOK, QuietStep DEF Left
    <2>13. CASE GoesOn(w, p, rr)
      BY <1>1, <2>2, <2>8, <2>10, <2>11, <2>13, GoesOnStep DEF rr, k
    <2> QED
      BY <2>10, <2>12, <2>13
  <1> QED
    BY <1>3, <1>4, <1>5

-----------------------------------------------------------------------------
(* The holder of the reservation dispatches it.                            *)

LEMMA DispatchedByHolder ==
    ASSUME NEW h, WalkInv(h), NEW w \in Workers, pc[w] \in {"model_dispatch", "reads_dispatch"},
           NEW op, op = Op(StageOf(pc[w]), sess[w]),
           dispatched' = [dispatched EXCEPT ![op] = @ + 1],
           ledger' = ledger, artifacts' = artifacts, answers' = answers,
           TablesNext, Others(w), SessionOK(h, w)'
    PROVE  WalkInv(h)'
  <1>1. Tables'
    BY DEF TablesNext, Tables
  <1>2. RowInv' /\ AnswerInv(h)'
    BY DEF WalkInv, RowInv, AnswerInv, n, m, IsRow, IsList
  <1>3. AloneInv'
    BY DEF WalkInv, AloneInv, Others, Holding
  <1>4. Holds(w)
    BY DEF WalkInv, SessionInv, SessionOK, Holding
  <1>5. StageOf(pc[w]) \in Kinds
    BY DEF StageOf, ModelPCs, ReadsPCs, Kinds
  <1>6. n \in Nat /\ m \in Nat
    BY Numbers DEF WalkInv
  <1>7. Charged(ledger, op) /\ op \in Operations /\ dispatched[op] = 0
    <2>1. Charged(ledger, op) <=> Len(sess[w].receipts) < m
      BY OnTrack, View
    <2> QED
      BY <1>4, <1>5, <1>6, <2>1, OnTrack, Position DEF Holds
  <1>8. DispatchInv'
    <2>1. /\ dispatched \in [Operations -> Nat]
          /\ \A o \in Operations : dispatched[o] <= 1 /\ (dispatched[o] = 1 => Charged(ledger, o))
      BY DEF WalkInv, DispatchInv
    <2>2. dispatched' \in [Operations -> Nat]
      BY <1>7, <2>1
    <2>3. dispatched'[op] = 1 /\ \A o \in Operations : o # op => dispatched'[o] = dispatched[o]
      BY <1>7, <2>1
    <2>4. \A o : Charged(ledger, o)' <=> Charged(ledger, o)
      BY DEF Charged
    <2> QED
      BY <1>7, <2>1, <2>2, <2>3, <2>4 DEF DispatchInv
  <1>9. HistoryInv(h)'
    BY HistoryKept DEF WalkInv
  <1>10. ASSUME NEW v \in Workers, v # w PROVE SessionOK(h, v)'
    <2>1. pc[v] \notin Holding
      BY <1>10 DEF WalkInv, AloneInv, Holding
    <2> QED
      BY <1>10, <2>1, SessionKept DEF WalkInv, SessionInv, Others
  <1> QED
    BY <1>1, <1>2, <1>3, <1>8, <1>9, <1>10 DEF WalkInv, SessionInv

LEMMA ModelDispatchStep ==
    ASSUME NEW h, WalkInv(h), NEW w \in Workers, ModelDispatch(w)
    PROVE  WalkInv(h)'
  <1> DEFINE s == sess[w]
             op == Op("model", s)
  <1>1. /\ pc[w] = "model_dispatch" /\ ledger' = ledger /\ artifacts' = artifacts /\ answers' = answers
        /\ dispatched' = [dispatched EXCEPT ![op] = @ + 1]
        /\ StageOf(pc[w]) = "model" /\ StageOf("model_publish") = "model"
    BY DEF ModelDispatch, Dispatch, StageOf, ModelPCs
  <1>2. PICK r \in Observations : Proceed(w, "model_publish", [s EXCEPT !.observed = r])
    BY DEF ModelDispatch, Dispatch
  <1>3. r.status # "FINISHED"
    BY DEF Observations, Observation, AuthorityFailures
  <1> DEFINE t == [s EXCEPT !.observed = r]
  <1>4. IsSession(s) /\ Standing(h, w) /\ Holds(w)
    BY <1>1 DEF WalkInv, SessionInv, SessionOK, Holding
  <1>5. SamePoint(t, s) /\ t.observed = r
    BY <1>4, Fields
  <1>6. pc'[w] = "model_publish" /\ sess'[w] = t /\ Others(w) /\ TablesNext
    BY <1>2, ProceedFacts DEF PCs, WalkInv
  <1> HIDE DEF t
  <1>7. Standing(h, w)'
    BY <1>1, <1>4, <1>5, <1>6, StandsStill, OnTrack DEF SamePoint
  <1>8. Holds(w)'
    BY <1>1, <1>3, <1>4, <1>5, <1>6 DEF Holds, SamePoint, n, m
  <1>9. SessionOK(h, w)'
    BY <1>5, <1>6, <1>7, <1>8 DEF SessionOK, IsSession, SamePoint
  <1> QED
    BY <1>1, <1>6, <1>9, DispatchedByHolder

LEMMA ReadsDispatchStep ==
    ASSUME NEW h, WalkInv(h), NEW w \in Workers, ReadsDispatch(w)
    PROVE  WalkInv(h)'
  <1> DEFINE s == sess[w]
             op == Op("reads", s)
  <1>1. /\ pc[w] = "reads_dispatch" /\ ledger' = ledger /\ artifacts' = artifacts /\ answers' = answers
        /\ dispatched' = [dispatched EXCEPT ![op] = @ + 1]
        /\ StageOf(pc[w]) = "reads" /\ StageOf("reads_publish") = "reads"
    BY DEF ReadsDispatch, Dispatch, StageOf, ModelPCs, ReadsPCs
  <1>2. PICK r \in Results(s.requests) : Proceed(w, "reads_publish", [s EXCEPT !.observed = r])
    BY DEF ReadsDispatch, Dispatch
  <1> DEFINE t == [s EXCEPT !.observed = r]
  <1>4. IsSession(s) /\ Standing(h, w) /\ Holds(w)
    BY <1>1 DEF WalkInv, SessionInv, SessionOK, Holding
  <1>5. SamePoint(t, s)
    BY <1>4, Fields
  <1>6. pc'[w] = "reads_publish" /\ sess'[w] = t /\ Others(w) /\ TablesNext
    BY <1>2, ProceedFacts DEF PCs, WalkInv
  <1> HIDE DEF t
  <1>7. Standing(h, w)'
    BY <1>1, <1>4, <1>5, <1>6, StandsStill, OnTrack DEF SamePoint
  <1>8. Holds(w)'
    BY <1>1, <1>4, <1>5, <1>6 DEF Holds, SamePoint, n, m
  <1>9. SessionOK(h, w)'
    BY <1>5, <1>6, <1>7, <1>8 DEF SessionOK, IsSession, SamePoint
  <1> QED
    BY <1>1, <1>6, <1>9, DispatchedByHolder

-----------------------------------------------------------------------------
(* A new reservation is made at the end of a settled journal.              *)

LEMMA CompletionsKept ==
    ASSUME NEW h, NEW v, Standing(h, v), pc'[v] = pc[v], sess'[v] = sess[v],
           RowInv, ledger'.binding = ledger.binding, ledger'.completions = ledger.completions,
           \A i \in 1..m : ledger'.charges[i] = ledger.charges[i]
    PROVE  Standing(h, v)'
  <1> DEFINE k == Len(sess[v].receipts)
  <1>1. On(h, v) => On(h, v)'
    BY DEF On, At, StageOf
  <1>2. ASSUME Barred(h, v) PROVE Barred(h, v)'
    <2>1. k \in 1..n /\ n \in Nat /\ m \in Nat /\ n <= m
      BY <1>2, Numbers DEF Barred
    <2>2. \A i \in 1..k : i \in 1..m
      BY <2>1
    <2>3. Upto(ledger'.charges, k) = Upto(ledger.charges, k)
      BY <2>2 DEF Upto
    <2>4. Upto(ledger.charges, Len(sess[v].receipts))' = Upto(ledger.charges, k)
      BY <2>3
    <2>5. At("reads", sess[v])' = At("reads", sess[v]) /\ n' = n
      BY DEF At, n
    <2> HIDE DEF k
    <2> QED
      BY <1>2, <2>4, <2>5 DEF Barred, k
  <1> QED
    BY <1>1, <1>2 DEF Standing, n, IsList

LEMMA Reserved ==
    ASSUME NEW h, WalkInv(h), NEW w \in Workers, pc[w] \in {"model_reserve", "reads_reserve"}, On(h, w),
           NEW label \in {"model_dispatch", "reads_dispatch"}, StageOf(label) = StageOf(pc[w]),
           NEW op, op = Op(StageOf(pc[w]), sess[w]), ~Charged(ledger, op),
           NEW c, c.op = op, c.work = IF StageOf(pc[w]) = "model" THEN Prompt(w) ELSE sess[w].requests,
           ledger'.binding = ledger.binding, ledger'.completions = ledger.completions,
           ledger'.charges = Append(ledger.charges, c), IsRow(ledger)',
           pc'[w] = label, sess' = sess, Others(w), TablesNext,
           artifacts' = artifacts, dispatched' = dispatched, answers' = answers
    PROVE  WalkInv(h)'
  <1> DEFINE s == sess[w]
             k == Len(s.receipts)
  <1>0. /\ StageOf(pc[w]) \in Kinds /\ pc[w] \notin {"idle", "open"}
        /\ StageOf(pc[w]) = "model" => pc[w] = "model_reserve"
        /\ StageOf(pc[w]) \in {"model", "reads"}
    BY DEF StageOf, ModelPCs, ReadsPCs, Kinds
  <1>1. n \in Nat /\ m \in Nat /\ n <= m /\ m <= n + 1
    BY Numbers DEF WalkInv
  <1>2. /\ k \in 0..n /\ IsList(s.receipts) /\ Binding[w] = ledger.binding
        /\ h[k].stage = StageOf(pc[w]) /\ OpAt(h[k]) = op /\ op \in Operations
        /\ Work(h[k], ledger.binding) = c.work
    <2>1. /\ k \in 0..n /\ IsList(s.receipts) /\ Binding[w] = ledger.binding
          /\ h[k].stage = StageOf(pc[w]) /\ OpAt(h[k]) = op /\ op \in Operations
          /\ StageOf(pc[w]) = "model" => Work(h[k], ledger.binding) = Prompt(w)
          /\ StageOf(pc[w]) = "reads" => Work(h[k], ledger.binding) = sess[w].requests
      BY <1>0, Position
    <2> QED
      BY <1>0, <2>1
  <1>3. k = n /\ m = n
    <2>1. Charged(ledger, op) <=> k < m
      BY <1>0, View
    <2> QED
      BY <1>1, <1>2, <2>1
  <1>4. /\ ledger'.binding = ledger.binding /\ ledger'.completions = ledger.completions
        /\ ledger'.charges = Append(ledger.charges, c)
    OBVIOUS
  <1>5. /\ IsList(ledger'.charges) /\ m' = m + 1 /\ n' = n
        /\ \A i \in 1..m : ledger'.charges[i] = ledger.charges[i]
        /\ ledger'.charges[m + 1] = c /\ DOMAIN ledger'.charges = 1..(m + 1)
    <2>1. IsList(ledger.charges)
      BY DEF WalkInv, RowInv
    <2>2. /\ IsList(Append(ledger.charges, c)) /\ Len(Append(ledger.charges, c)) = m + 1
          /\ \A i \in 1..m : Append(ledger.charges, c)[i] = ledger.charges[i]
          /\ Append(ledger.charges, c)[m + 1] = c
      BY <2>1, AppendFacts DEF m
    <2> QED
      BY <1>4, <2>2, ListFacts DEF n, m
  <1>6. Tables'
    BY DEF TablesNext, Tables
  <1>7. RowInv'
    <2>1. ledger'.binding # Nil
      BY <1>2, <1>4, LoopAssumption
    <2>2. IsList(ledger.completions)
      BY DEF WalkInv, RowInv
    <2> QED
      BY <1>1, <1>3, <1>4, <1>5, <2>1, <2>2 DEF RowInv, IsList
  <1>8. \A v \in Workers : pc[v] \notin Holding
    BY <1>1, <1>3 DEF WalkInv, SessionInv, SessionOK, Holds
  <1>9. AloneInv'
    BY <1>8 DEF AloneInv, Others
  <1>10. \A o : Charged(ledger, o) => Charged(ledger, o)'
    <2>1. \A i \in DOMAIN ledger.charges : i \in DOMAIN ledger'.charges /\ ledger'.charges[i] = ledger.charges[i]
      BY <1>1, <1>5, Numbers DEF WalkInv
    <2> QED
      BY <2>1 DEF Charged
  <1>11. DispatchInv' /\ dispatched[op] = 0
    <2>1. /\ dispatched \in [Operations -> Nat]
          /\ \A o \in Operations : dispatched[o] <= 1 /\ (dispatched[o] = 1 => Charged(ledger, o))
      BY DEF WalkInv, DispatchInv
    <2>2. dispatched[op] \in Nat /\ dispatched[op] <= 1 /\ dispatched[op] # 1
      BY <1>2, <2>1
    <2>3. dispatched[op] = 0
      BY <2>2
    <2> QED
      BY <1>10, <2>1, <2>3 DEF DispatchInv
  <1>12. h[n].stage = "model" => c.work \in artifacts
    <2>1. h[n].stage = "model" => Prompt(w) \in artifacts
      BY <1>0, <1>2, <1>3 DEF WalkInv, SessionInv, SessionOK
    <2> QED
      BY <1>2, <1>3, <2>1
  <1>13. HistoryInv(h)'
    <2>1. \A i \in 1..m' : i \in 1..m \/ i = m + 1
      BY <1>1, <1>5
    <2>2. \A i \in 1..m : /\ h[i-1].stage # "end"
                          /\ ledger.charges[i].op = OpAt(h[i-1])
                          /\ ledger.charges[i].work = Work(h[i-1], ledger.binding)
                          /\ h[i-1].stage = "model" => ledger.charges[i].work \in artifacts
      BY DEF WalkInv, HistoryInv
    <2>3. (m + 1) - 1 = n
      BY <1>1, <1>3
    <2>4. h[n].stage # "end" /\ c.op = OpAt(h[n]) /\ c.work = Work(h[n], ledger.binding)
      BY <1>0, <1>2, <1>3
    <2>5. \A i \in 1..m' : /\ h[i-1].stage # "end"
                           /\ ledger'.charges[i].op = OpAt(h[i-1])
                           /\ ledger'.charges[i].work = Work(h[i-1], ledger'.binding)
                           /\ h[i-1].stage = "model" => ledger'.charges[i].work \in artifacts'
      <3> SUFFICES ASSUME NEW i \in 1..m'
                   PROVE  /\ h[i-1].stage # "end"
                          /\ ledger'.charges[i].op = OpAt(h[i-1])
                          /\ ledger'.charges[i].work = Work(h[i-1], ledger'.binding)
                          /\ h[i-1].stage = "model" => ledger'.charges[i].work \in artifacts'
        OBVIOUS
      <3>1. CASE i \in 1..m
        <4>1. ledger'.charges[i] = ledger.charges[i]
          BY <1>5, <3>1
        <4> QED
          BY <1>4, <2>2, <3>1, <4>1
      <3>2. CASE i = m + 1
        <4>1. ledger'.charges[i] = c /\ i - 1 = n
          BY <1>5, <2>3, <3>2
        <4> QED
          BY <1>4, <1>12, <2>4, <4>1
      <3> QED
        BY <2>1, <3>1, <3>2
    <2>6. /\ h = [j \in 0..n |-> h[j]] /\ h[0] = At("model", NoSession)
          /\ \A j \in 0..n : h[j].stage \in Stages /\ h[j].turn \in Turns
          /\ \A i, j \in 0..n : i < j => Rank(h[i]) < Rank(h[j])
      BY DEF WalkInv, HistoryInv
    <2>8. ASSUME NEW j \in 1..n PROVE Upto(ledger'.charges, j) = Upto(ledger.charges, j)
      <3>1. \A i \in 1..j : i \in 1..m
        BY <1>1
      <3> QED
        BY <1>5, <3>1 DEF Upto
    <2>7. \A j \in 1..n :
            LET d == ledger'.completions[j] IN
            /\ d.op = OpAt(h[j-1]) /\ d.artifact.op = d.op /\ d.artifact \in artifacts'
            /\ d.artifact.work = Work(h[j-1], ledger'.binding)
            /\ h[j-1].stage = "model" => d.artifact.result.status # "FINISHED"
            /\ h[j] = Onward(Upto(ledger'.charges, j), After(h[j-1], d.artifact.result))
      BY <1>4, <2>8 DEF WalkInv, HistoryInv
    <2> QED
      BY <1>5, <2>5, <2>6, <2>7 DEF HistoryInv
  <1>14. AnswerInv(h)'
    BY <1>4, <1>5 DEF WalkInv, AnswerInv
  <1>15. ASSUME NEW v \in Workers, v # w PROVE SessionOK(h, v)'
    <2>1. SessionOK(h, v) /\ pc'[v] = pc[v] /\ sess'[v] = sess[v] /\ pc[v] \notin Holding
      BY <1>8, <1>15 DEF WalkInv, SessionInv, Others
    <2>2. pc[v] \notin {"idle", "open"} => Standing(h, v)'
      BY <1>4, <1>5, <2>1, CompletionsKept DEF SessionOK, WalkInv
    <2>3. Prompt(v)' = Prompt(v)
      BY DEF Prompt, Op, Context
    <2>4. Op(StageOf(pc[v]), sess[v])' = Op(StageOf(pc[v]), sess[v])
      BY <2>1 DEF Op, StageOf
    <2>5. pc[v] \in {"model_restore", "reads_restore"} => (Len(sess[v].receipts) < m)'
      <3>1. pc[v] \in {"model_restore", "reads_restore"} => Len(sess[v].receipts) \in 0..n
        BY Place
      <3> QED
        BY <1>1, <1>3, <1>5, <2>1, <3>1 DEF SessionOK
    <2>6. CopyInv(v) => CopyInv(v)'
      <3>1. ASSUME CopyInv(v) PROVE CopyInv(v)'
        <4> DEFINE copy == sess[v].expected.charges
        <4>1. /\ IsList(copy) /\ Len(copy) \in Len(sess[v].receipts)..m
              /\ \A i \in 1..Len(copy) : copy[i] = ledger.charges[i]
          BY <3>1 DEF CopyInv
        <4>2. Len(copy) \in Len(sess[v].receipts)..(m + 1) /\ \A i \in 1..Len(copy) : i \in 1..m
          BY <1>1, <4>1
        <4>3. \A i \in 1..Len(copy) : copy[i] = ledger'.charges[i]
          BY <1>5, <4>1, <4>2
        <4> QED
          BY <1>5, <2>1, <4>1, <4>2, <4>3 DEF CopyInv, IsList
      <3> QED
        BY <3>1
    <2> QED
      BY <1>4, <1>5, <2>1, <2>2, <2>3, <2>4, <2>5, <2>6 DEF SessionOK, IsSession, Charged
  <1>16. SessionOK(h, w)'
    <2>1. Standing(h, w) /\ IsSession(s)
      BY <1>0 DEF WalkInv, SessionInv, SessionOK
    <2>2. On(h, w)'
      BY DEF On, At, StageOf
    <2>3. Standing(h, w)'
      BY <1>4, <1>5, <2>1, <2>2 DEF Standing, IsList
    <2>4. Op(StageOf(pc[w]), sess[w])' = op
      BY DEF Op, StageOf
    <2>5. Holds(w)'
      BY <1>3, <1>5, <1>11, <2>4 DEF Holds
    <2> QED
      BY <2>1, <2>3, <2>5 DEF SessionOK, IsSession
  <1> QED
    BY <1>6, <1>7, <1>9, <1>11, <1>13, <1>14, <1>15, <1>16 DEF WalkInv, SessionInv

LEMMA ModelReserveStep ==
    ASSUME NEW h, WalkInv(h), NEW w \in Workers, ModelReserve(w)
    PROVE  WalkInv(h)'
  <1> DEFINE s == sess[w]
             c == ModelCharge(w)
             outcome == ReserveOutcome(s.expected, c)
  <1>1. /\ pc[w] = "model_reserve" /\ artifacts' = artifacts /\ dispatched' = dispatched
        /\ Reserve(s.expected, c)
        /\ StageOf(pc[w]) = "model" /\ StageOf("model_dispatch") = "model"
    BY DEF ModelReserve, StageOf, ModelPCs
  <1>2. outcome # "NEW" => ledger' = ledger
    BY <1>1 DEF Reserve
  <1>3. CASE outcome = "NEW"
    <2>1. Goto(w, "model_dispatch") /\ answers' = answers
      BY <1>3 DEF ModelReserve
    <2>2. pc'[w] = "model_dispatch" /\ sess' = sess /\ Others(w) /\ TablesNext
      BY <2>1, GotoFacts DEF PCs, WalkInv
    <2>3. c.op = Op("model", s) /\ c.work = Prompt(w)
      BY DEF ModelCharge, Charge
    <2> HIDE DEF c
    <2>4. ledger = s.expected /\ ~Charged(ledger, Op("model", s))
      BY <1>3, <2>3, ReserveFacts
    <2>5. /\ ledger'.binding = ledger.binding /\ ledger'.completions = ledger.completions
          /\ ledger'.charges = Append(ledger.charges, c) /\ IsRow(ledger)'
      <3>1. ledger' = [ledger EXCEPT !.charges = Append(@, c)] /\ IsRow(ledger)
        BY <1>1, <1>3, <2>4 DEF Reserve, WalkInv, RowInv
      <3> QED
        BY <3>1 DEF IsRow
    <2> QED
      BY <1>1, <2>1, <2>2, <2>3, <2>4, <2>5, OnTrack, Reserved
  <1>4. CASE outcome = "CONFLICT"
    <2>1. Raise(w)
      BY <1>4 DEF ModelReserve
    <2> QED
      BY <1>1, <1>2, <1>4, <2>1, Raising
  <1>5. CASE outcome # "NEW" /\ outcome # "CONFLICT"
    <2>1. Return(w, "BUDGET_EXHAUSTED", s.receipts) /\ "BUDGET_EXHAUSTED" \notin Decisive
      BY <1>5 DEF ModelReserve, Decisive
    <2> QED
      BY <1>1, <1>2, <1>5, <2>1, Returning
  <1> QED
    BY <1>3, <1>4, <1>5

LEMMA UptoFacts ==
    ASSUME NEW a, NEW k \in Nat
    PROVE  IsList(Upto(a, k)) /\ Len(Upto(a, k)) = k /\ \A i \in 1..k : Upto(a, k)[i] = a[i]
  <1> DEFINE u == Upto(a, k)
  <1>1. u = [i \in 1..k |-> a[i]]
    BY DEF Upto
  <1>2. DOMAIN u = 1..k /\ \A i \in 1..k : u[i] = a[i]
    BY <1>1
  <1>3. \A i \in 1..k : u[i] \in ToSet(u)
    BY <1>2 DEF ToSet
  <1>4. u = [i \in 1..k |-> u[i]]
    BY <1>1, <1>2
  <1> HIDE DEF u
  <1>5. u \in Seq(ToSet(u)) /\ Len(u) = k
    BY <1>2, <1>3, <1>4
  <1> QED
    BY <1>2, <1>5 DEF IsList, u

\* What each charge costs, and the total as the sum of it.
Costs(a, d) == [i \in 1..Len(a) |-> a[i].cost[d]]

Totals(a, d, fun) ==
  /\ Total(a, d) = SumFunction(fun) /\ fun \in [1..Len(a) -> Nat]
  /\ IsFiniteSet(1..Len(a)) /\ SumFunction(fun) \in Nat

LEMMA TotalIs ==
    ASSUME NEW a, IsList(a), \A i \in 1..Len(a) : a[i].cost \in [Dims -> Nat], NEW d \in Dims,
           NEW fun, fun = Costs(a, d)
    PROVE  Totals(a, d, fun)
  <1>1. Len(a) \in Nat /\ DOMAIN a = 1..Len(a)
    BY ListFacts
  <1>2. Total(a, d) = SumFunction(fun)
    BY <1>1 DEF Total, Costs
  <1>3. fun \in [1..Len(a) -> Nat] /\ IsFiniteSet(1..Len(a))
    <2>1. PICK l \in Nat : l = Len(a)
      BY <1>1
    <2>2. IsFiniteSet(1..l)
      BY FS_Interval
    <2>3. \A i \in 1..l : a[i].cost[d] \in Nat
      BY <2>1
    <2>4. fun \in [1..l -> Nat]
      BY <2>1, <2>3 DEF Costs
    <2> QED
      BY <2>1, <2>2, <2>4
  <1> QED
    BY <1>2, <1>3, SumNat DEF Totals

\* What is refused after some of the charges is refused after all of them.
LEMMA MoreCharges ==
    ASSUME NEW a, IsList(a), \A i \in 1..Len(a) : a[i].cost \in [Dims -> Nat],
           NEW k \in 0..Len(a), NEW c, c.cost \in [Dims -> Nat], WithinLimits(Append(a, c))
    PROVE  WithinLimits(Append(Upto(a, k), c))
  <1> SUFFICES ASSUME NEW d \in Dims PROVE Total(Append(Upto(a, k), c), d) <= Limits[d]
    BY DEF WithinLimits
  <1>1. PICK u : u = Upto(a, k)
    OBVIOUS
  <1>2. PICK l \in Nat : l = Len(a)
    BY ListFacts
  <1>3. k \in Nat /\ k <= l
    BY <1>2
  <1>4. IsList(u) /\ Len(u) = k /\ \A i \in 1..k : u[i] = a[i]
    BY <1>1, <1>3, UptoFacts
  <1>5. PICK v, w : v = Append(u, c) /\ w = Append(a, c)
    OBVIOUS
  <1>6. /\ IsList(v) /\ Len(v) = k + 1 /\ v[k + 1] = c /\ \A i \in 1..k : v[i] = a[i]
    BY <1>4, <1>5, AppendFacts
  <1>7. /\ IsList(w) /\ Len(w) = l + 1 /\ w[l + 1] = c /\ \A i \in 1..l : w[i] = a[i]
    BY <1>2, <1>5, AppendFacts
  <1>8. \A i \in 1..(k + 1) : i \in 1..k \/ i = k + 1
    BY <1>3
  <1>9. \A i \in 1..(l + 1) : i \in 1..l \/ i = l + 1
    OBVIOUS
  <1>10. \A i \in 1..k : i \in 1..l
    BY <1>3
  <1>11. /\ \A i \in 1..Len(v) : v[i].cost \in [Dims -> Nat]
         /\ \A i \in 1..Len(w) : w[i].cost \in [Dims -> Nat]
    BY <1>2, <1>6, <1>7, <1>8, <1>9, <1>10
  <1>12. PICK fun, gun, at : /\ fun = Costs(v, d)
                             /\ gun = Costs(w, d)
                             /\ at = [i \in 1..(k + 1) |-> IF i = k + 1 THEN l + 1 ELSE i]
    OBVIOUS
  <1>13. /\ Total(v, d) = SumFunction(fun) /\ fun \in [1..(k + 1) -> Nat]
         /\ IsFiniteSet(1..(k + 1)) /\ SumFunction(fun) \in Nat
    <2>1. IsList(v) /\ \A i \in 1..Len(v) : v[i].cost \in [Dims -> Nat]
      BY <1>6, <1>11
    <2>2. Totals(v, d, fun)
      BY <1>12, <2>1, TotalIs, Zenon
    <2> QED
      BY <1>6, <2>2, Zenon DEF Totals
  <1>14. /\ Total(w, d) = SumFunction(gun) /\ gun \in [1..(l + 1) -> Nat]
         /\ IsFiniteSet(1..(l + 1)) /\ SumFunction(gun) \in Nat
    <2>1. IsList(w) /\ \A i \in 1..Len(w) : w[i].cost \in [Dims -> Nat]
      BY <1>7, <1>11
    <2>2. Totals(w, d, gun)
      BY <1>12, <2>1, TotalIs, Zenon
    <2> QED
      BY <1>7, <2>2, Zenon DEF Totals
  <1>15. at \in [1..(k + 1) -> 1..(l + 1)] /\ \A x, y \in 1..(k + 1) : at[x] = at[y] => x = y
    BY <1>3, <1>12
  <1>16. ASSUME NEW x \in 1..(k + 1) PROVE fun[x] = gun[at[x]]
    <2>1. at[x] \in 1..(l + 1) /\ fun[x] = v[x].cost[d] /\ gun[at[x]] = w[at[x]].cost[d]
      BY <1>6, <1>7, <1>12, <1>15 DEF Costs
    <2>2. CASE x = k + 1
      <3>1. at[x] = l + 1
        BY <1>12, <2>2
      <3> QED
        BY <1>6, <1>7, <2>1, <2>2, <3>1
    <2>3. CASE x \in 1..k
      <3>1. at[x] = x /\ x \in 1..l
        BY <1>3, <1>12, <2>3
      <3> QED
        BY <1>6, <1>7, <2>1, <2>3, <3>1
    <2> QED
      BY <1>8, <2>2, <2>3
  <1>17. SumFunction(fun) <= SumFunction(gun)
    <2>1. PICK S, V : S = 1..(k + 1) /\ V = 1..(l + 1)
      OBVIOUS
    <2>2. /\ IsFiniteSet(S) /\ fun \in [S -> Nat] /\ IsFiniteSet(V) /\ gun \in [V -> Nat]
          /\ at \in [S -> V] /\ \A x, y \in S : at[x] = at[y] => x = y
      BY <1>13, <1>14, <1>15, <2>1
    <2>3. \A x \in S : fun[x] = gun[at[x]]
      BY <1>16, <2>1
    <2>4. ASSUME IsFiniteSet(S), IsFiniteSet(V), NEW ff \in [S -> Nat], NEW gg \in [V -> Nat],
                 NEW aa \in [S -> V], \A x, y \in S : aa[x] = aa[y] => x = y,
                 \A x \in S : ff[x] = gg[aa[x]]
          PROVE  SumFunction(ff) <= SumFunction(gg)
      BY <2>4, SumWithin
    <2> QED
      BY <2>2, <2>3, <2>4, Zenon
  <1>18. Total(w, d) <= Limits[d] /\ Limits[d] \in Nat
    BY <1>5, LimitsAssumption DEF WithinLimits
  <1> QED
    BY <1>1, <1>5, <1>13, <1>14, <1>17, <1>18

LEMMA ReadsAtAPoint ==
    ASSUME NEW w \in Workers, NEW p, p = At("reads", sess[w])
    PROVE  /\ p.stage = "reads" /\ p.turn = sess[w].turn /\ ReadCharge(w) = BatchCharge(p)
           /\ BatchCharge(p).cost = ReadsCost(sess[w].requests)
  <1>1. p.stage = "reads" /\ p.turn = sess[w].turn /\ p.requests = sess[w].requests
        /\ OpAt(p) = Op("reads", sess[w])
    BY PointFields
  <1>2. ReadCharge(w) = Charge(Op("reads", sess[w]), sess[w].requests, ReadsCost(sess[w].requests))
    BY DEF ReadCharge, ReadsCost
  <1>3. \A op, work, cost : Charge(op, work, cost).cost = cost
    BY DEF Charge
  <1> QED
    BY <1>1, <1>2, <1>3 DEF BatchCharge

\* The reads that the history passed over are never granted.
LEMMA BarredDenied ==
    ASSUME SpendInv, NEW h, WalkInv(h), NEW w \in Workers, Barred(h, w),
           NEW c, c = ReadCharge(w)
    PROVE  ~WithinLimits(Append(ledger.charges, c))
  <1> DEFINE s == sess[w]
             k == Len(s.receipts)
             p == At("reads", s)
  <1>1. k \in 1..n /\ Refused(Upto(ledger.charges, k), p)
    BY NeverCharged
  <1>2. c = BatchCharge(p) /\ c.cost = ReadsCost(s.requests)
    BY ReadsAtAPoint
  <1>3. c.cost \in [Dims -> Nat]
    BY <1>2, BatchCosts DEF SpendInv
  <1>4. ~WithinLimits(Append(Upto(ledger.charges, k), c))
    BY <1>1, <1>2 DEF Refused
  <1>5. /\ IsList(ledger.charges) /\ Len(ledger.charges) = m /\ k \in 0..m
        /\ DOMAIN ledger.charges = 1..m
    BY <1>1, Numbers DEF WalkInv, RowInv, m
  <1>6. \A i \in 1..m : ledger.charges[i].cost \in [Dims -> Nat]
    BY <1>5 DEF SpendInv, JournalInv
  <1> HIDE DEF k
  <1> QED
    BY <1>3, <1>4, <1>5, <1>6, MoreCharges

\* The reads of a point of the history are never refused to a provider that would go on.
LEMMA OnGranted ==
    ASSUME NEW h, WalkInv(h), NEW w \in Workers, pc[w] = "reads_reserve", On(h, w),
           NEW c, c = ReadCharge(w), ~WithinLimits(Append(sess[w].expected.charges, c))
    PROVE  ~(Local /\ sess[w].turn < ModelCalls)
  <1> DEFINE s == sess[w]
             k == Len(s.receipts)
             p == At("reads", s)
             copy == s.expected.charges
             op == Op("reads", s)
  <1>1. pc[w] \notin {"idle", "open"} /\ StageOf(pc[w]) = "reads"
    BY DEF StageOf, ModelPCs, ReadsPCs
  <1>2. /\ IsList(copy) /\ Len(copy) \in k..m /\ \A i \in 1..Len(copy) : copy[i] = ledger.charges[i]
        /\ ~Charged(s.expected, op)
    BY <1>1 DEF WalkInv, SessionInv, SessionOK, CopyInv
  <1>3. k \in 0..n /\ h[k] = p /\ OpAt(h[k]) = op /\ h[k].stage = "reads"
    BY <1>1, Position
  <1>4. n \in Nat /\ m \in Nat /\ n <= m
    BY Numbers DEF WalkInv
  <1>5. DOMAIN copy = 1..Len(copy) /\ Len(copy) \in Nat
    BY <1>2, ListFacts
  <1> HIDE DEF k, copy, op, p
  <1>6. Len(copy) = k
    <2>1. SUFFICES ASSUME Len(copy) # k PROVE FALSE
      OBVIOUS
    <2>2. k + 1 \in 1..Len(copy) /\ k + 1 \in 1..m /\ (k + 1) - 1 = k
      <3>1. \A x, y, z, u \in Nat : x # y /\ x \in y..u /\ y \in 0..z
                => y + 1 \in 1..x /\ y + 1 \in 1..u /\ (y + 1) - 1 = y
        OBVIOUS
      <3>2. k \in Nat /\ Len(copy) \in k..m
        BY <1>2, <1>3, <1>4
      <3> QED
        BY <1>3, <1>4, <1>5, <2>1, <3>1, <3>2
    <2>3. ledger.charges[k + 1].op = OpAt(h[k])
      BY <2>2 DEF WalkInv, HistoryInv
    <2>4. copy[k + 1].op = op
      BY <1>2, <1>3, <2>2, <2>3
    <2> QED
      BY <1>2, <1>5, <2>2, <2>4 DEF Charged, copy
  <1>7. copy = Upto(ledger.charges, k)
    <2>1. copy = [i \in 1..k |-> copy[i]]
      BY <1>2, <1>6 DEF IsList
    <2>2. \A i \in 1..k : copy[i] = ledger.charges[i]
      BY <1>2, <1>6
    <2> QED
      BY <2>1, <2>2 DEF Upto
  <1>8. k # 0
    BY <1>3 DEF WalkInv, HistoryInv, At, Point
  <1>9. k \in 1..n
    BY <1>3, <1>4, <1>8
  <1>10. PICK q : q = After(h[k-1], ledger.completions[k].artifact.result)
    OBVIOUS
  <1>11. h[k] = Onward(Upto(ledger.charges, k), q)
    BY <1>9, <1>10 DEF WalkInv, HistoryInv
  <1>12. q.stage \in Stages /\ q.turn \in Turns
    <2>1. k \in 1..m /\ k - 1 \in 0..n
      BY <1>4, <1>9
    <2>2. h[k-1].stage \in {"model", "reads"} /\ h[k-1].turn \in Turns
      BY <2>1 DEF WalkInv, HistoryInv, Stages
    <2> QED
      BY <1>10, <2>2, AfterFacts
  <1>13. h[k] = q /\ ~Refused(Upto(ledger.charges, k), q)
    BY <1>3, <1>11, <1>12, OnwardFacts
  <1>14. ~Refused(copy, p)
    BY <1>3, <1>7, <1>13
  <1>15. c = BatchCharge(p) /\ p.stage = "reads" /\ p.turn = s.turn
    BY ReadsAtAPoint DEF p
  <1>16. ~WithinLimits(Append(copy, c))
    BY DEF copy
  <1> QED
    BY <1>14, <1>15, <1>16 DEF Refused

\* Refused its reads, the session goes on where the history does.
LEMMA SkipStep ==
    ASSUME NEW h, WalkInv(h), NEW w \in Workers, Barred(h, w),
           GoesOn(w, h[Len(sess[w].receipts)], sess[w].receipts), TablesNext,
           ledger' = ledger, artifacts' = artifacts, dispatched' = dispatched, answers' = answers
    PROVE  WalkInv(h)'
  <1> DEFINE k == Len(sess[w].receipts)
  <1>1. h[k] = Skipped(At("reads", sess[w])) /\ At("reads", sess[w]).turn < ModelCalls
    BY NeverCharged DEF Refused
  <1>2. sess[w].turn \in Nat /\ ModelCalls \in Nat /\ At("reads", sess[w]).turn = sess[w].turn
    <2>1. sess[w].turn \in Turns
      BY NeverCharged
    <2> QED
      BY <2>1, PointFields, LoopAssumption DEF Turns
  <1>3. h[k].stage = "model"
    BY <1>1, <1>2 DEF Skipped, Turned, Point
  <1>4. /\ pc'[w] = "authority" /\ At("model", sess'[w]) = h[k] /\ sess'[w].receipts = sess[w].receipts
        /\ IsSession(sess'[w]) /\ Others(w)
    BY <1>3 DEF GoesOn, PcAt
  <1>5. StageOf(pc'[w]) = "model"
    BY <1>4 DEF StageOf, ModelPCs
  <1>6. On(h, w)'
    <2>1. h[Len(sess'[w].receipts)] = At(StageOf(pc'[w]), sess'[w])
      BY <1>4, <1>5
    <2> QED
      BY <2>1 DEF On, At, StageOf
  <1>7. pc[w] \notin {"idle", "open"}
    BY DEF Barred
  <1>8. /\ k \in 0..n /\ IsList(sess[w].receipts) /\ Binding[w] = ledger.binding
        /\ \A i \in 1..k : sess[w].receipts[i] = ledger.completions[i].artifact
    BY <1>7, Place
  <1>9. Standing(h, w)'
    BY <1>4, <1>6, <1>8 DEF Standing, IsList, n
  <1>10. SessionOK(h, w)'
    BY <1>4, <1>9 DEF SessionOK, Holding, IsSession
  <1>11. AnswerInv(h)'
    BY DEF WalkInv, AnswerInv, n
  <1> QED
    BY <1>4, <1>10, <1>11, QuietStep DEF Holding

LEMMA ReadsReserveStep ==
    ASSUME SpendInv, NEW h, WalkInv(h), NEW w \in Workers, ReadsReserve(w)
    PROVE  WalkInv(h)'
  <1> DEFINE s == sess[w]
             c == ReadCharge(w)
             outcome == ReserveOutcome(s.expected, c)
  <1>1. /\ pc[w] = "reads_reserve" /\ artifacts' = artifacts /\ dispatched' = dispatched
        /\ Reserve(s.expected, c)
        /\ StageOf(pc[w]) = "reads" /\ StageOf("reads_dispatch") = "reads"
    BY DEF ReadsReserve, StageOf, ModelPCs, ReadsPCs
  <1>2. outcome # "NEW" => ledger' = ledger
    BY <1>1 DEF Reserve
  <1>0. IsSession(s) /\ (On(h, w) \/ Barred(h, w)) /\ ~Charged(s.expected, Op("reads", s))
    BY <1>1, Place DEF WalkInv, SessionInv, SessionOK
  <1>3. CASE outcome = "NEW"
    <2>1. Goto(w, "reads_dispatch") /\ answers' = answers
      BY <1>3 DEF ReadsReserve
    <2>2. pc'[w] = "reads_dispatch" /\ sess' = sess /\ Others(w) /\ TablesNext
      BY <2>1, GotoFacts DEF PCs, WalkInv
    <2>3. c.op = Op("reads", s) /\ c.work = s.requests
      BY DEF ReadCharge, Charge
    <2>4. ledger = s.expected /\ ~Charged(ledger, Op("reads", s))
          /\ WithinLimits(Append(ledger.charges, c))
      BY <1>3, <2>3, ReserveFacts
    <2>5. On(h, w)
      BY <1>0, <2>4, BarredDenied
    <2> HIDE DEF c
    <2>6. /\ ledger'.binding = ledger.binding /\ ledger'.completions = ledger.completions
          /\ ledger'.charges = Append(ledger.charges, c) /\ IsRow(ledger)'
      <3>1. ledger' = [ledger EXCEPT !.charges = Append(@, c)] /\ IsRow(ledger)
        BY <1>1, <1>3, <2>4 DEF Reserve, WalkInv, RowInv
      <3> QED
        BY <3>1 DEF IsRow
    <2> QED
      BY <1>1, <2>1, <2>2, <2>3, <2>4, <2>5, <2>6, Reserved
  <1>4. CASE outcome = "CONFLICT"
    <2>1. Raise(w)
      BY <1>4 DEF ReadsReserve
    <2> QED
      BY <1>1, <1>2, <1>4, <2>1, Raising
  <1>5. CASE outcome # "NEW" /\ outcome # "CONFLICT"
    <2> DEFINE t == [s EXCEPT !.expected = Nil]
    <2>1. OutOfReads(w, t)
      BY <1>5 DEF ReadsReserve
    <2>2. /\ IsSession(t) /\ t.receipts = s.receipts /\ t.turn = s.turn /\ t.evidence = s.evidence
          /\ t.preferred = s.preferred /\ t.invalid = s.invalid /\ t.done = s.done
          /\ t.requests = s.requests
      BY <1>0 DEF IsSession
    <2>3. ~WithinLimits(Append(s.expected.charges, c))
      <3>1. c.op = Op("reads", s)
        BY DEF ReadCharge, Charge
      <3> HIDE DEF c
      <3> QED
        BY <1>0, <1>5, <3>1, ReserveFacts
    <2> HIDE DEF t
    <2>4. CASE On(h, w)
      <3>1. ~(Local /\ s.turn < ModelCalls)
        BY <1>1, <2>3, <2>4, OnGranted
      <3>2. Return(w, "BUDGET_EXHAUSTED", t.receipts) /\ "BUDGET_EXHAUSTED" \notin Decisive
        BY <2>1, <2>2, <3>1 DEF OutOfReads, Decisive
      <3> QED
        BY <1>1, <1>2, <1>5, <3>2, Returning
    <2>5. CASE Barred(h, w)
      <3>1. /\ h[Len(s.receipts)] = Skipped(At("reads", s))
            /\ Local /\ At("reads", s).turn < ModelCalls
        BY <2>5, NeverCharged DEF Refused
      <3>2. NextTurn(w, t) /\ s.turn < ModelCalls
        BY <2>1, <2>2, <3>1, PointFields DEF OutOfReads
      <3>3. h[Len(s.receipts)] = Turned(t.turn, t.evidence, t.preferred, t.invalid, t.done, t.requests)
        BY <2>2, <3>1 DEF Skipped, At, Point
      <3>4. /\ Left(w) \/ GoesOn(w, h[Len(s.receipts)], s.receipts)
            /\ TablesNext /\ answers' = answers
        BY <2>2, <3>2, <3>3, NextTurnFacts DEF WalkInv
      <3>5. CASE Left(w)
        BY <1>1, <1>2, <1>5, <3>4, <3>5, LeavingStep
      <3>6. CASE GoesOn(w, h[Len(s.receipts)], s.receipts)
        BY <1>1, <1>2, <1>5, <2>5, <3>4, <3>6, SkipStep
      <3> QED
        BY <3>4, <3>5, <3>6
    <2> QED
      BY <1>0, <2>4, <2>5
  <1> QED
    BY <1>3, <1>4, <1>5

-----------------------------------------------------------------------------
(* A completion extends the history by the point it leads to.              *)

LEMMA Finished ==
    ASSUME NEW h, WalkInv(h), NEW w \in Workers, pc[w] \in {"model_complete", "reads_complete"},
           NEW label \in {"model_restore", "reads_restore"}, StageOf(label) = StageOf(pc[w]),
           NEW op, op = Op(StageOf(pc[w]), sess[w]),
           NEW x, x.op = op, x \in artifacts,
           x.work = IF StageOf(pc[w]) = "model" THEN Prompt(w) ELSE sess[w].requests,
           StageOf(pc[w]) = "model" => x.result.status # "FINISHED",
           NEW y, y.op = op, y.artifact = x,
           ledger'.binding = ledger.binding, ledger'.charges = ledger.charges,
           ledger'.completions = Append(ledger.completions, y), IsRow(ledger)',
           pc'[w] = label, SamePoint(sess'[w], sess[w]), Others(w), TablesNext,
           artifacts' = artifacts, dispatched' = dispatched, answers' = answers
    PROVE  IInv'
  <1> DEFINE s == sess[w]
             k == Len(s.receipts)
  <1>0. /\ StageOf(pc[w]) \in Kinds /\ pc[w] \notin {"idle", "open"}
        /\ StageOf(pc[w]) \in {"model", "reads"} /\ pc[w] \in Holding /\ label \notin Holding
    BY DEF StageOf, ModelPCs, ReadsPCs, Kinds, Holding
  <1>1. n \in Nat /\ m \in Nat /\ DOMAIN ledger.completions = 1..n
    BY Numbers DEF WalkInv
  <1>2. k = n /\ m = n + 1
    BY <1>0 DEF WalkInv, SessionInv, SessionOK, Holds
  <1>3. /\ IsList(s.receipts) /\ Binding[w] = ledger.binding
        /\ \A i \in 1..k : s.receipts[i] = ledger.completions[i].artifact
        /\ h[n] = At(StageOf(pc[w]), s)
        /\ h[n].stage = StageOf(pc[w]) /\ h[n].turn \in Turns /\ OpAt(h[n]) = op
        /\ Work(h[n], ledger.binding) = x.work
    <2>1. /\ IsList(s.receipts) /\ Binding[w] = ledger.binding
          /\ \A i \in 1..k : s.receipts[i] = ledger.completions[i].artifact
          /\ h[k] = At(StageOf(pc[w]), s)
          /\ h[k].stage = StageOf(pc[w]) /\ h[k].turn = s.turn /\ s.turn \in Turns /\ OpAt(h[k]) = op
          /\ StageOf(pc[w]) = "model" => Work(h[k], ledger.binding) = Prompt(w)
          /\ StageOf(pc[w]) = "reads" => Work(h[k], ledger.binding) = s.requests
      <3>1. On(h, w)
        BY <1>0, OnTrack DEF Holding
      <3>2. k = Len(sess[w].receipts)
        OBVIOUS
      <3> HIDE DEF k
      <3> QED
        BY <1>0, <3>1, <3>2, Position
    <2> QED
      BY <1>0, <1>2, <2>1
  <1>19. PICK q : q = Onward(Upto(ledger.charges, n + 1), After(h[n], x.result))
    OBVIOUS
  <1>4. PICK g : g = [j \in 0..(n + 1) |-> IF j <= n THEN h[j] ELSE q]
    OBVIOUS
  <1>5. /\ \A j \in 0..n : g[j] = h[j]
        /\ g[n + 1] = q
        /\ g = [j \in 0..(n + 1) |-> g[j]]
    BY <1>1, <1>4
  <1>6. /\ IsList(ledger'.completions) /\ n' = n + 1 /\ m' = m
        /\ \A i \in 1..n : ledger'.completions[i] = ledger.completions[i]
        /\ ledger'.completions[n + 1] = y
    <2>1. IsList(ledger.completions)
      BY DEF WalkInv, RowInv
    <2>2. /\ IsList(Append(ledger.completions, y)) /\ Len(Append(ledger.completions, y)) = n + 1
          /\ \A i \in 1..n : Append(ledger.completions, y)[i] = ledger.completions[i]
          /\ Append(ledger.completions, y)[n + 1] = y
      BY <2>1, AppendFacts DEF n
    <2> QED
      BY <2>2 DEF n, m
  <1>7. Tables'
    BY DEF TablesNext, Tables
  <1>8. RowInv'
    <2>1. ledger'.binding # Nil
      BY <1>3, LoopAssumption
    <2>2. IsList(ledger.charges)
      BY DEF WalkInv, RowInv
    <2> QED
      BY <1>1, <1>2, <1>6, <2>1, <2>2 DEF RowInv, IsList
  <1>9. \A v \in Workers : v # w => pc[v] \notin Holding
    BY <1>0 DEF WalkInv, AloneInv
  <1>10. AloneInv'
    BY <1>0, <1>9 DEF AloneInv, Others
  <1>11. DispatchInv'
    BY DEF WalkInv, DispatchInv, Charged
  <1>12. \A j \in 0..n : h[j].stage # "end"
    <2>1. \A j \in 1..m : h[j-1].stage # "end"
      BY DEF WalkInv, HistoryInv
    <2>2. \A j \in 0..n : j + 1 \in 1..m /\ (j + 1) - 1 = j
      BY <1>1, <1>2
    <2> QED
      BY <2>1, <2>2
  <1>13. /\ g[n + 1].stage \in Stages /\ g[n + 1].turn \in Turns /\ Rank(h[n]) < Rank(g[n + 1])
    <2>1. PICK p : p = After(h[n], x.result)
      OBVIOUS
    <2>2. p.stage \in Stages /\ p.turn \in Turns /\ Rank(h[n]) < Rank(p)
      BY <1>0, <1>3, <2>1, AfterFacts
    <2>3. q.stage \in Stages /\ q.turn \in Turns /\ Rank(p) <= Rank(q)
      BY <1>19, <2>1, <2>2, OnwardFacts
    <2>4. Rank(h[n]) \in Int /\ Rank(p) \in Int /\ Rank(q) \in Int
      <3>1. \A t \in Turns : t \in Nat
        BY LoopAssumption DEF Turns
      <3>2. \A a : a.turn \in Nat => Rank(a) \in Int
        BY DEF Rank
      <3> QED
        BY <1>3, <2>2, <2>3, <3>1, <3>2, Zenon
    <2> QED
      BY <1>5, <2>2, <2>3, <2>4
  <1>14. HistoryInv(g)'
    <2>1. /\ h[0] = At("model", NoSession)
          /\ \A j \in 0..n : h[j].stage \in Stages /\ h[j].turn \in Turns
          /\ \A i, j \in 0..n : i < j => Rank(h[i]) < Rank(h[j])
          /\ \A j \in 1..m : /\ h[j-1].stage # "end"
                             /\ ledger.charges[j].op = OpAt(h[j-1])
                             /\ ledger.charges[j].work = Work(h[j-1], ledger.binding)
                             /\ h[j-1].stage = "model" => ledger.charges[j].work \in artifacts
      BY DEF WalkInv, HistoryInv
    <2>2. \A j \in 0..(n + 1) : j \in 0..n \/ j = n + 1
      BY <1>1
    <2>3. g[0] = At("model", NoSession)
      <3>1. 0 \in 0..n
        BY <1>1
      <3>2. g[0] = h[0]
        BY <1>5, <3>1
      <3> QED
        BY <2>1, <3>2
    <2>4. \A j \in 0..(n + 1) : g[j].stage \in Stages /\ g[j].turn \in Turns
      BY <1>5, <1>13, <2>1, <2>2
    <2>5. \A j \in 0..(n + 1) : Rank(g[j]) \in Int
      <3>1. \A t \in Turns : t \in Nat
        BY LoopAssumption DEF Turns
      <3> QED
        BY <2>4, <3>1 DEF Rank
    <2>6. ASSUME NEW i \in 0..(n + 1), NEW j \in 0..(n + 1), i < j PROVE Rank(g[i]) < Rank(g[j])
      <3>1. CASE j \in 0..n
        <4>1. i \in 0..n
          BY <1>1, <2>6, <3>1
        <4> QED
          BY <1>5, <2>1, <2>6, <3>1, <4>1
      <3>2. CASE j = n + 1
        <4>1. i \in 0..n /\ n \in 0..n /\ (i < n \/ i = n)
          BY <1>1, <2>6, <3>2
        <4>2. Rank(g[i]) \in Int /\ Rank(g[n]) \in Int /\ Rank(g[n + 1]) \in Int
          BY <1>1, <2>5, <4>1
        <4>3. Rank(g[i]) < Rank(g[n]) \/ i = n
          BY <1>5, <2>1, <4>1
        <4>4. Rank(g[n]) < Rank(g[n + 1])
          BY <1>5, <1>13, <4>1
        <4> QED
          BY <3>2, <4>2, <4>3, <4>4
      <3> QED
        BY <2>2, <3>1, <3>2
    <2>7. \A j \in 1..m : j - 1 \in 0..n
      BY <1>1, <1>2
    <2>8. \A j \in 1..m : /\ g[j-1].stage # "end"
                          /\ ledger'.charges[j].op = OpAt(g[j-1])
                          /\ ledger'.charges[j].work = Work(g[j-1], ledger'.binding)
                          /\ g[j-1].stage = "model" => ledger'.charges[j].work \in artifacts'
      BY <1>5, <2>1, <2>7
    <2>9. ASSUME NEW j \in 1..(n + 1)
          PROVE  LET d == ledger'.completions[j] IN
                 /\ d.op = OpAt(g[j-1]) /\ d.artifact.op = d.op /\ d.artifact \in artifacts'
                 /\ d.artifact.work = Work(g[j-1], ledger'.binding)
                 /\ g[j-1].stage = "model" => d.artifact.result.status # "FINISHED"
                 /\ g[j] = Onward(Upto(ledger'.charges, j), After(g[j-1], d.artifact.result))
      <3>1. CASE j \in 1..n
        <4>1. /\ ledger'.completions[j] = ledger.completions[j] /\ j - 1 \in 0..n /\ j \in 0..n
          BY <1>1, <1>6, <3>1
        <4>2. g[j] = h[j] /\ g[j-1] = h[j-1]
          BY <1>5, <4>1
        <4>3. LET d == ledger.completions[j] IN
              /\ d.op = OpAt(h[j-1]) /\ d.artifact.op = d.op /\ d.artifact \in artifacts
              /\ d.artifact.work = Work(h[j-1], ledger.binding)
              /\ h[j-1].stage = "model" => d.artifact.result.status # "FINISHED"
              /\ h[j] = Onward(Upto(ledger.charges, j), After(h[j-1], d.artifact.result))
          BY <3>1 DEF WalkInv, HistoryInv
        <4> QED
          BY <4>1, <4>2, <4>3
      <3>2. CASE j = n + 1
        <4>1. ledger'.completions[j] = y /\ j - 1 = n /\ n \in 0..n
          BY <1>1, <1>6, <3>2
        <4>2. g[j] = Onward(Upto(ledger.charges, j), After(h[n], x.result)) /\ g[j-1] = h[n]
          BY <1>5, <1>19, <3>2, <4>1
        <4> QED
          BY <1>3, <4>1, <4>2
      <3> QED
        BY <1>1, <3>1, <3>2
    <2> QED
      BY <1>5, <1>6, <2>3, <2>4, <2>6, <2>8, <2>9 DEF HistoryInv
  <1>15. AnswerInv(g)'
    <2>1. answers = {}
      <3>1. n \in 0..n
        BY <1>1
      <3>2. h[n].stage # "end"
        BY <1>12, <3>1
      <3> QED
        BY <3>2 DEF WalkInv, AnswerInv
    <2> QED
      BY <2>1 DEF AnswerInv
  <1>16. ASSUME NEW v \in Workers, v # w PROVE SessionOK(g, v)'
    <2>1. SessionOK(h, v) /\ pc'[v] = pc[v] /\ sess'[v] = sess[v] /\ pc[v] \notin Holding
      BY <1>9, <1>16 DEF WalkInv, SessionInv, Others
    <2>2. ASSUME pc[v] \notin {"idle", "open"} PROVE Standing(g, v)' /\ pc[v] # "final"
      <3> DEFINE at == Len(sess[v].receipts)
      <3>1. /\ at \in 0..n /\ IsList(sess[v].receipts) /\ Binding[v] = ledger.binding
            /\ \A i \in 1..at : sess[v].receipts[i] = ledger.completions[i].artifact
            /\ On(h, v) \/ Barred(h, v)
        BY <2>2, Place
      <3>2. pc[v] # "final"
        <4>1. CASE On(h, v)
          <5>1. h[at].stage = StageOf(pc[v])
            BY <2>2, <4>1, Position
          <5> QED
            BY <1>12, <3>1, <5>1, StagesOfPCs
        <4>2. CASE Barred(h, v)
          BY <4>2 DEF Barred
        <4> QED
          BY <3>1, <4>1, <4>2
      <3>3. at \in 0..(n + 1) /\ \A i \in 1..at : i \in 1..n
        BY <1>1, <3>1
      <3>4. \A i \in 1..at : sess[v].receipts[i] = ledger'.completions[i].artifact
        BY <1>6, <3>1, <3>3
      <3>5. On(h, v) => On(g, v)'
        BY <1>5, <2>1, <3>1 DEF On, At, StageOf
      <3>6. ASSUME Barred(h, v) PROVE Barred(g, v)'
        <4>1. at \in 1..n /\ at - 1 \in 0..n /\ at \in 1..(n + 1)
          BY <1>1, <3>6 DEF Barred
        <4>2. g[at-1] = h[at-1] /\ ledger'.completions[at] = ledger.completions[at]
          BY <1>5, <1>6, <4>1
        <4>3. At("reads", sess[v])' = At("reads", sess[v])
          BY <2>1 DEF At
        <4> HIDE DEF at
        <4> QED
          BY <1>6, <2>1, <3>6, <4>1, <4>2, <4>3 DEF Barred, at
      <3> QED
        BY <1>6, <2>1, <3>1, <3>2, <3>3, <3>4, <3>5, <3>6 DEF Standing, IsList
    <2>3. Prompt(v)' = Prompt(v)
      BY <2>1 DEF Prompt, Op, Context
    <2>4. Op(StageOf(pc[v]), sess[v])' = Op(StageOf(pc[v]), sess[v])
      BY <2>1 DEF Op, StageOf
    <2>5. CopyInv(v) => CopyInv(v)'
      BY <1>6, <2>1 DEF CopyInv, IsList
    <2> QED
      BY <1>6, <2>1, <2>2, <2>3, <2>4, <2>5 DEF SessionOK, IsSession, Charged
  <1>17. SessionOK(g, w)'
    <2>1. /\ IsSession(sess'[w]) /\ sess'[w].receipts = s.receipts
          /\ At(StageOf(pc'[w]), sess'[w]) = At(StageOf(pc[w]), s)
      BY DEF SamePoint
    <2>2. n \in 0..n /\ n \in 0..(n + 1)
      BY <1>1
    <2>3. \A i \in 1..n : sess'[w].receipts[i] = ledger'.completions[i].artifact
      BY <1>2, <1>3, <1>6, <2>1
    <2>4. g[Len(sess'[w].receipts)] = At(StageOf(pc'[w]), sess'[w])
      BY <1>2, <1>3, <1>5, <2>1, <2>2
    <2>5. On(g, w)'
      BY <2>4 DEF On, At, StageOf
    <2>6. Standing(g, w)'
      BY <1>2, <1>3, <1>6, <2>1, <2>2, <2>3, <2>5 DEF Standing, IsList
    <2>7. Len(sess'[w].receipts) < m'
      BY <1>1, <1>2, <1>6, <2>1
    <2> QED
      BY <1>0, <2>1, <2>6, <2>7 DEF SessionOK, IsSession
  <1>18. WalkInv(g)'
    BY <1>7, <1>8, <1>10, <1>11, <1>14, <1>15, <1>16, <1>17 DEF WalkInv, SessionInv
  <1> QED
    BY <1>18 DEF IInv

LEMMA ModelCompleteStep ==
    ASSUME NEW h, WalkInv(h), NEW w \in Workers, ModelComplete(w)
    PROVE  IInv'
  <1> DEFINE s == sess[w]
             op == Op("model", s)
             x == ModelReceipt(w)
             y == [op |-> op, artifact |-> x]
             t == [s EXCEPT !.expected = Nil, !.observed = Nil]
  <1>1. /\ pc[w] = "model_complete" /\ artifacts' = artifacts /\ dispatched' = dispatched
        /\ Completed(w, "model", "model_restore", x) /\ Complete(s.expected, op, x)
        /\ StageOf(pc[w]) = "model" /\ StageOf("model_restore") = "model"
    BY DEF ModelComplete, Completed, StageOf, ModelPCs
  <1>2. IsSession(s) /\ Holds(w)
    BY <1>1 DEF WalkInv, SessionInv, SessionOK, Holding
  <1>3. /\ Len(s.receipts) = n /\ m = n + 1 /\ s.expected = ledger /\ x \in artifacts
        /\ s.observed.status # "FINISHED"
    BY <1>1, <1>2 DEF Holds
  <1>4. Charged(ledger, op) /\ ~Settled(ledger, op)
    <2>1. n \in Nat /\ m \in Nat
      BY Numbers DEF WalkInv
    <2> QED
      BY <1>1, <1>3, <2>1, OnTrack, View
  <1>5. CompleteOutcome(s.expected, op, x) = "NEW"
    BY <1>3, <1>4, CompleteFacts
  <1>6. Proceed(w, "model_restore", t) /\ answers' = answers
    BY <1>1, <1>5 DEF Completed
  <1>7. SamePoint(t, s)
    BY <1>2, Fields
  <1>8. x.op = op /\ x.work = Prompt(w) /\ x.result = s.observed
    BY DEF ModelReceipt
  <1>9. ledger' = [ledger EXCEPT !.completions = Append(@, y)] /\ IsRow(ledger)
    BY <1>1, <1>3, <1>5 DEF Complete, WalkInv, RowInv
  <1>10. y.op = op /\ y.artifact = x
    OBVIOUS
  <1> HIDE DEF x, y, t, op
  <1>11. /\ ledger'.binding = ledger.binding /\ ledger'.charges = ledger.charges
         /\ ledger'.completions = Append(ledger.completions, y) /\ IsRow(ledger)'
    BY <1>9 DEF IsRow
  <1>12. pc'[w] = "model_restore" /\ sess'[w] = t /\ Others(w) /\ TablesNext
    BY <1>6, ProceedFacts DEF PCs, WalkInv
  <1>13. op = Op(StageOf(pc[w]), sess[w])
    BY <1>1 DEF op
  <1> QED
    BY <1>1, <1>3, <1>6, <1>7, <1>8, <1>10, <1>11, <1>12, <1>13, Finished

LEMMA ReadsCompleteStep ==
    ASSUME NEW h, WalkInv(h), NEW w \in Workers, ReadsComplete(w)
    PROVE  IInv'
  <1> DEFINE s == sess[w]
             op == Op("reads", s)
             x == ReadReceipt(w)
             y == [op |-> op, artifact |-> x]
             t == [s EXCEPT !.expected = Nil, !.observed = Nil]
  <1>1. /\ pc[w] = "reads_complete" /\ artifacts' = artifacts /\ dispatched' = dispatched
        /\ Completed(w, "reads", "reads_restore", x) /\ Complete(s.expected, op, x)
        /\ StageOf(pc[w]) = "reads" /\ StageOf("reads_restore") = "reads"
    BY DEF ReadsComplete, Completed, StageOf, ModelPCs, ReadsPCs
  <1>2. IsSession(s) /\ Holds(w)
    BY <1>1 DEF WalkInv, SessionInv, SessionOK, Holding
  <1>3. /\ Len(s.receipts) = n /\ m = n + 1 /\ s.expected = ledger /\ x \in artifacts
    BY <1>1, <1>2 DEF Holds
  <1>4. Charged(ledger, op) /\ ~Settled(ledger, op)
    <2>1. n \in Nat /\ m \in Nat
      BY Numbers DEF WalkInv
    <2> QED
      BY <1>1, <1>3, <2>1, OnTrack, View
  <1>5. CompleteOutcome(s.expected, op, x) = "NEW"
    BY <1>3, <1>4, CompleteFacts
  <1>6. Proceed(w, "reads_restore", t) /\ answers' = answers
    BY <1>1, <1>5 DEF Completed
  <1>7. SamePoint(t, s)
    BY <1>2, Fields
  <1>8. x.op = op /\ x.work = s.requests
    BY DEF ReadReceipt
  <1>9. ledger' = [ledger EXCEPT !.completions = Append(@, y)] /\ IsRow(ledger)
    BY <1>1, <1>3, <1>5 DEF Complete, WalkInv, RowInv
  <1>10. y.op = op /\ y.artifact = x
    OBVIOUS
  <1> HIDE DEF x, y, t, op
  <1>11. /\ ledger'.binding = ledger.binding /\ ledger'.charges = ledger.charges
         /\ ledger'.completions = Append(ledger.completions, y) /\ IsRow(ledger)'
    BY <1>9 DEF IsRow
  <1>12. pc'[w] = "reads_restore" /\ sess'[w] = t /\ Others(w) /\ TablesNext
    BY <1>6, ProceedFacts DEF PCs, WalkInv
  <1>13. op = Op(StageOf(pc[w]), sess[w])
    BY <1>1 DEF op
  <1> QED
    BY <1>1, <1>3, <1>6, <1>7, <1>8, <1>10, <1>11, <1>12, <1>13, Finished

-----------------------------------------------------------------------------
(* The invariant.                                                          *)

LEMMA InitIInv == Init => IInv
  <1> SUFFICES ASSUME Init PROVE IInv
    OBVIOUS
  <1>1. PICK h : h = [k \in 0..0 |-> At("model", NoSession)]
    OBVIOUS
  <1>2. /\ ledger.binding = Nil /\ ledger.charges = <<>> /\ ledger.completions = <<>>
        /\ ledger = Row(Nil) /\ IsRow(ledger)
    BY DEF Init, Row, IsRow
  <1>3. n = 0 /\ m = 0 /\ IsList(<<>>)
    BY <1>2 DEF n, m, IsList
  <1>4. Tables /\ AloneInv
    BY DEF Init, Tables, AloneInv, Holding, PCs
  <1>5. RowInv
    BY <1>2, <1>3 DEF RowInv
  <1>6. DispatchInv
    BY DEF Init, DispatchInv
  <1>7. HistoryInv(h)
    <2>1. h = [k \in 0..0 |-> h[k]] /\ h[0] = At("model", NoSession)
      BY <1>1
    <2>2. \A k \in 0..0 : k = 0
      OBVIOUS
    <2>3. h[0].stage \in Stages /\ h[0].turn \in Turns
      <3>1. h[0].stage = "model" /\ h[0].turn = 1
        BY <2>1, PointFields DEF NoSession
      <3>2. ModelCalls \in Nat /\ ModelCalls > 0
        BY LoopAssumption
      <3> QED
        BY <3>1, <3>2 DEF Stages, Turns
    <2>4. \A k \in 1..0 : FALSE
      OBVIOUS
    <2>5. \A k \in 0..0 : h[k].stage \in Stages /\ h[k].turn \in Turns
      BY <2>2, <2>3
    <2>6. \A i, j \in 0..0 : ~(i < j)
      OBVIOUS
    <2> QED
      BY <1>3, <2>1, <2>4, <2>5, <2>6 DEF HistoryInv
  <1>8. SessionInv(h)
    <2>1. IsSession(NoSession)
      BY DEF IsSession, NoSession
    <2> QED
      BY <2>1 DEF Init, SessionInv, SessionOK, Holding
  <1>9. AnswerInv(h)
    BY DEF Init, AnswerInv
  <1> QED
    BY <1>4, <1>5, <1>6, <1>7, <1>8, <1>9 DEF IInv, WalkInv

LEMMA StutterIInv ==
    ASSUME NEW h, WalkInv(h), UNCHANGED vars
    PROVE  WalkInv(h)'
  <1>1. /\ ledger' = ledger /\ artifacts' = artifacts /\ pc' = pc /\ sess' = sess
        /\ dispatched' = dispatched /\ answers' = answers
    BY DEF vars
  <1>2. Tables' /\ AloneInv'
    BY <1>1 DEF WalkInv, Tables, AloneInv
  <1>3. RowInv' /\ AnswerInv(h)'
    BY <1>1 DEF WalkInv, RowInv, AnswerInv, n, m, IsRow, IsList
  <1>4. DispatchInv'
    BY <1>1 DEF WalkInv, DispatchInv, Charged
  <1>5. HistoryInv(h)'
    BY <1>1, HistoryKept DEF WalkInv
  <1>6. \A v \in Workers : SessionOK(h, v)'
    BY <1>1, SessionKept DEF WalkInv, SessionInv
  <1> QED
    BY <1>2, <1>3, <1>4, <1>5, <1>6 DEF WalkInv, SessionInv

LEMMA NextIInv ==
    ASSUME SpendInv, IInv, [Next]_vars
    PROVE  IInv'
  <1>1. PICK h : WalkInv(h)
    BY DEF IInv
  <1>2. CASE UNCHANGED vars
    BY <1>1, <1>2, StutterIInv DEF IInv
  <1>3. CASE Next
    <2>1. PICK w \in Workers : Enter(w) \/ Step(w) \/ Crash(w)
      BY <1>3 DEF Next
    <2>2. CASE Enter(w) \/ Open(w) \/ Authority(w) \/ Final(w) \/ Crash(w)
      <3>1. WalkInv(h)'
        BY <1>1, <2>2, EnterStep, OpenStep, AuthorityStep, FinalStep, CrashStep
      <3> QED
        BY <3>1 DEF IInv
    <2>3. CASE Model(w) \/ ModelReserve(w) \/ ModelDispatch(w) \/ ModelPublish(w) \/ ModelRestore(w)
      <3>1. WalkInv(h)'
        BY <1>1, <2>3, ModelStep, ModelReserveStep, ModelDispatchStep, ModelPublishStep,
           ModelRestoreStep
      <3> QED
        BY <3>1 DEF IInv
    <2>4. CASE Reads(w) \/ ReadsReserve(w) \/ ReadsDispatch(w) \/ ReadsPublish(w) \/ ReadsRestore(w)
      <3>1. WalkInv(h)'
        BY <1>1, <2>4, ReadsStep, ReadsReserveStep, ReadsDispatchStep, ReadsPublishStep,
           ReadsRestoreStep
      <3> QED
        BY <3>1 DEF IInv
    <2>5. CASE ModelComplete(w) \/ ReadsComplete(w)
      BY <1>1, <2>5, ModelCompleteStep, ReadsCompleteStep
    <2> QED
      BY <2>1, <2>2, <2>3, <2>4, <2>5 DEF Step
  <1> QED
    BY <1>2, <1>3

(* With every provider, the hosted ones and the local one, one history of  *)
(* points is behind the journal and every session stands at one of its     *)
(* points, or before one that a refusal leads to, whatever was interrupted.*)
THEOREM Inductive == Spec => []IInv
  <1>1. IInv /\ SpendInv /\ [Next]_vars => IInv'
    BY NextIInv
  <1> QED
    BY <1>1, InitIInv, SpendInductive, PTL DEF Spec

(* With every provider, the model and the read backends are asked at       *)
(* most once per operation, only for reserved work, and no conflict loses  *)
(* work that was dispatched.                                               *)
THEOREM AskedOnce == Spec => []DispatchedOnce
  <1>1. IInv => DispatchedOnce
    BY DEF IInv, WalkInv, DispatchInv, SessionInv, SessionOK, Holds, Holding, DispatchedOnce
  <1> QED
    BY <1>1, Inductive, PTL

(* With every provider, a session that starts over rebuilds the prompts    *)
(* and the batches that were charged: the integrity errors of model() and  *)
(* reads() never fire on an untouched store.                               *)
THEOREM ReplayRebuilds == Spec => []ReplayMatches
  <1>1. ASSUME IInv PROVE ReplayMatches
    <2>1. PICK h : WalkInv(h)
      BY <1>1 DEF IInv
    <2>2. n \in Nat /\ m \in Nat
      BY <2>1, Numbers DEF WalkInv
    <2>3. \A i \in 1..m : /\ ledger.charges[i].work = Work(h[i-1], ledger.binding)
                          /\ h[i-1].stage = "model" => ledger.charges[i].work \in artifacts
      BY <2>1 DEF WalkInv, HistoryInv
    <2>4. ASSUME NEW w \in Workers, pc[w] = "model_restore" PROVE PromptMatches(w)
      <3> DEFINE k == Len(sess[w].receipts)
      <3>1. pc[w] \notin {"idle", "open"} /\ StageOf(pc[w]) = "model"
        BY <2>4 DEF StageOf, ModelPCs
      <3>2. /\ k \in 0..n /\ h[k].stage = "model" /\ Work(h[k], ledger.binding) = Prompt(w)
        BY <2>1, <2>4, <3>1, OnTrack, Position
      <3>3. k < m
        BY <2>1, <2>4 DEF WalkInv, SessionInv, SessionOK
      <3>4. ChargeOf(ledger, Op("model", sess[w])) = ledger.charges[k + 1]
        BY <2>1, <2>4, <3>1, <3>3, OnTrack, View
      <3> HIDE DEF k
      <3>5. k + 1 \in 1..m /\ (k + 1) - 1 = k
        BY <2>2, <3>2, <3>3
      <3>6. ledger.charges[k + 1].work = Prompt(w) /\ Prompt(w) \in artifacts
        BY <2>3, <3>2, <3>5
      <3> QED
        BY <3>4, <3>6 DEF PromptMatches
    <2>5. ASSUME NEW w \in Workers, pc[w] = "reads", Charged(ledger, Op("reads", sess[w]))
          PROVE  ChargeOf(ledger, Op("reads", sess[w])).work = sess[w].requests
      <3> DEFINE k == Len(sess[w].receipts)
      <3>1. pc[w] \notin {"idle", "open"} /\ StageOf(pc[w]) = "reads"
        BY <2>5 DEF StageOf, ModelPCs, ReadsPCs
      <3>6. On(h, w)
        BY <2>1, <2>5, <3>1, Place, NeverCharged
      <3>2. /\ k \in 0..n /\ Work(h[k], ledger.binding) = sess[w].requests
        BY <2>1, <3>1, <3>6, Position
      <3>3. k < m
        BY <2>1, <2>5, <3>1, <3>6, View
      <3>4. ChargeOf(ledger, Op("reads", sess[w])) = ledger.charges[k + 1]
        BY <2>1, <3>1, <3>3, <3>6, View
      <3> HIDE DEF k
      <3>5. k + 1 \in 1..m /\ (k + 1) - 1 = k
        BY <2>2, <3>2, <3>3
      <3>7. ledger.charges[k + 1].work = sess[w].requests
        BY <2>3, <3>2, <3>5
      <3> QED
        BY <3>4, <3>7
    <2> QED
      BY <2>4, <2>5 DEF ReplayMatches
  <1> QED
    BY <1>1, Inductive, PTL

(* With every provider, a result that rests on a decision of the model     *)
(* rests on the whole, settled journal.                                    *)
THEOREM DecisionsRest == Spec => []DecisionRestsOnJournal
  <1>1. ASSUME IInv PROVE DecisionRestsOnJournal
    <2>1. PICK h : WalkInv(h)
      BY <1>1 DEF IInv
    <2> SUFFICES ASSUME NEW a \in answers
                 PROVE  /\ JournalComplete
                        /\ a.receipts = [i \in DOMAIN ledger.completions |-> ledger.completions[i].artifact]
                        /\ a.reason = "FINISHED" <=> Last(a.receipts).result.status = "OK"
      BY DEF DecisionRestsOnJournal
    <2>2. /\ h[n].stage = "end" /\ n > 0
          /\ a.receipts = [i \in DOMAIN ledger.completions |-> ledger.completions[i].artifact]
          /\ a.reason = "FINISHED" <=> ledger.completions[n].artifact.result.status = "OK"
      BY <2>1 DEF WalkInv, AnswerInv
    <2>3. /\ n \in Nat /\ DOMAIN ledger.completions = 1..n /\ DOMAIN ledger.charges = 1..m
      BY <2>1, Numbers DEF WalkInv
    <2>4. m = n
      <3>1. n \in 0..n
        BY <2>3
      <3> QED
        BY <2>1, <2>2, <3>1, AtTheEnd DEF WalkInv
    <2>5. JournalComplete
      <3>1. \A i \in 1..n : ledger.charges[i].op = ledger.completions[i].op
        BY <2>1, <2>4 DEF WalkInv, HistoryInv
      <3> QED
        BY <2>3, <2>4, <3>1 DEF JournalComplete, n, m
    <2> DEFINE r == a.receipts
    <2>6. r = [i \in 1..n |-> ledger.completions[i].artifact]
      BY <2>2, <2>3
    <2>7. Len(r) = n /\ n \in 1..n
      BY <2>2, <2>3, <2>6
    <2>8. Last(r) = ledger.completions[n].artifact
      BY <2>6, <2>7 DEF Last
    <2> QED
      BY <2>2, <2>5, <2>8
  <1> QED
    BY <1>1, Inductive, PTL

=============================================================================
