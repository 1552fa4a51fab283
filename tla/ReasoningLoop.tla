--------------------------- MODULE ReasoningLoop ---------------------------
(***************************************************************************)
(* The durable reasoning loop of one incident.  A session walks the turns  *)
(* of a run: each turn asks for current authority, runs one model          *)
(* operation and, when the model asks for it, one batch of reads.  An      *)
(* operation is reserved in the ledger, dispatched, its receipt retained   *)
(* as an artifact and only then completed in the ledger; a session that    *)
(* starts over walks the same turns and loads completed operations.        *)
(*                                                                         *)
(* Workers are processes that run such sessions.  Those of one host share  *)
(* a file lock; different hosts share only the ledger and the artifacts.   *)
(* A step boundary is any point where another session, or the death of     *)
(* this one, can intervene.                                                *)
(***************************************************************************)
EXTENDS BudgetLedger

CONSTANTS Workers,
          Hosts,
          Host,         \* [Workers -> Hosts]
          Binding,      \* [Workers -> run binding]: actor, settings, limits, inputs
          Requests,     \* read requests the model may ask for
          Items,        \* evidence items a read may return
          ModelCost,    \* [Dims -> Nat], what one model call reserves
          ReadCost,     \* [Requests -> [Dims -> Nat]]
          Local,        \* TRUE for the local_llama provider
          ModelCalls,   \* limits.model_calls
          MaxEvidence,  \* 256 in the code
          PromptItems   \* evidence that fits the prompt's input allowance

ASSUME LoopAssumption ==
    /\ Host \in [Workers -> Hosts]
    /\ ModelCost \in [Dims -> Nat]
    /\ ReadCost \in [Requests -> [Dims -> Nat]]
    /\ Local \in BOOLEAN
    /\ {ModelCalls, MaxEvidence, PromptItems} \subseteq Nat
    /\ ModelCalls > 0
    /\ Nil \notin Workers /\ \A w \in Workers : Binding[w] # Nil

VARIABLES artifacts,   \* the content-addressed store: digests are contents
          lock,        \* [Hosts -> the worker holding the file lock, or Nil]
          pc,
          sess,        \* the LoopSession of each worker
          dispatched,  \* how often each operation was dispatched (history)
          answers      \* results that came from a decision of the model (history)

vars == <<ledger, artifacts, lock, pc, sess, dispatched, answers>>

Turns == 1..ModelCalls
Operations == Kinds \X Turns

AuthorityFailures == {"DENIED", "BUSY", "TIMEOUT", "ERROR"}
Decisive == {"FINISHED", "REFUSED", "INVALID_OUTPUT"}

Batches == {b \in SeqOf(Requests, 2) : b # <<>> /\ IsInjective(b)}

\* What runtime.observe can return.
Observation(status, reads) == [status |-> status, reads |-> reads]
Observations ==
    {Observation(s, <<>>) : s \in {"OK", "REFUSED", "INVALID_OUTPUT"} \cup AuthorityFailures}
      \cup {Observation("OK", b) : b \in Batches}

\* What registry.dispatch can return for one admitted request: an evidence item or a status.
ReadResults == [status : {"OK"}, item : Items]
                 \cup [status : {"ERROR"} \cup AuthorityFailures, item : {Nil}]

\* Every combination of results for a batch.
Results(batch) == [DOMAIN batch -> ReadResults]

NoSession == [turn |-> 1, evidence |-> <<>>, preferred |-> {}, invalid |-> 0,
              done |-> {}, receipts |-> <<>>, requests |-> <<>>, expected |-> Nil,
              observed |-> Nil]

Proceed(w, label, s) ==
    /\ pc' = [pc EXCEPT ![w] = label]
    /\ sess' = [sess EXCEPT ![w] = s]

Goto(w, label) == pc' = [pc EXCEPT ![w] = label] /\ UNCHANGED sess

\* Leaving run(), however it happens, leaves the file lock too.
Leave(w) ==
    /\ Proceed(w, "idle", NoSession)
    /\ lock' = [lock EXCEPT ![Host[w]] = Nil]

\* BudgetConflict or EvidenceIntegrityError to the caller.
Raise(w) == Leave(w) /\ UNCHANGED answers

\* A LoopResult with its stop reason.
Return(w, reason, receipts) ==
    /\ Leave(w)
    /\ answers' = IF reason \in Decisive
                    THEN answers \cup {[reason |-> reason, receipts |-> receipts]}
                    ELSE answers

\* The loop goes on to its next turn, or has used its last one.
NextTurn(w, s) ==
    IF s.turn = ModelCalls
      THEN Return(w, "BUDGET_EXHAUSTED", s.receipts)
      ELSE /\ Proceed(w, "authority", [s EXCEPT !.turn = @ + 1, !.requests = <<>>])
           /\ UNCHANGED <<lock, answers>>

\* build_context: what the model sees, and what a saved prompt is bound to.
Context(s) == [evidence |-> s.evidence, preferred |-> s.preferred]

Op(kind, s) == <<kind, s.turn>>

Prompt(w) == [op |-> Op("model", sess[w]), binding |-> Binding[w], context |-> Context(sess[w])]
ModelReceipt(w) == [op |-> Op("model", sess[w]), work |-> Prompt(w), result |-> sess[w].observed]
ReadReceipt(w) == [op |-> Op("reads", sess[w]), work |-> sess[w].requests,
                   result |-> sess[w].observed]

ModelCharge(w) == Charge(Op("model", sess[w]), Prompt(w), ModelCost)
ReadCharge(w) ==
    LET batch == sess[w].requests
    IN  Charge(Op("reads", sess[w]), batch,
               [d \in Dims |-> SumFunction([i \in DOMAIN batch |-> ReadCost[batch[i]][d]])])

---------------------------------------------------------------------------
(***************************************************************************)
(* Entering the loop                                                       *)
(***************************************************************************)

\* FileLock with timeout 0: a second session of the same host raises instead of waiting.
Enter(w) ==
    /\ pc[w] = "idle"
    /\ lock[Host[w]] = Nil
    /\ lock' = [lock EXCEPT ![Host[w]] = w]
    /\ Goto(w, "open")
    /\ UNCHANGED <<ledger, artifacts, dispatched, answers>>

Open(w) ==
    /\ pc[w] = "open"
    /\ ledger' = Opened(Binding[w])
    /\ IF ledger'.binding = Binding[w]
         THEN Goto(w, "authority") /\ UNCHANGED <<lock, answers>>
         ELSE Raise(w)
    /\ UNCHANGED <<artifacts, dispatched>>

\* runtime.authority at the head of every turn, and once more before a FINISHED result.
Authority(w) ==
    /\ pc[w] = "authority"
    /\ \/ Goto(w, "model") /\ UNCHANGED <<lock, answers>>
       \/ \E failure \in AuthorityFailures : Return(w, failure, sess[w].receipts)
    /\ UNCHANGED <<ledger, artifacts, dispatched>>

---------------------------------------------------------------------------
(***************************************************************************)
(* One operation: reserve, dispatch, publish, complete                     *)
(***************************************************************************)

\* model(): an existing reservation is never prepared or dispatched again.
Model(w) ==
    /\ pc[w] = "model"
    /\ CASE Charged(ledger, Op("model", sess[w])) ->
              Goto(w, "model_restore") /\ UNCHANGED <<lock, answers, artifacts>>
         [] ~Charged(ledger, Op("model", sess[w])) /\ Len(sess[w].evidence) > PromptItems ->
              Return(w, "BUDGET_EXHAUSTED", sess[w].receipts) /\ UNCHANGED artifacts
         [] OTHER ->
              /\ artifacts' = artifacts \cup {Prompt(w)}
              /\ Proceed(w, "model_reserve", [sess[w] EXCEPT !.expected = ledger])
              /\ UNCHANGED <<lock, answers>>
    /\ UNCHANGED <<ledger, dispatched>>

ModelReserve(w) ==
    /\ pc[w] = "model_reserve"
    /\ LET outcome == ReserveOutcome(sess[w].expected, ModelCharge(w)) IN
       CASE outcome = "NEW" -> Goto(w, "model_dispatch") /\ UNCHANGED <<lock, answers>>
         [] outcome = "CONFLICT" -> Raise(w)
         [] OTHER -> Return(w, "BUDGET_EXHAUSTED", sess[w].receipts)
    /\ Reserve(sess[w].expected, ModelCharge(w))
    /\ UNCHANGED <<artifacts, dispatched>>

\* runtime.observe and registry.dispatch: the provider or the backends are asked.
Dispatch(w, kind, next, results) ==
    /\ dispatched' = [dispatched EXCEPT ![Op(kind, sess[w])] = @ + 1]
    /\ \E r \in results :
          Proceed(w, next, [sess[w] EXCEPT !.observed = r])
    /\ UNCHANGED <<ledger, artifacts, lock, answers>>

ModelDispatch(w) ==
    pc[w] = "model_dispatch" /\ Dispatch(w, "model", "model_publish", Observations)
ReadsDispatch(w) ==
    pc[w] = "reads_dispatch" /\ Dispatch(w, "reads", "reads_publish", Results(sess[w].requests))

\* publish: the receipt is on disk before its digest is offered to the ledger.
Publish(w, next, receipt) ==
    /\ artifacts' = artifacts \cup {receipt}
    /\ Proceed(w, next, [sess[w] EXCEPT !.expected = ledger])
    /\ UNCHANGED <<ledger, lock, dispatched, answers>>

ModelPublish(w) == pc[w] = "model_publish" /\ Publish(w, "model_complete", ModelReceipt(w))
ReadsPublish(w) == pc[w] = "reads_publish" /\ Publish(w, "reads_complete", ReadReceipt(w))

Completed(w, kind, next, receipt) ==
    LET outcome == CompleteOutcome(sess[w].expected, Op(kind, sess[w]), receipt) IN
    /\ IF outcome = "CONFLICT"
         THEN Raise(w)
         ELSE /\ Proceed(w, next,
                         [sess[w] EXCEPT !.expected = Nil, !.observed = Nil])
              /\ UNCHANGED <<lock, answers>>
    /\ Complete(sess[w].expected, Op(kind, sess[w]), receipt)
    /\ UNCHANGED <<artifacts, dispatched>>

ModelComplete(w) ==
    pc[w] = "model_complete" /\ Completed(w, "model", "model_restore", ModelReceipt(w))
ReadsComplete(w) ==
    pc[w] = "reads_complete" /\ Completed(w, "reads", "reads_restore", ReadReceipt(w))

---------------------------------------------------------------------------
(***************************************************************************)
(* Loading a completed operation                                           *)
(***************************************************************************)

\* The saved prompt of this turn is the one this session would build from its receipts.
PromptMatches(w) ==
    LET saved == ChargeOf(ledger, Op("model", sess[w])).work
    IN  saved = Prompt(w) /\ saved \in artifacts

\* request_reads: the local provider does not repeat a read that was completed before.
Wanted(done, reads) ==
    FoldLeft(LAMBDA kept, r : IF Local /\ r \in done THEN kept ELSE Append(kept, r), <<>>, reads)

\* What the session does with the model's answer.
Decide(w, s, answer) ==
    LET wanted == Wanted(s.done, answer.reads) IN
    CASE answer.status = "INVALID_OUTPUT" ->
           IF s.invalid = 1 THEN Return(w, "INVALID_OUTPUT", s.receipts)
                            ELSE NextTurn(w, [s EXCEPT !.invalid = @ + 1])
      [] answer.status \notin {"OK", "INVALID_OUTPUT"} -> Return(w, answer.status, s.receipts)
      [] answer.status = "OK" /\ answer.reads = <<>> ->
           Proceed(w, "final", s) /\ UNCHANGED <<lock, answers>>
      [] answer.status = "OK" /\ answer.reads # <<>> ->
           IF wanted = <<>> THEN NextTurn(w, s)
             ELSE /\ Proceed(w, "reads", [s EXCEPT !.requests = wanted])
                  /\ UNCHANGED <<lock, answers>>

\* The receipt loaded for an operation is retained and belongs to exactly this work.
ReceiptMatches(receipt, op, work) ==
    receipt \in artifacts /\ receipt.op = op /\ receipt.work = work

\* Mutant of ModelRestore: a missing completion is awaited.
ModelRestoreWaiting(w) ==
    LET receipt == CompletionOf(ledger, Op("model", sess[w])) IN
    /\ pc[w] = "model_restore"
    /\ Settled(ledger, Op("model", sess[w]))
    /\ Decide(w, [sess[w] EXCEPT !.receipts = Append(@, receipt)], receipt.result)
    /\ UNCHANGED <<ledger, artifacts, dispatched>>

\* A reservation without a completion may have reached the provider: it is not repeated.
ModelRestore(w) ==
    LET op == Op("model", sess[w])
        receipt == CompletionOf(ledger, op)
    IN
    /\ pc[w] = "model_restore"
    /\ CASE ~PromptMatches(w) -> Raise(w)
         [] PromptMatches(w) /\ ~Settled(ledger, op) ->
              Return(w, "UNKNOWN_COMPLETION", sess[w].receipts)
         [] PromptMatches(w) /\ Settled(ledger, op) /\ ~ReceiptMatches(receipt, op, Prompt(w)) ->
              Raise(w)
         [] OTHER ->
              Decide(w, [sess[w] EXCEPT !.receipts = Append(@, receipt)], receipt.result)
    /\ UNCHANGED <<ledger, artifacts, dispatched>>

\* Reads the ledger refuses: only the local provider may use a remaining turn to conclude.
OutOfReads(w, s) ==
    IF Local /\ s.turn < ModelCalls
      THEN NextTurn(w, s)
      ELSE Return(w, "BUDGET_EXHAUSTED", s.receipts)

Reads(w) ==
    LET op == Op("reads", sess[w]) IN
    /\ pc[w] = "reads"
    /\ CASE ~Charged(ledger, op) ->
              /\ Proceed(w, "reads_reserve", [sess[w] EXCEPT !.expected = ledger])
              /\ UNCHANGED <<lock, answers>>
         [] Charged(ledger, op) /\ ChargeOf(ledger, op).work # sess[w].requests -> Raise(w)
         [] OTHER -> Goto(w, "reads_restore") /\ UNCHANGED <<lock, answers>>
    /\ UNCHANGED <<ledger, artifacts, dispatched>>

ReadsReserve(w) ==
    /\ pc[w] = "reads_reserve"
    /\ LET outcome == ReserveOutcome(sess[w].expected, ReadCharge(w)) IN
       CASE outcome = "NEW" -> Goto(w, "reads_dispatch") /\ UNCHANGED <<lock, answers>>
         [] outcome = "CONFLICT" -> Raise(w)
         [] OTHER -> OutOfReads(w, [sess[w] EXCEPT !.expected = Nil])
    /\ Reserve(sess[w].expected, ReadCharge(w))
    /\ UNCHANGED <<artifacts, dispatched>>

\* Evidence is merged by identity, in order of arrival.
Merge(evidence, items) ==
    FoldLeft(LAMBDA merged, item : IF item \in ToSet(merged) THEN merged ELSE Append(merged, item),
             evidence, items)

\* The evidence of the reads that succeeded.
Found(results) ==
    LET Succeeded(r) == r.status = "OK"
        found == SelectSeq(results, Succeeded)
    IN  [i \in DOMAIN found |-> found[i].item]

\* accept_reads: the first unavailable read ends the run; errors are only feedback.
Accept(w, s, results) ==
    LET stopping == {i \in DOMAIN results : results[i].status \in AuthorityFailures \ {"ERROR"}}
        items == Found(results)
        merged == Merge(s.evidence, items)
    IN  CASE stopping # {} ->
               \E i \in stopping : /\ \A j \in stopping : i <= j
                                   /\ Return(w, results[i].status, s.receipts)
          [] stopping = {} /\ Len(merged) > MaxEvidence -> OutOfReads(w, s)
          [] OTHER ->
               NextTurn(w, [s EXCEPT !.evidence = merged, !.preferred = ToSet(items),
                                     !.done = @ \cup ToSet(s.requests)])

\* Mutant of ReadsRestore: reads of unknown completion are skipped as if they found nothing.
ReadsRestoreSkipping(w) ==
    LET receipt == CompletionOf(ledger, Op("reads", sess[w])) IN
    /\ pc[w] = "reads_restore"
    /\ IF Settled(ledger, Op("reads", sess[w]))
         THEN Accept(w, [sess[w] EXCEPT !.receipts = Append(@, receipt)], receipt.result)
         ELSE NextTurn(w, sess[w])
    /\ UNCHANGED <<ledger, artifacts, dispatched>>

ReadsRestore(w) ==
    LET op == Op("reads", sess[w])
        receipt == CompletionOf(ledger, op)
    IN
    /\ pc[w] = "reads_restore"
    /\ CASE ~Settled(ledger, op) -> Return(w, "UNKNOWN_COMPLETION", sess[w].receipts)
         [] Settled(ledger, op) /\ ~ReceiptMatches(receipt, op, sess[w].requests) -> Raise(w)
         [] OTHER -> Accept(w, [sess[w] EXCEPT !.receipts = Append(@, receipt)], receipt.result)
    /\ UNCHANGED <<ledger, artifacts, dispatched>>

\* A finished answer is published only under authority that is current at its end.
Final(w) ==
    /\ pc[w] = "final"
    /\ \E reason \in {"FINISHED"} \cup AuthorityFailures : Return(w, reason, sess[w].receipts)
    /\ UNCHANGED <<ledger, artifacts, dispatched>>

---------------------------------------------------------------------------
\* The process dies; the kernel releases its file lock.
Crash(w) ==
    /\ pc[w] # "idle"
    /\ Raise(w)
    /\ UNCHANGED <<ledger, artifacts, dispatched>>

Init ==
    /\ ledger = Row(Nil)
    /\ artifacts = {}
    /\ lock = [h \in Hosts |-> Nil]
    /\ pc = [w \in Workers |-> "idle"]
    /\ sess = [w \in Workers |-> NoSession]
    /\ dispatched = [op \in Operations |-> 0]
    /\ answers = {}

Step(w) ==
    \/ Open(w) \/ Authority(w)
    \/ Model(w) \/ ModelReserve(w) \/ ModelDispatch(w) \/ ModelPublish(w) \/ ModelComplete(w)
    \/ ModelRestore(w)
    \/ Reads(w) \/ ReadsReserve(w) \/ ReadsDispatch(w) \/ ReadsPublish(w) \/ ReadsComplete(w)
    \/ ReadsRestore(w)
    \/ Final(w)

Next == \E w \in Workers : Enter(w) \/ Step(w) \/ Crash(w)

Spec == Init /\ [][Next]_vars

\* A session that runs keeps running: every wait of the loop has a timeout.
FairSpec == Spec /\ \A w \in Workers : WF_vars(Step(w))

---------------------------------------------------------------------------
(***************************************************************************)
(* Properties                                                              *)
(***************************************************************************)

PCs == {"idle", "open", "authority", "final", "model", "model_reserve", "model_dispatch",
        "model_publish", "model_complete", "model_restore", "reads", "reads_reserve",
        "reads_dispatch", "reads_publish", "reads_complete", "reads_restore"}

TypeOK ==
    /\ ledger.binding \in {Binding[w] : w \in Workers} \cup {Nil}
    /\ \A i \in DOMAIN ledger.charges : /\ ledger.charges[i].op \in Operations
                                        /\ ledger.charges[i].cost \in [Dims -> Nat]
    /\ \A i \in DOMAIN ledger.completions : ledger.completions[i].op \in Operations
    /\ lock \in [Hosts -> Workers \cup {Nil}]
    /\ pc \in [Workers -> PCs]
    /\ \A w \in Workers : /\ sess[w].turn \in Turns
                          /\ sess[w].evidence \in Seq(Items)
                          /\ sess[w].preferred \subseteq Items
                          /\ sess[w].done \subseteq Requests
                          /\ sess[w].requests \in Batches \cup {<<>>}
    /\ dispatched \in [Operations -> Nat]

(* "Only NEW grants dispatch": across crashes, restarts and sessions of    *)
(* other hosts, the provider or the read backends are asked at most once   *)
(* per operation, and never for work the ledger does not show as reserved. *)
(* Nor is dispatched work lost to a conflict: when its session is ready to *)
(* record the completion, no other session has changed the row, so only a  *)
(* crash can leave an operation without its completion.                    *)
DispatchedOnce ==
    /\ \A op \in Operations :
         /\ dispatched[op] <= 1
         /\ dispatched[op] = 1 => Charged(ledger, op)
    /\ \A w \in Workers :
         pc[w] \in {"model_complete", "reads_complete"} => ledger = sess[w].expected

(* What was really dispatched, not only what one row says, stays within    *)
(* every allowance of the run.                                             *)
Spent(d) == SumFunction([op \in {o \in Operations : dispatched[o] > 0} |->
                           dispatched[op] * ChargeOf(ledger, op).cost[d]])

SpendWithinLimits == \A d \in Dims : Spent(d) <= Limits[d]

(* A session that starts over rebuilds, from receipts alone, exactly the   *)
(* context each saved prompt was bound to and exactly the batches that     *)
(* were charged: the integrity errors of model() and reads() never fire on *)
(* an untouched store, however its sessions were interrupted.              *)
ReplayMatches ==
    \A w \in Workers :
        /\ pc[w] = "model_restore" => PromptMatches(w)
        /\ pc[w] = "reads" /\ Charged(ledger, Op("reads", sess[w]))
              => ChargeOf(ledger, Op("reads", sess[w])).work = sess[w].requests

(* A result that rests on a decision of the model rests on the whole       *)
(* journal: every reservation has its completion, and the receipts of the  *)
(* result are all of them, in order.  No session can extend the journal    *)
(* afterwards, and no replay can come to another decision.                 *)
DecisionRestsOnJournal ==
    \A a \in answers :
        /\ JournalComplete
        /\ a.receipts = [i \in DOMAIN ledger.completions |-> ledger.completions[i].artifact]
        /\ a.reason = "FINISHED" <=> Last(a.receipts).result.status = "OK"

(* "Reservations never refund uncertain work": a step only appends to the  *)
(* journal, and never rebinds it.                                          *)
JournalOnlyGrows ==
    [][ledger.binding # Nil =>
         /\ ledger'.binding = ledger.binding
         /\ IsPrefix(ledger.charges, ledger'.charges)
         /\ IsPrefix(ledger.completions, ledger'.completions)]_vars

(* A session ends, whatever other sessions and dead sessions left behind.  *)
SessionEnds == \A w \in Workers : pc[w] # "idle" ~> pc[w] = "idle"
=============================================================================
