--------------------------- MODULE BudgetLedger ----------------------------
(***************************************************************************)
(* The SQL budget ledger of one reasoning run: the row of table            *)
(* reasoning_budgets with the run's binding, its charges and its           *)
(* completions.  Each operation is one database transaction on the whole   *)
(* row.  Callers hold a copy they read earlier (expected); a write happens *)
(* only if the row still equals that copy.                                 *)
(***************************************************************************)
EXTENDS Integers, Sequences, SequencesExt, FiniteSets

CONSTANTS Limits,   \* the run's allowances, a function of Dims
          Nil       \* no binding, no copy of the row, no result

Dims == {"model_calls", "tokens", "cost_nano_usd", "provider_requests",
         "tool_calls", "backend_reads"}

Kinds == {"model", "reads"}

ASSUME LimitsAssumption == Limits \in [Dims -> Nat]

VARIABLE ledger     \* the row; before the first open it is bound to nothing

\* A charge binds its operation to exact work (a prompt or a request batch) and cost.
Charge(op, work, cost) == [op |-> op, work |-> work, cost |-> cost]

Total(charges, d) == SumFunction([i \in DOMAIN charges |-> charges[i].cost[d]])

\* Mutant of WithinLimits: the allowance is tested before the new charge is added.
WithinLimitsBefore(charges) == \A d \in Dims : Total(Front(charges), d) <= Limits[d]

\* BudgetRecord.within_limits: every total is derived from the charges.
WithinLimits(charges) == \A d \in Dims : Total(charges, d) <= Limits[d]

Row(binding) == [binding |-> binding, charges |-> <<>>, completions |-> <<>>]

Charged(r, op) == \E i \in DOMAIN r.charges : r.charges[i].op = op
ChargeOf(r, op) == r.charges[CHOOSE i \in DOMAIN r.charges : r.charges[i].op = op]

Settled(r, op) == \E i \in DOMAIN r.completions : r.completions[i].op = op
CompletionOf(r, op) ==
    r.completions[CHOOSE i \in DOMAIN r.completions : r.completions[i].op = op].artifact

\* Mutant of Opened: the row is replaced, as by an upsert.
OpenedAfresh(binding) == Row(binding)

\* open: the first insert wins, and reopening never resets or rebinds the row.
Opened(binding) == IF ledger = Row(Nil) THEN Row(binding) ELSE ledger

\* Mutant of Unchanged: the update is not conditional on the row read before.
UnchangedBlindly(expected) == TRUE

\* _replace: the compare half of every compare-and-set.
Unchanged(expected) == ledger = expected

ReserveOutcome(expected, charge) ==
    LET existing == Charged(expected, charge.op)
        within == WithinLimits(Append(expected.charges, charge))
    IN
    CASE existing /\ ChargeOf(expected, charge.op) = charge /\ Unchanged(expected) -> "EXISTING"
      [] ~existing /\ ~within -> "DENIED"
      [] ~existing /\ within /\ Unchanged(expected) -> "NEW"
      [] OTHER -> "CONFLICT"

Reserve(expected, charge) ==
    ledger' = IF ReserveOutcome(expected, charge) = "NEW"
                THEN [expected EXCEPT !.charges = Append(@, charge)]
                ELSE ledger

\* The first completion of an operation is the only one.
CompleteOutcome(expected, op, artifact) ==
    LET existing == Settled(expected, op) IN
    CASE existing /\ CompletionOf(expected, op) = artifact /\ Unchanged(expected) -> "EXISTING"
      [] ~existing /\ Charged(expected, op) /\ Unchanged(expected) -> "NEW"
      [] OTHER -> "CONFLICT"

Complete(expected, op, artifact) ==
    ledger' = IF CompleteOutcome(expected, op, artifact) = "NEW"
                THEN [expected EXCEPT !.completions =
                          Append(@, [op |-> op, artifact |-> artifact])]
                ELSE ledger

\* Every charge of the journal has its completion, in the order of the charges.
JournalComplete ==
    /\ Len(ledger.charges) = Len(ledger.completions)
    /\ \A i \in DOMAIN ledger.charges : ledger.charges[i].op = ledger.completions[i].op
=============================================================================
