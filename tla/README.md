# PayOps: TLA+ models, checks and proofs

PayOps investigates payment incidents on Kubernetes and offers a separately
governed way to remediate them. This directory holds TLA+ models of the parts of
it where several processes, deaths, stale reads or ambiguous outcomes meet, the
TLC configurations that check them on small instances, and TLAPS proofs of what
matters most for every instance.

File paths below are relative to `src/src/payops/` unless they start with `docs/`
or `tests/`. `PROJECT.json` maps every definition to the lines it models.

## 1. The system

| Component | State it keeps | Operations | What makes it correct |
|---|---|---|---|
| Remediation broker (`remediation/broker.py`, `api.py`), policy (`policy/engine.py`) | none between calls; each call carries what it read | propose, approve, execute | nothing is dispatched without a current review, approval and identity; at most one dispatch per action |
| Action store (`remediation/store.py`, `contracts.py`) | action rows with revision, audit rows | create, get, transition (compare-and-set) | one claimant, exact audit history, every stored record readable |
| Remediation backends (`backend.py`, `local_executor.py`, `deployment.py`, `traffic_control.py`) | the resources (Deployment version, traffic mode) | context, execute: snapshot, conditional patch, rollout watch; pause, admit | conditional on the approved version; ambiguity is reported as UNKNOWN |
| Identity (`auth/`) | grants at the provider | fresh principal | revocation takes effect within the identity's maximal age |
| Budget ledger (`orchestrator/budget.py`, `loop_records.py`) | one SQL row per run: binding, charges, completions | open, reserve, complete | work is charged before it is done, never refunded, never over an allowance |
| Reasoning loop (`orchestrator/loop.py`) | a session in memory; everything durable is in the ledger and the artifact store | run: authority, model turn, reads | each paid operation is dispatched once; a restart replays receipts to the same decision |
| Model runtime, provider adapters (`orchestrator/model_runtime.py`, ...) | one call slot | authority, prepare, observe | no result after a deadline or a lost grant; the slot always comes back |
| Read registry (`tools/registry.py`) | two read slots, closed flag | dispatch, close | reserve before dispatch; no result under a lost grant |
| Investigation graph (`orchestrator/graph.py`, `nodes.py`, `state.py`, `graph_reasoning.py`) | SQLite checkpoints, attempt files, collection marker and file, a file lock | start, resume; nodes triage, reserve, collect, rank, finish | no step or collection is repeated for free; a finished investigation is frozen |
| Operator host (`operator_host.py`) | the clients and their lifetime | start, resume, collect, publish, reconstruct | what it hands out is exactly what the journal supports |
| Pub/Sub worker (`pubsub_worker.py`) | none | process, handle | acknowledge only what is saved; a redelivery finishes what was interrupted |
| Incident store and APIs (`memory/store.py`, `api.py`, `protected_api.py`, `graphql_api.py`) | incident rows with idempotency key and report | create, get, save_report | one incident per key, one report per incident |
| Evidence (`evidence/`), memory clients (`memory/data_clients.py`) | content-addressed artifacts; an index and a cache that are not trusted | normalise, write, verify; search, put, get | what an incident is given is its own, by a lineage that still verifies |
| Readers (`tools/`) | connections | bounded reads; the trace reader frames spans from pod logs | scoped, bounded, attributed to the process that wrote them |
| Scenario harnesses (`scenarios/`) | one latch file, evidence directories, the cluster they disturb | start, capture, journal, inject, observe, investigate, restore, finish | whatever fails, what was injected is restored or the latch stays |
| Scenario traffic (`scenarios/traffic.py`), traffic control (`remediation/`) | a plan, records and receipt per batch; one SQL row | run, probe, admit, pause | every attempt accounted for; a pause is final |
| Sandbox services (`sandbox/`) | a sample store per role, slots of memory work | execute, complete, abandon, call peers | one execution per sample, accepted only by all |
| Evaluation (`evaluation/`), telemetry, CLI | none | score, export, call | - |

How they interact. A queue message reaches the Pub/Sub worker, which calls the
operator host (or a bare `InvestigationWorker`); the host runs the LangGraph
investigation; its rank node runs the reasoning loop, which charges the budget
ledger before each provider call or read batch and records receipts as
artifacts. The host verifies the finished state against the whole journal; the
worker saves the report in the incident's row and acknowledges. Remediation is
a separate path: calls of the broker meet only in the action store, and the
effects of dispatched actions only in the resource API. The scenario harnesses
are operator tools beside both: they disturb a sandbox cluster, send synthetic
payments through the traffic driver (which a remediation may pause), call the
investigation while the fault is active, and restore the cluster.

What is hard. Workers of one host share file locks, workers of different hosts
share only SQL rows. Every wait (identity provider, database, kubectl, model
provider) is a point where a clock moves, a grant is withdrawn, another worker
runs or the process dies. Writes time out at the client and land later. Messages
are delivered again. Threads and handlers go on after their callers gave up. A death falls between two durable writes. `PROJECT.json`
lists the hazards, each at its line, with the properties that would notice it.

## 2. The modules

| Module | Models | Composes |
|---|---|---|
| `ActionLifecycle` | abstract: what an action goes through, and when its effect may happen | - |
| `ActionStore` | action and audit tables, the transition table, the record validator | - |
| `Remediation` | broker calls, review, dispatch, executors, resource API, clock, grants, deaths | extends `ActionStore`, implements `ActionLifecycle` |
| `RemediationProofs` | theorems about `Remediation` | extends it |
| `BudgetLedger` | the ledger row and its three transactions | - |
| `ReasoningLoop` | sessions of the loop on one or more hosts, file locks, artifacts, deaths | extends `BudgetLedger` |
| `Investigation` | worker, host, graph with its files and checkpoints, journal, incident row | the loop by its journal |
| `ReadRegistry` | threads, slots, deadlines and publication check of the read registry | - |
| `ScenarioRecipes` | the experiment and the recovery of every scenario harness, as sequences of steps | - |
| `ScenarioLatch` | abstract: what the latch file promises | - |
| `ScenarioHarness` | operator processes running recipes over one cluster, with its environment | extends `ScenarioRecipes`, implements `ScenarioLatch` |
| `PaymentTraffic` | traffic driver, traffic control, sandbox services with their peers | driver, control and services together |
| `MemoryEvidence` | concurrent memory work and the judgement of its log | service and validator together |
| `HostRuntime` | model runtime, provider adapter, retrieval client, deferred close | runtime and host together |
| `Incidents` | the incident table under callers of the three APIs | - |
| `EvidenceMemory` | artifacts, retrieval with lineage, derived cache | clients and artifacts together |
| `TraceReads` | trace reader, span framing, graph summary, a changing cluster | reader and parser together |
| `ReasoningLoopProofs`, `InvestigationProofs`, `ReadRegistryProofs`, `PaymentTrafficProofs`, `ScenarioHarnessProofs` | theorems about the module of that name | extends that module |
| `ServicesProofs` | theorems about `HostRuntime` and `Incidents` | extends both |
| `EvidenceProofs` | theorems about `EvidenceMemory`, `MemoryEvidence` and `TraceReads` | extends all three |
| `MCRemediation`, `MCReasoningLoop`, `MCInvestigation`, `MCReadRegistry`, `MCScenarioHarness` | constants for TLC | |
| `MCServices` | constants for the last six; a behaviour is one of a single part | extends all six |

### Remediation

`pc[w]` and `call[w]` are the position and the locals of the broker call worker
`w` runs. One action stands for the code between two waits: `ReviewIdentity`,
`ReviewContext`, `ReviewEvaluate` are `_review`; `ApproveIdentity` ...
`ApproveCommit` are `approve`, `ExecuteIdentity` ... `ExecuteClaim` are `execute`
up to its claim, `RefreshIdentities` and `Authorize` are `_dispatch_authority`, `Plan`,
`Patch`, `Await`, `Rollout` are the executor, `DispatchSettle` the rest of
`_dispatch`. `ServeWrite` and `LoseWrite` are the API server handling a write
that is in flight, possibly long after its caller gave up. `Tick`, `Revoke`,
`ExternalWrite` and `Crash` are the environment. Policy evaluation is abstracted
to its verdict over age and grants; which patch is written is not told apart.

### BudgetLedger and ReasoningLoop

`ledger` is the row, bound to nothing before the first `open`; a caller reserves or completes against the copy it read
(`expected`), as `_replace` does. A session walks `Open`, `Authority`, `Model`,
`ModelReserve`, `ModelDispatch`, `ModelPublish`, `ModelComplete`, `ModelRestore`
and the same for reads. Digests are modelled as the content they stand for, so
`artifacts` is a set of prompts and receipts. A prompt is its operation, binding
and context (evidence and preferred items): what `model()` compares on replay. What
the provider answers, and what a read returns, is any of the results the
contracts admit; `Local` selects the branches of the `local_llama` provider.
Deaths are not bounded: sessions end for good only because the row does.

### Investigation

`checkpoint` is the newest graph state, `attempts`, `marker` and `collection` are
the files beside it, `row` and `acked` the SQL report and the message. Each node
is reserved (`Attempt`), run, and committed. The loop appears as `journal`:
numbers of charged and completed operations, and what the last receipt says.
`Verified` chooses between calls through `OperatorHost`, whose `_publish` and
`_reconstruct` are `Publishable`, and calls on the bare graph. Exceptions that
leave a node (a ledger conflict, a database error) end the call without a
commit and are covered by `Crash`.

### ReadRegistry

The module opens what `ReasoningLoop` takes as the result of a batch. `tasks` are
the submitted reads and publication checks of the batches in progress, `free` is
the semaphore, `adrift` counts the tasks whose caller gave up and that still hold
a slot. A task is authorized, reads and is authorized again (`Read`), records its time,
releases its slot and only then resolves its future; the caller submits under
the lock (`Unlocked`), gathers in order and publishes. Time is a countdown per task:
only the order of a completion and its deadline is told apart. What a handler
does (`operational_reads.py`) appears as success or one of `Raised`.

### ScenarioRecipes, ScenarioHarness and ScenarioLatch

The harnesses share one shape: take the latch, read what will be restored, save
it and every variant the run may write, change objects under conditions, wait
for the cluster, investigate, restore in several independent attempts, write
the receipt, release the latch only if nothing failed. A recipe is that shape
as data, a definition per method: `SchedulerApply` is `_apply`, `CpuStage` is `_stage`, and
so on; `Experiment(case)` and `Recovery(case)` concatenate them. An object is known by
the variant of its specification (`spec`), by what runs of it (`live`) and by whether its
container is unrestarted (`whole`). What the observers demand of pods, metrics, logs
and traces is the state of the cluster they cannot be satisfied without
(`Await`, `Settle`); that they may find fault with it anyway is `Raise`.

`ScenarioHarness` runs these programs step by step. Each step may succeed, raise before it
has an effect, or have its effect and lose the answer (`Answered`). The
differences between the harnesses' handlers are kept: an interrupt during a recovery
is noted and the recovery goes on (SCHED-01, TELEM-03, ROLLOUT-04, OOM-02 to 04), skips to the
receipt (TELEM-01, DEP-03, DEP-04, SCHED-04) or escapes (the base runner and SCHED-03); a failed audit
write is tolerated by some (`SaveFails`); the HPA harness restores the workload only
after both removals (`Needs`); leaving the PostgreSQL pressure block closes its sessions
(`Closed`). Fifteen of the twenty-four cases are run; the others share a recipe with
one of them (for example SCHED-02 with SCHED-01, PAY-01 to 03 with DEP-02).

### PaymentTraffic and MemoryEvidence

An attempt is queued, asks its admission in a thread, is sent, and is recorded;
`asked` is the thread, which a cancellation does not stop, and `handler` the service's
request, which a caller that gives up does not stop. Admission and pause are the single
conditional updates of `traffic_control.py`. A role's store has, per sample, nothing, a
reservation or a result; `payments` calls its peers in order and abandons its
reservation when one fails or times out. Injected faults appear as `Declines` and as
executions that raise.

`MemoryEvidence` runs the slots of `ConcurrentMemory.run` and applies the validator, a fold
over the log, to every reachable log, once as a serial control and once as a parallel run.
Every record may raise and leave no line, the release included, whose slot is given back first;
the checks before the slot refuse without a record, and `close()` ends admission. What really
happened is kept beside the log: whether requests overlapped, the most that held memory at once,
the holds cut short and the records lost.

### HostRuntime

`slot`, `job` and `caller` are the semaphore, the pool's thread and the session of
`ModelRuntime`; a job whose deadline passed goes on (`late`) and keeps the slot. `lifetime` is
`DeferredClose`: leases, closers, and the closers a thread runs outside the lock (`todo`).
`close()` comes at any time, also while a call is on the wire, and the constructor may fail
half way. A closed runtime answers `authority()` BUSY and raises in `observe()`.

### Incidents, EvidenceMemory, TraceReads

`Incidents` splits each request at its transactions: insert and read back in
`create`; read, investigate, authorize again, select, conditional update and
read of the winner in `investigate`.
In `EvidenceMemory` an item is its origin and the chain of scopes it was retrieved for;
digests are the item itself, and a rotten artifact fails its digest. Elasticsearch may return
any rows, Redis any envelope it ever held. In `TraceReads` the reader's commands are single
steps between which containers restart, pods are replaced and the deployment is
recreated; a log is a sequence of lines that the framing folds over.

## 3. The runs

| Run | Instance | Shows |
|---|---|---|
| `remediation_race` | two workers, one action on a Deployment, one clock tick, a foreign write | `StoreSound`, `SoleClaimant`, `AtMostOneDispatch`, `OrphanStays`, refinement of `ActionLifecycle`, `ClaimResolves` (fairness) |
| `remediation_authority` | one worker, two actions on one traffic control, two ticks, withdrawn grants, lost and late writes | `DispatchWithinAuthority`, `DefiniteOutcome`, `OneEffectPerVersion` |
| `loop_hosts` | two hosts, local provider, three turns, two requests, allowance for one read | `DispatchedOnce`, `SpendWithinLimits`, `ReplayMatches`, `DecisionRestsOnJournal`, `JournalOnlyGrows` |
| `loop_ends` | two configurations on one host, exhausted prompt and evidence, fairness | `SessionEnds` |
| `investigation_host` | two host processes, two deaths, revocable grant, manual restarts | `AcknowledgedReport`, `CollectedOnce`, `StepsNeverReplenished`, `HonestReport`, `CheckpointNeverRegresses` |
| `investigation_delivery` | two workers over the bare graph with its breakpoint, two deaths, fairness | `RedeliveryResumes` |
| `registry` | two threads, two slots, batches of up to two reads and of one, fairness of callers, clock and lock | `NoHiddenQueue`, `ReturnedInTimeAndGranted`, `NeverBusyAlone`, `RegistryReturns` |
| `scenario_all` | every recipe, a second process with a case of its own, one foreign edit, restart or death, fairness of live processes | `JournalBeforeWrite`, `LeftoverExplained`, `ForeignKept`, refinement of `ScenarioLatch`, `RunEnds` |
| `services`, traffic | a probe and a batch of two, two peers, stores of one sample | `PauseStopsAdmission`, `ReceiptHonest`, `OneExecution`, `AcceptedByAll`, `ServicesEnd` |
| `services`, memory | three requests, two slots, two allocations for a parallel run, any record lost | `MemoryJudgement` |
| `services`, host | two calls, two searches | `HostCustody`, `ServicesEnd` |
| `services`, incidents | three callers, one key, two bodies, both modes | `IncidentsAgree` |
| `services`, evidence | three scopes in two namespaces, one link, two searches | `EvidenceScoped` |
| `services`, trace | two pods, two changes, 27 first logs, up to four spans | `TraceHonest` |
| `investigation_redelivery_host` | one worker over the host, one death | violates `RedeliveryResumes` |
| `investigation_rank_crash` | one worker, the host's four steps, one death | violates `CompletedLoopReplays` |
| `scenario_kubelet` | the eviction case, no trouble needed | violates `KubeletRestored` |

`services` is one run of six independent parts: `part` is chosen at the start and only
that part moves, so that a behaviour of the run is a behaviour of one module. The parts
share no state, and checking their product would add nothing.

What the less obvious properties say. `LatchProtocol` is a refinement: every step of the
harnesses, their controllers and the other operators is a step of the abstract
latch, whose release requires that nothing is disturbed. `LeftoverExplained` says that when a
run gives up and leaves an object altered, the attempt that restores this very object
failed. `NeverBusyAlone`, and the part of `HostCustody` about the slot, say that an open runtime's BUSY
has a cause that is still at work; the last part of `HostCustody` says that what a job brings after its
deadline is given to nobody. `MemoryJudgement` has both directions for the serial control (accepted exactly
if serial, held to the end and recorded in full), and only the sound one for the parallel run. `EvidenceScoped` includes the boundary of the lineage: a
search must not hand out an item that the next verification refuses.

Bounds, and why they are enough for the questions. Races need two contenders:
two workers, and two actions where actions compete. The clock needs one tick per
deadline that can be missed: identity, evidence and resource age out after one, an
approval after two (`MaxTime`). `MaxVersion` lets a foreign write come
between in `remediation_race`; traffic controls, of which `remediation_authority` has one, have no other writer. The loop needs two turns to have a decision that depends on an earlier
read, and three for the local provider to be refused a batch and go on. The
graph has four nodes that cost a step; six steps and two deaths reach every
restart with and without slack. `MaxOps` 2 gives a journal with a completed and
an open operation. In the registry one tick separates
in time from late, and calls that raise end as DENIED only, since no step
depends on which failure it is. A recipe is run to the end from every failure of every
step; `MaxTrouble` 1 puts one foreign edit, restart or death anywhere, and failures, lost
answers and interrupts are not bounded at all. A second process is enough to try the
latch while it is held and after it was left. `MaxLinks` 1 stands for the eight links
of a lineage: a second search reaches the boundary. Two pods use up `MaxCommands`
exactly. Workers are interchangeable in the runs that declare symmetry
and check no liveness.

Fairness. `remediation_race`, `loop_ends` and the delivery runs assume weak
fairness of the steps of a live worker only: no such step waits for another
worker (locks are tried with timeout 0, and every external wait has a timeout whose
expiry is one of the outcomes). Delivery adds that Pub/Sub delivers a message
that was not acknowledged again. Nothing is assumed of new calls, of the clock,
of operators, or of in-flight writes. `registry` assumes that time passes and
callers run, and strong fairness of the step that waits for the lock, which is
held only for a ledger transaction at a time; that transports return is assumed
only where `RegistryReturns` speaks of slots, since each has a timeout of its own. `scenario_all` assumes weak fairness of the steps of a live
process, every one of which ends by its timeout at the latest. In `services` the driver's event loop and
timers are fair, but neither services, peers nor the admission threads need ever
answer; the threads and transports of the host end by the adapters' own deadlines,
and nobody need call or close. `scenario_all` and `services` declare `CHECK_DEADLOCK FALSE`
because runs, batches and requests end. Runs without a `CHECK_DEADLOCK` line also show that
no reachable state is stuck.

### Findings

* `investigation_redelivery_host`. `docs/pubsub-worker.md` (line 20) wires the worker to the
  operator host and says that "A crash before SQL publication can resume the
  durable graph without repeating completed observations." `OperatorHost.start`
  passes the saved, unfinished state to `_publish`, which raises before the worker's
  `process` can call `resume`; every redelivery is refused the same way until an
  operator resumes by hand. Over the bare graph, as in
  `tests/unit/test_pubsub_worker.py`, the sentence holds (`investigation_delivery`).
* `investigation_rank_crash`. `docs/reasoning.md` (line 19) says that "A crash after loop
  completion but before the LangGraph rank checkpoint replays results without
  another model or read call." The host starts investigations with the default
  four steps, all used by then: the resumed rank node is refused, the report
  says BUDGET_EXHAUSTED without the loop's result, and the host does not publish
  it because a journal exists. With six steps, as in
  `tests/unit/test_graph_reasoning.py`, the sentence holds.

* `scenario_kubelet`. `docs/scenarios.md` (line 6) says "Unverified cleanup blocks later
  runs". `EvictionGateway.replace_config` writes the kubelet's file and then restarts the kubelet. If that
  restart fails in the restore at the end of the experiment, the recovery finds the original
  bytes, has nothing to do (`eviction_harness.py`, lines 47-54), verifies only the file, and
  releases the latch while the kubelet runs the pressure configuration. A restart that fails
  inside the recovery itself does keep the latch.

## 4. The proofs

Every theorem holds for every value of the constants: any sets of workers, hosts, actions, callers or
attempts, and any limits. What is assumed of constants is named in the modules that declare them and
evaluated by TLC in the runs.

| Module | Theorem | States |
|---|---|---|
| `RemediationProofs` | `TypeCorrect` | `Spec => []TypeOK` |
| | `OneOwner` | `Spec => []SoleClaimant` |
| | `DispatchedOnce` | `Spec => []AtMostOneDispatch` |
| | `ExclusiveEffects` | `Spec => []OneEffectPerVersion` |
| | `Refinement` | `Spec => ImplementsLifecycle` |
| | `TablesSound` | `Spec => []StoreSound` |
| | `OutcomesTrue` | `Spec => []DefiniteOutcome` |
| | `OrphansFrozen` | `Spec => OrphanStays` |
| | `AuthorityAtDispatch` | `Spec => DispatchWithinAuthority` |
| `ReasoningLoopProofs` | `AskedOnce` | `Spec => []DispatchedOnce` |
| | `ReplayRebuilds` | `Spec => []ReplayMatches` |
| | `DecisionsRest` | `Spec => []DecisionRestsOnJournal` |
| | `NeverRefunded` | `Spec => JournalOnlyGrows` |
| | `SpendStaysWithin` | `Spec => []SpendWithinLimits` |
| `InvestigationProofs` | `TypeCorrect` | `Spec => []TypeOK` |
| | `ReportBeforeAck` | `Spec => []AcknowledgedReport` |
| | `CollectionNotRepeated` | `Spec => []CollectedOnce` |
| | `AllowanceKept` | `Spec => []StepsNeverReplenished` |
| | `HostPublishesHonestly` | `Verified`: `Spec => []HonestReport` |
| | `NeverRegresses` | `Spec => CheckpointNeverRegresses` |
| `ReadRegistryProofs` | `SemaphoreBounded` | `Spec => []TypeOK` |
| | `PoolNeverOversubscribed` | `Spec => []NoHiddenQueue` |
| | `OnlyTimelyAndGranted` | `Spec => []ReturnedInTimeAndGranted` |
| | `AloneNeverBusy` | `Slots >= 2`: `Spec => []NeverBusyAlone` |
| `PaymentTrafficProofs` | `ExecutedOnce` | `TrafficSpec => []OneExecution` |
| | `ReceiptsTrue` | `TrafficSpec => []ReceiptHonest` |
| | `AcceptanceRests` | `TrafficSpec => []AcceptedByAll` |
| | `PauseOrders` | `TrafficSpec => PauseStopsAdmission` |
| `ScenarioHarnessProofs` | `TypeCorrect` | `Spec => []TypeOK` |
| | `OriginalsSaved` | `Spec => []JournalBeforeWrite` |
| | `LeftoversExplained` | `Spec => []LeftoverExplained` |
| | `ForeignEditsKept` | `Spec => ForeignKept` |
| | `LatchImplemented` | `Spec => LatchProtocol` |
| `ServicesProofs` | `CustodyKept` | `HostSpec => []HostCustody` |
| | `CallersAgree` | `IncidentSpec => []IncidentsAgree` |
| `EvidenceProofs` | `EvidenceStaysScoped` | `EvidenceSpec => []EvidenceScoped` |
| | `JudgementIsRight` | `MemorySpec => []MemoryJudgement` |
| | `TracesStayHonest` | `TraceSpec => []TraceHonest` |

Every safety invariant and every action property that a passing run checks is stated by one of these
theorems. `TrafficSpec`, `HostSpec`, `IncidentSpec`, `EvidenceSpec`, `MemorySpec` and `TraceSpec` are the
parts of the `services` run on their own. The inductive invariants are named in the modules: `IInv` (with its parts)
in most; `JInv`, which `RemediationProofs` adds to it for the tables and deadlines; `OwnInv` and `SpendInv` of `ReasoningLoopProofs`, on which its
`IInv` rests; `EvidenceInv`, `MemoryInv` and `TraceInv` of `EvidenceProofs`.

Hypotheses beyond the named assumptions. `Verified`: calls go through `OperatorHost`, whose
`_publish` makes the promise; the bare graph makes none. `Slots >= 2`: the code's pool has two, and with one
slot a batch's own abandoned read may keep its publication check out.

**Remediation.** None of the invariants is inductive: that a second worker cannot
claim depends on what that worker read. `IInv` adds, for every call, that a record
is used only after it was read and typed (`CallInv`); that a call past its claim
holds an exact copy of the stored row, in state EXECUTING, and shares its action
with no other such call (`ClaimInv`); that before dispatch nothing was counted
(`DispatchInv`); and where the write of an action can be: not sent before
`Patch`, applied once a worker watches the rollout, in flight only while the
row is EXECUTING or UNKNOWN, and behind the resource's version once applied
(`WriteInv`). Most steps touch only their own call; `StepLocal` summarises them
once, and the steps that write the store, dispatch, send or serve a write have a
lemma each. The refinement uses `IInv` to show that each write of the store is
the abstract transition of its action and that `ServeWrite` is `Effect`.
`JInv` goes on from there: the audit rows of an action are one per revision, each a
permitted successor of the last; what a call carries through a review or a dispatch was
read at a time that bounds its age, so that the tests at the end of the wait imply the
deadlines at the dispatch; a claim marked orphaned has no call that could write it.

**Reasoning loop.** A session is a walk along the journal. What it knows after k receipts is a
point (turn, evidence, preferred items, rejected answers, completed and wanted reads), and
the next point is a function of the next receipt (`After`). The inductive invariant says that one
history of points is behind the journal: the k-th charge was made at the k-th point and is bound to
exactly its work, the k-th receipt leads to the next point, points follow one another in
strict order (`Rank`), and every session of every host stands at a point of this history
(`Standing`). So a session that finds its operation unreserved stands at the end of a settled journal;
a reservation is held by one session at a time (`AloneInv`), nobody can change the row under it, and a restart
rebuilds what was charged.

Out of reads, the hosted providers end the run, but the local one may go on without them, and without a
receipt that would say so. The points of its history are still a function of the journal, because a refusal
is a fact about the charges made before it (`Refused`), and charges only add up: what was refused
after some of them is refused after all of them (`MoreCharges`). A session that replays such a
stretch is, for two steps, not at a point of the history but before it (`Barred`); it
cannot find its reads charged (`NeverCharged`), is refused them again (`BarredDenied`), and goes on where the
history does (`SkipStep`). A session that is on the history is never refused reads that the history was
granted (`OnGranted`). No theorem of this module has a hypothesis on the provider.

`SpendWithinLimits` is about sums. `SumFunction` and `FoldLeft` are recursive functions over the subsets of their
domain; their recursion is derived from their definitions by induction over cardinalities, from the least
counterexample (`Least`, `Induct`, by the library's well-foundedness of the naturals), and `SumWithin` compares
the sums of two functions of which one embeds in the other. `OwnInv` says that
what was dispatched is charged, once, and by one session; `SpendInv` that the charges in the row are within every limit and
that a batch is a batch of requests. The dispatched operations then embed in the charges.

**Investigation.** `IInv` says what the holder of the file lock knows of the checkpoint and the files beside it
(`HolderInv`), that a state in the hands of a call that left the lock is still the one it was given or a finished one
(`CarriesInv`), that executed bodies are bounded by the attempts on file and collections by the marker
(`CountInv`), and that the row holds the report of a sealed checkpoint (`RowInv`).

**Read registry.** The slots are counted: free ones, running tasks and tasks adrift make up the pool. `IInv` ties each task to the
position of its caller in the batch and to the entry it will fill, and says which of the tasks
of a batch that is alone can still hold a slot.

**Traffic, host, incidents.** `PaymentTraffic` needs to know which handlers a request can have
reached (`ReachInv`), who owns a reservation in a role's store (`OwnerInv`), that an answer on its way is the store's (`AnswerInv`),
and that every grant is counted as an admission, as may be one whose answer was lost (`AdmissionInv`). `HostRuntime` needs the
leases counted against the callers that hold one, and that a caller waits for the job of its own operation. `Incidents` needs, for every request between its transactions,
that the incident it was told is the one its key has, and that a winner it is about to read is there.

**Scenario harnesses.** The recipes of the cases enter only through `RecipeAssumption`: writes are conditional on
what the harness knows, what a write replaces and what it writes is journalled before it, the recovery
checks and puts back what the experiment touches, an autoscaler is raised only over a workload it may scale, and while sessions are
held the run only looks. TLC evaluates it on the
recipes themselves, so that the proof is not about one list of cases. `IInv` says that only the holder of the
latch works (`LatchInv`); that it is inside its program and knows what it saved and which objects its
recovery has put back for certain (`HolderInv`); that only objects the holder's case touches are disturbed (`DisturbInv`); that
whatever is altered can be put back from the evidence directory (`JournalInv`); and what an autoscaler (`ScaleInv`) or
a held session (`SessionInv`) can find. Restorations that fail are remembered by position, which is what makes a
leftover the leftover of that very object.

**Evidence, memory work, traces.** Retrieval: every artifact on disk stays in the namespace of its origin,
link by link (`FilesInv`), and the cache refers to files (`CachedInv`), so that a verified lineage with one more link is a lineage
again. Memory work: as long as the judgement of the records so far has not failed, its open requests are those that hold
memory and at most some whose release left no line, its completed ones are over with their records complete, and its peaks are no
larger than the service's; without early releases and lost records it has not failed (`MemoryInv`). Traces: the live pod with a uid that was read has only restarted since, and every pod
still to be read is paid for (`TraceInv`); what the framing of the records accepts is shown from the recursion of the
fold, and that spans without a cycle form a forest from the fact that a walk in a finite set comes back to a place.

Only model-checked: the liveness properties (`ClaimResolves`, `SessionEnds`, `RedeliveryResumes`,
`RegistryReturns`, `RunEnds`, `ServicesEnd`). They need fairness, which is beyond the prover.

## 5. Not modelled, and the plan

Modelled: remediation, the reasoning loop with its ledger, the investigation from message
to report, the read registry, the model runtime and client lifetimes, the traffic
control, driver and sandbox services, all scenario harnesses, the incident store and
APIs, retrieval and cache, and the trace reader.

Left for later, in this order:

1. The MCP session (`tools/mcp_transport.py`, `gke_mcp.py`) and the cloud archive of artifacts
   (`evidence/gcs.py`).
2. Pure algorithms as operators against reference definitions: payment windows
   (`evidence/payment_window.py`, `scenarios/package_a.py`), context selection, baseline ranking,
   evaluation metrics. They have no state, and their unit tests reach most of what a
   bounded check would.

Assumed, where the code cannot know better. A Kubernetes write takes effect before its
client returns or gives up. The kubelet's file is compared and written by two
commands, so that a foreign edit in between is lost; `ForeignKept` is about the
API objects, whose writes are conditional.

Folded, because no property tells them apart: the driver's `invalid_response` is an
`http_error`, and that a parallel memory run must also show a growth of the kernel's own count is left out.

Narrower in a run than in the theorems. The one probe of `services` goes to the webhook role, so
a payment retried while its peers already hold a result is covered by the theorems about `TrafficSpec`
only. `remediation_authority` acts on a traffic control; `DefiniteOutcome` for a Deployment
is covered by its theorem. Of `ServicesEnd` the mutant disturbs the traffic half.

Left out for good: token verification and provider wire formats (cryptography,
network I/O), Slack notifications, telemetry export, the terminal client, prompt
wording, the numbers in the harnesses' evidence, and generated Kubernetes manifests. They
hold no state that the properties above depend on.
