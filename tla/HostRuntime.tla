----------------------------- MODULE HostRuntime -----------------------------
(***************************************************************************)
(* The lifetime of the operator host's clients (operator_host.py): the     *)
(* one-slot model runtime (orchestrator/model_runtime.py) with its staged  *)
(* provider call (openai_adapter.py, local_llama.py), a registry thread    *)
(* that reads through the retrieval client, and host.close(), which may    *)
(* come while calls that timed out are still on the wire.                  *)
(***************************************************************************)
EXTENDS Naturals, Sequences, FiniteSets, SequencesExt

CONSTANTS MaxCalls,  \* calls of the session
          MaxReads   \* searches of the registry's threads

VARIABLES hostAt,    \* the construction and the steps of close()
          granted,   \* the grant file still names this account
          lifetime,  \* DeferredClose: [closed, active, closers]
          closes,    \* per client: how often its close ran
          todo,      \* per thread: the closers its _finish still runs
          caller,    \* the session: [at, op, result, calls]
          slot,      \* the runtime's semaphore is taken
          job,       \* the pool's last job: [op, at, late, verdict]
          reader     \* the registry thread: [at, reads]

hostVars == <<hostAt, granted, lifetime, closes, todo, caller, slot, job, reader>>

Clients == {"provider", "engine", "retrieval"}
Threads == {"model", "read", "host"}
ModelOps == {"authority", "observe"}
NoJob == [op |-> "none", at |-> "none", late |-> FALSE, verdict |-> "none"]

HostInit ==
  /\ hostAt = "building" /\ granted = TRUE
  /\ lifetime = [closed |-> FALSE, active |-> {}, closers |-> <<>>]
  /\ closes = [c \in Clients |-> 0]
  /\ todo = [t \in Threads |-> <<>>]
  /\ caller = [at |-> "idle", op |-> "none", result |-> "none", calls |-> 0]
  /\ slot = FALSE /\ job = NoJob
  /\ reader = [at |-> "idle", reads |-> 0]

-----------------------------------------------------------------------------
(* DeferredClose                                                           *)

\* Mutant: the closers are ready although a method is active.
ReadyAtOnce(t, l) ==
  IF l.closed
  THEN /\ todo' = [todo EXCEPT ![t] = Reverse(l.closers)]
       /\ lifetime' = [l EXCEPT !.closers = <<>>]
  ELSE lifetime' = l /\ UNCHANGED todo

\* _ready: once closed and idle, the caller takes every closer, the newest first.
Ready(t, l) ==
  IF l.closed /\ l.active = {}
  THEN /\ todo' = [todo EXCEPT ![t] = Reverse(l.closers)]
       /\ lifetime' = [l EXCEPT !.closers = <<>>]
  ELSE lifetime' = l /\ UNCHANGED todo

Add(c) == lifetime' = [lifetime EXCEPT !.closers = Append(@, c)]

Lease(t) == lifetime' = [lifetime EXCEPT !.active = @ \cup {t}]

Leave(t) == Ready(t, [lifetime EXCEPT !.active = @ \ {t}])

\* _finish goes on after a closer that raises; the model's thread then reports an error.
FinishOne(t) ==
  /\ todo[t] # <<>>
  /\ todo' = [todo EXCEPT ![t] = Tail(@)]
  /\ closes' = [closes EXCEPT ![Head(todo[t])] = @ + 1]
  /\ \/ UNCHANGED job
     \/ t = "model" /\ job' = [job EXCEPT !.verdict = "ERROR"]
  /\ UNCHANGED <<hostAt, granted, lifetime, caller, slot, reader>>

-----------------------------------------------------------------------------
(* OperatorHost: the constructor registers its clients; if it fails it     *)
(* closes what it has.                                                     *)

Build ==
  /\ hostAt = "building"
  /\ \/ lifetime.closers = <<>> /\ Add("provider") /\ UNCHANGED hostAt
     \/ lifetime.closers = <<"provider">> /\ Add("engine") /\ hostAt' = "open"
  /\ UNCHANGED <<granted, closes, todo, caller, slot, job, reader>>

BuildFails ==
  /\ hostAt = "building"
  /\ hostAt' = "closed"
  /\ Ready("host", [lifetime EXCEPT !.closed = TRUE])
  /\ UNCHANGED <<granted, closes, caller, slot, job, reader>>

\* close(): the authority, then the runtime, then the clients.
CloseHost ==
  /\ \/ hostAt = "open" /\ hostAt' = "denying" /\ UNCHANGED <<lifetime, todo>>
     \/ hostAt = "denying" /\ hostAt' = "refusing" /\ UNCHANGED <<lifetime, todo>>
     \/ hostAt = "refusing" /\ hostAt' = "closed" /\ Ready("host", [lifetime EXCEPT !.closed = TRUE])
  /\ UNCHANGED <<granted, closes, caller, slot, job, reader>>

RuntimeClosed == hostAt \in {"refusing", "closed"}

\* LocalAuthority.allowed
Allowed == granted /\ hostAt = "open"

Revoke ==
  /\ granted /\ granted' = FALSE
  /\ UNCHANGED <<hostAt, lifetime, closes, todo, caller, slot, job, reader>>

-----------------------------------------------------------------------------
(* ModelRuntime: the caller's side of authority() and observe().           *)

TurnedAway(op, result) ==
  caller' = [at |-> "idle", op |-> op, result |-> result, calls |-> caller.calls + 1]

\* A closed runtime answers authority() BUSY and raises in observe().
Enter(op) ==
  /\ hostAt # "building" /\ caller.at = "idle" /\ caller.calls < MaxCalls
  /\ \/ RuntimeClosed /\ TurnedAway(op, IF op = "authority" THEN "BUSY" ELSE "raised") /\ UNCHANGED slot
     \/ ~RuntimeClosed /\ slot /\ TurnedAway(op, "BUSY") /\ UNCHANGED slot
     \/ /\ ~RuntimeClosed /\ ~slot
        /\ slot' = TRUE
        /\ caller' = [at |-> "entered", op |-> op, result |-> "none", calls |-> caller.calls + 1]
  /\ UNCHANGED <<hostAt, granted, lifetime, closes, todo, job, reader>>

\* A pool that was shut down meanwhile raises, and the slot goes back.
Submit ==
  /\ caller.at = "entered"
  /\ IF RuntimeClosed
     THEN /\ caller' = [caller EXCEPT !.at = "idle", !.result = "raised"]
          /\ slot' = FALSE /\ UNCHANGED job
     ELSE /\ job' = [op |-> caller.op, at |-> "queued", late |-> FALSE, verdict |-> "none"]
          /\ caller' = [caller EXCEPT !.at = "waiting"]
          /\ UNCHANGED slot
  /\ UNCHANGED <<hostAt, granted, lifetime, closes, todo, reader>>

Deadline ==
  /\ job.at \notin {"none", "done"} /\ ~job.late
  /\ job' = [job EXCEPT !.late = TRUE]
  /\ UNCHANGED <<hostAt, granted, lifetime, closes, todo, caller, slot, reader>>

\* future.result: what finished in time, or TIMEOUT while the job goes on.
Return ==
  /\ caller.at = "waiting" /\ (job.at = "done" \/ job.late)
  /\ caller' = [caller EXCEPT !.at = "idle", !.result = IF job.late THEN "TIMEOUT" ELSE job.verdict]
  /\ UNCHANGED <<hostAt, granted, lifetime, closes, todo, slot, job, reader>>

-----------------------------------------------------------------------------
(* ModelRuntime: the pool's thread.                                        *)

At(from, to) == job.at = from /\ job' = [job EXCEPT !.at = to]
Verdict(from, to, v) == job.at = from /\ job' = [job EXCEPT !.at = to, !.verdict = v]

StageAllowed == ~job.late /\ Allowed

\* Both jobs end by giving the slot back.
Done(verdicts) ==
  /\ slot' = FALSE
  /\ \E v \in verdicts : job' = [job EXCEPT !.at = "done", !.verdict = v]

RefreshAuthority ==
  /\ job.op = "authority" /\ job.at = "queued"
  /\ Done({IF Allowed THEN "OK" ELSE "DENIED", "ERROR"})
  /\ UNCHANGED <<hostAt, granted, lifetime, closes, todo, caller, reader>>

FirstStage ==
  /\ job.op = "observe" /\ job.at = "queued"
  /\ IF StageAllowed THEN At("queued", "leasing") /\ UNCHANGED slot ELSE Done({"DENIED"})
  /\ UNCHANGED <<hostAt, granted, lifetime, closes, todo, caller, reader>>

\* ManagedProvider.invoke_staged takes its lease and starts the count.
LeaseProvider ==
  /\ job.at = "leasing"
  /\ IF lifetime.closed THEN Done({"DENIED"}) /\ UNCHANGED lifetime
     ELSE At("leasing", "counting") /\ Lease("model") /\ UNCHANGED slot
  /\ UNCHANGED <<hostAt, granted, closes, todo, caller, reader>>

\* The adapter's generation, which may fail; its own deadline ends the transport.
GenerateStage == Verdict("generating", "leaving", "OK") \/ Verdict("generating", "leaving", "ERROR")

\* The adapter's count, which may fail, its authority hook and its generation.
ProviderStep ==
  /\ \/ At("counting", "counted") \/ Verdict("counting", "leaving", "ERROR")
     \/ StageAllowed /\ At("counted", "generating")
     \/ ~StageAllowed /\ Verdict("counted", "leaving", "DENIED")
     \/ GenerateStage
  /\ UNCHANGED <<hostAt, granted, lifetime, closes, todo, caller, slot, reader>>

LeaveProvider ==
  /\ At("leaving", "finishing") /\ Leave("model")
  /\ UNCHANGED <<hostAt, granted, closes, caller, slot, reader>>

\* The accounting, the decision and the last stage.
Judge ==
  /\ job.at = "finishing" /\ todo["model"] = <<>>
  /\ Done(IF job.verdict # "OK" THEN {job.verdict}
          ELSE {"ERROR", IF StageAllowed THEN "OK" ELSE "DENIED"})
  /\ UNCHANGED <<hostAt, granted, lifetime, closes, todo, caller, reader>>

JobStep == RefreshAuthority \/ FirstStage \/ LeaseProvider \/ ProviderStep \/ LeaveProvider \/ Judge

-----------------------------------------------------------------------------
(* ManagedRetrieval                                                        *)

\* The reasoner checks the grant before it makes the client of its incident.
Require ==
  /\ reader.at = "idle" /\ caller.at = "idle" /\ Allowed
  /\ reader' = [reader EXCEPT !.at = "allowed"]
  /\ UNCHANGED <<hostAt, granted, lifetime, closes, todo, caller, slot, job>>

\* A host closed since then closes the new client at once.
MakeRetrieval ==
  /\ reader.at = "allowed"
  /\ IF lifetime.closed
     THEN /\ closes' = [closes EXCEPT !["retrieval"] = 1]
          /\ reader' = [reader EXCEPT !.at = "denied"]
          /\ UNCHANGED lifetime
     ELSE Add("retrieval") /\ reader' = [reader EXCEPT !.at = "ready"] /\ UNCHANGED closes
  /\ UNCHANGED <<hostAt, granted, todo, caller, slot, job>>

SearchRetrieval ==
  /\ reader.at = "ready" /\ reader.reads < MaxReads
  /\ reader' = [at |-> IF lifetime.closed THEN "ready" ELSE "searching", reads |-> reader.reads + 1]
  /\ IF lifetime.closed THEN UNCHANGED lifetime ELSE Lease("read")
  /\ UNCHANGED <<hostAt, granted, closes, todo, caller, slot, job>>

SearchedRetrieval ==
  /\ reader.at = "searching"
  /\ reader' = [reader EXCEPT !.at = "ready"]
  /\ Leave("read")
  /\ UNCHANGED <<hostAt, granted, closes, caller, slot, job>>

HostNext ==
  \/ Build \/ BuildFails \/ CloseHost \/ Revoke
  \/ (\E op \in ModelOps : Enter(op)) \/ Submit \/ Deadline \/ Return
  \/ JobStep \/ Require \/ MakeRetrieval \/ SearchRetrieval \/ SearchedRetrieval
  \/ \E t \in Threads : FinishOne(t)

HostSpec == HostInit /\ [][HostNext]_hostVars

\* Threads run, the adapters' deadlines end every transport and the clock passes the
\* caller's; nobody need call or close.
HostFairness ==
  /\ WF_hostVars(Deadline) /\ WF_hostVars(Return) /\ WF_hostVars(JobStep) /\ WF_hostVars(SearchedRetrieval)
  /\ WF_hostVars(Submit)
  /\ WF_hostVars(hostAt # "open" /\ CloseHost)
  /\ \A t \in Threads : WF_hostVars(FinishOne(t))

-----------------------------------------------------------------------------
(* Properties.                                                             *)

\* No client is closed under a method that uses it, none is closed twice, none before the
\* host is.  The slot is taken exactly while a call is entering or its job is running, so a
\* runtime that is open answers BUSY only for a call on the wire and never for a slot that
\* leaked.  And an answer is that of the caller's own job, finished in time: what a job brings
\* after its deadline is given to nobody, the next call included.
HostCustody ==
  /\ job.at \in {"counting", "counted", "generating", "leaving"} => closes["provider"] = 0
  /\ reader.at = "searching" => closes["retrieval"] = 0
  /\ \A c \in Clients : closes[c] <= 1 /\ (closes[c] = 1 => hostAt = "closed")
  /\ slot = (caller.at = "entered" \/ job.at \notin {"none", "done"})
  /\ caller.result \in {"OK", "DENIED", "ERROR"} =>
       job.at = "done" /\ ~job.late /\ job.op = caller.op /\ job.verdict = caller.result

\* After close() has begun every registered client is closed in the end, although calls
\* that timed out still hold leases; and every call of the session returns.
HostEnds ==
  /\ hostAt = "denying" ~> \A c \in {"provider", "engine"} : closes[c] = 1
  /\ caller.at # "idle" ~> caller.at = "idle"
  /\ reader.at = "searching" /\ hostAt = "denying" ~> closes["retrieval"] = 1
==============================================================================
