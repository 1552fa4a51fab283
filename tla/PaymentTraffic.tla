--------------------------- MODULE PaymentTraffic ---------------------------
(***************************************************************************)
(* Synthetic payment traffic: the bounded driver (scenarios/traffic.py)    *)
(* whose attempts pass a pausable SQL admission (remediation/              *)
(* traffic_control.py, managed_traffic.py) and reach the sandbox services  *)
(* (sandbox/service.py), each with its own idempotency store.  A caller    *)
(* that gives up does not stop the handler it called.                      *)
(***************************************************************************)
EXTENDS Naturals, Sequences, FiniteSets

CONSTANTS Plans,        \* the plans of attempts that are run
          Peers,        \* the peers payments calls, in order
          Capacity,     \* idempotency_capacity of every role
          Concurrency,  \* workload.concurrency
          Declines      \* <<role, sample>> the injected fault declines

Samples == UNION {{p.attempts[a].sample : a \in DOMAIN p.attempts} : p \in Plans}

\* Payments is nobody's peer and ends with the webhook, no peer is called twice; every
\* attempt has a body, and a probe sends one sample id three times.
ASSUME TrafficAssumption ==
  /\ Peers \in Seq(STRING) /\ \E i \in DOMAIN Peers : Peers[i] = "webhook"
  /\ \A i \in DOMAIN Peers : Peers[i] # "payments" /\ \A j \in DOMAIN Peers : Peers[i] = Peers[j] => i = j
  /\ \A p \in Plans :
       /\ p.probe \in BOOLEAN /\ p.role \in {"payments", "webhook"}
       /\ p.attempts \in Seq([sample : Samples, body : STRING \ {"none"}])
       /\ p.probe => /\ Len(p.attempts) = 3
                     /\ \A a, b \in 1..3 : p.attempts[a].sample = p.attempts[b].sample

VARIABLES plan,      \* [probe, role, attempts]; an attempt has a sample id and a body
          driver,    \* the batch: running, stopping or its receipt written
          att,       \* per attempt: where it is, whether it started, its outcome
          asked,     \* per attempt: its admission thread
          control,   \* the row of the traffic control
          store,     \* per role and sample: nothing, a reservation or a result
          handler    \* per role and attempt: the request's handler

trafficVars == <<plan, driver, att, asked, control, store, handler>>

Roles == {"payments", "webhook"} \cup {Peers[i] : i \in DOMAIN Peers}
AttemptIds == DOMAIN plan.attempts
SampleOf(a) == plan.attempts[a].sample
Body(a) == plan.attempts[a].body

\* A store's entry is the body's fingerprint and its result.
NoEntry == [body |-> "none", result |-> "none"]

NoHandler == [at |-> "none", next |-> 1, code |-> "none", ran |-> FALSE]

TrafficInit ==
  /\ plan \in Plans
  /\ driver = "running"
  /\ att = [a \in AttemptIds |-> [at |-> "queued", started |-> FALSE, outcome |-> "none"]]
  /\ asked = [a \in AttemptIds |-> "no"]
  /\ control = [paused |-> FALSE, admitted |-> 0]
  /\ store = [r \in Roles |-> [s \in Samples |-> NoEntry]]
  /\ handler = [r \in Roles |-> [a \in AttemptIds |-> NoHandler]]

-----------------------------------------------------------------------------
(* TrafficControl: admission and pause are single conditional updates.     *)

\* Mutant: the update does not look at the pause.
AdmitUpdateBlind(a) ==
  /\ asked' = [asked EXCEPT ![a] = "granted"]
  /\ control' = [control EXCEPT !.admitted = @ + 1]

AdmitUpdate(a) ==
  IF control.paused
  THEN asked' = [asked EXCEPT ![a] = "refused"] /\ UNCHANGED control
  ELSE /\ asked' = [asked EXCEPT ![a] = "granted"]
       /\ control' = [control EXCEPT !.admitted = @ + 1]

\* ManagedTrafficDriver._admit in its thread, which no cancellation stops; it may raise,
\* before the update or after its commit.
Admission(a) ==
  /\ asked[a] = "asking"
  /\ \/ AdmitUpdate(a)
     \/ asked' = [asked EXCEPT ![a] = "raised"] /\ UNCHANGED control
     \/ /\ ~control.paused
        /\ asked' = [asked EXCEPT ![a] = "raised"]
        /\ control' = [control EXCEPT !.admitted = @ + 1]
  /\ UNCHANGED <<plan, driver, att, store, handler>>

PauseTraffic ==
  /\ ~control.paused
  /\ control' = [control EXCEPT !.paused = TRUE]
  /\ UNCHANGED <<plan, driver, att, asked, store, handler>>

-----------------------------------------------------------------------------
(* TrafficDriver                                                           *)

Holding == {a \in AttemptIds : att[a].at \in {"asking", "sent"}}

\* A probe's attempts go one after the other.
Turn(a) == plan.probe => \A b \in AttemptIds : b < a => att[b].at = "recorded"

Acquire(a) ==
  /\ driver = "running" /\ att[a].at = "queued" /\ Turn(a)
  /\ Cardinality(Holding) < Concurrency
  /\ att' = [att EXCEPT ![a].at = "asking"]
  /\ asked' = [asked EXCEPT ![a] = "asking"]
  /\ UNCHANGED <<plan, driver, control, store, handler>>

Recorded(a, outcome) == [att EXCEPT ![a].at = "recorded", ![a].outcome = outcome]

\* The admission's answer: send the request, record the pause, or fail the whole batch.
Answer(a) ==
  /\ att[a].at = "asking"
  /\ \/ /\ asked[a] = "granted"
        /\ att' = [att EXCEPT ![a].at = "sent", ![a].started = TRUE]
        /\ handler' = [handler EXCEPT ![plan.role][a].at = "arrived"]
        /\ UNCHANGED driver
     \/ asked[a] = "refused" /\ att' = Recorded(a, "paused") /\ UNCHANGED <<driver, handler>>
     \/ /\ asked[a] = "raised" /\ att' = Recorded(a, "failed")
        /\ driver' = "stopping"
        /\ UNCHANGED handler
  /\ UNCHANGED <<plan, asked, control, store>>

\* _classify: a 409 is a conflict only with the service's own detail.
Classify(code) == IF code \in {"accepted", "declined", "conflict"} THEN code ELSE "http_error"

Respond(a) ==
  /\ att[a].at = "sent" /\ handler[plan.role][a].at = "answered"
  /\ att' = Recorded(a, Classify(handler[plan.role][a].code))
  /\ UNCHANGED <<plan, driver, asked, control, store, handler>>

\* request_timeout_seconds, or the connection breaks.
GiveUpRequest(a) ==
  /\ att[a].at = "sent"
  /\ \E outcome \in {"timed_out", "request_error"} : att' = Recorded(a, outcome)
  /\ UNCHANGED <<plan, driver, asked, control, store, handler>>

\* The batch's deadline or an outer cancellation.
StopBatch ==
  /\ driver = "running" /\ \E a \in AttemptIds : att[a].at # "recorded"
  /\ driver' = "stopping"
  /\ UNCHANGED <<plan, att, asked, control, store, handler>>

\* A cancelled attempt keeps what it knows: whether its request was started.
CancelAttempt(a) ==
  /\ driver = "stopping" /\ att[a].at # "recorded"
  /\ att' = Recorded(a, "cancelled")
  /\ UNCHANGED <<plan, driver, asked, control, store, handler>>

\* Mutant: the receipt is written while an attempt still waits for its admission.
WriteReceiptEarly ==
  /\ driver \in {"running", "stopping"}
  /\ \A a \in AttemptIds : att[a].at \in {"recorded", "asking"}
  /\ driver' = "receipt"
  /\ UNCHANGED <<plan, att, asked, control, store, handler>>

\* Mutant: the driver also waits for the admission threads.
WriteReceiptJoining ==
  /\ driver \in {"running", "stopping"}
  /\ \A a \in AttemptIds : att[a].at = "recorded" /\ asked[a] # "asking"
  /\ driver' = "receipt"
  /\ UNCHANGED <<plan, att, asked, control, store, handler>>

\* The task group has waited for every attempt, then the receipt is written.
WriteReceipt ==
  /\ driver \in {"running", "stopping"} /\ \A a \in AttemptIds : att[a].at = "recorded"
  /\ driver' = "receipt"
  /\ UNCHANGED <<plan, att, asked, control, store, handler>>

\* _probe_verified: original, identical duplicate, changed body.
ProbeVerified ==
  /\ plan.probe
  /\ att[1].outcome = att[2].outcome /\ att[1].outcome \in {"accepted", "declined"}
  /\ att[3].outcome = "conflict"

-----------------------------------------------------------------------------
(* The services.                                                           *)

Working(r, a) == handler[r][a].at \in {"working", "calling"}

Answered(r, a, code) == [handler EXCEPT ![r][a].at = "answered", ![r][a].code = code]

ReservedCount(r) == Cardinality({s \in Samples : store[r][s] # NoEntry})

\* Mutant: a pending reservation does not exclude a second execution.
ReserveSampleShared(r, a) ==
  LET prior == store[r][SampleOf(a)]
  IN  \/ /\ prior.body = Body(a) /\ prior.result # "none"
         /\ handler' = Answered(r, a, prior.result) /\ UNCHANGED store
      \/ /\ prior.result = "none"
         /\ store' = [store EXCEPT ![r][SampleOf(a)] = [body |-> Body(a), result |-> "none"]]
         /\ handler' = [handler EXCEPT ![r][a].at = "working", ![r][a].ran = TRUE]

\* SampleStore.reserve: replay, conflict, full, or a reservation.
ReserveSample(r, a) ==
  LET prior == store[r][SampleOf(a)]
  IN  \/ /\ prior.body = Body(a) /\ prior.result # "none"
         /\ handler' = Answered(r, a, prior.result) /\ UNCHANGED store
      \/ /\ prior # NoEntry /\ (prior.body # Body(a) \/ prior.result = "none")
         /\ handler' = Answered(r, a, "conflict") /\ UNCHANGED store
      \/ /\ prior = NoEntry /\ ReservedCount(r) >= Capacity
         /\ handler' = Answered(r, a, "error") /\ UNCHANGED store
      \/ /\ prior = NoEntry /\ ReservedCount(r) < Capacity
         /\ store' = [store EXCEPT ![r][SampleOf(a)] = [body |-> Body(a), result |-> "none"]]
         /\ handler' = [handler EXCEPT ![r][a].at = "working", ![r][a].ran = TRUE]

\* decode_sample may refuse the protocol before anything is reserved.
Receive(r, a) ==
  /\ handler[r][a].at = "arrived"
  /\ \/ ReserveSample(r, a)
     \/ r # "payments" /\ handler' = Answered(r, a, "error") /\ UNCHANGED store
  /\ UNCHANGED <<plan, driver, att, asked, control>>

CompleteSample(r, a, code) ==
  /\ store' = [store EXCEPT ![r][SampleOf(a)].result = code]
  /\ handler' = Answered(r, a, code)

AbandonSample(r, a, code) ==
  /\ store' = [store EXCEPT ![r][SampleOf(a)] = NoEntry]
  /\ handler' = Answered(r, a, code)

\* The payment path after its i-th peer.
Called(a, i) ==
  IF i > Len(Peers) THEN CompleteSample("payments", a, "accepted")
  ELSE /\ handler' = [handler EXCEPT !["payments"][a].at = "calling", !["payments"][a].next = i,
                                     ![Peers[i]][a].at = "arrived"]
       /\ UNCHANGED store

\* execute_sample: the fault declines or raises, the optional memory, CPU and dependency
\* work raises, or the role's own work follows.
Execute(r, a) ==
  /\ handler[r][a].at = "working"
  /\ \/ <<r, SampleOf(a)>> \in Declines /\ CompleteSample(r, a, "declined")
     \/ /\ <<r, SampleOf(a)>> \notin Declines
        /\ IF r = "payments" THEN Called(a, 1) ELSE CompleteSample(r, a, "accepted")
     \/ AbandonSample(r, a, "error")
  /\ UNCHANGED <<plan, driver, att, asked, control>>

\* Mutant: a declined peer does not end the path.
PeerAnswersIgnoring(a) ==
  LET i == handler["payments"][a].next
      peer == handler[Peers[i]][a]
  IN  /\ handler["payments"][a].at = "calling" /\ peer.at = "answered"
      /\ IF peer.code \in {"accepted", "declined"} THEN Called(a, i + 1)
                                                   ELSE AbandonSample("payments", a, "error")
      /\ UNCHANGED <<plan, driver, att, asked, control>>

\* validate_peer: any other answer than a 200 of this sample raises; a peer's 409 has
\* another detail than the service's own.
PeerAnswers(a) ==
  LET i == handler["payments"][a].next
      peer == handler[Peers[i]][a]
  IN  /\ handler["payments"][a].at = "calling" /\ peer.at = "answered"
      /\ CASE peer.code = "accepted" -> Called(a, i + 1)
           [] peer.code = "declined" -> CompleteSample("payments", a, "declined")
           [] OTHER -> AbandonSample("payments", a, "error")
      /\ UNCHANGED <<plan, driver, att, asked, control>>

\* The peer call times out or breaks while the peer goes on.
PeerTimeout(a) ==
  /\ handler["payments"][a].at = "calling"
  /\ AbandonSample("payments", a, "error")
  /\ UNCHANGED <<plan, driver, att, asked, control>>

DriverStep(a) == Acquire(a) \/ Answer(a) \/ Respond(a) \/ GiveUpRequest(a) \/ CancelAttempt(a)

TrafficNext ==
  \/ \E a \in AttemptIds : DriverStep(a) \/ Admission(a) \/ PeerAnswers(a) \/ PeerTimeout(a)
  \/ \E a \in AttemptIds, r \in Roles : Receive(r, a) \/ Execute(r, a)
  \/ StopBatch \/ WriteReceipt \/ PauseTraffic

TrafficSpec == TrafficInit /\ [][TrafficNext]_trafficVars

\* The event loop runs and its timers expire; neither services nor the database need answer.
TrafficFairness == WF_trafficVars(\E a \in AttemptIds : DriverStep(a)) /\ WF_trafficVars(StopBatch)
                     /\ WF_trafficVars(WriteReceipt)

-----------------------------------------------------------------------------
(* Properties.                                                             *)

\* Pausing orders every admission: none is granted after it, so whatever is sent later was
\* admitted before, and the requests that reach the service never exceed the admissions.
PauseStopsAdmission ==
  /\ [][control.paused => {a \in AttemptIds : asked'[a] = "granted"}
                            = {a \in AttemptIds : asked[a] = "granted"}]_trafficVars
  /\ [](Cardinality({a \in AttemptIds : handler[plan.role][a].at # "none"}) <= control.admitted)

\* A receipt accounts for every attempt for good: none is started or sent afterwards, an
\* unstarted one never reached the service, an answered one has the service's answer.
ReceiptHonest ==
  driver = "receipt" =>
    \A a \in AttemptIds :
      /\ att[a].outcome # "none"
      /\ ~att[a].started => handler[plan.role][a].at = "none"
      /\ att[a].outcome \in {"accepted", "declined"} =>
           store[plan.role][SampleOf(a)].result = att[a].outcome

\* A role runs a sample for one request at a time and never again once it has a result,
\* although callers give up, retry and conflict.
OneExecution ==
  \A r \in Roles, s \in Samples :
    LET busy == {a \in AttemptIds : SampleOf(a) = s /\ Working(r, a)}
    IN  /\ Cardinality(busy) <= 1
        /\ (busy # {}) = (store[r][s] # NoEntry /\ store[r][s].result = "none")

\* A payment is accepted only if every peer holds its own acceptance, and the probe is
\* verified only if the original alone was executed.
AcceptedByAll ==
  /\ \A s \in Samples : store["payments"][s].result = "accepted" =>
       \A r \in Roles : store[r][s].result = "accepted"
  /\ ProbeVerified => {a \in AttemptIds : handler[plan.role][a].ran} = {1}

\* Every batch ends with its receipt, whatever hangs behind it.
TrafficEnds == <>(driver = "receipt")
=============================================================================
