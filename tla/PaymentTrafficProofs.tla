------------------------ MODULE PaymentTrafficProofs ------------------------
(***************************************************************************)
(* Proofs about PaymentTraffic, for all plans, peers, capacities, declines *)
(* and concurrency.                                                        *)
(*                                                                         *)
(* A service changes its tables in five ways (Replied, Reserved, Finished, *)
(* Abandoned, Forwarded below); every part of the inductive invariant is   *)
(* shown for those and for the driver's steps.  The parts: where an        *)
(* attempt is, who reached a handler, who owns a pending reservation, what *)
(* an answer and an acceptance rest on, and the order of a probe.          *)
(***************************************************************************)
EXTENDS PaymentTraffic, FiniteSetTheorems, SequenceTheorems, TLAPS

Verdicts == {"accepted", "declined"}

Entry == [body : STRING \cup {"none"}, result : Verdicts \cup {"none"}]

Handler == [at : {"none", "arrived", "working", "calling", "answered"}, next : Nat,
            code : Verdicts \cup {"none", "conflict", "error"}, ran : BOOLEAN]

Outcomes == Verdicts \cup {"none", "conflict", "http_error", "paused", "failed", "timed_out",
                           "request_error", "cancelled"}

TypeInv ==
  /\ plan \in Plans
  /\ driver \in {"running", "stopping", "receipt"}
  /\ att \in [AttemptIds -> [at : {"queued", "asking", "sent", "recorded"}, started : BOOLEAN,
                             outcome : Outcomes]]
  /\ asked \in [AttemptIds -> {"no", "asking", "granted", "refused", "raised"}]
  /\ control \in [paused : BOOLEAN, admitted : Nat]
  /\ store \in [Roles -> [Samples -> Entry]]
  /\ handler \in [Roles -> [AttemptIds -> Handler]]

Front(a) == handler[plan.role][a]

\* An attempt's progress, and what the service it calls has seen of it.
AttemptInv ==
  \A a \in AttemptIds :
    /\ att[a].at = "queued" => asked[a] = "no" /\ ~att[a].started
    /\ att[a].at = "asking" => ~att[a].started
    /\ att[a].at = "sent" => att[a].started
    /\ att[a].at = "recorded" <=> att[a].outcome # "none"
    /\ att[a].started <=> Front(a).at # "none"
    /\ att[a].started => asked[a] = "granted"
    /\ driver = "receipt" => att[a].at = "recorded"
    /\ att[a].outcome \in Verdicts => Front(a).at = "answered" /\ Front(a).code = att[a].outcome

\* A request runs only after it arrived, and a peer is reached only by the payment's calls,
\* in their order.
ReachInv ==
  \A a \in AttemptIds :
    /\ \A r \in Roles : /\ handler[r][a].ran => handler[r][a].at \notin {"none", "arrived"}
                        /\ Working(r, a) => handler[r][a].ran
                        /\ r # "payments" => handler[r][a].at # "calling"
    /\ plan.role # "payments" => handler["payments"][a].at = "none"
    /\ handler["payments"][a].at = "calling" => handler["payments"][a].next \in DOMAIN Peers
    /\ \A i \in DOMAIN Peers :
         plan.role = "payments" /\ handler[Peers[i]][a].at # "none" =>
           \/ handler["payments"][a].at = "answered"
           \/ handler["payments"][a].at = "calling" /\ i <= handler["payments"][a].next

\* A pending reservation has exactly one worker, and an entry somebody who made it.
OwnerInv ==
  \A r \in Roles :
    /\ \A a, b \in AttemptIds : Working(r, a) /\ Working(r, b) /\ SampleOf(a) = SampleOf(b) => a = b
    /\ \A a \in AttemptIds : Working(r, a) =>
         store[r][SampleOf(a)] # NoEntry /\ store[r][SampleOf(a)].result = "none"
    /\ \A s \in Samples : store[r][s] # NoEntry /\ store[r][s].result = "none" =>
         \E a \in AttemptIds : SampleOf(a) = s /\ Working(r, a)
    /\ \A s \in Samples : store[r][s] # NoEntry =>
         \E a \in AttemptIds : SampleOf(a) = s /\ handler[r][a].ran

\* An answer rests on the role's entry, an acceptance on the peers called before.
AnswerInv ==
  /\ \A r \in Roles, a \in AttemptIds :
       handler[r][a].at = "answered" /\ handler[r][a].code \in Verdicts =>
         store[r][SampleOf(a)].result = handler[r][a].code
  /\ \A a \in AttemptIds, j \in DOMAIN Peers :
       handler["payments"][a].at = "calling" /\ j < handler["payments"][a].next =>
         store[Peers[j]][SampleOf(a)].result = "accepted"
  /\ \A s \in Samples, j \in DOMAIN Peers :
       store["payments"][s].result = "accepted" => store[Peers[j]][s].result = "accepted"

\* A probe goes on only after the attempt before, and a verdict of the original that arrives
\* in time is of its own execution.
ProbeInv ==
  plan.probe =>
    /\ \A a, b \in AttemptIds :
         a < b /\ (att[b].at \in {"asking", "sent"} \/ att[b].started) => att[a].at = "recorded"
    /\ att[1].at = "sent" /\ Front(1).at = "answered" /\ Front(1).code \in Verdicts => Front(1).ran
    /\ att[1].outcome \in Verdicts =>
         Front(1).ran /\ \A b \in AttemptIds : b # 1 => ~Front(b).ran

Granted == {a \in AttemptIds : asked[a] = "granted"}

AdmissionInv == Cardinality(Granted) <= control.admitted

IInv == TypeInv /\ AttemptInv /\ ReachInv /\ OwnerInv /\ AnswerInv /\ ProbeInv /\ AdmissionInv

-----------------------------------------------------------------------------
(* What a service's step does, in terms of one request of one role.        *)

Codes == Verdicts \cup {"none", "conflict", "error"}

Untouched(r, a) ==
  \A q \in Roles, b \in AttemptIds : q # r \/ b # a => handler'[q][b] = handler[q][b]

Elsewhere(r, s) == \A q \in Roles, t \in Samples : q # r \/ t # s => store'[q][t] = store[q][t]

Answering(r, a, c) ==
  /\ handler'[r][a].at = "answered" /\ handler'[r][a].code = c /\ handler'[r][a].ran = handler[r][a].ran
  /\ Untouched(r, a)

\* A replay, a conflict or a refusal: the store stays.
Replied(r, a) ==
  /\ handler[r][a].at = "arrived" /\ store' = store
  /\ \E c \in Codes : /\ Answering(r, a, c)
                      /\ c \in Verdicts => store[r][SampleOf(a)].result = c

\* A new reservation, whose handler now works.
Reserved(r, a) ==
  /\ handler[r][a].at = "arrived" /\ store[r][SampleOf(a)] = NoEntry
  /\ handler'[r][a].at = "working" /\ handler'[r][a].ran /\ Untouched(r, a)
  /\ store'[r][SampleOf(a)] # NoEntry /\ store'[r][SampleOf(a)].result = "none"
  /\ Elsewhere(r, SampleOf(a))

\* The worker's result; a payment is accepted after all of its peers.
Finished(r, a) ==
  /\ Working(r, a)
  /\ \E c \in Verdicts :
       /\ Answering(r, a, c) /\ store'[r][SampleOf(a)].result = c
       /\ r = "payments" /\ c = "accepted" =>
            \A j \in DOMAIN Peers : store[Peers[j]][SampleOf(a)].result = "accepted"
  /\ Elsewhere(r, SampleOf(a))

\* The worker failed: its reservation is gone.
Abandoned(r, a) ==
  /\ Working(r, a)
  /\ Answering(r, a, "error")
  /\ store'[r][SampleOf(a)] = NoEntry /\ Elsewhere(r, SampleOf(a))

\* The payment calls its i-th peer, which it has not called before.
Forwarded(a, i) ==
  /\ i \in DOMAIN Peers /\ plan.role = "payments" /\ Working("payments", a) /\ store' = store
  /\ \A j \in DOMAIN Peers : j < i => store[Peers[j]][SampleOf(a)].result = "accepted"
  /\ \A j \in DOMAIN Peers : handler[Peers[j]][a].at # "none" => j < i
  /\ handler'["payments"][a].at = "calling" /\ handler'["payments"][a].next = i
  /\ handler'["payments"][a].ran = handler["payments"][a].ran
  /\ handler'[Peers[i]][a].at = "arrived" /\ handler'[Peers[i]][a].ran = handler[Peers[i]][a].ran
  /\ \A q \in Roles, b \in AttemptIds :
       (q # "payments" /\ q # Peers[i]) \/ b # a => handler'[q][b] = handler[q][b]

Served ==
  /\ UNCHANGED <<plan, driver, att, asked, control>>
  /\ \E r \in Roles, a \in AttemptIds :
       \/ Replied(r, a) \/ Reserved(r, a) \/ Finished(r, a) \/ Abandoned(r, a)
       \/ \E i \in DOMAIN Peers : Forwarded(a, i)

\* The constants, as the proofs use them.
LEMMA PeerFacts ==
    /\ DOMAIN Peers \subseteq Nat /\ DOMAIN Peers = 1..Len(Peers) /\ Len(Peers) \in Nat
    /\ "payments" \in Roles /\ "webhook" \in Roles
    /\ \A i \in DOMAIN Peers : Peers[i] \in Roles /\ Peers[i] # "payments"
    /\ \A i, j \in DOMAIN Peers : Peers[i] = Peers[j] => i = j
    /\ \A r \in Roles : r = "payments" \/ \E i \in DOMAIN Peers : Peers[i] = r
  BY TrafficAssumption DEF Roles

LEMMA PlanFacts ==
    ASSUME plan \in Plans
    PROVE  /\ AttemptIds = 1..Len(plan.attempts) /\ Len(plan.attempts) \in Nat
           /\ \A a \in AttemptIds : SampleOf(a) \in Samples /\ Body(a) \in STRING /\ Body(a) # "none"
           /\ plan.role \in Roles /\ plan.role \in {"payments", "webhook"}
           /\ plan.probe => 1 \in AttemptIds /\ \A a, b \in AttemptIds : SampleOf(a) = SampleOf(b)
  <1>1. /\ plan.role \in {"payments", "webhook"}
        /\ plan.attempts \in Seq([sample : Samples, body : STRING \ {"none"}])
        /\ plan.probe => /\ Len(plan.attempts) = 3
                         /\ \A a, b \in 1..3 : plan.attempts[a].sample = plan.attempts[b].sample
    BY TrafficAssumption
  <1>2. DOMAIN plan.attempts = 1..Len(plan.attempts) /\ Len(plan.attempts) \in Nat
    BY <1>1
  <1>3. \A a \in DOMAIN plan.attempts : plan.attempts[a] \in [sample : Samples, body : STRING \ {"none"}]
    <2> DEFINE T == [sample : Samples, body : STRING \ {"none"}]
               q == plan.attempts
    <2>1. q \in Seq(T)
      BY <1>1
    <2> HIDE DEF T, q
    <2>2. \A a \in DOMAIN q : q[a] \in T
      BY <2>1
    <2> QED
      BY <2>2 DEF T, q
  <1>4. \A a \in AttemptIds : SampleOf(a) \in Samples /\ Body(a) \in STRING /\ Body(a) # "none"
    BY <1>3 DEF AttemptIds, SampleOf, Body
  <1>5. plan.probe => 1 \in AttemptIds /\ \A a, b \in AttemptIds : SampleOf(a) = SampleOf(b)
    BY <1>1, <1>2, SMTT(30) DEF AttemptIds, SampleOf
  <1>6. plan.role \in Roles
    BY <1>1, PeerFacts
  <1> QED
    BY <1>1, <1>2, <1>4, <1>5, <1>6 DEF AttemptIds

LEMMA SamePlan ==
    ASSUME plan' = plan
    PROVE  /\ AttemptIds' = AttemptIds /\ \A a : SampleOf(a)' = SampleOf(a)
  BY DEF AttemptIds, SampleOf

\* One request is answered.
LEMMA AnsweredFacts ==
    ASSUME TypeInv, plan' = plan, NEW r \in Roles, NEW a \in AttemptIds, NEW c \in Codes,
           handler' = Answered(r, a, c)
    PROVE  Answering(r, a, c) /\ handler' \in [Roles -> [AttemptIds -> Handler]]
  <1> DEFINE h == [handler[r][a] EXCEPT !.at = "answered", !.code = c]
  <1>1. handler \in [Roles -> [AttemptIds -> Handler]] /\ handler[r][a] \in Handler
    BY DEF TypeInv
  <1>2. h \in Handler /\ h.at = "answered" /\ h.code = c /\ h.ran = handler[r][a].ran
    BY <1>1 DEF Handler, Codes
  <1>3. handler' = [handler EXCEPT ![r] = [handler[r] EXCEPT ![a] = h]]
    BY <1>1 DEF Answered, Handler
  <1> HIDE DEF h
  <1>4. handler'[r][a] = h /\ Untouched(r, a)
    BY <1>1, <1>3 DEF Untouched
  <1> QED
    BY <1>1, <1>2, <1>3, <1>4 DEF Answering

\* One entry of one store is written.
LEMMA EntryFacts ==
    ASSUME TypeInv, NEW r \in Roles, NEW s \in Samples, NEW e \in Entry,
           store' = [store EXCEPT ![r][s] = e]
    PROVE  store'[r][s] = e /\ Elsewhere(r, s) /\ store' \in [Roles -> [Samples -> Entry]]
  BY DEF TypeInv, Elsewhere

StoresTyped == store' \in [Roles -> [Samples -> Entry]] /\ handler' \in [Roles -> [AttemptIds -> Handler]]

LEMMA FinishedStep ==
    ASSUME TypeInv, plan' = plan, NEW r \in Roles, NEW a \in AttemptIds, NEW c \in Verdicts,
           Working(r, a), CompleteSample(r, a, c),
           r = "payments" /\ c = "accepted" =>
             \A j \in DOMAIN Peers : store[Peers[j]][SampleOf(a)].result = "accepted"
    PROVE  Finished(r, a) /\ StoresTyped
  <1> DEFINE s == SampleOf(a)
             e == [store[r][s] EXCEPT !.result = c]
  <1>1. s \in Samples
    BY PlanFacts DEF TypeInv
  <1>2. store[r][s] \in Entry
    BY <1>1 DEF TypeInv
  <1>3. e \in Entry /\ e.result = c
    BY <1>2 DEF Entry
  <1>4. store' = [store EXCEPT ![r][s] = e]
    BY <1>1 DEF CompleteSample, TypeInv
  <1> HIDE DEF e, s
  <1>5. store'[r][s] = e /\ Elsewhere(r, s) /\ store' \in [Roles -> [Samples -> Entry]]
    BY <1>1, <1>3, <1>4, EntryFacts
  <1>6. handler' = Answered(r, a, c) /\ c \in Codes
    BY DEF CompleteSample, Codes
  <1>7. Answering(r, a, c) /\ handler' \in [Roles -> [AttemptIds -> Handler]]
    BY <1>6, AnsweredFacts
  <1> QED
    BY <1>3, <1>5, <1>7 DEF Finished, StoresTyped, s

LEMMA AbandonedStep ==
    ASSUME TypeInv, plan' = plan, NEW r \in Roles, NEW a \in AttemptIds,
           Working(r, a), AbandonSample(r, a, "error")
    PROVE  Abandoned(r, a) /\ StoresTyped
  <1>1. SampleOf(a) \in Samples
    BY PlanFacts DEF TypeInv
  <1>2. NoEntry \in Entry
    BY DEF NoEntry, Entry, Verdicts
  <1>3. store' = [store EXCEPT ![r][SampleOf(a)] = NoEntry] /\ handler' = Answered(r, a, "error")
    BY DEF AbandonSample
  <1>4. /\ store'[r][SampleOf(a)] = NoEntry /\ Elsewhere(r, SampleOf(a))
        /\ store' \in [Roles -> [Samples -> Entry]]
    BY <1>1, <1>2, <1>3, EntryFacts
  <1>5. Answering(r, a, "error") /\ handler' \in [Roles -> [AttemptIds -> Handler]]
    BY <1>3, AnsweredFacts DEF Codes
  <1> QED
    BY <1>4, <1>5 DEF Abandoned, StoresTyped

LEMMA CalledStep ==
    ASSUME TypeInv, plan' = plan, NEW a \in AttemptIds, NEW i \in Nat \ {0}, i <= Len(Peers) + 1,
           Working("payments", a), plan.role = "payments", Called(a, i),
           \A j \in DOMAIN Peers : j < i => store[Peers[j]][SampleOf(a)].result = "accepted",
           \A j \in DOMAIN Peers : handler[Peers[j]][a].at # "none" => j < i
    PROVE  (Finished("payments", a) \/ \E k \in DOMAIN Peers : Forwarded(a, k)) /\ StoresTyped
  <1>1. CASE i > Len(Peers)
    <2>1. \A j \in DOMAIN Peers : store[Peers[j]][SampleOf(a)].result = "accepted"
      BY <1>1, PeerFacts
    <2>2. CompleteSample("payments", a, "accepted")
      BY <1>1 DEF Called
    <2>3. "payments" \in Roles /\ "accepted" \in Verdicts
      BY PeerFacts DEF Verdicts
    <2> QED
      BY <2>1, <2>2, <2>3, FinishedStep
  <1>2. CASE ~(i > Len(Peers))
    <2> DEFINE q == Peers[i]
               f == [handler["payments"][a] EXCEPT !.at = "calling", !.next = i]
               g == [handler[q][a] EXCEPT !.at = "arrived"]
    <2>1. i \in DOMAIN Peers /\ q \in Roles /\ q # "payments" /\ "payments" \in Roles
      BY <1>2, PeerFacts
    <2>2. handler["payments"][a] \in Handler /\ handler[q][a] \in Handler
      BY <2>1 DEF TypeInv
    <2>3. /\ f \in Handler /\ f.at = "calling" /\ f.next = i /\ f.ran = handler["payments"][a].ran
          /\ g \in Handler /\ g.at = "arrived" /\ g.ran = handler[q][a].ran
      BY <2>2 DEF Handler
    <2>4. /\ store' = store
          /\ handler' = [handler EXCEPT !["payments"][a].at = "calling", !["payments"][a].next = i,
                                        ![q][a].at = "arrived"]
      BY <1>2 DEF Called
    <2>5. handler' = [handler EXCEPT !["payments"] = [handler["payments"] EXCEPT ![a] = f],
                                     ![q] = [handler[q] EXCEPT ![a] = g]]
      BY <2>1, <2>2, <2>4, ZenonT(60) DEF TypeInv, Handler
    <2> HIDE DEF f, g, q
    <2>6. /\ handler'["payments"][a] = f /\ handler'[q][a] = g
          /\ \A p \in Roles, b \in AttemptIds :
               (p # "payments" /\ p # q) \/ b # a => handler'[p][b] = handler[p][b]
      BY <2>1, <2>5 DEF TypeInv
    <2>7. StoresTyped
      <3> DEFINE F == [handler["payments"] EXCEPT ![a] = f]
                 G == [handler[q] EXCEPT ![a] = g]
      <3>1. F \in [AttemptIds -> Handler] /\ G \in [AttemptIds -> Handler]
        BY <2>1, <2>3 DEF TypeInv
      <3> HIDE DEF F, G
      <3>2. handler' = [handler EXCEPT !["payments"] = F, ![q] = G]
        BY <2>5 DEF F, G
      <3>3. handler' \in [Roles -> [AttemptIds -> Handler]]
        BY <2>1, <3>1, <3>2 DEF TypeInv
      <3> QED
        BY <2>4, <3>3 DEF StoresTyped, TypeInv
    <2>8. Forwarded(a, i)
      BY <2>1, <2>3, <2>4, <2>6 DEF Forwarded, q
    <2> QED
      BY <2>1, <2>7, <2>8
  <1> QED
    BY <1>1, <1>2, PeerFacts

LEMMA ReceiveServed ==
    ASSUME TypeInv, NEW r \in Roles, NEW a \in AttemptIds, Receive(r, a)
    PROVE  Served /\ StoresTyped
  <1> DEFINE s == SampleOf(a)
  <1>1. /\ UNCHANGED <<plan, driver, att, asked, control>> /\ handler[r][a].at = "arrived"
        /\ s \in Samples /\ Body(a) \in STRING /\ Body(a) # "none"
        /\ store[r][s] \in Entry
    BY PlanFacts DEF Receive, TypeInv
  <1>2. ASSUME NEW c \in Codes, handler' = Answered(r, a, c), store' = store,
               c \in Verdicts => store[r][s].result = c
        PROVE  Replied(r, a) /\ StoresTyped
    <2>1. Answering(r, a, c) /\ handler' \in [Roles -> [AttemptIds -> Handler]]
      BY <1>1, <1>2, AnsweredFacts
    <2> QED
      BY <1>1, <1>2, <2>1 DEF Replied, StoresTyped, TypeInv
  <1>3. CASE /\ store[r][s] = NoEntry
             /\ store' = [store EXCEPT ![r][s] = [body |-> Body(a), result |-> "none"]]
             /\ handler' = [handler EXCEPT ![r][a].at = "working", ![r][a].ran = TRUE]
    <2> DEFINE h == [handler[r][a] EXCEPT !.at = "working", !.ran = TRUE]
               e == [body |-> Body(a), result |-> "none"]
    <2>1. handler \in [Roles -> [AttemptIds -> Handler]] /\ handler[r][a] \in Handler
      BY DEF TypeInv
    <2>2. h \in Handler /\ h.at = "working" /\ h.ran = TRUE
      BY <2>1 DEF Handler
    <2>3. e \in Entry /\ e # NoEntry /\ e.result = "none"
      BY <1>1 DEF Entry, NoEntry
    <2>4. handler' = [handler EXCEPT ![r] = [handler[r] EXCEPT ![a] = h]]
      BY <1>3, <2>1 DEF Handler
    <2>5. store' = [store EXCEPT ![r][s] = e]
      BY <1>3
    <2> HIDE DEF h, e
    <2>6. handler'[r][a] = h /\ Untouched(r, a) /\ handler' \in [Roles -> [AttemptIds -> Handler]]
      BY <2>1, <2>2, <2>4 DEF Untouched
    <2>7. store'[r][s] = e /\ Elsewhere(r, s) /\ store' \in [Roles -> [Samples -> Entry]]
      BY <1>1, <2>3, <2>5, EntryFacts
    <2>8. Reserved(r, a)
      BY <1>1, <1>3, <2>2, <2>3, <2>6, <2>7 DEF Reserved
    <2> QED
      BY <1>1, <2>6, <2>7, <2>8 DEF Served, StoresTyped
  <1>4. \/ /\ store[r][s].result # "none"
           /\ handler' = Answered(r, a, store[r][s].result) /\ store' = store
        \/ handler' = Answered(r, a, "conflict") /\ store' = store
        \/ handler' = Answered(r, a, "error") /\ store' = store
        \/ /\ store[r][s] = NoEntry
           /\ store' = [store EXCEPT ![r][s] = [body |-> Body(a), result |-> "none"]]
           /\ handler' = [handler EXCEPT ![r][a].at = "working", ![r][a].ran = TRUE]
    BY DEF Receive, ReserveSample
  <1>5. /\ store[r][s].result # "none" => store[r][s].result \in Codes
        /\ "conflict" \in Codes \ Verdicts /\ "error" \in Codes \ Verdicts
    BY <1>1 DEF Entry, Codes, Verdicts
  <1>6. CASE Replied(r, a) /\ StoresTyped
    BY <1>1, <1>6 DEF Served
  <1> QED
    BY <1>2, <1>3, <1>4, <1>5, <1>6

LEMMA ExecuteServed ==
    ASSUME TypeInv, ReachInv, NEW r \in Roles, NEW a \in AttemptIds, Execute(r, a)
    PROVE  Served /\ StoresTyped
  <1>1. /\ UNCHANGED <<plan, driver, att, asked, control>> /\ handler[r][a].at = "working"
        /\ Working(r, a) /\ "declined" \in Verdicts /\ "accepted" \in Verdicts
    BY DEF Execute, Working, Verdicts
  <1>2. CASE CompleteSample(r, a, "declined")
    <2>1. Finished(r, a) /\ StoresTyped
      BY <1>1, <1>2, FinishedStep
    <2> QED
      BY <1>1, <2>1 DEF Served
  <1>3. CASE r # "payments" /\ CompleteSample(r, a, "accepted")
    <2>1. Finished(r, a) /\ StoresTyped
      BY <1>1, <1>3, FinishedStep
    <2> QED
      BY <1>1, <2>1 DEF Served
  <1>4. CASE r = "payments" /\ Called(a, 1)
    <2>1. plan.role = "payments"
      BY <1>1, <1>4 DEF ReachInv
    <2>2. /\ \A j \in DOMAIN Peers : ~(j < 1)
          /\ \A j \in DOMAIN Peers : handler[Peers[j]][a].at = "none"
      BY <1>1, <1>4, <2>1, PeerFacts DEF ReachInv
    <2>3. 1 \in Nat \ {0} /\ 1 <= Len(Peers) + 1
      BY PeerFacts
    <2>4. (Finished("payments", a) \/ \E k \in DOMAIN Peers : Forwarded(a, k)) /\ StoresTyped
      BY <1>1, <1>4, <2>1, <2>2, <2>3, CalledStep
    <2> QED
      BY <1>1, <1>4, <2>4 DEF Served
  <1>5. CASE AbandonSample(r, a, "error")
    <2>1. Abandoned(r, a) /\ StoresTyped
      BY <1>1, <1>5, AbandonedStep
    <2> QED
      BY <1>1, <2>1 DEF Served
  <1> QED
    BY <1>2, <1>3, <1>4, <1>5 DEF Execute

LEMMA PeerServed ==
    ASSUME TypeInv, ReachInv, AnswerInv, NEW a \in AttemptIds, PeerAnswers(a) \/ PeerTimeout(a)
    PROVE  Served /\ StoresTyped
  <1> DEFINE i == handler["payments"][a].next
             q == Peers[i]
  <1>1. /\ UNCHANGED <<plan, driver, att, asked, control>> /\ handler["payments"][a].at = "calling"
        /\ Working("payments", a) /\ "payments" \in Roles
    BY PeerFacts DEF PeerAnswers, PeerTimeout, Working
  <1>2. /\ plan.role = "payments" /\ i \in DOMAIN Peers /\ q \in Roles
        /\ \A j \in DOMAIN Peers : handler[Peers[j]][a].at # "none" => j <= i
    BY <1>1, PeerFacts DEF ReachInv
  <1>3. CASE AbandonSample("payments", a, "error")
    <2>1. Abandoned("payments", a) /\ StoresTyped
      BY <1>1, <1>3, AbandonedStep
    <2> QED
      BY <1>1, <2>1 DEF Served
  <1>4. CASE CompleteSample("payments", a, "declined")
    <2>1. Finished("payments", a) /\ StoresTyped
      BY <1>1, <1>4, FinishedStep DEF Verdicts
    <2> QED
      BY <1>1, <2>1 DEF Served
  <1>5. CASE handler[q][a].at = "answered" /\ handler[q][a].code = "accepted" /\ Called(a, i + 1)
    <2>1. /\ store[q][SampleOf(a)].result = "accepted"
          /\ \A j \in DOMAIN Peers : j < i => store[Peers[j]][SampleOf(a)].result = "accepted"
      BY <1>1, <1>2, <1>5 DEF AnswerInv, Verdicts
    <2>2. \A j \in DOMAIN Peers : j < i + 1 => store[Peers[j]][SampleOf(a)].result = "accepted"
      BY <1>2, <2>1, PeerFacts
    <2>3. /\ \A j \in DOMAIN Peers : handler[Peers[j]][a].at # "none" => j < i + 1
          /\ i + 1 \in Nat \ {0} /\ i + 1 <= Len(Peers) + 1
      BY <1>2, PeerFacts
    <2>4. (Finished("payments", a) \/ \E k \in DOMAIN Peers : Forwarded(a, k)) /\ StoresTyped
      <3> HIDE DEF i, q
      <3> DEFINE n == i + 1
      <3>1. n \in Nat \ {0} /\ n <= Len(Peers) + 1 /\ Called(a, n) /\ plan' = plan
        BY <1>1, <1>5, <2>3
      <3>2. /\ \A j \in DOMAIN Peers : j < n => store[Peers[j]][SampleOf(a)].result = "accepted"
            /\ \A j \in DOMAIN Peers : handler[Peers[j]][a].at # "none" => j < n
        BY <2>2, <2>3
      <3> HIDE DEF n
      <3> QED
        BY <1>1, <1>2, <3>1, <3>2, CalledStep
    <2> QED
      BY <1>1, <2>4 DEF Served
  <1>6. \/ AbandonSample("payments", a, "error") \/ CompleteSample("payments", a, "declined")
        \/ handler[q][a].at = "answered" /\ handler[q][a].code = "accepted" /\ Called(a, i + 1)
    <2>1. CASE PeerTimeout(a)
      BY <2>1 DEF PeerTimeout
    <2>2. CASE PeerAnswers(a) /\ handler[q][a].code = "accepted"
      BY <2>2 DEF PeerAnswers
    <2>3. CASE PeerAnswers(a) /\ handler[q][a].code = "declined"
      BY <2>3 DEF PeerAnswers
    <2>4. CASE PeerAnswers(a) /\ handler[q][a].code \notin {"accepted", "declined"}
      BY <2>4 DEF PeerAnswers
    <2> QED
      BY <2>1, <2>2, <2>3, <2>4
  <1> QED
    BY <1>3, <1>4, <1>5, <1>6

-----------------------------------------------------------------------------
(* What survives every step of the services.                               *)

SInv == TypeInv /\ AttemptInv /\ ReachInv /\ OwnerInv /\ AnswerInv /\ ProbeInv

\* An answer stands, a result stands, nobody but the driver reaches the service it calls, and
\* a request starts to run only on a free entry.
LEMMA ServedFacts ==
    ASSUME SInv, Served, NEW q \in Roles, NEW b \in AttemptIds, NEW s \in Samples
    PROVE  /\ handler[q][b].at = "answered" => handler'[q][b] = handler[q][b]
           /\ store[q][s].result # "none" => store'[q][s].result = store[q][s].result
           /\ q = plan.role => (handler'[q][b].at = "none" <=> handler[q][b].at = "none")
           /\ handler[q][b].ran => handler'[q][b].ran
           /\ handler'[q][b].ran => handler[q][b].ran \/ store[q][SampleOf(b)] = NoEntry
  <1>0. TypeInv /\ ReachInv /\ OwnerInv
    BY DEF SInv
  <1>1. PICK r \in Roles, a \in AttemptIds :
          \/ Replied(r, a) \/ Reserved(r, a) \/ Finished(r, a) \/ Abandoned(r, a)
          \/ \E i \in DOMAIN Peers : Forwarded(a, i)
    BY DEF Served
  <1>2. CASE Replied(r, a)
    BY <1>2 DEF Replied, Answering, Untouched
  <1>3. CASE Reserved(r, a)
    BY <1>3 DEF Reserved, Untouched, Elsewhere, NoEntry
  <1>4. CASE Finished(r, a) \/ Abandoned(r, a)
    <2>1. store[r][SampleOf(a)].result = "none"
      BY <1>0, <1>4 DEF OwnerInv, Finished, Abandoned
    <2> QED
      BY <1>4, <2>1 DEF Finished, Abandoned, Answering, Untouched, Elsewhere, Working
  <1>5. ASSUME NEW i \in DOMAIN Peers, Forwarded(a, i)
        PROVE  /\ handler[q][b].at = "answered" => handler'[q][b] = handler[q][b]
               /\ store[q][s].result # "none" => store'[q][s].result = store[q][s].result
               /\ q = plan.role => (handler'[q][b].at = "none" <=> handler[q][b].at = "none")
               /\ handler[q][b].ran => handler'[q][b].ran
               /\ handler'[q][b].ran => handler[q][b].ran \/ store[q][SampleOf(b)] = NoEntry
    <2>1. handler[Peers[i]][a].at = "none" /\ Peers[i] # "payments"
      BY <1>5, PeerFacts DEF Forwarded
    <2> QED
      BY <1>5, <2>1 DEF Forwarded, Working
  <1> QED
    BY <1>1, <1>2, <1>3, <1>4, <1>5

LEMMA ServedType == ASSUME TypeInv, Served, StoresTyped PROVE TypeInv'
  BY SamePlan DEF TypeInv, Served, StoresTyped

LEMMA ServedAttempt == ASSUME SInv, Served PROVE AttemptInv'
  <1>1. UNCHANGED <<plan, driver, att, asked, control>> /\ AttemptIds' = AttemptIds
    BY SamePlan DEF Served
  <1>2. plan.role \in Roles
    BY PlanFacts DEF SInv, TypeInv
  <1> SUFFICES ASSUME NEW b \in AttemptIds
               PROVE  /\ att[b].started <=> handler'[plan.role][b].at # "none"
                      /\ att[b].outcome \in Verdicts => /\ handler'[plan.role][b].at = "answered"
                                                        /\ handler'[plan.role][b].code = att[b].outcome
    BY <1>1 DEF SInv, AttemptInv, Front
  <1>3. SampleOf(b) \in Samples
    BY PlanFacts DEF SInv, TypeInv
  <1> QED
    BY <1>2, <1>3, ServedFacts DEF SInv, AttemptInv, Front

LEMMA ServedReach == ASSUME SInv, Served PROVE ReachInv'
  <1>0. TypeInv /\ ReachInv /\ plan' = plan /\ AttemptIds' = AttemptIds
    BY SamePlan DEF SInv, Served
  <1>1. PICK r \in Roles, a \in AttemptIds :
          \/ Replied(r, a) \/ Reserved(r, a) \/ Finished(r, a) \/ Abandoned(r, a)
          \/ \E i \in DOMAIN Peers : Forwarded(a, i)
    BY DEF Served
  <1> SUFFICES ASSUME NEW b \in AttemptIds
               PROVE  /\ \A q \in Roles :
                           /\ handler'[q][b].ran => handler'[q][b].at \notin {"none", "arrived"}
                           /\ handler'[q][b].at \in {"working", "calling"} => handler'[q][b].ran
                           /\ q # "payments" => handler'[q][b].at # "calling"
                      /\ plan.role # "payments" => handler'["payments"][b].at = "none"
                      /\ handler'["payments"][b].at = "calling" => handler'["payments"][b].next \in DOMAIN Peers
                      /\ \A j \in DOMAIN Peers :
                           plan.role = "payments" /\ handler'[Peers[j]][b].at # "none" =>
                             \/ handler'["payments"][b].at = "answered"
                             \/ /\ handler'["payments"][b].at = "calling"
                                /\ j <= handler'["payments"][b].next
    BY <1>0 DEF ReachInv, Working
  <1>2. CASE Replied(r, a)
    BY <1>0, <1>2, PeerFacts, SMTT(30) DEF Replied, Answering, Untouched, ReachInv, Working
  <1>3. CASE Reserved(r, a)
    BY <1>0, <1>3, PeerFacts, SMTT(30) DEF Reserved, Untouched, ReachInv, Working
  <1>4. CASE Finished(r, a) \/ Abandoned(r, a)
    <2>1. Working(r, a) /\ \E c : Answering(r, a, c)
      BY <1>4 DEF Finished, Abandoned
    <2> QED
      BY <1>0, <2>1, PeerFacts, SMTT(30) DEF Answering, Untouched, ReachInv, Working
  <1>5. CASE \E i \in DOMAIN Peers : Forwarded(a, i)
    <2>1. PICK i \in DOMAIN Peers : Forwarded(a, i)
      BY <1>5
    <2>2. /\ handler[Peers[i]][a].at = "none" /\ Peers[i] # "payments" /\ Peers[i] \in Roles
          /\ i \in Nat /\ "payments" \in Roles
      BY <2>1, PeerFacts DEF Forwarded
    <2>3. CASE b # a
      BY <1>0, <2>1, <2>3, PeerFacts, SMTT(30) DEF Forwarded, ReachInv, Working
    <2>4. CASE b = a
      <3>1. \A j \in DOMAIN Peers : handler'[Peers[j]][a].at # "none" => j <= i
        BY <2>1, <2>2, PeerFacts DEF Forwarded
      <3>2. \A q \in Roles :
              /\ handler'[q][b].ran => handler'[q][b].at \notin {"none", "arrived"}
              /\ handler'[q][b].at \in {"working", "calling"} => handler'[q][b].ran
              /\ q # "payments" => handler'[q][b].at # "calling"
        BY <1>0, <2>1, <2>2, <2>4 DEF Forwarded, ReachInv, Working
      <3> QED
        BY <2>1, <2>4, <3>1, <3>2 DEF Forwarded
    <2> QED
      BY <2>3, <2>4
  <1> QED
    BY <1>1, <1>2, <1>3, <1>4, <1>5

LEMMA ServedProbe == ASSUME SInv, Served PROVE ProbeInv'
  <1>0. /\ TypeInv /\ AttemptInv /\ ReachInv /\ OwnerInv /\ AnswerInv /\ ProbeInv
        /\ UNCHANGED <<plan, driver, att, asked, control>> /\ AttemptIds' = AttemptIds
    BY SamePlan DEF SInv, Served
  <1> DEFINE f == plan.role
  <1> SUFFICES ASSUME plan.probe
               PROVE  /\ att[1].at = "sent" /\ handler'[f][1].at = "answered"
                           /\ handler'[f][1].code \in Verdicts => handler'[f][1].ran
                      /\ att[1].outcome \in Verdicts =>
                           handler'[f][1].ran /\ \A b \in AttemptIds : b # 1 => ~handler'[f][b].ran
    BY <1>0 DEF ProbeInv, Front
  <1>1. /\ f \in Roles /\ 1 \in AttemptIds /\ AttemptIds \subseteq Nat \ {0}
        /\ \A b \in AttemptIds : SampleOf(b) \in Samples /\ SampleOf(b) = SampleOf(1)
    BY <1>0, PlanFacts DEF TypeInv
  <1>2. ASSUME att[1].at = "sent", handler'[f][1].at = "answered", handler'[f][1].code \in Verdicts
        PROVE  handler'[f][1].ran
    <2>1. CASE handler[f][1].at = "answered"
      BY <1>0, <1>1, <1>2, <2>1, ServedFacts DEF ProbeInv, Front
    <2>2. CASE handler[f][1].ran
      BY <1>1, <2>2, ServedFacts
    <2>3. CASE handler[f][1].at # "answered" /\ ~handler[f][1].ran
      <3>1. PICK r \in Roles, a \in AttemptIds :
              \/ Replied(r, a) \/ Reserved(r, a) \/ Finished(r, a) \/ Abandoned(r, a)
              \/ \E i \in DOMAIN Peers : Forwarded(a, i)
        BY DEF Served
      <3>2. r = f /\ a = 1 /\ Replied(r, a)
        <4>1. CASE Replied(r, a)
          BY <1>1, <1>2, <2>3, <4>1 DEF Replied, Untouched, Answering
        <4>2. CASE Reserved(r, a)
          BY <1>1, <1>2, <2>3, <4>2 DEF Reserved, Untouched
        <4>3. CASE Finished(r, a) \/ Abandoned(r, a)
          BY <1>0, <1>1, <1>2, <2>3, <4>3 DEF Finished, Abandoned, Untouched, Answering, ReachInv
        <4>4. ASSUME NEW i \in DOMAIN Peers, Forwarded(a, i) PROVE FALSE
          BY <1>1, <1>2, <2>3, <4>4 DEF Forwarded
        <4> QED
          BY <3>1, <4>1, <4>2, <4>3, <4>4
      <3>3. store[f][SampleOf(1)].result \in Verdicts
        BY <1>2, <3>2 DEF Replied, Answering
      <3>4. store[f][SampleOf(1)] # NoEntry
        BY <3>3 DEF NoEntry, Verdicts
      <3>5. PICK b \in AttemptIds : handler[f][b].ran
        BY <1>0, <1>1, <3>4 DEF OwnerInv
      <3>6. b # 1 /\ 1 < b
        BY <1>1, <2>3, <3>5
      <3>7. att[b].started
        BY <1>0, <1>1, <3>5 DEF ReachInv, AttemptInv, Front
      <3> QED
        BY <1>0, <1>1, <1>2, <3>6, <3>7 DEF ProbeInv
    <2> QED
      BY <2>1, <2>2, <2>3
  <1>3. ASSUME att[1].outcome \in Verdicts
        PROVE  handler'[f][1].ran /\ \A b \in AttemptIds : b # 1 => ~handler'[f][b].ran
    <2>1. /\ handler[f][1].ran /\ \A b \in AttemptIds : b # 1 => ~handler[f][b].ran
          /\ handler[f][1].at = "answered" /\ handler[f][1].code \in Verdicts
      BY <1>0, <1>1, <1>3 DEF ProbeInv, AttemptInv, Front
    <2>2. store[f][SampleOf(1)].result \in Verdicts
      BY <1>0, <1>1, <2>1 DEF AnswerInv
    <2>3. store[f][SampleOf(1)] # NoEntry
      BY <2>2 DEF NoEntry, Verdicts
    <2>4. ASSUME NEW b \in AttemptIds, b # 1 PROVE ~handler'[f][b].ran
      BY <1>1, <2>1, <2>3, <2>4, ServedFacts
    <2>5. handler'[f][1].ran
      <3>1. handler[f][1].ran => handler'[f][1].ran
        BY <1>1, ServedFacts
      <3> QED
        BY <2>1, <3>1
    <2> QED
      BY <2>4, <2>5
  <1> QED
    BY <1>2, <1>3

LEMMA ServedAnswer == ASSUME SInv, Served PROVE AnswerInv'
  <1>0. /\ TypeInv /\ OwnerInv /\ AnswerInv /\ plan' = plan /\ AttemptIds' = AttemptIds
        /\ \A b : SampleOf(b)' = SampleOf(b)
        /\ \A b \in AttemptIds : SampleOf(b) \in Samples
    BY SamePlan, PlanFacts DEF SInv, Served, TypeInv
  <1>1. PICK r \in Roles, a \in AttemptIds :
          \/ Replied(r, a) \/ Reserved(r, a) \/ Finished(r, a) \/ Abandoned(r, a)
          \/ \E i \in DOMAIN Peers : Forwarded(a, i)
    BY DEF Served
  <1>2. ASSUME NEW q \in Roles, NEW b \in AttemptIds,
               handler'[q][b].at = "answered", handler'[q][b].code \in Verdicts
        PROVE  store'[q][SampleOf(b)].result = handler'[q][b].code
    <2>1. CASE handler[q][b].at = "answered"
      <3>1. handler'[q][b] = handler[q][b]
        BY <1>0, <2>1, ServedFacts
      <3>2. store[q][SampleOf(b)].result = handler[q][b].code /\ store[q][SampleOf(b)].result # "none"
        BY <1>0, <1>2, <2>1, <3>1 DEF AnswerInv, Verdicts
      <3> QED
        BY <1>0, <3>1, <3>2, ServedFacts
    <2>2. CASE handler[q][b].at # "answered"
      <3>1. CASE Replied(r, a)
        BY <1>2, <2>2, <3>1 DEF Replied, Answering, Untouched
      <3>2. CASE Reserved(r, a)
        BY <1>2, <2>2, <3>2 DEF Reserved, Untouched
      <3>3. CASE Finished(r, a)
        BY <1>2, <2>2, <3>3 DEF Finished, Answering, Untouched
      <3>4. CASE Abandoned(r, a)
        BY <1>2, <2>2, <3>4 DEF Abandoned, Answering, Untouched, Verdicts
      <3>5. ASSUME NEW i \in DOMAIN Peers, Forwarded(a, i) PROVE FALSE
        BY <1>2, <2>2, <3>5 DEF Forwarded
      <3> QED
        BY <1>1, <3>1, <3>2, <3>3, <3>4, <3>5
    <2> QED
      BY <2>1, <2>2
  <1>3. ASSUME NEW b \in AttemptIds, NEW j \in DOMAIN Peers,
               handler'["payments"][b].at = "calling", j < handler'["payments"][b].next
        PROVE  store'[Peers[j]][SampleOf(b)].result = "accepted"
    <2>0. Peers[j] \in Roles /\ "payments" \in Roles
      BY PeerFacts
    <2>1. store[Peers[j]][SampleOf(b)].result = "accepted"
      <3>1. CASE handler'["payments"][b] = handler["payments"][b]
        BY <1>0, <1>3, <3>1 DEF AnswerInv
      <3>2. CASE handler'["payments"][b] # handler["payments"][b]
        <4>1. CASE Replied(r, a)
          BY <1>3, <2>0, <3>2, <4>1 DEF Replied, Answering, Untouched
        <4>2. CASE Reserved(r, a)
          BY <1>3, <2>0, <3>2, <4>2 DEF Reserved, Untouched
        <4>3. CASE Finished(r, a) \/ Abandoned(r, a)
          BY <1>3, <2>0, <3>2, <4>3 DEF Finished, Abandoned, Answering, Untouched
        <4>4. ASSUME NEW i \in DOMAIN Peers, Forwarded(a, i)
              PROVE  store[Peers[j]][SampleOf(b)].result = "accepted"
          BY <1>3, <2>0, <3>2, <4>4 DEF Forwarded
        <4> QED
          BY <1>1, <4>1, <4>2, <4>3, <4>4
      <3> QED
        BY <3>1, <3>2
    <2> QED
      BY <1>0, <2>0, <2>1, ServedFacts
  <1>4. ASSUME NEW s \in Samples, NEW j \in DOMAIN Peers, store'["payments"][s].result = "accepted"
        PROVE  store'[Peers[j]][s].result = "accepted"
    <2>0. Peers[j] \in Roles /\ "payments" \in Roles
      BY PeerFacts
    <2>1. store[Peers[j]][s].result = "accepted"
      <3>1. CASE store["payments"][s].result = "accepted"
        BY <1>0, <3>1 DEF AnswerInv
      <3>2. CASE store["payments"][s].result # "accepted"
        <4>1. CASE Reserved(r, a)
          BY <1>4, <2>0, <3>2, <4>1 DEF Reserved, Elsewhere
        <4>2. CASE Finished(r, a)
          BY <1>4, <2>0, <3>2, <4>2 DEF Finished, Elsewhere
        <4>3. CASE Abandoned(r, a)
          BY <1>4, <2>0, <3>2, <4>3 DEF Abandoned, Elsewhere, NoEntry
        <4>4. CASE store' = store
          BY <1>4, <3>2, <4>4
        <4> QED
          BY <1>1, <4>1, <4>2, <4>3, <4>4 DEF Replied, Forwarded
      <3> QED
        BY <3>1, <3>2
    <2> QED
      BY <1>0, <2>0, <2>1, ServedFacts
  <1> QED
    BY <1>0, <1>2, <1>3, <1>4 DEF AnswerInv

LEMMA ServedOwner == ASSUME SInv, Served PROVE OwnerInv'
  <1>0. /\ TypeInv /\ ReachInv /\ OwnerInv /\ plan' = plan /\ AttemptIds' = AttemptIds
        /\ \A b : SampleOf(b)' = SampleOf(b)
        /\ \A b \in AttemptIds : SampleOf(b) \in Samples
    BY SamePlan, PlanFacts DEF SInv, Served, TypeInv
  <1>1. PICK r \in Roles, a \in AttemptIds :
          \/ Replied(r, a) \/ Reserved(r, a) \/ Finished(r, a) \/ Abandoned(r, a)
          \/ \E i \in DOMAIN Peers : Forwarded(a, i)
    BY DEF Served
  <1> DEFINE Busy(q, b) == handler'[q][b].at \in {"working", "calling"}
             Owned(q) ==
               /\ \A b, d \in AttemptIds : Busy(q, b) /\ Busy(q, d) /\ SampleOf(b) = SampleOf(d) => b = d
               /\ \A b \in AttemptIds : Busy(q, b) =>
                    store'[q][SampleOf(b)] # NoEntry /\ store'[q][SampleOf(b)].result = "none"
               /\ \A s \in Samples : store'[q][s] # NoEntry /\ store'[q][s].result = "none" =>
                    \E b \in AttemptIds : SampleOf(b) = s /\ Busy(q, b)
               /\ \A s \in Samples : store'[q][s] # NoEntry =>
                    \E b \in AttemptIds : SampleOf(b) = s /\ handler'[q][b].ran
  <1> SUFFICES ASSUME NEW q \in Roles PROVE Owned(q)
    BY <1>0 DEF OwnerInv, Working, NoEntry
  <1>2. CASE /\ \A s \in Samples : store'[q][s] = store[q][s]
             /\ \A b \in AttemptIds : /\ Busy(q, b) <=> Working(q, b)
                                      /\ handler'[q][b].ran = handler[q][b].ran
    BY <1>0, <1>2 DEF OwnerInv
  <1>3. CASE Replied(r, a)
    <2>1. \A b \in AttemptIds : (Busy(q, b) <=> Working(q, b)) /\ handler'[q][b].ran = handler[q][b].ran
      BY <1>3 DEF Replied, Answering, Untouched, Working
    <2> QED
      BY <1>2, <1>3, <2>1 DEF Replied
  <1>4. ASSUME NEW i \in DOMAIN Peers, Forwarded(a, i) PROVE Owned(q)
    <2>1. handler[Peers[i]][a].at = "none" /\ Peers[i] # "payments"
      BY <1>4, PeerFacts DEF Forwarded
    <2>2. \A b \in AttemptIds : (Busy(q, b) <=> Working(q, b)) /\ handler'[q][b].ran = handler[q][b].ran
      BY <1>4, <2>1 DEF Forwarded, Working
    <2> QED
      BY <1>2, <1>4, <2>2 DEF Forwarded
  <1>5. CASE q # r /\ (Reserved(r, a) \/ Finished(r, a) \/ Abandoned(r, a))
    <2>1. Untouched(r, a) /\ Elsewhere(r, SampleOf(a))
      BY <1>5 DEF Reserved, Finished, Abandoned, Answering
    <2>2. \A b \in AttemptIds : (Busy(q, b) <=> Working(q, b)) /\ handler'[q][b].ran = handler[q][b].ran
      BY <1>5, <2>1 DEF Untouched, Working
    <2>3. \A s \in Samples : store'[q][s] = store[q][s]
      BY <1>5, <2>1 DEF Elsewhere
    <2> QED
      BY <1>2, <2>2, <2>3
  <1>6. CASE q = r /\ Reserved(r, a)
    <2>1. /\ Busy(q, a) /\ handler'[q][a].ran
          /\ \A b \in AttemptIds : b # a =>
               (Busy(q, b) <=> Working(q, b)) /\ handler'[q][b].ran = handler[q][b].ran
          /\ ~Working(q, a) /\ ~handler[q][a].ran
      BY <1>0, <1>6 DEF Reserved, Untouched, Working, ReachInv
    <2>2. /\ store'[q][SampleOf(a)] # NoEntry /\ store'[q][SampleOf(a)].result = "none"
          /\ \A s \in Samples : s # SampleOf(a) => store'[q][s] = store[q][s]
          /\ store[q][SampleOf(a)] = NoEntry
      BY <1>6 DEF Reserved, Elsewhere
    <2>3. \A b \in AttemptIds : Working(q, b) => SampleOf(b) # SampleOf(a)
      BY <1>0, <2>2 DEF OwnerInv
    <2> HIDE DEF Busy
    <2> QED
      BY <1>0, <2>1, <2>2, <2>3 DEF OwnerInv
  <1>7. CASE q = r /\ (Finished(r, a) \/ Abandoned(r, a))
    <2>1. /\ ~Busy(q, a) /\ handler'[q][a].ran = handler[q][a].ran /\ Working(q, a)
          /\ \A b \in AttemptIds : b # a =>
               (Busy(q, b) <=> Working(q, b)) /\ handler'[q][b].ran = handler[q][b].ran
      BY <1>7 DEF Finished, Abandoned, Answering, Untouched, Working
    <2>2. /\ store'[q][SampleOf(a)] = NoEntry \/ store'[q][SampleOf(a)].result # "none"
          /\ \A s \in Samples : s # SampleOf(a) => store'[q][s] = store[q][s]
      BY <1>7 DEF Finished, Abandoned, Elsewhere, Verdicts
    <2>3. /\ \A b \in AttemptIds : Working(q, b) /\ SampleOf(b) = SampleOf(a) => b = a
          /\ handler[q][a].ran
      BY <1>0, <2>1 DEF OwnerInv, ReachInv
    <2> HIDE DEF Busy
    <2>4. \A b, d \in AttemptIds : Busy(q, b) /\ Busy(q, d) /\ SampleOf(b) = SampleOf(d) => b = d
      BY <1>0, <2>1 DEF OwnerInv
    <2>5. \A b \in AttemptIds : Busy(q, b) =>
            store'[q][SampleOf(b)] # NoEntry /\ store'[q][SampleOf(b)].result = "none"
      BY <1>0, <2>1, <2>2, <2>3 DEF OwnerInv
    <2>6. ASSUME NEW s \in Samples, store'[q][s] # NoEntry, store'[q][s].result = "none"
          PROVE  \E b \in AttemptIds : SampleOf(b) = s /\ Busy(q, b)
      <3>1. s # SampleOf(a) /\ store'[q][s] = store[q][s]
        BY <2>2, <2>6
      <3>2. PICK b \in AttemptIds : SampleOf(b) = s /\ Working(q, b)
        BY <1>0, <2>6, <3>1 DEF OwnerInv
      <3> QED
        BY <2>1, <3>1, <3>2
    <2>7. ASSUME NEW s \in Samples, store'[q][s] # NoEntry
          PROVE  \E b \in AttemptIds : SampleOf(b) = s /\ handler'[q][b].ran
      <3>1. CASE s = SampleOf(a)
        BY <2>1, <2>3, <3>1
      <3>2. CASE s # SampleOf(a)
        <4>1. PICK b \in AttemptIds : SampleOf(b) = s /\ handler[q][b].ran
          BY <1>0, <2>2, <2>7, <3>2 DEF OwnerInv
        <4> QED
          BY <2>1, <3>2, <4>1
      <3> QED
        BY <3>1, <3>2
    <2> QED
      BY <2>4, <2>5, <2>6, <2>7
  <1> QED
    BY <1>1, <1>3, <1>4, <1>5, <1>6, <1>7

-----------------------------------------------------------------------------
(* The driver's steps, in terms of one attempt.                            *)

OthersKept(a) == \A b \in AttemptIds : b # a => att'[b] = att[b]

\* The attempt asks for its admission.
Acquired(a) ==
  /\ att[a].at = "queued" /\ att'[a].at = "asking"
  /\ att'[a].started = att[a].started /\ att'[a].outcome = att[a].outcome /\ OthersKept(a)
  /\ asked'[a] = "asking" /\ \A b \in AttemptIds : b # a => asked'[b] = asked[b]
  /\ driver = "running" /\ Turn(a) /\ UNCHANGED <<driver, control, store, handler>>

\* The admitted request arrives at the service.
Sent(a) ==
  /\ att[a].at = "asking" /\ asked[a] = "granted"
  /\ att'[a].at = "sent" /\ att'[a].started /\ att'[a].outcome = att[a].outcome /\ OthersKept(a)
  /\ handler'[plan.role][a].at = "arrived" /\ handler'[plan.role][a].ran = Front(a).ran
  /\ Untouched(plan.role, a)
  /\ UNCHANGED <<driver, asked, control, store>>

\* The attempt gets its outcome, an answered one the service's answer.
Settled(a) ==
  /\ att[a].at # "recorded" /\ att'[a].at = "recorded" /\ att'[a].outcome # "none"
  /\ att'[a].started = att[a].started /\ OthersKept(a)
  /\ att'[a].outcome \in Verdicts =>
       att[a].at = "sent" /\ Front(a).at = "answered" /\ Front(a).code = att'[a].outcome
  /\ driver' \in {driver, "stopping"} /\ UNCHANGED <<asked, control, store, handler>>

\* The batch, the control row or an admission thread moves; no attempt does.
Elsewise ==
  /\ UNCHANGED <<att, store, handler>>
  /\ driver' = "receipt" => \A b \in AttemptIds : att[b].at = "recorded"
  /\ \A b \in AttemptIds : asked'[b] = asked[b] \/ asked[b] = "asking"

Driven == plan' = plan /\ (Elsewise \/ \E a \in AttemptIds : Acquired(a) \/ Sent(a) \/ Settled(a))

LEMMA RecordedFacts ==
    ASSUME TypeInv, plan' = plan, NEW a \in AttemptIds, NEW o \in Outcomes, att' = Recorded(a, o)
    PROVE  /\ att'[a].at = "recorded" /\ att'[a].outcome = o /\ att'[a].started = att[a].started
           /\ OthersKept(a)
           /\ att' \in [AttemptIds -> [at : {"queued", "asking", "sent", "recorded"},
                                       started : BOOLEAN, outcome : Outcomes]]
  <1> DEFINE T == [at : {"queued", "asking", "sent", "recorded"}, started : BOOLEAN, outcome : Outcomes]
             t == [att[a] EXCEPT !.at = "recorded", !.outcome = o]
  <1>1. att \in [AttemptIds -> T] /\ att[a] \in T
    BY DEF TypeInv
  <1>2. t \in T /\ t.at = "recorded" /\ t.outcome = o /\ t.started = att[a].started
    BY <1>1
  <1>3. att' = [att EXCEPT ![a] = t]
    BY <1>1 DEF Recorded
  <1> HIDE DEF T, t
  <1>4. att'[a] = t /\ OthersKept(a) /\ att' \in [AttemptIds -> T]
    BY <1>1, <1>2, <1>3 DEF OthersKept
  <1> QED
    BY <1>2, <1>4 DEF T

LEMMA SettledStep ==
    ASSUME TypeInv, plan' = plan, NEW a \in AttemptIds, NEW o \in Outcomes \ {"none"},
           att' = Recorded(a, o), att[a].at # "recorded", driver' \in {driver, "stopping"},
           UNCHANGED <<asked, control, store, handler>>,
           o \in Verdicts => att[a].at = "sent" /\ Front(a).at = "answered" /\ Front(a).code = o
    PROVE  Driven /\ TypeInv'
  <1>1. /\ att'[a].at = "recorded" /\ att'[a].outcome = o /\ att'[a].started = att[a].started
        /\ OthersKept(a)
        /\ att' \in [AttemptIds -> [at : {"queued", "asking", "sent", "recorded"},
                                    started : BOOLEAN, outcome : Outcomes]]
    BY RecordedFacts
  <1>2. Settled(a)
    BY <1>1 DEF Settled
  <1>3. TypeInv'
    BY <1>1, SamePlan DEF TypeInv
  <1> QED
    BY <1>2, <1>3 DEF Driven

LEMMA AcquireDriven ==
    ASSUME TypeInv, NEW a \in AttemptIds, Acquire(a) PROVE Driven /\ TypeInv'
  <1> DEFINE T == [at : {"queued", "asking", "sent", "recorded"}, started : BOOLEAN, outcome : Outcomes]
             t == [att[a] EXCEPT !.at = "asking"]
  <1>1. /\ att \in [AttemptIds -> T] /\ att[a] \in T /\ plan' = plan
        /\ asked' = [asked EXCEPT ![a] = "asking"]
    BY DEF TypeInv, Acquire
  <1>2. t \in T /\ t.at = "asking" /\ t.outcome = att[a].outcome /\ t.started = att[a].started
    BY <1>1
  <1>3. att' = [att EXCEPT ![a] = t]
    BY <1>1 DEF Acquire
  <1> HIDE DEF T, t
  <1>4. att'[a] = t /\ OthersKept(a) /\ att' \in [AttemptIds -> T]
    BY <1>1, <1>2, <1>3 DEF OthersKept
  <1>5. asked'[a] = "asking" /\ \A b \in AttemptIds : b # a => asked'[b] = asked[b]
    BY <1>1 DEF TypeInv
  <1>6. Acquired(a)
    BY <1>2, <1>4, <1>5 DEF Acquired, Acquire
  <1>7. TypeInv'
    BY <1>1, <1>4, SamePlan DEF TypeInv, Acquire, T
  <1> QED
    BY <1>1, <1>6, <1>7 DEF Driven

LEMMA AnswerDriven ==
    ASSUME TypeInv, NEW a \in AttemptIds, Answer(a) PROVE Driven /\ TypeInv'
  <1>0. /\ att[a].at = "asking" /\ UNCHANGED <<plan, asked, control, store>>
        /\ plan.role \in Roles
    BY PlanFacts DEF Answer, TypeInv
  <1>1. CASE /\ asked[a] = "granted" /\ driver' = driver
             /\ att' = [att EXCEPT ![a].at = "sent", ![a].started = TRUE]
             /\ handler' = [handler EXCEPT ![plan.role][a].at = "arrived"]
    <2> DEFINE T == [at : {"queued", "asking", "sent", "recorded"}, started : BOOLEAN, outcome : Outcomes]
               t == [att[a] EXCEPT !.at = "sent", !.started = TRUE]
               h == [handler[plan.role][a] EXCEPT !.at = "arrived"]
    <2>1. /\ att \in [AttemptIds -> T] /\ att[a] \in T
          /\ handler \in [Roles -> [AttemptIds -> Handler]] /\ handler[plan.role][a] \in Handler
      BY <1>0 DEF TypeInv
    <2>2. t \in T /\ t.at = "sent" /\ t.outcome = att[a].outcome /\ t.started = TRUE
      BY <2>1
    <2>3. h \in Handler /\ h.at = "arrived" /\ h.ran = handler[plan.role][a].ran
      BY <2>1 DEF Handler
    <2>4. att' = [att EXCEPT ![a] = t]
      BY <1>1, <2>1
    <2>5. handler' = [handler EXCEPT ![plan.role] = [handler[plan.role] EXCEPT ![a] = h]]
      BY <1>0, <1>1, <2>1 DEF Handler
    <2> HIDE DEF T, t, h
    <2>6. att'[a] = t /\ OthersKept(a) /\ att' \in [AttemptIds -> T]
      BY <2>1, <2>2, <2>4 DEF OthersKept
    <2>7. /\ handler'[plan.role][a] = h /\ Untouched(plan.role, a)
          /\ handler' \in [Roles -> [AttemptIds -> Handler]]
      BY <1>0, <2>1, <2>3, <2>5 DEF Untouched
    <2>8. Sent(a)
      BY <1>0, <1>1, <2>2, <2>3, <2>6, <2>7 DEF Sent, Front
    <2>9. TypeInv'
      BY <1>0, <1>1, <2>6, <2>7, SamePlan DEF TypeInv, T
    <2> QED
      BY <1>0, <2>8, <2>9 DEF Driven
  <1>2. CASE att' = Recorded(a, "paused") /\ UNCHANGED <<driver, handler>>
    BY <1>0, <1>2, SettledStep DEF Outcomes, Verdicts
  <1>3. CASE att' = Recorded(a, "failed") /\ driver' = "stopping" /\ handler' = handler
    BY <1>0, <1>3, SettledStep DEF Outcomes, Verdicts
  <1> QED
    BY <1>1, <1>2, <1>3 DEF Answer

LEMMA EndingDriven ==
    ASSUME TypeInv, NEW a \in AttemptIds, Respond(a) \/ GiveUpRequest(a) \/ CancelAttempt(a)
    PROVE  Driven /\ TypeInv'
  <1>0. UNCHANGED <<plan, driver, asked, control, store, handler>> /\ att[a].at # "recorded"
    BY DEF Respond, GiveUpRequest, CancelAttempt
  <1>1. CASE Respond(a)
    <2> DEFINE o == Classify(handler[plan.role][a].code)
    <2>1. o \in Outcomes \ {"none"} /\ (o \in Verdicts => Front(a).code = o)
      BY DEF Classify, Outcomes, Verdicts, Front
    <2>2. att' = Recorded(a, o) /\ att[a].at = "sent" /\ Front(a).at = "answered"
      BY <1>1 DEF Respond, Front
    <2> HIDE DEF o
    <2> QED
      BY <1>0, <2>1, <2>2, SettledStep
  <1>2. CASE GiveUpRequest(a)
    <2>1. PICK o \in {"timed_out", "request_error"} : att' = Recorded(a, o)
      BY <1>2 DEF GiveUpRequest
    <2>2. o \in Outcomes \ {"none"} /\ o \notin Verdicts
      BY DEF Outcomes, Verdicts
    <2> QED
      BY <1>0, <2>1, <2>2, SettledStep
  <1>3. CASE CancelAttempt(a)
    <2>1. "cancelled" \in Outcomes \ {"none"} /\ "cancelled" \notin Verdicts
      BY DEF Outcomes, Verdicts
    <2>2. att' = Recorded(a, "cancelled")
      BY <1>3 DEF CancelAttempt
    <2> QED
      BY <1>0, <2>1, <2>2, SettledStep
  <1> QED
    BY <1>1, <1>2, <1>3

LEMMA BatchDriven ==
    ASSUME TypeInv, AttemptInv,
           \/ StopBatch \/ WriteReceipt \/ PauseTraffic \/ UNCHANGED trafficVars
           \/ \E a \in AttemptIds : Admission(a)
    PROVE  Driven /\ TypeInv'
  <1>1. CASE StopBatch \/ WriteReceipt \/ PauseTraffic \/ UNCHANGED trafficVars
    <2>1. plan' = plan /\ UNCHANGED <<att, asked, store, handler>>
      BY <1>1 DEF StopBatch, WriteReceipt, PauseTraffic, trafficVars
    <2>2. driver' = "receipt" => \A b \in AttemptIds : att[b].at = "recorded"
      BY <1>1 DEF StopBatch, WriteReceipt, PauseTraffic, trafficVars, AttemptInv
    <2>3. driver' \in {"running", "stopping", "receipt"}
      BY <1>1 DEF TypeInv, StopBatch, WriteReceipt, PauseTraffic, trafficVars
    <2>4. control' \in [paused : BOOLEAN, admitted : Nat]
      BY <1>1 DEF TypeInv, StopBatch, WriteReceipt, PauseTraffic, trafficVars
    <2> QED
      BY <2>1, <2>2, <2>3, <2>4, SamePlan DEF TypeInv, Driven, Elsewise
  <1>2. ASSUME NEW a \in AttemptIds, Admission(a) PROVE Driven /\ TypeInv'
    <2>1. /\ UNCHANGED <<plan, driver, att, store, handler>> /\ asked[a] = "asking"
          /\ \E v \in {"granted", "refused", "raised"} : asked' = [asked EXCEPT ![a] = v]
          /\ control' = control \/ control' = [control EXCEPT !.admitted = @ + 1]
      BY <1>2 DEF Admission, AdmitUpdate
    <2>2. /\ asked' \in [AttemptIds -> {"no", "asking", "granted", "refused", "raised"}]
          /\ \A b \in AttemptIds : asked'[b] = asked[b] \/ asked[b] = "asking"
      BY <2>1 DEF TypeInv
    <2>3. control' \in [paused : BOOLEAN, admitted : Nat]
      BY <2>1 DEF TypeInv
    <2> QED
      BY <2>1, <2>2, <2>3, SamePlan DEF TypeInv, Driven, Elsewise, AttemptInv
  <1> QED
    BY <1>1, <1>2

LEMMA DrivenAttempt == ASSUME SInv, Driven PROVE AttemptInv'
  <1>0. TypeInv /\ AttemptInv /\ ReachInv /\ plan' = plan /\ AttemptIds' = AttemptIds /\ plan.role \in Roles
    BY SamePlan, PlanFacts DEF SInv, Driven, TypeInv
  <1> DEFINE Good(b) ==
        /\ att'[b].at = "queued" => asked'[b] = "no" /\ ~att'[b].started
        /\ att'[b].at = "asking" => ~att'[b].started
        /\ att'[b].at = "sent" => att'[b].started
        /\ att'[b].at = "recorded" <=> att'[b].outcome # "none"
        /\ att'[b].started <=> handler'[plan.role][b].at # "none"
        /\ att'[b].started => asked'[b] = "granted"
        /\ driver' = "receipt" => att'[b].at = "recorded"
        /\ att'[b].outcome \in Verdicts => /\ handler'[plan.role][b].at = "answered"
                                           /\ handler'[plan.role][b].code = att'[b].outcome
  <1> SUFFICES ASSUME NEW b \in AttemptIds PROVE Good(b)
    BY <1>0 DEF AttemptInv, Front
  <1>1. CASE Elsewise
    BY <1>0, <1>1 DEF Elsewise, AttemptInv, Front
  <1>2. ASSUME NEW a \in AttemptIds, Acquired(a) PROVE Good(b)
    BY <1>0, <1>2 DEF Acquired, OthersKept, AttemptInv, Front
  <1>3. ASSUME NEW a \in AttemptIds, Sent(a) PROVE Good(b)
    <2>1. driver # "receipt" /\ att[a].outcome = "none"
      BY <1>0, <1>3 DEF AttemptInv, Sent
    <2> QED
      BY <1>0, <1>3, <2>1 DEF Sent, OthersKept, Untouched, AttemptInv, Front, Verdicts
  <1>4. ASSUME NEW a \in AttemptIds, Settled(a) PROVE Good(b)
    <2>1. driver # "receipt"
      BY <1>0, <1>4 DEF AttemptInv, Settled
    <2> QED
      BY <1>0, <1>4, <2>1 DEF Settled, OthersKept, AttemptInv, Front
  <1> QED
    BY <1>1, <1>2, <1>3, <1>4 DEF Driven

\* The driver changes the services only by a request that arrives where none was.
LEMMA DrivenServices ==
    ASSUME SInv, Driven
    PROVE  /\ store' = store
           /\ \A r \in Roles, b \in AttemptIds :
                \/ handler'[r][b] = handler[r][b]
                \/ /\ r = plan.role /\ handler[r][b].at = "none"
                   /\ handler'[r][b].at = "arrived" /\ handler'[r][b].ran = handler[r][b].ran
  <1>0. AttemptInv /\ plan' = plan
    BY DEF SInv, Driven
  <1>1. ASSUME NEW a \in AttemptIds, Sent(a)
        PROVE  /\ store' = store
               /\ \A r \in Roles, b \in AttemptIds :
                    \/ handler'[r][b] = handler[r][b]
                    \/ /\ r = plan.role /\ handler[r][b].at = "none"
                       /\ handler'[r][b].at = "arrived" /\ handler'[r][b].ran = handler[r][b].ran
    <2>1. handler[plan.role][a].at = "none"
      BY <1>0, <1>1 DEF AttemptInv, Sent, Front
    <2> QED
      BY <1>1, <2>1 DEF Sent, Untouched, Front
  <1>2. CASE store' = store /\ handler' = handler
    BY <1>2
  <1> QED
    BY <1>1, <1>2 DEF Driven, Elsewise, Acquired, Settled

LEMMA DrivenReach == ASSUME SInv, Driven PROVE ReachInv' /\ OwnerInv' /\ AnswerInv'
  <1>0. /\ TypeInv /\ ReachInv /\ OwnerInv /\ AnswerInv /\ plan' = plan /\ AttemptIds' = AttemptIds
        /\ \A b : SampleOf(b)' = SampleOf(b)
        /\ plan.role \in {"payments", "webhook"}
    BY SamePlan, PlanFacts DEF SInv, Driven, TypeInv
  <1>1. /\ store' = store
        /\ \A r \in Roles, b \in AttemptIds :
             \/ handler'[r][b] = handler[r][b]
             \/ /\ r = plan.role /\ handler[r][b].at = "none"
                /\ handler'[r][b].at = "arrived" /\ handler'[r][b].ran = handler[r][b].ran
    BY DrivenServices
  <1>2. ReachInv'
    <2> SUFFICES ASSUME NEW b \in AttemptIds
                 PROVE  /\ \A q \in Roles :
                             /\ handler'[q][b].ran => handler'[q][b].at \notin {"none", "arrived"}
                             /\ handler'[q][b].at \in {"working", "calling"} => handler'[q][b].ran
                             /\ q # "payments" => handler'[q][b].at # "calling"
                        /\ plan.role # "payments" => handler'["payments"][b].at = "none"
                        /\ handler'["payments"][b].at = "calling" => handler'["payments"][b].next \in DOMAIN Peers
                        /\ \A j \in DOMAIN Peers :
                             plan.role = "payments" /\ handler'[Peers[j]][b].at # "none" =>
                               \/ handler'["payments"][b].at = "answered"
                               \/ /\ handler'["payments"][b].at = "calling"
                                  /\ j <= handler'["payments"][b].next
      BY <1>0 DEF ReachInv, Working
    <2> QED
      BY <1>0, <1>1, PeerFacts DEF ReachInv, Working
  <1>3. \A r \in Roles, b \in AttemptIds :
          /\ handler'[r][b].at \in {"working", "calling"} <=> Working(r, b)
          /\ handler'[r][b].ran = handler[r][b].ran
    BY <1>1 DEF Working
  <1>4. OwnerInv'
    <2> DEFINE Busy(q, b) == handler'[q][b].at \in {"working", "calling"}
    <2>1. \A q \in Roles, b \in AttemptIds : (Busy(q, b) <=> Working(q, b)) /\ handler'[q][b].ran = handler[q][b].ran
      BY <1>3
    <2> SUFFICES ASSUME NEW q \in Roles
                 PROVE  /\ \A b, d \in AttemptIds :
                             Busy(q, b) /\ Busy(q, d) /\ SampleOf(b) = SampleOf(d) => b = d
                        /\ \A b \in AttemptIds : Busy(q, b) =>
                             store[q][SampleOf(b)] # NoEntry /\ store[q][SampleOf(b)].result = "none"
                        /\ \A s \in Samples : store[q][s] # NoEntry /\ store[q][s].result = "none" =>
                             \E b \in AttemptIds : SampleOf(b) = s /\ Busy(q, b)
                        /\ \A s \in Samples : store[q][s] # NoEntry =>
                             \E b \in AttemptIds : SampleOf(b) = s /\ handler'[q][b].ran
      BY <1>0, <1>1 DEF OwnerInv, Working, NoEntry
    <2> HIDE DEF Busy
    <2> QED
      BY <1>0, <2>1 DEF OwnerInv
  <1>5. AnswerInv'
    <2>1. \A r \in Roles, b \in AttemptIds :
            handler'[r][b].at \in {"answered", "calling"} => handler'[r][b] = handler[r][b]
      BY <1>1
    <2> QED
      BY <1>0, <1>1, <2>1, PeerFacts DEF AnswerInv
  <1> QED
    BY <1>2, <1>4, <1>5

LEMMA DrivenProbe == ASSUME SInv, Driven PROVE ProbeInv'
  <1>0. /\ TypeInv /\ AttemptInv /\ ReachInv /\ ProbeInv /\ plan' = plan /\ AttemptIds' = AttemptIds
        /\ plan.role \in Roles
    BY SamePlan, PlanFacts DEF SInv, Driven, TypeInv
  <1> DEFINE f == plan.role
  <1> SUFFICES ASSUME plan.probe
               PROVE  /\ \A a, b \in AttemptIds :
                           a < b /\ (att'[b].at \in {"asking", "sent"} \/ att'[b].started) =>
                             att'[a].at = "recorded"
                      /\ att'[1].at = "sent" /\ handler'[f][1].at = "answered"
                           /\ handler'[f][1].code \in Verdicts => handler'[f][1].ran
                      /\ att'[1].outcome \in Verdicts =>
                           handler'[f][1].ran /\ \A b \in AttemptIds : b # 1 => ~handler'[f][b].ran
    BY <1>0 DEF ProbeInv, Front
  <1>1. 1 \in AttemptIds /\ AttemptIds \subseteq Nat \ {0}
    BY <1>0, PlanFacts DEF TypeInv
  <1>2. \A b \in AttemptIds : handler'[f][b].ran = handler[f][b].ran
    BY <1>0, DrivenServices
  <1>3. ASSUME NEW a \in AttemptIds, NEW b \in AttemptIds, a < b,
               att'[b].at \in {"asking", "sent"} \/ att'[b].started
        PROVE  att'[a].at = "recorded"
    <2>1. att[a].at = "recorded"
      <3>1. CASE att'[b] = att[b]
        BY <1>0, <1>3, <3>1 DEF ProbeInv
      <3>2. CASE Acquired(b)
        BY <1>3, <3>2 DEF Acquired, Turn
      <3>3. CASE Sent(b)
        BY <1>0, <1>3, <3>3 DEF Sent, ProbeInv
      <3>4. CASE Settled(b)
        BY <1>0, <1>3, <3>4 DEF Settled, ProbeInv
      <3> QED
        BY <3>1, <3>2, <3>3, <3>4 DEF Driven, Elsewise, Acquired, Sent, Settled, OthersKept
    <2>2. att'[a] = att[a]
      BY <2>1 DEF Driven, Elsewise, Acquired, Sent, Settled, OthersKept
    <2> QED
      BY <2>1, <2>2
  <1>4. ASSUME att'[1].at = "sent", handler'[f][1].at = "answered", handler'[f][1].code \in Verdicts
        PROVE  handler'[f][1].ran
    <2>1. handler'[f][1] = handler[f][1]
      BY <1>0, <1>1, <1>4, DrivenServices
    <2>2. att[1].at = "sent"
      <3>1. CASE att'[1] = att[1]
        BY <1>4, <3>1
      <3>2. CASE Acquired(1) \/ Settled(1)
        BY <1>4, <3>2 DEF Acquired, Settled
      <3>3. CASE Sent(1)
        BY <1>4, <3>3 DEF Sent
      <3> QED
        BY <1>1, <3>1, <3>2, <3>3 DEF Driven, Elsewise, Acquired, Sent, Settled, OthersKept
    <2> QED
      BY <1>0, <1>4, <2>1, <2>2 DEF ProbeInv, Front
  <1>5. ASSUME att'[1].outcome \in Verdicts
        PROVE  handler'[f][1].ran /\ \A b \in AttemptIds : b # 1 => ~handler'[f][b].ran
    <2>1. CASE att[1].outcome \in Verdicts
      BY <1>0, <1>1, <1>2, <2>1 DEF ProbeInv, Front
    <2>2. CASE att[1].outcome \notin Verdicts
      <3>1. Settled(1)
        <4>1. ASSUME NEW a \in AttemptIds, Acquired(a) \/ Sent(a) PROVE att'[1].outcome = att[1].outcome
          BY <1>1, <4>1 DEF Acquired, Sent, OthersKept
        <4>2. ASSUME NEW a \in AttemptIds, Settled(a), a # 1 PROVE att'[1].outcome = att[1].outcome
          BY <1>1, <4>2 DEF Settled, OthersKept
        <4>3. CASE Elsewise
          BY <1>5, <2>2, <4>3 DEF Elsewise
        <4> QED
          BY <1>5, <2>2, <4>1, <4>2, <4>3 DEF Driven
      <3>2. att[1].at = "sent" /\ handler[f][1].at = "answered" /\ handler[f][1].code \in Verdicts
        BY <1>5, <3>1 DEF Settled, Front
      <3>3. handler[f][1].ran
        BY <1>0, <3>2 DEF ProbeInv, Front
      <3>4. ASSUME NEW b \in AttemptIds, b # 1 PROVE ~handler[f][b].ran
        <4>1. ~att[b].started
          BY <1>0, <1>1, <3>2, <3>4 DEF ProbeInv
        <4> QED
          BY <1>0, <4>1 DEF AttemptInv, Front, ReachInv
      <3> QED
        BY <1>1, <1>2, <3>3, <3>4
    <2> QED
      BY <2>1, <2>2
  <1> QED
    BY <1>3, <1>4, <1>5

-----------------------------------------------------------------------------
(* Every admission is counted; one whose answer was lost is counted too.   *)

LEMMA GrantedFinite == ASSUME TypeInv PROVE IsFiniteSet(Granted)
  <1>1. IsFiniteSet(AttemptIds)
    BY PlanFacts, FS_Interval, SMTT(30) DEF TypeInv
  <1> QED
    BY <1>1, FS_Subset DEF Granted

LEMMA AdmissionStep ==
    ASSUME SInv, AdmissionInv, [TrafficNext]_trafficVars PROVE AdmissionInv'
  <1>0. TypeInv /\ AttemptInv
    BY DEF SInv
  <1>N. Cardinality(Granted) \in Nat /\ control.admitted \in Nat
    BY <1>0, GrantedFinite, FS_CardinalityType DEF TypeInv
  <1>1. CASE /\ plan' = plan /\ control'.admitted \in {control.admitted, control.admitted + 1}
             /\ \A b \in AttemptIds : asked'[b] = "granted" <=> asked[b] = "granted"
    <2>1. Granted' = Granted
      BY <1>1, SamePlan DEF Granted
    <2> QED
      BY <1>N, <1>1, <2>1 DEF AdmissionInv
  <1>2. CASE UNCHANGED <<plan, asked, control>>
    BY <1>1, <1>2
  <1>3. ASSUME NEW a \in AttemptIds, Admission(a) PROVE AdmissionInv'
    <2>1. CASE asked' = [asked EXCEPT ![a] = "granted"] /\ control' = [control EXCEPT !.admitted = @ + 1]
      <3>1. plan' = plan /\ asked[a] = "asking" /\ a \notin Granted
        BY <1>3 DEF Admission, Granted
      <3>2. Granted' = Granted \cup {a}
        BY <1>0, <2>1, <3>1, SamePlan DEF Granted, TypeInv
      <3>3. Cardinality(Granted \cup {a}) = Cardinality(Granted) + 1
        BY <1>0, <3>1, GrantedFinite, FS_AddElement
      <3>4. control'.admitted = control.admitted + 1
        BY <1>0, <2>1 DEF TypeInv
      <3> QED
        BY <1>N, <3>2, <3>3, <3>4 DEF AdmissionInv
    <2>2. ASSUME NEW v \in {"refused", "raised"}, asked' = [asked EXCEPT ![a] = v],
                 control' = control \/ control' = [control EXCEPT !.admitted = @ + 1]
          PROVE  AdmissionInv'
      <3>1. \A b \in AttemptIds : asked'[b] = "granted" <=> asked[b] = "granted"
        BY <1>0, <1>3, <2>2 DEF TypeInv, Admission
      <3>2. control'.admitted \in {control.admitted, control.admitted + 1}
        BY <1>0, <2>2 DEF TypeInv
      <3> QED
        BY <1>1, <1>3, <3>1, <3>2 DEF Admission
    <2> QED
      BY <1>3, <2>1, <2>2 DEF Admission, AdmitUpdate
  <1>4. ASSUME NEW a \in AttemptIds, DriverStep(a) PROVE AdmissionInv'
    <2>1. CASE Acquire(a)
      <3>1. asked[a] # "granted" /\ asked' = [asked EXCEPT ![a] = "asking"]
        BY <1>0, <2>1 DEF Acquire, AttemptInv
      <3>2. \A b \in AttemptIds : asked'[b] = "granted" <=> asked[b] = "granted"
        BY <1>0, <3>1 DEF TypeInv
      <3> QED
        BY <1>1, <2>1, <3>2 DEF Acquire
    <2>2. CASE ~Acquire(a)
      BY <1>2, <1>4, <2>2 DEF DriverStep, Answer, Respond, GiveUpRequest, CancelAttempt
    <2> QED
      BY <2>1, <2>2
  <1>5. CASE PauseTraffic
    BY <1>0, <1>1, <1>5 DEF PauseTraffic, TypeInv
  <1>6. ASSUME NEW a \in AttemptIds, PeerAnswers(a) \/ PeerTimeout(a) PROVE AdmissionInv'
    BY <1>2, <1>6 DEF PeerAnswers, PeerTimeout
  <1>7. ASSUME NEW a \in AttemptIds, NEW r \in Roles, Receive(r, a) \/ Execute(r, a) PROVE AdmissionInv'
    BY <1>2, <1>7 DEF Receive, Execute
  <1>8. CASE StopBatch \/ WriteReceipt \/ UNCHANGED trafficVars
    BY <1>2, <1>8 DEF StopBatch, WriteReceipt, trafficVars
  <1> QED
    BY <1>3, <1>4, <1>5, <1>6, <1>7, <1>8 DEF TrafficNext

-----------------------------------------------------------------------------
(* The theorems.                                                           *)

LEMMA InitIInv == TrafficInit => IInv
  <1> SUFFICES ASSUME TrafficInit PROVE IInv
    OBVIOUS
  <1>0. plan \in Plans /\ plan.role \in Roles /\ "payments" \in Roles
    BY PlanFacts, PeerFacts DEF TrafficInit
  <1>1. /\ \A a \in AttemptIds : /\ att[a].at = "queued" /\ att[a].started = FALSE
                                 /\ att[a].outcome = "none" /\ asked[a] = "no"
        /\ \A r \in Roles, a \in AttemptIds : handler[r][a] = NoHandler
        /\ \A r \in Roles, s \in Samples : store[r][s] = NoEntry
        /\ driver = "running" /\ control.admitted = 0
    BY DEF TrafficInit
  <1>2. NoHandler.at = "none" /\ NoHandler.ran = FALSE /\ NoEntry.result = "none"
    BY DEF NoHandler, NoEntry
  <1>3. TypeInv
    <2>1. NoHandler \in Handler /\ NoEntry \in Entry
      BY DEF NoHandler, NoEntry, Handler, Entry
    <2>2. \A a \in AttemptIds : [at |-> "queued", started |-> FALSE, outcome |-> "none"]
            \in [at : {"queued", "asking", "sent", "recorded"}, started : BOOLEAN, outcome : Outcomes]
      BY DEF Outcomes
    <2> QED
      BY <2>1, <2>2 DEF TrafficInit, TypeInv
  <1>4. AttemptInv
    BY <1>0, <1>1, <1>2 DEF AttemptInv, Front, Verdicts
  <1>5. ReachInv
    BY <1>0, <1>1, <1>2, PeerFacts DEF ReachInv, Working
  <1>6. OwnerInv
    BY <1>1, <1>2 DEF OwnerInv, Working
  <1>7. AnswerInv
    BY <1>0, <1>1, <1>2, PeerFacts DEF AnswerInv
  <1>8. ProbeInv
    <2>1. plan.probe => 1 \in AttemptIds
      BY <1>0, PlanFacts
    <2> QED
      BY <1>0, <1>1, <1>2, <2>1 DEF ProbeInv, Front, Verdicts
  <1>9. AdmissionInv
    <2>1. Granted = {}
      BY <1>1 DEF Granted
    <2> QED
      BY <1>1, <2>1, FS_EmptySet DEF AdmissionInv
  <1> QED
    BY <1>3, <1>4, <1>5, <1>6, <1>7, <1>8, <1>9 DEF IInv

LEMMA NextIInv == ASSUME IInv, [TrafficNext]_trafficVars PROVE IInv'
  <1>0. SInv /\ TypeInv /\ AttemptInv /\ ReachInv /\ AnswerInv /\ AdmissionInv
    BY DEF IInv, SInv
  <1>1. (Served \/ Driven) /\ TypeInv'
    <2>1. ASSUME Served, StoresTyped PROVE Served /\ TypeInv'
      BY <1>0, <2>1, ServedType
    <2>2. ASSUME NEW a \in AttemptIds, PeerAnswers(a) \/ PeerTimeout(a) PROVE Served /\ TypeInv'
      BY <1>0, <2>1, <2>2, PeerServed
    <2>3. ASSUME NEW a \in AttemptIds, NEW r \in Roles, Receive(r, a) PROVE Served /\ TypeInv'
      BY <1>0, <2>1, <2>3, ReceiveServed
    <2>4. ASSUME NEW a \in AttemptIds, NEW r \in Roles, Execute(r, a) PROVE Served /\ TypeInv'
      BY <1>0, <2>1, <2>4, ExecuteServed
    <2>5. ASSUME NEW a \in AttemptIds, DriverStep(a) PROVE Driven /\ TypeInv'
      BY <1>0, <2>5, AcquireDriven, AnswerDriven, EndingDriven DEF DriverStep
    <2>6. CASE \/ StopBatch \/ WriteReceipt \/ PauseTraffic \/ UNCHANGED trafficVars
               \/ \E a \in AttemptIds : Admission(a)
      BY <1>0, <2>6, BatchDriven
    <2> QED
      BY <2>2, <2>3, <2>4, <2>5, <2>6 DEF TrafficNext
  <1>2. AdmissionInv'
    BY <1>0, AdmissionStep
  <1>3. CASE Served
    BY <1>0, <1>1, <1>2, <1>3, ServedAttempt, ServedReach, ServedOwner, ServedAnswer, ServedProbe DEF IInv
  <1>4. CASE Driven
    BY <1>0, <1>1, <1>2, <1>4, DrivenAttempt, DrivenReach, DrivenProbe DEF IInv
  <1> QED
    BY <1>1, <1>3, <1>4

\* The parts listed above hold together in every reachable state of traffic.py's driver and
\* the services it calls.
THEOREM Inductive == TrafficSpec => []IInv
  <1> QED
    BY InitIInv, NextIInv, PTL DEF TrafficSpec

\* SampleStore: whatever is retried, given up or raced, a role runs a sample for one request
\* at a time and never again once it has a result.
THEOREM ExecutedOnce == TrafficSpec => []OneExecution
  <1>1. IInv => OneExecution
    <2> SUFFICES ASSUME IInv, NEW r \in Roles, NEW s \in Samples
                 PROVE  LET busy == {a \in AttemptIds : SampleOf(a) = s /\ Working(r, a)}
                        IN  /\ Cardinality(busy) <= 1
                            /\ (busy # {}) = (store[r][s] # NoEntry /\ store[r][s].result = "none")
      BY DEF OneExecution
    <2> DEFINE busy == {a \in AttemptIds : SampleOf(a) = s /\ Working(r, a)}
    <2>1. OwnerInv
      BY DEF IInv
    <2>2. \A a, b \in busy : a = b
      BY <2>1 DEF OwnerInv
    <2>3. busy # {} <=> store[r][s] # NoEntry /\ store[r][s].result = "none"
      BY <2>1 DEF OwnerInv
    <2> HIDE DEF busy
    <2>4. Cardinality(busy) <= 1
      <3>1. CASE busy = {}
        BY <3>1, FS_EmptySet
      <3>2. ASSUME NEW x \in busy PROVE Cardinality(busy) <= 1
        <4>1. busy = {x}
          BY <2>2
        <4> QED
          BY <4>1, FS_Singleton
      <3> QED
        BY <3>1, <3>2
    <2> QED
      BY <2>3, <2>4 DEF busy
  <1> QED
    BY <1>1, Inductive, PTL

\* TrafficDriver's receipt is final and true: nothing is sent after it, what it calls not
\* started never reached the service, and a recorded verdict is the service's own.
THEOREM ReceiptsTrue == TrafficSpec => []ReceiptHonest
  <1>1. IInv => ReceiptHonest
    <2> SUFFICES ASSUME IInv, driver = "receipt", NEW a \in AttemptIds
                 PROVE  /\ att[a].outcome # "none"
                        /\ ~att[a].started => handler[plan.role][a].at = "none"
                        /\ att[a].outcome \in {"accepted", "declined"} =>
                             store[plan.role][SampleOf(a)].result = att[a].outcome
      BY DEF ReceiptHonest
    <2>1. AttemptInv /\ AnswerInv /\ plan.role \in Roles
      BY PlanFacts DEF IInv, TypeInv
    <2> QED
      BY <2>1 DEF AttemptInv, AnswerInv, Front, Verdicts
  <1> QED
    BY <1>1, Inductive, PTL

\* payment_path and run_idempotency_probe: a payment is accepted only on the acceptance of
\* every peer, and a verified probe has executed its original alone.
THEOREM AcceptanceRests == TrafficSpec => []AcceptedByAll
  <1>1. IInv => AcceptedByAll
    <2> SUFFICES ASSUME IInv PROVE AcceptedByAll
      OBVIOUS
    <2>0. AttemptInv /\ AnswerInv /\ ProbeInv /\ plan \in Plans
      BY DEF IInv, TypeInv
    <2>1. ASSUME NEW s \in Samples, store["payments"][s].result = "accepted", NEW r \in Roles
          PROVE  store[r][s].result = "accepted"
      BY <2>0, <2>1, PeerFacts DEF AnswerInv
    <2>2. ASSUME ProbeVerified PROVE {a \in AttemptIds : handler[plan.role][a].ran} = {1}
      <3>1. plan.probe /\ att[1].outcome \in Verdicts /\ 1 \in AttemptIds
        BY <2>0, <2>2, PlanFacts DEF ProbeVerified, Verdicts
      <3> QED
        BY <2>0, <3>1 DEF ProbeInv, Front
    <2> QED
      BY <2>1, <2>2 DEF AcceptedByAll
  <1> QED
    BY <1>1, Inductive, PTL

\* TrafficControl: the pause orders every admission, and no more requests reach the service
\* than were admitted.
THEOREM PauseOrders == TrafficSpec => PauseStopsAdmission
  <1> DEFINE Now == {a \in AttemptIds : asked[a] = "granted"}
             Then == {a \in AttemptIds : asked'[a] = "granted"}
             Seen == {a \in AttemptIds : handler[plan.role][a].at # "none"}
  <1>1. ASSUME IInv, [TrafficNext]_trafficVars PROVE [control.paused => Then = Now]_trafficVars
    <2> SUFFICES ASSUME control.paused, TrafficNext PROVE Then = Now
      BY <1>1 DEF trafficVars
    <2>0. TypeInv /\ AttemptInv
      BY <1>1 DEF IInv
    <2>1. CASE \A b \in AttemptIds : asked'[b] = "granted" <=> asked[b] = "granted"
      BY <2>1
    <2>2. ASSUME NEW a \in AttemptIds, Admission(a) PROVE Then = Now
      <3>1. PICK v \in {"refused", "raised"} : asked' = [asked EXCEPT ![a] = v] /\ asked[a] = "asking"
        BY <2>2 DEF Admission, AdmitUpdate
      <3> QED
        BY <2>0, <2>1, <3>1 DEF TypeInv
    <2>3. ASSUME NEW a \in AttemptIds, Acquire(a) PROVE Then = Now
      <3>1. asked[a] # "granted" /\ asked' = [asked EXCEPT ![a] = "asking"]
        BY <2>0, <2>3 DEF Acquire, AttemptInv
      <3> QED
        BY <2>0, <2>1, <3>1 DEF TypeInv
    <2>4. CASE asked' = asked
      BY <2>4
    <2>5. ASSUME NEW a \in AttemptIds, DriverStep(a) PROVE Then = Now
      BY <2>3, <2>4, <2>5 DEF DriverStep, Answer, Respond, GiveUpRequest, CancelAttempt
    <2> QED
      BY <2>2, <2>4, <2>5 DEF TrafficNext, PeerAnswers, PeerTimeout, Receive, Execute, StopBatch,
                              WriteReceipt, PauseTraffic
  <1>2. IInv => Cardinality(Seen) <= control.admitted
    <2> SUFFICES ASSUME IInv PROVE Cardinality(Seen) <= control.admitted
      OBVIOUS
    <2>1. Seen \subseteq Granted
      BY DEF IInv, AttemptInv, Front, Granted
    <2>2. IsFiniteSet(Granted)
      BY GrantedFinite DEF IInv
    <2> HIDE DEF Seen
    <2>3. /\ Cardinality(Seen) <= Cardinality(Granted)
          /\ Cardinality(Seen) \in Nat /\ Cardinality(Granted) \in Nat /\ control.admitted \in Nat
      BY <2>1, <2>2, FS_Subset, FS_CardinalityType DEF IInv, TypeInv
    <2> QED
      BY <2>3 DEF IInv, AdmissionInv
  <1> QED
    BY <1>1, <1>2, Inductive, PTL DEF PauseStopsAdmission, TrafficSpec

=============================================================================
