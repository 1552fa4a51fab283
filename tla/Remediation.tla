---------------------------- MODULE Remediation ----------------------------
(***************************************************************************)
(* The remediation broker (propose, approve, execute), the policy review   *)
(* it repeats, the backend that applies an effect, and the resource API    *)
(* with its own concurrent writers.  Workers are the threads and processes *)
(* that serve broker calls: each runs one call at a time, and every wait   *)
(* of the code (identity lookup, resource read, database transaction,      *)
(* kubectl command) is a step boundary where the clock may advance, grants *)
(* may change, another worker may run, or this one may die.                *)
(***************************************************************************)
EXTENDS ActionStore, FiniteSetsExt

CONSTANTS Workers,      \* concurrent broker calls
          Resources,    \* Deployments and synthetic traffic controls
          Target,       \* [Actions -> Resources], proposal.resource_uid
          Expected,     \* [Actions -> Nat], proposal.expected_version
          Traffic,      \* the resources that are traffic controls
          EvidenceAt,   \* [Actions -> Nat], age reference of the cited evidence
          InitialGrants,\* [Subjects -> SUBSET Roles]
          IdentityTTL,  \* 60 s in the code
          ResourceTTL,  \* 30 s
          EvidenceTTL,  \* 300 s
          Revocable,    \* the grants that may be withdrawn, pairs <<subject, role>>
          MaxTime,      \* bound on the clock
          MaxVersion    \* bound on a resource's version

Roles == {"responder", "approver", "executor"}

ASSUME RemediationAssumption ==
    /\ Target \in [Actions -> Resources]
    /\ Expected \in [Actions -> Nat]
    /\ Traffic \subseteq Resources
    /\ EvidenceAt \in [Actions -> Nat]
    /\ InitialGrants \in [Subjects -> SUBSET Roles]
    /\ Revocable \subseteq Subjects \X Roles
    /\ {IdentityTTL, ResourceTTL, EvidenceTTL, MaxTime, MaxVersion} \subseteq Nat

VARIABLES now,          \* the clock every process reads
          grants,       \* the identity provider's current grants
          lastHeld,     \* when a withdrawn grant was last held (history)
          version,      \* current version of each resource
          spec,         \* the action whose spec a resource carries, or Nil
          inflight,     \* actions whose write is on its way to the resource API
          applied,      \* actions whose write the resource API performed
          dispatches,   \* how often backend.execute was called (history)
          orphaned,     \* actions whose claimant died (history)
          pc,           \* where each worker is in its broker call
          call          \* the parameters and locals of that call

envVars == <<now, grants, lastHeld>>
resourceVars == <<version, spec, inflight, applied>>
historyVars == <<dispatches, orphaned>>
vars == <<storeVars, envVars, resourceVars, historyVars, pc, call>>

Ops == {"propose", "approve", "execute"}

\* Before the claim commits, and after it: the second group owns an EXECUTING record.
Reviewing == {"get", "approver", "executor", "signer", "review_identity", "review_context",
              "review_evaluate", "create", "reapprover", "stamp", "sign", "current", "claim"}
Refreshing == {"id_executor", "id_approver", "id_proposer", "authorize"}
InBackend == {"plan", "patch", "await", "rollout"}
Settling == {"denied", "succeeded", "failed", "unknown"}
ClaimPCs == Refreshing \cup InBackend \cup Settling

PCs == {"idle"} \cup Reviewing \cup ClaimPCs

Call == [op : Ops, action : Actions,
         subject : Subjects, seen : ActionRecord \cup {Nil}, approval : Approval \cup {Nil},
         observed : [version : Nat, at : Nat], deadline : Nat, verified : [Roles -> Nat]]

NoObservation == [version |-> 0, at |-> 0]

\* A worker between calls: no local variable survives a call.
Idle == [op |-> "propose", action |-> CHOOSE a \in Actions : TRUE,
         subject |-> CHOOSE s \in Subjects : TRUE, seen |-> Nil, approval |-> Nil,
         observed |-> NoObservation, deadline |-> 0, verified |-> [r \in Roles |-> 0]]

\* The call reaches label, and its locals become c.
Proceed(w, label, c) ==
    /\ pc' = [pc EXCEPT ![w] = label]
    /\ call' = [call EXCEPT ![w] = c]

Goto(w, label) == pc' = [pc EXCEPT ![w] = label] /\ UNCHANGED call

\* The call ends: it returned, or raised to the API's error mapping.
Return(w) == Proceed(w, "idle", Idle)

---------------------------------------------------------------------------
(***************************************************************************)
(* Identity and policy                                                     *)
(***************************************************************************)

\* identity_valid for a principal looked up at time at, whose snapshot the identity
\* service lets expire IdentityTTL later.
Fresh(at) == now < at + IdentityTTL

\* _identity: look the subject up and demand the role; the snapshot is kept in verified.
Identity(w, s, role, next) ==
    /\ IF role \in grants[s] /\ Fresh(now)
         THEN Proceed(w, next, [call[w] EXCEPT !.verified = [@ EXCEPT ![role] = now]])
         ELSE Return(w)
    /\ UNCHANGED <<storeVars, envVars, resourceVars, historyVars>>

\* The subject whose responder identity _review refreshes.
Responder(c) == IF c.op = "propose" THEN c.subject ELSE c.seen.proposer

ReviewIdentity(w) ==
    /\ pc[w] = "review_identity"
    /\ Identity(w, Responder(call[w]), "responder", "review_context")

\* backend.context: the resource is read now, evidence age is fixed by the saved report.
ReviewContext(w) ==
    /\ pc[w] = "review_context"
    /\ Proceed(w, "review_evaluate",
               [call[w] EXCEPT !.observed = [version |-> version[Target[call[w].action]],
                                             at |-> now]])
    /\ UNCHANGED <<storeVars, envVars, resourceVars, historyVars>>

\* scope_failure and evidence_failure, with no failure found.
Evaluate(c) ==
    /\ Fresh(c.verified["responder"])
    /\ now - c.observed.at \in 0..ResourceTTL
    /\ c.observed.version = Expected[c.action]
    /\ now - EvidenceAt[c.action] \in 0..EvidenceTTL

PolicyDeadline(c) == Min({c.observed.at + ResourceTTL, EvidenceAt[c.action] + EvidenceTTL})

AfterReview(op) == CASE op = "propose" -> "create"
                     [] op = "approve" -> "reapprover"
                     [] op = "execute" -> "current"

ReviewEvaluate(w) ==
    /\ pc[w] = "review_evaluate"
    /\ IF Evaluate(call[w])
         THEN Proceed(w, AfterReview(call[w].op),
                      [call[w] EXCEPT !.deadline = PolicyDeadline(call[w]),
                                      !.observed = NoObservation])
         ELSE Return(w)
    /\ UNCHANGED <<storeVars, envVars, resourceVars, historyVars>>

---------------------------------------------------------------------------
(***************************************************************************)
(* propose and approve                                                     *)
(***************************************************************************)

\* An authenticated API request reaches the broker.
Begin(w) ==
    /\ pc[w] = "idle"
    /\ \E op \in Ops, a \in Actions, s \in Subjects :
          Proceed(w, IF op = "propose" THEN "review_identity" ELSE "get",
                  [Idle EXCEPT !.op = op, !.action = a, !.subject = s])
    /\ UNCHANGED <<storeVars, envVars, resourceVars, historyVars>>

ProposeCreate(w) ==
    /\ pc[w] = "create"
    /\ Create(call[w].action, call[w].subject)
    /\ Return(w)
    /\ UNCHANGED <<envVars, resourceVars, historyVars>>

\* store.get at the head of approve and execute; a missing row is a KeyError.
Get(w) ==
    /\ pc[w] = "get"
    /\ IF Exists(call[w].action)
         THEN Proceed(w, IF call[w].op = "approve" THEN "approver" ELSE "executor",
                      [call[w] EXCEPT !.seen = record[call[w].action]])
         ELSE Return(w)
    /\ UNCHANGED <<storeVars, envVars, resourceVars, historyVars>>

MayApprove(c) == c.subject # c.seen.proposer /\ c.seen.state = "PROPOSED"

ApproveIdentity(w) ==
    /\ pc[w] = "approver"
    /\ IF MayApprove(call[w])
         THEN Identity(w, call[w].subject, "approver", "review_identity")
         ELSE /\ Return(w)
              /\ UNCHANGED <<storeVars, envVars, resourceVars, historyVars>>

ApproveReidentify(w) ==
    /\ pc[w] = "reapprover"
    /\ Identity(w, call[w].subject, "approver", "stamp")

\* The policy deadline is tested and the approval object built at one clock reading.
ApproveStamp(w) ==
    /\ pc[w] = "stamp"
    /\ IF now <= call[w].deadline
         THEN Proceed(w, "sign", [call[w] EXCEPT !.approval =
                  [subject |-> call[w].subject, approved_at |-> now,
                   expires_at |-> now + ApprovalTTL]])
         ELSE Return(w)
    /\ UNCHANGED <<storeVars, envVars, resourceVars, historyVars>>

ApproveCommit(w) ==
    LET c == call[w] IN
    /\ pc[w] = "sign"
    /\ IF CanTransition(c.action, c.seen, "APPROVED")
         THEN Transition(c.action, c.seen, "APPROVED", c.subject, "HUMAN_APPROVED",
                         c.approval, Nil)
         ELSE UNCHANGED storeVars
    /\ Return(w)
    /\ UNCHANGED <<envVars, resourceVars, historyVars>>

---------------------------------------------------------------------------
(***************************************************************************)
(* execute                                                                 *)
(***************************************************************************)

ApprovalCurrent(r) == r.approval.approved_at <= now /\ now < r.approval.expires_at

\* Mutant of ExecuteIdentity: an interrupted claim is taken over and dispatched again.
ExecuteIdentityResuming(w) ==
    LET c == call[w] IN
    /\ pc[w] = "executor"
    /\ IF c.seen.state = "EXECUTING"
         THEN Identity(w, c.subject, "executor", "id_executor")
         ELSE IF c.seen.state = "APPROVED" /\ ApprovalCurrent(c.seen)
                THEN Identity(w, c.subject, "executor", "signer")
                ELSE /\ Return(w)
                     /\ UNCHANGED <<storeVars, envVars, resourceVars, historyVars>>

\* Claimed and finished actions are returned as they are: replay never dispatches.
ExecuteIdentity(w) ==
    LET c == call[w] IN
    /\ pc[w] = "executor"
    /\ IF c.seen.state = "APPROVED" /\ ApprovalCurrent(c.seen)
         THEN Identity(w, c.subject, "executor", "signer")
         ELSE /\ Return(w)
              /\ UNCHANGED <<storeVars, envVars, resourceVars, historyVars>>

ExecuteSigner(w) ==
    /\ pc[w] = "signer"
    /\ Identity(w, call[w].seen.approval.subject, "approver", "review_identity")

ExecuteCurrent(w) ==
    /\ pc[w] = "current"
    /\ IF ApprovalCurrent(call[w].seen) THEN Goto(w, "claim") ELSE Return(w)
    /\ UNCHANGED <<storeVars, envVars, resourceVars, historyVars>>

\* The durable claim.  The worker continues with the record it wrote.
ExecuteClaim(w) ==
    LET c == call[w] IN
    /\ pc[w] = "claim"
    /\ IF CanTransition(c.action, c.seen, "EXECUTING")
         THEN /\ Transition(c.action, c.seen, "EXECUTING", c.subject, "DISPATCH", Nil, Nil)
              /\ Proceed(w, "id_executor",
                         [c EXCEPT !.seen = After(c.seen, "EXECUTING", Nil, Nil)])
         ELSE /\ Return(w)
              /\ UNCHANGED storeVars
    /\ UNCHANGED <<envVars, resourceVars, historyVars>>

\* _dispatch_authority: one identity refresh; a denial is recorded, not raised.
Refresh(w, label, s, role, next) ==
    /\ pc[w] = label
    /\ IF role \in grants[s] /\ Fresh(now)
         THEN Proceed(w, next, [call[w] EXCEPT !.verified = [@ EXCEPT ![role] = now]])
         ELSE Goto(w, "denied")
    /\ UNCHANGED <<storeVars, envVars, resourceVars, historyVars>>

RefreshIdentities(w) ==
    \/ Refresh(w, "id_executor", call[w].subject, "executor", "id_approver")
    \/ Refresh(w, "id_approver", call[w].seen.approval.subject, "approver", "id_proposer")
    \/ Refresh(w, "id_proposer", call[w].seen.proposer, "responder", "authorize")

\* Mutant of Authorized: the snapshots are not checked again at one common time.
AuthorizedOnce(c) == ApprovalCurrent(c.seen) /\ now <= c.deadline

\* The three snapshots, the approval and the policy deadline are checked together.
Authorized(c) ==
    /\ \A r \in Roles : Fresh(c.verified[r])
    /\ ApprovalCurrent(c.seen)
    /\ now <= c.deadline

Authorize(w) ==
    /\ pc[w] = "authorize"
    /\ IF Authorized(call[w])
         THEN /\ Goto(w, "plan")
              /\ dispatches' = [dispatches EXCEPT ![call[w].action] = @ + 1]
         ELSE /\ Goto(w, "denied")
              /\ UNCHANGED dispatches
    /\ UNCHANGED <<storeVars, envVars, resourceVars, orphaned>>

---------------------------------------------------------------------------
(***************************************************************************)
(* backend.execute and the resource API                                    *)
(***************************************************************************)

IsTraffic(a) == Target[a] \in Traffic

\* LocalDeploymentExecutor reads the Deployment and refuses a stale one; TrafficControl
\* only checks the scope of its row.  Any other error of the read is ambiguous too.
Plan(w) ==
    LET a == call[w].action IN
    /\ pc[w] = "plan"
    /\ \/ /\ IsTraffic(a) \/ version[Target[a]] = Expected[a]
          /\ Goto(w, "patch")
       \/ Goto(w, "unknown")
    /\ UNCHANGED <<storeVars, envVars, resourceVars, historyVars>>

Patch(w) ==
    /\ pc[w] = "patch"
    /\ inflight' = inflight \cup {call[w].action}
    /\ Goto(w, "await")
    /\ UNCHANGED <<storeVars, envVars, version, spec, applied, historyVars>>

\* Mutant of ServeWrite: the patch carries no version test.
ServeWriteBlindly(a) ==
    /\ a \in inflight
    /\ inflight' = inflight \ {a}
    /\ version' = [version EXCEPT ![Target[a]] = @ + 1]
    /\ spec' = [spec EXCEPT ![Target[a]] = a]
    /\ applied' = applied \cup {a}
    /\ UNCHANGED <<storeVars, envVars, historyVars, pc, call>>

\* The API server tests UID, version and spec, and replaces the spec, in one request.
\* A request may also be lost on its way, or arrive after its sender gave up or died.
ServeWrite(a) ==
    /\ a \in inflight
    /\ inflight' = inflight \ {a}
    /\ IF version[Target[a]] = Expected[a]
         THEN /\ version' = [version EXCEPT ![Target[a]] = @ + 1]
              /\ spec' = [spec EXCEPT ![Target[a]] = a]
              /\ applied' = applied \cup {a}
         ELSE UNCHANGED <<version, spec, applied>>
    /\ UNCHANGED <<storeVars, envVars, historyVars, pc, call>>

LoseWrite(a) ==
    /\ a \in inflight
    /\ inflight' = inflight \ {a}
    /\ UNCHANGED <<storeVars, envVars, version, spec, applied, historyVars, pc, call>>

\* Mutant of Await: a timeout of the write counts as a failed effect.
AwaitTimeoutFails(w) ==
    LET a == call[w].action IN
    /\ pc[w] = "await"
    /\ \/ /\ a \in applied
          /\ Goto(w, IF IsTraffic(a) THEN "succeeded" ELSE "rollout")
       \/ Goto(w, "failed")
    /\ UNCHANGED <<storeVars, envVars, resourceVars, historyVars>>

\* Mutant of Await: the response is not awaited at all.
AwaitNothing(w) ==
    /\ pc[w] = "await"
    /\ Goto(w, "succeeded")
    /\ UNCHANGED <<storeVars, envVars, resourceVars, historyVars>>

\* The response arrives, or the command times out; no write is retried.
Await(w) ==
    LET a == call[w].action IN
    /\ pc[w] = "await"
    /\ \/ /\ a \in applied
          /\ Goto(w, IF IsTraffic(a) THEN "succeeded" ELSE "rollout")
       \/ Goto(w, "unknown")
    /\ UNCHANGED <<storeVars, envVars, resourceVars, historyVars>>

\* Poll until ready or until the deadline; drift, deletion or a failed read is ambiguous.
Rollout(w) ==
    LET a == call[w].action IN
    /\ pc[w] = "rollout"
    /\ \/ /\ spec[Target[a]] = a
          /\ \E outcome \in {"succeeded", "failed"} : Goto(w, outcome)
       \/ Goto(w, "unknown")
    /\ UNCHANGED <<storeVars, envVars, resourceVars, historyVars>>

\* The final transition of _dispatch.  A lost compare-and-set would raise to the API.
Settle(w, label, state, reason, result) ==
    LET c == call[w] IN
    /\ pc[w] = label
    /\ IF CanTransition(c.action, c.seen, state)
         THEN Transition(c.action, c.seen, state, c.subject, reason, Nil, result)
         ELSE UNCHANGED storeVars
    /\ Return(w)
    /\ UNCHANGED <<envVars, resourceVars, historyVars>>

\* Mutant of DispatchSettle: a denied final authority check is not recorded.
DispatchSettleForgetsDenial(w) ==
    \/ Settle(w, "succeeded", "SUCCEEDED", "EXECUTOR_RESULT", "SUCCEEDED")
    \/ Settle(w, "failed", "FAILED", "EXECUTOR_RESULT", "FAILED")
    \/ Settle(w, "unknown", "UNKNOWN", "EXECUTOR_RESULT_UNKNOWN", Nil)

DispatchSettle(w) ==
    \/ Settle(w, "denied", "FAILED", "DISPATCH_AUTHORITY_DENIED", "FAILED")
    \/ Settle(w, "succeeded", "SUCCEEDED", "EXECUTOR_RESULT", "SUCCEEDED")
    \/ Settle(w, "failed", "FAILED", "EXECUTOR_RESULT", "FAILED")
    \/ Settle(w, "unknown", "UNKNOWN", "EXECUTOR_RESULT_UNKNOWN", Nil)

---------------------------------------------------------------------------
(***************************************************************************)
(* Environment                                                             *)
(***************************************************************************)

\* A process dies, or an error the broker does not handle ends the call; its write, if
\* one is in flight, is not called back.
Crash(w) ==
    /\ pc[w] # "idle"
    /\ Return(w)
    /\ orphaned' = IF pc[w] \in ClaimPCs THEN orphaned \cup {call[w].action} ELSE orphaned
    /\ UNCHANGED <<storeVars, envVars, resourceVars, dispatches>>

Tick ==
    /\ now < MaxTime
    /\ now' = now + 1
    /\ UNCHANGED <<storeVars, grants, lastHeld, resourceVars, historyVars, pc, call>>

Revoke(s, role) ==
    /\ <<s, role>> \in Revocable
    /\ role \in grants[s]
    /\ grants' = [grants EXCEPT ![s] = @ \ {role}]
    /\ lastHeld' = [lastHeld EXCEPT ![s] = [@ EXCEPT ![role] = now]]
    /\ UNCHANGED <<storeVars, now, resourceVars, historyVars, pc, call>>

\* Another writer (a controller, an operator) changes a Deployment, its spec or only its
\* metadata.  Nothing else writes a traffic control.
ExternalWrite(r) ==
    /\ r \notin Traffic
    /\ version[r] < MaxVersion
    /\ version' = [version EXCEPT ![r] = @ + 1]
    /\ \E s \in {spec[r], Nil} : spec' = [spec EXCEPT ![r] = s]
    /\ UNCHANGED <<storeVars, envVars, inflight, applied, historyVars, pc, call>>

Init ==
    /\ StoreInit
    /\ now = 0
    /\ grants = InitialGrants
    /\ lastHeld = [s \in Subjects |-> [r \in Roles |-> 0]]
    /\ version = [r \in Resources |-> 1]
    /\ spec = [r \in Resources |-> Nil]
    /\ inflight = {}
    /\ applied = {}
    /\ dispatches = [a \in Actions |-> 0]
    /\ orphaned = {}
    /\ pc = [w \in Workers |-> "idle"]
    /\ call = [w \in Workers |-> Idle]

\* What a worker that is running a call does next.
Step(w) ==
    \/ ReviewIdentity(w) \/ ReviewContext(w) \/ ReviewEvaluate(w)
    \/ ProposeCreate(w)
    \/ Get(w) \/ ApproveIdentity(w) \/ ApproveReidentify(w) \/ ApproveStamp(w)
    \/ ApproveCommit(w)
    \/ ExecuteIdentity(w) \/ ExecuteSigner(w) \/ ExecuteCurrent(w) \/ ExecuteClaim(w)
    \/ RefreshIdentities(w) \/ Authorize(w)
    \/ Plan(w) \/ Patch(w) \/ Await(w) \/ Rollout(w) \/ DispatchSettle(w)

Next ==
    \/ \E w \in Workers : Step(w) \/ Begin(w) \/ Crash(w)
    \/ \E a \in Actions : ServeWrite(a) \/ LoseWrite(a)
    \/ \E s \in Subjects, role \in Roles : Revoke(s, role)
    \/ \E r \in Resources : ExternalWrite(r)
    \/ Tick

Spec == Init /\ [][Next]_vars

\* A worker that is alive keeps running the call it started (no step of a call waits
\* for another call); nothing obliges anybody to start a call.
Fairness == \A w \in Workers : WF_vars(Step(w))

FairSpec == Spec /\ Fairness

---------------------------------------------------------------------------
(***************************************************************************)
(* Properties                                                              *)
(***************************************************************************)

TypeOK ==
    /\ StoreTypeOK
    /\ now \in Nat
    /\ grants \in [Subjects -> SUBSET Roles]
    /\ lastHeld \in [Subjects -> [Roles -> Nat]]
    /\ version \in [Resources -> Nat]
    /\ spec \in [Resources -> Actions \cup {Nil}]
    /\ inflight \subseteq Actions
    /\ applied \subseteq Actions
    /\ dispatches \in [Actions -> Nat]
    /\ orphaned \subseteq Actions
    /\ pc \in [Workers -> PCs]
    /\ call \in [Workers -> Call]

\* Where an action stands in its life cycle.
phase == [a \in Actions |-> IF Exists(a) THEN record[a].state ELSE "ABSENT"]

Claims(w, a) == pc[w] \in ClaimPCs /\ call[w].action = a

(* A conditional update admits one claimant: between its claim and its     *)
(* final transition no other worker owns the action, and the row stays     *)
(* exactly what the claimant wrote, so that final transition cannot lose   *)
(* its compare-and-set.                                                    *)
SoleClaimant ==
    \A w \in Workers, a \in Actions : Claims(w, a) =>
        /\ phase[a] = "EXECUTING" /\ record[a] = call[w].seen
        /\ \A v \in Workers \ {w} : ~Claims(v, a)

(* "Neither state permits another dispatch": whatever is replayed, crashes *)
(* or races, the backend is called at most once per action, and only after *)
(* the claim is durable.                                                   *)
AtMostOneDispatch ==
    \A a \in Actions :
        /\ dispatches[a] <= 1
        /\ dispatches[a] = 1 => phase[a] \in {"EXECUTING", "SUCCEEDED", "FAILED", "UNKNOWN"}

(* The executor's precondition tests make two approved actions against the *)
(* same version of a resource exclusive: the resource API performs at most *)
(* one of them, however many workers dispatch, and a late write of an      *)
(* abandoned call cannot slip in afterwards.                               *)
OneEffectPerVersion ==
    \A a, b \in applied :
        Target[a] = Target[b] /\ Expected[a] = Expected[b] => a = b

(* A definite record is the truth.  SUCCEEDED was applied; FAILED with a   *)
(* denied final authority check never reached the backend; and no write of *)
(* an action that is settled as SUCCEEDED or FAILED, or that was never     *)
(* claimed, is applied later.  Only EXECUTING and UNKNOWN leave it open.   *)
Reason(a) == (CHOOSE e \in audit : e.action = a /\ e.revision = record[a].revision).reason

DefiniteOutcome ==
    \A a \in Actions :
        /\ a \in inflight => phase[a] \in {"EXECUTING", "UNKNOWN"} /\ a \notin applied
        /\ phase[a] = "SUCCEEDED" => a \in applied
        /\ phase[a] = "FAILED" =>
              (IF Reason(a) = "DISPATCH_AUTHORITY_DENIED"
                 THEN dispatches[a] = 0 /\ a \notin applied
                 ELSE a \in applied)

(* When the backend is called, "a database or identity-provider delay does *)
(* not extend those deadlines": the approval is current, the cited         *)
(* evidence is not too old, and proposer, approver and executor each held  *)
(* their grant less than IdentityTTL ago, even if it was withdrawn while   *)
(* the call waited.                                                        *)
HeldRecently(s, role) == role \in grants[s] \/ now < lastHeld[s][role] + IdentityTTL

DispatchWithinAuthority ==
    [][\A w \in Workers : LET a == call[w].action IN
          dispatches'[a] > dispatches[a] /\ pc'[w] = "plan" =>
            /\ ApprovalCurrent(record[a])
            /\ now <= EvidenceAt[a] + EvidenceTTL
            /\ HeldRecently(record[a].proposer, "responder")
            /\ HeldRecently(record[a].approval.subject, "approver")
            /\ HeldRecently(call[w].subject, "executor")]_vars

(* A claim whose worker died stays EXECUTING for an operator to review: no *)
(* later call, whoever makes it, rewrites or resumes it.                   *)
OrphanStays ==
    [][\A a \in orphaned : record'[a] = record[a] /\ dispatches'[a] = dispatches[a]]_vars

(* A claim that is not orphaned reaches a terminal state: no step between  *)
(* the claim and the final transition waits for anybody else.              *)
ClaimResolves ==
    \A a \in Actions :
        phase[a] = "EXECUTING" ~>
            (phase[a] \in {"SUCCEEDED", "FAILED", "UNKNOWN"} \/ a \in orphaned)

---------------------------------------------------------------------------
(***************************************************************************)
(* Refinement: to its users an action is the small machine of              *)
(* ActionLifecycle.                                                        *)
(***************************************************************************)
Lifecycle == INSTANCE ActionLifecycle WITH phase <- phase, done <- applied

(* Every behaviour of workers, crashes, retries and late writes is one of  *)
(* the abstract life cycle.                                                *)
ImplementsLifecycle == Lifecycle!Spec
=============================================================================
