------------------------- MODULE RemediationProofs -------------------------
(***************************************************************************)
(* Proofs about Remediation, for every set of workers, actions, subjects   *)
(* and resources and every value of the time-to-live constants.            *)
(*                                                                         *)
(* The inductive invariant IInv ties the local variables of each call to   *)
(* the database and to the resource API: what a call has read, who owns an *)
(* EXECUTING row, and where the write of an action can be.                 *)
(*                                                                         *)
(* The second half rests on it: the two tables of the store are sound, a   *)
(* definite outcome is the truth, an orphaned claim is never touched again *)
(* and the backend is called only within the authority the code asked for. *)
(* It needs one more invariant of each call: what it may still rely on of  *)
(* the identities it looked up, the approval it built and the deadline it  *)
(* computed.                                                               *)
(***************************************************************************)
EXTENDS Remediation, TLAPS

ReviewPCs == {"review_identity", "review_context", "review_evaluate"}

\* Program counters at which a call has certainly read its record.
SeenPCs == {"approver", "executor", "signer", "reapprover", "stamp", "sign", "current",
            "claim"} \cup ClaimPCs

Needs(label, op) == label \in SeenPCs \/ (label \in ReviewPCs /\ op # "propose")

\* The locals of every call are well typed, and a record is used only after it was read.
CallInv ==
    /\ pc \in [Workers -> PCs]
    /\ call \in [Workers -> Call]
    /\ \A w \in Workers : Needs(pc[w], call[w].op) => call[w].seen \in ActionRecord

TInv == TypeOK /\ CallInv

(***************************************************************************)
(* Lemmas about the operators of the store and of a call.                  *)
(***************************************************************************)

(* A worker between calls has a well-typed call record. *)
LEMMA IdleType == Idle \in Call
  <1>1. (CHOOSE a \in Actions : TRUE) \in Actions /\ (CHOOSE s \in Subjects : TRUE) \in Subjects
    BY NonEmptyAssumption
  <1> QED
    BY <1>1 DEF Idle, Call, Ops, NoObservation, Roles

(* The record written by a transition is a record. *)
LEMMA AfterType ==
    ASSUME NEW r \in ActionRecord, NEW st \in States, NEW ap \in Approval \cup {Nil},
           NEW res \in Outcomes \cup {Nil}
    PROVE  /\ After(r, st, ap, res) \in ActionRecord
           /\ After(r, st, ap, res).state = st
           /\ After(r, st, ap, res).revision = r.revision + 1
           /\ After(r, st, ap, res).proposer = r.proposer
           /\ After(r, st, ap, res).approval = (IF ap = Nil THEN r.approval ELSE ap)
           /\ After(r, st, ap, res).result = res
  BY DEF After, ActionRecord

(* A transition keeps the tables well typed. *)
LEMMA TransitionType ==
    ASSUME StoreTypeOK, NEW a \in Actions, NEW r \in ActionRecord, NEW st \in States,
           NEW actor \in Subjects, NEW reason \in Reasons, NEW ap \in Approval \cup {Nil},
           NEW res \in Outcomes \cup {Nil}, Transition(a, r, st, actor, reason, ap, res)
    PROVE  StoreTypeOK'
  <1>1. After(r, st, ap, res) \in ActionRecord
    BY AfterType
  <1>2. AuditRow(a, After(r, st, ap, res), actor, reason) \in AuditEvent
    BY <1>1 DEF AuditRow, AuditEvent, ActionRecord
  <1> QED
    BY <1>1, <1>2 DEF StoreTypeOK, Transition

(* Creation keeps the tables well typed. *)
LEMMA CreateType ==
    ASSUME StoreTypeOK, NEW a \in Actions, NEW s \in Subjects, Create(a, s)
    PROVE  StoreTypeOK'
  <1>1. NewRecord(s) \in ActionRecord
    BY DEF NewRecord, ActionRecord, States
  <1>2. AuditRow(a, NewRecord(s), s, "POLICY_REVIEWED") \in AuditEvent
    BY <1>1 DEF AuditRow, AuditEvent, ActionRecord, Reasons
  <1> QED
    BY <1>1, <1>2 DEF StoreTypeOK, Create, storeVars

(* The policy deadline is a time. *)
LEMMA DeadlineType ==
    ASSUME NEW c \in Call
    PROVE  PolicyDeadline(c) \in Nat
  <1> DEFINE x == c.observed.at + ResourceTTL
             y == EvidenceAt[c.action] + EvidenceTTL
  <1>1. x \in Nat /\ y \in Nat
    BY RemediationAssumption DEF Call
  <1>2. \E m \in {x, y} : \A n \in {x, y} : m =< n
    BY <1>1
  <1> QED
    BY <1>1, <1>2 DEF PolicyDeadline, Min

(* A step that moves one call to a label, with well-typed locals. *)
LEMMA ProceedType ==
    ASSUME CallInv, NEW w \in Workers, NEW label \in PCs, NEW c \in Call,
           Proceed(w, label, c), Needs(label, c.op) => c.seen \in ActionRecord
    PROVE  CallInv'
  BY DEF Proceed, CallInv

(* A step that only moves a call to a label. *)
LEMMA GotoType ==
    ASSUME CallInv, NEW w \in Workers, NEW label \in PCs, Goto(w, label),
           Needs(label, call[w].op) => call[w].seen \in ActionRecord
    PROVE  CallInv'
  BY DEF Goto, CallInv

(* A step that ends a call. *)
LEMMA ReturnType ==
    ASSUME CallInv, NEW w \in Workers, Return(w)
    PROVE  CallInv'
  <1>1. "idle" \in PCs /\ ~Needs("idle", Idle.op)
    BY DEF PCs, Needs, SeenPCs, ReviewPCs, ClaimPCs, Refreshing, InBackend, Settling
  <1> QED
    BY <1>1, IdleType, ProceedType DEF Return

(* The labels a call can reach, and which of them need a record. *)
LEMMA Labels ==
    /\ {"idle", "get", "create"} \cup SeenPCs \cup ReviewPCs = PCs
    /\ {"idle", "get", "create"} \cap (SeenPCs \cup ReviewPCs) = {}
    /\ SeenPCs \cap ReviewPCs = {}
    /\ ClaimPCs \subseteq SeenPCs
  BY DEF PCs, Reviewing, SeenPCs, ReviewPCs, ClaimPCs, Refreshing, InBackend, Settling

(* An identity lookup: it succeeds and moves on, or ends the call. *)
LEMMA IdentityType ==
    ASSUME CallInv, now \in Nat, NEW w \in Workers, NEW s, NEW role \in Roles,
           NEW label \in PCs, Identity(w, s, role, label),
           Needs(label, call[w].op) => call[w].seen \in ActionRecord
    PROVE  CallInv'
  <1>1. CASE Return(w)
    BY <1>1, ReturnType
  <1>2. CASE Proceed(w, label, [call[w] EXCEPT !.verified = [@ EXCEPT ![role] = now]])
    <2> DEFINE c == [call[w] EXCEPT !.verified = [@ EXCEPT ![role] = now]]
    <2>1. call[w] \in Call
      BY DEF CallInv
    <2>2. c \in Call /\ c.op = call[w].op /\ c.seen = call[w].seen
      BY <2>1 DEF Call
    <2> QED
      BY <1>2, <2>2, ProceedType
  <1> QED
    BY <1>1, <1>2 DEF Identity

(* Each step of a call keeps the calls well typed.  The facts used are the *)
(* label the step starts from and the label it goes to.                    *)
LEMMA StepCallInv ==
    ASSUME TInv, NEW w \in Workers, Step(w)
    PROVE  CallInv'
  <1> DEFINE c == call[w]
  <1>0. CallInv /\ now \in Nat /\ StoreTypeOK /\ version \in [Resources -> Nat]
    BY DEF TInv, TypeOK
  <1>c. c \in Call /\ (Needs(pc[w], c.op) => c.seen \in ActionRecord)
    BY <1>0 DEF CallInv
  <1>s. pc[w] \in SeenPCs => c.seen \in ActionRecord
    BY <1>c DEF Needs
  <1>g. \A label \in SeenPCs : pc[w] \in SeenPCs /\ Goto(w, label) => CallInv'
    BY <1>0, <1>s, GotoType, Labels
  <1>r. Return(w) => CallInv'
    BY <1>0, ReturnType
  <1>n. \A label \in PCs : label \notin SeenPCs \cup ReviewPCs => ~Needs(label, c.op)
    BY DEF Needs
  <1> HIDE DEF c
  <1>1. CASE ReviewIdentity(w)
    <2>1. pc[w] \in ReviewPCs /\ "review_context" \in ReviewPCs
      BY <1>1 DEF ReviewIdentity, ReviewPCs
    <2>2. Needs("review_context", c.op) => c.seen \in ActionRecord
      BY <2>1, <1>c, Labels DEF Needs
    <2> QED
      BY <1>0, <1>1, <2>1, <2>2, IdentityType, Labels DEF ReviewIdentity, Roles, c
  <1>2. CASE ReviewContext(w)
    <2> DEFINE d == [c EXCEPT !.observed = [version |-> version[Target[c.action]], at |-> now]]
    <2>1. d \in Call /\ d.op = c.op /\ d.seen = c.seen
      BY <1>0, <1>c, RemediationAssumption DEF Call
    <2>2. Needs("review_evaluate", c.op) => c.seen \in ActionRecord
      BY <1>2, <1>c, Labels DEF Needs, ReviewContext, ReviewPCs
    <2>3. Proceed(w, "review_evaluate", d) /\ "review_evaluate" \in PCs
      BY <1>2, Labels DEF ReviewContext, c, ReviewPCs
    <2> QED
      BY <1>0, <2>1, <2>2, <2>3, ProceedType
  <1>3. CASE ReviewEvaluate(w)
    <2> DEFINE d == [c EXCEPT !.deadline = PolicyDeadline(c), !.observed = NoObservation]
    <2>1. CASE Proceed(w, AfterReview(c.op), d)
      <3>1. PolicyDeadline(c) \in Nat
        BY <1>c, DeadlineType
      <3>2. d \in Call /\ d.op = c.op /\ d.seen = c.seen
        BY <1>c, <3>1 DEF Call, NoObservation
      <3>3. AfterReview(c.op) \in PCs /\ (c.op = "propose" => AfterReview(c.op) = "create")
        BY <1>c, Labels DEF Call, Ops, AfterReview, SeenPCs
      <3>4. Needs(AfterReview(c.op), c.op) => c.seen \in ActionRecord
        BY <1>3, <1>c, <3>3, Labels DEF Needs, ReviewEvaluate, ReviewPCs
      <3> QED
        BY <1>0, <2>1, <3>2, <3>3, <3>4, ProceedType
    <2> QED
      BY <1>3, <1>r, <2>1 DEF ReviewEvaluate, c
  <1>4. CASE ProposeCreate(w)
    BY <1>4, <1>r DEF ProposeCreate
  <1>5. CASE Get(w)
    <2> DEFINE d == [c EXCEPT !.seen = record[c.action]]
               label == IF c.op = "approve" THEN "approver" ELSE "executor"
    <2>1. CASE Exists(c.action) /\ Proceed(w, label, d)
      <3>1. record[c.action] \in ActionRecord
        BY <1>0, <1>c, <2>1 DEF StoreTypeOK, Exists, Call
      <3>2. d \in Call /\ d.seen = record[c.action]
        BY <1>c, <3>1 DEF Call
      <3>3. label \in PCs
        BY Labels DEF SeenPCs
      <3> QED
        BY <1>0, <2>1, <3>1, <3>2, <3>3, ProceedType
    <2> QED
      BY <1>5, <1>r, <2>1 DEF Get, c
  <1>6. CASE ApproveIdentity(w)
    <2>1. pc[w] \in SeenPCs /\ "review_identity" \in PCs
      BY <1>6, Labels DEF ApproveIdentity, SeenPCs, ReviewPCs
    <2> QED
      BY <1>0, <1>6, <1>r, <1>s, <2>1, IdentityType DEF ApproveIdentity, Roles, c
  <1>7. CASE ApproveReidentify(w)
    <2>1. pc[w] \in SeenPCs /\ "stamp" \in PCs
      BY <1>7, Labels DEF ApproveReidentify, SeenPCs
    <2> QED
      BY <1>0, <1>7, <1>s, <2>1, IdentityType DEF ApproveReidentify, Roles, c
  <1>8. CASE ApproveStamp(w)
    <2> DEFINE ap == [subject |-> c.subject, approved_at |-> now,
                      expires_at |-> now + ApprovalTTL]
               d == [c EXCEPT !.approval = ap]
    <2>1. CASE Proceed(w, "sign", d)
      <3>1. ap \in Approval
        BY <1>0, <1>c, ApprovalTTLAssumption DEF Approval, Call
      <3>2. d \in Call /\ d.seen = c.seen
        BY <1>c, <3>1 DEF Call
      <3>3. pc[w] \in SeenPCs /\ "sign" \in PCs
        BY <1>8, Labels DEF ApproveStamp, SeenPCs
      <3> QED
        BY <1>0, <1>s, <2>1, <3>2, <3>3, ProceedType
    <2> QED
      BY <1>8, <1>r, <2>1 DEF ApproveStamp, c
  <1>9. CASE ApproveCommit(w)
    BY <1>9, <1>r DEF ApproveCommit
  <1>10. CASE ExecuteIdentity(w)
    <2>1. pc[w] \in SeenPCs /\ "signer" \in PCs
      BY <1>10, Labels DEF ExecuteIdentity, SeenPCs
    <2> QED
      BY <1>0, <1>10, <1>r, <1>s, <2>1, IdentityType DEF ExecuteIdentity, Roles, c
  <1>11. CASE ExecuteSigner(w)
    <2>1. pc[w] \in SeenPCs /\ "review_identity" \in PCs
      BY <1>11, Labels DEF ExecuteSigner, SeenPCs, ReviewPCs
    <2> QED
      BY <1>0, <1>11, <1>s, <2>1, IdentityType DEF ExecuteSigner, Roles, c
  <1>12. CASE ExecuteCurrent(w)
    <2>1. pc[w] \in SeenPCs /\ "claim" \in SeenPCs
      BY <1>12 DEF ExecuteCurrent, SeenPCs
    <2> QED
      BY <1>12, <1>r, <1>g, <2>1 DEF ExecuteCurrent
  <1>13. CASE ExecuteClaim(w)
    <2> DEFINE after == After(c.seen, "EXECUTING", Nil, Nil)
               d == [c EXCEPT !.seen = after]
    <2>1. CASE Proceed(w, "id_executor", d)
      <3>1. after \in ActionRecord
        BY <1>13, <1>s, AfterType DEF ExecuteClaim, SeenPCs, States
      <3>2. d \in Call /\ d.seen = after
        BY <1>c, <3>1 DEF Call
      <3>3. "id_executor" \in PCs
        BY Labels DEF ClaimPCs, Refreshing
      <3> QED
        BY <1>0, <2>1, <3>1, <3>2, <3>3, ProceedType
    <2> QED
      BY <1>13, <1>r, <2>1 DEF ExecuteClaim, c
  <1>14. CASE RefreshIdentities(w)
    <2>1. ASSUME NEW label \in SeenPCs, NEW s, NEW role \in Roles, NEW next \in SeenPCs,
                 Refresh(w, label, s, role, next)
          PROVE  CallInv'
      <3> DEFINE d == [c EXCEPT !.verified = [@ EXCEPT ![role] = now]]
      <3>1. CASE Proceed(w, next, d)
        <4>1. d \in Call /\ d.op = c.op /\ d.seen = c.seen
          BY <1>0, <1>c DEF Call
        <4> QED
          BY <1>0, <1>s, <2>1, <3>1, <4>1, ProceedType, Labels DEF Refresh
      <3>2. "denied" \in SeenPCs
        BY Labels DEF ClaimPCs, Settling
      <3> QED
        BY <1>g, <2>1, <3>1, <3>2 DEF Refresh, c
    <2>2. {"id_executor", "id_approver", "id_proposer", "authorize"} \subseteq SeenPCs
      BY Labels DEF ClaimPCs, Refreshing
    <2> QED
      BY <1>14, <2>1, <2>2 DEF RefreshIdentities, Roles
  <1>15. CASE Authorize(w) \/ Plan(w) \/ Await(w) \/ Rollout(w) \/ Patch(w)
    <2>1. {"authorize", "plan", "patch", "await", "rollout", "denied", "unknown", "succeeded",
           "failed"} \subseteq SeenPCs
      BY Labels DEF ClaimPCs, Refreshing, InBackend, Settling
    <2> QED
      BY <1>15, <1>g, <2>1 DEF Authorize, Plan, Await, Rollout, Patch
  <1>16. CASE DispatchSettle(w)
    BY <1>16, <1>r DEF DispatchSettle, Settle
  <1> QED
    BY <1>1, <1>2, <1>3, <1>4, <1>5, <1>6, <1>7, <1>8, <1>9, <1>10, <1>11, <1>12, <1>13,
       <1>14, <1>15, <1>16 DEF Step

(* Each step of a call keeps the tables, histories and resources typed. *)
LEMMA StepTypes ==
    ASSUME TInv, NEW w \in Workers, Step(w)
    PROVE  /\ StoreTypeOK'
           /\ UNCHANGED <<now, grants, lastHeld, version, spec, applied, orphaned>>
           /\ inflight' \subseteq Actions
           /\ dispatches' \in [Actions -> Nat]
  <1> DEFINE c == call[w]
  <1>0. StoreTypeOK /\ inflight \subseteq Actions /\ dispatches \in [Actions -> Nat]
    BY DEF TInv, TypeOK
  <1>c. c \in Call /\ (pc[w] \in SeenPCs => c.seen \in ActionRecord)
    BY DEF TInv, CallInv, Needs
  <1>a. c.action \in Actions /\ c.subject \in Subjects /\ c.approval \in Approval \cup {Nil}
    BY <1>c DEF Call
  <1>u. UNCHANGED storeVars => StoreTypeOK'
    BY <1>0 DEF storeVars, StoreTypeOK
  <1> HIDE DEF c
  <1> USE DEF envVars, resourceVars, historyVars
  <1>1. CASE \/ ReviewIdentity(w) \/ ReviewContext(w) \/ ReviewEvaluate(w) \/ Get(w)
             \/ ApproveIdentity(w) \/ ApproveReidentify(w) \/ ApproveStamp(w)
             \/ ExecuteIdentity(w) \/ ExecuteSigner(w) \/ ExecuteCurrent(w)
             \/ RefreshIdentities(w) \/ Plan(w) \/ Await(w) \/ Rollout(w)
    <2>1. UNCHANGED <<storeVars, envVars, resourceVars, historyVars>>
      BY <1>1 DEF ReviewIdentity, ReviewContext, ReviewEvaluate, Get, ApproveIdentity,
                  ApproveReidentify, ApproveStamp, ExecuteIdentity, ExecuteSigner,
                  ExecuteCurrent, RefreshIdentities, Plan, Await, Rollout, Identity, Refresh
    <2> QED
      BY <1>0, <1>u, <2>1
  <1>2. CASE ProposeCreate(w)
    BY <1>0, <1>a, <1>2, CreateType DEF ProposeCreate, c
  <1>3. CASE ApproveCommit(w)
    <2>1. c.seen \in ActionRecord
      BY <1>3, <1>c DEF ApproveCommit, SeenPCs
    <2>2. StoreTypeOK'
      BY <1>0, <1>a, <1>u, <1>3, <2>1, TransitionType DEF ApproveCommit, c, States, Reasons
    <2> QED
      BY <1>0, <1>3, <2>2 DEF ApproveCommit
  <1>4. CASE ExecuteClaim(w)
    <2>1. c.seen \in ActionRecord
      BY <1>4, <1>c DEF ExecuteClaim, SeenPCs
    <2>2. StoreTypeOK'
      BY <1>0, <1>a, <1>u, <1>4, <2>1, TransitionType DEF ExecuteClaim, c, States, Reasons
    <2> QED
      BY <1>0, <1>4, <2>2 DEF ExecuteClaim
  <1>5. CASE Authorize(w)
    BY <1>0, <1>a, <1>u, <1>5 DEF Authorize, c
  <1>6. CASE Patch(w)
    BY <1>0, <1>a, <1>u, <1>6 DEF Patch, c
  <1>7. CASE DispatchSettle(w)
    <2>1. ASSUME NEW label \in Settling, NEW st \in States, NEW reason \in Reasons,
                 NEW res \in Outcomes \cup {Nil}, Settle(w, label, st, reason, res)
          PROVE  StoreTypeOK' /\ UNCHANGED <<envVars, resourceVars, historyVars>>
      <3>1. c.seen \in ActionRecord
        BY <1>c, <2>1, Labels DEF Settle, ClaimPCs
      <3> QED
        BY <1>0, <1>a, <1>u, <2>1, <3>1, TransitionType DEF Settle, c
    <2> QED
      BY <1>0, <1>7, <2>1 DEF DispatchSettle, Settling, States, Reasons, Outcomes
  <1> QED
    BY <1>1, <1>2, <1>3, <1>4, <1>5, <1>6, <1>7 DEF Step

(* The initial state is well typed and every worker is idle. *)
LEMMA TypeInit == Init => TInv
  <1> SUFFICES ASSUME Init PROVE TInv
    OBVIOUS
  <1>1. \A w \in Workers : pc[w] = "idle" /\ call[w] = Idle
    BY DEF Init
  <1>2. CallInv
    BY <1>1, IdleType, Labels DEF Init, CallInv, Needs
  <1>3. TypeOK
    BY <1>2, RemediationAssumption DEF Init, StoreInit, StoreTypeOK, TypeOK, CallInv
  <1> QED
    BY <1>2, <1>3 DEF TInv

(* Every step, of a worker or of the environment, keeps the types. *)
LEMMA TypeNext == TInv /\ [Next]_vars => TInv'
  <1> SUFFICES ASSUME TInv, [Next]_vars PROVE TInv'
    OBVIOUS
  <1>0. TypeOK /\ CallInv /\ StoreTypeOK
    BY DEF TInv, TypeOK
  <1>k. UNCHANGED <<pc, call>> => CallInv'
    BY <1>0 DEF CallInv
  <1>u. UNCHANGED storeVars => StoreTypeOK'
    BY <1>0 DEF storeVars, StoreTypeOK
  <1> USE DEF envVars, resourceVars, historyVars
  <1>1. ASSUME NEW w \in Workers, Step(w) PROVE TInv'
    BY <1>0, <1>1, StepCallInv, StepTypes DEF TInv, TypeOK, CallInv
  <1>2. ASSUME NEW w \in Workers, Begin(w) PROVE TInv'
    <2>1. PICK op \in Ops, a \in Actions, s \in Subjects :
            Proceed(w, IF op = "propose" THEN "review_identity" ELSE "get",
                    [Idle EXCEPT !.op = op, !.action = a, !.subject = s])
      BY <1>2 DEF Begin
    <2> DEFINE d == [Idle EXCEPT !.op = op, !.action = a, !.subject = s]
               label == IF op = "propose" THEN "review_identity" ELSE "get"
    <2>2. d \in Call /\ d.op = op
      BY IdleType DEF Call
    <2>3. label \in PCs /\ ~Needs(label, op)
      BY Labels DEF Needs, ReviewPCs
    <2>4. CallInv'
      BY <1>0, <2>1, <2>2, <2>3, ProceedType
    <2> QED
      BY <1>0, <1>2, <1>u, <2>4 DEF Begin, TInv, TypeOK, CallInv
  <1>3. ASSUME NEW w \in Workers, Crash(w) PROVE TInv'
    <2>1. CallInv'
      BY <1>0, <1>3, ReturnType DEF Crash
    <2>2. orphaned' \subseteq Actions
      BY <1>0, <1>3 DEF Crash, TypeOK, Call
    <2> QED
      BY <1>0, <1>3, <1>u, <2>1, <2>2 DEF Crash, TInv, TypeOK, CallInv
  <1>4. ASSUME NEW a \in Actions, ServeWrite(a) PROVE TInv'
    <2>1. Target[a] \in Resources
      BY RemediationAssumption
    <2>2. /\ version' \in [Resources -> Nat] /\ spec' \in [Resources -> Actions \cup {Nil}]
          /\ inflight' \subseteq Actions /\ applied' \subseteq Actions
      BY <1>0, <1>4, <2>1 DEF ServeWrite, TypeOK
    <2> QED
      BY <1>0, <1>4, <1>u, <1>k, <2>2 DEF ServeWrite, TInv, TypeOK
  <1>5. ASSUME NEW a \in Actions, LoseWrite(a) PROVE TInv'
    BY <1>0, <1>5, <1>u, <1>k DEF LoseWrite, TInv, TypeOK
  <1>6. ASSUME NEW s \in Subjects, NEW role \in Roles, Revoke(s, role) PROVE TInv'
    <2>1. lastHeld' \in [Subjects -> [Roles -> Nat]] /\ grants' \in [Subjects -> SUBSET Roles]
      BY <1>0, <1>6 DEF Revoke, TypeOK
    <2> QED
      BY <1>0, <1>6, <1>u, <1>k, <2>1 DEF Revoke, TInv, TypeOK
  <1>7. ASSUME NEW r \in Resources, ExternalWrite(r) PROVE TInv'
    <2>1. version' \in [Resources -> Nat] /\ spec' \in [Resources -> Actions \cup {Nil}]
      BY <1>0, <1>7 DEF ExternalWrite, TypeOK
    <2> QED
      BY <1>0, <1>7, <1>u, <1>k, <2>1 DEF ExternalWrite, TInv, TypeOK
  <1>8. CASE Tick
    BY <1>0, <1>8, <1>u, <1>k DEF Tick, TInv, TypeOK
  <1>9. CASE UNCHANGED vars
    BY <1>0, <1>9, <1>u, <1>k DEF vars, TInv, TypeOK
  <1> QED
    BY <1>1, <1>2, <1>3, <1>4, <1>5, <1>6, <1>7, <1>8, <1>9 DEF Next

(* Every reachable state of the remediation subsystem is well typed, and   *)
(* no step of a broker call uses a record it has not read.                 *)
THEOREM TypeCorrect == Spec => []TypeOK
  <1>1. TInv => TypeOK
    BY DEF TInv
  <1> QED
    BY <1>1, TypeInit, TypeNext, PTL DEF Spec

---------------------------------------------------------------------------
(***************************************************************************)
(* Ownership of a claim, and where the write of an action can be.          *)
(***************************************************************************)

\* An EXECUTING row has at most one live owner, whose copy is the stored row.
ClaimInv ==
    \A w \in Workers : pc[w] \in ClaimPCs =>
        /\ record[call[w].action] = call[w].seen
        /\ call[w].seen.state = "EXECUTING"
        /\ \A v \in Workers \ {w} : pc[v] \in ClaimPCs => call[v].action # call[w].action

\* Labels before the backend is called, and before its write is sent.
Undispatched == Refreshing \cup {"denied"}
Unsent == Undispatched \cup {"plan", "patch"}
Landed == {"rollout", "succeeded", "failed"}

Unclaimed == {"ABSENT", "PROPOSED", "APPROVED"}

DispatchInv ==
    /\ \A a \in Actions :
          /\ dispatches[a] \in {0, 1}
          /\ phase[a] \in Unclaimed => dispatches[a] = 0
    /\ \A w \in Workers : pc[w] \in Undispatched => dispatches[call[w].action] = 0

\* What the phase of an action tells about its write.
WriteAt ==
    \A a \in Actions :
          /\ a \in inflight => phase[a] \in {"EXECUTING", "UNKNOWN"} /\ a \notin applied
          /\ a \in applied => phase[a] \notin Unclaimed
          /\ a \in applied => version[Target[a]] > Expected[a]
          /\ phase[a] = "SUCCEEDED" => a \in applied

WriteInv ==
    /\ \A w \in Workers :
          /\ pc[w] \in Unsent => call[w].action \notin inflight \cup applied
          /\ pc[w] \in Landed => call[w].action \in applied
    /\ WriteAt
    /\ OneEffectPerVersion

IInv == TInv /\ ClaimInv /\ DispatchInv /\ WriteInv

Others(w) == \A v \in Workers \ {w} : pc'[v] = pc[v] /\ call'[v] = call[v]

\* What a step of w does that touches nothing but w's own call.
LocalStep(w) ==
    /\ UNCHANGED <<record, version, inflight, applied, dispatches>>
    /\ Others(w)
    /\ pc'[w] \in ClaimPCs =>
          /\ pc[w] \in ClaimPCs
          /\ call'[w].action = call[w].action /\ call'[w].seen = call[w].seen
    /\ pc'[w] \in Undispatched => pc[w] \in Undispatched
    /\ pc'[w] \in Unsent => pc[w] \in Unsent
    /\ pc'[w] \in Landed => call[w].action \in applied

(* Moving a call leaves the other calls alone. *)
LEMMA MoveFrame ==
    ASSUME CallInv, NEW w \in Workers, NEW label, NEW c,
           Proceed(w, label, c) \/ (Goto(w, label) /\ c = call[w])
    PROVE  Others(w) /\ pc'[w] = label /\ call'[w] = c
  BY DEF Proceed, Goto, Others, CallInv

(* Ending a call is local. *)
LEMMA ReturnLocal ==
    ASSUME CallInv, NEW w \in Workers, Return(w),
           UNCHANGED <<record, version, inflight, applied, dispatches>>
    PROVE  LocalStep(w)
  <1>1. Others(w) /\ pc'[w] = "idle"
    BY MoveFrame DEF Return
  <1> QED
    BY <1>1 DEF LocalStep, ClaimPCs, Undispatched, Unsent, Landed, Refreshing, InBackend, Settling

(* Going to a label before the claim is local. *)
LEMMA ReviewLocal ==
    ASSUME CallInv, NEW w \in Workers, NEW label, label \notin ClaimPCs, NEW c,
           Proceed(w, label, c) \/ (Goto(w, label) /\ c = call[w]),
           UNCHANGED <<record, version, inflight, applied, dispatches>>
    PROVE  LocalStep(w)
  <1>1. Others(w) /\ pc'[w] = label
    BY MoveFrame
  <1>2. Undispatched \cup Unsent \cup Landed \subseteq ClaimPCs
    BY DEF ClaimPCs, Undispatched, Unsent, Landed, Refreshing, InBackend, Settling
  <1> QED
    BY <1>1, <1>2 DEF LocalStep

(* Every step of a call except those that write the database, call the     *)
(* backend or send the write is local.                                     *)
LEMMA StepLocal ==
    ASSUME TInv, WriteInv, NEW w \in Workers, Step(w)
    PROVE  \/ LocalStep(w)
           \/ ProposeCreate(w) \/ ApproveCommit(w) \/ ExecuteClaim(w)
           \/ Authorize(w) \/ Patch(w) \/ DispatchSettle(w)
  <1>0. CallInv
    BY DEF TInv
  <1>p. {"review_identity", "review_context", "review_evaluate", "create", "reapprover",
         "current", "approver", "executor", "signer", "stamp", "sign", "claim"}
          \cap ClaimPCs = {}
    BY DEF ClaimPCs, Refreshing, InBackend, Settling
  <1>u. UNCHANGED <<storeVars, envVars, resourceVars, historyVars>> =>
          UNCHANGED <<record, version, inflight, applied, dispatches>>
    BY DEF storeVars, envVars, resourceVars, historyVars
  <1>i. \A s, role, label : label \notin ClaimPCs /\ Identity(w, s, role, label) => LocalStep(w)
    BY <1>0, <1>u, ReturnLocal, ReviewLocal DEF Identity
  <1>1. CASE ReviewIdentity(w) \/ ApproveIdentity(w) \/ ApproveReidentify(w)
             \/ ExecuteIdentity(w) \/ ExecuteSigner(w)
    BY <1>0, <1>1, <1>i, <1>p, <1>u, ReturnLocal
       DEF ReviewIdentity, ApproveIdentity, ApproveReidentify, ExecuteIdentity, ExecuteSigner
  <1>2. CASE ReviewContext(w) \/ ApproveStamp(w) \/ ExecuteCurrent(w)
    BY <1>0, <1>2, <1>p, <1>u, ReturnLocal, ReviewLocal
       DEF ReviewContext, ApproveStamp, ExecuteCurrent
  <1>3. CASE ReviewEvaluate(w)
    <2>1. AfterReview(call[w].op) \notin ClaimPCs
      BY <1>0, <1>p DEF AfterReview, CallInv, Call, Ops
    <2> QED
      BY <1>0, <1>3, <1>u, <2>1, ReturnLocal, ReviewLocal DEF ReviewEvaluate
  <1>4. CASE Get(w)
    BY <1>0, <1>4, <1>p, <1>u, ReturnLocal, ReviewLocal DEF Get
  <1>5. CASE RefreshIdentities(w)
    <2>1. ASSUME NEW label \in Refreshing, NEW s, NEW role \in Roles, NEW next \in Refreshing,
                 Refresh(w, label, s, role, next)
          PROVE  LocalStep(w)
      <3> DEFINE d == [call[w] EXCEPT !.verified = [@ EXCEPT ![role] = now]]
      <3>1. d.action = call[w].action /\ d.seen = call[w].seen
        BY <1>0 DEF CallInv, Call
      <3>2. PICK l \in Refreshing \cup {"denied"}, e \in {d, call[w]} :
              Others(w) /\ pc'[w] = l /\ call'[w] = e
        <4>1. CASE Proceed(w, next, d)
          BY <1>0, <4>1, MoveFrame
        <4>2. CASE Goto(w, "denied")
          BY <1>0, <4>2, MoveFrame
        <4> QED
          BY <2>1, <4>1, <4>2 DEF Refresh
      <3>3. pc[w] \in Refreshing /\ UNCHANGED <<record, version, inflight, applied, dispatches>>
        BY <1>u, <2>1 DEF Refresh
      <3> QED
        BY <3>1, <3>2, <3>3 DEF LocalStep, ClaimPCs, Undispatched, Unsent, Landed, Refreshing,
                                InBackend, Settling
    <2> QED
      BY <1>5, <2>1 DEF RefreshIdentities, Refreshing, Roles
  <1>6. CASE Plan(w)
    <2>1. Others(w) /\ pc'[w] \in {"patch", "unknown"} /\ call'[w] = call[w] /\ pc[w] = "plan"
      BY <1>0, <1>6, MoveFrame DEF Plan
    <2> QED
      BY <1>6, <1>u, <2>1 DEF Plan, LocalStep, ClaimPCs, Undispatched, Unsent, Landed,
                              Refreshing, InBackend, Settling
  <1>7. CASE Await(w)
    <2>1. /\ Others(w) /\ call'[w] = call[w] /\ pc[w] = "await"
          /\ \/ pc'[w] = "unknown"
             \/ pc'[w] \in {"succeeded", "rollout"} /\ call[w].action \in applied
      BY <1>0, <1>7, MoveFrame DEF Await
    <2> QED
      BY <1>7, <1>u, <2>1 DEF Await, LocalStep, ClaimPCs, Undispatched, Unsent, Landed,
                              Refreshing, InBackend, Settling
  <1>8. CASE Rollout(w)
    <2>1. /\ Others(w) /\ call'[w] = call[w] /\ pc[w] = "rollout"
          /\ pc'[w] \in {"unknown", "succeeded", "failed"}
      BY <1>0, <1>8, MoveFrame DEF Rollout
    <2>2. call[w].action \in applied
      BY <2>1 DEF WriteInv, WriteAt, Landed
    <2> QED
      BY <1>8, <1>u, <2>1, <2>2 DEF Rollout, LocalStep, ClaimPCs, Undispatched, Unsent, Landed,
                                    Refreshing, InBackend, Settling
  <1> QED
    BY <1>1, <1>2, <1>3, <1>4, <1>5, <1>6, <1>7, <1>8 DEF Step

(* A local step keeps the invariant's parts about claims and writes. *)
LEMMA LocalSafe ==
    ASSUME IInv, NEW w \in Workers, LocalStep(w)
    PROVE  ClaimInv' /\ DispatchInv' /\ WriteInv'
  <1>0. Undispatched \cup Unsent \cup Landed \subseteq ClaimPCs
    BY DEF ClaimPCs, Undispatched, Unsent, Landed, Refreshing, InBackend, Settling
  <1>1. phase' = phase
    BY DEF LocalStep, phase, Exists
  <1>2. ClaimInv'
    BY DEF IInv, ClaimInv, LocalStep, Others
  <1>3. DispatchInv'
    BY <1>0, <1>1 DEF IInv, DispatchInv, LocalStep, Others
  <1>4. WriteInv'
    BY <1>0, <1>1 DEF IInv, WriteInv, WriteAt, LocalStep, Others, OneEffectPerVersion
  <1> QED
    BY <1>2, <1>3, <1>4

(* The transition table admits one predecessor for each target state. *)
LEMMA Predecessors ==
    ASSUME NEW s \in States, NEW t \in TRANSITIONS[s]
    PROVE  /\ t = "APPROVED" => s = "PROPOSED"
           /\ t = "EXECUTING" => s = "APPROVED"
           /\ t \in {"SUCCEEDED", "FAILED", "UNKNOWN"} => s = "EXECUTING"
           /\ t # "PROPOSED"
  BY DEF TRANSITIONS, States

(* A transition changes the phase of its action and of no other. *)
LEMMA TransitionPhase ==
    ASSUME StoreTypeOK, NEW a \in Actions, NEW r \in ActionRecord, NEW st \in States,
           NEW actor \in Subjects, NEW reason \in Reasons, NEW ap \in Approval \cup {Nil},
           NEW res \in Outcomes \cup {Nil}, CanTransition(a, r, st),
           Transition(a, r, st, actor, reason, ap, res)
    PROVE  /\ record'[a] = After(r, st, ap, res) /\ record'[a].state = st
           /\ \A b \in Actions \ {a} : record'[b] = record[b] /\ phase'[b] = phase[b]
           /\ phase'[a] = st /\ phase[a] = r.state
           /\ st \in TRANSITIONS[phase[a]]
  <1>1. After(r, st, ap, res) \in ActionRecord /\ After(r, st, ap, res).state = st
    BY AfterType
  <1>2. record'[a] = After(r, st, ap, res) /\ \A b \in Actions \ {a} : record'[b] = record[b]
    BY DEF Transition, StoreTypeOK
  <1>3. record[a] = r /\ r # Nil /\ record'[a] # Nil
    BY <1>1, <1>2, NilAssumption DEF CanTransition
  <1> QED
    BY <1>1, <1>2, <1>3 DEF phase, Exists, CanTransition

(* Committing the claim makes its worker the only owner. *)
LEMMA ClaimSafe ==
    ASSUME IInv, NEW w \in Workers, ExecuteClaim(w)
    PROVE  ClaimInv' /\ DispatchInv' /\ WriteInv'
  <1> DEFINE c == call[w]
             a == call[w].action
             after == After(c.seen, "EXECUTING", Nil, Nil)
             d == [c EXCEPT !.seen = after]
  <1>0. /\ CallInv /\ StoreTypeOK /\ c \in Call /\ a \in Actions /\ c.subject \in Subjects
        /\ pc[w] = "claim" /\ c.seen \in ActionRecord
    BY DEF IInv, TInv, TypeOK, CallInv, Call, Needs, SeenPCs, ExecuteClaim
  <1>u. UNCHANGED <<version, inflight, applied, dispatches>>
    BY DEF ExecuteClaim, resourceVars, historyVars
  <1>1. CASE ~CanTransition(a, c.seen, "EXECUTING")
    BY <1>0, <1>u, <1>1, ReturnLocal, LocalSafe DEF ExecuteClaim, storeVars
  <1>2. CASE CanTransition(a, c.seen, "EXECUTING")
    <2>1. /\ Transition(a, c.seen, "EXECUTING", c.subject, "DISPATCH", Nil, Nil)
          /\ Proceed(w, "id_executor", d)
      BY <1>2 DEF ExecuteClaim
    <2>2. after \in ActionRecord /\ after.state = "EXECUTING"
      BY <1>0, AfterType DEF States
    <2>3. d.action = a /\ d.seen = after
      BY <1>0, <2>2 DEF Call
    <2>4. /\ record'[a] = after
          /\ \A b \in Actions \ {a} : record'[b] = record[b] /\ phase'[b] = phase[b]
          /\ phase'[a] = "EXECUTING" /\ phase[a] = c.seen.state
      <3>1. /\ "EXECUTING" \in States /\ "DISPATCH" \in Reasons
            /\ Nil \in Approval \cup {Nil} /\ Nil \in Outcomes \cup {Nil}
        BY DEF States, Reasons
      <3>2. after = After(c.seen, "EXECUTING", Nil, Nil)
        OBVIOUS
      <3> HIDE DEF c, a, after, d
      <3> QED
        BY <1>0, <1>2, <2>1, <3>1, <3>2, TransitionPhase, ZenonT(60)
    <2>5. phase[a] = "APPROVED" /\ record[a] = c.seen
      BY <1>0, <1>2, <2>4, Predecessors DEF ActionRecord, CanTransition
    <2>6. Others(w) /\ pc'[w] = "id_executor" /\ call'[w].action = a /\ call'[w].seen = after
      <3> HIDE DEF d, after
      <3> QED
        BY <1>0, <2>1, <2>3, MoveFrame
    <2>7. ASSUME NEW v \in Workers, pc[v] \in ClaimPCs
          PROVE  call[v].action # a /\ call[v].action \in Actions
      <3>1. record[call[v].action].state = "EXECUTING"
        BY <2>7 DEF IInv, ClaimInv
      <3>2. record[a].state = "APPROVED" /\ call[v] \in Call
        BY <1>0, <2>4, <2>5 DEF CallInv
      <3> QED
        BY <3>1, <3>2 DEF Call
    <2>8. dispatches[a] = 0 /\ a \notin inflight /\ a \notin applied
      BY <1>0, <2>5 DEF IInv, DispatchInv, WriteInv, WriteAt, Unclaimed
    <2>9. /\ Undispatched \cup Unsent \cup Landed \subseteq ClaimPCs
          /\ "id_executor" \in Undispatched /\ "id_executor" \in Unsent /\ "id_executor" \notin Landed
      BY DEF ClaimPCs, Undispatched, Unsent, Landed, Refreshing, InBackend, Settling
    <2>10. ClaimInv'
      BY <2>2, <2>4, <2>6, <2>7 DEF IInv, ClaimInv, Others
    <2>11. DispatchInv'
      BY <1>u, <2>4, <2>6, <2>8, <2>9 DEF IInv, DispatchInv, Others, Unclaimed
    <2>12. WriteInv'
      BY <1>u, <2>4, <2>6, <2>8, <2>9 DEF IInv, WriteInv, WriteAt, Others, OneEffectPerVersion, Unclaimed
    <2> QED
      BY <2>10, <2>11, <2>12
  <1> QED
    BY <1>1, <1>2

(* The final transition gives the claim up with a truthful state. *)
LEMMA SettleSafe ==
    ASSUME IInv, NEW w \in Workers, NEW label \in Settling,
           NEW st \in {"SUCCEEDED", "FAILED", "UNKNOWN"}, NEW reason \in Reasons,
           NEW res \in Outcomes \cup {Nil}, Settle(w, label, st, reason, res),
           st = "SUCCEEDED" => label = "succeeded",
           st = "FAILED" => label \in {"denied", "failed"}
    PROVE  ClaimInv' /\ DispatchInv' /\ WriteInv'
  <1> DEFINE c == call[w]
             a == call[w].action
  <1>0. /\ CallInv /\ StoreTypeOK /\ c \in Call /\ a \in Actions /\ c.subject \in Subjects
        /\ pc[w] = label /\ label \in ClaimPCs /\ c.seen \in ActionRecord /\ st \in States
    BY Labels DEF IInv, TInv, TypeOK, CallInv, Call, Needs, Settle, ClaimPCs, States
  <1>u. UNCHANGED <<version, inflight, applied, dispatches>> /\ Return(w)
    BY DEF Settle, resourceVars, historyVars
  <1>1. CASE ~CanTransition(a, c.seen, st)
    BY <1>0, <1>u, <1>1, ReturnLocal, LocalSafe DEF Settle, storeVars
  <1>2. CASE CanTransition(a, c.seen, st)
    <2>1. Transition(a, c.seen, st, c.subject, reason, Nil, res)
      BY <1>2 DEF Settle
    <2>2. /\ \A b \in Actions \ {a} : record'[b] = record[b] /\ phase'[b] = phase[b]
          /\ phase'[a] = st /\ phase[a] = c.seen.state
      <3>1. Nil \in Approval \cup {Nil}
        OBVIOUS
      <3> HIDE DEF c, a
      <3> QED
        BY <1>0, <1>2, <2>1, <3>1, TransitionPhase
    <2>3. phase[a] = "EXECUTING"
      BY <1>0, <2>2 DEF IInv, ClaimInv
    <2>4. Others(w) /\ pc'[w] = "idle"
      BY <1>0, <1>u, MoveFrame DEF Return
    <2>5. \A v \in Workers \ {w} : pc[v] \in ClaimPCs => call[v].action # a /\ call[v].action \in Actions
      BY <1>0 DEF IInv, ClaimInv, CallInv, Call
    <2>6. /\ Undispatched \cup Unsent \cup Landed \subseteq ClaimPCs
          /\ "idle" \notin ClaimPCs
      BY DEF ClaimPCs, Undispatched, Unsent, Landed, Refreshing, InBackend, Settling
    <2>7. /\ st = "SUCCEEDED" => a \in applied
          /\ a \in inflight => st = "UNKNOWN"
      BY <1>0 DEF IInv, WriteInv, WriteAt, Unsent, Undispatched, Landed
    <2>8. ClaimInv'
      BY <2>2, <2>4, <2>5, <2>6 DEF IInv, ClaimInv, Others
    <2>9. DispatchInv'
      BY <1>u, <2>2, <2>4, <2>6 DEF IInv, DispatchInv, Others, Unclaimed
    <2>10. WriteInv'
      BY <1>u, <2>2, <2>4, <2>6, <2>7 DEF IInv, WriteInv, WriteAt, Others, OneEffectPerVersion, Unclaimed
    <2> QED
      BY <2>8, <2>9, <2>10
  <1> QED
    BY <1>1, <1>2

(* Proposing and approving never touch a claimed action. *)
LEMMA PrepareSafe ==
    ASSUME IInv, NEW w \in Workers, ProposeCreate(w) \/ ApproveCommit(w)
    PROVE  ClaimInv' /\ DispatchInv' /\ WriteInv'
  <1> DEFINE c == call[w]
             a == call[w].action
  <1>0. /\ CallInv /\ StoreTypeOK /\ c \in Call /\ a \in Actions /\ c.subject \in Subjects
        /\ c.approval \in Approval \cup {Nil}
        /\ pc[w] = "sign" => c.seen \in ActionRecord
    BY DEF IInv, TInv, TypeOK, CallInv, Call, Needs, SeenPCs
  <1>u. UNCHANGED <<version, inflight, applied, dispatches>> /\ Return(w)
    BY DEF ProposeCreate, ApproveCommit, resourceVars, historyVars
  <1>1. CASE UNCHANGED storeVars
    BY <1>0, <1>u, <1>1, ReturnLocal, LocalSafe DEF storeVars
  <1>2. CASE /\ phase[a] \in {"ABSENT", "PROPOSED"} /\ phase'[a] \in {"PROPOSED", "APPROVED"}
             /\ \A b \in Actions \ {a} : record'[b] = record[b] /\ phase'[b] = phase[b]
    <2>1. Others(w) /\ pc'[w] = "idle"
      BY <1>0, <1>u, MoveFrame DEF Return
    <2>2. ASSUME NEW v \in Workers, pc[v] \in ClaimPCs
          PROVE  call[v].action # a /\ call[v].action \in Actions
      <3>1. /\ record[call[v].action].state = "EXECUTING" /\ call[v] \in Call
            /\ record[call[v].action] \in ActionRecord
        BY <1>0, <2>2, Labels DEF IInv, ClaimInv, CallInv, Needs
      <3>2. phase[call[v].action] = "EXECUTING"
        BY <3>1, NilAssumption DEF phase, Exists, Call
      <3> QED
        BY <1>2, <3>1, <3>2 DEF Call
    <2>3. /\ Undispatched \cup Unsent \cup Landed \subseteq ClaimPCs
          /\ "idle" \notin ClaimPCs
      BY DEF ClaimPCs, Undispatched, Unsent, Landed, Refreshing, InBackend, Settling
    <2>4. dispatches[a] = 0 /\ a \notin inflight /\ a \notin applied
      BY <1>0, <1>2 DEF IInv, DispatchInv, WriteInv, WriteAt, Unclaimed
    <2>5. ClaimInv'
      BY <1>2, <2>1, <2>2, <2>3 DEF IInv, ClaimInv, Others
    <2>6. DispatchInv'
      BY <1>u, <1>2, <2>1, <2>3, <2>4 DEF IInv, DispatchInv, Others, Unclaimed
    <2>7. WriteInv'
      BY <1>u, <1>2, <2>1, <2>3, <2>4
         DEF IInv, WriteInv, WriteAt, Others, OneEffectPerVersion, Unclaimed
    <2> QED
      BY <2>5, <2>6, <2>7
  <1>3. CASE ProposeCreate(w) /\ ~Exists(a)
    <2>1. record' = [record EXCEPT ![a] = NewRecord(c.subject)]
      BY <1>3 DEF ProposeCreate, Create
    <2>2. NewRecord(c.subject) \in ActionRecord /\ NewRecord(c.subject).state = "PROPOSED"
      BY <1>0 DEF NewRecord, ActionRecord, States
    <2>3. phase[a] = "ABSENT" /\ phase'[a] = "PROPOSED"
      BY <1>0, <1>3, <2>1, <2>2, NilAssumption DEF phase, Exists, StoreTypeOK
    <2>4. \A b \in Actions \ {a} : record'[b] = record[b] /\ phase'[b] = phase[b]
      BY <1>0, <2>1 DEF phase, Exists, StoreTypeOK
    <2> QED
      BY <1>2, <2>3, <2>4
  <1>4. CASE ApproveCommit(w) /\ CanTransition(a, c.seen, "APPROVED")
    <2>1. Transition(a, c.seen, "APPROVED", c.subject, "HUMAN_APPROVED", c.approval, Nil)
      BY <1>4 DEF ApproveCommit
    <2>2. /\ \A b \in Actions \ {a} : record'[b] = record[b] /\ phase'[b] = phase[b]
          /\ phase'[a] = "APPROVED" /\ phase[a] = c.seen.state
      <3>1. /\ "APPROVED" \in States /\ "HUMAN_APPROVED" \in Reasons
            /\ Nil \in Outcomes \cup {Nil} /\ c.seen \in ActionRecord
        BY <1>0, <1>4 DEF States, Reasons, ApproveCommit
      <3> HIDE DEF c, a
      <3> QED
        BY <1>0, <1>4, <2>1, <3>1, TransitionPhase
    <2>3. phase[a] = "PROPOSED"
      BY <1>0, <1>4, <2>2, Predecessors DEF ActionRecord, CanTransition, ApproveCommit
    <2> QED
      BY <1>2, <2>2, <2>3
  <1> QED
    BY <1>1, <1>3, <1>4 DEF ProposeCreate, ApproveCommit, Create

(* Calling the backend and sending the write, by the owner of the claim. *)
LEMMA DispatchSafe ==
    ASSUME IInv, NEW w \in Workers, Authorize(w) \/ Patch(w)
    PROVE  ClaimInv' /\ DispatchInv' /\ WriteInv'
  <1> DEFINE a == call[w].action
  <1>0. /\ CallInv /\ a \in Actions /\ dispatches \in [Actions -> Nat]
        /\ pc[w] \in ClaimPCs /\ pc[w] \in Unsent /\ (Authorize(w) => pc[w] \in Undispatched)
        /\ call[w].seen \in ActionRecord
    BY Labels DEF IInv, TInv, TypeOK, CallInv, Call, Needs, Authorize, Patch, Unsent, Undispatched,
                  ClaimPCs, Refreshing, InBackend
  <1>1. /\ Others(w) /\ call'[w] = call[w]
        /\ pc'[w] \in (IF Authorize(w) THEN {"plan", "denied"} ELSE {"await"})
    BY <1>0, MoveFrame DEF Authorize, Patch
  <1>2. record' = record /\ version' = version /\ applied' = applied /\ phase' = phase
    BY DEF Authorize, Patch, storeVars, resourceVars, phase, Exists
  <1>3. /\ Undispatched \cup Unsent \cup Landed \subseteq ClaimPCs
        /\ {"plan", "denied", "await"} \subseteq ClaimPCs \ Landed
        /\ "plan" \notin Undispatched /\ "await" \notin Unsent /\ "await" \notin Undispatched
    BY DEF ClaimPCs, Undispatched, Unsent, Landed, Refreshing, InBackend, Settling
  <1>4. record[a] = call[w].seen /\ phase[a] = "EXECUTING"
    BY <1>0, NilAssumption DEF IInv, ClaimInv, phase, Exists
  <1>5. \A v \in Workers \ {w} : pc[v] \in ClaimPCs => call[v].action # a
    BY <1>0 DEF IInv, ClaimInv
  <1>6. ClaimInv'
    BY <1>0, <1>1, <1>2, <1>3 DEF IInv, ClaimInv, Others
  <1>7. DispatchInv' /\ WriteInv'
    <2>1. CASE Authorize(w)
      <3>1. dispatches[a] = 0 /\ inflight' = inflight
        BY <1>0, <2>1 DEF IInv, DispatchInv, Authorize, resourceVars
      <3>2. \/ pc'[w] = "plan" /\ dispatches' = [dispatches EXCEPT ![a] = @ + 1]
            \/ pc'[w] = "denied" /\ dispatches' = dispatches
        <4>1. \/ Goto(w, "plan") /\ dispatches' = [dispatches EXCEPT ![a] = @ + 1]
              \/ Goto(w, "denied") /\ dispatches' = dispatches
          BY <2>1 DEF Authorize
        <4> QED
          BY <1>0, <4>1, MoveFrame
      <3>3. DispatchInv'
        <4>1. \A b \in Actions : b # a => dispatches'[b] = dispatches[b]
          BY <1>0, <3>2
        <4>2. dispatches'[a] \in {0, 1} /\ (pc'[w] = "denied" => dispatches'[a] = 0)
          BY <1>0, <3>1, <3>2
        <4>3. \A b \in Actions :
                dispatches'[b] \in {0, 1} /\ (phase'[b] \in Unclaimed => dispatches'[b] = 0)
          BY <1>2, <1>4, <4>1, <4>2 DEF IInv, DispatchInv, Unclaimed
        <4>4. ASSUME NEW v \in Workers, pc'[v] \in Undispatched
              PROVE  dispatches'[call'[v].action] = 0
          <5>1. CASE v = w
            BY <1>1, <1>3, <3>2, <4>2, <4>4, <5>1
          <5>2. CASE v # w
            <6>1. pc[v] \in Undispatched /\ call'[v] = call[v] /\ call[v].action \in Actions
              BY <1>0, <1>1, <4>4, <5>2 DEF Others, CallInv, Call
            <6> QED
              BY <1>3, <1>5, <4>1, <5>2, <6>1 DEF IInv, DispatchInv
          <5> QED
            BY <5>1, <5>2
        <4> QED
          BY <4>3, <4>4 DEF DispatchInv
      <3>4. WriteInv'
        BY <1>0, <1>1, <1>2, <1>3, <3>1, <2>1 DEF IInv, WriteInv, WriteAt, Others, OneEffectPerVersion
      <3> QED
        BY <3>3, <3>4
    <2>2. CASE Patch(w)
      <3>1. dispatches' = dispatches /\ inflight' = inflight \cup {a} /\ pc'[w] = "await"
        BY <1>0, <2>2, MoveFrame DEF Patch, historyVars
      <3>2. a \notin applied
        BY <1>0 DEF IInv, WriteInv, WriteAt
      <3>3. DispatchInv'
        BY <1>1, <1>2, <1>3, <3>1 DEF IInv, DispatchInv, Others
      <3>4. WriteInv'
        BY <1>0, <1>1, <1>2, <1>3, <1>4, <1>5, <3>1, <3>2
           DEF IInv, WriteInv, WriteAt, Others, OneEffectPerVersion
      <3> QED
        BY <3>3, <3>4
    <2> QED
      BY <2>1, <2>2
  <1> QED
    BY <1>6, <1>7

(* The resource API performs or drops a write that is in flight. *)
LEMMA ServeSafe ==
    ASSUME IInv, NEW a \in Actions, ServeWrite(a) \/ LoseWrite(a)
    PROVE  ClaimInv' /\ DispatchInv' /\ WriteInv'
  <1>0. /\ version \in [Resources -> Nat] /\ Target \in [Actions -> Resources]
        /\ Expected \in [Actions -> Nat] /\ applied \subseteq Actions
    BY RemediationAssumption DEF IInv, TInv, TypeOK
  <1>1. /\ record' = record /\ dispatches' = dispatches /\ pc' = pc /\ call' = call
        /\ phase' = phase /\ a \in inflight /\ inflight' = inflight \ {a}
    BY DEF ServeWrite, LoseWrite, storeVars, historyVars, phase, Exists
  <1>2. ClaimInv' /\ DispatchInv'
    BY <1>1 DEF IInv, ClaimInv, DispatchInv
  <1>3. CASE version' = version /\ applied' = applied
    <2>1. OneEffectPerVersion'
      BY <1>3 DEF IInv, WriteInv, WriteAt, OneEffectPerVersion
    <2>2. \A w \in Workers : /\ pc'[w] \in Unsent => call'[w].action \notin inflight' \cup applied'
                             /\ pc'[w] \in Landed => call'[w].action \in applied'
      BY <1>1, <1>3 DEF IInv, WriteInv, WriteAt
    <2>3. \A b \in Actions : b \in inflight' => b \in inflight
      BY <1>1
    <2>4. WriteAt'
      BY <1>1, <1>3, <2>3 DEF IInv, WriteInv, WriteAt
    <2> QED
      BY <1>2, <2>1, <2>2, <2>4 DEF WriteInv
  <1>4. CASE /\ version[Target[a]] = Expected[a] /\ applied' = applied \cup {a}
             /\ version' = [version EXCEPT ![Target[a]] = @ + 1]
    <2>1. /\ version'[Target[a]] > Expected[a]
          /\ \A b \in Actions : version'[Target[b]] >= version[Target[b]]
          /\ \A b \in Actions : version[Target[b]] \in Nat /\ version'[Target[b]] \in Nat
                                /\ Expected[b] \in Nat
      BY <1>0, <1>4
    <2>2. /\ phase[a] \in {"EXECUTING", "UNKNOWN"} /\ a \notin applied
          /\ \A w \in Workers : pc[w] \in Unsent => call[w].action # a
      BY <1>1 DEF IInv, WriteInv, WriteAt
    <2>3. \A b \in applied : Target[b] = Target[a] => Expected[b] # Expected[a]
      BY <1>0, <1>4, <2>1 DEF IInv, WriteInv, WriteAt
    <2>4. OneEffectPerVersion'
      BY <1>4, <2>3 DEF IInv, WriteInv, WriteAt, OneEffectPerVersion
    <2>5. \A b \in Actions : b \in applied' => version'[Target[b]] > Expected[b]
      BY <1>4, <2>1 DEF IInv, WriteInv, WriteAt
    <2>6. \A w \in Workers : /\ pc'[w] \in Unsent => call'[w].action \notin inflight' \cup applied'
                             /\ pc'[w] \in Landed => call'[w].action \in applied'
      BY <1>1, <1>4, <2>2 DEF IInv, WriteInv, WriteAt
    <2>7. \A b \in Actions : /\ b \in inflight' => b \in inflight /\ b # a
                             /\ b \in applied' => b \in applied \/ b = a
                             /\ b \in applied => b \in applied'
      BY <1>1, <1>4
    <2>8. WriteAt'
      <3> SUFFICES ASSUME NEW b \in Actions
                   PROVE  /\ b \in inflight' => phase[b] \in {"EXECUTING", "UNKNOWN"} /\ b \notin applied'
                          /\ b \in applied' => phase[b] \notin Unclaimed
                          /\ b \in applied' => version'[Target[b]] > Expected[b]
                          /\ phase[b] = "SUCCEEDED" => b \in applied'
        BY <1>1 DEF WriteAt
      <3>1. CASE b = a
        BY <1>1, <2>2, <2>5, <2>7, <3>1 DEF Unclaimed
      <3>2. CASE b # a
        BY <2>5, <2>7, <3>2 DEF IInv, WriteInv, WriteAt
      <3> QED
        BY <3>1, <3>2
    <2> QED
      BY <1>2, <2>4, <2>6, <2>8 DEF WriteInv
  <1> QED
    BY <1>2, <1>3, <1>4 DEF ServeWrite, LoseWrite

(* With empty tables nothing is claimed, sent or applied. *)
LEMMA SafeInit == Init => IInv
  <1> SUFFICES ASSUME Init PROVE IInv
    OBVIOUS
  <1>1. TInv
    BY TypeInit
  <1>2. \A w \in Workers : pc[w] = "idle"
    BY DEF Init
  <1>3. "idle" \notin ClaimPCs \cup Undispatched \cup Unsent \cup Landed
    BY DEF ClaimPCs, Undispatched, Unsent, Landed, Refreshing, InBackend, Settling
  <1>4. \A a \in Actions : phase[a] = "ABSENT"
    BY DEF Init, StoreInit, phase, Exists
  <1> QED
    BY <1>1, <1>2, <1>3, <1>4 DEF Init, IInv, ClaimInv, DispatchInv, WriteInv, WriteAt, OneEffectPerVersion

(* The inductive step: one case per kind of step. *)
LEMMA SafeNext == IInv /\ [Next]_vars => IInv'
  <1> SUFFICES ASSUME IInv, [Next]_vars PROVE ClaimInv' /\ DispatchInv' /\ WriteInv'
    BY TypeNext DEF IInv
  <1>0. TInv /\ CallInv /\ WriteInv
    BY DEF IInv, TInv
  <1>u. UNCHANGED <<record, pc, call, inflight, applied, dispatches>> =>
          phase' = phase /\ ClaimInv' /\ DispatchInv'
    BY DEF IInv, ClaimInv, DispatchInv, phase, Exists
  <1>1. ASSUME NEW w \in Workers, Step(w) PROVE ClaimInv' /\ DispatchInv' /\ WriteInv'
    <2>1. CASE DispatchSettle(w)
      BY <2>1, SettleSafe DEF DispatchSettle, Settling, Reasons, Outcomes
    <2> QED
      BY <1>0, <1>1, <2>1, StepLocal, LocalSafe, PrepareSafe, ClaimSafe, DispatchSafe
  <1>2. ASSUME NEW w \in Workers, Begin(w) PROVE ClaimInv' /\ DispatchInv' /\ WriteInv'
    <2>1. "review_identity" \notin ClaimPCs /\ "get" \notin ClaimPCs
      BY DEF ClaimPCs, Refreshing, InBackend, Settling
    <2>2. LocalStep(w)
      BY <1>0, <1>2, <2>1, ReviewLocal DEF Begin, storeVars, resourceVars, historyVars
    <2> QED
      BY <2>2, LocalSafe
  <1>3. ASSUME NEW w \in Workers, Crash(w) PROVE ClaimInv' /\ DispatchInv' /\ WriteInv'
    BY <1>0, <1>3, ReturnLocal, LocalSafe DEF Crash, storeVars, resourceVars
  <1>4. ASSUME NEW a \in Actions, ServeWrite(a) \/ LoseWrite(a)
        PROVE ClaimInv' /\ DispatchInv' /\ WriteInv'
    BY <1>4, ServeSafe
  <1>5. ASSUME NEW r \in Resources, ExternalWrite(r)
        PROVE  ClaimInv' /\ DispatchInv' /\ WriteInv'
    <2>1. \A a \in Actions : version'[Target[a]] >= version[Target[a]]
                            /\ {version'[Target[a]], version[Target[a]], Expected[a]} \subseteq Nat
      BY <1>0, <1>5, RemediationAssumption DEF ExternalWrite, TInv, TypeOK
    <2>2. UNCHANGED <<record, pc, call, inflight, applied, dispatches>>
      BY <1>5 DEF ExternalWrite, storeVars, historyVars
    <2>3. \A a \in Actions : a \in applied => version'[Target[a]] > Expected[a]
      BY <1>0, <2>1 DEF WriteInv, WriteAt
    <2> QED
      BY <1>0, <1>u, <2>2, <2>3 DEF WriteInv, WriteAt, OneEffectPerVersion
  <1>6. CASE Tick \/ UNCHANGED vars \/ \E s \in Subjects, role \in Roles : Revoke(s, role)
    <2>1. UNCHANGED <<record, pc, call, inflight, applied, dispatches, version>>
      BY <1>6 DEF Tick, Revoke, vars, storeVars, resourceVars, historyVars
    <2> QED
      BY <1>0, <1>u, <2>1 DEF WriteInv, WriteAt, OneEffectPerVersion
  <1> QED
    BY <1>1, <1>2, <1>3, <1>4, <1>5, <1>6 DEF Next

(* The strengthened invariant holds in every reachable state. *)
LEMMA SafeInvariant == Spec => []IInv
  BY SafeInit, SafeNext, PTL DEF Spec

(* Whatever races, replays and deaths of workers: an EXECUTING row has one *)
(* live owner at most, and that owner's final transition cannot conflict.  *)
THEOREM OneOwner == Spec => []SoleClaimant
  <1>1. IInv => SoleClaimant
    <2> SUFFICES ASSUME IInv, NEW w \in Workers, NEW a \in Actions, Claims(w, a)
                 PROVE  /\ phase[a] = "EXECUTING" /\ record[a] = call[w].seen
                        /\ \A v \in Workers \ {w} : ~Claims(v, a)
      BY DEF SoleClaimant
    <2>1. call[w].seen \in ActionRecord
      BY Labels DEF IInv, TInv, CallInv, Needs, Claims
    <2> QED
      BY <2>1, NilAssumption DEF IInv, ClaimInv, Claims, phase, Exists
  <1> QED
    BY <1>1, SafeInvariant, PTL

(* The backend is called at most once for every action ever proposed. *)
THEOREM DispatchedOnce == Spec => []AtMostOneDispatch
  <1>1. IInv => AtMostOneDispatch
    <2> SUFFICES ASSUME IInv, NEW a \in Actions
                 PROVE  /\ dispatches[a] <= 1
                        /\ dispatches[a] = 1 =>
                              phase[a] \in {"EXECUTING", "SUCCEEDED", "FAILED", "UNKNOWN"}
      BY DEF AtMostOneDispatch
    <2>1. phase[a] \in {"ABSENT"} \cup States
      BY DEF IInv, TInv, TypeOK, StoreTypeOK, phase, Exists, ActionRecord
    <2>2. phase[a] \in Unclaimed => dispatches[a] = 0
      BY DEF IInv, DispatchInv
    <2>3. dispatches[a] \in {0, 1}
      BY DEF IInv, DispatchInv
    <2> QED
      BY <2>1, <2>2, <2>3 DEF Unclaimed, States
  <1> QED
    BY <1>1, SafeInvariant, PTL

(* Of all actions approved against one version of a resource, the resource *)
(* API performs at most one.                                               *)
THEOREM ExclusiveEffects == Spec => []OneEffectPerVersion
  <1>1. IInv => OneEffectPerVersion
    BY DEF IInv, WriteInv, WriteAt
  <1> QED
    BY <1>1, SafeInvariant, PTL

---------------------------------------------------------------------------
(***************************************************************************)
(* Refinement of the abstract life cycle.                                  *)
(***************************************************************************)

LEMMA PhaseUpdate ==
    ASSUME NEW a \in Actions, NEW t, phase'[a] = t,
           \A b \in Actions \ {a} : phase'[b] = phase[b]
    PROVE  phase' = [phase EXCEPT ![a] = t]
  <1>1. phase = [b \in Actions |-> phase[b]] /\ phase' = [b \in Actions |-> phase'[b]]
    BY DEF phase
  <1> QED
    BY <1>1

(* Each database write of a call is the life-cycle step of its action. *)
LEMMA WriteRefines ==
    ASSUME IInv, NEW w \in Workers,
           ProposeCreate(w) \/ ApproveCommit(w) \/ ExecuteClaim(w) \/ DispatchSettle(w)
    PROVE  [Lifecycle!Next]_<<phase, applied>>
  <1> DEFINE c == call[w]
             a == call[w].action
  <1>0. /\ StoreTypeOK /\ c \in Call /\ a \in Actions /\ c.subject \in Subjects
        /\ c.approval \in Approval \cup {Nil}
        /\ (pc[w] \in SeenPCs => c.seen \in ActionRecord)
    BY DEF IInv, TInv, TypeOK, CallInv, Call, Needs
  <1>1. applied' = applied
    BY DEF ProposeCreate, ApproveCommit, ExecuteClaim, DispatchSettle, Settle, resourceVars
  <1>u. UNCHANGED storeVars => phase' = phase
    BY DEF storeVars, phase, Exists
  <1>t. ASSUME NEW st \in States, NEW reason \in Reasons, NEW ap \in Approval \cup {Nil},
               NEW res \in Outcomes \cup {Nil}, pc[w] \in SeenPCs, CanTransition(a, c.seen, st),
               Transition(a, c.seen, st, c.subject, reason, ap, res)
        PROVE  /\ phase' = [phase EXCEPT ![a] = st]
               /\ st = "APPROVED" => phase[a] = "PROPOSED"
               /\ st = "EXECUTING" => phase[a] = "APPROVED"
               /\ st \in {"SUCCEEDED", "FAILED", "UNKNOWN"} => phase[a] = "EXECUTING"
    <2>1. c.seen \in ActionRecord /\ c.seen.state \in States
      BY <1>0, <1>t DEF ActionRecord
    <2>2. st \in TRANSITIONS[c.seen.state]
      BY <1>t DEF CanTransition
    <2> HIDE DEF c, a
    <2>3. /\ \A b \in Actions \ {a} : phase'[b] = phase[b]
          /\ phase'[a] = st /\ phase[a] = c.seen.state
      BY <1>0, <1>t, <2>1, TransitionPhase
    <2>4. phase' = [phase EXCEPT ![a] = st]
      BY <1>0, <2>3, PhaseUpdate
    <2> QED
      BY <2>1, <2>2, <2>3, <2>4, Predecessors
  <1> USE DEF Lifecycle!Next, Lifecycle!Advance
  <1>2. CASE ProposeCreate(w)
    <2>1. CASE Exists(a)
      BY <1>1, <1>u, <1>2, <2>1 DEF ProposeCreate, Create
    <2>2. CASE ~Exists(a)
      <3>1. record' = [record EXCEPT ![a] = NewRecord(c.subject)]
        BY <1>2, <2>2 DEF ProposeCreate, Create
      <3>2. NewRecord(c.subject) \in ActionRecord /\ NewRecord(c.subject).state = "PROPOSED"
        BY <1>0 DEF NewRecord, ActionRecord, States
      <3>3. phase[a] = "ABSENT" /\ phase'[a] = "PROPOSED"
        BY <1>0, <2>2, <3>1, <3>2, NilAssumption DEF phase, Exists, StoreTypeOK
      <3>4. \A b \in Actions \ {a} : phase'[b] = phase[b]
        BY <1>0, <3>1 DEF phase, Exists, StoreTypeOK
      <3>5. Lifecycle!Propose(a)
        BY <1>0, <1>1, <3>3, <3>4, PhaseUpdate DEF Lifecycle!Propose
      <3> QED
        BY <1>0, <3>5
    <2> QED
      BY <2>1, <2>2
  <1>3. CASE ApproveCommit(w)
    <2>1. CASE CanTransition(a, c.seen, "APPROVED")
      <3>1. /\ phase' = [phase EXCEPT ![a] = "APPROVED"] /\ phase[a] = "PROPOSED"
        <4>1. /\ "APPROVED" \in States /\ "HUMAN_APPROVED" \in Reasons /\ "sign" \in SeenPCs
              /\ Nil \in Outcomes \cup {Nil}
          BY DEF States, Reasons, SeenPCs
        <4> QED
          BY <1>0, <1>3, <1>t, <2>1, <4>1 DEF ApproveCommit
      <3>2. Lifecycle!Approve(a)
        BY <1>1, <3>1 DEF Lifecycle!Approve
      <3> QED
        BY <1>0, <3>2
    <2> QED
      BY <1>1, <1>u, <1>3, <2>1 DEF ApproveCommit
  <1>4. CASE ExecuteClaim(w)
    <2>1. CASE CanTransition(a, c.seen, "EXECUTING")
      <3>1. /\ phase' = [phase EXCEPT ![a] = "EXECUTING"] /\ phase[a] = "APPROVED"
        <4>1. /\ "EXECUTING" \in States /\ "DISPATCH" \in Reasons /\ "claim" \in SeenPCs
              /\ Nil \in Outcomes \cup {Nil} /\ Nil \in Approval \cup {Nil}
          BY DEF States, Reasons, SeenPCs
        <4> QED
          BY <1>4, <1>t, <2>1, <4>1 DEF ExecuteClaim
      <3>2. Lifecycle!Claim(a)
        BY <1>1, <3>1 DEF Lifecycle!Claim
      <3> QED
        BY <1>0, <3>2
    <2> QED
      BY <1>1, <1>u, <1>4, <2>1 DEF ExecuteClaim
  <1>5. ASSUME NEW label \in Settling, NEW st \in {"SUCCEEDED", "FAILED", "UNKNOWN"},
               NEW reason \in Reasons, NEW res \in Outcomes \cup {Nil},
               Settle(w, label, st, reason, res), st = "SUCCEEDED" => label = "succeeded"
        PROVE  [Lifecycle!Next]_<<phase, applied>>
    <2>1. CASE CanTransition(a, c.seen, st)
      <3>1. /\ phase' = [phase EXCEPT ![a] = st] /\ phase[a] = "EXECUTING"
        <4>1. /\ st \in States /\ label \in SeenPCs /\ Nil \in Approval \cup {Nil}
          BY Labels DEF States, ClaimPCs
        <4> QED
          BY <1>5, <1>t, <2>1, <4>1 DEF Settle
      <3>2. st = "SUCCEEDED" => a \in applied
        BY <1>5 DEF Settle, IInv, WriteInv, Landed
      <3>3. Lifecycle!Succeed(a) \/ Lifecycle!Fail(a) \/ Lifecycle!Doubt(a)
        BY <1>1, <3>1, <3>2 DEF Lifecycle!Succeed, Lifecycle!Fail, Lifecycle!Doubt
      <3> QED
        BY <1>0, <3>3
    <2> QED
      BY <1>1, <1>u, <1>5, <2>1 DEF Settle
  <1>6. CASE DispatchSettle(w)
    BY <1>5, <1>6 DEF DispatchSettle, Settling, Reasons, Outcomes
  <1> QED
    BY <1>2, <1>3, <1>4, <1>6

(* Workers, races, crashes, replays and late writes together implement the *)
(* abstract life cycle of an action: proposed, approved and claimed once   *)
(* and in this order, at most one effect, none after a definite outcome.   *)
THEOREM Refinement == Spec => ImplementsLifecycle
  <1>1. Init => Lifecycle!Init
    BY DEF Init, StoreInit, phase, Exists, Lifecycle!Init
  <1>2. IInv /\ [Next]_vars => [Lifecycle!Next]_<<phase, applied>>
    <2> SUFFICES ASSUME IInv, [Next]_vars PROVE [Lifecycle!Next]_<<phase, applied>>
      OBVIOUS
    <2>0. TInv /\ WriteInv
      BY DEF IInv
    <2>u. UNCHANGED <<record, applied>> => UNCHANGED <<phase, applied>>
      BY DEF phase, Exists
    <2>1. ASSUME NEW w \in Workers, Step(w) PROVE [Lifecycle!Next]_<<phase, applied>>
      <3>1. CASE LocalStep(w) \/ Authorize(w) \/ Patch(w)
        BY <2>u, <3>1 DEF LocalStep, Authorize, Patch, storeVars, resourceVars
      <3> QED
        BY <2>0, <2>1, <3>1, StepLocal, WriteRefines
    <2>2. ASSUME NEW a \in Actions, ServeWrite(a) PROVE [Lifecycle!Next]_<<phase, applied>>
      <3>1. UNCHANGED record /\ a \in inflight
        BY <2>2 DEF ServeWrite, storeVars
      <3>2. phase' = phase
        BY <3>1 DEF phase, Exists
      <3>3. phase[a] \in {"EXECUTING", "UNKNOWN"} /\ a \notin applied
        BY <2>0, <3>1 DEF WriteInv, WriteAt
      <3>4. CASE applied' = applied \cup {a}
        BY <3>2, <3>3, <3>4 DEF Lifecycle!Next, Lifecycle!Effect
      <3>5. CASE applied' = applied
        BY <3>2, <3>5
      <3> QED
        BY <2>2, <3>4, <3>5 DEF ServeWrite
    <2>3. CASE \/ \E w \in Workers : Begin(w) \/ Crash(w)
               \/ \E a \in Actions : LoseWrite(a)
               \/ \E s \in Subjects, role \in Roles : Revoke(s, role)
               \/ \E r \in Resources : ExternalWrite(r)
               \/ Tick \/ UNCHANGED vars
      BY <2>u, <2>3 DEF Begin, Crash, LoseWrite, Revoke, ExternalWrite, Tick, vars,
                        storeVars, resourceVars
    <2> QED
      BY <2>1, <2>2, <2>3 DEF Next
  <1> QED
    BY <1>1, <1>2, SafeInvariant, PTL DEF Spec, ImplementsLifecycle, Lifecycle!Spec

-----------------------------------------------------------------------------
(* The store, outcomes, orphans and authority.                             *)

\* s holds the role, or lost it at time t or later.
Since(s, role, t) == role \in grants[s] \/ lastHeld[s][role] >= t

ApprovingPCs == {"reapprover", "stamp", "sign"}
DatedPCs == {"current", "claim"} \cup ClaimPCs

\* The approver is not the proposer, and the approval is what ApproveStamp built.
ApproveOK(p, c) ==
    /\ p \in ApprovingPCs \/ (p \in ReviewPCs /\ c.op = "approve") => c.subject # c.seen.proposer
    /\ p \in {"executor", "signer"} => c.op # "approve"
    /\ p = "sign" => /\ c.approval \in Approval /\ c.approval.subject = c.subject
                     /\ c.approval.expires_at = c.approval.approved_at + ApprovalTTL

\* The snapshots were true when they were taken, and the deadline is not after the evidence's.
AuthorityOK(p, c) ==
    /\ \A r \in Roles : c.verified[r] <= now
    /\ p \in DatedPCs => c.deadline <= EvidenceAt[c.action] + EvidenceTTL
    /\ p \in {"id_approver", "id_proposer", "authorize"}
         => Since(c.subject, "executor", c.verified["executor"])
    /\ p \in {"id_proposer", "authorize"}
         => Since(c.seen.approval.subject, "approver", c.verified["approver"])
    /\ p = "authorize" => Since(c.seen.proposer, "responder", c.verified["responder"])

LocalInv == \A w \in Workers : ApproveOK(pc[w], call[w]) /\ AuthorityOK(pc[w], call[w])

\* The last audit row of a FAILED action tells whether its effect happened.
OutcomeInv ==
    \A a \in Actions : \A e \in audit :
        phase[a] = "FAILED" /\ e.action = a /\ e.revision = record[a].revision =>
            IF e.reason = "DISPATCH_AUTHORITY_DENIED" THEN dispatches[a] = 0 /\ a \notin applied
                                                      ELSE a \in applied

\* An orphaned claim has no live owner.
OrphanInv ==
    \A a \in orphaned : phase[a] = "EXECUTING" /\ \A w \in Workers : ~Claims(w, a)

JInv == IInv /\ StoreSound /\ LocalInv /\ OutcomeInv /\ OrphanInv

---------------------------------------------------------------------------
(***************************************************************************)
(* The tables                                                              *)
(***************************************************************************)

Rows(a) == {e \in audit : e.action = a}

\* A row n replaces that of a, and e is its audit row.
Moved(a, n, e) ==
    /\ record[a] \in ActionRecord /\ n \in ActionRecord /\ e \in AuditEvent
    /\ record' = [record EXCEPT ![a] = n]
    /\ audit' = audit \cup {e}
    /\ n.revision = record[a].revision + 1
    /\ n.state \in TRANSITIONS[record[a].state]
    /\ e.action = a /\ e.revision = n.revision /\ e.state = n.state
    /\ Consistent(n)

\* The first row of a, and its audit row.
Created(a, n, e) ==
    /\ ~Exists(a) /\ n \in ActionRecord /\ e \in AuditEvent
    /\ record' = [record EXCEPT ![a] = n]
    /\ audit' = audit \cup {e}
    /\ n.revision = 0
    /\ e.action = a /\ e.revision = 0 /\ e.state = n.state
    /\ Consistent(n)

\* The rows of one action are the history of its record r, without the sets of the definition.
HistoryRows(rows, r) ==
    /\ \A e \in rows : e.revision \in 0..r.revision
    /\ \A k \in 0..r.revision : \E e \in rows : e.revision = k
    /\ \A e, f \in rows : e.revision = f.revision => e = f
    /\ \A e, f \in rows : f.revision = e.revision + 1 => f.state \in TRANSITIONS[e.state]
    /\ \A e \in rows : e.revision = r.revision => e.state = r.state

HistoryOf(a) == IF ~Exists(a) THEN Rows(a) = {} ELSE HistoryRows(Rows(a), record[a])

LEMMA HistoryMeans ==
    ASSUME NEW rows, NEW r \in ActionRecord
    PROVE  HistoryRows(rows, r) <=>
             /\ {e.revision : e \in rows} = 0..r.revision
             /\ \A e, f \in rows :
                   /\ e.revision = f.revision => e = f
                   /\ f.revision = e.revision + 1 => f.state \in TRANSITIONS[e.state]
             /\ \E e \in rows : e.revision = r.revision /\ e.state = r.state
  <1>1. r.revision \in Nat
    BY DEF ActionRecord
  <1>2. r.revision \in 0..r.revision
    BY <1>1
  <1>3. {e.revision : e \in rows} = 0..r.revision <=>
          /\ \A e \in rows : e.revision \in 0..r.revision
          /\ \A k \in 0..r.revision : \E e \in rows : e.revision = k
    OBVIOUS
  <1> QED
    BY <1>2, <1>3 DEF HistoryRows

\* Writing one row, with its audit row, leaves the others as they are.
LEMMA OtherRows ==
    ASSUME StoreTypeOK, NEW a \in Actions, NEW n \in ActionRecord, NEW e \in AuditEvent,
           e.action = a, record' = [record EXCEPT ![a] = n], audit' = audit \cup {e}
    PROVE  /\ record'[a] = n /\ n # Nil /\ Exists(a)' /\ Rows(a)' = Rows(a) \cup {e}
           /\ \A b \in Actions \ {a} : record'[b] = record[b] /\ Rows(b)' = Rows(b)
           /\ StoreTypeOK'
  <1>1. /\ record'[a] = n /\ n # Nil
        /\ \A b \in Actions \ {a} : record'[b] = record[b]
        /\ record' \in [Actions -> ActionRecord \cup {Nil}]
    BY NilAssumption DEF StoreTypeOK
  <1>2. Rows(a)' = Rows(a) \cup {e} /\ \A b \in Actions \ {a} : Rows(b)' = Rows(b)
    BY DEF Rows
  <1>3. audit' \subseteq AuditEvent
    BY DEF StoreTypeOK
  <1> QED
    BY <1>1, <1>2, <1>3 DEF Exists, StoreTypeOK

LEMMA WriteSound ==
    ASSUME StoreTypeOK, StoreSound, NEW a \in Actions, NEW n, NEW e, Moved(a, n, e) \/ Created(a, n, e)
    PROVE  StoreSound'
  <1>1. /\ n \in ActionRecord /\ e \in AuditEvent /\ e.action = a /\ Consistent(n)
        /\ record' = [record EXCEPT ![a] = n] /\ audit' = audit \cup {e}
        /\ e.revision = n.revision /\ e.state = n.state
    BY DEF Moved, Created
  <1>2. /\ record'[a] = n /\ n # Nil /\ Exists(a)' /\ Rows(a)' = Rows(a) \cup {e}
        /\ \A b \in Actions \ {a} : record'[b] = record[b] /\ Rows(b)' = Rows(b)
        /\ StoreTypeOK'
    BY <1>1, OtherRows, ZenonT(60)
  <1>3. RecordsReadable'
    BY <1>1, <1>2 DEF StoreSound, RecordsReadable, Exists, Consistent
  <1>4. \A b \in Actions : HistoryOf(b)
    <2>1. ASSUME NEW b \in Actions, Exists(b) PROVE record[b] \in ActionRecord
      BY <2>1 DEF StoreTypeOK, Exists
    <2> QED
      BY <2>1, HistoryMeans DEF StoreSound, AuditIsHistory, HistoryOf, Rows
  <1>5. ASSUME NEW b \in Actions \ {a} PROVE HistoryOf(b)'
    <2>1. record'[b] = record[b] /\ Rows(b)' = Rows(b) /\ HistoryOf(b)
      BY <1>2, <1>4
    <2> QED
      BY <2>1 DEF HistoryOf, Exists
  <1>6. HistoryOf(a)'
    <2> SUFFICES /\ \A x \in Rows(a)' : x.revision \in 0..n.revision
                 /\ \A k \in 0..n.revision : \E x \in Rows(a)' : x.revision = k
                 /\ \A x, y \in Rows(a)' : x.revision = y.revision => x = y
                 /\ \A x, y \in Rows(a)' : y.revision = x.revision + 1 => y.state \in TRANSITIONS[x.state]
                 /\ \A x \in Rows(a)' : x.revision = n.revision => x.state = n.state
      BY <1>2 DEF HistoryOf, HistoryRows
    <2>1. CASE Created(a, n, e)
      <3>1. Rows(a)' = {e} /\ n.revision = 0 /\ e.revision = 0
        BY <1>2, <1>4, <2>1 DEF HistoryOf, Created
      <3> QED
        BY <1>1, <3>1
    <2>2. CASE Moved(a, n, e)
      <3> DEFINE m == record[a].revision
      <3>1. m \in Nat /\ n.revision = m + 1 /\ n.state \in TRANSITIONS[record[a].state] /\ Exists(a)
        BY <2>2, NilAssumption DEF Moved, ActionRecord, Exists
      <3>2. /\ \A x \in Rows(a) : x.revision \in 0..m
            /\ \A k \in 0..m : \E x \in Rows(a) : x.revision = k
            /\ \A x, y \in Rows(a) : x.revision = y.revision => x = y
            /\ \A x, y \in Rows(a) : y.revision = x.revision + 1 => y.state \in TRANSITIONS[x.state]
            /\ \A x \in Rows(a) : x.revision = m => x.state = record[a].state
        BY <1>4, <3>1 DEF HistoryOf, HistoryRows
      <3> HIDE DEF m
      <3>3. \A x \in Rows(a) : x.revision \in 0..(m + 1) /\ x.revision # m + 1 /\ x.revision # m + 2
        BY <3>1, <3>2
      <3>4. e.revision = m + 1 /\ e.state = n.state
        BY <1>1, <3>1
      <3>5. \A k \in 0..(m + 1) : k \in 0..m \/ k = m + 1
        BY <3>1
      <3>6. \A x, y \in Rows(a)' : x.revision = y.revision => x = y
        BY <1>2, <3>2, <3>3, <3>4
      <3>7. \A x, y \in Rows(a)' : y.revision = x.revision + 1 => y.state \in TRANSITIONS[x.state]
        <4> SUFFICES ASSUME NEW x \in Rows(a)', NEW y \in Rows(a)', y.revision = x.revision + 1
                     PROVE  y.state \in TRANSITIONS[x.state]
          OBVIOUS
        <4>1. CASE x = e
          <5>1. y # e /\ y \in Rows(a) /\ y.revision = m + 2
            BY <1>2, <3>1, <3>4, <4>1
          <5> QED
            BY <3>3, <5>1
        <4>2. CASE x \in Rows(a) /\ y = e
          <5>1. x.revision = m
            BY <3>1, <3>2, <3>4, <4>2
          <5> QED
            BY <3>1, <3>2, <3>4, <4>2, <5>1
        <4> QED
          BY <1>2, <3>2, <4>1, <4>2
      <3>8. \A x \in Rows(a)' : x.revision \in 0..(m + 1)
        BY <1>2, <3>1, <3>3, <3>4
      <3>9. \A k \in 0..(m + 1) : \E x \in Rows(a)' : x.revision = k
        BY <1>2, <3>2, <3>4, <3>5
      <3>10. \A x \in Rows(a)' : x.revision = m + 1 => x.state = n.state
        BY <1>2, <3>3, <3>4
      <3> QED
        BY <3>1, <3>6, <3>7, <3>8, <3>9, <3>10
    <2> QED
      BY <2>1, <2>2
  <1>7. AuditIsHistory'
    <2>1. \A b \in Actions : HistoryOf(b)'
      BY <1>5, <1>6
    <2>2. ASSUME NEW b \in Actions, Exists(b)' PROVE record'[b] \in ActionRecord
      BY <1>2, <2>2 DEF StoreTypeOK, Exists
    <2> QED
      BY <2>1, <2>2, HistoryMeans DEF AuditIsHistory, HistoryOf, Rows
  <1> QED
    BY <1>3, <1>7 DEF StoreSound

\* What the broker passes to transition: a new approval exactly with APPROVED, a result
\* exactly with an outcome.
WellFormed(r, st, ap, res) ==
    /\ st = "APPROVED" => /\ ap \in Approval /\ ap.subject # r.proposer
                          /\ ap.expires_at = ap.approved_at + ApprovalTTL
    /\ st # "APPROVED" => ap = Nil
    /\ res = IF st \in Outcomes THEN st ELSE Nil

LEMMA TransitionMoved ==
    ASSUME StoreTypeOK, StoreSound, NEW a \in Actions, NEW r \in ActionRecord, NEW st \in States,
           NEW actor \in Subjects, NEW reason \in Reasons, NEW ap \in Approval \cup {Nil},
           NEW res \in Outcomes \cup {Nil}, CanTransition(a, r, st),
           Transition(a, r, st, actor, reason, ap, res), WellFormed(r, st, ap, res)
    PROVE  LET n == After(r, st, ap, res)
               e == AuditRow(a, n, actor, reason)
           IN  Moved(a, n, e) /\ record[a] = r /\ n.state = st /\ e.reason = reason
  <1> DEFINE n == After(r, st, ap, res)
             e == AuditRow(a, n, actor, reason)
  <1>1. /\ record[a] = r /\ st \in TRANSITIONS[r.state] /\ r.state \in States
        /\ record' = [record EXCEPT ![a] = n] /\ audit' = audit \cup {e}
    BY DEF CanTransition, Transition, ActionRecord
  <1>2. /\ n \in ActionRecord /\ n.state = st /\ n.revision = r.revision + 1
        /\ n.proposer = r.proposer /\ n.approval = (IF ap = Nil THEN r.approval ELSE ap)
        /\ n.result = res
    BY DEF After, ActionRecord
  <1>3. /\ e \in AuditEvent /\ e.action = a /\ e.revision = n.revision /\ e.state = n.state
        /\ e.reason = reason
    <2> HIDE DEF n
    <2> QED
      BY <1>2 DEF AuditRow, AuditEvent, ActionRecord
  <1> HIDE DEF n, e
  <1>4. Consistent(r)
    BY <1>1, NilAssumption DEF StoreSound, RecordsReadable, Exists
  <1>5. st # "PROPOSED" /\ (st # "APPROVED" => r.state # "PROPOSED")
    BY <1>1, Predecessors DEF States
  <1>6. n.approval # Nil /\ n.approval.subject # n.proposer
        /\ n.approval.expires_at - n.approval.approved_at \in 1..ApprovalTTL
    <2>1. CASE st = "APPROVED"
      <3>1. ap # Nil /\ n.approval = ap
        BY <1>2, <2>1, NilAssumption DEF WellFormed
      <3>2. ap.approved_at \in Nat /\ ap.expires_at = ap.approved_at + ApprovalTTL
        BY <2>1 DEF WellFormed, Approval
      <3>3. ap.expires_at - ap.approved_at \in 1..ApprovalTTL
        BY <3>2, ApprovalTTLAssumption
      <3> QED
        BY <1>2, <2>1, <3>1, <3>3 DEF WellFormed
    <2>2. CASE st # "APPROVED"
      <3>1. n.approval = r.approval
        BY <1>2, <2>2 DEF WellFormed
      <3> QED
        BY <1>2, <1>4, <1>5, <2>2, <3>1 DEF Consistent
    <2> QED
      BY <2>1, <2>2
  <1>7. Consistent(n)
    BY <1>2, <1>5, <1>6 DEF Consistent, WellFormed
  <1>8. Moved(a, n, e) /\ record[a] = r /\ n.state = st /\ e.reason = reason
    BY <1>1, <1>2, <1>3, <1>7 DEF Moved
  <1> QED
    BY <1>8 DEF n, e

\* The same for a transition that keeps the approval.
LEMMA SettledMoved ==
    ASSUME StoreTypeOK, StoreSound, NEW a \in Actions, NEW r \in ActionRecord,
           NEW st \in States \ {"APPROVED"}, NEW actor \in Subjects, NEW reason \in Reasons,
           NEW res, res = (IF st \in Outcomes THEN st ELSE Nil), CanTransition(a, r, st),
           Transition(a, r, st, actor, reason, Nil, res)
    PROVE  LET n == After(r, st, Nil, res)
               e == AuditRow(a, n, actor, reason)
           IN  Moved(a, n, e) /\ record[a] = r /\ n.state = st /\ e.reason = reason
  <1>1. res \in Outcomes \cup {Nil} /\ WellFormed(r, st, Nil, res) /\ Nil \in Approval \cup {Nil}
    BY DEF WellFormed
  <1> QED
    BY <1>1, TransitionMoved

\* The effect of a step of w on the tables.
Stored(w) ==
    LET a == call[w].action IN
    \/ UNCHANGED storeVars
    \/ pc[w] = "create" /\ \E n, e : Created(a, n, e) /\ n.state = "PROPOSED"
    \/ \E n, e :
         /\ Moved(a, n, e)
         /\ record[a].state = "EXECUTING" => pc[w] \in Settling
         /\ n.state = "FAILED" =>
              \/ pc[w] = "denied" /\ e.reason = "DISPATCH_AUTHORITY_DENIED"
              \/ pc[w] = "failed" /\ e.reason = "EXECUTOR_RESULT"

LEMMA StepStored == ASSUME JInv, NEW w \in Workers, Step(w) PROVE Stored(w)
  <1> DEFINE c == call[w]
             a == call[w].action
  <1>0. /\ StoreTypeOK /\ StoreSound /\ c \in Call /\ a \in Actions /\ c.subject \in Subjects
        /\ c.approval \in Approval \cup {Nil}
        /\ (pc[w] \in SeenPCs => c.seen \in ActionRecord)
        /\ ApproveOK(pc[w], c)
    BY DEF JInv, IInv, TInv, TypeOK, CallInv, Needs, Call, LocalInv
  <1>1. CASE ProposeCreate(w) /\ ~Exists(a)
    <2> DEFINE n == NewRecord(c.subject)
               e == AuditRow(a, n, c.subject, "POLICY_REVIEWED")
    <2>1. /\ n \in ActionRecord /\ n.revision = 0 /\ n.state = "PROPOSED" /\ n.approval = Nil
          /\ n.result = Nil
      BY <1>0 DEF NewRecord, ActionRecord, States
    <2>2. pc[w] = "create" /\ record' = [record EXCEPT ![a] = n] /\ audit' = audit \cup {e}
      BY <1>1 DEF ProposeCreate, Create
    <2>3. e \in AuditEvent /\ e.action = a /\ e.revision = 0 /\ e.state = "PROPOSED"
      <3> HIDE DEF n
      <3> QED
        BY <1>0, <2>1 DEF AuditRow, AuditEvent, Reasons, States
    <2> HIDE DEF n, e
    <2>4. Consistent(n)
      BY <2>1 DEF Consistent, Outcomes
    <2>5. Created(a, n, e)
      BY <1>1, <2>1, <2>2, <2>3, <2>4 DEF Created
    <2> QED
      BY <2>1, <2>2, <2>5 DEF Stored
  <1>2. CASE ApproveCommit(w) /\ CanTransition(a, c.seen, "APPROVED")
    <2>1. pc[w] = "sign" /\ Transition(a, c.seen, "APPROVED", c.subject, "HUMAN_APPROVED", c.approval, Nil)
      BY <1>2 DEF ApproveCommit
    <2>2. WellFormed(c.seen, "APPROVED", c.approval, Nil)
      BY <1>0, <2>1 DEF ApproveOK, ApprovingPCs, WellFormed, Outcomes
    <2>3. /\ "APPROVED" \in States /\ "HUMAN_APPROVED" \in Reasons /\ Nil \in Outcomes \cup {Nil}
          /\ c.seen \in ActionRecord
      BY <1>0, <2>1 DEF States, Reasons, SeenPCs
    <2> DEFINE n == After(c.seen, "APPROVED", c.approval, Nil)
               e == AuditRow(a, n, c.subject, "HUMAN_APPROVED")
    <2>4. Moved(a, n, e) /\ record[a] = c.seen /\ n.state = "APPROVED"
      <3>1. PICK r, s, p : r = c.seen /\ s = c.subject /\ p = c.approval
        OBVIOUS
      <3>2. /\ a \in Actions /\ s \in Subjects /\ p \in Approval \cup {Nil}
            /\ r \in ActionRecord /\ WellFormed(r, "APPROVED", p, Nil)
        BY <1>0, <2>1, <2>2, <2>3, <3>1
      <3>3. /\ CanTransition(a, r, "APPROVED")
            /\ Transition(a, r, "APPROVED", s, "HUMAN_APPROVED", p, Nil)
        BY <1>2, <2>1, <3>1
      <3> HIDE DEF c, a
      <3>4. LET n2 == After(r, "APPROVED", p, Nil)
                e2 == AuditRow(a, n2, s, "HUMAN_APPROVED")
            IN  Moved(a, n2, e2) /\ record[a] = r /\ n2.state = "APPROVED"
        BY <1>0, <2>3, <3>2, <3>3, TransitionMoved
      <3> QED
        BY <3>1, <3>4
    <2>5. c.seen.state = "PROPOSED"
      BY <1>2, <2>3, Predecessors DEF CanTransition, ActionRecord
    <2> HIDE DEF n, e
    <2> QED
      BY <2>4, <2>5 DEF Stored
  <1>3. CASE ExecuteClaim(w) /\ CanTransition(a, c.seen, "EXECUTING")
    <2>1. pc[w] = "claim" /\ Transition(a, c.seen, "EXECUTING", c.subject, "DISPATCH", Nil, Nil)
      BY <1>3 DEF ExecuteClaim
    <2>2. Nil = IF "EXECUTING" \in Outcomes THEN "EXECUTING" ELSE Nil
      BY DEF Outcomes
    <2>3. /\ "EXECUTING" \in States \ {"APPROVED"} /\ "DISPATCH" \in Reasons
          /\ c.seen \in ActionRecord
      BY <1>0, <2>1 DEF States, Reasons, SeenPCs
    <2> DEFINE n == After(c.seen, "EXECUTING", Nil, Nil)
               e == AuditRow(a, n, c.subject, "DISPATCH")
    <2>4. Moved(a, n, e) /\ record[a] = c.seen /\ n.state = "EXECUTING"
      <3> HIDE DEF c, a
      <3> QED
        BY <1>0, <1>3, <2>1, <2>2, <2>3, SettledMoved
    <2>5. c.seen.state = "APPROVED"
      BY <1>3, <2>3, Predecessors DEF CanTransition, ActionRecord
    <2> HIDE DEF n, e
    <2> QED
      BY <2>4, <2>5 DEF Stored
  <1>4. ASSUME NEW label \in Settling, NEW st \in {"SUCCEEDED", "FAILED", "UNKNOWN"},
               NEW reason \in Reasons, NEW res, res = (IF st \in Outcomes THEN st ELSE Nil),
               Settle(w, label, st, reason, res),
               st = "FAILED" => \/ label = "denied" /\ reason = "DISPATCH_AUTHORITY_DENIED"
                                \/ label = "failed" /\ reason = "EXECUTOR_RESULT"
        PROVE  Stored(w)
    <2>1. CASE ~CanTransition(a, c.seen, st)
      BY <1>4, <2>1 DEF Settle, Stored
    <2>2. CASE CanTransition(a, c.seen, st)
      <3>1. pc[w] = label /\ Transition(a, c.seen, st, c.subject, reason, Nil, res)
        BY <1>4, <2>2 DEF Settle
      <3>2. st \in States \ {"APPROVED"} /\ c.seen \in ActionRecord
        BY <1>0, <1>4, <3>1, Labels DEF States, ClaimPCs
      <3> DEFINE n == After(c.seen, st, Nil, res)
                 e == AuditRow(a, n, c.subject, reason)
      <3>3. Moved(a, n, e) /\ record[a] = c.seen /\ n.state = st /\ e.reason = reason
        <4> HIDE DEF c, a
        <4> QED
          BY <1>0, <1>4, <2>2, <3>1, <3>2, SettledMoved
      <3> HIDE DEF n, e
      <3> QED
        BY <1>4, <3>1, <3>3 DEF Stored
    <2> QED
      BY <2>1, <2>2
  <1>5. CASE DispatchSettle(w)
    <2>1. /\ {"denied", "succeeded", "failed", "unknown"} = Settling
          /\ {"DISPATCH_AUTHORITY_DENIED", "EXECUTOR_RESULT", "EXECUTOR_RESULT_UNKNOWN"} \subseteq Reasons
          /\ Outcomes = {"SUCCEEDED", "FAILED"}
      BY DEF Settling, Reasons, Outcomes
    <2>2. CASE Settle(w, "denied", "FAILED", "DISPATCH_AUTHORITY_DENIED", "FAILED")
      BY <1>4, <2>1, <2>2
    <2>3. CASE Settle(w, "succeeded", "SUCCEEDED", "EXECUTOR_RESULT", "SUCCEEDED")
      BY <1>4, <2>1, <2>3
    <2>4. CASE Settle(w, "failed", "FAILED", "EXECUTOR_RESULT", "FAILED")
      BY <1>4, <2>1, <2>4
    <2>5. CASE Settle(w, "unknown", "UNKNOWN", "EXECUTOR_RESULT_UNKNOWN", Nil)
      BY <1>4, <2>1, <2>5
    <2> QED
      BY <1>5, <2>2, <2>3, <2>4, <2>5 DEF DispatchSettle
  <1>6. CASE UNCHANGED storeVars
    BY <1>6 DEF Stored
  <1> QED
    <2>1. \/ ProposeCreate(w) \/ ApproveCommit(w) \/ ExecuteClaim(w) \/ DispatchSettle(w)
          \/ UNCHANGED storeVars
      BY DEF Step, ReviewIdentity, ReviewContext, ReviewEvaluate, Get, ApproveIdentity,
             ApproveReidentify, ApproveStamp, ExecuteIdentity, ExecuteSigner, ExecuteCurrent,
             RefreshIdentities, Refresh, Authorize, Plan, Patch, Await, Rollout, Identity
    <2>2. ProposeCreate(w) /\ Exists(a) => UNCHANGED storeVars
      BY DEF ProposeCreate, Create
    <2>3. /\ ApproveCommit(w) /\ ~CanTransition(a, c.seen, "APPROVED") => UNCHANGED storeVars
          /\ ExecuteClaim(w) /\ ~CanTransition(a, c.seen, "EXECUTING") => UNCHANGED storeVars
      BY DEF ApproveCommit, ExecuteClaim
    <2> QED
      BY <1>1, <1>2, <1>3, <1>5, <1>6, <2>1, <2>2, <2>3

LEMMA StepSound == ASSUME JInv, NEW w \in Workers, Step(w) PROVE StoreSound'
  <1>1. StoreTypeOK /\ StoreSound /\ call[w].action \in Actions
    BY DEF JInv, IInv, TInv, TypeOK, CallInv, Call
  <1>2. UNCHANGED storeVars => StoreSound'
    BY <1>1 DEF storeVars, StoreSound, RecordsReadable, AuditIsHistory, Exists
  <1> QED
    BY <1>1, <1>2, StepStored, WriteSound DEF Stored

---------------------------------------------------------------------------
(***************************************************************************)
(* What a call relies on                                                   *)
(***************************************************************************)

\* The labels of a call that rely on nothing but its snapshots' times.
FreeLabels == {"idle", "get", "create", "approver"}

LEMMA LabelSets ==
    /\ FreeLabels \cap (ApprovingPCs \cup ReviewPCs \cup DatedPCs \cup {"executor", "signer"}) = {}
    /\ {"executor", "signer"} \cap (ApprovingPCs \cup ReviewPCs \cup DatedPCs) = {}
    /\ ApprovingPCs \cap DatedPCs = {} /\ ReviewPCs \cap DatedPCs = {}
    /\ {"id_executor", "id_approver", "id_proposer", "authorize"} \subseteq DatedPCs
    /\ "sign" \in ApprovingPCs /\ "authorize" # "sign"
    /\ ClaimPCs \subseteq DatedPCs
  BY DEF FreeLabels, ApprovingPCs, ReviewPCs, DatedPCs, ClaimPCs, Refreshing, InBackend, Settling

SnapshotsPast(c) == \A r \in Roles : c.verified[r] <= now

LEMMA FreeLocal ==
    ASSUME NEW p \in FreeLabels, NEW c, SnapshotsPast(c)
    PROVE  ApproveOK(p, c) /\ AuthorityOK(p, c)
  BY LabelSets DEF ApproveOK, AuthorityOK, SnapshotsPast

LEMMA DatedLocal ==
    ASSUME NEW p \in DatedPCs \ {"id_approver", "id_proposer", "authorize"}, NEW c, SnapshotsPast(c),
           c.deadline <= EvidenceAt[c.action] + EvidenceTTL
    PROVE  ApproveOK(p, c) /\ AuthorityOK(p, c)
  BY LabelSets DEF ApproveOK, AuthorityOK, SnapshotsPast

LEMMA ReviewLocalOK ==
    ASSUME NEW p \in ReviewPCs \cup (ApprovingPCs \ {"sign"}), NEW c, SnapshotsPast(c),
           p \in ApprovingPCs \/ c.op = "approve" => c.subject # c.seen.proposer
    PROVE  ApproveOK(p, c) /\ AuthorityOK(p, c)
  <1>1. p \notin DatedPCs /\ p \notin {"executor", "signer"}
    BY LabelSets
  <1>2. ApproveOK(p, c)
    BY <1>1 DEF ApproveOK, ReviewPCs
  <1>3. AuthorityOK(p, c)
    BY <1>1, LabelSets DEF AuthorityOK, SnapshotsPast
  <1> QED
    BY <1>2, <1>3

\* A step of w that leaves the clock and the grants alone.
LEMMA OwnLocal ==
    ASSUME LocalInv, NEW w \in Workers, Others(w), UNCHANGED envVars,
           ApproveOK(pc'[w], call'[w]), AuthorityOK(pc'[w], call'[w])
    PROVE  LocalInv'
  <1>1. ASSUME NEW v \in Workers PROVE ApproveOK(pc'[v], call'[v]) /\ AuthorityOK(pc'[v], call'[v])
    <2>1. CASE v = w
      BY <2>1
    <2>2. CASE v # w
      BY <2>2 DEF Others, LocalInv
    <2> QED
      BY <2>1, <2>2
  <1> QED
    BY <1>1 DEF LocalInv, ApproveOK, AuthorityOK, Since, envVars

LEMMA IdleLocal == now \in Nat => SnapshotsPast(Idle)
  BY DEF SnapshotsPast, Idle

LEMMA ReturnLocalInv ==
    ASSUME CallInv, now \in Nat, LocalInv, NEW w \in Workers, Return(w), UNCHANGED envVars
    PROVE  LocalInv'
  <1>1. Others(w) /\ pc'[w] = "idle" /\ call'[w] = Idle
    BY MoveFrame DEF Return
  <1> QED
    BY <1>1, IdleLocal, FreeLocal, OwnLocal DEF FreeLabels

\* A new snapshot keeps everything else, and is not of the future.
LEMMA SnapshotTaken ==
    ASSUME NEW c \in Call, now \in Nat, SnapshotsPast(c), NEW role \in Roles
    PROVE  LET d == [c EXCEPT !.verified = [@ EXCEPT ![role] = now]] IN
           /\ SnapshotsPast(d) /\ d.verified[role] = now
           /\ \A r \in Roles \ {role} : d.verified[r] = c.verified[r]
           /\ d.op = c.op /\ d.action = c.action /\ d.subject = c.subject /\ d.seen = c.seen
           /\ d.approval = c.approval /\ d.deadline = c.deadline
  <1> DEFINE f == [c.verified EXCEPT ![role] = now]
             d == [c EXCEPT !.verified = f]
  <1>1. c.verified \in [Roles -> Nat]
    BY DEF Call
  <1>2. /\ f[role] = now /\ \A r \in Roles \ {role} : f[r] = c.verified[r]
    BY <1>1
  <1>3. /\ d.verified = f /\ d.op = c.op /\ d.action = c.action /\ d.subject = c.subject
        /\ d.seen = c.seen /\ d.approval = c.approval /\ d.deadline = c.deadline
    BY DEF Call
  <1>4. SnapshotsPast(d)
    <2> HIDE DEF d, f
    <2> QED
      BY <1>1, <1>2, <1>3 DEF SnapshotsPast
  <1> QED
    BY <1>2, <1>3, <1>4

LEMMA IdentityLocal ==
    ASSUME CallInv, now \in Nat, LocalInv, NEW w \in Workers, NEW s, NEW role \in Roles, NEW label,
           Identity(w, s, role, label),
           \/ label = "signer" /\ call[w].op # "approve"
           \/ /\ label \in ReviewPCs \cup (ApprovingPCs \ {"sign"})
              /\ label \in ApprovingPCs \/ call[w].op = "approve" =>
                   call[w].subject # call[w].seen.proposer
    PROVE  LocalInv'
  <1>0. call[w] \in Call /\ SnapshotsPast(call[w]) /\ UNCHANGED envVars
    BY DEF CallInv, LocalInv, AuthorityOK, SnapshotsPast, Identity
  <1>1. CASE Return(w)
    BY <1>0, <1>1, ReturnLocalInv
  <1>2. CASE Proceed(w, label, [call[w] EXCEPT !.verified = [@ EXCEPT ![role] = now]])
    <2> DEFINE d == [call[w] EXCEPT !.verified = [@ EXCEPT ![role] = now]]
    <2>1. /\ SnapshotsPast(d) /\ d.op = call[w].op /\ d.subject = call[w].subject
          /\ d.seen = call[w].seen
      BY <1>0, SnapshotTaken
    <2>2. Others(w) /\ pc'[w] = label /\ call'[w] = d
      BY <1>2, MoveFrame
    <2> HIDE DEF d
    <2>3. CASE label = "signer" /\ call[w].op # "approve"
      <3>1. ApproveOK(label, d) /\ AuthorityOK(label, d)
        BY <2>1, <2>3, LabelSets DEF ApproveOK, AuthorityOK, SnapshotsPast
      <3> QED
        BY <1>0, <2>2, <3>1, OwnLocal
    <2>4. CASE /\ label \in ReviewPCs \cup (ApprovingPCs \ {"sign"})
               /\ label \in ApprovingPCs \/ call[w].op = "approve" =>
                   call[w].subject # call[w].seen.proposer
      BY <1>0, <2>1, <2>2, <2>4, ReviewLocalOK, OwnLocal
    <2> QED
      BY <2>3, <2>4
  <1> QED
    BY <1>1, <1>2 DEF Identity

LEMMA DeadlineBound ==
    ASSUME NEW c \in Call
    PROVE  PolicyDeadline(c) <= EvidenceAt[c.action] + EvidenceTTL
  <1> DEFINE x == c.observed.at + ResourceTTL
             y == EvidenceAt[c.action] + EvidenceTTL
  <1>1. x \in Nat /\ y \in Nat
    BY RemediationAssumption DEF Call
  <1>2. \E m \in {x, y} : \A n \in {x, y} : m =< n
    BY <1>1
  <1> QED
    BY <1>1, <1>2 DEF PolicyDeadline, Min

\* The facts about the call of w that each case below starts from.
LEMMA OwnFacts ==
    ASSUME JInv, NEW w \in Workers
    PROVE  /\ CallInv /\ now \in Nat /\ LocalInv /\ StoreTypeOK
           /\ call[w] \in Call /\ SnapshotsPast(call[w])
           /\ ApproveOK(pc[w], call[w]) /\ AuthorityOK(pc[w], call[w])
           /\ pc[w] \in SeenPCs => call[w].seen \in ActionRecord
  BY DEF JInv, IInv, TInv, TypeOK, CallInv, LocalInv, AuthorityOK, SnapshotsPast, Needs

LEMMA ReviewStepLocal ==
    ASSUME JInv, NEW w \in Workers, ReviewIdentity(w) \/ ReviewContext(w) \/ ReviewEvaluate(w)
    PROVE  LocalInv'
  <1> DEFINE c == call[w]
  <1>0. /\ CallInv /\ now \in Nat /\ LocalInv /\ c \in Call /\ SnapshotsPast(c)
        /\ pc[w] \in ReviewPCs
        /\ c.op = "approve" => c.subject # c.seen.proposer
    BY OwnFacts DEF ReviewIdentity, ReviewContext, ReviewEvaluate, ReviewPCs, ApproveOK
  <1> HIDE DEF c
  <1>1. CASE ReviewIdentity(w)
    <2>1. "review_context" \in ReviewPCs /\ "review_context" \notin ApprovingPCs /\ "responder" \in Roles
      BY DEF ReviewPCs, ApprovingPCs, Roles
    <2> QED
      BY <1>0, <1>1, <2>1, IdentityLocal DEF ReviewIdentity, c
  <1>2. CASE ReviewContext(w)
    <2> DEFINE d == [c EXCEPT !.observed = [version |-> version[Target[c.action]], at |-> now]]
    <2>1. d.op = c.op /\ d.subject = c.subject /\ d.seen = c.seen /\ d.verified = c.verified
      BY <1>0 DEF Call
    <2>2. Others(w) /\ pc'[w] = "review_evaluate" /\ call'[w] = d /\ UNCHANGED envVars
      BY <1>0, <1>2, MoveFrame DEF ReviewContext, c
    <2> HIDE DEF d
    <2>3. "review_evaluate" \in ReviewPCs /\ "review_evaluate" \notin ApprovingPCs
      BY DEF ReviewPCs, ApprovingPCs
    <2>4. ApproveOK("review_evaluate", d) /\ AuthorityOK("review_evaluate", d)
      BY <1>0, <2>1, <2>3, ReviewLocalOK DEF SnapshotsPast
    <2> QED
      BY <1>0, <2>2, <2>4, OwnLocal
  <1>3. CASE ReviewEvaluate(w)
    <2>1. UNCHANGED envVars
      BY <1>3 DEF ReviewEvaluate
    <2>2. CASE Return(w)
      BY <1>0, <2>1, <2>2, ReturnLocalInv
    <2> DEFINE d == [c EXCEPT !.deadline = PolicyDeadline(c), !.observed = NoObservation]
    <2>3. CASE Proceed(w, AfterReview(c.op), d)
      <3>1. /\ d.op = c.op /\ d.subject = c.subject /\ d.seen = c.seen /\ d.verified = c.verified
            /\ d.action = c.action /\ d.deadline = PolicyDeadline(c)
        BY <1>0 DEF Call
      <3>2. Others(w) /\ pc'[w] = AfterReview(c.op) /\ call'[w] = d
        BY <1>0, <2>3, MoveFrame
      <3> HIDE DEF d
      <3>3. SnapshotsPast(d) /\ d.deadline <= EvidenceAt[d.action] + EvidenceTTL
        BY <1>0, <3>1, DeadlineBound DEF SnapshotsPast
      <3>4. c.op \in {"propose", "approve", "execute"}
        BY <1>0 DEF Call, Ops
      <3>5. CASE c.op = "propose"
        <4>1. AfterReview(c.op) = "create" /\ "create" \in FreeLabels
          BY <3>5 DEF AfterReview, FreeLabels
        <4> QED
          BY <1>0, <2>1, <3>2, <3>3, <4>1, FreeLocal, OwnLocal
      <3>6. CASE c.op = "approve"
        <4>1. AfterReview(c.op) = "reapprover" /\ "reapprover" \in ApprovingPCs \ {"sign"}
          BY <3>6 DEF AfterReview, ApprovingPCs
        <4> QED
          BY <1>0, <2>1, <3>1, <3>2, <3>3, <3>6, <4>1, ReviewLocalOK, OwnLocal
      <3>7. CASE c.op = "execute"
        <4>1. /\ AfterReview(c.op) = "current"
              /\ "current" \in DatedPCs \ {"id_approver", "id_proposer", "authorize"}
          BY <3>7 DEF AfterReview, DatedPCs
        <4> QED
          BY <1>0, <2>1, <3>2, <3>3, <4>1, DatedLocal, OwnLocal
      <3> QED
        BY <3>4, <3>5, <3>6, <3>7
    <2> QED
      BY <1>3, <2>2, <2>3 DEF ReviewEvaluate, c
  <1> QED
    BY <1>1, <1>2, <1>3

LEMMA ApproveStepLocal ==
    ASSUME JInv, NEW w \in Workers,
           Get(w) \/ ApproveIdentity(w) \/ ApproveReidentify(w) \/ ApproveStamp(w)
    PROVE  LocalInv'
  <1> DEFINE c == call[w]
  <1>0. /\ CallInv /\ now \in Nat /\ LocalInv /\ c \in Call /\ SnapshotsPast(c)
        /\ StoreTypeOK /\ ApproveOK(pc[w], c)
        /\ UNCHANGED envVars
    BY OwnFacts DEF Get, ApproveIdentity, ApproveReidentify, ApproveStamp, Identity
  <1>r. CASE Return(w)
    BY <1>0, <1>r, ReturnLocalInv
  <1>1. CASE Get(w) /\ ~Return(w)
    <2> DEFINE d == [c EXCEPT !.seen = record[c.action]]
               label == IF c.op = "approve" THEN "approver" ELSE "executor"
    <2>1. d.op = c.op /\ d.verified = c.verified
      BY <1>0 DEF Call
    <2>2. Others(w) /\ pc'[w] = label /\ call'[w] = d
      BY <1>0, <1>1, MoveFrame DEF Get
    <2> HIDE DEF d
    <2>3. ApproveOK(label, d) /\ AuthorityOK(label, d)
      <3>1. CASE c.op = "approve"
        BY <1>0, <2>1, <3>1, FreeLocal DEF FreeLabels, SnapshotsPast
      <3>2. CASE c.op # "approve"
        BY <1>0, <2>1, <3>2, LabelSets DEF ApproveOK, AuthorityOK, SnapshotsPast
      <3> QED
        BY <3>1, <3>2
    <2> QED
      BY <1>0, <2>2, <2>3, OwnLocal
  <1>2. CASE ApproveIdentity(w) /\ ~Return(w)
    <2>1. Identity(w, c.subject, "approver", "review_identity") /\ c.subject # c.seen.proposer
      BY <1>2 DEF ApproveIdentity, MayApprove
    <2>2. "review_identity" \in ReviewPCs /\ "approver" \in Roles
      BY DEF ReviewPCs, Roles
    <2> QED
      BY <1>0, <2>1, <2>2, IdentityLocal
  <1>3. CASE ApproveReidentify(w)
    <2>1. Identity(w, c.subject, "approver", "stamp") /\ c.subject # c.seen.proposer
      BY <1>0, <1>3 DEF ApproveReidentify, ApproveOK, ApprovingPCs
    <2>2. "stamp" \in ApprovingPCs \ {"sign"} /\ "approver" \in Roles
      BY DEF ApprovingPCs, Roles
    <2> QED
      BY <1>0, <2>1, <2>2, IdentityLocal
  <1>4. CASE ApproveStamp(w) /\ ~Return(w)
    <2> DEFINE ap == [subject |-> c.subject, approved_at |-> now, expires_at |-> now + ApprovalTTL]
               d == [c EXCEPT !.approval = ap]
    <2>1. ap \in Approval /\ ap.subject = c.subject /\ ap.expires_at = ap.approved_at + ApprovalTTL
      BY <1>0, ApprovalTTLAssumption DEF Approval, Call
    <2>2. Others(w) /\ pc'[w] = "sign" /\ call'[w] = d
      BY <1>0, <1>4, MoveFrame DEF ApproveStamp
    <2> HIDE DEF ap
    <2>3. /\ d.subject = c.subject /\ d.seen = c.seen /\ d.verified = c.verified /\ d.op = c.op
          /\ d.approval = ap
      BY <1>0 DEF Call
    <2> HIDE DEF d
    <2>4. c.subject # c.seen.proposer
      BY <1>0, <1>4 DEF ApproveStamp, ApproveOK, ApprovingPCs
    <2>5. ApproveOK("sign", d)
      BY <2>1, <2>3, <2>4 DEF ApproveOK
    <2>6. AuthorityOK("sign", d)
      BY <1>0, <2>3, LabelSets DEF AuthorityOK, SnapshotsPast
    <2> QED
      BY <1>0, <2>2, <2>5, <2>6, OwnLocal
  <1> QED
    BY <1>r, <1>1, <1>2, <1>3, <1>4

LEMMA ExecuteStepLocal ==
    ASSUME JInv, NEW w \in Workers,
           ExecuteIdentity(w) \/ ExecuteSigner(w) \/ ExecuteCurrent(w) \/ ExecuteClaim(w)
    PROVE  LocalInv'
  <1> DEFINE c == call[w]
  <1>0. /\ CallInv /\ now \in Nat /\ LocalInv /\ c \in Call /\ SnapshotsPast(c)
        /\ ApproveOK(pc[w], c) /\ AuthorityOK(pc[w], c)
        /\ UNCHANGED envVars
    BY OwnFacts DEF ExecuteIdentity, ExecuteSigner, ExecuteCurrent, ExecuteClaim, Identity
  <1>r. CASE Return(w)
    BY <1>0, <1>r, ReturnLocalInv
  <1>1. CASE ExecuteIdentity(w) /\ ~Return(w)
    <2>1. Identity(w, c.subject, "executor", "signer") /\ c.op # "approve" /\ "executor" \in Roles
      BY <1>0, <1>1 DEF ExecuteIdentity, ApproveOK, Roles
    <2> QED
      BY <1>0, <2>1, IdentityLocal
  <1>2. CASE ExecuteSigner(w)
    <2>1. Identity(w, c.seen.approval.subject, "approver", "review_identity") /\ c.op # "approve"
      BY <1>0, <1>2 DEF ExecuteSigner, ApproveOK
    <2>2. "review_identity" \in ReviewPCs /\ "review_identity" \notin ApprovingPCs /\ "approver" \in Roles
      BY DEF ReviewPCs, ApprovingPCs, Roles
    <2> QED
      BY <1>0, <2>1, <2>2, IdentityLocal
  <1>3. CASE ExecuteCurrent(w) /\ ~Return(w)
    <2>1. pc[w] \in DatedPCs /\ "claim" \in DatedPCs \ {"id_approver", "id_proposer", "authorize"}
      BY <1>3 DEF ExecuteCurrent, DatedPCs
    <2>2. Others(w) /\ pc'[w] = "claim" /\ call'[w] = c
      BY <1>0, <1>3, MoveFrame DEF ExecuteCurrent
    <2>3. ApproveOK("claim", c) /\ AuthorityOK("claim", c)
      BY <1>0, <2>1, DatedLocal DEF AuthorityOK
    <2> HIDE DEF c
    <2> QED
      BY <1>0, <2>2, <2>3, OwnLocal
  <1>4. CASE ExecuteClaim(w) /\ ~Return(w)
    <2> DEFINE d == [c EXCEPT !.seen = After(c.seen, "EXECUTING", Nil, Nil)]
    <2>1. pc[w] \in DatedPCs /\ "id_executor" \in DatedPCs \ {"id_approver", "id_proposer", "authorize"}
      BY <1>4, LabelSets DEF ExecuteClaim, DatedPCs
    <2>2. Others(w) /\ pc'[w] = "id_executor" /\ call'[w] = d
      BY <1>0, <1>4, MoveFrame DEF ExecuteClaim
    <2>3. d.verified = c.verified /\ d.deadline = c.deadline /\ d.action = c.action
      BY <1>0 DEF Call
    <2> HIDE DEF d
    <2>4. ApproveOK("id_executor", d) /\ AuthorityOK("id_executor", d)
      BY <1>0, <2>1, <2>3, DatedLocal DEF AuthorityOK, SnapshotsPast
    <2> QED
      BY <1>0, <2>2, <2>4, OwnLocal
  <1> QED
    BY <1>r, <1>1, <1>2, <1>3, <1>4

LEMMA ClaimedStepLocal ==
    ASSUME JInv, NEW w \in Workers,
           RefreshIdentities(w) \/ Authorize(w) \/ Plan(w) \/ Patch(w) \/ Await(w) \/ Rollout(w)
    PROVE  LocalInv'
  <1> DEFINE c == call[w]
  <1>0. /\ CallInv /\ now \in Nat /\ LocalInv /\ c \in Call /\ SnapshotsPast(c)
        /\ AuthorityOK(pc[w], c)
        /\ UNCHANGED envVars
    BY OwnFacts DEF RefreshIdentities, Refresh, Authorize, Plan, Patch, Await, Rollout
  <1>p. pc[w] \in ClaimPCs
    BY DEF RefreshIdentities, Refresh, Authorize, Plan, Patch, Await, Rollout, ClaimPCs, Refreshing,
           InBackend
  <1>1. c.deadline <= EvidenceAt[c.action] + EvidenceTTL
    BY <1>0, <1>p, LabelSets DEF AuthorityOK
  <1>g. ASSUME NEW label \in ClaimPCs \ {"id_approver", "id_proposer", "authorize"}, Goto(w, label)
        PROVE  LocalInv'
    <2>1. Others(w) /\ pc'[w] = label /\ call'[w] = c
      BY <1>0, <1>g, MoveFrame
    <2>2. ApproveOK(label, c) /\ AuthorityOK(label, c)
      BY <1>0, <1>1, <1>g, LabelSets, DatedLocal
    <2> HIDE DEF c
    <2> QED
      BY <1>0, <2>1, <2>2, OwnLocal
  <1>2. CASE Authorize(w) \/ Plan(w) \/ Patch(w) \/ Await(w) \/ Rollout(w)
    <2>1. \E label \in {"plan", "denied", "patch", "unknown", "await", "succeeded", "rollout", "failed"} :
             Goto(w, label)
      BY <1>2 DEF Authorize, Plan, Patch, Await, Rollout
    <2>2. {"plan", "denied", "patch", "unknown", "await", "succeeded", "rollout", "failed"}
            \subseteq ClaimPCs \ {"id_approver", "id_proposer", "authorize"}
      BY DEF ClaimPCs, InBackend, Settling
    <2> QED
      BY <1>g, <2>1, <2>2
  <1>3. ASSUME NEW label, NEW s, NEW role \in Roles, NEW next, Refresh(w, label, s, role, next),
               \/ /\ label = "id_executor" /\ next = "id_approver"
                  /\ s = c.subject /\ role = "executor"
               \/ /\ label = "id_approver" /\ next = "id_proposer"
                  /\ s = c.seen.approval.subject /\ role = "approver"
               \/ /\ label = "id_proposer" /\ next = "authorize"
                  /\ s = c.seen.proposer /\ role = "responder"
        PROVE  LocalInv'
    <2>1. CASE Goto(w, "denied")
      BY <1>g, <2>1 DEF ClaimPCs, Settling
    <2> DEFINE d == [c EXCEPT !.verified = [@ EXCEPT ![role] = now]]
    <2>2. CASE Proceed(w, next, d) /\ role \in grants[s]
      <3>1. Others(w) /\ pc'[w] = next /\ call'[w] = d
        BY <1>0, <2>2, MoveFrame
      <3>2. /\ SnapshotsPast(d) /\ d.verified[role] = now
            /\ \A r \in Roles \ {role} : d.verified[r] = c.verified[r]
            /\ d.action = c.action /\ d.subject = c.subject /\ d.seen = c.seen
            /\ d.deadline = c.deadline
        BY <1>0, SnapshotTaken
      <3> HIDE DEF d
      <3>3. "executor" \in Roles /\ "approver" \in Roles /\ "responder" \in Roles /\ pc[w] = label
        BY <1>3 DEF Roles, Refresh
      <3>4. Since(s, role, d.verified[role])
        BY <2>2 DEF Since
      <3>5. next \in DatedPCs /\ next \notin ApprovingPCs \cup ReviewPCs \cup {"executor", "signer", "sign"}
        BY <1>3, LabelSets DEF ApprovingPCs, ReviewPCs
      <3>6. ApproveOK(next, d)
        BY <3>5 DEF ApproveOK
      <3>7. AuthorityOK(next, d)
        <4>1. CASE label = "id_executor"
          BY <1>1, <1>3, <3>2, <3>4, <4>1 DEF AuthorityOK, SnapshotsPast
        <4>2. CASE label = "id_approver"
          <5>1. Since(d.subject, "executor", d.verified["executor"])
            BY <1>0, <1>3, <3>2, <3>3, <4>2 DEF AuthorityOK
          <5> QED
            BY <1>1, <1>3, <3>2, <3>4, <4>2, <5>1 DEF AuthorityOK, SnapshotsPast
        <4>3. CASE label = "id_proposer"
          <5>1. /\ Since(d.subject, "executor", d.verified["executor"])
                /\ Since(d.seen.approval.subject, "approver", d.verified["approver"])
            BY <1>0, <1>3, <3>2, <3>3, <4>3 DEF AuthorityOK
          <5> QED
            BY <1>1, <1>3, <3>2, <3>4, <4>3, <5>1 DEF AuthorityOK, SnapshotsPast
        <4> QED
          BY <1>3, <4>1, <4>2, <4>3
      <3> QED
        BY <1>0, <3>1, <3>6, <3>7, OwnLocal
    <2> QED
      BY <1>3, <2>1, <2>2 DEF Refresh
  <1>4. CASE RefreshIdentities(w)
    <2>1. "executor" \in Roles /\ "approver" \in Roles /\ "responder" \in Roles
      BY DEF Roles
    <2> QED
      BY <1>3, <1>4, <2>1 DEF RefreshIdentities
  <1> QED
    BY <1>2, <1>4

LEMMA StepLocalInv == ASSUME JInv, NEW w \in Workers, Step(w) PROVE LocalInv'
  <1>1. CallInv /\ now \in Nat /\ LocalInv
    BY OwnFacts
  <1>2. CASE ProposeCreate(w) \/ ApproveCommit(w) \/ DispatchSettle(w)
    <2>1. Return(w) /\ UNCHANGED envVars
      BY <1>2 DEF ProposeCreate, ApproveCommit, DispatchSettle, Settle
    <2> QED
      BY <1>1, <2>1, ReturnLocalInv
  <1> QED
    BY <1>2, ReviewStepLocal, ApproveStepLocal, ExecuteStepLocal, ClaimedStepLocal DEF Step

LEMMA RevokeLocal ==
    ASSUME JInv, NEW s \in Subjects, NEW role \in Roles, Revoke(s, role)
    PROVE  LocalInv'
  <1>1. /\ now \in Nat /\ lastHeld \in [Subjects -> [Roles -> Nat]] /\ grants \in [Subjects -> SUBSET Roles]
        /\ now' = now /\ pc' = pc /\ call' = call
        /\ grants' = [grants EXCEPT ![s] = @ \ {role}]
        /\ lastHeld' = [lastHeld EXCEPT ![s] = [@ EXCEPT ![role] = now]]
    BY DEF JInv, IInv, TInv, TypeOK, Revoke
  <1>2. ASSUME NEW u \in Subjects, NEW r \in Roles, NEW t \in Nat, t <= now, Since(u, r, t)
        PROVE  r \in grants'[u] \/ lastHeld'[u][r] >= t
    <2>1. CASE u = s /\ r = role
      <3>1. lastHeld'[s][role] = now
        BY <1>1
      <3> QED
        BY <1>1, <1>2, <2>1, <3>1
    <2>2. CASE ~(u = s /\ r = role)
      <3>1. lastHeld'[u][r] = lastHeld[u][r] /\ (r \in grants[u] => r \in grants'[u])
        BY <1>1, <2>2
      <3> QED
        BY <1>2, <3>1 DEF Since
    <2> QED
      BY <2>1, <2>2
  <1>3. ASSUME NEW w \in Workers PROVE ApproveOK(pc[w], call[w])' /\ AuthorityOK(pc[w], call[w])'
    <2> DEFINE c == call[w]
    <2>1. ApproveOK(pc[w], c) /\ AuthorityOK(pc[w], c) /\ SnapshotsPast(c) /\ c \in Call
      BY OwnFacts
    <2>2. "executor" \in Roles /\ "approver" \in Roles /\ "responder" \in Roles
      BY DEF Roles
    <2>3. \A r \in Roles : c.verified[r] \in Nat /\ c.verified[r] <= now
      BY <2>1 DEF Call, SnapshotsPast
    <2>4. c.subject \in Subjects
      BY <2>1 DEF Call
    <2>5. pc[w] \in ClaimPCs => c.seen.proposer \in Subjects /\ c.seen.approval.subject \in Subjects
      <3> SUFFICES ASSUME pc[w] \in ClaimPCs
                   PROVE  c.seen.proposer \in Subjects /\ c.seen.approval.subject \in Subjects
        OBVIOUS
      <3>1. c.seen \in ActionRecord /\ record[c.action] = c.seen /\ c.seen.state = "EXECUTING"
        BY OwnFacts, Labels DEF JInv, IInv, ClaimInv
      <3>2. c.action \in Actions /\ record[c.action] # Nil
        BY <2>1, <3>1, NilAssumption DEF Call
      <3>3. Consistent(c.seen)
        BY <3>1, <3>2 DEF JInv, StoreSound, RecordsReadable, Exists
      <3>4. c.seen.approval # Nil
        BY <3>1, <3>3 DEF Consistent
      <3> QED
        BY <3>1, <3>4 DEF ActionRecord, Approval
    <2>6. {"id_approver", "id_proposer", "authorize"} \subseteq ClaimPCs
      BY DEF ClaimPCs, Refreshing
    <2> HIDE DEF c
    <2>7. AuthorityOK(pc[w], c)'
      <3>1. c' = c
        BY <1>1 DEF c
      <3>2. /\ \A r \in Roles : c.verified[r] <= now
            /\ pc[w] \in DatedPCs => c.deadline <= EvidenceAt[c.action] + EvidenceTTL
        BY <2>1 DEF AuthorityOK
      <3>3. pc[w] \in {"id_approver", "id_proposer", "authorize"} =>
              "executor" \in grants'[c.subject] \/ lastHeld'[c.subject]["executor"] >= c.verified["executor"]
        BY <1>2, <2>1, <2>2, <2>3, <2>4 DEF AuthorityOK
      <3>4. pc[w] \in {"id_proposer", "authorize"} =>
              \/ "approver" \in grants'[c.seen.approval.subject]
              \/ lastHeld'[c.seen.approval.subject]["approver"] >= c.verified["approver"]
        BY <1>2, <2>1, <2>2, <2>3, <2>5, <2>6 DEF AuthorityOK
      <3>5. pc[w] = "authorize" =>
              \/ "responder" \in grants'[c.seen.proposer]
              \/ lastHeld'[c.seen.proposer]["responder"] >= c.verified["responder"]
        BY <1>2, <2>1, <2>2, <2>3, <2>5, <2>6 DEF AuthorityOK
      <3> QED
        BY <1>1, <3>1, <3>2, <3>3, <3>4, <3>5 DEF AuthorityOK, Since
    <2>8. ApproveOK(pc[w], c)'
      BY <1>1, <2>1 DEF ApproveOK, c
    <2> QED
      BY <2>7, <2>8 DEF c
  <1> QED
    BY <1>3 DEF LocalInv

LEMMA TickLocal == ASSUME JInv, Tick PROVE LocalInv'
  <1>1. /\ now \in Nat /\ now' = now + 1 /\ UNCHANGED <<grants, lastHeld, pc, call>>
    BY DEF JInv, IInv, TInv, TypeOK, Tick
  <1>2. ASSUME NEW w \in Workers PROVE \A r \in Roles : call[w].verified[r] <= now'
    <2>1. \A r \in Roles : call[w].verified[r] \in Nat /\ call[w].verified[r] <= now
      BY OwnFacts DEF Call, SnapshotsPast
    <2> QED
      BY <1>1, <2>1
  <1> QED
    BY <1>1, <1>2 DEF JInv, LocalInv, ApproveOK, AuthorityOK, Since

LEMMA CallLocal ==
    ASSUME JInv, NEW w \in Workers, Begin(w) \/ Crash(w) PROVE LocalInv'
  <1>0. CallInv /\ now \in Nat /\ LocalInv /\ UNCHANGED envVars
    BY OwnFacts DEF Begin, Crash
  <1>1. CASE Crash(w)
    BY <1>0, <1>1, ReturnLocalInv DEF Crash
  <1>2. CASE Begin(w)
    <2>1. PICK op \in Ops, a \in Actions, s \in Subjects :
            Proceed(w, IF op = "propose" THEN "review_identity" ELSE "get",
                    [Idle EXCEPT !.op = op, !.action = a, !.subject = s])
      BY <1>2 DEF Begin
    <2> DEFINE d == [Idle EXCEPT !.op = op, !.action = a, !.subject = s]
               label == IF op = "propose" THEN "review_identity" ELSE "get"
    <2>2. Others(w) /\ pc'[w] = label /\ call'[w] = d
      BY <1>0, <2>1, MoveFrame
    <2>3. d.op = op /\ d.verified = Idle.verified
      BY IdleType DEF Call
    <2> HIDE DEF d
    <2>4. SnapshotsPast(d)
      BY <1>0, <2>3, IdleLocal DEF SnapshotsPast
    <2>5. ApproveOK(label, d) /\ AuthorityOK(label, d)
      <3>1. CASE op = "propose"
        <4>1. label \in ReviewPCs /\ label \notin ApprovingPCs /\ d.op # "approve"
          BY <2>3, <3>1 DEF ReviewPCs, ApprovingPCs
        <4> QED
          BY <2>4, <4>1, ReviewLocalOK
      <3>2. CASE op # "propose"
        BY <2>4, <3>2, FreeLocal DEF FreeLabels
      <3> QED
        BY <3>1, <3>2
    <2> QED
      BY <1>0, <2>2, <2>5, OwnLocal
  <1> QED
    BY <1>1, <1>2

---------------------------------------------------------------------------
(***************************************************************************)
(* Outcomes and orphans                                                    *)
(***************************************************************************)

\* What any step of a call leaves alone, and when it makes a claim or calls the backend.
LEMMA StepFrame ==
    ASSUME JInv, NEW w \in Workers, Step(w)
    PROVE  /\ applied' = applied /\ orphaned' = orphaned /\ Others(w)
           /\ dispatches' = dispatches \/ (Authorize(w) /\ UNCHANGED storeVars)
           /\ pc'[w] \in ClaimPCs => /\ call'[w].action = call[w].action
                                     /\ pc[w] \in ClaimPCs \/ phase[call[w].action] = "APPROVED"
  <1>0. CallInv /\ TInv /\ WriteInv /\ call[w] \in Call
    BY OwnFacts DEF JInv, IInv
  <1>1. applied' = applied /\ orphaned' = orphaned
    BY DEF Step, ReviewIdentity, ReviewContext, ReviewEvaluate, Get, ApproveIdentity, ProposeCreate,
           ApproveReidentify, ApproveStamp, ExecuteIdentity, ExecuteSigner, ExecuteCurrent,
           RefreshIdentities, Refresh, Authorize, Plan, Patch, Await, Rollout, Identity,
           ApproveCommit, ExecuteClaim, DispatchSettle, Settle, resourceVars, historyVars
  <1>2. dispatches' = dispatches \/ (Authorize(w) /\ UNCHANGED storeVars)
    BY DEF Step, ReviewIdentity, ReviewContext, ReviewEvaluate, Get, ApproveIdentity, ProposeCreate,
           ApproveReidentify, ApproveStamp, ExecuteIdentity, ExecuteSigner, ExecuteCurrent,
           RefreshIdentities, Refresh, Authorize, Plan, Patch, Await, Rollout, Identity,
           ApproveCommit, ExecuteClaim, DispatchSettle, Settle, historyVars
  <1>3. CASE LocalStep(w)
    BY <1>1, <1>2, <1>3 DEF LocalStep
  <1>4. CASE ProposeCreate(w) \/ ApproveCommit(w) \/ DispatchSettle(w)
    <2>1. Return(w)
      BY <1>4 DEF ProposeCreate, ApproveCommit, DispatchSettle, Settle
    <2>2. Others(w) /\ pc'[w] = "idle" /\ "idle" \notin ClaimPCs
      BY <1>0, <2>1, MoveFrame DEF Return, ClaimPCs, Refreshing, InBackend, Settling
    <2> QED
      BY <1>1, <1>2, <2>2
  <1>5. CASE Authorize(w) \/ Patch(w)
    <2>1. \E label : Goto(w, label)
      BY <1>5 DEF Authorize, Patch
    <2>2. Others(w) /\ call'[w] = call[w]
      BY <1>0, <2>1, MoveFrame
    <2>3. pc[w] \in ClaimPCs
      BY <1>5 DEF Authorize, Patch, ClaimPCs, Refreshing, InBackend
    <2> QED
      BY <1>1, <1>2, <2>2, <2>3
  <1>6. CASE ExecuteClaim(w)
    <2>1. CASE Return(w)
      <3>1. Others(w) /\ pc'[w] = "idle" /\ "idle" \notin ClaimPCs
        BY <1>0, <2>1, MoveFrame DEF Return, ClaimPCs, Refreshing, InBackend, Settling
      <3> QED
        BY <1>1, <1>2, <3>1
    <2>2. CASE ~Return(w)
      <3> DEFINE c == call[w]
                 d == [c EXCEPT !.seen = After(c.seen, "EXECUTING", Nil, Nil)]
      <3>1. CanTransition(c.action, c.seen, "EXECUTING") /\ Proceed(w, "id_executor", d) /\ pc[w] = "claim"
        BY <1>6, <2>2 DEF ExecuteClaim
      <3>2. d.action = c.action
        BY <1>0 DEF Call
      <3>3. Others(w) /\ call'[w].action = c.action
        <4> HIDE DEF d
        <4> QED
          BY <1>0, <3>1, <3>2, MoveFrame
      <3>4. c.seen \in ActionRecord /\ c.action \in Actions
        BY <1>0, <3>1, OwnFacts DEF SeenPCs, Call
      <3>5. phase[c.action] = "APPROVED"
        <4>1. record[c.action] = c.seen /\ c.seen.state = "APPROVED"
          BY <3>1, <3>4, Predecessors DEF CanTransition, ActionRecord
        <4> QED
          BY <3>4, <4>1, NilAssumption DEF phase, Exists
      <3> QED
        BY <1>1, <1>2, <3>3, <3>5
    <2> QED
      BY <2>1, <2>2
  <1> QED
    BY <1>0, <1>3, <1>4, <1>5, <1>6, StepLocal

LEMMA OrphanUntouched ==
    ASSUME JInv, NEW w \in Workers, Step(w), NEW o \in orphaned
    PROVE  /\ record'[o] = record[o] /\ dispatches'[o] = dispatches[o]
           /\ phase'[o] = "EXECUTING" /\ ~Claims(w, o)'
  <1> DEFINE a == call[w].action
  <1>0. /\ o \in Actions /\ a \in Actions /\ phase[o] = "EXECUTING" /\ ~Claims(w, o)
        /\ record \in [Actions -> ActionRecord \cup {Nil}] /\ dispatches \in [Actions -> Nat]
    BY OwnFacts DEF JInv, OrphanInv, IInv, TInv, TypeOK, StoreTypeOK, Call
  <1>1. Exists(o) /\ record[o].state = "EXECUTING"
    BY <1>0 DEF phase
  <1>2. ~Claims(w, o)'
    <2> SUFFICES ASSUME pc'[w] \in ClaimPCs, call'[w].action = o PROVE FALSE
      BY DEF Claims
    <2>1. a = o /\ (pc[w] \in ClaimPCs \/ phase[o] = "APPROVED")
      BY StepFrame
    <2> QED
      BY <1>0, <2>1 DEF Claims
  <1>3. record'[o] = record[o]
    <2>1. CASE UNCHANGED storeVars
      BY <2>1 DEF storeVars
    <2>2. CASE a # o
      <3>1. UNCHANGED storeVars \/ \E n : record' = [record EXCEPT ![a] = n]
        BY StepStored DEF Stored, Moved, Created
      <3> QED
        BY <1>0, <2>1, <2>2, <3>1
    <2>3. CASE a = o
      <3>1. Settling \subseteq ClaimPCs
        BY DEF ClaimPCs
      <3>2. UNCHANGED storeVars
        BY <1>0, <1>1, <2>3, <3>1, StepStored DEF Stored, Created, Claims
      <3> QED
        BY <2>1, <3>2
    <2> QED
      BY <2>2, <2>3
  <1>4. dispatches'[o] = dispatches[o]
    <2>1. CASE dispatches' = dispatches
      BY <2>1
    <2>2. CASE Authorize(w)
      <3>1. pc[w] \in ClaimPCs
        BY <2>2 DEF Authorize, ClaimPCs, Refreshing
      <3>2. a # o
        BY <1>0, <3>1 DEF Claims
      <3> QED
        BY <1>0, <2>2, <3>2 DEF Authorize
    <2> QED
      BY <2>1, <2>2, StepFrame
  <1>5. phase'[o] = "EXECUTING"
    BY <1>0, <1>1, <1>3 DEF phase, Exists
  <1> QED
    BY <1>2, <1>3, <1>4, <1>5

LEMMA StepOrphan == ASSUME JInv, NEW w \in Workers, Step(w) PROVE OrphanInv'
  <1>1. orphaned' = orphaned /\ Others(w)
    BY StepFrame
  <1>2. ASSUME NEW o \in orphaned PROVE phase'[o] = "EXECUTING" /\ \A v \in Workers : ~Claims(v, o)'
    <2>1. phase'[o] = "EXECUTING" /\ ~Claims(w, o)'
      BY OrphanUntouched
    <2>2. ASSUME NEW v \in Workers \ {w} PROVE ~Claims(v, o)'
      BY <1>1 DEF JInv, OrphanInv, Others, Claims
    <2> QED
      BY <2>1, <2>2
  <1> QED
    BY <1>1, <1>2 DEF OrphanInv

LEMMA StepOutcome == ASSUME JInv, NEW w \in Workers, Step(w) PROVE OutcomeInv'
  <1> DEFINE a == call[w].action
  <1>0. /\ a \in Actions /\ StoreTypeOK /\ StoreSound /\ applied' = applied
        /\ dispatches \in [Actions -> Nat]
    BY OwnFacts, StepFrame DEF JInv, IInv, TInv, TypeOK, Call
  <1> SUFFICES ASSUME NEW b \in Actions, NEW e \in audit', phase'[b] = "FAILED", e.action = b,
                      e.revision = record'[b].revision
               PROVE  IF e.reason = "DISPATCH_AUTHORITY_DENIED"
                        THEN dispatches'[b] = 0 /\ b \notin applied
                        ELSE b \in applied
    BY <1>0 DEF OutcomeInv
  <1>1. CASE phase[b] = "FAILED" /\ e \in audit /\ record'[b] = record[b] /\ dispatches'[b] = dispatches[b]
    BY <1>1 DEF JInv, OutcomeInv
  <1>2. CASE UNCHANGED storeVars
    <2>1. phase[b] = "FAILED" /\ e \in audit /\ record'[b] = record[b]
      BY <1>2 DEF storeVars, phase, Exists
    <2>2. CASE Authorize(w)
      <3>1. pc[w] \in ClaimPCs
        BY <2>2 DEF Authorize, ClaimPCs, Refreshing
      <3>2. record[a].state = "EXECUTING"
        BY <3>1 DEF JInv, IInv, ClaimInv
      <3>3. b # a
        BY <1>0, <2>1, <3>2 DEF phase
      <3>4. dispatches'[b] = dispatches[b]
        BY <1>0, <2>2, <3>3 DEF Authorize
      <3> QED
        BY <1>1, <2>1, <3>4
    <2> QED
      BY <1>1, <2>1, <2>2, StepFrame
  <1>3. CASE ~(UNCHANGED storeVars)
    <2>1. dispatches' = dispatches
      BY <1>3, StepFrame
    <2>2. PICK n, r :
            /\ Moved(a, n, r) \/ (Created(a, n, r) /\ n.state = "PROPOSED")
            /\ n.state = "FAILED" =>
                 \/ pc[w] = "denied" /\ r.reason = "DISPATCH_AUTHORITY_DENIED"
                 \/ pc[w] = "failed" /\ r.reason = "EXECUTOR_RESULT"
      BY <1>3, StepStored DEF Stored
    <2>3. /\ n \in ActionRecord /\ r \in AuditEvent /\ r.action = a /\ r.revision = n.revision
          /\ record' = [record EXCEPT ![a] = n] /\ audit' = audit \cup {r}
      BY <2>2 DEF Moved, Created
    <2>4. /\ record'[a] = n /\ n # Nil /\ {x \in audit' : x.action = a} = Rows(a) \cup {r}
          /\ \A d \in Actions \ {a} : record'[d] = record[d] /\ Rows(d)' = Rows(d)
      <3> HIDE DEF a
      <3>1. /\ record'[a] = n /\ n # Nil
            /\ \A d \in Actions \ {a} : record'[d] = record[d]
        BY <1>0, <2>3, NilAssumption DEF StoreTypeOK
      <3>2. {x \in audit' : x.action = a} = Rows(a) \cup {r}
        BY <1>0, <2>3 DEF Rows
      <3>3. \A d \in Actions \ {a} : Rows(d)' = Rows(d)
        BY <1>0, <2>3 DEF Rows
      <3> QED
        BY <3>1, <3>2, <3>3
    <2>5. CASE b # a
      <3>1. phase[b] = "FAILED" /\ e \in audit
        BY <2>3, <2>4, <2>5 DEF phase, Exists
      <3> QED
        BY <1>1, <2>1, <2>4, <2>5, <3>1
    <2>6. CASE b = a
      <3>1. n.state = "FAILED" /\ Moved(a, n, r)
        BY <2>2, <2>4, <2>6 DEF phase, Exists
      <3>2. e = r
        <4>1. record[a] \in ActionRecord /\ n.revision = record[a].revision + 1
          BY <3>1 DEF Moved
        <4>2. record[a].revision \in Nat /\ Exists(a)
          BY <4>1, NilAssumption DEF ActionRecord, Exists
        <4>3. HistoryRows(Rows(a), record[a])
          BY <1>0, <4>1, <4>2, HistoryMeans DEF StoreSound, AuditIsHistory, Rows
        <4>4. \A x \in Rows(a) : x.revision # n.revision
          BY <4>1, <4>2, <4>3 DEF HistoryRows
        <4>5. e \in audit => e \in Rows(a)
          BY <2>6 DEF Rows
        <4> QED
          BY <2>3, <2>4, <2>6, <4>4, <4>5
      <3>3. CASE pc[w] = "denied" /\ r.reason = "DISPATCH_AUTHORITY_DENIED"
        <4>1. pc[w] \in Undispatched /\ pc[w] \in Unsent
          BY <3>3 DEF Undispatched, Unsent
        <4> QED
          BY <2>1, <2>6, <3>2, <3>3, <4>1 DEF JInv, IInv, DispatchInv, WriteInv
      <3>4. CASE pc[w] = "failed" /\ r.reason = "EXECUTOR_RESULT"
        <4>1. pc[w] \in Landed
          BY <3>4 DEF Landed
        <4> QED
          BY <2>6, <3>2, <3>4, <4>1 DEF JInv, IInv, WriteInv
      <3> QED
        BY <2>2, <3>1, <3>3, <3>4
    <2> QED
      BY <2>5, <2>6
  <1> QED
    BY <1>2, <1>3

LEMMA InitJInv == Init => JInv
  <1> SUFFICES ASSUME Init PROVE JInv
    OBVIOUS
  <1>1. IInv
    BY SafeInit
  <1>2. \A a \in Actions : ~Exists(a) /\ phase[a] = "ABSENT"
    BY DEF Init, StoreInit, Exists, phase
  <1>3. StoreSound
    BY <1>2 DEF Init, StoreInit, StoreSound, RecordsReadable, AuditIsHistory
  <1>4. LocalInv
    <2> SUFFICES ASSUME NEW w \in Workers PROVE ApproveOK(pc[w], call[w]) /\ AuthorityOK(pc[w], call[w])
      BY DEF LocalInv
    <2>1. pc[w] = "idle" /\ call[w] = Idle /\ now \in Nat
      BY DEF Init
    <2> QED
      BY <2>1, IdleLocal, FreeLocal DEF FreeLabels
  <1>5. OutcomeInv /\ OrphanInv
    BY DEF Init, StoreInit, OutcomeInv, OrphanInv
  <1> QED
    BY <1>1, <1>3, <1>4, <1>5 DEF JInv

LEMMA NextJInv == JInv /\ [Next]_vars => JInv'
  <1> SUFFICES ASSUME JInv, [Next]_vars PROVE StoreSound' /\ LocalInv' /\ OutcomeInv' /\ OrphanInv'
    BY SafeNext DEF JInv
  <1> USE DEF envVars, resourceVars, historyVars
  <1>s. UNCHANGED storeVars => StoreSound' /\ phase' = phase
    BY DEF JInv, storeVars, StoreSound, RecordsReadable, AuditIsHistory, Exists, phase
  <1>o. UNCHANGED <<storeVars, dispatches, applied>> => OutcomeInv'
    BY <1>s DEF JInv, OutcomeInv, storeVars
  <1>l. UNCHANGED <<envVars, pc, call>> => LocalInv'
    BY DEF JInv, LocalInv, ApproveOK, AuthorityOK, Since
  <1>p. UNCHANGED <<storeVars, orphaned, pc, call>> => OrphanInv'
    BY <1>s DEF JInv, OrphanInv, Claims
  <1>1. ASSUME NEW w \in Workers, Step(w) PROVE StoreSound' /\ LocalInv' /\ OutcomeInv' /\ OrphanInv'
    BY <1>1, StepSound, StepLocalInv, StepOutcome, StepOrphan
  <1>2. ASSUME NEW w \in Workers, Begin(w) \/ Crash(w)
        PROVE  StoreSound' /\ LocalInv' /\ OutcomeInv' /\ OrphanInv'
    <2>1. UNCHANGED <<storeVars, dispatches, applied>>
      BY <1>2 DEF Begin, Crash
    <2>2. LocalInv'
      BY <1>2, CallLocal
    <2>3. Others(w) /\ pc'[w] \notin ClaimPCs
      <3>1. {"idle", "review_identity", "get"} \cap ClaimPCs = {}
        BY DEF ClaimPCs, Refreshing, InBackend, Settling
      <3>2. PICK label \in {"idle", "review_identity", "get"} : \E d : Proceed(w, label, d)
        BY <1>2 DEF Begin, Crash, Return
      <3> QED
        BY <3>1, <3>2, OwnFacts, MoveFrame
    <2>4. ASSUME NEW o \in orphaned' PROVE phase'[o] = "EXECUTING" /\ \A v \in Workers : ~Claims(v, o)'
      <3>1. CASE o \in orphaned
        <4>1. phase'[o] = "EXECUTING" /\ \A v \in Workers : ~Claims(v, o)
          BY <1>s, <2>1, <3>1 DEF JInv, OrphanInv
        <4> QED
          BY <2>3, <4>1 DEF Others, Claims
      <3>2. CASE o \notin orphaned
        <4>1. pc[w] \in ClaimPCs /\ o = call[w].action
          BY <1>2, <2>4, <3>2 DEF Begin, Crash
        <4>2. /\ record[o] = call[w].seen /\ call[w].seen.state = "EXECUTING"
              /\ call[w].seen \in ActionRecord /\ o \in Actions
              /\ \A v \in Workers \ {w} : pc[v] \in ClaimPCs => call[v].action # o
          BY <4>1, OwnFacts, Labels DEF JInv, IInv, ClaimInv, Call
        <4>3. phase'[o] = "EXECUTING"
          BY <1>s, <2>1, <4>2, NilAssumption DEF phase, Exists
        <4> QED
          BY <2>3, <4>2, <4>3 DEF Others, Claims
      <3> QED
        BY <3>1, <3>2
    <2> QED
      BY <1>s, <1>o, <2>1, <2>2, <2>4 DEF OrphanInv
  <1>3. ASSUME NEW a \in Actions, ServeWrite(a) \/ LoseWrite(a)
        PROVE  StoreSound' /\ LocalInv' /\ OutcomeInv' /\ OrphanInv'
    <2>1. UNCHANGED <<storeVars, dispatches, orphaned, envVars, pc, call>> /\ a \in inflight
      BY <1>3 DEF ServeWrite, LoseWrite
    <2>2. \A b \in Actions : b # a => (b \in applied' <=> b \in applied)
      BY <1>3 DEF ServeWrite, LoseWrite
    <2>3. phase[a] # "FAILED" /\ phase' = phase
      BY <1>s, <2>1 DEF JInv, IInv, WriteInv, WriteAt
    <2>4. OutcomeInv'
      BY <2>1, <2>2, <2>3 DEF JInv, OutcomeInv, storeVars
    <2> QED
      BY <1>s, <1>l, <1>p, <2>1, <2>4
  <1>4. ASSUME NEW r \in Resources, ExternalWrite(r)
        PROVE  StoreSound' /\ LocalInv' /\ OutcomeInv' /\ OrphanInv'
    BY <1>4, <1>s, <1>o, <1>l, <1>p DEF ExternalWrite
  <1>5. ASSUME NEW s \in Subjects, NEW role \in Roles, Revoke(s, role)
        PROVE  StoreSound' /\ LocalInv' /\ OutcomeInv' /\ OrphanInv'
    BY <1>5, <1>s, <1>o, <1>p, RevokeLocal DEF Revoke
  <1>6. CASE Tick
    BY <1>6, <1>s, <1>o, <1>p, TickLocal DEF Tick
  <1>7. CASE UNCHANGED vars
    BY <1>7, <1>s, <1>o, <1>l, <1>p DEF vars
  <1> QED
    BY <1>1, <1>2, <1>3, <1>4, <1>5, <1>6, <1>7 DEF Next

LEMMA JInvariant == Spec => []JInv
  BY InitJInv, NextJInv, PTL DEF Spec

---------------------------------------------------------------------------
(***************************************************************************)
(* Theorems                                                                *)
(***************************************************************************)

(* Whatever calls race and die, every row of the action table passes the   *)
(* validator that reads it, and the audit table is its complete and legal  *)
(* history.                                                                *)
THEOREM TablesSound == Spec => []StoreSound
  <1>1. JInv => StoreSound
    BY DEF JInv
  <1> QED
    BY <1>1, JInvariant, PTL

(* A SUCCEEDED action was applied, a denied one never reached the backend, *)
(* and no write of a settled or unclaimed action is still on its way.      *)
THEOREM OutcomesTrue == Spec => []DefiniteOutcome
  <1>1. JInv => DefiniteOutcome
    <2> SUFFICES ASSUME JInv, NEW a \in Actions, phase[a] = "FAILED"
                 PROVE  IF Reason(a) = "DISPATCH_AUTHORITY_DENIED"
                          THEN dispatches[a] = 0 /\ a \notin applied
                          ELSE a \in applied
      BY DEF DefiniteOutcome, JInv, IInv, WriteInv, WriteAt
    <2>1. Exists(a)
      BY DEF phase
    <2>2. \E e \in audit : e.action = a /\ e.revision = record[a].revision
      BY <2>1 DEF JInv, StoreSound, AuditIsHistory
    <2> DEFINE f == CHOOSE e \in audit : e.action = a /\ e.revision = record[a].revision
    <2>3. f \in audit /\ f.action = a /\ f.revision = record[a].revision
      BY <2>2
    <2> HIDE DEF f
    <2>4. IF f.reason = "DISPATCH_AUTHORITY_DENIED" THEN dispatches[a] = 0 /\ a \notin applied
                                                    ELSE a \in applied
      BY <2>3 DEF JInv, OutcomeInv
    <2> QED
      BY <2>4 DEF Reason, f
  <1> QED
    BY <1>1, JInvariant, PTL

(* A claim whose worker died stays EXECUTING as it was: nobody rewrites    *)
(* its row or calls the backend for it again.                              *)
THEOREM OrphansFrozen == Spec => OrphanStays
  <1> DEFINE Kept == \A a \in orphaned : record'[a] = record[a] /\ dispatches'[a] = dispatches[a]
  <1>1. JInv /\ [Next]_vars => [Kept]_vars
    <2> SUFFICES ASSUME JInv, Next PROVE Kept
      OBVIOUS
    <2>1. ASSUME NEW w \in Workers, Step(w) PROVE Kept
      BY <2>1, OrphanUntouched
    <2>2. CASE UNCHANGED <<storeVars, dispatches>>
      BY <2>2 DEF storeVars
    <2> QED
      BY <2>1, <2>2 DEF Next, Begin, Crash, ServeWrite, LoseWrite, Revoke, ExternalWrite, Tick,
                        historyVars
  <1>2. Spec => [][Kept]_vars
    BY <1>1, JInvariant, PTL DEF Spec
  <1> QED
    BY <1>2 DEF OrphanStays

\* What holds when w calls the backend for action a.
Authorised(w, a) ==
    /\ ApprovalCurrent(record[a])
    /\ now <= EvidenceAt[a] + EvidenceTTL
    /\ HeldRecently(record[a].proposer, "responder")
    /\ HeldRecently(record[a].approval.subject, "approver")
    /\ HeldRecently(call[w].subject, "executor")

LEMMA DispatchAuthorised ==
    ASSUME JInv, NEW w \in Workers, Authorize(w), Authorized(call[w])
    PROVE  Authorised(w, call[w].action)
  <1> DEFINE c == call[w]
  <1>0. /\ c \in Call /\ now \in Nat /\ pc[w] = "authorize" /\ AuthorityOK(pc[w], c)
        /\ c.seen \in ActionRecord
        /\ lastHeld \in [Subjects -> [Roles -> Nat]]
    BY OwnFacts DEF Authorize, SeenPCs, ClaimPCs, Refreshing, JInv, IInv, TInv, TypeOK
  <1>1. pc[w] \in ClaimPCs /\ pc[w] \in DatedPCs
    BY <1>0, LabelSets DEF ClaimPCs, Refreshing
  <1>2. record[c.action] = c.seen /\ c.seen.state = "EXECUTING" /\ c.action \in Actions
    BY <1>0, <1>1 DEF JInv, IInv, ClaimInv, Call
  <1>3. c.seen.approval.subject \in Subjects /\ c.seen.proposer \in Subjects /\ c.subject \in Subjects
    <2>1. Consistent(c.seen)
      BY <1>0, <1>2, NilAssumption DEF JInv, StoreSound, RecordsReadable, Exists
    <2>2. c.seen.approval # Nil
      BY <1>2, <2>1 DEF Consistent
    <2> QED
      BY <1>0, <2>2 DEF ActionRecord, Approval, Call
  <1>4. ASSUME NEW s \in Subjects, NEW role \in Roles, Since(s, role, c.verified[role])
        PROVE  HeldRecently(s, role)
    <2>1. now < c.verified[role] + IdentityTTL /\ c.verified[role] \in Nat
      BY <1>0, <1>4 DEF Authorized, Fresh, Call
    <2>2. lastHeld[s][role] \in Nat /\ IdentityTTL \in Nat
      BY <1>0, RemediationAssumption
    <2> QED
      BY <1>0, <1>4, <2>1, <2>2 DEF Since, HeldRecently
  <1>5. /\ Since(c.subject, "executor", c.verified["executor"])
        /\ Since(c.seen.approval.subject, "approver", c.verified["approver"])
        /\ Since(c.seen.proposer, "responder", c.verified["responder"])
    BY <1>0 DEF AuthorityOK
  <1>6. /\ HeldRecently(c.subject, "executor") /\ HeldRecently(c.seen.approval.subject, "approver")
        /\ HeldRecently(c.seen.proposer, "responder")
    BY <1>3, <1>4, <1>5 DEF Roles
  <1>7. now <= EvidenceAt[c.action] + EvidenceTTL
    <2>1. now <= c.deadline /\ c.deadline <= EvidenceAt[c.action] + EvidenceTTL /\ c.deadline \in Nat
      BY <1>0, <1>1 DEF Authorized, AuthorityOK, Call
    <2>2. EvidenceAt[c.action] + EvidenceTTL \in Nat
      BY <1>2, RemediationAssumption
    <2> QED
      BY <1>0, <2>1, <2>2
  <1>8. ApprovalCurrent(record[c.action])
    BY <1>2 DEF Authorized
  <1> QED
    BY <1>2, <1>6, <1>7, <1>8 DEF Authorised

(* When the backend is called the approval is current, the evidence is not *)
(* too old, and the three identities held their roles less than            *)
(* IdentityTTL ago, however long the call waited and whatever grant was    *)
(* withdrawn meanwhile.                                                    *)
THEOREM AuthorityAtDispatch == Spec => DispatchWithinAuthority
  <1> DEFINE Within == \A w \in Workers :
               dispatches'[call[w].action] > dispatches[call[w].action] /\ pc'[w] = "plan"
                 => Authorised(w, call[w].action)
  <1>1. JInv /\ [Next]_vars => [Within]_vars
    <2> SUFFICES ASSUME JInv, Next, NEW w \in Workers, pc'[w] = "plan",
                        dispatches'[call[w].action] > dispatches[call[w].action]
                 PROVE  Authorised(w, call[w].action)
      OBVIOUS
    <2> DEFINE a == call[w].action
    <2>0. a \in Actions /\ dispatches \in [Actions -> Nat] /\ dispatches'[a] # dispatches[a]
      <3>1. a \in Actions /\ dispatches \in [Actions -> Nat]
        BY OwnFacts DEF JInv, IInv, TInv, TypeOK, Call
      <3> QED
        BY <3>1
    <2>1. dispatches' # dispatches
      BY <2>0
    <2>2. PICK v \in Workers : Step(v)
      BY <2>1 DEF Next, Begin, Crash, ServeWrite, LoseWrite, Revoke, ExternalWrite, Tick, historyVars
    <2>3. Authorize(v) /\ Others(v)
      BY <2>1, <2>2, StepFrame
    <2>4. call[v].action = a /\ pc[v] \in ClaimPCs
      <3>1. dispatches' = [dispatches EXCEPT ![call[v].action] = @ + 1]
        BY <2>1, <2>3 DEF Authorize
      <3>2. pc[v] \in ClaimPCs
        BY <2>3 DEF Authorize, ClaimPCs, Refreshing
      <3> QED
        BY <2>0, <3>1, <3>2
    <2>5. v = w
      <3> SUFFICES ASSUME v # w PROVE FALSE
        OBVIOUS
      <3>1. pc[w] = "plan"
        BY <2>3 DEF Others
      <3>2. "plan" \in ClaimPCs
        BY DEF ClaimPCs, InBackend
      <3> QED
        BY <2>4, <3>1, <3>2 DEF JInv, IInv, ClaimInv
    <2>6. Authorized(call[v])
      BY <2>1, <2>3 DEF Authorize
    <2> QED
      BY <2>3, <2>5, <2>6, DispatchAuthorised
  <1>2. Spec => [][Within]_vars
    BY <1>1, JInvariant, PTL DEF Spec
  <1> QED
    BY <1>2 DEF DispatchWithinAuthority, Authorised
=============================================================================
