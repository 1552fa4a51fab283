---------------------------- MODULE ActionStore ----------------------------
(***************************************************************************)
(* The SQL action store: table remediation_actions (variable record) and   *)
(* table remediation_audit (variable audit).  Each operation below is one  *)
(* database transaction, hence one atomic step of whoever calls it.        *)
(*                                                                         *)
(* A row's payload is the record without its timestamps and proposal: the  *)
(* proposal is determined by the action id (its digest), and the           *)
(* compare-and-set on the whole payload is decided by state and revision.  *)
(***************************************************************************)
EXTENDS Integers, FiniteSets

CONSTANTS Actions,      \* action digests
          Subjects,     \* authenticated identities
          ApprovalTTL,  \* lifetime of an approval (300 s in the code)
          Nil           \* a missing row, approval or result

ASSUME ApprovalTTLAssumption == ApprovalTTL \in Nat \ {0}
ASSUME NonEmptyAssumption == Actions # {} /\ Subjects # {}

VARIABLES record,       \* [Actions -> a stored record, or Nil when there is no row]
          audit         \* set of audit rows

storeVars == <<record, audit>>

States == {"PROPOSED", "APPROVED", "EXECUTING", "SUCCEEDED", "FAILED", "UNKNOWN"}

Reasons == {"POLICY_REVIEWED", "HUMAN_APPROVED", "DISPATCH", "DISPATCH_AUTHORITY_DENIED",
            "EXECUTOR_RESULT", "EXECUTOR_RESULT_UNKNOWN"}

Approval == [subject : Subjects, approved_at : Nat, expires_at : Nat]

Outcomes == {"SUCCEEDED", "FAILED"}

ActionRecord == [proposer : Subjects, state : States, revision : Nat,
                 approval : Approval \cup {Nil}, result : Outcomes \cup {Nil}]

\* Nil stands for None, which is no record, approval or outcome.
ASSUME NilAssumption == Nil \notin ActionRecord \cup Approval \cup Outcomes

AuditEvent == [action : Actions, revision : Nat, state : States,
               actor : Subjects, reason : Reasons]

TRANSITIONS == [s \in States |->
    CASE s = "PROPOSED"  -> {"APPROVED"}
      [] s = "APPROVED"  -> {"EXECUTING"}
      [] s = "EXECUTING" -> {"SUCCEEDED", "FAILED", "UNKNOWN"}
      [] OTHER           -> {}]

(* What ActionRecord.consistent demands of a record every time it is built *)
(* or read back from the database.                                         *)
Consistent(r) ==
    /\ (r.state = "PROPOSED") <=> (r.approval = Nil)
    /\ r.approval # Nil =>
          /\ r.approval.subject # r.proposer
          /\ r.approval.expires_at - r.approval.approved_at \in 1..ApprovalTTL
    /\ IF r.state \in Outcomes THEN r.result = r.state ELSE r.result = Nil

Exists(a) == record[a] # Nil

(* The audit row inserted in the same transaction as its record change.    *)
AuditRow(a, r, actor, reason) ==
    [action |-> a, revision |-> r.revision, state |-> r.state,
     actor |-> actor, reason |-> reason]

NewRecord(proposer) ==
    [proposer |-> proposer, state |-> "PROPOSED", revision |-> 0,
     approval |-> Nil, result |-> Nil]

(* create: insert the row and its first audit event.  The primary key      *)
(* turns a second insert into a no-op, whoever sent it.                    *)
Create(a, proposer) ==
    IF Exists(a)
      THEN UNCHANGED storeVars
      ELSE /\ record' = [record EXCEPT ![a] = NewRecord(proposer)]
           /\ audit' = audit \cup
                 {AuditRow(a, NewRecord(proposer), proposer, "POLICY_REVIEWED")}

\* Mutant of After: the revision is carried over instead of advanced.
AfterSameRevision(before, state, approval, result) ==
    [proposer |-> before.proposer, state |-> state, revision |-> before.revision,
     approval |-> IF approval = Nil THEN before.approval ELSE approval, result |-> result]

(* The record a transition would write over before.                        *)
After(before, state, approval, result) ==
    [proposer |-> before.proposer, state |-> state, revision |-> before.revision + 1,
     approval |-> IF approval = Nil THEN before.approval ELSE approval, result |-> result]

\* Mutant of CanTransition: the update is not conditional on the old row.
CanTransitionBlindly(a, before, state) ==
    state \in TRANSITIONS[before.state]

(* transition succeeds only if before is still the stored row.             *)
CanTransition(a, before, state) ==
    /\ state \in TRANSITIONS[before.state]
    /\ record[a] = before

Transition(a, before, state, actor, reason, approval, result) ==
    LET after == After(before, state, approval, result)
    IN  /\ record' = [record EXCEPT ![a] = after]
        /\ audit' = audit \cup {AuditRow(a, after, actor, reason)}

StoreInit == /\ record = [a \in Actions |-> Nil]
             /\ audit = {}

StoreTypeOK == /\ record \in [Actions -> ActionRecord \cup {Nil}]
               /\ audit \subseteq AuditEvent

(***************************************************************************)
(* Properties of the store, whoever its clients are.                       *)
(***************************************************************************)

(* Every row the broker ever writes passes the validator that get() runs   *)
(* on it, so no action becomes unreadable: approval present exactly from   *)
(* APPROVED on, by somebody other than the proposer, with a lifetime in    *)
(* bounds; a result exactly in SUCCEEDED and FAILED.                       *)
RecordsReadable == \A a \in Actions : Exists(a) => Consistent(record[a])

(* The audit table is the exact history of every record: one event per     *)
(* revision from 0 to the current one, each a legal successor of the one   *)
(* before, and the last one states what the record states.                 *)
AuditIsHistory ==
    \A a \in Actions :
      LET rows == {e \in audit : e.action = a}
      IN  IF ~Exists(a) THEN rows = {}
          ELSE /\ {e.revision : e \in rows} = 0..record[a].revision
               /\ \A e, f \in rows :
                     /\ e.revision = f.revision => e = f
                     /\ f.revision = e.revision + 1 => f.state \in TRANSITIONS[e.state]
               /\ \E e \in rows : /\ e.revision = record[a].revision
                                  /\ e.state = record[a].state

(* What the two tables say together: every record is readable and its      *)
(* audit rows are its history.                                             *)
StoreSound == RecordsReadable /\ AuditIsHistory
=============================================================================
