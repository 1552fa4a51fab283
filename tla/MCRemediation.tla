--------------------------- MODULE MCRemediation ---------------------------
(* Small instances of Remediation for TLC. *)
EXTENDS Remediation, TLC

CONSTANTS w1, w2, a1, a2, alice, bob, r1

\* Two different actions on one Deployment, both against version 1.
OneTarget == [a \in Actions |-> r1]
SameVersion == [a \in Actions |-> 1]
EvidenceAtZero == [a \in Actions |-> 0]

\* Each subject could both propose and approve; bob may also execute.
TwoSubjects == [s \in Subjects |->
    IF s = alice THEN {"responder", "approver"} ELSE {"responder", "approver", "executor"}]

\* The grants that may be withdrawn: the approver's and the executor's.
ActorGrants == {<<bob, "approver">>, <<bob, "executor">>}
=============================================================================
