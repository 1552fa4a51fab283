-------------------------- MODULE ActionLifecycle --------------------------
(***************************************************************************)
(* What the remediation subsystem promises of one set of actions: each is  *)
(* proposed, approved and claimed in this order and at most once; its      *)
(* effect happens at most once, only after the claim and never after a     *)
(* definite outcome; SUCCEEDED is only reported of an effect that happened.*)
(***************************************************************************)
EXTENDS Naturals

CONSTANT Actions

VARIABLES phase,  \* [Actions -> the life-cycle phase]
          done    \* actions whose effect happened

Phases == {"ABSENT", "PROPOSED", "APPROVED", "EXECUTING", "SUCCEEDED", "FAILED", "UNKNOWN"}

Init == phase = [a \in Actions |-> "ABSENT"] /\ done = {}

Advance(a, from, to) == phase[a] = from /\ phase' = [phase EXCEPT ![a] = to] /\ UNCHANGED done

Propose(a) == Advance(a, "ABSENT", "PROPOSED")
Approve(a) == Advance(a, "PROPOSED", "APPROVED")
Claim(a)   == Advance(a, "APPROVED", "EXECUTING")

\* The effect itself; ambiguity is exactly that it may still come.
Effect(a) ==
    /\ phase[a] \in {"EXECUTING", "UNKNOWN"}
    /\ a \notin done
    /\ done' = done \cup {a}
    /\ UNCHANGED phase

Succeed(a) == a \in done /\ Advance(a, "EXECUTING", "SUCCEEDED")
Fail(a)    == Advance(a, "EXECUTING", "FAILED")
Doubt(a)   == Advance(a, "EXECUTING", "UNKNOWN")

Next == \E a \in Actions :
            \/ Propose(a) \/ Approve(a) \/ Claim(a)
            \/ Effect(a) \/ Succeed(a) \/ Fail(a) \/ Doubt(a)

Spec == Init /\ [][Next]_<<phase, done>>
=============================================================================
