------------------------ MODULE ScenarioHarnessProofs ------------------------
(***************************************************************************)
(* Theorems about the scenario harnesses, for any number of operator       *)
(* processes, any assignment of cases to them and any amount of trouble:   *)
(* foreign edits are kept, nothing is altered that could not be put back   *)
(* from the evidence directory, whatever is left is explained by a failed  *)
(* restoration of that very object, and the latch keeps its promise.  The  *)
(* recipes enter only through RecipeAssumption.                            *)
(***************************************************************************)
EXTENDS ScenarioHarness, TLAPS

Phases == {"idle", "experiment", "recover", "receipt", "ended"}
Working == {"experiment", "recover", "receipt"}

RunRecord == [case : CaseIds \cup {"none"}, phase : Phases, attempt : Nat, at : Nat,
          captured : BOOLEAN, failed : SUBSET Nat, cut : BOOLEAN]

TypeInv ==
  /\ latch \in Harnesses \cup {Free}
  /\ obj \in [Objects -> [spec : Variants, live : Variants, whole : BOOLEAN]]
  /\ run \in [Harnesses -> RunRecord]

\* A run is inside its program; what brought it there.
Where(r) ==
  /\ r.captured => r.case \in CaseIds
  /\ r.phase = "experiment" =>
       /\ r.case \in CaseIds /\ r.at \in 1..Len(Experiment(r.case))
       /\ r.failed = {} /\ ~r.cut
  /\ r.phase = "recover" =>
       /\ r.captured /\ ~r.cut
       /\ r.attempt \in DOMAIN Recovery(r.case) /\ r.at \in 1..Len(Recovery(r.case)[r.attempt])
       /\ Needs(r.case, r.attempt) => r.failed = {}

\* What the steps of the experiment that lie behind have left: the journal, the captured
\* originals and, around the autoscaler, the workload.
Saved(r) ==
  r.phase = "experiment" =>
    \A j \in 1..r.at - 1 :
      LET s == Experiment(r.case)[j] IN
      /\ s.op = "journal" => s.specs \subseteq journal
      /\ s.op = "capture" => r.captured
      /\ "hpa" \in Touched(r.case) /\ "payments-api" \in Touches(s) =>
           obj["payments-api"].spec \in {"enabled", "scaled", "foreign"}

\* Step i of attempt a is behind the recovery, and the attempt did not fail.
Sure(r, a, i) ==
  /\ r.captured /\ ~r.cut
  /\ a \in DOMAIN Recovery(r.case) \ r.failed /\ i \in 1..Len(Recovery(r.case)[a])
  /\ \/ r.phase = "recover" /\ (a < r.attempt \/ (a = r.attempt /\ i < r.at))
     \/ r.phase \in {"receipt", "ended"} /\ ~(Needs(r.case, a) /\ r.failed # {})

\* What a step of a recovery looked at is at home, what it put back is not altered.
StaysHome(case, a, i) ==
  /\ \A o \in Checked(Recovery(case)[a][i]) : ~Disturbed(o)
  /\ \A o \in PutBack(Recovery(case)[a][i]) : ~Altered(o)

SureInv(r) ==
  r.captured => \A a \in DOMAIN Recovery(r.case) : \A i \in 1..Len(Recovery(r.case)[a]) :
                  Sure(r, a, i) => StaysHome(r.case, a, i)

LatchInv ==
  \A h \in Harnesses : /\ run[h].phase \in Working => latch = h
                       /\ run[h].phase = "idle" => latch # h /\ ~run[h].captured

HolderInv == latch # Free => Where(run[latch]) /\ Saved(run[latch]) /\ SureInv(run[latch])

\* Only under the latch, and only what the case of its holder touches.
DisturbInv ==
  \A o \in Objects : Disturbed(o) =>
    latch # Free /\ run[latch].captured /\ o \in Touched(run[latch].case)

JournalInv ==
  \A o \in Objects \ Made : Altered(o) => {<<o, "original">>, <<o, obj[o].spec>>} \subseteq journal

\* An autoscaler that may act finds the enabled workload, whose variants are saved.
ScaleInv ==
  obj["hpa"].spec = "cap2" =>
    /\ obj["payments-api"].spec \in {"enabled", "scaled", "foreign"}
    /\ {"payments-api"} \X {"original", "enabled", "scaled"} \subseteq journal

SessionInv ==
  /\ obj["sessions"].spec \in {"absent", "held", "foreign"}
  /\ obj["sessions"].spec = "held" =>
       /\ latch # Free /\ run[latch].phase = "experiment"
       /\ HeldAt(Experiment(run[latch].case), run[latch].at)

IInv == /\ TypeInv /\ LatchInv /\ HolderInv /\ DisturbInv /\ JournalInv /\ ScaleInv /\ SessionInv

-----------------------------------------------------------------------------
(* Where a run goes.                                                       *)

LEMMA NextAttemptMoves ==
  ASSUME NEW r \in RunRecord, Where(r), r.phase = "recover", NEW p \in RunRecord,
         p.phase = "recover", p.case = r.case, p.attempt = r.attempt, p.captured, ~p.cut,
         r.failed \subseteq p.failed
  PROVE  LET q == NextAttempt(p) IN
         /\ Where(q) /\ q.phase \in {"recover", "receipt"} /\ q.case = r.case /\ q.captured
         /\ \A a, i : Sure(q, a, i) => a \notin p.failed /\ (Sure(r, a, i) \/ a = r.attempt)
  <1> DEFINE R == Recovery(r.case)
             F == p.failed
             q == NextAttempt(p)
  <1>0. /\ r.case \in CaseIds /\ r.captured /\ ~r.cut /\ r.attempt \in DOMAIN R /\ r.failed \in SUBSET Nat
        /\ r.attempt \in Nat
    BY DEF Where, RunRecord
  <1>1. /\ Len(R) \in Nat \ {0} /\ DOMAIN R = 1..Len(R)
        /\ \A a \in DOMAIN R : Len(R[a]) \in Nat \ {0}
        /\ \A a \in DOMAIN R : Needs(r.case, a) => a = Len(R)
    BY <1>0, RecipeAssumption DEF PutsBack
  <1>2. p.failed = F /\ r.failed \subseteq F
    OBVIOUS
  <1> HIDE DEF R, F, q
  <1>3. CASE p.attempt < Len(R) /\ ~(Needs(p.case, p.attempt + 1) /\ p.failed # {})
    <2>1. q = [p EXCEPT !.attempt = @ + 1, !.at = 1]
      BY <1>3, <1>2 DEF NextAttempt, q, R
    <2>2. /\ q.attempt = r.attempt + 1 /\ q.at = 1 /\ q.case = r.case /\ q.failed = F /\ q.captured
          /\ ~q.cut /\ q.phase = p.phase
      BY <1>2, <2>1 DEF RunRecord
    <2>3. p.phase = "recover"
      OBVIOUS
    <2>4. q.attempt \in DOMAIN R /\ (Needs(q.case, q.attempt) => q.failed = {})
      BY <1>0, <1>1, <1>2, <1>3, <2>2
    <2>5. Where(q)
      <3>1. 1 \in 1..Len(R[q.attempt]) /\ q.phase = "recover"
        BY <1>1, <2>2, <2>3, <2>4
      <3>2. R = Recovery(q.case)
        BY <2>2 DEF R
      <3> QED
        BY <1>0, <2>2, <2>4, <3>1, <3>2 DEF Where
    <2>6. ASSUME NEW a, NEW i, Sure(q, a, i) PROVE a \notin F /\ (Sure(r, a, i) \/ a = r.attempt)
      <3>1. a \in DOMAIN R /\ a \notin F /\ i \in 1..Len(R[a]) /\ (a < q.attempt \/ (a = q.attempt /\ i < q.at))
        BY <2>2, <2>3, <2>6 DEF Sure, R
      <3>2. a < r.attempt \/ a = r.attempt
        BY <1>0, <1>1, <2>2, <3>1
      <3> QED
        BY <1>0, <1>2, <3>1, <3>2 DEF Sure, R
    <2> QED
      BY <1>2, <2>2, <2>3, <2>5, <2>6 DEF q
  <1>4. CASE ~(p.attempt < Len(R) /\ ~(Needs(p.case, p.attempt + 1) /\ p.failed # {}))
    <2>1. q = [p EXCEPT !.phase = "receipt"]
      BY <1>4, <1>2 DEF NextAttempt, q, R
    <2>2. /\ q.case = r.case /\ q.failed = F /\ q.captured /\ ~q.cut /\ q.phase = "receipt"
      BY <1>2, <2>1 DEF RunRecord
    <2>5. Where(q)
      BY <1>0, <2>2 DEF Where
    <2>6. ASSUME NEW a, NEW i, Sure(q, a, i) PROVE a \notin F /\ (Sure(r, a, i) \/ a = r.attempt)
      <3>1. a \in DOMAIN R /\ a \notin F /\ i \in 1..Len(R[a]) /\ ~(Needs(r.case, a) /\ F # {})
        BY <2>2, <2>6 DEF Sure, R
      <3>2. a < r.attempt \/ a = r.attempt
        <4>1. CASE r.attempt < Len(R)
          <5>1. Needs(r.case, r.attempt + 1) /\ F # {}
            BY <1>2, <1>4, <4>1
          <5>2. r.attempt + 1 \in DOMAIN R
            BY <1>0, <1>1, <4>1
          <5> QED
            BY <1>0, <1>1, <3>1, <5>1, <5>2
        <4> QED
          BY <1>0, <1>1, <3>1, <4>1
      <3> QED
        BY <1>0, <1>2, <3>1, <3>2 DEF Sure, R
    <2> QED
      BY <1>2, <2>2, <2>5, <2>6 DEF q
  <1> QED
    BY <1>3, <1>4

LEMMA NextAttemptType ==
  ASSUME NEW r \in RunRecord PROVE NextAttempt(r) \in RunRecord
  <1>1. [r EXCEPT !.attempt = @ + 1, !.at = 1] \in RunRecord
    <2>1. r.attempt + 1 \in Nat
      BY DEF RunRecord
    <2> QED
      BY <2>1 DEF RunRecord
  <1>2. [r EXCEPT !.phase = "receipt"] \in RunRecord
    BY DEF RunRecord, Phases
  <1> QED
    BY <1>1, <1>2, Zenon DEF NextAttempt

LEMMA RecoveringMoves ==
  ASSUME NEW r \in RunRecord, r.case \in CaseIds, r.failed = {}, ~r.cut, r.phase = "experiment"
  PROVE  LET q == Recovering(r) IN
         /\ q \in RunRecord /\ Where(q) /\ q.phase \in {"recover", "receipt"} /\ q.case = r.case
         /\ q.captured = r.captured
         /\ \A a, i : ~Sure(q, a, i)
  <1> DEFINE q == Recovering(r)
             R == Recovery(r.case)
  <1>1. /\ Len(R) \in Nat \ {0} /\ DOMAIN R = 1..Len(R)
        /\ \A a \in DOMAIN R : Len(R[a]) \in Nat \ {0}
    BY RecipeAssumption
  <1>2. CASE r.captured
    <2>1. /\ q \in RunRecord /\ q.phase = "recover" /\ q.attempt = 1 /\ q.at = 1 /\ q.case = r.case
          /\ q.captured /\ ~q.cut /\ q.failed = {}
      BY <1>2 DEF Recovering, RunRecord, Phases
    <2>2. Where(q)
      BY <1>1, <2>1 DEF Where
    <2>3. ASSUME NEW a, NEW i, Sure(q, a, i) PROVE FALSE
      <3>1. a \in DOMAIN R /\ i \in 1..Len(R[a]) /\ (a < 1 \/ i < 1)
        BY <2>1, <2>3 DEF Sure
      <3> QED
        BY <1>1, <3>1
    <2> QED
      BY <1>2, <2>1, <2>2, <2>3
  <1>3. CASE ~r.captured
    <2>1. /\ q \in RunRecord /\ q.phase = "receipt" /\ ~q.captured /\ q.case = r.case /\ q.captured = r.captured
      BY <1>3 DEF Recovering, RunRecord, Phases
    <2> QED
      BY <2>1 DEF Where, Sure
  <1> QED
    BY <1>2, <1>3


\* A run that goes on in its recovery is sure of what it was sure of, and of the steps
\* it just passed.
LEMMA MovedRecovery ==
  ASSUME NEW r \in RunRecord, Where(r), r.phase = "recover", NEW n \in {1, 3},
         n = 3 => Recovery(r.case)[r.attempt][r.at].op = "compare"
  PROVE  LET q == Moved(r, n) IN
         /\ q \in RunRecord /\ Where(q) /\ q.phase \in {"recover", "receipt"} /\ q.case = r.case
         /\ q.captured
         /\ \A a, i : Sure(q, a, i) => Sure(r, a, i) \/ (a = r.attempt /\ i \in r.at..r.at + n - 1)
  <1> DEFINE R == Recovery(r.case)
             P == R[r.attempt]
             q == Moved(r, n)
  <1>0. /\ r.case \in CaseIds /\ r.captured /\ ~r.cut /\ r.attempt \in DOMAIN R /\ r.failed \in SUBSET Nat
        /\ r.attempt \in Nat /\ r.at \in 1..Len(P) /\ r.at \in Nat
    BY DEF Where, RunRecord
  <1>1. /\ DOMAIN R = 1..Len(R) /\ Len(R) \in Nat /\ Len(P) \in Nat /\ Conditional(P)
    BY <1>0, RecipeAssumption
  <1>2. r.at + n - 1 <= Len(P)
    BY <1>0, <1>1 DEF Conditional
  <1>p. Program(r) = P
    BY DEF Program
  <1> HIDE DEF R, P, q
  <1>3. CASE r.at + n <= Len(P)
    <2>1. q = [r EXCEPT !.at = @ + n]
      BY <1>3, <1>p DEF Moved, q
    <2>2. /\ q \in RunRecord /\ q.at = r.at + n /\ q.attempt = r.attempt /\ q.case = r.case /\ q.failed = r.failed
          /\ q.captured /\ ~q.cut /\ q.phase = "recover"
      BY <1>0, <2>1 DEF RunRecord
    <2>3. Where(q)
      BY <1>0, <1>1, <1>3, <2>2 DEF Where, R, P
    <2>4. ASSUME NEW a, NEW i, Sure(q, a, i)
          PROVE  Sure(r, a, i) \/ (a = r.attempt /\ i \in r.at..r.at + n - 1)
      <3>1. a \in DOMAIN R \ r.failed /\ i \in 1..Len(R[a]) /\ (a < r.attempt \/ (a = r.attempt /\ i < r.at + n))
        BY <2>2, <2>4 DEF Sure, R
      <3>2. CASE a < r.attempt \/ (a = r.attempt /\ i < r.at)
        BY <1>0, <3>1, <3>2 DEF Sure, R
      <3>3. CASE ~(a < r.attempt \/ (a = r.attempt /\ i < r.at))
        <4>1. a = r.attempt /\ i \in 1..Len(P) /\ i < r.at + n /\ ~(i < r.at)
          BY <3>1, <3>3 DEF P
        <4> QED
          BY <1>0, <1>1, <4>1
      <3> QED
        BY <3>2, <3>3
    <2> QED
      BY <2>2, <2>3, <2>4 DEF q
  <1>4. CASE ~(r.at + n <= Len(P))
    <2>1. q = NextAttempt(r)
      BY <1>4, <1>p DEF Moved, q
    <2>2. q \in RunRecord
      BY <2>1, NextAttemptType
    <2>4. /\ Where(q) /\ q.phase \in {"recover", "receipt"} /\ q.case = r.case /\ q.captured
          /\ \A a, i : Sure(q, a, i) => a \notin r.failed /\ (Sure(r, a, i) \/ a = r.attempt)
      BY <1>0, <2>1, NextAttemptMoves
    <2>5. ASSUME NEW a, NEW i, Sure(q, a, i)
          PROVE  Sure(r, a, i) \/ (a = r.attempt /\ i \in r.at..r.at + n - 1)
      <3>1. CASE a = r.attempt
        <4>1. i \in 1..Len(P)
          BY <2>4, <2>5, <3>1 DEF Sure, P, R
        <4>2. CASE i < r.at
          <5>1. a \in DOMAIN R \ r.failed
            BY <1>0, <2>4, <2>5, <3>1
          <5> QED
            BY <1>0, <3>1, <4>1, <4>2, <5>1 DEF Sure, R, P
        <4>3. CASE ~(i < r.at)
          BY <1>0, <1>1, <1>4, <3>1, <4>1, <4>3
        <4> QED
          BY <4>2, <4>3
      <3> QED
        BY <2>4, <2>5, <3>1
    <2> QED
      BY <2>2, <2>4, <2>5 DEF q
  <1> QED
    BY <1>3, <1>4

\* An attempt that raises is given up, and nothing it did is relied on.
LEMMA RaisedRecovery ==
  ASSUME NEW r \in RunRecord, Where(r), r.phase = "recover"
  PROVE  LET q == Raised(r) IN
         /\ q \in RunRecord /\ Where(q) /\ q.phase \in {"recover", "receipt"} /\ q.case = r.case
         /\ q.captured
         /\ \A a, i : Sure(q, a, i) => Sure(r, a, i)
  <1> DEFINE F == r.failed \cup {r.attempt}
             p == [r EXCEPT !.failed = F]
             q == Raised(r)
  <1>1. F \in SUBSET Nat /\ p \in RunRecord
    BY DEF RunRecord
  <1>2. q = NextAttempt(p)
    BY DEF Raised
  <1>3. q \in RunRecord
    BY <1>1, <1>2, NextAttemptType
  <1> HIDE DEF q
  <1>4. /\ Where(q) /\ q.phase \in {"recover", "receipt"} /\ q.case = r.case /\ q.captured
        /\ \A a, i : Sure(q, a, i) => a \notin F /\ (Sure(r, a, i) \/ a = r.attempt)
    <2>1. /\ p.phase = "recover" /\ p.case = r.case /\ p.attempt = r.attempt /\ p.captured /\ ~p.cut
          /\ p.failed = F
      BY DEF RunRecord, Where
    <2> HIDE DEF p
    <2> QED
      BY <1>1, <1>2, <2>1, NextAttemptMoves
  <1> QED
    BY <1>3, <1>4 DEF q

LEMMA MovedExperiment ==
  ASSUME NEW r \in RunRecord, Where(r), r.phase = "experiment", NEW n \in {1, 3}
  PROVE  LET q == Moved(r, n) IN
         /\ q \in RunRecord /\ Where(q) /\ q.phase \in {"experiment", "recover", "receipt"}
         /\ q.case = r.case /\ q.captured = r.captured
         /\ q.phase = "experiment" => q.at = r.at + n
         /\ q.phase = "experiment" <=> r.at + n <= Len(Experiment(r.case))
         /\ \A a, i : ~Sure(q, a, i)
  <1> DEFINE E == Experiment(r.case)
             q == Moved(r, n)
  <1>0. /\ r.case \in CaseIds /\ ~r.cut /\ r.failed = {} /\ r.at \in 1..Len(E) /\ r.at \in Nat
    BY DEF Where, RunRecord
  <1>1. Len(E) \in Nat /\ Program(r) = E
    BY <1>0, RecipeAssumption DEF Program
  <1> HIDE DEF E, q
  <1>2. CASE r.at + n <= Len(E)
    <2>1. q = [r EXCEPT !.at = @ + n]
      BY <1>1, <1>2 DEF Moved, q
    <2>2. /\ q \in RunRecord /\ q.at = r.at + n /\ q.case = r.case /\ q.failed = {}
          /\ q.captured = r.captured /\ ~q.cut /\ q.phase = "experiment"
      BY <1>0, <2>1 DEF RunRecord
    <2>3. Where(q)
      BY <1>0, <1>1, <1>2, <2>2 DEF Where, E
    <2> QED
      BY <1>2, <2>2, <2>3 DEF Sure, q, E
  <1>3. CASE ~(r.at + n <= Len(E))
    <2>1. q = Recovering(r)
      BY <1>1, <1>3 DEF Moved, q
    <2> QED
      BY <1>0, <1>3, <2>1, RecoveringMoves DEF q, E
  <1> QED
    BY <1>2, <1>3

LEMMA RaisedExperiment ==
  ASSUME NEW r \in RunRecord, Where(r), r.phase = "experiment"
  PROVE  LET q == Raised(r) IN
         /\ q \in RunRecord /\ Where(q) /\ q.phase \in {"recover", "receipt"} /\ q.case = r.case
         /\ q.captured = r.captured
         /\ \A a, i : ~Sure(q, a, i)
  <1>1. r.case \in CaseIds /\ ~r.cut /\ r.failed = {} /\ Raised(r) = Recovering(r)
    BY DEF Where, Raised
  <1> QED
    BY <1>1, RecoveringMoves


-----------------------------------------------------------------------------
(* Steps that disturb nothing new.                                         *)

Cluster == [Objects -> [spec : Variants, live : Variants, whole : BOOLEAN]]

Calm ==
  /\ \A o \in Objects :
       /\ Disturbed(o)' => Disturbed(o)
       /\ Altered(o)' => Altered(o) /\ (obj'[o].spec = obj[o].spec \/ <<o, obj'[o].spec>> \in journal)
  /\ obj'["hpa"].spec = "cap2" =>
       /\ obj["hpa"].spec = "cap2"
       /\ obj'["payments-api"].spec \in {obj["payments-api"].spec, "enabled", "scaled", "foreign"}
  /\ obj'["sessions"].spec \in {obj["sessions"].spec, "absent", "foreign"}

LEMMA Homes ==
  /\ {"hpa", "payments-api", "sessions", "kubelet", "limits"} \subseteq Objects
  /\ Home("hpa") = "absent" /\ Home("sessions") = "absent"
  /\ Home("payments-api") = "original" /\ Home("kubelet") = "original"
  /\ "payments-api" \notin Made /\ "kubelet" \notin Made /\ "hpa" \in Made /\ "sessions" \in Made
  /\ Services \cap Made = {} /\ Services \subseteq Objects /\ Made \subseteq Objects
  /\ \A o : Home(o) \in Variants \ {"foreign"} /\ (o \in Made => Home(o) = "absent")
            /\ (o \notin Made => Home(o) = "original")
  BY DEF Objects, Services, Made, Home, Variants

\* The step of the process that holds the latch, whatever it does to its own position.
LEMMA CalmStep ==
  ASSUME IInv, NEW h \in Harnesses, latch = h, latch' = latch, journal \subseteq journal',
         NEW q \in RunRecord, run' = [run EXCEPT ![h] = q], obj' \in Cluster, Calm,
         q.phase # "idle", q.case = run[h].case, run[h].captured => q.captured,
         Where(q), Saved(q)',
         \A a, i : Sure(q, a, i) => Sure(run[h], a, i) \/ StaysHome(q.case, a, i)',
         obj'["sessions"].spec = "held" =>
           q.phase = "experiment" /\ HeldAt(Experiment(q.case), q.at)
  PROVE  IInv'
  <1>0. TypeInv /\ LatchInv /\ HolderInv /\ DisturbInv /\ JournalInv /\ ScaleInv /\ SessionInv /\ h # Free
    BY HarnessAssumption DEF IInv
  <1>1. run'[h] = q /\ (\A g \in Harnesses \ {h} : run'[g] = run[g]) /\ run' \in [Harnesses -> RunRecord]
    BY <1>0 DEF TypeInv
  <1>2. TypeInv'
    BY <1>0, <1>1 DEF TypeInv, Cluster
  <1>3. LatchInv'
    BY <1>0, <1>1 DEF LatchInv
  <1>4. DisturbInv'
    BY <1>0, <1>1 DEF DisturbInv, Calm
  <1>5. JournalInv'
    <2> SUFFICES ASSUME NEW o \in Objects \ Made, Altered(o)'
                 PROVE  {<<o, "original">>, <<o, obj'[o].spec>>} \subseteq journal'
      BY DEF JournalInv
    <2>1. Altered(o) /\ (obj'[o].spec = obj[o].spec \/ <<o, obj'[o].spec>> \in journal)
      BY DEF Calm
    <2>2. {<<o, "original">>, <<o, obj[o].spec>>} \subseteq journal
      BY <1>0, <2>1 DEF JournalInv
    <2> QED
      BY <2>1, <2>2
  <1>6. ScaleInv'
    BY <1>0 DEF ScaleInv, Calm
  <1>7. SessionInv'
    <2>1. obj'["sessions"].spec \in {"absent", "held", "foreign"}
      BY <1>0 DEF Calm, SessionInv
    <2> QED
      BY <1>0, <1>1, <2>1 DEF SessionInv
  <1>8. SureInv(q)'
    <2> SUFFICES ASSUME q.captured, NEW a \in DOMAIN Recovery(q.case), NEW i \in 1..Len(Recovery(q.case)[a]),
                        Sure(q, a, i)
                 PROVE  StaysHome(q.case, a, i)'
      BY DEF SureInv
    <2>1. CASE Sure(run[h], a, i)
      <3>1. run[h].captured /\ SureInv(run[h])
        BY <1>0, <2>1 DEF Sure, HolderInv
      <3>2. StaysHome(q.case, a, i)
        BY <2>1, <3>1 DEF SureInv
      <3>3. q.case \in CaseIds
        BY DEF Where
      <3>4. /\ \A o \in Checked(Recovery(q.case)[a][i]) : ~Disturbed(o) 
            /\ \A o \in PutBack(Recovery(q.case)[a][i]) : ~Altered(o)
        BY <3>2 DEF StaysHome
      <3>5. PutBack(Recovery(q.case)[a][i]) \subseteq Objects /\ Checked(Recovery(q.case)[a][i]) \subseteq Objects
        <4>1. Conditional(Recovery(q.case)[a])
          BY <3>3, RecipeAssumption
        <4> QED
          BY <4>1, Homes DEF PutBack, Checked, Conditional
      <3> QED
        BY <3>4, <3>5 DEF StaysHome, Calm
    <2> QED
      BY <2>1
  <1>9. HolderInv'
    BY <1>0, <1>1, <1>8 DEF HolderInv
  <1> QED
    BY <1>2, <1>3, <1>4, <1>5, <1>6, <1>7, <1>9 DEF IInv


LEMMA HolderFacts ==
  ASSUME IInv, NEW h \in Harnesses, run[h].phase \in Working
  PROVE  /\ latch = h /\ h # Free /\ run[h] \in RunRecord /\ Where(run[h]) /\ Saved(run[h]) /\ SureInv(run[h])
         /\ run[h].phase # "experiment" => obj["sessions"].spec # "held"
         /\ obj["sessions"].spec = "held" => HeldAt(Experiment(run[h].case), run[h].at)
  BY HarnessAssumption DEF IInv, TypeInv, LatchInv, HolderInv, SessionInv

LEMMA RecoverOn ==
  ASSUME IInv, NEW h \in Harnesses, NEW r, r = run[h], r.phase = "recover",
         UNCHANGED <<latch, journal>>, obj' \in Cluster, Calm, NEW n \in {1, 3},
         n = 3 => Recovery(r.case)[r.attempt][r.at].op = "compare",
         run' = [run EXCEPT ![h] = Moved(r, n)],
         \A i \in r.at..r.at + n - 1 : StaysHome(r.case, r.attempt, i)'
  PROVE  IInv'
  <1>1. /\ latch = h /\ r \in RunRecord /\ Where(r) /\ obj["sessions"].spec # "held"
    BY HolderFacts DEF Working
  <1>2. PICK q : q = Moved(r, n)
    OBVIOUS
  <1>3. /\ q \in RunRecord /\ Where(q) /\ q.phase \in {"recover", "receipt"} /\ q.case = r.case /\ q.captured
        /\ \A a, i : Sure(q, a, i) => Sure(r, a, i) \/ (a = r.attempt /\ i \in r.at..r.at + n - 1)
    BY <1>1, <1>2, MovedRecovery
  <1>4. \A a, i : Sure(q, a, i) => Sure(r, a, i) \/ StaysHome(q.case, a, i)'
    BY <1>3
  <1>5. Saved(q)'
    BY <1>3 DEF Saved
  <1>6. obj'["sessions"].spec # "held"
    BY <1>1 DEF Calm
  <1> QED
    BY <1>1, <1>2, <1>3, <1>4, <1>5, <1>6, CalmStep

LEMMA RecoverRaises ==
  ASSUME IInv, NEW h \in Harnesses, NEW r, r = run[h], r.phase = "recover",
         UNCHANGED <<latch, journal>>, obj' \in Cluster, Calm, run' = [run EXCEPT ![h] = Raised(r)]
  PROVE  IInv'
  <1>1. /\ latch = h /\ r \in RunRecord /\ Where(r) /\ obj["sessions"].spec # "held"
    BY HolderFacts DEF Working
  <1>2. PICK q : q = Raised(r)
    OBVIOUS
  <1>3. /\ q \in RunRecord /\ Where(q) /\ q.phase \in {"recover", "receipt"} /\ q.case = r.case /\ q.captured
        /\ \A a, i : Sure(q, a, i) => Sure(r, a, i)
    BY <1>1, <1>2, RaisedRecovery
  <1>5. Saved(q)'
    BY <1>3 DEF Saved
  <1>6. obj'["sessions"].spec # "held"
    BY <1>1 DEF Calm
  <1> QED
    BY <1>1, <1>2, <1>3, <1>5, <1>6, CalmStep

\* p is r, or r that has just captured.
LEMMA ExperimentOn ==
  ASSUME IInv, NEW h \in Harnesses, NEW r, r = run[h], r.phase = "experiment",
         latch' = latch, journal \subseteq journal', obj' \in Cluster, Calm, NEW n \in {1, 3},
         NEW p \in RunRecord, Where(p), p.phase = r.phase, p.case = r.case, p.at = r.at,
         r.captured => p.captured, run' = [run EXCEPT ![h] = Moved(p, n)],
         \A j \in r.at..r.at + n - 1 :
           /\ Experiment(r.case)[j].op = "journal" => Experiment(r.case)[j].specs \subseteq journal'
           /\ Experiment(r.case)[j].op = "capture" => p.captured
           /\ "payments-api" \notin Touches(Experiment(r.case)[j]),
         "hpa" \in Touched(r.case) =>
           obj'["payments-api"].spec \in {obj["payments-api"].spec, "enabled", "scaled", "foreign"},
         obj'["sessions"].spec = "held" => n = 1 /\ HeldAt(Experiment(r.case), r.at + 1)
  PROVE  IInv'
  <1> DEFINE E == Experiment(r.case)
  <1>1. /\ latch = h /\ r \in RunRecord /\ Where(r) /\ Saved(r)
    BY HolderFacts DEF Working
  <1>2. r.at \in Nat /\ r.at \in 1..Len(E) /\ Len(E) \in Nat /\ ~HeldAt(E, Len(E) + 1)
    BY <1>1, RecipeAssumption DEF Where, RunRecord, HoldsBriefly
  <1>3. PICK q : q = Moved(p, n)
    OBVIOUS
  <1>4. /\ q \in RunRecord /\ Where(q) /\ q.phase \in {"experiment", "recover", "receipt"}
        /\ q.case = r.case /\ q.captured = p.captured
        /\ q.phase = "experiment" => q.at = r.at + n
        /\ q.phase = "experiment" <=> r.at + n <= Len(E)
        /\ \A a, i : ~Sure(q, a, i)
    BY <1>3, MovedExperiment
  <1>5. Saved(q)'
    <2> SUFFICES ASSUME q.phase = "experiment", NEW j \in 1..q.at - 1
                 PROVE  /\ E[j].op = "journal" => E[j].specs \subseteq journal'
                        /\ E[j].op = "capture" => q.captured
                        /\ "hpa" \in Touched(r.case) /\ "payments-api" \in Touches(E[j]) =>
                             obj'["payments-api"].spec \in {"enabled", "scaled", "foreign"}
      BY <1>4 DEF Saved
    <2>1. CASE j \in 1..r.at - 1
      <3>1. /\ E[j].op = "journal" => E[j].specs \subseteq journal
            /\ E[j].op = "capture" => r.captured
            /\ "hpa" \in Touched(r.case) /\ "payments-api" \in Touches(E[j]) =>
                 obj["payments-api"].spec \in {"enabled", "scaled", "foreign"}
        BY <1>1, <2>1 DEF Saved
      <3> QED
        BY <1>4, <3>1
    <2>2. CASE j \in r.at..r.at + n - 1
      BY <1>4, <2>2
    <2> QED
      BY <1>2, <1>4, <2>1, <2>2
  <1>6. obj'["sessions"].spec = "held" => q.phase = "experiment" /\ HeldAt(Experiment(q.case), q.at)
    <2> SUFFICES ASSUME obj'["sessions"].spec = "held" PROVE q.phase = "experiment" /\ HeldAt(E, q.at)
      BY <1>4
    <2>1. HeldAt(E, r.at + 1) /\ n = 1
      OBVIOUS
    <2>2. r.at + 1 # Len(E) + 1
      BY <1>2, <2>1
    <2> QED
      BY <1>2, <1>4, <2>1, <2>2
  <1> HIDE DEF E
  <1> QED
    BY <1>1, <1>3, <1>4, <1>5, <1>6, CalmStep

LEMMA ExperimentRaises ==
  ASSUME IInv, NEW h \in Harnesses, NEW r, r = run[h], r.phase = "experiment",
         UNCHANGED <<latch, journal>>, obj' \in Cluster, Calm, run' = [run EXCEPT ![h] = Raised(r)],
         obj'["sessions"].spec # "held"
  PROVE  IInv'
  <1>1. /\ latch = h /\ r \in RunRecord /\ Where(r)
    BY HolderFacts DEF Working
  <1>2. PICK q : q = Raised(r)
    OBVIOUS
  <1>3. /\ q \in RunRecord /\ Where(q) /\ q.phase \in {"recover", "receipt"} /\ q.case = r.case
        /\ q.captured = r.captured /\ \A a, i : ~Sure(q, a, i)
    BY <1>1, <1>2, RaisedExperiment
  <1>5. Saved(q)'
    BY <1>3 DEF Saved
  <1> QED
    BY <1>1, <1>2, <1>3, <1>5, CalmStep


-----------------------------------------------------------------------------
(* The step a run is at.                                                   *)

LEMMA AtFacts ==
  ASSUME IInv, NEW h \in Harnesses, Active(h), NEW r, r = run[h], NEW s, s = Step(h)
  PROVE  /\ r.phase \in {"experiment", "recover"} /\ latch = h /\ r \in RunRecord /\ Where(r)
         /\ r.case \in CaseIds /\ \A op : At(h, op) <=> s.op = op
         /\ r.phase = "experiment" => s = Experiment(r.case)[r.at] /\ r.at \in 1..Len(Experiment(r.case))
         /\ r.phase = "recover" =>
              /\ r.attempt \in DOMAIN Recovery(r.case) /\ r.at \in 1..Len(Recovery(r.case)[r.attempt])
              /\ s = Recovery(r.case)[r.attempt][r.at]
              /\ s.op \notin {"capture", "journal", "write", "create"}
              /\ s.op = "tee" => s.to = "original"
         /\ s.op \in {"write", "undo", "create", "remove"} => s.o \in Objects \ {"kubelet"}
         /\ s.op \in {"write", "create", "tee"} => s.to \in Variants
         /\ s.op = "write" => "foreign" \notin s.from
         /\ s.op \in {"undo", "remove"} => s.known \cap {Home(s.o), "foreign"} = {}
         /\ s.op = "remove" => s.o \in Made
         /\ s.op = "compare" => s.unless \subseteq {"original"}
  <1>1. r.phase \in {"experiment", "recover"} /\ latch = h /\ r \in RunRecord /\ Where(r)
    BY HolderFacts DEF Active, Working
  <1>2. r.case \in CaseIds /\ \A op : At(h, op) <=> s.op = op
    BY <1>1 DEF Where, At, Step
  <1>3. CASE r.phase = "experiment"
    <2> DEFINE E == Experiment(r.case)
    <2>1. s = E[r.at] /\ r.at \in 1..Len(E)
      BY <1>1, <1>3 DEF Where, Step, Program
    <2>2. Conditional(E)
      BY <1>2, RecipeAssumption
    <2> HIDE DEF E
    <2>3. /\ s.op \in {"write", "undo", "create", "remove"} => s.o \in Objects \ {"kubelet"}
          /\ s.op \in {"write", "create", "tee"} => s.to \in Variants
          /\ s.op = "write" => "foreign" \notin s.from
          /\ s.op \in {"undo", "remove"} => s.known \cap {Home(s.o), "foreign"} = {}
          /\ s.op = "remove" => s.o \in Made
          /\ s.op = "compare" => s.unless \subseteq {"original"}
      BY <2>1, <2>2 DEF Conditional
    <2> QED
      BY <1>1, <1>2, <1>3, <2>1, <2>3 DEF E
  <1>4. CASE r.phase = "recover"
    <2> DEFINE P == Recovery(r.case)[r.attempt]
    <2>1. s = P[r.at] /\ r.at \in 1..Len(P) /\ r.attempt \in DOMAIN Recovery(r.case)
      BY <1>1, <1>4 DEF Where, Step, Program
    <2>2. Conditional(P) /\ PutsBack(r.case)
      BY <1>2, <2>1, RecipeAssumption
    <2>3. s.op \notin {"capture", "journal", "write", "create"} /\ (s.op = "tee" => s.to = "original")
      BY <2>1, <2>2 DEF PutsBack
    <2> HIDE DEF P
    <2>4. /\ s.op \in {"write", "undo", "create", "remove"} => s.o \in Objects \ {"kubelet"}
          /\ s.op \in {"write", "create", "tee"} => s.to \in Variants
          /\ s.op = "write" => "foreign" \notin s.from
          /\ s.op \in {"undo", "remove"} => s.known \cap {Home(s.o), "foreign"} = {}
          /\ s.op = "remove" => s.o \in Made
          /\ s.op = "compare" => s.unless \subseteq {"original"}
      BY <2>1, <2>2 DEF Conditional
    <2> QED
      BY <1>1, <1>2, <1>4, <2>1, <2>3, <2>4 DEF P
  <1> QED
    BY <1>1, <1>3, <1>4

LEMMA SameCalm ==
  ASSUME TypeInv, obj' = obj PROVE Calm /\ obj' \in Cluster
  BY DEF Calm, TypeInv, Cluster, Disturbed, Altered

LEMMA HomeCalm ==
  ASSUME TypeInv, NEW o \in Objects, obj' = Becomes(o, Home(o)), Altered(o) \/ o = "kubelet",
         o = "payments-api" => obj["hpa"].spec # "cap2"
  PROVE  Calm /\ obj' \in Cluster /\ ~Altered(o)'
  <1>1. /\ obj'[o].spec = Home(o) /\ obj'[o].live = obj[o].live
        /\ \A u \in Objects \ {o} : obj'[u] = obj[u]
        /\ obj' \in Cluster
    BY Homes DEF TypeInv, Becomes, Cluster
  <1>2. ~Altered(o)' /\ (Disturbed(o)' => Disturbed(o))
    BY <1>1 DEF Altered, Disturbed
  <1>3. \A u \in Objects \ {o} : (Altered(u)' <=> Altered(u)) /\ (Disturbed(u)' <=> Disturbed(u))
    BY <1>1 DEF Altered, Disturbed
  <1>4. obj'["hpa"].spec = "cap2" => o # "hpa"
    BY <1>1, Homes
  <1>5. obj'["sessions"].spec \in {obj["sessions"].spec, "absent", "foreign"}
    BY <1>1, Homes
  <1> QED
    BY <1>1, <1>2, <1>3, <1>4, <1>5, Homes DEF Calm

LEMMA CloseCalm ==
  ASSUME TypeInv, obj' = [obj EXCEPT !["sessions"].spec = IF @ = "held" THEN "absent" ELSE @]
  PROVE  Calm /\ obj' \in Cluster /\ obj'["sessions"].spec # "held"
  <1>1. CASE obj["sessions"].spec = "held"
    <2>1. obj' = Becomes("sessions", Home("sessions")) /\ Altered("sessions")
      BY <1>1, Homes DEF Becomes, TypeInv, Altered
    <2> QED
      BY <2>1, Homes, HomeCalm DEF Altered
  <1>2. CASE obj["sessions"].spec # "held"
    <2>1. obj' = obj
      BY <1>2, Homes DEF TypeInv
    <2> QED
      BY <1>2, <2>1, SameCalm
  <1> QED
    BY <1>1, <1>2

\* Nothing makes the workload the original while an autoscaler may act on it.
LEMMA UndoSafe ==
  ASSUME IInv, NEW h \in Harnesses, At(h, "undo"), Step(h).o = "payments-api"
  PROVE  obj["hpa"].spec # "cap2"
  <1> SUFFICES ASSUME obj["hpa"].spec = "cap2" PROVE FALSE
    OBVIOUS
  <1>1. PICK r, s : r = run[h] /\ s = Step(h)
    OBVIOUS
  <1>2. Active(h) /\ s.op = "undo" /\ s.o = "payments-api"
    BY <1>1 DEF At, Step
  <1>3. /\ r.phase \in {"experiment", "recover"} /\ latch = h /\ r \in RunRecord /\ Where(r)
        /\ r.case \in CaseIds
        /\ r.phase = "experiment" => s = Experiment(r.case)[r.at] /\ r.at \in 1..Len(Experiment(r.case))
        /\ r.phase = "recover" =>
              /\ r.attempt \in DOMAIN Recovery(r.case) /\ r.at \in 1..Len(Recovery(r.case)[r.attempt])
              /\ s = Recovery(r.case)[r.attempt][r.at]
    BY <1>1, <1>2, AtFacts
  <1>4. Disturbed("hpa")
    BY Homes DEF Disturbed, Altered
  <1>5. "hpa" \in Touched(r.case) /\ SureInv(r) /\ r.captured
    BY <1>1, <1>3, <1>4, Homes, HarnessAssumption DEF IInv, DisturbInv, HolderInv
  <1>6. ScalesEnabled(r.case)
    BY <1>3, RecipeAssumption
  <1>7. CASE r.phase = "experiment"
    BY <1>2, <1>3, <1>5, <1>6, <1>7 DEF ScalesEnabled
  <1>8. CASE r.phase = "recover"
    <2> DEFINE R == Recovery(r.case)
    <2>1. "payments-api" \in PutBack(R[r.attempt][r.at])
      BY <1>2, <1>3, <1>8 DEF PutBack
    <2>2. Needs(r.case, r.attempt)
      BY <1>3, <1>5, <1>6, <1>8, <2>1 DEF ScalesEnabled
    <2>3. PICK b \in 1..r.attempt - 1 : \E j \in 1..Len(R[b]) : "hpa" \in Checked(R[b][j])
      BY <1>3, <1>5, <1>6, <1>8, <2>1 DEF ScalesEnabled
    <2>4. PICK j \in 1..Len(R[b]) : "hpa" \in Checked(R[b][j])
      BY <2>3
    <2>5. b \in DOMAIN R /\ b < r.attempt
      <3>1. DOMAIN R = 1..Len(R) /\ Len(R) \in Nat
        BY <1>3, RecipeAssumption
      <3> QED
        BY <1>3, <1>8, <3>1
    <2>6. Sure(r, b, j)
      BY <1>3, <1>8, <2>2, <2>5 DEF Sure, Where
    <2>7. StaysHome(r.case, b, j)
      BY <1>5, <2>5, <2>6 DEF SureInv
    <2> QED
      BY <1>4, <2>4, <2>7 DEF StaysHome
  <1> QED
    BY <1>3, <1>7, <1>8

-----------------------------------------------------------------------------
(* A step of a recipe that disturbs nothing, done or given up.             *)

\* While the sessions are held, the run only looks, or closes them.
LEMMA HeldOn ==
  ASSUME IInv, NEW h \in Harnesses, Active(h), NEW r, r = run[h], NEW s, s = Step(h),
         obj["sessions"].spec = "held"
  PROVE  /\ r.phase = "experiment"
         /\ \/ s.op \in {"await", "investigate"} /\ HeldAt(Experiment(r.case), r.at + 1)
            \/ s.op = "remove" /\ s.o = "sessions"
  <1>0. PICK E : E = Experiment(r.case)
    OBVIOUS
  <1>1. /\ r.phase = "experiment" /\ r \in RunRecord /\ r.case \in CaseIds /\ HeldAt(E, r.at)
        /\ s = E[r.at] /\ r.at \in 1..Len(E)
    BY <1>0, HolderFacts, AtFacts DEF Active, Working
  <1>2. HoldsBriefly(E) /\ r.at \in Nat
    BY <1>0, <1>1, RecipeAssumption DEF RunRecord
  <1>3. s.op \in {"await", "investigate"} \/ (s.op = "remove" /\ s.o = "sessions")
    BY <1>1, <1>2 DEF HoldsBriefly
  <1>4. CASE s.op \in {"await", "investigate"}
    <2>1. PICK j \in 1..r.at - 1 :
             /\ "sessions" \in Touches(E[j])
             /\ \A k \in j + 1..r.at - 1 : ~(E[k].op = "remove" /\ E[k].o = "sessions")
      BY <1>1 DEF HeldAt
    <2>2. j \in 1..(r.at + 1) - 1
      BY <1>2
    <2>3. ASSUME NEW k \in j + 1..(r.at + 1) - 1 PROVE ~(E[k].op = "remove" /\ E[k].o = "sessions")
      <3>1. k = r.at \/ k \in j + 1..r.at - 1
        BY <1>2
      <3> QED
        BY <1>1, <1>4, <2>1, <3>1
    <2>4. HeldAt(E, r.at + 1)
      BY <2>1, <2>2, <2>3 DEF HeldAt
    <2> QED
      BY <1>0, <1>1, <1>4, <2>4
  <1> QED
    BY <1>1, <1>3, <1>4

\* The step is done: what it looked at is at home, what it put back is not altered.
LEMMA Goes ==
  ASSUME IInv, NEW h \in Harnesses, Active(h), NEW r, r = run[h], NEW s, s = Step(h),
         latch' = latch, journal' = journal, obj' \in Cluster, Calm, Continue(h),
         s.op \notin {"capture", "journal", "write", "create"},
         s.op = "tee" => r.phase = "recover",
         \A o \in Checked(s) : ~Disturbed(o)',
         \A o \in PutBack(s) : ~Altered(o)',
         s.op = "remove" /\ s.o = "sessions" => obj'["sessions"].spec # "held",
         r.phase = "experiment" /\ "hpa" \in Touched(r.case) =>
           obj'["payments-api"].spec \in {obj["payments-api"].spec, "enabled", "scaled", "foreign"}
  PROVE  IInv'
  <1>1. /\ r.phase \in {"experiment", "recover"} /\ r \in RunRecord /\ Where(r)
        /\ r.case \in CaseIds /\ r.at \in Nat
        /\ r.phase = "experiment" => s = Experiment(r.case)[r.at]
        /\ r.phase = "recover" => s = Recovery(r.case)[r.attempt][r.at]
    BY AtFacts DEF RunRecord
  <1>2. run' = [run EXCEPT ![h] = Moved(r, 1)]
    BY DEF Continue
  <1>3. \A i \in r.at..r.at + 1 - 1 : i = r.at
    BY <1>1
  <1>4. CASE r.phase = "recover"
    <2>1. \A i \in r.at..r.at + 1 - 1 : StaysHome(r.case, r.attempt, i)'
      BY <1>1, <1>3, <1>4 DEF StaysHome
    <2>2. UNCHANGED <<latch, journal>> /\ 1 \in {1, 3} /\ 1 # 3
      OBVIOUS
    <2> QED
      BY <1>2, <1>4, <2>1, <2>2, RecoverOn
  <1>5. CASE r.phase = "experiment"
    <2>1. Touches(s) = {}
      BY <1>5 DEF Touches
    <2>2. obj'["sessions"].spec = "held" => HeldAt(Experiment(r.case), r.at + 1)
      <3>1. obj'["sessions"].spec = "held" => obj["sessions"].spec = "held"
        BY DEF Calm
      <3> QED
        BY <3>1, HeldOn
    <2>3. \A j \in r.at..r.at + 1 - 1 :
           /\ Experiment(r.case)[j].op = "journal" => Experiment(r.case)[j].specs \subseteq journal'
           /\ Experiment(r.case)[j].op = "capture" => r.captured
           /\ "payments-api" \notin Touches(Experiment(r.case)[j])
      BY <1>1, <1>3, <1>5, <2>1
    <2>4. "hpa" \in Touched(r.case) =>
            obj'["payments-api"].spec \in {obj["payments-api"].spec, "enabled", "scaled", "foreign"}
      BY <1>5
    <2>5. journal \subseteq journal' /\ 1 \in {1, 3}
      OBVIOUS
    <2> QED
      BY <1>1, <1>2, <1>5, <2>2, <2>3, <2>4, <2>5, ExperimentOn
  <1> QED
    BY <1>1, <1>4, <1>5

\* The step raises, whatever it did before.
LEMMA GivesUp ==
  ASSUME IInv, NEW h \in Harnesses, Active(h), NEW r, r = run[h],
         latch' = latch, journal' = journal, obj' \in Cluster, Calm,
         run' = [run EXCEPT ![h] = Raised(r)],
         r.phase = "experiment" => obj'["sessions"].spec # "held"
  PROVE  IInv'
  <1>1. r.phase \in {"experiment", "recover"}
    BY DEF Active
  <1> QED
    BY <1>1, RecoverRaises, ExperimentRaises

LEMMA AwaitInv ==
  ASSUME IInv, NEW h \in Harnesses, AwaitStep(h) PROVE IInv'
  <1>1. PICK r, s : r = run[h] /\ s = Step(h)
    OBVIOUS
  <1>2. Active(h) /\ s.op = "await" /\ Settled(s.want, s.strict)
    BY <1>1 DEF AwaitStep, At, Step
  <1>3. latch' = latch /\ journal' = journal /\ obj' = obj /\ Continue(h)
    BY DEF AwaitStep
  <1>4. Calm /\ obj' \in Cluster
    BY <1>3, SameCalm DEF IInv
  <1>5. ASSUME NEW o \in Checked(s) PROVE ~Disturbed(o)'
    <2>1. /\ o \in Objects
          /\ <<o, Home(o)>> \in s.want \/ (s.strict /\ o \in Services /\ \A p \in s.want : p[1] # o)
      BY <1>2, <1>5 DEF Checked
    <2>2. Runs(o, Home(o))
      <3>1. CASE <<o, Home(o)>> \in s.want
        BY <1>2, <3>1 DEF Settled
      <3>2. CASE s.strict /\ o \in Services /\ \A p \in s.want : p[1] # o
        <4>1. Home(o) = "original"
          BY <3>2, Homes
        <4> QED
          BY <1>2, <3>2, <4>1 DEF Settled
      <3> QED
        BY <2>1, <3>1, <3>2
    <2> QED
      BY <1>3, <2>1, <2>2 DEF Runs, Disturbed, Altered
  <1>6. PutBack(s) = {}
    BY <1>2 DEF PutBack
  <1> QED
    BY <1>1, <1>2, <1>3, <1>4, <1>5, <1>6, Goes

LEMMA InvestigateInv ==
  ASSUME IInv, NEW h \in Harnesses, InvestigateStep(h) PROVE IInv'
  <1>1. PICK r, s : r = run[h] /\ s = Step(h)
    OBVIOUS
  <1>2. Active(h) /\ s.op = "investigate"
    BY <1>1 DEF InvestigateStep, At, Step
  <1>3. latch' = latch /\ journal' = journal /\ obj' = obj /\ Continue(h)
    BY DEF InvestigateStep
  <1>4. Calm /\ obj' \in Cluster
    BY <1>3, SameCalm DEF IInv
  <1>5. Checked(s) = {} /\ PutBack(s) = {}
    BY <1>2 DEF PutBack, Checked
  <1> QED
    BY <1>1, <1>2, <1>3, <1>4, <1>5, Goes

LEMMA ConfirmInv ==
  ASSUME IInv, NEW h \in Harnesses, ConfirmStep(h) PROVE IInv'
  <1>1. PICK r, s : r = run[h] /\ s = Step(h)
    OBVIOUS
  <1>2. Active(h) /\ s.op = "confirm" /\ \A o \in s.on : obj[o].spec = Home(o)
    BY <1>1 DEF ConfirmStep, At, Step
  <1>3. latch' = latch /\ journal' = journal /\ obj' = obj /\ Continue(h)
    BY DEF ConfirmStep
  <1>4. Calm /\ obj' \in Cluster
    BY <1>3, SameCalm DEF IInv
  <1>5. ASSUME NEW o \in Checked(s) PROVE ~Disturbed(o)'
    <2>1. o \in s.on /\ o \in {"kubelet", "limits"}
      BY <1>2, <1>5 DEF Checked
    <2> QED
      BY <1>2, <1>3, <2>1 DEF Disturbed, Altered
  <1>6. PutBack(s) = {}
    BY <1>2 DEF PutBack
  <1> QED
    BY <1>1, <1>2, <1>3, <1>4, <1>5, <1>6, Goes

LEMMA UndoInv ==
  ASSUME IInv, NEW h \in Harnesses, UndoStep(h) PROVE IInv'
  <1>1. PICK r, s : r = run[h] /\ s = Step(h)
    OBVIOUS
  <1>2. Active(h) /\ At(h, "undo") /\ s.op = "undo"
    BY <1>1 DEF UndoStep, At, Step
  <1>3. latch' = latch /\ journal' = journal
    BY DEF UndoStep
  <1>4. /\ s.o \in Objects /\ s.known \cap {Home(s.o), "foreign"} = {}
        /\ r.phase = "experiment" => s = Experiment(r.case)[r.at] /\ r.at \in 1..Len(Experiment(r.case))
        /\ r.case \in CaseIds
    BY <1>1, <1>2, AtFacts
  <1>5. Checked(s) = {} /\ PutBack(s) = {s.o}
    BY <1>2 DEF PutBack, Checked
  <1>6. obj["sessions"].spec # "held"
    BY <1>1, <1>2, HeldOn
  <1>7. CASE obj[s.o].spec = Home(s.o) /\ Continue(h) /\ UNCHANGED obj
    <2>1. Calm /\ obj' \in Cluster /\ ~Altered(s.o)'
      BY <1>7, SameCalm DEF IInv, Altered
    <2> QED
      BY <1>1, <1>2, <1>3, <1>5, <1>7, <2>1, Goes
  <1>8. CASE obj[s.o].spec \in s.known /\ obj' = Becomes(s.o, Home(s.o)) /\ Answered(h)
    <2>1. Altered(s.o) /\ TypeInv
      BY <1>4, <1>8 DEF Altered, IInv
    <2>2. s.o = "payments-api" => obj["hpa"].spec # "cap2"
      BY <1>1, <1>2, UndoSafe
    <2>3. Calm /\ obj' \in Cluster /\ ~Altered(s.o)'
      BY <1>4, <1>8, <2>1, <2>2, HomeCalm
    <2>4. r.phase = "experiment" /\ "hpa" \in Touched(r.case) =>
            obj'["payments-api"].spec = obj["payments-api"].spec
      <3> SUFFICES ASSUME r.phase = "experiment", "hpa" \in Touched(r.case)
                   PROVE  obj'["payments-api"].spec = obj["payments-api"].spec
        OBVIOUS
      <3>1. ScalesEnabled(r.case)
        BY <1>4, RecipeAssumption
      <3>2. s.o # "payments-api"
        BY <1>2, <1>4, <3>1 DEF ScalesEnabled
      <3> QED
        BY <1>4, <1>8, <2>1, <3>2, Homes DEF Becomes, TypeInv
    <2>5. obj'["sessions"].spec # "held"
      BY <1>6, <2>3 DEF Calm
    <2>6. CASE Continue(h)
      BY <1>1, <1>2, <1>3, <1>5, <2>3, <2>4, <2>5, <2>6, Goes
    <2>7. CASE run' = [run EXCEPT ![h] = Raised(r)]
      BY <1>1, <1>2, <1>3, <2>3, <2>5, <2>7, GivesUp
    <2> QED
      BY <1>1, <1>8, <2>6, <2>7 DEF Answered, Continue
  <1> QED
    BY <1>1, <1>7, <1>8 DEF UndoStep

LEMMA RemoveInv ==
  ASSUME IInv, NEW h \in Harnesses, RemoveStep(h) PROVE IInv'
  <1>1. PICK r, s : r = run[h] /\ s = Step(h)
    OBVIOUS
  <1>2. Active(h) /\ s.op = "remove"
    BY <1>1 DEF RemoveStep, At, Step
  <1>3. latch' = latch /\ journal' = journal
    BY DEF RemoveStep
  <1>4. /\ s.o \in Objects /\ s.known \cap {Home(s.o), "foreign"} = {} /\ s.o \in Made
        /\ Home(s.o) = "absent" /\ s.o # "payments-api"
    BY <1>1, <1>2, AtFacts, Homes
  <1>5. Checked(s) = {} /\ PutBack(s) = {s.o}
    BY <1>2 DEF PutBack, Checked
  <1>6. s.o # "sessions" => obj["sessions"].spec # "held"
    BY <1>1, <1>2, HeldOn
  <1>7. CASE obj[s.o].spec = "absent" /\ Continue(h) /\ UNCHANGED obj
    <2>1. Calm /\ obj' \in Cluster /\ ~Altered(s.o)'
      BY <1>4, <1>7, SameCalm DEF IInv, Altered
    <2>2. s.o = "sessions" => obj'["sessions"].spec # "held"
      BY <1>7
    <2> QED
      BY <1>1, <1>2, <1>3, <1>5, <1>7, <2>1, <2>2, Goes
  <1>8. CASE obj[s.o].spec \in s.known /\ obj' = Becomes(s.o, "absent") /\ Answered(h)
    <2>1. Altered(s.o) /\ TypeInv
      BY <1>4, <1>8 DEF Altered, IInv
    <2>3. Calm /\ obj' \in Cluster /\ ~Altered(s.o)'
      BY <1>4, <1>8, <2>1, HomeCalm
    <2>4. obj'["payments-api"].spec = obj["payments-api"].spec
      BY <1>4, <1>8, <2>1, Homes DEF Becomes, TypeInv
    <2>5. obj'["sessions"].spec # "held"
      <3>1. CASE s.o = "sessions"
        BY <1>8, <2>1, <3>1, Homes DEF Becomes, TypeInv
      <3> QED
        BY <1>6, <2>3, <3>1 DEF Calm
    <2>6. CASE Continue(h)
      BY <1>1, <1>2, <1>3, <1>5, <2>3, <2>4, <2>5, <2>6, Goes
    <2>7. CASE run' = [run EXCEPT ![h] = Raised(r)]
      BY <1>1, <1>2, <1>3, <2>3, <2>5, <2>7, GivesUp
    <2> QED
      BY <1>1, <1>8, <2>6, <2>7 DEF Answered, Continue
  <1> QED
    BY <1>1, <1>7, <1>8 DEF RemoveStep

LEMMA CaptureInv ==
  ASSUME IInv, NEW h \in Harnesses, CaptureStep(h) PROVE IInv'
  <1>1. PICK r, s : r = run[h] /\ s = Step(h)
    OBVIOUS
  <1>2. Active(h) /\ s.op = "capture"
    BY <1>1 DEF CaptureStep, At, Step
  <1>3. latch' = latch /\ journal' = journal /\ obj' = obj
    BY DEF CaptureStep
  <1>4. Calm /\ obj' \in Cluster
    BY <1>3, SameCalm DEF IInv
  <1>5. /\ r.phase = "experiment" /\ r \in RunRecord /\ Where(r) /\ r.at \in Nat
        /\ s = Experiment(r.case)[r.at]
    BY <1>1, <1>2, AtFacts DEF RunRecord
  <1>6. PICK p : p = [r EXCEPT !.captured = TRUE]
    OBVIOUS
  <1>7. p \in RunRecord /\ Where(p) /\ p.phase = r.phase /\ p.case = r.case /\ p.at = r.at /\ p.captured
    BY <1>5, <1>6 DEF RunRecord, Where
  <1>8. run' = [run EXCEPT ![h] = Moved(p, 1)]
    BY <1>1, <1>6 DEF CaptureStep
  <1>9. obj["sessions"].spec # "held"
    BY <1>1, <1>2, HeldOn
  <1>10. \A j \in r.at..r.at + 1 - 1 :
           /\ Experiment(r.case)[j].op = "journal" => Experiment(r.case)[j].specs \subseteq journal'
           /\ Experiment(r.case)[j].op = "capture" => p.captured
           /\ "payments-api" \notin Touches(Experiment(r.case)[j])
    <2>1. \A j \in r.at..r.at + 1 - 1 : j = r.at
      BY <1>5
    <2>2. Touches(s) = {}
      BY <1>2 DEF Touches
    <2> QED
      BY <1>2, <1>5, <1>7, <2>1, <2>2
  <1>11. journal \subseteq journal' /\ 1 \in {1, 3} /\ obj'["sessions"].spec # "held"
         /\ obj'["payments-api"].spec = obj["payments-api"].spec
    BY <1>3, <1>9
  <1> QED
    BY <1>1, <1>3, <1>4, <1>5, <1>7, <1>8, <1>10, <1>11, ExperimentOn

LEMMA JournalStepInv ==
  ASSUME IInv, NEW h \in Harnesses, JournalStep(h) PROVE IInv'
  <1>1. PICK r, s : r = run[h] /\ s = Step(h)
    OBVIOUS
  <1>2. Active(h) /\ s.op = "journal"
    BY <1>1 DEF JournalStep, At, Step
  <1>3. latch' = latch /\ journal' = journal \cup s.specs /\ obj' = obj
    BY <1>1 DEF JournalStep
  <1>4. Calm /\ obj' \in Cluster
    BY <1>3, SameCalm DEF IInv
  <1>5. /\ r.phase = "experiment" /\ r \in RunRecord /\ Where(r) /\ r.at \in Nat
        /\ s = Experiment(r.case)[r.at]
    BY <1>1, <1>2, AtFacts DEF RunRecord
  <1>8. run' = [run EXCEPT ![h] = Moved(r, 1)]
    BY <1>1 DEF JournalStep, Continue
  <1>9. obj["sessions"].spec # "held"
    BY <1>1, <1>2, HeldOn
  <1>10. \A j \in r.at..r.at + 1 - 1 :
           /\ Experiment(r.case)[j].op = "journal" => Experiment(r.case)[j].specs \subseteq journal'
           /\ Experiment(r.case)[j].op = "capture" => r.captured
           /\ "payments-api" \notin Touches(Experiment(r.case)[j])
    <2>1. \A j \in r.at..r.at + 1 - 1 : j = r.at
      BY <1>5
    <2>2. Touches(s) = {}
      BY <1>2 DEF Touches
    <2> QED
      BY <1>2, <1>3, <1>5, <2>1, <2>2
  <1>11. journal \subseteq journal' /\ 1 \in {1, 3} /\ obj'["sessions"].spec # "held"
         /\ obj'["payments-api"].spec = obj["payments-api"].spec
    BY <1>3, <1>9
  <1> QED
    BY <1>1, <1>3, <1>4, <1>5, <1>8, <1>10, <1>11, ExperimentOn

\* A comparison that finds nothing to do passes over the write and the restart.
LEMMA CompareInv ==
  ASSUME IInv, NEW h \in Harnesses, CompareStep(h) PROVE IInv'
  <1>1. PICK r, s : r = run[h] /\ s = Step(h)
    OBVIOUS
  <1>2. Active(h) /\ s.op = "compare"
    BY <1>1 DEF CompareStep, At, Step
  <1>3. latch' = latch /\ journal' = journal /\ obj' = obj
    BY DEF CompareStep
  <1>4. Calm /\ obj' \in Cluster
    BY <1>3, SameCalm DEF IInv
  <1>5. CASE Continue(h)
    <2>1. Checked(s) = {} /\ PutBack(s) = {} /\ obj'["payments-api"].spec = obj["payments-api"].spec
      BY <1>2, <1>3 DEF PutBack, Checked
    <2> QED
      BY <1>1, <1>2, <1>3, <1>4, <1>5, <2>1, Goes
  <1>6. CASE obj["kubelet"].spec \in s.unless /\ run' = [run EXCEPT ![h] = Moved(r, 3)]
    <2>1. /\ r.phase \in {"experiment", "recover"} /\ r \in RunRecord /\ Where(r) /\ r.at \in Nat
          /\ r.case \in CaseIds /\ s.unless \subseteq {"original"}
          /\ r.phase = "experiment" => s = Experiment(r.case)[r.at] /\ r.at \in 1..Len(Experiment(r.case))
          /\ r.phase = "recover" =>
              /\ r.attempt \in DOMAIN Recovery(r.case) /\ r.at \in 1..Len(Recovery(r.case)[r.attempt])
              /\ s = Recovery(r.case)[r.attempt][r.at]
      BY <1>1, <1>2, AtFacts DEF RunRecord
    <2>2. \A j \in r.at..r.at + 3 - 1 : j = r.at \/ j = r.at + 1 \/ j = r.at + 2
      BY <2>1
    <2>3. ~Altered("kubelet")'
      BY <1>3, <1>6, <2>1, Homes DEF Altered
    <2>4. CASE r.phase = "recover"
      <3> DEFINE P == Recovery(r.case)[r.attempt]
      <3>1. Conditional(P)
        BY <2>1, <2>4, RecipeAssumption
      <3>2. P[r.at].op = "compare" /\ P[r.at + 1].op = "tee" /\ P[r.at + 2].op = "restart"
        BY <1>2, <2>1, <2>4, <3>1 DEF Conditional
      <3>3. \A i \in r.at..r.at + 3 - 1 :
              Checked(P[i]) = {} /\ PutBack(P[i]) \subseteq {"kubelet"}
        BY <2>2, <3>2 DEF Checked, PutBack
      <3>4. \A i \in r.at..r.at + 3 - 1 : StaysHome(r.case, r.attempt, i)'
        BY <2>3, <3>3 DEF StaysHome
      <3>5. UNCHANGED <<latch, journal>> /\ 3 \in {1, 3}
        BY <1>3
      <3> QED
        BY <1>1, <1>4, <1>6, <2>4, <3>2, <3>4, <3>5, RecoverOn
    <2>5. CASE r.phase = "experiment"
      <3> DEFINE E == Experiment(r.case)
      <3>1. Conditional(E)
        BY <2>1, RecipeAssumption
      <3>2. E[r.at].op = "compare" /\ E[r.at + 1].op = "tee" /\ E[r.at + 2].op = "restart"
        BY <1>2, <2>1, <2>5, <3>1 DEF Conditional
      <3>3. \A j \in r.at..r.at + 3 - 1 :
              /\ E[j].op = "journal" => E[j].specs \subseteq journal'
              /\ E[j].op = "capture" => r.captured
              /\ "payments-api" \notin Touches(E[j])
        <4>1. \A j \in r.at..r.at + 3 - 1 : E[j].op \in {"compare", "tee", "restart"}
          BY <2>2, <3>2
        <4>2. \A j \in r.at..r.at + 3 - 1 : "payments-api" \notin Touches(E[j])
          BY <4>1 DEF Touches
        <4> QED
          BY <4>1, <4>2
      <3>4. obj["sessions"].spec # "held"
        BY <1>1, <1>2, HeldOn
      <3>5. journal \subseteq journal' /\ 3 \in {1, 3} /\ obj'["sessions"].spec # "held"
            /\ obj'["payments-api"].spec = obj["payments-api"].spec
        BY <1>3, <3>4
      <3> QED
        BY <1>1, <1>3, <1>4, <1>6, <2>1, <2>5, <3>3, <3>5, ExperimentOn
    <2> QED
      BY <2>1, <2>4, <2>5
  <1> QED
    BY <1>1, <1>5, <1>6 DEF CompareStep

LEMMA RestartInv ==
  ASSUME IInv, NEW h \in Harnesses, RestartStep(h) PROVE IInv'
  <1>1. PICK r, s : r = run[h] /\ s = Step(h)
    OBVIOUS
  <1>2. Active(h) /\ s.op = "restart"
    BY <1>1 DEF RestartStep, At, Step
  <1>3. latch' = latch /\ journal' = journal /\ obj' = [obj EXCEPT !["kubelet"].live = obj["kubelet"].spec]
    BY DEF RestartStep
  <1>4. Calm /\ obj' \in Cluster /\ obj'["payments-api"].spec = obj["payments-api"].spec
    <2>1. /\ \A o \in Objects : obj'[o].spec = obj[o].spec
          /\ \A o \in Objects \ {"kubelet"} : obj'[o] = obj[o]
          /\ obj' \in Cluster
      BY <1>3, Homes DEF IInv, TypeInv, Cluster
    <2>2. \A o \in Objects : (Altered(o)' <=> Altered(o)) /\ (Disturbed(o)' <=> Disturbed(o))
      BY <2>1 DEF Altered, Disturbed
    <2> QED
      BY <2>1, <2>2, Homes DEF Calm
  <1>5. Checked(s) = {} /\ PutBack(s) = {}
    BY <1>2 DEF PutBack, Checked
  <1>6. obj'["sessions"].spec # "held"
    <2>1. obj["sessions"].spec # "held"
      BY <1>1, <1>2, HeldOn
    <2> QED
      BY <1>4, <2>1 DEF Calm
  <1>7. CASE Continue(h)
    BY <1>1, <1>2, <1>3, <1>4, <1>5, <1>6, <1>7, Goes
  <1>8. CASE run' = [run EXCEPT ![h] = Raised(r)]
    BY <1>1, <1>2, <1>3, <1>4, <1>6, <1>8, GivesUp
  <1> QED
    BY <1>1, <1>7, <1>8 DEF RestartStep, Answered, Continue

LEMMA RaiseInv ==
  ASSUME IInv, NEW h \in Harnesses, Raise(h) PROVE IInv'
  <1>1. PICK r : r = run[h]
    OBVIOUS
  <1>2. /\ Active(h) /\ latch' = latch /\ journal' = journal /\ run' = [run EXCEPT ![h] = Raised(r)]
        /\ obj' = Closed(r, Raised(r))
    BY <1>1 DEF Raise
  <1>3. r.phase \in {"experiment", "recover"} /\ r \in RunRecord /\ Where(r) /\ TypeInv
    <2>1. PICK s : s = Step(h)
      OBVIOUS
    <2> QED
      BY <1>1, <1>2, <2>1, AtFacts DEF IInv
  <1>4. CASE r.phase = "experiment"
    <2>1. PICK q : q = Raised(r)
      OBVIOUS
    <2>2. q.phase # "experiment"
      BY <1>3, <1>4, <2>1, RaisedExperiment
    <2>3. obj' = [obj EXCEPT !["sessions"].spec = IF @ = "held" THEN "absent" ELSE @]
      BY <1>2, <1>4, <2>1, <2>2 DEF Closed
    <2>4. Calm /\ obj' \in Cluster /\ obj'["sessions"].spec # "held"
      BY <1>3, <2>3, CloseCalm
    <2> QED
      BY <1>1, <1>2, <2>4, GivesUp
  <1>5. CASE r.phase = "recover"
    <2>1. obj' = obj
      BY <1>2, <1>5 DEF Closed
    <2>2. Calm /\ obj' \in Cluster
      BY <1>3, <2>1, SameCalm
    <2> QED
      BY <1>1, <1>2, <1>5, <2>2, GivesUp
  <1> QED
    BY <1>3, <1>4, <1>5

-----------------------------------------------------------------------------
(* The steps of an experiment that alter an object.                        *)

LEMMA AlterInv ==
  ASSUME IInv, NEW h \in Harnesses, Active(h), NEW r, r = run[h], NEW s, s = Step(h),
         r.phase = "experiment", s.op \in {"write", "create", "tee"}, NEW o, Touches(s) = {o},
         s.op = "create" => obj[o].spec = "absent",
         latch' = latch, journal' = journal, obj' = Becomes(o, s.to),
         run' = [run EXCEPT ![h] = Moved(r, 1)]
           \/ (o # "sessions" /\ run' = [run EXCEPT ![h] = Raised(r)])
  PROVE  IInv'
  <1>0. PICK E : E = Experiment(r.case)
    OBVIOUS
  <1>1. /\ latch = h /\ r \in RunRecord /\ Where(r) /\ r.case \in CaseIds /\ s = E[r.at] /\ r.at \in 1..Len(E)
        /\ r.at \in Nat /\ Len(E) \in Nat /\ s.to \in Variants /\ o \in Objects /\ h # Free
    <2>1. /\ latch = h /\ r \in RunRecord /\ Where(r) /\ r.case \in CaseIds /\ s = E[r.at]
          /\ r.at \in 1..Len(E) /\ s.to \in Variants
          /\ s.op \in {"write", "create"} => s.o \in Objects
      BY <1>0, AtFacts
    <2>2. o \in Objects
      BY <2>1, Homes DEF Touches
    <2> QED
      BY <1>0, <2>1, <2>2, RecipeAssumption, HarnessAssumption DEF RunRecord
  <1>2. TypeInv /\ LatchInv /\ HolderInv /\ DisturbInv /\ JournalInv /\ ScaleInv /\ SessionInv /\ Saved(r)
    BY <1>1 DEF IInv, HolderInv
  <1>3. SavedFirst(E) /\ HoldsBriefly(E) /\ ScalesEnabled(r.case)
    BY <1>0, <1>1, RecipeAssumption
  <1>4. \A j \in 1..r.at - 1 :
          /\ E[j].op = "journal" => E[j].specs \subseteq journal
          /\ E[j].op = "capture" => r.captured
          /\ "hpa" \in Touched(r.case) /\ "payments-api" \in Touches(E[j]) =>
               obj["payments-api"].spec \in {"enabled", "scaled", "foreign"}
    BY <1>0, <1>2 DEF Saved
  <1>5. r.captured
    BY <1>1, <1>3, <1>4 DEF SavedFirst
  <1>6. \A u, v : JournalledBefore(E, r.at, u, v) => <<u, v>> \in journal
    BY <1>4 DEF JournalledBefore
  <1>7. o \notin Made => {<<o, "original">>, <<o, s.to>>} \subseteq journal
    BY <1>1, <1>3, <1>6 DEF SavedFirst
  <1>8. /\ obj'[o].spec = s.to /\ \A u \in Objects \ {o} : obj'[u] = obj[u]
        /\ obj' \in Cluster
    BY <1>1, <1>2 DEF TypeInv, Becomes, Cluster
  <1>9. \A u \in Objects \ {o} : (Altered(u)' <=> Altered(u)) /\ (Disturbed(u)' <=> Disturbed(u))
    BY <1>8 DEF Altered, Disturbed
  <1>10. PICK q : (q = Moved(r, 1) \/ (o # "sessions" /\ q = Raised(r))) /\ run' = [run EXCEPT ![h] = q]
    OBVIOUS
  <1>11. /\ q \in RunRecord /\ Where(q) /\ q.phase \in Working /\ q.case = r.case /\ q.captured
         /\ q.phase = "experiment" => q.at = r.at + 1
         /\ \A a, i : ~Sure(q, a, i)
         /\ o = "sessions" => (q.phase = "experiment" <=> r.at + 1 <= Len(E))
    <2>1. CASE q = Moved(r, 1)
      BY <1>0, <1>1, <1>5, <2>1, MovedExperiment DEF Working
    <2>2. CASE o # "sessions" /\ q = Raised(r)
      BY <1>1, <1>5, <2>2, RaisedExperiment DEF Working
    <2> QED
      BY <1>10, <2>1, <2>2
  <1>12. /\ run'[h] = q /\ (\A g \in Harnesses \ {h} : run'[g] = run[g]) /\ run' \in [Harnesses -> RunRecord]
         /\ q.phase # "idle"
    BY <1>2, <1>10, <1>11 DEF TypeInv, Working
  <1>13. TypeInv'
    BY <1>2, <1>8, <1>12 DEF TypeInv, Cluster
  <1>14. LatchInv'
    BY <1>1, <1>2, <1>12 DEF LatchInv
  <1>15. o \in Touched(r.case)
    BY <1>0, <1>1 DEF Touched
  <1>16. DisturbInv'
    <2> SUFFICES ASSUME NEW u \in Objects, Disturbed(u)' PROVE q.captured /\ u \in Touched(q.case)
      BY <1>1, <1>12 DEF DisturbInv
    <2>1. CASE u # o
      BY <1>1, <1>2, <1>9, <1>11, <2>1 DEF DisturbInv
    <2> QED
      BY <1>11, <1>15, <2>1
  <1>17. JournalInv'
    <2> SUFFICES ASSUME NEW u \in Objects \ Made, Altered(u)'
                 PROVE  {<<u, "original">>, <<u, obj'[u].spec>>} \subseteq journal
      BY DEF JournalInv
    <2>1. CASE u # o
      BY <1>2, <1>8, <1>9, <2>1 DEF JournalInv
    <2> QED
      BY <1>7, <1>8, <2>1
  <1>18. "hpa" \in Touched(r.case) /\ o = "payments-api" => obj'["payments-api"].spec = "enabled"
    BY <1>0, <1>1, <1>3, <1>8 DEF ScalesEnabled
  <1>19. ScaleInv'
    <2> SUFFICES ASSUME obj'["hpa"].spec = "cap2"
                 PROVE  /\ obj'["payments-api"].spec \in {"enabled", "scaled", "foreign"}
                        /\ {"payments-api"} \X {"original", "enabled", "scaled"} \subseteq journal
      BY DEF ScaleInv
    <2>1. CASE o = "hpa"
      <3>1. "hpa" \in Touches(E[r.at]) /\ E[r.at].to = "cap2" /\ "hpa" \in Touched(r.case)
        BY <1>1, <1>8, <1>15, <2>1
      <3>2. PICK j \in 1..r.at - 1 : "payments-api" \in Touches(E[j])
        BY <1>0, <1>1, <1>3, <3>1 DEF ScalesEnabled
      <3>3. \A v \in {"original", "enabled", "scaled"} : JournalledBefore(E, r.at, "payments-api", v)
        BY <1>0, <1>1, <1>3, <3>1 DEF ScalesEnabled
      <3>4. \A v \in {"original", "enabled", "scaled"} : <<"payments-api", v>> \in journal
        BY <1>6, <3>3
      <3>5. obj["payments-api"].spec \in {"enabled", "scaled", "foreign"}
        BY <1>4, <3>1, <3>2
      <3>6. obj'["payments-api"] = obj["payments-api"]
        BY <1>8, <2>1, Homes
      <3> QED
        BY <3>4, <3>5, <3>6
    <2>2. CASE o # "hpa"
      <3>1. obj["hpa"].spec = "cap2"
        BY <1>8, <2>2, Homes
      <3>2. "hpa" \in Touched(r.case)
        BY <1>1, <1>2, <3>1, Homes DEF DisturbInv, Disturbed, Altered
      <3>3. obj'["payments-api"].spec \in {obj["payments-api"].spec, "enabled"}
        BY <1>8, <1>18, <3>2, Homes
      <3> QED
        BY <1>2, <3>1, <3>3 DEF ScaleInv
    <2> QED
      BY <2>1, <2>2
  <1>20. /\ obj'["sessions"].spec \in {"absent", "held", "foreign"}
         /\ obj'["sessions"].spec = "held" => q.phase = "experiment" /\ HeldAt(Experiment(q.case), q.at)
    <2>1. CASE o = "sessions"
      <3>1. s.to = "held" /\ obj'["sessions"].spec = "held" /\ "sessions" \in Touches(E[r.at])
        BY <1>1, <1>3, <1>8, <2>1 DEF HoldsBriefly
      <3>2. r.at \in 1..(r.at + 1) - 1 /\ \A k : k \notin r.at + 1..(r.at + 1) - 1
        BY <1>1
      <3>3. HeldAt(E, r.at + 1)
        BY <3>1, <3>2 DEF HeldAt
      <3>4. r.at + 1 # Len(E) + 1
        BY <1>3, <3>3 DEF HoldsBriefly
      <3>5. r.at + 1 <= Len(E)
        BY <1>1, <3>4
      <3> QED
        BY <1>0, <1>11, <2>1, <3>1, <3>3, <3>5
    <2>2. CASE o # "sessions"
      <3>1. obj["sessions"].spec # "held"
        BY HeldOn
      <3> QED
        BY <1>2, <1>8, <2>2, <3>1, Homes DEF SessionInv
    <2> QED
      BY <2>1, <2>2
  <1>21. SessionInv'
    BY <1>1, <1>12, <1>20 DEF SessionInv
  <1>22. Saved(q)'
    <2> SUFFICES ASSUME q.phase = "experiment", NEW j \in 1..q.at - 1
                 PROVE  /\ E[j].op = "journal" => E[j].specs \subseteq journal
                        /\ E[j].op = "capture" => q.captured
                        /\ "hpa" \in Touched(r.case) /\ "payments-api" \in Touches(E[j]) =>
                             obj'["payments-api"].spec \in {"enabled", "scaled", "foreign"}
      BY <1>0, <1>11 DEF Saved
    <2>1. j \in 1..r.at - 1 \/ j = r.at
      BY <1>1, <1>11
    <2>2. CASE j \in 1..r.at - 1
      <3>1. "hpa" \in Touched(r.case) /\ "payments-api" \in Touches(E[j]) =>
              obj'["payments-api"].spec \in {obj["payments-api"].spec, "enabled"}
        BY <1>8, <1>18, Homes
      <3> QED
        BY <1>4, <1>11, <2>2, <3>1
    <2>3. CASE j = r.at
      <3>1. "payments-api" \in Touches(E[j]) => o = "payments-api"
        BY <1>1, <2>3
      <3>2. E[j].op \notin {"journal", "capture"}
        BY <1>1, <2>3
      <3> QED
        BY <1>18, <3>1, <3>2
    <2> QED
      BY <2>1, <2>2, <2>3
  <1>23. HolderInv'
    BY <1>1, <1>11, <1>12, <1>22 DEF HolderInv, SureInv
  <1> QED
    BY <1>13, <1>14, <1>16, <1>17, <1>19, <1>21, <1>23 DEF IInv

LEMMA WriteInv ==
  ASSUME IInv, NEW h \in Harnesses, WriteStep(h) PROVE IInv'
  <1>1. PICK r, s : r = run[h] /\ s = Step(h)
    OBVIOUS
  <1>2. Active(h) /\ s.op = "write"
    BY <1>1 DEF WriteStep, At, Step
  <1>3. latch' = latch /\ journal' = journal /\ obj' = Becomes(s.o, s.to)
    BY <1>1 DEF WriteStep
  <1>4. r.phase = "experiment" /\ r.case \in CaseIds /\ s = Experiment(r.case)[r.at]
        /\ r.at \in 1..Len(Experiment(r.case))
    BY <1>1, <1>2, AtFacts
  <1>5. Touches(s) = {s.o}
    BY <1>2 DEF Touches
  <1>6. s.o # "sessions"
    BY <1>2, <1>4, <1>5, RecipeAssumption DEF HoldsBriefly
  <1>7. run' = [run EXCEPT ![h] = Moved(r, 1)] \/ run' = [run EXCEPT ![h] = Raised(r)]
    BY <1>1 DEF WriteStep, Answered
  <1>8. PICK o : o = s.o
    OBVIOUS
  <1>9. /\ s.op \in {"write", "create", "tee"} /\ s.op # "create" /\ Touches(s) = {o} /\ obj' = Becomes(o, s.to)
        /\ run' = [run EXCEPT ![h] = Moved(r, 1)]
             \/ (o # "sessions" /\ run' = [run EXCEPT ![h] = Raised(r)])
    BY <1>2, <1>3, <1>5, <1>6, <1>7, <1>8
  <1>10. r.phase = "experiment"
    BY <1>4
  <1> QED
    BY <1>1, <1>2, <1>3, <1>9, <1>10, AlterInv

LEMMA CreateInv ==
  ASSUME IInv, NEW h \in Harnesses, CreateStep(h) PROVE IInv'
  <1>1. PICK r, s : r = run[h] /\ s = Step(h)
    OBVIOUS
  <1>2. Active(h) /\ s.op = "create"
    BY <1>1 DEF CreateStep, At, Step
  <1>3. latch' = latch /\ journal' = journal /\ obj' = Becomes(s.o, s.to) /\ obj[s.o].spec = "absent"
    BY <1>1 DEF CreateStep
  <1>4. r.phase = "experiment"
    BY <1>1, <1>2, AtFacts
  <1>5. Touches(s) = {s.o}
    BY <1>2 DEF Touches
  <1>7. run' = [run EXCEPT ![h] = Moved(r, 1)]
          \/ (s.o # "sessions" /\ run' = [run EXCEPT ![h] = Raised(r)])
    BY <1>1 DEF CreateStep, Answered, Continue
  <1> QED
    BY <1>1, <1>2, <1>3, <1>4, <1>5, <1>7, AlterInv

LEMMA TeeInv ==
  ASSUME IInv, NEW h \in Harnesses, TeeStep(h) PROVE IInv'
  <1>1. PICK r, s : r = run[h] /\ s = Step(h)
    OBVIOUS
  <1>2. Active(h) /\ s.op = "tee"
    BY <1>1 DEF TeeStep, At, Step
  <1>3. latch' = latch /\ journal' = journal /\ obj' = Becomes("kubelet", s.to)
    BY <1>1 DEF TeeStep
  <1>4. r.phase \in {"experiment", "recover"} /\ (r.phase = "recover" => s.to = "original")
    BY <1>1, <1>2, AtFacts
  <1>5. run' = [run EXCEPT ![h] = Moved(r, 1)] \/ run' = [run EXCEPT ![h] = Raised(r)]
    BY <1>1 DEF TeeStep, Answered
  <1>6. CASE r.phase = "experiment"
    <2>1. Touches(s) = {"kubelet"}
      BY <1>2 DEF Touches
    <2> QED
      BY <1>1, <1>2, <1>3, <1>5, <1>6, <2>1, AlterInv
  <1>7. CASE r.phase = "recover"
    <2>1. Calm /\ obj' \in Cluster /\ ~Altered("kubelet")'
      BY <1>3, <1>4, <1>7, Homes, HomeCalm DEF IInv
    <2>2. Checked(s) = {} /\ PutBack(s) = {"kubelet"}
      BY <1>2 DEF Checked, PutBack
    <2>3. CASE run' = [run EXCEPT ![h] = Moved(r, 1)]
      <3>1. Continue(h)
        BY <1>1, <2>3 DEF Continue
      <3> QED
        BY <1>1, <1>2, <1>3, <1>7, <2>1, <2>2, <3>1, Goes
    <2>4. CASE run' = [run EXCEPT ![h] = Raised(r)]
      BY <1>1, <1>2, <1>3, <1>7, <2>1, <2>4, GivesUp
    <2> QED
      BY <1>5, <2>3, <2>4
  <1> QED
    BY <1>4, <1>6, <1>7

-----------------------------------------------------------------------------
(* The end of a run, its failures, and its start.                          *)

LEMMA SaveFailsInv ==
  ASSUME IInv, NEW h \in Harnesses, SaveFails(h) PROVE IInv'
  <1>1. PICK r : r = run[h]
    OBVIOUS
  <1>2. /\ r.phase = "recover" /\ r.case # "SCHED-03" /\ UNCHANGED <<latch, obj, journal>>
        /\ run' = [run EXCEPT ![h].failed = @ \cup {r.attempt}]
    BY <1>1 DEF SaveFails
  <1>3. latch = h /\ r \in RunRecord /\ Where(r) /\ obj["sessions"].spec # "held" /\ TypeInv
    BY <1>1, <1>2, HolderFacts DEF Working, IInv
  <1>4. PICK q : q = [r EXCEPT !.failed = @ \cup {r.attempt}]
    OBVIOUS
  <1>5. /\ q \in RunRecord /\ q.phase = "recover" /\ q.case = r.case /\ q.captured = r.captured
        /\ q.cut = r.cut /\ q.at = r.at /\ q.attempt = r.attempt /\ q.failed = r.failed \cup {r.attempt}
    BY <1>2, <1>3, <1>4 DEF RunRecord
  <1>6. Where(q)
    BY <1>2, <1>3, <1>5 DEF Where, Needs
  <1>7. \A a, i : Sure(q, a, i) => Sure(r, a, i)
    BY <1>2, <1>5 DEF Sure
  <1>8. Saved(q)' /\ run' = [run EXCEPT ![h] = q]
    BY <1>1, <1>2, <1>3, <1>4, <1>5 DEF Saved
  <1>9. Calm /\ obj' \in Cluster /\ journal \subseteq journal' /\ obj'["sessions"].spec # "held" /\ q.captured
    BY <1>2, <1>3, <1>5, SameCalm DEF Where
  <1> QED
    BY <1>1, <1>2, <1>3, <1>5, <1>6, <1>7, <1>8, <1>9, CalmStep

\* A process that stops without releasing: nothing is relied on any more than before.
LEMMA StopInv ==
  ASSUME IInv, NEW h \in Harnesses, NEW r, r = run[h], r.phase \in Working,
         NEW q \in RunRecord, run' = [run EXCEPT ![h] = q], q.phase \in {"receipt", "ended"},
         q.case = r.case, q.captured = r.captured, q.failed = r.failed,
         q.cut \/ (r.phase = "receipt" /\ q.cut = r.cut),
         latch' = latch, journal' = journal, obj' \in Cluster, Calm, obj'["sessions"].spec # "held"
  PROVE  IInv'
  <1>1. latch = h /\ r \in RunRecord /\ Where(r)
    BY HolderFacts
  <1>2. Where(q) /\ Saved(q)'
    BY <1>1 DEF Where, Saved
  <1>3. \A a, i : Sure(q, a, i) => Sure(r, a, i)
    BY DEF Sure
  <1> QED
    BY <1>1, <1>2, <1>3, CalmStep

LEMMA InterruptInv ==
  ASSUME IInv, NEW h \in Harnesses, Interrupt(h) PROVE IInv'
  <1>1. PICK r : r = run[h]
    OBVIOUS
  <1>2. /\ r.phase = "recover" /\ latch' = latch /\ journal' = journal /\ obj' = obj
        /\ \E q \in {Raised(r), [r EXCEPT !.phase = "receipt", !.cut = TRUE],
                     [r EXCEPT !.phase = "ended", !.cut = TRUE]} : run' = [run EXCEPT ![h] = q]
    BY <1>1 DEF Interrupt
  <1>3. r \in RunRecord /\ obj["sessions"].spec # "held" /\ TypeInv
    BY <1>1, <1>2, HolderFacts DEF Working, IInv
  <1>4. Calm /\ obj' \in Cluster /\ obj'["sessions"].spec # "held" /\ UNCHANGED <<latch, journal>>
    BY <1>2, <1>3, SameCalm
  <1>5. CASE run' = [run EXCEPT ![h] = Raised(r)]
    BY <1>1, <1>2, <1>4, <1>5, RecoverRaises
  <1>6. ASSUME NEW q, NEW p \in {"receipt", "ended"}, q = [r EXCEPT !.phase = p, !.cut = TRUE],
               run' = [run EXCEPT ![h] = q]
        PROVE  IInv'
    <2>1. /\ q \in RunRecord /\ q.phase \in {"receipt", "ended"} /\ q.case = r.case /\ q.captured = r.captured
          /\ q.failed = r.failed /\ q.cut
      BY <1>3, <1>6 DEF RunRecord, Phases
    <2>2. r.phase \in Working
      BY <1>2 DEF Working
    <2>3. latch' = latch /\ journal' = journal /\ run' = [run EXCEPT ![h] = q]
      BY <1>2, <1>6
    <2> QED
      BY <1>1, <1>4, <2>1, <2>2, <2>3, StopInv
  <1> QED
    BY <1>2, <1>5, <1>6

LEMMA DieInv ==
  ASSUME IInv, NEW h \in Harnesses, Die(h) PROVE IInv'
  <1>1. PICK r : r = run[h]
    OBVIOUS
  <1>2. /\ r.phase \in Working /\ latch' = latch /\ journal' = journal
        /\ obj' = [obj EXCEPT !["sessions"].spec = IF @ = "held" THEN "absent" ELSE @]
        /\ run' = [run EXCEPT ![h].phase = "ended", ![h].cut = TRUE]
    BY <1>1 DEF Die, Working
  <1>3. r \in RunRecord /\ TypeInv
    BY <1>1, <1>2, HolderFacts DEF IInv
  <1>4. Calm /\ obj' \in Cluster /\ obj'["sessions"].spec # "held"
    BY <1>2, <1>3, CloseCalm
  <1>5. PICK q : q = [r EXCEPT !.phase = "ended", !.cut = TRUE]
    OBVIOUS
  <1>6. /\ q \in RunRecord /\ q.phase = "ended" /\ q.case = r.case /\ q.captured = r.captured
        /\ q.failed = r.failed /\ q.cut
    BY <1>3, <1>5 DEF RunRecord, Phases
  <1>7. run' = [run EXCEPT ![h] = q]
    BY <1>1, <1>2, <1>3, <1>5 DEF TypeInv
  <1>8. r.phase \in Working /\ latch' = latch /\ journal' = journal /\ q.phase \in {"receipt", "ended"}
    BY <1>2, <1>6
  <1> QED
    BY <1>1, <1>4, <1>6, <1>7, <1>8, StopInv

\* A receipt that follows no failure finds every object the run touched at home.
LEMMA ReceiptHome ==
  ASSUME IInv, NEW h \in Harnesses, run[h].phase = "receipt", run[h].failed = {}, ~run[h].cut,
         NEW o \in Objects
  PROVE  ~Disturbed(o)
  <1> SUFFICES ASSUME Disturbed(o) PROVE FALSE
    OBVIOUS
  <1>1. PICK r : r = run[h]
    OBVIOUS
  <1>2. latch = h /\ r \in RunRecord /\ Where(r) /\ SureInv(r)
    BY <1>1, HolderFacts DEF Working
  <1>3. r.captured /\ o \in Touched(r.case) /\ r.case \in CaseIds
    BY <1>1, <1>2 DEF IInv, DisturbInv, Where
  <1>4. PutsBack(r.case)
    BY <1>3, RecipeAssumption
  <1>5. PICK a \in DOMAIN Recovery(r.case) : \E i \in 1..Len(Recovery(r.case)[a]) :
           o \in Checked(Recovery(r.case)[a][i])
    BY <1>3, <1>4 DEF PutsBack
  <1>6. PICK i \in 1..Len(Recovery(r.case)[a]) : o \in Checked(Recovery(r.case)[a][i])
    BY <1>5
  <1>7. Sure(r, a, i)
    BY <1>1, <1>3 DEF Sure
  <1> QED
    BY <1>2, <1>3, <1>6, <1>7 DEF SureInv, StaysHome

LEMMA ReceiptInv ==
  ASSUME IInv, NEW h \in Harnesses, Receipt(h) PROVE IInv'
  <1>1. PICK r : r = run[h]
    OBVIOUS
  <1>2. r.phase = "receipt" /\ obj' = obj
    BY <1>1 DEF Receipt
  <1>3. /\ latch = h /\ r \in RunRecord /\ TypeInv /\ LatchInv /\ SessionInv
        /\ obj["sessions"].spec # "held" /\ h # Free
    BY <1>1, <1>2, HolderFacts DEF Working, IInv
  <1>4. Calm /\ obj' \in Cluster /\ obj'["sessions"].spec # "held"
    BY <1>2, <1>3, SameCalm
  <1>5. CASE r.failed = {} /\ ~r.cut
    <2>1. latch' = Free /\ journal' = {} /\ run' = [run EXCEPT ![h] = [Idle EXCEPT !.phase = "ended"]]
      BY <1>1, <1>5 DEF Receipt
    <2>2. PICK q : q = [Idle EXCEPT !.phase = "ended"]
      OBVIOUS
    <2>3. q \in RunRecord /\ q.phase = "ended"
      BY <2>2 DEF Idle, RunRecord, Phases
    <2>4. /\ run'[h] = q /\ (\A g \in Harnesses \ {h} : run'[g] = run[g]) /\ run' \in [Harnesses -> RunRecord]
      BY <1>3, <2>1, <2>2, <2>3 DEF TypeInv
    <2>5. \A o \in Objects : ~Disturbed(o)' /\ ~Altered(o)'
      BY <1>1, <1>2, <1>5, ReceiptHome DEF Disturbed, Altered
    <2>6. TypeInv'
      BY <1>3, <1>4, <2>1, <2>4 DEF TypeInv, Cluster
    <2>7. LatchInv'
      BY <1>3, <2>1, <2>3, <2>4, HarnessAssumption DEF LatchInv, Working
    <2>8. HolderInv' /\ DisturbInv' /\ JournalInv'
      BY <2>1, <2>5 DEF HolderInv, DisturbInv, JournalInv
    <2>9. ScaleInv'
      <3>1. obj'["hpa"].spec \in {Home("hpa"), "foreign"}
        BY <2>5, Homes DEF Altered
      <3> QED
        BY <3>1, Homes DEF ScaleInv
    <2>10. SessionInv'
      BY <1>2, <1>3 DEF SessionInv
    <2> QED
      BY <2>6, <2>7, <2>8, <2>9, <2>10 DEF IInv
  <1>6. CASE ~(r.failed = {} /\ ~r.cut)
    <2>1. latch' = latch /\ journal' = journal /\ run' = [run EXCEPT ![h].phase = "ended"]
      BY <1>1, <1>6 DEF Receipt
    <2>2. PICK q : q = [r EXCEPT !.phase = "ended"]
      OBVIOUS
    <2>3. /\ q \in RunRecord /\ q.phase = "ended" /\ q.case = r.case /\ q.captured = r.captured
          /\ q.failed = r.failed /\ q.cut = r.cut /\ run' = [run EXCEPT ![h] = q]
      BY <1>1, <1>3, <2>1, <2>2 DEF RunRecord, Phases, TypeInv
    <2>4. r.phase \in Working /\ (q.cut \/ (r.phase = "receipt" /\ q.cut = r.cut))
      BY <1>2, <2>3 DEF Working
    <2>5. q \in RunRecord /\ q.phase \in {"receipt", "ended"} /\ latch' = latch /\ journal' = journal
      BY <2>1, <2>3
    <2> QED
      BY <1>1, <1>4, <2>3, <2>4, <2>5, StopInv
  <1> QED
    BY <1>5, <1>6

LEMMA ReceiptFailsInv ==
  ASSUME IInv, NEW h \in Harnesses, ReceiptFails(h) PROVE IInv'
  <1>1. PICK r : r = run[h]
    OBVIOUS
  <1>2. /\ r.phase = "receipt" /\ obj' = obj /\ latch' = latch /\ journal' = journal
        /\ run' = [run EXCEPT ![h].phase = "ended"]
    BY <1>1 DEF ReceiptFails
  <1>3. r \in RunRecord /\ TypeInv /\ obj["sessions"].spec # "held"
    BY <1>1, <1>2, HolderFacts DEF Working, IInv
  <1>4. Calm /\ obj' \in Cluster /\ obj'["sessions"].spec # "held"
    BY <1>2, <1>3, SameCalm
  <1>5. PICK q : q = [r EXCEPT !.phase = "ended"]
    OBVIOUS
  <1>6. /\ q \in RunRecord /\ q.phase = "ended" /\ q.case = r.case /\ q.captured = r.captured
        /\ q.failed = r.failed /\ q.cut = r.cut /\ run' = [run EXCEPT ![h] = q]
    BY <1>1, <1>2, <1>3, <1>5 DEF RunRecord, Phases, TypeInv
  <1>7. r.phase \in Working /\ (q.cut \/ (r.phase = "receipt" /\ q.cut = r.cut))
    BY <1>2, <1>6 DEF Working
  <1>8. q \in RunRecord /\ q.phase \in {"receipt", "ended"} /\ latch' = latch /\ journal' = journal
    BY <1>2, <1>6
  <1> QED
    BY <1>1, <1>4, <1>6, <1>7, <1>8, StopInv

LEMMA BeginInv ==
  ASSUME IInv, NEW h \in Harnesses, Begin(h) PROVE IInv'
  <1>1. /\ TypeInv /\ LatchInv /\ HolderInv /\ DisturbInv /\ JournalInv /\ ScaleInv /\ SessionInv /\ h # Free
        /\ run[h] \in RunRecord
    BY HarnessAssumption DEF IInv, TypeInv
  <1>2. obj' = obj /\ journal' = journal /\ run[h].phase = "idle" /\ latch # h /\ ~run[h].captured
    BY <1>1 DEF Begin, Refused, StartFails, Start, LatchInv
  <1>3. Calm /\ obj' \in Cluster
    BY <1>1, <1>2, SameCalm
  <1>4. JournalInv' /\ ScaleInv'
    BY <1>1, <1>2 DEF JournalInv, ScaleInv, Altered
  <1>5. ASSUME NEW q \in RunRecord, q.phase \in {"experiment", "ended"}, run' = [run EXCEPT ![h] = q],
               latch' \in {latch, h}, latch' # latch => latch = Free,
               latch' = h => Where(q) /\ Saved(q)' /\ ~q.captured,
               q.phase = "experiment" => latch' = h
        PROVE  IInv'
    <2>1. run'[h] = q /\ (\A g \in Harnesses \ {h} : run'[g] = run[g]) /\ run' \in [Harnesses -> RunRecord]
      BY <1>1, <1>5 DEF TypeInv
    <2>2. TypeInv'
      BY <1>1, <1>3, <1>5, <2>1 DEF TypeInv, Cluster
    <2>3. LatchInv'
      <3> SUFFICES ASSUME NEW g \in Harnesses
                   PROVE  /\ run'[g].phase \in Working => latch' = g
                          /\ run'[g].phase = "idle" => latch' # g /\ ~run'[g].captured
        BY DEF LatchInv
      <3>1. CASE g = h
        BY <1>5, <2>1, <3>1 DEF Working
      <3>2. CASE g # h
        <4>1. run'[g] = run[g] /\ g # Free
          BY <2>1, <3>2, HarnessAssumption
        <4> QED
          BY <1>1, <1>5, <3>2, <4>1 DEF LatchInv
      <3> QED
        BY <3>1, <3>2
    <2>4. CASE latch' = latch
      <3>1. latch # Free => run'[latch] = run[latch]
        BY <1>1, <1>2, <2>1 DEF TypeInv
      <3>2. DisturbInv' /\ SessionInv'
        BY <1>1, <1>2, <2>4, <3>1 DEF DisturbInv, SessionInv, Disturbed, Altered
      <3>3. HolderInv'
        <4> SUFFICES ASSUME latch # Free
                     PROVE  Where(run[latch]) /\ Saved(run[latch])' /\ SureInv(run[latch])'
          BY <2>4, <3>1 DEF HolderInv
        <4>1. Where(run[latch]) /\ Saved(run[latch]) /\ SureInv(run[latch])
          BY <1>1 DEF HolderInv
        <4>2. PICK p : p = run[latch]
          OBVIOUS
        <4>3. Where(p) /\ Saved(p) /\ SureInv(p) /\ p = run'[latch']
          BY <2>4, <3>1, <4>1, <4>2
        <4>4. Saved(p)' /\ SureInv(p)'
          BY <1>2, <4>3 DEF Saved, SureInv, StaysHome, Disturbed, Altered
        <4> QED
          BY <2>4, <3>1, <4>2, <4>3, <4>4
      <3> QED
        BY <1>4, <2>2, <2>3, <3>2, <3>3 DEF IInv
    <2>5. CASE latch' = h /\ latch = Free
      <3>1. \A o \in Objects : ~Disturbed(o)
        BY <1>1, <2>5 DEF DisturbInv
      <3>2. DisturbInv'
        BY <1>2, <3>1 DEF DisturbInv, Disturbed, Altered
      <3>3. SessionInv'
        BY <1>1, <1>2, <2>5 DEF SessionInv
      <3>4. HolderInv'
        BY <1>5, <2>1, <2>5 DEF HolderInv, SureInv
      <3> QED
        BY <1>4, <2>2, <2>3, <3>2, <3>3, <3>4 DEF IInv
    <2> QED
      BY <1>5, <2>4, <2>5
  <1>6. CASE Refused(h) \/ StartFails(h)
    <2>1. PICK q : q = [run[h] EXCEPT !.phase = "ended"]
      OBVIOUS
    <2>2. q \in RunRecord /\ q.phase = "ended" /\ ~q.captured /\ run' = [run EXCEPT ![h] = q]
      BY <1>1, <1>2, <1>6, <2>1 DEF RunRecord, Phases, Refused, StartFails
    <2>3. Where(q) /\ Saved(q)'
      BY <2>2 DEF Where, Saved
    <2>4. latch' \in {latch, h} /\ (latch' # latch => latch = Free)
      BY <1>6 DEF Refused, StartFails
    <2> QED
      BY <1>5, <2>2, <2>3, <2>4
  <1>7. ASSUME NEW case \in CasesOf[h], Start(h, case) PROVE IInv'
    <2>1. PICK q : q = [Idle EXCEPT !.case = case, !.phase = "experiment"]
      OBVIOUS
    <2>2. case \in CaseIds
      BY <1>7, HarnessAssumption
    <2>3. /\ q \in RunRecord /\ q.phase = "experiment" /\ ~q.captured /\ q.at = 1 /\ q.case = case
          /\ q.failed = {} /\ ~q.cut
      BY <2>1, <2>2 DEF Idle, RunRecord, Phases
    <2>4. Where(q) /\ Saved(q)'
      <3>1. 1 \in 1..Len(Experiment(case)) /\ \A j : j \notin 1..1 - 1
        BY <2>2, RecipeAssumption
      <3> QED
        BY <2>2, <2>3, <3>1 DEF Where, Saved
    <2>5. run' = [run EXCEPT ![h] = q] /\ latch' = h /\ latch = Free
      BY <1>7, <2>1 DEF Start
    <2> QED
      BY <1>5, <2>3, <2>4, <2>5
  <1> QED
    BY <1>6, <1>7 DEF Begin

-----------------------------------------------------------------------------
(* The environment.                                                        *)

LEMMA AroundInv ==
  ASSUME IInv, UNCHANGED <<latch, run, journal>>, obj' \in Cluster, Calm,
         obj'["payments-api"].spec \in {obj["payments-api"].spec, "enabled", "scaled", "foreign"}
  PROVE  IInv'
  <1>1. TypeInv /\ LatchInv /\ HolderInv /\ DisturbInv /\ JournalInv /\ ScaleInv /\ SessionInv
    BY DEF IInv
  <1>2. obj'["sessions"].spec = "held" => obj["sessions"].spec = "held"
    BY DEF Calm
  <1>3. CASE latch = Free
    <2>1. TypeInv'
      BY <1>1 DEF TypeInv, Cluster
    <2>2. LatchInv' /\ HolderInv'
      BY <1>1, <1>3 DEF LatchInv, HolderInv
    <2>3. \A o \in Objects : ~Disturbed(o)' /\ ~Altered(o)'
      BY <1>1, <1>3 DEF DisturbInv, Calm, Disturbed
    <2>4. DisturbInv' /\ JournalInv'
      BY <2>3 DEF DisturbInv, JournalInv
    <2>5. ScaleInv'
      BY <1>1 DEF ScaleInv, Calm
    <2>6. SessionInv'
      <3>1. obj'["sessions"].spec \in {"absent", "held", "foreign"}
        BY <1>1 DEF SessionInv, Calm
      <3> QED
        BY <1>1, <1>2, <1>3, <3>1 DEF SessionInv
    <2> QED
      BY <2>1, <2>2, <2>4, <2>5, <2>6 DEF IInv
  <1>4. CASE latch # Free
    <2>1. PICK h, q : h = latch /\ q = run[latch]
      OBVIOUS
    <2>2. h \in Harnesses /\ q \in RunRecord /\ q.phase # "idle" /\ Where(q) /\ Saved(q) /\ run \in [Harnesses -> RunRecord]
      BY <1>1, <1>4, <2>1 DEF TypeInv, LatchInv, HolderInv
    <2>3. run' = [run EXCEPT ![h] = q] /\ latch' = latch /\ journal \subseteq journal'
      BY <2>1, <2>2
    <2>4. Saved(q)'
      <3> SUFFICES ASSUME q.phase = "experiment", NEW j \in 1..q.at - 1
                   PROVE  LET s == Experiment(q.case)[j] IN
                          /\ s.op = "journal" => s.specs \subseteq journal
                          /\ s.op = "capture" => q.captured
                          /\ "hpa" \in Touched(q.case) /\ "payments-api" \in Touches(s) =>
                               obj'["payments-api"].spec \in {"enabled", "scaled", "foreign"}
        BY DEF Saved
      <3>1. LET s == Experiment(q.case)[j] IN
            /\ s.op = "journal" => s.specs \subseteq journal
            /\ s.op = "capture" => q.captured
            /\ "hpa" \in Touched(q.case) /\ "payments-api" \in Touches(s) =>
                 obj["payments-api"].spec \in {"enabled", "scaled", "foreign"}
        BY <2>2 DEF Saved
      <3> QED
        BY <3>1
    <2>5. obj'["sessions"].spec = "held" => q.phase = "experiment" /\ HeldAt(Experiment(q.case), q.at)
      BY <1>1, <1>2, <2>1 DEF SessionInv
    <2>6. q = run[h] /\ latch = h
      BY <2>1
    <2> QED
      BY <2>2, <2>3, <2>4, <2>5, <2>6, CalmStep
  <1> QED
    BY <1>3, <1>4

\* One object changes, and none of it becomes a harness's doing.
LEMMA OneCalm ==
  ASSUME TypeInv, NEW o \in Objects, NEW x, x = obj'[o], obj' \in Cluster,
         \A u \in Objects \ {o} : obj'[u] = obj[u],
         x.spec \in {obj[o].spec, "foreign"},
         x.live \in {obj[o].live, x.spec} \/ x.spec = "foreign"
  PROVE  /\ Calm
         /\ obj'["payments-api"].spec \in {obj["payments-api"].spec, "enabled", "scaled", "foreign"}
  <1>1. \A u \in Objects : obj'[u].spec \in {obj[u].spec, "foreign"}
    OBVIOUS
  <1>2. \A u \in Objects : Altered(u)' => Altered(u) /\ obj'[u].spec = obj[u].spec
    BY <1>1 DEF Altered
  <1>3. \A u \in Objects : Disturbed(u)' => Disturbed(u)
    <2>1. Disturbed(o)' => Disturbed(o)
      <3>1. CASE x.spec = "foreign"
        BY <3>1, Homes DEF Disturbed, Altered
      <3>2. CASE x.spec # "foreign"
        BY <3>2 DEF Disturbed, Altered
      <3> QED
        BY <3>1, <3>2
    <2>2. \A u \in Objects \ {o} : Disturbed(u)' => Disturbed(u)
      BY DEF Disturbed, Altered
    <2> QED
      BY <2>1, <2>2
  <1>4. obj'["hpa"].spec = "cap2" => obj["hpa"].spec = "cap2"
    BY <1>1, Homes
  <1> QED
    BY <1>1, <1>2, <1>3, <1>4, Homes DEF Calm

LEMMA EnvironmentInv ==
  ASSUME IInv,
         \/ \E o \in Objects : Converge(o) \/ ForeignEdit(o)
         \/ \E s \in Services : ContainerRestarts(s)
  PROVE  IInv'
  <1>1. PICK o \in Objects : Converge(o) \/ ForeignEdit(o) \/ ContainerRestarts(o)
    BY Homes
  <1>2. UNCHANGED <<latch, run, journal>> /\ TypeInv
    BY <1>1 DEF Converge, ForeignEdit, ContainerRestarts, IInv
  <1>3. PICK x : x = obj'[o]
    OBVIOUS
  <1>4. /\ obj' \in Cluster
        /\ \A u \in Objects \ {o} : obj'[u] = obj[u]
        /\ x.spec \in {obj[o].spec, "foreign"}
        /\ x.live \in {obj[o].live, x.spec} \/ x.spec = "foreign"
    <2>1. CASE Converge(o)
      BY <1>2, <1>3, <2>1 DEF Converge, TypeInv, Cluster
    <2>2. CASE ForeignEdit(o)
      <3>1. "foreign" \in Variants
        BY DEF Variants
      <3> QED
        BY <1>2, <1>3, <2>2, <3>1 DEF ForeignEdit, TypeInv, Cluster, Becomes
    <2>3. CASE ContainerRestarts(o)
      BY <1>2, <1>3, <2>3 DEF ContainerRestarts, TypeInv, Cluster
    <2> QED
      BY <1>1, <2>1, <2>2, <2>3
  <1>5. /\ Calm
        /\ obj'["payments-api"].spec \in {obj["payments-api"].spec, "enabled", "scaled", "foreign"}
    BY <1>2, <1>3, <1>4, OneCalm
  <1> QED
    BY <1>2, <1>4, <1>5, AroundInv

\* The autoscaler moves between two saved variants of the workload.
LEMMA ScaleStepInv ==
  ASSUME IInv, Scale PROVE IInv'
  <1>1. TypeInv /\ UNCHANGED <<latch, run, journal>> /\ obj["hpa"].spec = "cap2"
    BY DEF IInv, Scale
  <1>2. PICK v : v = obj["payments-api"].spec
    OBVIOUS
  <1>3. /\ v \in {"enabled", "scaled"}
        /\ {"payments-api"} \X {"original", "enabled", "scaled"} \subseteq journal
    BY <1>1, <1>2 DEF IInv, ScaleInv, Scale
  <1>4. PICK w \in {"enabled", "scaled"} : obj' = Becomes("payments-api", w)
    BY <1>2, <1>3 DEF Scale, Rescaled
  <1>5. /\ obj'["payments-api"].spec = w /\ \A u \in Objects \ {"payments-api"} : obj'[u] = obj[u]
        /\ obj' \in Cluster
    BY <1>1, <1>4, Homes DEF Becomes, TypeInv, Cluster, Variants
  <1>6. Altered("payments-api") /\ Disturbed("payments-api") /\ <<"payments-api", w>> \in journal
    BY <1>2, <1>3, Homes DEF Altered, Disturbed
  <1>7. \A u \in Objects \ {"payments-api"} :
          (Altered(u)' <=> Altered(u)) /\ (Disturbed(u)' <=> Disturbed(u))
    BY <1>5 DEF Altered, Disturbed
  <1>8. Calm
    BY <1>1, <1>5, <1>6, <1>7, Homes DEF Calm
  <1> QED
    BY <1>1, <1>5, <1>8, AroundInv

-----------------------------------------------------------------------------
(* The invariant.                                                          *)

LEMMA InitInv ==
  Init => IInv
  <1> SUFFICES ASSUME Init PROVE IInv
    OBVIOUS
  <1>1. /\ latch = Free /\ journal = {} /\ \A h \in Harnesses : run[h] = Idle
        /\ \A o \in Objects : obj[o] = [spec |-> Home(o), live |-> Home(o), whole |-> TRUE]
    BY DEF Init
  <1>h. ASSUME NEW o \in Objects PROVE obj[o].spec = Home(o) /\ obj[o].live = Home(o)
    <2>1. obj[o] = [spec |-> Home(o), live |-> Home(o), whole |-> TRUE]
      BY <1>1
    <2> QED
      BY <2>1
  <1>2. Idle \in RunRecord /\ Idle.phase = "idle" /\ ~Idle.captured
    BY DEF Idle, RunRecord, Phases
  <1>3. TypeInv
    <2>1. \A o \in Objects : [spec |-> Home(o), live |-> Home(o), whole |-> TRUE]
                               \in [spec : Variants, live : Variants, whole : BOOLEAN]
      BY Homes
    <2> QED
      BY <1>1, <1>2, <2>1 DEF TypeInv, Init
  <1>4. \A o \in Objects : ~Disturbed(o) /\ ~Altered(o)
    BY <1>h DEF Disturbed, Altered
  <1>5. LatchInv
    BY <1>1, <1>2, HarnessAssumption DEF LatchInv, Working
  <1>6. HolderInv /\ DisturbInv /\ JournalInv
    BY <1>1, <1>4 DEF HolderInv, DisturbInv, JournalInv
  <1>7. ScaleInv /\ SessionInv
    <2>1. obj["hpa"].spec = "absent" /\ obj["sessions"].spec = "absent"
      BY <1>h, Homes
    <2> QED
      BY <2>1 DEF ScaleInv, SessionInv
  <1> QED
    BY <1>3, <1>5, <1>6, <1>7 DEF IInv

LEMMA NextInv ==
  IInv /\ [Next]_vars => IInv'
  <1> SUFFICES ASSUME IInv, [Next]_vars PROVE IInv'
    OBVIOUS
  <1>1. CASE UNCHANGED vars
    <2>1. obj' = obj /\ UNCHANGED <<latch, run, journal>>
      BY <1>1 DEF vars
    <2>2. Calm /\ obj' \in Cluster
      BY <2>1, SameCalm DEF IInv
    <2>3. obj'["payments-api"].spec = obj["payments-api"].spec
      BY <2>1
    <2> QED
      BY <2>1, <2>2, <2>3, AroundInv
  <1>2. ASSUME NEW h \in Harnesses, Work(h) PROVE IInv'
    BY <1>2, CaptureInv, JournalStepInv, WriteInv, UndoInv, CreateInv, RemoveInv, AwaitInv,
       InvestigateInv, ConfirmInv, CompareInv, TeeInv, RestartInv, RaiseInv, ReceiptInv,
       ReceiptFailsInv DEF Work
  <1>3. ASSUME NEW h \in Harnesses, Begin(h) \/ SaveFails(h) \/ Interrupt(h) \/ Die(h) PROVE IInv'
    BY <1>3, BeginInv, SaveFailsInv, InterruptInv, DieInv
  <1> QED
    BY <1>1, <1>2, <1>3, EnvironmentInv, ScaleStepInv DEF Next

\* The harness at the latch is inside its recipe, the latch's directory holds what its past
\* steps saved, and whatever its recovery has already passed without failing is still at
\* home: the invariant the other theorems rest on (_start, _replace_spec, _recover, _finish).
THEOREM Inductive == Spec => []IInv
  BY InitInv, NextInv, PTL DEF Spec

\* Whatever is altered, the evidence directory of the run named in the latch already holds
\* the original and the variant (save before replace_spec, in every harness).
THEOREM OriginalsSaved == Spec => []JournalBeforeWrite
  <1>1. IInv => JournalBeforeWrite
    <2> SUFFICES ASSUME IInv, NEW o \in Objects \ Made, Altered(o)
                 PROVE  latch # Free /\ {<<o, "original">>, <<o, obj[o].spec>>} \subseteq journal
      BY DEF JournalBeforeWrite
    <2>1. Disturbed(o)
      BY DEF Disturbed
    <2> QED
      BY <2>1 DEF IInv, DisturbInv, JournalInv
  <1> QED
    BY <1>1, Inductive, PTL

\* What a run that ended by itself leaves altered is what it failed to restore; only the HPA
\* harness holds one object back for the failure of another (_recover, cleanup).
THEOREM LeftoversExplained == Spec => []LeftoverExplained
  <1>1. IInv => LeftoverExplained
    <2> SUFFICES ASSUME IInv, NEW h \in Harnesses, NEW r, r = run[h], r.phase = "ended", latch = h,
                        r.captured, ~r.cut, NEW o \in Objects, Altered(o)
                 PROVE  \/ Restores(r.case, o) \cap r.failed # {}
                        \/ \E a \in Restores(r.case, o) : Needs(r.case, a) /\ r.failed # {}
      BY DEF LeftoverExplained
    <2>1. h # Free /\ Where(r) /\ SureInv(r)
      BY HarnessAssumption DEF IInv, HolderInv
    <2>2. r.case \in CaseIds /\ o \in Touched(r.case)
      BY <2>1 DEF IInv, DisturbInv, Disturbed, Where
    <2>3. o # "sessions"
      BY Homes DEF IInv, SessionInv, Altered
    <2> DEFINE R == Recovery(r.case)
    <2>4. PICK a \in DOMAIN R : \E i \in 1..Len(R[a]) : o \in PutBack(R[a][i])
      BY <2>2, <2>3, RecipeAssumption DEF PutsBack
    <2>5. PICK i \in 1..Len(R[a]) : o \in PutBack(R[a][i])
      BY <2>4
    <2>6. DOMAIN R[a] = 1..Len(R[a]) /\ Len(R[a]) \in Nat /\ Conditional(R[a])
      BY <2>2, RecipeAssumption
    <2>7. a \in Restores(r.case, o)
      <3>1. CASE R[a][i].op \in {"undo", "remove"}
        BY <2>5, <2>6, <3>1 DEF PutBack, Restores
      <3>2. CASE R[a][i].op = "tee"
        <4>1. o = "kubelet"
          BY <2>5, <3>2 DEF PutBack
        <4>2. i > 1 /\ R[a][i - 1].op = "compare"
          BY <2>6, <3>2 DEF Conditional
        <4>3. i - 1 \in DOMAIN R[a]
          BY <2>6, <4>2
        <4> QED
          BY <4>1, <4>2, <4>3 DEF Restores
      <3> QED
        BY <2>5, <3>1, <3>2 DEF PutBack
    <2>8. ~Sure(r, a, i)
      BY <2>1, <2>5 DEF SureInv, StaysHome
    <2>9. a \in r.failed \/ (Needs(r.case, a) /\ r.failed # {})
      BY <2>8 DEF Sure
    <2> QED
      BY <2>7, <2>9
  <1> QED
    BY <1>1, Inductive, PTL

-----------------------------------------------------------------------------
(* Foreign edits.                                                          *)

LEMMA ForeignStep ==
  ASSUME IInv, Next, NEW o \in Objects \ {"kubelet"}, obj[o].spec = "foreign"
  PROVE  obj'[o].spec = "foreign"
  <1>0. /\ obj \in [Objects -> [spec : Variants, live : Variants, whole : BOOLEAN]]
        /\ \A u, v, w : obj' = [obj EXCEPT ![u].spec = v] => (obj'[o].spec = "foreign" \/ o = u)
    <2>1. obj \in [Objects -> [spec : Variants, live : Variants, whole : BOOLEAN]]
      BY DEF IInv, TypeInv
    <2> QED
      BY <2>1
  <1>1. ASSUME NEW h \in Harnesses, Work(h) PROVE obj'[o].spec = "foreign"
    <2>1. CASE CaptureStep(h) \/ JournalStep(h) \/ AwaitStep(h) \/ InvestigateStep(h)
               \/ ConfirmStep(h) \/ CompareStep(h) \/ Receipt(h) \/ ReceiptFails(h)
      BY <2>1 DEF CaptureStep, JournalStep, AwaitStep, InvestigateStep, ConfirmStep, CompareStep,
                  Receipt, ReceiptFails
    <2>2. CASE RestartStep(h) \/ TeeStep(h)
      BY <1>0, <2>2 DEF RestartStep, TeeStep, Becomes
    <2>3. CASE Raise(h)
      BY <1>0, <2>3 DEF Raise, Closed
    <2>4. CASE WriteStep(h) \/ CreateStep(h) \/ UndoStep(h) \/ RemoveStep(h)
      <3>1. PICK r, s : r = run[h] /\ s = Step(h)
        OBVIOUS
      <3>2. Active(h) /\ s.op \in {"write", "create", "undo", "remove"}
        BY <2>4, <3>1 DEF WriteStep, CreateStep, UndoStep, RemoveStep, At, Step
      <3>3. /\ s.op = "write" => "foreign" \notin s.from
            /\ s.op \in {"undo", "remove"} => "foreign" \notin s.known
        BY <3>1, <3>2, AtFacts
      <3>4. \/ obj' = obj
            \/ \E v : obj' = [obj EXCEPT ![s.o].spec = v] /\ obj[s.o].spec # "foreign"
        BY <2>4, <3>1, <3>3 DEF WriteStep, CreateStep, UndoStep, RemoveStep, At, Step, Becomes
      <3> QED
        BY <1>0, <3>4
    <2> QED
      BY <1>1, <2>1, <2>2, <2>3, <2>4 DEF Work
  <1>2. ASSUME NEW h \in Harnesses, Begin(h) \/ SaveFails(h) \/ Interrupt(h) PROVE obj'[o].spec = "foreign"
    BY <1>2 DEF Begin, Refused, StartFails, Start, SaveFails, Interrupt
  <1>3. ASSUME NEW h \in Harnesses, Die(h) PROVE obj'[o].spec = "foreign"
    BY <1>0, <1>3 DEF Die
  <1>4. ASSUME NEW u \in Objects, Converge(u) \/ ForeignEdit(u) \/ ContainerRestarts(u)
        PROVE  obj'[o].spec = "foreign"
    BY <1>0, <1>4 DEF Converge, ForeignEdit, ContainerRestarts, Becomes
  <1>5. CASE Scale
    BY <1>0, <1>5 DEF Scale, Becomes
  <1> QED
    BY <1>1, <1>2, <1>3, <1>4, <1>5, Homes DEF Next

\* No step of a harness, an autoscaler or a death changes what another operator has made of
\* an object (the tests of uid, version and specification in replace_spec and restore).
THEOREM ForeignEditsKept == Spec => ForeignKept
  <1>1. IInv /\ [Next]_vars =>
          [\A o \in Objects \ {"kubelet"} : obj[o].spec = "foreign" => obj'[o].spec = "foreign"]_vars
    BY ForeignStep
  <1> QED
    BY <1>1, Inductive, PTL DEF Spec, ForeignKept

-----------------------------------------------------------------------------
(* The latch.                                                              *)

AtWork == {h \in Harnesses : run[h].phase \in Working}
Upset == {o \in Objects : Disturbed(o)}

\* Where the abstract latch sees nothing but a change of objects.
LEMMA OnlyObjects ==
  ASSUME latch' = latch, AtWork' = AtWork, latch # Free \/ Upset' \subseteq Upset
  PROVE  Latch!Next
  <1>1. Latch!Alter
    BY DEF Latch!Alter, AtWork, Upset, Working
  <1> QED
    BY <1>1 DEF Latch!Next

LEMMA StaysAtWork ==
  ASSUME NEW r \in RunRecord, r.phase \in {"experiment", "recover"}, NEW n \in {1, 3}
  PROVE  Moved(r, n).phase \in Working /\ Raised(r).phase \in Working
  <1>1. ASSUME NEW p \in RunRecord, p.phase = r.phase PROVE NextAttempt(p).phase \in Working
    BY <1>1 DEF NextAttempt, RunRecord, Working
  <1>2. Recovering(r).phase \in Working
    BY DEF Recovering, RunRecord, Working
  <1>3. [r EXCEPT !.at = @ + n].phase \in Working
    BY DEF RunRecord, Working
  <1>4. Moved(r, n).phase \in Working
    BY <1>1, <1>2, <1>3 DEF Moved
  <1>5. Raised(r).phase \in Working
    <2>1. PICK p : p = [r EXCEPT !.failed = @ \cup {r.attempt}]
      OBVIOUS
    <2>2. p \in RunRecord /\ p.phase = r.phase
      <3>1. r.failed \cup {r.attempt} \in SUBSET Nat
        BY DEF RunRecord
      <3> QED
        BY <2>1, <3>1 DEF RunRecord
    <2> QED
      BY <1>1, <1>2, <2>1, <2>2 DEF Raised
  <1> QED
    BY <1>4, <1>5

\* A step of the run that holds the latch, to another position of its recipe.
LEMMA WorkingStep ==
  ASSUME IInv, NEW h \in Harnesses, run[h].phase \in Working, latch' = latch,
         NEW q, q.phase \in Working, run' = [run EXCEPT ![h] = q]
  PROVE  Latch!Next
  <1>1. latch = h /\ h # Free /\ run \in [Harnesses -> RunRecord]
    BY HolderFacts DEF IInv, TypeInv
  <1>2. AtWork' = AtWork
    BY <1>1 DEF AtWork
  <1> QED
    BY <1>1, <1>2, OnlyObjects

\* Its last step, which leaves the latch behind.
LEMMA StoppingStep ==
  ASSUME IInv, NEW h \in Harnesses, run[h].phase \in Working, latch' = latch, Calm,
         NEW q, q.phase = "ended", run' = [run EXCEPT ![h] = q]
  PROVE  Latch!Next
  <1>1. latch = h /\ h # Free /\ run \in [Harnesses -> RunRecord] /\ LatchInv
    BY HolderFacts DEF IInv, TypeInv
  <1>2. AtWork = {h} /\ AtWork' = {}
    BY <1>1 DEF AtWork, LatchInv, Working
  <1>3. Upset' \subseteq Upset
    BY DEF Upset, Calm
  <1>4. Latch!Stop(h)
    BY <1>2, <1>3 DEF Latch!Stop, AtWork, Upset, Working
  <1> QED
    BY <1>4 DEF Latch!Next

LEMMA LatchWork ==
  ASSUME IInv, NEW h \in Harnesses, Work(h) PROVE Latch!Next
  <1>1. PICK r : r = run[h]
    OBVIOUS
  <1>2. TypeInv /\ r \in RunRecord
    BY <1>1 DEF IInv, TypeInv
  <1>3. CASE Active(h) /\ latch' = latch /\ \E n \in {1, 3} : run' \in
                {[run EXCEPT ![h] = Moved(r, n)], [run EXCEPT ![h] = Raised(r)]}
    <2>1. r.phase \in {"experiment", "recover"} /\ run[h].phase \in Working
      BY <1>1, <1>3 DEF Active, Working
    <2>2. PICK q : q.phase \in Working /\ run' = [run EXCEPT ![h] = q]
      BY <1>2, <1>3, <2>1, StaysAtWork
    <2> QED
      BY <1>3, <2>1, <2>2, WorkingStep
  <1>4. CASE CaptureStep(h)
    <2>1. PICK p : p = [r EXCEPT !.captured = TRUE]
      OBVIOUS
    <2>2. Active(h) /\ latch' = latch /\ run' = [run EXCEPT ![h] = Moved(p, 1)]
      BY <1>1, <1>4, <2>1 DEF CaptureStep, At
    <2>3. p \in RunRecord /\ p.phase \in {"experiment", "recover"} /\ run[h].phase \in Working
      BY <1>1, <1>2, <2>1, <2>2 DEF RunRecord, Active, Working
    <2>4. PICK q : q.phase \in Working /\ run' = [run EXCEPT ![h] = q]
      BY <2>2, <2>3, StaysAtWork
    <2> QED
      BY <2>2, <2>3, <2>4, WorkingStep
  <1>5. CASE JournalStep(h) \/ WriteStep(h) \/ UndoStep(h) \/ CreateStep(h) \/ RemoveStep(h)
             \/ AwaitStep(h) \/ InvestigateStep(h) \/ ConfirmStep(h) \/ CompareStep(h)
             \/ TeeStep(h) \/ RestartStep(h) \/ Raise(h)
    <2>1. Active(h) /\ latch' = latch
      BY <1>5 DEF JournalStep, WriteStep, UndoStep, CreateStep, RemoveStep, AwaitStep, InvestigateStep,
                  ConfirmStep, CompareStep, TeeStep, RestartStep, Raise, At
    <2>2. \/ Continue(h) \/ Answered(h) \/ run' = [run EXCEPT ![h] = Moved(r, 3)]
          \/ run' = [run EXCEPT ![h] = Raised(r)]
      BY <1>1, <1>5 DEF JournalStep, WriteStep, UndoStep, CreateStep, RemoveStep, AwaitStep,
                        InvestigateStep, ConfirmStep, CompareStep, TeeStep, RestartStep, Raise
    <2>3. \E n \in {1, 3} : run' \in {[run EXCEPT ![h] = Moved(r, n)], [run EXCEPT ![h] = Raised(r)]}
      BY <1>1, <2>2 DEF Continue, Answered
    <2> QED
      BY <1>3, <2>1, <2>3
  <1>6. CASE Receipt(h) \/ ReceiptFails(h)
    <2>1. r.phase = "receipt" /\ run[h].phase \in Working /\ obj' = obj
      BY <1>1, <1>6 DEF Receipt, ReceiptFails, Working
    <2>2. Calm
      BY <1>2, <2>1, SameCalm
    <2>3. CASE Receipt(h) /\ r.failed = {} /\ ~r.cut
      <3>1. latch' = Free /\ run' = [run EXCEPT ![h] = [Idle EXCEPT !.phase = "ended"]]
        BY <1>1, <2>3 DEF Receipt
      <3>2. PICK q : q = [Idle EXCEPT !.phase = "ended"]
        OBVIOUS
      <3>3. q.phase = "ended" /\ run' = [run EXCEPT ![h] = q] /\ run \in [Harnesses -> RunRecord]
        BY <1>2, <3>1, <3>2 DEF Idle, TypeInv
      <3>4. latch = h /\ LatchInv
        BY <2>1, HolderFacts DEF IInv
      <3>5. AtWork = {h} /\ AtWork' = {}
        BY <2>1, <3>3, <3>4 DEF AtWork, LatchInv, Working
      <3>6. Upset = {} /\ Upset' = {}
        <4>1. Upset = {}
          BY <1>1, <2>1, <2>3, ReceiptHome DEF Upset
        <4> QED
          BY <2>2, <4>1 DEF Upset, Calm
      <3>7. Latch!Release(h)
        BY <3>1, <3>4, <3>5, <3>6 DEF Latch!Release, AtWork, Upset, Working
      <3> QED
        BY <3>7 DEF Latch!Next
    <2>4. CASE ReceiptFails(h) \/ ~(r.failed = {} /\ ~r.cut)
      <3>1. latch' = latch /\ run' = [run EXCEPT ![h].phase = "ended"]
        BY <1>1, <1>6, <2>4 DEF Receipt, ReceiptFails
      <3>2. PICK q : q = [r EXCEPT !.phase = "ended"]
        OBVIOUS
      <3>3. q.phase = "ended" /\ run' = [run EXCEPT ![h] = q]
        BY <1>1, <1>2, <3>1, <3>2 DEF RunRecord, TypeInv
      <3> QED
        BY <2>1, <2>2, <3>1, <3>3, StoppingStep
    <2> QED
      BY <1>6, <2>3, <2>4
  <1> QED
    BY <1>4, <1>5, <1>6 DEF Work

LEMMA LatchBegin ==
  ASSUME IInv, NEW h \in Harnesses, Begin(h) PROVE Latch!Next
  <1>1. TypeInv /\ LatchInv /\ run \in [Harnesses -> RunRecord] /\ h # Free /\ run[h].phase = "idle" /\ obj' = obj
    BY HarnessAssumption DEF IInv, TypeInv, Begin, Refused, StartFails, Start
  <1>2. Upset' = Upset
    BY <1>1 DEF Upset, Disturbed, Altered
  <1>3. latch = Free => AtWork = {}
    BY <1>1, HarnessAssumption DEF AtWork, LatchInv
  <1>4. CASE Refused(h)
    <2>1. latch' = latch /\ AtWork' = AtWork
      BY <1>1, <1>4 DEF Refused, AtWork, Working, RunRecord
    <2> QED
      BY <1>2, <2>1, OnlyObjects
  <1>5. ASSUME NEW q \in RunRecord, q.phase \in {"experiment", "ended"}, run' = [run EXCEPT ![h] = q],
               latch = Free, latch' = h
        PROVE  Latch!Next
    <2>1. AtWork = {} /\ AtWork' \in {{h}, {}}
      <3>1. AtWork = {}
        BY <1>3, <1>5
      <3>2. \A g \in Harnesses \ {h} : run'[g].phase \notin Working
        BY <1>1, <1>5, <3>1 DEF AtWork
      <3>3. AtWork' \subseteq {h}
        BY <3>2 DEF AtWork
      <3> QED
        BY <3>1, <3>3
    <2>2. Latch!Take(h)
      BY <1>2, <1>5, <2>1 DEF Latch!Take, AtWork, Upset, Working
    <2> QED
      BY <2>2 DEF Latch!Next
  <1>6. CASE StartFails(h)
    <2>1. PICK q : q = [run[h] EXCEPT !.phase = "ended"]
      OBVIOUS
    <2>2. q \in RunRecord /\ q.phase = "ended" /\ run' = [run EXCEPT ![h] = q] /\ latch = Free /\ latch' = h
      BY <1>1, <1>6, <2>1 DEF StartFails, RunRecord, Phases
    <2>3. q.phase \in {"experiment", "ended"}
      BY <2>2
    <2> QED
      BY <1>5, <2>2, <2>3
  <1>7. ASSUME NEW case \in CasesOf[h], Start(h, case) PROVE Latch!Next
    <2>1. PICK q : q = [Idle EXCEPT !.case = case, !.phase = "experiment"]
      OBVIOUS
    <2>2. q \in RunRecord /\ q.phase = "experiment" /\ run' = [run EXCEPT ![h] = q] /\ latch = Free /\ latch' = h
      BY <1>7, <2>1, HarnessAssumption DEF Start, Idle, RunRecord, Phases
    <2>3. q.phase \in {"experiment", "ended"}
      BY <2>2
    <2> QED
      BY <1>5, <2>2, <2>3
  <1> QED
    BY <1>4, <1>6, <1>7 DEF Begin

LEMMA LatchTrouble ==
  ASSUME IInv, NEW h \in Harnesses, SaveFails(h) \/ Interrupt(h) \/ Die(h) PROVE Latch!Next
  <1>1. PICK r : r = run[h]
    OBVIOUS
  <1>2. TypeInv /\ r \in RunRecord /\ latch' = latch /\ run[h].phase \in Working
    BY <1>1 DEF IInv, TypeInv, SaveFails, Interrupt, Die, Working
  <1>3. CASE SaveFails(h)
    <2>1. PICK q : q = [r EXCEPT !.failed = @ \cup {r.attempt}]
      OBVIOUS
    <2>2. run' = [run EXCEPT ![h] = q] /\ q.phase \in Working
      BY <1>1, <1>2, <1>3, <2>1 DEF SaveFails, RunRecord, TypeInv
    <2> QED
      BY <1>2, <2>2, WorkingStep
  <1>4. CASE Interrupt(h)
    <2>1. r.phase = "recover" /\ obj' = obj
      BY <1>1, <1>4 DEF Interrupt
    <2>2. \E q \in {Raised(r), [r EXCEPT !.phase = "receipt", !.cut = TRUE],
                    [r EXCEPT !.phase = "ended", !.cut = TRUE]} : run' = [run EXCEPT ![h] = q]
      BY <1>1, <1>4 DEF Interrupt
    <2>3. \E q : q.phase \in Working \cup {"ended"} /\ run' = [run EXCEPT ![h] = q]
      <3>1. Raised(r).phase \in Working
        BY <1>2, <2>1, StaysAtWork
      <3>2. /\ [r EXCEPT !.phase = "receipt", !.cut = TRUE].phase = "receipt"
            /\ [r EXCEPT !.phase = "ended", !.cut = TRUE].phase = "ended"
        BY <1>2 DEF RunRecord
      <3> QED
        BY <2>2, <3>1, <3>2 DEF Working
    <2>4. Calm
      BY <1>2, <2>1, SameCalm
    <2> QED
      BY <1>2, <2>3, <2>4, WorkingStep, StoppingStep
  <1>5. CASE Die(h)
    <2>1. PICK q : q = [r EXCEPT !.phase = "ended", !.cut = TRUE]
      OBVIOUS
    <2>2. run' = [run EXCEPT ![h] = q] /\ q.phase = "ended"
      BY <1>1, <1>2, <1>5, <2>1 DEF Die, RunRecord, TypeInv
    <2>3. Calm
      BY <1>2, <1>5, CloseCalm DEF Die
    <2> QED
      BY <1>2, <2>2, <2>3, StoppingStep
  <1> QED
    BY <1>3, <1>4, <1>5

LEMMA LatchAround ==
  ASSUME IInv, \/ \E o \in Objects : Converge(o) \/ ForeignEdit(o)
               \/ \E s \in Services : ContainerRestarts(s)
               \/ Scale
  PROVE  Latch!Next
  <1>1. latch' = latch /\ run' = run /\ IInv'
    BY EnvironmentInv, ScaleStepInv DEF Converge, ForeignEdit, ContainerRestarts, Scale
  <1>2. AtWork' = AtWork
    BY <1>1 DEF AtWork
  <1>3. latch # Free \/ Upset' \subseteq Upset
    BY <1>1 DEF Upset, IInv, DisturbInv
  <1> QED
    BY <1>1, <1>2, <1>3, OnlyObjects

\* The harnesses implement the latch: one run works at a time, the cluster is disturbed only
\* under the latch, and the latch is released only when every object nobody else took over
\* has its captured specification and runs it (_start, _finish, _recover, cleanup).
THEOREM LatchImplemented == Spec => LatchProtocol
  <1>1. Init => Latch!Init
    <2> SUFFICES ASSUME Init PROVE Latch!Init
      OBVIOUS
    <2>1. latch = Free /\ IInv
      BY InitInv DEF Init
    <2>2. \A h \in Harnesses : run[h].phase \notin Working
      BY <2>1, HarnessAssumption DEF IInv, LatchInv
    <2>3. \A o \in Objects : ~Disturbed(o)
      BY <2>1 DEF IInv, DisturbInv
    <2> QED
      BY <2>1, <2>2, <2>3 DEF Latch!Init, Working
  <1>2. IInv /\ [Next]_vars => [Latch!Next]_Latch!vars
    <2> SUFFICES ASSUME IInv, [Next]_vars PROVE Latch!Next
      OBVIOUS
    <2>1. CASE UNCHANGED vars
      <3>1. latch' = latch /\ AtWork' = AtWork /\ Upset' = Upset
        BY <2>1 DEF vars, AtWork, Upset, Disturbed, Altered
      <3> QED
        BY <3>1, OnlyObjects
    <2> QED
      BY <2>1, LatchWork, LatchBegin, LatchTrouble, LatchAround DEF Next
  <1> QED
    BY <1>1, <1>2, Inductive, PTL DEF Spec, LatchProtocol, Latch!Spec

\* Every run is inside its recipe, every object in a variant the harnesses know.
THEOREM TypeCorrect == Spec => []TypeOK
  <1>1. IInv => TypeOK
    <2> SUFFICES ASSUME IInv PROVE TypeOK
      OBVIOUS
    <2>1. TypeInv
      BY DEF IInv
    <2>2. ASSUME NEW h \in Harnesses, Active(h) PROVE run[h].at \in 1..Len(Program(run[h]))
      BY <2>2, HolderFacts DEF Active, Working, Where, Program
    <2> QED
      BY <2>1, <2>2 DEF TypeOK, TypeInv, RunRecord, Phases
  <1> QED
    BY <1>1, Inductive, PTL

=============================================================================
