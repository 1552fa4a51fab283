--------------------------- MODULE ScenarioHarness ---------------------------
(***************************************************************************)
(* Scenario harnesses (src/payops/scenarios): operator processes that take *)
(* the latch file, disturb a cluster along a recipe, and put everything    *)
(* back, whatever fails on the way.  Around them: controllers that converge *)
(* or rescale, other operators who edit objects, containers that restart,  *)
(* API writes whose answer is lost, full disks, interrupts and deaths.     *)
(***************************************************************************)
EXTENDS ScenarioRecipes, FiniteSets

CONSTANTS Harnesses,    \* operator processes, each running at most one case
          CasesOf,      \* [Harnesses -> SUBSET CaseIds]
          Free,         \* no latch file
          MaxTrouble    \* bound on foreign edits, container restarts and deaths together

ASSUME HarnessAssumption ==
  /\ CasesOf \in [Harnesses -> SUBSET CaseIds]
  /\ Free \notin Harnesses
  /\ MaxTrouble \in Nat

VARIABLES latch,     \* Free or the harness named in the latch file
          obj,       \* per object: specification, what runs of it, container unrestarted
          run,       \* per harness: its position and what it knows
          journal,   \* <<object, variant>> saved in the evidence directory the latch names
          trouble    \* how often the environment struck

vars == <<latch, obj, run, journal, trouble>>

Idle == [case |-> "none", phase |-> "idle", attempt |-> 1, at |-> 1, captured |-> FALSE,
         failed |-> {}, cut |-> FALSE]

Init == /\ latch = Free
        /\ obj = [o \in Objects |-> [spec |-> Home(o), live |-> Home(o), whole |-> TRUE]]
        /\ run = [h \in Harnesses |-> Idle]
        /\ journal = {}
        /\ trouble = 0

-----------------------------------------------------------------------------
(* Where a run is and where it goes next.                                  *)

Program(r) == IF r.phase = "experiment" THEN Experiment(r.case) ELSE Recovery(r.case)[r.attempt]

Active(h) == run[h].phase \in {"experiment", "recover"}

\* The step h is at, if it performs `op`.
At(h, op) == Active(h) /\ Program(run[h])[run[h].at].op = op
Step(h) == Program(run[h])[run[h].at]

\* cleanup() of the HPA harness restores the workload only after both removals.
Needs(case, attempt) == case = "SCHED-03" /\ attempt = 3

Recovering(r) == IF r.captured THEN [r EXCEPT !.phase = "recover", !.attempt = 1, !.at = 1]
                               ELSE [r EXCEPT !.phase = "receipt"]

\* Mutant: the first failed attempt ends the recovery.
NextAttemptStopping(r) ==
  IF r.attempt < Len(Recovery(r.case)) /\ r.failed = {}
  THEN [r EXCEPT !.attempt = @ + 1, !.at = 1]
  ELSE [r EXCEPT !.phase = "receipt"]

NextAttempt(r) ==
  IF r.attempt < Len(Recovery(r.case)) /\ ~(Needs(r.case, r.attempt + 1) /\ r.failed # {})
  THEN [r EXCEPT !.attempt = @ + 1, !.at = 1]
  ELSE [r EXCEPT !.phase = "receipt"]

Moved(r, n) ==
  IF r.at + n <= Len(Program(r)) THEN [r EXCEPT !.at = @ + n]
  ELSE IF r.phase = "experiment" THEN Recovering(r) ELSE NextAttempt(r)

\* An exception ends the experiment, or the attempt of the recovery it is in.
Raised(r) == IF r.phase = "experiment" THEN Recovering(r)
             ELSE NextAttempt([r EXCEPT !.failed = @ \cup {r.attempt}])

\* Leaving the pressure block, by any way out, closes the sessions it holds.
Closed(r, next) ==
  IF r.phase = "experiment" /\ next.phase # "experiment"
  THEN [obj EXCEPT !["sessions"].spec = IF @ = "held" THEN "absent" ELSE @] ELSE obj

Continue(h) == run' = [run EXCEPT ![h] = Moved(@, 1)]

\* A conditional write that reached the server: the client gets the answer or an error.
Answered(h) == run' \in {[run EXCEPT ![h] = Moved(@, 1)], [run EXCEPT ![h] = Raised(@)]}

Becomes(o, spec) == [obj EXCEPT ![o].spec = spec]

-----------------------------------------------------------------------------
(* Start and end of a run.                                                 *)

Start(h, case) ==
  /\ run[h].phase = "idle" /\ latch = Free
  /\ latch' = h
  /\ run' = [run EXCEPT ![h] = [Idle EXCEPT !.case = case, !.phase = "experiment"]]
  /\ UNCHANGED <<obj, journal, trouble>>

\* The latch file exists: another run works or left it behind.
Refused(h) ==
  /\ run[h].phase = "idle" /\ latch # Free
  /\ run' = [run EXCEPT ![h].phase = "ended"]
  /\ UNCHANGED <<latch, obj, journal, trouble>>

\* The latch is written before the run's directory, which may fail.
StartFails(h) ==
  /\ run[h].phase = "idle" /\ latch = Free
  /\ latch' = h
  /\ run' = [run EXCEPT ![h].phase = "ended"]
  /\ UNCHANGED <<obj, journal, trouble>>

\* Mutant: a saved receipt releases the latch whatever the recovery reported.
ReceiptReleasing(h) ==
  /\ run[h].phase = "receipt"
  /\ latch' = Free /\ journal' = {}
  /\ run' = [run EXCEPT ![h] = [Idle EXCEPT !.phase = "ended"]]
  /\ UNCHANGED <<obj, trouble>>

\* The final receipt is saved; the latch goes only if nothing failed.
Receipt(h) ==
  /\ run[h].phase = "receipt"
  /\ IF run[h].failed = {} /\ ~run[h].cut
     THEN /\ latch' = Free /\ journal' = {}
          /\ run' = [run EXCEPT ![h] = [Idle EXCEPT !.phase = "ended"]]
     ELSE run' = [run EXCEPT ![h].phase = "ended"] /\ UNCHANGED <<latch, journal>>
  /\ UNCHANGED <<obj, trouble>>

ReceiptFails(h) ==
  /\ run[h].phase = "receipt"
  /\ run' = [run EXCEPT ![h].phase = "ended"]
  /\ UNCHANGED <<latch, obj, journal, trouble>>

-----------------------------------------------------------------------------
(* The steps of a recipe.                                                  *)

CaptureStep(h) ==
  /\ At(h, "capture")
  /\ \A o \in Step(h).on : obj[o].spec = Home(o) /\ obj[o].live = Home(o)
  /\ run' = [run EXCEPT ![h] = Moved([@ EXCEPT !.captured = TRUE], 1)]
  /\ UNCHANGED <<latch, obj, journal, trouble>>

\* Mutant: what is journalled is only the original.
JournalStepPartial(h) ==
  /\ At(h, "journal")
  /\ journal' = journal \cup {p \in Step(h).specs : p[2] = "original"}
  /\ Continue(h)
  /\ UNCHANGED <<latch, obj, trouble>>

JournalStep(h) ==
  /\ At(h, "journal")
  /\ journal' = journal \cup Step(h).specs
  /\ Continue(h)
  /\ UNCHANGED <<latch, obj, trouble>>

\* replace_spec reads again and patches under tests of uid, version and spec.
WriteStep(h) ==
  /\ At(h, "write")
  /\ obj[Step(h).o].spec \in Step(h).from
  /\ obj' = Becomes(Step(h).o, Step(h).to)
  /\ Answered(h)
  /\ UNCHANGED <<latch, journal, trouble>>

\* Mutant: whatever is there is replaced by the original.
UndoStepBlind(h) ==
  /\ At(h, "undo")
  /\ obj' = Becomes(Step(h).o, Home(Step(h).o))
  /\ Answered(h)
  /\ UNCHANGED <<latch, journal, trouble>>

UndoStep(h) ==
  /\ At(h, "undo")
  /\ \/ obj[Step(h).o].spec = Home(Step(h).o) /\ Continue(h) /\ UNCHANGED obj
     \/ /\ obj[Step(h).o].spec \in Step(h).known
        /\ obj' = Becomes(Step(h).o, Home(Step(h).o))
        /\ Answered(h)
  /\ UNCHANGED <<latch, journal, trouble>>

\* A session that could not be opened closes the others on the way out.
CreateStep(h) ==
  /\ At(h, "create")
  /\ obj[Step(h).o].spec = "absent" /\ obj[Step(h).o].live = "absent"
  /\ obj' = Becomes(Step(h).o, Step(h).to)
  /\ IF Step(h).o = "sessions" THEN Continue(h) ELSE Answered(h)
  /\ UNCHANGED <<latch, journal, trouble>>

RemoveStep(h) ==
  /\ At(h, "remove")
  /\ \/ obj[Step(h).o].spec = "absent" /\ Continue(h) /\ UNCHANGED obj
     \/ /\ obj[Step(h).o].spec \in Step(h).known
        /\ obj' = Becomes(Step(h).o, "absent")
        /\ Answered(h)
  /\ UNCHANGED <<latch, journal, trouble>>

Runs(o, spec) == obj[o].spec = spec /\ obj[o].live = spec

Settled(want, strict) ==
  /\ \A p \in want : Runs(p[1], p[2])
  /\ strict => \A s \in Services :
                 obj[s].whole /\ (Runs(s, "original") \/ \E p \in want : p[1] = s)

AwaitStep(h) ==
  /\ At(h, "await")
  /\ Settled(Step(h).want, Step(h).strict)
  /\ Continue(h)
  /\ UNCHANGED <<latch, obj, journal, trouble>>

InvestigateStep(h) ==
  /\ At(h, "investigate")
  /\ Continue(h)
  /\ UNCHANGED <<latch, obj, journal, trouble>>

ConfirmStep(h) ==
  /\ At(h, "confirm")
  /\ \A o \in Step(h).on : obj[o].spec = Home(o)
  /\ Continue(h)
  /\ UNCHANGED <<latch, obj, journal, trouble>>

\* The kubelet's file is compared, then written, then the kubelet is restarted.
CompareStep(h) ==
  /\ At(h, "compare")
  /\ \/ obj["kubelet"].spec \in Step(h).unless /\ run' = [run EXCEPT ![h] = Moved(@, 3)]
     \/ obj["kubelet"].spec \in Step(h).from /\ Continue(h)
  /\ UNCHANGED <<latch, obj, journal, trouble>>

TeeStep(h) ==
  /\ At(h, "tee")
  /\ obj' = Becomes("kubelet", Step(h).to)
  /\ Answered(h)
  /\ UNCHANGED <<latch, journal, trouble>>

RestartStep(h) ==
  /\ At(h, "restart")
  /\ obj' = [obj EXCEPT !["kubelet"].live = obj["kubelet"].spec]
  /\ Answered(h)
  /\ UNCHANGED <<latch, journal, trouble>>

\* Mutant: a wait has no deadline.
RaiseExceptWaiting(h) ==
  /\ Active(h) /\ ~At(h, "await")
  /\ LET next == Raised(run[h])
     IN  run' = [run EXCEPT ![h] = next] /\ obj' = Closed(run[h], next)
  /\ UNCHANGED <<latch, journal, trouble>>

\* Any call a step makes may fail before it has an effect: a read, a refused
\* write, an expired wait, a rejected observation, the collector, a full disk.
Raise(h) ==
  /\ Active(h)
  /\ LET next == Raised(run[h])
     IN  run' = [run EXCEPT ![h] = next] /\ obj' = Closed(run[h], next)
  /\ UNCHANGED <<latch, journal, trouble>>

\* In these recoveries a failed audit write is noted and the restoration goes on.
SaveFails(h) ==
  /\ run[h].phase = "recover"
  /\ run[h].case \in {"SCHED-01", "TELEM-01", "TELEM-03", "ROLLOUT-04"}
  /\ run' = [run EXCEPT ![h].failed = @ \cup {run[h].attempt}]
  /\ UNCHANGED <<latch, obj, journal, trouble>>

\* An interrupt in the recovery: noted like a failure, caught around all attempts,
\* or not caught at all.
Interrupt(h) ==
  /\ run[h].phase = "recover"
  /\ run' = [run EXCEPT ![h] =
       CASE @.case \in {"SCHED-01", "TELEM-03", "ROLLOUT-04", "OOM-02", "OOM-03", "OOM-04"} -> Raised(@)
         [] @.case \in {"TELEM-01", "DEP-03", "DEP-04", "SCHED-04"} ->
              [@ EXCEPT !.phase = "receipt", !.cut = TRUE]
         [] OTHER -> [@ EXCEPT !.phase = "ended", !.cut = TRUE]]
  /\ UNCHANGED <<latch, obj, journal, trouble>>

-----------------------------------------------------------------------------
(* The environment.                                                      *)

\* Controllers make what runs follow the specification.
Converge(o) ==
  /\ o # "kubelet" /\ obj[o].live # obj[o].spec
  /\ obj' = [obj EXCEPT ![o] = [spec |-> @.spec, live |-> @.spec, whole |-> TRUE]]
  /\ UNCHANGED <<latch, run, journal, trouble>>

\* The autoscaler changes the replicas of whatever the workload is.
Rescaled(spec) == CASE spec = "enabled" -> "scaled"
                    [] spec = "scaled" -> "enabled"
                    [] spec = "original" -> "rescaled"
                    [] OTHER -> spec

Scale ==
  /\ obj["hpa"].spec = "cap2"
  /\ obj["payments-api"].spec \in {"enabled", "scaled", "original"}
  /\ obj' = Becomes("payments-api", Rescaled(obj["payments-api"].spec))
  /\ UNCHANGED <<latch, run, journal, trouble>>

ContainerRestarts(s) ==
  /\ trouble < MaxTrouble /\ obj[s].whole
  /\ obj' = [obj EXCEPT ![s].whole = FALSE]
  /\ trouble' = trouble + 1
  /\ UNCHANGED <<latch, run, journal>>

\* Another operator edits, replaces or creates an object.
ForeignEdit(o) ==
  /\ trouble < MaxTrouble /\ obj[o].spec # "foreign"
  /\ obj' = Becomes(o, "foreign")
  /\ trouble' = trouble + 1
  /\ UNCHANGED <<latch, run, journal>>

Die(h) ==
  /\ trouble < MaxTrouble /\ run[h].phase \in {"experiment", "recover", "receipt"}
  /\ trouble' = trouble + 1
  /\ run' = [run EXCEPT ![h].phase = "ended", ![h].cut = TRUE]
  /\ obj' = [obj EXCEPT !["sessions"].spec = IF @ = "held" THEN "absent" ELSE @]
  /\ UNCHANGED <<latch, journal>>

Work(h) == \/ CaptureStep(h) \/ JournalStep(h) \/ WriteStep(h) \/ UndoStep(h) \/ CreateStep(h)
           \/ RemoveStep(h) \/ AwaitStep(h) \/ InvestigateStep(h) \/ ConfirmStep(h)
           \/ CompareStep(h) \/ TeeStep(h) \/ RestartStep(h) \/ Raise(h)
           \/ Receipt(h) \/ ReceiptFails(h)

Begin(h) == Refused(h) \/ StartFails(h) \/ \E case \in CasesOf[h] : Start(h, case)

Next == \/ \E h \in Harnesses : Begin(h) \/ Work(h) \/ SaveFails(h) \/ Interrupt(h) \/ Die(h)
        \/ \E o \in Objects : Converge(o) \/ ForeignEdit(o)
        \/ \E s \in Services : ContainerRestarts(s)
        \/ Scale

\* A live process goes on: each of its waits ends by a timeout, which raises.
Spec == Init /\ [][Next]_vars /\ \A h \in Harnesses : WF_vars(Work(h))

-----------------------------------------------------------------------------
(* The discipline of the recipes.  They are data, so TLC evaluates this    *)
(* assumption completely; the proofs rest on it and on nothing else about  *)
(* them.                                                                   *)

\* The object a step may give the variant s.to.
Touches(s) == CASE s.op \in {"write", "create"} -> {s.o}
                [] s.op = "tee" -> {"kubelet"}
                [] OTHER -> {}

Touched(case) ==
  {o \in Objects : \E i \in 1..Len(Experiment(case)) : o \in Touches(Experiment(case)[i])}

\* The object a step of a recovery puts back.
PutBack(s) == CASE s.op \in {"undo", "remove"} -> {s.o}
                [] s.op = "tee" -> {"kubelet"}
                [] OTHER -> {}

\* The objects a step finds at home.
Checked(s) ==
  CASE s.op = "await" -> {o \in Objects : \/ <<o, Home(o)>> \in s.want
                                         \/ /\ s.strict /\ o \in Services
                                            /\ \A p \in s.want : p[1] # o}
    [] s.op = "confirm" -> s.on \cap {"kubelet", "limits"}
    [] OTHER -> {}

\* Every write is conditional on a specification the harness knows.
Conditional(prog) ==
  \A i \in 1..Len(prog) :
    LET s == prog[i] IN
    /\ s.op \in {"write", "undo", "create", "remove"} => s.o \in Objects \ {"kubelet"}
    /\ s.op \in {"write", "create", "tee"} => s.to \in Variants
    /\ s.op = "write" => "foreign" \notin s.from
    /\ s.op \in {"undo", "remove"} => s.known \cap {Home(s.o), "foreign"} = {}
    /\ s.op = "remove" => s.o \in Made
    /\ s.op = "compare" => /\ i + 2 <= Len(prog) /\ s.unless \subseteq {"original"}
                           /\ prog[i + 1].op = "tee" /\ prog[i + 2].op = "restart"
    /\ s.op = "tee" => i > 1 /\ prog[i - 1].op = "compare"

JournalledBefore(prog, i, o, variant) ==
  \E j \in 1..i - 1 : prog[j].op = "journal" /\ <<o, variant>> \in prog[j].specs

\* Nothing is altered before it was captured, and what is not made by the run was saved.
SavedFirst(prog) ==
  \A i \in 1..Len(prog) : \A o \in Touches(prog[i]) :
    /\ \E j \in 1..i - 1 : prog[j].op = "capture"
    /\ o \notin Made => \A v \in {"original", prog[i].to} : JournalledBefore(prog, i, o, v)

\* A recovery alters nothing, puts back what the experiment touched and looks at it again.
PutsBack(case) ==
  /\ \A a \in DOMAIN Recovery(case) : \A i \in 1..Len(Recovery(case)[a]) :
       LET s == Recovery(case)[a][i]
       IN  s.op \notin {"capture", "journal", "write", "create"} /\ (s.op = "tee" => s.to = "original")
  /\ \A o \in Touched(case) :
       /\ \E a \in DOMAIN Recovery(case) : \E i \in 1..Len(Recovery(case)[a]) :
            o \in Checked(Recovery(case)[a][i])
       /\ o # "sessions" =>
            \E a \in DOMAIN Recovery(case) : \E i \in 1..Len(Recovery(case)[a]) :
              o \in PutBack(Recovery(case)[a][i])
  /\ \A a \in DOMAIN Recovery(case) : Needs(case, a) => a = Len(Recovery(case))

\* The autoscaler is raised only over the enabled workload, whose variants are saved, and is
\* seen to be gone before the workload is put back.
ScalesEnabled(case) == "hpa" \in Touched(case) =>
  /\ \A i \in 1..Len(Experiment(case)) :
       LET s == Experiment(case)[i] IN
       /\ "payments-api" \in Touches(s) => s.to = "enabled"
       /\ s.op = "undo" => s.o # "payments-api"
       /\ "hpa" \in Touches(s) /\ s.to = "cap2" =>
            /\ \E j \in 1..i - 1 : "payments-api" \in Touches(Experiment(case)[j])
            /\ \A v \in {"original", "enabled", "scaled"} :
                 JournalledBefore(Experiment(case), i, "payments-api", v)
  /\ \A a \in DOMAIN Recovery(case) : \A i \in 1..Len(Recovery(case)[a]) :
       "payments-api" \in PutBack(Recovery(case)[a][i]) =>
         /\ Needs(case, a)
         /\ \E b \in 1..a - 1 : \E j \in 1..Len(Recovery(case)[b]) :
              "hpa" \in Checked(Recovery(case)[b][j])

\* The sessions are open before step i.
HeldAt(prog, i) ==
  \E j \in 1..i - 1 :
    /\ "sessions" \in Touches(prog[j])
    /\ \A k \in j + 1..i - 1 : ~(prog[k].op = "remove" /\ prog[k].o = "sessions")

\* While they are, the run only looks, and closes them before it goes on.
HoldsBriefly(prog) ==
  /\ ~HeldAt(prog, Len(prog) + 1)
  /\ \A i \in 1..Len(prog) :
       /\ "sessions" \in Touches(prog[i]) => prog[i].op = "create" /\ prog[i].to = "held"
       /\ HeldAt(prog, i) => \/ prog[i].op \in {"await", "investigate"}
                             \/ prog[i].op = "remove" /\ prog[i].o = "sessions"

ASSUME RecipeAssumption ==
  \A case \in CaseIds :
    /\ Len(Experiment(case)) \in Nat \ {0}
    /\ Len(Recovery(case)) \in Nat \ {0} /\ DOMAIN Recovery(case) = 1..Len(Recovery(case))
    /\ \A a \in DOMAIN Recovery(case) :
         /\ Len(Recovery(case)[a]) \in Nat \ {0}
         /\ DOMAIN Recovery(case)[a] = 1..Len(Recovery(case)[a])
         /\ Conditional(Recovery(case)[a])
    /\ Conditional(Experiment(case)) /\ SavedFirst(Experiment(case))
    /\ HoldsBriefly(Experiment(case)) /\ PutsBack(case) /\ ScalesEnabled(case)

-----------------------------------------------------------------------------
(* Properties.                                                             *)

TypeOK ==
  /\ latch \in Harnesses \cup {Free}
  /\ obj \in [Objects -> [spec : Variants, live : Variants, whole : BOOLEAN]]
  /\ \A h \in Harnesses :
       /\ run[h].phase \in {"idle", "experiment", "recover", "receipt", "ended"}
       /\ Active(h) => run[h].at \in 1..Len(Program(run[h]))

\* The object carries something a harness gave it.
Altered(o) == obj[o].spec \notin {Home(o), "foreign"}

\* ... or it runs something else than it should.  A LimitRange has no controller, and
\* the kubelet's configuration is the subject of KubeletRestored.
Disturbed(o) ==
  \/ Altered(o)
  \/ o \notin {"kubelet", "limits"} /\ obj[o].spec = Home(o) /\ obj[o].live # Home(o)

\* The latch of the harnesses: one run works at a time, only under the latch is the
\* cluster disturbed, and the latch is released only when every object nobody else took
\* over has its captured specification and runs it (_start, _finish, _recover, cleanup).
Latch == INSTANCE ScenarioLatch
           WITH holder <- latch,
                working <- {h \in Harnesses : run[h].phase \in {"experiment", "recover", "receipt"}},
                altered <- {o \in Objects : Disturbed(o)}
LatchProtocol == Latch!Spec

\* A harness never changes an object another operator has edited, replaced or
\* created, in the experiment or in the recovery.
ForeignKept ==
  [][\A o \in Objects \ {"kubelet"} : obj[o].spec = "foreign" => obj'[o].spec = "foreign"]_vars

\* Whatever is altered, the evidence directory of the run named in the latch already
\* holds the original and the variant: what is needed after a death.
JournalBeforeWrite ==
  \A o \in Objects \ Made : Altered(o) =>
    latch # Free /\ {<<o, "original">>, <<o, obj[o].spec>>} \subseteq journal

\* The attempts of a recovery that restore o.
Restores(case, o) ==
  {a \in DOMAIN Recovery(case) : \E i \in DOMAIN Recovery(case)[a] :
     LET s == Recovery(case)[a][i]
     IN  \/ s.op \in {"undo", "remove"} /\ s.o = o
         \/ s.op = "compare" /\ o = "kubelet"}

\* A run that ended by itself and leaves an object altered failed in restoring this very
\* object: no failure of another restoration keeps one from being attempted.  The HPA
\* harness alone holds back the workload while an autoscaler may be left.
LeftoverExplained ==
  \A h \in Harnesses : run[h].phase = "ended" /\ latch = h /\ run[h].captured /\ ~run[h].cut =>
    \A o \in Objects : Altered(o) =>
      \/ Restores(run[h].case, o) \cap run[h].failed # {}
      \/ \E a \in Restores(run[h].case, o) : Needs(run[h].case, a) /\ run[h].failed # {}

\* A run that was started ends, with or without its latch.
RunEnds == \A h \in Harnesses : run[h].phase = "experiment" ~> run[h].phase = "ended"

\* When the latch is free the kubelet of the eviction cluster runs its captured configuration.
KubeletRestored ==
  latch = Free /\ obj["kubelet"].spec = "original" => obj["kubelet"].live = "original"
=============================================================================
