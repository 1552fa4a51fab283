------------------------- MODULE ReadRegistryProofs -------------------------
(***************************************************************************)
(* Proofs about ReadRegistry, for any number of callers, slots and any     *)
(* deadlines.                                                              *)
(*                                                                         *)
(* The inductive invariant accounts for every slot (free, running for a    *)
(* caller, or adrift), says which tasks a caller can have at each of its   *)
(* steps, what a completed task says about the grant, and how much of the  *)
(* pool a caller that is alone can have used up.                           *)
(***************************************************************************)
EXTENDS ReadRegistry, FiniteSetTheorems, TLAPS

EntryType == [status : {"new", "pending", "BUDGET_EXHAUSTED", "OK"} \cup Failures,
              late : {FALSE}]

BatchType == UNION {[1..n -> EntryType] : n \in 0..2}

TaskType == [phase : Running \cup {"none", "released", "resolved"}, left : Int,
             status : {"OK"} \cup Failures, late : BOOLEAN]

CallerPCs == {"idle", "submit", "gather", "check", "returned"}

TypeInv ==
    /\ free \in Nat
    /\ adrift \in Nat
    /\ tasks \in [Ids -> TaskType]
    /\ pc \in [Callers -> CallerPCs]
    /\ granted \in BOOLEAN /\ closed \in BOOLEAN
    /\ statuses \in [Callers -> BatchType]
    /\ held \in [Callers -> BOOLEAN] /\ alone \in [Callers -> BOOLEAN]

RunningTasks == {t \in Ids : tasks[t].phase \in Running}

\* Every slot is free, held by a running task, or held by one that was given up.
SlotInv ==
    /\ IsFiniteSet(RunningTasks)
    /\ free + Cardinality(RunningTasks) + adrift = Slots

Completed == {"finished", "released", "resolved"}

\* A caller's tasks are the pending reads of its batch, or its publication check.
TasksOf(c) ==
    /\ \A i \in Reads : tasks[<<c, i>>].phase # "none" =>
         /\ pc[c] \in {"submit", "gather"}
         /\ i \in DOMAIN statuses[c] /\ statuses[c][i].status = "pending"
    /\ tasks[<<c, Publication>>].phase # "none" => pc[c] = "check"
    /\ tasks[<<c, Publication>>].phase # "reading"

ResultsInv == \A t \in Ids : tasks[t].phase \in Completed => tasks[t].status \in {"OK", "DENIED", "ERROR"}

\* What the check, and a batch that passed it, say about the grant.
GrantOf(c) ==
    /\ pc[c] = "check" /\ granted => held[c]
    /\ tasks[<<c, Publication>>].phase \in Completed /\ tasks[<<c, Publication>>].status = "OK"
         => held[c]
    /\ pc[c] = "returned" /\ Found(c) => held[c]

\* The reads of a batch that timed out.
Out(c) == {i \in DOMAIN statuses[c] : statuses[c][i].status = "TIMEOUT"}

\* A caller that is alone has used no more slots than reads of it timed out.
AloneOf(c) ==
    alone[c] =>
        /\ ~closed /\ pc[c] # "idle"
        /\ \A d \in Callers \ {c} : pc[d] \in {"idle", "returned"}
        /\ \A i \in DOMAIN statuses[c] : statuses[c][i].status # "BUSY"
        /\ pc[c] \in {"submit", "gather"} => /\ Out(c) = {} => adrift = 0
                                             /\ Out(c) # {1, 2} => adrift <= 1

Basis == TypeInv /\ SlotInv /\ ResultsInv /\ \A c \in Callers : TasksOf(c) /\ GrantOf(c)

IInv == Basis /\ (Slots >= 2 => \A c \in Callers : AloneOf(c))

---------------------------------------------------------------------------
(***************************************************************************)
(* Batches and tasks                                                       *)
(***************************************************************************)

LEMMA BatchFacts ==
    ASSUME NEW b \in BatchType
    PROVE  /\ DOMAIN b \subseteq Reads
           /\ \A i \in DOMAIN b : b[i] \in EntryType /\ b[i].late = FALSE
  <1>1. PICK n \in 0..2 : b \in [1..n -> EntryType]
    BY DEF BatchType
  <1>2. 1..n \subseteq Reads
    BY <1>1 DEF Reads
  <1> QED
    BY <1>1, <1>2 DEF EntryType

LEMMA BatchOver ==
    ASSUME NEW b \in BatchType, NEW f, f \in [DOMAIN b -> EntryType]
    PROVE  f \in BatchType
  <1>1. PICK n \in 0..2 : b \in [1..n -> EntryType]
    BY DEF BatchType
  <1>2. f \in [1..n -> EntryType]
    BY <1>1
  <1> QED
    BY <1>2 DEF BatchType

\* One entry of one caller's batch is replaced.
LEMMA EntryReplaced ==
    ASSUME TypeInv, NEW c \in Callers, NEW i \in DOMAIN statuses[c], NEW e \in EntryType,
           statuses' = [statuses EXCEPT ![c][i] = e]
    PROVE  /\ statuses' \in [Callers -> BatchType]
           /\ DOMAIN statuses'[c] = DOMAIN statuses[c]
           /\ statuses'[c][i] = e
           /\ \A j \in DOMAIN statuses[c] \ {i} : statuses'[c][j] = statuses[c][j]
           /\ \A d \in Callers \ {c} : statuses'[d] = statuses[d]
  <1> DEFINE b == [statuses[c] EXCEPT ![i] = e]
  <1>1. statuses[c] \in BatchType /\ statuses \in [Callers -> BatchType]
    BY DEF TypeInv
  <1>2. b \in [DOMAIN statuses[c] -> EntryType]
    BY <1>1, BatchFacts
  <1>3. b \in BatchType
    BY <1>1, <1>2, BatchOver
  <1>4. statuses' = [statuses EXCEPT ![c] = b]
    OBVIOUS
  <1>5. DOMAIN b = DOMAIN statuses[c] /\ b[i] = e /\ \A j \in DOMAIN statuses[c] \ {i} : b[j] = statuses[c][j]
    BY <1>1, BatchFacts
  <1> HIDE DEF b
  <1> QED
    BY <1>1, <1>3, <1>4, <1>5

LEMMA CheckedFacts ==
    ASSUME NEW b \in BatchType, NEW status \in {"OK"} \cup Failures
    PROVE  /\ Checked(b, status) \in BatchType
           /\ DOMAIN Checked(b, status) = DOMAIN b
           /\ status # "OK" => \A i \in DOMAIN b : Checked(b, status)[i].status # "OK"
           /\ status # "BUSY" => \A i \in DOMAIN b :
                b[i].status # "BUSY" => Checked(b, status)[i].status # "BUSY"
  <1> DEFINE E(i) == IF b[i].status = "OK" /\ status # "OK" THEN [b[i] EXCEPT !.status = status]
                                                            ELSE b[i]
             f == Checked(b, status)
  <1>1. ASSUME NEW i \in DOMAIN b
        PROVE  /\ E(i) \in EntryType
               /\ status # "OK" => E(i).status # "OK"
               /\ status # "BUSY" /\ b[i].status # "BUSY" => E(i).status # "BUSY"
    <2>1. b[i] \in EntryType
      BY <1>1, BatchFacts
    <2> QED
      BY <2>1 DEF EntryType
  <1>2. f = [i \in DOMAIN b |-> E(i)]
    BY DEF Checked
  <1> HIDE DEF E, f
  <1>3. f \in [DOMAIN b -> EntryType]
    BY <1>1, <1>2
  <1>4. f \in BatchType
    BY <1>3, BatchOver
  <1>5. DOMAIN f = DOMAIN b /\ \A i \in DOMAIN b : f[i] = E(i)
    BY <1>2
  <1>6. /\ f \in BatchType
        /\ DOMAIN f = DOMAIN b
        /\ status # "OK" => \A i \in DOMAIN b : f[i].status # "OK"
        /\ status # "BUSY" => \A i \in DOMAIN b : b[i].status # "BUSY" => f[i].status # "BUSY"
    BY <1>1, <1>4, <1>5
  <1> QED
    BY <1>6 DEF f

LEMMA IdsFacts ==
    /\ \A c \in Callers : <<c, 1>> \in Ids /\ <<c, 2>> \in Ids /\ <<c, Publication>> \in Ids
    /\ \A c \in Callers : \A i \in Reads : <<c, i>> \in Ids /\ <<c, i>> # <<c, Publication>>
    /\ \A t \in Ids : \E c \in Callers : \E i \in Reads \cup {Publication} : t = <<c, i>>
  BY DEF Ids, Reads, Publication

LEMMA NewTasks ==
    /\ NoTask \in TaskType /\ NoTask.phase = "none"
    /\ \A left \in Int : Submitted(left) \in TaskType /\ Submitted(left).phase = "submitted"
  <1>1. NoTask \in TaskType /\ NoTask.phase = "none"
    BY DEF NoTask, TaskType, Running, Failures
  <1>2. ASSUME NEW left \in Int
        PROVE  Submitted(left) \in TaskType /\ Submitted(left).phase = "submitted"
    <2> DEFINE r == NoTask
    <2>1. r \in TaskType
      BY <1>1
    <2>2. Submitted(left) = [r EXCEPT !.phase = "submitted", !.left = left]
      BY DEF Submitted
    <2> HIDE DEF r
    <2> QED
      BY <2>1, <2>2 DEF TaskType, Running
  <1> QED
    BY <1>1, <1>2

LEMMA FinishedTask ==
    ASSUME NEW task \in TaskType, NEW status \in {"OK"} \cup Failures
    PROVE  /\ Finished(task, status) \in TaskType
           /\ Finished(task, status).phase = "finished"
           /\ Finished(task, status).status = status
  <1>1. ASSUME NEW late \in BOOLEAN
        PROVE  LET n == [task EXCEPT !.phase = "finished", !.status = status, !.late = late]
               IN  n \in TaskType /\ n.phase = "finished" /\ n.status = status
    BY DEF TaskType, Running
  <1>2. (task.left < 0) \in BOOLEAN
    BY DEF TaskType
  <1> QED
    BY <1>1, <1>2, Zenon DEF Finished

\* How the set of running tasks, and its size, follow a change of one task.
LEMMA RunningChange ==
    ASSUME TypeInv, IsFiniteSet(RunningTasks), NEW t \in Ids, NEW n \in TaskType,
           tasks' = [tasks EXCEPT ![t] = n]
    PROVE  /\ tasks' \in [Ids -> TaskType]
           /\ IsFiniteSet(RunningTasks')
           /\ Cardinality(RunningTasks) \in Nat /\ Cardinality(RunningTasks') \in Nat
           /\ (n.phase \in Running <=> tasks[t].phase \in Running)
                => Cardinality(RunningTasks') = Cardinality(RunningTasks)
           /\ n.phase \in Running /\ tasks[t].phase \notin Running
                => Cardinality(RunningTasks') = Cardinality(RunningTasks) + 1
           /\ n.phase \notin Running /\ tasks[t].phase \in Running
                => Cardinality(RunningTasks') = Cardinality(RunningTasks) - 1
  <1>1. /\ tasks' \in [Ids -> TaskType] /\ tasks'[t] = n
        /\ \A u \in Ids \ {t} : tasks'[u] = tasks[u]
    BY DEF TypeInv
  <1>2. Cardinality(RunningTasks) \in Nat
    BY FS_CardinalityType
  <1>3. CASE n.phase \in Running
    <2>1. RunningTasks' = RunningTasks \cup {t}
      BY <1>1, <1>3 DEF RunningTasks
    <2>2. /\ IsFiniteSet(RunningTasks \cup {t})
          /\ Cardinality(RunningTasks \cup {t}) =
               IF t \in RunningTasks THEN Cardinality(RunningTasks) ELSE Cardinality(RunningTasks) + 1
      BY FS_AddElement
    <2>3. t \in RunningTasks <=> tasks[t].phase \in Running
      BY DEF RunningTasks
    <2> QED
      BY <1>1, <1>2, <1>3, <2>1, <2>2, <2>3
  <1>4. CASE n.phase \notin Running
    <2>1. RunningTasks' = RunningTasks \ {t}
      BY <1>1, <1>4 DEF RunningTasks
    <2>2. /\ IsFiniteSet(RunningTasks \ {t})
          /\ Cardinality(RunningTasks \ {t}) =
               IF t \in RunningTasks THEN Cardinality(RunningTasks) - 1 ELSE Cardinality(RunningTasks)
      BY FS_RemoveElement
    <2>3. t \in RunningTasks <=> tasks[t].phase \in Running
      BY DEF RunningTasks
    <2>4. Cardinality(RunningTasks \ {t}) \in Nat
      BY <2>2, FS_CardinalityType
    <2> QED
      BY <1>1, <1>2, <1>4, <2>1, <2>2, <2>3, <2>4
  <1> QED
    BY <1>3, <1>4

LEMMA IInvParts ==
    ASSUME IInv
    PROVE  /\ TypeInv /\ SlotInv /\ ResultsInv
           /\ \A c \in Callers : TasksOf(c) /\ GrantOf(c)
           /\ Slots >= 2 => \A c \in Callers : AloneOf(c)
           /\ Cardinality(RunningTasks) \in Nat /\ Slots \in Nat
           /\ \A c \in Callers : statuses[c] \in BatchType
           /\ \A t \in Ids : tasks[t] \in TaskType
  <1>1. TypeInv /\ SlotInv
    BY DEF IInv, Basis
  <1>2. Cardinality(RunningTasks) \in Nat
    BY <1>1, FS_CardinalityType DEF SlotInv
  <1>3. Slots \in Nat
    BY RegistryAssumption
  <1> QED
    BY <1>1, <1>2, <1>3 DEF IInv, Basis, TypeInv

\* What is running and adrift does not exceed the pool, whoever gave it up.
LEMMA IInvBounds == IInv => NoHiddenQueue /\ free \in 0..Slots
  <1> SUFFICES ASSUME IInv PROVE NoHiddenQueue /\ free \in 0..Slots
    OBVIOUS
  <1>1. free \in Nat /\ adrift \in Nat /\ free + Cardinality(RunningTasks) + adrift = Slots
    BY IInvParts DEF TypeInv, SlotInv
  <1>2. /\ Cardinality(RunningTasks) + adrift <= Slots
        /\ free \in 0..Slots
    BY <1>1, IInvParts
  <1> QED
    BY <1>2 DEF NoHiddenQueue, RunningTasks

LEMMA InitIInv == Init => IInv
  <1> SUFFICES ASSUME Init PROVE IInv
    OBVIOUS
  <1>1. \A t \in Ids : tasks[t] = NoTask
    BY DEF Init
  <1>2. <<>> \in BatchType
    <2>1. <<>> \in [1..0 -> EntryType]
      OBVIOUS
    <2> QED
      BY <2>1 DEF BatchType
  <1>3. TypeInv
    <2>1. tasks \in [Ids -> TaskType] /\ free \in Nat /\ adrift \in Nat
      BY NewTasks, RegistryAssumption DEF Init
    <2>2. statuses \in [Callers -> BatchType]
      BY <1>2 DEF Init
    <2> QED
      BY <2>1, <2>2 DEF Init, TypeInv, CallerPCs
  <1>4. SlotInv
    <2>1. RunningTasks = {}
      BY <1>1, NewTasks DEF RunningTasks, Running
    <2>2. IsFiniteSet({}) /\ Cardinality({}) = 0
      BY FS_EmptySet
    <2> QED
      BY <2>1, <2>2, RegistryAssumption DEF SlotInv, Init
  <1>5. ResultsInv
    BY <1>1, NewTasks DEF ResultsInv, Completed
  <1>6. ASSUME NEW c \in Callers PROVE TasksOf(c) /\ GrantOf(c) /\ AloneOf(c)
    <2>1. pc[c] = "idle" /\ ~alone[c]
      BY <1>6 DEF Init
    <2>2. tasks[<<c, Publication>>].phase = "none" /\ \A i \in Reads : tasks[<<c, i>>].phase = "none"
      BY <1>1, <1>6, IdsFacts, NewTasks
    <2> QED
      BY <2>1, <2>2 DEF TasksOf, GrantOf, AloneOf, Completed
  <1> QED
    BY <1>3, <1>4, <1>5, <1>6 DEF IInv, Basis

---------------------------------------------------------------------------
(***************************************************************************)
(* Steps                                                                   *)
(***************************************************************************)

\* What a step of a thread does to its task and its slot.
Worked(t, n) ==
    /\ tasks[t].phase # "none"
    /\ n \in TaskType /\ n.phase # "none"
    /\ n.phase = "reading" => t[2] # Publication
    /\ n.phase \in Completed => n.status \in {"OK", "DENIED", "ERROR"}
    /\ n.phase \in Completed /\ n.status = "OK" /\ t[2] = Publication => held[t[1]]
    /\ \/ n.phase \in Running /\ tasks[t].phase \in Running /\ free' = free
       \/ n.phase \notin Running /\ tasks[t].phase \in Running /\ free' = free + 1
       \/ n.phase \notin Running /\ tasks[t].phase \notin Running /\ free' = free
    /\ Move(t, n)

LEMMA AuthorizeWorked ==
    ASSUME IInv, NEW t \in Ids, Authorize(t) PROVE \E n : Worked(t, n)
  <1>1. /\ tasks[t] \in TaskType /\ tasks[t].phase = "submitted" /\ free' = free
        /\ "submitted" \in Running /\ "finished" \in Running /\ "reading" \in Running
    BY IInvParts DEF Authorize, Running
  <1>2. ASSUME NEW status \in {"DENIED", "ERROR"}, Move(t, Finished(tasks[t], status))
        PROVE  Worked(t, Finished(tasks[t], status))
    <2>1. status \in {"OK"} \cup Failures
      BY DEF Failures
    <2> QED
      BY <1>1, <1>2, <2>1, FinishedTask DEF Worked
  <1>3. CASE granted /\ t[2] = Publication /\ Move(t, Finished(tasks[t], "OK"))
    <2>1. PICK c \in Callers, i \in Reads \cup {Publication} : t = <<c, i>>
      BY IdsFacts
    <2>2. i = Publication /\ t[1] = c
      BY <1>3, <2>1
    <2>3. pc[c] = "check"
      BY <1>1, <2>1, <2>2, IInvParts DEF TasksOf
    <2>4. held[t[1]]
      BY <1>3, <2>2, <2>3, IInvParts DEF GrantOf
    <2> QED
      BY <1>1, <1>3, <2>4, FinishedTask DEF Worked
  <1>4. CASE t[2] # Publication /\ Move(t, [tasks[t] EXCEPT !.phase = "reading"])
    <2> DEFINE n == [tasks[t] EXCEPT !.phase = "reading"]
    <2>1. n \in TaskType /\ n.phase = "reading"
      BY <1>1 DEF TaskType, Running
    <2> HIDE DEF n
    <2>2. Move(t, n)
      BY <1>4 DEF n
    <2> QED
      BY <1>1, <1>4, <2>1, <2>2 DEF Worked, Completed
  <1> QED
    BY <1>2, <1>3, <1>4, RegistryAssumption DEF Authorize

LEMMA ReadWorked ==
    ASSUME IInv, NEW t \in Ids, Read(t) PROVE \E n : Worked(t, n)
  <1>1. /\ tasks[t] \in TaskType /\ tasks[t].phase = "reading" /\ free' = free
        /\ "finished" \in Running /\ "reading" \in Running
    BY IInvParts DEF Read, Running
  <1>2. PICK status \in {"OK", "DENIED", "ERROR"} : Move(t, Finished(tasks[t], status))
    BY RegistryAssumption DEF Read, Handled
  <1>3. status \in {"OK"} \cup Failures
    BY DEF Failures
  <1>4. t[2] # Publication
    BY <1>1, IdsFacts, IInvParts DEF TasksOf
  <1> QED
    BY <1>1, <1>2, <1>3, <1>4, FinishedTask DEF Worked

LEMMA ReleaseWorked ==
    ASSUME IInv, NEW t \in Ids, Release(t) \/ Resolve(t) PROVE \E n : Worked(t, n)
  <1>1. /\ tasks[t] \in TaskType /\ tasks[t].phase \in {"finished", "released"}
        /\ "finished" \in Running /\ "released" \notin Running /\ "resolved" \notin Running
        /\ {"finished", "released", "resolved"} = Completed
    BY IInvParts DEF Release, Resolve, Running, Completed
  <1>2. tasks[t].status \in {"OK", "DENIED", "ERROR"}
    BY <1>1, IInvParts DEF ResultsInv
  <1>3. tasks[t].status = "OK" /\ t[2] = Publication => held[t[1]]
    BY <1>1, IdsFacts, IInvParts DEF GrantOf
  <1>4. ASSUME NEW phase \in {"released", "resolved"}, Move(t, [tasks[t] EXCEPT !.phase = phase]),
               \/ phase = "released" /\ tasks[t].phase = "finished" /\ free' = free + 1
               \/ phase = "resolved" /\ tasks[t].phase = "released" /\ free' = free
        PROVE  \E n : Worked(t, n)
    <2> DEFINE n == [tasks[t] EXCEPT !.phase = phase]
    <2>1. n \in TaskType /\ n.phase = phase /\ n.status = tasks[t].status
      BY <1>1 DEF TaskType, Running
    <2>2. Move(t, n)
      BY <1>4
    <2> HIDE DEF n
    <2> QED
      BY <1>1, <1>2, <1>3, <1>4, <2>1, <2>2 DEF Worked
  <1>5. CASE Release(t)
    BY <1>4, <1>5 DEF Release
  <1>6. CASE Resolve(t)
    BY <1>4, <1>6 DEF Resolve
  <1> QED
    BY <1>5, <1>6

\* A thread's step leaves the callers alone.
LEMMA WorkStep == ASSUME IInv, NEW t \in Ids, Work(t) PROVE IInv'
  <1>1. PICK n : Worked(t, n)
    BY AuthorizeWorked, ReadWorked, ReleaseWorked DEF Work
  <1>2. /\ n \in TaskType /\ tasks' = [tasks EXCEPT ![t] = n]
        /\ UNCHANGED <<granted, closed, adrift, pc, statuses, held, alone>>
        /\ TypeInv /\ SlotInv
    BY <1>1, IInvParts DEF Worked, Move
  <1>3. /\ tasks' \in [Ids -> TaskType] /\ tasks'[t] = n
        /\ \A u \in Ids \ {t} : tasks'[u] = tasks[u]
    BY <1>2 DEF TypeInv
  <1>4. TypeInv'
    BY <1>1, <1>2, <1>3 DEF TypeInv, Worked
  <1>5. SlotInv'
    <2>1. IsFiniteSet(RunningTasks) /\ free + Cardinality(RunningTasks) + adrift = Slots
      BY <1>2 DEF SlotInv
    <2>2. adrift \in Nat /\ free \in Nat
      BY <1>2 DEF TypeInv
    <2> QED
      <3> DEFINE a == Cardinality(RunningTasks)
                 b == Cardinality(RunningTasks')
      <3>1. IsFiniteSet(RunningTasks') /\ a \in Nat /\ b \in Nat
        BY <1>2, <2>1, RunningChange
      <3>2. free' + b = free + a
        <4>1. CASE n.phase \in Running /\ tasks[t].phase \in Running /\ free' = free
          BY <1>2, <2>1, <2>2, <4>1, RunningChange
        <4>2. CASE n.phase \notin Running /\ tasks[t].phase \in Running /\ free' = free + 1
          <5>1. b = a - 1
            BY <1>2, <2>1, <4>2, RunningChange
          <5> HIDE DEF a, b
          <5> QED
            BY <2>2, <3>1, <4>2, <5>1
        <4>3. CASE n.phase \notin Running /\ tasks[t].phase \notin Running /\ free' = free
          BY <1>2, <2>1, <2>2, <4>3, RunningChange
        <4> QED
          BY <1>1, <4>1, <4>2, <4>3 DEF Worked
      <3>3. free' \in Nat
        BY <1>4 DEF TypeInv
      <3>4. free + a + adrift = Slots
        BY <2>1
      <3>5. free' + b + adrift = Slots
        <4> HIDE DEF a, b
        <4> QED
          BY <2>2, <3>1, <3>2, <3>3, <3>4
      <3> QED
        BY <1>2, <3>1, <3>5 DEF SlotInv
  <1>6. ResultsInv'
    BY <1>1, <1>3, IInvParts DEF Worked, ResultsInv
  <1>7. ASSUME NEW c \in Callers PROVE TasksOf(c)'
    <2>1. ASSUME NEW u \in Ids PROVE tasks'[u].phase # "none" => tasks[u].phase # "none"
      BY <1>1, <1>3 DEF Worked
    <2>2. tasks'[<<c, Publication>>].phase # "reading"
      <3>1. tasks[<<c, Publication>>].phase # "reading"
        BY IInvParts DEF TasksOf
      <3>2. <<c, Publication>>[2] = Publication
        OBVIOUS
      <3> QED
        BY <1>1, <1>3, <3>1, <3>2, IdsFacts DEF Worked
    <2>3. \A i \in Reads : tasks'[<<c, i>>].phase # "none" =>
             /\ pc[c] \in {"submit", "gather"}
             /\ i \in DOMAIN statuses[c] /\ statuses[c][i].status = "pending"
      BY <2>1, IdsFacts, IInvParts, ZenonT(60) DEF TasksOf
    <2>4. tasks'[<<c, Publication>>].phase # "none" => pc[c] = "check"
      BY <2>1, IdsFacts, IInvParts DEF TasksOf
    <2> QED
      BY <1>2, <2>2, <2>3, <2>4 DEF TasksOf
  <1>8. ASSUME NEW c \in Callers PROVE GrantOf(c)'
    <2>1. /\ tasks'[<<c, Publication>>].phase \in Completed
          /\ tasks'[<<c, Publication>>].status = "OK"
          => held[c]
      <3>1. CASE t = <<c, Publication>>
        BY <1>1, <1>3, <3>1 DEF Worked
      <3>2. CASE t # <<c, Publication>>
        BY <1>3, <3>2, IdsFacts, IInvParts DEF GrantOf
      <3> QED
        BY <3>1, <3>2
    <2> QED
      BY <1>2, <2>1, IInvParts DEF GrantOf, Found
  <1>9. Slots >= 2 => \A c \in Callers : AloneOf(c)'
    BY <1>2, IInvParts DEF AloneOf, Out
  <1> QED
    BY <1>4, <1>5, <1>6, <1>7, <1>8, <1>9 DEF IInv, Basis

LEMMA DriftStep == ASSUME IInv, Drift PROVE IInv'
  <1>1. /\ adrift \in Nat /\ adrift > 0 /\ adrift' = adrift - 1 /\ free' = free + 1
        /\ UNCHANGED <<granted, closed, tasks, pc, statuses, held, alone>>
    BY IInvParts DEF Drift, TypeInv
  <1>2. TypeInv'
    BY <1>1, IInvParts DEF TypeInv
  <1>3. SlotInv'
    <2>1. RunningTasks' = RunningTasks
      BY <1>1 DEF RunningTasks
    <2>2. free \in Nat
      BY IInvParts DEF TypeInv
    <2> QED
      BY <1>1, <2>1, <2>2, IInvParts DEF SlotInv
  <1>4. ResultsInv' /\ \A c \in Callers : TasksOf(c)' /\ GrantOf(c)'
    BY <1>1, IInvParts DEF ResultsInv, TasksOf, GrantOf, Found
  <1>5. ASSUME Slots >= 2, NEW c \in Callers PROVE AloneOf(c)'
    <2>1. AloneOf(c) /\ (adrift <= 1 => adrift' <= 1) /\ adrift # 0
      BY <1>1, <1>5, IInvParts
    <2> QED
      BY <1>1, <2>1 DEF AloneOf, Out
  <1> QED
    BY <1>2, <1>3, <1>4, <1>5 DEF IInv, Basis

LEMMA TickStep == ASSUME IInv, Tick PROVE IInv'
  <1>1. UNCHANGED <<granted, closed, free, adrift, pc, statuses, held, alone>> /\ TypeInv
    BY IInvParts DEF Tick
  <1>2. /\ tasks' \in [Ids -> TaskType]
        /\ \A t \in Ids : /\ tasks'[t].phase = tasks[t].phase /\ tasks'[t].status = tasks[t].status
    <2> DEFINE T(t) == IF tasks[t].phase # "none" /\ tasks[t].left > -1
                         THEN [tasks[t] EXCEPT !.left = @ - 1] ELSE tasks[t]
    <2>1. ASSUME NEW t \in Ids
          PROVE  T(t) \in TaskType /\ T(t).phase = tasks[t].phase /\ T(t).status = tasks[t].status
      <3>1. tasks[t] \in TaskType
        BY IInvParts
      <3> QED
        BY <3>1 DEF TaskType
    <2>2. tasks' = [t \in Ids |-> T(t)]
      BY DEF Tick
    <2> HIDE DEF T
    <2> QED
      BY <2>1, <2>2
  <1>3. TypeInv'
    BY <1>1, <1>2 DEF TypeInv
  <1>4. SlotInv'
    <2>1. RunningTasks' = RunningTasks
      BY <1>2 DEF RunningTasks
    <2> QED
      BY <1>1, <2>1, IInvParts DEF SlotInv
  <1>5. ResultsInv'
    BY <1>2, IInvParts DEF ResultsInv
  <1>6. ASSUME NEW c \in Callers PROVE TasksOf(c)' /\ GrantOf(c)'
    <2>1. TasksOf(c) /\ GrantOf(c)
      BY IInvParts
    <2>2. TasksOf(c)'
      BY <1>1, <1>2, <2>1, IdsFacts DEF TasksOf
    <2>3. GrantOf(c)'
      BY <1>1, <1>2, <2>1, IdsFacts DEF GrantOf, Found
    <2> QED
      BY <2>2, <2>3
  <1>7. Slots >= 2 => \A c \in Callers : AloneOf(c)'
    BY <1>1, IInvParts DEF AloneOf, Out
  <1> QED
    BY <1>3, <1>4, <1>5, <1>6, <1>7 DEF IInv, Basis

LEMMA RegrantStep == ASSUME IInv, Regrant PROVE IInv'
  <1>1. /\ UNCHANGED <<closed, free, tasks, adrift, pc, statuses, alone>>
        /\ granted' = ~granted /\ TypeInv
        /\ held' = [c \in Callers |-> held[c] \/ (pc[c] = "check" /\ granted')]
    BY IInvParts DEF Regrant
  <1>2. TypeInv'
    BY <1>1 DEF TypeInv
  <1>3. SlotInv' /\ ResultsInv' /\ \A c \in Callers : TasksOf(c)'
    BY <1>1, IInvParts DEF SlotInv, ResultsInv, TasksOf, RunningTasks
  <1>4. ASSUME NEW c \in Callers PROVE GrantOf(c)'
    <2>1. held[c] => held'[c]
      BY <1>1
    <2>2. pc[c] = "check" /\ granted' => held'[c]
      BY <1>1
    <2> QED
      BY <1>1, <2>1, <2>2, IInvParts DEF GrantOf, Found
  <1>5. Slots >= 2 => \A c \in Callers : AloneOf(c)'
    BY <1>1, IInvParts DEF AloneOf, Out
  <1> QED
    BY <1>2, <1>3, <1>4, <1>5 DEF IInv, Basis

---------------------------------------------------------------------------
(***************************************************************************)
(* Callers                                                                 *)
(***************************************************************************)

\* A caller whose own state a step leaves alone keeps what holds of it.
LEMMA OtherCaller ==
    ASSUME IInv, NEW d \in Callers, granted' = granted,
           pc'[d] = pc[d], statuses'[d] = statuses[d], held'[d] = held[d],
           \A i \in Reads \cup {Publication} : tasks'[<<d, i>>] = tasks[<<d, i>>]
    PROVE  TasksOf(d)' /\ GrantOf(d)'
  <1>1. TasksOf(d) /\ GrantOf(d)
    BY IInvParts
  <1>2. TasksOf(d)'
    BY <1>1 DEF TasksOf
  <1>3. GrantOf(d)'
    BY <1>1 DEF GrantOf, Found
  <1> QED
    BY <1>2, <1>3

\* While a caller uses the registry no other one is alone.
LEMMA NotAlone ==
    ASSUME IInv, Slots >= 2, NEW c \in Callers, pc[c] \in {"submit", "gather", "check"},
           NEW d \in Callers \ {c}
    PROVE  ~alone[d]
  BY IInvParts DEF AloneOf

\* A caller that is idle or has its results has no task.
LEMMA NoTasksOutside ==
    ASSUME IInv, NEW c \in Callers, pc[c] \in {"idle", "returned"}
    PROVE  \A i \in Reads \cup {Publication} : tasks[<<c, i>>].phase = "none"
  BY IInvParts DEF TasksOf

LEMMA DispatchStep == ASSUME IInv, NEW c \in Callers, Dispatch(c) PROVE IInv'
  <1>1. /\ UNCHANGED <<granted, closed, free, tasks, adrift, held>>
        /\ pc[c] = "idle" /\ ~closed /\ TypeInv
        /\ pc' = [pc EXCEPT ![c] = "submit"]
        /\ alone' = [d \in Callers |->
                       d = c /\ free = Slots /\ \A e \in Callers : pc[e] \in {"idle", "returned"}]
    BY IInvParts DEF Dispatch
  <1>2. PICK n \in 1..MaxBatch[c] : statuses' = [statuses EXCEPT ![c] = [i \in 1..n |-> Entry("new")]]
    BY DEF Dispatch
  <1> DEFINE b == [i \in 1..n |-> Entry("new")]
  <1>3. /\ b \in BatchType /\ DOMAIN b \subseteq Reads
        /\ \A i \in DOMAIN b : b[i].status = "new"
    <2>1. n \in 0..2 /\ 1..n \subseteq Reads
      <3>1. MaxBatch[c] \in 1..2
        BY RegistryAssumption
      <3> QED
        BY <1>2, <3>1 DEF Reads
    <2>2. Entry("new") \in EntryType /\ Entry("new").status = "new"
      BY DEF Entry, EntryType
    <2>3. b \in [1..n -> EntryType]
      BY <2>2
    <2> QED
      BY <2>1, <2>2, <2>3 DEF BatchType
  <1>4. statuses' = [statuses EXCEPT ![c] = b]
    BY <1>2
  <1> HIDE DEF b
  <1>5. statuses' \in [Callers -> BatchType] /\ statuses'[c] = b
        /\ \A d \in Callers \ {c} : statuses'[d] = statuses[d]
    BY <1>1, <1>3, <1>4 DEF TypeInv
  <1>6. TypeInv'
    BY <1>1, <1>5 DEF TypeInv, CallerPCs
  <1>7. SlotInv' /\ ResultsInv'
    BY <1>1, IInvParts DEF SlotInv, ResultsInv, RunningTasks
  <1>8. ASSUME NEW d \in Callers PROVE TasksOf(d)' /\ GrantOf(d)'
    <2>1. CASE d = c
      <3>1. \A i \in Reads \cup {Publication} : tasks'[<<c, i>>].phase = "none"
        BY <1>1, NoTasksOutside
      <3>2. pc'[c] = "submit"
        BY <1>1 DEF TypeInv
      <3> QED
        BY <2>1, <3>1, <3>2 DEF TasksOf, GrantOf, Completed
    <2>2. CASE d # c
      <3>1. pc'[d] = pc[d]
        BY <1>1, <2>2 DEF TypeInv
      <3> QED
        BY <1>1, <1>5, <2>2, <3>1, OtherCaller
    <2> QED
      BY <2>1, <2>2
  <1>9. ASSUME NEW d \in Callers PROVE AloneOf(d)'
    <2> SUFFICES ASSUME alone'[d]
                 PROVE  /\ ~closed' /\ pc'[d] # "idle"
                        /\ \A e \in Callers \ {d} : pc'[e] \in {"idle", "returned"}
                        /\ \A i \in DOMAIN statuses'[d] : statuses'[d][i].status # "BUSY"
                        /\ adrift' = 0
      BY DEF AloneOf
    <2>1. d = c /\ free = Slots /\ \A e \in Callers : pc[e] \in {"idle", "returned"}
      BY <1>1
    <2>2. adrift = 0
      BY <1>1, <2>1, IInvParts DEF SlotInv, TypeInv
    <2>3. pc'[c] = "submit" /\ \A e \in Callers \ {c} : pc'[e] = pc[e]
      BY <1>1 DEF TypeInv
    <2> QED
      BY <1>1, <1>3, <1>5, <2>1, <2>2, <2>3
  <1> QED
    BY <1>6, <1>7, <1>8, <1>9 DEF IInv, Basis

\* A caller ends its batch, or forgets it, without touching a task or a slot.
LEMMA EndStep ==
    ASSUME IInv, NEW c \in Callers, NEW b \in BatchType, NEW p \in {"returned", "idle"},
           UNCHANGED <<granted, closed, free, tasks, adrift>>,
           statuses' = [statuses EXCEPT ![c] = b],
           pc' = [pc EXCEPT ![c] = p],
           held' \in [Callers -> BOOLEAN], alone' \in [Callers -> BOOLEAN],
           \A d \in Callers \ {c} : held'[d] = held[d] /\ alone'[d] = alone[d],
           \A i \in Reads \cup {Publication} : tasks[<<c, i>>].phase = "none",
           p = "returned" /\ (\E i \in DOMAIN b : b[i].status = "OK") => held'[c],
           Slots >= 2 /\ alone'[c] => /\ p = "returned" /\ alone[c]
                                      /\ \A i \in DOMAIN b : b[i].status # "BUSY"
    PROVE  IInv'
  <1>1. /\ TypeInv /\ pc'[c] = p /\ statuses'[c] = b
        /\ \A d \in Callers \ {c} : pc'[d] = pc[d] /\ statuses'[d] = statuses[d]
    BY IInvParts DEF TypeInv
  <1>2. TypeInv'
    BY <1>1 DEF TypeInv, CallerPCs
  <1>3. SlotInv' /\ ResultsInv'
    BY IInvParts DEF SlotInv, ResultsInv, RunningTasks
  <1>4. ASSUME NEW d \in Callers PROVE TasksOf(d)' /\ GrantOf(d)'
    <2>1. CASE d = c
      <3>1. \A i \in Reads \cup {Publication} : tasks'[<<c, i>>].phase = "none"
        OBVIOUS
      <3> QED
        BY <1>1, <2>1, <3>1 DEF TasksOf, GrantOf, Found, Completed
    <2>2. CASE d # c
      BY <1>1, <2>2, OtherCaller
    <2> QED
      BY <2>1, <2>2
  <1>5. ASSUME Slots >= 2, NEW d \in Callers PROVE AloneOf(d)'
    <2> SUFFICES ASSUME alone'[d] PROVE AloneOf(d)'
      BY DEF AloneOf
    <2>0. alone[d] /\ AloneOf(d)
      BY <1>5, IInvParts
    <2>1. CASE d = c
      BY <1>1, <1>5, <2>0, <2>1 DEF AloneOf
    <2>2. CASE d # c
      BY <1>1, <1>5, <2>0, <2>2 DEF AloneOf, Out
    <2> QED
      BY <2>1, <2>2
  <1> QED
    BY <1>2, <1>3, <1>4, <1>5 DEF IInv, Basis

LEMMA DispatchUnchargedStep == ASSUME IInv, NEW c \in Callers, DispatchUncharged(c) PROVE IInv'
  <1>1. PICK n \in 1..MaxBatch[c] : Return(c, [i \in 1..n |-> Entry("BUDGET_EXHAUSTED")])
    BY DEF DispatchUncharged
  <1> DEFINE b == [i \in 1..n |-> Entry("BUDGET_EXHAUSTED")]
  <1>2. b \in BatchType /\ \A i \in DOMAIN b : b[i].status = "BUDGET_EXHAUSTED"
    <2>1. n \in 0..2
      <3>1. MaxBatch[c] \in 1..2
        BY RegistryAssumption
      <3> QED
        BY <1>1, <3>1
    <2>2. Entry("BUDGET_EXHAUSTED") \in EntryType /\ Entry("BUDGET_EXHAUSTED").status = "BUDGET_EXHAUSTED"
      BY DEF Entry, EntryType
    <2>3. b \in [1..n -> EntryType]
      BY <2>2
    <2> QED
      BY <2>1, <2>2, <2>3 DEF BatchType
  <1>3. statuses' = [statuses EXCEPT ![c] = b] /\ pc' = [pc EXCEPT ![c] = "returned"]
    BY <1>1 DEF Return
  <1> HIDE DEF b
  <1>4. UNCHANGED <<granted, closed, free, tasks, adrift, held, alone>> /\ pc[c] = "idle"
    BY DEF DispatchUncharged
  <1>5. Slots >= 2 => ~alone[c]
    BY <1>4, IInvParts DEF AloneOf
  <1> QED
    BY <1>2, <1>3, <1>4, <1>5, NoTasksOutside, IInvParts, EndStep DEF TypeInv

LEMMA LeaveStep == ASSUME IInv, NEW c \in Callers, Leave(c) PROVE IInv'
  <1>1. /\ pc[c] = "returned" /\ pc' = [pc EXCEPT ![c] = "idle"]
        /\ statuses' = [statuses EXCEPT ![c] = <<>>]
        /\ held' = [held EXCEPT ![c] = FALSE] /\ alone' = [alone EXCEPT ![c] = FALSE]
        /\ UNCHANGED <<granted, closed, free, tasks, adrift>>
    BY DEF Leave
  <1>2. <<>> \in BatchType
    <2>1. <<>> \in [1..0 -> EntryType]
      OBVIOUS
    <2> QED
      BY <2>1 DEF BatchType
  <1>3. /\ held' \in [Callers -> BOOLEAN] /\ alone' \in [Callers -> BOOLEAN] /\ ~alone'[c]
        /\ \A d \in Callers \ {c} : held'[d] = held[d] /\ alone'[d] = alone[d]
    BY <1>1, IInvParts DEF TypeInv
  <1> QED
    BY <1>1, <1>2, <1>3, NoTasksOutside, EndStep

LEMMA CloseStep == ASSUME IInv, NEW c \in Callers, Close(c) PROVE IInv'
  <1>1. /\ closed' = TRUE /\ alone' = [d \in Callers |-> FALSE]
        /\ UNCHANGED <<granted, free, tasks, adrift, pc, statuses, held>>
    BY DEF Close
  <1>2. TypeInv'
    BY <1>1, IInvParts DEF TypeInv
  <1>3. SlotInv' /\ ResultsInv' /\ \A d \in Callers : TasksOf(d)' /\ GrantOf(d)'
    BY <1>1, IInvParts DEF SlotInv, ResultsInv, RunningTasks, TasksOf, GrantOf, Found
  <1>4. \A d \in Callers : AloneOf(d)'
    BY <1>1 DEF AloneOf
  <1> QED
    BY <1>2, <1>3, <1>4 DEF IInv, Basis

\* A caller that is alone and has a read that neither runs nor timed out leaves a slot free.
LEMMA SlotLeft ==
    ASSUME IInv, Slots >= 2, NEW c \in Callers, alone[c], pc[c] \in {"submit", "gather"},
           NEW i \in DOMAIN statuses[c], statuses[c][i].status \notin {"pending", "TIMEOUT"}
    PROVE  free > 0
  <1>1. AloneOf(c) /\ TypeInv /\ SlotInv /\ \A d \in Callers : TasksOf(d)
    BY IInvParts
  <1>2. free \in Nat /\ adrift \in Nat /\ free + Cardinality(RunningTasks) + adrift = Slots
    BY <1>1 DEF TypeInv, SlotInv
  <1>3. i \in {1, 2} /\ DOMAIN statuses[c] \subseteq {1, 2}
    <2>1. DOMAIN statuses[c] \subseteq Reads
      BY BatchFacts, IInvParts
    <2>2. Reads = {1, 2}
      BY DEF Reads
    <2> QED
      BY <2>1, <2>2
  <1>4. i \notin Out(c) /\ Out(c) \subseteq DOMAIN statuses[c]
    BY DEF Out
  <1>5. ASSUME NEW u \in RunningTasks
        PROVE  \E j \in {1, 2} \ {i} : u = <<c, j>> /\ statuses[c][j].status = "pending"
    <2>1. u \in Ids /\ tasks[u].phase # "none"
      BY <1>5 DEF RunningTasks, Running
    <2>2. PICK d \in Callers, j \in Reads \cup {Publication} : u = <<d, j>>
      BY <2>1, IdsFacts
    <2>3. d = c
      BY <1>1, <2>1, <2>2, NoTasksOutside DEF AloneOf
    <2>4. j \in Reads /\ statuses[c][j].status = "pending"
      BY <1>1, <2>1, <2>2, <2>3 DEF TasksOf
    <2> QED
      BY <2>2, <2>3, <2>4 DEF Reads
  <1>6. CASE RunningTasks = {}
    <2>1. Cardinality(RunningTasks) = 0
      BY <1>6, FS_EmptySet
    <2>2. adrift <= 1
      BY <1>1, <1>3, <1>4 DEF AloneOf
    <2> QED
      BY <1>2, <2>1, <2>2, IInvParts
  <1>7. CASE RunningTasks # {}
    <2>1. PICK u : u \in RunningTasks
      BY <1>7
    <2>2. PICK j \in {1, 2} \ {i} : u = <<c, j>> /\ statuses[c][j].status = "pending"
      BY <1>5, <2>1
    <2>3. RunningTasks = {u}
      BY <1>3, <1>5, <2>1, <2>2
    <2>4. Cardinality(RunningTasks) = 1
      BY <2>3, FS_Singleton
    <2>5. Out(c) = {}
      BY <1>3, <1>4, <2>2 DEF Out
    <2>6. adrift = 0
      BY <1>1, <2>5 DEF AloneOf
    <2> QED
      BY <1>2, <2>4, <2>6, IInvParts
  <1> QED
    BY <1>6, <1>7

\* A read or the publication check takes a slot.
LEMMA TakeSlot ==
    ASSUME IInv, NEW t \in Ids, tasks[t].phase = "none", NEW left \in Int,
           free > 0, free' = free - 1, adrift' = adrift,
           tasks' = [tasks EXCEPT ![t] = Submitted(left)]
    PROVE  /\ SlotInv' /\ ResultsInv' /\ free' \in Nat /\ tasks' \in [Ids -> TaskType]
           /\ tasks'[t].phase = "submitted" /\ \A u \in Ids \ {t} : tasks'[u] = tasks[u]
  <1>1. TypeInv /\ SlotInv /\ Submitted(left) \in TaskType /\ Submitted(left).phase = "submitted"
    BY IInvParts, NewTasks
  <1>2. "none" \notin Running /\ "submitted" \in Running /\ "submitted" \notin Completed
    BY DEF Running, Completed
  <1>3. free \in Nat /\ adrift \in Nat /\ free' \in Nat
    BY <1>1 DEF TypeInv
  <1>4. /\ tasks' \in [Ids -> TaskType] /\ tasks'[t] = Submitted(left)
        /\ \A u \in Ids \ {t} : tasks'[u] = tasks[u]
    BY <1>1 DEF TypeInv
  <1> DEFINE a == Cardinality(RunningTasks)
             b == Cardinality(RunningTasks')
  <1>5. IsFiniteSet(RunningTasks') /\ b \in Nat /\ a \in Nat /\ b = a + 1
    BY <1>1, <1>2, RunningChange DEF SlotInv
  <1>6. free + a + adrift = Slots
    BY <1>1 DEF SlotInv
  <1>7. free' + b + adrift' = Slots
    <2> HIDE DEF a, b
    <2> QED
      BY <1>3, <1>5, <1>6
  <1>8. ResultsInv'
    BY <1>1, <1>2, <1>4, IInvParts DEF ResultsInv
  <1> QED
    BY <1>1, <1>3, <1>4, <1>5, <1>7, <1>8 DEF SlotInv

LEMMA SubmitStep == ASSUME IInv, NEW c \in Callers, Submit(c) PROVE IInv'
  <1>1. /\ pc[c] = "submit" /\ TypeInv
        /\ UNCHANGED <<granted, closed, adrift, held, alone>>
    BY IInvParts DEF Submit
  <1>2. PICK i \in DOMAIN statuses[c] :
             /\ statuses[c][i].status = "new"
             /\ IF free > 0
                  THEN /\ free' = free - 1
                       /\ tasks' = [tasks EXCEPT ![<<c, i>>] = Submitted(Deadline)]
                       /\ statuses' = [statuses EXCEPT ![c][i] = Entry("pending")]
                  ELSE /\ statuses' = [statuses EXCEPT ![c][i] = Entry("BUSY")]
                       /\ UNCHANGED <<free, tasks>>
             /\ pc' = [pc EXCEPT ![c] = IF i = Len(statuses[c]) THEN "gather" ELSE "submit"]
    BY DEF Submit, First
  <1>3. i \in Reads /\ <<c, i>> \in Ids /\ DOMAIN statuses[c] \subseteq Reads
    BY BatchFacts, IdsFacts, IInvParts
  <1>4. PICK p \in {"gather", "submit"} : pc' = [pc EXCEPT ![c] = p]
    BY <1>2
  <1>5. pc' \in [Callers -> CallerPCs] /\ pc'[c] = p /\ \A d \in Callers \ {c} : pc'[d] = pc[d]
    BY <1>1, <1>4 DEF TypeInv, CallerPCs
  <1>6. tasks[<<c, i>>].phase = "none" /\ tasks[<<c, Publication>>].phase = "none"
    BY <1>1, <1>2, <1>3, IInvParts DEF TasksOf
  <1>7. PICK e \in {"pending", "BUSY"} : /\ statuses' = [statuses EXCEPT ![c][i] = Entry(e)]
                                         /\ e = "pending" <=> free > 0
    BY <1>2
  <1>8. Entry(e) \in EntryType /\ Entry(e).status = e
    BY DEF Entry, EntryType, Failures
  <1>9. /\ statuses' \in [Callers -> BatchType]
        /\ DOMAIN statuses'[c] = DOMAIN statuses[c] /\ statuses'[c][i] = Entry(e)
        /\ \A j \in DOMAIN statuses[c] \ {i} : statuses'[c][j] = statuses[c][j]
        /\ \A d \in Callers \ {c} : statuses'[d] = statuses[d]
    BY <1>1, <1>7, <1>8, EntryReplaced
  <1>10. /\ SlotInv' /\ ResultsInv' /\ free' \in Nat /\ tasks' \in [Ids -> TaskType]
         /\ \A u \in Ids \ {<<c, i>>} : tasks'[u] = tasks[u]
         /\ tasks'[<<c, i>>].phase # "none" => e = "pending"
    <2>1. CASE free > 0
      <3>1. Deadline \in Int
        BY RegistryAssumption
      <3> QED
        BY <1>1, <1>2, <1>3, <1>6, <1>7, <2>1, <3>1, TakeSlot
    <2>2. CASE ~(free > 0)
      <3>1. UNCHANGED <<free, tasks>>
        BY <1>2, <2>2
      <3> QED
        BY <1>1, <1>6, <3>1, IInvParts DEF TypeInv, SlotInv, ResultsInv, RunningTasks
    <2> QED
      BY <2>1, <2>2
  <1>11. TypeInv'
    BY <1>1, <1>5, <1>9, <1>10 DEF TypeInv
  <1>12. ASSUME NEW d \in Callers PROVE TasksOf(d)' /\ GrantOf(d)'
    <2>1. CASE d = c
      <3>1. ASSUME NEW j \in Reads, tasks'[<<c, j>>].phase # "none"
            PROVE  j \in DOMAIN statuses'[c] /\ statuses'[c][j].status = "pending"
        <4>1. CASE j = i
          BY <1>8, <1>9, <1>10, <3>1, <4>1
        <4>2. CASE j # i
          <5>1. <<c, j>> \in Ids /\ <<c, j>> # <<c, i>>
            BY <4>2, IdsFacts
          <5>2. tasks[<<c, j>>].phase # "none"
            BY <1>10, <3>1, <5>1
          <5>3. j \in DOMAIN statuses[c] /\ statuses[c][j].status = "pending"
            BY <5>2, IInvParts DEF TasksOf
          <5> QED
            BY <1>9, <4>2, <5>3
        <4> QED
          BY <4>1, <4>2
      <3>2. tasks'[<<c, Publication>>].phase = "none"
        BY <1>3, <1>6, <1>10, IdsFacts
      <3> QED
        BY <1>5, <2>1, <3>1, <3>2 DEF TasksOf, GrantOf, Completed
    <2>2. CASE d # c
      <3>1. \A j \in Reads \cup {Publication} : tasks'[<<d, j>>] = tasks[<<d, j>>]
        BY <1>10, <2>2, IdsFacts
      <3> QED
        BY <1>1, <1>5, <1>9, <2>2, <3>1, OtherCaller
    <2> QED
      BY <2>1, <2>2
  <1>13. ASSUME Slots >= 2, NEW d \in Callers PROVE AloneOf(d)'
    <2> SUFFICES ASSUME alone[d] PROVE AloneOf(d)'
      BY <1>1 DEF AloneOf
    <2>1. d = c /\ AloneOf(c)
      BY <1>1, <1>13, NotAlone, IInvParts
    <2>2. e = "pending"
      BY <1>1, <1>2, <1>7, <1>13, <2>1, SlotLeft
    <2>3. Out(c)' = Out(c)
      BY <1>2, <1>8, <1>9, <2>2 DEF Out
    <2>4. \A j \in DOMAIN statuses'[c] : statuses'[c][j].status # "BUSY"
      BY <1>8, <1>9, <2>1, <2>2 DEF AloneOf
    <2> QED
      BY <1>1, <1>5, <2>1, <2>3, <2>4 DEF AloneOf
  <1> QED
    BY <1>10, <1>11, <1>12, <1>13 DEF IInv, Basis

\* What the end of waiting for a task leaves behind.
LEMMA AwaitedEnd ==
    ASSUME IInv, NEW t \in Ids, NEW entry, Awaited(t, entry)
    PROVE  /\ SlotInv' /\ ResultsInv' /\ free' = free /\ tasks' \in [Ids -> TaskType]
           /\ tasks'[t].phase = "none" /\ \A u \in Ids \ {t} : tasks'[u] = tasks[u]
           /\ adrift' \in Nat /\ adrift' \in {adrift, adrift + 1}
           /\ entry.status # "TIMEOUT" => adrift' = adrift
           /\ entry \in EntryType /\ entry.status \in {"OK", "DENIED", "ERROR", "TIMEOUT"}
           /\ entry.status = "OK" => tasks[t].phase \in Completed /\ tasks[t].status = "OK"
  <1>1. TypeInv /\ SlotInv /\ NoTask \in TaskType /\ NoTask.phase = "none"
    BY IInvParts, NewTasks
  <1>2. /\ "none" \notin Running /\ "released" \notin Running /\ "resolved" \notin Running
        /\ "none" \notin Completed /\ "resolved" \in Completed
    BY DEF Running, Completed
  <1>3. tasks' = [tasks EXCEPT ![t] = NoTask] /\ free' = free
    BY DEF Awaited, GiveUp
  <1>4. /\ tasks' \in [Ids -> TaskType] /\ tasks'[t] = NoTask
        /\ \A u \in Ids \ {t} : tasks'[u] = tasks[u]
    BY <1>1, <1>3 DEF TypeInv
  <1>5. ResultsInv'
    BY <1>1, <1>2, <1>4, IInvParts DEF ResultsInv
  <1>6. adrift' = adrift + (IF tasks[t].phase \in Running THEN 1 ELSE 0)
    <2>1. adrift \in Nat
      BY <1>1 DEF TypeInv
    <2> QED
      BY <1>2, <2>1 DEF Awaited, GiveUp
  <1>7. SlotInv' /\ adrift' \in Nat /\ adrift' \in {adrift, adrift + 1}
    <2> DEFINE a == Cardinality(RunningTasks)
               b == Cardinality(RunningTasks')
    <2>1. free \in Nat /\ adrift \in Nat
      BY <1>1 DEF TypeInv
    <2>2. IsFiniteSet(RunningTasks) /\ free + a + adrift = Slots
      BY <1>1 DEF SlotInv
    <2>3. IsFiniteSet(RunningTasks') /\ b \in Nat /\ a \in Nat
      BY <1>1, <1>3, <2>2, RunningChange
    <2>4. b = IF tasks[t].phase \in Running THEN a - 1 ELSE a
      BY <1>1, <1>2, <1>3, <2>2, RunningChange
    <2>5. free' + b + adrift' = Slots
      <3> HIDE DEF a, b
      <3> QED
        BY <1>3, <1>6, <2>1, <2>2, <2>3, <2>4
    <2>6. adrift' \in Nat /\ adrift' \in {adrift, adrift + 1}
      BY <1>6, <2>1
    <2> QED
      BY <2>3, <2>5, <2>6 DEF SlotInv
  <1>8. \A status \in {"OK", "DENIED", "ERROR", "TIMEOUT"} :
          Entry(status) \in EntryType /\ Entry(status).status = status
    BY DEF Entry, EntryType, Failures
  <1>9. CASE tasks[t].phase = "resolved" /\ entry = Accepted(tasks[t]) /\ adrift' = adrift
    <2>1. tasks[t].status \in {"OK", "DENIED", "ERROR"}
      BY <1>2, <1>9, IInvParts DEF ResultsInv
    <2>2. \/ entry = Entry("TIMEOUT")
          \/ entry = Entry(tasks[t].status)
      BY <1>9 DEF Accepted
    <2> QED
      BY <1>1, <1>2, <1>3, <1>4, <1>5, <1>7, <1>8, <1>9, <2>1, <2>2
  <1>10. CASE entry = Entry("TIMEOUT")
    BY <1>1, <1>3, <1>4, <1>5, <1>7, <1>8, <1>10
  <1> QED
    BY <1>9, <1>10 DEF Awaited

LEMMA GatherStep == ASSUME IInv, NEW c \in Callers, Gather(c) PROVE IInv'
  <1>1. pc[c] = "gather" /\ TypeInv /\ UNCHANGED <<granted, closed, pc, held, alone>>
    BY IInvParts DEF Gather
  <1>0. PICK i \in DOMAIN statuses[c] : \E entry :
             /\ statuses[c][i].status = "pending"
             /\ Awaited(<<c, i>>, entry)
             /\ statuses' = [statuses EXCEPT ![c][i] = entry]
    BY DEF Gather, First
  <1>2. PICK entry :
             /\ statuses[c][i].status = "pending"
             /\ Awaited(<<c, i>>, entry)
             /\ statuses' = [statuses EXCEPT ![c][i] = entry]
    BY <1>0
  <1>3. i \in Reads /\ <<c, i>> \in Ids /\ DOMAIN statuses[c] \subseteq Reads
    BY BatchFacts, IdsFacts, IInvParts
  <1>4. /\ SlotInv' /\ ResultsInv' /\ free' = free /\ tasks' \in [Ids -> TaskType]
        /\ tasks'[<<c, i>>].phase = "none" /\ \A u \in Ids \ {<<c, i>>} : tasks'[u] = tasks[u]
        /\ adrift' \in Nat /\ adrift' \in {adrift, adrift + 1}
        /\ entry.status # "TIMEOUT" => adrift' = adrift
        /\ entry \in EntryType /\ entry.status \in {"OK", "DENIED", "ERROR", "TIMEOUT"}
    BY <1>2, <1>3, AwaitedEnd
  <1>5. /\ statuses' \in [Callers -> BatchType]
        /\ DOMAIN statuses'[c] = DOMAIN statuses[c] /\ statuses'[c][i] = entry
        /\ \A j \in DOMAIN statuses[c] \ {i} : statuses'[c][j] = statuses[c][j]
        /\ \A d \in Callers \ {c} : statuses'[d] = statuses[d]
    BY <1>1, <1>2, <1>4, EntryReplaced
  <1>6. TypeInv'
    BY <1>1, <1>4, <1>5 DEF TypeInv
  <1>7. ASSUME NEW d \in Callers PROVE TasksOf(d)' /\ GrantOf(d)'
    <2>1. CASE d = c
      <3>1. ASSUME NEW j \in Reads, tasks'[<<c, j>>].phase # "none"
            PROVE  j \in DOMAIN statuses'[c] /\ statuses'[c][j].status = "pending"
        <4>1. j # i
          BY <1>4, <3>1
        <4>2. <<c, j>> \in Ids /\ <<c, j>> # <<c, i>>
          BY <4>1, IdsFacts
        <4>3. tasks[<<c, j>>].phase # "none"
          BY <1>4, <3>1, <4>2
        <4>4. j \in DOMAIN statuses[c] /\ statuses[c][j].status = "pending"
          BY <4>3, IInvParts DEF TasksOf
        <4> QED
          BY <1>5, <4>1, <4>4
      <3>2. tasks'[<<c, Publication>>].phase = "none"
        <4>1. tasks[<<c, Publication>>].phase = "none"
          BY <1>1, IInvParts DEF TasksOf
        <4> QED
          BY <1>3, <1>4, <4>1, IdsFacts
      <3> QED
        BY <1>1, <2>1, <3>1, <3>2 DEF TasksOf, GrantOf, Completed
    <2>2. CASE d # c
      <3>1. \A j \in Reads \cup {Publication} : tasks'[<<d, j>>] = tasks[<<d, j>>]
        BY <1>4, <2>2, IdsFacts
      <3> QED
        BY <1>1, <1>5, <2>2, <3>1, OtherCaller
    <2> QED
      BY <2>1, <2>2
  <1>8. ASSUME Slots >= 2, NEW d \in Callers PROVE AloneOf(d)'
    <2> SUFFICES ASSUME alone[d] PROVE AloneOf(d)'
      BY <1>1 DEF AloneOf
    <2>1. d = c /\ AloneOf(c)
      BY <1>1, <1>8, NotAlone, IInvParts
    <2>2. \A j \in DOMAIN statuses'[c] : statuses'[c][j].status # "BUSY"
      BY <1>4, <1>5, <2>1 DEF AloneOf
    <2>3. (Out(c) = {} => adrift = 0) /\ (Out(c) # {1, 2} => adrift <= 1)
      BY <1>1, <2>1 DEF AloneOf
    <2>4. Out(c)' = IF entry.status = "TIMEOUT" THEN Out(c) \cup {i} ELSE Out(c)
      BY <1>2, <1>5 DEF Out
    <2>5. i \notin Out(c) /\ Out(c) \subseteq {1, 2} /\ i \in {1, 2}
      <3>1. Reads = {1, 2}
        BY DEF Reads
      <3> QED
        BY <1>2, <1>3, <3>1 DEF Out
    <2>6. (Out(c)' = {} => adrift' = 0) /\ (Out(c)' # {1, 2} => adrift' <= 1)
      <3>1. CASE entry.status # "TIMEOUT"
        BY <1>4, <2>3, <2>4, <3>1
      <3>2. CASE entry.status = "TIMEOUT" /\ Out(c) = {}
        BY <1>4, <2>3, <2>4, <3>2
      <3>3. CASE entry.status = "TIMEOUT" /\ Out(c) # {}
        BY <2>4, <2>5, <3>3
      <3> QED
        BY <3>1, <3>2, <3>3
    <2> QED
      BY <1>1, <2>1, <2>2, <2>6 DEF AloneOf
  <1> QED
    BY <1>4, <1>6, <1>7, <1>8 DEF IInv, Basis

LEMMA PublishStep == ASSUME IInv, NEW c \in Callers, Publish(c) PROVE IInv'
  <1>1. /\ pc[c] = "gather" /\ TypeInv /\ statuses[c] \in BatchType
        /\ UNCHANGED <<granted, closed, adrift, alone>>
        /\ \A i \in DOMAIN statuses[c] : statuses[c][i].status # "pending"
    BY IInvParts DEF Publish, Gathered
  <1>2. \A i \in Reads \cup {Publication} : tasks[<<c, i>>].phase = "none"
    BY <1>1, IInvParts DEF TasksOf
  <1>3. Slots >= 2 /\ alone[c] =>
          ~closed /\ \A i \in DOMAIN statuses[c] : statuses[c][i].status # "BUSY"
    BY IInvParts DEF AloneOf
  <1>4. held \in [Callers -> BOOLEAN] /\ alone \in [Callers -> BOOLEAN]
    BY <1>1 DEF TypeInv
  <1>5. CASE ~Found(c) /\ Return(c, statuses[c]) /\ UNCHANGED <<free, tasks, held>>
    BY <1>1, <1>2, <1>3, <1>4, <1>5, EndStep DEF Return, Found
  <1>6. CASE /\ Found(c) /\ (closed \/ free = 0)
             /\ Return(c, Checked(statuses[c], "BUSY")) /\ UNCHANGED <<free, tasks, held>>
    <2>1. ~(Slots >= 2 /\ alone[c])
      <3> SUFFICES ASSUME Slots >= 2, alone[c] PROVE FALSE
        OBVIOUS
      <3>1. PICK i \in DOMAIN statuses[c] : statuses[c][i].status = "OK"
        BY <1>6 DEF Found
      <3>2. free > 0
        BY <1>1, <3>1, SlotLeft
      <3> QED
        BY <1>3, <1>6, <3>2
    <2> DEFINE b == Checked(statuses[c], "BUSY")
    <2>2. b \in BatchType /\ \A i \in DOMAIN b : b[i].status # "OK"
      <3>1. "BUSY" \in {"OK"} \cup Failures
        BY DEF Failures
      <3> QED
        BY <1>1, <3>1, CheckedFacts
    <2>3. statuses' = [statuses EXCEPT ![c] = b] /\ pc' = [pc EXCEPT ![c] = "returned"]
      BY <1>6 DEF Return
    <2> HIDE DEF b
    <2> QED
      BY <1>1, <1>2, <1>4, <1>6, <2>1, <2>2, <2>3, EndStep
  <1>7. CASE /\ Found(c) /\ free > 0 /\ free' = free - 1
             /\ tasks' = [tasks EXCEPT ![<<c, Publication>>] = Submitted(Refresh)]
             /\ pc' = [pc EXCEPT ![c] = "check"]
             /\ held' = [held EXCEPT ![c] = granted]
             /\ UNCHANGED statuses
    <2>1. /\ pc' \in [Callers -> CallerPCs] /\ pc'[c] = "check"
          /\ held' \in [Callers -> BOOLEAN] /\ held'[c] = granted
          /\ \A d \in Callers \ {c} : pc'[d] = pc[d] /\ held'[d] = held[d]
      BY <1>1, <1>7 DEF TypeInv, CallerPCs
    <2>2. /\ SlotInv' /\ ResultsInv' /\ free' \in Nat /\ tasks' \in [Ids -> TaskType]
          /\ tasks'[<<c, Publication>>].phase = "submitted"
          /\ \A u \in Ids \ {<<c, Publication>>} : tasks'[u] = tasks[u]
      <3>1. Refresh \in Int
        BY RegistryAssumption
      <3> QED
        BY <1>1, <1>2, <1>7, <3>1, IdsFacts, TakeSlot
    <2>3. TypeInv'
      BY <1>1, <1>7, <2>1, <2>2 DEF TypeInv
    <2>4. ASSUME NEW d \in Callers PROVE TasksOf(d)' /\ GrantOf(d)'
      <3>1. CASE d = c
        <4>1. \A i \in Reads : tasks'[<<c, i>>].phase = "none"
          BY <1>2, <2>2, IdsFacts
        <4> QED
          BY <1>1, <2>1, <2>2, <3>1, <4>1 DEF TasksOf, GrantOf, Completed
      <3>2. CASE d # c
        <4>1. \A j \in Reads \cup {Publication} : tasks'[<<d, j>>] = tasks[<<d, j>>]
          BY <2>2, <3>2, IdsFacts
        <4> QED
          BY <1>1, <1>7, <2>1, <3>2, <4>1, OtherCaller
      <3> QED
        BY <3>1, <3>2
    <2>5. ASSUME Slots >= 2, NEW d \in Callers PROVE AloneOf(d)'
      <3> SUFFICES ASSUME alone[d] PROVE AloneOf(d)'
        BY <1>1 DEF AloneOf
      <3>1. d = c /\ AloneOf(c)
        BY <1>1, <2>5, NotAlone, IInvParts
      <3> QED
        BY <1>1, <1>7, <2>1, <3>1 DEF AloneOf
    <2> QED
      BY <2>2, <2>3, <2>4, <2>5 DEF IInv, Basis
  <1> QED
    BY <1>5, <1>6, <1>7 DEF Publish

LEMMA CheckStep == ASSUME IInv, NEW c \in Callers, Check(c) PROVE IInv'
  <1>1. /\ pc[c] = "check" /\ TypeInv /\ statuses[c] \in BatchType
        /\ UNCHANGED <<granted, closed, held, alone>>
    BY IInvParts DEF Check
  <1>2. PICK entry \in Endings(<<c, Publication>>) :
             Awaited(<<c, Publication>>, entry) /\ Return(c, Checked(statuses[c], entry.status))
    BY DEF Check
  <1>3. <<c, Publication>> \in Ids
    BY IdsFacts
  <1>4. /\ SlotInv' /\ ResultsInv' /\ free' = free /\ tasks' \in [Ids -> TaskType]
        /\ tasks'[<<c, Publication>>].phase = "none"
        /\ \A u \in Ids \ {<<c, Publication>>} : tasks'[u] = tasks[u]
        /\ adrift' \in Nat
        /\ entry.status \in {"OK", "DENIED", "ERROR", "TIMEOUT"}
        /\ entry.status = "OK" => /\ tasks[<<c, Publication>>].phase \in Completed
                                  /\ tasks[<<c, Publication>>].status = "OK"
    BY <1>2, <1>3, AwaitedEnd
  <1>5. entry.status = "OK" => held[c]
    BY <1>4, IInvParts DEF GrantOf
  <1> DEFINE b == Checked(statuses[c], entry.status)
  <1>6. /\ b \in BatchType /\ DOMAIN b = DOMAIN statuses[c]
        /\ entry.status # "OK" => \A i \in DOMAIN statuses[c] : b[i].status # "OK"
        /\ \A i \in DOMAIN statuses[c] : statuses[c][i].status # "BUSY" => b[i].status # "BUSY"
    <2>1. entry.status \in {"OK"} \cup Failures /\ entry.status # "BUSY"
      BY <1>4 DEF Failures
    <2> QED
      BY <1>1, <2>1, CheckedFacts
  <1>7. statuses' = [statuses EXCEPT ![c] = b] /\ pc' = [pc EXCEPT ![c] = "returned"]
    BY <1>2 DEF Return
  <1> HIDE DEF b
  <1>8. /\ statuses' \in [Callers -> BatchType] /\ statuses'[c] = b
        /\ pc' \in [Callers -> CallerPCs] /\ pc'[c] = "returned"
        /\ \A d \in Callers \ {c} : pc'[d] = pc[d] /\ statuses'[d] = statuses[d]
    BY <1>1, <1>6, <1>7 DEF TypeInv, CallerPCs
  <1>9. TypeInv'
    BY <1>1, <1>4, <1>8 DEF TypeInv
  <1>10. ASSUME NEW d \in Callers PROVE TasksOf(d)' /\ GrantOf(d)'
    <2>1. CASE d = c
      <3>1. \A i \in Reads : tasks'[<<c, i>>].phase = "none"
        <4>1. \A i \in Reads : tasks[<<c, i>>].phase = "none"
          BY <1>1, IInvParts DEF TasksOf
        <4> QED
          BY <1>4, <4>1, IdsFacts
      <3>2. (\E i \in DOMAIN b : b[i].status = "OK") => held[c]
        BY <1>5, <1>6
      <3> QED
        BY <1>1, <1>4, <1>8, <2>1, <3>1, <3>2 DEF TasksOf, GrantOf, Found, Completed
    <2>2. CASE d # c
      <3>1. \A j \in Reads \cup {Publication} : tasks'[<<d, j>>] = tasks[<<d, j>>]
        BY <1>4, <2>2, IdsFacts
      <3> QED
        BY <1>1, <1>8, <2>2, <3>1, OtherCaller
    <2> QED
      BY <2>1, <2>2
  <1>11. ASSUME Slots >= 2, NEW d \in Callers PROVE AloneOf(d)'
    <2> SUFFICES ASSUME alone[d] PROVE AloneOf(d)'
      BY <1>1 DEF AloneOf
    <2>1. d = c /\ AloneOf(c)
      BY <1>1, <1>11, NotAlone, IInvParts
    <2> QED
      BY <1>1, <1>6, <1>8, <2>1 DEF AloneOf
  <1> QED
    BY <1>4, <1>9, <1>10, <1>11 DEF IInv, Basis

LEMMA NextIInv == IInv /\ [Next]_vars => IInv'
  <1> SUFFICES ASSUME IInv, [Next]_vars PROVE IInv'
    OBVIOUS
  <1>1. CASE UNCHANGED vars
    BY <1>1 DEF vars, IInv, Basis, TypeInv, SlotInv, RunningTasks, ResultsInv, TasksOf, GrantOf,
                Found, AloneOf, Out
  <1>2. ASSUME NEW c \in Callers, Dispatch(c) \/ DispatchUncharged(c) \/ Caller(c) \/ Leave(c) \/ Close(c)
        PROVE  IInv'
    BY <1>2, DispatchStep, DispatchUnchargedStep, SubmitStep, GatherStep, PublishStep, CheckStep,
       LeaveStep, CloseStep DEF Caller
  <1> QED
    BY <1>1, <1>2, WorkStep, DriftStep, TickStep, RegrantStep DEF Next

---------------------------------------------------------------------------
(***************************************************************************)
(* Theorems                                                                *)
(***************************************************************************)

(* Every reachable state accounts for all slots and for the grant behind   *)
(* every result.                                                           *)
THEOREM Inductive == Spec => []IInv
  BY InitIInv, NextIInv, PTL DEF Spec

(* The semaphore is never released beyond its bound, and never taken below *)
(* zero, however reads time out, are given up and end later.               *)
THEOREM SemaphoreBounded == Spec => []TypeOK
  <1>1. IInv => TypeOK
    BY IInvBounds DEF IInv, Basis, TypeInv, TypeOK, TaskType, CallerPCs
  <1> QED
    BY <1>1, Inductive, PTL

(* Whatever times out, the threads that run never outnumber the pool: a    *)
(* read that was given up keeps its slot, and no read waits in a queue.    *)
THEOREM PoolNeverOversubscribed == Spec => []NoHiddenQueue
  BY Inductive, IInvBounds, PTL

(* A batch is returned with a successful read only if that read was in     *)
(* time and the grant was held after all of the batch was gathered.        *)
THEOREM OnlyTimelyAndGranted == Spec => []ReturnedInTimeAndGranted
  <1>1. IInv => ReturnedInTimeAndGranted
    <2> SUFFICES ASSUME IInv, NEW c \in Callers, pc[c] = "returned"
                 PROVE  /\ \A i \in DOMAIN statuses[c] : ~statuses[c][i].late
                        /\ Found(c) => held[c]
      BY DEF ReturnedInTimeAndGranted
    <2> QED
      BY IInvParts, BatchFacts DEF GrantOf
  <1> QED
    BY <1>1, Inductive, PTL

(* A batch of at most two reads that has the registry to itself, with the  *)
(* two slots of the code or more, is never told BUSY, not even by the      *)
(* check that follows reads that timed out.                                *)
THEOREM AloneNeverBusy == ASSUME Slots >= 2 PROVE Spec => []NeverBusyAlone
  <1>1. IInv => NeverBusyAlone
    BY IInvParts DEF AloneOf, NeverBusyAlone
  <1> QED
    BY <1>1, Inductive, PTL
=============================================================================
