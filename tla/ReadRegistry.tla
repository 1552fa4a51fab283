--------------------------- MODULE ReadRegistry ----------------------------
(***************************************************************************)
(* The dispatcher of read batches: a pool of threads, a semaphore with as  *)
(* many slots, a deadline per read that limits only how long its caller    *)
(* waits, and a last identity check before anything is returned.           *)
(*                                                                         *)
(* A read that is given up keeps running, and keeps its slot, until its    *)
(* transport returns.  Time is a countdown per task: its deadline is when  *)
(* left is 0, and it is past when left is -1.                              *)
(***************************************************************************)
EXTENDS Integers, Sequences, FiniteSets

CONSTANTS Callers,    \* threads that dispatch batches
          Slots,      \* 2 in the code, for the pool and the semaphore
          Deadline,   \* what a read may take
          Refresh,    \* what the publication check may take
          Raised,     \* what a handler or an identity refresh that raises ends as
          MaxBatch    \* the most reads each caller asks for at once, at most 2

ASSUME RegistryAssumption ==
    /\ {Slots, Deadline, Refresh} \subseteq Nat /\ Slots > 0
    /\ Raised \subseteq {"ERROR", "DENIED"} 
    /\ MaxBatch \in [Callers -> 1..2]

VARIABLES granted,    \* the responder's grant is current
          closed,
          free,       \* the semaphore
          tasks,      \* the submitted tasks of each caller's current batch
          adrift,     \* number of tasks that were given up and still hold a slot
          pc,
          statuses,   \* the caller's batch, as far as it is gathered
          held,       \* the grant was held since all of the batch was gathered (history)
          alone       \* nothing else used the registry during the batch (history)

vars == <<granted, closed, free, tasks, adrift, pc, statuses, held, alone>>

Failures == {"DENIED", "TIMEOUT", "ERROR", "BUSY"}

\* Positions of a batch, and the position of its publication check.
Reads == 1..2
Publication == 3
Ids == Callers \X (Reads \cup {Publication})

NoTask == [phase |-> "none", left |-> 0, status |-> "BUSY", late |-> FALSE]
Submitted(left) == [NoTask EXCEPT !.phase = "submitted", !.left = left]

\* Phases in which a task occupies a slot.
Running == {"submitted", "reading", "finished"}

---------------------------------------------------------------------------
(***************************************************************************)
(* The threads of the pool                                                 *)
(***************************************************************************)

Move(t, task) ==
    /\ tasks' = [tasks EXCEPT ![t] = task]
    /\ UNCHANGED <<granted, closed, adrift, pc, statuses, held, alone>>

\* The completion carries its own time: a caller that looks late can tell.
Finished(task, status) ==
    [task EXCEPT !.phase = "finished", !.status = status, !.late = (task.left < 0)]

\* The first identity refresh; of the publication check it is all there is.
Authorize(t) ==
    LET task == tasks[t] IN
    /\ task.phase = "submitted"
    /\ \/ \E failure \in Raised : Move(t, Finished(task, failure))
       \/ /\ ~granted
          /\ Move(t, Finished(task, "DENIED"))
       \/ /\ granted
          /\ Move(t, IF t[2] = Publication THEN Finished(task, "OK")
                                           ELSE [task EXCEPT !.phase = "reading"])
    /\ UNCHANGED free

\* What a handler ends in: evidence that it normalised and verified, or what it raised.
Handled == Raised \cup {"OK"}

\* The handler, and the second identity refresh: late revocation discards the whole result.
Read(t) ==
    /\ tasks[t].phase = "reading"
    /\ \E handled \in Handled :
         Move(t, Finished(tasks[t], IF handled = "OK" /\ ~granted THEN "DENIED" ELSE handled))
    /\ UNCHANGED free

\* Mutant of Release: the result is visible before the slot is back.
ReleaseLast(t) ==
    /\ tasks[t].phase = "finished"
    /\ tasks' = [tasks EXCEPT ![t].phase = "resolved"]
    /\ adrift' = adrift + 1
    /\ UNCHANGED <<granted, closed, free, pc, statuses, held, alone>>

\* finally: the slot is back before the future has its result.
Release(t) ==
    /\ tasks[t].phase = "finished"
    /\ Move(t, [tasks[t] EXCEPT !.phase = "released"])
    /\ free' = free + 1

Resolve(t) ==
    /\ tasks[t].phase = "released"
    /\ Move(t, [tasks[t] EXCEPT !.phase = "resolved"])
    /\ UNCHANGED free

Work(t) == Authorize(t) \/ Read(t) \/ Release(t) \/ Resolve(t)

\* A task that was given up comes to its end.
Drift ==
    /\ adrift > 0
    /\ adrift' = adrift - 1
    /\ free' = free + 1
    /\ UNCHANGED <<granted, closed, tasks, pc, statuses, held, alone>>

---------------------------------------------------------------------------
(***************************************************************************)
(* dispatch                                                                *)
(***************************************************************************)

Entry(status) == [status |-> status, late |-> FALSE]

Return(c, batch) ==
    /\ statuses' = [statuses EXCEPT ![c] = batch]
    /\ pc' = [pc EXCEPT ![c] = "returned"]

\* dispatch holds the lock until the whole batch is submitted.
Unlocked == \A d \in Callers : pc[d] # "submit"

\* The batch is charged before any of it is submitted.
Dispatch(c) ==
    /\ pc[c] = "idle"
    /\ Unlocked /\ ~closed
    /\ \E n \in 1..MaxBatch[c] : statuses' = [statuses EXCEPT ![c] = [i \in 1..n |-> Entry("new")]]
    /\ pc' = [pc EXCEPT ![c] = "submit"]
    /\ alone' = [d \in Callers |->
                    d = c /\ free = Slots /\ \A e \in Callers : pc[e] \in {"idle", "returned"}]
    /\ UNCHANGED <<granted, closed, free, tasks, adrift, held>>

\* The first read of a batch that has this status.
First(batch, status, i) ==
    /\ batch[i].status = status
    /\ \A j \in 1..(i - 1) : batch[j].status # status

\* Mutant of Submit: a read that finds no slot is queued by the pool.
SubmitQueued(c) ==
    /\ pc[c] = "submit"
    /\ \E i \in DOMAIN statuses[c] :
         /\ First(statuses[c], "new", i)
         /\ free' = IF free > 0 THEN free - 1 ELSE 0
         /\ tasks' = [tasks EXCEPT ![<<c, i>>] = Submitted(Deadline)]
         /\ statuses' = [statuses EXCEPT ![c][i] = Entry("pending")]
         /\ pc' = [pc EXCEPT ![c] = IF i = Len(statuses[c]) THEN "gather" ELSE "submit"]
    /\ UNCHANGED <<granted, closed, adrift, held, alone>>

\* _submit: a read gets a slot at once or is BUSY; slots may come back between two reads.
Submit(c) ==
    /\ pc[c] = "submit"
    /\ \E i \in DOMAIN statuses[c] :
         /\ First(statuses[c], "new", i)
         /\ IF free > 0
              THEN /\ free' = free - 1
                   /\ tasks' = [tasks EXCEPT ![<<c, i>>] = Submitted(Deadline)]
                   /\ statuses' = [statuses EXCEPT ![c][i] = Entry("pending")]
              ELSE /\ statuses' = [statuses EXCEPT ![c][i] = Entry("BUSY")]
                   /\ UNCHANGED <<free, tasks>>
         /\ pc' = [pc EXCEPT ![c] = IF i = Len(statuses[c]) THEN "gather" ELSE "submit"]
    /\ UNCHANGED <<granted, closed, adrift, held, alone>>

\* A batch that the ledger does not charge is not submitted.
DispatchUncharged(c) ==
    /\ pc[c] = "idle"
    /\ Unlocked /\ ~closed
    /\ \E n \in 1..MaxBatch[c] : Return(c, [i \in 1..n |-> Entry("BUDGET_EXHAUSTED")])
    /\ UNCHANGED <<granted, closed, free, tasks, adrift, held, alone>>

\* Mutant of Accepted: whatever the future holds is accepted.
AcceptedAlways(task) == [status |-> task.status, late |-> task.late]

\* _result: a completion after the deadline counts as a timeout.
Accepted(task) == IF task.late THEN Entry("TIMEOUT") ELSE Entry(task.status)

\* Waiting ends at the deadline; the thread goes on.
GiveUp(t) ==
    /\ tasks[t].phase \in Running \cup {"released"}
    /\ tasks[t].left <= 0
    /\ tasks' = [tasks EXCEPT ![t] = NoTask]
    /\ adrift' = adrift + (IF tasks[t].phase \in Running THEN 1 ELSE 0)
    /\ UNCHANGED free

\* Mutant of Awaited: the future is awaited without a timeout.
AwaitedForever(t, entry) ==
    /\ tasks[t].phase = "resolved"
    /\ entry = Accepted(tasks[t])
    /\ tasks' = [tasks EXCEPT ![t] = NoTask]
    /\ UNCHANGED <<free, adrift>>

\* One future.result: its value, or a timeout.
Awaited(t, entry) ==
    \/ /\ tasks[t].phase = "resolved"
       /\ entry = Accepted(tasks[t])
       /\ tasks' = [tasks EXCEPT ![t] = NoTask]
       /\ UNCHANGED <<free, adrift>>
    \/ /\ GiveUp(t)
       /\ entry = Entry("TIMEOUT")

\* What waiting for a task may come to.
Endings(t) == {Accepted(tasks[t]), Entry("TIMEOUT")}

\* Results are gathered in the order of the batch.
Gather(c) ==
    /\ pc[c] = "gather"
    /\ \E i \in DOMAIN statuses[c] : \E entry \in Endings(<<c, i>>) :
         /\ First(statuses[c], "pending", i)
         /\ Awaited(<<c, i>>, entry)
         /\ statuses' = [statuses EXCEPT ![c][i] = entry]
    /\ UNCHANGED <<granted, closed, pc, held, alone>>

Gathered(c) == pc[c] = "gather" /\ \A i \in DOMAIN statuses[c] : statuses[c][i].status # "pending"
Found(c) == \E i \in DOMAIN statuses[c] : statuses[c][i].status = "OK"

\* No successful sibling survives a check that did not succeed.
Checked(batch, status) ==
    [i \in DOMAIN batch |->
        IF batch[i].status = "OK" /\ status # "OK" THEN [batch[i] EXCEPT !.status = status]
                                                   ELSE batch[i]]

\* The publication check takes a slot like a read, unless nothing was found.
Publish(c) ==
    /\ Gathered(c)
    /\ \/ /\ ~Found(c)
          /\ Return(c, statuses[c])
          /\ UNCHANGED <<free, tasks, held>>
       \/ /\ Found(c)
          /\ Unlocked
          /\ closed \/ free = 0
          /\ Return(c, Checked(statuses[c], "BUSY"))
          /\ UNCHANGED <<free, tasks, held>>
       \/ /\ Found(c)
          /\ Unlocked
          /\ ~closed /\ free > 0
          /\ free' = free - 1
          /\ tasks' = [tasks EXCEPT ![<<c, Publication>>] = Submitted(Refresh)]
          /\ pc' = [pc EXCEPT ![c] = "check"]
          /\ held' = [held EXCEPT ![c] = granted]
          /\ UNCHANGED statuses
    /\ UNCHANGED <<granted, closed, adrift, alone>>

Check(c) ==
    /\ pc[c] = "check"
    /\ \E entry \in Endings(<<c, Publication>>) :
         /\ Awaited(<<c, Publication>>, entry)
         /\ Return(c, Checked(statuses[c], entry.status))
    /\ UNCHANGED <<granted, closed, held, alone>>

\* The caller has its results.
Leave(c) ==
    /\ pc[c] = "returned"
    /\ pc' = [pc EXCEPT ![c] = "idle"]
    /\ statuses' = [statuses EXCEPT ![c] = <<>>]
    /\ held' = [held EXCEPT ![c] = FALSE]
    /\ alone' = [alone EXCEPT ![c] = FALSE]
    /\ UNCHANGED <<granted, closed, free, tasks, adrift>>

\* close: no further dispatch; threads that run are not waited for.
Close(c) ==
    /\ pc[c] = "idle"
    /\ Unlocked /\ ~closed
    /\ closed' = TRUE
    /\ alone' = [d \in Callers |-> FALSE]
    /\ UNCHANGED <<granted, free, tasks, adrift, pc, statuses, held>>

---------------------------------------------------------------------------
Tick ==
    /\ \E t \in Ids : tasks[t].phase # "none" /\ tasks[t].left > -1
    /\ tasks' = [t \in Ids |-> IF tasks[t].phase # "none" /\ tasks[t].left > -1
                                 THEN [tasks[t] EXCEPT !.left = @ - 1] ELSE tasks[t]]
    /\ UNCHANGED <<granted, closed, free, adrift, pc, statuses, held, alone>>

Regrant ==
    /\ granted' = ~granted
    /\ held' = [c \in Callers |-> held[c] \/ (pc[c] = "check" /\ granted')]
    /\ UNCHANGED <<closed, free, tasks, adrift, pc, statuses, alone>>

Init ==
    /\ granted = TRUE
    /\ closed = FALSE
    /\ free = Slots
    /\ tasks = [t \in Ids |-> NoTask]
    /\ adrift = 0
    /\ pc = [c \in Callers |-> "idle"]
    /\ statuses = [c \in Callers |-> <<>>]
    /\ held = [c \in Callers |-> FALSE]
    /\ alone = [c \in Callers |-> FALSE]

Caller(c) == Submit(c) \/ Gather(c) \/ Publish(c) \/ Check(c)

Next ==
    \/ \E c \in Callers : Dispatch(c) \/ DispatchUncharged(c) \/ Caller(c)
                          \/ Leave(c) \/ Close(c)
    \/ \E t \in Ids : Work(t)
    \/ Drift \/ Tick \/ Regrant

Spec == Init /\ [][Next]_vars

\* Time passes, callers run, and a waiter gets a lock that is released again and
\* again; nothing is assumed of transports.
FairSpec ==
    /\ Spec
    /\ WF_vars(Tick)
    /\ \A c \in Callers : WF_vars(Caller(c)) /\ SF_vars(Publish(c))

---------------------------------------------------------------------------
(***************************************************************************)
(* Properties                                                              *)
(***************************************************************************)

(* The semaphore stays within its bound (a BoundedSemaphore raises when it *)
(* is released too often), and the rest of the state has its type.         *)
TypeOK ==
    /\ free \in 0..Slots
    /\ adrift \in Nat
    /\ tasks \in [Ids -> [phase : Running \cup {"none", "released", "resolved"}, left : Int,
                          status : {"OK"} \cup Failures, late : BOOLEAN]]
    /\ pc \in [Callers -> {"idle", "submit", "gather", "check", "returned"}]

(* "Timed-out work retains its slot until completion, preventing an        *)
(* unbounded task queue": threads that run, given up or not, never         *)
(* outnumber the pool.                                                     *)
NoHiddenQueue == Cardinality({t \in Ids : tasks[t].phase \in Running}) + adrift <= Slots

(* "No late result can enter the returned batch": a read is returned as OK *)
(* only if it completed within its deadline, whenever its caller looked.   *)
(* "No successful sibling survives a revoked or unavailable final          *)
(* publication grant": when a batch with a successful read is returned,    *)
(* the grant was held at some moment after all of it was gathered.         *)
ReturnedInTimeAndGranted ==
    \A c \in Callers : pc[c] = "returned" =>
        /\ \A i \in DOMAIN statuses[c] : statuses[c][i].status = "OK" => ~statuses[c][i].late
        /\ Found(c) => held[c]

(* A batch that finds the registry unused and has it to itself, as every    *)
(* batch of the loop does, gets its slots, the one for the publication     *)
(* check included: even its own reads that were given up leave it one.     *)
NeverBusyAlone ==
    \A c \in Callers : alone[c] => \A i \in DOMAIN statuses[c] : statuses[c][i].status # "BUSY"

(* dispatch returns although no transport ever does; and a closed registry *)
(* gets all its slots back if every transport returns, as each of them,    *)
(* having a timeout of its own, does.                                      *)
RegistryReturns ==
    /\ \A c \in Callers : pc[c] = "submit" ~> pc[c] = "returned"
    /\ WF_vars(Drift \/ \E t \in Ids : Work(t)) => (closed ~> free = Slots)
=============================================================================
