--------------------------- MODULE MemoryEvidence ---------------------------
(***************************************************************************)
(* Concurrent memory work of the payments service (sandbox/                *)
(* concurrency_memory.py) and the judgement of its log                     *)
(* (scenarios/concurrency_evidence.py): which executions the validator     *)
(* takes for a serial control, and which for simultaneous allocations.     *)
(* A kill between two lines leaves the log as an exception that loses the  *)
(* release does, so it has no action of its own.                           *)
(***************************************************************************)
EXTENDS Naturals, Sequences, FiniteSets, SequencesExt

CONSTANTS Requests,     \* the sample ids of the workload, one request each
          MaxActive,    \* MAX_ACTIVE
          MinAllocated  \* the simultaneous allocations a parallel run must show

\* validate_events takes a workload of eight distinct samples.
ASSUME MemoryAssumption ==
  IsFiniteSet(Requests) /\ Requests # {} /\ MaxActive \in Nat /\ MinAllocated \in Nat

VARIABLES work,          \* per request: waiting, holding, over or refused
          active,        \* self.active
          memoryClosed,  \* self.closed
          log,           \* the records printed
          overlapped,    \* two requests held a slot at once (history)
          most,          \* the most requests that held memory at once (history)
          early,         \* the requests released before a full hold (history)
          lost           \* the requests one of whose records raised and left no line (history)

memoryVars == <<work, active, memoryClosed, log, overlapped, most, early, lost>>

MemoryInit ==
  /\ work = [q \in Requests |-> "waiting"]
  /\ active = 0 /\ memoryClosed = FALSE /\ log = <<>>
  /\ overlapped = FALSE /\ most = 0 /\ early = {} /\ lost = {}

\* `held` tells whether a release came a full hold after the allocation.
Record(q, phase, n, held) == [sample |-> q, phase |-> phase, active |-> n, held |-> held]

\* The records up to the hold, with the slot taken.
Entry(q) == <<Record(q, "admitted", active + 1, FALSE), Record(q, "allocated", active + 1, FALSE)>>

\* The checks before the slot: closed, full, or validate_container raises.
RefuseMemory(q) ==
  /\ work[q] = "waiting"
  /\ work' = [work EXCEPT ![q] = "refused"]
  /\ UNCHANGED <<active, memoryClosed, log, overlapped, most, early, lost>>

\* The slot is free to take; no await separates the check and the increment.
Admissible(q) == work[q] = "waiting" /\ ~memoryClosed /\ active < MaxActive

\* q holds memory beside the `active` requests that already do.
Loads == most' = IF active + 1 > most THEN active + 1 ELSE most

\* run as far as its only await.
AdmitMemory(q) ==
  /\ Admissible(q)
  /\ work' = [work EXCEPT ![q] = "holding"]
  /\ active' = active + 1
  /\ log' = log \o Entry(q)
  /\ overlapped' = (overlapped \/ active > 0)
  /\ Loads
  /\ UNCHANGED <<memoryClosed, early, lost>>

\* run that raises before its await: a record, with or without its line printed, the
\* allocation, or the two seconds are over; the slot goes back and the release is recorded,
\* which may raise as well.  Only a print that blocks lets such a request hold a full second.
FailMemory(q) ==
  /\ Admissible(q)
  /\ work' = [work EXCEPT ![q] = "over"]
  /\ overlapped' = (overlapped \/ active > 0)
  /\ \E loaded, captured, released, held \in BOOLEAN :
       LET asked == IF loaded THEN 2 ELSE 1
           lines == IF captured THEN asked ELSE asked - 1
       IN  /\ held => lines = 2
           /\ log' = log \o SubSeq(Entry(q), 1, lines)
                        \o (IF released THEN <<Record(q, "released", active, held)>> ELSE <<>>)
           /\ IF loaded THEN Loads ELSE UNCHANGED most
           /\ early' = IF held THEN early ELSE early \cup {q}
           /\ lost' = IF captured /\ released THEN lost ELSE lost \cup {q}
  /\ UNCHANGED <<active, memoryClosed>>

\* The hold ends or is cancelled; the slot goes back before the record, which may raise.
ReleaseMemory(q, held, released) ==
  /\ work[q] = "holding"
  /\ work' = [work EXCEPT ![q] = "over"]
  /\ active' = active - 1
  /\ log' = IF released THEN Append(log, Record(q, "released", active - 1, held)) ELSE log
  /\ early' = IF held THEN early ELSE early \cup {q}
  /\ lost' = IF released THEN lost ELSE lost \cup {q}
  /\ UNCHANGED <<memoryClosed, overlapped, most>>

\* close: admission only, what is held stays until its release.
CloseMemory ==
  /\ ~memoryClosed /\ memoryClosed' = TRUE
  /\ UNCHANGED <<work, active, log, overlapped, most, early, lost>>

MemoryNext ==
  \/ \E q \in Requests :
       \/ RefuseMemory(q) \/ AdmitMemory(q) \/ FailMemory(q)
       \/ \E held, released \in BOOLEAN : ReleaseMemory(q, held, released)
  \/ CloseMemory

MemorySpec == MemoryInit /\ [][MemoryNext]_memoryVars

-----------------------------------------------------------------------------
(* validate_events                                                         *)

Judging == [ok |-> TRUE, open |-> {}, allocated |-> {}, completed |-> {}, peak |-> 0, loaded |-> 0]

\* The lifecycle of a request as one record advances it.
Lifecycle(e, v) ==
  CASE e.phase = "admitted" ->
         [v EXCEPT !.ok = @ /\ e.sample \notin v.open \cup v.completed, !.open = @ \cup {e.sample}]
    [] e.phase = "allocated" ->
         [v EXCEPT !.ok = @ /\ e.sample \in v.open \ v.allocated, !.allocated = @ \cup {e.sample}]
    [] OTHER ->
         [v EXCEPT !.ok = @ /\ e.sample \in v.allocated /\ e.held, !.open = @ \ {e.sample},
                   !.allocated = @ \ {e.sample}, !.completed = @ \cup {e.sample}]

\* Mutant: the reported count is not compared.
AdvanceUncounted(e, v) ==
  LET next == Lifecycle(e, v)
      open == Cardinality(next.open)
      loaded == Cardinality(next.allocated)
  IN  [next EXCEPT !.peak = IF open > @ THEN open ELSE @, !.loaded = IF loaded > @ THEN loaded ELSE @]

\* _advance: the transition, then the reported count against the reconstructed one; the
\* peaks of validate_events.
Advance(e, v) ==
  LET next == Lifecycle(e, v)
      open == Cardinality(next.open)
      loaded == Cardinality(next.allocated)
  IN  [next EXCEPT !.ok = @ /\ e.active = open,
                   !.peak = IF open > @ THEN open ELSE @,
                   !.loaded = IF loaded > @ THEN loaded ELSE @]

Judged(events) == FoldLeft(LAMBDA v, e : Advance(e, v), Judging, events)

\* The serial control: complete, and never more than one request at a time.
SerialAccepted(events) ==
  LET v == Judged(events)
  IN  events # <<>> /\ v.ok /\ v.open = {} /\ v.completed = Requests /\ v.peak = 1

\* The parallel run; that the kernel's own count must have grown as well is left out.
ParallelAccepted(events) ==
  LET v == Judged(events)
  IN  events # <<>> /\ v.ok /\ v.loaded >= MinAllocated

-----------------------------------------------------------------------------

\* A log is taken for a serial control exactly if the work really was serial, every request
\* held its memory to the end and no record was lost.  A log taken for a parallel run comes
\* from as many requests that really held memory at once, whatever records were lost or
\* requests failed on the way.  The validator refuses no log without a lost record or an early
\* release, so its own count never disagrees with the service's; and no path of a request,
\* failed capture included, leaks its slot.
MemoryJudgement ==
  /\ SerialAccepted(log) <=>
       (\A q \in Requests : work[q] = "over") /\ ~overlapped /\ early = {} /\ lost = {}
  /\ ParallelAccepted(log) => most >= MinAllocated
  /\ early = {} /\ lost = {} => Judged(log).ok
  /\ active = Cardinality({q \in Requests : work[q] = "holding"})
=============================================================================
