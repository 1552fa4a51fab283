------------------------ MODULE InvestigationProofs ------------------------
(***************************************************************************)
(* Proofs about Investigation, for every number of workers, steps,         *)
(* operations and deaths, with and without the operator host.              *)
(*                                                                         *)
(* The inductive invariant IInv says who holds the incident's file lock,   *)
(* what the holder may rely on at each of its steps, and what a worker     *)
(* that has left the graph carries towards the incident's row.             *)
(***************************************************************************)
EXTENDS Investigation, TLAPS

CollectPCs == {"collect", "collecting", "opening", "retaining"}
RankPCs == {"rank", "loop", "operation", "concluding", "ranked"}

\* Where a worker holds the file lock.
HeldPCs == {"node", "triage", "reserve"} \cup CollectPCs \cup RankPCs

CallRecord == [op : {Nil, "deliver", "start", "resume"}, state : State \cup {Nil},
               report : Report \cup {Nil}, ran : BOOLEAN, at : 0..MaxOps, resumed : BOOLEAN]

TypeInv ==
    /\ TypeOK
    /\ call \in [Workers -> CallRecord]
    /\ input \in [scope : BOOLEAN, reads : BOOLEAN]
    /\ {granted, late, acked, marker, answered} \subseteq BOOLEAN
    /\ {executed, collections, crashes} \subseteq Nat

LockInv == \A w \in Workers : pc[w] \in HeldPCs <=> lock = w

\* What the counters of files and operations have to do with each other.
CountInv ==
    /\ executed <= attempts
    /\ collections <= 1
    /\ ~marker => collections = 0
    /\ journal.completed <= journal.charged

\* What the holder of the lock knows of the checkpoint, the files and the journal.
HolderKnows(w) ==
    /\ checkpoint \in State
    /\ checkpoint.phase # "FINISHED"
    /\ pc[w] # "node" => checkpoint.terminal = Nil /\ checkpoint.used <= attempts
    /\ pc[w] = "triage" => checkpoint.phase = "RECEIVED"
    /\ pc[w] = "reserve" => checkpoint.phase = "TRIAGED"
    /\ pc[w] \in CollectPCs => checkpoint.phase = "READS_RESERVED"
    /\ pc[w] \in RankPCs => checkpoint.phase \in {"EVIDENCE_COLLECTED", "RANKED"}
    /\ pc[w] = "collecting" => marker /\ collections = 0
    /\ pc[w] = "operation" => journal.completed < journal.charged
    /\ pc[w] = "concluding" => journal.last # "more"
    /\ pc[w] = "ranked" => /\ call[w].state \in State
                           /\ call[w].state.phase \in {"RANKED", checkpoint.phase}
                           /\ call[w].state.used = attempts
                           /\ call[w].state.terminal # Nil

HolderInv == \A w \in Workers : pc[w] \in HeldPCs => HolderKnows(w)

\* A finished checkpoint has its outcome, and what was verified or saved rests on it.
Sealed(report) ==
    /\ Finished
    /\ report = ReportOf(checkpoint)
    /\ Verified => Publishable(checkpoint)

FinishedInv == Finished => checkpoint.terminal # Nil

\* What a worker that has left the graph carries.
Carries(w) ==
    /\ pc[w] \in {"verify", "check"} =>
         /\ call[w].state \in State
         /\ call[w].state.phase = "FINISHED" => checkpoint = call[w].state
    /\ pc[w] = "check" /\ Verified => Publishable(call[w].state)
    /\ pc[w] = "publish" => Sealed(call[w].report)
    /\ pc[w] = "acknowledge" => row # Nil

CarriesInv == \A w \in Workers : Carries(w)

RowInv ==
    /\ acked => row # Nil
    /\ row # Nil => Sealed(row)

IInv == TypeInv /\ LockInv /\ CountInv /\ HolderInv /\ FinishedInv /\ CarriesInv /\ RowInv

(***************************************************************************)
(* Lemmas about the operators of the graph.                                *)
(***************************************************************************)

Others(w) == \A v \in Workers \ {w} : pc'[v] = pc[v] /\ call'[v] = call[v]

(* Where a checkpoint leads. *)
LEMMA RouteValues ==
    ASSUME NEW s \in State
    PROVE  /\ Route(s) \in {"finish", "triage", "reserve", "collect", "rank"}
           /\ Route(s) = "finish" <=> s.terminal # Nil
           /\ Route(s) = "triage" => s.terminal = Nil /\ s.phase = "RECEIVED"
           /\ Route(s) = "reserve" => s.terminal = Nil /\ s.phase = "TRIAGED"
           /\ Route(s) = "collect" => s.terminal = Nil /\ s.phase = "READS_RESERVED"
           /\ Route(s) = "rank" => /\ s.terminal = Nil
                                   /\ s.phase \in {"EVIDENCE_COLLECTED", "RANKED", "FINISHED"}
  BY DEF Route, State, Phases

(* A node's update of the state. *)
LEMMA DoneValues ==
    ASSUME attempts \in 0..MaxSteps, NEW s \in State, NEW p \in Phases,
           NEW t \in Terminals \cup {Nil}
    PROVE  /\ Done(s, p, t) \in State
           /\ Done(s, p, t).phase = p /\ Done(s, p, t).terminal = t
           /\ Done(s, p, t).used = attempts
  BY DEF Done, State

(* The state that rank commits. *)
LEMMA RankedValues ==
    ASSUME attempts \in 0..MaxSteps, checkpoint \in State, NEW reason \in StopReasons,
           NEW n \in 0..MaxOps
    PROVE  /\ Ranked(reason, n) \in State
           /\ Ranked(reason, n).phase = "RANKED" /\ Ranked(reason, n).terminal \in Terminals
           /\ Ranked(reason, n).used = attempts
  <1>1. Terminal(reason) \in Terminals
    BY DEF Terminal, Terminals
  <1>2. "RANKED" \in Phases
    BY DEF Phases
  <1>3. Done(checkpoint, "RANKED", Terminal(reason)) \in State
    BY <1>1, <1>2, DoneValues
  <1>4. /\ Done(checkpoint, "RANKED", Terminal(reason)).phase = "RANKED"
        /\ Done(checkpoint, "RANKED", Terminal(reason)).terminal = Terminal(reason)
        /\ Done(checkpoint, "RANKED", Terminal(reason)).used = attempts
    BY <1>1, <1>2, DoneValues
  <1> QED
    BY <1>1, <1>3, <1>4 DEF Ranked, State

(* The state that a failed verification commits. *)
LEMMA BlockedValues ==
    ASSUME attempts \in 0..MaxSteps, checkpoint \in State
    PROVE  /\ Blocked \in State
           /\ Blocked.phase = checkpoint.phase /\ Blocked.terminal = "SECURITY_BLOCK"
           /\ Blocked.used = attempts
  <1>1. "SECURITY_BLOCK" \in Terminals /\ "SECURITY_BLOCK" \in StopReasons /\ checkpoint.phase \in Phases
    BY DEF Terminals, StopReasons, State
  <1> QED
    BY <1>1, DoneValues DEF Blocked, State

(* Moving a worker keeps the locals typed and leaves the others alone. *)
LEMMA ProceedMoves ==
    ASSUME TypeInv, NEW w \in Workers, NEW label \in PCs, NEW c \in CallRecord,
           Proceed(w, label, c)
    PROVE  /\ pc' \in [Workers -> PCs] /\ call' \in [Workers -> CallRecord]
           /\ pc'[w] = label /\ call'[w] = c /\ Others(w)
  BY DEF Proceed, TypeInv, TypeOK, Others

LEMMA GotoMoves ==
    ASSUME TypeInv, NEW w \in Workers, NEW label \in PCs, Goto(w, label)
    PROVE  /\ pc' \in [Workers -> PCs] /\ call' \in [Workers -> CallRecord]
           /\ pc'[w] = label /\ call'[w] = call[w] /\ Others(w)
  BY DEF Goto, TypeInv, TypeOK, Others

LEMMA NoCallType == NoCall \in CallRecord
  BY InvestigationAssumption DEF NoCall, CallRecord

(* Leaving a call releases the lock if it was held. *)
LEMMA LeaveMoves ==
    ASSUME TypeInv, LockInv, NEW w \in Workers, Leave(w)
    PROVE  /\ pc' \in [Workers -> PCs] /\ call' \in [Workers -> CallRecord]
           /\ lock' \in Workers \cup {Nil}
           /\ pc'[w] = "idle" /\ Others(w)
           /\ LockInv'
  <1>1. /\ pc' \in [Workers -> PCs] /\ call' \in [Workers -> CallRecord]
        /\ pc'[w] = "idle" /\ Others(w)
    BY NoCallType, ProceedMoves DEF Leave, PCs
  <1>2. lock' \in Workers \cup {Nil}
    BY DEF Leave, TypeInv, TypeOK
  <1>3. LockInv'
    BY <1>1, NilAssumption DEF Leave, LockInv, Others, HeldPCs, CollectPCs, RankPCs
  <1> QED
    BY <1>1, <1>2, <1>3

(***************************************************************************)
(* As long as the graph is not finished nothing is on its way to the row.  *)
(***************************************************************************)

LEMMA NothingCarried ==
    ASSUME IInv, ~Finished
    PROVE  /\ row = Nil /\ ~acked
           /\ \A v \in Workers :
                /\ pc[v] \notin {"publish", "acknowledge"}
                /\ Verified => pc[v] # "check"
                /\ pc[v] \in {"verify", "check"} =>
                     call[v].state \in State /\ call[v].state.phase # "FINISHED"
  <1>1. row = Nil /\ ~acked
    BY DEF IInv, RowInv, Sealed
  <1>2. ASSUME NEW v \in Workers
        PROVE  /\ pc[v] \notin {"publish", "acknowledge"}
               /\ Verified => pc[v] # "check"
               /\ pc[v] \in {"verify", "check"} =>
                    call[v].state \in State /\ call[v].state.phase # "FINISHED"
    <2>1. Carries(v)
      BY DEF IInv, CarriesInv
    <2>2. pc[v] \notin {"publish", "acknowledge"}
      BY <1>1, <2>1 DEF Carries, Sealed
    <2>3. pc[v] \in {"verify", "check"} =>
            call[v].state \in State /\ call[v].state.phase # "FINISHED"
      BY <2>1, NilAssumption DEF Carries, Finished
    <2>4. Verified => pc[v] # "check"
      BY <2>1, <2>3 DEF Carries, Publishable
    <2> QED
      BY <2>2, <2>3, <2>4
  <1> QED
    BY <1>1, <1>2

(* The holder of the lock is alone, and the graph is not finished. *)
LEMMA HolderAlone ==
    ASSUME IInv, NEW w \in Workers, pc[w] \in HeldPCs
    PROVE  /\ lock = w /\ HolderKnows(w) /\ ~Finished
           /\ \A v \in Workers \ {w} : pc[v] \notin HeldPCs
  <1>1. lock = w /\ HolderKnows(w)
    BY DEF IInv, LockInv, HolderInv
  <1>2. ~Finished
    BY <1>1 DEF HolderKnows, Finished
  <1>3. \A v \in Workers \ {w} : pc[v] \notin HeldPCs
    BY <1>1 DEF IInv, LockInv
  <1> QED
    BY <1>1, <1>2, <1>3

(* A worker in the graph carries nothing. *)
LEMMA HeldCarriesNothing == HeldPCs \cap {"verify", "check", "publish", "acknowledge"} = {}
  BY DEF HeldPCs, CollectPCs, RankPCs

(* A step into the graph or inside it, by a worker that has the lock to    *)
(* itself: all that remains to be shown is what the holder knows then.     *)
LEMMA HolderStep ==
    ASSUME IInv, NEW w \in Workers, ~Finished, Others(w),
           \A v \in Workers \ {w} : pc[v] \notin HeldPCs /\ v # lock',
           lock' = w, pc'[w] \in HeldPCs, UNCHANGED <<row, acked>>, HolderKnows(w)'
    PROVE  LockInv' /\ HolderInv' /\ FinishedInv' /\ CarriesInv' /\ RowInv'
  <1>0. /\ row = Nil /\ ~acked
        /\ \A v \in Workers :
             /\ pc[v] \notin {"publish", "acknowledge"}
             /\ Verified => pc[v] # "check"
             /\ pc[v] \in {"verify", "check"} =>
                  call[v].state \in State /\ call[v].state.phase # "FINISHED"
    BY NothingCarried
  <1>1. LockInv'
    BY DEF LockInv, Others
  <1>2. HolderInv'
    <2> SUFFICES ASSUME NEW v \in Workers, pc'[v] \in HeldPCs PROVE HolderKnows(v)'
      BY DEF HolderInv
    <2>1. v = w
      BY DEF Others
    <2> QED
      BY <2>1
  <1>3. FinishedInv'
    BY DEF FinishedInv, Finished, HolderKnows
  <1>4. CarriesInv'
    <2> SUFFICES ASSUME NEW v \in Workers
                 PROVE  /\ pc'[v] \in {"verify", "check"} =>
                             /\ call'[v].state \in State
                             /\ call'[v].state.phase # "FINISHED"
                        /\ pc'[v] = "check" => ~Verified
                        /\ pc'[v] \notin {"publish", "acknowledge"}
      BY DEF CarriesInv, Carries
    <2>1. CASE v = w
      BY <2>1, HeldCarriesNothing
    <2>2. CASE v # w
      BY <1>0, <2>2 DEF Others
    <2> QED
      BY <2>1, <2>2
  <1>5. RowInv'
    BY <1>0 DEF RowInv
  <1> QED
    BY <1>1, <1>2, <1>3, <1>4, <1>5

(* A step by which the holder leaves the graph. *)
LEMMA ReleaseStep ==
    ASSUME IInv, NEW w \in Workers, pc[w] \in HeldPCs, Others(w), lock' = Nil,
           pc'[w] \notin HeldPCs, UNCHANGED <<row, acked>>, FinishedInv', Carries(w)'
    PROVE  LockInv' /\ HolderInv' /\ CarriesInv' /\ RowInv'
  <1>0. /\ ~Finished
        /\ \A v \in Workers \ {w} : pc[v] \notin HeldPCs
    BY HolderAlone
  <1>1. /\ row = Nil /\ ~acked
        /\ \A v \in Workers :
             /\ pc[v] \notin {"publish", "acknowledge"}
             /\ Verified => pc[v] # "check"
             /\ pc[v] \in {"verify", "check"} =>
                  call[v].state \in State /\ call[v].state.phase # "FINISHED"
    BY <1>0, NothingCarried
  <1>2. \A v \in Workers : pc'[v] \notin HeldPCs
    BY <1>0 DEF Others
  <1>3. LockInv'
    BY <1>2, NilAssumption DEF LockInv
  <1>4. HolderInv'
    BY <1>2 DEF HolderInv
  <1>5. CarriesInv'
    <2> SUFFICES ASSUME NEW v \in Workers PROVE Carries(v)'
      BY DEF CarriesInv
    <2>1. CASE v # w
      BY <1>1, <2>1 DEF Carries, Others
    <2> QED
      BY <2>1
  <1>6. RowInv'
    BY <1>1 DEF RowInv
  <1> QED
    BY <1>3, <1>4, <1>5, <1>6

(* A step of a worker outside the graph, which leaves the graph alone. *)
LEMMA OutsideStep ==
    ASSUME IInv, NEW w \in Workers, pc[w] \notin HeldPCs, pc'[w] \notin HeldPCs, Others(w),
           UNCHANGED <<lock, checkpoint, journal, attempts, marker, collections>>,
           row # Nil => row' = row, Carries(w)', RowInv'
    PROVE  LockInv' /\ HolderInv' /\ FinishedInv' /\ CarriesInv'
  <1>1. LockInv'
    BY DEF IInv, LockInv, Others
  <1>2. HolderInv'
    <2> SUFFICES ASSUME NEW v \in Workers, pc'[v] \in HeldPCs PROVE HolderKnows(v)'
      BY DEF HolderInv
    <2>1. pc'[v] = pc[v] /\ call'[v] = call[v] /\ HolderKnows(v)
      BY DEF Others, IInv, HolderInv
    <2> QED
      BY <2>1 DEF HolderKnows
  <1>3. FinishedInv'
    BY DEF IInv, FinishedInv, Finished
  <1>4. CarriesInv'
    <2> SUFFICES ASSUME NEW v \in Workers PROVE Carries(v)'
      BY DEF CarriesInv
    <2>1. CASE v # w
      <3>1. pc'[v] = pc[v] /\ call'[v] = call[v] /\ Carries(v)
        BY <2>1 DEF Others, IInv, CarriesInv
      <3> QED
        BY <3>1 DEF Carries, Sealed, Finished, ReportOf, Publishable, Replayed
    <2> QED
      BY <2>1
  <1> QED
    BY <1>1, <1>2, <1>3, <1>4

(***************************************************************************)
(* The nodes of the graph.                                                 *)
(***************************************************************************)

\* The part of the type invariant that a worker's own position and locals do not touch.
GlobalTypes ==
    /\ row \in Report \cup {Nil} /\ checkpoint \in State \cup {Nil}
    /\ attempts \in 0..MaxSteps /\ collection \in {Nil, "partial", "whole"}
    /\ journal \in [open : BOOLEAN, charged : 0..MaxOps, completed : 0..MaxOps,
                    last : {"more"} \cup Endings]
    /\ lock \in Workers \cup {Nil}
    /\ input \in [scope : BOOLEAN, reads : BOOLEAN]
    /\ {granted, late, acked, marker, answered} \subseteq BOOLEAN
    /\ {executed, collections, crashes} \subseteq Nat

LEMMA TypeParts ==
    TypeInv <=> /\ GlobalTypes
                /\ pc \in [Workers -> PCs] /\ call \in [Workers -> CallRecord]
  BY DEF TypeInv, TypeOK, GlobalTypes

LEMMA TypePartsNext ==
    TypeInv' <=> /\ GlobalTypes'
                 /\ pc' \in [Workers -> PCs] /\ call' \in [Workers -> CallRecord]
  BY DEF TypeInv, TypeOK, GlobalTypes

(* A node that commits a well-typed, unfinished state is followed by the   *)
(* next node.                                                              *)
LEMMA CommitStep ==
    ASSUME IInv, NEW w \in Workers, pc[w] \in HeldPCs, NEW s \in State,
           s.phase # "FINISHED", Commit(w, s), UNCHANGED <<lock, row, acked>>,
           GlobalTypes', CountInv'
    PROVE  IInv'
  <1>0. TypeInv /\ call[w] \in CallRecord
    BY DEF IInv, TypeInv
  <1>z. 0 \in 0..MaxOps
    BY InvestigationAssumption
  <1>1. [call[w] EXCEPT !.ran = TRUE, !.at = 0] \in CallRecord /\ "node" \in PCs
    BY <1>0, <1>z DEF CallRecord, PCs
  <1>2. /\ pc' \in [Workers -> PCs] /\ call' \in [Workers -> CallRecord]
        /\ pc'[w] = "node" /\ Others(w) /\ checkpoint' = s
    BY <1>0, <1>1, ProceedMoves DEF Commit
  <1>3. HolderKnows(w)' /\ pc'[w] \in HeldPCs
    BY <1>2 DEF HolderKnows, HeldPCs, CollectPCs, RankPCs
  <1>4. LockInv' /\ HolderInv' /\ FinishedInv' /\ CarriesInv' /\ RowInv'
    BY <1>2, <1>3, HolderAlone, HolderStep
  <1> QED
    BY <1>2, <1>4, TypePartsNext DEF IInv

(* A step of the holder from one label of the graph to another. *)
LEMMA GotoStep ==
    ASSUME IInv, NEW w \in Workers, pc[w] \in HeldPCs, NEW label \in HeldPCs, Goto(w, label),
           UNCHANGED <<lock, row, acked, checkpoint>>, GlobalTypes', CountInv',
           HolderKnows(w)'
    PROVE  IInv'
  <1>0. TypeInv /\ label \in PCs
    BY DEF IInv, HeldPCs, CollectPCs, RankPCs, PCs
  <1>1. /\ pc' \in [Workers -> PCs] /\ call' \in [Workers -> CallRecord]
        /\ pc'[w] = label /\ Others(w)
    BY <1>0, GotoMoves
  <1>2. LockInv' /\ HolderInv' /\ FinishedInv' /\ CarriesInv' /\ RowInv'
    BY <1>1, HolderAlone, HolderStep
  <1> QED
    BY <1>1, <1>2, TypePartsNext DEF IInv

(* What an action of the graph may start from. *)
LEMMA IInvParts ==
    ASSUME IInv
    PROVE  /\ TypeInv /\ GlobalTypes /\ CountInv
           /\ call \in [Workers -> CallRecord]
           /\ \A w \in Workers : pc[w] \in HeldPCs => HolderKnows(w)
  BY TypeParts DEF IInv, TypeInv, HolderInv

(* The attempts in use count every attempt file. *)
LEMMA AttemptsUsedValues ==
    ASSUME attempts \in 0..MaxSteps, NEW s \in State
    PROVE  /\ AttemptsUsed(s) \in 0..MaxSteps
           /\ AttemptsUsed(s) >= attempts /\ AttemptsUsed(s) >= s.used
  BY InvestigationAssumption DEF AttemptsUsed, State

(* Reserving an attempt. *)
LEMMA AttemptInv ==
    ASSUME IInv, NEW w \in Workers, Attempt(w)
    PROVE  IInv'
  <1>0. pc[w] = "node" /\ pc[w] \in HeldPCs
    BY DEF Attempt, HeldPCs
  <1>1. checkpoint \in State /\ checkpoint.phase # "FINISHED" /\ GlobalTypes /\ CountInv
    BY <1>0, IInvParts DEF HolderKnows
  <1> DEFINE used == AttemptsUsed(checkpoint)
             spent == [checkpoint EXCEPT !.used = used, !.terminal = "BUDGET_EXHAUSTED"]
  <1>2. /\ used \in 0..MaxSteps
        /\ used >= attempts /\ used >= checkpoint.used
    BY <1>1, AttemptsUsedValues DEF GlobalTypes
  <1>3. CASE used >= MaxSteps \/ late
    <2>1. Commit(w, spent)
      BY <1>3 DEF Attempt
    <2>2. spent \in State /\ spent.phase = checkpoint.phase
      BY <1>1, <1>2 DEF State, Terminals
    <2>3. /\ UNCHANGED <<lock, row, acked, attempts, executed, marker, collection, collections,
                         journal, input, granted, late, answered, crashes>>
          /\ checkpoint' = spent
      BY <1>3, <2>1 DEF Attempt, Commit, envVars, deliveryVars, historyVars
    <2>4. GlobalTypes' /\ CountInv'
      BY <1>1, <2>2, <2>3 DEF GlobalTypes, CountInv
    <2> QED
      BY <1>0, <1>1, <2>1, <2>2, <2>3, <2>4, CommitStep
  <1>4. CASE ~(used >= MaxSteps \/ late)
    <2>1. /\ attempts' = used + 1 /\ executed' = executed + 1
          /\ Goto(w, Route(checkpoint))
          /\ UNCHANGED <<lock, row, acked, checkpoint, marker, collection, collections,
                         journal, input, granted, late, answered, crashes>>
      BY <1>4 DEF Attempt, envVars, deliveryVars, historyVars
    <2>2. GlobalTypes' /\ CountInv'
      BY <1>1, <1>2, <1>4, <2>1, InvestigationAssumption DEF GlobalTypes, CountInv
    <2>3. Route(checkpoint) \in {"triage", "reserve", "collect", "rank"}
      BY <1>1, RouteValues DEF Attempt
    <2>4. HolderKnows(w)' /\ Route(checkpoint) \in HeldPCs
      <3>1. pc'[w] = Route(checkpoint) /\ call'[w] = call[w]
        BY <1>0, <2>1, <2>3, IInvParts, GotoMoves DEF PCs
      <3> QED
        BY <1>1, <1>2, <2>1, <2>3, <3>1, RouteValues
           DEF HolderKnows, HeldPCs, CollectPCs, RankPCs, GlobalTypes, State
    <2> QED
      BY <1>0, <2>1, <2>2, <2>4, GotoStep
  <1> QED
    BY <1>3, <1>4

(* A node that does nothing but commit its state. *)
LEMMA NodeStep ==
    ASSUME IInv, NEW w \in Workers, pc[w] \in HeldPCs, NEW s \in State,
           s.phase # "FINISHED", Commit(w, s),
           UNCHANGED <<envVars, deliveryVars, fileVars, journal, lock, historyVars>>
    PROVE  IInv'
  <1>1. checkpoint' = s
    BY DEF Commit
  <1>2. GlobalTypes' /\ CountInv'
    BY <1>1, IInvParts
       DEF GlobalTypes, CountInv, envVars, deliveryVars, fileVars, historyVars
  <1> QED
    BY <1>2, CommitStep DEF deliveryVars

LEMMA TriageInv ==
    ASSUME IInv, NEW w \in Workers, Triage(w)
    PROVE  IInv'
  <1> DEFINE t == IF input.scope THEN Nil ELSE "SECURITY_BLOCK"
  <1>0. pc[w] = "triage" /\ pc[w] \in HeldPCs
    BY DEF Triage, HeldPCs
  <1>1. checkpoint \in State /\ attempts \in 0..MaxSteps
    BY <1>0, IInvParts DEF HolderKnows, GlobalTypes
  <1>2. t \in Terminals \cup {Nil} /\ "TRIAGED" \in Phases
    BY DEF Terminals, Phases
  <1>3. Done(checkpoint, "TRIAGED", t) \in State /\ Done(checkpoint, "TRIAGED", t).phase = "TRIAGED"
    BY <1>1, <1>2, DoneValues
  <1> QED
    BY <1>0, <1>3, NodeStep DEF Triage

LEMMA ReserveReadsInv ==
    ASSUME IInv, NEW w \in Workers, ReserveReads(w)
    PROVE  IInv'
  <1> DEFINE yes == Done(checkpoint, "READS_RESERVED", Nil)
             no == Done(checkpoint, "TRIAGED", "BUDGET_EXHAUSTED")
  <1>0. pc[w] = "reserve" /\ pc[w] \in HeldPCs
    BY DEF ReserveReads, HeldPCs
  <1>1. checkpoint \in State /\ attempts \in 0..MaxSteps
    BY <1>0, IInvParts DEF HolderKnows, GlobalTypes
  <1>2. "BUDGET_EXHAUSTED" \in Terminals /\ {"TRIAGED", "READS_RESERVED"} \subseteq Phases
    BY DEF Terminals, Phases
  <1>3. yes \in State /\ yes.phase = "READS_RESERVED" /\ no \in State /\ no.phase = "TRIAGED"
    BY <1>1, <1>2, DoneValues
  <1>4. PICK s \in {yes, no} : Commit(w, s)
    BY DEF ReserveReads
  <1>5. s \in State /\ s.phase # "FINISHED"
    BY <1>3, <1>4
  <1> QED
    BY <1>0, <1>4, <1>5, NodeStep DEF ReserveReads

(* A failed collection commits an outcome and no evidence. *)
LEMMA CollectFailedValues ==
    ASSUME IInv, NEW w \in Workers, pc[w] \in CollectPCs, CollectFailed(w)
    PROVE  \E s \in State : s.phase # "FINISHED" /\ Commit(w, s)
  <1>1. checkpoint \in State /\ checkpoint.phase = "READS_RESERVED" /\ attempts \in 0..MaxSteps
    BY IInvParts DEF HolderKnows, GlobalTypes, HeldPCs
  <1>2. PICK t \in {"DEPENDENCY_UNAVAILABLE", "SECURITY_BLOCK"} :
          Commit(w, Done(checkpoint, checkpoint.phase, t))
    BY DEF CollectFailed
  <1>3. t \in Terminals /\ "READS_RESERVED" \in Phases
    BY <1>2 DEF Terminals, Phases
  <1>4. /\ Done(checkpoint, "READS_RESERVED", t) \in State
        /\ Done(checkpoint, "READS_RESERVED", t).phase = "READS_RESERVED"
    BY <1>1, <1>3, DoneValues
  <1> QED
    BY <1>1, <1>2, <1>4

LEMMA CollectInv ==
    ASSUME IInv, NEW w \in Workers, Collect(w)
    PROVE  IInv'
  <1>0. pc[w] = "collect" /\ pc[w] \in HeldPCs /\ pc[w] \in CollectPCs
    BY DEF Collect, HeldPCs, CollectPCs
  <1>1. /\ checkpoint \in State /\ attempts \in 0..MaxSteps /\ checkpoint.phase = "READS_RESERVED"
        /\ HolderKnows(w) /\ GlobalTypes /\ CountInv
    BY <1>0, IInvParts DEF HolderKnows, GlobalTypes
  <1>2. CASE marker' = TRUE /\ ~marker /\ Goto(w, "collecting") /\ UNCHANGED checkpoint
    <2>1. GlobalTypes' /\ CountInv'
      BY <1>1, <1>2 DEF Collect, GlobalTypes, CountInv, envVars, deliveryVars, historyVars
    <2>2. pc'[w] = "collecting" /\ call'[w] = call[w]
      BY <1>2, IInvParts, GotoMoves DEF PCs
    <2>3. HolderKnows(w)'
      BY <1>0, <1>1, <1>2, <2>1, <2>2
         DEF Collect, HolderKnows, CountInv, CollectPCs, RankPCs
    <2>4. "collecting" \in HeldPCs
      BY DEF HeldPCs, CollectPCs
    <2> QED
      BY <1>0, <1>2, <2>1, <2>3, <2>4, GotoStep DEF Collect, deliveryVars
  <1>3. CASE UNCHANGED marker /\ \E s \in State : s.phase # "FINISHED" /\ Commit(w, s)
    BY <1>0, <1>3, NodeStep DEF Collect, fileVars
  <1>4. \/ marker' = TRUE /\ ~marker /\ Goto(w, "collecting") /\ UNCHANGED checkpoint
        \/ UNCHANGED marker /\ CollectFailed(w)
        \/ /\ UNCHANGED marker
           /\ \/ Commit(w, Done(checkpoint, "EVIDENCE_COLLECTED", Nil))
              \/ Commit(w, Done(checkpoint, checkpoint.phase, "DEPENDENCY_UNAVAILABLE"))
    BY DEF Collect, MayCollect
  <1>5. /\ "DEPENDENCY_UNAVAILABLE" \in Terminals
        /\ "READS_RESERVED" \in Phases /\ "EVIDENCE_COLLECTED" \in Phases
    BY DEF Terminals, Phases
  <1>6. /\ Done(checkpoint, "EVIDENCE_COLLECTED", Nil) \in State
        /\ Done(checkpoint, "EVIDENCE_COLLECTED", Nil).phase = "EVIDENCE_COLLECTED"
        /\ Done(checkpoint, checkpoint.phase, "DEPENDENCY_UNAVAILABLE") \in State
        /\ Done(checkpoint, checkpoint.phase, "DEPENDENCY_UNAVAILABLE").phase = "READS_RESERVED"
    BY <1>1, <1>5, DoneValues
  <1> QED
    BY <1>0, <1>2, <1>3, <1>4, <1>6, CollectFailedValues

LEMMA CollectingInv ==
    ASSUME IInv, NEW w \in Workers, Collecting(w)
    PROVE  IInv'
  <1>0. pc[w] = "collecting" /\ pc[w] \in HeldPCs /\ pc[w] \in CollectPCs
    BY DEF Collecting, HeldPCs, CollectPCs
  <1>1. HolderKnows(w) /\ GlobalTypes /\ CountInv
    BY <1>0, IInvParts
  <1>2. UNCHANGED <<lock, row, acked, attempts, executed, marker, collection, journal, input,
                    granted, late, answered, crashes>>
    BY DEF Collecting, envVars, deliveryVars, historyVars
  <1>3. collections' = 1 /\ marker
    BY <1>0, <1>1 DEF Collecting, HolderKnows, GlobalTypes
  <1>4. checkpoint' \in State => GlobalTypes' /\ CountInv'
    BY <1>1, <1>2, <1>3 DEF GlobalTypes, CountInv
  <1>5. CASE Goto(w, "opening") /\ UNCHANGED checkpoint
    <2>1. pc'[w] = "opening" /\ call'[w] = call[w]
      BY <1>5, IInvParts, GotoMoves DEF PCs
    <2>2. HolderKnows(w)' /\ "opening" \in HeldPCs
      BY <1>0, <1>1, <1>2, <1>5, <2>1 DEF HolderKnows, CollectPCs, RankPCs, HeldPCs
    <2> QED
      BY <1>0, <1>2, <1>4, <1>5, <2>2, GotoStep DEF HolderKnows
  <1>6. CASE CollectFailed(w)
    <2>1. PICK s \in State : s.phase # "FINISHED" /\ Commit(w, s)
      BY <1>0, <1>6, CollectFailedValues
    <2>2. checkpoint' = s
      BY <2>1 DEF Commit
    <2> QED
      BY <1>0, <1>2, <1>4, <2>1, <2>2, CommitStep
  <1> QED
    BY <1>5, <1>6 DEF Collecting

LEMMA OpenResultInv ==
    ASSUME IInv, NEW w \in Workers, OpenResult(w)
    PROVE  IInv'
  <1>0. pc[w] = "opening" /\ pc[w] \in HeldPCs
    BY DEF OpenResult, HeldPCs, CollectPCs
  <1>1. HolderKnows(w) /\ GlobalTypes /\ CountInv
    BY <1>0, IInvParts
  <1>2. UNCHANGED <<lock, row, acked, attempts, executed, marker, collections, journal, input,
                    granted, late, answered, crashes, checkpoint>>
    BY DEF OpenResult, envVars, deliveryVars, historyVars
  <1>3. GlobalTypes' /\ CountInv'
    BY <1>1, <1>2 DEF OpenResult, GlobalTypes, CountInv
  <1>4. pc'[w] = "retaining" /\ call'[w] = call[w]
    BY IInvParts, GotoMoves DEF OpenResult, PCs
  <1>5. HolderKnows(w)' /\ "retaining" \in HeldPCs
    BY <1>0, <1>1, <1>2, <1>4 DEF HolderKnows, CollectPCs, RankPCs, HeldPCs
  <1> QED
    BY <1>0, <1>2, <1>3, <1>5, GotoStep DEF OpenResult

LEMMA RetainInv ==
    ASSUME IInv, NEW w \in Workers, Retain(w)
    PROVE  IInv'
  <1>0. pc[w] = "retaining" /\ pc[w] \in HeldPCs /\ pc[w] \in CollectPCs
    BY DEF Retain, HeldPCs, CollectPCs
  <1>1. HolderKnows(w) /\ GlobalTypes /\ CountInv
    BY <1>0, IInvParts
  <1>2. CASE collection' = "whole" /\ Goto(w, "collect") /\ UNCHANGED checkpoint
    <2>1. UNCHANGED <<lock, row, acked, attempts, executed, marker, collections, journal, input,
                      granted, late, answered, crashes, checkpoint>>
      BY <1>2 DEF Retain, envVars, deliveryVars, historyVars
    <2>2. GlobalTypes' /\ CountInv'
      BY <1>1, <1>2, <2>1 DEF GlobalTypes, CountInv
    <2>3. pc'[w] = "collect" /\ call'[w] = call[w]
      BY <1>2, IInvParts, GotoMoves DEF PCs
    <2>4. HolderKnows(w)' /\ "collect" \in HeldPCs
      BY <1>0, <1>1, <2>1, <2>3 DEF HolderKnows, CollectPCs, RankPCs, HeldPCs
    <2> QED
      BY <1>0, <1>2, <2>1, <2>2, <2>4, GotoStep
  <1>3. CASE CollectFailed(w) /\ UNCHANGED collection
    <2>1. PICK s \in State : s.phase # "FINISHED" /\ Commit(w, s)
      BY <1>0, <1>3, CollectFailedValues
    <2> QED
      BY <1>0, <1>3, <2>1, NodeStep DEF Retain, fileVars
  <1> QED
    BY <1>2, <1>3 DEF Retain

(***************************************************************************)
(* The rank node and the reasoning loop inside it.                         *)
(***************************************************************************)

(* A worker that leaves the call it is in. *)
LEMMA LeaveStep ==
    ASSUME IInv, NEW w \in Workers, Leave(w),
           UNCHANGED <<row, acked, checkpoint, journal, attempts, executed, marker, collections>>,
           lock' \in Workers \cup {Nil} => GlobalTypes'
    PROVE  IInv'
  <1>1. /\ pc' \in [Workers -> PCs] /\ call' \in [Workers -> CallRecord]
        /\ lock' \in Workers \cup {Nil}
        /\ pc'[w] = "idle" /\ Others(w)
    BY LeaveMoves DEF IInv
  <1>2. "idle" \notin HeldPCs /\ Carries(w)'
    BY <1>1 DEF Carries, HeldPCs, CollectPCs, RankPCs
  <1>3. CountInv' /\ FinishedInv'
    BY DEF IInv, CountInv, FinishedInv, Finished
  <1>4. CASE pc[w] \in HeldPCs
    <2>1. lock' = Nil
      BY <1>4, HolderAlone DEF Leave
    <2>2. LockInv' /\ HolderInv' /\ CarriesInv' /\ RowInv'
      BY <1>1, <1>2, <1>3, <1>4, <2>1, ReleaseStep
    <2> QED
      BY <1>1, <1>3, <2>2, TypePartsNext DEF IInv
  <1>5. CASE pc[w] \notin HeldPCs
    <2>1. lock' = lock
      BY <1>5 DEF Leave, IInv, LockInv
    <2>2. RowInv'
      BY DEF IInv, RowInv, Sealed, Finished, ReportOf, Publishable, Replayed
    <2>3. LockInv' /\ HolderInv' /\ FinishedInv' /\ CarriesInv'
      BY <1>1, <1>2, <1>5, <2>1, <2>2, OutsideStep
    <2> QED
      BY <1>1, <1>3, <2>2, <2>3, TypePartsNext DEF IInv
  <1> QED
    BY <1>4, <1>5

LEMMA RankInv ==
    ASSUME IInv, NEW w \in Workers, Rank(w)
    PROVE  IInv'
  <1>0. pc[w] = "rank" /\ pc[w] \in HeldPCs
    BY DEF Rank, HeldPCs, RankPCs
  <1>1. /\ HolderKnows(w) /\ GlobalTypes /\ CountInv
        /\ checkpoint \in State /\ attempts \in 0..MaxSteps
        /\ checkpoint.phase \in {"EVIDENCE_COLLECTED", "RANKED"}
    BY <1>0, IInvParts DEF HolderKnows, GlobalTypes, RankPCs
  <1>2. CASE Commit(w, Blocked) /\ UNCHANGED <<journal, lock>>
    BY <1>0, <1>1, <1>2, BlockedValues, NodeStep DEF Rank
  <1>3. CASE /\ \E t \in {"ESCALATED", "EVIDENCE_INSUFFICIENT"} :
                  Commit(w, Done(checkpoint, "RANKED", t))
             /\ UNCHANGED <<journal, lock>>
    <2>1. PICK t \in {"ESCALATED", "EVIDENCE_INSUFFICIENT"} :
            Commit(w, Done(checkpoint, "RANKED", t))
      BY <1>3
    <2>2. t \in Terminals /\ "RANKED" \in Phases
      BY <2>1 DEF Terminals, Phases
    <2>3. /\ Done(checkpoint, "RANKED", t) \in State
          /\ Done(checkpoint, "RANKED", t).phase = "RANKED"
      BY <1>1, <2>2, DoneValues
    <2> QED
      BY <1>0, <1>3, <2>1, <2>3, NodeStep DEF Rank
  <1>4. CASE Leave(w) /\ UNCHANGED <<checkpoint, journal>>
    <2>1. lock' \in Workers \cup {Nil} => GlobalTypes'
      BY <1>1, <1>4 DEF Rank, GlobalTypes, envVars, deliveryVars, fileVars, historyVars
    <2> QED
      BY <1>4, <2>1, LeaveStep DEF Rank, deliveryVars, fileVars
  <1>5. CASE /\ journal' = [journal EXCEPT !.open = TRUE]
             /\ Goto(w, "loop") /\ UNCHANGED <<checkpoint, lock>>
    <2>1. /\ GlobalTypes' /\ CountInv'
          /\ journal'.completed = journal.completed /\ journal'.charged = journal.charged
      BY <1>1, <1>5 DEF Rank, GlobalTypes, CountInv, envVars, deliveryVars, fileVars, historyVars
    <2>2. pc'[w] = "loop" /\ call'[w] = call[w]
      BY <1>5, IInvParts, GotoMoves DEF PCs
    <2>3. HolderKnows(w)' /\ "loop" \in HeldPCs
      BY <1>0, <1>1, <1>5, <2>2 DEF Rank, fileVars, HolderKnows, CollectPCs, RankPCs, HeldPCs
    <2> QED
      BY <1>0, <1>5, <2>1, <2>3, GotoStep DEF Rank, deliveryVars
  <1> QED
    BY <1>2, <1>3, <1>4, <1>5 DEF Rank

(* The loop hands its result to the rank node. *)
LEMMA ToRanked ==
    ASSUME IInv, NEW w \in Workers, pc[w] \in RankPCs, NEW s \in State,
           s.phase \in {"RANKED", checkpoint.phase}, s.used = attempts, s.terminal # Nil,
           Proceed(w, "ranked", [call[w] EXCEPT !.state = s]),
           UNCHANGED <<envVars, deliveryVars, checkpoint, fileVars, journal, lock, crashes>>,
           answered' \in BOOLEAN
    PROVE  IInv'
  <1>0. pc[w] \in HeldPCs
    BY DEF HeldPCs
  <1>1. /\ HolderKnows(w) /\ GlobalTypes /\ CountInv /\ TypeInv /\ call[w] \in CallRecord
    BY <1>0, IInvParts
  <1> DEFINE c == [call[w] EXCEPT !.state = s]
  <1>2. c \in CallRecord /\ c.state = s /\ "ranked" \in PCs
    BY <1>1 DEF CallRecord, PCs
  <1>p. Proceed(w, "ranked", c)
    OBVIOUS
  <1> HIDE DEF c
  <1>3. /\ pc' \in [Workers -> PCs] /\ call' \in [Workers -> CallRecord]
        /\ pc'[w] = "ranked" /\ Others(w) /\ call'[w].state = s
    BY <1>1, <1>2, <1>p, ProceedMoves
  <1>4. GlobalTypes' /\ CountInv'
    BY <1>1 DEF GlobalTypes, CountInv, envVars, deliveryVars, fileVars
  <1>5. HolderKnows(w)' /\ pc'[w] \in HeldPCs
    <2>1. pc[w] # "node" /\ "ranked" \notin CollectPCs /\ "ranked" \in RankPCs
      BY DEF RankPCs, CollectPCs
    <2> QED
      BY <1>1, <1>3, <2>1 DEF HolderKnows, HeldPCs, fileVars
  <1>6. LockInv' /\ HolderInv' /\ FinishedInv' /\ CarriesInv' /\ RowInv'
    <2>1. UNCHANGED <<row, acked>> /\ lock' = w
      BY <1>0, HolderAlone DEF deliveryVars
    <2> QED
      BY <1>0, <1>3, <1>5, <2>1, HolderAlone, HolderStep
  <1> QED
    BY <1>3, <1>4, <1>6, TypePartsNext DEF IInv

LEMMA EndLoopInv ==
    ASSUME IInv, NEW w \in Workers, pc[w] \in RankPCs, NEW reason \in StopReasons,
           EndLoop(w, reason),
           UNCHANGED <<envVars, deliveryVars, checkpoint, fileVars, journal, lock, crashes>>
    PROVE  IInv'
  <1>0. pc[w] \in HeldPCs
    BY DEF HeldPCs
  <1>1. /\ checkpoint \in State /\ attempts \in 0..MaxSteps /\ call[w] \in CallRecord
        /\ answered \in BOOLEAN
    BY <1>0, IInvParts DEF HolderKnows, GlobalTypes
  <1>2. call[w].at \in 0..MaxOps
    BY <1>1 DEF CallRecord
  <1> DEFINE s == Ranked(reason, call[w].at)
  <1>3. /\ s \in State /\ s.phase = "RANKED" /\ s.terminal \in Terminals
        /\ s.used = attempts
    BY <1>1, <1>2, RankedValues
  <1>4. s.terminal # Nil
    BY <1>3, NilAssumption
  <1>5. answered' \in BOOLEAN
    BY DEF EndLoop
  <1>6. Proceed(w, "ranked", [call[w] EXCEPT !.state = s])
    BY DEF EndLoop
  <1> HIDE DEF s
  <1> QED
    BY <1>3, <1>4, <1>5, <1>6, ToRanked

LEMMA LoopInv ==
    ASSUME IInv, NEW w \in Workers, Loop(w)
    PROVE  IInv'
  <1> DEFINE at == call[w].at
  <1>0. pc[w] = "loop" /\ pc[w] \in HeldPCs /\ pc[w] \in RankPCs
    BY DEF Loop, HeldPCs, RankPCs
  <1>1. /\ HolderKnows(w) /\ GlobalTypes /\ CountInv /\ TypeInv /\ call[w] \in CallRecord
        /\ checkpoint \in State /\ attempts \in 0..MaxSteps
    BY <1>0, IInvParts DEF HolderKnows, GlobalTypes
  <1>2. UNCHANGED <<envVars, deliveryVars, checkpoint, fileVars, lock, crashes>>
    BY DEF Loop
  <1>3. CASE UNCHANGED journal /\ \E reason \in StopReasons : EndLoop(w, reason)
    BY <1>0, <1>2, <1>3, EndLoopInv
  <1>4. CASE /\ Proceed(w, "ranked", [call[w] EXCEPT !.state = Blocked])
             /\ UNCHANGED <<journal, answered>>
    <2>1. Blocked.terminal # Nil
      BY <1>1, BlockedValues, NilAssumption DEF Terminals
    <2>2. answered' \in BOOLEAN
      BY <1>1, <1>4 DEF GlobalTypes
    <2> QED
      BY <1>0, <1>1, <1>2, <1>4, <2>1, <2>2, BlockedValues, ToRanked
  <1>5. CASE /\ at < journal.completed
             /\ Proceed(w, IF at + 1 = journal.completed /\ journal.last # "more"
                             THEN "concluding" ELSE "loop", [call[w] EXCEPT !.at = at + 1])
             /\ UNCHANGED <<journal, answered>>
    <2> DEFINE label == IF at + 1 = journal.completed /\ journal.last # "more"
                          THEN "concluding" ELSE "loop"
    <2>1. [call[w] EXCEPT !.at = at + 1] \in CallRecord
      <3>1. at + 1 \in 0..MaxOps
        BY <1>1, <1>5, InvestigationAssumption DEF GlobalTypes, CallRecord
      <3> QED
        BY <1>1, <3>1 DEF CallRecord
    <2>2. label \in {"concluding", "loop"} /\ (label = "concluding" => journal.last # "more")
      OBVIOUS
    <2>3. {"concluding", "loop"} \subseteq PCs /\ {"concluding", "loop"} \subseteq RankPCs
      BY DEF PCs, RankPCs
    <2>4. /\ pc' \in [Workers -> PCs] /\ call' \in [Workers -> CallRecord]
          /\ pc'[w] = label /\ Others(w)
      BY <1>1, <1>5, <2>1, <2>2, <2>3, ProceedMoves
    <2>5. GlobalTypes' /\ CountInv'
      BY <1>1, <1>2, <1>5 DEF GlobalTypes, CountInv, envVars, deliveryVars, fileVars
    <2> HIDE DEF label
    <2>6. HolderKnows(w)' /\ pc'[w] \in HeldPCs
      BY <1>0, <1>1, <1>2, <1>5, <2>2, <2>4
         DEF HolderKnows, HeldPCs, RankPCs, CollectPCs, fileVars
    <2>7. LockInv' /\ HolderInv' /\ FinishedInv' /\ CarriesInv' /\ RowInv'
      BY <1>0, <1>2, <2>4, <2>6, HolderAlone, HolderStep DEF deliveryVars
    <2> QED
      BY <2>4, <2>5, <2>7, TypePartsNext DEF IInv
  <1>6. CASE /\ at = journal.charged /\ at = journal.completed /\ at # MaxOps
             /\ journal' = [journal EXCEPT !.charged = at + 1]
             /\ Goto(w, "operation") /\ UNCHANGED answered
    <2>1. /\ GlobalTypes' /\ CountInv'
          /\ journal'.completed < journal'.charged
      <3>1. /\ journal' \in [open : BOOLEAN, charged : 0..MaxOps, completed : 0..MaxOps,
                             last : {"more"} \cup Endings]
            /\ journal'.completed = at /\ journal'.charged = at + 1 /\ at \in Nat
        BY <1>1, <1>6, InvestigationAssumption DEF GlobalTypes
      <3> QED
        BY <1>1, <1>2, <1>6, <3>1 DEF GlobalTypes, CountInv, envVars, deliveryVars, fileVars
    <2>2. pc'[w] = "operation" /\ call'[w] = call[w]
      BY <1>1, <1>6, GotoMoves DEF PCs
    <2>3. HolderKnows(w)' /\ "operation" \in HeldPCs
      BY <1>0, <1>1, <1>2, <2>1, <2>2
         DEF HolderKnows, HeldPCs, RankPCs, CollectPCs, fileVars
    <2> QED
      BY <1>0, <1>2, <1>6, <2>1, <2>3, GotoStep DEF deliveryVars
  <1>7. {"DENIED", "TIMEOUT", "UNKNOWN_COMPLETION", "BUDGET_EXHAUSTED"} \subseteq StopReasons
    BY DEF StopReasons, Endings
  <1> QED
    BY <1>3, <1>4, <1>5, <1>6, <1>7 DEF Loop

LEMMA OperationInv ==
    ASSUME IInv, NEW w \in Workers, Operation(w)
    PROVE  IInv'
  <1>0. pc[w] = "operation" /\ pc[w] \in HeldPCs
    BY DEF Operation, HeldPCs, RankPCs
  <1>1. HolderKnows(w) /\ GlobalTypes /\ CountInv
    BY <1>0, IInvParts
  <1>2. PICK last \in {"more"} \cup Endings :
          journal' = [journal EXCEPT !.completed = @ + 1, !.last = last]
    BY DEF Operation
  <1>3. /\ journal' \in [open : BOOLEAN, charged : 0..MaxOps, completed : 0..MaxOps,
                         last : {"more"} \cup Endings]
        /\ journal'.completed <= journal'.charged
    <2>1. journal.completed + 1 \in 0..MaxOps /\ journal.completed + 1 <= journal.charged
      BY <1>0, <1>1, InvestigationAssumption DEF GlobalTypes, HolderKnows
    <2>2. /\ journal' = [journal EXCEPT !.completed = journal.completed + 1, !.last = last]
          /\ journal \in [open : BOOLEAN, charged : 0..MaxOps, completed : 0..MaxOps,
                          last : {"more"} \cup Endings]
      BY <1>1, <1>2 DEF GlobalTypes
    <2>3. journal'.completed = journal.completed + 1 /\ journal'.charged = journal.charged
      BY <2>2
    <2>4. journal' \in [open : BOOLEAN, charged : 0..MaxOps, completed : 0..MaxOps,
                        last : {"more"} \cup Endings]
      BY <2>1, <2>2
    <2> QED
      BY <2>1, <2>3, <2>4
  <1>4. GlobalTypes' /\ CountInv'
    BY <1>1, <1>3 DEF Operation, GlobalTypes, CountInv, envVars, deliveryVars, fileVars, historyVars
  <1>5. pc'[w] = "loop" /\ call'[w] = call[w]
    BY IInvParts, GotoMoves DEF Operation, PCs
  <1>6. HolderKnows(w)' /\ "loop" \in HeldPCs
    BY <1>0, <1>1, <1>5 DEF Operation, HolderKnows, HeldPCs, RankPCs, CollectPCs, fileVars
  <1> QED
    BY <1>0, <1>4, <1>6, GotoStep DEF Operation, deliveryVars

LEMMA ConcludeInv ==
    ASSUME IInv, NEW w \in Workers, Conclude(w)
    PROVE  IInv'
  <1>0. pc[w] = "concluding" /\ pc[w] \in HeldPCs /\ pc[w] \in RankPCs
    BY DEF Conclude, HeldPCs, RankPCs
  <1>1. journal.last \in Endings
    BY <1>0, IInvParts DEF HolderKnows, GlobalTypes
  <1>2. \E reason \in StopReasons : EndLoop(w, reason)
    BY <1>1 DEF Conclude, StopReasons, Endings
  <1> QED
    BY <1>0, <1>2, EndLoopInv DEF Conclude

LEMMA RankCommitInv ==
    ASSUME IInv, NEW w \in Workers, RankCommit(w)
    PROVE  IInv'
  <1> DEFINE s == call[w].state
             c == [call[w] EXCEPT !.ran = TRUE, !.at = 0, !.state = Nil]
  <1>0. pc[w] = "ranked" /\ pc[w] \in HeldPCs
    BY DEF RankCommit, HeldPCs, RankPCs
  <1>1. HolderKnows(w) /\ GlobalTypes /\ CountInv /\ TypeInv /\ call[w] \in CallRecord
    BY <1>0, IInvParts
  <1>2. s \in State /\ s.phase # "FINISHED" /\ checkpoint' = s
    BY <1>0, <1>1 DEF RankCommit, HolderKnows, RankPCs
  <1>3. c \in CallRecord /\ "node" \in PCs
    <2>1. 0 \in 0..MaxOps
      BY InvestigationAssumption
    <2> QED
      BY <1>1, <2>1 DEF CallRecord, PCs
  <1>4. /\ pc' \in [Workers -> PCs] /\ call' \in [Workers -> CallRecord]
        /\ pc'[w] = "node" /\ Others(w)
    BY <1>1, <1>3, ProceedMoves DEF RankCommit
  <1>5. GlobalTypes' /\ CountInv'
    BY <1>1, <1>2 DEF RankCommit, GlobalTypes, CountInv, envVars, deliveryVars, fileVars, historyVars
  <1>6. HolderKnows(w)' /\ pc'[w] \in HeldPCs
    BY <1>2, <1>4 DEF HolderKnows, HeldPCs, CollectPCs, RankPCs
  <1>7. LockInv' /\ HolderInv' /\ FinishedInv' /\ CarriesInv' /\ RowInv'
    BY <1>0, <1>4, <1>6, HolderAlone, HolderStep DEF RankCommit, deliveryVars
  <1> QED
    BY <1>4, <1>5, <1>7, TypePartsNext DEF IInv

(***************************************************************************)
(* Leaving the graph, and entering it.                                     *)
(***************************************************************************)

(* The report goes to the host for verification, or straight to the check. *)
LEMMA HandedValues == Handed \in {"verify", "check"} /\ (Verified => Handed = "verify")
  BY DEF Handed

LEMMA FinishInv ==
    ASSUME IInv, NEW w \in Workers, Finish(w)
    PROVE  IInv'
  <1> DEFINE s == [checkpoint EXCEPT !.phase = "FINISHED"]
             c == [call[w] EXCEPT !.state = s]
  <1>0. pc[w] = "node" /\ pc[w] \in HeldPCs
    BY DEF Finish, HeldPCs
  <1>1. /\ HolderKnows(w) /\ GlobalTypes /\ CountInv /\ TypeInv /\ call[w] \in CallRecord
        /\ checkpoint \in State
    BY <1>0, IInvParts DEF HolderKnows
  <1>2. /\ s \in State /\ s.phase = "FINISHED" /\ s.terminal = checkpoint.terminal
        /\ checkpoint' = s /\ checkpoint.terminal # Nil
    BY <1>1, RouteValues DEF Finish, State, Phases
  <1>3. Proceed(w, Handed, c)
    BY <1>2 DEF Finish
  <1> HIDE DEF s
  <1>4. c \in CallRecord /\ c.state = s /\ Handed \in PCs
    BY <1>1, <1>2, HandedValues DEF CallRecord, PCs
  <1> HIDE DEF c
  <1>5. /\ pc' \in [Workers -> PCs] /\ call' \in [Workers -> CallRecord]
        /\ pc'[w] = Handed /\ Others(w) /\ call'[w].state = s
    BY <1>1, <1>3, <1>4, ProceedMoves
  <1>6. /\ UNCHANGED <<row, acked, attempts, executed, marker, collection, collections, journal,
                       input, granted, late, answered, crashes>>
        /\ lock' = Nil
    BY DEF Finish, envVars, deliveryVars, fileVars, historyVars
  <1>7. GlobalTypes' /\ CountInv' /\ FinishedInv'
    BY <1>1, <1>2, <1>6 DEF GlobalTypes, CountInv, FinishedInv
  <1>8. Carries(w)' /\ pc'[w] \notin HeldPCs
    BY <1>2, <1>5, HandedValues DEF Carries, HeldPCs, CollectPCs, RankPCs
  <1>9. LockInv' /\ HolderInv' /\ CarriesInv' /\ RowInv'
    BY <1>0, <1>5, <1>6, <1>7, <1>8, ReleaseStep
  <1> QED
    BY <1>5, <1>7, <1>9, TypePartsNext DEF IInv

LEMMA BreakInv ==
    ASSUME IInv, NEW w \in Workers, Break(w)
    PROVE  IInv'
  <1> DEFINE c == [call[w] EXCEPT !.state = checkpoint]
  <1>0. pc[w] = "node" /\ pc[w] \in HeldPCs
    BY DEF Break, HeldPCs
  <1>1. /\ HolderKnows(w) /\ GlobalTypes /\ CountInv /\ TypeInv /\ call[w] \in CallRecord
        /\ checkpoint \in State /\ checkpoint.phase # "FINISHED"
    BY <1>0, IInvParts DEF HolderKnows
  <1>3. Proceed(w, Handed, c)
    BY DEF Break
  <1>4. c \in CallRecord /\ c.state = checkpoint /\ Handed \in PCs
    BY <1>1, HandedValues DEF CallRecord, PCs
  <1> HIDE DEF c
  <1>5. /\ pc' \in [Workers -> PCs] /\ call' \in [Workers -> CallRecord]
        /\ pc'[w] = Handed /\ Others(w) /\ call'[w].state = checkpoint
    BY <1>1, <1>3, <1>4, ProceedMoves
  <1>6. /\ UNCHANGED <<row, acked, attempts, executed, marker, collection, collections, journal,
                       input, granted, late, answered, crashes, checkpoint>>
        /\ lock' = Nil
    BY DEF Break, envVars, deliveryVars, fileVars, historyVars
  <1>7. GlobalTypes' /\ CountInv' /\ FinishedInv'
    BY <1>1, <1>6 DEF GlobalTypes, CountInv, FinishedInv, Finished
  <1>8. Carries(w)' /\ pc'[w] \notin HeldPCs
    BY <1>1, <1>5, <1>6, HandedValues DEF Carries, HeldPCs, CollectPCs, RankPCs
  <1>9. LockInv' /\ HolderInv' /\ CarriesInv' /\ RowInv'
    BY <1>0, <1>5, <1>6, <1>7, <1>8, ReleaseStep
  <1> QED
    BY <1>5, <1>7, <1>9, TypePartsNext DEF IInv

(* A worker outside the graph that moves on with new locals. *)
LEMMA MoveStep ==
    ASSUME IInv, NEW w \in Workers, pc[w] \notin HeldPCs, NEW label \in PCs \ HeldPCs,
           NEW c \in CallRecord, Proceed(w, label, c),
           UNCHANGED <<envVars, deliveryVars, checkpoint, fileVars, journal, lock, historyVars>>,
           pc'[w] = label /\ call'[w] = c => Carries(w)'
    PROVE  IInv'
  <1>1. /\ pc' \in [Workers -> PCs] /\ call' \in [Workers -> CallRecord]
        /\ pc'[w] = label /\ call'[w] = c /\ Others(w)
    BY IInvParts, ProceedMoves
  <1>2. UNCHANGED <<row, acked, attempts, executed, marker, collection, collections, journal,
                    input, granted, late, answered, crashes, checkpoint, lock>>
    BY DEF envVars, deliveryVars, fileVars, historyVars
  <1>3. GlobalTypes' /\ CountInv'
    BY <1>2, IInvParts DEF GlobalTypes, CountInv
  <1>4. RowInv'
    BY <1>2 DEF IInv, RowInv, Sealed, Finished, ReportOf, Publishable, Replayed
  <1>5. LockInv' /\ HolderInv' /\ FinishedInv' /\ CarriesInv'
    BY <1>1, <1>2, <1>4, OutsideStep
  <1> QED
    BY <1>1, <1>3, <1>4, <1>5, TypePartsNext DEF IInv

(* A worker that leaves and changes nothing else. *)
LEMMA QuietLeave ==
    ASSUME IInv, NEW w \in Workers, Leave(w), UNCHANGED <<envVars, deliveryVars, checkpoint, fileVars, journal>>,
           crashes' \in Nat, UNCHANGED answered
    PROVE  IInv'
  <1>1. lock' \in Workers \cup {Nil} => GlobalTypes'
    BY IInvParts DEF GlobalTypes, envVars, deliveryVars, fileVars
  <1> QED
    BY <1>1, LeaveStep DEF deliveryVars, fileVars

(* A worker takes the free lock of an unfinished investigation. *)
LEMMA EnterStep ==
    ASSUME IInv, NEW w \in Workers, lock = Nil, ~Finished, NEW c \in CallRecord,
           Proceed(w, "node", c), lock' = w, checkpoint' \in State,
           checkpoint'.phase # "FINISHED",
           UNCHANGED <<envVars, deliveryVars, fileVars, journal, historyVars>>
    PROVE  IInv'
  <1>1. /\ pc' \in [Workers -> PCs] /\ call' \in [Workers -> CallRecord]
        /\ pc'[w] = "node" /\ Others(w)
    BY IInvParts, ProceedMoves DEF PCs
  <1>2. GlobalTypes' /\ CountInv'
    BY IInvParts
       DEF GlobalTypes, CountInv, envVars, deliveryVars, fileVars, historyVars
  <1>3. HolderKnows(w)' /\ pc'[w] \in HeldPCs
    BY <1>1 DEF HolderKnows, HeldPCs, CollectPCs, RankPCs
  <1>4. \A v \in Workers \ {w} : pc[v] \notin HeldPCs /\ v # lock'
    BY NilAssumption DEF IInv, LockInv
  <1>5. LockInv' /\ HolderInv' /\ FinishedInv' /\ CarriesInv' /\ RowInv'
    BY <1>1, <1>3, <1>4, HolderStep DEF deliveryVars
  <1> QED
    BY <1>1, <1>2, <1>5, TypePartsNext DEF IInv

LEMMA ReceivedValues == Received \in State /\ Received.phase = "RECEIVED"
  <1>1. 0 \in 0..MaxOps /\ 0 \in 0..MaxSteps
    BY InvestigationAssumption
  <1> QED
    BY <1>1 DEF Received, State, Phases

LEMMA StartInv ==
    ASSUME IInv, NEW w \in Workers, Start(w)
    PROVE  IInv'
  <1>0. pc[w] = "start" /\ pc[w] \notin HeldPCs
    BY DEF Start, HeldPCs, CollectPCs, RankPCs
  <1>1. /\ call[w] \in CallRecord /\ checkpoint \in State \cup {Nil} /\ GlobalTypes
        /\ call \in [Workers -> CallRecord]
    BY IInvParts DEF GlobalTypes
  <1>2. CASE Leave(w) /\ UNCHANGED checkpoint
    BY <1>1, <1>2, QuietLeave DEF Start, historyVars, GlobalTypes
  <1>3. CASE /\ checkpoint # Nil
             /\ Proceed(w, Handed, [call[w] EXCEPT !.state = checkpoint])
             /\ UNCHANGED <<lock, checkpoint>>
    <2> DEFINE c == [call[w] EXCEPT !.state = checkpoint]
    <2>1. c \in CallRecord /\ c.state = checkpoint /\ checkpoint \in State
      BY <1>1, <1>3 DEF CallRecord
    <2>2. Handed \in PCs \ HeldPCs
      BY HandedValues DEF PCs, HeldPCs, CollectPCs, RankPCs
    <2>3. Proceed(w, Handed, c)
      BY <1>3
    <2> HIDE DEF c
    <2>4. pc'[w] = Handed /\ call'[w] = c => Carries(w)'
      BY <1>3, <2>1, HandedValues DEF Carries
    <2> QED
      BY <1>0, <1>3, <2>1, <2>2, <2>3, <2>4, MoveStep DEF Start
  <1>4. CASE lock = Nil /\ checkpoint = Nil /\ checkpoint' = Received /\ lock' = w /\ Goto(w, "node")
    <2>1. Proceed(w, "node", call[w])
      BY <1>1, <1>4 DEF Goto, Proceed
    <2>2. ~Finished
      BY <1>4 DEF Finished
    <2> QED
      BY <1>1, <1>4, <2>1, <2>2, ReceivedValues, EnterStep DEF Start
  <1> QED
    BY <1>2, <1>3, <1>4 DEF Start

LEMMA ResumeInv ==
    ASSUME IInv, NEW w \in Workers, Resume(w)
    PROVE  IInv'
  <1>0. pc[w] = "resume" /\ pc[w] \notin HeldPCs
    BY DEF Resume, HeldPCs, CollectPCs, RankPCs
  <1>1. /\ call[w] \in CallRecord /\ checkpoint \in State \cup {Nil} /\ GlobalTypes
        /\ call \in [Workers -> CallRecord]
    BY IInvParts DEF GlobalTypes
  <1>2. CASE Leave(w)
    BY <1>1, <1>2, QuietLeave DEF Resume, historyVars, GlobalTypes
  <1>3. CASE /\ checkpoint # Nil
             /\ Proceed(w, Handed, [call[w] EXCEPT !.state = checkpoint, !.resumed = TRUE])
             /\ UNCHANGED lock
    <2> DEFINE c == [call[w] EXCEPT !.state = checkpoint, !.resumed = TRUE]
    <2>1. c \in CallRecord /\ c.state = checkpoint /\ checkpoint \in State
      BY <1>1, <1>3 DEF CallRecord
    <2>2. Handed \in PCs \ HeldPCs
      BY HandedValues DEF PCs, HeldPCs, CollectPCs, RankPCs
    <2>3. Proceed(w, Handed, c)
      BY <1>3
    <2> HIDE DEF c
    <2>5. UNCHANGED <<envVars, deliveryVars, checkpoint, fileVars, journal, lock, historyVars>>
      BY <1>3 DEF Resume
    <2>4. pc'[w] = Handed /\ call'[w] = c => Carries(w)'
      BY <2>5, <2>1, HandedValues DEF Carries
    <2> QED
      BY <1>0, <2>1, <2>2, <2>3, <2>4, <2>5, MoveStep
  <1>4. CASE /\ lock = Nil /\ checkpoint # Nil /\ checkpoint.phase # "FINISHED"
             /\ lock' = w /\ Proceed(w, "node", [call[w] EXCEPT !.resumed = TRUE])
    <2>1. [call[w] EXCEPT !.resumed = TRUE] \in CallRecord /\ checkpoint' = checkpoint
      BY <1>1 DEF CallRecord, Resume
    <2>2. ~Finished /\ checkpoint \in State
      BY <1>1, <1>4 DEF Finished
    <2> QED
      BY <1>4, <2>1, <2>2, EnterStep DEF Resume
  <1> QED
    BY <1>2, <1>3, <1>4 DEF Resume

(***************************************************************************)
(* The calls around the graph.                                             *)
(***************************************************************************)

LEMMA DeliverInv ==
    ASSUME IInv, NEW w \in Workers, Deliver(w)
    PROVE  IInv'
  <1>0. pc[w] = "idle" /\ pc[w] \notin HeldPCs
    BY DEF Deliver, HeldPCs, CollectPCs, RankPCs
  <1>1. UNCHANGED <<envVars, deliveryVars, checkpoint, fileVars, journal, lock, historyVars>>
    BY DEF Deliver
  <1>2. CASE Proceed(w, "start", [NoCall EXCEPT !.op = "deliver"])
    <2>1. [NoCall EXCEPT !.op = "deliver"] \in CallRecord
      BY NoCallType DEF CallRecord
    <2>2. "start" \in PCs \ HeldPCs
      BY DEF PCs, HeldPCs, CollectPCs, RankPCs
    <2>3. pc'[w] = "start" => Carries(w)'
      BY DEF Carries
    <2> QED
      BY <1>0, <1>1, <1>2, <2>1, <2>2, <2>3, MoveStep
  <1>3. CASE row # Nil /\ Proceed(w, "publish", [NoCall EXCEPT !.op = "deliver", !.report = row])
    <2> DEFINE c == [NoCall EXCEPT !.op = "deliver", !.report = row]
    <2>1. c \in CallRecord /\ c.report = row
      BY NoCallType, IInvParts DEF CallRecord, GlobalTypes
    <2>2. "publish" \in PCs \ HeldPCs
      BY DEF PCs, HeldPCs, CollectPCs, RankPCs
    <2>3. Sealed(row)'
      BY <1>1, <1>3 DEF IInv, RowInv, Sealed, Finished, ReportOf, Publishable, Replayed, deliveryVars
    <2>4. Proceed(w, "publish", c)
      BY <1>3
    <2> HIDE DEF c
    <2>5. pc'[w] = "publish" /\ call'[w] = c => Carries(w)'
      <3>1. row' = row
        BY <1>1 DEF deliveryVars
      <3> QED
        BY <2>1, <2>3, <3>1 DEF Carries
    <2> QED
      BY <1>0, <1>1, <2>1, <2>2, <2>4, <2>5, MoveStep
  <1>4. CASE UNCHANGED <<pc, call>>
    <2>1. Proceed(w, "idle", call[w]) /\ call[w] \in CallRecord
      BY <1>0, <1>4, IInvParts DEF Proceed, TypeInv, TypeOK
    <2>2. "idle" \in PCs \ HeldPCs
      BY DEF PCs, HeldPCs, CollectPCs, RankPCs
    <2>3. pc'[w] = "idle" => Carries(w)'
      BY DEF Carries
    <2> QED
      BY <1>0, <1>1, <2>1, <2>2, <2>3, MoveStep
  <1> QED
    BY <1>2, <1>3, <1>4 DEF Deliver

LEMMA OperateInv ==
    ASSUME IInv, NEW w \in Workers, Operate(w)
    PROVE  IInv'
  <1>0. pc[w] = "idle" /\ pc[w] \notin HeldPCs
    BY DEF Operate, HeldPCs, CollectPCs, RankPCs
  <1>1. PICK op \in {"start", "resume"} : Proceed(w, op, [NoCall EXCEPT !.op = op])
    BY DEF Operate
  <1>2. [NoCall EXCEPT !.op = op] \in CallRecord
    BY <1>1, NoCallType DEF CallRecord
  <1>3. op \in PCs \ HeldPCs
    BY <1>1 DEF PCs, HeldPCs, CollectPCs, RankPCs
  <1>4. pc'[w] = op => Carries(w)'
    BY <1>1 DEF Carries
  <1> QED
    BY <1>0, <1>1, <1>2, <1>3, <1>4, MoveStep DEF Operate

(* The report of a finished checkpoint is a report. *)
LEMMA SealedReport ==
    ASSUME IInv, NEW r, Sealed(r)
    PROVE  r \in Report /\ r # Nil
  <1>1. checkpoint \in State /\ checkpoint.terminal \in Terminals
    BY IInvParts DEF Sealed, Finished, IInv, FinishedInv, GlobalTypes, State
  <1>2. ReportOf(checkpoint) \in Report
    BY <1>1 DEF ReportOf, Report, State
  <1> QED
    BY <1>2, NilAssumption DEF Sealed

LEMMA VerifyInv ==
    ASSUME IInv, NEW w \in Workers, Verify(w)
    PROVE  IInv'
  <1>0. pc[w] = "verify" /\ pc[w] \notin HeldPCs /\ call[w] \in CallRecord /\ Carries(w)
    BY IInvParts DEF Verify, HeldPCs, CollectPCs, RankPCs, IInv, CarriesInv
  <1>1. CASE Leave(w)
    BY <1>1, IInvParts, QuietLeave DEF Verify, historyVars, GlobalTypes
  <1>2. CASE Publishable(call[w].state) /\ Goto(w, "check") /\ UNCHANGED lock
    <2>1. Proceed(w, "check", call[w])
      BY <1>2, IInvParts DEF Goto, Proceed
    <2>2. "check" \in PCs \ HeldPCs
      BY DEF PCs, HeldPCs, CollectPCs, RankPCs
    <2>3. UNCHANGED <<envVars, deliveryVars, checkpoint, fileVars, journal, lock, historyVars>>
      BY <1>2 DEF Verify
    <2>4. pc'[w] = "check" /\ call'[w] = call[w] => Carries(w)'
      BY <1>0, <1>2, <2>3 DEF Carries, Publishable, Replayed
    <2> QED
      BY <1>0, <2>1, <2>2, <2>3, <2>4, MoveStep
  <1> QED
    BY <1>1, <1>2 DEF Verify

LEMMA CheckInv ==
    ASSUME IInv, NEW w \in Workers, Check(w)
    PROVE  IInv'
  <1>0. /\ pc[w] = "check" /\ pc[w] \notin HeldPCs /\ call[w] \in CallRecord /\ Carries(w)
        /\ call[w].state \in State
    BY IInvParts DEF Check, HeldPCs, CollectPCs, RankPCs, IInv, CarriesInv, Carries
  <1>1. CASE Leave(w)
    BY <1>1, IInvParts, QuietLeave DEF Check, historyVars, GlobalTypes
  <1>2. CASE /\ call[w].state.phase = "FINISHED"
             /\ Proceed(w, "publish", [call[w] EXCEPT !.report = ReportOf(call[w].state)])
             /\ UNCHANGED lock
    <2> DEFINE c == [call[w] EXCEPT !.report = ReportOf(call[w].state)]
    <2>1. checkpoint = call[w].state /\ Finished /\ (Verified => Publishable(checkpoint))
      BY <1>0, <1>2, NilAssumption DEF Carries, Finished
    <2>2. Sealed(ReportOf(checkpoint)) /\ ReportOf(checkpoint) \in Report
      BY <2>1, SealedReport DEF Sealed
    <2>3. c \in CallRecord /\ c.report = ReportOf(checkpoint)
      BY <1>0, <2>1, <2>2 DEF CallRecord
    <2>4. "publish" \in PCs \ HeldPCs
      BY DEF PCs, HeldPCs, CollectPCs, RankPCs
    <2>5. UNCHANGED <<envVars, deliveryVars, checkpoint, fileVars, journal, lock, historyVars>>
      BY <1>2 DEF Check
    <2>6. Proceed(w, "publish", c)
      BY <1>2
    <2> HIDE DEF c
    <2>7. pc'[w] = "publish" /\ call'[w] = c => Carries(w)'
      BY <2>2, <2>3, <2>5 DEF Carries, Sealed, Finished, ReportOf, Publishable, Replayed
    <2> QED
      BY <1>0, <2>3, <2>4, <2>5, <2>6, <2>7, MoveStep
  <1>3. CASE /\ Proceed(w, "resume", [call[w] EXCEPT !.state = Nil, !.ran = FALSE])
             /\ UNCHANGED lock
    <2>1. [call[w] EXCEPT !.state = Nil, !.ran = FALSE] \in CallRecord
      BY <1>0 DEF CallRecord
    <2>2. "resume" \in PCs \ HeldPCs
      BY DEF PCs, HeldPCs, CollectPCs, RankPCs
    <2>3. pc'[w] = "resume" => Carries(w)'
      BY DEF Carries
    <2> QED
      BY <1>0, <1>3, <2>1, <2>2, <2>3, MoveStep DEF Check
  <1> QED
    BY <1>1, <1>2, <1>3 DEF Check

LEMMA PublishInv ==
    ASSUME IInv, NEW w \in Workers, Publish(w)
    PROVE  IInv'
  <1>0. pc[w] = "publish" /\ pc[w] \notin HeldPCs /\ call[w] \in CallRecord /\ Sealed(call[w].report)
    BY IInvParts DEF Publish, HeldPCs, CollectPCs, RankPCs, IInv, CarriesInv, Carries
  <1>1. CASE Leave(w) /\ UNCHANGED row
    BY <1>1, IInvParts, QuietLeave DEF Publish, historyVars, GlobalTypes, deliveryVars
  <1>2. CASE /\ row' = IF row = Nil THEN call[w].report ELSE row
             /\ Goto(w, "acknowledge") /\ UNCHANGED lock
    <2>1. UNCHANGED <<acked, attempts, executed, marker, collection, collections, journal,
                      input, granted, late, answered, crashes, checkpoint, lock>>
      BY <1>2 DEF Publish, envVars, fileVars, historyVars
    <2>2. /\ pc' \in [Workers -> PCs] /\ call' \in [Workers -> CallRecord]
          /\ pc'[w] = "acknowledge" /\ Others(w)
      BY <1>2, IInvParts, GotoMoves DEF PCs
    <2>3. row' \in Report /\ row' # Nil /\ (row # Nil => row' = row) /\ Sealed(row')
      BY <1>0, <1>2, SealedReport DEF IInv, RowInv
    <2>4. RowInv'
      BY <2>1, <2>3 DEF RowInv, Sealed, Finished, ReportOf, Publishable, Replayed
    <2>5. GlobalTypes' /\ CountInv'
      BY <2>1, <2>3, IInvParts DEF GlobalTypes, CountInv
    <2>6. Carries(w)' /\ pc'[w] \notin HeldPCs
      BY <2>2, <2>3 DEF Carries, HeldPCs, CollectPCs, RankPCs
    <2>7. LockInv' /\ HolderInv' /\ FinishedInv' /\ CarriesInv'
      BY <1>0, <2>1, <2>2, <2>3, <2>4, <2>6, OutsideStep
    <2> QED
      BY <2>2, <2>4, <2>5, <2>7, TypePartsNext DEF IInv
  <1> QED
    BY <1>1, <1>2 DEF Publish

LEMMA AcknowledgeInv ==
    ASSUME IInv, NEW w \in Workers, Acknowledge(w)
    PROVE  IInv'
  <1>0. pc[w] = "acknowledge" /\ pc[w] \notin HeldPCs /\ row # Nil
    BY DEF Acknowledge, HeldPCs, CollectPCs, RankPCs, IInv, CarriesInv, Carries
  <1>1. UNCHANGED <<row, attempts, executed, marker, collection, collections, journal,
                    input, granted, late, answered, crashes, checkpoint>>
    BY DEF Acknowledge, envVars, fileVars, historyVars
  <1>2. /\ pc' \in [Workers -> PCs] /\ call' \in [Workers -> CallRecord]
        /\ pc'[w] = "idle" /\ Others(w) /\ lock' = lock
    BY <1>0, LeaveMoves DEF Acknowledge, IInv, Leave, LockInv
  <1>3. RowInv'
    BY <1>0, <1>1 DEF IInv, RowInv, Sealed, Finished, ReportOf, Publishable, Replayed
  <1>4. GlobalTypes' /\ CountInv'
    BY <1>1, <1>2, IInvParts DEF GlobalTypes, CountInv, Acknowledge
  <1>5. Carries(w)' /\ pc'[w] \notin HeldPCs
    BY <1>2 DEF Carries, HeldPCs, CollectPCs, RankPCs
  <1>6. LockInv' /\ HolderInv' /\ FinishedInv' /\ CarriesInv'
    BY <1>0, <1>1, <1>2, <1>3, <1>5, OutsideStep
  <1> QED
    BY <1>2, <1>3, <1>4, <1>6, TypePartsNext DEF IInv

LEMMA CrashInv ==
    ASSUME IInv, NEW w \in Workers, Crash(w)
    PROVE  IInv'
  <1>1. crashes' \in Nat
    BY IInvParts DEF Crash, GlobalTypes
  <1> QED
    BY <1>1, QuietLeave DEF Crash

(* The grant and the clock are nobody's state. *)
LEMMA AroundInv ==
    ASSUME IInv, {granted', late'} \subseteq BOOLEAN,
           UNCHANGED <<input, deliveryVars, checkpoint, fileVars, journal, lock, historyVars, pc, call>>
    PROVE  IInv'
  <1>1. UNCHANGED <<input, row, acked, attempts, executed, marker, collection, collections,
                    journal, answered, crashes, checkpoint, lock, pc, call>>
    BY DEF deliveryVars, fileVars, historyVars
  <1>2. TypeInv' /\ CountInv'
    BY <1>1, IInvParts, TypePartsNext DEF GlobalTypes, CountInv, TypeInv, TypeOK
  <1>3. LockInv' /\ FinishedInv'
    BY <1>1 DEF IInv, LockInv, FinishedInv, Finished
  <1>4. HolderInv'
    BY <1>1 DEF IInv, HolderInv, HolderKnows
  <1>5. CarriesInv'
    BY <1>1, ZenonT(60) DEF IInv, CarriesInv, Carries, Sealed, Finished, ReportOf, Publishable, Replayed
  <1>6. RowInv'
    BY <1>1 DEF IInv, RowInv, Sealed, Finished, ReportOf, Publishable, Replayed
  <1> QED
    BY <1>2, <1>3, <1>4, <1>5, <1>6 DEF IInv

(***************************************************************************)
(* The invariant is inductive.                                             *)
(***************************************************************************)

LEMMA InitInv == Init => IInv
  <1> SUFFICES ASSUME Init PROVE IInv
    OBVIOUS
  <1>1. 0 \in 0..MaxOps /\ 0 \in 0..MaxSteps /\ 0 \in Nat
    BY InvestigationAssumption
  <1>2. TypeInv
    BY <1>1, NoCallType DEF Init, TypeInv, TypeOK, NoJournal, PCs
  <1>3. \A w \in Workers : pc[w] = "idle"
    BY DEF Init
  <1>4. "idle" \notin HeldPCs \cup {"verify", "check", "publish", "acknowledge"}
    BY DEF HeldPCs, CollectPCs, RankPCs
  <1>5. LockInv
    BY <1>3, <1>4, NilAssumption DEF Init, LockInv
  <1>6. CountInv
    BY <1>1 DEF Init, CountInv, NoJournal
  <1>7. HolderInv /\ CarriesInv
    BY <1>3, <1>4 DEF HolderInv, CarriesInv, Carries
  <1>8. FinishedInv /\ RowInv
    BY DEF Init, FinishedInv, Finished, RowInv
  <1> QED
    BY <1>2, <1>5, <1>6, <1>7, <1>8 DEF IInv

LEMMA NextInv == IInv /\ [Next]_vars => IInv'
  <1> SUFFICES ASSUME IInv, [Next]_vars PROVE IInv'
    OBVIOUS
  <1>0. {granted, late} \subseteq BOOLEAN
    BY IInvParts DEF GlobalTypes
  <1>1. ASSUME NEW w \in Workers, Step(w) PROVE IInv'
    BY <1>1, StartInv, ResumeInv, AttemptInv, TriageInv, ReserveReadsInv, CollectInv,
       CollectingInv, OpenResultInv, RetainInv, RankInv, LoopInv, OperationInv, ConcludeInv,
       RankCommitInv, FinishInv, BreakInv, VerifyInv, CheckInv, PublishInv, AcknowledgeInv
       DEF Step
  <1>2. ASSUME NEW w \in Workers, Deliver(w) \/ Operate(w) \/ Crash(w) PROVE IInv'
    BY <1>2, DeliverInv, OperateInv, CrashInv
  <1>3. CASE Expire
    BY <1>0, <1>3, AroundInv DEF Expire
  <1>4. CASE Regrant
    BY <1>0, <1>4, AroundInv DEF Regrant
  <1>5. CASE UNCHANGED vars
    BY <1>0, <1>5, AroundInv DEF vars, envVars
  <1> QED
    BY <1>1, <1>2, <1>3, <1>4, <1>5 DEF Next

(* What every process knows of the checkpoint, the files and the row it    *)
(* works on stays true, whatever other processes and deaths come between.  *)
THEOREM Inductive == Spec => []IInv
  BY InitInv, NextInv, PTL DEF Spec

(* Every variable keeps its type, in every reachable state.                *)
THEOREM TypeCorrect == Spec => []TypeOK
  <1>1. IInv => TypeOK
    BY DEF IInv, TypeInv
  <1> QED
    BY <1>1, Inductive, PTL

(* For every number of workers, deliveries and deaths: an acknowledged     *)
(* message has its report in the row, and that report is the one of the    *)
(* finished checkpoint.                                                    *)
THEOREM ReportBeforeAck == Spec => []AcknowledgedReport
  <1>1. IInv => AcknowledgedReport
    BY DEF IInv, RowInv, Sealed, AcknowledgedReport
  <1> QED
    BY <1>1, Inductive, PTL

(* However often the workers die, the collector is called at most once:    *)
(* the marker is written before the call and never removed.                *)
THEOREM CollectionNotRepeated == Spec => []CollectedOnce
  <1>1. IInv => CollectedOnce
    BY DEF IInv, CountInv, CollectedOnce
  <1> QED
    BY <1>1, Inductive, PTL

(* Restarts do not replenish the step allowance: every node body has an    *)
(* attempt file of its own, and there are at most MaxSteps of them.        *)
THEOREM AllowanceKept == Spec => []StepsNeverReplenished
  <1>1. IInv => StepsNeverReplenished
    BY InvestigationAssumption, IInvParts
       DEF IInv, CountInv, GlobalTypes, StepsNeverReplenished
  <1> QED
    BY <1>1, Inductive, PTL

(* What the operator host lets into the row accounts for the whole         *)
(* journal.  The bare graph promises nothing of the kind, hence the        *)
(* hypothesis that calls go through the host.                              *)
THEOREM HostPublishesHonestly ==
    ASSUME Verified
    PROVE  Spec => []HonestReport
  <1>1. IInv => HonestReport
    <2> SUFFICES ASSUME IInv, row # Nil
                 PROVE  IF row.stop \in {Nil, "SECURITY_BLOCK"}
                          THEN ~journal.open
                          ELSE /\ journal.charged = journal.completed
                               /\ row.receipts = journal.completed
      BY DEF HonestReport
    <2>1. row = ReportOf(checkpoint) /\ Publishable(checkpoint)
      BY DEF IInv, RowInv, Sealed
    <2>2. row.stop = checkpoint.stop /\ row.receipts = checkpoint.receipts
      BY <2>1 DEF ReportOf
    <2> QED
      BY <2>1, <2>2 DEF Publishable
  <1> QED
    BY <1>1, Inductive, PTL

(***************************************************************************)
(* The saved investigation only moves forward.                             *)
(***************************************************************************)

\* What a step may do to a checkpoint that exists.
MovesForward ==
    checkpoint # Nil =>
         /\ checkpoint' # Nil
         /\ Progress[checkpoint'.phase] >= Progress[checkpoint.phase]
         /\ checkpoint'.used >= checkpoint.used
         /\ checkpoint.terminal # Nil => ReportOf(checkpoint') = ReportOf(checkpoint)
         /\ Finished => checkpoint' = checkpoint

LEMMA ProgressValues ==
    /\ Progress["RECEIVED"] = 0 /\ Progress["TRIAGED"] = 1 /\ Progress["READS_RESERVED"] = 2
    /\ Progress["EVIDENCE_COLLECTED"] = 3 /\ Progress["RANKED"] = 4 /\ Progress["FINISHED"] = 5
  BY DEF Progress, Phases

LEMMA ProgressNat == ASSUME NEW p \in Phases PROVE Progress[p] \in Nat
  BY ProgressValues DEF Phases

LEMMA SameForward == ASSUME IInv, checkpoint' = checkpoint PROVE MovesForward
  <1> SUFFICES ASSUME checkpoint # Nil PROVE MovesForward
    BY DEF MovesForward
  <1>1. checkpoint \in State
    BY IInvParts DEF GlobalTypes
  <1>2. checkpoint.phase \in Phases /\ checkpoint.used \in 0..MaxSteps
    BY <1>1 DEF State
  <1>3. Progress[checkpoint.phase] \in Nat
    BY <1>2, ProgressNat
  <1> QED
    BY <1>2, <1>3, InvestigationAssumption DEF MovesForward, ReportOf

(* A node commits a state at least as far as the one it started from.      *)
LEMMA CommitForward ==
    ASSUME IInv, NEW w \in Workers, pc[w] \in HeldPCs \ {"node"}, NEW s \in State,
           checkpoint' = s, s.used = attempts,
           Progress[s.phase] >= Progress[checkpoint.phase]
    PROVE  MovesForward
  <1>1. HolderKnows(w) /\ ~Finished
    BY HolderAlone
  <1>2. checkpoint.terminal = Nil /\ checkpoint.used <= attempts
    BY <1>1 DEF HolderKnows
  <1>3. attempts \in Nat /\ checkpoint.used \in Nat
    BY <1>1, IInvParts, InvestigationAssumption DEF HolderKnows, GlobalTypes, State
  <1> QED
    BY <1>1, <1>2, <1>3, NilAssumption DEF MovesForward

LEMMA DoneForward ==
    ASSUME IInv, NEW w \in Workers, pc[w] \in HeldPCs \ {"node"}, NEW p \in Phases,
           NEW t \in Terminals \cup {Nil}, checkpoint' = Done(checkpoint, p, t),
           Progress[p] >= Progress[checkpoint.phase]
    PROVE  MovesForward
  <1>1. checkpoint \in State /\ attempts \in 0..MaxSteps
    BY IInvParts DEF HolderKnows, GlobalTypes
  <1>2. /\ Done(checkpoint, p, t) \in State /\ Done(checkpoint, p, t).phase = p
        /\ Done(checkpoint, p, t).used = attempts
    BY <1>1, DoneValues
  <1> QED
    BY <1>2, CommitForward

LEMMA AttemptForward == ASSUME IInv, NEW w \in Workers, Attempt(w) PROVE MovesForward
  <1> DEFINE used == AttemptsUsed(checkpoint)
             spent == [checkpoint EXCEPT !.used = used, !.terminal = "BUDGET_EXHAUSTED"]
  <1>0. pc[w] \in HeldPCs
    BY DEF Attempt, HeldPCs
  <1>1. checkpoint \in State /\ ~Finished /\ attempts \in 0..MaxSteps
    BY <1>0, HolderAlone, IInvParts DEF HolderKnows, GlobalTypes
  <1>2. checkpoint.terminal = Nil
    BY <1>1, RouteValues DEF Attempt
  <1>3. used >= checkpoint.used
    BY <1>1, AttemptsUsedValues
  <1>4. CASE checkpoint' = checkpoint
    BY <1>4, SameForward
  <1>5. CASE checkpoint' = spent
    <2>1. /\ spent.phase = checkpoint.phase /\ spent.used = used
          /\ spent \in State
      BY <1>1, AttemptsUsedValues DEF State, Terminals
    <2>2. Progress[checkpoint.phase] \in Nat
      BY <1>1, ProgressNat DEF State
    <2> HIDE DEF spent, used
    <2> QED
      BY <1>1, <1>2, <1>3, <1>5, <2>1, <2>2, NilAssumption DEF MovesForward
  <1> QED
    BY <1>4, <1>5 DEF Attempt, Commit

LEMMA NodesForward ==
    ASSUME IInv, NEW w \in Workers, Triage(w) \/ ReserveReads(w)
    PROVE  MovesForward
  <1>1. CASE Triage(w)
    <2> DEFINE t == IF input.scope THEN Nil ELSE "SECURITY_BLOCK"
    <2>0. pc[w] = "triage" /\ pc[w] \in HeldPCs \ {"node"}
      BY <1>1 DEF Triage, HeldPCs
    <2>1. t \in Terminals \cup {Nil} /\ "TRIAGED" \in Phases
      BY DEF Terminals, Phases
    <2>2. checkpoint.phase = "RECEIVED"
      BY <2>0, IInvParts DEF HolderKnows
    <2>3. checkpoint' = Done(checkpoint, "TRIAGED", t)
      BY <1>1 DEF Triage, Commit
    <2> QED
      BY <2>0, <2>1, <2>2, <2>3, ProgressValues, DoneForward
  <1>2. CASE ReserveReads(w)
    <2>0. pc[w] = "reserve" /\ pc[w] \in HeldPCs \ {"node"}
      BY <1>2 DEF ReserveReads, HeldPCs
    <2>1. "BUDGET_EXHAUSTED" \in Terminals /\ "TRIAGED" \in Phases /\ "READS_RESERVED" \in Phases
      BY DEF Terminals, Phases
    <2>2. checkpoint.phase = "TRIAGED"
      BY <2>0, IInvParts DEF HolderKnows
    <2>3. \/ checkpoint' = Done(checkpoint, "READS_RESERVED", Nil)
          \/ checkpoint' = Done(checkpoint, "TRIAGED", "BUDGET_EXHAUSTED")
      BY <1>2 DEF ReserveReads, Commit
    <2> QED
      BY <2>0, <2>1, <2>2, <2>3, ProgressValues, DoneForward
  <1> QED
    BY <1>1, <1>2

LEMMA CollectForward ==
    ASSUME IInv, NEW w \in Workers, Collect(w) \/ Collecting(w) \/ Retain(w)
    PROVE  MovesForward
  <1>0. pc[w] \in CollectPCs /\ pc[w] \in HeldPCs \ {"node"}
    BY DEF Collect, Collecting, Retain, CollectPCs, HeldPCs
  <1>1. checkpoint.phase = "READS_RESERVED"
    BY <1>0, IInvParts DEF HolderKnows
  <1>2. CASE checkpoint' = checkpoint
    BY <1>2, SameForward
  <1>3. CASE checkpoint' = Done(checkpoint, "EVIDENCE_COLLECTED", Nil)
    BY <1>0, <1>1, <1>3, ProgressValues, DoneForward DEF Phases
  <1>4. CASE \E t \in {"DEPENDENCY_UNAVAILABLE", "SECURITY_BLOCK"} :
               checkpoint' = Done(checkpoint, checkpoint.phase, t)
    <2>1. PICK t \in {"DEPENDENCY_UNAVAILABLE", "SECURITY_BLOCK"} :
               checkpoint' = Done(checkpoint, checkpoint.phase, t)
      BY <1>4
    <2>2. t \in Terminals /\ "READS_RESERVED" \in Phases
      BY <2>1 DEF Terminals, Phases
    <2> QED
      BY <1>0, <1>1, <2>1, <2>2, ProgressValues, DoneForward
  <1> QED
    BY <1>2, <1>3, <1>4 DEF Collect, Collecting, Retain, CollectFailed, Commit

LEMMA RankForward ==
    ASSUME IInv, NEW w \in Workers, Rank(w) \/ RankCommit(w)
    PROVE  MovesForward
  <1>0. pc[w] \in RankPCs /\ pc[w] \in HeldPCs \ {"node"}
    BY DEF Rank, RankCommit, RankPCs, HeldPCs
  <1>1. /\ checkpoint \in State /\ attempts \in 0..MaxSteps
        /\ checkpoint.phase \in {"EVIDENCE_COLLECTED", "RANKED"}
    BY <1>0, IInvParts DEF HolderKnows, GlobalTypes
  <1>2. CASE checkpoint' = checkpoint
    BY <1>2, SameForward
  <1>3. CASE checkpoint' = Blocked
    BY <1>0, <1>1, <1>3, BlockedValues, ProgressValues, CommitForward
  <1>4. CASE \E t \in {"ESCALATED", "EVIDENCE_INSUFFICIENT"} :
               checkpoint' = Done(checkpoint, "RANKED", t)
    BY <1>0, <1>1, <1>4, ProgressValues, DoneForward DEF Terminals, Phases
  <1>5. CASE RankCommit(w)
    <2>1. /\ call[w].state \in State /\ call[w].state.used = attempts
          /\ call[w].state.phase \in {"RANKED", checkpoint.phase}
      BY <1>0, <1>5, IInvParts DEF HolderKnows, RankCommit
    <2> QED
      BY <1>0, <1>1, <1>5, <2>1, ProgressValues, CommitForward DEF RankCommit
  <1> QED
    BY <1>2, <1>3, <1>4, <1>5 DEF Rank, Commit

LEMMA FinishForward == ASSUME IInv, NEW w \in Workers, Finish(w) PROVE MovesForward
  <1> DEFINE s == [checkpoint EXCEPT !.phase = "FINISHED"]
  <1>0. pc[w] \in HeldPCs
    BY DEF Finish, HeldPCs
  <1>1. checkpoint \in State /\ ~Finished /\ checkpoint' = s
    BY <1>0, HolderAlone DEF HolderKnows, Finish
  <1>2. /\ s.phase = "FINISHED" /\ s.used = checkpoint.used /\ s.terminal = checkpoint.terminal
        /\ s.stop = checkpoint.stop /\ s.receipts = checkpoint.receipts /\ s \in State
    BY <1>1 DEF State, Phases
  <1>3. Progress["FINISHED"] >= Progress[checkpoint.phase] /\ checkpoint.used \in Nat
    BY <1>1, ProgressValues, InvestigationAssumption DEF State, Phases
  <1> HIDE DEF s
  <1> QED
    BY <1>1, <1>2, <1>3, NilAssumption DEF MovesForward, ReportOf

LEMMA NextForward == IInv /\ [Next]_vars => MovesForward
  <1> SUFFICES ASSUME IInv, [Next]_vars PROVE MovesForward
    OBVIOUS
  <1>1. ASSUME NEW w \in Workers, Step(w) PROVE MovesForward
    <2>1. CASE Attempt(w)
      BY <2>1, AttemptForward
    <2>2. CASE Triage(w) \/ ReserveReads(w)
      BY <2>2, NodesForward
    <2>3. CASE Collect(w) \/ Collecting(w) \/ Retain(w)
      BY <2>3, CollectForward
    <2>4. CASE Rank(w) \/ RankCommit(w)
      BY <2>4, RankForward
    <2>5. CASE Finish(w)
      BY <2>5, FinishForward
    <2>6. CASE Start(w)
      <3>1. checkpoint # Nil => checkpoint' = checkpoint
        BY <2>6 DEF Start
      <3> QED
        BY <3>1, SameForward DEF MovesForward
    <2>7. CASE \/ Resume(w) \/ OpenResult(w) \/ Loop(w) \/ Operation(w) \/ Conclude(w)
               \/ Break(w) \/ Verify(w) \/ Check(w) \/ Publish(w) \/ Acknowledge(w)
      <3>1. checkpoint' = checkpoint
        BY <2>7 DEF Resume, OpenResult, Loop, Operation, Conclude, Break, Verify, Check,
                    Publish, Acknowledge
      <3> QED
        BY <3>1, SameForward
    <2> QED
      BY <1>1, <2>1, <2>2, <2>3, <2>4, <2>5, <2>6, <2>7 DEF Step
  <1>2. ASSUME NEW w \in Workers, Deliver(w) \/ Operate(w) \/ Crash(w) PROVE MovesForward
    <2>1. checkpoint' = checkpoint
      BY <1>2 DEF Deliver, Operate, Crash
    <2> QED
      BY <2>1, SameForward
  <1>3. CASE Expire \/ Regrant \/ UNCHANGED vars
    <2>1. checkpoint' = checkpoint
      BY <1>3 DEF Expire, Regrant, vars
    <2> QED
      BY <2>1, SameForward
  <1> QED
    BY <1>1, <1>2, <1>3 DEF Next

(* No step of any worker, no death and no redelivery moves the saved       *)
(* investigation backwards, returns steps to it, changes the outcome it    *)
(* has reached, or touches it once it is finished.                         *)
THEOREM NeverRegresses == Spec => CheckpointNeverRegresses
  <1>1. IInv /\ [Next]_vars => [MovesForward]_vars
    BY NextForward
  <1>2. Spec => [][MovesForward]_vars
    BY <1>1, Inductive, PTL DEF Spec
  <1> QED
    BY <1>2 DEF CheckpointNeverRegresses, MovesForward
=============================================================================
