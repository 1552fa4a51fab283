--------------------------- MODULE Investigation ---------------------------
(***************************************************************************)
(* One incident from its queue message to its saved report: the Pub/Sub    *)
(* worker, the operator host that verifies what it publishes, the          *)
(* LangGraph investigation with its SQLite checkpoints, the files that     *)
(* count attempts and retain the collection, the reasoning journal, and    *)
(* the incident row.                                                       *)
(*                                                                         *)
(* The reasoning loop appears here by its journal only: how many           *)
(* operations are reserved and completed, and what the last receipt says   *)
(* (module ReasoningLoop has the loop itself).  Each worker is a process   *)
(* that handles one call at a time and may die between any two durable     *)
(* writes.                                                                 *)
(***************************************************************************)
EXTENDS Integers, FiniteSets

CONSTANTS Workers,     \* processes of one operational host
          MaxSteps,    \* budget.max_steps, 4 unless the caller gives another
          MaxOps,      \* operations the reasoning budget admits
          Reasoned,    \* TRUE when a reasoner factory is configured
          Verified,    \* TRUE when calls go through OperatorHost, FALSE for the bare graph
          Pause,       \* pause_before_ranking
          Operated,    \* TRUE when an operator may call start and resume by hand
          Revocable,   \* TRUE when the local grant may come and go
          MaxCrashes,  \* bound on process deaths
          Nil

ASSUME InvestigationAssumption ==
    /\ {MaxSteps, MaxOps, MaxCrashes} \subseteq Nat
    /\ {Reasoned, Verified, Pause, Operated, Revocable} \subseteq BOOLEAN
    /\ Verified => Reasoned

VARIABLES input,       \* [scope, reads]: is the incident in scope, is the read budget enough
          granted,     \* the responder grant is current
          late,        \* the node-start deadline has passed
          row,         \* the report in the incident's SQL row, or Nil
          acked,       \* the message has been acknowledged
          checkpoint,  \* the newest graph checkpoint, or Nil
          attempts,    \* number of attempt files
          marker,      \* the collection-dispatched marker exists
          collection,  \* graph-collection.json: Nil, "partial" or "whole"
          journal,     \* the reasoning journal
          lock,        \* holder of the incident's file lock, or Nil
          executed,    \* how many node bodies were started (history)
          collections, \* how often the collector was called (history)
          answered,    \* the loop has returned FINISHED to the graph (history)
          crashes,     \* how many processes died (history)
          pc, call     \* each worker's position and locals

envVars == <<input, granted, late>>
deliveryVars == <<row, acked>>
fileVars == <<attempts, executed, marker, collection, collections>>
historyVars == <<answered, crashes>>
vars == <<envVars, deliveryVars, checkpoint, fileVars, journal, lock, historyVars, pc, call>>

Received == [phase |-> "RECEIVED", terminal |-> Nil, stop |-> Nil, receipts |-> 0, used |-> 0]

\* The report that finish() builds from the state.
ReportOf(state) == [terminal |-> state.terminal, stop |-> state.stop, receipts |-> state.receipts]

NoCall == [op |-> Nil, state |-> Nil, report |-> Nil, ran |-> FALSE, at |-> 0, resumed |-> FALSE]

Proceed(w, label, c) ==
    /\ pc' = [pc EXCEPT ![w] = label]
    /\ call' = [call EXCEPT ![w] = c]

Goto(w, label) == pc' = [pc EXCEPT ![w] = label] /\ UNCHANGED call

\* The call ends; the file lock, if this worker holds it, is released.
Leave(w) ==
    /\ Proceed(w, "idle", NoCall)
    /\ lock' = IF lock = w THEN Nil ELSE lock

---------------------------------------------------------------------------
(***************************************************************************)
(* Entering the graph                                                      *)
(***************************************************************************)

\* A delivery of the message; an unconfirmed acknowledgement may be followed by another.
Deliver(w) ==
    /\ pc[w] = "idle"
    /\ IF granted /\ input.scope
         THEN IF row = Nil
                THEN Proceed(w, "start", [NoCall EXCEPT !.op = "deliver"])
                ELSE Proceed(w, "publish", [NoCall EXCEPT !.op = "deliver", !.report = row])
         ELSE UNCHANGED <<pc, call>>   \* negative acknowledgement
    /\ UNCHANGED <<envVars, deliveryVars, checkpoint, fileVars, journal, lock, historyVars>>

\* The host's command line.
Operate(w) ==
    /\ Operated
    /\ pc[w] = "idle"
    /\ \E op \in {"start", "resume"} : Proceed(w, op, [NoCall EXCEPT !.op = op])
    /\ UNCHANGED <<envVars, deliveryVars, checkpoint, fileVars, journal, lock, historyVars>>

\* OperatorHost.start and resume refuse without a current grant.
Admitted == ~Verified \/ granted

\* What a finished invocation hands back: the host verifies it, the bare graph does not.
Handed == IF Verified THEN "verify" ELSE "check"

\* Mutant of Start: saved state is not looked up, the incident is received again.
StartAfresh(w) ==
    /\ pc[w] = "start"
    /\ IF ~Admitted \/ lock # Nil
         THEN Leave(w) /\ UNCHANGED checkpoint
         ELSE checkpoint' = Received /\ lock' = w /\ Goto(w, "node")
    /\ UNCHANGED <<envVars, deliveryVars, fileVars, journal, historyVars>>

\* start returns saved state as it is, and runs the graph only for a new incident.
Start(w) ==
    /\ pc[w] = "start"
    /\ CASE ~Admitted \/ lock # Nil -> Leave(w) /\ UNCHANGED checkpoint
         [] Admitted /\ lock = Nil /\ checkpoint # Nil ->
              /\ Proceed(w, Handed, [call[w] EXCEPT !.state = checkpoint])
              /\ UNCHANGED <<lock, checkpoint>>
         [] OTHER ->
              /\ checkpoint' = Received
              /\ lock' = w
              /\ Goto(w, "node")
    /\ UNCHANGED <<envVars, deliveryVars, fileVars, journal, historyVars>>

Resume(w) ==
    /\ pc[w] = "resume"
    /\ CASE ~Admitted \/ lock # Nil \/ checkpoint = Nil -> Leave(w)
         [] Admitted /\ lock = Nil /\ checkpoint # Nil /\ checkpoint.phase = "FINISHED" ->
              /\ Proceed(w, Handed, [call[w] EXCEPT !.state = checkpoint, !.resumed = TRUE])
              /\ UNCHANGED lock
         [] OTHER ->
              /\ lock' = w
              /\ Proceed(w, "node", [call[w] EXCEPT !.resumed = TRUE])
    /\ UNCHANGED <<envVars, deliveryVars, checkpoint, fileVars, journal, historyVars>>

---------------------------------------------------------------------------
(***************************************************************************)
(* The graph                                                               *)
(***************************************************************************)

\* route: a terminal outcome goes straight to the report.
Route(state) ==
    CASE state.terminal # Nil -> "finish"
      [] state.terminal = Nil /\ state.phase = "RECEIVED" -> "triage"
      [] state.terminal = Nil /\ state.phase = "TRIAGED" -> "reserve"
      [] state.terminal = Nil /\ state.phase = "READS_RESERVED" -> "collect"
      [] OTHER -> "rank"

\* A node's update is checkpointed synchronously, and the next node follows.
Commit(w, state) ==
    /\ checkpoint' = state
    /\ Proceed(w, "node", [call[w] EXCEPT !.ran = TRUE, !.at = 0])

\* Mutant of AttemptsUsed: a restart forgets the attempts of nodes that never committed.
AttemptsCommitted(state) == state.used

\* Attempt files count crashed nodes too; they never fall behind a checkpoint.
AttemptsUsed(state) == IF attempts > state.used THEN attempts ELSE state.used

\* The inspection breakpoint: an invocation that just collected hands back unranked state.
AtBreakpoint(w) == Pause /\ Route(checkpoint) = "rank" /\ call[w].ran

\* _step: reserve an attempt in a file of its own, then run the node.
Attempt(w) ==
    LET used == AttemptsUsed(checkpoint) IN
    /\ pc[w] = "node"
    /\ Route(checkpoint) # "finish"
    /\ ~AtBreakpoint(w)
    /\ IF used >= MaxSteps \/ late
         THEN /\ Commit(w, [checkpoint EXCEPT !.used = used, !.terminal = "BUDGET_EXHAUSTED"])
              /\ UNCHANGED <<attempts, executed>>
         ELSE /\ attempts' = used + 1
              /\ executed' = executed + 1
              /\ Goto(w, Route(checkpoint))
              /\ UNCHANGED checkpoint
    /\ UNCHANGED <<envVars, deliveryVars, marker, collection, collections, journal, lock,
                   historyVars>>

Done(state, phase, terminal) ==
    [state EXCEPT !.phase = phase, !.terminal = terminal, !.used = attempts]

Triage(w) ==
    /\ pc[w] = "triage"
    /\ Commit(w, Done(checkpoint, "TRIAGED", IF input.scope THEN Nil ELSE "SECURITY_BLOCK"))
    /\ UNCHANGED <<envVars, deliveryVars, fileVars, journal, lock, historyVars>>

ReserveReads(w) ==
    /\ pc[w] = "reserve"
    /\ Commit(w, IF input.reads THEN Done(checkpoint, "READS_RESERVED", Nil)
                                ELSE Done(checkpoint, "TRIAGED", "BUDGET_EXHAUSTED"))
    /\ UNCHANGED <<envVars, deliveryVars, fileVars, journal, lock, historyVars>>

\* What _collect makes of an error: an integrity error blocks, any other is a lost source.
CollectFailed(w) ==
    \E terminal \in {"DEPENDENCY_UNAVAILABLE", "SECURITY_BLOCK"} :
        Commit(w, Done(checkpoint, checkpoint.phase, terminal))

\* Mutant of MayCollect: the marker of an interrupted collection is ignored.
MayCollectAgain == collection = Nil

\* The marker is created exclusively: an interrupted collection is not repeated.
MayCollect == collection = Nil /\ ~marker

\* A retained collection is verified and used; a truncated or lost one is a lost source.
Collect(w) ==
    /\ pc[w] = "collect"
    /\ CASE collection = "whole" ->
              /\ \/ Commit(w, Done(checkpoint, "EVIDENCE_COLLECTED", Nil))
                 \/ CollectFailed(w)
              /\ UNCHANGED marker
         [] collection # "whole" /\ MayCollect ->
              marker' = TRUE /\ Goto(w, "collecting") /\ UNCHANGED checkpoint
         [] OTHER ->
              /\ Commit(w, Done(checkpoint, checkpoint.phase, "DEPENDENCY_UNAVAILABLE"))
              /\ UNCHANGED marker
    /\ UNCHANGED <<envVars, deliveryVars, attempts, executed, collection, collections, journal,
                   lock, historyVars>>

\* The collector reads the cluster under the grant, or fails.
Collecting(w) ==
    /\ pc[w] = "collecting"
    /\ collections' = collections + 1
    /\ \/ Admitted /\ Goto(w, "opening") /\ UNCHANGED checkpoint
       \/ CollectFailed(w)
    /\ UNCHANGED <<envVars, deliveryVars, attempts, executed, marker, collection, journal, lock,
                   historyVars>>

\* The result file exists as soon as it is opened ...
OpenResult(w) ==
    /\ pc[w] = "opening"
    /\ collection' = "partial"
    /\ Goto(w, "retaining")
    /\ UNCHANGED <<envVars, deliveryVars, checkpoint, attempts, executed, marker, collections,
                   journal, lock, historyVars>>

\* ... and is usable only once written; what follows is the check a restart makes of it too.
Retain(w) ==
    /\ pc[w] = "retaining"
    /\ \/ collection' = "whole" /\ Goto(w, "collect") /\ UNCHANGED checkpoint
       \/ CollectFailed(w) /\ UNCHANGED collection
    /\ UNCHANGED <<envVars, deliveryVars, attempts, executed, marker, collections, journal, lock,
                   historyVars>>

---------------------------------------------------------------------------
(***************************************************************************)
(* rank: the reasoning loop, or the deterministic baseline                 *)
(***************************************************************************)

\* Receipts that end a run.
Endings == {"FINISHED", "ABSTAINED", "REFUSED", "ERROR", "DENIED", "TIMEOUT"}

NoJournal == [open |-> FALSE, charged |-> 0, completed |-> 0, last |-> "more"]

\* graph_reasoning.terminal.  ABSTAINED is a FINISHED result without hypotheses; REFUSED
\* stands for INVALID_OUTPUT too.
Terminal(reason) ==
    CASE reason = "FINISHED" -> "ESCALATED"
      [] reason \in {"ABSTAINED", "REFUSED"} -> "EVIDENCE_INSUFFICIENT"
      [] reason = "DENIED" -> "SECURITY_BLOCK"
      [] reason = "BUDGET_EXHAUSTED" -> "BUDGET_EXHAUSTED"
      [] OTHER -> "DEPENDENCY_UNAVAILABLE"

Ranked(reason, receipts) ==
    [Done(checkpoint, "RANKED", Terminal(reason)) EXCEPT !.stop = reason, !.receipts = receipts]

\* Artifacts that fail verification, before or inside the loop, end rank without its results.
Blocked ==
    [Done(checkpoint, checkpoint.phase, "SECURITY_BLOCK")
        EXCEPT !.stop = IF Reasoned THEN "SECURITY_BLOCK" ELSE Nil]

\* The reasoner factory demands the grant; its PermissionError leaves the graph.
Rank(w) ==
    /\ pc[w] = "rank"
    /\ \/ Commit(w, Blocked) /\ UNCHANGED <<journal, lock>>
       \/ /\ ~Reasoned
          /\ \E terminal \in {"ESCALATED", "EVIDENCE_INSUFFICIENT"} :
                Commit(w, Done(checkpoint, "RANKED", terminal))
          /\ UNCHANGED <<journal, lock>>
       \/ /\ Reasoned /\ ~Admitted
          /\ Leave(w) /\ UNCHANGED <<checkpoint, journal>>
       \/ /\ Reasoned /\ Admitted
          /\ journal' = [journal EXCEPT !.open = TRUE]
          /\ Goto(w, "loop") /\ UNCHANGED <<checkpoint, lock>>
    /\ UNCHANGED <<envVars, deliveryVars, fileVars, historyVars>>

\* The loop has a result; the graph has not checkpointed it yet.
EndLoop(w, reason) ==
    /\ Proceed(w, "ranked", [call[w] EXCEPT !.state = Ranked(reason, call[w].at)])
    /\ answered' = (answered \/ reason \in {"FINISHED", "ABSTAINED"})

\* The next operation of the loop: replay its receipt, or reserve it.  Authority is asked
\* at the head of a turn and can be lost right after; asking may also time out.
Loop(w) ==
    LET at == call[w].at IN
    /\ pc[w] = "loop"
    /\ \/ /\ ~granted
          /\ EndLoop(w, "DENIED") /\ UNCHANGED journal
       \/ EndLoop(w, "TIMEOUT") /\ UNCHANGED journal
       \/ /\ Proceed(w, "ranked", [call[w] EXCEPT !.state = Blocked])
          /\ UNCHANGED <<journal, answered>>
       \/ /\ at < journal.completed
          /\ Proceed(w, IF at + 1 = journal.completed /\ journal.last # "more"
                          THEN "concluding" ELSE "loop", [call[w] EXCEPT !.at = at + 1])
          /\ UNCHANGED <<journal, answered>>
       \/ /\ at = journal.completed /\ at < journal.charged
          /\ EndLoop(w, "UNKNOWN_COMPLETION") /\ UNCHANGED journal
       \/ /\ at = journal.completed /\ at = journal.charged
          /\ IF at = MaxOps
               THEN EndLoop(w, "BUDGET_EXHAUSTED") /\ UNCHANGED journal
               ELSE /\ journal' = [journal EXCEPT !.charged = at + 1]
                    /\ Goto(w, "operation")
                    /\ UNCHANGED answered
    /\ UNCHANGED <<envVars, deliveryVars, checkpoint, fileVars, lock, crashes>>

\* The operation is dispatched, its receipt retained and its completion recorded.
Operation(w) ==
    /\ pc[w] = "operation"
    /\ \E last \in {"more"} \cup Endings :
          journal' = [journal EXCEPT !.completed = @ + 1, !.last = last]
    /\ Goto(w, "loop")
    /\ UNCHANGED <<envVars, deliveryVars, checkpoint, fileVars, lock, historyVars>>

\* A receipt that ends the run; a finished one needs current authority once more.
Conclude(w) ==
    /\ pc[w] = "concluding"
    /\ \/ EndLoop(w, journal.last) /\ (journal.last \in {"FINISHED", "ABSTAINED"} => granted)
       \/ /\ journal.last \in {"FINISHED", "ABSTAINED"}
          /\ \/ ~granted /\ EndLoop(w, "DENIED")
             \/ EndLoop(w, "TIMEOUT")
    /\ UNCHANGED <<envVars, deliveryVars, checkpoint, fileVars, journal, lock, crashes>>

RankCommit(w) ==
    /\ pc[w] = "ranked"
    /\ checkpoint' = call[w].state
    /\ Proceed(w, "node", [call[w] EXCEPT !.ran = TRUE, !.at = 0, !.state = Nil])
    /\ UNCHANGED <<envVars, deliveryVars, fileVars, journal, lock, historyVars>>

\* finish always runs; the invocation returns and leaves the file lock.
Finish(w) ==
    /\ pc[w] = "node"
    /\ Route(checkpoint) = "finish"
    /\ checkpoint' = [checkpoint EXCEPT !.phase = "FINISHED"]
    /\ Proceed(w, Handed, [call[w] EXCEPT !.state = checkpoint'])
    /\ lock' = Nil
    /\ UNCHANGED <<envVars, deliveryVars, fileVars, journal, historyVars>>

Break(w) ==
    /\ pc[w] = "node"
    /\ AtBreakpoint(w)
    /\ Proceed(w, Handed, [call[w] EXCEPT !.state = checkpoint])
    /\ lock' = Nil
    /\ UNCHANGED <<envVars, deliveryVars, checkpoint, fileVars, journal, historyVars>>

---------------------------------------------------------------------------
(***************************************************************************)
(* Verification by the host, and delivery                                  *)
(***************************************************************************)

\* What the loop returns when it only replays a complete journal under a current grant.
Replayed ==
    CASE journal.last # "more" -> journal.last
      [] journal.last = "more" /\ journal.completed = MaxOps -> "BUDGET_EXHAUSTED"
      [] OTHER -> "new work"

\* Mutant of Publishable: the receipts are not compared with the journal.
PublishableUnchecked(state) == state.phase = "FINISHED"

\* _publish and _reconstruct: finished, and exactly what the whole journal says.  The replay
\* asks for authority at every turn: it may be refused an answer, or lose a grant that is
\* back at the end, where the run it replays was.
Publishable(state) ==
    /\ state.phase = "FINISHED"
    /\ IF state.stop \in {Nil, "SECURITY_BLOCK"}
         THEN /\ ~journal.open /\ state.receipts = 0
              /\ state.terminal \in {"SECURITY_BLOCK", "DEPENDENCY_UNAVAILABLE",
                                     "BUDGET_EXHAUSTED"}
         ELSE /\ journal.charged = journal.completed
              /\ state.receipts = journal.completed
              /\ state.stop \in {Replayed, "DENIED", "TIMEOUT"}

\* The replay inside _reconstruct asks for authority too, and may be refused an answer.
Verify(w) ==
    /\ pc[w] = "verify"
    /\ \/ granted /\ Publishable(call[w].state) /\ Goto(w, "check") /\ UNCHANGED lock
       \/ Leave(w)
    /\ UNCHANGED <<envVars, deliveryVars, checkpoint, fileVars, journal, historyVars>>

\* Mutant of Check: an unfinished state is refused without resuming it.
CheckFinishedOnly(w) ==
    LET c == call[w] IN
    /\ pc[w] = "check"
    /\ IF c.op = "deliver" /\ c.state.phase = "FINISHED"
         THEN Proceed(w, "publish", [c EXCEPT !.report = ReportOf(c.state)]) /\ UNCHANGED lock
         ELSE Leave(w)
    /\ UNCHANGED <<envVars, deliveryVars, checkpoint, fileVars, journal, historyVars>>

\* process: an unfinished state is resumed once, and refused if that did not finish it.
Check(w) ==
    LET c == call[w] IN
    /\ pc[w] = "check"
    /\ CASE c.op # "deliver" -> Leave(w)
         [] c.op = "deliver" /\ c.state.phase = "FINISHED" ->
              /\ Proceed(w, "publish", [c EXCEPT !.report = ReportOf(c.state)])
              /\ UNCHANGED lock
         [] c.op = "deliver" /\ c.state.phase # "FINISHED" /\ ~c.resumed ->
              /\ Proceed(w, "resume", [c EXCEPT !.state = Nil, !.ran = FALSE])
              /\ UNCHANGED lock
         [] OTHER -> Leave(w)
    /\ UNCHANGED <<envVars, deliveryVars, checkpoint, fileVars, journal, historyVars>>

\* Mutant of Publish: the message is acknowledged before the report is saved.
PublishAfterAck(w) ==
    /\ pc[w] = "publish"
    /\ acked' = TRUE
    /\ Goto(w, "acknowledge")
    /\ UNCHANGED <<envVars, row, checkpoint, fileVars, journal, lock, historyVars>>

\* The grant is checked again, and the first saved report stays.
Publish(w) ==
    /\ pc[w] = "publish"
    /\ IF granted
         THEN /\ row' = IF row = Nil THEN call[w].report ELSE row
              /\ Goto(w, "acknowledge")
              /\ UNCHANGED lock
         ELSE Leave(w) /\ UNCHANGED row
    /\ UNCHANGED <<envVars, acked, checkpoint, fileVars, journal, historyVars>>

Acknowledge(w) ==
    /\ pc[w] = "acknowledge"
    /\ acked' = TRUE
    /\ Leave(w)
    /\ UNCHANGED <<envVars, row, checkpoint, fileVars, journal, historyVars>>

---------------------------------------------------------------------------
\* The process dies; the message will be delivered again.
Crash(w) ==
    /\ pc[w] # "idle"
    /\ crashes < MaxCrashes
    /\ crashes' = crashes + 1
    /\ Leave(w)
    /\ UNCHANGED <<envVars, deliveryVars, checkpoint, fileVars, journal, answered>>

Expire ==
    /\ ~late /\ checkpoint # Nil
    /\ late' = TRUE
    /\ UNCHANGED <<input, granted, deliveryVars, checkpoint, fileVars, journal, lock,
                   historyVars, pc, call>>

\* The operator edits the grant file.
Regrant ==
    /\ Revocable
    /\ granted' = ~granted
    /\ UNCHANGED <<input, late, deliveryVars, checkpoint, fileVars, journal, lock,
                   historyVars, pc, call>>

Init ==
    /\ input \in [scope : BOOLEAN, reads : BOOLEAN]
    /\ granted = TRUE
    /\ late = FALSE
    /\ row = Nil
    /\ acked = FALSE
    /\ checkpoint = Nil
    /\ attempts = 0
    /\ executed = 0
    /\ marker = FALSE
    /\ collection = Nil
    /\ journal = NoJournal
    /\ lock = Nil
    /\ collections = 0
    /\ answered = FALSE
    /\ crashes = 0
    /\ pc = [w \in Workers |-> "idle"]
    /\ call = [w \in Workers |-> NoCall]

Step(w) ==
    \/ Start(w) \/ Resume(w)
    \/ Attempt(w) \/ Triage(w) \/ ReserveReads(w) \/ Collect(w) \/ Collecting(w)
    \/ OpenResult(w) \/ Retain(w)
    \/ Rank(w) \/ Loop(w) \/ Operation(w) \/ Conclude(w) \/ RankCommit(w)
    \/ Finish(w) \/ Break(w)
    \/ Verify(w) \/ Check(w) \/ Publish(w) \/ Acknowledge(w)

Next ==
    \/ \E w \in Workers : Deliver(w) \/ Operate(w) \/ Step(w) \/ Crash(w)
    \/ Expire
    \/ Regrant

Spec == Init /\ [][Next]_vars

\* Live processes run on, and a message that was not acknowledged is delivered again.
FairSpec ==
    /\ Spec
    /\ \A w \in Workers : WF_vars(Step(w))
    /\ WF_vars(\E w \in Workers : ~acked /\ Deliver(w))

---------------------------------------------------------------------------
(***************************************************************************)
(* Properties                                                              *)
(***************************************************************************)

Phases == {"RECEIVED", "TRIAGED", "READS_RESERVED", "EVIDENCE_COLLECTED", "RANKED", "FINISHED"}
Terminals == {"ESCALATED", "EVIDENCE_INSUFFICIENT", "SECURITY_BLOCK", "BUDGET_EXHAUSTED",
              "DEPENDENCY_UNAVAILABLE"}
StopReasons == Endings \cup {"BUDGET_EXHAUSTED", "UNKNOWN_COMPLETION", "SECURITY_BLOCK"}
PCs == {"idle", "start", "resume", "node", "triage", "reserve", "collect", "collecting",
        "opening", "retaining", "rank", "loop", "operation", "concluding", "ranked", "verify", "check",
        "publish", "acknowledge"}

Report == [terminal : Terminals, stop : StopReasons \cup {Nil}, receipts : 0..MaxOps]
State == [phase : Phases, terminal : Terminals \cup {Nil}, stop : StopReasons \cup {Nil},
          receipts : 0..MaxOps, used : 0..MaxSteps]

\* Nil is nothing that a variable may hold.
ASSUME NilAssumption ==
    Nil \notin Workers \cup Terminals \cup StopReasons \cup Report \cup State
                \cup {"partial", "whole"}

TypeOK ==
    /\ row \in Report \cup {Nil}
    /\ checkpoint \in State \cup {Nil}
    /\ attempts \in 0..MaxSteps
    /\ collection \in {Nil, "partial", "whole"}
    /\ journal \in [open : BOOLEAN, charged : 0..MaxOps, completed : 0..MaxOps,
                    last : {"more"} \cup Endings]
    /\ lock \in Workers \cup {Nil}
    /\ pc \in [Workers -> PCs]

Finished == checkpoint # Nil /\ checkpoint.phase = "FINISHED"

(* "A report is committed to SQL before acknowledgement", and what is      *)
(* committed is the report of a finished graph, the same one for every     *)
(* delivery: redeliveries, races and crashes never publish an unfinished   *)
(* investigation or replace a published one.                               *)
AcknowledgedReport ==
    /\ acked => row # Nil
    /\ row # Nil => Finished /\ row = ReportOf(checkpoint)

(* "An ambiguous crashed collection is never repeated": the reads paid for *)
(* by the one reservation happen at most once over all restarts.           *)
CollectedOnce == collections <= 1

(* "Unexpected worker failures cannot replenish the step allowance": over  *)
(* all restarts no more node bodies run than the budget has steps.         *)
StepsNeverReplenished == executed <= MaxSteps

(* What the host publishes accounts for the whole journal: a reasoned      *)
(* report names every receipt of a journal without open reservations, and  *)
(* an unreasoned one hides no journal.                                     *)
HonestReport ==
    row # Nil => IF row.stop \in {Nil, "SECURITY_BLOCK"}
                   THEN ~journal.open
                   ELSE journal.charged = journal.completed /\ row.receipts = journal.completed

Progress == [p \in Phases |->
    CASE p = "RECEIVED" -> 0 [] p = "TRIAGED" -> 1 [] p = "READS_RESERVED" -> 2
      [] p = "EVIDENCE_COLLECTED" -> 3 [] p = "RANKED" -> 4 [] p = "FINISHED" -> 5]

(* A restart resumes where the checkpoint is: the saved investigation      *)
(* never moves backwards, keeps its outcome, and is frozen once finished.  *)
CheckpointNeverRegresses ==
    [][checkpoint # Nil =>
         /\ checkpoint' # Nil
         /\ Progress[checkpoint'.phase] >= Progress[checkpoint.phase]
         /\ checkpoint'.used >= checkpoint.used
         /\ checkpoint.terminal # Nil => ReportOf(checkpoint') = ReportOf(checkpoint)
         /\ Finished => checkpoint' = checkpoint]_vars

(* "A crash before SQL publication can resume the durable graph": as long  *)
(* as the message is redelivered to an authorized worker, an investigation *)
(* that was interrupted gets finished.                                     *)
RedeliveryResumes ==
    (checkpoint # Nil /\ ~Finished /\ input.scope) ~> (Finished \/ ~input.scope)

(* "A crash after loop completion but before the LangGraph rank checkpoint *)
(* replays results": unless the deadline has passed, an investigation      *)
(* whose loop has returned its answer is not finished without it.          *)
CompletedLoopReplays == answered /\ Finished /\ ~late => checkpoint.stop # Nil
=============================================================================
