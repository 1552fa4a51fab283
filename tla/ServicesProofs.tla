--------------------------- MODULE ServicesProofs ---------------------------
(***************************************************************************)
(* Proofs about HostRuntime, for any number of calls and searches, and     *)
(* about Incidents, for any number of concurrent callers, keys and         *)
(* requested incidents.                                                    *)
(*                                                                         *)
(* The host's inductive invariant has three parts.  SlotInv: who has the   *)
(* slot.  LeaseInv: a lease is active exactly while its method runs.       *)
(* CustodyInv: where every client's closer is, from the registration over  *)
(* the one thread that takes all of them to the one call of each.          *)
(*                                                                         *)
(* That of the incidents relates every caller's locals and answer to the   *)
(* table; what it rests on is that a row only grows: it is inserted once,  *)
(* by the caller whose id it has, and its report is written once.          *)
(***************************************************************************)
EXTENDS HostRuntime, Incidents, SequenceTheorems, TLAPS

ProviderOnly == <<"provider">>
ProviderEngine == <<"provider", "engine">>
AllClosers == <<"provider", "engine", "retrieval">>

\* The registered closers, and what a thread has left of them.
Registered == {<<>>, ProviderOnly, ProviderEngine, AllClosers}
Remaining == {<<>>, ProviderOnly, <<"engine", "provider">>, <<"retrieval", "engine", "provider">>}

Elements(s) == {s[i] : i \in DOMAIN s}

Verdicts == {"none", "OK", "DENIED", "ERROR"}
OnTheWire == {"counting", "counted", "generating", "leaving"}
JobAts == {"none", "queued", "leasing", "finishing", "done"} \cup OnTheWire

HostTypeInv ==
  /\ hostAt \in {"building", "open", "denying", "refusing", "closed"}
  /\ granted \in BOOLEAN
  /\ lifetime \in [closed : BOOLEAN, active : SUBSET {"model", "read"}, closers : Registered]
  /\ closes \in [Clients -> 0..1]
  /\ todo \in [Threads -> Remaining]
  /\ caller \in [at : {"idle", "entered", "waiting"}, op : {"none"} \cup ModelOps,
                 result : Verdicts \cup {"BUSY", "raised", "TIMEOUT"}, calls : Nat]
  /\ slot \in BOOLEAN
  /\ job \in [op : {"none"} \cup ModelOps, at : JobAts, late : BOOLEAN,
              verdict : Verdicts]
  /\ reader \in [at : {"idle", "allowed", "ready", "denied", "searching"}, reads : Nat]

\* The slot belongs to the entering call or to the running job, never to both; nobody calls
\* a host that is not built.
SlotInv ==
  /\ slot = (caller.at = "entered" \/ job.at \notin {"none", "done"})
  /\ caller.at = "entered" => job.at \in {"none", "done"}
  /\ hostAt = "building" => caller.at = "idle" /\ job.at = "none"

LeaseInv ==
  /\ "model" \in lifetime.active <=> job.at \in OnTheWire
  /\ "read" \in lifetime.active <=> reader.at = "searching"

\* The closers are taken once the lifetime is closed and idle.
Taken == lifetime.closed /\ lifetime.active = {}

WithRetrieval == reader.at \in {"ready", "searching"}

Built == IF WithRetrieval THEN AllClosers ELSE ProviderEngine

CustodyInv ==
  /\ lifetime.closed <=> hostAt = "closed"
  /\ hostAt = "building" => /\ reader.at = "idle" /\ lifetime.active = {}
                            /\ lifetime.closers \in {<<>>, ProviderOnly}
  /\ hostAt # "building" /\ ~Taken => lifetime.closers = Built
  /\ Taken => lifetime.closers = <<>>
  /\ ~Taken => /\ \A t \in Threads : todo[t] = <<>>
               /\ \A c \in Clients : closes[c] = 1 => c = "retrieval" /\ reader.at = "denied"
  /\ \A t \in Threads : \A c \in Elements(todo[t]) : closes[c] = 0
  /\ \A t, u \in Threads : t # u => todo[t] = <<>> \/ todo[u] = <<>>
  /\ ~WithRetrieval => \A t \in Threads : "retrieval" \notin Elements(todo[t])
  /\ reader.at \in {"idle", "allowed"} => closes["retrieval"] = 0
  /\ reader.at = "denied" => hostAt = "closed"

HostIInv == HostTypeInv /\ SlotInv /\ LeaseInv /\ CustodyInv

(***************************************************************************)
(* The sequences of closers.                                               *)
(***************************************************************************)

(* Each client is registered once, in one order. *)
LEMMA AppendValues ==
  /\ Append(<<>>, "provider") = ProviderOnly
  /\ Append(ProviderOnly, "engine") = ProviderEngine
  /\ Append(ProviderEngine, "retrieval") = AllClosers
  <1>1. /\ <<>> \in Seq(Clients) /\ ProviderOnly \in Seq(Clients)
        /\ ProviderEngine \in Seq(Clients) /\ AllClosers \in Seq(Clients)
    BY DEF ProviderOnly, ProviderEngine, AllClosers, Clients
  <1>2. "provider" \in Clients /\ "engine" \in Clients /\ "retrieval" \in Clients
    BY DEF Clients
  <1>3. Append(<<>>, "provider") = ProviderOnly
    BY DEF ProviderOnly
  <1>4. Append(ProviderOnly, "engine") = ProviderEngine
    <2>1. /\ Append(ProviderOnly, "engine") \in Seq(Clients)
          /\ Len(Append(ProviderOnly, "engine")) = 2
          /\ Append(ProviderOnly, "engine")[1] = "provider"
          /\ Append(ProviderOnly, "engine")[2] = "engine"
      BY <1>1, <1>2, AppendProperties DEF ProviderOnly
    <2>2. \A i \in 1..2 : Append(ProviderOnly, "engine")[i] = ProviderEngine[i]
      BY <2>1 DEF ProviderEngine
    <2>3. Len(ProviderEngine) = 2
      BY DEF ProviderEngine
    <2> QED
      BY <1>1, <2>1, <2>2, <2>3, SeqEqual
  <1>5. Append(ProviderEngine, "retrieval") = AllClosers
    <2>1. /\ Append(ProviderEngine, "retrieval") \in Seq(Clients)
          /\ Len(Append(ProviderEngine, "retrieval")) = 3
          /\ Append(ProviderEngine, "retrieval")[1] = "provider"
          /\ Append(ProviderEngine, "retrieval")[2] = "engine"
          /\ Append(ProviderEngine, "retrieval")[3] = "retrieval"
      BY <1>1, <1>2, AppendProperties DEF ProviderEngine
    <2>2. \A i \in 1..3 : Append(ProviderEngine, "retrieval")[i] = AllClosers[i]
      BY <2>1 DEF AllClosers
    <2>3. Len(AllClosers) = 3
      BY DEF AllClosers
    <2> QED
      BY <1>1, <2>1, <2>2, <2>3, SeqEqual
  <1> QED
    BY <1>3, <1>4, <1>5

(* The newest client is closed first. *)
LEMMA ReverseValues ==
  /\ Reverse(<<>>) = <<>>
  /\ Reverse(ProviderOnly) = ProviderOnly
  /\ Reverse(ProviderEngine) = <<"engine", "provider">>
  /\ Reverse(AllClosers) = <<"retrieval", "engine", "provider">>
  <1>1. Reverse(<<>>) = <<>>
    BY DEF Reverse
  <1>2. Reverse(ProviderOnly) = ProviderOnly
    BY DEF Reverse, ProviderOnly
  <1>3. Reverse(ProviderEngine) = <<"engine", "provider">>
    BY DEF Reverse, ProviderEngine
  <1>4. Reverse(AllClosers) = <<"retrieval", "engine", "provider">>
    BY DEF Reverse, AllClosers
  <1> QED
    BY <1>1, <1>2, <1>3, <1>4

LEMMA ElementsValues ==
  /\ Elements(<<>>) = {}
  /\ Elements(ProviderOnly) = {"provider"}
  /\ Elements(<<"engine", "provider">>) = {"engine", "provider"}
  /\ Elements(<<"retrieval", "engine", "provider">>) = {"retrieval", "engine", "provider"}
  BY DEF Elements, ProviderOnly

(* One closer is run, the others remain, and it is not among them. *)
LEMMA HeadTail ==
  ASSUME NEW s \in Remaining, s # <<>>
  PROVE  /\ Tail(s) \in Remaining /\ Head(s) \in Clients
         /\ Head(s) \in Elements(s) /\ Head(s) \notin Elements(Tail(s))
         /\ Elements(Tail(s)) \subseteq Elements(s)
  <1>1. CASE s = ProviderOnly
    <2>1. Tail(s) = <<>> /\ Head(s) = "provider"
      BY <1>1 DEF ProviderOnly
    <2> QED
      BY <1>1, <2>1, ElementsValues DEF Remaining, Clients
  <1>2. CASE s = <<"engine", "provider">>
    <2>1. Tail(s) = ProviderOnly /\ Head(s) = "engine"
      BY <1>2 DEF ProviderOnly
    <2> QED
      BY <1>2, <2>1, ElementsValues DEF Remaining, Clients
  <1>3. CASE s = <<"retrieval", "engine", "provider">>
    <2>1. Tail(s) = <<"engine", "provider">> /\ Head(s) = "retrieval"
      BY <1>3
    <2> QED
      BY <1>3, <2>1, ElementsValues DEF Remaining, Clients
  <1> QED
    BY <1>1, <1>2, <1>3 DEF Remaining

(***************************************************************************)
(* The parts of the invariant, and the steps that leave them alone.        *)
(***************************************************************************)

LifetimeType == [closed : BOOLEAN, active : SUBSET {"model", "read"}, closers : Registered]
CallerType == [at : {"idle", "entered", "waiting"}, op : {"none"} \cup ModelOps,
               result : Verdicts \cup {"BUSY", "raised", "TIMEOUT"}, calls : Nat]
JobType == [op : {"none"} \cup ModelOps, at : JobAts, late : BOOLEAN,
            verdict : Verdicts]
ReaderType == [at : {"idle", "allowed", "ready", "denied", "searching"}, reads : Nat]

\* The variables of CustodyInv, except the reader's.
CustodyType ==
  /\ hostAt \in {"building", "open", "denying", "refusing", "closed"}
  /\ lifetime \in LifetimeType /\ closes \in [Clients -> 0..1] /\ todo \in [Threads -> Remaining]

\* The variables of the session and the pool.
SessionType == granted \in BOOLEAN /\ caller \in CallerType /\ slot \in BOOLEAN /\ job \in JobType

LEMMA Types == HostTypeInv <=> CustodyType /\ SessionType /\ reader \in ReaderType
  BY DEF HostTypeInv, CustodyType, SessionType, LifetimeType, CallerType, JobType, ReaderType

LEMMA TypesNext == HostTypeInv' <=> CustodyType' /\ SessionType' /\ reader' \in ReaderType
  BY DEF HostTypeInv, CustodyType, SessionType, LifetimeType, CallerType, JobType, ReaderType

(* A step of the session or of the pool that touches no lease. *)
LEMMA SessionStep ==
  ASSUME HostIInv, UNCHANGED <<hostAt, lifetime, closes, todo, reader>>, SessionType', SlotInv',
         job'.at \in OnTheWire <=> job.at \in OnTheWire
  PROVE  HostIInv'
  <1>1. CustodyInv' /\ CustodyType'
    BY Types DEF HostIInv, CustodyInv, CustodyType, Taken, Built, WithRetrieval
  <1>2. LeaseInv'
    BY DEF HostIInv, LeaseInv
  <1> QED
    BY <1>1, <1>2, Types, TypesNext DEF HostIInv

(* A step that touches neither the session nor the pool. *)
LEMMA ClientStep ==
  ASSUME HostIInv, UNCHANGED <<granted, caller, slot, job>>, CustodyType', reader' \in ReaderType,
         hostAt' = "building" => hostAt = "building",
         "model" \in lifetime'.active <=> "model" \in lifetime.active,
         "read" \in lifetime'.active <=> reader'.at = "searching", CustodyInv'
  PROVE  HostIInv'
  <1>1. SessionType' /\ SlotInv'
    BY Types DEF HostIInv, SessionType, SlotInv
  <1>2. LeaseInv'
    BY DEF HostIInv, LeaseInv
  <1> QED
    BY <1>1, <1>2, TypesNext DEF HostIInv

(* The closers of a lifetime that is not taken have not run. *)
LEMMA NotRunYet ==
  ASSUME HostIInv, ~Taken
  PROVE  /\ Reverse(lifetime.closers) \in Remaining
         /\ \A c \in Elements(Reverse(lifetime.closers)) : closes[c] = 0
         /\ ~WithRetrieval => "retrieval" \notin Elements(Reverse(lifetime.closers))
  <1>1. /\ lifetime.closers \in {<<>>, ProviderOnly, ProviderEngine, AllClosers}
        /\ lifetime.closers = AllClosers => WithRetrieval
    <2>1. AllClosers # ProviderEngine /\ AllClosers # ProviderOnly /\ AllClosers # <<>>
      BY DEF AllClosers, ProviderEngine, ProviderOnly
    <2> QED
      BY <2>1 DEF HostIInv, CustodyInv, Built, HostTypeInv, Registered
  <1>2. /\ closes["provider"] = 0 /\ closes["engine"] = 0
        /\ WithRetrieval => closes["retrieval"] = 0
    BY DEF HostIInv, CustodyInv, HostTypeInv, Clients, WithRetrieval
  <1>3. CASE lifetime.closers = <<>>
    BY <1>3, ReverseValues, ElementsValues DEF Remaining
  <1>4. CASE lifetime.closers = ProviderOnly
    BY <1>2, <1>4, ReverseValues, ElementsValues DEF Remaining
  <1>5. CASE lifetime.closers = ProviderEngine
    BY <1>2, <1>5, ReverseValues, ElementsValues DEF Remaining
  <1>6. CASE lifetime.closers = AllClosers
    BY <1>1, <1>2, <1>6, ReverseValues, ElementsValues DEF Remaining
  <1> QED
    BY <1>1, <1>3, <1>4, <1>5, <1>6

(* One thread takes every closer: the lifetime is closed and idle now.     *)
LEMMA TakeStep ==
  ASSUME HostIInv, ~Taken, NEW t \in Threads, hostAt' = "closed", UNCHANGED closes,
         lifetime' = [closed |-> TRUE, active |-> {}, closers |-> <<>>],
         todo' = [todo EXCEPT ![t] = Reverse(lifetime.closers)],
         reader' \in ReaderType, WithRetrieval' = WithRetrieval,
         reader'.at \in {"idle", "allowed"} => reader.at \in {"idle", "allowed"}
  PROVE  CustodyInv' /\ CustodyType'
  <1>0. todo \in [Threads -> Remaining] /\ \A u \in Threads : todo[u] = <<>>
    BY DEF HostIInv, HostTypeInv, CustodyInv
  <1>1. todo'[t] = Reverse(lifetime.closers) /\ \A u \in Threads \ {t} : todo'[u] = <<>>
    BY <1>0
  <1>2. CustodyType'
    BY <1>0, NotRunYet, Types DEF HostIInv, CustodyType, LifetimeType, Registered
  <1>3. lifetime'.closed /\ lifetime'.active = {} /\ lifetime'.closers = <<>>
    OBVIOUS
  <1>4. Taken'
    BY <1>3 DEF Taken
  <1>5. \A u \in Threads : \A c \in Elements(todo'[u]) : closes'[c] = 0
    BY <1>1, NotRunYet, ElementsValues
  <1>6. \A u, v \in Threads : u # v => todo'[u] = <<>> \/ todo'[v] = <<>>
    BY <1>1
  <1>7. ~WithRetrieval' => \A u \in Threads : "retrieval" \notin Elements(todo'[u])
    BY <1>1, NotRunYet, ElementsValues
  <1>8. reader'.at \in {"idle", "allowed"} => closes'["retrieval"] = 0
    BY DEF HostIInv, CustodyInv
  <1> QED
    BY <1>2, <1>3, <1>4, <1>5, <1>6, <1>7, <1>8 DEF CustodyInv

(***************************************************************************)
(* The host.                                                               *)
(***************************************************************************)

LEMMA BuildInv == ASSUME HostIInv, Build PROVE HostIInv'
  <1>0. /\ hostAt = "building" /\ UNCHANGED <<granted, closes, todo, caller, slot, job, reader>>
        /\ lifetime \in LifetimeType /\ reader \in ReaderType
    BY Types DEF Build, HostIInv, CustodyType
  <1>1. /\ ~lifetime.closed /\ lifetime.active = {} /\ reader.at = "idle"
    BY <1>0 DEF HostIInv, CustodyInv
  <1>2. /\ lifetime'.closed = FALSE /\ lifetime'.active = {} /\ lifetime' \in LifetimeType
        /\ \/ hostAt' = "building" /\ lifetime'.closers = ProviderOnly
           \/ hostAt' = "open" /\ lifetime'.closers = ProviderEngine
    <2>1. CASE lifetime.closers = <<>> /\ Add("provider") /\ UNCHANGED hostAt
      <3>1. lifetime' = [lifetime EXCEPT !.closers = ProviderOnly]
        BY <2>1, AppendValues DEF Add
      <3> QED
        BY <1>0, <1>1, <2>1, <3>1 DEF LifetimeType, Registered
    <2>2. CASE lifetime.closers = <<"provider">> /\ Add("engine") /\ hostAt' = "open"
      <3>1. lifetime' = [lifetime EXCEPT !.closers = ProviderEngine]
        BY <2>2, AppendValues DEF Add, ProviderOnly
      <3> QED
        BY <1>0, <1>1, <2>2, <3>1 DEF LifetimeType, Registered
    <2> QED
      BY <2>1, <2>2 DEF Build
  <1>3. CustodyType'
    BY <1>0, <1>2, Types DEF HostIInv, CustodyType
  <1>4. CustodyInv'
    BY <1>0, <1>1, <1>2 DEF HostIInv, CustodyInv, Taken, Built, WithRetrieval
  <1> QED
    BY <1>0, <1>1, <1>2, <1>3, <1>4, ClientStep DEF HostIInv, LeaseInv

(* The host closes its lifetime. *)
LEMMA CloseStep ==
  ASSUME HostIInv, hostAt # "closed", hostAt' = "closed",
         Ready("host", [lifetime EXCEPT !.closed = TRUE]),
         UNCHANGED <<granted, closes, caller, slot, job, reader>>
  PROVE  HostIInv'
  <1> DEFINE l == [lifetime EXCEPT !.closed = TRUE]
  <1>0. lifetime \in LifetimeType /\ ~lifetime.closed /\ ~Taken /\ reader \in ReaderType
    BY Types DEF HostIInv, CustodyType, CustodyInv, Taken
  <1>1. /\ l \in LifetimeType /\ l.closed = TRUE /\ l.active = lifetime.active
        /\ l.closers = lifetime.closers
    BY <1>0 DEF LifetimeType
  <1>2. CASE lifetime.active = {}
    <2>1. todo' = [todo EXCEPT !["host"] = Reverse(l.closers)] /\ lifetime' = [l EXCEPT !.closers = <<>>]
      BY <1>1, <1>2 DEF Ready
    <2>2. lifetime' = [closed |-> TRUE, active |-> {}, closers |-> <<>>]
      BY <1>1, <1>2, <2>1 DEF LifetimeType
    <2>3. CustodyInv' /\ CustodyType'
      BY <1>0, <1>1, <2>1, <2>2, TakeStep DEF Threads, WithRetrieval
    <2> QED
      BY <1>0, <1>2, <2>2, <2>3, ClientStep DEF HostIInv, LeaseInv
  <1>3. CASE lifetime.active # {}
    <2>1. lifetime' = l /\ todo' = todo
      BY <1>1, <1>3 DEF Ready
    <2>2. CustodyType'
      BY <1>1, <2>1, Types DEF HostIInv, CustodyType
    <2> HIDE DEF l
    <2>3. CustodyInv'
      BY <1>0, <1>1, <1>3, <2>1 DEF HostIInv, CustodyInv, Taken, Built, WithRetrieval
    <2> QED
      BY <1>0, <1>1, <2>1, <2>2, <2>3, ClientStep DEF HostIInv, LeaseInv
  <1> QED
    BY <1>2, <1>3

LEMMA BuildFailsInv == ASSUME HostIInv, BuildFails PROVE HostIInv'
  BY CloseStep DEF BuildFails

LEMMA CloseHostInv == ASSUME HostIInv, CloseHost PROVE HostIInv'
  <1>0. UNCHANGED <<granted, closes, caller, slot, job, reader>>
    BY DEF CloseHost
  <1>1. CASE /\ UNCHANGED <<lifetime, todo>>
             /\ \/ hostAt = "open" /\ hostAt' = "denying"
                \/ hostAt = "denying" /\ hostAt' = "refusing"
    <2>1. CustodyType' /\ reader' \in ReaderType
      BY <1>0, <1>1, Types DEF HostIInv, CustodyType
    <2>2. CustodyInv'
      BY <1>0, <1>1 DEF HostIInv, CustodyInv, Taken, Built, WithRetrieval
    <2> QED
      BY <1>0, <1>1, <2>1, <2>2, ClientStep DEF HostIInv, LeaseInv
  <1>2. CASE hostAt = "refusing" /\ hostAt' = "closed" /\ Ready("host", [lifetime EXCEPT !.closed = TRUE])
    BY <1>0, <1>2, CloseStep
  <1> QED
    BY <1>1, <1>2 DEF CloseHost

(* A client is closed once: its closer runs and is gone. *)
LEMMA FinishOneInv == ASSUME HostIInv, NEW t \in Threads, FinishOne(t) PROVE HostIInv'
  <1> DEFINE h == Head(todo[t])
  <1>0. /\ todo[t] # <<>> /\ UNCHANGED <<hostAt, granted, lifetime, caller, slot, reader>>
        /\ todo' = [todo EXCEPT ![t] = Tail(todo[t])]
        /\ closes' = [closes EXCEPT ![h] = closes[h] + 1]
        /\ job' = job \/ job' = [job EXCEPT !.verdict = "ERROR"]
    BY Types DEF FinishOne, HostIInv, CustodyType
  <1>1. /\ todo \in [Threads -> Remaining] /\ closes \in [Clients -> 0..1] /\ job \in JobType
        /\ reader \in ReaderType /\ lifetime \in LifetimeType
    BY Types DEF HostIInv, CustodyType, SessionType
  <1>2. /\ Tail(todo[t]) \in Remaining /\ h \in Clients
        /\ h \in Elements(todo[t]) /\ h \notin Elements(Tail(todo[t]))
        /\ Elements(Tail(todo[t])) \subseteq Elements(todo[t])
    BY <1>0, <1>1, HeadTail
  <1> HIDE DEF h
  <1>3. closes[h] = 0 /\ Taken
    BY <1>0, <1>2 DEF HostIInv, CustodyInv
  <1>4. closes' = [closes EXCEPT ![h] = 1]
    BY <1>0, <1>3
  <1>5. CustodyType'
    BY <1>0, <1>1, <1>2, <1>4, Types DEF HostIInv, CustodyType
  <1>6. job' \in JobType /\ job'.at = job.at
    BY <1>0, <1>1 DEF JobType, Verdicts
  <1>7. SessionType' /\ SlotInv' /\ LeaseInv'
    BY <1>0, <1>6, Types DEF HostIInv, SessionType, SlotInv, LeaseInv
  <1>8. CustodyInv'
    <2>1. todo'[t] = Tail(todo[t]) /\ \A u \in Threads \ {t} : todo'[u] = todo[u] /\ todo[u] = <<>>
      BY <1>0, <1>1 DEF HostIInv, CustodyInv
    <2>2. Taken' /\ WithRetrieval' = WithRetrieval /\ Built' = Built
      BY <1>0, <1>3 DEF Taken, WithRetrieval, Built
    <2>3. \A u \in Threads : \A c \in Elements(todo'[u]) : closes'[c] = 0
      <3> SUFFICES ASSUME NEW u \in Threads, NEW c \in Elements(todo'[u]) PROVE closes'[c] = 0
        OBVIOUS
      <3>1. u = t
        BY <2>1, ElementsValues
      <3>2. c # h /\ closes[c] = 0 /\ c \in Elements(todo[t])
        BY <1>2, <2>1, <3>1 DEF HostIInv, CustodyInv
      <3> QED
        BY <1>1, <1>4, <3>2
    <2>4. \A u, v \in Threads : u # v => todo'[u] = <<>> \/ todo'[v] = <<>>
      BY <2>1
    <2>5. ~WithRetrieval' => \A u \in Threads : "retrieval" \notin Elements(todo'[u])
      BY <1>2, <2>1, <2>2, ElementsValues DEF HostIInv, CustodyInv
    <2>6. reader'.at \in {"idle", "allowed"} => closes'["retrieval"] = 0
      <3>1. reader.at \in {"idle", "allowed"} => h # "retrieval" /\ closes["retrieval"] = 0
        BY <1>2 DEF HostIInv, CustodyInv, WithRetrieval
      <3> QED
        BY <1>0, <1>1, <1>4, <3>1
    <2> QED
      BY <1>0, <2>2, <2>3, <2>4, <2>5, <2>6 DEF HostIInv, CustodyInv
  <1> QED
    BY <1>0, <1>1, <1>5, <1>7, <1>8, TypesNext DEF HostIInv

(***************************************************************************)
(* The session and the pool.                                               *)
(***************************************************************************)

(* A step of the job alone. *)
LEMMA AtTypes ==
  ASSUME HostIInv, NEW at \in JobAts
  PROVE  [job EXCEPT !.at = at] \in JobType /\ [job EXCEPT !.at = at].at = at
  <1>1. job \in JobType
    BY Types DEF HostIInv, SessionType
  <1> QED
    BY <1>1 DEF JobType

LEMMA JobTypes ==
  ASSUME HostIInv, NEW at \in JobAts, NEW v \in Verdicts
  PROVE  /\ [job EXCEPT !.at = at, !.verdict = v] \in JobType
         /\ [job EXCEPT !.at = at, !.verdict = v].at = at
  <1>1. job \in JobType
    BY Types DEF HostIInv, SessionType
  <1> QED
    BY <1>1 DEF JobType

(* Ending a job gives the slot back. *)
LEMMA DoneStep ==
  ASSUME HostIInv, job.at \notin {"none", "done"} \cup OnTheWire, NEW vs \in SUBSET Verdicts, Done(vs),
         UNCHANGED <<hostAt, granted, lifetime, closes, todo, caller, reader>>
  PROVE  HostIInv'
  <1>1. PICK v \in vs : job' = [job EXCEPT !.at = "done", !.verdict = v]
    BY DEF Done
  <1>2. job' \in JobType /\ job'.at = "done" /\ "done" \notin OnTheWire
    BY <1>1, JobTypes DEF JobAts, OnTheWire
  <1>3. slot' = FALSE /\ caller.at # "entered"
    BY DEF Done, HostIInv, SlotInv
  <1>4. SessionType' /\ SlotInv'
    BY <1>2, <1>3, Types DEF HostIInv, SessionType, SlotInv
  <1> QED
    BY <1>2, <1>4, SessionStep

(* A running job goes on to another place that holds no lease, or stays on *)
(* the wire.                                                               *)
LEMMA JobStepInv ==
  ASSUME HostIInv, job' \in JobType, job.at \notin {"none", "done"}, job'.at \notin {"none", "done"},
         job'.at \in OnTheWire <=> job.at \in OnTheWire,
         UNCHANGED <<hostAt, granted, lifetime, closes, todo, caller, slot, reader>>
  PROVE  HostIInv'
  <1>1. SessionType' /\ SlotInv'
    BY Types DEF HostIInv, SessionType, SlotInv
  <1> QED
    BY <1>1, SessionStep

LEMMA EnterInv == ASSUME HostIInv, NEW op \in ModelOps, Enter(op) PROVE HostIInv'
  <1>0. /\ caller.at = "idle" /\ caller \in CallerType /\ slot \in BOOLEAN /\ hostAt # "building"
        /\ UNCHANGED <<hostAt, granted, lifetime, closes, todo, job, reader>>
    BY Types DEF Enter, HostIInv, SessionType
  <1>0a. caller.calls + 1 \in Nat
    BY <1>0 DEF CallerType
  <1>1. CASE (\E result \in {"BUSY", "raised"} : TurnedAway(op, result)) /\ UNCHANGED slot
    <2>1. caller' \in CallerType /\ caller'.at = "idle"
      BY <1>0a, <1>1 DEF CallerType, TurnedAway
    <2>2. SessionType' /\ SlotInv'
      BY <1>0, <1>1, <2>1, Types DEF HostIInv, SessionType, SlotInv
    <2> QED
      BY <1>0, <2>2, SessionStep
  <1>2. CASE /\ ~slot /\ slot' = TRUE
             /\ caller' = [at |-> "entered", op |-> op, result |-> "none", calls |-> caller.calls + 1]
    <2>1. caller' \in CallerType /\ caller'.at = "entered"
      BY <1>0a, <1>2 DEF CallerType, Verdicts
    <2>2. SessionType' /\ SlotInv'
      BY <1>0, <1>2, <2>1, Types DEF HostIInv, SessionType, SlotInv
    <2> QED
      BY <1>0, <2>2, SessionStep
  <1> QED
    BY <1>1, <1>2 DEF Enter

LEMMA SubmitInv == ASSUME HostIInv, Submit PROVE HostIInv'
  <1>0. /\ caller.at = "entered" /\ caller \in CallerType /\ job.at \in {"none", "done"} /\ slot
        /\ UNCHANGED <<hostAt, granted, lifetime, closes, todo, reader>>
    BY Types DEF Submit, HostIInv, SessionType, SlotInv
  <1>1. CASE /\ caller' = [caller EXCEPT !.at = "idle", !.result = "raised"]
             /\ slot' = FALSE /\ UNCHANGED job
    <2>1. caller' \in CallerType /\ caller'.at = "idle"
      BY <1>0, <1>1 DEF CallerType
    <2>2. SessionType' /\ SlotInv'
      BY <1>0, <1>1, <2>1, Types DEF HostIInv, SessionType, SlotInv
    <2> QED
      BY <1>0, <1>1, <2>2, SessionStep
  <1>2. CASE /\ job' = [op |-> caller.op, at |-> "queued", late |-> FALSE, verdict |-> "none"]
             /\ caller' = [caller EXCEPT !.at = "waiting"] /\ UNCHANGED slot
    <2>1. /\ caller' \in CallerType /\ caller'.at = "waiting"
          /\ job' \in JobType /\ job'.at = "queued"
      BY <1>0, <1>2 DEF CallerType, JobType, JobAts, Verdicts
    <2>2. SessionType' /\ SlotInv'
      BY <1>0, <1>2, <2>1, Types DEF HostIInv, SessionType, SlotInv
    <2> QED
      BY <1>0, <2>1, <2>2, SessionStep DEF OnTheWire
  <1> QED
    BY <1>1, <1>2 DEF Submit

LEMMA DeadlineInv == ASSUME HostIInv, Deadline PROVE HostIInv'
  <1>1. job' \in JobType /\ job'.at = job.at
    BY Types DEF Deadline, HostIInv, SessionType, JobType
  <1> QED
    BY <1>1, JobStepInv DEF Deadline

LEMMA ReturnInv == ASSUME HostIInv, Return PROVE HostIInv'
  <1>0. /\ caller.at = "waiting" /\ caller \in CallerType /\ job \in JobType
        /\ UNCHANGED <<hostAt, granted, lifetime, closes, todo, slot, job, reader>>
    BY Types DEF Return, HostIInv, SessionType
  <1>1. job.verdict \in Verdicts
    BY <1>0 DEF JobType
  <1>2. caller' \in CallerType /\ caller'.at = "idle"
    BY <1>0, <1>1 DEF Return, CallerType
  <1>3. SessionType' /\ SlotInv'
    BY <1>0, <1>2, Types DEF HostIInv, SessionType, SlotInv
  <1> QED
    BY <1>0, <1>3, SessionStep

LEMMA RevokeInv == ASSUME HostIInv, Revoke PROVE HostIInv'
  <1>1. SessionType' /\ SlotInv'
    BY Types DEF Revoke, HostIInv, SessionType, SlotInv
  <1> QED
    BY <1>1, SessionStep DEF Revoke

LEMMA RefreshAuthorityInv == ASSUME HostIInv, RefreshAuthority PROVE HostIInv'
  <1>1. {IF Allowed THEN "OK" ELSE "DENIED", "ERROR"} \in SUBSET Verdicts
    BY DEF Verdicts
  <1> QED
    BY <1>1, DoneStep DEF RefreshAuthority, OnTheWire

LEMMA FirstStageInv == ASSUME HostIInv, FirstStage PROVE HostIInv'
  <1>0. job.at = "queued" /\ UNCHANGED <<hostAt, granted, lifetime, closes, todo, caller, reader>>
    BY DEF FirstStage
  <1>1. CASE At("queued", "leasing") /\ UNCHANGED slot
    <2>1. job' \in JobType /\ job'.at = "leasing"
      BY <1>1, AtTypes DEF At, JobAts
    <2> QED
      BY <1>0, <1>1, <2>1, JobStepInv DEF OnTheWire
  <1>2. CASE Done({"DENIED"})
    <2>1. {"DENIED"} \in SUBSET Verdicts
      BY DEF Verdicts
    <2> QED
      BY <1>0, <1>2, <2>1, DoneStep DEF OnTheWire
  <1> QED
    BY <1>1, <1>2 DEF FirstStage

LEMMA LeaseProviderInv == ASSUME HostIInv, LeaseProvider PROVE HostIInv'
  <1>0. job.at = "leasing" /\ UNCHANGED <<hostAt, granted, closes, todo, caller, reader>>
    BY DEF LeaseProvider
  <1>1. CASE Done({"DENIED"}) /\ UNCHANGED lifetime
    <2>1. {"DENIED"} \in SUBSET Verdicts
      BY DEF Verdicts
    <2> QED
      BY <1>0, <1>1, <2>1, DoneStep DEF OnTheWire
  <1>2. CASE ~lifetime.closed /\ At("leasing", "counting") /\ Lease("model") /\ UNCHANGED slot
    <2>1. job' \in JobType /\ job'.at = "counting"
      BY <1>2, AtTypes DEF At, JobAts, OnTheWire
    <2>2. lifetime \in LifetimeType
      BY Types DEF HostIInv, CustodyType
    <2>3. /\ lifetime' \in LifetimeType /\ lifetime'.closed = lifetime.closed
          /\ lifetime'.active = lifetime.active \cup {"model"}
          /\ lifetime'.closers = lifetime.closers
      BY <1>2, <2>2 DEF Lease, LifetimeType
    <2>4. CustodyType' /\ SessionType'
      BY <1>0, <1>2, <2>1, <2>3, Types DEF HostIInv, CustodyType, SessionType
    <2>5. SlotInv' /\ LeaseInv'
      BY <1>0, <1>2, <2>1, <2>3 DEF HostIInv, SlotInv, LeaseInv, OnTheWire
    <2>6. CustodyInv'
      <3>1. ~Taken /\ ~Taken' /\ hostAt # "closed"
        BY <1>2, <2>3 DEF Taken, HostIInv, CustodyInv
      <3>2. hostAt # "building"
        BY <1>0 DEF HostIInv, SlotInv
      <3> QED
        BY <1>0, <2>3, <3>1, <3>2 DEF HostIInv, CustodyInv, Built, WithRetrieval
    <2> QED
      BY <1>0, <2>4, <2>5, <2>6, Types, TypesNext DEF HostIInv
  <1> QED
    BY <1>1, <1>2 DEF LeaseProvider

LEMMA ProviderStepInv == ASSUME HostIInv, ProviderStep PROVE HostIInv'
  <1>0. UNCHANGED <<hostAt, granted, lifetime, closes, todo, caller, slot, reader>>
    BY DEF ProviderStep
  <1>1. /\ job.at \in {"counting", "counted", "generating"}
        /\ \E at \in {"counted", "generating", "leaving"}, v \in Verdicts :
             job' \in {[job EXCEPT !.at = at], [job EXCEPT !.at = at, !.verdict = v]}
    <2>1. CASE At("counting", "counted") \/ At("counted", "generating")
      BY <2>1 DEF At, Verdicts
    <2>2. CASE \E v \in {"ERROR", "DENIED", "OK"}, from \in {"counting", "counted", "generating"} :
                 Verdict(from, "leaving", v)
      BY <2>2 DEF Verdict, Verdicts
    <2> QED
      BY <2>1, <2>2 DEF ProviderStep, GenerateStage
  <1>2. job' \in JobType /\ job'.at \in {"counted", "generating", "leaving"}
    BY <1>1, AtTypes, JobTypes, ZenonT(60) DEF JobAts, OnTheWire
  <1> QED
    BY <1>0, <1>1, <1>2, JobStepInv DEF OnTheWire

(* The last lease of a closed lifetime hands its thread the closers.       *)
LEMMA LeaveStep ==
  ASSUME HostIInv, NEW t \in {"model", "read"}, t \in lifetime.active, Leave(t),
         UNCHANGED <<hostAt, closes>>, reader' \in ReaderType, WithRetrieval' = WithRetrieval,
         reader'.at \in {"idle", "allowed"} <=> reader.at \in {"idle", "allowed"},
         reader'.at = "denied" <=> reader.at = "denied"
  PROVE  CustodyInv' /\ CustodyType' /\ lifetime'.active = lifetime.active \ {t}
  <1> DEFINE l == [lifetime EXCEPT !.active = lifetime.active \ {t}]
  <1>0. lifetime \in LifetimeType /\ ~Taken /\ t \in Threads /\ hostAt # "building"
    BY Types DEF HostIInv, CustodyType, CustodyInv, Taken, Threads
  <1>1. /\ l \in LifetimeType /\ l.closed = lifetime.closed /\ l.active = lifetime.active \ {t}
        /\ l.closers = lifetime.closers
    BY <1>0 DEF LifetimeType
  <1>2. Ready(t, l)
    BY DEF Leave
  <1>3. CASE l.closed /\ l.active = {}
    <2>1. todo' = [todo EXCEPT ![t] = Reverse(l.closers)] /\ lifetime' = [l EXCEPT !.closers = <<>>]
      BY <1>2, <1>3 DEF Ready
    <2>2. lifetime' = [closed |-> TRUE, active |-> {}, closers |-> <<>>]
      BY <1>1, <1>3, <2>1 DEF LifetimeType
    <2>3. hostAt' = "closed"
      BY <1>1, <1>3 DEF HostIInv, CustodyInv
    <2> HIDE DEF l
    <2>4. CustodyInv' /\ CustodyType'
      BY <1>0, <1>1, <2>1, <2>2, <2>3, TakeStep
    <2> QED
      BY <1>1, <1>3, <2>2, <2>4
  <1>4. CASE ~(l.closed /\ l.active = {})
    <2>1. lifetime' = l /\ todo' = todo
      BY <1>2, <1>4 DEF Ready
    <2>2. CustodyType'
      BY <1>1, <2>1, Types DEF HostIInv, CustodyType
    <2> HIDE DEF l
    <2>3. CustodyInv'
      <3>1. ~Taken'
        BY <1>4, <2>1 DEF Taken
      <3> QED
        BY <1>0, <1>1, <2>1, <3>1 DEF HostIInv, CustodyInv, Built
    <2> QED
      BY <1>1, <2>1, <2>2, <2>3
  <1> QED
    BY <1>3, <1>4

LEMMA LeaveProviderInv == ASSUME HostIInv, LeaveProvider PROVE HostIInv'
  <1>0. job.at = "leaving" /\ UNCHANGED <<hostAt, granted, closes, caller, slot, reader>>
    BY DEF LeaveProvider, At
  <1>1. "model" \in lifetime.active /\ reader \in ReaderType
    BY <1>0, Types DEF HostIInv, LeaseInv, OnTheWire
  <1>2. CustodyInv' /\ CustodyType' /\ lifetime'.active = lifetime.active \ {"model"}
    BY <1>0, <1>1, LeaveStep DEF LeaveProvider, WithRetrieval
  <1>3. job' \in JobType /\ job'.at = "finishing"
    BY AtTypes DEF LeaveProvider, At, JobAts
  <1>4. SessionType' /\ SlotInv' /\ LeaseInv'
    BY <1>0, <1>2, <1>3, Types DEF HostIInv, SessionType, SlotInv, LeaseInv, OnTheWire
  <1> QED
    BY <1>0, <1>1, <1>2, <1>4, TypesNext DEF HostIInv

LEMMA JudgeInv == ASSUME HostIInv, Judge PROVE HostIInv'
  <1> DEFINE vs == IF job.verdict # "OK" THEN {job.verdict}
                   ELSE {"ERROR", IF StageAllowed THEN "OK" ELSE "DENIED"}
  <1>1. job.verdict \in Verdicts
    BY Types DEF HostIInv, SessionType, JobType
  <1>2. vs \in SUBSET Verdicts
    BY <1>1 DEF Verdicts
  <1> QED
    BY <1>2, DoneStep DEF Judge, OnTheWire

(***************************************************************************)
(* The retrieval client.                                                   *)
(***************************************************************************)

LEMMA RequireInv == ASSUME HostIInv, Require PROVE HostIInv'
  <1>0. /\ reader.at = "idle" /\ reader \in ReaderType /\ hostAt = "open"
        /\ UNCHANGED <<hostAt, granted, lifetime, closes, todo, caller, slot, job>>
    BY Types DEF Require, Allowed, HostIInv
  <1>1. reader' \in ReaderType /\ reader'.at = "allowed"
    BY <1>0 DEF Require, ReaderType
  <1>2. CustodyType' /\ CustodyInv'
    BY <1>0, <1>1, Types DEF HostIInv, CustodyType, CustodyInv, Taken, Built, WithRetrieval
  <1> QED
    BY <1>0, <1>1, <1>2, ClientStep DEF HostIInv, LeaseInv

LEMMA MakeRetrievalInv == ASSUME HostIInv, MakeRetrieval PROVE HostIInv'
  <1>0. /\ reader.at = "allowed" /\ reader \in ReaderType /\ lifetime \in LifetimeType
        /\ closes \in [Clients -> 0..1] /\ closes["retrieval"] = 0
        /\ UNCHANGED <<hostAt, granted, todo, caller, slot, job>>
    BY Types DEF MakeRetrieval, HostIInv, CustodyType, CustodyInv
  <1>1. CASE /\ lifetime.closed
             /\ closes' = [closes EXCEPT !["retrieval"] = 1]
             /\ reader' = [reader EXCEPT !.at = "denied"] /\ UNCHANGED lifetime
    <2>1. reader' \in ReaderType /\ reader'.at = "denied"
      BY <1>0, <1>1 DEF ReaderType
    <2>2. CustodyType'
      <3>1. 1 \in 0..1
        OBVIOUS
      <3>2. closes' \in [Clients -> 0..1]
        BY <1>0, <1>1, <3>1
      <3> QED
        BY <1>0, <1>1, <3>2, Types DEF HostIInv, CustodyType
    <2>3. CustodyInv'
      <3>1. ~WithRetrieval /\ ~WithRetrieval' /\ Taken' = Taken /\ Built' = Built
        BY <1>0, <1>1, <2>1 DEF WithRetrieval, Built, Taken
      <3>2. \A t \in Threads : \A c \in Elements(todo[t]) : c # "retrieval" /\ closes[c] = 0
        BY <3>1 DEF HostIInv, CustodyInv
      <3>3. /\ \A c \in Clients \ {"retrieval"} : closes'[c] = closes[c]
            /\ \A t \in Threads : Elements(todo[t]) \subseteq Clients
        <4>1. \A s \in Remaining : Elements(s) \subseteq Clients
          BY ElementsValues DEF Remaining, Clients
        <4> QED
          BY <1>0, <1>1, <4>1, Types DEF HostIInv, CustodyType
      <3>4. \A t \in Threads : \A c \in Elements(todo'[t]) : closes'[c] = 0
        BY <1>0, <3>2, <3>3
      <3>5. ~Taken => \A c \in Clients : closes'[c] = 1 => c = "retrieval"
        BY <1>0, <3>3 DEF HostIInv, CustodyInv
      <3> QED
        BY <1>0, <1>1, <2>1, <3>1, <3>2, <3>4, <3>5 DEF HostIInv, CustodyInv
    <2> QED
      BY <1>0, <1>1, <2>1, <2>2, <2>3, ClientStep DEF HostIInv, LeaseInv
  <1>2. CASE /\ ~lifetime.closed /\ Add("retrieval")
             /\ reader' = [reader EXCEPT !.at = "ready"] /\ UNCHANGED closes
    <2>1. reader' \in ReaderType /\ reader'.at = "ready"
      BY <1>0, <1>2 DEF ReaderType
    <2>2. ~Taken /\ hostAt # "building" /\ hostAt # "closed" /\ lifetime.closers = ProviderEngine
      BY <1>0, <1>2 DEF HostIInv, CustodyInv, Taken, Built, WithRetrieval
    <2>3. lifetime' = [lifetime EXCEPT !.closers = AllClosers]
      BY <1>2, <2>2, AppendValues DEF Add
    <2>4. /\ lifetime' \in LifetimeType /\ lifetime'.closed = lifetime.closed
          /\ lifetime'.active = lifetime.active /\ lifetime'.closers = AllClosers
      BY <1>0, <2>3 DEF LifetimeType, Registered
    <2>5. CustodyType'
      BY <1>0, <1>2, <2>4, Types DEF HostIInv, CustodyType
    <2>6. CustodyInv'
      BY <1>0, <1>2, <2>1, <2>2, <2>4 DEF HostIInv, CustodyInv, Taken, Built, WithRetrieval
    <2> QED
      BY <1>0, <2>1, <2>4, <2>5, <2>6, ClientStep DEF HostIInv, LeaseInv
  <1> QED
    BY <1>1, <1>2 DEF MakeRetrieval

LEMMA SearchRetrievalInv == ASSUME HostIInv, SearchRetrieval PROVE HostIInv'
  <1>0. /\ reader.at = "ready" /\ reader \in ReaderType /\ lifetime \in LifetimeType
        /\ UNCHANGED <<hostAt, granted, closes, todo, caller, slot, job>>
    BY Types DEF SearchRetrieval, HostIInv, CustodyType
  <1>1. CASE lifetime.closed
    <2>1. lifetime' = lifetime /\ reader' = [at |-> "ready", reads |-> reader.reads + 1]
      BY <1>1 DEF SearchRetrieval
    <2>2. reader' \in ReaderType /\ reader'.at = "ready"
      BY <1>0, <2>1 DEF ReaderType
    <2>3. CustodyType' /\ CustodyInv'
      BY <1>0, <2>1, <2>2, Types DEF HostIInv, CustodyType, CustodyInv, Taken, Built, WithRetrieval
    <2> QED
      BY <1>0, <2>1, <2>2, <2>3, ClientStep DEF HostIInv, LeaseInv
  <1>2. CASE ~lifetime.closed
    <2>1. Lease("read") /\ reader' = [at |-> "searching", reads |-> reader.reads + 1]
      BY <1>2 DEF SearchRetrieval
    <2>2. reader' \in ReaderType /\ reader'.at = "searching"
      BY <1>0, <2>1 DEF ReaderType
    <2>3. /\ lifetime' \in LifetimeType /\ lifetime'.closed = lifetime.closed
          /\ lifetime'.active = lifetime.active \cup {"read"}
          /\ lifetime'.closers = lifetime.closers
      BY <1>0, <2>1 DEF Lease, LifetimeType
    <2>4. CustodyType'
      BY <1>0, <2>3, Types DEF HostIInv, CustodyType
    <2>5. CustodyInv'
      BY <1>0, <1>2, <2>2, <2>3 DEF HostIInv, CustodyInv, Taken, Built, WithRetrieval
    <2> QED
      BY <1>0, <2>2, <2>3, <2>4, <2>5, ClientStep
  <1> QED
    BY <1>1, <1>2

LEMMA SearchedRetrievalInv == ASSUME HostIInv, SearchedRetrieval PROVE HostIInv'
  <1>0. /\ reader.at = "searching" /\ reader \in ReaderType
        /\ UNCHANGED <<hostAt, granted, closes, caller, slot, job>>
    BY Types DEF SearchedRetrieval, HostIInv
  <1>1. reader' \in ReaderType /\ reader'.at = "ready"
    BY <1>0 DEF SearchedRetrieval, ReaderType
  <1>2. "read" \in lifetime.active /\ WithRetrieval' = WithRetrieval
    BY <1>0, <1>1 DEF HostIInv, LeaseInv, WithRetrieval
  <1>3. CustodyInv' /\ CustodyType' /\ lifetime'.active = lifetime.active \ {"read"}
    BY <1>0, <1>1, <1>2, LeaveStep DEF SearchedRetrieval
  <1> QED
    BY <1>0, <1>1, <1>3, ClientStep

(***************************************************************************)
(* The invariant is inductive.                                             *)
(***************************************************************************)

LEMMA HostInitInv == HostInit => HostIInv
  <1> SUFFICES ASSUME HostInit PROVE HostIInv
    OBVIOUS
  <1>1. /\ hostAt = "building" /\ reader.at = "idle" /\ job.at = "none" /\ caller.at = "idle"
        /\ ~lifetime.closed /\ lifetime.active = {} /\ lifetime.closers = <<>> /\ slot = FALSE
        /\ \A t \in Threads : todo[t] = <<>>
        /\ \A c \in Clients : closes[c] = 0
    BY DEF HostInit, NoJob
  <1>2. CustodyType
    BY DEF HostInit, CustodyType, LifetimeType, Registered, Remaining
  <1>3. SessionType /\ reader \in ReaderType
    BY DEF HostInit, SessionType, CallerType, JobType, JobAts, Verdicts, ReaderType, NoJob
  <1>4. SlotInv /\ LeaseInv
    BY <1>1 DEF SlotInv, LeaseInv, OnTheWire
  <1>5. CustodyInv
    BY <1>1, ElementsValues DEF CustodyInv, Taken, WithRetrieval, Clients
  <1> QED
    BY <1>2, <1>3, <1>4, <1>5, Types DEF HostIInv

LEMMA HostNextInv == HostIInv /\ [HostNext]_hostVars => HostIInv'
  <1> SUFFICES ASSUME HostIInv, [HostNext]_hostVars PROVE HostIInv'
    OBVIOUS
  <1>1. CASE JobStep
    BY <1>1, RefreshAuthorityInv, FirstStageInv, LeaseProviderInv, ProviderStepInv,
       LeaveProviderInv, JudgeInv DEF JobStep
  <1>2. CASE \E t \in Threads : FinishOne(t)
    BY <1>2, FinishOneInv
  <1>3. CASE UNCHANGED hostVars
    <2>1. SessionType' /\ SlotInv'
      BY <1>3, Types DEF hostVars, HostIInv, SessionType, SlotInv
    <2> QED
      BY <1>3, <2>1, SessionStep DEF hostVars
  <1> QED
    BY <1>1, <1>2, <1>3, BuildInv, BuildFailsInv, CloseHostInv, RevokeInv, EnterInv, SubmitInv,
       DeadlineInv, ReturnInv, RequireInv, MakeRetrievalInv, SearchRetrievalInv,
       SearchedRetrievalInv DEF HostNext

(***************************************************************************)
(* Whose answer a caller has.                                              *)
(***************************************************************************)

Conclusive == {"OK", "DENIED", "ERROR"}

AnswerInv ==
  /\ caller.result \in Conclusive =>
       /\ caller.at = "idle" /\ job.at = "done" /\ ~job.late
       /\ job.op = caller.op /\ job.verdict = caller.result
  /\ caller.at = "waiting" => job.op = caller.op
  /\ caller.at # "idle" => caller.result = "none"
  /\ todo["model"] # <<>> => job.at = "finishing"

(* A step of the host, of the grant or of the retrieval client. *)
LEMMA AnswerStill ==
  ASSUME AnswerInv, UNCHANGED <<caller, job>>, todo'["model"] = todo["model"]
  PROVE  AnswerInv'
  BY DEF AnswerInv

(* A step of a running job, whose caller waits or has gone away with TIMEOUT or BUSY. *)
LEMMA AnswerRuns ==
  ASSUME AnswerInv, job.at \notin {"none", "done"}, UNCHANGED caller, job'.op = job.op,
         todo'["model"] # <<>> => job'.at = "finishing"
  PROVE  AnswerInv'
  BY DEF AnswerInv, Conclusive

LEMMA ReadyOther ==
  ASSUME HostIInv, NEW t \in {"host", "read"}, NEW l, Ready(t, l)
  PROVE  todo'["model"] = todo["model"]
  <1>1. todo \in [Threads -> Remaining]
    BY Types DEF HostIInv, CustodyType
  <1> QED
    BY <1>1 DEF Ready, Threads

LEMMA AnswerJobStep ==
  ASSUME HostIInv, AnswerInv, JobStep
  PROVE  AnswerInv'
  <1>0. job \in JobType /\ todo \in [Threads -> Remaining]
    BY Types DEF HostIInv, SessionType, CustodyType
  <1>1. UNCHANGED caller
    BY DEF JobStep, RefreshAuthority, FirstStage, LeaseProvider, ProviderStep, LeaveProvider, Judge
  <1>2. ASSUME NEW vs, Done(vs) PROVE job'.op = job.op
    BY <1>0, <1>2 DEF Done, JobType
  <1>3. ASSUME NEW from, NEW to, At(from, to) PROVE job.at = from /\ job'.op = job.op /\ job'.at = to
    BY <1>0, <1>3 DEF At, JobType
  <1>4. ASSUME NEW from, NEW to, NEW v, Verdict(from, to, v)
        PROVE  job.at = from /\ job'.op = job.op
    BY <1>0, <1>4 DEF Verdict, JobType
  <1>5. CASE LeaveProvider
    <2>1. job.at = "leaving" /\ job'.op = job.op /\ job'.at = "finishing"
      BY <1>3, <1>5 DEF LeaveProvider
    <2> QED
      BY <1>1, <2>1, AnswerRuns
  <1>6. CASE Judge
    <2>1. job.at = "finishing" /\ todo["model"] = <<>> /\ UNCHANGED todo
      BY <1>6 DEF Judge
    <2>2. job'.op = job.op
      BY <1>2, <1>6 DEF Judge
    <2> QED
      BY <1>1, <2>1, <2>2, AnswerRuns
  <1>7. CASE RefreshAuthority \/ FirstStage \/ LeaseProvider \/ ProviderStep
    <2>1. UNCHANGED todo
      BY <1>7 DEF RefreshAuthority, FirstStage, LeaseProvider, ProviderStep
    <2>2. job.at \in {"queued", "leasing", "counting", "counted", "generating"} /\ job'.op = job.op
      <3>1. CASE RefreshAuthority
        BY <1>2, <3>1 DEF RefreshAuthority
      <3>2. CASE FirstStage
        BY <1>2, <1>3, <3>2 DEF FirstStage
      <3>3. CASE LeaseProvider
        BY <1>2, <1>3, <3>3 DEF LeaseProvider
      <3>4. CASE ProviderStep
        BY <1>3, <1>4, <3>4 DEF ProviderStep, GenerateStage
      <3> QED
        BY <1>7, <3>1, <3>2, <3>3, <3>4
    <2>3. todo["model"] = <<>>
      BY <2>2 DEF AnswerInv
    <2> QED
      BY <1>1, <2>1, <2>2, <2>3, AnswerRuns
  <1> QED
    BY <1>5, <1>6, <1>7 DEF JobStep

LEMMA AnswerCalls ==
  ASSUME HostIInv, AnswerInv, (\E op \in ModelOps : Enter(op)) \/ Submit \/ Deadline \/ Return
  PROVE  AnswerInv'
  <1>0. caller \in CallerType /\ job \in JobType
    BY Types DEF HostIInv, SessionType
  <1>1. CASE \E op \in ModelOps : Enter(op)
    <2>1. PICK op \in ModelOps : Enter(op)
      BY <1>1
    <2>2. /\ caller'.result \in {"BUSY", "raised", "none"} /\ caller'.at \in {"idle", "entered"}
          /\ caller'.at = "entered" => caller'.result = "none"
          /\ UNCHANGED <<job, todo>>
      BY <2>1 DEF Enter, TurnedAway
    <2> QED
      BY <2>2 DEF AnswerInv, Conclusive
  <1>2. CASE Submit
    <2>1. /\ caller.at = "entered" /\ caller.result = "none" /\ UNCHANGED todo
          /\ job.at \in {"none", "done"} /\ todo["model"] = <<>>
      BY <1>2 DEF Submit, AnswerInv, HostIInv, SlotInv
    <2>2. \/ caller'.at = "idle" /\ caller'.result = "raised" /\ UNCHANGED job
          \/ caller'.at = "waiting" /\ caller'.result = "none" /\ caller'.op = caller.op /\ job'.op = caller.op
      <3>1. CASE RuntimeClosed
        <4>1. caller' = [caller EXCEPT !.at = "idle", !.result = "raised"] /\ UNCHANGED job
          BY <1>2, <3>1 DEF Submit
        <4> QED
          BY <1>0, <4>1 DEF CallerType
      <3>2. CASE ~RuntimeClosed
        <4>1. /\ job' = [op |-> caller.op, at |-> "queued", late |-> FALSE, verdict |-> "none"]
              /\ caller' = [caller EXCEPT !.at = "waiting"]
          BY <1>2, <3>2 DEF Submit
        <4> QED
          BY <1>0, <2>1, <4>1 DEF CallerType
      <3> QED
        BY <3>1, <3>2
    <2> QED
      BY <2>1, <2>2 DEF AnswerInv, Conclusive
  <1>3. CASE Deadline
    <2>1. /\ job.at \notin {"none", "done"} /\ job'.at = job.at /\ job'.op = job.op
          /\ UNCHANGED <<caller, todo>>
      BY <1>0, <1>3 DEF Deadline, JobType
    <2> QED
      BY <2>1, AnswerRuns DEF AnswerInv
  <1>4. CASE Return
    <2>1. /\ caller.at = "waiting" /\ UNCHANGED <<job, todo>> /\ (job.at = "done" \/ job.late)
          /\ caller'.at = "idle" /\ caller'.op = caller.op
          /\ caller'.result = IF job.late THEN "TIMEOUT" ELSE job.verdict
      BY <1>0, <1>4 DEF Return, CallerType
    <2> QED
      BY <2>1 DEF AnswerInv, Conclusive
  <1> QED
    BY <1>1, <1>2, <1>3, <1>4

LEMMA AnswerNext == HostIInv /\ AnswerInv /\ [HostNext]_hostVars => AnswerInv'
  <1> SUFFICES ASSUME HostIInv, AnswerInv, [HostNext]_hostVars PROVE AnswerInv'
    OBVIOUS
  <1>1. CASE Build \/ Revoke \/ Require \/ MakeRetrieval \/ SearchRetrieval \/ UNCHANGED hostVars
    <2>1. UNCHANGED <<caller, job, todo>>
      BY <1>1 DEF Build, Revoke, Require, MakeRetrieval, SearchRetrieval, hostVars
    <2> QED
      BY <2>1, AnswerStill
  <1>2. CASE BuildFails \/ CloseHost \/ SearchedRetrieval
    <2>1. UNCHANGED <<caller, job>>
      BY <1>2 DEF BuildFails, CloseHost, SearchedRetrieval
    <2>2. UNCHANGED todo \/ \E t \in {"host", "read"}, l \in {[lifetime EXCEPT !.closed = TRUE],
                                    [lifetime EXCEPT !.active = lifetime.active \ {"read"}]} : Ready(t, l)
      <3>1. lifetime \in LifetimeType
        BY Types DEF HostIInv, CustodyType
      <3>2. [lifetime EXCEPT !.active = @ \ {"read"}] = [lifetime EXCEPT !.active = lifetime.active \ {"read"}]
        BY <3>1 DEF LifetimeType
      <3> QED
        BY <1>2, <3>2 DEF BuildFails, CloseHost, SearchedRetrieval, Leave
    <2>3. todo'["model"] = todo["model"]
      BY <2>2, ReadyOther
    <2> QED
      BY <2>1, <2>3, AnswerStill
  <1>3. CASE \E t \in Threads : FinishOne(t)
    <2>1. PICK t \in Threads : FinishOne(t)
      BY <1>3
    <2>2. job \in JobType /\ todo \in [Threads -> Remaining]
      BY Types DEF HostIInv, SessionType, CustodyType
    <2>3. UNCHANGED caller /\ todo[t] # <<>> /\ todo' = [todo EXCEPT ![t] = Tail(todo[t])]
      BY <2>1, <2>2 DEF FinishOne
    <2>4. CASE t # "model"
      <3>1. UNCHANGED <<caller, job>> /\ todo'["model"] = todo["model"]
        BY <2>1, <2>2, <2>3, <2>4 DEF FinishOne, Threads
      <3> QED
        BY <3>1, AnswerStill
    <2>5. CASE t = "model"
      <3>1. job.at = "finishing"
        BY <2>3, <2>5 DEF AnswerInv
      <3>2. job'.op = job.op /\ job'.at = job.at
        BY <2>1, <2>2 DEF FinishOne, JobType
      <3> QED
        BY <2>3, <3>1, <3>2, AnswerRuns
    <2> QED
      BY <2>4, <2>5
  <1> QED
    BY <1>1, <1>2, <1>3, AnswerJobStep, AnswerCalls DEF HostNext

(* However calls, searches, timeouts and close() interleave: no client is  *)
(* closed under a method that uses it, none twice, none before the host;   *)
(* the slot is taken exactly while a call enters or its job runs; and a    *)
(* caller's answer is that of its own job, which finished in time.         *)
THEOREM CustodyKept == HostSpec => []HostCustody
  <1>1. HostIInv /\ AnswerInv => HostCustody
    <2> SUFFICES ASSUME HostIInv, AnswerInv PROVE HostCustody
      OBVIOUS
    <2>1. closes \in [Clients -> 0..1] /\ Clients = {"provider", "engine", "retrieval"}
      BY Types DEF HostIInv, CustodyType, Clients
    <2>2. job.at \in OnTheWire => closes["provider"] = 0
      BY <2>1 DEF HostIInv, LeaseInv, CustodyInv, Taken
    <2>3. reader.at = "searching" => closes["retrieval"] = 0
      BY <2>1 DEF HostIInv, LeaseInv, CustodyInv, Taken
    <2>4. ASSUME NEW c \in Clients
          PROVE  closes[c] <= 1 /\ (closes[c] = 1 => hostAt = "closed")
      BY <2>1, <2>4 DEF HostIInv, CustodyInv, Taken
    <2>5. caller.result \in Conclusive =>
            job.at = "done" /\ ~job.late /\ job.op = caller.op /\ job.verdict = caller.result
      BY DEF AnswerInv
    <2> QED
      BY <2>2, <2>3, <2>4, <2>5 DEF HostCustody, OnTheWire, HostIInv, SlotInv, Conclusive
  <1>2. HostInit => AnswerInv
    BY DEF HostInit, AnswerInv, Conclusive, Threads
  <1> QED
    BY <1>1, <1>2, HostInitInv, HostNextInv, AnswerNext, PTL DEF HostSpec

-----------------------------------------------------------------------------
(* The incidents.                                                          *)

ReportType == [by : Callers \cup {"none"}, mode : {"none", "live", "mock"}]
RowType == [key : Keys \cup {"none"}, body : Bodies \cup {"none", "given"}, report : ReportType]
CallType == [op : {"none", "create", "investigate", "mock", "query"},
             at : {"none", "insert", "previous", "read", "resolved", "investigated", "saving",
                   "updating", "lost", "told"},
             key : Keys \cup {"none"}, body : Bodies \cup {"none"},
             target : Ids \cup {"none"}, seen : RowType]
AnswerType == [code : {"none", "created", "conflict", "ok", "denied", "mismatch", "other mode"},
               incident : Ids \cup {"none"}, report : ReportType]

IncidentTypeInv ==
  /\ rows \in [Ids -> RowType]
  /\ call \in [Callers -> CallType]
  /\ answer \in [Callers -> AnswerType]
  /\ allowed \subseteq Callers

\* The unique constraint.
KeysUnique ==
  \A i, j \in Ids :
    Exists(i) /\ Exists(j) /\ rows[i].key = rows[j].key /\ rows[i].key # "none" => i = j

\* A caller asks about one of the incidents, and is answered once.
LocalsOK(c) ==
  /\ call[c].at # "told" => answer[c] = NoAnswer
  /\ call[c].op = "create" => call[c].body \in Bodies
  /\ call[c].op \in {"investigate", "mock", "query"} =>
       call[c].target \in Ids /\ Exists(call[c].target)
  /\ call[c].at = "previous" => call[c].key # "none"
  /\ call[c].at = "updating" => call[c].seen.report = NoReport

\* Only the caller itself inserts the row of its id.
OwnRow(c) == Exists(c) => call[c].op = "create" /\ call[c].at = "told"

\* A report that was read is still the row's.
SeenOK(c) ==
  call[c].seen.report # NoReport =>
    call[c].target \in Ids /\ rows[call[c].target].report = call[c].seen.report

CreatedOK(c) ==
  Told(c, {"create"}) =>
    /\ answer[c].incident \in Ids /\ Exists(answer[c].incident)
    /\ rows[answer[c].incident].key = call[c].key
    /\ rows[answer[c].incident].body = call[c].body

ReportedOK(c) ==
  answer[c].report # NoReport =>
    /\ answer[c].incident \in Ids
    /\ rows[answer[c].incident].report = answer[c].report
    /\ call[c].op = "investigate" => answer[c].report.mode = "live"

CallerOK(c) == LocalsOK(c) /\ OwnRow(c) /\ SeenOK(c) /\ CreatedOK(c) /\ ReportedOK(c)

IncidentIInv == IncidentTypeInv /\ KeysUnique /\ \A c \in Callers : CallerOK(c)

(***************************************************************************)
(* What a step of one caller leaves of the others.                         *)
(***************************************************************************)

Others(c) == \A v \in Callers \ {c} : call'[v] = call[v] /\ answer'[v] = answer[v]

\* Rows are kept, reports are kept, and no row but the caller's own appears.
Grows(c) ==
  /\ \A i \in Ids : Exists(i) =>
       /\ rows'[i] # NoRow
       /\ rows'[i].key = rows[i].key /\ rows'[i].body = rows[i].body
  /\ \A i \in Ids : rows[i].report # NoReport => rows'[i].report = rows[i].report
  /\ \A i \in Ids \ {c} : rows'[i] # NoRow => Exists(i)

LEMMA OthersOK ==
  ASSUME IncidentIInv, NEW c \in Callers, Others(c), Grows(c), IncidentTypeInv', KeysUnique', CallerOK(c)'
  PROVE  IncidentIInv'
  <1> SUFFICES ASSUME NEW v \in Callers, v # c PROVE CallerOK(v)'
    BY DEF IncidentIInv
  <1>1. call'[v] = call[v] /\ answer'[v] = answer[v] /\ CallerOK(v) /\ v \in Ids
    BY DEF Others, IncidentIInv, Ids
  <1>2. LocalsOK(v)'
    BY <1>1 DEF CallerOK, LocalsOK, Grows, Exists
  <1>3. OwnRow(v)'
    BY <1>1 DEF CallerOK, OwnRow, Grows, Exists
  <1>4. SeenOK(v)'
    BY <1>1 DEF CallerOK, SeenOK, Grows
  <1>5. CreatedOK(v)'
    BY <1>1 DEF CallerOK, CreatedOK, Told, Grows, Exists
  <1>6. ReportedOK(v)'
    BY <1>1 DEF CallerOK, ReportedOK, Grows
  <1> QED
    BY <1>2, <1>3, <1>4, <1>5, <1>6 DEF CallerOK

(* A step that only reads the table. *)
LEMMA ReadStep ==
  ASSUME IncidentIInv, NEW c \in Callers, NEW d \in CallType, NEW a \in AnswerType, rows' = rows,
         allowed' \subseteq allowed,
         call' = [call EXCEPT ![c] = d], answer' = [answer EXCEPT ![c] = a],
         call'[c] = d /\ answer'[c] = a => CallerOK(c)'
  PROVE  IncidentIInv'
  <1>1. IncidentTypeInv'
    BY DEF IncidentIInv, IncidentTypeInv
  <1>2. Others(c) /\ call'[c] = d /\ answer'[c] = a
    BY DEF IncidentIInv, IncidentTypeInv, Others
  <1>3. Grows(c) /\ KeysUnique'
    BY DEF IncidentIInv, KeysUnique, Grows, Exists
  <1> QED
    BY <1>1, <1>2, <1>3, OthersOK

(* What an action may start from. *)
LEMMA Parts ==
  ASSUME IncidentIInv, NEW c \in Callers
  PROVE  /\ call[c] \in CallType /\ answer[c] \in AnswerType /\ CallerOK(c) /\ c \in Ids
         /\ answer = [answer EXCEPT ![c] = answer[c]]
         /\ call = [call EXCEPT ![c] = call[c]]
         /\ allowed \subseteq Callers /\ rows \in [Ids -> RowType]
  BY DEF IncidentIInv, IncidentTypeInv, Ids

(* A caller moves on without an answer: only its locals have to be right.  *)
LEMMA MoveStep ==
  ASSUME IncidentIInv, NEW c \in Callers, NEW d \in CallType, call' = [call EXCEPT ![c] = d],
         rows' = rows, answer' = answer, allowed' \subseteq allowed,
         call[c].at # "told", d.at # "told",
         d.op = "create" => d.body \in Bodies,
         d.op \in {"investigate", "mock", "query"} => d.target \in Ids /\ Exists(d.target),
         d.at = "previous" => d.key # "none",
         d.at = "updating" => d.seen.report = NoReport,
         d.seen.report # NoReport => d.target \in Ids /\ rows[d.target].report = d.seen.report
  PROVE  IncidentIInv'
  <1>1. /\ call[c] \in CallType /\ answer[c] \in AnswerType /\ CallerOK(c) /\ c \in Ids
        /\ answer = [answer EXCEPT ![c] = answer[c]]
    BY Parts
  <1>2. answer[c] = NoAnswer /\ ~Exists(c)
    BY <1>1 DEF CallerOK, LocalsOK, OwnRow
  <1>3. answer[c].code = "none" /\ answer[c].report = NoReport
    BY <1>2 DEF NoAnswer
  <1>4. ASSUME call'[c] = d, answer'[c] = answer[c] PROVE CallerOK(c)'
    <2>1. LocalsOK(c)' /\ SeenOK(c)'
      BY <1>2, <1>4 DEF LocalsOK, SeenOK, Exists
    <2>2. OwnRow(c)'
      BY <1>2 DEF OwnRow, Exists
    <2>3. CreatedOK(c)' /\ ReportedOK(c)'
      BY <1>3, <1>4 DEF CreatedOK, Told, ReportedOK
    <2> QED
      BY <2>1, <2>2, <2>3 DEF CallerOK
  <1> QED
    BY <1>1, <1>4, ReadStep

(* A caller is told something that the table confirms. *)
LEMMA TellStep ==
  ASSUME IncidentIInv, NEW c \in Callers, call[c].at # "told",
         NEW code \in {"none", "created", "conflict", "ok", "denied", "mismatch", "other mode"},
         NEW i \in Ids \cup {"none"}, NEW r \in ReportType,
         Tell(c, code, i, r), UNCHANGED <<rows, allowed>>,
         code \in {"created", "ok"} /\ call[c].op = "create" =>
            i \in Ids /\ Exists(i) /\ rows[i].key = call[c].key /\ rows[i].body = call[c].body,
         r # NoReport => /\ i \in Ids /\ rows[i].report = r
                         /\ call[c].op = "investigate" => r.mode = "live"
  PROVE  IncidentIInv'
  <1> DEFINE d == [call[c] EXCEPT !.at = "told"]
             a == [code |-> code, incident |-> i, report |-> r]
  <1>1. /\ call[c] \in CallType /\ answer[c] \in AnswerType /\ CallerOK(c) /\ c \in Ids
    BY Parts
  <1>2. call' = [call EXCEPT ![c] = d] /\ answer' = [answer EXCEPT ![c] = a]
    BY <1>1 DEF Tell, Goto
  <1>3. a \in AnswerType /\ a.code = code /\ a.incident = i /\ a.report = r
    BY DEF AnswerType
  <1>4. /\ d \in CallType /\ d.at = "told" /\ d.op = call[c].op /\ d.key = call[c].key
        /\ d.body = call[c].body /\ d.target = call[c].target /\ d.seen = call[c].seen
    BY <1>1 DEF CallType
  <1> HIDE DEF a, d
  <1>5. ASSUME call'[c] = d, answer'[c] = a PROVE CallerOK(c)'
    <2>1. LocalsOK(c)' /\ SeenOK(c)'
      BY <1>1, <1>4, <1>5 DEF CallerOK, LocalsOK, SeenOK, Exists
    <2>2. OwnRow(c)'
      BY <1>1, <1>4, <1>5 DEF CallerOK, OwnRow, Exists
    <2>3. CreatedOK(c)' /\ ReportedOK(c)'
      BY <1>3, <1>4, <1>5 DEF CreatedOK, Told, ReportedOK, Exists
    <2> QED
      BY <2>1, <2>2, <2>3 DEF CallerOK
  <1> QED
    BY <1>2, <1>3, <1>4, <1>5, ReadStep

LEMMA NoneTypes == NoReport \in ReportType /\ NoRow \in RowType /\ Idle \in CallType /\ NoAnswer \in AnswerType
  BY DEF NoReport, ReportType, NoRow, RowType, Idle, CallType, NoAnswer, AnswerType

(* A refusal tells nothing about the table. *)
LEMMA RefuseStep ==
  ASSUME IncidentIInv, NEW c \in Callers, call[c].at # "told",
         NEW code \in {"conflict", "denied", "mismatch", "other mode"},
         Refuse(c, code), UNCHANGED <<rows, allowed>>
  PROVE  IncidentIInv'
  BY NoneTypes, TellStep DEF Refuse

(***************************************************************************)
(* The actions.                                                            *)
(***************************************************************************)

LEMMA RevokedInv == ASSUME IncidentIInv, NEW c \in Callers, Revoked(c) PROVE IncidentIInv'
  <1>1. UNCHANGED <<rows, call, answer>> /\ allowed' \subseteq allowed
    BY DEF Revoked
  <1>2. IncidentTypeInv' /\ KeysUnique'
    BY <1>1 DEF IncidentIInv, IncidentTypeInv, KeysUnique, Exists
  <1>3. Others(c) /\ Grows(c)
    BY <1>1 DEF Others, Grows, Exists
  <1>4. CallerOK(c)'
    BY <1>1, Parts DEF CallerOK, LocalsOK, OwnRow, SeenOK, CreatedOK, ReportedOK, Told, Exists
  <1> QED
    BY <1>2, <1>3, <1>4, OthersOK

LEMMA AskInv == ASSUME IncidentIInv, NEW c \in Callers, Ask(c) PROVE IncidentIInv'
  <1>0. call[c].at # "told" /\ UNCHANGED <<rows, answer, allowed>>
    <2>1. call[c] = Idle /\ UNCHANGED <<rows, answer, allowed>>
      BY DEF Ask
    <2> QED
      BY <2>1 DEF Idle
  <1>1. CASE \E k \in Keys \cup {"none"}, b \in Bodies :
               call' = [call EXCEPT ![c] = [Idle EXCEPT !.op = "create", !.at = "insert",
                                                        !.key = k, !.body = b]]
    <2>1. PICK k \in Keys \cup {"none"}, b \in Bodies :
            call' = [call EXCEPT ![c] = [Idle EXCEPT !.op = "create", !.at = "insert",
                                                     !.key = k, !.body = b]]
      BY <1>1
    <2> DEFINE d == [Idle EXCEPT !.op = "create", !.at = "insert", !.key = k, !.body = b]
    <2>2. /\ d \in CallType /\ d.op = "create" /\ d.at = "insert" /\ d.body = b
          /\ d.seen.report = NoReport
      BY NoneTypes DEF CallType, Idle, NoRow
    <2>3. call' = [call EXCEPT ![c] = d]
      BY <2>1
    <2> HIDE DEF d
    <2> QED
      BY <1>0, <2>2, <2>3, MoveStep
  <1>2. CASE \E op \in {"investigate", "mock", "query"}, i \in Ids :
               /\ Exists(i)
               /\ call' = [call EXCEPT ![c] = [Idle EXCEPT !.op = op, !.at = "read", !.target = i]]
    <2>1. PICK op \in {"investigate", "mock", "query"}, i \in Ids :
            /\ Exists(i)
            /\ call' = [call EXCEPT ![c] = [Idle EXCEPT !.op = op, !.at = "read", !.target = i]]
      BY <1>2
    <2> DEFINE d == [Idle EXCEPT !.op = op, !.at = "read", !.target = i]
    <2>2. /\ d \in CallType /\ d.op = op /\ d.target = i /\ d.at = "read"
          /\ d.seen.report = NoReport
      BY NoneTypes DEF CallType, Idle, NoRow
    <2>3. call' = [call EXCEPT ![c] = d]
      BY <2>1
    <2> HIDE DEF d
    <2> QED
      BY <1>0, <2>1, <2>2, <2>3, MoveStep
  <1> QED
    BY <1>1, <1>2 DEF Ask

(* The caller of a create that has not been answered inserts its own row,  *)
(* which did not exist.                                                    *)
LEMMA InsertInv == ASSUME IncidentIInv, NEW c \in Callers, Insert(c) PROVE IncidentIInv'
  <1>0. call[c].op = "create" /\ call[c].at = "insert" /\ UNCHANGED allowed
    BY DEF Insert, Step
  <1>1. /\ call[c] \in CallType /\ answer[c] \in AnswerType /\ CallerOK(c) /\ c \in Ids
        /\ rows \in [Ids -> RowType] /\ call \in [Callers -> CallType]
        /\ answer \in [Callers -> AnswerType]
    BY Parts DEF IncidentIInv, IncidentTypeInv
  <1>2. CASE Clash(call[c].key) /\ Goto(c, "previous") /\ UNCHANGED <<rows, answer>>
    <2> DEFINE d == [call[c] EXCEPT !.at = "previous"]
    <2>1. /\ d \in CallType /\ d.at = "previous" /\ d.op = "create" /\ d.key = call[c].key
          /\ d.seen = call[c].seen /\ d.target = call[c].target /\ d.body = call[c].body
      BY <1>0, <1>1 DEF CallType
    <2>2. call' = [call EXCEPT ![c] = d]
      BY <1>1, <1>2 DEF Goto
    <2>3. d.key # "none"
      BY <1>2, <2>1 DEF Clash
    <2> HIDE DEF d
    <2> QED
      BY <1>0, <1>1, <1>2, <2>1, <2>2, <2>3, MoveStep DEF CallerOK, SeenOK, LocalsOK
  <1>3. CASE /\ ~Clash(call[c].key)
             /\ rows' = [rows EXCEPT ![c] = [NoRow EXCEPT !.key = call[c].key, !.body = call[c].body]]
             /\ Tell(c, "created", c, NoReport)
    <2> DEFINE r == [NoRow EXCEPT !.key = call[c].key, !.body = call[c].body]
               d == [call[c] EXCEPT !.at = "told"]
               a == [code |-> "created", incident |-> c, report |-> NoReport]
    <2>1. r \in RowType /\ r.key = call[c].key /\ r.body = call[c].body /\ r.report = NoReport
      BY <1>1, NoneTypes DEF RowType, CallType, NoRow
    <2>2. rows' = [rows EXCEPT ![c] = r]
      BY <1>3
    <2>3. call' = [call EXCEPT ![c] = d] /\ answer' = [answer EXCEPT ![c] = a]
      BY <1>1, <1>3 DEF Tell, Goto
    <2>4. a \in AnswerType /\ a.code = "created" /\ a.incident = c /\ a.report = NoReport
      BY <1>1, NoneTypes DEF AnswerType
    <2>5. /\ d \in CallType /\ d.at = "told" /\ d.op = "create" /\ d.key = call[c].key
          /\ d.body = call[c].body /\ d.target = call[c].target /\ d.seen = call[c].seen
      BY <1>0, <1>1 DEF CallType
    <2> HIDE DEF r, d, a
    <2>6. /\ IncidentTypeInv' /\ Others(c) /\ call'[c] = d /\ answer'[c] = a /\ rows'[c] = r
          /\ \A i \in Ids \ {c} : rows'[i] = rows[i]
      BY <1>0, <1>1, <2>1, <2>2, <2>3, <2>4, <2>5 DEF IncidentIInv, IncidentTypeInv, Others
    <2>7. rows[c] = NoRow /\ NoRow.report = NoReport /\ NoRow.body = "none"
      BY <1>0, <1>1 DEF CallerOK, OwnRow, Exists, NoRow
    <2>8. Grows(c)
      BY <2>6, <2>7 DEF Grows, Exists
    <2>9. KeysUnique'
      <3>1. r.key # "none" => \A i \in Ids : Exists(i) => rows[i].key # r.key
        BY <1>3, <2>1 DEF Clash
      <3> SUFFICES ASSUME NEW i \in Ids, NEW j \in Ids, rows'[i] # NoRow, rows'[j] # NoRow,
                          rows'[i].key = rows'[j].key, rows'[i].key # "none"
                   PROVE  i = j
        BY DEF KeysUnique, Exists
      <3>2. CASE i # c /\ j # c
        BY <2>6, <3>2 DEF IncidentIInv, KeysUnique, Exists
      <3>3. CASE i = c /\ j # c
        BY <2>6, <3>1, <3>3 DEF Exists
      <3>4. CASE i # c /\ j = c
        BY <2>6, <3>1, <3>4 DEF Exists
      <3> QED
        BY <3>2, <3>3, <3>4
    <2>10. CallerOK(c)'
      <3>1. LocalsOK(c)' /\ OwnRow(c)' /\ ReportedOK(c)'
        BY <1>0, <1>1, <2>4, <2>5, <2>6 DEF CallerOK, LocalsOK, OwnRow, ReportedOK
      <3>2. SeenOK(c)'
        BY <1>1, <2>5, <2>6, <2>8 DEF CallerOK, SeenOK, Grows
      <3>3. r # NoRow
        BY <1>0, <1>1, <2>1, <2>7, IncidentAssumption DEF CallerOK, LocalsOK
      <3>4. CreatedOK(c)'
        BY <1>1, <2>1, <2>4, <2>5, <2>6, <3>3 DEF CreatedOK, Told, Exists
      <3> QED
        BY <3>1, <3>2, <3>4 DEF CallerOK
    <2> QED
      BY <2>6, <2>8, <2>9, <2>10, OthersOK
  <1> QED
    BY <1>2, <1>3 DEF Insert

LEMMA PreviousInv == ASSUME IncidentIInv, NEW c \in Callers, Previous(c) PROVE IncidentIInv'
  <1>0. call[c].op = "create" /\ call[c].at = "previous" /\ UNCHANGED <<rows, allowed>>
    BY DEF Previous, Step
  <1>1. PICK i \in Ids :
          /\ Exists(i) /\ rows[i].key = call[c].key
          /\ IF rows[i].body = call[c].body THEN Tell(c, "created", i, NoReport)
                                            ELSE Refuse(c, "conflict")
    BY DEF Previous
  <1>2. CASE rows[i].body = call[c].body
    BY <1>0, <1>1, <1>2, NoneTypes, TellStep
  <1>3. CASE rows[i].body # call[c].body
    BY <1>0, <1>1, <1>3, RefuseStep
  <1> QED
    BY <1>2, <1>3

(* Reading the row of the incident asked for. *)
LEMMA SeeStep ==
  ASSUME IncidentIInv, NEW c \in Callers, call[c].op \in {"investigate", "mock", "query"},
         call[c].at # "told", NEW at \in {"resolved", "investigated", "updating"},
         at = "updating" => rows[call[c].target].report = NoReport,
         call' = [call EXCEPT ![c].at = at, ![c].seen = rows[call[c].target]],
         UNCHANGED <<rows, answer, allowed>>
  PROVE  IncidentIInv'
  <1> DEFINE d == [call[c] EXCEPT !.at = at, !.seen = rows[call[c].target]]
  <1>1. /\ call[c] \in CallType /\ CallerOK(c) /\ rows \in [Ids -> RowType]
        /\ call \in [Callers -> CallType]
    BY Parts DEF IncidentIInv, IncidentTypeInv
  <1>2. /\ call[c].target \in Ids /\ rows[call[c].target] \in RowType
        /\ Exists(call[c].target)
    BY <1>1 DEF CallerOK, LocalsOK
  <1>3. /\ d \in CallType /\ d.op = call[c].op /\ d.at = at /\ d.target = call[c].target
        /\ d.seen = rows[call[c].target]
    BY <1>1, <1>2 DEF CallType
  <1>4. call' = [call EXCEPT ![c] = d]
    BY <1>1
  <1> HIDE DEF d
  <1> QED
    BY <1>2, <1>3, <1>4, MoveStep

(* Telling a report that the row holds. *)
LEMMA TellRow ==
  ASSUME IncidentIInv, NEW c \in Callers, call[c].op \in {"investigate", "mock", "query"},
         call[c].at # "told", NEW r \in ReportType,
         r # NoReport => rows[call[c].target].report = r,
         call[c].op = "investigate" => r.mode = "live",
         Tell(c, "ok", call[c].target, r), UNCHANGED <<rows, allowed>>
  PROVE  IncidentIInv'
  <1>1. call[c].target \in Ids
    BY Parts DEF CallerOK, LocalsOK
  <1> QED
    BY <1>1, TellStep

LEMMA QueryInv == ASSUME IncidentIInv, NEW c \in Callers, Query(c) PROVE IncidentIInv'
  <1>0. UNCHANGED <<rows, allowed>> /\ call[c].op = "query" /\ call[c].at \in {"read", "resolved"}
    BY DEF Query, Step
  <1>1. CASE /\ call' = [call EXCEPT ![c].at = "resolved", ![c].seen = rows[call[c].target]]
             /\ UNCHANGED answer
    BY <1>0, <1>1, SeeStep
  <1>2. CASE Tell(c, "ok", call[c].target, call[c].seen.report)
    <2>1. call[c].seen.report \in ReportType
      BY Parts DEF CallType, RowType
    <2>2. call[c].seen.report # NoReport => rows[call[c].target].report = call[c].seen.report
      BY Parts DEF CallerOK, SeenOK
    <2> QED
      BY <1>0, <1>2, <2>1, <2>2, TellRow
  <1>3. CASE Refuse(c, "denied")
    BY <1>0, <1>3, RefuseStep
  <1> QED
    BY <1>1, <1>2, <1>3 DEF Query

LEMMA ReadIncidentInv == ASSUME IncidentIInv, NEW c \in Callers, ReadIncident(c) PROVE IncidentIInv'
  <1>0. /\ UNCHANGED <<rows, allowed>> /\ call[c].op \in {"investigate", "mock"}
        /\ call[c].at = "read"
    BY DEF ReadIncident, Investigating
  <1>1. CASE /\ call' = [call EXCEPT ![c].at = "investigated", ![c].seen = rows[call[c].target]]
             /\ UNCHANGED answer
    BY <1>0, <1>1, SeeStep
  <1>2. CASE call[c].op = "mock" /\ Tell(c, "ok", call[c].target, rows[call[c].target].report)
    <2>1. rows[call[c].target].report \in ReportType
      BY <1>0, Parts DEF CallerOK, LocalsOK, RowType
    <2> QED
      BY <1>0, <1>2, <2>1, TellRow
  <1> QED
    BY <1>1, <1>2 DEF ReadIncident

LEMMA ReauthorizeInv == ASSUME IncidentIInv, NEW c \in Callers, Reauthorize(c) PROVE IncidentIInv'
  <1>0. /\ UNCHANGED <<rows, allowed>> /\ call[c].op \in {"investigate", "mock"}
        /\ call[c].at = "investigated"
    BY DEF Reauthorize, Investigating
  <1>1. CASE Refuse(c, "mismatch") \/ Refuse(c, "denied")
    BY <1>0, <1>1, RefuseStep
  <1>2. CASE Goto(c, "saving") /\ UNCHANGED answer
    <2> DEFINE d == [call[c] EXCEPT !.at = "saving"]
    <2>1. /\ call[c] \in CallType /\ CallerOK(c) /\ call \in [Callers -> CallType]
      BY Parts DEF IncidentIInv, IncidentTypeInv
    <2>2. /\ d \in CallType /\ d.at = "saving" /\ d.op = call[c].op /\ d.target = call[c].target
          /\ d.seen = call[c].seen
      BY <2>1 DEF CallType
    <2>3. call' = [call EXCEPT ![c] = d]
      BY <1>2, <2>1 DEF Goto
    <2> HIDE DEF d
    <2> QED
      BY <1>0, <1>2, <2>1, <2>2, <2>3, MoveStep DEF CallerOK, LocalsOK, SeenOK
  <1> QED
    BY <1>1, <1>2 DEF Reauthorize

(* Telling the report of the row, unless its mode is wrong. *)
LEMMA TellReportInv ==
  ASSUME IncidentIInv, NEW c \in Callers, call[c].op \in {"investigate", "mock"}, call[c].at # "told",
         TellReport(c, rows[call[c].target].report), UNCHANGED <<rows, allowed>>
  PROVE  IncidentIInv'
  <1>1. rows[call[c].target].report \in ReportType
    BY Parts DEF CallerOK, LocalsOK, RowType
  <1> QED
    BY <1>1, TellRow, RefuseStep DEF TellReport

LEMMA ReadRowInv == ASSUME IncidentIInv, NEW c \in Callers, ReadRow(c) PROVE IncidentIInv'
  <1>0. /\ UNCHANGED <<rows, allowed>> /\ call[c].op \in {"investigate", "mock"}
        /\ call[c].at = "saving"
    BY DEF ReadRow, Investigating
  <1>1. CASE TellReport(c, rows[call[c].target].report)
    BY <1>0, <1>1, TellReportInv
  <1>2. CASE /\ rows[call[c].target].report = NoReport
             /\ call' = [call EXCEPT ![c].at = "updating", ![c].seen = rows[call[c].target]]
             /\ UNCHANGED answer
    BY <1>0, <1>2, SeeStep
  <1> QED
    BY <1>1, <1>2 DEF ReadRow

LEMMA ReadWinnerInv == ASSUME IncidentIInv, NEW c \in Callers, ReadWinner(c) PROVE IncidentIInv'
  BY TellReportInv DEF ReadWinner, Investigating

(* The conditional update writes the first report, and never another.      *)
LEMMA UpdateRowInv == ASSUME IncidentIInv, NEW c \in Callers, UpdateRow(c) PROVE IncidentIInv'
  <1> DEFINE i == call[c].target
             own == [by |-> c, mode |-> ModeOf(c)]
  <1>0. /\ UNCHANGED allowed /\ call[c].op \in {"investigate", "mock"}
        /\ call[c].at = "updating"
    BY DEF UpdateRow, Investigating
  <1>1. /\ call[c] \in CallType /\ answer[c] \in AnswerType /\ CallerOK(c) /\ c \in Ids
        /\ rows \in [Ids -> RowType] /\ call \in [Callers -> CallType]
        /\ answer \in [Callers -> AnswerType]
    BY Parts DEF IncidentIInv, IncidentTypeInv
  <1>2. call[c].seen.report = NoReport /\ i \in Ids /\ Exists(i)
    BY <1>0, <1>1 DEF CallerOK, LocalsOK
  <1>3. CASE Goto(c, "lost") /\ UNCHANGED <<rows, answer>>
    <2> DEFINE d == [call[c] EXCEPT !.at = "lost"]
    <2>1. /\ d \in CallType /\ d.at = "lost" /\ d.op = call[c].op /\ d.target = call[c].target
          /\ d.seen = call[c].seen
      BY <1>1 DEF CallType
    <2>2. call' = [call EXCEPT ![c] = d]
      BY <1>1, <1>3 DEF Goto
    <2> HIDE DEF d
    <2> QED
      BY <1>0, <1>1, <1>2, <1>3, <2>1, <2>2, MoveStep DEF CallerOK, LocalsOK, SeenOK
  <1>4. CASE /\ rows[i] = call[c].seen /\ rows' = [rows EXCEPT ![i].report = Candidate(c)]
             /\ TellReport(c, Candidate(c))
    <2>1. /\ own \in ReportType /\ own.mode \in {"live", "mock"} /\ own # NoReport
          /\ own.mode = "mock" => call[c].op = "mock"
      BY DEF ModeOf, ReportType, NoReport
    <2>2. Candidate(c) = own
      BY <1>2 DEF Candidate
    <2> HIDE DEF own
    <2> DEFINE r == [rows[i] EXCEPT !.report = own]
               d == [call[c] EXCEPT !.at = "told"]
               a == [code |-> "ok", incident |-> i, report |-> own]
    <2>3. rows[i].report = NoReport /\ rows[i] \in RowType
      BY <1>1, <1>2, <1>4
    <2>4. rows' = [rows EXCEPT ![i] = r]
      BY <1>1, <1>2, <1>4, <2>2
    <2>5. r \in RowType /\ r.report = own /\ r.key = rows[i].key /\ r.body = rows[i].body
      BY <2>1, <2>3 DEF RowType
    <2>6. call' = [call EXCEPT ![c] = d] /\ answer' = [answer EXCEPT ![c] = a]
      <3>1. Tell(c, "ok", i, own)
        BY <1>0, <1>4, <2>1, <2>2 DEF TellReport
      <3> QED
        BY <1>1, <3>1 DEF Tell, Goto
    <2>7. a \in AnswerType /\ a.code = "ok" /\ a.incident = i /\ a.report = own
      BY <1>2, <2>1 DEF AnswerType
    <2>8. /\ d \in CallType /\ d.at = "told" /\ d.op = call[c].op /\ d.key = call[c].key
          /\ d.body = call[c].body /\ d.target = i /\ d.seen = call[c].seen
      BY <1>0, <1>1 DEF CallType
    <2> HIDE DEF r, d, a
    <2>9. /\ IncidentTypeInv' /\ Others(c) /\ call'[c] = d /\ answer'[c] = a /\ rows'[i] = r
          /\ \A j \in Ids \ {i} : rows'[j] = rows[j]
      BY <1>0, <1>1, <1>2, <2>4, <2>5, <2>6, <2>7, <2>8 DEF IncidentIInv, IncidentTypeInv, Others
    <2>10. r # NoRow
      BY <2>1, <2>5 DEF NoRow
    <2>11. KeysUnique'
      BY <1>2, <2>5, <2>9 DEF IncidentIInv, KeysUnique, Exists
    <2>12. Grows(c)
      BY <1>2, <2>3, <2>5, <2>9, <2>10 DEF Grows, Exists
    <2>13. CallerOK(c)'
      <3>1. LocalsOK(c)'
        BY <1>0, <1>1, <1>2, <2>8, <2>9, <2>10 DEF CallerOK, LocalsOK, Exists
      <3>2. OwnRow(c)'
        BY <1>0, <1>1, <1>2, <2>9 DEF CallerOK, OwnRow, Exists
      <3>3. SeenOK(c)' /\ CreatedOK(c)'
        BY <1>0, <1>2, <2>8, <2>9 DEF SeenOK, CreatedOK, Told
      <3>4. ReportedOK(c)'
        BY <1>0, <1>2, <2>1, <2>5, <2>7, <2>8, <2>9 DEF ReportedOK
      <3> QED
        BY <3>1, <3>2, <3>3, <3>4 DEF CallerOK
    <2> QED
      BY <2>9, <2>11, <2>12, <2>13, OthersOK
  <1> QED
    BY <1>3, <1>4 DEF UpdateRow

(***************************************************************************)
(* The invariant is inductive.                                             *)
(***************************************************************************)

LEMMA IncidentInitInv == IncidentInit => IncidentIInv
  <1> SUFFICES ASSUME IncidentInit PROVE IncidentIInv
    OBVIOUS
  <1>1. [NoRow EXCEPT !.body = "given"] \in RowType /\ [NoRow EXCEPT !.body = "given"].key = "none"
    BY NoneTypes DEF RowType, NoRow
  <1>2. IncidentTypeInv
    BY <1>1, NoneTypes DEF IncidentInit, IncidentTypeInv
  <1>3. \A i \in Ids : rows[i].key = "none"
    BY <1>1 DEF IncidentInit, NoRow
  <1>4. KeysUnique
    BY <1>3 DEF KeysUnique
  <1>5. ASSUME NEW c \in Callers PROVE CallerOK(c)
    <2>1. call[c] = Idle /\ answer[c] = NoAnswer /\ rows[c] = NoRow
      BY IncidentAssumption DEF IncidentInit, Ids
    <2>2. /\ Idle.op = "none" /\ Idle.at = "none" /\ Idle.seen.report = NoReport
          /\ NoAnswer.code = "none" /\ NoAnswer.report = NoReport
      BY DEF Idle, NoAnswer, NoRow
    <2> QED
      BY <2>1, <2>2 DEF CallerOK, LocalsOK, OwnRow, Exists, SeenOK, CreatedOK, ReportedOK, Told
  <1> QED
    BY <1>2, <1>4, <1>5 DEF IncidentIInv

LEMMA IncidentNextInv == IncidentIInv /\ [IncidentNext]_incidentVars => IncidentIInv'
  <1> SUFFICES ASSUME IncidentIInv, [IncidentNext]_incidentVars PROVE IncidentIInv'
    OBVIOUS
  <1>1. ASSUME NEW c \in Callers,
               \/ Revoked(c) \/ Ask(c) \/ Insert(c) \/ Previous(c) \/ Query(c) \/ ReadIncident(c)
               \/ Reauthorize(c) \/ ReadRow(c) \/ UpdateRow(c) \/ ReadWinner(c)
        PROVE  IncidentIInv'
    BY <1>1, RevokedInv, AskInv, InsertInv, PreviousInv, QueryInv, ReadIncidentInv,
       ReauthorizeInv, ReadRowInv, UpdateRowInv, ReadWinnerInv
  <1>2. CASE UNCHANGED incidentVars
    BY <1>2 DEF incidentVars, IncidentIInv, IncidentTypeInv, KeysUnique, CallerOK, LocalsOK, OwnRow, SeenOK,
                CreatedOK, ReportedOK, Told, Exists
  <1> QED
    BY <1>1, <1>2 DEF IncidentNext

(* Any number of concurrent callers agree: one incident per idempotency    *)
(* key, with the request of each caller that was told it, and one report   *)
(* per incident, the one in the table, live whenever the authenticated API *)
(* returned it.                                                            *)
THEOREM CallersAgree == IncidentSpec => []IncidentsAgree
  <1>1. IncidentIInv => IncidentsAgree
    <2> SUFFICES ASSUME IncidentIInv PROVE IncidentsAgree
      OBVIOUS
    <2>1. ASSUME NEW c \in Callers PROVE CallerOK(c)
      BY DEF IncidentIInv
    <2>2. ASSUME NEW c \in Callers, NEW d \in Callers, Told(c, {"create"}), Told(d, {"create"}),
                 call[c].key = call[d].key, call[c].key # "none"
          PROVE  answer[c].incident = answer[d].incident
      <3>1. CreatedOK(c) /\ CreatedOK(d) /\ KeysUnique
        BY <2>1 DEF CallerOK, IncidentIInv
      <3> QED
        BY <2>2, <3>1 DEF CreatedOK, KeysUnique
    <2>3. ASSUME NEW c \in Callers, Told(c, {"create"})
          PROVE  rows[answer[c].incident].body = call[c].body
      BY <2>1, <2>3 DEF CallerOK, CreatedOK
    <2>4. ASSUME NEW c \in Callers, answer[c].report # NoReport
          PROVE  /\ rows[answer[c].incident].report = answer[c].report
                 /\ call[c].op = "investigate" => answer[c].report.mode = "live"
      BY <2>1, <2>4 DEF CallerOK, ReportedOK
    <2> QED
      BY <2>2, <2>3, <2>4 DEF IncidentsAgree
  <1> QED
    BY <1>1, IncidentInitInv, IncidentNextInv, PTL DEF IncidentSpec
=============================================================================
