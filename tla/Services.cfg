SPECIFICATION Spec
CONSTANTS
  Plans <- MCPlans
  Peers <- MCPeers
  Declines <- MCDeclines
  Capacity = 1
  Concurrency = 2
  Requests = {"q1", "q2", "q3"}
  MaxActive = 2
  MinAllocated = 2
  MaxCalls = 2
  MaxReads = 2
  Callers = {"c1", "c2", "c3"}
  Keys = {"k1"}
  Bodies = {"b1", "b2"}
  Scopes <- MCScopes
  Originals <- MCOriginals
  MaxLinks = 1
  MaxRows = 2
  MaxTtl = 1
  MaxTime = 1
  MaxSearches = 2
  MaxPuts = 1
  Slots = {1, 2}
  Texts <- MCTexts
  MaxChanges = 2
  MaxCommands = 8
  MaxSpans = 4
INVARIANTS ReceiptHonest OneExecution AcceptedByAll MemoryJudgement HostCustody IncidentsAgree EvidenceScoped TraceHonest
PROPERTIES PauseStopsAdmission ServicesEnd
CHECK_DEADLOCK FALSE
