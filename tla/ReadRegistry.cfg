\* Two threads share a registry; reads raise, time out, hang for ever or come back.
SPECIFICATION FairSpec
CONSTANTS
    c1 = c1  c2 = c2
    Callers = {c1, c2}
    Slots = 2
    Deadline = 0
    Refresh = 0
    Raised = {"DENIED"}
    MaxBatch <- PairAndSingle
INVARIANTS NoHiddenQueue ReturnedInTimeAndGranted NeverBusyAlone
PROPERTY RegistryReturns
