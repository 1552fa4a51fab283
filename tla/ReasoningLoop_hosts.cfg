\* Two hosts run the same incident with the local provider: only the ledger coordinates them.
SPECIFICATION Spec
CONSTANTS
    Nil = Nil
    w1 = w1  w2 = w2  h1 = h1  h2 = h2  r1 = r1  r2 = r2  b1 = b1  b2 = b2  e1 = e1  e2 = e2
    Workers = {w1, w2}
    Hosts = {h1, h2}
    Host <- TwoHosts
    Binding <- SameBinding
    Requests = {r1, r2}
    Items = {e1}
    ModelCost <- OneModelCall
    ReadCost <- OneReadEach
    Limits <- ThreeCallsOneRead
    Local = TRUE
    ModelCalls = 3
    MaxEvidence = 1
    PromptItems = 1
INVARIANTS DispatchedOnce SpendWithinLimits ReplayMatches
           DecisionRestsOnJournal
PROPERTY JournalOnlyGrows
