\* Hosted provider, two configurations on one host, small evidence and prompt bounds: every session ends.
SPECIFICATION FairSpec
CONSTANTS
    Nil = Nil
    w1 = w1  w2 = w2  h1 = h1  h2 = h2  r1 = r1  r2 = r2  b1 = b1  b2 = b2  e1 = e1  e2 = e2
    Workers = {w1, w2}
    Hosts = {h1, h2}
    Host <- OneHost
    Binding <- OtherBinding
    Requests = {r1, r2}
    Items = {e1, e2}
    ModelCost <- OneModelCall
    ReadCost <- OneReadEach
    Limits <- ThreeCallsTwoReads
    Local = FALSE
    ModelCalls = 3
    MaxEvidence = 1
    PromptItems = 0
PROPERTY SessionEnds
