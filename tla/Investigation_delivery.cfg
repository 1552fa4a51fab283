\* Redelivery to the bare graph with its breakpoint, as the worker's test wires it.
SPECIFICATION FairSpec
CONSTANTS
    Nil = Nil
    w1 = w1  w2 = w2
    Workers = {w1, w2}
    MaxSteps = 4
    MaxOps = 1
    Reasoned = FALSE
    Verified = FALSE
    Pause = TRUE
    Operated = FALSE
    Revocable = FALSE
    MaxCrashes = 2
PROPERTY RedeliveryResumes
