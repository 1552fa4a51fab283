\* Redelivery to the operator host, as the worker's documentation wires it.
SPECIFICATION FairSpec
CONSTANTS
    Nil = Nil
    w1 = w1  w2 = w2
    Workers = {w1}
    MaxSteps = 4
    MaxOps = 1
    Reasoned = TRUE
    Verified = TRUE
    Pause = FALSE
    Operated = FALSE
    Revocable = FALSE
    MaxCrashes = 1
PROPERTY RedeliveryResumes
