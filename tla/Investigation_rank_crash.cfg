\* The host's own step budget and one death.
SPECIFICATION Spec
CONSTANTS
    Nil = Nil
    w1 = w1  w2 = w2
    Workers = {w1}
    MaxSteps = 4
    MaxOps = 1
    Reasoned = TRUE
    Verified = TRUE
    Pause = FALSE
    Operated = TRUE
    Revocable = FALSE
    MaxCrashes = 1
INVARIANT CompletedLoopReplays
