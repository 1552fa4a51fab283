\* Two processes of the operator host, deaths, lost grants and manual restarts.
SPECIFICATION Spec
CONSTANTS
    Nil = Nil
    w1 = w1  w2 = w2
    Workers = {w1, w2}
    MaxSteps = 6
    MaxOps = 2
    Reasoned = TRUE
    Verified = TRUE
    Pause = FALSE
    Operated = TRUE
    Revocable = TRUE
    MaxCrashes = 2
SYMMETRY WorkerSymmetry
INVARIANTS AcknowledgedReport CollectedOnce StepsNeverReplenished HonestReport
PROPERTY CheckpointNeverRegresses
