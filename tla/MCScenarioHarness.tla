-------------------------- MODULE MCScenarioHarness --------------------------
EXTENDS ScenarioHarness

CONSTANTS first, second, free

MCHarnesses == {first, second}

\* Every harness once, and a second process that comes while or after it runs.
MCAllCases == [h \in MCHarnesses |-> IF h = first THEN CaseIds ELSE {"ROLLOUT-01"}]

MCEviction == [h \in MCHarnesses |-> {"SCHED-04"}]
==============================================================================
