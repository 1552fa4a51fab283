---------------------------- MODULE ScenarioLatch ----------------------------
(***************************************************************************)
(* What the latch file promises: one harness works at a time, only a       *)
(* working harness alters the cluster, and the latch is released only when *)
(* nothing is altered.  A harness that stops without releasing it leaves   *)
(* the cluster closed to later runs.                                       *)
(***************************************************************************)
CONSTANT Harnesses, Objects, Free

VARIABLES holder,   \* Free or the harness whose latch file exists
          working,  \* the harnesses between start and end
          altered   \* the objects that carry a harness's variant

vars == <<holder, working, altered>>

Init == holder = Free /\ working = {} /\ altered = {}

\* The latch is taken; the run behind it may fail at once.
Take(h) == /\ holder = Free /\ working = {}
           /\ holder' = h /\ working' \in {{h}, {}}
           /\ UNCHANGED altered

\* The working harness or a controller it left behind changes objects; a foreign
\* operator may take an object over at any time.
Alter == /\ \/ altered' \subseteq altered
            \/ holder # Free /\ altered' \subseteq Objects
         /\ UNCHANGED <<holder, working>>

Stop(h) == working = {h} /\ working' = {} /\ altered' \subseteq altered /\ UNCHANGED holder

Release(h) == /\ working = {h} /\ holder = h /\ altered = {}
              /\ holder' = Free /\ working' = {}
              /\ UNCHANGED altered

Next == Alter \/ \E h \in Harnesses : Take(h) \/ Stop(h) \/ Release(h)

Spec == Init /\ [][Next]_vars
=============================================================================
