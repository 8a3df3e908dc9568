----------------------------- MODULE SetupPlan -----------------------------
(***************************************************************************)
(* What a deployment promises, whatever happens to the process that makes  *)
(* it: goals are reached in their order, but for some that are free of it, *)
(* and never lost; success is announced only when all of them are reached; *)
(* and a start from nothing takes both back.                               *)
(***************************************************************************)
EXTENDS Naturals

CONSTANTS
    Goals,     \* positions of the script that establish something
    Free       \* the goals that need not wait for the ones before them

VARIABLES done, announced

planVars == <<done, announced>>

PlanInit == done = {} /\ announced = FALSE

\* Goal g can be the next one.
IsNext(g) ==
    g \in Goals \ done /\ (g \in Free \/ \A h \in Goals : h < g => h \in done)

Reach ==
    \E g \in Goals : IsNext(g) /\ done' = done \cup {g} /\ UNCHANGED announced

Announce ==
    done = Goals /\ announced' = TRUE /\ UNCHANGED done

Restart ==
    done' = {} /\ announced' = FALSE

PlanNext == Reach \/ Announce \/ Restart

PlanSpec == PlanInit /\ [][PlanNext]_planVars
=============================================================================
