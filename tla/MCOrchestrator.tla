--------------------------- MODULE MCOrchestrator ---------------------------
(***************************************************************************)
(* Instances of Orchestrator for TLC: intents "a" and "b" compete for the  *)
(* blocking lock of one seed of Ghost "g"; "a" has a second command on     *)
(* another Ghost, "b" one that takes no lock.                              *)
(***************************************************************************)
EXTENDS Orchestrator

Blocking(g, s) == [ghost |-> g, seed |-> s, blocking |-> TRUE]

Plain(g, s) == [ghost |-> g, seed |-> s, blocking |-> FALSE]

MCIntents == {"a", "b"}

MCGhosts == {"g", "h"}

MCSeeds == {"s"}

PlanA == <<Blocking("g", "s"), Blocking("h", "s")>>

PlanB == <<Blocking("g", "s"), Plain("h", "s")>>

\* A resubmission of "a" may be shorter and go elsewhere first.
PlansWithRevision ==
  [i \in MCIntents |-> IF i = "a" THEN {PlanA, <<Blocking("h", "s")>>} ELSE {PlanB}]

\* Two steps of "a" take the same lock one after the other.
LongPlan ==
  [i \in MCIntents |->
     IF i = "a" THEN {<<Blocking("g", "s"), Blocking("g", "s")>>}
     ELSE {<<Blocking("g", "s"), Plain("h", "s")>>}]

\* "ghost::seed"
MCSeedLockKey ==
  [p \in MCGhosts \X MCSeeds |-> p[1] \o "::" \o p[2]]

SameID == [i \in MCIntents |-> i]
=============================================================================
