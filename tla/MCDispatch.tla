----------------------------- MODULE MCDispatch -----------------------------
(***************************************************************************)
(* Instance of Dispatch for TLC: one intent with a blocking command and    *)
(* one that takes no lock.                                                 *)
(***************************************************************************)
EXTENDS Dispatch

Step(blocking) == [ghost |-> TheGhost, seed |-> "s", blocking |-> blocking]

MCIntents == {"a"}

MCSeeds == {"s"}

TwoSteps == [i \in MCIntents |-> {<<Step(TRUE), Step(FALSE)>>}]

MCSeedLockKey == [p \in {TheGhost} \X MCSeeds |-> p[1] \o "::" \o p[2]]

OwnID == [i \in MCIntents |-> i]
=============================================================================
