--------------------------- MODULE IntentProgress ---------------------------
(***************************************************************************)
(* What the orchestration loop promises about one intent, without workers, *)
(* locks or events: the commands of an issue are completed one at a time,  *)
(* a report says so each time, and "satisfied" is said of the last command *)
(* and of no other.  Submitting the intent again starts over.              *)
(***************************************************************************)
EXTENDS Naturals

CONSTANT Intents

VARIABLES
  total,   \* total[i]: the length of intent i's plan, 0 before its first issue
  done,    \* done[i]: how many of its commands are complete
  status   \* status[i]: the completion state last reported

vars == <<total, done, status>>

Init ==
  /\ total = [i \in Intents |-> 0]
  /\ done = [i \in Intents |-> 0]
  /\ status = [i \in Intents |-> "none"]

Issue(i) ==
  /\ total'[i] \in Nat \ {0}
  /\ total' = [total EXCEPT ![i] = total'[i]]
  /\ done' = [done EXCEPT ![i] = 0]
  /\ status' = [status EXCEPT ![i] = "none"]

Complete(i) ==
  LET n == done[i] + 1 IN
  /\ n <= total[i]
  /\ done' = [done EXCEPT ![i] = n]
  /\ \/ status' = [status EXCEPT ![i] = "failed"]
     \/ n < total[i] /\ status' = [status EXCEPT ![i] = "in_progress"]
     \/ n = total[i] /\ status' = [status EXCEPT ![i] = "satisfied"]
  /\ UNCHANGED total

Wait(i) ==
  /\ done[i] < total[i]
  /\ status' = [status EXCEPT ![i] = "in_progress"]
  /\ UNCHANGED <<total, done>>

Next == \E i \in Intents : Issue(i) \/ Complete(i) \/ Wait(i)

Spec == Init /\ [][Next]_vars
=============================================================================
