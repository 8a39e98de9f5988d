---------------------------- MODULE EventLedger ----------------------------
(***************************************************************************)
(* What the event session promises about the events of one Ghost, without  *)
(* connections, retries or acks: Mirage counts an event once however often *)
(* it is sent, and the Ghost takes an event for delivered only when Mirage *)
(* accepted it.  A restart of Mirage forgets the ledger.                   *)
(***************************************************************************)
EXTENDS Naturals

CONSTANT Events

VARIABLES
  ledger,     \* the events Mirage knows
  count,      \* Mirage's event counter
  accepted,   \* the events Mirage ever knew
  delivered   \* the events the Ghost has an accepted ack for

vars == <<ledger, count, accepted, delivered>>

Init ==
  /\ ledger = {}
  /\ count = 0
  /\ accepted = {}
  /\ delivered = {}

Accept(e) ==
  /\ e \notin ledger
  /\ ledger' = ledger \cup {e}
  /\ count' = count + 1
  /\ accepted' = accepted \cup {e}
  /\ UNCHANGED delivered

Deliver(e) ==
  /\ e \in accepted
  /\ delivered' = delivered \cup {e}
  /\ UNCHANGED <<ledger, count, accepted>>

Forget ==
  /\ ledger' = {}
  /\ count' = 0
  /\ UNCHANGED <<accepted, delivered>>

Next == Forget \/ \E e \in Events : Accept(e) \/ Deliver(e)

Spec == Init /\ [][Next]_vars
=============================================================================
