--------------------------- MODULE EventDelivery ---------------------------
(***************************************************************************)
(* The event session between one Ghost and Mirage: the Ghost's client      *)
(* (src/internal/ghost/mirage_client.go, protocol/session/outbox.go), the  *)
(* goroutine Mirage runs per connection (src/internal/mirage/service.go,   *)
(* handleConn) and the Ghost's entry in Mirage's registry                  *)
(* (src/internal/mirage/server.go).                                        *)
(*                                                                         *)
(* The Ghost has one connection at a time.  It hangs up before it dials    *)
(* again, but the goroutine of the old connection learns of that later,    *)
(* so several may be at work.  A connection delivers frames in order until *)
(* either end fails; any read or write can fail at any time.               *)
(*                                                                         *)
(* Abstractions.  The registry holds one entry per Ghost, and those of     *)
(* different Ghosts have nothing in common.  Connected and RemoteAddr are  *)
(* set together and are one variable.  A frame is an event, an ack is its  *)
(* event, and a frame is read whole or not at all.  Mirage accepts every   *)
(* event, so the rejected branch of the client is dead.                    *)
(***************************************************************************)
EXTENDS Naturals, Sequences, FiniteSets

CONSTANTS
  Events,       \* event ids
  Registered,   \* the registration ack on the wire
  MaxConns,     \* bound: connections dialled
  MaxWrites,    \* bound: event frames written on a connection
  MaxRestarts,  \* bound: restarts of Mirage
  None

ASSUME DeliveryAssumption ==
  /\ MaxConns \in Nat
  /\ MaxWrites \in Nat
  /\ MaxRestarts \in Nat
  /\ Registered \notin Events
  /\ None \notin Events

Conns == 1 .. MaxConns

\* Where the goroutine of a connection is.  "closing": its deferred
\* MarkGhostDisconnected is still to run; "dropped": it returned before that
\* was deferred.
Working == {"acking", "serving", "observed", "closing"}

HandlerState == Working \cup {"none", "dropped", "ended"}

Talking == {"idle", "waiting", "backoff"}

VARIABLES
  phase,       \* the Ghost: offline, registering, idle, waiting for an ack, backoff
  conn,        \* its connection, the last one dialled; 0 before the first
  sending,     \* the event of the SendEventWithAck call in progress, or None
  outbox,      \* the session's outbox
  toMirage,    \* event frames in flight on each connection
  toGhost,     \* acks in flight
  handler,     \* Mirage's goroutine for each connection
  reading,     \* the event it has in hand, or None
  remote,      \* RemoteAddr: the connection the registry shows; 0: not connected
  ackByEvent,  \* the events with an ack in the registry entry
  eventCount,
  accepted,    \* history: events ever acked
  delivered,   \* history: events SendEventWithAck returned an ack for
  writes,      \* history: event frames written on the current connection
  abandoned,   \* history: frames written on it whose ack the Ghost gave up on
  restarts

ghostVars == <<phase, conn, sending, outbox>>
wireVars == <<toMirage, toGhost>>
handlerVars == <<handler, reading>>
entryVars == <<remote, ackByEvent, eventCount>>
historyVars == <<accepted, delivered, writes, abandoned, restarts>>
vars == <<ghostVars, wireVars, handlerVars, entryVars, historyVars>>

TypeOK ==
  /\ phase \in Talking \cup {"offline", "registering"}
  /\ conn \in 0 .. MaxConns
  /\ sending \in Events \cup {None}
  /\ outbox \subseteq Events
  /\ phase = "offline" \/ conn \in Conns
  /\ phase \in {"waiting", "backoff"} <=> sending # None
  /\ toMirage \in [Conns -> Seq(Events)]
  /\ toGhost \in [Conns -> Seq(Events \cup {Registered})]
  /\ handler \in [Conns -> HandlerState]
  /\ reading \in [Conns -> Events \cup {None}]
  /\ \A n \in Conns : handler[n] = "observed" <=> reading[n] # None
  /\ remote \in 0 .. MaxConns
  /\ ackByEvent \subseteq Events
  /\ eventCount \in Nat
  /\ accepted \subseteq Events
  /\ delivered \subseteq Events
  /\ writes \in 0 .. MaxWrites
  /\ abandoned \in Nat
  /\ restarts \in 0 .. MaxRestarts

Init ==
  /\ phase = "offline"
  /\ conn = 0
  /\ sending = None
  /\ outbox = {}
  /\ toMirage = [n \in Conns |-> << >>]
  /\ toGhost = [n \in Conns |-> << >>]
  /\ handler = [n \in Conns |-> "none"]
  /\ reading = [n \in Conns |-> None]
  /\ remote = 0
  /\ ackByEvent = {}
  /\ eventCount = 0
  /\ accepted = {}
  /\ delivered = {}
  /\ writes = 0
  /\ abandoned = 0
  /\ restarts = 0

-----------------------------------------------------------------------------
(***************************************************************************)
(* The Ghost's client.                                                     *)
(***************************************************************************)

\* dial, and the first half of register: the registration is on its way.
Dial ==
  /\ phase = "offline"
  /\ conn < MaxConns
  /\ phase' = "registering"
  /\ conn' = conn + 1
  /\ UNCHANGED <<sending, outbox, wireVars, handlerVars, entryVars, historyVars>>

\* The registration ack opens a session with an empty outbox.
OpenSession ==
  /\ phase = "registering"
  /\ toGhost[conn] # << >>
  /\ Head(toGhost[conn]) = Registered
  /\ toGhost' = [toGhost EXCEPT ![conn] = Tail(@)]
  /\ phase' = "idle"
  /\ outbox' = {}
  /\ writes' = 0
  /\ abandoned' = 0
  /\ UNCHANGED <<conn, sending, toMirage, handlerVars, entryVars, accepted,
                 delivered, restarts>>

\* The first half of sendEventOnce: the write succeeds or fails.
Attempt(e) ==
  \/ /\ writes < MaxWrites
     /\ toMirage' = [toMirage EXCEPT ![conn] = Append(@, e)]
     /\ writes' = writes + 1
     /\ phase' = "waiting"
  \/ phase' = "backoff" /\ UNCHANGED <<toMirage, writes>>

\* SendEventWithAck up to the answer of its first attempt.
SendEventWithAck(e) ==
  /\ phase = "idle"
  /\ sending' = e
  /\ outbox' = outbox \cup {e}
  /\ Attempt(e)
  /\ UNCHANGED <<conn, toGhost, handlerVars, entryVars, accepted, delivered,
                 abandoned, restarts>>

Retry ==
  /\ phase = "backoff"
  /\ Attempt(sending)
  /\ UNCHANGED <<conn, sending, outbox, toGhost, handlerVars, entryVars,
                 accepted, delivered, abandoned, restarts>>

\* The second half of sendEventOnce reads one frame, and expects it to be the
\* ack of the event in hand.
ReadAck ==
  /\ phase = "waiting"
  /\ toGhost[conn] # << >>
  /\ Head(toGhost[conn]) = sending
  /\ toGhost' = [toGhost EXCEPT ![conn] = Tail(@)]
  /\ phase' = "idle"
  /\ sending' = None
  /\ outbox' = outbox \ {sending}
  /\ delivered' = delivered \cup {sending}
  /\ UNCHANGED <<conn, toMirage, handlerVars, entryVars, accepted, writes,
                 abandoned, restarts>>

\* An ack of another event ends the attempt; its own is still to come.
ReadWrongAck ==
  /\ phase = "waiting"
  /\ toGhost[conn] # << >>
  /\ Head(toGhost[conn]) # sending
  /\ toGhost' = [toGhost EXCEPT ![conn] = Tail(@)]
  /\ phase' = "backoff"
  /\ UNCHANGED <<conn, sending, outbox, toMirage, handlerVars, entryVars,
                 historyVars>>

\* The read deadline passes, or the connection fails.
AckTimeout ==
  /\ phase = "waiting"
  /\ phase' = "backoff"
  /\ abandoned' = abandoned + 1
  /\ UNCHANGED <<conn, sending, outbox, wireVars, handlerVars, entryVars,
                 accepted, delivered, writes, restarts>>

\* ErrAckTimeout, or the caller's context is over: the event stays in the
\* outbox, where nothing looks for it.
GiveUp ==
  /\ phase = "backoff"
  /\ phase' = "idle"
  /\ sending' = None
  /\ UNCHANGED <<conn, outbox, wireVars, handlerVars, entryVars, historyVars>>

\* Mutation: the call in progress survives its session.
HangUpKeepsCall ==
  /\ phase # "offline"
  /\ phase' = "offline"
  /\ UNCHANGED <<conn, sending, outbox, wireVars, handlerVars, entryVars,
                 historyVars>>

\* Registration fails, the session is closed after a failed send or at
\* shutdown, or the Ghost dies.
HangUp ==
  /\ phase # "offline"
  /\ phase' = "offline"
  /\ sending' = None
  /\ outbox' = {}
  /\ UNCHANGED <<conn, wireVars, handlerVars, entryVars, historyVars>>

-----------------------------------------------------------------------------
(***************************************************************************)
(* Mirage's goroutine for connection n.                                    *)
(***************************************************************************)

\* Authentication or registration fails: no trace in the registry.
Refuse(n) ==
  /\ n <= conn
  /\ handler[n] = "none"
  /\ handler' = [handler EXCEPT ![n] = "ended"]
  /\ UNCHANGED <<ghostVars, wireVars, reading, entryVars, historyVars>>

\* Mutation: a new registration starts a new count.
RegistrationResetsCount(n) ==
  /\ n <= conn
  /\ handler[n] = "none"
  /\ handler' = [handler EXCEPT ![n] = "acking"]
  /\ remote' = n
  /\ eventCount' = 0
  /\ UNCHANGED <<ghostVars, wireVars, reading, ackByEvent, historyVars>>

\* UpsertRegistration: the entry shows this connection, and keeps its acks
\* and its counter.
UpsertRegistration(n) ==
  /\ n <= conn
  /\ handler[n] = "none"
  /\ handler' = [handler EXCEPT ![n] = "acking"]
  /\ remote' = n
  /\ UNCHANGED <<ghostVars, wireVars, reading, ackByEvent, eventCount, historyVars>>

AckRegistration(n) ==
  /\ handler[n] = "acking"
  /\ \/ /\ toGhost' = [toGhost EXCEPT ![n] = Append(@, Registered)]
        /\ handler' = [handler EXCEPT ![n] = "serving"]
     \/ /\ handler' = [handler EXCEPT ![n] = "dropped"]
        /\ UNCHANGED toGhost
  /\ UNCHANGED <<ghostVars, toMirage, reading, entryVars, historyVars>>

\* One event frame is read and handed to the orchestrator, which takes it or
\* not (module Orchestrator, IngestObservedEvent); the ack follows anyway.
ObserveEvent(n) ==
  /\ handler[n] = "serving"
  /\ toMirage[n] # << >>
  /\ toMirage' = [toMirage EXCEPT ![n] = Tail(@)]
  /\ reading' = [reading EXCEPT ![n] = Head(toMirage[n])]
  /\ handler' = [handler EXCEPT ![n] = "observed"]
  /\ UNCHANGED <<ghostVars, toGhost, entryVars, historyVars>>

\* AcceptEvent: the first ack of an event is kept, and counted.
Record(e) ==
  /\ ackByEvent' = ackByEvent \cup {e}
  /\ eventCount' = IF e \in ackByEvent THEN eventCount ELSE eventCount + 1
  /\ accepted' = accepted \cup {e}

\* Mutation: a known event is acked a second time.
AcksTwice(n) ==
  LET e == reading[n] IN
  /\ handler[n] = "observed"
  /\ Record(e)
  /\ toGhost' = [toGhost EXCEPT
                   ![n] = IF e \in ackByEvent THEN @ \o <<e, e>> ELSE Append(@, e)]
  /\ handler' = [handler EXCEPT ![n] = "serving"]
  /\ reading' = [reading EXCEPT ![n] = None]
  /\ UNCHANGED <<ghostVars, toMirage, remote, delivered, writes, abandoned, restarts>>

\* AcceptEvent and the write of its ack.
AckEvent(n) ==
  LET e == reading[n] IN
  /\ handler[n] = "observed"
  /\ Record(e)
  /\ \/ /\ toGhost' = [toGhost EXCEPT ![n] = Append(@, e)]
        /\ handler' = [handler EXCEPT ![n] = "serving"]
     \/ /\ handler' = [handler EXCEPT ![n] = "closing"]
        /\ UNCHANGED toGhost
  /\ reading' = [reading EXCEPT ![n] = None]
  /\ UNCHANGED <<ghostVars, toMirage, remote, delivered, writes, abandoned, restarts>>

\* Mutation: the goroutine tries its read again.
ReadFailureIgnored(n) == handler[n] = "serving" /\ UNCHANGED vars

\* The connection fails, the Ghost has hung up or is silent too long.
ReadFails(n) ==
  /\ handler[n] = "serving"
  /\ handler' = [handler EXCEPT ![n] = "closing"]
  /\ UNCHANGED <<ghostVars, wireVars, reading, entryVars, historyVars>>

\* Mutation: the goroutine ends and leaves the registry alone.
DisconnectForgotten(n) ==
  /\ handler[n] = "closing"
  /\ handler' = [handler EXCEPT ![n] = "ended"]
  /\ UNCHANGED <<ghostVars, wireVars, reading, entryVars, historyVars>>

\* The deferred MarkGhostDisconnected: it does not ask whose connection the
\* registry shows.
MarkGhostDisconnected(n) ==
  /\ handler[n] = "closing"
  /\ handler' = [handler EXCEPT ![n] = "ended"]
  /\ remote' = 0
  /\ UNCHANGED <<ghostVars, wireVars, reading, ackByEvent, eventCount, historyVars>>

\* Mirage dies and comes back: every connection breaks, the registry is empty.
\* Acks that reached the Ghost's host are still there to read.
Restart ==
  /\ restarts < MaxRestarts
  /\ restarts' = restarts + 1
  /\ handler' = [n \in Conns |-> IF n <= conn THEN "ended" ELSE "none"]
  /\ reading' = [n \in Conns |-> None]
  /\ toMirage' = [n \in Conns |-> << >>]
  /\ remote' = 0
  /\ ackByEvent' = {}
  /\ eventCount' = 0
  /\ UNCHANGED <<ghostVars, toGhost, accepted, delivered, writes, abandoned>>

-----------------------------------------------------------------------------
Next ==
  \/ Dial \/ OpenSession \/ Retry \/ ReadAck \/ ReadWrongAck \/ AckTimeout
  \/ GiveUp \/ HangUp \/ Restart
  \/ \E e \in Events : SendEventWithAck(e)
  \/ \E n \in Conns :
       \/ Refuse(n) \/ UpsertRegistration(n) \/ AckRegistration(n)
       \/ ObserveEvent(n) \/ AckEvent(n) \/ ReadFails(n)
       \/ MarkGhostDisconnected(n)

Spec == Init /\ [][Next]_vars

HungUp(n) == n < conn \/ (n = conn /\ phase = "offline")

\* A goroutine of Mirage is scheduled, and its read ends when the Ghost has
\* hung up.  Nothing is asked of the Ghost, nor of connections that live.
Fairness ==
  \A n \in Conns :
    /\ WF_vars(AckRegistration(n))
    /\ WF_vars(AckEvent(n))
    /\ WF_vars(ReadFails(n) /\ HungUp(n))
    /\ WF_vars(MarkGhostDisconnected(n))

FairSpec == Spec /\ Fairness

-----------------------------------------------------------------------------
(***************************************************************************)
(* Properties.                                                             *)
(***************************************************************************)

\* The registry shows no connection whose goroutine is over, except one that
\* ended before its MarkGhostDisconnected was deferred (service.go:445-450).
AddressIsLive ==
  remote # 0 => handler[remote] \in Working \cup {"dropped"}

\* While the Ghost has a session, the registry says so (the replay test of
\* service_test.go waits for Connected after a reconnect).
LiveSessionIsConnected ==
  phase \in Talking /\ handler[conn] \in {"serving", "observed"} => remote # 0

\* On a session without a timeout the acks keep step with the events: the next
\* ack to read is that of the event in hand, however often events are sent
\* again, and none is left over when no call is in progress.
AcksInStep ==
  phase \in Talking /\ abandoned = 0 /\ toGhost[conn] # << >> =>
    toGhost[conn] = <<sending>>

\* When a Ghost has hung up, the registry comes to say so, or shows the one
\* connection that was dropped (transport.md: "Session drop during active
\* intent: Mirage marks Ghost as unavailable").
HangUpIsSeen ==
  phase = "offline" ~>
    \/ phase # "offline"
    \/ remote = 0
    \/ handler[remote] \in {"none", "dropped"}

-----------------------------------------------------------------------------
(***************************************************************************)
(* Why AcksInStep holds: where the one frame of the session can be.        *)
(***************************************************************************)
Empty(n) == toMirage[n] = << >> /\ reading[n] = None /\ toGhost[n] = << >>

\* Nothing is on a connection before it is dialled, and nothing but the
\* registration ack before the session is open.
Undialled == \A n \in Conns : n > conn => handler[n] = "none" /\ Empty(n)

Registering ==
  phase = "registering" =>
    \/ Empty(conn)
    \/ /\ toMirage[conn] = << >>
       /\ toGhost[conn] = <<Registered>>
       /\ handler[conn] \in {"serving", "closing", "ended"}

\* On an open session the registration is over.
SessionServed ==
  phase \in Talking => handler[conn] \in {"serving", "observed", "closing", "ended"}

\* Without a timeout the event in hand is nowhere, or in one place only.
OneFrame ==
  phase \in Talking /\ abandoned = 0 =>
    \/ Empty(conn)
    \/ /\ phase = "waiting"
       /\ \/ /\ toMirage[conn] = <<sending>>
             /\ reading[conn] = None
             /\ toGhost[conn] = << >>
          \/ /\ toMirage[conn] = << >>
             /\ reading[conn] = sending
             /\ toGhost[conn] = << >>
          \/ /\ toMirage[conn] = << >>
             /\ reading[conn] = None
             /\ toGhost[conn] = <<sending>>

\* An ack in flight is of an event Mirage accepted, in this life or before.
AcksAreReal ==
  /\ ackByEvent \subseteq accepted
  /\ \A n \in Conns : \A k \in DOMAIN toGhost[n] :
       toGhost[n][k] \in accepted \cup {Registered}

SessionInv ==
  Undialled /\ Registering /\ SessionServed /\ OneFrame /\ AcksAreReal

-----------------------------------------------------------------------------
(***************************************************************************)
(* Refinement: connections, retries and acks implement EventLedger.        *)
(***************************************************************************)
Ledger == INSTANCE EventLedger WITH
  ledger <- ackByEvent, count <- eventCount

ImplementsLedger == Ledger!Spec
=============================================================================
