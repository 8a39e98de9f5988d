------------------------------- MODULE Dispatch -------------------------------
(***************************************************************************)
(* Mirage's orchestration loop (module Orchestrator) and a Ghost's server  *)
(* (module GhostServer), joined by the call that carries a command: the    *)
(* executor Mirage registers for a Ghost                                   *)
(* (src/internal/mirage/ghost_admin_client.go) and the Ghost's admin       *)
(* endpoint (src/internal/ghost/admin_control.go).                         *)
(*                                                                         *)
(* A call has a connection of its own, and a goroutine of the Ghost serves *)
(* it: one of Requests.  The client waits five seconds for the answer; the *)
(* goroutine knows nothing of that and goes on.  adminMu lets one request  *)
(* in at a time, for as long as its seed runs.                             *)
(*                                                                         *)
(* Abstractions.  One Ghost: Ghosts share nothing.  Message ids are the    *)
(* values of adminSeq; a refused request uses one up as well, but nobody   *)
(* ever sees it again, so only accepted ones are counted.  Requests that   *)
(* reach the endpoint are well-formed.                                     *)
(***************************************************************************)
EXTENDS Naturals, Sequences, FiniteSets

CONSTANTS
  Intents, Seeds, Workers, Plans, SanitizeID, SeedLockKey, MaxIssues,
  SerialClients,
  TheGhost,     \* the Ghost every command goes to
  MaxSteps,     \* bound: commands of a plan
  Requests,     \* bound: calls in progress at the Ghost
  MaxLosses,    \* bound: calls that fail although the Ghost is up
  MaxRestarts,  \* bound: crashes of the Ghost
  None

ASSUME DispatchAssumption ==
  /\ MaxSteps \in Nat
  /\ MaxLosses \in Nat
  /\ MaxRestarts \in Nat
  /\ None \notin Workers \cup Requests
  /\ IsFiniteSet(Intents)
  /\ \A i \in Intents : \A plan \in Plans[i] : Len(plan) <= MaxSteps

CommandIDs == {<<SanitizeID[i], c>> : i \in Intents, c \in 1 .. MaxSteps}

MessageIDs == 0 .. Cardinality(CommandIDs)

VARIABLES
  desired, byCommandID, events, report, executors, seedLocks, pc, job,
  issued, dispatched,           \* Mirage: see Orchestrator
  phase, ghostID, registry, executionByID, executionByCmdID,
  commandByMessageID, execPC, execState, seedRuns, returned,
  restarts,                     \* the Ghost: see GhostServer
  request,   \* the call each goroutine of the Ghost serves, or None
  adminMu,   \* the request that holds the mutex, or None
  adminSeq,  \* the last message id given out
  losses     \* history: calls lost so far

mirageVars == <<desired, byCommandID, events, report, executors, seedLocks,
                pc, job, issued, dispatched>>
ghostVars == <<phase, ghostID, registry, executionByID, executionByCmdID,
               commandByMessageID, execPC, execState, seedRuns, returned, restarts>>
adminVars == <<request, adminMu, adminSeq>>
vars == <<mirageVars, ghostVars, adminVars, losses>>

Mirage == INSTANCE Orchestrator WITH
  Ghosts <- {TheGhost}, SessionEvents <- FALSE

Ghost == INSTANCE GhostServer WITH
  GhostIDs <- {TheGhost}, Callers <- Requests,
  pc <- execPC, state <- execState, events <- returned

\* A call: who waits for it (None: nobody any more), and how far it is.
Request ==
  [worker : Workers \cup {None}, command : CommandIDs, seed : Seeds,
   at : {"sent", "running", "answered", "failed"},
   outcome : {"success", "error", "none"}]

\* What the two sides assume of their constants, and that None is no call.
ASSUME SidesAssumption ==
  /\ Mirage!PlansAssumption
  /\ Mirage!EnvironmentAssumption
  /\ Mirage!NoneAssumption
  /\ Ghost!GhostAssumption
  /\ Ghost!NoneIsNoRecord
  /\ None \notin Request

TypeOK ==
  /\ Mirage!TypeOK
  /\ Ghost!TypeOK
  /\ request \in [Requests -> Request \cup {None}]
  /\ adminMu \in Requests \cup {None}
  /\ adminSeq \in Nat
  /\ losses \in 0 .. MaxLosses
  /\ \A p \in Requests :
       request[p] # None /\ request[p].at = "running" <=> adminMu = p

Init ==
  /\ Mirage!Init
  /\ Ghost!Init
  /\ request = [p \in Requests |-> None]
  /\ adminMu = None
  /\ adminSeq = 0
  /\ losses = 0

At(p, where) == request[p] # None /\ request[p].at = where

\* The goroutine writes its answer and is done if nobody reads it.
Respond(p, where, outcome) ==
  request' = [request EXCEPT
                ![p] = IF @.worker = None THEN None
                       ELSE [@ EXCEPT !.at = where, !.outcome = outcome]]

-----------------------------------------------------------------------------
(***************************************************************************)
(* Each side alone.                                                        *)
(***************************************************************************)
MirageAlone ==
  /\ \/ \E i \in Intents : Mirage!SubmitIssue(i)
     \/ Mirage!RegisterExecutor(TheGhost)
     \/ \E w \in Workers, i \in Intents : Mirage!ReconcileBlocked(w, i)
     \/ \E w \in Workers, i \in Intents : Mirage!ReconcileNoExecutor(w, i)
     \/ \E w \in Workers : Mirage!ReleaseSeedLock(w)
  /\ UNCHANGED <<ghostVars, adminVars, losses>>

\* bootstrap, step by step.
Bootstrap ==
  /\ Ghost!Appear(TheGhost) \/ Ghost!Seed(Seeds) \/ Ghost!Radiate
  /\ UNCHANGED <<mirageVars, adminVars, losses>>

\* The Ghost's process dies.  Answers it has written are still read; every
\* other call fails.
GhostDies ==
  /\ Ghost!Restart
  /\ request' = [p \in Requests |->
                   IF request[p] = None \/ request[p].worker = None THEN None
                   ELSE IF request[p].at = "answered" THEN request[p]
                   ELSE [request[p] EXCEPT !.at = "failed"]]
  /\ adminMu' = None
  /\ adminSeq' = 0
  /\ UNCHANGED <<mirageVars, losses>>

-----------------------------------------------------------------------------
(***************************************************************************)
(* Mirage's end of a call.                                                 *)
(***************************************************************************)

\* ReconcileOnce reaches ExecuteCommand: the request is written.
Call(w, i) ==
  \E p \in Requests :
    /\ request[p] = None
    /\ Mirage!ReconcileDispatch(w, i)
    /\ LET j == job'[w] IN
       request' = [request EXCEPT ![p] =
                     [worker |-> w, command |-> Mirage!CommandID(i, j.command),
                      seed |-> j.plan[j.command].seed,
                      at |-> "sent", outcome |-> "none"]]
    /\ UNCHANGED <<ghostVars, adminMu, adminSeq, losses>>

TakeReply(w, p) ==
  /\ At(p, "answered")
  /\ request[p].worker = w
  /\ Mirage!IngestReply(w, request[p].outcome)
  /\ request' = [request EXCEPT ![p] = None]
  /\ UNCHANGED <<ghostVars, adminMu, adminSeq, losses>>

\* Mutation: an error response is taken for an error event.
ErrorTakenForEvent(w, p) ==
  /\ At(p, "failed")
  /\ request[p].worker = w
  /\ Mirage!IngestReply(w, "error")
  /\ request' = [request EXCEPT ![p] = None]
  /\ UNCHANGED <<ghostVars, adminMu, adminSeq, losses>>

\* Mutation: the failed call returns without giving its seed lock back.
TakeErrorKeepsLock(w, p) ==
  /\ At(p, "failed")
  /\ request[p].worker = w
  /\ Mirage!Finish(w)
  /\ request' = [request EXCEPT ![p] = None]
  /\ UNCHANGED <<desired, byCommandID, events, report, executors, seedLocks,
                 issued, dispatched, ghostVars, adminMu, adminSeq, losses>>

\* An error response, or a connection the dying Ghost closed.
TakeError(w, p) ==
  /\ At(p, "failed")
  /\ request[p].worker = w
  /\ Mirage!ExecuteFails(w)
  /\ request' = [request EXCEPT ![p] = None]
  /\ UNCHANGED <<ghostVars, adminMu, adminSeq, losses>>

\* The Ghost is not up: nobody accepts the connection.
CallRefused(w, p) ==
  /\ At(p, "sent")
  /\ request[p].worker = w
  /\ phase # "radiating"
  /\ Mirage!ExecuteFails(w)
  /\ request' = [request EXCEPT ![p] = None]
  /\ UNCHANGED <<ghostVars, adminMu, adminSeq, losses>>

\* Mutation: the Ghost's answer can still reach a client that gave up.
CallLostKeepsWaiter(w, p) ==
  /\ losses < MaxLosses
  /\ losses' = losses + 1
  /\ request[p] # None
  /\ request[p].worker = w
  /\ Mirage!ExecuteFails(w)
  /\ UNCHANGED <<request, ghostVars, adminMu, adminSeq>>

\* The answer takes longer than the client waits, or the connection breaks.
\* What the Ghost's goroutine was doing it goes on doing.
CallLost(w, p) ==
  /\ losses < MaxLosses
  /\ losses' = losses + 1
  /\ request[p] # None
  /\ request[p].worker = w
  /\ Mirage!ExecuteFails(w)
  /\ request' = [request EXCEPT
                   ![p] = IF @.at \in {"answered", "failed"} THEN None
                          ELSE [@ EXCEPT !.worker = None]]
  /\ UNCHANGED <<ghostVars, adminMu, adminSeq>>

-----------------------------------------------------------------------------
(***************************************************************************)
(* The Ghost's end: ExecuteAdminCommand, under adminMu.                    *)
(***************************************************************************)

\* The command as the admin endpoint builds it: the message id is the next
\* one, and the ghost_id its own.
CommandOf(p) ==
  [message |-> adminSeq + 1, command |-> request[p].command,
   ghost |-> TheGhost, seed |-> request[p].seed]

\* Mutation: the message id is not used up.
AcceptUncounted(p) ==
  /\ At(p, "sent")
  /\ adminMu = None
  /\ Ghost!HandleCommand(p, CommandOf(p))
  /\ request' = [request EXCEPT ![p].at = "running"]
  /\ adminMu' = p
  /\ UNCHANGED <<mirageVars, adminSeq, losses>>

Accept(p) ==
  /\ At(p, "sent")
  /\ adminMu = None
  /\ Ghost!HandleCommand(p, CommandOf(p))
  /\ request' = [request EXCEPT ![p].at = "running"]
  /\ adminMu' = p
  /\ adminSeq' = adminSeq + 1
  /\ UNCHANGED <<mirageVars, losses>>

\* HandleCommand refuses; so does it a command id it has executed before, and
\* the event of that execution is not sent again.
Refuse(p) ==
  /\ At(p, "sent")
  /\ adminMu = None
  /\ phase = "radiating"
  /\ ~Ghost!Accepts(CommandOf(p))
  /\ Respond(p, "failed", "none")
  /\ UNCHANGED <<mirageVars, ghostVars, adminMu, adminSeq, losses>>

RunSeed(p) ==
  /\ \E o \in {"success", "error"} : Ghost!ExecuteSeed(p, o)
  /\ UNCHANGED <<mirageVars, adminVars, losses>>

\* Mutation: the answer is never written.
AnswerForgotten(p) ==
  /\ Ghost!CompleteExecution(p)
  /\ request' = [request EXCEPT ![p] = None]
  /\ adminMu' = None
  /\ UNCHANGED <<mirageVars, adminSeq, losses>>

\* Mutation: adminMu is not given back.
AnswerKeepsMutex(p) ==
  /\ Ghost!CompleteExecution(p)
  /\ Respond(p, "answered", execState[p].outcome)
  /\ UNCHANGED <<mirageVars, adminMu, adminSeq, losses>>

\* The result is stored, the event written to the client.
Answer(p) ==
  /\ Ghost!CompleteExecution(p)
  /\ Respond(p, "answered", execState[p].outcome)
  /\ adminMu' = None
  /\ UNCHANGED <<mirageVars, adminSeq, losses>>

-----------------------------------------------------------------------------
Next ==
  \/ MirageAlone
  \/ Bootstrap
  \/ GhostDies
  \/ \E w \in Workers, i \in Intents : Call(w, i)
  \/ \E w \in Workers, p \in Requests :
       TakeReply(w, p) \/ TakeError(w, p) \/ CallRefused(w, p) \/ CallLost(w, p)
  \/ \E p \in Requests : Accept(p) \/ Refuse(p) \/ RunSeed(p) \/ Answer(p)

Spec == Init /\ [][Next]_vars

(***************************************************************************)
(* The Ghost comes up and is attached, clients poll every intent, and no   *)
(* goroutine stops: requests are served, seeds return, answers are read.   *)
(* Losses are bounded, so all but finitely many calls go through.          *)
(***************************************************************************)
Fairness ==
  /\ WF_vars(Bootstrap)
  /\ WF_vars(MirageAlone /\ Mirage!RegisterExecutor(TheGhost))
  /\ \A i \in Intents : WF_vars(\E w \in Workers : Call(w, i))
  /\ \A w \in Workers :
       /\ WF_vars(MirageAlone /\ Mirage!ReleaseSeedLock(w))
       /\ WF_vars(\E p \in Requests :
                    TakeReply(w, p) \/ TakeError(w, p) \/ CallRefused(w, p))
  /\ \A p \in Requests : WF_vars(Accept(p) \/ Refuse(p) \/ RunSeed(p) \/ Answer(p))

FairSpec == Spec /\ Fairness

-----------------------------------------------------------------------------
(***************************************************************************)
(* Properties.                                                             *)
(***************************************************************************)

\* What Mirage counts as observed, a Ghost has executed to its end and
\* answered: an error response is never taken for an event
\* (ghost_admin_client.go:205).
ObservedRan ==
  \A i \in Intents : \A c \in byCommandID[i] : returned[Mirage!CommandID(i, c)] > 0

\* The Ghost refuses a request for one reason only: it knows the command id.
\* The endpoint's own numbering is never one, not after a restart either.
RefusedMeansKnown ==
  \A p \in Requests :
    At(p, "sent") /\ phase = "radiating" /\ ~Ghost!Accepts(CommandOf(p)) =>
      executionByCmdID[request[p].command] # None

Carries(p, c) ==
  /\ At(p, "running") \/ At(p, "answered")
  /\ request[p].command = c
  /\ request[p].worker # None

\* While no call was lost and no intent submitted twice, a command the Ghost
\* knows is observed by Mirage or on its way there: its refusals do no harm.
KnownIsAccounted ==
  losses = 0 /\ (\A i \in Intents : issued[i] <= 1) =>
    \A i \in Intents, c \in 1 .. MaxSteps :
      LET id == Mirage!CommandID(i, c) IN
      executionByCmdID[id] # None =>
        \/ \E k \in Intents : SanitizeID[k] = SanitizeID[i] /\ c \in byCommandID[k]
        \/ \E p \in Requests : Carries(p, id)

\* Every submitted intent settles unless a call was lost or the intent was
\* submitted again, crashes of the Ghost or not: a command it refuses has its
\* event on the way.  A resubmission has the command ids of the issue it
\* replaces (planCommandsFromIssue, orchestration.go:458-481).
SettlesWithoutLoss ==
  \A i \in Intents :
    (desired[i] # << >>) ~> (losses > 0 \/ issued[i] > 1 \/ [](Mirage!Settled(i)))

\* Every submitted intent settles (reliability.toml: command = "retryable when
\* no terminal event observed").
RetriesSettle ==
  \A i \in Intents : (desired[i] # << >>) ~> [](Mirage!Settled(i))

-----------------------------------------------------------------------------
(***************************************************************************)
(* Why they hold: the parts of the inductive invariant.                    *)
(***************************************************************************)

\* A worker waits for one call, and that call is about its own command.
WaitersMatched ==
  \A p \in Requests :
    request[p] # None /\ request[p].worker # None =>
      LET w == request[p].worker IN
      /\ pc[w] = "executing"
      /\ request[p].command = Mirage!CommandID(job[w].intent, job[w].command)
      /\ \A q \in Requests :
           request[q] # None /\ request[q].worker = w => q = p

\* The Ghost's goroutines execute the commands of the requests that run.
GoroutinesMatched ==
  \A p \in Requests :
    /\ execPC[p] # "idle" <=> At(p, "running")
    /\ execPC[p] # "idle" => execState[p].command = request[p].command
    /\ execPC[p] = "executed" => execState[p].outcome # "none"

\* An answer is the event of an execution that came to its end.
AnswersReal ==
  \A p \in Requests :
    At(p, "answered") =>
      /\ request[p].worker # None
      /\ request[p].outcome # "none"
      /\ returned[request[p].command] > 0

\* A process has given out as many message ids as it knows commands, and
\* nobody else gives any out: the next one is free.
MessageIDsCounted ==
  /\ adminSeq = Cardinality({c \in CommandIDs : executionByCmdID[c] # None})
  /\ \A m \in MessageIDs : commandByMessageID[m] # None => m <= adminSeq

GhostIsUp == phase # "boot" => ghostID = TheGhost

\* Nothing is observed or in flight of an intent that was never submitted.
SubmittedFirst ==
  /\ \A i \in Intents : issued[i] = 0 => desired[i] = << >> /\ byCommandID[i] = {}
  /\ \A w \in Workers : pc[w] # "idle" => issued[job[w].intent] > 0

\* No plan has more commands than any plan has.
PlansBounded ==
  \A i \in Intents : Len(desired[i]) <= MaxSteps /\ byCommandID[i] \subseteq 1 .. MaxSteps

\* Only a lost call has nobody to wait for it.
WaitersPresent ==
  losses = 0 => \A p \in Requests : request[p] # None => request[p].worker # None

\* What ties the two sides together.
LinkInv ==
  /\ WaitersMatched
  /\ GoroutinesMatched
  /\ AnswersReal
  /\ MessageIDsCounted
  /\ GhostIsUp
  /\ SubmittedFirst
  /\ PlansBounded
  /\ WaitersPresent

DispatchInv == TypeOK /\ LinkInv

(***************************************************************************)
(* Refinement: joined by calls that can be lost, each side does what it    *)
(* does alone.                                                             *)
(***************************************************************************)
ImplementsSides == Mirage!Spec /\ Ghost!Spec
=============================================================================
