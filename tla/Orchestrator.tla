---------------------------- MODULE Orchestrator ----------------------------
(***************************************************************************)
(* Mirage's orchestration loop (src/internal/mirage/orchestration.go).     *)
(*                                                                         *)
(* Admin connections call ReconcileOnce from goroutines of their own (the  *)
(* Workers).  A call holds o.mu twice: to pick the next pending command    *)
(* and take its seed lock, and to record the event the executor returned.  *)
(* Between the two the mutex is free: other workers, SubmitIssue and the   *)
(* session goroutines (IngestObservedEvent) run there, and the second      *)
(* section still works with the plan read in the first one.  An action of  *)
(* this module is one critical section of o.mu together with the local     *)
(* code up to the next one.                                                *)
(*                                                                         *)
(* Abstractions.  A command is its position in the plan (its command_id is *)
(* "cmd.<sanitized intent>.<position>").  A missing ObservedIntent is the  *)
(* empty one: the loop treats them alike.  Of an intent's report history   *)
(* only the last report is kept, the only one the code reads back.  A call *)
(* that finds nothing pending, or no such intent, changes no state and is  *)
(* no action.                                                              *)
(***************************************************************************)
EXTENDS Naturals, Sequences, FiniteSets

CONSTANTS
  Intents,        \* intent ids
  Ghosts,         \* ghost ids
  Seeds,          \* seed selectors
  Workers,        \* goroutines that serve reconcile requests
  Plans,          \* Plans[i]: the command plans an issue of intent i may carry
  SanitizeID,     \* SanitizeID[i]: the intent's part of its command ids
  SeedLockKey,    \* SeedLockKey[<<g, s>>]: the name of the lock of a seed
  MaxIssues,      \* bound: submissions of one intent
  SerialClients,  \* one admin call at a time per intent?
  SessionEvents,  \* do Ghosts also report events over their session?
  None

Step == [ghost : Ghosts, seed : Seeds, blocking : BOOLEAN]

ASSUME PlansAssumption ==
  /\ Plans \in [Intents -> SUBSET Seq(Step)]
  /\ \A i \in Intents : << >> \notin Plans[i]

ASSUME EnvironmentAssumption ==
  /\ MaxIssues \in Nat
  /\ SerialClients \in BOOLEAN
  /\ SessionEvents \in BOOLEAN

Owner == [intent : Intents, command : Nat]

Job == [intent : Intents, issue : Nat, plan : Seq(Step), command : Nat]

ASSUME NoneAssumption == None \notin Owner \cup Job

SeedKey == {SeedLockKey[p] : p \in Ghosts \X Seeds}

Completion == {"none", "in_progress", "failed", "satisfied"}

Outcome == {"success", "error"}

VARIABLES
  desired,      \* desired[i]: the current plan; << >> before the first issue
  byCommandID,  \* byCommandID[i]: the commands with an observed event
  events,       \* events[i]: the command of each entry of Events
  report,       \* report[i]: the last entry of Reports
  executors,    \* ghosts with a registered executor
  seedLocks,    \* seedLocks[k]: the owner of lock k, or None
  pc,           \* where each worker is
  job,          \* what each worker keeps on its stack between sections
  issued,       \* history: how many times each intent was submitted
  dispatched    \* history: command ids handed to an executor, by issue

intentVars == <<desired, byCommandID, events, report>>
workerVars == <<pc, job>>
historyVars == <<issued, dispatched>>
vars == <<intentVars, executors, seedLocks, workerVars, historyVars>>

CommandID(i, c) == <<SanitizeID[i], c>>

\* seedLockKey joins the two texts with "::".  Two pairs may have one name.
KeyOf(step) == SeedLockKey[<<step.ghost, step.seed>>]

OwnerOf(i, c) == [intent |-> i, command |-> c]

Pending(i) == {c \in DOMAIN desired[i] : c \notin byCommandID[i]}

\* Mutation: any pending command, not the first.
IsNextUnordered(i, c) == c \in Pending(i)

\* nextPendingCommand: the first command of the plan without an event.
IsNext(i, c) == c \in Pending(i) /\ \A d \in Pending(i) : c <= d

\* Mutation: satisfied one command early.
CompletionEarly(plan, seen, outcome) ==
  IF outcome = "error" THEN "failed"
  ELSE IF Cardinality(seen) + 2 >= Len(plan) THEN "satisfied"
  ELSE "in_progress"

\* Mutation: the event in hand is not counted.
CompletionLate(plan, seen, outcome) ==
  IF outcome = "error" THEN "failed"
  ELSE IF Cardinality(seen) >= Len(plan) THEN "satisfied"
  ELSE "in_progress"

(***************************************************************************)
(* buildReportFromObserved: the event in hand is counted on top of the     *)
(* observed ones, whether or not it is one of them.                        *)
(***************************************************************************)
CompletionAfter(plan, seen, outcome) ==
  IF outcome = "error" THEN "failed"
  ELSE IF Cardinality(seen) + 1 >= Len(plan) THEN "satisfied"
  ELSE "in_progress"

InFlight(i) == {w \in Workers : pc[w] # "idle" /\ job[w].intent = i}

\* The admin clients of intent i make no two calls at once.
MayCall(i) == SerialClients => InFlight(i) = {}

-----------------------------------------------------------------------------
TypeOK ==
  /\ desired \in [Intents -> Seq(Step)]
  /\ byCommandID \in [Intents -> SUBSET Nat]
  /\ events \in [Intents -> Seq(Nat)]
  /\ report \in [Intents -> [command : Nat, completion : Completion]]
  /\ executors \subseteq Ghosts
  /\ seedLocks \in [SeedKey -> Owner \cup {None}]
  /\ pc \in [Workers -> {"idle", "executing", "releasing"}]
  /\ job \in [Workers -> Job \cup {None}]
  /\ \A w \in Workers : pc[w] = "idle" <=> job[w] = None
  /\ issued \in [Intents -> Nat]
  /\ dispatched \subseteq Intents \X Nat \X Nat

NoReport == [command |-> 0, completion |-> "none"]

Init ==
  /\ desired = [i \in Intents |-> << >>]
  /\ byCommandID = [i \in Intents |-> {}]
  /\ events = [i \in Intents |-> << >>]
  /\ report = [i \in Intents |-> NoReport]
  /\ executors = {}
  /\ seedLocks = [k \in SeedKey |-> None]
  /\ pc = [w \in Workers |-> "idle"]
  /\ job = [w \in Workers |-> None]
  /\ issued = [i \in Intents |-> 0]
  /\ dispatched = {}

-----------------------------------------------------------------------------
\* Mutation: a new issue keeps what the last one observed.
SubmitKeepsObserved(i) ==
  /\ issued[i] < MaxIssues
  /\ MayCall(i)
  /\ \E plan \in Plans[i] : desired' = [desired EXCEPT ![i] = plan]
  /\ issued' = [issued EXCEPT ![i] = @ + 1]
  /\ UNCHANGED <<byCommandID, events, report, executors, seedLocks,
                 workerVars, dispatched>>

(***************************************************************************)
(* SubmitIssue replaces the plan and drops what was observed.  It leaves   *)
(* the seed locks and the calls in flight alone.                           *)
(***************************************************************************)
SubmitIssue(i) ==
  /\ issued[i] < MaxIssues
  /\ MayCall(i)
  /\ \E plan \in Plans[i] : desired' = [desired EXCEPT ![i] = plan]
  /\ byCommandID' = [byCommandID EXCEPT ![i] = {}]
  /\ events' = [events EXCEPT ![i] = << >>]
  /\ report' = [report EXCEPT ![i] = NoReport]
  /\ issued' = [issued EXCEPT ![i] = @ + 1]
  /\ UNCHANGED <<executors, seedLocks, workerVars, dispatched>>

RegisterExecutor(g) ==
  /\ g \notin executors
  /\ executors' = executors \cup {g}
  /\ UNCHANGED <<intentVars, seedLocks, workerVars, historyVars>>

\* Mutation: the lock table is not consulted.
LockIgnored(i, c) == TRUE

\* Mutation: a command may not re-enter its own lock.
LockNotReentrant(i, c) ==
  desired[i][c].blocking => seedLocks[KeyOf(desired[i][c])] = None

\* The lock of a blocking step is free or already this command's own.
LockAvailable(i, c) ==
  LET step == desired[i][c] IN
  step.blocking => seedLocks[KeyOf(step)] \in {None, OwnerOf(i, c)}

\* Mutation: the lock is entered under the Ghost instead of the seed.
LockUnderGhost(i, c) ==
  LET step == desired[i][c] IN
  seedLocks' = IF step.blocking
               THEN [k \in DOMAIN seedLocks \cup {step.ghost} |->
                       IF k = step.ghost THEN OwnerOf(i, c) ELSE seedLocks[k]]
               ELSE seedLocks

AcquireSeedLock(i, c) ==
  LET step == desired[i][c] IN
  seedLocks' = IF step.blocking
               THEN [seedLocks EXCEPT ![KeyOf(step)] = OwnerOf(i, c)]
               ELSE seedLocks

(***************************************************************************)
(* ReconcileOnce, first section.  A blocking step whose lock has another   *)
(* owner ends the call with an in_progress report.                         *)
(***************************************************************************)
ReconcileBlocked(w, i) ==
  /\ pc[w] = "idle"
  /\ MayCall(i)
  /\ \E c \in Pending(i) :
       /\ IsNext(i, c)
       /\ ~LockAvailable(i, c)
       /\ report' = [report EXCEPT ![i] =
                       [command |-> c, completion |-> "in_progress"]]
  /\ UNCHANGED <<desired, byCommandID, events, executors, seedLocks,
                 workerVars, historyVars>>

\* With no executor for the Ghost the call fails, and keeps the lock.
ReconcileNoExecutor(w, i) ==
  /\ pc[w] = "idle"
  /\ MayCall(i)
  /\ \E c \in Pending(i) :
       /\ IsNext(i, c)
       /\ LockAvailable(i, c)
       /\ desired[i][c].ghost \notin executors
       /\ AcquireSeedLock(i, c)
  /\ UNCHANGED <<intentVars, executors, workerVars, historyVars>>

\* Otherwise the command goes to its executor, outside the mutex.
ReconcileDispatch(w, i) ==
  /\ pc[w] = "idle"
  /\ MayCall(i)
  /\ \E c \in Pending(i) :
       /\ IsNext(i, c)
       /\ LockAvailable(i, c)
       /\ desired[i][c].ghost \in executors
       /\ AcquireSeedLock(i, c)
       /\ job' = [job EXCEPT ![w] =
                    [intent |-> i, issue |-> issued[i],
                     plan |-> desired[i], command |-> c]]
       /\ dispatched' = dispatched \cup {<<i, issued[i], c>>}
  /\ pc' = [pc EXCEPT ![w] = "executing"]
  /\ UNCHANGED <<intentVars, executors, issued>>

Finish(w) ==
  /\ pc' = [pc EXCEPT ![w] = "idle"]
  /\ job' = [job EXCEPT ![w] = None]

\* The executor fails (connection, timeout, the Ghost's refusal), or its
\* event or the report built from it does not survive the wire format.
ExecuteFails(w) ==
  /\ pc[w] = "executing"
  /\ pc' = [pc EXCEPT ![w] = "releasing"]
  /\ UNCHANGED <<intentVars, executors, seedLocks, job, historyVars>>

JobStep(w) == job[w].plan[job[w].command]

\* releaseSeedLock clears the lock only for its owner.
ReleaseSeedLock(w) ==
  LET step == JobStep(w)
      me   == OwnerOf(job[w].intent, job[w].command)
  IN
  /\ pc[w] = "releasing"
  /\ seedLocks' = IF step.blocking /\ seedLocks[KeyOf(step)] = me
                  THEN [seedLocks EXCEPT ![KeyOf(step)] = None]
                  ELSE seedLocks
  /\ Finish(w)
  /\ UNCHANGED <<intentVars, executors, historyVars>>

\* Mutation: the step's lock is not cleared.
IngestKeepsLock(i, plan, c, outcome) ==
  /\ report' = [report EXCEPT ![i] =
                  [command    |-> c,
                   completion |-> CompletionAfter(plan, byCommandID[i], outcome)]]
  /\ byCommandID' = [byCommandID EXCEPT ![i] = @ \cup {c}]
  /\ events' = [events EXCEPT ![i] = Append(@, c)]
  /\ UNCHANGED seedLocks

(***************************************************************************)
(* What both ingest paths do with an event of command c: record it, report *)
(* against `plan`, and clear the step's lock whoever holds it.             *)
(***************************************************************************)
Ingest(i, plan, c, outcome) ==
  /\ report' = [report EXCEPT ![i] =
                  [command    |-> c,
                   completion |-> CompletionAfter(plan, byCommandID[i], outcome)]]
  /\ byCommandID' = [byCommandID EXCEPT ![i] = @ \cup {c}]
  /\ events' = [events EXCEPT ![i] = Append(@, c)]
  /\ seedLocks' = IF plan[c].blocking
                  THEN [seedLocks EXCEPT ![KeyOf(plan[c])] = None]
                  ELSE seedLocks

\* ReconcileOnce, second section, with the plan of the first one.
IngestReply(w, outcome) ==
  /\ pc[w] = "executing"
  /\ Ingest(job[w].intent, job[w].plan, job[w].command, outcome)
  /\ Finish(w)
  /\ UNCHANGED <<desired, executors, historyVars>>

(***************************************************************************)
(* IngestObservedEvent: a Ghost that was given command c of some intent    *)
(* sends its event over the session, once or several times.  The intent is *)
(* looked up by command id in a map (any match can come first); an event   *)
(* already there changes nothing.                                          *)
(***************************************************************************)
IngestObservedEvent(i, c, outcome) ==
  /\ SessionEvents
  /\ \E d \in dispatched : CommandID(d[1], d[3]) = CommandID(i, c)
  /\ c \in Pending(i)
  /\ Ingest(i, desired[i], c, outcome)
  /\ UNCHANGED <<desired, executors, workerVars, historyVars>>

-----------------------------------------------------------------------------
Next ==
  \/ \E i \in Intents : SubmitIssue(i)
  \/ \E g \in Ghosts : RegisterExecutor(g)
  \/ \E w \in Workers, i \in Intents : ReconcileBlocked(w, i)
  \/ \E w \in Workers, i \in Intents : ReconcileNoExecutor(w, i)
  \/ \E w \in Workers, i \in Intents : ReconcileDispatch(w, i)
  \/ \E w \in Workers : ExecuteFails(w)
  \/ \E w \in Workers : ReleaseSeedLock(w)
  \/ \E w \in Workers, o \in Outcome : IngestReply(w, o)
  \/ \E i \in Intents, o \in Outcome :
       \E c \in DOMAIN desired[i] : IngestObservedEvent(i, c, o)

Spec == Init /\ [][Next]_vars

(***************************************************************************)
(* Clients keep polling every intent (nothing else drives the loop), every *)
(* Ghost is attached sooner or later, a call in flight ends, and a command *)
(* that is retried for ever is not refused for ever.                       *)
(***************************************************************************)
ReplyFor(i) == \E w \in InFlight(i), o \in Outcome : IngestReply(w, o)

Fairness ==
  /\ \A g \in Ghosts : WF_vars(RegisterExecutor(g))
  /\ \A i \in Intents : WF_vars(\E w \in Workers : ReconcileDispatch(w, i))
  /\ \A i \in Intents : SF_vars(ReplyFor(i))
  /\ \A w \in Workers : WF_vars(ReleaseSeedLock(w))

FairSpec == Spec /\ Fairness

-----------------------------------------------------------------------------
(***************************************************************************)
(* Properties.                                                             *)
(***************************************************************************)

\* Commands go out in plan order: when a command of the current issue has
\* been dispatched, every earlier one has its event (control-loop.md: "one
\* ordered command plan").
DispatchOrder ==
  \A d \in dispatched :
    d[2] = issued[d[1]] => 1 .. (d[3] - 1) \subseteq byCommandID[d[1]]

\* A command counts as observed only if it was dispatched for the issue that
\* is current now, never on the strength of an earlier one.
ObservedWasDispatched ==
  \A i \in Intents : \A c \in byCommandID[i] : <<i, issued[i], c>> \in dispatched

\* "satisfied" is reported only when no command is left to run
\* (protocol.toml: "report.satisfied -> no further command required").
SatisfiedMeansDone ==
  \A i \in Intents : report[i].completion = "satisfied" => Pending(i) = {}

\* The event history holds one event per observed command (control-loop.md:
\* ingest "is idempotent by `event_id`; duplicates do not produce duplicate
\* desired/observed transitions").  IngestObservedEvent looks first whether
\* the event is there, ReconcileOnce does not.
OneEventPerCommand ==
  \A i \in Intents :
    /\ Len(events[i]) = Cardinality(byCommandID[i])
    /\ \A n \in DOMAIN events[i] : events[i][n] \in byCommandID[i]

HoldsKey(w, k) ==
  pc[w] # "idle" /\ JobStep(w).blocking /\ KeyOf(JobStep(w)) = k

\* Blocking commands of two intents on one seed are never in flight together
\* (control-loop.md: "while lock is held by another intent, Mirage ... does
\* not dispatch the blocked command").
LockExclusion ==
  \A v, w \in Workers, k \in SeedKey :
    HoldsKey(v, k) /\ HoldsKey(w, k) => job[v].intent = job[w].intent

\* A lock changes hands only through its owner: its command's event arrives,
\* or the owner's own call ends (the comment on releaseSeedLock: "only when
\* owner matches to avoid stomping newer owners").
OnlyOwnerReleases ==
  [][\A k \in SeedKey :
       LET o == seedLocks[k] IN
       o # None /\ seedLocks'[k] # o =>
         \/ o.command \in byCommandID'[o.intent] \ byCommandID[o.intent]
         \/ \E w \in Workers :
              /\ pc[w] # "idle" /\ pc'[w] = "idle"
              /\ OwnerOf(job[w].intent, job[w].command) = o]_vars

\* No lock outlives its purpose: its owner is a blocking command on that
\* seed which is still to be observed, so a retry can take it over.
LockOwnerPending ==
  \A k \in SeedKey :
    LET o == seedLocks[k] IN
    o # None =>
      /\ o.command \in Pending(o.intent)
      /\ desired[o.intent][o.command].blocking
      /\ KeyOf(desired[o.intent][o.command]) = k

\* Every submitted intent ends with all its commands observed and a terminal
\* report that stays.
Settled(i) ==
  Pending(i) = {} /\ report[i].completion \in {"failed", "satisfied"}

EventuallySettled ==
  \A i \in Intents : (desired[i] # << >>) ~> [](Settled(i))

-----------------------------------------------------------------------------
(***************************************************************************)
(* Why the properties above hold with serial clients and no session        *)
(* events: the parts of the inductive invariant.                           *)
(***************************************************************************)
OneCallPerIntent ==
  \A v, w \in Workers :
    pc[v] # "idle" /\ pc[w] # "idle" /\ job[v].intent = job[w].intent => v = w

\* What a call in flight carries is still so: its issue, its plan, and that
\* its command is the one after those observed.
JobIsCurrent ==
  \A w \in Workers :
    pc[w] # "idle" =>
      LET j == job[w] IN
      /\ j.issue = issued[j.intent]
      /\ j.plan = desired[j.intent]
      /\ j.command = Len(events[j.intent]) + 1
      /\ j.command \in DOMAIN j.plan
      /\ <<j.intent, j.issue, j.command>> \in dispatched

\* The commands observed are the first ones of the plan, in order.
ObservedIsPrefix ==
  \A i \in Intents :
    /\ byCommandID[i] = 1 .. Len(events[i])
    /\ byCommandID[i] \subseteq DOMAIN desired[i]
    /\ \A n \in DOMAIN events[i] : events[i][n] = n

\* A blocking call in flight owns its lock throughout.
InFlightOwnsLock ==
  \A w \in Workers, k \in SeedKey :
    HoldsKey(w, k) => seedLocks[k] = OwnerOf(job[w].intent, job[w].command)

\* With serial clients and no session events, what a call read before it let
\* go of o.mu still holds when it takes it again (orchestration.go:323 works
\* with the plan of line 272 and the lock of line 296).
SerialInv ==
  /\ OneCallPerIntent
  /\ JobIsCurrent
  /\ ObservedIsPrefix
  /\ InFlightOwnsLock

(***************************************************************************)
(* Refinement: what a client sees of an intent is IntentProgress.          *)
(***************************************************************************)
Progress == INSTANCE IntentProgress WITH
  total  <- [i \in Intents |-> Len(desired[i])],
  done   <- [i \in Intents |-> Cardinality(byCommandID[i])],
  status <- [i \in Intents |-> report[i].completion]

\* With one admin client per intent and no session events the loop implements
\* IntentProgress, resubmission included.
ImplementsProgress == Progress!Spec
=============================================================================
