------------------------------ MODULE IssueIngest ------------------------------
(***************************************************************************)
(* How an issue becomes a stored intent, and how intents and commands are  *)
(* found again by name (src/internal/mirage/orchestration.go: Validate,    *)
(* SubmitIssue, normalizeIssueToCommands, SnapshotIntent,                  *)
(* findPlannedCommandByCommandID; src/internal/mirage/admin_control.go:    *)
(* mapAdminIssue).  Orchestrator takes intents as given and models what    *)
(* happens to them afterwards.                                             *)
(*                                                                         *)
(* Issues come from the admin endpoint, which trims what it is given, or   *)
(* from a caller in the same process, whose words SubmitIssue takes as     *)
(* they are.                                                               *)
(*                                                                         *)
(* Abstractions.  Text is a member of a small set on which TrimSpace,      *)
(* sanitizeID's replacement, TrimPrefix("ghost:") and the joining of two   *)
(* texts by "::" are tables.  A command id is the sanitized intent id with *)
(* the position in the plan: the position has no dot, so the text          *)
(* "cmd.<id>.<n>" determines both.  Arguments and times are left out.      *)
(***************************************************************************)
EXTENDS Naturals, Sequences, FiniteSets

CONSTANTS
  TrimText,          \* strings.TrimSpace
  JoinText,          \* JoinText[<<s, t>>]: the text s, "::", t
  DotText,           \* blanks and slashes inside a text become dots
  StripGhostPrefix,  \* strings.TrimPrefix(.., "ghost:")
  EmptyText,
  FlowSeed,          \* "seed.flow"
  Issues,            \* bound: the issues tried
  MaxIntents         \* bound: intents stored

Texts == DOMAIN TrimText

PlanStep == [ghost : Texts, seed : Texts, operation : Texts, blocking : BOOLEAN]

Issue == [intent : Texts, actor : Texts, scope : Texts, objective : Texts,
          seed : Texts, operation : Texts, plan : Seq(PlanStep)]

ASSUME IssueIngestAssumption ==
  /\ EmptyText \in Texts /\ FlowSeed \in Texts
  /\ \A t \in Texts : {TrimText[t], DotText[t], StripGhostPrefix[t]} \subseteq Texts
  /\ \A t \in Texts : TrimText[TrimText[t]] = TrimText[t]
  /\ MaxIntents \in Nat

IsBlank(t) == TrimText[t] = EmptyText

ValidStep(step) == ~ IsBlank(step.ghost) /\ ~ IsBlank(step.seed) /\ ~ IsBlank(step.operation)

ValidIssue(issue) ==
  /\ \A t \in {issue.intent, issue.actor, issue.scope, issue.objective} : ~ IsBlank(t)
  /\ \A k \in DOMAIN issue.plan : ValidStep(issue.plan[k])

\* Mutation: separators are not replaced, the text is cut to nothing.
SanitizeToNothing(t) == EmptyText

SanitizeText(t) == DotText[TrimText[t]]

PlanCommandID(intent, k) == <<SanitizeText(intent), k>>

\* Not one to one: "a::b" with "c" and "a" with "b::c" have the same lock.
SeedLockKey(ghost, seed) == JoinText[<<TrimText[ghost], TrimText[seed]>>]

NormalizeGhostID(scope) == TrimText[StripGhostPrefix[TrimText[scope]]]

PlannedCommand(intent, k, ghost, seed, operation, blocking) ==
  [id |-> PlanCommandID(intent, k), intent |-> intent, ghost |-> ghost, seed |-> seed,
   operation |-> operation, blocking |-> blocking, seedKey |-> SeedLockKey(ghost, seed)]

PlanCommandsFromIssue(issue) ==
  [k \in DOMAIN issue.plan |->
     LET step == issue.plan[k]
     IN  PlannedCommand(issue.intent, k, TrimText[step.ghost], TrimText[step.seed],
                        TrimText[step.operation], step.blocking)]

\* The fields of an issue without a plan: one command, never blocking.
LegacyCommand(issue) ==
  PlannedCommand(issue.intent, 1, NormalizeGhostID(issue.scope),
                 IF IsBlank(issue.seed) THEN FlowSeed ELSE TrimText[issue.seed],
                 TrimText[IF IsBlank(issue.operation) THEN issue.objective ELSE issue.operation],
                 FALSE)

CanNormalize(issue) == issue.plan = <<>> => NormalizeGhostID(issue.scope) # EmptyText

NormalizeIssueToCommands(issue) ==
  IF issue.plan # <<>> THEN PlanCommandsFromIssue(issue) ELSE <<LegacyCommand(issue)>>

SeedDependencies(commands) == {TrimText[commands[k].seed] : k \in DOMAIN commands} \ {EmptyText}

\* Mutation: the admin endpoint passes the intent id on as it came.
MapAdminIssueRawID(issue) ==
  [issue EXCEPT !.actor = TrimText[@], !.scope = TrimText[@], !.objective = TrimText[@],
     !.seed = EmptyText, !.operation = EmptyText,
     !.plan = [k \in DOMAIN issue.plan |->
                 [issue.plan[k] EXCEPT !.ghost = TrimText[@], !.seed = TrimText[@],
                                       !.operation = TrimText[@]]]]

\* The admin request has no seed and operation of its own.
MapAdminIssue(issue) ==
  [issue EXCEPT !.intent = TrimText[@], !.actor = TrimText[@], !.scope = TrimText[@],
     !.objective = TrimText[@], !.seed = EmptyText, !.operation = EmptyText,
     !.plan = [k \in DOMAIN issue.plan |->
                 [issue.plan[k] EXCEPT !.ghost = TrimText[@], !.seed = TrimText[@],
                                       !.operation = TrimText[@]]]]

-----------------------------------------------------------------------------
VARIABLES
  desired,       \* intent id as stored -> its commands and the seeds they need
  adminIntents,  \* history: the intent ids as admin clients spelled them
  lastEvent      \* the intents a session event was attributed to, and its command

ingestVars == <<desired, adminIntents, lastEvent>>

NoEvent == [command |-> <<>>, owners |-> {}]

IngestInit ==
  /\ desired = [i \in {} |-> <<>>]
  /\ adminIntents = {}
  /\ lastEvent = NoEvent

\* SubmitIssue: the id is stored as it is given.
StoreIntent(issue) ==
  /\ ValidIssue(issue)
  /\ CanNormalize(issue)
  /\ Cardinality(DOMAIN desired \cup {issue.intent}) <= MaxIntents
  /\ LET commands == NormalizeIssueToCommands(issue)
         stored == [commands |-> commands, seeds |-> SeedDependencies(commands)]
     IN  desired' = [i \in DOMAIN desired \cup {issue.intent} |->
                       IF i = issue.intent THEN stored ELSE desired[i]]
  /\ lastEvent' = NoEvent

SubmitInProcess(issue) ==
  /\ StoreIntent(issue)
  /\ UNCHANGED adminIntents

SubmitByAdmin(issue) ==
  /\ StoreIntent(MapAdminIssue(issue))
  /\ adminIntents' = adminIntents \cup {issue.intent}

\* Every reader trims the id it is asked for: SnapshotIntent, ReconcileOnce.
FoundIntent(i) == TrimText[i] \in DOMAIN desired

\* findPlannedCommandByCommandID walks a map in no particular order: any of
\* the intents that have a command of that id.
OwnersOf(command) ==
  {i \in DOMAIN desired :
     \E k \in DOMAIN desired[i].commands : desired[i].commands[k].id = command}

\* A session event is attributed to one of the owners (IngestObservedEvent).
AttributeEvent(i, k) ==
  /\ \E o \in OwnersOf(desired[i].commands[k].id) :
       lastEvent' = [command |-> <<i, k>>, owners |-> {o}]
  /\ UNCHANGED <<desired, adminIntents>>

IngestNext ==
  \/ \E issue \in Issues : SubmitInProcess(issue) \/ SubmitByAdmin(issue)
  \/ \E i \in DOMAIN desired : \E k \in DOMAIN desired[i].commands : AttributeEvent(i, k)

IngestSpec == IngestInit /\ [][IngestNext]_ingestVars

-----------------------------------------------------------------------------
\* However an admin client spells the id of an intent it has submitted, and
\* whatever is submitted afterwards, the intent is found under that spelling
\* and all its commands carry the id it is stored under (mapAdminIssue,
\* admin_control.go:257-277, and SubmitIssue, orchestration.go:203-225).
AdminIssueIsFound ==
  \A i \in adminIntents :
    /\ FoundIntent(i)
    /\ \A k \in DOMAIN desired[TrimText[i]].commands :
         desired[TrimText[i]].commands[k].intent = TrimText[i]

\* A session event is counted for another intent than the one whose command
\* ran only if the two ids are the same once blanks and slashes are dots:
\* command ids keep the intents apart in every other case
\* (findPlannedCommandByCommandID, orchestration.go:633-644).
EventFindsOwner ==
  \A o \in lastEvent.owners :
    LET i == lastEvent.command[1]
    IN  o # i => DotText[TrimText[o]] = DotText[TrimText[i]]

-----------------------------------------------------------------------------
(***************************************************************************)
(* Why they hold: every stored command carries the id its intent is stored *)
(* under and its own position.                                             *)
(***************************************************************************)
CommandOf(command, t, k) ==
  /\ command.intent = t
  /\ command.id = PlanCommandID(t, k)

IngestInv ==
  /\ \A t \in DOMAIN desired : \A k \in DOMAIN desired[t].commands :
       CommandOf(desired[t].commands[k], t, k)
  /\ \A i \in adminIntents : FoundIntent(i)
  /\ EventFindsOwner
=============================================================================
