----------------------------- MODULE GhostServer -----------------------------
(***************************************************************************)
(* A Ghost's server: lifecycle, command boundary and execution store       *)
(* (src/internal/ghost/server.go, execution.go, pipeline.go).              *)
(*                                                                         *)
(* HandleCommandAndExecute runs in the goroutine of its caller.  It holds  *)
(* s.mu to accept the command and again to store the result; the seed runs *)
(* between the two with no lock held, so the calls of several callers      *)
(* interleave there.  The store lives in memory only: a Ghost that dies    *)
(* comes back in phase boot with nothing in it, while what its seeds did   *)
(* (files, keys, databases) stays.                                         *)
(*                                                                         *)
(* Of an envelope the model keeps the ids and the seed selector.  A call   *)
(* that is refused changes no state and is no action: the conditions of    *)
(* Accepts are the refusals of HandleCommand.  The wire checks between the *)
(* stages (SeedExecuteEnv.Validate and its kin) cannot fail on what the    *)
(* stages build from an accepted command.                                  *)
(***************************************************************************)
EXTENDS Naturals, FiniteSets

CONSTANTS
  GhostIDs,     \* identities a Ghost may appear with, and commands may target
  CommandIDs,
  MessageIDs,   \* numbers; 0 is the missing message_id
  Seeds,        \* seed selectors
  Callers,      \* goroutines that call HandleCommandAndExecute
  MaxRestarts,  \* bound: crashes of the Ghost process
  None

ASSUME GhostAssumption ==
  /\ MessageIDs \subseteq Nat
  /\ MaxRestarts \in Nat
  /\ None \notin GhostIDs
  /\ None \notin CommandIDs
  /\ None \notin Seeds

Command == [message : MessageIDs, command : CommandIDs,
            ghost : GhostIDs, seed : Seeds]

Outcome == {"success", "error"}

Execution == [message : MessageIDs, command : CommandIDs, seed : Seeds,
              phase : {"accepted", "complete"}, outcome : Outcome \cup {"none"}]

ASSUME NoneIsNoRecord == None \notin Execution /\ \A r \in SUBSET Seeds : r # None

\* executionIDForCommand: "exec.<command_id>".
ExecutionID(c) == <<"exec", c>>

ExecutionIDs == {ExecutionID(c) : c \in CommandIDs}

VARIABLES
  phase,               \* boot, appeared, seeded, radiating
  ghostID,             \* the identity set by Appear
  registry,            \* the seeds in the registry; None before Seed
  executionByID,       \* ExecutionIDs -> Execution or None
  executionByCmdID,    \* CommandIDs -> Execution or None
  commandByMessageID,  \* MessageIDs -> CommandIDs or None
  pc,                  \* idle; accepted: seed not yet run; executed: result not stored
  state,               \* the ExecutionState on each caller's stack, with its outcome
  seedRuns,            \* history: how often a seed ran for each command id
  events,              \* history: how often each command's event was returned
  restarts             \* history: crashes so far

lifecycleVars == <<phase, ghostID, registry>>
storeVars == <<executionByID, executionByCmdID, commandByMessageID>>
callerVars == <<pc, state>>
historyVars == <<seedRuns, events, restarts>>
vars == <<lifecycleVars, storeVars, callerVars, historyVars>>

TypeOK ==
  /\ phase \in {"boot", "appeared", "seeded", "radiating"}
  /\ ghostID \in GhostIDs \cup {None}
  /\ registry \in (SUBSET Seeds) \cup {None}
  /\ executionByID \in [ExecutionIDs -> Execution \cup {None}]
  /\ executionByCmdID \in [CommandIDs -> Execution \cup {None}]
  /\ commandByMessageID \in [MessageIDs -> CommandIDs \cup {None}]
  /\ pc \in [Callers -> {"idle", "accepted", "executed"}]
  /\ state \in [Callers -> Execution \cup {None}]
  /\ \A p \in Callers : pc[p] = "idle" <=> state[p] = None
  /\ seedRuns \in [CommandIDs -> Nat]
  /\ events \in [CommandIDs -> Nat]
  /\ restarts \in 0 .. MaxRestarts

Init ==
  /\ phase = "boot"
  /\ ghostID = None
  /\ registry = None
  /\ executionByID = [e \in ExecutionIDs |-> None]
  /\ executionByCmdID = [c \in CommandIDs |-> None]
  /\ commandByMessageID = [m \in MessageIDs |-> None]
  /\ pc = [p \in Callers |-> "idle"]
  /\ state = [p \in Callers |-> None]
  /\ seedRuns = [c \in CommandIDs |-> 0]
  /\ events = [c \in CommandIDs |-> 0]
  /\ restarts = 0

-----------------------------------------------------------------------------
(***************************************************************************)
(* Lifecycle: boot -> appeared -> seeded -> radiating, each step once.     *)
(***************************************************************************)
Appear(g) ==
  /\ phase = "boot"
  /\ phase' = "appeared"
  /\ ghostID' = g
  /\ UNCHANGED <<registry, storeVars, callerVars, historyVars>>

Seed(installed) ==
  /\ phase = "appeared"
  /\ phase' = "seeded"
  /\ registry' = installed
  /\ UNCHANGED <<ghostID, storeVars, callerVars, historyVars>>

Radiate ==
  /\ phase = "seeded"
  /\ phase' = "radiating"
  /\ UNCHANGED <<ghostID, registry, storeVars, callerVars, historyVars>>

\* The process dies and starts over; its callers' goroutines die with it.
Restart ==
  /\ restarts < MaxRestarts
  /\ restarts' = restarts + 1
  /\ phase' = "boot"
  /\ ghostID' = None
  /\ registry' = None
  /\ executionByID' = [e \in ExecutionIDs |-> None]
  /\ executionByCmdID' = [c \in CommandIDs |-> None]
  /\ commandByMessageID' = [m \in MessageIDs |-> None]
  /\ pc' = [p \in Callers |-> "idle"]
  /\ state' = [p \in Callers |-> None]
  /\ UNCHANGED <<seedRuns, events>>

-----------------------------------------------------------------------------
\* Mutation: no check for a command id seen before.
AcceptsRepeats(cmd) ==
  /\ cmd.message # 0
  /\ phase = "radiating"
  /\ cmd.ghost = ghostID
  /\ commandByMessageID[cmd.message] = None

\* Mutation: no check for a message id seen before.
AcceptsRepeatedMessages(cmd) ==
  /\ cmd.message # 0
  /\ phase = "radiating"
  /\ cmd.ghost = ghostID
  /\ executionByCmdID[cmd.command] = None

\* What HandleCommand demands of a command.
Accepts(cmd) ==
  /\ cmd.message # 0
  /\ phase = "radiating"
  /\ cmd.ghost = ghostID
  /\ executionByCmdID[cmd.command] = None
  /\ commandByMessageID[cmd.message] = None

\* Mutation: the execution goes under its command id where its execution id
\* belongs.
StoreUnderCommandID(s) ==
  /\ executionByID' = [e \in DOMAIN executionByID \cup {s.command} |->
                         IF e = s.command THEN s ELSE executionByID[e]]
  /\ executionByCmdID' = [executionByCmdID EXCEPT ![s.command] = s]
  /\ commandByMessageID' = [commandByMessageID EXCEPT ![s.message] = s.command]

\* Both execution indexes and the message index take the new state.
Store(s) ==
  /\ executionByID' = [executionByID EXCEPT ![ExecutionID(s.command)] = s]
  /\ executionByCmdID' = [executionByCmdID EXCEPT ![s.command] = s]
  /\ commandByMessageID' = [commandByMessageID EXCEPT ![s.message] = s.command]

NewExecutionState(cmd) ==
  [message |-> cmd.message, command |-> cmd.command, seed |-> cmd.seed,
   phase |-> "accepted", outcome |-> "none"]

\* HandleCommand, under s.mu.
HandleCommand(p, cmd) ==
  /\ pc[p] = "idle"
  /\ Accepts(cmd)
  /\ Store(NewExecutionState(cmd))
  /\ pc' = [pc EXCEPT ![p] = "accepted"]
  /\ state' = [state EXCEPT ![p] = NewExecutionState(cmd)]
  /\ UNCHANGED <<lifecycleVars, historyVars>>

\* executeSeed with no lock held: an unknown seed is an error result without
\* a run, a known one runs and succeeds or fails.
ExecuteSeed(p, outcome) ==
  LET c     == state[p].command
      known == registry # None /\ state[p].seed \in registry
  IN
  /\ pc[p] = "accepted"
  /\ known \/ outcome = "error"
  /\ seedRuns' = IF known THEN [seedRuns EXCEPT ![c] = @ + 1] ELSE seedRuns
  /\ pc' = [pc EXCEPT ![p] = "executed"]
  /\ state' = [state EXCEPT ![p].outcome = outcome]
  /\ UNCHANGED <<lifecycleVars, storeVars, events, restarts>>

Return(p) ==
  /\ pc' = [pc EXCEPT ![p] = "idle"]
  /\ state' = [state EXCEPT ![p] = None]

\* Mutation: the completed state goes to one execution index only.
CompleteOneIndex(p) ==
  LET e == ExecutionID(state[p].command)
      s == [executionByID[e] EXCEPT !.phase = "complete",
                                    !.outcome = state[p].outcome]
  IN
  /\ pc[p] = "executed"
  /\ executionByID' = [executionByID EXCEPT ![e] = s]
  /\ events' = [events EXCEPT ![s.command] = @ + 1]
  /\ Return(p)
  /\ UNCHANGED <<lifecycleVars, executionByCmdID, commandByMessageID,
                 seedRuns, restarts>>

\* Mutation: the event is returned but the store never learns of it.
CompleteUnrecorded(p) ==
  /\ pc[p] = "executed"
  /\ events' = [events EXCEPT ![state[p].command] = @ + 1]
  /\ Return(p)
  /\ UNCHANGED <<lifecycleVars, storeVars, seedRuns, restarts>>

\* completeExecution, under s.mu: the stored state, re-read by execution id,
\* takes the result; then the event goes to the caller.
CompleteExecution(p) ==
  LET s == [executionByID[ExecutionID(state[p].command)]
              EXCEPT !.phase = "complete", !.outcome = state[p].outcome]
  IN
  /\ pc[p] = "executed"
  /\ Store(s)
  /\ events' = [events EXCEPT ![s.command] = @ + 1]
  /\ Return(p)
  /\ UNCHANGED <<lifecycleVars, seedRuns, restarts>>

-----------------------------------------------------------------------------
Next ==
  \/ \E g \in GhostIDs : Appear(g)
  \/ \E installed \in SUBSET Seeds : Seed(installed)
  \/ Radiate
  \/ Restart
  \/ \E p \in Callers, cmd \in Command : HandleCommand(p, cmd)
  \/ \E p \in Callers, o \in Outcome : ExecuteSeed(p, o)
  \/ \E p \in Callers : CompleteExecution(p)

Spec == Init /\ [][Next]_vars

\* An accepted call runs to its end: its goroutine is scheduled and its seed
\* returns.  Nobody has to send commands, nor to bring the Ghost up.
Fairness ==
  \A p \in Callers :
    /\ WF_vars(\E o \in Outcome : ExecuteSeed(p, o))
    /\ WF_vars(CompleteExecution(p))

FairSpec == Spec /\ Fairness

-----------------------------------------------------------------------------
(***************************************************************************)
(* Properties.                                                             *)
(***************************************************************************)

\* The three indexes tell one story: by command id, by execution id and by
\* message id a reader finds the same execution (ghost_dispatch.md: "indexes
\* by command_id, message_id, execution_id").
IndexesAgree ==
  /\ \A c \in CommandIDs : executionByCmdID[c] = executionByID[ExecutionID(c)]
  /\ \A c \in CommandIDs :
       executionByCmdID[c] # None =>
         /\ executionByCmdID[c].command = c
         /\ commandByMessageID[executionByCmdID[c].message] = c
  /\ \A m \in MessageIDs :
       commandByMessageID[m] # None =>
         /\ executionByCmdID[commandByMessageID[m]] # None
         /\ executionByCmdID[commandByMessageID[m]].message = m

\* However many callers repeat a command id, its seed runs at most once in
\* the life of the process (reliability.toml: command_key = "command_id",
\* replay_same_key "must not cause duplicate mutation").
AtMostOneRunPerLife == \A c \in CommandIDs : seedRuns[c] <= restarts + 1

\* The same without the process's life in it, as the contract has it: its
\* duplicate_window is "minimum 15m", restart or not.
AtMostOneRun == \A c \in CommandIDs : seedRuns[c] <= 1

\* A returned event is backed by a completed execution: whoever has the event
\* of a command and looks it up finds it complete (without a restart).
EventMeansComplete ==
  restarts = 0 =>
    \A c \in CommandIDs :
      /\ events[c] <= 1
      /\ events[c] = 1 <=> /\ executionByCmdID[c] # None
                           /\ executionByCmdID[c].phase = "complete"

\* Every accepted command comes to its one terminal event, unless the process
\* dies (ghost_dispatch.md: "Every accepted command produces exactly one
\* terminal event").
AcceptedCompletes ==
  \A c \in CommandIDs :
    executionByCmdID[c] # None ~>
      \/ executionByCmdID[c] # None /\ executionByCmdID[c].phase = "complete"
      \/ executionByCmdID[c] = None

-----------------------------------------------------------------------------
(***************************************************************************)
(* Why they hold: the parts of the inductive invariant.                    *)
(***************************************************************************)

\* Calls in flight are of different commands, each accepted and not complete.
CallersApart ==
  \A p \in Callers :
    pc[p] # "idle" =>
      /\ executionByCmdID[state[p].command] # None
      /\ executionByCmdID[state[p].command].phase = "accepted"
      /\ \A q \in Callers :
           pc[q] # "idle" /\ state[q].command = state[p].command => q = p

\* A command that was not run in this life has at least one run to spare.
RunsAccounted ==
  \A c \in CommandIDs :
    /\ executionByCmdID[c] = None => seedRuns[c] <= restarts
    /\ \A p \in Callers :
         pc[p] = "accepted" /\ state[p].command = c => seedRuns[c] <= restarts

SeededPhases == phase \in {"seeded", "radiating"} <=> registry # None

\* A command executes only on a Ghost whose seeds are installed.
ExecutesOnlyWhenSeeded ==
  \A c \in CommandIDs : executionByCmdID[c] # None => registry # None

\* At most one call works on a command, it alone can run its seed, and nothing
\* is known before the seeds are there.
CallInv == CallersApart /\ RunsAccounted /\ SeededPhases /\ ExecutesOnlyWhenSeeded
=============================================================================
