------------------------- MODULE GhostServer_proofs -------------------------
(***************************************************************************)
(* Theorems about the Ghost's command boundary, for every set of callers,  *)
(* commands, messages and seeds, and any number of restarts.               *)
(***************************************************************************)
EXTENDS GhostServer, TLAPS

USE DEF lifecycleVars, storeVars, callerVars, historyVars

\* A busy caller holds an execution of its own.
LEMMA BusyState ==
  ASSUME TypeOK, NEW p \in Callers, pc[p] # "idle"
  PROVE  /\ state[p] \in Execution
         /\ state[p].command \in CommandIDs
         /\ state[p].message \in MessageIDs
         /\ state[p].outcome \in Outcome \cup {"none"}
         /\ ExecutionID(state[p].command) \in ExecutionIDs
  BY DEF TypeOK, Execution, ExecutionIDs

\* Execution ids are as distinct as the command ids they are made of.
LEMMA ExecutionIDInjective ==
  ASSUME NEW c, NEW d, ExecutionID(c) = ExecutionID(d)
  PROVE  c = d
  BY DEF ExecutionID

LEMMA NewStateType ==
  ASSUME NEW cmd \in Command
  PROVE  /\ NewExecutionState(cmd) \in Execution
         /\ NewExecutionState(cmd) # None
         /\ NewExecutionState(cmd).command = cmd.command
         /\ NewExecutionState(cmd).message = cmd.message
         /\ NewExecutionState(cmd).phase = "accepted"
         /\ cmd.command \in CommandIDs
         /\ cmd.message \in MessageIDs
  <1>1. NewExecutionState(cmd) \in Execution
    BY DEF NewExecutionState, Execution, Command
  <1>2. QED
    BY <1>1, NoneIsNoRecord DEF NewExecutionState, Command

LEMMA StoreType ==
  ASSUME TypeOK, NEW s \in Execution, Store(s)
  PROVE  /\ executionByID' \in [ExecutionIDs -> Execution \cup {None}]
         /\ executionByCmdID' \in [CommandIDs -> Execution \cup {None}]
         /\ commandByMessageID' \in [MessageIDs -> CommandIDs \cup {None}]
  BY DEF TypeOK, Store, Execution

\* What completeExecution stores: the accepted execution with its result.
Completed(p) ==
  [executionByID[ExecutionID(state[p].command)]
     EXCEPT !.phase = "complete", !.outcome = state[p].outcome]

LEMMA CompletedState ==
  ASSUME TypeOK, IndexesAgree, CallersApart, NEW p \in Callers, pc[p] = "executed"
  PROVE  /\ Completed(p) \in Execution
         /\ Completed(p) # None
         /\ Completed(p).command = state[p].command
         /\ commandByMessageID[Completed(p).message] = state[p].command
         /\ Completed(p).phase = "complete"
  <1> DEFINE c == state[p].command
             x == executionByCmdID[c]
  <1>1. /\ c \in CommandIDs
        /\ state[p].outcome \in Outcome \cup {"none"}
    BY BusyState
  <1>2. x # None /\ x = executionByID[ExecutionID(c)]
    BY <1>1 DEF CallersApart, IndexesAgree
  <1>3. x \in Execution
    BY <1>1, <1>2 DEF TypeOK
  <1>4. x.command = c /\ commandByMessageID[x.message] = c
    BY <1>1, <1>2 DEF IndexesAgree
  <1>5. Completed(p) = [x EXCEPT !.phase = "complete", !.outcome = state[p].outcome]
    BY <1>2 DEF Completed
  <1> HIDE DEF x
  <1>6. Completed(p) \in Execution
    BY <1>1, <1>3, <1>5 DEF Execution
  <1>7. /\ Completed(p).command = x.command
        /\ Completed(p).message = x.message
        /\ Completed(p).phase = "complete"
    BY <1>3, <1>5 DEF Execution
  <1>8. QED
    BY <1>4, <1>6, <1>7, NoneIsNoRecord

GInv == TypeOK /\ IndexesAgree /\ CallInv

LEMMA InitInv == Init => GInv
  <1> SUFFICES ASSUME Init PROVE GInv
    OBVIOUS
  <1>1. TypeOK
    BY GhostAssumption DEF Init, TypeOK
  <1>2. IndexesAgree
    BY DEF Init, IndexesAgree, ExecutionIDs
  <1>3. CallInv
    BY DEF Init, CallInv, CallersApart, RunsAccounted, SeededPhases,
           ExecutesOnlyWhenSeeded
  <1>4. QED
    BY <1>1, <1>2, <1>3 DEF GInv

-----------------------------------------------------------------------------
(***************************************************************************)
(* Type correctness.                                                       *)
(***************************************************************************)
LEMMA NextType ==
  ASSUME GInv, [Next]_vars
  PROVE  TypeOK'
  <1> USE DEF GInv, CallInv
  <1>1. ASSUME NEW g \in GhostIDs, Appear(g) PROVE TypeOK'
    BY <1>1 DEF Appear, TypeOK
  <1>2. ASSUME NEW installed \in SUBSET Seeds, Seed(installed) PROVE TypeOK'
    BY <1>2 DEF Seed, TypeOK
  <1>3. ASSUME Radiate PROVE TypeOK'
    BY <1>3 DEF Radiate, TypeOK
  <1>4. ASSUME Restart PROVE TypeOK'
    BY <1>4, GhostAssumption DEF Restart, TypeOK
  <1>5. ASSUME NEW p \in Callers, NEW cmd \in Command, HandleCommand(p, cmd)
        PROVE  TypeOK'
    <2> DEFINE s == NewExecutionState(cmd)
    <2>1. s \in Execution /\ s # None
      BY NewStateType
    <2>2. /\ Store(s)
          /\ pc' = [pc EXCEPT ![p] = "accepted"]
          /\ state' = [state EXCEPT ![p] = s]
          /\ UNCHANGED <<lifecycleVars, historyVars>>
      BY <1>5 DEF HandleCommand
    <2> HIDE DEF s
    <2>3. /\ executionByID' \in [ExecutionIDs -> Execution \cup {None}]
          /\ executionByCmdID' \in [CommandIDs -> Execution \cup {None}]
          /\ commandByMessageID' \in [MessageIDs -> CommandIDs \cup {None}]
      BY <2>1, <2>2, StoreType
    <2>4. /\ pc' \in [Callers -> {"idle", "accepted", "executed"}]
          /\ state' \in [Callers -> Execution \cup {None}]
          /\ \A q \in Callers : pc'[q] = "idle" <=> state'[q] = None
      BY <2>1, <2>2 DEF TypeOK
    <2>5. QED
      BY <2>2, <2>3, <2>4 DEF TypeOK
  <1>6. ASSUME NEW p \in Callers, NEW o \in Outcome, ExecuteSeed(p, o)
        PROVE  TypeOK'
    <2>1. state[p] \in Execution /\ state[p].command \in CommandIDs
      BY <1>6, BusyState DEF ExecuteSeed
    <2> DEFINE s == [state[p] EXCEPT !.outcome = o]
    <2>2. s \in Execution /\ s # None
      BY <2>1, NoneIsNoRecord DEF Execution
    <2>3. /\ pc' = [pc EXCEPT ![p] = "executed"]
          /\ state' = [state EXCEPT ![p] = s]
          /\ pc[p] = "accepted"
      BY <1>6 DEF ExecuteSeed
    <2> HIDE DEF s
    <2>4. /\ pc' \in [Callers -> {"idle", "accepted", "executed"}]
          /\ state' \in [Callers -> Execution \cup {None}]
          /\ \A q \in Callers : pc'[q] = "idle" <=> state'[q] = None
      BY <2>2, <2>3 DEF TypeOK
    <2>5. seedRuns' \in [CommandIDs -> Nat]
      BY <1>6, <2>1 DEF ExecuteSeed, TypeOK
    <2>6. QED
      BY <1>6, <2>4, <2>5 DEF ExecuteSeed, TypeOK
  <1>7. ASSUME NEW p \in Callers, CompleteExecution(p) PROVE TypeOK'
    <2>1. /\ pc[p] = "executed"
          /\ Store(Completed(p))
          /\ events' = [events EXCEPT ![Completed(p).command] = @ + 1]
          /\ Return(p)
          /\ UNCHANGED <<lifecycleVars, seedRuns, restarts>>
      BY <1>7 DEF CompleteExecution, Completed
    <2>2. Completed(p) \in Execution
      BY <2>1, CompletedState
    <2>3. /\ executionByID' \in [ExecutionIDs -> Execution \cup {None}]
          /\ executionByCmdID' \in [CommandIDs -> Execution \cup {None}]
          /\ commandByMessageID' \in [MessageIDs -> CommandIDs \cup {None}]
      BY <2>1, <2>2, StoreType
    <2>4. /\ pc' \in [Callers -> {"idle", "accepted", "executed"}]
          /\ state' \in [Callers -> Execution \cup {None}]
          /\ \A q \in Callers : pc'[q] = "idle" <=> state'[q] = None
      BY <2>1 DEF Return, TypeOK
    <2>5. events' \in [CommandIDs -> Nat]
      BY <2>1, <2>2 DEF TypeOK, Execution
    <2>6. QED
      BY <2>1, <2>3, <2>4, <2>5 DEF TypeOK
  <1>8. CASE UNCHANGED vars
    BY <1>8 DEF vars, TypeOK
  <1>9. QED
    BY <1>1, <1>2, <1>3, <1>4, <1>5, <1>6, <1>7, <1>8 DEF Next

-----------------------------------------------------------------------------
(***************************************************************************)
(* The three indexes.                                                      *)
(***************************************************************************)

\* Storing a state whose message id is free or already its command's keeps
\* the indexes in agreement, if no other message id names the command.
LEMMA StoreAgrees ==
  ASSUME TypeOK, IndexesAgree, NEW s \in Execution, Store(s),
         commandByMessageID[s.message] \in {None, s.command},
         \A m \in MessageIDs :
           commandByMessageID[m] = s.command => m = s.message,
         \A c \in CommandIDs :
           executionByCmdID[c] # None /\ executionByCmdID[c].message = s.message
             => c = s.command
  PROVE  IndexesAgree'
  <1>1. s.command \in CommandIDs /\ s.message \in MessageIDs /\ s # None
    BY NoneIsNoRecord DEF Execution
  <1>2. /\ executionByCmdID'[s.command] = s
        /\ \A c \in CommandIDs \ {s.command} :
             executionByCmdID'[c] = executionByCmdID[c]
        /\ commandByMessageID'[s.message] = s.command
        /\ \A m \in MessageIDs \ {s.message} :
             commandByMessageID'[m] = commandByMessageID[m]
    BY <1>1 DEF Store, TypeOK
  <1>3. ASSUME NEW c \in CommandIDs
        PROVE  executionByCmdID'[c] = executionByID'[ExecutionID(c)]
    <2>1. ExecutionID(c) \in ExecutionIDs
      BY DEF ExecutionIDs
    <2>2. CASE c = s.command
      BY <1>1, <2>1, <2>2 DEF Store, TypeOK
    <2>3. CASE c # s.command
      <3>1. ExecutionID(c) # ExecutionID(s.command)
        BY <2>3, ExecutionIDInjective
      <3>2. QED
        BY <1>2, <2>1, <2>3, <3>1 DEF Store, TypeOK, IndexesAgree
    <2>4. QED
      BY <2>2, <2>3
  <1>4. ASSUME NEW c \in CommandIDs, executionByCmdID'[c] # None
        PROVE  /\ executionByCmdID'[c].command = c
               /\ commandByMessageID'[executionByCmdID'[c].message] = c
    <2>1. CASE c = s.command
      BY <1>2, <2>1
    <2>2. CASE c # s.command
      <3>1. executionByCmdID[c] # None /\ executionByCmdID'[c] = executionByCmdID[c]
        BY <1>2, <1>4, <2>2
      <3>2. executionByCmdID[c] \in Execution
        BY <3>1 DEF TypeOK
      <3>3. executionByCmdID[c].message \in MessageIDs \ {s.message}
        BY <2>2, <3>1, <3>2 DEF Execution
      <3>4. QED
        BY <1>2, <3>1, <3>3 DEF IndexesAgree
    <2>3. QED
      BY <2>1, <2>2
  <1>5. ASSUME NEW m \in MessageIDs, commandByMessageID'[m] # None
        PROVE  /\ executionByCmdID'[commandByMessageID'[m]] # None
               /\ executionByCmdID'[commandByMessageID'[m]].message = m
    <2>1. CASE m = s.message
      BY <1>1, <1>2, <2>1
    <2>2. CASE m # s.message
      <3>1. commandByMessageID'[m] = commandByMessageID[m]
        BY <1>2, <2>2
      <3>2. commandByMessageID[m] \in CommandIDs \ {s.command}
        BY <1>5, <2>2, <3>1 DEF TypeOK
      <3>3. QED
        BY <1>2, <1>5, <3>1, <3>2 DEF IndexesAgree
    <2>3. QED
      BY <2>1, <2>2
  <1>6. QED
    BY <1>3, <1>4, <1>5 DEF IndexesAgree

LEMMA NextIndexes ==
  ASSUME GInv, [Next]_vars
  PROVE  IndexesAgree'
  <1> USE DEF GInv, CallInv
  <1>1. ASSUME UNCHANGED storeVars PROVE IndexesAgree'
    BY <1>1 DEF IndexesAgree
  <1>2. ASSUME Restart PROVE IndexesAgree'
    BY <1>2 DEF Restart, IndexesAgree, ExecutionIDs
  <1>3. ASSUME NEW p \in Callers, NEW cmd \in Command, HandleCommand(p, cmd)
        PROVE  IndexesAgree'
    <2> DEFINE s == NewExecutionState(cmd)
    <2>1. /\ s \in Execution
          /\ s.command = cmd.command /\ s.command \in CommandIDs
          /\ s.message = cmd.message /\ s.message \in MessageIDs
      BY NewStateType
    <2>2. Store(s) /\ executionByCmdID[s.command] = None
                   /\ commandByMessageID[s.message] = None
      BY <1>3, <2>1 DEF HandleCommand, Accepts
    <2> HIDE DEF s
    <2>3. \A m \in MessageIDs : commandByMessageID[m] = s.command => m = s.message
      BY <2>1, <2>2, GhostAssumption DEF IndexesAgree
    <2>4. \A c \in CommandIDs :
            executionByCmdID[c] # None /\ executionByCmdID[c].message = s.message
              => c = s.command
      BY <2>1, <2>2, GhostAssumption DEF IndexesAgree
    <2>5. QED
      BY <2>1, <2>2, <2>3, <2>4, StoreAgrees
  <1>4. ASSUME NEW p \in Callers, CompleteExecution(p) PROVE IndexesAgree'
    <2> DEFINE s == Completed(p)
    <2>1. Store(s) /\ pc[p] = "executed"
      BY <1>4 DEF CompleteExecution, Completed
    <2>2. /\ s \in Execution
          /\ s.command = state[p].command
          /\ commandByMessageID[s.message] = s.command
          /\ executionByCmdID[s.command] # None
      BY <2>1, CompletedState DEF CallersApart
    <2> HIDE DEF s
    <2>3. s.command \in CommandIDs /\ s.message \in MessageIDs
      BY <2>2 DEF Execution
    <2>4. executionByCmdID[s.command].message = s.message
      BY <2>2, <2>3, GhostAssumption DEF IndexesAgree
    <2>5. \A m \in MessageIDs : commandByMessageID[m] = s.command => m = s.message
      BY <2>3, <2>4, GhostAssumption DEF IndexesAgree
    <2>6. \A c \in CommandIDs :
            executionByCmdID[c] # None /\ executionByCmdID[c].message = s.message
              => c = s.command
      BY <2>2, <2>3 DEF IndexesAgree
    <2>7. QED
      BY <2>1, <2>2, <2>5, <2>6, StoreAgrees
  <1>5. QED
    BY <1>1, <1>2, <1>3, <1>4 DEF Next, vars, Appear, Seed, Radiate, ExecuteSeed

-----------------------------------------------------------------------------
(***************************************************************************)
(* Calls in flight and the runs they account for.                          *)
(***************************************************************************)
LEMMA NextSeeded ==
  ASSUME GInv, [Next]_vars
  PROVE  SeededPhases' /\ ExecutesOnlyWhenSeeded'
  <1> USE DEF GInv, CallInv
  <1>1. SeededPhases'
    <2>1. ASSUME UNCHANGED <<phase, registry>> PROVE SeededPhases'
      BY <2>1 DEF SeededPhases
    <2>2. ASSUME NEW g \in GhostIDs, Appear(g) PROVE SeededPhases'
      BY <2>2 DEF Appear, SeededPhases
    <2>3. ASSUME NEW installed \in SUBSET Seeds, Seed(installed) PROVE SeededPhases'
      BY <2>3, NoneIsNoRecord DEF Seed, SeededPhases
    <2>4. ASSUME Radiate \/ Restart PROVE SeededPhases'
      BY <2>4 DEF Radiate, Restart, SeededPhases
    <2>5. ASSUME NEW p \in Callers, NEW cmd \in Command, HandleCommand(p, cmd)
          PROVE  SeededPhases'
      BY <2>1, <2>5 DEF HandleCommand
    <2>6. ASSUME NEW p \in Callers, NEW o \in Outcome, ExecuteSeed(p, o)
          PROVE  SeededPhases'
      BY <2>1, <2>6 DEF ExecuteSeed
    <2>7. ASSUME NEW p \in Callers, CompleteExecution(p) PROVE SeededPhases'
      BY <2>1, <2>7 DEF CompleteExecution
    <2>8. CASE UNCHANGED vars
      BY <2>1, <2>8 DEF vars
    <2>9. QED
      BY <2>2, <2>3, <2>4, <2>5, <2>6, <2>7, <2>8 DEF Next
  <1>2. ASSUME UNCHANGED executionByCmdID, registry # None => registry' # None
        PROVE  ExecutesOnlyWhenSeeded'
    BY <1>2 DEF ExecutesOnlyWhenSeeded
  <1>3. ASSUME Restart PROVE ExecutesOnlyWhenSeeded'
    BY <1>3 DEF Restart, ExecutesOnlyWhenSeeded
  <1>4. ASSUME NEW p \in Callers, NEW cmd \in Command, HandleCommand(p, cmd)
        PROVE  ExecutesOnlyWhenSeeded'
    BY <1>4 DEF HandleCommand, Accepts, SeededPhases, ExecutesOnlyWhenSeeded
  <1>5. ASSUME NEW p \in Callers, CompleteExecution(p)
        PROVE  ExecutesOnlyWhenSeeded'
    <2>1. executionByCmdID[state[p].command] # None /\ state[p].command \in CommandIDs
      BY <1>5, BusyState DEF CompleteExecution, CallersApart
    <2>2. registry # None /\ registry' = registry
      BY <1>5, <2>1 DEF CompleteExecution, ExecutesOnlyWhenSeeded
    <2>3. QED
      BY <2>2 DEF ExecutesOnlyWhenSeeded
  <1>6. ASSUME NEW p \in Callers, NEW o \in Outcome, ExecuteSeed(p, o)
        PROVE  ExecutesOnlyWhenSeeded'
    BY <1>2, <1>6 DEF ExecuteSeed
  <1>7. ASSUME NEW installed \in SUBSET Seeds, Seed(installed)
        PROVE  ExecutesOnlyWhenSeeded'
    BY <1>2, <1>7, NoneIsNoRecord DEF Seed
  <1>8. ASSUME NEW g \in GhostIDs, Appear(g) PROVE ExecutesOnlyWhenSeeded'
    BY <1>2, <1>8 DEF Appear
  <1>9. CASE Radiate
    BY <1>1, <1>2, <1>9 DEF Radiate
  <1>10. CASE UNCHANGED vars
    BY <1>1, <1>2, <1>10 DEF vars
  <1>11. QED
    BY <1>1, <1>3, <1>4, <1>5, <1>6, <1>7, <1>8, <1>9, <1>10 DEF Next

LEMMA NextApart ==
  ASSUME GInv, [Next]_vars
  PROVE  CallersApart'
  <1> USE DEF GInv, CallInv
  <1>1. ASSUME UNCHANGED <<executionByCmdID, pc, state>> PROVE CallersApart'
    BY <1>1 DEF CallersApart
  <1>2. ASSUME Restart PROVE CallersApart'
    BY <1>2 DEF Restart, CallersApart
  <1>3. ASSUME NEW p \in Callers, NEW cmd \in Command, HandleCommand(p, cmd)
        PROVE  CallersApart'
    <2> DEFINE s == NewExecutionState(cmd)
    <2>1. /\ s \in Execution /\ s # None /\ s.phase = "accepted"
          /\ s.command = cmd.command /\ s.command \in CommandIDs
      BY NewStateType
    <2>2. /\ Store(s) /\ executionByCmdID[s.command] = None
          /\ pc[p] = "idle"
          /\ pc' = [pc EXCEPT ![p] = "accepted"]
          /\ state' = [state EXCEPT ![p] = s]
      BY <1>3, <2>1 DEF HandleCommand, Accepts
    <2> HIDE DEF s
    <2>3. state'[p] = s /\ executionByCmdID'[s.command] = s
      BY <2>1, <2>2 DEF Store, TypeOK
    <2>4. \A q \in Callers \ {p} : pc'[q] = pc[q] /\ state'[q] = state[q]
      BY <2>2 DEF TypeOK
    <2>5. \A q \in Callers \ {p} :
            pc[q] # "idle" =>
              /\ state[q].command # s.command
              /\ executionByCmdID'[state[q].command] = executionByCmdID[state[q].command]
      BY <2>1, <2>2, BusyState DEF CallersApart, Store, TypeOK
    <2>6. QED
      BY <2>1, <2>3, <2>4, <2>5 DEF CallersApart
  <1>4. ASSUME NEW p \in Callers, NEW o \in Outcome, ExecuteSeed(p, o)
        PROVE  CallersApart'
    <2>1. /\ state[p] \in Execution
          /\ state' = [state EXCEPT ![p] = [state[p] EXCEPT !.outcome = o]]
          /\ pc' = [pc EXCEPT ![p] = "executed"]
          /\ pc[p] # "idle"
          /\ UNCHANGED executionByCmdID
      BY <1>4, BusyState DEF ExecuteSeed
    <2>2. state'[p].command = state[p].command
      BY <2>1 DEF TypeOK, Execution
    <2>3. \A q \in Callers : /\ pc'[q] # "idle" => pc[q] # "idle"
                             /\ q # p => state'[q] = state[q]
      BY <2>1 DEF TypeOK
    <2>4. QED
      BY <2>1, <2>2, <2>3 DEF CallersApart
  <1>5. ASSUME NEW p \in Callers, CompleteExecution(p) PROVE CallersApart'
    <2> DEFINE s == Completed(p)
    <2>1. Store(s) /\ pc[p] = "executed"
      BY <1>5 DEF CompleteExecution, Completed
    <2>2. s \in Execution /\ s.command = state[p].command
      BY <2>1, CompletedState
    <2> HIDE DEF s
    <2>3. /\ pc'[p] = "idle"
          /\ \A q \in Callers \ {p} : pc'[q] = pc[q] /\ state'[q] = state[q]
      BY <1>5 DEF CompleteExecution, Return, TypeOK
    <2>4. \A q \in Callers \ {p} :
            pc[q] # "idle" =>
              executionByCmdID'[state[q].command] = executionByCmdID[state[q].command]
      BY <2>1, <2>2, BusyState DEF CallersApart, Store, TypeOK
    <2>5. QED
      BY <2>3, <2>4 DEF CallersApart
  <1>6. QED
    BY <1>1, <1>2, <1>3, <1>4, <1>5 DEF Next, vars, Appear, Seed, Radiate

LEMMA NextRuns ==
  ASSUME GInv, AtMostOneRunPerLife, [Next]_vars
  PROVE  RunsAccounted' /\ AtMostOneRunPerLife'
  <1> USE DEF GInv, CallInv
  <1>1. ASSUME UNCHANGED <<executionByCmdID, pc, state, seedRuns, restarts>>
        PROVE  RunsAccounted' /\ AtMostOneRunPerLife'
    BY <1>1 DEF RunsAccounted, AtMostOneRunPerLife
  <1>2. ASSUME Restart PROVE RunsAccounted' /\ AtMostOneRunPerLife'
    <2>1. /\ restarts' = restarts + 1
          /\ seedRuns' = seedRuns
          /\ \A p \in Callers : pc'[p] = "idle"
      BY <1>2 DEF Restart
    <2>2. \A c \in CommandIDs : seedRuns[c] \in Nat /\ restarts \in Nat
      BY GhostAssumption DEF TypeOK
    <2>3. QED
      BY <2>1, <2>2 DEF RunsAccounted, AtMostOneRunPerLife
  <1>3. ASSUME NEW p \in Callers, NEW cmd \in Command, HandleCommand(p, cmd)
        PROVE  RunsAccounted' /\ AtMostOneRunPerLife'
    <2> DEFINE s == NewExecutionState(cmd)
    <2>1. s # None /\ s.command = cmd.command /\ s.command \in CommandIDs
      BY NewStateType
    <2>2. /\ Store(s) /\ executionByCmdID[s.command] = None
          /\ pc' = [pc EXCEPT ![p] = "accepted"]
          /\ state' = [state EXCEPT ![p] = s]
          /\ UNCHANGED <<seedRuns, restarts>>
      BY <1>3, <2>1 DEF HandleCommand, Accepts
    <2> HIDE DEF s
    <2>3. \A c \in CommandIDs :
            executionByCmdID'[c] = None => executionByCmdID[c] = None
      BY <2>1, <2>2 DEF Store, TypeOK
    <2>4. \A q \in Callers : \/ state'[q] = s
                             \/ pc'[q] = pc[q] /\ state'[q] = state[q]
      BY <2>2 DEF TypeOK
    <2>5. QED
      BY <2>1, <2>2, <2>3, <2>4 DEF RunsAccounted, AtMostOneRunPerLife
  <1>4. ASSUME NEW p \in Callers, NEW o \in Outcome, ExecuteSeed(p, o)
        PROVE  RunsAccounted' /\ AtMostOneRunPerLife'
    <2> DEFINE c == state[p].command
    <2>1. /\ pc[p] = "accepted"
          /\ seedRuns' \in {seedRuns, [seedRuns EXCEPT ![c] = @ + 1]}
          /\ pc' = [pc EXCEPT ![p] = "executed"]
          /\ \A q \in Callers \ {p} : state'[q] = state[q]
          /\ UNCHANGED <<executionByCmdID, restarts>>
      BY <1>4 DEF ExecuteSeed, TypeOK
    <2>2. c \in CommandIDs /\ executionByCmdID[c] # None
      BY <2>1, BusyState DEF CallersApart
    <2>3. \A d \in CommandIDs : seedRuns[d] \in Nat /\ restarts \in Nat
      BY GhostAssumption DEF TypeOK
    <2>4. seedRuns[c] <= restarts
      BY <2>1, <2>2 DEF RunsAccounted
    <2>5. \A d \in CommandIDs \ {c} : seedRuns'[d] = seedRuns[d]
      BY <2>1 DEF TypeOK
    <2>6. seedRuns'[c] <= restarts + 1
      BY <2>1, <2>2, <2>3, <2>4 DEF TypeOK
    <2>7. \A q \in Callers :
            pc'[q] = "accepted" => q # p /\ pc[q] = "accepted" /\ state[q].command # c
      BY <2>1 DEF TypeOK, CallersApart
    <2>8. RunsAccounted'
      BY <2>1, <2>2, <2>5, <2>7 DEF RunsAccounted
    <2>9. AtMostOneRunPerLife'
      BY <2>1, <2>5, <2>6 DEF AtMostOneRunPerLife
    <2>10. QED
      BY <2>8, <2>9
  <1>5. ASSUME NEW p \in Callers, CompleteExecution(p)
        PROVE  RunsAccounted' /\ AtMostOneRunPerLife'
    <2> DEFINE s == Completed(p)
    <2>1. Store(s) /\ pc[p] = "executed" /\ UNCHANGED <<seedRuns, restarts>>
      BY <1>5 DEF CompleteExecution, Completed
    <2>2. s # None
      BY <2>1, CompletedState
    <2> HIDE DEF s
    <2>3. \A c \in CommandIDs :
            executionByCmdID'[c] = None => executionByCmdID[c] = None
      BY <2>1, <2>2 DEF Store, TypeOK
    <2>4. \A q \in Callers :
            pc'[q] = "accepted" => pc[q] = "accepted" /\ state'[q] = state[q]
      BY <1>5, <2>1 DEF CompleteExecution, Return, TypeOK
    <2>5. QED
      BY <2>1, <2>3, <2>4 DEF RunsAccounted, AtMostOneRunPerLife
  <1>6. QED
    BY <1>1, <1>2, <1>3, <1>4, <1>5 DEF Next, vars, Appear, Seed, Radiate

-----------------------------------------------------------------------------
LEMMA Invariant == Spec => [](GInv /\ AtMostOneRunPerLife)
  <1>1. Init => GInv /\ AtMostOneRunPerLife
    BY InitInv DEF Init, AtMostOneRunPerLife
  <1>2. GInv /\ AtMostOneRunPerLife /\ [Next]_vars => (GInv /\ AtMostOneRunPerLife)'
    <2> SUFFICES ASSUME GInv, AtMostOneRunPerLife, [Next]_vars
                 PROVE  GInv' /\ AtMostOneRunPerLife'
      OBVIOUS
    <2>1. QED
      BY NextType, NextIndexes, NextSeeded, NextApart, NextRuns DEF GInv, CallInv
  <1>3. QED
    BY <1>1, <1>2, PTL DEF Spec

\* Every reachable state is well typed.
THEOREM TypeCorrect == Spec => []TypeOK
  <1>1. GInv => TypeOK
    BY DEF GInv
  <1>2. QED
    BY Invariant, <1>1, PTL

\* Whichever id a reader looks an execution up by, it finds the same one.
THEOREM IndexesConsistent == Spec => []IndexesAgree
  <1>1. GInv => IndexesAgree
    BY DEF GInv
  <1>2. QED
    BY Invariant, <1>1, PTL

\* Nothing executes before the seeds are there.
THEOREM SeedsFirst == Spec => []ExecutesOnlyWhenSeeded
  <1>1. GInv => ExecutesOnlyWhenSeeded
    BY DEF GInv, CallInv
  <1>2. QED
    BY Invariant, <1>1, PTL

\* A command's seed runs at most once between two restarts, however many
\* callers bring the command.
THEOREM RunsOncePerLife == Spec => []AtMostOneRunPerLife
  BY Invariant, PTL

\* Calls in flight are of different commands.
THEOREM CallsAreApart == Spec => []CallInv
  <1>1. GInv => CallInv
    BY DEF GInv
  <1>2. QED
    BY Invariant, <1>1, PTL

-----------------------------------------------------------------------------
(***************************************************************************)
(* The events returned.                                                    *)
(***************************************************************************)
IsComplete(c) == executionByCmdID[c] # None /\ executionByCmdID[c].phase = "complete"

EventsCounted ==
  restarts = 0 =>
    \A c \in CommandIDs : events[c] = IF IsComplete(c) THEN 1 ELSE 0

LEMMA NextEvents ==
  ASSUME GInv, EventsCounted, [Next]_vars
  PROVE  EventsCounted'
  <1> USE DEF GInv, CallInv
  <1>1. ASSUME UNCHANGED <<executionByCmdID, events, restarts>> PROVE EventsCounted'
    BY <1>1 DEF EventsCounted, IsComplete
  <1>2. ASSUME Restart PROVE EventsCounted'
    BY <1>2, GhostAssumption DEF Restart, EventsCounted, TypeOK
  <1>3. ASSUME NEW p \in Callers, NEW cmd \in Command, HandleCommand(p, cmd)
        PROVE  EventsCounted'
    <2> DEFINE s == NewExecutionState(cmd)
    <2>1. /\ s \in Execution /\ s.phase = "accepted"
          /\ s.command = cmd.command /\ s.command \in CommandIDs
      BY NewStateType
    <2>2. /\ Store(s) /\ executionByCmdID[s.command] = None
          /\ UNCHANGED <<events, restarts>>
      BY <1>3, <2>1 DEF HandleCommand, Accepts
    <2> HIDE DEF s
    <2>3. \A c \in CommandIDs :
            executionByCmdID'[c] = IF c = s.command THEN s ELSE executionByCmdID[c]
      BY <2>1, <2>2 DEF Store, TypeOK
    <2>4. \A c \in CommandIDs : IsComplete(c)' <=> IsComplete(c)
      BY <2>1, <2>2, <2>3 DEF IsComplete
    <2>5. QED
      BY <2>2, <2>4 DEF EventsCounted
  <1>4. ASSUME NEW p \in Callers, CompleteExecution(p) PROVE EventsCounted'
    <2> DEFINE s == Completed(p)
    <2>1. /\ Store(s)
          /\ pc[p] = "executed"
          /\ events' = [events EXCEPT ![s.command] = @ + 1]
          /\ restarts' = restarts
      BY <1>4 DEF CompleteExecution, Completed
    <2>2. /\ s \in Execution /\ s # None /\ s.phase = "complete"
          /\ s.command = state[p].command
          /\ executionByCmdID[s.command].phase = "accepted"
      BY <2>1, CompletedState DEF CallersApart
    <2> HIDE DEF s
    <2>3. s.command \in CommandIDs
      BY <2>2 DEF Execution
    <2>4. /\ executionByCmdID'[s.command] = s
          /\ \A c \in CommandIDs \ {s.command} :
               executionByCmdID'[c] = executionByCmdID[c] /\ events'[c] = events[c]
          /\ events'[s.command] = events[s.command] + 1
      BY <2>1, <2>3 DEF Store, TypeOK
    <2>5. \A c \in CommandIDs : c = s.command => IsComplete(c)' /\ ~IsComplete(c)
      BY <2>2, <2>4 DEF IsComplete
    <2>6. \A c \in CommandIDs : c # s.command => (IsComplete(c)' <=> IsComplete(c))
      BY <2>4 DEF IsComplete
    <2>7. QED
      <3> SUFFICES ASSUME restarts = 0, NEW c \in CommandIDs
                   PROVE  events'[c] = IF IsComplete(c)' THEN 1 ELSE 0
        BY <2>1 DEF EventsCounted
      <3>1. events[c] = IF IsComplete(c) THEN 1 ELSE 0
        BY DEF EventsCounted
      <3>2. CASE c = s.command
        BY <2>4, <2>5, <3>1, <3>2
      <3>3. CASE c # s.command
        BY <2>4, <2>6, <3>1, <3>3
      <3>4. QED
        BY <3>2, <3>3
  <1>5. ASSUME NEW p \in Callers, NEW o \in Outcome, ExecuteSeed(p, o)
        PROVE  EventsCounted'
    BY <1>1, <1>5 DEF ExecuteSeed
  <1>6. ASSUME NEW installed \in SUBSET Seeds, Seed(installed) PROVE EventsCounted'
    BY <1>1, <1>6 DEF Seed
  <1>7. ASSUME NEW g \in GhostIDs, Appear(g) PROVE EventsCounted'
    BY <1>1, <1>7 DEF Appear
  <1>8. CASE Radiate
    BY <1>1, <1>8 DEF Radiate
  <1>9. CASE UNCHANGED vars
    BY <1>1, <1>9 DEF vars
  <1>10. QED
    BY <1>2, <1>3, <1>4, <1>5, <1>6, <1>7, <1>8, <1>9 DEF Next

\* Until a restart, an event has been returned for a command exactly when the
\* store has its execution complete, and never two.
THEOREM EventsBackedByStore == Spec => []EventMeansComplete
  <1>1. Init => EventsCounted
    BY DEF Init, EventsCounted, IsComplete
  <1>2. GInv /\ EventsCounted /\ [Next]_vars => EventsCounted'
    BY NextEvents
  <1>3. EventsCounted => EventMeansComplete
    BY DEF EventsCounted, EventMeansComplete, IsComplete
  <1>4. QED
    BY Invariant, <1>1, <1>2, <1>3, PTL DEF Spec
=============================================================================
