---------------------------- MODULE Dispatch_proofs ----------------------------
(***************************************************************************)
(* Theorems about a Mirage and a Ghost joined by calls that can be lost,   *)
(* for every set of intents, plans, workers and requests and any number of *)
(* losses and crashes.                                                     *)
(***************************************************************************)
EXTENDS Dispatch, FiniteSetTheorems, TLAPS

\* The sides with the theorems about them.
MP == INSTANCE Orchestrator_proofs WITH
  Ghosts <- {TheGhost}, SessionEvents <- FALSE

GP == INSTANCE GhostServer_proofs WITH
  GhostIDs <- {TheGhost}, Callers <- Requests,
  pc <- execPC, state <- execState, events <- returned

USE DEF Ghost!lifecycleVars, Ghost!storeVars, Ghost!callerVars, Ghost!historyVars,
        GP!lifecycleVars, GP!storeVars, GP!callerVars, GP!historyVars,
        Mirage!intentVars, Mirage!workerVars, Mirage!historyVars,
        MP!intentVars, MP!workerVars, MP!historyVars

-----------------------------------------------------------------------------
(***************************************************************************)
(* MP and GP name what Mirage and Ghost name.                              *)
(***************************************************************************)
LEMMA SameGhost ==
  /\ Ghost!Init <=> GP!Init
  /\ Ghost!Next <=> GP!Next
  /\ Ghost!vars = GP!vars
  /\ Ghost!TypeOK <=> GP!TypeOK
  /\ Ghost!Command = GP!Command
  <1> USE DEF Ghost!Execution, GP!Execution, Ghost!Outcome, GP!Outcome,
              Ghost!ExecutionIDs, GP!ExecutionIDs, Ghost!ExecutionID, GP!ExecutionID,
              Ghost!Command, GP!Command, Ghost!vars, GP!vars
  <1>1. Ghost!Init <=> GP!Init
    BY DEF Ghost!Init, GP!Init
  <1>2. Ghost!Next <=> GP!Next
    BY DEF Ghost!Next, GP!Next, Ghost!Appear, GP!Appear, Ghost!Seed, GP!Seed,
           Ghost!Radiate, GP!Radiate, Ghost!Restart, GP!Restart,
           Ghost!HandleCommand, GP!HandleCommand, Ghost!Accepts, GP!Accepts,
           Ghost!Store, GP!Store, Ghost!NewExecutionState, GP!NewExecutionState,
           Ghost!ExecuteSeed, GP!ExecuteSeed, Ghost!Return, GP!Return,
           Ghost!CompleteExecution, GP!CompleteExecution
  <1>3. Ghost!vars = GP!vars
    OBVIOUS
  <1>4. Ghost!TypeOK <=> GP!TypeOK
    BY DEF Ghost!TypeOK, GP!TypeOK
  <1>5. Ghost!Command = GP!Command
    OBVIOUS
  <1>6. QED
    BY <1>1, <1>2, <1>3, <1>4, <1>5

LEMMA SameMirage ==
  /\ Mirage!Init <=> MP!Init
  /\ Mirage!Next <=> MP!Next
  /\ Mirage!vars = MP!vars
  /\ Mirage!TypeOK <=> MP!TypeOK
  <1> USE DEF Mirage!Outcome, MP!Outcome, Mirage!SeedKey, MP!SeedKey, Mirage!Step, MP!Step,
              Mirage!Owner, MP!Owner, Mirage!Job, MP!Job, Mirage!NoReport, MP!NoReport,
              Mirage!Completion, MP!Completion, Mirage!vars, MP!vars
  <1>1. Mirage!Init <=> MP!Init
    BY DEF Mirage!Init, MP!Init
  <1>2. Mirage!Next <=> MP!Next
    <2> USE DEF Mirage!MayCall, MP!MayCall, Mirage!InFlight, MP!InFlight,
                Mirage!Pending, MP!Pending, Mirage!KeyOf, MP!KeyOf,
                Mirage!OwnerOf, MP!OwnerOf, Mirage!JobStep, MP!JobStep,
                Mirage!Finish, MP!Finish
    <2>1. \A i : Mirage!SubmitIssue(i) <=> MP!SubmitIssue(i)
      BY DEF Mirage!SubmitIssue, MP!SubmitIssue
    <2>2. \A g : Mirage!RegisterExecutor(g) <=> MP!RegisterExecutor(g)
      BY DEF Mirage!RegisterExecutor, MP!RegisterExecutor
    <2>3. \A i, c : /\ Mirage!LockAvailable(i, c) <=> MP!LockAvailable(i, c)
                    /\ Mirage!AcquireSeedLock(i, c) <=> MP!AcquireSeedLock(i, c)
                    /\ Mirage!IsNext(i, c) <=> MP!IsNext(i, c)
      BY DEF Mirage!LockAvailable, MP!LockAvailable, Mirage!IsNext, MP!IsNext,
             Mirage!AcquireSeedLock, MP!AcquireSeedLock
    <2>4. \A w, i : Mirage!ReconcileBlocked(w, i) <=> MP!ReconcileBlocked(w, i)
      BY <2>3 DEF Mirage!ReconcileBlocked, MP!ReconcileBlocked
    <2>5. \A w, i : Mirage!ReconcileNoExecutor(w, i) <=> MP!ReconcileNoExecutor(w, i)
      BY <2>3 DEF Mirage!ReconcileNoExecutor, MP!ReconcileNoExecutor
    <2>6. \A w, i : Mirage!ReconcileDispatch(w, i) <=> MP!ReconcileDispatch(w, i)
      BY <2>3 DEF Mirage!ReconcileDispatch, MP!ReconcileDispatch
    <2>7. \A w : /\ Mirage!ExecuteFails(w) <=> MP!ExecuteFails(w)
                 /\ Mirage!ReleaseSeedLock(w) <=> MP!ReleaseSeedLock(w)
      BY DEF Mirage!ExecuteFails, MP!ExecuteFails,
             Mirage!ReleaseSeedLock, MP!ReleaseSeedLock
    <2>8. \A i, plan, c, o : Mirage!Ingest(i, plan, c, o) <=> MP!Ingest(i, plan, c, o)
      <3>1. \A plan, seen, o : Mirage!CompletionAfter(plan, seen, o) = MP!CompletionAfter(plan, seen, o)
        BY DEF Mirage!CompletionAfter, MP!CompletionAfter, Mirage!Cardinality, MP!Cardinality
      <3>2. QED
        BY <3>1, ZenonT(30) DEF Mirage!Ingest, MP!Ingest
    <2>9. \A w, o : Mirage!IngestReply(w, o) <=> MP!IngestReply(w, o)
      BY <2>8 DEF Mirage!IngestReply, MP!IngestReply
    <2>10. \A i, c, o : ~ Mirage!IngestObservedEvent(i, c, o) /\ ~ MP!IngestObservedEvent(i, c, o)
      BY DEF Mirage!IngestObservedEvent, MP!IngestObservedEvent
    <2>11. QED
      BY <2>1, <2>2, <2>4, <2>5, <2>6, <2>7, <2>9, <2>10 DEF Mirage!Next, MP!Next
  <1>3. Mirage!vars = MP!vars
    OBVIOUS
  <1>4. Mirage!TypeOK <=> MP!TypeOK
    BY DEF Mirage!TypeOK, MP!TypeOK
  <1>5. QED
    BY <1>1, <1>2, <1>3, <1>4

\* What the two sides assume holds of the constants they get here.
LEMMA SidesAssumed ==
  /\ MP!PlansAssumption
  /\ MP!EnvironmentAssumption
  /\ MP!NoneAssumption
  /\ GP!GhostAssumption
  /\ GP!NoneIsNoRecord
  BY SidesAssumption
     DEF Mirage!PlansAssumption, MP!PlansAssumption, Mirage!EnvironmentAssumption,
         MP!EnvironmentAssumption, Mirage!NoneAssumption, MP!NoneAssumption,
         Mirage!Step, MP!Step, Mirage!Owner, MP!Owner, Mirage!Job, MP!Job,
         Ghost!GhostAssumption, GP!GhostAssumption, Ghost!NoneIsNoRecord,
         GP!NoneIsNoRecord, Ghost!Execution, GP!Execution, Ghost!Outcome, GP!Outcome

\* There are only so many command ids: those of finitely many intents with
\* finitely many commands each.
LEMMA CommandIDsFinite == IsFiniteSet(CommandIDs) /\ Cardinality(CommandIDs) \in Nat
  <1> DEFINE P == Intents \X (1 .. MaxSteps)
             f == [x \in P |-> <<SanitizeID[x[1]], x[2]>>]
  <1>1. IsFiniteSet(P)
    <2>1. IsFiniteSet(Intents) /\ IsFiniteSet(1 .. MaxSteps)
      BY DispatchAssumption, FS_Interval
    <2>2. QED
      BY <2>1, FS_Product
  <1>2. f \in Surjection(P, CommandIDs)
    <2>1. f \in [P -> CommandIDs]
      BY DEF CommandIDs
    <2>2. \A c \in CommandIDs : \E x \in P : f[x] = c
      <3>1. TAKE c \in CommandIDs
      <3>2. PICK i \in Intents, k \in 1 .. MaxSteps : c = <<SanitizeID[i], k>>
        BY DEF CommandIDs
      <3>3. <<i, k>> \in P /\ f[<<i, k>>] = c
        BY <3>2
      <3>4. QED
        BY <3>3
    <2>3. QED
      BY <2>1, <2>2 DEF Surjection
  <1>3. IsFiniteSet(CommandIDs)
    BY <1>1, <1>2, FS_Surjection
  <1>4. QED
    BY <1>3, FS_CardinalityType

-----------------------------------------------------------------------------
(***************************************************************************)
(* The inductive invariant, and what it says of single requests.           *)
(***************************************************************************)

\* DispatchInv, and that the Ghost's side is in order by itself.
JoinedInv == DispatchInv /\ GP!GInv /\ GP!AtMostOneRunPerLife

Known == {c \in CommandIDs : executionByCmdID[c] # None}

LEMMA RequestType ==
  ASSUME TypeOK, NEW p \in Requests, request[p] # None
  PROVE  /\ request[p] \in Request
         /\ request[p].worker \in Workers \cup {None}
         /\ request[p].command \in CommandIDs
         /\ request[p].seed \in Seeds
         /\ request[p].at \in {"sent", "running", "answered", "failed"}
         /\ request[p].outcome \in {"success", "error", "none"}
  BY DEF TypeOK, Request

\* The next message id is one of those there are, as long as there is a
\* command id that is not known yet.
LEMMA NextMessageID ==
  ASSUME MessageIDsCounted, NEW c \in CommandIDs, executionByCmdID[c] = None
  PROVE  /\ adminSeq \in Nat
         /\ adminSeq + 1 \in MessageIDs
         /\ commandByMessageID[adminSeq + 1] = None
  <1>1. IsFiniteSet(Known) /\ Cardinality(Known) \in Nat
    BY CommandIDsFinite, FS_Subset, FS_CardinalityType DEF Known
  <1>2. Cardinality(Known \cup {c}) = Cardinality(Known) + 1
    BY <1>1, FS_AddElement DEF Known
  <1>3. Cardinality(Known \cup {c}) <= Cardinality(CommandIDs)
    BY CommandIDsFinite, FS_Subset DEF Known
  <1>4. adminSeq = Cardinality(Known)
    BY DEF MessageIDsCounted, Known
  <1>5. adminSeq \in Nat /\ adminSeq + 1 \in MessageIDs
    BY <1>1, <1>2, <1>3, <1>4, CommandIDsFinite DEF MessageIDs
  <1>6. ~ (adminSeq + 1 <= adminSeq)
    BY <1>5
  <1>7. \A m \in MessageIDs : commandByMessageID[m] # None => m <= adminSeq
    BY DEF MessageIDsCounted
  <1>8. QED
    BY <1>5, <1>6, <1>7

-----------------------------------------------------------------------------
(***************************************************************************)
(* What the two ends of a call do to their sides.                          *)
(***************************************************************************)

\* A command that the endpoint accepts is a command the Ghost's boundary
\* knows of, and is known from then on.
LEMMA AcceptEffect ==
  ASSUME JoinedInv, NEW p \in Requests, Accept(p)
  PROVE  /\ CommandOf(p) \in Ghost!Command
         /\ executionByCmdID[request[p].command] = None
         /\ \E s : /\ s # None
                   /\ s.command = request[p].command
                   /\ executionByCmdID' = [executionByCmdID EXCEPT ![request[p].command] = s]
                   /\ execState' = [execState EXCEPT ![p] = s]
         /\ commandByMessageID' = [commandByMessageID EXCEPT ![adminSeq + 1] = request[p].command]
         /\ execPC' = [execPC EXCEPT ![p] = "accepted"]
         /\ UNCHANGED <<phase, ghostID, returned>>
  <1>1. At(p, "sent") /\ Ghost!HandleCommand(p, CommandOf(p)) /\ TypeOK /\ MessageIDsCounted
    BY DEF Accept, JoinedInv, DispatchInv, LinkInv
  <1>2. /\ CommandOf(p).command = request[p].command
        /\ CommandOf(p).message = adminSeq + 1
        /\ CommandOf(p).seed = request[p].seed
        /\ CommandOf(p).ghost = TheGhost
    BY DEF CommandOf
  <1>3. request[p].command \in CommandIDs /\ request[p].seed \in Seeds
    BY <1>1, RequestType DEF At
  <1>4. executionByCmdID[request[p].command] = None
    BY <1>1, <1>2 DEF Ghost!HandleCommand, Ghost!Accepts
  <1>5. adminSeq + 1 \in MessageIDs
    BY <1>1, <1>3, <1>4, NextMessageID
  <1>6. CommandOf(p) \in Ghost!Command
    BY <1>3, <1>5 DEF CommandOf, Ghost!Command
  <1>7. CommandOf(p) \in GP!Command
    BY <1>6, SameGhost
  <1> DEFINE s == Ghost!NewExecutionState(CommandOf(p))
  <1>8. s # None /\ s.command = request[p].command /\ s.message = adminSeq + 1
    <2>1. s = GP!NewExecutionState(CommandOf(p))
      BY DEF Ghost!NewExecutionState, GP!NewExecutionState
    <2>2. QED
      BY <1>2, <1>7, <2>1, GP!NewStateType, SidesAssumed
  <1>9. /\ Ghost!Store(s)
        /\ execPC' = [execPC EXCEPT ![p] = "accepted"]
        /\ execState' = [execState EXCEPT ![p] = s]
        /\ UNCHANGED <<phase, ghostID, returned>>
    BY <1>1 DEF Ghost!HandleCommand
  <1> HIDE DEF s
  <1>10. QED
    BY <1>4, <1>6, <1>8, <1>9 DEF Ghost!Store

\* An execution that comes to its end was known and stays known, under the
\* message id it had, and its event has been returned.
LEMMA AnswerEffect ==
  ASSUME JoinedInv, NEW p \in Requests, Answer(p)
  PROVE  /\ execPC[p] = "executed"
         /\ executionByCmdID[execState[p].command] # None
         /\ \E s : /\ s # None
                   /\ executionByCmdID' = [executionByCmdID EXCEPT ![execState[p].command] = s]
         /\ commandByMessageID' = commandByMessageID
         /\ returned' = [returned EXCEPT ![execState[p].command] = @ + 1]
         /\ execPC' = [execPC EXCEPT ![p] = "idle"]
         /\ execState' = [execState EXCEPT ![p] = None]
         /\ UNCHANGED <<phase, ghostID>>
  <1>1. /\ GP!CompleteExecution(p)
        /\ GP!TypeOK /\ GP!IndexesAgree /\ GP!CallersApart
    BY DEF Answer, JoinedInv, Ghost!CompleteExecution, GP!CompleteExecution, Ghost!Store,
           GP!Store, Ghost!Return, GP!Return, Ghost!ExecutionID, GP!ExecutionID,
           GP!GInv, GP!CallInv
  <1> DEFINE s == GP!Completed(p)
             c == execState[p].command
  <1>2. /\ execPC[p] = "executed"
        /\ GP!Store(s)
        /\ returned' = [returned EXCEPT ![s.command] = @ + 1]
        /\ execPC' = [execPC EXCEPT ![p] = "idle"]
        /\ execState' = [execState EXCEPT ![p] = None]
        /\ UNCHANGED <<phase, ghostID>>
    BY <1>1 DEF GP!CompleteExecution, GP!Return, GP!Completed
  <1>3. /\ s # None
        /\ s.command = c
        /\ commandByMessageID[s.message] = c
    BY <1>1, <1>2, GP!CompletedState, SidesAssumed
  <1>4. commandByMessageID \in [MessageIDs -> CommandIDs \cup {None}]
    BY <1>1 DEF GP!TypeOK
  <1> HIDE DEF s
  <1>5. commandByMessageID' = commandByMessageID
    BY <1>2, <1>3, <1>4 DEF GP!Store
  <1>6. executionByCmdID[c] # None
    BY <1>1, <1>2 DEF GP!CallersApart
  <1>7. QED
    BY <1>2, <1>3, <1>5, <1>6 DEF GP!Store

-----------------------------------------------------------------------------
(***************************************************************************)
(* Every step is a step of each side, or leaves the side as it is.         *)
(***************************************************************************)
LEMMA GhostStep ==
  ASSUME JoinedInv, [Next]_vars
  PROVE  [Ghost!Next]_(Ghost!vars)
  <1> USE DEF ghostVars, Ghost!vars
  <1>1. ASSUME MirageAlone \/ UNCHANGED vars PROVE UNCHANGED ghostVars
    BY <1>1 DEF MirageAlone, vars
  <1>2. ASSUME Bootstrap PROVE Ghost!Next
    <2>1. CASE Ghost!Appear(TheGhost)
      BY <2>1 DEF Ghost!Next
    <2>2. CASE Ghost!Seed(Seeds)
      BY <2>2 DEF Ghost!Next
    <2>3. CASE Ghost!Radiate
      BY <2>3 DEF Ghost!Next
    <2>4. QED
      BY <1>2, <2>1, <2>2, <2>3 DEF Bootstrap
  <1>3. ASSUME GhostDies PROVE Ghost!Next
    BY <1>3 DEF GhostDies, Ghost!Next
  <1>4. ASSUME NEW w \in Workers, NEW i \in Intents, Call(w, i) PROVE UNCHANGED ghostVars
    BY <1>4 DEF Call
  <1>5. ASSUME NEW w \in Workers, NEW p \in Requests,
               TakeReply(w, p) \/ TakeError(w, p) \/ CallRefused(w, p) \/ CallLost(w, p)
        PROVE  UNCHANGED ghostVars
    BY <1>5 DEF TakeReply, TakeError, CallRefused, CallLost
  <1>6. ASSUME NEW p \in Requests, Accept(p) PROVE Ghost!Next
    <2>1. Ghost!HandleCommand(p, CommandOf(p)) /\ CommandOf(p) \in Ghost!Command
      BY <1>6, AcceptEffect DEF Accept
    <2>2. QED
      BY <2>1 DEF Ghost!Next
  <1>7. ASSUME NEW p \in Requests, Refuse(p) PROVE UNCHANGED ghostVars
    BY <1>7 DEF Refuse
  <1>8. ASSUME NEW p \in Requests, RunSeed(p) PROVE Ghost!Next
    BY <1>8 DEF RunSeed, Ghost!Next, Ghost!Outcome
  <1>9. ASSUME NEW p \in Requests, Answer(p) PROVE Ghost!Next
    BY <1>9 DEF Answer, Ghost!Next
  <1>10. QED
    BY <1>1, <1>2, <1>3, <1>4, <1>5, <1>6, <1>7, <1>8, <1>9 DEF Next

LEMMA MirageStep ==
  ASSUME JoinedInv, [Next]_vars
  PROVE  [Mirage!Next]_(Mirage!vars)
  <1> USE DEF mirageVars, Mirage!vars
  <1>1. ASSUME MirageAlone PROVE Mirage!Next
    BY <1>1 DEF MirageAlone, Mirage!Next
  <1>2. ASSUME Bootstrap \/ GhostDies \/ UNCHANGED vars PROVE UNCHANGED mirageVars
    BY <1>2 DEF Bootstrap, GhostDies, vars
  <1>3. ASSUME NEW w \in Workers, NEW i \in Intents, Call(w, i) PROVE Mirage!Next
    BY <1>3 DEF Call, Mirage!Next
  <1>4. ASSUME NEW w \in Workers, NEW p \in Requests, TakeReply(w, p) PROVE Mirage!Next
    <2>1. request[p].outcome \in Mirage!Outcome
      BY <1>4, RequestType
         DEF TakeReply, At, JoinedInv, DispatchInv, LinkInv, AnswersReal, Mirage!Outcome
    <2>2. QED
      BY <1>4, <2>1 DEF TakeReply, Mirage!Next
  <1>5. ASSUME NEW w \in Workers, NEW p \in Requests,
               TakeError(w, p) \/ CallRefused(w, p) \/ CallLost(w, p)
        PROVE  Mirage!Next
    BY <1>5 DEF TakeError, CallRefused, CallLost, Mirage!Next
  <1>6. ASSUME NEW p \in Requests, Accept(p) \/ Refuse(p) \/ RunSeed(p) \/ Answer(p)
        PROVE  UNCHANGED mirageVars
    BY <1>6 DEF Accept, Refuse, RunSeed, Answer
  <1>7. QED
    BY <1>1, <1>2, <1>3, <1>4, <1>5, <1>6 DEF Next

-----------------------------------------------------------------------------
(***************************************************************************)
(* Type correctness.                                                       *)
(***************************************************************************)

\* Before a command is dispatched it is a command of the intent's plan.
LEMMA CallEffect ==
  ASSUME DispatchInv, NEW w \in Workers, NEW i \in Intents, Call(w, i)
  PROVE  \E p \in Requests, c \in 1 .. MaxSteps :
           /\ request[p] = None
           /\ pc[w] = "idle"
           /\ desired[i] # << >>
           /\ pc' = [pc EXCEPT ![w] = "executing"]
           /\ job' = [job EXCEPT ![w] = [intent |-> i, issue |-> issued[i],
                                         plan |-> desired[i], command |-> c]]
           /\ desired[i][c] \in Mirage!Step
           /\ request' = [request EXCEPT ![p] =
                            [worker |-> w, command |-> Mirage!CommandID(i, c),
                             seed |-> desired[i][c].seed,
                             at |-> "sent", outcome |-> "none"]]
  <1>1. PICK p \in Requests :
          /\ request[p] = None
          /\ Mirage!ReconcileDispatch(w, i)
          /\ LET j == job'[w] IN
             request' = [request EXCEPT ![p] =
                           [worker |-> w, command |-> Mirage!CommandID(i, j.command),
                            seed |-> j.plan[j.command].seed,
                            at |-> "sent", outcome |-> "none"]]
    BY DEF Call
  <1>2. PICK c \in Mirage!Pending(i) :
          job' = [job EXCEPT ![w] = [intent |-> i, issue |-> issued[i],
                                     plan |-> desired[i], command |-> c]]
    BY <1>1 DEF Mirage!ReconcileDispatch
  <1>3. pc[w] = "idle" /\ pc' = [pc EXCEPT ![w] = "executing"]
    BY <1>1 DEF Mirage!ReconcileDispatch
  <1>4. /\ desired[i] \in Seq(Mirage!Step)
        /\ job \in [Workers -> Mirage!Job \cup {None}]
        /\ Len(desired[i]) <= MaxSteps
    BY DEF DispatchInv, TypeOK, Mirage!TypeOK, LinkInv, PlansBounded
  <1>5. c \in DOMAIN desired[i]
    BY <1>2 DEF Mirage!Pending
  <1>6. c \in 1 .. MaxSteps /\ desired[i][c] \in Mirage!Step /\ desired[i] # << >>
    BY <1>4, <1>5, DispatchAssumption
  <1>7. job'[w] = [intent |-> i, issue |-> issued[i], plan |-> desired[i], command |-> c]
    BY <1>2, <1>4
  <1>8. request' = [request EXCEPT ![p] =
                      [worker |-> w, command |-> Mirage!CommandID(i, c),
                       seed |-> desired[i][c].seed, at |-> "sent", outcome |-> "none"]]
    BY <1>1, <1>7
  <1>9. QED
    BY <1>1, <1>2, <1>3, <1>6, <1>8

\* The calls, whatever the two sides do.
CallsTypeOK ==
  /\ request \in [Requests -> Request \cup {None}]
  /\ adminMu \in Requests \cup {None}
  /\ adminSeq \in Nat
  /\ losses \in 0 .. MaxLosses
  /\ \A p \in Requests :
       request[p] # None /\ request[p].at = "running" <=> adminMu = p

LEMMA CallsType ==
  ASSUME JoinedInv, [Next]_vars
  PROVE  CallsTypeOK'
  <1>0. /\ CallsTypeOK /\ TypeOK /\ DispatchInv
        /\ GoroutinesMatched
        /\ None \notin Requests
        /\ None \notin Request
        /\ MaxLosses \in Nat
    BY DispatchAssumption, SidesAssumption
       DEF JoinedInv, DispatchInv, TypeOK, CallsTypeOK, LinkInv
  <1>1. ASSUME MirageAlone \/ Bootstrap \/ UNCHANGED vars PROVE CallsTypeOK'
    BY <1>0, <1>1 DEF CallsTypeOK, MirageAlone, Bootstrap, vars, adminVars
  <1>2. ASSUME GhostDies PROVE CallsTypeOK'
    BY <1>0, <1>2 DEF CallsTypeOK, GhostDies, Request
  <1>3. ASSUME NEW w \in Workers, NEW i \in Intents, Call(w, i) PROVE CallsTypeOK'
    <2>1. PICK p \in Requests, c \in 1 .. MaxSteps :
            /\ request[p] = None
            /\ desired[i][c] \in Mirage!Step
            /\ request' = [request EXCEPT ![p] =
                             [worker |-> w, command |-> Mirage!CommandID(i, c),
                              seed |-> desired[i][c].seed,
                              at |-> "sent", outcome |-> "none"]]
      BY <1>0, <1>3, CallEffect
    <2> DEFINE r == [worker |-> w, command |-> Mirage!CommandID(i, c),
                     seed |-> desired[i][c].seed, at |-> "sent", outcome |-> "none"]
    <2>2. Mirage!CommandID(i, c) \in CommandIDs
      BY DEF Mirage!CommandID, CommandIDs
    <2>3. r \in Request /\ r.at = "sent"
      BY <2>1, <2>2 DEF Request, Mirage!Step
    <2>4. UNCHANGED <<adminMu, adminSeq, losses>> /\ request' = [request EXCEPT ![p] = r]
      BY <1>3, <2>1 DEF Call
    <2> HIDE DEF r
    <2>5. QED
      BY <1>0, <2>1, <2>3, <2>4 DEF CallsTypeOK
  <1>4. ASSUME NEW w \in Workers, NEW p \in Requests,
               TakeReply(w, p) \/ TakeError(w, p) \/ CallRefused(w, p)
        PROVE  CallsTypeOK'
    BY <1>0, <1>4 DEF CallsTypeOK, TakeReply, TakeError, CallRefused, At
  <1>5. ASSUME NEW w \in Workers, NEW p \in Requests, CallLost(w, p) PROVE CallsTypeOK'
    <2>1. /\ losses < MaxLosses /\ losses' = losses + 1
          /\ UNCHANGED <<adminMu, adminSeq>>
          /\ request[p] \in Request
      BY <1>0, <1>5, RequestType DEF CallLost
    <2>2. CASE request[p].at \in {"answered", "failed"}
      <3>1. request' = [request EXCEPT ![p] = None]
        BY <1>5, <2>2 DEF CallLost
      <3>2. QED
        BY <1>0, <2>1, <2>2, <3>1 DEF CallsTypeOK
    <2>3. CASE request[p].at \notin {"answered", "failed"}
      <3> DEFINE r == [request[p] EXCEPT !.worker = None]
      <3>1. request' = [request EXCEPT ![p] = r]
        BY <1>5, <2>3 DEF CallLost
      <3>2. r \in Request /\ r.at = request[p].at
        BY <2>1 DEF Request
      <3> HIDE DEF r
      <3>3. QED
        BY <1>0, <2>1, <3>1, <3>2 DEF CallsTypeOK
    <2>4. QED
      BY <2>2, <2>3
  <1>6. ASSUME NEW p \in Requests, Accept(p) PROVE CallsTypeOK'
    BY <1>0, <1>6 DEF CallsTypeOK, Accept, At, Request
  <1>7. ASSUME NEW p \in Requests, Refuse(p) PROVE CallsTypeOK'
    <2>1. /\ request[p] \in Request /\ request[p].at = "sent"
          /\ UNCHANGED <<adminMu, adminSeq, losses>>
          /\ Respond(p, "failed", "none")
      BY <1>0, <1>7 DEF CallsTypeOK, Refuse, At
    <2>2. PICK r \in Request \cup {None} :
            request' = [request EXCEPT ![p] = r] /\ (r # None => r.at = "failed")
      <3>1. request'  = [request EXCEPT ![p] =
                           IF request[p].worker = None THEN None
                           ELSE [request[p] EXCEPT !.at = "failed", !.outcome = "none"]]
        BY <2>1 DEF Respond
      <3>2. LET r == [request[p] EXCEPT !.at = "failed", !.outcome = "none"]
            IN  r \in Request /\ r.at = "failed"
        BY <2>1 DEF Request
      <3>3. QED
        BY <3>1, <3>2
    <2>3. QED
      BY <1>0, <2>1, <2>2 DEF CallsTypeOK
  <1>8. ASSUME NEW p \in Requests, RunSeed(p) PROVE CallsTypeOK'
    BY <1>0, <1>8 DEF CallsTypeOK, RunSeed, adminVars
  <1>9. ASSUME NEW p \in Requests, Answer(p) PROVE CallsTypeOK'
    <2>1. execPC[p] = "executed"
      BY <1>9, AnswerEffect
    <2>2. adminMu = p
      BY <1>0, <2>1 DEF GoroutinesMatched, CallsTypeOK, At
    <2>3. execState[p].outcome \in {"success", "error", "none"}
      BY <1>0, <2>1
         DEF TypeOK, Ghost!TypeOK, Ghost!Execution, Ghost!Outcome
    <2>4. /\ request[p] \in Request /\ adminMu' = None /\ UNCHANGED <<adminSeq, losses>>
          /\ Respond(p, "answered", execState[p].outcome)
      BY <1>0, <1>9, <2>2 DEF CallsTypeOK, Answer
    <2>5. PICK r \in Request \cup {None} :
            request' = [request EXCEPT ![p] = r] /\ (r # None => r.at = "answered")
      <3>1. request'  = [request EXCEPT ![p] =
                           IF request[p].worker = None THEN None
                           ELSE [request[p] EXCEPT !.at = "answered",
                                                   !.outcome = execState[p].outcome]]
        BY <2>4 DEF Respond
      <3>2. LET r == [request[p] EXCEPT !.at = "answered", !.outcome = execState[p].outcome]
            IN  r \in Request /\ r.at = "answered"
        BY <2>3, <2>4 DEF Request
      <3>3. QED
        BY <3>1, <3>2
    <2>6. QED
      BY <1>0, <2>2, <2>4, <2>5 DEF CallsTypeOK
  <1>10. QED
    BY <1>1, <1>2, <1>3, <1>4, <1>5, <1>6, <1>7, <1>8, <1>9 DEF Next

LEMMA TypeNext ==
  ASSUME JoinedInv, [Next]_vars
  PROVE  TypeOK' /\ GP!GInv' /\ GP!AtMostOneRunPerLife'
  <1>1. MP!TypeOK /\ [MP!Next]_(MP!vars)
    BY MirageStep, SameMirage DEF JoinedInv, DispatchInv, TypeOK, Mirage!vars, MP!vars
  <1>2. MP!TypeOK'
    BY <1>1, MP!NextType, SidesAssumed
  <1>3. Mirage!TypeOK'
    BY <1>2, SameMirage, PTL
  <1>4. GP!GInv /\ GP!AtMostOneRunPerLife /\ [GP!Next]_(GP!vars)
    BY GhostStep, SameGhost DEF JoinedInv, Ghost!vars, GP!vars
  <1>5. GP!GInv' /\ GP!AtMostOneRunPerLife'
    BY <1>4, GP!NextType, GP!NextIndexes, GP!NextSeeded, GP!NextApart, GP!NextRuns,
       SidesAssumed DEF GP!GInv, GP!CallInv
  <1>6. Ghost!TypeOK'
    <2>1. GP!TypeOK'
      BY <1>5 DEF GP!GInv
    <2>2. QED
      BY <2>1, SameGhost, PTL
  <1>7. QED
    BY <1>3, <1>5, <1>6, CallsType DEF TypeOK, CallsTypeOK

-----------------------------------------------------------------------------
(***************************************************************************)
(* Who waits for whom.                                                     *)
(***************************************************************************)

\* Mirage alone leaves the waiting workers where they are.
LEMMA AloneKeepsWaiters ==
  ASSUME TypeOK, MirageAlone, NEW w \in Workers, pc[w] = "executing"
  PROVE  pc'[w] = "executing" /\ job'[w] = job[w]
  <1>1. pc \in [Workers -> {"idle", "executing", "releasing"}]
    BY DEF TypeOK, Mirage!TypeOK
  <1>2. job \in [Workers -> Mirage!Job \cup {None}]
    BY DEF TypeOK, Mirage!TypeOK
  <1>3. ASSUME NEW v \in Workers, Mirage!ReleaseSeedLock(v)
        PROVE  pc'[w] = "executing" /\ job'[w] = job[w]
    BY <1>1, <1>2, <1>3 DEF Mirage!ReleaseSeedLock, Mirage!Finish
  <1>4. ASSUME \/ \E i \in Intents : Mirage!SubmitIssue(i)
               \/ Mirage!RegisterExecutor(TheGhost)
               \/ \E v \in Workers, i \in Intents : Mirage!ReconcileBlocked(v, i)
               \/ \E v \in Workers, i \in Intents : Mirage!ReconcileNoExecutor(v, i)
        PROVE  UNCHANGED <<pc, job>>
    BY <1>4 DEF Mirage!SubmitIssue, Mirage!RegisterExecutor, Mirage!ReconcileBlocked,
                Mirage!ReconcileNoExecutor
  <1>5. QED
    BY <1>3, <1>4 DEF MirageAlone

\* Only Call gives a request somebody to wait for it.
Waiting(p) == request[p] # None /\ request[p].worker # None

LEMMA WaitersComeByCall ==
  ASSUME JoinedInv, [Next]_vars, ~ \E w \in Workers, i \in Intents : Call(w, i),
         NEW p \in Requests, Waiting(p)'
  PROVE  /\ Waiting(p)
         /\ request'[p].worker = request[p].worker
         /\ request'[p].command = request[p].command
  <1> USE DEF Waiting
  <1>0. /\ request \in [Requests -> Request \cup {None}] /\ None \notin Request
        /\ GoroutinesMatched
    BY SidesAssumption DEF JoinedInv, DispatchInv, LinkInv, TypeOK
  <1>1. CASE MirageAlone \/ Bootstrap \/ UNCHANGED vars
    BY <1>0, <1>1 DEF MirageAlone, Bootstrap, vars, adminVars
  <1>2. CASE GhostDies
    BY <1>0, <1>2 DEF GhostDies, Request
  <1>3. ASSUME NEW w \in Workers, NEW q \in Requests,
               TakeReply(w, q) \/ TakeError(w, q) \/ CallRefused(w, q)
        PROVE  Waiting(p) /\ request'[p] = request[p]
    BY <1>0, <1>3 DEF TakeReply, TakeError, CallRefused
  <1>4. ASSUME NEW w \in Workers, NEW q \in Requests, CallLost(w, q)
        PROVE  Waiting(p) /\ request'[p] = request[p]
    BY <1>0, <1>4 DEF CallLost, Request
  <1>5. ASSUME NEW q \in Requests, Accept(q)
        PROVE  /\ Waiting(p)
               /\ request'[p].worker = request[p].worker
               /\ request'[p].command = request[p].command
    BY <1>0, <1>5 DEF Accept, At, Request
  <1>6. ASSUME NEW q \in Requests, Refuse(q) \/ Answer(q)
        PROVE  /\ Waiting(p)
               /\ request'[p].worker = request[p].worker
               /\ request'[p].command = request[p].command
    <2>1. PICK where, outcome : Respond(q, where, outcome)
      BY <1>6 DEF Refuse, Answer
    <2>2. request[q] # None
      <3>1. CASE Refuse(q)
        BY <3>1 DEF Refuse, At
      <3>2. CASE Answer(q)
        BY <1>0, <3>2, AnswerEffect DEF GoroutinesMatched, At
      <3>3. QED
        BY <1>6, <3>1, <3>2
    <2>3. request[q] \in Request
      BY <1>0, <2>2
    <2>4. CASE p # q
      BY <1>0, <2>1, <2>4 DEF Respond
    <2>5. CASE p = q
      <3>1. request'[p] = IF request[p].worker = None THEN None
                          ELSE [request[p] EXCEPT !.at = where, !.outcome = outcome]
        BY <1>0, <2>1, <2>5 DEF Respond
      <3>2. QED
        BY <2>2, <2>3, <2>5, <3>1 DEF Request
    <2>6. QED
      BY <2>4, <2>5
  <1>7. ASSUME NEW q \in Requests, RunSeed(q)
        PROVE  Waiting(p) /\ request'[p] = request[p]
    BY <1>0, <1>7 DEF RunSeed, adminVars
  <1>8. QED
    BY <1>1, <1>2, <1>3, <1>4, <1>5, <1>6, <1>7 DEF Next

\* What WaitersMatched says of one request.
Matched(p) ==
  LET w == request[p].worker IN
  /\ pc[w] = "executing"
  /\ request[p].command = Mirage!CommandID(job[w].intent, job[w].command)

LEMMA WaitersNext ==
  ASSUME JoinedInv, [Next]_vars
  PROVE  WaitersMatched'
  <1>0. /\ TypeOK /\ WaitersMatched /\ DispatchInv
        /\ request \in [Requests -> Request \cup {None}]
        /\ pc \in [Workers -> {"idle", "executing", "releasing"}]
        /\ job \in [Workers -> Mirage!Job \cup {None}]
        /\ None \notin Request
        /\ None \notin Workers
    BY DispatchAssumption, SidesAssumption
       DEF JoinedInv, DispatchInv, LinkInv, TypeOK, Mirage!TypeOK
  <1>1. ASSUME NEW w \in Workers, NEW i \in Intents, Call(w, i) PROVE WaitersMatched'
    <2>1. PICK p \in Requests, c \in 1 .. MaxSteps :
            /\ request[p] = None
            /\ pc[w] = "idle"
            /\ pc' = [pc EXCEPT ![w] = "executing"]
            /\ job' = [job EXCEPT ![w] = [intent |-> i, issue |-> issued[i],
                                          plan |-> desired[i], command |-> c]]
            /\ request' = [request EXCEPT ![p] =
                             [worker |-> w, command |-> Mirage!CommandID(i, c),
                              seed |-> desired[i][c].seed,
                              at |-> "sent", outcome |-> "none"]]
      BY <1>0, <1>1, CallEffect
    <2>2. /\ request'[p].worker = w /\ request'[p].command = Mirage!CommandID(i, c)
          /\ pc'[w] = "executing" /\ job'[w].intent = i /\ job'[w].command = c
      BY <1>0, <2>1
    <2>3. ASSUME NEW q \in Requests, q # p, request'[q] # None, request'[q].worker # None
          PROVE  /\ request'[q] = request[q]
                 /\ request[q].worker \in Workers
                 /\ request[q].worker # w
                 /\ Matched(q)
      <3>1. request'[q] = request[q] /\ request[q] # None
        BY <1>0, <2>1, <2>3
      <3>2. request[q].worker \in Workers
        BY <1>0, <2>3, <3>1 DEF Request
      <3>3. Matched(q)
        BY <1>0, <2>3, <3>1 DEF WaitersMatched, Matched
      <3>4. QED
        BY <2>1, <3>1, <3>2, <3>3 DEF Matched
    <2>4. ASSUME NEW q \in Requests, q # p, request'[q] # None, request'[q].worker # None
          PROVE  Matched(q)'
      <3>1. Matched(q) /\ request'[q] = request[q] /\ request[q].worker \in Workers \ {w}
        BY <2>3, <2>4
      <3>2. pc'[request[q].worker] = pc[request[q].worker] /\ job'[request[q].worker] = job[request[q].worker]
        BY <1>0, <2>1, <3>1
      <3>3. QED
        BY <3>1, <3>2 DEF Matched, Mirage!CommandID
    <2>5. Matched(p)'
      BY <2>2 DEF Matched, Mirage!CommandID
    <2>6. ASSUME NEW q \in Requests, NEW r \in Requests,
                 request'[q] # None, request'[q].worker # None,
                 request'[r] # None, request'[r].worker = request'[q].worker
          PROVE  r = q
      <3>1. CASE q = p
        BY <2>2, <2>3, <2>6, <3>1
      <3>2. CASE q # p /\ r = p
        BY <2>2, <2>3, <2>6, <3>2
      <3>3. CASE q # p /\ r # p
        BY <1>0, <2>3, <2>6, <3>3 DEF WaitersMatched
      <3>4. QED
        BY <3>1, <3>2, <3>3
    <2>7. QED
      BY <2>4, <2>5, <2>6 DEF WaitersMatched, Matched
  <1>2. ASSUME ~ \E w \in Workers, i \in Intents : Call(w, i) PROVE WaitersMatched'
    <2>1. ASSUME NEW p \in Requests, Waiting(p)'
          PROVE  /\ Waiting(p)
                 /\ request'[p].worker = request[p].worker
                 /\ request'[p].command = request[p].command
      BY <1>0, <1>2, <2>1, WaitersComeByCall
    <2>2. ASSUME NEW p \in Requests, NEW q \in Requests, Waiting(p)', request'[q] # None,
                 request'[q].worker = request'[p].worker
          PROVE  q = p
      <3>1. Waiting(q)'
        BY <2>2 DEF Waiting
      <3>2. /\ Waiting(p) /\ Waiting(q)
            /\ request[q].worker = request[p].worker
        BY <2>1, <2>2, <3>1
      <3>3. QED
        BY <1>0, <3>2 DEF WaitersMatched, Waiting
    <2>3. ASSUME NEW p \in Requests, Waiting(p)'
          PROVE  /\ pc'[request[p].worker] = "executing"
                 /\ job'[request[p].worker] = job[request[p].worker]
      <3>0. Waiting(p) /\ request'[p].worker = request[p].worker
        BY <2>1, <2>3 DEF Waiting
      <3>1. PICK v \in Workers : v = request[p].worker
        BY <1>0, <3>0, RequestType DEF Waiting
      <3>2. /\ pc[v] = "executing"
            /\ \A q \in Requests : request[q] # None /\ request[q].worker = v => q = p
        BY <1>0, <3>0, <3>1 DEF WaitersMatched, Waiting
      <3>3. ASSUME MirageAlone PROVE pc'[v] = "executing" /\ job'[v] = job[v]
        BY <1>0, <3>2, <3>3, AloneKeepsWaiters
      <3>4. ASSUME UNCHANGED <<pc, job>> PROVE pc'[v] = "executing" /\ job'[v] = job[v]
        BY <3>2, <3>4
      <3>5. ASSUME NEW w \in Workers, NEW q \in Requests,
                   TakeReply(w, q) \/ TakeError(w, q) \/ CallRefused(w, q) \/ CallLost(w, q)
            PROVE  pc'[v] = "executing" /\ job'[v] = job[v]
        <4>1. /\ request[q] # None /\ request[q].worker = w
              /\ request'[q] = None \/ request'[q].worker = None
          BY <1>0, <3>5 DEF TakeReply, TakeError, CallRefused, CallLost, At, Request
        <4>2. q # p
          BY <2>3, <4>1 DEF Waiting
        <4>3. v # w
          BY <3>2, <4>1, <4>2
        <4>4. /\ pc' = [pc EXCEPT ![w] = "idle"] \/ pc' = [pc EXCEPT ![w] = "releasing"]
              /\ job' = job \/ job' = [job EXCEPT ![w] = None]
          BY <3>5 DEF TakeReply, TakeError, CallRefused, CallLost, Mirage!IngestReply,
                      Mirage!ExecuteFails, Mirage!Finish
        <4>5. QED
          BY <1>0, <3>2, <4>3, <4>4
      <3>6. Bootstrap \/ GhostDies \/ UNCHANGED vars => UNCHANGED <<pc, job>>
        BY DEF Bootstrap, GhostDies, vars, mirageVars
      <3>7. \A q \in Requests : Accept(q) \/ Refuse(q) \/ RunSeed(q) \/ Answer(q) => UNCHANGED <<pc, job>>
        BY DEF Accept, Refuse, RunSeed, Answer, mirageVars
      <3>8. pc'[v] = "executing" /\ job'[v] = job[v]
        BY <1>2, <3>3, <3>4, <3>5, <3>6, <3>7 DEF Next
      <3>9. QED
        BY <3>1, <3>8
    <2>4. QED
      BY <1>0, <2>1, <2>2, <2>3 DEF WaitersMatched, Waiting, Mirage!CommandID
  <1>3. QED
    BY <1>1, <1>2

\* Mirage's end of a call lets go of it: the request is gone, or stays at
\* the Ghost with nobody to wait for it, because the call was lost.
LEMMA EndEffect ==
  ASSUME TypeOK, NEW w \in Workers, NEW p \in Requests,
         TakeReply(w, p) \/ TakeError(w, p) \/ CallRefused(w, p) \/ CallLost(w, p)
  PROVE  /\ request[p] # None /\ request[p].worker = w
         /\ \/ request[p].at # "running" /\ request' = [request EXCEPT ![p] = None]
            \/ losses' > 0 /\ \E r \in Request :
                 /\ request' = [request EXCEPT ![p] = r]
                 /\ r.worker = None
                 /\ r.command = request[p].command
                 /\ r.at = request[p].at
                 /\ r.at \notin {"answered", "failed"}
         /\ losses' >= losses
         /\ UNCHANGED ghostVars
  <1>0. request[p] # None /\ request[p].worker = w
    BY DEF TakeReply, TakeError, CallRefused, CallLost, At
  <1>1. /\ request[p] \in Request
        /\ request[p].at \in {"sent", "running", "answered", "failed"}
        /\ losses \in Nat
        /\ None \notin Request
    BY <1>0, RequestType, SidesAssumption DEF TypeOK
  <1>2. ASSUME TakeReply(w, p) \/ TakeError(w, p) \/ CallRefused(w, p)
        PROVE  /\ request' = [request EXCEPT ![p] = None]
               /\ request[p].at # "running"
               /\ UNCHANGED <<ghostVars, losses>>
    BY <1>2 DEF TakeReply, TakeError, CallRefused, At
  <1>3. CASE TakeReply(w, p) \/ TakeError(w, p) \/ CallRefused(w, p)
    <2>1. losses' >= losses
      BY <1>1, <1>2, <1>3
    <2>2. QED
      BY <1>0, <1>2, <1>3, <2>1
  <1>4. CASE CallLost(w, p)
    <2>1. losses' = losses + 1 /\ UNCHANGED ghostVars
      BY <1>4 DEF CallLost
    <2>2. CASE request[p].at \in {"answered", "failed"}
      <3>1. request' = [request EXCEPT ![p] = None]
        BY <1>4, <2>2 DEF CallLost
      <3>2. request[p].at # "running" /\ losses' >= losses
        BY <1>1, <2>1, <2>2
      <3>3. QED
        BY <1>0, <2>1, <3>1, <3>2
    <2>3. CASE request[p].at \notin {"answered", "failed"}
      <3> DEFINE r == [request[p] EXCEPT !.worker = None]
      <3>1. request' = [request EXCEPT ![p] = r]
        BY <1>4, <2>3 DEF CallLost
      <3>2. /\ r \in Request /\ r.worker = None
            /\ r.command = request[p].command /\ r.at = request[p].at
        BY <1>1 DEF Request
      <3> HIDE DEF r
      <3>3. losses' > 0 /\ losses' >= losses
        BY <1>1, <2>1
      <3>4. QED
        BY <1>0, <2>1, <2>3, <3>1, <3>2, <3>3
    <2>4. QED
      BY <2>2, <2>3
  <1>5. QED
    BY <1>3, <1>4

\* The goroutine's end of a call: the request moves on, or is gone if nobody
\* waits for it.
LEMMA RespondEffect ==
  ASSUME TypeOK, NEW p \in Requests, request[p] # None,
         NEW where \in {"answered", "failed"},
         NEW outcome \in {"success", "error", "none"}, Respond(p, where, outcome)
  PROVE  \E r : /\ request' = [request EXCEPT ![p] = r]
                /\ r = None <=> request[p].worker = None
                /\ r # None => /\ r.worker = request[p].worker
                              /\ r.command = request[p].command
                              /\ r.at = where
                              /\ r.outcome = outcome
  <1>1. request[p] \in Request /\ None \notin Request
    BY RequestType, SidesAssumption
  <1>2. CASE request[p].worker = None
    <2>1. request' = [request EXCEPT ![p] = None]
      BY <1>2 DEF Respond
    <2>2. QED
      BY <1>2, <2>1
  <1>3. CASE request[p].worker # None
    <2> DEFINE r == [request[p] EXCEPT !.at = where, !.outcome = outcome]
    <2>1. request' = [request EXCEPT ![p] = r]
      BY <1>3 DEF Respond
    <2>2. /\ r.worker = request[p].worker /\ r.command = request[p].command
          /\ r.at = where /\ r.outcome = outcome
      BY <1>1 DEF Request
    <2>3. r # None
      BY <1>1 DEF Request
    <2> HIDE DEF r
    <2>4. QED
      BY <1>3, <2>1, <2>2, <2>3
  <1>4. QED
    BY <1>2, <1>3

-----------------------------------------------------------------------------
(***************************************************************************)
(* What the Ghost's goroutines do, and the answers they write.             *)
(***************************************************************************)

\* The parts of GoroutinesMatched and AnswersReal about one request.
GoroutineOf(p) ==
  /\ execPC[p] # "idle" <=> At(p, "running")
  /\ execPC[p] # "idle" => execState[p].command = request[p].command
  /\ execPC[p] = "executed" => execState[p].outcome # "none"

AnswerOf(p) ==
  At(p, "answered") =>
    /\ request[p].worker # None
    /\ request[p].outcome # "none"
    /\ returned[request[p].command] > 0

LEMMA GoroutinesNext ==
  ASSUME JoinedInv, [Next]_vars
  PROVE  GoroutinesMatched' /\ AnswersReal'
  <1>0. /\ TypeOK /\ DispatchInv
        /\ \A p \in Requests : GoroutineOf(p) /\ AnswerOf(p)
        /\ request \in [Requests -> Request \cup {None}]
        /\ execPC \in [Requests -> {"idle", "accepted", "executed"}]
        /\ execState \in [Requests -> Ghost!Execution \cup {None}]
        /\ returned \in [CommandIDs -> Nat]
        /\ None \notin Request
    BY SidesAssumption
       DEF JoinedInv, DispatchInv, LinkInv, TypeOK, Ghost!TypeOK, GoroutinesMatched,
           GoroutineOf, AnswersReal, AnswerOf
  <1> SUFFICES ASSUME NEW q \in Requests PROVE GoroutineOf(q)' /\ AnswerOf(q)'
    BY DEF GoroutinesMatched, GoroutineOf, AnswersReal, AnswerOf
  <1>1. ASSUME UNCHANGED <<execPC, execState, returned>>, request'[q] = request[q]
        PROVE  GoroutineOf(q)' /\ AnswerOf(q)'
    BY <1>0, <1>1 DEF GoroutineOf, AnswerOf, At
  <1>2. CASE MirageAlone \/ UNCHANGED vars
    BY <1>1, <1>2 DEF MirageAlone, vars, ghostVars, adminVars
  <1>3. CASE Bootstrap
    BY <1>1, <1>3 DEF Bootstrap, adminVars, Ghost!Appear, Ghost!Seed, Ghost!Radiate
  <1>4. CASE GhostDies
    <2>1. execPC'[q] = "idle" /\ returned' = returned
      BY <1>4 DEF GhostDies, Ghost!Restart
    <2>2. ~ At(q, "running")'
      BY <1>0, <1>4 DEF GhostDies, At, Request
    <2>3. At(q, "answered")' => At(q, "answered") /\ request'[q] = request[q]
      BY <1>0, <1>4 DEF GhostDies, At, Request
    <2>4. QED
      BY <1>0, <2>1, <2>2, <2>3 DEF GoroutineOf, AnswerOf
  <1>5. ASSUME NEW w \in Workers, NEW i \in Intents, Call(w, i)
        PROVE  GoroutineOf(q)' /\ AnswerOf(q)'
    <2>1. PICK p \in Requests, c \in 1 .. MaxSteps :
            /\ request[p] = None
            /\ request' = [request EXCEPT ![p] =
                             [worker |-> w, command |-> Mirage!CommandID(i, c),
                              seed |-> desired[i][c].seed,
                              at |-> "sent", outcome |-> "none"]]
      BY <1>0, <1>5, CallEffect
    <2>2. UNCHANGED <<execPC, execState, returned>>
      BY <1>5 DEF Call, ghostVars
    <2>3. CASE q = p
      <3>1. request'[q].at = "sent"
        BY <1>0, <2>1, <2>3
      <3>2. execPC[q] = "idle"
        BY <1>0, <2>1, <2>3 DEF GoroutineOf, At
      <3>3. QED
        BY <2>2, <3>1, <3>2 DEF GoroutineOf, AnswerOf, At
    <2>4. CASE q # p
      BY <1>0, <1>1, <2>1, <2>2, <2>4
    <2>5. QED
      BY <2>3, <2>4
  <1>6. ASSUME NEW w \in Workers, NEW p \in Requests,
               TakeReply(w, p) \/ TakeError(w, p) \/ CallRefused(w, p) \/ CallLost(w, p)
        PROVE  GoroutineOf(q)' /\ AnswerOf(q)'
    <2>1. UNCHANGED <<execPC, execState, returned>> /\ request[p] # None
      BY <1>0, <1>6, EndEffect DEF ghostVars
    <2>2. ASSUME q = p, request[p].at # "running", request' = [request EXCEPT ![p] = None]
          PROVE  GoroutineOf(q)' /\ AnswerOf(q)'
      BY <1>0, <2>1, <2>2 DEF GoroutineOf, AnswerOf, At
    <2>3. ASSUME q = p, NEW r \in Request, request' = [request EXCEPT ![p] = r],
                 r.command = request[p].command, r.at = request[p].at,
                 r.at \notin {"answered", "failed"}
          PROVE  GoroutineOf(q)' /\ AnswerOf(q)'
      <3>1. request'[q] = r /\ r # None
        BY <1>0, <2>3
      <3>2. QED
        BY <1>0, <2>1, <2>3, <3>1 DEF GoroutineOf, AnswerOf, At
    <2>4. CASE q # p
      <3>1. request'[q] = request[q]
        BY <1>0, <1>6, <2>4, EndEffect
      <3>2. QED
        BY <1>1, <2>1, <3>1
    <2>5. QED
      BY <1>0, <1>6, <2>2, <2>3, <2>4, EndEffect
  <1>7. ASSUME NEW p \in Requests, Accept(p)
        PROVE  GoroutineOf(q)' /\ AnswerOf(q)'
    <2>1. PICK s : /\ s.command = request[p].command
                   /\ execState' = [execState EXCEPT ![p] = s]
      BY <1>7, AcceptEffect
    <2>2. execPC' = [execPC EXCEPT ![p] = "accepted"] /\ returned' = returned
      BY <1>7, AcceptEffect
    <2>3. request[p] \in Request /\ request' = [request EXCEPT ![p].at = "running"]
      BY <1>0, <1>7 DEF Accept, At
    <2>4. CASE q = p
      <3>1. /\ request'[q] = [request[p] EXCEPT !.at = "running"]
            /\ execPC'[q] = "accepted" /\ execState'[q] = s
        BY <1>0, <2>1, <2>2, <2>3, <2>4
      <3>2. /\ request'[q] \in Request /\ request'[q].at = "running"
            /\ request'[q].command = request[p].command
        BY <2>3, <3>1 DEF Request
      <3>3. QED
        BY <1>0, <2>1, <3>1, <3>2 DEF GoroutineOf, AnswerOf, At
    <2>5. CASE q # p
      <3>1. request'[q] = request[q] /\ execPC'[q] = execPC[q] /\ execState'[q] = execState[q]
        BY <1>0, <2>1, <2>2, <2>3, <2>5
      <3>2. QED
        BY <1>0, <2>2, <3>1 DEF GoroutineOf, AnswerOf, At
    <2>6. QED
      BY <2>4, <2>5
  <1>8. ASSUME NEW p \in Requests, Refuse(p)
        PROVE  GoroutineOf(q)' /\ AnswerOf(q)'
    <2>1. /\ At(p, "sent") /\ Respond(p, "failed", "none")
          /\ UNCHANGED <<execPC, execState, returned>>
      BY <1>8 DEF Refuse, ghostVars
    <2>2. PICK r : /\ request' = [request EXCEPT ![p] = r]
                   /\ r # None => r.at = "failed"
      BY <1>0, <2>1, RespondEffect DEF At
    <2>3. CASE q = p
      BY <1>0, <2>1, <2>2, <2>3 DEF GoroutineOf, AnswerOf, At
    <2>4. CASE q # p
      BY <1>0, <1>1, <2>1, <2>2, <2>4
    <2>5. QED
      BY <2>3, <2>4
  <1>9. ASSUME NEW p \in Requests, RunSeed(p)
        PROVE  GoroutineOf(q)' /\ AnswerOf(q)'
    <2>1. PICK o \in {"success", "error"} : Ghost!ExecuteSeed(p, o)
      BY <1>9 DEF RunSeed
    <2>2. /\ execPC[p] = "accepted"
          /\ execPC' = [execPC EXCEPT ![p] = "executed"]
          /\ execState' = [execState EXCEPT ![p].outcome = o]
          /\ UNCHANGED <<request, returned>>
      BY <1>9, <2>1 DEF Ghost!ExecuteSeed, RunSeed, adminVars
    <2>3. execState[p] \in Ghost!Execution
      BY <1>0, <2>2 DEF TypeOK, Ghost!TypeOK
    <2>4. CASE q = p
      <3>1. /\ execPC'[q] = "executed"
            /\ execState'[q].outcome = o /\ execState'[q].command = execState[q].command
        BY <1>0, <2>2, <2>3, <2>4 DEF Ghost!Execution
      <3>2. QED
        BY <1>0, <2>2, <2>4, <3>1 DEF GoroutineOf, AnswerOf, At
    <2>5. CASE q # p
      <3>1. execPC'[q] = execPC[q] /\ execState'[q] = execState[q] /\ request'[q] = request[q]
        BY <1>0, <2>2, <2>5
      <3>2. QED
        BY <1>0, <2>2, <3>1 DEF GoroutineOf, AnswerOf, At
    <2>6. QED
      BY <2>4, <2>5
  <1>10. ASSUME NEW p \in Requests, Answer(p)
         PROVE  GoroutineOf(q)' /\ AnswerOf(q)'
    <2> DEFINE c == execState[p].command
    <2>1. /\ execPC[p] = "executed"
          /\ returned' = [returned EXCEPT ![c] = @ + 1]
          /\ execPC' = [execPC EXCEPT ![p] = "idle"]
          /\ execState' = [execState EXCEPT ![p] = None]
      BY <1>10, AnswerEffect
    <2>2. /\ request[p] # None /\ request[p].command = c /\ c \in CommandIDs
          /\ execState[p].outcome # "none"
      BY <1>0, <2>1, RequestType DEF GoroutineOf, At
    <2>3. execState[p].outcome \in {"success", "error", "none"}
      BY <1>0, <2>1 DEF TypeOK, Ghost!TypeOK, Ghost!Execution, Ghost!Outcome
    <2>4. Respond(p, "answered", execState[p].outcome)
      BY <1>10 DEF Answer
    <2>5. PICK r : /\ request' = [request EXCEPT ![p] = r]
                   /\ r = None <=> request[p].worker = None
                   /\ r # None => /\ r.worker = request[p].worker
                                 /\ r.command = request[p].command
                                 /\ r.at = "answered"
                                 /\ r.outcome = execState[p].outcome
      BY <1>0, <2>2, <2>3, <2>4, RespondEffect
    <2>6. \A d \in CommandIDs : returned'[d] >= returned[d] /\ returned'[c] > 0
      BY <1>0, <2>1, <2>2
    <2> HIDE DEF c
    <2>7. CASE q = p
      <3>1. request'[q] = r /\ execPC'[q] = "idle"
        BY <1>0, <2>1, <2>5, <2>7
      <3>2. GoroutineOf(q)'
        BY <2>5, <3>1 DEF GoroutineOf, At
      <3>3. AnswerOf(q)'
        BY <2>2, <2>5, <2>6, <3>1 DEF AnswerOf, At
      <3>4. QED
        BY <3>2, <3>3
    <2>8. CASE q # p
      <3>1. execPC'[q] = execPC[q] /\ execState'[q] = execState[q] /\ request'[q] = request[q]
        BY <1>0, <2>1, <2>5, <2>8
      <3>2. GoroutineOf(q)'
        BY <1>0, <3>1 DEF GoroutineOf, At
      <3>3. AnswerOf(q)'
        <4>1. SUFFICES ASSUME At(q, "answered") PROVE returned'[request[q].command] > 0
          BY <1>0, <3>1 DEF AnswerOf, At
        <4>2. request[q].command \in CommandIDs /\ returned[request[q].command] > 0
          BY <1>0, <4>1, RequestType DEF AnswerOf, At
        <4>3. /\ returned'[request[q].command] >= returned[request[q].command]
              /\ returned[request[q].command] \in Nat
              /\ returned'[request[q].command] \in Nat
          BY <1>0, <2>1, <2>2, <2>6, <4>2
        <4>4. QED
          BY <4>2, <4>3
      <3>4. QED
        BY <3>2, <3>3
    <2>9. QED
      BY <2>7, <2>8
  <1>11. QED
    BY <1>2, <1>3, <1>4, <1>5, <1>6, <1>7, <1>8, <1>9, <1>10 DEF Next

-----------------------------------------------------------------------------
(***************************************************************************)
(* Message ids, and the parts of LinkInv about one side.                   *)
(***************************************************************************)
LEMMA MessageIDsNext ==
  ASSUME JoinedInv, [Next]_vars
  PROVE  MessageIDsCounted' /\ GhostIsUp'
  <1>0. /\ TypeOK /\ MessageIDsCounted /\ GhostIsUp
        /\ executionByCmdID \in [CommandIDs -> Ghost!Execution \cup {None}]
        /\ commandByMessageID \in [MessageIDs -> CommandIDs \cup {None}]
        /\ adminSeq \in Nat
    BY DEF JoinedInv, DispatchInv, LinkInv, TypeOK, Ghost!TypeOK
  <1>1. IsFiniteSet(Known) /\ Cardinality(Known) \in Nat /\ adminSeq = Cardinality(Known)
    BY <1>0, CommandIDsFinite, FS_Subset, FS_CardinalityType DEF Known, MessageIDsCounted
  <1>2. ASSUME UNCHANGED <<executionByCmdID, commandByMessageID, adminSeq>>
        PROVE  MessageIDsCounted'
    BY <1>0, <1>2 DEF MessageIDsCounted
  <1>3. CASE MirageAlone \/ UNCHANGED vars
    BY <1>0, <1>2, <1>3 DEF MirageAlone, vars, ghostVars, adminVars, GhostIsUp
  <1>4. CASE Bootstrap
    <2>1. UNCHANGED <<executionByCmdID, commandByMessageID, adminSeq>>
      BY <1>4 DEF Bootstrap, adminVars, Ghost!Appear, Ghost!Seed, Ghost!Radiate
    <2>2. GhostIsUp'
      BY <1>0, <1>4 DEF Bootstrap, Ghost!Appear, Ghost!Seed, Ghost!Radiate, GhostIsUp
    <2>3. QED
      BY <1>2, <2>1, <2>2
  <1>5. CASE GhostDies
    <2>1. /\ executionByCmdID' = [c \in CommandIDs |-> None]
          /\ commandByMessageID' = [m \in MessageIDs |-> None]
          /\ adminSeq' = 0 /\ phase' = "boot"
      BY <1>5 DEF GhostDies, Ghost!Restart
    <2>2. {c \in CommandIDs : executionByCmdID'[c] # None} = {}
      BY <2>1
    <2>3. MessageIDsCounted'
      BY <2>1, <2>2, FS_EmptySet DEF MessageIDsCounted
    <2>4. QED
      BY <2>1, <2>3 DEF GhostIsUp
  <1>6. ASSUME NEW w \in Workers, NEW i \in Intents, Call(w, i)
        PROVE  MessageIDsCounted' /\ GhostIsUp'
    BY <1>0, <1>2, <1>6 DEF Call, ghostVars, GhostIsUp
  <1>7. ASSUME NEW w \in Workers, NEW p \in Requests,
               TakeReply(w, p) \/ TakeError(w, p) \/ CallRefused(w, p) \/ CallLost(w, p)
        PROVE  MessageIDsCounted' /\ GhostIsUp'
    <2>1. UNCHANGED <<executionByCmdID, commandByMessageID, adminSeq, phase, ghostID>>
      BY <1>7 DEF TakeReply, TakeError, CallRefused, CallLost, ghostVars
    <2>2. QED
      BY <1>0, <1>2, <2>1 DEF GhostIsUp
  <1>8. ASSUME NEW p \in Requests, Accept(p)
        PROVE  MessageIDsCounted' /\ GhostIsUp'
    <2> DEFINE c == request[p].command
    <2>1. PICK s : s # None /\ executionByCmdID' = [executionByCmdID EXCEPT ![c] = s]
      BY <1>8, AcceptEffect
    <2>2. /\ executionByCmdID[c] = None
          /\ commandByMessageID' = [commandByMessageID EXCEPT ![adminSeq + 1] = c]
          /\ UNCHANGED <<phase, ghostID>>
      BY <1>8, AcceptEffect
    <2>3. c \in CommandIDs /\ adminSeq' = adminSeq + 1
      BY <1>0, <1>8, RequestType DEF Accept, At
    <2> HIDE DEF c
    <2>4. {d \in CommandIDs : executionByCmdID'[d] # None} = Known \cup {c} /\ c \notin Known
      BY <1>0, <2>1, <2>2, <2>3 DEF Known
    <2>5. adminSeq' = Cardinality(Known \cup {c})
      BY <1>1, <2>3, <2>4, FS_AddElement
    <2>6. \A m \in MessageIDs : commandByMessageID'[m] # None => m <= adminSeq'
      <3>1. TAKE m \in MessageIDs
      <3>2. m \in Nat
        BY CommandIDsFinite DEF MessageIDs
      <3>3. CASE m = adminSeq + 1
        BY <2>3, <3>2, <3>3
      <3>4. CASE m # adminSeq + 1
        BY <1>0, <2>2, <2>3, <3>2, <3>4 DEF MessageIDsCounted
      <3>5. QED
        BY <3>3, <3>4
    <2>7. QED
      BY <1>0, <2>2, <2>4, <2>5, <2>6 DEF MessageIDsCounted, GhostIsUp
  <1>9. ASSUME NEW p \in Requests, Refuse(p)
        PROVE  MessageIDsCounted' /\ GhostIsUp'
    BY <1>0, <1>2, <1>9 DEF Refuse, ghostVars, GhostIsUp
  <1>10. ASSUME NEW p \in Requests, RunSeed(p)
         PROVE  MessageIDsCounted' /\ GhostIsUp'
    BY <1>0, <1>2, <1>10 DEF RunSeed, adminVars, Ghost!ExecuteSeed, GhostIsUp
  <1>11. ASSUME NEW p \in Requests, Answer(p)
         PROVE  MessageIDsCounted' /\ GhostIsUp'
    <2> DEFINE c == execState[p].command
    <2>1. PICK s : s # None /\ executionByCmdID' = [executionByCmdID EXCEPT ![c] = s]
      BY <1>11, AnswerEffect
    <2>2. /\ executionByCmdID[c] # None
          /\ UNCHANGED <<commandByMessageID, phase, ghostID>>
      BY <1>11, AnswerEffect
    <2>3. adminSeq' = adminSeq
      BY <1>11 DEF Answer
    <2> HIDE DEF c
    <2>4. {d \in CommandIDs : executionByCmdID'[d] # None} = Known
      BY <1>0, <2>1, <2>2 DEF Known
    <2>5. QED
      BY <1>0, <1>1, <2>2, <2>3, <2>4 DEF MessageIDsCounted, GhostIsUp
  <1>12. QED
    BY <1>3, <1>4, <1>5, <1>6, <1>7, <1>8, <1>9, <1>10, <1>11 DEF Next

\* A reply that is taken marks the command of the call it answers.
LEMMA TakeReplyEffect ==
  ASSUME JoinedInv, NEW w \in Workers, NEW p \in Requests, TakeReply(w, p)
  PROVE  \E i \in Intents, c \in 1 .. MaxSteps :
           /\ pc[w] = "executing" /\ job[w].intent = i
           /\ request[p].command = Mirage!CommandID(i, c)
           /\ byCommandID' = [byCommandID EXCEPT ![i] = @ \cup {c}]
  <1>1. /\ At(p, "answered") /\ request[p].worker = w
        /\ Mirage!IngestReply(w, request[p].outcome)
        /\ TypeOK /\ WaitersMatched
    BY DEF TakeReply, JoinedInv, DispatchInv, LinkInv
  <1>2. /\ pc[w] = "executing"
        /\ byCommandID' = [byCommandID EXCEPT ![job[w].intent] = @ \cup {job[w].command}]
    BY <1>1 DEF Mirage!IngestReply, Mirage!Ingest
  <1>3. request[p] # None /\ request[p].worker # None
    BY <1>1, DispatchAssumption DEF At
  <1>4. request[p].command = Mirage!CommandID(job[w].intent, job[w].command)
    BY <1>1, <1>3 DEF WaitersMatched
  <1>5. request[p].command \in CommandIDs
    BY <1>1, <1>3, RequestType
  <1>6. job[w].command \in 1 .. MaxSteps
    BY <1>4, <1>5 DEF CommandIDs, Mirage!CommandID
  <1>7. job[w].intent \in Intents
    BY <1>1, <1>2 DEF TypeOK, Mirage!TypeOK, Mirage!Job
  <1>8. QED
    BY <1>2, <1>4, <1>6, <1>7

LEMMA IntentsNext ==
  ASSUME JoinedInv, [Next]_vars
  PROVE  SubmittedFirst' /\ PlansBounded'
  <1>0. /\ TypeOK /\ DispatchInv /\ SubmittedFirst /\ PlansBounded
        /\ desired \in [Intents -> Seq(Mirage!Step)]
        /\ byCommandID \in [Intents -> SUBSET Nat]
        /\ issued \in [Intents -> Nat]
        /\ pc \in [Workers -> {"idle", "executing", "releasing"}]
        /\ job \in [Workers -> Mirage!Job \cup {None}]
        /\ \A w \in Workers : pc[w] # "idle" => job[w] \in Mirage!Job
    BY DEF JoinedInv, DispatchInv, LinkInv, TypeOK, Mirage!TypeOK
  <1>1. ASSUME UNCHANGED <<desired, byCommandID, issued, pc, job>>
        PROVE  SubmittedFirst' /\ PlansBounded'
    BY <1>0, <1>1 DEF SubmittedFirst, PlansBounded
  <1>2. ASSUME NEW i \in Intents, Mirage!SubmitIssue(i)
        PROVE  SubmittedFirst' /\ PlansBounded'
    <2>1. PICK plan \in Plans[i] : desired' = [desired EXCEPT ![i] = plan]
      BY <1>2 DEF Mirage!SubmitIssue
    <2>2. /\ byCommandID' = [byCommandID EXCEPT ![i] = {}]
          /\ issued' = [issued EXCEPT ![i] = @ + 1]
          /\ UNCHANGED <<pc, job>>
      BY <1>2 DEF Mirage!SubmitIssue
    <2>3. Len(plan) <= MaxSteps
      BY DispatchAssumption
    <2>4. PlansBounded'
      BY <1>0, <2>1, <2>2, <2>3 DEF PlansBounded
    <2>5. \A k \in Intents : issued'[k] = 0 => k # i /\ issued[k] = 0
      BY <1>0, <2>2
    <2>6. \A k \in Intents : issued[k] > 0 => issued'[k] > 0
      BY <1>0, <2>2
    <2>7. \A k \in Intents : issued'[k] = 0 => desired'[k] = << >> /\ byCommandID'[k] = {}
      BY <1>0, <2>1, <2>2, <2>5 DEF SubmittedFirst
    <2>8. \A w \in Workers : pc[w] # "idle" => issued'[job[w].intent] > 0
      BY <1>0, <2>6 DEF SubmittedFirst, Mirage!Job
    <2>9. QED
      BY <2>2, <2>4, <2>7, <2>8 DEF SubmittedFirst
  <1>3. ASSUME NEW w \in Workers,
               pc' = [pc EXCEPT ![w] = "idle"] \/ (pc[w] # "idle" /\ UNCHANGED job),
               \A v \in Workers : v # w => pc'[v] = pc[v] /\ job'[v] = job[v],
               UNCHANGED issued
        PROVE  \A v \in Workers : pc'[v] # "idle" => issued'[job'[v].intent] > 0
    BY <1>0, <1>3 DEF SubmittedFirst
  <1>4. ASSUME NEW w \in Workers, Mirage!ExecuteFails(w)
        PROVE  SubmittedFirst' /\ PlansBounded'
    <2>1. /\ pc[w] = "executing" /\ pc' = [pc EXCEPT ![w] = "releasing"]
          /\ UNCHANGED <<desired, byCommandID, issued, job>>
      BY <1>4 DEF Mirage!ExecuteFails
    <2>2. \A v \in Workers : pc'[v] # "idle" => issued'[job'[v].intent] > 0
      BY <1>0, <1>3, <2>1
    <2>3. QED
      BY <1>0, <2>1, <2>2 DEF SubmittedFirst, PlansBounded
  <1>5. ASSUME NEW w \in Workers, Mirage!ReleaseSeedLock(w)
        PROVE  SubmittedFirst' /\ PlansBounded'
    <2>1. /\ pc' = [pc EXCEPT ![w] = "idle"] /\ job' = [job EXCEPT ![w] = None]
          /\ UNCHANGED <<desired, byCommandID, issued>>
      BY <1>5 DEF Mirage!ReleaseSeedLock, Mirage!Finish
    <2>2. \A v \in Workers : pc'[v] # "idle" => issued'[job'[v].intent] > 0
      BY <1>0, <1>3, <2>1
    <2>3. QED
      BY <1>0, <2>1, <2>2 DEF SubmittedFirst, PlansBounded
  <1>6. CASE MirageAlone
    <2>1. ASSUME \/ Mirage!RegisterExecutor(TheGhost)
                 \/ \E w \in Workers, i \in Intents : Mirage!ReconcileBlocked(w, i)
                 \/ \E w \in Workers, i \in Intents : Mirage!ReconcileNoExecutor(w, i)
          PROVE  UNCHANGED <<desired, byCommandID, issued, pc, job>>
      BY <2>1 DEF Mirage!RegisterExecutor, Mirage!ReconcileBlocked, Mirage!ReconcileNoExecutor
    <2>2. QED
      BY <1>1, <1>2, <1>5, <1>6, <2>1 DEF MirageAlone
  <1>7. ASSUME NEW w \in Workers, NEW i \in Intents, Call(w, i)
        PROVE  SubmittedFirst' /\ PlansBounded'
    <2>1. /\ UNCHANGED <<desired, byCommandID, issued>>
      BY <1>7 DEF Call, Mirage!ReconcileDispatch
    <2>2. /\ desired[i] # << >>
          /\ pc' = [pc EXCEPT ![w] = "executing"]
          /\ \E c : job' = [job EXCEPT ![w] = [intent |-> i, issue |-> issued[i],
                                              plan |-> desired[i], command |-> c]]
      BY <1>0, <1>7, CallEffect
    <2>3. issued[i] > 0
      BY <1>0, <2>2 DEF SubmittedFirst
    <2>4. \A v \in Workers : pc'[v] # "idle" => issued'[job'[v].intent] > 0
      BY <1>0, <2>1, <2>2, <2>3 DEF SubmittedFirst
    <2>5. QED
      BY <1>0, <2>1, <2>4 DEF SubmittedFirst, PlansBounded
  <1>8. ASSUME NEW w \in Workers, NEW p \in Requests, TakeReply(w, p)
        PROVE  SubmittedFirst' /\ PlansBounded'
    <2>1. PICK i \in Intents, c \in 1 .. MaxSteps :
            /\ pc[w] = "executing" /\ job[w].intent = i
            /\ byCommandID' = [byCommandID EXCEPT ![i] = @ \cup {c}]
      BY <1>8, TakeReplyEffect
    <2>2. /\ pc' = [pc EXCEPT ![w] = "idle"] /\ job' = [job EXCEPT ![w] = None]
          /\ UNCHANGED <<desired, issued>>
      BY <1>8 DEF TakeReply, Mirage!IngestReply, Mirage!Finish
    <2>3. \A v \in Workers : pc'[v] # "idle" => issued'[job'[v].intent] > 0
      BY <1>0, <1>3, <2>2
    <2>4. issued[i] > 0 /\ issued[i] \in Nat
      <3>1. pc[w] # "idle" => issued[job[w].intent] > 0
        BY <1>0 DEF SubmittedFirst
      <3>2. QED
        BY <1>0, <2>1, <3>1
    <2>5. QED
      BY <1>0, <2>1, <2>2, <2>3, <2>4 DEF SubmittedFirst, PlansBounded
  <1>9. ASSUME NEW w \in Workers, NEW p \in Requests,
               TakeError(w, p) \/ CallRefused(w, p) \/ CallLost(w, p)
        PROVE  SubmittedFirst' /\ PlansBounded'
    BY <1>4, <1>9 DEF TakeError, CallRefused, CallLost
  <1>10. CASE Bootstrap \/ GhostDies \/ UNCHANGED vars
    BY <1>1, <1>10 DEF Bootstrap, GhostDies, vars, mirageVars
  <1>11. ASSUME NEW p \in Requests, Accept(p) \/ Refuse(p) \/ RunSeed(p) \/ Answer(p)
         PROVE  SubmittedFirst' /\ PlansBounded'
    BY <1>1, <1>11 DEF Accept, Refuse, RunSeed, Answer, mirageVars
  <1>12. QED
    BY <1>6, <1>7, <1>8, <1>9, <1>10, <1>11 DEF Next

LEMMA PresentNext ==
  ASSUME JoinedInv, [Next]_vars
  PROVE  WaitersPresent'
  <1>0. /\ TypeOK /\ DispatchInv /\ WaitersPresent /\ AnswersReal /\ GoroutinesMatched
        /\ request \in [Requests -> Request \cup {None}]
        /\ losses \in Nat
        /\ None \notin Workers
        /\ None \notin Request
    BY DispatchAssumption, SidesAssumption DEF JoinedInv, DispatchInv, LinkInv, TypeOK
  <1> SUFFICES ASSUME losses' = 0, NEW q \in Requests, request'[q] # None
               PROVE  request'[q].worker # None
    BY DEF WaitersPresent
  <1>1. ASSUME losses = 0, request[q] # None, request'[q] = request[q]
        PROVE  request'[q].worker # None
    BY <1>0, <1>1 DEF WaitersPresent
  <1>2. CASE MirageAlone \/ Bootstrap \/ UNCHANGED vars
    BY <1>1, <1>2 DEF MirageAlone, Bootstrap, vars, adminVars
  <1>3. CASE GhostDies
    <2>1. request[q] # None /\ losses = 0 /\ request[q].worker # None
      BY <1>0, <1>3 DEF GhostDies
    <2>2. request'[q] = request[q] \/ request'[q] = [request[q] EXCEPT !.at = "failed"]
      BY <1>0, <1>3 DEF GhostDies
    <2>3. request[q] \in Request
      BY <1>0, <2>1
    <2>4. QED
      BY <2>1, <2>2, <2>3 DEF Request
  <1>4. ASSUME NEW w \in Workers, NEW i \in Intents, Call(w, i)
        PROVE  request'[q].worker # None
    <2>1. PICK p \in Requests, c \in 1 .. MaxSteps :
            /\ request[p] = None
            /\ request' = [request EXCEPT ![p] =
                             [worker |-> w, command |-> Mirage!CommandID(i, c),
                              seed |-> desired[i][c].seed,
                              at |-> "sent", outcome |-> "none"]]
      BY <1>0, <1>4, CallEffect
    <2>2. losses = 0
      BY <1>4 DEF Call
    <2>3. CASE q = p
      BY <1>0, <2>1, <2>3
    <2>4. CASE q # p
      BY <1>0, <1>1, <2>1, <2>2, <2>4
    <2>5. QED
      BY <2>3, <2>4
  <1>5. ASSUME NEW w \in Workers, NEW p \in Requests,
               TakeReply(w, p) \/ TakeError(w, p) \/ CallRefused(w, p) \/ CallLost(w, p)
        PROVE  request'[q].worker # None
    <2>1. request' = [request EXCEPT ![p] = None] /\ losses' >= losses
      BY <1>0, <1>5, EndEffect
    <2>2. q # p /\ request'[q] = request[q] /\ losses = 0
      BY <1>0, <2>1
    <2>3. QED
      BY <1>1, <2>2
  <1>6. ASSUME NEW p \in Requests, Accept(p)
        PROVE  request'[q].worker # None
    <2>1. /\ request[p] # None /\ losses = 0
          /\ request' = [request EXCEPT ![p].at = "running"]
      BY <1>6 DEF Accept, At
    <2>2. request[p] \in Request /\ request[p].worker # None
      BY <1>0, <2>1 DEF WaitersPresent
    <2>3. CASE q = p
      BY <1>0, <2>1, <2>2, <2>3 DEF Request
    <2>4. CASE q # p
      BY <1>0, <1>1, <2>1, <2>4
    <2>5. QED
      BY <2>3, <2>4
  <1>7. ASSUME NEW p \in Requests, Refuse(p) \/ Answer(p)
        PROVE  request'[q].worker # None
    <2>1. losses = 0
      BY <1>7 DEF Refuse, Answer
    <2>2. /\ request[p] # None
          /\ \E where \in {"answered", "failed"}, outcome \in {"success", "error", "none"} :
               Respond(p, where, outcome)
      <3>1. CASE Refuse(p)
        BY <3>1 DEF Refuse, At
      <3>2. CASE Answer(p)
        <4>1. execPC[p] = "executed"
          BY <3>2, AnswerEffect
        <4>2. execState[p].outcome \in {"success", "error", "none"}
          BY <1>0, <4>1 DEF TypeOK, Ghost!TypeOK, Ghost!Execution, Ghost!Outcome
        <4>3. request[p] # None
          BY <1>0, <4>1 DEF GoroutinesMatched, At
        <4>4. QED
          BY <3>2, <4>2, <4>3 DEF Answer
      <3>3. QED
        BY <1>7, <3>1, <3>2
    <2>3. PICK r : /\ request' = [request EXCEPT ![p] = r]
                   /\ r # None => r.worker = request[p].worker
      BY <1>0, <2>2, RespondEffect
    <2>4. CASE q = p
      BY <1>0, <2>1, <2>2, <2>3, <2>4 DEF WaitersPresent
    <2>5. CASE q # p
      BY <1>0, <1>1, <2>1, <2>3, <2>5
    <2>6. QED
      BY <2>4, <2>5
  <1>8. ASSUME NEW p \in Requests, RunSeed(p)
        PROVE  request'[q].worker # None
    BY <1>1, <1>8 DEF RunSeed, adminVars
  <1>9. QED
    BY <1>2, <1>3, <1>4, <1>5, <1>6, <1>7, <1>8 DEF Next

-----------------------------------------------------------------------------
(***************************************************************************)
(* The invariant holds from the beginning and for ever.                    *)
(***************************************************************************)
LEMMA JoinedInit ==
  ASSUME Init
  PROVE  JoinedInv
  <1>1. MP!TypeOK
    BY SameMirage, SidesAssumed, MP!InitType DEF Init
  <1>2. GP!GInv /\ GP!AtMostOneRunPerLife
    <2>1. GP!Init
      BY SameGhost DEF Init
    <2>2. GP!GInv
      BY <2>1, GP!InitInv, SidesAssumed
    <2>3. GP!AtMostOneRunPerLife
      BY <2>1 DEF GP!Init, GP!AtMostOneRunPerLife
    <2>4. QED
      BY <2>2, <2>3
  <1>3. Mirage!TypeOK /\ Ghost!TypeOK
    BY <1>1, <1>2, SameMirage, SameGhost DEF GP!GInv
  <1>4. TypeOK
    BY <1>3, DispatchAssumption DEF Init, TypeOK
  <1>5. WaitersMatched /\ GoroutinesMatched /\ AnswersReal /\ WaitersPresent
    BY DEF Init, WaitersMatched, GoroutinesMatched, AnswersReal, WaitersPresent, At,
           Ghost!Init
  <1>6. MessageIDsCounted
    <2>1. Known = {}
      BY DEF Init, Ghost!Init, Known
    <2>2. QED
      BY <2>1, FS_EmptySet DEF Init, Ghost!Init, MessageIDsCounted, Known
  <1>7. GhostIsUp
    BY DEF Init, Ghost!Init, GhostIsUp
  <1>8. SubmittedFirst /\ PlansBounded
    <2>1. /\ \A i \in Intents : desired[i] = << >> /\ byCommandID[i] = {}
          /\ \A w \in Workers : pc[w] = "idle"
      BY DEF Init, Mirage!Init
    <2>2. MaxSteps \in Nat
      BY DispatchAssumption
    <2>3. QED
      BY <2>1, <2>2 DEF SubmittedFirst, PlansBounded
  <1>9. QED
    BY <1>2, <1>4, <1>5, <1>6, <1>7, <1>8 DEF JoinedInv, DispatchInv, LinkInv

LEMMA JoinedNext ==
  ASSUME JoinedInv, [Next]_vars
  PROVE  JoinedInv'
  BY TypeNext, WaitersNext, GoroutinesNext, MessageIDsNext, IntentsNext, PresentNext
     DEF JoinedInv, DispatchInv, LinkInv

LEMMA JoinedInvariant == Spec => []JoinedInv
  <1>1. Init => JoinedInv
    BY JoinedInit
  <1>2. JoinedInv /\ [Next]_vars => JoinedInv'
    BY JoinedNext
  <1>3. QED
    BY <1>1, <1>2, PTL DEF Spec

-----------------------------------------------------------------------------
(***************************************************************************)
(* What is observed, returned and known after a step.                      *)
(***************************************************************************)

\* The histories only grow.
LEMMA HistoriesGrow ==
  ASSUME JoinedInv, [Next]_vars
  PROVE  /\ losses' >= losses
         /\ \A i \in Intents : issued'[i] >= issued[i]
         /\ \A c \in CommandIDs : returned'[c] >= returned[c]
  <1>0. /\ losses \in Nat /\ TypeOK
        /\ issued \in [Intents -> Nat]
        /\ returned \in [CommandIDs -> Nat]
    <2>1. TypeOK
      BY DEF JoinedInv, DispatchInv
    <2>2. losses \in Nat /\ Mirage!TypeOK /\ Ghost!TypeOK
      BY <2>1 DEF TypeOK
    <2>3. QED
      BY <2>1, <2>2 DEF Mirage!TypeOK, Ghost!TypeOK
  <1>1. losses' >= losses
    <2>1. ASSUME UNCHANGED losses PROVE losses' >= losses
      BY <1>0, <2>1
    <2>2. ASSUME NEW w \in Workers, NEW p \in Requests, CallLost(w, p) PROVE losses' >= losses
      BY <1>0, <2>2 DEF CallLost
    <2>3. QED
      BY <2>1, <2>2 DEF Next, MirageAlone, Bootstrap, GhostDies, Call, TakeReply, TakeError,
                        CallRefused, Accept, Refuse, RunSeed, Answer, vars
  <1>2. \A i \in Intents : issued'[i] >= issued[i]
    <2>1. [Mirage!Next]_(Mirage!vars)
      BY MirageStep
    <2>2. ASSUME UNCHANGED issued PROVE \A i \in Intents : issued'[i] >= issued[i]
      BY <1>0, <2>2
    <2>3. ASSUME NEW k \in Intents, Mirage!SubmitIssue(k)
          PROVE  \A i \in Intents : issued'[i] >= issued[i]
      BY <1>0, <2>3 DEF Mirage!SubmitIssue
    <2>4. QED
      BY <2>1, <2>2, <2>3
         DEF Mirage!Next, Mirage!RegisterExecutor, Mirage!ReconcileBlocked,
             Mirage!ReconcileNoExecutor, Mirage!ReconcileDispatch, Mirage!ExecuteFails,
             Mirage!ReleaseSeedLock, Mirage!IngestReply, Mirage!IngestObservedEvent,
             Mirage!vars
  <1>3. \A c \in CommandIDs : returned'[c] >= returned[c]
    <2>1. ASSUME UNCHANGED returned PROVE \A c \in CommandIDs : returned'[c] >= returned[c]
      BY <1>0, <2>1
    <2>2. ASSUME NEW p \in Requests, Answer(p)
          PROVE  \A c \in CommandIDs : returned'[c] >= returned[c]
      <3>1. returned' = [returned EXCEPT ![execState[p].command] = @ + 1]
        BY <2>2, AnswerEffect
      <3>2. QED
        BY <1>0, <3>1
    <2>3. ASSUME ~ \E p \in Requests : Answer(p) PROVE UNCHANGED returned
      BY <2>3 DEF Next, MirageAlone, Bootstrap, GhostDies, Call, TakeReply, TakeError,
                  CallRefused, CallLost, Accept, Refuse, RunSeed, vars, ghostVars,
                  Ghost!Appear, Ghost!Seed, Ghost!Radiate, Ghost!Restart,
                  Ghost!HandleCommand, Ghost!ExecuteSeed
    <2>4. QED
      BY <2>1, <2>2, <2>3
  <1>4. QED
    BY <1>1, <1>2, <1>3

\* Only a submission forgets what was observed of an intent.
LEMMA ObservedGrows ==
  ASSUME JoinedInv, [Next]_vars, NEW i \in Intents
  PROVE  \/ byCommandID[i] \subseteq byCommandID'[i]
         \/ issued'[i] = issued[i] + 1
  <1>0. /\ byCommandID \in [Intents -> SUBSET Nat]
        /\ issued \in [Intents -> Nat]
    BY DEF JoinedInv, DispatchInv, TypeOK, Mirage!TypeOK
  <1>1. [Mirage!Next]_(Mirage!vars)
    BY MirageStep
  <1>2. ASSUME NEW k \in Intents, Mirage!SubmitIssue(k)
        PROVE  byCommandID'[i] = byCommandID[i] \/ issued'[i] = issued[i] + 1
    BY <1>0, <1>2 DEF Mirage!SubmitIssue
  <1>3. ASSUME NEW w \in Workers, NEW o, Mirage!IngestReply(w, o)
        PROVE  byCommandID[i] \subseteq byCommandID'[i]
    BY <1>0, <1>3 DEF Mirage!IngestReply, Mirage!Ingest
  <1>4. QED
    BY <1>1, <1>2, <1>3
       DEF Mirage!Next, Mirage!RegisterExecutor, Mirage!ReconcileBlocked,
           Mirage!ReconcileNoExecutor, Mirage!ReconcileDispatch, Mirage!ExecuteFails,
           Mirage!ReleaseSeedLock, Mirage!IngestObservedEvent, Mirage!vars

\* What is observed has been before, or a reply has just been taken.
LEMMA ObservedByReply ==
  ASSUME JoinedInv, [Next]_vars, NEW i \in Intents, NEW c \in byCommandID'[i]
  PROVE  \/ c \in byCommandID[i]
         \/ \E w \in Workers, p \in Requests :
              TakeReply(w, p) /\ request[p].command = Mirage!CommandID(i, c)
  <1>0. byCommandID \in [Intents -> SUBSET Nat]
    BY DEF JoinedInv, DispatchInv, TypeOK, Mirage!TypeOK
  <1>1. ASSUME NEW k \in Intents, Mirage!SubmitIssue(k) PROVE c \in byCommandID[i]
    BY <1>0, <1>1 DEF Mirage!SubmitIssue
  <1>2. ASSUME NEW w \in Workers, NEW p \in Requests, TakeReply(w, p)
        PROVE  c \in byCommandID[i] \/ request[p].command = Mirage!CommandID(i, c)
    <2>1. PICK k \in Intents, d \in 1 .. MaxSteps :
            /\ request[p].command = Mirage!CommandID(k, d)
            /\ byCommandID' = [byCommandID EXCEPT ![k] = @ \cup {d}]
      BY <1>2, TakeReplyEffect
    <2>2. QED
      BY <1>0, <2>1
  <1>3. ASSUME UNCHANGED byCommandID PROVE c \in byCommandID[i]
    BY <1>3
  <1>4. CASE MirageAlone
    BY <1>1, <1>3, <1>4
       DEF MirageAlone, Mirage!RegisterExecutor, Mirage!ReconcileBlocked,
           Mirage!ReconcileNoExecutor, Mirage!ReleaseSeedLock
  <1>5. CASE ~ MirageAlone /\ ~ \E w \in Workers, p \in Requests : TakeReply(w, p)
    BY <1>3, <1>5
       DEF Next, Bootstrap, GhostDies, Call, TakeError, CallRefused, CallLost,
           Accept, Refuse, RunSeed, Answer, vars, mirageVars,
           Mirage!ReconcileDispatch, Mirage!ExecuteFails
  <1>6. QED
    BY <1>2, <1>4, <1>5

\* What the Ghost knows it has known before, or it has just accepted it.
LEMMA KnownByAccept ==
  ASSUME JoinedInv, [Next]_vars, NEW c \in CommandIDs, executionByCmdID'[c] # None
  PROVE  /\ ~ GhostDies
         /\ \/ executionByCmdID[c] # None
            \/ \E p \in Requests : Accept(p) /\ request[p].command = c
  <1>0. executionByCmdID \in [CommandIDs -> Ghost!Execution \cup {None}]
    BY DEF JoinedInv, DispatchInv, TypeOK, Ghost!TypeOK
  <1>1. ~ GhostDies
    BY DEF GhostDies, Ghost!Restart
  <1>2. ASSUME NEW p \in Requests, Accept(p)
        PROVE  executionByCmdID[c] # None \/ request[p].command = c
    <2>1. PICK s : executionByCmdID' = [executionByCmdID EXCEPT ![request[p].command] = s]
      BY <1>2, AcceptEffect
    <2>2. QED
      BY <1>0, <2>1
  <1>3. ASSUME NEW p \in Requests, Answer(p) PROVE executionByCmdID[c] # None
    <2>1. PICK s : executionByCmdID' = [executionByCmdID EXCEPT ![execState[p].command] = s]
      BY <1>3, AnswerEffect
    <2>2. executionByCmdID[execState[p].command] # None
      BY <1>3, AnswerEffect
    <2>3. QED
      BY <1>0, <2>1, <2>2
  <1>4. ASSUME UNCHANGED executionByCmdID PROVE executionByCmdID[c] # None
    BY <1>4
  <1>5. CASE ~ \E p \in Requests : Accept(p) \/ Answer(p)
    BY <1>1, <1>4, <1>5
       DEF Next, MirageAlone, Bootstrap, Call, TakeReply, TakeError, CallRefused, CallLost,
           Refuse, RunSeed, vars, ghostVars, Ghost!Appear, Ghost!Seed, Ghost!Radiate,
           Ghost!ExecuteSeed
  <1>6. QED
    BY <1>1, <1>2, <1>3, <1>5

\* A request that carries a command goes on carrying it until its reply is
\* taken, the Ghost dies or the call is lost.
LEMMA CarriesNext ==
  ASSUME JoinedInv, [Next]_vars, losses' = 0, ~ GhostDies,
         NEW p \in Requests, NEW c, Carries(p, c),
         ~ \E w \in Workers : TakeReply(w, p)
  PROVE  Carries(p, c)'
  <1>0. /\ TypeOK /\ DispatchInv /\ GoroutinesMatched
        /\ request \in [Requests -> Request \cup {None}]
        /\ None \notin Request
        /\ request[p] \in Request
    BY SidesAssumption DEF JoinedInv, DispatchInv, LinkInv, TypeOK, Carries, At
  <1>1. ASSUME request'[p] = request[p] PROVE Carries(p, c)'
    BY <1>1 DEF Carries, At
  <1>2. CASE MirageAlone \/ Bootstrap \/ UNCHANGED vars
    BY <1>1, <1>2 DEF MirageAlone, Bootstrap, vars, adminVars
  <1>3. ASSUME NEW w \in Workers, NEW i \in Intents, Call(w, i) PROVE Carries(p, c)'
    <2>1. request'[p] = request[p]
      BY <1>0, <1>3, CallEffect
    <2>2. QED
      BY <1>1, <2>1
  <1>4. ASSUME NEW w \in Workers, NEW q \in Requests,
               TakeReply(w, q) \/ TakeError(w, q) \/ CallRefused(w, q) \/ CallLost(w, q)
        PROVE  Carries(p, c)'
    <2>1. request' = [request EXCEPT ![q] = None]
      BY <1>0, <1>4, EndEffect
    <2>2. p # q
      <3>1. CASE TakeReply(w, q)
        BY <3>1
      <3>2. CASE TakeError(w, q) \/ CallRefused(w, q)
        BY <3>2 DEF TakeError, CallRefused, Carries, At
      <3>3. CASE CallLost(w, q)
        <4>1. losses' = losses + 1 /\ losses \in Nat
          BY <1>0, <3>3 DEF CallLost, TypeOK
        <4>2. QED
          BY <4>1
      <3>4. QED
        BY <1>4, <3>1, <3>2, <3>3
    <2>3. QED
      BY <1>0, <1>1, <2>1, <2>2
  <1>5. ASSUME NEW q \in Requests, Accept(q) PROVE Carries(p, c)'
    <2>1. p # q /\ request' = [request EXCEPT ![q].at = "running"]
      BY <1>5 DEF Accept, Carries, At
    <2>2. QED
      BY <1>0, <1>1, <2>1
  <1>6. ASSUME NEW q \in Requests, Refuse(q) PROVE Carries(p, c)'
    <2>1. p # q /\ Respond(q, "failed", "none")
      BY <1>6 DEF Refuse, Carries, At
    <2>2. QED
      BY <1>0, <1>1, <2>1 DEF Respond
  <1>7. ASSUME NEW q \in Requests, RunSeed(q) PROVE Carries(p, c)'
    BY <1>1, <1>7 DEF RunSeed, adminVars
  <1>8. ASSUME NEW q \in Requests, Answer(q) PROVE Carries(p, c)'
    <2>1. Respond(q, "answered", execState[q].outcome)
      BY <1>8 DEF Answer
    <2>2. CASE p # q
      BY <1>0, <1>1, <2>1, <2>2 DEF Respond
    <2>3. CASE p = q
      <3>1. execState[q].outcome \in {"success", "error", "none"}
        BY <1>0, <1>8, AnswerEffect DEF TypeOK, Ghost!TypeOK, Ghost!Execution, Ghost!Outcome
      <3>2. request[q] # None
        BY <2>3 DEF Carries, At
      <3>3. PICK r : /\ request' = [request EXCEPT ![q] = r]
                     /\ r = None <=> request[q].worker = None
                     /\ r # None => /\ r.worker = request[q].worker
                                   /\ r.command = request[q].command
                                   /\ r.at = "answered"
        BY <1>0, <2>1, <3>1, <3>2, RespondEffect
      <3>4. r # None /\ request'[p] = r
        BY <1>0, <2>3, <3>3 DEF Carries
      <3>5. QED
        BY <2>3, <3>3, <3>4 DEF Carries, At
    <2>4. QED
      BY <2>2, <2>3
  <1>9. QED
    BY <1>2, <1>3, <1>4, <1>5, <1>6, <1>7, <1>8 DEF Next

-----------------------------------------------------------------------------
(***************************************************************************)
(* The theorems.                                                           *)
(***************************************************************************)

\* At all times everything has its type, exactly the request that runs holds
\* adminMu, a worker waits for the one call about its own command, the Ghost's
\* goroutines work on the commands of the requests they serve, an
\* answer is the event of an execution that ended, and as many message ids
\* are used up as commands are known (ghost_admin_client.go, admin_control.go).
THEOREM SidesStayLinked == Spec => []DispatchInv
  <1>1. JoinedInv => DispatchInv
    BY DEF JoinedInv
  <1>2. QED
    BY JoinedInvariant, <1>1, PTL

\* Joined by calls that can be lost, Mirage does what Orchestrator says of it
\* and the Ghost what GhostServer says of it: whatever is proved of one side
\* alone holds of it here.
THEOREM SidesImplemented == Spec => ImplementsSides
  <1>1. Init => Mirage!Init /\ Ghost!Init
    BY DEF Init
  <1>2. JoinedInv /\ [Next]_vars => [Mirage!Next]_(Mirage!vars)
    BY MirageStep
  <1>3. JoinedInv /\ [Next]_vars => [Ghost!Next]_(Ghost!vars)
    BY GhostStep
  <1>4. Spec => Mirage!Spec
    BY JoinedInvariant, <1>1, <1>2, PTL DEF Spec, Mirage!Spec
  <1>5. Spec => Ghost!Spec
    BY JoinedInvariant, <1>1, <1>3, PTL DEF Spec, Ghost!Spec
  <1>6. QED
    BY <1>4, <1>5 DEF ImplementsSides

LEMMA ObservedRanNext ==
  ASSUME JoinedInv, ObservedRan, [Next]_vars
  PROVE  ObservedRan'
  <1>1. SUFFICES ASSUME NEW i \in Intents, NEW c \in byCommandID'[i]
                 PROVE  returned'[Mirage!CommandID(i, c)] > 0
    BY DEF ObservedRan, Mirage!CommandID
  <1> DEFINE id == Mirage!CommandID(i, c)
  <1>2. /\ JoinedInv' /\ returned \in [CommandIDs -> Nat]
        /\ returned' \in [CommandIDs -> Nat]
        /\ TypeOK /\ AnswersReal
    <2>1. JoinedInv'
      BY JoinedNext
    <2>2. TypeOK' /\ TypeOK /\ AnswersReal
      BY <2>1 DEF JoinedInv, DispatchInv, LinkInv
    <2>3. QED
      BY <2>1, <2>2 DEF TypeOK, Ghost!TypeOK
  <1>3. c \in 1 .. MaxSteps
    BY <1>2 DEF JoinedInv, DispatchInv, LinkInv, PlansBounded
  <1>4. id \in CommandIDs
    BY <1>3 DEF Mirage!CommandID, CommandIDs
  <1>5. returned[id] > 0
    <2>1. CASE c \in byCommandID[i]
      BY <2>1 DEF ObservedRan
    <2>2. ASSUME NEW w \in Workers, NEW p \in Requests, TakeReply(w, p),
                 request[p].command = id
          PROVE  returned[id] > 0
      BY <1>2, <2>2 DEF TakeReply, AnswersReal
    <2>3. QED
      BY <2>1, <2>2, ObservedByReply
  <1>6. returned'[id] >= returned[id]
    BY <1>4, HistoriesGrow
  <1>7. returned'[id] \in Nat /\ returned[id] \in Nat
    BY <1>2, <1>4
  <1>8. QED
    BY <1>5, <1>6, <1>7

\* What Mirage counts as observed has run to its end on the Ghost and been
\* answered, however many calls were lost and however often the Ghost died.
THEOREM ObservedHasRun == Spec => []ObservedRan
  <1>1. Init => ObservedRan
    BY DEF Init, Mirage!Init, ObservedRan
  <1>2. JoinedInv /\ ObservedRan /\ [Next]_vars => ObservedRan'
    BY ObservedRanNext
  <1>3. QED
    BY <1>1, <1>2, JoinedInvariant, PTL DEF Spec

\* A request that reaches a Ghost which is up is refused for one reason only:
\* the Ghost knows the command id.  The message ids of the endpoint never
\* collide, and its ghost id is the Ghost's own.
THEOREM RefusalsAreOfKnown == Spec => []RefusedMeansKnown
  <1>1. JoinedInv => RefusedMeansKnown
    <2> SUFFICES ASSUME JoinedInv, NEW p \in Requests, At(p, "sent"), phase = "radiating",
                        executionByCmdID[request[p].command] = None
                 PROVE  Ghost!Accepts(CommandOf(p))
      BY DEF RefusedMeansKnown
    <2>1. TypeOK /\ MessageIDsCounted /\ GhostIsUp
      BY DEF JoinedInv, DispatchInv, LinkInv
    <2>2. request[p].command \in CommandIDs
      BY <2>1, RequestType DEF At
    <2>3. adminSeq \in Nat /\ commandByMessageID[adminSeq + 1] = None
      BY <2>1, <2>2, NextMessageID
    <2>4. ghostID = TheGhost
      BY <2>1 DEF GhostIsUp
    <2>5. QED
      BY <2>3, <2>4 DEF Ghost!Accepts, CommandOf
  <1>2. QED
    BY JoinedInvariant, <1>1, PTL

\* KnownIsAccounted of one command id.
Accounted(i, c) ==
  \/ \E k \in Intents : SanitizeID[k] = SanitizeID[i] /\ c \in byCommandID[k]
  \/ \E p \in Requests : Carries(p, Mirage!CommandID(i, c))

LEMMA KnownIsAccountedNext ==
  ASSUME JoinedInv, KnownIsAccounted, [Next]_vars
  PROVE  KnownIsAccounted'
  <1>1. SUFFICES ASSUME losses' = 0, \A k \in Intents : issued'[k] <= 1,
                        NEW i \in Intents, NEW c \in 1 .. MaxSteps,
                        executionByCmdID'[Mirage!CommandID(i, c)] # None
                 PROVE  Accounted(i, c)'
    BY DEF KnownIsAccounted, Accounted, Mirage!CommandID
  <1> DEFINE id == Mirage!CommandID(i, c)
  <1>2. /\ id \in CommandIDs
        /\ losses \in Nat /\ losses' \in Nat /\ TypeOK /\ DispatchInv
        /\ issued \in [Intents -> Nat]
        /\ issued' \in [Intents -> Nat]
        /\ request \in [Requests -> Request \cup {None}]
        /\ None \notin Request
    <2>1. JoinedInv'
      BY JoinedNext
    <2>2. TypeOK' /\ TypeOK /\ DispatchInv
      BY <2>1 DEF JoinedInv, DispatchInv
    <2>3. id \in CommandIDs
      BY DEF Mirage!CommandID, CommandIDs
    <2>4. /\ losses \in Nat /\ losses' \in Nat
          /\ request \in [Requests -> Request \cup {None}]
          /\ Mirage!TypeOK /\ Mirage!TypeOK'
      BY <2>2 DEF TypeOK
    <2>5. issued \in [Intents -> Nat] /\ issued' \in [Intents -> Nat]
      BY <2>4 DEF Mirage!TypeOK
    <2>6. QED
      BY <2>2, <2>3, <2>4, <2>5, SidesAssumption
  <1>3. losses = 0 /\ \A k \in Intents : issued[k] <= 1
    <2>1. losses' >= losses /\ \A k \in Intents : issued'[k] >= issued[k]
      BY HistoriesGrow
    <2>2. \A k \in Intents : issued'[k] \in Nat /\ issued[k] \in Nat
      BY <1>2
    <2>3. QED
      BY <1>1, <1>2, <2>1, <2>2
  <1>4. ~ GhostDies
    BY <1>1, <1>2, KnownByAccept
  <1>5. CASE executionByCmdID[id] # None
    <2>1. Accounted(i, c)
      BY <1>3, <1>5 DEF KnownIsAccounted, Accounted
    <2>2. ASSUME NEW k \in Intents, SanitizeID[k] = SanitizeID[i], c \in byCommandID[k]
          PROVE  Accounted(i, c)'
      <3>1. issued[k] # 0
        BY <1>2, <2>2 DEF DispatchInv, LinkInv, SubmittedFirst
      <3>2. issued'[k] # issued[k] + 1
        BY <1>1, <1>2, <3>1
      <3>3. c \in byCommandID'[k]
        BY <2>2, <3>2, ObservedGrows
      <3>4. QED
        BY <2>2, <3>3 DEF Accounted
    <2>3. ASSUME NEW p \in Requests, Carries(p, id), NEW w \in Workers, TakeReply(w, p)
          PROVE  Accounted(i, c)'
      <3>1. PICK k \in Intents, d \in 1 .. MaxSteps :
              /\ request[p].command = Mirage!CommandID(k, d)
              /\ byCommandID' = [byCommandID EXCEPT ![k] = @ \cup {d}]
        BY <2>3, TakeReplyEffect
      <3>2. SanitizeID[k] = SanitizeID[i] /\ c = d
        BY <2>3, <3>1 DEF Carries, Mirage!CommandID
      <3>3. c \in byCommandID'[k]
        BY <1>2, <3>1, <3>2 DEF TypeOK, Mirage!TypeOK
      <3>4. QED
        BY <3>2, <3>3 DEF Accounted
    <2>4. ASSUME NEW p \in Requests, Carries(p, id), ~ \E w \in Workers : TakeReply(w, p)
          PROVE  Accounted(i, c)'
      <3>1. Carries(p, id)'
        BY <1>1, <1>4, <2>4, CarriesNext
      <3>2. QED
        BY <3>1 DEF Accounted, Carries, Mirage!CommandID
    <2>5. QED
      BY <2>1, <2>2, <2>3, <2>4 DEF Accounted
  <1>6. ASSUME NEW p \in Requests, Accept(p), request[p].command = id
        PROVE  Accounted(i, c)'
    <2>1. request[p] # None /\ request' = [request EXCEPT ![p].at = "running"]
      BY <1>6 DEF Accept, At
    <2>2. request[p] \in Request /\ request[p].worker # None
      BY <1>2, <1>3, <2>1 DEF DispatchInv, LinkInv, WaitersPresent
    <2>3. request'[p] = [request[p] EXCEPT !.at = "running"]
      BY <1>2, <2>1
    <2>4. /\ request'[p] \in Request /\ request'[p].at = "running"
          /\ request'[p].command = id /\ request'[p].worker # None
      BY <1>6, <2>2, <2>3 DEF Request
    <2>5. Carries(p, id)'
      BY <1>2, <2>4 DEF Carries, At, Mirage!CommandID
    <2>6. QED
      BY <2>5 DEF Accounted, Carries, Mirage!CommandID
  <1>7. QED
    BY <1>1, <1>2, <1>5, <1>6, KnownByAccept

\* While no call was lost and no intent submitted twice, the Ghost's refusal
\* of a command it knows does no harm: Mirage has observed it, or its event is
\* on the way to a worker that waits for it.
THEOREM KnownAccountedFor == Spec => []KnownIsAccounted
  <1>1. Init => KnownIsAccounted
    BY DEF Init, Ghost!Init, KnownIsAccounted, Mirage!CommandID, CommandIDs
  <1>2. JoinedInv /\ KnownIsAccounted /\ [Next]_vars => KnownIsAccounted'
    BY KnownIsAccountedNext
  <1>3. QED
    BY <1>1, <1>2, JoinedInvariant, PTL DEF Spec

\* However often Mirage sends a command again, the Ghost runs its seed at most
\* once in the life of its process.
COROLLARY RunsOncePerLifeJoined == Spec => []Ghost!AtMostOneRunPerLife
  <1>1. JoinedInv => Ghost!AtMostOneRunPerLife
    BY DEF JoinedInv, GP!AtMostOneRunPerLife, Ghost!AtMostOneRunPerLife
  <1>2. QED
    BY JoinedInvariant, <1>1, PTL

\* When a command of the issue that is current has gone out, every earlier
\* command of its plan has run to its end on the Ghost.
RunsInPlanOrder ==
  \A d \in dispatched :
    d[2] = issued[d[1]] =>
      \A c \in 1 .. (d[3] - 1) : returned[Mirage!CommandID(d[1], c)] > 0

\* The plan's order, which Mirage keeps by what it has observed, is the order in
\* which the Ghost ran the commands (control-loop.md: "one ordered command
\* plan"): a lost call or a crash never lets a later command overtake.
THEOREM PlanOrderOnGhost == Spec => []RunsInPlanOrder
  <1>1. Spec => MP!Spec
    <2>1. MP!Spec <=> Mirage!Spec
      <3>1. Mirage!Init <=> MP!Init
        BY SameMirage
      <3>2. [Mirage!Next]_(Mirage!vars) <=> [MP!Next]_(MP!vars)
        BY SameMirage DEF Mirage!vars, MP!vars
      <3>3. QED
        BY <3>1, <3>2, PTL DEF Mirage!Spec, MP!Spec
    <2>2. QED
      BY <2>1, SidesImplemented DEF ImplementsSides
  <1>2. MP!Spec => []MP!DispatchOrder
    BY MP!DispatchOrdered, SidesAssumed
  <1>3. JoinedInv /\ ObservedRan /\ MP!DispatchOrder => RunsInPlanOrder
    <2> SUFFICES ASSUME JoinedInv, ObservedRan, MP!DispatchOrder,
                        NEW d \in dispatched, d[2] = issued[d[1]],
                        NEW c \in 1 .. (d[3] - 1)
                 PROVE  returned[Mirage!CommandID(d[1], c)] > 0
      BY DEF RunsInPlanOrder
    <2>1. d[1] \in Intents
      BY DEF JoinedInv, DispatchInv, TypeOK, Mirage!TypeOK
    <2>2. c \in byCommandID[d[1]]
      BY DEF MP!DispatchOrder
    <2>3. QED
      BY <2>1, <2>2 DEF ObservedRan
  <1>4. QED
    BY <1>1, <1>2, <1>3, JoinedInvariant, ObservedHasRun, PTL
=============================================================================
