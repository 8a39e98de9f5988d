------------------------ MODULE Orchestrator_proofs ------------------------
(***************************************************************************)
(* Theorems about the orchestration loop, for every set of intents,        *)
(* Ghosts, seeds, workers and plans.                                       *)
(***************************************************************************)
EXTENDS Orchestrator, FiniteSetTheorems, TLAPS

\* A pending command is a position of the plan, and its step is a Step.
LEMMA PendingIsStep ==
  ASSUME TypeOK, NEW i \in Intents, NEW c \in Pending(i)
  PROVE  /\ c \in Nat
         /\ c \in 1 .. Len(desired[i])
         /\ c \notin byCommandID[i]
         /\ desired[i] \in Seq(Step)
         /\ desired[i][c] \in Step
  BY DEF TypeOK, Pending

\* Taking a lock keeps the lock table well typed.
LEMMA AcquireType ==
  ASSUME TypeOK, NEW i \in Intents, NEW c \in Pending(i), AcquireSeedLock(i, c)
  PROVE  seedLocks' \in [SeedKey -> Owner \cup {None}]
  <1>1. OwnerOf(i, c) \in Owner
    BY PendingIsStep DEF OwnerOf, Owner
  <1>2. QED
    BY <1>1 DEF AcquireSeedLock, TypeOK

\* A worker that is not idle has a well typed job.
LEMMA BusyHasJob ==
  ASSUME TypeOK, NEW w \in Workers, pc[w] # "idle"
  PROVE  job[w] \in Job
  BY DEF TypeOK

LEMMA IngestType ==
  ASSUME TypeOK, NEW i \in Intents, NEW plan, NEW c \in Nat, NEW o \in Outcome,
         Ingest(i, plan, c, o)
  PROVE  /\ byCommandID' \in [Intents -> SUBSET Nat]
         /\ events' \in [Intents -> Seq(Nat)]
         /\ report' \in [Intents -> [command : Nat, completion : Completion]]
         /\ seedLocks' \in [SeedKey -> Owner \cup {None}]
  <1>1. CompletionAfter(plan, byCommandID[i], o) \in Completion
    BY DEF CompletionAfter, Completion
  <1>2. byCommandID' \in [Intents -> SUBSET Nat]
    BY DEF TypeOK, Ingest
  <1>3. events' \in [Intents -> Seq(Nat)]
    BY DEF TypeOK, Ingest
  <1>4. report' \in [Intents -> [command : Nat, completion : Completion]]
    BY <1>1 DEF TypeOK, Ingest
  <1>5. seedLocks' \in [SeedKey -> Owner \cup {None}]
    BY DEF TypeOK, Ingest
  <1>6. QED
    BY <1>2, <1>3, <1>4, <1>5

LEMMA InitType == Init => TypeOK
  BY EnvironmentAssumption DEF Init, TypeOK, NoReport, Completion, SeedKey

LEMMA NextType == TypeOK /\ [Next]_vars => TypeOK'
  <1> SUFFICES ASSUME TypeOK, [Next]_vars PROVE TypeOK'
    OBVIOUS
  <1> USE DEF intentVars, workerVars, historyVars
  <1>1. ASSUME NEW i \in Intents, SubmitIssue(i) PROVE TypeOK'
    <2>1. Plans[i] \subseteq Seq(Step)
      BY PlansAssumption
    <2>2. desired' \in [Intents -> Seq(Step)]
      BY <1>1, <2>1 DEF SubmitIssue, TypeOK
    <2>3. /\ byCommandID' \in [Intents -> SUBSET Nat]
          /\ events' \in [Intents -> Seq(Nat)]
          /\ issued' \in [Intents -> Nat]
      BY <1>1 DEF SubmitIssue, TypeOK
    <2>4. report' \in [Intents -> [command : Nat, completion : Completion]]
      BY <1>1 DEF SubmitIssue, TypeOK, NoReport, Completion
    <2>5. UNCHANGED <<executors, seedLocks, pc, job, dispatched>>
      BY <1>1 DEF SubmitIssue
    <2>6. QED
      BY <2>2, <2>3, <2>4, <2>5 DEF TypeOK
  <1>2. ASSUME NEW g \in Ghosts, RegisterExecutor(g) PROVE TypeOK'
    BY <1>2 DEF RegisterExecutor, TypeOK
  <1>3. ASSUME NEW w \in Workers, NEW i \in Intents, ReconcileBlocked(w, i)
        PROVE  TypeOK'
    <2>1. PICK c \in Pending(i) :
            report' = [report EXCEPT ![i] =
                         [command |-> c, completion |-> "in_progress"]]
      BY <1>3 DEF ReconcileBlocked
    <2>2. QED
      BY <1>3, <2>1, PendingIsStep DEF ReconcileBlocked, TypeOK, Completion
  <1>4. ASSUME NEW w \in Workers, NEW i \in Intents, ReconcileNoExecutor(w, i)
        PROVE  TypeOK'
    <2>1. seedLocks' \in [SeedKey -> Owner \cup {None}]
      BY <1>4, AcquireType DEF ReconcileNoExecutor
    <2>2. QED
      BY <1>4, <2>1 DEF ReconcileNoExecutor, TypeOK
  <1>5. ASSUME NEW w \in Workers, NEW i \in Intents, ReconcileDispatch(w, i)
        PROVE  TypeOK'
    <2> DEFINE J(c) == [intent |-> i, issue |-> issued[i],
                        plan |-> desired[i], command |-> c]
    <2>1. PICK c \in Pending(i) :
            /\ AcquireSeedLock(i, c)
            /\ job' = [job EXCEPT ![w] = J(c)]
            /\ dispatched' = dispatched \cup {<<i, issued[i], c>>}
      BY <1>5 DEF ReconcileDispatch
    <2>2. seedLocks' \in [SeedKey -> Owner \cup {None}]
      BY <2>1, AcquireType
    <2>3. J(c) \in Job /\ J(c) # None
      BY PendingIsStep, NoneAssumption DEF Job, TypeOK
    <2>4. <<i, issued[i], c>> \in Intents \X Nat \X Nat
      BY PendingIsStep DEF TypeOK
    <2>5. dispatched' \subseteq Intents \X Nat \X Nat
      BY <2>1, <2>4 DEF TypeOK
    <2> HIDE DEF J
    <2>6. /\ job' \in [Workers -> Job \cup {None}]
          /\ pc' \in [Workers -> {"idle", "executing", "releasing"}]
          /\ \A v \in Workers : pc'[v] = "idle" <=> job'[v] = None
      BY <1>5, <2>1, <2>3 DEF ReconcileDispatch, TypeOK
    <2>7. QED
      BY <1>5, <2>2, <2>5, <2>6 DEF ReconcileDispatch, TypeOK
  <1>6. ASSUME NEW w \in Workers, ExecuteFails(w) PROVE TypeOK'
    BY <1>6 DEF ExecuteFails, TypeOK
  <1>7. ASSUME NEW w \in Workers, ReleaseSeedLock(w) PROVE TypeOK'
    <2>1. seedLocks' \in [SeedKey -> Owner \cup {None}]
      BY <1>7 DEF ReleaseSeedLock, TypeOK
    <2>2. QED
      BY <1>7, <2>1 DEF ReleaseSeedLock, Finish, TypeOK
  <1>8. ASSUME NEW w \in Workers, NEW o \in Outcome, IngestReply(w, o)
        PROVE  TypeOK'
    <2>1. job[w] \in Job
      BY <1>8, BusyHasJob DEF IngestReply
    <2>2. job[w].intent \in Intents /\ job[w].command \in Nat
      BY <2>1 DEF Job
    <2>3. /\ byCommandID' \in [Intents -> SUBSET Nat]
          /\ events' \in [Intents -> Seq(Nat)]
          /\ report' \in [Intents -> [command : Nat, completion : Completion]]
          /\ seedLocks' \in [SeedKey -> Owner \cup {None}]
      BY <1>8, <2>2, IngestType DEF IngestReply
    <2>4. QED
      BY <1>8, <2>3 DEF IngestReply, Finish, TypeOK
  <1>9. ASSUME NEW i \in Intents, NEW o \in Outcome,
               NEW c \in DOMAIN desired[i], IngestObservedEvent(i, c, o)
        PROVE  TypeOK'
    <2>1. c \in Nat
      BY <1>9, PendingIsStep DEF IngestObservedEvent
    <2>2. /\ byCommandID' \in [Intents -> SUBSET Nat]
          /\ events' \in [Intents -> Seq(Nat)]
          /\ report' \in [Intents -> [command : Nat, completion : Completion]]
          /\ seedLocks' \in [SeedKey -> Owner \cup {None}]
      BY <1>9, <2>1, IngestType DEF IngestObservedEvent
    <2>3. QED
      BY <1>9, <2>2 DEF IngestObservedEvent, TypeOK
  <1>10. CASE UNCHANGED vars
    BY <1>10 DEF vars, TypeOK
  <1>11. QED
    BY <1>1, <1>2, <1>3, <1>4, <1>5, <1>6, <1>7, <1>8, <1>9, <1>10 DEF Next

\* Every reachable state is well typed.
THEOREM TypeCorrect == Spec => []TypeOK
  BY InitType, NextType, PTL DEF Spec

-----------------------------------------------------------------------------
(***************************************************************************)
(* Dispatch order.  It holds however workers, resubmissions and session    *)
(* events interleave: what is observed only grows until the next issue,    *)
(* and a record of dispatch never carries an issue still to come.          *)
(***************************************************************************)
DispatchInv ==
  \A d \in dispatched :
    /\ d[2] <= issued[d[1]]
    /\ d[2] = issued[d[1]] => 1 .. (d[3] - 1) \subseteq byCommandID[d[1]]

\* Everything before the next pending command is observed.
LEMMA NextAfterObserved ==
  ASSUME TypeOK, NEW i \in Intents, NEW c \in Pending(i), IsNext(i, c)
  PROVE  1 .. (c - 1) \subseteq byCommandID[i]
  <1>1. c \in 1 .. Len(desired[i]) /\ c \in Nat
    BY PendingIsStep
  <1>2. DOMAIN desired[i] = 1 .. Len(desired[i]) /\ Len(desired[i]) \in Nat
    BY DEF TypeOK
  <1>3. ASSUME NEW n \in 1 .. (c - 1), n \notin byCommandID[i] PROVE FALSE
    <2>1. n \in Pending(i)
      BY <1>1, <1>2, <1>3 DEF Pending
    <2>2. c <= n
      BY <2>1 DEF IsNext
    <2>3. QED
      BY <1>1, <1>3, <2>2
  <1>4. QED
    BY <1>3

\* An event, from wherever it comes, adds to what is observed.
LEMMA IngestGrows ==
  ASSUME TypeOK, NEW i \in Intents, NEW plan, NEW c \in Nat, NEW o \in Outcome,
         Ingest(i, plan, c, o), DispatchInv, UNCHANGED <<issued, dispatched>>
  PROVE  DispatchInv'
  <1>1. \A j \in Intents : byCommandID[j] \subseteq byCommandID'[j]
    BY DEF TypeOK, Ingest
  <1>2. \A d \in dispatched : d[1] \in Intents
    BY DEF TypeOK
  <1>3. QED
    BY <1>1, <1>2 DEF DispatchInv

LEMMA NextDispatch == TypeOK /\ DispatchInv /\ [Next]_vars => DispatchInv'
  <1> SUFFICES ASSUME TypeOK, DispatchInv, [Next]_vars PROVE DispatchInv'
    OBVIOUS
  <1> USE DEF intentVars, workerVars, historyVars
  <1>0. \A d \in dispatched : d[1] \in Intents /\ d[2] \in Nat /\ d[3] \in Nat
    BY DEF TypeOK
  <1>1. ASSUME NEW i \in Intents, SubmitIssue(i) PROVE DispatchInv'
    <2>1. \A j \in Intents : /\ issued[j] \in Nat
                             /\ issued'[j] = IF j = i THEN issued[j] + 1 ELSE issued[j]
                             /\ j # i => byCommandID'[j] = byCommandID[j]
      BY <1>1 DEF SubmitIssue, TypeOK
    <2>2. dispatched' = dispatched
      BY <1>1 DEF SubmitIssue
    <2>3. ASSUME NEW d \in dispatched
          PROVE  /\ d[2] <= issued'[d[1]]
                 /\ d[2] = issued'[d[1]] => 1 .. (d[3] - 1) \subseteq byCommandID'[d[1]]
      <3>1. d[2] <= issued[d[1]] /\ d[1] \in Intents /\ d[2] \in Nat
        BY <1>0 DEF DispatchInv
      <3>2. CASE d[1] = i
        BY <2>1, <3>1, <3>2
      <3>3. CASE d[1] # i
        BY <2>1, <3>1, <3>3 DEF DispatchInv
      <3>4. QED
        BY <3>2, <3>3
    <2>4. QED
      BY <2>2, <2>3 DEF DispatchInv
  <1>2. ASSUME NEW g \in Ghosts, RegisterExecutor(g) PROVE DispatchInv'
    BY <1>2 DEF RegisterExecutor, DispatchInv
  <1>3. ASSUME NEW w \in Workers, NEW i \in Intents, ReconcileBlocked(w, i)
        PROVE  DispatchInv'
    BY <1>3 DEF ReconcileBlocked, DispatchInv
  <1>4. ASSUME NEW w \in Workers, NEW i \in Intents, ReconcileNoExecutor(w, i)
        PROVE  DispatchInv'
    BY <1>4 DEF ReconcileNoExecutor, DispatchInv
  <1>5. ASSUME NEW w \in Workers, NEW i \in Intents, ReconcileDispatch(w, i)
        PROVE  DispatchInv'
    <2>1. PICK c \in Pending(i) :
            IsNext(i, c) /\ dispatched' = dispatched \cup {<<i, issued[i], c>>}
      BY <1>5 DEF ReconcileDispatch
    <2>2. 1 .. (c - 1) \subseteq byCommandID[i]
      BY <2>1, NextAfterObserved
    <2>3. issued[i] \in Nat
      BY DEF TypeOK
    <2>4. UNCHANGED <<issued, byCommandID>>
      BY <1>5 DEF ReconcileDispatch
    <2>5. QED
      BY <2>1, <2>2, <2>3, <2>4 DEF DispatchInv
  <1>6. ASSUME NEW w \in Workers, ExecuteFails(w) PROVE DispatchInv'
    BY <1>6 DEF ExecuteFails, DispatchInv
  <1>7. ASSUME NEW w \in Workers, ReleaseSeedLock(w) PROVE DispatchInv'
    BY <1>7 DEF ReleaseSeedLock, DispatchInv
  <1>8. ASSUME NEW w \in Workers, NEW o \in Outcome, IngestReply(w, o)
        PROVE  DispatchInv'
    <2>1. job[w].intent \in Intents /\ job[w].command \in Nat
      BY <1>8, BusyHasJob DEF IngestReply, Job
    <2>2. QED
      BY <1>8, <2>1, IngestGrows DEF IngestReply
  <1>9. ASSUME NEW i \in Intents, NEW o \in Outcome,
               NEW c \in DOMAIN desired[i], IngestObservedEvent(i, c, o)
        PROVE  DispatchInv'
    <2>1. c \in Nat
      BY <1>9, PendingIsStep DEF IngestObservedEvent
    <2>2. QED
      BY <1>9, <2>1, IngestGrows DEF IngestObservedEvent
  <1>10. CASE UNCHANGED vars
    BY <1>10 DEF vars, DispatchInv
  <1>11. QED
    BY <1>1, <1>2, <1>3, <1>4, <1>5, <1>6, <1>7, <1>8, <1>9, <1>10 DEF Next

\* Commands go out in plan order, however many workers and clients there are
\* (nextPendingCommand is evaluated in the section that dispatches).
THEOREM DispatchOrdered == Spec => []DispatchOrder
  <1>1. Init => DispatchInv
    BY DEF Init, DispatchInv
  <1>2. DispatchInv => DispatchOrder
    BY DEF DispatchInv, DispatchOrder
  <1>3. QED
    BY InitType, NextType, <1>1, NextDispatch, <1>2, PTL DEF Spec

-----------------------------------------------------------------------------
(***************************************************************************)
(* Lock ownership.  The lock of an intent that has been submitted once     *)
(* never outlives the command that took it, whatever workers, session      *)
(* events and other intents do, and however often those are submitted: the *)
(* plan a call works with cannot have been replaced under it.              *)
(***************************************************************************)
PlanIsCurrent ==
  /\ \A i \in Intents : issued[i] = 0 => desired[i] = << >>
  /\ \A w \in Workers :
       pc[w] # "idle" => /\ issued[job[w].intent] # 0
                         /\ issued[job[w].intent] = 1 => job[w].plan = desired[job[w].intent]

\* LockOwnerPending for the locks of intents that were submitted once.
SingleIssueLocks ==
  \A k \in SeedKey :
    LET o == seedLocks[k] IN
    o # None /\ issued[o.intent] <= 1 =>
      /\ o.command \in Pending(o.intent)
      /\ desired[o.intent][o.command].blocking
      /\ KeyOf(desired[o.intent][o.command]) = k

IssuesBounded == \A i \in Intents : issued[i] <= MaxIssues

LockInv == PlanIsCurrent /\ SingleIssueLocks /\ IssuesBounded

\* A lock that is taken has a pending owner.
LEMMA AcquireOwned ==
  ASSUME TypeOK, SingleIssueLocks, NEW i \in Intents, NEW c \in Pending(i),
         AcquireSeedLock(i, c), UNCHANGED <<desired, byCommandID, issued>>
  PROVE  SingleIssueLocks'
  <1> SUFFICES ASSUME NEW k \in SeedKey, seedLocks'[k] # None,
                      issued[seedLocks'[k].intent] <= 1
               PROVE  LET o == seedLocks'[k] IN
                      /\ o.command \in Pending(o.intent)
                      /\ desired[o.intent][o.command].blocking
                      /\ KeyOf(desired[o.intent][o.command]) = k
    BY DEF SingleIssueLocks, Pending, KeyOf
  <1>1. CASE seedLocks'[k] = seedLocks[k]
    BY <1>1 DEF SingleIssueLocks
  <1>2. CASE seedLocks'[k] # seedLocks[k]
    <2>1. /\ desired[i][c].blocking
          /\ KeyOf(desired[i][c]) = k
          /\ seedLocks'[k] = OwnerOf(i, c)
      BY <1>2 DEF AcquireSeedLock, TypeOK
    <2>2. QED
      BY <2>1 DEF OwnerOf
  <1>3. QED
    BY <1>1, <1>2

\* An event of a command of the current plan clears the command's own lock.
LEMMA IngestOwned ==
  ASSUME TypeOK, SingleIssueLocks, NEW i \in Intents, NEW c \in Nat,
         NEW o \in Outcome, NEW plan, Ingest(i, plan, c, o),
         issued[i] <= 1 => plan = desired[i], UNCHANGED <<desired, issued>>
  PROVE  SingleIssueLocks'
  <1> SUFFICES ASSUME NEW k \in SeedKey, seedLocks'[k] # None,
                      issued[seedLocks'[k].intent] <= 1
               PROVE  LET x == seedLocks'[k] IN
                      /\ x.command \in DOMAIN desired[x.intent]
                      /\ x.command \notin byCommandID'[x.intent]
                      /\ desired[x.intent][x.command].blocking
                      /\ KeyOf(desired[x.intent][x.command]) = k
    BY DEF SingleIssueLocks, Pending, KeyOf
  <1>1. seedLocks'[k] = seedLocks[k]
    BY DEF Ingest, TypeOK
  <1> DEFINE x == seedLocks[k]
  <1>2. /\ x \in Owner
        /\ x.command \in DOMAIN desired[x.intent]
        /\ x.command \notin byCommandID[x.intent]
        /\ desired[x.intent][x.command].blocking
        /\ KeyOf(desired[x.intent][x.command]) = k
    BY <1>1 DEF SingleIssueLocks, Pending, TypeOK
  <1>3. x.intent \in Intents
    BY <1>2 DEF Owner
  <1>4. ASSUME x.intent = i, x.command = c PROVE FALSE
    <2>1. plan = desired[i]
      BY <1>1, <1>4
    <2>2. seedLocks'[k] = None
      BY <1>2, <1>4, <2>1 DEF Ingest, TypeOK
    <2> QED
      BY <2>2
  <1>5. byCommandID' = [byCommandID EXCEPT ![i] = @ \cup {c}]
    BY DEF Ingest
  <1>6. x.command \notin byCommandID'[x.intent]
    BY <1>2, <1>3, <1>4, <1>5 DEF TypeOK
  <1>7. QED
    BY <1>1, <1>2, <1>6

LEMMA NextOwned ==
  ASSUME TypeOK, LockInv, [Next]_vars
  PROVE  LockInv'
  <1> USE DEF LockInv, intentVars, workerVars, historyVars
  <1>1. ASSUME NEW i \in Intents, SubmitIssue(i) PROVE LockInv'
    <2>1. /\ \A j \in Intents \ {i} : /\ desired'[j] = desired[j]
                                      /\ byCommandID'[j] = byCommandID[j]
                                      /\ issued'[j] = issued[j]
          /\ issued[i] \in Nat /\ issued'[i] = issued[i] + 1 /\ issued'[i] <= MaxIssues
          /\ UNCHANGED <<seedLocks, pc, job>>
      BY <1>1, EnvironmentAssumption DEF SubmitIssue, TypeOK
    <2>2. \A w \in Workers : pc[w] # "idle" => job[w].intent \in Intents
      BY BusyHasJob DEF Job
    <2>3. PlanIsCurrent'
      <3>1. ASSUME NEW w \in Workers, pc'[w] # "idle"
            PROVE  /\ issued'[job'[w].intent] # 0
                   /\ issued'[job'[w].intent] = 1 => job'[w].plan = desired'[job'[w].intent]
        <4>1. job'[w] = job[w] /\ pc[w] # "idle" /\ job[w].intent \in Intents
          BY <2>1, <2>2, <3>1
        <4>2. CASE job[w].intent = i
          <5>1. issued[i] # 0
            BY <4>1, <4>2 DEF PlanIsCurrent
          <5> QED
            BY <2>1, <4>1, <4>2, <5>1
        <4>3. CASE job[w].intent # i
          BY <2>1, <4>1, <4>3 DEF PlanIsCurrent
        <4> QED
          BY <4>2, <4>3
      <3>2. \A j \in Intents : issued'[j] = 0 => desired'[j] = << >>
        BY <2>1 DEF PlanIsCurrent
      <3> QED
        BY <3>1, <3>2 DEF PlanIsCurrent
    <2>4. SingleIssueLocks'
      <3> SUFFICES ASSUME NEW k \in SeedKey, seedLocks[k] # None,
                          issued'[seedLocks[k].intent] <= 1
                   PROVE  LET x == seedLocks[k] IN
                          /\ x.command \in DOMAIN desired'[x.intent]
                          /\ x.command \notin byCommandID'[x.intent]
                          /\ desired'[x.intent][x.command].blocking
                          /\ KeyOf(desired'[x.intent][x.command]) = k
        BY <2>1 DEF SingleIssueLocks, Pending, KeyOf
      <3>1. seedLocks[k].intent \in Intents
        BY DEF TypeOK, Owner
      <3>2. ASSUME seedLocks[k].intent = i PROVE FALSE
        <4>1. issued[i] = 0
          BY <2>1, <3>2
        <4>2. desired[i] = << >>
          BY <4>1 DEF PlanIsCurrent
        <4>3. seedLocks[k].command \in DOMAIN desired[i]
          BY <3>2, <4>1 DEF SingleIssueLocks, Pending
        <4> QED
          BY <4>2, <4>3
      <3>3. QED
        BY <2>1, <3>1, <3>2 DEF SingleIssueLocks, Pending
    <2>5. IssuesBounded'
      BY <2>1 DEF IssuesBounded
    <2>6. QED
      BY <2>3, <2>4, <2>5
  <1>2. ASSUME NEW g \in Ghosts, RegisterExecutor(g) PROVE LockInv'
    BY <1>2 DEF RegisterExecutor, PlanIsCurrent, IssuesBounded, SingleIssueLocks, Pending, KeyOf
  <1>3. ASSUME NEW w \in Workers, NEW i \in Intents, ReconcileBlocked(w, i)
        PROVE  LockInv'
    BY <1>3 DEF ReconcileBlocked, PlanIsCurrent, IssuesBounded, SingleIssueLocks, Pending, KeyOf
  <1>4. ASSUME NEW w \in Workers, NEW i \in Intents, ReconcileNoExecutor(w, i)
        PROVE  LockInv'
    <2>1. PlanIsCurrent' /\ IssuesBounded'
      BY <1>4 DEF ReconcileNoExecutor, PlanIsCurrent, IssuesBounded
    <2>2. QED
      BY <1>4, <2>1, AcquireOwned DEF ReconcileNoExecutor
  <1>5. ASSUME NEW w \in Workers, NEW i \in Intents, ReconcileDispatch(w, i)
        PROVE  LockInv'
    <2> DEFINE J(c) == [intent |-> i, issue |-> issued[i],
                        plan |-> desired[i], command |-> c]
    <2>1. PICK c \in Pending(i) :
            AcquireSeedLock(i, c) /\ job' = [job EXCEPT ![w] = J(c)]
      BY <1>5 DEF ReconcileDispatch
    <2>2. UNCHANGED <<desired, byCommandID, issued>>
      BY <1>5 DEF ReconcileDispatch
    <2>3. SingleIssueLocks'
      BY <2>1, <2>2, AcquireOwned
    <2>4. desired[i] # << >> /\ issued[i] # 0
      <3>1. desired[i] # << >>
        BY PendingIsStep
      <3> QED
        BY <3>1 DEF PlanIsCurrent
    <2>5. \A v \in Workers : v # w => pc'[v] = pc[v] /\ job'[v] = job[v]
      BY <1>5, <2>1 DEF ReconcileDispatch, TypeOK
    <2>6. job'[w] = J(c)
      BY <2>1 DEF TypeOK
    <2>7. PlanIsCurrent'
      BY <2>2, <2>4, <2>5, <2>6 DEF PlanIsCurrent
    <2>8. IssuesBounded'
      BY <2>2 DEF IssuesBounded
    <2>9. QED
      BY <2>3, <2>7, <2>8
  <1>6. ASSUME NEW w \in Workers, ExecuteFails(w) PROVE LockInv'
    <2>1. \A v \in Workers : pc'[v] # "idle" => pc[v] # "idle"
      BY <1>6 DEF ExecuteFails, TypeOK
    <2>2. QED
      BY <1>6, <2>1 DEF ExecuteFails, PlanIsCurrent, IssuesBounded, SingleIssueLocks, Pending, KeyOf
  <1>7. ASSUME NEW w \in Workers, ReleaseSeedLock(w) PROVE LockInv'
    <2>1. \A v \in Workers : pc'[v] # "idle" => pc[v] # "idle" /\ job'[v] = job[v]
      BY <1>7 DEF ReleaseSeedLock, Finish, TypeOK
    <2>2. \A k \in SeedKey : seedLocks'[k] \in {None, seedLocks[k]}
      BY <1>7 DEF ReleaseSeedLock, TypeOK
    <2>3. UNCHANGED <<desired, byCommandID, issued>>
      BY <1>7 DEF ReleaseSeedLock
    <2>4. SingleIssueLocks'
      BY <2>2, <2>3 DEF SingleIssueLocks, Pending, KeyOf
    <2>5. PlanIsCurrent' /\ IssuesBounded'
      BY <2>1, <2>3 DEF PlanIsCurrent, IssuesBounded
    <2>6. QED
      BY <2>4, <2>5
  <1>8. ASSUME NEW w \in Workers, NEW o \in Outcome, IngestReply(w, o)
        PROVE  LockInv'
    <2>1. /\ job[w].intent \in Intents
          /\ job[w].command \in Nat
          /\ issued[job[w].intent] <= 1 => job[w].plan = desired[job[w].intent]
      <3>1. /\ job[w].intent \in Intents /\ job[w].command \in Nat
            /\ issued[job[w].intent] \in Nat
        BY <1>8, BusyHasJob DEF IngestReply, Job, TypeOK
      <3>2. /\ issued[job[w].intent] # 0
            /\ issued[job[w].intent] = 1 => job[w].plan = desired[job[w].intent]
        BY <1>8 DEF IngestReply, PlanIsCurrent
      <3> QED
        BY <3>1, <3>2
    <2>2. /\ Ingest(job[w].intent, job[w].plan, job[w].command, o)
          /\ UNCHANGED <<desired, issued>>
      BY <1>8 DEF IngestReply
    <2>3. SingleIssueLocks'
      BY <2>1, <2>2, IngestOwned
    <2>4. \A v \in Workers : pc'[v] # "idle" => pc[v] # "idle" /\ job'[v] = job[v]
      BY <1>8 DEF IngestReply, Finish, TypeOK
    <2>5. PlanIsCurrent' /\ IssuesBounded'
      BY <2>2, <2>4 DEF PlanIsCurrent, IssuesBounded
    <2>6. QED
      BY <2>3, <2>5
  <1>9. ASSUME NEW i \in Intents, NEW o \in Outcome,
               NEW c \in DOMAIN desired[i], IngestObservedEvent(i, c, o)
        PROVE  LockInv'
    <2>1. c \in Nat
      BY <1>9, PendingIsStep DEF IngestObservedEvent
    <2>2. Ingest(i, desired[i], c, o) /\ UNCHANGED <<desired, pc, job, issued>>
      BY <1>9 DEF IngestObservedEvent
    <2>3. SingleIssueLocks'
      BY <2>1, <2>2, IngestOwned
    <2>4. QED
      BY <2>2, <2>3 DEF PlanIsCurrent, IssuesBounded
  <1>10. CASE UNCHANGED vars
    BY <1>10 DEF vars, PlanIsCurrent, IssuesBounded, SingleIssueLocks, Pending, KeyOf
  <1>11. QED
    BY <1>1, <1>2, <1>3, <1>4, <1>5, <1>6, <1>7, <1>8, <1>9, <1>10 DEF Next

LEMMA LockInvariant == Spec => []LockInv
  <1>1. Init => LockInv
    BY EnvironmentAssumption
       DEF Init, LockInv, PlanIsCurrent, SingleIssueLocks, IssuesBounded
  <1>2. TypeOK /\ LockInv /\ [Next]_vars => LockInv'
    BY NextOwned
  <1>3. QED
    BY InitType, NextType, <1>1, <1>2, PTL DEF Spec

\* A lock that outlives its purpose belongs to an intent that was submitted
\* more than once: with any number of workers, clients and session events, and
\* whatever happens to other intents, the lock of an intent that was submitted
\* once is owned by a blocking command on that seed which is still to be
\* observed (SubmitIssue, ReconcileOnce, IngestObservedEvent).
THEOREM OnlyResubmissionLeaks == Spec => []SingleIssueLocks
  <1>1. LockInv => SingleIssueLocks
    BY DEF LockInv
  <1>2. QED
    BY <1>1, LockInvariant, PTL

\* Hence no lock outlives its purpose while no intent is submitted twice.
THEOREM LocksNeverLeak ==
  ASSUME MaxIssues <= 1
  PROVE  Spec => []LockOwnerPending
  <1>1. TypeOK /\ LockInv => LockOwnerPending
    <2> SUFFICES ASSUME TypeOK, LockInv, NEW k \in SeedKey, seedLocks[k] # None
                 PROVE  LET o == seedLocks[k] IN
                        /\ o.command \in Pending(o.intent)
                        /\ desired[o.intent][o.command].blocking
                        /\ KeyOf(desired[o.intent][o.command]) = k
      BY DEF LockOwnerPending
    <2>1. seedLocks[k].intent \in Intents
      BY DEF TypeOK, Owner
    <2>2. issued[seedLocks[k].intent] \in Nat /\ issued[seedLocks[k].intent] <= MaxIssues
      BY <2>1 DEF TypeOK, LockInv, IssuesBounded
    <2>3. issued[seedLocks[k].intent] <= 1
      BY <2>2, EnvironmentAssumption DEF EnvironmentAssumption
    <2> QED
      BY <2>3 DEF LockInv, SingleIssueLocks
  <1>2. QED
    BY <1>1, InitType, NextType, LockInvariant, PTL DEF Spec

-----------------------------------------------------------------------------
(***************************************************************************)
(* What the orchestration loop guarantees when the admin clients of one    *)
(* intent take turns and Ghosts answer only the calls made to them, for    *)
(* any number of intents, workers, resubmissions and retries.  The runs    *)
(* MCOrchestratorFalseSatisfied and MCOrchestratorStompedLock show that    *)
(* the two assumptions are needed.                                         *)
(***************************************************************************)
Serial == SerialClients /\ ~SessionEvents

Busy(w) == pc[w] # "idle"

\* Nothing observed is the empty prefix.
LEMMA EmptyPrefix ==
  Len(<< >>) = 0 /\ DOMAIN << >> = {} /\ 1 .. 0 = {}
  OBVIOUS

\* How many numbers a prefix has.
LEMMA PrefixCount ==
  ASSUME NEW n \in Nat
  PROVE  Cardinality(1 .. n) = n
  <1>1. 1 \in Int /\ n \in Int
    OBVIOUS
  <1>2. Cardinality(1 .. n) = IF 1 > n THEN 0 ELSE n - 1 + 1
    BY <1>1, FS_Interval
  <1>3. QED
    BY <1>2

\* Nobody works on the intent of a call that may be made.
LEMMA MayCallAlone ==
  ASSUME Serial, NEW i \in Intents, MayCall(i), NEW w \in Workers, Busy(w)
  PROVE  job[w].intent # i
  BY DEF Serial, MayCall, InFlight, Busy

\* The job of a busy worker is well typed, and so is its step.
LEMMA JobFields ==
  ASSUME TypeOK, JobIsCurrent, NEW w \in Workers, Busy(w)
  PROVE  /\ job[w].intent \in Intents
         /\ job[w].command \in Nat
         /\ job[w].plan = desired[job[w].intent]
         /\ job[w].command \in 1 .. Len(desired[job[w].intent])
         /\ job[w].command = Len(events[job[w].intent]) + 1
         /\ JobStep(w) \in Step
         /\ KeyOf(JobStep(w)) \in SeedKey
         /\ OwnerOf(job[w].intent, job[w].command) \in Owner
  <1>1. job[w] \in Job
    BY BusyHasJob DEF Busy
  <1>2. /\ job[w].intent \in Intents
        /\ job[w].command \in Nat
        /\ job[w].plan \in Seq(Step)
    BY <1>1 DEF Job
  <1>3. /\ job[w].plan = desired[job[w].intent]
        /\ job[w].command \in DOMAIN job[w].plan
        /\ job[w].command = Len(events[job[w].intent]) + 1
    BY DEF JobIsCurrent, Busy
  <1>4. JobStep(w) \in Step
    BY <1>2, <1>3 DEF JobStep
  <1>5. KeyOf(JobStep(w)) \in SeedKey
    BY <1>4 DEF KeyOf, SeedKey, Step
  <1>6. QED
    BY <1>2, <1>3, <1>4, <1>5 DEF OwnerOf, Owner

\* The next pending command is the one after those observed.
LEMMA NextIsAfterPrefix ==
  ASSUME TypeOK, ObservedIsPrefix, NEW i \in Intents,
         NEW c \in Pending(i), IsNext(i, c)
  PROVE  c = Len(events[i]) + 1
  <1>1. /\ byCommandID[i] = 1 .. Len(events[i])
        /\ Len(events[i]) \in Nat
    BY DEF ObservedIsPrefix, TypeOK
  <1>2. c \in Nat /\ c >= 1 /\ c \notin byCommandID[i]
    BY PendingIsStep
  <1>3. 1 .. (c - 1) \subseteq byCommandID[i]
    BY NextAfterObserved
  <1>4. CASE c = 1
    BY <1>1, <1>2, <1>4
  <1>5. CASE c > 1
    <2>1. c - 1 \in 1 .. Len(events[i])
      BY <1>1, <1>2, <1>3, <1>5
    <2>2. QED
      BY <1>1, <1>2, <2>1
  <1>6. QED
    BY <1>2, <1>4, <1>5

-----------------------------------------------------------------------------
(***************************************************************************)
(* The lock table.                                                         *)
(***************************************************************************)

\* A call that takes a lock takes it from nobody at work.
LEMMA AcquireKeepsLocks ==
  ASSUME Serial, TypeOK, JobIsCurrent, InFlightOwnsLock,
         NEW i \in Intents, MayCall(i), NEW c \in Pending(i),
         LockAvailable(i, c), AcquireSeedLock(i, c),
         NEW w \in Workers, NEW k \in SeedKey, HoldsKey(w, k)
  PROVE  seedLocks'[k] = OwnerOf(job[w].intent, job[w].command)
  <1> DEFINE step == desired[i][c]
             o == OwnerOf(job[w].intent, job[w].command)
  <1>1. seedLocks[k] = o /\ o \in Owner /\ o # None
    BY JobFields, NoneAssumption DEF HoldsKey, InFlightOwnsLock, Busy
  <1>2. o # OwnerOf(i, c)
    BY MayCallAlone DEF HoldsKey, Busy, OwnerOf
  <1>3. CASE step.blocking /\ KeyOf(step) = k
    BY <1>1, <1>2, <1>3 DEF LockAvailable
  <1>4. CASE ~(step.blocking /\ KeyOf(step) = k)
    BY <1>1, <1>4 DEF AcquireSeedLock, TypeOK
  <1>5. QED
    BY <1>3, <1>4

\* A call that ends clears no lock but its own.
LEMMA ClearKeepsLocks ==
  ASSUME TypeOK, JobIsCurrent, OneCallPerIntent, InFlightOwnsLock,
         NEW v \in Workers, Busy(v),
         \/ seedLocks' = seedLocks
         \/ /\ JobStep(v).blocking
            /\ seedLocks' = [seedLocks EXCEPT ![KeyOf(JobStep(v))] = None],
         NEW w \in Workers \ {v}, NEW k \in SeedKey, HoldsKey(w, k)
  PROVE  seedLocks'[k] = OwnerOf(job[w].intent, job[w].command)
  <1>1. seedLocks[k] = OwnerOf(job[w].intent, job[w].command)
    BY DEF InFlightOwnsLock
  <1>2. job[w].intent # job[v].intent
    BY DEF OneCallPerIntent, HoldsKey, Busy
  <1>3. ASSUME JobStep(v).blocking, KeyOf(JobStep(v)) = k PROVE FALSE
    <2>1. seedLocks[k] = OwnerOf(job[v].intent, job[v].command)
      BY <1>3 DEF InFlightOwnsLock, HoldsKey, Busy
    <2>2. QED
      BY <1>1, <1>2, <2>1 DEF OwnerOf
  <1>4. QED
    BY <1>1, <1>3 DEF TypeOK

-----------------------------------------------------------------------------
(***************************************************************************)
(* Every action preserves the invariant.                                   *)
(***************************************************************************)
SInv == TypeOK /\ SerialInv /\ ObservedWasDispatched /\ SatisfiedMeansDone

LEMMA InitSerial == Init => SInv
  <1> SUFFICES ASSUME Init PROVE SInv
    OBVIOUS
  <1>1. \A i \in Intents : byCommandID[i] = {} /\ events[i] = << >>
    BY DEF Init
  <1>2. ObservedIsPrefix
    <2> SUFFICES ASSUME NEW i \in Intents
                 PROVE  /\ byCommandID[i] = 1 .. Len(events[i])
                        /\ byCommandID[i] \subseteq DOMAIN desired[i]
                        /\ \A n \in DOMAIN events[i] : events[i][n] = n
      BY DEF ObservedIsPrefix
    <2>1. QED
      BY <1>1, EmptyPrefix
  <1>3. OneCallPerIntent /\ JobIsCurrent /\ InFlightOwnsLock
    BY DEF Init, OneCallPerIntent, JobIsCurrent, InFlightOwnsLock, HoldsKey
  <1>4. ObservedWasDispatched
    BY <1>1 DEF ObservedWasDispatched
  <1>5. SatisfiedMeansDone
    BY DEF Init, SatisfiedMeansDone, NoReport
  <1>6. QED
    BY <1>2, <1>3, <1>4, <1>5, InitType DEF SInv, SerialInv

LEMMA SubmitSerial ==
  ASSUME Serial, SInv, NEW i \in Intents, SubmitIssue(i)
  PROVE  SerialInv' /\ ObservedWasDispatched' /\ SatisfiedMeansDone'
  <1> USE DEF SInv, SerialInv, workerVars
  <1>1. /\ byCommandID' = [byCommandID EXCEPT ![i] = {}]
        /\ events' = [events EXCEPT ![i] = << >>]
        /\ report' = [report EXCEPT ![i] = NoReport]
        /\ issued' = [issued EXCEPT ![i] = @ + 1]
        /\ UNCHANGED <<seedLocks, pc, job, dispatched>>
        /\ MayCall(i)
    BY DEF SubmitIssue
  <1>2. \A j \in Intents \ {i} : /\ desired'[j] = desired[j]
                                 /\ byCommandID'[j] = byCommandID[j]
                                 /\ events'[j] = events[j]
                                 /\ report'[j] = report[j]
                                 /\ issued'[j] = issued[j]
    BY <1>1 DEF SubmitIssue, TypeOK
  <1>3. /\ byCommandID'[i] = {}
        /\ events'[i] = << >>
        /\ report'[i] = NoReport
    BY <1>1 DEF TypeOK
  <1>4. OneCallPerIntent'
    BY <1>1 DEF OneCallPerIntent
  <1>5. JobIsCurrent'
    <2> SUFFICES ASSUME NEW w \in Workers, pc[w] # "idle"
                 PROVE  /\ job[w].issue = issued'[job[w].intent]
                        /\ job[w].plan = desired'[job[w].intent]
                        /\ job[w].command = Len(events'[job[w].intent]) + 1
                        /\ job[w].command \in DOMAIN job[w].plan
                        /\ <<job[w].intent, job[w].issue, job[w].command>> \in dispatched
      BY <1>1 DEF JobIsCurrent
    <2>1. job[w].intent \in Intents \ {i}
      BY <1>1, MayCallAlone, JobFields DEF Busy
    <2>2. QED
      BY <1>2, <2>1 DEF JobIsCurrent
  <1>6. ObservedIsPrefix'
    <2> SUFFICES ASSUME NEW j \in Intents
                 PROVE  /\ byCommandID'[j] = 1 .. Len(events'[j])
                        /\ byCommandID'[j] \subseteq DOMAIN desired'[j]
                        /\ \A n \in DOMAIN events'[j] : events'[j][n] = n
      BY DEF ObservedIsPrefix
    <2>1. CASE j = i
      BY <1>3, <2>1, EmptyPrefix
    <2>2. CASE j # i
      BY <1>2, <2>2 DEF ObservedIsPrefix
    <2>3. QED
      BY <2>1, <2>2
  <1>7. InFlightOwnsLock'
    BY <1>1 DEF InFlightOwnsLock, HoldsKey, JobStep
  <1>8. ObservedWasDispatched'
    BY <1>1, <1>2, <1>3 DEF ObservedWasDispatched
  <1>9. SatisfiedMeansDone'
    BY <1>2, <1>3 DEF SatisfiedMeansDone, Pending, NoReport
  <1>10. QED
    BY <1>4, <1>5, <1>6, <1>7, <1>8, <1>9

LEMMA BlockedSerial ==
  ASSUME Serial, SInv, NEW w \in Workers, NEW i \in Intents, ReconcileBlocked(w, i)
  PROVE  SerialInv' /\ ObservedWasDispatched' /\ SatisfiedMeansDone'
  <1> USE DEF SInv, SerialInv, workerVars, historyVars
  <1>1. UNCHANGED <<desired, byCommandID, events, seedLocks, pc, job, issued, dispatched>>
    BY DEF ReconcileBlocked
  <1>2. \A j \in Intents :
          report'[j].completion = "satisfied" => report[j].completion = "satisfied"
    BY DEF ReconcileBlocked, TypeOK
  <1>3. SerialInv'
    BY <1>1 DEF OneCallPerIntent, JobIsCurrent, ObservedIsPrefix,
                InFlightOwnsLock, HoldsKey, JobStep
  <1>4. ObservedWasDispatched'
    BY <1>1 DEF ObservedWasDispatched
  <1>5. SatisfiedMeansDone'
    BY <1>1, <1>2 DEF SatisfiedMeansDone, Pending
  <1>6. QED
    BY <1>3, <1>4, <1>5

LEMMA NoExecutorSerial ==
  ASSUME Serial, SInv, NEW w \in Workers, NEW i \in Intents,
         ReconcileNoExecutor(w, i)
  PROVE  SerialInv' /\ ObservedWasDispatched' /\ SatisfiedMeansDone'
  <1> USE DEF SInv, SerialInv, intentVars, workerVars, historyVars
  <1>1. UNCHANGED <<desired, byCommandID, events, report, pc, job, issued, dispatched>>
    BY DEF ReconcileNoExecutor
  <1>2. PICK c \in Pending(i) : LockAvailable(i, c) /\ AcquireSeedLock(i, c)
    BY DEF ReconcileNoExecutor
  <1>3. MayCall(i)
    BY DEF ReconcileNoExecutor
  <1>4. InFlightOwnsLock'
    <2> SUFFICES ASSUME NEW v \in Workers, NEW k \in SeedKey, HoldsKey(v, k)
                 PROVE  seedLocks'[k] = OwnerOf(job[v].intent, job[v].command)
      BY <1>1 DEF InFlightOwnsLock, HoldsKey, JobStep
    <2>1. QED
      BY <1>2, <1>3, AcquireKeepsLocks
  <1>5. OneCallPerIntent' /\ JobIsCurrent' /\ ObservedIsPrefix'
    BY <1>1 DEF OneCallPerIntent, JobIsCurrent, ObservedIsPrefix
  <1>6. ObservedWasDispatched' /\ SatisfiedMeansDone'
    BY <1>1 DEF ObservedWasDispatched, SatisfiedMeansDone, Pending
  <1>7. QED
    BY <1>4, <1>5, <1>6

LEMMA DispatchSerial ==
  ASSUME Serial, SInv, NEW w \in Workers, NEW i \in Intents, ReconcileDispatch(w, i)
  PROVE  SerialInv' /\ ObservedWasDispatched' /\ SatisfiedMeansDone'
  <1> USE DEF SInv, SerialInv, intentVars, workerVars, historyVars
  <1>1. UNCHANGED <<desired, byCommandID, events, report, issued>>
    BY DEF ReconcileDispatch
  <1> DEFINE J(c) == [intent |-> i, issue |-> issued[i],
                      plan |-> desired[i], command |-> c]
  <1>2. PICK c \in Pending(i) :
          /\ IsNext(i, c)
          /\ LockAvailable(i, c)
          /\ AcquireSeedLock(i, c)
          /\ job' = [job EXCEPT ![w] = J(c)]
          /\ dispatched' = dispatched \cup {<<i, issued[i], c>>}
    BY DEF ReconcileDispatch
  <1>3. /\ MayCall(i)
        /\ pc[w] = "idle"
        /\ pc' = [pc EXCEPT ![w] = "executing"]
    BY DEF ReconcileDispatch
  <1>4. /\ job'[w] = J(c)
        /\ \A v \in Workers \ {w} : job'[v] = job[v] /\ pc'[v] = pc[v]
    BY <1>2, <1>3 DEF TypeOK
  <1>5. \A v \in Workers \ {w} : Busy(v) => job[v].intent # i
    BY <1>3, MayCallAlone
  <1>6. OneCallPerIntent'
    BY <1>4, <1>5 DEF OneCallPerIntent, Busy
  <1>7. JobIsCurrent'
    <2> SUFFICES ASSUME NEW v \in Workers, pc'[v] # "idle"
                 PROVE  /\ job'[v].issue = issued[job'[v].intent]
                        /\ job'[v].plan = desired[job'[v].intent]
                        /\ job'[v].command = Len(events[job'[v].intent]) + 1
                        /\ job'[v].command \in DOMAIN job'[v].plan
                        /\ <<job'[v].intent, job'[v].issue, job'[v].command>> \in dispatched'
      BY <1>1 DEF JobIsCurrent
    <2>1. CASE v = w
      <3>1. c = Len(events[i]) + 1
        BY <1>2, NextIsAfterPrefix
      <3>2. c \in DOMAIN desired[i]
        BY DEF Pending
      <3>3. QED
        BY <1>2, <1>4, <2>1, <3>1, <3>2
    <2>2. CASE v # w
      BY <1>2, <1>4, <2>2 DEF JobIsCurrent
    <2>3. QED
      BY <2>1, <2>2
  <1>8. InFlightOwnsLock'
    <2> SUFFICES ASSUME NEW v \in Workers, NEW k \in SeedKey, HoldsKey(v, k)'
                 PROVE  seedLocks'[k] = OwnerOf(job'[v].intent, job'[v].command)
      BY DEF InFlightOwnsLock, OwnerOf
    <2>1. CASE v = w
      <3>1. desired[i][c].blocking /\ KeyOf(desired[i][c]) = k
        BY <1>4, <2>1 DEF HoldsKey, JobStep, KeyOf
      <3>2. seedLocks'[k] = OwnerOf(i, c)
        BY <1>2, <3>1 DEF AcquireSeedLock, TypeOK
      <3>3. QED
        BY <1>4, <2>1, <3>2
    <2>2. CASE v # w
      <3>1. HoldsKey(v, k) /\ job'[v] = job[v]
        BY <1>4, <2>2 DEF HoldsKey, JobStep, KeyOf
      <3>2. QED
        BY <1>2, <1>3, <3>1, AcquireKeepsLocks
    <2>3. QED
      BY <2>1, <2>2
  <1>9. ObservedIsPrefix'
    BY <1>1 DEF ObservedIsPrefix
  <1>10. ObservedWasDispatched'
    BY <1>1, <1>2 DEF ObservedWasDispatched
  <1>11. SatisfiedMeansDone'
    BY <1>1 DEF SatisfiedMeansDone, Pending
  <1>12. QED
    BY <1>6, <1>7, <1>8, <1>9, <1>10, <1>11

LEMMA FailsSerial ==
  ASSUME SInv, NEW w \in Workers, ExecuteFails(w)
  PROVE  SerialInv' /\ ObservedWasDispatched' /\ SatisfiedMeansDone'
  <1> USE DEF SInv, SerialInv, intentVars, historyVars
  <1>1. /\ UNCHANGED <<desired, byCommandID, events, report, seedLocks, job,
                       issued, dispatched>>
        /\ \A v \in Workers : pc'[v] # "idle" => pc[v] # "idle"
    BY DEF ExecuteFails, TypeOK
  <1>2. OneCallPerIntent' /\ JobIsCurrent' /\ InFlightOwnsLock'
    BY <1>1 DEF OneCallPerIntent, JobIsCurrent, InFlightOwnsLock, HoldsKey, JobStep
  <1>3. ObservedIsPrefix' /\ ObservedWasDispatched' /\ SatisfiedMeansDone'
    BY <1>1 DEF ObservedIsPrefix, ObservedWasDispatched, SatisfiedMeansDone, Pending
  <1>4. QED
    BY <1>2, <1>3

LEMMA ReleaseSerial ==
  ASSUME SInv, NEW w \in Workers, ReleaseSeedLock(w)
  PROVE  SerialInv' /\ ObservedWasDispatched' /\ SatisfiedMeansDone'
  <1> USE DEF SInv, SerialInv, intentVars, historyVars
  <1>1. /\ UNCHANGED <<desired, byCommandID, events, report, issued, dispatched>>
        /\ Busy(w)
    BY DEF ReleaseSeedLock, Busy
  <1>2. /\ pc'[w] = "idle"
        /\ \A v \in Workers \ {w} : job'[v] = job[v] /\ pc'[v] = pc[v]
    BY DEF ReleaseSeedLock, Finish, TypeOK
  <1>3. \/ seedLocks' = seedLocks
        \/ /\ JobStep(w).blocking
           /\ seedLocks' = [seedLocks EXCEPT ![KeyOf(JobStep(w))] = None]
    BY DEF ReleaseSeedLock
  <1>4. OneCallPerIntent'
    BY <1>2 DEF OneCallPerIntent
  <1>5. JobIsCurrent'
    BY <1>1, <1>2 DEF JobIsCurrent
  <1>6. InFlightOwnsLock'
    <2> SUFFICES ASSUME NEW v \in Workers, NEW k \in SeedKey, HoldsKey(v, k)'
                 PROVE  seedLocks'[k] = OwnerOf(job'[v].intent, job'[v].command)
      BY DEF InFlightOwnsLock, OwnerOf
    <2>1. v # w
      BY <1>2 DEF HoldsKey
    <2>2. HoldsKey(v, k) /\ job'[v] = job[v]
      BY <1>2, <2>1 DEF HoldsKey, JobStep, KeyOf
    <2>3. QED
      BY <1>1, <1>3, <2>1, <2>2, ClearKeepsLocks
  <1>7. ObservedIsPrefix' /\ ObservedWasDispatched' /\ SatisfiedMeansDone'
    BY <1>1 DEF ObservedIsPrefix, ObservedWasDispatched, SatisfiedMeansDone, Pending
  <1>8. QED
    BY <1>4, <1>5, <1>6, <1>7

\* What an event does to the intent it belongs to, and to no other.
LEMMA ReplyEffect ==
  ASSUME SInv, NEW w \in Workers, NEW o \in Outcome, IngestReply(w, o)
  PROVE  LET i == job[w].intent
             n == Len(events[i])
         IN /\ i \in Intents
            /\ n \in Nat
            /\ n + 1 \in 1 .. Len(desired[i])
            /\ byCommandID[i] = 1 .. n
            /\ byCommandID'[i] = 1 .. (n + 1)
            /\ events'[i] = Append(events[i], n + 1)
            /\ report'[i] = [command |-> n + 1,
                 completion |-> CompletionAfter(desired[i], 1 .. n, o)]
            /\ \A j \in Intents \ {i} : /\ byCommandID'[j] = byCommandID[j]
                                        /\ events'[j] = events[j]
                                        /\ report'[j] = report[j]
  <1> DEFINE i == job[w].intent
             n == Len(events[i])
             c == job[w].command
  <1> USE DEF SInv, SerialInv
  <1>1. pc[w] = "executing" /\ Ingest(i, job[w].plan, c, o)
    BY DEF IngestReply
  <1>2. /\ i \in Intents
        /\ c = n + 1
        /\ c \in 1 .. Len(desired[i])
        /\ job[w].plan = desired[i]
    BY <1>1, JobFields DEF Busy
  <1>3. /\ n \in Nat
        /\ events[i] \in Seq(Nat)
        /\ byCommandID[i] = 1 .. n
    BY <1>2 DEF ObservedIsPrefix, TypeOK
  <1>4. byCommandID'[i] = byCommandID[i] \cup {c}
    BY <1>1, <1>2 DEF Ingest, TypeOK
  <1>5. byCommandID'[i] = 1 .. (n + 1)
    BY <1>2, <1>3, <1>4
  <1>6. events'[i] = Append(events[i], n + 1)
    BY <1>1, <1>2 DEF Ingest, TypeOK
  <1>7. report'[i] = [command |-> n + 1,
                      completion |-> CompletionAfter(desired[i], 1 .. n, o)]
    BY <1>1, <1>2, <1>3 DEF Ingest, TypeOK
  <1>8. \A j \in Intents \ {i} : /\ byCommandID'[j] = byCommandID[j]
                                 /\ events'[j] = events[j]
                                 /\ report'[j] = report[j]
    BY <1>1, <1>2 DEF Ingest, TypeOK
  <1>9. QED
    BY <1>2, <1>3, <1>5, <1>6, <1>7, <1>8

LEMMA ReplySerial ==
  ASSUME SInv, NEW w \in Workers, NEW o \in Outcome, IngestReply(w, o)
  PROVE  SerialInv' /\ ObservedWasDispatched' /\ SatisfiedMeansDone'
  <1> DEFINE i == job[w].intent
             n == Len(events[i])
  <1> USE DEF SInv, SerialInv, historyVars
  <1>1. /\ UNCHANGED <<desired, issued, dispatched>>
        /\ Busy(w)
        /\ Ingest(i, job[w].plan, job[w].command, o)
    BY DEF IngestReply, Busy
  <1>2. /\ pc'[w] = "idle"
        /\ \A v \in Workers \ {w} : job'[v] = job[v] /\ pc'[v] = pc[v]
    BY DEF IngestReply, Finish, TypeOK
  <1>3. \A v \in Workers \ {w} : Busy(v) => job[v].intent # i
    BY <1>1 DEF OneCallPerIntent, Busy
  <1>4. OneCallPerIntent'
    BY <1>2 DEF OneCallPerIntent
  <1>5. JobIsCurrent'
    <2> SUFFICES ASSUME NEW v \in Workers \ {w}, Busy(v)
                 PROVE  job[v].command = Len(events'[job[v].intent]) + 1
      BY <1>1, <1>2 DEF JobIsCurrent, Busy
    <2>1. job[v].intent \in Intents \ {i}
      BY <1>3, JobFields
    <2>2. events'[job[v].intent] = events[job[v].intent]
      BY <2>1, ReplyEffect
    <2>3. QED
      BY <2>2, JobFields
  <1>6. InFlightOwnsLock'
    <2> SUFFICES ASSUME NEW v \in Workers, NEW k \in SeedKey, HoldsKey(v, k)'
                 PROVE  seedLocks'[k] = OwnerOf(job'[v].intent, job'[v].command)
      BY DEF InFlightOwnsLock, OwnerOf
    <2>1. v # w
      BY <1>2 DEF HoldsKey
    <2>2. HoldsKey(v, k) /\ job'[v] = job[v]
      BY <1>2, <2>1 DEF HoldsKey, JobStep, KeyOf
    <2>3. \/ seedLocks' = seedLocks
          \/ /\ JobStep(w).blocking
             /\ seedLocks' = [seedLocks EXCEPT ![KeyOf(JobStep(w))] = None]
      BY <1>1 DEF Ingest, JobStep
    <2>4. QED
      BY <1>1, <2>1, <2>2, <2>3, ClearKeepsLocks
  <1>7. ObservedIsPrefix'
    <2> SUFFICES ASSUME NEW j \in Intents
                 PROVE  /\ byCommandID'[j] = 1 .. Len(events'[j])
                        /\ byCommandID'[j] \subseteq DOMAIN desired[j]
                        /\ \A m \in DOMAIN events'[j] : events'[j][m] = m
      BY <1>1 DEF ObservedIsPrefix
    <2>1. CASE j = i
      <3>1. /\ n \in Nat
            /\ n + 1 \in 1 .. Len(desired[i])
            /\ byCommandID'[i] = 1 .. (n + 1)
            /\ events'[i] = Append(events[i], n + 1)
        BY ReplyEffect
      <3>2. /\ desired[i] \in Seq(Step)
            /\ events[i] \in Seq(Nat)
            /\ \A m \in 1 .. n : events[i][m] = m
        BY <2>1 DEF TypeOK, ObservedIsPrefix
      <3>3. Len(events'[i]) = n + 1
        BY <3>1, <3>2
      <3>4. \A m \in DOMAIN events'[i] : events'[i][m] = m
        BY <3>1, <3>2
      <3>5. byCommandID'[i] \subseteq DOMAIN desired[i]
        BY <3>1, <3>2
      <3>6. Len(events'[i]) \in Nat /\ DOMAIN events'[i] = 1 .. Len(events'[i])
        BY <3>1, <3>2
      <3>7. QED
        BY <2>1, <3>1, <3>3, <3>4, <3>5, <3>6
    <2>2. CASE j # i
      BY <2>2, ReplyEffect DEF ObservedIsPrefix
    <2>3. QED
      BY <2>1, <2>2
  <1>8. ObservedWasDispatched'
    <2> SUFFICES ASSUME NEW j \in Intents, NEW c \in byCommandID'[j]
                 PROVE  <<j, issued[j], c>> \in dispatched
      BY <1>1 DEF ObservedWasDispatched
    <2>1. CASE j = i /\ c = n + 1
      BY <1>1, <2>1 DEF JobIsCurrent, Busy
    <2>2. CASE ~(j = i /\ c = n + 1)
      <3>1. c \in byCommandID[j]
        <4>1. CASE j = i
          <5>1. /\ n \in Nat
                /\ byCommandID[i] = 1 .. n
                /\ byCommandID'[i] = 1 .. (n + 1)
            BY ReplyEffect
          <5>2. QED
            BY <2>2, <4>1, <5>1
        <4>2. CASE j # i
          BY <4>2, ReplyEffect
        <4>3. QED
          BY <4>1, <4>2
      <3>2. QED
        BY <3>1 DEF ObservedWasDispatched
    <2>3. QED
      BY <2>1, <2>2
  <1>9. SatisfiedMeansDone'
    <2> SUFFICES ASSUME NEW j \in Intents, report'[j].completion = "satisfied"
                 PROVE  \A c \in DOMAIN desired[j] : c \in byCommandID'[j]
      BY <1>1 DEF SatisfiedMeansDone, Pending
    <2>1. CASE j = i
      <3>1. n \in Nat
        BY ReplyEffect
      <3>2. Cardinality(1 .. n) = n
        BY <3>1, PrefixCount
      <3>3. CompletionAfter(desired[i], 1 .. n, o) = "satisfied"
        <4>1. report'[i] = [command |-> n + 1,
                            completion |-> CompletionAfter(desired[i], 1 .. n, o)]
          BY ReplyEffect
        <4>2. QED
          BY <2>1, <4>1
      <3>4. n + 1 >= Len(desired[i])
        BY <3>1, <3>2, <3>3 DEF CompletionAfter, Outcome
      <3>5. byCommandID'[i] = 1 .. (n + 1) /\ desired[i] \in Seq(Step)
        BY <2>1, ReplyEffect DEF TypeOK
      <3>6. QED
        BY <2>1, <3>1, <3>4, <3>5
    <2>2. CASE j # i
      <3>1. byCommandID'[j] = byCommandID[j] /\ report'[j] = report[j]
        BY <2>2, ReplyEffect
      <3>2. QED
        BY <3>1 DEF SatisfiedMeansDone, Pending
    <2>3. QED
      BY <2>1, <2>2
  <1>10. QED
    BY <1>4, <1>5, <1>6, <1>7, <1>8, <1>9

LEMMA NextSerial ==
  ASSUME Serial, SInv, [Next]_vars
  PROVE  SInv'
  <1>1. TypeOK'
    BY NextType DEF SInv
  <1>2. SerialInv' /\ ObservedWasDispatched' /\ SatisfiedMeansDone'
    <2>1. ASSUME NEW g \in Ghosts, RegisterExecutor(g)
          PROVE  SerialInv' /\ ObservedWasDispatched' /\ SatisfiedMeansDone'
      BY <2>1 DEF RegisterExecutor, intentVars, workerVars, historyVars, SInv,
           SerialInv, OneCallPerIntent, JobIsCurrent, ObservedIsPrefix,
           InFlightOwnsLock, HoldsKey, JobStep, ObservedWasDispatched,
           SatisfiedMeansDone, Pending
    <2>2. ASSUME NEW i \in Intents, NEW o \in Outcome,
                 NEW c \in DOMAIN desired[i], IngestObservedEvent(i, c, o)
          PROVE  FALSE
      BY <2>2 DEF IngestObservedEvent, Serial
    <2>3. CASE UNCHANGED vars
      BY <2>3 DEF vars, intentVars, workerVars, historyVars, SInv,
           SerialInv, OneCallPerIntent, JobIsCurrent, ObservedIsPrefix,
           InFlightOwnsLock, HoldsKey, JobStep, ObservedWasDispatched,
           SatisfiedMeansDone, Pending
    <2>4. QED
      BY <2>1, <2>2, <2>3, SubmitSerial, BlockedSerial, NoExecutorSerial,
         DispatchSerial, FailsSerial, ReleaseSerial, ReplySerial DEF Next
  <1>3. QED
    BY <1>1, <1>2 DEF SInv

-----------------------------------------------------------------------------
LEMMA SerialInvariant ==
  ASSUME Serial
  PROVE  Spec => []SInv
  <1>1. SInv /\ [Next]_vars => SInv'
    BY NextSerial
  <1>2. QED
    BY InitSerial, <1>1, PTL DEF Spec

\* What ReconcileOnce read in its first section still holds in its second.
THEOREM SerialCorrect ==
  ASSUME Serial
  PROVE  Spec => []SerialInv
  <1>1. SInv => SerialInv
    BY DEF SInv
  <1>2. QED
    BY SerialInvariant, <1>1, PTL

\* Blocking commands of two intents never run on one seed together.
THEOREM LocksExclude ==
  ASSUME Serial
  PROVE  Spec => []LockExclusion
  <1>1. SInv => LockExclusion
    <2> SUFFICES ASSUME SInv, NEW v \in Workers, NEW w \in Workers, NEW k \in SeedKey,
                        HoldsKey(v, k), HoldsKey(w, k)
                 PROVE  job[v].intent = job[w].intent
      BY DEF LockExclusion
    <2>1. /\ seedLocks[k] = OwnerOf(job[v].intent, job[v].command)
          /\ seedLocks[k] = OwnerOf(job[w].intent, job[w].command)
      BY DEF SInv, SerialInv, InFlightOwnsLock
    <2>2. QED
      BY <2>1 DEF OwnerOf
  <1>2. QED
    BY SerialInvariant, <1>1, PTL

\* "satisfied" is reported only when nothing is left to run, whatever was
\* resubmitted or retried on the way.
THEOREM SatisfiedIsDone ==
  ASSUME Serial
  PROVE  Spec => []SatisfiedMeansDone
  <1>1. SInv => SatisfiedMeansDone
    BY DEF SInv
  <1>2. QED
    BY SerialInvariant, <1>1, PTL

\* Nothing is observed for an issue that was not dispatched for it.
THEOREM NothingObservedUnasked ==
  ASSUME Serial
  PROVE  Spec => []ObservedWasDispatched
  <1>1. SInv => ObservedWasDispatched
    BY DEF SInv
  <1>2. QED
    BY SerialInvariant, <1>1, PTL

-----------------------------------------------------------------------------
(***************************************************************************)
(* Refinement: the loop implements IntentProgress.                         *)
(***************************************************************************)
\* How many commands are observed.
LEMMA DoneCount ==
  ASSUME SInv, NEW i \in Intents
  PROVE  /\ Len(events[i]) \in Nat
         /\ Cardinality(byCommandID[i]) = Len(events[i])
  <1>1. /\ Len(events[i]) \in Nat
        /\ byCommandID[i] = 1 .. Len(events[i])
    BY DEF SInv, TypeOK, SerialInv, ObservedIsPrefix
  <1>2. QED
    BY <1>1, PrefixCount

LEMMA ProgressInit == Init => Progress!Init
  <1> SUFFICES ASSUME Init PROVE Progress!Init
    OBVIOUS
  <1>1. /\ [i \in Intents |-> Len(desired[i])] = [i \in Intents |-> 0]
        /\ [i \in Intents |-> report[i].completion] = [i \in Intents |-> "none"]
    BY EmptyPrefix DEF Init, NoReport
  <1>2. [i \in Intents |-> Cardinality(byCommandID[i])] = [i \in Intents |-> 0]
    BY FS_EmptySet DEF Init
  <1>3. QED
    BY <1>1, <1>2 DEF Progress!Init

\* A submission starts the intent over.
LEMMA SubmitIsIssue ==
  ASSUME SInv, NEW i \in Intents, SubmitIssue(i)
  PROVE  Progress!Issue(i)
  <1> DEFINE total == [j \in Intents |-> Len(desired[j])]
             done == [j \in Intents |-> Cardinality(byCommandID[j])]
             status == [j \in Intents |-> report[j].completion]
  <1>1. PICK plan \in Plans[i] : desired' = [desired EXCEPT ![i] = plan]
    BY DEF SubmitIssue
  <1>2. plan \in Seq(Step) /\ plan # << >>
    BY PlansAssumption
  <1>3. Len(plan) \in Nat \ {0}
    BY <1>2
  <1>4. /\ desired'[i] = plan
        /\ byCommandID'[i] = {}
        /\ report'[i].completion = "none"
    BY <1>1 DEF SubmitIssue, SInv, TypeOK, NoReport
  <1>5. \A j \in Intents \ {i} : /\ desired'[j] = desired[j]
                                 /\ byCommandID'[j] = byCommandID[j]
                                 /\ report'[j] = report[j]
    BY <1>1 DEF SubmitIssue, SInv, TypeOK
  <1>6. total'[i] \in Nat \ {0}
    BY <1>3, <1>4
  <1>7. total' = [total EXCEPT ![i] = total'[i]]
    BY <1>5
  <1>8. done' = [done EXCEPT ![i] = 0]
    BY <1>4, <1>5, FS_EmptySet
  <1>9. status' = [status EXCEPT ![i] = "none"]
    BY <1>4, <1>5
  <1>10. QED
    BY <1>6, <1>7, <1>8, <1>9 DEF Progress!Issue

\* A blocked call says in_progress, with something left to do.
LEMMA BlockedIsWait ==
  ASSUME SInv, NEW w \in Workers, NEW i \in Intents, ReconcileBlocked(w, i)
  PROVE  Progress!Wait(i)
  <1>1. /\ UNCHANGED <<desired, byCommandID>>
        /\ \A j \in Intents \ {i} : report'[j] = report[j]
        /\ report'[i].completion = "in_progress"
    BY DEF ReconcileBlocked, SInv, TypeOK
  <1>2. PICK c \in Pending(i) : IsNext(i, c)
    BY DEF ReconcileBlocked
  <1>3. c = Len(events[i]) + 1 /\ c \in 1 .. Len(desired[i])
    BY <1>2, NextIsAfterPrefix, PendingIsStep DEF SInv, SerialInv
  <1>4. Cardinality(byCommandID[i]) < Len(desired[i])
    <2>1. /\ Len(events[i]) \in Nat
          /\ Cardinality(byCommandID[i]) = Len(events[i])
          /\ Len(desired[i]) \in Nat
      BY DoneCount DEF SInv, TypeOK
    <2>2. QED
      BY <1>3, <2>1
  <1>5. QED
    BY <1>1, <1>4 DEF Progress!Wait

\* An event completes one command and is reported as what it is.
LEMMA ReplyIsComplete ==
  ASSUME SInv, NEW w \in Workers, NEW o \in Outcome, IngestReply(w, o),
         NEW i \in Intents, i = job[w].intent
  PROVE  Progress!Complete(i)
  <1> DEFINE n == Len(events[i])
             total == [j \in Intents |-> Len(desired[j])]
             done == [j \in Intents |-> Cardinality(byCommandID[j])]
             status == [j \in Intents |-> report[j].completion]
             verdict == CompletionAfter(desired[i], 1 .. n, o)
  <1>1. /\ i \in Intents
        /\ n \in Nat
        /\ n + 1 \in 1 .. Len(desired[i])
        /\ byCommandID[i] = 1 .. n
        /\ byCommandID'[i] = 1 .. (n + 1)
    BY ReplyEffect
  <1>2. report'[i] = [command |-> n + 1, completion |-> verdict]
    BY ReplyEffect
  <1>3. \A j \in Intents \ {i} : /\ byCommandID'[j] = byCommandID[j]
                                 /\ report'[j] = report[j]
    BY ReplyEffect
  <1>4. Cardinality(1 .. n) = n /\ Cardinality(1 .. (n + 1)) = n + 1
    <2>1. n \in Nat /\ n + 1 \in Nat
      BY <1>1
    <2> HIDE DEF n
    <2>2. QED
      BY <2>1, PrefixCount
  <1>5. desired' = desired
    BY DEF IngestReply
  <1>6. Len(desired[i]) \in Nat
    BY <1>1 DEF SInv, TypeOK
  <1>7. done[i] + 1 = n + 1
    BY <1>1, <1>4
  <1>8. done' = [done EXCEPT ![i] = n + 1]
    BY <1>1, <1>3, <1>4
  <1>9. \/ verdict = "failed"
        \/ n + 1 < Len(desired[i]) /\ verdict = "in_progress"
        \/ n + 1 = Len(desired[i]) /\ verdict = "satisfied"
    BY <1>1, <1>4, <1>6 DEF CompletionAfter, Outcome
  <1>10. status' = [status EXCEPT ![i] = verdict]
    <2> HIDE DEF verdict
    <2>1. report'[i].completion = verdict
      BY <1>2
    <2>2. QED
      BY <1>3, <2>1
  <1>11. total[i] = Len(desired[i]) /\ total' = total
    BY <1>1, <1>5
  <1>12. n + 1 <= Len(desired[i])
    BY <1>1, <1>6
  <1> HIDE DEF verdict, total, done, status
  <1>13. /\ done[i] + 1 <= total[i]
         /\ done' = [done EXCEPT ![i] = done[i] + 1]
         /\ \/ status' = [status EXCEPT ![i] = "failed"]
            \/ /\ done[i] + 1 < total[i]
               /\ status' = [status EXCEPT ![i] = "in_progress"]
            \/ /\ done[i] + 1 = total[i]
               /\ status' = [status EXCEPT ![i] = "satisfied"]
         /\ UNCHANGED total
    BY <1>7, <1>8, <1>9, <1>10, <1>11, <1>12
  <1>14. QED
    BY <1>13 DEF Progress!Complete, total, done, status

LEMMA ProgressStep ==
  ASSUME SInv, [Next]_vars, Serial
  PROVE  [Progress!Next]_(Progress!vars)
  <1>1. ASSUME UNCHANGED <<desired, byCommandID, report>>
        PROVE  UNCHANGED Progress!vars
    BY <1>1 DEF Progress!vars
  <1>2. ASSUME NEW i \in Intents, SubmitIssue(i) PROVE Progress!Next
    BY <1>2, SubmitIsIssue DEF Progress!Next
  <1>3. ASSUME NEW w \in Workers, NEW i \in Intents, ReconcileBlocked(w, i)
        PROVE  Progress!Next
    BY <1>3, BlockedIsWait DEF Progress!Next
  <1>4. ASSUME NEW w \in Workers, NEW o \in Outcome, IngestReply(w, o)
        PROVE  Progress!Next
    <2>1. PICK i \in Intents : i = job[w].intent
      BY <1>4, ReplyEffect
    <2>2. Progress!Complete(i)
      BY <1>4, <2>1, ReplyIsComplete
    <2>3. QED
      BY <2>1, <2>2 DEF Progress!Next
  <1>5. \/ \E i \in Intents : SubmitIssue(i)
        \/ \E w \in Workers, i \in Intents : ReconcileBlocked(w, i)
        \/ \E w \in Workers, o \in Outcome : IngestReply(w, o)
        \/ UNCHANGED <<desired, byCommandID, report>>
    BY DEF Next, vars, intentVars, RegisterExecutor, ReconcileNoExecutor,
           ReconcileDispatch, ExecuteFails, ReleaseSeedLock,
           IngestObservedEvent, Serial
  <1>6. QED
    BY <1>1, <1>2, <1>3, <1>4, <1>5

\* What a client sees of an intent is IntentProgress: commands complete one
\* at a time and "satisfied" is said of the last one only.
THEOREM LoopImplementsProgress ==
  ASSUME Serial
  PROVE  Spec => ImplementsProgress
  <1>1. SInv /\ [Next]_vars => [Progress!Next]_(Progress!vars)
    BY ProgressStep
  <1>2. QED
    BY SerialInvariant, ProgressInit, <1>1, PTL
    DEF Spec, ImplementsProgress, Progress!Spec
=============================================================================
