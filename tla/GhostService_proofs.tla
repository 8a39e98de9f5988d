-------------------------- MODULE GhostService_proofs --------------------------
(***************************************************************************)
(* Two properties of a Ghost process, for every configuration, every       *)
(* number of spawn requests and sessions: why Run returns an error, and    *)
(* where the children are.                                                 *)
(***************************************************************************)
EXTENDS GhostService, TLAPS

-----------------------------------------------------------------------------
(***************************************************************************)
(* Why Run returns an error.  An error is on its way through a channel     *)
(* before serve returns it, so the invariant says what an error in each of *)
(* them stands for, and that neither explanation is taken back: a loop     *)
(* that ended because the first connection failed never connects.          *)
(***************************************************************************)
NeverConnected == cfg.policy = "required" /\ ~ connectedOnce /\ loop = "ended"

ErrorInv ==
  /\ main \in {"booting", "installing"} => loop = "off" /\ admin = "off" /\ exit = "none"
  /\ sessionErr = "error" => NeverConnected \/ cancelled
  /\ controlErr = "error" => admin \in {"failed", "ended"}
  /\ exit = "error" =>
       \/ main = "returned" /\ loop = "off" /\ admin = "off"
       \/ admin \in {"failed", "ended"}
       \/ NeverConnected
       \/ cancelled

\* What serve and bootstrap do keeps the explanations.
LEMMA MainKeepsErrorInv ==
  ASSUME ErrorInv, MainNext
  PROVE  ErrorInv'
<1>1. CASE FetchProjectRepoOnBoot
  BY <1>1 DEF ErrorInv, NeverConnected, FetchProjectRepoOnBoot, loopVars, adminVars
<1>2. CASE StartServing
  BY <1>2 DEF ErrorInv, NeverConnected, StartServing
<1>3. CASE BootstrapFails
  BY <1>3 DEF ErrorInv, NeverConnected, BootstrapFails, loopVars, adminVars
<1>4. CASE SeeShutdown
  BY <1>4 DEF ErrorInv, NeverConnected, SeeShutdown, loopVars, adminVars
<1>5. CASE TakeSessionErr
  BY <1>5 DEF ErrorInv, NeverConnected, TakeSessionErr, ReturnOn, adminVars
<1>6. CASE TakeControlErr
  BY <1>6 DEF ErrorInv, NeverConnected, TakeControlErr, ReturnOn, loopVars
<1>7. CASE TakeChildren
  BY <1>7 DEF ErrorInv, NeverConnected, TakeChildren, loopVars, adminVars
<1>8. CASE \E c \in Spawns : StopChild(c)
  BY <1>8 DEF ErrorInv, NeverConnected, StopChild, mainVars, loopVars, adminVars
<1>9. CASE ClearMirageSession
  BY <1>9 DEF ErrorInv, NeverConnected, ClearMirageSession, adminVars
<1>10. CASE StopNotify
  BY <1>10 DEF ErrorInv, NeverConnected, StopNotify, Cancel, loopVars, adminVars
<1>11. QED
  BY <1>1, <1>2, <1>3, <1>4, <1>5, <1>6, <1>7, <1>8, <1>9, <1>10 DEF MainNext

\* So does the session loop, with or without a probe that fails.
LEMMA LoopKeepsErrorInv ==
  ASSUME ErrorInv, LoopNext \/ ProbeFails
  PROVE  ErrorInv'
<1>1. CASE LoopTop
  BY <1>1 DEF ErrorInv, NeverConnected, LoopTop, EndLoop, mainVars, adminVars
<1>2. CASE ConnectFails
  BY <1>2 DEF ErrorInv, NeverConnected, ConnectFails, FirstConnectFatal, EndLoop, mainVars, adminVars
<1>3. CASE \E s \in 1 .. MaxSessions : ConnectMirageSession(s)
  BY <1>3 DEF ErrorInv, NeverConnected, ConnectMirageSession, mainVars, adminVars
<1>4. CASE SetMirageSession
  BY <1>4 DEF ErrorInv, NeverConnected, SetMirageSession, mainVars, adminVars
<1>5. CASE ProbeFails
  BY <1>5 DEF ErrorInv, NeverConnected, ProbeFails, mainVars, adminVars
<1>6. CASE ClearMirageSessionIf
  BY <1>6 DEF ErrorInv, NeverConnected, ClearMirageSessionIf, mainVars, adminVars
<1>7. CASE WaitReconnectBackoff
  BY <1>7 DEF ErrorInv, NeverConnected, WaitReconnectBackoff, EndLoop, mainVars, adminVars
<1>8. QED
  BY <1>1, <1>2, <1>3, <1>4, <1>5, <1>6, <1>7 DEF LoopNext, MonitorCancelled

\* Requests and children leave it alone; the listener can only add an error
\* that it explains itself.
LEMMA OthersKeepErrorInv ==
  ASSUME ErrorInv,
         \/ Cancel \/ Listen \/ AdminFails \/ BindMirageAdminRoute
         \/ \E c \in Spawns :
              \/ \E name \in RequestNames, addressed \in BOOLEAN : SpawnCheck(c, name, addressed)
              \/ SpawnNext(c)
              \/ ChildReturns(c)
  PROVE  ErrorInv'
<1>1. CASE Cancel
  BY <1>1 DEF ErrorInv, NeverConnected, Cancel, loopVars, adminVars
<1>2. CASE Listen
  BY <1>2 DEF ErrorInv, NeverConnected, Listen, mainVars, loopVars
<1>3. CASE AdminFails
  BY <1>3 DEF ErrorInv, NeverConnected, AdminFails, mainVars, loopVars
<1>4. CASE BindMirageAdminRoute
  BY <1>4 DEF ErrorInv, NeverConnected, BindMirageAdminRoute, mainVars, loopVars
<1>5. CASE UNCHANGED <<mainVars, loopVars, adminVars>>
  BY <1>5 DEF ErrorInv, NeverConnected, mainVars, loopVars, adminVars
<1>6. ASSUME NEW c \in Spawns,
             \/ \E name \in RequestNames, addressed \in BOOLEAN : SpawnCheck(c, name, addressed)
             \/ SpawnNext(c)
             \/ ChildReturns(c)
      PROVE  UNCHANGED <<mainVars, loopVars, adminVars>>
  BY <1>6 DEF SpawnCheck, SpawnNext, SpawnServe, SpawnFails, SpawnInsert, ChildReturns
<1>7. QED
  BY <1>1, <1>2, <1>3, <1>4, <1>5, <1>6

\* Whatever the policy, and whatever Mirage and the network do: an error of
\* Run means a failed start, a failed admin listener, a required Mirage that
\* could not be reached the first time, or a shutdown (serve and
\* runMirageSessionLoop, src/internal/ghost/service.go:185-287).
THEOREM ErrorExitIsExplained == ServiceSpec => []ErrorExitExplained
<1>1. ServiceInit => ErrorInv
  BY DEF ServiceInit, ErrorInv, NeverConnected
<1>2. ErrorInv /\ [ServiceNext]_serviceVars => ErrorInv'
  <2> SUFFICES ASSUME ErrorInv, [ServiceNext]_serviceVars PROVE ErrorInv'
    OBVIOUS
  <2>1. CASE ServiceNext
    BY <2>1, MainKeepsErrorInv, LoopKeepsErrorInv, OthersKeepErrorInv DEF ServiceNext
  <2>2. CASE UNCHANGED serviceVars
    BY <2>2 DEF ErrorInv, NeverConnected, serviceVars, mainVars, loopVars, adminVars
  <2>3. QED
    BY <2>1, <2>2
<1>3. ErrorInv => ErrorExitExplained
  BY DEF ErrorInv, NeverConnected, ErrorExitExplained
<1>4. QED
  BY <1>1, <1>2, <1>3, PTL DEF ServiceSpec

-----------------------------------------------------------------------------
(***************************************************************************)
(* Where the children are.  The two critical sections of                   *)
(* SpawnManagedGhost meet in the invariant: of two requests for a name     *)
(* that are both past the check, and of a request past the check and a     *)
(* child already inserted under its name, it says that they overlapped.    *)
(* Before serve starts there is no request; that what is in the table      *)
(* after the shutdown took it came late depends on it.                     *)
(***************************************************************************)
SameName(c, d) == target[c] = target[d]

ChildInv ==
  /\ DOMAIN spawn = Spawns /\ DOMAIN target = Spawns /\ DOMAIN child = Spawns
  /\ \A c \in Spawns : child[c] = "serving" => spawn[c] \in {"running", "done"}
  /\ managed \subseteq Spawns /\ \A d \in managed : spawn[d] = "done"
  /\ main \notin {"stopping", "returned"} => toStop = {}
  /\ \A c, d \in Spawns :
       c # d /\ PastCheck(c) /\ PastCheck(d) /\ SameName(c, d) => target[c] \in overlapped
  /\ \A c \in Spawns, d \in managed :
       PastCheck(c) /\ SameName(c, d) => target[c] \in overlapped
  /\ \A c \in Spawns :
       /\ child[c] = "serving" /\ spawn[c] = "done"
       /\ c \notin managed \cup toStop \cup childCancelled
       => target[c] \in overlapped
  /\ TableTaken => managed \subseteq late
  /\ main \in {"booting", "installing"} =>
       admin = "off" /\ managed = {} /\ \A c \in Spawns : spawn[c] = "idle"

\* A request that passes the check finds no child under its name, and marks
\* the name if another request is past the check with it.
LEMMA SpawnCheckKeepsChildInv ==
  ASSUME ChildInv, NEW c \in Spawns, NEW name \in RequestNames, NEW addressed \in BOOLEAN,
         SpawnCheck(c, name, addressed)
  PROVE  ChildInv'
<1> DEFINE n == NormalizeSuffix[name]
<1>1. /\ spawn[c] = "idle"
      /\ target' = [target EXCEPT ![c] = n]
      /\ spawn' = [spawn EXCEPT ![c] = IF SpawnRefused(n, addressed) THEN "refused" ELSE "checked"]
      /\ overlapped' = IF \E d \in Spawns : PastCheck(d) /\ target[d] = n
                       THEN overlapped \cup {n} ELSE overlapped
      /\ UNCHANGED <<main, admin, child, childCancelled, managed, toStop, late>>
      /\ main \notin {"booting", "installing"}
  BY DEF SpawnCheck, ChildInv, mainVars, adminVars
<1>2. PastCheck(c)' => \A d \in managed : target[d] # n
  BY <1>1 DEF ChildInv, PastCheck, SpawnRefused, Exists, Named
<1> HIDE DEF n
<1>3. /\ DOMAIN spawn' = Spawns /\ DOMAIN target' = Spawns /\ DOMAIN child' = Spawns
      /\ target'[c] = n /\ spawn'[c] \in {"refused", "checked"}
      /\ overlapped \subseteq overlapped'
  BY <1>1 DEF ChildInv
<1>4. \A d \in Spawns \ {c} : spawn'[d] = spawn[d] /\ target'[d] = target[d]
  BY <1>1 DEF ChildInv
<1>5. c \notin managed /\ child[c] # "serving"
  BY <1>1 DEF ChildInv
<1>6. \A x, d \in Spawns :
        x # d /\ PastCheck(x)' /\ PastCheck(d)' /\ SameName(x, d)' => target'[x] \in overlapped'
  <2> SUFFICES ASSUME NEW x \in Spawns, NEW d \in Spawns, x # d,
                      PastCheck(x)', PastCheck(d)', SameName(x, d)'
               PROVE  target'[x] \in overlapped'
    OBVIOUS
  <2>1. CASE x # c /\ d # c
    BY <1>3, <1>4, <2>1 DEF ChildInv, PastCheck, SameName
  <2>2. ASSUME NEW y \in Spawns \ {c}, PastCheck(y)', target'[y] = n PROVE n \in overlapped'
    BY <1>1, <1>4, <2>2 DEF PastCheck
  <2>3. QED
    BY <1>3, <2>1, <2>2 DEF SameName
<1>7. \A x \in Spawns, d \in managed' :
        PastCheck(x)' /\ SameName(x, d)' => target'[x] \in overlapped'
  BY <1>1, <1>2, <1>3, <1>4, <1>5 DEF ChildInv, PastCheck, SameName
<1>8. \A x \in Spawns :
        /\ child'[x] = "serving" /\ spawn'[x] = "done"
        /\ x \notin managed' \cup toStop' \cup childCancelled'
        => target'[x] \in overlapped'
  BY <1>1, <1>3, <1>4, <1>5 DEF ChildInv
<1>9. /\ \A x \in Spawns : child'[x] = "serving" => spawn'[x] \in {"running", "done"}
      /\ managed' \subseteq Spawns /\ \A d \in managed' : spawn'[d] = "done"
      /\ main' \notin {"stopping", "returned"} => toStop' = {}
      /\ TableTaken' => managed' \subseteq late'
      /\ main' \notin {"booting", "installing"}
  BY <1>1, <1>3, <1>4, <1>5 DEF ChildInv, TableTaken
<1>10. QED
  BY <1>3, <1>6, <1>7, <1>8, <1>9 DEF ChildInv

\* The child of another request that the insertion takes from the table was
\* under the name of a request past the check.
LEMMA SpawnNextKeepsChildInv ==
  ASSUME ChildInv, NEW c \in Spawns, SpawnNext(c)
  PROVE  ChildInv'
<1>1. CASE SpawnServe(c)
  BY <1>1 DEF ChildInv, SpawnServe, PastCheck, SameName, TableTaken, mainVars, adminVars
<1>2. CASE SpawnFails(c)
  BY <1>2 DEF ChildInv, SpawnFails, PastCheck, SameName, TableTaken, mainVars, adminVars
<1>3. CASE SpawnInsert(c)
  <2>1. /\ spawn[c] = "running"
        /\ spawn' = [spawn EXCEPT ![c] = "done"]
        /\ managed' = (managed \ Named(target[c])) \cup {c}
        /\ late' = IF TableTaken THEN late \cup {c} ELSE late
        /\ UNCHANGED <<main, admin, target, child, childCancelled, toStop, overlapped>>
    BY <1>3 DEF SpawnInsert, mainVars, adminVars
  <2>2. spawn'[c] = "done" /\ DOMAIN spawn' = Spawns
    BY <2>1 DEF ChildInv
  <2>3. \A d \in Spawns \ {c} : spawn'[d] = spawn[d]
    BY <2>1 DEF ChildInv
  <2>4. \A x \in Spawns : PastCheck(x)' => x # c /\ PastCheck(x)
    BY <2>2, <2>3 DEF PastCheck
  <2>5. PastCheck(c)
    BY <2>1 DEF PastCheck
  <2>6. \A x \in Spawns, d \in managed' :
          PastCheck(x)' /\ SameName(x, d)' => target'[x] \in overlapped'
    BY <2>1, <2>4, <2>5 DEF ChildInv, SameName
  <2>7. \A x \in Spawns :
          /\ child'[x] = "serving" /\ spawn'[x] = "done"
          /\ x \notin managed' \cup toStop' \cup childCancelled'
          => target'[x] \in overlapped'
    BY <2>1, <2>3, <2>5 DEF ChildInv, SameName, Named
  <2>8. \A x, d \in Spawns :
          x # d /\ PastCheck(x)' /\ PastCheck(d)' /\ SameName(x, d)' => target'[x] \in overlapped'
    BY <2>1, <2>4 DEF ChildInv, SameName
  <2>9. /\ managed' \subseteq Spawns /\ \A d \in managed' : spawn'[d] = "done"
        /\ \A x \in Spawns : child'[x] = "serving" => spawn'[x] \in {"running", "done"}
    BY <2>1, <2>2, <2>3 DEF ChildInv
  <2>10. /\ TableTaken' => managed' \subseteq late'
         /\ main' \notin {"booting", "installing"}
    BY <2>1 DEF ChildInv, TableTaken
  <2>11. QED
    BY <2>1, <2>2, <2>6, <2>7, <2>8, <2>9, <2>10 DEF ChildInv
<1>4. QED
  BY <1>1, <1>2, <1>3 DEF SpawnNext

\* The shutdown moves children from the table to the list of those it stops,
\* and from there to those that are told.
LEMMA MainKeepsChildInv ==
  ASSUME ChildInv, MainNext
  PROVE  ChildInv'
<1>1. CASE TakeChildren
  BY <1>1 DEF ChildInv, TakeChildren, PastCheck, SameName, TableTaken
<1>2. CASE \E c \in Spawns : StopChild(c)
  BY <1>2 DEF ChildInv, StopChild, PastCheck, SameName, TableTaken, mainVars, adminVars
<1>3. CASE ClearMirageSession
  BY <1>3 DEF ChildInv, ClearMirageSession, PastCheck, SameName, TableTaken, adminVars, clusterVars
<1>4. CASE FetchProjectRepoOnBoot \/ StartServing \/ BootstrapFails
  BY <1>4 DEF ChildInv, FetchProjectRepoOnBoot, StartServing, BootstrapFails, PastCheck, SameName, TableTaken,
              adminVars, clusterVars
<1>5. CASE SeeShutdown \/ TakeSessionErr \/ TakeControlErr
  BY <1>5 DEF ChildInv, SeeShutdown, TakeSessionErr, TakeControlErr, ReturnOn, PastCheck, SameName, TableTaken,
              adminVars, clusterVars
<1>6. CASE StopNotify
  BY <1>6 DEF ChildInv, StopNotify, Cancel, PastCheck, SameName, TableTaken, adminVars, clusterVars
<1>7. QED
  BY <1>1, <1>2, <1>3, <1>4, <1>5, <1>6 DEF MainNext

LEMMA ChildReturnsKeepsChildInv ==
  ASSUME ChildInv, NEW c \in Spawns, ChildReturns(c)
  PROVE  ChildInv'
BY DEF ChildInv, ChildReturns, PastCheck, SameName, TableTaken, mainVars, adminVars

\* A child that serves and that the shutdown will not find was lost to an
\* overlap of two requests for its name, or was put into a table that the
\* shutdown had already taken (SpawnManagedGhost and stopManagedGhosts,
\* src/internal/ghost/cluster_host.go:57-135).
THEOREM OrphansComeFromRaces == ServiceSpec => []NoOrphanWithoutRace
<1>1. ServiceInit => ChildInv
  BY DEF ServiceInit, ChildInv, PastCheck, SameName, TableTaken
<1>2. ChildInv /\ [ServiceNext]_serviceVars => ChildInv'
  <2> SUFFICES ASSUME ChildInv, [ServiceNext]_serviceVars PROVE ChildInv'
    OBVIOUS
  <2>1. ASSUME UNCHANGED <<main, clusterVars>>,
               admin' = admin \/ main \notin {"booting", "installing"}
        PROVE  ChildInv'
    BY <2>1 DEF ChildInv, PastCheck, SameName, TableTaken, clusterVars
  <2>2. CASE MainNext
    BY <2>2, MainKeepsChildInv
  <2>3. CASE LoopNext \/ ProbeFails
    <3>1. UNCHANGED <<main, admin, clusterVars>>
      BY <2>3 DEF LoopNext, LoopTop, ConnectFails, ConnectMirageSession, SetMirageSession,
                  MonitorCancelled, ProbeFails, ClearMirageSessionIf, WaitReconnectBackoff, mainVars, adminVars
    <3>2. QED
      BY <2>1, <3>1
  <2>4. CASE Cancel \/ Listen \/ AdminFails \/ BindMirageAdminRoute
    <3>1. /\ UNCHANGED <<main, clusterVars>>
          /\ admin' = admin \/ main \notin {"booting", "installing"}
      BY <2>4 DEF ChildInv, Cancel, Listen, AdminFails, BindMirageAdminRoute, mainVars, adminVars
    <3>2. QED
      BY <2>1, <3>1
  <2>5. ASSUME NEW c \in Spawns,
               \/ \E name \in RequestNames, addressed \in BOOLEAN : SpawnCheck(c, name, addressed)
               \/ SpawnNext(c)
               \/ ChildReturns(c)
        PROVE  ChildInv'
    BY <2>5, SpawnCheckKeepsChildInv, SpawnNextKeepsChildInv, ChildReturnsKeepsChildInv
  <2>6. CASE UNCHANGED serviceVars
    BY <2>1, <2>6 DEF serviceVars, mainVars, adminVars
  <2>7. QED
    BY <2>2, <2>3, <2>4, <2>5, <2>6 DEF ServiceNext
<1>3. ChildInv => NoOrphanWithoutRace
  BY DEF ChildInv, NoOrphanWithoutRace, PastCheck, TableTaken
<1>4. QED
  BY <1>1, <1>2, <1>3, PTL DEF ServiceSpec
=============================================================================
