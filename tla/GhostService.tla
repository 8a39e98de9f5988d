------------------------------ MODULE GhostService ------------------------------
(***************************************************************************)
(* A Ghost process (src/internal/ghost/service.go): bootstrap, the serve   *)
(* loop, the goroutine that keeps a session to Mirage under the configured *)
(* policy, the admin listener as far as serve depends on it, and the       *)
(* children that a Ghost spawns and stops                                  *)
(* (src/internal/ghost/cluster_host.go).                                   *)
(*                                                                         *)
(* The goroutines are main (bootstrap and serve), loop                     *)
(* (runMirageSessionLoop), admin (serveAdminControl), one per spawn        *)
(* request, and one per child.  A select takes any of its ready cases.     *)
(* The process may outlive Run, as it does in a child or a test.           *)
(*                                                                         *)
(* Abstractions.  What happens inside a connection attempt is in           *)
(* SessionConnect and EventDelivery; here it succeeds or fails.  A child   *)
(* is headless and may not spawn: it serves until it is cancelled or its   *)
(* listener fails.  Stopping one waits for it or for two seconds, which is *)
(* the same step here.                                                     *)
(***************************************************************************)
EXTENDS Naturals, FiniteSets

CONSTANTS
  ServiceConfigs,   \* bound: the configurations tried
  RequestNames,     \* bound: target names in spawn requests
  NormalizeSuffix,  \* a target name -> its normal form
  NoName,           \* the normal form of a name with no letter or digit
  Spawns,           \* bound: spawn requests
  MaxSessions       \* bound: sessions established

Policies == {"headless", "auto", "required"}

\* addressed: a Mirage address is set; admin: an admin address is set;
\* project: the project root is a git repository with a remote.
AnyServiceConfig ==
  [policy : Policies \cup {"other"}, heartbeat : Nat, addressed : BOOLEAN, admin : BOOLEAN,
   cluster : BOOLEAN, project : BOOLEAN]

ASSUME GhostServiceAssumption ==
  /\ ServiceConfigs \subseteq AnyServiceConfig
  /\ \A n \in RequestNames : NormalizeSuffix[n] \in RequestNames \cup {NoName}
  /\ MaxSessions \in Nat

VARIABLES
  cfg,
  main,           \* booting, installing, serving, returning, stopping or returned
  exit,           \* what Run returns: none, ok or error
  projectFetched, \* the project's refs are those of its remote
  cancelled,      \* ctx is done
  loop,           \* runMirageSessionLoop: off, top, connecting, connected,
                  \* monitoring, clearing, backoff or ended
  connectedOnce,
  inHand,         \* sessionConn; 0 for none
  mirageSession,  \* Service.mirage: the session shown to others; 0 for none
  open,           \* the sessions whose connection this side has not closed
  sessionErr,     \* the channels: empty, nil or error
  controlErr,
  admin,          \* off, starting, failed, listening or ended
  mirageAdminBound,
  spawn,          \* SpawnManagedGhost: idle, checked, running, done or refused
  target,         \* the normal name of each request
  child,          \* child[c]: none, serving or returned, for the request c
  childCancelled,
  managed,        \* clusterHost.managed: the requests whose children are in it
  toStop,         \* nodes in stopManagedGhosts
  overlapped,     \* history: names for which two requests were past the check
  late            \* history: children put into the table after the shutdown took it

mainVars == <<cfg, main, exit, projectFetched, cancelled>>
loopVars == <<loop, connectedOnce, inHand, mirageSession, open, sessionErr>>
adminVars == <<controlErr, admin, mirageAdminBound>>
clusterVars == <<spawn, target, child, childCancelled, managed, toStop, overlapped, late>>

serviceVars == <<mainVars, loopVars, adminVars, clusterVars>>

ServiceInit ==
  /\ cfg \in ServiceConfigs
  /\ main = "booting"
  /\ exit = "none"
  /\ projectFetched = FALSE
  /\ cancelled = FALSE
  /\ loop = "off"
  /\ connectedOnce = FALSE
  /\ inHand = 0
  /\ mirageSession = 0
  /\ open = {}
  /\ sessionErr = "empty"
  /\ controlErr = "empty"
  /\ admin = "off"
  /\ mirageAdminBound = FALSE
  /\ spawn = [c \in Spawns |-> "idle"]
  /\ target = [c \in Spawns |-> NoName]
  /\ child = [c \in Spawns |-> "none"]
  /\ childCancelled = {}
  /\ managed = {}
  /\ toStop = {}
  /\ overlapped = {}
  /\ late = {}

-----------------------------------------------------------------------------
(* bootstrap and serve *)

\* Without a repository or a remote nothing is fetched; an error of git is
\* logged and the Ghost boots on.
FetchProjectRepoOnBoot ==
  /\ main = "booting"
  /\ cfg.heartbeat > 0
  /\ cfg.policy \in Policies
  /\ main' = "installing"
  /\ projectFetched' \in IF cfg.project THEN BOOLEAN ELSE {FALSE}
  /\ UNCHANGED <<cfg, exit, cancelled, loopVars, adminVars, clusterVars>>

\* The rest of bootstrap, and the goroutines that serve starts.
StartServing ==
  /\ main = "installing"
  /\ main' = "serving"
  /\ loop' = IF cfg.policy = "headless" THEN "off" ELSE "top"
  /\ admin' = IF cfg.admin THEN "starting" ELSE "off"
  /\ UNCHANGED <<cfg, exit, projectFetched, cancelled, connectedOnce, inHand, mirageSession, open,
                 sessionErr, controlErr, mirageAdminBound, clusterVars>>

\* A bad configuration, a dependency that cannot be installed, a seed id that
\* is unknown or repeated.
BootstrapFails ==
  /\ \/ main = "booting" /\ (cfg.heartbeat = 0 \/ cfg.policy \notin Policies)
     \/ main = "installing"
  /\ main' = "returned"
  /\ exit' = "error"
  /\ UNCHANGED <<cfg, projectFetched, cancelled, loopVars, adminVars, clusterVars>>

\* A signal.
Cancel ==
  /\ cancelled' = TRUE
  /\ UNCHANGED <<cfg, main, exit, projectFetched, loopVars, adminVars, clusterVars>>

SeeShutdown ==
  /\ main = "serving"
  /\ cancelled
  /\ main' = "returning"
  /\ exit' = "ok"
  /\ UNCHANGED <<cfg, projectFetched, cancelled, loopVars, adminVars, clusterVars>>

\* A nil is taken from the channel and serve goes on.
ReturnOn(err) ==
  /\ main = "serving"
  /\ err # "empty"
  /\ main' = IF err = "error" THEN "returning" ELSE main
  /\ exit' = IF err = "error" THEN "error" ELSE exit
  /\ UNCHANGED <<cfg, projectFetched, cancelled>>

TakeSessionErr ==
  /\ ReturnOn(sessionErr)
  /\ sessionErr' = "empty"
  /\ UNCHANGED <<loop, connectedOnce, inHand, mirageSession, open, adminVars, clusterVars>>

TakeControlErr ==
  /\ ReturnOn(controlErr)
  /\ controlErr' = "empty"
  /\ UNCHANGED <<admin, mirageAdminBound, loopVars, clusterVars>>

\* stopManagedGhosts takes the table as it is.
TakeChildren ==
  /\ main = "returning"
  /\ main' = "stopping"
  /\ toStop' = managed
  /\ managed' = {}
  /\ UNCHANGED <<cfg, exit, projectFetched, cancelled, loopVars, adminVars, spawn, target, child,
                 childCancelled, overlapped, late>>

StopChild(c) ==
  /\ main = "stopping"
  /\ c \in toStop
  /\ toStop' = toStop \ {c}
  /\ childCancelled' = childCancelled \cup {c}
  /\ UNCHANGED <<mainVars, loopVars, adminVars, spawn, target, child, managed, overlapped,
                 late>>

ClearMirageSession ==
  /\ main = "stopping"
  /\ toStop = {}
  /\ main' = "returned"
  /\ open' = open \ {mirageSession}
  /\ mirageSession' = 0
  /\ UNCHANGED <<cfg, exit, projectFetched, cancelled, loop, connectedOnce, inHand, sessionErr,
                 adminVars, clusterVars>>

\* Run's deferred stop.
StopNotify ==
  /\ main = "returned"
  /\ ~ cancelled
  /\ Cancel

-----------------------------------------------------------------------------
(* runMirageSessionLoop *)

EndLoop(err) == loop' = "ended" /\ sessionErr' = err

LoopTop ==
  /\ loop = "top"
  /\ IF cancelled THEN EndLoop("nil") ELSE loop' = "connecting" /\ UNCHANGED sessionErr
  /\ UNCHANGED <<mainVars, connectedOnce, inHand, mirageSession, open, adminVars, clusterVars>>

\* Mutation: a required Mirage must be there at every attempt.
AlwaysFatal == cfg.policy = "required"

FirstConnectFatal == cfg.policy = "required" /\ ~ connectedOnce

\* Without an address no attempt is made, nor will it ever be.
ConnectFails ==
  /\ loop = "connecting"
  /\ \/ FirstConnectFatal /\ EndLoop("error")
     \/ ~ FirstConnectFatal /\ ~ cfg.addressed /\ EndLoop("nil")
     \/ ~ FirstConnectFatal /\ cfg.addressed /\ loop' = "backoff" /\ UNCHANGED sessionErr
  /\ UNCHANGED <<mainVars, connectedOnce, inHand, mirageSession, open, adminVars, clusterVars>>

\* Also after ctx is done, when the answer is there already.
ConnectMirageSession(s) ==
  /\ loop = "connecting"
  /\ cfg.addressed
  /\ s = inHand + 1
  /\ loop' = "connected"
  /\ inHand' = s
  /\ open' = open \cup {s}
  /\ connectedOnce' = TRUE
  /\ UNCHANGED <<mainVars, mirageSession, sessionErr, adminVars, clusterVars>>

SetMirageSession ==
  /\ loop = "connected"
  /\ loop' = "monitoring"
  /\ open' = open \ ({mirageSession} \ {inHand})
  /\ mirageSession' = inHand
  /\ UNCHANGED <<mainVars, connectedOnce, inHand, sessionErr, adminVars, clusterVars>>

\* monitorMirageSession returns: a probe fails, or ctx is done.
ProbeFails ==
  /\ loop = "monitoring"
  /\ loop' = "clearing"
  /\ UNCHANGED <<mainVars, connectedOnce, inHand, mirageSession, open, sessionErr, adminVars, clusterVars>>

MonitorCancelled == cancelled /\ ProbeFails

\* Mutation: a session that is over is left where it is.
LeaveMirageSession ==
  /\ loop = "clearing"
  /\ loop' = "top"
  /\ UNCHANGED <<mainVars, connectedOnce, inHand, mirageSession, open, sessionErr, adminVars, clusterVars>>

ClearMirageSessionIf ==
  /\ loop = "clearing"
  /\ loop' = "top"
  /\ mirageSession' = IF mirageSession = inHand THEN 0 ELSE mirageSession
  /\ open' = IF mirageSession = inHand THEN open \ {inHand} ELSE open
  /\ UNCHANGED <<mainVars, connectedOnce, inHand, sessionErr, adminVars, clusterVars>>

\* Interrupted, the wait returns ctx's error, and so does the loop.
WaitReconnectBackoff ==
  /\ loop = "backoff"
  /\ \/ loop' = "top" /\ UNCHANGED sessionErr
     \/ cancelled /\ EndLoop("error")
  /\ UNCHANGED <<mainVars, connectedOnce, inHand, mirageSession, open, adminVars, clusterVars>>

-----------------------------------------------------------------------------
(* The admin listener *)

Listen ==
  /\ admin = "starting"
  /\ admin' = "listening"
  /\ UNCHANGED <<mainVars, loopVars, controlErr, mirageAdminBound, clusterVars>>

\* Listen or Accept fails; after cancellation that is how the listener ends.
AdminFails ==
  /\ admin \in {"starting", "listening"}
  /\ controlErr' = IF admin = "listening" /\ cancelled THEN "nil" ELSE "error"
  /\ admin' = IF admin = "starting" THEN "failed" ELSE "ended"
  /\ UNCHANGED <<mainVars, loopVars, mirageAdminBound, clusterVars>>

\* A Mirage that attaches through the admin endpoint; nothing takes it back.
BindMirageAdminRoute ==
  /\ admin = "listening"
  /\ mirageAdminBound' = TRUE
  /\ UNCHANGED <<mainVars, loopVars, controlErr, admin, clusterVars>>

MirageLinkMode ==
  IF mirageSession # 0 THEN "session" ELSE IF mirageAdminBound THEN "admin_route" ELSE "none"

-----------------------------------------------------------------------------
(* Children.  A connection to the admin endpoint outlives the listener. *)

Named(n) == {c \in managed : target[c] = n}

PastCheck(c) == spawn[c] \in {"checked", "running"}

\* stopManagedGhosts has emptied the table, and nobody looks at it again.
TableTaken == main \in {"stopping", "returned"}

\* Mutation: a name in use is not refused.
ExistsUnchecked(n) == FALSE

Exists(n) == Named(n) # {}

SpawnRefused(n, addressed) == ~ cfg.cluster \/ n = NoName \/ ~ addressed \/ Exists(n)

\* A request with or without an admin_addr.
SpawnCheck(c, name, addressed) ==
  LET n == NormalizeSuffix[name]
  IN  /\ admin \in {"listening", "ended"}
      /\ spawn[c] = "idle"
      /\ target' = [target EXCEPT ![c] = n]
      /\ spawn' = [spawn EXCEPT ![c] = IF SpawnRefused(n, addressed) THEN "refused" ELSE "checked"]
      /\ overlapped' = IF \E d \in Spawns : PastCheck(d) /\ target[d] = n
                       THEN overlapped \cup {n} ELSE overlapped
      /\ UNCHANGED <<mainVars, loopVars, adminVars, child, childCancelled, managed, toStop, late>>

\* The child boots and serves before it is in the table.
SpawnServe(c) ==
  /\ spawn[c] = "checked"
  /\ spawn' = [spawn EXCEPT ![c] = "running"]
  /\ child' = [child EXCEPT ![c] = "serving"]
  /\ UNCHANGED <<mainVars, loopVars, adminVars, target, childCancelled, managed, toStop, overlapped,
                 late>>

SpawnFails(c) ==
  /\ spawn[c] = "checked"
  /\ spawn' = [spawn EXCEPT ![c] = "refused"]
  /\ UNCHANGED <<mainVars, loopVars, adminVars, target, child, childCancelled, managed, toStop,
                 overlapped, late>>

\* What was under the name before is gone from the table.
SpawnInsert(c) ==
  /\ spawn[c] = "running"
  /\ spawn' = [spawn EXCEPT ![c] = "done"]
  /\ managed' = (managed \ Named(target[c])) \cup {c}
  /\ late' = IF TableTaken THEN late \cup {c} ELSE late
  /\ UNCHANGED <<mainVars, loopVars, adminVars, target, child, childCancelled, toStop, overlapped>>

\* A child's serve returns: cancelled, or its own listener failed.  Its entry
\* stays.
ChildReturns(c) ==
  /\ child[c] = "serving"
  /\ child' = [child EXCEPT ![c] = "returned"]
  /\ UNCHANGED <<mainVars, loopVars, adminVars, spawn, target, childCancelled, managed, toStop,
                 overlapped, late>>

ManagedGhostCount == Cardinality(managed)

-----------------------------------------------------------------------------
MainNext ==
  \/ FetchProjectRepoOnBoot
  \/ StartServing
  \/ BootstrapFails
  \/ SeeShutdown
  \/ TakeSessionErr
  \/ TakeControlErr
  \/ TakeChildren
  \/ \E c \in Spawns : StopChild(c)
  \/ ClearMirageSession
  \/ StopNotify

LoopNext ==
  \/ LoopTop
  \/ ConnectFails
  \/ \E s \in 1 .. MaxSessions : ConnectMirageSession(s)
  \/ SetMirageSession
  \/ MonitorCancelled
  \/ ClearMirageSessionIf
  \/ WaitReconnectBackoff

SpawnNext(c) ==
  \/ SpawnServe(c)
  \/ SpawnFails(c)
  \/ SpawnInsert(c)

ServiceNext ==
  \/ MainNext
  \/ Cancel
  \/ LoopNext
  \/ ProbeFails
  \/ Listen
  \/ AdminFails
  \/ BindMirageAdminRoute
  \/ \E c \in Spawns :
       \/ \E name \in RequestNames, addressed \in BOOLEAN : SpawnCheck(c, name, addressed)
       \/ SpawnNext(c)
       \/ ChildReturns(c)

\* Goroutines run, and every wait in serve and in the session loop has a
\* timeout: handshake, ack, backoff and two seconds for a child.  Nothing is
\* assumed of signals, of probes and of requests.
ServiceFairness == WF_serviceVars(MainNext) /\ WF_serviceVars(LoopNext)

ServiceSpec == ServiceInit /\ [][ServiceNext]_serviceVars /\ ServiceFairness

-----------------------------------------------------------------------------
\* A child that serves is in the table, where the shutdown will find it, or
\* has been told or is about to be told to stop, unless it is still to be put
\* there.  Two races alone lose a child: two requests for its name overlapped,
\* or it was put into the table when the shutdown had already taken it.  The
\* check for the name and the insertion are two critical sections
\* (SpawnManagedGhost and stopManagedGhosts,
\* src/internal/ghost/cluster_host.go:57-135).
NoOrphanWithoutRace ==
  \A c \in Spawns :
    child[c] = "serving" /\ ~ PastCheck(c) =>
      \/ c \in managed /\ ~ TableTaken
      \/ c \in toStop \cup childCancelled
      \/ c \in late
      \/ target[c] \in overlapped

\* Run returns an error only for a bad configuration or a failed installation
\* before anything was started, because the admin listener failed, because a
\* required Mirage could not be reached the first time, or while it is being
\* stopped.  A Mirage that goes away later never takes the Ghost with it
\* (serve and runMirageSessionLoop, src/internal/ghost/service.go:185-287).
ErrorExitExplained ==
  exit = "error" =>
    \/ loop = "off" /\ admin = "off"
    \/ admin \in {"failed", "ended"}
    \/ cfg.policy = "required" /\ ~ connectedOnce
    \/ cancelled

\* Once the context is done, the service comes to rest: Run returns, the
\* session loop is over, and every session is closed and shown to nobody, also
\* one that is established while serve is on its way out or after it is gone
\* (clearMirageSession, clearMirageSessionIf and setMirageSession,
\* service.go:337-365).
AllClosedInTheEnd ==
  cancelled ~> [](/\ main = "returned"
                  /\ loop \in {"off", "ended"}
                  /\ open = {}
                  /\ MirageLinkMode # "session")
=============================================================================
