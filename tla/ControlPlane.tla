------------------------------ MODULE ControlPlane ------------------------------
(***************************************************************************)
(* How Mirage knows its Ghosts by their admin endpoints: the constructor,  *)
(* preload, attach, spawn and probe (src/internal/mirage/service.go and    *)
(* admin_control.go), the calls they make (ghost_admin_client.go), and the *)
(* reconcile requests whose reports become the history (server.go).        *)
(*                                                                         *)
(* There are two tables: the orchestrator's executors, which decide where  *)
(* a command goes, and adminGhostAddrs, the routes that are shown and      *)
(* probed.  Each admin connection has a goroutine, so requests interleave  *)
(* between any two calls they make.  Meanwhile Ghosts come and go at the   *)
(* addresses.                                                              *)
(*                                                                         *)
(* Abstractions.  A call is answered by whoever listens at the address, or *)
(* fails.  The five attempts of bindGhostToMirage are one: what they bring *)
(* about at the Ghost is GhostService's BindMirageAdminRoute.  Addresses   *)
(* are in normal form.  What a snapshot returns to the client, and the     *)
(* intents' own state (Orchestrator), are left out.  The build log is not  *)
(* there: its commands have no command id, so EncodeCommandFrame refuses   *)
(* every one of them.                                                      *)
(***************************************************************************)
EXTENDS Naturals, Sequences, FiniteSets

CONSTANTS
  AdminGhosts,
  AdminAddrs,
  Nobody,         \* no Ghost id, no address
  Hosts,          \* bound: who listens where when Mirage starts
  LocalGhosts,    \* bound: <<LocalGhostID, LocalGhostAdminAddr>> as configured
  Preloads,       \* bound: PreloadGhostAdmins, sequences of <<id or Nobody, address>>
  Spawners,       \* bound: a subset of SpawnerKinds
  AdminConns,     \* bound: admin connections; the constructor uses one of them
  IntentIDs,      \* bound
  MaxMoves,       \* bound: Ghosts that start or end at an address
  MaxRequests     \* bound: admin requests, submit_issue apart

\* The spawner a Mirage starts with asks a Ghost; a program that embeds the
\* service can set its own.
SpawnerKinds == {"none", "ghost admin", "embedder"}

ASSUME ControlPlaneAssumption ==
  /\ Nobody \notin AdminGhosts \cup AdminAddrs
  /\ Hosts \subseteq [AdminAddrs -> AdminGhosts \cup {Nobody}]
  /\ LocalGhosts \subseteq (AdminGhosts \cup {Nobody}) \X (AdminAddrs \cup {Nobody})
  /\ Preloads \subseteq Seq((AdminGhosts \cup {Nobody}) \X AdminAddrs)
  /\ Spawners \subseteq SpawnerKinds
  /\ AdminConns # {}
  /\ {MaxMoves, MaxRequests} \subseteq Nat

VARIABLES
  host,        \* the Ghost that listens at each address, Nobody if there is none
  miragePhase, \* new, boot, appeared, shimmer or seeded: then requests are served
  localGhost,  \* the configured local Ghost
  preload,     \* the targets preloadGhostAdmins has still to attach
  spawner,
  executors,   \* Ghost id -> the address its executor calls
  routes,      \* adminGhostAddrs
  request,     \* what each admin connection is doing
  intents,     \* the submitted intents
  reports,     \* the report history: the intents reported on
  moved,       \* history: addresses whose Ghost has changed
  strayed,     \* history: ids probed or spawned at an address, attached half,
               \* or attached twice at a time
  moves, requests

tableVars == <<localGhost, preload, spawner, executors, routes>>
controlHistory == <<moved, strayed, moves, requests>>

controlVars == <<host, miragePhase, tableVars, request, intents, reports, controlHistory>>

Quiet == [at |-> "idle", id |-> Nobody, addr |-> Nobody, expected |-> Nobody, todo |-> {}]

ControlInit ==
  /\ host \in Hosts
  /\ miragePhase = "new"
  /\ localGhost \in LocalGhosts
  /\ preload \in Preloads
  /\ spawner \in Spawners
  /\ executors = [g \in AdminGhosts |-> Nobody]
  /\ routes = [g \in AdminGhosts |-> Nobody]
  /\ request = [h \in AdminConns |-> Quiet]
  /\ intents = {}
  /\ reports = <<>>
  /\ moved = {}
  /\ strayed = {}
  /\ moves = 0
  /\ requests = 0

\* A Ghost starts or ends at an address, or another one takes its place.
Move(a, g) ==
  /\ moves < MaxMoves
  /\ host[a] # g
  /\ moves' = moves + 1
  /\ host' = [host EXCEPT ![a] = g]
  /\ moved' = moved \cup {a}
  /\ UNCHANGED <<miragePhase, tableVars, request, intents, reports, strayed, requests>>

-----------------------------------------------------------------------------
(* Start *)

\* NewServiceWithConfig, up to preloadGhostAdmins.  The local Ghost is not
\* asked who it is, and whether it takes the binding does not matter.
NewService ==
  /\ miragePhase = "new"
  /\ miragePhase' = "boot"
  /\ LET g == localGhost[1]
         a == localGhost[2]
     IN  IF a = Nobody \/ g = Nobody THEN UNCHANGED <<executors, routes>>
         ELSE /\ executors' = [executors EXCEPT ![g] = a]
              /\ routes' = [routes EXCEPT ![g] = a]
  /\ UNCHANGED <<host, localGhost, preload, spawner, request, intents, reports, controlHistory>>

Constructor == CHOOSE h \in AdminConns : TRUE

Constructing == miragePhase = "boot" /\ \A h \in AdminConns : request[h] = Quiet

\* The next target of preloadGhostAdmins; a failure is logged.
PreloadAttach ==
  /\ Constructing
  /\ preload # <<>>
  /\ request' = [request EXCEPT ![Constructor] = [Quiet EXCEPT !.at = "status",
                                                               !.addr = Head(preload)[2],
                                                               !.expected = Head(preload)[1]]]
  /\ preload' = Tail(preload)
  /\ UNCHANGED <<host, miragePhase, localGhost, spawner, executors, routes, intents, reports,
                 controlHistory>>

\* Run: Appear, Shimmer, Seed, each in its phase only, then the listeners.
Transition(from, to) ==
  /\ miragePhase = from
  /\ miragePhase' = to
  /\ UNCHANGED <<host, tableVars, request, intents, reports, controlHistory>>

MirageAppear == Constructing /\ preload = <<>> /\ Transition("boot", "appeared")
MirageShimmer == Transition("appeared", "shimmer")
MirageSeed == Transition("shimmer", "seeded")

-----------------------------------------------------------------------------
(***************************************************************************)
(* Requests.  Begin takes one from a connection; the steps that follow     *)
(* change what request[h] says.                                            *)
(***************************************************************************)
Begin(h, r) ==
  /\ miragePhase = "seeded"
  /\ request[h] = Quiet
  /\ requests < MaxRequests
  /\ requests' = requests + 1
  /\ request' = [request EXCEPT ![h] = r]
  /\ UNCHANGED <<host, miragePhase, tableVars, moved, strayed, moves>>

Goes(h, to) == request' = [request EXCEPT ![h].at = to]

Answered(h) == request' = [request EXCEPT ![h] = Quiet]

\* A call of h fails, or its answer does not come in time: the request is
\* answered with an error.  An attach that has registered its executor
\* leaves it there.
RequestFails(h) ==
  /\ request[h].at \in {"status", "bind", "spawn", "bind spawned", "reconcile"}
  /\ Answered(h)
  /\ strayed' = IF request[h].at = "bind" THEN strayed \cup {request[h].id} ELSE strayed
  /\ UNCHANGED <<host, miragePhase, tableVars, intents, reports, moved, moves, requests>>

-----------------------------------------------------------------------------
(* attach_ghost_admin *)

RequestAttach(h, a) ==
  /\ Begin(h, [Quiet EXCEPT !.at = "status", !.addr = a])
  /\ UNCHANGED <<intents, reports>>

\* The Ghost at the address says who it is; a preloaded one must say what was
\* expected of it.
ReadStatus(h) ==
  LET g == host[request[h].addr]
  IN  /\ request[h].at = "status"
      /\ g # Nobody
      /\ request[h].expected \in {Nobody, g}
      /\ request' = [request EXCEPT ![h].at = "register", ![h].id = g]
      /\ UNCHANGED <<host, miragePhase, tableVars, intents, reports, controlHistory>>

Attaching(h, g) == request[h].at \in {"bind", "route"} /\ request[h].id = g

RegisterExecutor(h) ==
  LET g == request[h].id
  IN  /\ request[h].at = "register"
      /\ executors' = [executors EXCEPT ![g] = request[h].addr]
      /\ strayed' = IF \E i \in AdminConns : Attaching(i, g) THEN strayed \cup {g} ELSE strayed
      /\ Goes(h, "bind")
      /\ UNCHANGED <<host, miragePhase, localGhost, preload, spawner, routes, intents, reports,
                     moved, moves, requests>>

BindGhostToMirage(h) ==
  /\ request[h].at \in {"bind", "bind spawned"}
  /\ host[request[h].addr] # Nobody
  /\ Goes(h, "route")
  /\ UNCHANGED <<host, miragePhase, tableVars, intents, reports, controlHistory>>

\* Mutation: the address is bound to the Ghost only if it has none.
BindGhostAdminOnce(g, a) == routes' = [routes EXCEPT ![g] = IF @ = Nobody THEN a ELSE @]

BindGhostAdmin(g, a) == routes' = [routes EXCEPT ![g] = a]

FinishRoute(h) ==
  /\ request[h].at = "route"
  /\ BindGhostAdmin(request[h].id, request[h].addr)
  /\ Answered(h)
  /\ UNCHANGED <<host, miragePhase, localGhost, preload, spawner, executors, intents, reports,
                 controlHistory>>

-----------------------------------------------------------------------------
(* spawn_local_ghost *)

RequestSpawn(h) ==
  /\ Begin(h, [Quiet EXCEPT !.at = "spawn"])
  /\ UNCHANGED <<intents, reports>>

\* A Ghost asked through its admin endpoint refuses: it does not find the
\* target name under the key Mirage sends it with.  No executor is
\* registered for what an embedder's spawner starts.
SpawnLocalGhost(h, g, a) ==
  /\ request[h].at = "spawn"
  /\ spawner = "embedder"
  /\ moves < MaxMoves
  /\ host[a] = Nobody
  /\ moves' = moves + 1
  /\ host' = [host EXCEPT ![a] = g]
  /\ moved' = moved \cup {a}
  /\ strayed' = strayed \cup {g}
  /\ request' = [request EXCEPT ![h].at = "bind spawned", ![h].id = g, ![h].addr = a]
  /\ UNCHANGED <<miragePhase, tableVars, intents, reports, requests>>

-----------------------------------------------------------------------------
(* status, registered_ghosts, routing_table and available_services *)

\* SnapshotConnectedGhosts starts from a copy of the routes.
RequestSnapshot(h) ==
  /\ Begin(h, [Quiet EXCEPT !.at = "probe",
                            !.todo = {<<g, routes[g]>> : g \in {x \in AdminGhosts : routes[x] # Nobody}}])
  /\ UNCHANGED <<intents, reports>>

\* One Ghost of the copy is asked for its status.
ProbeGhost(h) ==
  /\ request[h].at = "probe"
  /\ \E entry \in request[h].todo :
       LET answer == host[entry[2]]
           left == [request[h] EXCEPT !.todo = @ \ {entry}]
       IN  request' = [request EXCEPT ![h] = IF answer \in {Nobody, entry[1]} THEN left
                                             ELSE [left EXCEPT !.at = "rebind", !.id = answer,
                                                               !.addr = entry[2]]]
  /\ UNCHANGED <<host, miragePhase, tableVars, intents, reports, controlHistory>>

\* One that has answered with another id is bound under that id as well.
RebindProbed(h) ==
  /\ request[h].at = "rebind"
  /\ BindGhostAdmin(request[h].id, request[h].addr)
  /\ strayed' = strayed \cup {request[h].id}
  /\ request' = [request EXCEPT ![h] = [Quiet EXCEPT !.at = "probe", !.todo = request[h].todo]]
  /\ UNCHANGED <<host, miragePhase, localGhost, preload, spawner, executors, intents, reports,
                 moved, moves, requests>>

\* The call times out: the Ghost is shown as not connected.
ProbeTimesOut(h) ==
  /\ request[h].at = "probe"
  /\ \E entry \in request[h].todo : request' = [request EXCEPT ![h].todo = @ \ {entry}]
  /\ UNCHANGED <<host, miragePhase, tableVars, intents, reports, controlHistory>>

SnapshotDone(h) ==
  /\ request[h].at = "probe"
  /\ request[h].todo = {}
  /\ Answered(h)
  /\ UNCHANGED <<host, miragePhase, tableVars, intents, reports, controlHistory>>

-----------------------------------------------------------------------------
(* submit_issue, reconcile_intent and reconcile_all *)

SubmitIntent(h, i) ==
  /\ miragePhase = "seeded"
  /\ request[h] = Quiet
  /\ intents' = intents \cup {i}
  /\ UNCHANGED <<host, miragePhase, tableVars, request, reports, controlHistory>>

RequestReconcile(h, which) ==
  /\ which # {}
  /\ Begin(h, [Quiet EXCEPT !.at = "reconcile", !.todo = which])
  /\ UNCHANGED <<intents, reports>>

\* reconcile_all takes the intents in order.
NextIntent(h) == CHOOSE i \in request[h].todo : \A j \in request[h].todo : i <= j

\* ReconcileOnce has returned a report: the orchestrator's mutex is free.
ReportMade(h) ==
  /\ request[h].at = "reconcile"
  /\ NextIntent(h) \in intents
  /\ Goes(h, "append")
  /\ UNCHANGED <<host, miragePhase, tableVars, intents, reports, controlHistory>>

AppendReport(h) ==
  /\ request[h].at = "append"
  /\ reports' = Append(reports, NextIntent(h))
  /\ LET left == request[h].todo \ {NextIntent(h)}
     IN  request' = [request EXCEPT ![h] = IF left = {} THEN Quiet
                                          ELSE [@ EXCEPT !.at = "reconcile", !.todo = left]]
  /\ UNCHANGED <<host, miragePhase, tableVars, intents, controlHistory>>

ControlNext ==
  \/ \E a \in AdminAddrs, g \in AdminGhosts \cup {Nobody} : Move(a, g)
  \/ NewService
  \/ PreloadAttach
  \/ MirageAppear \/ MirageShimmer \/ MirageSeed
  \/ \E h \in AdminConns :
       \/ RequestFails(h)
       \/ \E a \in AdminAddrs : RequestAttach(h, a)
       \/ ReadStatus(h)
       \/ RegisterExecutor(h)
       \/ BindGhostToMirage(h)
       \/ FinishRoute(h)
       \/ RequestSpawn(h)
       \/ \E g \in AdminGhosts, a \in AdminAddrs : SpawnLocalGhost(h, g, a)
       \/ RequestSnapshot(h)
       \/ ProbeGhost(h)
       \/ RebindProbed(h)
       \/ ProbeTimesOut(h)
       \/ SnapshotDone(h)
       \/ \E i \in IntentIDs : SubmitIntent(h, i)
       \/ \E i \in IntentIDs : RequestReconcile(h, {i})
       \/ RequestReconcile(h, intents)
       \/ ReportMade(h)
       \/ AppendReport(h)

ControlSpec == ControlInit /\ [][ControlNext]_controlVars

-----------------------------------------------------------------------------
\* The Ghost that runs a command for g: it does so under its own id, whatever
\* id it was sent with.
RunsAt(g) == IF executors[g] = Nobody THEN Nobody ELSE host[executors[g]]

\* Commands go where the route says, and to the Ghost they name.  A Ghost is
\* shown at another address than the one its commands go to only while it is
\* being attached, or after a probe found it where another was expected, a
\* spawn, an attach that failed half way, or two attaches at a time.  And a
\* command is run by another Ghost than the one it names only at an address
\* whose Ghost has changed, or for the local Ghost, whose id is taken from
\* the configuration unasked (attachGhostAdmin, SnapshotConnectedGhosts and
\* NewServiceWithConfig in src/internal/mirage).
RouteAgrees ==
  /\ \A g \in AdminGhosts :
       routes[g] # executors[g] =>
         g \in strayed \/ \E h \in AdminConns : Attaching(h, g)
  /\ \A g \in AdminGhosts :
       RunsAt(g) \notin {Nobody, g} => executors[g] \in moved \/ <<g, executors[g]>> = localGhost

-----------------------------------------------------------------------------
(***************************************************************************)
(* Why RouteAgrees holds: the parts of the inductive invariant.            *)
(***************************************************************************)
Stages == {"idle", "status", "register", "bind", "route", "spawn", "bind spawned",
           "probe", "rebind", "reconcile", "append"}

RequestOK(r) ==
  r \in [at : Stages, id : AdminGhosts \cup {Nobody}, addr : AdminAddrs \cup {Nobody},
         expected : AdminGhosts \cup {Nobody},
         todo : IF r.at \in {"probe", "rebind"} THEN SUBSET (AdminGhosts \X AdminAddrs)
                ELSE IF r.at \in {"reconcile", "append"} THEN SUBSET IntentIDs ELSE {{}}]

TablesOK ==
  /\ host \in [AdminAddrs -> AdminGhosts \cup {Nobody}]
  /\ localGhost \in (AdminGhosts \cup {Nobody}) \X (AdminAddrs \cup {Nobody})
  /\ preload \in Seq((AdminGhosts \cup {Nobody}) \X AdminAddrs)
  /\ executors \in [AdminGhosts -> AdminAddrs \cup {Nobody}]
  /\ routes \in [AdminGhosts -> AdminAddrs \cup {Nobody}]
  /\ intents \subseteq IntentIDs
  /\ request \in [AdminConns -> {request[h] : h \in AdminConns}]
  /\ \A h \in AdminConns : RequestOK(request[h])

\* What a request holds between two of its calls is still so, or what has
\* changed since is in the histories.
RequestInStep(r) ==
  /\ miragePhase = "new" => r = Quiet
  /\ r.at \in {"status", "register", "bind", "bind spawned", "route", "rebind"} => r.addr # Nobody
  /\ r.at \in {"register", "bind", "bind spawned", "route", "rebind"} => r.id # Nobody
  /\ r.at = "register" => host[r.addr] = r.id \/ r.addr \in moved
  /\ r.at \in {"bind", "route"} => executors[r.id] = r.addr \/ r.id \in strayed
  /\ r.at = "bind spawned" => r.id \in strayed

ControlInv ==
  /\ TablesOK
  /\ \A h \in AdminConns : RequestInStep(request[h])
  /\ RouteAgrees
=============================================================================
