# edgectl: a TLA+ model of Mirage and Ghost

edgectl runs *intents* on edge nodes. A **Mirage** (control plane) turns an
issue into an ordered plan of commands and drives it; a **Ghost** (one per
node) executes commands by running **seeds** and answers each with one terminal
event. This directory holds TLA+ models of that control loop, translated from
the Go source under `src/`, the TLC instances that check them, and proofs for
the TLA+ proof system.

Contents: [Inventory](#inventory) · [Modules](#modules) ·
[Correspondence](#model-and-code) · [Runs](#runs) · [Findings](#findings) ·
[Fairness](#fairness) · [Proofs](#proofs) · [Limits](#what-is-not-modelled) ·
[Other divergences](#other-divergences) · [Plan](#plan)

## Inventory

### Mirage (`src/internal/mirage`)

| component | state | operations | what is hard, and what makes it correct |
|---|---|---|---|
| **Orchestrator** `orchestration.go` | per intent: desired plan, observed events by command id, event and report history; executors by Ghost; seed locks by `ghost::seed` | `SubmitIssue`, `RegisterExecutor`, `ReconcileOnce`, `IngestObservedEvent`, snapshots | `ReconcileOnce` drops its mutex while a command executes and then works with what it read before. Commands go out in plan order; "satisfied" only when nothing is pending; one event per command; seed locks exclude and never leak; every intent settles |
| **Server** `server.go` | lifecycle phase, registry of Ghosts with an ack table each, report history | `Appear`, `Shimmer`, `Seed`, `UpsertRegistration`, `MarkGhostDisconnected`, `AcceptEvent`, `ReconcileIntent`, `ObserveEvent` | acks are idempotent by event id; the connection flag follows the sessions; reports are appended after the orchestrator's mutex was released |
| **Session endpoint** `service.go` | open connections, one goroutine each | accept, authenticate, register, then read event / observe / accept / ack | a reconnect overlaps the end of the old connection; the ack may not reach the Ghost |
| **Admin control** `admin_control.go`, **Ghost attachment** `service.go`, `ghost_admin_client.go` | admin connections, addresses and executors of attached Ghosts | submit, reconcile one or all, snapshots, attach, spawn | several clients at once; partial failure of an attachment; one bad intent in `reconcile_all` |

### Ghost (`src/internal/ghost`)

| component | state | operations | what is hard, and what makes it correct |
|---|---|---|---|
| **Server** `server.go`, `execution.go`, `command.go`, `pipeline.go`, `envelopes.go` | phase, identity, seed registry, executions by execution id and command id, command ids by message id | `Appear`, `Seed`, `Radiate`, `HandleCommand`, `HandleCommandAndExecute` | a seed runs with no lock held; concurrent callers with the same ids; the store dies with the process. Each command runs once, indexes agree, each accepted command completes |
| **Session client** `mirage_client.go`, `protocol/session/outbox.go` | connection, outbox | connect and register with backoff, send an event until it is acked | acks that come late, sessions that break, events lost with the outbox |
| **Service** `service.go` | policy, current session, admin route | bootstrap, serve, session loop, heartbeat probes | shutdown against reconnect; which errors may end the process; every session closed in the end |
| **Admin control** `admin_control.go` | event history, admin lock | execute, list events, spawn, bind | generated ids, misrouted commands |
| **Cluster host** `cluster_host.go` | child Ghosts by name | spawn, stop all | check and insertion are two critical sections; no child may be lost to the shutdown |
| **Command loop** `command_loop.go` | desired and observed command by request id | submit, reconcile | the same stale read as the orchestrator's; used by tests only |

### Protocol, seeds, programs

| component | note |
|---|---|
| `protocol/session` | outbox, backoff, wire forms of the messages, transport security: who may register as whom, under two configurations that need not agree |
| `protocol/frame`, `tlv`, `schema` | frame header arithmetic (16 bits for the header's length), TLV fields, schema checks: what was encoded must come out, and a reader must never lose the boundary between frames |
| `seeds/*` | registry and install; flow, fs, kv and mongod seeds: installations that stop half way, operations that are repeated |
| `cmd/*` | `ghostctl`, `miragectl`: configuration, then one call of `Service.Run`; `client-tm`: terminal menus; `testctl`: test runner |
| `logging`, `tools`, `third_party/smplog` | logging, process wrapper, third-party library |

### How they interact

Admin clients talk JSON over TCP to Mirage's admin port; each connection has a
goroutine, so `SubmitIssue` and `ReconcileOnce` interleave freely. An executor
is a Ghost's admin client: `ReconcileOnce` → `GhostControlClient.ExecuteCommand`
→ the Ghost's admin port → `HandleCommandAndExecute` → seed → event back along
the call. The second way for an event to reach Mirage is the session: a Ghost
registers over framed TCP and sends events that Mirage observes
(`IngestObservedEvent`), accepts and acks. The bundled Ghost sends only
heartbeat probes there; the endpoint takes any Ghost's events, which is the
route the protocol documents describe.

## Modules

| module | what it is |
|---|---|
| `IntentProgress` | abstract specification: what a client may see of an intent (how much is to do, how much is done, the reported state) |
| `Orchestrator` | Mirage's orchestration loop, workers and locks included |
| `MCOrchestrator` | its TLC instances |
| `Orchestrator_proofs` | its theorems: those for every concurrency, and those for one admin call at a time per intent, the refinement included |
| `GhostServer` | a Ghost's lifecycle, command boundary and execution store, with crashes |
| `GhostServer_proofs` | its theorems |
| `EventLedger` | abstract specification: what the event session promises (an event is counted once, and delivered only if accepted) |
| `EventDelivery` | the session between a Ghost and Mirage: client, connections, Mirage's goroutines, registry entry |
| `EventDelivery_proofs` | its theorems, the refinement included |
| `Dispatch` | `Orchestrator` and `GhostServer` composed by the call that carries a command, which can be lost |
| `MCDispatch` | its TLC instances |
| `Dispatch_proofs` | its theorems, the refinement of both sides included |
| `Frame` | frames on a connection: `WriteFrame`, `ReadFrame` and the arithmetic of their lengths |
| `WireForms` | the payloads: TLV fields, schema, and the four messages encoded with them: events, acks, commands, reports |
| `SessionConnect` | from a configuration to a registered session: transport policy, TLS, identity binding, attempts and backoff |
| `IssueIngest` | from an issue to a stored intent: validation, plan, command ids, lock keys |
| `GhostService` | the Ghost process: bootstrap, serve, session loop, admin listener, children, shutdown |
| `GhostService_proofs` | its theorems |
| `Codec_proofs` | theorems of `Frame` and `WireForms` |
| `Boundary_proofs` | theorems of `SessionConnect` and `IssueIngest` |
| `MCBoundary` | TLC instances of `Frame`, `WireForms`, `SessionConnect`, `EventDelivery`, `IssueIngest` and `GhostService` |
| `ControlPlane` | how Mirage knows its Ghosts: preload, attach, spawn, probes, routes and executors; reconcile requests and the report history |
| `SeedInstall` | installation of seed dependencies with git, copies and brew, through failures and boots |
| `SeedOps` | the built-in seeds: how a registry is built, and what each operation does |
| `Fleet_proofs` | theorems of `ControlPlane`, `SeedInstall` and `SeedOps` |
| `MCFleet` | TLC instances of `GhostServer`, `ControlPlane`, `SeedInstall` and `SeedOps` |

`Dispatch` composes `Orchestrator` and `GhostServer`. The others meet at one
action of a neighbour each, named in their headers: `SessionConnect` is what
`EventDelivery!Dial` and `OpenSession` and `GhostService!ConnectMirageSession`
take as one step, `IssueIngest` makes the plans that `Orchestrator` takes from
`Plans`, `Frame` and `WireForms` justify that messages are values elsewhere, and
`SeedOps` is what `GhostServer!ExecuteSeed` runs.

## Model and code

### Orchestrator

One action is one critical section of `o.mu` with the local code up to the
next. `desired`, `byCommandID`, `events`, `report`, `executors` and `seedLocks`
are the maps of `Orchestrator` and `ObservedIntent`; `pc` and `job` are the
program counter and the stack of each goroutine inside `ReconcileOnce` (`job`
holds the plan it read at line 272 and still uses at line 323); `issued` and
`dispatched` are history variables.

| action | code |
|---|---|
| `SubmitIssue` | `SubmitIssue`: replace the plan, drop the observed state, keep locks and calls |
| `ReconcileBlocked` | `ReconcileOnce` up to 293: the lock has another owner, in_progress report |
| `ReconcileNoExecutor` | up to 304: the lock is taken, there is no executor, error |
| `ReconcileDispatch` | up to the call of the executor at 313 |
| `ExecuteFails`, `ReleaseSeedLock` | any error after that, and `releaseSeedLock` in a critical section of its own |
| `IngestReply` | lines 321-338 |
| `IngestObservedEvent` | lines 342-373 |

A command is its position in the plan: `planCommandsFromIssue` names it
`cmd.<sanitized intent>.<position>`. `SanitizeID` is a constant, because
`sanitizeID` can give two intents one name. The name of a seed lock is the
constant `SeedLockKey` of Ghost and seed: `seedLockKey` joins the two with
`::`, so nothing is assumed of it and two pairs may share a lock. Calls that find no intent or
nothing pending change no state and are no action. `MayCall` restricts *who
calls*: with `SerialClients` each intent has one admin client, which waits for
its answer. Without it, anyone calls at any time.

### GhostServer

`HandleCommand` and `CompleteExecution` are the two sections of `s.mu`;
`ExecuteSeed` is the seed between them. The guards of `Accepts` are the
refusals of `HandleCommand`. `Restart` is the process dying at any point: the
store is in memory, so it empties it, while `seedRuns` and `events` (history)
remember what the world saw.

### EventDelivery

Three parties and the wire between them. `phase`, `conn`, `sending` and
`outbox` are the Ghost's `MirageSession` and the `SendEventWithAck` call that
holds its mutex; `handler[n]` and `reading[n]` are where `handleConn` is for
connection `n` and the event it holds; `remote`, `ackByEvent` and `eventCount`
are the Ghost's entry in `Server.registry`.

| action | code |
|---|---|
| `Dial`, `OpenSession` | `ConnectAndRegister`, `register` |
| `SendEventWithAck`, `Retry` | an attempt up to its write: `sendEventOnce` to 324 |
| `ReadAck`, `ReadWrongAck`, `AckTimeout` | the read that ends the attempt (326-340), by what it finds |
| `GiveUp` | `ErrAckTimeout`, or the caller's context |
| `HangUp` | the connection is closed: failed registration, failed send (`clearMirageSession`), shutdown, death of the process |
| `Refuse`, `UpsertRegistration`, `AckRegistration` | `handleConn` up to the deferred disconnect at 450; an ack that cannot be written leaves the goroutine `"dropped"` |
| `ObserveEvent`, `AckEvent` | one turn of its loop, split where it takes the mutex of `Server`; the ack may not reach the wire |
| `ReadFails`, `MarkGhostDisconnected` | the end of the loop, and the deferred call |
| `Restart` | the `miragectl` process dies |

Frames arrive in order and whole, or not at all; either end may fail at any
time. What a Ghost wrote before it hung up can still be read. Ghosts share
nothing in the registry, so there is one. `Connected` and `RemoteAddr` are set
together and are the one variable `remote`.

### Dispatch

Instantiates `Orchestrator` and `GhostServer` over its own variables and joins
them: where `Orchestrator` lets a call end in any way, here the answer is what
the Ghost made of the request. `request[p]` is one connection to the Ghost's
admin port with the goroutine that serves it; `adminMu` and `adminSeq` are the
fields of the Ghost's `Service`.

| action | code |
|---|---|
| `Call` | `ReconcileOnce` up to `ExecuteCommand`; `GhostControlClient.call` to its write |
| `Accept`, `Refuse`, `RunSeed`, `Answer` | `ExecuteAdminCommand` under `adminMu`, with `HandleCommand`, the seed and `completeExecution` inside |
| `TakeReply`, `TakeError` | the rest of `call` and of `ReconcileOnce` |
| `CallRefused`, `CallLost` | no connection; a timeout or a broken connection. After a timeout the Ghost's goroutine goes on with nobody to answer to |
| `GhostDies`, `Bootstrap` | the process dies, and comes up again |

### Frame and WireForms

`written` is what the writer's calls put on the connection, `received` what
`ReadFrame` returned; `skew` is the distance between where the reader is and
where a frame begins. A frame is its lengths and flags: header bytes, magic and
version are checked, and `header_len` is computed modulo 2^16 as the code does.
The connection may break inside the last frame. In `WireForms` a message is a
map from field ids to values, a payload a sequence of bytes: `EncodeField`,
`DecodeFields`, the required and optional lookups of `schema.go` and the order
of fields of each encoder are spelled out, for events, acks, commands and
reports. Another version's sender may put a field of its own among them. Numbers
have their widths: `DecodeFields` compares a length with what is left of the
payload as 32 bits (`IsWholeField`), which is why the limit of 8 MiB that
`WriteFrame` sets on a payload (`PayloadLimit`) is a guard of `EncodeMessage`.

### SessionConnect

| action | code |
|---|---|
| `StartMirage`, `StartConnecting` | the configurations both sides start with, `ValidateServerTransport` and `ValidateClientTransport` |
| `DialMirage`, `DialFails` | `dial` and the client's side of the TLS handshake, as far as it checks anything |
| `AuthenticateConn`, `HandlerGivesUp`, `HandleRegistration` | Mirage's side: `authenticateConn`, `handleRegistration` with identity binding, and its timeouts |
| `ReadRegistrationAck`, `RegisterFails`, `SleepBackoff` | `ConnectAndRegister`: rejection is final, other failures are retried as configured, after `NextBackoffDelay` |

Delays are milliseconds; jitter is a percentage from a small set that holds
the ends of its range. With TLS 1.3 the client's handshake ends before the
server has looked at its certificate, so it may register and only then fail.

### IssueIngest

`SubmitByAdmin` is `mapAdminIssue` and then `SubmitIssue`; `SubmitInProcess` is
`SubmitIssue` alone, with what the caller wrote. `desired` is the orchestrator's
map by the id it was stored under. `AttributeEvent` looks a command up by its
id, as `findPlannedCommandByCommandID` does, over a map whose order is not
determined: all owners it may return are kept. Text is a small set on which the
trimming and replacing functions are tables, and so is the text of a lock's name
(`JoinText`): Ghost `a::b` with seed `c` and Ghost `a` with seed `b::c` have one lock.

### GhostService

| action | code |
|---|---|
| `FetchProjectRepoOnBoot`, `StartServing`, `BootstrapFails` | `Run`, `bootstrap`, the goroutines `serve` starts |
| `SeeShutdown`, `TakeSessionErr`, `TakeControlErr` | the select of `serve`; any ready case may be taken |
| `TakeChildren`, `StopChild`, `ClearMirageSession` | its deferred `stopManagedGhosts` and `clearMirageSession` |
| `LoopTop`, `ConnectMirageSession`, `ConnectFails`, `SetMirageSession`, `MonitorCancelled`, `ClearMirageSessionIf`, `WaitReconnectBackoff` | `runMirageSessionLoop` and `monitorMirageSession` |
| `ProbeFails` | a heartbeat probe that is not acked ends the session |
| `Listen`, `AdminFails`, `BindMirageAdminRoute` | the admin listener as far as `serve` depends on it |
| `SpawnCheck` (`SpawnRefused`: no cluster host, no name, no admin address, a name in use), `SpawnServe`, `SpawnFails`, `SpawnInsert`, `ChildReturns` | `SpawnManagedGhost`, with the child's bootstrap between its two critical sections |

The process may go on after `Run` returned (a child, a test), so a session or a
child that is then still open is visible in the model. Stopping a child waits
for it or for two seconds, which is one step.

### ControlPlane

`executors` is the orchestrator's map (where commands go), `routes` is
`adminGhostAddrs` (what is shown and probed), `host` who listens at an address.
`request[h]` is where the goroutine of an admin connection is; calls to a Ghost
are separate steps, so two attaches, or an attach and a snapshot, interleave
between them.

| action | code |
|---|---|
| `NewService`, `PreloadAttach`, `MirageAppear`, `MirageShimmer`, `MirageSeed` | the constructor with its local Ghost, `preloadGhostAdmins`, `Run` |
| `RequestAttach`, `ReadStatus`, `RegisterExecutor`, `BindGhostToMirage`, `FinishRoute`, `RequestFails` | `attachGhostAdmin`, one step per call it makes; what a failure leaves behind |
| `RequestSpawn`, `SpawnLocalGhost` | `spawn_local_ghost`: an embedder's spawner, or a Ghost, which refuses (see below) |
| `RequestSnapshot`, `ProbeGhost`, `RebindProbed`, `ProbeTimesOut`, `SnapshotDone` | `SnapshotConnectedGhosts`: a probe that answers with another id rebinds the route |
| `SubmitIntent`, `RequestReconcile`, `ReportMade`, `AppendReport` | submit, `reconcile_intent`, `reconcile_all`; the report is appended after the orchestrator's mutex was released |
| `Move` | a Ghost starts or ends at an address, or another takes its place |

### SeedInstall and SeedOps

In `SeedInstall` each command line is a step that succeeds or fails, and each
file of a copied tree is one; `disk` survives failures, crashes and boots, the
configuration may be another at each boot, and branches get commits meanwhile.
`asked` and `installed` are history variables. `SeedOps` gives each operation as
a function from what the seeds keep to a result and what they keep then
(`FsWrite`, `FsDelete`, `KvExecute`, …); `BuildRegistry` is
`buildBuiltinRegistry`, `Reboot` loses what `seed.kv` has in memory.

## Runs

| run | instance | shows |
|---|---|---|
| `serial` | 2 intents that share a blocking seed, 2 workers, 2 Ghosts, up to 2 submissions per intent (the second may be shorter); one client per intent | the loop implements `IntentProgress`; nothing counts as observed that was not dispatched for the current issue; "satisfied" means done; locks exclude; the inductive invariant holds |
| `concurrent` | the same intents, each submitted once; any worker calls for any intent; events also over the session, repeated and reordered | plan order and locks survive, every issue settles |
| `false_satisfied` | as `concurrent` | finding 1 |
| `stomped_lock` | as `concurrent` | finding 2 |
| `event_twice` | as `concurrent` | finding 6 |
| `ghost_replay` | the Ghost's part of `fleet` | finding 3 |
| `delivery_overlap` | the session's part of `boundary` | finding 4 |
| `dispatch` | 1 intent with two commands, submitted up to twice, 2 workers, 2 goroutines of the Ghost, 1 lost call, 1 crash of the Ghost | joined, the two sides still implement `Orchestrator` and `GhostServer`; calls, goroutines and message ids of the two fit together (`DispatchInv`); observed commands ran; the Ghost refuses known commands only; without a lost call or a resubmission nothing is stuck, crash or not |
| `dispatch_lost` | 1 worker, 2 goroutines, 1 lost call, no crash | finding 5 |
| `boundary` | six parts, one per behaviour. Sessions: 2 events, 2 connections, 2 writes per connection, 1 restart of Mirage. Frames of every combination of flags with lengths at zero, at the limits and at the wrap of `header_len`. For each message kind a base message and all that differ from it in two fields, with empty, blank and header-like strings. Seven transport policies on either side, certificates trusted or not and named or not, two attempts. Issues whose ids meet once trimmed or sanitized, two intents. Seven service configurations, two sessions, two spawn requests over three names | the session implements `EventLedger`; acks keep step until a timeout; a Ghost that is gone comes to be shown so, unless its registration ack could not be written; the reader never loses the frame boundary; what is encoded is decoded; who is registered is who the certificate names; attempts end and delays without jitter stay within the configured maximum; an intent is found under the id its client used, events are credited to it or to one with the same sanitized id; children are lost to two races only; the process ends with an error only for a stated reason; after cancellation all comes to rest |
| `backoff_over_max` | the session attempts of `boundary`, with the default policy and jitter | finding 7 |
| `fleet` | four parts. One Ghost with 2 callers, 2 command ids, message ids 0 to 2 (0 is the missing one), 2 identities, 2 seeds, 1 crash. Two Ghosts, two addresses, two admin connections with two requests, one move, preloads right and wrong. Two repositories with three branches, eleven specs, two boots, two branches that get commits. Four seeds with a tree of three nodes, six operations, one reboot | store indexes, deduplication, nothing executes before the seeds are there, completion; routes and executors agree but in the cases listed; what was installed without error is what was asked for; declared idempotence holds of every operation in every state |

Why the bounds are enough. Every hazard of the orchestrator is a conflict of
two: two calls of one intent, two intents on one lock, or a call and a
resubmission or a session event. Two workers, two intents and plans of two
steps hold all of them, and the first step is followed by one that must not be
forgotten. `MaxIssues = 2` gives, in `dispatch`, a call of the first submission
that ends in the second; in `serial` a submission waits for the calls of its
intent, and the second plan starts afresh. For the Ghost, two callers and two
ids give every clash of command and message ids; one crash gives both lives. For the session, two connections give the
overlap of an old and a new one, two writes a retry and the event after it, and
one restart acks of an earlier life. For a call that can be lost,
two goroutines hold the one given up and its retry or a rival's; a second
submission brings the command ids of the first back. The parts of `boundary` and
`fleet` share no variable but `part`, which never changes: each part is explored
with the others at rest, as if it had a run of its own. Frames are independent
of each other but for where one begins, so two show what any number would; two
spawn requests suffice for both races of children; and two boots give an
installation every state of the disk an earlier one can leave. The proofs
show for every instance what these runs show of safety.

`CHECK_DEADLOCK FALSE` is set everywhere: when every intent is settled and no
client calls, nothing is left to do.

## Findings

1. **"satisfied" while a command is pending** (`orchestration.go:485`).
   `buildReportFromObserved` counts the event in hand on top of the observed
   ones even when its command is among them. Two concurrent reconcile calls of
   one intent execute the same command, and the second event is counted as the
   plan's next. `protocol.toml:203`: "report.satisfied -> no further command
   required".
2. **A late event frees another command's lock** (`orchestration.go:336`). The
   lock is deleted without asking for its owner, which `releaseSeedLock` does
   "to avoid stomping newer owners" (line 646).
3. **Replay after a restart runs the seed again** (`ghost/server.go:81`). The
   store that refuses known command ids is in memory; `reliability.toml:47-48`
   promises no duplicate mutation for at least 15 minutes.
4. **A live session shown as disconnected** (`mirage/service.go:450`). A Ghost
   that reconnects before the goroutine of its old connection has ended is
   marked disconnected by that goroutine's deferred `MarkGhostDisconnected`,
   and stays so as long as the new session lives. The reconnect test
   (`service_test.go:235`) waits for the first disconnect before it dials.
5. **A lost answer blocks its intent for ever** (`ghost/server.go:208`). The
   answer to an executed command is lost, or the seed takes longer than the five
   seconds the client waits. Mirage retries, as `reliability.toml:22` says
   ("retryable when no terminal event observed"), and the Ghost refuses the
   command id as a duplicate every time; its stored event is never sent. A
   resubmission does not help: `planCommandsFromIssue` gives it the same command
   ids. Only a restart of the Ghost does, and it runs the seed again (finding 3).
6. **An event is recorded twice** (`orchestration.go:332`). `ReconcileOnce` appends
   the event of its command to the observed ones without looking whether it is
   there, as `IngestObservedEvent` does (line 354). An event that came over the
   session before the answer, or from another call, is then in the history twice;
   docs/architecture/control-loop.md:21 promises that ingest "is idempotent by
   `event_id`".
7. **A delay above the maximum** (`protocol/session/backoff.go:24`). Jitter is applied
   after the cap and the first delay is not capped, so delays reach one and a half
   times the configured maximum; docs/architecture/transport.md:72 and
   `reliability.toml:39` set it to 5000 ms.

With one client per intent and no session events findings 1, 2 and 6 cannot
happen: of the first two the `serial` run and its theorems say so.

## Fairness

`Orchestrator!Fairness`: clients keep polling every intent (nothing else drives
the loop, `reconcile_all` is called by clients), so a dispatch that stays
possible happens; Ghosts are attached sooner or later; a call that failed gives
its lock back, since it only waits for the mutex; and a command that is retried
for ever is not refused for ever (strong fairness of its reply). The last one
is an assumption about Ghosts: a Ghost that executed a command whose response
was lost refuses that command id for ever (`ghost/server.go:208`), and the
intent then never settles: finding 5. `Dispatch!Fairness` does without that
assumption: answers are read and requests served, losses are bounded by
`MaxLosses`, and `SettlesWithoutLoss` derives what `Orchestrator` assumes for
executions without a lost call. `GhostServer!Fairness` asks that the goroutine of an
accepted command is scheduled and that its seed returns; nobody has to send
commands. `EventDelivery!Fairness` asks that Mirage's goroutines are scheduled
and that a read ends once the Ghost has hung up (the connection is closed, or
the read deadline of line 457 passes); the Ghost need not do anything.
`GhostService!ServiceFairness` asks that `serve` and the session loop go on: each
of their waits ends by itself, as the handshake, the ack of a probe, the backoff
and the two seconds for a child have timeouts and the context ends the rest. It
asks nothing of signals, probes, spawn requests or children.

## Proofs

All theorems hold for every value of the constants that satisfies the modules'
named assumptions (plans are non-empty finite sequences of steps; `None` is not
a record of the model; a directory is not below itself; a message has the
fields of its form).

*Any concurrency* (`Orchestrator_proofs`). `TypeCorrect`. `DispatchOrdered`:
`DispatchOrder` with what a call in flight carries — the command it dispatched
is recorded for its issue — is inductive: a plan's observed set only grows
until it is replaced, and then `issued` moves on. `OnlyResubmissionLeaks`, with
any number of submissions: a lock whose owner is not pending belongs to an
intent that was submitted again, because every ingest of a command clears the
lock of its step and only a new plan leaves a lock behind. That a call in flight
for an intent submitted once holds the plan that is stored (`PlanIsCurrent`) is
what makes it inductive. `LocksNeverLeak`, for one submission per intent,
follows from it.

*Serial clients* (`Orchestrator_proofs`, under `SerialClients` and no
`SessionEvents`). `SerialInv` is the strengthening: at most one call per intent;
what it read is still current; the observed commands are a prefix of the plan
and its event history; and it owns its lock. None of the client-visible
properties is inductive alone: that a "satisfied" report is true when the event
is ingested depends on the plan being the one read before and on the command
being the first unobserved one. From `SerialInv` follow `LocksExclude`,
`SatisfiedIsDone`, `NothingObservedUnasked` and
`LoopImplementsProgress`, the refinement of `IntentProgress`. It needs a lemma
on intervals: the pending set is empty exactly when as many commands are
observed as the plan has.

*Ghost* (`GhostServer_proofs`). `TypeCorrect`, `IndexesConsistent`,
`SeedsFirst`, and `CallInv`, the strengthening for `RunsOncePerLife`: calls in
flight are of different commands, only the call that was accepted can run
the seed, and none before the seeds are there. `EventsBackedByStore` says an event was returned exactly when the
stored execution is complete.

*Both sides* (`Dispatch_proofs`). `SidesStayLinked`: `DispatchInv` says which
goroutine of the Ghost belongs to which waiting client, that the Ghost's call is
the one the client made, that an answer is the event of a finished execution, and
that a process has given out as many message ids as it knows commands, so the
next one is free. It is inductive together with the Ghost's own invariant
(`JoinedInv`). With it every joint step is a step or a stutter of each side, whatever was lost or crashed:
`SidesImplemented`. Each theorem about one side holds then of both together;
`RunsOncePerLifeJoined` and `PlanOrderOnGhost` say so of the two that matter most:
the Ghost runs a command at most once in the life of its process, and it has run
the earlier commands of the plan when a later one goes out. The second joins
`DispatchOrdered` to `ObservedHasRun`, which says that what Mirage counts as
observed came from an execution. `RefusalsAreOfKnown` is finding 5 put
positively: nothing but a known command id is refused, because message ids do not
collide. `KnownAccountedFor` is what `SettlesWithoutLoss` stands on: without a
lost call and a resubmission the event of a known command has been observed or
has a client waiting for it. Its proof goes by what each step can take away: the
end of a call takes its event to Mirage, the death of the Ghost takes what it
knows, and any other way to lose an event is a loss. Assumed are finitely many
intents and plans of at most `MaxSteps` steps, beside what the two sides assume.

*Session* (`EventDelivery_proofs`). `TypeCorrect`; `AddressesAreLive`;
`SessionsAreSound`, the inductive strengthening: where the frames of a
registration can be (`Registering`, `SessionServed`), and that a session
without a timeout has at most one frame anywhere between the Ghost's write and
its read (`OneFrame`). That acks keep step (`AcksKeepStep`) is not inductive
alone, as it does not see the frame on its way to Mirage. `AcksAreReal` gives
`SessionImplementsLedger`: an ack in flight is of an event that Mirage accepted,
before a restart or after, so `ReadAck` is a `Deliver` of the ledger and every
other step of the wire a stutter.

*Frames* (`Codec_proofs`). `ReaderStaysInStep` for every limit and every
sequence of frames. The invariant says where the reader is relative to the
frames still on the wire, and that `WriteFrame` accepted those. The step that
matters is arithmetic (`HeaderTellsLength`): up to 65503 bytes of authentication
`header_len` has not wrapped; above, it is smaller than the fixed header and the
frame is refused, except for 65536, where it says there is no authentication and
contradicts the flag.

*Payloads* (`Codec_proofs`). `FieldsRoundTrip`: `DecodeFields` undoes
`EncodeFields` for every list of fields whose encoding is shorter than 2^32 bytes.
The library's induction theorems take an operator, which the provers cannot
instantiate, but those about well-founded relations need none: a set of numbers
has a least element (`LeastNat`), hence a set that is closed under steps up or
down holds a whole interval (`Upward`, `Downward`). With that the recursive
functions of `FlattenSeq` and `DecodeFields` exist (`FlattenDefined`, and
`DecodeDefined` by how many bytes are left), each field stands in the encoding
where the ones before it end (`FieldsWritten`), and from the last field to the
first the decoder finds it there. Below that are the numbers: each of 16, 32 or 64 bits is read back
(`Number16`, `Number32`, `Number64`), and 32 bits hold what is left of a payload
(`Low32Fits`). Above it is the schema: `WireInv` says that the fields with ids
of the form are those the message sends, whatever another version has put among
them; each id stands once, so the first field with it, which is what the decoder
takes, is the right one. `PayloadsRoundTrip` is `RoundTrip` for any messages, of
any length within the limit.

*Ghost process* (`GhostService_proofs`). `ErrorExitIsExplained`: the
strengthening `ErrorInv` ties what is in the error channels to where the loop and
the listener are. `OrphansComeFromRaces`: `ChildInv` says of two requests past
the check, and of one past the check and a child in the table, that they have
overlapped if they have one name; and that what is in the table after the
shutdown took it came late, which needs that nothing is spawned before `serve`.

*The way to a session* (`Boundary_proofs`). `RegisteredAreAuthenticated` and
`BackoffKeepsConfig`, for every pair of configurations. `ConnectInv` carries from
one step of the code to a later one what it has checked: a Mirage that runs has a
valid transport policy; when `handleConn` reads a registration, `authenticateConn`
has verified the certificate it holds on to; and a client that backs off has an
attempt left, while one that has given up either used the last attempt or was
rejected, by a handler that has closed its connection and changes nothing after.
`DelayCapped` is the arithmetic: without jitter, and with a first delay that is not
above the maximum, no delay is. With jitter it does not hold: finding 7.
The power of the multiplier is a recursive function (`Pow`), shown to exist and
to be a natural number in the same way as the decoder.

*From issue to intent* (`Boundary_proofs`). `SpellingFindsIntent` and
`EventsFindOwners`, for any texts, any replacement of characters and any trimming
that changes nothing the second time. By `IngestInv` each stored command carries the id its intent is stored under and its own
position, which a resubmission replaces as a whole. Nothing is said of its lock, whose
name need not tell Ghost and seed apart.

*Mirage and its Ghosts* (`Fleet_proofs`). `RoutesAgree`, for any number of Ghosts,
addresses and admin connections. A request holds an address and an id over calls
to a Ghost while other requests and Ghosts go on: `RequestInStep` says that what
it holds is still true, or that what made it untrue is in one of the histories the
property names. That is what it means for the property's list of exceptions to
be complete.

*Installation* (`Fleet_proofs`). `InstalledIsAsAsked`, for any specs, boots,
failures and pushes. `InstallInv` says of each git command what the ones before it
have established: the copy is of the repository it was found to be of, and a
fetched ref is no older than when its spec was begun; and that no spec counts as
installed at a place that is being worked on (`PlaceIsFree`). The versions of
branches only grow.

*Seeds* (`Fleet_proofs`). `RunTwiceIsRunOnce`, for any tree of directories: one
lemma per seed about its function, of which the one for writing a file is the
hardest, as a write that fails half way has made directories.

*Only model-checked*: the liveness properties `EventuallySettled`,
`AcceptedCompletes`, `HangUpIsSeen`, `SettlesWithoutLoss` and
`AllClosedInTheEnd`, as liveness under fairness is outside the prover's reach,
and the seven violations. Every safety property of the passing runs is a theorem.

## What is not modelled

- `cmd/client-tm` and `cmd/testctl`: a terminal client and a test runner, input
  and output without protocol state. `ghostctl` and `miragectl` parse TOML and
  flags and call `Service.Run`; what they can ask for is an input of the models.
- `command_loop.go`: no program runs it; its tests are its only users.
- Logging, the process wrapper and the third-party logger.
- TLS itself, `git`, `brew`, `systemctl` and the file system are external, modelled
  by how the code uses them.
- Contents of envelopes, formatting, timestamps; the histories of events and
  verifications of Ghost admin control, which are only printed. The histories of
  reports, of events and the ack table grow without a bound in the code; a bound
  on memory is not a property of these models.
- Mirage's accept loop and `closeAllConns`: a connection accepted between
  `closeAllConns` and `ln.Close` (`service.go:235`) is not closed by the shutdown.
- The outbox's attempt counters, on which nothing decides, and the ids of
  heartbeat probes, which start over with the process while Mirage keeps the acks
  (`ghost/service.go:427`).

## Other divergences

Met while modelling, not refuted by a run of their own:

- **Spawning through a Ghost is always refused.** `mirage.SpawnGhostRequest` has
  no JSON tags, so Mirage sends `TargetName` where the Ghost reads
  `target_name`; docs/architecture/control-loop.md:23 describes the spawn as
  working. `ControlPlane` has it refused.
- **Build logs are never persisted.** The persisting command carries no
  `CommandID`, so `EncodeCommandFrame` refuses it; control-loop.md:26 says it is
  persisted.
- **Frames that are written and cannot be read.** `WriteFrame` accepts up to 65536
  bytes of authentication, but `header_len` wraps above 65503; `ReadFrame` refuses
  such a frame (`InStep` shows that it does nothing worse).
- **Reconnecting without jitter.** docs/architecture/transport.md:72 requires jitter;
  `waitReconnectBackoff` turns it off (`ghost/service.go:442`).
- **Names of seed locks.** `seedLockKey` (`orchestration.go:604`) "scopes" a
  lock to one Ghost and seed, but joins their names with `::` and escapes
  nothing: two pairs can share a lock, which delays one intent for the other.
- **A changed repository is ignored.** `installGitHub` never compares `RepoURL` with
  the one an existing clone came from; a plain pull fails after a ref was checked
  out; a single-branch clone can never check out another branch.
  `InstalledAsAsked` is stated accordingly.
- **`seed.fs`**: writing to `.` before anything else makes the root a file; nothing
  can be written below it until it is deleted.
- **Two names of one seed** in the configured list (`kv`, `seed.kv`) make the
  bootstrap fail, a repeated name does not (`ghost/service.go:478`).
- **`workspace_copy`** of a tree that contains its destination copies its own
  output (`seeds/install.go:405`).
- **An admin route is for ever**: `mirageAdminBound` is never cleared
  (`ghost/service.go:399`), so a Ghost whose Mirage is gone reports `admin_route`.

## Plan

1. Proofs: `DispatchOrdered` and `OnlyResubmissionLeaks` stated of `Dispatch` with
   several intents.
2. `Dispatch` with two intents whose ids sanitize to one, and with the routes of
   `ControlPlane`, so that a command can reach the wrong Ghost.
3. `SessionConnect` as what `EventDelivery!Dial` and `OpenSession` stand for, and
   `IssueIngest` as where `Orchestrator`'s plans come from, as refinements.
4. Mirage's accept loop and shutdown, composed with `EventDelivery`.
