-------------------------------- MODULE SeedOps --------------------------------
(***************************************************************************)
(* The built-in seeds of a Ghost and what their operations do to what they *)
(* keep (src/internal/seeds: registry.go, flow, fs, kv, mongod), and how a *)
(* Ghost builds its registry from the configured ids (buildBuiltinRegistry *)
(* in src/internal/ghost/service.go).  seed.fs keeps files under its root, *)
(* seed.kv a map in memory, seed.mongod the state of a systemd unit,       *)
(* seed.flow nothing.                                                      *)
(*                                                                         *)
(* Operations run one at a time here: ExecuteAdminCommand holds adminMu    *)
(* while a seed runs.  GhostServer has the callers that run seeds side by  *)
(* side, for which each operation is one step as well.                     *)
(*                                                                         *)
(* Abstractions.  Paths are a table from arguments to nodes of a small     *)
(* tree.  systemctl is external: it does what it is told.  The blanks that *)
(* some seeds trim from the name of an action are left out, and so are     *)
(* seed.flow's arguments but one.                                          *)
(***************************************************************************)
EXTENDS Naturals, Sequences, FiniteSets

CONSTANTS
  SeedLists,    \* bound: the lists of seed ids a Ghost may be configured with
  PathNode,     \* path argument -> node, or NoNode where resolvePath refuses it
  ParentNode,   \* node -> the directory it is in; the root's own is NoNode
  NoNode,
  Keys,         \* keys of seed.kv; BlankKey is the missing one
  BlankKey,
  Contents,
  MaxOps,       \* bound: operations
  MaxReboots    \* bound

PathArgs == DOMAIN PathNode
Nodes == DOMAIN ParentNode

ASSUME SeedOpsAssumption ==
  /\ NoNode \notin Nodes
  /\ \A p \in PathArgs : PathNode[p] \in Nodes \cup {NoNode}
  /\ \A n \in Nodes : ParentNode[n] \in Nodes \cup {NoNode}
  /\ {"none", "dir"} \cap Contents = {}
  /\ {MaxOps, MaxReboots} \subseteq Nat

\* buildBuiltinRegistry: the ids and their short forms.
BuiltinSeed ==
  [id \in {"seed.flow", "flow", "seed.mongod", "mongod", "seed.kv", "kv", "seed.fs", "fs"} |->
     CASE id \in {"seed.flow", "flow"} -> "seed.flow"
       [] id \in {"seed.mongod", "mongod"} -> "seed.mongod"
       [] id \in {"seed.kv", "kv"} -> "seed.kv"
       [] OTHER -> "seed.fs"]

\* A repeated id is skipped, a seed under both its names is registered twice,
\* which Register refuses.
RegistryBuilds(ids) ==
  LET wanted == {ids[k] : k \in DOMAIN ids} \ {"", "none"}
  IN  /\ wanted \subseteq DOMAIN BuiltinSeed
      /\ \A i, j \in wanted : BuiltinSeed[i] = BuiltinSeed[j] => i = j

RegistryOf(ids) == {BuiltinSeed[id] : id \in {ids[k] : k \in DOMAIN ids} \ {"", "none"}}

-----------------------------------------------------------------------------
(***************************************************************************)
(* What the seeds keep, and what an operation makes of it: the status and  *)
(* output it returns, and what is kept afterwards.                         *)
(***************************************************************************)

\* What Operations lists, with its Idempotent flag; arguments are added.
Declared ==
  [flow |-> {<<"status", TRUE>>, <<"echo", TRUE>>, <<"step", TRUE>>},
   fs |-> {<<"write", TRUE>>, <<"read", TRUE>>, <<"delete", TRUE>>, <<"list", TRUE>>},
   kv |-> {<<"put", TRUE>>, <<"get", TRUE>>, <<"delete", TRUE>>, <<"list", TRUE>>},
   mongod |-> {<<"status", TRUE>>, <<"start", TRUE>>, <<"stop", TRUE>>, <<"restart", FALSE>>,
               <<"version", TRUE>>}]

Operation(seed, declared, args) == [seed : {seed}, action : declared, on : args, value : Contents]

Operations ==
  Operation("seed.flow", Declared.flow, {"plan", "other"})
    \cup Operation("seed.fs", Declared.fs, PathArgs)
    \cup Operation("seed.kv", Declared.kv, Keys)
    \cup Operation("seed.mongod", Declared.mongod, {"unit"})

Ok(out, k) == [ok |-> TRUE, out |-> out, kept |-> k]
Failed(k) == [ok |-> FALSE, out |-> {}, kept |-> k]

\* The directories a path is in: its parent, and with each its parent.
ParentsOf(S) == {ParentNode[m] : m \in S} \ {NoNode}

Ancestors ==
  [n \in Nodes |->
     {a \in Nodes : \A S \in SUBSET Nodes : ParentsOf({n} \cup S) \subseteq S => a \in S}]

\* Paths are a tree: no directory is below itself.
ASSUME TreeAssumption == \A n \in Nodes : n \notin Ancestors[n]

IsFile(k, n) == k.files[n] \notin {"none", "dir"}

\* MkdirAll and WriteFile: the directories above are made even if the file
\* cannot be.
FsWrite(k, n, content) ==
  IF \E a \in Ancestors[n] : IsFile(k, a) THEN Failed(k)
  ELSE LET made == [k EXCEPT !.files = [m \in Nodes |-> IF m \in Ancestors[n] THEN "dir" ELSE @[m]]]
       IN  IF k.files[n] = "dir" THEN Failed(made)
           ELSE Ok({}, [made EXCEPT !.files[n] = content])

\* Mutation: deleting what is not there is an error.
FsDeleteStrict(k, n) ==
  IF \/ k.files[n] = "none" \/ \E a \in Ancestors[n] : IsFile(k, a)
     \/ \E m \in Nodes : ParentNode[m] = n /\ k.files[m] # "none"
  THEN Failed(k)
  ELSE Ok({}, [k EXCEPT !.files[n] = "none"])

\* Remove: a file or an empty directory, the root not excepted.
FsDelete(k, n) ==
  IF \/ \E a \in Ancestors[n] : IsFile(k, a)
     \/ \E m \in Nodes : ParentNode[m] = n /\ k.files[m] # "none"
  THEN Failed(k)
  ELSE Ok({}, [k EXCEPT !.files[n] = "none"])

FsExecute(k, op) ==
  LET n == PathNode[op.on]
  IN  CASE op.action[1] = "list" -> Ok({m \in Nodes : IsFile(k, m)}, k)
        [] op.action[1] # "list" /\ n = NoNode -> Failed(k)
        [] op.action[1] = "write" /\ n # NoNode -> FsWrite(k, n, op.value)
        [] op.action[1] = "read" /\ n # NoNode ->
             IF IsFile(k, n) THEN Ok({k.files[n]}, k) ELSE Failed(k)
        [] OTHER -> FsDelete(k, n)

KvExecute(k, op) ==
  CASE op.action[1] = "list" -> Ok({x \in Keys : k.map[x] # "none"}, k)
    [] op.action[1] # "list" /\ op.on = BlankKey -> Failed(k)
    [] op.action[1] = "put" /\ op.on # BlankKey -> Ok({op.on}, [k EXCEPT !.map[op.on] = op.value])
    [] op.action[1] = "get" /\ op.on # BlankKey ->
         IF k.map[op.on] = "none" THEN Failed(k) ELSE Ok({k.map[op.on]}, k)
    [] OTHER -> Ok({op.on}, [k EXCEPT !.map[op.on] = "none"])

MongodExecute(k, op) ==
  CASE op.action[1] = "status" -> IF k.unit = "active" THEN Ok({k.unit}, k) ELSE Failed(k)
    [] op.action[1] \in {"start", "restart"} -> Ok({}, [k EXCEPT !.unit = "active"])
    [] op.action[1] = "stop" -> Ok({}, [k EXCEPT !.unit = "inactive"])
    [] OTHER -> Ok({"version"}, k)

FlowExecute(k, op) ==
  IF op.action[1] = "step" /\ op.on # "plan" THEN Failed(k) ELSE Ok({op.action[1], op.on}, k)

Execute(k, op) ==
  CASE op.seed = "seed.fs" -> FsExecute(k, op)
    [] op.seed = "seed.kv" -> KvExecute(k, op)
    [] op.seed = "seed.mongod" -> MongodExecute(k, op)
    [] OTHER -> FlowExecute(k, op)

-----------------------------------------------------------------------------
VARIABLES
  seeds,     \* the registered seeds
  kept,      \* files, map and unit
  opsRun,    \* history
  reboots    \* history

seedVars == <<seeds, kept, opsRun, reboots>>

EmptyMap == [x \in Keys |-> "none"]

\* The root directory of seed.fs is there only once something was written.
SeedOpsInit ==
  /\ seeds = {}
  /\ kept = [files |-> [n \in Nodes |-> "none"], map |-> EmptyMap, unit |-> "inactive"]
  /\ opsRun = 0
  /\ reboots = 0

BuildRegistry(ids) ==
  /\ seeds = {}
  /\ RegistryBuilds(ids)
  /\ seeds' = RegistryOf(ids)
  /\ UNCHANGED <<kept, opsRun, reboots>>

RunOperation(op) ==
  /\ op.seed \in seeds
  /\ opsRun < MaxOps
  /\ opsRun' = opsRun + 1
  /\ kept' = Execute(kept, op).kept
  /\ UNCHANGED <<seeds, reboots>>

\* The Ghost starts again: seed.kv has lost its map.
Reboot ==
  /\ reboots < MaxReboots
  /\ reboots' = reboots + 1
  /\ seeds' = {}
  /\ kept' = [kept EXCEPT !.map = EmptyMap]
  /\ UNCHANGED opsRun

SeedOpsNext ==
  \/ \E ids \in SeedLists : BuildRegistry(ids)
  \/ \E op \in Operations : RunOperation(op)
  \/ Reboot

SeedOpsSpec == SeedOpsInit /\ [][SeedOpsNext]_seedVars

-----------------------------------------------------------------------------
\* A command may be run again when its answer was lost.  Whatever was kept
\* before, and whether it succeeds or fails half way, an operation that its
\* seed declares idempotent leaves the same behind when it is run a second
\* time, and says the same (the Operations and Execute methods of the seeds:
\* fs/seed.go:52-123, kv/seed.go:39-98, mongod/seed.go:56-90, flow/seed.go:35-62).
DeclaredIdempotent ==
  seeds # {} =>
    \A op \in Operations :
      op.seed \in seeds /\ op.action[2] =>
        LET first == Execute(kept, op)
        IN  Execute(first.kept, op) = first

-----------------------------------------------------------------------------
(***************************************************************************)
(* Why it holds: what is kept is well formed, and that is all it takes.    *)
(***************************************************************************)
WellKept(k) ==
  k \in [files : [Nodes -> {"none", "dir"} \cup Contents],
         map : [Keys -> {"none"} \cup Contents],
         unit : {"active", "inactive"}]

SeedOpsInv == WellKept(kept) /\ DeclaredIdempotent
=============================================================================
