------------------------------ MODULE Fleet_proofs ------------------------------
(***************************************************************************)
(* Proofs about what a fleet of Ghosts stands on: the seed operations      *)
(* (SeedOps), the installation of seed dependencies (SeedInstall), and how *)
(* Mirage knows its Ghosts (ControlPlane).                                 *)
(***************************************************************************)
EXTENDS ControlPlane, SeedInstall, SeedOps, SequenceTheorems, TLAPS

-----------------------------------------------------------------------------
(***************************************************************************)
(* The seed operations.  What an operation does depends on what is kept    *)
(* and on nothing else, so that one lemma per seed says it all.            *)
(***************************************************************************)

LEMMA AncestorsAreNodes ==
  ASSUME SeedOpsAssumption, TreeAssumption, NEW n \in Nodes
  PROVE  Ancestors[n] \subseteq Nodes \ {n}
BY DEF SeedOpsAssumption, TreeAssumption, Ancestors

\* The names of the declared operations.
LEMMA FsNames ==
  ASSUME NEW a \in Declared.fs
  PROVE  a[1] \in {"write", "read", "delete", "list"}
<1>1. Declared.fs = {<<"write", TRUE>>, <<"read", TRUE>>, <<"delete", TRUE>>, <<"list", TRUE>>}
  BY DEF Declared
<1>2. CASE a = <<"write", TRUE>> BY <1>2
<1>3. CASE a = <<"read", TRUE>> BY <1>3
<1>4. CASE a = <<"delete", TRUE>> BY <1>4
<1>5. CASE a = <<"list", TRUE>> BY <1>5
<1> QED BY <1>1, <1>2, <1>3, <1>4, <1>5

LEMMA KvNames ==
  ASSUME NEW a \in Declared.kv
  PROVE  a[1] \in {"put", "get", "delete", "list"}
<1>1. Declared.kv = {<<"put", TRUE>>, <<"get", TRUE>>, <<"delete", TRUE>>, <<"list", TRUE>>}
  BY DEF Declared
<1>2. CASE a = <<"put", TRUE>> BY <1>2
<1>3. CASE a = <<"get", TRUE>> BY <1>3
<1>4. CASE a = <<"delete", TRUE>> BY <1>4
<1>5. CASE a = <<"list", TRUE>> BY <1>5
<1> QED BY <1>1, <1>2, <1>3, <1>4, <1>5

LEMMA MongodNames ==
  ASSUME NEW a \in Declared.mongod
  PROVE  a[1] \in {"status", "start", "stop", "restart", "version"}
<1>1. Declared.mongod = {<<"status", TRUE>>, <<"start", TRUE>>, <<"stop", TRUE>>,
                         <<"restart", FALSE>>, <<"version", TRUE>>}
  BY DEF Declared
<1>2. CASE a = <<"status", TRUE>> BY <1>2
<1>3. CASE a = <<"start", TRUE>> BY <1>3
<1>4. CASE a = <<"stop", TRUE>> BY <1>4
<1>5. CASE a = <<"restart", FALSE>> BY <1>5
<1>6. CASE a = <<"version", TRUE>> BY <1>6
<1> QED BY <1>1, <1>2, <1>3, <1>4, <1>5, <1>6

\* A write that is done again finds the directories it made.
LEMMA WriteAgain ==
  ASSUME SeedOpsAssumption, TreeAssumption,
         NEW k, WellKept(k), NEW n \in Nodes, NEW content \in Contents
  PROVE  LET first == FsWrite(k, n, content)
         IN  WellKept(first.kept) /\ FsWrite(first.kept, n, content) = first
<1> DEFINE made == [k EXCEPT !.files = [m \in Nodes |-> IF m \in Ancestors[n] THEN "dir" ELSE @[m]]]
           written == [made EXCEPT !.files[n] = content]
<1>1. Ancestors[n] \subseteq Nodes \ {n} BY AncestorsAreNodes
<1>2. content \notin {"none", "dir"} BY DEF SeedOpsAssumption
<1>3. /\ WellKept(made)
      /\ made.files = [m \in Nodes |-> IF m \in Ancestors[n] THEN "dir" ELSE k.files[m]]
      /\ made.files[n] = k.files[n]
      /\ \A a \in Ancestors[n] : made.files[a] = "dir"
  BY <1>1 DEF WellKept
<1> HIDE DEF made
<1>4. /\ WellKept(written)
      /\ written.files = [made.files EXCEPT ![n] = content]
      /\ written.files[n] = content
      /\ \A a \in Ancestors[n] : written.files[a] = "dir"
  BY <1>1, <1>3 DEF WellKept
<1>5. CASE \E a \in Ancestors[n] : IsFile(k, a)
  <2>1. FsWrite(k, n, content) = Failed(k) BY <1>5 DEF FsWrite
  <2>2. Failed(k).kept = k BY DEF Failed
  <2> QED BY <2>1, <2>2
<1>6. CASE (\A a \in Ancestors[n] : ~IsFile(k, a)) /\ k.files[n] = "dir"
  <2>1. FsWrite(k, n, content) = Failed(made) BY <1>6 DEF FsWrite, made
  <2>2. Failed(made).kept = made BY DEF Failed
  <2>3. \A a \in Ancestors[n] : ~IsFile(made, a) BY <1>3 DEF IsFile
  <2>4. [made EXCEPT !.files = [m \in Nodes |-> IF m \in Ancestors[n] THEN "dir" ELSE made.files[m]]] = made
    BY <1>3 DEF WellKept
  <2>5. FsWrite(made, n, content) = Failed(made)
    BY <1>3, <1>6, <2>3, <2>4 DEF FsWrite
  <2> QED BY <1>3, <2>1, <2>2, <2>5
<1>7. CASE (\A a \in Ancestors[n] : ~IsFile(k, a)) /\ k.files[n] # "dir"
  <2>1. FsWrite(k, n, content) = Ok({}, written) BY <1>7 DEF FsWrite, made
  <2>2. Ok({}, written).kept = written BY DEF Ok
  <2>3. \A a \in Ancestors[n] : ~IsFile(written, a) BY <1>4 DEF IsFile
  <2> HIDE DEF written
  <2>4. [written EXCEPT !.files = [m \in Nodes |-> IF m \in Ancestors[n] THEN "dir" ELSE written.files[m]]]
          = written
    BY <1>4 DEF WellKept
  <2>5. [written EXCEPT !.files[n] = content] = written BY <1>4 DEF WellKept
  <2>6. FsWrite(written, n, content) = Ok({}, written)
    BY <1>2, <1>4, <2>3, <2>4, <2>5 DEF FsWrite
  <2> QED BY <1>4, <2>1, <2>2, <2>6
<1> QED BY <1>5, <1>6, <1>7

\* A delete that is done again finds nothing to delete.
LEMMA DeleteAgain ==
  ASSUME SeedOpsAssumption, TreeAssumption, NEW k, WellKept(k), NEW n \in Nodes
  PROVE  LET first == FsDelete(k, n)
         IN  WellKept(first.kept) /\ FsDelete(first.kept, n) = first
<1> DEFINE gone == [k EXCEPT !.files[n] = "none"]
           Stands(x) == \/ \E a \in Ancestors[n] : IsFile(x, a)
                        \/ \E m \in Nodes : ParentNode[m] = n /\ x.files[m] # "none"
<1>1. Ancestors[n] \subseteq Nodes \ {n} BY AncestorsAreNodes
<1>2. /\ WellKept(gone) /\ gone.files[n] = "none"
      /\ \A m \in Nodes \ {n} : gone.files[m] = k.files[m]
  BY DEF WellKept
<1>3. CASE Stands(k)
  <2>1. FsDelete(k, n) = Failed(k) BY <1>3 DEF FsDelete
  <2>2. Failed(k).kept = k BY DEF Failed
  <2> QED BY <2>1, <2>2
<1>4. CASE ~Stands(k)
  <2>1. FsDelete(k, n) = Ok({}, gone) BY <1>4 DEF FsDelete
  <2>2. Ok({}, gone).kept = gone BY DEF Ok
  <2> HIDE DEF gone
  <2>3. ~Stands(gone) BY <1>1, <1>2, <1>4 DEF IsFile
  <2>4. [gone EXCEPT !.files[n] = "none"] = gone BY <1>2 DEF WellKept
  <2>5. FsDelete(gone, n) = Ok({}, gone) BY <2>3, <2>4 DEF FsDelete
  <2> QED BY <1>2, <2>1, <2>2, <2>5
<1> QED BY <1>3, <1>4

\* An operation of seed.fs.
LEMMA FsAgain ==
  ASSUME SeedOpsAssumption, TreeAssumption, NEW k, WellKept(k),
         NEW op \in Operation("seed.fs", Declared.fs, PathArgs)
  PROVE  LET first == FsExecute(k, op)
         IN  WellKept(first.kept) /\ FsExecute(first.kept, op) = first
<1> DEFINE n == PathNode[op.on]
<1>1. /\ op.on \in PathArgs /\ op.value \in Contents
      /\ op.action[1] \in {"write", "read", "delete", "list"}
  <2>1. op.on \in PathArgs /\ op.value \in Contents /\ op.action \in Declared.fs BY DEF Operation
  <2> QED BY <2>1, FsNames
<1>2. n \in Nodes \cup {NoNode} /\ NoNode \notin Nodes BY <1>1 DEF SeedOpsAssumption
<1>3. ASSUME NEW out PROVE Ok(out, k).kept = k /\ Failed(k).kept = k BY DEF Ok, Failed
<1>4. CASE op.action[1] = "list"
  <2>1. \A x : FsExecute(x, op) = Ok({m \in Nodes : IsFile(x, m)}, x) BY <1>4 DEF FsExecute
  <2> QED BY <2>1, <1>3
<1>5. CASE op.action[1] # "list" /\ n = NoNode
  <2>1. \A x : FsExecute(x, op) = Failed(x) BY <1>5 DEF FsExecute
  <2> QED BY <2>1, <1>3
<1>6. CASE op.action[1] = "write" /\ n # NoNode
  <2>1. \A x : FsExecute(x, op) = FsWrite(x, n, op.value) BY <1>6 DEF FsExecute
  <2> QED BY <2>1, <1>1, <1>2, <1>6, WriteAgain
<1>7. CASE op.action[1] = "read" /\ n # NoNode
  <2>1. \A x : FsExecute(x, op) = IF IsFile(x, n) THEN Ok({x.files[n]}, x) ELSE Failed(x)
    BY <1>7 DEF FsExecute
  <2> QED BY <2>1, <1>3
<1>8. CASE op.action[1] = "delete" /\ n # NoNode
  <2>1. \A x : FsExecute(x, op) = FsDelete(x, n) BY <1>8 DEF FsExecute
  <2> QED BY <2>1, <1>2, <1>8, DeleteAgain
<1> QED BY <1>1, <1>4, <1>5, <1>6, <1>7, <1>8

\* One of seed.kv.
LEMMA KvAgain ==
  ASSUME SeedOpsAssumption, NEW k, WellKept(k),
         NEW op \in Operation("seed.kv", Declared.kv, Keys)
  PROVE  LET first == KvExecute(k, op)
         IN  WellKept(first.kept) /\ KvExecute(first.kept, op) = first
<1>1. /\ op.on \in Keys /\ op.value \in Contents
      /\ op.action[1] \in {"put", "get", "delete", "list"}
  <2>1. op.on \in Keys /\ op.value \in Contents /\ op.action \in Declared.kv BY DEF Operation
  <2> QED BY <2>1, KvNames
<1>2. ASSUME NEW out PROVE Ok(out, k).kept = k /\ Failed(k).kept = k BY DEF Ok, Failed
<1>3. ASSUME NEW v \in {"none"} \cup Contents
      PROVE  LET set == [k EXCEPT !.map[op.on] = v]
             IN  /\ WellKept(set)
                 /\ [set EXCEPT !.map[op.on] = v] = set
                 /\ Ok({op.on}, set).kept = set
  <2> DEFINE set == [k EXCEPT !.map[op.on] = v]
  <2>1. WellKept(set) BY <1>1 DEF WellKept
  <2>2. set.map[op.on] = v BY <1>1 DEF WellKept
  <2> HIDE DEF set
  <2>3. [set EXCEPT !.map[op.on] = v] = set BY <1>1, <2>1, <2>2 DEF WellKept
  <2>4. Ok({op.on}, set).kept = set BY DEF Ok
  <2> QED BY <2>1, <2>3, <2>4 DEF set
<1>4. CASE op.action[1] = "list"
  <2>1. \A x : KvExecute(x, op) = Ok({y \in Keys : x.map[y] # "none"}, x) BY <1>4 DEF KvExecute
  <2> QED BY <2>1, <1>2
<1>5. CASE op.action[1] # "list" /\ op.on = BlankKey
  <2>1. \A x : KvExecute(x, op) = Failed(x) BY <1>5 DEF KvExecute
  <2> QED BY <2>1, <1>2
<1>6. CASE op.action[1] = "put" /\ op.on # BlankKey
  <2> DEFINE set == [k EXCEPT !.map[op.on] = op.value]
  <2>1. \A x : KvExecute(x, op) = Ok({op.on}, [x EXCEPT !.map[op.on] = op.value])
    BY <1>6 DEF KvExecute
  <2>2. WellKept(set) /\ [set EXCEPT !.map[op.on] = op.value] = set /\ Ok({op.on}, set).kept = set
    BY <1>1, <1>3
  <2>3. KvExecute(k, op) = Ok({op.on}, set) BY <2>1
  <2> HIDE DEF set
  <2> QED BY <2>1, <2>2, <2>3
<1>7. CASE op.action[1] = "get" /\ op.on # BlankKey
  <2>1. \A x : KvExecute(x, op) = IF x.map[op.on] = "none" THEN Failed(x) ELSE Ok({x.map[op.on]}, x)
    BY <1>7 DEF KvExecute
  <2> QED BY <2>1, <1>2
<1>8. CASE op.action[1] = "delete" /\ op.on # BlankKey
  <2> DEFINE set == [k EXCEPT !.map[op.on] = "none"]
  <2>1. \A x : KvExecute(x, op) = Ok({op.on}, [x EXCEPT !.map[op.on] = "none"])
    BY <1>8 DEF KvExecute
  <2>2. WellKept(set) /\ [set EXCEPT !.map[op.on] = "none"] = set /\ Ok({op.on}, set).kept = set
    BY <1>1, <1>3
  <2>3. KvExecute(k, op) = Ok({op.on}, set) BY <2>1
  <2> HIDE DEF set
  <2> QED BY <2>1, <2>2, <2>3
<1> QED BY <1>1, <1>4, <1>5, <1>6, <1>7, <1>8

\* One of seed.mongod.
LEMMA MongodAgain ==
  ASSUME NEW k, WellKept(k), NEW op \in Operation("seed.mongod", Declared.mongod, {"unit"})
  PROVE  LET first == MongodExecute(k, op)
         IN  WellKept(first.kept) /\ MongodExecute(first.kept, op) = first
<1>1. op.action[1] \in {"status", "start", "restart", "stop", "version"}
  <2>1. op.action \in Declared.mongod BY DEF Operation
  <2> QED BY <2>1, MongodNames
<1>2. ASSUME NEW out PROVE Ok(out, k).kept = k /\ Failed(k).kept = k BY DEF Ok, Failed
<1>3. ASSUME NEW u \in {"active", "inactive"}
      PROVE  LET set == [k EXCEPT !.unit = u]
             IN  WellKept(set) /\ [set EXCEPT !.unit = u] = set /\ Ok({}, set).kept = set
  <2> DEFINE set == [k EXCEPT !.unit = u]
  <2>1. WellKept(set) /\ set.unit = u BY DEF WellKept
  <2> HIDE DEF set
  <2>2. [set EXCEPT !.unit = u] = set BY <2>1 DEF WellKept
  <2>3. Ok({}, set).kept = set BY DEF Ok
  <2> QED BY <2>1, <2>2, <2>3 DEF set
<1>4. CASE op.action[1] = "status"
  <2>1. \A x : MongodExecute(x, op) = IF x.unit = "active" THEN Ok({x.unit}, x) ELSE Failed(x)
    BY <1>4 DEF MongodExecute
  <2> QED BY <2>1, <1>2
<1>5. CASE op.action[1] \in {"start", "restart"}
  <2>1. \A x : MongodExecute(x, op) = Ok({}, [x EXCEPT !.unit = "active"]) BY <1>5 DEF MongodExecute
  <2> QED BY <2>1, <1>3
<1>6. CASE op.action[1] = "stop"
  <2>1. \A x : MongodExecute(x, op) = Ok({}, [x EXCEPT !.unit = "inactive"]) BY <1>6 DEF MongodExecute
  <2> QED BY <2>1, <1>3
<1>7. CASE op.action[1] = "version"
  <2>1. \A x : MongodExecute(x, op) = Ok({"version"}, x) BY <1>7 DEF MongodExecute
  <2> QED BY <2>1, <1>2
<1> QED BY <1>1, <1>4, <1>5, <1>6, <1>7

\* What is kept stays well formed, and an operation can be run again.
LEMMA RunAgain ==
  ASSUME SeedOpsAssumption, TreeAssumption, NEW k, WellKept(k), NEW op \in Operations
  PROVE  LET first == Execute(k, op)
         IN  WellKept(first.kept) /\ Execute(first.kept, op) = first
<1>1. CASE op \in Operation("seed.flow", Declared.flow, {"plan", "other"})
  <2>1. op.seed = "seed.flow" BY <1>1 DEF Operation
  <2>2. \A x : Execute(x, op) = FlowExecute(x, op) BY <2>1 DEF Execute
  <2>3. FlowExecute(k, op).kept = k BY DEF FlowExecute, Ok, Failed
  <2> QED BY <2>2, <2>3
<1>2. CASE op \in Operation("seed.fs", Declared.fs, PathArgs)
  <2>1. op.seed = "seed.fs" BY <1>2 DEF Operation
  <2>2. \A x : Execute(x, op) = FsExecute(x, op) BY <2>1 DEF Execute
  <2> QED BY <2>2, <1>2, FsAgain
<1>3. CASE op \in Operation("seed.kv", Declared.kv, Keys)
  <2>1. op.seed = "seed.kv" BY <1>3 DEF Operation
  <2>2. \A x : Execute(x, op) = KvExecute(x, op) BY <2>1 DEF Execute
  <2> QED BY <2>2, <1>3, KvAgain
<1>4. CASE op \in Operation("seed.mongod", Declared.mongod, {"unit"})
  <2>1. op.seed = "seed.mongod" BY <1>4 DEF Operation
  <2>2. \A x : Execute(x, op) = MongodExecute(x, op) BY <2>1 DEF Execute
  <2> QED BY <2>2, <1>4, MongodAgain
<1> QED BY <1>1, <1>2, <1>3, <1>4 DEF Operations

\* A command whose answer was lost may be sent again: whatever was run before,
\* and whatever a restart forgot, an operation that its seed declares
\* idempotent leaves the same behind and answers the same when it is run twice
\* (the Operations and Execute methods of the seeds).
THEOREM RunTwiceIsRunOnce == SeedOpsSpec => []DeclaredIdempotent
<1>1. ASSUME WellKept(kept) PROVE DeclaredIdempotent
  BY <1>1, RunAgain, SeedOpsAssumption, TreeAssumption DEF DeclaredIdempotent
<1>2. SeedOpsInit => WellKept(kept) BY DEF SeedOpsInit, WellKept, EmptyMap
<1>3. WellKept(kept) /\ [SeedOpsNext]_seedVars => WellKept(kept)'
  <2> SUFFICES ASSUME WellKept(kept), [SeedOpsNext]_seedVars PROVE WellKept(kept')
    OBVIOUS
  <2>1. ASSUME NEW ids \in SeedLists, BuildRegistry(ids) PROVE WellKept(kept')
    BY <2>1 DEF BuildRegistry
  <2>2. ASSUME NEW op \in Operations, RunOperation(op) PROVE WellKept(kept')
    BY <2>2, RunAgain, SeedOpsAssumption, TreeAssumption DEF RunOperation
  <2>3. CASE Reboot BY <2>3 DEF Reboot, WellKept, EmptyMap
  <2>4. CASE UNCHANGED seedVars BY <2>4 DEF seedVars
  <2> QED BY <2>1, <2>2, <2>3, <2>4 DEF SeedOpsNext
<1> QED BY <1>1, <1>2, <1>3, PTL DEF SeedOpsSpec

-----------------------------------------------------------------------------
(***************************************************************************)
(* The installation of seed dependencies.                                  *)
(***************************************************************************)

\* What InstalledAsAsked says of one installed spec.
Holds(i) ==
  LET wc == disk[i.spec.dest]
  IN  CASE i.spec.method = "github" ->
             \A a \in i.asked :
               /\ wc.kind = "git"
               /\ wc.repo = a.found
               /\ wc.at[1] = AskedBranch(i.spec, wc)
               /\ wc.repo = i.spec.repo => wc.at[2] >= a.at[wc.at[1]]
        [] i.spec.method = "workspace_copy" ->
             wc.kind = "files" /\ i.spec.source \subseteq wc.files
        [] OTHER -> {"brew", i.spec.package} \subseteq brew

LEMMA HoldsAll == InstalledAsAsked <=> \A i \in installed : Holds(i)
BY DEF InstalledAsAsked, Holds

\* A step that leaves the place of an installed spec alone, and takes nothing
\* from brew, leaves it as it was asked for.
LEMMA HoldsStays ==
  ASSUME NEW i, Holds(i), disk'[i.spec.dest] = disk[i.spec.dest], brew \subseteq brew'
  PROVE  Holds(i)'
BY DEF Holds, AskedBranch

\* The three kinds of what may be at a destination.
LEMMA Kinds ==
  /\ \A wc \in {Absent} \cup WorkingCopies \cup FileTrees :
       /\ wc.kind \in {"absent", "git", "files"}
       /\ wc.kind = "absent" <=> wc = Absent
       /\ wc.kind = "git" <=> wc \in WorkingCopies
       /\ wc.kind = "files" <=> wc \in FileTrees
BY DEF Absent, WorkingCopies, FileTrees

\* The spec in hand, between the first command and the last.
LEMMA InHandTyped ==
  ASSUME SeedInstallAssumption, InstallTypeOK, step # "idle"
  PROVE  /\ queue # <<>> /\ InHand \in InstallSpecs /\ InHand \in AnyInstallSpec
         /\ Dest \in Destinations
         /\ Copy \in {Absent} \cup WorkingCopies \cup FileTrees
         /\ Tail(queue) \in Seq(InstallSpecs)
         /\ Len(queue) = 1 <=> Tail(queue) = <<>>
<1>1. queue # <<>> /\ queue \in Seq(InstallSpecs) BY DEF InstallTypeOK
<1>2. InHand \in InstallSpecs BY <1>1 DEF InHand
<1>3. InHand \in AnyInstallSpec BY <1>2 DEF SeedInstallAssumption
<1>4. Dest \in Destinations BY <1>3 DEF AnyInstallSpec, Dest
<1>5. Copy \in {Absent} \cup WorkingCopies \cup FileTrees BY <1>4 DEF Copy, InstallTypeOK
<1>6. Tail(queue) \in Seq(InstallSpecs) /\ (Len(queue) = 1 <=> Tail(queue) = <<>>)
  <2>1. Tail(queue) \in Seq(InstallSpecs) /\ Len(Tail(queue)) = Len(queue) - 1
    BY <1>1, HeadTailProperties
  <2>2. Tail(queue) = <<>> <=> Len(Tail(queue)) = 0 BY <2>1, EmptySeq
  <2>3. Len(queue) \in Nat BY <1>1, LenProperties
  <2> QED BY <2>1, <2>2, <2>3
<1> QED BY <1>1, <1>2, <1>3, <1>4, <1>5, <1>6

-----------------------------------------------------------------------------
(* Boots, failures, crashes and pushes *)

LEMMA BootStep ==
  ASSUME SeedInstallAssumption, InstallInv, NEW specs \in BootPlans, Boot(specs)
  PROVE  InstallInv'
<1>1. specs \in Seq(InstallSpecs) BY DEF SeedInstallAssumption
<1>2. /\ queue' = specs /\ step' = IF specs = <<>> THEN "idle" ELSE "begin"
      /\ UNCHANGED <<upstream, disk, brew, fetchHead, asked, installed>>
  BY DEF Boot
<1>3. InstallTypeOK' BY <1>1, <1>2 DEF InstallInv, InstallTypeOK
<1>4. PlaceIsFree' BY <1>2 DEF PlaceIsFree
<1>5. InstallInStep' BY <1>2 DEF InstallInStep, GitSteps, BrewSteps
<1>6. InstalledAsAsked' BY <1>2, HoldsAll DEF InstallInv, InstalledAsAsked, AskedBranch
<1> QED BY <1>3, <1>4, <1>5, <1>6 DEF InstallInv

\* A boot that ends, whether it fails or dies.
LEMMA StopStep ==
  ASSUME InstallInv, InstallFails \/ Crash
  PROVE  InstallInv'
<1>1. /\ queue' = <<>> /\ step' = "idle"
      /\ UNCHANGED <<upstream, disk, brew, fetchHead, asked, installed>>
  BY DEF InstallFails, Crash
<1>2. InstallTypeOK' BY <1>1 DEF InstallInv, InstallTypeOK
<1>3. PlaceIsFree' BY <1>1 DEF PlaceIsFree
<1>4. InstallInStep' BY <1>1 DEF InstallInStep, GitSteps, BrewSteps
<1>5. InstalledAsAsked' BY <1>1 DEF InstallInv, InstalledAsAsked, AskedBranch
<1> QED BY <1>2, <1>3, <1>4, <1>5 DEF InstallInv

LEMMA PushStep ==
  ASSUME SeedInstallAssumption, InstallInv, NEW r \in Repos, NEW b \in Branches, Push(r, b)
  PROVE  InstallInv'
<1>1. /\ upstream' = [upstream EXCEPT ![r][b] = @ + 1]
      /\ UNCHANGED <<disk, brew, queue, step, fetchHead, asked, installed>>
  BY DEF Push
<1>2. /\ upstream' \in [Repos -> [Branches -> Nat]]
      /\ \A s \in Repos, c \in Branches : upstream[s][c] <= upstream'[s][c]
  BY <1>1 DEF InstallInv, InstallTypeOK
<1>3. InstallTypeOK' BY <1>1, <1>2 DEF InstallInv, InstallTypeOK
<1>4. PlaceIsFree' BY <1>1 DEF InstallInv, PlaceIsFree, Dest, InHand
<1>5. InstallInStep'
  <2>1. ASSUME NEW a \in asked, step \in GitSteps, InHand.repo # Unset, GitInStep(a)
        PROVE  GitInStep(a)'
    <3>1. step # "idle" BY <2>1 DEF GitSteps
    <3>2. InHand.repo \in Repos
      BY <2>1, <3>1, InHandTyped DEF InstallInv, AnyInstallSpec
    <3>3. a \in Wishes BY DEF InstallInv, InstallTypeOK
    <3>4. \A c \in Branches : a.at[c] <= upstream'[InHand.repo][c]
      <4> TAKE c \in Branches
      <4>1. a.at[c] \in Nat BY <3>3 DEF Wishes
      <4>2. upstream[InHand.repo][c] \in Nat BY <3>2 DEF InstallInv, InstallTypeOK
      <4>3. upstream'[InHand.repo][c] \in Nat BY <3>2, <1>2
      <4>4. a.at[c] <= upstream[InHand.repo][c] BY <2>1 DEF GitInStep
      <4>5. upstream[InHand.repo][c] <= upstream'[InHand.repo][c] BY <3>2, <1>2
      <4> QED BY <4>1, <4>2, <4>3, <4>4, <4>5
    <3> QED BY <2>1, <3>4, <1>1 DEF GitInStep, InHand, Copy, Dest
  <2> QED BY <1>1, <2>1 DEF InstallInv, InstallInStep, InHand
<1>6. InstalledAsAsked' BY <1>1 DEF InstallInv, InstalledAsAsked, AskedBranch
<1> QED BY <1>3, <1>4, <1>5, <1>6 DEF InstallInv

-----------------------------------------------------------------------------
(***************************************************************************)
(* The spec in hand is begun: what was installed at its place is no longer *)
(* promised.                                                               *)
(***************************************************************************)
LEMMA BeginSpecStep ==
  ASSUME SeedInstallAssumption, InstallInv, BeginSpec
  PROVE  InstallInv'
<1> DEFINE a == [at |-> upstream[InHand.repo],
                 found |-> IF Copy.kind = "git" THEN Copy.repo ELSE InHand.repo]
<1>1. /\ step = "begin" /\ Acceptable /\ step' = FirstStage
      /\ asked' = IF InHand.repo = Unset THEN {} ELSE {a}
      /\ installed' = {i \in installed : i.spec.dest # Dest}
      /\ UNCHANGED <<upstream, disk, brew, queue, fetchHead>>
  BY DEF BeginSpec
<1>2. /\ queue # <<>> /\ InHand \in AnyInstallSpec
      /\ Copy \in {Absent} \cup WorkingCopies \cup FileTrees
  BY <1>1, InHandTyped DEF InstallInv
<1>3. /\ InHand.method \in {"github", "workspace_copy", "brew"}
      /\ InHand.repo # Unset => InHand.repo \in Repos
  BY <1>2 DEF AnyInstallSpec
<1>4. InHand.repo # Unset => a \in Wishes
  <2> SUFFICES ASSUME InHand.repo # Unset PROVE a \in Wishes
    OBVIOUS
  <2>1. upstream[InHand.repo] \in [Branches -> Nat] BY <1>3 DEF InstallInv, InstallTypeOK
  <2>2. (IF Copy.kind = "git" THEN Copy.repo ELSE InHand.repo) \in Repos
    BY <1>2, <1>3, Kinds DEF WorkingCopies
  <2> QED BY <2>1, <2>2 DEF Wishes
<1>5. step' \in {"clone", "update", "copy", "brew"} BY <1>1 DEF FirstStage
<1>6. InHand' = InHand /\ Dest' = Dest /\ Copy' = Copy BY <1>1 DEF InHand, Dest, Copy
<1>7. InstallTypeOK'
  BY <1>1, <1>2, <1>4, <1>5 DEF InstallInv, InstallTypeOK, GitSteps, BrewSteps
<1>8. PlaceIsFree' BY <1>1, <1>6 DEF PlaceIsFree
<1>9. InstallInStep'
  <2>1. CASE InHand.method = "github"
    <3>1. InHand.repo # Unset /\ Copy.kind \in {"absent", "git"}
      BY <1>1, <2>1 DEF Acceptable
    <3>w. PICK w \in Wishes : w = a BY <1>4, <3>1
    <3>2. step' = IF Copy = Absent THEN "clone" ELSE "update" BY <1>1, <2>1 DEF FirstStage
    <3>3. GitInStep(w)'
      <4>1. \A b \in Branches : w.at[b] <= upstream'[InHand.repo][b]
        <5> TAKE b \in Branches
        <5>1. w.at = upstream[InHand.repo] BY <3>w
        <5>2. upstream[InHand.repo][b] \in Nat BY <1>3, <3>1 DEF InstallInv, InstallTypeOK
        <5> QED BY <5>1, <5>2, <1>1
      <4>2. CASE Copy = Absent
        <5>1. step' = "clone" /\ w.found = InHand.repo BY <3>w, <3>2, <4>2, <1>2, Kinds
        <5> QED BY <4>1, <5>1, <1>1, <1>6 DEF GitInStep
      <4>3. CASE Copy # Absent
        <5>1. step' = "update" /\ Copy.kind = "git" BY <1>2, <3>1, <3>2, <4>3, Kinds
        <5>2. w.found = Copy.repo /\ Copy \in WorkingCopies BY <3>w, <1>2, <5>1, Kinds
        <5> QED BY <4>1, <5>1, <5>2, <1>1, <1>6 DEF GitInStep
      <4> QED BY <4>2, <4>3
    <3>4. asked' = {w} BY <1>1, <3>1, <3>w
    <3> QED BY <2>1, <3>1, <3>2, <3>3, <3>4, <1>6 DEF InstallInStep, GitSteps, BrewSteps
  <2>2. CASE InHand.method # "github"
    BY <2>2, <1>1, <1>3, <1>6 DEF InstallInStep, GitSteps, BrewSteps, FirstStage
  <2> QED BY <2>1, <2>2
<1>10. InstalledAsAsked' BY <1>1 DEF InstallInv, InstalledAsAsked, AskedBranch
<1> QED BY <1>7, <1>8, <1>9, <1>10 DEF InstallInv

-----------------------------------------------------------------------------
(***************************************************************************)
(* A command that succeeds: Install goes on, or returns nil.               *)
(***************************************************************************)

\* What a command leaves at the destination disturbs no other.
LEMMA OthersStay ==
  ASSUME SeedInstallAssumption, InstallInv, step \notin {"idle", "begin"}, NEW wc,
         disk' = [disk EXCEPT ![Dest] = wc], brew \subseteq brew'
  PROVE  /\ \A i \in installed : Holds(i)'
         /\ disk'[Dest] = wc
<1>1. disk'[Dest] = wc BY InHandTyped DEF InstallInv, InstallTypeOK
<1>2. ASSUME NEW i \in installed PROVE Holds(i)'
  <2>1. i.spec.dest # Dest BY DEF InstallInv, PlaceIsFree
  <2>2. i.spec \in AnyInstallSpec BY DEF InstallInv, InstallTypeOK, SeedInstallAssumption
  <2>3. disk'[i.spec.dest] = disk[i.spec.dest]
    BY <2>1, <2>2 DEF InstallInv, InstallTypeOK, AnyInstallSpec
  <2>4. Holds(i) BY HoldsAll DEF InstallInv
  <2> QED BY <2>3, <2>4, HoldsStays
<1> QED BY <1>1, <1>2

LEMMA GoesOn ==
  ASSUME SeedInstallAssumption, InstallInv, step \notin {"idle", "begin"},
         NEW wc \in {Absent} \cup WorkingCopies \cup FileTrees,
         disk' = [disk EXCEPT ![Dest] = wc], brew \subseteq brew',
         step' \in {"copy"} \cup GitSteps \cup BrewSteps,
         UNCHANGED <<queue, installed, upstream, asked>>
  PROVE  /\ InstallTypeOK' /\ PlaceIsFree' /\ InstalledAsAsked'
         /\ InHand' = InHand /\ Dest' = Dest /\ Copy' = wc
<1>1. (\A i \in installed : Holds(i)') /\ disk'[Dest] = wc BY OthersStay
<1>2. InHand' = InHand /\ Dest' = Dest BY DEF InHand, Dest
<1>3. Copy' = wc BY <1>1, <1>2 DEF Copy
<1>4. step # "idle" /\ queue # <<>> BY DEF InstallInv, InstallTypeOK
<1>5. InstallTypeOK' BY <1>4 DEF InstallInv, InstallTypeOK, GitSteps, BrewSteps
<1>6. PlaceIsFree' BY <1>2 DEF InstallInv, PlaceIsFree
<1>7. InstalledAsAsked' <=> \A i \in installed' : Holds(i)' BY DEF InstalledAsAsked, Holds, AskedBranch
<1> QED BY <1>1, <1>2, <1>3, <1>5, <1>6, <1>7

LEMMA Returns ==
  ASSUME SeedInstallAssumption, InstallInv, step \notin {"idle", "begin"},
         NEW wc \in {Absent} \cup WorkingCopies \cup FileTrees,
         disk' = [disk EXCEPT ![Dest] = wc], brew \subseteq brew',
         SpecDone, UNCHANGED <<upstream, asked>>,
         NEW i, i = [spec |-> InHand, asked |-> asked], Holds(i)'
  PROVE  InstallInv'
<1>1. /\ installed' = installed \cup {i}
      /\ queue' = Tail(queue)
      /\ step' = IF Len(queue) = 1 THEN "idle" ELSE "begin"
  BY DEF SpecDone
<1>2. \A j \in installed : Holds(j)' BY OthersStay
<1>3. /\ InHand \in InstallSpecs /\ Tail(queue) \in Seq(InstallSpecs)
      /\ Len(queue) = 1 <=> Tail(queue) = <<>>
  BY InHandTyped DEF InstallInv
<1>4. i \in [spec : InstallSpecs, asked : SUBSET Wishes] BY <1>3 DEF InstallInv, InstallTypeOK
<1>5. step' \in {"idle", "begin"} /\ (step' = "idle" <=> queue' = <<>>) BY <1>1, <1>3
<1>6. InstallTypeOK' BY <1>1, <1>3, <1>4, <1>5 DEF InstallInv, InstallTypeOK
<1>7. PlaceIsFree' BY <1>5 DEF PlaceIsFree
<1>8. InstallInStep' BY <1>5 DEF InstallInStep, GitSteps, BrewSteps
<1>9. InstalledAsAsked' <=> \A j \in installed' : Holds(j)'
  BY DEF InstalledAsAsked, Holds, AskedBranch
<1>10. InstalledAsAsked' BY <1>1, <1>2, <1>9
<1> QED BY <1>6, <1>7, <1>8, <1>10 DEF InstallInv

-----------------------------------------------------------------------------
(* git *)

\* What is known while git is at work.
LEMMA GitFacts ==
  ASSUME SeedInstallAssumption, InstallInv, step \in GitSteps
  PROVE  /\ step \notin {"idle", "begin"}
         /\ InHand.method = "github" /\ InHand.repo \in Repos
         /\ InHand.branch \in Branches \cup {Unset} /\ InHand.ref \in Branches \cup {Unset}
         /\ Unset \notin Branches /\ DefaultBranch \in Branches
         /\ \E a \in Wishes : asked = {a} /\ GitInStep(a)
         /\ step # "clone" => Copy \in WorkingCopies /\ Copy.repo \in Repos
<1>1. step \notin {"idle", "begin"} BY DEF GitSteps
<1>2. InHand \in AnyInstallSpec BY <1>1, InHandTyped DEF InstallInv
<1>3. /\ InHand.method = "github" /\ InHand.repo # Unset
      /\ \E a \in asked : asked = {a} /\ GitInStep(a)
  BY DEF InstallInv, InstallInStep
<1>4. PICK a \in Wishes : asked = {a} /\ GitInStep(a) BY <1>3 DEF InstallInv, InstallTypeOK
<1>5. step # "clone" => Copy \in WorkingCopies /\ Copy.repo \in Repos
  BY <1>4 DEF GitInStep, WorkingCopies
<1>6. Unset \notin Branches /\ DefaultBranch \in Branches BY DEF SeedInstallAssumption
<1> QED BY <1>1, <1>2, <1>3, <1>4, <1>5, <1>6 DEF AnyInstallSpec

LEMMA GitGoesOn ==
  ASSUME SeedInstallAssumption, InstallInv, step \in GitSteps,
         NEW a \in Wishes, asked = {a}, GitInStep(a),
         NEW wc \in WorkingCopies, wc.repo = a.found,
         disk' = [disk EXCEPT ![Dest] = wc],
         step' \in GitSteps \ {"clone"},
         UNCHANGED <<queue, installed, upstream, asked, brew>>,
         step' \in {"checkout", "pull branch"} => InHand.branch # Unset,
         step' \in {"fetch ref", "checkout ref"} => InHand.ref # Unset,
         step' = "pull" => InHand.branch = Unset /\ InHand.ref = Unset,
         step' = "checkout ref" =>
           /\ fetchHead' \in {InHand.ref} \X Nat
           /\ wc.repo = InHand.repo => fetchHead'[2] >= a.at[InHand.ref]
  PROVE  InstallInv'
<1>1. step \notin {"idle", "begin"} /\ InHand.method = "github" /\ InHand.repo # Unset
  BY GitFacts DEF InstallInv, InstallInStep
<1>2. /\ InstallTypeOK' /\ PlaceIsFree' /\ InstalledAsAsked'
      /\ InHand' = InHand /\ Dest' = Dest /\ Copy' = wc
  BY <1>1, GoesOn
<1>3. GitInStep(a)' BY <1>2 DEF GitInStep
<1>4. InstallInStep' BY <1>1, <1>2, <1>3 DEF InstallInStep, GitSteps, BrewSteps
<1> QED BY <1>2, <1>4 DEF InstallInv

LEMMA GitReturns ==
  ASSUME SeedInstallAssumption, InstallInv, step \in GitSteps,
         NEW a \in Wishes, asked = {a},
         NEW wc \in WorkingCopies, wc.repo = a.found,
         wc.at[1] = AskedBranch(InHand, wc),
         wc.repo = InHand.repo => wc.at[2] >= a.at[wc.at[1]],
         disk' = [disk EXCEPT ![Dest] = wc],
         SpecDone, UNCHANGED <<upstream, asked, brew>>
  PROVE  InstallInv'
<1>1. step \notin {"idle", "begin"} /\ InHand.method = "github" BY GitFacts
<1>2. disk'[Dest] = wc BY <1>1, OthersStay
<1>3. PICK i : i = [spec |-> InHand, asked |-> asked] OBVIOUS
<1>4. i.spec = InHand /\ i.asked = {a} /\ i.spec.dest = Dest BY <1>3 DEF Dest
<1>5. wc.kind = "git" BY DEF WorkingCopies
<1>6. Holds(i)' BY <1>1, <1>2, <1>4, <1>5 DEF Holds, AskedBranch
<1> QED BY <1>1, <1>3, <1>6, Returns

\* A branch of the spec's repository is no older than it was.
LEMMA NoOlder ==
  ASSUME SeedInstallAssumption, InstallInv, step \in GitSteps,
         NEW a \in Wishes, GitInStep(a), NEW b \in Branches, NEW r \in Repos
  PROVE  /\ upstream[r][b] \in Nat
         /\ r = InHand.repo => upstream[r][b] >= a.at[b]
<1>1. upstream[r][b] \in Nat /\ a.at[b] \in Nat BY DEF InstallInv, InstallTypeOK, Wishes
<1>2. a.at[b] <= upstream[InHand.repo][b] BY DEF GitInStep
<1> QED BY <1>1, <1>2

LEMMA GitCloneStep ==
  ASSUME SeedInstallAssumption, InstallInv, GitClone
  PROVE  InstallInv'
<1>1. step = "clone" /\ step \in GitSteps BY DEF GitClone, GitSteps
<1>2. PICK a \in Wishes : asked = {a} /\ GitInStep(a) BY <1>1, GitFacts
<1> DEFINE b == IF InHand.branch = Unset THEN DefaultBranch ELSE InHand.branch
           tracked == IF InHand.branch = Unset THEN Branches ELSE {InHand.branch}
           wc == Clone(InHand.repo, tracked, b)
<1>3. b \in Branches /\ tracked \in SUBSET Branches /\ InHand.repo \in Repos BY <1>1, GitFacts
<1>4. /\ upstream[InHand.repo][b] \in Nat
      /\ upstream[InHand.repo][b] >= a.at[b]
  BY <1>1, <1>2, <1>3, NoOlder
<1>5. b # Unset /\ b = IF InHand.branch = Unset THEN DefaultBranch ELSE InHand.branch
  BY <1>1, GitFacts
<1>6. Advance(AfterClone, wc) /\ UNCHANGED <<brew, fetchHead>>
  BY DEF GitClone
<1>7. a.found = InHand.repo BY <1>1, <1>2 DEF GitInStep
<1> HIDE DEF b, tracked
<1>8. /\ wc \in WorkingCopies /\ wc.repo = InHand.repo /\ wc.head = b
      /\ wc.at[1] = b /\ wc.at[2] = upstream[InHand.repo][b]
  BY <1>3, <1>4 DEF Clone, WorkingCopies
<1> HIDE DEF wc
<1>9. disk' = [disk EXCEPT ![Dest] = wc] /\ UNCHANGED <<upstream, asked, brew>>
  BY <1>6 DEF Advance
<1>10. CASE InHand.ref = Unset
  <2>1. SpecDone BY <1>6, <1>10 DEF Advance, AfterClone
  <2>2. wc.at[1] = AskedBranch(InHand, wc) BY <1>5, <1>8, <1>10 DEF AskedBranch
  <2> QED BY <1>1, <1>2, <1>4, <1>7, <1>8, <1>9, <2>1, <2>2, GitReturns
<1>11. CASE InHand.ref # Unset
  <2>1. step' = "fetch ref" /\ UNCHANGED <<queue, installed>>
    BY <1>6, <1>11 DEF Advance, AfterClone
  <2> QED BY <1>1, <1>2, <1>7, <1>8, <1>9, <1>11, <2>1, GitGoesOn DEF GitSteps
<1> QED BY <1>10, <1>11

\* The steps that update a copy that was there.
LEMMA GitUpdateSteps ==
  ASSUME SeedInstallAssumption, InstallInv,
         GitFetchAll \/ GitCheckout \/ GitPullBranch \/ GitFetchRef \/ GitCheckoutRef \/ GitPull
  PROVE  InstallInv'
<1>1. step \in GitSteps /\ step # "clone"
  BY DEF GitFetchAll, GitCheckout, GitPullBranch, GitFetchRef, GitCheckoutRef, GitPull, GitSteps
<1>2. PICK a \in Wishes : asked = {a} /\ GitInStep(a) BY <1>1, GitFacts
<1>3. /\ Copy \in WorkingCopies /\ Copy.repo \in Repos /\ Copy.repo = a.found
      /\ InHand.branch \in Branches \cup {Unset} /\ InHand.ref \in Branches \cup {Unset}
  BY <1>1, <1>2, GitFacts DEF GitInStep
<1>4. CASE GitFetchAll
  <2>1. /\ disk' = [disk EXCEPT ![Dest] = Copy]
        /\ step' = IF InHand.branch # Unset THEN "checkout"
                   ELSE IF InHand.ref # Unset THEN "fetch ref" ELSE "pull"
        /\ UNCHANGED <<queue, installed, upstream, asked, brew>>
    BY <1>4 DEF GitFetchAll, Advance
  <2> QED BY <1>1, <1>2, <1>3, <2>1, GitGoesOn DEF GitSteps
<1>5. CASE GitCheckout
  <2>1. step = "checkout" /\ InHand.branch \in Branches
    BY <1>2, <1>3, <1>5 DEF GitCheckout, GitInStep
  <2>2. PICK v \in 0 .. upstream[Copy.repo][InHand.branch] :
          Advance("pull branch", [Copy EXCEPT !.head = InHand.branch, !.at = <<InHand.branch, v>>])
    BY <1>5 DEF GitCheckout
  <2> DEFINE wc == [Copy EXCEPT !.head = InHand.branch, !.at = <<InHand.branch, v>>]
  <2>3. upstream[Copy.repo][InHand.branch] \in Nat BY <1>1, <1>2, <1>3, <2>1, NoOlder
  <2>4. wc \in WorkingCopies /\ wc.repo = Copy.repo
    <3>1. v \in Nat BY <2>3
    <3>2. <<InHand.branch, v>> \in Branches \X Nat BY <2>1, <3>1
    <3> QED BY <1>3, <3>2 DEF WorkingCopies
  <2>5. /\ disk' = [disk EXCEPT ![Dest] = wc] /\ step' = "pull branch"
        /\ UNCHANGED <<queue, installed, upstream, asked, brew>>
    BY <1>5, <2>2 DEF GitCheckout, Advance
  <2>6. InHand.branch # Unset BY <1>2, <2>1 DEF GitInStep
  <2> HIDE DEF wc
  <2> QED BY <1>1, <1>2, <1>3, <2>4, <2>5, <2>6, GitGoesOn DEF GitSteps
<1>6. CASE GitPullBranch
  <2> DEFINE wc == [Copy EXCEPT !.at = <<InHand.branch, upstream[Copy.repo][InHand.branch]>>]
  <2>1. step = "pull branch" BY <1>6 DEF GitPullBranch
  <2>2. InHand.branch \in Branches /\ InHand.branch # Unset BY <1>2, <1>3, <2>1 DEF GitInStep
  <2>3. /\ upstream[Copy.repo][InHand.branch] \in Nat
        /\ Copy.repo = InHand.repo => upstream[Copy.repo][InHand.branch] >= a.at[InHand.branch]
    BY <1>1, <1>2, <1>3, <2>2, NoOlder
  <2>4. /\ wc \in WorkingCopies /\ wc.repo = Copy.repo
        /\ wc.at[1] = InHand.branch /\ wc.at[2] = upstream[Copy.repo][InHand.branch]
    BY <1>3, <2>2, <2>3 DEF WorkingCopies
  <2>5. /\ Advance(IF InHand.ref # Unset THEN "fetch ref" ELSE "done", wc)
        /\ UNCHANGED <<brew, fetchHead>>
    BY <1>6 DEF GitPullBranch
  <2> HIDE DEF wc
  <2>6. disk' = [disk EXCEPT ![Dest] = wc] /\ UNCHANGED <<upstream, asked, brew>>
    BY <2>5 DEF Advance
  <2>7. CASE InHand.ref = Unset
    <3>1. SpecDone BY <2>5, <2>7 DEF Advance
    <3>2. wc.at[1] = AskedBranch(InHand, wc) BY <2>2, <2>4, <2>7 DEF AskedBranch
    <3>3. wc.repo = InHand.repo => wc.at[2] >= a.at[wc.at[1]] BY <2>3, <2>4
    <3> QED BY <1>1, <1>2, <1>3, <2>4, <2>6, <3>1, <3>2, <3>3, GitReturns
  <2>8. CASE InHand.ref # Unset
    <3>1. step' = "fetch ref" /\ UNCHANGED <<queue, installed>> BY <2>5, <2>8 DEF Advance
    <3> QED BY <1>1, <1>2, <1>3, <2>4, <2>6, <2>8, <3>1, GitGoesOn DEF GitSteps
  <2> QED BY <2>7, <2>8
<1>7. CASE GitFetchRef
  <2>1. step = "fetch ref" BY <1>7 DEF GitFetchRef
  <2>2. InHand.ref \in Branches /\ InHand.ref # Unset BY <1>2, <1>3, <2>1 DEF GitInStep
  <2>3. /\ upstream[Copy.repo][InHand.ref] \in Nat
        /\ Copy.repo = InHand.repo => upstream[Copy.repo][InHand.ref] >= a.at[InHand.ref]
    BY <1>1, <1>2, <1>3, <2>2, NoOlder
  <2>4. /\ fetchHead' = <<InHand.ref, upstream[Copy.repo][InHand.ref]>>
        /\ disk' = [disk EXCEPT ![Dest] = Copy] /\ step' = "checkout ref"
        /\ UNCHANGED <<queue, installed, upstream, asked, brew>>
    BY <1>7 DEF GitFetchRef, Advance
  <2>5. /\ fetchHead' \in {InHand.ref} \X Nat
        /\ Copy.repo = InHand.repo => fetchHead'[2] >= a.at[InHand.ref]
    BY <2>3, <2>4
  <2> QED BY <1>1, <1>2, <1>3, <2>2, <2>4, <2>5, GitGoesOn DEF GitSteps
<1>8. CASE GitCheckoutRef
  <2> DEFINE wc == [Copy EXCEPT !.head = Unset, !.at = fetchHead]
  <2>1. step = "checkout ref" BY <1>8 DEF GitCheckoutRef
  <2>2. /\ InHand.ref \in Branches /\ InHand.ref # Unset
        /\ fetchHead \in {InHand.ref} \X Nat
        /\ Copy.repo = InHand.repo => fetchHead[2] >= a.at[InHand.ref]
    BY <1>2, <1>3, <2>1 DEF GitInStep
  <2>3. wc \in WorkingCopies /\ wc.repo = Copy.repo /\ wc.at = fetchHead
    BY <1>3, <2>2 DEF WorkingCopies
  <2>4. /\ disk' = [disk EXCEPT ![Dest] = wc] /\ SpecDone
        /\ UNCHANGED <<upstream, asked, brew>>
    BY <1>8 DEF GitCheckoutRef, Advance
  <2> HIDE DEF wc
  <2>5. wc.at[1] = AskedBranch(InHand, wc) BY <2>2, <2>3 DEF AskedBranch
  <2>6. wc.repo = InHand.repo => wc.at[2] >= a.at[wc.at[1]] BY <2>2, <2>3
  <2> QED BY <1>1, <1>2, <1>3, <2>3, <2>4, <2>5, <2>6, GitReturns
<1>9. CASE GitPull
  <2> DEFINE wc == [Copy EXCEPT !.at = <<Copy.head, upstream[Copy.repo][Copy.head]>>]
  <2>1. step = "pull" /\ Copy.head # Unset BY <1>9 DEF GitPull
  <2>2. InHand.branch = Unset /\ InHand.ref = Unset /\ Copy.head \in Branches
    BY <1>2, <1>3, <2>1 DEF GitInStep, WorkingCopies
  <2>3. /\ upstream[Copy.repo][Copy.head] \in Nat
        /\ Copy.repo = InHand.repo => upstream[Copy.repo][Copy.head] >= a.at[Copy.head]
    BY <1>1, <1>2, <1>3, <2>2, NoOlder
  <2>4. /\ wc \in WorkingCopies /\ wc.repo = Copy.repo /\ wc.head = Copy.head
        /\ wc.at[1] = Copy.head /\ wc.at[2] = upstream[Copy.repo][Copy.head]
    BY <1>3, <2>2, <2>3 DEF WorkingCopies
  <2>5. /\ disk' = [disk EXCEPT ![Dest] = wc] /\ SpecDone
        /\ UNCHANGED <<upstream, asked, brew>>
    BY <1>9 DEF GitPull, Advance
  <2> HIDE DEF wc
  <2>6. wc.at[1] = AskedBranch(InHand, wc) BY <2>2, <2>4 DEF AskedBranch
  <2>7. wc.repo = InHand.repo => wc.at[2] >= a.at[wc.at[1]] BY <2>3, <2>4
  <2> QED BY <1>1, <1>2, <1>3, <2>4, <2>5, <2>6, <2>7, GitReturns
<1> QED BY <1>4, <1>5, <1>6, <1>7, <1>8, <1>9

-----------------------------------------------------------------------------
(* Copies and brew *)

LEMMA CopySteps ==
  ASSUME SeedInstallAssumption, InstallInv, (\E f \in Files : CopyFile(f)) \/ CopyDone
  PROVE  InstallInv'
<1>1. step = "copy" BY DEF CopyFile, CopyDone
<1>2. InHand.method = "workspace_copy" BY <1>1 DEF InstallInv, InstallInStep
<1>3. Copied \in SUBSET Files
  <2>1. Copy \in {Absent} \cup WorkingCopies \cup FileTrees BY <1>1, InHandTyped DEF InstallInv
  <2>2. Copy.kind = "files" => Copy.files \in SUBSET Files BY <2>1, Kinds DEF FileTrees
  <2> QED BY <2>2 DEF Copied
<1>4. ASSUME NEW files \in SUBSET Files
      PROVE  /\ [kind |-> "files", files |-> files] \in FileTrees
             /\ [kind |-> "files", files |-> files].kind = "files"
             /\ [kind |-> "files", files |-> files].files = files
  BY DEF FileTrees
<1>5. CASE CopyDone
  <2> DEFINE wc == [kind |-> "files", files |-> Copied]
  <2>1. wc \in FileTrees /\ wc.kind = "files" /\ wc.files = Copied BY <1>3, <1>4
  <2>2. /\ disk' = [disk EXCEPT ![Dest] = wc] /\ SpecDone /\ InHand.source \subseteq Copied
        /\ UNCHANGED <<upstream, asked, brew>>
    BY <1>5 DEF CopyDone, Advance
  <2> HIDE DEF wc
  <2>3. disk'[Dest] = wc BY <1>1, <2>2, OthersStay
  <2>4. PICK i : i = [spec |-> InHand, asked |-> asked] OBVIOUS
  <2>5. i.spec = InHand /\ i.spec.dest = Dest BY <2>4 DEF Dest
  <2>6. Holds(i)' BY <1>2, <2>1, <2>2, <2>3, <2>5 DEF Holds
  <2> QED BY <1>1, <2>1, <2>2, <2>4, <2>6, Returns
<1>6. ASSUME NEW f \in Files, CopyFile(f) PROVE InstallInv'
  <2> DEFINE wc == [kind |-> "files", files |-> Copied \cup {f}]
  <2>1. wc \in FileTrees BY <1>3, <1>4
  <2>2. /\ disk' = [disk EXCEPT ![Dest] = wc] /\ step' = "copy"
        /\ UNCHANGED <<queue, installed, upstream, asked, brew>>
    BY <1>6 DEF CopyFile, Advance
  <2> HIDE DEF wc
  <2>3. /\ InstallTypeOK' /\ PlaceIsFree' /\ InstalledAsAsked'
        /\ InHand' = InHand
    BY <1>1, <2>1, <2>2, GoesOn
  <2>4. InstallInStep' BY <1>2, <2>2, <2>3 DEF InstallInStep, GitSteps, BrewSteps
  <2> QED BY <2>3, <2>4 DEF InstallInv
<1> QED BY <1>5, <1>6

LEMMA BrewStepsHold ==
  ASSUME SeedInstallAssumption, InstallInv, EnsureBrew \/ BrewTap \/ BrewInstall
  PROVE  InstallInv'
<1>1. step \in BrewSteps /\ step \notin {"idle", "begin"}
  BY DEF EnsureBrew, BrewTap, BrewInstall, BrewSteps
<1>2. InHand.method = "brew" BY <1>1 DEF InstallInv, InstallInStep
<1>3. Copy \in {Absent} \cup WorkingCopies \cup FileTrees BY <1>1, InHandTyped DEF InstallInv
<1>4. brew \subseteq brew' BY DEF EnsureBrew, BrewTap, BrewInstall
<1>5. disk' = [disk EXCEPT ![Dest] = Copy] /\ UNCHANGED <<upstream, asked>>
  BY DEF EnsureBrew, BrewTap, BrewInstall, Advance
<1>6. CASE EnsureBrew \/ BrewTap
  <2>1. /\ step' \in {"tap", "brew install"} /\ "brew" \in brew'
        /\ UNCHANGED <<queue, installed>>
    BY <1>6 DEF EnsureBrew, BrewTap, Advance, InstallInv, InstallInStep
  <2>2. /\ InstallTypeOK' /\ PlaceIsFree' /\ InstalledAsAsked'
        /\ InHand' = InHand
    BY <1>1, <1>3, <1>4, <1>5, <2>1, GoesOn DEF BrewSteps
  <2>3. InstallInStep' BY <1>2, <2>1, <2>2 DEF InstallInStep, GitSteps, BrewSteps
  <2> QED BY <2>2, <2>3 DEF InstallInv
<1>7. CASE BrewInstall
  <2>1. /\ SpecDone /\ brew' = brew \cup {InHand.package} /\ "brew" \in brew
    BY <1>7 DEF BrewInstall, Advance, InstallInv, InstallInStep
  <2>2. PICK i : i = [spec |-> InHand, asked |-> asked] OBVIOUS
  <2>3. i.spec = InHand BY <2>2
  <2>4. Holds(i)' BY <1>2, <2>1, <2>3 DEF Holds
  <2> QED BY <1>1, <1>3, <1>4, <1>5, <2>1, <2>2, <2>4, Returns
<1> QED BY <1>6, <1>7

-----------------------------------------------------------------------------
LEMMA InstallStarts == ASSUME SeedInstallAssumption, InstallInit PROVE InstallInv
<1> USE DEF InstallInit
<1>1. InstallTypeOK BY DEF InstallTypeOK
<1>2. PlaceIsFree BY DEF PlaceIsFree
<1>3. InstallInStep BY DEF InstallInStep, GitSteps, BrewSteps
<1>4. InstalledAsAsked BY DEF InstalledAsAsked
<1> QED BY <1>1, <1>2, <1>3, <1>4 DEF InstallInv

LEMMA InstallSteps ==
  ASSUME SeedInstallAssumption, InstallInv, [InstallNext]_installVars
  PROVE  InstallInv'
<1>1. CASE UNCHANGED installVars
  <2> USE <1>1 DEF installVars
  <2>1. InHand' = InHand /\ Dest' = Dest /\ Copy' = Copy BY DEF InHand, Dest, Copy
  <2>2. InstallTypeOK' BY DEF InstallInv, InstallTypeOK
  <2>3. PlaceIsFree' BY <2>1 DEF InstallInv, PlaceIsFree
  <2>4. InstallInStep' BY <2>1 DEF InstallInv, InstallInStep, GitInStep
  <2>5. InstalledAsAsked' BY DEF InstallInv, InstalledAsAsked, AskedBranch
  <2> QED BY <2>2, <2>3, <2>4, <2>5 DEF InstallInv
<1>2. CASE InstallNext
  BY <1>2, BootStep, BeginSpecStep, StopStep, PushStep, GitCloneStep, GitUpdateSteps,
     CopySteps, BrewStepsHold DEF InstallNext
<1> QED BY <1>1, <1>2

\* Whatever the configured specs, and whatever boots, failures and crashes
\* came before, what Install says it has installed is there as it was asked
\* for, until another spec touches the place: the branch or ref at a version no
\* older than when the spec was begun, every file of the source, the package
\* (InstallAll, installGitHub, installWorkspaceCopy and installBrew).
THEOREM InstalledIsAsAsked == InstallationSpec => []InstalledAsAsked
<1>1. InstallInit => InstallInv BY InstallStarts, SeedInstallAssumption
<1>2. InstallInv /\ [InstallNext]_installVars => InstallInv' BY InstallSteps, SeedInstallAssumption
<1>3. InstallInv => InstalledAsAsked BY DEF InstallInv
<1> QED BY <1>1, <1>2, <1>3, PTL DEF InstallationSpec

-----------------------------------------------------------------------------
(* How Mirage knows its Ghosts *)

USE DEF Quiet

-----------------------------------------------------------------------------
(***************************************************************************)
(* A step of one connection that leaves the tables and the histories alone *)
(* changes what its request says.  The invariant then asks three things of *)
(* the new request: that it is well formed, that what it holds is so, and  *)
(* that no attach ends.                                                    *)
(***************************************************************************)
sharedVars == <<host, miragePhase, localGhost, executors, routes, moved, strayed>>

\* Only the entry of h changes, to a well-formed request.
LEMMA RequestSet ==
  ASSUME TablesOK, NEW h \in AdminConns, NEW r, RequestOK(r),
         request' = [request EXCEPT ![h] = r]
  PROVE  /\ request' \in [AdminConns -> {request'[k] : k \in AdminConns}]
         /\ request'[h] = r
         /\ \A k \in AdminConns \ {h} : request'[k] = request[k]
         /\ \A k \in AdminConns : RequestOK(request'[k])
<1>1. request' \in [AdminConns -> {request'[k] : k \in AdminConns}] BY DEF TablesOK
<1>2. request'[h] = r BY DEF TablesOK
<1>3. \A k \in AdminConns \ {h} : request'[k] = request[k] BY DEF TablesOK
<1>4. \A k \in AdminConns : RequestOK(request'[k]) BY <1>2, <1>3 DEF TablesOK
<1> QED BY <1>1, <1>2, <1>3, <1>4

\* A step of one connection between two changes of the tables.
LEMMA RequestMoves ==
  ASSUME ControlInv, NEW h \in AdminConns, NEW r,
         request' = [request EXCEPT ![h] = r],
         UNCHANGED sharedVars,
         intents' \subseteq IntentIDs,
         preload' \in Seq((AdminGhosts \cup {Nobody}) \X AdminAddrs),
         RequestOK(r),
         RequestInStep(r),
         \A g \in AdminGhosts : Attaching(h, g) => r.at \in {"bind", "route"} /\ r.id = g
  PROVE  ControlInv'
<1> USE DEF ControlInv, sharedVars
<1>1. /\ request' \in [AdminConns -> {request'[k] : k \in AdminConns}]
      /\ request'[h] = r
      /\ \A k \in AdminConns \ {h} : request'[k] = request[k]
      /\ \A k \in AdminConns : RequestOK(request'[k])
  BY RequestSet
<1>2. TablesOK' BY <1>1 DEF TablesOK, RequestOK, Stages
<1>3. \A k \in AdminConns : RequestInStep(request[k])'
  <2> TAKE k \in AdminConns
  <2>1. CASE k = h BY <2>1, <1>1 DEF RequestInStep
  <2>2. CASE k # h BY <2>2, <1>1 DEF RequestInStep
  <2> QED BY <2>1, <2>2
<1>4. \A g \in AdminGhosts, k \in AdminConns : Attaching(k, g) => Attaching(k, g)'
  BY <1>1 DEF Attaching
<1>5. RouteAgrees' BY <1>4 DEF RouteAgrees, RunsAt
<1> QED BY <1>2, <1>3, <1>5

-----------------------------------------------------------------------------
(* Ghosts that come and go, and the constructor *)

LEMMA MoveStep ==
  ASSUME ControlInv, ControlPlaneAssumption,
         NEW a \in AdminAddrs, NEW g \in AdminGhosts \cup {Nobody}, Move(a, g)
  PROVE  ControlInv'
<1> USE DEF ControlInv, Move, tableVars
<1>1. TablesOK'
  <2>1. host' \in [AdminAddrs -> AdminGhosts \cup {Nobody}] BY DEF TablesOK
  <2>2. UNCHANGED <<localGhost, preload, executors, routes, intents, request>> OBVIOUS
  <2> HIDE DEF Move
  <2> QED BY <2>1, <2>2 DEF TablesOK
<1>2. \A b \in AdminAddrs : host'[b] = host[b] \/ b \in moved' BY DEF TablesOK
<1>3. \A k \in AdminConns : RequestInStep(request[k])'
  BY <1>2 DEF RequestInStep, TablesOK, RequestOK
<1>4. RouteAgrees'
  <2>1. \A x \in AdminGhosts : executors[x] # Nobody =>
          host'[executors[x]] = host[executors[x]] \/ executors[x] \in moved'
    BY <1>2 DEF TablesOK
  <2> QED BY <2>1 DEF RouteAgrees, RunsAt, Attaching
<1> QED BY <1>1, <1>3, <1>4

LEMMA NewServiceStep ==
  ASSUME ControlInv, NewService
  PROVE  ControlInv'
<1> USE DEF ControlInv, NewService, controlHistory
<1>1. TablesOK' BY DEF TablesOK, RequestOK, Stages
<1>2. \A k \in AdminConns : RequestInStep(request[k])'
  <2> TAKE k \in AdminConns
  <2>0. miragePhase = "new" /\ request' = request /\ miragePhase' = "boot" OBVIOUS
  <2>a. RequestInStep(request[k]) OBVIOUS
  <2>1. request[k] = Quiet /\ request'[k] = Quiet BY <2>0, <2>a DEF RequestInStep
  <2>2. request'[k].at = "idle" BY <2>1
  <2> HIDE DEF NewService
  <2> QED BY <2>0, <2>2 DEF RequestInStep
<1>3. RouteAgrees'
  <2>1. CASE UNCHANGED <<executors, routes>> BY <2>1 DEF RouteAgrees, RunsAt, Attaching
  <2>2. CASE ~UNCHANGED <<executors, routes>>
    <3>1. /\ executors' = [executors EXCEPT ![localGhost[1]] = localGhost[2]]
          /\ routes' = [routes EXCEPT ![localGhost[1]] = localGhost[2]]
      BY <2>2
    <3>2. localGhost = <<localGhost[1], localGhost[2]>> BY DEF TablesOK
    <3>3. \A x \in AdminGhosts :
            IF x = localGhost[1] THEN executors'[x] = localGhost[2] /\ routes'[x] = localGhost[2]
            ELSE executors'[x] = executors[x] /\ routes'[x] = routes[x]
      BY <3>1 DEF TablesOK
    <3> QED BY <3>2, <3>3 DEF RouteAgrees, RunsAt, Attaching
  <2> QED BY <2>1, <2>2
<1> QED BY <1>1, <1>2, <1>3

LEMMA PreloadAttachStep ==
  ASSUME ControlInv, ControlPlaneAssumption, PreloadAttach
  PROVE  ControlInv'
<1> DEFINE r == [Quiet EXCEPT !.at = "status", !.addr = Head(preload)[2],
                              !.expected = Head(preload)[1]]
<1>1. Constructor \in AdminConns BY DEF ControlPlaneAssumption, Constructor
<1>2. /\ Head(preload) \in (AdminGhosts \cup {Nobody}) \X AdminAddrs
      /\ preload' \in Seq((AdminGhosts \cup {Nobody}) \X AdminAddrs)
  BY DEF PreloadAttach, ControlInv, TablesOK
<1>3. RequestOK(r) BY <1>2 DEF RequestOK, Stages
<1>4. RequestInStep(r) /\ request[Constructor] = Quiet
  <2>1. Head(preload)[2] \in AdminAddrs BY <1>2
  <2>2. r.at = "status" /\ r.addr # Nobody /\ miragePhase # "new"
    BY <2>1 DEF PreloadAttach, Constructing, ControlPlaneAssumption
  <2> QED BY <1>1, <2>2 DEF RequestInStep, PreloadAttach, Constructing
<1>5. /\ request' = [request EXCEPT ![Constructor] = r]
      /\ UNCHANGED sharedVars /\ intents' \subseteq IntentIDs
  BY DEF PreloadAttach, sharedVars, controlHistory, ControlInv, TablesOK
<1>6. \A g \in AdminGhosts : ~Attaching(Constructor, g) BY <1>4 DEF Attaching
<1> HIDE DEF r
<1> QED BY <1>1, <1>2, <1>3, <1>4, <1>5, <1>6, RequestMoves

LEMMA TransitionStep ==
  ASSUME ControlInv, NEW from, NEW to, Transition(from, to), to # "new"
  PROVE  ControlInv'
<1> USE DEF ControlInv, Transition, tableVars, controlHistory
<1>1. TablesOK' BY DEF TablesOK, RequestOK, Stages
<1>2. \A k \in AdminConns : RequestInStep(request[k])' BY DEF RequestInStep
<1>3. RouteAgrees' BY DEF RouteAgrees, RunsAt, Attaching
<1> QED BY <1>1, <1>2, <1>3

-----------------------------------------------------------------------------
(* A request that begins, waits, fails or ends *)

LEMMA BeginStep ==
  ASSUME ControlInv, NEW h \in AdminConns, NEW r, Begin(h, r), UNCHANGED <<intents, reports>>,
         RequestOK(r), RequestInStep(r)
  PROVE  ControlInv'
<1>1. /\ request' = [request EXCEPT ![h] = r]
      /\ UNCHANGED sharedVars /\ intents' \subseteq IntentIDs
      /\ preload' \in Seq((AdminGhosts \cup {Nobody}) \X AdminAddrs)
  BY DEF Begin, sharedVars, tableVars, ControlInv, TablesOK
<1>2. \A g \in AdminGhosts : ~Attaching(h, g) BY DEF Begin, Attaching
<1> QED BY <1>1, <1>2, RequestMoves

\* The requests a connection can make.
LEMMA BeginSteps ==
  ASSUME ControlInv, ControlPlaneAssumption, NEW h \in AdminConns,
         \/ \E a \in AdminAddrs : RequestAttach(h, a)
         \/ RequestSpawn(h)
         \/ RequestSnapshot(h)
         \/ \E i \in IntentIDs : RequestReconcile(h, {i})
         \/ RequestReconcile(h, intents)
  PROVE  ControlInv'
<1>1. miragePhase = "seeded" BY DEF RequestAttach, RequestSpawn, RequestSnapshot, RequestReconcile, Begin
<1>2. ASSUME NEW a \in AdminAddrs, RequestAttach(h, a) PROVE ControlInv'
  <2> DEFINE r == [Quiet EXCEPT !.at = "status", !.addr = a]
  <2>1. RequestOK(r) BY DEF RequestOK, Stages
  <2>2. RequestInStep(r) BY <1>1 DEF RequestInStep, ControlPlaneAssumption
  <2>3. Begin(h, r) /\ UNCHANGED <<intents, reports>> BY <1>2 DEF RequestAttach
  <2> HIDE DEF r
  <2> QED BY <2>1, <2>2, <2>3, BeginStep
<1>3. CASE RequestSpawn(h)
  <2> DEFINE r == [Quiet EXCEPT !.at = "spawn"]
  <2>1. RequestOK(r) BY DEF RequestOK, Stages
  <2>2. RequestInStep(r) BY <1>1 DEF RequestInStep
  <2>3. Begin(h, r) /\ UNCHANGED <<intents, reports>> BY <1>3 DEF RequestSpawn
  <2> HIDE DEF r
  <2> QED BY <2>1, <2>2, <2>3, BeginStep
<1>4. CASE RequestSnapshot(h)
  <2> DEFINE copy == {<<g, routes[g]>> : g \in {x \in AdminGhosts : routes[x] # Nobody}}
             r == [Quiet EXCEPT !.at = "probe", !.todo = copy]
  <2>1. copy \subseteq AdminGhosts \X AdminAddrs BY DEF ControlInv, TablesOK
  <2>2. Begin(h, r) /\ UNCHANGED <<intents, reports>> BY <1>4 DEF RequestSnapshot
  <2> HIDE DEF copy
  <2>3. RequestOK(r) BY <2>1 DEF RequestOK, Stages
  <2>4. RequestInStep(r) BY <1>1 DEF RequestInStep
  <2> HIDE DEF r
  <2> QED BY <2>2, <2>3, <2>4, BeginStep
<1>5. ASSUME NEW which \in SUBSET IntentIDs, RequestReconcile(h, which) PROVE ControlInv'
  <2> DEFINE r == [Quiet EXCEPT !.at = "reconcile", !.todo = which]
  <2>1. RequestOK(r) BY DEF RequestOK, Stages
  <2>2. RequestInStep(r) BY <1>1 DEF RequestInStep
  <2>3. Begin(h, r) /\ UNCHANGED <<intents, reports>> BY <1>5 DEF RequestReconcile
  <2> HIDE DEF r
  <2> QED BY <2>1, <2>2, <2>3, BeginStep
<1>6. intents \in SUBSET IntentIDs BY DEF ControlInv, TablesOK
<1>7. ASSUME NEW i \in IntentIDs, RequestReconcile(h, {i}) PROVE ControlInv'
  <2>1. {i} \in SUBSET IntentIDs OBVIOUS
  <2> QED BY <1>5, <1>7, <2>1
<1> QED BY <1>2, <1>3, <1>4, <1>5, <1>6, <1>7

\* A step that neither begins nor ends an attach.
LEMMA WaitStep ==
  ASSUME ControlInv, NEW h \in AdminConns, NEW r,
         request[h].at \notin {"bind", "route"},
         request' = [request EXCEPT ![h] = r],
         UNCHANGED <<host, miragePhase, tableVars, intents, moved, strayed>>,
         RequestOK(r), RequestInStep(r)
  PROVE  ControlInv'
<1>1. /\ UNCHANGED sharedVars /\ intents' \subseteq IntentIDs
      /\ preload' \in Seq((AdminGhosts \cup {Nobody}) \X AdminAddrs)
  BY DEF sharedVars, tableVars, ControlInv, TablesOK
<1>2. \A g \in AdminGhosts : ~Attaching(h, g) BY DEF Attaching
<1> QED BY <1>1, <1>2, RequestMoves

\* A well-formed request, field by field.
LEMMA RequestTyped ==
  ASSUME ControlInv, NEW h \in AdminConns
  PROVE  /\ RequestOK(request[h]) /\ RequestInStep(request[h])
         /\ RequestOK(Quiet) /\ RequestInStep(Quiet)
         /\ miragePhase = "new" => request[h].at = "idle"
<1>1. RequestOK(request[h]) /\ RequestInStep(request[h]) BY DEF ControlInv, TablesOK
<1>2. RequestOK(Quiet) BY DEF RequestOK, Stages
<1>3. RequestInStep(Quiet) BY DEF RequestInStep
<1>4. miragePhase = "new" => request[h] = Quiet BY <1>1 DEF RequestInStep
<1>5. Quiet.at = "idle" OBVIOUS
<1> HIDE DEF Quiet
<1> QED BY <1>1, <1>2, <1>3, <1>4, <1>5

LEMMA ReadStatusStep ==
  ASSUME ControlInv, ControlPlaneAssumption, NEW h \in AdminConns, ReadStatus(h)
  PROVE  ControlInv'
<1> DEFINE g == host[request[h].addr]
           r == [request[h] EXCEPT !.at = "register", !.id = g]
<1>1. /\ RequestOK(request[h]) /\ RequestInStep(request[h])
      /\ miragePhase = "new" => request[h].at = "idle"
  BY RequestTyped
<1>2. request[h].at = "status" /\ g # Nobody BY DEF ReadStatus
<1>3. request[h].addr \in AdminAddrs /\ g \in AdminGhosts
  BY <1>1, <1>2 DEF RequestOK, RequestInStep, ControlInv, TablesOK
<1>4. RequestOK(r) BY <1>1, <1>2, <1>3 DEF RequestOK, Stages
<1>5. r.at = "register" /\ r.id = g /\ r.addr = request[h].addr
  BY <1>1 DEF RequestOK
<1>6. RequestInStep(r) BY <1>1, <1>2, <1>3, <1>5 DEF RequestInStep, ControlPlaneAssumption
<1>7. request' = [request EXCEPT ![h] = r]
  <2>1. request \in [AdminConns -> {request[k] : k \in AdminConns}] BY DEF ControlInv, TablesOK
  <2> QED BY <2>1 DEF ReadStatus
<1>8. UNCHANGED <<host, miragePhase, tableVars, intents, moved, strayed>> BY DEF ReadStatus, controlHistory
<1> HIDE DEF r, g
<1> QED BY <1>2, <1>4, <1>6, <1>7, <1>8, WaitStep

LEMMA BindGhostToMirageStep ==
  ASSUME ControlInv, NEW h \in AdminConns, BindGhostToMirage(h)
  PROVE  ControlInv'
<1> DEFINE r == [request[h] EXCEPT !.at = "route"]
<1>1. /\ RequestOK(request[h]) /\ RequestInStep(request[h])
      /\ miragePhase = "new" => request[h].at = "idle"
  BY RequestTyped
<1>2. request[h].at \in {"bind", "bind spawned"} BY DEF BindGhostToMirage
<1>3. RequestOK(r) BY <1>1, <1>2 DEF RequestOK, Stages
<1>4. r.at = "route" /\ r.id = request[h].id /\ r.addr = request[h].addr
  BY <1>1 DEF RequestOK
<1>5. RequestInStep(r) BY <1>1, <1>2, <1>4 DEF RequestInStep
<1>6. request' = [request EXCEPT ![h] = r]
  BY DEF BindGhostToMirage, Goes, ControlInv, TablesOK
<1>7. /\ UNCHANGED sharedVars /\ intents' \subseteq IntentIDs
      /\ preload' \in Seq((AdminGhosts \cup {Nobody}) \X AdminAddrs)
  BY DEF BindGhostToMirage, sharedVars, controlHistory, tableVars, ControlInv, TablesOK
<1>8. \A g \in AdminGhosts : Attaching(h, g) => r.at \in {"bind", "route"} /\ r.id = g
  BY <1>4 DEF Attaching
<1> HIDE DEF r
<1> QED BY <1>3, <1>5, <1>6, <1>7, <1>8, RequestMoves

LEMMA ProbeSteps ==
  ASSUME ControlInv, ControlPlaneAssumption, NEW h \in AdminConns,
         ProbeGhost(h) \/ ProbeTimesOut(h) \/ SnapshotDone(h)
  PROVE  ControlInv'
<1>1. /\ RequestOK(request[h]) /\ RequestInStep(request[h])
      /\ RequestOK(Quiet) /\ RequestInStep(Quiet)
      /\ miragePhase = "new" => request[h].at = "idle"
  BY RequestTyped
<1>2. request[h].at = "probe" BY DEF ProbeGhost, ProbeTimesOut, SnapshotDone
<1>3. UNCHANGED <<host, miragePhase, tableVars, intents, moved, strayed>>
  BY DEF ProbeGhost, ProbeTimesOut, SnapshotDone, controlHistory
<1>4. ASSUME NEW left \in SUBSET request[h].todo
      PROVE  LET r == [request[h] EXCEPT !.todo = left]
             IN  RequestOK(r) /\ RequestInStep(r) /\ r.at = "probe"
  <2> DEFINE r == [request[h] EXCEPT !.todo = left]
  <2>1. RequestOK(r) BY <1>1, <1>2 DEF RequestOK
  <2>2. r.at = "probe" BY <1>1, <1>2 DEF RequestOK
  <2>3. RequestInStep(r) BY <1>1, <1>2, <2>2 DEF RequestInStep
  <2> QED BY <2>1, <2>2, <2>3
<1>5. CASE ProbeGhost(h)
  <2>1. PICK entry \in request[h].todo :
          LET answer == host[entry[2]]
              left == [request[h] EXCEPT !.todo = @ \ {entry}]
          IN  request' = [request EXCEPT ![h] = IF answer \in {Nobody, entry[1]} THEN left
                                                ELSE [left EXCEPT !.at = "rebind", !.id = answer,
                                                                  !.addr = entry[2]]]
    BY <1>5 DEF ProbeGhost
  <2> DEFINE rest == request[h].todo \ {entry}
             left == [request[h] EXCEPT !.todo = rest]
             r == [left EXCEPT !.at = "rebind", !.id = host[entry[2]], !.addr = entry[2]]
  <2>2. CASE host[entry[2]] \in {Nobody, entry[1]}
    <3>1. request' = [request EXCEPT ![h] = left] BY <2>1, <2>2
    <3>2. RequestOK(left) /\ RequestInStep(left) BY <1>4
    <3> HIDE DEF left
    <3> QED BY <1>2, <1>3, <3>1, <3>2, WaitStep
  <2>3. CASE host[entry[2]] \notin {Nobody, entry[1]}
    <3>1. request' = [request EXCEPT ![h] = r] BY <2>1, <2>3
    <3>2. entry \in AdminGhosts \X AdminAddrs BY <1>1, <1>2 DEF RequestOK
    <3>3. entry[2] \in AdminAddrs /\ host[entry[2]] \in AdminGhosts
      BY <3>2, <2>3 DEF ControlInv, TablesOK
    <3>4. RequestOK(r) BY <1>1, <1>2, <3>3 DEF RequestOK, Stages
    <3>5. r.at = "rebind" /\ r.id = host[entry[2]] /\ r.addr = entry[2] BY <1>1 DEF RequestOK
    <3>6. RequestInStep(r)
      BY <1>1, <1>2, <3>3, <3>5, <2>3 DEF RequestInStep, ControlPlaneAssumption
    <3> HIDE DEF r
    <3> QED BY <1>2, <1>3, <3>1, <3>4, <3>6, WaitStep
  <2> QED BY <2>2, <2>3
<1>6. CASE ProbeTimesOut(h)
  <2>1. PICK entry \in request[h].todo : request' = [request EXCEPT ![h].todo = @ \ {entry}]
    BY <1>6 DEF ProbeTimesOut
  <2> DEFINE rest == request[h].todo \ {entry}
             r == [request[h] EXCEPT !.todo = rest]
  <2>2. request' = [request EXCEPT ![h] = r] BY <2>1 DEF ControlInv, TablesOK
  <2>3. RequestOK(r) /\ RequestInStep(r) BY <1>4
  <2> HIDE DEF r
  <2> QED BY <1>2, <1>3, <2>2, <2>3, WaitStep
<1>7. CASE SnapshotDone(h)
  BY <1>1, <1>2, <1>3, <1>7, WaitStep DEF SnapshotDone, Answered
<1> QED BY <1>5, <1>6, <1>7

LEMMA ReconcileSteps ==
  ASSUME ControlInv, NEW h \in AdminConns, ReportMade(h) \/ AppendReport(h)
  PROVE  ControlInv'
<1>1. /\ RequestOK(request[h]) /\ RequestInStep(request[h])
      /\ RequestOK(Quiet) /\ RequestInStep(Quiet)
      /\ miragePhase = "new" => request[h].at = "idle"
  BY RequestTyped
<1>2. request[h].at \in {"reconcile", "append"} BY DEF ReportMade, AppendReport
<1>3. UNCHANGED <<host, miragePhase, tableVars, intents, moved, strayed>>
  BY DEF ReportMade, AppendReport, controlHistory
<1>4. ASSUME NEW at \in {"reconcile", "append"}, NEW left \in SUBSET request[h].todo
      PROVE  LET r == [request[h] EXCEPT !.at = at, !.todo = left]
             IN  RequestOK(r) /\ RequestInStep(r)
  <2> DEFINE r == [request[h] EXCEPT !.at = at, !.todo = left]
  <2>1. RequestOK(r) BY <1>1, <1>2 DEF RequestOK, Stages
  <2>2. r.at \in {"reconcile", "append"} BY <1>1 DEF RequestOK
  <2>3. RequestInStep(r) BY <1>1, <1>2, <2>2 DEF RequestInStep
  <2> QED BY <2>1, <2>3
<1>5. CASE ReportMade(h)
  <2> DEFINE r == [request[h] EXCEPT !.at = "append", !.todo = request[h].todo]
  <2>1. request' = [request EXCEPT ![h] = r]
    BY <1>1, <1>5 DEF ReportMade, Goes, ControlInv, TablesOK, RequestOK
  <2>2. RequestOK(r) /\ RequestInStep(r) BY <1>4
  <2> HIDE DEF r
  <2> QED BY <1>2, <1>3, <2>1, <2>2, WaitStep
<1>6. CASE AppendReport(h)
  <2> DEFINE left == request[h].todo \ {NextIntent(h)}
             r == [request[h] EXCEPT !.at = "reconcile", !.todo = left]
  <2>1. request' = [request EXCEPT ![h] = IF left = {} THEN Quiet ELSE r]
    BY <1>6 DEF AppendReport, ControlInv, TablesOK
  <2>2. RequestOK(r) /\ RequestInStep(r) BY <1>4
  <2> HIDE DEF r
  <2> QED BY <1>1, <1>2, <1>3, <2>1, <2>2, WaitStep
<1> QED BY <1>5, <1>6

LEMMA RequestFailsStep ==
  ASSUME ControlInv, NEW h \in AdminConns, RequestFails(h)
  PROVE  ControlInv'
<1>1. RequestOK(request[h]) /\ RequestInStep(request[h]) /\ RequestOK(Quiet)
  BY RequestTyped
<1>2. CASE request[h].at # "bind"
  <2>1. UNCHANGED <<host, miragePhase, tableVars, intents, moved, strayed>> /\ request[h].at # "route"
    BY <1>2 DEF RequestFails
  <2> QED BY <1>1, <1>2, <2>1, RequestTyped, WaitStep DEF RequestFails, Answered
<1>3. CASE request[h].at = "bind"
  <2>1. strayed' = strayed \cup {request[h].id} BY <1>3 DEF RequestFails
  <2>2. /\ request' \in [AdminConns -> {request'[k] : k \in AdminConns}]
        /\ request'[h] = Quiet
        /\ \A k \in AdminConns \ {h} : request'[k] = request[k]
        /\ \A k \in AdminConns : RequestOK(request'[k])
    BY <1>1, RequestSet DEF RequestFails, Answered, ControlInv
  <2>3. UNCHANGED <<host, miragePhase, tableVars, intents, moved>> BY DEF RequestFails
  <2>4. TablesOK' BY <2>2, <2>3 DEF ControlInv, TablesOK, RequestOK, tableVars
  <2>5. \A k \in AdminConns : RequestInStep(request[k])'
    <3> TAKE k \in AdminConns
    <3>1. RequestInStep(request[k]) /\ RequestInStep(Quiet) BY RequestTyped
    <3>2. request'[k] \in {Quiet, request[k]} BY <2>2
    <3> QED BY <3>1, <3>2, <2>1, <2>3 DEF RequestInStep, tableVars
  <2>6. RouteAgrees'
    <3>1. \A g \in AdminGhosts, k \in AdminConns : Attaching(k, g) => Attaching(k, g)' \/ g \in strayed'
      BY <2>1, <2>2 DEF Attaching
    <3> QED BY <2>1, <2>3, <3>1 DEF ControlInv, RouteAgrees, RunsAt, tableVars
  <2> QED BY <2>4, <2>5, <2>6 DEF ControlInv
<1> QED BY <1>2, <1>3

-----------------------------------------------------------------------------
(* The steps that change the tables *)

LEMMA RegisterExecutorStep ==
  ASSUME ControlInv, NEW h \in AdminConns, RegisterExecutor(h)
  PROVE  ControlInv'
<1> DEFINE r == [request[h] EXCEPT !.at = "bind"]
<1>1. /\ RequestOK(request[h]) /\ RequestInStep(request[h])
      /\ miragePhase = "new" => request[h].at = "idle"
  BY RequestTyped
<1>2. request[h].at = "register" BY DEF RegisterExecutor
<1>3. PICK g \in AdminGhosts, a \in AdminAddrs : g = request[h].id /\ a = request[h].addr
  BY <1>1, <1>2 DEF RequestOK, RequestInStep
<1>4. RequestOK(r) BY <1>1, <1>2 DEF RequestOK, Stages
<1>5. request' = [request EXCEPT ![h] = r] BY DEF RegisterExecutor, Goes, ControlInv, TablesOK
<1>6. /\ request' \in [AdminConns -> {request'[k] : k \in AdminConns}]
      /\ request'[h] = r
      /\ \A k \in AdminConns \ {h} : request'[k] = request[k]
      /\ \A k \in AdminConns : RequestOK(request'[k])
  <2> HIDE DEF r
  <2> QED BY <1>4, <1>5, RequestSet DEF ControlInv
<1>7. request'[h].at = "bind" /\ request'[h].id = g /\ request'[h].addr = a
  BY <1>1, <1>3, <1>6 DEF RequestOK
<1>8. /\ executors' = [executors EXCEPT ![g] = a]
      /\ executors' \in [AdminGhosts -> AdminAddrs \cup {Nobody}]
      /\ executors'[g] = a
      /\ \A x \in AdminGhosts \ {g} : executors'[x] = executors[x]
  BY <1>3 DEF RegisterExecutor, ControlInv, TablesOK
<1>9. /\ strayed \subseteq strayed'
      /\ \A i \in AdminConns : Attaching(i, g) => g \in strayed'
  BY <1>3 DEF RegisterExecutor
<1>10. UNCHANGED <<host, miragePhase, localGhost, preload, routes, intents, moved>>
  BY DEF RegisterExecutor
<1> HIDE DEF r
<1>11. TablesOK' BY <1>6, <1>8, <1>10 DEF ControlInv, TablesOK
<1>12. \A k \in AdminConns : RequestInStep(request[k])'
  <2> TAKE k \in AdminConns
  <2>1. CASE k = h
    BY <2>1, <1>1, <1>2, <1>3, <1>7, <1>8, <1>10 DEF RequestInStep
  <2>2. CASE k # h
    <3>1. RequestOK(request[k]) /\ RequestInStep(request[k]) BY RequestTyped
    <3>2. request'[k] = request[k] BY <1>6, <2>2
    <3>3. request[k].at \in {"bind", "route"} =>
            executors'[request[k].id] = request[k].addr \/ request[k].id \in strayed'
      <4> HAVE request[k].at \in {"bind", "route"}
      <4>1. request[k].id \in AdminGhosts BY <3>1 DEF RequestOK, RequestInStep
      <4>2. CASE request[k].id = g BY <1>9, <4>2 DEF Attaching
      <4>3. CASE request[k].id # g BY <1>8, <1>9, <3>1, <4>1, <4>3 DEF RequestInStep
      <4> QED BY <4>2, <4>3
    <3> QED BY <3>1, <3>2, <3>3, <1>9, <1>10 DEF RequestInStep
  <2> QED BY <2>1, <2>2
<1>13. RouteAgrees'
  <2>1. Attaching(h, g)' BY <1>7 DEF Attaching
  <2>2. \A x \in AdminGhosts \ {g}, k \in AdminConns : Attaching(k, x) => Attaching(k, x)'
    BY <1>2, <1>3, <1>6 DEF Attaching
  <2>3. \A x \in AdminGhosts : routes'[x] # executors'[x] =>
          x \in strayed' \/ \E k \in AdminConns : Attaching(k, x)'
    BY <2>1, <2>2, <1>8, <1>9, <1>10 DEF ControlInv, RouteAgrees
  <2>4. host[a] = g \/ a \in moved BY <1>1, <1>2, <1>3 DEF RequestInStep
  <2>5. \A x \in AdminGhosts :
          RunsAt(x)' \notin {Nobody, x} =>
            executors'[x] \in moved' \/ <<x, executors'[x]>> = localGhost'
    BY <2>4, <1>8, <1>10 DEF ControlInv, RouteAgrees, RunsAt
  <2> QED BY <2>3, <2>5 DEF RouteAgrees
<1> QED BY <1>11, <1>12, <1>13 DEF ControlInv

\* A route is set, by an attach that ends or by a probe that found another
\* Ghost.
LEMMA RouteSteps ==
  ASSUME ControlInv, NEW h \in AdminConns, FinishRoute(h) \/ RebindProbed(h)
  PROVE  ControlInv'
<1> DEFINE g == request[h].id
           a == request[h].addr
           again == [Quiet EXCEPT !.at = "probe", !.todo = request[h].todo]
<1>1. /\ RequestOK(request[h]) /\ RequestInStep(request[h]) /\ RequestOK(Quiet)
      /\ miragePhase = "new" => request[h].at = "idle"
  BY RequestTyped
<1>2. request[h].at \in {"route", "rebind"} BY DEF FinishRoute, RebindProbed
<1>3. g \in AdminGhosts /\ a \in AdminAddrs /\ miragePhase # "new"
  BY <1>1, <1>2 DEF RequestOK, RequestInStep
<1>4. UNCHANGED <<host, miragePhase, localGhost, preload, executors, intents, moved>>
  BY DEF FinishRoute, RebindProbed, controlHistory
<1>5. /\ routes' = [routes EXCEPT ![g] = a]
      /\ \A x \in strayed : x \in strayed'
      /\ executors[g] = a \/ g \in strayed'
  <2>1. CASE FinishRoute(h)
    BY <1>1, <2>1 DEF FinishRoute, BindGhostAdmin, RequestInStep, controlHistory
  <2>2. CASE RebindProbed(h) BY <2>2 DEF RebindProbed, BindGhostAdmin
  <2> QED BY <2>1, <2>2
<1>6. RequestOK(again) /\ again.at = "probe"
  BY <1>1, <1>2 DEF RequestOK, Stages
<1>7. PICK r \in {Quiet, again} : request' = [request EXCEPT ![h] = r]
  BY DEF FinishRoute, RebindProbed, Answered
<1>8. RequestOK(r) /\ r.at \in {"idle", "probe"}
  <2>1. Quiet.at = "idle" OBVIOUS
  <2> HIDE DEF Quiet, again
  <2> QED BY <1>1, <1>6, <1>7, <2>1
<1> HIDE DEF again
<1>9. /\ request' \in [AdminConns -> {request'[k] : k \in AdminConns}]
      /\ request'[h] = r
      /\ \A k \in AdminConns \ {h} : request'[k] = request[k]
      /\ \A k \in AdminConns : RequestOK(request'[k])
  BY <1>7, <1>8, RequestSet DEF ControlInv
<1>10. /\ routes' \in [AdminGhosts -> AdminAddrs \cup {Nobody}]
      /\ routes'[g] = a
      /\ \A x \in AdminGhosts \ {g} : routes'[x] = routes[x]
  BY <1>3, <1>5 DEF ControlInv, TablesOK
<1>11. TablesOK' BY <1>4, <1>9, <1>10 DEF ControlInv, TablesOK
<1>12. \A k \in AdminConns : RequestInStep(request[k])'
  <2> TAKE k \in AdminConns
  <2>1. CASE k = h
    <3>1. request'[k].at \in {"idle", "probe"} BY <1>8, <1>9, <2>1
    <3> QED BY <3>1, <1>3, <1>4 DEF RequestInStep
  <2>2. CASE k # h
    <3>1. RequestInStep(request[k]) /\ request'[k] = request[k] BY <1>9, <2>2, RequestTyped
    <3>2. UNCHANGED <<host, miragePhase, executors, moved>> BY <1>4
    <3> QED BY <1>3, <1>5, <3>1, <3>2 DEF RequestInStep
  <2> QED BY <2>1, <2>2
<1>13. RouteAgrees'
  <2>1. \A x \in AdminGhosts \ {g}, k \in AdminConns : Attaching(k, x) => Attaching(k, x)'
    BY <1>9 DEF Attaching
  <2>2. routes'[g] = executors'[g] \/ g \in strayed' BY <1>4, <1>5, <1>10
  <2>3. \A x \in AdminGhosts : routes'[x] # executors'[x] =>
          x \in strayed' \/ \E k \in AdminConns : Attaching(k, x)'
    BY <2>1, <2>2, <1>4, <1>5, <1>10 DEF ControlInv, RouteAgrees
  <2>4. \A x \in AdminGhosts :
          RunsAt(x)' \notin {Nobody, x} =>
            executors'[x] \in moved' \/ <<x, executors'[x]>> = localGhost'
    BY <1>4 DEF ControlInv, RouteAgrees, RunsAt
  <2> QED BY <2>3, <2>4 DEF RouteAgrees
<1> QED BY <1>11, <1>12, <1>13 DEF ControlInv

LEMMA SpawnLocalGhostStep ==
  ASSUME ControlInv, ControlPlaneAssumption, NEW h \in AdminConns,
         NEW g \in AdminGhosts, NEW a \in AdminAddrs, SpawnLocalGhost(h, g, a)
  PROVE  ControlInv'
<1> DEFINE r == [request[h] EXCEPT !.at = "bind spawned", !.id = g, !.addr = a]
<1>1. /\ RequestOK(request[h]) /\ RequestInStep(request[h])
      /\ miragePhase = "new" => request[h].at = "idle"
  BY RequestTyped
<1>2. request[h].at = "spawn" BY DEF SpawnLocalGhost
<1>3. RequestOK(r) BY <1>1, <1>2 DEF RequestOK, Stages
<1>4. request' = [request EXCEPT ![h] = r] BY DEF SpawnLocalGhost, ControlInv, TablesOK
<1>5. /\ request' \in [AdminConns -> {request'[k] : k \in AdminConns}]
      /\ request'[h] = r
      /\ \A k \in AdminConns \ {h} : request'[k] = request[k]
      /\ \A k \in AdminConns : RequestOK(request'[k])
  <2> HIDE DEF r
  <2> QED BY <1>3, <1>4, RequestSet DEF ControlInv
<1>6. request'[h].at = "bind spawned" /\ request'[h].id = g /\ request'[h].addr = a
  BY <1>1, <1>5 DEF RequestOK
<1>7. /\ host' \in [AdminAddrs -> AdminGhosts \cup {Nobody}]
      /\ \A b \in AdminAddrs : host'[b] = host[b] \/ b \in moved'
      /\ moved \subseteq moved' /\ strayed' = strayed \cup {g}
      /\ UNCHANGED <<miragePhase, localGhost, preload, executors, routes, intents>>
  BY DEF SpawnLocalGhost, tableVars, ControlInv, TablesOK
<1> HIDE DEF r
<1>8. TablesOK' BY <1>5, <1>7 DEF ControlInv, TablesOK
<1>9. \A k \in AdminConns : RequestInStep(request[k])'
  <2> TAKE k \in AdminConns
  <2>1. CASE k = h BY <2>1, <1>1, <1>2, <1>6, <1>7 DEF RequestInStep, ControlPlaneAssumption
  <2>2. CASE k # h
    <3>1. /\ RequestOK(request[k]) /\ RequestInStep(request[k])
          /\ request'[k] = request[k]
      BY <1>5, <2>2, RequestTyped
    <3>2. request[k].at = "register" =>
            host'[request[k].addr] = request[k].id \/ request[k].addr \in moved'
      BY <3>1, <1>7 DEF RequestOK, RequestInStep
    <3> QED BY <3>1, <3>2, <1>7 DEF RequestInStep
  <2> QED BY <2>1, <2>2
<1>10. RouteAgrees'
  <2>1. \A x \in AdminGhosts, k \in AdminConns : Attaching(k, x) => Attaching(k, x)'
    BY <1>2, <1>5 DEF Attaching
  <2>2. \A x \in AdminGhosts : executors[x] # Nobody =>
          host'[executors[x]] = host[executors[x]] \/ executors[x] \in moved'
    BY <1>7 DEF ControlInv, TablesOK
  <2> QED BY <2>1, <2>2, <1>7 DEF ControlInv, RouteAgrees, RunsAt
<1> QED BY <1>8, <1>9, <1>10 DEF ControlInv

LEMMA SubmitIntentStep ==
  ASSUME ControlInv, NEW h \in AdminConns, NEW i \in IntentIDs, SubmitIntent(h, i)
  PROVE  ControlInv'
<1>1. UNCHANGED <<host, miragePhase, tableVars, request, moved, strayed>> /\ intents' \subseteq IntentIDs
  BY DEF SubmitIntent, controlHistory, ControlInv, TablesOK
<1> USE DEF tableVars
<1>2. TablesOK' BY <1>1 DEF ControlInv, TablesOK
<1>3. \A k \in AdminConns : RequestInStep(request[k])' BY <1>1 DEF ControlInv, RequestInStep
<1>4. RouteAgrees' BY <1>1 DEF ControlInv, RouteAgrees, RunsAt, Attaching
<1> QED BY <1>2, <1>3, <1>4 DEF ControlInv

-----------------------------------------------------------------------------
(* The invariant *)

LEMMA ControlStarts == ControlInit /\ ControlPlaneAssumption => ControlInv
<1> SUFFICES ASSUME ControlInit, ControlPlaneAssumption PROVE ControlInv
  OBVIOUS
<1> USE DEF ControlInit, ControlPlaneAssumption
<1>1. TablesOK
  <2>1. \A h \in AdminConns : request[h] = Quiet OBVIOUS
  <2>2. RequestOK(Quiet) BY DEF RequestOK, Stages
  <2>3. request \in [AdminConns -> {request[h] : h \in AdminConns}] OBVIOUS
  <2> HIDE DEF Quiet
  <2> QED BY <2>1, <2>2, <2>3 DEF TablesOK
<1>2. \A h \in AdminConns : RequestInStep(request[h]) BY DEF RequestInStep
<1>3. RouteAgrees BY DEF RouteAgrees, RunsAt
<1> QED BY <1>1, <1>2, <1>3 DEF ControlInv

LEMMA ControlStep ==
  ASSUME ControlInv, ControlPlaneAssumption, [ControlNext]_controlVars
  PROVE  ControlInv'
<1>1. CASE UNCHANGED controlVars
  <2> USE <1>1 DEF controlVars, tableVars, controlHistory
  <2>1. TablesOK' BY DEF ControlInv, TablesOK
  <2>2. \A k \in AdminConns : RequestInStep(request[k])' BY DEF ControlInv, RequestInStep
  <2>3. RouteAgrees' BY DEF ControlInv, RouteAgrees, RunsAt, Attaching
  <2> QED BY <2>1, <2>2, <2>3 DEF ControlInv
<1>2. ASSUME NEW a \in AdminAddrs, NEW g \in AdminGhosts \cup {Nobody}, Move(a, g) PROVE ControlInv'
  BY <1>2, MoveStep
<1>3. CASE NewService BY <1>3, NewServiceStep
<1>4. CASE PreloadAttach BY <1>4, PreloadAttachStep
<1>5. CASE MirageAppear \/ MirageShimmer \/ MirageSeed
  BY <1>5, TransitionStep DEF MirageAppear, MirageShimmer, MirageSeed
<1>6. ASSUME NEW h \in AdminConns,
             \/ RequestFails(h)
             \/ \E a \in AdminAddrs : RequestAttach(h, a)
             \/ ReadStatus(h)
             \/ RegisterExecutor(h)
             \/ BindGhostToMirage(h)
             \/ FinishRoute(h)
             \/ RequestSpawn(h)
             \/ \E g \in AdminGhosts, a \in AdminAddrs : SpawnLocalGhost(h, g, a)
             \/ RequestSnapshot(h)
             \/ ProbeGhost(h)
             \/ RebindProbed(h)
             \/ ProbeTimesOut(h)
             \/ SnapshotDone(h)
             \/ \E i \in IntentIDs : SubmitIntent(h, i)
             \/ \E i \in IntentIDs : RequestReconcile(h, {i})
             \/ RequestReconcile(h, intents)
             \/ ReportMade(h)
             \/ AppendReport(h)
      PROVE  ControlInv'
  BY <1>6, RequestFailsStep, BeginSteps, ReadStatusStep, RegisterExecutorStep,
     BindGhostToMirageStep, RouteSteps, SpawnLocalGhostStep, ProbeSteps,
     SubmitIntentStep, ReconcileSteps
<1> QED BY <1>1, <1>2, <1>3, <1>4, <1>5, <1>6 DEF ControlNext

\* Whatever the Ghosts do at their addresses, and however the admin requests
\* interleave, the routes shown and the executors agree, and a command is run
\* by the Ghost it names, but for the histories RouteAgrees lists
\* (attachGhostAdmin, SnapshotConnectedGhosts and NewServiceWithConfig).
THEOREM RoutesAgree == ControlSpec => []RouteAgrees
<1>1. ControlSpec => []ControlInv
  <2>1. ControlInit => ControlInv BY ControlStarts, ControlPlaneAssumption
  <2>2. ControlInv /\ [ControlNext]_controlVars => ControlInv' BY ControlStep, ControlPlaneAssumption
  <2> QED BY <2>1, <2>2, PTL DEF ControlSpec
<1>2. ControlInv => RouteAgrees BY DEF ControlInv
<1> QED BY <1>1, <1>2, PTL
=============================================================================
