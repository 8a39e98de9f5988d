------------------------------ MODULE SeedInstall ------------------------------
(***************************************************************************)
(* The installation of what seeds depend on, when a Ghost boots            *)
(* (src/internal/seeds/install.go; installSeedDependencies in              *)
(* src/internal/ghost/service.go).  InstallAll takes the configured specs  *)
(* in order and stops at the first that fails.  One spec is several        *)
(* commands (git, brew) or several files; any of them can fail, the Ghost  *)
(* can die between two of them, and what was done so far stays on disk for *)
(* the next boot, whose configuration may be another.                      *)
(*                                                                         *)
(* Abstractions.  Seed ids, destinations and sources that the checks       *)
(* before the first command refuse are those of Refused.  A repository is  *)
(* its branches, each with a version that only grows; a ref is the name of *)
(* a branch.  git itself is external: a clone leaves a whole working copy  *)
(* or nothing; a clone of a single branch knows no other branch; pull      *)
(* needs a current branch.  A command line is one action, which succeeds   *)
(* or, at any point, fails.  Nobody copies files over a clone.             *)
(***************************************************************************)
EXTENDS Naturals, Sequences, FiniteSets

CONSTANTS
  InstallSpecs,   \* bound: the install specs tried, see AnyInstallSpec
  BootPlans,      \* bound: the sequences of specs a boot may find configured
  Refused(_),     \* invalid id, not whitelisted, or outside install root or workspace
  Destinations,
  Repos,
  Branches,
  DefaultBranch,
  Files,          \* the files of a source tree, copied one at a time
  Packages,
  Unset,          \* the empty string
  MaxVersion,     \* bound: commits to a branch while the model runs
  MaxPushed,      \* bound: branches that get commits
  MaxBoots        \* bound

AnyInstallSpec ==
  [method : {"github", "workspace_copy", "brew"}, dest : Destinations, repo : Repos \cup {Unset},
   branch : Branches \cup {Unset}, ref : Branches \cup {Unset},
   source : SUBSET Files, package : Packages \cup {Unset}, tap : BOOLEAN, bootstrap : BOOLEAN]

ASSUME SeedInstallAssumption ==
  /\ InstallSpecs \subseteq AnyInstallSpec
  /\ BootPlans \subseteq Seq(InstallSpecs)
  /\ DefaultBranch \in Branches
  /\ Unset \notin Repos \cup Branches \cup Packages
  /\ {MaxVersion, MaxPushed, MaxBoots} \subseteq Nat

VARIABLES
  upstream,    \* upstream[r][b]: the version of branch b in repository r
  disk,        \* what is at each destination
  brew,        \* what brew installed, and "brew" itself; empty without brew
  queue,       \* the specs still to install, the first one in hand
  step,       \* where Install is with it; idle between two boots
  fetchHead,   \* FETCH_HEAD: a branch and the version fetched
  asked,       \* history: upstream[repo] when the spec in hand was begun
  result,      \* of the last InstallAll: none, ok or error
  installed,   \* history: for each destination the last spec that succeeded there
  boots        \* history

installVars == <<upstream, disk, brew, queue, step, fetchHead, asked, result, installed, boots>>

Absent == [kind |-> "absent"]

Clone(r, tracked, b) ==
  [kind |-> "git", repo |-> r, tracked |-> tracked, head |-> b, at |-> <<b, upstream[r][b]>>]

Nowhere == <<Unset, 0>>

InstallInit ==
  /\ upstream = [r \in Repos |-> [b \in Branches |-> 0]]
  /\ disk = [d \in Destinations |-> Absent]
  /\ brew \in {{}, {"brew"}}
  /\ queue = <<>>
  /\ step = "idle"
  /\ fetchHead = Nowhere
  /\ asked = {}
  /\ result = "none"
  /\ installed = {}
  /\ boots = 0

InHand == Head(queue)
Dest == InHand.dest
Copy == disk[Dest]

-----------------------------------------------------------------------------
(* InstallAll *)

Boot(specs) ==
  /\ step = "idle"
  /\ boots < MaxBoots
  /\ boots' = boots + 1
  /\ queue' = specs
  /\ step' = IF specs = <<>> THEN "idle" ELSE "begin"
  /\ result' = IF specs = <<>> THEN "ok" ELSE "none"
  /\ UNCHANGED <<upstream, disk, brew, fetchHead, asked, installed>>

FirstStage ==
  CASE InHand.method = "github" -> IF Copy = Absent THEN "clone" ELSE "update"
    [] InHand.method = "workspace_copy" -> "copy"
    [] OTHER -> "brew"

\* Whatever must be set for the method is, and what is at the destination is
\* a git repository if git is to update it.
Acceptable ==
  /\ ~ Refused(InHand)
  /\ InHand.method = "github" => InHand.repo # Unset /\ Copy.kind \in {"absent", "git"}
  /\ InHand.method = "brew" => InHand.package # Unset

\* Install, up to the first command.
BeginSpec ==
  /\ step = "begin"
  /\ Acceptable
  /\ step' = FirstStage
  /\ asked' = IF InHand.repo = Unset THEN {}
              ELSE {[at |-> upstream[InHand.repo],
                     found |-> IF Copy.kind = "git" THEN Copy.repo ELSE InHand.repo]}
  /\ installed' = {i \in installed : i.spec.dest # Dest}
  /\ UNCHANGED <<upstream, disk, brew, queue, fetchHead, result, boots>>

\* A check or a command fails: InstallAll returns the error.
InstallFails ==
  /\ step # "idle"
  /\ step' = "idle"
  /\ queue' = <<>>
  /\ result' = "error"
  /\ UNCHANGED <<upstream, disk, brew, fetchHead, asked, installed, boots>>

\* The Ghost dies; the next boot finds the disk as it is.
Crash ==
  /\ step # "idle"
  /\ step' = "idle"
  /\ queue' = <<>>
  /\ result' = "none"
  /\ UNCHANGED <<upstream, disk, brew, fetchHead, asked, installed, boots>>

\* Install returns nil for the spec in hand.
SpecDone ==
  /\ installed' = installed \cup {[spec |-> InHand, asked |-> asked]}
  /\ queue' = Tail(queue)
  /\ step' = IF Len(queue) = 1 THEN "idle" ELSE "begin"
  /\ result' = IF Len(queue) = 1 THEN "ok" ELSE "none"

\* The command in hand succeeds, the destination is now wc, and Install goes
\* on with step next or is done.
Advance(next, wc) ==
  /\ disk' = [disk EXCEPT ![Dest] = wc]
  /\ IF next = "done" THEN SpecDone
     ELSE step' = next /\ UNCHANGED <<queue, result, installed>>
  /\ UNCHANGED <<upstream, asked, boots>>

-----------------------------------------------------------------------------
(* installGitHub *)

\* Mutation: a fresh clone is not taken to the ref.
AfterCloneDone == "done"

AfterClone == IF InHand.ref = Unset THEN "done" ELSE "fetch ref"

GitClone ==
  /\ step = "clone"
  /\ Advance(AfterClone,
             IF InHand.branch = Unset THEN Clone(InHand.repo, Branches, DefaultBranch)
             ELSE Clone(InHand.repo, {InHand.branch}, InHand.branch))
  /\ UNCHANGED <<brew, fetchHead>>

\* git fetch --all --prune: from the repository the copy was cloned from.
GitFetchAll ==
  /\ step = "update"
  /\ Advance(IF InHand.branch # Unset THEN "checkout"
             ELSE IF InHand.ref # Unset THEN "fetch ref" ELSE "pull", Copy)
  /\ UNCHANGED <<brew, fetchHead>>

\* The branch comes up at the version it was last left at.
GitCheckout ==
  /\ step = "checkout"
  /\ InHand.branch \in Copy.tracked
  /\ \E v \in 0 .. upstream[Copy.repo][InHand.branch] :
       Advance("pull branch", [Copy EXCEPT !.head = InHand.branch, !.at = <<InHand.branch, v>>])
  /\ UNCHANGED <<brew, fetchHead>>

GitPullBranch ==
  /\ step = "pull branch"
  /\ Advance(IF InHand.ref # Unset THEN "fetch ref" ELSE "done",
             [Copy EXCEPT !.at = <<InHand.branch, upstream[Copy.repo][InHand.branch]>>])
  /\ UNCHANGED <<brew, fetchHead>>

GitFetchRef ==
  /\ step = "fetch ref"
  /\ fetchHead' = <<InHand.ref, upstream[Copy.repo][InHand.ref]>>
  /\ Advance("checkout ref", Copy)
  /\ UNCHANGED brew

\* checkout FETCH_HEAD leaves no current branch.
GitCheckoutRef ==
  /\ step = "checkout ref"
  /\ Advance("done", [Copy EXCEPT !.head = Unset, !.at = fetchHead])
  /\ UNCHANGED <<brew, fetchHead>>

GitPull ==
  /\ step = "pull"
  /\ Copy.head # Unset
  /\ Advance("done", [Copy EXCEPT !.at = <<Copy.head, upstream[Copy.repo][Copy.head]>>])
  /\ UNCHANGED <<brew, fetchHead>>

-----------------------------------------------------------------------------
(* installWorkspaceCopy and installBrew *)

\* Files already there stay, also those the source does not have.
Copied == IF Copy.kind = "files" THEN Copy.files ELSE {}

CopyFile(f) ==
  /\ step = "copy"
  /\ Copy.kind \in {"absent", "files"}
  /\ f \in InHand.source
  /\ LET files == Copied \cup {f}
     IN  Advance("copy", [kind |-> "files", files |-> files])
  /\ disk' # disk
  /\ UNCHANGED <<brew, fetchHead>>

\* WalkDir has come to its end.
CopyDone ==
  /\ step = "copy"
  /\ InHand.source \subseteq Copied
  /\ Advance("done", [kind |-> "files", files |-> Copied])
  /\ UNCHANGED <<brew, fetchHead>>

\* checkBrewVersion; without brew, the bootstrap command if it is asked for,
\* and the check again.
EnsureBrew ==
  /\ step = "brew"
  /\ "brew" \in brew \/ InHand.bootstrap
  /\ brew' = brew \cup {"brew"}
  /\ Advance(IF InHand.tap THEN "tap" ELSE "brew install", Copy)
  /\ UNCHANGED fetchHead

BrewTap ==
  /\ step = "tap"
  /\ Advance("brew install", Copy)
  /\ UNCHANGED <<brew, fetchHead>>

BrewInstall ==
  /\ step = "brew install"
  /\ brew' = brew \cup {InHand.package}
  /\ Advance("done", Copy)
  /\ UNCHANGED fetchHead

\* Somebody pushes to a branch.
Push(r, b) ==
  /\ upstream[r][b] < MaxVersion
  /\ Cardinality({p \in Repos \X Branches : p # <<r, b>> /\ upstream[p[1]][p[2]] > 0}) < MaxPushed
  /\ upstream' = [upstream EXCEPT ![r][b] = @ + 1]
  /\ UNCHANGED <<disk, brew, queue, step, fetchHead, asked, result, installed, boots>>

InstallNext ==
  \/ \E specs \in BootPlans : Boot(specs)
  \/ BeginSpec \/ InstallFails \/ Crash
  \/ GitClone \/ GitFetchAll \/ GitCheckout \/ GitPullBranch
  \/ GitFetchRef \/ GitCheckoutRef \/ GitPull
  \/ \E f \in Files : CopyFile(f)
  \/ CopyDone
  \/ EnsureBrew \/ BrewTap \/ BrewInstall
  \/ \E r \in Repos, b \in Branches : Push(r, b)

InstallationSpec == InstallInit /\ [][InstallNext]_installVars

-----------------------------------------------------------------------------
\* The branch a spec asks for; where it names none, the one the copy is on.
AskedBranch(spec, wc) ==
  IF spec.ref # Unset THEN spec.ref ELSE IF spec.branch # Unset THEN spec.branch ELSE wc.head

\* When Install returned without error, and until another spec touches the
\* place, the destination holds what was asked for: the branch or ref, at a
\* version no older than when the spec was begun, whatever boots, failures
\* and crashes came before; every file of the source; the package.  Only the
\* repository may be another one: the code never compares it with the one an
\* existing copy was cloned from (installGitHub, installWorkspaceCopy and
\* installBrew, install.go:169-289).
InstalledAsAsked ==
  \A i \in installed :
    LET wc == disk[i.spec.dest]
    IN  CASE i.spec.method = "github" ->
               \A a \in i.asked :
                 /\ wc.kind = "git"
                 /\ wc.repo = a.found
                 /\ wc.at[1] = AskedBranch(i.spec, wc)
                 /\ wc.repo = i.spec.repo => wc.at[2] >= a.at[wc.at[1]]
          [] i.spec.method = "workspace_copy" ->
               wc.kind = "files" /\ i.spec.source \subseteq wc.files
          [] OTHER -> {"brew", i.spec.package} \subseteq brew

-----------------------------------------------------------------------------
(***************************************************************************)
(* Why it holds: the parts of the inductive invariant.                     *)
(***************************************************************************)
GitSteps == {"clone", "update", "checkout", "pull branch", "fetch ref", "checkout ref", "pull"}
BrewSteps == {"brew", "tap", "brew install"}

WorkingCopies ==
  [kind : {"git"}, repo : Repos, tracked : SUBSET Branches, head : Branches \cup {Unset},
   at : Branches \X Nat]

FileTrees == [kind : {"files"}, files : SUBSET Files]

Wishes == [at : [Branches -> Nat], found : Repos]

InstallTypeOK ==
  /\ upstream \in [Repos -> [Branches -> Nat]]
  /\ disk \in [Destinations -> {Absent} \cup WorkingCopies \cup FileTrees]
  /\ queue \in Seq(InstallSpecs)
  /\ step \in {"idle", "begin", "copy"} \cup GitSteps \cup BrewSteps
  /\ step = "idle" <=> queue = <<>>
  /\ asked \subseteq Wishes
  /\ installed \subseteq [spec : InstallSpecs, asked : SUBSET Wishes]

\* The spec in hand has no earlier result left to spoil at its place.
PlaceIsFree == step \notin {"idle", "begin"} => \A i \in installed : i.spec.dest # Dest

\* What git has done so far for the spec in hand: the copy is of the
\* repository it was found to be of, and what was fetched for a ref of the
\* spec's own repository is no older than when the spec was begun.
GitInStep(a) ==
  /\ \A b \in Branches : a.at[b] <= upstream[InHand.repo][b]
  /\ step = "clone" => a.found = InHand.repo
  /\ step # "clone" => Copy \in WorkingCopies /\ Copy.repo = a.found
  /\ step \in {"checkout", "pull branch"} => InHand.branch # Unset
  /\ step \in {"fetch ref", "checkout ref"} => InHand.ref # Unset
  /\ step = "pull" => InHand.branch = Unset /\ InHand.ref = Unset
  /\ step = "checkout ref" =>
       /\ fetchHead \in {InHand.ref} \X Nat
       /\ Copy.repo = InHand.repo => fetchHead[2] >= a.at[InHand.ref]

InstallInStep ==
  /\ step \in GitSteps =>
       /\ InHand.method = "github" /\ InHand.repo # Unset
       /\ \E a \in asked : asked = {a} /\ GitInStep(a)
  /\ step = "copy" => InHand.method = "workspace_copy"
  /\ step \in BrewSteps => InHand.method = "brew"
  /\ step \in {"tap", "brew install"} => "brew" \in brew

InstallInv ==
  /\ InstallTypeOK
  /\ PlaceIsFree
  /\ InstallInStep
  /\ InstalledAsAsked
=============================================================================
