-------------------------------- MODULE MCFleet --------------------------------
(***************************************************************************)
(* What a fleet of Ghosts stands on, on small instances: how a Ghost takes *)
(* and executes commands, how Mirage knows its Ghosts, how seed            *)
(* dependencies are installed, and what seed operations do.  The four      *)
(* share nothing, so one run takes them in turn: part says which of them a *)
(* behaviour is about.  Init, Next, vars and Fairness are GhostServer's.   *)
(***************************************************************************)
EXTENDS GhostServer, ControlPlane, SeedInstall, SeedOps, TLC

-----------------------------------------------------------------------------
(* ControlPlane: a Mirage with and without a local Ghost; preloads that are *)
(* right, wrong and without an expectation.                                 *)

MCHosts == {("a1" :> "g1") @@ ("a2" :> g) : g \in {"", "g2"}}

MCLocalGhosts == {<<"", "">>, <<"g1", "a1">>}

MCPreloads == {<<>>, <<<<"g1", "a1">>, <<"g2", "a1">>, <<"", "a2">>>>}

-----------------------------------------------------------------------------
(* SeedInstall: a clone with every combination of branch and ref, one of   *)
(* another repository at the same place, a copy of a tree that grows and   *)
(* shrinks or is missing, and brew with and without bootstrap.              *)

Git(branch, ref, repo) ==
  [method |-> "github", dest |-> "d", repo |-> repo, branch |-> branch, ref |-> ref,
   source |-> {}, package |-> "", tap |-> FALSE, bootstrap |-> FALSE]

CopyOf(source) == [Git("", "", "") EXCEPT !.method = "workspace_copy", !.dest = "c", !.source = source]

Brew(tap, bootstrap) ==
  [Git("", "", "") EXCEPT !.method = "brew", !.package = "p", !.tap = tap, !.bootstrap = bootstrap]

MCInstallSpecs ==
  {Git(b, r, "r1") : b \in {"", "x"}, r \in {"", "y"}}
  \cup {Git("x", "", "r2"), Git("", "", ""), CopyOf({}), CopyOf({"f"}), CopyOf({"f", "g"}),
        Brew(TRUE, FALSE), Brew(FALSE, TRUE)}

MCBootPlans ==
  {<<s>> : s \in MCInstallSpecs} \cup {<<Git("x", "y", "r1"), CopyOf({"f"})>>}

MCRefused(s) == s.method = "workspace_copy" /\ s.source = {}

-----------------------------------------------------------------------------
(* SeedOps: a root with a directory and a file in it, a path that is       *)
(* refused, and lists of ids that build a registry and that do not.        *)

MCPathNode == ("/abs" :> "out") @@ ("." :> ".") @@ ("a" :> "a") @@ ("a/b" :> "a/b")

MCParentNode == ("." :> "out") @@ ("a" :> ".") @@ ("a/b" :> "a")

MCSeedLists ==
  {<<"flow", "kv", "seed.fs", "mongod", "none", "kv">>, <<"kv", "seed.kv">>, <<"seed.x">>}

-----------------------------------------------------------------------------
VARIABLE part

fleetVars == <<part, vars, controlVars, installVars, seedVars>>

MCInit ==
  /\ part \in {"server", "control", "install", "seeds"}
  /\ Init /\ ControlInit /\ InstallInit /\ SeedOpsInit
  /\ part # "control" =>
       /\ host = CHOOSE h \in Hosts : TRUE
       /\ localGhost = CHOOSE g \in LocalGhosts : TRUE
       /\ preload = <<>>
       /\ spawner = CHOOSE s \in Spawners : TRUE
  /\ part # "install" => brew = {}

ServerStep ==
  /\ part = "server"
  /\ Next
  /\ UNCHANGED <<part, controlVars, installVars, seedVars>>

ControlStep ==
  /\ part = "control"
  /\ ControlNext
  /\ UNCHANGED <<part, vars, installVars, seedVars>>

InstallStep ==
  /\ part = "install"
  /\ InstallNext
  /\ UNCHANGED <<part, vars, controlVars, seedVars>>

SeedOpsStep ==
  /\ part = "seeds"
  /\ SeedOpsNext
  /\ UNCHANGED <<part, vars, controlVars, installVars>>

MCNext == ServerStep \/ ControlStep \/ InstallStep \/ SeedOpsStep

\* Fairness is GhostServer's; without an accepted command it asks nothing.
MCSpec == MCInit /\ [][MCNext]_fleetVars /\ Fairness
=============================================================================
