----------------------------- MODULE MCPrograms -----------------------------
(***************************************************************************)
(* Small instances, checked in one run, of the components that share no    *)
(* state with each other: `part` names the one whose behaviour this is, so *)
(* that the state space is the sum of theirs and not the product.          *)
(***************************************************************************)
EXTENDS CommandLine, WriterLease, SessionLog, RunRecord, SystemOperation, WorkflowRun, FileCommit,
        ProcessOutput, ToolSetup, EimInstall, ProjectConfig, ProjectInit, MCAdapter, BundlePublish

VARIABLE part

MCWrites == <<2, 1>>
MCChunks == {<<"x">>, <<"n">>, <<"x", "n", "n">>, <<"x", "h">>, <<"k", "r">>, <<"r", "r", "n">>}
MCPhysical == <<1, 2>>
MCPieces == {<<"x">>, <<"n">>, <<"x", "r">>, <<"n", "y", "x">>, <<"y", "x", "y", "x">>}
MCRules == [via : [{1, 2} -> 0 .. 3], reads : {<<1, 1>>, <<1, 2>>}, keeps : SUBSET {1, 2},
            script : {<<0, t>> : t \in 0 .. 2}, required : {{2}}]
MCComputers == [installed : {{1, 2}, {1}}, onPath : {{1, 2}, {1}, {}}, strays : {{}, {1}},
                project : {<<p, 0>> : p \in 0 .. 2}, global : {<<p, q>> : p \in 0 .. 2, q \in {0, 2}}]
MCValues == {<<1, 0>>, <<2, 0>>, <<0, 1>>, <<0, 2>>, <<1, 2>>}
MCCommands == Definitions
MCNamed ==
  "adapters" :> {"idf"} @@ "configured-devices" :> {"board", "down"} @@ "configured-systems" :> {"bench", "full"}
  @@ "device-capabilities" :> {"flash"} @@ "system-capabilities" :> {"flash"} @@ "runs" :> {"R1"} @@ "locks" :> {"L1"}
  @@ "approvals" :> {"A1"} @@ "upgrade-versions" :> {"9.9.9"}
MCScan == "usb" :> "idf"
MCConfigurable == "project.name" :> {} @@ "cli.locale" :> {"en"}
MCMembersOf == "bench" :> {"board"} @@ "full" :> {"board", "down"}
MCContent == "before" :> ("idf" :> 1 @@ "ti" :> 1) @@ "first" :> ("idf" :> 2 @@ "ti" :> 1) @@ "second" :> ("idf" :> 2 @@ "ti" :> 2)

Part == {"lease", "log", "run", "system", "work", "file", "output", "setup", "install", "progress",
         "config", "init", "cli", "adapter", "bundle"}

Init ==
  /\ LeaseInit /\ LogInit /\ RunInit /\ SystemInit /\ WorkInit /\ FileInit /\ OutputInit
  /\ SetupInit /\ InstallInit /\ ProgressInit /\ ConfigInit /\ FolderInit /\ CliInit
  /\ AdapterInit /\ PublishInit
  /\ part \in Part
  /\ part # "log" => spool.mode = "line"
  /\ part # "install" => directory.cached = Nothing
  /\ part # "config" => project = {}
  /\ part # "init" => ~folder.dir
  /\ part # "cli" => cli.argv = <<>> /\ cli.can
  /\ part # "bundle" => published = NoBuild

\* The parts that do not run.
Others(p) ==
  /\ part' = part
  /\ p # "lease" => UNCHANGED leaseVars
  /\ p # "log" => UNCHANGED logVars
  /\ p # "run" => UNCHANGED runVars
  /\ p # "system" => UNCHANGED systemVars
  /\ p # "work" => UNCHANGED workVars
  /\ p # "file" => UNCHANGED fileVars
  /\ p # "output" => UNCHANGED outputVars
  /\ p # "setup" => UNCHANGED setupVars
  /\ p # "install" => UNCHANGED installVars
  /\ p # "progress" => UNCHANGED progress
  /\ p # "config" => UNCHANGED configVars
  /\ p # "init" => UNCHANGED initVars
  /\ p # "cli" => UNCHANGED cliVars
  /\ p # "adapter" => UNCHANGED adapterVars
  /\ p # "bundle" => UNCHANGED bundleVars

Next ==
  \/ part = "lease" /\ LeaseNext /\ Others("lease")
  \/ part = "log" /\ LogNext /\ Others("log")
  \/ part = "run" /\ RunNext /\ Others("run")
  \/ part = "system" /\ SystemNext /\ Others("system")
  \/ part = "work" /\ WorkNext /\ Others("work")
  \/ part = "file" /\ FileNext /\ Others("file")
  \/ part = "output" /\ OutputNext /\ Others("output")
  \/ part = "setup" /\ SetupNext /\ Others("setup")
  \/ part = "install" /\ InstallNext /\ Others("install")
  \/ part = "progress" /\ ProgressNext /\ Others("progress")
  \/ part = "config" /\ ConfigNext /\ Others("config")
  \/ part = "init" /\ FolderNext /\ Others("init")
  \/ part = "cli" /\ CliNext /\ Others("cli")
  \/ part = "adapter" /\ AdapterNext /\ Others("adapter")
  \/ part = "bundle" /\ PublishNext /\ Others("bundle")

Spec == Init /\ [][Next]_<<leaseVars, logVars, runVars, systemVars, workVars, fileVars, outputVars,
                           setupVars, installVars, progress, configVars, initVars, cliVars,
                           adapterVars, bundleVars, part>>
=============================================================================
