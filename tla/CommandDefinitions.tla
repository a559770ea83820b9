-------------------------- MODULE CommandDefinitions --------------------------
(***************************************************************************)
(* The commands that application/commands/definitions.ts declares: their   *)
(* words, their options and what they ask for.  Texts, output formats and  *)
(* the order of menus are left out.                                        *)
(***************************************************************************)
EXTENDS Naturals, Sequences

\* The kind of a segment is its priority.
Lit(word) == [kind |-> 4, name |-> word]
Res(provider) == [kind |-> 3, name |-> provider]
Cap(provider) == [kind |-> 2, name |-> provider]
Arg(field) == [kind |-> 1, name |-> field]
Segment == [kind : 1 .. 4, name : STRING]

\* A command takes words for its segments, at most one of them for all that
\* follow (rest), and options.  It asks for what is missing, or never does.
Leaf(id, parent, path) ==
  [id |-> id, parent |-> parent, path |-> path, handler |-> id, rest |-> "none",
   options |-> {}, required |-> {}, asks |-> FALSE]
CommandRecord ==
  [id : STRING, parent : STRING, path : Seq(Segment), handler : STRING, rest : {"none", "optional", "required"},
   options : SUBSET STRING, required : SUBSET STRING, asks : BOOLEAN]
Branch(id, parent, path) == [Leaf(id, parent, path) EXCEPT !.handler = "none", !.asks = TRUE]
Asking(command) == [command EXCEPT !.asks = TRUE]

BooleanGlobals == {"json", "jsonl", "quiet", "verbose", "dry-run", "agent", "color", "help", "version"}
GlobalOptions == BooleanGlobals \cup {"timeout", "config", "session"}
ScopeOptions == {"local", "project", "global"}

StartCommands ==
  {[Asking(Leaf("init", "none", <<Lit("init")>>)) EXCEPT !.handler = "init.execute",
      !.options = {"project-name", "locale", "adapter"}, !.required = {"project-name"}],
   [Leaf("doctor", "none", <<Lit("doctor")>>) EXCEPT !.handler = "doctor.execute", !.options = {"save"}]}

LanguageCommands ==
  {Branch("language", "none", <<Lit("language")>>),
   Leaf("language.list", "language", <<Lit("language"), Lit("list")>>),
   Leaf("language.get", "language", <<Lit("language"), Lit("get")>>),
   Asking(Leaf("language.set", "language", <<Lit("language"), Lit("set"), Arg("locale")>>))}

ConfigCommands ==
  {Branch("config", "none", <<Lit("config")>>),
   [Asking(Leaf("config.get", "config", <<Lit("config"), Lit("get"), Arg("key")>>)) EXCEPT !.options = {"show-origin"}],
   [Asking(Leaf("config.set", "config", <<Lit("config"), Lit("set"), Arg("key"), Arg("value")>>))
      EXCEPT !.options = ScopeOptions],
   [Asking(Leaf("config.unset", "config", <<Lit("config"), Lit("unset"), Arg("key")>>)) EXCEPT !.options = ScopeOptions],
   Leaf("config.resolved", "config", <<Lit("config"), Lit("resolved")>>),
   Leaf("config.validate", "config", <<Lit("config"), Lit("validate")>>),
   Asking(Leaf("config.explain", "config", <<Lit("config"), Lit("explain"), Arg("key")>>))}

AdapterPath == <<Lit("adapter"), Res("adapters")>>
AdapterCommands ==
  {Branch("adapter", "none", <<Lit("adapter")>>),
   Leaf("adapter.list", "adapter", <<Lit("adapter"), Lit("list")>>),
   Branch("adapter.resource", "adapter", AdapterPath)}
  \cup {Leaf(a[1], "adapter.resource", Append(AdapterPath, Lit(a[2]))) :
          a \in {<<"adapter.show", "show">>, <<"adapter.doctor", "doctor">>, <<"adapter.discover", "discover">>,
                 <<"adapter.enable", "enable">>, <<"adapter.disable", "disable">>}}
  \cup {Asking(Leaf("adapter.configure", "adapter.resource", Append(AdapterPath, Lit("configure")))),
        [Asking(Leaf("adapter.install", "adapter.resource", Append(AdapterPath, Lit("install")))) EXCEPT !.options = {"root"}]}

DevicePath == <<Lit("device"), Res("configured-devices")>>
DeviceCommands ==
  {Branch("device", "none", <<Lit("device")>>),
   Leaf("device.list", "device", <<Lit("device"), Lit("list")>>),
   [Leaf("device.scan", "device", <<Lit("device"), Lit("scan")>>) EXCEPT !.options = {"adapter"}],
   [Asking(Leaf("device.add", "device", <<Lit("device"), Lit("add")>>)) EXCEPT
      !.options = {"adapter", "identity", "name", "port"}, !.required = {"adapter", "identity", "name"}],
   Asking(Leaf("device.remove", "device", <<Lit("device"), Lit("remove"), Arg("device")>>)),
   Branch("device.resource", "device", DevicePath),
   Leaf("device.execute", "device.resource", Append(DevicePath, Cap("device-capabilities")))}

SystemPath == <<Lit("system"), Res("configured-systems")>>
SystemCommands ==
  {Branch("system", "none", <<Lit("system")>>),
   Leaf("system.list", "system", <<Lit("system"), Lit("list")>>),
   [Asking(Leaf("system.create", "system", <<Lit("system"), Lit("create"), Arg("name"), Arg("devices")>>))
      EXCEPT !.rest = "required"],
   Asking(Leaf("system.delete", "system", <<Lit("system"), Lit("delete"), Arg("system")>>)),
   Branch("system.member", "system", <<Lit("system"), Lit("member")>>),
   Branch("system.resource", "system", SystemPath),
   Leaf("system.show", "system.resource", Append(SystemPath, Lit("show"))),
   Leaf("system.execute", "system.resource", Append(SystemPath, Cap("system-capabilities")))}
  \cup {Leaf(a[1], "system.member", <<Lit("system"), Lit("member"), Lit(a[2]), Arg("system"), Arg("device")>>) :
          a \in {<<"system.member.add", "add">>, <<"system.member.remove", "remove">>}}

RunPath == <<Lit("run"), Res("runs")>>
PruneModes == {"keep", "older-than", "dangerously-remove-all-runs"}
RunCommands ==
  {Branch("run", "none", <<Lit("run")>>),
   [Leaf("run.list", "run", <<Lit("run"), Lit("list")>>) EXCEPT !.options = {"status", "limit"}],
   [Leaf("run.prune", "run", <<Lit("run"), Lit("prune")>>) EXCEPT !.options = PruneModes],
   Branch("run.resource", "run", RunPath)}
  \cup {Leaf(a[1], "run.resource", Append(RunPath, Lit(a[2]))) :
          a \in {<<"run.show", "show">>, <<"run.logs", "logs">>, <<"run.artifacts", "artifacts">>}}

LockPath == <<Lit("lock"), Res("locks")>>
ClearActive == "dangerously-clear-active-lock"
ClearQuarantined == "dangerously-clear-quarantined-lock"
LockCommands ==
  {Branch("lock", "none", <<Lit("lock")>>),
   Leaf("lock.list", "lock", <<Lit("lock"), Lit("list")>>),
   Leaf("lock.clear-stale", "lock", <<Lit("lock"), Lit("clear-stale")>>),
   Branch("lock.resource", "lock", LockPath),
   Leaf("lock.show", "lock.resource", Append(LockPath, Lit("show"))),
   Leaf("lock.inspect", "lock.resource", Append(LockPath, Lit("inspect"))),
   [Asking(Leaf("lock.clear", "lock.resource", Append(LockPath, Lit("clear")))) EXCEPT
      !.options = {ClearActive, ClearQuarantined}]}

ApprovalPath == <<Lit("approval"), Res("approvals")>>
ApprovalCommands ==
  {Branch("approval", "none", <<Lit("approval")>>),
   Leaf("approval.list", "approval", <<Lit("approval"), Lit("list")>>),
   Branch("approval.resource", "approval", ApprovalPath),
   Leaf("approval.inspect", "approval.resource", Append(ApprovalPath, Lit("inspect"))),
   Asking(Leaf("approval.approve", "approval.resource", Append(ApprovalPath, Lit("approve")))),
   Asking(Leaf("approval.reject", "approval.resource", Append(ApprovalPath, Lit("reject"))))}

OtherCommands ==
  {[Leaf("help", "none", <<Lit("help"), Arg("path")>>) EXCEPT !.handler = "help.show", !.rest = "optional", !.options = {"all"}],
   [Asking(Leaf("home", "none", <<Lit("home")>>)) EXCEPT !.handler = "home.show"],
   [Leaf("version", "none", <<Lit("version")>>) EXCEPT !.handler = "version.show"],
   Branch("upgrade", "none", <<Lit("upgrade")>>),
   Leaf("upgrade.check", "upgrade", <<Lit("upgrade"), Lit("check")>>),
   [Leaf("upgrade.latest", "upgrade", <<Lit("upgrade"), Lit("latest")>>) EXCEPT !.handler = "upgrade.install"],
   [Leaf("upgrade.version", "upgrade", <<Lit("upgrade"), Res("upgrade-versions")>>) EXCEPT !.handler = "upgrade.install"]}

Definitions == StartCommands \cup LanguageCommands \cup ConfigCommands \cup AdapterCommands \cup DeviceCommands
            \cup SystemCommands \cup RunCommands \cup LockCommands \cup ApprovalCommands \cup OtherCommands
===============================================================================
