------------------------------ MODULE MCAdapter ------------------------------
(***************************************************************************)
(* A small adapter on two platforms, and what its author may do to it: it  *)
(* has a managed session, a workflow of two actions, an extension, a tool  *)
(* started through another, a device source that runs a command, and a     *)
(* view of an output with a secret field.                                  *)
(***************************************************************************)
EXTENDS AdapterRules

MCWritten == [
  manifest |-> "status" :> [disabled |-> FALSE],
  capabilities |->
    "run" :> [sound |-> TRUE, enabled |-> TRUE, on |-> {"linux", "windows"}, reasons |-> {}, kind |-> "session",
              target |-> "monitor", run |-> TRUE, lock |-> "session-owned", input |-> "empty", output |-> "empty"]
    @@ "request" :> [sound |-> TRUE, enabled |-> TRUE, on |-> {"linux", "windows"}, reasons |-> {}, kind |-> "session",
              target |-> "monitor", run |-> FALSE, lock |-> "none", input |-> "empty", output |-> "empty"]
    @@ "reset" :> [sound |-> TRUE, enabled |-> FALSE, on |-> {}, reasons |-> {}, kind |-> "none",
              target |-> "none", run |-> FALSE, lock |-> "none", input |-> "none", output |-> "none"]
    @@ "flash" :> [sound |-> TRUE, enabled |-> TRUE, on |-> {"linux"}, reasons |-> {"windows"}, kind |-> "workflow",
              target |-> "write", run |-> TRUE, lock |-> "device", input |-> "image", output |-> "written"],
  extensions |->
    "erase" :> [sound |-> TRUE, enabled |-> TRUE, on |-> {"linux", "windows"}, reasons |-> {}, kind |-> "action",
              target |-> "wipe", run |-> FALSE, lock |-> "device", input |-> "empty", output |-> "empty"],
  views |-> "flash" :> [whole |-> FALSE, selects |-> {"bytes"}, title |-> "title"],
  sessions |-> "monitor" :> [telemetry |-> "none", requests |-> {[request |-> "empty", response |-> "empty"]}],
  devices |->
    "identity" :> [fields |-> TRUE]
    @@ "discovery" :> [sources |-> {[id |-> "usb", action |-> "list"], [id |-> "serial", action |-> "none"]}, matched |-> {"usb"}]
    @@ "probe" :> [enabled |-> FALSE, action |-> "none", parser |-> "none"],
  tools |-> "python" :> [sound |-> TRUE, discovery |-> "python", environment |-> "inherit", via |-> "none"]
            @@ "idf" :> [sound |-> TRUE, discovery |-> "idf", environment |-> "idf", via |-> "python"],
  discoveries |-> "python" :> [sound |-> TRUE, parser |-> "none"] @@ "idf" :> [sound |-> TRUE, parser |-> "version"],
  environments |-> "inherit" :> [sound |-> TRUE] @@ "idf" :> [sound |-> TRUE],
  actions |->
    "write" :> [sound |-> TRUE, type |-> "process", tool |-> "idf", parser |-> "lines", set |-> "images"]
    @@ "wipe" :> [sound |-> TRUE, type |-> "copy", tool |-> "none", parser |-> "none", set |-> "none"]
    @@ "list" :> [sound |-> TRUE, type |-> "process", tool |-> "python", parser |-> "lines", set |-> "none"],
  workflows |-> "write" :> [sound |-> TRUE, steps |-> "1" :> "write" @@ "2" :> "wipe", output |-> "1"],
  parsers |-> "lines" :> [sound |-> TRUE, label |-> "progress"] @@ "version" :> [sound |-> TRUE, label |-> "none"],
  artifacts |-> "images" :> [sound |-> TRUE],
  inputs |-> "empty" :> [sound |-> TRUE] @@ "image" :> [sound |-> TRUE],
  outputs |-> "empty" :> [fields |-> {}, secrets |-> {}] @@ "written" :> [fields |-> {"bytes", "key"}, secrets |-> {"key"}],
  messages |-> "en" :> [keys |-> {"title", "progress"}] @@ "zh" :> [keys |-> {"title", "progress"}]]

MCCatalog == "run" :> "none" @@ "request" :> "none" @@ "reset" :> "none" @@ "flash" :> "written"
MCContract == "run" :> [run |-> TRUE, lock |-> "session-owned"] @@ "request" :> [run |-> FALSE, lock |-> "none"]
MCRemovals == UNION {{<<s, i>> : i \in DOMAIN MCWritten[s]} : s \in {"sessions", "tools", "discoveries", "environments",
                "actions", "workflows", "parsers", "artifacts", "inputs", "outputs", "extensions", "messages"}}
MCChanges ==
  {<<"capabilities", "flash", "target", "wipe">>, <<"capabilities", "flash", "kind", "action">>,
   <<"capabilities", "flash", "on", {"linux", "windows"}>>, <<"capabilities", "flash", "run", FALSE>>,
   <<"capabilities", "run", "target", "write">>, <<"capabilities", "request", "kind", "action">>, <<"capabilities", "reset", "enabled", TRUE>>,
   <<"extensions", "erase", "kind", "session">>, <<"extensions", "erase", "target", "monitor">>,
   <<"extensions", "erase", "target", "write">>, <<"extensions", "erase", "enabled", FALSE>>,
   <<"manifest", "status", "disabled", TRUE>>, <<"views", "flash", "selects", {"key"}>>,
   <<"views", "flash", "title", "lost">>, <<"views", "flash", "whole", TRUE>>, <<"outputs", "written", "secrets", {}>>,
   <<"messages", "en", "keys", {"title", "progress", "lost"}>>, <<"messages", "zh", "keys", {"title", "progress", "lost"}>>,
   <<"sessions", "monitor", "telemetry", "written">>,
   <<"sessions", "monitor", "telemetry", "lost">>, <<"sessions", "monitor", "requests", {}>>,
   <<"devices", "identity", "fields", FALSE>>,
   <<"devices", "discovery", "sources", {[id |-> "usb", action |-> "wipe"]}>>,
   <<"devices", "probe", "enabled", TRUE>>, <<"tools", "python", "via", "idf">>, <<"tools", "idf", "via", "none">>,
   <<"tools", "idf", "via", "lost">>, <<"tools", "idf", "environment", "lost">>, <<"discoveries", "idf", "parser", "none">>,
   <<"discoveries", "python", "parser", "lost">>, <<"environments", "idf", "sound", FALSE>>,
   <<"actions", "write", "type", "serial-read">>, <<"actions", "write", "tool", "none">>,
   <<"actions", "write", "tool", "python">>, <<"actions", "list", "parser", "none">>, <<"actions", "list", "set", "images">>,
   <<"actions", "wipe", "set", "images">>, <<"actions", "wipe", "parser", "lost">>, <<"workflows", "write", "output", "3">>,
   <<"workflows", "write", "steps", "1" :> "wipe">>, <<"parsers", "lines", "sound", FALSE>>,
   <<"parsers", "lines", "label", "lost">>, <<"artifacts", "images", "sound", FALSE>>,
   <<"outputs", "written", "secrets", {"bytes"}>>, <<"capabilities", "flash", "output", "empty">>}
=============================================================================
