---------------------------- MODULE AdapterRules ----------------------------
(***************************************************************************)
(* An adapter is a set of declarations that name one another: a capability *)
(* names its handler, a workflow its actions, an action its tool, parser   *)
(* and artifact set, a tool its discovery, environment and parent.  The    *)
(* compiler checks the names once, in the rules of every platform; the     *)
(* runtime looks them up one by one while it works on a device, and a name *)
(* it does not find is an empty declaration to it more often than an error.*)
(*                                                                         *)
(* Every declaration has a field `sound`: its own fields (ids, enums,      *)
(* durations, patterns, conditions) have the form the validator accepts.   *)
(***************************************************************************)
EXTENDS Naturals, FiniteSets, TLC

CONSTANTS
  Platform,   \* the platforms
  Catalog,    \* standard capability -> output schema its contract asks for, or NoName
  Contract,   \* session capability -> [run, lock] that its contract asks for
  FirstWritten,    \* the adapter as first written: section -> id -> fields
  Changes,    \* what its author may change: <<section, id, field, value>>
  Removals,   \* declarations the author may remove: <<section, id>>
  MaxChanges  \* bound on the changes

ASSUME WrittenAssumption == "tools" \in DOMAIN FirstWritten /\ IsFiniteSet(DOMAIN FirstWritten.tools)

VARIABLES
  rules,    \* the declarations that the platforms share
  overlay,  \* platform -> <<section, id, field>> -> value
  job       \* what the author, the compiler and a device make of them

adapterVars == <<rules, overlay, job>>

NoName == "none"

AdapterInit ==
  /\ rules = FirstWritten
  /\ overlay = [p \in Platform |-> <<>>]
  /\ job = [at |-> "written", changes |-> 0]

-----------------------------------------------------------------------------
(* The author.                                                             *)

Edit == job.at = "written" /\ job.changes < MaxChanges /\ job' = [job EXCEPT !.changes = @ + 1]

ChangeDeclaration ==
  /\ Edit
  /\ \E c \in Changes : c[2] \in DOMAIN rules[c[1]] /\ rules' = [rules EXCEPT ![c[1]][c[2]][c[3]] = c[4]]
  /\ UNCHANGED overlay

RemoveDeclaration ==
  /\ Edit
  /\ \E r \in Removals :
       /\ r[2] \in DOMAIN rules[r[1]]
       /\ rules' = [rules EXCEPT ![r[1]] = [i \in DOMAIN @ \ {r[2]} |-> @[i]]]
  /\ UNCHANGED overlay

ChangeOverlay ==
  /\ Edit
  /\ \E p \in Platform, c \in Changes : overlay' = [overlay EXCEPT ![p] = (<<c[1], c[2], c[3]>> :> c[4]) @@ @]
  /\ UNCHANGED rules

-----------------------------------------------------------------------------
(* The compiler.                                                           *)

Overlayable == {"tools", "discoveries", "environments", "devices", "actions", "workflows", "sessions",
                "parsers", "artifacts"}

\* mergePlatform(): an overlay replaces fields.
MergedRules(p) ==
  [s \in DOMAIN rules |-> [i \in DOMAIN rules[s] |-> [f \in DOMAIN rules[s][i] |->
     IF <<s, i, f>> \in DOMAIN overlay[p] THEN overlay[p][<<s, i, f>>] ELSE rules[s][i][f]]]]

OverlayFits(p) == \A o \in DOMAIN overlay[p] : o[1] \in Overlayable /\ o[2] \in DOMAIN rules[o[1]]

Declared(section, name) == name \in DOMAIN section
DeclaredIfAny(section, name) == name # NoName => Declared(section, name)
Both(r) == r.extensions @@ r.capabilities

Handlers(r, kind) ==
  CASE kind = "session" -> r.sessions [] kind = "action" -> r.actions [] kind = "workflow" -> r.workflows

HandlerFits(r, c) ==
  IF c.kind = NoName THEN ~c.enabled
  ELSE c.kind \in {"session", "action", "workflow"} /\ Declared(Handlers(r, c.kind), c.target)

PlatformsFit(c) ==
  /\ c.enabled <=> c.on # {}
  /\ c.enabled => Platform \ c.on \subseteq c.reasons

\* A capability of the session contract has its handler, run and lock.
ContractFits(r, id, c) ==
  c.enabled /\ id \in DOMAIN Contract =>
    /\ c.kind = "session" /\ c.run = Contract[id].run /\ c.lock = Contract[id].lock
    /\ id = "request" => Declared(r.sessions, c.target) /\ r.sessions[c.target].requests # {}

SchemasFit(r, id, c) ==
  /\ DeclaredIfAny(r.inputs, c.input) /\ DeclaredIfAny(r.outputs, c.output)
  /\ c.enabled => NoName \notin {c.input, c.output}
  /\ c.enabled /\ id \in DOMAIN Catalog => Catalog[id] \in {NoName, c.output}

CapabilitiesFit(r) ==
  /\ DOMAIN r.capabilities = DOMAIN Catalog
  /\ DOMAIN r.capabilities \cap DOMAIN r.extensions = {}
  /\ \A id \in DOMAIN Both(r) :
       LET c == Both(r)[id] IN
         /\ c.sound /\ PlatformsFit(c) /\ HandlerFits(r, c) /\ ContractFits(r, id, c) /\ SchemasFit(r, id, c)
         /\ c.lock \in {"device", "session-owned"} => r.devices["identity"].fields
         /\ r.manifest["status"].disabled => ~c.enabled

SessionsFit(r) ==
  \A s \in DOMAIN r.sessions :
    /\ DeclaredIfAny(r.outputs, r.sessions[s].telemetry)
    /\ \A m \in r.sessions[s].requests : Declared(r.inputs, m.request) /\ Declared(r.outputs, m.response)

\* A view shows a whole output without secrets, or fields that the output has and that are not secret.
\* The compiler looks for secrets in `properties` alone, which are the fields here: those in the items
\* of an array are found by the redaction at run time (declarative-adapter.ts:319-325), which is left out.
ViewsFit(r) ==
  \A id \in DOMAIN r.views :
    /\ Declared(Both(r), id) /\ Both(r)[id].enabled
    /\ Declared(r.outputs, Both(r)[id].output)
    /\ LET output == r.outputs[Both(r)[id].output]  view == r.views[id] IN
         IF view.whole THEN output.secrets = {} ELSE view.selects \subseteq output.fields \ output.secrets

DiscoveriesFit(r) ==
  \A d \in DOMAIN r.discoveries : r.discoveries[d].sound /\ DeclaredIfAny(r.parsers, r.discoveries[d].parser)

\* A source that runs a command uses a process action with a parser.
DevicesFit(r) ==
  LET found == r.devices["discovery"]  probe == r.devices["probe"] IN
    /\ \A s \in {t \in found.sources : t.action # NoName} :
         /\ Declared(r.actions, s.action) /\ r.actions[s.action].type = "process"
         /\ Declared(r.parsers, r.actions[s.action].parser)
    /\ found.matched \subseteq {s.id : s \in found.sources}
    /\ probe.enabled => Declared(r.actions, probe.action) /\ Declared(r.parsers, probe.parser)

\* The tools that the launch of a tool goes through.
LaunchOf(tools, t) ==
  LET upTo[n \in 0 .. Cardinality(DOMAIN tools)] ==
        IF n = 0 THEN {t} ELSE upTo[n - 1] \cup {tools[u].via : u \in upTo[n - 1] \cap DOMAIN tools}
  IN upTo[Cardinality(DOMAIN tools)] \ {NoName}

InCycle(tools, t) == tools[t].via \in DOMAIN tools /\ t \in LaunchOf(tools, tools[t].via)

ToolsFit(r) ==
  \A t \in DOMAIN r.tools :
    /\ r.tools[t].sound
    /\ Declared(r.discoveries, r.tools[t].discovery) /\ Declared(r.environments, r.tools[t].environment)
    /\ DeclaredIfAny(r.tools, r.tools[t].via) /\ ~InCycle(r.tools, t)

EnvironmentsFit(r) == \A e \in DOMAIN r.environments : r.environments[e].sound

ActionsFit(r) ==
  \A a \in DOMAIN r.actions :
    LET action == r.actions[a] IN
      /\ action.sound
      /\ IF action.type = "process" THEN Declared(r.tools, action.tool) ELSE action.tool = NoName
      /\ DeclaredIfAny(r.parsers, action.parser) /\ DeclaredIfAny(r.artifacts, action.set)

WorkflowsFit(r) ==
  \A w \in DOMAIN r.workflows :
    LET steps == r.workflows[w].steps IN
      /\ r.workflows[w].sound
      /\ \A s \in DOMAIN steps : Declared(r.actions, steps[s])
      /\ DeclaredIfAny(steps, r.workflows[w].output)

ParsersFit(r) == \A p \in DOMAIN r.parsers : r.parsers[p].sound
ArtifactsFit(r) == \A s \in DOMAIN r.artifacts : r.artifacts[s].sound

\* The catalogs have the keys of the English one, and every key that a view or a parser shows.
ShownKeys(r) ==
  ({r.views[v].title : v \in DOMAIN r.views} \cup {r.parsers[p].label : p \in DOMAIN r.parsers}) \ {NoName}

MessagesFit(r) ==
  /\ DOMAIN r.messages # {} => Declared(r.messages, "en") /\ \A l \in DOMAIN r.messages : r.messages[l] = r.messages["en"]
  /\ ShownKeys(r) # {} => Declared(r.messages, "en") /\ ShownKeys(r) \subseteq r.messages["en"].keys

Semantics(r) ==
  /\ CapabilitiesFit(r) /\ SessionsFit(r) /\ ViewsFit(r) /\ DiscoveriesFit(r) /\ DevicesFit(r)
  /\ EnvironmentsFit(r) /\ ToolsFit(r) /\ ActionsFit(r) /\ WorkflowsFit(r) /\ ParsersFit(r) /\ ArtifactsFit(r) /\ MessagesFit(r)

\* Mutant: the shared rules alone are checked.
SharedFits == Semantics(rules) /\ \A p \in Platform : OverlayFits(p)

RulesFit == Semantics(rules) /\ \A p \in Platform : OverlayFits(p) /\ Semantics(MergedRules(p))

ValidateAdapter ==
  /\ job.at = "written"
  /\ job' = [at |-> IF RulesFit THEN "accepted" ELSE "rejected", changes |-> job.changes]
  /\ UNCHANGED <<rules, overlay>>

-----------------------------------------------------------------------------
(* The runtime, with the rules of its platform.                            *)

\* What is wrong when the declaration `name` of a section is looked up.
Lookup(section, name) ==
  IF ~Declared(section, name) THEN {"dangling"} ELSE IF ~section[name].sound THEN {"unsound"} ELSE {}

\* Resolving and probing a tool: its chain, with every discovery, parser and environment of it.
ToolTrouble(r, tool) ==
  UNION {IF ~Declared(r.tools, t) THEN {"dangling"}
         ELSE LET parser == IF Declared(r.discoveries, r.tools[t].discovery)
                            THEN r.discoveries[r.tools[t].discovery].parser ELSE NoName
              IN Lookup(r.tools, t) \cup Lookup(r.discoveries, r.tools[t].discovery)
                 \cup Lookup(r.environments, r.tools[t].environment)
                 \cup (IF parser = NoName THEN {} ELSE Lookup(r.parsers, parser))
                 \cup (IF InCycle(r.tools, t) THEN {"cycle"} ELSE {})
         : t \in LaunchOf(r.tools, tool)}

\* executeAction() and executePlannedAction(): tool, parser and artifact set.  There is no
\* executor for a serial action, and artifacts need a run.
ActionTrouble(r, a, run) ==
  IF ~Declared(r.actions, a) THEN {"dangling"}
  ELSE LET action == r.actions[a] IN
    Lookup(r.actions, a)
    \cup (IF action.type = "process" THEN ToolTrouble(r, action.tool) ELSE {})
    \cup (IF action.type = "serial-read" THEN {"no executor"} ELSE {})
    \cup (IF action.type = "process" /\ action.parser # NoName THEN Lookup(r.parsers, action.parser) ELSE {})
    \cup (IF action.set = NoName THEN {} ELSE IF run THEN Lookup(r.artifacts, action.set) ELSE {"no run"})

WorkflowTrouble(r, w, run) ==
  IF ~Declared(r.workflows, w) THEN {"dangling"}
  ELSE LET workflow == r.workflows[w] IN
    Lookup(r.workflows, w)
    \cup UNION {ActionTrouble(r, workflow.steps[s], run) : s \in DOMAIN workflow.steps}
    \cup (IF DeclaredIfAny(workflow.steps, workflow.output) THEN {} ELSE {"dangling"})

\* resolveManagedSession(): it looks among the standard capabilities alone.  The operation runner
\* performs every kind of them but the request.
SessionTrouble(r, id, c) ==
  IF ~Declared(r.capabilities, id) THEN {"no handler"}
  ELSE IF ~Declared(r.sessions, c.target) THEN {"dangling"}
  ELSE LET session == r.sessions[c.target] IN
    IF /\ \A m \in session.requests : Declared(r.inputs, m.request) /\ Declared(r.outputs, m.response)
       /\ DeclaredIfAny(r.outputs, session.telemetry)
    THEN IF id = "request" THEN {"not ready"} ELSE {} ELSE {"dangling"}

\* What the outcome shows of the output: fields it has, none of them secret, under titles it finds. A
\* capability without a view shows the whole output after its redaction at run time: no trouble.
ViewTrouble(r, id, c) ==
  IF ~Declared(r.views, id) \/ ~Declared(r.outputs, c.output) THEN {}
  ELSE LET output == r.outputs[c.output]  view == r.views[id]
           shown == IF view.whole THEN output.fields ELSE view.selects
  IN
    (IF shown \subseteq output.fields THEN {} ELSE {"dangling"})
    \cup (IF shown \cap output.secrets = {} THEN {} ELSE {"secret"})
    \cup (IF view.title \in {NoName} \cup r.messages["en"].keys THEN {} ELSE {"dangling"})

\* DeclarativeDevice.capabilities().
Offered(r, p) == {id \in DOMAIN Both(r) : Both(r)[id].enabled /\ p \in Both(r)[id].on}

Trouble(r, id) ==
  LET c == Both(r)[id] IN
    (CASE c.kind = "session" -> SessionTrouble(r, id, c)
       [] c.kind = "action" -> ActionTrouble(r, c.target, c.run)
       [] c.kind = "workflow" -> WorkflowTrouble(r, c.target, c.run))
    \cup (IF Declared(r.inputs, c.input) /\ Declared(r.outputs, c.output) THEN {} ELSE {"dangling"})
    \cup ViewTrouble(r, id, c)

Performs(p, doing, trouble) ==
  job' = [at |-> "done", changes |-> job.changes, platform |-> p, doing |-> doing, trouble |-> trouble]

UseCapability ==
  /\ job.at = "accepted"
  /\ \E p \in Platform : \E r \in {MergedRules(p)} : \E id \in Offered(r, p) : Performs(p, id, Trouble(r, id))
  /\ UNCHANGED <<rules, overlay>>

\* discoverDevicesDetailed() and executeDeviceCommandSource().
ScanDevices ==
  /\ job.at = "accepted"
  /\ \E p \in Platform : \E r \in {MergedRules(p)} : \E s \in r.devices["discovery"].sources :
       /\ s.action # NoName
       /\ Performs(p, "scan", (ActionTrouble(r, s.action, FALSE) \ {"no run"})
            \cup IF Declared(r.actions, s.action) /\ r.actions[s.action].type = "process"
                    /\ Declared(r.parsers, r.actions[s.action].parser)
                 THEN {} ELSE {"dangling"})
  /\ UNCHANGED <<rules, overlay>>

\* doctor(): every tool and every environment.
Doctor ==
  /\ job.at = "accepted"
  /\ \E p \in Platform : \E r \in {MergedRules(p)} :
       Performs(p, "doctor", UNION {ToolTrouble(r, t) : t \in DOMAIN r.tools}
                             \cup UNION {Lookup(r.environments, e) : e \in DOMAIN r.environments})
  /\ UNCHANGED <<rules, overlay>>

AdapterNext ==
  \/ ChangeDeclaration \/ RemoveDeclaration \/ ChangeOverlay \/ ValidateAdapter
  \/ UseCapability \/ ScanDevices \/ Doctor

AdapterSpec == AdapterInit /\ [][AdapterNext]_adapterVars

-----------------------------------------------------------------------------

\* What the runtime looks up in the rules of an accepted adapter, on whatever platform, is there, is
\* sound and shows no secret.  The compiler promises no more: it accepts a request on a session, an
\* extension with the handler of a session, a serial action, and artifacts without a run, and each of
\* them fails when it is used.
AcceptedWorks == job.at = "done" => job.trouble \subseteq {"not ready", "no handler", "no executor", "no run"}
=============================================================================
