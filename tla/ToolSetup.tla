------------------------------ MODULE ToolSetup ------------------------------
(***************************************************************************)
(* From an adapter's rules to a tool that can be launched: the compiler    *)
(* accepts the rules, `adapter discover` and `adapter configure` resolve   *)
(* the tools and save what they found in the global configuration, and an  *)
(* operation resolves them again, from the configuration alone.            *)
(*                                                                         *)
(* A program stands for its place in the file system.  A discovery looks   *)
(* for its configuration key first, then for the program on this computer; *)
(* two discoveries that read one key look for one program.                 *)
(***************************************************************************)
EXTENDS Naturals, FiniteSets

CONSTANTS
  Tool,       \* tools 1 .. n in the order of their declaration
  Rules,      \* rules an author may write
  Computers,  \* what a computer and its configuration may hold
  Values      \* what a person may configure

None == 0

ASSUME ToolAssumption == IsFiniteSet(Tool) /\ Tool = 1 .. Cardinality(Tool)
ASSUME RulesAssumption ==
  Rules \subseteq [via : [Tool -> Nat], reads : [Tool -> Tool], keeps : SUBSET Tool,
                  script : [Tool -> Tool \cup {None}], required : SUBSET Tool]
ASSUME ComputersAssumption ==
  Computers \subseteq [installed : SUBSET Tool, onPath : SUBSET Tool, strays : SUBSET Tool,
                      project : [Tool -> Nat], global : [Tool -> Nat]]
ASSUME ValuesAssumption == Values \subseteq [Tool -> Nat]

VARIABLES
  bundle,    \* the adapter's rules
  computer,  \* what is installed, and the layers of the configuration
  setup      \* the command in progress, or the last one

setupVars == <<bundle, computer, setup>>

SetupInit ==
  /\ bundle = [state |-> "none"]
  /\ computer = [installed |-> {}]
  /\ setup = [at |-> "idle"]

-----------------------------------------------------------------------------
(* The compiler (semantic-validator.ts).                                   *)

\* The tools that a launch of t goes through: itself, its parent, and so on.
ChainIn(via, t) ==
  LET upTo[n \in 0 .. Cardinality(Tool)] ==
        IF n = 0 THEN {t} ELSE upTo[n - 1] \cup {via[u] : u \in upTo[n - 1] \cap Tool}
  IN upTo[Cardinality(Tool)] \ {None}

Chain(t) == bundle.chain[t]
Cyclic(t) == bundle.via[t] \in Tool /\ t \in Chain(bundle.via[t])
Acceptable == \A t \in Tool : Chain(t) \subseteq Tool /\ ~Cyclic(t)

\* A bundle: the parent of each tool, the configuration key its discovery reads,
\* the tools whose discovery keeps a value, the tool whose discovery the capture
\* script of its environment is found from, and the required tools.
Built(rules, state) ==
  [state |-> state, via |-> rules.via, reads |-> rules.reads, keeps |-> rules.keeps, script |-> rules.script,
   required |-> rules.required, chain |-> [t \in Tool |-> ChainIn(rules.via, t)]]

Compile ==
  /\ bundle.state = "none"
  /\ \E rules \in Rules : bundle' = Built(rules, "compiled")
  /\ computer' \in Computers
  /\ UNCHANGED setup

Accept ==
  /\ bundle.state = "compiled"
  /\ bundle' = [bundle EXCEPT !.state = IF Acceptable THEN "accepted" ELSE "rejected"]
  /\ UNCHANGED <<computer, setup>>

-----------------------------------------------------------------------------
(* The resolution of a tool (tools/resolver.ts).                           *)

Program(t) == bundle.reads[t]

\* The project's layer goes over the global one.
Merged == [k \in Tool |-> IF computer.project[k] # None THEN computer.project[k] ELSE computer.global[k]]

\* Mutant: a configured value that is not valid falls back.
LocatedOrElse(t, mode, config) ==
  IF config[bundle.reads[t]] \in computer.installed THEN config[bundle.reads[t]]
  ELSE IF mode = "discover" /\ Program(t) \in computer.installed \cap computer.onPath THEN Program(t)
  ELSE None

\* resolveDiscovery(): a configured value is used or fails, and never falls back.
\* The mode "configured" looks no further.
Located(t, mode, config) ==
  IF config[bundle.reads[t]] # None
    THEN IF config[bundle.reads[t]] \in computer.installed THEN config[bundle.reads[t]] ELSE None
  ELSE IF mode = "discover" /\ Program(t) \in computer.installed \cap computer.onPath THEN Program(t)
  ELSE None

\* resolveTool(): every member of the chain, which has no cycle and no unknown name.
Launches(t, mode, config) ==
  Chain(t) \subseteq Tool /\ ~Cyclic(t) /\ \A u \in Chain(t) : Located(u, mode, config) # None

\* Every member's environment, whose script needs a discovery that is known by
\* then, and its probe, which only the right program passes.
Resolves(t, known, mode, config) ==
  /\ Launches(t, mode, config)
  /\ \A u \in Chain(t) : /\ Located(u, mode, config) = Program(u)
                         /\ bundle.script[u] \in known \cup {None}

\* What discover and doctor know at t: all that was launched before it.
Known(t, mode, config) == UNION {Chain(s) : s \in {s \in 1 .. t : Launches(s, mode, config)}}
Ready(t, mode, config) == Resolves(t, Known(t, mode, config), mode, config)

-----------------------------------------------------------------------------
(* AdapterConfigurationUseCases.                                           *)
Accepted == bundle.state = "accepted"
Starts(kind, ok, writes) ==
  /\ Accepted /\ setup.at = "idle"
  /\ setup' = [at |-> IF ok THEN "resolved" ELSE "failed", kind |-> kind, writes |-> writes]
  /\ UNCHANGED <<bundle, computer>>

\* persistentValue() of each member of each chain that resolved; a path that lost
\* its suffix to a link is not kept.
Kept(config) ==
  [k \in Tool |-> IF \E t \in Tool : Ready(t, "discover", config) /\ \E u \in Chain(t) \cap bundle.keeps :
                       bundle.reads[u] = k /\ k \notin computer.strays
                    THEN k ELSE None]

Discover == Starts("discover", \A t \in bundle.required : Ready(t, "discover", Merged), Kept(Merged))

\* The values are tried over the global and under nothing: the project's layer is
\* overlaid here, not at an operation.
Over(values, config) == [k \in Tool |-> IF values[k] # None THEN values[k] ELSE config[k]]
Tried(values) == Over(Over(values, computer.global), Merged)

Configure == \E values \in Values :
  Starts("configure", \A t \in bundle.required : Ready(t, "discover", Tried(values)), values)

\* persist(): reads the file again, merges, writes, renames.
Persist ==
  /\ setup.at = "resolved"
  /\ computer' = [computer EXCEPT !.global = Over(setup.writes, computer.global)]
  /\ setup' = [setup EXCEPT !.at = "done"]
  /\ UNCHANGED bundle

SetupNext == Compile \/ Accept \/ Discover \/ Configure \/ Persist

SetupSpec == SetupInit /\ [][SetupNext]_setupVars

-----------------------------------------------------------------------------
\* What the operation that follows can use: resolveTool() of the capability runner.
RunsWith(t) == Resolves(t, Chain(t), "configured", Merged)

\* The rules keep each program of the chain, and no script needs a stranger.
Kept1(t) == \A u \in Chain(t) :
  Merged[bundle.reads[u]] # None \/ (u \in bundle.keeps /\ Program(u) \notin computer.strays)
Own(t) == \A u \in Chain(t) : bundle.script[u] \in Chain(t) \cup {None}

(* A setup that succeeded leaves tools that run: after discover, each      *)
(* required tool whose rules keep what was found; after configure, each    *)
(* one whose keys are all set and not set otherwise in the project.  And   *)
(* discover succeeds when all programs are on the path and nothing is      *)
(* configured: the compiler accepts no rules that cannot be resolved.      *)
ToolsRun ==
  /\ setup.at = "done" => \A t \in bundle.required :
       Own(t) /\ (IF setup.kind = "discover" THEN Kept1(t)
                  ELSE \A u \in Chain(t) : computer.global[bundle.reads[u]] # None
                                           /\ computer.project[bundle.reads[u]] = None)
         => RunsWith(t)
  /\ Accepted /\ computer.onPath = Tool /\ computer.installed = Tool /\ Merged = [k \in Tool |-> None] =>
       \A t \in Tool : Own(t) => Ready(t, "discover", Merged)
=============================================================================
