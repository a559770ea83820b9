----------------------------- MODULE CommandGraph -----------------------------
(***************************************************************************)
(* The command graph of application/commands and the two parsers that read *)
(* a command line: the first one (cli/parser.ts) knows the global options  *)
(* only, the second one (application/commands/parser.ts) those of every    *)
(* static command.  Help, the menus and the dispatcher all use the graph.  *)
(*                                                                         *)
(* A word of a command line is a string.  Inline values (--key=value), the *)
(* negated form (--no-color), the separator -- and the conversion of       *)
(* values by their schema are left out.                                    *)
(***************************************************************************)
EXTENDS CommandDefinitions, FiniteSets, SequencesExt

CONSTANTS
  Commands,       \* the commands of the graph
  Named,          \* provider of dynamic children |-> the names it lists
  DownNames,      \* names whose resource or capability is unavailable
  ConfigFields,   \* the options that the configuration of an adapter requires
  InstallFields   \* the options that the installation of an adapter requires

Providers == {"adapters", "configured-devices", "configured-systems", "device-capabilities",
              "system-capabilities", "runs", "locks", "approvals", "upgrade-versions"}
ASSUME NamedAssumption == DOMAIN Named = Providers /\ \A provider \in Providers : IsFiniteSet(Named[provider])
ASSUME CommandsAssumption == Commands \subseteq CommandRecord /\ \A c \in Commands : IsFiniteSet(c.options)
ASSUME FieldsAssumption == IsFiniteSet(ConfigFields) /\ IsFiniteSet(InstallFields)

CommandOf(id) == CHOOSE c \in Commands : c.id = id
Roots == {c.path[1].name : c \in Commands}

-----------------------------------------------------------------------------
(* Resolution: the matching definition of the highest priority, segment by *)
(* segment, where a longer path comes before its own beginning.            *)
FitsWord(segment, word) ==
  CASE segment.kind = 4 -> segment.name = word
    [] segment.kind \in {2, 3} -> word \in Named[segment.name]
    [] OTHER -> TRUE

\* Arguments may be missing, except the first word of a required rest.
FewestWords(c) == Cardinality({k \in DOMAIN c.path : c.path[k].kind # 1})
Matches(c, words) ==
  /\ Len(words) >= IF c.rest = "required" THEN Len(c.path) ELSE FewestWords(c)
  /\ c.rest # "none" \/ Len(words) <= Len(c.path)
  /\ \A k \in DOMAIN c.path \cap DOMAIN words : FitsWord(c.path[k], words[k])

Priority(path, k) == IF k \in DOMAIN path THEN path[k].kind ELSE 0
Outranks(p, q) ==
  \E k \in DOMAIN p \cup DOMAIN q :
    /\ Priority(p, k) > Priority(q, k)
    /\ \A j \in 1 .. k - 1 : Priority(p, j) = Priority(q, j)

\* The metadata of the last dynamic segment replaces the options of the definition.
WithMetadata(c) ==
  CASE c.id = "adapter.configure" -> [c EXCEPT !.options = ConfigFields, !.required = ConfigFields]
    [] c.id = "adapter.install" -> [c EXCEPT !.options = {"root"} \cup InstallFields, !.required = InstallFields]
    [] OTHER -> c
IsDown(c, words) == \E k \in DOMAIN c.path : c.path[k].kind \in {2, 3} /\ words[k] \in DownNames

\* Of the definitions that match, those that no other one outranks.
Foremost(matching) == {c \in matching : \A d \in matching : ~Outranks(d.path, c.path)}
Found(error, command) == [error |-> error, command |-> command]
NoCommandFits == Leaf("none", "none", <<>>)
\* (mutant: the metadata of the adapter is forgotten)
TheOneStatic(best, words) ==
  IF Cardinality(best) = 1 THEN Found("none", CHOOSE c \in best : TRUE) ELSE Found("UNKNOWN_COMMAND", NoCommandFits)
TheOne(best, words) ==
  IF Cardinality(best) # 1
  THEN Found(IF best = {} THEN "UNKNOWN_COMMAND" ELSE "AMBIGUOUS_COMMAND", NoCommandFits)
  ELSE LET c == CHOOSE c \in best : TRUE
       IN IF IsDown(c, words) THEN Found("COMMAND_UNAVAILABLE", NoCommandFits) ELSE Found("none", WithMetadata(c))
ResolvePath(words) == TheOne(Foremost({c \in Commands : Matches(c, words)}), words)

-----------------------------------------------------------------------------
(* Reading a command line: its words, and its options with their values.   *)
Word(text) == [option |-> FALSE, text |-> text]
Option(name) == [option |-> TRUE, text |-> name]

\* An option that takes a value takes the word that follows it, if one does.
NothingRead == [words |-> <<>>, options |-> <<>>, waits |-> FALSE]
Reading(read, token, booleans) ==
  CASE token.option ->
         [read EXCEPT !.options = Append(read.options, <<token.text, "none">>), !.waits = token.text \notin booleans]
    [] ~token.option /\ read.waits ->
         [read EXCEPT !.options = Append(Front(read.options), <<Last(read.options)[1], token.text>>), !.waits = FALSE]
    [] OTHER -> [read EXCEPT !.words = Append(read.words, token.text)]
Reads(line, booleans) ==
  LET upTo[n \in 0 .. Len(line)] == IF n = 0 THEN NothingRead ELSE Reading(upTo[n - 1], line[n], booleans)
  IN upTo[Len(line)]

\* The first parser: every option that is not a boolean global one takes a value.
FirstRead(line) == Reads(line, BooleanGlobals)
LastValue(options, name) == options[SelectLastInSeq(options, LAMBDA pair : pair[1] = name)][2]
FirstValues(read) ==
  [name \in {pair[1] : pair \in Range(read.options)} |->
     IF LastValue(read.options, name) = "none" THEN "true" ELSE LastValue(read.options, name)]
Names(options) == {pair[1] : pair \in Range(options)}
FirstError(read) ==
  IF \/ \E pair \in Range(read.options) : pair[1] \in GlobalOptions \ BooleanGlobals /\ pair[2] = "none"
     \/ {"json", "jsonl"} \subseteq Names(read.options)
  THEN "USAGE_ERROR" ELSE "none"

\* The second parser: every option that is not a boolean one of a static command.
KnownBooleans == BooleanGlobals \cup ScopeOptions
                 \cup {"save", "show-origin", "origin", "dangerously-remove-all-runs", ClearActive, ClearQuarantined, "all"}
TakesValue(name) == name \notin KnownBooleans
Canonical(name) == IF name = "origin" THEN "show-origin" ELSE name
Repeatable(c, name) == c.id = "init" /\ name = "adapter"

\* The first segments that are still without a word, and the required options.
MissingArguments(c, words) ==
  IF c.rest = "optional" THEN <<>> ELSE [k \in 1 .. Len(c.path) - Min({Len(words), Len(c.path)}) |-> c.path[Len(words) + k].name]
MissingFields(c, words, given) ==
  MissingArguments(c, words) \o SetToSeq({name \in c.required : name \notin given})

\* named: the canonical names of the options, in their order.
OptionErrorOf(c, options, named) ==
  CASE Range(named) \ (GlobalOptions \cup c.options) # {} -> "UNKNOWN_OPTION"
    [] \E k \in DOMAIN named : TakesValue(named[k]) /\ options[k][2] = "none" -> "MISSING_OPTION_VALUE"
    [] \E j, k \in DOMAIN named : j # k /\ named[j] = named[k] /\ ~Repeatable(c, named[k]) -> "DUPLICATE_OPTION"
    [] {"json", "jsonl"} \subseteq Range(named) \/ Cardinality(Range(named) \cap ScopeOptions) > 1 -> "OPTION_CONFLICT"
    [] OTHER -> "none"
OptionError(c, options) == OptionErrorOf(c, options, [k \in DOMAIN options |-> Canonical(options[k][1])])

\* What the command line asks for: a command, its words, and the values of its options.
WordsRead(read) == IF read.words = <<>> /\ "version" \in Names(read.options) THEN <<"version">> ELSE read.words
ValuesRead(options) ==
  [name \in {Canonical(n) : n \in Names(options)} |-> IF TakesValue(name) THEN LastValue(options, name) ELSE "true"]
Parsed(found, words, options) ==
  [error |-> IF found.error = "none" THEN OptionError(found.command, options) ELSE found.error,
   command |-> found.command, words |-> words, values |-> ValuesRead(options),
   missing |-> MissingFields(found.command, words, {Canonical(n) : n \in Names(options)})]
ParsedAs(read) == Parsed(ResolvePath(WordsRead(read)), WordsRead(read), read.options)
GraphParse(line) == ParsedAs(Reads(line, KnownBooleans))

\* cli/commands/command-intent.ts: a command that the menus completed is written
\* as a command line again, its words first, and read by the same parser.
Written(name, value) ==
  IF name \in KnownBooleans /\ value = "true" THEN <<Option(name)>> ELSE <<Option(name), Word(value)>>
LineOf(words, names, values) ==
  [k \in DOMAIN words |-> Word(words[k])] \o FlattenSeq([k \in DOMAIN names |-> Written(names[k], values[names[k]])])
DraftParse(words, values) ==
  GraphParse(LineOf(words, SetToSeq(DOMAIN values \cap (GlobalOptions \cup ResolvePath(words).command.options)), values))

-----------------------------------------------------------------------------
(* What else is read from the graph.                                       *)

\* The menu of a branch: its children that continue it with a literal word.
InMenu(c, parent) ==
  c.parent = parent.id /\ parent.id # "upgrade" /\ c.path[Len(parent.path) + 1].kind = 4
MenuOf(id) == {c.path[Len(CommandOf(id).path) + 1].name : c \in {d \in Commands : InMenu(d, CommandOf(id))}}

\* Help of a command: its children, with the names of the dynamic ones.  A
\* placeholder <name> stands for every word of an argument.
Shown(segment) == IF segment.kind = 4 THEN {segment.name} ELSE IF segment.kind = 1 THEN {"<name>"} ELSE Named[segment.name]
HelpEntries(found, words) ==
  LET n == Len(found.command.path)
      shownAs(d, k, last) == IF k <= n /\ k \in DOMAIN words THEN words[k]
                             ELSE IF k = n + 1 THEN last ELSE CHOOSE word \in Shown(d.path[k]) : TRUE
  IN UNION {{[id |-> d.id, words |-> [k \in DOMAIN d.path |-> shownAs(d, k, last)]] : last \in Shown(d.path[n + 1])} :
            d \in {c \in Commands : c.parent = found.command.id /\ Len(c.path) > n}}

\* The handlers of application-dispatcher.ts; the command line owns the others.
Dispatched == {"doctor.execute"}
  \cup {c.handler : c \in LanguageCommands \cup ConfigCommands \cup AdapterCommands \cup RunCommands \cup LockCommands \cup ApprovalCommands}

\* catalog.ts: the words of a capability are looked up again right before it runs.
Executable(words) ==
  LET instances == IF words[1] = "device" THEN "configured-devices" ELSE "configured-systems"
      capabilities == IF words[1] = "device" THEN "device-capabilities" ELSE "system-capabilities"
  IN CASE words[2] \notin Named[instances] -> "NOT_FOUND"
       [] words[2] \in DownNames -> "UNAVAILABLE"
       [] Len(words) < 3 -> "USAGE_ERROR"
       [] words[3] \notin Named[capabilities] -> "UNSUPPORTED_CAPABILITY"
       [] OTHER -> "none"

\* validator.ts, which the tests apply to the static definitions.
UniqueNames(commands) ==
  \A c, d \in commands :
    \/ c.id = d.id \/ c.path = d.path
    \/ c.parent = d.parent /\ Last(c.path).kind = 4 /\ Last(c.path) = Last(d.path)
    => c = d
ExtendParents(commands) ==
  \A c \in commands : c.parent # "none" =>
    \E parent \in commands : parent.id = c.parent /\ IsStrictPrefix(parent.path, c.path)
HandlersAreLeaves(commands) ==
  \A c \in commands : (c.handler = "none") = (\E d \in commands : d.parent = c.id)
ValidGraph(commands) ==
  /\ UniqueNames(commands) /\ ExtendParents(commands) /\ HandlersAreLeaves(commands)
  /\ \A c \in commands : c.path # <<>> /\ c.required \subseteq c.options
ASSUME GraphAssumption == ValidGraph(Commands)
===============================================================================
