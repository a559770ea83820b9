------------------------------ MODULE CommandLine ------------------------------
(***************************************************************************)
(* One invocation of the program (cli/index.ts): from the command line,    *)
(* through the menus and questions that complete it where a person can     *)
(* answer, to the command that runs.  The stages of main are taken one     *)
(* after the other; going back starts main again at the menu before.       *)
(* While a question waits, other processes change the state of the lock    *)
(* and of the approval that the command is about.                          *)
(*                                                                         *)
(* Left out: what is printed, sessions that are followed or attached to,   *)
(* the keys of a prompt, and the names that errors of the parsers get in   *)
(* reports.  The names of the records do not change.                       *)
(***************************************************************************)
EXTENDS CommandGraph, TLC

CONSTANTS
  Scan,          \* identity of a discovered device |-> its adapter
  Installable,   \* the adapters that can be installed
  Configurable,  \* key of the configuration catalog |-> its choices, or none
  MembersOf,     \* system |-> its devices
  MaxBacks       \* bound: how often a conversation goes back

VARIABLES
  cli,           \* the invocation
  resources        \* the state of every lock and of every approval
cliVars == <<cli, resources>>

Typed == "typed"
NoPrompt == [kind |-> "none", choices |-> {}, as |-> "none", name |-> "none", to |-> "none", back |-> <<>>]
NothingDone == [id |-> "none", words |-> <<>>, values |-> <<>>, error |-> "none"]
Of(provider) == Named[provider]

\* (definitions.ts: a command begins with its own word, and none of those of locks
\* requires an option that says that a lock in use or in quarantine may be cleared.)
ASSUME ClearAssumption ==
  \A c \in Commands :
    /\ c.path[1].kind = 4
    /\ c.id = "lock.clear" => c.path[1] = Lit("lock")
    /\ c.id \in {"adapter.configure", "adapter.install"} => c.path[1] = Lit("adapter")
    /\ c.path[1] = Lit("lock") =>
         {ClearActive, ClearQuarantined} \cap (c.required \cup {c.path[k].name : k \in DOMAIN c.path}) = {}

\* Options, where those of the first prevail.
Overlaid(first, second) ==
  [name \in DOMAIN first \cup DOMAIN second |-> IF name \in DOMAIN first THEN first[name] ELSE second[name]]

-----------------------------------------------------------------------------
(* The lines that the help of the commands describes, and their beginnings. *)
Texts(segment) ==
  CASE segment.kind = 4 -> {segment.name}
    [] segment.kind \in {2, 3} -> Of(segment.name)
    [] segment.name = "key" -> DOMAIN Configurable
    [] segment.name \in {"device", "devices"} -> Of("configured-devices")
    [] segment.name = "system" -> Of("configured-systems")
    [] segment.name = "path" -> {"run", "adapter", "lock"}
    [] OTHER -> {Typed}
WordsOf(c) ==
  {words \in [DOMAIN c.path -> UNION {Texts(c.path[k]) : k \in DOMAIN c.path}] :
     \A k \in DOMAIN c.path : words[k] \in Texts(c.path[k])}
Chosen(names) == [name \in names |-> IF TakesValue(name) THEN Typed ELSE "true"]
Argv(words, values) == LineOf(words, SetToSeq(DOMAIN values), values)
Entered(c, words, values) == [id |-> c.id, words |-> words, values |-> values, argv |-> Argv(words, values)]
Givens(c) == {c.required} \cup {c.required \cup {name} : name \in c.options}
DocumentedOf(c) == UNION {{Entered(c, words, Chosen(names)) : words \in WordsOf(c)} : names \in Givens(c)}
Documented == UNION {DocumentedOf(WithMetadata(d)) : d \in {e \in Commands : e.handler # "none"}}
Lines == {d.argv : d \in Documented}
         \cup UNION {{Argv(SubSeq(d.words, 1, k), <<>>) : k \in 0 .. Len(d.words)} : d \in Documented}

Beginning(argv, can, fresh) ==
  [argv |-> argv, can |-> can, fresh |-> fresh, at |-> "read", parts |-> <<>>, values |-> <<>>, resumed |-> FALSE,
   backs |-> <<>>, ask |-> NoPrompt, asked |-> FALSE, agreed |-> "none", seen |-> <<>>, expect |-> {}, turns |-> 0,
   did |-> NothingDone]

\* Whether the project is new matters to init only, the state of the lock to lock.
LockStates == {"free", "stale", "active", "quarantined", "quarantine-failed"}
CliInit ==
  /\ \E argv \in Lines, can, fresh \in BOOLEAN :
       /\ cli = Beginning(argv, can, fresh)
       /\ ~fresh => argv # <<>> /\ argv[1].text = "init"
  /\ resources \in [lock : LockStates \ {"free"}, approval : {"pending"}]
  /\ resources.lock # "stale" => cli.argv # <<>> /\ cli.argv[1].text = "lock"

-----------------------------------------------------------------------------
(* Steps of main: to the next stage, to a prompt, or to the end.           *)
To(stage, c) == [c EXCEPT !.at = stage]
Fails(error, c) == [c EXCEPT !.at = "end", !.did = [NothingDone EXCEPT !.error = error]]
Does(id, words, c) ==
  [c EXCEPT !.at = "end", !.did = [id |-> id, words |-> words, values |-> c.values, error |-> "none"]]

\* A menu adds the choice to the words (word), or is completed from it.
Menu(choices, as, to) == [NoPrompt EXCEPT !.kind = "menu", !.choices = choices, !.as = as, !.to = to]
MenuBackTo(path, choices, as, to) == [Menu(choices, as, to) EXCEPT !.back = path]
Question(kind, as, name, to) == [NoPrompt EXCEPT !.kind = kind, !.choices = {Typed}, !.as = as, !.name = name, !.to = to]

\* Nobody is asked where nobody can answer, and an empty menu cancels.
AskOrFail(prompt, c) ==
  CASE ~c.can -> Fails("INTERACTIVE_TERMINAL_REQUIRED", c)
    [] c.can /\ prompt.kind = "menu" /\ prompt.choices = {} -> Fails("INTERACTION_CANCELLED", c)
    [] OTHER -> [c EXCEPT !.at = "asked", !.ask = prompt]

\* Where there must be something to choose from, that there is nothing is an error.
AskAmong(prompt, error, c) ==
  IF c.can /\ prompt.choices = {} THEN Fails(error, c) ELSE AskOrFail(prompt, c)

AtStage(stage) == cli.at = stage /\ UNCHANGED resources
Root == cli.parts[1]
Draft == DraftParse(cli.parts, cli.values)
Operates == Root \in {"device", "system"}
Decides == Root = "approval" /\ Len(cli.parts) >= 3 /\ cli.parts[3] \in {"approve", "reject"}

ReadLine ==
  /\ AtStage("read")
  /\ LET read == FirstRead(cli.argv)
     IN cli' = IF FirstError(read) # "none" THEN Fails(FirstError(read), cli)
               ELSE [cli EXCEPT !.parts = read.words, !.values = FirstValues(read), !.at = "version"]

VersionText ==
  /\ AtStage("version")
  /\ cli' = IF "version" \in DOMAIN cli.values \/ cli.parts = <<"version">> THEN Does("version", <<"version">>, cli)
            ELSE IF cli.parts # <<>> /\ Root = "version" THEN Fails("USAGE_ERROR", cli)
            ELSE To("help", cli)

HelpText ==
  /\ AtStage("help")
  /\ cli' = IF cli.parts = <<>> THEN Does("help", <<"help">>, cli)
            ELSE IF Root # "help" THEN To("home", cli)
            ELSE IF Len(cli.parts) > 1 /\ ResolvePath(Tail(cli.parts)).error # "none" THEN Fails("UNKNOWN_COMMAND", cli)
            ELSE Does("help", cli.parts, cli)

HomeMenu == Roots \ {"home"}
HomePage ==
  /\ AtStage("home")
  /\ cli' = IF Root # "home" THEN To("upgrade", cli)
            ELSE IF Len(cli.parts) # 1 THEN Fails("USAGE_ERROR", cli)
            ELSE IF ~cli.can THEN Does("help", <<"help">>, cli)
            ELSE AskOrFail(MenuBackTo(cli.parts, HomeMenu, "path", "home-chosen"), cli)
HomeChosen ==
  /\ AtStage("home-chosen")
  /\ cli' = IF Root \in {"help", "version"} THEN Does(Root, cli.parts, cli) ELSE To("upgrade", cli)

Upgrade ==
  /\ AtStage("upgrade")
  /\ cli' = IF Root # "upgrade" THEN To("init", cli)
            ELSE IF Len(cli.parts) > 2 THEN Fails("USAGE_ERROR", cli)
            ELSE IF Len(cli.parts) = 1 /\ Of("upgrade-versions") = {} THEN Does("upgrade.check", cli.parts, cli)
            ELSE IF Len(cli.parts) = 1
                 THEN AskOrFail(MenuBackTo(cli.parts, Of("upgrade-versions"), "word", "upgrade"), cli)
            ELSE IF cli.parts[2] \in {"check", "latest"} THEN Does("upgrade." \o cli.parts[2], cli.parts, cli)
            ELSE IF cli.parts[2] \in Of("upgrade-versions") THEN Does("upgrade.version", cli.parts, cli)
            ELSE Fails("UPGRADE_VERSION_NOT_FOUND", cli)

\* A project that has its configuration is adopted without a question.
InitProject ==
  /\ AtStage("init")
  /\ cli' = IF Root # "init" THEN To("parse", cli)
            ELSE IF ~cli.fresh THEN Does("init", <<"init">>, cli)
            ELSE IF ~cli.can /\ ~({"project-name", "locale"} \subseteq DOMAIN cli.values)
                 THEN Fails("INTERACTIVE_TERMINAL_REQUIRED", cli)
            ELSE [cli EXCEPT !.parts = <<"init">>, !.at = IF cli.can THEN "steps" ELSE "initialize"]
Initialize ==
  /\ AtStage("initialize")
  /\ cli' = IF Draft.error = "none" THEN Does("init", cli.parts, cli) ELSE Fails(Draft.error, cli)

\* The line as it was given, or what the menus made of it.  The commands that
\* operate on devices and the decisions of people are not parsed here.
Direct == ~cli.resumed /\ cli.parts = FirstRead(cli.argv).words
Parse ==
  /\ AtStage("parse")
  /\ \E parsed \in {IF Direct THEN GraphParse(cli.argv) ELSE DraftParse(cli.parts, cli.values)} :
       cli' = IF Operates \/ Decides THEN To("navigate", cli)
              ELSE IF parsed.error # "none" THEN Fails(parsed.error, cli)
              ELSE [cli EXCEPT !.values = Overlaid(parsed.values, cli.values), !.at = "navigate"]

-----------------------------------------------------------------------------
(* Navigation by menus.                                                    *)
RecordsOf == "adapter" :> "adapters" @@ "run" :> "runs" @@ "lock" :> "locks" @@ "approval" :> "approvals"
Actions(root, name) ==
  CASE root = "lock" -> {"show", "clear"}
    [] root = "adapter" -> MenuOf("adapter.resource") \ (IF name \in Installable THEN {} ELSE {"install"})
    [] root \in {"run", "approval"} -> MenuOf(root \o ".resource")
ActionMenu(c) == AskOrFail(Menu(Actions(c.parts[1], c.parts[2]), "word", "group"), c)

Navigate ==
  /\ AtStage("navigate")
  /\ cli' = IF Root \notin DOMAIN RecordsOf \/ Len(cli.parts) > 2 THEN To("group", cli)
            ELSE IF Len(cli.parts) = 1
                 THEN AskOrFail(MenuBackTo(cli.parts, MenuOf(Root) \cup Of(RecordsOf[Root]), "word", "navigated"), cli)
            ELSE IF cli.parts[2] \in Of(RecordsOf[Root]) \ MenuOf(Root) THEN ActionMenu(cli)
            ELSE To("group", cli)
\* The choice of prune is completed at once, that of a record by an action.
Navigated ==
  /\ AtStage("navigated")
  /\ cli' = IF cli.parts = <<"run", "prune">> THEN To("steps", cli)
            ELSE IF cli.parts[2] \in MenuOf(Root) THEN To("group", cli)
            ELSE ActionMenu(cli)

GroupMenu ==
  /\ AtStage("group")
  /\ cli' = IF Len(cli.parts) > 1 \/ Root \notin {"language", "config", "device", "system"} THEN To("recipe", cli)
            ELSE IF Root \in {"language", "config"}
                 THEN AskOrFail(MenuBackTo(cli.parts, MenuOf(Root), "word", "recipe"), cli)
            ELSE IF Root = "device"
                 THEN AskOrFail(MenuBackTo(cli.parts, MenuOf(Root) \cup Of("configured-devices"), "word", "device-chosen"), cli)
            ELSE AskOrFail(MenuBackTo(cli.parts, {"list", "create", "delete"} \cup Of("configured-systems"), "word",
                                 "system-chosen"), cli)

\* What completes device <word>: a device that the scan found, or an adapter.
\* unable: the error of a device without capabilities.
CompleteDevice(c, found, unable) ==
  IF c.parts[2] = "add" /\ found # {} THEN AskOrFail(Menu(found, "found", "name-device"), c)
  ELSE IF c.parts[2] = "add"
       THEN AskAmong([Menu(Of("adapters"), "option", "name-device") EXCEPT !.name = "adapter"], "UNKNOWN_ADAPTER", c)
  ELSE IF c.parts[2] = "remove" THEN AskAmong(Menu(Of("configured-devices"), "word", "decide"), "DEVICE_NOT_FOUND", c)
  ELSE IF c.can /\ c.parts[2] \notin Of("configured-devices") THEN Fails("DEVICE_NOT_FOUND", c)
  ELSE AskAmong(Menu(Of("device-capabilities"), "word", "decide"), unable, c)
DeviceChosen ==
  /\ AtStage("device-chosen")
  /\ \E found \in SUBSET DOMAIN Scan :
       cli' = IF cli.parts[2] \in {"list", "scan"} THEN To("decide", cli)
              ELSE CompleteDevice(cli, found, "INTERACTION_CANCELLED")
NameDevice == AtStage("name-device") /\ cli' = AskOrFail(Question("value", "option", "name", "decide"), cli)
DeviceMenu ==
  /\ AtStage("device")
  /\ \E found \in SUBSET DOMAIN Scan :
       cli' = IF \/ Root # "device" \/ Len(cli.parts) # 2 \/ cli.parts[2] \in {"list", "scan"}
                 \/ cli.parts[2] = "add" /\ {"adapter", "name"} \subseteq DOMAIN cli.values
              THEN To("system", cli) ELSE CompleteDevice(cli, found, "UNSUPPORTED_CAPABILITY")

\* Only the menu of the systems offers the members of one.
CompleteSystem(c, extra) ==
  IF c.parts[2] = "create" /\ c.can /\ Of("configured-devices") = {} THEN Fails("DEVICE_NOT_FOUND", c)
  ELSE IF c.parts[2] = "create" THEN AskOrFail(Question("value", "word", "name", "members"), c)
  ELSE IF c.parts[2] = "delete" /\ Of("configured-systems") = {} THEN Fails("SYSTEM_NOT_FOUND", c)
  ELSE IF c.parts[2] = "delete" THEN AskOrFail(Menu(Of("configured-systems"), "word", "decide"), c)
  ELSE IF c.can /\ c.parts[2] \notin Of("configured-systems") THEN Fails("SYSTEM_NOT_FOUND", c)
  ELSE AskOrFail(Menu(MenuOf("system.resource") \cup extra \cup Of("system-capabilities"), "word", "member"), c)
SystemChosen ==
  /\ AtStage("system-chosen")
  /\ cli' = IF cli.parts[2] = "list" THEN To("decide", cli) ELSE CompleteSystem(cli, {"member"})
Members == AtStage("members") /\ cli' = AskOrFail([Menu(Of("configured-devices"), "words", "decide") EXCEPT !.kind = "many"], cli)
MemberMenu ==
  /\ AtStage("member")
  /\ LET members == MembersOf[cli.parts[2]]
     IN cli' = IF cli.parts[3] # "member" THEN To("decide", cli)
               ELSE IF Len(cli.parts) = 3 THEN AskOrFail(Menu(MenuOf("system.member"), "word", "member"), cli)
               ELSE AskAmong(Menu(IF cli.parts[4] = "add" THEN Of("configured-devices") \ members ELSE members,
                             "member", "decide"), "USAGE_ERROR", cli)
SystemMenu ==
  /\ AtStage("system")
  /\ cli' = IF Root # "system" \/ Len(cli.parts) # 2 \/ cli.parts[2] = "list" THEN To("decide", cli)
            ELSE CompleteSystem(cli, {})

-----------------------------------------------------------------------------
(* The recipes of the commands: what is asked, and in which order.         *)
Field(name) == [names |-> {name}, one |-> FALSE, absent |-> FALSE, when |-> "none"]
Absent(name) == [Field(name) EXCEPT !.absent = TRUE]
OneOf(names) == [Field("none") EXCEPT !.names = names, !.one = TRUE]
Recipe(id) ==
  CASE id = "init" -> <<Absent("locale"), Field("project-name"), Absent("adapter")>>
    [] id = "config.set" -> <<Field("key"), OneOf(ScopeOptions), Field("value")>>
    [] id = "config.unset" -> <<Field("key"), OneOf(ScopeOptions)>>
    [] id = "adapter.install" -> <<Absent("root")>>
    [] id = "run.prune" -> <<OneOf(PruneModes), [Absent("keep") EXCEPT !.when = "keep"],
                             [Absent("older-than") EXCEPT !.when = "older-than"]>>
    [] OTHER -> <<>>

\* (validator.ts: a step asks for what the command has.)
ASSUME RecipesAssumption ==
  \A c \in Commands : \A k \in DOMAIN Recipe(c.id) :
    Recipe(c.id)[k].names \subseteq c.options \cup {segment.name : segment \in Range(c.path)}

\* A step that still has to be taken, given what is missing and what is known.
On(name, values) == name \in DOMAIN values /\ values[name] = "true"
NameOf(step) == CHOOSE name \in step.names : TRUE
Pending(step, missing, values) ==
  /\ step.when # "none" => On(step.when, values)
  /\ IF step.one THEN step.names \cap DOMAIN values = {}
     ELSE \/ NameOf(step) \in missing
          \/ step.absent /\ (NameOf(step) \in DOMAIN values => On(step.when, values))

\* The values of a key come from the configuration catalog.
Prompt(step, c) ==
  LET name == NameOf(step)
      as == IF \E k \in DOMAIN c.path : c.path[k] = Arg(name) THEN "word" ELSE "option"
      choices == CASE name = "key" -> DOMAIN Configurable
                   [] name = "value" -> Configurable[cli.parts[3]]
                   [] name = "locale" -> {"en", "zh-CN"}
                   [] OTHER -> {}
  IN CASE step.one -> Menu(step.names, "flag", "steps")
       [] ~step.one /\ choices # {} -> [Menu(choices, as, "steps") EXCEPT !.name = name]
       [] OTHER -> Question(IF name = "adapter" THEN "many" ELSE "value", as, name, "steps")

StepsOf(draft) == Recipe(draft.command.id) \o [k \in DOMAIN draft.missing |-> Field(draft.missing[k])]
Unanswered(draft, values) == {k \in DOMAIN StepsOf(draft) : Pending(StepsOf(draft)[k], Range(draft.missing), values)}
StepsOn ==
  /\ AtStage("steps")
  /\ \E draft \in {Draft} : \E undone \in {Unanswered(draft, cli.values)} :
       cli' = IF draft.error # "none" THEN Fails(draft.error, cli)
              ELSE IF undone = {} THEN To(IF Root = "init" THEN "initialize" ELSE "device", cli)
              ELSE AskOrFail(Prompt(StepsOf(draft)[Min(undone)], draft.command), cli)
StartRecipe ==
  /\ AtStage("recipe")
  /\ \E draft \in {Draft} :
       cli' = IF Operates \/ Decides THEN To("device", cli)
              ELSE IF draft.error # "none" THEN Fails(draft.error, cli)
              ELSE To(IF draft.command.asks /\ draft.missing # <<>> THEN "steps" ELSE "device", cli)

-----------------------------------------------------------------------------
(* The command that runs.                                                  *)
Decide ==
  /\ AtStage("decide")
  /\ cli' = IF Decides /\ ~cli.can THEN Fails("INTERACTIVE_TERMINAL_REQUIRED", cli)
            ELSE To(IF Operates THEN "operate" ELSE "final", cli)

Confirmed == {"lock.clear", "approval.approve", "approval.reject"}
Final ==
  /\ AtStage("final")
  /\ \E draft \in {Draft} : \E now \in {[cli EXCEPT !.values = Overlaid(draft.values, cli.values)]} :
       cli' = IF draft.error # "none" THEN Fails(draft.error, cli)
              ELSE IF draft.missing # <<>> THEN Fails("USAGE_ERROR", cli)
              ELSE IF draft.command.id \in Confirmed THEN To(draft.command.id, now)
              ELSE IF draft.command.handler \in Dispatched THEN Does(draft.command.id, cli.parts, now)
              ELSE Fails("UNKNOWN_COMMAND", cli)

\* The first route of main that fits, with its own check of the words.
Route(words, values) ==
  LET first(id, fits) == [id |-> id, error |-> IF fits THEN "none" ELSE "USAGE_ERROR"]
      is(root, word) == words[1] = root /\ words[2] = word
  IN IF \E word \in {"list", "scan"} : is("device", word) THEN first("device." \o words[2], Len(words) = 2)
     ELSE IF is("device", "add") THEN
       first("device.add", /\ Len(words) = 3 \/ (Len(words) = 2 /\ "name" \in DOMAIN values)
                           /\ "adapter" \in DOMAIN values)
     ELSE IF is("device", "remove") THEN first("device.remove", Len(words) = 3)
     ELSE IF words[1] = "device" THEN [id |-> "device.execute", error |-> Executable(words)]
     ELSE IF is("system", "list") THEN first("system.list", Len(words) = 2)
     ELSE IF is("system", "create") THEN
       IF Len(words) < 4 THEN first("system.create", FALSE)
       ELSE [id |-> "system.create", error |-> IF words[3] \in Of("configured-systems") THEN "CONFIG_EXISTS" ELSE "none"]
     ELSE IF is("system", "delete") THEN first("system.delete", Len(words) = 3)
     ELSE IF is("system", "member") THEN
       IF Len(words) # 5 \/ words[3] \notin {"add", "remove"} THEN first("system.member", FALSE)
       ELSE [id |-> "system.member." \o words[3],
             error |-> IF words[4] \notin Of("configured-systems") THEN "SYSTEM_NOT_FOUND"
                       ELSE IF words[3] = "remove" /\ MembersOf[words[4]] \subseteq {words[5]} THEN "SYSTEM_MEMBER_REQUIRED"
                       ELSE IF words[3] = "remove" /\ words[5] \notin MembersOf[words[4]] THEN "SYSTEM_MEMBER_NOT_FOUND"
                       ELSE IF words[3] = "add" /\ words[5] \in MembersOf[words[4]] THEN "SYSTEM_MEMBER_EXISTS"
                       ELSE "none"]
     ELSE IF words[2] \notin Of("configured-systems") THEN first("system.show", TRUE)
     ELSE IF Len(words) = 2 \/ words[3] = "show" THEN first("system.show", Len(words) <= 3)
     ELSE [id |-> "system.execute", error |-> Executable(words)]
Operate ==
  /\ AtStage("operate")
  /\ LET route == Route(cli.parts, cli.values)
     IN cli' = IF route.error = "none" THEN Does(route.id, cli.parts, cli) ELSE Fails(route.error, cli)

\* cli/commands/runtime.ts: a lock that is not stale is cleared when the line
\* says so, or when a person says so for the state that was just shown.
Flag(state) == IF state = "active" THEN ClearActive ELSE ClearQuarantined
ConfirmClear ==
  /\ AtStage("lock.clear")
  /\ cli' = IF On(ClearActive, cli.values) \/ On(ClearQuarantined, cli.values) THEN To("clear", cli)
            ELSE IF resources.lock = "free" THEN Fails("LOCK_NOT_FOUND", cli)
            ELSE IF resources.lock # "stale" /\ cli.can
                 THEN AskOrFail(Question("confirm", "option", Flag(resources.lock), "clear"), cli)
            ELSE To("clear", cli)
Decision(id) == IF id = "approval.approve" THEN "approve" ELSE "reject"
ConfirmDecision ==
  /\ cli.at \in {"approval.approve", "approval.reject"} /\ UNCHANGED resources
  /\ cli' = AskOrFail(Question("confirm", "option", cli.at, Decision(cli.at)), cli)

Needed(state) ==
  CASE state = "active" -> {ClearActive}
    [] state = "quarantined" -> {ClearQuarantined}
    [] state = "quarantine-failed" -> {ClearActive, ClearQuarantined}
    [] OTHER -> {}
\* (mutant: what was agreed to is enough for whatever lock is there)
ClearUnread ==
  /\ cli.at = "clear"
  /\ IF resources.lock # "free" /\ \E state \in LockStates : \E flag \in Needed(state) : On(flag, cli.values)
     THEN cli' = Does("lock.clear", cli.parts, cli) /\ resources' = [resources EXCEPT !.lock = "free"]
     ELSE cli' = Fails("DANGEROUS_CONFIRMATION_REQUIRED", cli) /\ UNCHANGED resources
Clear ==
  /\ cli.at = "clear"
  /\ IF resources.lock # "free" /\ \A flag \in Needed(resources.lock) : On(flag, cli.values)
     THEN cli' = Does("lock.clear", cli.parts, cli) /\ resources' = [resources EXCEPT !.lock = "free"]
     ELSE cli' = Fails("DANGEROUS_CONFIRMATION_REQUIRED", cli) /\ UNCHANGED resources
ResolveApproval ==
  /\ cli.at \in {"approve", "reject"}
  /\ IF resources.approval = "pending"
     THEN /\ cli' = Does("approval." \o cli.at, cli.parts, cli)
          /\ resources' = [resources EXCEPT !.approval = cli.at]
     ELSE cli' = Fails("APPROVAL_NOT_PENDING", cli) /\ UNCHANGED resources

-----------------------------------------------------------------------------
(* A person answers, goes back or leaves; others work meanwhile.           *)
Puts(answer, c) ==
  LET p == c.ask
      given(name, value) == [c EXCEPT !.values = Overlaid([n \in {name} |-> value], c.values)]
  IN CASE p.as = "word" -> [c EXCEPT !.parts = Append(@, answer)]
       [] p.as = "path" -> [c EXCEPT !.parts = <<answer>>]
       [] p.as = "words" -> [c EXCEPT !.parts = @ \o SetToSeq(answer)]
       [] p.as = "member" -> [c EXCEPT !.parts = <<"system", "member", c.parts[4], c.parts[2], answer>>]
       [] p.as = "flag" -> given(answer, "true")
       [] p.as = "found" -> [c EXCEPT !.values = Overlaid([adapter |-> Scan[answer], identity |-> answer], c.values)]
       [] p.as = "option" -> given(p.name, answer)

Answers(answer) ==
  cli' = [Puts(answer, cli) EXCEPT
            !.at = cli.ask.to, !.ask = NoPrompt, !.asked = TRUE, !.expect = {},
            !.backs = IF cli.ask.back = <<>> THEN @ ELSE Append(@, cli.ask.back),
            !.seen = IF cli.ask.back = <<>> THEN @ ELSE Append(@, cli.ask.choices)]
Asked(kind) == AtStage("asked") /\ cli.ask.kind = kind

Choose == (Asked("menu") \/ Asked("value")) /\ \E answer \in cli.ask.choices : Answers(answer)
Tick ==
  /\ Asked("many")
  /\ \/ cli.ask.as = "option" /\ Answers(Typed)
     \/ cli.ask.as = "words" /\ \E answer \in SUBSET cli.ask.choices :
          IF answer = {} THEN cli' = Fails("INVALID_SYSTEM_CONFIG", cli) ELSE Answers(answer)
Confirm ==
  /\ Asked("confirm")
  /\ \/ cli' = [Puts("true", cli) EXCEPT !.at = cli.ask.to, !.ask = NoPrompt, !.asked = TRUE, !.agreed = cli.ask.name]
     \/ cli' = Fails("none", cli)

\* Main starts again, with the options of the line and without its words.
Back ==
  /\ Asked("menu") \/ Asked("many")
  /\ cli.backs # <<>> /\ cli.turns < MaxBacks
  /\ cli' = [Beginning(cli.argv, cli.can, cli.fresh) EXCEPT
               !.at = "version", !.parts = Last(cli.backs), !.values = FirstValues(FirstRead(cli.argv)),
               !.resumed = TRUE, !.backs = Front(cli.backs), !.asked = TRUE,
               !.seen = Front(cli.seen), !.expect = Last(cli.seen), !.turns = cli.turns + 1]
LeavePrompt == AtStage("asked") /\ cli' = Fails("INTERACTION_CANCELLED", [cli EXCEPT !.expect = {}])

\* (What they do before a question for consent is seen by it.)
OthersWork ==
  /\ cli.at = "asked" /\ cli.ask.kind = "confirm" /\ UNCHANGED cli
  /\ \/ Root = "lock" /\ \E state \in LockStates : resources' = [resources EXCEPT !.lock = state]
     \/ Root = "approval" /\ resources.approval = "pending"
        /\ \E status \in {"approve", "reject", "expired"} : resources' = [resources EXCEPT !.approval = status]

CliNext ==
  \/ ReadLine \/ VersionText \/ HelpText \/ HomePage \/ HomeChosen \/ Upgrade \/ InitProject \/ Initialize \/ Parse
  \/ Navigate \/ Navigated \/ GroupMenu \/ DeviceChosen \/ NameDevice \/ DeviceMenu \/ SystemChosen \/ Members \/ MemberMenu \/ SystemMenu
  \/ StartRecipe \/ StepsOn \/ Decide \/ Final \/ Operate \/ ConfirmClear \/ ConfirmDecision \/ Clear \/ ResolveApproval
  \/ Choose \/ Tick \/ Confirm \/ Back \/ LeavePrompt \/ OthersWork

CliSpec == CliInit /\ [][CliNext]_cliVars

-----------------------------------------------------------------------------
\* Every entry of a help is written as a command that is there.
ListsCommands(words) ==
  words # <<>> =>
    \A entry \in HelpEntries(ResolvePath(words), words) :
      \E found \in {ResolvePath(entry.words)} : found.error = "COMMAND_UNAVAILABLE" \/ found.command.id = entry.id

\* What a line says is what it does: a line that the help describes runs the
\* command of that help, with its words and options, and no conversation that
\* began as the help says and was led by the menus ends in an error of the
\* parsers; the routes of main, the menus, both parsers and the graph agree on
\* the command, and so does every entry of a help.  A conversation ends in an
\* error of usage only where the menu of a system offers to add a member and no
\* device is left to add.  The menu that going back shows is the one that was
\* left.
NoneLeftToAdd(words) ==
  /\ Len(words) = 4 /\ words[1] = "system" /\ words[3] = "member" /\ words[4] = "add"
  /\ Of("configured-devices") \subseteq MembersOf[words[2]]
RefusedWords == {"UNKNOWN_COMMAND", "AMBIGUOUS_COMMAND", "UNKNOWN_OPTION", "MISSING_OPTION_VALUE", "DUPLICATE_OPTION",
                 "OPTION_CONFLICT"}
SaysWhatItDoes ==
  /\ cli.at = "end" =>
       /\ cli.did.error \notin RefusedWords
       /\ cli.did.id # "none" => ResolvePath(cli.did.words).command.id = cli.did.id
       /\ cli.did.id = "help" => ListsCommands(Tail(cli.did.words))
       /\ cli.asked /\ cli.did.error = "USAGE_ERROR" => NoneLeftToAdd(cli.parts)
       /\ ~cli.asked => \A d \in Documented : cli.argv = d.argv =>
            /\ cli.did.error # "USAGE_ERROR"
            /\ cli.did.id \notin {"none", "help"} => <<cli.did.id, cli.did.words, cli.did.values>> = <<d.id, d.words, d.values>>
  /\ cli.expect # {} => cli.at # "end" /\ (cli.at = "asked" => cli.ask.choices = cli.expect)

\* A lock that is in use or in quarantine is cleared only if the line or a
\* person agreed to that for a lock in this state, whatever happened to it
\* while the question waited; an approval is decided by a person, once.
Consented ==
  [][resources' # resources =>
       /\ cli.at = "clear" =>
            Needed(resources.lock) \subseteq Names(FirstRead(cli.argv).options) \cup {cli.agreed}
       /\ cli.at \in {"approve", "reject"} =>
            resources.approval = "pending" /\ resources'.approval = Decision(cli.agreed)]_cliVars
===============================================================================
