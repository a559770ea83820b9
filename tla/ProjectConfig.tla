----------------------------- MODULE ProjectConfig -----------------------------
(* The commands that edit the project's configuration: device add and remove, *)
(* system create, delete and member, adapter enable and disable (cli/index.ts,*)
(* application/adapters/management-use-case.ts), all through                  *)
(* editConfiguration (application/config/use-case.ts).                        *)
(*                                                                            *)
(* A command loads the whole configuration when it starts. It may then wait   *)
(* for a person in its menus. What it checks, and the lists it extends, come  *)
(* from what it loaded: one member or adapter is changed by writing a whole   *)
(* list anew. The edit itself reads the file again, sets one key, validates   *)
(* the whole and renames a new file over the old. Nothing locks it, and every *)
(* command may be killed. The file is the set of the facts in it.             *)
EXTENDS Naturals, FiniteSets

CONSTANTS
  Command,       \* processes that run such commands
  Devices,       \* devices that may be configured
  Adapters,      \* adapters that may be enabled
  MaxEdits    \* bound: commands that are started

ASSUME DevicesAssumption == Devices # {}

VARIABLES
  project,       \* the facts of benchpilot.toml
  editor,        \* per process: where its command is, what it loaded, asks and wrote
  started        \* commands started
configVars == <<project, editor, started>>

Configured(d) == <<"device", d>>         \* [devices.d] with its adapter
Port(d) == <<"port", d>>
MemberOf(d) == <<"member", d>>         \* d is listed in systems.s.members
Enabled(x) == <<"enabled", x>>       \* x is listed in adapters.enabled
System == {MemberOf(d) : d \in Devices}
AdapterList == {Enabled(x) : x \in Adapters}

(* core/config/config.ts: every member of a system is a configured device.    *)
(* A port without the adapter of its device is not a device.                  *)
ValidDraft(facts) == \A d \in Devices :
  (MemberOf(d) \in facts \/ Port(d) \in facts) => Configured(d) \in facts
Unvalidated(facts) == TRUE   \* mutant
Validate(facts) == ValidDraft(facts)

(* An edit takes the facts `drop` out of the file and puts others in; `asks`  *)
(* is what the person asked to have changed, which of a list is one entry.    *)
EditOf(asks, drop, put) == [asks |-> asks, drop |-> drop, put |-> put, port |-> {}]
NoEdit == EditOf({}, {}, {})
NoCommand == [at |-> "idle", loaded |-> {}, edit |-> NoEdit, draft |-> {}, since |-> {}]

ConfigInit ==
  /\ project \in {{}, {Configured(d) : d \in Devices} \cup {MemberOf(CHOOSE d \in Devices : TRUE)}}
  /\ editor = [c \in Command |-> NoCommand]
  /\ started = 0

(* The request opens: every layer is read, merged and validated.              *)
Load(c) ==
  /\ editor[c].at = "idle" /\ started < MaxEdits
  /\ editor' = [editor EXCEPT ![c] = [NoCommand EXCEPT !.at = "asked", !.loaded = project]]
  /\ started' = started + 1
  /\ UNCHANGED project

(* What the command will edit, from its arguments and from what was loaded.   *)
AddDevice == UNION {{EditOf({Configured(d)}, {}, {Configured(d)}),
                     [EditOf({Configured(d)}, {}, {Configured(d)}) EXCEPT !.port = {Port(d)}]} : d \in Devices}
RemoveDevice == {EditOf({Configured(d), Port(d)}, {Configured(d), Port(d)}, {}) : d \in Devices}
CreateSystem(loaded) == IF loaded \cap System /= {} THEN {}
  ELSE {EditOf(members, System, members) : members \in SUBSET System \ {{}}}
DeleteSystem == {EditOf(System, System, {})}
ListWith(list, loaded) == {EditOf({m}, list, (loaded \cap list) \cup {m}) : m \in list \ loaded}
ListWithout(list, loaded) == {EditOf({m}, list, (loaded \cap list) \ {m}) : m \in list \cap loaded}
AddMember(loaded) == IF loaded \cap System = {} THEN {} ELSE ListWith(System, loaded)
RemoveMember(loaded) == IF Cardinality(loaded \cap System) < 2 THEN {} ELSE ListWithout(System, loaded)
SetEnabled(loaded) == ListWith(AdapterList, loaded) \cup ListWithout(AdapterList, loaded)

Ask(c) == LET loaded == editor[c].loaded IN
  /\ editor[c].at = "asked"
  /\ \E edit \in AddDevice \cup RemoveDevice \cup CreateSystem(loaded) \cup DeleteSystem
                 \cup AddMember(loaded) \cup RemoveMember(loaded) \cup SetEnabled(loaded) :
       editor' = [editor EXCEPT ![c].at = "read", ![c].edit = edit]
  /\ UNCHANGED <<project, started>>

(* The file that the key is set in: read again, or else what was loaded.      *)
BaseLoaded(loaded, file) == loaded   \* mutant
Base(loaded, file) == file

ReadFile(c) == LET e == editor[c]
                   draft == (Base(e.loaded, project) \ e.edit.drop) \cup e.edit.put IN
  /\ e.at = "read"
  /\ editor' = [editor EXCEPT ![c] = IF Validate(draft) THEN [e EXCEPT !.at = "rename", !.draft = draft, !.since = {}]
                                     ELSE NoCommand]
  /\ UNCHANGED <<project, started>>

(* The draft is renamed over the file. device add then edits the port, as a   *)
(* second edit of its own. `since`: what the others changed since a read.     *)
Changed(old, new) == (old \ new) \cup (new \ old)
Rename(c) == LET e == editor[c] IN
  /\ e.at = "rename"
  /\ project' = e.draft
  /\ editor' = [o \in Command |->
       IF o /= c THEN [editor[o] EXCEPT !.since = editor[o].since \cup Changed(project, e.draft)]
       ELSE IF e.edit.port = {} THEN NoCommand
       ELSE [e EXCEPT !.at = "read", !.edit = EditOf(e.edit.port, {}, e.edit.port)]]
  /\ UNCHANGED started

Dies(c) ==
  /\ editor[c].at \in {"read", "rename"}
  /\ editor' = [editor EXCEPT ![c] = NoCommand]
  /\ UNCHANGED <<project, started>>

ConfigNext == \E c \in Command : Load(c) \/ Ask(c) \/ ReadFile(c) \/ Rename(c) \/ Dies(c)

ConfigSpec == ConfigInit /\ [][ConfigNext]_configVars

Facts == {Configured(d) : d \in Devices} \cup {Port(d) : d \in Devices} \cup System \cup AdapterList
Edits == [asks : SUBSET Facts, drop : SUBSET Facts, put : SUBSET Facts, port : SUBSET Facts]
Editing == [at : {"idle", "asked", "read", "rename"}, loaded : SUBSET Facts, edit : Edits,
            draft : SUBSET Facts, since : SUBSET Facts]

ConfigTypeOK ==
  /\ project \in SUBSET Facts
  /\ editor \in [Command -> Editing]
  /\ started \in Nat

(* editConfiguration: at every moment, whatever commands interleave or die,   *)
(* the file is one that the next command can load.                            *)
AlwaysLoads == ValidDraft(project)

(* A command leaves a valid file. What it did not ask to have changed stays   *)
(* as it is, however long a person took in its menus, unless another command  *)
(* changed it between this one's reading and its renaming of the file         *)
(* (config/use-case.ts:52), or it is of the list that is written anew, and is *)
(* no longer as this command loaded it (management-use-case.ts:51): only what *)
(* is newer than the load can be lost, and of the rest of the file only what  *)
(* is newer than the reading.                                                 *)
NewerThanLoad(e) == e.edit.drop \cap Changed(e.loaded, project)
OlderChangesStay == [][project' # project => AlwaysLoads' /\ \A c \in Command :
  (editor[c].at = "rename" /\ editor'[c].at /= "rename") =>
     Changed(project, project') \subseteq
       editor[c].edit.asks \cup editor[c].since \cup NewerThanLoad(editor[c])]_configVars
================================================================================
