------------------------------ MODULE ProjectInit ------------------------------
(* `init` (cli/commands/init.ts, application/init/use-case.ts): it creates    *)
(* benchpilot.toml, then config.local.toml and .gitignore in .benchpilot, each*)
(* by a link that fails when the name is taken, and removes what it created   *)
(* when a step fails; where there is a benchpilot.toml it adopts it, and adds *)
(* what is missing. Two may run in a directory, and each may be killed.       *)
EXTENDS Naturals, FiniteSets, Sequences

CONSTANTS
  Starter,      \* processes that run init
  MaxInits      \* bound: commands that are started

VARIABLES
  folder,       \* the files there are; whether .benchpilot is a directory; whether
                \* two commands overlapped, or one died while it took back its files
  starter,      \* per process: where it is, what it created
  inits         \* commands started
initVars == <<folder, starter, inits>>

Files == {"config", "local", "ignore"}
Order == <<"config", "local", "ignore">>
LocalFirst == <<"local", "config", "ignore">>   \* mutant
CreationOrder == Order

NoInit == [at |-> "idle", step |-> 1, created |-> {}, existed |-> FALSE]

FolderInit ==
  /\ folder \in [files : {{}}, dir : BOOLEAN, disturbed : {FALSE}]
  /\ starter = [i \in Starter |-> NoInit]
  /\ inits = 0

InitEnded == {"idle", "done", "failed", "refused", "dead"}
Moves(i, at) == starter' = [starter EXCEPT ![i].at = at]

(* A command starts: it adopts a configuration that is there, refuses files   *)
(* of an earlier initialization, or makes the directory.                      *)
StartInit(i) ==
  /\ starter[i].at \in InitEnded /\ inits < MaxInits
  /\ inits' = inits + 1
  /\ folder' = [folder EXCEPT !.disturbed = folder.disturbed \/ \E j \in Starter \ {i} : starter[j].at \notin InitEnded]
  /\ starter' = [starter EXCEPT ![i] = [NoInit EXCEPT !.at = IF "config" \in folder.files THEN "adopt" ELSE "fresh"]]

CreateDirectory(i) ==
  /\ starter[i].at = "fresh"
  /\ IF folder.files \cap {"local", "ignore"} /= {}
     THEN Moves(i, "refused") /\ UNCHANGED folder
     ELSE /\ folder' = [folder EXCEPT !.dir = TRUE]
          /\ starter' = [starter EXCEPT ![i].at = "create", ![i].existed = folder.dir]
  /\ UNCHANGED inits

(* The next file is linked; or its name is taken, its directory is gone, or   *)
(* the disk is full.                                                          *)
CreateFile(i) == LET file == CreationOrder[starter[i].step] IN
  /\ starter[i].at = "create"
  /\ \/ /\ file \notin folder.files /\ (file = "config" \/ folder.dir)
        /\ folder' = [folder EXCEPT !.files = @ \cup {file}]
        /\ starter' = [starter EXCEPT ![i].created = starter[i].created \cup {file}, ![i].step = starter[i].step + 1,
                                      ![i].at = IF starter[i].step = Len(CreationOrder) THEN "done" ELSE "create"]
     \/ Moves(i, "rollback") /\ UNCHANGED folder
  /\ UNCHANGED inits

TakeBack(i) ==
  /\ starter[i].at = "rollback"
  /\ IF starter[i].created = {}
     THEN /\ folder' = [folder EXCEPT !.dir = folder.dir /\ (starter[i].existed \/ folder.files \cap {"local", "ignore"} /= {})]
          /\ Moves(i, "failed")
     ELSE \E file \in starter[i].created :
          /\ folder' = [folder EXCEPT !.files = @ \ {file}]
          /\ starter' = [starter EXCEPT ![i].created = @ \ {file}]
  /\ UNCHANGED inits

(* Adopting: the directory is made, and each file that was not there when it  *)
(* was looked for is linked.                                                  *)
Adopt(i) ==
  /\ starter[i].at = "adopt"
  /\ folder' = [folder EXCEPT !.dir = TRUE]
  /\ starter' = [starter EXCEPT ![i].at = "look", ![i].step = 2]
  /\ UNCHANGED inits

Look(i) == LET s == starter[i] IN
  /\ s.at = "look"
  /\ starter' = [starter EXCEPT ![i] =
       IF s.step > 3 THEN [s EXCEPT !.at = "done"]
       ELSE IF Order[s.step] \in folder.files THEN [s EXCEPT !.step = s.step + 1]
       ELSE [s EXCEPT !.at = "add"]]
  /\ UNCHANGED <<folder, inits>>

AddMissing(i) == LET file == Order[starter[i].step] IN
  /\ starter[i].at = "add"
  /\ \/ /\ file \notin folder.files /\ folder.dir
        /\ folder' = [folder EXCEPT !.files = @ \cup {file}]
        /\ starter' = [starter EXCEPT ![i].at = "look", ![i].step = starter[i].step + 1]
     \/ Moves(i, "failed") /\ UNCHANGED folder
  /\ UNCHANGED inits

InitDies(i) ==
  /\ starter[i].at \notin InitEnded
  /\ folder' = [folder EXCEPT !.disturbed = folder.disturbed \/ starter[i].at = "rollback"]
  /\ Moves(i, "dead")
  /\ UNCHANGED inits

FolderNext == \E i \in Starter :
  StartInit(i) \/ CreateDirectory(i) \/ CreateFile(i) \/ TakeBack(i) \/ Adopt(i) \/ Look(i) \/ AddMissing(i) \/ InitDies(i)

FolderSpec == FolderInit /\ [][FolderNext]_initVars

Starting == [at : {"fresh", "create", "rollback", "adopt", "look", "add"} \cup InitEnded, step : 1 .. 4,
             created : SUBSET Files, existed : BOOLEAN]
FolderTypeOK ==
  /\ folder \in [files : SUBSET Files, dir : BOOLEAN, disturbed : BOOLEAN]
  /\ starter \in [Starter -> Starting]
  /\ inits \in Nat

(* application/init/use-case.ts: a command that succeeded left all three      *)
(* files, and whatever an earlier one left, by failing or by being killed,    *)
(* the next one is not refused: it starts again or adopts and completes it.   *)
(* Not so once two overlapped, or one was killed while it took back its files.*)
InitCompletes == ~folder.disturbed => \A i \in Starter :
  /\ starter[i].at /= "refused"
  /\ starter[i].at = "done" => folder.files = Files
================================================================================
