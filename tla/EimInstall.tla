------------------------------ MODULE EimInstall ------------------------------
(* The installation of a tool chain through Espressif's Installation Manager  *)
(* (adapters/runtime/eim-installer.ts, called by                              *)
(* application/adapters/installation-use-case.ts).                            *)
(*                                                                            *)
(* An installer learns the latest release and its digest, takes the archive   *)
(* from its cache or downloads it under a name of its own and renames it,     *)
(* unpacks it into a directory of the release, runs it, verifies what it      *)
(* installed and only then writes the configuration. Nothing locks the        *)
(* directory: two installers may work in it, either may be killed anywhere,   *)
(* a release may be published between two attempts, and what an earlier       *)
(* version left in the cache may be anything. The bytes of an archive are the *)
(* release they belong to.                                                    *)
(*                                                                            *)
(* While the manager runs, its output and the size of the file that it        *)
(* downloads are turned into progress events: `progress`.                     *)
EXTENDS Naturals, FiniteSets

CONSTANTS
  Installer,   \* processes that install into the same directory
  Releases,    \* releases 1 .. Releases are published one after the other
  Download,    \* tools 1 .. Download that the manager downloads
  MaxTicks     \* bound: readings of the size of a file

ASSUME EimAssumption == Releases \in Nat \ {0} /\ Download \in Nat

VARIABLES
  directory,   \* latest release, cached archive, unpacked managers, what is installed and configured
  installer    \* per installer: where it is, the release it resolved, the bytes it holds
installVars == <<directory, installer>>

VARIABLE progress  \* the parser of the manager's output and the monitor of its downloads

Nothing == 0
Foreign == Releases + 1      \* bytes that no release published
Torn == Releases + 2         \* a file that is being written
IsRelease(bytes) == bytes \in 1 .. Releases

New == [at |-> "idle", release |-> Nothing, bytes |-> Nothing, shared |-> FALSE, interrupted |-> FALSE]

InstallInit ==
  /\ directory \in [latest : {1}, cached : {Nothing, 1, Foreign}, unpacked : {[r \in 1 .. Releases |-> Nothing]},
                     installed : {"nothing"}, configured : {FALSE}]
  /\ installer = [i \in Installer |-> New]

InstallerGoes(i, at) == installer' = [installer EXCEPT ![i].at = at]
At(i, at) == installer[i].at = at

(* A new release appears on GitHub. *)
Publish ==
  /\ directory.latest < Releases
  /\ directory' = [directory EXCEPT !.latest = directory.latest + 1]
  /\ UNCHANGED installer

(* The installer found git and asks for the latest stable release and its     *)
(* SHA-256, by the API or the release page; without a digest it fails.        *)
ResolveRelease(i) ==
  /\ At(i, "idle")
  /\ \/ installer' = [installer EXCEPT ![i].at = "cache", ![i].release = directory.latest]
     \/ InstallerGoes(i, "failed")
  /\ UNCHANGED directory

(* A cached archive is used when its digest is the published one.             *)
UsableWhenPresent(bytes, release) == bytes \in 1 .. Foreign   \* mutant
Usable(bytes, release) == bytes = release

CheckCache(i) ==
  /\ At(i, "cache")
  /\ InstallerGoes(i, IF directory.cached /= Nothing /\ Usable(directory.cached, installer[i].release)
             THEN "unpack" ELSE "download")
  /\ UNCHANGED directory

(* The bytes go to a file named for the process and the time, and are hashed  *)
(* as they arrive; the wrong ones are removed and the installation fails.     *)
FetchArchive(i) ==
  /\ At(i, "download")
  /\ \E bytes \in {installer[i].release, directory.latest, Foreign} :
       IF Usable(bytes, installer[i].release)
       THEN installer' = [installer EXCEPT ![i].at = "remove", ![i].bytes = bytes]
       ELSE InstallerGoes(i, "failed")
  /\ UNCHANGED directory

RemoveCached(i) ==
  /\ At(i, "remove")
  /\ directory' = [directory EXCEPT !.cached = Nothing]
  /\ InstallerGoes(i, "rename")

RenameArchive(i) ==
  /\ At(i, "rename")
  /\ directory' = [directory EXCEPT !.cached = installer[i].bytes]
  /\ installer' = [installer EXCEPT ![i].at = "unpack", ![i].bytes = Nothing]

(* unzip -o opens whatever archive has the name by now, writes over what the  *)
(* directory of the release holds, and the executable is looked up in it.     *)
(* `shared`: another installer wrote there since this one began.              *)
Unpackers(i) == {j \in Installer \ {i} : installer[j].release = installer[i].release /\ At(j, "unpacking")}

UnpackStarts(i) ==
  /\ At(i, "unpack")
  /\ IF directory.cached = Nothing
     THEN InstallerGoes(i, "failed") /\ UNCHANGED directory
     ELSE /\ directory' = [directory EXCEPT !.unpacked[installer[i].release] = Torn]
          /\ installer' = [j \in Installer |->
               IF j = i THEN [installer[i] EXCEPT !.at = "unpacking", !.bytes = directory.cached,
                                                  !.shared = Unpackers(i) /= {}]
               ELSE IF installer[j].release = installer[i].release THEN [installer[j] EXCEPT !.shared = TRUE]
               ELSE installer[j]]

UnpackEnds(i) ==
  /\ At(i, "unpacking")
  /\ directory' = [directory EXCEPT !.unpacked[installer[i].release] =
                     IF Unpackers(i) = {} THEN installer[i].bytes ELSE Torn]
  /\ installer' = [installer EXCEPT ![i].at = "start", ![i].bytes = Nothing]

(* Ctrl-C is held by a listener until the manager has ended: it aborts the    *)
(* run of the manager, which an aborted signal does not even start.           *)
Interrupt(i) ==
  /\ installer[i].at \in {"cache", "download", "remove", "rename", "unpack", "unpacking", "start", "managing"}
  /\ ~installer[i].interrupted
  /\ installer' = [installer EXCEPT ![i].interrupted = TRUE]
  /\ UNCHANGED directory

StartManager(i) ==
  /\ At(i, "start")
  /\ IF installer[i].interrupted
     THEN InstallerGoes(i, "failed") /\ UNCHANGED directory
     ELSE /\ InstallerGoes(i, "managing")
          /\ directory' = [directory EXCEPT !.installed = "parts"]

(* The manager ends: complete with its state file, in parts with an error,    *)
(* killed by the abort; or, at worst, in parts with the exit code of success. *)
ManagerEnds(i) ==
  /\ At(i, "managing")
  /\ IF installer[i].interrupted
     THEN InstallerGoes(i, "failed") /\ UNCHANGED directory
     ELSE \/ InstallerGoes(i, "verify") /\ \E left \in {"whole", "parts"} : directory' = [directory EXCEPT !.installed = left]
          \/ InstallerGoes(i, "failed") /\ UNCHANGED directory

(* Every path of the state file is there, the activation script yields the    *)
(* environment and five programs answer in it.                                *)
Verify(i) ==
  /\ At(i, "verify")
  /\ InstallerGoes(i, IF directory.installed = "whole" THEN "persist" ELSE "failed")
  /\ UNCHANGED directory

PersistVerified(i) ==
  /\ At(i, "persist")
  /\ directory' = [directory EXCEPT !.configured = TRUE]
  /\ InstallerGoes(i, "done")

(* The installer is killed: with the second Ctrl-C, or after the manager has  *)
(* ended with the first. The user tries again.                                *)
Killed(i) ==
  /\ installer[i].at \notin {"idle", "done", "failed"}
  /\ InstallerGoes(i, "failed") /\ UNCHANGED directory

TryAgain(i) ==
  /\ At(i, "failed")
  /\ installer' = [installer EXCEPT ![i] = New]
  /\ UNCHANGED directory

InstallStep(i) ==
  \/ ResolveRelease(i) \/ CheckCache(i) \/ FetchArchive(i) \/ RemoveCached(i)
  \/ RenameArchive(i) \/ UnpackStarts(i) \/ UnpackEnds(i) \/ Interrupt(i) \/ StartManager(i)
  \/ ManagerEnds(i) \/ Verify(i) \/ PersistVerified(i) \/ Killed(i) \/ TryAgain(i)
InstallNext == Publish \/ \E i \in Installer : InstallStep(i)

InstallSpec == InstallInit /\ [][InstallNext]_installVars

Managers == [1 .. Releases -> 0 .. Torn]
Directories == [latest : 1 .. Releases, cached : 0 .. Foreign, unpacked : Managers,
                installed : {"nothing", "parts", "whole"}, configured : BOOLEAN]
Installing == [at : {"idle", "cache", "download", "remove", "rename", "unpack", "unpacking", "start", "managing",
                     "verify", "persist", "done", "failed"},
               release : 0 .. Releases, bytes : 0 .. Foreign, shared : BOOLEAN, interrupted : BOOLEAN]

InstallTypeOK == directory \in Directories /\ installer \in [Installer -> Installing]

(* eim-installer.ts downloadVerified: whatever an attempt or an earlier       *)
(* version left, however two installers interleave and whichever release      *)
(* appears meanwhile, the manager that an installer starts is one that was    *)
(* published; it is half written only when another one unpacked there too.    *)
RunsPublished == \A i \in Installer :
  At(i, "start") => LET exe == directory.unpacked[installer[i].release] IN
    IsRelease(exe) \/ (exe = Torn /\ installer[i].shared)

-------------------------------------------------------------------------------
(* Progress. An observation reads tools.json, then the size of the archive    *)
(* (a tick), then starts a timer that ticks again.                            *)
Idle == [tool |-> Nothing, generation |-> 0, first |-> FALSE]

ProgressInit == progress =
  [active |-> Nothing, extracted |-> 0, shown |-> [t \in 1 .. Download |-> "hidden"], late |-> [t \in 1 .. Download |-> 0],
   generation |-> 0, reading |-> {}, tick |-> Idle, timer |-> Idle, ticks |-> 0]

(* stop(): a new generation, and no timer. *)
StoppedTimerOnly(p) == [p EXCEPT !.timer = Idle]   \* mutant
Stopped(p) == [p EXCEPT !.generation = p.generation + 1, !.timer = Idle]

(* "Tool '...' is not installed. Downloading": begin() stops, then observes.  *)
Downloading == \E t \in 1 .. Download :
  /\ progress.shown[t] = "hidden" /\ progress.active = Nothing
  /\ progress' = LET p == Stopped(progress) IN
       [p EXCEPT !.active = t, !.shown[t] = "running",
                 !.reading = p.reading \cup {[tool |-> t, generation |-> p.generation, first |-> TRUE]}]

(* "Successfully extracted": the download and one of the tools are completed. *)
Extracted ==
  /\ progress.active /= Nothing
  /\ progress' = [Stopped(progress) EXCEPT !.active = Nothing, !.extracted = progress.extracted + 1,
                                           !.shown[progress.active] = "completed"]

(* The manager prints its own progress of a download. *)
Transferred ==
  /\ progress.active /= Nothing
  /\ progress' = [progress EXCEPT !.shown[progress.active] = "running"]

(* tools.json was read: an observation that was stopped ends, another one     *)
(* ticks, or leaves it to the tick that is still under way.                   *)
MetadataRead == \E o \in progress.reading :
  progress' = [progress EXCEPT
    !.reading = progress.reading \ {o},
    !.tick = IF o.generation = progress.generation /\ progress.tick = Idle THEN o ELSE progress.tick,
    !.timer = IF o.generation = progress.generation /\ progress.tick /= Idle THEN [o EXCEPT !.first = FALSE]
              ELSE progress.timer]

TimerFires ==
  /\ progress.timer /= Idle /\ progress.tick = Idle /\ progress.ticks < MaxTicks
  /\ progress.timer.generation = progress.generation
  /\ progress' = [progress EXCEPT !.tick = progress.timer, !.ticks = progress.ticks + 1]

(* The size is known. What the tick reports is not compared with the          *)
(* generation again: the tool may have been completed since.                  *)
TickEnds == \E grown \in BOOLEAN : LET t == progress.tick.tool IN
  /\ t /= Nothing
  /\ progress' = [progress EXCEPT
       !.shown[t] = IF grown THEN "running" ELSE progress.shown[t],
       !.late[t] = IF grown /\ progress.active /= t THEN progress.late[t] + 1 ELSE progress.late[t],
       !.tick = Idle,
       !.timer = IF progress.tick.first /\ progress.tick.generation = progress.generation
                 THEN [progress.tick EXCEPT !.first = FALSE] ELSE progress.timer]

ProgressNext == Downloading \/ Extracted \/ Transferred \/ MetadataRead \/ TimerFires \/ TickEnds

ProgressSpec == ProgressInit /\ [][ProgressNext]_progress

Observation == [tool : 1 .. Download, generation : Nat, first : BOOLEAN]
Progressing ==
  [active : 0 .. Download, extracted : Nat, shown : [1 .. Download -> {"hidden", "running", "completed"}],
   late : [1 .. Download -> Nat], generation : Nat, reading : SUBSET Observation,
   tick : Observation \cup {Idle}, timer : Observation \cup {Idle}, ticks : Nat]

ProgressTypeOK == progress \in Progressing

(* eim-installer.ts EimDownloadFileMonitor: a download that was reported as   *)
(* completed is reported as running at most once more, by the reading of its  *)
(* size that was under way when it was stopped.                               *)
LateAtMostOnce == \A t \in 1 .. Download : progress.late[t] <= 1

(* eim-installer.ts: what is installed was published, and what is shown of    *)
(* the manager's downloads settles.                                           *)
InstallSafe == RunsPublished /\ LateAtMostOnce
===============================================================================
