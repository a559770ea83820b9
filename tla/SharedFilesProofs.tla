-------------------------- MODULE SharedFilesProofs --------------------------
(***************************************************************************)
(* Proofs about the files that processes write beside each other without a *)
(* lock, or that a kill leaves half done: the tool manager, a bundle of    *)
(* adapters, .benchpilot, benchpilot.toml and the artifacts of a run.      *)
(*                                                                         *)
(* EimInstall.  Whoever is about to put an archive in the cache holds the  *)
(* release that it resolved, so nothing else is ever cached or unpacked    *)
(* (ArchiveInv); whoever unpacks where another one does knows of it        *)
(* (SharedInv).  Of the progress: what observes a download is of this      *)
(* generation (ObservedInv), so a completed tool is shown as running once  *)
(* more at most (OnceInv).                                                 *)
(*                                                                         *)
(* BundlePublish.  There always is a build, in its place or aside of a     *)
(* compiler that will move it back, unless one could not (PlaceInv); what  *)
(* a loader has read is of one build (LoadInv).                            *)
(*                                                                         *)
(* ProjectInit.  While one command at a time works and none died as it     *)
(* took back its files, what is there tells how far it has come            *)
(* (AloneInv).                                                             *)
(*                                                                         *)
(* ProjectConfig.  A draft that is about to be renamed is valid, and it    *)
(* differs from the file as it is now in nothing but what was asked for,   *)
(* what others changed since it was read, and, in the list that is written *)
(* anew, what is not as the command loaded it (DraftInv, ListInv).         *)
(*                                                                         *)
(* FileCommit.  At each place of the copy, what is at the target and at    *)
(* its backup (CopyInv); every file of a collection has its record, except *)
(* the one at hand, and every record its file, unless a later collection   *)
(* took the name (CollectInv).                                             *)
(***************************************************************************)
EXTENDS EimInstall, BundlePublish, ProjectInit, ProjectConfig, FileCommit, TLAPS

\* What an installer is about to use is of the release that it resolved, or at
\* least was published: nobody puts anything else in the cache.
ArchiveInv == \A i \in Installer :
  /\ installer[i].at \notin {"idle", "failed"} => installer[i].release \in 1 .. Releases
  /\ installer[i].at \in {"remove", "rename"} => installer[i].bytes = installer[i].release
  /\ installer[i].at = "unpack" => directory.cached \in 0 .. Releases
  /\ installer[i].at = "unpacking" => installer[i].bytes \in 1 .. Releases

\* An installer that has begun to unpack knows of another that unpacks there now.
SharedInv == \A i, j \in Installer :
  /\ i # j /\ installer[i].at \in {"unpacking", "start"} /\ installer[j].at = "unpacking"
  /\ installer[i].release = installer[j].release
  => installer[i].shared

InstallInv == InstallTypeOK /\ ArchiveInv /\ SharedInv /\ RunsPublished

\* What is known of one installer, without its function.
LEMMA InstallerTyped ==
  ASSUME InstallInv, NEW i \in Installer
  PROVE  /\ installer[i] \in Installing /\ directory \in Directories /\ installer \in [Installer -> Installing]
         /\ installer[i].at \notin {"idle", "failed"} => installer[i].release \in 1 .. Releases
         /\ installer[i].at \in {"remove", "rename"} => installer[i].bytes = installer[i].release
         /\ installer[i].at = "unpack" => directory.cached \in 0 .. Releases
         /\ installer[i].at = "unpacking" => installer[i].bytes \in 1 .. Releases
BY DEF InstallInv, InstallTypeOK, ArchiveInv

\* One installer takes a step that does not unpack.
LEMMA InstallerGoesOn ==
  ASSUME InstallInv, NEW i \in Installer, NEW q \in Installing, installer' = [installer EXCEPT ![i] = q],
         directory' \in Directories, directory'.unpacked = directory.unpacked,
         directory'.cached = directory.cached \/ directory'.cached \in 0 .. Releases,
         q.at \notin {"idle", "failed"} => q.release \in 1 .. Releases,
         q.at \in {"remove", "rename"} => q.bytes = q.release,
         q.at = "unpack" => directory'.cached \in 0 .. Releases,
         q.at \in {"unpacking", "start"} =>
           /\ q.at = installer[i].at /\ q.release = installer[i].release
           /\ q.bytes = installer[i].bytes /\ q.shared = installer[i].shared
  PROVE  InstallInv'
<1>1. /\ installer' \in [Installer -> Installing] /\ installer'[i] = q
      /\ \A j \in Installer : j # i => installer'[j] = installer[j]
  BY InstallerTyped
<1>2. InstallTypeOK'
  BY <1>1 DEF InstallTypeOK
<1>3. ArchiveInv'
  <2> SUFFICES ASSUME NEW j \in Installer
               PROVE  /\ installer'[j].at \notin {"idle", "failed"} => installer'[j].release \in 1 .. Releases
                      /\ installer'[j].at \in {"remove", "rename"} => installer'[j].bytes = installer'[j].release
                      /\ installer'[j].at = "unpack" => directory'.cached \in 0 .. Releases
                      /\ installer'[j].at = "unpacking" => installer'[j].bytes \in 1 .. Releases
    BY DEF ArchiveInv
  <2>1. CASE j = i
    BY <1>1, <2>1, InstallerTyped
  <2>2. CASE j # i
    BY <1>1, <2>2, InstallerTyped
  <2> QED
    BY <2>1, <2>2
<1>4. \A j \in Installer : installer'[j].at \in {"unpacking", "start"} =>
        /\ installer'[j].at = installer[j].at /\ installer'[j].release = installer[j].release
        /\ installer'[j].shared = installer[j].shared
  BY <1>1
<1>5. SharedInv'
  BY <1>4 DEF InstallInv, SharedInv
<1>6. RunsPublished'
  BY <1>4 DEF InstallInv, RunsPublished, At
<1> QED
  BY <1>2, <1>3, <1>5, <1>6 DEF InstallInv

\* ... and only goes to another place.
LEMMA OnlyGoes ==
  ASSUME InstallInv, NEW i \in Installer,
         NEW at \in {"download", "rename", "unpack", "managing", "verify", "persist", "done", "failed"},
         InstallerGoes(i, at), at = "failed" \/ installer[i].at \notin {"idle", "failed"},
         at = "rename" => installer[i].at = "remove",
         directory' \in Directories, directory'.unpacked = directory.unpacked,
         directory'.cached = directory.cached \/ directory'.cached \in 0 .. Releases,
         at = "unpack" => directory'.cached \in 0 .. Releases
  PROVE  InstallInv'
<1> DEFINE q == [installer[i] EXCEPT !.at = at]
<1>1. installer[i] \in Installing
  BY InstallerTyped
<1>2. q \in Installing /\ q.at = at /\ q.release = installer[i].release /\ q.bytes = installer[i].bytes
  BY <1>1 DEF Installing
<1>3. installer' = [installer EXCEPT ![i] = q]
  BY DEF InstallerGoes
<1> HIDE DEF q
<1>4. /\ q.at \notin {"idle", "failed"} => q.release \in 1 .. Releases
      /\ q.at \in {"remove", "rename"} => q.bytes = q.release
      /\ q.at \notin {"unpacking", "start"}
  BY <1>2, InstallerTyped
<1> QED
  BY <1>2, <1>3, <1>4, InstallerGoesOn

LEMMA PublishStep ==
  ASSUME InstallInv, Publish
  PROVE  InstallInv'
<1>1. directory \in Directories /\ directory.latest < Releases /\ installer' = installer
  BY DEF InstallInv, InstallTypeOK, Publish
<1>2. PICK latest \in 1 .. Releases : latest = directory.latest + 1
  BY <1>1, EimAssumption DEF Directories
<1>3. directory' = [directory EXCEPT !.latest = latest]
  BY <1>2 DEF Publish
<1>4. directory' \in Directories /\ directory'.cached = directory.cached /\ directory'.unpacked = directory.unpacked
  BY <1>1, <1>3 DEF Directories
<1> QED
  BY <1>1, <1>4 DEF InstallInv, InstallTypeOK, ArchiveInv, SharedInv, RunsPublished, At

\* Up to the archive in the cache.
LEMMA ResolveStep ==
  ASSUME InstallInv, NEW i \in Installer, ResolveRelease(i)
  PROVE  InstallInv'
<1>1. installer[i] \in Installing /\ directory \in Directories /\ directory' = directory
  BY InstallerTyped DEF ResolveRelease
<1>2. CASE InstallerGoes(i, "failed")
  BY <1>1, <1>2, OnlyGoes
<1>3. CASE installer' = [installer EXCEPT ![i].at = "cache", ![i].release = directory.latest]
  <2>1. PICK release \in 1 .. Releases : release = directory.latest
    BY <1>1 DEF Directories
  <2>2. release \in 0 .. Releases
    BY EimAssumption
  <2> DEFINE q == [installer[i] EXCEPT !.at = "cache", !.release = release]
  <2>3. q \in Installing /\ q.at = "cache" /\ q.release = release
    BY <1>1, <2>2 DEF Installing
  <2>4. installer' = [installer EXCEPT ![i] = q]
    BY <1>3, <2>1
  <2> HIDE DEF q
  <2> QED
    BY <1>1, <2>3, <2>4, InstallerGoesOn
<1> QED
  BY <1>2, <1>3 DEF ResolveRelease

LEMMA CacheStep ==
  ASSUME InstallInv, NEW i \in Installer, CheckCache(i) \/ FetchArchive(i) \/ RemoveCached(i) \/ RenameArchive(i)
  PROVE  InstallInv'
<1>1. installer[i] \in Installing /\ directory \in Directories /\ Releases \in Nat
  BY InstallerTyped, EimAssumption
<1>2. installer[i].release \in 1 .. Releases /\ 1 .. Releases \subseteq 0 .. Releases
  BY <1>1, InstallerTyped DEF CheckCache, FetchArchive, RemoveCached, RenameArchive, At
<1>3. CASE CheckCache(i)
  <2>1. directory' = directory /\ installer[i].at = "cache"
    BY <1>3 DEF CheckCache, At
  <2>2. CASE directory.cached /= Nothing /\ Usable(directory.cached, installer[i].release)
    <3>1. InstallerGoes(i, "unpack") /\ directory.cached = installer[i].release
      BY <1>3, <2>2 DEF CheckCache, Usable
    <3> QED
      BY <1>1, <1>2, <2>1, <3>1, OnlyGoes
  <2>3. CASE ~(directory.cached /= Nothing /\ Usable(directory.cached, installer[i].release))
    <3>1. InstallerGoes(i, "download")
      BY <1>3, <2>3 DEF CheckCache
    <3> QED
      BY <1>1, <2>1, <3>1, OnlyGoes
  <2> QED
    BY <2>2, <2>3
<1>4. CASE FetchArchive(i)
  <2>1. directory' = directory
    BY <1>4 DEF FetchArchive
  <2>2. CASE InstallerGoes(i, "failed")
    BY <1>1, <2>1, <2>2, OnlyGoes
  <2>3. ASSUME NEW bytes, Usable(bytes, installer[i].release),
               installer' = [installer EXCEPT ![i].at = "remove", ![i].bytes = bytes]
        PROVE  InstallInv'
    <3>1. bytes = installer[i].release /\ bytes \in 0 .. Foreign
      BY <1>1, <1>2, <2>3 DEF Usable, Foreign
    <3> DEFINE q == [installer[i] EXCEPT !.at = "remove", !.bytes = bytes]
    <3>2. q \in Installing /\ q.at = "remove" /\ q.release = installer[i].release /\ q.bytes = bytes
      BY <1>1, <3>1 DEF Installing
    <3>3. installer' = [installer EXCEPT ![i] = q]
      BY <2>3
    <3> HIDE DEF q
    <3> QED
      BY <1>1, <1>2, <2>1, <3>1, <3>2, <3>3, InstallerGoesOn
  <2> QED
    BY <1>4, <2>2, <2>3 DEF FetchArchive
<1>5. CASE RemoveCached(i)
  <2>1. /\ installer[i].at = "remove" /\ InstallerGoes(i, "rename")
        /\ directory' = [directory EXCEPT !.cached = 0]
    BY <1>5 DEF RemoveCached, At, Nothing
  <2>2. 0 \in 0 .. Foreign /\ 0 \in 0 .. Releases
    BY <1>1 DEF Foreign
  <2>3. directory' \in Directories /\ directory'.cached = 0 /\ directory'.unpacked = directory.unpacked
    BY <1>1, <2>1, <2>2 DEF Directories
  <2> QED
    BY <2>1, <2>2, <2>3, OnlyGoes
<1>6. CASE RenameArchive(i)
  <2>1. PICK bytes \in 1 .. Releases : bytes = installer[i].bytes
    BY <1>2, <1>6, InstallerTyped DEF RenameArchive, At
  <2>2. bytes \in 0 .. Foreign /\ bytes \in 0 .. Releases /\ 0 \in 0 .. Foreign
    BY <1>1 DEF Foreign
  <2>3. /\ directory' = [directory EXCEPT !.cached = bytes]
        /\ installer' = [installer EXCEPT ![i].at = "unpack", ![i].bytes = 0]
    BY <1>6, <2>1 DEF RenameArchive, Nothing
  <2>4. directory' \in Directories /\ directory'.cached = bytes /\ directory'.unpacked = directory.unpacked
    BY <1>1, <2>2, <2>3 DEF Directories
  <2> DEFINE q == [installer[i] EXCEPT !.at = "unpack", !.bytes = 0]
  <2>5. q \in Installing /\ q.at = "unpack" /\ q.release = installer[i].release
    BY <1>1, <2>2 DEF Installing
  <2>6. installer' = [installer EXCEPT ![i] = q]
    BY <2>3
  <2> HIDE DEF q
  <2> QED
    BY <1>2, <2>2, <2>4, <2>5, <2>6, InstallerGoesOn
<1> QED
  BY <1>3, <1>4, <1>5, <1>6

\* Who begins to unpack tells the others, and looks who is at it.
LEMMA UnpackStartsStep ==
  ASSUME InstallInv, NEW i \in Installer, UnpackStarts(i)
  PROVE  InstallInv'
<1> DEFINE r == installer[i].release
<1>1. /\ installer[i] \in Installing /\ directory \in Directories /\ Releases \in Nat
      /\ installer[i].at = "unpack" /\ r \in 1 .. Releases /\ directory.cached \in 0 .. Releases
  BY InstallerTyped, EimAssumption DEF UnpackStarts, At
<1>2. CASE directory.cached = Nothing
  <2>1. InstallerGoes(i, "failed") /\ directory' = directory
    BY <1>2 DEF UnpackStarts
  <2> QED
    BY <1>1, <2>1, OnlyGoes
<1>3. CASE directory.cached # Nothing
  <2>1. PICK release \in 1 .. Releases, bytes \in 1 .. Releases : release = r /\ bytes = directory.cached
    BY <1>1, <1>3 DEF Nothing
  <2>2. PICK shared \in BOOLEAN : shared <=> Unpackers(i) /= {}
    BY Zenon
  <2>3. (Unpackers(i) /= {}) = shared
    BY <2>2, Zenon
  <2>4. Torn \in 0 .. Torn /\ bytes \in 0 .. Foreign /\ Torn \notin 1 .. Releases
    BY <1>1 DEF Torn, Foreign
  <2>5. PICK unpacked \in Managers : unpacked = [directory.unpacked EXCEPT ![release] = Torn]
    BY <1>1, <2>4 DEF Directories, Managers
  <2>6. directory' = [directory EXCEPT !.unpacked = unpacked]
    BY <1>3, <2>1, <2>5 DEF UnpackStarts
  <2>7. directory' \in Directories /\ directory'.cached = directory.cached /\ directory'.unpacked = unpacked
    BY <1>1, <2>6 DEF Directories
  <2>8. installer' = [j \in Installer |->
          IF j = i THEN [installer[i] EXCEPT !.at = "unpacking", !.bytes = bytes, !.shared = shared]
          ELSE IF installer[j].release = release THEN [installer[j] EXCEPT !.shared = TRUE]
          ELSE installer[j]]
    BY <1>3, <2>1, <2>3, Zenon DEF UnpackStarts
  <2>9. /\ installer'[i] \in Installing /\ installer'[i].at = "unpacking" /\ installer'[i].bytes = bytes
        /\ installer'[i].release = release /\ (installer'[i].shared <=> shared)
    <3>1. installer'[i] = [installer[i] EXCEPT !.at = "unpacking", !.bytes = bytes, !.shared = shared]
      BY <2>8
    <3> QED
      BY <1>1, <2>1, <2>4, <3>1 DEF Installing
  <2>10. ASSUME NEW j \in Installer, j # i
         PROVE  /\ installer'[j] \in Installing /\ installer'[j].at = installer[j].at
                /\ installer'[j].bytes = installer[j].bytes /\ installer'[j].release = installer[j].release
                /\ IF installer[j].release = release THEN installer'[j].shared = TRUE
                   ELSE installer'[j].shared = installer[j].shared
    <3>1. installer[j] \in Installing
      BY InstallerTyped
    <3>2. installer'[j] = IF installer[j].release = release THEN [installer[j] EXCEPT !.shared = TRUE] ELSE installer[j]
      BY <2>8, <2>10
    <3> QED
      BY <3>1, <3>2 DEF Installing
  <2>11. InstallTypeOK'
    <3>1. installer' \in [Installer -> Installing]
      BY <2>8, <2>9, <2>10
    <3> QED
      BY <2>7, <3>1 DEF InstallTypeOK
  <2>12. ArchiveInv'
    <3> SUFFICES ASSUME NEW j \in Installer
                 PROVE  /\ installer'[j].at \notin {"idle", "failed"} => installer'[j].release \in 1 .. Releases
                        /\ installer'[j].at \in {"remove", "rename"} => installer'[j].bytes = installer'[j].release
                        /\ installer'[j].at = "unpack" => directory'.cached \in 0 .. Releases
                        /\ installer'[j].at = "unpacking" => installer'[j].bytes \in 1 .. Releases
      BY DEF ArchiveInv
    <3>1. CASE j = i
      BY <2>9, <3>1
    <3>2. CASE j # i
      BY <2>7, <2>10, <3>2, InstallerTyped
    <3> QED
      BY <3>1, <3>2
  <2>13. SharedInv'
    <3> SUFFICES ASSUME NEW j \in Installer, NEW k \in Installer, j # k,
                        installer'[j].at \in {"unpacking", "start"}, installer'[k].at = "unpacking",
                        installer'[j].release = installer'[k].release
                 PROVE  installer'[j].shared
      BY DEF SharedInv
    <3>1. CASE j = i
      <4>1. k \in Unpackers(i)
        BY <2>1, <2>9, <2>10, <3>1 DEF Unpackers, At
      <4> QED
        BY <2>2, <2>9, <3>1, <4>1
    <3>2. CASE j # i /\ k = i
      BY <2>9, <2>10, <3>2
    <3>3. CASE j # i /\ k # i
      <4>1. installer[j].shared
        BY <2>10, <3>3 DEF InstallInv, SharedInv
      <4> QED
        BY <2>10, <3>3, <4>1
    <3> QED
      BY <3>1, <3>2, <3>3
  <2>14. RunsPublished'
    <3> SUFFICES ASSUME NEW j \in Installer, installer'[j].at = "start"
                 PROVE  \/ IsRelease(unpacked[installer'[j].release])
                        \/ unpacked[installer'[j].release] = Torn /\ installer'[j].shared
      BY <2>7 DEF RunsPublished, At
    <3>1. /\ j # i /\ installer[j].at = "start" /\ installer[j].release \in 1 .. Releases
          /\ installer'[j].release = installer[j].release
      BY <2>9, <2>10, InstallerTyped
    <3>2. directory.unpacked \in Managers
      BY <1>1 DEF Directories
    <3>3. CASE installer[j].release = release
      BY <2>5, <2>10, <3>1, <3>2, <3>3 DEF Managers
    <3>4. CASE installer[j].release # release
      <4>1. unpacked[installer[j].release] = directory.unpacked[installer[j].release]
        BY <2>5, <3>1, <3>2, <3>4 DEF Managers
      <4> QED
        BY <2>10, <3>1, <3>4, <4>1 DEF InstallInv, RunsPublished, At
    <3> QED
      BY <3>3, <3>4
  <2> QED
    BY <2>11, <2>12, <2>13, <2>14 DEF InstallInv
<1> QED
  BY <1>2, <1>3

\* Who ends alone leaves what it unpacked; else the others know.
LEMMA UnpackEndsStep ==
  ASSUME InstallInv, NEW i \in Installer, UnpackEnds(i)
  PROVE  InstallInv'
<1>1. /\ installer[i] \in Installing /\ directory \in Directories /\ Releases \in Nat
      /\ installer[i].at = "unpacking" /\ installer[i].release \in 1 .. Releases
      /\ installer[i].bytes \in 1 .. Releases
  BY InstallerTyped, EimAssumption DEF UnpackEnds, At
<1>2. PICK release \in 1 .. Releases, left \in 0 .. Torn :
        /\ release = installer[i].release
        /\ left = IF Unpackers(i) = {} THEN installer[i].bytes ELSE Torn
  BY <1>1 DEF Torn
<1>3. PICK unpacked \in Managers : unpacked = [directory.unpacked EXCEPT ![release] = left]
  BY <1>1 DEF Directories, Managers
<1>4. directory' = [directory EXCEPT !.unpacked = unpacked]
  BY <1>2, <1>3 DEF UnpackEnds
<1>5. directory' \in Directories /\ directory'.cached = directory.cached /\ directory'.unpacked = unpacked
  BY <1>1, <1>4 DEF Directories
<1>6. 0 \in 0 .. Foreign
  BY <1>1 DEF Foreign
<1> DEFINE q == [installer[i] EXCEPT !.at = "start", !.bytes = 0]
<1>7. /\ q \in Installing /\ q.at = "start" /\ q.release = release /\ q.shared = installer[i].shared
  BY <1>1, <1>2, <1>6 DEF Installing
<1>8. installer' = [installer EXCEPT ![i] = q]
  BY DEF UnpackEnds, Nothing
<1> HIDE DEF q
<1>9. /\ installer' \in [Installer -> Installing] /\ installer'[i] = q
      /\ \A j \in Installer : j # i => installer'[j] = installer[j]
  BY <1>7, <1>8, InstallerTyped
<1>10. InstallTypeOK'
  BY <1>5, <1>9 DEF InstallTypeOK
<1>11. ArchiveInv'
  <2> SUFFICES ASSUME NEW j \in Installer
               PROVE  /\ installer'[j].at \notin {"idle", "failed"} => installer'[j].release \in 1 .. Releases
                      /\ installer'[j].at \in {"remove", "rename"} => installer'[j].bytes = installer'[j].release
                      /\ installer'[j].at = "unpack" => directory'.cached \in 0 .. Releases
                      /\ installer'[j].at = "unpacking" => installer'[j].bytes \in 1 .. Releases
    BY DEF ArchiveInv
  <2>1. CASE j = i
    BY <1>7, <1>9, <2>1
  <2>2. CASE j # i
    BY <1>5, <1>9, <2>2, InstallerTyped
  <2> QED
    BY <2>1, <2>2
<1>12. \A j \in Installer : installer'[j].release = installer[j].release /\ installer'[j].shared = installer[j].shared
  BY <1>2, <1>7, <1>9
<1>13. SharedInv'
  <2> SUFFICES ASSUME NEW j \in Installer, NEW k \in Installer, j # k,
                      installer'[j].at \in {"unpacking", "start"}, installer'[k].at = "unpacking",
                      installer'[j].release = installer'[k].release
               PROVE  installer'[j].shared
    BY DEF SharedInv
  <2>1. k # i /\ installer[k].at = "unpacking"
    BY <1>7, <1>9
  <2>2. installer[j].at \in {"unpacking", "start"}
    BY <1>1, <1>9
  <2> QED
    BY <1>12, <2>1, <2>2 DEF InstallInv, SharedInv
<1>14. RunsPublished'
  <2> SUFFICES ASSUME NEW j \in Installer, installer'[j].at = "start"
               PROVE  \/ IsRelease(unpacked[installer'[j].release])
                      \/ unpacked[installer'[j].release] = Torn /\ installer'[j].shared
    BY <1>5 DEF RunsPublished, At
  <2>1. directory.unpacked \in Managers
    BY <1>1 DEF Directories
  <2>2. installer'[j].release = installer[j].release /\ installer'[j].shared = installer[j].shared
    BY <1>12
  <2>3. CASE installer[j].release = release
    <3>1. unpacked[release] = left
      BY <1>3, <2>1 DEF Managers
    <3>2. CASE Unpackers(i) = {}
      BY <1>1, <1>2, <2>2, <2>3, <3>1, <3>2 DEF IsRelease
    <3>3. CASE Unpackers(i) # {}
      <4>1. PICK k \in Installer \ {i} : installer[k].release = release /\ installer[k].at = "unpacking"
        BY <1>2, <3>3 DEF Unpackers, At
      <4>2. installer[j].shared
        <5>1. CASE j = i
          BY <1>1, <1>2, <4>1, <5>1 DEF InstallInv, SharedInv
        <5>2. CASE j # i
          <6>1. installer[j].at = "start"
            BY <1>9, <5>2
          <6> QED
            BY <1>1, <1>2, <2>3, <5>2, <6>1 DEF InstallInv, SharedInv
        <5> QED
          BY <5>1, <5>2
      <4> QED
        BY <1>2, <2>2, <2>3, <3>1, <3>3, <4>2
    <3> QED
      BY <3>2, <3>3
  <2>4. CASE installer[j].release # release
    <3>1. j # i /\ installer[j].at = "start" /\ installer[j].release \in 1 .. Releases
      BY <1>2, <1>9, <2>4, InstallerTyped
    <3>2. unpacked[installer[j].release] = directory.unpacked[installer[j].release]
      BY <1>3, <2>1, <2>4, <3>1 DEF Managers
    <3> QED
      BY <2>2, <3>1, <3>2 DEF InstallInv, RunsPublished, At
  <2> QED
    BY <2>3, <2>4
<1> QED
  BY <1>10, <1>11, <1>13, <1>14 DEF InstallInv

\* The manager runs, and what it installed is verified and written down.
LEMMA ManagerStep ==
  ASSUME InstallInv, NEW i \in Installer,
         StartManager(i) \/ ManagerEnds(i) \/ Verify(i) \/ PersistVerified(i) \/ Killed(i)
  PROVE  InstallInv'
<1>1. directory \in Directories /\ installer[i].at # "idle"
  BY InstallerTyped DEF StartManager, ManagerEnds, Verify, PersistVerified, Killed, At
<1>2. /\ directory' \in Directories /\ directory'.unpacked = directory.unpacked
      /\ directory'.cached = directory.cached
  BY <1>1 DEF StartManager, ManagerEnds, Verify, PersistVerified, Killed, Directories
<1>3. PICK at \in {"managing", "verify", "persist", "done", "failed"} : InstallerGoes(i, at)
  BY DEF StartManager, ManagerEnds, Verify, PersistVerified, Killed
<1>4. installer[i].at # "failed" \/ at = "failed"
  BY DEF StartManager, ManagerEnds, Verify, PersistVerified, Killed, At
<1> QED
  BY <1>1, <1>2, <1>3, <1>4, OnlyGoes

LEMMA InterruptStep ==
  ASSUME InstallInv, NEW i \in Installer, Interrupt(i) \/ TryAgain(i)
  PROVE  InstallInv'
<1>1. installer[i] \in Installing /\ directory \in Directories /\ directory' = directory
  BY InstallerTyped DEF Interrupt, TryAgain
<1>2. CASE Interrupt(i)
  <2> DEFINE q == [installer[i] EXCEPT !.interrupted = TRUE]
  <2>1. /\ q \in Installing /\ q.at = installer[i].at /\ q.release = installer[i].release
        /\ q.bytes = installer[i].bytes /\ q.shared = installer[i].shared
    BY <1>1 DEF Installing
  <2>2. installer' = [installer EXCEPT ![i] = q]
    BY <1>2 DEF Interrupt
  <2> HIDE DEF q
  <2> QED
    BY <1>1, <2>1, <2>2, InstallerTyped, InstallerGoesOn
<1>3. CASE TryAgain(i)
  <2>1. installer' = [installer EXCEPT ![i] = New] /\ New.at = "idle"
    BY <1>3 DEF TryAgain, New
  <2>2. 0 \in 0 .. Releases /\ 0 \in 0 .. Foreign
    BY EimAssumption DEF Foreign
  <2>3. New \in Installing
    BY <2>2 DEF New, Installing, Nothing
  <2> QED
    BY <1>1, <2>1, <2>3, InstallerGoesOn
<1> QED
  BY <1>2, <1>3

LEMMA InstallInitInv == InstallInit => InstallInv
<1> SUFFICES ASSUME InstallInit  PROVE InstallInv
  OBVIOUS
<1>1. /\ 0 \in 0 .. Releases /\ 0 \in 0 .. Foreign /\ 1 \in 0 .. Foreign /\ Foreign \in 0 .. Foreign
      /\ 1 \in 1 .. Releases /\ 0 \in 0 .. Torn
  BY EimAssumption DEF Foreign, Torn
<1>2. New \in Installing /\ New.at = "idle"
  BY <1>1 DEF New, Installing, Nothing
<1>3. installer \in [Installer -> Installing] /\ \A i \in Installer : installer[i].at = "idle"
  BY <1>2 DEF InstallInit
<1>4. [r \in 1 .. Releases |-> Nothing] \in Managers
  BY <1>1 DEF Managers, Nothing
<1>5. directory \in Directories
  BY <1>1, <1>4 DEF InstallInit, Directories, Nothing
<1> QED
  BY <1>3, <1>5 DEF InstallInv, InstallTypeOK, ArchiveInv, SharedInv, RunsPublished, At

LEMMA InstallNextInv == InstallInv /\ [InstallNext]_installVars => InstallInv'
<1> SUFFICES ASSUME InstallInv, [InstallNext]_installVars  PROVE InstallInv'
  OBVIOUS
<1>1. CASE Publish
  BY <1>1, PublishStep
<1>2. ASSUME NEW i \in Installer, InstallStep(i)
      PROVE  InstallInv'
  BY <1>2, ResolveStep, CacheStep, UnpackStartsStep, UnpackEndsStep, ManagerStep, InterruptStep DEF InstallStep
<1>3. CASE UNCHANGED installVars
  BY <1>3 DEF installVars, InstallInv, InstallTypeOK, ArchiveInv, SharedInv, RunsPublished, At
<1> QED
  BY <1>1, <1>2, <1>3 DEF InstallNext

(* The invariant behind the installation.                                  *)
THEOREM InstallInvariant == InstallSpec => []InstallInv
<1>1. InstallInit => InstallInv
  BY InstallInitInv
<1>2. InstallInv /\ [InstallNext]_installVars => InstallInv'
  BY InstallNextInv
<1> QED
  BY <1>1, <1>2, PTL DEF InstallSpec

(* The variables of the installation have their types.                     *)
THEOREM InstallTypes == InstallSpec => []InstallTypeOK
<1>1. InstallInv => InstallTypeOK
  BY DEF InstallInv
<1> QED
  BY <1>1, InstallInvariant, PTL

(* An installer starts a manager that was published, or a half written one *)
(* only where another installer unpacked too (eim-installer.ts).           *)
THEOREM ManagersArePublished == InstallSpec => []RunsPublished
<1>1. InstallInv => RunsPublished
  BY DEF InstallInv
<1> QED
  BY <1>1, InstallInvariant, PTL

\* What observes the download at hand is of this generation; what is of an older
\* one was stopped.
OfNow(p, o) == o.generation <= p.generation /\ (o.generation = p.generation => o.tool = p.active)
ObservedInv(p) ==
  /\ \A o \in p.reading : OfNow(p, o)
  /\ p.tick # Idle => OfNow(p, p.tick)
  /\ p.timer # Idle => OfNow(p, p.timer)

\* A tool whose completion was taken back is not downloaded again, and nothing
\* reads the size of its archive any more.
OnceInv(p) == \A t \in 1 .. Download :
  /\ p.late[t] <= 1
  /\ p.late[t] = 1 => t # p.active /\ p.shown[t] # "hidden" /\ p.tick.tool # t

ProgressInv == ProgressTypeOK /\ ObservedInv(progress) /\ OnceInv(progress)

\* What the type invariant says of the parts of the progress.
LEMMA ProgressTyped ==
  ASSUME ProgressInv
  PROVE  /\ progress \in Progressing
         /\ progress.active \in 0 .. Download /\ progress.extracted \in Nat /\ progress.generation \in Nat
         /\ progress.shown \in [1 .. Download -> {"hidden", "running", "completed"}]
         /\ progress.late \in [1 .. Download -> Nat] /\ progress.reading \subseteq Observation
         /\ progress.tick \in Observation \cup {Idle} /\ progress.timer \in Observation \cup {Idle}
         /\ progress.ticks \in Nat
         /\ ObservedInv(progress) /\ OnceInv(progress)
<1>1. progress \in Progressing
  BY DEF ProgressInv, ProgressTypeOK
<1> QED
  BY <1>1 DEF ProgressInv, Progressing

LEMMA ProgressIs ==
  ASSUME NEW q \in Progressing, progress' = q, ObservedInv(q), OnceInv(q)
  PROVE  ProgressInv'
BY DEF ProgressInv, ProgressTypeOK

LEMMA IdleIs == Idle.tool = 0 /\ Idle \notin Observation /\ \A o \in Observation : o.tool # 0
<1>1. Idle.tool = 0
  BY DEF Idle, Nothing
<1>2. \A o \in Observation : o.tool # 0
  BY EimAssumption DEF Observation
<1> QED
  BY <1>1, <1>2

\* A download begins: what observed an earlier one is of an earlier generation.
LEMMA DownloadingStep ==
  ASSUME ProgressInv, Downloading
  PROVE  ProgressInv'
<1>1. PICK t \in 1 .. Download :
        /\ progress.shown[t] = "hidden" /\ progress.active = 0
        /\ progress' = LET p == Stopped(progress) IN
             [p EXCEPT !.active = t, !.shown[t] = "running",
                       !.reading = p.reading \cup {[tool |-> t, generation |-> p.generation, first |-> TRUE]}]
  BY DEF Downloading, Nothing
<1>2. PICK generation \in Nat : generation = progress.generation + 1
  BY ProgressTyped
<1> DEFINE new == [tool |-> t, generation |-> generation, first |-> TRUE]
<1>3. new \in Observation
  BY DEF Observation
<1>4. PICK shown \in [1 .. Download -> {"hidden", "running", "completed"}], reading \in SUBSET Observation :
        shown = [progress.shown EXCEPT ![t] = "running"] /\ reading = progress.reading \cup {new}
  <2>1. [progress.shown EXCEPT ![t] = "running"] \in [1 .. Download -> {"hidden", "running", "completed"}]
    BY ProgressTyped
  <2>2. progress.reading \cup {new} \in SUBSET Observation
    BY <1>3, ProgressTyped
  <2> HIDE DEF new
  <2> QED
    BY <2>1, <2>2, Zenon
<1> DEFINE s == [progress EXCEPT !.generation = generation, !.timer = Idle]
<1>5. /\ s \in Progressing /\ s.generation = generation /\ s.shown = progress.shown /\ s.reading = progress.reading
      /\ s.late = progress.late /\ s.tick = progress.tick /\ s.timer = Idle
  BY ProgressTyped DEF Progressing
<1>6. Stopped(progress) = s
  BY <1>2 DEF Stopped
<1> HIDE DEF s
<1> DEFINE q == [s EXCEPT !.active = t, !.shown = shown, !.reading = reading]
<1>7. progress' = q
  BY <1>1, <1>4, <1>5, <1>6
<1>8. t \in 0 .. Download
  BY EimAssumption
<1>9. /\ q \in Progressing /\ q.active = t /\ q.shown = shown /\ q.reading = reading /\ q.late = progress.late
      /\ q.generation = generation /\ q.tick = progress.tick /\ q.timer = Idle
  BY <1>5, <1>8 DEF Progressing
<1> HIDE DEF q
<1>10. ObservedInv(q)
  <2>1. ASSUME NEW o \in Observation, o.generation <= progress.generation
        PROVE  OfNow(q, o)
    <3>1. o.generation \in Nat /\ progress.generation \in Nat
      BY ProgressTyped DEF Observation
    <3>2. o.generation < q.generation
      BY <1>2, <1>9, <2>1, <3>1
    <3> QED
      BY <1>2, <1>9, <3>1, <3>2 DEF OfNow
  <2>2. \A o \in progress.reading : OfNow(q, o)
    BY <2>1, ProgressTyped DEF ObservedInv, OfNow
  <2>3. OfNow(q, new)
    BY <1>9 DEF OfNow
  <2>4. \A o \in reading : OfNow(q, o)
    BY <1>4, <2>2, <2>3
  <2>5. q.tick # Idle => OfNow(q, q.tick)
    BY <1>9, <2>1, ProgressTyped DEF ObservedInv, OfNow
  <2> QED
    BY <1>9, <2>4, <2>5 DEF ObservedInv
<1>11. OnceInv(q)
  <2>1. progress.late[t] # 1
    BY <1>1, ProgressTyped DEF OnceInv
  <2>2. \A u \in 1 .. Download : u # t => shown[u] = progress.shown[u]
    BY <1>4, ProgressTyped
  <2> QED
    BY <1>9, <2>1, <2>2, ProgressTyped DEF OnceInv
<1> QED
  BY <1>7, <1>9, <1>10, <1>11, ProgressIs

\* A download is over: nothing observes what is at hand.
LEMMA ExtractedStep ==
  ASSUME ProgressInv, Extracted
  PROVE  ProgressInv'
<1>1. PICK t \in 1 .. Download : t = progress.active
  BY ProgressTyped, EimAssumption DEF Extracted, Nothing
<1>2. PICK generation \in Nat, extracted \in Nat :
        generation = progress.generation + 1 /\ extracted = progress.extracted + 1
  BY ProgressTyped
<1>3. PICK shown \in [1 .. Download -> {"hidden", "running", "completed"}] :
        shown = [progress.shown EXCEPT ![t] = "completed"]
  BY ProgressTyped
<1> DEFINE s == [progress EXCEPT !.generation = generation, !.timer = Idle]
<1>4. /\ s \in Progressing /\ s.generation = generation /\ s.shown = progress.shown /\ s.reading = progress.reading
      /\ s.late = progress.late /\ s.tick = progress.tick /\ s.timer = Idle
  BY ProgressTyped DEF Progressing
<1>5. Stopped(progress) = s
  BY <1>2 DEF Stopped
<1> HIDE DEF s
<1> DEFINE q == [s EXCEPT !.active = 0, !.extracted = extracted, !.shown = shown]
<1>6. progress' = q
  BY <1>1, <1>2, <1>3, <1>4, <1>5 DEF Extracted, Nothing
<1>7. 0 \in 0 .. Download
  BY EimAssumption
<1>8. /\ q \in Progressing /\ q.active = 0 /\ q.shown = shown /\ q.reading = progress.reading
      /\ q.late = progress.late /\ q.generation = generation /\ q.tick = progress.tick /\ q.timer = Idle
  BY <1>4, <1>7 DEF Progressing
<1> HIDE DEF q
<1>9. ObservedInv(q)
  <2>1. ASSUME NEW o \in Observation, o.generation <= progress.generation
        PROVE  OfNow(q, o)
    <3>1. o.generation \in Nat /\ progress.generation \in Nat
      BY ProgressTyped DEF Observation
    <3>2. o.generation < q.generation
      BY <1>2, <1>8, <2>1, <3>1
    <3> QED
      BY <1>2, <1>8, <3>1, <3>2 DEF OfNow
  <2>2. \A o \in q.reading : OfNow(q, o)
    BY <1>8, <2>1, ProgressTyped DEF ObservedInv, OfNow
  <2>3. q.tick # Idle => OfNow(q, q.tick)
    BY <1>8, <2>1, ProgressTyped DEF ObservedInv, OfNow
  <2> QED
    BY <1>8, <2>2, <2>3 DEF ObservedInv
<1>10. OnceInv(q)
  <2>1. \A u \in 1 .. Download : u # 0 /\ (shown[u] = progress.shown[u] \/ shown[u] = "completed")
    BY <1>3, ProgressTyped
  <2> QED
    BY <1>8, <2>1, ProgressTyped DEF OnceInv
<1> QED
  BY <1>6, <1>8, <1>9, <1>10, ProgressIs

\* The manager reports the download at hand.
LEMMA TransferredStep ==
  ASSUME ProgressInv, Transferred
  PROVE  ProgressInv'
<1>1. PICK t \in 1 .. Download : t = progress.active
  BY ProgressTyped, EimAssumption DEF Transferred, Nothing
<1>2. PICK shown \in [1 .. Download -> {"hidden", "running", "completed"}] :
        shown = [progress.shown EXCEPT ![t] = "running"]
  BY ProgressTyped
<1> DEFINE q == [progress EXCEPT !.shown = shown]
<1>3. progress' = q
  BY <1>1, <1>2 DEF Transferred
<1>4. /\ q \in Progressing /\ q.active = progress.active /\ q.shown = shown /\ q.reading = progress.reading
      /\ q.late = progress.late /\ q.generation = progress.generation /\ q.tick = progress.tick
      /\ q.timer = progress.timer
  BY ProgressTyped DEF Progressing
<1> HIDE DEF q
<1>5. ObservedInv(q)
  BY <1>4, ProgressTyped DEF ObservedInv, OfNow
<1>6. OnceInv(q)
  <2>1. \A u \in 1 .. Download : shown[u] = progress.shown[u] \/ shown[u] = "running"
    BY <1>2, ProgressTyped
  <2> QED
    BY <1>4, <2>1, ProgressTyped DEF OnceInv
<1> QED
  BY <1>3, <1>4, <1>5, <1>6, ProgressIs

\* An observation goes on only when it is of the download at hand.
LEMMA LaterIs ==
  ASSUME NEW o \in Observation
  PROVE  \E later \in Observation :
           later = [o EXCEPT !.first = FALSE] /\ later.tool = o.tool /\ later.generation = o.generation
<1> DEFINE f == [o EXCEPT !.first = FALSE]
<1>1. f \in Observation /\ f.tool = o.tool /\ f.generation = o.generation
  BY DEF Observation
<1> QED
  BY <1>1, Zenon

LEMMA MetadataReadStep ==
  ASSUME ProgressInv, MetadataRead
  PROVE  ProgressInv'
<1>1. PICK o \in progress.reading :
        progress' = [progress EXCEPT
          !.reading = progress.reading \ {o},
          !.tick = IF o.generation = progress.generation /\ progress.tick = Idle THEN o ELSE progress.tick,
          !.timer = IF o.generation = progress.generation /\ progress.tick /= Idle THEN [o EXCEPT !.first = FALSE]
                    ELSE progress.timer]
  BY DEF MetadataRead
<1>2. o \in Observation /\ OfNow(progress, o)
  BY ProgressTyped DEF ObservedInv
<1>3. PICK later \in Observation :
        later = [o EXCEPT !.first = FALSE] /\ later.tool = o.tool /\ later.generation = o.generation
  BY <1>2, LaterIs
<1>4. PICK reading \in SUBSET Observation, tick \in Observation \cup {Idle}, timer \in Observation \cup {Idle} :
        /\ reading = progress.reading \ {o}
        /\ tick = IF o.generation = progress.generation /\ progress.tick = Idle THEN o ELSE progress.tick
        /\ timer = IF o.generation = progress.generation /\ progress.tick /= Idle THEN later ELSE progress.timer
  <2>1. progress.reading \ {o} \in SUBSET Observation
    BY ProgressTyped
  <2>2. (IF o.generation = progress.generation /\ progress.tick = Idle THEN o ELSE progress.tick) \in Observation \cup {Idle}
    BY <1>2, ProgressTyped
  <2>3. (IF o.generation = progress.generation /\ progress.tick /= Idle THEN later ELSE progress.timer) \in Observation \cup {Idle}
    BY ProgressTyped
  <2> QED
    BY <2>1, <2>2, <2>3, Zenon
<1> DEFINE q == [progress EXCEPT !.reading = reading, !.tick = tick, !.timer = timer]
<1>5. progress' = q
  BY <1>1, <1>3, <1>4, Zenon
<1>6. /\ q \in Progressing /\ q.active = progress.active /\ q.shown = progress.shown /\ q.reading = reading
      /\ q.late = progress.late /\ q.generation = progress.generation /\ q.tick = tick /\ q.timer = timer
  BY ProgressTyped DEF Progressing
<1> HIDE DEF q
<1>7. \A p \in Observation : OfNow(progress, p) => OfNow(q, p)
  BY <1>6 DEF OfNow
<1>8. OfNow(q, o) /\ OfNow(q, later)
  BY <1>2, <1>3, <1>6 DEF OfNow
<1>9. ObservedInv(q)
  <2>1. \A p \in q.reading : OfNow(q, p)
    BY <1>4, <1>6, <1>7, ProgressTyped DEF ObservedInv
  <2>2. q.tick # Idle => OfNow(q, q.tick)
    BY <1>4, <1>6, <1>7, <1>8, ProgressTyped DEF ObservedInv
  <2>3. q.timer # Idle => OfNow(q, q.timer)
    BY <1>4, <1>6, <1>7, <1>8, ProgressTyped DEF ObservedInv
  <2> QED
    BY <2>1, <2>2, <2>3 DEF ObservedInv
<1>10. OnceInv(q)
  <2>1. tick = progress.tick \/ (tick = o /\ o.tool = progress.active)
    BY <1>2, <1>4 DEF OfNow
  <2> QED
    BY <1>6, <2>1, ProgressTyped DEF OnceInv
<1> QED
  BY <1>5, <1>6, <1>9, <1>10, ProgressIs

LEMMA TimerFiresStep ==
  ASSUME ProgressInv, TimerFires
  PROVE  ProgressInv'
<1>1. /\ progress.timer # Idle /\ progress.timer.generation = progress.generation
      /\ progress' = [progress EXCEPT !.tick = progress.timer, !.ticks = progress.ticks + 1]
  BY DEF TimerFires
<1>2. PICK ticks \in Nat, tick \in Observation \cup {Idle} : ticks = progress.ticks + 1 /\ tick = progress.timer
  BY ProgressTyped
<1> DEFINE q == [progress EXCEPT !.tick = tick, !.ticks = ticks]
<1>3. progress' = q
  BY <1>1, <1>2
<1>4. /\ q \in Progressing /\ q.active = progress.active /\ q.shown = progress.shown /\ q.reading = progress.reading
      /\ q.late = progress.late /\ q.generation = progress.generation /\ q.tick = tick
      /\ q.timer = progress.timer
  BY ProgressTyped DEF Progressing
<1> HIDE DEF q
<1>5. tick.tool = progress.active
  BY <1>1, <1>2, ProgressTyped DEF ObservedInv, OfNow
<1>6. ObservedInv(q)
  BY <1>1, <1>2, <1>4, ProgressTyped DEF ObservedInv, OfNow
<1>7. OnceInv(q)
  BY <1>4, <1>5, ProgressTyped DEF OnceInv
<1> QED
  BY <1>3, <1>4, <1>6, <1>7, ProgressIs

\* The reading that takes a completion back is used up by it.
LEMMA TickEndsStep ==
  ASSUME ProgressInv, TickEnds
  PROVE  ProgressInv'
<1> DEFINE tool == progress.tick.tool
<1>1. PICK grown \in BOOLEAN :
        /\ tool # 0
        /\ progress' = [progress EXCEPT
             !.shown[tool] = IF grown THEN "running" ELSE progress.shown[tool],
             !.late[tool] = IF grown /\ progress.active /= tool THEN progress.late[tool] + 1 ELSE progress.late[tool],
             !.tick = Idle,
             !.timer = IF progress.tick.first /\ progress.tick.generation = progress.generation
                       THEN [progress.tick EXCEPT !.first = FALSE] ELSE progress.timer]
  BY DEF TickEnds, Nothing
<1>2. progress.tick \in Observation /\ progress.tick # Idle /\ OfNow(progress, progress.tick)
  BY <1>1, IdleIs, ProgressTyped DEF ObservedInv
<1>3. PICK t \in 1 .. Download : t = tool
  BY <1>2 DEF Observation
<1>4. PICK later \in Observation :
        /\ later = [progress.tick EXCEPT !.first = FALSE]
        /\ later.tool = t /\ later.generation = progress.tick.generation
  BY <1>2, <1>3, LaterIs
<1>5. PICK n \in Nat :
        n = IF grown /\ progress.active /= t THEN progress.late[t] + 1 ELSE progress.late[t]
  <2>1. progress.late[t] \in Nat
    BY ProgressTyped
  <2>2. (IF grown /\ progress.active /= t THEN progress.late[t] + 1 ELSE progress.late[t]) \in Nat
    BY <2>1
  <2> QED
    BY <2>2, Zenon
<1>6. PICK look \in {"hidden", "running", "completed"} : look = IF grown THEN "running" ELSE progress.shown[t]
  BY ProgressTyped
<1>7. PICK shown \in [1 .. Download -> {"hidden", "running", "completed"}], late \in [1 .. Download -> Nat],
           timer \in Observation \cup {Idle} :
        /\ shown = [progress.shown EXCEPT ![t] = look]
        /\ late = [progress.late EXCEPT ![t] = n]
        /\ timer = IF progress.tick.first /\ progress.tick.generation = progress.generation THEN later ELSE progress.timer
  <2>1. [progress.shown EXCEPT ![t] = look] \in [1 .. Download -> {"hidden", "running", "completed"}]
    BY ProgressTyped
  <2>2. [progress.late EXCEPT ![t] = n] \in [1 .. Download -> Nat]
    BY ProgressTyped
  <2>3. (IF progress.tick.first /\ progress.tick.generation = progress.generation THEN later ELSE progress.timer)
          \in Observation \cup {Idle}
    BY ProgressTyped
  <2> QED
    BY <2>1, <2>2, <2>3, Zenon
<1> DEFINE q == [progress EXCEPT !.shown = shown, !.late = late, !.tick = Idle, !.timer = timer]
<1>8. progress' = q
  <2>1. /\ shown = [progress.shown EXCEPT ![tool] = IF grown THEN "running" ELSE progress.shown[tool]]
        /\ late = [progress.late EXCEPT ![tool] =
             IF grown /\ progress.active /= tool THEN progress.late[tool] + 1 ELSE progress.late[tool]]
        /\ timer = IF progress.tick.first /\ progress.tick.generation = progress.generation
                   THEN [progress.tick EXCEPT !.first = FALSE] ELSE progress.timer
    BY <1>3, <1>4, <1>5, <1>6, <1>7
  <2> QED
    BY <1>1, <2>1
<1>9. /\ q \in Progressing /\ q.active = progress.active /\ q.shown = shown /\ q.reading = progress.reading
      /\ q.late = late /\ q.generation = progress.generation /\ q.tick = Idle /\ q.timer = timer
  BY ProgressTyped DEF Progressing
<1> HIDE DEF q
<1>10. ObservedInv(q)
  <2>1. \A o : OfNow(progress, o) => OfNow(q, o)
    BY <1>9 DEF OfNow
  <2>2. OfNow(q, later)
    BY <1>2, <1>3, <1>4, <1>9 DEF OfNow
  <2> QED
    BY <1>7, <1>9, <2>1, <2>2, ProgressTyped DEF ObservedInv
<1>11. OnceInv(q)
  <2> SUFFICES ASSUME NEW u \in 1 .. Download
               PROVE  /\ q.late[u] <= 1
                      /\ q.late[u] = 1 => u # q.active /\ q.shown[u] # "hidden" /\ q.tick.tool # u
    BY DEF OnceInv
  <2>1. CASE u # t
    <3>1. late[u] = progress.late[u] /\ shown[u] = progress.shown[u]
      BY <1>7, <2>1, ProgressTyped
    <3>2. Idle.tool # u
      BY IdleIs
    <3> QED
      BY <1>9, <3>1, <3>2, ProgressTyped DEF OnceInv
  <2>2. CASE u = t
    <3>1. late[t] = n /\ shown[t] = look
      BY <1>7, ProgressTyped
    <3>2. progress.late[t] = 0
      <4>1. progress.late[t] \in Nat /\ progress.late[t] <= 1
        BY ProgressTyped DEF OnceInv
      <4>2. progress.late[t] # 1
        BY <1>3 DEF ProgressInv, OnceInv
      <4> QED
        BY <4>1, <4>2
    <3>3. Idle.tool # t
      BY IdleIs
    <3> QED
      BY <1>5, <1>6, <1>9, <2>2, <3>1, <3>2, <3>3
  <2> QED
    BY <2>1, <2>2
<1> QED
  BY <1>8, <1>9, <1>10, <1>11, ProgressIs

LEMMA ProgressInitInv == ProgressInit => ProgressInv
<1> SUFFICES ASSUME ProgressInit  PROVE ProgressInv
  OBVIOUS
<1>1. 0 \in 0 .. Download
  BY EimAssumption
<1>2. progress \in Progressing
  BY <1>1 DEF ProgressInit, Progressing, Nothing
<1>3. ObservedInv(progress) /\ OnceInv(progress)
  BY DEF ProgressInit, ObservedInv, OnceInv
<1> QED
  BY <1>2, <1>3 DEF ProgressInv, ProgressTypeOK

LEMMA ProgressNextInv == ProgressInv /\ [ProgressNext]_progress => ProgressInv'
<1> SUFFICES ASSUME ProgressInv, [ProgressNext]_progress  PROVE ProgressInv'
  OBVIOUS
<1>1. CASE ProgressNext
  BY <1>1, DownloadingStep, ExtractedStep, TransferredStep, MetadataReadStep, TimerFiresStep, TickEndsStep
     DEF ProgressNext
<1>2. CASE UNCHANGED progress
  BY <1>2 DEF ProgressInv, ProgressTypeOK
<1> QED
  BY <1>1, <1>2

(* The invariant behind what is shown of the manager's downloads.          *)
THEOREM ProgressInvariant == ProgressSpec => []ProgressInv
<1>1. ProgressInit => ProgressInv
  BY ProgressInitInv
<1>2. ProgressInv /\ [ProgressNext]_progress => ProgressInv'
  BY ProgressNextInv
<1> QED
  BY <1>1, <1>2, PTL DEF ProgressSpec

(* The progress has its type.                                              *)
THEOREM ProgressTypes == ProgressSpec => []ProgressTypeOK
<1>1. ProgressInv => ProgressTypeOK
  BY DEF ProgressInv
<1> QED
  BY <1>1, ProgressInvariant, PTL

(* A completed download is shown as running at most once more              *)
(* (eim-installer.ts, EimDownloadFileMonitor).                             *)
THEOREM CompletionsSettle == ProgressSpec => []LateAtMostOnce
<1>1. ProgressInv => LateAtMostOnce
  BY DEF ProgressInv, OnceInv, LateAtMostOnce
<1> QED
  BY <1>1, ProgressInvariant, PTL

(* Whichever installers interleave and die, what they start was published, *)
(* and what is shown of the downloads settles (eim-installer.ts).          *)
THEOREM InstallsAreSafe == InstallSpec /\ ProgressSpec => []InstallSafe
<1>1. RunsPublished /\ LateAtMostOnce => InstallSafe
  BY DEF InstallSafe
<1> QED
  BY <1>1, ManagersArePublished, CompletionsSettle, PTL

------------------------------------------------------------------------------
\* There is a build: in its place, aside of a compiler that will move it back,
\* or lost to a compiler that could not.
SomeBuild == published # NoBuild \/ \E b \in Builder :
  builder[b].hurt \/ (builder[b].at \in {"publish", "restore"} /\ builder[b].aside # NoBuild)

\* Once anything shows that there was a build, there is one.
PlaceInv ==
  /\ \A b \in Builder : /\ builder[b].aside # NoBuild \/ builder[b].at \in {"discard", "succeeded"} => SomeBuild
                        /\ builder[b].hurt => builder[b].at \in {"clean", "failed", "killed"}
                        /\ builder[b].at \in {"stage", "aside"} => builder[b].aside = NoBuild
  /\ \A l \in Loader : loader[l].index # NoBuild => SomeBuild

\* A loader has no bundles before it has an index, and then those of one build.
LoadInv ==
  /\ \A l \in Loader : loader[l].index = NoBuild => DOMAIN loader[l].bundles = {}
  /\ OneBuild

PublishInv == PublishTypeOK /\ PlaceInv /\ LoadInv

\* One compiler takes a step, the loaders do not, and what was a build is one.
LEMMA BuilderGoesOn ==
  ASSUME PublishInv, NEW b \in Builder, NEW q \in Compiling, builder' = [builder EXCEPT ![b] = q],
         loader' = loader, published' \in Builds,
         SomeBuild => SomeBuild',
         q.aside # NoBuild \/ q.at \in {"discard", "succeeded"} => SomeBuild',
         q.hurt => q.at \in {"clean", "failed", "killed"},
         q.at \in {"stage", "aside"} => q.aside = NoBuild
  PROVE  PublishInv'
<1>1. builder \in [Builder -> Compiling]
  BY DEF PublishInv, PublishTypeOK
<1>2. builder' \in [Builder -> Compiling] /\ builder'[b] = q /\ \A c \in Builder : c # b => builder'[c] = builder[c]
  BY <1>1
<1>3. PublishTypeOK'
  BY <1>2 DEF PublishInv, PublishTypeOK
<1>4. PlaceInv'
  <2>1. ASSUME NEW c \in Builder
        PROVE  /\ builder'[c].aside # NoBuild \/ builder'[c].at \in {"discard", "succeeded"} => SomeBuild'
               /\ builder'[c].hurt => builder'[c].at \in {"clean", "failed", "killed"}
               /\ builder'[c].at \in {"stage", "aside"} => builder'[c].aside = NoBuild
    <3>1. CASE c = b
      BY <1>2, <3>1
    <3>2. CASE c # b
      BY <1>2, <3>2 DEF PublishInv, PlaceInv
    <3> QED
      BY <3>1, <3>2
  <2> QED
    BY <2>1 DEF PublishInv, PlaceInv
<1>5. LoadInv'
  BY DEF PublishInv, LoadInv, OneBuild
<1> QED
  BY <1>3, <1>4, <1>5 DEF PublishInv

\* Where nothing is moved, a build stays what it is, or comes to be lost.
LEMMA BuildStays ==
  ASSUME PublishInv, NEW b \in Builder, NEW q \in Compiling, builder' = [builder EXCEPT ![b] = q],
         published' = published,
         builder[b].hurt => q.hurt,
         builder[b].at \in {"publish", "restore"} /\ builder[b].aside # NoBuild =>
           q.hurt \/ published # NoBuild \/ (q.at \in {"publish", "restore"} /\ q.aside # NoBuild)
  PROVE  SomeBuild => SomeBuild'
<1>1. builder \in [Builder -> Compiling]
  BY DEF PublishInv, PublishTypeOK
<1>2. builder'[b] = q /\ \A c \in Builder : c # b => builder'[c] = builder[c]
  BY <1>1
<1> QED
  BY <1>2 DEF SomeBuild

\* What is known of a compiler, without its function.
LEMMA BuilderTyped ==
  ASSUME PublishInv, NEW b \in Builder
  PROVE  /\ builder[b] \in Compiling /\ published \in Builds
         /\ builder[b].aside # NoBuild \/ builder[b].at \in {"discard", "succeeded"} => SomeBuild
         /\ builder[b].hurt => builder[b].at \in {"clean", "failed", "killed"}
         /\ builder[b].at \in {"stage", "aside"} => builder[b].aside = NoBuild
         /\ builder[b].hurt => SomeBuild
         /\ builder \in [Builder -> Compiling]
BY DEF PublishInv, PublishTypeOK, PlaceInv, SomeBuild

\* The steps that move no directory.
LEMMA StageStep ==
  ASSUME PublishInv, NEW b \in Builder,
         Stage(b) \/ MoveFails(b) \/ CompileFails(b) \/ CleanStaging(b) \/ Discard(b)
  PROVE  PublishInv'
<1>1. builder[b] \in Compiling /\ published' = published /\ loader' = loader /\ published \in Builds
  BY BuilderTyped DEF Stage, MoveFails, CompileFails, CleanStaging, Discard
<1>2. PICK q \in Compiling :
        /\ builder' = [builder EXCEPT ![b] = q]
        /\ q.hurt = builder[b].hurt
        /\ q.aside # NoBuild => q.aside = builder[b].aside
        /\ q.at \in {"publish", "restore"} => q.aside = builder[b].aside
        /\ builder[b].at \in {"publish", "restore"} => q.at = "restore" /\ q.aside = builder[b].aside
        /\ q.at \in {"stage", "aside"} => q.aside = NoBuild
        /\ q.hurt => q.at \in {"clean", "failed", "killed"}
        /\ q.at = "succeeded" => builder[b].at = "discard"
        /\ q.at # "discard"
  <2>1. CASE Stage(b)
    <3> DEFINE q == [builder[b] EXCEPT !.at = "aside", !.staging = TRUE]
    <3>1. q \in Compiling /\ q.at = "aside" /\ q.hurt = builder[b].hurt /\ q.aside = builder[b].aside
      BY <1>1 DEF Compiling
    <3>2. builder' = [builder EXCEPT ![b] = q] /\ builder[b].at = "stage"
      BY <2>1 DEF Stage
    <3> HIDE DEF q
    <3> QED
      BY <3>1, <3>2, BuilderTyped
  <2>2. CASE MoveFails(b)
    <3> DEFINE q == [builder[b] EXCEPT !.at = "restore"]
    <3>1. q \in Compiling /\ q.at = "restore" /\ q.hurt = builder[b].hurt /\ q.aside = builder[b].aside
      BY <1>1 DEF Compiling
    <3>2. builder' = [builder EXCEPT ![b] = q] /\ builder[b].at = "publish"
      BY <2>2 DEF MoveFails
    <3> HIDE DEF q
    <3> QED
      BY <3>1, <3>2, BuilderTyped
  <2>3. CASE CompileFails(b)
    <3> DEFINE q == [builder[b] EXCEPT !.at = "clean"]
    <3>1. q \in Compiling /\ q.at = "clean" /\ q.hurt = builder[b].hurt /\ q.aside = builder[b].aside
      BY <1>1 DEF Compiling
    <3>2. builder' = [builder EXCEPT ![b] = q] /\ builder[b].at \in {"stage", "aside", "discard"}
      BY <2>3 DEF CompileFails
    <3> HIDE DEF q
    <3> QED
      BY <3>1, <3>2
  <2>4. CASE CleanStaging(b)
    <3> DEFINE q == [builder[b] EXCEPT !.at = "failed", !.staging = FALSE]
    <3>1. q \in Compiling /\ q.at = "failed" /\ q.hurt = builder[b].hurt /\ q.aside = builder[b].aside
      BY <1>1 DEF Compiling
    <3>2. builder' = [builder EXCEPT ![b] = q] /\ builder[b].at = "clean"
      BY <2>4 DEF CleanStaging
    <3> HIDE DEF q
    <3> QED
      BY <3>1, <3>2
  <2>5. CASE Discard(b)
    <3> DEFINE q == [builder[b] EXCEPT !.at = "succeeded", !.aside = NoBuild]
    <3>1. q \in Compiling /\ q.at = "succeeded" /\ q.hurt = builder[b].hurt /\ q.aside = NoBuild
      BY <1>1 DEF Compiling, Builds
    <3>2. builder' = [builder EXCEPT ![b] = q] /\ builder[b].at = "discard"
      BY <2>5 DEF Discard
    <3> HIDE DEF q
    <3> QED
      BY <3>1, <3>2, BuilderTyped
  <2> QED
    BY <2>1, <2>2, <2>3, <2>4, <2>5
<1>3. SomeBuild => SomeBuild'
  BY <1>1, <1>2, BuildStays
<1>4. q.aside # NoBuild \/ q.at \in {"discard", "succeeded"} => SomeBuild'
  BY <1>2, <1>3, BuilderTyped
<1> QED
  BY <1>1, <1>2, <1>3, <1>4, BuilderGoesOn

\* A directory that is moved aside is aside.
LEMMA MoveAsideStep ==
  ASSUME PublishInv, NEW b \in Builder, MoveAside(b)
  PROVE  PublishInv'
<1> DEFINE q == [builder[b] EXCEPT !.at = "publish", !.aside = published]
<1>1. /\ builder[b] \in Compiling /\ published \in Builds /\ builder[b].at = "aside"
      /\ builder[b].aside = NoBuild /\ ~builder[b].hurt /\ builder \in [Builder -> Compiling]
  BY BuilderTyped DEF MoveAside
<1>2. q \in Compiling /\ q.at = "publish" /\ q.aside = published /\ ~q.hurt
  BY <1>1 DEF Compiling
<1>3. builder' = [builder EXCEPT ![b] = q] /\ published' = NoBuild /\ loader' = loader
  BY DEF MoveAside
<1> HIDE DEF q
<1>4. builder'[b] = q /\ \A c \in Builder : c # b => builder'[c] = builder[c]
  BY <1>1, <1>3
<1>5. SomeBuild => SomeBuild'
  BY <1>1, <1>2, <1>3, <1>4 DEF SomeBuild
<1>6. q.aside # NoBuild => SomeBuild'
  BY <1>2, <1>4 DEF SomeBuild
<1> QED
  BY <1>2, <1>3, <1>5, <1>6, BuilderGoesOn DEF Builds

LEMMA MoveInStep ==
  ASSUME PublishInv, NEW b \in Builder, MoveIn(b)
  PROVE  PublishInv'
<1> DEFINE q == [builder[b] EXCEPT !.at = "discard", !.staging = FALSE]
<1>1. builder[b] \in Compiling /\ builder[b].at = "publish" /\ ~builder[b].hurt
  BY BuilderTyped DEF MoveIn
<1>2. q \in Compiling /\ q.at = "discard" /\ ~q.hurt
  BY <1>1 DEF Compiling
<1>3. builder' = [builder EXCEPT ![b] = q] /\ published' = b /\ loader' = loader
  BY DEF MoveIn
<1> HIDE DEF q
<1>4. SomeBuild' /\ published' \in Builds
  BY <1>3, BuilderAssumption DEF SomeBuild, Builds
<1> QED
  BY <1>2, <1>3, <1>4, BuilderGoesOn

\* A build that could not be moved back is lost, unless another is in its place.
LEMMA MoveBackStep ==
  ASSUME PublishInv, NEW b \in Builder, MoveBack(b)
  PROVE  PublishInv'
<1>1. /\ builder[b] \in Compiling /\ published \in Builds /\ builder[b].at = "restore"
      /\ ~builder[b].hurt /\ builder \in [Builder -> Compiling] /\ loader' = loader
      /\ builder[b].aside # NoBuild => SomeBuild
  BY BuilderTyped DEF MoveBack
<1>2. CASE /\ published = NoBuild /\ published' = builder[b].aside
           /\ builder' = [builder EXCEPT ![b].at = "clean", ![b].aside = NoBuild]
  <2> DEFINE q == [builder[b] EXCEPT !.at = "clean", !.aside = NoBuild]
  <2>1. q \in Compiling /\ q.at = "clean" /\ q.aside = NoBuild
    BY <1>1 DEF Compiling, Builds
  <2>2. builder' = [builder EXCEPT ![b] = q]
    BY <1>2
  <2> HIDE DEF q
  <2>3. \A c \in Builder : c # b => builder'[c] = builder[c]
    BY <1>1, <2>2
  <2>4. SomeBuild => SomeBuild'
    BY <1>1, <1>2, <2>3 DEF SomeBuild
  <2>5. published' \in Builds
    BY <1>1, <1>2 DEF Compiling
  <2> QED
    BY <1>1, <2>1, <2>2, <2>4, <2>5, BuilderGoesOn
<1>3. CASE /\ published' = published
           /\ builder' = [builder EXCEPT ![b].at = "clean",
                                         ![b].hurt = builder[b].aside # NoBuild /\ published = NoBuild]
  <2>1. PICK hurt \in BOOLEAN : hurt <=> builder[b].aside # NoBuild /\ published = NoBuild
    BY Zenon
  <2>2. (builder[b].aside # NoBuild /\ published = NoBuild) = hurt
    BY <2>1, Zenon
  <2> DEFINE q == [builder[b] EXCEPT !.at = "clean", !.hurt = hurt]
  <2>3. q \in Compiling /\ q.at = "clean" /\ q.aside = builder[b].aside /\ (q.hurt <=> hurt)
    BY <1>1 DEF Compiling
  <2>4. builder' = [builder EXCEPT ![b] = q]
    BY <1>3, <2>2, Zenon
  <2> HIDE DEF q
  <2>5. SomeBuild => SomeBuild'
    BY <1>1, <1>3, <2>1, <2>3, <2>4, BuildStays
  <2>6. q.aside # NoBuild => SomeBuild'
    BY <1>1, <2>3, <2>5
  <2>7. published' \in Builds /\ q.at \notin {"discard", "succeeded", "stage", "aside"}
    BY <1>1, <1>3, <2>3
  <2> QED
    BY <1>1, <2>3, <2>4, <2>5, <2>6, <2>7, BuilderGoesOn
<1> QED
  BY <1>2, <1>3 DEF MoveBack

LEMMA KilledStep ==
  ASSUME PublishInv, NEW b \in Builder, BuilderKilled(b)
  PROVE  PublishInv'
<1>1. /\ builder[b] \in Compiling /\ published \in Builds /\ loader' = loader /\ published' = published
      /\ builder[b].aside # NoBuild => SomeBuild
  BY BuilderTyped DEF BuilderKilled
<1>2. PICK hurt \in BOOLEAN : hurt <=> builder[b].hurt \/ builder[b].at \in {"publish", "restore"}
  BY Zenon
<1>3. (builder[b].hurt \/ builder[b].at \in {"publish", "restore"}) = hurt
  BY <1>2, Zenon
<1> DEFINE q == [builder[b] EXCEPT !.at = "killed", !.hurt = hurt]
<1>4. q \in Compiling /\ q.at = "killed" /\ q.aside = builder[b].aside /\ q.hurt = hurt
  BY <1>1 DEF Compiling
<1>5. builder' = [builder EXCEPT ![b] = q]
  BY <1>3, Zenon DEF BuilderKilled
<1> HIDE DEF q
<1>6. SomeBuild => SomeBuild'
  BY <1>1, <1>2, <1>4, <1>5, BuildStays
<1> QED
  BY <1>1, <1>4, <1>5, <1>6, BuilderGoesOn

\* The loaders: an index once, and a bundle whose hash is in it.
LEMMA LoadStep ==
  ASSUME PublishInv, NEW l \in Loader, LoadIndex(l) \/ LoadBundle(l)
  PROVE  PublishInv'
<1>1. loader \in [Loader -> Loading] /\ loader[l] \in Loading /\ published \in Builds
  BY DEF PublishInv, PublishTypeOK
<1>2. published' = published /\ builder' = builder
  BY DEF LoadIndex, LoadBundle
<1>3. SomeBuild' <=> SomeBuild
  BY <1>2 DEF SomeBuild
<1>4. PICK q \in Loading :
        /\ loader' = [loader EXCEPT ![l] = q]
        /\ q.index # NoBuild /\ SomeBuild
        /\ \A a \in DOMAIN q.bundles : q.bundles[a] = Content[q.index][a]
  <2>1. CASE LoadIndex(l)
    <3> DEFINE q == [loader[l] EXCEPT !.index = published]
    <3>1. q \in Loading /\ q.index = published /\ q.bundles = loader[l].bundles
      BY <1>1 DEF Loading
    <3>2. loader' = [loader EXCEPT ![l] = q] /\ published # NoBuild /\ loader[l].index = NoBuild
      BY <2>1 DEF LoadIndex
    <3> HIDE DEF q
    <3>3. DOMAIN q.bundles = {}
      BY <3>1, <3>2 DEF PublishInv, LoadInv
    <3> QED
      BY <3>1, <3>2, <3>3 DEF SomeBuild
  <2>2. CASE LoadBundle(l)
    <3>1. PICK a \in AdapterIds \ DOMAIN loader[l].bundles :
            /\ loader[l].index # NoBuild
            /\ SameHash(loader[l].index, published, a)
            /\ loader' = [loader EXCEPT ![l].bundles = With(loader[l].bundles, a, Content[published][a])]
      BY <2>2 DEF LoadBundle
    <3>2. PICK old \in UNION {[loaded -> Hashes] : loaded \in SUBSET AdapterIds} : old = loader[l].bundles
      BY <1>1 DEF Loading
    <3>3. PICK h \in Hashes : h = Content[published][a]
      BY <1>1, <3>1 DEF SameHash, Hashes
    <3> DEFINE new == With(old, a, h)
               q == [loader[l] EXCEPT !.bundles = new]
    <3>5. /\ new \in UNION {[loaded -> Hashes] : loaded \in SUBSET AdapterIds}
          /\ DOMAIN new = DOMAIN old \cup {a} /\ new[a] = h /\ \A x \in DOMAIN old : x # a => new[x] = old[x]
      <4>1. PICK loaded \in SUBSET AdapterIds : old \in [loaded -> Hashes]
        BY <3>2
      <4>2. new \in [loaded \cup {a} -> Hashes] /\ loaded \cup {a} \in SUBSET AdapterIds
        BY <4>1 DEF With
      <4> HIDE DEF new
      <4>3. new \in UNION {[s -> Hashes] : s \in SUBSET AdapterIds}
        BY <4>2
      <4> QED
        BY <4>3 DEF new, With
    <3> HIDE DEF new
    <3>6. q \in Loading /\ q.index = loader[l].index /\ q.bundles = new
      BY <1>1, <3>5 DEF Loading
    <3>7. loader' = [loader EXCEPT ![l] = q]
      BY <3>1, <3>2, <3>3 DEF new
    <3> HIDE DEF q
    <3>8. \A x \in DOMAIN old : old[x] = Content[loader[l].index][x]
      BY <3>2 DEF PublishInv, LoadInv, OneBuild
    <3>9. h = Content[loader[l].index][a]
      BY <3>1, <3>3 DEF SameHash
    <3>10. SomeBuild
      BY <3>1 DEF PublishInv, PlaceInv
    <3>11. \A x \in DOMAIN q.bundles : q.bundles[x] = Content[q.index][x]
      BY <3>5, <3>6, <3>8, <3>9
    <3>12. q.index # NoBuild
      BY <3>1, <3>6
    <3> QED
      BY <3>6, <3>7, <3>10, <3>11, <3>12
  <2> QED
    BY <2>1, <2>2
<1>5. loader' \in [Loader -> Loading] /\ loader'[l] = q /\ \A k \in Loader : k # l => loader'[k] = loader[k]
  BY <1>1, <1>4
<1>6. PublishTypeOK'
  BY <1>2, <1>5 DEF PublishInv, PublishTypeOK
<1>7. PlaceInv'
  BY <1>2, <1>3, <1>4 DEF PublishInv, PlaceInv
<1>8. LoadInv'
  BY <1>4, <1>5 DEF PublishInv, LoadInv, OneBuild
<1> QED
  BY <1>6, <1>7, <1>8 DEF PublishInv

LEMMA PublishInitInv == PublishInit => PublishInv
<1> SUFFICES ASSUME PublishInit  PROVE PublishInv
  OBVIOUS
<1>1. <<>> \in [{} -> Hashes]
  OBVIOUS
<1>2. <<>> \in UNION {[loaded -> Hashes] : loaded \in SUBSET AdapterIds}
  BY <1>1
<1>3. PublishTypeOK
  BY <1>2 DEF PublishInit, PublishTypeOK, Builds, Compiling, Loading
<1>4. PlaceInv
  BY DEF PublishInit, PlaceInv
<1>5. LoadInv
  BY DEF PublishInit, LoadInv, OneBuild
<1> QED
  BY <1>3, <1>4, <1>5 DEF PublishInv

LEMMA PublishNextInv == PublishInv /\ [PublishNext]_bundleVars => PublishInv'
<1> SUFFICES ASSUME PublishInv, [PublishNext]_bundleVars  PROVE PublishInv'
  OBVIOUS
<1>1. ASSUME NEW b \in Builder,
             \/ Stage(b) \/ MoveAside(b) \/ MoveIn(b) \/ MoveFails(b) \/ MoveBack(b)
             \/ Discard(b) \/ CompileFails(b) \/ CleanStaging(b) \/ BuilderKilled(b)
      PROVE  PublishInv'
  BY <1>1, StageStep, MoveAsideStep, MoveInStep, MoveBackStep, KilledStep
<1>2. ASSUME NEW l \in Loader, LoadIndex(l) \/ LoadBundle(l)
      PROVE  PublishInv'
  BY <1>2, LoadStep
<1>3. CASE UNCHANGED bundleVars
  BY <1>3 DEF bundleVars, PublishInv, PublishTypeOK, PlaceInv, SomeBuild, LoadInv, OneBuild
<1> QED
  BY <1>1, <1>2, <1>3 DEF PublishNext

(* The invariant behind overlapping compilers and loaders.                 *)
THEOREM PublishInvariant == PublishSpec => []PublishInv
<1>1. PublishInit => PublishInv
  BY PublishInitInv
<1>2. PublishInv /\ [PublishNext]_bundleVars => PublishInv'
  BY PublishNextInv
<1> QED
  BY <1>1, <1>2, PTL DEF PublishSpec

(* The variables of BundlePublish have their types.                        *)
THEOREM PublishTypes == PublishSpec => []PublishTypeOK
<1>1. PublishInv => PublishTypeOK
  BY DEF PublishInv
<1> QED
  BY <1>1, PublishInvariant, PTL

(* The bundles a process loads are of one build, and when the compilers    *)
(* have ended a build is in its place (compiler.ts, loader.ts).            *)
THEOREM BundlesHold == PublishSpec => []BuildsHold
<1>1. PublishInv => BuildsHold
  BY DEF PublishInv, PlaceInv, SomeBuild, LoadInv, BuildsHold, BuildInPlace, BuilderEnded
<1> QED
  BY <1>1, PublishInvariant, PTL

------------------------------------------------------------------------------
\* A command that is under way.
Active(i) == starter[i].at \notin InitEnded

\* The files that are linked before a step, in the order of their creation.
Before(step) == {Order[k] : k \in 1 .. step - 1}

\* The step at hand is one there is.
StepOf(s) ==
  /\ s.at = "fresh" => s.step = 1 /\ s.created = {}
  /\ s.at = "create" => s.step \in 1 .. 3
  /\ s.at = "look" => s.step \in 2 .. 4
  /\ s.at = "add" => s.step \in 2 .. 3

\* What an undisturbed command has found and left, at each place.
PlaceOf(s, files) ==
  /\ s.at # "refused"
  /\ s.at = "fresh" => files = {}
  /\ s.at = "create" => s.created = Before(s.step) /\ files = s.created
  /\ s.at = "rollback" => files = s.created /\ s.created # Files
  /\ s.at \in {"adopt", "look", "add"} => "config" \in files
  /\ s.at \in {"look", "add"} => Before(s.step) \subseteq files
  /\ s.at = "done" => files = Files

\* One command at a time; between two of them there is no later file without
\* the configuration.
AloneInv ==
  /\ \A i, j \in Starter : Active(i) /\ Active(j) => i = j
  /\ (\A i \in Starter : starter[i].at # "rollback") /\ folder.files # {} => "config" \in folder.files
  /\ \A i \in Starter : PlaceOf(starter[i], folder.files)

FolderInv ==
  /\ FolderTypeOK
  /\ \A i \in Starter : StepOf(starter[i])
  /\ ~folder.disturbed => AloneInv

Folders == [files : SUBSET Files, dir : BOOLEAN, disturbed : BOOLEAN]

\* One command takes a step while no other is under way, or is disturbed.
LEMMA FolderGoesOn ==
  ASSUME FolderInv, NEW i \in Starter, NEW q \in Starting, starter' = [starter EXCEPT ![i] = q],
         folder' \in Folders, inits' \in Nat, StepOf(q),
         ~folder'.disturbed =>
           /\ ~folder.disturbed
           /\ Active(i) \/ \A j \in Starter \ {i} : ~Active(j)
           /\ PlaceOf(q, folder'.files)
           /\ q.at # "rollback" /\ folder'.files # {} => "config" \in folder'.files
           /\ folder.files = Files => folder'.files = Files
  PROVE  FolderInv'
<1>1. starter \in [Starter -> Starting]
  BY DEF FolderInv, FolderTypeOK
<1>2. /\ starter' \in [Starter -> Starting] /\ starter'[i] = q
      /\ \A j \in Starter : j # i => starter'[j] = starter[j]
  BY <1>1
<1>3. FolderTypeOK' /\ \A j \in Starter : StepOf(starter'[j])
  <2>1. \A j \in Starter : StepOf(starter'[j])
    BY <1>2 DEF FolderInv
  <2> QED
    BY <1>2, <2>1 DEF FolderTypeOK, Folders
<1>4. ASSUME ~folder'.disturbed
      PROVE  AloneInv'
  <2>1. AloneInv
    BY <1>4 DEF FolderInv
  <2>2. \A j \in Starter : j # i => starter[j].at \in InitEnded
    BY <1>4, <2>1 DEF AloneInv, Active
  <2>3. \A j, k \in Starter : Active(j)' /\ Active(k)' => j = k
    BY <1>2, <2>2 DEF Active
  <2>4. ASSUME NEW j \in Starter, j # i
        PROVE  PlaceOf(starter'[j], folder'.files)
    <3>1. starter'[j] = starter[j] /\ starter[j].at \in InitEnded /\ PlaceOf(starter[j], folder.files)
      BY <1>2, <2>1, <2>2, <2>4 DEF AloneInv
    <3> QED
      BY <1>4, <3>1 DEF PlaceOf, InitEnded
  <2>5. \A j \in Starter : PlaceOf(starter'[j], folder'.files)
    BY <1>2, <1>4, <2>4
  <2>6. (\A j \in Starter : starter'[j].at # "rollback") /\ folder'.files # {} => "config" \in folder'.files
    BY <1>2, <1>4
  <2> QED
    BY <2>3, <2>5, <2>6 DEF AloneInv
<1> QED
  BY <1>3, <1>4 DEF FolderInv

\* What is known of one command, without its function.
LEMMA StarterTyped ==
  ASSUME FolderInv, NEW i \in Starter
  PROVE  /\ starter[i] \in Starting /\ folder \in Folders /\ inits \in Nat /\ StepOf(starter[i])
         /\ ~folder.disturbed => PlaceOf(starter[i], folder.files)
         /\ ~folder.disturbed /\ Active(i) /\ starter[i].at # "rollback" /\ folder.files # {} =>
              "config" \in folder.files
<1>1. /\ starter[i] \in Starting /\ folder \in Folders /\ inits \in Nat /\ StepOf(starter[i])
      /\ ~folder.disturbed => PlaceOf(starter[i], folder.files)
  BY DEF FolderInv, FolderTypeOK, Folders, AloneInv
<1>2. ASSUME ~folder.disturbed, Active(i), starter[i].at # "rollback", folder.files # {}
      PROVE  "config" \in folder.files
  <2>1. AloneInv
    BY <1>2 DEF FolderInv
  <2>2. \A j \in Starter : starter[j].at # "rollback"
    BY <1>2, <2>1 DEF AloneInv, Active, InitEnded
  <2> QED
    BY <1>2, <2>1, <2>2 DEF AloneInv
<1> QED
  BY <1>1, <1>2

LEMMA NoInitTyped ==
  NoInit \in Starting /\ NoInit.at = "idle" /\ NoInit.step = 1 /\ NoInit.created = {}
<1>1. 1 \in 1 .. 4 /\ {} \in SUBSET Files /\ "idle" \in InitEnded
  BY DEF InitEnded
<1> QED
  BY <1>1 DEF NoInit, Starting

\* A command starts: where none is under way, it finds what one left.
LEMMA StartInitStep ==
  ASSUME FolderInv, NEW i \in Starter, StartInit(i)
  PROVE  FolderInv'
<1> DEFINE alone == \A j \in Starter \ {i} : starter[j].at \in InitEnded
<1>1. /\ starter[i].at \in InitEnded /\ inits' = inits + 1
      /\ folder' = [folder EXCEPT !.disturbed = folder.disturbed \/ \E j \in Starter \ {i} : starter[j].at \notin InitEnded]
      /\ starter' = [starter EXCEPT ![i] = [NoInit EXCEPT !.at = IF "config" \in folder.files THEN "adopt" ELSE "fresh"]]
  BY DEF StartInit
<1>2. /\ folder \in Folders /\ inits \in Nat
  BY StarterTyped
<1>3. PICK disturbed \in BOOLEAN :
        disturbed <=> folder.disturbed \/ \E j \in Starter \ {i} : starter[j].at \notin InitEnded
  BY Zenon
<1>4. folder' = [folder EXCEPT !.disturbed = disturbed]
  <2>1. (folder.disturbed \/ \E j \in Starter \ {i} : starter[j].at \notin InitEnded) = disturbed
    BY <1>3, Zenon
  <2> QED
    BY <1>1, <2>1, Zenon
<1>5. folder' \in Folders /\ folder'.files = folder.files /\ (folder'.disturbed <=> disturbed)
  BY <1>2, <1>4 DEF Folders
<1>6. PICK q \in Starting :
        /\ starter' = [starter EXCEPT ![i] = q] /\ q.step = 1 /\ q.created = {}
        /\ q.at = IF "config" \in folder.files THEN "adopt" ELSE "fresh"
  <2>1. PICK at \in {"adopt", "fresh"} : at = IF "config" \in folder.files THEN "adopt" ELSE "fresh"
    OBVIOUS
  <2> DEFINE q == [NoInit EXCEPT !.at = at]
  <2>2. q \in Starting /\ q.at = at /\ q.step = 1 /\ q.created = {}
    BY NoInitTyped DEF Starting
  <2>3. starter' = [starter EXCEPT ![i] = q]
    BY <1>1, <2>1
  <2> HIDE DEF q
  <2> QED
    BY <2>1, <2>2, <2>3
<1>7. StepOf(q)
  BY <1>6 DEF StepOf
<1>8. ASSUME ~disturbed
      PROVE  /\ ~folder.disturbed /\ \A j \in Starter \ {i} : ~Active(j)
             /\ PlaceOf(q, folder.files)
             /\ folder.files # {} => "config" \in folder.files
  <2>1. ~folder.disturbed /\ AloneInv /\ \A j \in Starter : starter[j].at \in InitEnded
    BY <1>1, <1>3, <1>8 DEF FolderInv
  <2>2. folder.files # {} => "config" \in folder.files
    BY <2>1 DEF AloneInv, InitEnded
  <2> QED
    BY <1>6, <2>1, <2>2 DEF Active, PlaceOf
<1>9. inits' \in Nat
  BY <1>1, <1>2
<1> QED
  BY <1>5, <1>6, <1>7, <1>8, <1>9, FolderGoesOn

LEMMA CreateDirectoryStep ==
  ASSUME FolderInv, NEW i \in Starter, CreateDirectory(i)
  PROVE  FolderInv'
<1>1. /\ starter[i] \in Starting /\ folder \in Folders /\ inits \in Nat
      /\ ~folder.disturbed => PlaceOf(starter[i], folder.files)
  BY StarterTyped
<1>2. starter[i].at = "fresh" /\ inits' = inits
  BY DEF CreateDirectory
<1>3. Active(i) /\ (~folder.disturbed => folder.files = {})
  BY <1>1, <1>2 DEF Active, InitEnded, PlaceOf
<1>4. CASE folder.files \cap {"local", "ignore"} /= {}
  <2> DEFINE q == [starter[i] EXCEPT !.at = "refused"]
  <2>1. q \in Starting /\ q.at = "refused"
    BY <1>1 DEF Starting, InitEnded
  <2>2. starter' = [starter EXCEPT ![i] = q] /\ folder' = folder
    BY <1>4 DEF CreateDirectory, Moves
  <2> HIDE DEF q
  <2>3. StepOf(q) /\ folder.disturbed
    BY <1>3, <1>4, <2>1 DEF StepOf
  <2> QED
    BY <1>1, <1>2, <1>3, <2>1, <2>2, <2>3, FolderGoesOn
<1>5. CASE ~(folder.files \cap {"local", "ignore"} /= {})
  <2> DEFINE q == [starter[i] EXCEPT !.at = "create", !.existed = folder.dir]
  <2>1. q \in Starting /\ q.at = "create" /\ q.step = starter[i].step /\ q.created = starter[i].created
    BY <1>1 DEF Starting, Folders
  <2>2. starter' = [starter EXCEPT ![i] = q] /\ folder' = [folder EXCEPT !.dir = TRUE]
    BY <1>5 DEF CreateDirectory
  <2>3. folder' \in Folders /\ folder'.files = folder.files /\ (folder'.disturbed <=> folder.disturbed)
    BY <1>1, <2>2 DEF Folders
  <2> HIDE DEF q
  <2>4. starter[i].step = 1 /\ starter[i].created = {}
    BY <1>2, StarterTyped DEF StepOf
  <2>5. StepOf(q) /\ (~folder.disturbed => PlaceOf(q, folder.files))
    BY <1>3, <2>1, <2>4 DEF StepOf, PlaceOf, Before
  <2> QED
    BY <1>1, <1>2, <1>3, <2>1, <2>2, <2>3, <2>5, FolderGoesOn
<1> QED
  BY <1>4, <1>5

\* The files before a step, one by one.
LEMMA BeforeIs ==
  /\ Before(1) = {} /\ Before(2) = {"config"} /\ Before(3) = {"config", "local"} /\ Before(4) = Files
  /\ Order[1] = "config" /\ Order[2] = "local" /\ Order[3] = "ignore" /\ Len(CreationOrder) = 3
<1>1. Order[1] = "config" /\ Order[2] = "local" /\ Order[3] = "ignore" /\ Len(CreationOrder) = 3
  BY DEF Order, CreationOrder
<1>2. 1 .. 0 = {} /\ 1 .. 1 = {1} /\ 1 .. 2 = {1, 2} /\ 1 .. 3 = {1, 2, 3}
  OBVIOUS
<1>3. Before(1) = {} /\ Before(2) = {"config"}
  BY <1>1, <1>2 DEF Before
<1>4. Before(3) = {"config", "local"}
  BY <1>1, <1>2 DEF Before
<1>5. Before(4) = Files
  BY <1>1, <1>2 DEF Before, Files
<1> QED
  BY <1>1, <1>3, <1>4, <1>5

\* A step links the file that is next.
LEMMA BeforeNext ==
  ASSUME NEW step \in 1 .. 3
  PROVE  /\ Before(step + 1) = Before(step) \cup {Order[step]} /\ Order[step] \in Files
         /\ Before(step) # Files /\ (step # 1 => "config" \in Before(step))
BY BeforeIs DEF Files

LEMMA CreateFileStep ==
  ASSUME FolderInv, NEW i \in Starter, CreateFile(i)
  PROVE  FolderInv'
<1>1. /\ starter[i] \in Starting /\ folder \in Folders /\ inits \in Nat
      /\ ~folder.disturbed => PlaceOf(starter[i], folder.files)
  BY StarterTyped
<1>2. starter[i].at = "create" /\ inits' = inits
  BY DEF CreateFile
<1>3. PICK step \in 1 .. 3 : step = starter[i].step
  BY <1>2, StarterTyped DEF StepOf
<1>4. Active(i) /\ (~folder.disturbed => starter[i].created = Before(step) /\ folder.files = Before(step))
  BY <1>1, <1>2, <1>3 DEF Active, InitEnded, PlaceOf
<1>5. CASE Moves(i, "rollback") /\ folder' = folder
  <2> DEFINE q == [starter[i] EXCEPT !.at = "rollback"]
  <2>1. q \in Starting /\ q.at = "rollback" /\ q.created = starter[i].created
    BY <1>1 DEF Starting
  <2>2. starter' = [starter EXCEPT ![i] = q]
    BY <1>5 DEF Moves
  <2> HIDE DEF q
  <2>3. StepOf(q) /\ (~folder.disturbed => PlaceOf(q, folder.files))
    BY <1>4, <2>1, BeforeNext DEF StepOf, PlaceOf
  <2> QED
    BY <1>1, <1>2, <1>4, <1>5, <2>1, <2>2, <2>3, FolderGoesOn
<1>6. CASE /\ folder' = [folder EXCEPT !.files = folder.files \cup {Order[step]}]
           /\ starter' = [starter EXCEPT ![i].created = starter[i].created \cup {Order[step]},
                                         ![i].step = starter[i].step + 1,
                                         ![i].at = IF starter[i].step = Len(CreationOrder) THEN "done" ELSE "create"]
  <2>1. PICK next \in 1 .. 4, created \in SUBSET Files, files \in SUBSET Files, at \in {"done", "create"} :
          /\ next = step + 1 /\ at = (IF step = 3 THEN "done" ELSE "create")
          /\ created = starter[i].created \cup {Order[step]} /\ files = folder.files \cup {Order[step]}
    <3>1. starter[i].created \cup {Order[step]} \in SUBSET Files /\ folder.files \cup {Order[step]} \in SUBSET Files
      BY <1>1, BeforeNext DEF Starting, Folders
    <3>2. step + 1 \in 1 .. 4
      OBVIOUS
    <3>3. (IF step = 3 THEN "done" ELSE "create") \in {"done", "create"}
      OBVIOUS
    <3> QED
      BY <3>1, <3>2, <3>3, Zenon
  <2> DEFINE q == [starter[i] EXCEPT !.created = created, !.step = next, !.at = at]
  <2>2. q \in Starting /\ q.at = at /\ q.created = created /\ q.step = next
    <3>1. at \in {"fresh", "create", "rollback", "adopt", "look", "add"} \cup InitEnded
      BY DEF InitEnded
    <3> QED
      BY <1>1, <3>1 DEF Starting
  <2>3. starter' = [starter EXCEPT ![i] = q] /\ folder' = [folder EXCEPT !.files = files]
    BY <1>3, <1>6, <2>1, BeforeIs
  <2> HIDE DEF q
  <2>4. folder' \in Folders /\ folder'.files = files /\ (folder'.disturbed <=> folder.disturbed)
    BY <1>1, <2>3 DEF Folders
  <2>5. StepOf(q)
    BY <2>1, <2>2 DEF StepOf
  <2>6. ASSUME ~folder.disturbed
        PROVE  PlaceOf(q, files) /\ "config" \in files /\ (folder.files = Files => files = Files)
    <3>1. created = Before(next) /\ files = Before(next) /\ folder.files # Files
      BY <1>4, <2>1, <2>6, BeforeNext
    <3>2. "config" \in Before(next)
      BY <2>1, BeforeIs DEF Files
    <3>3. at = "done" => Before(next) = Files
      BY <2>1, BeforeIs
    <3> QED
      BY <2>1, <2>2, <3>1, <3>2, <3>3 DEF PlaceOf
  <2> QED
    BY <1>1, <1>2, <1>4, <2>2, <2>3, <2>4, <2>5, <2>6, FolderGoesOn
<1>7. CreationOrder[step] = Order[step]
  BY DEF CreationOrder
<1> QED
  BY <1>2, <1>3, <1>5, <1>6, <1>7 DEF CreateFile

LEMMA TakeBackStep ==
  ASSUME FolderInv, NEW i \in Starter, TakeBack(i)
  PROVE  FolderInv'
<1>1. /\ starter[i] \in Starting /\ folder \in Folders /\ inits \in Nat
      /\ ~folder.disturbed => PlaceOf(starter[i], folder.files)
  BY StarterTyped
<1>2. starter[i].at = "rollback" /\ inits' = inits
  BY DEF TakeBack
<1>3. Active(i) /\ (~folder.disturbed => folder.files = starter[i].created /\ folder.files # Files)
  BY <1>1, <1>2 DEF Active, InitEnded, PlaceOf
<1>4. CASE starter[i].created = {}
  <2> DEFINE q == [starter[i] EXCEPT !.at = "failed"]
  <2>1. q \in Starting /\ q.at = "failed"
    BY <1>1 DEF Starting, InitEnded
  <2>2. /\ starter' = [starter EXCEPT ![i] = q]
        /\ folder' = [folder EXCEPT !.dir = folder.dir /\ (starter[i].existed \/ folder.files \cap {"local", "ignore"} /= {})]
    BY <1>4 DEF TakeBack, Moves
  <2> HIDE DEF q
  <2>3. PICK dir \in BOOLEAN : dir <=> folder.dir /\ (starter[i].existed \/ folder.files \cap {"local", "ignore"} /= {})
    BY Zenon
  <2>4. (folder.dir /\ (starter[i].existed \/ folder.files \cap {"local", "ignore"} /= {})) = dir
    BY <2>3, Zenon
  <2>5. folder' = [folder EXCEPT !.dir = dir]
    BY <2>2, <2>4, Zenon
  <2>6. folder' \in Folders /\ folder'.files = folder.files /\ (folder'.disturbed <=> folder.disturbed)
    BY <1>1, <2>5 DEF Folders
  <2>7. StepOf(q) /\ (~folder.disturbed => PlaceOf(q, folder.files) /\ folder.files = {})
    BY <1>3, <1>4, <2>1 DEF StepOf, PlaceOf
  <2> QED
    BY <1>1, <1>2, <1>3, <2>1, <2>2, <2>6, <2>7, FolderGoesOn
<1>5. CASE starter[i].created # {}
  <2>1. PICK file \in starter[i].created :
          /\ folder' = [folder EXCEPT !.files = folder.files \ {file}]
          /\ starter' = [starter EXCEPT ![i].created = starter[i].created \ {file}]
    BY <1>5 DEF TakeBack
  <2>2. PICK created \in SUBSET Files, files \in SUBSET Files :
          created = starter[i].created \ {file} /\ files = folder.files \ {file}
    BY <1>1 DEF Starting, Folders
  <2> DEFINE q == [starter[i] EXCEPT !.created = created]
  <2>3. q \in Starting /\ q.at = "rollback" /\ q.created = created
    BY <1>1, <1>2 DEF Starting
  <2>4. starter' = [starter EXCEPT ![i] = q] /\ folder' = [folder EXCEPT !.files = files]
    BY <2>1, <2>2
  <2> HIDE DEF q
  <2>5. folder' \in Folders /\ folder'.files = files /\ (folder'.disturbed <=> folder.disturbed)
    BY <1>1, <2>4 DEF Folders
  <2>6. file \in Files
    BY <1>1, <2>1 DEF Starting
  <2>7. StepOf(q) /\ (~folder.disturbed => PlaceOf(q, files))
    BY <1>3, <2>2, <2>3, <2>6 DEF StepOf, PlaceOf
  <2> QED
    BY <1>1, <1>2, <1>3, <2>3, <2>4, <2>5, <2>7, FolderGoesOn
<1> QED
  BY <1>4, <1>5

LEMMA AdoptStep ==
  ASSUME FolderInv, NEW i \in Starter, Adopt(i)
  PROVE  FolderInv'
<1>1. /\ starter[i] \in Starting /\ folder \in Folders /\ inits \in Nat
      /\ ~folder.disturbed => PlaceOf(starter[i], folder.files)
  BY StarterTyped
<1>2. /\ starter[i].at = "adopt" /\ inits' = inits /\ folder' = [folder EXCEPT !.dir = TRUE]
      /\ starter' = [starter EXCEPT ![i].at = "look", ![i].step = 2]
  BY DEF Adopt
<1>3. Active(i) /\ (~folder.disturbed => "config" \in folder.files)
  BY <1>1, <1>2 DEF Active, InitEnded, PlaceOf
<1>4. folder' \in Folders /\ folder'.files = folder.files /\ (folder'.disturbed <=> folder.disturbed)
  BY <1>1, <1>2 DEF Folders
<1> DEFINE q == [starter[i] EXCEPT !.at = "look", !.step = 2]
<1>5. q \in Starting /\ q.at = "look" /\ q.step = 2
  <2>1. 2 \in 1 .. 4
    OBVIOUS
  <2> QED
    BY <1>1, <2>1 DEF Starting
<1>6. starter' = [starter EXCEPT ![i] = q]
  BY <1>2
<1> HIDE DEF q
<1>7. StepOf(q) /\ (~folder.disturbed => PlaceOf(q, folder.files))
  BY <1>3, <1>5, BeforeIs DEF StepOf, PlaceOf
<1> QED
  BY <1>1, <1>2, <1>3, <1>4, <1>5, <1>6, <1>7, FolderGoesOn

LEMMA LookStep ==
  ASSUME FolderInv, NEW i \in Starter, Look(i)
  PROVE  FolderInv'
<1>1. /\ starter[i] \in Starting /\ folder \in Folders /\ inits \in Nat
      /\ ~folder.disturbed => PlaceOf(starter[i], folder.files)
  BY StarterTyped
<1>2. starter[i].at = "look" /\ inits' = inits /\ folder' = folder
  BY DEF Look
<1>3. PICK step \in 2 .. 4 : step = starter[i].step
  BY <1>2, StarterTyped DEF StepOf
<1>4. /\ Active(i)
      /\ ~folder.disturbed => "config" \in folder.files /\ Before(step) \subseteq folder.files
  BY <1>1, <1>2, <1>3 DEF Active, InitEnded, PlaceOf
<1>5. PICK q \in Starting :
        /\ starter' = [starter EXCEPT ![i] = q]
        /\ \/ step > 3 /\ q.at = "done"
           \/ step <= 3 /\ Order[step] \in folder.files /\ q.at = "look" /\ q.step = step + 1
           \/ step <= 3 /\ q.at = "add" /\ q.step = step
  <2>1. CASE step > 3
    <3> DEFINE q == [starter[i] EXCEPT !.at = "done"]
    <3>1. q \in Starting /\ q.at = "done"
      BY <1>1 DEF Starting, InitEnded
    <3>2. starter' = [starter EXCEPT ![i] = q]
      BY <1>3, <2>1 DEF Look
    <3> HIDE DEF q
    <3> QED
      BY <2>1, <3>1, <3>2
  <2>2. CASE step <= 3 /\ Order[step] \in folder.files
    <3>1. PICK next \in 1 .. 4 : next = step + 1
      BY <2>2
    <3> DEFINE q == [starter[i] EXCEPT !.step = next]
    <3>2. q \in Starting /\ q.at = "look" /\ q.step = next
      BY <1>1, <1>2 DEF Starting
    <3>3. ~(starter[i].step > 3) /\ Order[starter[i].step] \in folder.files /\ next = starter[i].step + 1
      BY <1>3, <2>2, <3>1
    <3>4. starter' = [starter EXCEPT ![i] = q]
      BY <3>3 DEF Look
    <3> HIDE DEF q
    <3> QED
      BY <2>2, <3>1, <3>2, <3>4
  <2>3. CASE step <= 3 /\ Order[step] \notin folder.files
    <3> DEFINE q == [starter[i] EXCEPT !.at = "add"]
    <3>1. q \in Starting /\ q.at = "add" /\ q.step = step
      BY <1>1, <1>3 DEF Starting
    <3>2. ~(starter[i].step > 3) /\ Order[starter[i].step] \notin folder.files
      BY <1>3, <2>3
    <3>3. starter' = [starter EXCEPT ![i] = q]
      BY <3>2 DEF Look
    <3> HIDE DEF q
    <3> QED
      BY <2>3, <3>1, <3>3
  <2> QED
    BY <2>1, <2>2, <2>3
<1>6. StepOf(q)
  BY <1>3, <1>5 DEF StepOf
<1>7. ASSUME ~folder.disturbed
      PROVE  PlaceOf(q, folder.files)
  <2>1. CASE step > 3
    <3>1. step = 4 /\ folder.files = Files
      BY <1>1, <1>4, <1>7, <2>1, BeforeIs DEF Folders
    <3> QED
      BY <1>5, <2>1, <3>1 DEF PlaceOf
  <2>2. CASE step <= 3
    <3>1. Before(step + 1) = Before(step) \cup {Order[step]}
      BY <2>2, BeforeNext
    <3> QED
      BY <1>4, <1>5, <1>7, <2>2, <3>1 DEF PlaceOf
  <2> QED
    BY <2>1, <2>2
<1>8. ~folder.disturbed => "config" \in folder.files
  BY <1>4
<1> QED
  BY <1>1, <1>2, <1>4, <1>5, <1>6, <1>7, <1>8, FolderGoesOn

LEMMA AddMissingStep ==
  ASSUME FolderInv, NEW i \in Starter, AddMissing(i)
  PROVE  FolderInv'
<1>1. /\ starter[i] \in Starting /\ folder \in Folders /\ inits \in Nat
      /\ ~folder.disturbed => PlaceOf(starter[i], folder.files)
  BY StarterTyped
<1>2. starter[i].at = "add" /\ inits' = inits
  BY DEF AddMissing
<1>3. PICK step \in 2 .. 3 : step = starter[i].step
  BY <1>2, StarterTyped DEF StepOf
<1>4. /\ Active(i)
      /\ ~folder.disturbed => "config" \in folder.files /\ Before(step) \subseteq folder.files
  BY <1>1, <1>2, <1>3 DEF Active, InitEnded, PlaceOf
<1>5. CASE Moves(i, "failed") /\ folder' = folder
  <2> DEFINE q == [starter[i] EXCEPT !.at = "failed"]
  <2>1. q \in Starting /\ q.at = "failed"
    BY <1>1 DEF Starting, InitEnded
  <2>2. starter' = [starter EXCEPT ![i] = q]
    BY <1>5 DEF Moves
  <2> HIDE DEF q
  <2>3. StepOf(q) /\ PlaceOf(q, folder.files)
    BY <2>1 DEF StepOf, PlaceOf
  <2> QED
    BY <1>1, <1>2, <1>4, <1>5, <2>1, <2>2, <2>3, FolderGoesOn
<1>6. CASE /\ folder' = [folder EXCEPT !.files = folder.files \cup {Order[step]}]
           /\ starter' = [starter EXCEPT ![i].at = "look", ![i].step = starter[i].step + 1]
  <2>1. PICK next \in 1 .. 4, files \in SUBSET Files : next = step + 1 /\ files = folder.files \cup {Order[step]}
    <3>1. folder.files \cup {Order[step]} \in SUBSET Files
      BY <1>1, BeforeNext DEF Folders
    <3>2. step + 1 \in 1 .. 4
      OBVIOUS
    <3> QED
      BY <3>1, <3>2, Zenon
  <2> DEFINE q == [starter[i] EXCEPT !.at = "look", !.step = next]
  <2>2. q \in Starting /\ q.at = "look" /\ q.step = next
    BY <1>1 DEF Starting
  <2>3. starter' = [starter EXCEPT ![i] = q] /\ folder' = [folder EXCEPT !.files = files]
    BY <1>3, <1>6, <2>1
  <2> HIDE DEF q
  <2>4. folder' \in Folders /\ folder'.files = files /\ (folder'.disturbed <=> folder.disturbed)
    BY <1>1, <2>3 DEF Folders
  <2>5. StepOf(q) /\ (folder.files = Files => files = Files)
    BY <2>1, <2>2 DEF StepOf
  <2>6. ~folder.disturbed => "config" \in files /\ PlaceOf(q, files)
    BY <1>4, <2>1, <2>2, BeforeNext DEF PlaceOf
  <2> QED
    BY <1>1, <1>2, <1>4, <2>2, <2>3, <2>4, <2>5, <2>6, FolderGoesOn
<1> QED
  BY <1>2, <1>3, <1>5, <1>6 DEF AddMissing

LEMMA InitDiesStep ==
  ASSUME FolderInv, NEW i \in Starter, InitDies(i)
  PROVE  FolderInv'
<1>1. starter[i] \in Starting /\ folder \in Folders /\ inits \in Nat
  BY StarterTyped
<1>2. /\ Active(i) /\ inits' = inits /\ Moves(i, "dead")
      /\ folder' = [folder EXCEPT !.disturbed = folder.disturbed \/ starter[i].at = "rollback"]
  BY DEF InitDies, Active
<1>3. PICK disturbed \in BOOLEAN : disturbed <=> folder.disturbed \/ starter[i].at = "rollback"
  BY Zenon
<1>4. folder' = [folder EXCEPT !.disturbed = disturbed]
  <2>1. (folder.disturbed \/ starter[i].at = "rollback") = disturbed
    BY <1>3, Zenon
  <2> QED
    BY <1>2, <2>1, Zenon
<1>5. folder' \in Folders /\ folder'.files = folder.files /\ (folder'.disturbed <=> disturbed)
  BY <1>1, <1>4 DEF Folders
<1> DEFINE q == [starter[i] EXCEPT !.at = "dead"]
<1>6. q \in Starting /\ q.at = "dead"
  BY <1>1 DEF Starting, InitEnded
<1>7. starter' = [starter EXCEPT ![i] = q]
  BY <1>2 DEF Moves
<1> HIDE DEF q
<1>8. StepOf(q) /\ PlaceOf(q, folder.files)
  BY <1>6 DEF StepOf, PlaceOf
<1>9. ~disturbed => ~folder.disturbed /\ (folder.files # {} => "config" \in folder.files)
  BY <1>2, <1>3, StarterTyped
<1> QED
  BY <1>1, <1>2, <1>5, <1>6, <1>7, <1>8, <1>9, FolderGoesOn

LEMMA FolderInitInv == FolderInit => FolderInv
<1> SUFFICES ASSUME FolderInit  PROVE FolderInv
  OBVIOUS
<1>1. FolderTypeOK
  BY NoInitTyped DEF FolderInit, FolderTypeOK
<1>2. folder.files = {} /\ \A i \in Starter : starter[i] = NoInit /\ NoInit.at = "idle"
  BY NoInitTyped DEF FolderInit
<1>3. AloneInv /\ \A i \in Starter : StepOf(starter[i])
  BY <1>2, NoInitTyped DEF AloneInv, Active, InitEnded, PlaceOf, StepOf
<1> QED
  BY <1>1, <1>3 DEF FolderInv

LEMMA FolderNextInv == FolderInv /\ [FolderNext]_initVars => FolderInv'
<1> SUFFICES ASSUME FolderInv, [FolderNext]_initVars  PROVE FolderInv'
  OBVIOUS
<1>1. ASSUME NEW i \in Starter, StartInit(i) \/ CreateDirectory(i) \/ CreateFile(i) \/ TakeBack(i)
                                  \/ Adopt(i) \/ Look(i) \/ AddMissing(i) \/ InitDies(i)
      PROVE  FolderInv'
  BY <1>1, StartInitStep, CreateDirectoryStep, CreateFileStep, TakeBackStep, AdoptStep, LookStep,
     AddMissingStep, InitDiesStep
<1>2. CASE UNCHANGED initVars
  BY <1>2 DEF initVars, FolderInv, FolderTypeOK, AloneInv, Active
<1> QED
  BY <1>1, <1>2 DEF FolderNext

(* The invariant behind the commands that initialize a project.            *)
THEOREM FolderInvariant == FolderSpec => []FolderInv
<1>1. FolderInit => FolderInv
  BY FolderInitInv
<1>2. FolderInv /\ [FolderNext]_initVars => FolderInv'
  BY FolderNextInv
<1> QED
  BY <1>1, <1>2, PTL DEF FolderSpec

(* The variables of ProjectInit have their types.                          *)
THEOREM FolderTypes == FolderSpec => []FolderTypeOK
<1>1. FolderInv => FolderTypeOK
  BY DEF FolderInv
<1> QED
  BY <1>1, FolderInvariant, PTL

(* An undisturbed init is never refused for what an earlier one left, and  *)
(* leaves all its files (application/init/use-case.ts).                    *)
THEOREM InitsComplete == FolderSpec => []InitCompletes
<1>1. FolderInv => InitCompletes
  BY DEF FolderInv, AloneInv, PlaceOf, InitCompletes
<1> QED
  BY <1>1, FolderInvariant, PTL

------------------------------------------------------------------------------
\* A draft is valid, and differs from the file as it is now only in what was
\* asked for, in what the others changed since the file was read, and in what
\* is no longer as it was loaded, of the list that is written anew.
DraftInv == \A c \in Command : editor[c].at = "rename" =>
  /\ ValidDraft(editor[c].draft)
  /\ Changed(project, editor[c].draft) \subseteq
       editor[c].edit.asks \cup editor[c].since \cup NewerThanLoad(editor[c])

\* What an edit takes out or puts in without having been asked to is in its list
\* as it was loaded.
AsLoaded(edit, loaded) ==
  /\ (loaded \cap edit.drop) \ edit.put \subseteq edit.asks
  /\ edit.put \ edit.asks \subseteq loaded \cap edit.drop
ListInv == \A c \in Command : editor[c].at \in {"read", "rename"} => AsLoaded(editor[c].edit, editor[c].loaded)

ConfigInv == ConfigTypeOK /\ AlwaysLoads /\ DraftInv /\ ListInv

\* The facts there may be.
LEMMA FactsAre ==
  /\ \A d \in Devices : Configured(d) \in Facts /\ Port(d) \in Facts /\ MemberOf(d) \in Facts
  /\ System \subseteq Facts /\ AdapterList \subseteq Facts
<1>1. ASSUME NEW d \in Devices
      PROVE  Configured(d) \in Facts /\ Port(d) \in Facts /\ MemberOf(d) \in Facts
  BY Zenon DEF Facts, System
<1>2. System \subseteq Facts /\ AdapterList \subseteq Facts
  BY Zenon DEF Facts
<1> QED
  BY <1>1, <1>2

\* One command takes a step that does not touch the file.
LEMMA EditorGoesOn ==
  ASSUME ConfigInv, NEW c \in Command, NEW q \in Editing, editor' = [editor EXCEPT ![c] = q],
         project' = project, started' \in Nat,
         q.at = "rename" => /\ ValidDraft(q.draft)
                            /\ Changed(project, q.draft) \subseteq q.edit.asks \cup q.since \cup NewerThanLoad(q),
         q.at \in {"read", "rename"} => AsLoaded(q.edit, q.loaded)
  PROVE  ConfigInv'
<1>1. editor \in [Command -> Editing]
  BY DEF ConfigInv, ConfigTypeOK
<1>2. editor' \in [Command -> Editing] /\ editor'[c] = q /\ \A o \in Command : o # c => editor'[o] = editor[o]
  BY <1>1
<1>3. ConfigTypeOK' /\ AlwaysLoads'
  BY <1>2 DEF ConfigInv, ConfigTypeOK, AlwaysLoads
<1>4. ASSUME NEW o \in Command, editor'[o].at = "rename"
      PROVE  /\ ValidDraft(editor'[o].draft)
             /\ Changed(project', editor'[o].draft) \subseteq
                  editor'[o].edit.asks \cup editor'[o].since \cup NewerThanLoad(editor[o])'
  <2>1. CASE o = c
    BY <1>2, <1>4, <2>1 DEF NewerThanLoad
  <2>2. CASE o # c
    BY <1>2, <1>4, <2>2 DEF ConfigInv, DraftInv, NewerThanLoad
  <2> QED
    BY <2>1, <2>2
<1>5. ASSUME NEW o \in Command, editor'[o].at \in {"read", "rename"}
      PROVE  AsLoaded(editor'[o].edit, editor'[o].loaded)
  BY <1>2, <1>5 DEF ConfigInv, ListInv
<1>6. DraftInv' /\ ListInv'
  BY <1>4, <1>5 DEF DraftInv, ListInv, AsLoaded
<1> QED
  BY <1>3, <1>6 DEF ConfigInv

\* What is known of one command, without its function.
LEMMA EditorTyped ==
  ASSUME ConfigInv, NEW c \in Command
  PROVE  editor[c] \in Editing /\ project \in SUBSET Facts /\ started \in Nat /\ editor \in [Command -> Editing]
BY DEF ConfigInv, ConfigTypeOK

LEMMA NoCommandTyped == NoEdit \in Edits /\ NoCommand \in Editing /\ NoCommand.at = "idle"
BY DEF EditOf, NoEdit, NoCommand, Edits, Editing

\* A command begins, or is killed.
LEMMA LoadOrDie ==
  ASSUME ConfigInv, NEW c \in Command, Load(c) \/ Dies(c)
  PROVE  ConfigInv'
<1>1. project \in SUBSET Facts /\ started \in Nat
  BY EditorTyped
<1>2. CASE Load(c)
  <2> DEFINE q == [NoCommand EXCEPT !.at = "asked", !.loaded = project]
  <2>1. q \in Editing /\ q.at = "asked"
    BY <1>1, NoCommandTyped DEF Editing
  <2>2. editor' = [editor EXCEPT ![c] = q] /\ project' = project /\ started' = started + 1
    BY <1>2 DEF Load
  <2> HIDE DEF q
  <2>3. started' \in Nat
    BY <1>1, <2>2
  <2> QED
    BY <2>1, <2>2, <2>3, EditorGoesOn
<1>3. CASE Dies(c)
  BY <1>1, <1>3, NoCommandTyped, EditorGoesOn DEF Dies
<1> QED
  BY <1>2, <1>3

\* An entry is put into a list, or taken out of it.
LEMMA ListEdited ==
  ASSUME NEW list \in SUBSET Facts, NEW loaded \in SUBSET Facts,
         NEW edit \in ListWith(list, loaded) \cup ListWithout(list, loaded)
  PROVE  edit \in Edits /\ AsLoaded(edit, loaded)
<1>1. CASE edit \in ListWith(list, loaded)
  <2>1. PICK m \in list \ loaded : edit = EditOf({m}, list, (loaded \cap list) \cup {m})
    BY <1>1 DEF ListWith
  <2>2. PICK put \in SUBSET Facts : put = (loaded \cap list) \cup {m}
    BY <2>1
  <2>3. {m} \in SUBSET Facts
    BY <2>1
  <2> QED
    BY <2>1, <2>2, <2>3 DEF EditOf, Edits, AsLoaded
<1>2. CASE edit \in ListWithout(list, loaded)
  <2>1. PICK m \in list \cap loaded : edit = EditOf({m}, list, (loaded \cap list) \ {m})
    BY <1>2 DEF ListWithout
  <2>2. PICK put \in SUBSET Facts : put = (loaded \cap list) \ {m}
    BY <2>1
  <2>3. {m} \in SUBSET Facts
    BY <2>1
  <2> QED
    BY <2>1, <2>2, <2>3 DEF EditOf, Edits, AsLoaded
<1> QED
  BY <1>1, <1>2

\* Every edit is of facts there may be, and keeps what it was not asked to change.
LEMMA EditTyped ==
  ASSUME NEW loaded \in SUBSET Facts,
         NEW edit \in AddDevice \cup RemoveDevice \cup CreateSystem(loaded) \cup DeleteSystem
                      \cup AddMember(loaded) \cup RemoveMember(loaded) \cup SetEnabled(loaded)
  PROVE  edit \in Edits /\ AsLoaded(edit, loaded)
<1>1. /\ System \in SUBSET Facts /\ AdapterList \in SUBSET Facts
      /\ \A d \in Devices : Configured(d) \in Facts /\ Port(d) \in Facts
  BY FactsAre
<1>2. CASE edit \in AddDevice
  <2>1. PICK d \in Devices : edit \in {EditOf({Configured(d)}, {}, {Configured(d)}),
                                      [EditOf({Configured(d)}, {}, {Configured(d)}) EXCEPT !.port = {Port(d)}]}
    BY <1>2 DEF AddDevice
  <2>2. PICK one \in SUBSET Facts, port \in SUBSET Facts : one = {Configured(d)} /\ port = {Port(d)}
    BY <1>1
  <2>3. edit = EditOf(one, {}, one) \/ edit = [EditOf(one, {}, one) EXCEPT !.port = port]
    BY <2>1, <2>2
  <2> QED
    BY <2>3 DEF EditOf, Edits, AsLoaded
<1>3. CASE edit \in RemoveDevice
  <2>1. PICK both \in SUBSET Facts : edit = EditOf(both, both, {})
    BY <1>1, <1>3 DEF RemoveDevice
  <2> QED
    BY <2>1 DEF EditOf, Edits, AsLoaded
<1>4. CASE edit \in CreateSystem(loaded)
  <2>1. PICK members \in SUBSET System : edit = EditOf(members, System, members) /\ loaded \cap System = {}
    BY <1>4 DEF CreateSystem
  <2>2. PICK list \in SUBSET Facts : list = System
    BY <1>1
  <2> QED
    BY <2>1, <2>2 DEF EditOf, Edits, AsLoaded
<1>5. CASE edit \in DeleteSystem
  <2>1. PICK list \in SUBSET Facts : edit = EditOf(list, list, {})
    BY <1>1, <1>5 DEF DeleteSystem
  <2> QED
    BY <2>1 DEF EditOf, Edits, AsLoaded
<1>6. CASE edit \in AddMember(loaded) \cup RemoveMember(loaded)
  <2>1. edit \in ListWith(System, loaded) \cup ListWithout(System, loaded)
    BY <1>6 DEF AddMember, RemoveMember
  <2> QED
    BY <1>1, <2>1, ListEdited
<1>7. CASE edit \in SetEnabled(loaded)
  <2>1. edit \in ListWith(AdapterList, loaded) \cup ListWithout(AdapterList, loaded)
    BY <1>7 DEF SetEnabled
  <2> QED
    BY <1>1, <2>1, ListEdited
<1> QED
  BY <1>2, <1>3, <1>4, <1>5, <1>6, <1>7

LEMMA AskStep ==
  ASSUME ConfigInv, NEW c \in Command, Ask(c)
  PROVE  ConfigInv'
<1>1. editor[c] \in Editing /\ started \in Nat
  BY EditorTyped
<1>2. PICK loaded \in SUBSET Facts : loaded = editor[c].loaded
  BY <1>1 DEF Editing
<1>3. PICK edit \in AddDevice \cup RemoveDevice \cup CreateSystem(loaded) \cup DeleteSystem
                    \cup AddMember(loaded) \cup RemoveMember(loaded) \cup SetEnabled(loaded) :
        editor' = [editor EXCEPT ![c].at = "read", ![c].edit = edit]
  BY <1>2 DEF Ask
<1>4. edit \in Edits /\ AsLoaded(edit, loaded)
  BY EditTyped
<1> DEFINE q == [editor[c] EXCEPT !.at = "read", !.edit = edit]
<1>5. q \in Editing /\ q.at = "read" /\ q.edit = edit /\ q.loaded = loaded
  BY <1>1, <1>2, <1>4 DEF Editing
<1>6. editor' = [editor EXCEPT ![c] = q] /\ project' = project /\ started' = started
  BY <1>3 DEF Ask
<1> HIDE DEF q
<1> QED
  BY <1>1, <1>4, <1>5, <1>6, EditorGoesOn

\* The draft differs from the file it was made of in what was asked for, and in
\* what is no longer as it was loaded.
LEMMA DraftChanges ==
  ASSUME NEW file, NEW edit \in Edits, NEW loaded, AsLoaded(edit, loaded)
  PROVE  Changed(file, (file \ edit.drop) \cup edit.put) \subseteq
           edit.asks \cup (edit.drop \cap Changed(loaded, file))
BY DEF Changed, AsLoaded

LEMMA ReadFileStep ==
  ASSUME ConfigInv, NEW c \in Command, ReadFile(c)
  PROVE  ConfigInv'
<1>1. editor[c] \in Editing /\ project \in SUBSET Facts /\ started \in Nat
  BY EditorTyped
<1>2. PICK edit \in Edits, loaded \in SUBSET Facts : edit = editor[c].edit /\ loaded = editor[c].loaded
  BY <1>1 DEF Editing
<1>3. AsLoaded(edit, loaded)
  BY <1>2 DEF ReadFile, ConfigInv, ListInv
<1>4. PICK draft \in SUBSET Facts : draft = (project \ edit.drop) \cup edit.put
  BY <1>1 DEF Edits
<1>5. draft = (Base(editor[c].loaded, project) \ editor[c].edit.drop) \cup editor[c].edit.put
  BY <1>2, <1>4 DEF Base
<1> DEFINE q == [editor[c] EXCEPT !.at = "rename", !.draft = draft, !.since = {}]
<1>6. /\ project' = project /\ started' = started
      /\ editor' = [editor EXCEPT ![c] = IF Validate(draft) THEN q ELSE NoCommand]
  BY <1>5 DEF ReadFile
<1>7. q \in Editing /\ q.at = "rename" /\ q.draft = draft /\ q.edit = edit /\ q.loaded = loaded
  BY <1>1, <1>2 DEF Editing
<1> HIDE DEF q
<1>8. CASE Validate(draft)
  <2>1. Changed(project, draft) \subseteq q.edit.asks \cup q.since \cup NewerThanLoad(q)
    BY <1>3, <1>4, <1>7, DraftChanges DEF NewerThanLoad
  <2>2. ValidDraft(draft)
    BY <1>8 DEF Validate
  <2> QED
    BY <1>1, <1>3, <1>6, <1>7, <1>8, <2>1, <2>2, EditorGoesOn
<1>9. CASE ~Validate(draft)
  BY <1>1, <1>6, <1>9, NoCommandTyped, EditorGoesOn
<1> QED
  BY <1>8, <1>9

\* What another command changes under a draft is known to it; the rest is as
\* before, as it was loaded or not.
LEMMA ChangedSince ==
  ASSUME NEW file, NEW other, NEW draft, NEW loaded, NEW asked, NEW list,
         Changed(file, draft) \subseteq asked \cup (list \cap Changed(loaded, file))
  PROVE  Changed(other, draft) \subseteq asked \cup Changed(file, other) \cup (list \cap Changed(loaded, other))
BY DEF Changed

LEMMA RenameStep ==
  ASSUME ConfigInv, NEW c \in Command, Rename(c)
  PROVE  ConfigInv'
<1>1. editor[c] \in Editing /\ project \in SUBSET Facts /\ started \in Nat /\ editor \in [Command -> Editing]
  BY EditorTyped
<1>2. /\ editor[c].at = "rename" /\ project' = editor[c].draft /\ started' = started
      /\ ValidDraft(project') /\ project' \in SUBSET Facts
  BY <1>1 DEF Rename, ConfigInv, DraftInv, Editing
<1>3. PICK new \in SUBSET Facts : new = project'
  BY <1>2
<1>4. Changed(project, new) \in SUBSET Facts
  BY <1>1 DEF Changed
<1>5. /\ DOMAIN editor' = Command
      /\ \A o \in Command : editor'[o] =
           IF o /= c THEN [editor[o] EXCEPT !.since = editor[o].since \cup Changed(project, new)]
           ELSE IF editor[c].edit.port = {} THEN NoCommand
           ELSE [editor[c] EXCEPT !.at = "read", !.edit = EditOf(editor[c].edit.port, {}, editor[c].edit.port)]
  BY <1>2, <1>3 DEF Rename
<1>6. editor' = [o \in Command |-> editor'[o]]
  BY <1>2, <1>3 DEF Rename
<1>7. ASSUME NEW o \in Command, o # c
      PROVE  /\ editor'[o] \in Editing /\ editor'[o].at = editor[o].at /\ editor'[o].draft = editor[o].draft
             /\ editor'[o].edit = editor[o].edit /\ editor'[o].loaded = editor[o].loaded
             /\ editor'[o].since = editor[o].since \cup Changed(project, new)
  <2>1. editor[o] \in Editing
    BY <1>1
  <2>2. PICK since \in SUBSET Facts : since = editor[o].since \cup Changed(project, new)
    BY <1>4, <2>1 DEF Editing
  <2>3. editor'[o] = [editor[o] EXCEPT !.since = since]
    BY <1>5, <1>7, <2>2
  <2> QED
    BY <2>1, <2>2, <2>3 DEF Editing
<1>8. /\ editor'[c] \in Editing /\ editor'[c].at # "rename"
      /\ editor'[c].at = "read" => AsLoaded(editor'[c].edit, editor'[c].loaded)
  <2>1. CASE editor[c].edit.port = {}
    BY <1>5, <2>1, NoCommandTyped
  <2>2. CASE editor[c].edit.port # {}
    <3>1. PICK port \in SUBSET Facts : port = editor[c].edit.port
      BY <1>1 DEF Editing, Edits
    <3>2. PICK edit \in Edits : edit = EditOf(port, {}, port)
      BY <3>1 DEF EditOf, Edits
    <3>3. editor'[c] = [editor[c] EXCEPT !.at = "read", !.edit = edit]
      BY <1>5, <2>2, <3>1, <3>2
    <3>4. editor'[c] \in Editing /\ editor'[c].at = "read" /\ editor'[c].edit = edit
      BY <1>1, <3>3 DEF Editing
    <3>5. ASSUME NEW loaded  PROVE AsLoaded(edit, loaded)
      BY <3>2 DEF EditOf, AsLoaded
    <3> QED
      BY <3>4, <3>5
  <2> QED
    BY <2>1, <2>2
<1>9. ConfigTypeOK'
  <2>1. editor' \in [Command -> Editing]
    BY <1>6, <1>7, <1>8
  <2> QED
    BY <1>1, <1>2, <2>1 DEF ConfigTypeOK
<1>10. ASSUME NEW o \in Command, editor'[o].at = "rename"
       PROVE  /\ ValidDraft(editor'[o].draft)
              /\ Changed(new, editor'[o].draft) \subseteq
                   editor'[o].edit.asks \cup editor'[o].since
                     \cup (editor'[o].edit.drop \cap Changed(editor'[o].loaded, new))
  <2>1. o # c /\ editor[o].at = "rename"
    BY <1>7, <1>8, <1>10
  <2>2. /\ ValidDraft(editor[o].draft)
        /\ Changed(project, editor[o].draft) \subseteq
             (editor[o].edit.asks \cup editor[o].since) \cup (editor[o].edit.drop \cap Changed(editor[o].loaded, project))
    BY <2>1 DEF ConfigInv, DraftInv, NewerThanLoad
  <2>3. Changed(new, editor[o].draft) \subseteq
          (editor[o].edit.asks \cup editor[o].since) \cup Changed(project, new)
            \cup (editor[o].edit.drop \cap Changed(editor[o].loaded, new))
    <3>1. PICK draft, asked, list, loaded :
            /\ draft = editor[o].draft /\ asked = editor[o].edit.asks \cup editor[o].since
            /\ list = editor[o].edit.drop /\ loaded = editor[o].loaded
      OBVIOUS
    <3>2. Changed(new, draft) \subseteq asked \cup Changed(project, new) \cup (list \cap Changed(loaded, new))
      BY <2>2, <3>1, ChangedSince
    <3> QED
      BY <3>1, <3>2
  <2>4. /\ editor'[o].draft = editor[o].draft /\ editor'[o].edit = editor[o].edit /\ editor'[o].loaded = editor[o].loaded
        /\ editor'[o].since = editor[o].since \cup Changed(project, new)
    BY <1>7, <2>1
  <2> QED
    BY <2>2, <2>3, <2>4, Zenon
<1>11. DraftInv'
  BY <1>3, <1>10 DEF DraftInv, NewerThanLoad
<1>12. ASSUME NEW o \in Command, editor'[o].at \in {"read", "rename"}
       PROVE  AsLoaded(editor'[o].edit, editor'[o].loaded)
  <2>1. CASE o = c
    BY <1>8, <1>12, <2>1
  <2>2. CASE o # c
    BY <1>7, <1>12, <2>2 DEF ConfigInv, ListInv
  <2> QED
    BY <2>1, <2>2
<1>13. ListInv'
  BY <1>12 DEF ListInv, AsLoaded
<1> QED
  BY <1>2, <1>9, <1>11, <1>13 DEF ConfigInv, AlwaysLoads

LEMMA ConfigInitInv == ConfigInit => ConfigInv
<1> SUFFICES ASSUME ConfigInit  PROVE ConfigInv
  OBVIOUS
<1>1. PICK d \in Devices : d = CHOOSE x \in Devices : TRUE
  BY DevicesAssumption
<1>2. project \in SUBSET Facts /\ ValidDraft(project)
  <2>1. CASE project = {}
    BY <2>1 DEF ValidDraft
  <2>2. CASE project = {Configured(x) : x \in Devices} \cup {MemberOf(d)}
    BY <1>1, <2>2, FactsAre DEF ValidDraft
  <2> QED
    BY <1>1, <2>1, <2>2 DEF ConfigInit
<1>3. editor \in [Command -> Editing] /\ started \in Nat /\ \A c \in Command : editor[c].at = "idle"
  BY NoCommandTyped DEF ConfigInit
<1> QED
  BY <1>2, <1>3 DEF ConfigInv, ConfigTypeOK, AlwaysLoads, DraftInv, ListInv

LEMMA ConfigNextInv == ConfigInv /\ [ConfigNext]_configVars => ConfigInv'
<1> SUFFICES ASSUME ConfigInv, [ConfigNext]_configVars  PROVE ConfigInv'
  OBVIOUS
<1>1. ASSUME NEW c \in Command, Load(c) \/ Ask(c) \/ ReadFile(c) \/ Rename(c) \/ Dies(c)
      PROVE  ConfigInv'
  BY <1>1, LoadOrDie, AskStep, ReadFileStep, RenameStep
<1>2. CASE UNCHANGED configVars
  BY <1>2 DEF configVars, ConfigInv, ConfigTypeOK, AlwaysLoads, DraftInv, NewerThanLoad, ListInv, AsLoaded
<1> QED
  BY <1>1, <1>2 DEF ConfigNext

(* The invariant behind the edits of the configuration.                    *)
THEOREM ConfigInvariant == ConfigSpec => []ConfigInv
<1>1. ConfigInit => ConfigInv
  BY ConfigInitInv
<1>2. ConfigInv /\ [ConfigNext]_configVars => ConfigInv'
  BY ConfigNextInv
<1> QED
  BY <1>1, <1>2, PTL DEF ConfigSpec

(* The variables of ProjectConfig have their types.                        *)
THEOREM ConfigTypes == ConfigSpec => []ConfigTypeOK
<1>1. ConfigInv => ConfigTypeOK
  BY DEF ConfigInv
<1> QED
  BY <1>1, ConfigInvariant, PTL

(* At every moment the next command can load the file (config/use-case.ts, *)
(* core/config/config.ts).                                                 *)
THEOREM FileAlwaysLoads == ConfigSpec => []AlwaysLoads
<1>1. ConfigInv => AlwaysLoads
  BY DEF ConfigInv
<1> QED
  BY <1>1, ConfigInvariant, PTL

(* Whatever commands interleave or die, each leaves a file that loads.     *)
(* What it changes without having been asked to is newer than its load, in *)
(* the one list that it writes anew, or newer than its reading of the file *)
(* (application/config/use-case.ts, management-use-case.ts).               *)
THEOREM OlderChangesAreKept == ConfigSpec => OlderChangesStay
<1> DEFINE Safe == project' # project => AlwaysLoads' /\ \A c \in Command :
             (editor[c].at = "rename" /\ editor'[c].at /= "rename") =>
                Changed(project, project') \subseteq editor[c].edit.asks \cup editor[c].since \cup NewerThanLoad(editor[c])
<1>1. ConfigInv /\ ConfigInv' /\ [ConfigNext]_configVars => [Safe]_configVars
  <2> SUFFICES ASSUME ConfigInv, ConfigInv', ConfigNext, project' # project,
                      NEW c \in Command, editor[c].at = "rename", editor'[c].at /= "rename"
               PROVE  /\ AlwaysLoads'
                      /\ Changed(project, project') \subseteq editor[c].edit.asks \cup editor[c].since \cup NewerThanLoad(editor[c])
    BY DEF ConfigInv
  <2>1. PICK d \in Command : Rename(d)
    BY DEF ConfigNext, Load, Ask, ReadFile, Dies
  <2>2. d = c
    <3>1. ASSUME d # c
          PROVE  editor'[c].at = "rename"
      <4>1. editor[c] \in Editing
        BY EditorTyped
      <4>2. PICK since : since = editor[c].since \cup Changed(project, editor[d].draft)
        OBVIOUS
      <4>3. editor'[c] = [editor[c] EXCEPT !.since = since]
        BY <2>1, <3>1, <4>2 DEF Rename
      <4> QED
        BY <4>1, <4>3 DEF Editing
    <3> QED
      BY <3>1
  <2>3. project' = editor[c].draft
    BY <2>1, <2>2 DEF Rename
  <2> QED
    BY <2>3 DEF ConfigInv, DraftInv
<1> QED
  BY <1>1, ConfigInvariant, PTL DEF ConfigSpec, OlderChangesStay

------------------------------------------------------------------------------
\* What the target is while the copy has not touched it.
Found == IF copy.had THEN "old" ELSE "none"

\* What is on the disk at each place of the copy.
CopyInv ==
  /\ copy.at \in {"start", "refused"} => ~copy.had
  /\ copy.at = "start" =>
       ~copy.moved /\ ~copy.committed /\ ~copy.lossy /\ path.to = "none" /\ path.backup = "none"
  /\ copy.at \in {"write", "move"} =>
       /\ ~copy.moved /\ ~copy.committed /\ path.backup = "none" /\ path.to \notin {"new", "part"}
       /\ ~copy.lossy => path.to = Found
  /\ copy.at = "commit" => ~copy.committed /\ (~copy.lossy => path.to = "none")
  /\ copy.at = "discard" => copy.committed /\ path.to = "new"
  /\ copy.at \in {"commit", "discard"} =>
       copy.moved = copy.had /\ path.backup = (IF copy.had THEN "old" ELSE "none")
  /\ copy.at = "rollback" /\ ~copy.lossy =>
       /\ IF copy.moved THEN copy.had /\ path.backup = "old"
          ELSE IF copy.committed THEN ~copy.had /\ path.to = "new" ELSE path.to = Found
  /\ copy.at = "rollback" /\ copy.moved => path.backup # "none"
  /\ CopyAllOrNothing

\* A record of this collection is of a name it has been through, and its file is
\* there; the file at hand is on the shelf from its copy to its registration.
CollectInv ==
  LET here == collect.name
  IN /\ \A n \in Name : shelf[n] <= collect.count
     /\ \A r \in records : /\ r.of <= collect.count
                           /\ collect.at # "idle" /\ r.of = collect.count => r.name \in collect.names
     /\ collect.at \in {"rename", "register"} =>
          /\ here \in Name /\ here \in collect.names
          /\ [name |-> here, of |-> collect.count] \notin records
          /\ collect.copied = (collect.at = "register")
     /\ collect.at = "register" => shelf[here] = collect.count
     /\ \A r \in records : shelf[r.name] = r.of \/ (r.of < collect.count /\ (shelf[r.name] = 0 \/ r.of < shelf[r.name]))
     /\ \A n \in Name : shelf[n] = 0 \/ [name |-> n, of |-> shelf[n]] \in records
                          \/ (collect.at = "register" /\ n = here) \/ n \in collect.left

FileInv == FileTypeOK /\ CopyInv /\ CollectInv

(* The copy and the collection share nothing.                              *)
LEMMA CopyAlone ==
  ASSUME FileInv, CopyOnly, copy' \in Copying, path' \in Paths, CopyInv'
  PROVE  FileInv'
BY DEF FileInv, FileTypeOK, CopyOnly, CollectInv

LEMMA CollectAlone ==
  ASSUME FileInv, CollectOnly, collect' \in Collecting, shelf' \in [Name -> Nat],
         records' \subseteq [name : Name, of : Nat], CollectInv'
  PROVE  FileInv'
BY DEF FileInv, FileTypeOK, CollectOnly, CopyInv, CopyAllOrNothing, Found

\* The next place of a copy, as far as the whole invariant goes.
LEMMA CopyGoesOn ==
  ASSUME FileInv, NEW at \in {"refused", "write", "move", "commit", "discard", "rollback", "done", "failed", "killed"},
         CopyGoes(at)
  PROVE  /\ copy' \in Copying /\ copy'.at = at /\ copy'.had = copy.had /\ copy'.moved = copy.moved
         /\ copy'.committed = copy.committed /\ copy'.lossy = copy.lossy
<1>1. copy \in Copying
  BY DEF FileInv, FileTypeOK
<1> QED
  BY <1>1 DEF CopyGoes, Copying

\* A failure before the rollback finds what the rollback needs.
LEMMA CopyFailsStep ==
  ASSUME FileInv, CopyFails, CopyOnly, copy.at \in {"write", "move", "commit", "discard"}
  PROVE  FileInv'
<1>1. /\ copy' \in Copying /\ copy'.at = "rollback" /\ copy'.had = copy.had /\ copy'.moved = copy.moved
      /\ copy'.committed = copy.committed /\ copy'.lossy = copy.lossy /\ path' = path
  BY CopyGoesOn DEF CopyFails
<1>2. path \in Paths /\ copy \in Copying
  BY DEF FileInv, FileTypeOK
<1>3. CopyInv'
  BY <1>1, <1>2 DEF FileInv, CopyInv, CopyAllOrNothing, Found, Copying, Paths
<1> QED
  BY <1>1, <1>2, <1>3, CopyAlone

LEMMA CopyPlanStep ==
  ASSUME FileInv, CopyPlan
  PROVE  FileInv'
<1>1. PICK found \in {"none", "old", "link"}, overwrite \in BOOLEAN :
        /\ copy.at = "start" /\ CopyOnly
        /\ path' = [path EXCEPT !.to = found]
        /\ \/ CopyGoes("refused")
           \/ /\ found # "link" /\ (found = "old" => overwrite)
              /\ copy' = [copy EXCEPT !.at = "write", !.overwrite = overwrite, !.had = found = "old"]
  BY DEF CopyPlan
<1>2. path \in Paths /\ copy \in Copying
  BY DEF FileInv, FileTypeOK
<1>3. path' \in Paths /\ path'.to = found /\ path'.backup = path.backup
  BY <1>1, <1>2 DEF Paths
<1>4. CASE CopyGoes("refused")
  <2>1. /\ copy' \in Copying /\ copy'.at = "refused" /\ copy'.had = copy.had /\ copy'.moved = copy.moved
        /\ copy'.committed = copy.committed /\ copy'.lossy = copy.lossy
    BY <1>4, CopyGoesOn
  <2>2. CopyInv'
    BY <1>1, <1>2, <2>1 DEF FileInv, CopyInv, CopyAllOrNothing
  <2> QED
    BY <1>1, <1>3, <2>1, <2>2, CopyAlone
<1>5. CASE /\ found # "link"
           /\ copy' = [copy EXCEPT !.at = "write", !.overwrite = overwrite, !.had = found = "old"]
  <2>1. PICK had \in BOOLEAN : had <=> found = "old"
    BY Zenon
  <2>2. (found = "old") = had
    BY <2>1, Zenon
  <2>3. copy' = [copy EXCEPT !.at = "write", !.overwrite = overwrite, !.had = had]
    BY <1>5, <2>2, Zenon
  <2>4. /\ copy' \in Copying /\ copy'.at = "write" /\ copy'.had = had /\ copy'.moved = copy.moved
        /\ copy'.committed = copy.committed /\ copy'.lossy = copy.lossy
    BY <1>2, <2>3 DEF Copying
  <2>5. CopyInv'
    BY <1>1, <1>2, <1>3, <1>5, <2>1, <2>4 DEF FileInv, CopyInv, CopyAllOrNothing, Found
  <2> QED
    BY <1>1, <1>3, <2>4, <2>5, CopyAlone
<1> QED
  BY <1>1, <1>4, <1>5

LEMMA CopyWriteStep ==
  ASSUME FileInv, CopyWrite
  PROVE  FileInv'
<1>1. copy.at = "write" /\ CopyOnly
  BY DEF CopyWrite
<1>2. path \in Paths /\ copy \in Copying
  BY DEF FileInv, FileTypeOK
<1>3. CASE CopyFails
  BY <1>1, <1>3, CopyFailsStep
<1>4. ASSUME NEW at \in {"move", "rollback"}, NEW left \in {"new", "part"}, CopyGoes(at),
             path' = [path EXCEPT !.temporary = left]
      PROVE  FileInv'
  <2>1. /\ copy' \in Copying /\ copy'.at = at /\ copy'.had = copy.had /\ copy'.moved = copy.moved
        /\ copy'.committed = copy.committed /\ copy'.lossy = copy.lossy
    BY <1>4, CopyGoesOn
  <2>2. path' \in Paths /\ path'.to = path.to /\ path'.backup = path.backup
    BY <1>2, <1>4 DEF Paths
  <2>3. CopyInv'
    BY <1>1, <1>2, <2>1, <2>2 DEF FileInv, CopyInv, CopyAllOrNothing, Found, Copying
  <2> QED
    BY <1>1, <2>1, <2>2, <2>3, CopyAlone
<1> QED
  BY <1>3, <1>4 DEF CopyWrite

LEMMA CopyMoveStep ==
  ASSUME FileInv, CopyMove
  PROVE  FileInv'
<1>1. copy.at = "move" /\ CopyOnly
  BY DEF CopyMove
<1>2. path \in Paths /\ copy \in Copying
  BY DEF FileInv, FileTypeOK
<1>3. CASE CopyFails
  BY <1>1, <1>3, CopyFailsStep
<1>4. CASE ~copy.had /\ CopyGoes("commit") /\ UNCHANGED path
  <2>1. /\ copy' \in Copying /\ copy'.at = "commit" /\ copy'.had = copy.had /\ copy'.moved = copy.moved
        /\ copy'.committed = copy.committed /\ copy'.lossy = copy.lossy
    BY <1>4, CopyGoesOn
  <2>2. CopyInv'
    BY <1>1, <1>2, <1>4, <2>1 DEF FileInv, CopyInv, CopyAllOrNothing, Found, Copying
  <2> QED
    BY <1>1, <1>2, <1>4, <2>1, <2>2, CopyAlone
<1>5. CASE /\ copy.had /\ path.to \notin {"link", "none"}
           /\ copy' = [copy EXCEPT !.at = "commit", !.moved = TRUE]
           /\ path' = [path EXCEPT !.backup = path.to, !.to = "none"]
  <2>1. path.to = "old"
    <3>1. path.to # "new" /\ path.to # "part"
      BY <1>1 DEF FileInv, CopyInv
    <3> QED
      BY <1>2, <1>5, <3>1 DEF Paths
  <2>2. path' = [path EXCEPT !.backup = "old", !.to = "none"]
    BY <1>5, <2>1
  <2>3. path' \in Paths /\ path'.to = "none" /\ path'.backup = "old"
    BY <1>2, <2>2 DEF Paths
  <2>4. /\ copy' \in Copying /\ copy'.at = "commit" /\ copy'.had = copy.had /\ copy'.moved
        /\ copy'.committed = copy.committed /\ copy'.lossy = copy.lossy
    BY <1>2, <1>5 DEF Copying
  <2>5. CopyInv'
    BY <1>1, <1>2, <1>5, <2>3, <2>4 DEF FileInv, CopyInv, CopyAllOrNothing, Found, Copying
  <2> QED
    BY <1>1, <2>3, <2>4, <2>5, CopyAlone
<1> QED
  BY <1>3, <1>4, <1>5 DEF CopyMove

LEMMA CopyCommitStep ==
  ASSUME FileInv, CopyCommit
  PROVE  FileInv'
<1>1. copy.at = "commit" /\ CopyOnly
  BY DEF CopyCommit
<1>2. path \in Paths /\ copy \in Copying
  BY DEF FileInv, FileTypeOK
<1>3. CASE CopyFails
  BY <1>1, <1>3, CopyFailsStep
<1>4. CASE /\ copy' = [copy EXCEPT !.at = "discard", !.committed = TRUE]
           /\ path' = [path EXCEPT !.to = "new", !.temporary = "none"]
  <2>1. path' \in Paths /\ path'.to = "new" /\ path'.backup = path.backup
    BY <1>2, <1>4 DEF Paths
  <2>2. /\ copy' \in Copying /\ copy'.at = "discard" /\ copy'.had = copy.had /\ copy'.moved = copy.moved
        /\ copy'.committed /\ copy'.lossy = copy.lossy
    BY <1>2, <1>4 DEF Copying
  <2>3. CopyInv'
    BY <1>1, <1>2, <2>1, <2>2 DEF FileInv, CopyInv, CopyAllOrNothing, Found, Copying
  <2> QED
    BY <1>1, <2>1, <2>2, <2>3, CopyAlone
<1> QED
  BY <1>3, <1>4 DEF CopyCommit

LEMMA CopyDiscardStep ==
  ASSUME FileInv, CopyDiscard
  PROVE  FileInv'
<1>1. copy.at = "discard" /\ CopyOnly
  BY DEF CopyDiscard
<1>2. path \in Paths /\ copy \in Copying
  BY DEF FileInv, FileTypeOK
<1>3. CASE CopyFails
  BY <1>1, <1>3, CopyFailsStep
<1>4. CASE CopyGoes("done") /\ path' = [path EXCEPT !.backup = "none"]
  <2>1. /\ copy' \in Copying /\ copy'.at = "done" /\ copy'.had = copy.had /\ copy'.moved = copy.moved
        /\ copy'.committed = copy.committed /\ copy'.lossy = copy.lossy
    BY <1>4, CopyGoesOn
  <2>2. path' \in Paths /\ path'.to = path.to /\ path'.backup = "none"
    BY <1>2, <1>4 DEF Paths
  <2>3. CopyInv'
    BY <1>1, <1>2, <2>1, <2>2 DEF FileInv, CopyInv, CopyAllOrNothing, Found, Copying
  <2> QED
    BY <1>1, <2>1, <2>2, <2>3, CopyAlone
<1>5. CASE /\ copy.moved /\ path' = [path EXCEPT !.backup = "part"]
           /\ copy' = [copy EXCEPT !.at = "rollback", !.lossy = TRUE]
  <2>1. path' \in Paths /\ path'.to = path.to /\ path'.backup = "part"
    BY <1>2, <1>5 DEF Paths
  <2>2. /\ copy' \in Copying /\ copy'.at = "rollback" /\ copy'.had = copy.had /\ copy'.moved = copy.moved
        /\ copy'.committed = copy.committed /\ copy'.lossy
    BY <1>2, <1>5 DEF Copying
  <2>3. CopyInv'
    BY <1>1, <1>2, <2>1, <2>2 DEF FileInv, CopyInv, CopyAllOrNothing, Found, Copying
  <2> QED
    BY <1>1, <2>1, <2>2, <2>3, CopyAlone
<1> QED
  BY <1>3, <1>4, <1>5 DEF CopyDiscard

\* Unless one of its three steps fails, the rollback leaves what was found.
LEMMA CopyRollbackStep ==
  ASSUME FileInv, CopyRollback
  PROVE  FileInv'
<1>1. path \in Paths /\ copy \in Copying
  BY DEF FileInv, FileTypeOK
<1>2. PICK cleaned \in BOOLEAN, removed \in BOOLEAN, restored \in BOOLEAN :
        LET gone == copy.committed /\ removed
            back == Restores /\ restored
        IN /\ copy.at = "rollback" /\ CopyOnly
           /\ path' = [temporary |-> IF cleaned THEN "none" ELSE path.temporary,
                       to |-> IF back THEN path.backup ELSE IF gone THEN "none" ELSE path.to,
                       backup |-> IF back THEN "none" ELSE path.backup]
           /\ copy' = [copy EXCEPT !.at = "failed",
                         !.lossy = copy.lossy \/ (copy.committed /\ ~removed) \/ (copy.moved /\ ~restored)]
  BY DEF CopyRollback
<1>3. PICK lossy \in BOOLEAN : lossy <=> copy.lossy \/ (copy.committed /\ ~removed) \/ (copy.moved /\ ~restored)
  BY Zenon
<1>4. copy' = [copy EXCEPT !.at = "failed", !.lossy = lossy]
  <2>1. (copy.lossy \/ (copy.committed /\ ~removed) \/ (copy.moved /\ ~restored)) = lossy
    BY <1>3, Zenon
  <2> QED
    BY <1>2, <2>1, Zenon
<1>5. /\ copy' \in Copying /\ copy'.at = "failed" /\ copy'.had = copy.had /\ copy'.lossy = lossy
  BY <1>1, <1>4 DEF Copying
<1>6. path' \in Paths /\ path'.to = (IF copy.moved /\ restored THEN path.backup
                                     ELSE IF copy.committed /\ removed THEN "none" ELSE path.to)
  BY <1>1, <1>2 DEF Paths, Restores
<1>7. CopyInv'
  BY <1>1, <1>2, <1>3, <1>5, <1>6 DEF FileInv, CopyInv, CopyAllOrNothing, Found, Copying
<1> QED
  BY <1>2, <1>5, <1>6, <1>7, CopyAlone

\* Another program replaces the target, or the process is killed.
LEMMA CopyDisturbed ==
  ASSUME FileInv, TargetReplaced \/ CopyKilled
  PROVE  FileInv'
<1>1. path \in Paths /\ copy \in Copying
  BY DEF FileInv, FileTypeOK
<1>2. CASE TargetReplaced
  <2>1. PICK other \in {"link", "none"} :
          /\ copy.at \in {"write", "move"} /\ path' = [path EXCEPT !.to = other]
          /\ copy' = [copy EXCEPT !.lossy = TRUE] /\ CopyOnly
    BY <1>2 DEF TargetReplaced
  <2>2. path' \in Paths /\ path'.to = other /\ path'.backup = path.backup
    BY <1>1, <2>1 DEF Paths
  <2>3. /\ copy' \in Copying /\ copy'.at = copy.at /\ copy'.had = copy.had /\ copy'.moved = copy.moved
        /\ copy'.committed = copy.committed /\ copy'.lossy
    BY <1>1, <2>1 DEF Copying
  <2>4. CopyInv'
    BY <1>1, <2>1, <2>2, <2>3 DEF FileInv, CopyInv, CopyAllOrNothing, Found, Copying
  <2> QED
    BY <2>1, <2>2, <2>3, <2>4, CopyAlone
<1>3. CASE CopyKilled
  <2>1. /\ copy.at \in {"write", "move", "commit", "discard", "rollback"} /\ CopyGoes("killed")
        /\ CopyOnly /\ path' = path
    BY <1>3 DEF CopyKilled
  <2>2. /\ copy' \in Copying /\ copy'.at = "killed" /\ copy'.had = copy.had /\ copy'.moved = copy.moved
        /\ copy'.committed = copy.committed /\ copy'.lossy = copy.lossy
    BY <2>1, CopyGoesOn
  <2>3. CopyInv'
    BY <1>1, <2>1, <2>2 DEF FileInv, CopyInv, CopyAllOrNothing, Found, Copying
  <2> QED
    BY <1>1, <2>1, <2>2, <2>3, CopyAlone
<1> QED
  BY <1>2, <1>3

-----------------------------------------------------------------------------
\* The file of a collection that is over, or not yet begun, has its record.
LEMMA CollectStartStep ==
  ASSUME FileInv, CollectStart
  PROVE  FileInv'
<1>1. /\ collect.at = "idle" /\ CollectOnly /\ shelf' = shelf /\ records' = records
      /\ collect' = [collect EXCEPT !.at = "plan", !.count = collect.count + 1, !.names = {}]
  BY DEF CollectStart
<1>2. collect \in Collecting
  BY DEF FileInv, FileTypeOK
<1>3. PICK count \in Nat : count = collect.count + 1
  BY <1>2 DEF Collecting
<1>4. collect' = [collect EXCEPT !.at = "plan", !.count = count, !.names = {}]
  BY <1>1, <1>3
<1>5. /\ collect' \in Collecting /\ collect'.at = "plan" /\ collect'.count = count
      /\ collect'.left = collect.left
  BY <1>2, <1>4 DEF Collecting
<1>6. collect.count \in Nat
  BY <1>2 DEF Collecting
<1>7. shelf \in [Name -> Nat] /\ records \subseteq [name : Name, of : Nat]
  BY DEF FileInv, FileTypeOK
<1>8. CollectInv'
  <2>1. \A n \in Name : shelf'[n] <= collect'.count
    BY <1>1, <1>3, <1>5, <1>6, <1>7 DEF FileInv, CollectInv
  <2>2. \A r \in records' : r.of < collect'.count
    BY <1>1, <1>3, <1>5, <1>6, <1>7 DEF FileInv, CollectInv
  <2>3. \A r \in records' : shelf'[r.name] = r.of \/ (r.of < collect'.count /\ (shelf'[r.name] = 0 \/ r.of < shelf'[r.name]))
    BY <1>1, <2>2 DEF FileInv, CollectInv
  <2>4. \A n \in Name : shelf'[n] = 0 \/ [name |-> n, of |-> shelf'[n]] \in records' \/ n \in collect'.left
    BY <1>1, <1>5 DEF FileInv, CollectInv
  <2>5. \A r \in records' : r.of # collect'.count /\ r.of <= collect'.count
    BY <1>1, <1>5, <1>7, <2>2
  <2> QED
    BY <1>5, <2>1, <2>3, <2>4, <2>5 DEF CollectInv
<1> QED
  BY <1>1, <1>5, <1>7, <1>8, CollectAlone

LEMMA CollectPlanStep ==
  ASSUME FileInv, CollectPlan
  PROVE  FileInv'
<1>1. PICK n \in Name :
        /\ collect.at = "plan" /\ n \notin collect.names
        /\ collect' = [collect EXCEPT !.at = "rename", !.name = n,
                                      !.names = collect.names \cup {n}, !.copied = FALSE]
        /\ CollectOnly /\ shelf' = shelf /\ records' = records
  BY DEF CollectPlan
<1>2. collect \in Collecting
  BY DEF FileInv, FileTypeOK
<1>3. PICK names \in SUBSET Name : names = collect.names \cup {n}
  BY <1>2 DEF Collecting
<1>4. collect' = [collect EXCEPT !.at = "rename", !.name = n, !.names = names, !.copied = FALSE]
  BY <1>1, <1>3
<1>5. /\ collect' \in Collecting /\ collect'.at = "rename" /\ collect'.count = collect.count
      /\ collect'.name = n /\ collect'.names = names /\ ~collect'.copied /\ collect'.left = collect.left
  BY <1>2, <1>4 DEF Collecting
<1>6. shelf \in [Name -> Nat] /\ records \subseteq [name : Name, of : Nat]
  BY DEF FileInv, FileTypeOK
<1>7. [name |-> n, of |-> collect.count] \notin records
  BY <1>1 DEF FileInv, CollectInv
<1>8. CollectInv'
  <2>1. \A k \in Name : shelf'[k] <= collect'.count
    BY <1>1, <1>5 DEF FileInv, CollectInv
  <2>2. \A r \in records' : /\ r.of <= collect'.count
                            /\ r.of = collect'.count => r.name \in collect'.names
                            /\ \/ shelf'[r.name] = r.of
                               \/ r.of < collect'.count /\ (shelf'[r.name] = 0 \/ r.of < shelf'[r.name])
    BY <1>1, <1>3, <1>5 DEF FileInv, CollectInv
  <2>3. [name |-> collect'.name, of |-> collect'.count] \notin records' /\ collect'.name \in collect'.names
    BY <1>1, <1>3, <1>5, <1>7
  <2>4. \A k \in Name : shelf'[k] = 0 \/ [name |-> k, of |-> shelf'[k]] \in records' \/ k \in collect'.left
    BY <1>1, <1>5 DEF FileInv, CollectInv
  <2>5. collect'.copied = (collect'.at = "register")
    <3>1. collect'.copied = FALSE /\ collect'.at # "register"
      BY <1>2, <1>4, <1>5 DEF Collecting
    <3> QED
      BY <3>1
  <2> QED
    BY <1>5, <2>1, <2>2, <2>3, <2>4, <2>5 DEF CollectInv
<1> QED
  BY <1>1, <1>5, <1>6, <1>8, CollectAlone

\* The file is on the shelf: older records of its name are of earlier collections.
LEMMA CollectRenameStep ==
  ASSUME FileInv, CollectRename
  PROVE  FileInv'
<1>1. /\ collect.at = "rename" /\ CollectOnly /\ records' = records
      /\ shelf' = [shelf EXCEPT ![collect.name] = collect.count]
      /\ collect' = [collect EXCEPT !.at = "register", !.copied = TRUE, !.left = collect.left \ {collect.name}]
  BY DEF CollectRename
<1>2. collect \in Collecting
  BY DEF FileInv, FileTypeOK
<1>3. /\ collect' \in Collecting /\ collect'.at = "register" /\ collect'.count = collect.count
      /\ collect'.name = collect.name /\ collect'.names = collect.names /\ collect'.copied
      /\ collect'.left = collect.left \ {collect.name}
  <2>1. PICK left \in SUBSET Name : left = collect.left \ {collect.name}
    BY <1>2 DEF Collecting
  <2>2. collect' = [collect EXCEPT !.at = "register", !.copied = TRUE, !.left = left]
    BY <1>1, <2>1
  <2> QED
    BY <1>2, <2>1, <2>2 DEF Collecting
<1>4. shelf \in [Name -> Nat] /\ records \subseteq [name : Name, of : Nat] /\ collect.count \in Nat
  BY <1>2 DEF FileInv, FileTypeOK, Collecting
<1>5. collect.name \in Name /\ [name |-> collect.name, of |-> collect.count] \notin records
  BY <1>1 DEF FileInv, CollectInv
<1>6. /\ shelf' \in [Name -> Nat] /\ shelf'[collect.name] = collect.count
      /\ \A n \in Name : n # collect.name => shelf'[n] = shelf[n]
  BY <1>1, <1>4, <1>5
<1>7. CollectInv'
  <2>1. \A r \in records : r.name = collect.name => r.of < collect.count
    <3> SUFFICES ASSUME NEW r \in records, r.name = collect.name
                 PROVE  r.of < collect.count
      OBVIOUS
    <3>1. r \in [name : Name, of : Nat] /\ r.of <= collect.count
      BY <1>4 DEF FileInv, CollectInv
    <3>2. r = [name |-> r.name, of |-> r.of]
      BY <3>1
    <3>3. r.of # collect.count
      BY <1>5, <3>2
    <3> QED
      BY <1>4, <3>1, <3>3
  <2>2. \A r \in records : shelf'[r.name] = r.of
          \/ (r.of < collect.count /\ (shelf'[r.name] = 0 \/ r.of < shelf'[r.name]))
    <3> SUFFICES ASSUME NEW r \in records
                 PROVE  shelf'[r.name] = r.of
                          \/ (r.of < collect.count /\ (shelf'[r.name] = 0 \/ r.of < shelf'[r.name]))
      OBVIOUS
    <3>1. CASE r.name = collect.name
      BY <1>6, <2>1, <3>1
    <3>2. CASE r.name # collect.name
      <4>1. r.name \in Name
        BY <1>4
      <4>2. shelf'[r.name] = shelf[r.name]
        BY <1>6, <3>2, <4>1
      <4> QED
        BY <4>2 DEF FileInv, CollectInv
    <3> QED
      BY <3>1, <3>2
  <2>3. \A n \in Name : shelf'[n] <= collect.count
    BY <1>4, <1>6 DEF FileInv, CollectInv
  <2>4. \A n \in Name : \/ shelf'[n] = 0 \/ [name |-> n, of |-> shelf'[n]] \in records
                        \/ n = collect.name \/ n \in collect'.left
    BY <1>1, <1>3, <1>6 DEF FileInv, CollectInv
  <2>5. \A r \in records : r.of <= collect.count /\ (r.of = collect.count => r.name \in collect.names)
    BY <1>1 DEF FileInv, CollectInv
  <2>6. collect'.copied = (collect'.at = "register") /\ collect.name \in collect.names
    BY <1>1, <1>2, <1>3 DEF FileInv, CollectInv, Collecting
  <2>7. /\ [name |-> collect'.name, of |-> collect'.count] \notin records' /\ shelf'[collect'.name] = collect'.count
        /\ collect'.name \in Name /\ collect'.name \in collect'.names
    BY <1>1, <1>3, <1>5, <1>6, <2>6
  <2>8. \A r \in records' : /\ r.of <= collect'.count
                            /\ r.of = collect'.count => r.name \in collect'.names
                            /\ \/ shelf'[r.name] = r.of
                               \/ r.of < collect'.count /\ (shelf'[r.name] = 0 \/ r.of < shelf'[r.name])
    BY <1>1, <1>3, <2>2, <2>5
  <2>9. \A n \in Name : /\ shelf'[n] <= collect'.count
                        /\ \/ shelf'[n] = 0 \/ [name |-> n, of |-> shelf'[n]] \in records'
                           \/ n = collect'.name \/ n \in collect'.left
    BY <1>1, <1>3, <2>3, <2>4
  <2> QED
    BY <1>3, <2>6, <2>7, <2>8, <2>9 DEF CollectInv
<1> QED
  BY <1>1, <1>3, <1>4, <1>6, <1>7, CollectAlone

LEMMA CollectRegisterStep ==
  ASSUME FileInv, CollectRegister
  PROVE  FileInv'
<1> DEFINE new == [name |-> collect.name, of |-> collect.count]
<1>1. /\ collect.at = "register" /\ CollectOnly /\ shelf' = shelf
      /\ records' = records \cup {new}
      /\ collect' = [collect EXCEPT !.at = "plan"]
  BY DEF CollectRegister
<1>2. collect \in Collecting
  BY DEF FileInv, FileTypeOK
<1>3. /\ collect' \in Collecting /\ collect'.at = "plan" /\ collect'.count = collect.count
      /\ collect'.name = collect.name /\ collect'.names = collect.names /\ collect'.left = collect.left
  BY <1>1, <1>2 DEF Collecting
<1>4. shelf \in [Name -> Nat] /\ records \subseteq [name : Name, of : Nat] /\ collect.count \in Nat
  BY <1>2 DEF FileInv, FileTypeOK, Collecting
<1>5. collect.name \in Name /\ collect.name \in collect.names /\ shelf[collect.name] = collect.count
  BY <1>1 DEF FileInv, CollectInv
<1>6. records' \subseteq [name : Name, of : Nat]
  BY <1>1, <1>4, <1>5
<1>7. CollectInv'
  <2>1. \A r \in records' :
          /\ r.of <= collect.count /\ (r.of = collect.count => r.name \in collect.names)
          /\ shelf[r.name] = r.of \/ (r.of < collect.count /\ (shelf[r.name] = 0 \/ r.of < shelf[r.name]))
    <3> SUFFICES ASSUME NEW r \in records'
                 PROVE  /\ r.of <= collect.count /\ (r.of = collect.count => r.name \in collect.names)
                        /\ shelf[r.name] = r.of \/ (r.of < collect.count /\ (shelf[r.name] = 0 \/ r.of < shelf[r.name]))
      OBVIOUS
    <3>1. CASE r \in records
      BY <1>1, <3>1 DEF FileInv, CollectInv
    <3>2. CASE r = new
      BY <1>4, <1>5, <3>2
    <3> QED
      BY <1>1, <3>1, <3>2
  <2>2. \A n \in Name : shelf[n] = 0 \/ [name |-> n, of |-> shelf[n]] \in records' \/ n \in collect'.left
    <3>1. new = [name |-> collect.name, of |-> shelf[collect.name]] /\ new \in records'
      BY <1>1, <1>5
    <3> HIDE DEF new
    <3> QED
      BY <1>1, <1>3, <3>1 DEF FileInv, CollectInv
  <2> QED
    BY <1>1, <1>3, <2>1, <2>2 DEF FileInv, CollectInv
<1> QED
  BY <1>1, <1>3, <1>4, <1>6, <1>7, CollectAlone

\* A collection ends or is killed: its file at hand has no record.
LEMMA CollectLeavesStep ==
  ASSUME FileInv, CollectOnly, UNCHANGED <<shelf, records>>, NEW at \in {"idle", "killed"},
         NEW more \in SUBSET Name, collect.at = "register" => collect.name \in more,
         collect.at \in {"plan", "rename", "register"},
         collect' = [collect EXCEPT !.at = at, !.left = collect.left \cup more]
  PROVE  FileInv'
<1>1. collect \in Collecting /\ shelf \in [Name -> Nat] /\ records \subseteq [name : Name, of : Nat]
  BY DEF FileInv, FileTypeOK
<1>2. PICK left \in SUBSET Name : left = collect.left \cup more
  BY <1>1 DEF Collecting
<1>3. collect' = [collect EXCEPT !.at = at, !.left = left]
  BY <1>2
<1>4. /\ collect' \in Collecting /\ collect'.at = at /\ collect'.count = collect.count
      /\ collect'.names = collect.names /\ collect'.left = left
  BY <1>1, <1>3 DEF Collecting
<1>5. CollectInv'
  BY <1>1, <1>2, <1>4 DEF FileInv, CollectInv
<1> QED
  BY <1>1, <1>4, <1>5, CollectAlone

\* A collection ends as it is, takes back the file it has not registered, leaves
\* it, or is killed.
LEMMA CollectEndsStep ==
  ASSUME FileInv, CollectEnds \/ CollectFails \/ CollectKilled
  PROVE  FileInv'
<1>1. collect \in Collecting /\ (collect.at = "register" => collect.name \in Name)
  BY DEF FileInv, FileTypeOK, CollectInv
<1>2. shelf \in [Name -> Nat] /\ records \subseteq [name : Name, of : Nat] /\ collect.count \in Nat
  BY <1>1 DEF FileInv, FileTypeOK, Collecting
<1>3. ASSUME NEW at \in {"idle", "killed"}, NEW more \in SUBSET Name,
             collect.at \in {"plan", "rename", "register"}, CollectOnly, UNCHANGED <<shelf, records>>,
             collect.at = "register" => collect.name \in more,
             collect' = [collect EXCEPT !.at = at, !.left = collect.left \cup more]
      PROVE  FileInv'
  BY <1>3, CollectLeavesStep
<1>4. CASE CollectKilled
  <2>1. PICK more \in SUBSET Name : more = IF collect.at = "register" THEN {collect.name} ELSE {}
    BY <1>1
  <2> QED
    BY <1>3, <1>4, <2>1 DEF CollectKilled
<1>5. CASE CollectFails /\ collect.at = "register" /\ UNCHANGED shelf
           /\ collect' = [collect EXCEPT !.at = "idle", !.left = collect.left \cup {collect.name}]
  <2>1. PICK more \in SUBSET Name : more = {collect.name}
    BY <1>1, <1>5
  <2> QED
    BY <1>3, <1>5, <2>1 DEF CollectFails
<1>6. CASE /\ CollectEnds \/ CollectFails
           /\ collect.at \in {"plan", "rename"} /\ shelf' = shelf /\ collect' = [collect EXCEPT !.at = "idle"]
  <2>1. collect' = [collect EXCEPT !.at = "idle", !.left = collect.left \cup {}]
    BY <1>1, <1>6 DEF Collecting
  <2>2. PICK more \in SUBSET Name : more = {}
    OBVIOUS
  <2>3. CollectOnly /\ UNCHANGED <<shelf, records>>
    BY <1>6 DEF CollectEnds, CollectFails
  <2> QED
    BY <1>3, <1>6, <2>1, <2>2, <2>3
<1>7. CASE /\ CollectFails /\ collect.at = "register"
           /\ shelf' = [shelf EXCEPT ![collect.name] = 0] /\ collect' = [collect EXCEPT !.at = "idle"]
  <2>1. /\ collect' \in Collecting /\ collect'.at = "idle" /\ collect'.count = collect.count
        /\ collect'.left = collect.left /\ CollectOnly /\ records' = records
    BY <1>1, <1>7 DEF Collecting, CollectFails
  <2>2. /\ collect.at = "register" /\ collect.name \in Name
        /\ [name |-> collect.name, of |-> collect.count] \notin records
    BY <1>7 DEF FileInv, CollectInv
  <2>3. /\ shelf' \in [Name -> Nat] /\ shelf'[collect.name] = 0
        /\ \A n \in Name : n # collect.name => shelf'[n] = shelf[n]
    BY <1>2, <1>7, <2>2
  <2>4. \A r \in records : shelf'[r.name] = r.of
          \/ (r.of < collect.count /\ (shelf'[r.name] = 0 \/ r.of < shelf'[r.name]))
    <3> SUFFICES ASSUME NEW r \in records
                 PROVE  shelf'[r.name] = r.of
                          \/ (r.of < collect.count /\ (shelf'[r.name] = 0 \/ r.of < shelf'[r.name]))
      OBVIOUS
    <3>1. r \in [name : Name, of : Nat] /\ r.of <= collect.count
      BY <1>2 DEF FileInv, CollectInv
    <3>2. CASE r.name = collect.name
      <4>1. r = [name |-> r.name, of |-> r.of]
        BY <3>1
      <4>2. r.of # collect.count
        BY <2>2, <3>2, <4>1
      <4> QED
        BY <1>2, <2>3, <3>1, <3>2, <4>2
    <3>3. CASE r.name # collect.name
      <4>1. shelf'[r.name] = shelf[r.name]
        BY <2>3, <3>1, <3>3
      <4> QED
        BY <4>1 DEF FileInv, CollectInv
    <3> QED
      BY <3>2, <3>3
  <2>5. \A n \in Name : shelf'[n] = 0 \/ [name |-> n, of |-> shelf'[n]] \in records \/ n \in collect'.left
    BY <2>1, <2>2, <2>3 DEF FileInv, CollectInv
  <2>6. \A n \in Name : shelf'[n] <= collect.count
    BY <1>2, <2>2, <2>3 DEF FileInv, CollectInv
  <2>7. \A r \in records : r.of <= collect.count
    BY DEF FileInv, CollectInv
  <2>8. CollectInv'
    BY <2>1, <2>4, <2>5, <2>6, <2>7 DEF CollectInv
  <2> QED
    BY <1>2, <2>1, <2>3, <2>8, CollectAlone
<1>8. collect.at \in {"rename", "register"} => collect.copied = (collect.at = "register")
  BY DEF FileInv, CollectInv
<1> QED
  BY <1>4, <1>5, <1>6, <1>7, <1>8 DEF CollectEnds, CollectFails, Undone

-----------------------------------------------------------------------------
LEMMA FileInitInv == FileInit => FileInv
<1> SUFFICES ASSUME FileInit  PROVE FileInv
  OBVIOUS
<1>1. FileTypeOK
  BY DEF FileInit, FileTypeOK, Copying, Paths, Collecting
<1>2. CopyInv
  BY DEF FileInit, CopyInv, CopyAllOrNothing
<1>3. CollectInv
  BY DEF FileInit, CollectInv
<1> QED
  BY <1>1, <1>2, <1>3 DEF FileInv

LEMMA FileNextInv == FileInv /\ [FileNext]_fileVars => FileInv'
<1> SUFFICES ASSUME FileInv, [FileNext]_fileVars  PROVE FileInv'
  OBVIOUS
<1>1. CASE CopyPlan \/ CopyWrite \/ CopyMove \/ CopyCommit \/ CopyDiscard \/ CopyRollback
  BY <1>1, CopyPlanStep, CopyWriteStep, CopyMoveStep, CopyCommitStep, CopyDiscardStep, CopyRollbackStep
<1>2. CASE TargetReplaced \/ CopyKilled
  BY <1>2, CopyDisturbed
<1>3. CASE \/ CollectStart \/ CollectPlan \/ CollectRename \/ CollectRegister \/ CollectEnds \/ CollectFails
           \/ CollectKilled
  BY <1>3, CollectStartStep, CollectPlanStep, CollectRenameStep, CollectRegisterStep, CollectEndsStep
<1>4. CASE UNCHANGED fileVars
  BY <1>4 DEF fileVars, FileInv, FileTypeOK, CopyInv, CopyAllOrNothing, Found, CollectInv
<1> QED
  BY <1>1, <1>2, <1>3, <1>4 DEF FileNext

(* The invariant behind the copy and the collection.                       *)
THEOREM FileInvariant == FileSpec => []FileInv
<1>1. FileInit => FileInv
  BY FileInitInv
<1>2. FileInv /\ [FileNext]_fileVars => FileInv'
  BY FileNextInv
<1> QED
  BY <1>1, <1>2, PTL DEF FileSpec

(* The variables of FileCommit have their types.                           *)
THEOREM FileTypes == FileSpec => []FileTypeOK
<1>1. FileInv => FileTypeOK
  BY DEF FileInv
<1> QED
  BY <1>1, FileInvariant, PTL

(* A copy is all or nothing, and a record says what its file holds         *)
(* (copy-executor.ts, artifact-collector.ts).                              *)
THEOREM FilesAreSafe == FileSpec => []FilesSafe
<1>1. FileInv => FilesSafe
  <2> SUFFICES ASSUME FileInv  PROVE FilesSafe
    OBVIOUS
  <2>1. CopyAllOrNothing
    BY DEF FileInv, CopyInv
  <2>2. shelf \in [Name -> Nat] /\ records \subseteq [name : Name, of : Nat] /\ collect.count \in Nat
    BY DEF FileInv, FileTypeOK, Collecting
  <2>3. ASSUME NEW r \in records, shelf[r.name] # r.of
        PROVE  \E c \in r.of + 1 .. collect.count : shelf[r.name] \in {0, c}
    <3>1. r.of \in Nat /\ r.name \in Name /\ shelf[r.name] \in Nat /\ shelf[r.name] <= collect.count
      BY <2>2 DEF FileInv, CollectInv
    <3>2. r.of < collect.count /\ (shelf[r.name] = 0 \/ r.of < shelf[r.name])
      BY <2>3 DEF FileInv, CollectInv
    <3>3. CASE shelf[r.name] = 0
      BY <2>2, <3>1, <3>2, <3>3
    <3>4. CASE r.of < shelf[r.name]
      BY <2>2, <3>1, <3>4
    <3> QED
      BY <3>2, <3>3, <3>4
  <2>4. RecordsMatch
    BY <2>3 DEF FileInv, CollectInv, RecordsMatch
  <2> QED
    BY <2>1, <2>4 DEF FilesSafe
<1> QED
  BY <1>1, FileInvariant, PTL
==============================================================================
