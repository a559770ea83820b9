----------------------------- MODULE FileCommit -----------------------------
(***************************************************************************)
(* The two ways an action leaves files behind: a copy that replaces its    *)
(* target through a temporary name and a backup, with a rollback, and the  *)
(* artifacts it collects into its run and registers.  Every step of the    *)
(* file system may fail, an abort may be seen at every check, and the      *)
(* process may be killed.                                                  *)
(***************************************************************************)
EXTENDS Naturals

CONSTANTS
  Name,        \* names of artifacts
  MaxCollects  \* bound: collections in one run

VARIABLES
  copy,      \* the copy action
  path,      \* what is at the target, the temporary name and the backup
  collect,   \* the collection
  shelf,     \* the run's artifacts directory: which collection each file is from
  records    \* what was registered

fileVars == <<copy, path, collect, shelf, records>>

FileInit ==
  /\ copy = [at |-> "start", overwrite |-> FALSE, had |-> FALSE, moved |-> FALSE, committed |-> FALSE,
             lossy |-> FALSE]
  /\ path = [to |-> "none", temporary |-> "none", backup |-> "none"]
  /\ collect = [at |-> "idle", count |-> 0, name |-> "none", names |-> {}, copied |-> FALSE, left |-> {}]
  /\ shelf = [n \in Name |-> 0]
  /\ records = {}

-----------------------------------------------------------------------------
(* executeCopy().                                                          *)
CopyGoes(at) == copy' = [copy EXCEPT !.at = at]
CopyOnly == UNCHANGED <<collect, shelf, records>>
CopyFails == CopyGoes("rollback") /\ UNCHANGED path

\* The checks of roots and links, and the parent directory; then the target is
\* looked at: "link" is a symbolic link.
CopyPlan == \E found \in {"none", "old", "link"}, overwrite \in BOOLEAN :
  /\ copy.at = "start" /\ CopyOnly
  /\ path' = [path EXCEPT !.to = found]
  /\ \/ CopyGoes("refused")
     \/ /\ found # "link" /\ (found = "old" => overwrite)
        /\ copy' = [copy EXCEPT !.at = "write", !.overwrite = overwrite, !.had = found = "old"]

\* cp to the temporary name, which a failure leaves in part.
CopyWrite ==
  /\ copy.at = "write" /\ CopyOnly
  /\ \/ CopyGoes("move") /\ path' = [path EXCEPT !.temporary = "new"]
     \/ CopyGoes("rollback") /\ path' = [path EXCEPT !.temporary = "part"]
     \/ CopyFails

\* The target is looked at again before it is moved to the backup.
CopyMove ==
  /\ copy.at = "move" /\ CopyOnly
  /\ \/ CopyFails
     \/ ~copy.had /\ CopyGoes("commit") /\ UNCHANGED path
     \/ copy.had /\ path.to = "link" /\ CopyFails
     \/ /\ copy.had /\ path.to \notin {"link", "none"}
        /\ copy' = [copy EXCEPT !.at = "commit", !.moved = TRUE]
        /\ path' = [path EXCEPT !.backup = path.to, !.to = "none"]

CopyCommit ==
  /\ copy.at = "commit" /\ CopyOnly
  /\ \/ CopyFails
     \/ /\ copy' = [copy EXCEPT !.at = "discard", !.committed = TRUE]
        /\ path' = [path EXCEPT !.to = "new", !.temporary = "none"]

\* rm of the backup, which may fail when a part of it is gone.
CopyDiscard ==
  /\ copy.at = "discard" /\ CopyOnly
  /\ \/ CopyFails
     \/ CopyGoes("done") /\ path' = [path EXCEPT !.backup = "none"]
     \/ /\ copy.moved /\ path' = [path EXCEPT !.backup = "part"]
        /\ copy' = [copy EXCEPT !.at = "rollback", !.lossy = TRUE]

\* Mutant: a committed target is not removed before the backup comes back.
RestoreOver == copy.moved /\ path.to = "none"

\* The rename of a directory over another fails; the target was removed before.
Restores == copy.moved

\* rm of the temporary and of a committed target, then the backup comes back; a
\* failure of any of them is ignored.
CopyRollback == \E cleaned, removed, restored \in BOOLEAN :
  /\ copy.at = "rollback" /\ CopyOnly
  /\ LET gone == copy.committed /\ removed
         back == Restores /\ restored
     IN /\ path' = [temporary |-> IF cleaned THEN "none" ELSE path.temporary,
                    to |-> IF back THEN path.backup ELSE IF gone THEN "none" ELSE path.to,
                    backup |-> IF back THEN "none" ELSE path.backup]
        /\ copy' = [copy EXCEPT !.at = "failed",
                      !.lossy = copy.lossy \/ (copy.committed /\ ~removed) \/ (copy.moved /\ ~restored)]

\* Another program replaces the target, or the process is killed.
TargetReplaced == \E other \in {"link", "none"} :
  /\ copy.at \in {"write", "move"} /\ path.to # other /\ path' = [path EXCEPT !.to = other]
  /\ copy' = [copy EXCEPT !.lossy = TRUE]
  /\ CopyOnly

CopyKilled ==
  /\ copy.at \in {"write", "move", "commit", "discard", "rollback"} /\ CopyGoes("killed")
  /\ CopyOnly /\ UNCHANGED path

-----------------------------------------------------------------------------
(* collectArtifacts() and ArtifactRegistry.register().                     *)
CollectOnly == UNCHANGED <<copy, path>>

CollectStart ==
  /\ collect.at = "idle" /\ collect.count < MaxCollects /\ copy.at = "start"
  /\ collect' = [collect EXCEPT !.at = "plan", !.count = collect.count + 1, !.names = {}]
  /\ CollectOnly /\ UNCHANGED <<shelf, records>>

\* The next source is safe, present, and neither too large nor one too many; its
\* name must be new to this collection.
CollectPlan == \E n \in Name :
  /\ collect.at = "plan" /\ n \notin collect.names
  /\ collect' = [collect EXCEPT !.at = "rename", !.name = n,
                               !.names = collect.names \cup {n}, !.copied = FALSE]
  /\ CollectOnly /\ UNCHANGED <<shelf, records>>

CollectRename ==
  /\ collect.at = "rename" /\ CollectOnly /\ UNCHANGED records
  /\ shelf' = [shelf EXCEPT ![collect.name] = collect.count]
  /\ collect' = [collect EXCEPT !.at = "register", !.copied = TRUE, !.left = collect.left \ {collect.name}]

\* The registry hashes the file it finds.
CollectRegister ==
  /\ collect.at = "register" /\ CollectOnly /\ UNCHANGED shelf
  /\ records' = records \cup {[name |-> collect.name, of |-> collect.count]}
  /\ collect' = [collect EXCEPT !.at = "plan"]

CollectEnds ==
  /\ collect.at = "plan" /\ CollectOnly /\ UNCHANGED <<shelf, records>>
  /\ collect' = [collect EXCEPT !.at = "idle"]

\* Mutant: the file stays when its registration fails.
CollectUndone == shelf

\* A missing, unsafe, too large or doubled artifact, a failing copy, an abort. A
\* failure to remove the copied file is ignored: `left` has the names of files that
\* stay without a record.
Undone == IF collect.copied THEN [shelf EXCEPT ![collect.name] = 0] ELSE shelf
CollectFails ==
  /\ collect.at \in {"plan", "rename", "register"} /\ CollectOnly /\ UNCHANGED records
  /\ \/ /\ shelf' = IF collect.at = "plan" THEN shelf ELSE Undone
        /\ collect' = [collect EXCEPT !.at = "idle"]
     \/ /\ collect.at = "register" /\ UNCHANGED shelf
        /\ collect' = [collect EXCEPT !.at = "idle", !.left = collect.left \cup {collect.name}]

CollectKilled ==
  /\ collect.at \in {"plan", "rename", "register"} /\ CollectOnly /\ UNCHANGED <<shelf, records>>
  /\ collect' = [collect EXCEPT !.at = "killed",
                   !.left = collect.left \cup (IF collect.at = "register" THEN {collect.name} ELSE {})]

FileNext ==
  \/ CopyPlan \/ CopyWrite \/ CopyMove \/ CopyCommit \/ CopyDiscard \/ CopyRollback
  \/ TargetReplaced \/ CopyKilled
  \/ CollectStart \/ CollectPlan \/ CollectRename \/ CollectRegister \/ CollectEnds \/ CollectFails
  \/ CollectKilled

FileSpec == FileInit /\ [][FileNext]_fileVars

-----------------------------------------------------------------------------
Copying == [at : {"start", "refused", "write", "move", "commit", "discard", "rollback", "done", "failed", "killed"},
            overwrite : BOOLEAN, had : BOOLEAN, moved : BOOLEAN, committed : BOOLEAN, lossy : BOOLEAN]
Paths == [to : {"none", "old", "link", "part", "new"}, temporary : {"none", "part", "new"}, backup : {"none", "part", "old"}]
Collecting == [at : {"idle", "plan", "rename", "register", "killed"}, count : Nat, name : Name \cup {"none"},
               names : SUBSET Name, copied : BOOLEAN, left : SUBSET Name]

FileTypeOK ==
  /\ copy \in Copying /\ path \in Paths /\ collect \in Collecting
  /\ shelf \in [Name -> Nat]
  /\ records \subseteq [name : Name, of : Nat]

(* A copy is all or nothing: it leaves the new file when it succeeds and   *)
(* what it found when it fails; at a kill, too, the old content is at its  *)
(* place or in the backup, or the new one is complete at its place.        *)
(* `lossy` marks what no order of renames can repair: another program that *)
(* replaced the target, a rollback that failed, a backup removed in part.  *)
CopyAllOrNothing ==
  /\ copy.at = "done" => path.to = "new" /\ path.backup = "none"
  /\ copy.at = "failed" /\ ~copy.lossy => path.to = (IF copy.had THEN "old" ELSE "none")
  /\ copy.had /\ ~copy.lossy => "old" \in {path.to, path.backup} \/ path.to = "new"

(* Every record names a file with the content that was hashed, unless a    *)
(* later collection of the run used the same name; and every file on the   *)
(* shelf that no collection is at work on has its record, unless its       *)
(* removal failed or the process was killed before its registration.       *)
RecordsMatch ==
  /\ \A r \in records : shelf[r.name] = r.of \/ \E c \in r.of + 1 .. collect.count :
       shelf[r.name] \in {0, c}
  /\ collect.at \in {"idle", "plan", "killed"} =>
       \A n \in Name \ collect.left : shelf[n] # 0 => [name |-> n, of |-> shelf[n]] \in records

(* Files that a run leaves behind (copy-executor.ts, artifact-collector.ts) *)
(* are whole: copied entirely or not at all, and as their records say.     *)
FilesSafe == CopyAllOrNothing /\ RecordsMatch
=============================================================================
