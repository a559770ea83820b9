------------------------------ MODULE RunRecord ------------------------------
(***************************************************************************)
(* The run directories of one project: the process that creates a run,     *)
(* finalizes it by a sequence of file writes and then marks its session,   *)
(* reconcilers that finalize the runs of session hosts that died before    *)
(* they marked it, and `run prune`.  Each write of a JSON file is a rename *)
(* (atomicJson), so it is one step; it makes a missing directory.          *)
(***************************************************************************)
EXTENDS Naturals, FiniteSets

CONSTANTS
  Runs,        \* run numbers 1 .. n, in the order of their ids, which is time
  Reconciler,  \* processes that reconcile dead sessions
  MaxPrunes    \* bound: prune commands

ASSUME RunsAssumption == Runs = 1 .. Cardinality(Runs) /\ Runs \cap Reconciler = {}

VARIABLES
  disk,     \* what is in each directory
  writer,   \* where the owner of each run, and each reconciler, is
  prune     \* the prune command, and what it has removed so far

runVars == <<disk, writer, prune>>

Verdict == {"succeeded", "failed"}
Empty == [dir |-> FALSE, manifest |-> "none", identity |-> FALSE, result |-> "none", marker |-> FALSE]

RunInit ==
  /\ disk = [n \in Runs |-> Empty]
  /\ writer = [w \in Runs \cup Reconciler |-> [at |-> "idle", run |-> 0, verdict |-> "none"]]
  /\ prune = [count |-> 0, listed |-> {}, remove |-> {}, gone |-> {}]

WriterGoes(w, at) == writer' = [writer EXCEPT ![w].at = at]
WriteFile(n, file, v) == disk' = [disk EXCEPT ![n][file] = v, ![n].dir = TRUE]

-----------------------------------------------------------------------------
\* create(): the directories, then a manifest in "running".
MakeDirectory(n) ==
  /\ writer[n].at = "idle" /\ \A m \in Runs : m < n => disk[m].dir \/ writer[m].at # "idle"
  /\ disk' = [disk EXCEPT ![n].dir = TRUE] /\ WriterGoes(n, "create")
  /\ UNCHANGED prune

WriteManifest(n) ==
  /\ writer[n].at = "create"
  /\ disk' = [disk EXCEPT ![n].manifest = "running", ![n].identity = TRUE, ![n].dir = TRUE]
  /\ WriterGoes(n, "running")
  /\ UNCHANGED prune

\* finalize() begins.
WritersTurn(w, n, verdict) ==
  /\ writer' = [writer EXCEPT ![w] = [at |-> "marker", run |-> n, verdict |-> verdict]]
  /\ UNCHANGED <<disk, prune>>

OwnerFinalizes(n) == \E verdict \in Verdict : writer[n].at = "running" /\ WritersTurn(n, n, verdict)

\* reconcile() goes on to the run of a host that is gone, whatever the run says by
\* now: of one that died with its session open, at any place from "running" on, or
\* that marked it failed after the reconciler had listed it (markFailed() returns
\* such a record, and refuses a stopped one).
Abandoned(n) == writer[n].at = "dead" \/ (writer[n].at = "over" /\ writer[n].verdict = "failed")

ReconcilerFinalizes(w) == \E n \in Runs :
  writer[w].at = "idle" /\ Abandoned(n) /\ WritersTurn(w, n, "failed")

\* Mutant: the marker is removed before the manifest is written.
NextWriteEarly(at) == CASE at = "marker" -> "result" [] at = "result" -> "unlink" [] OTHER -> "end"

\* The order of the writes.
NextWrite(at) ==
  CASE at = "marker" -> "result" [] at = "result" -> "manifest" [] at = "manifest" -> "unlink" [] OTHER -> "end"

FinalizeStep(w) ==
  /\ writer[w].at \in {"marker", "result", "manifest", "unlink"}
  /\ LET n == writer[w].run IN
       CASE writer[w].at = "marker" -> WriteFile(n, "marker", TRUE)
         [] writer[w].at = "unlink" -> disk' = [disk EXCEPT ![n].marker = FALSE]
         [] OTHER -> WriteFile(n, writer[w].at, writer[w].verdict)
  /\ WriterGoes(w, NextWrite(writer[w].at))
  /\ UNCHANGED prune

\* A write fails and finalize() throws, which its caller reports; of the unlink it
\* is not told.
WriteFails(w) ==
  /\ writer[w].at \in {"marker", "result", "manifest", "unlink"} /\ WriterGoes(w, "end")
  /\ UNCHANGED <<disk, prune>>

\* The host marks its session, stopped or failed like its run.
OwnerMarks(n) ==
  /\ writer[n].at = "end" /\ WriterGoes(n, "over")
  /\ UNCHANGED <<disk, prune>>

\* A process dies, or its create() fails.
Stops(w) ==
  /\ writer[w].at \notin {"idle", "over", "dead", "lost"}
  /\ WriterGoes(w, IF writer[w].at = "create" THEN "lost" ELSE "dead")
  /\ UNCHANGED <<disk, prune>>

-----------------------------------------------------------------------------
\* readdir lists the ids in ascending order, and so does list().
Listed == {n \in Runs : disk[n].dir}
Rank(n, S) == Cardinality({m \in S : m < n})

\* pruneRuns(): runs.slice(keep), or those older than a duration, which
\* overrides keep; a run without a readable start is never too old.
PruneStarts(keep, aged) ==
  /\ prune.remove = {} /\ prune.count < MaxPrunes
  /\ prune' = [prune EXCEPT !.count = prune.count + 1, !.listed = Listed,
       !.remove = IF aged = 0 THEN {n \in Listed : Rank(n, Listed) >= keep}
                              ELSE {n \in Listed : n <= aged /\ disk[n].identity}]
  /\ UNCHANGED <<disk, writer>>

PruneRemoves == \E n \in prune.remove :
  /\ \A m \in prune.remove : n <= m
  /\ disk' = [disk EXCEPT ![n] = Empty]
  /\ prune' = [prune EXCEPT !.remove = prune.remove \ {n}, !.gone = prune.gone \cup {n}]
  /\ UNCHANGED writer

RunNext ==
  \/ \E n \in Runs : MakeDirectory(n) \/ WriteManifest(n) \/ OwnerFinalizes(n) \/ OwnerMarks(n)
  \/ \E w \in Reconciler : ReconcilerFinalizes(w)
  \/ \E w \in Runs \cup Reconciler : FinalizeStep(w) \/ WriteFails(w) \/ Stops(w)
  \/ \E keep \in 0 .. Cardinality(Runs), aged \in {0} \cup Runs : PruneStarts(keep, aged)
  \/ PruneRemoves

RunSpec == RunInit /\ [][RunNext]_runVars

-----------------------------------------------------------------------------
RunFiles == [dir : BOOLEAN, manifest : {"none", "running"} \cup Verdict, identity : BOOLEAN,
             result : {"none"} \cup Verdict, marker : BOOLEAN]
Place == {"idle", "create", "running", "marker", "result", "manifest", "unlink", "end", "over", "dead", "lost"}

RunTypeOK ==
  /\ disk \in [Runs -> RunFiles]
  /\ writer \in [Runs \cup Reconciler -> [at : Place, run : Runs \cup {0}, verdict : Verdict \cup {"none"}]]
  /\ prune \in [count : Nat, listed : SUBSET Runs, remove : SUBSET Runs, gone : SUBSET Runs]

\* A verdict of run n is its owner's, or "failed" of one that died.
Told(n, verdict) == verdict = writer[n].verdict \/ (verdict = "failed" /\ writer[n].at = "dead")

(* A run without the marker can be read as it stands: its manifest is final *)
(* exactly when it has a result, the two agree, and the manifest says whose *)
(* run it is, whoever died or finalized beside whom.  What is only half     *)
(* written carries the marker (docs/logging-and-runs.md "结果与终结").      *)
(* The verdict is the owner's, or "failed" of an owner that died before it  *)
(* had marked its session, even if it had finalized the run as "succeeded". *)
(* Runs that a prune removed are left out: a writer that was still at work  *)
(* makes the directory again, without the identity.                         *)
WholeUnlessMarked == \A n \in Runs \ prune.gone :
  ~disk[n].marker =>
    /\ disk[n].manifest \in Verdict <=> disk[n].result # "none"
    /\ disk[n].result # "none" =>
         disk[n].manifest = disk[n].result /\ disk[n].identity /\ Told(n, disk[n].result)
=============================================================================
