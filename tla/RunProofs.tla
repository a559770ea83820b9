------------------------------ MODULE RunProofs ------------------------------
(***************************************************************************)
(* Proofs about what happens while something runs: the record of a run on  *)
(* the disk, the workflow that runs in it, the command that runs one       *)
(* capability on every member of a system, and the writers of a session.   *)
(*                                                                         *)
(* RunRecord.  The invariant rests on the order of the writes.  The owner  *)
(* writes alone until its run is abandoned (OwnerInv).  After that only    *)
(* reconcilers write, and all of them "failed", over whatever the owner    *)
(* had written: where one of them finds no marker because another has      *)
(* removed it, it writes what is already there (WorkInv).                  *)
(*                                                                         *)
(* WorkflowRun.  Every step before the one at hand has passed and none     *)
(* after it was tried (StepsInv); the verdict names what fired             *)
(* (VerdictInv).                                                           *)
(*                                                                         *)
(* SystemOperation.  What the preflight found (PreflightInv), whose turn   *)
(* it is (TurnInv), and that what was found ready is there for its member  *)
(* for as long as nobody else takes it (ReadyInv).                         *)
(*                                                                         *)
(* WriterLease.  What one lease writes comes after all that the leases     *)
(* before it wrote, no chunk is written twice, and what a client was told  *)
(* of a chunk is true.  The invariant follows a chunk on its way: from the *)
(* inbox, where it is once, to the chain and from there to the wire, or to *)
(* nowhere.  Answers have their own part, for they arrive when the chunk   *)
(* is no longer where it was when they were given (ReplyInv).              *)
(***************************************************************************)
EXTENDS RunRecord, WorkflowRun, SystemOperation, WriterLease, SequenceTheorems, TLAPS

Writer == Runs \cup Reconciler
AtWork == {"marker", "result", "manifest", "unlink"}

\* The verdict is in both files, and the manifest says whose run it is.
Final(n, verdict) == disk[n].result = verdict /\ disk[n].manifest = verdict /\ disk[n].identity

\* No verdict has been written.
Open(n) == disk[n].result = "none" /\ disk[n].manifest \notin Verdict

\* The owner writes alone until its run is abandoned: what is on the disk is what
\* it has got to, and the verdict its own.
OwnerInv(n) ==
  LET at == writer[n].at
      d == disk[n]
  IN /\ at \in AtWork => writer[n].run = n /\ writer[n].verdict \in Verdict
     /\ n \notin prune.gone =>
          /\ at \in {"idle", "create", "lost", "running", "marker"} => Open(n) /\ ~d.marker
          /\ at \notin {"idle", "create", "lost"} => d.identity
          /\ at = "result" => d.marker
          /\ at = "manifest" => d.marker /\ d.result = writer[n].verdict
          /\ at = "unlink" => d.marker /\ Final(n, writer[n].verdict)
          /\ d.result # "none" => Told(n, d.result)
          /\ d.manifest \in Verdict => Told(n, d.manifest)

\* A reconciler at work has an abandoned run, and what it has written of the
\* failure stays written: where the marker is gone, another reconciler is through.
WorkInv(r) ==
  LET at == writer[r].at
      n == writer[r].run
  IN at \in AtWork =>
       /\ n \in Runs /\ Abandoned(n) /\ writer[r].verdict = "failed"
       /\ n \notin prune.gone =>
            /\ at # "marker" => disk[n].marker \/ Final(n, "failed")
            /\ at \in {"manifest", "unlink"} => disk[n].result = "failed"
            /\ at = "unlink" => Final(n, "failed")

\* A run without the marker is whole.
WholeInv(n) == n \notin prune.gone /\ ~disk[n].marker => Open(n) \/ \E v \in Verdict : Final(n, v)

RunInv ==
  /\ RunTypeOK
  /\ \A n \in Runs : OwnerInv(n) /\ WholeInv(n)
  /\ \A r \in Reconciler : WorkInv(r)

-----------------------------------------------------------------------------
(* What a step leaves alone.                                               *)

\* Only writer w and the files of run n may change, and no run comes back.
Only(w, n) ==
  /\ \A v \in Writer : v # w => writer'[v] = writer[v]
  /\ \A m \in Runs : m # n => disk'[m] = disk[m]
  /\ prune.gone \subseteq prune'.gone

\* An owner's part depends on its own place and files.
LEMMA OwnerKept ==
  ASSUME NEW m \in Runs, OwnerInv(m), WholeInv(m), writer'[m] = writer[m], disk'[m] = disk[m],
         prune.gone \subseteq prune'.gone
  PROVE  OwnerInv(m)' /\ WholeInv(m)'
<1>1. OwnerInv(m)'
  BY DEF OwnerInv, Open, Final, Told
<1>2. WholeInv(m)'
  BY DEF WholeInv, Open, Final
<1> QED
  BY <1>1, <1>2

\* What has been written of a failure.
FailureKept(n) == n \notin prune'.gone =>
  /\ disk[n].marker \/ Final(n, "failed") => disk'[n].marker \/ Final(n, "failed")'
  /\ disk[n].result = "failed" => disk'[n].result = "failed"
  /\ Final(n, "failed") => Final(n, "failed")'

\* A reconciler's part depends on what has been written of the failure.
LEMMA WorkKept ==
  ASSUME NEW r \in Reconciler, WorkInv(r), writer'[r] = writer[r], prune.gone \subseteq prune'.gone,
         NEW m, m = writer[r].run,
         writer[r].at \in AtWork => writer'[m] = writer[m] /\ FailureKept(m)
  PROVE  WorkInv(r)'
BY DEF WorkInv, FailureKept, Final, Abandoned

(* A step of the owner of a run in its hands: no reconciler is at it.      *)
LEMMA OwnersStep ==
  ASSUME RunInv, NEW n \in Runs, ~Abandoned(n), Only(n, n), RunTypeOK',
         OwnerInv(n)', WholeInv(n)'
  PROVE  RunInv'
<1>1. ASSUME NEW m \in Runs
      PROVE  OwnerInv(m)' /\ WholeInv(m)'
  BY OwnerKept DEF RunInv, Only, Writer
<1>2. ASSUME NEW r \in Reconciler
      PROVE  WorkInv(r)'
  <2>1. r # n /\ writer'[r] = writer[r]
    BY RunsAssumption DEF Only, Writer
  <2>2. PICK m : m = writer[r].run
    OBVIOUS
  <2>3. ASSUME writer[r].at \in AtWork
        PROVE  writer'[m] = writer[m] /\ FailureKept(m)
    <3>1. m \in Runs /\ m # n
      BY <2>2, <2>3 DEF RunInv, WorkInv
    <3>2. writer'[m] = writer[m] /\ disk'[m] = disk[m]
      BY <3>1 DEF Only, Writer
    <3> QED
      BY <3>2 DEF FailureKept, Final, Only
  <2> QED
    BY <2>1, <2>2, <2>3, WorkKept DEF RunInv, Only
<1> QED
  BY <1>1, <1>2 DEF RunInv

(* A step of a reconciler at an abandoned run.                             *)
LEMMA ReconcilersStep ==
  ASSUME RunInv, NEW w \in Reconciler, NEW n \in Runs, Abandoned(n), Only(w, n), RunTypeOK',
         WholeInv(n)', WorkInv(w)', FailureKept(n),
         n \notin prune'.gone /\ disk[n].identity => disk'[n].identity,
         n \notin prune'.gone => disk'[n].result \in {disk[n].result, "failed"},
         n \notin prune'.gone => disk'[n].manifest \in {disk[n].manifest, "failed"}
  PROVE  RunInv'
<1>1. ASSUME NEW m \in Runs
      PROVE  OwnerInv(m)' /\ WholeInv(m)'
  <2>1. m # w /\ writer'[m] = writer[m]
    BY RunsAssumption DEF Only, Writer
  <2>2. CASE m = n
    <3>1. writer[n].at \in {"dead", "over"} /\ (writer[n].at = "over" => writer[n].verdict = "failed")
      BY DEF Abandoned
    <3>3. writer'[n] = writer[n] /\ Told(n, "failed")
      BY <2>1, <2>2, <3>1 DEF Told
    <3>2. /\ disk'[n].result # "none" /\ n \notin prune'.gone => Told(n, disk'[n].result)
          /\ disk'[n].manifest \in Verdict /\ n \notin prune'.gone => Told(n, disk'[n].manifest)
      BY <3>3 DEF RunInv, OwnerInv, Only
    <3>4. OwnerInv(n)'
      BY <3>1, <3>2, <3>3 DEF RunInv, OwnerInv, Only, AtWork, Told
    <3> QED
      BY <2>2, <3>4
  <2>3. CASE m # n
    BY <2>1, <2>3, OwnerKept DEF RunInv, Only
  <2> QED
    BY <2>2, <2>3
<1>2. ASSUME NEW r \in Reconciler
      PROVE  WorkInv(r)'
  <2>1. CASE r = w
    BY <2>1
  <2>2. CASE r # w
    <3>1. writer'[r] = writer[r]
      BY <2>2 DEF Only, Writer
    <3>2. PICK m : m = writer[r].run
      OBVIOUS
    <3>3. ASSUME writer[r].at \in AtWork
          PROVE  writer'[m] = writer[m] /\ FailureKept(m)
      <4>1. m \in Runs
        BY <3>2, <3>3 DEF RunInv, WorkInv
      <4>2. writer'[m] = writer[m]
        BY <4>1, RunsAssumption DEF Only, Writer
      <4>3. CASE m # n
        BY <4>1, <4>2, <4>3 DEF Only, FailureKept, Final
      <4> QED
        BY <4>2, <4>3
    <3> QED
      BY <3>1, <3>2, <3>3, WorkKept DEF RunInv, Only
  <2> QED
    BY <2>1, <2>2
<1> QED
  BY <1>1, <1>2 DEF RunInv

-----------------------------------------------------------------------------
(* The writes of finalize().                                               *)

\* What one write does to the files of run n and to its writer.
Written(w, n) ==
  /\ writer'[w].run = n /\ writer'[w].verdict = writer[w].verdict
  /\ disk'[n].identity = disk[n].identity
  /\ writer[w].at = "marker" =>
       /\ writer'[w].at = "result" /\ disk'[n].marker
       /\ disk'[n].result = disk[n].result /\ disk'[n].manifest = disk[n].manifest
  /\ writer[w].at = "result" =>
       /\ writer'[w].at = "manifest" /\ disk'[n].marker = disk[n].marker
       /\ disk'[n].result = writer[w].verdict /\ disk'[n].manifest = disk[n].manifest
  /\ writer[w].at = "manifest" =>
       /\ writer'[w].at = "unlink" /\ disk'[n].marker = disk[n].marker
       /\ disk'[n].result = disk[n].result /\ disk'[n].manifest = writer[w].verdict
  /\ writer[w].at = "unlink" =>
       /\ writer'[w].at = "end" /\ ~disk'[n].marker
       /\ disk'[n].result = disk[n].result /\ disk'[n].manifest = disk[n].manifest

(* A write of the order marker, result, manifest, unlink.                  *)
LEMMA WriteDoes ==
  ASSUME RunTypeOK, NEW w \in Writer, NEW n \in Runs, n = writer[w].run, writer[w].verdict \in Verdict,
         FinalizeStep(w)
  PROVE  RunTypeOK' /\ Only(w, n) /\ Written(w, n) /\ prune' = prune
<1> DEFINE at == writer[w].at
<1>1. at \in AtWork /\ prune' = prune
  BY DEF FinalizeStep, AtWork
<1>2. writer' = [writer EXCEPT ![w].at = NextWrite(at)]
  BY DEF FinalizeStep, WriterGoes
<1>3. /\ at = "marker" => NextWrite(at) = "result"
      /\ at = "result" => NextWrite(at) = "manifest"
      /\ at = "manifest" => NextWrite(at) = "unlink"
      /\ at = "unlink" => NextWrite(at) = "end"
  BY DEF NextWrite
<1>4. /\ writer' \in [Writer -> [at : Place, run : Runs \cup {0}, verdict : Verdict \cup {"none"}]]
      /\ writer'[w].at = NextWrite(at) /\ writer'[w].run = n /\ writer'[w].verdict = writer[w].verdict
      /\ \A v \in Writer : v # w => writer'[v] = writer[v]
  <2>1. NextWrite(at) \in Place
    BY <1>1, <1>3 DEF AtWork, Place
  <2> QED
    BY <1>2, <2>1 DEF RunTypeOK, Writer
<1>5. /\ at = "marker" => disk' = [disk EXCEPT ![n].marker = TRUE, ![n].dir = TRUE]
      /\ at = "result" => disk' = [disk EXCEPT ![n].result = writer[w].verdict, ![n].dir = TRUE]
      /\ at = "manifest" => disk' = [disk EXCEPT ![n].manifest = writer[w].verdict, ![n].dir = TRUE]
      /\ at = "unlink" => disk' = [disk EXCEPT ![n].marker = FALSE]
  BY DEF FinalizeStep, WriteFile
<1>6. /\ disk' \in [Runs -> RunFiles]
      /\ disk'[n].identity = disk[n].identity
      /\ \A m \in Runs : m # n => disk'[m] = disk[m]
  <2>1. CASE at = "marker"
    <3>1. disk' = [disk EXCEPT ![n].marker = TRUE, ![n].dir = TRUE]
      BY <1>5, <2>1
    <3>2. disk' \in [Runs -> RunFiles]
      <4>1. [disk[n] EXCEPT !.marker = TRUE, !.dir = TRUE] \in RunFiles
        <5>1. disk[n] \in RunFiles
          BY DEF RunTypeOK
        <5> QED
          BY <5>1 DEF RunFiles
      <4>2. disk' = [disk EXCEPT ![n] = [disk[n] EXCEPT !.marker = TRUE, !.dir = TRUE]]
        BY <3>1 DEF RunTypeOK
      <4> QED
        BY <4>1, <4>2 DEF RunTypeOK
    <3>3. disk'[n].identity = disk[n].identity
      BY <3>1 DEF RunTypeOK, RunFiles
    <3> QED
      BY <3>1, <3>2, <3>3 DEF RunTypeOK
  <2>2. CASE at = "result"
    BY <1>5, <2>2 DEF RunTypeOK, RunFiles
  <2>3. CASE at = "manifest"
    BY <1>5, <2>3 DEF RunTypeOK, RunFiles
  <2>4. CASE at = "unlink"
    <3>1. disk' = [disk EXCEPT ![n].marker = FALSE]
      BY <1>5, <2>4
    <3>2. disk' \in [Runs -> RunFiles]
      <4>1. [disk[n] EXCEPT !.marker = FALSE] \in RunFiles
        <5>1. disk[n] \in RunFiles
          BY DEF RunTypeOK
        <5> QED
          BY <5>1 DEF RunFiles
      <4>2. disk' = [disk EXCEPT ![n] = [disk[n] EXCEPT !.marker = FALSE]]
        BY <3>1 DEF RunTypeOK
      <4> QED
        BY <4>1, <4>2 DEF RunTypeOK
    <3>3. disk'[n].identity = disk[n].identity
      BY <3>1 DEF RunTypeOK, RunFiles
    <3> QED
      BY <3>1, <3>2, <3>3 DEF RunTypeOK
  <2> QED
    BY <1>1, <2>1, <2>2, <2>3, <2>4 DEF AtWork
<1>7. /\ at = "marker" =>
           disk'[n].marker /\ disk'[n].result = disk[n].result /\ disk'[n].manifest = disk[n].manifest
      /\ at = "result" =>
           /\ disk'[n].marker = disk[n].marker /\ disk'[n].result = writer[w].verdict
           /\ disk'[n].manifest = disk[n].manifest
      /\ at = "manifest" =>
           /\ disk'[n].marker = disk[n].marker /\ disk'[n].result = disk[n].result
           /\ disk'[n].manifest = writer[w].verdict
      /\ at = "unlink" =>
           ~disk'[n].marker /\ disk'[n].result = disk[n].result /\ disk'[n].manifest = disk[n].manifest
  BY <1>5 DEF RunTypeOK, RunFiles
<1>8. RunTypeOK'
  BY <1>1, <1>4, <1>6 DEF RunTypeOK, Writer
<1>9. Only(w, n)
  BY <1>1, <1>4, <1>6 DEF Only
<1>10. Written(w, n)
  BY <1>3, <1>4, <1>6, <1>7 DEF Written
<1> QED
  BY <1>1, <1>8, <1>9, <1>10

(* The owner writes: alone, so that what is on the disk is what it wrote.  *)
LEMMA OwnerWrites ==
  ASSUME RunInv, NEW n \in Runs, FinalizeStep(n)
  PROVE  RunInv'
<1>1. writer[n].at \in AtWork /\ ~Abandoned(n)
  BY DEF FinalizeStep, AtWork, Abandoned
<1>2. writer[n].run = n /\ writer[n].verdict \in Verdict
  BY <1>1 DEF RunInv, OwnerInv
<1>3. RunTypeOK' /\ Only(n, n) /\ Written(n, n) /\ prune' = prune
  BY <1>2, WriteDoes DEF RunInv, Writer
<1>4. OwnerInv(n)'
  BY <1>1, <1>2, <1>3 DEF RunInv, OwnerInv, Written, Open, Final, AtWork, Verdict, Told
<1>5. WholeInv(n)'
  BY <1>1, <1>2, <1>3 DEF RunInv, OwnerInv, Written, WholeInv, Open, Final, AtWork
<1> QED
  BY <1>1, <1>3, <1>4, <1>5, OwnersStep

(* A reconciler writes: what another one has removed the marker from keeps *)
(* its verdict.                                                            *)
LEMMA ReconcilerWrites ==
  ASSUME RunInv, NEW w \in Reconciler, FinalizeStep(w)
  PROVE  RunInv'
<1>1. writer[w].at \in AtWork
  BY DEF FinalizeStep, AtWork
<1>2. PICK n \in Runs : n = writer[w].run
  BY <1>1 DEF RunInv, WorkInv
<1>3. Abandoned(n) /\ writer[w].verdict = "failed" /\ "failed" \in Verdict
  BY <1>1, <1>2 DEF RunInv, WorkInv, Verdict
<1>4. RunTypeOK' /\ Only(w, n) /\ Written(w, n) /\ prune' = prune
  BY <1>2, <1>3, WriteDoes DEF RunInv, Writer
<1>5. n # w /\ writer'[n] = writer[n]
  BY <1>4, RunsAssumption DEF Only, Writer
<1>6. FailureKept(n)
  BY <1>1, <1>2, <1>3, <1>4 DEF RunInv, WorkInv, Written, FailureKept, Final, AtWork
<1>7. n \notin prune.gone => disk[n].identity /\ disk'[n].identity
  BY <1>3, <1>4 DEF RunInv, OwnerInv, Written, Abandoned
<1>10. disk'[n].result \in {disk[n].result, "failed"} /\ disk'[n].manifest \in {disk[n].manifest, "failed"}
  BY <1>1, <1>3, <1>4 DEF Written, AtWork
<1>8. WholeInv(n)'
  BY <1>1, <1>2, <1>3, <1>4 DEF RunInv, WholeInv, WorkInv, Written, Open, Final, AtWork
<1>9. WorkInv(w)'
  <2>1. writer'[w].run = n
    BY <1>4 DEF Written
  <2> QED
    BY <1>1, <1>2, <1>3, <1>4, <1>5, <1>7, <2>1 DEF RunInv, WorkInv, Written, Final, AtWork, Abandoned
<1> QED
  BY <1>3, <1>4, <1>6, <1>7, <1>8, <1>9, <1>10, ReconcilersStep

-----------------------------------------------------------------------------
(* The other steps.                                                        *)

(* create(): the directory.                                                *)
LEMMA MakesDirectory ==
  ASSUME RunInv, NEW n \in Runs, MakeDirectory(n)
  PROVE  RunInv'
<1>1. /\ writer[n].at = "idle" /\ prune' = prune
      /\ disk' = [disk EXCEPT ![n].dir = TRUE] /\ writer' = [writer EXCEPT ![n].at = "create"]
  BY DEF MakeDirectory, WriterGoes
<1>2. /\ disk' \in [Runs -> RunFiles]
      /\ \A m \in Runs : m # n => disk'[m] = disk[m]
      /\ disk'[n].result = disk[n].result /\ disk'[n].manifest = disk[n].manifest
      /\ disk'[n].marker = disk[n].marker
  <2> DEFINE made == [disk[n] EXCEPT !.dir = TRUE]
  <2>1. disk \in [Runs -> RunFiles] /\ disk[n] \in RunFiles
    BY DEF RunInv, RunTypeOK
  <2>2. /\ made \in RunFiles /\ made.result = disk[n].result
        /\ made.manifest = disk[n].manifest /\ made.marker = disk[n].marker
    BY <2>1 DEF RunFiles
  <2>3. disk' = [disk EXCEPT ![n] = made]
    BY <1>1, <2>1
  <2> HIDE DEF made
  <2> QED
    BY <2>1, <2>2, <2>3
<1>3. /\ writer' \in [Writer -> [at : Place, run : Runs \cup {0}, verdict : Verdict \cup {"none"}]]
      /\ \A w \in Writer : w # n => writer'[w] = writer[w]
      /\ writer'[n].at = "create"
  BY <1>1 DEF RunInv, RunTypeOK, Writer, Place
<1>4. RunTypeOK' /\ Only(n, n)
  BY <1>1, <1>2, <1>3 DEF RunInv, RunTypeOK, Only, Writer
<1>5. OwnerInv(n)' /\ WholeInv(n)'
  BY <1>1, <1>2, <1>3 DEF RunInv, OwnerInv, WholeInv, Open, Final, AtWork
<1>6. ~Abandoned(n)
  BY <1>1 DEF Abandoned
<1> QED
  BY <1>4, <1>5, <1>6, OwnersStep

(* create(): the manifest, which names the run.                            *)
LEMMA WritesManifest ==
  ASSUME RunInv, NEW n \in Runs, WriteManifest(n)
  PROVE  RunInv'
<1>1. /\ writer[n].at = "create" /\ prune' = prune
      /\ disk' = [disk EXCEPT ![n].manifest = "running", ![n].identity = TRUE, ![n].dir = TRUE]
      /\ writer' = [writer EXCEPT ![n].at = "running"]
  BY DEF WriteManifest, WriterGoes
<1>2. /\ disk' \in [Runs -> RunFiles]
      /\ \A m \in Runs : m # n => disk'[m] = disk[m]
      /\ disk'[n].result = disk[n].result /\ disk'[n].manifest = "running"
      /\ disk'[n].marker = disk[n].marker /\ disk'[n].identity
  <2> DEFINE d == [disk[n] EXCEPT !.manifest = "running", !.identity = TRUE, !.dir = TRUE]
  <2>1. disk[n] \in RunFiles /\ disk \in [Runs -> RunFiles]
    BY DEF RunInv, RunTypeOK
  <2>2. d \in RunFiles
    BY <2>1 DEF RunFiles
  <2>3. d.result = disk[n].result /\ d.manifest = "running" /\ d.marker = disk[n].marker /\ d.identity
    BY <2>1 DEF RunFiles
  <2>4. disk' = [disk EXCEPT ![n] = d]
    BY <1>1, <2>1
  <2> HIDE DEF d
  <2> QED
    BY <2>1, <2>2, <2>3, <2>4
<1>3. /\ writer' \in [Writer -> [at : Place, run : Runs \cup {0}, verdict : Verdict \cup {"none"}]]
      /\ \A w \in Writer : w # n => writer'[w] = writer[w]
      /\ writer'[n].at = "running"
  BY <1>1 DEF RunInv, RunTypeOK, Writer, Place
<1>4. RunTypeOK' /\ Only(n, n)
  BY <1>1, <1>2, <1>3 DEF RunInv, RunTypeOK, Only, Writer
<1>5. OwnerInv(n)' /\ WholeInv(n)'
  BY <1>1, <1>2, <1>3 DEF RunInv, OwnerInv, WholeInv, Open, Final, AtWork, Verdict
<1>6. ~Abandoned(n)
  BY <1>1 DEF Abandoned
<1> QED
  BY <1>4, <1>5, <1>6, OwnersStep

(* The owner begins to finalize.                                           *)
LEMMA OwnerBegins ==
  ASSUME RunInv, NEW n \in Runs, OwnerFinalizes(n)
  PROVE  RunInv'
<1>1. PICK verdict \in Verdict :
        /\ writer[n].at = "running" /\ disk' = disk /\ prune' = prune
        /\ writer' = [writer EXCEPT ![n] = [at |-> "marker", run |-> n, verdict |-> verdict]]
  BY DEF OwnerFinalizes, WritersTurn
<1>2. /\ writer' \in [Writer -> [at : Place, run : Runs \cup {0}, verdict : Verdict \cup {"none"}]]
      /\ \A w \in Writer : w # n => writer'[w] = writer[w]
      /\ writer'[n] = [at |-> "marker", run |-> n, verdict |-> verdict]
  BY <1>1 DEF RunInv, RunTypeOK, Writer, Place
<1>3. RunTypeOK' /\ Only(n, n)
  BY <1>1, <1>2 DEF RunInv, RunTypeOK, Only, Writer
<1>4. OwnerInv(n)' /\ WholeInv(n)'
  BY <1>1, <1>2 DEF RunInv, OwnerInv, WholeInv, Open, Final, AtWork
<1>5. ~Abandoned(n)
  BY <1>1 DEF Abandoned
<1> QED
  BY <1>3, <1>4, <1>5, OwnersStep

(* A reconciler begins, at an abandoned run.                               *)
LEMMA ReconcilerBegins ==
  ASSUME RunInv, NEW w \in Reconciler, ReconcilerFinalizes(w)
  PROVE  RunInv'
<1>1. PICK n \in Runs :
        /\ Abandoned(n) /\ disk' = disk /\ prune' = prune
        /\ writer' = [writer EXCEPT ![w] = [at |-> "marker", run |-> n, verdict |-> "failed"]]
  BY DEF ReconcilerFinalizes, WritersTurn
<1>2. /\ writer' \in [Writer -> [at : Place, run : Runs \cup {0}, verdict : Verdict \cup {"none"}]]
      /\ \A v \in Writer : v # w => writer'[v] = writer[v]
      /\ writer'[w] = [at |-> "marker", run |-> n, verdict |-> "failed"]
  BY <1>1 DEF RunInv, RunTypeOK, Writer, Place, Verdict
<1>3. RunTypeOK' /\ Only(w, n)
  BY <1>1, <1>2 DEF RunInv, RunTypeOK, Only, Writer
<1>4. writer'[n] = writer[n]
  BY <1>2, RunsAssumption DEF Writer
<1>5. WorkInv(w)' /\ WholeInv(n)' /\ FailureKept(n)
  BY <1>1, <1>2, <1>4 DEF RunInv, WorkInv, WholeInv, FailureKept, Open, Final, AtWork, Abandoned
<1> QED
  BY <1>1, <1>3, <1>5, ReconcilersStep

\* Writer w goes where it does nothing more but mark its session.
Leaves(w, last) ==
  /\ writer[w].at \notin {"idle", "over", "dead", "lost"} /\ disk' = disk /\ prune' = prune
  /\ writer' = [writer EXCEPT ![w].at = last]
  /\ last \in {"lost", "dead", "end", "over"} /\ (last = "lost" <=> writer[w].at = "create")

(* A writer stops where it is, or goes on without having written.          *)
LEMMA WriterLeaves ==
  ASSUME RunInv, NEW w \in Writer, NEW last, Leaves(w, last)
  PROVE  RunInv'
<1>1. /\ writer[w].at \notin {"idle", "over", "dead", "lost"} /\ disk' = disk /\ prune' = prune
      /\ writer' = [writer EXCEPT ![w].at = last]
      /\ last \in {"lost", "dead", "end", "over"} /\ (last = "lost" <=> writer[w].at = "create")
  BY DEF Leaves
<1>2. /\ writer' \in [Writer -> [at : Place, run : Runs \cup {0}, verdict : Verdict \cup {"none"}]]
      /\ \A v \in Writer : v # w => writer'[v] = writer[v]
      /\ writer'[w].at = last /\ writer'[w].verdict = writer[w].verdict
  BY <1>1 DEF RunInv, RunTypeOK, Writer, Place
<1>3. RunTypeOK'
  BY <1>1, <1>2 DEF RunInv, RunTypeOK, Writer
<1>4. CASE w \in Runs
  <2>1. OwnerInv(w)' /\ WholeInv(w)'
    BY <1>1, <1>2, <1>4 DEF RunInv, OwnerInv, WholeInv, Open, Final, AtWork, Told
  <2>2. Only(w, w)
    BY <1>1, <1>2 DEF Only
  <2>3. ~Abandoned(w)
    BY <1>1 DEF Abandoned
  <2> QED
    BY <1>3, <1>4, <2>1, <2>2, <2>3, OwnersStep
<1>5. CASE w \in Reconciler
  <2>1. ASSUME NEW m \in Runs
        PROVE  OwnerInv(m)' /\ WholeInv(m)'
    <3>1. writer'[m] = writer[m]
      BY <1>2, <1>5, RunsAssumption DEF Writer
    <3> QED
      BY <1>1, <3>1, OwnerKept DEF RunInv
  <2>2. ASSUME NEW r \in Reconciler
        PROVE  WorkInv(r)'
    <3>1. CASE r = w
      BY <1>1, <1>2, <3>1 DEF WorkInv, AtWork
    <3>2. CASE r # w
      <4>1. PICK m : m = writer[r].run
        OBVIOUS
      <4>2. ASSUME writer[r].at \in AtWork
            PROVE  writer'[m] = writer[m]
        <5>1. m \in Runs
          BY <4>1, <4>2 DEF RunInv, WorkInv
        <5> QED
          BY <1>2, <1>5, <5>1, RunsAssumption DEF Writer
      <4> QED
        BY <1>1, <1>2, <3>2, <4>1, <4>2, WorkKept DEF RunInv, FailureKept, Final, Writer
    <3> QED
      BY <3>1, <3>2
  <2> QED
    BY <1>3, <2>1, <2>2 DEF RunInv
<1> QED
  BY <1>4, <1>5 DEF Writer

(* It dies, a write of it fails, or it marks its session.                  *)
LEMMA WriterStops ==
  ASSUME RunInv, NEW w \in Writer, Stops(w) \/ WriteFails(w) \/ OwnerMarks(w)
  PROVE  RunInv'
<1>1. CASE Stops(w)
  <2>1. PICK last : last = IF writer[w].at = "create" THEN "lost" ELSE "dead"
    OBVIOUS
  <2>2. Leaves(w, last)
    BY <1>1, <2>1 DEF Stops, WriterGoes, Leaves
  <2> QED
    BY <2>2, WriterLeaves
<1>2. CASE WriteFails(w)
  <2>1. Leaves(w, "end")
    BY <1>2 DEF WriteFails, WriterGoes, Leaves
  <2> QED
    BY <2>1, WriterLeaves
<1>3. CASE OwnerMarks(w)
  <2>1. Leaves(w, "over")
    BY <1>3 DEF OwnerMarks, WriterGoes, Leaves
  <2> QED
    BY <2>1, WriterLeaves
<1> QED
  BY <1>1, <1>2, <1>3

(* A prune lists what it will remove.                                      *)
LEMMA PruneBegins ==
  ASSUME RunInv, NEW keep \in Nat, NEW aged, PruneStarts(keep, aged)
  PROVE  RunInv'
<1>1. disk' = disk /\ writer' = writer
  BY DEF PruneStarts
<1>2. /\ prune' \in [count : Nat, listed : SUBSET Runs, remove : SUBSET Runs, gone : SUBSET Runs]
      /\ prune'.gone = prune.gone
  <2> DEFINE removed == IF aged = 0 THEN {n \in Listed : Rank(n, Listed) >= keep}
                                    ELSE {n \in Listed : n <= aged /\ disk[n].identity}
  <2>1. Listed \subseteq Runs /\ removed \subseteq Runs
    BY DEF Listed
  <2>2. prune' = [prune EXCEPT !.count = prune.count + 1, !.listed = Listed, !.remove = removed]
    BY DEF PruneStarts
  <2>3. prune \in [count : Nat, listed : SUBSET Runs, remove : SUBSET Runs, gone : SUBSET Runs]
    BY DEF RunInv, RunTypeOK
  <2>4. PICK some \in SUBSET Runs : some = removed
    BY <2>1
  <2>5. PICK listed \in SUBSET Runs : listed = Listed
    BY <2>1
  <2>6. PICK count \in Nat : count = prune.count + 1
    BY <2>3
  <2>7. prune' = [prune EXCEPT !.count = count, !.listed = listed, !.remove = some]
    BY <2>2, <2>4, <2>5, <2>6
  <2> HIDE DEF removed
  <2> QED
    BY <2>3, <2>7
<1>3. RunTypeOK'
  BY <1>1, <1>2 DEF RunInv, RunTypeOK
<1>4. \A n \in Runs : OwnerInv(n)' /\ WholeInv(n)'
  BY <1>1, <1>2, OwnerKept DEF RunInv
<1>5. \A r \in Reconciler : WorkInv(r)'
  BY <1>1, <1>2 DEF RunInv, WorkInv, Final, Abandoned
<1> QED
  BY <1>3, <1>4, <1>5 DEF RunInv

(* A prune removes a run, and what is written there afterwards is no run.  *)
LEMMA PruneStep ==
  ASSUME RunInv, PruneRemoves
  PROVE  RunInv'
<1>1. PICK n \in Runs :
        /\ disk' = [disk EXCEPT ![n] = Empty] /\ writer' = writer
        /\ prune' = [prune EXCEPT !.remove = prune.remove \ {n}, !.gone = prune.gone \cup {n}]
  BY DEF PruneRemoves, RunInv, RunTypeOK
<1>2. /\ prune' \in [count : Nat, listed : SUBSET Runs, remove : SUBSET Runs, gone : SUBSET Runs]
      /\ prune'.gone = prune.gone \cup {n}
  <2>1. prune \in [count : Nat, listed : SUBSET Runs, remove : SUBSET Runs, gone : SUBSET Runs]
    BY DEF RunInv, RunTypeOK
  <2> QED
    BY <1>1, <2>1
<1>3. disk' \in [Runs -> RunFiles] /\ \A m \in Runs : m # n => disk'[m] = disk[m]
  BY <1>1 DEF RunInv, RunTypeOK, RunFiles, Empty
<1>4. RunTypeOK'
  BY <1>1, <1>2, <1>3 DEF RunInv, RunTypeOK
<1>5. ASSUME NEW m \in Runs
      PROVE  OwnerInv(m)' /\ WholeInv(m)'
  <2>1. CASE m = n
    BY <1>1, <1>2, <2>1 DEF RunInv, OwnerInv, WholeInv
  <2>2. CASE m # n
    BY <1>1, <1>2, <1>3, <2>2, OwnerKept DEF RunInv
  <2> QED
    BY <2>1, <2>2
<1>6. ASSUME NEW r \in Reconciler
      PROVE  WorkInv(r)'
  <2>1. PICK m : m = writer[r].run
    OBVIOUS
  <2>2. ASSUME writer[r].at \in AtWork
        PROVE  FailureKept(m)
    <3>1. m \in Runs
      BY <2>1, <2>2 DEF RunInv, WorkInv
    <3> QED
      BY <1>2, <1>3, <3>1 DEF FailureKept, Final
  <2> QED
    BY <1>1, <1>2, <2>1, <2>2, WorkKept DEF RunInv
<1> QED
  BY <1>4, <1>5, <1>6 DEF RunInv

-----------------------------------------------------------------------------
\* Nothing is written at first.
LEMMA RunInitInv == RunInit => RunInv
<1> SUFFICES ASSUME RunInit
             PROVE  RunInv
  OBVIOUS
<1>1. RunTypeOK
  BY DEF RunInit, RunTypeOK, RunFiles, Empty, Place
<1>2. \A n \in Runs : OwnerInv(n) /\ WholeInv(n)
  BY DEF RunInit, OwnerInv, WholeInv, Empty, Open, AtWork, Verdict
<1>3. \A r \in Reconciler : WorkInv(r)
  BY DEF RunInit, WorkInv, AtWork
<1> QED
  BY <1>1, <1>2, <1>3 DEF RunInv

\* Every step keeps the invariant.
LEMMA RunNextInv == RunInv /\ [RunNext]_runVars => RunInv'
<1> SUFFICES ASSUME RunInv, [RunNext]_runVars
             PROVE  RunInv'
  OBVIOUS
<1>1. ASSUME NEW n \in Runs, MakeDirectory(n) \/ WriteManifest(n) \/ OwnerFinalizes(n) \/ OwnerMarks(n)
      PROVE  RunInv'
  BY <1>1, MakesDirectory, WritesManifest, OwnerBegins, WriterStops DEF Writer
<1>2. ASSUME NEW w \in Reconciler, ReconcilerFinalizes(w)
      PROVE  RunInv'
  BY <1>2, ReconcilerBegins
<1>3. ASSUME NEW w \in Runs \cup Reconciler, FinalizeStep(w) \/ WriteFails(w) \/ Stops(w)
      PROVE  RunInv'
  BY <1>3, OwnerWrites, ReconcilerWrites, WriterStops DEF Writer
<1>4. ASSUME NEW keep \in 0 .. Cardinality(Runs), NEW aged \in {0} \cup Runs, PruneStarts(keep, aged)
      PROVE  RunInv'
  <2>1. keep \in Nat
    OBVIOUS
  <2> QED
    BY <1>4, <2>1, PruneBegins
<1>5. CASE PruneRemoves
  BY <1>5, PruneStep
<1>6. CASE UNCHANGED runVars
  BY <1>6 DEF runVars, RunInv, RunTypeOK, OwnerInv, WholeInv, WorkInv, Open, Final, Told,
                            Abandoned
<1> QED
  BY <1>1, <1>2, <1>3, <1>4, <1>5, <1>6 DEF RunNext

(* The inductive invariant holds in every behaviour.                       *)
THEOREM RunInvariant == RunSpec => []RunInv
<1> QED
  BY RunInitInv, RunNextInv, PTL DEF RunSpec

(* Directories, writers and the prune are what the code's types say.       *)
THEOREM RunTypes == RunSpec => []RunTypeOK
<1>1. RunInv => RunTypeOK
  BY DEF RunInv
<1> QED
  BY <1>1, RunInvariant, PTL

(* A run without the marker can be read as it stands: its manifest is      *)
(* final exactly when it has a result, the two agree, and the manifest     *)
(* says whose run it is (run-manager.ts:59-98); the verdict is its owner's *)
(* or "failed" of one that died (session-reconciler.ts:84-105).            *)
THEOREM RunsAreWhole == RunSpec => []WholeUnlessMarked
<1>1. RunInv => WholeUnlessMarked
  <2> SUFFICES ASSUME RunInv, NEW n \in Runs \ prune.gone, ~disk[n].marker
               PROVE  /\ disk[n].manifest \in Verdict <=> disk[n].result # "none"
                      /\ disk[n].result # "none" =>
                           disk[n].manifest = disk[n].result /\ disk[n].identity /\ Told(n, disk[n].result)
    BY DEF WholeUnlessMarked
  <2>1. CASE Open(n)
    BY <2>1 DEF Open
  <2>2. CASE \E v \in Verdict : Final(n, v)
    BY <2>2 DEF RunInv, OwnerInv, Final, Verdict
  <2> QED
    BY <2>1, <2>2 DEF RunInv, WholeInv
<1> QED
  BY <1>1, RunInvariant, PTL

-----------------------------------------------------------------------------
\* What a file says is kept, or becomes "failed" of an owner that died.
KeepsVerdict(n, old, new) == new = old \/ (new = "failed" /\ writer[n].at = "dead")

(* A verdict that was written is rewritten only as "failed", and only when *)
(* the owner died before it had marked its session: "failed" is final, and *)
(* so is "succeeded" of an owner that lived to say so.  Only a prune takes *)
(* them away.                                                              *)
VerdictStands == [][\A n \in Runs \ prune'.gone :
                      /\ disk[n].result # "none" => KeepsVerdict(n, disk[n].result, disk'[n].result)
                      /\ disk[n].manifest \in Verdict => KeepsVerdict(n, disk[n].manifest, disk'[n].manifest)]_runVars

\* The owner writes each file once, and reconcilers write of a failure.
LEMMA LateWrites ==
  ASSUME RunInv, NEW w \in Writer, FinalizeStep(w), NEW n \in Runs, n \notin prune.gone
  PROVE  /\ disk[n].result # "none" => KeepsVerdict(n, disk[n].result, disk'[n].result)
         /\ disk[n].manifest \in Verdict => KeepsVerdict(n, disk[n].manifest, disk'[n].manifest)
<1>1. writer[w].at \in AtWork
  BY DEF FinalizeStep, AtWork
<1>2. PICK m \in Runs : m = writer[w].run
  BY <1>1 DEF RunInv, OwnerInv, WorkInv, Writer
<1>3. writer[w].verdict \in Verdict
  BY <1>1 DEF RunInv, OwnerInv, WorkInv, Writer, Verdict
<1>4. Only(w, m) /\ Written(w, m)
  BY <1>2, <1>3, WriteDoes DEF RunInv
<1>5. CASE m # n
  BY <1>4, <1>5 DEF Only, KeepsVerdict
<1>6. CASE m = n /\ w \in Runs
  <2>1. w = n
    BY <1>1, <1>2, <1>6 DEF RunInv, OwnerInv
  <2>2. writer[n].at # "dead"
    BY <1>1, <2>1 DEF AtWork
  <2>3. /\ disk[n].result # "none" => disk[n].result = writer[n].verdict
        /\ disk[n].manifest \in Verdict => disk[n].manifest = writer[n].verdict
    BY <2>2 DEF RunInv, OwnerInv, Told
  <2> QED
    BY <1>1, <1>4, <1>6, <2>1, <2>3 DEF Written, AtWork, KeepsVerdict
<1>7. CASE m = n /\ w \in Reconciler
  <2>1. writer[w].verdict = "failed" /\ Abandoned(n)
    BY <1>1, <1>2, <1>7 DEF RunInv, WorkInv
  <2>2. CASE writer[n].at = "dead"
    BY <1>1, <1>4, <1>7, <2>1, <2>2 DEF Written, AtWork, KeepsVerdict
  <2>3. CASE writer[n].at # "dead"
    <3>1. writer[n].verdict = "failed"
      BY <2>1, <2>3 DEF Abandoned
    <3>2. /\ disk[n].result # "none" => disk[n].result = "failed"
          /\ disk[n].manifest \in Verdict => disk[n].manifest = "failed"
      BY <2>3, <3>1 DEF RunInv, OwnerInv, Told
    <3> QED
      BY <1>1, <1>4, <1>7, <2>1, <3>2 DEF Written, AtWork, KeepsVerdict
  <2> QED
    BY <2>2, <2>3
<1> QED
  BY <1>5, <1>6, <1>7 DEF Writer

(* A result and a manifest keep their verdict, or become "failed" where    *)
(* the owner died (run-manager.ts:59-98, session-reconciler.ts:84-105).    *)
THEOREM VerdictsStand == RunSpec => VerdictStands
<1> DEFINE Stand == \A n \in Runs \ prune'.gone :
                      /\ disk[n].result # "none" => KeepsVerdict(n, disk[n].result, disk'[n].result)
                      /\ disk[n].manifest \in Verdict => KeepsVerdict(n, disk[n].manifest, disk'[n].manifest)
<1>1. RunInv /\ [RunNext]_runVars => [Stand]_runVars
  <2> SUFFICES ASSUME RunInv, RunNext, NEW n \in Runs \ prune'.gone
               PROVE  /\ disk[n].result # "none" => KeepsVerdict(n, disk[n].result, disk'[n].result)
                      /\ disk[n].manifest \in Verdict => KeepsVerdict(n, disk[n].manifest, disk'[n].manifest)
    OBVIOUS
  <2> DEFINE Goal == /\ disk[n].result # "none" => KeepsVerdict(n, disk[n].result, disk'[n].result)
                     /\ disk[n].manifest \in Verdict => KeepsVerdict(n, disk[n].manifest, disk'[n].manifest)
  <2>1. CASE disk' = disk
    BY <2>1 DEF KeepsVerdict
  <2>2. ASSUME NEW m \in Runs, MakeDirectory(m) \/ WriteManifest(m)
        PROVE  Goal
    <3>1. prune' = prune /\ writer[m].at \in {"idle", "create"}
      BY <2>2 DEF MakeDirectory, WriteManifest
    <3>2. m = n => Open(n)
      BY <3>1 DEF RunInv, OwnerInv
    <3>3. m # n => disk'[n] = disk[n]
      BY <2>2 DEF MakeDirectory, WriteManifest, RunInv, RunTypeOK
    <3>4. m = n => disk'[n].result = disk[n].result
      BY <2>2 DEF MakeDirectory, WriteManifest, RunInv, RunTypeOK, RunFiles
    <3> QED
      BY <3>2, <3>3, <3>4 DEF Open, KeepsVerdict
  <2>3. ASSUME NEW w \in Writer, FinalizeStep(w)
        PROVE  Goal
    <3>1. prune' = prune
      BY <2>3 DEF FinalizeStep
    <3> QED
      BY <2>3, <3>1, LateWrites
  <2>4. CASE PruneRemoves
    <3>1. PICK m \in Runs :
            /\ disk' = [disk EXCEPT ![m] = Empty]
            /\ prune' = [prune EXCEPT !.remove = prune.remove \ {m}, !.gone = prune.gone \cup {m}]
      BY <2>4 DEF PruneRemoves, RunInv, RunTypeOK
    <3>2. prune \in [count : Nat, listed : SUBSET Runs, remove : SUBSET Runs, gone : SUBSET Runs]
      BY DEF RunInv, RunTypeOK
    <3>3. m # n
      BY <3>1, <3>2
    <3> QED
      BY <3>1, <3>3 DEF RunInv, RunTypeOK, KeepsVerdict
  <2> QED
    BY <2>1, <2>2, <2>3, <2>4 DEF RunNext, Writer, OwnerFinalizes, ReconcilerFinalizes, WritersTurn, WriteFails,
                                 OwnerMarks, Stops, PruneStarts
<1> QED
  BY <1>1, RunInvariant, PTL DEF RunSpec, VerdictStands

-----------------------------------------------------------------------------
\* Before the step at hand every step has passed, and after it none was tried.
\* A step is at hand until the last has passed.
StepsInv ==
  /\ \A i \in 1 .. Steps : (i < work.step => tried[i] \in Passed) /\ (i > work.step => tried[i] = "none")
  /\ work.at \in {"start", "resolve", "runs", "back"} => work.step <= Steps
  /\ work.at = "output" /\ work.handler = "workflow" => work.step > Steps

\* The verdict is given at the end, and names what stopped the handler.
VerdictInv ==
  /\ work.verdict # "none" <=> work.at = "end"
  /\ work.at \in {"loop", "resolve", "runs", "back", "output"} => work.handler # "none"
  /\ work.at = "start" => work.handler = "none"
  /\ work.at = "loop" => work.handler = "workflow"
  /\ work.at = "output" => ~stop.operation
  /\ work.verdict = "ok" /\ work.handler = "workflow" => work.step > Steps
  /\ work.verdict = "aborted" => stop.operation
  /\ work.verdict = "timeout" => stop.workflow \/ stop.action \/ stop.deadline
  /\ work.verdict \in {"ok", "failed", "timeout"} /\ work.handler # "none" => ~stop.operation

WorkflowInv == WorkTypeOK /\ StepsInv /\ VerdictInv

(* Where no step returned to the workflow, what was tried is what it was. *)
LEMMA WorkSame ==
  ASSUME WorkflowInv, tried' = tried, work'.step = work.step, WorkTypeOK', VerdictInv',
         work'.at \in {"start", "resolve", "runs", "back"} => work.step <= Steps,
         work'.at = "output" /\ work'.handler = "workflow" => work.step > Steps
  PROVE  WorkflowInv'
BY DEF WorkflowInv, StepsInv

(* A step that has passed leaves the next one at hand.                     *)
LEMMA WorkPasses ==
  ASSUME WorkflowInv, NextIs, work.step <= Steps, NEW what \in Passed, Became(what),
         WorkTypeOK', VerdictInv'
  PROVE  WorkflowInv'
<1>1. /\ work.step \in 1 .. Steps /\ Steps \in Nat
      /\ work'.step = work.step + 1 /\ work'.at = "loop"
  BY StepsAssumption DEF WorkflowInv, WorkTypeOK, Handling, NextIs
<1>2. tried' = [tried EXCEPT ![work.step] = what]
  BY DEF Became
<1>3. ASSUME NEW i \in 1 .. Steps
      PROVE  (i < work'.step => tried'[i] \in Passed) /\ (i > work'.step => tried'[i] = "none")
  <2>1. CASE i = work.step
    BY <1>1, <1>2, <2>1 DEF WorkflowInv, WorkTypeOK
  <2>2. CASE i # work.step
    <3>1. tried'[i] = tried[i]
      BY <1>2, <2>2 DEF WorkflowInv, WorkTypeOK
    <3> QED
      BY <1>1, <2>2, <3>1 DEF WorkflowInv, StepsInv
  <2> QED
    BY <2>1, <2>2
<1> QED
  BY <1>1, <1>3 DEF WorkflowInv, StepsInv

(* A step that has not passed is the last one.                             *)
LEMMA WorkEnds ==
  ASSUME WorkflowInv, work.step <= Steps, NEW what, Became(what), work'.step = work.step,
         work'.at \notin {"start"}, work'.at = "output" => work'.handler # "workflow",
         WorkTypeOK', VerdictInv'
  PROVE  WorkflowInv'
<1>1. work.step \in 1 .. Steps /\ tried' = [tried EXCEPT ![work.step] = what]
  BY StepsAssumption DEF WorkflowInv, WorkTypeOK, Handling, Became
<1>2. \A i \in 1 .. Steps : i # work.step => tried'[i] = tried[i]
  BY <1>1 DEF WorkflowInv, WorkTypeOK
<1>3. \A i \in 1 .. Steps : (i < work.step => tried'[i] \in Passed) /\ (i > work.step => tried'[i] = "none")
  BY <1>1, <1>2, StepsAssumption DEF WorkflowInv, StepsInv
<1> QED
  BY <1>3 DEF WorkflowInv, StepsInv

\* The handler has not begun.
LEMMA WorkInitInv == WorkInit => WorkflowInv
<1> SUFFICES ASSUME WorkInit
             PROVE  WorkflowInv
  OBVIOUS
<1>1. WorkTypeOK
  BY StepsAssumption DEF WorkInit, WorkTypeOK, Handling, Signals
<1>2. StepsInv /\ VerdictInv
  BY StepsAssumption DEF WorkInit, StepsInv, VerdictInv
<1> QED
  BY <1>1, <1>2 DEF WorkflowInv

\* The signals fire before there is an output, and stay.
LEMMA SignalSteps ==
  ASSUME WorkflowInv, OperationAborts \/ WorkflowTimer \/ ActionTimer \/ DeadlinePasses
  PROVE  WorkflowInv'
<1>1. /\ work' = work /\ tried' = tried
      /\ stop' \in Signals
      /\ stop'.operation = stop.operation \/ work.at \notin {"output", "end"}
      /\ stop.operation => stop'.operation
      /\ stop.workflow => stop'.workflow
      /\ stop.action => stop'.action
      /\ stop.deadline => stop'.deadline
  <2>1. CASE OperationAborts
    BY <2>1 DEF OperationAborts, WorkflowInv, WorkTypeOK, Signals
  <2>2. CASE WorkflowTimer
    BY <2>2 DEF WorkflowTimer, WorkflowInv, WorkTypeOK, Signals
  <2>3. CASE ActionTimer
    BY <2>3 DEF ActionTimer, WorkflowInv, WorkTypeOK, Signals
  <2>4. CASE DeadlinePasses
    BY <2>4 DEF DeadlinePasses, WorkflowInv, WorkTypeOK, Signals
  <2> QED
    BY <2>1, <2>2, <2>3, <2>4
<1>2. WorkTypeOK'
  BY <1>1 DEF WorkflowInv, WorkTypeOK
<1>3. VerdictInv'
  BY <1>1 DEF WorkflowInv, VerdictInv, WorkTypeOK, Handling
<1> QED
  BY <1>1, <1>2, <1>3, WorkSame DEF WorkflowInv, StepsInv

\* What ends the handler: its place, its verdict and nothing else.
LEMMA EndFields ==
  ASSUME WorkflowInv, NEW verdict \in {"ok", "failed", "timeout", "aborted"}, End(verdict)
  PROVE  /\ work' \in Handling /\ work'.at = "end" /\ work'.verdict = verdict
         /\ work'.step = work.step /\ work'.handler = work.handler
<1>1. work \in Handling
  BY DEF WorkflowInv, WorkTypeOK
<1> QED
  BY <1>1 DEF End, Handling

\* What goes on to the next step.
LEMMA NextFields ==
  ASSUME WorkflowInv, work.step <= Steps, NextIs
  PROVE  /\ work' \in Handling /\ work'.at = "loop" /\ work'.step = work.step + 1
         /\ work'.handler = work.handler /\ work'.verdict = work.verdict
<1>1. work \in Handling
  BY DEF WorkflowInv, WorkTypeOK
<1>2. PICK next \in 1 .. Steps + 1 : next = work.step + 1
  BY <1>1, StepsAssumption DEF Handling
<1>3. work' = [work EXCEPT !.at = "loop", !.step = next]
  BY <1>2 DEF NextIs
<1> QED
  BY <1>1, <1>2, <1>3 DEF Handling

\* What is recorded of a step is one of its outcomes.
LEMMA BecameTyped ==
  ASSUME WorkflowInv,
         NEW what \in {"none", "runs", "ok", "skipped", "allowed", "failed", "timeout", "stopped"}, Became(what)
  PROVE  tried' \in [1 .. Steps -> {"none", "runs", "ok", "skipped", "allowed", "failed", "timeout", "stopped"}]
BY DEF WorkflowInv, WorkTypeOK, Became

(* execute() begins.                                                       *)
LEMMA EnterStep ==
  ASSUME WorkflowInv, Enter
  PROVE  WorkflowInv'
<1>1. work.at = "start" /\ tried' = tried /\ work \in Handling /\ stop \in Signals
  BY DEF Enter, WorkflowInv, WorkTypeOK
<1>2. work.step <= Steps /\ work.verdict = "none"
  BY <1>1 DEF WorkflowInv, StepsInv, VerdictInv, Handling
<1>3. CASE End("failed") /\ stop' = stop
  <2>1. /\ work' \in Handling /\ work'.at = "end" /\ work'.verdict = "failed"
        /\ work'.step = work.step /\ work'.handler = work.handler
    BY <1>3, EndFields
  <2>2. WorkTypeOK' /\ VerdictInv'
    BY <1>1, <1>3, <2>1 DEF WorkTypeOK, VerdictInv, WorkflowInv
  <2> QED
    BY <1>1, <2>1, <2>2, WorkSame
<1>4. CASE work' = [work EXCEPT !.handler = "workflow", !.at = "loop"] /\ stop' = stop
  <2>1. /\ work' \in Handling /\ work'.at = "loop" /\ work'.verdict = "none"
        /\ work'.step = work.step /\ work'.handler = "workflow"
    BY <1>1, <1>2, <1>4 DEF Handling
  <2>2. WorkTypeOK' /\ VerdictInv'
    BY <1>1, <1>4, <2>1 DEF WorkTypeOK, VerdictInv, WorkflowInv
  <2> QED
    BY <1>1, <2>1, <2>2, WorkSame
<1>5. CASE /\ work' = [work EXCEPT !.handler = "action", !.at = "resolve"]
           /\ stop' = [stop EXCEPT !.heard = ~stop.operation]
  <2>1. /\ work' \in Handling /\ work'.at = "resolve" /\ work'.verdict = "none"
        /\ work'.step = work.step /\ work'.handler = "action"
    BY <1>1, <1>2, <1>5 DEF Handling
  <2>2. stop' \in Signals
    BY <1>1, <1>5 DEF Signals
  <2>3. WorkTypeOK' /\ VerdictInv'
    BY <1>1, <2>1, <2>2 DEF WorkTypeOK, VerdictInv, WorkflowInv
  <2> QED
    BY <1>1, <1>2, <2>1, <2>3, WorkSame
<1> QED
  BY <1>3, <1>4, <1>5 DEF Enter

(* The head of the loop takes the next step.                               *)
LEMMA TakeStepStep ==
  ASSUME WorkflowInv, TakeStep
  PROVE  WorkflowInv'
<1>1. /\ work.at = "loop" /\ ~StopIn /\ work.step <= Steps
      /\ work \in Handling /\ stop \in Signals
      /\ work.verdict = "none" /\ work.handler = "workflow"
  BY DEF TakeStep, WorkflowInv, WorkTypeOK, VerdictInv, Handling
<1>2. CASE NextIs /\ Became("skipped") /\ stop' = stop
  <2>1. /\ work' \in Handling /\ work'.at = "loop" /\ work'.step = work.step + 1
        /\ work'.handler = work.handler /\ work'.verdict = work.verdict
    BY <1>1, <1>2, NextFields
  <2>2. WorkTypeOK' /\ VerdictInv'
    BY <1>1, <1>2, <2>1, BecameTyped DEF WorkTypeOK, VerdictInv
  <2> QED
    BY <1>1, <1>2, <2>2, WorkPasses DEF Passed
<1>3. CASE End("failed") /\ stop' = stop /\ tried' = tried
  <2>1. /\ work' \in Handling /\ work'.at = "end" /\ work'.verdict = "failed"
        /\ work'.step = work.step /\ work'.handler = work.handler
    BY <1>3, EndFields
  <2>2. WorkTypeOK' /\ VerdictInv'
    BY <1>1, <1>3, <2>1 DEF WorkTypeOK, VerdictInv, WorkflowInv, StopIn
  <2> QED
    BY <1>3, <2>1, <2>2, WorkSame
<1>4. CASE stop.deadline /\ End("timeout") /\ Became("timeout") /\ stop' = stop
  <2>1. /\ work' \in Handling /\ work'.at = "end" /\ work'.verdict = "timeout"
        /\ work'.step = work.step /\ work'.handler = work.handler
    BY <1>4, EndFields
  <2>2. WorkTypeOK' /\ VerdictInv'
    BY <1>1, <1>4, <2>1, BecameTyped DEF WorkTypeOK, VerdictInv, StopIn
  <2> QED
    BY <1>1, <1>4, <2>1, <2>2, WorkEnds
<1>5. CASE \E lenient \in BOOLEAN :
        /\ work' = [work EXCEPT !.at = "resolve", !.lenient = lenient]
        /\ stop' = [stop EXCEPT !.action = FALSE]
        /\ tried' = tried
  <2>1. /\ work' \in Handling /\ work'.at = "resolve" /\ work'.verdict = "none"
        /\ work'.step = work.step /\ work'.handler = "workflow"
    BY <1>1, <1>5 DEF Handling
  <2>2. stop' \in Signals
    BY <1>1, <1>5 DEF Signals
  <2>3. WorkTypeOK' /\ VerdictInv'
    BY <1>5, <2>1, <2>2 DEF WorkTypeOK, VerdictInv, WorkflowInv
  <2> QED
    BY <1>1, <1>5, <2>1, <2>3, WorkSame
<1> QED
  BY <1>2, <1>3, <1>4, <1>5 DEF TakeStep

(* The loop stops or is through, and its output is given.                  *)
LEMMA LoopSteps ==
  ASSUME WorkflowInv, LoopStops \/ LoopEnds \/ Output
  PROVE  WorkflowInv'
<1>1. work \in Handling /\ stop \in Signals /\ stop' = stop /\ tried' = tried
  BY DEF LoopStops, LoopEnds, Output, WorkflowInv, WorkTypeOK
<1>2. CASE LoopStops
  <2>1. Controlled \in {"timeout", "aborted"}
    BY DEF Controlled
  <2>2. /\ work' \in Handling /\ work'.at = "end" /\ work'.verdict = Controlled
        /\ work'.step = work.step /\ work'.handler = work.handler
    BY <1>2, <2>1, EndFields DEF LoopStops
  <2>3. WorkTypeOK' /\ VerdictInv'
    BY <1>1, <1>2, <2>2 DEF WorkTypeOK, VerdictInv, WorkflowInv, LoopStops, Controlled, StopIn
  <2> QED
    BY <1>1, <2>2, <2>3, WorkSame
<1>3. CASE LoopEnds
  <2>1. /\ work.at = "loop" /\ ~StopIn /\ work.step > Steps /\ work' = [work EXCEPT !.at = "output"]
        /\ work.verdict = "none" /\ work.handler = "workflow"
    BY <1>1, <1>3 DEF LoopEnds, WorkflowInv, VerdictInv, Handling
  <2>2. /\ work' \in Handling /\ work'.at = "output" /\ work'.verdict = work.verdict
        /\ work'.step = work.step /\ work'.handler = work.handler
    BY <1>1, <2>1 DEF Handling
  <2>3. WorkTypeOK' /\ VerdictInv'
    BY <1>1, <2>1, <2>2 DEF WorkTypeOK, VerdictInv, WorkflowInv, StopIn
  <2> QED
    BY <1>1, <2>1, <2>2, <2>3, WorkSame
<1>4. CASE Output
  <2>1. PICK verdict \in {"ok", "failed"} :
          /\ work' \in Handling /\ work'.at = "end" /\ work'.verdict = verdict
          /\ work'.step = work.step /\ work'.handler = work.handler
    BY <1>4, EndFields DEF Output
  <2>2. WorkTypeOK' /\ VerdictInv'
    BY <1>1, <1>4, <2>1 DEF WorkTypeOK, VerdictInv, StepsInv, WorkflowInv, Output
  <2> QED
    BY <1>1, <2>1, <2>2, WorkSame
<1> QED
  BY <1>2, <1>3, <1>4

(* An action is prepared, runs and comes to its end.                       *)
LEMMA ActionSteps ==
  ASSUME WorkflowInv, Resolve \/ ActionEnds
  PROVE  WorkflowInv'
<1>1. /\ work \in Handling /\ stop' = stop /\ work.at \in {"resolve", "runs"}
      /\ work.verdict = "none" /\ work.handler # "none" /\ work.step <= Steps
  BY DEF Resolve, ActionEnds, WorkflowInv, WorkTypeOK, VerdictInv, StepsInv, Handling
<1>2. PICK at \in {"back", "runs"} :
        /\ work' \in Handling /\ work'.at = at /\ work'.verdict = work.verdict
        /\ work'.step = work.step /\ work'.handler = work.handler
        /\ tried' = tried \/ Became("runs")
  <2>1. CASE work' = [work EXCEPT !.at = "back", !.good = FALSE] /\ tried' = tried
    BY <1>1, <2>1 DEF Handling
  <2>2. CASE work' = [work EXCEPT !.at = "runs"] /\ Became("runs")
    BY <1>1, <2>2 DEF Handling
  <2>3. ASSUME NEW good \in BOOLEAN, work' = [work EXCEPT !.at = "back", !.good = good], tried' = tried
        PROVE  /\ work' \in Handling /\ work'.at = "back" /\ work'.verdict = work.verdict
               /\ work'.step = work.step /\ work'.handler = work.handler
    BY <1>1, <2>3 DEF Handling
  <2>4. CASE ActionEnds
    <3>1. PICK p \in [exit : BOOLEAN, error : BOOLEAN, missing : BOOLEAN, truncated : BOOLEAN, json : BOOLEAN],
               collected \in BOOLEAN :
            work' = [work EXCEPT !.at = "back", !.good = Parses(p) /\ collected] /\ tried' = tried
      BY <2>4 DEF ActionEnds
    <3>2. PICK good \in BOOLEAN : good = (Parses(p) /\ collected)
      OBVIOUS
    <3> QED
      BY <2>3, <3>1, <3>2
  <2> QED
    BY <2>1, <2>2, <2>4 DEF Resolve
<1>3. WorkTypeOK'
  BY <1>1, <1>2, BecameTyped DEF WorkTypeOK, WorkflowInv
<1>4. VerdictInv'
  BY <1>1, <1>2 DEF VerdictInv, WorkflowInv
<1> QED
  BY <1>1, <1>2, <1>3, <1>4, WorkSame, WorkEnds

(* executeAction() returns to the workflow, or to execute().               *)
LEMMA ReturnStep ==
  ASSUME WorkflowInv, ActionReturns
  PROVE  WorkflowInv'
<1>1. /\ work \in Handling /\ stop \in Signals /\ stop' = stop /\ work.at = "back"
      /\ work.verdict = "none" /\ work.handler # "none" /\ work.step <= Steps
  BY DEF ActionReturns, WorkflowInv, WorkTypeOK, VerdictInv, StepsInv, Handling
\* Whatever ends the handler here is a verdict about the signals that have fired.
<1>2. ASSUME NEW verdict \in {"failed", "timeout", "aborted"}, End(verdict),
             verdict = "aborted" => stop.operation,
             verdict # "aborted" => ~stop.operation,
             verdict = "timeout" => stop.workflow \/ stop.action \/ stop.deadline,
             NEW what \in {"failed", "timeout", "stopped", "allowed"}, Became(what)
      PROVE  WorkflowInv'
  <2>1. /\ work' \in Handling /\ work'.at = "end" /\ work'.verdict = verdict
        /\ work'.step = work.step /\ work'.handler = work.handler
    BY <1>2, EndFields
  <2>2. WorkTypeOK'
    BY <1>1, <1>2, <2>1, BecameTyped DEF WorkTypeOK
  <2>3. VerdictInv'
    BY <1>1, <1>2, <2>1 DEF VerdictInv
  <2> QED
    BY <1>1, <1>2, <2>1, <2>2, <2>3, WorkEnds
\* And what goes on is a step that has passed.
<1>3. ASSUME NextIs, NEW what \in {"ok", "allowed"}, Became(what), work.handler = "workflow"
      PROVE  WorkflowInv'
  <2>1. /\ work' \in Handling /\ work'.at = "loop" /\ work'.step = work.step + 1
        /\ work'.handler = work.handler /\ work'.verdict = work.verdict
    BY <1>1, <1>3, NextFields
  <2>2. WorkTypeOK' /\ VerdictInv'
    BY <1>1, <1>3, <2>1, BecameTyped DEF WorkTypeOK, VerdictInv
  <2> QED
    BY <1>1, <1>3, <2>2, WorkPasses DEF Passed
<1>4. CASE StopIn /\ End(Controlled) /\ Became("stopped")
  <2>1. PICK verdict \in {"timeout", "aborted"} : verdict = Controlled
    BY DEF Controlled
  <2>2. /\ verdict = "aborted" <=> stop.operation
        /\ verdict = "timeout" => stop.workflow
    BY <1>4, <2>1 DEF Controlled, StopIn
  <2> QED
    BY <1>2, <1>4, <2>1, <2>2
<1>5. CASE /\ ~StopIn /\ work.handler = "action"
           /\ IF work.good /\ ~stop.action
                THEN work' = [work EXCEPT !.at = "output"] /\ Became("ok")
                ELSE End(IF stop.action THEN "timeout" ELSE "failed") /\ Became("failed")
  <2>1. CASE work.good /\ ~stop.action
    <3>1. work' = [work EXCEPT !.at = "output"] /\ Became("ok")
      BY <1>5, <2>1
    <3>2. /\ work' \in Handling /\ work'.at = "output" /\ work'.verdict = work.verdict
          /\ work'.step = work.step /\ work'.handler = work.handler
      BY <1>1, <3>1 DEF Handling
    <3>3. WorkTypeOK' /\ VerdictInv'
      BY <1>1, <1>5, <3>1, <3>2, BecameTyped DEF WorkTypeOK, VerdictInv, StopIn
    <3> QED
      BY <1>1, <1>5, <3>1, <3>2, <3>3, WorkEnds
  <2>2. CASE ~(work.good /\ ~stop.action)
    <3>1. CASE stop.action
      BY <1>2, <1>5, <2>2, <3>1 DEF StopIn
    <3>2. CASE ~stop.action
      BY <1>2, <1>5, <2>2, <3>2 DEF StopIn
    <3> QED
      BY <3>1, <3>2
  <2> QED
    BY <2>1, <2>2
<1>6. CASE ~StopIn /\ work.handler = "workflow" /\ work.good /\ ~stop.action /\ NextIs /\ Became("ok")
  BY <1>3, <1>6
<1>7. CASE ~StopIn /\ stop.action /\ End("timeout") /\ Became("timeout")
  BY <1>2, <1>7 DEF StopIn
<1>8. CASE /\ ~StopIn /\ work.handler = "workflow"
           /\ IF stop.action THEN ~IsControlFlow(stop.action) ELSE ~work.good
           /\ IF work.lenient THEN NextIs ELSE End("failed")
           /\ Became(IF stop.action THEN "timeout" ELSE IF work.lenient THEN "allowed" ELSE "failed")
  <2>1. ~stop.action
    BY <1>8 DEF IsControlFlow
  <2>2. CASE work.lenient
    BY <1>3, <1>8, <2>1, <2>2
  <2>3. CASE ~work.lenient
    BY <1>2, <1>8, <2>1, <2>3 DEF StopIn
  <2> QED
    BY <2>2, <2>3
<1> QED
  BY <1>4, <1>5, <1>6, <1>7, <1>8 DEF ActionReturns

\* Every step keeps the invariant.
LEMMA WorkNextInv == WorkflowInv /\ [WorkNext]_workVars => WorkflowInv'
<1> SUFFICES ASSUME WorkflowInv, [WorkNext]_workVars
             PROVE  WorkflowInv'
  OBVIOUS
<1>1. CASE UNCHANGED workVars
  BY <1>1 DEF workVars, WorkflowInv, WorkTypeOK, StepsInv, VerdictInv
<1>2. CASE WorkNext
  BY <1>2, EnterStep, TakeStepStep, LoopSteps, ActionSteps, ReturnStep, SignalSteps DEF WorkNext
<1> QED
  BY <1>1, <1>2

(* The inductive invariant holds in every behaviour.                       *)
THEOREM WorkInvariant == WorkSpec => []WorkflowInv
<1> QED
  BY WorkInitInv, WorkNextInv, PTL DEF WorkSpec

(* The handler, the signals and the outcomes are what the code's types say. *)
THEOREM WorkTypes == WorkSpec => []WorkTypeOK
<1>1. WorkflowInv => WorkTypeOK
  BY DEF WorkflowInv
<1> QED
  BY <1>1, WorkInvariant, PTL

(* The first thing that must stop a workflow stops it for good, and the    *)
(* verdict names it: for any number of steps (workflow-executor.ts:141-170). *)
THEOREM WorkflowsStop == WorkSpec => []StopsForGood
<1>1. WorkflowInv => StopsForGood
  <2> SUFFICES ASSUME WorkflowInv
               PROVE  StopsForGood
    OBVIOUS
  <2>1. ASSUME NEW i \in 1 .. Steps, NEW j \in 1 .. Steps, i < j, tried[j] # "none"
        PROVE  tried[i] \in Passed
    <3>1. work.step \in 1 .. Steps + 1 /\ ~(j > work.step)
      BY <2>1 DEF WorkflowInv, StepsInv, WorkTypeOK, Handling
    <3>2. i < work.step
      BY <2>1, <3>1, StepsAssumption
    <3> QED
      BY <3>2 DEF WorkflowInv, StepsInv
  <2>2. ASSUME work.verdict = "ok", NEW i \in 1 .. Steps, work.handler = "workflow"
        PROVE  tried[i] \in Passed
    <3>1. work.step \in 1 .. Steps + 1 /\ work.step > Steps
      BY <2>2 DEF WorkflowInv, VerdictInv, WorkTypeOK, Handling
    <3>2. i < work.step
      BY <3>1, StepsAssumption
    <3> QED
      BY <3>2 DEF WorkflowInv, StepsInv
  <2>3. /\ work.verdict = "aborted" => stop.operation
        /\ work.verdict = "timeout" => stop.workflow \/ stop.action \/ stop.deadline
    BY DEF WorkflowInv, VerdictInv
  <2>4. ASSUME work.at \in {"output", "end"}, work.handler # "none", stop.operation
        PROVE  work.verdict = "aborted"
    BY <2>4 DEF WorkflowInv, VerdictInv, WorkTypeOK, Handling
  <2> QED
    BY <2>1, <2>2, <2>3, <2>4 DEF StopsForGood
<1> QED
  BY <1>1, WorkInvariant, PTL

-----------------------------------------------------------------------------
\* No other member names the device of this one.
Sole(m) == \A k \in Member \ {m} : Physical[k] # Physical[m]

\* What the preflight found, by the time the members run.
PreflightInv ==
  /\ \A m \in Member : found[m] = "not-required" => ~ApprovalRequired
  /\ command.at = "preflight" => \A m \in Member : found[m] # "invalid"
  /\ command.at = "running" => \A m \in Member :
       /\ found[m] \in {"none", "ready", "not-required"}
       /\ ApprovalRequired => found[m] = "ready"

\* Members run only then, and one after the other when they are not parallel.
TurnInv ==
  /\ command.at \in {"preflight", "thrown"} => \A m \in Member : op[m] = "none"
  /\ SerialOrder

\* What was ready is ready until its member runs, or somebody else takes it.
ReadyInv == \A m \in Member :
  found[m] = "ready" /\ op[m] = "none" /\ ~lapsed /\ Sole(m) => approval[Physical[m]].approved > 0

SystemInv == SystemTypeOK /\ PreflightInv /\ TurnInv /\ ReadyInv

\* What the type invariant says of one device.
Counts == [pending : Nat, approved : Nat, requested : Nat]

\* A new command, or none: nothing was found and no member has run.
LEMMA CommandSteps ==
  ASSUME SystemInv, GiveCommand \/ Unavailable
  PROVE  SystemInv'
<1>1. CASE GiveCommand
  <2>1. PICK agent, dry, parallel, needs, managed \in BOOLEAN :
          /\ command.at \in {"idle", "ended"} /\ command.given < MaxCommands
          /\ command' = [at |-> IF agent THEN "preflight" ELSE "running", given |-> command.given + 1,
                         agent |-> agent, dry |-> dry, parallel |-> parallel, needs |-> needs,
                         managed |-> managed]
          /\ found' = [m \in Member |-> "none"]
          /\ op' = [m \in Member |-> "none"]
          /\ UNCHANGED <<approval, lapsed>>
    BY <1>1, Zenon DEF GiveCommand
  <2>2. /\ found' = [m \in Member |-> "none"] /\ op' = [m \in Member |-> "none"]
        /\ approval' = approval /\ lapsed' = lapsed
    BY <2>1
  <2>3. command.given + 1 \in Nat
    BY DEF SystemInv, SystemTypeOK, Invocation
  <2>4. command' \in Invocation /\ command'.at \in {"preflight", "running"}
        /\ (command'.at = "running" => ~command'.agent)
    BY <2>1, <2>3 DEF Invocation
  <2>5. SystemTypeOK'
    BY <2>2, <2>4 DEF SystemInv, SystemTypeOK, MemberEnded
  <2>6. PreflightInv'
    BY <2>2, <2>4 DEF PreflightInv, ApprovalRequired
  <2>7. TurnInv'
    BY <2>2 DEF TurnInv, SerialOrder
  <2>8. ReadyInv'
    BY <2>2 DEF ReadyInv
  <2> QED
    BY <2>5, <2>6, <2>7, <2>8 DEF SystemInv
<1>2. CASE Unavailable
  <2>1. /\ command.at = "idle" /\ command' = [command EXCEPT !.at = "ended"]
        /\ UNCHANGED <<found, op, approval, lapsed>>
    BY <1>2 DEF Unavailable
  <2>2. /\ command' \in Invocation /\ command'.at = "ended" /\ command'.agent = command.agent
        /\ command'.needs = command.needs /\ command'.parallel = command.parallel
    BY <2>1 DEF SystemInv, SystemTypeOK, Invocation
  <2>3. SystemTypeOK' /\ PreflightInv' /\ ReadyInv'
    BY <2>1, <2>2 DEF SystemInv, SystemTypeOK, PreflightInv, ReadyInv, ApprovalRequired, Sole
  <2>4. TurnInv'
    BY <2>1, <2>2 DEF SystemInv, TurnInv, SerialOrder
  <2> QED
    BY <2>3, <2>4 DEF SystemInv
<1> QED
  BY <1>1, <1>2

\* Asking touches the counts of pending approvals only.
LEMMA AsksTyped ==
  ASSUME SystemInv, NEW d \in DeviceOf, Asks(d)
  PROVE  /\ approval' \in [DeviceOf -> Counts]
         /\ \A e \in DeviceOf : /\ approval'[e].approved = approval[e].approved
                                /\ e # d => approval'[e] = approval[e]
<1>1. approval \in [DeviceOf -> Counts] /\ approval[d] \in Counts
  BY DEF SystemInv, SystemTypeOK, Counts
<1>2. PICK p \in Nat, r \in Nat : p = approval[d].pending + 1 /\ r = approval[d].requested + 1
  BY <1>1 DEF Counts
<1> DEFINE a == [approval[d] EXCEPT !.pending = p, !.requested = r]
<1>3. a \in Counts /\ a.approved = approval[d].approved
  BY <1>1 DEF Counts
<1>4. approval' = [approval EXCEPT ![d] = a]
  BY <1>1, <1>2 DEF Asks
<1> HIDE DEF a
<1> QED
  BY <1>1, <1>3, <1>4

\* The preflight finds what there is for one member.
LEMMA PreflightStep ==
  ASSUME SystemInv, NEW m \in Member, PreflightMember(m)
  PROVE  SystemInv'
<1>1. /\ command.at \in {"preflight", "thrown"} /\ found[m] = "none" /\ op' = op /\ lapsed' = lapsed
      /\ \A k \in Member : op[k] = "none"
  BY DEF PreflightMember, SystemInv, TurnInv
<1>2. PICK what \in {"not-required", "ready", "pending", "invalid"} :
        /\ found' = [found EXCEPT ![m] = what]
        /\ what = "not-required" => ~ApprovalRequired
        /\ what = "ready" => approval[Physical[m]].approved > 0
        /\ IF what = "invalid" THEN command' = [command EXCEPT !.at = "thrown"] ELSE command' = command
        /\ approval' = approval \/ Asks(Physical[m])
  BY DEF PreflightMember
<1>3. Physical[m] \in DeviceOf
  BY DEF DeviceOf
<1>4. /\ approval' \in [DeviceOf -> Counts]
      /\ \A e \in DeviceOf : approval'[e].approved = approval[e].approved
  BY <1>2, <1>3, AsksTyped DEF SystemInv, SystemTypeOK, Counts
<1>5. /\ command' \in Invocation /\ command'.agent = command.agent /\ command'.needs = command.needs
      /\ command'.parallel = command.parallel
      /\ command'.at = IF what = "invalid" THEN "thrown" ELSE command.at
  <2>1. CASE what = "invalid"
    BY <1>2, <2>1 DEF SystemInv, SystemTypeOK, Invocation
  <2>2. CASE what # "invalid"
    BY <1>2, <2>2 DEF SystemInv, SystemTypeOK
  <2> QED
    BY <2>1, <2>2
<1>6. SystemTypeOK'
  BY <1>1, <1>2, <1>4, <1>5 DEF SystemInv, SystemTypeOK, Counts
<1>7. PreflightInv'
  BY <1>1, <1>2, <1>5 DEF SystemInv, SystemTypeOK, PreflightInv, ApprovalRequired
<1>8. TurnInv'
  BY <1>1 DEF TurnInv, SerialOrder
<1>9. ReadyInv'
  BY <1>1, <1>2, <1>4 DEF SystemInv, SystemTypeOK, ReadyInv, Sole, DeviceOf
<1> QED
  BY <1>6, <1>7, <1>8, <1>9 DEF SystemInv

\* The preflight is over, or the whole command is.
LEMMA CommandGoesOn ==
  ASSUME SystemInv, PreflightEnds \/ SystemEnds
  PROVE  SystemInv'
<1>1. /\ UNCHANGED <<found, op, approval, lapsed>> /\ command.at \in {"preflight", "running"}
  BY DEF PreflightEnds, SystemEnds
<1>2. PICK at \in {"running", "ended"} :
        /\ command' = [command EXCEPT !.at = at]
        /\ at = "running" => /\ command.at = "preflight"
                             /\ \A m \in Member : found[m] \notin {"none", "pending"}
  BY DEF PreflightEnds, SystemEnds
<1>3. /\ command' \in Invocation /\ command'.at = at /\ command'.agent = command.agent
      /\ command'.needs = command.needs /\ command'.parallel = command.parallel
  BY <1>2 DEF SystemInv, SystemTypeOK, Invocation
<1>4. SystemTypeOK' /\ ReadyInv'
  BY <1>1, <1>3 DEF SystemInv, SystemTypeOK, ReadyInv, Sole
<1>5. PreflightInv'
  BY <1>1, <1>2, <1>3 DEF SystemInv, SystemTypeOK, PreflightInv, ApprovalRequired
<1>6. TurnInv'
  BY <1>1, <1>3 DEF SystemInv, TurnInv, SerialOrder
<1> QED
  BY <1>4, <1>5, <1>6 DEF SystemInv

\* One member's operation goes on: the others' turns are as they were.
LEMMA MemberGoesOn ==
  ASSUME SystemInv, NEW m \in Member, NEW s \in {"found", "effect"} \cup MemberEnded, Becomes(m, s),
         UNCHANGED <<command, found, lapsed>>,
         op[m] \in {"found", "effect"} \/ (op[m] = "none" /\ Turn(m)),
         approval' \in [DeviceOf -> Counts],
         \A d \in DeviceOf : d # Physical[m] => approval'[d].approved >= approval[d].approved
  PROVE  SystemInv'
<1>1. /\ op' = [op EXCEPT ![m] = s] /\ s # "none"
      /\ \A k \in Member : k # m => op'[k] = op[k]
      /\ op'[m] = s
  BY DEF Becomes, SystemInv, SystemTypeOK, MemberEnded
<1>2. SystemTypeOK'
  BY <1>1 DEF SystemInv, SystemTypeOK, Counts
<1>3. PreflightInv'
  BY DEF SystemInv, PreflightInv, ApprovalRequired
<1>4. TurnInv'
  <2>1. command.at \notin {"preflight", "thrown"}
    BY DEF SystemInv, TurnInv, Turn
  <2>2. \A j \in Member : found[j] \in {"none", "ready", "not-required"}
    BY DEF SystemInv, TurnInv, SerialOrder, Turn, PreflightInv
  <2>3. ASSUME NEW n \in Member, NEW k \in Member, op'[n] # "none", k < n, ~command.parallel
        PROVE  op'[k] = "ok"
    <3>1. CASE n = m
      <4>1. k # m /\ op[k] = "ok"
        BY <2>3, <3>1, MemberAssumption DEF SystemInv, TurnInv, SerialOrder, Turn
      <4> QED
        BY <1>1, <4>1
    <3>2. CASE n # m
      <4>1. op[n] # "none" /\ op[k] = "ok"
        BY <1>1, <2>3, <3>2 DEF SystemInv, TurnInv, SerialOrder
      <4>2. k # m
        BY <4>1 DEF Turn
      <4> QED
        BY <1>1, <4>1, <4>2
    <3> QED
      BY <3>1, <3>2
  <2> QED
    BY <2>1, <2>2, <2>3 DEF TurnInv, SerialOrder
<1>5. ReadyInv'
  <2> SUFFICES ASSUME NEW k \in Member, found[k] = "ready", op'[k] = "none", ~lapsed, Sole(k)
               PROVE  approval'[Physical[k]].approved > 0
    BY DEF ReadyInv, Sole
  <2>1. k # m /\ op[k] = "none"
    BY <1>1
  <2>2. approval[Physical[k]].approved > 0 /\ Physical[k] \in DeviceOf /\ Physical[k] # Physical[m]
    BY <2>1 DEF SystemInv, ReadyInv, DeviceOf, Sole
  <2>3. approval[Physical[k]].approved \in Nat /\ approval'[Physical[k]].approved \in Nat
    BY <2>2 DEF SystemInv, SystemTypeOK, Counts
  <2> QED
    BY <2>2, <2>3
<1> QED
  BY <1>2, <1>3, <1>4, <1>5 DEF SystemInv

\* One device's approvals become those of q.
LEMMA ApprovalBecomes ==
  ASSUME SystemInv, NEW d \in DeviceOf, NEW q \in Counts, approval' = [approval EXCEPT ![d] = q]
  PROVE  /\ approval' \in [DeviceOf -> Counts]
         /\ approval'[d] = q
         /\ \A e \in DeviceOf : e # d => approval'[e] = approval[e]
<1>1. approval \in [DeviceOf -> Counts]
  BY DEF SystemInv, SystemTypeOK, Counts
<1> QED
  BY <1>1

\* A member enters: it is refused, plans, asks, or finds its approval.
LEMMA MemberEnters ==
  ASSUME SystemInv, NEW m \in Member, EnterMember(m)
  PROVE  SystemInv'
<1>1. /\ Turn(m) /\ op[m] = "none" /\ UNCHANGED <<command, found, lapsed>>
  BY DEF EnterMember
<1>2. PICK s \in {"refused", "ok", "effect", "found"} :
        Becomes(m, s) /\ (approval' = approval \/ Asks(Physical[m]))
  BY DEF EnterMember
<1>3. Physical[m] \in DeviceOf
  BY DEF DeviceOf
<1>4. /\ approval' \in [DeviceOf -> Counts]
      /\ \A d \in DeviceOf : d # Physical[m] => approval'[d] = approval[d]
  BY <1>2, <1>3, AsksTyped DEF SystemInv, SystemTypeOK, Counts
<1>5. \A d \in DeviceOf : d # Physical[m] => approval'[d].approved >= approval[d].approved
  BY <1>4 DEF Counts
<1>6. s \in {"found", "effect"} \cup MemberEnded
  BY DEF MemberEnded
<1> QED
  BY <1>1, <1>2, <1>4, <1>5, <1>6, MemberGoesOn

\* A claim takes an approval of the member's own device, or comes too late.
LEMMA ClaimStep ==
  ASSUME SystemInv, NEW m \in Member, Claim(m)
  PROVE  SystemInv'
<1>1. op[m] = "found" /\ UNCHANGED <<command, found, lapsed>>
  BY DEF Claim
<1>2. Physical[m] \in DeviceOf
  BY DEF DeviceOf
<1>3. approval[Physical[m]] \in Counts
  BY <1>2 DEF SystemInv, SystemTypeOK, Counts
<1>4. \E s \in {"effect", "failed"} :
        /\ Becomes(m, s)
        /\ approval' \in [DeviceOf -> Counts]
        /\ \A d \in DeviceOf : d # Physical[m] => approval'[d] = approval[d]
  <2>1. CASE approval[Physical[m]].approved > 0
    <3>1. PICK n \in Nat : n = approval[Physical[m]].approved - 1
      BY <1>3, <2>1 DEF Counts
    <3> DEFINE q == [approval[Physical[m]] EXCEPT !.approved = n]
    <3>2. q \in Counts
      BY <1>3 DEF Counts
    <3>3. approval' = [approval EXCEPT ![Physical[m]] = q] /\ Becomes(m, "effect")
      BY <2>1, <3>1 DEF Claim
    <3> HIDE DEF q
    <3> QED
      BY <1>2, <3>2, <3>3, ApprovalBecomes
  <2>2. CASE ~(approval[Physical[m]].approved > 0)
    BY <2>2 DEF Claim, SystemInv, SystemTypeOK, Counts
  <2> QED
    BY <2>1, <2>2
<1>5. \A d \in DeviceOf : d # Physical[m] => approval'[d].approved >= approval[d].approved
  BY <1>4 DEF Counts
<1> QED
  BY <1>1, <1>4, <1>5, MemberGoesOn DEF MemberEnded

\* The capability ends, and may give its approval back.
LEMMA FinishStep ==
  ASSUME SystemInv, NEW m \in Member, MemberFinishes(m)
  PROVE  SystemInv'
<1>1. op[m] = "effect" /\ UNCHANGED <<command, found, lapsed>>
  BY DEF MemberFinishes
<1>2. Physical[m] \in DeviceOf
  BY DEF DeviceOf
<1>3. approval[Physical[m]] \in Counts
  BY <1>2 DEF SystemInv, SystemTypeOK, Counts
<1>4. \E s \in {"ok", "failed"} :
        /\ Becomes(m, s)
        /\ approval' \in [DeviceOf -> Counts]
        /\ \A d \in DeviceOf : d # Physical[m] => approval'[d] = approval[d]
  <2>1. CASE approval' = approval
    BY <2>1 DEF MemberFinishes, SystemInv, SystemTypeOK, Counts
  <2>2. CASE approval' # approval
    <3>1. PICK n \in Nat : n = approval[Physical[m]].approved + 1
      BY <1>3 DEF Counts
    <3> DEFINE q == [approval[Physical[m]] EXCEPT !.approved = n]
    <3>2. q \in Counts
      BY <1>3 DEF Counts
    <3>3. approval' = [approval EXCEPT ![Physical[m]] = q] /\ Becomes(m, "failed")
      BY <2>2, <3>1 DEF MemberFinishes
    <3> HIDE DEF q
    <3> QED
      BY <1>2, <3>2, <3>3, ApprovalBecomes
  <2> QED
    BY <2>1, <2>2
<1>5. \A d \in DeviceOf : d # Physical[m] => approval'[d].approved >= approval[d].approved
  BY <1>4 DEF Counts
<1> QED
  BY <1>1, <1>4, <1>5, MemberGoesOn DEF MemberEnded

\* A person approves; another process uses an approval up, or it expires.
LEMMA OthersStep ==
  ASSUME SystemInv, NEW d \in DeviceOf, Approve(d) \/ Lapse(d)
  PROVE  SystemInv'
<1>1. UNCHANGED <<command, found, op>>
  BY DEF Approve, Lapse
<1>2. approval[d] \in Counts
  BY DEF SystemInv, SystemTypeOK, Counts
<1>3. /\ approval' \in [DeviceOf -> Counts]
      /\ lapsed' \in BOOLEAN
      /\ ~lapsed' => ~lapsed /\ \A e \in DeviceOf : approval[e].approved > 0 => approval'[e].approved > 0
  <2>1. CASE Approve(d)
    <3>1. PICK p \in Nat, n \in Nat : p = approval[d].pending - 1 /\ n = approval[d].approved + 1
      BY <1>2, <2>1 DEF Approve, Counts
    <3> DEFINE q == [approval[d] EXCEPT !.pending = p, !.approved = n]
    <3>2. q \in Counts /\ q.approved = n
      BY <1>2 DEF Counts
    <3>3. approval' = [approval EXCEPT ![d] = q] /\ lapsed' = lapsed
      BY <2>1, <3>1 DEF Approve
    <3>4. n > 0
      BY <1>2, <3>1 DEF Counts
    <3> HIDE DEF q
    <3>5. /\ approval' \in [DeviceOf -> Counts] /\ approval'[d].approved = n
          /\ \A e \in DeviceOf : e # d => approval'[e] = approval[e]
      BY <3>2, <3>3, ApprovalBecomes
    <3> QED
      BY <3>3, <3>4, <3>5 DEF SystemInv, SystemTypeOK
  <2>2. CASE Lapse(d)
    <3>1. PICK n \in Nat : n = approval[d].approved - 1
      BY <1>2, <2>2 DEF Lapse, Counts
    <3> DEFINE q == [approval[d] EXCEPT !.approved = n]
    <3>2. q \in Counts
      BY <1>2 DEF Counts
    <3>3. approval' = [approval EXCEPT ![d] = q] /\ lapsed' = TRUE
      BY <2>2, <3>1 DEF Lapse
    <3> HIDE DEF q
    <3> QED
      BY <3>2, <3>3, ApprovalBecomes
  <2> QED
    BY <2>1, <2>2
<1>4. SystemTypeOK'
  BY <1>1, <1>3 DEF SystemInv, SystemTypeOK, Counts
<1>5. PreflightInv' /\ TurnInv'
  BY <1>1 DEF SystemInv, PreflightInv, TurnInv, SerialOrder, ApprovalRequired
<1>6. ReadyInv'
  BY <1>1, <1>3 DEF SystemInv, ReadyInv, Sole, DeviceOf
<1> QED
  BY <1>4, <1>5, <1>6 DEF SystemInv

LEMMA SystemInitInv == SystemInit => SystemInv
<1> SUFFICES ASSUME SystemInit  PROVE SystemInv
  OBVIOUS
<1>1. SystemTypeOK
  BY DEF SystemInit, SystemTypeOK, Invocation
<1>2. PreflightInv /\ TurnInv /\ ReadyInv
  BY DEF SystemInit, PreflightInv, TurnInv, SerialOrder, ReadyInv
<1> QED
  BY <1>1, <1>2 DEF SystemInv

LEMMA SystemNextInv == SystemInv /\ [SystemNext]_systemVars => SystemInv'
<1> SUFFICES ASSUME SystemInv, [SystemNext]_systemVars  PROVE SystemInv'
  OBVIOUS
<1>1. CASE GiveCommand \/ Unavailable
  BY <1>1, CommandSteps
<1>2. CASE PreflightEnds \/ SystemEnds
  BY <1>2, CommandGoesOn
<1>3. ASSUME NEW m \in Member, PreflightMember(m) \/ EnterMember(m) \/ Claim(m) \/ MemberFinishes(m)
      PROVE  SystemInv'
  BY <1>3, PreflightStep, MemberEnters, ClaimStep, FinishStep
<1>4. ASSUME NEW d \in DeviceOf, Approve(d) \/ Lapse(d)
      PROVE  SystemInv'
  BY <1>4, OthersStep
<1>5. CASE UNCHANGED systemVars
  BY <1>5 DEF systemVars, SystemInv, SystemTypeOK, PreflightInv, TurnInv, SerialOrder, ReadyInv,
     ApprovalRequired, Sole
<1> QED
  BY <1>1, <1>2, <1>3, <1>4, <1>5 DEF SystemNext

(* The invariant behind the properties of a command on a system.           *)
THEOREM SystemInvariant == SystemSpec => []SystemInv
<1>1. SystemInit => SystemInv
  BY SystemInitInv
<1>2. SystemInv /\ [SystemNext]_systemVars => SystemInv'
  BY SystemNextInv
<1> QED
  BY <1>1, <1>2, PTL DEF SystemSpec

(* The variables of SystemOperation have their types.                      *)
THEOREM SystemTypes == SystemSpec => []SystemTypeOK
<1>1. SystemInv => SystemTypeOK
  BY DEF SystemInv
<1> QED
  BY <1>1, SystemInvariant, PTL

(* Members of a serial system run in order, none after a failure, and none *)
(* while one of them waits for an approval (executeSystemCapability).      *)
THEOREM MembersInOrder == SystemSpec => []SerialOrder
<1>1. SystemInv => SerialOrder
  BY DEF SystemInv, TurnInv
<1> QED
  BY <1>1, SystemInvariant, PTL

\* While the members run, only one that enters asks for an approval, and only
\* when the one that the preflight found is gone.
LEMMA AsksOnlyWhenLapsed ==
  ASSUME SystemInv, SystemNext, command.at = "running", NEW m \in Member,
         approval'[Physical[m]].requested # approval[Physical[m]].requested
  PROVE  lapsed \/ \E k \in Member \ {m} : Physical[k] = Physical[m]
<1>1. Physical[m] \in DeviceOf
  BY DEF DeviceOf
<1>2. ASSUME NEW d \in DeviceOf, NEW e \in DeviceOf, NEW n, approval' = [approval EXCEPT ![d].approved = n]
      PROVE  approval'[e].requested = approval[e].requested
  BY <1>2 DEF SystemInv, SystemTypeOK
<1>3. PICK k \in Member : EnterMember(k) /\ Asks(Physical[k])
  <2>1. ~(GiveCommand \/ Unavailable \/ PreflightEnds \/ SystemEnds)
    BY DEF GiveCommand, Unavailable, PreflightEnds, SystemEnds
  <2>2. ASSUME NEW d \in DeviceOf, Approve(d) \/ Lapse(d)
        PROVE  approval'[Physical[m]].requested = approval[Physical[m]].requested
    BY <1>1, <2>2 DEF Approve, Lapse, SystemInv, SystemTypeOK
  <2>3. ASSUME NEW k \in Member, Claim(k) \/ MemberFinishes(k)
        PROVE  approval'[Physical[m]].requested = approval[Physical[m]].requested
    <3>1. Physical[k] \in DeviceOf
      BY DEF DeviceOf
    <3> QED
      BY <1>1, <2>3, <3>1 DEF Claim, MemberFinishes, SystemInv, SystemTypeOK
  <2>4. ASSUME NEW k \in Member
        PROVE  ~PreflightMember(k)
    BY DEF PreflightMember
  <2>5. PICK k \in Member : EnterMember(k)
    BY <2>1, <2>2, <2>3, <2>4 DEF SystemNext
  <2> QED
    BY <2>5 DEF EnterMember
<1>4. /\ Turn(k) /\ op[k] = "none" /\ ApprovalRequired /\ ~(approval[Physical[k]].approved > 0)
  <2>1. Physical[k] \in DeviceOf
    BY DEF DeviceOf
  <2>2. approval[Physical[k]] \in [pending : Nat, approved : Nat, requested : Nat]
    BY <2>1 DEF SystemInv, SystemTypeOK
  <2>3. approval' # approval
    BY <1>3
  <2> QED
    BY <1>3, <2>2, <2>3 DEF EnterMember
<1>5. Physical[k] = Physical[m]
  <2>1. Physical[k] \in DeviceOf
    BY DEF DeviceOf
  <2> QED
    BY <1>1, <1>3, <2>1, AsksTyped
<1>6. CASE k = m
  <2>1. found[m] = "ready"
    BY <1>4 DEF SystemInv, PreflightInv
  <2>2. lapsed \/ ~Sole(m)
    BY <1>4, <1>6, <2>1 DEF SystemInv, ReadyInv
  <2> QED
    BY <2>2 DEF Sole
<1>7. CASE k # m
  BY <1>5, <1>7
<1> QED
  BY <1>6, <1>7

(* A member runs only when its turn has come; and after a preflight that   *)
(* found everything ready, it asks for an approval only when one lapsed or *)
(* another member names the same device.                                   *)
THEOREM TurnsAreKept == SystemSpec => TurnsAndApprovals
<1> DEFINE Kept == /\ op' # op => SerialOrder'
                   /\ approval' # approval /\ command.at = "running" => \A m \in Member :
                        approval'[Physical[m]].requested # approval[Physical[m]].requested
                          => lapsed \/ \E k \in Member \ {m} : Physical[k] = Physical[m]
<1>1. SystemInv /\ SystemInv' /\ [SystemNext]_systemVars => [Kept]_systemVars
  <2> SUFFICES ASSUME SystemInv, SystemInv', SystemNext  PROVE Kept
    OBVIOUS
  <2>1. SerialOrder'
    BY DEF SystemInv, TurnInv
  <2>2. ASSUME command.at = "running", NEW m \in Member,
               approval'[Physical[m]].requested # approval[Physical[m]].requested
        PROVE  lapsed \/ \E k \in Member \ {m} : Physical[k] = Physical[m]
    BY <2>2, AsksOnlyWhenLapsed
  <2> QED
    BY <2>1, <2>2
<1>2. [Kept]_systemVars => [/\ op' # op => SerialOrder'
                            /\ approval' # approval /\ command.at = "running" => \A m \in Member :
                                 approval'[Physical[m]].requested # approval[Physical[m]].requested
                                   => lapsed \/ \E k \in Member \ {m} : Physical[k] = Physical[m]]_systemVars
  OBVIOUS
<1> QED
  BY <1>1, <1>2, SystemInvariant, PTL DEF SystemSpec, TurnsAndApprovals

-----------------------------------------------------------------------------
\* The lease in force is the last one given.
CurrentInv == lease = 0 \/ lease = granted

\* A client knows nothing of the chunks to come.
ClientInv == \A c \in Client, n \in Chunk :
  outcome[c][n] # "none" => n <= client[c].chunk

\* A write was sent: its client has got to its chunk.
Sent(q) == q.kind = "write" /\ q.chunk <= client[q.from].chunk

\* The same chunk of the same client, whatever lease it came with.
Same(p, q) == p.from = q.from /\ p.chunk = q.chunk

\* A client that has not begun is before its first chunk.
IdleInv == \A c \in Client : client[c].at = "idle" => client[c].chunk = 0

\* A request still in the inbox has not been handled, and is there once.
InboxInv == \A q \in inbox : q.kind = "write" =>
  /\ Sent(q)
  /\ \A p \in inbox : p.kind = "write" /\ Same(p, q) => p = q
  /\ \A i \in DOMAIN chain : ~Same(chain[i], q)
  /\ \A i \in DOMAIN wire : ~Same(wire[i], q)

\* What the chain holds is of leases that were given, in their order.
ChainInv ==
  /\ \A i \in DOMAIN chain : Sent(chain[i]) /\ chain[i].lease <= granted
  /\ \A i, j \in DOMAIN chain : i < j =>
       chain[i].lease <= chain[j].lease /\ ~Same(chain[i], chain[j])

\* So is what the wire has seen, and all of it comes before the chain.
WireInv ==
  /\ \A i \in DOMAIN wire : Sent(wire[i]) /\ wire[i].lease <= granted
  /\ \A i, j \in DOMAIN wire : i < j =>
       wire[i].lease <= wire[j].lease /\ ~Same(wire[i], wire[j])
  /\ \A i \in DOMAIN wire, j \in DOMAIN chain :
       wire[i].lease <= chain[j].lease /\ ~Same(wire[i], chain[j])

\* Nothing of this chunk is anywhere on its way to the device.
Nowhere(c, n) ==
  /\ ~OnWire(c, n)
  /\ \A i \in DOMAIN chain : ~(chain[i].from = c /\ chain[i].chunk = n)
  /\ \A q \in inbox : q.kind = "write" => ~(q.from = c /\ q.chunk = n)

\* Answers on their way are as true as those that have arrived.
Truthful(r) ==
  /\ r.answer = "ok" => OnWire(r.to, r.chunk)
  /\ r.answer = "refused" => Nowhere(r.to, r.chunk) /\ r.chunk <= client[r.to].chunk
ReplyInv == \A r \in replies : r.kind = "write" => Truthful(r)

\* No later chunk of the client went before chunk n.
NoneOvertakes(c, n) == \A i, j \in DOMAIN wire :
  i < j /\ wire[j].from = c /\ wire[i].from = c => ~(wire[j].chunk = n /\ wire[i].chunk > n)

OutcomeInv == \A c \in Client, n \in Chunk :
  /\ outcome[c][n] = "ok" => OnWire(c, n) /\ NoneOvertakes(c, n)
  /\ outcome[c][n] = "refused" => Nowhere(c, n)

IInv ==
  /\ LeaseTypeOK /\ CurrentInv /\ ClientInv /\ IdleInv
  /\ InboxInv /\ ChainInv /\ WireInv /\ ReplyInv /\ OutcomeInv

-----------------------------------------------------------------------------
\* What the type invariant says of one client.
LEMMA Consoles ==
  ASSUME LeaseTypeOK, NEW c \in Client
  PROVE  client[c] \in Console /\ client[c].chunk \in Nat /\ client[c].lease \in Nat
BY DEF LeaseTypeOK, Console

(* The two steps of a queue.                                               *)

(* What Append adds is last, and the rest stays where it was.              *)
LEMMA Appended ==
  ASSUME NEW s \in Seq(Message), NEW q \in Message
  PROVE  /\ Append(s, q) \in Seq(Message)
         /\ Len(s) \in Nat /\ DOMAIN s = 1 .. Len(s) /\ DOMAIN Append(s, q) = 1 .. Len(s) + 1
         /\ \A i \in 1 .. Len(s) : Append(s, q)[i] = s[i]
         /\ Append(s, q)[Len(s) + 1] = q
<1>1. Append(s, q) \in Seq(Message) /\ Len(Append(s, q)) = Len(s) + 1
  BY AppendProperties
<1>2. Append(s, q)[Len(s) + 1] = q /\ \A i \in 1 .. Len(s) : Append(s, q)[i] = s[i]
  BY AppendProperties
<1> QED
  BY <1>1, <1>2, LenProperties

(* What Tail leaves has moved up by one, and Head was first.               *)
LEMMA Popped ==
  ASSUME NEW s \in Seq(Message), s # <<>>
  PROVE  /\ Head(s) \in Message /\ Tail(s) \in Seq(Message)
         /\ Len(s) \in Nat \ {0} /\ DOMAIN s = 1 .. Len(s) /\ DOMAIN Tail(s) = 1 .. Len(s) - 1
         /\ \A i \in 1 .. Len(s) - 1 : Tail(s)[i] = s[i + 1]
         /\ s[1] = Head(s)
<1>1. Len(s) \in Nat \ {0} /\ DOMAIN s = 1 .. Len(s)
  BY EmptySeq, LenProperties
<1>2. /\ Head(s) \in Message /\ Tail(s) \in Seq(Message) /\ Len(Tail(s)) = Len(s) - 1
      /\ \A i \in 1 .. Len(Tail(s)) : Tail(s)[i] = s[i + 1]
  BY HeadTailProperties
<1>3. DOMAIN Tail(s) = 1 .. Len(s) - 1
  BY <1>2, LenProperties
<1>4. Head(s) = s[1]
  BY <1>1
<1> QED
  BY <1>1, <1>2, <1>3, <1>4

\* Chunks are numbers.
LEMMA ChunksAreNumbers == Chunk \subseteq Nat
BY WritesAssumption DEF Chunk

-----------------------------------------------------------------------------
(* What a step leaves alone.                                               *)

\* No client goes back, and no more leases are given than are counted.
Onward == granted' >= granted /\ \A c \in Client : client'[c].chunk >= client[c].chunk

\* Nothing moves towards the device.
Still == Onward /\ UNCHANGED <<chain, wire>>

\* What is on the wire stays there; what was sent and is nowhere never comes.
Flows == \A c \in Client, n \in Nat :
  /\ OnWire(c, n) => OnWire(c, n)'
  /\ Nowhere(c, n) /\ n <= client[c].chunk => Nowhere(c, n)'

(* The chain and the wire keep their parts when neither of them changes.   *)
LEMMA QueuesKept ==
  ASSUME IInv, Still, LeaseTypeOK'
  PROVE  ChainInv' /\ WireInv'
<1>1. \A q \in Message : Sent(q) => Sent(q)'
  BY DEF IInv, LeaseTypeOK, Still, Onward, Sent, Message, Console
<1>2. /\ \A i \in DOMAIN chain : chain[i] \in Message
      /\ \A i \in DOMAIN wire : wire[i] \in Message
  BY LenProperties, ElementOfSeq DEF IInv, LeaseTypeOK
<1>3. \A q \in Message : q.lease <= granted => q.lease <= granted'
  BY <1>2 DEF IInv, LeaseTypeOK, Still, Onward, Message
<1>4. ChainInv'
  BY <1>1, <1>2, <1>3 DEF IInv, ChainInv, Still, Same
<1>5. WireInv'
  BY <1>1, <1>2, <1>3 DEF IInv, WireInv, Still, Same
<1> QED
  BY <1>4, <1>5

(* The inbox keeps its part when requests only leave it.                   *)
LEMMA InboxKept ==
  ASSUME IInv, Still, LeaseTypeOK', inbox' \subseteq inbox
  PROVE  InboxInv'
<1>1. \A q \in inbox' : Sent(q) => Sent(q)'
  BY DEF IInv, LeaseTypeOK, Still, Onward, Sent, Message, Console
<1> QED
  BY <1>1 DEF IInv, InboxInv, Still, Same

(* A step that moves nothing and sends only later chunks lets them flow.   *)
LEMMA StillFlows ==
  ASSUME IInv, Still,
         \A q \in inbox' \ inbox : q.kind = "write" => q.chunk > client[q.from].chunk
  PROVE  Flows
<1> SUFFICES ASSUME NEW c \in Client, NEW n \in Nat
             PROVE  /\ OnWire(c, n) => OnWire(c, n)'
                    /\ Nowhere(c, n) /\ n <= client[c].chunk => Nowhere(c, n)'
  BY DEF Flows
<1>1. OnWire(c, n)' <=> OnWire(c, n)
  BY DEF OnWire, Still
<1>2. ASSUME Nowhere(c, n), n <= client[c].chunk
      PROVE  Nowhere(c, n)'
  <2>1. \A q \in inbox' \ inbox : q.kind = "write" => ~(q.from = c /\ q.chunk = n)
    BY <1>2 DEF IInv, LeaseTypeOK, Console
  <2> QED
    BY <1>1, <1>2, <2>1 DEF Nowhere, Still
<1> QED
  BY <1>1, <1>2

(* Answers that are on their way stay true.                                *)
LEMMA AnswersKept ==
  ASSUME IInv, Flows, Onward, LeaseTypeOK', NEW r \in replies, r.kind = "write"
  PROVE  Truthful(r)'
<1>1. r \in Answer /\ Truthful(r)
  BY DEF IInv, LeaseTypeOK, ReplyInv
<1>2. r.answer = "ok" => OnWire(r.to, r.chunk)'
  BY <1>1 DEF Truthful, Flows, Answer
<1>3. ASSUME r.answer = "refused"
      PROVE  Nowhere(r.to, r.chunk)' /\ r.chunk <= client'[r.to].chunk
  <2>1. Nowhere(r.to, r.chunk)'
    BY <1>1, <1>3 DEF Truthful, Flows, Answer
  <2>2. r.chunk <= client'[r.to].chunk
    BY <1>1, <1>3 DEF Truthful, IInv, LeaseTypeOK, Onward, Answer, Console
  <2> QED
    BY <2>1, <2>2
<1> QED
  BY <1>2, <1>3 DEF Truthful

(* A new answer that is true leaves them all true.                         *)
LEMMA AnswerGiven ==
  ASSUME IInv, Flows, Onward, LeaseTypeOK', NEW q \in Message, NEW answer, NEW id,
         Reply(q, answer, id),
         q.kind = "write" =>
           /\ answer = "ok" => OnWire(q.from, q.chunk)'
           /\ answer = "refused" => Nowhere(q.from, q.chunk)' /\ q.chunk <= client'[q.from].chunk
  PROVE  ReplyInv'
<1> DEFINE new == [to |-> q.from, kind |-> q.kind, chunk |-> q.chunk, answer |-> answer, lease |-> id]
<1>1. replies' \subseteq replies \cup {new}
  BY DEF Reply
<1>2. q.kind = "write" => Truthful(new)'
  BY DEF Truthful
<1> QED
  BY <1>1, <1>2, AnswersKept DEF ReplyInv

(* What a client knows stays true when it learns nothing of it.            *)
LEMMA OutcomesKept ==
  ASSUME IInv, Flows, NEW c \in Client, NEW n \in Chunk,
         outcome'[c][n] = outcome[c][n],
         OnWire(c, n) /\ NoneOvertakes(c, n) => NoneOvertakes(c, n)'
  PROVE  /\ outcome'[c][n] = "ok" => OnWire(c, n)' /\ NoneOvertakes(c, n)'
         /\ outcome'[c][n] = "refused" => Nowhere(c, n)'
<1>1. n \in Nat
  BY ChunksAreNumbers
<1>2. outcome[c][n] = "ok" => OnWire(c, n) /\ NoneOvertakes(c, n)
  BY DEF IInv, OutcomeInv
<1>3. outcome[c][n] = "refused" => Nowhere(c, n) /\ n <= client[c].chunk
  BY DEF IInv, OutcomeInv, ClientInv
<1> QED
  BY <1>1, <1>2, <1>3 DEF Flows

(* Nothing overtakes anything while the wire is still.                     *)
LEMMA StillNoneOvertakes ==
  ASSUME NEW c, NEW n, UNCHANGED wire, NoneOvertakes(c, n)
  PROVE  NoneOvertakes(c, n)'
BY DEF NoneOvertakes

-----------------------------------------------------------------------------
(* The clients.                                                            *)

(* A request sends at most the next chunk.                                 *)
LEMMA RequestStep ==
  ASSUME IInv, NEW c \in Client, NEW kind \in {"acquire", "write", "release"}, NEW n \in Nat,
         Request(c, kind, n), n >= client[c].chunk, kind = "write" => n > client[c].chunk,
         outcome' = outcome \/ outcome' = [outcome EXCEPT ![c][n] = "sent"],
         UNCHANGED <<replies, lease, granted, chain, wire, server>>
  PROVE  IInv'
<1>1. PICK new \in Message : /\ inbox' \subseteq inbox \cup {new}
                            /\ new.from = c /\ new.kind = kind /\ new.chunk = n
  <2>1. [from |-> c, kind |-> kind, lease |-> client[c].lease, chunk |-> n] \in Message
    BY DEF IInv, LeaseTypeOK, Message, Console
  <2> QED
    BY <2>1 DEF Request
<1>2. /\ client' \in [Client -> Console]
      /\ \A d \in Client : d # c => client'[d] = client[d]
      /\ client'[c].at = kind /\ client'[c].chunk = n
  <2> DEFINE q == [client[c] EXCEPT !.at = kind, !.chunk = n]
  <2>1. q \in Console /\ q.at = kind /\ q.chunk = n
    BY Consoles DEF IInv, Console
  <2>2. client' = [client EXCEPT ![c] = q]
    BY DEF Request, IInv, LeaseTypeOK
  <2> HIDE DEF q
  <2> QED
    BY <2>1, <2>2 DEF IInv, LeaseTypeOK
<1>3. LeaseTypeOK'
  <2>1. inbox' \subseteq Message
    BY <1>1 DEF IInv, LeaseTypeOK
  <2>2. outcome' \in [Client -> [Chunk -> {"none", "sent", "ok", "refused", "failed", "lost"}]]
    <3>1. CASE outcome' = outcome
      BY <3>1 DEF IInv, LeaseTypeOK
    <3>2. CASE outcome' = [outcome EXCEPT ![c][n] = "sent"]
      BY <3>2 DEF IInv, LeaseTypeOK
    <3> QED
      BY <3>1, <3>2
  <2> QED
    BY <1>2, <2>1, <2>2 DEF IInv, LeaseTypeOK
<1>4. Still
  <2>1. \A d \in Client : client'[d].chunk >= client[d].chunk
    BY <1>2, Consoles DEF IInv
  <2> QED
    BY <2>1 DEF Still, Onward, IInv, LeaseTypeOK
<1>5. Flows
  BY <1>1, <1>4, StillFlows DEF IInv, LeaseTypeOK
<1>6. ClientInv'
  <2> SUFFICES ASSUME NEW d \in Client, NEW m \in Chunk, outcome'[d][m] # "none"
               PROVE  m <= client'[d].chunk
    BY DEF ClientInv
  <2>1. m \in Nat /\ client[d].chunk \in Nat /\ client'[d].chunk \in Nat
    BY <1>2, Consoles, ChunksAreNumbers DEF IInv, Console
  <2>2. CASE outcome[d][m] # "none"
    BY <1>4, <2>1, <2>2 DEF IInv, ClientInv, Still, Onward
  <2>3. CASE outcome[d][m] = "none"
    <3>1. outcome' = [outcome EXCEPT ![c][n] = "sent"]
      BY <2>3
    <3>2. d = c /\ m = n
      BY <2>3, <3>1 DEF IInv, LeaseTypeOK
    <3> QED
      BY <1>2, <2>1, <3>2
  <2> QED
    BY <2>2, <2>3
<1>7. InboxInv'
  <2>1. \A q \in Message : Sent(q) => Sent(q)' /\ ~(kind = "write" /\ Same(q, new))
    BY <1>1, <1>2 DEF IInv, LeaseTypeOK, Sent, Message, Same, Console
  <2>2. \A i \in DOMAIN chain : chain[i] \in Message /\ Sent(chain[i])
    BY LenProperties, ElementOfSeq DEF IInv, LeaseTypeOK, ChainInv
  <2>3. \A i \in DOMAIN wire : wire[i] \in Message /\ Sent(wire[i])
    BY LenProperties, ElementOfSeq DEF IInv, LeaseTypeOK, WireInv
  <2>4. \A q \in inbox : q \in Message /\ (q.kind = "write" => Sent(q))
    BY DEF IInv, LeaseTypeOK, InboxInv
  <2>5. ASSUME kind = "write"
        PROVE  Sent(new)'
    BY <1>1, <1>2, <2>5 DEF Sent
  <2>6. ASSUME NEW q \in inbox', q.kind = "write"
        PROVE  /\ Sent(q)'
               /\ \A p \in inbox' : p.kind = "write" /\ Same(p, q) => p = q
    BY <1>1, <2>1, <2>4, <2>5, <2>6 DEF IInv, InboxInv, Same
  <2>7. ASSUME NEW q \in inbox', q.kind = "write"
        PROVE  /\ \A i \in DOMAIN chain : ~Same(chain[i], q)
               /\ \A i \in DOMAIN wire : ~Same(wire[i], q)
    BY <1>1, <2>1, <2>2, <2>3, <2>7 DEF IInv, InboxInv
  <2> QED
    BY <2>6, <2>7, <1>4 DEF InboxInv, Still, Same
<1>8. ReplyInv'
  BY <1>3, <1>4, <1>5, AnswersKept DEF ReplyInv, Still
<1>9. OutcomeInv'
  <2> SUFFICES ASSUME NEW d \in Client, NEW m \in Chunk
               PROVE  /\ outcome'[d][m] = "ok" => OnWire(d, m)' /\ NoneOvertakes(d, m)'
                      /\ outcome'[d][m] = "refused" => Nowhere(d, m)'
    BY DEF OutcomeInv
  <2>1. outcome'[d][m] = outcome[d][m] \/ outcome'[d][m] = "sent"
    <3>1. CASE outcome' = outcome
      BY <3>1
    <3>2. CASE outcome' = [outcome EXCEPT ![c][n] = "sent"]
      BY <3>2 DEF IInv, LeaseTypeOK
    <3> QED
      BY <3>1, <3>2
  <2> QED
    BY <2>1, <1>5, OutcomesKept, StillNoneOvertakes
<1>10. ChainInv' /\ WireInv'
  BY <1>3, <1>4, QueuesKept
<1>11. IdleInv'
  BY <1>2 DEF IInv, IdleInv
<1> QED
  BY <1>3, <1>6, <1>7, <1>8, <1>9, <1>10, <1>11 DEF IInv, CurrentInv

(* A client that stops waiting knows of its chunk what it was told, and    *)
(* that is true.                                                           *)
LEMMA SettleStep ==
  ASSUME IInv, NEW c \in Client, NEW known \in {"ok", "refused", "failed", "lost"}, NEW given \in Nat,
         Settle(c, known), After(c, given), replies' \subseteq replies,
         client[c].at = "write" /\ known = "ok" => OnWire(c, client[c].chunk),
         client[c].at = "write" /\ known = "refused" => Nowhere(c, client[c].chunk),
         UNCHANGED <<inbox, lease, granted, chain, wire, server>>
  PROVE  IInv'
<1>1. /\ client' \in [Client -> Console]
      /\ \A d \in Client : client'[d].chunk = client[d].chunk
      /\ \A d \in Client : client'[d].at = "idle" => client[d].at = "idle"
  <2> DEFINE later == IF client[c].at = "release" \/ (client[c].at = "acquire" /\ given = 0)
                        THEN "done" ELSE "ready"
             kept == IF client[c].at = "acquire" THEN given ELSE client[c].lease
             q == [client[c] EXCEPT !.lease = kept, !.at = later]
  <2>1. later \in {"done", "ready"} /\ kept \in Nat
    BY Consoles DEF IInv
  <2>2. client' = [client EXCEPT ![c] = q]
    BY DEF After, IInv, LeaseTypeOK
  <2> HIDE DEF later, kept
  <2>3. q \in Console /\ q.chunk = client[c].chunk /\ q.at # "idle"
    BY <2>1, Consoles DEF IInv, Console
  <2> HIDE DEF q
  <2> QED
    BY <2>2, <2>3 DEF IInv, LeaseTypeOK
<1>2. \A d \in Client, n \in Chunk :
        \/ outcome'[d][n] = outcome[d][n]
        \/ client[c].at = "write" /\ d = c /\ n = client[c].chunk /\ outcome'[d][n] = known
  BY DEF Settle, IInv, LeaseTypeOK
<1>3. LeaseTypeOK'
  <2>1. outcome' \in [Client -> [Chunk -> {"none", "sent", "ok", "refused", "failed", "lost"}]]
    BY DEF Settle, IInv, LeaseTypeOK
  <2> QED
    BY <1>1, <2>1 DEF IInv, LeaseTypeOK
<1>4. Still
  <2>1. \A d \in Client : client'[d].chunk >= client[d].chunk
    BY <1>1, Consoles DEF IInv
  <2> QED
    BY <2>1 DEF Still, Onward, IInv, LeaseTypeOK
<1>5. Flows
  BY <1>4, StillFlows
<1>6. ClientInv'
  <2> SUFFICES ASSUME NEW d \in Client, NEW m \in Chunk, outcome'[d][m] # "none"
               PROVE  m <= client[d].chunk
    BY <1>1 DEF ClientInv
  <2>1. CASE outcome'[d][m] = outcome[d][m]
    BY <2>1 DEF IInv, ClientInv
  <2>2. CASE d = c /\ m = client[c].chunk
    BY <2>2, Consoles DEF IInv
  <2> QED
    BY <1>2, <2>1, <2>2
<1>7. InboxInv' /\ ChainInv' /\ WireInv'
  BY <1>3, <1>4, InboxKept, QueuesKept
<1>8. ReplyInv'
  BY <1>3, <1>4, <1>5, AnswersKept DEF ReplyInv, Still
<1>9. OutcomeInv'
  <2> SUFFICES ASSUME NEW d \in Client, NEW m \in Chunk
               PROVE  /\ outcome'[d][m] = "ok" => OnWire(d, m)' /\ NoneOvertakes(d, m)'
                      /\ outcome'[d][m] = "refused" => Nowhere(d, m)'
    BY DEF OutcomeInv
  <2>1. CASE outcome'[d][m] = outcome[d][m]
    BY <1>5, <2>1, OutcomesKept, StillNoneOvertakes
  <2>2. CASE client[c].at = "write" /\ d = c /\ m = client[c].chunk /\ outcome'[d][m] = known
    <3>1. m \in Nat
      BY ChunksAreNumbers
    <3>2. outcome'[d][m] = "ok" => OnWire(d, m)'
      BY <2>2 DEF OnWire
    <3>3. outcome'[d][m] = "refused" => Nowhere(d, m)'
      BY <1>5, <2>2, <3>1 DEF Flows
    <3>4. NoneOvertakes(d, m)
      <4> SUFFICES ASSUME NEW i \in DOMAIN wire, wire[i].from = d
                   PROVE  ~(wire[i].chunk > m)
        BY DEF NoneOvertakes
      <4>1. wire[i] \in Message /\ Sent(wire[i])
        BY LenProperties, ElementOfSeq DEF IInv, LeaseTypeOK, WireInv
      <4> QED
        BY <2>2, <4>1, Consoles DEF IInv, Sent, Message
    <3> QED
      BY <3>2, <3>3, <3>4, StillNoneOvertakes
  <2> QED
    BY <1>2, <2>1, <2>2
<1>10. IdleInv'
  BY <1>1 DEF IInv, IdleInv
<1> QED
  BY <1>3, <1>6, <1>7, <1>8, <1>9, <1>10 DEF IInv, CurrentInv

-----------------------------------------------------------------------------
(* The server.                                                             *)

(* A request that is answered at once leaves the inbox and goes nowhere.   *)
LEMMA AnswerStep ==
  ASSUME IInv, NEW q \in inbox, inbox' = inbox \ {q},
         NEW answer \in {"ok", "refused"}, NEW id \in Nat, Reply(q, answer, id),
         q.kind = "write" => answer = "refused",
         lease' \in Nat, granted' \in Nat, granted' >= granted, lease' = 0 \/ lease' = granted',
         UNCHANGED <<client, outcome, chain, wire, server>>
  PROVE  IInv'
<1>1. q \in Message
  BY DEF IInv, LeaseTypeOK
<1>2. LeaseTypeOK'
  <2>1. [to |-> q.from, kind |-> q.kind, chunk |-> q.chunk, answer |-> answer, lease |-> id] \in Answer
    BY <1>1 DEF Message, Answer
  <2>2. replies' \subseteq Answer
    BY <2>1 DEF Reply, IInv, LeaseTypeOK
  <2> QED
    BY <2>2 DEF IInv, LeaseTypeOK
<1>3. Still
  <2>1. \A d \in Client : client'[d].chunk >= client[d].chunk
    BY Consoles DEF IInv
  <2> QED
    BY <2>1 DEF Still, Onward
<1>4. Flows
  BY <1>3, StillFlows
<1>5. ClientInv' /\ IdleInv'
  BY DEF IInv, ClientInv, IdleInv
<1>6. InboxInv' /\ ChainInv' /\ WireInv'
  BY <1>2, <1>3, InboxKept, QueuesKept
<1>7. ASSUME q.kind = "write"
      PROVE  Nowhere(q.from, q.chunk)' /\ q.chunk <= client'[q.from].chunk
  BY <1>7 DEF IInv, InboxInv, Nowhere, OnWire, Same, Sent
<1>8. ReplyInv'
  BY <1>1, <1>2, <1>3, <1>4, <1>7, AnswerGiven DEF Still
<1>9. OutcomeInv'
  BY <1>4, OutcomesKept, StillNoneOvertakes DEF OutcomeInv
<1> QED
  BY <1>2, <1>5, <1>6, <1>8, <1>9 DEF IInv, CurrentInv

(* A write under the lease in force goes from the inbox to the chain's end. *)
LEMMA ChainStep ==
  ASSUME IInv, NEW q \in inbox, inbox' = inbox \ {q}, q.kind = "write", InForce(q),
         chain' = Append(chain, q),
         UNCHANGED <<client, outcome, replies, lease, granted, wire, server>>
  PROVE  IInv'
<1> DEFINE last == Len(chain) + 1
<1>1. q \in Message /\ Sent(q) /\ q.lease = granted
  BY DEF IInv, LeaseTypeOK, InboxInv, InForce, CurrentInv
<1>2. /\ chain' \in Seq(Message) /\ DOMAIN chain = 1 .. Len(chain) /\ Len(chain) \in Nat
      /\ DOMAIN chain' = 1 .. last /\ chain'[last] = q
      /\ \A i \in 1 .. Len(chain) : chain'[i] = chain[i]
  BY <1>1, Appended DEF IInv, LeaseTypeOK
<1>3. LeaseTypeOK'
  BY <1>2 DEF IInv, LeaseTypeOK
<1>4. \A i \in DOMAIN chain' : i = last \/ (i \in DOMAIN chain /\ chain'[i] = chain[i])
  BY <1>2
<1>5. \A i \in DOMAIN chain : chain[i] \in Message /\ chain[i].lease <= granted /\ ~Same(chain[i], q)
  BY LenProperties, ElementOfSeq DEF IInv, LeaseTypeOK, ChainInv, InboxInv
<1>6. \A i \in DOMAIN wire : wire[i] \in Message /\ ~Same(wire[i], q)
  BY LenProperties, ElementOfSeq DEF IInv, LeaseTypeOK, InboxInv
<1>7. Flows
  <2> SUFFICES ASSUME NEW c \in Client, NEW n \in Nat, Nowhere(c, n)
               PROVE  Nowhere(c, n)'
    BY DEF Flows, OnWire
  <2>1. \A i \in DOMAIN chain' : ~(chain'[i].from = c /\ chain'[i].chunk = n)
    BY <1>2, <1>4 DEF Nowhere
  <2> QED
    BY <2>1 DEF Nowhere, OnWire
<1>8. Onward
  BY Consoles DEF Onward, IInv, LeaseTypeOK
<1>9. ClientInv' /\ IdleInv'
  BY DEF IInv, ClientInv, IdleInv
<1>10. InboxInv'
  <2> SUFFICES ASSUME NEW p \in inbox, p # q, p.kind = "write"
               PROVE  \A i \in DOMAIN chain' : ~Same(chain'[i], p)
    BY DEF InboxInv, IInv, Sent, Same
  <2>1. ~Same(q, p)
    BY DEF IInv, InboxInv
  <2> QED
    BY <1>2, <1>4, <2>1 DEF IInv, InboxInv
<1>11. ChainInv'
  <2>1. ASSUME NEW i \in DOMAIN chain'
        PROVE  (Sent(chain[i]) /\ chain[i].lease <= granted)'
    <3>1. CASE i = last
      BY <1>1, <1>2, <3>1 DEF Sent, IInv, LeaseTypeOK
    <3>2. CASE i \in DOMAIN chain /\ chain'[i] = chain[i]
      BY <3>2 DEF IInv, ChainInv, Sent
    <3> QED
      BY <1>4, <3>1, <3>2
  <2>2. ASSUME NEW i \in DOMAIN chain', NEW j \in DOMAIN chain', i < j
        PROVE  chain'[i].lease <= chain'[j].lease /\ ~Same(chain'[i], chain'[j])
    <3>1. i \in DOMAIN chain /\ chain'[i] = chain[i]
      BY <1>2, <2>2
    <3>2. CASE j = last
      BY <1>1, <1>2, <1>5, <3>1, <3>2
    <3>3. CASE j \in DOMAIN chain /\ chain'[j] = chain[j]
      BY <2>2, <3>1, <3>3 DEF IInv, ChainInv
    <3> QED
      BY <1>4, <3>2, <3>3
  <2> QED
    BY <2>1, <2>2 DEF ChainInv, Same
<1>12. WireInv'
  <2>1. ASSUME NEW i \in DOMAIN wire
        PROVE  wire[i].lease <= q.lease
    BY <1>1, <2>1 DEF IInv, WireInv
  <2>2. ASSUME NEW i \in DOMAIN wire, NEW j \in DOMAIN chain'
        PROVE  wire[i].lease <= chain'[j].lease /\ ~Same(wire[i], chain'[j])
    BY <1>2, <1>4, <1>6, <2>1 DEF IInv, WireInv
  <2> QED
    BY <2>2 DEF IInv, WireInv, Sent, Same
<1>13. ReplyInv'
  BY <1>3, <1>7, <1>8, AnswersKept DEF ReplyInv
<1>14. OutcomeInv'
  BY <1>7, OutcomesKept, StillNoneOvertakes DEF OutcomeInv
<1> QED
  BY <1>3, <1>9, <1>10, <1>11, <1>12, <1>13, <1>14 DEF IInv, CurrentInv

(* The head of the chain leaves it; where it reached the device it is the  *)
(* last of the wire.                                                       *)
LEMMA HeadStep ==
  ASSUME IInv, WriteHead
  PROVE  IInv'
<1> DEFINE last == Len(wire) + 1
<1>1. PICK q \in Message :
      /\ q = Head(chain) /\ chain' \in Seq(Message) /\ Len(chain) \in Nat \ {0}
      /\ DOMAIN chain = 1 .. Len(chain) /\ DOMAIN chain' = 1 .. Len(chain) - 1
      /\ \A i \in 1 .. Len(chain) - 1 : chain'[i] = chain[i + 1]
      /\ chain[1] = q
  BY Popped DEF WriteHead, IInv, LeaseTypeOK
<1>2. /\ Len(wire) \in Nat /\ DOMAIN wire = 1 .. Len(wire)
      /\ DOMAIN Append(wire, q) = 1 .. last /\ Append(wire, q)[last] = q
      /\ \A i \in 1 .. Len(wire) : Append(wire, q)[i] = wire[i]
      /\ Append(wire, q) \in Seq(Message)
  BY <1>1, Appended DEF IInv, LeaseTypeOK
<1>3. \/ wire' = wire /\ Reply(q, "failed", 0)
      \/ wire' = Append(wire, q) /\ (Reply(q, "ok", 0) \/ Reply(q, "failed", 0))
  BY <1>1 DEF WriteHead
<1>4. UNCHANGED <<client, outcome, inbox, lease, granted, server>>
  BY DEF WriteHead
<1>5. /\ \A i \in DOMAIN wire' : (i \in DOMAIN wire /\ wire'[i] = wire[i]) \/ (i = last /\ wire'[i] = q)
      /\ \A i \in DOMAIN wire : i \in DOMAIN wire' /\ wire'[i] = wire[i]
  <2>1. CASE wire' = wire
    BY <2>1
  <2>2. CASE wire' = Append(wire, q)
    BY <1>2, <2>2
  <2> QED
    BY <1>3, <2>1, <2>2
<1>6. \A i \in DOMAIN chain' : i + 1 \in DOMAIN chain /\ chain'[i] = chain[i + 1] /\ 1 < i + 1
  BY <1>1
<1>7. /\ q.kind = "write" /\ Sent(q) /\ q.lease <= granted
      /\ \A i \in DOMAIN wire : wire[i].lease <= q.lease /\ ~Same(wire[i], q)
      /\ \A i \in DOMAIN chain' : q.lease <= chain'[i].lease /\ ~Same(q, chain'[i])
      /\ \A p \in inbox : p.kind = "write" => ~Same(q, p)
  <2>1. 1 \in DOMAIN chain
    BY <1>1
  <2> QED
    BY <1>1, <1>6, <2>1 DEF IInv, ChainInv, WireInv, InboxInv, Sent
<1>8. LeaseTypeOK'
  <2>1. wire' \in Seq(Message)
    BY <1>2, <1>3 DEF IInv, LeaseTypeOK
  <2>2. \A answer \in {"ok", "failed"} :
          [to |-> q.from, kind |-> q.kind, chunk |-> q.chunk, answer |-> answer, lease |-> 0] \in Answer
    BY <1>1 DEF Message, Answer
  <2>3. replies' \subseteq Answer
    BY <1>3, <2>2 DEF Reply, IInv, LeaseTypeOK
  <2> QED
    BY <1>1, <1>4, <2>1, <2>3 DEF IInv, LeaseTypeOK
<1>9. Onward
  BY <1>4, Consoles DEF Onward, IInv, LeaseTypeOK
<1>10. Flows
  <2> SUFFICES ASSUME NEW c \in Client, NEW n \in Nat
               PROVE  (OnWire(c, n) => OnWire(c, n)') /\ (Nowhere(c, n) => Nowhere(c, n)')
    BY DEF Flows
  <2>1. OnWire(c, n) => OnWire(c, n)'
    BY <1>5 DEF OnWire
  <2>2. ASSUME Nowhere(c, n)
        PROVE  Nowhere(c, n)'
    <3>1. ~(q.from = c /\ q.chunk = n)
      BY <1>1, <2>2 DEF Nowhere
    <3>2. ~OnWire(c, n)'
      BY <1>5, <2>2, <3>1 DEF Nowhere, OnWire
    <3>3. \A i \in DOMAIN chain' : ~(chain'[i].from = c /\ chain'[i].chunk = n)
      BY <1>6, <2>2 DEF Nowhere
    <3> QED
      BY <1>4, <2>2, <3>2, <3>3 DEF Nowhere
  <2> QED
    BY <2>1, <2>2
<1>11. ClientInv' /\ IdleInv'
  BY <1>4 DEF IInv, ClientInv, IdleInv
<1>12. InboxInv'
  <2> SUFFICES ASSUME NEW p \in inbox, p.kind = "write"
               PROVE  /\ \A i \in DOMAIN chain' : ~Same(chain'[i], p)
                      /\ \A i \in DOMAIN wire' : ~Same(wire'[i], p)
    BY <1>4 DEF InboxInv, IInv, Sent, Same
  <2>1. \A i \in DOMAIN chain' : ~Same(chain'[i], p)
    BY <1>6 DEF IInv, InboxInv
  <2>2. \A i \in DOMAIN wire' : ~Same(wire'[i], p)
    BY <1>5, <1>7 DEF IInv, InboxInv
  <2> QED
    BY <2>1, <2>2
<1>13. ChainInv'
  <2>1. ASSUME NEW i \in DOMAIN chain'
        PROVE  (Sent(chain[i]) /\ chain[i].lease <= granted)'
    BY <1>4, <1>6, <2>1 DEF IInv, ChainInv, Sent
  <2>2. ASSUME NEW i \in DOMAIN chain', NEW j \in DOMAIN chain', i < j
        PROVE  chain'[i].lease <= chain'[j].lease /\ ~Same(chain'[i], chain'[j])
    <3>1. i + 1 < j + 1
      BY <1>1, <2>2
    <3> QED
      BY <1>6, <3>1 DEF IInv, ChainInv
  <2> QED
    BY <2>1, <2>2 DEF ChainInv, Same
<1>14. WireInv'
  <2>1. ASSUME NEW i \in DOMAIN wire'
        PROVE  (Sent(wire[i]) /\ wire[i].lease <= granted)'
    BY <1>4, <1>5, <1>7, <2>1 DEF IInv, WireInv, Sent
  <2>2. ASSUME NEW i \in DOMAIN wire', NEW j \in DOMAIN wire', i < j
        PROVE  wire'[i].lease <= wire'[j].lease /\ ~Same(wire'[i], wire'[j])
    <3>1. i \in DOMAIN wire /\ wire'[i] = wire[i]
      BY <1>2, <1>3, <1>5, <2>2
    <3> QED
      BY <1>5, <1>7, <2>2, <3>1 DEF IInv, WireInv
  <2>3. ASSUME NEW i \in DOMAIN wire', NEW j \in DOMAIN chain'
        PROVE  wire'[i].lease <= chain'[j].lease /\ ~Same(wire'[i], chain'[j])
    BY <1>5, <1>6, <1>7, <2>3 DEF IInv, WireInv
  <2> QED
    BY <2>1, <2>2, <2>3 DEF WireInv, Same
<1>15. ReplyInv'
  <2>1. CASE wire' = wire \/ Reply(q, "failed", 0)
    BY <1>1, <1>3, <1>8, <1>9, <1>10, <2>1, AnswerGiven
  <2>2. CASE wire' = Append(wire, q) /\ Reply(q, "ok", 0)
    <3>1. OnWire(q.from, q.chunk)'
      <4>1. last \in DOMAIN wire' /\ wire'[last] = q
        BY <1>2, <2>2
      <4> QED
        BY <4>1 DEF OnWire
    <3> QED
      BY <1>1, <1>8, <1>9, <1>10, <2>2, <3>1, AnswerGiven
  <2> QED
    BY <1>3, <2>1, <2>2
<1>16. OutcomeInv'
  <2> SUFFICES ASSUME NEW c \in Client, NEW n \in Chunk, OnWire(c, n), NoneOvertakes(c, n)
               PROVE  NoneOvertakes(c, n)'
    BY <1>4, <1>10, OutcomesKept DEF OutcomeInv
  <2>1. PICK k \in DOMAIN wire : wire[k].from = c /\ wire[k].chunk = n
    BY DEF OnWire
  <2>2. ~(q.from = c /\ q.chunk = n)
    BY <1>7, <2>1 DEF Same
  <2> SUFFICES ASSUME NEW i \in DOMAIN wire', NEW j \in DOMAIN wire', i < j,
                      wire'[j].from = c, wire'[i].from = c, wire'[j].chunk = n
               PROVE  ~(wire'[i].chunk > n)
    BY DEF NoneOvertakes
  <2>3. j \in DOMAIN wire /\ wire'[j] = wire[j]
    BY <1>5, <2>2
  <2>4. i \in DOMAIN wire /\ wire'[i] = wire[i]
    BY <1>2, <1>5, <2>3
  <2> QED
    BY <2>3, <2>4 DEF NoneOvertakes
<1> QED
  BY <1>4, <1>8, <1>11, <1>12, <1>13, <1>14, <1>15, <1>16 DEF IInv, CurrentInv

(* The lease ends, or the server closes: nothing moves.                    *)
LEMMA EndStep ==
  ASSUME IInv, Expire \/ CloseControl \/ CloseTransport
  PROVE  IInv'
<1>1. /\ UNCHANGED <<client, outcome, inbox, granted, chain, wire>>
      /\ replies' \subseteq replies /\ lease' \in {0, lease} /\ server' \in {"open", "closing", "closed"}
  BY DEF Expire, CloseControl, CloseTransport, IInv, LeaseTypeOK
<1>2. LeaseTypeOK'
  BY <1>1 DEF IInv, LeaseTypeOK
<1>3. Still
  BY <1>1, Consoles DEF Still, Onward, IInv, LeaseTypeOK
<1>4. Flows
  BY <1>1, <1>3, StillFlows
<1>5. InboxInv' /\ ChainInv' /\ WireInv'
  BY <1>1, <1>2, <1>3, InboxKept, QueuesKept
<1>6. ReplyInv'
  BY <1>1, <1>2, <1>3, <1>4, AnswersKept DEF ReplyInv, Still
<1>7. OutcomeInv'
  BY <1>1, <1>4, OutcomesKept, StillNoneOvertakes DEF OutcomeInv
<1>8. CurrentInv' /\ ClientInv' /\ IdleInv'
  BY <1>1 DEF IInv, CurrentInv, ClientInv, IdleInv
<1> QED
  BY <1>2, <1>5, <1>6, <1>7, <1>8 DEF IInv

-----------------------------------------------------------------------------
(* The invariant holds at first.                                           *)
LEMMA InitIInv == LeaseInit => IInv
<1> SUFFICES ASSUME LeaseInit
             PROVE  IInv
  OBVIOUS
<1>1. LeaseTypeOK
  BY EmptySeq DEF LeaseInit, LeaseTypeOK, Console
<1>2. DOMAIN chain = {} /\ DOMAIN wire = {}
  BY DEF LeaseInit
<1>3. CurrentInv /\ ClientInv /\ IdleInv /\ OutcomeInv
  BY DEF LeaseInit, CurrentInv, ClientInv, IdleInv, OutcomeInv
<1>4. InboxInv /\ ChainInv /\ WireInv /\ ReplyInv
  BY <1>2 DEF LeaseInit, InboxInv, ChainInv, WireInv, ReplyInv
<1> QED
  BY <1>1, <1>3, <1>4 DEF IInv

(* Every step keeps it.                                                    *)
LEMMA NextIInv == IInv /\ [LeaseNext]_leaseVars => IInv'
<1> SUFFICES ASSUME IInv, [LeaseNext]_leaseVars
             PROVE  IInv'
  OBVIOUS
<1>1. ASSUME NEW c \in Client, AskLease(c)
      PROVE  IInv'
  <2>1. client[c].chunk = 0
    BY <1>1 DEF AskLease, IInv, IdleInv
  <2> QED
    BY <1>1, <2>1, RequestStep DEF AskLease
<1>2. ASSUME NEW c \in Client, SendChunk(c)
      PROVE  IInv'
  <2>1. PICK n \in Nat : n = client[c].chunk + 1 /\ n > client[c].chunk /\ n >= client[c].chunk
    BY Consoles DEF IInv
  <2> QED
    BY <1>2, <2>1, RequestStep DEF SendChunk
<1>3. ASSUME NEW c \in Client, Leave(c)
      PROVE  IInv'
  <2>1. client[c].chunk \in Nat
    BY Consoles DEF IInv
  <2> QED
    BY <1>3, <2>1, RequestStep DEF Leave
<1>4. ASSUME NEW c \in Client, Receive(c)
      PROVE  IInv'
  <2>1. PICK r \in replies :
          /\ r.to = c /\ client[c].at = r.kind /\ client[c].chunk = r.chunk
          /\ Settle(c, r.answer) /\ After(c, r.lease) /\ replies' = replies \ {r}
          /\ UNCHANGED <<inbox, lease, granted, chain, wire, server>>
    BY <1>4 DEF Receive
  <2>2. r \in Answer
    BY DEF IInv, LeaseTypeOK
  <2>3. r.answer \in {"ok", "refused", "failed", "lost"} /\ r.lease \in Nat
    BY <2>2 DEF Answer
  <2>4. client[c].at = "write" => Truthful(r)
    BY <2>1 DEF IInv, ReplyInv
  <2> QED
    BY <2>1, <2>3, <2>4, SettleStep DEF Truthful
<1>5. ASSUME NEW c \in Client, GivesUp(c)
      PROVE  IInv'
  BY <1>5, SettleStep DEF GivesUp
<1>6. CASE Handle
  <2>1. PICK q \in inbox : /\ HandleAcquire(q) \/ HandleRelease(q) \/ HandleWrite(q)
                          /\ inbox' = inbox \ {q}
                          /\ UNCHANGED <<client, outcome, wire, server>>
    BY <1>6 DEF Handle
  <2>2. lease \in Nat /\ granted \in Nat /\ (lease = 0 \/ lease = granted)
    BY DEF IInv, LeaseTypeOK, CurrentInv
  <2>3. CASE HandleAcquire(q)
    BY <2>1, <2>2, <2>3, AnswerStep DEF HandleAcquire
  <2>4. CASE HandleRelease(q)
    BY <2>1, <2>2, <2>4, AnswerStep DEF HandleRelease
  <2>5. CASE HandleWrite(q) /\ InForce(q)
    BY <2>1, <2>5, ChainStep DEF HandleWrite
  <2>6. CASE HandleWrite(q) /\ ~InForce(q)
    BY <2>1, <2>2, <2>6, AnswerStep DEF HandleWrite
  <2> QED
    BY <2>1, <2>3, <2>4, <2>5, <2>6
<1>7. CASE WriteHead
  BY <1>7, HeadStep
<1>8. CASE Expire \/ CloseControl \/ CloseTransport
  BY <1>8, EndStep
<1>9. CASE UNCHANGED leaseVars
  BY <1>9 DEF leaseVars, IInv, LeaseTypeOK, CurrentInv, ClientInv, IdleInv, InboxInv, ChainInv, WireInv,
              ReplyInv, OutcomeInv, Sent, Same, Truthful, Nowhere, OnWire, NoneOvertakes
<1> QED
  BY <1>1, <1>2, <1>3, <1>4, <1>5, <1>6, <1>7, <1>8, <1>9 DEF LeaseNext

\* Writes of one lease come together and in the order of the leases, and no
\* write is on the wire twice.
LEMMA IInvOrder == IInv => LeaseOrder
BY DEF IInv, WireInv, LeaseOrder, Before, Same

\* What is known of an outcome, read from the invariant.
LEMMA IInvAnswers == IInv => AnswersTrue
<1> SUFFICES ASSUME IInv, NEW c \in Client, NEW n \in Chunk
             PROVE  /\ outcome[c][n] = "ok" =>
                         /\ OnWire(c, n)
                         /\ \A i, j \in DOMAIN wire :
                              Before(i, j) /\ wire[j].from = c /\ wire[i].from = c
                                => ~(wire[j].chunk = n /\ wire[i].chunk > n)
                    /\ outcome[c][n] = "refused" =>
                         ~OnWire(c, n) /\ \A i \in DOMAIN chain : ~(chain[i].from = c /\ chain[i].chunk = n)
  BY DEF AnswersTrue
<1>1. /\ outcome[c][n] = "ok" => OnWire(c, n) /\ NoneOvertakes(c, n)
      /\ outcome[c][n] = "refused" => Nowhere(c, n)
  BY DEF IInv, OutcomeInv
<1>2. ASSUME outcome[c][n] = "ok"
      PROVE  \A i, j \in DOMAIN wire :
               Before(i, j) /\ wire[j].from = c /\ wire[i].from = c
                 => ~(wire[j].chunk = n /\ wire[i].chunk > n)
  BY <1>1, <1>2 DEF NoneOvertakes, Before
<1> QED
  BY <1>1, <1>2 DEF Nowhere

(* The inductive invariant holds in every behaviour.                       *)
THEOREM LeaseInvariant == LeaseSpec => []IInv
<1>1. LeaseInit => IInv
  BY InitIInv
<1>2. IInv /\ [LeaseNext]_leaseVars => IInv'
  BY NextIInv
<1> QED
  BY <1>1, <1>2, PTL DEF LeaseSpec

(* Clients, requests, answers and queues are what the code's types say.    *)
THEOREM LeaseTypes == LeaseSpec => []LeaseTypeOK
<1>1. IInv => LeaseTypeOK
  BY DEF IInv
<1> QED
  BY <1>1, LeaseInvariant, PTL

(* One writer at a time: although a lease can run out, or be released,     *)
(* while its writes wait, what the next lease writes comes after them all  *)
(* and nothing is written twice (session-host.ts:241-262).                 *)
THEOREM OneWriterAtATime == LeaseSpec => []LeaseOrder
<1> QED
  BY IInvOrder, LeaseInvariant, PTL

(* A chunk that was acknowledged is on the wire, before all later ones of  *)
(* its client; one that was refused is not and is not going there          *)
(* (session-control.ts, serial-session-launcher.ts).                       *)
THEOREM WhatClientsKnow == LeaseSpec => []AnswersTrue
<1> QED
  BY IInvAnswers, LeaseInvariant, PTL

(* Both, for any number of clients and chunks.                             *)
THEOREM WritersAreSafe == LeaseSpec => []WriterSafe
<1>1. LeaseOrder /\ AnswersTrue => WriterSafe
  BY DEF WriterSafe
<1> QED
  BY <1>1, OneWriterAtATime, WhatClientsKnow, PTL
==============================================================================
