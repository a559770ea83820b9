------------------------------ MODULE FileGuard ------------------------------
(***************************************************************************)
(* The update guard of src/core/concurrency/file-guard.ts: mutual          *)
(* exclusion between processes built from an exclusively created file,     *)
(* with recovery of the file of a holder that died.  Every file-system     *)
(* call of the code is one step, because each of them is awaited.          *)
(*                                                                         *)
(* Abstractions: token = <<process, number of its attempt>>; time is the   *)
(* step Expire, by which the lease and the grace period of a record run    *)
(* out (a process may be arbitrarily slow, so it may happen at any time);  *)
(* process identifiers are not reused.                                     *)
(***************************************************************************)
EXTENDS Naturals, FiniteSets

CONSTANTS
  Proc,         \* processes that use the guard; a process that died stays dead
  Host,         \* the machine and the user of each process
  MaxAttempts,  \* bound: guarded updates started per process
  CrashPoints   \* bound: the program points at which a process may die

ASSUME HostAssumption == Host \in [Proc -> STRING]
ASSUME MaxAttemptsAssumption == MaxAttempts \in Nat

Token == Proc \X (1 .. MaxAttempts)

\* A file: absent, or created for the record of a token, whose text is still
\* missing between the exclusive open and the write.
NoFile == [state |-> "absent"]
Empty(t) == [state |-> "empty", token |-> t]
Written(t) == [state |-> "written", token |-> t]
File == {NoFile} \cup [state : {"empty", "written"}, token : Token]

Point ==
  {"idle", "create", "write", "busy",                 \* acquireFileGuard
   "recCreate", "recWrite", "recBusy", "recStale",    \* recoverStaleGuard: own
   "recDelete", "check", "delRead", "delUnlink",      \*   the recovery file,
   "recRelease", "recUnlink",                         \*   delete, and let go
   "critical", "relRead", "relUnlink",                \* action and release
   "failed"}                                          \* a file-system error

\* The points at which a process owns, or has just created, the recovery file.
RecoveryPoint ==
  {"recWrite", "check", "delRead", "delUnlink", "recRelease", "recUnlink"}

VARIABLES
  guard,     \* the guard file
  recovery,  \* the file "<guard>.recovery"
  pc,        \* where each process is
  attempt,   \* number of the attempt that made the current token
  expected,  \* the stale record a process read from the guard, and
  stale,     \*   from the recovery file
  thrown,    \* the processes in which unlink threw ENOENT, before the
             \*   finally block of recoverStaleGuard
  alive,     \* the processes that have not died
  expired,   \* tokens whose record is severely expired
  overrun    \* history: some record expired while its process lived

vars ==
  <<guard, recovery, pc, attempt, expected, stale, thrown, alive, expired, overrun>>

Me(p) == <<p, attempt[p]>>

\* readGuard yields a record, rather than undefined, when the file is there and
\* its text complete; guardLiveness(record) = "stale" as process p sees it. A process
\* of another user, whose probe is refused (EPERM), goes by its expiry as one of
\* another machine does; that it is gone (ESRCH) may be known before it expires.
IsStale(p, f) ==
  /\ f.state = "written"
  /\ IF Host[f.token[1]] = Host[p] THEN f.token[1] \notin alive
                                  ELSE f.token \in expired

Goto(p, l) == pc' = [pc EXCEPT ![p] = l]
At(p, l) == p \in alive /\ pc[p] = l

Init ==
  /\ guard = NoFile
  /\ recovery = NoFile
  /\ pc = [p \in Proc |-> "idle"]
  /\ attempt = [p \in Proc |-> 0]
  /\ expected = [p \in Proc |-> NoFile]
  /\ stale = [p \in Proc |-> NoFile]
  /\ thrown = {}
  /\ alive = Proc
  /\ expired = {}
  /\ overrun = FALSE

-----------------------------------------------------------------------------
(* acquireFileGuard                                                        *)

\* A guarded update begins.  The token is drawn anew before every exclusive
\* create; only the one that is written is ever seen, so it is counted here.
Begin(p) ==
  /\ At(p, "idle") \/ At(p, "failed")
  /\ attempt[p] < MaxAttempts
  /\ attempt' = [attempt EXCEPT ![p] = @ + 1]
  /\ thrown' = thrown \ {p}
  /\ Goto(p, "create")
  /\ UNCHANGED <<guard, recovery, expected, stale, alive, expired, overrun>>

\* fs.open(file, "wx"): creates the file or finds it present.
Create(p) ==
  /\ At(p, "create")
  /\ \/ /\ guard = NoFile
        /\ guard' = Empty(Me(p))
        /\ Goto(p, "write")
     \/ /\ guard # NoFile
        /\ Goto(p, "busy")
        /\ UNCHANGED guard
  /\ UNCHANGED <<recovery, attempt, expected, stale, thrown, alive, expired, overrun>>

\* handle.writeFile: reaches the file that was created, which may be unlinked.
Write(p) ==
  /\ At(p, "write")
  /\ guard' = IF guard = Empty(Me(p)) THEN Written(Me(p)) ELSE guard
  /\ Goto(p, "critical")
  /\ UNCHANGED <<recovery, attempt, expected, stale, thrown, alive, expired, overrun>>

\* The file existed: read it; recover it when stale, else wait or time out.
Busy(p) ==
  /\ At(p, "busy")
  /\ \/ /\ IsStale(p, guard)
        /\ expected' = [expected EXCEPT ![p] = guard]
        /\ Goto(p, "recCreate")
     \/ /\ ~IsStale(p, guard)
        /\ \E l \in {"create", "idle"} : Goto(p, l)
        /\ UNCHANGED expected
  /\ UNCHANGED <<guard, recovery, attempt, stale, thrown, alive, expired, overrun>>

-----------------------------------------------------------------------------
(* recoverStaleGuard                                                       *)

RecCreate(p) ==
  /\ At(p, "recCreate")
  /\ \/ /\ recovery = NoFile
        /\ recovery' = Empty(Me(p))
        /\ Goto(p, "recWrite")
     \/ /\ recovery # NoFile
        /\ Goto(p, "recBusy")
        /\ UNCHANGED recovery
  /\ UNCHANGED <<guard, attempt, expected, stale, thrown, alive, expired, overrun>>

RecWrite(p) ==
  /\ At(p, "recWrite")
  /\ recovery' = IF recovery = Empty(Me(p))
                 THEN Written(Me(p)) ELSE recovery
  /\ Goto(p, "check")
  /\ UNCHANGED <<guard, attempt, expected, stale, thrown, alive, expired, overrun>>

\* Mutant of RecBusy: whatever recovery file is in the way is taken for stale.
RecBusyImpatient(p) ==
  /\ At(p, "recBusy")
  /\ stale' = [stale EXCEPT ![p] = recovery]
  /\ Goto(p, "recStale")
  /\ UNCHANGED <<guard, recovery, attempt, expected, thrown, alive, expired, overrun>>

\* Another recovery is under way: give up unless its process is dead too.
\* Giving up returns to the timeout test of acquireFileGuard.
RecBusy(p) ==
  /\ At(p, "recBusy")
  /\ \/ /\ IsStale(p, recovery)
        /\ stale' = [stale EXCEPT ![p] = recovery]
        /\ Goto(p, "recStale")
     \/ /\ ~IsStale(p, recovery)
        /\ \E l \in {"create", "idle"} : Goto(p, l)
        /\ UNCHANGED stale
  /\ UNCHANGED <<guard, recovery, attempt, expected, thrown, alive, expired, overrun>>

\* deleteGuardIfToken(recovery, ...): the read, and then the unlink, which
\* removes whatever file is there by then and throws when there is none.
RecStale(p) ==
  /\ At(p, "recStale")
  /\ Goto(p, IF recovery = stale[p] THEN "recDelete" ELSE "recCreate")
  /\ UNCHANGED <<guard, recovery, attempt, expected, stale, thrown, alive, expired, overrun>>

RecDelete(p) ==
  /\ At(p, "recDelete")
  /\ Goto(p, IF recovery # NoFile THEN "recCreate" ELSE "failed")
  /\ recovery' = NoFile
  /\ UNCHANGED <<guard, attempt, expected, stale, thrown, alive, expired, overrun>>

\* Mutant of Check: unlink the guard on the strength of the first look.
CheckOnce(p) ==
  /\ At(p, "check")
  /\ Goto(p, "delUnlink")
  /\ UNCHANGED <<guard, recovery, attempt, expected, stale, thrown, alive, expired, overrun>>

\* With the recovery file in hand, read the guard again ...
Check(p) ==
  /\ At(p, "check")
  /\ Goto(p, IF guard = expected[p] /\ IsStale(p, guard)
             THEN "delRead" ELSE "recRelease")
  /\ UNCHANGED <<guard, recovery, attempt, expected, stale, thrown, alive, expired, overrun>>

\* ... and deleteGuardIfToken(file, expected.token).
DelRead(p) ==
  /\ At(p, "delRead")
  /\ Goto(p, IF guard = expected[p] THEN "delUnlink" ELSE "recRelease")
  /\ UNCHANGED <<guard, recovery, attempt, expected, stale, thrown, alive, expired, overrun>>

DelUnlink(p) ==
  /\ At(p, "delUnlink")
  /\ guard' = NoFile
  /\ thrown' = IF guard # NoFile THEN thrown ELSE thrown \cup {p}
  /\ Goto(p, "recRelease")
  /\ UNCHANGED <<recovery, attempt, expected, stale, alive, expired, overrun>>

\* finally: deleteGuardIfToken(recovery, record.token), then try again, unless
\* an error is on its way up.
AfterRecovery(p) == IF p \in thrown THEN "failed" ELSE "create"

\* Mutant of RecRelease: no finally block.
RecReleaseNothing(p) ==
  /\ At(p, "recRelease")
  /\ Goto(p, AfterRecovery(p))
  /\ UNCHANGED <<guard, recovery, attempt, expected, stale, thrown, alive, expired, overrun>>

RecRelease(p) ==
  /\ At(p, "recRelease")
  /\ Goto(p, IF recovery = Written(Me(p)) THEN "recUnlink" ELSE AfterRecovery(p))
  /\ UNCHANGED <<guard, recovery, attempt, expected, stale, thrown, alive, expired, overrun>>

RecUnlink(p) ==
  /\ At(p, "recUnlink")
  /\ Goto(p, IF recovery # NoFile THEN AfterRecovery(p) ELSE "failed")
  /\ recovery' = NoFile
  /\ UNCHANGED <<guard, attempt, expected, stale, thrown, alive, expired, overrun>>

-----------------------------------------------------------------------------
(* withFileGuard: the action has run; release reads, then unlinks          *)

Leave(p) ==
  /\ At(p, "critical")
  /\ Goto(p, "relRead")
  /\ UNCHANGED <<guard, recovery, attempt, expected, stale, thrown, alive, expired, overrun>>

RelRead(p) ==
  /\ At(p, "relRead")
  /\ Goto(p, IF guard = Written(Me(p)) THEN "relUnlink" ELSE "idle")
  /\ UNCHANGED <<guard, recovery, attempt, expected, stale, thrown, alive, expired, overrun>>

RelUnlink(p) ==
  /\ At(p, "relUnlink")
  /\ Goto(p, IF guard # NoFile THEN "idle" ELSE "failed")
  /\ guard' = NoFile
  /\ UNCHANGED <<recovery, attempt, expected, stale, thrown, alive, expired, overrun>>

-----------------------------------------------------------------------------
(* The environment: a process dies, a lease and its grace period run out   *)

Crash(p) ==
  /\ p \in alive
  /\ pc[p] \in CrashPoints
  /\ alive' = alive \ {p}
  /\ UNCHANGED <<guard, recovery, pc, attempt, expected, stale, thrown, expired, overrun>>

\* Only another host looks at the expiry of a record.
Expire(t) ==
  /\ t \notin expired
  /\ t[2] <= attempt[t[1]]
  /\ \E p \in Proc : Host[p] # Host[t[1]]
  /\ expired' = expired \cup {t}
  /\ overrun' = (overrun \/ t[1] \in alive)
  /\ UNCHANGED <<guard, recovery, pc, attempt, expected, stale, thrown, alive>>

Step(p) ==
  \/ Create(p) \/ Write(p) \/ Busy(p)
  \/ RecCreate(p) \/ RecWrite(p) \/ RecBusy(p) \/ RecStale(p) \/ RecDelete(p)
  \/ Check(p) \/ DelRead(p) \/ DelUnlink(p) \/ RecRelease(p) \/ RecUnlink(p)
  \/ Leave(p) \/ RelRead(p) \/ RelUnlink(p)

Next ==
  \/ \E p \in Proc : Begin(p) \/ Step(p) \/ Crash(p)
  \/ \E t \in Token : Expire(t)

Spec == Init /\ [][Next]_vars

\* The operating system runs every live process, and time passes: no lease,
\* which nothing renews, lasts for ever.  Nothing makes a process begin an
\* update or die.
Fairness ==
  /\ \A p \in Proc : WF_vars(Step(p))
  /\ \A t \in Token : WF_vars(Expire(t))
FairSpec == Spec /\ Fairness

-----------------------------------------------------------------------------
(* Properties                                                              *)

\* Every variable has its type.
TypeOK ==
  /\ guard \in File
  /\ recovery \in File
  /\ pc \in [Proc -> Point]
  /\ attempt \in [Proc -> 0 .. MaxAttempts]
  /\ expected \in [Proc -> File]
  /\ stale \in [Proc -> File]
  /\ thrown \subseteq Proc
  /\ alive \subseteq Proc
  /\ expired \subseteq Token
  /\ overrun \in BOOLEAN

Holding(p) == p \in alive /\ pc[p] \in {"critical", "relRead", "relUnlink"}

\* Two live processes never run their guarded actions together: what every
\* manager that calls withFileGuard relies on.
Mutex == \A p, q \in Proc : Holding(p) /\ Holding(q) => p = q

\* Whoever died did not die while it was recovering a guard, and no process
\* took longer over an update than its record's lease and grace last.
RecoverersSurvive ==
  /\ \A p \in Proc \ alive : pc[p] \notin RecoveryPoint
  /\ ~overrun

\* Mutual exclusion survives the death of holders, of waiting processes and of
\* processes that are about to recover, on one host and across hosts: the
\* recovery file serialises the recoverers, and their second look at the guard
\* protects its next holder.
MutexUnlessRecovererDied == RecoverersSurvive => Mutex

\* In the same circumstances no read-then-unlink meets a file that is gone:
\* withFileGuard ends with the action's outcome or with its busy error, never
\* with the ENOENT of an unlink.
NoFileError ==
  RecoverersSurvive => \A p \in Proc : pc[p] # "failed" /\ p \notin thrown

\* The guard of a process that died holding it goes away while some process
\* keeps trying: acquireFileGuard recovers it, a dead recoverer's file too, and
\* does not time out for ever.  The exception is a recovery file whose creator
\* died before it wrote the text: no process ever calls that one stale.
Abandoned(t) == guard = Written(t) /\ t[1] \notin alive
Trying(p) == p \in alive /\ pc[p] \notin {"idle", "failed"}
RecoveryWedged == recovery.state = "empty" /\ recovery.token[1] \notin alive
StaleGuardRecovered ==
  \A t \in Token :
    Abandoned(t) ~> \/ ~Abandoned(t)
                    \/ \A p \in Proc : ~Trying(p)
                    \/ RecoveryWedged
=============================================================================
