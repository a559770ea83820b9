--------------------------- MODULE ManagedSession ---------------------------
(***************************************************************************)
(* Managed serial sessions of one device: the durable session record, the  *)
(* launcher that starts a detached host and waits for it, the host that    *)
(* takes the device lock and opens the port, the reconciler every start    *)
(* runs first, and a one-shot operation that wants the same device.        *)
(*                                                                         *)
(* The device lock is one atomic step per call here; DeviceLock shows that *)
(* the lock manager behaves so.  Every record update runs under the update *)
(* guard (FileGuard), so it is one step too; "busy" is the guard's refusal.*)
(***************************************************************************)
EXTENDS Naturals, FiniteSets

CONSTANTS
  Session,     \* one start request each: its launcher, its record, its host
  Op,          \* the one-shot operation that competes for the device
  Nobody,      \* no holder
  MaxDeaths,   \* how many processes may be killed
  MaxFaults    \* how many calls (open, listen, close, guard) may fail

ASSUME SessionAssumption ==
  /\ Op \notin Session /\ Nobody \notin Session /\ Op # Nobody
  /\ MaxDeaths \in Nat /\ MaxFaults \in Nat

VARIABLES
  rec,       \* session.json, per session
  launcher,  \* what the start() call of the session is doing
  snap,      \* records the reconciler of this start has listed, still to visit
  visit,     \* the record it is visiting, and whether its lock is cleared
  host,      \* program point of the session's host
  begun,     \* revision the host got from claimStart
  seen,      \* revision the host read before its last update
  flags,     \* the host's "stop", "failed", "held" (port) and "quarantined"
  port,      \* sessions whose host has the serial port open
  listening, \* sessions whose control server accepts requests
  run,       \* manifest status of the host's run
  lock,      \* the device lock: holder and status
  deaths, faults

launcherVars == <<launcher, snap, visit>>
hostVars == <<host, begun, seen, flags, port, listening, run>>
limits == <<deaths, faults>>
vars == <<rec, launcherVars, hostVars, lock, limits>>

transitions == [
  absent |-> {"creating"},
  creating |-> {"starting", "failed"},
  starting |-> {"running", "stopping", "failed"},
  running |-> {"stopping", "failed"},
  stopping |-> {"stopped", "failed"},
  stopped |-> {},
  failed |-> {}]

Terminal == {"stopped", "failed"}
Active == {"starting", "running", "stopping"}

\* transition(): one revision later, or refused.
CanMove(s, next) == next \in transitions[rec[s].state]
Moved(s, next) ==
  [state |-> next, revision |-> rec[s].revision + 1, owner |-> rec[s].owner,
   lockId |-> rec[s].lockId, failure |-> rec[s].failure]
SetRecord(s, r) == rec' = [rec EXCEPT ![s] = r]

\* Mutant of FailRecord: without looking at the state.
FailAnyway(s, kind) == SetRecord(s, [Moved(s, "failed") EXCEPT !.failure = kind])

\* markFailed(): a failed record is returned as it is, a stopped one refuses.
FailRecord(s, kind) ==
  IF CanMove(s, "failed") THEN SetRecord(s, [Moved(s, "failed") EXCEPT !.failure = kind])
                          ELSE UNCHANGED rec

Fault == faults < MaxFaults /\ faults' = faults + 1 /\ UNCHANGED deaths
Death == deaths < MaxDeaths /\ deaths' = deaths + 1 /\ UNCHANGED faults

Free == [holder |-> Nobody, status |-> "active"]
Held(o) == [holder |-> o, status |-> "active"]

\* A host process is alive from its spawn to its exit.
Alive(s) == host[s] \notin {"none", "exited", "dead"}
\* Mutant: a clear that does not ask whether the holder lives.
LockTaken == lock.holder # Nobody

LockStale ==
  /\ lock.holder # Nobody
  /\ IF lock.holder = Op THEN launcher[Op] = "dead" ELSE ~Alive(lock.holder)

\* managedSessionOwnerLiveness() = "stale": the owner is known and gone.
OwnerStale(s) == rec[s].owner /\ ~Alive(s)

Init ==
  /\ rec = [s \in Session |-> [state |-> "absent", revision |-> 0, owner |-> FALSE,
                               lockId |-> FALSE, failure |-> "none"]]
  /\ launcher = [s \in Session \cup {Op} |-> "idle"]
  /\ snap = [s \in Session |-> {}]
  /\ visit = [s \in Session |-> {}]
  /\ host = [s \in Session |-> "none"]
  /\ begun = [s \in Session |-> 0]
  /\ seen = [s \in Session |-> 0]
  /\ flags = [s \in Session |-> {}]
  /\ port = {}
  /\ listening = {}
  /\ run = [s \in Session |-> "none"]
  /\ lock = Free
  /\ deaths = 0
  /\ faults = 0

-----------------------------------------------------------------------------
(* start(): reconcile, create, spawn, wait.                                *)

LauncherGoes(s, from, to) ==
  /\ launcher[s] = from
  /\ launcher' = [launcher EXCEPT ![s] = to]

\* list(): the records are read now and visited one after the other later.
ListRecords(s) ==
  /\ LauncherGoes(s, "idle", "reconciling")
  /\ snap' = [snap EXCEPT ![s] =
       {[id |-> t, lockId |-> rec[t].lockId] : t \in {u \in Session : rec[u].state \in Active}}]
  /\ UNCHANGED <<rec, visit, hostVars, lock, limits>>

\* An owner that is not proven dead is left alone.
SkipRecord(s) == \E v \in snap[s] :
  /\ launcher[s] = "reconciling" /\ ~OwnerStale(v.id)
  /\ snap' = [snap EXCEPT ![s] = @ \ {v}]
  /\ UNCHANGED <<rec, launcher, visit, hostVars, lock, limits>>

\* inspect, liveness and clear: a lock whose process is gone is cleared,
\* whoever owned it.  clear() decides again under the guard, so the three
\* calls have no outcome that one step has not.
ReconcileLock(s) == \E v \in snap[s] :
  LET stale == LockStale /\ lock.status = "active"
  IN /\ LauncherGoes(s, "reconciling", "marking") /\ OwnerStale(v.id)
     /\ snap' = [snap EXCEPT ![s] = @ \ {v}]
     /\ visit' = [visit EXCEPT ![s] =
          {[id |-> v.id, runId |-> v.lockId,
            cleared |-> ~v.lockId \/ lock = Free \/ stale]}]
     /\ lock' = IF v.lockId /\ stale THEN Free ELSE lock
     /\ UNCHANGED <<rec, hostVars, limits>>

\* A record that has meanwhile become "stopped" refuses: start() throws.
ReconcileRecord(s) == \E v \in visit[s] :
  /\ LauncherGoes(s, "marking", IF rec[v.id].state = "stopped" THEN "threw" ELSE "finalizing")
  /\ FailRecord(v.id, IF v.cleared THEN "stale" ELSE "unresolved")
  /\ UNCHANGED <<snap, visit, hostVars, lock, limits>>

\* A busy update guard ends the whole start; the next start lists again.
ReconcileBusy(s) ==
  /\ Fault
  /\ LauncherGoes(s, "marking", "threw")
  /\ UNCHANGED <<rec, snap, visit, hostVars, lock>>

ReconcileRun(s) == \E v \in visit[s] :
  /\ LauncherGoes(s, "finalizing", "reconciling")
  /\ run' = IF v.runId THEN [run EXCEPT ![v.id] = "failed"] ELSE run
  /\ visit' = [visit EXCEPT ![s] = {}]
  /\ UNCHANGED <<rec, snap, host, begun, seen, flags, port, listening, lock, limits>>

\* create, writeLaunch and spawn.  A launcher killed in between leaves what a
\* host killed before its claim leaves: a record in "creating".
CreateAndSpawn(s) ==
  /\ snap[s] = {} /\ LauncherGoes(s, "reconciling", "waiting")
  /\ SetRecord(s, Moved(s, "creating"))
  /\ host' = [host EXCEPT ![s] = "spawned"]
  /\ UNCHANGED <<snap, visit, begun, seen, flags, port, listening, run, lock, limits>>

\* The poll of every 25 ms: stopping and stopped are not among its answers.
Answer(s) ==
  /\ \/ rec[s].state = "running" /\ LauncherGoes(s, "waiting", "ready")
     \/ rec[s].state = "failed" /\ LauncherGoes(s, "waiting", "threw")
  /\ UNCHANGED <<rec, snap, visit, hostVars, lock, limits>>

\* run() handles SIGTERM from its first line to the end of its try block.
Handles(s) == host[s] \in {"entered", "claimed", "locked", "listening", "serving"}

\* The deadline passed: SIGTERM, which outside run()'s try block kills.
ReadyTimeout(s) ==
  /\ LauncherGoes(s, "waiting", "gave-up")
  /\ IF Handles(s)
       THEN flags' = [flags EXCEPT ![s] = @ \cup {"stop", "failed"}] /\ UNCHANGED <<host, port, listening>>
       ELSE /\ host' = [host EXCEPT ![s] = IF Alive(s) THEN "dead" ELSE @]
            /\ port' = port \ {s} /\ listening' = listening \ {s} /\ UNCHANGED flags
  /\ UNCHANGED <<rec, snap, visit, begun, seen, run, lock, limits>>

\* ... and the record is failed, unless its guard is busy: that is ignored.
GiveUp(s) ==
  /\ LauncherGoes(s, "gave-up", "threw")
  /\ \/ FailRecord(s, "ready-timeout") /\ UNCHANGED limits
     \/ Fault /\ UNCHANGED rec
  /\ UNCHANGED <<snap, visit, hostVars, lock>>

LauncherDies(s) ==
  /\ Death
  /\ launcher[s] \notin {"idle", "ready", "threw", "dead"}
  /\ launcher' = [launcher EXCEPT ![s] = "dead"]
  /\ UNCHANGED <<rec, snap, visit, hostVars, lock>>

-----------------------------------------------------------------------------
(* The host: session-host-entry, then run().                               *)

HostGoes(s, from, to) ==
  /\ host[s] = from
  /\ host' = [host EXCEPT ![s] = to]

\* An exception: cleanup begins with what has been acquired so far.
Abort(s, from, cleanup) ==
  /\ HostGoes(s, from, cleanup)
  /\ flags' = [flags EXCEPT ![s] = @ \cup {"failed"}]

\* session-host-entry reads and removes launch.json, so no second host starts.
TakeLaunch(s) ==
  /\ HostGoes(s, "spawned", "entered")
  /\ UNCHANGED <<rec, launcherVars, begun, seen, flags, port, listening, run, lock, limits>>

\* Mutant: a host that goes on when its claim is refused.
ClaimAnyway(s) ==
  /\ HostGoes(s, "entered", "claimed")
  /\ IF CanMove(s, "starting") THEN SetRecord(s, [Moved(s, "starting") EXCEPT !.owner = TRUE])
                              ELSE UNCHANGED rec
  /\ begun' = [begun EXCEPT ![s] = rec[s].revision + 1]
  /\ UNCHANGED <<launcherVars, seen, flags, port, listening, run, lock, limits>>

claimStart(s) ==
  /\ \/ /\ CanMove(s, "starting") /\ HostGoes(s, "entered", "claimed")
        /\ SetRecord(s, [Moved(s, "starting") EXCEPT !.owner = TRUE])
        /\ begun' = [begun EXCEPT ![s] = rec[s].revision + 1]
        /\ UNCHANGED <<flags, limits>>
     \/ /\ Abort(s, "entered", "reread") /\ UNCHANGED <<rec, begun>>
        /\ IF CanMove(s, "starting") THEN Fault ELSE UNCHANGED limits
  /\ UNCHANGED <<launcherVars, seen, port, listening, run, lock>>

\* runs.create, then locks.acquire: a held lock refuses, even a stale one.
CreateRunAndAcquire(s) ==
  /\ run' = [run EXCEPT ![s] = "running"]
  /\ \/ /\ lock = Free /\ HostGoes(s, "claimed", "locked")
        /\ lock' = Held(s) /\ UNCHANGED flags
     \/ lock # Free /\ Abort(s, "claimed", "finalize") /\ UNCHANGED lock
  /\ UNCHANGED <<rec, launcherVars, begun, seen, port, listening, limits>>

\* Mutant: the session is advertised before its server listens.
OpenOnly(s) ==
  /\ HostGoes(s, "locked", "listening") /\ port' = port \cup {s}
  /\ UNCHANGED <<rec, launcherVars, begun, seen, flags, listening, run, lock, limits>>

\* transport.open, spool.open, control.listen; any of them may fail.
OpenAndListen(s) ==
  /\ \/ /\ HostGoes(s, "locked", "listening") /\ UNCHANGED <<flags, limits>>
        /\ port' = port \cup {s} /\ listening' = listening \cup {s}
     \/ /\ Fault /\ Abort(s, "locked", "close") /\ UNCHANGED listening
        /\ port' \in {port, port \cup {s}}
  /\ UNCHANGED <<rec, launcherVars, begun, seen, run, lock>>

markRunning(s) ==
  LET ok == rec[s].revision = begun[s] /\ CanMove(s, "running")
  IN /\ \/ /\ ok /\ HostGoes(s, "listening", "serving")
           /\ SetRecord(s, [Moved(s, "running") EXCEPT !.lockId = TRUE])
           /\ UNCHANGED <<flags, limits>>
        \/ /\ Abort(s, "listening", "close") /\ UNCHANGED rec
           /\ IF ok THEN Fault ELSE UNCHANGED limits
     /\ UNCHANGED <<launcherVars, begun, seen, port, listening, run, lock>>

\* The control handler of "stop"; the endpoint is public since markRunning.
HandleStop(s) ==
  /\ s \in listening /\ rec[s].lockId
  /\ IF rec[s].state = "running" THEN SetRecord(s, Moved(s, "stopping")) ELSE UNCHANGED rec
  /\ flags' = [flags EXCEPT ![s] = @ \cup {"stop"}]
  /\ UNCHANGED <<launcherVars, host, begun, seen, port, listening, run, lock, limits>>

\* Mutant: the race forgets the stop promise.
RaceWithoutStop(s) ==
  /\ \/ Fault /\ Abort(s, "serving", "close") /\ port' \in {port, port \ {s}}
     \/ lock # Held(s) /\ Abort(s, "serving", "close") /\ UNCHANGED <<port, limits>>
  /\ UNCHANGED <<rec, launcherVars, begun, seen, listening, run, lock>>

\* Promise.race: a stop, or the port, the lock or the spool fails.
RaceEnds(s) ==
  /\ \/ "stop" \in flags[s] /\ HostGoes(s, "serving", "close") /\ UNCHANGED <<flags, port, limits>>
     \/ Fault /\ Abort(s, "serving", "close") /\ port' \in {port, port \ {s}}
     \/ lock # Held(s) /\ Abort(s, "serving", "close") /\ UNCHANGED <<port, limits>>
  /\ UNCHANGED <<rec, launcherVars, begun, seen, listening, run, lock>>

\* control.close, transport.close, spool.close; a port that stays open is "held".
Close(s) ==
  /\ HostGoes(s, "close", "unlock")
  /\ listening' = listening \ {s}
  /\ \/ port' = port \ {s} /\ UNCHANGED <<flags, limits>>
     \/ Fault /\ port' = port \ {s} /\ flags' = [flags EXCEPT ![s] = @ \cup {"failed"}]
     \/ s \in port /\ Fault /\ flags' = [flags EXCEPT ![s] = @ \cup {"failed", "held"}] /\ UNCHANGED port
  /\ UNCHANGED <<rec, launcherVars, begun, seen, run, lock>>

\* Mutants: a failed release is not counted as a failure; a quarantine is not
\* remembered for the record.
UnlockSilently(s) ==
  /\ HostGoes(s, "unlock", "finalize")
  /\ \/ lock = Held(s) /\ lock' = Free /\ UNCHANGED limits
     \/ Fault /\ UNCHANGED lock
  /\ UNCHANGED <<rec, launcherVars, begun, seen, flags, port, listening, run>>
UnlockUnreported(s) ==
  /\ HostGoes(s, "unlock", "finalize")
  /\ lock = Held(s)
  /\ lock' = IF "held" \in flags[s] THEN [lock EXCEPT !.status = "quarantined"] ELSE Free
  /\ UNCHANGED <<rec, launcherVars, begun, seen, flags, port, listening, run, limits>>

\* Release, or quarantine when the port may still be open; both only as owner.
Unlock(s) ==
  /\ HostGoes(s, "unlock", "finalize")
  /\ \/ /\ lock = Held(s) /\ "held" \notin flags[s]
        /\ lock' = Free /\ UNCHANGED <<flags, limits>>
     \/ /\ lock = Held(s) /\ "held" \in flags[s]
        /\ lock' = [lock EXCEPT !.status = "quarantined"]
        /\ flags' = [flags EXCEPT ![s] = @ \cup {"quarantined"}] /\ UNCHANGED limits
     \/ /\ IF lock = Held(s) THEN Fault ELSE UNCHANGED limits
        /\ flags' = [flags EXCEPT ![s] = @ \cup {"failed"}] /\ UNCHANGED lock
  /\ UNCHANGED <<rec, launcherVars, begun, seen, port, listening, run>>

FinalizeRun(s) ==
  /\ HostGoes(s, "finalize", "reread")
  /\ \/ /\ run' = [run EXCEPT ![s] = IF "failed" \in flags[s] THEN "failed" ELSE "succeeded"]
        /\ UNCHANGED <<flags, limits>>
     \/ Fault /\ flags' = [flags EXCEPT ![s] = @ \cup {"failed"}] /\ UNCHANGED run
  /\ UNCHANGED <<rec, launcherVars, begun, seen, port, listening, lock>>

Reread(s) ==
  /\ HostGoes(s, "reread", "mark")
  /\ seen' = [seen EXCEPT ![s] = rec[s].revision]
  /\ UNCHANGED <<rec, launcherVars, begun, flags, port, listening, run, lock, limits>>

\* markFailed or markStopped; a conflict or a busy guard throws out of finally.
MarkEnd(s) ==
  /\ HostGoes(s, "mark", "exiting")
  /\ \/ /\ "failed" \in flags[s] /\ UNCHANGED limits
        /\ FailRecord(s, IF "quarantined" \in flags[s] THEN "host-quarantined" ELSE "host")
     \/ /\ "failed" \notin flags[s] /\ UNCHANGED limits
        /\ rec[s].revision = seen[s] /\ CanMove(s, "stopped")
        /\ SetRecord(s, Moved(s, "stopped"))
     \/ /\ UNCHANGED rec
        /\ IF "failed" \notin flags[s] /\ ~(rec[s].revision = seen[s] /\ CanMove(s, "stopped"))
             THEN UNCHANGED limits ELSE Fault
  /\ UNCHANGED <<launcherVars, begun, seen, flags, port, listening, run, lock>>

\* The system closes what the process still had open.
Ends(s, how) ==
  /\ host' = [host EXCEPT ![s] = how]
  /\ port' = port \ {s}
  /\ listening' = listening \ {s}
  /\ UNCHANGED <<rec, begun, seen, flags, run, lock>>

Exit(s) == host[s] = "exiting" /\ Ends(s, "exited") /\ UNCHANGED <<launcherVars, limits>>
HostDies(s) == Alive(s) /\ Death /\ Ends(s, "dead") /\ UNCHANGED launcherVars

-----------------------------------------------------------------------------
(* The one-shot operation and the operator's clear-stale.                  *)

OpTakes ==
  /\ lock = Free /\ LauncherGoes(Op, "idle", "holding") /\ lock' = Held(Op)
  /\ UNCHANGED <<rec, snap, visit, hostVars, limits>>

OpReleases ==
  /\ lock = Held(Op) /\ LauncherGoes(Op, "holding", "idle") /\ lock' = Free
  /\ UNCHANGED <<rec, snap, visit, hostVars, limits>>

OpDies ==
  /\ Death /\ LauncherGoes(Op, "holding", "dead")
  /\ UNCHANGED <<rec, snap, visit, hostVars, lock>>

OperatorClears ==
  /\ LockStale /\ lock.status = "active" /\ lock' = Free
  /\ UNCHANGED <<rec, launcherVars, hostVars, limits>>

-----------------------------------------------------------------------------
LauncherStep(s) ==
  \/ SkipRecord(s) \/ ReconcileLock(s) \/ ReconcileRecord(s) \/ ReconcileBusy(s)
  \/ ReconcileRun(s) \/ CreateAndSpawn(s) \/ Answer(s) \/ ReadyTimeout(s) \/ GiveUp(s)

HostStep(s) ==
  \/ TakeLaunch(s) \/ claimStart(s) \/ CreateRunAndAcquire(s) \/ OpenAndListen(s)
  \/ markRunning(s) \/ RaceEnds(s) \/ Close(s)
  \/ Unlock(s) \/ FinalizeRun(s) \/ Reread(s) \/ MarkEnd(s) \/ Exit(s)

Next ==
  \/ \E s \in Session :
       ListRecords(s) \/ LauncherStep(s) \/ LauncherDies(s) \/ HostStep(s) \/ HandleStop(s) \/ HostDies(s)
  \/ OpTakes \/ OpReleases \/ OpDies \/ OperatorClears

Spec == Init /\ [][Next]_vars

\* A process that runs takes its next step; nobody has to start, stop or clear.
FairSpec == Spec /\ \A s \in Session : WF_vars(LauncherStep(s)) /\ WF_vars(HostStep(s))

-----------------------------------------------------------------------------
(* Types.  How points, records and the lock go together is in SessionProofs. *)
State == {"absent", "creating", "starting", "running", "stopping", "stopped", "failed"}
Record == [state : State, revision : Nat, owner : BOOLEAN, lockId : BOOLEAN,
           failure : {"none", "stale", "unresolved", "ready-timeout", "host", "host-quarantined"}]

TypeOK ==
  /\ rec \in [Session -> Record]
  /\ launcher \in [Session \cup {Op} ->
       {"idle", "reconciling", "marking", "finalizing", "waiting", "gave-up",
        "ready", "threw", "holding", "dead"}]
  /\ snap \in [Session -> SUBSET [id : Session, lockId : BOOLEAN]]
  /\ visit \in [Session -> SUBSET [id : Session, runId : BOOLEAN, cleared : BOOLEAN]]
  /\ host \in [Session ->
       {"none", "spawned", "entered", "claimed", "locked", "listening", "serving",
        "close", "unlock", "finalize", "reread", "mark", "exiting", "exited", "dead"}]
  /\ begun \in [Session -> Nat] /\ seen \in [Session -> Nat]
  /\ flags \in [Session -> SUBSET {"stop", "failed", "held", "quarantined"}]
  /\ port \subseteq Session /\ listening \subseteq Session
  /\ run \in [Session -> {"none", "running", "succeeded", "failed"}]
  /\ lock \in [holder : Session \cup {Op, Nobody}, status : {"active", "quarantined"}]
  /\ deaths \in 0 .. MaxDeaths /\ faults \in 0 .. MaxFaults

(* The serial port is open only in the host that holds the device lock,    *)
(* whoever dies, gives up, reconciles or clears stale locks meanwhile: the *)
(* host closes it before it releases (session-host.ts finally block), and  *)
(* nobody clears the lock of a process that runs.                          *)
PortUnderLock == \A s \in port : lock.holder = s

(* "stopped" is only written when everything is given back: the port is    *)
(* closed, the lock is not the session's, and its run has succeeded.       *)
StoppedMeansReleased == \A s \in Session :
  rec[s].state = "stopped" => s \notin port /\ lock.holder # s /\ run[s] = "succeeded"

(* A session failed before its host claimed it never touches the device:   *)
(* the host that comes late is refused by claimStart (core.test.js "marks  *)
(* a ready timeout failed before the host can acquire a lock").            *)
FailedBeforeClaim == \A s \in Session :
  rec[s].state = "failed" /\ ~rec[s].owner => lock.holder # s /\ s \notin port /\ run[s] = "none"

(* A session advertised as running is one whose host took the lock,        *)
(* listens and has a run that is not finalized, until that host starts its *)
(* cleanup or dies.                                                        *)
RunningIsServed == \A s \in Session :
  rec[s].state = "running" =>
    \/ host[s] = "serving" /\ s \in listening /\ lock.holder = s /\ run[s] = "running"
    \/ host[s] \in {"close", "unlock", "finalize", "reread", "mark", "exiting", "exited", "dead"}

(* A host that could not close its port and quarantined the lock says so   *)
(* in the failure it records, unless the launcher had already given up.    *)
QuarantineReported == \A s \in Session :
  rec[s].failure = "host" => ~(lock.holder = s /\ lock.status = "quarantined")

(* What a terminal record says is final: no late host, launcher or         *)
(* reconciler rewrites its state or its failure.                           *)
TerminalFinal ==
  [][\A s \in Session : rec[s].state \in Terminal => rec'[s] = rec[s]]_vars

(* Everybody comes to rest: every start answers (ready, failed or timed    *)
(* out) whatever becomes of its host, and a host told to stop by a client  *)
(* or by SIGTERM leaves a terminal record, or at least is gone.            *)
Settled == \A s \in Session :
  /\ launcher[s] \in {"idle", "ready", "threw", "dead"}
  /\ "stop" \in flags[s] => rec[s].state \in Terminal \/ ~Alive(s)

Settles == <>[]Settled
=============================================================================
