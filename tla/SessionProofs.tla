---------------------------- MODULE SessionProofs ----------------------------
(***************************************************************************)
(* Proofs about ManagedSession: for any number of sessions, deaths and     *)
(* failing calls, the port is only open under the lock, a record says what *)
(* its host has really done, and what a terminal record says is final.     *)
(*                                                                         *)
(* The inductive invariant ties three things together that the code keeps  *)
(* in different files and processes: the program point of the host, the    *)
(* state of the durable record, and the holder of the device lock.  A step *)
(* of one session leaves the others alone (Bystander), and a record never  *)
(* goes back (RecordsAdvance), which is what the reconciler's stale copies *)
(* of records rely on (VisitInv).                                          *)
(***************************************************************************)
EXTENDS ManagedSession, TLAPS

Early == {"idle", "reconciling", "marking", "finalizing"}
UnderLock == {"locked", "listening", "serving", "close", "unlock"}
Ending == {"finalize", "reread", "mark", "exiting"}
Over == {"exited", "dead"}

\* A host exists as soon as there is a record; the start that is still
\* reconciling has created neither.
SpawnInv(s) ==
  /\ host[s] = "none" <=> rec[s].state = "absent"
  /\ launcher[s] \in Early => host[s] = "none"

\* Without a claim nothing was acquired.
ClaimInv(s) ==
  /\ rec[s].lockId => rec[s].owner
  /\ ~rec[s].owner =>
       /\ host[s] \in {"none", "spawned", "entered", "reread", "mark", "exiting"} \cup Over
       /\ run[s] = "none"
       /\ lock.holder # s /\ s \notin port

\* From acquire to release the lock is the host's; afterwards only a failed
\* release or a quarantine leaves it behind.
LockInv(s) ==
  /\ host[s] \in UnderLock => lock = Held(s)
  /\ lock.holder = s => host[s] \in UnderLock \cup Ending \cup Over

\* The port is open while the host serves, or it could not be closed.
PortInv(s) ==
  s \in port =>
    /\ lock.holder = s
    /\ \/ host[s] \in {"listening", "serving", "close"}
       \/ host[s] \in {"unlock"} \cup Ending /\ {"held", "failed"} \subseteq flags[s]

\* A cleanup that has not failed has released the lock and ended the run.
CleanInv(s) ==
  /\ "held" \in flags[s] => "failed" \in flags[s]
  /\ host[s] \in {"finalize", "reread", "mark"} /\ "failed" \notin flags[s] => lock.holder # s
  /\ host[s] \in {"reread", "mark"} /\ "failed" \notin flags[s] => run[s] = "succeeded"
  /\ rec[s].state = "stopped" =>
       /\ host[s] \in {"exiting"} \cup Over /\ lock.holder # s
       /\ s \notin port /\ run[s] = "succeeded"

\* Between lock and cleanup the run is running and, once advertised, served.
ServeInv(s) ==
  /\ host[s] \in {"locked", "listening", "serving"} => run[s] = "running"
  /\ host[s] \in {"listening", "serving"} => s \in listening
  /\ rec[s].state = "running" => host[s] \in {"serving", "close", "unlock"} \cup Ending \cup Over

\* The host remembers its quarantine until it has recorded it.
QuarantineInv(s) ==
  /\ lock.holder = s /\ lock.status = "quarantined" => "quarantined" \in flags[s]
  /\ rec[s].failure = "host" =>
       host[s] \in {"exiting"} \cup Over /\ ~(lock.holder = s /\ lock.status = "quarantined")

\* What the reconciler read stays true of the record it will visit: the
\* owner it found dead does not come back.  It visits one record at a time.
VisitInv(s) ==
  /\ \A v, w \in visit[s] : v = w
  /\ \A v \in snap[s] : rec[v.id].state # "absent" /\ (v.lockId => rec[v.id].owner)
  /\ \A v \in visit[s] :
       /\ host[v.id] \in Over
       /\ v.runId => rec[v.id].owner
       /\ launcher[s] = "finalizing" => rec[v.id].state = "failed"

SessionInv(s) ==
  /\ SpawnInv(s) /\ ClaimInv(s) /\ LockInv(s) /\ PortInv(s)
  /\ CleanInv(s) /\ ServeInv(s) /\ QuarantineInv(s)

\* The inductive invariant.
IInv == TypeOK /\ \A s \in Session : SessionInv(s) /\ VisitInv(s)

-----------------------------------------------------------------------------
(* What a step leaves alone.                                               *)

OwnKept(u) ==
  /\ rec'[u] = rec[u] /\ host'[u] = host[u] /\ flags'[u] = flags[u] /\ run'[u] = run[u]
  /\ u \in port' <=> u \in port
  /\ u \in listening' <=> u \in listening

\* The lock did not change, or the session has nothing to do with it.
LockKept(u) == lock' = lock \/ (lock.holder # u /\ lock'.holder # u)

Bystander(u) ==
  /\ OwnKept(u) /\ LockKept(u)
  /\ launcher'[u] = launcher[u] /\ snap'[u] = snap[u] /\ visit'[u] = visit[u]

\* Records, claims and dead hosts stay; a terminal record does not change.
RecordsAdvance == \A t \in Session :
  /\ rec[t].state # "absent" => rec'[t].state # "absent"
  /\ rec[t].owner => rec'[t].owner
  /\ rec[t].state \in Terminal => rec'[t] = rec[t]
  /\ host[t] \in Over => host'[t] \in Over

(* A session keeps its invariant when its own state is left alone and its  *)
(* launcher does not go back before the spawn.                             *)
LEMMA Frame ==
  ASSUME NEW u \in Session, SessionInv(u), OwnKept(u), LockKept(u),
         launcher'[u] \in Early => launcher[u] \in Early
  PROVE  SessionInv(u)'
<1>1. SpawnInv(u)'
  BY DEF SessionInv, SpawnInv, OwnKept
<1>2. ClaimInv(u)'
  BY DEF SessionInv, ClaimInv, OwnKept, LockKept
<1>3. LockInv(u)'
  BY DEF SessionInv, LockInv, OwnKept, LockKept, Held
<1>4. PortInv(u)'
  BY DEF SessionInv, PortInv, OwnKept, LockKept
<1>5. CleanInv(u)'
  BY DEF SessionInv, CleanInv, OwnKept, LockKept
<1>6. ServeInv(u)'
  BY DEF SessionInv, ServeInv, OwnKept
<1>7. QuarantineInv(u)'
  BY DEF SessionInv, QuarantineInv, OwnKept, LockKept
<1>8. QED
  BY <1>1, <1>2, <1>3, <1>4, <1>5, <1>6, <1>7 DEF SessionInv

(* What a reconciler still has to visit stays right while records advance. *)
LEMMA VisitFrame ==
  ASSUME TypeOK, NEW u \in Session, VisitInv(u), RecordsAdvance,
         snap'[u] \subseteq snap[u], visit'[u] \subseteq visit[u],
         launcher'[u] = "finalizing" => launcher[u] = "finalizing"
  PROVE  VisitInv(u)'
<1>1. /\ \A v \in snap[u] : v.id \in Session
      /\ \A v \in visit[u] : v.id \in Session
  BY DEF TypeOK
<1>2. ASSUME NEW v \in snap'[u]
      PROVE  rec'[v.id].state # "absent" /\ (v.lockId => rec'[v.id].owner)
  BY <1>1, <1>2 DEF VisitInv, RecordsAdvance
<1>3. ASSUME NEW v \in visit'[u]
      PROVE  /\ host'[v.id] \in Over
             /\ v.runId => rec'[v.id].owner
             /\ launcher'[u] = "finalizing" => rec'[v.id].state = "failed"
  BY <1>1, <1>3 DEF VisitInv, RecordsAdvance, Terminal
<1>4. \A v, w \in visit'[u] : v = w
  BY DEF VisitInv
<1>5. QED
  BY <1>2, <1>3, <1>4 DEF VisitInv

(* So a step of one session preserves the invariant when it preserves the  *)
(* types and that session's own part.                                      *)
LEMMA StepOfOne ==
  ASSUME IInv, NEW s \in Session, TypeOK', SessionInv(s)', VisitInv(s)',
         RecordsAdvance, \A u \in Session \ {s} : Bystander(u)
  PROVE  IInv'
<1>1. ASSUME NEW u \in Session \ {s} PROVE SessionInv(u)' /\ VisitInv(u)'
  <2>1. SessionInv(u) /\ VisitInv(u) /\ TypeOK
    BY DEF IInv
  <2>2. OwnKept(u) /\ LockKept(u) /\ launcher'[u] = launcher[u] /\ snap'[u] = snap[u] /\ visit'[u] = visit[u]
    BY DEF Bystander
  <2>3. QED
    BY <2>1, <2>2, Frame, VisitFrame
<1>2. QED
  BY <1>1 DEF IInv

(* A step of a host leaves every launcher and every list alone.            *)
LEMMA StepOfHost ==
  ASSUME IInv, NEW s \in Session, TypeOK', SessionInv(s)', UNCHANGED launcherVars,
         RecordsAdvance, \A u \in Session \ {s} : OwnKept(u) /\ LockKept(u)
  PROVE  IInv'
<1>1. UNCHANGED <<launcher, snap, visit>>
  BY DEF launcherVars
<1>2. VisitInv(s)'
  BY <1>1, VisitFrame DEF IInv
<1>3. \A u \in Session \ {s} : Bystander(u)
  BY <1>1 DEF Bystander
<1>4. QED
  BY <1>2, <1>3, StepOfOne

-----------------------------------------------------------------------------
(* The steps of a host that write no record.                               *)

(* Nothing is acquired before the claim.                                   *)
LEMMA TakeLaunchKeeps ==
  ASSUME IInv, NEW s \in Session, TakeLaunch(s)
  PROVE  IInv' /\ RecordsAdvance
<1> USE SessionAssumption DEF TakeLaunch, HostGoes, launcherVars, hostVars, limits
<1>1. TypeOK'
  BY DEF IInv, TypeOK
<1>2. SessionInv(s)'
  BY DEF IInv, TypeOK, SessionInv, SpawnInv, ClaimInv, LockInv, PortInv, CleanInv, ServeInv, QuarantineInv,
         UnderLock, Ending, Over, Early, Held, Free
<1>3. RecordsAdvance
  BY DEF IInv, TypeOK, RecordsAdvance, Over
<1>4. \A u \in Session \ {s} : OwnKept(u) /\ LockKept(u)
  BY DEF IInv, TypeOK, OwnKept, LockKept, SessionInv, LockInv
<1>5. QED
  BY <1>1, <1>2, <1>3, <1>4, StepOfHost

(* The lock is taken when it is free, after the claim.                     *)
LEMMA CreateRunAndAcquireKeeps ==
  ASSUME IInv, NEW s \in Session, CreateRunAndAcquire(s)
  PROVE  IInv' /\ RecordsAdvance
<1> USE SessionAssumption DEF CreateRunAndAcquire, HostGoes, Abort, Held, Free, launcherVars, hostVars, limits
<1>1. TypeOK'
  BY DEF IInv, TypeOK
<1>2. SessionInv(s)'
  BY DEF IInv, TypeOK, SessionInv, SpawnInv, ClaimInv, LockInv, PortInv, CleanInv, ServeInv, QuarantineInv,
         UnderLock, Ending, Over, Early, Held, Free
<1>3. RecordsAdvance
  BY DEF IInv, TypeOK, RecordsAdvance, Over
<1>4. \A u \in Session \ {s} : OwnKept(u) /\ LockKept(u)
  BY DEF IInv, TypeOK, OwnKept, LockKept, SessionInv, LockInv
<1>5. QED
  BY <1>1, <1>2, <1>3, <1>4, StepOfHost

(* The port is opened under the lock, and a failure leads to the cleanup.  *)
LEMMA OpenAndListenKeeps ==
  ASSUME IInv, NEW s \in Session, OpenAndListen(s)
  PROVE  IInv' /\ RecordsAdvance
<1> USE SessionAssumption DEF OpenAndListen, HostGoes, Abort, Fault, launcherVars, hostVars, limits
<1>1. TypeOK'
  BY DEF IInv, TypeOK
<1>2. SessionInv(s)'
  BY DEF IInv, TypeOK, SessionInv, SpawnInv, ClaimInv, LockInv, PortInv, CleanInv, ServeInv, QuarantineInv,
         UnderLock, Ending, Over, Early, Held, Free
<1>3. RecordsAdvance
  BY DEF IInv, TypeOK, RecordsAdvance, Over
<1>4. \A u \in Session \ {s} : OwnKept(u) /\ LockKept(u)
  BY DEF IInv, TypeOK, OwnKept, LockKept, SessionInv, LockInv
<1>5. QED
  BY <1>1, <1>2, <1>3, <1>4, StepOfHost

(* The host holds the lock until its cleanup releases it.                  *)
LEMMA RaceEndsKeeps ==
  ASSUME IInv, NEW s \in Session, RaceEnds(s)
  PROVE  IInv' /\ RecordsAdvance
<1> USE SessionAssumption DEF RaceEnds, HostGoes, Abort, Fault, Held, launcherVars, hostVars, limits
<1>1. TypeOK'
  BY DEF IInv, TypeOK
<1>2. SessionInv(s)'
  BY DEF IInv, TypeOK, SessionInv, SpawnInv, ClaimInv, LockInv, PortInv, CleanInv, ServeInv, QuarantineInv,
         UnderLock, Ending, Over, Early, Held, Free
<1>3. RecordsAdvance
  BY DEF IInv, TypeOK, RecordsAdvance, Over
<1>4. \A u \in Session \ {s} : OwnKept(u) /\ LockKept(u)
  BY DEF IInv, TypeOK, OwnKept, LockKept, SessionInv, LockInv
<1>5. QED
  BY <1>1, <1>2, <1>3, <1>4, StepOfHost

(* A port that stays open is remembered as held.                           *)
LEMMA CloseKeeps ==
  ASSUME IInv, NEW s \in Session, Close(s)
  PROVE  IInv' /\ RecordsAdvance
<1> USE SessionAssumption DEF Close, HostGoes, Fault, launcherVars, hostVars, limits
<1>1. TypeOK'
  BY DEF IInv, TypeOK
<1>2. SessionInv(s)'
  BY DEF IInv, TypeOK, SessionInv, SpawnInv, ClaimInv, LockInv, PortInv, CleanInv, ServeInv, QuarantineInv,
         UnderLock, Ending, Over, Early, Held, Free
<1>3. RecordsAdvance
  BY DEF IInv, TypeOK, RecordsAdvance, Over
<1>4. \A u \in Session \ {s} : OwnKept(u) /\ LockKept(u)
  BY DEF IInv, TypeOK, OwnKept, LockKept, SessionInv, LockInv
<1>5. QED
  BY <1>1, <1>2, <1>3, <1>4, StepOfHost

(* A lock that is not released is a failure; a held port quarantines it.   *)
LEMMA UnlockKeeps ==
  ASSUME IInv, NEW s \in Session, Unlock(s)
  PROVE  IInv' /\ RecordsAdvance
<1> USE SessionAssumption DEF Unlock, HostGoes, Fault, Held, Free, launcherVars, hostVars, limits
<1>1. TypeOK'
  BY DEF IInv, TypeOK
<1>2. SessionInv(s)'
  BY DEF IInv, TypeOK, SessionInv, SpawnInv, ClaimInv, LockInv, PortInv, CleanInv, ServeInv, QuarantineInv,
         UnderLock, Ending, Over, Early, Held, Free
<1>3. RecordsAdvance
  BY DEF IInv, TypeOK, RecordsAdvance, Over
<1>4. \A u \in Session \ {s} : OwnKept(u) /\ LockKept(u)
  BY DEF IInv, TypeOK, OwnKept, LockKept, SessionInv, LockInv
<1>5. QED
  BY <1>1, <1>2, <1>3, <1>4, StepOfHost

(* The run succeeds only when nothing has failed.                          *)
LEMMA FinalizeRunKeeps ==
  ASSUME IInv, NEW s \in Session, FinalizeRun(s)
  PROVE  IInv' /\ RecordsAdvance
<1> USE SessionAssumption DEF FinalizeRun, HostGoes, Fault, launcherVars, hostVars, limits
<1>1. TypeOK'
  BY DEF IInv, TypeOK
<1>2. SessionInv(s)'
  BY DEF IInv, TypeOK, SessionInv, SpawnInv, ClaimInv, LockInv, PortInv, CleanInv, ServeInv, QuarantineInv,
         UnderLock, Ending, Over, Early, Held, Free
<1>3. RecordsAdvance
  BY DEF IInv, TypeOK, RecordsAdvance, Over
<1>4. \A u \in Session \ {s} : OwnKept(u) /\ LockKept(u)
  BY DEF IInv, TypeOK, OwnKept, LockKept, SessionInv, LockInv
<1>5. QED
  BY <1>1, <1>2, <1>3, <1>4, StepOfHost

(* Reading the revision changes nothing the invariant speaks of.           *)
LEMMA RereadKeeps ==
  ASSUME IInv, NEW s \in Session, Reread(s)
  PROVE  IInv' /\ RecordsAdvance
<1> USE SessionAssumption DEF Reread, HostGoes, launcherVars, hostVars, limits
<1>1. TypeOK'
  BY DEF IInv, TypeOK, Record
<1>2. SessionInv(s)'
  BY DEF IInv, TypeOK, SessionInv, SpawnInv, ClaimInv, LockInv, PortInv, CleanInv, ServeInv, QuarantineInv,
         UnderLock, Ending, Over, Early, Held, Free
<1>3. RecordsAdvance
  BY DEF IInv, TypeOK, RecordsAdvance, Over
<1>4. \A u \in Session \ {s} : OwnKept(u) /\ LockKept(u)
  BY DEF IInv, TypeOK, OwnKept, LockKept, SessionInv, LockInv
<1>5. QED
  BY <1>1, <1>2, <1>3, <1>4, StepOfHost

(* The end of the process closes port and server.                          *)
LEMMA ExitKeeps ==
  ASSUME IInv, NEW s \in Session, Exit(s)
  PROVE  IInv' /\ RecordsAdvance
<1> USE SessionAssumption DEF Exit, Ends, launcherVars, hostVars, limits
<1>1. TypeOK'
  BY DEF IInv, TypeOK
<1>2. SessionInv(s)'
  BY DEF IInv, TypeOK, SessionInv, SpawnInv, ClaimInv, LockInv, PortInv, CleanInv, ServeInv, QuarantineInv,
         UnderLock, Ending, Over, Early, Held, Free
<1>3. RecordsAdvance
  BY DEF IInv, TypeOK, RecordsAdvance, Over
<1>4. \A u \in Session \ {s} : OwnKept(u) /\ LockKept(u)
  BY DEF IInv, TypeOK, OwnKept, LockKept, SessionInv, LockInv
<1>5. QED
  BY <1>1, <1>2, <1>3, <1>4, StepOfHost

(* So does its death, at any point; the lock stays behind.                 *)
LEMMA HostDiesKeeps ==
  ASSUME IInv, NEW s \in Session, HostDies(s)
  PROVE  IInv' /\ RecordsAdvance
<1> USE SessionAssumption DEF HostDies, Ends, Death, Alive, launcherVars, hostVars, limits
<1>1. TypeOK'
  BY DEF IInv, TypeOK
<1>2. SessionInv(s)'
  BY DEF IInv, TypeOK, SessionInv, SpawnInv, ClaimInv, LockInv, PortInv, CleanInv, ServeInv, QuarantineInv,
         UnderLock, Ending, Over, Early, Held, Free
<1>3. RecordsAdvance
  BY DEF IInv, TypeOK, RecordsAdvance, Over
<1>4. \A u \in Session \ {s} : OwnKept(u) /\ LockKept(u)
  BY DEF IInv, TypeOK, OwnKept, LockKept, SessionInv, LockInv
<1>5. QED
  BY <1>1, <1>2, <1>3, <1>4, StepOfHost

-----------------------------------------------------------------------------
(* The steps of a start that write no record.                              *)

(* Only its own list gets shorter.                                         *)
LEMMA SkipRecordKeeps ==
  ASSUME IInv, NEW s \in Session, SkipRecord(s)
  PROVE  IInv' /\ RecordsAdvance
<1> USE SessionAssumption DEF SkipRecord, hostVars, limits
<1>1. TypeOK'
  BY DEF IInv, TypeOK, launcherVars
<1>2. SessionInv(s)'
  <2>1. launcher'[s] \in Early => launcher[s] \in Early
    BY DEF IInv, TypeOK, Early
  <2>2. QED
    BY <2>1, Frame DEF IInv, OwnKept, LockKept
<1>3. RecordsAdvance
  BY DEF RecordsAdvance
<1>4. VisitInv(s)'
  BY <1>3, VisitFrame DEF IInv, TypeOK
<1>5. \A u \in Session \ {s} : Bystander(u)
  BY DEF IInv, TypeOK, Bystander, OwnKept, LockKept
<1>6. QED
  BY <1>1, <1>2, <1>3, <1>4, <1>5, StepOfOne

(* A start that ends leaves its list behind.                               *)
LEMMA ReconcileBusyKeeps ==
  ASSUME IInv, NEW s \in Session, ReconcileBusy(s)
  PROVE  IInv' /\ RecordsAdvance
<1> USE SessionAssumption DEF ReconcileBusy, LauncherGoes, Fault, hostVars, limits
<1>1. TypeOK'
  BY DEF IInv, TypeOK, launcherVars
<1>2. SessionInv(s)'
  <2>1. launcher'[s] \in Early => launcher[s] \in Early
    BY DEF IInv, TypeOK, Early
  <2>2. QED
    BY <2>1, Frame DEF IInv, OwnKept, LockKept
<1>3. RecordsAdvance
  BY DEF RecordsAdvance
<1>4. VisitInv(s)'
  BY <1>3, VisitFrame DEF IInv, TypeOK
<1>5. \A u \in Session \ {s} : Bystander(u)
  BY DEF IInv, TypeOK, Bystander, OwnKept, LockKept
<1>6. QED
  BY <1>1, <1>2, <1>3, <1>4, <1>5, StepOfOne

(* The poll changes nothing but the start itself.                          *)
LEMMA AnswerKeeps ==
  ASSUME IInv, NEW s \in Session, Answer(s)
  PROVE  IInv' /\ RecordsAdvance
<1> USE SessionAssumption DEF Answer, LauncherGoes, hostVars, limits
<1>1. TypeOK'
  BY DEF IInv, TypeOK, launcherVars
<1>2. SessionInv(s)'
  <2>1. launcher'[s] \in Early => launcher[s] \in Early
    BY DEF IInv, TypeOK, Early
  <2>2. QED
    BY <2>1, Frame DEF IInv, OwnKept, LockKept
<1>3. RecordsAdvance
  BY DEF RecordsAdvance
<1>4. VisitInv(s)'
  BY <1>3, VisitFrame DEF IInv, TypeOK
<1>5. \A u \in Session \ {s} : Bystander(u)
  BY DEF IInv, TypeOK, Bystander, OwnKept, LockKept
<1>6. QED
  BY <1>1, <1>2, <1>3, <1>4, <1>5, StepOfOne

(* A launcher that dies leaves its list behind.                            *)
LEMMA LauncherDiesKeeps ==
  ASSUME IInv, NEW s \in Session, LauncherDies(s)
  PROVE  IInv' /\ RecordsAdvance
<1> USE SessionAssumption DEF LauncherDies, Death, hostVars, limits
<1>1. TypeOK'
  BY DEF IInv, TypeOK, launcherVars
<1>2. SessionInv(s)'
  <2>1. launcher'[s] \in Early => launcher[s] \in Early
    BY DEF IInv, TypeOK, Early
  <2>2. QED
    BY <2>1, Frame DEF IInv, OwnKept, LockKept
<1>3. RecordsAdvance
  BY DEF RecordsAdvance
<1>4. VisitInv(s)'
  BY <1>3, VisitFrame DEF IInv, TypeOK
<1>5. \A u \in Session \ {s} : Bystander(u)
  BY DEF IInv, TypeOK, Bystander, OwnKept, LockKept
<1>6. QED
  BY <1>1, <1>2, <1>3, <1>4, <1>5, StepOfOne

(* The records it lists are the ones that exist.                           *)
LEMMA ListRecordsKeeps ==
  ASSUME IInv, NEW s \in Session, ListRecords(s)
  PROVE  IInv' /\ RecordsAdvance
<1> USE SessionAssumption DEF ListRecords, LauncherGoes, hostVars, limits
<1>1. /\ snap'[s] \subseteq [id : Session, lockId : BOOLEAN]
      /\ \A v \in snap'[s] : rec[v.id].state # "absent" /\ (v.lockId => rec[v.id].owner)
  <2>1. snap'[s] = {[id |-> t, lockId |-> rec[t].lockId] : t \in {u \in Session : rec[u].state \in Active}}
    BY DEF IInv, TypeOK
  <2>2. \A t \in Session : rec[t].lockId \in BOOLEAN /\ (rec[t].lockId => rec[t].owner)
    BY DEF IInv, TypeOK, Record, SessionInv, ClaimInv
  <2>3. QED
    BY <2>1, <2>2 DEF Active
<1>2. TypeOK'
  BY <1>1 DEF IInv, TypeOK
<1>3. SessionInv(s)'
  BY Frame DEF IInv, OwnKept, LockKept, Early
<1>4. RecordsAdvance
  BY DEF RecordsAdvance
<1>5. VisitInv(s)'
  BY <1>1 DEF IInv, TypeOK, VisitInv
<1>6. \A u \in Session \ {s} : Bystander(u)
  BY DEF IInv, TypeOK, Bystander, OwnKept, LockKept
<1>7. QED
  BY <1>2, <1>3, <1>4, <1>5, <1>6, StepOfOne

(* A lock is cleared only when its holder is over: every session may be    *)
(* the one that held it, so each is looked at.                             *)
LEMMA StaleCleared ==
  ASSUME IInv, NEW u \in Session, LockStale, lock' = Free, OwnKept(u),
         launcher'[u] \in Early => launcher[u] \in Early
  PROVE  SessionInv(u)'
<1> USE SessionAssumption
<1>1. CASE lock.holder # u
  BY <1>1, Frame DEF IInv, LockKept, Free
<1>2. CASE lock.holder = u
  <2>1. host[u] \in Over /\ u \notin port
    BY <1>2 DEF IInv, TypeOK, LockStale, Alive, SessionInv, LockInv, PortInv, UnderLock, Ending, Over
  <2>2. lock'.holder # u /\ SessionInv(u) /\ OwnKept(u)
    BY DEF IInv, Free
  <2>3. SpawnInv(u)' /\ ClaimInv(u)' /\ LockInv(u)' /\ PortInv(u)'
    BY <2>1, <2>2 DEF SessionInv, OwnKept, SpawnInv, ClaimInv, LockInv, PortInv, UnderLock, Over
  <2>4. CleanInv(u)' /\ ServeInv(u)' /\ QuarantineInv(u)'
    BY <2>1, <2>2 DEF SessionInv, OwnKept, CleanInv, ServeInv, QuarantineInv, Over
  <2>5. QED
    BY <2>3, <2>4 DEF SessionInv
<1>3. QED
  BY <1>1, <1>2

(* The lock it clears was nobody's any more, and the owner it found dead   *)
(* is the one whose record it will fail.                                   *)
LEMMA ReconcileLockKeeps ==
  ASSUME IInv, NEW s \in Session, ReconcileLock(s)
  PROVE  IInv' /\ RecordsAdvance
<1> USE SessionAssumption DEF ReconcileLock, LauncherGoes, hostVars, limits
<1>1. PICK v \in snap[s] :
        /\ OwnerStale(v.id) /\ snap' = [snap EXCEPT ![s] = @ \ {v}]
        /\ \E c \in BOOLEAN :
             visit' = [visit EXCEPT ![s] = {[id |-> v.id, runId |-> v.lockId, cleared |-> c]}]
        /\ lock' = lock \/ (LockStale /\ lock' = Free)
  <2>1. PICK v \in snap[s] :
          LET stale == LockStale /\ lock.status = "active"
          IN /\ OwnerStale(v.id) /\ snap' = [snap EXCEPT ![s] = @ \ {v}]
             /\ visit' = [visit EXCEPT ![s] =
                  {[id |-> v.id, runId |-> v.lockId, cleared |-> ~v.lockId \/ lock = Free \/ stale]}]
             /\ lock' = IF v.lockId /\ stale THEN Free ELSE lock
    OBVIOUS
  <2>2. QED
    BY <2>1
<1>2. v.id \in Session /\ v.lockId \in BOOLEAN /\ host[v.id] \in Over /\ (v.lockId => rec[v.id].owner)
  BY <1>1 DEF IInv, TypeOK, OwnerStale, Alive, VisitInv, SessionInv, SpawnInv, Over
<1>3. TypeOK'
  BY <1>1, <1>2 DEF IInv, TypeOK, Free
<1>4. \A u \in Session : OwnKept(u) /\ (launcher'[u] \in Early => launcher[u] \in Early)
  BY DEF IInv, TypeOK, OwnKept, Early
<1>5. ASSUME NEW u \in Session PROVE SessionInv(u)'
  BY <1>1, <1>4, StaleCleared, Frame DEF IInv, LockKept
<1>6. RecordsAdvance
  BY DEF RecordsAdvance
<1>7. ASSUME NEW u \in Session PROVE VisitInv(u)'
  <2>1. CASE u = s
    <3>1. \E c \in BOOLEAN : visit'[s] = {[id |-> v.id, runId |-> v.lockId, cleared |-> c]}
      BY <1>1 DEF IInv, TypeOK
    <3>2. snap'[s] \subseteq snap[s] /\ launcher'[s] = "marking"
      BY <1>1 DEF IInv, TypeOK
    <3>3. QED
      BY <1>2, <2>1, <3>1, <3>2 DEF IInv, VisitInv
  <2>2. CASE u # s
    BY <1>1, <1>6, <2>2, VisitFrame DEF IInv, TypeOK
  <2>3. QED
    BY <2>1, <2>2
<1>8. QED
  BY <1>3, <1>5, <1>6, <1>7 DEF IInv

(* Only the run of a host that is over is finalized for it.                *)
LEMMA ReconcileRunKeeps ==
  ASSUME IInv, NEW s \in Session, ReconcileRun(s)
  PROVE  IInv' /\ RecordsAdvance
<1> USE SessionAssumption DEF ReconcileRun, LauncherGoes, limits
<1>1. PICK v \in visit[s] :
        /\ run' = IF v.runId THEN [run EXCEPT ![v.id] = "failed"] ELSE run
        /\ v.id \in Session /\ host[v.id] \in Over /\ rec[v.id].state = "failed"
        /\ v.runId => rec[v.id].owner
  <2>1. \A v \in visit[s] : v.id \in Session
    BY DEF IInv, TypeOK
  <2>2. /\ launcher[s] = "finalizing"
        /\ \E v \in visit[s] : run' = IF v.runId THEN [run EXCEPT ![v.id] = "failed"] ELSE run
    OBVIOUS
  <2>3. QED
    BY <2>1, <2>2 DEF IInv, VisitInv
<1>2. TypeOK'
  BY <1>1 DEF IInv, TypeOK
<1>3. ASSUME NEW u \in Session PROVE SessionInv(u)'
  <2>1. launcher'[u] \in Early => launcher[u] \in Early
    BY DEF IInv, TypeOK, Early
  <2>2. CASE run'[u] = run[u]
    BY <2>1, <2>2, Frame DEF IInv, OwnKept, LockKept
  <2>3. CASE host[u] \in Over /\ rec[u].state = "failed" /\ rec[u].owner
    BY <2>1, <2>3 DEF IInv, SessionInv, SpawnInv, ClaimInv, LockInv, PortInv, CleanInv, ServeInv,
                      QuarantineInv, UnderLock, Over, Held
  <2>4. QED
    BY <1>1, <2>2, <2>3 DEF IInv, TypeOK
<1>4. RecordsAdvance
  BY DEF RecordsAdvance
<1>5. ASSUME NEW u \in Session PROVE VisitInv(u)'
  BY <1>4, VisitFrame DEF IInv, TypeOK
<1>6. QED
  BY <1>2, <1>3, <1>4, <1>5 DEF IInv

(* A host outside its try block is killed with what it has; one inside     *)
(* it is only asked to stop.                                               *)
LEMMA ReadyTimeoutKeeps ==
  ASSUME IInv, NEW s \in Session, ReadyTimeout(s)
  PROVE  IInv' /\ RecordsAdvance
<1> USE SessionAssumption DEF ReadyTimeout, LauncherGoes, Alive, limits
<1>1. TypeOK'
  BY DEF IInv, TypeOK
<1>2. SessionInv(s)'
  BY DEF IInv, TypeOK, SessionInv, SpawnInv, ClaimInv, LockInv, PortInv, CleanInv, ServeInv, QuarantineInv,
         UnderLock, Ending, Over, Early, Held, Handles
<1>3. RecordsAdvance
  BY DEF IInv, TypeOK, RecordsAdvance, Over
<1>4. VisitInv(s)'
  BY <1>3, VisitFrame DEF IInv, TypeOK
<1>5. \A u \in Session \ {s} : Bystander(u)
  BY DEF IInv, TypeOK, Bystander, OwnKept, LockKept
<1>6. QED
  BY <1>1, <1>2, <1>3, <1>4, <1>5, StepOfOne

(* The operation and the operator change nothing but the lock.             *)
LEMMA StepOfOthers ==
  ASSUME IInv, TypeOK', UNCHANGED <<rec, snap, visit, hostVars>>,
         \A u \in Session : launcher'[u] = launcher[u],
         \A u \in Session : SessionInv(u)'
  PROVE  IInv' /\ RecordsAdvance
<1>1. RecordsAdvance
  BY DEF RecordsAdvance, hostVars
<1>2. ASSUME NEW u \in Session PROVE VisitInv(u)'
  BY <1>1, VisitFrame DEF IInv
<1>3. QED
  BY <1>1, <1>2 DEF IInv

(* The one-shot operation takes a free lock and releases its own.          *)
LEMMA OperationKeeps ==
  ASSUME IInv, OpTakes \/ OpReleases \/ OpDies
  PROVE  IInv' /\ RecordsAdvance
<1> USE SessionAssumption DEF LauncherGoes
<1>1. UNCHANGED <<rec, snap, visit, hostVars>>
  BY DEF OpTakes, OpReleases, OpDies
<1>2. TypeOK'
  BY DEF IInv, TypeOK, OpTakes, OpReleases, OpDies, Held, Free, Death, hostVars, limits
<1>3. \A u \in Session : launcher'[u] = launcher[u]
  BY DEF IInv, TypeOK, OpTakes, OpReleases, OpDies
<1>4. \A u \in Session : LockKept(u)
  BY DEF LockKept, OpTakes, OpReleases, OpDies, Held, Free
<1>5. ASSUME NEW u \in Session PROVE SessionInv(u)'
  BY <1>1, <1>3, <1>4, Frame DEF IInv, OwnKept, hostVars
<1>6. QED
  BY <1>1, <1>2, <1>3, <1>5, StepOfOthers

(* The operator clears the lock of a holder that is over.                  *)
LEMMA OperatorClearsKeeps ==
  ASSUME IInv, OperatorClears
  PROVE  IInv' /\ RecordsAdvance
<1> USE SessionAssumption
<1>1. LockStale /\ lock' = Free /\ UNCHANGED <<rec, launcher, snap, visit, hostVars, limits>>
  BY DEF OperatorClears, launcherVars
<1>2. TypeOK'
  BY <1>1 DEF IInv, TypeOK, Free, hostVars, limits
<1>3. ASSUME NEW u \in Session PROVE SessionInv(u)'
  BY <1>1, StaleCleared DEF OwnKept, hostVars
<1>4. QED
  BY <1>1, <1>2, <1>3, StepOfOthers

-----------------------------------------------------------------------------
(* The steps that write a record.                                          *)

(* Which states transition() allows a move from.                           *)
LEMMA TransitionFacts ==
  ASSUME TypeOK, NEW s \in Session
  PROVE  /\ CanMove(s, "failed") <=> rec[s].state \in {"creating", "starting", "running", "stopping"}
         /\ CanMove(s, "starting") <=> rec[s].state = "creating"
         /\ CanMove(s, "running") <=> rec[s].state = "starting"
         /\ CanMove(s, "stopped") <=> rec[s].state = "stopping"
<1>1. rec[s].state \in State
  BY DEF TypeOK, Record
<1>2. /\ transitions["absent"] = {"creating"}
      /\ transitions["creating"] = {"starting", "failed"}
      /\ transitions["starting"] = {"running", "stopping", "failed"}
      /\ transitions["running"] = {"stopping", "failed"}
      /\ transitions["stopping"] = {"stopped", "failed"}
      /\ transitions["stopped"] = {} /\ transitions["failed"] = {}
  BY DEF transitions
<1>3. QED
  BY <1>1, <1>2 DEF CanMove, State

\* The record of s goes from state p to state q; nothing else of it, and no
\* other record, says something new but what the caller adds.
Advance(s, p, q) ==
  /\ rec' \in [Session -> Record]
  /\ \A t \in Session \ {s} : rec'[t] = rec[t]
  /\ rec[s].state \in p /\ rec'[s].state = q
  /\ rec[s].owner => rec'[s].owner

(* A move changes the state and keeps owner, lock id and failure.          *)
LEMMA MoveFacts ==
  ASSUME TypeOK, NEW s \in Session, NEW q \in State
  PROVE  /\ Moved(s, q) \in Record /\ Moved(s, q).state = q
         /\ Moved(s, q).owner = rec[s].owner /\ Moved(s, q).lockId = rec[s].lockId
         /\ Moved(s, q).failure = rec[s].failure
  BY DEF Moved, TypeOK, Record

(* A write changes one record.                                             *)
LEMMA SetFacts ==
  ASSUME TypeOK, NEW s \in Session, NEW r \in Record, SetRecord(s, r)
  PROVE  rec' \in [Session -> Record] /\ rec'[s] = r /\ \A t \in Session \ {s} : rec'[t] = rec[t]
  BY DEF SetRecord, TypeOK

(* markFailed() fails an open record and leaves a terminal one as it is.   *)
LEMMA FailFacts ==
  ASSUME TypeOK, NEW s \in Session,
         NEW k \in {"stale", "unresolved", "ready-timeout", "host", "host-quarantined"},
         FailRecord(s, k)
  PROVE  \/ rec' = rec /\ rec[s].state \in {"absent", "stopped", "failed"}
         \/ /\ Advance(s, {"creating", "starting", "running", "stopping"}, "failed")
            /\ rec'[s].failure = k /\ rec'[s].owner = rec[s].owner /\ rec'[s].lockId = rec[s].lockId
<1>1. rec[s].state \in State
  BY DEF TypeOK, Record
<1>2. CASE CanMove(s, "failed")
  <2>1. PICK m \in Record :
          /\ m = Moved(s, "failed") /\ m.state = "failed"
          /\ m.owner = rec[s].owner /\ m.lockId = rec[s].lockId
    BY MoveFacts DEF State
  <2>2. PICK n \in Record :
          /\ n = [m EXCEPT !.failure = k] /\ n.failure = k /\ n.state = "failed"
          /\ n.owner = rec[s].owner /\ n.lockId = rec[s].lockId
    <3>1. LET n == [m EXCEPT !.failure = k]
          IN n \in Record /\ n.failure = k /\ n.state = "failed"
             /\ n.owner = rec[s].owner /\ n.lockId = rec[s].lockId
      BY <2>1 DEF Record
    <3>2. QED
      BY <3>1
  <2>3. SetRecord(s, n)
    BY <1>2, <2>1, <2>2 DEF FailRecord
  <2>4. rec[s].state \in {"creating", "starting", "running", "stopping"}
    BY <1>2, TransitionFacts
  <2>5. QED
    BY <2>2, <2>3, <2>4, SetFacts DEF Advance
<1>3. CASE ~CanMove(s, "failed")
  BY <1>1, <1>3, TransitionFacts DEF FailRecord, State
<1>4. QED
  BY <1>2, <1>3

(* A record that leaves a state in which it is still open has advanced.    *)
LEMMA AdvanceIsForward ==
  ASSUME NEW s \in Session, NEW p \in SUBSET (State \ Terminal), NEW q \in State \ {"absent"},
         rec' = rec \/ Advance(s, p, q),
         \A t \in Session : host[t] \in Over => host'[t] \in Over
  PROVE  RecordsAdvance
<1>1. CASE rec' = rec
  BY <1>1 DEF RecordsAdvance
<1>2. CASE Advance(s, p, q)
  BY <1>2 DEF Advance, RecordsAdvance
<1>3. QED
  BY <1>1, <1>2

(* A session is created and its host spawned once.                         *)
LEMMA CreateAndSpawnKeeps ==
  ASSUME IInv, NEW s \in Session, CreateAndSpawn(s)
  PROVE  IInv' /\ RecordsAdvance
<1> USE SessionAssumption DEF CreateAndSpawn, LauncherGoes, limits
<1>1. host[s] = "none" /\ rec[s].state = "absent"
  BY DEF IInv, SessionInv, SpawnInv, Early
<1>2. /\ Advance(s, {"absent"}, "creating") /\ rec'[s].owner = rec[s].owner
      /\ rec'[s].lockId = rec[s].lockId /\ rec'[s].failure = rec[s].failure
  BY <1>1, MoveFacts, SetFacts DEF IInv, State, Advance
<1>3. TypeOK'
  BY <1>2 DEF IInv, TypeOK, Advance
<1>4. SessionInv(s)'
  BY <1>1, <1>2 DEF IInv, TypeOK, Advance, SessionInv, SpawnInv, ClaimInv, LockInv, PortInv, CleanInv,
         ServeInv, QuarantineInv, UnderLock, Ending, Over, Early, Held
<1>5. RecordsAdvance
  BY <1>1, <1>2, AdvanceIsForward DEF IInv, TypeOK, State, Terminal, Over
<1>6. VisitInv(s)'
  BY <1>5, VisitFrame DEF IInv, TypeOK
<1>7. \A u \in Session \ {s} : Bystander(u)
  BY <1>2 DEF IInv, TypeOK, Advance, Bystander, OwnKept, LockKept
<1>8. QED
  BY <1>3, <1>4, <1>5, <1>6, <1>7, StepOfOne

(* Giving up fails an open record, whatever its host is doing.             *)
LEMMA GiveUpKeeps ==
  ASSUME IInv, NEW s \in Session, GiveUp(s)
  PROVE  IInv' /\ RecordsAdvance
<1> USE SessionAssumption DEF GiveUp, LauncherGoes, Fault, hostVars, limits
<1>1. \/ rec' = rec
      \/ /\ Advance(s, {"creating", "starting", "running", "stopping"}, "failed")
         /\ rec'[s].failure = "ready-timeout"
         /\ rec'[s].owner = rec[s].owner /\ rec'[s].lockId = rec[s].lockId
  BY FailFacts DEF IInv
<1>2. TypeOK'
  BY <1>1 DEF IInv, TypeOK, Advance
<1>3. SessionInv(s)'
  BY <1>1 DEF IInv, TypeOK, Advance, SessionInv, SpawnInv, ClaimInv, LockInv, PortInv, CleanInv,
         ServeInv, QuarantineInv, Early
<1>4. RecordsAdvance
  BY <1>1, AdvanceIsForward DEF State, Terminal
<1>5. VisitInv(s)'
  BY <1>4, VisitFrame DEF IInv, TypeOK
<1>6. \A u \in Session \ {s} : Bystander(u)
  BY <1>1 DEF IInv, TypeOK, Advance, Bystander, OwnKept, LockKept
<1>7. QED
  BY <1>2, <1>3, <1>4, <1>5, <1>6, StepOfOne

(* The reconciler writes the record of another session than its own, whose *)
(* host is over: only then does the failure it records change nothing.     *)
LEMMA ReconcileRecordKeeps ==
  ASSUME IInv, NEW s \in Session, ReconcileRecord(s)
  PROVE  IInv' /\ RecordsAdvance
<1> USE SessionAssumption DEF hostVars, limits
<1>1. PICK v \in visit[s] :
        /\ LauncherGoes(s, "marking", IF rec[v.id].state = "stopped" THEN "threw" ELSE "finalizing")
        /\ FailRecord(v.id, IF v.cleared THEN "stale" ELSE "unresolved")
  BY DEF ReconcileRecord
<1>2. UNCHANGED <<snap, visit, hostVars, lock, limits>>
  BY DEF ReconcileRecord
<1>3. v.id \in Session /\ host[v.id] \in Over /\ rec[v.id].state # "absent"
  BY DEF IInv, TypeOK, VisitInv, SessionInv, SpawnInv, Over
<1>4. PICK k \in {"stale", "unresolved"} :
        \/ rec' = rec /\ rec[v.id].state \in {"stopped", "failed"}
        \/ /\ Advance(v.id, {"creating", "starting", "running", "stopping"}, "failed")
           /\ rec'[v.id].failure = k
           /\ rec'[v.id].owner = rec[v.id].owner /\ rec'[v.id].lockId = rec[v.id].lockId
  <2>1. PICK k \in {"stale", "unresolved"} : FailRecord(v.id, k)
    BY <1>1
  <2>2. QED
    BY <1>3, <2>1, FailFacts DEF IInv
<1>5. TypeOK'
  BY <1>1, <1>2, <1>4 DEF IInv, TypeOK, Advance, LauncherGoes
<1>6. \A u \in Session : launcher'[u] \in Early => launcher[u] \in Early
  BY <1>1 DEF IInv, TypeOK, LauncherGoes, Early
<1>7. ASSUME NEW u \in Session PROVE SessionInv(u)'
  <2>1. CASE rec'[u] = rec[u]
    BY <1>2, <1>6, <2>1, Frame DEF IInv, OwnKept, LockKept
  <2>2. CASE u = v.id /\ rec'[u] # rec[u]
    <3>1. /\ rec'[u].state = "failed" /\ rec'[u].failure = k
          /\ rec'[u].owner = rec[u].owner /\ rec'[u].lockId = rec[u].lockId
      BY <1>4, <2>2 DEF Advance
    <3>2. UNCHANGED <<host, flags, run, port, listening, lock>> /\ SessionInv(u) /\ host[u] \in Over
      BY <1>2, <1>3, <2>2 DEF IInv
    <3>3. SpawnInv(u)' /\ ClaimInv(u)' /\ LockInv(u)' /\ PortInv(u)'
      BY <1>6, <3>1, <3>2 DEF SessionInv, SpawnInv, ClaimInv, LockInv, PortInv, UnderLock, Over, Held
    <3>4. CleanInv(u)' /\ ServeInv(u)' /\ QuarantineInv(u)'
      BY <3>1, <3>2 DEF SessionInv, CleanInv, ServeInv, QuarantineInv, Over
    <3>5. QED
      BY <3>3, <3>4 DEF SessionInv
  <2>3. QED
    BY <1>3, <1>4, <2>1, <2>2 DEF Advance
<1>8. RecordsAdvance
  BY <1>2, <1>3, <1>4, AdvanceIsForward DEF State, Terminal
<1>9. ASSUME NEW u \in Session PROVE VisitInv(u)'
  <2>1. CASE u = s /\ launcher'[s] = "finalizing"
    <3>1. rec'[v.id].state = "failed"
      BY <1>1, <1>4, <2>1 DEF IInv, TypeOK, LauncherGoes, Advance
    <3>2. \A w \in visit[s] : w = v
      BY DEF IInv, VisitInv
    <3>3. QED
      BY <1>2, <1>8, <2>1, <3>1, <3>2 DEF IInv, TypeOK, VisitInv, RecordsAdvance
  <2>2. CASE launcher'[u] # "finalizing" \/ u # s
    BY <1>1, <1>2, <1>8, <2>2, VisitFrame DEF IInv, TypeOK, LauncherGoes
  <2>3. QED
    BY <2>1, <2>2
<1>10. QED
  BY <1>5, <1>7, <1>8, <1>9 DEF IInv

(* A stop asks the host and moves a running record to stopping.            *)
LEMMA HandleStopKeeps ==
  ASSUME IInv, NEW s \in Session, HandleStop(s)
  PROVE  IInv' /\ RecordsAdvance
<1> USE SessionAssumption DEF limits
<1>1. \/ rec' = rec
      \/ /\ Advance(s, {"running"}, "stopping") /\ rec'[s].owner = rec[s].owner
         /\ rec'[s].lockId = rec[s].lockId /\ rec'[s].failure = rec[s].failure
  <2>1. CASE rec[s].state = "running" /\ SetRecord(s, Moved(s, "stopping"))
    BY <2>1, MoveFacts, SetFacts DEF IInv, State, Advance
  <2>2. QED
    BY <2>1 DEF HandleStop
<1>2. /\ UNCHANGED <<launcherVars, host, begun, seen, port, listening, run, lock, limits>>
      /\ flags' = [flags EXCEPT ![s] = @ \cup {"stop"}]
  BY DEF HandleStop
<1>3. TypeOK'
  BY <1>1, <1>2 DEF IInv, TypeOK, Advance, launcherVars
<1>4. SessionInv(s)'
  <2>1. /\ SessionInv(s) /\ UNCHANGED <<launcher, host, port, listening, run, lock>>
        /\ \A f \in {"failed", "held", "quarantined"} : f \in flags'[s] <=> f \in flags[s]
    BY <1>2 DEF IInv, TypeOK, launcherVars
  <2>2. /\ rec'[s].owner = rec[s].owner /\ rec'[s].lockId = rec[s].lockId /\ rec'[s].failure = rec[s].failure
        /\ rec'[s].state = rec[s].state \/ (rec[s].state = "running" /\ rec'[s].state = "stopping")
    BY <1>1 DEF Advance
  <2>3. SpawnInv(s)' /\ ClaimInv(s)' /\ LockInv(s)' /\ PortInv(s)'
    BY <2>1, <2>2 DEF SessionInv, SpawnInv, ClaimInv, LockInv, PortInv, Held
  <2>4. CleanInv(s)' /\ ServeInv(s)' /\ QuarantineInv(s)'
    BY <2>1, <2>2 DEF SessionInv, CleanInv, ServeInv, QuarantineInv
  <2>5. QED
    BY <2>3, <2>4 DEF SessionInv
<1>5. RecordsAdvance
  BY <1>1, <1>2, AdvanceIsForward DEF State, Terminal
<1>6. \A u \in Session \ {s} : OwnKept(u) /\ LockKept(u)
  BY <1>1, <1>2 DEF IInv, TypeOK, Advance, OwnKept, LockKept
<1>7. QED
  BY <1>2, <1>3, <1>4, <1>5, <1>6, StepOfHost

(* Only a record in "creating" is claimed; a refused host fails without    *)
(* having acquired anything.                                               *)
LEMMA claimStartKeeps ==
  ASSUME IInv, NEW s \in Session, claimStart(s)
  PROVE  IInv' /\ RecordsAdvance
<1> USE SessionAssumption DEF limits
<1>1. /\ host[s] = "entered"
      /\ \/ /\ rec' = rec /\ begun' = begun /\ host' = [host EXCEPT ![s] = "reread"]
            /\ flags' = [flags EXCEPT ![s] = @ \cup {"failed"}]
         \/ /\ Advance(s, {"creating"}, "starting") /\ rec'[s].owner
            /\ rec'[s].lockId = rec[s].lockId /\ rec'[s].failure = rec[s].failure
            /\ begun' = [begun EXCEPT ![s] = rec[s].revision + 1]
            /\ host' = [host EXCEPT ![s] = "claimed"] /\ flags' = flags
  <2>1. CASE /\ CanMove(s, "starting") /\ HostGoes(s, "entered", "claimed") /\ UNCHANGED flags
             /\ SetRecord(s, [Moved(s, "starting") EXCEPT !.owner = TRUE])
             /\ begun' = [begun EXCEPT ![s] = rec[s].revision + 1]
    <3>1. PICK m \in Record :
            /\ m = Moved(s, "starting") /\ m.state = "starting"
            /\ m.lockId = rec[s].lockId /\ m.failure = rec[s].failure
      BY MoveFacts DEF IInv, State
    <3>2. PICK n \in Record :
            /\ n = [m EXCEPT !.owner = TRUE] /\ n.owner /\ n.state = "starting"
            /\ n.lockId = rec[s].lockId /\ n.failure = rec[s].failure
      <4>1. LET n == [m EXCEPT !.owner = TRUE]
            IN n \in Record /\ n.owner = TRUE /\ n.state = "starting"
               /\ n.lockId = rec[s].lockId /\ n.failure = rec[s].failure
        BY <3>1 DEF Record
      <4>2. QED
        BY <4>1
    <3>3. SetRecord(s, n)
      BY <2>1, <3>1, <3>2
    <3>4. rec[s].state = "creating"
      BY <2>1, TransitionFacts DEF IInv
    <3>5. Advance(s, {"creating"}, "starting") /\ rec'[s] = n
      BY <3>2, <3>3, <3>4, SetFacts DEF IInv, Advance
    <3>6. QED
      BY <2>1, <3>2, <3>5 DEF HostGoes
  <2>2. CASE Abort(s, "entered", "reread") /\ UNCHANGED <<rec, begun>>
    BY <2>2 DEF Abort, HostGoes
  <2>3. QED
    BY <2>1, <2>2 DEF claimStart
<1>2. UNCHANGED <<launcherVars, seen, port, listening, run, lock>> /\ (Fault \/ UNCHANGED limits)
  BY DEF claimStart
<1>3. TypeOK'
  <2>1. begun' \in [Session -> Nat] /\ rec' \in [Session -> Record]
    BY <1>1 DEF IInv, TypeOK, Advance, Record
  <2>2. QED
    BY <1>1, <1>2, <2>1 DEF IInv, TypeOK, Fault, launcherVars
<1>4. SessionInv(s)'
  BY <1>1, <1>2 DEF IInv, TypeOK, Advance, launcherVars, SessionInv, SpawnInv, ClaimInv, LockInv, PortInv,
         CleanInv, ServeInv, QuarantineInv, UnderLock, Ending, Over, Early
<1>5. \A t \in Session : host[t] \in Over => host'[t] \in Over
  BY <1>1 DEF IInv, TypeOK, Over
<1>6. RecordsAdvance
  BY <1>1, <1>5, AdvanceIsForward DEF State, Terminal
<1>7. \A u \in Session \ {s} : OwnKept(u) /\ LockKept(u)
  BY <1>1, <1>2 DEF IInv, TypeOK, Advance, OwnKept, LockKept
<1>8. QED
  BY <1>2, <1>3, <1>4, <1>6, <1>7, StepOfHost

(* A record is running only from "starting", with the lock held and the    *)
(* server listening.                                                       *)
LEMMA markRunningKeeps ==
  ASSUME IInv, NEW s \in Session, markRunning(s)
  PROVE  IInv' /\ RecordsAdvance
<1> USE SessionAssumption DEF limits
<1>1. /\ host[s] = "listening"
      /\ \/ /\ rec' = rec /\ host' = [host EXCEPT ![s] = "close"]
            /\ flags' = [flags EXCEPT ![s] = @ \cup {"failed"}]
         \/ /\ Advance(s, {"starting"}, "running") /\ rec'[s].lockId
            /\ rec'[s].owner = rec[s].owner /\ rec'[s].failure = rec[s].failure
            /\ host' = [host EXCEPT ![s] = "serving"] /\ flags' = flags
  <2>1. CASE /\ CanMove(s, "running") /\ HostGoes(s, "listening", "serving") /\ UNCHANGED flags
             /\ SetRecord(s, [Moved(s, "running") EXCEPT !.lockId = TRUE])
    <3>1. PICK m \in Record :
            /\ m = Moved(s, "running") /\ m.state = "running"
            /\ m.owner = rec[s].owner /\ m.failure = rec[s].failure
      BY MoveFacts DEF IInv, State
    <3>2. PICK n \in Record :
            /\ n = [m EXCEPT !.lockId = TRUE] /\ n.lockId /\ n.state = "running"
            /\ n.owner = rec[s].owner /\ n.failure = rec[s].failure
      <4>1. LET n == [m EXCEPT !.lockId = TRUE]
            IN n \in Record /\ n.lockId = TRUE /\ n.state = "running"
               /\ n.owner = rec[s].owner /\ n.failure = rec[s].failure
        BY <3>1 DEF Record
      <4>2. QED
        BY <4>1
    <3>3. SetRecord(s, n)
      BY <2>1, <3>1, <3>2
    <3>4. rec[s].state = "starting"
      BY <2>1, TransitionFacts DEF IInv
    <3>5. Advance(s, {"starting"}, "running") /\ rec'[s] = n
      BY <3>2, <3>3, <3>4, SetFacts DEF IInv, Advance
    <3>6. QED
      BY <2>1, <3>2, <3>5 DEF HostGoes
  <2>2. CASE Abort(s, "listening", "close") /\ UNCHANGED rec
    BY <2>2 DEF Abort, HostGoes
  <2>3. QED
    BY <2>1, <2>2 DEF markRunning
<1>2. UNCHANGED <<launcherVars, begun, seen, port, listening, run, lock>> /\ (Fault \/ UNCHANGED limits)
  BY DEF markRunning
<1>3. TypeOK'
  BY <1>1, <1>2 DEF IInv, TypeOK, Advance, Fault, launcherVars
<1>4. SessionInv(s)'
  BY <1>1, <1>2 DEF IInv, TypeOK, Advance, launcherVars, SessionInv, SpawnInv, ClaimInv, LockInv, PortInv,
         CleanInv, ServeInv, QuarantineInv, UnderLock, Ending, Over, Early
<1>5. \A t \in Session : host[t] \in Over => host'[t] \in Over
  BY <1>1 DEF IInv, TypeOK, Over
<1>6. RecordsAdvance
  BY <1>1, <1>5, AdvanceIsForward DEF State, Terminal
<1>7. \A u \in Session \ {s} : OwnKept(u) /\ LockKept(u)
  BY <1>1, <1>2 DEF IInv, TypeOK, Advance, OwnKept, LockKept
<1>8. QED
  BY <1>2, <1>3, <1>4, <1>6, <1>7, StepOfHost

(* "stopped" is only written by a cleanup without a failure, and "host"    *)
(* only by one that did not quarantine the lock.                           *)
LEMMA MarkEndKeeps ==
  ASSUME IInv, NEW s \in Session, MarkEnd(s)
  PROVE  IInv' /\ RecordsAdvance
<1> USE SessionAssumption DEF limits
<1>1. /\ host[s] = "mark" /\ host' = [host EXCEPT ![s] = "exiting"]
      /\ UNCHANGED <<launcherVars, begun, seen, flags, port, listening, run, lock>>
      /\ Fault \/ UNCHANGED limits
  BY DEF MarkEnd, HostGoes
<1>2. PICK q \in Terminal :
        \/ rec' = rec
        \/ /\ Advance(s, {"creating", "starting", "running", "stopping"}, q)
           /\ rec'[s].owner = rec[s].owner /\ rec'[s].lockId = rec[s].lockId
           /\ \/ rec'[s].failure = "host-quarantined" /\ q = "failed"
              \/ rec'[s].failure = "host" /\ q = "failed" /\ "quarantined" \notin flags[s]
              \/ rec'[s].failure = rec[s].failure /\ q = "stopped" /\ "failed" \notin flags[s]
  <2>1. CASE FailRecord(s, "host-quarantined")
    BY <2>1, FailFacts DEF IInv, Terminal
  <2>2. CASE FailRecord(s, "host") /\ "quarantined" \notin flags[s]
    BY <2>2, FailFacts DEF IInv, Terminal
  <2>3. CASE CanMove(s, "stopped") /\ SetRecord(s, Moved(s, "stopped")) /\ "failed" \notin flags[s]
    <3>1. rec[s].state = "stopping"
      BY <2>3, TransitionFacts DEF IInv
    <3>2. QED
      BY <2>3, <3>1, MoveFacts, SetFacts DEF IInv, State, Terminal, Advance
  <2>4. QED
    BY <2>1, <2>2, <2>3 DEF MarkEnd, Terminal
<1>3. TypeOK'
  BY <1>1, <1>2 DEF IInv, TypeOK, Advance, Fault, launcherVars
<1>4. SessionInv(s)'
  BY <1>1, <1>2 DEF IInv, TypeOK, Advance, Terminal, launcherVars, SessionInv, SpawnInv, ClaimInv, LockInv,
         PortInv, CleanInv, ServeInv, QuarantineInv, UnderLock, Ending, Over, Early
<1>5. \A t \in Session : host[t] \in Over => host'[t] \in Over
  BY <1>1 DEF IInv, TypeOK, Over
<1>6. RecordsAdvance
  BY <1>2, <1>5, AdvanceIsForward DEF State, Terminal
<1>7. \A u \in Session \ {s} : OwnKept(u) /\ LockKept(u)
  BY <1>1, <1>2 DEF IInv, TypeOK, Advance, OwnKept, LockKept
<1>8. QED
  BY <1>1, <1>3, <1>4, <1>6, <1>7, StepOfHost

-----------------------------------------------------------------------------
(* The invariant, and what follows from it.                                *)

(* Nothing exists initially.                                               *)
LEMMA InitIInv ==
  Init => IInv
<1> SUFFICES ASSUME Init PROVE IInv
  OBVIOUS
<1> USE SessionAssumption DEF Init
<1>1. TypeOK
  BY DEF TypeOK, Record, State, Free
<1>2. ASSUME NEW s \in Session PROVE SessionInv(s)
  BY DEF SessionInv, SpawnInv, ClaimInv, LockInv, PortInv, CleanInv, ServeInv, QuarantineInv,
         UnderLock, Ending, Over, Free
<1>3. ASSUME NEW s \in Session PROVE VisitInv(s)
  BY DEF VisitInv
<1>4. QED
  BY <1>1, <1>2, <1>3 DEF IInv

(* Every step keeps the invariant, and records advance.                    *)
LEMMA NextIInv ==
  ASSUME IInv, [Next]_vars
  PROVE  IInv' /\ RecordsAdvance
<1>1. ASSUME NEW s \in Session, LauncherStep(s) \/ ListRecords(s) \/ LauncherDies(s)
      PROVE  IInv' /\ RecordsAdvance
  BY <1>1, ListRecordsKeeps, SkipRecordKeeps, ReconcileLockKeeps, ReconcileRecordKeeps, ReconcileBusyKeeps,
     ReconcileRunKeeps, CreateAndSpawnKeeps, AnswerKeeps, ReadyTimeoutKeeps, GiveUpKeeps, LauncherDiesKeeps
     DEF LauncherStep
<1>2. ASSUME NEW s \in Session, HostStep(s) \/ HandleStop(s) \/ HostDies(s)
      PROVE  IInv' /\ RecordsAdvance
  BY <1>2, TakeLaunchKeeps, claimStartKeeps, CreateRunAndAcquireKeeps, OpenAndListenKeeps, markRunningKeeps,
     RaceEndsKeeps, CloseKeeps, UnlockKeeps, FinalizeRunKeeps, RereadKeeps, MarkEndKeeps, ExitKeeps,
     HandleStopKeeps, HostDiesKeeps
     DEF HostStep
<1>3. CASE OpTakes \/ OpReleases \/ OpDies \/ OperatorClears
  BY <1>3, OperationKeeps, OperatorClearsKeeps
<1>4. CASE UNCHANGED vars
  <2>1. UNCHANGED <<rec, launcher, snap, visit, host, begun, seen, flags, port, listening, run, lock, deaths, faults>>
    BY <1>4 DEF vars, launcherVars, hostVars, limits
  <2>2. TypeOK'
    BY <2>1 DEF IInv, TypeOK
  <2>3. ASSUME NEW u \in Session PROVE SessionInv(u)'
    BY <2>1, Frame DEF IInv, OwnKept, LockKept
  <2>4. QED
    BY <2>1, <2>2, <2>3, StepOfOthers DEF hostVars
<1>5. QED
  BY <1>1, <1>2, <1>3, <1>4 DEF Next

(* The inductive invariant holds in every state of every run.              *)
THEOREM SessionInvariant == Spec => []IInv
<1>1. IInv /\ [Next]_vars => IInv'
  BY NextIInv
<1>2. QED
  BY InitIInv, <1>1, PTL DEF Spec

(* Records, hosts, launchers and the lock stay in their types: no update   *)
(* writes a state that schema or state diagram do not know.                *)
THEOREM TypeInvariant == Spec => []TypeOK
<1>1. IInv => TypeOK
  BY DEF IInv
<1>2. QED
  BY SessionInvariant, <1>1, PTL

(* The serial port is open only in the host that holds the device lock.    *)
THEOREM PortGuarded == Spec => []PortUnderLock
<1>1. IInv => PortUnderLock
  BY DEF IInv, TypeOK, SessionInv, PortInv, PortUnderLock
<1>2. QED
  BY SessionInvariant, <1>1, PTL

(* A record says "stopped" only after everything was given back.           *)
THEOREM StoppedIsTrue == Spec => []StoppedMeansReleased
<1>1. IInv => StoppedMeansReleased
  BY DEF IInv, SessionInv, CleanInv, StoppedMeansReleased
<1>2. QED
  BY SessionInvariant, <1>1, PTL

(* A session that failed before its host's claim never gets at the device. *)
THEOREM LateHostRefused == Spec => []FailedBeforeClaim
<1>1. IInv => FailedBeforeClaim
  BY DEF IInv, SessionInv, ClaimInv, FailedBeforeClaim
<1>2. QED
  BY SessionInvariant, <1>1, PTL

(* A session advertised as running has a host that serves it, cleans up or *)
(* is over.                                                                *)
THEOREM RunningIsTrue == Spec => []RunningIsServed
<1>1. IInv => RunningIsServed
  <2> SUFFICES ASSUME IInv, NEW s \in Session, rec[s].state = "running"
               PROVE  \/ host[s] = "serving" /\ s \in listening /\ lock.holder = s /\ run[s] = "running"
                      \/ host[s] \in {"close", "unlock", "finalize", "reread", "mark",
                                      "exiting", "exited", "dead"}
    BY DEF RunningIsServed
  <2> QED
    BY DEF IInv, SessionInv, ServeInv, LockInv, UnderLock, Ending, Over, Held
<1>2. QED
  BY SessionInvariant, <1>1, PTL

(* A quarantined lock is named in the failure its host records.            *)
THEOREM QuarantineIsTold == Spec => []QuarantineReported
<1>1. IInv => QuarantineReported
  BY DEF IInv, SessionInv, QuarantineInv, QuarantineReported
<1>2. QED
  BY SessionInvariant, <1>1, PTL

(* No late host, launcher or reconciler rewrites a terminal record.        *)
THEOREM TerminalIsFinal == Spec => TerminalFinal
<1>1. IInv /\ [Next]_vars => [\A s \in Session : rec[s].state \in Terminal => rec'[s] = rec[s]]_vars
  BY NextIInv DEF RecordsAdvance
<1>2. QED
  BY SessionInvariant, <1>1, PTL DEF Spec, TerminalFinal
=============================================================================
