----------------------------- MODULE DeviceLock -----------------------------
(***************************************************************************)
(* The lock of one device: src/core/locks/lock-manager.ts, driven as       *)
(* src/core/operations/operation-runner.ts drives it (acquire, heartbeat   *)
(* lease, work, stop the lease, then release or quarantine), with the      *)
(* operator's commands clear and clear-stale.                              *)
(*                                                                         *)
(* Abstractions: an owner is one call of acquire, that is one owner token  *)
(* and the process that drew it; the update guard is the mutual exclusion  *)
(* that FileGuard shows it to be, with the two ways it fails its user: the *)
(* busy timeout, and a guard file its dead creator left without text; time *)
(* is the step Expire, by which a record's lease and grace run out.        *)
(***************************************************************************)
EXTENDS Naturals, FiniteSets

CONSTANTS
  Owner,       \* ownership attempts
  Operator,    \* processes that run lock commands
  Host,        \* the machine and the user of each process
  Confirm,     \* the sets of --dangerously-clear-* flags operators pass
  MaxCommands, \* bound: commands per operator
  MaxDeaths,   \* bound: processes that die
  GuardWedges, \* whether a process may die having created the guard file and
               \*   not written it
  None         \* not a process

ASSUME OwnerAssumption ==
  /\ Owner \cap Operator = {}
  /\ None \notin Owner \cup Operator
ASSUME ConfirmAssumption == Confirm \subseteq SUBSET {"active", "quarantined"}
ASSUME BoundAssumption == MaxCommands \in Nat /\ MaxDeaths \in Nat
ASSUME WedgeAssumption == GuardWedges \in BOOLEAN

Process == Owner \cup Operator

\* owner.json, published and removed together with its directory.
State == {"active", "quarantined", "quarantine-failed"}
RecordOf(o, s) == [owner |-> o, state |-> s, expired |-> FALSE]
NoRecord == RecordOf(None, "absent")
Record ==
  {NoRecord} \cup [owner : Owner, state : State, expired : BOOLEAN]

OwnerPoint ==
  {"idle", "staged", "holderRead", "emptyCheck",             \* acquire
   "working", "stopLease",                                   \* the operation
   "relEnter", "relRename",                                  \* release
   "quarEnter", "quarWrite",                                 \* quarantine
   "recordFailure", "markEnter", "markWrite",                \*   and its failure
   "done"}
OperatorPoint == {"ready", "clearEnter", "clearRead", "clearRename"}
LeasePoint == {"off", "wait", "enter", "reread", "write", "lost"}
Outcome ==
  {"none", "busy", "device-quarantined", "corrupt", "released", "gone",
   "ownership-lost", "still-locked", "quarantined", "quarantine-failed",
   "manual-recovery"}

VARIABLES
  rec,       \* the lock record
  guard,     \* who is in the guarded section; "wedged" for an empty guard file
  pc,        \* where each process is
  attempt,   \* acquire's argument attempts
  lease,     \* where the heartbeat loop of each owner is
  seen,      \* the record a process read last
  flags,     \* the confirmations of an operator's command
  commands,  \* commands an operator has started
  outcome,   \* how an owner's call of acquire or its ownership ended
  recovery,  \* the manual-recovery record exists
  alive,     \* the processes that have not died
  cleared    \* history: owners whose lock an operator cleared

vars ==
  <<rec, guard, pc, attempt, lease, seen, flags, commands, outcome, recovery,
    alive, cleared>>

At(p, l) == p \in alive /\ pc[p] = l
Goto(p, l) == pc' = [pc EXCEPT ![p] = l]
End(o, out) == Goto(o, "done") /\ outcome' = [outcome EXCEPT ![o] = out]

\* A variable of the code that goes out of scope.
Forget(p) == seen' = [seen EXCEPT ![p] = NoRecord]

\* LockManager.liveness(record) = "stale" for process p. A process of another user,
\* whose probe is refused (EPERM), goes by its expiry as one of another machine
\* does; that it is gone (ESRCH) may be known before it expires.
IsStale(p, r) ==
  IF Host[r.owner] = Host[p] THEN r.owner \notin alive ELSE r.expired

Present == rec # NoRecord
Mine(o) == Present /\ rec.owner = o

Init ==
  /\ rec = NoRecord
  /\ guard = None
  /\ pc = [p \in Process |-> IF p \in Owner THEN "idle" ELSE "ready"]
  /\ attempt = [o \in Owner |-> 0]
  /\ lease = [o \in Owner |-> "off"]
  /\ seen = [p \in Process |-> NoRecord]
  /\ flags = [c \in Operator |-> {}]
  /\ commands = [c \in Operator |-> 0]
  /\ outcome = [o \in Owner |-> "none"]
  /\ recovery = FALSE
  /\ alive = Process
  /\ cleared = {}

-----------------------------------------------------------------------------
(* withGuard                                                               *)

\* Mutant of CanEnter: no guard.
CanAlwaysEnter == TRUE

\* The guard can be had: it is free, or its holder died and it is recovered.
CanEnter == guard = None \/ guard \in Process \ alive
Enter(p) == CanEnter /\ guard' = p
\* Ten seconds pass while the guard is in use: LOCK_GUARD_BUSY.
GuardBusy == guard # None /\ UNCHANGED guard

-----------------------------------------------------------------------------
(* acquire                                                                 *)

\* The token is drawn and the staging directory written, private to the token.
Stage(o) ==
  /\ At(o, "idle")
  /\ Goto(o, "staged")
  /\ UNCHANGED <<rec, guard, attempt, lease, seen, flags, commands, outcome,
                 recovery, alive, cleared>>

\* fs.rename(staging, directory), and startHeartbeat once it has succeeded.
Publish(o) ==
  /\ At(o, "staged")
  /\ \/ /\ ~Present
        /\ rec' = RecordOf(o, "active")
        /\ lease' = [lease EXCEPT ![o] = "wait"]
        /\ Goto(o, "working")
     \/ /\ Present
        /\ Goto(o, "holderRead")
        /\ UNCHANGED <<rec, lease>>
  /\ UNCHANGED <<guard, attempt, seen, flags, commands, outcome, recovery,
                 alive, cleared>>

\* The directory was there: read its holder, to tell busy from quarantined.
\* It may be gone again by now, which one retry is for.
HolderRead(o) ==
  /\ At(o, "holderRead")
  /\ IF Present
       THEN End(o, IF rec.state = "active" THEN "busy" ELSE "device-quarantined")
       ELSE IF attempt[o] >= 1
              THEN End(o, "corrupt")
              ELSE Goto(o, "emptyCheck") /\ UNCHANGED outcome
  /\ UNCHANGED <<rec, guard, attempt, lease, seen, flags, commands, recovery,
                 alive, cleared>>

\* clearEmptyDirectory, and acquire(..., attempts + 1).
EmptyCheck(o) ==
  /\ At(o, "emptyCheck")
  /\ IF Present
       THEN End(o, "corrupt") /\ UNCHANGED attempt
       ELSE /\ Goto(o, "idle")
            /\ attempt' = [attempt EXCEPT ![o] = @ + 1]
            /\ UNCHANGED outcome
  /\ UNCHANGED <<rec, guard, lease, seen, flags, commands, recovery, alive,
                 cleared>>

-----------------------------------------------------------------------------
(* heartbeat, run by the loop of startHeartbeat until the lease is stopped *)

\* Mutant of StillMine: heartbeat forgets to compare the owner tokens.
StillSomeones(o) == Present /\ rec.state = "active"

StillMine(o) == Mine(o) /\ rec.state = "active"

\* The interval is over.  A loop whose lease was stopped ends instead.
LeaseWake(o) ==
  /\ o \in alive
  /\ lease[o] = "wait"
  /\ lease' = [lease EXCEPT ![o] = IF pc[o] = "working" THEN "enter" ELSE "off"]
  /\ UNCHANGED <<rec, guard, pc, attempt, seen, flags, commands, outcome,
                 recovery, alive, cleared>>

\* Take the guard and read the record; whatever goes wrong ends the loop and
\* rejects lease.lost.
LeaseEnter(o) ==
  /\ o \in alive
  /\ lease[o] = "enter"
  /\ \/ /\ StillMine(o)
        /\ Enter(o)
        /\ lease' = [lease EXCEPT ![o] = "reread"]
     \/ /\ ~StillMine(o)
        /\ CanEnter /\ guard' = None
        /\ lease' = [lease EXCEPT ![o] = "lost"]
     \/ /\ GuardBusy
        /\ lease' = [lease EXCEPT ![o] = "lost"]
  /\ UNCHANGED <<rec, pc, attempt, seen, flags, commands, outcome, recovery,
                 alive, cleared>>

LeaseReread(o) ==
  /\ o \in alive
  /\ lease[o] = "reread"
  /\ IF StillMine(o)
       THEN /\ seen' = [seen EXCEPT ![o] = rec]
            /\ lease' = [lease EXCEPT ![o] = "write"]
            /\ UNCHANGED guard
       ELSE /\ lease' = [lease EXCEPT ![o] = "lost"]
            /\ guard' = None
            /\ UNCHANGED seen
  /\ UNCHANGED <<rec, pc, attempt, flags, commands, outcome, recovery, alive,
                 cleared>>

\* atomicJson: the record read, with a new expiry, whatever is there by now.
LeaseWrite(o) ==
  /\ o \in alive
  /\ lease[o] = "write"
  /\ rec' = [seen[o] EXCEPT !.expired = FALSE]
  /\ Forget(o)
  /\ guard' = None
  /\ lease' = [lease EXCEPT ![o] = "wait"]
  /\ UNCHANGED <<pc, attempt, flags, commands, outcome, recovery, alive,
                 cleared>>

-----------------------------------------------------------------------------
(* The end of an operation                                                 *)

\* The work is over, or the operation was aborted; the registered cleanups have
\* run.
Finish(o) ==
  /\ At(o, "working")
  /\ Goto(o, "stopLease")
  /\ UNCHANGED <<rec, guard, attempt, lease, seen, flags, commands, outcome,
                 recovery, alive, cleared>>

\* LockLease.stop() waits for the loop.  Then a failed cleanup that may still
\* hold the physical resource quarantines the lock, and any other end releases.
StopLease(o) ==
  /\ At(o, "stopLease")
  /\ lease[o] \in {"off", "lost"}
  /\ \E l \in {"relEnter", "quarEnter"} : Goto(o, l)
  /\ UNCHANGED <<rec, guard, attempt, lease, seen, flags, commands, outcome,
                 recovery, alive, cleared>>

\* Mutant of ReleaseEnter and ReleaseRename together: whatever record is there
\* is removed under the guard.
ReleaseAnyones(o) ==
  /\ At(o, "relEnter")
  /\ CanEnter
  /\ guard' = None
  /\ rec' = NoRecord
  /\ End(o, "released")
  /\ UNCHANGED <<attempt, lease, seen, flags, commands, recovery, alive, cleared>>

\* release: the guarded read ...
ReleaseEnter(o) ==
  /\ At(o, "relEnter")
  /\ \/ /\ CanEnter
        /\ IF Mine(o) /\ rec.state = "active"
             THEN guard' = o /\ Goto(o, "relRename") /\ UNCHANGED outcome
             ELSE /\ guard' = None
                  /\ End(o, IF ~Present THEN "gone"
                            ELSE IF Mine(o) THEN "quarantined"
                            ELSE "ownership-lost")
     \/ /\ GuardBusy
        /\ End(o, "still-locked")
  /\ UNCHANGED <<rec, attempt, lease, seen, flags, commands, recovery, alive,
                 cleared>>

\* ... the second look at the token, and the rename to a tombstone.
ReleaseRename(o) ==
  /\ At(o, "relRename")
  /\ IF Mine(o) THEN rec' = NoRecord /\ End(o, "released")
                ELSE End(o, "ownership-lost") /\ UNCHANGED rec
  /\ guard' = None
  /\ UNCHANGED <<attempt, lease, seen, flags, commands, recovery, alive, cleared>>

\* quarantine, and what the operation does when it fails.
QuarantineEnter(o) ==
  /\ At(o, "quarEnter")
  /\ \/ /\ CanEnter
        /\ IF Mine(o)
             THEN /\ guard' = o
                  /\ seen' = [seen EXCEPT ![o] = rec]
                  /\ Goto(o, "quarWrite") /\ UNCHANGED outcome
             ELSE guard' = None /\ End(o, "ownership-lost") /\ UNCHANGED seen
     \/ /\ GuardBusy
        /\ Goto(o, "recordFailure")
        /\ UNCHANGED <<outcome, seen>>
  /\ UNCHANGED <<rec, attempt, lease, flags, commands, recovery, alive, cleared>>

QuarantineWrite(o) ==
  /\ At(o, "quarWrite")
  /\ rec' = [seen[o] EXCEPT !.state = "quarantined"]
  /\ Forget(o)
  /\ guard' = None
  /\ End(o, "quarantined")
  /\ UNCHANGED <<attempt, lease, flags, commands, recovery, alive, cleared>>

\* recordQuarantineFailure, outside the guard ...
RecordFailure(o) ==
  /\ At(o, "recordFailure")
  /\ recovery' = TRUE
  /\ Goto(o, "markEnter")
  /\ UNCHANGED <<rec, guard, attempt, lease, seen, flags, commands, outcome,
                 alive, cleared>>

\* ... and markQuarantineFailed, whose failure is swallowed.
MarkEnter(o) ==
  /\ At(o, "markEnter")
  /\ \/ /\ CanEnter
        /\ IF Mine(o)
             THEN /\ guard' = o
                  /\ seen' = [seen EXCEPT ![o] = rec]
                  /\ Goto(o, "markWrite") /\ UNCHANGED outcome
             ELSE guard' = None /\ End(o, "manual-recovery") /\ UNCHANGED seen
     \/ /\ GuardBusy
        /\ End(o, "manual-recovery")
        /\ UNCHANGED seen
  /\ UNCHANGED <<rec, attempt, lease, flags, commands, recovery, alive, cleared>>

MarkWrite(o) ==
  /\ At(o, "markWrite")
  /\ rec' = [seen[o] EXCEPT !.state = "quarantine-failed"]
  /\ Forget(o)
  /\ guard' = None
  /\ End(o, "quarantine-failed")
  /\ UNCHANGED <<attempt, lease, flags, commands, recovery, alive, cleared>>

-----------------------------------------------------------------------------
(* The operator: lock clear and lock clear-stale                           *)

StartClear(c) ==
  /\ At(c, "ready")
  /\ commands[c] < MaxCommands
  /\ commands' = [commands EXCEPT ![c] = @ + 1]
  /\ \E f \in Confirm : flags' = [flags EXCEPT ![c] = f]
  /\ Goto(c, "clearEnter")
  /\ UNCHANGED <<rec, guard, attempt, lease, seen, outcome, recovery, alive,
                 cleared>>

\* clearStale: what list() showed active and stale is cleared without flags.
StartClearStale(c) ==
  /\ At(c, "ready")
  /\ commands[c] < MaxCommands
  /\ Present /\ rec.state = "active" /\ IsStale(c, rec)
  /\ commands' = [commands EXCEPT ![c] = @ + 1]
  /\ flags' = [flags EXCEPT ![c] = {}]
  /\ Goto(c, "clearEnter")
  /\ UNCHANGED <<rec, guard, attempt, lease, seen, outcome, recovery, alive,
                 cleared>>

\* The command is over.
Dismiss(c) == Goto(c, "ready") /\ flags' = [flags EXCEPT ![c] = {}]

\* Mutant of MayClear: no liveness test.
MayClearUntested(c) == rec.state # "active" => "quarantined" \in flags[c]

MayClear(c) ==
  /\ rec.state # "active" => "quarantined" \in flags[c]
  /\ rec.state = "quarantined" \/ IsStale(c, rec) \/ "active" \in flags[c]

\* clear: take the guard, ...
ClearEnter(c) ==
  /\ At(c, "clearEnter")
  /\ \/ Enter(c) /\ Goto(c, "clearRead") /\ UNCHANGED flags
     \/ GuardBusy /\ Dismiss(c)
  /\ UNCHANGED <<rec, attempt, lease, seen, commands, outcome, recovery, alive,
                 cleared>>

\* ... read the record and ask for the confirmations it calls for, ...
ClearRead(c) ==
  /\ At(c, "clearRead")
  /\ IF Present /\ MayClear(c)
       THEN /\ seen' = [seen EXCEPT ![c] = rec]
            /\ Goto(c, "clearRename")
            /\ UNCHANGED <<guard, flags>>
       ELSE guard' = None /\ Dismiss(c) /\ UNCHANGED seen
  /\ UNCHANGED <<rec, attempt, lease, commands, outcome, recovery, alive, cleared>>

\* ... look at the token again, and rename to a tombstone.
ClearRename(c) ==
  /\ At(c, "clearRename")
  /\ IF Present /\ rec.owner = seen[c].owner
       THEN rec' = NoRecord /\ cleared' = cleared \cup {rec.owner}
       ELSE UNCHANGED <<rec, cleared>>
  /\ Forget(c)
  /\ guard' = None
  /\ Dismiss(c)
  /\ UNCHANGED <<attempt, lease, commands, outcome, recovery, alive>>

-----------------------------------------------------------------------------
(* The environment                                                         *)

\* A process dies; if it was about to enter the guard it may leave the guard
\* file without text, and then no process can have the guard again.
Entering(p) ==
  pc[p] \in {"relEnter", "quarEnter", "markEnter", "clearEnter"}
    \/ (p \in Owner /\ lease[p] = "enter")

Die(p) ==
  /\ p \in alive
  /\ pc[p] \notin {"idle", "done", "ready"}
  /\ Cardinality({q \in Process \ alive : pc[q] # "done"}) < MaxDeaths
  /\ alive' = alive \ {p}
  /\ \/ UNCHANGED guard
     \/ GuardWedges /\ CanEnter /\ Entering(p) /\ guard' = "wedged"
  /\ UNCHANGED <<rec, pc, attempt, lease, seen, flags, commands, outcome,
                 recovery, cleared>>

\* The process of an operation that has ended exits.
Exit(o) ==
  /\ At(o, "done")
  /\ alive' = alive \ {o}
  /\ UNCHANGED <<rec, guard, pc, attempt, lease, seen, flags, commands, outcome,
                 recovery, cleared>>

\* The lease and the grace of the record run out.
Expire ==
  /\ Present /\ ~rec.expired
  /\ \E p \in Operator : Host[p] # Host[rec.owner]
  /\ rec' = [rec EXCEPT !.expired = TRUE]
  /\ UNCHANGED <<guard, pc, attempt, lease, seen, flags, commands, outcome,
                 recovery, alive, cleared>>

LeaseStep(o) == LeaseWake(o) \/ LeaseEnter(o) \/ LeaseReread(o) \/ LeaseWrite(o)

OwnerStep(o) ==
  \/ Publish(o) \/ HolderRead(o) \/ EmptyCheck(o)
  \/ StopLease(o) \/ ReleaseEnter(o) \/ ReleaseRename(o)
  \/ QuarantineEnter(o) \/ QuarantineWrite(o)
  \/ RecordFailure(o) \/ MarkEnter(o) \/ MarkWrite(o)

OperatorStep(c) == ClearEnter(c) \/ ClearRead(c) \/ ClearRename(c)

Next ==
  \/ \E o \in Owner : Stage(o) \/ OwnerStep(o) \/ LeaseStep(o) \/ Finish(o) \/ Exit(o)
  \/ \E c \in Operator : StartClear(c) \/ StartClearStale(c) \/ OperatorStep(c)
  \/ \E p \in Process : Die(p)
  \/ Expire

Spec == Init /\ [][Next]_vars

\* lease.lost rejects, which wins the race that the operation awaits.
Abort(o) == lease[o] = "lost" /\ Finish(o)

\* Every live process is scheduled and its timers fire, and an operation that
\* lost its lock aborts.  Nothing else makes an operation finish, an operator
\* act, a process die or a lease run out.
Fairness ==
  /\ \A o \in Owner :
       WF_vars(OwnerStep(o)) /\ WF_vars(LeaseStep(o)) /\ WF_vars(Abort(o))
  /\ \A c \in Operator : WF_vars(OperatorStep(c))
FairSpec == Spec /\ Fairness

-----------------------------------------------------------------------------
(* Properties                                                              *)

\* Every variable has its type.
TypeOK ==
  /\ rec \in Record
  /\ guard \in Process \cup {None, "wedged"}
  /\ pc \in [Process -> OwnerPoint \cup OperatorPoint]
  /\ attempt \in [Owner -> 0 .. 1]
  /\ lease \in [Owner -> LeasePoint]
  /\ seen \in [Process -> Record]
  /\ flags \in [Operator -> SUBSET {"active", "quarantined"}]
  /\ commands \in [Operator -> 0 .. MaxCommands]
  /\ outcome \in [Owner -> Outcome]
  /\ recovery \in BOOLEAN
  /\ alive \subseteq Process
  /\ cleared \subseteq Owner

\* The points from acquire's return to the end of release or quarantine.
HoldPoint ==
  {"working", "stopLease", "relEnter", "relRename", "quarEnter", "quarWrite",
   "recordFailure", "markEnter", "markWrite"}

\* A live operation that believes it holds the device has its record in place,
\* or an operator cleared it: two operations that hold one device at a time are
\* always an operator's doing.
HeldUnlessCleared ==
  \A o \in Owner \cap alive :
    pc[o] \in HoldPoint => Mine(o) \/ o \in cleared

\* An operator's command removes the record of a live process only with the
\* confirmation its state calls for, or from another host once it is overdue:
\* what clear found true of the record still holds when it renames.
ActiveOwnerProtected ==
  [][\A c \in Operator :
       /\ pc[c] = "clearRename" /\ pc'[c] = "ready"
       /\ Present /\ ~Present'
       /\ rec.owner \in alive
       => \/ "active" \in flags[c]
          \/ rec.state = "quarantined" /\ "quarantined" \in flags[c]
          \/ Host[c] # Host[rec.owner] /\ rec.expired]_vars

\* The lock implements an exclusive resource: one holder at a time, no write by
\* a former holder ever brings its record back or touches its successor's, and a
\* quarantined record stays until an operator clears it.
Ended == cleared \cup {o \in Owner : outcome[o] = "released"}
Resource == INSTANCE ExclusiveResource
  WITH holder  <- IF Present THEN {rec.owner} ELSE {},
       blocked <- Present /\ rec.state # "active",
       ended   <- Ended
ResourceSpec == Resource!Spec

\* An operation whose lock was taken away finds out by its next heartbeat and
\* comes to its end, whatever the state of the guard.
Displaced(o) == o \in alive /\ pc[o] = "working" /\ ~Mine(o)
DisplacedStops == \A o \in Owner : Displaced(o) ~> (pc[o] = "done" \/ o \notin alive)

\* What the comment on recordQuarantineFailure says: after a quarantine failure
\* an operator must recover the device explicitly.  So while the record exists,
\* and no operator confirmed anything, the lock is not acquired.
RecoveryRecordHolds == [][recovery => ~(~Present /\ Present')]_vars
=============================================================================
