----------------------------- MODULE Operation -----------------------------
(***************************************************************************)
(* OperationRunner.execute from the acquisition of the device lock to its  *)
(* release (src/core/operations/operation-runner.ts), together with the    *)
(* capability it runs (src/adapters/runtime/capability-runner.ts) and the  *)
(* external process that one starts (src/core/process/process-runner.ts).  *)
(*                                                                         *)
(* The operations compete for one device and may share an approval.  The   *)
(* lock is the one of ExclusiveResource, which DeviceLock implements, and  *)
(* an approval the one of ApprovalLife, which Approval implements: here    *)
(* taking, claiming and settling are single steps.                         *)
(*                                                                         *)
(* A capability is one of three kinds: an "action" or a "workflow" handler *)
(* of an adapter bundle, or "registered", which does as the documentation  *)
(* asks: it registers the stop of its process as a cleanup that holds the  *)
(* physical resource.  Each starts at most one process.                    *)
(***************************************************************************)
EXTENDS Naturals, FiniteSets

CONSTANTS
  Op,         \* operations on the device
  Id,         \* approvals there are, all approved
  Start,      \* sets of functions: the kind of each operation's capability
  Dangerous,  \* operations that need an approval, and mark their effect
  MaxDeaths,  \* bound: processes that die
  None

Kind == {"action", "workflow", "registered"}

ASSUME StartAssumption == Start \subseteq [Op -> Kind]
ASSUME DangerousAssumption == Dangerous \subseteq Op
ASSUME NoneAssumption == None \notin Op
ASSUME BoundAssumption == MaxDeaths \in Nat

Point ==
  {"idle", "acquire", "claim", "run",               \* the try block
   "clean", "stopping", "settle", "unlock", "done"}
Capability ==
  {"off", "begun",    \* its promise exists; it does not look at the signal yet
   "setup",           \* it looks for its tool and environment
   "live",            \* it has started its process
   "ok", "error"}     \* it has returned
ProcessState == {"none", "running", "stopping", "stopped", "exited", "cleanup-timeout"}

VARIABLES
  kind,     \* of each operation's capability
  holder, blocked, ended,    \* the device lock
  status, claimant, over,    \* the approvals
  pc,       \* where execute is
  cap,      \* where the capability is
  proc,     \* the state of its process
  aborted,  \* operations whose signal is aborted
  deaf,     \* those whose action never hears of it
  marked,   \* operations that have marked the dangerous effect as started
  success,  \* operationSucceeded
  unsafe,   \* a cleanup of a physical resource failed
  unclean,  \* some critical cleanup failed
  settled,  \* what became of the claim
  alive,    \* processes of BenchPilot that have not died
  cleared   \* history: operations whose lock an operator cleared

resource == <<holder, blocked, ended>>
life == <<status, claimant, over>>
results == <<success, unsafe, unclean, settled>>
inner == <<cap, proc, deaf, marked>>
vars ==
  <<kind, resource, life, pc, inner, aborted, results, alive, cleared>>

Lock == INSTANCE ExclusiveResource WITH Owner <- Op
Life == INSTANCE ApprovalLife WITH Nobody <- None

At(o, l) == o \in alive /\ pc[o] = l
Goto(o, l) == pc' = [pc EXCEPT ![o] = l]
Becomes(f, o, v) == [f EXCEPT ![o] = v]

Init ==
  /\ kind \in Start
  /\ Lock!Init
  /\ status = [i \in Id |-> "approved"]
  /\ claimant = [i \in Id |-> None]
  /\ over = {}
  /\ pc = [o \in Op |-> "idle"]
  /\ cap = [o \in Op |-> "off"]
  /\ proc = [o \in Op |-> "none"]
  /\ aborted = {} /\ deaf = {} /\ marked = {}
  /\ success = {} /\ unsafe = {} /\ unclean = {}
  /\ settled = [o \in Op |-> "none"]
  /\ alive = Op
  /\ cleared = {}

-----------------------------------------------------------------------------
(* The try block                                                           *)

\* The controller, its timer and the handlers of signals are there.
Begin(o) ==
  /\ At(o, "idle")
  /\ Goto(o, "acquire")
  /\ UNCHANGED <<kind, resource, life, inner, aborted, results, alive, cleared>>

\* capability.execute is called, whatever has become of the signal.
Execute(o) == Goto(o, "run") /\ cap' = Becomes(cap, o, "begun")

\* Neither the acquisition nor the claim looks at the signal.
Acquire(o) ==
  /\ At(o, "acquire")
  /\ \/ /\ Lock!Take(o)
        /\ IF o \in Dangerous THEN Goto(o, "claim") /\ UNCHANGED cap
           ELSE Execute(o)
     \/ /\ holder # {}
        /\ Goto(o, "clean")
        /\ UNCHANGED <<resource, cap>>
  /\ UNCHANGED <<kind, life, proc, deaf, marked, aborted, results, alive, cleared>>

\* ... which fails if no approval is left or its guard is busy.
Claim(o) ==
  /\ At(o, "claim")
  /\ \/ (\E i \in Id : Life!Claim(i, o)) /\ Execute(o)
     \/ Goto(o, "clean") /\ UNCHANGED <<life, cap>>
  /\ UNCHANGED <<kind, resource, proc, deaf, marked, aborted, results, alive, cleared>>

\* The timeout, a signal, or the loss of the lock or of the claim.  A process
\* that was started under the signal begins to be stopped there and then.
Abort(o) ==
  /\ o \in alive \ aborted
  /\ pc[o] \in {"acquire", "claim", "run"}
  /\ aborted' = aborted \cup {o}
  /\ proc' = IF proc[o] = "running" THEN Becomes(proc, o, "stopping") ELSE proc
  /\ UNCHANGED <<kind, resource, life, pc, cap, deaf, marked, results, alive, cleared>>

\* Mutant of RaceEnds: the operation waits for its capability.
RaceWaits(o) ==
  /\ At(o, "run")
  /\ cap[o] \in {"ok", "error"}
  /\ success' = IF cap[o] = "ok" /\ o \notin aborted THEN success \cup {o} ELSE success
  /\ Goto(o, "clean")
  /\ UNCHANGED <<kind, resource, life, inner, aborted, unsafe, unclean, settled,
                 alive, cleared>>

\* The first of: the capability returns, the signal is aborted.
RaceEnds(o) ==
  /\ At(o, "run")
  /\ o \in aborted \/ cap[o] \in {"ok", "error"}
  /\ success' = IF cap[o] = "ok" /\ o \notin aborted THEN success \cup {o} ELSE success
  /\ Goto(o, "clean")
  /\ UNCHANGED <<kind, resource, life, inner, aborted, unsafe, unclean, settled,
                 alive, cleared>>

-----------------------------------------------------------------------------
(* The capability and its process.  They go on when the operation does not *)
(* wait for them any more, as long as the program lives.                   *)

\* An action listens for the abort event, which is not sent again; the others
\* look at the signal first.
Listen(o) ==
  /\ o \in alive /\ cap[o] = "begun"
  /\ cap' = Becomes(cap, o,
              IF o \in aborted /\ kind[o] # "action" THEN "error" ELSE "setup")
  /\ deaf' = IF o \in aborted /\ kind[o] = "action" THEN deaf \cup {o} ELSE deaf
  /\ UNCHANGED <<kind, resource, life, pc, proc, marked, aborted, results, alive,
                 cleared>>

Marks(o) == IF o \in Dangerous THEN {o} ELSE {}

\* Mutant of Launch: the process is started whatever has become of the signal.
LaunchAnyway(o) ==
  /\ o \in alive /\ cap[o] = "setup"
  /\ cap' = Becomes(cap, o, "live")
  /\ proc' = Becomes(proc, o, "running")
  /\ marked' = marked \cup Marks(o)
  /\ UNCHANGED <<kind, resource, life, pc, deaf, aborted, results, alive, cleared>>

\* startProcess, with the mark in its spawn event.
Launch(o) ==
  /\ o \in alive /\ cap[o] = "setup"
  /\ o \in aborted => o \in deaf
  /\ cap' = Becomes(cap, o, "live")
  /\ proc' = Becomes(proc, o, "running")
  /\ marked' = marked \cup Marks(o)
  /\ UNCHANGED <<kind, resource, life, pc, deaf, aborted, results, alive, cleared>>

\* The capability fails before, finds the signal aborted, or its process is over.
\* A capability that registered a cleanup may leave its process running.
\* What it returns when the operation has stopped waiting nobody sees.
Return(o) ==
  /\ At(o, "run")
  /\ \E r \in {"ok", "error"} :
       /\ \/ cap[o] = "setup" /\ r = "error"
          \/ cap[o] = "live" /\ proc[o] = "exited"
          \/ cap[o] = "live" /\ proc[o] \in {"stopped", "cleanup-timeout"} /\ r = "error"
          \/ cap[o] = "live" /\ proc[o] = "running" /\ kind[o] = "registered"
       /\ cap' = Becomes(cap, o, r)
  /\ UNCHANGED <<kind, resource, life, pc, proc, deaf, marked, aborted, results,
                 alive, cleared>>

Change(o, from, to) == proc[o] = from /\ proc' = Becomes(proc, o, to)

\* The process ends by itself, or the timeout of its action stops it, or it is
\* terminated, which may remain unconfirmed, in that state for ever.
Run(o) ==
  /\ \/ Change(o, "running", "exited")
     \/ o \in alive /\ kind[o] # "registered" /\ Change(o, "running", "stopping")
     \/ o \in alive /\ Change(o, "stopping", "cleanup-timeout")
     \/ Change(o, "stopping", "stopped")
  /\ UNCHANGED <<kind, resource, life, pc, cap, deaf, marked, aborted, results,
                 alive, cleared>>

-----------------------------------------------------------------------------
(* Cleanup                                                                 *)

\* The timer and the handlers are gone.  A process that was registered is asked
\* to stop, which a stop under way answers.
Clean(o) ==
  /\ At(o, "clean")
  /\ IF kind[o] = "registered" /\ proc[o] # "none"
       THEN /\ Goto(o, "stopping")
            /\ proc' = IF proc[o] = "running" THEN Becomes(proc, o, "stopping") ELSE proc
       ELSE Goto(o, "settle") /\ UNCHANGED proc
  /\ UNCHANGED <<kind, resource, life, cap, deaf, marked, aborted, results, alive,
                 cleared>>

\* Mutant of Cleaned: a stop that is not confirmed counts as a cleanup done.
CleanedAnyway(o) ==
  /\ At(o, "stopping")
  /\ Goto(o, "settle")
  /\ UNCHANGED <<kind, resource, life, inner, aborted, results, alive, cleared>>

\* The stop has succeeded, or it has failed or taken longer than the grace.
\* Then the leases are stopped.
Cleaned(o) ==
  /\ At(o, "stopping")
  /\ Goto(o, "settle")
  /\ IF proc[o] \in {"stopped", "exited"} THEN UNCHANGED <<unsafe, unclean>>
     ELSE unsafe' = unsafe \cup {o} /\ unclean' = unclean \cup {o}
  /\ UNCHANGED <<kind, resource, life, inner, aborted, success, settled, alive,
                 cleared>>

HasClaim(o) == o \in Dangerous /\ cap[o] # "off"
IsClaim(i, o) == status[i] = "claimed" /\ claimant[i] = o

\* Mutant of Uses: only a success uses the approval up.
UsesIfSuccessful(o) == o \in success

Uses(o) == o \in success \/ o \in marked

\* consumeClaim or releaseClaim, which fail if another operation has recovered the
\* claim or its guard is busy.
Settle(o) ==
  /\ At(o, "settle")
  /\ Goto(o, "unlock")
  /\ \/ ~HasClaim(o) /\ UNCHANGED <<life, settled, unclean>>
     \/ /\ HasClaim(o)
        /\ \E i \in Id :
             IsClaim(i, o) /\ IF Uses(o) THEN Life!Consume(i) ELSE Life!GiveBack(i)
        /\ settled' = Becomes(settled, o, IF Uses(o) THEN "consumed" ELSE "released")
        /\ UNCHANGED unclean
     \/ /\ HasClaim(o)
        /\ settled' = Becomes(settled, o, "failed")
        /\ unclean' = unclean \cup {o}
        /\ UNCHANGED life
  /\ UNCHANGED <<kind, resource, inner, aborted, success, unsafe, alive, cleared>>

HasLock(o) == o \in holder \cup ended

\* Mutant of Unlock: the failure to release the lock is not recorded.
UnlockSilently(o) ==
  /\ At(o, "unlock")
  /\ Goto(o, "done")
  /\ \/ ~HasLock(o) /\ UNCHANGED resource
     \/ o \notin unsafe /\ Lock!Leave(o)
     \/ o \in unsafe /\ Lock!Block(o)
     \/ HasLock(o) /\ UNCHANGED resource
  /\ UNCHANGED <<kind, life, inner, aborted, results, alive, cleared>>

\* release or quarantine, which fail if the lock is gone or its guard is busy.  A
\* quarantine that fails may leave the lock marked, or active.
Unlock(o) ==
  /\ At(o, "unlock")
  /\ Goto(o, "done")
  /\ \/ ~HasLock(o) /\ UNCHANGED <<resource, unclean>>
     \/ o \notin unsafe /\ Lock!Leave(o) /\ UNCHANGED unclean
     \/ o \in unsafe /\ Lock!Block(o) /\ UNCHANGED unclean
     \/ HasLock(o) /\ unclean' = unclean \cup {o} /\ UNCHANGED resource
  /\ UNCHANGED <<kind, life, inner, aborted, success, unsafe, settled, alive,
                 cleared>>

-----------------------------------------------------------------------------
(* The environment                                                         *)

\* An operator clears the lock, as stale or with the flags that confirm it.
Clear(o) ==
  /\ Lock!Clear(o)
  /\ cleared' = cleared \cup {o}
  /\ UNCHANGED <<kind, life, pc, inner, aborted, results, alive>>

\* BenchPilot is killed, as by a second signal.  Its process goes on.
Die(o) ==
  /\ o \in alive
  /\ pc[o] \notin {"idle", "done"}
  /\ Cardinality(Op \ alive) < MaxDeaths
  /\ alive' = alive \ {o}
  /\ UNCHANGED <<kind, resource, life, pc, inner, aborted, results, cleared>>

OpStep(o) ==
  \/ Acquire(o) \/ Claim(o) \/ RaceEnds(o) \/ Clean(o) \/ Cleaned(o)
  \/ Settle(o) \/ Unlock(o)

Next ==
  \E o \in Op :
    \/ Begin(o) \/ OpStep(o) \/ Abort(o)
    \/ Listen(o) \/ Launch(o) \/ Return(o) \/ Run(o)
    \/ Clear(o) \/ Die(o)

Spec == Init /\ [][Next]_vars

\* The steps of execute are scheduled and its timer fires.  Nothing is assumed of
\* the capability or its process.
Fairness == \A o \in Op : WF_vars(OpStep(o)) /\ WF_vars(Abort(o))
FairSpec == Spec /\ Fairness

-----------------------------------------------------------------------------
(* Properties                                                              *)

\* Every variable has its type, and whoever has the lock has passed acquire.
TypeOK ==
  /\ kind \in [Op -> Kind]
  /\ holder \subseteq Op /\ blocked \in BOOLEAN /\ ended \subseteq Op
  /\ status \in [Id -> {"approved", "claimed", "consumed"}]
  /\ claimant \in [Id -> Op \cup {None}] /\ over \subseteq Op
  /\ pc \in [Op -> Point]
  /\ cap \in [Op -> Capability]
  /\ proc \in [Op -> ProcessState]
  /\ aborted \subseteq Op /\ deaf \subseteq aborted /\ marked \subseteq Op
  /\ success \subseteq Op /\ unsafe \subseteq unclean /\ unclean \subseteq Op
  /\ settled \in [Op -> {"none", "consumed", "released", "failed"}]
  /\ alive \subseteq Op /\ cleared \subseteq Op
  /\ \A o \in holder : pc[o] \notin {"idle", "acquire"}

\* The process of o has the device.  No other operation has a process there then,
\* unless an operator took the lock from o.
OnDevice(o) == proc[o] \in {"running", "stopping", "cleanup-timeout"}
Covered(o) == OnDevice(o) => o \in holder \cup cleared

\* What docs/architecture.md says of the order of the cleanup, for every kind of
\* capability: a process that may still have the device keeps it locked.
LockCoversProcess == \A o \in alive : Covered(o)

\* It holds of the capabilities that registered their process, whatever fails and
\* whenever the operation is aborted.
LockCoversRegistered ==
  \A o \in alive : kind[o] = "registered" => Covered(o)

\* Of the others, a process runs without the lock only when it is being stopped,
\* or was started by an action that missed the abort.
RunningUnderLock ==
  \A o \in alive :
    proc[o] = "running" => o \in holder \cup cleared \cup deaf

\* What docs/safety.md says: an approval that was given back was not used.
GivenBackMeansUntouched ==
  \A o \in Op : settled[o] = "released" => o \notin marked

\* It holds of every operation but those whose action missed the abort.
GivenBackUnlessDeaf ==
  \A o \in Op : settled[o] = "released" => o \notin marked \/ o \in deaf

\* A success is reported only when everything was put away: no process has the
\* device, the lock is not held and the approval is used up.
Reported(o) == pc[o] = "done" /\ o \in success \ unclean
SuccessMeansClean ==
  \A o \in Op :
    Reported(o) => /\ ~OnDevice(o)
                   /\ o \notin holder
                   /\ o \in Dangerous => settled[o] = "consumed"

\* An operation that has begun comes to its end, whatever its capability does.
OperationEnds ==
  \A o \in Op : pc[o] = "acquire" ~> (pc[o] = "done" \/ o \notin alive)
=============================================================================
