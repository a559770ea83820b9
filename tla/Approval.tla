------------------------------ MODULE Approval ------------------------------
(***************************************************************************)
(* The approvals of one binding: src/core/approvals/approval-manager.ts,   *)
(* driven as src/core/operations/operation-runner.ts drives it (look for   *)
(* an approval, request one or claim it, renew the claim while the         *)
(* capability runs, then consume the approval or give it back), with the   *)
(* preflight of a system operation and the decisions of people.            *)
(*                                                                         *)
(* Every update is a guarded read-test-write, so one set of steps (Enter,  *)
(* Read, Write) runs the job of each update.  Abstractions: an operation   *)
(* is one call of execute, that is one claim token and the process that    *)
(* drew it; all records have the same binding, since records of another    *)
(* are skipped; the list's order, by time of creation, is any order; the   *)
(* guard is the mutual exclusion that FileGuard shows it to be, with the   *)
(* two ways it fails its user; the device lock, which an operation takes   *)
(* between its look and its claim, is left out: a capability may need none.*)
(***************************************************************************)
EXTENDS Naturals, FiniteSets

CONSTANTS
  Op,          \* operations
  Preflight,   \* those that are preflights of a system operation
  Human,       \* processes of people who run approval commands
  Id,          \* approval identifiers; bound: how many are ever requested
  MaxDecisions,\* bound: commands per person
  Left,        \* what earlier requests may have left: statuses of the approvals
  Host,        \* the machine and the user of each process
  MaxDeaths,   \* bound: processes that die
  GuardWedges, \* whether a process may die having created a guard file and
               \*   not written it
  None

ASSUME ProcessAssumption ==
  /\ Preflight \subseteq Op
  /\ Op \cap Human = {}
  /\ None \notin Op \cup Human \cup Id
  /\ \A o \in Op : <<"lease", o>> \notin Op \cup Human
ASSUME LeftAssumption == Left \subseteq [Id -> {"absent", "pending", "approved"}]
ASSUME BoundAssumption == MaxDecisions \in Nat /\ MaxDeaths \in Nat
ASSUME WedgeAssumption == GuardWedges \in BOOLEAN

Process == Op \cup Human

\* The heartbeat loop of startClaimLease runs beside its operation.
Lease(o) == <<"lease", o>>
Leases == {Lease(o) : o \in Op}
Thread == Process \cup Leases
ProcessOf(t) == IF t \in Leases THEN t[2] ELSE t

\* An approval record.  "overdue" is a claim past its lease and its grace.
Plain(s) == [status |-> s, by |-> None, overdue |-> FALSE]
Claimed(o) == [status |-> "claimed", by |-> o, overdue |-> FALSE]
Consumed(o) == [status |-> "consumed", by |-> o, overdue |-> FALSE]
Status == {"absent", "pending", "approved", "rejected", "claimed", "consumed"}
Record == [status : Status, by : Op \cup {None}, overdue : BOOLEAN]

Job ==
  {"none", "recover", "claim", "renew", "consume", "release", "approve", "reject"}
Point ==
  {"idle", "recoverList", "claimList", "scan",  \* looking through the records
   "pendingList", "request",                    \*   in vain
   "enter", "read", "write",                    \* a guarded update
   "working", "succeeded", "failed", "done",    \* the capability, and the end
   "off", "wait", "lost"}                       \* the lease
Outcome ==
  {"none", "approval-required", "pending", "ready", "guard-busy", "unavailable",
   "consumed", "released", "unsettled"}

VARIABLES
  rec,       \* the approval records
  expired,   \* approvals past their own expiry
  guard,     \* who is in the guarded section of each approval, or "wedged"
  pc,        \* where each thread is
  job,       \* the update a thread is making,
  target,    \*   and of which approval
  phase,     \* an operation looks for an approval ("check") or claims it
  todo,      \* candidates a scan has not tried yet
  marked,    \* operations that have marked the dangerous effect as started
  outcome,   \* how an operation's use of approvals ended
  decisions, \* commands a person has started
  alive,     \* processes that have not died
  late,      \* history: those that marked it after they were asked
  displaced, \* history: operations whose claim another process recovered
  reusable   \* history: stale claims of dead processes, and pending requests,
             \*   that were there when an operation began to look

vars ==
  <<rec, expired, guard, pc, job, target, phase, todo, marked, outcome,
    decisions, alive, late, displaced, reusable>>
history == <<late, displaced, reusable>>

At(t, l) == ProcessOf(t) \in alive /\ pc[t] = l
Goto(t, l) == pc' = [pc EXCEPT ![t] = l]
End(o, out) == Goto(o, "done") /\ outcome' = [outcome EXCEPT ![o] = out]

\* approvalLiveness(record) = "stale" for process p; another user of the machine goes
\* by the expiry, as another machine does.
IsStale(p, r) ==
  /\ r.status = "claimed"
  /\ IF Host[r.by] = Host[p] THEN r.by \notin alive ELSE r.overdue

Usable(s) == {i \in Id : rec[i].status = s /\ i \notin expired}

Init ==
  /\ rec \in {[i \in Id |-> Plain(f[i])] : f \in Left}
  /\ expired = {}
  /\ guard = [i \in Id |-> None]
  /\ pc = [t \in Thread |-> IF t \in Leases THEN "off" ELSE "idle"]
  /\ job = [t \in Thread |-> "none"]
  /\ target = [t \in Thread |-> None]
  /\ phase = [o \in Op |-> "check"]
  /\ todo = [o \in Op |-> {}]
  /\ marked = {}
  /\ outcome = [o \in Op |-> "none"]
  /\ decisions = [h \in Human |-> 0]
  /\ alive = Process
  /\ late = {}
  /\ displaced = {}
  /\ reusable = [o \in Op |-> {}]

-----------------------------------------------------------------------------
(* The guarded updates                                                     *)

\* Mutant of CanEnter: no guard.
CanAlwaysEnter(i) == TRUE

\* The guard can be had: it is free, or its holder died and it is recovered.
CanEnter(i) == guard[i] = None \/ guard[i] \in Process \ alive

\* A thread turns to an update of approval i.
Begin(t, j, i) ==
  /\ job' = [job EXCEPT ![t] = j]
  /\ target' = [target EXCEPT ![t] = i]
  /\ Goto(t, "enter")

\* ... and is through with it.  An operation remembers which approval it claimed.
PutDown(t) ==
  IF t \in Op THEN UNCHANGED <<job, target>>
  ELSE /\ job' = [job EXCEPT ![t] = "none"]
       /\ target' = [target EXCEPT ![t] = None]

Settling(t) == job[t] \in {"consume", "release"}

\* Mutant of Test: the tokens are not compared.
TestStatusOnly(t, r, i) ==
  CASE job[t] \in {"approve", "reject"} -> r.status = "pending" /\ i \notin expired
    [] job[t] = "claim" -> r.status = "approved" /\ i \notin expired
    [] job[t] = "recover" -> IsStale(ProcessOf(t), r) /\ i \notin expired
    [] OTHER -> r.status = "claimed"

\* Mutant of Test: whoever decides need not find the approval pending.
TestDecidedAgain(t, r, i) ==
  CASE job[t] \in {"approve", "reject"} -> i \notin expired
    [] job[t] = "claim" -> r.status = "approved" /\ i \notin expired
    [] job[t] = "recover" -> IsStale(ProcessOf(t), r) /\ i \notin expired
    [] OTHER -> r.status = "claimed" /\ r.by = ProcessOf(t)

\* What each update demands of the record it reads under the guard ...
Test(t, r, i) ==
  CASE job[t] \in {"approve", "reject"} -> r.status = "pending" /\ i \notin expired
    [] job[t] = "claim" -> r.status = "approved" /\ i \notin expired
    [] job[t] = "recover" -> IsStale(ProcessOf(t), r) /\ i \notin expired
    [] OTHER -> r.status = "claimed" /\ r.by = ProcessOf(t)

\* ... and the record it writes.
Result(t) ==
  CASE job[t] = "reject" -> Plain("rejected")
    [] job[t] \in {"claim", "renew"} -> Claimed(ProcessOf(t))
    [] job[t] = "consume" -> Consumed(ProcessOf(t))
    [] OTHER -> Plain("approved")

Enter(t) ==
  /\ At(t, "enter")
  /\ CanEnter(target[t])
  /\ guard' = [guard EXCEPT ![target[t]] = ProcessOf(t)]
  /\ Goto(t, "read")
  /\ UNCHANGED <<rec, expired, job, target, phase, todo, marked, outcome,
                 alive, decisions, history>>

\* Ten seconds pass while the guard is in use: APPROVAL_GUARD_BUSY.  It ends the
\* claim lease, or the operation, or leaves the claim as it is at its end.
Busy(t) ==
  /\ At(t, "enter")
  /\ guard[target[t]] # None
  /\ \/ t \in Leases /\ Goto(t, "lost") /\ UNCHANGED outcome
     \/ t \in Human /\ Goto(t, "idle") /\ UNCHANGED outcome
     \/ t \in Op /\ End(t, IF Settling(t) THEN "unsettled" ELSE "guard-busy")
  /\ PutDown(t)
  /\ UNCHANGED <<rec, expired, guard, phase, todo, marked, alive, decisions,
                 history>>

Read(t) ==
  /\ At(t, "read")
  /\ Test(t, rec[target[t]], target[t])
  /\ Goto(t, "write")
  /\ UNCHANGED <<rec, expired, guard, job, target, phase, todo, marked,
                 outcome, alive, decisions, history>>

\* The record is not what the update needs: try the next candidate, or fail.
Refuse(t) ==
  /\ At(t, "read")
  /\ ~Test(t, rec[target[t]], target[t])
  /\ guard' = [guard EXCEPT ![target[t]] = None]
  /\ \/ t \in Leases /\ Goto(t, "lost") /\ UNCHANGED outcome
     \/ t \in Human /\ Goto(t, "idle") /\ UNCHANGED outcome
     \/ t \in Op /\ Settling(t) /\ End(t, "unsettled")
     \/ t \in Op /\ ~Settling(t) /\ Goto(t, "scan") /\ UNCHANGED outcome
  /\ PutDown(t)
  /\ UNCHANGED <<rec, expired, phase, todo, marked, alive, decisions,
                 history>>

\* Where a thread goes from a completed update.  A recovered approval is what
\* the look was for, and what the claim then lists.
AfterWrite(t) ==
  CASE t \in Leases -> "wait"
    [] t \in Human -> "idle"
    [] job[t] = "recover" ->
         IF phase[t] = "claim" THEN "claimList"
         ELSE IF t \in Preflight THEN "done" ELSE "recoverList"
    [] job[t] = "claim" -> "working"
    [] OTHER -> "done"

OutcomeOf(t) ==
  CASE job[t] = "consume" -> "consumed"
    [] job[t] = "release" -> "released"
    [] job[t] = "recover" /\ t \in Preflight -> "ready"
    [] OTHER -> "none"

Write(t) ==
  /\ At(t, "write")
  /\ rec' = [rec EXCEPT ![target[t]] = Result(t)]
  /\ guard' = [guard EXCEPT ![target[t]] = None]
  /\ pc' = [u \in Thread |->
              IF u = t THEN AfterWrite(t)
              ELSE IF job[t] = "claim" /\ u = Lease(t) THEN "wait"
              ELSE pc[u]]
  /\ IF t \in Op
       THEN /\ outcome' = [outcome EXCEPT ![t] = OutcomeOf(t)]
            /\ phase' = [phase EXCEPT ![t] = "claim"]
       ELSE UNCHANGED <<outcome, phase>>
  /\ displaced' = IF job[t] = "recover"
                  THEN displaced \cup {rec[target[t]].by} ELSE displaced
  /\ PutDown(t)
  /\ UNCHANGED <<expired, todo, marked, alive, decisions, late, reusable>>

-----------------------------------------------------------------------------
(* execute and preflightApproval: is there an approval?                    *)

\* What might be reused, with the process that holds it.
Reusable(o) ==
  {<<i, rec[i].by>> : i \in {j \in Usable("claimed") :
                              IsStale(o, rec[j]) /\ rec[j].by \notin alive}}
    \cup {<<i, None>> : i \in Usable("pending")}

\* findMatchingApproval.
Look(o) ==
  /\ At(o, "idle")
  /\ reusable' = [reusable EXCEPT ![o] = Reusable(o)]
  /\ IF Usable("approved") # {}
       THEN IF o \in Preflight
              THEN End(o, "ready") /\ UNCHANGED phase
              ELSE /\ Goto(o, "recoverList")
                   /\ phase' = [phase EXCEPT ![o] = "claim"]
                   /\ UNCHANGED outcome
       ELSE Goto(o, "recoverList") /\ UNCHANGED <<phase, outcome>>
  /\ UNCHANGED <<rec, expired, guard, job, target, todo, marked, alive,
                 decisions, late, displaced>>

\* recoverMatchingStaleClaim lists the claimed records, claim the approved ones.
ListFor(o, l, j, s) ==
  /\ At(o, l)
  /\ job' = [job EXCEPT ![o] = j]
  /\ todo' = [todo EXCEPT ![o] = {i \in Id : rec[i].status = s}]
  /\ Goto(o, "scan")
  /\ UNCHANGED <<rec, expired, guard, target, phase, marked, outcome,
                 alive, decisions, history>>

RecoverList(o) == ListFor(o, "recoverList", "recover", "claimed")
ClaimList(o) == ListFor(o, "claimList", "claim", "approved")

Try(o) ==
  /\ At(o, "scan")
  /\ \E i \in todo[o] :
       /\ todo' = [todo EXCEPT ![o] = @ \ {i}]
       /\ Begin(o, job[o], i)
  /\ UNCHANGED <<rec, expired, guard, phase, marked, outcome, alive,
                 decisions, history>>

\* No candidate is left: go on to claim, or to request an approval, or fail.
Exhausted(o) ==
  /\ At(o, "scan")
  /\ todo[o] = {}
  /\ \/ job[o] = "claim" /\ End(o, "unavailable")
     \/ job[o] = "recover" /\ phase[o] = "claim"
          /\ Goto(o, "claimList") /\ UNCHANGED outcome
     \/ job[o] = "recover" /\ phase[o] = "check"
          /\ Goto(o, IF o \in Preflight THEN "pendingList" ELSE "request")
          /\ UNCHANGED outcome
  /\ UNCHANGED <<rec, expired, guard, job, target, phase, todo, marked,
                 alive, decisions, history>>

\* Mutant of PendingList: the preflight requests at once.
PendingListSkipped(o) ==
  /\ At(o, "pendingList")
  /\ Goto(o, "request")
  /\ UNCHANGED <<rec, expired, guard, job, target, phase, todo, marked, outcome,
                 decisions, alive, history>>

\* findPendingApproval, which preflightApproval calls and execute does not.
PendingList(o) ==
  /\ At(o, "pendingList")
  /\ IF Usable("pending") # {} THEN End(o, "pending")
     ELSE Goto(o, "request") /\ UNCHANGED outcome
  /\ UNCHANGED <<rec, expired, guard, job, target, phase, todo, marked,
                 alive, decisions, history>>

\* A new record with a random id, written without a guard.
Request(o) ==
  /\ At(o, "request")
  /\ \E i \in Id :
       /\ rec[i].status = "absent"
       /\ rec' = [rec EXCEPT ![i] = Plain("pending")]
  /\ End(o, "approval-required")
  /\ UNCHANGED <<expired, guard, job, target, phase, todo, marked, alive,
                 decisions, history>>

-----------------------------------------------------------------------------
(* The claim is held                                                       *)

\* The operation has found no effect marked, and gives the approval back.
GivesBack(o) == job[o] = "release" /\ pc[o] \in {"enter", "read", "write", "done"}

\* markDangerousEffectStarted.  A capability that was aborted goes on by itself:
\* it may mark its effect before the operation asks, and even after that, as
\* long as the process lives.
Mark(o) ==
  /\ o \in alive \ marked
  /\ pc[o] \in {"working", "failed"} \/ GivesBack(o)
  /\ marked' = marked \cup {o}
  /\ late' = IF GivesBack(o) THEN late \cup {o} ELSE late
  /\ UNCHANGED <<rec, expired, guard, pc, job, target, phase, todo,
                 outcome, alive, decisions, displaced, reusable>>

\* The capability returns, or fails, or the operation is aborted, as it is when
\* the lease is lost.
Finish(o) ==
  /\ At(o, "working")
  /\ \/ pc[Lease(o)] # "lost" /\ Goto(o, "succeeded")
     \/ Goto(o, "failed")
  /\ UNCHANGED <<rec, expired, guard, job, target, phase, todo, marked, outcome,
                 alive, decisions, history>>

\* Mutant of StopLease: only a success uses the approval up.
StopLeaseUnmarked(o) ==
  /\ At(o, "succeeded") \/ At(o, "failed")
  /\ pc[Lease(o)] \in {"off", "lost"}
  /\ Begin(o, IF pc[o] = "succeeded" THEN "consume" ELSE "release", target[o])
  /\ UNCHANGED <<rec, expired, guard, phase, todo, marked, outcome, alive,
                 decisions, history>>

\* The loop has ended: use the approval up, or give it back if nothing began.
StopLease(o) ==
  /\ At(o, "succeeded") \/ At(o, "failed")
  /\ pc[Lease(o)] \in {"off", "lost"}
  /\ Begin(o, IF pc[o] = "succeeded" \/ o \in marked THEN "consume" ELSE "release",
           target[o])
  /\ UNCHANGED <<rec, expired, guard, phase, todo, marked, outcome, alive,
                 decisions, history>>

\* The heartbeat interval is over.  A loop that was stopped ends instead.
LeaseWake(o) ==
  /\ At(Lease(o), "wait")
  /\ IF pc[o] = "working"
       THEN Begin(Lease(o), "renew", target[o])
       ELSE Goto(Lease(o), "off") /\ UNCHANGED <<job, target>>
  /\ UNCHANGED <<rec, expired, guard, phase, todo, marked, outcome, alive,
                 decisions, history>>

-----------------------------------------------------------------------------
(* People, and the environment                                             *)

\* approve and reject a record that is there.
Decide(h) ==
  /\ At(h, "idle")
  /\ decisions[h] < MaxDecisions
  /\ decisions' = [decisions EXCEPT ![h] = @ + 1]
  /\ \E i \in Id, j \in {"approve", "reject"} :
       rec[i].status # "absent" /\ Begin(h, j, i)
  /\ UNCHANGED <<rec, expired, guard, phase, todo, marked, outcome, alive,
                 history>>

\* A process dies; if it was about to enter a guard it may leave the guard file
\* without text, and then no process can have that guard again.
Die(p) ==
  /\ p \in alive
  /\ pc[p] \notin {"idle", "done"}
  /\ Cardinality({q \in Process \ alive : pc[q] # "done"}) < MaxDeaths
  /\ alive' = alive \ {p}
  /\ \/ UNCHANGED guard
     \/ /\ GuardWedges
        /\ \E t \in Thread :
             /\ ProcessOf(t) = p /\ pc[t] = "enter" /\ CanEnter(target[t])
             /\ guard' = [guard EXCEPT ![target[t]] = "wedged"]
  /\ UNCHANGED <<rec, expired, pc, job, target, phase, todo, marked,
                 outcome, decisions, history>>

\* The process of an operation that has ended exits, which shows only when the
\* operation left its claim behind.
Exit(o) ==
  /\ At(o, "done") /\ outcome[o] = "unsettled"
  /\ alive' = alive \ {o}
  /\ UNCHANGED <<rec, expired, guard, pc, job, target, phase, todo, marked,
                 outcome, decisions, history>>

\* An approval expires, or a claim's lease and grace run out, which only another
\* host goes by.
Expire(i) ==
  /\ rec[i].status \in {"pending", "approved", "claimed"} /\ i \notin expired
  /\ expired' = expired \cup {i}
  /\ UNCHANGED <<rec, guard, pc, job, target, phase, todo, marked, outcome,
                 alive, decisions, history>>

Overdue(i) ==
  /\ rec[i].status = "claimed" /\ ~rec[i].overdue
  /\ \E o \in Op : Host[o] # Host[rec[i].by]
  /\ rec' = [rec EXCEPT ![i].overdue = TRUE]
  /\ UNCHANGED <<expired, guard, pc, job, target, phase, todo, marked,
                 outcome, alive, decisions, history>>

Update(t) == Enter(t) \/ Busy(t) \/ Read(t) \/ Refuse(t) \/ Write(t)

OpStep(o) ==
  \/ Update(o) \/ RecoverList(o) \/ ClaimList(o) \/ Try(o) \/ Exhausted(o)
  \/ PendingList(o) \/ Request(o) \/ StopLease(o)

LeaseStep(o) == LeaseWake(o) \/ Update(Lease(o))

Next ==
  \/ \E o \in Op :
       Look(o) \/ OpStep(o) \/ LeaseStep(o) \/ Mark(o) \/ Finish(o) \/ Exit(o)
  \/ \E h \in Human : Decide(h) \/ Update(h)
  \/ \E p \in Process : Die(p)
  \/ \E i \in Id : Expire(i) \/ Overdue(i)

Spec == Init /\ [][Next]_vars

\* approvalLease.lost resolves, which aborts the operation and wins its race.
Abort(o) == pc[Lease(o)] = "lost" /\ Finish(o)

\* Every live process is scheduled and its timers fire, and an operation that
\* lost its claim aborts.  Nothing else makes an operation begin or finish, a
\* person decide, a process die or time run out.
Fairness ==
  /\ \A o \in Op : WF_vars(OpStep(o)) /\ WF_vars(LeaseStep(o)) /\ WF_vars(Abort(o))
  /\ \A h \in Human : WF_vars(Update(h))
FairSpec == Spec /\ Fairness

-----------------------------------------------------------------------------
(* Properties                                                              *)

\* Types.  What a thread may be at, and when it has a target, is in ApprovalProofs.
TypeOK ==
  /\ rec \in [Id -> Record]
  /\ expired \subseteq Id
  /\ guard \in [Id -> Process \cup {None, "wedged"}]
  /\ pc \in [Thread -> Point]
  /\ job \in [Thread -> Job]
  /\ target \in [Thread -> Id \cup {None}]
  /\ phase \in [Op -> {"check", "claim"}]
  /\ todo \in [Op -> SUBSET Id]
  /\ outcome \in [Op -> Outcome]
  /\ decisions \in [Human -> 0 .. MaxDecisions]
  /\ alive \subseteq Process
  /\ marked \subseteq Op /\ late \subseteq marked
  /\ displaced \subseteq Op \cup {None}
  /\ reusable \in [Op -> SUBSET (Id \X (Op \cup {None}))]

\* From the return of claim to the end of its settlement.
Holding(o) ==
  \/ pc[o] \in {"working", "succeeded", "failed"}
  \/ Settling(o) /\ pc[o] \in {"enter", "read", "write"}

\* A live operation that runs under an approval has its claim on record, unless
\* another host found the claim overdue and recovered it: no listing, renewal,
\* recovery or decision made from an older look takes the claim away.
ClaimHeld ==
  \A o \in Op \cap alive :
    Holding(o) => \/ rec[target[o]].status = "claimed" /\ rec[target[o]].by = o
                  \/ o \in displaced

\* An approval covers one dangerous effect.  A second operation marks an effect
\* under the same approval only when the first died before it settled its claim,
\* lost it to another host, failed to settle it, or was aborted and began its
\* effect after it had given the approval back.
Unsettled(o) ==
  \/ o \in displaced \cup late
  \/ outcome[o] = "unsettled"
  \/ o \notin alive /\ pc[o] # "done"
OneEffectPerApproval ==
  \A o, p \in marked :
    target[o] = target[p] => o = p \/ Unsettled(o) \/ Unsettled(p)

\* The records follow the diagram of docs/safety.md, and a claim that is over
\* never comes back.
Life == INSTANCE ApprovalLife
  WITH status   <- [i \in Id |-> rec[i].status],
       claimant <- [i \in Id |-> rec[i].by],
       Nobody   <- None,
       over     <- displaced \cup {o \in Op : outcome[o] \in {"consumed", "released"}}
LifeSpec == Life!Spec

\* Operation o writes a request, and what it found when it began to look is still there.
Requests(o) == pc[o] = "request" /\ pc'[o] = "done"
Still(found) ==
  /\ rec[found[1]].status \in {"claimed", "pending"} /\ rec[found[1]].by = found[2]
  /\ found[1] \notin expired

\* What the code looks for is reused before another approval is requested: nobody
\* writes a request while a stale claim of a process that had died before the look
\* began is still there, and no preflight does while a pending request is.  An
\* operation that is executed does not look for a pending request and writes one
\* more each time (operation-runner.ts:385-401); docs/safety.md:50 says that pending
\* ones of the same binding are reused, which is true of preflights alone.
ReusedNotRequested ==
  [][\A o \in Op : Requests(o) =>
       \A found \in reusable[o] : found[2] # None \/ o \in Preflight => ~Still(found)]_vars

\* An operation whose claim was recovered by another host finds out by its next
\* heartbeat and comes to its end.
LostClaimStops ==
  \A o \in Op :
    (o \in displaced \cap alive /\ pc[o] = "working")
      ~> (pc[o] = "done" \/ o \notin alive)

\* What the table of docs/safety.md says: whatever an operation comes to, the
\* approval of one that had marked its dangerous effect ends consumed.
MarkedMeansConsumed ==
  \A o \in (marked \ late) \cap alive :
    pc[o] = "done" => rec[target[o]].status = "consumed"
=============================================================================
