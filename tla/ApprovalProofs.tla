--------------------------- MODULE ApprovalProofs ---------------------------
(***************************************************************************)
(* Type correctness and safety of Approval, for any operations, people,    *)
(* hosts, approvals and bounds: claims are held, an approval covers one    *)
(* effect, the records implement ApprovalLife, and an approval that can be *)
(* reused is not requested again.                                          *)
(***************************************************************************)
EXTENDS Approval, TLAPS

Updating == {"enter", "read", "write"}
UnderClaim == {"working", "succeeded", "failed"}
Searching == {"idle", "recoverList", "claimList", "scan", "pendingList", "request"}

\* The points of an operation, and what it has in hand at each.
OpPoint(o) ==
  /\ pc[o] \in Searching \cup Updating \cup UnderClaim \cup {"done"}
  /\ pc[o] = "scan" => job[o] \in {"recover", "claim"}
  /\ pc[o] \in Updating =>
       target[o] \in Id /\ job[o] \in {"recover", "claim", "consume", "release"}
  /\ pc[o] \in UnderClaim => target[o] \in Id /\ job[o] = "claim"

\* Its heartbeat runs only while the operation works or waits for it.
LeasePoint(o) ==
  /\ pc[Lease(o)] \in {"off", "wait", "lost"} \cup Updating
  /\ pc[Lease(o)] \in {"wait"} \cup Updating => pc[o] \in UnderClaim
  /\ pc[Lease(o)] \in Updating =>
       job[Lease(o)] = "renew" /\ target[Lease(o)] = target[o]

HumanPoint(h) ==
  /\ pc[h] \in {"idle"} \cup Updating
  /\ pc[h] \in Updating => target[h] \in Id /\ job[h] \in {"approve", "reject"}

PointInv ==
  /\ \A o \in Op : OpPoint(o) /\ LeasePoint(o)
  /\ \A h \in Human : HumanPoint(h)

TypeInv == TypeOK /\ PointInv

\* Whoever is in the guarded section of an approval has its guard.
GuardHeld ==
  \A t \in Thread :
    ProcessOf(t) \in alive /\ pc[t] \in {"read", "write"} => guard[target[t]] = ProcessOf(t)

\* A record names a claimant when it is claimed or consumed, and only then.
RecordInv ==
  \A i \in Id :
    IF rec[i].status \in {"claimed", "consumed"} THEN rec[i].by \in Op ELSE rec[i].by = None

\* What the test of an update found is still so when the update writes: the
\* guard keeps the others away, and time never undoes it.
Fresh(t) ==
  LET r == rec[target[t]] IN
    /\ job[t] \in {"approve", "reject"} => r.status = "pending"
    /\ job[t] = "claim" => r.status = "approved"
    /\ job[t] = "recover" => IsStale(ProcessOf(t), r)
    /\ job[t] \in {"renew", "consume", "release"} =>
         r.status = "claimed" /\ r.by = ProcessOf(t)
FreshInv == \A t \in Thread : ProcessOf(t) \in alive /\ pc[t] = "write" => Fresh(t)

\* An operation that has claimed nothing yet appears in no record, and one that
\* has not come to its end has settled nothing.
Unclaimed(o) ==
  pc[o] \in Searching \/ (pc[o] \in Updating /\ job[o] \in {"recover", "claim"})
BeforeInv ==
  \A o \in Op :
    /\ outcome[o] \in {"consumed", "released"} => pc[o] = "done"
    /\ Unclaimed(o) => o \notin displaced /\ \A i \in Id : rec[i].by # o

\* What becomes of an operation that marked its effect: it is under its claim,
\* then consumes it, and has consumed it unless that failed.
Accounted(o) ==
  \/ pc[o] \in UnderClaim
  \/ pc[o] \in Updating /\ job[o] = "consume"
  \/ /\ pc[o] = "done"
     /\ \/ outcome[o] = "unsettled"
        \/ target[o] \in Id /\ rec[target[o]].status = "consumed" /\ rec[target[o]].by = o
MarkInv == \A o \in marked \ late : Accounted(o) \/ o \in displaced

IInv ==
  TypeInv /\ GuardHeld /\ RecordInv /\ FreshInv /\ BeforeInv /\ ClaimHeld /\ MarkInv

-----------------------------------------------------------------------------

\* Operations, people and heartbeats are different threads.
LEMMA ThreadFacts ==
  /\ Thread = Op \cup Human \cup Leases
  /\ Process = Op \cup Human
  /\ \A o \in Op : o \notin Human /\ o \notin Leases /\ ProcessOf(o) = o
  /\ \A h \in Human : h \notin Op /\ h \notin Leases /\ ProcessOf(h) = h
  /\ \A o \in Op : Lease(o) \in Leases /\ ProcessOf(Lease(o)) = o
  /\ \A t \in Leases : t \notin Op /\ t \notin Human /\ \E o \in Op : t = Lease(o)
  /\ \A o, p \in Op : Lease(o) = Lease(p) => o = p
  BY ProcessAssumption DEF Thread, Process, Leases, Lease, ProcessOf

\* Every update is of an approval that is there.
LEMMA TargetFacts ==
  ASSUME TypeInv, NEW t \in Thread, pc[t] \in Updating
  PROVE  target[t] \in Id /\ job[t] \in Job \ {"none"}
<1>1. CASE t \in Op
  BY <1>1 DEF TypeInv, PointInv, OpPoint, Job
<1>2. CASE t \in Human
  BY <1>2 DEF TypeInv, PointInv, HumanPoint, Job
<1>3. CASE t \in Leases
  <2>1. PICK o \in Op : t = Lease(o)
    BY <1>3, ThreadFacts
  <2>2. target[t] = target[o] /\ target[o] \in Id /\ job[t] = "renew"
    BY <2>1 DEF TypeInv, PointInv, OpPoint, LeasePoint, Updating, UnderClaim
  <2>3. QED
    BY <2>2 DEF Job
<1>4. QED
  BY <1>1, <1>2, <1>3, ThreadFacts

\* The initial state has its types.
LEMMA TypeInit == Init => TypeInv
<1> SUFFICES ASSUME Init PROVE TypeInv
  OBVIOUS
<1> USE ThreadFacts
<1>1. rec \in [Id -> Record]
  <2>1. PICK f \in Left : rec = [i \in Id |-> Plain(f[i])]
    BY DEF Init
  <2>2. \A i \in Id : f[i] \in {"absent", "pending", "approved"}
    BY LeftAssumption
  <2>3. QED
    BY <2>1, <2>2 DEF Plain, Record, Status
<1>2. TypeOK
  <2>1. pc \in [Thread -> Point] /\ job \in [Thread -> Job] /\ target \in [Thread -> Id \cup {None}]
    BY DEF Init, Point, Job
  <2>2. QED
    BY <1>1, <2>1, BoundAssumption DEF Init, TypeOK, Outcome
<1>3. PointInv
  BY DEF Init, PointInv, OpPoint, LeasePoint, HumanPoint, Updating, UnderClaim, Searching
<1>4. QED
  BY <1>2, <1>3 DEF TypeInv

-----------------------------------------------------------------------------
(* The steps of Update, which all threads share                            *)

LEMMA EnterType == ASSUME TypeInv, NEW t \in Thread, Enter(t) PROVE TypeInv'
<1> USE ThreadFacts DEF Enter, At, Goto
<1>1. TypeOK'
  BY TargetFacts DEF TypeInv, TypeOK, Point, history, Updating
<1>2. PointInv'
  BY DEF TypeInv, TypeOK, PointInv, OpPoint, LeasePoint, HumanPoint, Updating, UnderClaim, Searching
<1>3. QED
  BY <1>1, <1>2 DEF TypeInv

LEMMA ReadType == ASSUME TypeInv, NEW t \in Thread, Read(t) PROVE TypeInv'
<1> USE ThreadFacts DEF Read, At, Goto
<1>1. TypeOK'
  BY DEF TypeInv, TypeOK, Point, history
<1>2. PointInv'
  BY DEF TypeInv, TypeOK, PointInv, OpPoint, LeasePoint, HumanPoint, Updating, UnderClaim, Searching
<1>3. QED
  BY <1>1, <1>2 DEF TypeInv

\* A thread that puts an update down keeps the types of what it has in hand.
LEMMA PutDownType ==
  ASSUME TypeInv, NEW t \in Thread, PutDown(t)
  PROVE  /\ job' \in [Thread -> Job] /\ target' \in [Thread -> Id \cup {None}]
         /\ \A u \in Thread \ {t} : job'[u] = job[u] /\ target'[u] = target[u]
         /\ t \in Op => job'[t] = job[t] /\ target'[t] = target[t]
  BY DEF PutDown, TypeInv, TypeOK, Job

LEMMA BusyType == ASSUME TypeInv, NEW t \in Thread, Busy(t) PROVE TypeInv'
<1> USE ThreadFacts, PutDownType DEF Busy, At, Goto
<1>1. TypeOK'
  <2>1. pc' \in [Thread -> Point] /\ outcome' \in [Op -> Outcome]
    BY SMTT(30) DEF TypeInv, TypeOK, Point, Outcome, Settling, End
  <2>2. QED
    BY <2>1 DEF TypeInv, TypeOK, history
<1>2. PointInv'
  BY DEF TypeInv, TypeOK, PointInv, OpPoint, LeasePoint, HumanPoint, Updating, UnderClaim, Searching,
    Settling, End
<1>3. QED
  BY <1>1, <1>2 DEF TypeInv

LEMMA RefuseType == ASSUME TypeInv, NEW t \in Thread, Refuse(t) PROVE TypeInv'
<1> USE ThreadFacts, PutDownType DEF Refuse, At, Goto
<1>1. TypeOK'
  <2>1. pc' \in [Thread -> Point] /\ outcome' \in [Op -> Outcome]
    BY SMTT(30) DEF TypeInv, TypeOK, Point, Outcome, Settling, End
  <2>2. guard' \in [Id -> Process \cup {None, "wedged"}]
    BY TargetFacts DEF TypeInv, TypeOK, Updating
  <2>3. QED
    BY <2>1, <2>2 DEF TypeInv, TypeOK, history
<1>2. PointInv'
  BY DEF TypeInv, TypeOK, PointInv, OpPoint, LeasePoint, HumanPoint, Updating, UnderClaim, Searching,
    Settling, End
<1>3. QED
  BY <1>1, <1>2 DEF TypeInv

\* What an update writes, and where its thread goes from there.
LEMMA WriteFacts ==
  ASSUME TypeInv, NEW t \in Thread, pc[t] \in Updating
  PROVE  /\ t \in Leases => AfterWrite(t) = "wait" /\ Result(t) = Claimed(ProcessOf(t))
         /\ t \in Human => /\ AfterWrite(t) = "idle"
                           /\ Result(t) \in {Plain("approved"), Plain("rejected")}
         /\ t \in Op /\ job[t] = "recover" =>
              /\ AfterWrite(t) \in {"claimList", "recoverList", "done"}
              /\ OutcomeOf(t) = (IF t \in Preflight THEN "ready" ELSE "none")
              /\ Result(t) = Plain("approved")
         /\ t \in Op /\ job[t] = "claim" =>
              AfterWrite(t) = "working" /\ OutcomeOf(t) = "none" /\ Result(t) = Claimed(t)
         /\ t \in Op /\ job[t] = "consume" =>
              AfterWrite(t) = "done" /\ OutcomeOf(t) = "consumed" /\ Result(t) = Consumed(t)
         /\ t \in Op /\ job[t] = "release" =>
              AfterWrite(t) = "done" /\ OutcomeOf(t) = "released" /\ Result(t) = Plain("approved")
<1> USE ThreadFacts
<1>1. CASE t \in Leases
  <2>1. job[t] = "renew"
    BY <1>1 DEF TypeInv, PointInv, LeasePoint
  <2>2. QED
    BY <1>1, <2>1 DEF AfterWrite, Result
<1>2. CASE t \in Human
  <2>1. job[t] \in {"approve", "reject"}
    BY <1>2 DEF TypeInv, PointInv, HumanPoint
  <2>2. QED
    BY <1>2, <2>1 DEF AfterWrite, Result
<1>3. CASE t \in Op
  BY <1>3 DEF AfterWrite, Result, OutcomeOf
<1>4. QED
  BY <1>1, <1>2, <1>3

\* The records that the updates write.
LEMMA RecordFacts ==
  /\ \A s \in Status : Plain(s) \in Record /\ Plain(s).status = s /\ Plain(s).by = None
  /\ \A o \in Op : /\ Claimed(o) \in Record /\ Claimed(o).status = "claimed"
                   /\ Claimed(o).by = o
  /\ \A o \in Op : /\ Consumed(o) \in Record /\ Consumed(o).status = "consumed"
                   /\ Consumed(o).by = o
  BY DEF Plain, Claimed, Consumed, Record, Status

\* A record that time has made overdue.
LEMMA OverdueFacts ==
  ASSUME NEW r \in Record
  PROVE  /\ [r EXCEPT !.overdue = TRUE] \in Record
         /\ [r EXCEPT !.overdue = TRUE].status = r.status
         /\ [r EXCEPT !.overdue = TRUE].by = r.by
         /\ [r EXCEPT !.overdue = TRUE].overdue = TRUE
  BY DEF Record

LEMMA WriteType == ASSUME TypeInv, NEW t \in Thread, Write(t) PROVE TypeInv'
<1> USE ThreadFacts, PutDownType, TargetFacts, WriteFacts DEF Updating
<1>1. pc[t] = "write" /\ target[t] \in Id /\ PutDown(t) /\ t \in Thread
  BY DEF Write, At
<1>2. Result(t) \in Record
  <2>1. t \in Op => job[t] \in {"recover", "claim", "consume", "release"}
    BY <1>1 DEF TypeInv, PointInv, OpPoint
  <2>2. QED
    BY <1>1, <2>1, RecordFacts DEF Status
<1>3. rec' \in [Id -> Record] /\ guard' \in [Id -> Process \cup {None, "wedged"}]
  BY <1>1, <1>2 DEF Write, TypeInv, TypeOK
<1>4. pc' \in [Thread -> Point]
  <2>1. AfterWrite(t) \in Point
    BY <1>1 DEF TypeInv, PointInv, OpPoint, Point
  <2>2. QED
    BY <1>1, <2>1 DEF Write, TypeInv, TypeOK, Point
<1>5. outcome' \in [Op -> Outcome] /\ phase' \in [Op -> {"check", "claim"}]
  BY <1>1, SMTT(30) DEF Write, TypeInv, TypeOK, Outcome, PointInv, OpPoint
<1>6. displaced' \subseteq Op \cup {None}
  BY <1>1 DEF Write, TypeInv, TypeOK, Record
<1>7. TypeOK'
  BY <1>1, <1>3, <1>4, <1>5, <1>6 DEF Write, TypeInv, TypeOK
<1>8. ASSUME NEW o \in Op PROVE OpPoint(o)' /\ LeasePoint(o)'
  <2>1. CASE t = o
    <3>1. OpPoint(o)'
      BY <1>1, <2>1 DEF Write, TypeInv, TypeOK, PointInv, OpPoint, UnderClaim, Searching
    <3>2. LeasePoint(o)'
      BY <1>1, <2>1 DEF Write, TypeInv, TypeOK, PointInv, OpPoint, LeasePoint, UnderClaim, Searching
    <3>3. QED
      BY <3>1, <3>2
  <2>2. CASE t = Lease(o)
    BY <1>1, <2>2 DEF Write, TypeInv, TypeOK, PointInv, OpPoint, LeasePoint, UnderClaim, Searching
  <2>3. CASE t # o /\ t # Lease(o)
    <3>1. pc'[o] = pc[o] /\ pc'[Lease(o)] = pc[Lease(o)]
      BY <1>1, <2>3 DEF Write, TypeInv, TypeOK, PointInv, LeasePoint, HumanPoint
    <3>2. QED
      BY <1>1, <2>3, <3>1 DEF TypeInv, PointInv, OpPoint, LeasePoint
  <2>4. QED
    BY <2>1, <2>2, <2>3
<1>9. ASSUME NEW h \in Human PROVE HumanPoint(h)'
  <2>1. pc'[h] = (IF t = h THEN "idle" ELSE pc[h])
    <3>1. job[t] = "claim" => t \in Op
      BY <1>1 DEF TypeInv, PointInv, HumanPoint, LeasePoint
    <3>2. QED
      BY <1>1, <3>1 DEF Write, TypeInv, TypeOK
  <2>2. t # h => job'[h] = job[h] /\ target'[h] = target[h]
    BY <1>1
  <2>3. QED
    BY <2>1, <2>2 DEF TypeInv, PointInv, HumanPoint
<1>10. QED
  BY <1>7, <1>8, <1>9 DEF TypeInv, PointInv

-----------------------------------------------------------------------------
(* The other steps                                                         *)

LEMMA SearchType ==
  ASSUME TypeInv, NEW o \in Op,
         Look(o) \/ RecoverList(o) \/ ClaimList(o) \/ Try(o) \/ Exhausted(o) \/ PendingList(o)
  PROVE  TypeInv'
<1> USE ThreadFacts DEF At, Goto, End
<1> USE DEF TypeInv, PointInv, OpPoint, LeasePoint, HumanPoint, Updating, UnderClaim, Searching
<1>1. CASE Look(o)
  <2>1. TypeOK'
    <3>1. reusable' \in [Op -> SUBSET (Id \X (Op \cup {None}))]
      <4>1. Reusable(o) \in SUBSET (Id \X (Op \cup {None}))
        BY DEF Reusable, Usable, TypeOK, Record
      <4>2. QED
        BY <1>1, <4>1 DEF Look, TypeOK
    <3>2. /\ \E l \in {"done", "recoverList"} : pc' = [pc EXCEPT ![o] = l]
          /\ outcome' \in {outcome, [outcome EXCEPT ![o] = "ready"]}
          /\ phase' \in {phase, [phase EXCEPT ![o] = "claim"]}
      BY <1>1, Zenon DEF Look
    <3>3. /\ pc' \in [Thread -> Point] /\ outcome' \in [Op -> Outcome]
          /\ phase' \in [Op -> {"check", "claim"}]
      BY <3>2 DEF TypeOK, Point, Outcome
    <3>4. QED
      BY <1>1, <3>1, <3>3 DEF Look, TypeOK
  <2>2. PointInv'
    BY <1>1 DEF Look, TypeOK
  <2>3. QED
    BY <2>1, <2>2
<1>2. CASE RecoverList(o) \/ ClaimList(o)
  <2>1. TypeOK'
    <3>1. /\ pc' = [pc EXCEPT ![o] = "scan"]
          /\ \E j \in {"recover", "claim"} : job' = [job EXCEPT ![o] = j]
          /\ \E S \in SUBSET Id : todo' = [todo EXCEPT ![o] = S]
      BY <1>2 DEF RecoverList, ClaimList, ListFor
    <3>2. pc' \in [Thread -> Point] /\ job' \in [Thread -> Job] /\ todo' \in [Op -> SUBSET Id]
      BY <3>1 DEF TypeOK, Point, Job
    <3>3. QED
      BY <1>2, <3>2 DEF RecoverList, ClaimList, ListFor, TypeOK, history
  <2>2. PointInv'
    BY <1>2, SMTT(30) DEF RecoverList, ClaimList, ListFor, TypeOK
  <2>3. QED
    BY <2>1, <2>2
<1>3. CASE Try(o)
  <2>1. TypeOK'
    BY <1>3 DEF Try, Begin, TypeOK, Point, Job, history
  <2>2. PointInv'
    BY <1>3 DEF Try, Begin, TypeOK
  <2>3. QED
    BY <2>1, <2>2
<1>4. CASE Exhausted(o) \/ PendingList(o)
  <2>1. TypeOK'
    <3>1. pc' \in [Thread -> Point] /\ outcome' \in [Op -> Outcome]
      BY <1>4 DEF Exhausted, PendingList, TypeOK, Point, Outcome
    <3>2. QED
      BY <1>4, <3>1 DEF Exhausted, PendingList, TypeOK, history
  <2>2. PointInv'
    BY <1>4 DEF Exhausted, PendingList, TypeOK
  <2>3. QED
    BY <2>1, <2>2
<1>5. QED
  BY <1>1, <1>2, <1>3, <1>4

LEMMA RequestType == ASSUME TypeInv, NEW o \in Op, Request(o) PROVE TypeInv'
<1> USE ThreadFacts DEF Request, At, Goto, End
<1>1. TypeOK'
  <2>1. rec' \in [Id -> Record]
    BY RecordFacts DEF TypeInv, TypeOK, Status
  <2>2. pc' \in [Thread -> Point] /\ outcome' \in [Op -> Outcome]
    BY DEF TypeInv, TypeOK, Point, Outcome
  <2>3. QED
    BY <2>1, <2>2 DEF TypeInv, TypeOK, history
<1>2. PointInv'
  BY DEF TypeInv, TypeOK, PointInv, OpPoint, LeasePoint, HumanPoint, Updating, UnderClaim, Searching
<1>3. QED
  BY <1>1, <1>2 DEF TypeInv

LEMMA WorkType ==
  ASSUME TypeInv, NEW o \in Op, Mark(o) \/ Finish(o) \/ StopLease(o) \/ LeaseWake(o)
  PROVE  TypeInv'
<1> USE ThreadFacts DEF At, Goto, Begin
<1> USE DEF TypeInv, PointInv, OpPoint, LeasePoint, HumanPoint, Updating, UnderClaim, Searching
<1>1. CASE Mark(o)
  <2>1. TypeOK'
    BY <1>1 DEF Mark, TypeOK
  <2>2. PointInv'
    BY <1>1 DEF Mark
  <2>3. QED
    BY <2>1, <2>2
<1>2. CASE Finish(o)
  <2>1. TypeOK'
    BY <1>2 DEF Finish, TypeOK, Point, history
  <2>2. PointInv'
    BY <1>2 DEF Finish, TypeOK
  <2>3. QED
    BY <2>1, <2>2
<1>3. CASE StopLease(o)
  <2>1. TypeOK'
    BY <1>3 DEF StopLease, TypeOK, Point, Job, history
  <2>2. PointInv'
    BY <1>3 DEF StopLease, TypeOK
  <2>3. QED
    BY <2>1, <2>2
<1>4. CASE LeaseWake(o)
  <2>1. TypeOK'
    BY <1>4, SMTT(30) DEF LeaseWake, TypeOK, Point, Job, history
  <2>2. PointInv'
    BY <1>4 DEF LeaseWake, TypeOK
  <2>3. QED
    BY <2>1, <2>2
<1>5. QED
  BY <1>1, <1>2, <1>3, <1>4

LEMMA DecideType == ASSUME TypeInv, NEW h \in Human, Decide(h) PROVE TypeInv'
<1> USE ThreadFacts DEF Decide, At, Goto, Begin
<1>1. PICK i \in Id, j \in {"approve", "reject"} : Begin(h, j, i)
  OBVIOUS
<1>2. TypeOK'
  BY <1>1, BoundAssumption DEF TypeInv, TypeOK, Point, Job, history
<1>3. PointInv'
  BY <1>1 DEF TypeInv, TypeOK, PointInv, OpPoint, LeasePoint, HumanPoint, Updating, UnderClaim, Searching
<1>4. QED
  BY <1>2, <1>3 DEF TypeInv

\* Deaths and clocks leave every thread where it is.
LEMMA EnvironmentType ==
  ASSUME TypeInv,
         \/ \E p \in Process : Die(p)
         \/ \E o \in Op : Exit(o)
         \/ \E i \in Id : Expire(i) \/ Overdue(i)
  PROVE  TypeInv' /\ UNCHANGED <<pc, job, target>>
<1>1. UNCHANGED <<pc, job, target>>
  BY DEF Die, Exit, Expire, Overdue
<1>2. TypeOK'
  <2>1. ASSUME NEW p \in Process, Die(p) PROVE TypeOK'
    <3>1. guard' \in [Id -> Process \cup {None, "wedged"}]
      BY <2>1 DEF Die, TypeInv, TypeOK
    <3>2. QED
      BY <2>1, <3>1 DEF Die, TypeInv, TypeOK, history
  <2>2. ASSUME NEW o \in Op, Exit(o) PROVE TypeOK'
    BY <2>2 DEF Exit, TypeInv, TypeOK, history
  <2>3. ASSUME NEW i \in Id, Expire(i) PROVE TypeOK'
    BY <2>3 DEF Expire, TypeInv, TypeOK, history
  <2>4. ASSUME NEW i \in Id, Overdue(i) PROVE TypeOK'
    <3>1. rec[i] \in Record
      BY DEF TypeInv, TypeOK
    <3>2. [rec[i] EXCEPT !.overdue = TRUE] \in Record
      BY <3>1, OverdueFacts
    <3>3. QED
      BY <2>4, <3>2 DEF Overdue, TypeInv, TypeOK, history
  <2>5. QED
    BY <2>1, <2>2, <2>3, <2>4
<1>3. PointInv'
  BY <1>1 DEF TypeInv, PointInv, OpPoint, LeasePoint, HumanPoint
<1>4. QED
  BY <1>1, <1>2, <1>3 DEF TypeInv

\* The steps of Next, with the updates of all threads taken together.
LEMMA NextCases ==
  ASSUME [Next]_vars
  PROVE  \/ UNCHANGED vars
         \/ \E t \in Thread : Update(t)
         \/ \E o \in Op : \/ Look(o) \/ RecoverList(o) \/ ClaimList(o) \/ Try(o) \/ Exhausted(o)
                          \/ PendingList(o)
         \/ \E o \in Op : Request(o)
         \/ \E o \in Op : Mark(o) \/ Finish(o) \/ StopLease(o) \/ LeaseWake(o)
         \/ \E h \in Human : Decide(h)
         \/ \/ \E p \in Process : Die(p)
            \/ \E o \in Op : Exit(o)
            \/ \E i \in Id : Expire(i) \/ Overdue(i)
  BY ThreadFacts DEF Next, OpStep, LeaseStep

\* Every variable keeps its type, and every thread its points.
THEOREM TypeInvariant == Spec => []TypeInv
<1>1. TypeInv /\ [Next]_vars => TypeInv'
  <2> SUFFICES ASSUME TypeInv, [Next]_vars PROVE TypeInv'
    OBVIOUS
  <2>1. CASE UNCHANGED vars
    BY <2>1 DEF vars, history, TypeInv, TypeOK, PointInv, OpPoint, LeasePoint, HumanPoint
  <2>2. CASE \E t \in Thread : Update(t)
    BY <2>2, EnterType, BusyType, ReadType, RefuseType, WriteType DEF Update
  <2>3. CASE \E o \in Op : \/ Look(o) \/ RecoverList(o) \/ ClaimList(o) \/ Try(o) \/ Exhausted(o)
                          \/ PendingList(o)
    BY <2>3, SearchType
  <2>4. CASE \E o \in Op : Request(o)
    BY <2>4, RequestType
  <2>5. CASE \E o \in Op : Mark(o) \/ Finish(o) \/ StopLease(o) \/ LeaseWake(o)
    BY <2>5, WorkType
  <2>6. CASE \E h \in Human : Decide(h)
    BY <2>6, DecideType
  <2>7. CASE \/ \E p \in Process : Die(p)
             \/ \E o \in Op : Exit(o)
             \/ \E i \in Id : Expire(i) \/ Overdue(i)
    BY <2>7, EnvironmentType
  <2>8. QED
    BY <2>1, <2>2, <2>3, <2>4, <2>5, <2>6, <2>7, NextCases
<1>2. QED
  BY TypeInit, <1>1, PTL DEF Spec

-----------------------------------------------------------------------------
(* The claim                                                               *)

\* The guard is a mutual exclusion: at most one live thread is in the guarded
\* section of an approval.
LEMMA Exclusion ==
  ASSUME TypeInv, GuardHeld, NEW t \in Thread, NEW u \in Thread,
         ProcessOf(t) \in alive, pc[t] \in {"read", "write"},
         ProcessOf(u) \in alive, pc[u] \in {"read", "write"},
         target[t] = target[u]
  PROVE  t = u
<1>1. ProcessOf(t) = ProcessOf(u)
  BY DEF GuardHeld
<1>2. ASSUME NEW o \in Op PROVE ~(pc[o] \in {"read", "write"} /\ pc[Lease(o)] \in {"read", "write"})
  BY DEF TypeInv, PointInv, LeasePoint, Updating, UnderClaim
<1>3. ASSUME NEW v \in Thread
      PROVE  \/ v \in Human /\ ProcessOf(v) = v
             \/ ProcessOf(v) \in Op /\ (v = ProcessOf(v) \/ v = Lease(ProcessOf(v)))
  BY ThreadFacts
<1>4. CASE t \in Human
  BY <1>1, <1>3, <1>4, ThreadFacts
<1>5. CASE ProcessOf(t) \in Op
  BY <1>1, <1>2, <1>3, <1>5, ThreadFacts
<1>6. QED
  BY <1>3, <1>4, <1>5

\* What all the steps have in common that write no record.
Quiet ==
  /\ rec' = rec /\ displaced' = displaced /\ alive' \subseteq alive /\ expired \subseteq expired'
  /\ \A u \in Thread : pc'[u] = "write" =>
       /\ target'[u] = target[u] /\ job'[u] = job[u]
       /\ pc[u] = "write" \/ Read(u)
  /\ \A o \in Op :
       /\ Unclaimed(o)' => Unclaimed(o)
       /\ Holding(o)' => Holding(o) /\ target'[o] = target[o]
       /\ pc[o] = "done" => pc'[o] = "done" /\ outcome'[o] = outcome[o]
       /\ outcome'[o] \in {"consumed", "released"} => outcome'[o] = outcome[o]
       /\ o \in marked' \ late' => Accounted(o)' \/ (o \in marked \ late /\ ~Accounted(o))

\* They keep what is said of the records.
LEMMA QuietKeeps ==
  ASSUME IInv, TypeInv', Quiet
  PROVE  RecordInv' /\ FreshInv' /\ BeforeInv' /\ ClaimHeld' /\ MarkInv'
<1>1. RecordInv' /\ BeforeInv'
  BY DEF IInv, RecordInv, BeforeInv, Quiet
<1>2. FreshInv'
  <2> SUFFICES ASSUME NEW t \in Thread, ProcessOf(t) \in alive', pc'[t] = "write" PROVE Fresh(t)'
    BY DEF FreshInv
  <2>1. ProcessOf(t) \in alive /\ Fresh(t)
    <3>1. CASE pc[t] = "write"
      BY <3>1 DEF IInv, FreshInv, Quiet
    <3>2. CASE Read(t)
      BY <3>2 DEF Read, Test, Fresh, Quiet
    <3>3. QED
      BY <3>1, <3>2 DEF Quiet
  <2>2. target'[t] = target[t] /\ job'[t] = job[t] /\ rec' = rec /\ alive' \subseteq alive
    BY DEF Quiet
  <2>3. QED
    BY <2>1, <2>2 DEF Fresh, IsStale
<1>3. ClaimHeld'
  BY DEF IInv, ClaimHeld, Quiet
<1>4. MarkInv'
  BY DEF IInv, MarkInv, Quiet, TypeInv, TypeOK
<1>5. QED
  BY <1>1, <1>2, <1>3, <1>4

-----------------------------------------------------------------------------
(* The steps that write no record                                          *)

\* Each of them leaves the guards to their holders.  A guard that can be entered
\* is free or belongs to a dead process.
LEMMA EnterQuiet == ASSUME IInv, NEW t \in Thread, Enter(t) PROVE Quiet /\ GuardHeld'
<1> USE ThreadFacts DEF Enter, At, Goto, Updating, UnderClaim, Searching
<1>1. Quiet
  BY DEF IInv, TypeInv, TypeOK, Quiet, Unclaimed, Holding, Settling, Accounted, MarkInv, BeforeInv, history
<1>2. GuardHeld'
  <2> SUFFICES ASSUME NEW u \in Thread, ProcessOf(u) \in alive', pc'[u] \in {"read", "write"}
               PROVE  guard'[target'[u]] = ProcessOf(u)
    BY DEF GuardHeld
  <2>1. target[t] \in Id /\ guard \in [Id -> Process \cup {None, "wedged"}] /\ target' = target
    BY TargetFacts DEF IInv, TypeInv, TypeOK
  <2>2. CASE u = t
    BY <2>1, <2>2
  <2>3. CASE u # t
    <3>1. pc[u] \in {"read", "write"} /\ guard[target[u]] = ProcessOf(u)
      BY <2>3 DEF IInv, TypeInv, TypeOK, GuardHeld
    <3>2. target[u] # target[t]
      BY <3>1, ProcessAssumption DEF CanEnter
    <3>3. target[u] \in Id
      BY <3>1, TargetFacts DEF IInv
    <3>4. QED
      BY <2>1, <3>1, <3>2, <3>3
  <2>4. QED
    BY <2>2, <2>3
<1>3. QED
  BY <1>1, <1>2

\* What is read under the guard is fresh.
LEMMA ReadQuiet == ASSUME IInv, NEW t \in Thread, Read(t) PROVE Quiet /\ GuardHeld'
<1> USE ThreadFacts DEF At, Goto, Updating, UnderClaim, Searching
<1>1. Quiet
  <2>1. \A u \in Thread : pc'[u] = "write" => pc[u] = "write" \/ u = t
    BY DEF Read, IInv, TypeInv, TypeOK
  <2>2. \A u \in Thread : pc'[u] = "write" =>
          /\ target'[u] = target[u] /\ job'[u] = job[u]
          /\ pc[u] = "write" \/ Read(u)
    <3>1. target' = target /\ job' = job
      BY DEF Read
    <3>2. QED
      BY <2>1, <3>1
  <2>3. /\ rec' = rec /\ displaced' = displaced /\ alive' = alive /\ expired' = expired
        /\ \A o \in Op :
             /\ Unclaimed(o)' => Unclaimed(o)
             /\ Holding(o)' => Holding(o) /\ target'[o] = target[o]
             /\ pc[o] = "done" => pc'[o] = "done" /\ outcome'[o] = outcome[o]
             /\ outcome'[o] \in {"consumed", "released"} => outcome'[o] = outcome[o]
             /\ o \in marked' \ late' => Accounted(o)' \/ (o \in marked \ late /\ ~Accounted(o))
    BY DEF Read, IInv, TypeInv, TypeOK, Unclaimed, Holding, Settling, Accounted, history
  <2>4. QED
    BY <2>2, <2>3, Zenon DEF Quiet
<1>2. GuardHeld'
  BY DEF Read, GuardHeld, IInv, TypeInv, TypeOK
<1>3. QED
  BY <1>1, <1>2

LEMMA BusyQuiet == ASSUME IInv, NEW t \in Thread, Busy(t) PROVE Quiet /\ GuardHeld'
<1> USE ThreadFacts, PutDownType DEF Busy, At, Goto, End, Updating, UnderClaim, Searching
<1>1. Quiet
  BY DEF IInv, TypeInv, TypeOK, Quiet, Unclaimed, Holding, Settling, Accounted, history
<1>2. GuardHeld'
  BY DEF GuardHeld, IInv, TypeInv, TypeOK, Settling
<1>3. QED
  BY <1>1, <1>2

\* Nobody else is in the guarded section that a refused update leaves.
LEMMA RefuseQuiet == ASSUME IInv, NEW t \in Thread, Refuse(t) PROVE Quiet /\ GuardHeld'
<1> USE ThreadFacts, PutDownType DEF Refuse, At, Goto, End, Updating, UnderClaim, Searching
<1>1. Quiet
  BY DEF IInv, TypeInv, TypeOK, PointInv, OpPoint, Quiet, Unclaimed, Holding, Settling, Accounted, history
<1>2. GuardHeld'
  <2> SUFFICES ASSUME NEW u \in Thread, ProcessOf(u) \in alive', pc'[u] \in {"read", "write"}
               PROVE  guard'[target'[u]] = ProcessOf(u)
    BY DEF GuardHeld
  <2>1. u # t /\ pc[u] \in {"read", "write"} /\ target'[u] = target[u]
    BY DEF IInv, TypeInv, TypeOK, Settling
  <2>2. target[u] # target[t]
    BY <2>1, Exclusion DEF IInv
  <2>3. target[u] \in Id /\ guard[target[u]] = ProcessOf(u)
    BY <2>1, TargetFacts DEF IInv, GuardHeld
  <2>4. QED
    BY <2>1, <2>2, <2>3 DEF IInv, TypeInv, TypeOK
<1>3. QED
  BY <1>1, <1>2

LEMMA SearchQuiet ==
  ASSUME IInv, NEW o \in Op,
         Look(o) \/ RecoverList(o) \/ ClaimList(o) \/ Try(o) \/ Exhausted(o) \/ PendingList(o)
  PROVE  Quiet /\ GuardHeld'
<1> USE ThreadFacts DEF At, Goto, End, Updating, UnderClaim, Searching
<1>1. /\ rec' = rec /\ displaced' = displaced /\ alive' = alive /\ expired' = expired /\ guard' = guard
      /\ marked' = marked /\ late' = late
      /\ \A u \in Thread \ {o} : pc'[u] = pc[u] /\ job'[u] = job[u] /\ target'[u] = target[u]
      /\ \A p \in Op \ {o} : outcome'[p] = outcome[p]
  BY DEF Look, RecoverList, ClaimList, ListFor, Try, Begin, Exhausted, PendingList, history,
    IInv, TypeInv, TypeOK
<1>2. /\ pc[o] \in Searching
      /\ pc'[o] \in Searching \cup {"enter", "done"}
      /\ pc'[o] = "enter" => job'[o] \in {"recover", "claim"}
      /\ outcome'[o] \notin {"consumed", "released"}
  BY DEF Look, RecoverList, ClaimList, ListFor, Try, Begin, Exhausted, PendingList, history,
    IInv, TypeInv, TypeOK, PointInv, OpPoint, BeforeInv
<1>3. ~Accounted(o)
  BY <1>2 DEF Accounted
<1>4. Quiet
  BY <1>1, <1>2, <1>3 DEF Quiet, Unclaimed, Holding, Settling, Accounted
<1>5. GuardHeld'
  BY <1>1, <1>2 DEF GuardHeld, IInv
<1>6. QED
  BY <1>4, <1>5

LEMMA WorkQuiet ==
  ASSUME IInv, NEW o \in Op, Mark(o) \/ Finish(o) \/ StopLease(o) \/ LeaseWake(o)
  PROVE  Quiet /\ GuardHeld'
<1> USE ThreadFacts DEF At, Goto, Begin, Updating, UnderClaim, Searching
<1>1. CASE Mark(o)
  <2>1. Quiet
    BY <1>1 DEF Mark, Quiet, Unclaimed, Holding, Settling, Accounted, GivesBack
  <2>2. GuardHeld'
    BY <1>1 DEF Mark, GuardHeld, IInv
  <2>3. QED
    BY <2>1, <2>2
<1>2. CASE Finish(o)
  <2>1. Quiet
    BY <1>2 DEF Finish, Quiet, Unclaimed, Holding, Settling, Accounted, IInv, TypeInv, TypeOK, history
  <2>2. GuardHeld'
    BY <1>2 DEF Finish, GuardHeld, IInv, TypeInv, TypeOK
  <2>3. QED
    BY <2>1, <2>2
<1>3. CASE StopLease(o)
  <2>1. Quiet
    BY <1>3 DEF StopLease, Quiet, Unclaimed, Holding, Settling, Accounted, IInv, TypeInv, TypeOK, history
  <2>2. GuardHeld'
    BY <1>3 DEF StopLease, GuardHeld, IInv, TypeInv, TypeOK
  <2>3. QED
    BY <2>1, <2>2
<1>4. CASE LeaseWake(o)
  <2>1. Quiet
    BY <1>4 DEF LeaseWake, Quiet, Unclaimed, Holding, Settling, Accounted, IInv, TypeInv, TypeOK, history
  <2>2. GuardHeld'
    BY <1>4 DEF LeaseWake, GuardHeld, IInv, TypeInv, TypeOK
  <2>3. QED
    BY <2>1, <2>2
<1>5. QED
  BY <1>1, <1>2, <1>3, <1>4

LEMMA DecideQuiet == ASSUME IInv, NEW h \in Human, Decide(h) PROVE Quiet /\ GuardHeld'
<1> USE ThreadFacts DEF Decide, At, Goto, Begin, Updating, UnderClaim, Searching
<1>1. PICK i \in Id, j \in {"approve", "reject"} : Begin(h, j, i)
  OBVIOUS
<1>2. Quiet
  BY <1>1 DEF Quiet, Unclaimed, Holding, Settling, Accounted, IInv, TypeInv, TypeOK, history
<1>3. GuardHeld'
  BY <1>1 DEF GuardHeld, IInv, TypeInv, TypeOK
<1>4. QED
  BY <1>2, <1>3

\* A process that dies may wedge a guard, but none that a live process holds.
LEMMA EnvironmentQuiet ==
  ASSUME IInv, (\E p \in Process : Die(p)) \/ (\E o \in Op : Exit(o)) \/ (\E i \in Id : Expire(i))
  PROVE  Quiet /\ GuardHeld'
<1>1. /\ UNCHANGED <<rec, pc, job, target, marked, late, outcome, displaced>>
      /\ alive' \subseteq alive /\ expired \subseteq expired'
  BY DEF Die, Exit, Expire, history
<1>2. Quiet
  BY <1>1 DEF Quiet, Unclaimed, Holding, Settling, Accounted
<1>3. GuardHeld'
  <2> SUFFICES ASSUME NEW u \in Thread, ProcessOf(u) \in alive', pc'[u] \in {"read", "write"}
               PROVE  guard'[target'[u]] = ProcessOf(u)
    BY DEF GuardHeld
  <2>1. ProcessOf(u) \in alive /\ pc[u] \in {"read", "write"} /\ guard[target[u]] = ProcessOf(u)
    BY <1>1 DEF IInv, GuardHeld
  <2>2. target[u] \in Id /\ guard \in [Id -> Process \cup {None, "wedged"}]
    BY <2>1, TargetFacts DEF IInv, TypeInv, TypeOK, Updating
  <2>3. CASE UNCHANGED guard
    BY <1>1, <2>1, <2>3
  <2>4. ASSUME NEW t \in Thread, CanEnter(target[t]), guard' = [guard EXCEPT ![target[t]] = "wedged"]
        PROVE  guard'[target'[u]] = ProcessOf(u)
    <3>1. target[u] # target[t]
      BY <2>1, <2>4, ProcessAssumption, ThreadFacts DEF CanEnter, IInv, TypeInv, TypeOK
    <3>2. QED
      BY <1>1, <2>1, <2>2, <2>4, <3>1
  <2>5. QED
    BY <2>3, <2>4 DEF Die, Exit, Expire
<1>4. QED
  BY <1>2, <1>3

-----------------------------------------------------------------------------
(* The steps that write a record                                           *)

\* A request makes a record of an identifier that no update is about.
LEMMA RequestKeeps == ASSUME IInv, NEW o \in Op, Request(o) PROVE IInv'
<1> USE ThreadFacts DEF At, Goto, End
<1>1. PICK i \in Id : rec[i].status = "absent" /\ rec' = [rec EXCEPT ![i] = Plain("pending")]
  BY DEF Request
<1>2. /\ rec'[i].status = "pending" /\ rec'[i].by = None /\ rec[i].by = None
      /\ \A j \in Id \ {i} : rec'[j] = rec[j]
  BY <1>1, RecordFacts DEF IInv, TypeInv, TypeOK, RecordInv, Status
<1>3. /\ pc[o] = "request" /\ pc' = [pc EXCEPT ![o] = "done"]
      /\ outcome' = [outcome EXCEPT ![o] = "approval-required"]
      /\ UNCHANGED <<expired, guard, job, target, marked, alive, late, displaced>>
  BY DEF Request, history
<1>4. TypeInv'
  BY RequestType DEF IInv
<1>5. GuardHeld'
  BY <1>3 DEF GuardHeld, IInv, TypeInv, TypeOK
<1>6. RecordInv'
  BY <1>2 DEF RecordInv, IInv
<1>7. FreshInv'
  <2> SUFFICES ASSUME NEW u \in Thread, ProcessOf(u) \in alive', pc'[u] = "write" PROVE Fresh(u)'
    BY DEF FreshInv
  <2>1. ProcessOf(u) \in alive /\ pc[u] = "write" /\ Fresh(u)
    BY <1>3 DEF IInv, FreshInv, TypeInv, TypeOK
  <2>2. target[u] \in Id /\ job[u] \in Job \ {"none"}
    BY <2>1, TargetFacts DEF IInv, Updating
  <2>3. target[u] # i
    BY <1>1, <2>1, <2>2 DEF Fresh, IsStale, Job
  <2>4. QED
    BY <1>2, <1>3, <2>1, <2>2, <2>3 DEF Fresh, IsStale
<1>8. BeforeInv'
  BY <1>2, <1>3, ProcessAssumption DEF BeforeInv, IInv, TypeInv, TypeOK, Unclaimed, Searching, Updating
<1>9. ClaimHeld'
  BY <1>1, <1>2, <1>3 DEF ClaimHeld, Holding, Settling, IInv, TypeInv, TypeOK, PointInv, OpPoint, Updating, UnderClaim
<1>10. MarkInv'
  BY <1>1, <1>2, <1>3 DEF MarkInv, Accounted, IInv, TypeInv, TypeOK, Updating, UnderClaim
<1>11. QED
  BY <1>4, <1>5, <1>6, <1>7, <1>8, <1>9, <1>10 DEF IInv

\* Time leaves a record's status and claimant, and makes a stale claim no fresher.
LEMMA OverdueKeeps == ASSUME IInv, NEW i \in Id, Overdue(i) PROVE IInv'
<1> USE ThreadFacts
<1>1. /\ \A j \in Id : rec'[j].status = rec[j].status /\ rec'[j].by = rec[j].by
      /\ \A j \in Id : rec[j].overdue => rec'[j].overdue
  <2>1. rec \in [Id -> Record] /\ rec' = [rec EXCEPT ![i] = [rec[i] EXCEPT !.overdue = TRUE]]
    BY DEF Overdue, IInv, TypeInv, TypeOK
  <2>2. QED
    BY <2>1, OverdueFacts
<1>2. UNCHANGED <<expired, guard, pc, job, target, marked, outcome, alive, late, displaced>>
  BY DEF Overdue, history
<1>3. TypeInv'
  BY EnvironmentType DEF IInv
<1>4. GuardHeld'
  BY <1>2 DEF GuardHeld, IInv
<1>5. RecordInv'
  BY <1>1 DEF RecordInv, IInv
<1>6. FreshInv'
  <2> SUFFICES ASSUME NEW u \in Thread, ProcessOf(u) \in alive, pc[u] = "write" PROVE Fresh(u)'
    BY <1>2 DEF FreshInv
  <2>1. Fresh(u) /\ target[u] \in Id
    BY TargetFacts DEF IInv, FreshInv, Updating
  <2>2. QED
    BY <1>1, <1>2, <2>1 DEF Fresh, IsStale
<1>7. BeforeInv'
  BY <1>1, <1>2 DEF BeforeInv, IInv, Unclaimed
<1>8. ClaimHeld'
  BY <1>1, <1>2 DEF ClaimHeld, Holding, Settling, IInv, TypeInv, PointInv, OpPoint, Updating, UnderClaim
<1>9. MarkInv'
  BY <1>1, <1>2 DEF MarkInv, Accounted, IInv
<1>10. QED
  BY <1>3, <1>4, <1>5, <1>6, <1>7, <1>8, <1>9 DEF IInv

\* The six updates, each with what it finds, what it leaves, and where it takes
\* its operation.
Becomes(t, s, p) == rec'[target[t]].status = s /\ rec'[target[t]].by = p
Deciding(t) ==
  /\ t \in Human
  /\ rec[target[t]].status = "pending"
  /\ Becomes(t, "approved", None) \/ Becomes(t, "rejected", None)
  /\ UNCHANGED <<displaced, outcome>>
Renewing(t) ==
  /\ t \in Leases /\ ProcessOf(t) \in Op /\ pc[ProcessOf(t)] \in UnderClaim
  /\ rec[target[t]].status = "claimed" /\ rec[target[t]].by = ProcessOf(t)
  /\ Becomes(t, "claimed", ProcessOf(t))
  /\ UNCHANGED <<displaced, outcome>>
Recovering(t) ==
  /\ t \in Op /\ job[t] = "recover"
  /\ rec[target[t]].status = "claimed" /\ rec[target[t]].by \in Op \ {t}
  /\ Becomes(t, "approved", None)
  /\ pc'[t] \in {"claimList", "recoverList", "done"}
  /\ displaced' = displaced \cup {rec[target[t]].by}
  /\ \E s \in {"ready", "none"} : outcome' = [outcome EXCEPT ![t] = s]
Claiming(t) ==
  /\ t \in Op /\ job[t] = "claim"
  /\ rec[target[t]].status = "approved"
  /\ Becomes(t, "claimed", t)
  /\ pc'[t] = "working"
  /\ displaced' = displaced /\ outcome' = [outcome EXCEPT ![t] = "none"]
Settles(t, j, s, p, out) ==
  /\ t \in Op /\ job[t] = j
  /\ rec[target[t]].status = "claimed" /\ rec[target[t]].by = t
  /\ Becomes(t, s, p)
  /\ pc'[t] = "done"
  /\ displaced' = displaced /\ outcome' = [outcome EXCEPT ![t] = out]
Consuming(t) == Settles(t, "consume", "consumed", t, "consumed")
Releasing(t) == Settles(t, "release", "approved", None, "released")

LEMMA WriteCases ==
  ASSUME IInv, NEW t \in Thread, Write(t)
  PROVE  /\ target[t] \in Id
         /\ \A j \in Id \ {target[t]} : rec'[j] = rec[j]
         /\ guard' = [guard EXCEPT ![target[t]] = None]
         /\ \/ Deciding(t) \/ Renewing(t) \/ Recovering(t)
            \/ Claiming(t) \/ Consuming(t) \/ Releasing(t)
<1> USE ThreadFacts
<1>1. /\ pc[t] = "write" /\ target[t] \in Id /\ job[t] \in Job \ {"none"} /\ Fresh(t)
      /\ rec' = [rec EXCEPT ![target[t]] = Result(t)] /\ guard' = [guard EXCEPT ![target[t]] = None]
      /\ displaced' = (IF job[t] = "recover" THEN displaced \cup {rec[target[t]].by} ELSE displaced)
      /\ t \notin Op => outcome' = outcome
      /\ t \in Op => pc'[t] = AfterWrite(t) /\ outcome' = [outcome EXCEPT ![t] = OutcomeOf(t)]
  BY TargetFacts DEF Write, At, IInv, FreshInv, Updating
<1>2. rec'[target[t]] = Result(t) /\ \A j \in Id \ {target[t]} : rec'[j] = rec[j]
  BY <1>1 DEF IInv, TypeInv, TypeOK
<1>3. CASE t \in Human
  <2>1. job[t] \in {"approve", "reject"}
    BY <1>1, <1>3 DEF IInv, TypeInv, PointInv, HumanPoint, Updating
  <2>2. Deciding(t)
    BY <1>1, <1>2, <1>3, <2>1, WriteFacts, RecordFacts
       DEF Deciding, Becomes, Fresh, IInv, Updating, Status
  <2>3. QED
    BY <1>1, <1>2, <2>2
<1>4. CASE t \in Leases
  <2>1. PICK o \in Op : t = Lease(o)
    BY <1>4
  <2>2. job[t] = "renew" /\ pc[o] \in UnderClaim /\ ProcessOf(t) = o
    BY <1>1, <2>1 DEF IInv, TypeInv, PointInv, LeasePoint, Updating
  <2>3. Renewing(t)
    BY <1>1, <1>2, <1>4, <2>2, WriteFacts, RecordFacts DEF Renewing, Becomes, Fresh, IInv, Updating
  <2>4. QED
    BY <1>1, <1>2, <2>3
<1>5. CASE t \in Op
  <2>1. job[t] \in {"recover", "claim", "consume", "release"}
    BY <1>1, <1>5 DEF IInv, TypeInv, PointInv, OpPoint, Updating
  <2>2. CASE job[t] = "recover"
    <3>1. /\ rec[target[t]].status = "claimed" /\ rec[target[t]].by \in Op
      BY <1>1, <1>5, <2>2 DEF Fresh, IsStale, IInv, RecordInv
    <3>2. rec[target[t]].by # t
      BY <1>1, <1>5, <2>2 DEF IInv, BeforeInv, Unclaimed, Updating
    <3>3. Recovering(t)
      BY <1>1, <1>2, <1>5, <2>2, <3>1, <3>2, WriteFacts, RecordFacts
         DEF Recovering, Becomes, IInv, Updating, Status
    <3>4. QED
      BY <1>1, <1>2, <3>3
  <2>3. CASE job[t] = "claim"
    <3>1. Claiming(t)
      BY <1>1, <1>2, <1>5, <2>3, WriteFacts, RecordFacts DEF Claiming, Becomes, Fresh, IInv, Updating
    <3>2. QED
      BY <1>1, <1>2, <3>1
  <2>4. CASE job[t] = "consume"
    <3>1. Consuming(t)
      BY <1>1, <1>2, <1>5, <2>4, WriteFacts, RecordFacts
         DEF Consuming, Settles, Becomes, Fresh, IInv, Updating
    <3>2. QED
      BY <1>1, <1>2, <3>1
  <2>5. CASE job[t] = "release"
    <3>1. Releasing(t)
      BY <1>1, <1>2, <1>5, <2>5, WriteFacts, RecordFacts
         DEF Releasing, Settles, Becomes, Fresh, IInv, Updating, Status
    <3>2. QED
      BY <1>1, <1>2, <3>1
  <2>6. QED
    BY <2>1, <2>2, <2>3, <2>4, <2>5
<1>6. QED
  BY <1>3, <1>4, <1>5

\* Whoever else is in a guarded section is at another approval.
LEMMA WriteFrame ==
  ASSUME IInv, NEW t \in Thread, Write(t)
  PROVE  /\ \A u \in Thread \ {t} :
              /\ target'[u] = target[u] /\ job'[u] = job[u]
              /\ pc'[u] = (IF job[t] = "claim" /\ u = Lease(t) THEN "wait" ELSE pc[u])
              /\ ProcessOf(u) \in alive /\ pc[u] \in {"read", "write"} => target[u] # target[t]
         /\ \A o \in Op \ {t} : pc'[o] = pc[o]
         /\ t \in Op => target'[t] = target[t] /\ job'[t] = job[t]
         /\ pc'[t] \notin Updating
         /\ UNCHANGED <<expired, marked, alive, late>>
<1> USE ThreadFacts
<1>1. pc[t] = "write" /\ ProcessOf(t) \in alive /\ PutDown(t) /\ t \in Thread
  BY DEF Write, At
<1>2. ASSUME NEW u \in Thread \ {t} 
      PROVE  ProcessOf(u) \in alive /\ pc[u] \in {"read", "write"} => target[u] # target[t]
  BY <1>1, Exclusion DEF IInv
<1>3. pc'[t] \notin Updating
  <2>1. pc'[t] = AfterWrite(t)
    BY DEF Write
  <2>2. t \in Op => job[t] \in {"recover", "claim", "consume", "release"}
    BY <1>1 DEF IInv, TypeInv, PointInv, OpPoint, Updating
  <2>3. QED
    BY <1>1, <2>1, <2>2, WriteFacts DEF IInv, Updating
<1>4. ASSUME NEW o \in Op \ {t} PROVE pc'[o] = pc[o]
  <2>1. job[t] = "claim" => o # Lease(t)
    BY <1>1 DEF IInv, TypeInv, PointInv, HumanPoint, LeasePoint, Updating
  <2>2. QED
    BY <2>1 DEF Write
<1>5. QED
  BY <1>1, <1>2, <1>3, <1>4, PutDownType DEF Write, IInv

\* An update changes the one record whose guard it holds, which is as it found it.
LEMMA WriteKeeps == ASSUME IInv, NEW t \in Thread, Write(t) PROVE IInv'
<1> USE ThreadFacts DEF Updating
<1> DEFINE i == target[t]
<1>1. TypeInv'
  BY WriteType DEF IInv
<1>2. /\ i \in Id /\ \A j \in Id \ {i} : rec'[j] = rec[j]
      /\ guard \in [Id -> Process \cup {None, "wedged"}] /\ guard' = [guard EXCEPT ![i] = None]
      /\ outcome \in [Op -> Outcome]
  BY WriteCases DEF IInv, TypeInv, TypeOK
<1>3. \/ Deciding(t) \/ Renewing(t) \/ Recovering(t)
      \/ Claiming(t) \/ Consuming(t) \/ Releasing(t)
  BY WriteCases
<1>4. GuardHeld'
  <2> SUFFICES ASSUME NEW u \in Thread, ProcessOf(u) \in alive', pc'[u] \in {"read", "write"}
               PROVE  guard'[target'[u]] = ProcessOf(u)
    BY DEF GuardHeld
  <2>1. u # t /\ pc[u] \in {"read", "write"} /\ ProcessOf(u) \in alive
    BY WriteFrame
  <2>2. target'[u] = target[u] /\ target[u] # i /\ target[u] \in Id /\ guard[target[u]] = ProcessOf(u)
    BY <2>1, TargetFacts, WriteFrame DEF IInv, GuardHeld
  <2>3. QED
    BY <1>2, <2>2
<1>5. RecordInv'
  <2>1. IF rec'[i].status \in {"claimed", "consumed"} THEN rec'[i].by \in Op ELSE rec'[i].by = None
    BY <1>3 DEF Deciding, Renewing, Recovering, Claiming, Consuming, Releasing, Settles, Becomes
  <2>2. QED
    BY <1>2, <2>1 DEF RecordInv, IInv
<1>6. FreshInv'
  <2> SUFFICES ASSUME NEW u \in Thread, ProcessOf(u) \in alive', pc'[u] = "write" PROVE Fresh(u)'
    BY DEF FreshInv
  <2>1. u # t /\ pc[u] = "write" /\ ProcessOf(u) \in alive /\ alive' = alive
    BY WriteFrame
  <2>2. target'[u] = target[u] /\ job'[u] = job[u] /\ target[u] # i /\ target[u] \in Id /\ Fresh(u)
    BY <2>1, TargetFacts, WriteFrame DEF IInv, FreshInv
  <2>3. rec'[target[u]] = rec[target[u]]
    BY <1>2, <2>2
  <2>4. QED
    BY <2>1, <2>2, <2>3 DEF Fresh, IsStale
<1>7. BeforeInv'
  <2> SUFFICES ASSUME NEW o \in Op
               PROVE  /\ outcome'[o] \in {"consumed", "released"} => pc'[o] = "done"
                      /\ Unclaimed(o)' => o \notin displaced' /\ \A j \in Id : rec'[j].by # o
    BY DEF BeforeInv
  <2>1. outcome[o] \in {"consumed", "released"} => pc[o] = "done"
    BY DEF IInv, BeforeInv
  <2>2. CASE t = o
    <3>1. outcome'[o] \in {"consumed", "released"} => pc'[o] = "done"
      BY <1>2, <1>3, <2>2 DEF Deciding, Renewing, Recovering, Claiming, Consuming, Releasing, Settles, Becomes
    <3>2. ASSUME Unclaimed(o)'
          PROVE  o \notin displaced' /\ \A j \in Id : rec'[j].by # o
      <4>1. Recovering(o)
        BY <1>3, <2>2, <3>2
           DEF Unclaimed, UnderClaim, Searching, Deciding, Renewing, Claiming, Consuming, Releasing, Settles
      <4>2. Unclaimed(o)
        BY <2>2, <4>1 DEF Unclaimed, Recovering, Write, At
      <4>3. QED
        BY <1>2, <2>2, <4>1, <4>2, ProcessAssumption DEF Recovering, Becomes, IInv, BeforeInv
    <3>3. QED
      BY <3>1, <3>2
  <2>3. CASE t # o
    <3>1. /\ pc'[o] = pc[o] /\ job'[o] = job[o] /\ outcome'[o] = outcome[o]
      <4>1. pc'[o] = pc[o] /\ job'[o] = job[o]
        BY <2>3, WriteFrame
      <4>2. outcome'[o] = outcome[o]
        BY <1>2, <1>3, <2>3 DEF Deciding, Renewing, Recovering, Claiming, Consuming, Releasing, Settles
      <4>3. QED
        BY <4>1, <4>2
    <3>2. ASSUME Unclaimed(o) PROVE o \notin displaced' /\ \A j \in Id : rec'[j].by # o
      <4>1. o \notin displaced /\ \A j \in Id : rec[j].by # o
        BY <3>2 DEF IInv, BeforeInv
      <4>2. o \notin displaced' /\ rec'[i].by # o
        BY <1>2, <1>3, <2>3, <3>2, <4>1, ProcessAssumption
           DEF Deciding, Renewing, Recovering, Claiming, Consuming, Releasing, Settles, Becomes
      <4>3. QED
        BY <1>2, <4>1, <4>2
    <3>3. QED
      BY <2>1, <3>1, <3>2 DEF Unclaimed
  <2>4. QED
    BY <2>2, <2>3
<1>8. ClaimHeld'
  <2> SUFFICES ASSUME NEW o \in Op, o \in alive', Holding(o)', o \notin displaced'
               PROVE  rec'[target'[o]].status = "claimed" /\ rec'[target'[o]].by = o
    BY DEF ClaimHeld
  <2>0. o \in alive /\ o \notin displaced
    BY <1>3, WriteFrame DEF Deciding, Renewing, Recovering, Claiming, Consuming, Releasing, Settles
  <2>1. CASE t = o
    <3>1. Claiming(o)
      BY <1>3, <2>1, WriteFrame
         DEF Holding, Settling, Deciding, Renewing, Recovering, Consuming, Releasing, Settles
    <3>2. target'[o] = i
      BY <2>1, WriteFrame
    <3>3. QED
      BY <2>1, <3>1, <3>2 DEF Claiming, Becomes
  <2>2. CASE t # o
    <3>1. pc'[o] = pc[o] /\ job'[o] = job[o] /\ target'[o] = target[o]
      BY <2>2, WriteFrame
    <3>2. Holding(o) /\ target[o] \in Id
      BY <3>1 DEF Holding, Settling, IInv, TypeInv, PointInv, OpPoint, UnderClaim
    <3>3. rec[target[o]].status = "claimed" /\ rec[target[o]].by = o
      BY <2>0, <3>2 DEF IInv, ClaimHeld
    <3>4. CASE target[o] = i
      <4>1. Renewing(t)
        BY <1>3, <2>2, <3>3, <3>4 DEF Deciding, Recovering, Claiming, Consuming, Releasing, Settles
      <4>2. QED
        BY <3>1, <3>3, <3>4, <4>1 DEF Renewing, Becomes
    <3>5. CASE target[o] # i
      BY <1>2, <3>1, <3>2, <3>3, <3>5
    <3>6. QED
      BY <3>4, <3>5
  <2>3. QED
    BY <2>1, <2>2
<1>9. MarkInv'
  <2> SUFFICES ASSUME NEW o \in marked \ late, o \notin displaced' PROVE Accounted(o)'
    BY WriteFrame DEF MarkInv
  <2>0. o \in Op /\ o \notin displaced /\ Accounted(o)
    BY <1>3 DEF IInv, MarkInv, TypeInv, TypeOK,
      Deciding, Renewing, Recovering, Claiming, Consuming, Releasing, Settles
  <2>1. CASE t = o
    <3>1. job[o] = "consume"
      BY <2>0, <2>1 DEF Accounted, UnderClaim, Write, At
    <3>2. Consuming(o)
      BY <1>3, <2>0, <2>1, <3>1 DEF Deciding, Renewing, Recovering, Claiming, Releasing, Settles
    <3>3. target'[o] = i
      BY <2>0, <2>1, WriteFrame
    <3>4. QED
      BY <1>2, <2>1, <3>2, <3>3 DEF Consuming, Settles, Becomes, Accounted
  <2>2. CASE t # o
    <3>1. /\ pc'[o] = pc[o] /\ job'[o] = job[o] /\ target'[o] = target[o]
      BY <2>0, <2>2, WriteFrame
    <3>2. outcome'[o] = outcome[o]
      BY <1>2, <1>3, <2>0, <2>2 DEF Deciding, Renewing, Recovering, Claiming, Consuming, Releasing, Settles
    <3>3. target[o] \in Id /\ rec[target[o]].status = "consumed" => rec'[target[o]] = rec[target[o]]
      BY <1>2, <1>3 DEF Deciding, Renewing, Recovering, Claiming, Consuming, Releasing, Settles
    <3>4. QED
      BY <2>0, <3>1, <3>2, <3>3 DEF Accounted
  <2>3. QED
    BY <2>1, <2>2
<1>10. QED
  BY <1>1, <1>4, <1>5, <1>6, <1>7, <1>8, <1>9 DEF IInv

-----------------------------------------------------------------------------
(* The theorems                                                            *)

\* The invariant holds at first ...
LEMMA InvariantInit == Init => IInv
<1> SUFFICES ASSUME Init PROVE IInv
  OBVIOUS
<1> USE ThreadFacts
<1>1. TypeInv
  BY TypeInit
<1>2. \A i \in Id : rec[i].status \in {"absent", "pending", "approved"} /\ rec[i].by = None
  <2>1. PICK f \in Left : rec = [i \in Id |-> Plain(f[i])]
    BY DEF Init
  <2>2. \A i \in Id : f[i] \in {"absent", "pending", "approved"}
    BY LeftAssumption
  <2>3. QED
    BY <2>1, <2>2 DEF Plain
<1>3. /\ \A t \in Thread : pc[t] \in {"off", "idle"}
      /\ marked = {} /\ displaced = {} /\ \A o \in Op : outcome[o] = "none"
  BY DEF Init
<1>4. GuardHeld /\ FreshInv /\ MarkInv
  BY <1>3 DEF GuardHeld, FreshInv, MarkInv
<1>5. RecordInv /\ BeforeInv
  BY <1>2, <1>3, ProcessAssumption DEF RecordInv, BeforeInv
<1>6. ClaimHeld
  BY <1>3 DEF ClaimHeld, Holding
<1>7. QED
  BY <1>1, <1>4, <1>5, <1>6 DEF IInv

\* ... and every step keeps it.
LEMMA InvariantStep == IInv /\ [Next]_vars => IInv'
<1> SUFFICES ASSUME IInv, [Next]_vars PROVE IInv'
  OBVIOUS
<1>1. ASSUME Quiet, TypeInv', GuardHeld' PROVE IInv'
  BY <1>1, QuietKeeps DEF IInv
<1>2. CASE UNCHANGED vars
  BY <1>2 DEF vars, history, IInv, TypeInv, TypeOK, PointInv, OpPoint, LeasePoint, HumanPoint,
    GuardHeld, RecordInv, FreshInv, Fresh, IsStale, BeforeInv, Unclaimed, ClaimHeld, Holding,
    Settling, MarkInv, Accounted
<1>3. ASSUME NEW t \in Thread, Update(t) PROVE IInv'
  <2>1. CASE Enter(t)
    BY <1>1, <2>1, EnterQuiet, EnterType DEF IInv
  <2>2. CASE Busy(t)
    BY <1>1, <2>2, BusyQuiet, BusyType DEF IInv
  <2>3. CASE Read(t)
    BY <1>1, <2>3, ReadQuiet, ReadType DEF IInv
  <2>4. CASE Refuse(t)
    BY <1>1, <2>4, RefuseQuiet, RefuseType DEF IInv
  <2>5. CASE Write(t)
    BY <2>5, WriteKeeps
  <2>6. QED
    BY <1>3, <2>1, <2>2, <2>3, <2>4, <2>5 DEF Update
<1>4. CASE \E o \in Op : \/ Look(o) \/ RecoverList(o) \/ ClaimList(o) \/ Try(o) \/ Exhausted(o)
                        \/ PendingList(o)
  BY <1>1, <1>4, SearchQuiet, SearchType DEF IInv
<1>5. CASE \E o \in Op : Request(o)
  BY <1>5, RequestKeeps
<1>6. CASE \E o \in Op : Mark(o) \/ Finish(o) \/ StopLease(o) \/ LeaseWake(o)
  BY <1>1, <1>6, WorkQuiet, WorkType DEF IInv
<1>7. CASE \E h \in Human : Decide(h)
  BY <1>1, <1>7, DecideQuiet, DecideType DEF IInv
<1>8. CASE \/ \E p \in Process : Die(p)
           \/ \E o \in Op : Exit(o)
           \/ \E i \in Id : Expire(i) \/ Overdue(i)
  <2>1. CASE \E i \in Id : Overdue(i)
    BY <2>1, OverdueKeeps
  <2>2. CASE (\E p \in Process : Die(p)) \/ (\E o \in Op : Exit(o)) \/ (\E i \in Id : Expire(i))
    BY <1>1, <2>2, EnvironmentQuiet, EnvironmentType DEF IInv
  <2>3. QED
    BY <1>8, <2>1, <2>2
<1>9. QED
  BY <1>2, <1>3, <1>4, <1>5, <1>6, <1>7, <1>8, NextCases

\* The inductive invariant: guards keep their holders, and what an update found
\* under its guard is still there when it writes.
THEOREM ApprovalInvariant == Spec => []IInv
  BY InvariantInit, InvariantStep, PTL DEF Spec

\* The claim of a live operation that works or settles is on record, unless
\* another host recovered it as overdue.
THEOREM ClaimIsHeld == Spec => []ClaimHeld
<1>1. IInv => ClaimHeld
  BY DEF IInv
<1>2. QED
  BY ApprovalInvariant, <1>1, PTL

\* Two operations mark a dangerous effect under one approval only if one of them
\* died unsettled, lost its claim, could not settle it, or marked late.
THEOREM OneEffect == Spec => []OneEffectPerApproval
<1>1. IInv => OneEffectPerApproval
  <2> SUFFICES ASSUME IInv, NEW o \in marked, NEW p \in marked, target[o] = target[p],
                      ~Unsettled(o), ~Unsettled(p)
               PROVE  o = p
    BY DEF OneEffectPerApproval
  <2>1. ASSUME NEW q \in marked, ~Unsettled(q) PROVE rec[target[q]].by = q
    <3>1. q \in Op /\ q \notin displaced /\ Accounted(q)
      BY <2>1 DEF Unsettled, IInv, MarkInv, TypeInv, TypeOK
    <3>2. CASE pc[q] # "done"
      BY <2>1, <3>1, <3>2 DEF Unsettled, Accounted, UnderClaim, Updating, IInv, ClaimHeld, Holding, Settling
    <3>3. CASE pc[q] = "done"
      BY <2>1, <3>1, <3>3 DEF Unsettled, Accounted, UnderClaim, Updating
    <3>4. QED
      BY <3>2, <3>3
  <2>2. QED
    BY <2>1
<1>2. QED
  BY ApprovalInvariant, <1>1, PTL

-----------------------------------------------------------------------------
(* The life of an approval                                                 *)

Over == displaced \cup {o \in Op : outcome[o] \in {"consumed", "released"}}

\* What a step does to the life of the approvals, read off the records.
LEMMA LifeMap ==
  ASSUME TypeInv, TypeInv', NEW i \in Id, \A j \in Id \ {i} : rec'[j] = rec[j]
  PROVE  /\ [j \in Id |-> rec'[j].status]
              = [[j \in Id |-> rec[j].status] EXCEPT ![i] = rec'[i].status]
         /\ [j \in Id |-> rec'[j].by] = [[j \in Id |-> rec[j].by] EXCEPT ![i] = rec'[i].by]
  OBVIOUS

\* The steps of the abstract specification.
LEMMA LifeNext ==
  ASSUME NEW i \in Id,
         Life!Request(i) \/ Life!Decide(i) \/ Life!Consume(i) \/ Life!GiveBack(i)
           \/ \E o \in Op : Life!Claim(i, o)
  PROVE  Life!Next
  BY Zenon DEF Life!Next

\* Every step is a step of the abstract life of one approval, or a stutter.
LEMMA LifeStep == IInv /\ [Next]_vars => [Life!Next]_Life!life
<1> SUFFICES ASSUME IInv, [Next]_vars PROVE [Life!Next]_Life!life
  OBVIOUS
<1> USE ThreadFacts
<1>0. IInv' /\ TypeInv /\ TypeInv'
  BY InvariantStep DEF IInv
<1>1. ASSUME Over' = Over, \A i \in Id : rec'[i].status = rec[i].status /\ rec'[i].by = rec[i].by
      PROVE  UNCHANGED Life!life
  BY <1>1 DEF Life!life, Over
<1>2. ASSUME Quiet PROVE UNCHANGED Life!life
  <2>1. Over' = Over
    BY <1>2 DEF Quiet, Over, IInv, BeforeInv
  <2>2. QED
    BY <1>1, <1>2, <2>1 DEF Quiet
<1>3. ASSUME NEW t \in Thread, Write(t) PROVE [Life!Next]_Life!life
  <2>0. PICK i \in Id : i = target[t]
    BY <1>3, WriteCases
  <2>1. /\ outcome \in [Op -> Outcome]
        /\ \A j \in Id \ {i} : rec'[j] = rec[j]
        /\ [j \in Id |-> rec'[j].status]
              = [[j \in Id |-> rec[j].status] EXCEPT ![i] = rec'[i].status]
        /\ [j \in Id |-> rec'[j].by] = [[j \in Id |-> rec[j].by] EXCEPT ![i] = rec'[i].by]
    BY <1>0, <1>3, <2>0, WriteCases, LifeMap DEF TypeInv, TypeOK
  <2>2. t \in Op => outcome[t] \notin {"consumed", "released"} /\ t \notin Human /\ t \notin Leases
    BY <1>3 DEF IInv, BeforeInv, Write, At
  <2>3. CASE Deciding(t)
    <3>1. Over' = Over /\ rec'[i].by = rec[i].by
      BY <2>0, <2>1, <2>3 DEF Deciding, Becomes, Over, IInv, RecordInv
    <3>2. Life!Decide(i)
      BY <2>0, <2>1, <2>3, <3>1, ZenonT(40) DEF Life!Decide, Life!Move, Deciding, Becomes, Over
    <3>3. QED
      BY <3>2, LifeNext
  <2>4. CASE Renewing(t)
    BY <1>1, <2>0, <2>1, <2>4 DEF Renewing, Becomes, Over
  <2>5. CASE Recovering(t)
    <3>1. Over' = Over \cup {rec[i].by}
      BY <2>0, <2>1, <2>2, <2>5 DEF Recovering, Over
    <3>2. Life!GiveBack(i)
      BY <2>0, <2>1, <2>5, <3>1 DEF Life!GiveBack, Life!Move, Recovering, Becomes, Over
    <3>3. QED
      BY <3>2, LifeNext
  <2>6. CASE Claiming(t)
    <3>1. Over' = Over /\ t \in Op
      BY <2>0, <2>1, <2>2, <2>6 DEF Claiming, Over
    <3>2. t \notin Over /\ \A j \in Id : rec[j].by # t
      BY <1>3, <2>2, <2>6 DEF Claiming, Over, IInv, BeforeInv, Unclaimed, Updating, Write, At
    <3>3. Life!Claim(i, t)
      BY <2>0, <2>1, <2>6, <3>1, <3>2 DEF Life!Claim, Life!Move, Claiming, Becomes, Over
    <3>4. QED
      BY <3>1, <3>3, LifeNext
  <2>7. CASE Consuming(t)
    <3>1. Over' = Over \cup {rec[i].by} /\ rec'[i].by = rec[i].by
      BY <2>0, <2>1, <2>2, <2>7 DEF Consuming, Settles, Becomes, Over
    <3>2. Life!Consume(i)
      BY <2>0, <2>1, <2>7, <3>1 DEF Life!Consume, Life!Move, Consuming, Settles, Becomes, Over
    <3>3. QED
      BY <3>2, LifeNext
  <2>8. CASE Releasing(t)
    <3>1. Over' = Over \cup {rec[i].by}
      BY <2>0, <2>1, <2>2, <2>8 DEF Releasing, Settles, Over
    <3>2. Life!GiveBack(i)
      BY <2>0, <2>1, <2>8, <3>1 DEF Life!GiveBack, Life!Move, Releasing, Settles, Becomes, Over
    <3>3. QED
      BY <3>2, LifeNext
  <2>9. QED
    BY <1>3, WriteCases, <2>3, <2>4, <2>5, <2>6, <2>7, <2>8
<1>4. ASSUME NEW o \in Op, Request(o) PROVE Life!Next
  <2>1. PICK i \in Id : rec[i].status = "absent" /\ rec' = [rec EXCEPT ![i] = Plain("pending")]
    BY <1>4 DEF Request
  <2>2. /\ rec'[i].status = "pending" /\ rec'[i].by = rec[i].by
        /\ \A j \in Id \ {i} : rec'[j] = rec[j]
    BY <1>0, <2>1, RecordFacts DEF TypeInv, TypeOK, IInv, RecordInv, Status
  <2>3. Over' = Over
    BY <1>0, <1>4 DEF Request, At, End, Over, TypeInv, TypeOK, IInv, BeforeInv, history
  <2>4. Life!Request(i)
    <3>1. /\ [j \in Id |-> rec'[j].status]
               = [[j \in Id |-> rec[j].status] EXCEPT ![i] = rec'[i].status]
          /\ [j \in Id |-> rec'[j].by] = [j \in Id |-> rec[j].by]
      BY <1>0, <2>2, LifeMap
    <3>2. QED
      BY <2>1, <2>2, <2>3, <3>1 DEF Life!Request, Life!Move, Over
  <2>5. QED
    BY <2>4 DEF Life!Next
<1>5. ASSUME NEW i \in Id, Overdue(i) PROVE UNCHANGED Life!life
  <2>1. rec \in [Id -> Record] /\ rec' = [rec EXCEPT ![i] = [rec[i] EXCEPT !.overdue = TRUE]]
    BY <1>0, <1>5 DEF Overdue, TypeInv, TypeOK
  <2>2. \A j \in Id : rec'[j].status = rec[j].status /\ rec'[j].by = rec[j].by
    BY <2>1, OverdueFacts
  <2>3. Over' = Over
    BY <1>5 DEF Overdue, Over, history
  <2>4. QED
    BY <1>1, <2>2, <2>3
<1>6. CASE UNCHANGED vars
  BY <1>6 DEF vars, history, Life!life
<1>7. ASSUME NEW t \in Thread, Update(t) PROVE [Life!Next]_Life!life
  BY <1>2, <1>3, <1>7, EnterQuiet, BusyQuiet, ReadQuiet, RefuseQuiet DEF Update
<1>8. QED
  BY <1>2, <1>4, <1>5, <1>6, <1>7, NextCases, SearchQuiet, WorkQuiet, DecideQuiet, EnvironmentQuiet

\* The records implement the diagram of docs/safety.md: every step of every
\* thread is a step of the abstract life of the approvals, or changes none of it.
THEOREM Refinement == Spec => LifeSpec
<1>1. Init => Life!Init
  <2> SUFFICES ASSUME Init PROVE Life!Init
    OBVIOUS
  <2>1. PICK f \in Left : rec = [i \in Id |-> Plain(f[i])]
    BY DEF Init
  <2>2. \A i \in Id : f[i] \in {"absent", "pending", "approved"}
    BY LeftAssumption
  <2>3. QED
    BY <2>1, <2>2 DEF Init, Life!Init, Plain
<1>2. QED
  BY <1>1, ApprovalInvariant, LifeStep, PTL DEF Spec, LifeSpec, Life!Spec

-----------------------------------------------------------------------------
(* Reuse before request                                                    *)

\* While what an operation found when it began to look is still there, its search
\* has not passed it by.
Reuse(o) ==
  /\ pc[o] = "claimList" \/ job[o] \in {"claim", "consume", "release"} => phase[o] = "claim"
  /\ pc[o] \in {"pendingList", "request"} => phase[o] = "check"
  /\ \A f \in reusable[o] :
       /\ f[1] \in Id /\ rec[f[1]].status # "absent"
       /\ \/ f[2] \in Op \ alive /\ (Still(f) => IsStale(o, rec[f[1]]))
          \/ f[2] = None
       /\ Still(f) /\ (f[2] # None \/ o \in Preflight) => pc[o] # "request"
       /\ Still(f) /\ f[2] # None /\ phase[o] = "check" =>
            /\ pc[o] # "pendingList"
            /\ pc[o] = "scan" => f[1] \in todo[o]
            /\ pc[o] \in Updating => f[1] \in todo[o] \cup {target[o]}
ReuseInv == \A o \in Op : Reuse(o)

\* What is gone does not come back: nobody claims in the name of a process that
\* died, and a request that was decided is not pending again.
LEMMA StillFades ==
  ASSUME IInv, ReuseInv, [Next]_vars, NEW o \in Op, NEW f \in reusable[o]
  PROVE  /\ rec'[f[1]].status # "absent"
         /\ alive' \subseteq alive
         /\ Still(f)' => Still(f)
         /\ Still(f)' /\ IsStale(o, rec[f[1]]) => IsStale(o, rec[f[1]])'
<1> USE ThreadFacts
<1>1. /\ f[1] \in Id /\ rec[f[1]].status # "absent" /\ f[2] \in (Op \ alive) \cup {None}
  BY DEF ReuseInv, Reuse
<1>2. /\ alive' \subseteq alive /\ expired \subseteq expired'
  <2>1. CASE Quiet
    BY <2>1 DEF Quiet
  <2>2. ASSUME NEW t \in Thread, Write(t) PROVE UNCHANGED <<alive, expired>>
    BY <2>2 DEF Write
  <2>3. ASSUME NEW p \in Op, Request(p) PROVE UNCHANGED <<alive, expired>>
    BY <2>3 DEF Request
  <2>4. ASSUME NEW i \in Id, Overdue(i) PROVE UNCHANGED <<alive, expired>>
    BY <2>4 DEF Overdue
  <2>5. CASE UNCHANGED vars
    BY <2>5 DEF vars
  <2>6. QED
    BY <2>1, <2>2, <2>3, <2>4, <2>5, NextCases, EnterQuiet, BusyQuiet, ReadQuiet, RefuseQuiet,
       SearchQuiet, WorkQuiet, DecideQuiet, EnvironmentQuiet DEF Update
<1>3. ASSUME /\ rec'[f[1]].status = rec[f[1]].status /\ rec'[f[1]].by = rec[f[1]].by
             /\ rec[f[1]].overdue => rec'[f[1]].overdue
      PROVE  /\ rec'[f[1]].status # "absent" /\ (Still(f)' => Still(f))
             /\ Still(f)' /\ IsStale(o, rec[f[1]]) => IsStale(o, rec[f[1]])'
  BY <1>1, <1>2, <1>3 DEF Still, IsStale
<1>4. CASE Quiet \/ UNCHANGED vars
  BY <1>2, <1>3, <1>4 DEF Quiet, vars
<1>5. ASSUME NEW t \in Thread, Write(t)
      PROVE  rec'[f[1]] = rec[f[1]] \/ (rec'[f[1]].status # "absent" /\ ~Still(f)')
  <2>1. CASE target[t] = f[1]
    <3>1. ProcessOf(t) \in alive
      BY <1>5 DEF Write, At
    <3>2. rec'[f[1]].status # "absent" /\ ~Still(f)'
      BY <1>1, <1>5, <2>1, <3>1, WriteCases, ProcessAssumption
         DEF Deciding, Renewing, Recovering, Claiming, Consuming, Releasing, Settles, Becomes, Still
    <3>3. QED
      BY <3>2
  <2>2. CASE target[t] # f[1]
    <3>1. \A j \in Id \ {target[t]} : rec'[j] = rec[j]
      BY <1>5, WriteCases
    <3>2. QED
      BY <1>1, <2>2, <3>1
  <2>3. QED
    BY <2>1, <2>2
<1>6. ASSUME NEW p \in Op, Request(p) PROVE rec'[f[1]] = rec[f[1]]
  <2>1. PICK i \in Id : rec[i].status = "absent" /\ rec' = [rec EXCEPT ![i] = Plain("pending")]
    BY <1>6 DEF Request
  <2>2. QED
    BY <1>1, <2>1 DEF IInv, TypeInv, TypeOK
<1>7. ASSUME NEW i \in Id, Overdue(i)
      PROVE  /\ rec'[f[1]].status = rec[f[1]].status /\ rec'[f[1]].by = rec[f[1]].by
             /\ rec[f[1]].overdue => rec'[f[1]].overdue
  <2>1. rec \in [Id -> Record] /\ rec' = [rec EXCEPT ![i] = [rec[i] EXCEPT !.overdue = TRUE]]
    BY <1>7 DEF Overdue, IInv, TypeInv, TypeOK
  <2>2. QED
    BY <1>1, <2>1, OverdueFacts
<1>8. ASSUME NEW t \in Thread, Update(t) PROVE Quiet \/ Write(t)
  BY <1>8, EnterQuiet, BusyQuiet, ReadQuiet, RefuseQuiet DEF Update
<1>9. \/ Quiet \/ UNCHANGED vars
      \/ rec'[f[1]] = rec[f[1]]
      \/ rec'[f[1]].status # "absent" /\ ~Still(f)'
      \/ /\ rec'[f[1]].status = rec[f[1]].status /\ rec'[f[1]].by = rec[f[1]].by
         /\ rec[f[1]].overdue => rec'[f[1]].overdue
  BY <1>5, <1>6, <1>7, <1>8, NextCases, SearchQuiet, WorkQuiet, DecideQuiet, EnvironmentQuiet
<1>10. QED
  BY <1>2, <1>3, <1>4, <1>9

\* What an operation has in hand is changed by none but itself.
Apart(o) ==
  /\ pc'[o] = pc[o] /\ job'[o] = job[o] /\ target'[o] = target[o]
  /\ phase'[o] = phase[o] /\ todo'[o] = todo[o] /\ reusable'[o] = reusable[o]

LEMMA UpdateApart ==
  ASSUME IInv, NEW t \in Thread, Update(t), NEW o \in Op, t # o
  PROVE  Apart(o)
<1> USE ThreadFacts, PutDownType DEF IInv, TypeInv, TypeOK
<1>1. CASE Enter(t) \/ Read(t)
  BY <1>1 DEF Enter, Read, Goto, At, Apart, history
<1>2. CASE Busy(t) \/ Refuse(t)
  BY <1>2 DEF Busy, Refuse, Goto, At, End, Apart, history
<1>3. CASE Write(t)
  <2>1. pc'[o] = pc[o] /\ job'[o] = job[o] /\ target'[o] = target[o]
    BY <1>3, WriteFrame
  <2>2. phase'[o] = phase[o] /\ todo' = todo /\ reusable' = reusable
    BY <1>3 DEF Write
  <2>3. QED
    BY <2>1, <2>2 DEF Apart
<1>4. QED
  BY <1>1, <1>2, <1>3 DEF Update

LEMMA OthersApart ==
  ASSUME IInv, [Next]_vars, NEW o \in Op
  PROVE  \/ Apart(o) \/ Update(o) \/ Look(o) \/ RecoverList(o) \/ ClaimList(o) \/ Try(o)
         \/ Exhausted(o) \/ PendingList(o) \/ Request(o) \/ Finish(o) \/ StopLease(o)
<1> USE ThreadFacts
<1> USE DEF IInv, TypeInv, TypeOK, Apart, At, Goto, Begin, End, history
<1>1. CASE UNCHANGED vars
  BY <1>1 DEF vars
<1>2. CASE \E t \in Thread : Update(t)
  BY <1>2, UpdateApart
<1>3. ASSUME NEW p \in Op, p # o,
             Look(p) \/ RecoverList(p) \/ ClaimList(p) \/ Try(p) \/ Exhausted(p) \/ PendingList(p)
             \/ Request(p)
      PROVE  Apart(o)
  BY <1>3 DEF Look, RecoverList, ClaimList, ListFor, Try, Exhausted, PendingList, Request
<1>4. ASSUME NEW p \in Op, p # o, Finish(p) \/ StopLease(p) PROVE Apart(o)
  BY <1>4 DEF Finish, StopLease
<1>5. ASSUME NEW p \in Op, Mark(p) \/ LeaseWake(p) PROVE Apart(o)
  BY <1>5 DEF Mark, LeaseWake
<1>6. ASSUME NEW h \in Human, Decide(h) PROVE Apart(o)
  BY <1>6 DEF Decide
<1>7. CASE \/ \E p \in Process : Die(p)
           \/ \E p \in Op : Exit(p)
           \/ \E i \in Id : Expire(i) \/ Overdue(i)
  BY <1>7 DEF Die, Exit, Expire, Overdue
<1>8. QED
  BY <1>1, <1>2, <1>3, <1>4, <1>5, <1>6, <1>7, NextCases

\* A search passes by nothing that is still there: a stale claim it tries is
\* recovered, and ends the search, or is gone.
LEMMA ReuseStep == IInv /\ ReuseInv /\ [Next]_vars => ReuseInv'
<1> SUFFICES ASSUME IInv, ReuseInv, [Next]_vars, NEW o \in Op PROVE Reuse(o)'
  BY DEF ReuseInv
<1> USE ThreadFacts
<1>1. \A f \in reusable[o] :
        /\ f[1] \in Id /\ rec'[f[1]].status # "absent"
        /\ \/ f[2] \in Op \ alive' /\ (Still(f)' => IsStale(o, rec[f[1]])')
           \/ f[2] = None
        /\ Still(f)' => Still(f)
  BY StillFades DEF ReuseInv, Reuse
<1>2. Reuse(o)
  BY DEF ReuseInv
<1>3. CASE Apart(o)
  BY <1>1, <1>2, <1>3 DEF Apart, Reuse
<1>4. CASE Enter(o) \/ Read(o)
  BY <1>1, <1>2, <1>4 DEF Enter, Read, At, Goto, Reuse, Updating, IInv, TypeInv, TypeOK, history
<1>5. CASE Busy(o)
  BY <1>1, <1>2, <1>5, PutDownType
     DEF Busy, At, Goto, End, Reuse, Updating, IInv, TypeInv, TypeOK, history
<1>6. CASE Refuse(o)
  <2>1. ~Test(o, rec[target[o]], target[o]) /\ pc[o] = "read"
    BY <1>6 DEF Refuse, At
  <2>2. ASSUME NEW f \in reusable[o], Still(f), f[2] # None, phase[o] = "check"
        PROVE  f[1] \in todo[o]
    <3>1. job[o] = "recover"
      BY <1>2, <2>1, <2>2 DEF Reuse, IInv, TypeInv, PointInv, OpPoint, Updating
    <3>2. f[1] # target[o]
      BY <1>2, <2>1, <2>2, <3>1 DEF Reuse, Test, Still
    <3>3. QED
      BY <1>2, <2>1, <2>2, <3>2 DEF Reuse, Updating
  <2>3. /\ pc'[o] \in {"done", "scan"} /\ job'[o] = job[o] /\ phase' = phase /\ todo' = todo
        /\ reusable' = reusable
    BY <1>6, PutDownType DEF Refuse, At, Goto, End, IInv, TypeInv, TypeOK, history
  <2>4. QED
    BY <1>1, <1>2, <2>2, <2>3 DEF Reuse, Updating
<1>7. CASE Write(o)
  <2>1. pc'[o] \in {"claimList", "recoverList", "working", "done"}
    BY <1>7, WriteCases DEF Deciding, Renewing, Recovering, Claiming, Consuming, Releasing, Settles
  <2>2. phase'[o] = "claim" /\ reusable' = reusable
    BY <1>7 DEF Write, IInv, TypeInv, TypeOK
  <2>3. QED
    BY <1>1, <2>1, <2>2 DEF Reuse, Updating
<1>8. CASE Look(o)
  <2>1. /\ pc'[o] \in {"done", "recoverList"} /\ phase'[o] \in {phase[o], "claim"}
        /\ UNCHANGED <<rec, expired, alive, job>> /\ reusable'[o] = Reusable(o)
    BY <1>8 DEF Look, At, Goto, End, IInv, TypeInv, TypeOK
  <2>2. \A f \in Reusable(o) :
          /\ f[1] \in Id /\ rec[f[1]].status # "absent"
          /\ \/ f[2] \in Op \ alive /\ IsStale(o, rec[f[1]])
             \/ f[2] = None
    BY DEF Reusable, Usable, IInv, RecordInv
  <2>3. \A f \in Reusable(o) :
          /\ f[1] \in Id /\ rec'[f[1]].status # "absent"
          /\ \/ f[2] \in Op \ alive' /\ IsStale(o, rec[f[1]])'
             \/ f[2] = None
    BY <2>1, <2>2 DEF IsStale
  <2>4. QED
    BY <1>2, <2>1, <2>3 DEF Reuse, Updating
<1>9. CASE RecoverList(o)
  <2>1. /\ pc[o] = "recoverList" /\ pc'[o] = "scan" /\ job'[o] = "recover"
        /\ todo'[o] = {i \in Id : rec[i].status = "claimed"}
        /\ UNCHANGED <<rec, expired, alive, phase, reusable>>
    BY <1>9 DEF RecoverList, ListFor, At, Goto, IInv, TypeInv, TypeOK, history
  <2>2. \A f \in reusable[o] : Still(f) /\ f[2] # None => f[1] \in todo'[o]
    BY <1>2, <2>1 DEF Reuse, Still, IInv, RecordInv
  <2>3. QED
    BY <1>1, <1>2, <2>1, <2>2 DEF Reuse, Updating
<1>10. CASE ClaimList(o)
  <2>1. /\ pc[o] = "claimList" /\ pc'[o] = "scan" /\ UNCHANGED <<phase, reusable>>
    BY <1>10 DEF ClaimList, ListFor, At, Goto, IInv, TypeInv, TypeOK, history
  <2>2. QED
    BY <1>1, <1>2, <2>1 DEF Reuse, Updating
<1>11. CASE Try(o)
  <2>1. PICK i \in todo[o] :
          /\ pc[o] = "scan" /\ pc'[o] = "enter" /\ job'[o] = job[o] /\ target'[o] = i
          /\ todo'[o] = todo[o] \ {i} /\ UNCHANGED <<phase, reusable>>
    BY <1>11 DEF Try, Begin, At, Goto, IInv, TypeInv, TypeOK, history
  <2>2. QED
    BY <1>1, <1>2, <2>1 DEF Reuse, Updating
<1>12. CASE Exhausted(o)
  <2>1. /\ pc[o] = "scan" /\ todo[o] = {} /\ UNCHANGED <<job, phase, reusable>>
        /\ \/ pc'[o] = "done"
           \/ phase[o] = "claim" /\ pc'[o] = "claimList"
           \/ phase[o] = "check" /\ pc'[o] = (IF o \in Preflight THEN "pendingList" ELSE "request")
    BY <1>12 DEF Exhausted, At, Goto, End, IInv, TypeInv, TypeOK, history
  <2>2. phase[o] = "check" => \A f \in reusable[o] : ~(Still(f) /\ f[2] # None)
    BY <1>2, <2>1 DEF Reuse
  <2>3. QED
    BY <1>1, <1>2, <2>1, <2>2, ProcessAssumption DEF Reuse, Updating
<1>13. CASE PendingList(o)
  <2>1. /\ pc[o] = "pendingList" /\ UNCHANGED <<rec, expired, job, phase, reusable>>
        /\ pc'[o] = "done" \/ (pc'[o] = "request" /\ Usable("pending") = {})
    BY <1>13 DEF PendingList, At, Goto, End, IInv, TypeInv, TypeOK, history
  <2>2. pc'[o] = "request" => \A f \in reusable[o] : ~Still(f)
    BY <1>2, <2>1, ProcessAssumption DEF Reuse, Still, Usable, IInv, RecordInv
  <2>3. QED
    BY <1>1, <1>2, <2>1, <2>2 DEF Reuse, Updating
<1>14. CASE Request(o)
  BY <1>1, <1>2, <1>14 DEF Request, At, Goto, End, Reuse, Updating, IInv, TypeInv, TypeOK, history
<1>15. CASE Finish(o) \/ StopLease(o)
  <2>1. /\ pc[o] \in UnderClaim /\ pc'[o] \in {"succeeded", "failed", "enter"}
        /\ UNCHANGED <<phase, reusable>>
    BY <1>15 DEF Finish, StopLease, Begin, At, Goto, UnderClaim, IInv, TypeInv, TypeOK, history
  <2>2. phase[o] = "claim"
    BY <1>2, <2>1 DEF Reuse, IInv, TypeInv, PointInv, OpPoint
  <2>3. QED
    BY <1>1, <2>1, <2>2 DEF Reuse, Updating
<1>16. QED
  BY <1>3, <1>4, <1>5, <1>6, <1>7, <1>8, <1>9, <1>10, <1>11, <1>12, <1>13, <1>14, <1>15,
     OthersApart DEF Update

\* Nobody writes a request while a stale claim of a dead process that it found when
\* it began to look is still there, and no preflight while such a pending request is.
THEOREM ReusedFirst == Spec => ReusedNotRequested
<1>1. Init => ReuseInv
  BY ThreadFacts DEF Init, ReuseInv, Reuse
<1>2. ReuseInv =>
        \A o \in Op : Requests(o) =>
          \A found \in reusable[o] : found[2] # None \/ o \in Preflight => ~Still(found)
  BY DEF ReuseInv, Reuse, Requests
<1>3. QED
  BY <1>1, <1>2, ApprovalInvariant, ReuseStep, PTL DEF Spec, ReusedNotRequested
=============================================================================
