-------------------------- MODULE DeviceLockProofs --------------------------
(***************************************************************************)
(* Type correctness and safety of DeviceLock, and that it implements       *)
(* ExclusiveResource, for any owners, operators, hosts, confirmations and  *)
(* bounds.                                                                 *)
(***************************************************************************)
EXTENDS DeviceLock, TLAPS

Heartbeating(o) == lease[o] \in {"wait", "enter", "reread", "write"}

\* The points between taking the guard and letting it go.
InGuard(p) ==
  /\ p \in alive
  /\ \/ pc[p] \in {"relRename", "quarWrite", "markWrite", "clearRead", "clearRename"}
     \/ p \in Owner /\ lease[p] \in {"reread", "write"}

GuardHeld == \A p \in Process : InGuard(p) => guard = p

\* A heartbeat runs only while the operation does, or waits for it.
LeaseInv ==
  \A o \in Owner : Heartbeating(o) => pc[o] \in {"working", "stopLease"}

\* Owners and operators each have their own points, acquire is retried once,
\* and whoever is about to write a record has read one.
PointInv ==
  /\ \A o \in Owner :
       /\ pc[o] \in OwnerPoint
       /\ pc[o] = "emptyCheck" => attempt[o] = 0
       /\ pc[o] \in {"quarWrite", "markWrite"} => seen[o] # NoRecord
       /\ lease[o] = "write" => seen[o] # NoRecord
  /\ \A c \in Operator : pc[c] \in OperatorPoint

\* An owner that has not acquired yet has no record and was never ended.
Acquiring(o) == pc[o] \in {"idle", "staged", "holderRead", "emptyCheck"}
FreshInv ==
  \A o \in Owner :
    /\ Acquiring(o) => o \notin cleared /\ ~Mine(o)
    /\ pc[o] # "done" => outcome[o] = "none"

\* What an owner saw under the guard is still there when it writes or renames.
SeenInv ==
  \A o \in Owner \cap alive :
    /\ lease[o] = "write" => StillMine(o) /\ seen[o].owner = o /\ seen[o].state = "active"
    /\ pc[o] = "relRename" => StillMine(o)
    /\ pc[o] \in {"quarWrite", "markWrite"} => Mine(o) /\ seen[o].owner = o

\* So is what allowed an operator to clear.
ClearInv ==
  \A c \in Operator \cap alive :
    pc[c] = "clearRename" => Present /\ seen[c].owner = rec.owner /\ MayClear(c)

TypeInv == TypeOK /\ PointInv /\ LeaseInv

IInv ==
  /\ TypeInv
  /\ GuardHeld
  /\ FreshInv
  /\ SeenInv
  /\ ClearInv
  /\ HeldUnlessCleared

-----------------------------------------------------------------------------

\* What a lock record is.
LEMMA RecordFacts ==
  /\ NoRecord \in Record
  /\ \A o \in Owner, s \in State : RecordOf(o, s) \in Record \ {NoRecord}
  /\ \A o : \A s : RecordOf(o, s).owner = o /\ RecordOf(o, s).state = s
  /\ \A r \in Record \ {NoRecord} :
       /\ r.owner \in Owner /\ r.state \in State /\ r.expired \in BOOLEAN
       /\ \A s \in State, e \in BOOLEAN :
            /\ [r EXCEPT !.state = s] \in Record \ {NoRecord}
            /\ [r EXCEPT !.state = s].owner = r.owner
            /\ [r EXCEPT !.state = s].state = s
            /\ [r EXCEPT !.expired = e] \in Record \ {NoRecord}
            /\ [r EXCEPT !.expired = e].owner = r.owner
            /\ [r EXCEPT !.expired = e].state = r.state
            /\ [r EXCEPT !.expired = e].expired = e
  BY OwnerAssumption DEF NoRecord, RecordOf, Record, State

\* A record whose expiry moves stays the same owner's, in the same state.
LEMMA ExpiryFacts ==
  ASSUME NEW r \in Record \ {NoRecord}
  PROVE  /\ [r EXCEPT !.expired = FALSE].owner = r.owner
         /\ [r EXCEPT !.expired = TRUE].owner = r.owner
         /\ [r EXCEPT !.expired = TRUE].state = r.state
         /\ [r EXCEPT !.expired = TRUE].expired
         /\ r.owner \in Owner
  BY OwnerAssumption DEF NoRecord, RecordOf, Record, State

\* The initial state has its types.
LEMMA TypeInit == Init => TypeInv
<1> SUFFICES ASSUME Init PROVE TypeInv
  OBVIOUS
<1>1. TypeOK
  <2>1. /\ rec \in Record
        /\ seen \in [Process -> Record]
    BY RecordFacts DEF Init
  <2>2. pc \in [Process -> OwnerPoint \cup OperatorPoint]
    BY DEF Init, OwnerPoint, OperatorPoint
  <2>3. /\ attempt \in [Owner -> 0 .. 1]
        /\ lease \in [Owner -> LeasePoint]
        /\ outcome \in [Owner -> Outcome]
        /\ commands \in [Operator -> 0 .. MaxCommands]
    BY BoundAssumption DEF Init, LeasePoint, Outcome
  <2>4. QED
    BY <2>1, <2>2, <2>3 DEF Init, TypeOK
<1>2. PointInv /\ LeaseInv
  BY OwnerAssumption DEF Init, PointInv, LeaseInv, OwnerPoint, OperatorPoint,
    Process, Heartbeating
<1>3. QED
  BY <1>1, <1>2 DEF TypeInv

\* Every variable keeps its type.
THEOREM TypeInvariant == Spec => []TypeInv
<1>1. Init => TypeInv
  BY TypeInit
<1>2. TypeInv /\ [Next]_vars => TypeInv'
  <2> SUFFICES ASSUME TypeOK, PointInv, LeaseInv, [Next]_vars
               PROVE  TypeOK' /\ PointInv' /\ LeaseInv'
    BY DEF TypeInv
  <2> USE RecordFacts, OwnerAssumption DEF Process
  <2>1. ASSUME NEW o \in Owner, Stage(o) PROVE TypeOK' /\ PointInv' /\ LeaseInv'
    <3>1. TypeOK'
      BY <2>1, ConfirmAssumption, BoundAssumption DEF Stage, At, Goto, End,
        TypeOK, PointInv, OwnerPoint, OperatorPoint, LeasePoint, Outcome,
        State
    <3>2. PointInv' /\ LeaseInv'
      BY <2>1, <3>1 DEF Stage, At, Goto, End, TypeOK, PointInv, LeaseInv,
        Heartbeating, OwnerPoint, OperatorPoint
    <3>3. QED
      BY <3>1, <3>2
  <2>2. ASSUME NEW o \in Owner, Publish(o) PROVE TypeOK' /\ PointInv' /\ LeaseInv'
    <3>1. TypeOK'
      <4>1. pc' \in [Process -> OwnerPoint \cup OperatorPoint]
        BY <2>2 DEF Publish, At, Goto, End, TypeOK, OwnerPoint, OperatorPoint
      <4>2. lease' \in [Owner -> LeasePoint] /\ attempt' \in [Owner -> 0 .. 1]
        BY <2>2 DEF Publish, At, TypeOK, PointInv, LeasePoint
      <4>3. outcome' \in [Owner -> Outcome]
        BY <2>2 DEF Publish, End, TypeOK, Outcome
      <4>4. rec' \in Record /\ seen' \in [Process -> Record]
        BY <2>2 DEF Publish, TypeOK, State
      <4>5. guard' \in Process \cup {None, "wedged"} /\ alive' \subseteq Process
        BY <2>2 DEF Publish, TypeOK
      <4>6. /\ flags' \in [Operator -> SUBSET {"active", "quarantined"}]
            /\ commands' \in [Operator -> 0 .. MaxCommands]
            /\ recovery' \in BOOLEAN
            /\ cleared' \subseteq Owner
        BY <2>2 DEF Publish, TypeOK, Present
      <4>7. QED
        BY <4>1, <4>2, <4>3, <4>4, <4>5, <4>6 DEF TypeOK
    <3>2. PointInv' /\ LeaseInv'
      BY <2>2, <3>1, SMTT(30) DEF Publish, At, Goto, End, TypeOK, PointInv, LeaseInv,
        Heartbeating, OwnerPoint, OperatorPoint, Present, Mine
    <3>3. QED
      BY <3>1, <3>2
  <2>3. ASSUME NEW o \in Owner, HolderRead(o) PROVE TypeOK' /\ PointInv' /\ LeaseInv'
    <3>1. TypeOK'
      <4>1. pc' \in [Process -> OwnerPoint \cup OperatorPoint]
        <5>1. \E l \in {"emptyCheck", "done"} : pc' = [pc EXCEPT ![o] = l]
          BY <2>3 DEF HolderRead, Goto, End
        <5>2. QED
          BY <5>1 DEF TypeOK, OwnerPoint, OperatorPoint
      <4>2. lease' \in [Owner -> LeasePoint] /\ attempt' \in [Owner -> 0 .. 1]
        BY <2>3 DEF HolderRead, At, TypeOK, PointInv, LeasePoint
      <4>3. outcome' \in [Owner -> Outcome]
        BY <2>3 DEF HolderRead, End, TypeOK, Outcome
      <4>4. rec' \in Record /\ seen' \in [Process -> Record]
        BY <2>3 DEF HolderRead, TypeOK, State
      <4>5. guard' \in Process \cup {None, "wedged"} /\ alive' \subseteq Process
        BY <2>3 DEF HolderRead, TypeOK
      <4>6. /\ flags' \in [Operator -> SUBSET {"active", "quarantined"}]
            /\ commands' \in [Operator -> 0 .. MaxCommands]
            /\ recovery' \in BOOLEAN
            /\ cleared' \subseteq Owner
        BY <2>3 DEF HolderRead, TypeOK, Present
      <4>7. QED
        BY <4>1, <4>2, <4>3, <4>4, <4>5, <4>6 DEF TypeOK
    <3>2. PointInv' /\ LeaseInv'
      BY <2>3, <3>1 DEF HolderRead, At, Goto, End, TypeOK, PointInv, LeaseInv,
        Heartbeating, OwnerPoint, OperatorPoint, Present, Mine
    <3>3. QED
      BY <3>1, <3>2
  <2>4. ASSUME NEW o \in Owner, EmptyCheck(o) PROVE TypeOK' /\ PointInv' /\ LeaseInv'
    <3>1. TypeOK'
      <4>1. pc' \in [Process -> OwnerPoint \cup OperatorPoint]
        <5>1. \E l \in {"idle", "done"} : pc' = [pc EXCEPT ![o] = l]
          BY <2>4 DEF EmptyCheck, Goto, End
        <5>2. QED
          BY <5>1 DEF TypeOK, OwnerPoint, OperatorPoint
      <4>2. lease' \in [Owner -> LeasePoint] /\ attempt' \in [Owner -> 0 .. 1]
        BY <2>4 DEF EmptyCheck, At, TypeOK, PointInv, LeasePoint
      <4>3. outcome' \in [Owner -> Outcome]
        BY <2>4 DEF EmptyCheck, End, TypeOK, Outcome
      <4>4. rec' \in Record /\ seen' \in [Process -> Record]
        BY <2>4 DEF EmptyCheck, TypeOK, State
      <4>5. guard' \in Process \cup {None, "wedged"} /\ alive' \subseteq Process
        BY <2>4 DEF EmptyCheck, TypeOK
      <4>6. /\ flags' \in [Operator -> SUBSET {"active", "quarantined"}]
            /\ commands' \in [Operator -> 0 .. MaxCommands]
            /\ recovery' \in BOOLEAN
            /\ cleared' \subseteq Owner
        BY <2>4 DEF EmptyCheck, TypeOK, Present
      <4>7. QED
        BY <4>1, <4>2, <4>3, <4>4, <4>5, <4>6 DEF TypeOK
    <3>2. PointInv' /\ LeaseInv'
      BY <2>4, <3>1, SMTT(30) DEF EmptyCheck, At, Goto, End, TypeOK, PointInv, LeaseInv,
        Heartbeating, OwnerPoint, OperatorPoint, Present, Mine
    <3>3. QED
      BY <3>1, <3>2
  <2>5. ASSUME NEW o \in Owner, LeaseWake(o) PROVE TypeOK' /\ PointInv' /\ LeaseInv'
    <3>1. TypeOK'
      BY <2>5, ConfirmAssumption, BoundAssumption DEF LeaseWake, TypeOK,
        PointInv, OwnerPoint, OperatorPoint, LeasePoint, Outcome, State
    <3>2. PointInv' /\ LeaseInv'
      BY <2>5, <3>1 DEF LeaseWake, TypeOK, PointInv, LeaseInv, Heartbeating,
        OwnerPoint, OperatorPoint
    <3>3. QED
      BY <3>1, <3>2
  <2>6. ASSUME NEW o \in Owner, LeaseEnter(o) PROVE TypeOK' /\ PointInv' /\ LeaseInv'
    <3>1. TypeOK'
      <4>1. pc' \in [Process -> OwnerPoint \cup OperatorPoint]
        BY <2>6 DEF LeaseEnter, TypeOK, OwnerPoint, OperatorPoint
      <4>2. lease' \in [Owner -> LeasePoint] /\ attempt' \in [Owner -> 0 .. 1]
        BY <2>6 DEF LeaseEnter, TypeOK, PointInv, LeasePoint
      <4>3. outcome' \in [Owner -> Outcome]
        BY <2>6 DEF LeaseEnter, TypeOK, Outcome
      <4>4. rec' \in Record /\ seen' \in [Process -> Record]
        BY <2>6 DEF LeaseEnter, TypeOK, State
      <4>5. guard' \in Process \cup {None, "wedged"} /\ alive' \subseteq Process
        BY <2>6 DEF LeaseEnter, Enter, GuardBusy, TypeOK
      <4>6. /\ flags' \in [Operator -> SUBSET {"active", "quarantined"}]
            /\ commands' \in [Operator -> 0 .. MaxCommands]
            /\ recovery' \in BOOLEAN
            /\ cleared' \subseteq Owner
        BY <2>6 DEF LeaseEnter, TypeOK, Present
      <4>7. QED
        BY <4>1, <4>2, <4>3, <4>4, <4>5, <4>6 DEF TypeOK
    <3>2. PointInv' /\ LeaseInv'
      BY <2>6, <3>1 DEF LeaseEnter, Enter, GuardBusy, TypeOK, PointInv,
        LeaseInv, Heartbeating, OwnerPoint, OperatorPoint, Present, Mine,
        StillMine
    <3>3. QED
      BY <3>1, <3>2
  <2>7. ASSUME NEW o \in Owner, LeaseReread(o) PROVE TypeOK' /\ PointInv' /\ LeaseInv'
    <3>1. TypeOK'
      <4>1. pc' \in [Process -> OwnerPoint \cup OperatorPoint]
        BY <2>7 DEF LeaseReread, TypeOK, OwnerPoint, OperatorPoint
      <4>2. lease' \in [Owner -> LeasePoint] /\ attempt' \in [Owner -> 0 .. 1]
        BY <2>7 DEF LeaseReread, TypeOK, PointInv, LeasePoint
      <4>3. outcome' \in [Owner -> Outcome]
        BY <2>7 DEF LeaseReread, TypeOK, Outcome
      <4>4. rec' \in Record /\ seen' \in [Process -> Record]
        BY <2>7, SMTT(30) DEF LeaseReread, TypeOK, State
      <4>5. guard' \in Process \cup {None, "wedged"} /\ alive' \subseteq Process
        BY <2>7 DEF LeaseReread, TypeOK
      <4>6. /\ flags' \in [Operator -> SUBSET {"active", "quarantined"}]
            /\ commands' \in [Operator -> 0 .. MaxCommands]
            /\ recovery' \in BOOLEAN
            /\ cleared' \subseteq Owner
        BY <2>7 DEF LeaseReread, TypeOK, Present
      <4>7. QED
        BY <4>1, <4>2, <4>3, <4>4, <4>5, <4>6 DEF TypeOK
    <3>2. PointInv' /\ LeaseInv'
      BY <2>7, <3>1 DEF LeaseReread, TypeOK, PointInv, LeaseInv, Heartbeating,
        OwnerPoint, OperatorPoint, Present, Mine, StillMine
    <3>3. QED
      BY <3>1, <3>2
  <2>8. ASSUME NEW o \in Owner, LeaseWrite(o) PROVE TypeOK' /\ PointInv' /\ LeaseInv'
    <3>1. TypeOK'
      BY <2>8, ConfirmAssumption, BoundAssumption DEF LeaseWrite, Forget,
        TypeOK, PointInv, OwnerPoint, OperatorPoint, LeasePoint, Outcome,
        State
    <3>2. PointInv' /\ LeaseInv'
      BY <2>8, <3>1 DEF LeaseWrite, Forget, TypeOK, PointInv, LeaseInv,
        Heartbeating, OwnerPoint, OperatorPoint
    <3>3. QED
      BY <3>1, <3>2
  <2>9. ASSUME NEW o \in Owner, Finish(o) PROVE TypeOK' /\ PointInv' /\ LeaseInv'
    <3>1. TypeOK'
      BY <2>9, ConfirmAssumption, BoundAssumption DEF Finish, At, Goto, End,
        TypeOK, PointInv, OwnerPoint, OperatorPoint, LeasePoint, Outcome,
        State
    <3>2. PointInv' /\ LeaseInv'
      BY <2>9, <3>1 DEF Finish, At, Goto, End, TypeOK, PointInv, LeaseInv,
        Heartbeating, OwnerPoint, OperatorPoint
    <3>3. QED
      BY <3>1, <3>2
  <2>10. ASSUME NEW o \in Owner, StopLease(o) PROVE TypeOK' /\ PointInv' /\ LeaseInv'
    <3>1. TypeOK'
      BY <2>10, ConfirmAssumption, BoundAssumption DEF StopLease, At, Goto,
        End, TypeOK, PointInv, OwnerPoint, OperatorPoint, LeasePoint, Outcome,
        State
    <3>2. PointInv' /\ LeaseInv'
      BY <2>10, <3>1 DEF StopLease, At, Goto, End, TypeOK, PointInv, LeaseInv,
        Heartbeating, OwnerPoint, OperatorPoint
    <3>3. QED
      BY <3>1, <3>2
  <2>11. ASSUME NEW o \in Owner, ReleaseEnter(o) PROVE TypeOK' /\ PointInv' /\ LeaseInv'
    <3>1. TypeOK'
      <4>1. pc' \in [Process -> OwnerPoint \cup OperatorPoint]
        <5>1. \E l \in {"relRename", "done"} : pc' = [pc EXCEPT ![o] = l]
          BY <2>11 DEF ReleaseEnter, Goto, End
        <5>2. QED
          BY <5>1 DEF TypeOK, OwnerPoint, OperatorPoint
      <4>2. lease' \in [Owner -> LeasePoint] /\ attempt' \in [Owner -> 0 .. 1]
        BY <2>11 DEF ReleaseEnter, At, TypeOK, PointInv, LeasePoint
      <4>3. outcome' \in [Owner -> Outcome]
        BY <2>11 DEF ReleaseEnter, End, TypeOK, Outcome
      <4>4. rec' \in Record /\ seen' \in [Process -> Record]
        BY <2>11 DEF ReleaseEnter, TypeOK, State
      <4>5. guard' \in Process \cup {None, "wedged"} /\ alive' \subseteq Process
        BY <2>11 DEF ReleaseEnter, Enter, GuardBusy, TypeOK
      <4>6. /\ flags' \in [Operator -> SUBSET {"active", "quarantined"}]
            /\ commands' \in [Operator -> 0 .. MaxCommands]
            /\ recovery' \in BOOLEAN
            /\ cleared' \subseteq Owner
        BY <2>11 DEF ReleaseEnter, TypeOK, Present
      <4>7. QED
        BY <4>1, <4>2, <4>3, <4>4, <4>5, <4>6 DEF TypeOK
    <3>2. PointInv' /\ LeaseInv'
      BY <2>11, <3>1, SMTT(30) DEF ReleaseEnter, At, Goto, End, Enter, GuardBusy,
        TypeOK, PointInv, LeaseInv, Heartbeating, OwnerPoint, OperatorPoint,
        Present, Mine
    <3>3. QED
      BY <3>1, <3>2
  <2>12. ASSUME NEW o \in Owner, ReleaseRename(o) PROVE TypeOK' /\ PointInv' /\ LeaseInv'
    <3>1. TypeOK'
      <4>1. pc' \in [Process -> OwnerPoint \cup OperatorPoint]
        BY <2>12 DEF ReleaseRename, At, Goto, End, TypeOK, OwnerPoint,
          OperatorPoint
      <4>2. lease' \in [Owner -> LeasePoint] /\ attempt' \in [Owner -> 0 .. 1]
        BY <2>12 DEF ReleaseRename, At, TypeOK, PointInv, LeasePoint
      <4>3. outcome' \in [Owner -> Outcome]
        BY <2>12 DEF ReleaseRename, End, TypeOK, Outcome
      <4>4. rec' \in Record /\ seen' \in [Process -> Record]
        BY <2>12 DEF ReleaseRename, TypeOK, State
      <4>5. guard' \in Process \cup {None, "wedged"} /\ alive' \subseteq Process
        BY <2>12 DEF ReleaseRename, TypeOK
      <4>6. /\ flags' \in [Operator -> SUBSET {"active", "quarantined"}]
            /\ commands' \in [Operator -> 0 .. MaxCommands]
            /\ recovery' \in BOOLEAN
            /\ cleared' \subseteq Owner
        BY <2>12 DEF ReleaseRename, TypeOK, Present
      <4>7. QED
        BY <4>1, <4>2, <4>3, <4>4, <4>5, <4>6 DEF TypeOK
    <3>2. PointInv' /\ LeaseInv'
      <4>1. /\ pc[o] = "relRename"
            /\ pc'[o] = "done"
            /\ \A q \in Process \ {o} : pc'[q] = pc[q]
        BY <2>12 DEF ReleaseRename, At, Goto, End, TypeOK
      <4>2. /\ UNCHANGED seen
            /\ \A q \in Process \ {o} : seen'[q] = seen[q]
            /\ UNCHANGED <<lease, attempt>>
        BY <2>12 DEF ReleaseRename, Goto, End, TypeOK, Mine, Present
      <4>3. QED
        BY <4>1, <4>2 DEF PointInv, LeaseInv, Heartbeating, OwnerPoint
    <3>3. QED
      BY <3>1, <3>2
  <2>13. ASSUME NEW o \in Owner, QuarantineEnter(o) PROVE TypeOK' /\ PointInv' /\ LeaseInv'
    <3>1. TypeOK'
      <4>1. pc' \in [Process -> OwnerPoint \cup OperatorPoint]
        <5>1. \E l \in {"quarWrite", "recordFailure", "done"} : pc' = [pc EXCEPT ![o] = l]
          BY <2>13 DEF QuarantineEnter, Goto, End
        <5>2. QED
          BY <5>1 DEF TypeOK, OwnerPoint, OperatorPoint
      <4>2. lease' \in [Owner -> LeasePoint] /\ attempt' \in [Owner -> 0 .. 1]
        BY <2>13 DEF QuarantineEnter, At, TypeOK, PointInv, LeasePoint
      <4>3. outcome' \in [Owner -> Outcome]
        BY <2>13 DEF QuarantineEnter, End, TypeOK, Outcome
      <4>4. rec' \in Record /\ seen' \in [Process -> Record]
        <5>1. seen' = [seen EXCEPT ![o] = rec] \/ seen' = seen
          BY <2>13 DEF QuarantineEnter
        <5>2. rec' = rec
          BY <2>13 DEF QuarantineEnter
        <5>3. QED
          BY <5>1, <5>2 DEF TypeOK
      <4>5. guard' \in Process \cup {None, "wedged"} /\ alive' \subseteq Process
        BY <2>13 DEF QuarantineEnter, Enter, GuardBusy, TypeOK
      <4>6. /\ flags' \in [Operator -> SUBSET {"active", "quarantined"}]
            /\ commands' \in [Operator -> 0 .. MaxCommands]
            /\ recovery' \in BOOLEAN
            /\ cleared' \subseteq Owner
        BY <2>13 DEF QuarantineEnter, TypeOK, Present
      <4>7. QED
        BY <4>1, <4>2, <4>3, <4>4, <4>5, <4>6 DEF TypeOK
    <3>2. PointInv' /\ LeaseInv'
      BY <2>13, <3>1, SMTT(30) DEF QuarantineEnter, At, Goto, End, Enter, GuardBusy,
        TypeOK, PointInv, LeaseInv, Heartbeating, OwnerPoint, OperatorPoint,
        Present, Mine
    <3>3. QED
      BY <3>1, <3>2
  <2>14. ASSUME NEW o \in Owner, QuarantineWrite(o) PROVE TypeOK' /\ PointInv' /\ LeaseInv'
    <3>1. TypeOK'
      BY <2>14, ConfirmAssumption, BoundAssumption DEF QuarantineWrite, At,
        Goto, End, Forget, TypeOK, PointInv, OwnerPoint, OperatorPoint,
        LeasePoint, Outcome, State
    <3>2. PointInv' /\ LeaseInv'
      BY <2>14, <3>1 DEF QuarantineWrite, At, Goto, End, Forget, TypeOK,
        PointInv, LeaseInv, Heartbeating, OwnerPoint, OperatorPoint
    <3>3. QED
      BY <3>1, <3>2
  <2>15. ASSUME NEW o \in Owner, RecordFailure(o) PROVE TypeOK' /\ PointInv' /\ LeaseInv'
    <3>1. TypeOK'
      BY <2>15, ConfirmAssumption, BoundAssumption DEF RecordFailure, At,
        Goto, End, TypeOK, PointInv, OwnerPoint, OperatorPoint, LeasePoint,
        Outcome, State
    <3>2. PointInv' /\ LeaseInv'
      BY <2>15, <3>1 DEF RecordFailure, At, Goto, End, TypeOK, PointInv,
        LeaseInv, Heartbeating, OwnerPoint, OperatorPoint
    <3>3. QED
      BY <3>1, <3>2
  <2>16. ASSUME NEW o \in Owner, MarkEnter(o) PROVE TypeOK' /\ PointInv' /\ LeaseInv'
    <3>1. TypeOK'
      <4>1. pc' \in [Process -> OwnerPoint \cup OperatorPoint]
        <5>1. \E l \in {"markWrite", "done"} : pc' = [pc EXCEPT ![o] = l]
          BY <2>16 DEF MarkEnter, Goto, End
        <5>2. QED
          BY <5>1 DEF TypeOK, OwnerPoint, OperatorPoint
      <4>2. lease' \in [Owner -> LeasePoint] /\ attempt' \in [Owner -> 0 .. 1]
        BY <2>16 DEF MarkEnter, At, TypeOK, PointInv, LeasePoint
      <4>3. outcome' \in [Owner -> Outcome]
        BY <2>16 DEF MarkEnter, End, TypeOK, Outcome
      <4>4. rec' \in Record /\ seen' \in [Process -> Record]
        <5>1. seen' = [seen EXCEPT ![o] = rec] \/ seen' = seen
          BY <2>16 DEF MarkEnter
        <5>2. rec' = rec
          BY <2>16 DEF MarkEnter
        <5>3. QED
          BY <5>1, <5>2 DEF TypeOK
      <4>5. guard' \in Process \cup {None, "wedged"} /\ alive' \subseteq Process
        BY <2>16 DEF MarkEnter, Enter, GuardBusy, TypeOK
      <4>6. /\ flags' \in [Operator -> SUBSET {"active", "quarantined"}]
            /\ commands' \in [Operator -> 0 .. MaxCommands]
            /\ recovery' \in BOOLEAN
            /\ cleared' \subseteq Owner
        BY <2>16 DEF MarkEnter, TypeOK, Present
      <4>7. QED
        BY <4>1, <4>2, <4>3, <4>4, <4>5, <4>6 DEF TypeOK
    <3>2. PointInv' /\ LeaseInv'
      <4>1. /\ pc[o] = "markEnter"
            /\ pc'[o] \in {"markWrite", "done"}
            /\ \A q \in Process \ {o} : pc'[q] = pc[q]
        BY <2>16 DEF MarkEnter, At, Goto, End, TypeOK
      <4>2. /\ pc'[o] = "markWrite" => seen'[o] # NoRecord
            /\ \A q \in Process \ {o} : seen'[q] = seen[q]
            /\ UNCHANGED <<lease, attempt>>
        BY <2>16 DEF MarkEnter, Goto, End, TypeOK, Mine, Present
      <4>3. QED
        BY <4>1, <4>2 DEF PointInv, LeaseInv, Heartbeating, OwnerPoint
    <3>3. QED
      BY <3>1, <3>2
  <2>17. ASSUME NEW o \in Owner, MarkWrite(o) PROVE TypeOK' /\ PointInv' /\ LeaseInv'
    <3>1. TypeOK'
      BY <2>17, ConfirmAssumption, BoundAssumption DEF MarkWrite, At, Goto,
        End, Forget, TypeOK, PointInv, OwnerPoint, OperatorPoint, LeasePoint,
        Outcome, State
    <3>2. PointInv' /\ LeaseInv'
      BY <2>17, <3>1 DEF MarkWrite, At, Goto, End, Forget, TypeOK, PointInv,
        LeaseInv, Heartbeating, OwnerPoint, OperatorPoint
    <3>3. QED
      BY <3>1, <3>2
  <2>18. ASSUME NEW o \in Owner, Exit(o) PROVE TypeOK' /\ PointInv' /\ LeaseInv'
    <3>1. TypeOK'
      BY <2>18, ConfirmAssumption, BoundAssumption DEF Exit, At, Goto, End,
        TypeOK, PointInv, OwnerPoint, OperatorPoint, LeasePoint, Outcome,
        State
    <3>2. PointInv' /\ LeaseInv'
      BY <2>18, <3>1 DEF Exit, At, Goto, End, TypeOK, PointInv, LeaseInv,
        Heartbeating, OwnerPoint, OperatorPoint
    <3>3. QED
      BY <3>1, <3>2
  <2>19. ASSUME NEW c \in Operator, StartClear(c) PROVE TypeOK' /\ PointInv' /\ LeaseInv'
    <3>1. TypeOK'
      BY <2>19, ConfirmAssumption, BoundAssumption DEF StartClear, At, Goto,
        End, TypeOK, PointInv, OwnerPoint, OperatorPoint, LeasePoint, Outcome,
        State
    <3>2. PointInv' /\ LeaseInv'
      BY <2>19, <3>1 DEF StartClear, At, Goto, End, TypeOK, PointInv,
        LeaseInv, Heartbeating, OwnerPoint, OperatorPoint
    <3>3. QED
      BY <3>1, <3>2
  <2>20. ASSUME NEW c \in Operator, StartClearStale(c) PROVE TypeOK' /\ PointInv' /\ LeaseInv'
    <3>1. TypeOK'
      BY <2>20, ConfirmAssumption, BoundAssumption DEF StartClearStale, At,
        Goto, End, TypeOK, PointInv, OwnerPoint, OperatorPoint, LeasePoint,
        Outcome, State, Present, Mine
    <3>2. PointInv' /\ LeaseInv'
      BY <2>20, <3>1 DEF StartClearStale, At, Goto, End, TypeOK, PointInv,
        LeaseInv, Heartbeating, OwnerPoint, OperatorPoint, Present, Mine
    <3>3. QED
      BY <3>1, <3>2
  <2>21. ASSUME NEW c \in Operator, ClearEnter(c) PROVE TypeOK' /\ PointInv' /\ LeaseInv'
    <3>1. TypeOK'
      <4>1. pc' \in [Process -> OwnerPoint \cup OperatorPoint]
        <5>1. \E l \in {"clearRead", "ready"} : pc' = [pc EXCEPT ![c] = l]
          BY <2>21 DEF ClearEnter, Goto, End, Dismiss
        <5>2. QED
          BY <5>1 DEF TypeOK, OwnerPoint, OperatorPoint
      <4>2. lease' \in [Owner -> LeasePoint] /\ attempt' \in [Owner -> 0 .. 1]
        BY <2>21 DEF ClearEnter, At, TypeOK, PointInv, LeasePoint
      <4>3. outcome' \in [Owner -> Outcome]
        BY <2>21 DEF ClearEnter, End, TypeOK, Outcome
      <4>4. rec' \in Record /\ seen' \in [Process -> Record]
        BY <2>21 DEF ClearEnter, TypeOK, State
      <4>5. guard' \in Process \cup {None, "wedged"} /\ alive' \subseteq Process
        BY <2>21 DEF ClearEnter, Enter, GuardBusy, TypeOK
      <4>6. /\ flags' \in [Operator -> SUBSET {"active", "quarantined"}]
            /\ commands' \in [Operator -> 0 .. MaxCommands]
            /\ recovery' \in BOOLEAN
            /\ cleared' \subseteq Owner
        BY <2>21 DEF ClearEnter, Dismiss, TypeOK
      <4>7. QED
        BY <4>1, <4>2, <4>3, <4>4, <4>5, <4>6 DEF TypeOK
    <3>2. PointInv' /\ LeaseInv'
      BY <2>21, <3>1 DEF ClearEnter, At, Goto, End, Enter, GuardBusy, Dismiss,
        TypeOK, PointInv, LeaseInv, Heartbeating, OwnerPoint, OperatorPoint
    <3>3. QED
      BY <3>1, <3>2
  <2>22. ASSUME NEW c \in Operator, ClearRead(c) PROVE TypeOK' /\ PointInv' /\ LeaseInv'
    <3>1. TypeOK'
      <4>1. pc' \in [Process -> OwnerPoint \cup OperatorPoint]
        <5>1. \E l \in {"clearRename", "ready"} : pc' = [pc EXCEPT ![c] = l]
          BY <2>22 DEF ClearRead, Goto, End, Dismiss
        <5>2. QED
          BY <5>1 DEF TypeOK, OwnerPoint, OperatorPoint
      <4>2. lease' \in [Owner -> LeasePoint] /\ attempt' \in [Owner -> 0 .. 1]
        BY <2>22 DEF ClearRead, At, TypeOK, PointInv, LeasePoint
      <4>3. outcome' \in [Owner -> Outcome]
        BY <2>22 DEF ClearRead, End, TypeOK, Outcome
      <4>4. rec' \in Record /\ seen' \in [Process -> Record]
        <5>1. seen' = [seen EXCEPT ![c] = rec] \/ seen' = seen
          BY <2>22 DEF ClearRead
        <5>2. rec' = rec
          BY <2>22 DEF ClearRead
        <5>3. QED
          BY <5>1, <5>2 DEF TypeOK
      <4>5. guard' \in Process \cup {None, "wedged"} /\ alive' \subseteq Process
        BY <2>22 DEF ClearRead, TypeOK
      <4>6. /\ flags' \in [Operator -> SUBSET {"active", "quarantined"}]
            /\ commands' \in [Operator -> 0 .. MaxCommands]
            /\ recovery' \in BOOLEAN
            /\ cleared' \subseteq Owner
        BY <2>22 DEF ClearRead, Dismiss, TypeOK, Present
      <4>7. QED
        BY <4>1, <4>2, <4>3, <4>4, <4>5, <4>6 DEF TypeOK
    <3>2. PointInv' /\ LeaseInv'
      BY <2>22, <3>1, SMTT(30) DEF ClearRead, At, Goto, End, Dismiss, TypeOK, PointInv,
        LeaseInv, Heartbeating, OwnerPoint, OperatorPoint, Present, Mine
    <3>3. QED
      BY <3>1, <3>2
  <2>23. ASSUME NEW c \in Operator, ClearRename(c) PROVE TypeOK' /\ PointInv' /\ LeaseInv'
    <3>1. TypeOK'
      <4>1. pc' \in [Process -> OwnerPoint \cup OperatorPoint]
        BY <2>23 DEF ClearRename, At, Goto, End, Dismiss, TypeOK, OwnerPoint,
          OperatorPoint
      <4>2. lease' \in [Owner -> LeasePoint] /\ attempt' \in [Owner -> 0 .. 1]
        BY <2>23 DEF ClearRename, At, TypeOK, PointInv, LeasePoint
      <4>3. outcome' \in [Owner -> Outcome]
        BY <2>23 DEF ClearRename, End, TypeOK, Outcome
      <4>4. rec' \in Record /\ seen' \in [Process -> Record]
        BY <2>23 DEF ClearRename, Forget, TypeOK, State
      <4>5. guard' \in Process \cup {None, "wedged"} /\ alive' \subseteq Process
        BY <2>23 DEF ClearRename, TypeOK
      <4>6. /\ flags' \in [Operator -> SUBSET {"active", "quarantined"}]
            /\ commands' \in [Operator -> 0 .. MaxCommands]
            /\ recovery' \in BOOLEAN
            /\ cleared' \subseteq Owner
        BY <2>23 DEF ClearRename, Dismiss, TypeOK, Present
      <4>7. QED
        BY <4>1, <4>2, <4>3, <4>4, <4>5, <4>6 DEF TypeOK
    <3>2. PointInv' /\ LeaseInv'
      BY <2>23, <3>1 DEF ClearRename, At, Goto, End, Forget, Dismiss, TypeOK,
        PointInv, LeaseInv, Heartbeating, OwnerPoint, OperatorPoint, Present,
        Mine
    <3>3. QED
      BY <3>1, <3>2
  <2>24. ASSUME NEW p \in Process, Die(p) PROVE TypeOK' /\ PointInv' /\ LeaseInv'
    <3>1. TypeOK'
      BY <2>24, ConfirmAssumption, BoundAssumption DEF Die, Enter, TypeOK,
        PointInv, OwnerPoint, OperatorPoint, LeasePoint, Outcome, State
    <3>2. PointInv' /\ LeaseInv'
      BY <2>24, <3>1 DEF Die, Enter, TypeOK, PointInv, LeaseInv, Heartbeating,
        OwnerPoint, OperatorPoint
    <3>3. QED
      BY <3>1, <3>2
  <2>25. ASSUME Expire PROVE TypeOK' /\ PointInv' /\ LeaseInv'
    <3>1. TypeOK'
      BY <2>25, ConfirmAssumption, BoundAssumption DEF Expire, TypeOK,
        PointInv, OwnerPoint, OperatorPoint, LeasePoint, Outcome, State,
        Present, Mine
    <3>2. PointInv' /\ LeaseInv'
      BY <2>25, <3>1 DEF Expire, TypeOK, PointInv, LeaseInv, Heartbeating,
        OwnerPoint, OperatorPoint, Present, Mine
    <3>3. QED
      BY <3>1, <3>2
  <2>26. CASE UNCHANGED vars
    BY <2>26 DEF vars, TypeOK, PointInv, LeaseInv, Heartbeating
  <2>27. QED
    BY <2>1, <2>2, <2>3, <2>4, <2>5, <2>6, <2>7, <2>8, <2>9, <2>10, <2>11,
      <2>12, <2>13, <2>14, <2>15, <2>16, <2>17, <2>18, <2>19, <2>20, <2>21,
      <2>22, <2>23, <2>24, <2>25, <2>26 DEF Next, OwnerStep, LeaseStep,
      OperatorStep
<1>3. QED
  BY <1>1, <1>2, PTL DEF Spec

\* What an owner saw, and the record that is there, under the guard.
LEMMA LockStep ==
  ASSUME IInv, TypeInv', [Next]_vars
  PROVE  GuardHeld' /\ FreshInv' /\ SeenInv' /\ ClearInv' /\ HeldUnlessCleared'
<1> USE RecordFacts, OwnerAssumption DEF Process, IInv, TypeInv, TypeOK, PointInv, LeaseInv, Heartbeating
<1>1. ASSUME NEW o \in Owner, Stage(o)
     PROVE  GuardHeld' /\ FreshInv' /\ SeenInv' /\ ClearInv' /\ HeldUnlessCleared'
  <2>1. GuardHeld'
    BY <1>1 DEF Stage, At, Goto, End, GuardHeld, InGuard
  <2>2. FreshInv'
    BY <1>1 DEF Stage, At, Goto, End, FreshInv, Acquiring, SeenInv, Present,
      Mine, StillMine
  <2>3. SeenInv'
    BY <1>1 DEF Stage, At, Goto, End, SeenInv, GuardHeld, InGuard, Present,
      Mine, StillMine
  <2>4. ClearInv'
    BY <1>1 DEF Stage, At, Goto, End, ClearInv, GuardHeld, InGuard, MayClear,
      IsStale, Present
  <2>5. HeldUnlessCleared'
    BY <1>1 DEF Stage, At, Goto, End, HeldUnlessCleared, HoldPoint, SeenInv,
      ClearInv, Present, Mine, StillMine
  <2>6. QED
    BY <2>1, <2>2, <2>3, <2>4, <2>5
<1>2. ASSUME NEW o \in Owner, Publish(o)
     PROVE  GuardHeld' /\ FreshInv' /\ SeenInv' /\ ClearInv' /\ HeldUnlessCleared'
  <2>1. GuardHeld'
    BY <1>2 DEF Publish, At, Goto, End, GuardHeld, InGuard
  <2>2. FreshInv'
    BY <1>2 DEF Publish, At, Goto, End, FreshInv, Acquiring, SeenInv, Present,
      Mine, StillMine
  <2>3. SeenInv'
    BY <1>2 DEF Publish, At, Goto, End, SeenInv, GuardHeld, InGuard, Present,
      Mine, StillMine
  <2>4. ClearInv'
    BY <1>2 DEF Publish, At, Goto, End, ClearInv, GuardHeld, InGuard,
      MayClear, IsStale, Present, Mine
  <2>5. HeldUnlessCleared'
    <3>1. CASE Present
      BY <1>2, <3>1 DEF Publish, At, Goto, HeldUnlessCleared, HoldPoint,
        Present, Mine
    <3>2. CASE ~Present
      <4>1. Mine(o)' /\ pc' = [pc EXCEPT ![o] = "working"] /\ UNCHANGED <<alive, cleared>>
        BY <1>2, <3>2 DEF Publish, Goto, Present, Mine, State
      <4>2. \A q \in Owner \cap alive : pc[q] \in HoldPoint => q \in cleared
        BY <3>2 DEF HeldUnlessCleared, Mine
      <4>3. QED
        BY <4>1, <4>2 DEF HeldUnlessCleared
    <3>3. QED
      BY <3>1, <3>2
  <2>6. QED
    BY <2>1, <2>2, <2>3, <2>4, <2>5
<1>3. ASSUME NEW o \in Owner, HolderRead(o)
     PROVE  GuardHeld' /\ FreshInv' /\ SeenInv' /\ ClearInv' /\ HeldUnlessCleared'
  <2>1. GuardHeld'
    BY <1>3 DEF HolderRead, At, Goto, End, GuardHeld, InGuard
  <2>2. FreshInv'
    BY <1>3 DEF HolderRead, At, Goto, End, FreshInv, Acquiring, SeenInv,
      Present, Mine, StillMine
  <2>3. SeenInv'
    BY <1>3 DEF HolderRead, At, Goto, End, SeenInv, GuardHeld, InGuard,
      Present, Mine, StillMine
  <2>4. ClearInv'
    BY <1>3 DEF HolderRead, At, Goto, End, ClearInv, GuardHeld, InGuard,
      MayClear, IsStale, Present, Mine
  <2>5. HeldUnlessCleared'
    BY <1>3 DEF HolderRead, At, Goto, End, HeldUnlessCleared, HoldPoint,
      SeenInv, ClearInv, Present, Mine, StillMine
  <2>6. QED
    BY <2>1, <2>2, <2>3, <2>4, <2>5
<1>4. ASSUME NEW o \in Owner, EmptyCheck(o)
     PROVE  GuardHeld' /\ FreshInv' /\ SeenInv' /\ ClearInv' /\ HeldUnlessCleared'
  <2>1. GuardHeld'
    BY <1>4 DEF EmptyCheck, At, Goto, End, GuardHeld, InGuard
  <2>2. FreshInv'
    BY <1>4 DEF EmptyCheck, At, Goto, End, FreshInv, Acquiring, SeenInv,
      Present, Mine, StillMine
  <2>3. SeenInv'
    BY <1>4 DEF EmptyCheck, At, Goto, End, SeenInv, GuardHeld, InGuard,
      Present, Mine, StillMine
  <2>4. ClearInv'
    BY <1>4 DEF EmptyCheck, At, Goto, End, ClearInv, GuardHeld, InGuard,
      MayClear, IsStale, Present, Mine
  <2>5. HeldUnlessCleared'
    BY <1>4 DEF EmptyCheck, At, Goto, End, HeldUnlessCleared, HoldPoint,
      SeenInv, ClearInv, Present, Mine, StillMine
  <2>6. QED
    BY <2>1, <2>2, <2>3, <2>4, <2>5
<1>5. ASSUME NEW o \in Owner, LeaseWake(o)
     PROVE  GuardHeld' /\ FreshInv' /\ SeenInv' /\ ClearInv' /\ HeldUnlessCleared'
  <2>1. GuardHeld'
    BY <1>5 DEF LeaseWake, GuardHeld, InGuard
  <2>2. FreshInv'
    BY <1>5 DEF LeaseWake, FreshInv, Acquiring, SeenInv, Present, Mine,
      StillMine
  <2>3. SeenInv'
    BY <1>5 DEF LeaseWake, SeenInv, GuardHeld, InGuard, Present, Mine,
      StillMine
  <2>4. ClearInv'
    BY <1>5 DEF LeaseWake, ClearInv, GuardHeld, InGuard, MayClear, IsStale,
      Present
  <2>5. HeldUnlessCleared'
    BY <1>5 DEF LeaseWake, HeldUnlessCleared, HoldPoint, SeenInv, ClearInv,
      Present, Mine, StillMine
  <2>6. QED
    BY <2>1, <2>2, <2>3, <2>4, <2>5
<1>6. ASSUME NEW o \in Owner, LeaseEnter(o)
     PROVE  GuardHeld' /\ FreshInv' /\ SeenInv' /\ ClearInv' /\ HeldUnlessCleared'
  <2>1. GuardHeld'
    BY <1>6 DEF LeaseEnter, Enter, GuardBusy, GuardHeld, InGuard, CanEnter
  <2>2. FreshInv'
    BY <1>6 DEF LeaseEnter, Enter, GuardBusy, FreshInv, Acquiring, SeenInv,
      Present, Mine, StillMine
  <2>3. SeenInv'
    BY <1>6 DEF LeaseEnter, Enter, GuardBusy, SeenInv, GuardHeld, InGuard,
      CanEnter, Present, Mine, StillMine
  <2>4. ClearInv'
    BY <1>6 DEF LeaseEnter, Enter, GuardBusy, ClearInv, GuardHeld, InGuard,
      CanEnter, MayClear, IsStale, Present, Mine, StillMine
  <2>5. HeldUnlessCleared'
    BY <1>6 DEF LeaseEnter, Enter, GuardBusy, HeldUnlessCleared, HoldPoint,
      SeenInv, ClearInv, Present, Mine, StillMine
  <2>6. QED
    BY <2>1, <2>2, <2>3, <2>4, <2>5
<1>7. ASSUME NEW o \in Owner, LeaseReread(o)
     PROVE  GuardHeld' /\ FreshInv' /\ SeenInv' /\ ClearInv' /\ HeldUnlessCleared'
  <2>1. GuardHeld'
    BY <1>7 DEF LeaseReread, GuardHeld, InGuard
  <2>2. FreshInv'
    BY <1>7 DEF LeaseReread, FreshInv, Acquiring, SeenInv, Present, Mine,
      StillMine
  <2>3. SeenInv'
    BY <1>7 DEF LeaseReread, SeenInv, GuardHeld, InGuard, Present, Mine,
      StillMine
  <2>4. ClearInv'
    BY <1>7 DEF LeaseReread, ClearInv, GuardHeld, InGuard, MayClear, IsStale,
      Present, Mine, StillMine
  <2>5. HeldUnlessCleared'
    BY <1>7 DEF LeaseReread, HeldUnlessCleared, HoldPoint, SeenInv, ClearInv,
      Present, Mine, StillMine
  <2>6. QED
    BY <2>1, <2>2, <2>3, <2>4, <2>5
<1>8. ASSUME NEW o \in Owner, LeaseWrite(o)
     PROVE  GuardHeld' /\ FreshInv' /\ SeenInv' /\ ClearInv' /\ HeldUnlessCleared'
  <2>1. GuardHeld'
    BY <1>8 DEF LeaseWrite, Forget, GuardHeld, InGuard
  <2>2. FreshInv'
    BY <1>8 DEF LeaseWrite, Forget, FreshInv, Acquiring, SeenInv, Present,
      Mine, StillMine
  <2>3. SeenInv'
    BY <1>8 DEF LeaseWrite, Forget, SeenInv, GuardHeld, InGuard, Present,
      Mine, StillMine
  <2>4. ClearInv'
    BY <1>8 DEF LeaseWrite, Forget, ClearInv, GuardHeld, InGuard, MayClear,
      IsStale, Present
  <2>5. HeldUnlessCleared'
    <3>1. Mine(o) /\ seen[o].owner = o /\ seen[o] \in Record \ {NoRecord}
      BY <1>8 DEF LeaseWrite, SeenInv, StillMine
    <3>2. rec' = [seen[o] EXCEPT !.expired = FALSE] /\ UNCHANGED <<pc, alive, cleared>>
      BY <1>8 DEF LeaseWrite
    <3>5. rec'.owner = o /\ rec' # NoRecord
      BY <3>1, <3>2, ExpiryFacts DEF NoRecord, RecordOf
    <3>6. Mine(o)'
      BY <3>5 DEF Mine, Present
    <3>3. \A q \in Owner \ {o} : ~Mine(q)
      BY <3>1 DEF Mine
    <3>4. QED
      BY <3>2, <3>3, <3>6 DEF HeldUnlessCleared
  <2>6. QED
    BY <2>1, <2>2, <2>3, <2>4, <2>5
<1>9. ASSUME NEW o \in Owner, Finish(o)
     PROVE  GuardHeld' /\ FreshInv' /\ SeenInv' /\ ClearInv' /\ HeldUnlessCleared'
  <2>1. GuardHeld'
    BY <1>9 DEF Finish, At, Goto, End, GuardHeld, InGuard
  <2>2. FreshInv'
    BY <1>9 DEF Finish, At, Goto, End, FreshInv, Acquiring, SeenInv, Present,
      Mine, StillMine
  <2>3. SeenInv'
    BY <1>9 DEF Finish, At, Goto, End, SeenInv, GuardHeld, InGuard, Present,
      Mine, StillMine
  <2>4. ClearInv'
    BY <1>9 DEF Finish, At, Goto, End, ClearInv, GuardHeld, InGuard, MayClear,
      IsStale, Present
  <2>5. HeldUnlessCleared'
    BY <1>9 DEF Finish, At, Goto, End, HeldUnlessCleared, HoldPoint, SeenInv,
      ClearInv, Present, Mine, StillMine
  <2>6. QED
    BY <2>1, <2>2, <2>3, <2>4, <2>5
<1>10. ASSUME NEW o \in Owner, StopLease(o)
     PROVE  GuardHeld' /\ FreshInv' /\ SeenInv' /\ ClearInv' /\ HeldUnlessCleared'
  <2>1. GuardHeld'
    BY <1>10 DEF StopLease, At, Goto, End, GuardHeld, InGuard
  <2>2. FreshInv'
    BY <1>10 DEF StopLease, At, Goto, End, FreshInv, Acquiring, SeenInv,
      Present, Mine, StillMine
  <2>3. SeenInv'
    BY <1>10 DEF StopLease, At, Goto, End, SeenInv, GuardHeld, InGuard,
      Present, Mine, StillMine
  <2>4. ClearInv'
    BY <1>10 DEF StopLease, At, Goto, End, ClearInv, GuardHeld, InGuard,
      MayClear, IsStale, Present
  <2>5. HeldUnlessCleared'
    BY <1>10 DEF StopLease, At, Goto, End, HeldUnlessCleared, HoldPoint,
      SeenInv, ClearInv, Present, Mine, StillMine
  <2>6. QED
    BY <2>1, <2>2, <2>3, <2>4, <2>5
<1>11. ASSUME NEW o \in Owner, ReleaseEnter(o)
     PROVE  GuardHeld' /\ FreshInv' /\ SeenInv' /\ ClearInv' /\ HeldUnlessCleared'
  <2>1. GuardHeld'
    BY <1>11 DEF ReleaseEnter, At, Goto, End, Enter, GuardBusy, GuardHeld,
      InGuard, CanEnter
  <2>2. FreshInv'
    BY <1>11 DEF ReleaseEnter, At, Goto, End, Enter, GuardBusy, FreshInv,
      Acquiring, SeenInv, Present, Mine, StillMine
  <2>3. SeenInv'
    BY <1>11 DEF ReleaseEnter, At, Goto, End, Enter, GuardBusy, SeenInv,
      GuardHeld, InGuard, CanEnter, Present, Mine, StillMine
  <2>4. ClearInv'
    BY <1>11 DEF ReleaseEnter, At, Goto, End, Enter, GuardBusy, ClearInv,
      GuardHeld, InGuard, CanEnter, MayClear, IsStale, Present, Mine
  <2>5. HeldUnlessCleared'
    BY <1>11 DEF ReleaseEnter, At, Goto, End, Enter, GuardBusy,
      HeldUnlessCleared, HoldPoint, SeenInv, ClearInv, Present, Mine,
      StillMine
  <2>6. QED
    BY <2>1, <2>2, <2>3, <2>4, <2>5
<1>12. ASSUME NEW o \in Owner, ReleaseRename(o)
     PROVE  GuardHeld' /\ FreshInv' /\ SeenInv' /\ ClearInv' /\ HeldUnlessCleared'
  <2>1. GuardHeld'
    BY <1>12 DEF ReleaseRename, At, Goto, End, GuardHeld, InGuard
  <2>2. FreshInv'
    BY <1>12 DEF ReleaseRename, At, Goto, End, FreshInv, Acquiring, SeenInv,
      Present, Mine, StillMine
  <2>3. SeenInv'
    BY <1>12 DEF ReleaseRename, At, Goto, End, SeenInv, GuardHeld, InGuard,
      Present, Mine, StillMine
  <2>4. ClearInv'
    BY <1>12 DEF ReleaseRename, At, Goto, End, ClearInv, GuardHeld, InGuard,
      MayClear, IsStale, Present, Mine
  <2>5. HeldUnlessCleared'
    BY <1>12 DEF ReleaseRename, At, Goto, End, HeldUnlessCleared, HoldPoint,
      SeenInv, ClearInv, Present, Mine, StillMine
  <2>6. QED
    BY <2>1, <2>2, <2>3, <2>4, <2>5
<1>13. ASSUME NEW o \in Owner, QuarantineEnter(o)
     PROVE  GuardHeld' /\ FreshInv' /\ SeenInv' /\ ClearInv' /\ HeldUnlessCleared'
  <2>1. GuardHeld'
    BY <1>13 DEF QuarantineEnter, At, Goto, End, Enter, GuardBusy, GuardHeld,
      InGuard, CanEnter
  <2>2. FreshInv'
    BY <1>13 DEF QuarantineEnter, At, Goto, End, Enter, GuardBusy, FreshInv,
      Acquiring, SeenInv, Present, Mine, StillMine
  <2>3. SeenInv'
    BY <1>13 DEF QuarantineEnter, At, Goto, End, Enter, GuardBusy, SeenInv,
      GuardHeld, InGuard, CanEnter, Present, Mine, StillMine
  <2>4. ClearInv'
    BY <1>13 DEF QuarantineEnter, At, Goto, End, Enter, GuardBusy, ClearInv,
      GuardHeld, InGuard, CanEnter, MayClear, IsStale, Present, Mine
  <2>5. HeldUnlessCleared'
    BY <1>13 DEF QuarantineEnter, At, Goto, End, Enter, GuardBusy,
      HeldUnlessCleared, HoldPoint, SeenInv, ClearInv, Present, Mine,
      StillMine
  <2>6. QED
    BY <2>1, <2>2, <2>3, <2>4, <2>5
<1>14. ASSUME NEW o \in Owner, QuarantineWrite(o)
     PROVE  GuardHeld' /\ FreshInv' /\ SeenInv' /\ ClearInv' /\ HeldUnlessCleared'
  <2>1. GuardHeld'
    BY <1>14 DEF QuarantineWrite, At, Goto, End, Forget, GuardHeld, InGuard
  <2>2. FreshInv'
    BY <1>14 DEF QuarantineWrite, At, Goto, End, Forget, FreshInv, Acquiring,
      SeenInv, Present, Mine, StillMine
  <2>3. SeenInv'
    BY <1>14 DEF QuarantineWrite, At, Goto, End, Forget, SeenInv, GuardHeld,
      InGuard, Present, Mine, StillMine
  <2>4. ClearInv'
    BY <1>14 DEF QuarantineWrite, At, Goto, End, Forget, ClearInv, GuardHeld,
      InGuard, MayClear, IsStale, Present
  <2>5. HeldUnlessCleared'
    BY <1>14 DEF QuarantineWrite, At, Goto, End, Forget, HeldUnlessCleared,
      HoldPoint, SeenInv, ClearInv, Present, Mine, StillMine
  <2>6. QED
    BY <2>1, <2>2, <2>3, <2>4, <2>5
<1>15. ASSUME NEW o \in Owner, RecordFailure(o)
     PROVE  GuardHeld' /\ FreshInv' /\ SeenInv' /\ ClearInv' /\ HeldUnlessCleared'
  <2>1. GuardHeld'
    BY <1>15 DEF RecordFailure, At, Goto, End, GuardHeld, InGuard
  <2>2. FreshInv'
    BY <1>15 DEF RecordFailure, At, Goto, End, FreshInv, Acquiring, SeenInv,
      Present, Mine, StillMine
  <2>3. SeenInv'
    BY <1>15 DEF RecordFailure, At, Goto, End, SeenInv, GuardHeld, InGuard,
      Present, Mine, StillMine
  <2>4. ClearInv'
    BY <1>15 DEF RecordFailure, At, Goto, End, ClearInv, GuardHeld, InGuard,
      MayClear, IsStale, Present
  <2>5. HeldUnlessCleared'
    BY <1>15 DEF RecordFailure, At, Goto, End, HeldUnlessCleared, HoldPoint,
      SeenInv, ClearInv, Present, Mine, StillMine
  <2>6. QED
    BY <2>1, <2>2, <2>3, <2>4, <2>5
<1>16. ASSUME NEW o \in Owner, MarkEnter(o)
     PROVE  GuardHeld' /\ FreshInv' /\ SeenInv' /\ ClearInv' /\ HeldUnlessCleared'
  <2>1. GuardHeld'
    BY <1>16 DEF MarkEnter, At, Goto, End, Enter, GuardBusy, GuardHeld,
      InGuard, CanEnter
  <2>2. FreshInv'
    BY <1>16 DEF MarkEnter, At, Goto, End, Enter, GuardBusy, FreshInv,
      Acquiring, SeenInv, Present, Mine, StillMine
  <2>3. SeenInv'
    BY <1>16 DEF MarkEnter, At, Goto, End, Enter, GuardBusy, SeenInv,
      GuardHeld, InGuard, CanEnter, Present, Mine, StillMine
  <2>4. ClearInv'
    BY <1>16 DEF MarkEnter, At, Goto, End, Enter, GuardBusy, ClearInv,
      GuardHeld, InGuard, CanEnter, MayClear, IsStale, Present, Mine
  <2>5. HeldUnlessCleared'
    BY <1>16 DEF MarkEnter, At, Goto, End, Enter, GuardBusy,
      HeldUnlessCleared, HoldPoint, SeenInv, ClearInv, Present, Mine,
      StillMine
  <2>6. QED
    BY <2>1, <2>2, <2>3, <2>4, <2>5
<1>17. ASSUME NEW o \in Owner, MarkWrite(o)
     PROVE  GuardHeld' /\ FreshInv' /\ SeenInv' /\ ClearInv' /\ HeldUnlessCleared'
  <2>1. GuardHeld'
    BY <1>17 DEF MarkWrite, At, Goto, End, Forget, GuardHeld, InGuard
  <2>2. FreshInv'
    BY <1>17 DEF MarkWrite, At, Goto, End, Forget, FreshInv, Acquiring,
      SeenInv, Present, Mine, StillMine
  <2>3. SeenInv'
    BY <1>17 DEF MarkWrite, At, Goto, End, Forget, SeenInv, GuardHeld,
      InGuard, Present, Mine, StillMine
  <2>4. ClearInv'
    BY <1>17 DEF MarkWrite, At, Goto, End, Forget, ClearInv, GuardHeld,
      InGuard, MayClear, IsStale, Present
  <2>5. HeldUnlessCleared'
    BY <1>17 DEF MarkWrite, At, Goto, End, Forget, HeldUnlessCleared,
      HoldPoint, SeenInv, ClearInv, Present, Mine, StillMine
  <2>6. QED
    BY <2>1, <2>2, <2>3, <2>4, <2>5
<1>18. ASSUME NEW o \in Owner, Exit(o)
     PROVE  GuardHeld' /\ FreshInv' /\ SeenInv' /\ ClearInv' /\ HeldUnlessCleared'
  <2>1. GuardHeld'
    BY <1>18 DEF Exit, At, Goto, End, GuardHeld, InGuard
  <2>2. FreshInv'
    BY <1>18 DEF Exit, At, Goto, End, FreshInv, Acquiring, SeenInv, Present,
      Mine, StillMine
  <2>3. SeenInv'
    BY <1>18 DEF Exit, At, Goto, End, SeenInv, GuardHeld, InGuard, Present,
      Mine, StillMine
  <2>4. ClearInv'
    BY <1>18 DEF Exit, At, Goto, End, ClearInv, GuardHeld, InGuard, MayClear,
      IsStale, Present
  <2>5. HeldUnlessCleared'
    BY <1>18 DEF Exit, At, Goto, End, HeldUnlessCleared, HoldPoint, SeenInv,
      ClearInv, Present, Mine, StillMine
  <2>6. QED
    BY <2>1, <2>2, <2>3, <2>4, <2>5
<1>19. ASSUME NEW c \in Operator, StartClear(c)
     PROVE  GuardHeld' /\ FreshInv' /\ SeenInv' /\ ClearInv' /\ HeldUnlessCleared'
  <2>1. GuardHeld'
    BY <1>19 DEF StartClear, At, Goto, End, GuardHeld, InGuard
  <2>2. FreshInv'
    BY <1>19 DEF StartClear, At, Goto, End, FreshInv, Acquiring, SeenInv,
      Present, Mine, StillMine
  <2>3. SeenInv'
    BY <1>19 DEF StartClear, At, Goto, End, SeenInv, GuardHeld, InGuard,
      Present, Mine, StillMine
  <2>4. ClearInv'
    BY <1>19 DEF StartClear, At, Goto, End, ClearInv, GuardHeld, InGuard,
      MayClear, IsStale, Present
  <2>5. HeldUnlessCleared'
    BY <1>19 DEF StartClear, At, Goto, End, HeldUnlessCleared, HoldPoint,
      SeenInv, ClearInv, Present, Mine, StillMine
  <2>6. QED
    BY <2>1, <2>2, <2>3, <2>4, <2>5
<1>20. ASSUME NEW c \in Operator, StartClearStale(c)
     PROVE  GuardHeld' /\ FreshInv' /\ SeenInv' /\ ClearInv' /\ HeldUnlessCleared'
  <2>1. GuardHeld'
    BY <1>20 DEF StartClearStale, At, Goto, End, GuardHeld, InGuard
  <2>2. FreshInv'
    BY <1>20 DEF StartClearStale, At, Goto, End, FreshInv, Acquiring, SeenInv,
      Present, Mine, StillMine
  <2>3. SeenInv'
    BY <1>20 DEF StartClearStale, At, Goto, End, SeenInv, GuardHeld, InGuard,
      Present, Mine, StillMine
  <2>4. ClearInv'
    BY <1>20 DEF StartClearStale, At, Goto, End, ClearInv, GuardHeld, InGuard,
      MayClear, IsStale, Present, Mine
  <2>5. HeldUnlessCleared'
    BY <1>20 DEF StartClearStale, At, Goto, End, HeldUnlessCleared, HoldPoint,
      SeenInv, ClearInv, Present, Mine, StillMine
  <2>6. QED
    BY <2>1, <2>2, <2>3, <2>4, <2>5
<1>21. ASSUME NEW c \in Operator, ClearEnter(c)
     PROVE  GuardHeld' /\ FreshInv' /\ SeenInv' /\ ClearInv' /\ HeldUnlessCleared'
  <2>1. GuardHeld'
    BY <1>21 DEF ClearEnter, At, Goto, End, Enter, GuardBusy, Dismiss,
      GuardHeld, InGuard, CanEnter
  <2>2. FreshInv'
    BY <1>21 DEF ClearEnter, At, Goto, End, Enter, GuardBusy, Dismiss,
      FreshInv, Acquiring, SeenInv, Present, Mine, StillMine
  <2>3. SeenInv'
    BY <1>21 DEF ClearEnter, At, Goto, End, Enter, GuardBusy, Dismiss,
      SeenInv, GuardHeld, InGuard, CanEnter, Present, Mine, StillMine
  <2>4. ClearInv'
    BY <1>21 DEF ClearEnter, At, Goto, End, Enter, GuardBusy, Dismiss,
      ClearInv, GuardHeld, InGuard, CanEnter, MayClear, IsStale, Present
  <2>5. HeldUnlessCleared'
    BY <1>21 DEF ClearEnter, At, Goto, End, Enter, GuardBusy, Dismiss,
      HeldUnlessCleared, HoldPoint, SeenInv, ClearInv, Present, Mine,
      StillMine
  <2>6. QED
    BY <2>1, <2>2, <2>3, <2>4, <2>5
<1>22. ASSUME NEW c \in Operator, ClearRead(c)
     PROVE  GuardHeld' /\ FreshInv' /\ SeenInv' /\ ClearInv' /\ HeldUnlessCleared'
  <2>1. GuardHeld'
    BY <1>22 DEF ClearRead, At, Goto, End, Dismiss, GuardHeld, InGuard
  <2>2. FreshInv'
    BY <1>22 DEF ClearRead, At, Goto, End, Dismiss, FreshInv, Acquiring,
      SeenInv, Present, Mine, StillMine
  <2>3. SeenInv'
    BY <1>22 DEF ClearRead, At, Goto, End, Dismiss, SeenInv, GuardHeld,
      InGuard, Present, Mine, StillMine
  <2>4. ClearInv'
    BY <1>22 DEF ClearRead, At, Goto, End, Dismiss, ClearInv, GuardHeld,
      InGuard, MayClear, IsStale, Present, Mine
  <2>5. HeldUnlessCleared'
    BY <1>22 DEF ClearRead, At, Goto, End, Dismiss, HeldUnlessCleared,
      HoldPoint, SeenInv, ClearInv, Present, Mine, StillMine
  <2>6. QED
    BY <2>1, <2>2, <2>3, <2>4, <2>5
<1>23. ASSUME NEW c \in Operator, ClearRename(c)
     PROVE  GuardHeld' /\ FreshInv' /\ SeenInv' /\ ClearInv' /\ HeldUnlessCleared'
  <2>1. GuardHeld'
    BY <1>23 DEF ClearRename, At, Goto, End, Forget, Dismiss, GuardHeld,
      InGuard
  <2>2. FreshInv'
    BY <1>23 DEF ClearRename, At, Goto, End, Forget, Dismiss, FreshInv,
      Acquiring, SeenInv, Present, Mine, StillMine
  <2>3. SeenInv'
    BY <1>23 DEF ClearRename, At, Goto, End, Forget, Dismiss, SeenInv,
      GuardHeld, InGuard, Present, Mine, StillMine
  <2>4. ClearInv'
    BY <1>23 DEF ClearRename, At, Goto, End, Forget, Dismiss, ClearInv,
      GuardHeld, InGuard, MayClear, IsStale, Present, Mine
  <2>5. HeldUnlessCleared'
    BY <1>23 DEF ClearRename, At, Goto, End, Forget, Dismiss,
      HeldUnlessCleared, HoldPoint, SeenInv, ClearInv, Present, Mine,
      StillMine
  <2>6. QED
    BY <2>1, <2>2, <2>3, <2>4, <2>5
<1>24. ASSUME NEW p \in Process, Die(p)
     PROVE  GuardHeld' /\ FreshInv' /\ SeenInv' /\ ClearInv' /\ HeldUnlessCleared'
  <2>1. GuardHeld'
    BY <1>24 DEF Die, Enter, GuardHeld, InGuard, CanEnter
  <2>2. FreshInv'
    BY <1>24 DEF Die, Enter, FreshInv, Acquiring, SeenInv, Present, Mine,
      StillMine
  <2>3. SeenInv'
    BY <1>24 DEF Die, Enter, SeenInv, GuardHeld, InGuard, CanEnter, Present,
      Mine, StillMine
  <2>4. ClearInv'
    BY <1>24 DEF Die, Enter, ClearInv, GuardHeld, InGuard, CanEnter, MayClear,
      IsStale, Present
  <2>5. HeldUnlessCleared'
    BY <1>24 DEF Die, Enter, HeldUnlessCleared, HoldPoint, SeenInv, ClearInv,
      Present, Mine, StillMine
  <2>6. QED
    BY <2>1, <2>2, <2>3, <2>4, <2>5
<1>25. ASSUME Expire
     PROVE  GuardHeld' /\ FreshInv' /\ SeenInv' /\ ClearInv' /\ HeldUnlessCleared'
  <2>0. /\ Present /\ Present'
        /\ rec'.owner = rec.owner /\ rec'.state = rec.state /\ rec'.expired
    <3>1. rec \in Record \ {NoRecord} /\ rec' = [rec EXCEPT !.expired = TRUE]
      BY <1>25 DEF Expire, Present
    <3>2. QED
      BY <3>1, ExpiryFacts DEF Present, NoRecord, RecordOf
  <2>1. GuardHeld'
    BY <1>25 DEF Expire, GuardHeld, InGuard
  <2>2. FreshInv'
    BY <1>25 DEF Expire, FreshInv, Acquiring, SeenInv, Present, Mine,
      StillMine
  <2>3. SeenInv'
    BY <1>25, <2>0 DEF Expire, SeenInv, Mine, StillMine
  <2>4. ClearInv'
    BY <1>25, <2>0 DEF Expire, ClearInv, MayClear, IsStale
  <2>5. HeldUnlessCleared'
    BY <1>25, <2>0 DEF Expire, HeldUnlessCleared, Mine
  <2>6. QED
    BY <2>1, <2>2, <2>3, <2>4, <2>5
<1>26. CASE UNCHANGED vars
  BY <1>26 DEF vars, GuardHeld, InGuard, FreshInv, Acquiring, SeenInv,
    ClearInv, HeldUnlessCleared, MayClear, IsStale, Present, Mine, StillMine
<1>27. QED
  BY <1>1, <1>2, <1>3, <1>4, <1>5, <1>6, <1>7, <1>8, <1>9, <1>10, <1>11,
    <1>12, <1>13, <1>14, <1>15, <1>16, <1>17, <1>18, <1>19, <1>20, <1>21,
    <1>22, <1>23, <1>24, <1>25, <1>26 DEF Next, OwnerStep, LeaseStep,
    OperatorStep

\* The inductive invariant holds.
THEOREM LockInvariant == Spec => []IInv
<1>1. Init => IInv
  <2> SUFFICES ASSUME Init PROVE IInv
    OBVIOUS
  <2>1. TypeInv
    <3>1. Init => TypeInv
      BY TypeInit
    <3>2. QED
      BY <3>1
  <2>2. /\ \A o \in Owner : pc[o] = "idle" /\ lease[o] = "off" /\ outcome[o] = "none"
        /\ \A c \in Operator : pc[c] = "ready"
        /\ ~Present
        /\ cleared = {}
    BY OwnerAssumption DEF Init, Process, Present
  <2>3. GuardHeld /\ SeenInv /\ ClearInv
    BY <2>2 DEF GuardHeld, InGuard, SeenInv, ClearInv, Process
  <2>4. FreshInv /\ HeldUnlessCleared
    BY <2>2 DEF FreshInv, Acquiring, HeldUnlessCleared, HoldPoint, Mine
  <2>5. QED
    BY <2>1, <2>3, <2>4 DEF IInv
<1>2. IInv /\ TypeInv' /\ [Next]_vars => IInv'
  BY LockStep DEF IInv
<1>3. QED
  BY <1>1, <1>2, TypeInvariant, PTL DEF Spec

\* An operation that believes it holds the device holds its lock, unless an
\* operator cleared it: the promise of acquire, heartbeat, release, quarantine
\* and clear together.
THEOREM HeldOrCleared == Spec => []HeldUnlessCleared
<1>1. IInv => HeldUnlessCleared
  BY DEF IInv
<1>2. QED
  BY <1>1, LockInvariant, PTL

-----------------------------------------------------------------------------

\* clear removes the lock of a live process only with the confirmation that the
\* lock's state calls for, or when it is overdue on another host.
THEOREM OwnerProtected == Spec => ActiveOwnerProtected
<1> DEFINE Kept(c) ==
      /\ pc[c] = "clearRename" /\ pc'[c] = "ready"
      /\ Present /\ ~Present'
      /\ rec.owner \in alive
      => \/ "active" \in flags[c]
         \/ rec.state = "quarantined" /\ "quarantined" \in flags[c]
         \/ Host[c] # Host[rec.owner] /\ rec.expired
<1>1. ASSUME IInv, [Next]_vars, NEW c \in Operator PROVE Kept(c)
  <2> SUFFICES ASSUME pc[c] = "clearRename", pc'[c] = "ready", rec.owner \in alive, Present
               PROVE  \/ "active" \in flags[c]
                      \/ rec.state = "quarantined" /\ "quarantined" \in flags[c]
                      \/ Host[c] # Host[rec.owner] /\ rec.expired
    OBVIOUS
  <2>1. c \in alive
    <3> USE <1>1, OwnerAssumption DEF Process, At, Goto, IInv, TypeInv, TypeOK
    <3>1. pc' = pc \/ \E p \in alive : \E l : Goto(p, l)
      BY ZenonT(40) DEF Next, vars, OwnerStep, LeaseStep, OperatorStep, End, Dismiss,
        Stage, Publish, HolderRead, EmptyCheck, LeaseWake, LeaseEnter,
        LeaseReread, LeaseWrite, Finish, StopLease, ReleaseEnter,
        ReleaseRename, QuarantineEnter, QuarantineWrite, RecordFailure,
        MarkEnter, MarkWrite, Exit, StartClear, StartClearStale, ClearEnter,
        ClearRead, ClearRename, Die, Expire
    <3>2. QED
      BY <3>1
  <2>2. MayClear(c)
    BY <1>1, <2>1 DEF IInv, ClearInv
  <2>3. QED
    BY <2>2 DEF MayClear, IsStale
<1>2. IInv /\ [Next]_vars => [\A c \in Operator : Kept(c)]_vars
  BY <1>1
<1>3. QED
  BY <1>2, LockInvariant, PTL DEF Spec, ActiveOwnerProtected

-----------------------------------------------------------------------------

holderOf == IF Present THEN {rec.owner} ELSE {}
blockedOf == Present /\ rec.state # "active"

\* A step that leaves the record to its owner, and ends no one, is a stutter.
LEMMA Stutter ==
  ASSUME UNCHANGED <<holderOf, blockedOf, cleared>>,
         \A o \in Owner : outcome'[o] = "released" <=> outcome[o] = "released"
  PROVE  UNCHANGED Resource!resource
<1>1. Ended' = Ended
  BY DEF Ended
<1>2. QED
  BY <1>1 DEF Resource!resource, holderOf, blockedOf

\* The lock implements an exclusive resource with one holder at a time.
THEOREM Refinement == Spec => ResourceSpec
<1>1. Init => Resource!Init
  BY DEF Init, Resource!Init, Ended, Present
<1>2. ASSUME IInv, TypeInv', IInv', [Next]_vars
      PROVE  Resource!Next \/ UNCHANGED Resource!resource
  <2> USE <1>2, OwnerAssumption
  <2>0. /\ rec \in Record /\ outcome \in [Owner -> Outcome]
        /\ \A o \in Owner : pc[o] # "done" => outcome[o] = "none"
    BY DEF IInv, TypeInv, TypeOK, FreshInv
  <2>1. ASSUME NEW o \in Owner, Stage(o) PROVE Resource!Next \/ UNCHANGED Resource!resource
    <3>1. UNCHANGED <<rec, cleared>>
      BY <2>1 DEF Stage
    <3>2. \A q \in Owner : outcome'[q] = "released" <=> outcome[q] = "released"
      BY <2>1, <2>0 DEF Stage, At, Goto, End
    <3>3. QED
      BY <3>1, <3>2, Stutter DEF holderOf, blockedOf, Present
  <2>2. ASSUME NEW o \in Owner, HolderRead(o) PROVE Resource!Next \/ UNCHANGED Resource!resource
    <3>1. UNCHANGED <<rec, cleared>>
      BY <2>2 DEF HolderRead
    <3>2. \A q \in Owner : outcome'[q] = "released" <=> outcome[q] = "released"
      BY <2>2, <2>0 DEF HolderRead, At, Goto, End
    <3>3. QED
      BY <3>1, <3>2, Stutter DEF holderOf, blockedOf, Present
  <2>3. ASSUME NEW o \in Owner, EmptyCheck(o) PROVE Resource!Next \/ UNCHANGED Resource!resource
    <3>1. UNCHANGED <<rec, cleared>>
      BY <2>3 DEF EmptyCheck
    <3>2. \A q \in Owner : outcome'[q] = "released" <=> outcome[q] = "released"
      BY <2>3, <2>0 DEF EmptyCheck, At, Goto, End
    <3>3. QED
      BY <3>1, <3>2, Stutter DEF holderOf, blockedOf, Present
  <2>4. ASSUME NEW o \in Owner, LeaseWake(o) PROVE Resource!Next \/ UNCHANGED Resource!resource
    <3>1. UNCHANGED <<rec, cleared>>
      BY <2>4 DEF LeaseWake
    <3>2. \A q \in Owner : outcome'[q] = "released" <=> outcome[q] = "released"
      BY <2>4, <2>0 DEF LeaseWake
    <3>3. QED
      BY <3>1, <3>2, Stutter DEF holderOf, blockedOf, Present
  <2>5. ASSUME NEW o \in Owner, LeaseEnter(o) PROVE Resource!Next \/ UNCHANGED Resource!resource
    <3>1. UNCHANGED <<rec, cleared>>
      BY <2>5 DEF LeaseEnter
    <3>2. \A q \in Owner : outcome'[q] = "released" <=> outcome[q] = "released"
      BY <2>5, <2>0 DEF LeaseEnter
    <3>3. QED
      BY <3>1, <3>2, Stutter DEF holderOf, blockedOf, Present
  <2>6. ASSUME NEW o \in Owner, LeaseReread(o) PROVE Resource!Next \/ UNCHANGED Resource!resource
    <3>1. UNCHANGED <<rec, cleared>>
      BY <2>6 DEF LeaseReread
    <3>2. \A q \in Owner : outcome'[q] = "released" <=> outcome[q] = "released"
      BY <2>6, <2>0 DEF LeaseReread
    <3>3. QED
      BY <3>1, <3>2, Stutter DEF holderOf, blockedOf, Present
  <2>7. ASSUME NEW o \in Owner, Finish(o) PROVE Resource!Next \/ UNCHANGED Resource!resource
    <3>1. UNCHANGED <<rec, cleared>>
      BY <2>7 DEF Finish
    <3>2. \A q \in Owner : outcome'[q] = "released" <=> outcome[q] = "released"
      BY <2>7, <2>0 DEF Finish, At, Goto, End
    <3>3. QED
      BY <3>1, <3>2, Stutter DEF holderOf, blockedOf, Present
  <2>8. ASSUME NEW o \in Owner, StopLease(o) PROVE Resource!Next \/ UNCHANGED Resource!resource
    <3>1. UNCHANGED <<rec, cleared>>
      BY <2>8 DEF StopLease
    <3>2. \A q \in Owner : outcome'[q] = "released" <=> outcome[q] = "released"
      BY <2>8, <2>0 DEF StopLease, At, Goto, End
    <3>3. QED
      BY <3>1, <3>2, Stutter DEF holderOf, blockedOf, Present
  <2>9. ASSUME NEW o \in Owner, ReleaseEnter(o) PROVE Resource!Next \/ UNCHANGED Resource!resource
    <3>1. UNCHANGED <<rec, cleared>>
      BY <2>9 DEF ReleaseEnter
    <3>2. \A q \in Owner : outcome'[q] = "released" <=> outcome[q] = "released"
      BY <2>9, <2>0 DEF ReleaseEnter, At, Goto, End
    <3>3. QED
      BY <3>1, <3>2, Stutter DEF holderOf, blockedOf, Present
  <2>10. ASSUME NEW o \in Owner, QuarantineEnter(o) PROVE Resource!Next \/ UNCHANGED Resource!resource
    <3>1. UNCHANGED <<rec, cleared>>
      BY <2>10 DEF QuarantineEnter
    <3>2. \A q \in Owner : outcome'[q] = "released" <=> outcome[q] = "released"
      BY <2>10, <2>0 DEF QuarantineEnter, At, Goto, End
    <3>3. QED
      BY <3>1, <3>2, Stutter DEF holderOf, blockedOf, Present
  <2>11. ASSUME NEW o \in Owner, RecordFailure(o) PROVE Resource!Next \/ UNCHANGED Resource!resource
    <3>1. UNCHANGED <<rec, cleared>>
      BY <2>11 DEF RecordFailure
    <3>2. \A q \in Owner : outcome'[q] = "released" <=> outcome[q] = "released"
      BY <2>11, <2>0 DEF RecordFailure, At, Goto, End
    <3>3. QED
      BY <3>1, <3>2, Stutter DEF holderOf, blockedOf, Present
  <2>12. ASSUME NEW o \in Owner, MarkEnter(o) PROVE Resource!Next \/ UNCHANGED Resource!resource
    <3>1. UNCHANGED <<rec, cleared>>
      BY <2>12 DEF MarkEnter
    <3>2. \A q \in Owner : outcome'[q] = "released" <=> outcome[q] = "released"
      BY <2>12, <2>0 DEF MarkEnter, At, Goto, End
    <3>3. QED
      BY <3>1, <3>2, Stutter DEF holderOf, blockedOf, Present
  <2>13. ASSUME NEW o \in Owner, Exit(o) PROVE Resource!Next \/ UNCHANGED Resource!resource
    <3>1. UNCHANGED <<rec, cleared>>
      BY <2>13 DEF Exit
    <3>2. \A q \in Owner : outcome'[q] = "released" <=> outcome[q] = "released"
      BY <2>13, <2>0 DEF Exit, At, Goto, End
    <3>3. QED
      BY <3>1, <3>2, Stutter DEF holderOf, blockedOf, Present
  <2>14. ASSUME NEW c \in Operator, StartClear(c) PROVE Resource!Next \/ UNCHANGED Resource!resource
    <3>1. UNCHANGED <<rec, cleared>>
      BY <2>14 DEF StartClear
    <3>2. \A q \in Owner : outcome'[q] = "released" <=> outcome[q] = "released"
      BY <2>14, <2>0 DEF StartClear, At, Goto, End
    <3>3. QED
      BY <3>1, <3>2, Stutter DEF holderOf, blockedOf, Present
  <2>15. ASSUME NEW c \in Operator, StartClearStale(c) PROVE Resource!Next \/ UNCHANGED Resource!resource
    <3>1. UNCHANGED <<rec, cleared>>
      BY <2>15 DEF StartClearStale
    <3>2. \A q \in Owner : outcome'[q] = "released" <=> outcome[q] = "released"
      BY <2>15, <2>0 DEF StartClearStale, At, Goto, End
    <3>3. QED
      BY <3>1, <3>2, Stutter DEF holderOf, blockedOf, Present
  <2>16. ASSUME NEW c \in Operator, ClearEnter(c) PROVE Resource!Next \/ UNCHANGED Resource!resource
    <3>1. UNCHANGED <<rec, cleared>>
      BY <2>16 DEF ClearEnter
    <3>2. \A q \in Owner : outcome'[q] = "released" <=> outcome[q] = "released"
      BY <2>16, <2>0 DEF ClearEnter, At, Goto, End
    <3>3. QED
      BY <3>1, <3>2, Stutter DEF holderOf, blockedOf, Present
  <2>17. ASSUME NEW c \in Operator, ClearRead(c) PROVE Resource!Next \/ UNCHANGED Resource!resource
    <3>1. UNCHANGED <<rec, cleared>>
      BY <2>17 DEF ClearRead
    <3>2. \A q \in Owner : outcome'[q] = "released" <=> outcome[q] = "released"
      BY <2>17, <2>0 DEF ClearRead, At, Goto, End
    <3>3. QED
      BY <3>1, <3>2, Stutter DEF holderOf, blockedOf, Present
  <2>18. ASSUME NEW p \in Process, Die(p) PROVE Resource!Next \/ UNCHANGED Resource!resource
    <3>1. UNCHANGED <<rec, cleared>>
      BY <2>18 DEF Die
    <3>2. \A q \in Owner : outcome'[q] = "released" <=> outcome[q] = "released"
      BY <2>18, <2>0 DEF Die
    <3>3. QED
      BY <3>1, <3>2, Stutter DEF holderOf, blockedOf, Present
  <2>19. ASSUME NEW o \in Owner, Publish(o) PROVE Resource!Next \/ UNCHANGED Resource!resource
    <3>1. UNCHANGED Ended /\ o \notin Ended
      BY <2>19, <2>0 DEF Publish, At, Ended, IInv, FreshInv, Acquiring
    <3>2. CASE Present
      BY <2>19, <3>1, <3>2 DEF Publish, Resource!resource, Present
    <3>3. CASE ~Present
      <4>1. rec' = RecordOf(o, "active") /\ Present' /\ rec'.owner = o /\ rec'.state = "active"
        BY <2>19, <3>3 DEF Publish, RecordOf, Present, NoRecord
      <4>2. Resource!Take(o)
        BY <3>1, <3>3, <4>1 DEF Resource!Take
      <4>3. QED
        BY <4>2 DEF Resource!Next
    <3>4. QED
      BY <3>2, <3>3
  <2>20. ASSUME NEW o \in Owner, LeaseWrite(o) PROVE Resource!Next \/ UNCHANGED Resource!resource
    <3>1. /\ Mine(o) /\ rec.state = "active"
          /\ seen[o] \in Record \ {NoRecord} /\ seen[o].owner = o /\ seen[o].state = "active"
      BY <2>20 DEF LeaseWrite, IInv, SeenInv, StillMine, TypeInv, TypeOK,
        PointInv, Process
    <3>2. rec' = [seen[o] EXCEPT !.expired = FALSE] /\ UNCHANGED <<cleared, outcome>>
      BY <2>20 DEF LeaseWrite
    <3>3. rec'.owner = o /\ rec'.state = "active" /\ rec' # NoRecord
      BY <3>1, <3>2, ExpiryFacts DEF NoRecord, RecordOf
    <3>4. UNCHANGED <<holderOf, blockedOf>>
      BY <3>1, <3>3 DEF holderOf, blockedOf, Mine, Present
    <3>5. QED
      BY <3>2, <3>4, Stutter
  <2>21. ASSUME NEW o \in Owner, ReleaseRename(o) PROVE Resource!Next \/ UNCHANGED Resource!resource
    <3>1. Mine(o) /\ rec.state = "active"
      BY <2>21 DEF ReleaseRename, At, IInv, SeenInv, StillMine
    <3>2. ~Present' /\ outcome' = [outcome EXCEPT ![o] = "released"] /\ UNCHANGED cleared
      BY <2>21, <3>1 DEF ReleaseRename, End, Present
    <3>3. Ended' = Ended \cup {o}
      BY <2>0, <3>2 DEF Ended
    <3>4. Resource!Leave(o)
      BY <3>1, <3>2, <3>3 DEF Resource!Leave, Mine
    <3>5. QED
      BY <3>4 DEF Resource!Next
  <2>22. ASSUME NEW o \in Owner, QuarantineWrite(o) PROVE Resource!Next \/ UNCHANGED Resource!resource
    <3>1. Mine(o) /\ seen[o].owner = o /\ seen[o] \in Record \ {NoRecord}
      BY <2>22 DEF QuarantineWrite, At, IInv, SeenInv, TypeInv, TypeOK,
        PointInv, Process
    <3>2. rec' = [seen[o] EXCEPT !.state = "quarantined"]
      BY <2>22 DEF QuarantineWrite
    <3>3. rec'.owner = o /\ rec'.state # "active" /\ rec' # NoRecord
      BY <3>1, <3>2, RecordFacts DEF State, NoRecord, RecordOf, Record
    <3>4. UNCHANGED Ended
      BY <2>22, <2>0 DEF QuarantineWrite, At, End, Ended
    <3>5. Resource!Block(o)
      BY <3>1, <3>3, <3>4 DEF Resource!Block, Mine, Present
    <3>6. QED
      BY <3>5 DEF Resource!Next
  <2>23. ASSUME NEW o \in Owner, MarkWrite(o) PROVE Resource!Next \/ UNCHANGED Resource!resource
    <3>1. Mine(o) /\ seen[o].owner = o /\ seen[o] \in Record \ {NoRecord}
      BY <2>23 DEF MarkWrite, At, IInv, SeenInv, TypeInv, TypeOK, PointInv,
        Process
    <3>2. rec' = [seen[o] EXCEPT !.state = "quarantine-failed"]
      BY <2>23 DEF MarkWrite
    <3>3. rec'.owner = o /\ rec'.state # "active" /\ rec' # NoRecord
      BY <3>1, <3>2, RecordFacts DEF State, NoRecord, RecordOf, Record
    <3>4. UNCHANGED Ended
      BY <2>23, <2>0 DEF MarkWrite, At, End, Ended
    <3>5. Resource!Block(o)
      BY <3>1, <3>3, <3>4 DEF Resource!Block, Mine, Present
    <3>6. QED
      BY <3>5 DEF Resource!Next
  <2>24. ASSUME NEW c \in Operator, ClearRename(c) PROVE Resource!Next \/ UNCHANGED Resource!resource
    <3>1. Present /\ rec.owner = seen[c].owner /\ rec.owner \in Owner
      BY <2>24, <2>0, RecordFacts DEF ClearRename, At, IInv, ClearInv, Present
    <3>2. ~Present' /\ cleared' = cleared \cup {rec.owner} /\ UNCHANGED outcome
      BY <2>24, <3>1 DEF ClearRename, Present
    <3>3. Ended' = Ended \cup {rec.owner}
      BY <3>2 DEF Ended
    <3>4. Resource!Clear(rec.owner)
      BY <3>1, <3>2, <3>3 DEF Resource!Clear
    <3>5. QED
      BY <3>1, <3>4 DEF Resource!Next
  <2>25. ASSUME Expire PROVE Resource!Next \/ UNCHANGED Resource!resource
    <3>1. rec \in Record \ {NoRecord} /\ rec' = [rec EXCEPT !.expired = TRUE]
      BY <2>25, <2>0 DEF Expire, Present
    <3>2. rec'.owner = rec.owner /\ rec'.state = rec.state /\ rec' # NoRecord
      BY <3>1, ExpiryFacts DEF NoRecord, RecordOf
    <3>3. UNCHANGED <<holderOf, blockedOf>>
      BY <3>1, <3>2 DEF holderOf, blockedOf, Present
    <3>4. QED
      BY <2>25, <3>3, Stutter DEF Expire
  <2>26. CASE UNCHANGED vars
    BY <2>26, Stutter DEF vars, holderOf, blockedOf, Present
  <2>27. QED
    BY <2>1, <2>2, <2>3, <2>4, <2>5, <2>6, <2>7, <2>8, <2>9, <2>10, <2>11,
      <2>12, <2>13, <2>14, <2>15, <2>16, <2>17, <2>18, <2>19, <2>20, <2>21,
      <2>22, <2>23, <2>24, <2>25, <2>26 DEF Next, OwnerStep, LeaseStep,
      OperatorStep
<1>3. QED
  BY <1>1, <1>2, TypeInvariant, LockInvariant, PTL DEF Spec, ResourceSpec,
    Resource!Spec
=============================================================================
