-------------------------- MODULE OperationProofs --------------------------
(***************************************************************************)
(* Theorems about Operation: for any operations, approvals, kinds of       *)
(* capability and deaths, the lock covers the processes that were          *)
(* registered, other processes run without it only while they are being    *)
(* stopped or when they missed the abort, an approval given back is        *)
(* unused, and a reported success is clean.                                *)
(***************************************************************************)
EXTENDS Operation, TLAPS

\* The points past the race, past the cleanup and past the settlement.
AfterRun == {"clean", "stopping", "settle", "unlock", "done"}
AfterClean == {"settle", "unlock", "done"}
AfterSettle == {"unlock", "done"}

Held(o) == o \in holder \cup cleared

\* From the acquisition to the release the lock is held, or was cleared.
HeldUntilUnlock ==
  \A o \in Op :
    /\ pc[o] = "claim" => Held(o)
    /\ pc[o] \in {"run", "clean", "stopping", "settle", "unlock"} /\ cap[o] # "off"
         => Held(o)

\* A capability goes through its points in order, and without a process before
\* it is live.
CapabilityOrder ==
  \A o \in Op :
    /\ pc[o] \in {"idle", "acquire", "claim"} => cap[o] = "off"
    /\ pc[o] = "run" => cap[o] # "off"
    /\ cap[o] \in {"off", "begun", "setup"} => proc[o] = "none"
    /\ cap[o] = "ok" /\ kind[o] # "registered" => proc[o] = "exited"
    /\ cap[o] \in {"ok", "error"} => kind[o] = "registered" \/ proc[o] # "running"

\* Only an action misses the abort, and of the others nothing runs on after it.
\* An operation stops waiting only when aborted, or when there is nothing to
\* wait for.
AbortFacts ==
  \A o \in Op :
    /\ o \in deaf => kind[o] = "action"
    /\ o \in aborted \ deaf => proc[o] # "running"
    /\ pc[o] \in AfterRun => o \in aborted \/ cap[o] \in {"off", "ok", "error"}

\* The cleanup has dealt with a registered process: it is over, or unsafe.
CleanupFacts ==
  \A o \in Op :
    /\ pc[o] \in AfterClean /\ kind[o] = "registered" /\ OnDevice(o) => o \in unsafe
    /\ pc[o] = "done" /\ kind[o] = "registered" /\ OnDevice(o) => Held(o)

\* What a success and a settlement say of the capability.
SettlementFacts ==
  \A o \in Op :
    /\ o \in success => cap[o] = "ok" /\ pc[o] \in AfterRun
    /\ settled[o] # "none" => pc[o] \in AfterSettle
    /\ settled[o] = "released" => o \notin marked \/ o \in deaf
    /\ pc[o] \in AfterSettle /\ o \in success \ unclean /\ o \in Dangerous
         => settled[o] = "consumed"
    /\ pc[o] = "done" /\ o \in success \ unclean => o \notin holder

Inv ==
  /\ HeldUntilUnlock
  /\ CapabilityOrder
  /\ AbortFacts
  /\ CleanupFacts
  /\ SettlementFacts
IInv == TypeOK /\ Inv

-----------------------------------------------------------------------------

\* Every variable has its type, and whoever has the lock has passed acquire.
THEOREM TypeInvariant == Spec => []TypeOK
<1> USE DEF At, Goto, Becomes, Point, Capability, ProcessState
<1>1. Init => TypeOK
  <2> SUFFICES ASSUME Init PROVE TypeOK
    OBVIOUS
  <2>1. kind \in [Op -> Kind]
    BY StartAssumption DEF Init
  <2>2. /\ holder \subseteq Op /\ blocked \in BOOLEAN /\ ended \subseteq Op
        /\ \A o \in holder : pc[o] \notin {"idle", "acquire"}
    BY DEF Init, Lock!Init
  <2>3. /\ status \in [Id -> {"approved", "claimed", "consumed"}]
        /\ claimant \in [Id -> Op \cup {None}] /\ over \subseteq Op
    BY DEF Init
  <2>4. /\ pc \in [Op -> Point]
        /\ cap \in [Op -> Capability]
        /\ proc \in [Op -> ProcessState]
        /\ settled \in [Op -> {"none", "consumed", "released", "failed"}]
    BY DEF Init
  <2>5. /\ aborted \subseteq Op /\ deaf \subseteq aborted /\ marked \subseteq Op
        /\ success \subseteq Op /\ unsafe \subseteq unclean /\ unclean \subseteq Op
        /\ alive \subseteq Op /\ cleared \subseteq Op
    BY DEF Init
  <2>6. QED
    BY <2>1, <2>2, <2>3, <2>4, <2>5 DEF TypeOK
<1>2. TypeOK /\ [Next]_vars => TypeOK'
  <2> SUFFICES ASSUME TypeOK, [Next]_vars PROVE TypeOK'
    OBVIOUS
  <2> USE DangerousAssumption DEF TypeOK, inner, results, resource, life
  <2>1. ASSUME NEW o \in Op, Begin(o) PROVE TypeOK'
    BY <2>1 DEF Begin
  <2>2. ASSUME NEW o \in Op, Acquire(o) PROVE TypeOK'
    BY <2>2 DEF Acquire, Execute, Lock!Take
  <2>3. ASSUME NEW o \in Op, Claim(o) PROVE TypeOK'
    BY <2>3 DEF Claim, Execute, Life!Claim, Life!Move
  <2>4. ASSUME NEW o \in Op, RaceEnds(o) PROVE TypeOK'
    BY <2>4 DEF RaceEnds
  <2>5. ASSUME NEW o \in Op, Clean(o) PROVE TypeOK'
    BY <2>5 DEF Clean
  <2>6. ASSUME NEW o \in Op, Cleaned(o) PROVE TypeOK'
    BY <2>6 DEF Cleaned
  <2>7. ASSUME NEW o \in Op, Settle(o) PROVE TypeOK'
    BY <2>7 DEF Settle, Uses, IsClaim, HasClaim, Life!Consume, Life!GiveBack, Life!Move
  <2>8. ASSUME NEW o \in Op, Unlock(o) PROVE TypeOK'
    BY <2>8 DEF Unlock, HasLock, Lock!Leave, Lock!Block
  <2>9. ASSUME NEW o \in Op, Abort(o) PROVE TypeOK'
    BY <2>9 DEF Abort
  <2>10. ASSUME NEW o \in Op, Listen(o) PROVE TypeOK'
    BY <2>10 DEF Listen
  <2>11. ASSUME NEW o \in Op, Launch(o) PROVE TypeOK'
    BY <2>11 DEF Launch, Marks
  <2>12. ASSUME NEW o \in Op, Return(o) PROVE TypeOK'
    BY <2>12 DEF Return
  <2>13. ASSUME NEW o \in Op, Run(o) PROVE TypeOK'
    BY <2>13 DEF Run, Change
  <2>14. ASSUME NEW o \in Op, Clear(o) PROVE TypeOK'
    BY <2>14 DEF Clear, Lock!Clear
  <2>15. ASSUME NEW o \in Op, Die(o) PROVE TypeOK'
    BY <2>15 DEF Die
  <2>16. CASE UNCHANGED vars
    BY <2>16 DEF vars
  <2>17. QED
    BY <2>1, <2>2, <2>3, <2>4, <2>5, <2>6, <2>7, <2>8, <2>9, <2>10, <2>11, <2>12, <2>13,
       <2>14, <2>15, <2>16 DEF Next, OpStep
<1>3. QED
  BY <1>1, <1>2, PTL DEF Spec

-----------------------------------------------------------------------------

\* The invariant is preserved by every step.
LEMMA InvStep ==
  ASSUME IInv, TypeOK', [Next]_vars
  PROVE  Inv'
<1>0. TypeOK /\ HeldUntilUnlock /\ CapabilityOrder /\ AbortFacts /\ CleanupFacts
      /\ SettlementFacts
  BY DEF IInv, Inv
<1>1. ASSUME NEW p \in Op, Begin(p) PROVE Inv'
  BY <1>0, <1>1 DEF Begin, At, Goto, inner, results, resource, Held, OnDevice, AfterRun,
         AfterClean, AfterSettle, HeldUntilUnlock, CapabilityOrder, AbortFacts,
         CleanupFacts, SettlementFacts, Inv
<1>2. ASSUME NEW p \in Op, Acquire(p) PROVE Inv'
  <2>1. HeldUntilUnlock'
    BY <1>0, <1>2 DEF Acquire, Execute, Lock!Take, At, Goto, Becomes, resource, Held,
           TypeOK, HeldUntilUnlock, CapabilityOrder
  <2>2. CapabilityOrder'
    BY <1>0, <1>2 DEF Acquire, Execute, At, Goto, Becomes, TypeOK, CapabilityOrder
  <2>3. AbortFacts'
    BY <1>0, <1>2 DEF Acquire, Execute, At, Goto, Becomes, AfterRun, TypeOK,
           CapabilityOrder, AbortFacts
  <2>4. CleanupFacts'
    BY <1>0, <1>2 DEF Acquire, Execute, Lock!Take, Goto, results, resource, Held,
           OnDevice, AfterClean, TypeOK, CleanupFacts
  <2>5. SettlementFacts'
    BY <1>0, <1>2 DEF Acquire, Execute, Lock!Take, At, Goto, Becomes, results, resource,
           AfterRun, AfterSettle, TypeOK, SettlementFacts
  <2>6. QED
    BY <2>1, <2>2, <2>3, <2>4, <2>5 DEF Inv
<1>3. ASSUME NEW p \in Op, Claim(p) PROVE Inv'
  <2>1. HeldUntilUnlock'
    BY <1>0, <1>3 DEF Claim, Execute, At, Goto, Becomes, resource, Held, TypeOK,
           HeldUntilUnlock
  <2>2. CapabilityOrder'
    BY <1>0, <1>3 DEF Claim, Execute, At, Goto, Becomes, TypeOK, CapabilityOrder
  <2>3. AbortFacts'
    BY <1>0, <1>3 DEF Claim, Execute, At, Goto, Becomes, AfterRun, TypeOK,
           CapabilityOrder, AbortFacts
  <2>4. CleanupFacts'
    BY <1>0, <1>3 DEF Claim, Execute, Goto, results, resource, Held, OnDevice,
           AfterClean, TypeOK, CleanupFacts
  <2>5. SettlementFacts'
    BY <1>0, <1>3 DEF Claim, Execute, At, Goto, Becomes, results, resource, AfterRun,
           AfterSettle, TypeOK, SettlementFacts
  <2>6. QED
    BY <2>1, <2>2, <2>3, <2>4, <2>5 DEF Inv
<1>4. ASSUME NEW p \in Op, RaceEnds(p) PROVE Inv'
  BY <1>0, <1>4 DEF RaceEnds, At, Goto, inner, resource, Held, OnDevice, AfterRun,
         AfterClean, AfterSettle, TypeOK, HeldUntilUnlock, CapabilityOrder, AbortFacts,
         CleanupFacts, SettlementFacts, Inv
<1>5. ASSUME NEW p \in Op, Clean(p) PROVE Inv'
  BY <1>0, <1>5 DEF Clean, At, Goto, Becomes, results, resource, Held, OnDevice,
         AfterRun, AfterClean, AfterSettle, TypeOK, HeldUntilUnlock, CapabilityOrder,
         AbortFacts, CleanupFacts, SettlementFacts, Inv
<1>6. ASSUME NEW p \in Op, Cleaned(p) PROVE Inv'
  BY <1>0, <1>6 DEF Cleaned, At, Goto, inner, resource, Held, OnDevice, AfterRun,
         AfterSettle, HeldUntilUnlock, CapabilityOrder, AbortFacts, CleanupFacts,
         SettlementFacts, Inv
<1>7. ASSUME NEW p \in Op, Settle(p) PROVE Inv'
  <2>1. HeldUntilUnlock'
    BY <1>0, <1>7 DEF Settle, At, Goto, inner, resource, Held, HeldUntilUnlock
  <2>2. CapabilityOrder'
    BY <1>0, <1>7 DEF Settle, Goto, inner, CapabilityOrder
  <2>3. AbortFacts'
    BY <1>0, <1>7 DEF Settle, At, Goto, inner, AfterRun, AbortFacts
  <2>4. CleanupFacts'
    BY <1>0, <1>7 DEF Settle, At, Goto, inner, resource, Held, OnDevice, AfterClean,
           CleanupFacts
  <2>5. SettlementFacts'
    BY <1>0, <1>7 DEF Settle, Uses, HasClaim, Goto, Becomes, inner, resource, AfterRun,
           AfterSettle, TypeOK, SettlementFacts
  <2>6. QED
    BY <2>1, <2>2, <2>3, <2>4, <2>5 DEF Inv
<1>8. ASSUME NEW p \in Op, Unlock(p) PROVE Inv'
  <2>1. HeldUntilUnlock'
    BY <1>0, <1>8 DEF Unlock, Lock!Leave, Lock!Block, Goto, inner, resource, Held,
           TypeOK, HeldUntilUnlock
  <2>2. CapabilityOrder'
    BY <1>0, <1>8 DEF Unlock, Goto, inner, CapabilityOrder
  <2>3. AbortFacts'
    BY <1>0, <1>8 DEF Unlock, At, Goto, inner, AfterRun, AbortFacts
  <2>4. CleanupFacts'
    BY <1>0, <1>8 DEF Unlock, Lock!Leave, Lock!Block, At, Goto, inner, resource, Held,
           OnDevice, AfterClean, HeldUntilUnlock, CapabilityOrder, CleanupFacts
  <2>5. SettlementFacts'
    BY <1>0, <1>8 DEF Unlock, HasLock, Lock!Leave, Lock!Block, At, Goto, inner,
           resource, AfterRun, AfterSettle, TypeOK, SettlementFacts
  <2>6. QED
    BY <2>1, <2>2, <2>3, <2>4, <2>5 DEF Inv
<1>9. ASSUME NEW p \in Op, Abort(p) PROVE Inv'
  BY <1>0, <1>9 DEF Abort, Becomes, results, resource, Held, OnDevice, TypeOK,
         HeldUntilUnlock, CapabilityOrder, AbortFacts, CleanupFacts, SettlementFacts, Inv
<1>10. ASSUME NEW p \in Op, Listen(p) PROVE Inv'
  BY <1>0, <1>10 DEF Listen, Becomes, results, resource, Held, OnDevice,
         HeldUntilUnlock, CapabilityOrder, AbortFacts, CleanupFacts, SettlementFacts, Inv
<1>11. ASSUME NEW p \in Op, Launch(p) PROVE Inv'
  <2>1. HeldUntilUnlock'
    BY <1>0, <1>11 DEF Launch, Becomes, resource, Held, HeldUntilUnlock
  <2>2. CapabilityOrder'
    BY <1>0, <1>11 DEF Launch, Becomes, TypeOK, CapabilityOrder
  <2>3. AbortFacts'
    BY <1>0, <1>11 DEF Launch, Becomes, AbortFacts
  <2>4. CleanupFacts'
    BY <1>0, <1>11 DEF Launch, Becomes, results, resource, Held, OnDevice, AfterRun,
           AfterClean, AbortFacts, CleanupFacts
  <2>5. SettlementFacts'
    BY <1>0, <1>11 DEF Launch, Marks, Becomes, results, resource, AfterRun, AfterSettle,
           AbortFacts, SettlementFacts
  <2>6. QED
    BY <2>1, <2>2, <2>3, <2>4, <2>5 DEF Inv
<1>12. ASSUME NEW p \in Op, Return(p) PROVE Inv'
  BY <1>0, <1>12 DEF Return, Becomes, results, resource, Held, OnDevice,
         HeldUntilUnlock, CapabilityOrder, AbortFacts, CleanupFacts, SettlementFacts, Inv
<1>13. ASSUME NEW p \in Op, Run(p) PROVE Inv'
  BY <1>0, <1>13 DEF Run, Change, Becomes, results, resource, Held, OnDevice, TypeOK,
         HeldUntilUnlock, CapabilityOrder, AbortFacts, CleanupFacts, SettlementFacts, Inv
<1>14. ASSUME NEW p \in Op, Clear(p) PROVE Inv'
  BY <1>0, <1>14 DEF Clear, Lock!Clear, inner, results, Held, OnDevice, HeldUntilUnlock,
         CapabilityOrder, AbortFacts, CleanupFacts, SettlementFacts, Inv
<1>15. ASSUME NEW p \in Op, Die(p) PROVE Inv'
  BY <1>0, <1>15 DEF Die, inner, results, resource, Held, OnDevice, HeldUntilUnlock,
         CapabilityOrder, AbortFacts, CleanupFacts, SettlementFacts, Inv
<1>16. CASE UNCHANGED vars
  BY <1>0, <1>16 DEF vars, inner, results, resource, life, Held, OnDevice, Inv,
     HeldUntilUnlock, CapabilityOrder, AbortFacts, CleanupFacts, SettlementFacts
<1>17. QED
  BY <1>1, <1>2, <1>3, <1>4, <1>5, <1>6, <1>7, <1>8, <1>9, <1>10, <1>11, <1>12, <1>13,
     <1>14, <1>15, <1>16 DEF Next, OpStep

\* The inductive invariant.
THEOREM OperationInvariant == Spec => []IInv
<1>1. Init => Inv
  BY DEF Init, Lock!Init, Inv, HeldUntilUnlock, CapabilityOrder, AbortFacts,
         CleanupFacts, SettlementFacts, AfterRun, AfterClean, AfterSettle, OnDevice
<1>2. TypeOK /\ TypeOK' /\ Inv /\ [Next]_vars => Inv'
  BY InvStep DEF IInv
<1>3. QED
  BY <1>1, <1>2, TypeInvariant, PTL DEF Spec, IInv

\* Whatever fails and whenever the operation is aborted, a registered process that
\* may have the device keeps it locked.
THEOREM RegisteredCovered == Spec => []LockCoversRegistered
<1>1. IInv => LockCoversRegistered
  BY DEF IInv, Inv, TypeOK, HeldUntilUnlock, CapabilityOrder, CleanupFacts, Point,
         LockCoversRegistered, Covered, OnDevice, Held
<1>2. QED
  BY <1>1, OperationInvariant, PTL

\* A process runs without the lock only when its action missed the abort.
THEOREM RunningCovered == Spec => []RunningUnderLock
<1>1. IInv => RunningUnderLock
  BY DEF IInv, Inv, TypeOK, HeldUntilUnlock, CapabilityOrder, AbortFacts,
         CleanupFacts, Point, RunningUnderLock, OnDevice, Held, AfterRun
<1>2. QED
  BY <1>1, OperationInvariant, PTL

\* An approval that was given back is unused, unless the action missed the abort.
THEOREM GivenBackUnused == Spec => []GivenBackUnlessDeaf
<1>1. IInv => GivenBackUnlessDeaf
  BY DEF IInv, Inv, SettlementFacts, GivenBackUnlessDeaf
<1>2. QED
  BY <1>1, OperationInvariant, PTL

\* A success is reported only when everything was put away.
THEOREM CleanSuccess == Spec => []SuccessMeansClean
<1>1. IInv => SuccessMeansClean
  BY DEF IInv, Inv, TypeOK, CapabilityOrder, CleanupFacts, SettlementFacts,
         SuccessMeansClean, Reported, OnDevice, AfterClean, AfterSettle
<1>2. QED
  BY <1>1, OperationInvariant, PTL
=============================================================================
