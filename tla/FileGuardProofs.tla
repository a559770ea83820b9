-------------------------- MODULE FileGuardProofs --------------------------
(***************************************************************************)
(* Type correctness and mutual exclusion of FileGuard, for any processes,  *)
(* hosts, bounds and points of death.                                      *)
(***************************************************************************)
EXTENDS FileGuard, TLAPS

\* A process that is past Begin has drawn a token.
Attempted == \A p \in Proc : pc[p] # "idle" => attempt[p] \in 1 .. MaxAttempts

\* The recovery file is that of the one process at a RecoveryPoint.
RecoveryOwned ==
  /\ \A p \in Proc :
       /\ pc[p] = "recWrite" => recovery = Empty(Me(p))
       /\ pc[p] \in RecoveryPoint \ {"recWrite"} => recovery = Written(Me(p))
  /\ recovery # NoFile => \E p \in Proc : pc[p] \in RecoveryPoint

\* No process takes a recovery file for stale, and no unlink has failed.
RecoveryNeverStale ==
  /\ \A p \in Proc : pc[p] \notin {"recStale", "recDelete", "failed"}
  /\ thrown = {}

\* A live holder's record is in the guard file.
GuardOwned ==
  \A p \in alive :
    /\ pc[p] = "write" => guard = Empty(Me(p))
    /\ pc[p] \in {"critical", "relRead", "relUnlink"} => guard = Written(Me(p))

\* A recoverer deletes the record of a dead process, and no other.
DeletesDead ==
  \A p \in Proc :
    /\ pc[p] \in {"delRead", "delUnlink"} =>
         /\ expected[p].state = "written"
         /\ \A q \in alive : expected[p].token[1] # q
    /\ pc[p] = "delUnlink" => guard = expected[p]

ExpiredDead == \A t \in expired : t[1] \notin alive

GuardInv ==
  /\ RecoveryOwned
  /\ RecoveryNeverStale
  /\ GuardOwned
  /\ DeletesDead
  /\ ExpiredDead

IInv == TypeOK /\ Attempted /\ (RecoverersSurvive => GuardInv)

-----------------------------------------------------------------------------

\* What a file says of itself.
LEMMA FileFacts ==
  /\ NoFile \in File
  /\ NoFile.state = "absent"
  /\ \A t \in Token : Empty(t) \in File /\ Written(t) \in File
  /\ \A t : /\ Empty(t).state = "empty" /\ Empty(t).token = t
            /\ Written(t).state = "written" /\ Written(t).token = t
  /\ \A f \in File : f = NoFile \/ f.token \in Token
  /\ \A f \in File : f.state = "written" => f = Written(f.token)
<1>1. /\ NoFile \in File
      /\ NoFile.state = "absent"
      /\ \A t \in Token : Empty(t) \in File /\ Written(t) \in File
  BY DEF NoFile, Empty, Written, File
<1>2. \A t : /\ Empty(t).state = "empty" /\ Empty(t).token = t
             /\ Written(t).state = "written" /\ Written(t).token = t
  BY DEF Empty, Written
<1>3. \A f \in File : f = NoFile \/ f.token \in Token
  BY DEF File
<1>4. \A f \in File : f.state = "written" => f = Written(f.token)
  BY <1>1 DEF File, Written
<1>5. QED
  BY <1>1, <1>2, <1>3, <1>4

\* A token names its process.
LEMMA TokenFacts ==
  /\ \A t \in Token : t[1] \in Proc /\ t[2] \in 1 .. MaxAttempts
  /\ \A p : Me(p)[1] = p
  /\ \A p \in Proc : attempt[p] \in 1 .. MaxAttempts => Me(p) \in Token
  /\ \A p : Empty(Me(p)).token[1] = p /\ Written(Me(p)).token[1] = p
  BY DEF Token, Me, Empty, Written

\* Goto moves one process.
LEMMA GotoFacts ==
  ASSUME pc \in [Proc -> Point], NEW p \in Proc, NEW l \in Point, Goto(p, l)
  PROVE  /\ pc' \in [Proc -> Point]
         /\ pc'[p] = l
         /\ \A q \in Proc \ {p} : pc'[q] = pc[q]
  BY DEF Goto

\* Every variable keeps its type, and a process past Begin has its token.
THEOREM TypeInvariant == Spec => [](TypeOK /\ Attempted)
<1>1. Init => TypeOK /\ Attempted
  <2> SUFFICES ASSUME Init PROVE TypeOK /\ Attempted
    OBVIOUS
  <2>1. /\ guard \in File
        /\ recovery \in File
        /\ expected \in [Proc -> File]
        /\ stale \in [Proc -> File]
    BY FileFacts DEF Init
  <2>2. pc \in [Proc -> Point] /\ attempt \in [Proc -> 0 .. MaxAttempts]
    BY MaxAttemptsAssumption DEF Init, Point
  <2>3. /\ thrown \subseteq Proc
        /\ alive \subseteq Proc
        /\ expired \subseteq Token
        /\ overrun \in BOOLEAN
    BY DEF Init
  <2>4. Attempted
    BY DEF Init, Attempted
  <2>5. QED
    BY <2>1, <2>2, <2>3, <2>4 DEF TypeOK
<1>2. TypeOK /\ Attempted /\ [Next]_vars => (TypeOK /\ Attempted)'
  <2> SUFFICES ASSUME TypeOK, Attempted, [Next]_vars
               PROVE  TypeOK' /\ Attempted'
    OBVIOUS
  <2> USE MaxAttemptsAssumption, FileFacts, TokenFacts DEF TypeOK, Attempted
  <2>1. ASSUME NEW p \in Proc, Begin(p) PROVE TypeOK' /\ Attempted'
    BY <2>1 DEF Begin, At, Goto, Point
  <2>2. ASSUME NEW p \in Proc, Create(p) PROVE TypeOK' /\ Attempted'
    <3>1. attempt[p] \in 1 .. MaxAttempts
      BY <2>2 DEF Create, At
    <3>2. Empty(Me(p)) \in File
      BY <3>1
    <3>3. guard' \in File
      BY <2>2, <3>2 DEF Create
    <3>4. QED
      BY <2>2, <3>1, <3>3 DEF Create, At, Goto, Point
  <2>3. ASSUME NEW p \in Proc, Write(p) PROVE TypeOK' /\ Attempted'
    BY <2>3 DEF Write, At, Goto, Point
  <2>4. ASSUME NEW p \in Proc, Busy(p) PROVE TypeOK' /\ Attempted'
    <3>1. attempt[p] \in 1 .. MaxAttempts
      BY <2>4 DEF Busy, At
    <3>2. expected' \in [Proc -> File]
      BY <2>4 DEF Busy
    <3>3. PICK l \in {"recCreate", "create", "idle"} : Goto(p, l)
      BY <2>4 DEF Busy
    <3>4. /\ pc' \in [Proc -> Point]
          /\ \A q \in Proc \ {p} : pc'[q] = pc[q]
      BY <3>3, GotoFacts DEF Point
    <3>5. QED
      BY <2>4, <3>1, <3>2, <3>4 DEF Busy
  <2>5. ASSUME NEW p \in Proc, RecCreate(p) PROVE TypeOK' /\ Attempted'
    <3>1. attempt[p] \in 1 .. MaxAttempts
      BY <2>5 DEF RecCreate, At
    <3>2. Empty(Me(p)) \in File
      BY <3>1
    <3>3. recovery' \in File
      BY <2>5, <3>2 DEF RecCreate
    <3>4. QED
      BY <2>5, <3>1, <3>3 DEF RecCreate, At, Goto, Point
  <2>6. ASSUME NEW p \in Proc, RecWrite(p) PROVE TypeOK' /\ Attempted'
    BY <2>6 DEF RecWrite, At, Goto, Point
  <2>7. ASSUME NEW p \in Proc, RecBusy(p) PROVE TypeOK' /\ Attempted'
    <3>1. attempt[p] \in 1 .. MaxAttempts
      BY <2>7 DEF RecBusy, At
    <3>2. stale' \in [Proc -> File]
      BY <2>7 DEF RecBusy
    <3>3. PICK l \in {"recStale", "create", "idle"} : Goto(p, l)
      BY <2>7 DEF RecBusy
    <3>4. /\ pc' \in [Proc -> Point]
          /\ \A q \in Proc \ {p} : pc'[q] = pc[q]
      BY <3>3, GotoFacts DEF Point
    <3>5. QED
      BY <2>7, <3>1, <3>2, <3>4 DEF RecBusy
  <2>8. ASSUME NEW p \in Proc, RecStale(p) PROVE TypeOK' /\ Attempted'
    BY <2>8 DEF RecStale, At, Goto, Point
  <2>9. ASSUME NEW p \in Proc, RecDelete(p) PROVE TypeOK' /\ Attempted'
    BY <2>9 DEF RecDelete, At, Goto, Point
  <2>10. ASSUME NEW p \in Proc, Check(p) PROVE TypeOK' /\ Attempted'
    BY <2>10 DEF Check, At, Goto, Point
  <2>11. ASSUME NEW p \in Proc, DelRead(p) PROVE TypeOK' /\ Attempted'
    BY <2>11 DEF DelRead, At, Goto, Point
  <2>12. ASSUME NEW p \in Proc, DelUnlink(p) PROVE TypeOK' /\ Attempted'
    BY <2>12 DEF DelUnlink, At, Goto, Point
  <2>13. ASSUME NEW p \in Proc, RecRelease(p) PROVE TypeOK' /\ Attempted'
    BY <2>13 DEF RecRelease, AfterRecovery, At, Goto, Point
  <2>14. ASSUME NEW p \in Proc, RecUnlink(p) PROVE TypeOK' /\ Attempted'
    BY <2>14 DEF RecUnlink, AfterRecovery, At, Goto, Point
  <2>15. ASSUME NEW p \in Proc, Leave(p) PROVE TypeOK' /\ Attempted'
    BY <2>15 DEF Leave, At, Goto, Point
  <2>16. ASSUME NEW p \in Proc, RelRead(p) PROVE TypeOK' /\ Attempted'
    BY <2>16 DEF RelRead, At, Goto, Point
  <2>17. ASSUME NEW p \in Proc, RelUnlink(p) PROVE TypeOK' /\ Attempted'
    BY <2>17 DEF RelUnlink, At, Goto, Point
  <2>18. ASSUME NEW p \in Proc, Crash(p) PROVE TypeOK' /\ Attempted'
    BY <2>18 DEF Crash
  <2>19. ASSUME NEW t \in Token, Expire(t) PROVE TypeOK' /\ Attempted'
    BY <2>19 DEF Expire
  <2>20. CASE UNCHANGED vars
    BY <2>20 DEF vars
  <2>21. QED
    BY <2>1, <2>2, <2>3, <2>4, <2>5, <2>6, <2>7, <2>8, <2>9, <2>10, <2>11,
       <2>12, <2>13, <2>14, <2>15, <2>16, <2>17, <2>18, <2>19, <2>20
       DEF Next, Step
<1>3. QED
  BY <1>1, <1>2, PTL DEF Spec

-----------------------------------------------------------------------------

\* Dying and running late are for ever.
LEMMA SurvivalIsMonotone ==
  ASSUME TypeOK, [Next]_vars, RecoverersSurvive'
  PROVE  RecoverersSurvive
<1>1. ASSUME NEW p \in Proc, Begin(p) \/ Step(p), NEW q \in Proc \ alive
      PROVE  alive' = alive /\ pc'[q] = pc[q]
  BY <1>1
  DEF TypeOK, At, Goto, Begin, Step, Create, Write, Busy, RecCreate, RecWrite,
       RecBusy, RecStale, RecDelete, Check, DelRead, DelUnlink, RecRelease,
       RecUnlink, Leave, RelRead, RelUnlink
<1>2. ASSUME NEW p \in Proc, Begin(p) \/ Step(p)
      PROVE  overrun' = overrun
  BY <1>2
  DEF Begin, Step, Create, Write, Busy, RecCreate, RecWrite,
       RecBusy, RecStale, RecDelete, Check, DelRead, DelUnlink, RecRelease,
       RecUnlink, Leave, RelRead, RelUnlink
<1>3. QED
  BY <1>1, <1>2 DEF Next, vars, RecoverersSurvive, Crash, Expire, TypeOK

\* While recoverers survive, what looks stale is the record of a dead process.
LEMMA StaleIsDead ==
  ASSUME ExpiredDead, NEW p \in Proc, NEW f \in File, IsStale(p, f)
  PROVE  /\ f.state = "written"
         /\ f.token[1] \notin alive
  BY DEF IsStale, ExpiredDead

\* A step between states in which recoverers survive preserves the invariant.
LEMMA GuardStep ==
  ASSUME TypeOK, Attempted, RecoverersSurvive, GuardInv, [Next]_vars,
         TypeOK', RecoverersSurvive'
  PROVE  GuardInv'
<1>1. ASSUME NEW p \in Proc, Begin(p) PROVE GuardInv'
  <2>1. /\ p \in alive /\ pc[p] \in {"idle", "failed"}
        /\ pc'[p] = "create"
        /\ \A q \in Proc \ {p} : pc'[q] = pc[q] /\ Me(q)' = Me(q)
        /\ thrown' \subseteq thrown
        /\ UNCHANGED <<guard, recovery, expected, alive, expired>>
    BY <1>1 DEF Begin, At, Goto, Me, TypeOK
  <2>2. QED
    BY <2>1, FileFacts, TokenFacts
       DEF TypeOK, RecoverersSurvive, RecoveryPoint, GuardInv, RecoveryOwned,
           RecoveryNeverStale, GuardOwned, DeletesDead, ExpiredDead
<1>2. ASSUME NEW p \in Proc, Create(p) PROVE GuardInv'
  <2>1. CASE guard = NoFile
    <3>1. /\ p \in alive /\ pc[p] = "create"
          /\ pc'[p] = "write"
          /\ \A q \in Proc \ {p} : pc'[q] = pc[q]
          /\ \A q \in Proc : Me(q)' = Me(q)
          /\ guard' = Empty(Me(p))
          /\ UNCHANGED <<recovery, attempt, expected, thrown, alive, expired>>
      BY <1>2, <2>1 DEF Create, At, Goto, Me, TypeOK
    <3>2. QED
      BY <2>1, <3>1, FileFacts, TokenFacts
         DEF TypeOK, RecoverersSurvive, RecoveryPoint, GuardInv,
             RecoveryOwned, RecoveryNeverStale, GuardOwned, DeletesDead,
             ExpiredDead
  <2>2. CASE guard # NoFile
    <3>1. /\ p \in alive /\ pc[p] = "create"
          /\ pc'[p] = "busy"
          /\ \A q \in Proc \ {p} : pc'[q] = pc[q]
          /\ \A q \in Proc : Me(q)' = Me(q)
          /\ UNCHANGED <<guard, recovery, attempt, expected, thrown, alive,
                         expired>>
      BY <1>2, <2>2 DEF Create, At, Goto, Me, TypeOK
    <3>2. QED
      BY <2>2, <3>1, FileFacts, TokenFacts
         DEF TypeOK, RecoverersSurvive, RecoveryPoint, GuardInv,
             RecoveryOwned, RecoveryNeverStale, GuardOwned, DeletesDead,
             ExpiredDead
  <2>3. QED
    BY <2>1, <2>2
<1>3. ASSUME NEW p \in Proc, Write(p) PROVE GuardInv'
  <2>1. /\ p \in alive /\ pc[p] = "write"
        /\ pc'[p] = "critical"
        /\ \A q \in Proc \ {p} : pc'[q] = pc[q]
        /\ \A q \in Proc : Me(q)' = Me(q)
        /\ guard' = Written(Me(p))
        /\ UNCHANGED <<recovery, attempt, expected, thrown, alive, expired>>
    BY <1>3 DEF Write, At, Goto, Me, TypeOK, GuardInv, GuardOwned
  <2>2. QED
    BY <2>1, FileFacts, TokenFacts
       DEF TypeOK, RecoverersSurvive, RecoveryPoint, GuardInv, RecoveryOwned,
           RecoveryNeverStale, GuardOwned, DeletesDead, ExpiredDead
<1>4. ASSUME NEW p \in Proc, Busy(p) PROVE GuardInv'
  <2>1. CASE IsStale(p, guard)
    <3>1. /\ p \in alive /\ pc[p] = "busy"
          /\ pc'[p] = "recCreate"
          /\ \A q \in Proc \ {p} : pc'[q] = pc[q]
          /\ \A q \in Proc : Me(q)' = Me(q)
          /\ \A q \in Proc \ {p} : expected'[q] = expected[q]
          /\ UNCHANGED <<guard, recovery, attempt, thrown, alive, expired>>
      BY <1>4, <2>1 DEF Busy, At, Goto, Me, TypeOK
    <3>2. QED
      BY <2>1, <3>1, FileFacts, TokenFacts
         DEF TypeOK, RecoverersSurvive, RecoveryPoint, GuardInv,
             RecoveryOwned, RecoveryNeverStale, GuardOwned, DeletesDead,
             ExpiredDead
  <2>2. CASE ~IsStale(p, guard) /\ Goto(p, "create")
    <3>1. /\ p \in alive /\ pc[p] = "busy"
          /\ pc'[p] = "create"
          /\ \A q \in Proc \ {p} : pc'[q] = pc[q]
          /\ \A q \in Proc : Me(q)' = Me(q)
          /\ UNCHANGED <<guard, recovery, attempt, expected, thrown, alive,
                         expired>>
      BY <1>4, <2>2 DEF Busy, At, Goto, Me, TypeOK
    <3>2. QED
      BY <2>2, <3>1, FileFacts, TokenFacts
         DEF TypeOK, RecoverersSurvive, RecoveryPoint, GuardInv,
             RecoveryOwned, RecoveryNeverStale, GuardOwned, DeletesDead,
             ExpiredDead
  <2>3. CASE ~IsStale(p, guard) /\ Goto(p, "idle")
    <3>1. /\ p \in alive /\ pc[p] = "busy"
          /\ pc'[p] = "idle"
          /\ \A q \in Proc \ {p} : pc'[q] = pc[q]
          /\ \A q \in Proc : Me(q)' = Me(q)
          /\ UNCHANGED <<guard, recovery, attempt, expected, thrown, alive,
                         expired>>
      BY <1>4, <2>3 DEF Busy, At, Goto, Me, TypeOK
    <3>2. QED
      BY <2>3, <3>1, FileFacts, TokenFacts
         DEF TypeOK, RecoverersSurvive, RecoveryPoint, GuardInv,
             RecoveryOwned, RecoveryNeverStale, GuardOwned, DeletesDead,
             ExpiredDead
  <2>4. QED
    BY <1>4, <2>1, <2>2, <2>3 DEF Busy
<1>5. ASSUME NEW p \in Proc, RecCreate(p) PROVE GuardInv'
  <2>1. CASE recovery = NoFile
    <3>1. /\ p \in alive /\ pc[p] = "recCreate"
          /\ pc'[p] = "recWrite"
          /\ \A q \in Proc \ {p} : pc'[q] = pc[q]
          /\ \A q \in Proc : Me(q)' = Me(q)
          /\ recovery' = Empty(Me(p))
          /\ UNCHANGED <<guard, attempt, expected, thrown, alive, expired>>
      BY <1>5, <2>1 DEF RecCreate, At, Goto, Me, TypeOK
    <3>2. QED
      BY <2>1, <3>1, FileFacts, TokenFacts
         DEF TypeOK, RecoverersSurvive, RecoveryPoint, GuardInv,
             RecoveryOwned, RecoveryNeverStale, GuardOwned, DeletesDead,
             ExpiredDead
  <2>2. CASE recovery # NoFile
    <3>1. /\ p \in alive /\ pc[p] = "recCreate"
          /\ pc'[p] = "recBusy"
          /\ \A q \in Proc \ {p} : pc'[q] = pc[q]
          /\ \A q \in Proc : Me(q)' = Me(q)
          /\ UNCHANGED <<guard, recovery, attempt, expected, thrown, alive,
                         expired>>
      BY <1>5, <2>2 DEF RecCreate, At, Goto, Me, TypeOK
    <3>2. RecoveryOwned'
      BY <2>2, <3>1, FileFacts, TokenFacts
         DEF GuardInv, RecoveryOwned, RecoveryPoint
    <3>3. RecoveryNeverStale'
      BY <2>2, <3>1, FileFacts, TokenFacts DEF GuardInv, RecoveryNeverStale
    <3>4. GuardOwned'
      BY <2>2, <3>1, FileFacts, TokenFacts DEF GuardInv, GuardOwned, TypeOK
    <3>5. DeletesDead'
      BY <2>2, <3>1, FileFacts, TokenFacts
         DEF GuardInv, DeletesDead, GuardOwned, RecoveryOwned, RecoveryPoint,
             RecoverersSurvive, TypeOK
    <3>6. ExpiredDead'
      BY <2>2, <3>1, FileFacts, TokenFacts DEF GuardInv, ExpiredDead
    <3>7. QED
      BY <3>2, <3>3, <3>4, <3>5, <3>6 DEF GuardInv
  <2>3. QED
    BY <2>1, <2>2
<1>6. ASSUME NEW p \in Proc, RecWrite(p) PROVE GuardInv'
  <2>1. /\ p \in alive /\ pc[p] = "recWrite"
        /\ pc'[p] = "check"
        /\ \A q \in Proc \ {p} : pc'[q] = pc[q]
        /\ \A q \in Proc : Me(q)' = Me(q)
        /\ recovery' = Written(Me(p))
        /\ UNCHANGED <<guard, attempt, expected, thrown, alive, expired>>
    BY <1>6
       DEF RecWrite, At, Goto, Me, TypeOK, GuardInv, RecoveryOwned,
           RecoveryPoint
  <2>2. QED
    BY <2>1, FileFacts, TokenFacts
       DEF TypeOK, RecoverersSurvive, RecoveryPoint, GuardInv, RecoveryOwned,
           RecoveryNeverStale, GuardOwned, DeletesDead, ExpiredDead
<1>7. ASSUME NEW p \in Proc, RecBusy(p) PROVE GuardInv'
  <2>1. ~IsStale(p, recovery)
    <3> SUFFICES ASSUME IsStale(p, recovery) PROVE FALSE
      OBVIOUS
    <3>1. recovery # NoFile /\ recovery.token[1] \notin alive
      BY StaleIsDead, FileFacts DEF GuardInv, TypeOK
    <3>2. PICK q \in Proc : pc[q] \in RecoveryPoint
      BY <3>1 DEF GuardInv, RecoveryOwned
    <3>3. recovery.token[1] = q
      BY <3>2, FileFacts, TokenFacts DEF GuardInv, RecoveryOwned
    <3>4. QED
      BY <3>1, <3>2, <3>3 DEF RecoverersSurvive
  <2>2. PICK l \in {"create", "idle"} : Goto(p, l)
    BY <1>7, <2>1 DEF RecBusy
  <2>3. /\ p \in alive /\ pc[p] = "recBusy"
        /\ pc'[p] = l
        /\ \A q \in Proc \ {p} : pc'[q] = pc[q]
        /\ \A q \in Proc : Me(q)' = Me(q)
        /\ UNCHANGED <<guard, recovery, attempt, expected, thrown, alive,
                       expired>>
    BY <1>7, <2>1, <2>2 DEF RecBusy, At, Goto, Me, TypeOK
  <2>4. QED
    BY <2>2, <2>3, FileFacts, TokenFacts
       DEF TypeOK, RecoverersSurvive, RecoveryPoint, GuardInv, RecoveryOwned,
           RecoveryNeverStale, GuardOwned, DeletesDead, ExpiredDead
<1>8. ASSUME NEW p \in Proc, RecStale(p) PROVE GuardInv'
  BY <1>8 DEF RecStale, At, GuardInv, RecoveryNeverStale
<1>9. ASSUME NEW p \in Proc, RecDelete(p) PROVE GuardInv'
  BY <1>9 DEF RecDelete, At, GuardInv, RecoveryNeverStale
<1>10. ASSUME NEW p \in Proc, Check(p) PROVE GuardInv'
  <2>1. CASE guard = expected[p] /\ IsStale(p, guard)
    <3>1. /\ p \in alive /\ pc[p] = "check"
          /\ pc'[p] = "delRead"
          /\ \A q \in Proc \ {p} : pc'[q] = pc[q]
          /\ \A q \in Proc : Me(q)' = Me(q)
          /\ UNCHANGED <<guard, recovery, attempt, expected, thrown, alive,
                         expired>>
      BY <1>10, <2>1 DEF Check, At, Goto, Me, TypeOK
    <3>2. RecoveryOwned'
      BY <2>1, <3>1, FileFacts, TokenFacts
         DEF GuardInv, RecoveryOwned, RecoveryPoint
    <3>3. RecoveryNeverStale'
      BY <2>1, <3>1, FileFacts, TokenFacts DEF GuardInv, RecoveryNeverStale
    <3>4. GuardOwned'
      BY <2>1, <3>1, FileFacts, TokenFacts DEF GuardInv, GuardOwned, TypeOK
    <3>5. DeletesDead'
      BY <2>1, <3>1, FileFacts, TokenFacts, StaleIsDead
         DEF GuardInv, DeletesDead, GuardOwned, RecoveryOwned, RecoveryPoint,
             RecoverersSurvive, TypeOK
    <3>6. ExpiredDead'
      BY <2>1, <3>1, FileFacts, TokenFacts DEF GuardInv, ExpiredDead
    <3>7. QED
      BY <3>2, <3>3, <3>4, <3>5, <3>6 DEF GuardInv
  <2>2. CASE ~(guard = expected[p] /\ IsStale(p, guard))
    <3>1. /\ p \in alive /\ pc[p] = "check"
          /\ pc'[p] = "recRelease"
          /\ \A q \in Proc \ {p} : pc'[q] = pc[q]
          /\ \A q \in Proc : Me(q)' = Me(q)
          /\ UNCHANGED <<guard, recovery, attempt, expected, thrown, alive,
                         expired>>
      BY <1>10, <2>2 DEF Check, At, Goto, Me, TypeOK
    <3>2. QED
      BY <2>2, <3>1, FileFacts, TokenFacts
         DEF TypeOK, RecoverersSurvive, RecoveryPoint, GuardInv,
             RecoveryOwned, RecoveryNeverStale, GuardOwned, DeletesDead,
             ExpiredDead
  <2>3. QED
    BY <2>1, <2>2
<1>11. ASSUME NEW p \in Proc, DelRead(p) PROVE GuardInv'
  <2>1. CASE guard = expected[p]
    <3>1. /\ p \in alive /\ pc[p] = "delRead"
          /\ pc'[p] = "delUnlink"
          /\ \A q \in Proc \ {p} : pc'[q] = pc[q]
          /\ \A q \in Proc : Me(q)' = Me(q)
          /\ UNCHANGED <<guard, recovery, attempt, expected, thrown, alive,
                         expired>>
      BY <1>11, <2>1 DEF DelRead, At, Goto, Me, TypeOK
    <3>2. QED
      BY <2>1, <3>1, FileFacts, TokenFacts
         DEF TypeOK, RecoverersSurvive, RecoveryPoint, GuardInv,
             RecoveryOwned, RecoveryNeverStale, GuardOwned, DeletesDead,
             ExpiredDead
  <2>2. CASE guard # expected[p]
    <3>1. /\ p \in alive /\ pc[p] = "delRead"
          /\ pc'[p] = "recRelease"
          /\ \A q \in Proc \ {p} : pc'[q] = pc[q]
          /\ \A q \in Proc : Me(q)' = Me(q)
          /\ UNCHANGED <<guard, recovery, attempt, expected, thrown, alive,
                         expired>>
      BY <1>11, <2>2 DEF DelRead, At, Goto, Me, TypeOK
    <3>2. QED
      BY <2>2, <3>1, FileFacts, TokenFacts
         DEF TypeOK, RecoverersSurvive, RecoveryPoint, GuardInv,
             RecoveryOwned, RecoveryNeverStale, GuardOwned, DeletesDead,
             ExpiredDead
  <2>3. QED
    BY <2>1, <2>2
<1>12. ASSUME NEW p \in Proc, DelUnlink(p) PROVE GuardInv'
  <2>1. /\ p \in alive /\ pc[p] = "delUnlink"
        /\ pc'[p] = "recRelease"
        /\ \A q \in Proc \ {p} : pc'[q] = pc[q]
        /\ \A q \in Proc : Me(q)' = Me(q)
        /\ guard' = NoFile
        /\ UNCHANGED <<recovery, attempt, expected, thrown, alive, expired>>
    BY <1>12, FileFacts
       DEF DelUnlink, At, Goto, Me, TypeOK, GuardInv, DeletesDead
  <2>2. RecoveryOwned'
    BY <2>1, FileFacts, TokenFacts DEF GuardInv, RecoveryOwned, RecoveryPoint
  <2>3. RecoveryNeverStale'
    BY <2>1, FileFacts, TokenFacts DEF GuardInv, RecoveryNeverStale
  <2>4. GuardOwned'
    BY <2>1, FileFacts, TokenFacts
       DEF GuardInv, GuardOwned, TypeOK, DeletesDead
  <2>5. DeletesDead'
    BY <2>1, FileFacts, TokenFacts
       DEF GuardInv, DeletesDead, GuardOwned, RecoveryOwned, RecoveryPoint,
           RecoverersSurvive, TypeOK
  <2>6. ExpiredDead'
    BY <2>1, FileFacts, TokenFacts DEF GuardInv, ExpiredDead
  <2>7. QED
    BY <2>2, <2>3, <2>4, <2>5, <2>6 DEF GuardInv
<1>13. ASSUME NEW p \in Proc, RecRelease(p) PROVE GuardInv'
  <2>1. /\ p \in alive /\ pc[p] = "recRelease"
        /\ pc'[p] = "recUnlink"
        /\ \A q \in Proc \ {p} : pc'[q] = pc[q]
        /\ \A q \in Proc : Me(q)' = Me(q)
        /\ UNCHANGED <<guard, recovery, attempt, expected, thrown, alive,
                       expired>>
    BY <1>13
       DEF RecRelease, At, Goto, Me, TypeOK, GuardInv, RecoveryOwned,
           RecoveryPoint
  <2>2. QED
    BY <2>1, FileFacts, TokenFacts
       DEF TypeOK, RecoverersSurvive, RecoveryPoint, GuardInv, RecoveryOwned,
           RecoveryNeverStale, GuardOwned, DeletesDead, ExpiredDead
<1>14. ASSUME NEW p \in Proc, RecUnlink(p) PROVE GuardInv'
  <2>1. recovery # NoFile /\ thrown = {}
    BY <1>14, FileFacts
       DEF RecUnlink, At, GuardInv, RecoveryNeverStale, RecoveryOwned, RecoveryPoint
  <2>2. /\ p \in alive /\ pc[p] = "recUnlink"
        /\ pc'[p] = "create"
        /\ \A q \in Proc \ {p} : pc'[q] = pc[q]
        /\ \A q \in Proc : Me(q)' = Me(q)
        /\ recovery' = NoFile
        /\ UNCHANGED <<guard, attempt, expected, thrown, alive, expired>>
    BY <1>14, <2>1 DEF RecUnlink, At, Goto, Me, TypeOK, AfterRecovery
  <2>3. QED
    BY <2>2, FileFacts, TokenFacts
       DEF TypeOK, RecoverersSurvive, RecoveryPoint, GuardInv, RecoveryOwned,
           RecoveryNeverStale, GuardOwned, DeletesDead, ExpiredDead
<1>15. ASSUME NEW p \in Proc, Leave(p) PROVE GuardInv'
  <2>1. /\ p \in alive /\ pc[p] = "critical"
        /\ pc'[p] = "relRead"
        /\ \A q \in Proc \ {p} : pc'[q] = pc[q]
        /\ \A q \in Proc : Me(q)' = Me(q)
        /\ UNCHANGED <<guard, recovery, attempt, expected, thrown, alive,
                       expired>>
    BY <1>15 DEF Leave, At, Goto, Me, TypeOK
  <2>2. QED
    BY <2>1, FileFacts, TokenFacts
       DEF TypeOK, RecoverersSurvive, RecoveryPoint, GuardInv, RecoveryOwned,
           RecoveryNeverStale, GuardOwned, DeletesDead, ExpiredDead
<1>16. ASSUME NEW p \in Proc, RelRead(p) PROVE GuardInv'
  <2>1. /\ p \in alive /\ pc[p] = "relRead"
        /\ pc'[p] = "relUnlink"
        /\ \A q \in Proc \ {p} : pc'[q] = pc[q]
        /\ \A q \in Proc : Me(q)' = Me(q)
        /\ UNCHANGED <<guard, recovery, attempt, expected, thrown, alive,
                       expired>>
    BY <1>16 DEF RelRead, At, Goto, Me, TypeOK, GuardInv, GuardOwned
  <2>2. QED
    BY <2>1, FileFacts, TokenFacts
       DEF TypeOK, RecoverersSurvive, RecoveryPoint, GuardInv, RecoveryOwned,
           RecoveryNeverStale, GuardOwned, DeletesDead, ExpiredDead
<1>17. ASSUME NEW p \in Proc, RelUnlink(p) PROVE GuardInv'
  <2>1. /\ p \in alive /\ pc[p] = "relUnlink"
        /\ pc'[p] = "idle"
        /\ \A q \in Proc \ {p} : pc'[q] = pc[q]
        /\ \A q \in Proc : Me(q)' = Me(q)
        /\ guard' = NoFile
        /\ UNCHANGED <<recovery, attempt, expected, thrown, alive, expired>>
    BY <1>17, FileFacts
       DEF RelUnlink, At, Goto, Me, TypeOK, GuardInv, GuardOwned
  <2>2. QED
    BY <2>1, FileFacts, TokenFacts
       DEF TypeOK, RecoverersSurvive, RecoveryPoint, GuardInv, RecoveryOwned,
           RecoveryNeverStale, GuardOwned, DeletesDead, ExpiredDead
<1>18. ASSUME NEW p \in Proc, Crash(p) PROVE GuardInv'
  <2>1. /\ alive' = alive \ {p}
        /\ \A q \in Proc : Me(q)' = Me(q)
        /\ UNCHANGED <<guard, recovery, pc, attempt, expected, thrown, expired>>
    BY <1>18 DEF Crash, Me
  <2>2. QED
    BY <2>1, FileFacts, TokenFacts
       DEF TypeOK, RecoverersSurvive, RecoveryPoint, GuardInv, RecoveryOwned,
           RecoveryNeverStale, GuardOwned, DeletesDead, ExpiredDead
<1>19. ASSUME NEW t \in Token, Expire(t) PROVE GuardInv'
  <2>1. /\ expired' = expired \cup {t}
        /\ t[1] \notin alive
        /\ \A q \in Proc : Me(q)' = Me(q)
        /\ UNCHANGED <<guard, recovery, pc, attempt, expected, thrown, alive>>
    BY <1>19 DEF Expire, RecoverersSurvive, Me
  <2>2. QED
    BY <2>1, FileFacts, TokenFacts
       DEF TypeOK, RecoverersSurvive, RecoveryPoint, GuardInv, RecoveryOwned,
           RecoveryNeverStale, GuardOwned, DeletesDead, ExpiredDead
<1>20. CASE UNCHANGED vars
  BY <1>20 DEF vars, GuardInv, RecoveryOwned, RecoveryNeverStale, GuardOwned,
     DeletesDead, ExpiredDead, Me
<1>21. QED
  BY <1>1, <1>2, <1>3, <1>4, <1>5, <1>6, <1>7, <1>8, <1>9, <1>10, <1>11,
     <1>12, <1>13, <1>14, <1>15, <1>16, <1>17, <1>18, <1>19, <1>20
     DEF Next, Step

\* The inductive invariant holds of every behaviour.
THEOREM GuardInvariant == Spec => []IInv
<1>1. Init => (RecoverersSurvive => GuardInv)
  BY FileFacts
     DEF Init, GuardInv, RecoveryOwned, RecoveryNeverStale, GuardOwned,
         DeletesDead, ExpiredDead, RecoveryPoint
<1>2. /\ TypeOK /\ Attempted /\ (RecoverersSurvive => GuardInv)
      /\ [Next]_vars
      /\ (TypeOK /\ Attempted)'
      => (RecoverersSurvive => GuardInv)'
  <2> SUFFICES ASSUME TypeOK, Attempted, RecoverersSurvive => GuardInv,
                      [Next]_vars, TypeOK', RecoverersSurvive'
               PROVE  GuardInv'
    OBVIOUS
  <2>1. RecoverersSurvive
    BY SurvivalIsMonotone
  <2>2. QED
    BY <2>1, GuardStep
<1>3. QED
  BY <1>1, <1>2, TypeInvariant, PTL DEF Spec, IInv

\* Two live processes never run their guarded actions together, unless a
\* process died while it was recovering a guard or overran its record's lease.
THEOREM MutualExclusion == Spec => []MutexUnlessRecovererDied
<1>1. IInv => MutexUnlessRecovererDied
  <2> SUFFICES ASSUME IInv, RecoverersSurvive,
                      NEW p \in Proc, NEW q \in Proc, Holding(p), Holding(q)
               PROVE  p = q
    BY DEF MutexUnlessRecovererDied, Mutex
  <2>1. guard = Written(Me(p)) /\ guard = Written(Me(q))
    BY DEF IInv, GuardInv, GuardOwned, Holding
  <2>2. guard.token[1] = p /\ guard.token[1] = q
    BY <2>1, TokenFacts
  <2>3. QED
    BY <2>2
<1>2. QED
  BY <1>1, GuardInvariant, PTL

\* In the same circumstances no unlink of the guard code meets a missing file.
THEOREM NoMissingFile == Spec => []NoFileError
<1>1. IInv => NoFileError
  BY DEF IInv, GuardInv, RecoveryNeverStale, NoFileError
<1>2. QED
  BY <1>1, GuardInvariant, PTL


=============================================================================
