---------------------------- MODULE MCFileGuard ----------------------------
(***************************************************************************)
(* Small instances of FileGuard for TLC.                                   *)
(***************************************************************************)
EXTENDS FileGuard, TLC

CONSTANTS p1, p2, p3, p4

ThreeProcs == {p1, p2, p3}
FourProcs == {p1, p2, p3, p4}

OneHost == [p \in Proc |-> "h1"]
TwoHosts == [p \in Proc |-> IF p = p1 THEN "h1" ELSE "h2"]

AllPoints == Point \ {"idle", "failed"}
RecoveryDeaths == {"critical", "check"}

Symmetry == Permutations(Proc)

=============================================================================
