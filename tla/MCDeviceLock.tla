---------------------------- MODULE MCDeviceLock ----------------------------
(***************************************************************************)
(* Small instances of DeviceLock for TLC.                                  *)
(***************************************************************************)
EXTENDS DeviceLock, TLC

CONSTANTS a, b, c, x, y

OneHost == [p \in Process |-> "h1"]
\* The second operator works on another host that shares the runtime directory.
TwoHosts == [p \in Process |-> IF p = y THEN "h2" ELSE "h1"]

AnyFlags == SUBSET {"active", "quarantined"}
AB == [p \in Process |-> IF p = a THEN "h1" ELSE "h2"]
NoFlags == {{}}

Symmetry == Permutations(Owner)
=============================================================================
