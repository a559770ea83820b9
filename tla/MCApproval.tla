----------------------------- MODULE MCApproval -----------------------------
(***************************************************************************)
(* Small instances of Approval for TLC.                                    *)
(***************************************************************************)
EXTENDS Approval, TLC

CONSTANTS a, b, h1, h2, i1, i2

OneHost == [p \in Process |-> "h1"]
OneApproved == {[i \in Id |-> IF i = i1 THEN "approved" ELSE "absent"]}
OnePending == {[i \in Id |-> IF i = i1 THEN "pending" ELSE "absent"]}
TwoHosts == [p \in Process |-> IF p = a THEN "h1" ELSE "h2"]
=============================================================================
