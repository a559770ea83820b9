---------------------------- MODULE MCOperation ----------------------------
(***************************************************************************)
(* Small instances of Operation for TLC.                                   *)
(***************************************************************************)
EXTENDS Operation, TLC

CONSTANTS a, b, i1

\* A workflow against the two other kinds.
AgainstWorkflow == {k \in [Op -> Kind] : k[a] # "workflow" /\ k[b] = "workflow"}
AllWorkflows == {[o \in Op |-> "workflow"]}
AllActions == {[o \in Op |-> "action"]}
=============================================================================
