-------------------------- MODULE MCManagedSession --------------------------
(***************************************************************************)
(* Small instances of ManagedSession for TLC.                              *)
(***************************************************************************)
EXTENDS ManagedSession

CONSTANTS a, b, op, nobody

\* The two starts differ only in their names: the one of a lists first.
FirstStarts == launcher'[b] # "idle" => launcher'[a] # "idle"
=============================================================================
