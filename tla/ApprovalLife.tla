---------------------------- MODULE ApprovalLife ----------------------------
(***************************************************************************)
(* What docs/safety.md promises of approvals: each record moves along      *)
(*                                                                         *)
(*   pending -> approved -> claimed -> consumed                            *)
(*      |          ^           |                                           *)
(*      +-> rejected  +--------+                                           *)
(*                                                                         *)
(* a claim belongs to one operation, and a claim that is over, whether its *)
(* operation used the approval, gave it back or had it taken away, never   *)
(* comes back.                                                             *)
(***************************************************************************)
CONSTANTS
  Id,      \* approvals
  Op,      \* operations
  Nobody   \* no operation

VARIABLES
  status,   \* of each approval; "absent" before it is requested
  claimant, \* the operation whose claim it is, or was when it was consumed
  over      \* the operations whose claim is over

life == <<status, claimant, over>>

Init ==
  /\ status \in [Id -> {"absent", "pending", "approved"}]
  /\ claimant = [i \in Id |-> Nobody]
  /\ over = {}

Move(i, from, to) == status[i] = from /\ status' = [status EXCEPT ![i] = to]

Request(i) == Move(i, "absent", "pending") /\ UNCHANGED <<claimant, over>>

Decide(i) ==
  /\ \E s \in {"approved", "rejected"} : Move(i, "pending", s)
  /\ UNCHANGED <<claimant, over>>

Claim(i, o) ==
  /\ Move(i, "approved", "claimed")
  /\ o \notin over
  /\ \A j \in Id : claimant[j] # o
  /\ claimant' = [claimant EXCEPT ![i] = o]
  /\ UNCHANGED over

Consume(i) ==
  /\ Move(i, "claimed", "consumed")
  /\ over' = over \cup {claimant[i]}
  /\ UNCHANGED claimant

GiveBack(i) ==
  /\ Move(i, "claimed", "approved")
  /\ over' = over \cup {claimant[i]}
  /\ claimant' = [claimant EXCEPT ![i] = Nobody]

Next ==
  \E i \in Id :
    \/ Request(i) \/ Decide(i) \/ Consume(i) \/ GiveBack(i)
    \/ \E o \in Op : Claim(i, o)

Spec == Init /\ [][Next]_life
=============================================================================
