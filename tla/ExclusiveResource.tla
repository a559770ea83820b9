------------------------- MODULE ExclusiveResource -------------------------
(***************************************************************************)
(* What a device lock promises: one physical resource, held by at most one *)
(* ownership at a time.  An ownership that has ended never comes back, and *)
(* a blocked resource stays with its holder until an operator clears it.   *)
(***************************************************************************)
CONSTANT Owner   \* ownerships: each stands for one random owner token

VARIABLES
  holder,   \* the ownership that has the resource: at most one element
  blocked,  \* the holder may not let go: the resource is quarantined
  ended     \* ownerships that are over

resource == <<holder, blocked, ended>>

Init ==
  /\ holder = {}
  /\ blocked = FALSE
  /\ ended = {}

Take(o) ==
  /\ holder = {}
  /\ o \notin ended
  /\ holder' = {o}
  /\ UNCHANGED <<blocked, ended>>

Leave(o) ==
  /\ holder = {o}
  /\ ~blocked
  /\ holder' = {}
  /\ ended' = ended \cup {o}
  /\ UNCHANGED blocked

Block(o) ==
  /\ holder = {o}
  /\ blocked' = TRUE
  /\ UNCHANGED <<holder, ended>>

\* An operator takes the resource from its holder.
Clear(o) ==
  /\ holder = {o}
  /\ holder' = {}
  /\ blocked' = FALSE
  /\ ended' = ended \cup {o}

Next == \E o \in Owner : Take(o) \/ Leave(o) \/ Block(o) \/ Clear(o)

Spec == Init /\ [][Next]_resource
=============================================================================
