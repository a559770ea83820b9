--------------------------- MODULE SystemOperation ---------------------------
(***************************************************************************)
(* One capability run on every member of a system: the intersection, the   *)
(* preflight of every member's approval, and the members' operations, in   *)
(* parallel or one after the other; with the entry of an operation         *)
(* (dry run, managed session, approval) up to the point that Operation and *)
(* Approval take over.  People approve, approvals expire, and operations   *)
(* of other processes use them meanwhile.  Approval shows the guarded      *)
(* updates to be atomic, so each is a step here.                           *)
(***************************************************************************)
EXTENDS Naturals, FiniteSets

CONSTANTS
  Member,       \* device names 1 .. n in sorted order
  Physical,     \* the physical device each of them names
  MaxCommands,  \* bound: how often the command is given
  MaxRequests   \* bound: approvals requested for a device

ASSUME MemberAssumption == Member = 1 .. Cardinality(Member) /\ DOMAIN Physical = Member

VARIABLES
  command,   \* the command, and what its preflight awaits
  found,     \* what the preflight found for each member
  op,        \* how far each member's operation has got
  approval,  \* approvals of each device that are pending and approved
  lapsed     \* history: an approved one has expired or was used by another process

systemVars == <<command, found, op, approval, lapsed>>

DeviceOf == {Physical[m] : m \in Member}
MemberEnded == {"ok", "failed", "refused"}

SystemInit ==
  /\ command = [at |-> "idle", given |-> 0, agent |-> FALSE, dry |-> FALSE, parallel |-> FALSE,
                needs |-> FALSE, managed |-> FALSE]
  /\ found = [m \in Member |-> "none"]
  /\ op = [m \in Member |-> "none"]
  /\ approval = [d \in DeviceOf |-> [pending |-> 0, approved |-> 0, requested |-> 0]]
  /\ lapsed = FALSE

\* executeSystemCapability: the capability is the same on every member, or it
\* is refused here.  `needs` is what requiresApproval says of its safety.
GiveCommand == \E agent, dry, parallel, needs, managed \in BOOLEAN :
  /\ command.at \in {"idle", "ended"} /\ command.given < MaxCommands
  /\ command' = [at |-> IF agent THEN "preflight" ELSE "running", given |-> command.given + 1,
                 agent |-> agent, dry |-> dry, parallel |-> parallel, needs |-> needs,
                 managed |-> managed]
  /\ found' = [m \in Member |-> "none"]
  /\ op' = [m \in Member |-> "none"]
  /\ UNCHANGED <<approval, lapsed>>

Unavailable ==
  /\ command.at = "idle" /\ command' = [command EXCEPT !.at = "ended"]
  /\ UNCHANGED <<found, op, approval, lapsed>>

ApprovalRequired == command.agent /\ command.needs
Asks(d) == approval' = [approval EXCEPT ![d].pending = approval[d].pending + 1,
                                       ![d].requested = approval[d].requested + 1]
MayAsk(d) == approval[d].requested < MaxRequests

\* preflightApproval: an approved or pending one is found, or one is requested.
\* It does not look at dry runs.  All members are asked at once; a member whose
\* check throws does not keep the others from requesting.
PreflightMember(m) ==
  LET a == approval[Physical[m]]
      Find(what) == found' = [found EXCEPT ![m] = what]
  IN /\ command.at \in {"preflight", "thrown"} /\ found[m] = "none"
     /\ \/ ~ApprovalRequired /\ Find("not-required") /\ UNCHANGED <<command, approval>>
        \/ ApprovalRequired /\ a.approved > 0 /\ Find("ready") /\ UNCHANGED <<command, approval>>
        \/ ApprovalRequired /\ a.approved = 0 /\ a.pending > 0 /\ Find("pending") /\ UNCHANGED <<command, approval>>
        \/ ApprovalRequired /\ a.approved = 0 /\ a.pending = 0 /\ MayAsk(Physical[m])
             /\ Find("pending") /\ Asks(Physical[m]) /\ UNCHANGED command
        \/ ApprovalRequired /\ Find("invalid") /\ UNCHANGED approval
             /\ command' = [command EXCEPT !.at = "thrown"]
     /\ UNCHANGED <<op, lapsed>>

\* Mutant: any member that is ready is enough.
PreflightOver ==
  /\ command.at = "preflight" /\ \A m \in Member : found[m] # "none"
  /\ command' = [command EXCEPT !.at = IF \E m \in Member : found[m] # "pending" THEN "running" ELSE "ended"]
  /\ UNCHANGED <<found, op, approval, lapsed>>

\* One pending approval ends the command before any member runs.
PreflightEnds ==
  /\ command.at = "preflight" /\ \A m \in Member : found[m] # "none"
  /\ command' = [command EXCEPT !.at = IF \E m \in Member : found[m] = "pending" THEN "ended" ELSE "running"]
  /\ UNCHANGED <<found, op, approval, lapsed>>

-----------------------------------------------------------------------------
\* Mutant: a failure does not break the loop.
TurnRegardless(m) ==
  command.at = "running" /\ (command.parallel \/ \A k \in Member : k < m => op[k] \in MemberEnded)

\* parallel: all at once; serial-fail-fast: in order, until one fails.
Turn(m) ==
  command.at = "running" /\ (command.parallel \/ \A k \in Member : k < m => op[k] = "ok")

Becomes(m, s) == op' = [op EXCEPT ![m] = s]

\* execute() up to the approval: a dry run ends with a plan, and an operation
\* that needs an approval and finds none requests it and fails.
EnterMember(m) ==
  LET a == approval[Physical[m]]
  IN /\ Turn(m) /\ op[m] = "none"
     /\ \/ Becomes(m, "refused") /\ UNCHANGED approval           \* input, identity, adapter
        \/ command.dry /\ Becomes(m, "ok") /\ UNCHANGED approval
        \/ ~command.dry /\ ~ApprovalRequired /\ Becomes(m, "effect") /\ UNCHANGED approval
        \/ ~command.dry /\ ApprovalRequired /\ a.approved > 0 /\ Becomes(m, "found") /\ UNCHANGED approval
        \/ ~command.dry /\ ApprovalRequired /\ a.approved = 0 /\ MayAsk(Physical[m])
             /\ Becomes(m, "refused") /\ Asks(Physical[m])
     /\ UNCHANGED <<command, found, lapsed>>

\* The run, the lock, and then the claim, which may come too late.
Claim(m) ==
  /\ op[m] = "found"
  /\ IF approval[Physical[m]].approved > 0
       THEN approval' = [approval EXCEPT ![Physical[m]].approved = @ - 1] /\ Becomes(m, "effect")
       ELSE UNCHANGED approval /\ Becomes(m, "failed")
  /\ UNCHANGED <<command, found, lapsed>>

\* The capability ends.  A failure gives the approval back when no effect was
\* marked, and for a managed session always (executeManagedSession).
MemberFinishes(m) ==
  /\ op[m] = "effect"
  /\ \/ Becomes(m, "ok") /\ UNCHANGED approval
     \/ Becomes(m, "failed") /\ (~command.managed \/ ~ApprovalRequired) /\ UNCHANGED approval
     \/ Becomes(m, "failed") /\ ApprovalRequired
          /\ approval' = [approval EXCEPT ![Physical[m]].approved = @ + 1]
  /\ UNCHANGED <<command, found, lapsed>>

SystemEnds ==
  /\ command.at = "running"
  /\ \A m \in Member : op[m] \in MemberEnded \/ (op[m] = "none" /\ ~Turn(m))
  /\ command' = [command EXCEPT !.at = "ended"]
  /\ UNCHANGED <<found, op, approval, lapsed>>

\* A person approves; an approval runs out, or another process uses it up.
Approve(d) ==
  /\ approval[d].pending > 0
  /\ approval' = [approval EXCEPT ![d].pending = approval[d].pending - 1,
                                 ![d].approved = approval[d].approved + 1]
  /\ UNCHANGED <<command, found, op, lapsed>>

Lapse(d) ==
  /\ approval[d].approved > 0
  /\ approval' = [approval EXCEPT ![d].approved = @ - 1] /\ lapsed' = TRUE
  /\ UNCHANGED <<command, found, op>>

SystemNext ==
  \/ GiveCommand \/ Unavailable \/ PreflightEnds \/ SystemEnds
  \/ \E m \in Member : PreflightMember(m) \/ EnterMember(m) \/ Claim(m) \/ MemberFinishes(m)
  \/ \E d \in DeviceOf : Approve(d) \/ Lapse(d)

SystemSpec == SystemInit /\ [][SystemNext]_systemVars

-----------------------------------------------------------------------------
Invocation == [at : {"idle", "preflight", "thrown", "running", "ended"}, given : Nat, agent : BOOLEAN,
               dry : BOOLEAN, parallel : BOOLEAN, needs : BOOLEAN, managed : BOOLEAN]

SystemTypeOK ==
  /\ command \in Invocation
  /\ found \in [Member -> {"none", "not-required", "ready", "pending", "invalid"}]
  /\ op \in [Member -> {"none", "found", "effect"} \cup MemberEnded]
  /\ approval \in [DeviceOf -> [pending : Nat, approved : Nat, requested : Nat]]
  /\ lapsed \in BOOLEAN

(* A serial system runs its members in order and none after one that did   *)
(* not succeed, and no member runs while the preflight waits for a person. *)
SerialOrder ==
  \A m, k \in Member :
    /\ op[m] # "none" => \A j \in Member : found[j] \in {"none", "ready", "not-required"}
    /\ op[m] # "none" /\ k < m /\ ~command.parallel => op[k] = "ok"

(* A member runs only when its turn has come.  And after a preflight that  *)
(* found everything ready, a member asks for an approval only if one has   *)
(* lapsed meanwhile, or two members name the same device (use-case.ts).    *)
TurnsAndApprovals ==
  [][/\ op' # op => SerialOrder'
     /\ approval' # approval /\ command.at = "running" => \A m \in Member :
          approval'[Physical[m]].requested # approval[Physical[m]].requested
            => lapsed \/ \E k \in Member \ {m} : Physical[k] = Physical[m]]_systemVars
=============================================================================
