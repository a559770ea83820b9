----------------------------- MODULE WorkflowRun -----------------------------
(***************************************************************************)
(* One invocation of a declarative capability: its handler, an action or   *)
(* a workflow of steps, under the operation's signal, the timer of the     *)
(* workflow, the timers of the actions and the deadline of the capability. *)
(* The signals are checked at some points of the code and heard through    *)
(* listeners at others.                                                    *)
(***************************************************************************)
EXTENDS Naturals

CONSTANT Steps   \* how many steps the workflow has

ASSUME StepsAssumption == Steps \in Nat \ {0}

VARIABLES
  work,   \* where the handler is, at which step, and its verdict
  stop,   \* what has fired, and whether the action listens
  tried   \* what became of each step; an action handler is step 1

workVars == <<work, stop, tried>>

WorkInit ==
  /\ work = [at |-> "start", handler |-> "none", step |-> 1, lenient |-> FALSE, good |-> FALSE,
             verdict |-> "none"]
  /\ stop = [operation |-> FALSE, workflow |-> FALSE, action |-> FALSE, deadline |-> FALSE,
             heard |-> TRUE]
  /\ tried = [i \in 1 .. Steps |-> "none"]

-----------------------------------------------------------------------------
(* The signals and timers.                                                 *)

OperationAborts ==
  /\ work.at \notin {"output", "end"} /\ ~stop.operation
  /\ stop' = [stop EXCEPT !.operation = TRUE]
  /\ UNCHANGED <<work, tried>>

WorkflowTimer ==
  /\ work.handler = "workflow" /\ work.at \notin {"output", "end"}
  /\ ~stop.workflow /\ stop' = [stop EXCEPT !.workflow = TRUE]
  /\ UNCHANGED <<work, tried>>

\* The limit of the action is the least of its own and what the deadline leaves.
ActionTimer == \E expired \in BOOLEAN :
  /\ work.at \in {"resolve", "runs"} /\ ~stop.action
  /\ stop' = [stop EXCEPT !.action = TRUE, !.deadline = stop.deadline \/ expired]
  /\ UNCHANGED <<work, tried>>

\* ExecutionDeadline.limit: nothing is left of the capability's time.
DeadlinePasses ==
  /\ work.at = "loop" /\ ~stop.deadline /\ stop' = [stop EXCEPT !.deadline = TRUE]
  /\ UNCHANGED <<work, tried>>

\* The signal that abortAfter() gives the action.
ActionAborted == stop.action \/ (stop.heard /\ (stop.operation \/ stop.workflow))

-----------------------------------------------------------------------------
End(verdict) == work' = [work EXCEPT !.at = "end", !.verdict = verdict]
NextIs == work' = [work EXCEPT !.at = "loop", !.step = work.step + 1]
Became(what) == tried' = [tried EXCEPT ![work.step] = what]

\* execute(): the temporary directory, the input's schema, then the handler.  An
\* action handler adds its listener whether the signal has fired or not.
Enter ==
  /\ work.at = "start"
  /\ \/ End("failed") /\ UNCHANGED stop
     \/ work' = [work EXCEPT !.handler = "workflow", !.at = "loop"] /\ UNCHANGED stop
     \/ /\ work' = [work EXCEPT !.handler = "action", !.at = "resolve"]
        /\ stop' = [stop EXCEPT !.heard = ~stop.operation]
  /\ UNCHANGED tried

StopIn == stop.operation \/ stop.workflow
\* throwIfControlled(): the operation's reason before the workflow's.
Controlled == IF stop.operation THEN "aborted" ELSE "timeout"

\* The head of the loop.  The condition of a step may skip it, and a template that
\* finds no value ends the workflow: planning is outside the step's try.
TakeStep ==
  /\ work.at = "loop" /\ ~StopIn /\ work.step <= Steps
  /\ \/ NextIs /\ Became("skipped") /\ UNCHANGED stop
     \/ End("failed") /\ UNCHANGED <<stop, tried>>
     \/ stop.deadline /\ End("timeout") /\ Became("timeout") /\ UNCHANGED stop
     \/ \E lenient \in BOOLEAN :
          /\ ~stop.deadline
          /\ work' = [work EXCEPT !.at = "resolve", !.lenient = lenient]
          /\ stop' = [stop EXCEPT !.action = FALSE]
          /\ UNCHANGED tried

LoopStops ==
  /\ work.at = "loop" /\ StopIn /\ End(Controlled)
  /\ UNCHANGED <<stop, tried>>

\* After the last step the result is rendered, and checked by the output's schema.
LoopEnds ==
  /\ work.at = "loop" /\ ~StopIn /\ work.step > Steps
  /\ work' = [work EXCEPT !.at = "output"]
  /\ UNCHANGED <<stop, tried>>

Output ==
  /\ work.at = "output" /\ (End("ok") \/ End("failed"))
  /\ UNCHANGED <<stop, tried>>

\* Tool, environment, probes and plan, each of which may fail; then the process
\* or the copy, which does not start under an aborted signal.
Resolve ==
  /\ work.at = "resolve"
  /\ \/ work' = [work EXCEPT !.at = "back", !.good = FALSE] /\ UNCHANGED tried
     \/ ~ActionAborted /\ work' = [work EXCEPT !.at = "runs"] /\ Became("runs")
  /\ UNCHANGED stop

\* parseOutput(): an accepted exit code, no error rule, no required value missing; and
\* executeProcess() trusts no JSON of a truncated output.
Parses(p) == p.exit /\ ~p.error /\ ~p.missing /\ ~(p.truncated /\ p.json)

\* The process ends, is parsed, and its artifacts are collected.
ActionEnds ==
  /\ work.at = "runs"
  /\ \E p \in [exit : BOOLEAN, error : BOOLEAN, missing : BOOLEAN, truncated : BOOLEAN, json : BOOLEAN],
        collected \in BOOLEAN :
       work' = [work EXCEPT !.at = "back", !.good = Parses(p) /\ collected]
  /\ UNCHANGED <<stop, tried>>

\* Mutant: a timed-out action is a failure like any other.
IsOrdinary(timedOut) == FALSE

\* isControlFlowError(): a timeout ends the workflow whatever its steps allow.
IsControlFlow(timedOut) == timedOut
ActionReturns ==
  /\ work.at = "back" /\ UNCHANGED stop
  /\ \/ StopIn /\ End(Controlled) /\ Became("stopped")
     \/ /\ ~StopIn /\ work.handler = "action"
        /\ IF work.good /\ ~stop.action
             THEN work' = [work EXCEPT !.at = "output"] /\ Became("ok")
             ELSE End(IF stop.action THEN "timeout" ELSE "failed") /\ Became("failed")
     \/ /\ ~StopIn /\ work.handler = "workflow"
        /\ \/ work.good /\ ~stop.action /\ NextIs /\ Became("ok")
           \/ stop.action /\ IsControlFlow(stop.action) /\ End("timeout") /\ Became("timeout")
           \/ /\ IF stop.action THEN ~IsControlFlow(stop.action) ELSE ~work.good
              /\ IF work.lenient THEN NextIs ELSE End("failed")
              /\ Became(IF stop.action THEN "timeout" ELSE IF work.lenient THEN "allowed" ELSE "failed")

WorkNext ==
  \/ Enter \/ TakeStep \/ LoopStops \/ LoopEnds \/ Output \/ Resolve \/ ActionEnds \/ ActionReturns
  \/ OperationAborts \/ WorkflowTimer \/ ActionTimer \/ DeadlinePasses

WorkSpec == WorkInit /\ [][WorkNext]_workVars

-----------------------------------------------------------------------------
Handling == [at : {"start", "loop", "resolve", "runs", "back", "output", "end"},
             handler : {"none", "workflow", "action"}, step : 1 .. Steps + 1,
             lenient : BOOLEAN, good : BOOLEAN,
             verdict : {"none", "ok", "failed", "timeout", "aborted"}]
Signals == [operation : BOOLEAN, workflow : BOOLEAN, action : BOOLEAN, deadline : BOOLEAN, heard : BOOLEAN]

WorkTypeOK ==
  /\ work \in Handling /\ stop \in Signals
  /\ tried \in [1 .. Steps -> {"none", "runs", "ok", "skipped", "allowed", "failed", "timeout", "stopped"}]

Passed == {"ok", "skipped", "allowed"}

(* The first thing that must stop a workflow stops it for good.  A step is *)
(* reached only over steps that succeeded, were skipped or were allowed to *)
(* fail, and a timeout is never allowed (workflow-executor.ts:141-170); a  *)
(* success means that of every step; and a handler that the operation      *)
(* aborted before it returned says so, whatever timer fired besides.       *)
StopsForGood ==
  /\ \A i, j \in 1 .. Steps : i < j /\ tried[j] # "none" => tried[i] \in Passed
  /\ work.verdict = "ok" => \A i \in 1 .. Steps : work.handler = "workflow" => tried[i] \in Passed
  /\ work.verdict = "aborted" => stop.operation
  /\ work.verdict = "timeout" => stop.workflow \/ stop.action \/ stop.deadline
  /\ work.at \in {"output", "end"} /\ work.handler # "none" /\ stop.operation => work.verdict = "aborted"
=============================================================================
