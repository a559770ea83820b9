# BenchPilot in TLA+

BenchPilot is a TypeScript command line program that lets people and coding agents
drive embedded devices: flash them, read their serial ports, run their tools. Every
invocation is a short-lived process; what makes it a concurrent system is that any
number of these processes, on one or several hosts, share a file system, the
devices, and each other's approvals. This directory models the parts that keep
those processes apart, checks the models with TLC on small instances, and proves
the most important results with TLAPS for every instance.

Paths below are relative to the repository's `src/`: `core/` is `src/core/`, and so on.

## 1. Inventory

The program has four layers: CLI, application, core and adapter runtime. Core owns
every state that outlives a command; the adapter compiler runs at build time.

| Component | State | Operations | Makes it correct |
| --- | --- | --- | --- |
| Update guard, `core/concurrency/file-guard.ts` | a guard file and its `.recovery` file | `withFileGuard`: exclusive create, wait, recover a dead holder's file, act, unlink | one live process in the guarded section; the file of a dead holder goes away |
| Device locks, `core/locks/lock-manager.ts` | a directory with `owner.json` per device; manual-recovery records | `acquire`, `startHeartbeat`, `release`, `quarantine`, `markQuarantineFailed`, `recordQuarantineFailure`, `clear`, `clearStale` | one holder; a removed record never comes back; nothing removes a live holder's record unasked |
| Approvals, `core/approvals/approval-manager.ts` | a JSON record per approval: pending, approved, claimed, consumed, rejected | `request`, `approve`, `reject`, `claim`, `startClaimLease`, `consumeClaim`, `releaseClaim`, `recoverMatchingStaleClaim` | one claim at a time; one dangerous effect per approval; a claim that is over never returns |
| Operation lifecycle, `core/operations/` | in memory: signal, leases, cleanups, marks | `execute`, `preflightApproval` | cleanup order; the device stays locked while it may be in use; the approval ends as the effect demands; every operation ends |
| Capability runner, workflows and executors, `adapters/runtime/` | in memory: deadlines, steps and their results | action and workflow handlers, inner timers | hear of an abort, mark the effect when it starts; what must stop a workflow stops it |
| Process runner and output capture, `core/process/process-runner.ts`, `executors/process-executor.ts` | one child process tree; a bounded buffer | `startProcess`, `stop`, `BoundedCapture`, line splitting | an aborted process is stopped; a parser reads the same text however the stream was cut |
| Managed sessions, `core/sessions/`, `infrastructure/serial-session-launcher.ts` | session record with revision, the host's lock, port, run and control channel | create, claimStart, markRunning, requestStop, markStopped, markFailed, reconcile | the port is open only under the lock; a terminal record stays; everybody comes to rest |
| Session control, `core/sessions/session-control.ts`, `session-host.ts` | one writer lease, a chain of writes | acquire, renew, release, write, stop | one writer; answers that are true |
| Session log, `core/sessions/session-log-*.ts` | records file, raw file, cursor | append, close, read, follow | records repeat the raw bytes; a reader sees nothing twice |
| Runs, `core/runs/run-manager.ts` | a directory per run | create, finalize, reconcile, prune | what is half written carries a marker |
| System operations, `application/systems/use-case.ts` | the members' operations | preflight of all, then parallel or serial execution | nothing starts before all are approved; fail-fast |
| Artifacts and copies, `adapters/runtime/executors/copy-executor.ts`, `rules/artifact-collector.ts` | target, temporary name, backup; the run's artifacts | copy with rollback, collect, register | all or nothing; records match files |
| Tools and environments, `adapters/runtime/tools`, `environments`, `application/adapters/configuration-use-case.ts` | the saved configuration, what a computer has | compile, discover, configure, resolve | what a setup saved can be launched |
| EIM installer, `adapters/runtime/eim-installer.ts` | cache, release directory, progress | resolve, download, verify, unpack, run, persist | what is installed was published, and is verified before it is saved |
| Configuration and init, `application/config/`, `application/init/` | `benchpilot.toml` and its neighbours | the editing commands, `init` | an edit loses nothing older than its load and leaves a file that loads; a failed init can be repeated |
| Adapter compiler and loader, `adapters/compiler/`, `adapters/runtime/bundle-loader.ts` | the published directory of bundles | validate, merge, publish, load | what was accepted is found at run time; no process mixes two builds |
| CLI, `cli/index.ts`, `application/commands/` | one invocation: line, draft, menus, answers | parse, resolve, ask, go back, confirm, run | a line does what its help says; a confirmation is for the state that was shown |
| Views, translations, schemas, templates, discovery scores, queries | none that outlives a command | rendering, lookups, tests of one value | not modelled, section 7 |

How they interact:

- Locks, approvals and sessions make every update of a record in the guarded section
  of that record's update guard. The guard fails its user in two ways: after ten
  seconds with a busy error, and for ever when a process died between creating the
  guard file and writing it (an empty file is never called stale).
- `execute` looks for an approval, takes the device lock, claims the approval, runs the
  capability in a race against its abort signal, runs the registered cleanups,
  stops the two heartbeat loops, settles the approval and releases or quarantines
  the lock. The heartbeats run beside it and abort it through the one signal.
- The capability gets that signal, and passes it on to its actions and to the process
  runner. It marks the dangerous effect at the moment its process spawns. What its
  tools print goes through the capture to a parser; what they leave goes to the run.
- Operators run `lock clear`, `lock clear-stale` and `approval approve | reject` from
  other processes at any time, after a question that may wait for long.
- A session host holds a device lock in the same way for hours. Its launcher waits for
  it and may give up; clients write through its control channel and follow its log.
- Runs, configuration, the cache of the installer and the published bundles are
  changed without any lock: only by renames, links and fixed orders of writes.

What is hard here: reads before a guard that are acted upon inside it; heartbeats
that write a record back; processes killed between any two file operations;
clocks and leases across hosts; an abort that overtakes what it aborts; cleanups
that fail or take too long; settlements that fail after the effect; a launcher that gives
up on a host that has just become ready; and everything that is decided from a copy
while another process changes the original. The list with the line of each is under
`hazards` in `PROJECT.json`.

## 2. Modules

| Module | Stands for |
| --- | --- |
| `FileGuard`, `FileGuardProofs` | the update guard, one step per awaited file-system call; theorems |
| `ExclusiveResource` | abstract: what a device lock promises |
| `DeviceLock`, `DeviceLockProofs` | the lock manager, as operations and operators drive it; theorems, with the refinement |
| `ApprovalLife` | abstract: the diagram of docs/safety.md |
| `Approval`, `ApprovalProofs` | the approval manager, as operations, preflights and people drive it; theorems, with the refinement |
| `Operation`, `OperationProofs` | `execute`, its capability and its process, over the two abstract modules; theorems |
| `ManagedSession`, `SessionProofs` | session record, launcher, host, reconciler and a competing operation; theorems |
| `WriterLease` | control channel and chain of writes of a session host |
| `SessionLog` | spool and follower |
| `RunRecord` | run directories: owner, reconcilers, prune |
| `SystemOperation` | a capability on all members of a system |
| `WorkflowRun` | one invocation of an action or workflow under its four timers and signals |
| `RunProofs` | theorems about the three before it and `WriterLease` |
| `FileCommit` | copy with rollback; collection of artifacts |
| `ProcessOutput` | bounded capture and lines |
| `ToolSetup` | compile, discover, configure, and the resolution by an operation |
| `EimInstall` | installers that share a cache, and the progress of one |
| `ProjectConfig`, `ProjectInit` | the editing commands; `init` |
| `CommandDefinitions`, `CommandGraph`, `CommandLine` | the declared commands; resolution and both parsers; one invocation with its questions |
| `AdapterRules` | semantic validation of an adapter, and what the runtime looks up in it |
| `BundlePublish` | publication of bundles by overlapping compilers, and their loaders |
| `SharedFilesProofs` | theorems about `FileCommit`, `EimInstall`, `ProjectConfig`, `ProjectInit`, `BundlePublish` |
| `DataProofs` | theorems about `SessionLog`, `ProcessOutput`, `ToolSetup`, `AdapterRules`, `CommandLine` |
| `MC...` | instances for TLC; `MCPrograms` composes all from `WriterLease` on |

The first modules are stacked. `FileGuard` shows that the guard excludes; `DeviceLock` and
`Approval` use a guard that excludes and keep its two failures (`Busy`, and a
`"wedged"` guard). `DeviceLock` implements `ExclusiveResource` and `Approval`
implements `ApprovalLife`; `Operation` is built from the steps of these two (`Lock!Take`,
`Life!Claim`, ...), so one step of it stands for a whole guarded update. `ManagedSession`,
`WorkflowRun` and `SystemOperation` take a guarded update as one step for the same reason.

### FileGuard

State: the two files (absent, created and still empty, or written with a token), and
for each process its program counter, the number of its attempt (a token is a process
with that number), and the records it has read. `Create`, `Write`, `Busy` are
`acquireFileGuard`; the `Rec...` actions, `Check`, `DelRead` and `DelUnlink` are
`recoverStaleGuard` with `deleteGuardIfToken`; `Leave`, `RelRead`, `RelUnlink` are the
release. `Crash` stops a process at any point, `Expire` makes a record severely expired.

### DeviceLock

State: the record in `owner.json` (published and removed by a rename of its directory,
hence whole or absent), the guard, the program counter of each owner (one call of
`acquire`) and operator, the heartbeat loop of each owner as a thread of its own, and
what each has read. `Stage`, `Publish`, `HolderRead`, `EmptyCheck` are `acquire`;
`LeaseWake`, `LeaseEnter`, `LeaseReread`, `LeaseWrite` the heartbeat; `ReleaseEnter`,
`ReleaseRename` release; `QuarantineEnter`, `QuarantineWrite` quarantine, with
`RecordFailure`, `MarkEnter`, `MarkWrite` for its failure; `StartClear`,
`StartClearStale`, `ClearEnter`, `ClearRead`, `ClearRename` the operator's commands.

### Approval

All updates have one shape, a guarded read, test and write, so `Enter`, `Busy`, `Read`,
`Refuse` and `Write` run them all and the operators `Test` and `Result` say what each
demands and writes. `Look`, `RecoverList`, `PendingList`, `Request` are the look before an
operation or a preflight; `ClaimList`, `Try`, `Exhausted` go through the candidates;
`LeaseWake` is the heartbeat; `Mark`, `Finish`, `StopLease` are the capability and its
end; `Decide` the people. A listing is one step: only candidates leave it, and every
candidate is tested again under its guard.

### Operation

State: for each operation its program counter, its capability (`cap`), the state of
the process it started (`proc`, with the names of `StartedProcess.state`), whether its
signal is aborted, what it has marked, whether it succeeded, and what failed in its
cleanup. `Begin` to `RaceEnds` are the try block, `Clean` to `Unlock` the cleanup;
`Listen`, `Launch`, `Return` and `Run` are the capability and its process, which go on by
themselves when the operation no longer waits. Three kinds of capability: an `action`
and a `workflow` of an adapter bundle, which register no cleanup for their process, and
a `registered` one, which does as the documentation asks (the repository's tests do).

### ManagedSession

State: the session record with its revision, the lock, and for each start the program
counters of its launcher and of its host, with what each last read. The launcher
reconciles, creates, spawns and polls until the record is running, the host is gone or its
time is over; the host claims the start, creates its run, takes the lock, opens the
port, listens, marks running, serves, and cleans up in the order of its finally block;
the reconciler marks a dead host's session and clears its lock. Each of these steps
may meet a death, an error of the call it makes, or a guard that stays busy. A one-shot
operation competes for the lock, and `lock clear-stale` runs at any time.

### The programs of `MCPrograms`

Each is a component on its own, with variables of its own:

- `WriterLease`: requests are read, authorized and answered in any order; clients give
  up after their timeout while their request stays; the lease expires; the chain of
  writes goes on after all of it; the host closes the control channel, then the port.
- `SessionLog`: the bytes of a data event, a decoder that holds back half a character, the
  cut into records in three modes, three limits, a kill, and a follower with a tail. A line
  loses one carriage return; the device sends neither bytes outside a character nor a byte
  order mark, which the decoder would replace and drop.
- `RunRecord`: five files written one after the other by the owner, which marks its session
  afterwards, or by reconcilers of a host that died before it had; any of them may die, or
  fail to write, in between; prune removes by rank or by age.
- `SystemOperation`: the preflights in parallel, then the members in parallel or in their
  order, while people approve and other processes use or outlast approvals.
- `WorkflowRun`: where the code tests a signal (`throwIfControlled`) and where it only
  listens (`abortAfter`) are different steps; a step may be skipped, fail, be allowed to fail.
- `FileCommit`: every rename may fail, an abort is seen only where the code looks, and
  another program may replace the target at any time. A collection may be killed, or fail to
  remove the file that it could not register; such a file has no record (`left`).
- `ProcessOutput`: every way to cut a stream of bytes into chunks, over both buffers, until the
  process has ended or was given up.
- `ToolSetup`: every launch chain of two tools that an author may write, on a few computers.
- `EimInstall`: two installers and a new release, kills, an archive of any origin in the
  cache; and the monitor's generations, timers and late readings.
- `ProjectConfig`: the file is a set of facts; what a command checks, and the list that it writes
  anew to change one member or adapter, comes from its load, the rest of the file from a second
  reading. What another command changed in that list since the load is therefore lost, as in the
  code (`management-use-case.ts:47-65`, `cli/index.ts:1704-1740`); everything older stays.
- `ProjectInit`: three links and their rollback.
- `CommandGraph` and `CommandLine`: all 67 declared commands; every line that the
  help documents, spoken by words or reached by menus, questions and going back; locks
  and approvals change while a question waits.
- `AdapterRules`: an adapter whose author changes and removes declarations, one after the
  other; the compiler's checks in the order of `validateSemantics`, and every lookup of
  the runtime. The form of single fields is one Boolean per declaration. What a capability
  without a view shows, and secrets in the items of an array, which the compiler does not look
  for, are left to the redaction at run time (`declarative-adapter.ts:319-325`), not modelled.
- `BundlePublish`: directories stand for the build they hold; two renames publish one.

## 3. Runs

Deadlock is not checked anywhere: every operation ends, and then the system stops.
"Bounds" names what keeps an instance finite.

| Run | Checks | Bounds |
| --- | --- | --- |
| `FileGuard_safe` | `MutexUnlessRecovererDied`, `NoFileError`, `StaleGuardRecovered` | 3 processes, 2 hosts, 1 attempt each, a death at any point |
| `FileGuard_recoverer` (finding) | `Mutex` | 4 processes, deaths of a holder and a recoverer |
| `DeviceLock_safe` | `HeldUnlessCleared`, `ActiveOwnerProtected`, `ResourceSpec`, `DisplacedStops` | 2 owners on 2 hosts, 1 operator with any flags, 2 commands, 1 death |
| `DeviceLock_recovery` (finding) | `RecoveryRecordHolds` | 2 owners, 1 operator without flags |
| `Approval_safe` | `ClaimHeld`, `OneEffectPerApproval`, `LifeSpec`, `LostClaimStops` | 2 operations on 2 hosts, 2 approvals, 1 death |
| `Approval_people` | `LifeSpec`, `ReusedNotRequested` | an operation and a preflight, 2 people with 1 command each, 2 approvals, 1 death |
| `Approval_consumed` (finding) | `MarkedMeansConsumed` | 2 operations |
| `Operation_safe` | `LockCoversRegistered`, `RunningUnderLock`, `GivenBackUnlessDeaf`, `SuccessMeansClean`, `OperationEnds` | 2 operations: a workflow against a registered capability or an action; 1 death |
| `Operation_exclusion` (finding) | `LockCoversProcess` | 2 workflows |
| `Operation_late` (finding) | `GivenBackMeansUntouched` | 2 actions |
| `Session_safe` | `PortUnderLock`, `StoppedMeansReleased`, `FailedBeforeClaim`, `RunningIsServed`, `QuarantineReported`, `TerminalFinal`, `Settles` | 2 starts and 1 operation on one device, 1 death, 1 failure; the first start lists first (the two are alike) |
| `Programs_safe` | one property per component, below | one small instance each |

`Programs_safe` is one run over instances that share nothing. Its variable `part` picks one
at the start and the others stand still, so its state space is the sum of theirs:

| Property | Says | Bounds |
| --- | --- | --- |
| `WriterSafe` | what a later lease writes comes after all of an earlier one's; an answer is true | 2 clients with 2 and 1 chunks |
| `LogExact` | the records repeat the raw capture but for the newline of each line and one carriage return before it, or a prefix after a limit or a kill; a follower reads each once, in order | 6 raw bytes, 3 records, 7 bytes of records, polls of 1; lines ended by LF, CRLF and CR CR LF, cut anywhere |
| `WholeUnlessMarked` | a run without the marker is whole, whoever died or finalized beside whom, and its verdict is its owner's or "failed" of an owner that died | 1 run, 2 reconcilers, 1 prune |
| `TurnsAndApprovals` | a member runs only when its turn has come; nothing is requested after a complete preflight unless an approval lapsed | 2 members, 2 commands, 2 requests |
| `StopsForGood` | the first thing that must stop a workflow stops it, and is what it reports | 3 steps |
| `FilesSafe` | a copy is all or nothing; every record has its file | 2 names, 2 collections |
| `CutsDoNotMatter` | captured text and lines do not depend on the cuts | limit 8 (head 2), lines of 3, streams up to 9 bytes |
| `ToolsRun` | after a setup that succeeded the tools it promises resolve | 2 tools, 216 computers |
| `InstallSafe` | what was saved is of one published release; a completed download is reported running at most once more | 2 installers, 2 releases; 2 downloads, 3 readings |
| `OlderChangesStay` | what an edit did not ask to change stays, unless it is newer than the load in the list that is written anew, or newer than the reading; the file always loads | 2 processes, 3 commands, 2 devices, 2 adapters |
| `InitCompletes` | after a failure or a kill the next `init` completes | 2 processes, 3 commands |
| `SaysWhatItDoes` | a line runs the command its help describes; no conversation ends in an error of a parser, nor in one of usage unless no member is left to add | all 67 commands, one name per kind, a system with and one without a device to add, scans with and without a find, 2 goings back |
| `Consented` | a lock in use or in quarantine is cleared only with consent to that state | one lock, one approval |
| `AcceptedWorks` | what the runtime looks up in an accepted adapter is there, is sound, and shows no secret, apart from the four cases it names | one adapter, 2 platforms, 2 changes out of some 65 |
| `BuildsHold` | no process mixes two builds; a build is in place when compilers have ended | 2 compilers, 2 loaders, 2 adapters |

Why these bounds are enough to be of use: the races here are between two parties over
one record, a third party at most re-creates what the first removed (which is why
`FileGuard` has three processes, and its violation four), and one death shows every
recovery once. A process uses the lock or an approval once; what a second use could
disturb, a second process with a fresh token disturbs as well. The limits of the data
models are chosen so that each is met exactly, missed by one and exceeded within the
stream. A mistake in an adapter is a name that is missing or of the wrong kind: one
change makes it, a second one can hide it. The theorems below remove the bounds for
the guard, the lock, the approvals, the operation.

Fairness. Every live process and heartbeat loop is scheduled and its timers fire: weak
fairness of the disjunction of its own steps, never of a particular outcome. The
busy timeout of ten seconds makes a waiting step possible whatever the guard does. An
operation whose lease is lost aborts (`Abort` in the two managers), because the loss
rejects a promise it awaits; in `Operation` the timer of every operation fires, because
`execute` always sets one. In `ManagedSession` the launcher's polling and the host's next
step are fair: both are timers or awaited calls that return or fail. Nothing is assumed of
capabilities, child processes, operators, people, clients, or the expiry of records (except
in `FileGuard`, where time passes). The programs of `MCPrograms` have safety properties only.

What the runs show. The guard excludes as long as no process dies while it recovers
somebody's guard. On such a guard, a live operation keeps its lock unless an operator
takes it with the confirmation its state demands, and it finds out if so; a claim is
never taken from a live operation of the same host, is not revived, and pays for one
effect, apart from the four circumstances that `Unsettled` names. An operation always
ends, reports success only when everything is put away, and keeps the device locked
while a registered process may be using it. The serial port of a session is open only in
the host that holds the device, whatever its launcher, its reconciler and its death do
in between, and its record settles. The rest of the program, which has no lock to rely on,
keeps its orders of writes and renames: what is half written can be told from what is whole.

Five runs are violated, each a disagreement of the code with its documentation; they are
described under `findings` in `PROJECT.json`:

1. Two recoverers of a dead recoverer's file can remove a live holder's guard.
2. After a failed quarantine whose mark fails too, `clear-stale` frees the device.
3. A busy guard at the settlement leaves a used approval claimed, to be recovered.
4. An aborted operation unlocks the device while its process is still being stopped.
5. An action that begins to listen after the abort starts its process all the same,
   under an approval that has been given back and a lock that has been released.

Smaller disagreements were met while modelling. No run is about them; the models follow the
code, and where a property would meet one its comment says so:

- `execute` does not look for a pending request of its binding and writes another one each time
  it is repeated (`core/operations/operation-runner.ts:385-401`); docs/safety.md:50 says pending
  requests of the same binding are reused, so that repeating does not make records without end.
  `ReusedNotRequested` says of pending requests what the code does: preflights reuse them.
- `run prune --keep` sorts ids ascending and keeps the first ones, which are the oldest
  (`application/runtime/use-case.ts:103-105`; `i18n/locales/en.yml:486` says newest).
- An approval that lapses between the preflight and a member's turn makes a system run
  in part and request (`core/operations/operation-runner.ts:77-80` says never).
- A host that dies between `acquire` and `markRunning` leaves its lock, and the
  reconciler reports its session without a lock problem (`core/sessions/session-reconciler.ts:70-81`).
- An extension with a session handler is accepted, but `resolveManagedSession` looks in the
  standard capabilities only (docs/adapter-capabilities.md:5,31); a `request` capability is
  accepted and then not ready (`operation-runner.ts:1148`; docs/adapter-runtime.md:33); the
  lock and terminal rules of sessions are checked for the ids of the contract only
  (docs/adapter-capabilities.md:37,41); serial actions are accepted and have no executor.
- Two collections of one run may use one artifact name; the second replaces the first
  (docs/adapter-parsers.md:31 says a collision fails).
- A host that dies after it finalized its run as "succeeded" and before it marked its session
  leaves the run to a reconciler, which finalizes it again as "failed" without looking at
  what it says (`core/sessions/session-reconciler.ts:84-105`). `WholeUnlessMarked` and
  `VerdictsStand` name this case (`Told`).
- The menu of a system offers to add a member when every device is one already; whoever
  follows it is told of a mistake of usage (`cli/index.ts:1201-1206`). The property names
  this case (`NoneLeftToAdd`). Other menus have errors of their own when they are empty
  (`AskAmong`, `CompleteSystem`); in the instance only a scan finds nothing.
- A lock directory that is being moved may be reported as `LOCK_CORRUPT`
  (`core/locks/lock-manager.ts:200`).

## 4. Proofs

TLAPS proves, from nothing but the assumptions the modules state about their constants:

| Theorem | States |
| --- | --- |
| `FileGuardProofs!TypeInvariant` | types, and that a token in use is of an attempt already made |
| `FileGuardProofs!GuardInvariant`, `MutualExclusion`, `NoMissingFile` | `MutexUnlessRecovererDied` and `NoFileError` for any processes, hosts and attempts |
| `DeviceLockProofs!TypeInvariant` | types, and that every program counter fits its process |
| `DeviceLockProofs!LockInvariant`, `HeldOrCleared`, `OwnerProtected` | `HeldUnlessCleared`, `ActiveOwnerProtected` |
| `DeviceLockProofs!Refinement` | `DeviceLock` implements `ExclusiveResource` |
| `ApprovalProofs!TypeInvariant` | types, and that what a thread has in hand fits the point it is at |
| `ApprovalProofs!ApprovalInvariant`, `ClaimIsHeld`, `OneEffect` | `ClaimHeld`, `OneEffectPerApproval` |
| `ApprovalProofs!Refinement`, `ReusedFirst` | `Approval` implements `ApprovalLife` (`LifeSpec`); `ReusedNotRequested` |
| `OperationProofs!TypeInvariant` | types, and that whoever has the lock has passed its acquisition |
| `OperationProofs!OperationInvariant`, `RegisteredCovered`, `RunningCovered` | `LockCoversRegistered`, `RunningUnderLock` |
| `OperationProofs!GivenBackUnused`, `CleanSuccess` | `GivenBackUnlessDeaf`, `SuccessMeansClean` |
| `SessionProofs!TypeInvariant` | types: no update writes a state the diagram does not know |
| `SessionProofs!SessionInvariant`, `PortGuarded`, `StoppedIsTrue` | `PortUnderLock`, `StoppedMeansReleased` |
| `SessionProofs!LateHostRefused`, `RunningIsTrue`, `QuarantineIsTold` | `FailedBeforeClaim`, `RunningIsServed`, `QuarantineReported` |
| `SessionProofs!TerminalIsFinal` | `TerminalFinal` |
| `RunProofs!LeaseInvariant`, `OneWriterAtATime`, `WhatClientsKnow`, `WritersAreSafe` | `WriterSafe`, and its two parts `LeaseOrder` and `AnswersTrue` |
| `RunProofs!RunInvariant`, `RunsAreWhole` | `WholeUnlessMarked` |
| `RunProofs!VerdictsStand` | a written verdict becomes at most "failed", of an owner that died before it marked its session |
| `RunProofs!WorkInvariant`, `WorkflowsStop` | `StopsForGood` |
| `RunProofs!SystemInvariant`, `MembersInOrder`, `TurnsAreKept` | `SerialOrder`, `TurnsAndApprovals` |
| `SharedFilesProofs!FileInvariant`, `FilesAreSafe` | `FilesSafe` |
| `SharedFilesProofs!InstallInvariant`, `ManagersArePublished` | `RunsPublished` |
| `SharedFilesProofs!ProgressInvariant`, `CompletionsSettle`, `InstallsAreSafe` | `LateAtMostOnce`, and with the former `InstallSafe` |
| `SharedFilesProofs!ConfigInvariant`, `FileAlwaysLoads`, `OlderChangesAreKept` | `AlwaysLoads`, `OlderChangesStay` |
| `SharedFilesProofs!FolderInvariant`, `InitsComplete` | `InitCompletes` |
| `SharedFilesProofs!PublishInvariant`, `BundlesHold` | `BuildsHold` |
| `DataProofs!LogInvariant`, `LogIsExactly` | `LogExact` |
| `DataProofs!SetupInvariant`, `SetupLeavesToolsThatRun` | `ToolsRun` |
| `DataProofs!AdapterInvariant`, `AcceptedAdaptersWork` | `AcceptedWorks` |
| `DataProofs!OutputInvariant`, `CutsMakeNoDifference` | `CutsDoNotMatter` |
| `DataProofs!ConsentInvariant`, `ClearedByConsent` | `Consented` |

`RunProofs`, `SharedFilesProofs` and `DataProofs` also prove that the variables keep their types (`LeaseTypes`,
`RunTypes`, ...), each a conjunct of the invariant of its component.

Inductive invariants. For the guard, `MutexUnlessRecovererDied` alone says nothing of a
process between two calls. `GuardInvariant` adds that whoever is past an exclusive create
owns the file it created, that a recoverer that goes on to unlink holds the only
recovery file, and that the record it is about to remove is the one it looked at and
belongs to a dead process; `SurvivalIsMonotone` lets the hypothesis about deaths be used
before and after a step. For the lock, `LockInvariant` adds that what a process read
under the guard is still there when it writes (the guard's holder is the only writer),
and that the record of an owner that ended or was cleared is nowhere, neither in the
file nor in what anybody read and will write back. The refinement needs exactly this:
a heartbeat's write is then a stutter, and only `Publish` takes the resource. For the
approvals, `ApprovalInvariant` says the same of many guards, where a dead process may
leave one wedged and time may make a record overdue meanwhile: what an update found under
its guard is still so when it writes (`FreshInv`), an operation that has claimed nothing
is in no record, and one that marked its effect is under its claim, consumes it, or has
consumed it or failed to (`MarkInv`). `OneEffect` follows at once, since a record names
one claimant; the refinement reads each of the six kinds of write off the invariant
(`WriteCases`), and a heartbeat's renewal is a stutter. `ReusedFirst` needs one more
invariant (`ReuseInv`) about a search: what it found at first is gone, still to be
tried, or being tried, and does not come back once it is gone. For an
operation, the four properties speak of a process, a settlement or an outcome long after
the steps that decide them. `OperationInvariant` carries those decisions along: the lock
is held, or was cleared, from the acquisition to the unlock; a capability goes through
its points in order; nothing but a deaf action runs on once the operation is aborted; the
cleanup leaves a registered process over or the operation unsafe, and an unsafe operation
leaves its lock behind; and a settlement fits what was marked and whether it succeeded.
For a session, what its record says, where its host is and who holds the lock are kept in
three places and written by three processes. `IInv` of `SessionProofs` says which
combinations occur: the host holds the lock from the acquisition to the unlock; a port open
later is one it could not close, and then the lock is left to it; `stopped` is written
only after a clean cleanup, and a host that was refused its claim has nothing to clean.
A step of one session leaves the others alone (`Frame`), but for the two that may write
for another one: the clearing of a stale lock, whose holder is over, and the reconciler's
failure of a record. The reconciler works on a copy of the records it once listed; that
copy stays true because records, claims and dead hosts never go back (`RecordsAdvance`,
proved of every step with the invariant, and the reason why `TerminalFinal` holds).
`TypeOK` of `ManagedSession` is only proved; `Session_safe` spends its time on the others.

For the writer's lease, what a client was told and what is on the wire are related only by
the way of a chunk: from the inbox, where it is once (`InboxInv`), to the chain, whose leases
never go back (`ChainInv`), to the wire (`WireInv`) or to nowhere. An answer may reach its
client when all of that is over, so `ReplyInv` says of an answer under way what
`OutcomeInv` says of one that arrived. For a run's directory, the order of the five writes
is the invariant: what is on the disk is what its one writer has got to (`OwnerInv`, and
`WorkInv` for the reconcilers of an abandoned run, who all write "failed", so that one
that comes late writes what another has written; over what the owner wrote they write it
again, with the marker first). For a workflow, every step before the one at
hand has passed and none after it was tried; for a system, what the preflight found ready
is there for its member as long as nobody else takes it (`ReadyInv`).

For the files that are shared without a lock, each invariant says what one process may
rely on whatever the others do. A copy: the backup is what the target was, and each point of the
code knows what is at the target (`CopyInv`); a collection: a file has its record except
the one at hand (`CollectInv`). An installer: the bytes it caches are of the release it
resolved, hence nothing else is ever unpacked (`ArchiveInv`), and it knows of those who
unpack where it does (`SharedInv`). The progress: a reading of an older generation is never used
(`ObservedInv`), so a completion is taken back once at most (`OnceInv`). Two commands
that edit the configuration: a draft differs from the file as it is now only in what was asked
for, in what was changed since it was read and, in its list, in what is no longer as it was
loaded (`DraftInv`), because a list that is written anew differs from the loaded one in what was
asked for alone (`ListInv`): the theorem says precisely which changes of others a rename can
undo. `init`: as long as commands
do not overlap, what is there tells how far the one at work has come (`AloneInv`). Compilers: there
always is a build somewhere that will come back (`PlaceInv`).

Five results rest on what a recursive definition computes. A set of numbers that has 0 and
the successor of each of its members has them all: `DataProofs` proves that as a statement
about sets (`LeastIs`, `Induction`), since the library's induction theorems take an operator. From it
follow that a recursive function exists and what it has at each place (`JoinsExist`,
`LaunchExists`, `AfterIs`), and so what a log's records say when one more is appended (`FlattenAppend`).
Then every byte of the raw capture is in a record, waits for one or is held back
(`ExactInv`). For the output of a tool, `CaptureInv` says which byte of the stream each place of
the head and the tail holds. `LinesInv` compares lines given out, each of which may be cut to its
end, with those of the stream: reading a text in pieces is
reading it at once (`AfterBoth`, `SplitBoth`), and a tail that was cut to its end still follows the
line it belongs to when both are read on (`FollowsAfter`); so the cut of one chunk never
reaches the lines of another. The launch chain of an accepted tool keeps to declared tools (`LaunchDeclared`), which is
one of the many lookups of `AcceptedWorks`: for each of them the proof has the
rule of the compiler (`RulesFit` of every platform) that the runtime relies on. A setup
writes the values its tools were resolved with (`ResolvedInv`), hence an operation after it
resolves them in the same way.

`Consented` compares the end of an invocation with its beginning: the options that lead to
the clearing of a lock with those of the line that was typed. Between the two lie menus,
questions, goings back and two parsers, the second of which reads a line that the program
itself wrote from what it had. `ConsentInv` therefore speaks of
`--dangerously-clear-active-lock` and `--dangerously-clear-quarantined-lock`, and says of the values, of the draft and of the question that waits that they
have them only if the line has (`Clean`), unless the words begin with another command than `lock`
(`Cautious`: another command may well have an option of the same name, and never gets to the
clearing of a lock); after the one question that asks for consent, also what was
agreed there (`Agreed`). It rests on three facts: both parsers find the same options in a line, however they
divide the rest (`ReadsAll`, by induction over the line); a line that is written again has
just the options it is written for (`LineOfIs`); and no other question offers one of the two
(`MenuFits`, `QuestionFits`). A going back returns to a line that was good before, so there may be any
number of them.

Assumptions. Everything above rests on the named `ASSUME`s next to the constants; they say that
sets of processes are disjoint, that the markers for "nobody" and "no build" are none of
them, that bounds are numbers, and what the inputs look like (chunks are byte
strings, rules name tools that exist, a command begins
with its own word, and no command of locks requires one of the two options of consent). TLC evaluates each of them in the run of its module. Atomic
actions, and a write that is whole or absent, are assumptions of the models, not of the proofs.

Only model-checked: the liveness properties (fairness and `ENABLED` are outside the
prover's reach), and `SaysWhatItDoes`, whose subject is the one command graph the program
has: a constant that the run enumerates whole.

## 5. Mutants

`PROJECT.json` names for every property a change of the modelled code (a dropped guard, a
swapped order, a missing comparison) under which TLC finds it violated; its operator stands
before the definition that it changes, with a comment.

## 6. Plan

Done: guard, locks, approvals, operations, sessions with control and log, runs, systems,
workflows, files, output, tools, installer, configuration, init, command line, adapter
rules and bundles; proofs of the guard, the lock, the
approvals, the operation, the sessions, the lease, runs, workflows, systems, shared files, logs, output, tools and adapter rules,
and of the consent that a command line must carry.

What is left is in section 7.

## 7. Not modelled

- Views, rendering, reporters, translations, the error catalog and the public contracts: data
  to text, or texts. That a rule names a message that exists is in `AdapterRules`.
- JSON schemas, templates, conditions and paths: recursion over one value or one string. Where a
  component asks whether a value fits, its model has a Boolean.
- Discovery scores, conformance cases, queries, the check for upgrades, prompt keys.
- In the modelled components: the options of the command line in inline and negated form, the
  cache of captured environments, the search for git, keys of the configuration outside
  devices, systems and adapters, the stop of a process tree by the system's own commands
  (`PROJECT.json` has the list per component).
- Real time: leases, graces and timeouts are steps that may happen at any moment, which
  includes the orders that a clock would forbid; a timer that is set too far ahead and fires at
  once (`operation-runner.ts:485`) is one of them. Reuse of process identifiers is left out.
- Users of one machine: `Host` stands for the machine and the user. A process that may not be
  probed (EPERM, `file-guard.ts:62`, `lock-manager.ts:324`) goes by its expiry, as on another machine;
  that it is gone is then known no later than its expiry, which in the models may be at any moment.
- Whether a file write is atomic: the code writes to a temporary file and renames.
- The listing of locks and the removal of staging directories: read-only or private. A child
  process that outlives a killed BenchPilot (`process-runner.ts:153`) is beyond its control.
- A managed session whose start succeeded and whose output or settlement then fails: its claim is
  given back while it runs (`operation-runner.ts:1166`). The two sides are in different models.
