# Hermes3D in TLA+

A verification development for the Python backend of Hermes3D
(`03_implementation/src/hermes3d`, about 69 000 lines), the control plane of a farm of 3D
printers: it repairs its own failures, lets "personas" work on a queue of tasks, and takes a
mesh through a workflow to a print. The modules here model the parts whose correctness depends
on the order in which threads, processes, people, crashes and answers interleave. TLC checks them
on small instances; TLAPS proves the central invariants for all values of the constants.

Paths below are relative to `03_implementation/src/hermes3d/`.

## 1. The system

### 1.1 Components, state, operations

| Component | State it keeps | Operations | Here |
|---|---|---|---|
| Recovery controller v2, `services/recovery_controller.py` | `_RUNS`, `_OPEN_BY_FINGERPRINT` in memory, under `_REGISTRY_LOCK` | start, cancel, freeze, thaw, propose, review, apply, resume | `RecoveryController` |
| Failure ledger, file locks, patch applier, `services/code_history.py` | JSON-lines ledger and its lock file, snapshots, live files; locks in the external MCP lock server | record_step_failure, mark_recovery_outcome, lock and release files, snapshot, apply_patch_proposal | `AttemptLedger`, `RecoveryController` |
| Task queue, `services/queue_bridge.py`, `queue_poller.py`, `persona_executor.py`, `api/routes/agent_queue.py` | a directory tree: pending, claimed, done, blocked; handoff documents | claim, heartbeat, complete, block, release; a poller's tick; execute a claimed task | `TaskQueue` |
| Print workflow, `core/orchestration/*`, `core/agents/orchestrator.py` | `WorkflowState`, its checkpoint file, the job queue file, the printer | run, resume, twelve nodes, retry, repair, two runners | `PrintWorkflow` |
| Job queue, `core/agents/job_queue.py` | a JSON file and its `.tmp`, a copy per object | load, enqueue, cancel, save | `JobQueue` |
| Job rows and approvals, `api/routes/jobs.py`, `approvals.py`, `slicer.py`, `design.py`, `services/job_reconciler.py` | SQLite rows of jobs, steps, approvals; worker threads | slice, design, cancel, repair, retry, roll back, decide, reconcile | `JobRows` |
| Printer starts and build plates, `api/routes/printers.py`, `observe.py`, `services/local_state.py` | rows of the plates' clearance, notifications; the printers' telemetry | start a print, show plates, mark a plate clear | `PrinterFloor` |
| Updates of source modules, `api/routes/modules.py` | a git checkout, bundles, zips, backup rows | back up, update, roll back | `SourceUpdates` |
| Updates of the Hermes Agent, `api/routes/agent_updates.py` | a git checkout, backup records | back up, staged update, repair, roll back | `AgentUpdates` |
| Supervisor of source services, `services/source_service_supervisor.py` | processes, one JSON file of pids | start, stop | `ServiceRunner` |
| Capability tokens, `orchestration/supervisor.py`, `ledger.py`; provider probes, `gateways/probe.py`, `cli/probe.py` | token registry, mutexes, event ledger | issue, dispatch, probe | `Dispatch` |
| Agents' edits of the source, `services/code_history.py`, `api/routes/code_operator.py` | the checkout and its index, snapshots, proposals; file locks | propose, apply, restore, stage, commit, branch | `CodeEdits` |
| Task DAG, `orchestration/dag.py`; temperature monitor, `core/safety/thermal_runaway.py` | one call's argument; a window of samples | validate; feed | planned |
| the rest: routes, module runtime, gateways, memory, slicer, farm, integrations, adapters, UI | files, SQLite, external processes | request and response | not modelled, see 7 |

### 1.2 How they interact

- FastAPI runs the synchronous handlers in a thread pool. The recovery functions are therefore
  called concurrently; they take `_REGISTRY_LOCK` for short sections and do their I/O (ledger,
  lock server, providers, gate) between two sections.
- The ledger file is shared by every process and guarded by an OS file lock. It survives a
  restart; the registry of runs does not.
- The queue poller is an asyncio task whose tick runs in a worker thread; the operator's routes
  call the same bridge functions from the pool, and other agents move the same files through an
  MCP server. Nothing locks the tree: an `os.replace` is the only atomic operation.
- A workflow runs in one thread. Its nodes call the job queue and the printer; after each node
  the state goes to a checkpoint file, from which `load_checkpoint` and `run` resume it.
- The GUI's routes run in the same pool. Each SQL statement is a transaction of its own, and a
  route that reads, decides and writes does so in several; slicing goes on in a thread that the
  request has started.
- Commands, MCP calls and workflows are processes, or objects, of their own: they share the job
  queue's file and the event ledger with the server, through the file system only.
- git checkouts and the services' processes are shared with people, and with the operating system.
- What agents write into the source is ordered by the file locks of the MCP lock server, which an
  operation asks once, before it writes.
- The eight parts from the job queue to the edits share no state with one another: composing them
  (`Backend`) is a matter of interleaving. What the job queue and the edits share with the print
  workflow and the recovery controller (the queue file, the file locks) is in each module as what
  others may do to it at any moment.

### 1.3 What is hard

- *Check, work outside the lock, act*: the recovery functions look at the state in one section
  and assign it in another, after an I/O of arbitrary length.
- *Compensation*: freeze, apply and resume swallow the ledger's exceptions and go on.
- *Files as the database*: read, write a shared `.tmp`, replace, move, by several threads, and a
  crash between any two.
- *Stale listings*: the executor works through a listing for minutes.
- *Effect, then checkpoint*: a crash or a lost reply between the two repeats the effect.
- *Two statements for one fact*: a job's row and its steps, a plate's flag and its notification, a
  proposal's base and the file, an index and the commit made of it.
- *No lock where one is claimed*: the job queue's `.tmp`, the records of the services, checkouts.
- *Recycled names*: a pid given to another process, a file printed twice, a `.tmp` of another save.
- *Retry upon retry*: `with_retry` inside the runner's own retries, and a repair agent behind.

### 1.4 What makes each part correct

- Ledger: an attempt is closed at most once, for good, whoever races to close it.
- Recovery controller: what a run shows is what the ledger says; hard-escalated failures are
  never patched; only reviewed bytes go live, once; a run leaves APPLYING; locks are returned.
- Task queue: no task lost; one directory per task; other agents' tasks left alone; every task
  that can move moves.
- Print workflow: a print only of a checked mesh on an allowed printer; effects repeated only by
  a fault in the one window; every run ends.
- Job queue: the file can always be read, and a save that overlaps no other loses no job.
- Job rows: a job's row fits its steps; a repair is decided about once.
- Printers: no print over a finished part; a finished plate is flagged and somebody is told.
- Updates: nobody's work is lost, an update goes forward or leaves things where they were, a
  version is reported only if it passed its checks.
- Services: one process each, which its record names; a stop hits nothing else.
- Dispatch: a token authorises one dispatch, a unit has one handler, probes keep their distance.
- Edits: a file is written under its lock, over a text that is kept; a commit is what it says.

## 2. Modules

| Module | Role |
|---|---|
| `AttemptLedger` | abstract specification: what the durable ledger promises of one attempt |
| `RecoveryController` | the saga over registry, ledger, file locks and patch applier; implements `AttemptLedger` |
| `RecoveryControllerProofs` | types, ledger invariants, the refinement, no lock and no patch for a class that is never auto-recovered, one patcher, the index; for calls that do not overlap, one open run for each pair and a ledger that agrees |
| `TaskQueue` | the task tree with all its users |
| `TaskQueueProofs` | no task lost, one copy |
| `PrintWorkflow` | nodes, runners, checkpoint, printer, crashes |
| `PrintWorkflowProofs` | types, effects once per fault, checkpoint, only checked prints |
| `PrinterFloor`, `PrinterFloorProofs` | printers, build plates, the requests that start prints and clear plates; no checked start over a finished part, a notification for each flag |
| `JobRows`, `JobRowsProofs` | rows, steps and repairs of jobs with all their writers; the row fits the steps |
| `JobQueue` | the queue file, its inodes and the objects on it |
| `SourceUpdates`, `AgentUpdates` | the two checkouts, git command by git command |
| `ServiceRunner`, `ServiceRunnerProofs` | processes, pids and records; a stop hits its own, one recorded process |
| `Dispatch`, `DispatchProofs` | tokens, mutexes, ledger, probes; spent once, one handler, paced |
| `CodeEdits` | the agents' edits under file locks, the index and the commits |
| `Backend` | the composition of the eight parts from `PrinterFloor` to `CodeEdits` |
| `BackendProofs` | the proofs of `JobQueue`, `SourceUpdates`, `AgentUpdates` and `CodeEdits`; the composition implements all its parts, and their theorems hold of it |
| `MC_*` | small instances for TLC, one `.cfg` for each run |

Operators whose name has an underscore after a definition's name (`MarkScan_Unlocked`) are
mutants: plausible bugs in that definition, put just before it. No specification uses them; for
each property of a passing run there is one, listed in `PROJECT.json`, that the property refutes.

### 2.1 RecoveryController

A `Call` is a thread of the pool. `call[c].op` is the public function it runs and `call[c].pc`
the step it takes next; the other fields are the local variables it carries across the steps.
Each section under `_REGISTRY_LOCK` is one action (`StartCheck`, `StartRegister`, `CancelCheck`,
`CancelFinish`, `FreezePersist`, `ApplyCheck`, ...), and so is each I/O between two sections
(`FreezeLock`, `FreezeSnapshot`, `ResumeGate`, `PatchReplace`, ...). `Transition` is
`_transition`. Two things follow the code in a detail that matters:

- `mark_recovery_outcome` is split into the scan and the append, with `ledgerLock` held in
  between, and is shared by all its callers; `AfterMark` says how each of them takes an exception.
- the `_transition` at the end of `start_recovery`, the only one made without the registry lock,
  is three steps (`StartEscalate`, `StartLookup`, `StartDrop`).

`fileLock` is the lock server's table: our owner id is the same in every thread, so the server
tells our tasks apart, and another agent, or an expiry, may act at any time (`LockServerStep`).
`patched` is a history of which proposals' bytes went live. A call that returns early changes
nothing and has no action. Left out: the texts, the retry budget (it is only validated and
stored), and the failure classes but for the one distinction that `select_branch_for_class`
makes and the controller acts on (`HardKey`).

### 2.2 TaskQueue

`file[d][t]` and `tmp[d][t]` are the files `<t>.json` and `<t>.json.tmp` of directory `d`; of a
body only `claimed_by` is kept, nobody reads the rest to decide anything. A bridge function is
`BridgeRead`, `BridgeWrite`, `BridgeReplace`, `BridgeMove` (and `ClaimReport`), where each step
is one file operation; the functions differ in the directory (`Source`, `Target`), the patch and
the owner check. `Tick`, `NextItem` and `NextPhase` are `tick_once` with its three listings,
`Exec*` is `execute_one`, the `*Route` actions are the operator's routes. `raced` is a history:
the tasks on which one bridge function has read the file while another was between its read and
its last step.

### 2.3 PrintWorkflow

`mem` is the `WorkflowState` of a run, `disk` its checkpoint, `at` the runner's place. A node
does its work in one step (`Enqueue` ... `StartPrint`); the runner records the result and saves
the checkpoint in the next (`Save`); `Crash` may come between. `Escalate` is a node that spends
the budget of `with_retry` and is handed to the repair agent. `Again` is the runner's own retry.
`quality` is what the mesh really is, which the truth gate finds out, and `mesh` which file
`mesh_path` names. `printing`, `remote` and `starts` are the printer's side; the job queue is the
number of jobs each workflow has put into it. A history list becomes the set of nodes that
passed: the runner reads nothing else of it. Left out: what analysis, cost and notification
compute, and `stop_after` and `next_node`, which no caller uses.

### 2.4 The parts of the backend

In all of these a request is a thread `t` with a record of its local variables, `pc` first; each
SQL statement, HTTP call, git command, file operation or section under a lock is one action.
Requests that are refused before they have changed anything have no action.

- **`PrinterFloor`**: `machine` is what a printer answers, `plate` what really lies on it; `view`
  is the telemetry a request has read, `todo` the printers it is about to write rows for. `Ask`,
  `ReadRows`, `Upsert`, `ReadBack` are `build_plate_clearance_rows`; `MarkClear`, `Dismiss` the
  operator's mark; `CheckIdle`, `Starts`, `StartFails` the rest of the upload route.
- **`JobRows`**: `steps[j]` and `repair[j]` are the statuses of a job's rows in order; a worker's
  `again` says that it runs on a job that has steps already. `design` requests write in their own
  thread, `slice` ones in the thread that they have started.
- **`JobQueue`**: files are inodes, since a writer of the shared `.tmp` goes on writing the inode
  after another has renamed it. `fresh` and `shared` are histories of an object.
- **`SourceUpdates`**: a commit is an upstream one with a number of local ones on it; `work` is
  uncommitted, each piece in a file of its own. `Bundle` follows `_git_text`, which strips git's
  list of dirty files and so cuts the first name: that file is not found and not zipped.
- **`AgentUpdates`**: a commit is a release, or one that somebody made upon it. `Target` is the
  order in which a repair looks for something to check out: the (nearest) tag first.
- **`ServiceRunner`**: a pid belongs to one process at a time; an ended child stays a zombie until
  it is reaped. `copy` is the file of all records that a request carries from read to write.
- **`Dispatch`**: `Mutex` objects are told apart by who made them, so that making two for one unit
  would show. Probes run against a ledger that is shared but not locked.
- **`CodeEdits`**: `live` is the working tree, `index` what is staged, `tip` the branches. An
  apply is read, lock question, snapshot, intent, rename, verify, with the roll back of `Verify`.
  People edit, locks run out and change hands; earlier sessions' leftovers are in `Init`.

`Backend` puts them together: `Next` is a step of any part that leaves the others' variables
alone. `MC_Backend` gives it constants and a variable `part`, the part that moves in a behaviour;
as the parts share no variable, what their interleavings show each part shows by itself, and TLC
would otherwise multiply their states.

Where code takes no lock, a property can only be claimed of those who were not disturbed. What
"disturbed" means is kept in history variables, which no guard reads: `late`, `crossed`,
`overtaken` (a mark, a check or a commit with something in between), `raced`, `torn` (a job in two
hands, or whose worker was stopped), `mixed` (an inode two saves have used), `alone`, `missed` (an
update with others in the checkout), `recycled`, `astray` (a pid given again, a record another
write undid), `contested` (a file whose lock kept nobody out). Each is as narrow as the code
allows: TLC finds the property violated when the exception is left away.

## 3. Runs

All runs together take about four minutes with two workers.

| Run | Instance | Properties |
|---|---|---|
| `rc_saga` | 1 attempt, 2 threads, an ordinary and a hard pair, failing lock server, `mark-outcome` route; 187 462 states | `TypeOK`, `CancelledIsClosed`, `HardEscalateIsNeverPatched`, `LedgerKeepsItsPromise`, `ApplyingEnds` |
| `rc_reviewed` | 2 attempts, 2 threads, 2 pairs, 2 proposals, no faults; 2 148 088 states | `PatchedWasReviewed`, `OnePatcherPerRun`, `TerminalIsClosed`, `IndexNamesOpenRun` |
| `rc_sequential` | 2 attempts, 1 thread; 70 135 states | `LedgerAgreesWithRun`, `OneOpenRunPerFingerprint` |
| `rc_cancel_applying` | violation | `CancelRefusedWhileApplying` |
| `rc_failed_apply` | violation | `FailedApplyReleasesLocks` |
| `tq_tick` | 2 tasks (one with an executor), 1 persona, poller and 1 operator, all routes, a foreign agent, restarts; 394 412 states | `TypeOK`, `NothingLost`, `OneCopy`, `ForeignIsLeftAlone`, `TasksMoveOn` |
| `tq_claim_race` | violation | `OneClaimer` |
| `pw_resume` | 1 workflow, a free and a locked printer, 1 retry, 1 fault, LLM available; 647 529 states | `TypeOK`, `OncePerFault`, `CheckpointTellsWorld`, `OnlyCheckedPrintsStart`, `RunEnds` |
| `pw_suggested_fix` | violation | `PrintIsChecked` |
| `pw_langgraph` | violation | `StepsAreSkipped` |
| `backend` | the eight parts, 2 threads each, one part at a time; 1 387 919 states | `TypeOK`, `CheckedPlateIsEmpty`, `FlagIsNotified`, `StatusFitsSteps`, `DecidedOnce`, `QueueFileReads`, `SavesKeepJobs`, `OlderWorkIsKept`, `UpdateIsForward`, `LocalCommitsAreBackedUp`, `UpdatedIsVerified`, `RepairRestores`, `LiveIsRecorded`, `StopHitsItsOwn`, `OneHandlerPerUnit`, `TokenIsSpentOnce`, `ProbesArePaced`, `WritesAreCovered`, `CommitIsAsReported` |
| `fl_first_row` | violation | `FinishedIsFlagged` |

What they show:

- **`rc_saga`** asks the hard question of the ledger: with two threads in any of the functions,
  the route, a lock server that fails before or after it acted, and restarts, no attempt is
  closed twice or differently. `CancelledIsClosed` survives because `cancel_run`, unlike the
  others, lets the ledger's exception out. The hard pair is never frozen or patched even when
  its escalation failed half way.
- **`rc_reviewed`** needs two proposals, so that a verdict can land on another one than it was
  asked about, and two attempts, so that an index entry can be taken over. Here, and only here
  and in the two violation runs, `SerialFreeze` is assumed: callers never overlap two
  `freeze_run` of one attempt. Without it, the second freeze takes a run that was already
  reviewed back to PROPOSING, and a review of the
  first proposal that is still under way is then stored as that of the second:
  `PatchedWasReviewed` fails, and so does `OnePatcherPerRun`.
- **`rc_sequential`** shows that the contract the docstrings state holds when calls do not
  overlap. Neither of its two properties survives two threads: the docstrings leave that condition
  out.
- **`tq_tick`** shows that the tree never loses a task under any overlap, and that all the
  duplicates come from two functions on the *same* task at once.
- **`pw_resume`** shows the exact price of a crash: one more job or print for each fault in the
  window between a node's effect and its checkpoint or each lost reply, and none otherwise.
- **`backend`**, part by part:
  - floor (310 000 states): a print whose check saw the telemetry never starts over a finished
    part, though plates are shown, marked and started on meanwhile. A mark that a print's end has
    overtaken wipes the flag of that print (`late`); a start after it is not safe. Nor is one on a
    printer whose first row names the print that was under way (`early`; finding 6), or was
    written over the row of another request that had seen the print end.
  - rows (148 000): one repair and one retry at a time keep row and steps together; two at a time,
    or a worker cut off between "failed" and the failed step (`design.py:113`), do not.
  - queue (185 000): the `.tmp` protects a reader and a crash, not two writers. The module's
    comment claims an OS lock on the file; there is none.
  - source (56 000), agent (268 000): updates go forward or back to where they were. `reset --hard`
    loses the one dirty file whose name was cut, and anything changed since the backup looked.
    A repair returns to the nearest tag, and so not to a local commit upon it.
  - runner (76 000), tokens (225 000): with a record per service a stop is exact; the one file for
    all records makes requests for *different* services disturb each other. A poll handler that
    raises leaves a spent token and no event.
  - edits (50 000), commits (68 000): the base is compared before the lock is asked for, and it
    still holds at the rename unless the lock failed to keep others out. The verification after
    the rename puts the old text back over whatever it finds, a later writer's too. A refused
    commit leaves its files staged, and then two agents' staged files refuse each other's commits.

### 3.1 Where the code departs from what it says

Each has a run that finds it and an entry under "findings" in `PROJECT.json` with the line.

1. `cancel_run` "refuses the cancel" in APPLYING, but checks that only before it writes the
   ledger (`rc_cancel_applying`, 17 states).
2. `apply_proposal` says that a failure releases the file locks "via thaw_run"; it never calls it
   (`rc_failed_apply`).
3. `_write_then_move` says that of concurrent claimers "at most one" succeeds; the replace
   recreates the file that the winner moved, and both do (`tq_claim_race`).
4. A node whose retries are exhausted is surfaced "as a FAIL"; an LLM's mere suggestion makes it
   a PASS, for preflight too (`pw_suggested_fix`).
5. A step that has run is "skipped on resume"; not by the langgraph runner (`pw_langgraph`).
6. "Completed print detected; build plate must be checked before the next print starts": a
   printer's first row, written while a file is being printed, is clear and names that file
   (`local_state.py:523-531`), and a clear row that names the file is taken for one whose plate
   was cleared (`:509-513`). That first print is not flagged when it is complete, and the next
   start goes through (`fl_first_row`; one file, one thread). The same condition misses a file
   that is printed, cleared and printed again: with `Known = {p1}` and `Reprint` TRUE the property
   fails in that way, and with `Known = {p1}` and `Reprint` FALSE it holds.

### 3.2 Bounds

- `Attempt`, `Call`, `Key`, `Proposal`, `File`: two of what a property relates, one of the rest.
  Attempt ids are never reused, also across restarts, so the attempts bound the number of failures.
- `Faults` switches the lock server's failures and malformed ids on. `RouteOutcome` is what the
  route is called with. `Redacted` is the identity in all runs: a summary that redaction changes
  is never found again by the duplicate check, which is listed as a hazard.
- `MaxEvents` bounds requests, foreign moves and restarts together in `TaskQueue`; two of them
  are enough for any pair to meet a tick, and ticks are unbounded. `MaxClaims` and `MaxExecute`
  are 1, so that the limit bites with two tasks.
- `MaxRetries` is 1 (the code's default is larger; it is a counter), `MaxFaults` 1 for each
  workflow: with it a workflow may still be resumed, fail and be resumed any number of times.
- Two workflows share nothing in the model but the printer; one is enough for the properties.
- `MC_Backend`: two threads in every part, and two of everything that a property relates
  (`Name`, `Pid`, `Queue`, `Task`, `Text`, `Top`, `Last`) but printers, jobs, units and agents, of
  which the properties speak one at a time (one printer already has two prints, two marks and two
  starts). The counters `Max...` bound requests (2 or 3 in each part), restarts, faults, prints,
  ledger events and outside moves. With 3 requests on 2 threads a third may come in while the
  second overlaps the first. `Window` 0 and `MaxClock` 1 give probes at one tick and at two.
  Three inodes are enough: one is the queue, one the `.tmp`, one still open. The instance starts
  `edits` with one proposal and one lock, `commits` with two tasks' changes, and the other parts
  with `CodeEdits` at rest. Symmetry in `Request` and `Name`. Each module was also run alone with
  larger bounds (`CodeEdits` with any leftovers in `Init`, 5.3 million states).
- `MC_PrinterFloor` (`fl_first_row`): one printer without a row, one file that is printed once.
- Deadlock is checked in `TaskQueue` and `PrintWorkflow`. In `MC_Backend` the bounds end every
  behaviour, and it is not. In `RecoveryController` it is not: once
  the attempts are used up and closed there may be nothing left to do.
- `rc_reviewed` uses symmetry in attempts and threads; it checks no liveness.

### 3.3 Fairness

- `ApplyingEnds`: weak fairness of a thread's steps inside `apply_proposal` and the ledger. They
  are local file I/O and MCP calls with a timeout; the OS lock is kept across one step, the
  append, and each attempt is appended to once, so waiting for it is not starvation.
- `TasksMoveOn`: weak fairness of `Tick` (`run_forever` sleeps and ticks again, whatever a tick
  raised) and of each thread's steps (file I/O, or the LLM call with its timeout). Nothing is
  assumed of operators, foreign agents or crashes.
- `RunEnds`: weak fairness of a workflow's steps; that anybody resumes it is not assumed.
- `Backend` states no fairness: what its parts promise is safety. Nothing there is retried by the
  code itself, a request that stops half way is what `Restart` and the crashes model.

## 4. Proofs

All theorems hold for every value of the constants that satisfies the named assumptions
(`ConstantsAssumption`, `QueueAssumption`, `BackendAssumption`, ...), on any number of attempts,
threads, tasks and files.

- **`TypeCorrect`** (`Spec => []TypeOK`). `TypeOK` is not inductive: that a step may index `run`
  by `call[c].attempt` depends on the thread's pc. `TypeInv` adds `ThreadOK`, what a thread's
  local variables are worth at each step, and `RunOK`, that a registered run has its pair. One
  lemma for each action; `OneThreadMoves` carries the threads that do not move.
- **`CancelledClosed`**, **`TerminalClosed`**. Whether a run may become CANCELLED or terminal
  depends on what the thread did to the ledger earlier. `LedgerInv` relates each thread's pc to
  the attempt's rows (`LedgerThread`: a cancel at its second section has `<<"retry_failed">>`
  behind it; who appends holds the lock and found no row), each run's state to its rows
  (`RunClosed`), and says that rows only ever number one (`RowsOK`).
- **`LedgerPromise`** (`Spec => LedgerKeepsItsPromise`). Under the mapping `LedgerStatus`, which
  is how `list_recovery_attempts` reads the file, `StartRecord` and `RecordRoute` are `Record`,
  `MarkAppend` is `Close`, every other step stutters. `Close` needs an open attempt: that is
  `LedgerThread` at "append".
- **`HardNeverPatched`** (`Spec => []HardEscalateIsNeverPatched`). The branch is looked at in
  `FreezeCheck` only; every later function relies on the state it finds. `HardInv` says so:
  a thread inside a function that locks or patches works on a registered run whose pair is not
  hard (`ThreadSafe`); and, since `StartRegister` overwrites a run, an attempt id belongs to the
  one thread that recorded it (`OneRegistrar`), with no run and no patch yet (this needs
  `RunClosed` of `LedgerInv`: a run has a row). `OneThreadSafe` is the frame: a step
  that keeps the runs' pairs has to show its own thread and the changed run safe.
- **`OnePatcher`**, **`OnlyReviewedPatched`** (`Spec => []OnePatcherPerRun`, `...
  []PatchedWasReviewed`, both under `SerialFreeze`). `SagaInv` has three parts. `Fits`: what a thread
  inside a function relies on is still so, since only a cancel takes a run out of the state that
  freeze or apply works in, and the proposal of a run under review stays the one asked about.
  `Apart`: nothing but a thaw shares a run with a freeze, and no freeze, apply or resume with an
  apply. `Phase`: until the run is applied nothing was patched for it, and what was patched is what
  its review names. `SagaMoves` is the frame: a step shows its new run in a phase and fit for the
  other threads that work on it; that these exist in few states only is what `Fits` says of them.
- **`IndexNamesOpen`** (`Spec => []IndexNamesOpenRun`, overlapping freezes included). `IndexInv`: an
  entry names a registered run of its pair, and a closed one only while the thread of
  `start_recovery` that closed it has still to look the entry up or to drop it (`Leaves`); and that
  thread's pair is the one of its run (`Escalating`), so it looks at the entry of its own run.
  `IndexFrame` is the frame, `IndexTransition` the step of every other closing function.
- **`OneOpenRun`**, **`LedgerAgrees`**: the contract of the docstrings, for calls that do not overlap
  (`Alone`: there is one thread); without that hypothesis both are false, as 3 says. `HandInv` is
  common to both: a run that a call has found open, and not closed, is open (`InHand`). `StepGoes`
  says once what every step outside start_recovery and the ledger does to the registry. `OpenInv`:
  an open run has the index entry of its pair, so the duplicate check misses none; it needs a
  redaction that leaves the pairs alone, which is the hazard listed for the code. `AgreeInv`: the
  row of a closed run is the one that belongs to its state, an open run has no row but in the hands
  of a call that is about to close it, and that call closes it as it has written (`Closes`); it
  needs a working lock server and a mark-outcome route that nobody calls.
- **`NoTaskLost`** (`Spec => []NothingLost`). A step leaves the tree alone, writes a file or
  moves one (`TreeSteps`); none of the three empties a task.
- **`OneCopyEach`** (`Spec => []OneCopy`). `OneCopy` alone is not inductive: a replace recreates a
  file that is elsewhere. `Alone` says that a thread between its read and its last step, on a
  task that is not in `raced`, has that task's one file in its source directory and no other
  thread with it; `CopyInv` adds it.
- **`QueueTypeCorrect`**: `TypeInv` types each thread's record and says that a busy thread has a task.
- **`ForeignSurvives`** (`Spec => ForeignIsLeftAlone`). `MindInv`: a tick or executor that is busy
  with a task of its own has read it, and finds it, unclaimed or claimed by a persona, and writes
  nothing else (`Minds`); that nobody comes between is `CopyInv`'s.
- **`WorkflowTypeCorrect`**: `TypeInv` types the runner's record (`AtRecord`) and adds what a run
  in progress has (`RunOK`: a state in memory, a node to save, what langgraph was called with).
- **`OncePerFaultHolds`**, **`CheckpointIsTrue`** (both for `Runtime = "graph"`). `OnceInv` has two
  parts: `FollowsDisk`, a run has the history of its checkpoint and is at a node that is not in it,
  and `CountsOK`, that jobs and starts are at most those of the passed nodes, of the node whose
  work is done but not saved, and one for each fault; exactly those where there was no fault.
- **`OnlyCheckedPrints`**. That the mesh was fit when the gate passed is a fact about the past:
  `CheckInv` says it of each record a workflow could go on from (`mem`, `disk`, and `origin`, the
  one langgraph was called with): a record that is gated names a mesh that is fit, whatever repair
  and resume have done since, and one with preflight in its history is gated or took the LLM's
  suggestion for it (`Checked`); a run past preflight has it in its history or is aborted
  (`PreflightOK`).
- **`TokensAreSpentOnce`**: `Spent`, who works on the strength of a token, and every event with
  one, has it consumed. **`OneHandlerAtATime`**: `Held`, who waits for or holds a mutex has the one
  of its unit, and who handles holds it. **`ProbesKeepTheirDistance`**: `PaceInv` relates what a
  probe has read of the ledger to the events that were in it.
- **`RowsFitSteps`**: `RowInv` follows a job nobody has raced for through its worker's stages
  (`Stage`) and its repair's (`Repairing`): one in hand at a time (`Alone`), at most one failed
  step (`OneFailed`), a row at rest settled (`Settled`).
- **`RepairsDecidedOnce`**: `Deciding`, a job nobody has raced for has one request in hand at most
  and one repair to decide about at most, and what the request has read of the repairs is still so
  when it writes (`Knows`).
- **`StopsHitTheirOwn`**: `RecordInv`, a record, a copy of it and the pid a stop is about to
  signal name a process of that service or none, unless recycled. **`OneRecordedProcess`**:
  `LiveInv` adds, stage by stage, how a service's live processes and its record fit.
- **`FlagsAreNotified`** (`Spec => []FlagIsNotified`). `NoteInv` strengthens the property in the
  request that is about to notify: its telemetry is what flagged the plate.
- **`ChecksHold`** (`Spec => CheckedPlateIsEmpty`, where no file is printed twice). The check
  compares file names, so `PlateInv` says what a name is worth: a finished part lies under the
  display of its own print (`WorldInv`), and the name in a row that is not flagged, or in a mark
  on its way, is that of a print that is over and taken off (`RowInv`, `Marks`; `Gone` is kept by
  every step as long as no file is printed twice). So a start that has seen a finished part finds
  its row in need of a flag, writes it, reads it back and gives up (`Checks`), unless it was
  overtaken. `OthersRest` carries the requests that do not move.
- **`WholeQueueReads`**, **`WholeKeepsJobs`**. `FileInv`: who has an inode open alone has the one
  that is named `.tmp`, and what is written there is what it wrote (`HolderAlone`), so that the
  rename puts a whole file in place. `FreshKnows`: the jobs of an object that has missed no save
  follow from those on file by what its callers may do.
- **`WholeKeepsWork`**, **`WholeUpdatesForward`**, **`WholeBacksUp`**. `SourceInv` says of a request,
  by its pc, which of the work it found can still be there (`AskWork`), that where it goes back to
  is a backup and so is what it leaves, or somebody committed since (`AskHead`), and, if it is alone,
  where the checkout can be (`AskForward`). Other people's steps only take work away or add copies
  (`Onward`, the frame).
- **`WholeVerifies`**, **`WholeRepairs`**. `AgentInv`, for a request that is alone (`AloneOK`): its plan
  goes on release by release from the backup, those behind it have passed (`StagedOK`), and what a
  repair checks out is the commit of the backup or the tag under it; a branch that was backed up
  is at the commit of the branch (`home`), as nobody else moves it.
- **`WholeCoversWrites`**, **`WholeCommitsAsReported`**. `WriteInv`: on a file that is not contested
  who is past the lock question has the lock, the file has the text that the operation read, that
  text is in a snapshot by the time it is overwritten (`WriteOK`), and no other request writes it for
  the same task (`Apart`). `CommitInv`: what a commit was checked for has snapshots, and until
  somebody overtakes it the branch and what is staged are those it looked at.
- **`Whole...`**: each step of `Backend` is, for each part, a step of it or a stutter, so
  `Spec => Rows!Spec` and the same of the seven others; the parts' theorems follow for the
  composed backend, under `BackendAssumption`, and with them **`BackendTypeCorrect`**. (Theorems of a part are stated
  `ASSUME <its assumption> PROVE Spec => ...` so that they can be cited through `INSTANCE`.)

Not in the prover's reach, and left to TLC: the liveness properties `ApplyingEnds`,
`TasksMoveOn`, `RunEnds`; anything about ENABLED; what a recursively defined function computes.
Every other property that a passing run checks is also a theorem.

## 5. Checking

In this directory, with TLC and the TLA+ proof system installed:

    tlc -workers 2 -config MC_rc_saga.cfg MC_RecoveryController
    tlapm RecoveryControllerProofs.tla

`PROJECT.json` lists the runs, the mutant that each property must refute, the source lines of
every definition, the hazards with the properties that cover them, and the theorems.

## 6. Plan

Done: the modules and proofs above. What is left, in order of what it would add:

1. `Dag` as a pure algorithm against a reference definition over all small graphs; the temperature
   monitor against its windowed definition.
2. The stages of a provider pass in `code_history.py` (claim, run, evidence, release), which share
   the lock table and the snapshots with `CodeEdits`.
3. `AgentUpdates` and `SourceUpdates` on one agent checkout, if the two routes come to share it.

## 7. Not modelled

- `core/supervisor/daemon.py` and `core/agents/auto_recovery.py`: only their tests run them; with
  the real client a poll raises at once, as it calls `get` on a dataclass.
- `services/autonomous_loop.py`: nothing starts the loop; the routes read its settings.
- The provider, command-line, push and pull-request parts of `code_history.py`: external processes
  that leave the checkout alone; approvals of prints, for which nothing inserts a row; generation
  routes, which insert their rows already completed.
- `printer_safety_gate`, `dag`, material and G-code bounds, slicing, mesh repair, orientation,
  scoring: predicates and arithmetic over one call's arguments.
- The module runtime, LLM gateways, redaction, the prompt-injection scanner: probes and texts. A
  probe's budget is a fresh one for each command and never binds.
- Memory, farm bookkeeping and integrations (tables and HTTP clients); the remaining routes (one
  request, one transaction); the user interface and the Rust accelerator.

Moonraker, git and the MCP lock server are external: they are modelled by what the code here uses
of them.
