------------------------------ MODULE Backend -------------------------------
(***************************************************************************)
(* The parts of the backend that share no state with one another, together *)
(* in one process: the printers and their build plates, the job rows, the  *)
(* file of the job queue, the updates of a source module and of an agent,  *)
(* the services' processes, the token supervisor with its ledger, and the  *)
(* edits of the source code.                                               *)
(* Every step is one of one part, and leaves the other parts alone, as     *)
(* none of them reads or writes what another one keeps.                    *)
(*                                                                         *)
(* Four of the instances are of the modules with the proofs, so that       *)
(* their theorems can be cited for the whole (BackendProofs).              *)
(***************************************************************************)
EXTENDS Naturals, Sequences, FiniteSets

CONSTANTS
  Fleet, Locked, Known, Reprint, Route,
  Request,        \* threads of every part
  Name,           \* files, queue entries, pieces of work, services and tokens
  Inode, Pid,
  None, Absent, Torn,
  MaxPrints, MaxRequests, MaxFaults,
  Job, MaxCalls, MaxBroken, MaxRestarts,
  Queue, Server, MaxUses,
  Top, MaxOwn, MaxAsks,
  Last, MaxRuns,
  MaxServed,
  Unit, Window, MaxClock, MaxEvents,
  Text, Actor, Task, Owner, Shipping, Main, MaxAsked, MaxMoves

VARIABLES
  machine, plate, log, row, note, crossed, late, early, at, requests, faults,
  job, steps, repair, worker, op, calls, broken, restarts, raced, torn,
  content, queuePath, tmpPath, object, mixed, uses,
  head, upstream, fetchHead, work, written, zipped, backups, ask, asks,
  tree, home, green, untidy, kept, visit, runs,
  process, stateFile, runner, served, stopped, recycled, astray,
  registry, mutexOf, holder, caller, event, clock,
  live, index, tip, branch, lock, snaps, proposals, intents, hand, contested, overtaken,
  asked, moves

Floor == INSTANCE PrinterFloorProofs WITH File <- Name
Rows == INSTANCE JobRowsProofs
Jobs == INSTANCE JobQueue WITH Entry <- Name
Source == INSTANCE SourceUpdates WITH Work <- Name
Agent == INSTANCE AgentUpdates
Runner == INSTANCE ServiceRunnerProofs WITH Service <- Name
Tokens == INSTANCE DispatchProofs WITH Caller <- Request, Token <- Name
Edits == INSTANCE CodeEdits WITH File <- Name

ASSUME BackendAssumption ==
  /\ Floor!FloorAssumption /\ Rows!JobRowsAssumption /\ Jobs!JobQueueAssumption
  /\ Source!SourceUpdatesAssumption /\ Agent!AgentUpdatesAssumption
  /\ Runner!ServiceRunnerAssumption /\ Tokens!DispatchAssumption
  /\ Edits!CodeEditsAssumption

floorVars == <<machine, plate, log, row, note, crossed, late, early, at, requests, faults>>
jobVars == <<job, steps, repair, worker, op, calls, broken, restarts, raced, torn>>
jobQueueVars == <<content, queuePath, tmpPath, object, mixed, uses>>
sourceVars == <<head, upstream, fetchHead, work, written, zipped, backups, ask, asks>>
agentVars == <<tree, home, green, untidy, kept, visit, runs>>
runnerVars == <<process, stateFile, runner, served, stopped, recycled, astray>>
dispatchVars == <<registry, mutexOf, holder, caller, event, clock>>
editVars == <<live, index, tip, branch, lock, snaps, proposals, intents, hand, contested,
              overtaken, asked, moves>>

backendVars == <<floorVars, jobVars, jobQueueVars, sourceVars, agentVars, runnerVars, dispatchVars,
                 editVars>>

Init ==
  /\ Floor!Init /\ Rows!Init /\ Jobs!Init /\ Source!Init /\ Agent!Init /\ Runner!Init
  /\ Tokens!Init /\ Edits!Init

FloorStep ==
  /\ Floor!Next
  /\ UNCHANGED <<jobVars, jobQueueVars, sourceVars, agentVars, runnerVars, dispatchVars, editVars>>
RowStep ==
  /\ Rows!Next
  /\ UNCHANGED <<floorVars, jobQueueVars, sourceVars, agentVars, runnerVars, dispatchVars, editVars>>
QueueStep ==
  /\ Jobs!Next
  /\ UNCHANGED <<floorVars, jobVars, sourceVars, agentVars, runnerVars, dispatchVars, editVars>>
SourceStep ==
  /\ Source!Next
  /\ UNCHANGED <<floorVars, jobVars, jobQueueVars, agentVars, runnerVars, dispatchVars, editVars>>
AgentStep ==
  /\ Agent!Next
  /\ UNCHANGED <<floorVars, jobVars, jobQueueVars, sourceVars, runnerVars, dispatchVars, editVars>>
RunnerStep ==
  /\ Runner!Next
  /\ UNCHANGED <<floorVars, jobVars, jobQueueVars, sourceVars, agentVars, dispatchVars, editVars>>
TokenStep ==
  /\ Tokens!Next
  /\ UNCHANGED <<floorVars, jobVars, jobQueueVars, sourceVars, agentVars, runnerVars, editVars>>
EditStep ==
  /\ Edits!Next
  /\ UNCHANGED <<floorVars, jobVars, jobQueueVars, sourceVars, agentVars, runnerVars, dispatchVars>>

Next ==
  FloorStep \/ RowStep \/ QueueStep \/ SourceStep \/ AgentStep \/ RunnerStep \/ TokenStep
  \/ EditStep

Spec == Init /\ [][Next]_backendVars

-----------------------------------------------------------------------------
\* The type invariants of the parts.
TypeOK ==
  /\ Floor!TypeOK /\ Rows!TypeOK /\ Jobs!TypeOK /\ Source!TypeOK /\ Agent!TypeOK
  /\ Runner!TypeOK /\ Tokens!TypeOK /\ Edits!TypeOK

\* A print is not started over the finished part of another.  (PrinterFloor)
CheckedPlateIsEmpty == Floor!CheckedPlateIsEmpty
\* A flagged plate has a notification.  (PrinterFloor)
FlagIsNotified == Floor!FlagIsNotified
\* The row of a job fits its steps.  (JobRows)
StatusFitsSteps == Rows!StatusFitsSteps
\* A repair is decided about once.  (JobRows)
DecidedOnce == Rows!DecidedOnce
\* The queue file can be read.  (JobQueue)
QueueFileReads == Jobs!QueueFileReads
\* A save that is alone keeps the others' jobs.  (JobQueue)
SavesKeepJobs == Jobs!SavesKeepJobs
\* Uncommitted work that is older than a request is kept.  (SourceUpdates)
OlderWorkIsKept == Source!OlderWorkIsKept
\* An update goes forward.  (SourceUpdates)
UpdateIsForward == Source!UpdateIsForward
\* Local commits that are left are backed up.  (SourceUpdates)
LocalCommitsAreBackedUp == Source!LocalCommitsAreBackedUp
\* An update that is reported is one that passed the checks.  (AgentUpdates)
UpdatedIsVerified == Agent!UpdatedIsVerified
\* A repair brings back what was recorded.  (AgentUpdates)
RepairRestores == Agent!RepairRestores
\* A service has one process, which its record names.  (ServiceRunner)
LiveIsRecorded == Runner!LiveIsRecorded
\* A stop hits a process of the service.  (ServiceRunner)
StopHitsItsOwn == Runner!StopHitsItsOwn
\* A printer or run has one handler at a time.  (Dispatch)
OneHandlerPerUnit == Tokens!OneHandlerPerUnit
\* A token is good for one dispatch.  (Dispatch)
TokenIsSpentOnce == Tokens!TokenIsSpentOnce
\* Probes of a provider keep their distance.  (Dispatch)
ProbesArePaced == Tokens!ProbesArePaced
\* A file is written under its lock, over a text that is kept.  (CodeEdits)
WritesAreCovered == Edits!WritesAreCovered
\* A commit is what its request was checked for.  (CodeEdits)
CommitIsAsReported == Edits!CommitIsAsReported
=============================================================================
