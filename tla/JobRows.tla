------------------------------ MODULE JobRows ------------------------------
(***************************************************************************)
(* The job rows of the GUI backend and who writes them: the threads that   *)
(* slice (api/routes/slicer.py) and the requests that generate a design    *)
(* (api/routes/design.py), the operator's requests to cancel, repair,      *)
(* retry and roll back (api/routes/jobs.py), the decisions about repairs   *)
(* (api/routes/approvals.py) and the reconciler of a fresh process         *)
(* (services/job_reconciler.py).                                           *)
(*                                                                         *)
(* Every SQL statement is a transaction of its own, so every one is a step *)
(* here, and what a request has read it keeps in op[t].  Requests that are *)
(* refused write proof events only and are left out, as are artifacts,     *)
(* printers (the policy gate refuses or does not) and texts.  Nothing in   *)
(* the repository takes a queued job up.                                   *)
(***************************************************************************)
EXTENDS Naturals, Sequences, FiniteSets

CONSTANTS
  Job,            \* job ids
  Request,        \* threads of the request pool
  None,
  MaxCalls,       \* bound on operators' requests
  MaxBroken,      \* bound on statements of the workers that raise
  MaxRestarts     \* bound on restarts of the process

Status == {"queued", "running", "completed", "failed", "cancelled", "rolled_back"}

JobRowsAssumption ==
  /\ None \notin Job \cup Status
  /\ MaxCalls \in Nat /\ MaxBroken \in Nat /\ MaxRestarts \in Nat

VARIABLES
  job,            \* jobs: [Job -> status, or None where there is no row]
  steps,          \* job_steps: the statuses of a job's rows, oldest first
  repair,         \* approvals: the statuses of its REPAIR_APPROVALs, oldest first
  worker,         \* the thread or request that does the job's work
  op,             \* the operators' requests
  calls,          \* requests so far
  broken,         \* statements that raised so far
  restarts,       \* restarts so far
  raced,          \* history: jobs that two had in hand at a time
  torn            \* history: jobs whose worker was stopped by a statement or a restart

rows == <<job, steps, repair>>
jobVars == <<rows, worker, op, calls, broken, restarts, raced, torn>>

StepStatus == {"done", "failed", "pending"}
Decision == {"approved", "rejected", "deferred"}

NoOp == [kind |-> "none", pc |-> "idle", job |-> None, status |-> None, which |-> 0]
NoWorker == [kind |-> "none", pc |-> "none", again |-> FALSE]

Init ==
  /\ job = [j \in Job |-> None]
  /\ steps = [j \in Job |-> << >>]
  /\ repair = [j \in Job |-> << >>]
  /\ worker = [j \in Job |-> NoWorker]
  /\ op = [t \in Request |-> NoOp]
  /\ calls = 0 /\ broken = 0 /\ restarts = 0
  /\ raced = {} /\ torn = {}

Working(j) == worker[j].pc \notin {"none", "gone"}
InHand(j) == Working(j) \/ \E t \in Request : op[t].job = j

\* The first failed row, 0 for the failure of a job without one, or None.
FailedStep(j, status) ==
  LET failed == {i \in DOMAIN steps[j] : steps[j][i] = "failed"} IN
  IF failed # {} THEN CHOOSE i \in failed : \A k \in failed : i <= k
  ELSE IF status = "failed" THEN 0 ELSE None

PendingRepair(j) == \E i \in DOMAIN repair[j] : repair[j][i] = "pending"
ApprovedRepair(j) == \E i \in DOMAIN repair[j] : repair[j][i] = "approved"

SetStatus(j, s) == job' = [job EXCEPT ![j] = s]
AddSteps(j, s) == steps' = [steps EXCEPT ![j] = @ \o s]

-----------------------------------------------------------------------------
(* Jobs come into being, and their workers end them.                        *)

\* create_job: a row for nobody in particular.
CreateJob(j) ==
  /\ job[j] = None
  /\ SetStatus(j, "queued")
  /\ UNCHANGED <<steps, repair, worker, op, calls, broken, restarts, raced, torn>>

\* post_slice and the design intake: a running job with its first step done, and
\* the thread, or the request itself, that goes on with it.
StartWork(j, kind) ==
  /\ job[j] = None
  /\ SetStatus(j, "running")
  /\ AddSteps(j, << "done" >>)
  /\ worker' = [worker EXCEPT ![j] = [kind |-> kind, pc |-> "work", again |-> FALSE]]
  /\ UNCHANGED <<repair, op, calls, broken, restarts, raced, torn>>

Worker(j, pc) == worker' = [worker EXCEPT ![j].pc = pc]
WorkerKeeps == UNCHANGED <<repair, op, calls, restarts, raced>>

\* A statement raises.  The slicing thread's last net records a failure, a second
\* time where it was recording one; so does the design route, once.
Raise(j) ==
  LET failing == worker[j].pc \in {"fail", "failed"}
      stops == failing /\ (worker[j].again \/ worker[j].kind = "design")
  IN  /\ broken < MaxBroken /\ broken' = broken + 1
      /\ torn' = torn \cup {j}
      /\ worker' = [worker EXCEPT ![j].pc = IF stops THEN "gone" ELSE "fail",
                                  ![j].again = TRUE]
      /\ UNCHANGED <<job, steps>>

\* The slicer or the generator succeeds or fails.
WorkEnds(j) ==
  /\ worker[j].pc = "work"
  /\ \E pc \in {"steps", "fail"} : Worker(j, pc)
  /\ UNCHANGED <<rows, broken, torn>> /\ WorkerKeeps

WorkSteps(j) ==
  /\ worker[j].pc = "steps"
  /\ \/ AddSteps(j, << "done", "done" >>) /\ Worker(j, "finish") /\ UNCHANGED <<job, broken, torn>>
     \/ Raise(j)
  /\ WorkerKeeps

WorkFinishes(j) ==
  /\ worker[j].pc = "finish"
  /\ \/ SetStatus(j, "completed") /\ Worker(j, "gone") /\ UNCHANGED <<steps, broken, torn>>
     \/ Raise(j)
  /\ WorkerKeeps

\* Mutant: the failed step is forgotten.
WorkFails_NoStep(j) ==
  /\ worker[j].pc = "fail"
  /\ SetStatus(j, "failed") /\ Worker(j, "gone")
  /\ UNCHANGED <<steps, broken, torn>> /\ WorkerKeeps

\* _finalize_failure adds the failed step, then says that the job has failed; the
\* design route does it the other way round.
WorkFails(j) ==
  LET step == worker[j].kind = "slice" <=> worker[j].pc = "fail" IN
  /\ worker[j].pc \in {"fail", "failed"}
  /\ \/ /\ IF step THEN AddSteps(j, << "failed" >>) /\ UNCHANGED job
                   ELSE SetStatus(j, "failed") /\ UNCHANGED steps
        /\ Worker(j, IF worker[j].pc = "fail" THEN "failed" ELSE "gone")
        /\ UNCHANGED <<broken, torn>>
     \/ Raise(j)
  /\ WorkerKeeps

-----------------------------------------------------------------------------
(* Requests                                                                 *)

Return(t) == op' = [op EXCEPT ![t] = NoOp]
Goto(t, pc) == op' = [op EXCEPT ![t].pc = pc]
OpKeeps == UNCHANGED <<worker, calls, broken, restarts, raced, torn>>

\* A request reads the job's row, and _decide the approval's: what is refused at
\* once is left out.
Accepts(kind, j) ==
  /\ job[j] # None
  /\ kind = "cancel" => job[j] \in {"queued", "running"}
  /\ kind = "decide" => PendingRepair(j)

Begin(t, kind, j) ==
  /\ op[t].pc = "idle" /\ calls < MaxCalls
  /\ Accepts(kind, j)
  /\ calls' = calls + 1
  /\ \E i \in IF kind = "decide" THEN {k \in DOMAIN repair[j] : repair[j][k] = "pending"}
              ELSE {0} :
       op' = [op EXCEPT ![t] = [kind |-> kind, pc |-> "read", job |-> j,
                                status |-> job[j], which |-> i]]
  /\ raced' = IF InHand(j) THEN raced \cup {j} ELSE raced
  /\ UNCHANGED <<rows, worker, broken, restarts, torn>>

CancelJob(t) ==
  /\ op[t].kind = "cancel"
  /\ SetStatus(op[t].job, "cancelled")
  /\ Return(t)
  /\ UNCHANGED <<steps, repair>> /\ OpKeeps

\* propose_repair and apply_repair look for the failed step.
ReadSteps(t) ==
  /\ op[t].kind \in {"propose", "apply"} /\ op[t].pc = "read"
  /\ LET i == FailedStep(op[t].job, op[t].status) IN
     IF i = None THEN Return(t)
     ELSE op' = [op EXCEPT ![t].which = i, ![t].pc = "approvals"]
  /\ UNCHANGED rows /\ OpKeeps

\* Mutant: a second proposal does not wait for the decision about the first.
ReadApprovals_Blind(t) ==
  /\ op[t].pc = "approvals"
  /\ \/ op[t].kind = "propose" /\ Goto(t, "write")
     \/ op[t].kind = "apply" /\ ApprovedRepair(op[t].job) /\ Goto(t, "write")
     \/ Return(t)
  /\ UNCHANGED rows /\ OpKeeps

\* A proposal that is pending is enough, and nothing is repaired without one that
\* is approved, by an agent that calls the job fixed or hands it to a person.
ReadApprovals(t) ==
  /\ op[t].pc = "approvals"
  /\ \/ op[t].kind = "propose" /\ ~PendingRepair(op[t].job) /\ Goto(t, "write")
     \/ op[t].kind = "apply" /\ ApprovedRepair(op[t].job) /\ Goto(t, "write")
     \/ Return(t)
  /\ UNCHANGED rows /\ OpKeeps

ProposeRepair(t) ==
  /\ op[t].kind = "propose" /\ op[t].pc = "write"
  /\ repair' = [repair EXCEPT ![op[t].job] = Append(@, "pending")]
  /\ Return(t)
  /\ UNCHANGED <<job, steps>> /\ OpKeeps

\* retry_job is for jobs that have ended otherwise than well, and waits for the
\* decision about a repair.
ReadRetry(t) ==
  /\ op[t].kind = "retry" /\ op[t].pc = "read"
  /\ IF ~PendingRepair(op[t].job) /\ op[t].status \in {"failed", "cancelled", "rolled_back"}
     THEN Goto(t, "write") ELSE Return(t)
  /\ UNCHANGED rows /\ OpKeeps

\* A repair resets the failed step it has found, a retry every one.
ResetSteps(t) ==
  LET j == op[t].job
      reset == IF op[t].kind = "apply" THEN {op[t].which}
               ELSE {i \in DOMAIN steps[j] : steps[j][i] = "failed"}
  IN  /\ op[t].kind \in {"apply", "retry"} /\ op[t].pc = "write"
      /\ steps' = [steps EXCEPT ![j] =
                     [i \in DOMAIN @ |-> IF i \in reset THEN "pending" ELSE @[i]]]
      /\ Goto(t, "status")
      /\ UNCHANGED <<job, repair>> /\ OpKeeps

Requeue(t) ==
  /\ op[t].pc = "status" /\ op[t].kind \in {"apply", "retry"}
  /\ SetStatus(op[t].job, "queued")
  /\ Return(t)
  /\ UNCHANGED <<steps, repair>> /\ OpKeeps

\* rollback_job, where an artifact has been uploaded as a checkpoint, or not.
RollbackStep(t) ==
  /\ op[t].kind = "rollback" /\ op[t].pc = "read"
  /\ \/ AddSteps(op[t].job, << "done" >>) /\ Goto(t, "status")
     \/ Return(t) /\ UNCHANGED steps
  /\ UNCHANGED <<job, repair>> /\ OpKeeps

RollbackStatus(t) ==
  /\ op[t].kind = "rollback" /\ op[t].pc = "status"
  /\ SetStatus(op[t].job, "rolled_back")
  /\ Return(t)
  /\ UNCHANGED <<steps, repair>> /\ OpKeeps

\* approve, reject and defer: by id, whatever the row says by now.
Decide(t) ==
  /\ op[t].kind = "decide"
  /\ \E d \in Decision : repair' = [repair EXCEPT ![op[t].job][op[t].which] = d]
  /\ Return(t)
  /\ UNCHANGED <<job, steps>> /\ OpKeeps

-----------------------------------------------------------------------------
\* The process dies and comes back: retire_stale_dry_run_jobs cancels the queued
\* dry runs of the day before, in one transaction.
Restart ==
  /\ restarts < MaxRestarts /\ restarts' = restarts + 1
  /\ \E stale \in SUBSET {j \in Job : job[j] = "queued"} :
       job' = [j \in Job |-> IF j \in stale THEN "cancelled" ELSE job[j]]
  /\ op' = [t \in Request |-> NoOp]
  /\ worker' = [j \in Job |-> IF Working(j) THEN [worker[j] EXCEPT !.pc = "gone"] ELSE worker[j]]
  /\ torn' = torn \cup {j \in Job : InHand(j)}
  /\ UNCHANGED <<steps, repair, calls, broken, raced>>

Work(j) ==
  \/ CreateJob(j) \/ \E kind \in {"slice", "design"} : StartWork(j, kind)
  \/ WorkEnds(j) \/ WorkSteps(j) \/ WorkFinishes(j) \/ WorkFails(j)

Serve(t) ==
  \/ \E kind \in {"cancel", "propose", "apply", "retry", "rollback", "decide"}, j \in Job :
       Begin(t, kind, j)
  \/ CancelJob(t) \/ ReadSteps(t) \/ ReadApprovals(t) \/ ProposeRepair(t)
  \/ ReadRetry(t) \/ ResetSteps(t) \/ Requeue(t)
  \/ RollbackStep(t) \/ RollbackStatus(t) \/ Decide(t)

Next == (\E j \in Job : Work(j)) \/ (\E t \in Request : Serve(t)) \/ Restart
Spec == Init /\ [][Next]_jobVars

-----------------------------------------------------------------------------
(* Properties                                                               *)

\* Variables keep their types; a request that writes knows what it writes to.
TypeOK ==
  /\ job \in [Job -> Status \cup {None}]
  /\ steps \in [Job -> Seq(StepStatus)]
  /\ repair \in [Job -> Seq(Decision \cup {"pending"})]
  /\ worker \in [Job -> [kind : {"none", "slice", "design"}, again : BOOLEAN,
                         pc : {"none", "work", "steps", "finish", "fail", "failed", "gone"}]]
  /\ op \in [Request -> [kind : {"none", "cancel", "propose", "apply", "retry", "rollback", "decide"},
                         pc : {"idle", "read", "approvals", "write", "status"},
                         job : Job \cup {None}, status : Status \cup {None}, which : Nat]]
  /\ calls \in 0..MaxCalls /\ broken \in 0..MaxBroken /\ restarts \in 0..MaxRestarts
  /\ raced \subseteq Job /\ torn \subseteq Job
  /\ \A t \in Request : op[t].kind = "decide" => op[t].which \in DOMAIN repair[op[t].job]

\* The row of a job that nobody has in hand fits its steps: a failed job shows a
\* failed step, a queued or completed one shows none.  Not claimed of a job that
\* two had in hand at a time or whose worker was stopped.  (jobs.py, slicer.py, design.py)
StatusFitsSteps ==
  \A j \in Job \ (raced \cup torn) : ~InHand(j) =>
    /\ job[j] = "failed" => \E i \in DOMAIN steps[j] : steps[j][i] = "failed"
    /\ job[j] \in {"queued", "completed"} => \A i \in DOMAIN steps[j] : steps[j][i] # "failed"

\* A repair is decided about once and there is one proposal to decide about, where
\* no two requests had the job in hand at a time.  (approvals._decide, propose_repair)
DecidedOnce ==
  [][\A j \in Job \ raced' :
       /\ Cardinality({i \in DOMAIN repair'[j] : repair'[j][i] = "pending"}) <= 1
       /\ \A i \in DOMAIN repair[j] :
            repair[j][i] # "pending" => repair'[j][i] = repair[j][i]]_jobVars
=============================================================================
