--------------------------- MODULE JobRowsProofs ---------------------------
(* Proofs about the job rows, for any number of jobs, requests, failing        *)
(* statements and restarts: types, rows that fit their steps, and repairs that *)
(* are decided once.                                                           *)
EXTENDS JobRows, FiniteSetTheorems, TLAPS

OpRecord ==
  [kind : {"none", "cancel", "propose", "apply", "retry", "rollback", "decide"},
   pc : {"idle", "read", "approvals", "write", "status"},
   job : Job \cup {None}, status : Status \cup {None}, which : Nat]
WorkerPc == {"none", "work", "steps", "finish", "fail", "failed", "gone"}
WorkerRecord == [kind : {"none", "slice", "design"}, again : BOOLEAN, pc : WorkerPc]

\* A request at work has a job, one that is not has none.
OpOK(r) == r \in OpRecord /\ (r = NoOp \/ (r.kind # "none" /\ r.pc # "idle" /\ r.job \in Job))

Rest ==
  /\ calls \in 0..MaxCalls /\ broken \in 0..MaxBroken /\ restarts \in 0..MaxRestarts
  /\ raced \subseteq Job /\ torn \subseteq Job

TypeInv ==
  /\ job \in [Job -> Status \cup {None}]
  /\ steps \in [Job -> Seq(StepStatus)]
  /\ repair \in [Job -> Seq(Decision \cup {"pending"})]
  /\ worker \in [Job -> WorkerRecord]
  /\ op \in [Request -> OpRecord] /\ \A t \in Request : OpOK(op[t])
  /\ Rest
  /\ \A t \in Request : op[t].kind = "decide" => op[t].which \in DOMAIN repair[op[t].job]

LEMMA FunctionIsSeq ==
  ASSUME NEW S, NEW n \in Nat, NEW f \in [1..n -> S] PROVE f \in Seq(S)
OBVIOUS

LEMMA NoOpOK ==
  ASSUME JobRowsAssumption PROVE OpOK(NoOp) /\ NoOp.job = None /\ NoOp.kind = "none"
BY DEF OpOK, NoOp, OpRecord

-----------------------------------------------------------------------------
(* What a step does to the requests.                                        *)

\* Request t is moved to r.
Moved(t, r) ==
  /\ \A u \in Request : op'[u] = IF u = t THEN r ELSE op[u]
  /\ op' \in [Request -> OpRecord] /\ \A u \in Request : OpOK(op'[u])

LEMMA MoveTo ==
  ASSUME TypeInv, NEW t \in Request, NEW r, OpOK(r), op' = [op EXCEPT ![t] = r]
  PROVE  Moved(t, r)
BY DEF TypeInv, OpOK, Moved

LEMMA Returns ==
  ASSUME JobRowsAssumption, TypeInv, NEW t \in Request, Return(t)
  PROVE  Moved(t, NoOp)
BY NoOpOK, MoveTo DEF Return

LEMMA Gotos ==
  ASSUME TypeInv, NEW t \in Request, NEW pc \in {"approvals", "write", "status"},
         op[t] # NoOp, Goto(t, pc)
  PROVE  Moved(t, [op[t] EXCEPT !.pc = pc])
<1>1. OpOK(op[t]) /\ op' = [op EXCEPT ![t] = [op[t] EXCEPT !.pc = pc]]
  BY DEF TypeInv, Goto
<1>2. OpOK([op[t] EXCEPT !.pc = pc])
  BY <1>1 DEF OpOK, OpRecord
<1> QED
  BY <1>1, <1>2, MoveTo

LEMMA Busy ==
  ASSUME TypeInv, NEW t \in Request, op[t].kind # "none" \/ op[t].pc # "idle"
  PROVE  op[t] # NoOp /\ op[t].job \in Job /\ op[t].kind # "none" /\ op[t] \in OpRecord
BY DEF TypeInv, OpOK, NoOp

-----------------------------------------------------------------------------
(* Types                                                                    *)

LEMMA TypeInit ==
  ASSUME JobRowsAssumption, Init PROVE TypeInv
<1>1. job \in [Job -> Status \cup {None}] /\ steps \in [Job -> Seq(StepStatus)]
      /\ repair \in [Job -> Seq(Decision \cup {"pending"})]
  BY DEF Init
<1>2. worker \in [Job -> WorkerRecord]
  BY DEF Init, NoWorker, WorkerRecord, WorkerPc
<1>3. op \in [Request -> OpRecord] /\ \A t \in Request : OpOK(op[t])
  BY NoOpOK DEF Init, OpOK
<1>4. Rest
  BY DEF Init, Rest, JobRowsAssumption
<1>5. \A t \in Request : op[t].kind = "none"
  BY NoOpOK DEF Init
<1> QED
  BY <1>1, <1>2, <1>3, <1>4, <1>5 DEF TypeInv

\* A worker's steps move neither repairs nor requests.
LEMMA TypeWork ==
  ASSUME JobRowsAssumption, TypeInv, NEW j \in Job, Work(j) PROVE TypeInv'
<1>1. UNCHANGED <<repair, op>>
  BY DEF Work, CreateJob, StartWork, WorkEnds, WorkSteps, WorkFinishes, WorkFails, WorkerKeeps, rows
<1>2. job' \in [Job -> Status \cup {None}]
  BY DEF Work, CreateJob, StartWork, WorkEnds, WorkSteps, WorkFinishes, WorkFails, WorkerKeeps, rows,
         Raise, SetStatus, TypeInv, Status
<1>3. steps' \in [Job -> Seq(StepStatus)]
  <2>1. ASSUME NEW s \in Seq(StepStatus), AddSteps(j, s) PROVE steps' \in [Job -> Seq(StepStatus)]
    BY <2>1 DEF AddSteps, TypeInv
  <2>2. << "done" >> \in Seq(StepStatus) /\ << "done", "done" >> \in Seq(StepStatus)
        /\ << "failed" >> \in Seq(StepStatus)
    BY DEF StepStatus
  <2>3. UNCHANGED steps \/ \E s \in Seq(StepStatus) : AddSteps(j, s)
    BY <2>2 DEF Work, CreateJob, StartWork, WorkEnds, WorkSteps, WorkFinishes, WorkFails, Raise, rows
  <2> QED
    BY <2>1, <2>3 DEF TypeInv
<1>4. worker' \in [Job -> WorkerRecord]
  <2>1. ASSUME NEW pc \in WorkerPc, Worker(j, pc) PROVE worker' \in [Job -> WorkerRecord]
    BY <2>1 DEF Worker, TypeInv, WorkerRecord, WorkerPc
  <2>2. ASSUME Raise(j) PROVE worker' \in [Job -> WorkerRecord]
    <3>1. PICK pc \in {"gone", "fail"} :
            worker' = [worker EXCEPT ![j] = [[worker[j] EXCEPT !.pc = pc] EXCEPT !.again = TRUE]]
      BY <2>2 DEF Raise, TypeInv
    <3>2. [[worker[j] EXCEPT !.pc = pc] EXCEPT !.again = TRUE] \in WorkerRecord
      BY DEF TypeInv, WorkerRecord, WorkerPc
    <3> QED
      BY <3>1, <3>2 DEF TypeInv
  <2>3. ASSUME NEW kind \in {"slice", "design"}, StartWork(j, kind) PROVE worker' \in [Job -> WorkerRecord]
    BY <2>3 DEF StartWork, TypeInv, WorkerRecord, WorkerPc
  <2>4. ASSUME CreateJob(j) PROVE worker' = worker
    BY <2>4 DEF CreateJob
  <2>5. CASE WorkEnds(j) \/ WorkSteps(j) \/ WorkFinishes(j) \/ WorkFails(j)
    BY <2>1, <2>2, <2>5 DEF WorkEnds, WorkSteps, WorkFinishes, WorkFails, WorkerPc
  <2> QED
    BY <2>3, <2>4, <2>5 DEF Work, TypeInv
<1>5. Rest'
  BY DEF Work, CreateJob, StartWork, WorkEnds, WorkSteps, WorkFinishes, WorkFails, WorkerKeeps,
         Raise, Rest, TypeInv, JobRowsAssumption
<1> QED
  BY <1>1, <1>2, <1>3, <1>4, <1>5 DEF TypeInv

LEMMA TypeBegin ==
  ASSUME JobRowsAssumption, TypeInv, NEW t \in Request, NEW j \in Job,
         NEW kind \in {"cancel", "propose", "apply", "retry", "rollback", "decide"}, Begin(t, kind, j)
  PROVE  TypeInv' /\ \E i \in Nat : Moved(t, [kind |-> kind, pc |-> "read", job |-> j,
                                              status |-> job[j], which |-> i])
<1>1. PICK i \in (IF kind = "decide" THEN {k \in DOMAIN repair[j] : repair[j][k] = "pending"} ELSE {0}) :
        op' = [op EXCEPT ![t] = [kind |-> kind, pc |-> "read", job |-> j,
                                 status |-> job[j], which |-> i]]
  BY DEF Begin
<1> DEFINE r == [kind |-> kind, pc |-> "read", job |-> j, status |-> job[j], which |-> i]
<1>2. i \in Nat /\ (kind = "decide" => i \in DOMAIN repair[j])
  BY DEF TypeInv
<1>3. OpOK(r)
  BY <1>2 DEF TypeInv, OpOK, OpRecord
<1>4. Moved(t, r)
  BY <1>1, <1>3, MoveTo
<1>5. Rest'
  BY DEF Begin, Rest, TypeInv, JobRowsAssumption
<1>6. \A u \in Request : op'[u].kind = "decide" => op'[u].which \in DOMAIN repair'[op'[u].job]
  BY <1>2, <1>4 DEF Moved, Begin, rows, TypeInv
<1> QED
  BY <1>2, <1>4, <1>5, <1>6 DEF TypeInv, Begin, rows, Moved

\* A request that has begun returns, goes on, or goes on with the step it has found.
LEMMA ServeMoves ==
  ASSUME JobRowsAssumption, TypeInv, NEW t \in Request,
         \/ CancelJob(t) \/ ReadSteps(t) \/ ReadApprovals(t) \/ ProposeRepair(t)
         \/ ReadRetry(t) \/ ResetSteps(t) \/ Requeue(t)
         \/ RollbackStep(t) \/ RollbackStatus(t) \/ Decide(t)
  PROVE  \E r \in OpRecord :
           /\ Moved(t, r) /\ r.job \in {None, op[t].job} /\ op[t].job \in Job
           /\ r.kind = "decide" => op[t].kind = "decide" /\ r.which = op[t].which /\ r.job = op[t].job
<1> DEFINE Goal == \E r \in OpRecord :
           /\ Moved(t, r) /\ r.job \in {None, op[t].job} /\ op[t].job \in Job
           /\ r.kind = "decide" => op[t].kind = "decide" /\ r.which = op[t].which /\ r.job = op[t].job
<1>0. op[t] # NoOp /\ op[t].job \in Job /\ op[t].kind # "none" /\ op[t] \in OpRecord
  BY Busy DEF CancelJob, ReadSteps, ReadApprovals, ProposeRepair, ReadRetry, ResetSteps, Requeue,
              RollbackStep, RollbackStatus, Decide
<1>1. ASSUME Return(t) PROVE Goal
  BY <1>0, <1>1, Returns, NoOpOK DEF OpOK
<1>2. ASSUME NEW pc \in {"approvals", "write", "status"}, Goto(t, pc) PROVE Goal
  <2>1. /\ [op[t] EXCEPT !.pc = pc] \in OpRecord /\ [op[t] EXCEPT !.pc = pc].job = op[t].job
        /\ [op[t] EXCEPT !.pc = pc].kind = op[t].kind /\ [op[t] EXCEPT !.pc = pc].which = op[t].which
    BY <1>0 DEF OpRecord
  <2> QED
    BY <1>0, <1>2, <2>1, Gotos
<1>3. CASE ReadSteps(t)
  <2> DEFINE i == FailedStep(op[t].job, op[t].status)
             r == [op[t] EXCEPT !.which = i, !.pc = "approvals"]
  <2>1. CASE i = None
    BY <1>1, <1>3, <2>1 DEF ReadSteps
  <2>2. CASE i # None
    <3>1. i \in Nat
      BY <1>0, <2>2 DEF FailedStep, TypeInv
    <3>2. op' = [op EXCEPT ![t] = r]
      BY <1>3, <2>2 DEF ReadSteps
    <3>3. r \in OpRecord /\ r.job = op[t].job /\ r.kind = op[t].kind /\ r.pc = "approvals"
      BY <1>0, <3>1 DEF OpRecord
    <3>4. OpOK(r) /\ r.kind # "decide"
      BY <1>0, <1>3, <3>3 DEF OpOK, ReadSteps
    <3> QED
      BY <1>0, <3>2, <3>3, <3>4, MoveTo
  <2> QED
    BY <2>1, <2>2
<1> QED
  BY <1>1, <1>2, <1>3 DEF CancelJob, ReadApprovals, ProposeRepair, ReadRetry, ResetSteps, Requeue,
                          RollbackStep, RollbackStatus, Decide

LEMMA TypeServe ==
  ASSUME JobRowsAssumption, TypeInv, NEW t \in Request, Serve(t) PROVE TypeInv'
<1>1. ASSUME NEW kind \in {"cancel", "propose", "apply", "retry", "rollback", "decide"}, NEW j \in Job,
             Begin(t, kind, j)
      PROVE  TypeInv'
  BY <1>1, TypeBegin
<1> DEFINE Other == \/ CancelJob(t) \/ ReadSteps(t) \/ ReadApprovals(t) \/ ProposeRepair(t)
                    \/ ReadRetry(t) \/ ResetSteps(t) \/ Requeue(t)
                    \/ RollbackStep(t) \/ RollbackStatus(t) \/ Decide(t)
<1>2. ASSUME Other PROVE TypeInv'
  <2>1. PICK r \in OpRecord :
          /\ Moved(t, r) /\ r.job \in {None, op[t].job} /\ op[t].job \in Job
          /\ r.kind = "decide" => op[t].kind = "decide" /\ r.which = op[t].which /\ r.job = op[t].job
    BY <1>2, ServeMoves
  <2> DEFINE j == op[t].job
  <2>2. UNCHANGED <<worker, calls, broken, restarts, raced, torn>>
    BY <1>2 DEF CancelJob, ReadSteps, ReadApprovals, ProposeRepair, ReadRetry, ResetSteps, Requeue,
                RollbackStep, RollbackStatus, Decide, OpKeeps
  <2>3. job' \in [Job -> Status \cup {None}]
    BY <1>2 DEF CancelJob, ReadSteps, ReadApprovals, ProposeRepair, ReadRetry, ResetSteps, Requeue,
                RollbackStep, RollbackStatus, Decide, rows, SetStatus, Status, TypeInv
  <2>4. steps' \in [Job -> Seq(StepStatus)]
    <3>1. CASE RollbackStep(t)
      <4>1. << "done" >> \in Seq(StepStatus)
        BY DEF StepStatus
      <4>2. UNCHANGED steps \/ steps' = [steps EXCEPT ![op[t].job] = steps[op[t].job] \o << "done" >>]
        BY <3>1 DEF RollbackStep, AddSteps
      <4>3. steps[op[t].job] \o << "done" >> \in Seq(StepStatus)
        BY <2>1, <4>1 DEF TypeInv
      <4> QED
        BY <4>2, <4>3 DEF TypeInv
    <3>2. CASE ResetSteps(t)
      <4> HIDE DEF j
      <4>1. PICK reset : steps' = [steps EXCEPT ![j] =
                                     [i \in DOMAIN steps[j] |-> IF i \in reset THEN "pending" ELSE steps[j][i]]]
        BY <3>2 DEF ResetSteps, j
      <4>2. j \in Job /\ steps[j] \in Seq(StepStatus)
        BY <2>1 DEF TypeInv, j
      <4>3. [i \in DOMAIN steps[j] |-> IF i \in reset THEN "pending" ELSE steps[j][i]] \in Seq(StepStatus)
        BY <4>2 DEF StepStatus
      <4> QED
        BY <4>1, <4>2, <4>3 DEF TypeInv
    <3> QED
      BY <1>2, <3>1, <3>2 DEF CancelJob, ReadSteps, ReadApprovals, ProposeRepair, ReadRetry, Requeue,
                              RollbackStatus, Decide, rows, TypeInv
  <2>5. /\ repair' \in [Job -> Seq(Decision \cup {"pending"})]
        /\ \A k \in Job : DOMAIN repair[k] \subseteq DOMAIN repair'[k]
    <3>1. CASE ProposeRepair(t)
      <4> HIDE DEF j
      <4>1. repair' = [repair EXCEPT ![j] = Append(repair[j], "pending")] /\ j \in Job
        BY <2>1, <3>1 DEF ProposeRepair, j
      <4> QED
        BY <4>1 DEF TypeInv
    <3>2. CASE Decide(t)
      <4> HIDE DEF j
      <4>1. PICK d \in Decision : repair' = [repair EXCEPT ![j] = [repair[j] EXCEPT ![op[t].which] = d]]
        BY <3>2 DEF Decide, j
      <4>2. j \in Job /\ repair[j] \in Seq(Decision \cup {"pending"})
        BY <2>1 DEF TypeInv, j
      <4>3. [repair[j] EXCEPT ![op[t].which] = d] \in Seq(Decision \cup {"pending"})
        <5> DEFINE s == repair[j]
        <5>1. s \in [1..Len(s) -> Decision \cup {"pending"}] /\ Len(s) \in Nat
          BY <4>2
        <5>2. [s EXCEPT ![op[t].which] = d] \in [1..Len(s) -> Decision \cup {"pending"}]
          BY <5>1
        <5> HIDE DEF s
        <5>3. [s EXCEPT ![op[t].which] = d] \in Seq(Decision \cup {"pending"})
          BY <5>1, <5>2, FunctionIsSeq
        <5> QED
          BY <5>3 DEF s
      <4>4. DOMAIN [repair[j] EXCEPT ![op[t].which] = d] = DOMAIN repair[j]
        OBVIOUS
      <4> QED
        BY <4>1, <4>2, <4>3, <4>4 DEF TypeInv
    <3> QED
      BY <1>2, <3>1, <3>2 DEF CancelJob, ReadSteps, ReadApprovals, ReadRetry, Requeue, ResetSteps,
                              RollbackStep, RollbackStatus, rows, TypeInv
  <2>6. Rest'
    BY <2>2 DEF Rest, TypeInv
  <2>7. \A u \in Request : op'[u].kind = "decide" => op'[u].which \in DOMAIN repair'[op'[u].job]
    <3> SUFFICES ASSUME NEW u \in Request, op'[u].kind = "decide"
                 PROVE  op'[u].which \in DOMAIN repair'[op'[u].job]
      OBVIOUS
    <3>1. op[u].kind = "decide" /\ op'[u].which = op[u].which /\ op'[u].job = op[u].job
      BY <2>1 DEF Moved
    <3>2. op[u].job \in Job /\ op[u].which \in DOMAIN repair[op[u].job]
      BY <3>1, Busy DEF TypeInv
    <3> QED
      BY <2>5, <3>1, <3>2
  <2> QED
    BY <2>1, <2>2, <2>3, <2>4, <2>5, <2>6, <2>7 DEF TypeInv, Moved
<1> QED
  BY <1>1, <1>2 DEF Serve

LEMMA TypeRestart ==
  ASSUME JobRowsAssumption, TypeInv, Restart PROVE TypeInv'
<1>1. op' \in [Request -> OpRecord] /\ \A t \in Request : OpOK(op'[t]) /\ op'[t].kind = "none"
  BY NoOpOK DEF Restart, OpOK
<1>2. worker' \in [Job -> WorkerRecord]
  BY DEF Restart, TypeInv, WorkerRecord, WorkerPc
<1>3. job' \in [Job -> Status \cup {None}]
  BY DEF Restart, TypeInv, Status
<1>4. Rest'
  BY DEF Restart, TypeInv, Rest, JobRowsAssumption
<1> QED
  BY <1>1, <1>2, <1>3, <1>4 DEF Restart, TypeInv

LEMMA TypeStep ==
  ASSUME JobRowsAssumption, TypeInv, [Next]_jobVars PROVE TypeInv'
<1>1. CASE UNCHANGED jobVars
  BY <1>1 DEF jobVars, rows, TypeInv, Rest
<1> QED
  BY <1>1, TypeWork, TypeServe, TypeRestart DEF Next

\* The rows, the workers and the requests keep their types, and a decision names a
\* row that is there, whatever two requests for the same job do.
THEOREM JobRowsTypeCorrect ==
  ASSUME JobRowsAssumption PROVE Spec => []TypeOK
<1>1. Init => TypeInv
  BY TypeInit
<1>2. TypeInv /\ [Next]_jobVars => TypeInv'
  BY TypeStep
<1>3. TypeInv => TypeOK
  BY DEF TypeInv, TypeOK, Rest, OpRecord, WorkerRecord, WorkerPc
<1> QED
  BY <1>1, <1>2, <1>3, PTL DEF Spec

-----------------------------------------------------------------------------
(* The row of a job and its steps                                           *)

Failed(j) == {i \in DOMAIN steps[j] : steps[j][i] = "failed"}
Fits(j) ==
  /\ job[j] = "failed" => Failed(j) # {}
  /\ job[j] \in {"queued", "completed"} => Failed(j) = {}

Requeuing(r) == r.kind \in {"apply", "retry"} /\ r.pc = "status"

\* A job without a row has nobody and nothing.
Unborn(j) ==
  job[j] = None => worker[j].pc = "none" /\ Failed(j) = {} /\ \A t \in Request : op[t].job # j

\* Its worker, or one request, has a job in hand.
Alone(j) ==
  \A t \in Request : op[t].job = j => ~Working(j) /\ \A u \in Request : op[u].job = j => u = t

\* One step has failed at most, while the worker is at it none but the one it tells of.
OneFailed(j) == \A i, k \in Failed(j) : i = k
Stage(j) ==
  Working(j) =>
    /\ worker[j].pc = "failed" /\ worker[j].kind = "slice" => Failed(j) # {}
    /\ worker[j].pc # "failed" \/ worker[j].kind # "slice" => Failed(j) = {}
    /\ worker[j].pc = "failed" /\ worker[j].kind # "slice" => job[j] = "failed"

\* A repair resets the one failed step there is, and a job that is about to be queued
\* has none.
Repairing(j) ==
  \A t \in Request : op[t].job = j =>
    /\ Requeuing(op[t]) => Failed(j) = {}
    /\ op[t].kind = "apply" /\ op[t].pc \in {"approvals", "write"} => Failed(j) \subseteq {op[t].which}

Settled(j) ==
  ~Working(j) /\ (\A t \in Request : op[t].job = j => ~Requeuing(op[t])) => Fits(j)

Quiet(j) == Alone(j) /\ OneFailed(j) /\ Stage(j) /\ Repairing(j) /\ Settled(j)
RowInv(j) == Unborn(j) /\ (j \notin raced \cup torn => Quiet(j))

\* Nothing about a job changes when another one's row, steps and worker do.
LEMMA OtherJob ==
  ASSUME NEW k, RowInv(k), job'[k] = job[k], Failed(k)' = Failed(k), worker'[k] = worker[k],
         raced \subseteq raced', torn \subseteq torn',
         \A t \in Request : op'[t] = op[t] \/ (op[t].job # k /\ op'[t].job # k)
  PROVE  RowInv(k)'
<1>1. Unborn(k)'
  BY DEF RowInv, Unborn
<1>2. ASSUME k \notin raced' \cup torn' PROVE Quiet(k)'
  <2>1. Quiet(k)
    BY <1>2 DEF RowInv
  <2>2. Working(k)' <=> Working(k)
    BY DEF Working
  <2>3. Alone(k)'
    BY <2>1, <2>2 DEF Quiet, Alone
  <2>4. OneFailed(k)' /\ Stage(k)'
    BY <2>1, <2>2 DEF Quiet, OneFailed, Stage
  <2>5. Repairing(k)' /\ Settled(k)'
    BY <2>1, <2>2 DEF Quiet, Repairing, Settled, Fits
  <2> QED
    BY <2>3, <2>4, <2>5 DEF Quiet
<1> QED
  BY <1>1, <1>2 DEF RowInv

\* What the steps do to the failed ones among a job's.
LEMMA StepsAdded ==
  ASSUME TypeInv, NEW j \in Job, NEW s \in Seq(StepStatus), AddSteps(j, s)
  PROVE  /\ \A k \in Job : k # j => Failed(k)' = Failed(k)
         /\ (\A i \in DOMAIN s : s[i] # "failed") => Failed(j)' = Failed(j)
         /\ s = << "failed" >> => Failed(j)' = Failed(j) \cup {Len(steps[j]) + 1}
<1>1. \A k \in Job : k # j => steps'[k] = steps[k]
  BY DEF AddSteps, TypeInv
<1>2. steps'[j] = steps[j] \o s /\ steps[j] \in Seq(StepStatus)
  BY DEF AddSteps, TypeInv
<1> DEFINE q == steps[j]
           z == q \o s
<1>3. /\ DOMAIN z = 1..(Len(q) + Len(s)) /\ DOMAIN q = 1..Len(q) /\ DOMAIN s = 1..Len(s)
      /\ Len(q) \in Nat /\ Len(s) \in Nat
      /\ \A i \in 1..(Len(q) + Len(s)) : z[i] = IF i <= Len(q) THEN q[i] ELSE s[i - Len(q)]
  BY <1>2
<1>4. Failed(j) = {i \in DOMAIN q : q[i] = "failed"} /\ Failed(j)' = {i \in DOMAIN z : z[i] = "failed"}
  BY <1>2 DEF Failed
<1> HIDE DEF q, z
<1>5. ASSUME \A i \in DOMAIN s : s[i] # "failed" PROVE Failed(j)' = Failed(j)
  <2>1. \A i \in 1..(Len(q) + Len(s)) : i > Len(q) => z[i] # "failed"
    BY <1>3, <1>5
  <2> QED
    BY <1>3, <1>4, <2>1
<1>6. ASSUME s = << "failed" >> PROVE Failed(j)' = Failed(j) \cup {Len(q) + 1}
  <2>1. Len(s) = 1 /\ s[1] = "failed"
    BY <1>6
  <2>2. DOMAIN z = 1..(Len(q) + 1) /\ z[Len(q) + 1] = "failed"
    BY <1>3, <2>1
  <2> QED
    BY <1>3, <1>4, <2>1, <2>2
<1> QED
  BY <1>1, <1>5, <1>6 DEF Failed, q

\* A statement of a worker raises: from now on nothing is claimed of its job.
LEMMA RowRaise ==
  ASSUME TypeInv, NEW j \in Job, RowInv(j), Working(j), Raise(j), UNCHANGED op
  PROVE  RowInv(j)'
<1>1. job[j] # None
  BY DEF RowInv, Unborn, Working
<1> QED
  BY <1>1 DEF Raise, RowInv, Unborn

LEMMA RowWork ==
  ASSUME JobRowsAssumption, TypeInv, NEW j \in Job, Work(j), \A k \in Job : RowInv(k)
  PROVE  \A k \in Job : RowInv(k)'
<1>1. UNCHANGED <<op, raced>> /\ torn \subseteq torn'
  BY DEF Work, CreateJob, StartWork, WorkEnds, WorkSteps, WorkFinishes, WorkFails, WorkerKeeps, Raise
<1>2. << "done" >> \in Seq(StepStatus) /\ << "done", "done" >> \in Seq(StepStatus)
      /\ << "failed" >> \in Seq(StepStatus)
  BY DEF StepStatus
<1>3. \A k \in Job : k # j => Failed(k)' = Failed(k)
  <2>1. UNCHANGED steps \/ \E s \in Seq(StepStatus) : AddSteps(j, s)
    BY <1>2 DEF Work, CreateJob, StartWork, WorkEnds, WorkSteps, WorkFinishes, WorkFails, Raise, rows
  <2> QED
    BY <2>1, StepsAdded DEF Failed
<1>4. \A k \in Job : k # j => job'[k] = job[k] /\ worker'[k] = worker[k]
  BY DEF Work, CreateJob, StartWork, WorkEnds, WorkSteps, WorkFinishes, WorkFails, Raise, rows,
         SetStatus, Worker, TypeInv
<1>5. \A k \in Job : k # j => RowInv(k)'
  BY <1>1, <1>3, <1>4, OtherJob
<1>6. RowInv(j)'
  <2>0. RowInv(j) /\ worker[j] \in WorkerRecord
    BY DEF TypeInv
  <2>1. ASSUME CreateJob(j) PROVE RowInv(j)'
    <3>1. job'[j] = "queued" /\ Failed(j)' = Failed(j) /\ Failed(j) = {} /\ worker' = worker
          /\ worker[j].pc = "none" /\ \A t \in Request : op'[t].job # j
      BY <1>1, <2>0, <2>1 DEF CreateJob, SetStatus, TypeInv, RowInv, Unborn, Failed
    <3>2. job'[j] # None
      BY <3>1 DEF JobRowsAssumption, Status
    <3> QED
      BY <3>1, <3>2 DEF RowInv, Unborn, Quiet, Alone, OneFailed, Stage, Working, Repairing, Settled, Fits
  <2>2. ASSUME NEW kind \in {"slice", "design"}, StartWork(j, kind) PROVE RowInv(j)'
    <3>1. \A i \in DOMAIN << "done" >> : << "done" >>[i] # "failed"
      OBVIOUS
    <3>2. Failed(j)' = {} /\ \A t \in Request : op'[t].job # j
      BY <1>1, <1>2, <2>0, <2>2, <3>1, StepsAdded DEF StartWork, RowInv, Unborn
    <3>3. job'[j] = "running" /\ worker'[j] = [kind |-> kind, pc |-> "work", again |-> FALSE]
      BY <2>2 DEF StartWork, SetStatus, TypeInv
    <3>4. job'[j] # None
      BY <3>3 DEF JobRowsAssumption, Status
    <3> QED
      BY <3>2, <3>3, <3>4 DEF RowInv, Unborn, Quiet, Alone, OneFailed, Stage, Working, Repairing, Settled, Fits
  <2> DEFINE At == WorkEnds(j) \/ WorkSteps(j) \/ WorkFinishes(j) \/ WorkFails(j)
  <2>3. ASSUME At PROVE /\ Working(j) /\ job[j] # None /\ worker[j].pc # "gone"
                        /\ (j \notin raced \cup torn => \A t \in Request : op[t].job # j)
    BY <2>0, <2>3 DEF WorkEnds, WorkSteps, WorkFinishes, WorkFails, Working, RowInv, Unborn, Quiet, Alone
  <2>4. ASSUME At, Raise(j) PROVE RowInv(j)'
    BY <1>1, <2>0, <2>3, <2>4, RowRaise
  <2>5. ASSUME NEW pc \in WorkerPc, Worker(j, pc)
        PROVE  worker'[j].pc = pc /\ worker'[j].kind = worker[j].kind
    BY <2>0, <2>5 DEF Worker, TypeInv, WorkerRecord
  <2>6. ASSUME WorkEnds(j) PROVE RowInv(j)'
    <3>1. /\ worker'[j].pc \in {"steps", "fail"} /\ worker[j].pc = "work"
          /\ job' = job /\ Failed(j)' = Failed(j)
      BY <2>5, <2>6 DEF WorkEnds, WorkerPc, rows, Failed
    <3> QED
      BY <1>1, <2>0, <2>3, <2>6, <3>1
      DEF RowInv, Unborn, Quiet, Alone, OneFailed, Stage, Working, Repairing, Settled
  <2>7. ASSUME WorkSteps(j), ~Raise(j) PROVE RowInv(j)'
    <3>1. \A i \in DOMAIN << "done", "done" >> : << "done", "done" >>[i] # "failed"
      OBVIOUS
    <3>2. /\ worker'[j].pc = "finish" /\ worker[j].pc = "steps"
          /\ job' = job /\ Failed(j)' = Failed(j)
      BY <1>2, <2>5, <2>7, <3>1, StepsAdded DEF WorkSteps, WorkerPc
    <3> QED
      BY <1>1, <2>0, <2>3, <2>7, <3>2
      DEF RowInv, Unborn, Quiet, Alone, OneFailed, Stage, Working, Repairing, Settled
  <2>8. ASSUME WorkFinishes(j), ~Raise(j) PROVE RowInv(j)'
    <3>1. /\ worker'[j].pc = "gone" /\ worker[j].pc = "finish"
          /\ job'[j] = "completed" /\ Failed(j)' = Failed(j)
      BY <2>5, <2>8 DEF WorkFinishes, WorkerPc, SetStatus, TypeInv, Failed
    <3>2. job'[j] # None
      BY <3>1 DEF JobRowsAssumption, Status
    <3> QED
      BY <1>1, <2>0, <2>3, <2>8, <3>1, <3>2
      DEF RowInv, Unborn, Quiet, Alone, OneFailed, Stage, Working, Repairing, Settled, Fits
  <2>9. ASSUME WorkFails(j), ~Raise(j) PROVE RowInv(j)'
    <3> DEFINE adds == worker[j].kind = "slice" <=> worker[j].pc = "fail"
    <3>1. /\ worker[j].pc \in {"fail", "failed"}
          /\ worker'[j].pc = (IF worker[j].pc = "fail" THEN "failed" ELSE "gone")
          /\ worker'[j].kind = worker[j].kind
      BY <2>5, <2>9 DEF WorkFails, WorkerPc
    <3>2. CASE adds
      <4>1. Failed(j)' = Failed(j) \cup {Len(steps[j]) + 1} /\ job' = job
        BY <1>2, <2>9, <3>2, StepsAdded DEF WorkFails
      <4> HIDE DEF adds
      <4>2. worker[j].pc # "failed" \/ worker[j].kind # "slice"
        BY <3>2 DEF adds
      <4> QED
        BY <1>1, <2>0, <2>3, <2>9, <3>1, <3>2, <4>1, <4>2
        DEF adds, RowInv, Unborn, Quiet, Alone, OneFailed, Stage, Working, Repairing, Settled, Fits
    <3>3. CASE ~adds
      <4>1. job'[j] = "failed" /\ Failed(j)' = Failed(j)
        BY <2>9, <3>3 DEF WorkFails, SetStatus, TypeInv, Failed
      <4>2. job'[j] # None
        BY <4>1 DEF JobRowsAssumption, Status
      <4> QED
        BY <1>1, <2>0, <2>3, <2>9, <3>1, <3>3, <4>1, <4>2
        DEF RowInv, Unborn, Quiet, Alone, OneFailed, Stage, Working, Repairing, Settled, Fits
    <3> QED
      BY <3>2, <3>3
  <2> QED
    BY <2>1, <2>2, <2>4, <2>6, <2>7, <2>8, <2>9 DEF Work
<1> QED
  BY <1>5, <1>6

LEMMA RowBegin ==
  ASSUME JobRowsAssumption, TypeInv, NEW t \in Request, NEW j \in Job,
         NEW kind \in {"cancel", "propose", "apply", "retry", "rollback", "decide"}, Begin(t, kind, j),
         \A k \in Job : RowInv(k)
  PROVE  \A k \in Job : RowInv(k)'
<1>1. PICK i \in Nat : Moved(t, [kind |-> kind, pc |-> "read", job |-> j, status |-> job[j], which |-> i])
  BY TypeBegin
<1> DEFINE r == [kind |-> kind, pc |-> "read", job |-> j, status |-> job[j], which |-> i]
<1>2. op[t].pc = "idle" /\ op[t].job = None /\ None \notin Job
  BY DEF Begin, TypeInv, OpOK, NoOp, JobRowsAssumption
<1>3. /\ UNCHANGED <<rows, worker, torn>> /\ job[j] # None
      /\ raced' = IF InHand(j) THEN raced \cup {j} ELSE raced
  BY DEF Begin, Accepts
<1>4. ASSUME NEW k \in Job, k # j PROVE RowInv(k)'
  BY <1>1, <1>2, <1>3, <1>4, OtherJob DEF Moved, Failed, rows
<1>5. RowInv(j)'
  <2>1. ASSUME j \notin raced' \cup torn' PROVE Quiet(j)'
    <3>1. ~Working(j) /\ (\A u \in Request : op[u].job # j) /\ Quiet(j)
      BY <1>3, <2>1 DEF InHand, RowInv
    <3>2. Fits(j)
      BY <3>1 DEF Quiet, Settled
    <3>3. \A u \in Request : op'[u].job = j => u = t /\ op'[u] = r
      BY <1>1, <3>1 DEF Moved
    <3> QED
      BY <1>3, <3>1, <3>2, <3>3
      DEF Quiet, Alone, OneFailed, Stage, Working, Repairing, Requeuing, Settled, Fits, Failed, rows
  <2> QED
    BY <1>3, <2>1 DEF RowInv, Unborn, rows
<1> QED
  BY <1>4, <1>5

\* The steps of a request that has begun, as far as the row is concerned: it returns
\* or goes on, and touches the row in one of six ways.
LEMMA RowServed ==
  ASSUME JobRowsAssumption, TypeInv, NEW t \in Request, NEW j \in Job, op[t].job = j,
         \/ CancelJob(t) \/ ReadSteps(t) \/ ReadApprovals(t) \/ ProposeRepair(t)
         \/ ReadRetry(t) \/ ResetSteps(t) \/ Requeue(t)
         \/ RollbackStep(t) \/ RollbackStatus(t) \/ Decide(t),
         \A k \in Job : RowInv(k)
  PROVE  \A k \in Job : RowInv(k)'
<1>0. /\ op[t] # NoOp /\ j \in Job /\ op[t] \in OpRecord /\ RowInv(j)
      /\ UNCHANGED <<worker, raced, torn>>
  BY Busy DEF CancelJob, ReadSteps, ReadApprovals, ProposeRepair, ReadRetry, ResetSteps, Requeue,
              RollbackStep, RollbackStatus, Decide, OpKeeps
<1>1. PICK r \in OpRecord : Moved(t, r) /\ r.job \in {None, j}
  BY ServeMoves
<1>2. job[j] # None
  BY <1>0 DEF RowInv, Unborn
<1>3. job' = job \/ \E s \in Status : SetStatus(j, s)
  BY DEF CancelJob, ReadSteps, ReadApprovals, ProposeRepair, ReadRetry, ResetSteps, Requeue,
         RollbackStep, RollbackStatus, Decide, rows, Status
<1>4. \A k \in Job : k # j => steps'[k] = steps[k] /\ job'[k] = job[k]
  <2>1. \A k \in Job : k # j => steps'[k] = steps[k]
    BY DEF CancelJob, ReadSteps, ReadApprovals, ProposeRepair, ReadRetry, ResetSteps, Requeue,
           RollbackStep, RollbackStatus, Decide, rows, AddSteps, TypeInv
  <2> QED
    BY <1>3, <2>1 DEF SetStatus, TypeInv
<1>5. ASSUME NEW k \in Job, k # j PROVE RowInv(k)'
  <2>1. \A u \in Request : op'[u] = op[u] \/ (op[u].job # k /\ op'[u].job # k)
    BY <1>1, <1>5 DEF Moved, JobRowsAssumption
  <2> QED
    BY <1>0, <1>4, <1>5, <2>1, OtherJob DEF Failed
<1>6. job'[j] # None
  BY <1>0, <1>2, <1>3 DEF SetStatus, TypeInv, JobRowsAssumption
<1>7. ASSUME j \notin raced \cup torn PROVE Quiet(j)'
  <2>1. Quiet(j) /\ ~Working(j) /\ (\A u \in Request : op[u].job = j => u = t)
    BY <1>0, <1>7 DEF RowInv, Quiet, Alone
  <2>2. ~Working(j)' /\ (\A u \in Request : op'[u].job = j => u = t /\ op'[u] = r)
    BY <1>0, <1>1, <2>1 DEF Working, Moved
  <2>3. Alone(j)' /\ Stage(j)'
    BY <2>2 DEF Alone, Stage
  <2> DEFINE Good == /\ OneFailed(j)' /\ (r.job = None \/ ~Requeuing(r) => Fits(j)')
                     /\ r.job = j =>
                          /\ Requeuing(r) => Failed(j)' = {}
                          /\ r.kind = "apply" /\ r.pc \in {"approvals", "write"} => Failed(j)' \subseteq {r.which}
  <2>4. ASSUME Good PROVE Quiet(j)'
    <3>1. Repairing(j)'
      BY <2>2, <2>4 DEF Repairing
    <3>2. Settled(j)'
      <4>1. CASE r.job = None \/ ~Requeuing(r)
        BY <2>4, <4>1 DEF Settled
      <4>2. CASE r.job = j /\ Requeuing(r)
        BY <1>1, <2>2, <4>2 DEF Settled, Moved
      <4> QED
        BY <1>1, <4>1, <4>2
    <3> QED
      BY <2>3, <2>4, <3>1, <3>2 DEF Quiet
  <2>5. OneFailed(j) /\ (~Requeuing(op[t]) => Fits(j))
        /\ (Requeuing(op[t]) => Failed(j) = {})
        /\ (op[t].kind = "apply" /\ op[t].pc \in {"approvals", "write"} => Failed(j) \subseteq {op[t].which})
    BY <1>0, <2>1 DEF Quiet, Settled, Repairing
  <2>6. ASSUME Return(t) PROVE r.job = None
    <3>1. r = NoOp
      BY <1>1, <2>6, Returns DEF Moved
    <3> QED
      BY <3>1, NoOpOK
  <2>7. ASSUME NEW pc \in {"approvals", "write", "status"}, Goto(t, pc)
        PROVE  r.pc = pc /\ r.kind = op[t].kind /\ r.which = op[t].which
    <3>1. r = [op[t] EXCEPT !.pc = pc]
      BY <1>0, <1>1, <2>7, Gotos DEF Moved
    <3> QED
      BY <1>0, <3>1 DEF OpRecord
  <2>8. CASE CancelJob(t) \/ RollbackStatus(t)
    <3>1. /\ job'[j] \in {"cancelled", "rolled_back"} /\ Failed(j)' = Failed(j) /\ r.job = None
      BY <1>0, <2>6, <2>8 DEF CancelJob, RollbackStatus, SetStatus, TypeInv, Failed
    <3> QED
      BY <1>0, <2>4, <2>5, <3>1 DEF OneFailed, Fits, JobRowsAssumption
  <2>9. CASE ReadSteps(t)
    <3> DEFINE i == FailedStep(j, op[t].status)
    <3>1. UNCHANGED <<job, steps>> /\ Failed(j)' = Failed(j) /\ op[t].pc = "read" /\ ~Requeuing(op[t])
      BY <2>9 DEF ReadSteps, rows, Failed, Requeuing
    <3>2. CASE i = None
      <4>1. r.job = None
        BY <2>6, <2>9, <3>2 DEF ReadSteps
      <4> QED
        BY <1>0, <2>4, <2>5, <3>1, <4>1 DEF OneFailed, Fits, JobRowsAssumption
    <3>3. CASE i # None
      <4>1. op' = [op EXCEPT ![t] = [op[t] EXCEPT !.which = i, !.pc = "approvals"]]
        BY <2>9, <3>3 DEF ReadSteps
      <4>2. r = [op[t] EXCEPT !.which = i, !.pc = "approvals"]
        BY <1>1, <4>1 DEF Moved, TypeInv
      <4>3. Failed(j) \subseteq {i}
        <5>1. CASE Failed(j) = {}
          BY <5>1
        <5>2. CASE Failed(j) # {}
          <6>1. PICK f \in Failed(j) : Failed(j) = {f}
            BY <2>5, <5>2 DEF OneFailed
          <6>2. f \in Nat
            BY <1>0 DEF Failed, TypeInv
          <6>3. i = CHOOSE x \in Failed(j) : \A k \in Failed(j) : x <= k
            BY <5>2 DEF FailedStep, Failed
          <6>4. \E x \in Failed(j) : \A k \in Failed(j) : x <= k
            BY <6>1, <6>2
          <6> QED
            BY <6>1, <6>3, <6>4
        <5> QED
          BY <5>1, <5>2
      <4>4. r.pc = "approvals" /\ r.which = i /\ ~Requeuing(r)
        BY <1>0, <4>2 DEF OpRecord, Requeuing
      <4> QED
        BY <1>0, <2>4, <2>5, <3>1, <4>3, <4>4 DEF OneFailed, Fits
    <3> QED
      BY <3>2, <3>3
  <2>10. CASE ReadApprovals(t) \/ ReadRetry(t)
    <3>1. UNCHANGED <<job, steps>> /\ Failed(j)' = Failed(j) /\ ~Requeuing(op[t])
          /\ (Return(t) \/ Goto(t, "write"))
          /\ (Goto(t, "write") /\ op[t].kind = "apply" => op[t].pc = "approvals")
      BY <2>10 DEF ReadApprovals, ReadRetry, rows, Failed, Requeuing
    <3>2. r.job = None \/ (r.pc = "write" /\ r.kind = op[t].kind /\ r.which = op[t].which
                            /\ (op[t].kind = "apply" => op[t].pc = "approvals"))
      BY <2>6, <2>7, <3>1
    <3> QED
      BY <1>0, <2>4, <2>5, <3>1, <3>2 DEF OneFailed, Fits, Requeuing, JobRowsAssumption
  <2>11. CASE ProposeRepair(t) \/ Decide(t)
    <3>1. UNCHANGED <<job, steps>> /\ Failed(j)' = Failed(j) /\ ~Requeuing(op[t]) /\ r.job = None
      BY <2>6, <2>11 DEF ProposeRepair, Decide, Failed, Requeuing
    <3> QED
      BY <1>0, <2>4, <2>5, <3>1 DEF OneFailed, Fits, JobRowsAssumption
  <2>12. CASE ResetSteps(t)
    <3> DEFINE reset == IF op[t].kind = "apply" THEN {op[t].which}
                        ELSE {i \in DOMAIN steps[j] : steps[j][i] = "failed"}
               z == [i \in DOMAIN steps[j] |-> IF i \in reset THEN "pending" ELSE steps[j][i]]
    <3>1. steps'[j] = z /\ job' = job /\ Goto(t, "status") /\ op[t].kind \in {"apply", "retry"}
          /\ op[t].pc = "write"
      BY <1>0, <2>12 DEF ResetSteps, TypeInv
    <3>2. Failed(j) \subseteq reset
      BY <2>5, <3>1 DEF Failed
    <3>3. Failed(j)' = {}
      <4> HIDE DEF reset
      <4>1. DOMAIN z = DOMAIN steps[j]
        OBVIOUS
      <4>2. \A i \in DOMAIN z : z[i] # "failed"
        BY <3>2 DEF Failed
      <4> HIDE DEF z
      <4> QED
        BY <3>1, <4>2 DEF Failed
    <3>4. r.pc = "status" /\ r.kind \in {"apply", "retry"} /\ Requeuing(r)
      BY <2>7, <3>1 DEF Requeuing
    <3>5. r.job = j
      <4>1. r = [op[t] EXCEPT !.pc = "status"]
        BY <1>0, <1>1, <3>1, Gotos DEF Moved
      <4> QED
        BY <1>0, <4>1 DEF OpRecord
    <3>6. r.job # None
      BY <3>5 DEF JobRowsAssumption
    <3> QED
      BY <2>4, <3>3, <3>4, <3>6 DEF OneFailed
  <2>13. CASE Requeue(t)
    <3>1. job'[j] = "queued" /\ Failed(j)' = Failed(j) /\ Requeuing(op[t]) /\ r.job = None
      BY <1>0, <2>6, <2>13 DEF Requeue, SetStatus, TypeInv, Failed, Requeuing
    <3> QED
      BY <1>0, <2>4, <2>5, <3>1 DEF OneFailed, Fits, JobRowsAssumption
  <2>14. CASE RollbackStep(t)
    <3>1. job' = job /\ op[t].kind = "rollback" /\ (Return(t) \/ Goto(t, "status"))
          /\ (UNCHANGED steps \/ AddSteps(j, << "done" >>))
      BY <2>14 DEF RollbackStep
    <3>2. << "done" >> \in Seq(StepStatus) /\ \A i \in DOMAIN << "done" >> : << "done" >>[i] # "failed"
      BY DEF StepStatus
    <3>3. Failed(j)' = Failed(j)
      <4>1. CASE UNCHANGED steps
        BY <4>1 DEF Failed
      <4>2. CASE AddSteps(j, << "done" >>)
        BY <1>0, <3>2, <4>2, StepsAdded
      <4> QED
        BY <3>1, <4>1, <4>2
    <3>4. r.job = None \/ (r.kind = "rollback" /\ ~Requeuing(r))
      BY <2>6, <2>7, <3>1 DEF Requeuing
    <3>5. ~Requeuing(op[t])
      BY <3>1 DEF Requeuing
    <3> QED
      BY <1>0, <2>4, <2>5, <3>1, <3>3, <3>4, <3>5 DEF OneFailed, Fits, JobRowsAssumption
  <2> QED
    BY <2>8, <2>9, <2>10, <2>11, <2>12, <2>13, <2>14
<1>8. RowInv(j)'
  BY <1>0, <1>6, <1>7 DEF RowInv, Unborn
<1> QED
  BY <1>5, <1>8

LEMMA RowRestart ==
  ASSUME JobRowsAssumption, TypeInv, Restart, NEW j \in Job, RowInv(j) PROVE RowInv(j)'
<1>1. /\ \A t \in Request : op'[t].job # j
      /\ Failed(j)' = Failed(j) /\ raced' = raced /\ torn \subseteq torn'
  BY NoOpOK DEF Restart, Failed, JobRowsAssumption
<1>2. job'[j] = job[j] \/ (job[j] = "queued" /\ job'[j] = "cancelled")
  BY DEF Restart, TypeInv
<1>3. Unborn(j)'
  <2>1. job'[j] = None => job[j] = None
    BY <1>2 DEF JobRowsAssumption, Status
  <2>2. job[j] = None => worker'[j] = worker[j]
    BY DEF Restart, RowInv, Unborn, Working
  <2> QED
    BY <1>1, <2>1, <2>2 DEF RowInv, Unborn
<1>4. ASSUME j \notin raced' \cup torn' PROVE Quiet(j)'
  <2>1. ~InHand(j) /\ worker'[j] = worker[j] /\ j \notin raced \cup torn
    BY <1>1, <1>4 DEF Restart, InHand
  <2>2. Quiet(j) /\ Fits(j) /\ ~Working(j)'
    BY <2>1 DEF RowInv, Quiet, Settled, InHand, Working
  <2> QED
    BY <1>1, <1>2, <2>2 DEF Quiet, Alone, OneFailed, Stage, Repairing, Settled, Fits
<1> QED
  BY <1>3, <1>4 DEF RowInv

\* Whatever workers, operators and restarts do to any number of jobs: the row of a job
\* that nobody has in hand fits its steps, but for those that two had in hand at a
\* time or whose worker was stopped in between.
THEOREM RowsFitSteps ==
  ASSUME JobRowsAssumption PROVE Spec => []StatusFitsSteps
<1> DEFINE Inv == TypeInv /\ \A j \in Job : RowInv(j)
<1>1. Init => Inv
  <2> SUFFICES ASSUME Init PROVE TypeInv /\ \A j \in Job : RowInv(j)
    OBVIOUS
  <2>1. \A t \in Request : op[t].job = None
    BY NoOpOK DEF Init
  <2>2. \A j \in Job : job[j] = None /\ worker[j].pc = "none" /\ Failed(j) = {}
    BY DEF Init, NoWorker, Failed
  <2> QED
    BY <2>1, <2>2, TypeInit DEF RowInv, Unborn, Quiet, Alone, OneFailed, Stage, Working, Repairing,
                                Settled, Fits, JobRowsAssumption, Status
<1>2. Inv /\ [Next]_jobVars => Inv'
  <2> SUFFICES ASSUME TypeInv, \A j \in Job : RowInv(j), [Next]_jobVars
               PROVE  TypeInv' /\ \A j \in Job : RowInv(j)'
    OBVIOUS
  <2>1. ASSUME NEW t \in Request, Serve(t) PROVE \A j \in Job : RowInv(j)'
    <3>1. CASE \E kind \in {"cancel", "propose", "apply", "retry", "rollback", "decide"}, j \in Job :
                 Begin(t, kind, j)
      BY <3>1, RowBegin
    <3>2. CASE \/ CancelJob(t) \/ ReadSteps(t) \/ ReadApprovals(t) \/ ProposeRepair(t)
               \/ ReadRetry(t) \/ ResetSteps(t) \/ Requeue(t)
               \/ RollbackStep(t) \/ RollbackStatus(t) \/ Decide(t)
      <4>1. PICK j \in Job : op[t].job = j
        BY <3>2, ServeMoves
      <4> QED
        BY <3>2, <4>1, RowServed
    <3> QED
      BY <2>1, <3>1, <3>2 DEF Serve
  <2>2. ASSUME NEW j \in Job, UNCHANGED jobVars PROVE RowInv(j)'
    BY <2>2, OtherJob DEF jobVars, rows, Failed
  <2> QED
    BY <2>1, <2>2, TypeStep, RowWork, RowRestart DEF Next
<1>3. Inv => StatusFitsSteps
  <2> SUFFICES ASSUME Inv, NEW j \in Job \ (raced \cup torn), ~InHand(j) PROVE Fits(j)
    BY DEF StatusFitsSteps, Fits, Failed
  <2> QED
    BY DEF RowInv, Quiet, Settled, InHand
<1> QED
  BY <1>1, <1>2, <1>3, PTL DEF Spec
-----------------------------------------------------------------------------
(* Repairs and decisions.  A job that no two requests had in hand at a time   *)
(* has at most one proposal to decide about: who proposes has seen none, and  *)
(* who decides has one to decide about until the decision is written.         *)

Undecided(j) == {i \in DOMAIN repair[j] : repair[j][i] = "pending"}

\* What a request has seen of the proposals that are left.
Knows(r, left) ==
  /\ r.kind = "propose" /\ r.pc = "write" => left = {}
  /\ r.kind = "decide" => r.which \in left

Deciding(j) ==
  j \notin raced =>
    /\ \A t, u \in Request : op[t].job = j /\ op[u].job = j => t = u
    /\ \A i, k \in Undecided(j) : i = k
    /\ \A t \in Request : op[t].job = j => Knows(op[t], Undecided(j))

\* What is said once is said for good.
DecisionsStay(j) ==
  j \notin raced' => \A i \in DOMAIN repair[j] : repair[j][i] # "pending" => repair'[j][i] = repair[j][i]

\* Whoever leaves the approvals and the requests for a job alone leaves it as it is.
LEMMA RepairsAlone ==
  ASSUME NEW j \in Job, Deciding(j), repair'[j] = repair[j], raced \subseteq raced',
         \A u \in Request : op'[u].job = j => op'[u] = op[u]
  PROVE  Deciding(j)' /\ DecisionsStay(j)
<1>1. Undecided(j)' = Undecided(j)
  BY DEF Undecided
<1>2. DecisionsStay(j)
  BY DEF DecisionsStay
<1>3. Deciding(j)'
  <2> SUFFICES ASSUME j \notin raced'
               PROVE  /\ \A t, u \in Request : op'[t].job = j /\ op'[u].job = j => t = u
                      /\ \A i, k \in Undecided(j) : i = k
                      /\ \A t \in Request : op'[t].job = j => Knows(op'[t], Undecided(j))
    BY <1>1 DEF Deciding
  <2>1. /\ \A t, u \in Request : op[t].job = j /\ op[u].job = j => t = u
        /\ \A i, k \in Undecided(j) : i = k
        /\ \A t \in Request : op[t].job = j => Knows(op[t], Undecided(j))
    BY DEF Deciding
  <2>2. ASSUME NEW t \in Request, op'[t].job = j PROVE Knows(op'[t], Undecided(j))
    <3>1. op'[t] = op[t]
      BY <2>2
    <3> QED
      BY <2>1, <2>2, <3>1
  <2> QED
    BY <2>1, <2>2
<1> QED
  BY <1>2, <1>3

LEMMA DecidingWork ==
  ASSUME NEW j \in Job, Work(j), NEW k \in Job, Deciding(k) PROVE Deciding(k)' /\ DecisionsStay(k)
<1>1. UNCHANGED <<repair, op, raced>>
  BY DEF Work, CreateJob, StartWork, WorkEnds, WorkSteps, WorkFinishes, WorkFails, WorkerKeeps, rows
<1> QED
  BY <1>1, RepairsAlone

LEMMA DecidingRestart ==
  ASSUME JobRowsAssumption, Restart, NEW k \in Job, Deciding(k) PROVE Deciding(k)' /\ DecisionsStay(k)
<1>1. repair' = repair /\ raced' = raced /\ \A u \in Request : op'[u].job # k
  BY NoOpOK DEF Restart, JobRowsAssumption
<1> QED
  BY <1>1, RepairsAlone

\* A request that has the job to itself decides about what is pending.
LEMMA DecidingBegin ==
  ASSUME JobRowsAssumption, TypeInv, NEW t \in Request, NEW j \in Job,
         NEW kind \in {"cancel", "propose", "apply", "retry", "rollback", "decide"}, Begin(t, kind, j),
         NEW k \in Job, Deciding(k)
  PROVE  Deciding(k)' /\ DecisionsStay(k)
<1>1. PICK i \in (IF kind = "decide" THEN {h \in DOMAIN repair[j] : repair[j][h] = "pending"} ELSE {0}) :
        op' = [op EXCEPT ![t] = [kind |-> kind, pc |-> "read", job |-> j,
                                 status |-> job[j], which |-> i]]
  BY DEF Begin
<1> DEFINE r == [kind |-> kind, pc |-> "read", job |-> j, status |-> job[j], which |-> i]
<1>2. op' = [op EXCEPT ![t] = r] /\ r.job = j /\ r.pc = "read" /\ Knows(r, Undecided(j))
  BY <1>1 DEF Undecided, Knows
<1> HIDE DEF r
<1>3. \A u \in Request : op'[u] = IF u = t THEN r ELSE op[u]
  BY <1>2 DEF TypeInv
<1>4. repair' = repair /\ raced \subseteq raced' /\ (InHand(j) => j \in raced')
  BY DEF Begin, rows
<1>5. CASE k # j
  BY <1>2, <1>3, <1>4, <1>5, RepairsAlone
<1>6. CASE k = j
  <2>1. DecisionsStay(k)
    BY <1>4 DEF DecisionsStay
  <2>2. ASSUME j \notin raced'
        PROVE  /\ \A u, v \in Request : op'[u].job = j /\ op'[v].job = j => u = v
               /\ \A h, i2 \in Undecided(j) : h = i2
               /\ \A u \in Request : op'[u].job = j => Knows(op'[u], Undecided(j))
    <3>1. \A u \in Request : op[u].job # j
      BY <1>4, <2>2 DEF InHand
    <3> QED
      BY <1>2, <1>3, <1>4, <1>6, <2>2, <3>1 DEF Deciding
  <2>3. Undecided(j)' = Undecided(j)
    BY <1>4 DEF Undecided
  <2> QED
    BY <1>6, <2>1, <2>2, <2>3 DEF Deciding
<1> QED
  BY <1>5, <1>6

\* A request that has begun leaves the approvals alone and remembers what it knew of
\* them, has just read them, proposes, or decides.
LEMMA RepairsServed ==
  ASSUME JobRowsAssumption, TypeInv, NEW t \in Request,
         \/ CancelJob(t) \/ ReadSteps(t) \/ ReadApprovals(t) \/ ProposeRepair(t)
         \/ ReadRetry(t) \/ ResetSteps(t) \/ Requeue(t)
         \/ RollbackStep(t) \/ RollbackStatus(t) \/ Decide(t)
  PROVE  /\ op[t].job \in Job /\ raced' = raced
         /\ \/ /\ repair' = repair
               /\ \E r : /\ Moved(t, r) /\ r.job \in {None, op[t].job}
                         /\ r.kind = "decide" => op[t].kind = "decide" /\ r.which = op[t].which
                         /\ r.kind = "propose" /\ r.pc = "write" => Undecided(op[t].job) = {}
            \/ Moved(t, NoOp) /\ ProposeRepair(t)
            \/ Moved(t, NoOp) /\ Decide(t)
<1>1. PICK r \in OpRecord :
        /\ Moved(t, r) /\ r.job \in {None, op[t].job} /\ op[t].job \in Job
        /\ r.kind = "decide" => op[t].kind = "decide" /\ r.which = op[t].which /\ r.job = op[t].job
  BY ServeMoves
<1>0. op[t] # NoOp /\ op[t] \in OpRecord
  BY Busy DEF CancelJob, ReadSteps, ReadApprovals, ProposeRepair, ReadRetry, ResetSteps, Requeue,
              RollbackStep, RollbackStatus, Decide
<1>2. op'[t] = r
  BY <1>1 DEF Moved
<1>3. raced' = raced
  BY DEF CancelJob, ReadSteps, ReadApprovals, ProposeRepair, ReadRetry, ResetSteps, Requeue,
         RollbackStep, RollbackStatus, Decide, OpKeeps
<1>4. CASE ProposeRepair(t) \/ Decide(t)
  <2>1. Moved(t, NoOp)
    BY <1>4, Returns DEF ProposeRepair, Decide
  <2> QED
    BY <1>1, <1>3, <1>4, <2>1
<1>5. CASE CancelJob(t) \/ ReadSteps(t) \/ ReadApprovals(t) \/ ReadRetry(t) \/ ResetSteps(t)
           \/ Requeue(t) \/ RollbackStep(t) \/ RollbackStatus(t)
  <2>1. repair' = repair
    BY <1>5 DEF CancelJob, ReadSteps, ReadApprovals, ReadRetry, ResetSteps, Requeue,
                RollbackStep, RollbackStatus, rows
  <2>2. ASSUME r.kind = "propose", r.pc = "write" PROVE Undecided(op[t].job) = {}
    <3>1. ~Return(t)
      BY <1>2, <2>2, Returns, NoOpOK DEF Moved
    <3>2. ASSUME NEW pc \in {"approvals", "write", "status"}, Goto(t, pc)
          PROVE  r.kind = op[t].kind /\ r.pc = pc
      <4>1. r = [op[t] EXCEPT !.pc = pc]
        BY <1>0, <1>2, <3>2, Gotos DEF Moved
      <4> QED
        BY <1>0, <4>1 DEF OpRecord
    <3>3. CASE ReadApprovals(t)
      <4>1. ReadApprovals(t) /\ ~Return(t)
        BY <3>1, <3>3
      <4>2. \/ op[t].kind = "propose" /\ ~PendingRepair(op[t].job)
            \/ op[t].kind = "apply" /\ Goto(t, "write")
        BY <4>1 DEF ReadApprovals
      <4>3. ~PendingRepair(op[t].job)
        BY <4>2, <3>2, <2>2
      <4> QED
        BY <4>3 DEF PendingRepair, Undecided
    <3>4. CASE ReadSteps(t)
      <4>1. ~Return(t) /\ ReadSteps(t)
        BY <3>1, <3>4
      <4>2. op' = [op EXCEPT ![t] = [[op[t] EXCEPT !.which = FailedStep(op[t].job, op[t].status)]
                                      EXCEPT !.pc = "approvals"]]
        BY <4>1 DEF ReadSteps, TypeInv
      <4>3. r.pc = "approvals"
        BY <1>0, <1>2, <4>2 DEF TypeInv, OpRecord
      <4> QED
        BY <2>2, <4>3
    <3> QED
      BY <1>5, <3>1, <3>2, <3>3, <3>4, <2>2
         DEF CancelJob, ReadRetry, ResetSteps, Requeue, RollbackStep, RollbackStatus
  <2> QED
    BY <1>1, <1>3, <2>1, <2>2
<1> QED
  BY <1>4, <1>5

LEMMA DecidingServed ==
  ASSUME JobRowsAssumption, TypeInv, NEW t \in Request, NEW k \in Job, Deciding(k),
         \/ CancelJob(t) \/ ReadSteps(t) \/ ReadApprovals(t) \/ ProposeRepair(t)
         \/ ReadRetry(t) \/ ResetSteps(t) \/ Requeue(t)
         \/ RollbackStep(t) \/ RollbackStatus(t) \/ Decide(t)
  PROVE  Deciding(k)' /\ DecisionsStay(k)
<1> DEFINE j == op[t].job
<1>1. /\ j \in Job /\ raced' = raced
      /\ \/ /\ repair' = repair
            /\ \E r : /\ Moved(t, r) /\ r.job \in {None, j}
                      /\ r.kind = "decide" => op[t].kind = "decide" /\ r.which = op[t].which
                      /\ r.kind = "propose" /\ r.pc = "write" => Undecided(j) = {}
         \/ Moved(t, NoOp) /\ ProposeRepair(t)
         \/ Moved(t, NoOp) /\ Decide(t)
  BY RepairsServed
<1> HIDE DEF j
<1>2. CASE k # j
  <2>1. repair'[k] = repair[k]
    BY <1>1, <1>2 DEF ProposeRepair, Decide, TypeInv, j
  <2>2. \A u \in Request : op'[u].job = k => op'[u] = op[u]
    BY <1>1, <1>2, NoOpOK DEF Moved, JobRowsAssumption
  <2> QED
    BY <1>1, <2>1, <2>2, RepairsAlone
<1>3. ASSUME k = j, k \in raced PROVE Deciding(k)' /\ DecisionsStay(k)
  BY <1>1, <1>3 DEF Deciding, DecisionsStay
<1>4. ASSUME k = j, k \notin raced PROVE Deciding(k)' /\ DecisionsStay(k)
  <2>1. /\ \A u, v \in Request : op[u].job = k /\ op[v].job = k => u = v
        /\ \A h, i \in Undecided(k) : h = i
        /\ Knows(op[t], Undecided(k))
    BY <1>4 DEF Deciding, j
  <2>2. CASE /\ repair' = repair
             /\ \E r : /\ Moved(t, r) /\ r.job \in {None, j}
                       /\ r.kind = "decide" => op[t].kind = "decide" /\ r.which = op[t].which
                       /\ r.kind = "propose" /\ r.pc = "write" => Undecided(j) = {}
    <3>1. Undecided(k)' = Undecided(k) /\ DecisionsStay(k)
      BY <2>2 DEF Undecided, DecisionsStay
    <3>2. PICK r : /\ Moved(t, r) /\ r.job \in {None, j}
                   /\ r.kind = "decide" => op[t].kind = "decide" /\ r.which = op[t].which
                   /\ r.kind = "propose" /\ r.pc = "write" => Undecided(j) = {}
      BY <2>2
    <3>3. Knows(r, Undecided(k))
      BY <1>4, <2>1, <3>2 DEF Knows
    <3>4. \A u \in Request : op'[u] = IF u = t THEN r ELSE op[u]
      BY <3>2 DEF Moved
    <3>5. \A u \in Request : op'[u].job = k => u = t
      BY <1>4, <2>1, <3>4 DEF j
    <3>6. \A u \in Request : op'[u].job = k => Knows(op'[u], Undecided(k))
      BY <3>3, <3>4, <3>5
    <3> QED
      BY <2>1, <3>1, <3>5, <3>6 DEF Deciding
  <2>3. ASSUME Moved(t, NoOp) PROVE \A u \in Request : op'[u].job # k
    BY <1>4, <2>1, <2>3, NoOpOK DEF Moved, j, JobRowsAssumption
  <2>4. ASSUME Moved(t, NoOp), ProposeRepair(t) PROVE Deciding(k)' /\ DecisionsStay(k)
    <3>1. repair'[k] = Append(repair[k], "pending") /\ repair[k] \in Seq(Decision \cup {"pending"})
      BY <1>1, <1>4, <2>4 DEF ProposeRepair, TypeInv, j
    <3>2. Undecided(k) = {}
      BY <2>1, <2>4 DEF Knows, ProposeRepair
    <3> DEFINE q == repair[k]
               z == Append(q, "pending")
    <3>3. /\ DOMAIN q = 1..Len(q) /\ DOMAIN z = 1..(Len(q) + 1) /\ Len(q) \in Nat
          /\ \A i \in DOMAIN q : z[i] = q[i]
      BY <3>1
    <3>4. Undecided(k)' = {i \in DOMAIN z : z[i] = "pending"} /\ \A i \in DOMAIN q : q[i] # "pending"
      BY <3>1, <3>2 DEF Undecided
    <3>5. DecisionsStay(k)
      BY <3>1, <3>3 DEF DecisionsStay
    <3> HIDE DEF z, q
    <3>6. \A h, i \in Undecided(k)' : h = i
      BY <3>3, <3>4
    <3> QED
      BY <2>3, <2>4, <3>5, <3>6 DEF Deciding
  <2>5. ASSUME Moved(t, NoOp), Decide(t) PROVE Deciding(k)' /\ DecisionsStay(k)
    <3>1. PICK d \in Decision : repair'[k] = [repair[k] EXCEPT ![op[t].which] = d]
      BY <1>1, <1>4, <2>5 DEF Decide, TypeInv, j
    <3>2. op[t].which \in Undecided(k)
      BY <2>1, <2>5 DEF Knows, Decide
    <3>3. Undecided(k) = {op[t].which}
      BY <2>1, <3>2
    <3>4. d # "pending"
      BY DEF Decision
    <3>5. Undecided(k)' = {}
      BY <3>1, <3>3, <3>4 DEF Undecided
    <3>6. DecisionsStay(k)
      BY <3>1, <3>3 DEF DecisionsStay, Undecided
    <3> QED
      BY <2>3, <2>5, <3>5, <3>6 DEF Deciding
  <2> QED
    BY <1>1, <2>2, <2>4, <2>5
<1> QED
  BY <1>2, <1>3, <1>4

\* Whatever workers, operators and restarts do to any number of jobs: a repair is
\* decided about once, and there is one proposal to decide about, but for jobs that
\* two had in hand at a time.
THEOREM RepairsDecidedOnce ==
  ASSUME JobRowsAssumption PROVE Spec => DecidedOnce
<1> DEFINE Inv == TypeInv /\ \A j \in Job : Deciding(j)
           Once == \A j \in Job : Deciding(j)' /\ DecisionsStay(j)
<1>1. Init => Inv
  <2> SUFFICES ASSUME Init PROVE TypeInv /\ \A j \in Job : Deciding(j)
    OBVIOUS
  <2>1. \A t \in Request : op[t].job = None
    BY NoOpOK DEF Init
  <2>2. \A j \in Job : Undecided(j) = {}
    BY DEF Init, Undecided
  <2> QED
    BY <2>1, <2>2, TypeInit DEF Deciding, JobRowsAssumption
<1>2. Inv /\ [Next]_jobVars => Inv' /\ Once
  <2> SUFFICES ASSUME TypeInv, \A j \in Job : Deciding(j), [Next]_jobVars
               PROVE  TypeInv' /\ \A j \in Job : Deciding(j)' /\ DecisionsStay(j)
    OBVIOUS
  <2>1. ASSUME NEW t \in Request, Serve(t), NEW k \in Job PROVE Deciding(k)' /\ DecisionsStay(k)
    BY <2>1, DecidingBegin, DecidingServed DEF Serve
  <2>2. ASSUME UNCHANGED jobVars, NEW k \in Job PROVE Deciding(k)' /\ DecisionsStay(k)
    BY <2>2, RepairsAlone DEF jobVars, rows
  <2> QED
    BY <2>1, <2>2, TypeStep, DecidingWork, DecidingRestart DEF Next
<1>3. Once => \A j \in Job \ raced' :
         /\ Cardinality({i \in DOMAIN repair'[j] : repair'[j][i] = "pending"}) <= 1
         /\ \A i \in DOMAIN repair[j] : repair[j][i] # "pending" => repair'[j][i] = repair[j][i]
  <2> SUFFICES ASSUME Once, NEW j \in Job \ raced'
               PROVE  /\ Cardinality({i \in DOMAIN repair'[j] : repair'[j][i] = "pending"}) <= 1
                      /\ \A i \in DOMAIN repair[j] :
                           repair[j][i] # "pending" => repair'[j][i] = repair[j][i]
    OBVIOUS
  <2> DEFINE left == {i \in DOMAIN repair'[j] : repair'[j][i] = "pending"}
  <2>1. \A h, i \in left : h = i
    BY DEF Deciding, Undecided
  <2>2. left = {} \/ \E h : left = {h}
    BY <2>1
  <2> HIDE DEF left
  <2>3. Cardinality(left) <= 1
    <3>1. ASSUME NEW h, left = {h} PROVE Cardinality(left) = 1
      BY <3>1, FS_Singleton
    <3>2. CASE left = {}
      <4>1. Cardinality(left) = 0
        BY <3>2, FS_EmptySet
      <4> QED
        BY <4>1
    <3>3. CASE \E h : left = {h}
      <4>1. Cardinality(left) = 1
        BY <3>1, <3>3
      <4> QED
        BY <4>1
    <3> QED
      BY <2>2, <3>2, <3>3
  <2> QED
    BY <2>3 DEF left, DecisionsStay
<1> QED
  BY <1>1, <1>2, <1>3, PTL DEF Spec, DecidedOnce
=============================================================================
