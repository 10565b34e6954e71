------------------------- MODULE RecoveryController -------------------------
(***************************************************************************)
(* services/recovery_controller.py: the saga that takes a recorded failure *)
(* through freeze, propose, review, confirm, apply and gate re-run, on top *)
(* of the durable ledger, the MCP file locks and the patch applier of      *)
(* services/code_history.py.                                               *)
(*                                                                         *)
(* The HTTP handlers run in a thread pool, so every public function is a   *)
(* sequence of steps: a section under _REGISTRY_LOCK, work outside the     *)
(* lock (ledger file, MCP server, provider, gate), a second section.  A    *)
(* Call is one thread running one of these functions; call[c].pc names the *)
(* step it takes next.  A call that returns early without changing         *)
(* anything is a stuttering step and has no action.                        *)
(***************************************************************************)
EXTENDS Naturals, Sequences

CONSTANTS
  Attempt,        \* attempt ids that record_step_failure can allocate
  Call,           \* threads of the request pool
  Key,            \* (task_id, failure_fingerprint) pairs
  Task,           \* task ids
  TaskOf,         \* [Key -> Task]: the task of a pair
  HardKey,        \* pairs whose failure class selects ESCALATE_IMMEDIATELY
  Redacted,       \* [Key -> Key]: the pair v1 computes from the redacted summary
  File,           \* project files
  Proposal,       \* patch proposal ids
  FileOf,         \* [Proposal -> File]: the relative_path of a proposal
  None,           \* Python's None
  Foreign,        \* another owner than ours, as holder of a file lock
  Faults,         \* TRUE: the MCP server may fail, the ledger refuse an argument
  SerialFreeze,   \* TRUE: callers never overlap two freeze_run of one attempt
  RouteOutcome    \* the outcomes that POST /recovery/mark-outcome is called with

ASSUME ConstantsAssumption ==
  /\ TaskOf \in [Key -> Task]
  /\ HardKey \subseteq Key
  /\ Redacted \in [Key -> Key]
  /\ \A k \in Key : Redacted[k] \in HardKey <=> k \in HardKey
  /\ FileOf \in [Proposal -> File]
  /\ None \notin Attempt \cup Call \cup Key \cup Proposal \cup Task
  /\ Foreign \notin Task \cup {None}
  /\ Faults \in BOOLEAN
  /\ SerialFreeze \in BOOLEAN
  /\ RouteOutcome \subseteq {"recovered", "retry_failed", "escalated"}

VARIABLES
  run,            \* _RUNS: the live runs
  index,          \* _OPEN_BY_FINGERPRINT
  failures,       \* attempts with a failure row in the ledger file
  outcomes,       \* the outcome rows of each attempt, in file order
  ledgerLock,     \* holder of _RecoveryLedgerLock
  fileLock,       \* the MCP server's file locks: a task of ours, Foreign, None
  patched,        \* proposals whose bytes went live on behalf of each attempt
  call            \* the threads

registry == <<run, index>>
ledger == <<failures, outcomes, ledgerLock>>
vars == <<run, index, failures, outcomes, ledgerLock, fileLock, patched, call>>

-----------------------------------------------------------------------------
(* States and records. *)

Outcome == {"recovered", "retry_failed", "escalated"}
Terminal == {"recovered", "retry_failed", "escalated", "cancelled"}
Cancellable ==
  {"created", "proposing", "reviewing", "awaiting_human_confirm", "re_running_gate"}
RecoveryState == Terminal \cup Cancellable \cup {"applying"}

Verdict == {"approved", "rejected"}   \* "needs-revision" is handled as "rejected"
NoReview == [verdict |-> "none", proposal |-> None]
Review == [verdict : Verdict \cup {"none"}, proposal : Proposal \cup {None}]

RecoveryRun ==
  [state : RecoveryState \cup {"absent"},
   key : Key \cup {None},
   locked : SUBSET File,
   proposal : Proposal \cup {None},
   review : Review]

NoRun == [state |-> "absent", key |-> None, locked |-> {},
          proposal |-> None, review |-> NoReview]

NewRun(k) == [NoRun EXCEPT !.state = "created", !.key = k]

\* branch = ESCALATE_IMMEDIATELY; the failure class is part of the fingerprint.
HardEscalate(r) == r.key \in HardKey

Op == {"none", "start", "cancel", "freeze", "thaw", "propose", "review",
       "apply", "resume", "mark_route"}
Pc == {"idle", "record", "register", "mark", "append", "finish", "escalate",
       "lookup", "drop", "lock", "snapshot", "rollback", "persist", "release",
       "forget", "adapter", "check", "replace", "evidence", "applied", "gate", "thaw"}

CallState ==
  [op : Op, pc : Pc, attempt : Attempt \cup {None}, key : Key \cup {None},
   files : SUBSET File, proposal : Proposal \cup {None},
   status : Outcome \cup {"none"}]

Idle == [op |-> "none", pc |-> "idle", attempt |-> None, key |-> None,
         files |-> {}, proposal |-> None, status |-> "none"]

Init ==
  /\ run = [a \in Attempt |-> NoRun]
  /\ index = [k \in Key |-> None]
  /\ failures = {}
  /\ outcomes = [a \in Attempt |-> << >>]
  /\ ledgerLock = None
  /\ fileLock = [f \in File |-> None]
  /\ patched = [a \in Attempt |-> {}]
  /\ call = [c \in Call |-> Idle]

At(c, op, pc) == call[c].op = op /\ call[c].pc = pc
Begin(c, r) == call[c] = Idle /\ call' = [call EXCEPT ![c] = r]
Goto(c, pc) == call' = [call EXCEPT ![c].pc = pc]
Return(c) == call' = [call EXCEPT ![c] = Idle]

\* Mutant: the terminal run keeps its index entry.
Transition_KeepsIndex(a, r) == run' = [run EXCEPT ![a] = r] /\ UNCHANGED index

\* _transition, under the registry lock: the run becomes r, and a terminal run
\* gives up the index entry if the entry still names it.
Transition(a, r) ==
  /\ run' = [run EXCEPT ![a] = r]
  /\ index' = IF r.state \in Terminal /\ index[r.key] = a
              THEN [index EXCEPT ![r.key] = None]
              ELSE index

-----------------------------------------------------------------------------
(* mark_recovery_outcome, called by most functions below.  The file lock is *)
(* held over the scan for an existing outcome and the append.              *)

\* Mutant: cancel_run swallows the ledger's exception too.
AfterMark_CancelSwallows(c, ok) ==
  IF call[c].op \in {"freeze", "apply", "resume", "cancel"} THEN Goto(c, "finish")
  ELSE IF ok /\ call[c].op = "start" THEN Goto(c, "escalate") ELSE Return(c)

\* Where a function resumes once mark_recovery_outcome returned (ok) or raised.
\* start_recovery, cancel_run and the route let the exception out; the saga's
\* compensations swallow it and carry on.
AfterMark(c, ok) ==
  IF call[c].op \in {"freeze", "apply", "resume"} \/ (ok /\ call[c].op = "cancel")
  THEN Goto(c, "finish")
  ELSE IF ok /\ call[c].op = "start" THEN Goto(c, "escalate") ELSE Return(c)

\* _require_mcp_locks_ready raises before the file is opened, or a validation
\* does: the proposal and review ids come from the providers, unchecked.
MarkUnavailable(c) ==
  /\ Faults
  /\ call[c].pc = "mark"
  /\ AfterMark(c, FALSE)
  /\ UNCHANGED <<registry, ledger, fileLock, patched>>

\* Mutant: the file is scanned without the lock (as before PR #135).
MarkScan_Unlocked(c) ==
  /\ call[c].pc = "mark"
  /\ IF call[c].attempt \in failures /\ outcomes[call[c].attempt] = << >>
     THEN Goto(c, "append") ELSE AfterMark(c, FALSE)
  /\ UNCHANGED <<registry, ledger, fileLock, patched>>

\* Lock acquired, file scanned: refuse an unknown or already finalized attempt.
MarkScan(c) ==
  /\ call[c].pc = "mark"
  /\ ledgerLock = None
  /\ IF call[c].attempt \in failures /\ outcomes[call[c].attempt] = << >>
     THEN ledgerLock' = c /\ Goto(c, "append")
     ELSE ledgerLock' = None /\ AfterMark(c, FALSE)
  /\ UNCHANGED <<registry, failures, outcomes, fileLock, patched>>

\* The outcome row is appended and the lock released; the MCP evidence that
\* follows may still raise, with the row already durable.
MarkAppend(c) ==
  /\ call[c].pc = "append"
  /\ outcomes' = [outcomes EXCEPT ![call[c].attempt] = Append(@, call[c].status)]
  /\ ledgerLock' = None
  /\ \E ok \in {TRUE, ~Faults} : AfterMark(c, ok)
  /\ UNCHANGED <<registry, failures, fileLock, patched>>

Mark(c) == MarkUnavailable(c) \/ MarkScan(c) \/ MarkAppend(c)

\* POST /recovery/mark-outcome: the same ledger, from outside the controller.
MarkRoute(c, a, s) ==
  /\ Begin(c, [Idle EXCEPT !.op = "mark_route", !.pc = "mark", !.attempt = a, !.status = s])
  /\ UNCHANGED <<registry, ledger, fileLock, patched>>

-----------------------------------------------------------------------------
(* start_recovery *)

\* Mutant: no duplicate check.
StartCheck_NoDuplicateCheck(c, k) ==
  /\ Begin(c, [Idle EXCEPT !.op = "start", !.pc = "record", !.key = k])
  /\ UNCHANGED <<registry, ledger, fileLock, patched>>

\* Under the registry lock: an open run for the pair makes the call a duplicate
\* (it returns); a stale index entry is dropped.  The pair looked up is computed
\* from the raw summary.
StartCheck(c, k) ==
  /\ ~ \E a \in Attempt : index[k] = a /\ run[a].state \notin Terminal \cup {"absent"}
  /\ Begin(c, [Idle EXCEPT !.op = "start", !.pc = "record", !.key = k])
  /\ index' = [index EXCEPT ![k] = None]
  /\ UNCHANGED <<run, ledger, fileLock, patched>>

\* record_step_failure: a fresh attempt id and its failure row, keyed by the
\* fingerprint of the redacted summary.  It may raise before the append, or
\* after it (evidence): then the row has no run.
StartRecord(c, a) ==
  /\ At(c, "start", "record")
  /\ a \notin failures
  /\ \/ /\ ledgerLock = None
        /\ failures' = failures \cup {a}
        /\ \/ call' = [call EXCEPT ![c].pc = "register", ![c].attempt = a,
                                   ![c].key = Redacted[@]]
           \/ Faults /\ Return(c)
     \/ Faults /\ Return(c) /\ UNCHANGED failures
  /\ UNCHANGED <<registry, outcomes, ledgerLock, fileLock, patched>>

\* POST /recovery/record-failure: a failure row without a run.
RecordRoute(a) ==
  /\ ledgerLock = None
  /\ a \notin failures
  /\ failures' = failures \cup {a}
  /\ UNCHANGED <<registry, outcomes, ledgerLock, fileLock, patched, call>>

\* Under the registry lock: the run is registered and takes the index entry,
\* whoever held it.
StartRegister(c) ==
  /\ At(c, "start", "register")
  /\ run' = [run EXCEPT ![call[c].attempt] = NewRun(call[c].key)]
  /\ index' = [index EXCEPT ![call[c].key] = call[c].attempt]
  /\ IF call[c].key \in HardKey
     THEN call' = [call EXCEPT ![c].pc = "mark", ![c].status = "escalated"]
     ELSE Return(c)
  /\ UNCHANGED <<ledger, fileLock, patched>>

\* A hard-escalate class is closed by _transition WITHOUT the registry lock: its
\* assignment, the lookup of the index entry and the pop are separate steps.
StartEscalate(c) ==
  /\ At(c, "start", "escalate")
  /\ run' = [run EXCEPT ![call[c].attempt].state = "escalated"]
  /\ Goto(c, "lookup")
  /\ UNCHANGED <<index, ledger, fileLock, patched>>

StartLookup(c) ==
  /\ At(c, "start", "lookup")
  /\ IF index[call[c].key] = call[c].attempt THEN Goto(c, "drop") ELSE Return(c)
  /\ UNCHANGED <<registry, ledger, fileLock, patched>>

StartDrop(c) ==
  /\ At(c, "start", "drop")
  /\ index' = [index EXCEPT ![call[c].key] = None]
  /\ Return(c)
  /\ UNCHANGED <<run, ledger, fileLock, patched>>

Start(c) ==
  \/ \E a \in Attempt : StartRecord(c, a)
  \/ StartRegister(c) \/ StartEscalate(c) \/ StartLookup(c) \/ StartDrop(c)

-----------------------------------------------------------------------------
(* cancel_run: the state is checked before the ledger is written, and only  *)
(* is_terminal is checked again after it.                                   *)

CancelCheck(c, a) ==
  /\ run[a].state \in Cancellable
  /\ Begin(c, [Idle EXCEPT !.op = "cancel", !.pc = "mark", !.attempt = a,
                           !.status = "retry_failed"])
  /\ UNCHANGED <<registry, ledger, fileLock, patched>>

CancelFinish(c) ==
  /\ At(c, "cancel", "finish")
  /\ LET a == call[c].attempt IN
       IF run[a].state \in Terminal
       THEN UNCHANGED registry
       ELSE Transition(a, [run[a] EXCEPT !.state = "cancelled"])
  /\ Return(c)
  /\ UNCHANGED <<ledger, fileLock, patched>>

-----------------------------------------------------------------------------
(* The MCP file locks, kept by the external lock server.  Our owner id is   *)
(* the same in every thread; the server tells our tasks apart.              *)

\* hermes_lock_files grants all the files or none.  A file we hold already may
\* or may not be granted again; another owner's is refused.
LockFiles(files, t) ==
  /\ \A f \in files : fileLock[f] # Foreign
  /\ fileLock' = [f \in File |-> IF f \in files THEN t ELSE fileLock[f]]

\* hermes_release_files frees our locks on the files, whatever task took them.
ReleaseFiles(files) ==
  fileLock' = [f \in File |-> IF f \in files /\ fileLock[f] # Foreign
                              THEN None ELSE fileLock[f]]

\* A lock runs out (TTL), or another agent takes or frees a file.
LockServerStep(f) ==
  /\ \/ fileLock[f] # None /\ fileLock' = [fileLock EXCEPT ![f] = None]
     \/ fileLock[f] = None /\ fileLock' = [fileLock EXCEPT ![f] = Foreign]
  /\ UNCHANGED <<registry, ledger, patched, call>>

-----------------------------------------------------------------------------
(* freeze_run: lock the files, snapshot them, then PROPOSING; the state is  *)
(* looked at in the first locked section only.                              *)

\* Mutant: the branch is not looked at.
FreezeCheck_AnyBranch(c, a, files) ==
  /\ files # {}
  /\ run[a].state = "created"
  /\ Begin(c, [Idle EXCEPT !.op = "freeze", !.pc = "lock", !.attempt = a, !.files = files])
  /\ UNCHANGED <<registry, ledger, fileLock, patched>>

FreezeCheck(c, a, files) ==
  /\ files # {}
  /\ run[a].state = "created" /\ ~HardEscalate(run[a])
  /\ SerialFreeze => ~ \E d \in Call : call[d].op = "freeze" /\ call[d].attempt = a
  /\ Begin(c, [Idle EXCEPT !.op = "freeze", !.pc = "lock", !.attempt = a, !.files = files])
  /\ UNCHANGED <<registry, ledger, fileLock, patched>>

\* lock_mcp_files: granted, perhaps with the answer lost, or refused
\* (lock_blocked) or raised.
FreezeLock(c) ==
  /\ At(c, "freeze", "lock")
  /\ \/ /\ LockFiles(call[c].files, TaskOf[run[call[c].attempt].key])
        /\ Goto(c, "snapshot") \/ (Faults /\ Return(c))
     \/ /\ Faults \/ \E f \in call[c].files : fileLock[f] # None
        /\ Return(c)
        /\ UNCHANGED fileLock
  /\ UNCHANGED <<registry, ledger, patched>>

\* snapshot_file of each file: all taken, or one raises (missing, empty, large).
FreezeSnapshot(c) ==
  /\ At(c, "freeze", "snapshot")
  /\ Goto(c, "persist") \/ Goto(c, "rollback")
  /\ UNCHANGED <<registry, ledger, fileLock, patched>>

\* Mutant: the compensation forgets the ledger.
FreezeRollback_NoOutcome(c) ==
  /\ At(c, "freeze", "rollback")
  /\ ReleaseFiles(call[c].files)
  /\ Goto(c, "finish")
  /\ UNCHANGED <<registry, ledger, patched>>

\* The compensation: release (best effort), ledger outcome (best effort) ...
FreezeRollback(c) ==
  /\ At(c, "freeze", "rollback")
  /\ ReleaseFiles(call[c].files) \/ (Faults /\ UNCHANGED fileLock)
  /\ call' = [call EXCEPT ![c].pc = "mark", ![c].status = "retry_failed"]
  /\ UNCHANGED <<registry, ledger, patched>>

\* ... and RETRY_FAILED, from whatever state the run is in by now.
FreezeCompensate(c) ==
  /\ At(c, "freeze", "finish")
  /\ LET a == call[c].attempt IN Transition(a, [run[a] EXCEPT !.state = "retry_failed"])
  /\ Return(c)
  /\ UNCHANGED <<ledger, fileLock, patched>>

FreezePersist(c) ==
  /\ At(c, "freeze", "persist")
  /\ LET a == call[c].attempt IN
       Transition(a, [run[a] EXCEPT !.state = "proposing", !.locked = call[c].files])
  /\ Return(c)
  /\ UNCHANGED <<ledger, fileLock, patched>>

Freeze(c) ==
  FreezeLock(c) \/ FreezeSnapshot(c) \/ FreezeRollback(c) \/ FreezeCompensate(c)
    \/ FreezePersist(c)

-----------------------------------------------------------------------------
(* thaw_run, called by anyone at any time, and by resume_run at its end.    *)

ThawCheck(c, a) ==
  /\ run[a].state # "absent" /\ run[a].locked # {}
  /\ Begin(c, [Idle EXCEPT !.op = "thaw", !.pc = "release", !.attempt = a,
                           !.files = run[a].locked])
  /\ UNCHANGED <<registry, ledger, fileLock, patched>>

\* The release raises (release_failed), or returns; its status is not looked at.
ThawRelease(c) ==
  /\ call[c].pc = "release"
  /\ \/ ReleaseFiles(call[c].files) /\ (Goto(c, "forget") \/ (Faults /\ Return(c)))
     \/ Faults /\ UNCHANGED fileLock /\ (Goto(c, "forget") \/ Return(c))
  /\ UNCHANGED <<registry, ledger, patched>>

\* Mutant: locked_files is reset to None instead of ().
ThawForget_None(c) ==
  /\ call[c].pc = "forget"
  /\ run' = [run EXCEPT ![call[c].attempt].locked = {None}]
  /\ Return(c)
  /\ UNCHANGED <<index, ledger, fileLock, patched>>

ThawForget(c) ==
  /\ call[c].pc = "forget"
  /\ run' = [run EXCEPT ![call[c].attempt].locked = {}]
  /\ Return(c)
  /\ UNCHANGED <<index, ledger, fileLock, patched>>

-----------------------------------------------------------------------------
(* propose_fix and review_proposal: check, ask the provider, check again.   *)

ProposeCheck(c, a) ==
  /\ run[a].state = "proposing"
  /\ Begin(c, [Idle EXCEPT !.op = "propose", !.pc = "adapter", !.attempt = a])
  /\ UNCHANGED <<registry, ledger, fileLock, patched>>

\* The provider answered with proposal p: stored if the run is still PROPOSING.
ProposeFinish(c, p) ==
  /\ At(c, "propose", "adapter")
  /\ LET a == call[c].attempt IN
       IF run[a].state = "proposing"
       THEN Transition(a, [run[a] EXCEPT !.state = "reviewing", !.proposal = p])
       ELSE UNCHANGED registry
  /\ Return(c)
  /\ UNCHANGED <<ledger, fileLock, patched>>

\* Mutant: the proposal named is not compared with the run's.
ReviewCheck_AnyProposal(c, a, p) ==
  /\ run[a].state = "reviewing"
  /\ Begin(c, [Idle EXCEPT !.op = "review", !.pc = "adapter", !.attempt = a, !.proposal = p])
  /\ UNCHANGED <<registry, ledger, fileLock, patched>>

ReviewCheck(c, a, p) ==
  /\ run[a].state = "reviewing" /\ run[a].proposal = p
  /\ Begin(c, [Idle EXCEPT !.op = "review", !.pc = "adapter", !.attempt = a, !.proposal = p])
  /\ UNCHANGED <<registry, ledger, fileLock, patched>>

\* The verdict on the proposal asked about is stored if the run is still
\* REVIEWING; the proposal is not compared again.
ReviewFinish(c, v) ==
  /\ At(c, "review", "adapter")
  /\ LET a == call[c].attempt IN
       IF run[a].state = "reviewing"
       THEN Transition(a, [run[a] EXCEPT
              !.state = IF v = "approved" THEN "awaiting_human_confirm" ELSE "reviewing",
              !.review = [verdict |-> v, proposal |-> call[c].proposal]])
       ELSE UNCHANGED registry
  /\ Return(c)
  /\ UNCHANGED <<ledger, fileLock, patched>>

\* The provider is not configured, or its answer is malformed: the call ends.
AdapterFail(c) ==
  /\ call[c].pc = "adapter"
  /\ Return(c)
  /\ UNCHANGED <<registry, ledger, fileLock, patched>>

-----------------------------------------------------------------------------
(* apply_proposal and, inside it, code_history.apply_patch_proposal.        *)

\* Mutant: the check and the transition are not one locked section.
ApplyCheck_NoTransition(c, a, p) ==
  /\ run[a].state = "awaiting_human_confirm" /\ run[a].proposal = p
  /\ run[a].review.verdict = "approved"
  /\ Begin(c, [Idle EXCEPT !.op = "apply", !.pc = "check", !.attempt = a, !.proposal = p])
  /\ UNCHANGED <<registry, ledger, fileLock, patched>>

\* All preconditions and the transition to APPLYING in one locked section
\* (confirm=True is what makes it a call to apply).
ApplyCheck(c, a, p) ==
  /\ run[a].state = "awaiting_human_confirm" /\ run[a].proposal = p
  /\ run[a].review.verdict = "approved"
  /\ call[c] = Idle
  /\ Transition(a, [run[a] EXCEPT !.state = "applying"])
  /\ call' = [call EXCEPT ![c] = [Idle EXCEPT !.op = "apply", !.pc = "check",
                                             !.attempt = a, !.proposal = p]]
  /\ UNCHANGED <<ledger, fileLock, patched>>

ApplyRaise(c) ==
  call' = [call EXCEPT ![c].pc = "mark", ![c].status = "retry_failed"]

\* The patch applier's own checks: our task's lock on the file is mandatory; the
\* base sha256, the readiness or the pre-snapshot may refuse in any state.
PatchCheck(c) ==
  /\ At(c, "apply", "check")
  /\ \/ /\ fileLock[FileOf[call[c].proposal]] = TaskOf[run[call[c].attempt].key]
        /\ Goto(c, "replace")
     \/ ApplyRaise(c)
  /\ UNCHANGED <<registry, ledger, fileLock, patched>>

\* os.replace: the proposed bytes are live.
PatchReplace(c) ==
  /\ At(c, "apply", "replace")
  /\ patched' = [patched EXCEPT ![call[c].attempt] = @ \cup {call[c].proposal}]
  /\ Goto(c, "evidence")
  /\ UNCHANGED <<registry, ledger, fileLock>>

\* Mutant: an exception after the replace is not compensated.
PatchEvidence_Uncaught(c) ==
  /\ At(c, "apply", "evidence")
  /\ Goto(c, "applied") \/ Return(c)
  /\ UNCHANGED <<registry, ledger, fileLock, patched>>

\* Post-snapshot, proof row and MCP evidence: any of them may raise, with the
\* bytes live.
PatchEvidence(c) ==
  /\ At(c, "apply", "evidence")
  /\ Goto(c, "applied") \/ ApplyRaise(c)
  /\ UNCHANGED <<registry, ledger, fileLock, patched>>

\* Second locked section after success: RE_RUNNING_GATE, from whatever state.
ApplyFinish(c) ==
  /\ At(c, "apply", "applied")
  /\ LET a == call[c].attempt IN Transition(a, [run[a] EXCEPT !.state = "re_running_gate"])
  /\ Return(c)
  /\ UNCHANGED <<ledger, fileLock, patched>>

\* Second locked section after an exception: RETRY_FAILED; no file is released.
ApplyCompensate(c) ==
  /\ At(c, "apply", "finish")
  /\ LET a == call[c].attempt IN Transition(a, [run[a] EXCEPT !.state = "retry_failed"])
  /\ Return(c)
  /\ UNCHANGED <<ledger, fileLock, patched>>

Apply(c) ==
  PatchCheck(c) \/ PatchReplace(c) \/ PatchEvidence(c) \/ ApplyFinish(c) \/ ApplyCompensate(c)

-----------------------------------------------------------------------------
(* resume_run: re-run the gate, close the ledger (best effort), close the   *)
(* run from whatever state it is in, thaw.                                  *)

ResumeCheck(c, a) ==
  /\ run[a].state = "re_running_gate"
  /\ Begin(c, [Idle EXCEPT !.op = "resume", !.pc = "gate", !.attempt = a])
  /\ UNCHANGED <<registry, ledger, fileLock, patched>>

\* The gate passes, fails, or its runner raises (gate_error).
ResumeGate(c) ==
  /\ At(c, "resume", "gate")
  /\ \/ \E s \in {"recovered", "escalated"} :
          call' = [call EXCEPT ![c].pc = "mark", ![c].status = s]
     \/ Return(c)
  /\ UNCHANGED <<registry, ledger, fileLock, patched>>

\* Mutant: the run is RECOVERED whatever the gate said.
ResumeFinish_AlwaysRecovered(c) ==
  /\ At(c, "resume", "finish")
  /\ LET a == call[c].attempt IN Transition(a, [run[a] EXCEPT !.state = "recovered"])
  /\ Goto(c, "thaw")
  /\ UNCHANGED <<ledger, fileLock, patched>>

ResumeFinish(c) ==
  /\ At(c, "resume", "finish")
  /\ LET a == call[c].attempt IN Transition(a, [run[a] EXCEPT !.state = call[c].status])
  /\ Goto(c, "thaw")
  /\ UNCHANGED <<ledger, fileLock, patched>>

ResumeThaw(c) ==
  /\ At(c, "resume", "thaw")
  /\ LET files == run[call[c].attempt].locked IN
       IF files = {} THEN Return(c)
       ELSE call' = [call EXCEPT ![c].pc = "release", ![c].files = files]
  /\ UNCHANGED <<registry, ledger, fileLock, patched>>

Resume(c) == ResumeGate(c) \/ ResumeFinish(c) \/ ResumeThaw(c)

-----------------------------------------------------------------------------
\* The process stops and starts again: threads and registry are gone; the
\* ledger file, the MCP server's locks and the patched files are not.
Restart ==
  /\ run' = [a \in Attempt |-> NoRun]
  /\ index' = [k \in Key |-> None]
  /\ call' = [c \in Call |-> Idle]
  /\ ledgerLock' = None
  /\ UNCHANGED <<failures, outcomes, fileLock, patched>>

Request(c) ==
  \/ \E k \in Key : StartCheck(c, k)
  \/ \E a \in Attempt :
       \/ CancelCheck(c, a) \/ ThawCheck(c, a) \/ ProposeCheck(c, a) \/ ResumeCheck(c, a)
       \/ \E files \in SUBSET File : FreezeCheck(c, a, files)
       \/ \E p \in Proposal : ReviewCheck(c, a, p) \/ ApplyCheck(c, a, p)
       \/ \E s \in RouteOutcome : MarkRoute(c, a, s)

Step(c) ==
  \/ Mark(c) \/ Start(c) \/ CancelFinish(c) \/ Freeze(c) \/ Apply(c) \/ Resume(c)
  \/ ThawRelease(c) \/ ThawForget(c) \/ AdapterFail(c)
  \/ \E p \in Proposal : ProposeFinish(c, p)
  \/ \E v \in Verdict : ReviewFinish(c, v)

Next ==
  \/ \E c \in Call : Request(c) \/ Step(c)
  \/ \E a \in Attempt : RecordRoute(a)
  \/ \E f \in File : LockServerStep(f)
  \/ Restart

Spec == Init /\ [][Next]_vars

\* An apply or a ledger write that was begun goes on: its steps are local file
\* I/O and MCP calls with a timeout.  Weak fairness is enough for the ledger's
\* file lock, which is kept across a step only to append, once per attempt.
Fairness == \A c \in Call : WF_vars(Apply(c)) /\ WF_vars(MarkScan(c)) /\ WF_vars(MarkAppend(c))

FairSpec == Spec /\ Fairness

-----------------------------------------------------------------------------
(* Properties that hold whatever the interleaving. *)

\* The variables keep the shapes above.
TypeOK ==
  /\ run \in [Attempt -> RecoveryRun]
  /\ index \in [Key -> Attempt \cup {None}]
  /\ failures \subseteq Attempt
  /\ outcomes \in [Attempt -> Seq(Outcome)]
  /\ ledgerLock \in Call \cup {None}
  /\ fileLock \in [File -> Task \cup {None, Foreign}]
  /\ patched \in [Attempt -> SUBSET Proposal]
  /\ call \in [Call -> CallState]

\* What a reader of the ledger file (list_recovery_attempts) makes of its rows.
LedgerStatus ==
  [a \in Attempt |->
     IF a \notin failures THEN "absent"
     ELSE IF Len(outcomes[a]) = 0 THEN "open"
     ELSE IF Len(outcomes[a]) = 1 THEN outcomes[a][1] ELSE "ambiguous"]

PromisedLedger == INSTANCE AttemptLedger WITH status <- LedgerStatus

\* Whatever cancels, compensations, gates, routes and restarts race to close an
\* attempt, the ledger file closes it once and never changes it: "recovery
\* outcomes are idempotent and cannot be re-finalized".
LedgerKeepsItsPromise == PromisedLedger!Spec

\* A run shown as CANCELLED is closed as retry_failed in the durable ledger, even
\* when the ledger, or the state, was contended while cancel_run was between its
\* two locked sections.
CancelledIsClosed ==
  \A a \in Attempt : run[a].state = "cancelled" => outcomes[a] = << "retry_failed" >>

\* With a working MCP server and well-formed ids no run ends without an outcome row, although the
\* compensations of freeze, apply and resume swallow every ledger exception.
TerminalIsClosed ==
  ~Faults => \A a \in Attempt : run[a].state \in Terminal => outcomes[a] # << >>

\* provider_auth, secret_risk and sandbox_fail are never auto-recovered: no file
\* is locked or patched for such a run, also while it is not yet ESCALATED, after
\* a failed escalation, and after a cancel that raced with it.
HardEscalateIsNeverPatched ==
  \A a \in Attempt : HardEscalate(run[a]) =>
    /\ run[a].state \in {"created", "escalated", "cancelled"}
    /\ run[a].locked = {} /\ patched[a] = {}

\* _OPEN_BY_FINGERPRINT holds a pair "only while the pointed-to run is
\* non-terminal": an entry names a run of that pair that is open, except in the
\* window of the one _transition that is made without the registry lock.
IndexNamesOpenRun ==
  \A k \in Key, a \in Attempt : index[k] = a =>
    /\ run[a].key = k
    /\ \/ run[a].state \notin Terminal
       \/ \E c \in Call : /\ call[c].op = "start" /\ call[c].attempt = a
                         /\ call[c].pc \in {"lookup", "drop"}

-----------------------------------------------------------------------------
(* Properties of an attempt whose freeze_run calls do not overlap. *)

\* The bytes that went live for a run are those of the one proposal whose review
\* was approved: a review answered late, a cancel or a resume in between never
\* lets another proposal through.
PatchedWasReviewed ==
  \A a \in Attempt : \A p \in patched[a] : run[a].state # "absent" =>
    run[a].review = [verdict |-> "approved", proposal |-> p]

\* Two threads are never inside the patch applier for one run.
OnePatcherPerRun ==
  \A c, d \in Call :
    /\ call[c].op = "apply" /\ call[d].op = "apply"
    /\ call[c].attempt = call[d].attempt
    => c = d

\* A run does not stay in APPLYING, the one state that cannot be cancelled: the
\* patch is applied, or compensated, whatever raises on the way.
ApplyingEnds ==
  \A a \in Attempt : run[a].state = "applying" ~> run[a].state # "applying"

-----------------------------------------------------------------------------
(* The contract the docstrings state.  LedgerAgreesWithRun and               *)
(* OneOpenRunPerFingerprint hold when calls do not overlap (run              *)
(* rc_sequential); of the other two rc_cancel_applying and rc_failed_apply   *)
(* find that the code departs.                                               *)

\* "If the run is in APPLYING, refuses the cancel".
CancelRefusedWhileApplying ==
  [][\A a \in Attempt : run[a].state = "applying" => run'[a].state # "cancelled"]_vars

\* The state a run ends in is the outcome the durable ledger, "the source of
\* truth", was given.
LedgerAgreesWithRun ==
  \A a \in Attempt :
    /\ run[a].state \in {"recovered", "escalated"} => outcomes[a] = << run[a].state >>
    /\ run[a].state \in {"retry_failed", "cancelled"} => outcomes[a] = << "retry_failed" >>

\* "Idempotency: if a non-terminal run already exists for (task_id, fingerprint),
\* returns it": two open runs never carry the same pair.
OneOpenRunPerFingerprint ==
  \A a, b \in Attempt :
    /\ {run[a].state, run[b].state} \cap (Terminal \cup {"absent"}) = {}
    /\ run[a].key = run[b].key
    => a = b

\* "On failure: ... file locks are released via thaw_run": no run that failed in
\* its apply keeps files locked once the call that failed has returned.
FailedApplyReleasesLocks ==
  \A a \in Attempt :
    /\ run[a].state = "retry_failed" /\ run[a].proposal # None
    /\ \A c \in Call : call[c].attempt # a
    => run[a].locked = {}
=============================================================================
