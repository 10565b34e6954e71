---------------------------- MODULE AttemptLedger ----------------------------
(***************************************************************************)
(* What the durable failure ledger of services/code_history.py promises to *)
(* its callers: a failure is recorded once, under a fresh attempt id, and  *)
(* is closed at most once, by one outcome, which is never changed.         *)
(* RecoveryController implements it (property LedgerKeepsItsPromise).      *)
(***************************************************************************)
CONSTANTS Attempt,      \* the attempt ids
          Outcome       \* RECOVERY_OUTCOME_STATUSES

VARIABLE status         \* what the ledger says of each attempt

Status == {"absent", "open"} \cup Outcome

Init == status = [a \in Attempt |-> "absent"]

\* record_step_failure: the row of a new attempt.
Record(a) ==
  /\ status[a] = "absent"
  /\ status' = [status EXCEPT ![a] = "open"]

\* mark_recovery_outcome: the one outcome row of an open attempt.
Close(a, o) ==
  /\ status[a] = "open"
  /\ status' = [status EXCEPT ![a] = o]

Next == \E a \in Attempt : Record(a) \/ \E o \in Outcome : Close(a, o)

Spec == Init /\ [][Next]_status
=============================================================================
