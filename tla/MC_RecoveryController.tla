----------------------- MODULE MC_RecoveryController -----------------------
(* Small instances of RecoveryController. *)
EXTENDS RecoveryController, TLC

CONSTANTS t1, f1

\* All pairs belong to one task; all proposals patch the first file.
MCTaskOf == [k \in Key |-> t1]
MCFileOf == [p \in Proposal |-> f1]
\* Redaction leaves every summary alone.
MCRedactedSame == [k \in Key |-> k]

MCSymmetry == Permutations(Attempt) \cup Permutations(Call)
=============================================================================
