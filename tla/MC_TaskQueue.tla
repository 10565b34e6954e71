---------------------------- MODULE MC_TaskQueue ----------------------------
(* Small instances of TaskQueue. *)
EXTENDS TaskQueue

CONSTANTS t1, t2, p1

\* t1 has the higher priority and an executor; both match the one persona.
MCOrder == << t1, t2 >>
MCMatching == [t \in Task |-> {p1}]
=============================================================================
