----------------------------- MODULE MC_Backend -----------------------------
(* A small instance of Backend.  A behaviour moves one of the parts while the *)
(* others rest: as no part reads or writes what another one does, what their  *)
(* interleavings show, each part shows by itself.                             *)
EXTENDS Backend, TLC

CONSTANTS p1, a1, k1, k2, x1

VARIABLES part  \* the part that moves

MCFleet == << p1 >>
MCOwner == [k \in Task |-> a1]

\* No part tells the elements of these sets apart.
MCSymmetry ==
  {f @@ g : f \in Permutations(Request), g \in Permutations(Name)}

\* A clean checkout with one proposal and one file locked: patches and restores.
Patching ==
  /\ live = index /\ branch = Main /\ snaps = {}
  /\ \E f \in Name :
       /\ \A g \in Name : lock[g].task = (IF g = f THEN k1 ELSE None)
       /\ proposals = {p \in Edits!Proposal : p.file = f /\ p.base = live[f] /\ p.text # p.base}

\* Two tasks with changes and snapshots on an agents' branch: staging and commits.
Committing ==
  /\ branch # Main /\ proposals = {}
  /\ \A f \in Name : live[f] # index[f] /\ \E s \in snaps : s.file = f
  /\ \A k \in Task : \E f \in Name : lock[f].task = k

Untouched ==
  /\ live = index /\ branch = Main /\ snaps = {} /\ proposals = {}
  /\ \A f \in Name : lock[f].task = None

MCInit ==
  /\ part \in {"floor", "rows", "queue", "source", "agent", "runner", "tokens", "edits", "commits"}
  /\ Init
  /\ \A f \in Name : index[f] = x1
  /\ CASE part = "edits" -> Patching
       [] part = "commits" -> Committing
       [] OTHER -> Untouched
  /\ part # "agent" => tree = [commit |-> Agent!Release(1), branch |-> TRUE] /\ green = {}

MCNext ==
  /\ UNCHANGED part
  /\ \/ part = "floor" /\ FloorStep
     \/ part = "rows" /\ RowStep
     \/ part = "queue" /\ QueueStep
     \/ part = "source" /\ SourceStep
     \/ part = "agent" /\ AgentStep
     \/ part = "runner" /\ RunnerStep
     \/ part = "tokens" /\ TokenStep
     \/ part \in {"edits", "commits"} /\ EditStep

MCSpec == MCInit /\ [][MCNext]_<<part, backendVars>>
=============================================================================
