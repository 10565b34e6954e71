---------------------------- MODULE PrintWorkflow ----------------------------
(***************************************************************************)
(* The print workflow: core/orchestration/print_workflow.py, the nodes     *)
(* from the job queue to the printer, run by WorkflowGraph of              *)
(* agent_graph.py or, where langgraph is installed, by _run_langgraph of   *)
(* core/agents/orchestrator.py.  A node does its work, then the runner     *)
(* appends the result to the history and saves a checkpoint: these are two *)
(* steps, and the process may stop between them.  A workflow is resumed    *)
(* from its checkpoint, one run at a time.                                 *)
(*                                                                         *)
(* Nobody passes stop_after or writes next_node, so neither is modelled.   *)
(***************************************************************************)
EXTENDS Naturals, Sequences

CONSTANTS
  Workflow,       \* workflow ids
  Printer,        \* the fleet
  Locked,         \* printers that is_s1_target names
  None,           \* Python's None; no state
  Runtime,        \* "langgraph" where the package is installed, else "graph"
  LlmAvailable,   \* an LLM provider is there to suggest remedies
  MaxRetries,     \* max_retries_per_node
  MaxFaults       \* bound on crashes after a node's work and lost replies

VARIABLES
  quality,        \* of the mesh each workflow is given
  mem,            \* the WorkflowState of a run
  disk,           \* its checkpoint
  at,             \* where the run is
  jobs,           \* jobs each workflow has put into the queue file
  remote,         \* printers with the G-code of each workflow
  printing,       \* [Printer -> workflow or None]
  starts,         \* prints each workflow has started
  faults          \* crashes after a node's work, and lost replies

world == <<jobs, remote, printing, starts, faults>>
vars == <<quality, mem, disk, at, world>>

-----------------------------------------------------------------------------
(* The graph. *)

NodeOrder ==
  << "enqueue", "truth_gate", "repair_if_needed", "auto_orient", "dispatch", "preflight",
     "slice", "analyze_gcode", "cost_estimate", "upload", "start_print", "notify_started" >>
Node == {NodeOrder[i] : i \in DOMAIN NodeOrder}
Required == {"enqueue", "truth_gate", "dispatch", "preflight"}

Quality == {"sound", "fixable", "broken"}
Outcome == {"pass", "fail", "skip", "retry", "suggested"}

\* data and history.  passed: nodes with a PASS; suggested: those among them that
\* only have the LLM's suggestion for a remedy behind their PASS.
State ==
  [passed : SUBSET Node, suggested : SUBSET Node, aborted : BOOLEAN,
   dry : BOOLEAN, mesh : {"source", "repaired"}, gated : BOOLEAN, needsRepair : BOOLEAN,
   printer : Printer \cup {None}, sliced : BOOLEAN, item : BOOLEAN]

ASSUME WorkflowAssumption ==
  /\ Locked \subseteq Printer /\ None \notin Printer /\ None \notin State
  /\ Runtime \in {"graph", "langgraph"}
  /\ LlmAvailable \in BOOLEAN
  /\ MaxRetries \in Nat /\ MaxFaults \in Nat

NewState(dry) ==
  [passed |-> {}, suggested |-> {}, aborted |-> FALSE,
   dry |-> dry, mesh |-> "source", gated |-> FALSE, needsRepair |-> FALSE,
   printer |-> None, sliced |-> FALSE, item |-> FALSE]

\* expected_inputs; mesh_path is there from the start.
CanRun(n, s) ==
  /\ n \in {"preflight", "slice", "cost_estimate", "upload", "start_print", "notify_started"} =>
       s.printer # None
  /\ n \in {"analyze_gcode", "upload"} => s.sliced

\* origin: what the run was called with.
Idle == [pc |-> "idle", runtime |-> Runtime, idx |-> 1, tries |-> 0, outcome |-> "skip",
         origin |-> None]

Init ==
  /\ quality \in [Workflow -> Quality]
  /\ mem = [w \in Workflow |-> None]
  /\ disk = [w \in Workflow |-> None]
  /\ at = [w \in Workflow |-> Idle]
  /\ jobs = [w \in Workflow |-> 0]
  /\ remote = [w \in Workflow |-> {}]
  /\ printing = [p \in Printer |-> None]
  /\ starts = [w \in Workflow |-> 0]
  /\ faults = [w \in Workflow |-> 0]

\* The mesh at mesh_path is fit to print.
Sound(w, s) == quality[w] = "sound" \/ (quality[w] = "fixable" /\ s.mesh = "repaired")

-----------------------------------------------------------------------------
(* The runners. *)

\* WorkflowGraph.run skips what has passed, _run_langgraph runs every node.
NextIndex(i, s, runtime) ==
  IF runtime = "langgraph" THEN i
  ELSE CHOOSE j \in i..(Len(NodeOrder) + 1) :
         /\ j \in DOMAIN NodeOrder => NodeOrder[j] \notin s.passed
         /\ \A k \in i..(j - 1) : NodeOrder[k] \in s.passed

Run(w, s, runtime, origin) ==
  /\ mem' = [mem EXCEPT ![w] = s]
  /\ at' = [at EXCEPT ![w] = [Idle EXCEPT !.pc = "node", !.runtime = runtime,
                                          !.idx = NextIndex(1, s, runtime),
                                          !.origin = origin]]

Origin(s) == IF Runtime = "langgraph" THEN s ELSE None

\* A workflow that has no checkpoint is called with a new state.
Begin(w) ==
  /\ at[w].pc = "idle" /\ disk[w] = None
  /\ \E dry \in BOOLEAN : Run(w, NewState(dry), Runtime, Origin(NewState(dry)))
  /\ UNCHANGED <<quality, disk, world>>

\* Mutant: the history is not read back.
Resume_EmptyHistory(w) ==
  /\ at[w].pc = "idle" /\ disk[w] # None
  /\ Run(w, [disk[w] EXCEPT !.passed = {}, !.suggested = {}], Runtime, Origin(disk[w]))
  /\ UNCHANGED <<quality, disk, world>>

\* load_checkpoint, then run.
Resume(w) ==
  /\ at[w].pc = "idle" /\ disk[w] # None
  /\ Run(w, disk[w], Runtime, Origin(disk[w]))
  /\ UNCHANGED <<quality, disk, world>>

\* No node is left, or the state is aborted; langgraph looks at that only after a node.
Over(w) ==
  \/ at[w].idx > Len(NodeOrder)
  \/ mem[w].aborted /\ ~(at[w].runtime = "langgraph" /\ at[w].idx = 1)

\* _run_langgraph writes the checkpoint at the end.  Where that raises, the
\* workflow runs again from the state it was called with, on WorkflowGraph.
Finish(w) ==
  /\ at[w].pc = "node" /\ Over(w)
  /\ \/ /\ mem' = [mem EXCEPT ![w] = None] /\ at' = [at EXCEPT ![w] = Idle]
        /\ disk' = IF at[w].runtime = "langgraph" THEN [disk EXCEPT ![w] = mem[w]] ELSE disk
     \/ /\ at[w].runtime = "langgraph"
        /\ Run(w, at[w].origin, "graph", None) /\ UNCHANGED disk
  /\ UNCHANGED <<quality, world>>

GoOn(w, s) ==
  /\ mem' = [mem EXCEPT ![w] = s]
  /\ at' = [at EXCEPT ![w].pc = "node", ![w].tries = 0, ![w].outcome = "skip",
                      ![w].idx = NextIndex(@ + 1, s, at[w].runtime)]

\* The history with the result of the node that has just run.  The PASS of a
\* suggestion is recorded under the name of the function, which for
\* repair_if_needed is not the node's.
Recorded(s, n, outcome) ==
  CASE outcome = "pass" -> [s EXCEPT !.passed = @ \cup {n}, !.suggested = @ \ {n}]
    [] outcome = "suggested" -> [s EXCEPT !.passed = @ \cup ({n} \ {"repair_if_needed"}),
                                          !.suggested = @ \cup {n}]
    [] OTHER -> s

\* Mutant: a checkpoint only while nodes are left.
Save_NotTheLast(w) ==
  /\ at[w].pc = "save"
  /\ LET n == NodeOrder[at[w].idx]
         s == Recorded(mem[w], n, at[w].outcome)
     IN  /\ disk' = IF n \in {"start_print", "notify_started"} THEN disk ELSE [disk EXCEPT ![w] = s]
         /\ GoOn(w, [s EXCEPT !.aborted = @ \/ at[w].outcome = "fail"])
  /\ UNCHANGED <<quality, world>>

\* The result goes into the history and, on WorkflowGraph, to the disk; only then
\* a FAIL aborts.
Save(w) ==
  /\ at[w].pc = "save"
  /\ LET s == Recorded(mem[w], NodeOrder[at[w].idx], at[w].outcome) IN
       /\ disk' = IF at[w].runtime = "graph" THEN [disk EXCEPT ![w] = s] ELSE disk
       /\ GoOn(w, [s EXCEPT !.aborted = @ \/ at[w].outcome = "fail"])
  /\ UNCHANGED <<quality, world>>

\* A node without its inputs is skipped; a required one aborts the workflow.
Skip(w) ==
  /\ at[w].pc = "node" /\ ~Over(w) /\ ~CanRun(NodeOrder[at[w].idx], mem[w])
  /\ disk' = IF at[w].runtime = "graph" THEN [disk EXCEPT ![w] = mem[w]] ELSE disk
  /\ GoOn(w, [mem[w] EXCEPT !.aborted = @ \/ NodeOrder[at[w].idx] \in Required])
  /\ UNCHANGED <<quality, world>>

Runner(w) == Finish(w) \/ Save(w) \/ Skip(w)

-----------------------------------------------------------------------------
(* The nodes.  Each ends with a result: an outcome and a patched state.      *)

Turn(w, n) ==
  /\ at[w].pc = "node" /\ ~Over(w)
  /\ NodeOrder[at[w].idx] = n /\ CanRun(n, mem[w])

Yield(w, outcome, s) ==
  /\ mem' = [mem EXCEPT ![w] = s]
  /\ at' = [at EXCEPT ![w].pc = "save", ![w].outcome = outcome]
  /\ UNCHANGED <<quality, disk>>

\* Nodes that return before anything can raise.
Returns(w, n) ==
  \/ n = "repair_if_needed" /\ ~mem[w].needsRepair
  \/ n \in {"upload", "start_print"} /\ (mem[w].dry \/ mem[w].printer \in Locked)

\* with_retry: the node raises on every attempt its budget allows, before it has
\* any effect.  RepairAgent, given nothing to look up, asks the LLM for a remedy
\* and calls that "fixed", or it notifies a person.
Escalate(w, n) ==
  /\ Turn(w, n) /\ ~Returns(w, n)
  /\ \/ Yield(w, "fail", mem[w])
     \/ LlmAvailable /\ Yield(w, "suggested", mem[w])
  /\ UNCHANGED world

Enqueue(w) ==
  /\ Turn(w, "enqueue")
  /\ jobs' = [jobs EXCEPT ![w] = @ + 1]
  /\ Yield(w, "pass", mem[w])
  /\ UNCHANGED <<remote, printing, starts, faults>>

\* A mesh is sent to repair if one of its failures is of the repairable kind.
TruthGate(w) ==
  /\ Turn(w, "truth_gate")
  /\ \/ Sound(w, mem[w]) /\ Yield(w, "pass", [mem[w] EXCEPT !.gated = TRUE])
     \/ /\ ~Sound(w, mem[w])
        /\ Yield(w, "pass", [mem[w] EXCEPT !.gated = FALSE, !.needsRepair = TRUE])
     \/ ~Sound(w, mem[w]) /\ Yield(w, "fail", [mem[w] EXCEPT !.gated = FALSE])
  /\ UNCHANGED world

\* Mutant: the repaired mesh is not gated again.
RepairIfNeeded_NoGate(w) ==
  /\ Turn(w, "repair_if_needed")
  /\ \/ ~mem[w].needsRepair /\ Yield(w, "skip", mem[w])
     \/ mem[w].needsRepair /\ Yield(w, "fail", mem[w])
     \/ /\ mem[w].needsRepair
        /\ Yield(w, "pass", [mem[w] EXCEPT !.mesh = "repaired", !.gated = TRUE])
  /\ UNCHANGED world

\* The repaired mesh is used if it passes the gate again.
RepairIfNeeded(w) ==
  /\ Turn(w, "repair_if_needed")
  /\ \/ ~mem[w].needsRepair /\ Yield(w, "skip", mem[w])
     \/ mem[w].needsRepair /\ Yield(w, "fail", mem[w])
     \/ /\ mem[w].needsRepair /\ quality[w] # "broken"
        /\ Yield(w, "pass", [mem[w] EXCEPT !.mesh = "repaired", !.gated = TRUE])
  /\ UNCHANGED world

\* A rotated mesh is as sound as it was.
AutoOrient(w) ==
  /\ Turn(w, "auto_orient")
  /\ \E outcome \in {"skip", "pass"} : Yield(w, outcome, mem[w])
  /\ UNCHANGED world

Dispatch(w) ==
  /\ Turn(w, "dispatch")
  /\ \/ Yield(w, "fail", mem[w])
     \/ \E p \in Printer : Yield(w, "pass", [mem[w] EXCEPT !.printer = p])
  /\ UNCHANGED world

\* Any check may fail; that of the truth gate fails unless it has passed.
Preflight(w) ==
  /\ Turn(w, "preflight")
  /\ Yield(w, "fail", mem[w]) \/ (mem[w].gated /\ Yield(w, "pass", mem[w]))
  /\ UNCHANGED world

\* A dry run goes on without a slicer.
Slice(w) ==
  /\ Turn(w, "slice")
  /\ \/ Yield(w, IF mem[w].dry THEN "skip" ELSE "fail", mem[w])
     \/ Yield(w, "fail", mem[w])
     \/ Yield(w, "pass", [mem[w] EXCEPT !.sliced = TRUE])
  /\ UNCHANGED world

\* analyze_gcode, cost_estimate and notify_started decide nothing.
Inform(w) ==
  /\ \/ Turn(w, "analyze_gcode") /\ Yield(w, "pass", mem[w])
     \/ /\ Turn(w, "cost_estimate") \/ Turn(w, "notify_started")
        /\ \E outcome \in {"skip", "pass"} : Yield(w, outcome, mem[w])
  /\ UNCHANGED world

\* Mutant: the count of the attempts starts over.
Again_Forever(w) ==
  IF at[w].runtime = "graph"
  THEN at' = [at EXCEPT ![w].tries = (@ + 1) % (MaxRetries + 1)] /\ UNCHANGED <<quality, mem, disk>>
  ELSE Yield(w, "retry", mem[w])

\* Mutant: off by one.
Again_OffByOne(w) ==
  IF at[w].runtime = "graph" /\ at[w].tries <= MaxRetries
  THEN at' = [at EXCEPT ![w].tries = @ + 1] /\ UNCHANGED <<quality, mem, disk>>
  ELSE Yield(w, "retry", mem[w])

\* upload returned RETRY: WorkflowGraph calls it again, MaxRetries times.
Again(w) ==
  IF at[w].runtime = "graph" /\ at[w].tries < MaxRetries
  THEN at' = [at EXCEPT ![w].tries = @ + 1] /\ UNCHANGED <<quality, mem, disk>>
  ELSE Yield(w, "retry", mem[w])

\* The file may be there although the reply is an error.
Upload(w) ==
  LET s == mem[w] IN
  /\ Turn(w, "upload")
  /\ \/ s.dry /\ Yield(w, "skip", s) /\ UNCHANGED remote
     \/ ~s.dry /\ s.printer \in Locked /\ Yield(w, "fail", s) /\ UNCHANGED remote
     \/ /\ ~s.dry /\ s.printer \notin Locked
        /\ \/ /\ remote' = [remote EXCEPT ![w] = @ \cup {s.printer}]
              /\ Yield(w, "pass", [s EXCEPT !.item = TRUE]) \/ Again(w)
           \/ Again(w) /\ UNCHANGED remote
  /\ UNCHANGED <<jobs, printing, starts, faults>>

\* Moonraker starts a file that it has, if it is not printing.  The reply may be
\* lost.  Without an upload the local path is sent, which is no file of the printer.
StartPrint(w) ==
  LET s == mem[w] IN
  /\ Turn(w, "start_print")
  /\ \/ s.dry /\ Yield(w, "skip", s) /\ UNCHANGED <<printing, starts, faults>>
     \/ /\ ~s.dry /\ (s.printer \in Locked \/ s.item \/ s.sliced)
        /\ Yield(w, "fail", s) /\ UNCHANGED <<printing, starts, faults>>
     \/ /\ ~s.dry /\ s.printer \notin Locked
        /\ s.item /\ s.printer \in remote[w] /\ printing[s.printer] = None
        /\ printing' = [printing EXCEPT ![s.printer] = w]
        /\ starts' = [starts EXCEPT ![w] = @ + 1]
        /\ \/ Yield(w, "pass", s) /\ UNCHANGED faults
           \/ /\ faults[w] < MaxFaults /\ faults' = [faults EXCEPT ![w] = @ + 1]
              /\ Yield(w, "fail", s)
  /\ UNCHANGED <<jobs, remote>>

Step(w) ==
  \/ Runner(w)
  \/ \E n \in Node : Escalate(w, n)
  \/ Enqueue(w) \/ TruthGate(w) \/ RepairIfNeeded(w) \/ AutoOrient(w) \/ Dispatch(w)
  \/ Preflight(w) \/ Slice(w) \/ Inform(w) \/ Upload(w) \/ StartPrint(w)

\* A print ends, for whatever reason.
PrintEnds(p) ==
  /\ printing[p] # None
  /\ printing' = [printing EXCEPT ![p] = None]
  /\ UNCHANGED <<quality, mem, disk, at, jobs, remote, starts, faults>>

\* The process stops.  What a node has just done is then in no checkpoint.
Crash ==
  /\ \A w \in Workflow : at[w].pc = "save" => faults[w] < MaxFaults
  /\ faults' = [w \in Workflow |-> faults[w] + IF at[w].pc = "save" THEN 1 ELSE 0]
  /\ mem' = [w \in Workflow |-> None]
  /\ at' = [w \in Workflow |-> Idle]
  /\ UNCHANGED <<quality, disk, jobs, remote, printing, starts>>

Next ==
  \/ \E w \in Workflow : Begin(w) \/ Resume(w) \/ Step(w)
  \/ \E p \in Printer : PrintEnds(p)
  \/ Crash

Spec == Init /\ [][Next]_vars

\* A run goes on: nodes do local work or wait for a reply with a timeout.
FairSpec == Spec /\ \A w \in Workflow : WF_vars(Step(w))

-----------------------------------------------------------------------------
(* Properties. *)

\* The variables keep the shapes above; a node is never tried more often than its
\* budget allows.
TypeOK ==
  /\ quality \in [Workflow -> Quality]
  /\ mem \in [Workflow -> State \cup {None}]
  /\ disk \in [Workflow -> State \cup {None}]
  /\ jobs \in [Workflow -> Nat] /\ starts \in [Workflow -> Nat]
  /\ remote \in [Workflow -> SUBSET Printer]
  /\ printing \in [Printer -> Workflow \cup {None}]
  /\ faults \in [Workflow -> 0..MaxFaults]
  /\ \A w \in Workflow :
       /\ at[w].pc \in {"idle", "node", "save"} /\ (at[w].pc = "idle" <=> mem[w] = None)
       /\ at[w].idx \in 1..(Len(NodeOrder) + 1) /\ at[w].tries \in 0..MaxRetries
       /\ at[w].outcome \in Outcome /\ at[w].runtime \in {"graph", "langgraph"}
       /\ at[w].origin \in State \cup {None}

Started(w) == starts'[w] > starts[w]

\* However often a workflow fails, is resumed from its checkpoint or loses its
\* process, a print is started only of a mesh that is fit to print, on a printer
\* that is not locked, and outside a dry run.  (Unless preflight raised and the
\* LLM's remedy was taken for its PASS: PrintIsChecked.)
OnlyCheckedPrintsStart ==
  [][\A w \in Workflow : Started(w) =>
       /\ mem[w].printer \notin Locked /\ ~mem[w].dry
       /\ "preflight" \notin mem[w].suggested => mem[w].gated /\ Sound(w, mem[w])]_vars

\* "Each node is idempotent and resumable", up to the one window: a workflow is
\* queued once and printed once, and once more for each crash between a node's
\* work and its checkpoint and each reply lost.
OncePerFault ==
  \A w \in Workflow : jobs[w] <= 1 + faults[w] /\ starts[w] <= 1 + faults[w]

\* Where no such fault happened, the checkpoint says what the workflow has done.
Done(w, n) == disk[w] # None /\ n \in disk[w].passed \ disk[w].suggested
CheckpointTellsWorld ==
  \A w \in Workflow : faults[w] = 0 /\ at[w].pc # "save" =>
    /\ jobs[w] = IF Done(w, "enqueue") THEN 1 ELSE 0
    /\ starts[w] = IF Done(w, "start_print") THEN 1 ELSE 0

\* Every run ends: a node that keeps failing or asking for a retry does not hold it.
RunEnds == \A w \in Workflow : at[w].pc # "idle" ~> at[w].pc = "idle"

\* "on RepairEscalation, invoke the RepairAgent and surface its result as a FAIL
\* NodeResult": no print is started of a workflow whose preflight checks raised.
PrintIsChecked ==
  [][\A w \in Workflow : Started(w) => "preflight" \notin mem[w].suggested]_vars

\* "If a step has already run (recorded in state.history), it's skipped on resume."
StepsAreSkipped ==
  [][\A w \in Workflow :
       /\ jobs'[w] > jobs[w] => "enqueue" \notin mem[w].passed
       /\ Started(w) => "start_print" \notin mem[w].passed]_vars
=============================================================================
