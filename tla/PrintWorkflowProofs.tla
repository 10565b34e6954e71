------------------------ MODULE PrintWorkflowProofs ------------------------
(* Proofs about the print workflow, for any number of workflows, printers,     *)
(* retries, crashes and lost replies, and for both runtimes.                   *)
EXTENDS PrintWorkflow, TLAPS, WellFoundedInduction

-----------------------------------------------------------------------------
(* The order of the nodes                                                   *)

Steps == 12
After == Steps + 1

LEMMA Order ==
  /\ Len(NodeOrder) = Steps /\ DOMAIN NodeOrder = 1..Steps
  /\ NodeOrder[1] = "enqueue" /\ NodeOrder[6] = "preflight" /\ NodeOrder[11] = "start_print"
BY DEF NodeOrder, Steps

LEMMA Names ==
  ASSUME NEW i \in 1..Steps
  PROVE  /\ NodeOrder[i] \in Node
         /\ NodeOrder[i] = "enqueue" => i = 1
         /\ NodeOrder[i] = "preflight" => i = 6
         /\ NodeOrder[i] = "start_print" => i = 11
<1>1. NodeOrder[i] \in Node
  BY Order DEF Node
<1>2. i \in {1, 2, 3, 4, 5, 6, 7, 8, 9, 10, 11, 12}
  BY DEF Steps
<1>3. /\ NodeOrder[i] = "enqueue" => i = 1
      /\ NodeOrder[i] = "preflight" => i = 6
      /\ NodeOrder[i] = "start_print" => i = 11
  BY <1>2 DEF NodeOrder
<1> QED
  BY <1>1, <1>3

\* The runner goes to the first node that has not passed.
LEMMA NextNode ==
  ASSUME NEW i \in 1..After, NEW s, NEW runtime \in {"graph", "langgraph"}
  PROVE  LET j == NextIndex(i, s, runtime) IN
         /\ j \in i..After
         /\ runtime = "graph" /\ j <= Steps => NodeOrder[j] \notin s.passed
         /\ \A k \in i..(j - 1) : NodeOrder[k] \in s.passed
<1> DEFINE Fits(j) == /\ j \in DOMAIN NodeOrder => NodeOrder[j] \notin s.passed
                      /\ \A k \in i..(j - 1) : NodeOrder[k] \in s.passed
           Left == {j \in i..After : j \in DOMAIN NodeOrder => NodeOrder[j] \notin s.passed}
<1>1. CASE runtime = "langgraph"
  BY <1>1 DEF NextIndex, After, Steps
<1>2. CASE runtime = "graph"
  <2>1. Left \in SUBSET Nat /\ After \in Left
    BY Order DEF After, Steps
  <2>2. PICK j \in Left : \A k \in Left : j <= k
    <3> HIDE DEF Left
    <3>1. Left \in SUBSET Nat /\ Left # {}
      BY <2>1
    <3>2. PICK j \in Left : \A k \in Left : <<k, j>> \notin OpToRel(<, Nat)
      BY <3>1, WFMin, NatLessThanWellFounded, Zenon
    <3>3. \A k \in Left : <<k, j>> \in OpToRel(<, Nat) <=> k < j
      BY <3>1 DEF OpToRel
    <3>4. \A k \in Left : k \in Nat
      BY <3>1
    <3>5. \A k \in Left : ~(k < j)
      BY <3>2, <3>3
    <3>6. \A k \in Left : j <= k
      BY <3>4, <3>5
    <3> QED
      BY <3>6
  <2>3. j \in i..After /\ Fits(j)
    BY <2>2, Order DEF After, Steps
  <2>4. NextIndex(i, s, runtime) = CHOOSE k \in i..After : Fits(k)
    BY <1>2, Order DEF NextIndex, After
  <2> HIDE DEF Fits
  <2>5. NextIndex(i, s, runtime) \in i..After /\ Fits(NextIndex(i, s, runtime))
    BY <2>3, <2>4
  <2> QED
    BY <2>5, <1>2, Order DEF Fits, After, Steps
<1> QED
  BY <1>1, <1>2

-----------------------------------------------------------------------------
(* Types                                                                    *)

AtRecord ==
  [pc : {"idle", "node", "save"}, runtime : {"graph", "langgraph"}, idx : 1..After,
   tries : 0..MaxRetries, outcome : Outcome, origin : State \cup {None}]

\* A run has a state; what it saves is the result of a node; langgraph keeps what
\* it was called with.
RunOK(w) ==
  /\ at[w].pc = "idle" <=> mem[w] = None
  /\ at[w].pc = "save" => at[w].idx <= Steps
  /\ at[w].pc # "idle" /\ at[w].runtime = "langgraph" => at[w].origin \in State

TypeInv ==
  /\ quality \in [Workflow -> Quality]
  /\ mem \in [Workflow -> State \cup {None}]
  /\ disk \in [Workflow -> State \cup {None}]
  /\ jobs \in [Workflow -> Nat] /\ starts \in [Workflow -> Nat]
  /\ remote \in [Workflow -> SUBSET Printer]
  /\ printing \in [Printer -> Workflow \cup {None}]
  /\ faults \in [Workflow -> 0..MaxFaults]
  /\ at \in [Workflow -> AtRecord]
  /\ \A w \in Workflow : RunOK(w)

LEMMA IdleOK ==
  ASSUME WorkflowAssumption PROVE Idle \in AtRecord /\ Idle.pc = "idle"
BY DEF WorkflowAssumption, Idle, AtRecord, Outcome, After, Steps

LEMMA NewStateOK ==
  ASSUME NEW dry \in BOOLEAN PROVE NewState(dry) \in State
BY DEF NewState, State

\* Two states with the same history.
SameHistory(s, t) ==
  s.passed = t.passed /\ s.suggested = t.suggested /\ s.aborted = t.aborted

\* The work of a node.
Work(w) ==
  \/ \E n \in Node : Escalate(w, n)
  \/ Enqueue(w) \/ TruthGate(w) \/ RepairIfNeeded(w) \/ AutoOrient(w) \/ Dispatch(w)
  \/ Preflight(w) \/ Slice(w) \/ Inform(w) \/ Upload(w) \/ StartPrint(w)

LEMMA TurnOK ==
  ASSUME WorkflowAssumption, TypeInv, NEW w \in Workflow, NEW n, Turn(w, n)
  PROVE  /\ at[w] \in AtRecord /\ at[w].pc = "node" /\ mem[w] \in State
         /\ at[w].idx \in 1..Steps /\ n = NodeOrder[at[w].idx]
         /\ at[w].idx # 1 => ~mem[w].aborted
<1>1. at[w] \in AtRecord /\ at[w].pc = "node" /\ mem[w] \in State
  BY DEF Turn, TypeInv, RunOK
<1>2. at[w].idx \in 1..After /\ ~(at[w].idx > Steps)
  BY <1>1, Order DEF Turn, Over, AtRecord
<1> QED
  BY <1>1, <1>2 DEF Turn, Over, After, Steps

\* A node that asks for another attempt.
Retried(w) ==
  /\ at[w].tries < MaxRetries
  /\ at' = [at EXCEPT ![w].tries = @ + 1] /\ UNCHANGED <<quality, mem, disk>>

\* Every node is in turn, and ends with a result or another attempt.
LEMMA Results ==
  ASSUME WorkflowAssumption, TypeInv, NEW w \in Workflow, Work(w)
  PROVE  /\ \E n \in Node : Turn(w, n)
         /\ \/ Retried(w)
            \/ \E o \in Outcome, s \in State : Yield(w, o, s) /\ SameHistory(s, mem[w])
<1> DEFINE Result == \/ Retried(w)
                     \/ \E o \in Outcome, s \in State : Yield(w, o, s) /\ SameHistory(s, mem[w])
<1>1. ASSUME NEW n, Turn(w, n) PROVE n \in Node /\ mem[w] \in State
  BY <1>1, TurnOK, Names
<1>2. ASSUME NEW o \in Outcome, NEW s \in State, SameHistory(s, mem[w]), Yield(w, o, s)
      PROVE  Result
  BY <1>2
<1> HIDE DEF Result
<1>3. \A s \in State : SameHistory(s, s)
  BY DEF SameHistory
<1>4. \A o \in {"pass", "fail", "skip", "retry", "suggested"} : o \in Outcome
  BY DEF Outcome
<1>5. ASSUME NEW n \in Node, Escalate(w, n) PROVE Result /\ \E k \in Node : Turn(w, k)
  BY <1>5, <1>1, <1>2, <1>3, <1>4 DEF Escalate
<1>6. CASE Enqueue(w)
  <2>1. Turn(w, "enqueue") /\ Yield(w, "pass", mem[w])
    BY <1>6 DEF Enqueue
  <2> QED
    BY <2>1, <1>1, <1>2, <1>3, <1>4 DEF Result
<1>7. CASE TruthGate(w)
  <2>1. Turn(w, "truth_gate") /\ mem[w] \in State
    BY <1>7, <1>1 DEF TruthGate
  <2>2. /\ [mem[w] EXCEPT !.gated = TRUE] \in State
        /\ SameHistory([mem[w] EXCEPT !.gated = TRUE], mem[w])
        /\ [mem[w] EXCEPT !.gated = FALSE] \in State
        /\ SameHistory([mem[w] EXCEPT !.gated = FALSE], mem[w])
        /\ [mem[w] EXCEPT !.gated = FALSE, !.needsRepair = TRUE] \in State
        /\ SameHistory([mem[w] EXCEPT !.gated = FALSE, !.needsRepair = TRUE], mem[w])
    BY <2>1 DEF State, SameHistory
  <2>3. Result
    BY <1>7, <2>2, <1>2, <1>4 DEF TruthGate
  <2> QED
    BY <2>1, <2>3, <1>1 DEF Result
<1>8. CASE RepairIfNeeded(w)
  <2>1. Turn(w, "repair_if_needed") /\ mem[w] \in State
    BY <1>8, <1>1 DEF RepairIfNeeded
  <2>2. /\ [mem[w] EXCEPT !.mesh = "repaired", !.gated = TRUE] \in State
        /\ SameHistory([mem[w] EXCEPT !.mesh = "repaired", !.gated = TRUE], mem[w])
    BY <2>1 DEF State, SameHistory
  <2>3. Result
    BY <1>8, <2>1, <2>2, <1>2, <1>3, <1>4 DEF RepairIfNeeded
  <2> QED
    BY <2>1, <2>3, <1>1 DEF Result
<1>9. CASE AutoOrient(w)
  <2>1. Turn(w, "auto_orient") /\ mem[w] \in State
    BY <1>9, <1>1 DEF AutoOrient
  <2>2. Result
    BY <1>9, <2>1, <1>2, <1>3, <1>4 DEF AutoOrient
  <2> QED
    BY <2>1, <2>2, <1>1 DEF Result
<1>10. CASE Dispatch(w)
  <2>1. Turn(w, "dispatch") /\ mem[w] \in State
    BY <1>10, <1>1 DEF Dispatch
  <2>2. \A p \in Printer : /\ [mem[w] EXCEPT !.printer = p] \in State
                           /\ SameHistory([mem[w] EXCEPT !.printer = p], mem[w])
    BY <2>1 DEF State, SameHistory
  <2>3. Result
    BY <1>10, <2>1, <2>2, <1>2, <1>3, <1>4 DEF Dispatch
  <2> QED
    BY <2>1, <2>3, <1>1 DEF Result
<1>11. CASE Preflight(w)
  <2>1. Turn(w, "preflight") /\ mem[w] \in State
    BY <1>11, <1>1 DEF Preflight
  <2>2. Result
    BY <1>11, <2>1, <1>2, <1>3, <1>4 DEF Preflight
  <2> QED
    BY <2>1, <2>2, <1>1 DEF Result
<1>12. CASE Slice(w)
  <2>1. Turn(w, "slice") /\ mem[w] \in State
    BY <1>12, <1>1 DEF Slice
  <2>2. /\ [mem[w] EXCEPT !.sliced = TRUE] \in State
        /\ SameHistory([mem[w] EXCEPT !.sliced = TRUE], mem[w])
    BY <2>1 DEF State, SameHistory
  <2>3. Result
    BY <1>12, <2>1, <2>2, <1>2, <1>3, <1>4 DEF Slice
  <2> QED
    BY <2>1, <2>3, <1>1 DEF Result
<1>13. CASE Inform(w)
  <2>1. PICK n : Turn(w, n)
    BY <1>13 DEF Inform
  <2>2. Result
    BY <1>13, <2>1, <1>1, <1>2, <1>3, <1>4 DEF Inform
  <2> QED
    BY <2>1, <2>2, <1>1 DEF Result
<1>14. CASE Upload(w)
  <2>1. Turn(w, "upload") /\ mem[w] \in State
    BY <1>14, <1>1 DEF Upload
  <2>2. /\ [mem[w] EXCEPT !.item = TRUE] \in State
        /\ SameHistory([mem[w] EXCEPT !.item = TRUE], mem[w])
    BY <2>1 DEF State, SameHistory
  <2>3. ASSUME Again(w) PROVE Result
    BY <2>1, <2>3, <1>2, <1>3, <1>4 DEF Again, Retried, Result
  <2>4. Result
    BY <1>14, <2>1, <2>2, <2>3, <1>2, <1>3, <1>4 DEF Upload
  <2> QED
    BY <2>1, <2>4, <1>1 DEF Result
<1>15. CASE StartPrint(w)
  <2>1. Turn(w, "start_print") /\ mem[w] \in State
    BY <1>15, <1>1 DEF StartPrint
  <2>2. Result
    BY <1>15, <2>1, <1>2, <1>3, <1>4 DEF StartPrint
  <2> QED
    BY <2>1, <2>2, <1>1 DEF Result
<1> QED
  BY <1>5, <1>6, <1>7, <1>8, <1>9, <1>10, <1>11, <1>12, <1>13, <1>14, <1>15
  DEF Work, Result

\* What of the type invariant is about the runs.
RunsOK ==
  /\ mem \in [Workflow -> State \cup {None}] /\ at \in [Workflow -> AtRecord]
  /\ \A w \in Workflow : RunOK(w)

LEMMA RunIs ==
  ASSUME WorkflowAssumption, TypeInv, NEW w \in Workflow, NEW s \in State,
         NEW runtime \in {"graph", "langgraph"}, NEW origin \in State \cup {None},
         runtime = "langgraph" => origin \in State, Run(w, s, runtime, origin)
  PROVE  /\ RunsOK'
         /\ \A v \in Workflow : mem'[v] = IF v = w THEN s ELSE mem[v]
         /\ \A v \in Workflow \ {w} : at'[v] = at[v]
         /\ at'[w].pc = "node" /\ at'[w].runtime = runtime /\ at'[w].origin = origin
         /\ at'[w].idx = NextIndex(1, s, runtime) /\ at'[w].idx \in 1..After
<1> DEFINE r == [Idle EXCEPT !.pc = "node", !.runtime = runtime,
                             !.idx = NextIndex(1, s, runtime), !.origin = origin]
<1>1. NextIndex(1, s, runtime) \in 1..After
  BY NextNode DEF After, Steps
<1>2. /\ r \in AtRecord /\ r.pc = "node" /\ r.runtime = runtime /\ r.origin = origin
      /\ r.idx = NextIndex(1, s, runtime)
  BY <1>1, IdleOK DEF AtRecord
<1> HIDE DEF r
<1>3. mem' = [mem EXCEPT ![w] = s] /\ at' = [at EXCEPT ![w] = r]
  BY DEF Run, r
<1>4. mem'[w] = s /\ at'[w] = r /\ \A v \in Workflow \ {w} : mem'[v] = mem[v] /\ at'[v] = at[v]
  BY <1>3 DEF TypeInv
<1>5. mem' \in [Workflow -> State \cup {None}] /\ at' \in [Workflow -> AtRecord]
  BY <1>2, <1>3 DEF TypeInv
<1>6. ASSUME NEW v \in Workflow PROVE RunOK(v)'
  BY <1>2, <1>4 DEF RunOK, TypeInv, WorkflowAssumption
<1> QED
  BY <1>1, <1>2, <1>4, <1>5, <1>6 DEF RunsOK

LEMMA GoOnIs ==
  ASSUME WorkflowAssumption, TypeInv, NEW w \in Workflow, NEW s \in State,
         at[w].pc # "idle", at[w].idx <= Steps, GoOn(w, s)
  PROVE  /\ RunsOK'
         /\ \A v \in Workflow : mem'[v] = IF v = w THEN s ELSE mem[v]
         /\ \A v \in Workflow \ {w} : at'[v] = at[v]
         /\ at'[w].pc = "node" /\ at'[w].runtime = at[w].runtime
         /\ at'[w].origin = at[w].origin
         /\ at'[w].idx = NextIndex(at[w].idx + 1, s, at[w].runtime)
         /\ at[w].idx + 1 \in 1..After /\ at'[w].idx \in 1..After
<1> DEFINE j == NextIndex(at[w].idx + 1, s, at[w].runtime)
           r == [at[w] EXCEPT !.pc = "node", !.tries = 0, !.outcome = "skip", !.idx = j]
<1>1. at[w] \in AtRecord /\ at[w].idx + 1 \in 1..After
  BY DEF TypeInv, AtRecord, After, Steps
<1>2. j \in (at[w].idx + 1)..After
  BY <1>1, NextNode DEF AtRecord
<1>3. j \in 1..After
  BY <1>1, <1>2 DEF After, Steps
<1> HIDE DEF j
<1>4. /\ r \in AtRecord /\ r.pc = "node" /\ r.runtime = at[w].runtime
      /\ r.origin = at[w].origin /\ r.idx = j
  <2>1. 0 \in 0..MaxRetries /\ "skip" \in Outcome
    BY DEF Outcome, WorkflowAssumption
  <2> QED
    BY <1>1, <1>3, <2>1 DEF AtRecord
<1>5. mem' = [mem EXCEPT ![w] = s] /\ at' = [at EXCEPT ![w] = r]
  BY DEF GoOn, j
<1> HIDE DEF r
<1>6. mem'[w] = s /\ at'[w] = r /\ \A v \in Workflow \ {w} : mem'[v] = mem[v] /\ at'[v] = at[v]
  BY <1>5 DEF TypeInv
<1>7. mem' \in [Workflow -> State \cup {None}] /\ at' \in [Workflow -> AtRecord]
  BY <1>4, <1>5 DEF TypeInv
<1>8. ASSUME NEW v \in Workflow PROVE RunOK(v)'
  BY <1>4, <1>6 DEF RunOK, TypeInv, WorkflowAssumption
<1> QED
  BY <1>1, <1>3, <1>4, <1>6, <1>7, <1>8 DEF RunsOK, j

LEMMA YieldIs ==
  ASSUME WorkflowAssumption, TypeInv, NEW w \in Workflow, NEW n, Turn(w, n),
         NEW o \in Outcome, NEW s \in State, Yield(w, o, s)
  PROVE  /\ RunsOK'
         /\ \A v \in Workflow : mem'[v] = IF v = w THEN s ELSE mem[v]
         /\ \A v \in Workflow \ {w} : at'[v] = at[v]
         /\ at'[w].pc = "save" /\ at'[w].outcome = o /\ at'[w].idx = at[w].idx
         /\ at'[w].runtime = at[w].runtime /\ at'[w].origin = at[w].origin
<1> DEFINE r == [at[w] EXCEPT !.pc = "save", !.outcome = o]
<1>1. at[w] \in AtRecord /\ at[w].pc = "node" /\ at[w].idx \in 1..Steps
  BY TurnOK
<1>2. /\ r \in AtRecord /\ r.pc = "save" /\ r.runtime = at[w].runtime /\ r.outcome = o
      /\ r.origin = at[w].origin /\ r.idx = at[w].idx
  BY <1>1 DEF AtRecord
<1>3. mem' = [mem EXCEPT ![w] = s] /\ at' = [at EXCEPT ![w] = r]
  BY DEF Yield
<1>4. mem'[w] = s /\ at'[w] = r /\ \A v \in Workflow \ {w} : mem'[v] = mem[v] /\ at'[v] = at[v]
  BY <1>3 DEF TypeInv
<1> HIDE DEF r
<1>5. mem' \in [Workflow -> State \cup {None}] /\ at' \in [Workflow -> AtRecord]
  BY <1>2, <1>3 DEF TypeInv
<1>6. ASSUME NEW v \in Workflow PROVE RunOK(v)'
  BY <1>1, <1>2, <1>4 DEF RunOK, TypeInv, WorkflowAssumption, Steps
<1> QED
  BY <1>2, <1>4, <1>5, <1>6 DEF RunsOK

LEMMA RetriedIs ==
  ASSUME WorkflowAssumption, TypeInv, NEW w \in Workflow, Retried(w)
  PROVE  /\ RunsOK'
         /\ \A v \in Workflow : /\ at'[v].pc = at[v].pc /\ at'[v].runtime = at[v].runtime
                                /\ at'[v].idx = at[v].idx /\ at'[v].outcome = at[v].outcome
                                /\ at'[v].origin = at[v].origin
<1> DEFINE r == [at[w] EXCEPT !.tries = @ + 1]
<1>1. /\ r \in AtRecord /\ r.pc = at[w].pc /\ r.runtime = at[w].runtime
      /\ r.idx = at[w].idx /\ r.outcome = at[w].outcome /\ r.origin = at[w].origin
  <2>1. at[w] \in AtRecord
    BY DEF TypeInv
  <2>2. at[w].tries + 1 \in 0..MaxRetries
    BY <2>1 DEF AtRecord, Retried, WorkflowAssumption
  <2> QED
    BY <2>1, <2>2 DEF AtRecord
<1>2. at' = [at EXCEPT ![w] = r] /\ mem' = mem
  BY DEF Retried
<1>3. at'[w] = r /\ \A v \in Workflow \ {w} : at'[v] = at[v]
  BY <1>2 DEF TypeInv
<1> HIDE DEF r
<1>4. at' \in [Workflow -> AtRecord] /\ mem' \in [Workflow -> State \cup {None}]
  BY <1>1, <1>2 DEF TypeInv
<1>5. \A v \in Workflow : RunOK(v)'
  BY <1>1, <1>2, <1>3 DEF RunOK, TypeInv
<1> QED
  BY <1>1, <1>3, <1>4, <1>5 DEF RunsOK

LEMMA RecordedOK ==
  ASSUME NEW s \in State, NEW n \in Node, NEW o \in Outcome
  PROVE  /\ Recorded(s, n, o) \in State
         /\ \A b \in BOOLEAN : [Recorded(s, n, o) EXCEPT !.aborted = b] \in State
BY DEF Recorded, State

LEMMA TypeInit ==
  ASSUME WorkflowAssumption, Init PROVE TypeInv
<1>1. \A w \in Workflow : RunOK(w)
  BY IdleOK DEF Init, RunOK
<1>2. at \in [Workflow -> AtRecord]
  BY IdleOK DEF Init
<1> QED
  BY <1>1, <1>2 DEF Init, TypeInv, WorkflowAssumption

\* What a workflow, called anew or resumed, starts from.
LEMMA CallIs ==
  ASSUME WorkflowAssumption, TypeInv, NEW w \in Workflow, Begin(w) \/ Resume(w)
  PROVE  /\ at[w].pc = "idle" /\ UNCHANGED <<quality, disk, world>>
         /\ \E s \in State : /\ Run(w, s, Runtime, Origin(s))
                             /\ \/ disk[w] = None /\ \E dry \in BOOLEAN : s = NewState(dry)
                                \/ disk[w] # None /\ s = disk[w]
         /\ Runtime \in {"graph", "langgraph"}
         /\ \A s \in State : Origin(s) \in State \cup {None}
                             /\ (Runtime = "langgraph" => Origin(s) = s)
                             /\ (Runtime = "graph" => Origin(s) = None)
<1>1. CASE Begin(w)
  BY <1>1, NewStateOK DEF Begin, Origin, WorkflowAssumption
<1>2. CASE Resume(w)
  <2>1. disk[w] \in State /\ disk[w] # None
    BY <1>2 DEF Resume, TypeInv
  <2> QED
    BY <1>2, <2>1 DEF Resume, Origin, WorkflowAssumption
<1> QED
  BY <1>1, <1>2

\* All of a state but whether it is aborted.
SameButAborted(s, t) ==
  s.passed = t.passed /\ s.suggested = t.suggested /\ s.gated = t.gated /\ s.mesh = t.mesh

\* What the runner does after a node, and where it skips one.
LEMMA SaveIs ==
  ASSUME WorkflowAssumption, TypeInv, NEW w \in Workflow, Save(w)
  PROVE  /\ at[w].pc = "save" /\ at[w].idx \in 1..Steps /\ mem[w] \in State
         /\ NodeOrder[at[w].idx] \in Node /\ at[w].outcome \in Outcome
         /\ \E r \in State, s \in State :
              /\ r = Recorded(mem[w], NodeOrder[at[w].idx], at[w].outcome)
              /\ SameButAborted(s, r) /\ (s.aborted <=> r.aborted \/ at[w].outcome = "fail")
              /\ GoOn(w, s)
              /\ disk' = (IF at[w].runtime = "graph" THEN [disk EXCEPT ![w] = r] ELSE disk)
         /\ UNCHANGED <<quality, world>>
<1> DEFINE n == NodeOrder[at[w].idx]
           r == Recorded(mem[w], n, at[w].outcome)
           s == [r EXCEPT !.aborted = @ \/ at[w].outcome = "fail"]
<1>1. at[w] \in AtRecord /\ at[w].pc = "save" /\ mem[w] \in State /\ at[w].idx <= Steps
  BY DEF Save, TypeInv, RunOK
<1>2. at[w].idx \in 1..Steps /\ at[w].outcome \in Outcome
  BY <1>1 DEF AtRecord, After, Steps
<1>3. n \in Node
  BY <1>2, Names
<1>4. r \in State /\ \A b \in BOOLEAN : [r EXCEPT !.aborted = b] \in State
  BY <1>1, <1>2, <1>3, RecordedOK
<1>5. s \in State
  BY <1>4
<1>6. disk' = (IF at[w].runtime = "graph" THEN [disk EXCEPT ![w] = r] ELSE disk)
  BY DEF Save
<1>7. GoOn(w, s)
  BY Zenon DEF Save
<1>8. UNCHANGED <<quality, world>>
  BY DEF Save
<1>9. r = Recorded(mem[w], NodeOrder[at[w].idx], at[w].outcome)
  OBVIOUS
<1> HIDE DEF r
<1>10. SameButAborted(s, r) /\ (s.aborted <=> r.aborted \/ at[w].outcome = "fail")
  BY <1>4 DEF State, SameButAborted
<1> HIDE DEF s
<1> QED
  BY <1>1, <1>2, <1>3, <1>4, <1>5, <1>6, <1>7, <1>8, <1>9, <1>10

LEMMA SkipIs ==
  ASSUME WorkflowAssumption, TypeInv, NEW w \in Workflow, Skip(w)
  PROVE  /\ at[w].pc = "node" /\ at[w].idx \in 1..Steps /\ mem[w] \in State
         /\ at[w].idx # 1 => ~mem[w].aborted
         /\ \E s \in State :
              /\ SameButAborted(s, mem[w])
              /\ s.aborted <=> mem[w].aborted \/ NodeOrder[at[w].idx] \in Required
              /\ GoOn(w, s)
         /\ disk' = (IF at[w].runtime = "graph" THEN [disk EXCEPT ![w] = mem[w]] ELSE disk)
         /\ UNCHANGED <<quality, world>>
<1> DEFINE s == [mem[w] EXCEPT !.aborted = @ \/ NodeOrder[at[w].idx] \in Required]
<1>1. at[w] \in AtRecord /\ at[w].pc = "node" /\ mem[w] \in State
  BY DEF Skip, TypeInv, RunOK
<1>2. at[w].idx \in 1..Steps /\ (at[w].idx # 1 => ~mem[w].aborted)
  BY <1>1, Order DEF Skip, Over, AtRecord, After, Steps
<1>3. \A b \in BOOLEAN : [mem[w] EXCEPT !.aborted = b] \in State
  BY <1>1 DEF State
<1>4. s \in State
  BY <1>3
<1>5. /\ SameButAborted(s, mem[w])
      /\ s.aborted <=> mem[w].aborted \/ NodeOrder[at[w].idx] \in Required
  BY <1>1 DEF State, SameButAborted
<1>6. GoOn(w, s)
  BY Zenon DEF Skip
<1>7. disk' = (IF at[w].runtime = "graph" THEN [disk EXCEPT ![w] = mem[w]] ELSE disk)
  BY DEF Skip
<1>8. UNCHANGED <<quality, world>>
  BY DEF Skip
<1> HIDE DEF s
<1> QED
  BY <1>1, <1>2, <1>4, <1>5, <1>6, <1>7, <1>8

LEMMA TypeStep ==
  ASSUME WorkflowAssumption, TypeInv, NEW w \in Workflow, Begin(w) \/ Resume(w) \/ Step(w)
  PROVE  TypeInv'
<1> DEFINE WorldOK == /\ jobs \in [Workflow -> Nat] /\ starts \in [Workflow -> Nat]
                      /\ remote \in [Workflow -> SUBSET Printer]
                      /\ printing \in [Printer -> Workflow \cup {None}]
                      /\ faults \in [Workflow -> 0..MaxFaults]
<1>1. WorldOK
  BY DEF TypeInv
<1>2. ASSUME UNCHANGED world PROVE WorldOK'
  BY <1>1, <1>2 DEF world
<1>3. ASSUME RunsOK', quality' = quality, disk' \in [Workflow -> State \cup {None}], WorldOK'
      PROVE  TypeInv'
  BY <1>3 DEF RunsOK, TypeInv
<1> HIDE DEF WorldOK
<1>4. disk \in [Workflow -> State \cup {None}]
  BY DEF TypeInv
<1>5. CASE Begin(w) \/ Resume(w)
  <2>1. PICK s \in State : Run(w, s, Runtime, Origin(s))
    BY <1>5, CallIs
  <2>2. RunsOK'
    BY <1>5, <2>1, CallIs, RunIs
  <2> QED
    BY <1>2, <1>3, <1>4, <1>5, <2>2, CallIs
<1>6. CASE Finish(w)
  <2>1. UNCHANGED <<quality, world>>
    BY <1>6 DEF Finish
  <2>2. CASE /\ mem' = [mem EXCEPT ![w] = None] /\ at' = [at EXCEPT ![w] = Idle]
             /\ disk' = IF at[w].runtime = "langgraph" THEN [disk EXCEPT ![w] = mem[w]] ELSE disk
    <3>1. mem[w] \in State
      BY <1>6 DEF Finish, TypeInv, RunOK
    <3>2. disk' \in [Workflow -> State \cup {None}]
      BY <1>4, <2>2, <3>1
    <3>3. mem' \in [Workflow -> State \cup {None}] /\ at' \in [Workflow -> AtRecord]
      BY <2>2, IdleOK DEF TypeInv
    <3>4. \A v \in Workflow : RunOK(v)'
      BY <2>2, IdleOK DEF TypeInv, RunOK
    <3> QED
      BY <1>2, <1>3, <2>1, <3>2, <3>3, <3>4 DEF RunsOK
  <2>3. CASE at[w].runtime = "langgraph" /\ Run(w, at[w].origin, "graph", None) /\ UNCHANGED disk
    <3>1. at[w].origin \in State
      BY <1>6, <2>3 DEF Finish, TypeInv, RunOK
    <3>2. RunsOK'
      BY <2>3, <3>1, RunIs
    <3> QED
      BY <1>2, <1>3, <1>4, <2>1, <2>3, <3>2
  <2> QED
    BY <1>6, <2>2, <2>3 DEF Finish
<1>7. CASE Save(w)
  <2>1. PICK r \in State, s \in State :
          /\ GoOn(w, s)
          /\ disk' = (IF at[w].runtime = "graph" THEN [disk EXCEPT ![w] = r] ELSE disk)
    BY <1>7, SaveIs
  <2>2. RunsOK'
    BY <1>7, <2>1, SaveIs, GoOnIs
  <2>3. disk' \in [Workflow -> State \cup {None}]
    BY <1>4, <2>1
  <2> QED
    BY <1>2, <1>3, <1>7, <2>2, <2>3, SaveIs
<1>8. CASE Skip(w)
  <2>1. PICK s \in State : GoOn(w, s)
    BY <1>8, SkipIs
  <2>2. RunsOK'
    BY <1>8, <2>1, SkipIs, GoOnIs
  <2>3. disk' \in [Workflow -> State \cup {None}]
    BY <1>4, <1>8, SkipIs
  <2> QED
    BY <1>2, <1>3, <1>8, <2>2, <2>3, SkipIs
<1>9. CASE Work(w)
  <2>1. PICK n \in Node : Turn(w, n)
    BY <1>9, Results
  <2>2. RunsOK' /\ quality' = quality /\ disk' = disk
    <3>1. CASE Retried(w)
      BY <3>1, RetriedIs DEF Retried
    <3>2. ASSUME NEW o \in Outcome, NEW s \in State, Yield(w, o, s)
          PROVE  RunsOK' /\ quality' = quality /\ disk' = disk
      BY <2>1, <3>2, YieldIs DEF Yield
    <3> QED
      BY <1>9, <3>1, <3>2, Results
  <2>3. WorldOK'
    <3>1. CASE UNCHANGED world
      BY <1>2, <3>1
    <3>2. CASE Enqueue(w)
      BY <1>1, <3>2 DEF Enqueue, WorldOK
    <3>3. CASE Upload(w)
      <4>1. mem[w] \in State /\ CanRun("upload", mem[w])
        BY <3>3, TurnOK DEF Upload, Turn
      <4>2. mem[w].printer \in Printer
        BY <4>1 DEF State, CanRun
      <4>3. remote' \in [Workflow -> SUBSET Printer]
        BY <1>1, <3>3, <4>2 DEF Upload, WorldOK
      <4> QED
        BY <1>1, <3>3, <4>3 DEF Upload, WorldOK
    <3>4. CASE StartPrint(w)
      <4>1. faults' \in [Workflow -> 0..MaxFaults]
        BY <1>1, <3>4 DEF StartPrint, WorldOK, WorkflowAssumption
      <4>2. printing' \in [Printer -> Workflow \cup {None}]
        BY <1>1, <3>4 DEF StartPrint, WorldOK
      <4>3. starts' \in [Workflow -> Nat]
        BY <1>1, <3>4 DEF StartPrint, WorldOK
      <4> QED
        BY <1>1, <3>4, <4>1, <4>2, <4>3 DEF StartPrint, WorldOK
    <3> QED
      BY <1>9, <3>1, <3>2, <3>3, <3>4
      DEF Work, Escalate, TruthGate, RepairIfNeeded, AutoOrient, Dispatch, Preflight, Slice, Inform
  <2> QED
    BY <1>3, <1>4, <2>2, <2>3
<1> QED
  BY <1>5, <1>6, <1>7, <1>8, <1>9 DEF Step, Runner, Work

LEMMA TypeNext ==
  ASSUME WorkflowAssumption, TypeInv, [Next]_vars PROVE TypeInv'
<1>1. ASSUME NEW p \in Printer, PrintEnds(p) PROVE TypeInv'
  <2>1. \A w \in Workflow : RunOK(w)'
    BY <1>1 DEF PrintEnds, TypeInv, RunOK
  <2> QED
    BY <1>1, <2>1 DEF PrintEnds, TypeInv
<1>2. CASE Crash
  <2>1. mem' \in [Workflow -> State \cup {None}] /\ at' \in [Workflow -> AtRecord]
    BY <1>2, IdleOK DEF Crash
  <2>2. \A w \in Workflow : RunOK(w)'
    BY <1>2, IdleOK DEF Crash, RunOK
  <2>3. faults' \in [Workflow -> 0..MaxFaults]
    <3>1. \A w \in Workflow :
            faults[w] + (IF at[w].pc = "save" THEN 1 ELSE 0) \in 0..MaxFaults
      BY <1>2 DEF Crash, TypeInv, WorkflowAssumption
    <3> QED
      BY <1>2, <3>1 DEF Crash
  <2> QED
    BY <1>2, <2>1, <2>2, <2>3 DEF Crash, TypeInv
<1>3. CASE UNCHANGED vars
  <2>1. \A w \in Workflow : RunOK(w)'
    BY <1>3 DEF vars, world, TypeInv, RunOK
  <2> QED
    BY <1>3, <2>1 DEF vars, world, TypeInv
<1> QED
  BY <1>1, <1>2, <1>3, TypeStep DEF Next

LEMMA WorkflowTypes ==
  ASSUME WorkflowAssumption PROVE Spec => []TypeInv
BY TypeInit, TypeNext, PTL DEF Spec

\* However the workflows, the crashes and the printers interleave, the records keep
\* their shapes, a run in memory has a state and no node is tried more often than its
\* budget allows.
THEOREM WorkflowTypeCorrect ==
  ASSUME WorkflowAssumption PROVE Spec => []TypeOK
<1>1. ASSUME TypeInv PROVE TypeOK
  BY <1>1, Order DEF TypeInv, TypeOK, RunOK, AtRecord, After, Steps
<1> QED
  BY <1>1, WorkflowTypes, PTL

-----------------------------------------------------------------------------
(* What is done once.  Between a node's work and its checkpoint the world is *)
(* ahead of the disk: a job or a print counts as soon as its node has the    *)
(* result "pass", and from then on as long as the checkpoint says so.        *)

Passed(w) == IF disk[w] = None THEN {} ELSE disk[w].passed
Suggested(w) == IF disk[w] = None THEN {} ELSE disk[w].suggested

\* The node has passed, and its result is not yet in the checkpoint.
Just(w, n) == at[w].pc = "save" /\ NodeOrder[at[w].idx] = n /\ at[w].outcome = "pass"
Count(w, n) == IF Done(w, n) \/ Just(w, n) THEN 1 ELSE 0

CountsOK(w) ==
  /\ jobs[w] <= faults[w] + Count(w, "enqueue")
  /\ starts[w] <= faults[w] + Count(w, "start_print")
  /\ faults[w] = 0 => jobs[w] = Count(w, "enqueue") /\ starts[w] = Count(w, "start_print")

\* A run on WorkflowGraph has the history of its checkpoint, and is at a node that
\* is not in it.
FollowsDisk(w) ==
  /\ at[w].runtime = "graph"
  /\ at[w].pc # "idle" => mem[w].passed = Passed(w) /\ mem[w].suggested = Suggested(w)
  /\ at[w].pc # "idle" /\ at[w].idx <= Steps => NodeOrder[at[w].idx] \notin mem[w].passed

OnceInv == \A w \in Workflow : FollowsDisk(w) /\ CountsOK(w)

LEMMA DoneIs ==
  ASSUME NEW w, NEW n PROVE Done(w, n) <=> n \in Passed(w) \ Suggested(w)
BY DEF Done, Passed, Suggested

\* What a node adds to the counts.
LEMMA WorkCounts ==
  ASSUME WorkflowAssumption, TypeInv, NEW w \in Workflow, Work(w)
  PROVE  /\ \A v \in Workflow \ {w} :
              jobs'[v] = jobs[v] /\ starts'[v] = starts[v] /\ faults'[v] = faults[v]
         /\ jobs'[w] = jobs[w] + IF Just(w, "enqueue")' THEN 1 ELSE 0
         /\ \/ /\ faults'[w] = faults[w]
               /\ starts'[w] = starts[w] + IF Just(w, "start_print")' THEN 1 ELSE 0
            \/ /\ faults'[w] = faults[w] + 1 /\ starts'[w] = starts[w] + 1
               /\ ~Just(w, "start_print")'
<1> DEFINE Goal ==
      /\ \A v \in Workflow \ {w} :
           jobs'[v] = jobs[v] /\ starts'[v] = starts[v] /\ faults'[v] = faults[v]
      /\ jobs'[w] = jobs[w] + IF Just(w, "enqueue")' THEN 1 ELSE 0
      /\ \/ /\ faults'[w] = faults[w]
            /\ starts'[w] = starts[w] + IF Just(w, "start_print")' THEN 1 ELSE 0
         \/ /\ faults'[w] = faults[w] + 1 /\ starts'[w] = starts[w] + 1
            /\ ~Just(w, "start_print")'
<1>1. ASSUME NEW n, Turn(w, n), NEW o \in Outcome, NEW s, Yield(w, o, s), NEW k
      PROVE  Just(w, k)' <=> k = n /\ o = "pass"
  <2>1. at' = [at EXCEPT ![w].pc = "save", ![w].outcome = o] /\ at[w] \in AtRecord
        /\ n = NodeOrder[at[w].idx]
    BY <1>1, TurnOK DEF Yield
  <2>2. at'[w].pc = "save" /\ at'[w].outcome = o /\ at'[w].idx = at[w].idx
    BY <2>1 DEF TypeInv, AtRecord
  <2> QED
    BY <2>1, <2>2 DEF Just
<1>2. ASSUME NEW n, Turn(w, n), Retried(w), NEW k PROVE ~Just(w, k)'
  <2>1. at'[w].pc = at[w].pc /\ at[w].pc = "node"
    BY <1>2, RetriedIs, TurnOK
  <2> QED
    BY <2>1 DEF Just
<1>3. \A o \in {"pass", "fail", "skip", "retry", "suggested"} : o \in Outcome
  BY DEF Outcome
<1>4. jobs \in [Workflow -> Nat] /\ starts \in [Workflow -> Nat]
      /\ faults \in [Workflow -> 0..MaxFaults]
  BY DEF TypeInv
<1>5. ASSUME UNCHANGED world, ~Just(w, "enqueue")', ~Just(w, "start_print")' PROVE Goal
  BY <1>4, <1>5 DEF world, WorkflowAssumption
<1> HIDE DEF Goal
<1>6. ASSUME NEW n \in Node, Escalate(w, n) PROVE Goal
  <2>1. Turn(w, n) /\ (Yield(w, "fail", mem[w]) \/ Yield(w, "suggested", mem[w]))
        /\ UNCHANGED world
    BY <1>6 DEF Escalate
  <2>2. \A k : ~Just(w, k)'
    BY <1>1, <1>3, <2>1
  <2> QED
    BY <1>5, <2>1, <2>2
<1>7. CASE Enqueue(w)
  <2>1. Turn(w, "enqueue") /\ Yield(w, "pass", mem[w])
    BY <1>7 DEF Enqueue
  <2>2. Just(w, "enqueue")' /\ ~Just(w, "start_print")'
    BY <1>1, <1>3, <2>1
  <2>3. jobs' = [jobs EXCEPT ![w] = @ + 1] /\ UNCHANGED <<starts, faults>>
    BY <1>7 DEF Enqueue
  <2> QED
    BY <1>4, <2>2, <2>3 DEF Goal, WorkflowAssumption
<1>8. ASSUME NEW n \in Node \ {"enqueue", "start_print"}, Turn(w, n), UNCHANGED world
      PROVE  Goal
  <2>1. CASE Retried(w)
    BY <1>2, <1>5, <1>8, <2>1
  <2>2. ASSUME NEW o \in Outcome, NEW s \in State, Yield(w, o, s) PROVE Goal
    BY <1>1, <1>5, <1>8, <2>2
  <2> QED
    BY <1>8, <2>1, <2>2, Results
<1>9. \A n \in {"truth_gate", "repair_if_needed", "auto_orient", "dispatch", "preflight", "slice",
                "analyze_gcode", "cost_estimate", "upload", "notify_started"} :
        n \in Node \ {"enqueue", "start_print"}
  <2>1. \A i \in {2, 3, 4, 5, 6, 7, 8, 9, 10, 12} : NodeOrder[i] \in Node \ {"enqueue", "start_print"}
    BY Names DEF Steps
  <2> QED
    BY <2>1 DEF NodeOrder
<1>10. CASE TruthGate(w) \/ RepairIfNeeded(w) \/ AutoOrient(w) \/ Dispatch(w) \/ Preflight(w)
            \/ Slice(w) \/ Inform(w)
  <2>1. UNCHANGED world
    BY <1>10
    DEF TruthGate, RepairIfNeeded, AutoOrient, Dispatch, Preflight, Slice, Inform
  <2>2. PICK n \in {"truth_gate", "repair_if_needed", "auto_orient", "dispatch", "preflight",
                    "slice", "analyze_gcode", "cost_estimate", "notify_started"} : Turn(w, n)
    BY <1>10
    DEF TruthGate, RepairIfNeeded, AutoOrient, Dispatch, Preflight, Slice, Inform
  <2>3. n \in Node \ {"enqueue", "start_print"}
    BY <1>9
  <2> QED
    BY <1>8, <2>1, <2>2, <2>3 DEF Goal
<1>11. CASE Upload(w)
  <2>1. Turn(w, "upload") /\ UNCHANGED <<jobs, starts, faults>>
    BY <1>11 DEF Upload
  <2>2. ~Just(w, "enqueue")' /\ ~Just(w, "start_print")'
    <3>1. CASE Retried(w)
      BY <1>2, <2>1, <3>1
    <3>2. ASSUME NEW o \in Outcome, NEW s \in State, Yield(w, o, s)
          PROVE  ~Just(w, "enqueue")' /\ ~Just(w, "start_print")'
      BY <1>1, <2>1, <3>2
    <3> QED
      BY <1>11, <3>1, <3>2, Results
  <2> QED
    BY <1>4, <2>1, <2>2 DEF Goal, WorkflowAssumption
<1>12. CASE StartPrint(w)
  <2>1. Turn(w, "start_print") /\ UNCHANGED jobs
    BY <1>12 DEF StartPrint
  <2>2. CASE \E o \in {"skip", "fail"} : Yield(w, o, mem[w]) /\ UNCHANGED <<starts, faults>>
    <3>1. ~Just(w, "enqueue")' /\ ~Just(w, "start_print")'
      BY <1>1, <1>3, <2>1, <2>2
    <3> QED
      BY <1>4, <2>1, <2>2, <3>1 DEF Goal, WorkflowAssumption
  <2>3. CASE /\ starts' = [starts EXCEPT ![w] = @ + 1]
             /\ Yield(w, "pass", mem[w]) /\ UNCHANGED faults
    <3>1. ~Just(w, "enqueue")' /\ Just(w, "start_print")'
      BY <1>1, <1>3, <2>1, <2>3
    <3> QED
      BY <1>4, <2>1, <2>3, <3>1 DEF Goal, WorkflowAssumption
  <2>4. CASE /\ starts' = [starts EXCEPT ![w] = @ + 1]
             /\ Yield(w, "fail", mem[w]) /\ faults' = [faults EXCEPT ![w] = @ + 1]
    <3>1. ~Just(w, "enqueue")' /\ ~Just(w, "start_print")'
      BY <1>1, <1>3, <2>1, <2>4
    <3> QED
      BY <1>4, <2>1, <2>4, <3>1 DEF Goal, WorkflowAssumption
  <2> QED
    BY <1>12, <2>2, <2>3, <2>4 DEF StartPrint
<1> QED
  BY <1>6, <1>7, <1>10, <1>11, <1>12 DEF Work, Goal

\* Saving the result of a node keeps its counts, and those of every other node.
LEMMA SaveCounts ==
  ASSUME WorkflowAssumption, TypeInv, NEW w \in Workflow, FollowsDisk(w), Save(w),
         NEW n \in {"enqueue", "start_print"}
  PROVE  Count(w, n)' = Count(w, n)
<1>1. PICK r \in State, s \in State :
        /\ r = Recorded(mem[w], NodeOrder[at[w].idx], at[w].outcome)
        /\ GoOn(w, s)
        /\ disk' = (IF at[w].runtime = "graph" THEN [disk EXCEPT ![w] = r] ELSE disk)
  BY SaveIs
<1>2. at[w].pc = "save" /\ mem[w] \in State /\ at[w].idx \in 1..Steps
  BY SaveIs
<1>3. disk'[w] = r /\ r # None
  BY <1>1 DEF FollowsDisk, TypeInv, WorkflowAssumption
<1>4. at'[w].pc = "node"
  BY <1>1, <1>2, GoOnIs
<1>5. /\ mem[w].passed = Passed(w) /\ mem[w].suggested = Suggested(w)
      /\ NodeOrder[at[w].idx] \notin mem[w].passed
  BY <1>2 DEF FollowsDisk
<1>6. Done(w, n)' <=> n \in r.passed \ r.suggested
  BY <1>3 DEF Done
<1>7. CASE n = NodeOrder[at[w].idx]
  <2>1. n \in r.passed \ r.suggested <=> at[w].outcome = "pass"
    BY <1>1, <1>2, <1>5, <1>7 DEF Recorded, State
  <2> QED
    BY <1>2, <1>4, <1>5, <1>6, <1>7, <2>1, DoneIs DEF Count, Just
<1>8. CASE n # NodeOrder[at[w].idx]
  <2>1. n \in r.passed \ r.suggested <=> n \in mem[w].passed \ mem[w].suggested
    BY <1>1, <1>2, <1>8 DEF Recorded, State
  <2> QED
    BY <1>2, <1>4, <1>5, <1>6, <1>8, <2>1, DoneIs DEF Count, Just
<1> QED
  BY <1>7, <1>8

\* After the runner has gone on, the run is at a node that has not passed.
LEMMA GoOnFollows ==
  ASSUME WorkflowAssumption, TypeInv, NEW w \in Workflow, NEW s \in State,
         at[w].pc # "idle", at[w].idx <= Steps, at[w].runtime = "graph", GoOn(w, s),
         disk'[w] # None, s.passed = disk'[w].passed, s.suggested = disk'[w].suggested
  PROVE  FollowsDisk(w)'
<1>1. /\ mem'[w] = s /\ at'[w].runtime = "graph" /\ at[w].idx + 1 \in 1..After
      /\ at'[w].idx = NextIndex(at[w].idx + 1, s, "graph")
  BY GoOnIs
<1>2. at'[w].idx <= Steps => NodeOrder[at'[w].idx] \notin s.passed
  BY <1>1, NextNode
<1> QED
  BY <1>1, <1>2 DEF FollowsDisk, Passed, Suggested

LEMMA OnceStep ==
  ASSUME WorkflowAssumption, Runtime = "graph", TypeInv, OnceInv,
         NEW w \in Workflow, Begin(w) \/ Resume(w) \/ Step(w)
  PROVE  OnceInv'
<1>1. FollowsDisk(w) /\ CountsOK(w) /\ w \in Workflow
  BY DEF OnceInv
<1>2. ASSUME \A v \in Workflow \ {w} :
                /\ mem'[v] = mem[v] /\ disk'[v] = disk[v] /\ at'[v] = at[v]
                /\ jobs'[v] = jobs[v] /\ starts'[v] = starts[v] /\ faults'[v] = faults[v],
             FollowsDisk(w)', CountsOK(w)'
      PROVE  OnceInv'
  <2>1. ASSUME NEW v \in Workflow \ {w} PROVE FollowsDisk(v)' /\ CountsOK(v)'
    BY <1>2, <2>1
    DEF OnceInv, FollowsDisk, CountsOK, Passed, Suggested, Count, Done, Just
  <2> QED
    BY <1>2, <2>1 DEF OnceInv
<1>3. ASSUME UNCHANGED world
      PROVE  \A v \in Workflow :
               jobs'[v] = jobs[v] /\ starts'[v] = starts[v] /\ faults'[v] = faults[v]
  BY <1>3 DEF world
<1>4. ASSUME UNCHANGED world, Count(w, "enqueue")' = Count(w, "enqueue"),
             Count(w, "start_print")' = Count(w, "start_print")
      PROVE  CountsOK(w)'
  BY <1>1, <1>4 DEF CountsOK, world
<1>5. CASE Begin(w) \/ Resume(w)
  <2>1. PICK s \in State : /\ Run(w, s, "graph", None)
                           /\ \/ disk[w] = None /\ \E dry \in BOOLEAN : s = NewState(dry)
                              \/ disk[w] # None /\ s = disk[w]
    BY <1>5, CallIs
  <2>2. at[w].pc = "idle" /\ UNCHANGED <<disk, world>>
    BY <1>5, CallIs
  <2>3. /\ \A v \in Workflow : mem'[v] = IF v = w THEN s ELSE mem[v]
        /\ \A v \in Workflow \ {w} : at'[v] = at[v]
        /\ at'[w].pc = "node" /\ at'[w].runtime = "graph"
        /\ at'[w].idx = NextIndex(1, s, "graph")
    BY <2>1, RunIs
  <2>4. s.passed = Passed(w) /\ s.suggested = Suggested(w)
    BY <2>1 DEF Passed, Suggested, NewState
  <2>5. at'[w].idx <= Steps => NodeOrder[at'[w].idx] \notin s.passed
    <3>1. 1 \in 1..After
      BY DEF After, Steps
    <3> QED
      BY <2>3, <3>1, NextNode
  <2>6. FollowsDisk(w)'
    BY <2>2, <2>3, <2>4, <2>5 DEF FollowsDisk, Passed, Suggested
  <2>7. CountsOK(w)'
    BY <1>4, <2>2, <2>3 DEF Count, Done, Just
  <2> QED
    BY <1>2, <1>3, <2>2, <2>3, <2>6, <2>7
<1>6. CASE Finish(w)
  <2>1. /\ mem' = [mem EXCEPT ![w] = None] /\ at' = [at EXCEPT ![w] = Idle]
        /\ UNCHANGED <<disk, world>> /\ at[w].pc = "node"
    BY <1>1, <1>6 DEF Finish, FollowsDisk
  <2>2. at'[w] = Idle /\ \A v \in Workflow \ {w} : at'[v] = at[v] /\ mem'[v] = mem[v]
    BY <2>1 DEF TypeInv
  <2>3. FollowsDisk(w)'
    BY <2>2 DEF FollowsDisk, Idle
  <2>4. CountsOK(w)'
    BY <1>4, <2>1, <2>2 DEF Count, Done, Just, Idle
  <2> QED
    BY <1>2, <1>3, <2>1, <2>2, <2>3, <2>4
<1>7. CASE Save(w)
  <2>1. PICK r \in State, s \in State :
          /\ SameButAborted(s, r) /\ GoOn(w, s)
          /\ disk' = (IF at[w].runtime = "graph" THEN [disk EXCEPT ![w] = r] ELSE disk)
    BY <1>7, SaveIs
  <2>2. UNCHANGED world /\ at[w].pc = "save" /\ at[w].idx <= Steps
    BY <1>7, SaveIs
  <2>3. disk'[w] = r /\ r # None /\ \A v \in Workflow \ {w} : disk'[v] = disk[v]
    BY <1>1, <2>1 DEF FollowsDisk, TypeInv, WorkflowAssumption
  <2>4. \A v \in Workflow \ {w} : at'[v] = at[v] /\ mem'[v] = mem[v]
    BY <2>1, <2>2, GoOnIs
  <2>5. FollowsDisk(w)'
    BY <1>1, <2>1, <2>2, <2>3, GoOnFollows DEF FollowsDisk, SameButAborted
  <2>6. CountsOK(w)'
    BY <1>1, <1>4, <1>7, <2>2, SaveCounts
  <2> QED
    BY <1>2, <1>3, <2>2, <2>3, <2>4, <2>5, <2>6
<1>8. CASE Skip(w)
  <2>1. PICK s \in State : SameButAborted(s, mem[w]) /\ GoOn(w, s)
    BY <1>8, SkipIs
  <2>2. UNCHANGED world /\ at[w].pc = "node" /\ at[w].idx <= Steps /\ mem[w] \in State
    BY <1>8, SkipIs
  <2>3. /\ disk'[w] = mem[w] /\ mem[w] # None
        /\ \A v \in Workflow \ {w} : disk'[v] = disk[v]
    BY <1>1, <1>8, <2>2, SkipIs DEF FollowsDisk, TypeInv, WorkflowAssumption
  <2>4. at'[w].pc = "node" /\ \A v \in Workflow \ {w} : at'[v] = at[v] /\ mem'[v] = mem[v]
    BY <2>1, <2>2, GoOnIs
  <2>5. FollowsDisk(w)'
    BY <1>1, <2>1, <2>2, <2>3, GoOnFollows DEF FollowsDisk, SameButAborted
  <2>6. \A n : Done(w, n)' <=> Done(w, n)
    <3>1. \A n : Done(w, n)' <=> n \in mem[w].passed \ mem[w].suggested
      BY <2>3 DEF Done
    <3> QED
      BY <1>1, <2>2, <3>1, DoneIs DEF FollowsDisk
  <2>7. CountsOK(w)'
    BY <1>4, <2>2, <2>4, <2>6 DEF Count, Just
  <2> QED
    BY <1>2, <1>3, <2>2, <2>3, <2>4, <2>5, <2>7
<1>9. CASE Work(w)
  <2>1. PICK k \in Node : Turn(w, k)
    BY <1>9, Results
  <2>2. at[w].pc = "node" /\ at[w].idx <= Steps
    BY <2>1, TurnOK
  <2>3. /\ disk' = disk /\ \A v \in Workflow \ {w} : at'[v] = at[v] /\ mem'[v] = mem[v]
        /\ at'[w].runtime = at[w].runtime /\ at'[w].idx = at[w].idx
        /\ mem'[w].passed = mem[w].passed /\ mem'[w].suggested = mem[w].suggested
    <3>1. CASE Retried(w)
      BY <3>1, RetriedIs DEF Retried, TypeInv
    <3>2. ASSUME NEW o \in Outcome, NEW s \in State, Yield(w, o, s), SameHistory(s, mem[w])
          PROVE  /\ disk' = disk /\ \A v \in Workflow \ {w} : at'[v] = at[v] /\ mem'[v] = mem[v]
                 /\ at'[w].runtime = at[w].runtime /\ at'[w].idx = at[w].idx
                 /\ mem'[w].passed = mem[w].passed /\ mem'[w].suggested = mem[w].suggested
      <4>1. /\ \A v \in Workflow : mem'[v] = IF v = w THEN s ELSE mem[v]
            /\ \A v \in Workflow \ {w} : at'[v] = at[v]
            /\ at'[w].idx = at[w].idx /\ at'[w].runtime = at[w].runtime
        BY <2>1, <3>2, YieldIs
      <4>2. disk' = disk
        BY <3>2 DEF Yield
      <4> QED
        BY <3>2, <4>1, <4>2 DEF SameHistory
    <3> QED
      BY <1>9, <3>1, <3>2, Results
  <2>4. FollowsDisk(w)'
    BY <1>1, <2>2, <2>3 DEF FollowsDisk, Passed, Suggested
  <2>5. \A n : ~Just(w, n) /\ (Done(w, n)' <=> Done(w, n))
    BY <2>2, <2>3 DEF Just, Done
  <2>6. \A n : Just(w, n)' => ~Done(w, n)
    <3>1. NodeOrder[at[w].idx] \notin Passed(w)
      BY <1>1, <2>2 DEF FollowsDisk
    <3> QED
      BY <2>3, <3>1, DoneIs DEF Just
  <2>7. CountsOK(w)'
    BY <1>1, <1>9, <2>5, <2>6, WorkCounts DEF CountsOK, Count, TypeInv, WorkflowAssumption
  <2> QED
    BY <1>2, <1>9, <2>3, <2>4, <2>7, WorkCounts
<1> QED
  BY <1>5, <1>6, <1>7, <1>8, <1>9 DEF Step, Runner, Work

LEMMA OnceInit ==
  ASSUME WorkflowAssumption, Runtime = "graph", Init PROVE OnceInv
<1> SUFFICES ASSUME NEW w \in Workflow PROVE FollowsDisk(w) /\ CountsOK(w)
  BY DEF OnceInv
<1>1. /\ at[w].pc = "idle" /\ at[w].runtime = "graph" /\ disk[w] = None
      /\ jobs[w] = 0 /\ starts[w] = 0 /\ faults[w] = 0
  BY DEF Init, Idle
<1> QED
  BY <1>1 DEF FollowsDisk, CountsOK, Count, Done, Just

LEMMA OnceNext ==
  ASSUME WorkflowAssumption, Runtime = "graph", TypeInv, OnceInv, [Next]_vars PROVE OnceInv'
<1>1. ASSUME NEW p \in Printer, PrintEnds(p) PROVE OnceInv'
  BY <1>1 DEF PrintEnds, OnceInv, FollowsDisk, CountsOK, Passed, Suggested, Count, Done, Just
<1>2. CASE Crash
  <2> SUFFICES ASSUME NEW w \in Workflow PROVE FollowsDisk(w)' /\ CountsOK(w)'
    BY DEF OnceInv
  <2>1. at'[w].pc = "idle" /\ at'[w].runtime = "graph"
    BY <1>2 DEF Crash, Idle
  <2>2. UNCHANGED <<disk, jobs, starts>>
        /\ faults'[w] = faults[w] + (IF at[w].pc = "save" THEN 1 ELSE 0)
    BY <1>2 DEF Crash
  <2>3. FollowsDisk(w)'
    BY <2>1 DEF FollowsDisk
  <2>4. \A n : ~Just(w, n)' /\ (Done(w, n)' <=> Done(w, n)) /\ (Just(w, n) => at[w].pc = "save")
    BY <2>1, <2>2 DEF Just, Done
  <2>5. CountsOK(w) /\ jobs[w] \in Nat /\ starts[w] \in Nat /\ faults[w] \in Nat
    BY DEF OnceInv, TypeInv, WorkflowAssumption
  <2>6. CountsOK(w)'
    BY <2>2, <2>4, <2>5 DEF CountsOK, Count
  <2> QED
    BY <2>3, <2>6
<1>3. CASE UNCHANGED vars
  BY <1>3
  DEF vars, world, OnceInv, FollowsDisk, CountsOK, Passed, Suggested, Count, Done, Just
<1> QED
  BY <1>1, <1>2, <1>3, OnceStep DEF Next

LEMMA WorkflowCounts ==
  ASSUME WorkflowAssumption, Runtime = "graph" PROVE Spec => []OnceInv
BY OnceInit, OnceNext, WorkflowTypes, PTL DEF Spec

\* On WorkflowGraph, a workflow is queued once and printed once, and once more for each
\* crash between a node's work and its checkpoint and each reply lost, however many
\* times it fails and is resumed.
THEOREM OncePerFaultHolds ==
  ASSUME WorkflowAssumption, Runtime = "graph" PROVE Spec => []OncePerFault
<1>1. ASSUME TypeInv, OnceInv PROVE OncePerFault
  <2> SUFFICES ASSUME NEW w \in Workflow
               PROVE  jobs[w] <= 1 + faults[w] /\ starts[w] <= 1 + faults[w]
    BY DEF OncePerFault
  <2>1. jobs[w] \in Nat /\ starts[w] \in Nat /\ faults[w] \in Nat /\ CountsOK(w)
    BY <1>1 DEF TypeInv, OnceInv, WorkflowAssumption
  <2>2. Count(w, "enqueue") \in {0, 1} /\ Count(w, "start_print") \in {0, 1}
    BY DEF Count
  <2> QED
    BY <2>1, <2>2 DEF CountsOK
<1> QED
  BY <1>1, WorkflowTypes, WorkflowCounts, PTL

\* On WorkflowGraph, the checkpoint of a workflow that has met no such fault says
\* exactly what the workflow has put into the queue and started.
THEOREM CheckpointIsTrue ==
  ASSUME WorkflowAssumption, Runtime = "graph" PROVE Spec => []CheckpointTellsWorld
<1>1. ASSUME OnceInv PROVE CheckpointTellsWorld
  BY <1>1 DEF OnceInv, CountsOK, Count, Just, CheckpointTellsWorld
<1> QED
  BY <1>1, WorkflowCounts, PTL

-----------------------------------------------------------------------------
(* What is printed.  The mesh of a state that has passed the gate is fit to   *)
(* print, and a preflight that passed by itself found the gate passed; neither *)
(* changes afterwards, whatever is run again.                                 *)

Fit(q, s) == q = "sound" \/ (q = "fixable" /\ s.mesh = "repaired")
Checked(q, s) ==
  /\ s.gated => Fit(q, s)
  /\ "preflight" \in s.passed => s.gated \/ "preflight" \in s.suggested

\* At preflight, PASS means that the gate has passed; past it, the run either has
\* preflight in its history or is aborted.
PreflightOK(w) ==
  /\ at[w].pc = "save" /\ at[w].idx = 6 =>
       at[w].outcome \in {"pass", "fail", "suggested"} /\ (at[w].outcome = "pass" => mem[w].gated)
  /\ at[w].pc # "idle" /\ at[w].idx > 6 => mem[w].aborted \/ "preflight" \in mem[w].passed

CheckInv ==
  \A w \in Workflow :
    /\ mem[w] # None => Checked(quality[w], mem[w])
    /\ disk[w] # None => Checked(quality[w], disk[w])
    /\ at[w].origin # None => Checked(quality[w], at[w].origin)
    /\ PreflightOK(w)

\* A result that keeps the checks.
KeepsChecks(w, o, s) ==
  /\ Yield(w, o, s) /\ SameHistory(s, mem[w]) /\ Checked(quality[w], s)
  /\ at[w].idx = 6 => o \in {"pass", "fail", "suggested"} /\ (o = "pass" => s.gated)

LEMMA WorkKeepsChecks ==
  ASSUME WorkflowAssumption, TypeInv, NEW w \in Workflow, Work(w), Checked(quality[w], mem[w])
  PROVE  Retried(w) \/ \E o \in Outcome, s \in State : KeepsChecks(w, o, s)
<1> DEFINE Goal == Retried(w) \/ \E o \in Outcome, s \in State : KeepsChecks(w, o, s)
<1>1. ASSUME NEW n, Turn(w, n) PROVE mem[w] \in State /\ (at[w].idx = 6 <=> n = "preflight")
  <2>1. at[w].idx \in 1..Steps /\ n = NodeOrder[at[w].idx] /\ mem[w] \in State
    BY <1>1, TurnOK
  <2> QED
    BY <2>1, Order, Names
<1>2. ASSUME NEW o \in Outcome, NEW s \in State, KeepsChecks(w, o, s) PROVE Goal
  BY <1>2
<1> SUFFICES Goal
  OBVIOUS
<1> HIDE DEF Goal
<1>3. ASSUME NEW o \in Outcome, mem[w] \in State, Yield(w, o, mem[w]), at[w].idx # 6 PROVE Goal
  BY <1>2, <1>3 DEF KeepsChecks, SameHistory
<1>4. \A o \in {"pass", "fail", "skip", "retry", "suggested"} : o \in Outcome
  BY DEF Outcome
<1>5. ASSUME NEW s \in State, SameHistory(s, mem[w]), s.gated = mem[w].gated, s.mesh = mem[w].mesh
      PROVE  Checked(quality[w], s)
  BY <1>5 DEF Checked, Fit, SameHistory
<1>6. ASSUME NEW n \in Node, Escalate(w, n) PROVE Goal
  <2>1. PICK o \in {"fail", "suggested"} : Yield(w, o, mem[w])
    BY <1>6 DEF Escalate
  <2>2. mem[w] \in State /\ o \in Outcome
    BY <1>1, <1>4, <1>6, <2>1 DEF Escalate
  <2>3. KeepsChecks(w, o, mem[w])
    BY <2>1 DEF KeepsChecks, SameHistory
  <2> QED
    BY <1>2, <2>2, <2>3
<1>7. CASE Enqueue(w)
  BY <1>1, <1>3, <1>4, <1>7 DEF Enqueue
<1>8. CASE TruthGate(w)
  <2>1. Turn(w, "truth_gate") /\ mem[w] \in State /\ at[w].idx # 6
    BY <1>1, <1>8 DEF TruthGate
  <2> DEFINE passed == [mem[w] EXCEPT !.gated = TRUE]
             failed == [mem[w] EXCEPT !.gated = FALSE]
             repair == [mem[w] EXCEPT !.gated = FALSE, !.needsRepair = TRUE]
  <2>2. /\ passed \in State /\ SameHistory(passed, mem[w]) /\ passed.gated
        /\ passed.mesh = mem[w].mesh
        /\ failed \in State /\ SameHistory(failed, mem[w]) /\ ~failed.gated
        /\ repair \in State /\ SameHistory(repair, mem[w]) /\ ~repair.gated
    BY <2>1 DEF State, SameHistory
  <2>3. \/ Sound(w, mem[w]) /\ Yield(w, "pass", passed)
        \/ ~Sound(w, mem[w]) /\ Yield(w, "pass", repair)
        \/ ~Sound(w, mem[w]) /\ Yield(w, "fail", failed)
    BY <1>8 DEF TruthGate
  <2> HIDE DEF passed, failed, repair
  <2>4. Sound(w, mem[w]) <=> Fit(quality[w], mem[w])
    BY DEF Sound, Fit
  <2>5. Sound(w, mem[w]) => Checked(quality[w], passed)
    BY <2>2, <2>4 DEF Checked, Fit
  <2>6. ~Sound(w, mem[w]) => Checked(quality[w], repair) /\ Checked(quality[w], failed)
    BY <2>2, <2>4 DEF Checked, SameHistory
  <2> QED
    BY <1>2, <1>4, <2>1, <2>2, <2>3, <2>5, <2>6 DEF KeepsChecks
<1>9. CASE RepairIfNeeded(w)
  <2>1. Turn(w, "repair_if_needed") /\ mem[w] \in State /\ at[w].idx # 6
    BY <1>1, <1>9 DEF RepairIfNeeded
  <2> DEFINE repaired == [mem[w] EXCEPT !.mesh = "repaired", !.gated = TRUE]
  <2>2. repaired \in State /\ SameHistory(repaired, mem[w]) /\ repaired.gated
        /\ repaired.mesh = "repaired"
    BY <2>1 DEF State, SameHistory
  <2>3. \/ \E o \in {"skip", "fail"} : Yield(w, o, mem[w])
        \/ quality[w] # "broken" /\ Yield(w, "pass", repaired)
    BY <1>9 DEF RepairIfNeeded
  <2> HIDE DEF repaired
  <2>4. quality[w] \in {"sound", "fixable", "broken"}
    BY DEF TypeInv, Quality
  <2>5. quality[w] # "broken" => Checked(quality[w], repaired)
    BY <2>2, <2>4 DEF Checked, Fit
  <2> QED
    BY <1>2, <1>3, <1>4, <2>1, <2>2, <2>3, <2>5 DEF KeepsChecks
<1>10. CASE AutoOrient(w)
  BY <1>1, <1>3, <1>4, <1>10 DEF AutoOrient
<1>11. CASE Dispatch(w)
  <2>1. Turn(w, "dispatch") /\ mem[w] \in State /\ at[w].idx # 6
    BY <1>1, <1>11 DEF Dispatch
  <2>2. ASSUME NEW p \in Printer, Yield(w, "pass", [mem[w] EXCEPT !.printer = p]) PROVE Goal
    <3> DEFINE s == [mem[w] EXCEPT !.printer = p]
    <3>1. s \in State /\ SameHistory(s, mem[w]) /\ s.gated = mem[w].gated /\ s.mesh = mem[w].mesh
      BY <2>1 DEF State, SameHistory
    <3>2. Yield(w, "pass", s)
      BY <2>2
    <3> HIDE DEF s
    <3> QED
      BY <1>2, <1>4, <1>5, <2>1, <3>1, <3>2 DEF KeepsChecks
  <2> QED
    BY <1>3, <1>4, <1>11, <2>1, <2>2 DEF Dispatch
<1>12. CASE Preflight(w)
  <2>1. mem[w] \in State
    BY <1>1, <1>12 DEF Preflight
  <2>2. PICK o \in {"pass", "fail"} : Yield(w, o, mem[w]) /\ (o = "pass" => mem[w].gated)
    BY <1>12 DEF Preflight
  <2>3. KeepsChecks(w, o, mem[w])
    BY <2>2 DEF KeepsChecks, SameHistory
  <2> QED
    BY <1>2, <1>4, <2>1, <2>3
<1>13. CASE Slice(w)
  <2>1. Turn(w, "slice") /\ mem[w] \in State /\ at[w].idx # 6
    BY <1>1, <1>13 DEF Slice
  <2> DEFINE s == [mem[w] EXCEPT !.sliced = TRUE]
  <2>2. s \in State /\ SameHistory(s, mem[w]) /\ s.gated = mem[w].gated /\ s.mesh = mem[w].mesh
    BY <2>1 DEF State, SameHistory
  <2>3. Yield(w, "pass", s) \/ \E o \in {"skip", "fail"} : Yield(w, o, mem[w])
    BY <1>13 DEF Slice
  <2> HIDE DEF s
  <2> QED
    BY <1>2, <1>3, <1>4, <1>5, <2>1, <2>2, <2>3 DEF KeepsChecks
<1>14. CASE Inform(w)
  BY <1>1, <1>3, <1>4, <1>14 DEF Inform
<1>15. CASE Upload(w)
  <2>1. Turn(w, "upload") /\ mem[w] \in State /\ at[w].idx # 6
    BY <1>1, <1>15 DEF Upload
  <2> DEFINE s == [mem[w] EXCEPT !.item = TRUE]
  <2>2. s \in State /\ SameHistory(s, mem[w]) /\ s.gated = mem[w].gated /\ s.mesh = mem[w].mesh
    BY <2>1 DEF State, SameHistory
  <2>3. Again(w) \/ Yield(w, "pass", s) \/ \E o \in {"skip", "fail"} : Yield(w, o, mem[w])
    BY <1>15 DEF Upload
  <2> HIDE DEF s
  <2>4. ASSUME Again(w) PROVE Goal
    BY <1>3, <1>4, <2>1, <2>4 DEF Again, Retried, Goal
  <2> QED
    BY <1>2, <1>3, <1>4, <1>5, <2>1, <2>2, <2>3, <2>4 DEF KeepsChecks
<1>16. CASE StartPrint(w)
  <2>1. Turn(w, "start_print") /\ mem[w] \in State /\ at[w].idx # 6
    BY <1>1, <1>16 DEF StartPrint
  <2>2. \E o \in {"pass", "skip", "fail"} : Yield(w, o, mem[w])
    BY <1>16 DEF StartPrint
  <2> QED
    BY <1>3, <1>4, <2>1, <2>2
<1> QED
  BY <1>6, <1>7, <1>8, <1>9, <1>10, <1>11, <1>12, <1>13, <1>14, <1>15, <1>16 DEF Work

LEMMA RecordedChecked ==
  ASSUME NEW q, NEW s \in State, NEW i \in 1..Steps, NEW o \in Outcome, Checked(q, s),
         i = 6 => (o = "pass" => s.gated)
  PROVE  /\ Checked(q, Recorded(s, NodeOrder[i], o))
         /\ "preflight" \in s.passed => "preflight" \in Recorded(s, NodeOrder[i], o).passed
         /\ i = 6 /\ o \in {"pass", "suggested"} =>
              "preflight" \in Recorded(s, NodeOrder[i], o).passed
         /\ Recorded(s, NodeOrder[i], o).aborted = s.aborted
<1>1. (i = 6 <=> NodeOrder[i] = "preflight") /\ "preflight" # "repair_if_needed"
  BY Order, Names
<1> DEFINE n == NodeOrder[i]
           r == Recorded(s, n, o)
<1>2. r.gated = s.gated /\ r.mesh = s.mesh /\ r.aborted = s.aborted
  BY DEF Recorded, State
<1>3. n # "preflight" => /\ "preflight" \in r.passed <=> "preflight" \in s.passed
                         /\ "preflight" \in r.suggested <=> "preflight" \in s.suggested
  BY DEF Recorded, State
<1>4. n = "preflight" =>
        /\ o = "pass" => "preflight" \in r.passed
        /\ o = "suggested" => "preflight" \in r.passed /\ "preflight" \in r.suggested
        /\ o \notin {"pass", "suggested"} => r = s
        /\ "preflight" \in s.passed => "preflight" \in r.passed
  BY DEF Recorded, State
<1> HIDE DEF r
<1>5. Checked(q, r)
  <2>1. CASE i = 6
    BY <1>1, <1>2, <1>4, <2>1 DEF Checked, Fit
  <2>2. CASE i # 6
    BY <1>1, <1>2, <1>3, <2>2 DEF Checked, Fit
  <2> QED
    BY <2>1, <2>2
<1> QED
  BY <1>1, <1>2, <1>3, <1>4, <1>5 DEF r

LEMMA GoOnPast ==
  ASSUME WorkflowAssumption, TypeInv, NEW w \in Workflow, NEW s \in State,
         at[w].pc # "idle", at[w].idx <= Steps, GoOn(w, s),
         at[w].idx >= 6 => s.aborted \/ "preflight" \in s.passed
  PROVE  PreflightOK(w)'
<1>1. /\ mem'[w] = s /\ at'[w].pc = "node" /\ at[w].idx + 1 \in 1..After
      /\ at'[w].idx = NextIndex(at[w].idx + 1, s, at[w].runtime)
  BY GoOnIs
<1>2. at[w].idx \in 1..Steps /\ at[w].runtime \in {"graph", "langgraph"}
  BY DEF TypeInv, AtRecord, After, Steps
<1> DEFINE i == at[w].idx + 1
           j == NextIndex(i, s, at[w].runtime)
<1>3. at'[w].idx \in i..After /\ \A k \in i..(at'[w].idx - 1) : NodeOrder[k] \in s.passed
  <2>1. j \in i..After /\ \A k \in i..(j - 1) : NodeOrder[k] \in s.passed
    <3>1. i \in 1..After
      BY <1>1
    <3> HIDE DEF i
    <3> QED
      BY <1>2, <3>1, NextNode
  <2> HIDE DEF j
  <2>2. at'[w].idx = j
    BY <1>1 DEF j
  <2> QED
    BY <2>1, <2>2
<1>4. at'[w].idx > 6 /\ ~(at[w].idx >= 6) => NodeOrder[6] \in s.passed
  BY <1>2, <1>3 DEF After, Steps
<1> QED
  BY <1>1, <1>4, Order DEF PreflightOK

LEMMA RunPast ==
  ASSUME WorkflowAssumption, TypeInv, NEW w \in Workflow, NEW s \in State,
         NEW runtime \in {"graph", "langgraph"}, NEW origin \in State \cup {None},
         runtime = "langgraph" => origin \in State, Run(w, s, runtime, origin)
  PROVE  PreflightOK(w)'
<1>1. /\ mem'[w] = s /\ at'[w].pc = "node" /\ at'[w].idx = NextIndex(1, s, runtime)
  BY RunIs
<1>2. 1 \in 1..After
  BY DEF After, Steps
<1>3. at'[w].idx \in 1..After /\ \A k \in 1..(at'[w].idx - 1) : NodeOrder[k] \in s.passed
  BY <1>1, <1>2, NextNode
<1>4. at'[w].idx > 6 => NodeOrder[6] \in s.passed
  BY <1>3 DEF After, Steps
<1> QED
  BY <1>1, <1>4, Order DEF PreflightOK

\* What the invariant says of one workflow.
CheckOf(w) ==
  /\ mem[w] # None => Checked(quality[w], mem[w])
  /\ disk[w] # None => Checked(quality[w], disk[w])
  /\ at[w].origin # None => Checked(quality[w], at[w].origin)
  /\ PreflightOK(w)

LEMMA CheckFrame ==
  ASSUME CheckInv, NEW w \in Workflow, quality' = quality,
         \A v \in Workflow \ {w} : mem'[v] = mem[v] /\ disk'[v] = disk[v] /\ at'[v] = at[v],
         CheckOf(w)'
  PROVE  CheckInv'
BY DEF CheckInv, CheckOf, PreflightOK

LEMMA CheckStep ==
  ASSUME WorkflowAssumption, TypeInv, CheckInv,
         NEW w \in Workflow, Begin(w) \/ Resume(w) \/ Step(w)
  PROVE  CheckInv'
<1>1. CheckOf(w)
  BY DEF CheckInv, CheckOf
<1>2. CASE Begin(w) \/ Resume(w)
  <2>1. PICK s \in State : /\ Run(w, s, Runtime, Origin(s))
                           /\ \/ disk[w] = None /\ \E dry \in BOOLEAN : s = NewState(dry)
                              \/ disk[w] # None /\ s = disk[w]
    BY <1>2, CallIs
  <2>2. Checked(quality[w], s)
    BY <1>1, <2>1 DEF CheckOf, Checked, Fit, NewState
  <2>3. /\ Origin(s) \in State \cup {None} /\ (Runtime = "langgraph" => Origin(s) = s)
        /\ (Runtime = "graph" => Origin(s) = None) /\ Runtime \in {"graph", "langgraph"}
        /\ UNCHANGED <<quality, disk>>
    BY <1>2, CallIs
  <2>4. Origin(s) # None => Checked(quality[w], Origin(s))
    BY <2>2, <2>3
  <2>5. /\ mem'[w] = s /\ at'[w].origin = Origin(s)
        /\ \A v \in Workflow \ {w} : mem'[v] = mem[v] /\ at'[v] = at[v]
    BY <2>1, <2>3, RunIs
  <2>6. PreflightOK(w)'
    BY <2>1, <2>3, RunPast
  <2>7. CheckOf(w)'
    BY <1>1, <2>2, <2>3, <2>4, <2>5, <2>6 DEF CheckOf
  <2> QED
    BY <2>3, <2>5, <2>7, CheckFrame
<1>3. CASE Finish(w)
  <2>1. quality' = quality /\ at[w].pc = "node" /\ mem[w] \in State
    BY <1>3 DEF Finish, TypeInv, RunOK
  <2>2. CASE /\ mem' = [mem EXCEPT ![w] = None] /\ at' = [at EXCEPT ![w] = Idle]
             /\ disk' = IF at[w].runtime = "langgraph" THEN [disk EXCEPT ![w] = mem[w]] ELSE disk
    <3>1. /\ mem'[w] = None /\ at'[w] = Idle /\ (disk'[w] = disk[w] \/ disk'[w] = mem[w])
          /\ \A v \in Workflow \ {w} : mem'[v] = mem[v] /\ disk'[v] = disk[v] /\ at'[v] = at[v]
      BY <2>2 DEF TypeInv
    <3>2. CheckOf(w)'
      BY <1>1, <2>1, <3>1 DEF CheckOf, PreflightOK, Idle, WorkflowAssumption
    <3> QED
      BY <2>1, <3>1, <3>2, CheckFrame
  <2>3. CASE at[w].runtime = "langgraph" /\ Run(w, at[w].origin, "graph", None) /\ UNCHANGED disk
    <3>1. at[w].origin \in State
      BY <2>1, <2>3 DEF TypeInv, RunOK
    <3>2. Checked(quality[w], at[w].origin)
      BY <1>1, <3>1 DEF CheckOf, WorkflowAssumption
    <3>3. /\ mem'[w] = at[w].origin /\ at'[w].origin = None
          /\ \A v \in Workflow \ {w} : mem'[v] = mem[v] /\ at'[v] = at[v]
      BY <2>3, <3>1, RunIs
    <3>4. PreflightOK(w)'
      BY <2>3, <3>1, RunPast
    <3>5. CheckOf(w)'
      BY <1>1, <2>1, <2>3, <3>2, <3>3, <3>4 DEF CheckOf
    <3> QED
      BY <2>1, <2>3, <3>3, <3>5, CheckFrame
  <2> QED
    BY <1>3, <2>2, <2>3 DEF Finish
<1>4. CASE Save(w)
  <2>1. PICK r \in State, s \in State :
          /\ r = Recorded(mem[w], NodeOrder[at[w].idx], at[w].outcome)
          /\ SameButAborted(s, r) /\ (s.aborted <=> r.aborted \/ at[w].outcome = "fail")
          /\ GoOn(w, s)
          /\ disk' = (IF at[w].runtime = "graph" THEN [disk EXCEPT ![w] = r] ELSE disk)
    BY <1>4, SaveIs
  <2>2. /\ at[w].pc = "save" /\ at[w].idx \in 1..Steps /\ mem[w] \in State
        /\ at[w].outcome \in Outcome /\ quality' = quality
    BY <1>4, SaveIs
  <2>3. Checked(quality[w], mem[w]) /\ PreflightOK(w)
    BY <1>1, <2>2 DEF CheckOf, WorkflowAssumption
  <2>4. /\ Checked(quality[w], r) /\ r.aborted = mem[w].aborted
        /\ "preflight" \in mem[w].passed => "preflight" \in r.passed
        /\ at[w].idx = 6 /\ at[w].outcome \in {"pass", "suggested"} => "preflight" \in r.passed
    BY <2>1, <2>2, <2>3, RecordedChecked DEF PreflightOK
  <2>5. Checked(quality[w], s)
    BY <2>1, <2>4 DEF Checked, Fit, SameButAborted
  <2>6. at[w].idx >= 6 => s.aborted \/ "preflight" \in s.passed
    <3>1. CASE at[w].idx = 6
      BY <2>1, <2>2, <2>3, <2>4, <3>1 DEF PreflightOK, SameButAborted
    <3>2. CASE at[w].idx > 6
      BY <2>1, <2>2, <2>3, <2>4, <3>2 DEF PreflightOK, SameButAborted
    <3> QED
      BY <2>2, <3>1, <3>2
  <2>7. PreflightOK(w)'
    BY <2>1, <2>2, <2>6, GoOnPast
  <2>8. /\ mem'[w] = s /\ at'[w].origin = at[w].origin
        /\ \A v \in Workflow \ {w} : mem'[v] = mem[v] /\ at'[v] = at[v]
    BY <2>1, <2>2, GoOnIs
  <2>9. disk'[w] \in {disk[w], r} /\ \A v \in Workflow \ {w} : disk'[v] = disk[v]
    BY <2>1 DEF TypeInv
  <2>10. CheckOf(w)'
    BY <1>1, <2>2, <2>4, <2>5, <2>7, <2>8, <2>9 DEF CheckOf
  <2> QED
    BY <2>2, <2>8, <2>9, <2>10, CheckFrame
<1>5. CASE Skip(w)
  <2>1. PICK s \in State :
          /\ SameButAborted(s, mem[w])
          /\ s.aborted <=> mem[w].aborted \/ NodeOrder[at[w].idx] \in Required
          /\ GoOn(w, s)
    BY <1>5, SkipIs
  <2>2. /\ at[w].pc = "node" /\ at[w].idx \in 1..Steps /\ mem[w] \in State /\ quality' = quality
        /\ disk' = (IF at[w].runtime = "graph" THEN [disk EXCEPT ![w] = mem[w]] ELSE disk)
    BY <1>5, SkipIs
  <2>3. Checked(quality[w], mem[w]) /\ PreflightOK(w)
    BY <1>1, <2>2 DEF CheckOf, WorkflowAssumption
  <2>4. Checked(quality[w], s)
    BY <2>1, <2>3 DEF Checked, Fit, SameButAborted
  <2>5. at[w].idx >= 6 => s.aborted \/ "preflight" \in s.passed
    <3>1. at[w].idx = 6 => NodeOrder[at[w].idx] \in Required
      BY Order DEF Required
    <3> QED
      BY <2>1, <2>2, <2>3, <3>1 DEF PreflightOK, SameButAborted
  <2>6. PreflightOK(w)'
    BY <2>1, <2>2, <2>5, GoOnPast
  <2>7. /\ mem'[w] = s /\ at'[w].origin = at[w].origin
        /\ \A v \in Workflow \ {w} : mem'[v] = mem[v] /\ at'[v] = at[v]
    BY <2>1, <2>2, GoOnIs
  <2>8. disk'[w] \in {disk[w], mem[w]} /\ \A v \in Workflow \ {w} : disk'[v] = disk[v]
    BY <2>2 DEF TypeInv
  <2>9. CheckOf(w)'
    BY <1>1, <2>2, <2>3, <2>4, <2>6, <2>7, <2>8 DEF CheckOf
  <2> QED
    BY <2>2, <2>7, <2>8, <2>9, CheckFrame
<1>6. CASE Work(w)
  <2>1. PICK k \in Node : Turn(w, k)
    BY <1>6, Results
  <2>2. at[w].pc = "node" /\ mem[w] \in State
    BY <2>1, TurnOK
  <2>3. Checked(quality[w], mem[w])
    BY <1>1, <2>2 DEF CheckOf, WorkflowAssumption
  <2>4. CASE Retried(w)
    <3>1. /\ UNCHANGED <<quality, mem, disk>> /\ \A v \in Workflow \ {w} : at'[v] = at[v]
      BY <2>4 DEF Retried, TypeInv
    <3>2. /\ at'[w].pc = "node" /\ at'[w].idx = at[w].idx /\ at'[w].origin = at[w].origin
      BY <2>2, <2>4, RetriedIs
    <3>3. CheckOf(w)'
      BY <1>1, <2>2, <3>1, <3>2 DEF CheckOf, PreflightOK
    <3> QED
      BY <3>1, <3>3, CheckFrame
  <2>5. ASSUME NEW o \in Outcome, NEW s \in State, KeepsChecks(w, o, s) PROVE CheckInv'
    <3>1. Yield(w, o, s) /\ SameHistory(s, mem[w]) /\ Checked(quality[w], s)
          /\ (at[w].idx = 6 => o \in {"pass", "fail", "suggested"} /\ (o = "pass" => s.gated))
      BY <2>5 DEF KeepsChecks
    <3>2. UNCHANGED <<quality, disk>>
      BY <3>1 DEF Yield
    <3>3. /\ mem'[w] = s /\ at'[w].outcome = o /\ at'[w].idx = at[w].idx
          /\ at'[w].origin = at[w].origin
      BY <2>1, <3>1, YieldIs
    <3>4. \A v \in Workflow \ {w} : mem'[v] = mem[v] /\ at'[v] = at[v]
      BY <2>1, <3>1, YieldIs
    <3>5. PreflightOK(w)'
      BY <1>1, <2>2, <3>1, <3>3 DEF CheckOf, PreflightOK, SameHistory
    <3>6. CheckOf(w)'
      BY <1>1, <3>1, <3>2, <3>3, <3>5 DEF CheckOf
    <3> QED
      BY <3>2, <3>4, <3>6, CheckFrame
  <2> QED
    BY <1>6, <2>3, <2>4, <2>5, WorkKeepsChecks
<1> QED
  BY <1>2, <1>3, <1>4, <1>5, <1>6 DEF Step, Runner, Work

LEMMA CheckNext ==
  ASSUME WorkflowAssumption, TypeInv, CheckInv, [Next]_vars PROVE CheckInv'
<1>1. ASSUME NEW p \in Printer, PrintEnds(p) PROVE CheckInv'
  BY <1>1 DEF PrintEnds, CheckInv, PreflightOK
<1>2. CASE Crash
  <2> SUFFICES ASSUME NEW w \in Workflow PROVE CheckOf(w)'
    BY DEF CheckInv, CheckOf
  <2>1. mem'[w] = None /\ at'[w] = Idle /\ UNCHANGED <<quality, disk>>
    BY <1>2 DEF Crash
  <2> QED
    BY <2>1 DEF CheckInv, CheckOf, PreflightOK, Idle
<1>3. CASE UNCHANGED vars
  BY <1>3 DEF vars, CheckInv, PreflightOK
<1> QED
  BY <1>1, <1>2, <1>3, CheckStep DEF Next

LEMMA WorkflowChecks ==
  ASSUME WorkflowAssumption PROVE Spec => []CheckInv
<1>1. ASSUME Init PROVE CheckInv
  BY <1>1 DEF Init, CheckInv, PreflightOK, Idle
<1> QED
  BY <1>1, CheckNext, WorkflowTypes, PTL DEF Spec

\* On either runner, and however a workflow fails, is resumed or loses its process, a
\* print is started only of a mesh that is fit to print, on a printer that is not locked
\* and outside a dry run, unless the LLM's remedy was taken for the PASS of preflight.
THEOREM OnlyCheckedPrints ==
  ASSUME WorkflowAssumption PROVE Spec => OnlyCheckedPrintsStart
<1> DEFINE Start == \A w \in Workflow : Started(w) =>
         /\ mem[w].printer \notin Locked /\ ~mem[w].dry
         /\ "preflight" \notin mem[w].suggested => mem[w].gated /\ Sound(w, mem[w])
<1>1. ASSUME TypeInv, CheckInv, [Next]_vars PROVE [Start]_vars
  <2> SUFFICES ASSUME NEW w \in Workflow, Started(w)
               PROVE  /\ mem[w].printer \notin Locked /\ ~mem[w].dry
                      /\ "preflight" \notin mem[w].suggested => mem[w].gated /\ Sound(w, mem[w])
    OBVIOUS
  <2>1. \A v \in Workflow : starts[v] \in Nat /\ ~(starts[v] > starts[v])
    BY <1>1 DEF TypeInv
  <2>2. starts' # starts
    BY <2>1 DEF Started
  <2>3. PICK v \in Workflow : StartPrint(v)
    <3>1. \A v \in Workflow : ~Begin(v) /\ ~Resume(v) /\ ~Runner(v)
      BY <2>2 DEF Begin, Resume, Runner, Finish, Save, Skip, world
    <3>2. \A v \in Workflow : Step(v) => StartPrint(v)
      BY <2>2, <3>1 DEF Step, Escalate, Enqueue, TruthGate, RepairIfNeeded, AutoOrient,
                        Dispatch, Preflight, Slice, Inform, Upload, world
    <3>3. ~Crash /\ ~(\E p \in Printer : PrintEnds(p)) /\ ~UNCHANGED vars
      BY <2>2 DEF Crash, PrintEnds, vars, world
    <3> QED
      BY <1>1, <3>1, <3>2, <3>3 DEF Next
  <2>4. v = w
    BY <1>1, <2>2, <2>3 DEF StartPrint, Started, TypeInv
  <2>5. ~mem[w].dry /\ mem[w].printer \notin Locked
    BY <2>2, <2>3, <2>4 DEF StartPrint
  <2>6. Turn(w, "start_print")
    BY <2>3, <2>4 DEF StartPrint
  <2>7. /\ mem[w] \in State /\ at[w].pc = "node" /\ at[w].idx \in 1..Steps
        /\ NodeOrder[at[w].idx] = "start_print" /\ (at[w].idx # 1 => ~mem[w].aborted)
    BY <1>1, <2>6, TurnOK
  <2>8. at[w].idx = 11
    BY <2>7, Names
  <2>9. "preflight" \in mem[w].passed /\ Checked(quality[w], mem[w])
    BY <1>1, <2>7, <2>8 DEF CheckInv, PreflightOK, WorkflowAssumption
  <2> QED
    BY <2>5, <2>9 DEF Checked, Fit, Sound
<1> QED
  BY <1>1, WorkflowTypes, WorkflowChecks, PTL DEF Spec, OnlyCheckedPrintsStart
=============================================================================
