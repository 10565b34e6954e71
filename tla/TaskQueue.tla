------------------------------ MODULE TaskQueue ------------------------------
(***************************************************************************)
(* The orchestrator's task queue, a directory tree shared by threads and   *)
(* processes: services/queue_bridge.py, the poller and the persona         *)
(* executor that drive it, and the operator routes of agent_queue.py.      *)
(*                                                                         *)
(* A task is a JSON file <task>.json in one of four directories.  Every    *)
(* bridge function reads it, writes <task>.json.tmp beside it, replaces    *)
(* the file by the tmp and (but for heartbeat) moves it to the next        *)
(* directory.  Nothing locks: each of these is a step of the thread that   *)
(* runs the function, at[p].pc names the next one.  (A listing and the     *)
(* writing of a tmp file are one step each: the files are small.)          *)
(***************************************************************************)
EXTENDS Naturals, Sequences

CONSTANTS
  Task,           \* task ids, one file each, pending at the start
  Order,          \* the tasks by priority, as listings are gone over
  Persona,        \* the personas this backend runs
  Matching,       \* [Task -> SUBSET Persona]: those target_owner_pattern matches
  Audit,          \* tasks that have an automated executor
  Operator,       \* threads of the request pool
  Poller,         \* the thread of queue_poller
  Route,          \* the operations that the operators ask for
  None,           \* Python's None
  Absent,         \* no file
  Foreign,        \* an owner that is not one of our personas ("hermes/...")
  MaxClaims,      \* HERMES3D_QUEUE_MAX_CLAIMS_PER_TICK
  MaxExecute,     \* HERMES3D_PERSONA_EXEC_MAX_PER_TICK
  MaxEvents       \* bound on requests, foreign moves and crashes

ASSUME QueueAssumption ==
  /\ Order \in Seq(Task) /\ Task = {Order[i] : i \in DOMAIN Order}
  /\ Matching \in [Task -> SUBSET Persona]
  /\ Audit \subseteq Task
  /\ Poller \notin Operator
  /\ None \notin Persona \cup Task
  /\ Foreign \notin Persona \cup {None}
  /\ Absent \notin Persona \cup {None, Foreign}
  /\ MaxClaims \in Nat \ {0} /\ MaxExecute \in Nat \ {0} /\ MaxEvents \in Nat

VARIABLES
  file,           \* [Dir -> [Task -> File]]: the task files
  tmp,            \* [Dir -> [Task -> File]]: the .json.tmp beside them
  doc,            \* tasks whose handoff document is there, and substantial
  at,             \* the threads
  raced,          \* history: tasks on which two bridge functions have overlapped
  events          \* requests, foreign moves and crashes so far

vars == <<file, tmp, doc, at, raced, events>>
Thread == Operator \cup {Poller}

Dir == {"pending", "claimed", "done", "blocked"}

\* Of a file's body only claimed_by matters to anybody: a File is its owner.
Owner == Persona \cup {None, Foreign}
File == Owner \cup {Absent}

\* phase: what the thread is in the middle of, a single route call ("route") or
\* the heartbeats, executions or claims of a tick; todo: the listing it goes over;
\* left: how many more tasks the phase may take.
Idle == [pc |-> "idle", phase |-> "route", op |-> "none", task |-> None,
         persona |-> None, body |-> Absent, todo |-> << >>, left |-> 1]

Init ==
  /\ file = [d \in Dir |-> [t \in Task |-> IF d = "pending" THEN None ELSE Absent]]
  /\ tmp = [d \in Dir |-> [t \in Task |-> Absent]]
  /\ doc \in SUBSET Task
  /\ at = [p \in Thread |-> Idle]
  /\ raced = {}
  /\ events = 0

Set(p, r) == at' = [at EXCEPT ![p] = r]
Goto(p, pc) == at' = [at EXCEPT ![p].pc = pc]

\* list_tasks, sorted: every task with the owner that the directory has for it, Absent
\* where the task is not there; whoever goes over the listing passes that over.
Listing(d) == [i \in DOMAIN Order |-> [task |-> Order[i], owner |-> file[d][Order[i]]]]

-----------------------------------------------------------------------------
(* The bridge functions: heartbeat, claim, complete, block, release.        *)

Source(op) == IF op = "claim" THEN "pending" ELSE "claimed"
Target(op) ==
  IF op = "complete" THEN "done" ELSE IF op = "block" THEN "blocked"
  ELSE IF op = "release" THEN "pending" ELSE "claimed"

\* Mutant: the reason of a block goes to the wrong field.
Patched_ReasonIsOwner(op, body, persona) ==
  IF op = "claim" THEN persona ELSE IF op = "release" THEN None
  ELSE IF op = "block" THEN "reason" ELSE body

\* body.update(patch): a claim sets the owner, a release clears it.
Patched(op, body, persona) ==
  IF op = "claim" THEN persona ELSE IF op = "release" THEN None ELSE body

\* The thread goes on with its phase: the rest of the listing, left more tasks.
Resume(p, todo, left) ==
  Set(p, [Idle EXCEPT !.pc = "next", !.phase = at[p].phase, !.todo = todo, !.left = left])

\* A function returns or raises.  A route call is over then.  A heartbeat that
\* raises ends the tick, an execution that raises ends the executions.
Finish(p, raised) ==
  IF at[p].phase = "route" \/ (at[p].phase = "beat" /\ raised) THEN Set(p, Idle)
  ELSE Resume(p, IF at[p].phase = "run" /\ raised THEN << >> ELSE at[p].todo, at[p].left)

\* The tasks whose file a bridge function has read and has still to write or move.
Touched == {at[p].task : p \in {q \in Thread : at[q].pc \in {"write", "replace", "move"}}}

\* Mutant: complete, block and heartbeat do not compare the owner.
BridgeRead_AnyOwner(p) ==
  LET t == at[p].task   op == at[p].op   body == file[Source(op)][t] IN
  /\ at[p].pc = "read"
  /\ IF body = Absent THEN Finish(p, FALSE)
     ELSE at' = [at EXCEPT ![p].pc = "write", ![p].body = Patched(op, body, at[p].persona)]
  /\ raced' = raced \cup ({t} \cap Touched)
  /\ UNCHANGED <<file, tmp, doc, events>>

\* is_file, read_text and the owner check; claim and release look at no owner.
BridgeRead(p) ==
  LET t == at[p].task   op == at[p].op   body == file[Source(op)][t] IN
  /\ at[p].pc = "read"
  /\ IF body = Absent
     THEN Finish(p, FALSE)
     ELSE IF op \in {"claim", "release"} \/ at[p].persona \in {None, body}
     THEN at' = [at EXCEPT ![p].pc = "write", ![p].body = Patched(op, body, at[p].persona)]
     ELSE Finish(p, FALSE)
  /\ raced' = raced \cup ({t} \cap Touched)
  /\ UNCHANGED <<file, tmp, doc, events>>

\* tmp.write_text: whoever else writes that tmp overwrites it.
BridgeWrite(p) ==
  /\ at[p].pc = "write"
  /\ tmp' = [tmp EXCEPT ![Source(at[p].op)][at[p].task] = at[p].body]
  /\ Goto(p, "replace")
  /\ UNCHANGED <<file, doc, raced, events>>

\* Mutant: os.replace(file, tmp).
BridgeReplace_Swapped(p) ==
  LET d == Source(at[p].op)   t == at[p].task IN
  /\ at[p].pc = "replace"
  /\ IF file[d][t] = Absent
     THEN Finish(p, TRUE) /\ UNCHANGED <<file, tmp>>
     ELSE /\ tmp' = [tmp EXCEPT ![d][t] = file[d][t]]
          /\ file' = [file EXCEPT ![d][t] = Absent]
          /\ IF at[p].op = "heartbeat" THEN Finish(p, FALSE) ELSE Goto(p, "move")
  /\ UNCHANGED <<doc, raced, events>>

\* os.replace(tmp, file), which creates the file if another thread moved it away;
\* it raises if another thread replaced with the tmp first.
BridgeReplace(p) ==
  LET d == Source(at[p].op)   t == at[p].task IN
  /\ at[p].pc = "replace"
  /\ IF tmp[d][t] = Absent
     THEN Finish(p, TRUE) /\ UNCHANGED <<file, tmp>>
     ELSE /\ file' = [file EXCEPT ![d][t] = tmp[d][t]]
          /\ tmp' = [tmp EXCEPT ![d][t] = Absent]
          /\ IF at[p].op = "heartbeat" THEN Finish(p, FALSE) ELSE Goto(p, "move")
  /\ UNCHANGED <<doc, raced, events>>

\* Mutant: the file is copied to the next directory.
BridgeMove_Copy(p) ==
  LET op == at[p].op   t == at[p].task IN
  /\ at[p].pc = "move"
  /\ IF file[Source(op)][t] = Absent
     THEN Finish(p, TRUE) /\ UNCHANGED file
     ELSE /\ file' = [file EXCEPT ![Target(op)][t] = file[Source(op)][t]]
          /\ IF op = "claim" THEN Goto(p, "report") ELSE Finish(p, FALSE)
  /\ UNCHANGED <<tmp, doc, raced, events>>

\* _atomic_move, over whatever file is there.
BridgeMove(p) ==
  LET op == at[p].op   t == at[p].task IN
  /\ at[p].pc = "move"
  /\ IF file[Source(op)][t] = Absent
     THEN Finish(p, TRUE) /\ UNCHANGED file
     ELSE /\ file' = [file EXCEPT ![Source(op)][t] = Absent,
                                  ![Target(op)][t] = file[Source(op)][t]]
          /\ IF op = "claim" THEN Goto(p, "report") ELSE Finish(p, FALSE)
  /\ UNCHANGED <<tmp, doc, raced, events>>

\* claim_task reads the file back; None, if it is gone already, is a failed claim.
ClaimReport(p) ==
  /\ at[p].pc = "report"
  /\ IF at[p].phase = "claim" /\ file["claimed"][at[p].task] # Absent
     THEN Resume(p, at[p].todo, at[p].left - 1)
     ELSE Finish(p, FALSE)
  /\ UNCHANGED <<file, tmp, doc, raced, events>>

Bridge(p) ==
  BridgeRead(p) \/ BridgeWrite(p) \/ BridgeReplace(p) \/ BridgeMove(p) \/ ClaimReport(p)

-----------------------------------------------------------------------------
(* execute_one, for the task and the owner of the listing.                  *)

CallBridge(p, op) == at' = [at EXCEPT ![p].pc = "read", ![p].op = op]

\* A task without an executor or a valid handoff path is blocked; one whose handoff is there is completed.
ExecStart(p) ==
  /\ at[p].pc = "exec"
  /\ \/ at[p].task \notin Audit /\ CallBridge(p, "block")
     \/ at[p].task \in Audit \cap doc /\ CallBridge(p, "complete")
     \/ at[p].task \in Audit \ doc /\ Goto(p, "generate")
  /\ UNCHANGED <<file, tmp, doc, raced, events>>

\* Mutant: a failed generation leaves the task claimed.
ExecGenerate_LeaveClaimed(p) ==
  /\ at[p].pc = "generate"
  /\ Finish(p, FALSE) \/ Goto(p, "recheck")
  /\ UNCHANGED <<file, tmp, doc, raced, events>>

\* _generate_audit_markdown fails, or the handoff is looked for again.
ExecGenerate(p) ==
  /\ at[p].pc = "generate"
  /\ CallBridge(p, "block") \/ Goto(p, "recheck")
  /\ UNCHANGED <<file, tmp, doc, raced, events>>

\* _write_handoff_doc: the quality gate and the write may refuse.
ExecRecheck(p) ==
  /\ at[p].pc = "recheck"
  /\ IF at[p].task \in doc THEN CallBridge(p, "complete")
     ELSE CallBridge(p, "block") \/ Goto(p, "publish")
  /\ UNCHANGED <<file, tmp, doc, raced, events>>

ExecPublish(p) ==
  /\ at[p].pc = "publish"
  /\ \/ doc' = doc \cup {at[p].task} /\ CallBridge(p, "complete")
     \/ doc' = doc /\ CallBridge(p, "block")
  /\ UNCHANGED <<file, tmp, raced, events>>

Execute(p) == ExecStart(p) \/ ExecGenerate(p) \/ ExecRecheck(p) \/ ExecPublish(p)

-----------------------------------------------------------------------------
(* tick_once: heartbeats, executions, claims, each over a fresh listing.    *)

Tick ==
  /\ at[Poller] = Idle
  /\ Set(Poller, [Idle EXCEPT !.pc = "next", !.phase = "beat", !.todo = Listing("claimed")])
  /\ UNCHANGED <<file, tmp, doc, raced, events>>

\* What a phase does with a task of the listing: nothing, or the operations of as.
Take(p, op, pc, as) ==
  LET i == Head(at[p].todo) IN
  IF as = {} THEN at' = [at EXCEPT ![p].todo = Tail(@)]
  ELSE \E q \in as :
         at' = [at EXCEPT ![p].todo = Tail(@), ![p].op = op, ![p].pc = pc,
                          ![p].task = i.task, ![p].persona = q,
                          ![p].left = IF pc = "exec" THEN @ - 1 ELSE @]

\* Our claims are heartbeat, then executed; a pending task goes to a persona that
\* its pattern matches.
NextItem(p) ==
  /\ at[p].pc = "next" /\ at[p].todo # << >> /\ at[p].left > 0
  /\ LET i == Head(at[p].todo) IN
       \/ at[p].phase = "beat" /\ Take(p, "heartbeat", "read", {i.owner} \cap Persona)
       \/ at[p].phase = "run" /\ Take(p, "none", "exec", {i.owner} \cap Persona)
       \/ at[p].phase = "claim"
          /\ Take(p, "claim", "read", IF i.owner = Absent THEN {} ELSE Matching[i.task])
  /\ UNCHANGED <<file, tmp, doc, raced, events>>

\* The listing is done, or the limit reached: the poller goes on to its next phase.
NextPhase(p) ==
  /\ at[p].pc = "next" /\ (at[p].todo = << >> \/ at[p].left = 0)
  /\ \/ /\ at[p].phase = "beat"
        /\ Set(p, [Idle EXCEPT !.pc = "next", !.phase = "run", !.todo = Listing("claimed"),
                               !.left = MaxExecute])
     \/ /\ at[p].phase = "run" /\ p = Poller
        /\ Set(p, [Idle EXCEPT !.pc = "next", !.phase = "claim", !.todo = Listing("pending"),
                               !.left = MaxClaims])
     \/ /\ at[p].phase = "claim" \/ p # Poller
        /\ Set(p, Idle)
  /\ UNCHANGED <<file, tmp, doc, raced, events>>

-----------------------------------------------------------------------------
(* The operator routes, the other users of the tree, and a crash.           *)

Request(p, r) ==
  /\ at[p] = Idle /\ events < MaxEvents
  /\ events' = events + 1
  /\ Set(p, r)
  /\ UNCHANGED <<file, tmp, doc, raced>>

Call(op, t, q) == [Idle EXCEPT !.pc = "read", !.op = op, !.task = t, !.persona = q]

\* claim checks the pattern, complete needs a persona, block may name one.
ClaimRoute(p) ==
  \E t \in Task : \E q \in Matching[t] : file["pending"][t] # Absent /\ Request(p, Call("claim", t, q))

CompleteRoute(p) == \E t \in Task, q \in Persona : Request(p, Call("complete", t, q))

BlockRoute(p) == \E t \in Task, q \in Persona \cup {None} : Request(p, Call("block", t, q))

ReleaseRoute(p) == \E t \in Task : Request(p, Call("release", t, None))

ExecuteRoute(p) ==
  Request(p, [Idle EXCEPT !.pc = "next", !.phase = "run", !.todo = Listing("claimed"),
                          !.left = MaxExecute])

Routes(p) ==
  \/ "claim" \in Route /\ ClaimRoute(p)
  \/ "complete" \in Route /\ CompleteRoute(p)
  \/ "block" \in Route /\ BlockRoute(p)
  \/ "release" \in Route /\ ReleaseRoute(p)
  \/ "execute-now" \in Route /\ ExecuteRoute(p)

\* Another agent takes a task through the MCP server, which reads the same tree.
ForeignClaim(t) ==
  /\ "foreign" \in Route /\ events < MaxEvents
  /\ raced' = raced \cup ({t} \cap Touched)
  /\ file["pending"][t] # Absent
  /\ file' = [file EXCEPT !["pending"][t] = Absent,
                          !["claimed"][t] = Foreign]
  /\ events' = events + 1
  /\ UNCHANGED <<tmp, doc, at>>

\* A person writes the handoff document.
HandoffWritten(t) ==
  /\ "foreign" \in Route /\ events < MaxEvents
  /\ doc' = doc \cup {t}
  /\ events' = events + 1
  /\ UNCHANGED <<file, tmp, at, raced>>

\* The process stops and starts again: the tree is all that is left.
Restart ==
  /\ "restart" \in Route /\ events < MaxEvents
  /\ at' = [p \in Thread |-> Idle]
  /\ events' = events + 1
  /\ UNCHANGED <<file, tmp, doc, raced>>

Step(p) == Bridge(p) \/ Execute(p) \/ NextItem(p) \/ NextPhase(p)

Next ==
  \/ \E p \in Thread : Step(p)
  \/ Tick
  \/ \E p \in Operator : Routes(p)
  \/ \E t \in Task : ForeignClaim(t) \/ HandoffWritten(t)
  \/ Restart

Spec == Init /\ [][Next]_vars

\* run_forever ticks again and again and a call that began goes on: file I/O, or
\* the LLM with its timeout.
Fairness == WF_vars(Tick) /\ \A p \in Thread : WF_vars(Step(p))

FairSpec == Spec /\ Fairness

-----------------------------------------------------------------------------
(* Properties. *)

\* The variables keep the shapes above.
TypeOK ==
  /\ file \in [Dir -> [Task -> File]]
  /\ tmp \in [Dir -> [Task -> File]]
  /\ doc \subseteq Task /\ raced \subseteq Task
  /\ \A p \in Thread :
       /\ at[p].op \in {"none", "heartbeat", "claim", "complete", "block", "release"}
       /\ at[p].task \in Task \cup {None}
       /\ at[p].persona \in Persona \cup {None}
       /\ at[p].body \in File
       /\ at[p].todo \in Seq([task : Task, owner : File])
       /\ at[p].left \in Nat

\* No interleaving loses a task: a file that is nowhere to be found is recreated by
\* the thread that replaces it.
NothingLost == \A t \in Task : \E d \in Dir : file[d][t] # Absent

\* The directory a file lives in is the task's state: a task is in one directory,
\* also after a crash between the replace and the move, unless two bridge functions
\* have overlapped on it.
OneCopy ==
  \A t \in Task \ raced : \E d \in Dir :
    file[d][t] # Absent /\ \A e \in Dir \ {d} : file[e][t] = Absent

\* A task that was released while the executor waited for its handoff, and that
\* another agent then claimed, is not moved by an executor with a stale listing.
ForeignIsLeftAlone ==
  [][\A t \in Task :
       /\ file["claimed"][t] = Foreign /\ t \notin raced
       /\ \E p \in Thread : at[p].task = t /\ at[p].phase # "route" /\ at'[p] # at[p]
       => file'["claimed"][t] = Foreign]_vars

\* "Tasks claimed by Hermes personas that never produce a deliverable" was the gap
\* the executor closes: a task claimed by a persona leaves claimed/, whatever the
\* LLM answers, and a pending one that matches a persona leaves pending/.
TasksMoveOn ==
  \A t \in Task :
    /\ (file["claimed"][t] \in Persona) ~> (file["claimed"][t] \notin Persona)
    /\ (file["pending"][t] # Absent /\ Matching[t] # {}) ~> (file["pending"][t] = Absent)

\* "concurrent claimers will see at most one succeed because the destination rename
\* is the linearization point": no two threads have moved one pending task.
OneClaimer ==
  \A p, q \in Thread :
    /\ at[p].pc = "report" /\ at[q].pc = "report" /\ at[p].task = at[q].task
    => p = q
=============================================================================
