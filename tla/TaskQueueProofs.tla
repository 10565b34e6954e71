--------------------------- MODULE TaskQueueProofs ---------------------------
(* Proofs about the task tree, for any number of threads: its variables keep  *)
(* their types, no interleaving loses a task, a task on which no two bridge   *)
(* functions overlapped is in one directory, and one that another agent has   *)
(* claimed is left to it.                                                     *)
EXTENDS TaskQueue, SequenceTheorems, TLAPS

-----------------------------------------------------------------------------
(* The tree and the threads are functions; nothing is said of their values. *)

Shape == file = [d \in Dir |-> [t \in Task |-> file[d][t]]]

\* One file is written, or one is moved.
Written(d, t, v) == file' = [file EXCEPT ![d][t] = v]
Moved(d, e, t, v) == file' = [file EXCEPT ![d][t] = Absent, ![e][t] = v]

LEMMA OneUpdate ==
  ASSUME Shape, NEW d \in Dir, NEW t, NEW v, Written(d, t, v)
  PROVE  /\ Shape'
         /\ \A e \in Dir, u \in Task :
              file'[e][u] = IF e = d /\ u = t THEN v ELSE file[e][u]
BY DEF Shape, Written

LEMMA TwoUpdates ==
  ASSUME Shape, NEW d \in Dir, NEW e \in Dir, NEW t, NEW v, Moved(d, e, t, v)
  PROVE  /\ Shape'
         /\ \A f \in Dir, u \in Task :
              file'[f][u] = IF u # t THEN file[f][u] ELSE IF f = e THEN v
                            ELSE IF f = d THEN Absent ELSE file[f][u]
BY DEF Shape, Moved

LEMMA Directories ==
  ASSUME NEW op PROVE Source(op) \in Dir /\ Target(op) \in Dir
BY DEF Source, Target, Dir

\* What each step does to the tree: nothing, or one of three things.
LEMMA TreeSteps ==
  ASSUME [Next]_vars
  PROVE  \/ UNCHANGED file
         \/ \E d \in Dir : \E t, v : v # Absent /\ Written(d, t, v)
         \/ \E d, e \in Dir : \E t, v : v # Absent /\ Moved(d, e, t, v)
<1> DEFINE Goal == \/ UNCHANGED file
                   \/ \E d \in Dir : \E t, v : v # Absent /\ Written(d, t, v)
                   \/ \E d, e \in Dir : \E t, v : v # Absent /\ Moved(d, e, t, v)
<1>1. ASSUME NEW p \in Thread, BridgeReplace(p) PROVE Goal
  <2> DEFINE d == Source(at[p].op)
             t == at[p].task
  <2>1. CASE tmp[d][t] = Absent
    BY <1>1, <2>1 DEF BridgeReplace
  <2>2. CASE tmp[d][t] # Absent
    <3>1. Written(d, t, tmp[d][t]) /\ d \in Dir
      BY <1>1, <2>2, Directories DEF BridgeReplace, Written
    <3> QED
      BY <2>2, <3>1
  <2> QED
    BY <2>1, <2>2
<1>2. ASSUME NEW p \in Thread, BridgeMove(p) PROVE Goal
  <2> DEFINE d == Source(at[p].op)
             e == Target(at[p].op)
             t == at[p].task
  <2>1. CASE file[d][t] = Absent
    BY <1>2, <2>1 DEF BridgeMove
  <2>2. CASE file[d][t] # Absent
    <3>1. Moved(d, e, t, file[d][t]) /\ d \in Dir /\ e \in Dir
      BY <1>2, <2>2, Directories DEF BridgeMove, Moved
    <3> QED
      BY <2>2, <3>1
  <2> QED
    BY <2>1, <2>2
<1>3. ASSUME NEW p \in Thread, Step(p) PROVE Goal
  <2>1. CASE BridgeRead(p) \/ BridgeWrite(p) \/ ClaimReport(p)
    BY <2>1 DEF BridgeRead, BridgeWrite, ClaimReport
  <2>2. CASE Execute(p) \/ NextItem(p) \/ NextPhase(p)
    BY <2>2 DEF Execute, ExecStart, ExecGenerate, ExecRecheck, ExecPublish, NextItem, NextPhase
  <2> QED
    BY <1>1, <1>2, <1>3, <2>1, <2>2 DEF Step, Bridge
<1>4. ASSUME NEW p \in Operator, Routes(p) PROVE Goal
  BY <1>4 DEF Routes, ClaimRoute, CompleteRoute, BlockRoute, ReleaseRoute, ExecuteRoute, Request
<1>5. CASE Tick \/ Restart \/ (\E t \in Task : HandoffWritten(t)) \/ UNCHANGED vars
  BY <1>5 DEF Tick, Restart, HandoffWritten, vars
<1>6. ASSUME NEW t \in Task, ForeignClaim(t) PROVE Goal
  <2>1. {"pending", "claimed"} \subseteq Dir /\ Foreign # Absent
    BY QueueAssumption DEF Dir
  <2> QED
    BY <1>6, <2>1 DEF ForeignClaim, Moved
<1> QED
  BY <1>3, <1>4, <1>5, <1>6 DEF Next

-----------------------------------------------------------------------------
\* A task file is only ever replaced or renamed, and a thread whose file was
\* renamed under its feet recreates it: whatever the threads do, every task has a
\* file.
THEOREM NoTaskLost == Spec => []NothingLost
<1>1. Init => Shape /\ NothingLost
  <2> SUFFICES ASSUME Init PROVE Shape /\ NothingLost
    OBVIOUS
  <2>1. Shape
    BY DEF Init, Shape
  <2>2. \A t \in Task : file["pending"][t] = None
    BY DEF Init, Dir
  <2> QED
    BY <2>1, <2>2, QueueAssumption DEF NothingLost, Dir
<1>2. Shape /\ NothingLost /\ [Next]_vars => (Shape /\ NothingLost)'
  <2> SUFFICES ASSUME Shape, NothingLost, [Next]_vars PROVE Shape' /\ NothingLost'
    OBVIOUS
  <2>1. CASE UNCHANGED file
    BY <2>1 DEF Shape, NothingLost
  <2>2. ASSUME NEW d \in Dir, NEW t, NEW v, v # Absent, Written(d, t, v)
        PROVE  Shape' /\ NothingLost'
    <3>1. /\ Shape'
          /\ \A f \in Dir, u \in Task : file'[f][u] = IF f = d /\ u = t THEN v ELSE file[f][u]
      BY <2>2, OneUpdate
    <3>2. ASSUME NEW u \in Task PROVE \E f \in Dir : file'[f][u] # Absent
      <4>1. PICK f \in Dir : file[f][u] # Absent
        BY DEF NothingLost
      <4> QED
        BY <2>2, <3>1, <4>1
    <3> QED
      BY <3>1, <3>2 DEF NothingLost
  <2>3. ASSUME NEW d \in Dir, NEW e \in Dir, NEW t, NEW v, v # Absent, Moved(d, e, t, v)
        PROVE  Shape' /\ NothingLost'
    <3>1. /\ Shape'
          /\ \A f \in Dir, u \in Task :
               file'[f][u] = IF u # t THEN file[f][u] ELSE IF f = e THEN v
                             ELSE IF f = d THEN Absent ELSE file[f][u]
      BY <2>3, TwoUpdates
    <3>2. ASSUME NEW u \in Task PROVE \E f \in Dir : file'[f][u] # Absent
      <4>1. PICK f \in Dir : file[f][u] # Absent
        BY DEF NothingLost
      <4>2. file'[f][u] # Absent \/ file'[e][u] # Absent
        BY <2>3, <3>1, <4>1
      <4> QED
        BY <4>2
    <3> QED
      BY <3>1, <3>2 DEF NothingLost
  <2> QED
    BY <2>1, <2>2, <2>3, TreeSteps
<1> QED
  BY <1>1, <1>2, PTL DEF Spec

-----------------------------------------------------------------------------
(* One copy of a task on which no two bridge functions overlapped.  The       *)
(* strengthening says that a thread between its read and its move still has   *)
(* its file where it read it, and is alone on it.                             *)

Record(r) == {"pc", "op", "task"} \subseteq DOMAIN r

Threads == at = [p \in Thread |-> at[p]] /\ \A p \in Thread : Record(at[p])

Busy(r) == r.pc \in {"write", "replace", "move"}

\* A thread that is busy with an unraced task.
Alone(p) ==
  Busy(at[p]) /\ at[p].task \in Task \ raced =>
    /\ file[Source(at[p].op)][at[p].task] # Absent
    /\ \A q \in Thread : Busy(at[q]) /\ at[q].task = at[p].task => q = p

CopyInv == Shape /\ Threads /\ OneCopy /\ \A p \in Thread : Alone(p)

\* Only thread p moves, and it is not busy afterwards.
Rests(p) == Threads' /\ ~Busy(at'[p]) /\ \A q \in Thread \ {p} : at'[q] = at[q]

\* How a thread's record changes.
LEMMA Records ==
  ASSUME NEW r, Record(r), NEW v
  PROVE  /\ Record([r EXCEPT !.pc = v])
         /\ [r EXCEPT !.pc = v].pc = v /\ [r EXCEPT !.pc = v].task = r.task
         /\ [r EXCEPT !.pc = v].op = r.op
BY DEF Record

LEMMA IdleRecords == Record(Idle) /\ ~Busy(Idle)
BY DEF Idle, Record, Busy

LEMMA GotoMoves ==
  ASSUME Threads, NEW p \in Thread, NEW pc, Goto(p, pc)
  PROVE  /\ Threads' /\ \A q \in Thread \ {p} : at'[q] = at[q]
         /\ at'[p].pc = pc /\ at'[p].task = at[p].task /\ at'[p].op = at[p].op
<1>1. at'[p] = [at[p] EXCEPT !.pc = pc] /\ \A q \in Thread \ {p} : at'[q] = at[q]
  BY DEF Goto, Threads
<1>2. at' = [q \in Thread |-> at'[q]]
  BY DEF Goto, Threads
<1> QED
  BY <1>1, <1>2, Records DEF Threads

LEMMA SetMoves ==
  ASSUME Threads, NEW p \in Thread, NEW r, Record(r), Set(p, r)
  PROVE  Threads' /\ at'[p] = r /\ \A q \in Thread \ {p} : at'[q] = at[q]
BY DEF Set, Threads

\* The end of a bridge function.
LEMMA FinishMoves ==
  ASSUME Threads, NEW p \in Thread, NEW raised, Finish(p, raised)
  PROVE  Rests(p)
<1>1. CASE Set(p, Idle)
  BY <1>1, SetMoves, IdleRecords DEF Rests
<1>2. ASSUME NEW todo, NEW left, Resume(p, todo, left)
      PROVE  Rests(p)
  <2> DEFINE r == [Idle EXCEPT !.pc = "next", !.phase = at[p].phase, !.todo = todo, !.left = left]
  <2>1. Record(r) /\ r.pc = "next"
    BY DEF Idle, Record
  <2>2. Set(p, r)
    BY <1>2 DEF Resume
  <2> HIDE DEF r
  <2> QED
    BY <2>1, <2>2, SetMoves DEF Busy, Rests
<1> QED
  BY <1>1, <1>2 DEF Finish

\* A step that leaves the tree alone, of a thread that is not busy after it, or as
\* busy as it was.
LEMMA QuietStep ==
  ASSUME CopyInv, UNCHANGED file, raced \subseteq raced', NEW p \in Thread, Threads',
         \A q \in Thread \ {p} : at'[q] = at[q],
         \/ ~Busy(at'[p])
         \/ Busy(at[p]) /\ at'[p].task = at[p].task /\ at'[p].op = at[p].op
  PROVE  CopyInv'
<1>1. Shape' /\ OneCopy'
  BY DEF CopyInv, Shape, OneCopy
<1>2. ASSUME NEW q \in Thread, Busy(at'[q]), at'[q].task \in Task \ raced'
      PROVE  /\ file[Source(at'[q].op)][at'[q].task] # Absent
             /\ \A o \in Thread : Busy(at'[o]) /\ at'[o].task = at'[q].task => o = q
  <2>1. Busy(at[q]) /\ at'[q].task = at[q].task /\ at'[q].op = at[q].op
    BY <1>2
  <2>2. \A o \in Thread : Busy(at'[o]) => Busy(at[o]) /\ at'[o].task = at[o].task
    OBVIOUS
  <2>3. Alone(q)
    BY DEF CopyInv
  <2> QED
    BY <1>2, <2>1, <2>2, <2>3 DEF Alone
<1>3. \A q \in Thread : Alone(q)'
  BY <1>2 DEF Alone, Busy
<1> QED
  BY <1>1, <1>3 DEF CopyInv

LEMMA RestingStep ==
  ASSUME CopyInv, UNCHANGED file, raced \subseteq raced', NEW p \in Thread, Rests(p)
  PROVE  CopyInv'
BY QuietStep DEF Rests

LEMMA GotoRests ==
  ASSUME Threads, NEW p \in Thread, NEW pc, pc \notin {"write", "replace", "move"}, Goto(p, pc)
  PROVE  Rests(p)
BY GotoMoves DEF Rests, Busy

LEMMA CallRests ==
  ASSUME Threads, NEW p \in Thread, NEW op, CallBridge(p, op)
  PROVE  Rests(p)
<1>1. at'[p] = [at[p] EXCEPT !.pc = "read", !.op = op] /\ \A q \in Thread \ {p} : at'[q] = at[q]
  BY DEF CallBridge, Threads
<1>2. at' = [q \in Thread |-> at'[q]]
  BY DEF CallBridge, Threads
<1>3. Record(at'[p]) /\ at'[p].pc = "read"
  BY <1>1 DEF Record, Threads
<1> QED
  BY <1>1, <1>2, <1>3 DEF Rests, Threads, Busy

\* Reading a file: the thread becomes busy, and whoever was makes the task raced.
LEMMA ReadStep ==
  ASSUME CopyInv, NEW p \in Thread, BridgeRead(p)
  PROVE  CopyInv'
<1> DEFINE op == at[p].op
           t == at[p].task
           body == file[Source(op)][t]
           read == [at[p] EXCEPT !.pc = "write", !.body = Patched(op, body, at[p].persona)]
<1>0. UNCHANGED file /\ raced' = raced \cup ({t} \cap Touched) /\ Threads
  BY DEF BridgeRead, CopyInv
<1>1. CASE Finish(p, FALSE)
  BY <1>0, <1>1, FinishMoves, RestingStep
<1>2. CASE body # Absent /\ at' = [at EXCEPT ![p] = read]
  <2>1. at'[p] = read /\ \A q \in Thread \ {p} : at'[q] = at[q]
    BY <1>0, <1>2 DEF Threads
  <2>2. Record(read) /\ read.task = t /\ read.op = op
    BY <1>0 DEF Threads, Record
  <2>3. Threads'
    BY <1>0, <1>2, <2>1, <2>2 DEF Threads
  <2>4. Shape' /\ OneCopy'
    BY <1>0 DEF CopyInv, Shape, OneCopy
  <2>5. ASSUME t \notin raced', NEW q \in Thread, Busy(at[q]) PROVE at[q].task # t
    BY <1>0, <2>5 DEF Touched, Busy
  <2>6. Alone(p)'
    BY <1>0, <1>2, <2>1, <2>2, <2>5 DEF Alone, Busy
  <2>7. ASSUME NEW q \in Thread \ {p} PROVE Alone(q)'
    <3>1. SUFFICES ASSUME Busy(at[q]), at[q].task \in Task \ raced'
                   PROVE  /\ file[Source(at[q].op)][at[q].task] # Absent
                          /\ \A o \in Thread : Busy(at'[o]) /\ at'[o].task = at[q].task => o = q
      BY <1>0, <2>1 DEF Alone, Busy
    <3>2. Alone(q) /\ at[q].task # t
      BY <3>1, <2>5 DEF CopyInv
    <3> QED
      BY <1>0, <2>1, <2>2, <3>1, <3>2 DEF Alone
  <2> QED
    BY <2>3, <2>4, <2>6, <2>7 DEF CopyInv
<1> QED
  BY <1>1, <1>2 DEF BridgeRead

\* The file of task t changes, in the hands of thread p or of another agent; other
\* tasks stay where they are and no other thread is busy with t unless t raced.
LEMMA OthersAlone ==
  ASSUME CopyInv, NEW t, raced \subseteq raced', NEW q \in Thread,
         at'[q] = at[q],
         \A f \in Dir, u \in Task : u # t => file'[f][u] = file[f][u],
         Busy(at[q]) /\ at[q].task \in Task \ raced' => at[q].task # t,
         \A o \in Thread : Busy(at'[o]) => Busy(at[o]) /\ at'[o].task = at[o].task
  PROVE  Alone(q)'
<1>1. SUFFICES ASSUME Busy(at[q]), at[q].task \in Task \ raced'
               PROVE  /\ file'[Source(at[q].op)][at[q].task] # Absent
                      /\ \A o \in Thread : Busy(at'[o]) /\ at'[o].task = at[q].task => o = q
  BY DEF Alone, Busy
<1>2. Alone(q) /\ at[q].task # t /\ at[q].task \in Task \ raced
  BY <1>1 DEF CopyInv
<1>3. file'[Source(at[q].op)][at[q].task] = file[Source(at[q].op)][at[q].task]
  BY <1>2, Directories
<1> QED
  BY <1>1, <1>2, <1>3 DEF Alone

\* Replacing a file that the thread read and nobody has moved since.
LEMMA ReplaceStep ==
  ASSUME CopyInv, NEW p \in Thread, BridgeReplace(p)
  PROVE  CopyInv'
<1> DEFINE op == at[p].op
           t == at[p].task
           d == Source(op)
           v == tmp[d][t]
<1>0. Threads /\ Shape /\ raced' = raced /\ at[p].pc = "replace" /\ d \in Dir
  BY Directories DEF BridgeReplace, CopyInv
<1>1. CASE UNCHANGED file /\ Finish(p, TRUE)
  BY <1>0, <1>1, FinishMoves, RestingStep
<1>2. CASE v # Absent /\ Written(d, t, v) /\ (Finish(p, FALSE) \/ Goto(p, "move"))
  <2>1. /\ Shape'
        /\ \A e \in Dir, u \in Task :
             file'[e][u] = IF e = d /\ u = t THEN v ELSE file[e][u]
    <3> HIDE DEF v, t, d
    <3> QED
      BY <1>0, <1>2, OneUpdate
  <2>2. /\ Threads' /\ \A q \in Thread \ {p} : at'[q] = at[q]
        /\ Busy(at'[p]) => at'[p].task = t /\ at'[p].op = op
    BY <1>0, <1>2, FinishMoves, GotoMoves DEF Rests
  <2>3. Busy(at[p]) /\ Alone(p)
    BY <1>0 DEF Busy, CopyInv
  <2>4. \A o \in Thread : Busy(at'[o]) => Busy(at[o]) /\ at'[o].task = at[o].task
    BY <2>2, <2>3
  <2>5. OneCopy'
    <3> SUFFICES ASSUME NEW u \in Task \ raced
                 PROVE  \E f \in Dir : file'[f][u] # Absent /\ \A e \in Dir \ {f} : file'[e][u] = Absent
      BY <1>0 DEF OneCopy
    <3>1. PICK f \in Dir : file[f][u] # Absent /\ \A e \in Dir \ {f} : file[e][u] = Absent
      BY DEF CopyInv, OneCopy
    <3>2. u = t => f = d
      BY <1>0, <2>3, <3>1 DEF Alone
    <3> QED
      BY <1>2, <2>1, <3>1, <3>2
  <2>6. Alone(p)'
    <3> SUFFICES ASSUME Busy(at'[p]), t \in Task \ raced
                 PROVE  /\ file'[d][t] # Absent
                        /\ \A q \in Thread : Busy(at'[q]) /\ at'[q].task = t => q = p
      BY <1>0, <2>2 DEF Alone, Busy
    <3> QED
      BY <1>0, <1>2, <2>1, <2>3, <2>4 DEF Alone
  <2>7. ASSUME NEW q \in Thread \ {p} PROVE Alone(q)'
    <3>1. Busy(at[q]) /\ at[q].task \in Task \ raced' => at[q].task # t
      BY <1>0, <2>3 DEF Alone
    <3>2. \A f \in Dir, u \in Task : u # t => file'[f][u] = file[f][u]
      BY <2>1
    <3>3. raced \subseteq raced' /\ at'[q] = at[q]
      BY <1>0, <2>2
    <3> HIDE DEF t
    <3> QED
      BY <2>4, <3>1, <3>2, <3>3, OthersAlone
  <2> QED
    BY <2>1, <2>2, <2>5, <2>6, <2>7 DEF CopyInv
<1> QED
  BY <1>1, <1>2 DEF BridgeReplace, Written

\* A file moves from a directory to another: it was in the first only.
LEMMA MovedOneCopy ==
  ASSUME CopyInv, raced \subseteq raced', NEW d \in Dir, NEW e \in Dir, NEW t,
         t \in Task \ raced' => file[d][t] # Absent,
         \A f \in Dir, u \in Task :
           file'[f][u] = IF u # t THEN file[f][u] ELSE IF f = e THEN file[d][t]
                         ELSE IF f = d THEN Absent ELSE file[f][u]
  PROVE  OneCopy'
<1> SUFFICES ASSUME NEW u \in Task \ raced'
             PROVE  \E f \in Dir : file'[f][u] # Absent /\ \A g \in Dir \ {f} : file'[g][u] = Absent
  BY DEF OneCopy
<1>1. PICK f \in Dir : file[f][u] # Absent /\ \A g \in Dir \ {f} : file[g][u] = Absent
  BY DEF CopyInv, OneCopy
<1>2. CASE u # t
  BY <1>1, <1>2
<1>3. CASE u = t
  <2>1. f = d
    BY <1>1, <1>3
  <2>2. file'[e][u] # Absent /\ \A g \in Dir \ {e} : file'[g][u] = Absent
    BY <1>1, <1>3, <2>1
  <2> QED
    BY <2>2
<1> QED
  BY <1>2, <1>3

LEMMA MoveStep ==
  ASSUME CopyInv, NEW p \in Thread, BridgeMove(p)
  PROVE  CopyInv'
<1> DEFINE op == at[p].op
           t == at[p].task
           d == Source(op)
           e == Target(op)
           v == file[d][t]
<1>0. /\ Threads /\ Shape /\ raced' = raced /\ at[p].pc = "move"
      /\ d \in Dir /\ e \in Dir
  BY Directories DEF BridgeMove, CopyInv
<1>1. CASE UNCHANGED file /\ Finish(p, TRUE)
  BY <1>0, <1>1, FinishMoves, RestingStep
<1>2. CASE v # Absent /\ Moved(d, e, t, v) /\ (Finish(p, FALSE) \/ Goto(p, "report"))
  <2>1. /\ Shape'
        /\ \A f \in Dir, u \in Task :
             file'[f][u] = IF u # t THEN file[f][u] ELSE IF f = e THEN v
                           ELSE IF f = d THEN Absent ELSE file[f][u]
    <3> HIDE DEF v, t, d, e
    <3> QED
      BY <1>0, <1>2, TwoUpdates
  <2>2. Rests(p)
    BY <1>0, <1>2, FinishMoves, GotoRests
  <2>3. Alone(p) /\ Busy(at[p])
    BY <1>0 DEF Busy, CopyInv
  <2>4. OneCopy'
    BY <1>0, <1>2, <2>1, MovedOneCopy
  <2>5. ASSUME NEW q \in Thread \ {p} PROVE Alone(q)'
    <3>1. Busy(at[q]) /\ at[q].task \in Task \ raced' => at[q].task # t
      BY <1>0, <2>3 DEF Alone
    <3>2. \A f \in Dir, u \in Task : u # t => file'[f][u] = file[f][u]
      BY <2>1
    <3> QED
      BY <1>0, <2>2, <3>1, <3>2, OthersAlone DEF Rests
  <2>6. Alone(p)'
    BY <2>2 DEF Alone, Rests, Busy
  <2> QED
    BY <2>1, <2>2, <2>4, <2>5, <2>6 DEF CopyInv, Rests
<1> QED
  BY <1>1, <1>2 DEF BridgeMove, Moved

\* Another agent's claim: whoever was busy with the task has made it raced.
LEMMA ForeignStep ==
  ASSUME CopyInv, NEW t \in Task, ForeignClaim(t)
  PROVE  CopyInv'
<1> DEFINE d == "pending"
           e == "claimed"
<1>0. /\ Threads /\ Shape /\ raced' = raced \cup ({t} \cap Touched) /\ at' = at
      /\ d \in Dir /\ e \in Dir /\ file[d][t] # Absent /\ Foreign # Absent
  BY QueueAssumption DEF ForeignClaim, CopyInv, Dir
<1>1. Moved(d, e, t, Foreign)
  BY DEF ForeignClaim, Moved
<1>2. /\ Shape'
      /\ \A f \in Dir, u \in Task :
           file'[f][u] = IF u # t THEN file[f][u] ELSE IF f = e THEN Foreign
                         ELSE IF f = d THEN Absent ELSE file[f][u]
  <2> HIDE DEF d, e
  <2> QED
    BY <1>0, <1>1, TwoUpdates
<1>3. OneCopy'
  <2> SUFFICES ASSUME NEW u \in Task \ raced'
               PROVE  \E f \in Dir : file'[f][u] # Absent /\ \A g \in Dir \ {f} : file'[g][u] = Absent
    BY DEF OneCopy
  <2>1. PICK f \in Dir : file[f][u] # Absent /\ \A g \in Dir \ {f} : file[g][u] = Absent
    BY <1>0 DEF CopyInv, OneCopy
  <2>2. CASE u # t
    BY <1>2, <2>1, <2>2
  <2>3. CASE u = t
    <3>1. f = d
      BY <1>0, <2>1, <2>3
    <3>2. file'[e][u] # Absent /\ \A g \in Dir \ {e} : file'[g][u] = Absent
      BY <1>0, <1>2, <2>1, <2>3, <3>1
    <3> QED
      BY <1>0, <3>2
  <2> QED
    BY <2>2, <2>3
<1>4. ASSUME NEW q \in Thread PROVE Alone(q)'
  <2>1. Busy(at[q]) /\ at[q].task \in Task \ raced' => at[q].task # t
    BY <1>0 DEF Touched, Busy
  <2>2. \A f \in Dir, u \in Task : u # t => file'[f][u] = file[f][u]
    BY <1>2
  <2>3. raced \subseteq raced' /\ at'[q] = at[q]
    BY <1>0
  <2>4. \A o \in Thread : Busy(at'[o]) => Busy(at[o]) /\ at'[o].task = at[o].task
    BY <1>0
  <2> QED
    BY <2>1, <2>2, <2>3, <2>4, OthersAlone
<1> QED
  BY <1>0, <1>2, <1>3, <1>4 DEF CopyInv, Threads

\* A request, or a phase of the poller, starts with a record that is not busy.
LEMMA StartRests ==
  ASSUME Threads, NEW p \in Thread, NEW r, Record(r), r.pc \in {"idle", "next", "read"}, Set(p, r)
  PROVE  Rests(p)
BY SetMoves DEF Rests, Busy

LEMMA PhaseRests ==
  ASSUME Threads, NEW p \in Thread, NextPhase(p)
  PROVE  Rests(p)
<1>1. ASSUME NEW phase, NEW todo, NEW left,
             Set(p, [Idle EXCEPT !.pc = "next", !.phase = phase, !.todo = todo, !.left = left])
      PROVE  Rests(p)
  <2> DEFINE r == [Idle EXCEPT !.pc = "next", !.phase = phase, !.todo = todo, !.left = left]
  <2>1. Record(r) /\ r.pc = "next"
    BY DEF Idle, Record
  <2> HIDE DEF r
  <2> QED
    BY <1>1, <2>1, StartRests DEF r
<1>2. CASE Set(p, Idle)
  BY <1>2, StartRests DEF Idle, Record
<1> QED
  BY <1>1, <1>2 DEF NextPhase

LEMMA ItemRests ==
  ASSUME Threads, NEW p \in Thread, NextItem(p)
  PROVE  Rests(p)
<1>1. ASSUME NEW r, Set(p, r), Record(r), r.pc \in {"next", "read", "exec"}
      PROVE  Rests(p)
  BY <1>1, SetMoves DEF Rests, Busy
<1>2. ASSUME NEW op, NEW pc \in {"read", "exec"}, NEW as, Take(p, op, pc, as)
      PROVE  Rests(p)
  <2>1. CASE at' = [at EXCEPT ![p].todo = Tail(@)]
    <3> DEFINE r == [at[p] EXCEPT !.todo = Tail(@)]
    <3>1. Set(p, r)
      BY <2>1 DEF Set
    <3>2. Record(r) /\ r.pc = "next"
      BY DEF Record, Threads, NextItem
    <3> HIDE DEF r
    <3> QED
      BY <1>1, <3>1, <3>2
  <2>2. ASSUME NEW i, NEW q, NEW left,
               at' = [at EXCEPT ![p].todo = Tail(@), ![p].op = op, ![p].pc = pc,
                                ![p].task = i, ![p].persona = q, ![p].left = left]
        PROVE  Rests(p)
    <3> DEFINE r == [at[p] EXCEPT !.todo = Tail(@), !.op = op, !.pc = pc, !.task = i,
                                  !.persona = q, !.left = left]
    <3>1. Set(p, r)
      BY <2>2 DEF Set
    <3>2. Record(r) /\ r.pc = pc
      BY DEF Record, Threads
    <3> HIDE DEF r
    <3> QED
      BY <1>1, <1>2, <3>1, <3>2
  <2> QED
    BY <1>2, <2>1, <2>2 DEF Take
<1> QED
  BY <1>2 DEF NextItem

LEMMA RouteRests ==
  ASSUME Threads, NEW p \in Thread, Routes(p)
  PROVE  Rests(p)
<1>1. ASSUME NEW op, NEW t, NEW q, Set(p, Call(op, t, q)) PROVE Rests(p)
  <2>1. Record(Call(op, t, q)) /\ Call(op, t, q).pc = "read"
    BY DEF Call, Idle, Record
  <2> QED
    BY <1>1, <2>1, StartRests
<1>2. CASE ExecuteRoute(p)
  <2> DEFINE r == [Idle EXCEPT !.pc = "next", !.phase = "run", !.todo = Listing("claimed"),
                               !.left = MaxExecute]
  <2>1. Record(r) /\ r.pc = "next" /\ Set(p, r)
    BY <1>2 DEF Idle, Record, ExecuteRoute, Request
  <2> HIDE DEF r
  <2> QED
    BY <2>1, StartRests
<1> QED
  BY <1>1, <1>2 DEF Routes, ClaimRoute, CompleteRoute, BlockRoute, ReleaseRoute, Request

LEMMA ExecRests ==
  ASSUME Threads, NEW p \in Thread, Execute(p)
  PROVE  Rests(p)
BY CallRests, GotoRests DEF Execute, ExecStart, ExecGenerate, ExecRecheck, ExecPublish

LEMMA TickRests ==
  ASSUME Threads, Tick
  PROVE  Rests(Poller)
<1> DEFINE r == [Idle EXCEPT !.pc = "next", !.phase = "beat", !.todo = Listing("claimed")]
<1>1. Record(r) /\ r.pc = "next" /\ Set(Poller, r)
  BY DEF Idle, Record, Tick
<1> HIDE DEF r
<1> QED
  BY <1>1, StartRests DEF Thread

LEMMA CopySteps ==
  ASSUME CopyInv, [Next]_vars
  PROVE  CopyInv'
<1> USE DEF CopyInv
<1>1. ASSUME NEW p \in Thread, Bridge(p) PROVE CopyInv'
  <2>1. CASE BridgeWrite(p)
    <3>1. Threads' /\ \A q \in Thread \ {p} : at'[q] = at[q]
      BY <2>1, GotoMoves DEF BridgeWrite
    <3>2. Busy(at[p]) /\ at'[p].task = at[p].task /\ at'[p].op = at[p].op
      BY <2>1, GotoMoves DEF BridgeWrite, Busy
    <3> QED
      BY <2>1, <3>1, <3>2, QuietStep DEF BridgeWrite
  <2>2. CASE ClaimReport(p)
    <3>1. ASSUME NEW left, Resume(p, at[p].todo, left) PROVE Rests(p)
      <4> DEFINE r == [Idle EXCEPT !.pc = "next", !.phase = at[p].phase,
                                   !.todo = at[p].todo, !.left = left]
      <4>1. Record(r) /\ r.pc = "next" /\ Set(p, r)
        BY <3>1 DEF Idle, Record, Resume
      <4> HIDE DEF r
      <4> QED
        BY <4>1, StartRests
    <3>2. Rests(p)
      BY <2>2, <3>1, FinishMoves DEF ClaimReport
    <3> QED
      BY <2>2, <3>2, RestingStep DEF ClaimReport
  <2> QED
    BY <1>1, <2>1, <2>2, ReadStep, ReplaceStep, MoveStep DEF Bridge
<1>2. ASSUME NEW p \in Thread, Execute(p) \/ NextItem(p) \/ NextPhase(p) PROVE CopyInv'
  <2>1. Rests(p)
    BY <1>2, ExecRests, ItemRests, PhaseRests
  <2>2. UNCHANGED <<file, raced>>
    BY <1>2 DEF Execute, ExecStart, ExecGenerate, ExecRecheck, ExecPublish, NextItem, NextPhase
  <2> QED
    BY <2>1, <2>2, RestingStep
<1>3. ASSUME NEW p \in Operator, Routes(p) PROVE CopyInv'
  <2>1. Rests(p) /\ p \in Thread
    BY <1>3, RouteRests DEF Thread
  <2>2. UNCHANGED <<file, raced>>
    BY <1>3 DEF Routes, ClaimRoute, CompleteRoute, BlockRoute, ReleaseRoute, ExecuteRoute, Request
  <2> QED
    BY <2>1, <2>2, RestingStep
<1>4. CASE Tick
  BY <1>4, TickRests, RestingStep DEF Tick, Thread
<1>5. CASE Restart
  <2>1. UNCHANGED <<file, raced>> /\ at' = [p \in Thread |-> Idle]
    BY <1>5 DEF Restart
  <2>2. Threads' /\ \A p \in Thread : ~Busy(at'[p])
    BY <2>1, IdleRecords DEF Threads
  <2>3. Shape' /\ OneCopy'
    BY <2>1 DEF Shape, OneCopy
  <2> QED
    BY <2>2, <2>3 DEF Alone, Busy
<1>6. CASE UNCHANGED <<file, at, raced>>
  BY <1>6 DEF Shape, Threads, OneCopy, Alone
<1> QED
  BY <1>1, <1>2, <1>3, <1>4, <1>5, <1>6, ForeignStep DEF Next, Step, HandoffWritten, vars

LEMMA CopyInit ==
  ASSUME Init PROVE CopyInv
<1>1. Shape
  BY DEF Init, Shape
<1>2. Threads /\ \A p \in Thread : ~Busy(at[p])
  BY IdleRecords DEF Init, Threads
<1>3. \A t \in Task : /\ file["pending"][t] # Absent
                      /\ \A d \in Dir \ {"pending"} : file[d][t] = Absent
  BY QueueAssumption DEF Init, Dir
<1>4. OneCopy
  BY <1>3 DEF OneCopy, Dir
<1> QED
  BY <1>1, <1>2, <1>4 DEF CopyInv, Alone

-----------------------------------------------------------------------------
\* The directory a file lives in is the state of its task: as long as no two bridge
\* functions overlap on a task, and across crashes, it is in one directory.
THEOREM OneCopyEach == Spec => []OneCopy
<1>1. Init => CopyInv
  BY CopyInit
<1>2. CopyInv /\ [Next]_vars => CopyInv'
  BY CopySteps
<1>3. CopyInv => OneCopy
  BY DEF CopyInv
<1> QED
  BY <1>1, <1>2, <1>3, PTL DEF Spec

-----------------------------------------------------------------------------
(* Types                                                                    *)

Phase == {"route", "beat", "run", "claim"}
Op == {"none", "heartbeat", "claim", "complete", "block", "release"}
Between == {"idle", "next"}
Listings == Seq([task : Task, owner : File])

ThreadRecord ==
  [pc : Between \cup {"read", "write", "replace", "move", "report",
                      "exec", "generate", "recheck", "publish"},
   phase : Phase, op : Op, task : Task \cup {None}, persona : Persona \cup {None},
   body : File, todo : Listings, left : Nat]

\* A thread at work has a task, on behalf of a persona unless it serves a route, and
\* a claim is still within the limit.
AtWork(r) ==
  /\ r.pc \notin Between => r.task \in Task
  /\ r.pc \notin Between /\ r.phase # "route" => r.persona \in Persona /\ r.op # "release"
  /\ r.pc \notin Between /\ r.phase = "claim" => r.left > 0
  /\ r.op = "claim" => r.persona \in Persona

ThreadState == {r \in ThreadRecord : AtWork(r)}

TypeInv ==
  /\ file \in [Dir -> [Task -> File]] /\ tmp \in [Dir -> [Task -> File]]
  /\ doc \subseteq Task /\ raced \subseteq Task
  /\ at \in [Thread -> ThreadState]

LEMMA OwnersAreFiles ==
  /\ Owner \subseteq File /\ Absent \in File /\ None \in Owner /\ Foreign \in Owner
  /\ Persona \subseteq Owner
BY DEF Owner, File

LEMMA NextState ==
  ASSUME NEW phase \in Phase, NEW todo \in Listings, NEW left \in Nat
  PROVE  [Idle EXCEPT !.pc = "next", !.phase = phase, !.todo = todo, !.left = left] \in ThreadState
BY OwnersAreFiles DEF Idle, ThreadState, ThreadRecord, AtWork, Between, Op, Phase

LEMMA IdleState == Idle \in ThreadState
<1>1. << >> \in Listings
  BY DEF Listings
<1> QED
  BY <1>1, OwnersAreFiles DEF Idle, ThreadState, ThreadRecord, AtWork, Between, Op, Phase

LEMMA ListingState ==
  ASSUME TypeInv, NEW d \in Dir PROVE Listing(d) \in Listings
<1>1. Order \in Seq(Task) /\ Len(Order) \in Nat /\ DOMAIN Order = 1..Len(Order)
  BY QueueAssumption
<1>2. \A i \in 1..Len(Order) : [task |-> Order[i], owner |-> file[d][Order[i]]] \in [task : Task, owner : File]
  BY <1>1 DEF TypeInv
<1> QED
  BY <1>1, <1>2 DEF Listing, Listings

LEMMA SetState ==
  ASSUME TypeInv, NEW p \in Thread, NEW r \in ThreadState, Set(p, r)
  PROVE  at' \in [Thread -> ThreadState]
BY DEF Set, TypeInv

Working == {"read", "write", "replace", "move", "report", "exec", "generate", "recheck", "publish"}

LEMMA WorkingState ==
  ASSUME NEW r \in ThreadState, r.pc \notin Between, NEW pc \in Working
  PROVE  /\ [r EXCEPT !.pc = pc] \in ThreadState
         /\ \A op \in {"complete", "block"} : [r EXCEPT !.pc = pc, !.op = op] \in ThreadState
         /\ \A body \in File : [r EXCEPT !.pc = pc, !.body = body] \in ThreadState
<1>1. [r EXCEPT !.pc = pc] \in ThreadState
  BY DEF ThreadState, ThreadRecord, AtWork, Between, Working
<1>2. ASSUME NEW op \in {"complete", "block"} PROVE [r EXCEPT !.pc = pc, !.op = op] \in ThreadState
  BY DEF ThreadState, ThreadRecord, AtWork, Between, Working, Op
<1>3. ASSUME NEW body \in File PROVE [r EXCEPT !.pc = pc, !.body = body] \in ThreadState
  BY DEF ThreadState, ThreadRecord, AtWork, Between, Working
<1> QED
  BY <1>1, <1>2, <1>3

LEMMA GotoState ==
  ASSUME TypeInv, NEW p \in Thread, at[p].pc \notin Between, NEW pc \in Working, Goto(p, pc)
  PROVE  at' \in [Thread -> ThreadState]
<1>1. [at[p] EXCEPT !.pc = pc] \in ThreadState
  BY WorkingState DEF TypeInv
<1> QED
  BY <1>1 DEF Goto, TypeInv

LEMMA CallState ==
  ASSUME TypeInv, NEW p \in Thread, at[p].pc \notin Between, NEW op \in {"complete", "block"},
         CallBridge(p, op)
  PROVE  at' \in [Thread -> ThreadState]
<1>1. [at[p] EXCEPT !.pc = "read", !.op = op] \in ThreadState
  BY WorkingState DEF TypeInv, Working
<1>2. Set(p, [at[p] EXCEPT !.pc = "read", !.op = op])
  BY DEF CallBridge, Set, TypeInv
<1> QED
  BY <1>1, <1>2, SetState

LEMMA ResumeState ==
  ASSUME TypeInv, NEW p \in Thread, NEW todo \in Listings, NEW left \in Nat, Resume(p, todo, left)
  PROVE  at' \in [Thread -> ThreadState]
<1>1. at[p].phase \in Phase
  BY DEF TypeInv, ThreadState, ThreadRecord
<1> QED
  BY <1>1, NextState, SetState DEF Resume

LEMMA FinishState ==
  ASSUME TypeInv, NEW p \in Thread, NEW raised, Finish(p, raised)
  PROVE  at' \in [Thread -> ThreadState]
<1>1. << >> \in Listings /\ at[p].todo \in Listings /\ at[p].left \in Nat
  <2>1. << >> \in Listings
    BY DEF Listings
  <2> QED
    BY <2>1 DEF TypeInv, ThreadState, ThreadRecord
<1>2. Set(p, Idle) \/ \E todo \in Listings : Resume(p, todo, at[p].left)
  BY <1>1 DEF Finish
<1> QED
  BY <1>1, <1>2, IdleState, SetState, ResumeState

\* What a bridge function reads, writes and moves.
LEMMA BridgeTypes ==
  ASSUME TypeInv, NEW p \in Thread, Bridge(p) PROVE TypeInv'
<1> DEFINE op == at[p].op
           t == at[p].task
           d == Source(op)
<1>1. /\ at[p] \in ThreadState /\ at[p].pc \notin Between /\ t \in Task /\ op \in Op
      /\ d \in Dir /\ Target(op) \in Dir /\ at[p].body \in File
  <2>1. at[p].pc \notin Between
    BY DEF Bridge, BridgeRead, BridgeWrite, BridgeReplace, BridgeMove, ClaimReport, Between
  <2> QED
    BY <2>1, Directories DEF TypeInv, ThreadState, ThreadRecord, AtWork
<1>2. file[d][t] \in File /\ tmp[d][t] \in File
  BY <1>1 DEF TypeInv
<1>3. CASE BridgeRead(p)
  <2>1. Patched(op, file[d][t], at[p].persona) \in File
    <3>1. op = "claim" => at[p].persona \in Persona
      BY <1>1 DEF ThreadState, AtWork
    <3> QED
      BY <1>2, <3>1, OwnersAreFiles DEF Patched
  <2>2. ASSUME at' = [at EXCEPT ![p].pc = "write", ![p].body = Patched(op, file[d][t], at[p].persona)]
        PROVE  at' \in [Thread -> ThreadState]
    <3> DEFINE body == Patched(op, file[d][t], at[p].persona)
               r == [at[p] EXCEPT !.pc = "write", !.body = body]
    <3>1. Set(p, r)
      BY <2>2 DEF Set, TypeInv
    <3>2. r \in ThreadState
      <4> HIDE DEF body
      <4> QED
        BY <1>1, <2>1, WorkingState DEF Working, body
    <3> HIDE DEF r
    <3> QED
      BY <3>1, <3>2, SetState
  <2>3. at' \in [Thread -> ThreadState]
    BY <1>3, <2>2, FinishState DEF BridgeRead
  <2>4. UNCHANGED <<file, tmp, doc>> /\ raced' = raced \cup ({t} \cap Touched)
    BY <1>3 DEF BridgeRead
  <2>5. raced' \subseteq Task
    BY <1>1, <2>4 DEF TypeInv
  <2> QED
    BY <2>3, <2>4, <2>5 DEF TypeInv
<1>4. CASE BridgeWrite(p)
  <2>1. at' \in [Thread -> ThreadState]
    BY <1>1, <1>4, GotoState DEF BridgeWrite, Working
  <2>2. tmp' \in [Dir -> [Task -> File]]
    BY <1>1, <1>4 DEF BridgeWrite, TypeInv
  <2> QED
    BY <1>4, <2>1, <2>2 DEF BridgeWrite, TypeInv
<1>5. CASE BridgeReplace(p)
  <2>1. at' \in [Thread -> ThreadState]
    BY <1>1, <1>5, FinishState, GotoState DEF BridgeReplace, Working
  <2>2. file' \in [Dir -> [Task -> File]] /\ tmp' \in [Dir -> [Task -> File]]
    <3>1. CASE UNCHANGED <<file, tmp>>
      BY <3>1 DEF TypeInv
    <3>2. CASE file' = [file EXCEPT ![d][t] = tmp[d][t]] /\ tmp' = [tmp EXCEPT ![d][t] = Absent]
      BY <1>1, <1>2, <3>2, OwnersAreFiles DEF TypeInv
    <3> QED
      BY <1>5, <3>1, <3>2 DEF BridgeReplace
  <2> QED
    BY <1>5, <2>1, <2>2 DEF BridgeReplace, TypeInv
<1>6. CASE BridgeMove(p)
  <2>1. at' \in [Thread -> ThreadState]
    BY <1>1, <1>6, FinishState, GotoState DEF BridgeMove, Working
  <2>2. file' \in [Dir -> [Task -> File]]
    <3> DEFINE e == Target(op)
               v == file[d][t]
               once == [file EXCEPT ![d][t] = Absent]
    <3>1. CASE UNCHANGED file
      BY <3>1 DEF TypeInv
    <3>2. CASE file' = [file EXCEPT ![d][t] = Absent, ![e][t] = v]
      <4>1. once \in [Dir -> [Task -> File]]
        BY <1>1, OwnersAreFiles DEF TypeInv
      <4>2. file' = [once EXCEPT ![e][t] = v]
        BY <3>2
      <4> HIDE DEF once, v, d, t, e
      <4>3. [once EXCEPT ![e][t] = v] \in [Dir -> [Task -> File]]
        BY <1>1, <1>2, <4>1 DEF e, v
      <4> QED
        BY <4>2, <4>3
    <3> QED
      BY <1>6, <3>1, <3>2 DEF BridgeMove
  <2> QED
    BY <1>6, <2>1, <2>2 DEF BridgeMove, TypeInv
<1>7. CASE ClaimReport(p)
  <2>1. at[p].todo \in Listings /\ at[p].left \in Nat /\ (at[p].phase = "claim" => at[p].left > 0)
    BY <1>1 DEF ThreadState, ThreadRecord, AtWork
  <2>2. at' \in [Thread -> ThreadState]
    <3>1. CASE at[p].phase = "claim" /\ Resume(p, at[p].todo, at[p].left - 1)
      BY <2>1, <3>1, ResumeState
    <3> QED
      BY <1>7, <3>1, FinishState DEF ClaimReport
  <2> QED
    BY <1>7, <2>2 DEF ClaimReport, TypeInv
<1> QED
  BY <1>3, <1>4, <1>5, <1>6, <1>7 DEF Bridge

LEMMA ExecuteTypes ==
  ASSUME TypeInv, NEW p \in Thread, Execute(p) PROVE TypeInv'
<1>1. at[p].pc \notin Between
  BY DEF Execute, ExecStart, ExecGenerate, ExecRecheck, ExecPublish, Between
<1>2. at[p].task \in Task
  BY <1>1 DEF TypeInv, ThreadState, AtWork
<1>3. at' \in [Thread -> ThreadState]
  BY <1>1, GotoState, CallState DEF Execute, ExecStart, ExecGenerate, ExecRecheck, ExecPublish, Working
<1>4. UNCHANGED <<file, tmp, raced>> /\ doc' \subseteq Task
  BY <1>2 DEF Execute, ExecStart, ExecGenerate, ExecRecheck, ExecPublish, TypeInv
<1> QED
  BY <1>3, <1>4 DEF TypeInv

\* A phase takes a task of the listing it goes over, for a persona.
LEMMA ItemTypes ==
  ASSUME TypeInv, NEW p \in Thread, NextItem(p) PROVE TypeInv'
<1> DEFINE i == Head(at[p].todo)
<1>1. /\ at[p] \in ThreadRecord /\ at[p].todo # << >> /\ at[p].left > 0 /\ at[p].pc = "next"
      /\ UNCHANGED <<file, tmp, doc, raced>>
  BY DEF NextItem, TypeInv, ThreadState
<1>2. at[p].todo \in Listings /\ i.task \in Task /\ Tail(at[p].todo) \in Listings
  <2>1. at[p].todo \in Listings
    BY <1>1 DEF ThreadRecord
  <2>2. i \in [task : Task, owner : File] /\ Tail(at[p].todo) \in Listings
    BY <1>1, <2>1, HeadTailProperties DEF Listings
  <2> QED
    BY <2>1, <2>2
<1>3. ASSUME NEW op \in {"none", "heartbeat", "claim"}, NEW pc \in {"read", "exec"},
             NEW as \in SUBSET Persona, Take(p, op, pc, as),
             pc = "exec" => at[p].phase = "run"
      PROVE  at' \in [Thread -> ThreadState]
  <2>1. ASSUME at' = [at EXCEPT ![p].todo = Tail(@)] PROVE at' \in [Thread -> ThreadState]
    <3>1. [at[p] EXCEPT !.todo = Tail(at[p].todo)] \in ThreadState
      BY <1>1, <1>2 DEF TypeInv, ThreadState, ThreadRecord, AtWork
    <3>2. Set(p, [at[p] EXCEPT !.todo = Tail(at[p].todo)])
      BY <2>1 DEF Set, TypeInv
    <3> QED
      BY <3>1, <3>2, SetState
  <2>2. ASSUME NEW q \in Persona, NEW left \in Nat, left = at[p].left \/ pc = "exec",
               at' = [at EXCEPT ![p].todo = Tail(@), ![p].op = op, ![p].pc = pc,
                                ![p].task = i.task, ![p].persona = q, ![p].left = left]
        PROVE  at' \in [Thread -> ThreadState]
    <3> DEFINE r == [at[p] EXCEPT !.todo = Tail(at[p].todo), !.op = op, !.pc = pc,
                                  !.task = i.task, !.persona = q, !.left = left]
    <3>1. Set(p, r)
      BY <2>2 DEF Set, TypeInv
    <3>2. r \in ThreadRecord
      <4> HIDE DEF i
      <4> QED
        BY <1>1, <1>2 DEF ThreadRecord, Op
    <3>3. /\ r.op = op /\ r.pc = pc /\ r.task = i.task /\ r.persona = q /\ r.left = left
          /\ r.phase = at[p].phase
      <4> HIDE DEF i
      <4> QED
        BY <1>1 DEF ThreadRecord
    <3>4. AtWork(r)
      <4> HIDE DEF r, i
      <4>1. at[p].phase = "claim" => left > 0
        BY <1>1, <1>3, <2>2
      <4> QED
        BY <1>2, <3>3, <4>1 DEF AtWork
    <3> HIDE DEF r
    <3> QED
      BY <3>1, <3>2, <3>4, SetState DEF ThreadState
  <2>3. at[p].left \in Nat /\ at[p].left - 1 \in Nat
    BY <1>1 DEF ThreadRecord
  <2> QED
    BY <1>3, <2>1, <2>2, <2>3 DEF Take
<1>4. Matching[i.task] \in SUBSET Persona
  BY <1>2, QueueAssumption
<1>5. at' \in [Thread -> ThreadState]
  BY <1>3, <1>4 DEF NextItem
<1> QED
  BY <1>1, <1>5 DEF TypeInv

LEMMA PhaseTypes ==
  ASSUME TypeInv, NEW p \in Thread, NextPhase(p) PROVE TypeInv'
<1>1. MaxExecute \in Nat /\ MaxClaims \in Nat /\ "claimed" \in Dir /\ "pending" \in Dir
  BY QueueAssumption DEF Dir
<1>2. at' \in [Thread -> ThreadState]
  BY <1>1, NextState, IdleState, ListingState, SetState DEF NextPhase, Phase
<1> QED
  BY <1>2 DEF NextPhase, TypeInv

LEMMA TickTypes ==
  ASSUME TypeInv, Tick PROVE TypeInv'
<1> DEFINE todo == Listing("claimed")
           r == [Idle EXCEPT !.pc = "next", !.phase = "beat", !.todo = todo]
<1>1. todo \in Listings
  BY ListingState DEF Dir
<1>2. r \in ThreadState
  <2> HIDE DEF todo
  <2> QED
    BY <1>1, OwnersAreFiles DEF Idle, ThreadState, ThreadRecord, AtWork, Between, Op, Phase
<1>3. Poller \in Thread /\ Set(Poller, r)
  BY DEF Tick, Thread
<1> HIDE DEF r
<1>4. at' \in [Thread -> ThreadState]
  BY <1>2, <1>3, SetState
<1> QED
  BY <1>4 DEF Tick, TypeInv

LEMMA RouteTypes ==
  ASSUME TypeInv, NEW p \in Operator, Routes(p) PROVE TypeInv'
<1>0. p \in Thread
  BY DEF Thread
<1>1. ASSUME NEW r \in ThreadState, Request(p, r) PROVE TypeInv'
  BY <1>0, <1>1, SetState DEF Request, TypeInv
<1>2. ASSUME NEW op \in Op, NEW t \in Task, NEW q \in Persona \cup {None}, op = "claim" => q \in Persona
      PROVE  Call(op, t, q) \in ThreadState
  <2>1. /\ Idle \in ThreadState /\ Idle.phase = "route"
        /\ Call(op, t, q) = [Idle EXCEPT !.pc = "read", !.op = op, !.task = t, !.persona = q]
    BY IdleState DEF Call, Idle
  <2> HIDE DEF Idle
  <2>2. Call(op, t, q) \in ThreadRecord
    BY <2>1 DEF ThreadState, ThreadRecord
  <2>3. Call(op, t, q).task = t /\ Call(op, t, q).op = op /\ Call(op, t, q).persona = q
        /\ Call(op, t, q).phase = "route"
    BY <2>1 DEF ThreadState, ThreadRecord
  <2> QED
    BY <1>2, <2>2, <2>3 DEF ThreadState, AtWork
<1>3. CASE ClaimRoute(p)
  BY <1>1, <1>2, <1>3, QueueAssumption DEF ClaimRoute, Op
<1>4. CASE CompleteRoute(p) \/ BlockRoute(p) \/ ReleaseRoute(p)
  BY <1>1, <1>2, <1>4 DEF CompleteRoute, BlockRoute, ReleaseRoute, Op
<1>5. CASE ExecuteRoute(p)
  <2>1. Listing("claimed") \in Listings /\ MaxExecute \in Nat
    BY ListingState, QueueAssumption DEF Dir
  <2>2. [Idle EXCEPT !.pc = "next", !.phase = "run", !.todo = Listing("claimed"), !.left = MaxExecute]
          \in ThreadState
    BY <2>1, NextState DEF Phase
  <2> QED
    BY <1>1, <1>5, <2>2 DEF ExecuteRoute
<1> QED
  BY <1>3, <1>4, <1>5 DEF Routes

LEMMA ForeignTypes ==
  ASSUME TypeInv, NEW t \in Task, ForeignClaim(t) PROVE TypeInv'
<1> DEFINE once == [file EXCEPT !["pending"][t] = Absent]
<1>1. once \in [Dir -> [Task -> File]]
  BY OwnersAreFiles DEF TypeInv, Dir
<1>2. file' = [once EXCEPT !["claimed"][t] = Foreign]
  BY DEF ForeignClaim
<1> HIDE DEF once
<1>3. file' \in [Dir -> [Task -> File]]
  BY <1>1, <1>2, OwnersAreFiles DEF Dir
<1> QED
  BY <1>3 DEF ForeignClaim, TypeInv

LEMMA TypeSteps ==
  ASSUME TypeInv, [Next]_vars PROVE TypeInv'
<1>1. CASE Restart
  BY <1>1, IdleState DEF Restart, TypeInv
<1>2. ASSUME NEW t \in Task, HandoffWritten(t) PROVE TypeInv'
  BY <1>2 DEF HandoffWritten, TypeInv
<1>3. CASE UNCHANGED vars
  BY <1>3 DEF vars, TypeInv
<1> QED
  BY <1>1, <1>2, <1>3, BridgeTypes, ExecuteTypes, ItemTypes, PhaseTypes, TickTypes, RouteTypes,
     ForeignTypes DEF Next, Step

LEMMA TypeInit ==
  ASSUME Init PROVE TypeInv
<1>1. None \in File /\ Absent \in File
  BY OwnersAreFiles
<1> QED
  BY <1>1, IdleState DEF Init, TypeInv

\* Whatever the threads do to each other's files, a file's owner is one and a thread
\* at work knows its task.
THEOREM QueueTypeCorrect == Spec => []TypeOK
<1>1. Init => TypeInv
  BY TypeInit
<1>2. TypeInv /\ [Next]_vars => TypeInv'
  BY TypeSteps
<1>3. TypeInv => TypeOK
  BY DEF TypeInv, TypeOK, ThreadState, ThreadRecord, Listings, Op
<1> QED
  BY <1>1, <1>2, <1>3, PTL DEF Spec

-----------------------------------------------------------------------------
(* Another agent's tasks.  A tick or an execution that is busy with a task on  *)
(* which nobody else was has found it unclaimed or its own, and writes and     *)
(* moves what it has found.                                                    *)

Minds(p) ==
  Busy(at[p]) /\ at[p].phase # "route" /\ at[p].task \in Task \ raced =>
    /\ at[p].body # Foreign /\ file["claimed"][at[p].task] # Foreign
    /\ at[p].pc = "replace" => tmp[Source(at[p].op)][at[p].task] # Foreign

MindInv == TypeInv /\ CopyInv /\ \A p \in Thread : Minds(p)

\* The thread that steps rests, or is as it says it is; the files of a task that
\* another one is busy with alone stay as they are.
LEMMA OthersMind ==
  ASSUME MindInv, NEW q \in Thread, at'[q] = at[q], raced \subseteq raced',
         Busy(at[q]) /\ at[q].task \in Task \ raced' =>
           \A d \in Dir : file'[d][at[q].task] = file[d][at[q].task] /\ tmp'[d][at[q].task] = tmp[d][at[q].task]
  PROVE  Minds(q)'
<1>1. Source(at[q].op) \in Dir /\ "claimed" \in Dir
  BY Directories DEF Dir
<1>2. Minds(q)
  BY DEF MindInv
<1>3. ASSUME Busy(at[q]), at[q].phase # "route", at[q].task \in Task \ raced'
      PROVE  /\ at[q].body # Foreign /\ file'["claimed"][at[q].task] # Foreign
             /\ at[q].pc = "replace" => tmp'[Source(at[q].op)][at[q].task] # Foreign
  BY <1>1, <1>2, <1>3 DEF Minds
<1> QED
  BY <1>3 DEF Minds, Busy

\* A thread that rests minds nothing.
LEMMA RestingMinds ==
  ASSUME NEW p \in Thread, ~Busy(at'[p]) PROVE Minds(p)'
BY DEF Minds, Busy

LEMMA QuietMinds ==
  ASSUME MindInv, NEW p \in Thread, Rests(p), UNCHANGED <<file, tmp>>, raced \subseteq raced'
  PROVE  \A q \in Thread : Minds(q)'
<1>1. ASSUME NEW q \in Thread \ {p} PROVE Minds(q)'
  BY <1>1, OthersMind DEF Rests
<1> QED
  BY <1>1, RestingMinds DEF Rests

LEMMA ReadMinds ==
  ASSUME MindInv, NEW p \in Thread, BridgeRead(p) PROVE \A q \in Thread : Minds(q)'
<1> DEFINE op == at[p].op
           t == at[p].task
           body == file[Source(op)][t]
           read == [at[p] EXCEPT !.pc = "write", !.body = Patched(op, body, at[p].persona)]
<1>0. /\ Threads /\ raced' = raced \cup ({t} \cap Touched) /\ UNCHANGED <<file, tmp>>
      /\ at[p].pc = "read" /\ ~Busy(at[p])
  BY DEF BridgeRead, MindInv, CopyInv, Busy
<1>1. CASE Finish(p, FALSE)
  BY <1>0, <1>1, FinishMoves, QuietMinds DEF MindInv
<1>2. CASE /\ at' = [at EXCEPT ![p] = read] /\ body # Absent
           /\ op \in {"claim", "release"} \/ at[p].persona \in {None, body}
  <2>1. at'[p] = read /\ \A q \in Thread \ {p} : at'[q] = at[q]
    BY <1>0, <1>2 DEF Threads
  <2>2. /\ read.pc = "write" /\ read.task = t /\ read.op = op /\ read.phase = at[p].phase
        /\ read.body = Patched(op, body, at[p].persona)
    BY DEF MindInv, TypeInv, ThreadState, ThreadRecord
  <2>3. ASSUME NEW q \in Thread \ {p} PROVE Minds(q)'
    BY <1>0, <2>1, OthersMind
  <2>4. ASSUME at[p].phase # "route", t \in Task \ raced'
        PROVE  read.body # Foreign /\ file["claimed"][t] # Foreign
    <3>1. at[p].persona \in Persona /\ op # "release"
      BY <1>0, <2>4 DEF MindInv, TypeInv, ThreadState, AtWork, Between
    <3>2. at[p].persona # Foreign /\ at[p].persona # None /\ Foreign # Absent
      BY <3>1, QueueAssumption
    <3>3. CASE op = "claim"
      <4>1. file["pending"][t] # Absent
        BY <1>2, <3>3 DEF Source
      <4>2. PICK d \in Dir : file[d][t] # Absent /\ \A e \in Dir \ {d} : file[e][t] = Absent
        BY <1>0, <2>4 DEF MindInv, CopyInv, OneCopy
      <4>3. file["claimed"][t] = Absent
        BY <4>1, <4>2 DEF Dir
      <4> QED
        BY <2>2, <3>2, <3>3, <4>3 DEF Patched
    <3>4. CASE op # "claim"
      <4>1. Source(op) = "claimed" /\ at[p].persona = body
        BY <1>2, <3>1, <3>2, <3>4 DEF Source
      <4> QED
        BY <2>2, <3>1, <3>2, <3>4, <4>1 DEF Patched
    <3> QED
      BY <3>3, <3>4
  <2>5. Minds(p)'
    BY <1>0, <2>1, <2>2, <2>4 DEF Minds
  <2> QED
    BY <2>3, <2>5
<1> QED
  BY <1>1, <1>2 DEF BridgeRead

\* Who is busy with the task of another thread that is, has made it raced.
LEMMA OtherTask ==
  ASSUME MindInv, NEW p \in Thread, NEW q \in Thread \ {p}, Busy(at[p]), Busy(at[q]),
         at[q].task \in Task \ raced
  PROVE  at[p].task # at[q].task
<1>1. Alone(q)
  BY DEF MindInv, CopyInv
<1> QED
  BY <1>1 DEF Alone

LEMMA WriteMinds ==
  ASSUME MindInv, NEW p \in Thread, BridgeWrite(p) PROVE \A q \in Thread : Minds(q)'
<1> DEFINE t == at[p].task
           d == Source(at[p].op)
<1>0. /\ Threads /\ raced' = raced /\ file' = file /\ Busy(at[p]) /\ d \in Dir
      /\ tmp \in [Dir -> [Task -> File]] /\ tmp' = [tmp EXCEPT ![d][t] = at[p].body]
  BY Directories DEF BridgeWrite, MindInv, CopyInv, Busy, TypeInv
<1>1. /\ \A q \in Thread \ {p} : at'[q] = at[q]
      /\ at'[p].task = t /\ at'[p].op = at[p].op /\ at'[p].body = at[p].body /\ at'[p].phase = at[p].phase
  <2>1. at' = [at EXCEPT ![p].pc = "replace"]
    BY DEF BridgeWrite, Goto
  <2> QED
    BY <2>1 DEF MindInv, TypeInv, ThreadState, ThreadRecord
<1>2. ASSUME NEW q \in Thread \ {p} PROVE Minds(q)'
  <2>1. ASSUME Busy(at[q]), at[q].task \in Task \ raced'
        PROVE  \A e \in Dir : tmp'[e][at[q].task] = tmp[e][at[q].task]
    <3>1. at[q].task # t
      BY <1>0, <1>2, <2>1, OtherTask
    <3> HIDE DEF t, d
    <3> QED
      BY <1>0, <2>1, <3>1
  <2> QED
    BY <1>0, <1>1, <1>2, <2>1, OthersMind
<1>3. Minds(p)'
  <2> SUFFICES ASSUME at[p].phase # "route", t \in Task \ raced
               PROVE  at[p].body # Foreign /\ file["claimed"][t] # Foreign /\ tmp'[d][t] # Foreign
    BY <1>0, <1>1 DEF Minds
  <2>1. at[p].body # Foreign /\ file["claimed"][t] # Foreign
    BY <1>0 DEF MindInv, Minds
  <2>2. tmp'[d][t] = at[p].body
    BY <1>0
  <2> QED
    BY <2>1, <2>2
<1> QED
  BY <1>2, <1>3

LEMMA ReplaceMinds ==
  ASSUME MindInv, NEW p \in Thread, BridgeReplace(p) PROVE \A q \in Thread : Minds(q)'
<1> DEFINE op == at[p].op
           t == at[p].task
           d == Source(op)
<1>0. /\ Threads /\ raced' = raced /\ at[p].pc = "replace" /\ Busy(at[p]) /\ d \in Dir
      /\ tmp \in [Dir -> [Task -> File]] /\ file \in [Dir -> [Task -> File]]
  BY Directories DEF BridgeReplace, MindInv, CopyInv, Busy, TypeInv
<1>1. CASE UNCHANGED <<file, tmp>> /\ Finish(p, TRUE)
  BY <1>0, <1>1, FinishMoves, QuietMinds
<1>2. CASE /\ file' = [file EXCEPT ![d][t] = tmp[d][t]] /\ tmp' = [tmp EXCEPT ![d][t] = Absent]
           /\ Finish(p, FALSE) \/ Goto(p, "move")
  <2>1. /\ \A q \in Thread \ {p} : at'[q] = at[q]
        /\ Busy(at'[p]) => /\ at'[p].task = t /\ at'[p].op = op /\ at'[p].body = at[p].body
                           /\ at'[p].phase = at[p].phase /\ at'[p].pc = "move"
    <3>1. CASE Finish(p, FALSE)
      BY <1>0, <3>1, FinishMoves DEF Rests
    <3>2. CASE at' = [at EXCEPT ![p].pc = "move"]
      BY <3>2 DEF MindInv, TypeInv, ThreadState, ThreadRecord
    <3> QED
      BY <1>2, <3>1, <3>2 DEF Goto
  <2>2. ASSUME NEW q \in Thread \ {p} PROVE Minds(q)'
    <3>1. ASSUME Busy(at[q]), at[q].task \in Task \ raced'
          PROVE  \A e \in Dir : tmp'[e][at[q].task] = tmp[e][at[q].task] /\ file'[e][at[q].task] = file[e][at[q].task]
      <4>1. at[q].task # t
        BY <1>0, <2>2, <3>1, OtherTask
      <4> HIDE DEF t, d
      <4> QED
        BY <1>0, <1>2, <3>1, <4>1
    <3> QED
      BY <1>0, <2>1, <2>2, <3>1, OthersMind
  <2>3. Minds(p)'
    <3> SUFFICES ASSUME Busy(at'[p]), at[p].phase # "route", t \in Task \ raced
                 PROVE  at[p].body # Foreign /\ file'["claimed"][t] # Foreign
      BY <1>0, <2>1 DEF Minds, Busy
    <3>1. at[p].body # Foreign /\ file["claimed"][t] # Foreign /\ tmp[d][t] # Foreign
      BY <1>0 DEF MindInv, Minds
    <3>2. "claimed" \in Dir
      BY DEF Dir
    <3> HIDE DEF d, t
    <3> QED
      BY <1>0, <1>2, <3>1, <3>2
  <2> QED
    BY <2>2, <2>3
<1> QED
  BY <1>1, <1>2 DEF BridgeReplace

LEMMA MoveMinds ==
  ASSUME MindInv, NEW p \in Thread, BridgeMove(p) PROVE \A q \in Thread : Minds(q)'
<1> DEFINE op == at[p].op
           t == at[p].task
<1>0. /\ Threads /\ raced' = raced /\ tmp' = tmp /\ Busy(at[p])
      /\ Source(op) \in Dir /\ Target(op) \in Dir
  BY Directories DEF BridgeMove, MindInv, CopyInv, Busy
<1>1. Rests(p)
  BY <1>0, FinishMoves, GotoRests DEF BridgeMove
<1>2. \A e \in Dir, u \in Task : u # t => file'[e][u] = file[e][u]
  <2>1. CASE UNCHANGED file
    BY <2>1
  <2>2. CASE Moved(Source(op), Target(op), t, file[Source(op)][t])
    <3>1. Shape
      BY DEF MindInv, CopyInv
    <3> QED
      BY <1>0, <2>2, <3>1, TwoUpdates
  <2> QED
    BY <2>1, <2>2 DEF BridgeMove, Moved
<1>3. ASSUME NEW q \in Thread \ {p} PROVE Minds(q)'
  <2>1. ASSUME Busy(at[q]), at[q].task \in Task \ raced'
        PROVE  \A e \in Dir : file'[e][at[q].task] = file[e][at[q].task]
    BY <1>0, <1>2, <1>3, <2>1, OtherTask
  <2> QED
    BY <1>0, <1>1, <1>3, <2>1, OthersMind DEF Rests
<1> QED
  BY <1>1, <1>3, RestingMinds DEF Rests

LEMMA ForeignMinds ==
  ASSUME MindInv, NEW t \in Task, ForeignClaim(t) PROVE \A q \in Thread : Minds(q)'
<1>0. /\ raced' = raced \cup ({t} \cap Touched) /\ at' = at /\ tmp' = tmp
      /\ Moved("pending", "claimed", t, Foreign) /\ Shape
  BY DEF ForeignClaim, Moved, MindInv, CopyInv
<1>1. \A e \in Dir, u \in Task : u # t => file'[e][u] = file[e][u]
  <2>1. {"pending", "claimed"} \subseteq Dir
    BY DEF Dir
  <2> QED
    BY <1>0, <2>1, TwoUpdates
<1>2. ASSUME NEW q \in Thread PROVE Minds(q)'
  <2>1. Busy(at[q]) /\ at[q].task \in Task \ raced' => at[q].task # t
    BY <1>0 DEF Touched, Busy
  <2> QED
    BY <1>0, <1>1, <2>1, OthersMind
<1> QED
  BY <1>2

LEMMA MindSteps ==
  ASSUME MindInv, [Next]_vars PROVE MindInv'
<1> SUFFICES \A q \in Thread : Minds(q)'
  BY TypeSteps, CopySteps DEF MindInv
<1>0. Threads
  BY DEF MindInv, CopyInv
<1>1. ASSUME NEW p \in Thread, Step(p) PROVE \A q \in Thread : Minds(q)'
  <2>1. CASE ClaimReport(p)
    <3>1. ASSUME NEW left, Resume(p, at[p].todo, left) PROVE Rests(p)
      <4> DEFINE r == [Idle EXCEPT !.pc = "next", !.phase = at[p].phase,
                                   !.todo = at[p].todo, !.left = left]
      <4>1. Record(r) /\ r.pc = "next" /\ Set(p, r)
        BY <3>1 DEF Idle, Record, Resume
      <4> HIDE DEF r
      <4> QED
        BY <1>0, <4>1, StartRests
    <3>2. Rests(p)
      BY <1>0, <2>1, <3>1, FinishMoves DEF ClaimReport
    <3> QED
      BY <2>1, <3>2, QuietMinds DEF ClaimReport
  <2>2. CASE Execute(p) \/ NextItem(p) \/ NextPhase(p)
    <3>1. Rests(p)
      BY <1>0, <2>2, ExecRests, ItemRests, PhaseRests
    <3>2. UNCHANGED <<file, tmp, raced>>
      BY <2>2 DEF Execute, ExecStart, ExecGenerate, ExecRecheck, ExecPublish, NextItem, NextPhase
    <3> QED
      BY <3>1, <3>2, QuietMinds
  <2> QED
    BY <1>1, <2>1, <2>2, ReadMinds, WriteMinds, ReplaceMinds, MoveMinds DEF Step, Bridge
<1>2. ASSUME NEW p \in Operator, Routes(p) PROVE \A q \in Thread : Minds(q)'
  <2>1. Rests(p) /\ p \in Thread
    BY <1>0, <1>2, RouteRests DEF Thread
  <2>2. UNCHANGED <<file, tmp, raced>>
    BY <1>2 DEF Routes, ClaimRoute, CompleteRoute, BlockRoute, ReleaseRoute, ExecuteRoute, Request
  <2> QED
    BY <2>1, <2>2, QuietMinds
<1>3. CASE Tick
  <2>1. Rests(Poller) /\ Poller \in Thread /\ UNCHANGED <<file, tmp, raced>>
    BY <1>0, <1>3, TickRests DEF Tick, Thread
  <2> QED
    BY <2>1, QuietMinds
<1>4. CASE Restart
  <2>1. \A p \in Thread : at'[p] = Idle
    BY <1>4 DEF Restart
  <2> QED
    BY <2>1, IdleRecords, RestingMinds
<1>5. CASE UNCHANGED <<file, tmp, at, raced>>
  BY <1>5, OthersMind
<1> QED
  BY <1>1, <1>2, <1>3, <1>4, <1>5, ForeignMinds DEF Next, HandoffWritten, vars

\* A step of a thread of a tick, or of an execution, leaves a foreign task in claimed/.
LEMMA MindedStep ==
  ASSUME MindInv, [Next]_vars, NEW t \in Task \ raced, file["claimed"][t] = Foreign,
         NEW p \in Thread, at[p].task = t, at[p].phase # "route", at'[p] # at[p]
  PROVE  file'["claimed"][t] = Foreign
<1>1. ~Busy(at[p])
  BY DEF MindInv, Minds
<1>2. CASE UNCHANGED file
  BY <1>2
<1>3. ASSUME NEW q \in Thread, BridgeReplace(q) \/ BridgeMove(q) PROVE FALSE
  <2>1. Busy(at[q]) /\ at' = [at EXCEPT ![q] = at'[q]]
    BY <1>3 DEF BridgeReplace, BridgeMove, Busy, Finish, Resume, Set, Goto, MindInv, TypeInv
  <2> QED
    BY <1>1, <2>1 DEF MindInv, TypeInv
<1>4. ASSUME NEW u \in Task, ForeignClaim(u) PROVE FALSE
  BY <1>4 DEF ForeignClaim
<1>5. \/ UNCHANGED file
      \/ \E q \in Thread : BridgeReplace(q) \/ BridgeMove(q)
      \/ \E u \in Task : ForeignClaim(u)
  BY DEF Next, Step, Bridge, BridgeRead, BridgeWrite, ClaimReport, Execute, ExecStart, ExecGenerate,
         ExecRecheck, ExecPublish, NextItem, NextPhase, Tick, Routes, ClaimRoute, CompleteRoute,
         BlockRoute, ReleaseRoute, ExecuteRoute, Request, HandoffWritten, Restart, vars
<1> QED
  BY <1>2, <1>3, <1>4, <1>5

\* However stale its listing: no tick and no execution moves or overwrites a task that
\* another agent has claimed, unless two bridge functions have overlapped on it.
THEOREM ForeignSurvives == Spec => ForeignIsLeftAlone
<1>1. Init => MindInv
  <2> SUFFICES ASSUME Init PROVE MindInv
    OBVIOUS
  <2>1. \A p \in Thread : at[p] = Idle
    BY DEF Init
  <2>2. \A p \in Thread : Minds(p)
    BY <2>1, IdleRecords DEF Minds
  <2> QED
    BY <2>2, TypeInit, CopyInit DEF MindInv
<1>2. MindInv /\ [Next]_vars => MindInv'
  BY MindSteps
<1>3. MindInv /\ [Next]_vars =>
        \A t \in Task :
          /\ file["claimed"][t] = Foreign /\ t \notin raced
          /\ \E p \in Thread : at[p].task = t /\ at[p].phase # "route" /\ at'[p] # at[p]
          => file'["claimed"][t] = Foreign
  BY MindedStep
<1> QED
  BY <1>1, <1>2, <1>3, PTL DEF Spec, ForeignIsLeftAlone
=============================================================================
