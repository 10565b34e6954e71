---------------------- MODULE RecoveryControllerProofs ----------------------
(* Proofs about RecoveryController, for every value of its constants: types;  *)
(* that the saga and the durable ledger agree; that the ledger keeps the      *)
(* promise stated in AttemptLedger; that no file is ever locked or patched    *)
(* for a run whose failure class is never auto-recovered; that one thread at  *)
(* a time patches for a run, and only the proposal that was reviewed; that    *)
(* the index of open runs names open runs; and, for calls that do not         *)
(* overlap, that no pair has two open runs and that the ledger was given the  *)
(* outcome that the run ends in.                                              *)
EXTENDS RecoveryController, TLAPS

-----------------------------------------------------------------------------
(* The inductive invariant behind type correctness.                         *)

\* What the local variables r of a thread are worth at each of its steps: a
\* thread that works on a run knows its attempt, and that run has its pair.
ThreadOK(r) ==
  /\ r.pc # "idle" => r.op # "none"
  /\ r.op = "start" => r.key \in Key
  /\ r.pc \notin {"idle", "record"} => r.attempt \in Attempt
  /\ r.op \notin {"none", "mark_route"} /\ r.pc \notin {"idle", "record", "register"}
       => run[r.attempt].key \in Key
  /\ r.op = "apply" => r.proposal \in Proposal
  /\ r.pc \in {"mark", "append"} => r.status \in Outcome
  /\ r.op = "resume" /\ r.pc \in {"mark", "append", "finish"}
       => r.status \in {"recovered", "escalated"}

\* A registered run has its pair.
RunOK == \A a \in Attempt : run[a].state # "absent" => run[a].key \in Key

TypeInv == TypeOK /\ RunOK /\ \A c \in Call : ThreadOK(call[c])

\* No run loses its pair.
KeysKept == \A a \in Attempt : run[a].key \in Key => run'[a].key \in Key

\* All variables but call, registry apart.
StoreOK ==
  /\ failures \subseteq Attempt
  /\ outcomes \in [Attempt -> Seq(Outcome)]
  /\ ledgerLock \in Call \cup {None}
  /\ fileLock \in [File -> Task \cup {None, Foreign}]
  /\ patched \in [Attempt -> SUBSET Proposal]

RegistryOK ==
  /\ run \in [Attempt -> RecoveryRun]
  /\ index \in [Key -> Attempt \cup {None}]
  /\ RunOK

LEMMA InitType == Init => TypeInv
<1> SUFFICES ASSUME Init PROVE TypeInv
  OBVIOUS
<1>1. Idle \in CallState /\ Idle.pc = "idle" /\ Idle.op = "none" /\ Idle.attempt = None
  BY DEF Idle, CallState, Op, Pc
<1>2. NoRun \in RecoveryRun /\ NoRun.state = "absent"
  BY DEF NoRun, NoReview, RecoveryRun, Review
<1>3. TypeOK
  BY <1>1, <1>2 DEF Init, TypeOK
<1>4. RunOK
  BY <1>2 DEF Init, RunOK
<1>5. \A c \in Call : ThreadOK(call[c])
  BY <1>1 DEF Init, ThreadOK
<1> QED
  BY <1>3, <1>4, <1>5 DEF TypeInv

LEMMA OneThreadMoves ==
  ASSUME TypeInv, RegistryOK', KeysKept, StoreOK', NEW c \in Call, NEW r \in CallState,
         call' = [call EXCEPT ![c] = r], ThreadOK(r)'
  PROVE  TypeInv'
<1>1. call' \in [Call -> CallState] /\ call'[c] = r
      /\ \A d \in Call \ {c} : call'[d] = call[d]
  BY DEF TypeInv, TypeOK
<1>2. TypeOK'
  BY <1>1 DEF RegistryOK, StoreOK, TypeOK
<1>3. ASSUME NEW d \in Call \ {c} PROVE ThreadOK(call[d])'
  <2>1. ThreadOK(call[d])
    BY DEF TypeInv
  <2>2. call[d] \in CallState
    BY DEF TypeInv, TypeOK
  <2> QED
    BY <1>1, <2>1, <2>2 DEF ThreadOK, KeysKept
<1>4. ThreadOK(call[c])'
  BY <1>1 DEF ThreadOK
<1> QED
  BY <1>2, <1>3, <1>4 DEF TypeInv, RegistryOK

\* The same, for a step that leaves the registry alone.
LEMMA OneThreadMovesOutside ==
  ASSUME TypeInv, UNCHANGED registry, StoreOK', NEW c \in Call, NEW r \in CallState,
         call' = [call EXCEPT ![c] = r], ThreadOK(r)
  PROVE  TypeInv'
<1>1. RegistryOK' /\ KeysKept
  BY DEF TypeInv, TypeOK, RegistryOK, RunOK, KeysKept, registry
<1>2. ThreadOK(r)'
  BY DEF ThreadOK, registry
<1> QED
  BY <1>1, <1>2, OneThreadMoves

\* A thread that goes on to pc.
LEMMA GotoRecord ==
  ASSUME TypeInv, NEW c \in Call, NEW pc \in Pc, Goto(c, pc)
  PROVE  \E r \in CallState :
           /\ call' = [call EXCEPT ![c] = r]
           /\ r.pc = pc /\ r.op = call[c].op /\ r.attempt = call[c].attempt
           /\ r.key = call[c].key /\ r.proposal = call[c].proposal /\ r.status = call[c].status
           /\ r.files = call[c].files
<1>1. call[c] \in CallState /\ call \in [Call -> CallState]
  BY DEF TypeInv, TypeOK
<1> DEFINE r == [call[c] EXCEPT !.pc = pc]
<1>2. r \in CallState /\ r.pc = pc /\ r.op = call[c].op /\ r.attempt = call[c].attempt
           /\ r.key = call[c].key /\ r.proposal = call[c].proposal /\ r.status = call[c].status
           /\ r.files = call[c].files
  BY <1>1 DEF CallState
<1>3. call' = [call EXCEPT ![c] = r]
  BY <1>1 DEF Goto
<1> QED
  BY <1>2, <1>3

\* A thread that goes on to pc, or ends, while the registry stays as it is.
LEMMA GotoType ==
  ASSUME TypeInv, UNCHANGED registry, StoreOK', NEW c \in Call,
         NEW pc \in Pc \ {"idle", "record", "register"},
         call[c].pc \notin {"idle", "record", "register"},
         pc \in {"mark", "append"} => call[c].status \in Outcome,
         pc \in {"mark", "append", "finish"} /\ call[c].op = "resume"
           => call[c].status \in {"recovered", "escalated"},
         Goto(c, pc)
  PROVE  TypeInv'
<1>1. PICK r \in CallState :
           /\ call' = [call EXCEPT ![c] = r]
           /\ r.pc = pc /\ r.op = call[c].op /\ r.attempt = call[c].attempt
           /\ r.key = call[c].key /\ r.proposal = call[c].proposal /\ r.status = call[c].status
           /\ r.files = call[c].files
  BY GotoRecord
<1>2. ThreadOK(call[c])
  BY DEF TypeInv
<1>3. ThreadOK(r)
  BY <1>1, <1>2 DEF ThreadOK
<1> QED
  BY <1>1, <1>3, OneThreadMovesOutside

LEMMA IdleOK == Idle \in CallState /\ ThreadOK(Idle) /\ ThreadOK(Idle)'
BY DEF Idle, CallState, Op, Pc, ThreadOK

LEMMA ReturnType ==
  ASSUME TypeInv, UNCHANGED registry, StoreOK', NEW c \in Call, Return(c)
  PROVE  TypeInv'
BY IdleOK, OneThreadMovesOutside DEF Return

LEMMA BeginType ==
  ASSUME TypeInv, UNCHANGED <<registry, ledger, fileLock, patched>>, NEW c \in Call,
         NEW r \in CallState, Begin(c, r), ThreadOK(r)
  PROVE  TypeInv'
<1>1. StoreOK'
  BY DEF TypeInv, TypeOK, StoreOK, ledger
<1> QED
  BY <1>1, OneThreadMovesOutside DEF Begin

LEMMA StoreKept ==
  ASSUME TypeInv, UNCHANGED <<ledger, fileLock, patched>> PROVE StoreOK'
BY DEF TypeInv, TypeOK, StoreOK, ledger

\* _transition keeps the shape of the registry.
LEMMA TransitionType ==
  ASSUME TypeInv, NEW a \in Attempt, run[a].key \in Key, NEW r \in RecoveryRun,
         r.key = run[a].key, Transition(a, r)
  PROVE  RegistryOK' /\ KeysKept
<1>1. run' \in [Attempt -> RecoveryRun] /\ \A b \in Attempt : run'[b].key = run[b].key
      /\ \A d \in Attempt \ {a} : run'[d] = run[d]
  BY DEF TypeInv, TypeOK, Transition
<1>2. index' \in [Key -> Attempt \cup {None}]
  BY DEF TypeInv, TypeOK, Transition
<1>3. RunOK' /\ KeysKept
  BY <1>1 DEF TypeInv, RunOK, KeysKept
<1> QED
  BY <1>1, <1>2, <1>3 DEF RegistryOK

LEMMA RunRecord ==
  ASSUME NEW r \in RecoveryRun, NEW s \in RecoveryState
  PROVE  /\ [r EXCEPT !.state = s] \in RecoveryRun
         /\ [r EXCEPT !.state = s].key = r.key
         /\ [r EXCEPT !.state = s].state = s
         /\ [r EXCEPT !.state = s].locked = r.locked
BY DEF RecoveryRun

\* A second locked section: the run changes state and the thread ends.
LEMMA CloseType ==
  ASSUME TypeInv, NEW c \in Call, NEW a \in Attempt, run[a].key \in Key,
         NEW r \in RecoveryRun, r.key = run[a].key, Transition(a, r), Return(c),
         UNCHANGED <<ledger, fileLock, patched>>
  PROVE  TypeInv'
<1>1. RegistryOK' /\ KeysKept
  BY TransitionType
<1>2. StoreOK'
  BY StoreKept
<1> QED
  BY <1>1, <1>2, IdleOK, OneThreadMoves DEF Return

-----------------------------------------------------------------------------
(* Every action preserves it: the ledger.                                   *)

LEMMA AfterMarkType ==
  ASSUME TypeInv, UNCHANGED registry, StoreOK', NEW c \in Call, NEW ok \in BOOLEAN,
         call[c].pc \in {"mark", "append"}, AfterMark(c, ok)
  PROVE  TypeInv'
<1>1. "finish" \in Pc \ {"idle", "record", "register"}
      /\ "escalate" \in Pc \ {"idle", "record", "register"}
  BY DEF Pc
<1>2. ThreadOK(call[c])
  BY DEF TypeInv
<1>3. CASE Goto(c, "finish")
  BY <1>1, <1>2, <1>3, GotoType DEF ThreadOK
<1>4. CASE Goto(c, "escalate")
  BY <1>1, <1>4, GotoType
<1>5. CASE Return(c)
  BY <1>5, ReturnType
<1> QED
  BY <1>3, <1>4, <1>5 DEF AfterMark

LEMMA MarkType ==
  ASSUME TypeInv, NEW c \in Call, Mark(c) PROVE TypeInv'
<1>1. CASE MarkUnavailable(c)
  <2>1. StoreOK'
    BY <1>1, StoreKept DEF MarkUnavailable
  <2> QED
    BY <1>1, <2>1, AfterMarkType DEF MarkUnavailable
<1>2. CASE MarkScan(c)
  <2>1. StoreOK'
    BY <1>2 DEF MarkScan, TypeInv, TypeOK, StoreOK
  <2>2. "append" \in Pc \ {"idle", "record", "register"}
    BY DEF Pc
  <2>3. ThreadOK(call[c])
    BY DEF TypeInv
  <2>4. CASE Goto(c, "append")
    BY <1>2, <2>1, <2>2, <2>3, <2>4, GotoType DEF MarkScan, ThreadOK
  <2>5. CASE AfterMark(c, FALSE)
    BY <1>2, <2>1, <2>5, AfterMarkType DEF MarkScan
  <2> QED
    BY <1>2, <2>4, <2>5 DEF MarkScan
<1>3. CASE MarkAppend(c)
  <2>1. ThreadOK(call[c]) /\ TypeOK
    BY DEF TypeInv
  <2>2. call[c].attempt \in Attempt /\ call[c].status \in Outcome
    BY <1>3, <2>1 DEF MarkAppend, ThreadOK
  <2>3. outcomes' \in [Attempt -> Seq(Outcome)]
    BY <1>3, <2>1, <2>2 DEF MarkAppend, TypeOK
  <2>4. StoreOK'
    BY <1>3, <2>1, <2>3 DEF MarkAppend, TypeOK, StoreOK
  <2>5. PICK ok \in {TRUE, ~Faults} : AfterMark(c, ok)
    BY <1>3 DEF MarkAppend
  <2>6. ok \in BOOLEAN
    BY ConstantsAssumption
  <2> QED
    BY <1>3, <2>4, <2>5, <2>6, AfterMarkType DEF MarkAppend
<1> QED
  BY <1>1, <1>2, <1>3 DEF Mark

LEMMA MarkRouteType ==
  ASSUME TypeInv, NEW c \in Call, NEW a \in Attempt, NEW s \in RouteOutcome, MarkRoute(c, a, s)
  PROVE  TypeInv'
<1> DEFINE r == [Idle EXCEPT !.op = "mark_route", !.pc = "mark", !.attempt = a, !.status = s]
<1>1. r \in CallState /\ ThreadOK(r)
  BY ConstantsAssumption DEF Idle, CallState, Op, Pc, Outcome, ThreadOK
<1> QED
  BY <1>1, BeginType DEF MarkRoute

-----------------------------------------------------------------------------
(* start_recovery, cancel_run.                                              *)

LEMMA StartCheckType ==
  ASSUME TypeInv, NEW c \in Call, NEW k \in Key, StartCheck(c, k) PROVE TypeInv'
<1> DEFINE r == [Idle EXCEPT !.op = "start", !.pc = "record", !.key = k]
<1>1. r \in CallState /\ ThreadOK(r)'
  BY DEF Idle, CallState, Op, Pc, ThreadOK
<1>2. RegistryOK' /\ KeysKept
  BY DEF StartCheck, TypeInv, TypeOK, RegistryOK, RunOK, KeysKept
<1>3. StoreOK'
  BY StoreKept DEF StartCheck
<1> QED
  BY <1>1, <1>2, <1>3, OneThreadMoves DEF StartCheck, Begin

LEMMA StartRecordType ==
  ASSUME TypeInv, NEW c \in Call, NEW a \in Attempt, StartRecord(c, a) PROVE TypeInv'
<1>1. TypeOK /\ ThreadOK(call[c]) /\ call[c].op = "start" /\ UNCHANGED registry
  BY DEF TypeInv, StartRecord, At
<1>2. StoreOK'
  BY <1>1 DEF StartRecord, TypeOK, StoreOK
<1>3. CASE Return(c)
  BY <1>1, <1>2, <1>3, ReturnType
<1>4. CASE call' = [call EXCEPT ![c].pc = "register", ![c].attempt = a, ![c].key = Redacted[@]]
  <2> DEFINE r == [call[c] EXCEPT !.pc = "register", !.attempt = a, !.key = Redacted[@]]
  <2>1. call[c] \in CallState /\ Redacted[call[c].key] \in Key
    BY <1>1, ConstantsAssumption DEF TypeOK, ThreadOK
  <2>2. r \in CallState /\ r.op = "start" /\ r.pc = "register" /\ r.attempt = a /\ r.key \in Key
    BY <1>1, <2>1 DEF CallState, Pc
  <2>3. ThreadOK(r)
    BY <2>2 DEF ThreadOK
  <2>4. call' = [call EXCEPT ![c] = r]
    BY <1>1, <1>4, <2>1 DEF TypeOK
  <2> QED
    BY <1>1, <1>2, <2>2, <2>3, <2>4, OneThreadMovesOutside
<1> QED
  BY <1>3, <1>4 DEF StartRecord

LEMMA StartRegisterType ==
  ASSUME TypeInv, NEW c \in Call, StartRegister(c) PROVE TypeInv'
<1>1. TypeOK /\ RunOK /\ ThreadOK(call[c]) /\ call[c].op = "start" /\ call[c].pc = "register"
  BY DEF TypeInv, StartRegister, At
<1> DEFINE a == call[c].attempt
           k == call[c].key
<1>2. a \in Attempt /\ k \in Key
  BY <1>1 DEF ThreadOK
<1>3. NewRun(k) \in RecoveryRun /\ NewRun(k).key = k
  BY <1>2 DEF NewRun, NoRun, NoReview, RecoveryRun, Review, RecoveryState, Cancellable
<1>4. run' \in [Attempt -> RecoveryRun] /\ run'[a] = NewRun(k)
      /\ \A b \in Attempt \ {a} : run'[b] = run[b]
  BY <1>1, <1>2, <1>3 DEF StartRegister, TypeOK
<1>5. index' \in [Key -> Attempt \cup {None}]
  BY <1>1, <1>2 DEF StartRegister, TypeOK
<1>6. RegistryOK' /\ KeysKept
  BY <1>1, <1>2, <1>3, <1>4, <1>5 DEF RegistryOK, RunOK, KeysKept
<1>7. StoreOK'
  BY StoreKept DEF StartRegister
<1>8. CASE Return(c)
  BY <1>6, <1>7, <1>8, IdleOK, OneThreadMoves DEF Return
<1>9. CASE call' = [call EXCEPT ![c].pc = "mark", ![c].status = "escalated"]
  <2>1. call[c] \in CallState /\ call \in [Call -> CallState]
    BY <1>1 DEF TypeOK
  <2>2. PICK r \in CallState :
          /\ call' = [call EXCEPT ![c] = r]
          /\ r.op = "start" /\ r.pc = "mark" /\ r.attempt = a /\ r.key = k
          /\ r.status = "escalated"
    <3> DEFINE r == [call[c] EXCEPT !.pc = "mark", !.status = "escalated"]
    <3>1. r \in CallState /\ r.op = "start" /\ r.pc = "mark" /\ r.attempt = a /\ r.key = k
          /\ r.status = "escalated"
      BY <1>1, <2>1 DEF CallState, Pc, Outcome
    <3>2. call' = [call EXCEPT ![c] = r]
      BY <1>9, <2>1
    <3> QED
      BY <3>1, <3>2
  <2>3. run'[r.attempt].key \in Key
    BY <1>2, <1>3, <1>4, <2>2
  <2>4. ThreadOK(r)'
    BY <1>2, <2>2, <2>3 DEF ThreadOK, Outcome
  <2> QED
    BY <1>6, <1>7, <2>2, <2>4, OneThreadMoves
<1> QED
  BY <1>8, <1>9 DEF StartRegister

LEMMA StartType ==
  ASSUME TypeInv, NEW c \in Call, Start(c) PROVE TypeInv'
<1>1. TypeOK /\ RunOK /\ ThreadOK(call[c])
  BY DEF TypeInv
<1>2. CASE StartEscalate(c)
  <2>1. call[c].attempt \in Attempt /\ run[call[c].attempt].key \in Key
    BY <1>1, <1>2 DEF StartEscalate, At, ThreadOK
  <2>2. run[call[c].attempt] \in RecoveryRun
    BY <1>1, <2>1 DEF TypeOK
  <2>3. [run[call[c].attempt] EXCEPT !.state = "escalated"] \in RecoveryRun
        /\ [run[call[c].attempt] EXCEPT !.state = "escalated"].key = run[call[c].attempt].key
    BY <2>2, RunRecord DEF RecoveryState, Terminal
  <2>4. run' \in [Attempt -> RecoveryRun] /\ \A b \in Attempt : run'[b].key = run[b].key
        /\ \A d \in Attempt \ {call[c].attempt} : run'[d] = run[d]
    BY <1>1, <1>2, <2>1, <2>2, <2>3 DEF StartEscalate, TypeOK
  <2>5. RegistryOK' /\ KeysKept
    BY <1>1, <1>2, <2>1, <2>4 DEF StartEscalate, TypeOK, RegistryOK, RunOK, KeysKept
  <2>6. StoreOK'
    BY <1>2, StoreKept DEF StartEscalate
  <2>7. "lookup" \in Pc
    BY DEF Pc
  <2>8. PICK r \in CallState :
           /\ call' = [call EXCEPT ![c] = r]
           /\ r.pc = "lookup" /\ r.op = call[c].op /\ r.attempt = call[c].attempt
           /\ r.key = call[c].key /\ r.proposal = call[c].proposal /\ r.status = call[c].status
           /\ r.files = call[c].files
    BY <1>2, <2>7, GotoRecord DEF StartEscalate
  <2>9. ThreadOK(r)'
    BY <1>1, <1>2, <2>1, <2>4, <2>8 DEF StartEscalate, At, ThreadOK
  <2> QED
    BY <2>5, <2>6, <2>8, <2>9, OneThreadMoves
<1>3. CASE StartLookup(c)
  <2>1. StoreOK' /\ "drop" \in Pc \ {"idle", "record", "register"}
    BY <1>3, StoreKept DEF StartLookup, Pc
  <2>2. CASE Goto(c, "drop")
    BY <1>3, <2>1, <2>2, GotoType DEF StartLookup, At
  <2>3. CASE Return(c)
    BY <1>3, <2>1, <2>3, ReturnType DEF StartLookup
  <2> QED
    BY <1>3, <2>2, <2>3 DEF StartLookup
<1>4. CASE StartDrop(c)
  <2>1. RegistryOK' /\ KeysKept
    BY <1>1, <1>4 DEF StartDrop, TypeOK, RegistryOK, RunOK, KeysKept
  <2>2. StoreOK'
    BY <1>4, StoreKept DEF StartDrop
  <2> QED
    BY <1>4, <2>1, <2>2, IdleOK, OneThreadMoves DEF StartDrop, Return
<1> QED
  BY <1>2, <1>3, <1>4, StartRecordType, StartRegisterType DEF Start

LEMMA CancelCheckType ==
  ASSUME TypeInv, NEW c \in Call, NEW a \in Attempt, CancelCheck(c, a) PROVE TypeInv'
<1> DEFINE r == [Idle EXCEPT !.op = "cancel", !.pc = "mark", !.attempt = a,
                             !.status = "retry_failed"]
<1>1. r \in CallState /\ r.op = "cancel" /\ r.pc = "mark" /\ r.attempt = a
      /\ r.status = "retry_failed"
  BY DEF Idle, CallState, Op, Pc, Outcome
<1>2. run[a].key \in Key
  BY DEF CancelCheck, TypeInv, RunOK, Cancellable
<1>3. ThreadOK(r)
  BY <1>1, <1>2 DEF ThreadOK, Outcome
<1> QED
  BY <1>1, <1>3, BeginType DEF CancelCheck

\* A thread past its first locked section: its attempt, and the run there.
LEMMA Working ==
  ASSUME TypeInv, NEW c \in Call, call[c].op \notin {"none", "mark_route"},
         call[c].pc \notin {"idle", "record", "register"}
  PROVE  /\ call[c] \in CallState
         /\ call[c].attempt \in Attempt
         /\ run[call[c].attempt] \in RecoveryRun
         /\ run[call[c].attempt].key \in Key
         /\ ThreadOK(call[c])
BY DEF TypeInv, TypeOK, ThreadOK

LEMMA StatesAreStates == Terminal \subseteq RecoveryState /\ Cancellable \subseteq RecoveryState
                         /\ "applying" \in RecoveryState
BY DEF RecoveryState

LEMMA CancelFinishType ==
  ASSUME TypeInv, NEW c \in Call, CancelFinish(c) PROVE TypeInv'
<1> DEFINE a == call[c].attempt
<1>1. a \in Attempt /\ run[a] \in RecoveryRun /\ run[a].key \in Key
  BY Working DEF CancelFinish, At
<1>2. CASE UNCHANGED registry
  BY <1>2, StoreKept, ReturnType DEF CancelFinish
<1>3. CASE Transition(a, [run[a] EXCEPT !.state = "cancelled"])
  <2>1. [run[a] EXCEPT !.state = "cancelled"] \in RecoveryRun
        /\ [run[a] EXCEPT !.state = "cancelled"].key = run[a].key
    BY <1>1, RunRecord, StatesAreStates DEF Terminal
  <2> QED
    BY <1>1, <1>3, <2>1, CloseType DEF CancelFinish
<1> QED
  BY <1>2, <1>3 DEF CancelFinish

-----------------------------------------------------------------------------
(* freeze_run and thaw_run, and the lock server.                            *)

LEMMA LocksTyped ==
  ASSUME TypeInv, NEW files \in SUBSET File
  PROVE  /\ ReleaseFiles(files) => fileLock' \in [File -> Task \cup {None, Foreign}]
         /\ \A t \in Task : LockFiles(files, t) => fileLock' \in [File -> Task \cup {None, Foreign}]
BY DEF TypeInv, TypeOK, ReleaseFiles, LockFiles

LEMMA FreezeCheckType ==
  ASSUME TypeInv, NEW c \in Call, NEW a \in Attempt, NEW files \in SUBSET File,
         FreezeCheck(c, a, files)
  PROVE  TypeInv'
<1> DEFINE r == [Idle EXCEPT !.op = "freeze", !.pc = "lock", !.attempt = a, !.files = files]
<1>1. r \in CallState /\ r.op = "freeze" /\ r.pc = "lock" /\ r.attempt = a
  BY DEF Idle, CallState, Op, Pc
<1>2. run[a].key \in Key
  BY DEF FreezeCheck, TypeInv, RunOK
<1>3. ThreadOK(r)
  BY <1>1, <1>2 DEF ThreadOK
<1> QED
  BY <1>1, <1>3, BeginType DEF FreezeCheck

LEMMA FreezeType ==
  ASSUME TypeInv, NEW c \in Call, Freeze(c) PROVE TypeInv'
<1> DEFINE a == call[c].attempt
<1>1. /\ a \in Attempt /\ run[a] \in RecoveryRun /\ run[a].key \in Key
      /\ call[c].files \in SUBSET File /\ call[c].op = "freeze"
      /\ call[c].pc \notin {"idle", "record", "register"}
  BY Working
  DEF Freeze, FreezeLock, FreezeSnapshot, FreezeRollback, FreezeCompensate, FreezePersist,
      At, CallState
<1>2. {"snapshot", "rollback", "persist"} \subseteq Pc \ {"idle", "record", "register"}
  BY DEF Pc
<1>3. CASE FreezeLock(c)
  <2>1. TaskOf[run[a].key] \in Task
    BY <1>1, ConstantsAssumption
  <2>2. fileLock' \in [File -> Task \cup {None, Foreign}]
    BY <1>1, <1>3, <2>1, LocksTyped DEF FreezeLock, TypeInv, TypeOK
  <2>3. StoreOK' /\ UNCHANGED registry
    BY <1>3, <2>2 DEF FreezeLock, TypeInv, TypeOK, StoreOK, registry, ledger
  <2>4. CASE Goto(c, "snapshot")
    BY <1>1, <1>2, <2>3, <2>4, GotoType
  <2>5. CASE Return(c)
    BY <2>3, <2>5, ReturnType
  <2> QED
    BY <1>3, <2>4, <2>5 DEF FreezeLock
<1>4. CASE FreezeSnapshot(c)
  BY <1>1, <1>2, <1>4, StoreKept, GotoType DEF FreezeSnapshot
<1>5. CASE FreezeRollback(c)
  <2>1. StoreOK' /\ UNCHANGED registry
    BY <1>1, <1>5, LocksTyped DEF FreezeRollback, TypeInv, TypeOK, StoreOK, registry, ledger
  <2>2. call \in [Call -> CallState] /\ call[c] \in CallState /\ ThreadOK(call[c])
    BY DEF TypeInv, TypeOK
  <2> DEFINE r == [call[c] EXCEPT !.pc = "mark", !.status = "retry_failed"]
  <2>3. r \in CallState /\ r.op = "freeze" /\ r.pc = "mark" /\ r.attempt = a
        /\ r.status = "retry_failed"
    BY <1>1, <2>2 DEF CallState, Pc, Outcome
  <2>4. ThreadOK(r)
    BY <1>1, <2>3 DEF ThreadOK, Outcome
  <2>5. call' = [call EXCEPT ![c] = r]
    BY <1>5, <2>2 DEF FreezeRollback
  <2> QED
    BY <2>1, <2>3, <2>4, <2>5, OneThreadMovesOutside
<1>6. CASE FreezeCompensate(c)
  <2>1. [run[a] EXCEPT !.state = "retry_failed"] \in RecoveryRun
        /\ [run[a] EXCEPT !.state = "retry_failed"].key = run[a].key
    BY <1>1, RunRecord, StatesAreStates DEF Terminal
  <2> QED
    BY <1>1, <1>6, <2>1, CloseType DEF FreezeCompensate
<1>7. CASE FreezePersist(c)
  <2>1. [run[a] EXCEPT !.state = "proposing", !.locked = call[c].files] \in RecoveryRun
        /\ [run[a] EXCEPT !.state = "proposing", !.locked = call[c].files].key = run[a].key
    BY <1>1, StatesAreStates DEF RecoveryRun, Cancellable
  <2> QED
    BY <1>1, <1>7, <2>1, CloseType DEF FreezePersist
<1> QED
  BY <1>3, <1>4, <1>5, <1>6, <1>7 DEF Freeze

LEMMA ThawCheckType ==
  ASSUME TypeInv, NEW c \in Call, NEW a \in Attempt, ThawCheck(c, a) PROVE TypeInv'
<1> DEFINE r == [Idle EXCEPT !.op = "thaw", !.pc = "release", !.attempt = a,
                             !.files = run[a].locked]
<1>1. run[a].key \in Key /\ run[a].locked \in SUBSET File
  BY DEF ThawCheck, TypeInv, TypeOK, RunOK, RecoveryRun
<1>2. r \in CallState /\ r.op = "thaw" /\ r.pc = "release" /\ r.attempt = a
  BY <1>1 DEF Idle, CallState, Op, Pc
<1>3. ThreadOK(r)
  BY <1>1, <1>2 DEF ThreadOK
<1> QED
  BY <1>2, <1>3, BeginType DEF ThawCheck

LEMMA ThawReleaseType ==
  ASSUME TypeInv, NEW c \in Call, ThawRelease(c) PROVE TypeInv'
<1>1. call[c].files \in SUBSET File /\ "forget" \in Pc \ {"idle", "record", "register"}
  BY DEF TypeInv, TypeOK, CallState, Pc
<1>2. StoreOK' /\ UNCHANGED registry
  BY <1>1, LocksTyped DEF ThawRelease, TypeInv, TypeOK, StoreOK, registry, ledger
<1>3. CASE Goto(c, "forget")
  BY <1>1, <1>2, <1>3, GotoType DEF ThawRelease
<1>4. CASE Return(c)
  BY <1>2, <1>4, ReturnType
<1> QED
  BY <1>3, <1>4 DEF ThawRelease

LEMMA ThawForgetType ==
  ASSUME TypeInv, NEW c \in Call, ThawForget(c) PROVE TypeInv'
<1> DEFINE a == call[c].attempt
           r == [run[a] EXCEPT !.locked = {}]
<1>1. run \in [Attempt -> RecoveryRun] /\ run' = [run EXCEPT ![a] = r]
  BY DEF ThawForget, TypeInv, TypeOK
<1>2. a \in Attempt
  BY DEF ThawForget, TypeInv, ThreadOK
<1>3. r \in RecoveryRun /\ r.key = run[a].key /\ r.state = run[a].state
  BY <1>1, <1>2 DEF RecoveryRun
<1> HIDE DEF a, r
<1>4. run' \in [Attempt -> RecoveryRun]
      /\ \A b \in Attempt : run'[b].key = run[b].key /\ run'[b].state = run[b].state
  BY <1>1, <1>2, <1>3
<1>5. RegistryOK' /\ KeysKept
  BY <1>4 DEF ThawForget, TypeInv, TypeOK, RegistryOK, RunOK, KeysKept
<1>6. StoreOK'
  BY StoreKept DEF ThawForget
<1> QED
  BY <1>5, <1>6, IdleOK, OneThreadMoves DEF ThawForget, Return

LEMMA LockServerType ==
  ASSUME TypeInv, NEW f \in File, LockServerStep(f) PROVE TypeInv'
<1>1. fileLock' \in [File -> Task \cup {None, Foreign}]
  BY DEF LockServerStep, TypeInv, TypeOK
<1>2. TypeOK' /\ RunOK'
  BY <1>1 DEF LockServerStep, TypeInv, TypeOK, RunOK, registry, ledger
<1>3. \A d \in Call : ThreadOK(call[d])'
  BY DEF LockServerStep, TypeInv, ThreadOK, registry, ledger
<1> QED
  BY <1>2, <1>3 DEF TypeInv

LEMMA RecordRouteType ==
  ASSUME TypeInv, NEW a \in Attempt, RecordRoute(a) PROVE TypeInv'
<1>1. TypeOK' /\ RunOK'
  BY DEF RecordRoute, TypeInv, TypeOK, RunOK, registry, ledger
<1>2. \A d \in Call : ThreadOK(call[d])'
  BY DEF RecordRoute, TypeInv, ThreadOK, registry, ledger
<1> QED
  BY <1>1, <1>2 DEF TypeInv

LEMMA RestartType ==
  ASSUME TypeInv, Restart PROVE TypeInv'
<1>1. NoRun \in RecoveryRun /\ NoRun.state = "absent"
  BY DEF NoRun, NoReview, RecoveryRun, Review
<1>2. TypeOK' /\ RunOK'
  BY <1>1, IdleOK DEF Restart, TypeInv, TypeOK, RunOK
<1>3. \A d \in Call : call'[d] = Idle
  BY DEF Restart
<1>4. \A d \in Call : ThreadOK(call[d])'
  BY <1>3 DEF ThreadOK, Idle
<1> QED
  BY <1>2, <1>4 DEF TypeInv

-----------------------------------------------------------------------------
(* propose_fix, review_proposal, apply_proposal, resume_run.                *)

LEMMA ProposeCheckType ==
  ASSUME TypeInv, NEW c \in Call, NEW a \in Attempt, ProposeCheck(c, a) PROVE TypeInv'
<1> DEFINE r == [Idle EXCEPT !.op = "propose", !.pc = "adapter", !.attempt = a]
<1>1. r \in CallState /\ r.op = "propose" /\ r.pc = "adapter" /\ r.attempt = a
  BY DEF Idle, CallState, Op, Pc
<1>2. run[a].key \in Key
  BY DEF ProposeCheck, TypeInv, RunOK
<1>3. ThreadOK(r)
  BY <1>1, <1>2 DEF ThreadOK
<1> QED
  BY <1>1, <1>3, BeginType DEF ProposeCheck

LEMMA ReviewCheckType ==
  ASSUME TypeInv, NEW c \in Call, NEW a \in Attempt, NEW p \in Proposal, ReviewCheck(c, a, p)
  PROVE  TypeInv'
<1> DEFINE r == [Idle EXCEPT !.op = "review", !.pc = "adapter", !.attempt = a, !.proposal = p]
<1>1. r \in CallState /\ r.op = "review" /\ r.pc = "adapter" /\ r.attempt = a
  BY DEF Idle, CallState, Op, Pc
<1>2. run[a].key \in Key
  BY DEF ReviewCheck, TypeInv, RunOK
<1>3. ThreadOK(r)
  BY <1>1, <1>2 DEF ThreadOK
<1> QED
  BY <1>1, <1>3, BeginType DEF ReviewCheck

LEMMA ProposeFinishType ==
  ASSUME TypeInv, NEW c \in Call, NEW p \in Proposal, ProposeFinish(c, p) PROVE TypeInv'
<1> DEFINE a == call[c].attempt
           s == [run[a] EXCEPT !.state = "reviewing", !.proposal = p]
<1>1. a \in Attempt /\ run[a] \in RecoveryRun /\ run[a].key \in Key
  BY Working DEF ProposeFinish, At
<1>2. CASE UNCHANGED registry
  BY <1>2, StoreKept, ReturnType DEF ProposeFinish
<1>3. CASE Transition(a, s)
  <2>1. s \in RecoveryRun /\ s.key = run[a].key
    BY <1>1, StatesAreStates DEF RecoveryRun, Cancellable
  <2> QED
    BY <1>1, <1>3, <2>1, CloseType DEF ProposeFinish
<1> QED
  BY <1>2, <1>3 DEF ProposeFinish

LEMMA ReviewFinishType ==
  ASSUME TypeInv, NEW c \in Call, NEW v \in Verdict, ReviewFinish(c, v) PROVE TypeInv'
<1> DEFINE a == call[c].attempt
           s == [run[a] EXCEPT
                  !.state = IF v = "approved" THEN "awaiting_human_confirm" ELSE "reviewing",
                  !.review = [verdict |-> v, proposal |-> call[c].proposal]]
<1>1. a \in Attempt /\ run[a] \in RecoveryRun /\ run[a].key \in Key
      /\ call[c].proposal \in Proposal \cup {None}
  BY Working DEF ReviewFinish, At, CallState
<1>2. CASE UNCHANGED registry
  BY <1>2, StoreKept, ReturnType DEF ReviewFinish
<1>3. CASE Transition(a, s)
  <2>1. [verdict |-> v, proposal |-> call[c].proposal] \in Review
    BY <1>1 DEF Review
  <2>2. s \in RecoveryRun /\ s.key = run[a].key
    BY <1>1, <2>1, StatesAreStates DEF RecoveryRun, Cancellable
  <2> QED
    BY <1>1, <1>3, <2>2, CloseType DEF ReviewFinish
<1> QED
  BY <1>2, <1>3 DEF ReviewFinish

LEMMA ApplyCheckType ==
  ASSUME TypeInv, NEW c \in Call, NEW a \in Attempt, NEW p \in Proposal, ApplyCheck(c, a, p)
  PROVE  TypeInv'
<1> DEFINE r == [Idle EXCEPT !.op = "apply", !.pc = "check", !.attempt = a, !.proposal = p]
           s == [run[a] EXCEPT !.state = "applying"]
<1>1. r \in CallState /\ r.op = "apply" /\ r.pc = "check" /\ r.attempt = a /\ r.proposal = p
  BY DEF Idle, CallState, Op, Pc
<1>2. run[a] \in RecoveryRun /\ run[a].key \in Key
  BY DEF ApplyCheck, TypeInv, TypeOK, RunOK
<1>3. s \in RecoveryRun /\ s.key = run[a].key
  BY <1>2, RunRecord, StatesAreStates
<1>4. Transition(a, s)
  BY DEF ApplyCheck
<1>5. RegistryOK' /\ KeysKept
  BY <1>2, <1>3, <1>4, TransitionType
<1>6. StoreOK'
  BY StoreKept DEF ApplyCheck
<1>7. ThreadOK(r)'
  BY <1>1, <1>2, <1>5 DEF ThreadOK, KeysKept
<1>8. call' = [call EXCEPT ![c] = r]
  BY DEF ApplyCheck
<1> QED
  BY <1>1, <1>5, <1>6, <1>7, <1>8, OneThreadMoves

LEMMA ApplyRaiseType ==
  ASSUME TypeInv, UNCHANGED registry, StoreOK', NEW c \in Call, call[c].op = "apply",
         call[c].pc \notin {"idle", "record", "register"}, ApplyRaise(c)
  PROVE  TypeInv'
<1>1. call \in [Call -> CallState] /\ call[c] \in CallState /\ ThreadOK(call[c])
  BY DEF TypeInv, TypeOK
<1> DEFINE r == [call[c] EXCEPT !.pc = "mark", !.status = "retry_failed"]
<1>2. r \in CallState /\ r.op = "apply" /\ r.pc = "mark" /\ r.attempt = call[c].attempt
      /\ r.proposal = call[c].proposal /\ r.status = "retry_failed"
  BY <1>1 DEF CallState, Pc, Outcome
<1>3. ThreadOK(r)
  BY <1>1, <1>2 DEF ThreadOK, Outcome
<1>4. call' = [call EXCEPT ![c] = r]
  BY <1>1 DEF ApplyRaise
<1> QED
  BY <1>2, <1>3, <1>4, OneThreadMovesOutside

LEMMA ApplyType ==
  ASSUME TypeInv, NEW c \in Call, Apply(c) PROVE TypeInv'
<1> DEFINE a == call[c].attempt
<1>1. /\ a \in Attempt /\ run[a] \in RecoveryRun /\ run[a].key \in Key
      /\ call[c].op = "apply" /\ call[c].proposal \in Proposal
      /\ call[c].pc \notin {"idle", "record", "register"}
  BY Working
  DEF Apply, PatchCheck, PatchReplace, PatchEvidence, ApplyFinish, ApplyCompensate, At, ThreadOK
<1>2. {"replace", "evidence", "applied"} \subseteq Pc \ {"idle", "record", "register"}
  BY DEF Pc
<1>3. CASE PatchCheck(c)
  <2>1. StoreOK' /\ UNCHANGED registry
    BY <1>3, StoreKept DEF PatchCheck
  <2>2. CASE Goto(c, "replace")
    BY <1>1, <1>2, <2>1, <2>2, GotoType
  <2>3. CASE ApplyRaise(c)
    BY <1>1, <2>1, <2>3, ApplyRaiseType
  <2> QED
    BY <1>3, <2>2, <2>3 DEF PatchCheck
<1>4. CASE PatchReplace(c)
  <2>1. patched' \in [Attempt -> SUBSET Proposal]
    BY <1>1, <1>4 DEF PatchReplace, TypeInv, TypeOK
  <2>2. StoreOK' /\ UNCHANGED registry
    BY <1>4, <2>1 DEF PatchReplace, TypeInv, TypeOK, StoreOK, ledger
  <2> QED
    BY <1>1, <1>2, <1>4, <2>2, GotoType DEF PatchReplace
<1>5. CASE PatchEvidence(c)
  <2>1. StoreOK' /\ UNCHANGED registry
    BY <1>5, StoreKept DEF PatchEvidence
  <2>2. CASE Goto(c, "applied")
    BY <1>1, <1>2, <2>1, <2>2, GotoType
  <2>3. CASE ApplyRaise(c)
    BY <1>1, <2>1, <2>3, ApplyRaiseType
  <2> QED
    BY <1>5, <2>2, <2>3 DEF PatchEvidence
<1>6. CASE ApplyFinish(c)
  <2>1. [run[a] EXCEPT !.state = "re_running_gate"] \in RecoveryRun
        /\ [run[a] EXCEPT !.state = "re_running_gate"].key = run[a].key
    BY <1>1, RunRecord, StatesAreStates DEF Cancellable
  <2> QED
    BY <1>1, <1>6, <2>1, CloseType DEF ApplyFinish
<1>7. CASE ApplyCompensate(c)
  <2>1. [run[a] EXCEPT !.state = "retry_failed"] \in RecoveryRun
        /\ [run[a] EXCEPT !.state = "retry_failed"].key = run[a].key
    BY <1>1, RunRecord, StatesAreStates DEF Terminal
  <2> QED
    BY <1>1, <1>7, <2>1, CloseType DEF ApplyCompensate
<1> QED
  BY <1>3, <1>4, <1>5, <1>6, <1>7 DEF Apply

LEMMA ResumeCheckType ==
  ASSUME TypeInv, NEW c \in Call, NEW a \in Attempt, ResumeCheck(c, a) PROVE TypeInv'
<1> DEFINE r == [Idle EXCEPT !.op = "resume", !.pc = "gate", !.attempt = a]
<1>1. r \in CallState /\ r.op = "resume" /\ r.pc = "gate" /\ r.attempt = a
  BY DEF Idle, CallState, Op, Pc
<1>2. run[a].key \in Key
  BY DEF ResumeCheck, TypeInv, RunOK
<1>3. ThreadOK(r)
  BY <1>1, <1>2 DEF ThreadOK
<1> QED
  BY <1>1, <1>3, BeginType DEF ResumeCheck

LEMMA ResumeType ==
  ASSUME TypeInv, NEW c \in Call, Resume(c) PROVE TypeInv'
<1> DEFINE a == call[c].attempt
<1>1. /\ a \in Attempt /\ run[a] \in RecoveryRun /\ run[a].key \in Key
      /\ call[c].op = "resume" /\ call[c].pc \notin {"idle", "record", "register"}
      /\ call \in [Call -> CallState] /\ call[c] \in CallState /\ ThreadOK(call[c])
  BY Working DEF Resume, ResumeGate, ResumeFinish, ResumeThaw, At, TypeInv, TypeOK
<1>2. CASE ResumeGate(c)
  <2>1. StoreOK' /\ UNCHANGED registry
    BY <1>2, StoreKept DEF ResumeGate
  <2>2. CASE Return(c)
    BY <2>1, <2>2, ReturnType
  <2>3. ASSUME NEW s \in {"recovered", "escalated"},
               call' = [call EXCEPT ![c].pc = "mark", ![c].status = s]
        PROVE  TypeInv'
    <3> DEFINE r == [call[c] EXCEPT !.pc = "mark", !.status = s]
    <3>1. r \in CallState /\ r.op = "resume" /\ r.pc = "mark" /\ r.attempt = a /\ r.status = s
      BY <1>1 DEF CallState, Pc, Outcome
    <3>2. ThreadOK(r)
      BY <1>1, <3>1 DEF ThreadOK, Outcome
    <3>3. call' = [call EXCEPT ![c] = r]
      BY <1>1, <2>3
    <3> QED
      BY <2>1, <3>1, <3>2, <3>3, OneThreadMovesOutside
  <2> QED
    BY <1>2, <2>2, <2>3 DEF ResumeGate
<1>3. CASE ResumeFinish(c)
  <2> DEFINE s == [run[a] EXCEPT !.state = call[c].status]
  <2>1. call[c].status \in RecoveryState
    BY <1>1, <1>3, StatesAreStates DEF ResumeFinish, At, ThreadOK, Terminal
  <2>2. s \in RecoveryRun /\ s.key = run[a].key
    BY <1>1, <2>1, RunRecord
  <2>3. RegistryOK' /\ KeysKept
    BY <1>1, <1>3, <2>2, TransitionType DEF ResumeFinish
  <2>4. StoreOK' /\ "thaw" \in Pc
    BY <1>3, StoreKept DEF ResumeFinish, Pc
  <2>5. PICK r \in CallState :
           /\ call' = [call EXCEPT ![c] = r]
           /\ r.pc = "thaw" /\ r.op = call[c].op /\ r.attempt = call[c].attempt
           /\ r.key = call[c].key /\ r.proposal = call[c].proposal /\ r.status = call[c].status
           /\ r.files = call[c].files
    BY <1>3, <2>4, GotoRecord DEF ResumeFinish
  <2>6. ThreadOK(r)'
    BY <1>1, <2>3, <2>5 DEF ThreadOK, KeysKept
  <2> QED
    BY <2>3, <2>4, <2>5, <2>6, OneThreadMoves
<1>4. CASE ResumeThaw(c)
  <2>1. StoreOK' /\ UNCHANGED registry
    BY <1>4, StoreKept DEF ResumeThaw
  <2>2. CASE Return(c)
    BY <2>1, <2>2, ReturnType
  <2>3. CASE call' = [call EXCEPT ![c].pc = "release", ![c].files = run[a].locked]
    <3> DEFINE r == [call[c] EXCEPT !.pc = "release", !.files = run[a].locked]
    <3>1. run[a].locked \in SUBSET File
      BY <1>1 DEF RecoveryRun
    <3>2. r \in CallState /\ r.op = "resume" /\ r.pc = "release" /\ r.attempt = a
      BY <1>1, <3>1 DEF CallState, Pc
    <3>3. ThreadOK(r)
      BY <1>1, <3>2 DEF ThreadOK
    <3>4. call' = [call EXCEPT ![c] = r]
      BY <1>1, <2>3
    <3> QED
      BY <2>1, <3>2, <3>3, <3>4, OneThreadMovesOutside
  <2> QED
    BY <1>4, <2>2, <2>3 DEF ResumeThaw
<1> QED
  BY <1>2, <1>3, <1>4 DEF Resume

LEMMA AdapterFailType ==
  ASSUME TypeInv, NEW c \in Call, AdapterFail(c) PROVE TypeInv'
BY StoreKept, ReturnType DEF AdapterFail

-----------------------------------------------------------------------------
LEMMA NextType == TypeInv /\ [Next]_vars => TypeInv'
<1> SUFFICES ASSUME TypeInv, [Next]_vars PROVE TypeInv'
  OBVIOUS
<1>1. ASSUME NEW c \in Call, Request(c) PROVE TypeInv'
  BY <1>1, StartCheckType, CancelCheckType, ThawCheckType, ProposeCheckType, ResumeCheckType,
     FreezeCheckType, ReviewCheckType, ApplyCheckType, MarkRouteType DEF Request
<1>2. ASSUME NEW c \in Call, Step(c) PROVE TypeInv'
  BY <1>2, MarkType, StartType, CancelFinishType, FreezeType, ApplyType, ResumeType,
     ThawReleaseType, ThawForgetType, AdapterFailType, ProposeFinishType, ReviewFinishType
  DEF Step
<1>3. CASE UNCHANGED vars
  <2>1. TypeOK' /\ RunOK'
    BY <1>3 DEF vars, TypeInv, TypeOK, RunOK
  <2>2. \A d \in Call : ThreadOK(call[d])'
    BY <1>3 DEF vars, TypeInv, ThreadOK
  <2> QED
    BY <2>1, <2>2 DEF TypeInv
<1> QED
  BY <1>1, <1>2, <1>3, RecordRouteType, LockServerType, RestartType DEF Next

\* In every reachable state the registry, the ledger, the locks and the threads
\* have their shapes: in particular no step of start_recovery, of the saga or of
\* the ledger works on an attempt or a pair that does not exist.
THEOREM TypeCorrect == Spec => []TypeOK
<1>1. Spec => []TypeInv
  BY InitType, NextType, PTL DEF Spec
<1>2. TypeInv => TypeOK
  BY DEF TypeInv
<1> QED
  BY <1>1, <1>2, PTL

-----------------------------------------------------------------------------
(* The saga and the ledger: the inductive invariant.                        *)

\* What a thread that works on an attempt knows of the attempt's rows.
LedgerThread(c) ==
  /\ call[c].op \notin {"none", "mark_route"} /\ call[c].pc \notin {"idle", "record"}
       => call[c].attempt \in failures
  /\ call[c].pc = "append"
       => ledgerLock = c /\ call[c].attempt \in failures /\ outcomes[call[c].attempt] = << >>
  /\ call[c].op = "cancel" /\ call[c].pc \in {"mark", "append"}
       => call[c].status = "retry_failed"
  /\ call[c].op = "cancel" /\ call[c].pc = "finish"
       => outcomes[call[c].attempt] = << "retry_failed" >>
  /\ ~Faults /\ call[c].op \in {"freeze", "apply", "resume"} /\ call[c].pc = "finish"
       => outcomes[call[c].attempt] # << >>
  /\ call[c].pc = "escalate" => outcomes[call[c].attempt] # << >>

\* What the state of a run says of the attempt's rows.
RunClosed(a) ==
  /\ run[a].state # "absent" => a \in failures
  /\ run[a].state = "cancelled" => outcomes[a] = << "retry_failed" >>
  /\ ~Faults /\ run[a].state \in Terminal => outcomes[a] # << >>

\* An attempt has a failure row before an outcome row, and one outcome row.
RowsOK ==
  \A a \in Attempt : outcomes[a] = << >> \/ (a \in failures /\ \E s \in Outcome : outcomes[a] = << s >>)

LedgerInv ==
  /\ RowsOK
  /\ \A a \in Attempt : RunClosed(a)
  /\ \A c \in Call : LedgerThread(c)

LEMMA InitLedger == Init => LedgerInv
<1> SUFFICES ASSUME Init PROVE LedgerInv
  OBVIOUS
<1>1. RowsOK
  BY DEF Init, RowsOK
<1>2. \A a \in Attempt : RunClosed(a)
  BY DEF Init, RunClosed, NoRun, Terminal
<1>3. \A c \in Call : LedgerThread(c)
  BY DEF Init, LedgerThread, Idle
<1> QED
  BY <1>1, <1>2, <1>3 DEF LedgerInv

\* One thread moves, the ledger stays as it is.
LEMMA LedgerFrame ==
  ASSUME LedgerInv, UNCHANGED ledger, NEW c \in Call,
         \A d \in Call \ {c} : call'[d] = call[d],
         LedgerThread(c)', \A a \in Attempt : RunClosed(a)'
  PROVE  LedgerInv'
<1>1. RowsOK'
  BY DEF LedgerInv, RowsOK, ledger
<1>2. ASSUME NEW d \in Call \ {c} PROVE LedgerThread(d)'
  BY DEF LedgerInv, LedgerThread, ledger
<1> QED
  BY <1>1, <1>2 DEF LedgerInv

LEMMA RunsKept ==
  ASSUME LedgerInv, UNCHANGED ledger, \A a \in Attempt : run'[a].state = run[a].state
  PROVE  \A a \in Attempt : RunClosed(a)'
BY DEF LedgerInv, RunClosed, ledger

LEMMA ThreadMoves ==
  ASSUME TypeOK, NEW c \in Call
  PROVE  /\ \A pc \in Pc : Goto(c, pc) =>
              /\ \A d \in Call \ {c} : call'[d] = call[d]
              /\ call'[c].pc = pc /\ call'[c].op = call[c].op /\ call'[c].attempt = call[c].attempt
              /\ call'[c].status = call[c].status
         /\ Return(c) =>
              /\ \A d \in Call \ {c} : call'[d] = call[d]
              /\ call'[c].pc = "idle" /\ call'[c].op = "none"
         /\ \A r \in CallState : Begin(c, r) =>
              /\ \A d \in Call \ {c} : call'[d] = call[d]
              /\ call'[c] = r
<1>1. call \in [Call -> CallState]
  BY DEF TypeOK
<1>2. Idle.pc = "idle" /\ Idle.op = "none"
  BY DEF Idle
<1>3. ASSUME NEW pc \in Pc, Goto(c, pc)
      PROVE  /\ \A d \in Call \ {c} : call'[d] = call[d]
             /\ call'[c].pc = pc /\ call'[c].op = call[c].op /\ call'[c].attempt = call[c].attempt
             /\ call'[c].status = call[c].status
  BY <1>1, <1>3 DEF Goto, CallState
<1>4. ASSUME Return(c)
      PROVE  /\ \A d \in Call \ {c} : call'[d] = call[d]
             /\ call'[c].pc = "idle" /\ call'[c].op = "none"
  BY <1>1, <1>2, <1>4 DEF Return
<1>5. ASSUME NEW r \in CallState, Begin(c, r)
      PROVE  /\ \A d \in Call \ {c} : call'[d] = call[d]
             /\ call'[c] = r
  BY <1>1, <1>5 DEF Begin
<1> QED
  BY <1>3, <1>4, <1>5

\* A step of a thread that neither touches the ledger nor changes the state of a
\* run, and ends or leads to a step before the thread writes to the ledger.
LEMMA QuietReturn ==
  ASSUME TypeInv, LedgerInv, UNCHANGED ledger, NEW c \in Call, Return(c),
         \A a \in Attempt : run'[a].state = run[a].state
  PROVE  LedgerInv'
<1>1. LedgerThread(c)' /\ \A d \in Call \ {c} : call'[d] = call[d]
  BY ThreadMoves DEF LedgerThread, TypeInv
<1> QED
  BY <1>1, LedgerFrame, RunsKept

LEMMA QuietGoto ==
  ASSUME TypeInv, LedgerInv, UNCHANGED ledger, NEW c \in Call,
         call[c].pc \notin {"idle", "record"},
         NEW pc \in Pc \ {"append", "finish", "escalate"}, Goto(c, pc),
         pc = "mark" => call[c].op # "cancel",
         \A a \in Attempt : run'[a].state = run[a].state
  PROVE  LedgerInv'
<1>1. LedgerThread(c)
  BY DEF LedgerInv
<1>2. LedgerThread(c)' /\ \A d \in Call \ {c} : call'[d] = call[d]
  BY <1>1, ThreadMoves DEF LedgerThread, TypeInv, ledger
<1> QED
  BY <1>2, LedgerFrame, RunsKept

LEMMA QuietBegin ==
  ASSUME TypeInv, LedgerInv, UNCHANGED <<registry, ledger>>, NEW c \in Call,
         NEW r \in CallState, Begin(c, r),
         r.op \in {"none", "mark_route"} \/ r.pc = "record" \/ r.attempt \in failures,
         r.pc \notin {"append", "finish", "escalate"},
         r.op = "cancel" => r.status = "retry_failed"
  PROVE  LedgerInv'
<1>1. LedgerThread(c)' /\ \A d \in Call \ {c} : call'[d] = call[d]
  BY ThreadMoves DEF LedgerThread, TypeInv, ledger
<1>2. \A a \in Attempt : run'[a].state = run[a].state
  BY DEF registry
<1> QED
  BY <1>1, <1>2, LedgerFrame, RunsKept

\* One run, with a failure row, changes its state.
LEMMA RunMoves ==
  ASSUME TypeInv, LedgerInv, UNCHANGED ledger, NEW a \in Attempt, a \in failures,
         NEW r \in RecoveryRun, Transition(a, r),
         r.state = "cancelled" => outcomes[a] = << "retry_failed" >>,
         ~Faults /\ r.state \in Terminal => outcomes[a] # << >>
  PROVE  \A b \in Attempt : RunClosed(b)'
<1>1. run'[a] = r /\ \A b \in Attempt \ {a} : run'[b] = run[b]
  BY DEF TypeInv, TypeOK, Transition
<1> QED
  BY <1>1 DEF LedgerInv, RunClosed, ledger

\* A second locked section that closes or moves the run and ends the call.
LEMMA CloseLedger ==
  ASSUME TypeInv, LedgerInv, UNCHANGED ledger, NEW c \in Call, Return(c),
         NEW a \in Attempt, a \in failures, NEW r \in RecoveryRun, Transition(a, r),
         r.state = "cancelled" => outcomes[a] = << "retry_failed" >>,
         ~Faults /\ r.state \in Terminal => outcomes[a] # << >>
  PROVE  LedgerInv'
<1>1. LedgerThread(c)' /\ \A d \in Call \ {c} : call'[d] = call[d]
  BY ThreadMoves DEF LedgerThread, TypeInv
<1> QED
  BY <1>1, LedgerFrame, RunMoves

-----------------------------------------------------------------------------
(* mark_recovery_outcome and record_step_failure.                           *)

\* After mark_recovery_outcome: a compensation carries on only with the attempt
\* closed (or with a faulty server), a cancel or an escalation only if it closed it.
LEMMA AfterMarkThread ==
  ASSUME TypeInv, NEW c \in Call, NEW ok \in BOOLEAN, AfterMark(c, ok),
         call[c].pc \notin {"idle", "record"},
         call[c].op \notin {"none", "mark_route"} => call[c].attempt \in failures',
         ok \/ ~Faults => call[c].op \in {"none", "mark_route"}
                          \/ outcomes'[call[c].attempt] # << >>,
         ok /\ call[c].op = "cancel" => outcomes'[call[c].attempt] = << "retry_failed" >>
  PROVE  LedgerThread(c)' /\ \A d \in Call \ {c} : call'[d] = call[d]
<1>1. {"finish", "escalate"} \subseteq Pc
  BY DEF Pc
<1>2. CASE Goto(c, "finish") /\ (call[c].op = "cancel" => ok)
  BY <1>1, <1>2, ThreadMoves DEF LedgerThread, TypeInv
<1>3. CASE Goto(c, "escalate") /\ ok /\ call[c].op = "start"
  BY <1>1, <1>3, ThreadMoves DEF LedgerThread, TypeInv
<1>4. CASE Return(c)
  BY <1>4, ThreadMoves DEF LedgerThread, TypeInv
<1> QED
  BY <1>2, <1>3, <1>4 DEF AfterMark

LEMMA MarkLedger ==
  ASSUME TypeInv, LedgerInv, NEW c \in Call, Mark(c) PROVE LedgerInv'
<1>1. ThreadOK(call[c]) /\ LedgerThread(c) /\ TypeOK /\ RowsOK
  BY DEF TypeInv, LedgerInv
<1>2. CASE MarkUnavailable(c)
  <2>1. call[c].pc = "mark" /\ Faults /\ AfterMark(c, FALSE) /\ UNCHANGED <<registry, ledger>>
    BY <1>2 DEF MarkUnavailable
  <2>2. LedgerThread(c)' /\ \A d \in Call \ {c} : call'[d] = call[d]
    BY <1>1, <2>1, AfterMarkThread DEF LedgerThread, ledger
  <2> QED
    BY <2>1, <2>2, LedgerFrame, RunsKept DEF registry
<1>3. CASE MarkScan(c) /\ AfterMark(c, FALSE) /\ ledgerLock' = None
  <2>1. /\ call[c].pc = "mark" /\ ledgerLock = None /\ UNCHANGED <<registry, ledger>>
        /\ call[c].attempt \notin failures \/ outcomes[call[c].attempt] # << >>
    <3>1. CASE call[c].attempt \in failures /\ outcomes[call[c].attempt] = << >>
      BY <1>3, <3>1, ConstantsAssumption DEF MarkScan
    <3>2. CASE ~(call[c].attempt \in failures /\ outcomes[call[c].attempt] = << >>)
      BY <1>3, <3>2 DEF MarkScan, ledger
    <3> QED
      BY <3>1, <3>2
  <2>2. LedgerThread(c)' /\ \A d \in Call \ {c} : call'[d] = call[d]
    BY <1>1, <1>3, <2>1, AfterMarkThread DEF LedgerThread, ledger
  <2> QED
    BY <2>1, <2>2, LedgerFrame, RunsKept DEF registry
<1>4. CASE MarkScan(c) /\ Goto(c, "append") /\ ledgerLock' = c
  <2>1. /\ call[c].pc = "mark" /\ ledgerLock = None /\ UNCHANGED <<registry, failures, outcomes>>
        /\ call[c].attempt \in failures /\ outcomes[call[c].attempt] = << >>
    BY <1>4, ConstantsAssumption DEF MarkScan
  <2>2. /\ \A d \in Call \ {c} : call'[d] = call[d]
        /\ call'[c].pc = "append" /\ call'[c].op = call[c].op
        /\ call'[c].attempt = call[c].attempt /\ call'[c].status = call[c].status
    <3>1. "append" \in Pc
      BY DEF Pc
    <3> QED
      BY <1>1, <1>4, <3>1, ThreadMoves
  <2>3. LedgerThread(c)'
    BY <1>1, <1>4, <2>1, <2>2 DEF LedgerThread
  <2>4. ASSUME NEW d \in Call \ {c} PROVE LedgerThread(d)'
    <3>1. LedgerThread(d) /\ call[d].pc # "append"
      BY <2>1, ConstantsAssumption DEF LedgerInv, LedgerThread
    <3> QED
      BY <2>1, <2>2, <3>1 DEF LedgerThread
  <2>5. RowsOK' /\ \A a \in Attempt : RunClosed(a)'
    BY <2>1 DEF LedgerInv, RowsOK, RunClosed, registry
  <2> QED
    BY <2>3, <2>4, <2>5 DEF LedgerInv
<1>5. CASE MarkAppend(c)
  <2> DEFINE a == call[c].attempt
             o == call[c].status
  <2>1. /\ call[c].pc = "append" /\ ledgerLock = c /\ a \in Attempt /\ a \in failures
        /\ outcomes[a] = << >> /\ o \in Outcome /\ UNCHANGED <<registry, failures>>
    BY <1>1, <1>5 DEF MarkAppend, ThreadOK, LedgerThread
  <2>2. Append(<< >>, o) = << o >>
    OBVIOUS
  <2>3. outcomes'[a] = << o >> /\ \A b \in Attempt \ {a} : outcomes'[b] = outcomes[b]
    BY <1>1, <1>5, <2>1, <2>2 DEF MarkAppend, TypeOK
  <2>4. << o >> # << >>
    OBVIOUS
  <2>5. PICK ok \in BOOLEAN : AfterMark(c, ok)
    BY <1>5, ConstantsAssumption DEF MarkAppend
  <2>6. call[c].op = "cancel" => o = "retry_failed"
    BY <1>1, <2>1 DEF LedgerThread
  <2>7. LedgerThread(c)' /\ \A d \in Call \ {c} : call'[d] = call[d]
    BY <1>1, <2>1, <2>3, <2>4, <2>5, <2>6, AfterMarkThread
  <2>8. ASSUME NEW d \in Call \ {c} PROVE LedgerThread(d)'
    <3>1. LedgerThread(d) /\ ThreadOK(call[d]) /\ call[d].pc # "append"
      BY <2>1 DEF LedgerInv, LedgerThread, TypeInv
    <3>2. call[d].pc \notin {"idle", "record"} => call[d].attempt \in Attempt
      BY <3>1 DEF ThreadOK
    <3>3. call[d].pc \notin {"idle", "record"} /\ outcomes[call[d].attempt] # << >>
            => outcomes'[call[d].attempt] = outcomes[call[d].attempt]
      BY <2>1, <2>3, <3>2
    <3>4. << "retry_failed" >> # << >>
      OBVIOUS
    <3> QED
      BY <2>1, <2>7, <3>1, <3>3, <3>4 DEF LedgerThread
  <2>9. RowsOK'
    BY <1>1, <2>1, <2>3 DEF RowsOK
  <2>10. ASSUME NEW b \in Attempt PROVE RunClosed(b)'
    <3>1. RunClosed(b) /\ run' = run /\ failures' = failures
      BY <2>1 DEF LedgerInv, registry
    <3>2. CASE b = a
      <4>1. run[b].state # "cancelled"
        BY <2>1, <2>4, <3>1, <3>2 DEF RunClosed
      <4> QED
        BY <2>3, <2>4, <3>1, <3>2, <4>1 DEF RunClosed
    <3>3. CASE b # a
      BY <2>3, <3>1, <3>3 DEF RunClosed
    <3> QED
      BY <3>2, <3>3
  <2> QED
    BY <2>7, <2>8, <2>9, <2>10 DEF LedgerInv
<1> QED
  BY <1>2, <1>3, <1>4, <1>5 DEF Mark, MarkScan

\* A failure row is added for a fresh attempt; the thread that added it, if any,
\* goes on to register the run.
LEMMA RowAdded ==
  ASSUME TypeInv, LedgerInv, NEW a \in Attempt, a \notin failures,
         failures' = failures \cup {a}, UNCHANGED <<registry, outcomes, ledgerLock>>,
         \A d \in Call : call'[d] = call[d] \/ LedgerThread(d)'
  PROVE  LedgerInv'
<1>1. ASSUME NEW d \in Call PROVE LedgerThread(d)'
  BY DEF LedgerInv, LedgerThread
<1>2. RowsOK' /\ \A b \in Attempt : RunClosed(b)'
  BY DEF LedgerInv, RowsOK, RunClosed, registry
<1> QED
  BY <1>1, <1>2 DEF LedgerInv

LEMMA RecordRouteLedger ==
  ASSUME TypeInv, LedgerInv, NEW a \in Attempt, RecordRoute(a) PROVE LedgerInv'
BY RowAdded DEF RecordRoute

LEMMA StartRecordLedger ==
  ASSUME TypeInv, LedgerInv, NEW c \in Call, NEW a \in Attempt, StartRecord(c, a)
  PROVE  LedgerInv'
<1>1. call[c].op = "start" /\ UNCHANGED <<registry, outcomes, ledgerLock>> /\ TypeOK
      /\ a \notin failures
  BY DEF StartRecord, At, TypeInv
<1>2. CASE UNCHANGED failures /\ Return(c)
  BY <1>1, <1>2, QuietReturn DEF ledger, registry
<1>3. CASE failures' = failures \cup {a} /\ Return(c)
  <2>1. LedgerThread(c)' /\ \A d \in Call \ {c} : call'[d] = call[d]
    BY <1>1, <1>3, ThreadMoves DEF LedgerThread
  <2> QED
    BY <1>1, <1>3, <2>1, RowAdded
<1>4. CASE /\ failures' = failures \cup {a}
           /\ call' = [call EXCEPT ![c].pc = "register", ![c].attempt = a, ![c].key = Redacted[@]]
  <2>1. call[c] \in CallState /\ call \in [Call -> CallState]
    BY <1>1 DEF TypeOK
  <2>2. /\ call'[c].op = "start" /\ call'[c].pc = "register" /\ call'[c].attempt = a
        /\ \A d \in Call \ {c} : call'[d] = call[d]
    BY <1>1, <1>4, <2>1 DEF CallState
  <2>3. LedgerThread(c)'
    BY <1>4, <2>2 DEF LedgerThread
  <2> QED
    BY <1>1, <1>4, <2>2, <2>3, RowAdded
<1> QED
  BY <1>2, <1>3, <1>4 DEF StartRecord

-----------------------------------------------------------------------------
(* The rest of start_recovery, and cancel_run.                              *)

LEMMA StartRegisterLedger ==
  ASSUME TypeInv, LedgerInv, NEW c \in Call, StartRegister(c) PROVE LedgerInv'
<1> DEFINE a == call[c].attempt
<1>1. /\ TypeOK /\ call[c] \in CallState /\ call \in [Call -> CallState]
      /\ call[c].op = "start" /\ call[c].pc = "register" /\ a \in Attempt
      /\ UNCHANGED ledger /\ a \in failures
  BY DEF StartRegister, At, TypeInv, TypeOK, ThreadOK, LedgerInv, LedgerThread
<1>2. run'[a] = NewRun(call[c].key) /\ \A b \in Attempt \ {a} : run'[b] = run[b]
  BY <1>1 DEF StartRegister, TypeOK
<1>3. run'[a].state = "created"
  BY <1>2 DEF NewRun, NoRun
<1>4. \A b \in Attempt : RunClosed(b)'
  BY <1>1, <1>2, <1>3 DEF LedgerInv, RunClosed, Terminal, ledger
<1>5. CASE Return(c)
  <2>1. LedgerThread(c)' /\ \A d \in Call \ {c} : call'[d] = call[d]
    BY <1>1, <1>5, ThreadMoves DEF LedgerThread
  <2> QED
    BY <1>1, <1>4, <2>1, LedgerFrame
<1>6. CASE call' = [call EXCEPT ![c].pc = "mark", ![c].status = "escalated"]
  <2>1. /\ call'[c].op = "start" /\ call'[c].pc = "mark" /\ call'[c].attempt = a
        /\ \A d \in Call \ {c} : call'[d] = call[d]
    BY <1>1, <1>6 DEF CallState
  <2>2. LedgerThread(c)'
    BY <1>1, <2>1 DEF LedgerThread, ledger
  <2> QED
    BY <1>1, <1>4, <2>1, <2>2, LedgerFrame
<1> QED
  BY <1>5, <1>6 DEF StartRegister

LEMMA StartLedger ==
  ASSUME TypeInv, LedgerInv, NEW c \in Call, Start(c) PROVE LedgerInv'
<1>1. CASE StartEscalate(c)
  <2> DEFINE a == call[c].attempt
  <2>1. /\ TypeOK /\ a \in Attempt /\ a \in failures /\ outcomes[a] # << >>
        /\ run[a] \in RecoveryRun /\ UNCHANGED ledger
        /\ call[c].op = "start" /\ call[c].pc = "escalate"
    BY <1>1 DEF StartEscalate, At, TypeInv, TypeOK, ThreadOK, LedgerInv, LedgerThread
  <2>2. run'[a].state = "escalated" /\ \A b \in Attempt \ {a} : run'[b] = run[b]
    BY <1>1, <2>1 DEF StartEscalate, TypeOK, RecoveryRun
  <2>3. \A b \in Attempt : RunClosed(b)'
    BY <2>1, <2>2 DEF LedgerInv, RunClosed, ledger
  <2>4. "lookup" \in Pc
    BY DEF Pc
  <2>5. LedgerThread(c)' /\ \A d \in Call \ {c} : call'[d] = call[d]
    BY <1>1, <2>1, <2>4, ThreadMoves DEF StartEscalate, LedgerThread, ledger
  <2> QED
    BY <2>1, <2>3, <2>5, LedgerFrame
<1>2. CASE StartLookup(c)
  <2>1. /\ UNCHANGED ledger /\ \A a \in Attempt : run'[a].state = run[a].state
        /\ call[c].pc = "lookup" /\ "drop" \in Pc \ {"append", "finish", "escalate"}
    BY <1>2 DEF StartLookup, At, registry, Pc
  <2> QED
    BY <1>2, <2>1, QuietGoto, QuietReturn DEF StartLookup
<1>3. CASE StartDrop(c)
  BY <1>3, QuietReturn DEF StartDrop
<1> QED
  BY <1>1, <1>2, <1>3, StartRecordLedger, StartRegisterLedger DEF Start

LEMMA CancelCheckLedger ==
  ASSUME TypeInv, LedgerInv, NEW c \in Call, NEW a \in Attempt, CancelCheck(c, a)
  PROVE  LedgerInv'
<1> DEFINE r == [Idle EXCEPT !.op = "cancel", !.pc = "mark", !.attempt = a,
                             !.status = "retry_failed"]
<1>1. r \in CallState /\ r.op = "cancel" /\ r.pc = "mark" /\ r.attempt = a
      /\ r.status = "retry_failed"
  BY DEF Idle, CallState, Op, Pc, Outcome
<1>2. a \in failures
  BY DEF CancelCheck, LedgerInv, RunClosed, Cancellable
<1> QED
  BY <1>1, <1>2, QuietBegin DEF CancelCheck

\* A working thread's attempt has a failure row.
LEMMA WorkingLedger ==
  ASSUME TypeInv, LedgerInv, NEW c \in Call, call[c].op \notin {"none", "mark_route"},
         call[c].pc \notin {"idle", "record", "register"}
  PROVE  /\ call[c].attempt \in Attempt /\ call[c].attempt \in failures
         /\ run[call[c].attempt] \in RecoveryRun
         /\ LedgerThread(c)
BY Working DEF LedgerInv, LedgerThread

LEMMA CancelFinishLedger ==
  ASSUME TypeInv, LedgerInv, NEW c \in Call, CancelFinish(c) PROVE LedgerInv'
<1> DEFINE a == call[c].attempt
<1>1. /\ a \in Attempt /\ a \in failures /\ run[a] \in RecoveryRun
      /\ outcomes[a] = << "retry_failed" >> /\ UNCHANGED ledger /\ Return(c)
  BY WorkingLedger DEF CancelFinish, At, LedgerThread
<1>2. CASE UNCHANGED registry
  BY <1>1, <1>2, QuietReturn DEF registry
<1>3. CASE Transition(a, [run[a] EXCEPT !.state = "cancelled"])
  <2>1. [run[a] EXCEPT !.state = "cancelled"] \in RecoveryRun
    BY <1>1, RunRecord, StatesAreStates DEF Terminal
  <2>2. << "retry_failed" >> # << >>
    OBVIOUS
  <2> QED
    BY <1>1, <1>3, <2>1, <2>2, CloseLedger
<1> QED
  BY <1>2, <1>3 DEF CancelFinish

LEMMA MarkRouteLedger ==
  ASSUME TypeInv, LedgerInv, NEW c \in Call, NEW a \in Attempt, NEW s \in RouteOutcome,
         MarkRoute(c, a, s)
  PROVE  LedgerInv'
<1> DEFINE r == [Idle EXCEPT !.op = "mark_route", !.pc = "mark", !.attempt = a, !.status = s]
<1>1. r \in CallState /\ r.op = "mark_route" /\ r.pc = "mark"
  BY ConstantsAssumption DEF Idle, CallState, Op, Pc, Outcome
<1> QED
  BY <1>1, QuietBegin DEF MarkRoute

LEMMA StartCheckLedger ==
  ASSUME TypeInv, LedgerInv, NEW c \in Call, NEW k \in Key, StartCheck(c, k) PROVE LedgerInv'
<1> DEFINE r == [Idle EXCEPT !.op = "start", !.pc = "record", !.key = k]
<1>1. r \in CallState /\ r.op = "start" /\ r.pc = "record"
  BY DEF Idle, CallState, Op, Pc
<1>2. LedgerThread(c)' /\ \A d \in Call \ {c} : call'[d] = call[d]
  BY <1>1, ThreadMoves DEF StartCheck, LedgerThread, TypeInv
<1> QED
  BY <1>2, LedgerFrame, RunsKept DEF StartCheck

-----------------------------------------------------------------------------
(* The first locked sections, and the lock server.                          *)

\* A call begins on a registered run.
LEMMA BeginLedger ==
  ASSUME TypeInv, LedgerInv, UNCHANGED <<registry, ledger>>, NEW c \in Call, NEW a \in Attempt,
         run[a].state # "absent", NEW r \in CallState, Begin(c, r), r.attempt = a,
         r.pc \notin {"append", "finish", "escalate"}, r.op # "cancel"
  PROVE  LedgerInv'
<1>1. a \in failures
  BY DEF LedgerInv, RunClosed
<1> QED
  BY <1>1, QuietBegin

LEMMA FreezeCheckLedger ==
  ASSUME TypeInv, LedgerInv, NEW c \in Call, NEW a \in Attempt, NEW files \in SUBSET File,
         FreezeCheck(c, a, files)
  PROVE  LedgerInv'
<1> DEFINE r == [Idle EXCEPT !.op = "freeze", !.pc = "lock", !.attempt = a, !.files = files]
<1>1. r \in CallState /\ r.op = "freeze" /\ r.pc = "lock" /\ r.attempt = a
  BY DEF Idle, CallState, Op, Pc
<1> QED
  BY <1>1, BeginLedger DEF FreezeCheck

LEMMA ThawCheckLedger ==
  ASSUME TypeInv, LedgerInv, NEW c \in Call, NEW a \in Attempt, ThawCheck(c, a)
  PROVE  LedgerInv'
<1> DEFINE r == [Idle EXCEPT !.op = "thaw", !.pc = "release", !.attempt = a,
                             !.files = run[a].locked]
<1>1. run[a].locked \in SUBSET File
  BY DEF TypeInv, TypeOK, RecoveryRun
<1>2. r \in CallState /\ r.op = "thaw" /\ r.pc = "release" /\ r.attempt = a
  BY <1>1 DEF Idle, CallState, Op, Pc
<1> QED
  BY <1>2, BeginLedger DEF ThawCheck

LEMMA ProposeCheckLedger ==
  ASSUME TypeInv, LedgerInv, NEW c \in Call, NEW a \in Attempt, ProposeCheck(c, a)
  PROVE  LedgerInv'
<1> DEFINE r == [Idle EXCEPT !.op = "propose", !.pc = "adapter", !.attempt = a]
<1>1. r \in CallState /\ r.op = "propose" /\ r.pc = "adapter" /\ r.attempt = a
  BY DEF Idle, CallState, Op, Pc
<1> QED
  BY <1>1, BeginLedger DEF ProposeCheck

LEMMA ReviewCheckLedger ==
  ASSUME TypeInv, LedgerInv, NEW c \in Call, NEW a \in Attempt, NEW p \in Proposal,
         ReviewCheck(c, a, p)
  PROVE  LedgerInv'
<1> DEFINE r == [Idle EXCEPT !.op = "review", !.pc = "adapter", !.attempt = a, !.proposal = p]
<1>1. r \in CallState /\ r.op = "review" /\ r.pc = "adapter" /\ r.attempt = a
  BY DEF Idle, CallState, Op, Pc
<1> QED
  BY <1>1, BeginLedger DEF ReviewCheck

LEMMA ResumeCheckLedger ==
  ASSUME TypeInv, LedgerInv, NEW c \in Call, NEW a \in Attempt, ResumeCheck(c, a)
  PROVE  LedgerInv'
<1> DEFINE r == [Idle EXCEPT !.op = "resume", !.pc = "gate", !.attempt = a]
<1>1. r \in CallState /\ r.op = "resume" /\ r.pc = "gate" /\ r.attempt = a
  BY DEF Idle, CallState, Op, Pc
<1> QED
  BY <1>1, BeginLedger DEF ResumeCheck

LEMMA ApplyCheckLedger ==
  ASSUME TypeInv, LedgerInv, NEW c \in Call, NEW a \in Attempt, NEW p \in Proposal,
         ApplyCheck(c, a, p)
  PROVE  LedgerInv'
<1> DEFINE r == [Idle EXCEPT !.op = "apply", !.pc = "check", !.attempt = a, !.proposal = p]
           s == [run[a] EXCEPT !.state = "applying"]
<1>1. r \in CallState /\ r.op = "apply" /\ r.pc = "check" /\ r.attempt = a
  BY DEF Idle, CallState, Op, Pc
<1>2. a \in failures /\ run[a] \in RecoveryRun /\ UNCHANGED ledger
  BY DEF ApplyCheck, LedgerInv, RunClosed, TypeInv, TypeOK
<1>3. s \in RecoveryRun /\ s.state = "applying"
  BY <1>2, RunRecord, StatesAreStates
<1>4. \A b \in Attempt : RunClosed(b)'
  BY <1>2, <1>3, RunMoves DEF ApplyCheck, Terminal
<1>5. call' = [call EXCEPT ![c] = r] /\ call \in [Call -> CallState]
  BY DEF ApplyCheck, TypeInv, TypeOK
<1> HIDE DEF r
<1>6. call'[c] = r /\ \A d \in Call \ {c} : call'[d] = call[d]
  BY <1>5
<1>7. LedgerThread(c)'
  BY <1>1, <1>2, <1>6 DEF LedgerThread, ledger
<1> QED
  BY <1>2, <1>4, <1>6, <1>7, LedgerFrame

LEMMA LockServerLedger ==
  ASSUME TypeInv, LedgerInv, NEW f \in File, LockServerStep(f) PROVE LedgerInv'
<1>1. RowsOK' /\ \A a \in Attempt : RunClosed(a)'
  BY DEF LockServerStep, LedgerInv, RowsOK, RunClosed, registry, ledger
<1>2. \A d \in Call : LedgerThread(d)'
  BY DEF LockServerStep, LedgerInv, LedgerThread, ledger
<1> QED
  BY <1>1, <1>2 DEF LedgerInv

LEMMA RestartLedger ==
  ASSUME TypeInv, LedgerInv, Restart PROVE LedgerInv'
<1>1. RowsOK'
  BY DEF Restart, LedgerInv, RowsOK
<1>2. \A a \in Attempt : RunClosed(a)'
  BY DEF Restart, RunClosed, NoRun, Terminal
<1>3. \A d \in Call : LedgerThread(d)'
  BY DEF Restart, LedgerThread, Idle
<1> QED
  BY <1>1, <1>2, <1>3 DEF LedgerInv

-----------------------------------------------------------------------------
(* freeze_run, thaw_run, propose_fix, review_proposal.                      *)

\* A compensation or a raise: the thread goes to write retry_failed.
LEMMA ToMark ==
  ASSUME TypeInv, LedgerInv, UNCHANGED <<registry, ledger>>, NEW c \in Call,
         call[c].op \in {"freeze", "apply", "resume"},
         call[c].pc \notin {"idle", "record", "register"},
         NEW s \in Outcome, call' = [call EXCEPT ![c].pc = "mark", ![c].status = s]
  PROVE  LedgerInv'
<1>1. call[c] \in CallState /\ call \in [Call -> CallState] /\ LedgerThread(c)
  BY DEF TypeInv, TypeOK, LedgerInv
<1>2. /\ call'[c].op = call[c].op /\ call'[c].pc = "mark" /\ call'[c].attempt = call[c].attempt
      /\ \A d \in Call \ {c} : call'[d] = call[d]
  BY <1>1 DEF CallState
<1>3. LedgerThread(c)'
  BY <1>1, <1>2 DEF LedgerThread, ledger
<1> QED
  BY <1>2, <1>3, LedgerFrame, RunsKept DEF registry

LEMMA FreezeLedger ==
  ASSUME TypeInv, LedgerInv, NEW c \in Call, Freeze(c) PROVE LedgerInv'
<1> DEFINE a == call[c].attempt
<1>1. /\ call[c].op = "freeze" /\ call[c].pc \notin {"idle", "record", "register"}
      /\ UNCHANGED ledger
  BY DEF Freeze, FreezeLock, FreezeSnapshot, FreezeRollback, FreezeCompensate, FreezePersist, At
<1>2. a \in Attempt /\ a \in failures /\ run[a] \in RecoveryRun /\ LedgerThread(c)
      /\ call[c].files \in SUBSET File
  BY <1>1, WorkingLedger DEF TypeInv, TypeOK, CallState
<1>3. {"snapshot", "rollback", "persist"} \subseteq Pc \ {"append", "finish", "escalate"}
  BY DEF Pc
<1>4. CASE FreezeLock(c)
  <2>1. CASE Goto(c, "snapshot")
    BY <1>1, <1>3, <1>4, <2>1, QuietGoto DEF FreezeLock, registry
  <2>2. CASE Return(c)
    BY <1>1, <1>4, <2>2, QuietReturn DEF FreezeLock, registry
  <2> QED
    BY <1>4, <2>1, <2>2 DEF FreezeLock
<1>5. CASE FreezeSnapshot(c)
  BY <1>1, <1>3, <1>5, QuietGoto DEF FreezeSnapshot, registry
<1>6. CASE FreezeRollback(c)
  BY <1>1, <1>6, ToMark DEF FreezeRollback, Outcome
<1>7. CASE FreezeCompensate(c)
  <2>1. ~Faults => outcomes[a] # << >>
    BY <1>1, <1>2, <1>7 DEF FreezeCompensate, At, LedgerThread
  <2>2. [run[a] EXCEPT !.state = "retry_failed"] \in RecoveryRun
        /\ [run[a] EXCEPT !.state = "retry_failed"].state = "retry_failed"
    BY <1>2, RunRecord, StatesAreStates DEF Terminal
  <2> QED
    BY <1>1, <1>2, <1>7, <2>1, <2>2, CloseLedger DEF FreezeCompensate
<1>8. CASE FreezePersist(c)
  <2> DEFINE s == [run[a] EXCEPT !.state = "proposing", !.locked = call[c].files]
  <2>1. s \in RecoveryRun /\ s.state = "proposing"
    BY <1>2, StatesAreStates DEF RecoveryRun, Cancellable
  <2>2. "proposing" \notin Terminal
    BY DEF Terminal
  <2>3. Transition(a, s) /\ Return(c)
    BY <1>8 DEF FreezePersist
  <2> HIDE DEF s
  <2> QED
    BY <1>1, <1>2, <2>1, <2>2, <2>3, CloseLedger
<1> QED
  BY <1>4, <1>5, <1>6, <1>7, <1>8 DEF Freeze

LEMMA ThawLedger ==
  ASSUME TypeInv, LedgerInv, NEW c \in Call, ThawRelease(c) \/ ThawForget(c) PROVE LedgerInv'
<1>1. CASE ThawRelease(c)
  <2>1. UNCHANGED <<registry, ledger>> /\ call[c].pc = "release"
        /\ "forget" \in Pc \ {"append", "finish", "escalate"}
    BY <1>1 DEF ThawRelease, Pc
  <2>2. CASE Goto(c, "forget")
    BY <2>1, <2>2, QuietGoto DEF registry
  <2>3. CASE Return(c)
    BY <2>1, <2>3, QuietReturn DEF registry
  <2> QED
    BY <1>1, <2>2, <2>3 DEF ThawRelease
<1>2. CASE ThawForget(c)
  <2>1. \A b \in Attempt : run'[b].state = run[b].state
    BY <1>2 DEF ThawForget, TypeInv, TypeOK, RecoveryRun
  <2> QED
    BY <1>2, <2>1, QuietReturn DEF ThawForget
<1> QED
  BY <1>1, <1>2

LEMMA ProposeFinishLedger ==
  ASSUME TypeInv, LedgerInv, NEW c \in Call, NEW p \in Proposal, ProposeFinish(c, p)
  PROVE  LedgerInv'
<1> DEFINE a == call[c].attempt
           s == [run[a] EXCEPT !.state = "reviewing", !.proposal = p]
<1>1. a \in Attempt /\ a \in failures /\ run[a] \in RecoveryRun /\ UNCHANGED ledger /\ Return(c)
  BY WorkingLedger DEF ProposeFinish, At
<1>2. CASE UNCHANGED registry
  BY <1>1, <1>2, QuietReturn DEF registry
<1>3. CASE Transition(a, s)
  <2>1. s \in RecoveryRun /\ s.state = "reviewing" /\ "reviewing" \notin Terminal
    BY <1>1, StatesAreStates DEF RecoveryRun, Cancellable, Terminal
  <2> HIDE DEF s
  <2> QED
    BY <1>1, <1>3, <2>1, CloseLedger
<1> QED
  BY <1>2, <1>3 DEF ProposeFinish

LEMMA ReviewFinishLedger ==
  ASSUME TypeInv, LedgerInv, NEW c \in Call, NEW v \in Verdict, ReviewFinish(c, v)
  PROVE  LedgerInv'
<1> DEFINE a == call[c].attempt
           s == [run[a] EXCEPT
                  !.state = IF v = "approved" THEN "awaiting_human_confirm" ELSE "reviewing",
                  !.review = [verdict |-> v, proposal |-> call[c].proposal]]
<1>1. /\ a \in Attempt /\ a \in failures /\ run[a] \in RecoveryRun /\ UNCHANGED ledger
      /\ Return(c) /\ call[c].proposal \in Proposal \cup {None}
  BY WorkingLedger, Working DEF ReviewFinish, At, CallState
<1>2. CASE UNCHANGED registry
  BY <1>1, <1>2, QuietReturn DEF registry
<1>3. CASE Transition(a, s)
  <2>1. [verdict |-> v, proposal |-> call[c].proposal] \in Review
    BY <1>1 DEF Review
  <2>2. s \in RecoveryRun /\ s.state \in {"awaiting_human_confirm", "reviewing"}
    BY <1>1, <2>1, StatesAreStates DEF RecoveryRun, Cancellable
  <2>3. s.state # "cancelled" /\ s.state \notin Terminal
    BY <2>2 DEF Terminal
  <2> HIDE DEF s
  <2> QED
    BY <1>1, <1>3, <2>2, <2>3, CloseLedger
<1> QED
  BY <1>2, <1>3 DEF ReviewFinish

-----------------------------------------------------------------------------
(* apply_proposal and resume_run.                                           *)

LEMMA ApplyLedger ==
  ASSUME TypeInv, LedgerInv, NEW c \in Call, Apply(c) PROVE LedgerInv'
<1> DEFINE a == call[c].attempt
<1>1. call[c].op = "apply" /\ call[c].pc \notin {"idle", "record", "register"} /\ UNCHANGED ledger
  BY DEF Apply, PatchCheck, PatchReplace, PatchEvidence, ApplyFinish, ApplyCompensate, At
<1>2. a \in Attempt /\ a \in failures /\ run[a] \in RecoveryRun /\ LedgerThread(c)
  BY <1>1, WorkingLedger
<1>3. {"replace", "evidence", "applied"} \subseteq Pc \ {"append", "finish", "escalate"}
      /\ "retry_failed" \in Outcome
  BY DEF Pc, Outcome
<1>4. ASSUME ApplyRaise(c), UNCHANGED registry PROVE LedgerInv'
  BY <1>1, <1>3, <1>4, ToMark DEF ApplyRaise
<1>5. CASE PatchCheck(c)
  <2>1. CASE Goto(c, "replace")
    BY <1>1, <1>3, <1>5, <2>1, QuietGoto DEF PatchCheck, registry
  <2>2. CASE ApplyRaise(c)
    BY <1>4, <1>5, <2>2 DEF PatchCheck
  <2> QED
    BY <1>5, <2>1, <2>2 DEF PatchCheck
<1>6. CASE PatchReplace(c)
  BY <1>1, <1>3, <1>6, QuietGoto DEF PatchReplace, registry
<1>7. CASE PatchEvidence(c)
  <2>1. CASE Goto(c, "applied")
    BY <1>1, <1>3, <1>7, <2>1, QuietGoto DEF PatchEvidence, registry
  <2>2. CASE ApplyRaise(c)
    BY <1>4, <1>7, <2>2 DEF PatchEvidence
  <2> QED
    BY <1>7, <2>1, <2>2 DEF PatchEvidence
<1>8. CASE ApplyFinish(c)
  <2> DEFINE s == [run[a] EXCEPT !.state = "re_running_gate"]
  <2>1. s \in RecoveryRun /\ s.state = "re_running_gate" /\ "re_running_gate" \notin Terminal
    BY <1>2, RunRecord, StatesAreStates DEF Cancellable, Terminal
  <2>2. Transition(a, s) /\ Return(c)
    BY <1>8 DEF ApplyFinish
  <2> HIDE DEF s
  <2> QED
    BY <1>1, <1>2, <2>1, <2>2, CloseLedger
<1>9. CASE ApplyCompensate(c)
  <2> DEFINE s == [run[a] EXCEPT !.state = "retry_failed"]
  <2>1. ~Faults => outcomes[a] # << >>
    BY <1>1, <1>2, <1>9 DEF ApplyCompensate, At, LedgerThread
  <2>2. s \in RecoveryRun /\ s.state = "retry_failed"
    BY <1>2, RunRecord, StatesAreStates DEF Terminal
  <2>3. Transition(a, s) /\ Return(c)
    BY <1>9 DEF ApplyCompensate
  <2> HIDE DEF s
  <2> QED
    BY <1>1, <1>2, <2>1, <2>2, <2>3, CloseLedger
<1> QED
  BY <1>5, <1>6, <1>7, <1>8, <1>9 DEF Apply

LEMMA ResumeLedger ==
  ASSUME TypeInv, LedgerInv, NEW c \in Call, Resume(c) PROVE LedgerInv'
<1> DEFINE a == call[c].attempt
<1>1. call[c].op = "resume" /\ call[c].pc \notin {"idle", "record", "register"} /\ UNCHANGED ledger
  BY DEF Resume, ResumeGate, ResumeFinish, ResumeThaw, At
<1>2. a \in Attempt /\ a \in failures /\ run[a] \in RecoveryRun /\ LedgerThread(c)
  BY <1>1, WorkingLedger
<1>3. {"thaw", "release"} \subseteq Pc \ {"append", "finish", "escalate"}
  BY DEF Pc
<1>4. CASE ResumeGate(c)
  <2>1. ASSUME NEW s \in {"recovered", "escalated"},
               call' = [call EXCEPT ![c].pc = "mark", ![c].status = s]
        PROVE  LedgerInv'
    BY <1>1, <1>4, <2>1, ToMark DEF ResumeGate, Outcome
  <2>2. CASE Return(c)
    BY <1>1, <1>4, <2>2, QuietReturn DEF ResumeGate, registry
  <2> QED
    BY <1>4, <2>1, <2>2 DEF ResumeGate
<1>5. CASE ResumeFinish(c)
  <2> DEFINE s == [run[a] EXCEPT !.state = call[c].status]
  <2>1. ~Faults => outcomes[a] # << >>
    BY <1>1, <1>2, <1>5 DEF ResumeFinish, At, LedgerThread
  <2>2. call[c].status \in {"recovered", "escalated", "retry_failed"}
    BY <1>5 DEF TypeInv, ThreadOK, ResumeFinish, At, Outcome
  <2>3. s \in RecoveryRun /\ s.state = call[c].status
    BY <1>2, <2>2, RunRecord, StatesAreStates DEF Terminal
  <2>4. Transition(a, s) /\ Goto(c, "thaw")
    BY <1>5 DEF ResumeFinish
  <2>5. \A b \in Attempt : RunClosed(b)'
    <3> HIDE DEF s
    <3> QED
      BY <1>1, <1>2, <2>1, <2>2, <2>3, <2>4, RunMoves
  <2>6. LedgerThread(c)' /\ \A d \in Call \ {c} : call'[d] = call[d]
    BY <1>1, <1>2, <1>3, <2>4, ThreadMoves DEF LedgerThread, TypeInv, ledger
  <2> QED
    BY <1>1, <2>5, <2>6, LedgerFrame
<1>6. CASE ResumeThaw(c)
  <2> DEFINE files == run[a].locked
  <2>1. CASE Return(c)
    BY <1>1, <1>6, <2>1, QuietReturn DEF ResumeThaw, registry
  <2>2. CASE call' = [call EXCEPT ![c].pc = "release", ![c].files = files]
    <3>1. call[c] \in CallState /\ call \in [Call -> CallState]
      BY DEF TypeInv, TypeOK
    <3>2. /\ call'[c].op = call[c].op /\ call'[c].pc = "release" /\ call'[c].attempt = a
          /\ \A d \in Call \ {c} : call'[d] = call[d]
      BY <2>2, <3>1 DEF CallState
    <3>3. LedgerThread(c)'
      BY <1>1, <1>2, <3>2 DEF LedgerThread, ledger
    <3> QED
      BY <1>1, <1>6, <3>2, <3>3, LedgerFrame, RunsKept DEF ResumeThaw, registry
  <2> QED
    BY <1>6, <2>1, <2>2 DEF ResumeThaw
<1> QED
  BY <1>4, <1>5, <1>6 DEF Resume

-----------------------------------------------------------------------------
(* The next-state relation and the theorems.                                *)

LEMMA NextLedger == TypeInv /\ LedgerInv /\ [Next]_vars => LedgerInv'
<1> SUFFICES ASSUME TypeInv, LedgerInv, [Next]_vars PROVE LedgerInv'
  OBVIOUS
<1>1. ASSUME NEW c \in Call, Request(c) PROVE LedgerInv'
  BY <1>1, StartCheckLedger, CancelCheckLedger, ThawCheckLedger, ProposeCheckLedger,
     ResumeCheckLedger, FreezeCheckLedger, ReviewCheckLedger, ApplyCheckLedger, MarkRouteLedger
     DEF Request
<1>2. ASSUME NEW c \in Call, Step(c) PROVE LedgerInv'
  <2>1. CASE AdapterFail(c)
    BY <2>1, QuietReturn DEF AdapterFail, registry
  <2> QED
    BY <1>2, <2>1, MarkLedger, StartLedger, CancelFinishLedger, FreezeLedger, ApplyLedger,
       ResumeLedger, ThawLedger, ProposeFinishLedger, ReviewFinishLedger DEF Step
<1>3. CASE UNCHANGED vars
  <2>1. RowsOK' /\ \A a \in Attempt : RunClosed(a)'
    BY <1>3 DEF vars, LedgerInv, RowsOK, RunClosed
  <2>2. \A c \in Call : LedgerThread(c)'
    BY <1>3 DEF vars, LedgerInv, LedgerThread
  <2> QED
    BY <2>1, <2>2 DEF LedgerInv
<1> QED
  BY <1>1, <1>2, <1>3, RecordRouteLedger, LockServerLedger, RestartLedger DEF Next

\* The saga's two views of an attempt, the run and the ledger rows, stay in step.
LEMMA LedgerCorrect == Spec => [](TypeInv /\ LedgerInv)
<1>1. Init => TypeInv /\ LedgerInv
  BY InitType, InitLedger
<1>2. TypeInv /\ LedgerInv /\ [Next]_vars => (TypeInv /\ LedgerInv)'
  BY NextType, NextLedger
<1> QED
  BY <1>1, <1>2, PTL DEF Spec

\* cancel_run shows a run as CANCELLED only once the durable ledger holds its
\* retry_failed row, however the cancel is interleaved with other calls.
THEOREM CancelledClosed == Spec => []CancelledIsClosed
<1>1. LedgerInv => CancelledIsClosed
  BY DEF LedgerInv, RunClosed, CancelledIsClosed
<1> QED
  BY <1>1, LedgerCorrect, PTL

\* With a working MCP server and well-formed ids, every terminal run has an
\* outcome row, although the compensations swallow the ledger's exceptions.
THEOREM TerminalClosed == Spec => []TerminalIsClosed
<1>1. LedgerInv => TerminalIsClosed
  BY DEF LedgerInv, RunClosed, TerminalIsClosed
<1> QED
  BY <1>1, LedgerCorrect, PTL

-----------------------------------------------------------------------------
(* The ledger file implements AttemptLedger.                                *)

\* What a reader makes of the rows of an attempt, in a state the saga reaches.
LEMMA StatusOf ==
  ASSUME RowsOK, NEW a \in Attempt
  PROVE  /\ a \notin failures => LedgerStatus[a] = "absent"
         /\ a \in failures /\ outcomes[a] = << >> => LedgerStatus[a] = "open"
         /\ \A s \in Outcome : a \in failures /\ outcomes[a] = << s >> => LedgerStatus[a] = s
<1>1. LedgerStatus[a] = IF a \notin failures THEN "absent"
                        ELSE IF Len(outcomes[a]) = 0 THEN "open"
                        ELSE IF Len(outcomes[a]) = 1 THEN outcomes[a][1] ELSE "ambiguous"
  BY Zenon DEF LedgerStatus
<1>2. ASSUME outcomes[a] = << >> PROVE Len(outcomes[a]) = 0
  BY <1>2
<1>3. ASSUME NEW s \in Outcome, outcomes[a] = << s >>
      PROVE  Len(outcomes[a]) = 1 /\ outcomes[a][1] = s
  BY <1>3
<1> QED
  BY <1>1, <1>2, <1>3

LEMMA StatusKept == UNCHANGED <<failures, outcomes>> => LedgerStatus' = LedgerStatus
BY DEF LedgerStatus

\* Two states whose rows differ on one attempt.
LEMMA StatusChanged ==
  ASSUME NEW a \in Attempt,
         \A b \in Attempt \ {a} : outcomes'[b] = outcomes[b] /\ (b \in failures' <=> b \in failures)
  PROVE  LedgerStatus' = [LedgerStatus EXCEPT ![a] = LedgerStatus'[a]]
BY DEF LedgerStatus

\* A new failure row is the abstract Record.
LEMMA RecordImplements ==
  ASSUME RowsOK, RowsOK', NEW a \in Attempt, a \notin failures,
         failures' = failures \cup {a}, UNCHANGED outcomes
  PROVE  PromisedLedger!Record(a)
<1>1. outcomes[a] = << >>
  BY DEF RowsOK
<1>2. LedgerStatus[a] = "absent"
  BY StatusOf
<1>3. LedgerStatus'[a] = "open"
  BY <1>1 DEF LedgerStatus
<1>4. LedgerStatus' = [LedgerStatus EXCEPT ![a] = LedgerStatus'[a]]
  BY StatusChanged
<1> QED
  BY <1>2, <1>3, <1>4 DEF PromisedLedger!Record

\* The appended outcome row is the abstract Close.
LEMMA AppendImplements ==
  ASSUME TypeInv, LedgerInv, LedgerInv', NEW c \in Call, MarkAppend(c)
  PROVE  \E a \in Attempt, o \in Outcome : PromisedLedger!Close(a, o)
<1>1. PICK a \in Attempt, o \in Outcome :
        /\ a = call[c].attempt /\ o = call[c].status /\ a \in failures /\ outcomes[a] = << >>
        /\ UNCHANGED failures /\ outcomes \in [Attempt -> Seq(Outcome)]
  BY DEF MarkAppend, TypeInv, TypeOK, ThreadOK, LedgerInv, LedgerThread
<1>2. Append(<< >>, o) = << o >>
  OBVIOUS
<1>3. outcomes'[a] = << o >> /\ \A b \in Attempt \ {a} : outcomes'[b] = outcomes[b]
  BY <1>1, <1>2 DEF MarkAppend
<1>4. LedgerStatus[a] = "open"
  BY <1>1, StatusOf DEF LedgerInv
<1>5. LedgerStatus'[a] = o
  <2>1. LedgerStatus'[a] = IF a \notin failures' THEN "absent"
                           ELSE IF Len(outcomes'[a]) = 0 THEN "open"
                           ELSE IF Len(outcomes'[a]) = 1 THEN outcomes'[a][1] ELSE "ambiguous"
    BY Zenon DEF LedgerStatus
  <2>2. Len(<< o >>) = 1 /\ << o >>[1] = o
    OBVIOUS
  <2>3. Len(outcomes'[a]) = 1 /\ outcomes'[a][1] = o
    BY <1>3, <2>2
  <2> QED
    BY <1>1, <2>1, <2>3
<1>6. LedgerStatus' = [LedgerStatus EXCEPT ![a] = LedgerStatus'[a]]
  BY <1>1, <1>3, StatusChanged
<1>7. PromisedLedger!Close(a, o)
  BY <1>4, <1>5, <1>6 DEF PromisedLedger!Close
<1> QED
  BY <1>1, <1>7

\* Every other step leaves the rows alone.
LEMMA OtherStepsStutter ==
  ASSUME [Next]_vars
  PROVE  \/ UNCHANGED <<failures, outcomes>>
         \/ \E a \in Attempt : /\ a \notin failures /\ failures' = failures \cup {a}
                              /\ UNCHANGED outcomes
         \/ \E c \in Call : MarkAppend(c)
<1> DEFINE Goal == \/ UNCHANGED <<failures, outcomes>>
                   \/ \E a \in Attempt : /\ a \notin failures /\ failures' = failures \cup {a}
                                        /\ UNCHANGED outcomes
                   \/ \E c \in Call : MarkAppend(c)
<1>1. ASSUME NEW c \in Call, Request(c) PROVE UNCHANGED <<failures, outcomes>>
  BY <1>1 DEF Request, StartCheck, CancelCheck, ThawCheck, ProposeCheck, ResumeCheck,
     FreezeCheck, ReviewCheck, ApplyCheck, MarkRoute, ledger
<1>2. ASSUME NEW c \in Call, Step(c) PROVE Goal
  <2>1. CASE Mark(c)
    BY <2>1 DEF Mark, MarkUnavailable, MarkScan, ledger
  <2>2. CASE Start(c)
    BY <2>2 DEF Start, StartRecord, StartRegister, StartEscalate, StartLookup, StartDrop, ledger
  <2>3. CASE Freeze(c)
    BY <2>3 DEF Freeze, FreezeLock, FreezeSnapshot, FreezeRollback, FreezeCompensate,
       FreezePersist, ledger
  <2>4. CASE Apply(c)
    BY <2>4 DEF Apply, PatchCheck, PatchReplace, PatchEvidence, ApplyFinish, ApplyCompensate, ledger
  <2>5. CASE Resume(c)
    BY <2>5 DEF Resume, ResumeGate, ResumeFinish, ResumeThaw, ledger
  <2>6. CASE \/ CancelFinish(c) \/ ThawRelease(c) \/ ThawForget(c) \/ AdapterFail(c)
             \/ \E p \in Proposal : ProposeFinish(c, p)
             \/ \E v \in Verdict : ReviewFinish(c, v)
    BY <2>6 DEF CancelFinish, ThawRelease, ThawForget, AdapterFail, ProposeFinish, ReviewFinish,
       ledger
  <2> QED
    BY <1>2, <2>1, <2>2, <2>3, <2>4, <2>5, <2>6 DEF Step
<1>3. CASE UNCHANGED vars
  BY <1>3 DEF vars
<1> QED
  BY <1>1, <1>2, <1>3 DEF Next, RecordRoute, LockServerStep, Restart, ledger

LEMMA StepImplements ==
  TypeInv /\ LedgerInv /\ LedgerInv' /\ [Next]_vars => [PromisedLedger!Next]_LedgerStatus
<1> SUFFICES ASSUME TypeInv, LedgerInv, LedgerInv', [Next]_vars
             PROVE  [PromisedLedger!Next]_LedgerStatus
  OBVIOUS
<1>1. CASE UNCHANGED <<failures, outcomes>>
  BY <1>1, StatusKept
<1>2. CASE \E a \in Attempt : a \notin failures /\ failures' = failures \cup {a} /\ UNCHANGED outcomes
  BY <1>2, RecordImplements DEF LedgerInv, PromisedLedger!Next
<1>3. CASE \E c \in Call : MarkAppend(c)
  BY <1>3, AppendImplements DEF PromisedLedger!Next
<1> QED
  BY <1>1, <1>2, <1>3, OtherStepsStutter

\* Whatever the interleaving, crash or server fault, a failure is recorded once
\* and closed at most once: the controller and its ledger file implement
\* AttemptLedger under the refinement mapping LedgerStatus.
THEOREM LedgerPromise == Spec => LedgerKeepsItsPromise
<1>1. Init => PromisedLedger!Init
  BY DEF Init, PromisedLedger!Init, LedgerStatus
<1>2. Spec => [](TypeInv /\ LedgerInv)
  BY LedgerCorrect
<1> QED
  BY <1>1, <1>2, StepImplements, PTL DEF Spec, LedgerKeepsItsPromise, PromisedLedger!Spec

-----------------------------------------------------------------------------
(* Hard failures: the inductive invariant.                                  *)

WorkOp == {"freeze", "thaw", "propose", "review", "apply", "resume"}

\* The thread is past the point where its attempt has a registered run.
Busy(c) == call[c].op \notin {"none", "mark_route"} /\ call[c].pc \notin {"idle", "record", "register"}

\* The thread has recorded a failure and not yet registered its run.
Registers(c) == At(c, "start", "register")

\* A hard-escalate run only waits, or is closed; bytes go live on behalf of
\* recorded attempts only.
AttemptSafe(a) ==
  /\ HardEscalate(run[a]) =>
       /\ run[a].state \in {"created", "escalated", "cancelled"}
       /\ run[a].locked = {} /\ patched[a] = {}
  /\ patched[a] # {} => a \in failures

\* The functions that lock and patch never work on a hard-escalate run; a run
\* about to be registered is new, and nothing was patched for it.
ThreadSafe(c) ==
  /\ Busy(c) => run[call[c].attempt].state # "absent"
  /\ Busy(c) /\ call[c].op \in WorkOp => ~HardEscalate(run[call[c].attempt])
  /\ call[c].op = "mark_route" => call[c].pc \in {"mark", "append"}
  /\ Registers(c) => /\ run[call[c].attempt].state = "absent"
                     /\ patched[call[c].attempt] = {} /\ call[c].attempt \in failures

\* An attempt id is allocated to one thread.
OneRegistrar ==
  \A c, d \in Call : Registers(c) /\ Registers(d) /\ call[c].attempt = call[d].attempt => c = d

HardInv ==
  /\ \A a \in Attempt : AttemptSafe(a)
  /\ \A c \in Call : ThreadSafe(c)
  /\ OneRegistrar

\* What every other step relies on.
Known == TypeInv /\ LedgerInv /\ HardInv

LEMMA NoRunIsNotHard == ~HardEscalate(NoRun)
BY ConstantsAssumption DEF HardEscalate, NoRun

LEMMA InitHard == Init => HardInv
<1> SUFFICES ASSUME Init PROVE HardInv
  OBVIOUS
<1>1. \A a \in Attempt : AttemptSafe(a)
  BY NoRunIsNotHard DEF Init, AttemptSafe
<1>2. \A c \in Call : ThreadSafe(c) /\ ~Registers(c)
  BY DEF Init, ThreadSafe, Busy, Registers, At, Idle
<1> QED
  BY <1>1, <1>2 DEF HardInv, OneRegistrar

-----------------------------------------------------------------------------
(* Frames: what a step must show of the thread that takes it, and of the    *)
(* runs it changes.                                                         *)

\* Runs are neither registered nor dropped, and keep their pairs.
RunsEvolve ==
  \A a \in Attempt : run'[a].key = run[a].key /\ (run'[a].state = "absent" <=> run[a].state = "absent")

LEMMA OneThreadSafe ==
  ASSUME Known, RunsEvolve, failures \subseteq failures', NEW c \in Call,
         \A d \in Call \ {c} : call'[d] = call[d],
         ThreadSafe(c)', Registers(c)' => call'[c].attempt \notin failures,
         \A a \in Attempt : AttemptSafe(a)',
         \A a \in Attempt : patched'[a] = patched[a] \/ run[a].state # "absent"
  PROVE  HardInv'
<1>1. ASSUME NEW d \in Call \ {c}
      PROVE  ThreadSafe(d)' /\ (Registers(d)' => Registers(d) /\ call'[d].attempt \in failures)
  <2>1. ThreadSafe(d) /\ ThreadOK(call[d])
    BY DEF Known, HardInv, TypeInv
  <2>2. Busy(d) \/ Registers(d) => call[d].attempt \in Attempt
    BY <2>1 DEF ThreadOK, Busy, Registers, At
  <2>3. (Busy(d)' <=> Busy(d)) /\ (Registers(d)' <=> Registers(d)) /\ call'[d] = call[d]
    BY DEF Busy, Registers, At
  <2> QED
    BY <2>1, <2>2, <2>3 DEF ThreadSafe, RunsEvolve, HardEscalate
<1>2. OneRegistrar'
  <2> SUFFICES ASSUME NEW d \in Call, NEW e \in Call, Registers(d)', Registers(e)',
                      call'[d].attempt = call'[e].attempt
               PROVE  d = e
    BY DEF OneRegistrar
  <2>1. CASE d # c /\ e # c
    BY <1>1, <2>1 DEF Known, HardInv, OneRegistrar
  <2>2. CASE d = c \/ e = c
    BY <1>1, <2>2
  <2> QED
    BY <2>1, <2>2
<1> QED
  BY <1>1, <1>2 DEF HardInv

\* The thread goes on with its attempt, or returns.
Carries(c) ==
  /\ \A d \in Call \ {c} : call'[d] = call[d]
  /\ \/ call'[c] = Idle
     \/ /\ call'[c].op = call[c].op /\ call'[c].attempt = call[c].attempt
        /\ call[c].pc \notin {"idle", "record", "register"}
        /\ call'[c].pc \notin {"record", "register"}
        /\ call[c].op = "mark_route" => call'[c].pc = "append"

LEMMA CarriesOn ==
  ASSUME Known, RunsEvolve, NEW c \in Call, Carries(c)
  PROVE  ThreadSafe(c)' /\ ~Registers(c)'
<1>1. ThreadSafe(c) /\ ThreadOK(call[c])
  BY DEF Known, HardInv, TypeInv
<1>2. CASE call'[c] = Idle
  BY <1>2 DEF ThreadSafe, Busy, Registers, At, Idle
<1>3. CASE call'[c] # Idle
  <2>1. Busy(c)' => Busy(c) /\ call[c].attempt \in Attempt
    BY <1>1, <1>3 DEF Carries, Busy, ThreadOK
  <2>2. ~Registers(c)'
    BY <1>3 DEF Carries, Registers, At
  <2> QED
    BY <1>1, <1>3, <2>1, <2>2 DEF ThreadSafe, RunsEvolve, HardEscalate, Carries
<1> QED
  BY <1>2, <1>3

\* A step that leaves the runs and the patched files alone.
LEMMA QuietSafe ==
  ASSUME Known, UNCHANGED <<run, patched, failures>>, NEW c \in Call, Carries(c)
  PROVE  HardInv'
<1>1. RunsEvolve /\ \A a \in Attempt : AttemptSafe(a)'
  BY DEF Known, HardInv, RunsEvolve, AttemptSafe, HardEscalate
<1> QED
  BY <1>1, CarriesOn, OneThreadSafe DEF Carries

\* One registered run becomes r.  Outside the functions that lock and patch, r
\* is closed and keeps or loses its files.
LEMMA RunMovesSafely ==
  ASSUME Known, UNCHANGED <<patched, failures>>, NEW a \in Attempt, NEW r \in RecoveryRun,
         run' = [run EXCEPT ![a] = r], r.key = run[a].key, r.state # "absent",
         run[a].state # "absent",
         \/ ~HardEscalate(run[a])
         \/ r.state \in {run[a].state, "escalated", "cancelled"} /\ r.locked \in {run[a].locked, {}}
  PROVE  RunsEvolve /\ \A b \in Attempt : AttemptSafe(b)'
<1>1. run'[a] = r /\ \A b \in Attempt \ {a} : run'[b] = run[b]
  BY DEF Known, TypeInv, TypeOK
<1>2. AttemptSafe(a)'
  BY <1>1 DEF Known, HardInv, AttemptSafe, HardEscalate
<1>3. \A b \in Attempt \ {a} : AttemptSafe(b)'
  BY <1>1 DEF Known, HardInv, AttemptSafe, HardEscalate
<1> QED
  BY <1>1, <1>2, <1>3 DEF RunsEvolve

LEMMA RunStepSafe ==
  ASSUME Known, UNCHANGED <<patched, failures>>, NEW c \in Call, Busy(c), Carries(c),
         NEW r \in RecoveryRun, run' = [run EXCEPT ![call[c].attempt] = r],
         r.key = run[call[c].attempt].key, r.state # "absent",
         \/ call[c].op \in WorkOp
         \/ /\ r.state \in {run[call[c].attempt].state, "escalated", "cancelled"}
            /\ r.locked \in {run[call[c].attempt].locked, {}}
  PROVE  HardInv'
<1>1. ThreadSafe(c) /\ call[c].attempt \in Attempt
  BY Working DEF Known, HardInv, Busy
<1>2. run[call[c].attempt].state # "absent"
      /\ (call[c].op \in WorkOp => ~HardEscalate(run[call[c].attempt]))
  BY <1>1 DEF ThreadSafe
<1>3. RunsEvolve /\ \A b \in Attempt : AttemptSafe(b)'
  BY <1>1, <1>2, RunMovesSafely
<1> QED
  BY <1>3, CarriesOn, OneThreadSafe DEF Carries

\* The thread moves that a step is made of.
LEMMA CarriesReturn == ASSUME TypeInv, NEW c \in Call, Return(c) PROVE Carries(c)
BY DEF TypeInv, TypeOK, Return, Carries

LEMMA CarriesGoto ==
  ASSUME TypeInv, NEW c \in Call, call[c].pc \notin {"idle", "record", "register"},
         NEW pc \in Pc \ {"record", "register"}, Goto(c, pc),
         call[c].op = "mark_route" => pc = "append"
  PROVE  Carries(c)
<1>1. /\ \A d \in Call \ {c} : call'[d] = call[d]
      /\ call'[c].pc = pc /\ call'[c].op = call[c].op /\ call'[c].attempt = call[c].attempt
  BY ThreadMoves DEF TypeInv
<1> QED
  BY <1>1 DEF Carries

LEMMA CarriesMark ==
  ASSUME TypeInv, NEW c \in Call, call[c].pc \notin {"idle", "record", "register"},
         NEW s \in Outcome, call[c].op # "mark_route",
         call' = [call EXCEPT ![c].pc = "mark", ![c].status = s]
  PROVE  Carries(c)
<1>1. call[c] \in CallState /\ call \in [Call -> CallState]
  BY DEF TypeInv, TypeOK
<1>2. /\ \A d \in Call \ {c} : call'[d] = call[d]
      /\ call'[c].pc = "mark" /\ call'[c].op = call[c].op /\ call'[c].attempt = call[c].attempt
  BY <1>1 DEF CallState
<1> QED
  BY <1>2 DEF Carries

-----------------------------------------------------------------------------
(* mark_recovery_outcome and start_recovery.                                *)

LEMMA AfterMarkCarries ==
  ASSUME TypeInv, NEW c \in Call, NEW ok \in BOOLEAN, AfterMark(c, ok),
         call[c].pc \notin {"idle", "record", "register"}
  PROVE  Carries(c)
<1>1. {"finish", "escalate"} \subseteq Pc \ {"record", "register"}
  BY DEF Pc
<1>2. CASE Goto(c, "finish") /\ call[c].op # "mark_route"
  BY <1>1, <1>2, CarriesGoto
<1>3. CASE Goto(c, "escalate") /\ call[c].op # "mark_route"
  BY <1>1, <1>3, CarriesGoto
<1>4. CASE Return(c)
  BY <1>4, CarriesReturn
<1> QED
  BY <1>2, <1>3, <1>4 DEF AfterMark

LEMMA MarkSafe == ASSUME Known, NEW c \in Call, Mark(c) PROVE HardInv'
<1>1. "append" \in Pc \ {"record", "register"}
  BY DEF Pc
<1>2. CASE MarkUnavailable(c)
  <2>1. Carries(c)
    BY <1>2, AfterMarkCarries DEF MarkUnavailable, Known
  <2> QED
    BY <1>2, <2>1, QuietSafe DEF MarkUnavailable, registry, ledger
<1>3. CASE MarkScan(c)
  <2>1. Carries(c)
    BY <1>1, <1>3, AfterMarkCarries, CarriesGoto DEF MarkScan, Known
  <2> QED
    BY <1>3, <2>1, QuietSafe DEF MarkScan, registry
<1>4. CASE MarkAppend(c)
  <2>1. PICK ok \in BOOLEAN : AfterMark(c, ok)
    BY <1>4, ConstantsAssumption DEF MarkAppend
  <2>2. Carries(c)
    BY <1>4, <2>1, AfterMarkCarries DEF MarkAppend, Known
  <2> QED
    BY <1>4, <2>2, QuietSafe DEF MarkAppend, registry
<1> QED
  BY <1>2, <1>3, <1>4 DEF Mark

\* A failure row more: runs and patched files stay.
LEMMA RowKeepsSafe ==
  ASSUME Known, UNCHANGED <<run, patched>>, failures \subseteq failures'
  PROVE  RunsEvolve /\ \A a \in Attempt : AttemptSafe(a)'
BY DEF Known, HardInv, RunsEvolve, AttemptSafe, HardEscalate

LEMMA RecordRouteSafe ==
  ASSUME Known, NEW a \in Attempt, RecordRoute(a) PROVE HardInv'
<1>1. UNCHANGED <<run, patched, call>> /\ failures \subseteq failures'
  BY DEF RecordRoute, registry
<1>2. \A d \in Call : ThreadSafe(d)'
  BY <1>1 DEF Known, HardInv, ThreadSafe, Busy, Registers, At, HardEscalate
<1>3. OneRegistrar'
  BY <1>1 DEF Known, HardInv, OneRegistrar, Registers, At
<1> QED
  BY <1>1, <1>2, <1>3, RowKeepsSafe DEF HardInv

\* The attempt id is fresh: no run, no row and no patch carries it.
LEMMA StartRecordSafe ==
  ASSUME Known, NEW c \in Call, NEW a \in Attempt, StartRecord(c, a) PROVE HardInv'
<1>1. /\ UNCHANGED <<run, patched>> /\ a \notin failures /\ failures \subseteq failures'
      /\ call[c].op = "start"
  BY DEF StartRecord, registry, At
<1>2. RunsEvolve /\ \A b \in Attempt : AttemptSafe(b)'
  BY <1>1, RowKeepsSafe
<1>3. CASE Return(c)
  <2>1. Carries(c)
    BY <1>3, CarriesReturn DEF Known
  <2> QED
    BY <1>1, <1>2, <2>1, CarriesOn, OneThreadSafe DEF Carries
<1>4. CASE /\ failures' = failures \cup {a}
           /\ call' = [call EXCEPT ![c].pc = "register", ![c].attempt = a, ![c].key = Redacted[@]]
  <2>1. call[c] \in CallState /\ call \in [Call -> CallState]
    BY DEF Known, TypeInv, TypeOK
  <2>2. /\ call'[c].op = "start" /\ call'[c].pc = "register" /\ call'[c].attempt = a
        /\ \A d \in Call \ {c} : call'[d] = call[d]
    BY <1>1, <1>4, <2>1 DEF CallState
  <2>3. run[a].state = "absent" /\ patched[a] = {}
    BY <1>1 DEF Known, LedgerInv, RunClosed, HardInv, AttemptSafe
  <2>4. ThreadSafe(c)'
    <3>1. ~Busy(c)'
      BY <2>2 DEF Busy
    <3>2. run'[a].state = "absent" /\ patched'[a] = {} /\ a \in failures'
      BY <1>1, <1>4, <2>3
    <3> QED
      BY <2>2, <3>1, <3>2 DEF ThreadSafe
  <2> QED
    BY <1>1, <1>2, <2>2, <2>4, OneThreadSafe
<1> QED
  BY <1>3, <1>4 DEF StartRecord

\* The run is registered: no other thread works on its attempt.
LEMMA StartRegisterSafe ==
  ASSUME Known, NEW c \in Call, StartRegister(c) PROVE HardInv'
<1>1. /\ TypeOK /\ ThreadOK(call[c]) /\ ThreadSafe(c) /\ Registers(c)
      /\ UNCHANGED <<patched, failures>>
  BY DEF StartRegister, Known, TypeInv, HardInv, Registers, ledger
<1>2. PICK a \in Attempt :
      /\ a = call[c].attempt /\ run[a].state = "absent" /\ patched[a] = {} /\ a \in failures
      /\ call[c].op = "start" /\ call[c].pc = "register"
  BY <1>1 DEF ThreadSafe, ThreadOK, Registers, At
<1>3. run'[a] = NewRun(call[c].key) /\ \A b \in Attempt \ {a} : run'[b] = run[b]
  BY <1>1, <1>2 DEF StartRegister, TypeOK
<1>4. run'[a].state = "created" /\ run'[a].locked = {}
  BY <1>3 DEF NewRun, NoRun
<1>5. \A b \in Attempt : AttemptSafe(b)'
  <2>1. AttemptSafe(a)'
    BY <1>1, <1>2, <1>4 DEF AttemptSafe
  <2>2. \A b \in Attempt \ {a} : AttemptSafe(b)'
    BY <1>1, <1>3 DEF Known, HardInv, AttemptSafe, HardEscalate
  <2> QED
    BY <2>1, <2>2
<1>6. /\ \A d \in Call \ {c} : call'[d] = call[d]
      /\ \/ call'[c] = Idle
         \/ call'[c].op = "start" /\ call'[c].pc = "mark" /\ call'[c].attempt = a
  <2>1. call[c] \in CallState /\ call \in [Call -> CallState]
    BY <1>1 DEF TypeOK
  <2>2. CASE Return(c)
    BY <2>1, <2>2 DEF Return
  <2>3. CASE call' = [call EXCEPT ![c].pc = "mark", ![c].status = "escalated"]
    BY <1>2, <2>1, <2>3 DEF CallState
  <2> QED
    BY <2>2, <2>3 DEF StartRegister
<1>7. ThreadSafe(c)' /\ ~Registers(c)'
  <2>1. CASE call'[c] = Idle
    BY <2>1 DEF ThreadSafe, Busy, Registers, At, Idle
  <2>2. CASE call'[c].op = "start" /\ call'[c].pc = "mark" /\ call'[c].attempt = a
    BY <1>4, <2>2 DEF ThreadSafe, Busy, Registers, At, WorkOp
  <2> QED
    BY <1>6, <2>1, <2>2
<1>8. ASSUME NEW d \in Call \ {c} PROVE ThreadSafe(d)'
  <2>1. ThreadSafe(d) /\ ThreadOK(call[d]) /\ call'[d] = call[d]
    BY <1>6 DEF Known, HardInv, TypeInv
  <2>2. Registers(d) => call[d].attempt \in Attempt \ {a}
    BY <1>1, <1>2, <2>1 DEF Known, HardInv, OneRegistrar, ThreadOK, Registers, At
  <2>3. Busy(d) => call[d].attempt \in Attempt \ {a}
    BY <1>2, <2>1 DEF ThreadSafe, ThreadOK, Busy
  <2>4. (Busy(d)' <=> Busy(d)) /\ (Registers(d)' <=> Registers(d))
    BY <2>1 DEF Busy, Registers, At
  <2> QED
    BY <1>1, <1>3, <2>1, <2>2, <2>3, <2>4 DEF ThreadSafe, HardEscalate
<1>9. OneRegistrar'
  <2>1. \A d \in Call : Registers(d)' => d # c /\ Registers(d) /\ call'[d] = call[d]
    BY <1>6, <1>7 DEF Registers, At
  <2> QED
    BY <2>1 DEF Known, HardInv, OneRegistrar
<1> QED
  BY <1>5, <1>7, <1>8, <1>9 DEF HardInv

LEMMA StartSafe == ASSUME Known, NEW c \in Call, Start(c) PROVE HardInv'
<1> DEFINE a == call[c].attempt
<1>1. CASE StartEscalate(c)
  <2> DEFINE r == [run[a] EXCEPT !.state = "escalated"]
  <2>1. Busy(c) /\ call[c].op = "start"
    BY <1>1 DEF StartEscalate, Busy, At
  <2>2. a \in Attempt /\ run[a] \in RecoveryRun
    BY <2>1, Working DEF Known, Busy
  <2>3. /\ r \in RecoveryRun /\ r.key = run[a].key /\ r.locked = run[a].locked
        /\ r.state = "escalated"
    BY <2>2, RunRecord, StatesAreStates DEF Terminal
  <2>4. Carries(c)
    <3>1. "lookup" \in Pc \ {"record", "register"}
      BY DEF Pc
    <3> QED
      BY <1>1, <2>1, <3>1, CarriesGoto DEF StartEscalate, Known, Busy
  <2>5. run' = [run EXCEPT ![a] = r] /\ UNCHANGED <<patched, failures>>
    BY <1>1 DEF StartEscalate, ledger
  <2> HIDE DEF r
  <2> QED
    BY <2>1, <2>3, <2>4, <2>5, RunStepSafe
<1>2. CASE StartLookup(c)
  <2>1. call[c].pc = "lookup" /\ call[c].op = "start" /\ "drop" \in Pc \ {"record", "register"}
    BY <1>2 DEF StartLookup, At, Pc
  <2>2. Carries(c)
    BY <1>2, <2>1, CarriesGoto, CarriesReturn DEF StartLookup, Known
  <2> QED
    BY <1>2, <2>2, QuietSafe DEF StartLookup, registry, ledger
<1>3. CASE StartDrop(c)
  <2>1. Carries(c)
    BY <1>3, CarriesReturn DEF StartDrop, Known
  <2> QED
    BY <1>3, <2>1, QuietSafe DEF StartDrop, ledger
<1> QED
  BY <1>1, <1>2, <1>3, StartRecordSafe, StartRegisterSafe DEF Start

-----------------------------------------------------------------------------
(* The requests.                                                            *)

\* A call begins, and works on no attempt or on a registered run.
LEMMA BeginSafe ==
  ASSUME Known, UNCHANGED <<run, patched, failures>>, NEW c \in Call, NEW r \in CallState,
         Begin(c, r),
         \/ r.op = "start" /\ r.pc = "record"
         \/ r.op = "mark_route" /\ r.pc = "mark"
         \/ /\ r.op \in WorkOp \cup {"cancel"} /\ r.pc # "register"
            /\ run[r.attempt].state # "absent"
            /\ r.op \in WorkOp => ~HardEscalate(run[r.attempt])
  PROVE  HardInv'
<1>1. call'[c] = r /\ \A d \in Call \ {c} : call'[d] = call[d]
  BY ThreadMoves DEF Known, TypeInv
<1>2. ThreadSafe(c)' /\ ~Registers(c)'
  <2>1. CASE r.op = "start" /\ r.pc = "record"
    BY <1>1, <2>1 DEF ThreadSafe, Busy, Registers, At
  <2>2. CASE r.op = "mark_route" /\ r.pc = "mark"
    BY <1>1, <2>2 DEF ThreadSafe, Busy, Registers, At
  <2>3. CASE /\ r.op \in WorkOp \cup {"cancel"} /\ r.pc # "register"
             /\ run[r.attempt].state # "absent"
             /\ r.op \in WorkOp => ~HardEscalate(run[r.attempt])
    <3>1. r.op # "mark_route" /\ r.op # "start"
      BY <2>3 DEF WorkOp
    <3> QED
      BY <1>1, <2>3, <3>1 DEF ThreadSafe, Registers, At, HardEscalate
  <2> QED
    BY <2>1, <2>2, <2>3
<1>3. RunsEvolve /\ \A a \in Attempt : AttemptSafe(a)'
  BY RowKeepsSafe
<1> QED
  BY <1>1, <1>2, <1>3, OneThreadSafe

\* A run in a state that only the saga's own steps lead to is not hard-escalate.
LEMMA StateNotHard ==
  ASSUME Known, NEW a \in Attempt,
         \/ run[a].state \notin {"created", "escalated", "cancelled"}
         \/ run[a].locked # {}
  PROVE  ~HardEscalate(run[a])
BY DEF Known, HardInv, AttemptSafe

LEMMA StartCheckSafe ==
  ASSUME Known, NEW c \in Call, NEW k \in Key, StartCheck(c, k) PROVE HardInv'
<1> DEFINE r == [Idle EXCEPT !.op = "start", !.pc = "record", !.key = k]
<1>1. r \in CallState /\ r.op = "start" /\ r.pc = "record"
  BY DEF Idle, CallState, Op, Pc
<1> QED
  BY <1>1, BeginSafe DEF StartCheck, ledger

LEMMA MarkRouteSafe ==
  ASSUME Known, NEW c \in Call, NEW a \in Attempt, NEW s \in RouteOutcome, MarkRoute(c, a, s)
  PROVE  HardInv'
<1> DEFINE r == [Idle EXCEPT !.op = "mark_route", !.pc = "mark", !.attempt = a, !.status = s]
<1>1. r \in CallState /\ r.op = "mark_route" /\ r.pc = "mark"
  BY ConstantsAssumption DEF Idle, CallState, Op, Pc, Outcome
<1> QED
  BY <1>1, BeginSafe DEF MarkRoute, registry, ledger

LEMMA CancelCheckSafe ==
  ASSUME Known, NEW c \in Call, NEW a \in Attempt, CancelCheck(c, a) PROVE HardInv'
<1> DEFINE r == [Idle EXCEPT !.op = "cancel", !.pc = "mark", !.attempt = a,
                             !.status = "retry_failed"]
<1>1. r \in CallState /\ r.op = "cancel" /\ r.pc = "mark" /\ r.attempt = a
  BY DEF Idle, CallState, Op, Pc, Outcome
<1>2. run[a].state # "absent" /\ r.op \notin WorkOp
  BY <1>1 DEF CancelCheck, Cancellable, WorkOp
<1> QED
  BY <1>1, <1>2, BeginSafe DEF CancelCheck, registry, ledger

LEMMA FreezeCheckSafe ==
  ASSUME Known, NEW c \in Call, NEW a \in Attempt, NEW files \in SUBSET File,
         FreezeCheck(c, a, files)
  PROVE  HardInv'
<1> DEFINE r == [Idle EXCEPT !.op = "freeze", !.pc = "lock", !.attempt = a, !.files = files]
<1>1. r \in CallState /\ r.op \in WorkOp /\ r.pc = "lock" /\ r.attempt = a
  BY DEF Idle, CallState, Op, Pc, WorkOp
<1> QED
  BY <1>1, BeginSafe DEF FreezeCheck, registry, ledger

LEMMA ThawCheckSafe ==
  ASSUME Known, NEW c \in Call, NEW a \in Attempt, ThawCheck(c, a) PROVE HardInv'
<1> DEFINE r == [Idle EXCEPT !.op = "thaw", !.pc = "release", !.attempt = a,
                             !.files = run[a].locked]
<1>1. run[a].locked \in SUBSET File
  BY DEF Known, TypeInv, TypeOK, RecoveryRun
<1>2. r \in CallState /\ r.op \in WorkOp /\ r.pc = "release" /\ r.attempt = a
  BY <1>1 DEF Idle, CallState, Op, Pc, WorkOp
<1> QED
  BY <1>2, BeginSafe, StateNotHard DEF ThawCheck, registry, ledger

LEMMA ProposeCheckSafe ==
  ASSUME Known, NEW c \in Call, NEW a \in Attempt, ProposeCheck(c, a) PROVE HardInv'
<1> DEFINE r == [Idle EXCEPT !.op = "propose", !.pc = "adapter", !.attempt = a]
<1>1. r \in CallState /\ r.op \in WorkOp /\ r.pc = "adapter" /\ r.attempt = a
  BY DEF Idle, CallState, Op, Pc, WorkOp
<1> QED
  BY <1>1, BeginSafe, StateNotHard DEF ProposeCheck, registry, ledger

LEMMA ReviewCheckSafe ==
  ASSUME Known, NEW c \in Call, NEW a \in Attempt, NEW p \in Proposal, ReviewCheck(c, a, p)
  PROVE  HardInv'
<1> DEFINE r == [Idle EXCEPT !.op = "review", !.pc = "adapter", !.attempt = a, !.proposal = p]
<1>1. r \in CallState /\ r.op \in WorkOp /\ r.pc = "adapter" /\ r.attempt = a
  BY DEF Idle, CallState, Op, Pc, WorkOp
<1> QED
  BY <1>1, BeginSafe, StateNotHard DEF ReviewCheck, registry, ledger

LEMMA ResumeCheckSafe ==
  ASSUME Known, NEW c \in Call, NEW a \in Attempt, ResumeCheck(c, a) PROVE HardInv'
<1> DEFINE r == [Idle EXCEPT !.op = "resume", !.pc = "gate", !.attempt = a]
<1>1. r \in CallState /\ r.op \in WorkOp /\ r.pc = "gate" /\ r.attempt = a
  BY DEF Idle, CallState, Op, Pc, WorkOp
<1> QED
  BY <1>1, BeginSafe, StateNotHard DEF ResumeCheck, registry, ledger

\* apply_proposal changes the run in the section that begins the call.
LEMMA ApplyCheckSafe ==
  ASSUME Known, NEW c \in Call, NEW a \in Attempt, NEW p \in Proposal, ApplyCheck(c, a, p)
  PROVE  HardInv'
<1> DEFINE r == [Idle EXCEPT !.op = "apply", !.pc = "check", !.attempt = a, !.proposal = p]
           s == [run[a] EXCEPT !.state = "applying"]
<1>1. r \in CallState /\ r.op = "apply" /\ r.pc = "check" /\ r.attempt = a
  BY DEF Idle, CallState, Op, Pc
<1>2. run \in [Attempt -> RecoveryRun] /\ call \in [Call -> CallState]
  BY DEF Known, TypeInv, TypeOK
<1>3. s \in RecoveryRun /\ s.key = run[a].key /\ s.state = "applying"
  BY <1>2, RunRecord, StatesAreStates
<1>4. run' = [run EXCEPT ![a] = s] /\ UNCHANGED <<patched, failures>>
  BY DEF ApplyCheck, Transition, ledger
<1>5. ~HardEscalate(run[a]) /\ run[a].state # "absent"
  BY StateNotHard DEF ApplyCheck
<1> HIDE DEF s
<1>6. RunsEvolve /\ \A b \in Attempt : AttemptSafe(b)'
  BY <1>3, <1>4, <1>5, RunMovesSafely
<1>7. call' = [call EXCEPT ![c] = r]
  BY DEF ApplyCheck
<1> HIDE DEF r
<1>8. call'[c] = r /\ \A d \in Call \ {c} : call'[d] = call[d]
  BY <1>2, <1>7
<1>9. ThreadSafe(c)' /\ ~Registers(c)'
  BY <1>1, <1>5, <1>6, <1>8 DEF ThreadSafe, Registers, At, HardEscalate, RunsEvolve
<1> QED
  BY <1>4, <1>6, <1>8, <1>9, OneThreadSafe

-----------------------------------------------------------------------------
(* The steps of a call that works on a registered run.                      *)

LEMMA WorkingRun ==
  ASSUME Known, NEW c \in Call, Busy(c)
  PROVE  call[c].attempt \in Attempt /\ run[call[c].attempt] \in RecoveryRun
         /\ run[call[c].attempt].state # "absent"
BY Working DEF Known, HardInv, ThreadSafe, Busy

\* A second locked section that ends or continues the call.
LEMMA TransitionSafe ==
  ASSUME Known, UNCHANGED <<patched, failures>>, NEW c \in Call, Busy(c), Carries(c),
         call[c].op \in WorkOp, NEW r \in RecoveryRun, Transition(call[c].attempt, r),
         r.key = run[call[c].attempt].key, r.state # "absent"
  PROVE  HardInv'
BY RunStepSafe DEF Transition

\* The same, for a section that only moves the state of the run.
LEMMA StateMovesSafely ==
  ASSUME Known, UNCHANGED <<patched, failures>>, NEW c \in Call, Busy(c), Carries(c),
         call[c].op \in WorkOp, NEW s \in RecoveryState, s # "absent",
         Transition(call[c].attempt, [run[call[c].attempt] EXCEPT !.state = s])
  PROVE  HardInv'
<1> DEFINE r == [run[call[c].attempt] EXCEPT !.state = s]
<1>1. r \in RecoveryRun /\ r.key = run[call[c].attempt].key /\ r.state = s
  BY WorkingRun, RunRecord
<1> HIDE DEF r
<1> QED
  BY <1>1, TransitionSafe DEF r

LEMMA CancelFinishSafe == ASSUME Known, NEW c \in Call, CancelFinish(c) PROVE HardInv'
<1> DEFINE a == call[c].attempt
           r == [run[a] EXCEPT !.state = "cancelled"]
<1>1. Busy(c) /\ Carries(c) /\ UNCHANGED <<patched, failures>>
  BY CarriesReturn DEF CancelFinish, At, Busy, Known, ledger
<1>2. r \in RecoveryRun /\ r.key = run[a].key /\ r.locked = run[a].locked /\ r.state = "cancelled"
  BY <1>1, WorkingRun, RunRecord, StatesAreStates DEF Terminal
<1>3. CASE UNCHANGED registry
  BY <1>1, <1>3, QuietSafe DEF registry
<1>4. CASE Transition(a, r)
  <2>1. run' = [run EXCEPT ![a] = r]
    BY <1>4 DEF Transition
  <2> HIDE DEF r
  <2> QED
    BY <1>1, <1>2, <2>1, RunStepSafe
<1> QED
  BY <1>3, <1>4 DEF CancelFinish

LEMMA FreezeSafe == ASSUME Known, NEW c \in Call, Freeze(c) PROVE HardInv'
<1>1. Busy(c) /\ call[c].op \in WorkOp /\ call[c].op # "mark_route"
  BY DEF Freeze, FreezeLock, FreezeSnapshot, FreezeRollback, FreezeCompensate, FreezePersist,
     At, Busy, WorkOp
<1>2. {"snapshot", "persist", "rollback"} \subseteq Pc \ {"record", "register"}
  BY DEF Pc
<1>3. \A pc \in {"snapshot", "persist", "rollback"} : Goto(c, pc) => Carries(c)
  BY <1>1, <1>2, CarriesGoto DEF Busy, Known
<1>4. Return(c) => Carries(c)
  BY CarriesReturn DEF Known
<1>5. CASE FreezeLock(c)
  BY <1>3, <1>4, <1>5, QuietSafe DEF FreezeLock, registry, ledger
<1>6. CASE FreezeSnapshot(c)
  BY <1>3, <1>6, QuietSafe DEF FreezeSnapshot, registry, ledger
<1>7. CASE FreezeRollback(c)
  <2>1. Carries(c)
    BY <1>1, <1>7, CarriesMark DEF FreezeRollback, Busy, Known, Outcome
  <2> QED
    BY <1>7, <2>1, QuietSafe DEF FreezeRollback, registry, ledger
<1>8. CASE FreezeCompensate(c)
  BY <1>1, <1>4, <1>8, StateMovesSafely, StatesAreStates DEF FreezeCompensate, Terminal, ledger
<1>9. CASE FreezePersist(c)
  <2> DEFINE a == call[c].attempt
             r == [run[a] EXCEPT !.state = "proposing", !.locked = call[c].files]
  <2>1. run[a] \in RecoveryRun /\ call[c].files \in SUBSET File
    BY <1>1, WorkingRun DEF Known, TypeInv, TypeOK, CallState
  <2>2. "proposing" \in RecoveryState
    BY DEF RecoveryState, Cancellable
  <2>3. r \in RecoveryRun /\ r.key = run[a].key /\ r.state = "proposing"
    BY <2>1, <2>2 DEF RecoveryRun
  <2>4. Transition(a, r) /\ UNCHANGED <<patched, failures>>
    BY <1>9 DEF FreezePersist, ledger
  <2>5. Carries(c)
    BY <1>4, <1>9 DEF FreezePersist
  <2> HIDE DEF r
  <2> QED
    BY <1>1, <2>3, <2>4, <2>5, TransitionSafe
<1> QED
  BY <1>5, <1>6, <1>7, <1>8, <1>9 DEF Freeze

LEMMA ThawSafe == ASSUME Known, NEW c \in Call, ThawRelease(c) \/ ThawForget(c) PROVE HardInv'
<1>1. Busy(c) /\ call[c].op # "mark_route" /\ call[c].pc \notin {"idle", "record", "register"}
  BY DEF ThawRelease, ThawForget, Busy, Known, HardInv, ThreadSafe, TypeInv, ThreadOK
<1>2. Return(c) => Carries(c)
  BY CarriesReturn DEF Known
<1>3. CASE ThawRelease(c)
  <2>1. "forget" \in Pc \ {"record", "register"}
    BY DEF Pc
  <2>2. Carries(c)
    BY <1>1, <1>2, <1>3, <2>1, CarriesGoto DEF ThawRelease, Known
  <2> QED
    BY <1>3, <2>2, QuietSafe DEF ThawRelease, registry, ledger
<1>4. CASE ThawForget(c)
  <2> DEFINE a == call[c].attempt
             r == [run[a] EXCEPT !.locked = {}]
  <2>1. a \in Attempt /\ run[a] \in RecoveryRun /\ run[a].state # "absent"
    BY <1>1, WorkingRun
  <2>2. r \in RecoveryRun /\ r.key = run[a].key /\ r.state = run[a].state /\ r.locked = {}
    BY <2>1 DEF RecoveryRun
  <2>3. run' = [run EXCEPT ![a] = r] /\ UNCHANGED <<patched, failures>> /\ Carries(c)
    BY <1>2, <1>4 DEF ThawForget, ledger
  <2> HIDE DEF r
  <2> QED
    BY <1>1, <2>1, <2>2, <2>3, RunStepSafe
<1> QED
  BY <1>3, <1>4

LEMMA ProposeFinishSafe ==
  ASSUME Known, NEW c \in Call, NEW p \in Proposal, ProposeFinish(c, p) PROVE HardInv'
<1> DEFINE a == call[c].attempt
           r == [run[a] EXCEPT !.state = "reviewing", !.proposal = p]
<1>1. /\ Busy(c) /\ call[c].op \in WorkOp /\ Carries(c) /\ UNCHANGED <<patched, failures>>
  BY CarriesReturn DEF ProposeFinish, At, Busy, WorkOp, Known, ledger
<1>2. CASE UNCHANGED registry
  BY <1>1, <1>2, QuietSafe DEF registry
<1>3. CASE Transition(a, r)
  <2>1. "reviewing" \in RecoveryState
    BY DEF RecoveryState, Cancellable
  <2>2. r \in RecoveryRun /\ r.key = run[a].key /\ r.state = "reviewing"
    BY <1>1, <2>1, WorkingRun DEF RecoveryRun
  <2> HIDE DEF r
  <2> QED
    BY <1>1, <1>3, <2>2, TransitionSafe
<1> QED
  BY <1>2, <1>3 DEF ProposeFinish

LEMMA ReviewFinishSafe ==
  ASSUME Known, NEW c \in Call, NEW v \in Verdict, ReviewFinish(c, v) PROVE HardInv'
<1> DEFINE a == call[c].attempt
           s == IF v = "approved" THEN "awaiting_human_confirm" ELSE "reviewing"
           w == [verdict |-> v, proposal |-> call[c].proposal]
           r == [run[a] EXCEPT !.state = s, !.review = w]
<1>1. /\ Busy(c) /\ call[c].op \in WorkOp /\ Carries(c) /\ UNCHANGED <<patched, failures>>
  BY CarriesReturn DEF ReviewFinish, At, Busy, WorkOp, Known, ledger
<1>2. CASE UNCHANGED registry
  BY <1>1, <1>2, QuietSafe DEF registry
<1>3. CASE Transition(a, r)
  <2>1. s \in RecoveryState /\ s # "absent"
    BY DEF RecoveryState, Cancellable
  <2>2. w \in Review
    BY DEF Known, TypeInv, TypeOK, CallState, Review
  <2> HIDE DEF s, w
  <2>3. r \in RecoveryRun /\ r.key = run[a].key /\ r.state = s
    BY <1>1, <2>1, <2>2, WorkingRun DEF RecoveryRun
  <2> HIDE DEF r
  <2> QED
    BY <1>1, <1>3, <2>1, <2>3, TransitionSafe
<1> QED
  BY <1>2, <1>3 DEF ReviewFinish

LEMMA ApplySafe == ASSUME Known, NEW c \in Call, Apply(c) PROVE HardInv'
<1> DEFINE a == call[c].attempt
<1>1. Busy(c) /\ call[c].op = "apply" /\ call[c].op \in WorkOp
  BY DEF Apply, PatchCheck, PatchReplace, PatchEvidence, ApplyFinish, ApplyCompensate,
     At, Busy, WorkOp
<1>2. \A pc \in {"replace", "evidence", "applied"} : Goto(c, pc) => Carries(c)
  <2>1. {"replace", "evidence", "applied"} \subseteq Pc \ {"record", "register"}
    BY DEF Pc
  <2> QED
    BY <1>1, <2>1, CarriesGoto DEF Busy, Known
<1>3. (Return(c) => Carries(c)) /\ (ApplyRaise(c) => Carries(c))
  BY <1>1, CarriesReturn, CarriesMark DEF ApplyRaise, Busy, Known, Outcome
<1>4. CASE PatchCheck(c)
  BY <1>2, <1>3, <1>4, QuietSafe DEF PatchCheck, registry, ledger
<1>5. CASE PatchReplace(c)
  <2>1. /\ a \in Attempt /\ run[a].state # "absent" /\ ~HardEscalate(run[a])
        /\ a \in failures
    BY <1>1, WorkingRun, WorkingLedger DEF Known, HardInv, ThreadSafe, Busy
  <2>2. /\ UNCHANGED <<run, failures>> /\ Carries(c)
        /\ \A b \in Attempt \ {a} : patched'[b] = patched[b]
    BY <1>2, <1>5 DEF PatchReplace, registry, ledger, Known, TypeInv, TypeOK
  <2>3. ASSUME NEW b \in Attempt PROVE AttemptSafe(b)'
    <3>1. CASE b = a
      BY <2>1, <2>2, <3>1 DEF AttemptSafe, HardEscalate
    <3>2. CASE b # a
      BY <2>2, <3>2 DEF Known, HardInv, AttemptSafe, HardEscalate
    <3> QED
      BY <3>1, <3>2
  <2>4. RunsEvolve
    BY <2>2 DEF RunsEvolve
  <2> QED
    BY <2>1, <2>2, <2>3, <2>4, CarriesOn, OneThreadSafe DEF Carries
<1>6. CASE PatchEvidence(c)
  BY <1>2, <1>3, <1>6, QuietSafe DEF PatchEvidence, registry, ledger
<1>7. CASE ApplyFinish(c)
  <2>1. "re_running_gate" \in RecoveryState
    BY DEF RecoveryState, Cancellable
  <2> QED
    BY <1>1, <1>3, <1>7, <2>1, StateMovesSafely DEF ApplyFinish, ledger
<1>8. CASE ApplyCompensate(c)
  BY <1>1, <1>3, <1>8, StateMovesSafely, StatesAreStates DEF ApplyCompensate, Terminal, ledger
<1> QED
  BY <1>4, <1>5, <1>6, <1>7, <1>8 DEF Apply

LEMMA ResumeSafe == ASSUME Known, NEW c \in Call, Resume(c) PROVE HardInv'
<1>1. Busy(c) /\ call[c].op = "resume" /\ call[c].op \in WorkOp
  BY DEF Resume, ResumeGate, ResumeFinish, ResumeThaw, At, Busy, WorkOp
<1>2. Return(c) => Carries(c)
  BY CarriesReturn DEF Known
<1>3. CASE ResumeGate(c)
  <2>1. Carries(c)
    BY <1>1, <1>2, <1>3, CarriesMark DEF ResumeGate, Busy, Known, Outcome
  <2> QED
    BY <1>3, <2>1, QuietSafe DEF ResumeGate, registry, ledger
<1>4. CASE ResumeFinish(c)
  <2>1. call[c].status \in RecoveryState /\ call[c].status # "absent"
    BY <1>4 DEF ResumeFinish, At, Known, TypeInv, ThreadOK, RecoveryState, Terminal
  <2>2. Carries(c)
    <3>1. "thaw" \in Pc \ {"record", "register"}
      BY DEF Pc
    <3> QED
      BY <1>1, <1>4, <3>1, CarriesGoto DEF ResumeFinish, Busy, Known
  <2> QED
    BY <1>1, <1>4, <2>1, <2>2, StateMovesSafely DEF ResumeFinish, ledger
<1>5. CASE ResumeThaw(c)
  <2> DEFINE files == run[call[c].attempt].locked
  <2>1. CASE call' = [call EXCEPT ![c].pc = "release", ![c].files = files]
    <3>1. call[c] \in CallState /\ call \in [Call -> CallState]
      BY DEF Known, TypeInv, TypeOK
    <3>2. /\ call'[c].op = call[c].op /\ call'[c].pc = "release"
          /\ call'[c].attempt = call[c].attempt /\ \A d \in Call \ {c} : call'[d] = call[d]
      BY <2>1, <3>1 DEF CallState
    <3>3. Carries(c)
      BY <1>1, <3>2 DEF Carries, Busy
    <3> QED
      BY <1>5, <3>3, QuietSafe DEF ResumeThaw, registry, ledger
  <2>2. CASE Return(c)
    BY <1>2, <1>5, <2>2, QuietSafe DEF ResumeThaw, registry, ledger
  <2> QED
    BY <1>5, <2>1, <2>2 DEF ResumeThaw
<1> QED
  BY <1>3, <1>4, <1>5 DEF Resume

-----------------------------------------------------------------------------
(* The environment, the next-state relation and the theorem.                *)

LEMMA RestartSafe == ASSUME Known, Restart PROVE HardInv'
<1>1. \A a \in Attempt : AttemptSafe(a)'
  BY NoRunIsNotHard DEF Restart, Known, HardInv, AttemptSafe, HardEscalate
<1>2. \A c \in Call : ThreadSafe(c)' /\ ~Registers(c)'
  BY DEF Restart, ThreadSafe, Busy, Registers, At, Idle
<1> QED
  BY <1>1, <1>2 DEF HardInv, OneRegistrar

LEMMA NothingSafe ==
  ASSUME Known, UNCHANGED <<run, patched, failures, call>> PROVE HardInv'
<1>1. \A a \in Attempt : AttemptSafe(a)'
  BY DEF Known, HardInv, AttemptSafe, HardEscalate
<1>2. \A c \in Call : ThreadSafe(c)'
  BY DEF Known, HardInv, ThreadSafe, Busy, Registers, At, HardEscalate
<1>3. OneRegistrar'
  BY DEF Known, HardInv, OneRegistrar, Registers, At
<1> QED
  BY <1>1, <1>2, <1>3 DEF HardInv

LEMMA NextHard == Known /\ [Next]_vars => HardInv'
<1> SUFFICES ASSUME Known, [Next]_vars PROVE HardInv'
  OBVIOUS
<1>1. ASSUME NEW c \in Call, Request(c) PROVE HardInv'
  BY <1>1, StartCheckSafe, CancelCheckSafe, ThawCheckSafe, ProposeCheckSafe, ResumeCheckSafe,
     FreezeCheckSafe, ReviewCheckSafe, ApplyCheckSafe, MarkRouteSafe DEF Request
<1>2. ASSUME NEW c \in Call, Step(c) PROVE HardInv'
  <2>1. CASE AdapterFail(c)
    <3>1. Carries(c)
      BY <2>1, CarriesReturn DEF AdapterFail, Known
    <3> QED
      BY <2>1, <3>1, QuietSafe DEF AdapterFail, registry, ledger
  <2> QED
    BY <1>2, <2>1, MarkSafe, StartSafe, CancelFinishSafe, FreezeSafe, ApplySafe, ResumeSafe,
       ThawSafe, ProposeFinishSafe, ReviewFinishSafe DEF Step
<1>3. ASSUME NEW f \in File, LockServerStep(f) PROVE HardInv'
  BY <1>3, NothingSafe DEF LockServerStep, registry, ledger
<1>4. CASE UNCHANGED vars
  BY <1>4, NothingSafe DEF vars
<1> QED
  BY <1>1, <1>2, <1>3, <1>4, RecordRouteSafe, RestartSafe DEF Next

\* Whatever the interleaving, crash or server fault: a run of a failure class
\* that is never auto-recovered never holds a file lock, has no bytes go live for
\* it, and is only ever created, escalated or cancelled.
THEOREM HardNeverPatched == Spec => []HardEscalateIsNeverPatched
<1>1. Init => Known
  BY InitType, InitLedger, InitHard DEF Known
<1>2. Known /\ [Next]_vars => Known'
  BY NextType, NextLedger, NextHard DEF Known
<1>3. Known => HardEscalateIsNeverPatched
  BY DEF Known, HardInv, AttemptSafe, HardEscalateIsNeverPatched
<1> QED
  BY <1>1, <1>2, <1>3, PTL DEF Spec

-----------------------------------------------------------------------------
(* One patcher, one reviewed patch: the inductive invariant.  It holds when *)
(* the freeze_run calls of an attempt do not overlap, and needs no bound on *)
(* what else races with the saga.                                           *)

Outside == {"idle", "record", "register"}
ApprovalOf(p) == [verdict |-> "approved", proposal |-> p]

\* What a thread with the locals t relies on, whatever the others do: r is the
\* run it works on, P the proposals that went live for it.  A cancel may overtake
\* freeze_run and apply_proposal; nothing else leaves those states under them.
Fits(t, r, P) ==
  /\ t.op \in WorkOp => t.pc \notin Outside
  /\ t.op = "start" /\ t.pc \notin Outside => r.key \in HardKey
  /\ t.op = "freeze" => r.state \in {"created", "cancelled"} /\ P = {}
  /\ t.op = "propose" => r.state \notin {"absent", "created"}
  /\ t.op = "review" =>
       r.state \notin {"absent", "created", "proposing"} /\ r.proposal = t.proposal
  /\ t.op = "apply" =>
       r.state \in {"applying", "cancelled"} /\ r.review = ApprovalOf(t.proposal)
  /\ t.op = "resume" => r.state \in Terminal \cup {"re_running_gate"}

\* Threads with the locals t and u that never work on one attempt.
Apart(t, u) ==
  t.attempt = u.attempt =>
    /\ t.op = "freeze" => u.op \notin WorkOp \ {"thaw"}
    /\ t.op = "apply" => u.op \notin {"freeze", "apply", "resume"}

\* What the state of the run r says of its review and of its live proposals P.
Phase(r, P) ==
  /\ r.state \in {"created", "proposing", "reviewing", "awaiting_human_confirm"} => P = {}
  /\ r.state = "awaiting_human_confirm" => r.review = ApprovalOf(r.proposal)
  /\ r.state # "absent" => \A p \in P : r.review = ApprovalOf(p)

Fit(c) == Fits(call[c], run[call[c].attempt], patched[call[c].attempt])

SagaInv ==
  /\ \A a \in Attempt : Phase(run[a], patched[a])
  /\ \A c \in Call : Fit(c)
  /\ \A c, d \in Call : c # d => Apart(call[c], call[d])

\* What every step relies on.
Serial == Known /\ SagaInv

LEMMA InitSaga == Init => SagaInv
<1> SUFFICES ASSUME Init PROVE SagaInv
  OBVIOUS
<1>1. \A a \in Attempt : Phase(run[a], patched[a])
  BY DEF Init, Phase, NoRun
<1>2. \A c \in Call : call[c] = Idle
  BY DEF Init
<1>3. Idle.op = "none" /\ Idle.op \notin WorkOp
  BY DEF Idle, WorkOp
<1> QED
  BY <1>1, <1>2, <1>3 DEF SagaInv, Fit, Fits, Apart

-----------------------------------------------------------------------------
(* Frames.                                                                  *)

\* The thread goes on with its attempt and its proposal, or returns.
Proceeds(c) ==
  /\ \A d \in Call \ {c} : call'[d] = call[d]
  /\ \/ call'[c] = Idle
     \/ /\ call'[c].op = call[c].op /\ call'[c].attempt = call[c].attempt
        /\ call'[c].proposal = call[c].proposal
        /\ call[c].pc \notin Outside /\ call'[c].pc \notin Outside

LEMMA ProceedsReturn == ASSUME TypeInv, NEW c \in Call, Return(c) PROVE Proceeds(c)
BY DEF TypeInv, TypeOK, Return, Proceeds

LEMMA ProceedsGoto ==
  ASSUME TypeInv, NEW c \in Call, call[c].pc \notin Outside,
         NEW pc \in Pc \ Outside, Goto(c, pc)
  PROVE  Proceeds(c)
<1>1. /\ \A d \in Call \ {c} : call'[d] = call[d]
      /\ call'[c].pc = pc /\ call'[c].op = call[c].op /\ call'[c].attempt = call[c].attempt
      /\ call'[c].proposal = call[c].proposal
  <2>1. PICK r \in CallState :
           /\ call' = [call EXCEPT ![c] = r]
           /\ r.pc = pc /\ r.op = call[c].op /\ r.attempt = call[c].attempt
           /\ r.proposal = call[c].proposal
    BY GotoRecord
  <2> QED
    BY <2>1 DEF TypeInv, TypeOK
<1> QED
  BY <1>1 DEF Proceeds

LEMMA ProceedsMark ==
  ASSUME TypeInv, NEW c \in Call, call[c].pc \notin Outside, NEW s \in Outcome,
         call' = [call EXCEPT ![c].pc = "mark", ![c].status = s]
  PROVE  Proceeds(c)
<1>1. call[c] \in CallState /\ call \in [Call -> CallState]
  BY DEF TypeInv, TypeOK
<1>2. /\ \A d \in Call \ {c} : call'[d] = call[d]
      /\ call'[c].pc = "mark" /\ call'[c].op = call[c].op /\ call'[c].attempt = call[c].attempt
      /\ call'[c].proposal = call[c].proposal
  BY <1>1 DEF CallState
<1> QED
  BY <1>2 DEF Proceeds, Outside

LEMMA AfterMarkProceeds ==
  ASSUME TypeInv, NEW c \in Call, NEW ok \in BOOLEAN, AfterMark(c, ok), call[c].pc \notin Outside
  PROVE  Proceeds(c)
<1>1. {"finish", "escalate"} \subseteq Pc \ Outside
  BY DEF Pc, Outside
<1> QED
  BY <1>1, ProceedsGoto, ProceedsReturn DEF AfterMark

\* A thread that fits its run keeps fitting it as it proceeds, and stays apart
\* from the threads it was apart from.
LEMMA IdleFits == ASSUME NEW r, NEW P PROVE Fits(Idle, r, P)
BY DEF Idle, Fits, WorkOp

LEMMA ProceedsFits ==
  ASSUME NEW c \in Call, Proceeds(c), NEW r, NEW P, call'[c] = Idle \/ Fits(call[c], r, P)
  PROVE  Fits(call'[c], r, P)
<1>1. CASE call'[c] = Idle
  BY <1>1, IdleFits
<1>2. CASE call'[c] # Idle
  BY <1>2 DEF Proceeds, Fits
<1> QED
  BY <1>1, <1>2

LEMMA ProceedsApart ==
  ASSUME SagaInv, NEW c \in Call, Proceeds(c)
  PROVE  \A d, e \in Call : d # e => Apart(call'[d], call'[e])
<1>1. CASE call'[c] = Idle
  BY <1>1 DEF SagaInv, Proceeds, Apart, Idle, WorkOp
<1>2. CASE call'[c] # Idle
  BY <1>2 DEF SagaInv, Proceeds, Apart
<1> QED
  BY <1>1, <1>2

\* A thread that works on no attempt fits whatever run is shown to it.
LEMMA OutsideFits ==
  ASSUME Serial, NEW c \in Call, call[c].attempt \notin Attempt, NEW r, NEW P
  PROVE  Fits(call[c], r, P)
<1>1. Fit(c) /\ ThreadOK(call[c])
  BY DEF Serial, SagaInv, Known, TypeInv
<1> QED
  BY <1>1 DEF Fit, Fits, ThreadOK, Outside, WorkOp

LEMMA SagaQuiet ==
  ASSUME Serial, UNCHANGED <<run, patched>>, NEW c \in Call, Proceeds(c)
  PROVE  SagaInv'
<1>1. \A d \in Call : Fit(d)'
  <2>1. Fit(c)'
    <3>1. CASE call'[c] = Idle
      BY <3>1, IdleFits DEF Fit
    <3>2. CASE call'[c] # Idle
      <4>1. call'[c].attempt = call[c].attempt
        BY <3>2 DEF Proceeds
      <4>2. Fits(call'[c], run[call[c].attempt], patched[call[c].attempt])
        BY ProceedsFits DEF Serial, SagaInv, Fit
      <4> QED
        BY <4>1, <4>2 DEF Fit
    <3> QED
      BY <3>1, <3>2
  <2>2. \A d \in Call \ {c} : Fit(d)'
    BY DEF Serial, SagaInv, Fit, Proceeds
  <2> QED
    BY <2>1, <2>2
<1> QED
  BY <1>1, ProceedsApart DEF Serial, SagaInv

\* The run a thread works on becomes r: r is in a phase that fits its live
\* proposals, and fits the other threads that work on it.
LEMMA SagaMoves ==
  ASSUME Serial, UNCHANGED patched, NEW c \in Call, Proceeds(c),
         NEW a \in Attempt, a = call[c].attempt, NEW r, run' = [run EXCEPT ![a] = r],
         Phase(r, patched[a]),
         call'[c] = Idle \/ Fits(call[c], r, patched[a]),
         \A d \in Call \ {c} : call[d].attempt = a => Fits(call[d], r, patched[a])
  PROVE  SagaInv'
<1>1. run'[a] = r /\ \A b \in Attempt \ {a} : run'[b] = run[b]
  BY DEF Serial, Known, TypeInv, TypeOK
<1>2. \A b \in Attempt : Phase(run'[b], patched'[b])
  BY <1>1 DEF Serial, SagaInv
<1>3. Fit(c)'
  <2>1. CASE call'[c] = Idle
    BY <2>1, IdleFits DEF Fit
  <2>2. CASE call'[c] # Idle
    <3>1. call'[c].attempt = a /\ Fits(call'[c], r, patched[a])
      BY <2>2, ProceedsFits DEF Proceeds
    <3> QED
      BY <1>1, <3>1 DEF Fit
  <2> QED
    BY <2>1, <2>2
<1>4. ASSUME NEW d \in Call \ {c} PROVE Fit(d)'
  <2>1. call'[d] = call[d]
    BY DEF Proceeds
  <2>2. Fit(d)
    BY DEF Serial, SagaInv
  <2>3. CASE call[d].attempt \in Attempt
    BY <1>1, <2>1, <2>2, <2>3 DEF Fit
  <2>4. CASE call[d].attempt \notin Attempt
    BY <2>1, <2>4, OutsideFits DEF Fit
  <2> QED
    BY <2>3, <2>4
<1> QED
  BY <1>2, <1>3, <1>4, ProceedsApart DEF Serial, SagaInv

\* A call begins.
LEMMA SagaBegin ==
  ASSUME Serial, UNCHANGED <<run, patched>>, NEW c \in Call, NEW r \in CallState, Begin(c, r),
         Fits(r, run[r.attempt], patched[r.attempt]),
         \A d \in Call \ {c} : Apart(r, call[d]) /\ Apart(call[d], r)
  PROVE  SagaInv'
<1>1. call'[c] = r /\ \A d \in Call \ {c} : call'[d] = call[d]
  BY ThreadMoves DEF Serial, Known, TypeInv
<1>2. \A d \in Call : Fit(d)'
  BY <1>1 DEF Serial, SagaInv, Fit
<1>3. \A d, e \in Call : d # e => Apart(call'[d], call'[e])
  BY <1>1 DEF Serial, SagaInv
<1> QED
  BY <1>2, <1>3 DEF Serial, SagaInv

\* A call begins that none of the saga's functions excludes.
LEMMA SagaBeginAnywhere ==
  ASSUME Serial, UNCHANGED <<run, patched>>, NEW c \in Call, NEW r \in CallState, Begin(c, r),
         r.op \in {"start", "mark_route", "cancel", "thaw"},
         r.op = "start" => r.pc \in Outside, r.op = "thaw" => r.pc \notin Outside
  PROVE  SagaInv'
<1>1. Fits(r, run[r.attempt], patched[r.attempt])
  BY DEF Fits, WorkOp
<1>2. \A d \in Call \ {c} : Apart(r, call[d]) /\ Apart(call[d], r)
  BY DEF Apart, WorkOp
<1> QED
  BY <1>1, <1>2, SagaBegin

-----------------------------------------------------------------------------
(* mark_recovery_outcome and start_recovery.                                *)

LEMMA MarkSaga == ASSUME Serial, NEW c \in Call, Mark(c) PROVE SagaInv'
<1>1. TypeInv /\ "append" \in Pc \ Outside
  BY DEF Pc, Outside, Serial, Known
<1>2. CASE MarkUnavailable(c)
  <2>1. Proceeds(c)
    BY <1>1, <1>2, AfterMarkProceeds DEF MarkUnavailable, Outside
  <2> QED
    BY <1>2, <2>1, SagaQuiet DEF MarkUnavailable, registry
<1>3. CASE MarkScan(c)
  <2>1. Proceeds(c)
    BY <1>1, <1>3, AfterMarkProceeds, ProceedsGoto DEF MarkScan, Outside
  <2> QED
    BY <1>3, <2>1, SagaQuiet DEF MarkScan, registry
<1>4. CASE MarkAppend(c)
  <2>1. PICK ok \in BOOLEAN : AfterMark(c, ok)
    BY <1>4, ConstantsAssumption DEF MarkAppend
  <2>2. Proceeds(c)
    BY <1>1, <1>4, <2>1, AfterMarkProceeds DEF MarkAppend, Outside
  <2> QED
    BY <1>4, <2>2, SagaQuiet DEF MarkAppend, registry
<1> QED
  BY <1>2, <1>3, <1>4 DEF Mark

LEMMA StartRecordSaga ==
  ASSUME Serial, NEW c \in Call, NEW a \in Attempt, StartRecord(c, a) PROVE SagaInv'
<1>1. UNCHANGED <<run, patched>> /\ call[c].op = "start" /\ TypeInv
  BY DEF StartRecord, registry, At, Serial, Known
<1>2. CASE Return(c)
  BY <1>1, <1>2, ProceedsReturn, SagaQuiet
<1>3. CASE call' = [call EXCEPT ![c].pc = "register", ![c].attempt = a, ![c].key = Redacted[@]]
  <2>1. call[c] \in CallState /\ call \in [Call -> CallState]
    BY <1>1 DEF TypeInv, TypeOK
  <2>2. /\ call'[c].op = "start" /\ call'[c].pc = "register"
        /\ \A d \in Call \ {c} : call'[d] = call[d]
    BY <1>1, <1>3, <2>1 DEF CallState
  <2>3. \A d \in Call : Fit(d)'
    BY <1>1, <2>2 DEF Serial, SagaInv, Fit, Fits, WorkOp, Outside
  <2>4. \A d, e \in Call : d # e => Apart(call'[d], call'[e])
    BY <2>2 DEF Serial, SagaInv, Apart, WorkOp
  <2> QED
    BY <1>1, <2>3, <2>4 DEF Serial, SagaInv
<1> QED
  BY <1>2, <1>3 DEF StartRecord

\* No other thread works on the new run, and nothing was patched for it.
LEMMA StartRegisterSaga ==
  ASSUME Serial, NEW c \in Call, StartRegister(c) PROVE SagaInv'
<1> DEFINE a == call[c].attempt
           r == NewRun(call[c].key)
<1>1. /\ TypeInv /\ Registers(c) /\ call[c].op = "start" /\ UNCHANGED patched
      /\ run' = [run EXCEPT ![a] = r]
  BY DEF StartRegister, Serial, Known, Registers, At
<1>2. a \in Attempt /\ patched[a] = {} /\ run[a].state = "absent"
  BY <1>1 DEF Serial, Known, HardInv, ThreadSafe, TypeInv, ThreadOK, Registers, At
<1>3. r.state = "created" /\ r.key = call[c].key
  BY DEF NewRun, NoRun
<1>4. run'[a] = r /\ \A b \in Attempt \ {a} : run'[b] = run[b]
  BY <1>1, <1>2 DEF TypeInv, TypeOK
<1> HIDE DEF r
<1>5. \A b \in Attempt : Phase(run'[b], patched'[b])
  <2>1. Phase(r, patched[a])
    BY <1>2, <1>3 DEF Phase
  <2> QED
    BY <1>1, <1>4, <2>1 DEF Serial, SagaInv
<1>6. /\ \A d \in Call \ {c} : call'[d] = call[d]
      /\ \/ call'[c] = Idle
         \/ call'[c].op = "start" /\ call'[c].attempt = a /\ call[c].key \in HardKey
  <2>1. call[c] \in CallState /\ call \in [Call -> CallState]
    BY <1>1 DEF TypeInv, TypeOK
  <2> QED
    BY <1>1, <2>1 DEF StartRegister, Return, CallState
<1>7. Fit(c)' /\ call'[c].op \notin WorkOp
  <2>1. CASE call'[c] = Idle
    BY <2>1, IdleFits DEF Fit, Idle, WorkOp
  <2>2. CASE call'[c].op = "start" /\ call'[c].attempt = a /\ call[c].key \in HardKey
    BY <1>3, <1>4, <2>2 DEF Fit, Fits, WorkOp
  <2> QED
    BY <1>6, <2>1, <2>2
<1>8. ASSUME NEW d \in Call \ {c} PROVE Fit(d)'
  <2>1. call'[d] = call[d] /\ Fit(d) /\ ThreadOK(call[d]) /\ ThreadSafe(d)
    BY <1>1, <1>6 DEF Serial, SagaInv, Known, HardInv, TypeInv
  <2>2. CASE call[d].attempt = a
    BY <1>2, <2>1, <2>2 DEF ThreadSafe, Busy, Fit, Fits, WorkOp, Outside
  <2>3. CASE call[d].attempt \in Attempt \ {a}
    BY <1>1, <1>4, <2>1, <2>3 DEF Fit
  <2>4. CASE call[d].attempt \notin Attempt
    BY <2>1, <2>4, OutsideFits DEF Fit
  <2> QED
    BY <2>2, <2>3, <2>4
<1>9. \A d, e \in Call : d # e => Apart(call'[d], call'[e])
  BY <1>6, <1>7 DEF Serial, SagaInv, Apart, WorkOp
<1> QED
  BY <1>5, <1>7, <1>8, <1>9 DEF SagaInv

\* A run that start_recovery closes is hard-escalate: no thread of the saga works
\* on it, and nothing was patched for it.
LEMMA StartEscalateSaga ==
  ASSUME Serial, NEW c \in Call, StartEscalate(c) PROVE SagaInv'
<1> DEFINE a == call[c].attempt
           r == [run[a] EXCEPT !.state = "escalated"]
<1>1. /\ TypeInv /\ call[c].op = "start" /\ call[c].pc = "escalate" /\ UNCHANGED patched
      /\ run' = [run EXCEPT ![a] = r]
  BY DEF StartEscalate, At, Serial, Known
<1>2. a \in Attempt /\ run[a] \in RecoveryRun
  BY <1>1, Working
<1>3. HardEscalate(run[a]) /\ Fit(c)
  BY <1>1 DEF Serial, SagaInv, Fit, Fits, Outside, HardEscalate
<1>4. patched[a] = {}
  BY <1>2, <1>3 DEF Serial, Known, HardInv, AttemptSafe
<1>5. r.key = run[a].key /\ r.state = "escalated"
  BY <1>2, RunRecord, StatesAreStates DEF Terminal
<1>6. Proceeds(c)
  <2>1. "lookup" \in Pc \ Outside
    BY DEF Pc, Outside
  <2> QED
    BY <1>1, <2>1, ProceedsGoto DEF StartEscalate, Outside
<1> HIDE DEF r
<1>7. Phase(r, patched[a])
  BY <1>4, <1>5 DEF Phase
<1>8. Fits(call[c], r, patched[a])
  BY <1>1, <1>3, <1>5 DEF Fits, WorkOp, HardEscalate
<1>9. ASSUME NEW d \in Call \ {c}, call[d].attempt = a PROVE Fits(call[d], r, patched[a])
  <2>1. Fit(d) /\ ThreadSafe(d)
    BY DEF Serial, SagaInv, Known, HardInv
  <2>2. call[d].op \notin WorkOp
    BY <1>3, <1>9, <2>1 DEF Fit, Fits, ThreadSafe, Busy, Outside, WorkOp
  <2> QED
    BY <1>3, <1>5, <2>2 DEF Fits, WorkOp, HardEscalate
<1> QED
  BY <1>1, <1>2, <1>6, <1>7, <1>8, <1>9, SagaMoves

LEMMA StartSaga == ASSUME Serial, NEW c \in Call, Start(c) PROVE SagaInv'
<1>1. TypeInv
  BY DEF Serial, Known
<1>2. CASE StartLookup(c)
  <2>1. call[c].pc \notin Outside /\ "drop" \in Pc \ Outside
    BY <1>2 DEF StartLookup, At, Pc, Outside
  <2>2. Proceeds(c)
    BY <1>1, <1>2, <2>1, ProceedsGoto, ProceedsReturn DEF StartLookup
  <2> QED
    BY <1>2, <2>2, SagaQuiet DEF StartLookup, registry
<1>3. CASE StartDrop(c)
  BY <1>1, <1>3, ProceedsReturn, SagaQuiet DEF StartDrop
<1> QED
  BY <1>2, <1>3, StartRecordSaga, StartRegisterSaga, StartEscalateSaga DEF Start

-----------------------------------------------------------------------------
(* The requests.                                                            *)

LEMMA OtherRequestsSaga ==
  ASSUME Serial, NEW c \in Call,
         \/ \E k \in Key : StartCheck(c, k)
         \/ \E a \in Attempt : CancelCheck(c, a) \/ ThawCheck(c, a)
         \/ \E a \in Attempt, s \in RouteOutcome : MarkRoute(c, a, s)
  PROVE  SagaInv'
<1>1. ASSUME NEW k \in Key, StartCheck(c, k) PROVE SagaInv'
  <2> DEFINE t == [Idle EXCEPT !.op = "start", !.pc = "record", !.key = k]
  <2>1. t \in CallState /\ t.op = "start" /\ t.pc \in Outside
    BY DEF Idle, CallState, Op, Pc, Outside
  <2> QED
    BY <1>1, <2>1, SagaBeginAnywhere DEF StartCheck
<1>2. ASSUME NEW a \in Attempt, CancelCheck(c, a) PROVE SagaInv'
  <2> DEFINE t == [Idle EXCEPT !.op = "cancel", !.pc = "mark", !.attempt = a,
                               !.status = "retry_failed"]
  <2>1. t \in CallState /\ t.op = "cancel"
    BY DEF Idle, CallState, Op, Pc, Outcome
  <2> QED
    BY <1>2, <2>1, SagaBeginAnywhere DEF CancelCheck, registry
<1>3. ASSUME NEW a \in Attempt, ThawCheck(c, a) PROVE SagaInv'
  <2> DEFINE t == [Idle EXCEPT !.op = "thaw", !.pc = "release", !.attempt = a,
                               !.files = run[a].locked]
  <2>1. run[a].locked \in SUBSET File
    BY DEF Serial, Known, TypeInv, TypeOK, RecoveryRun
  <2>2. t \in CallState /\ t.op = "thaw" /\ t.pc \notin Outside
    BY <2>1 DEF Idle, CallState, Op, Pc, Outside
  <2> QED
    BY <1>3, <2>2, SagaBeginAnywhere DEF ThawCheck, registry
<1>4. ASSUME NEW a \in Attempt, NEW s \in RouteOutcome, MarkRoute(c, a, s) PROVE SagaInv'
  <2> DEFINE t == [Idle EXCEPT !.op = "mark_route", !.pc = "mark", !.attempt = a, !.status = s]
  <2>1. t \in CallState /\ t.op = "mark_route"
    BY ConstantsAssumption DEF Idle, CallState, Op, Pc, Outcome
  <2> QED
    BY <1>4, <2>1, SagaBeginAnywhere DEF MarkRoute, registry
<1> QED
  BY <1>1, <1>2, <1>3, <1>4

\* freeze_run begins on a run that was just created: nothing but another
\* freeze_run can be at work on it, and those are serial.
LEMMA FreezeCheckSaga ==
  ASSUME SerialFreeze, Serial, NEW c \in Call, NEW a \in Attempt, NEW files \in SUBSET File,
         FreezeCheck(c, a, files)
  PROVE  SagaInv'
<1> DEFINE t == [Idle EXCEPT !.op = "freeze", !.pc = "lock", !.attempt = a, !.files = files]
<1>1. t \in CallState /\ t.op = "freeze" /\ t.pc = "lock" /\ t.attempt = a
  BY DEF Idle, CallState, Op, Pc
<1>2. /\ run[a].state = "created" /\ Begin(c, t) /\ UNCHANGED <<run, patched>>
      /\ \A d \in Call : ~(call[d].op = "freeze" /\ call[d].attempt = a)
  BY DEF FreezeCheck, registry
<1> HIDE DEF t
<1>3. Fits(t, run[a], patched[a])
  BY <1>1, <1>2 DEF Serial, SagaInv, Phase, Fits, Outside
<1>4. ASSUME NEW d \in Call \ {c} PROVE Apart(t, call[d]) /\ Apart(call[d], t)
  <2>1. Fit(d)
    BY DEF Serial, SagaInv
  <2> QED
    BY <1>1, <1>2, <2>1 DEF Fit, Fits, Apart, WorkOp, Terminal
<1> QED
  BY <1>1, <1>2, <1>3, <1>4, SagaBegin

\* A function of the saga that begins in a state no freeze_run and no
\* apply_proposal works in.
LEMMA SagaBeginMidway ==
  ASSUME Serial, UNCHANGED <<run, patched>>, NEW c \in Call, NEW t \in CallState, Begin(c, t),
         NEW a \in Attempt, t.attempt = a, t.op \in {"propose", "review", "resume"},
         run[a].state \notin {"created", "applying", "cancelled"},
         Fits(t, run[a], patched[a])
  PROVE  SagaInv'
<1>1. ASSUME NEW d \in Call \ {c} PROVE Apart(t, call[d]) /\ Apart(call[d], t)
  <2>1. Fit(d)
    BY DEF Serial, SagaInv
  <2> QED
    BY <2>1 DEF Fit, Fits, Apart, WorkOp
<1> QED
  BY <1>1, SagaBegin

LEMMA ProposeCheckSaga ==
  ASSUME Serial, NEW c \in Call, NEW a \in Attempt, ProposeCheck(c, a) PROVE SagaInv'
<1> DEFINE t == [Idle EXCEPT !.op = "propose", !.pc = "adapter", !.attempt = a]
<1>1. t \in CallState /\ t.op = "propose" /\ t.pc = "adapter" /\ t.attempt = a
  BY DEF Idle, CallState, Op, Pc
<1>2. run[a].state = "proposing" /\ Begin(c, t) /\ UNCHANGED <<run, patched>>
  BY DEF ProposeCheck, registry
<1> HIDE DEF t
<1>3. Fits(t, run[a], patched[a])
  BY <1>1, <1>2 DEF Fits, Outside
<1> QED
  BY <1>1, <1>2, <1>3, SagaBeginMidway

LEMMA ReviewCheckSaga ==
  ASSUME Serial, NEW c \in Call, NEW a \in Attempt, NEW p \in Proposal, ReviewCheck(c, a, p)
  PROVE  SagaInv'
<1> DEFINE t == [Idle EXCEPT !.op = "review", !.pc = "adapter", !.attempt = a, !.proposal = p]
<1>1. t \in CallState /\ t.op = "review" /\ t.pc = "adapter" /\ t.attempt = a /\ t.proposal = p
  BY DEF Idle, CallState, Op, Pc
<1>2. /\ run[a].state = "reviewing" /\ run[a].proposal = p
      /\ Begin(c, t) /\ UNCHANGED <<run, patched>>
  BY DEF ReviewCheck, registry
<1> HIDE DEF t
<1>3. Fits(t, run[a], patched[a])
  BY <1>1, <1>2 DEF Fits, Outside
<1> QED
  BY <1>1, <1>2, <1>3, SagaBeginMidway

LEMMA ResumeCheckSaga ==
  ASSUME Serial, NEW c \in Call, NEW a \in Attempt, ResumeCheck(c, a) PROVE SagaInv'
<1> DEFINE t == [Idle EXCEPT !.op = "resume", !.pc = "gate", !.attempt = a]
<1>1. t \in CallState /\ t.op = "resume" /\ t.pc = "gate" /\ t.attempt = a
  BY DEF Idle, CallState, Op, Pc
<1>2. run[a].state = "re_running_gate" /\ Begin(c, t) /\ UNCHANGED <<run, patched>>
  BY DEF ResumeCheck, registry
<1> HIDE DEF t
<1>3. Fits(t, run[a], patched[a])
  BY <1>1, <1>2 DEF Fits, Outside
<1> QED
  BY <1>1, <1>2, <1>3, SagaBeginMidway

\* The section that begins apply_proposal takes the run out of the state in which
\* a second one could begin, with the review of the proposal it will apply.
LEMMA ApplyCheckSaga ==
  ASSUME Serial, NEW c \in Call, NEW a \in Attempt, NEW p \in Proposal, ApplyCheck(c, a, p)
  PROVE  SagaInv'
<1> DEFINE t == [Idle EXCEPT !.op = "apply", !.pc = "check", !.attempt = a, !.proposal = p]
           r == [run[a] EXCEPT !.state = "applying"]
<1>1. t \in CallState /\ t.op = "apply" /\ t.pc = "check" /\ t.attempt = a /\ t.proposal = p
  BY DEF Idle, CallState, Op, Pc
<1>2. run \in [Attempt -> RecoveryRun] /\ call \in [Call -> CallState]
  BY DEF Serial, Known, TypeInv, TypeOK
<1>3. /\ r.state = "applying" /\ r.key = run[a].key
      /\ r.review = run[a].review /\ r.proposal = run[a].proposal
  BY <1>2 DEF RecoveryRun
<1>4. /\ run[a].state = "awaiting_human_confirm" /\ run[a].proposal = p
      /\ run' = [run EXCEPT ![a] = r] /\ call' = [call EXCEPT ![c] = t] /\ UNCHANGED patched
  BY DEF ApplyCheck, Transition
<1> HIDE DEF r, t
<1>5. /\ run'[a] = r /\ \A b \in Attempt \ {a} : run'[b] = run[b]
      /\ call'[c] = t /\ \A d \in Call \ {c} : call'[d] = call[d]
  BY <1>2, <1>4
<1>6. run[a].review = ApprovalOf(p) /\ patched[a] = {}
  BY <1>4 DEF Serial, SagaInv, Phase
<1>7. \A b \in Attempt : Phase(run'[b], patched'[b])
  <2>1. Phase(r, patched[a])
    BY <1>3, <1>6 DEF Phase
  <2> QED
    BY <1>4, <1>5, <2>1 DEF Serial, SagaInv
<1>8. Fit(c)'
  <2>1. Fits(t, r, patched[a])
    BY <1>1, <1>3, <1>6 DEF Fits, Outside
  <2> QED
    BY <1>1, <1>4, <1>5, <2>1 DEF Fit
<1>9. ASSUME NEW d \in Call \ {c}
      PROVE  Fit(d)' /\ Apart(t, call[d]) /\ Apart(call[d], t)
  <2>1. call'[d] = call[d] /\ Fit(d)
    BY <1>5 DEF Serial, SagaInv
  <2>2. CASE call[d].attempt = a
    <3>1. Fits(call[d], r, patched[a]) /\ call[d].op \notin {"freeze", "apply", "resume"}
      BY <1>3, <1>4, <2>1, <2>2 DEF Fit, Fits, Terminal
    <3> QED
      BY <1>1, <1>4, <1>5, <2>1, <2>2, <3>1 DEF Fit, Apart, WorkOp
  <2>3. CASE call[d].attempt \in Attempt \ {a}
    BY <1>1, <1>4, <1>5, <2>1, <2>3 DEF Fit, Apart
  <2>4. CASE call[d].attempt \notin Attempt
    BY <1>1, <2>1, <2>4, OutsideFits DEF Fit, Apart
  <2> QED
    BY <2>2, <2>3, <2>4
<1>10. \A d, e \in Call : d # e => Apart(call'[d], call'[e])
  BY <1>5, <1>9 DEF Serial, SagaInv
<1> QED
  BY <1>7, <1>8, <1>9, <1>10 DEF SagaInv

-----------------------------------------------------------------------------
(* The steps of a call that works on a registered run.                      *)

\* What a working thread knows of its run and of the threads that share it.
LEMMA Sharing ==
  ASSUME Serial, NEW c \in Call, Busy(c)
  PROVE  /\ TypeInv /\ call[c].attempt \in Attempt
         /\ run[call[c].attempt] \in RecoveryRun /\ run[call[c].attempt].state # "absent"
         /\ Phase(run[call[c].attempt], patched[call[c].attempt])
         /\ Fits(call[c], run[call[c].attempt], patched[call[c].attempt])
         /\ \A d \in Call \ {c} : call[d].attempt = call[c].attempt =>
              /\ Fits(call[d], run[call[c].attempt], patched[call[c].attempt])
              /\ Apart(call[c], call[d]) /\ Apart(call[d], call[c])
<1>1. /\ TypeInv /\ call[c].attempt \in Attempt
      /\ run[call[c].attempt] \in RecoveryRun /\ run[call[c].attempt].state # "absent"
  BY WorkingRun DEF Serial, Known
<1> QED
  BY <1>1 DEF Serial, SagaInv, Fit

\* A run that is cancelled still fits every function that works on it.
LEMMA CancelFinishSaga == ASSUME Serial, NEW c \in Call, CancelFinish(c) PROVE SagaInv'
<1> DEFINE a == call[c].attempt
           r == [run[a] EXCEPT !.state = "cancelled"]
<1>1. Busy(c) /\ UNCHANGED patched /\ Proceeds(c) /\ call'[c] = Idle
  BY ProceedsReturn DEF CancelFinish, At, Busy, Serial, Known, TypeInv, TypeOK, Return
<1>2. CASE UNCHANGED registry
  BY <1>1, <1>2, SagaQuiet DEF registry
<1>3. CASE Transition(a, r)
  <2>1. /\ r.state = "cancelled" /\ r.key = run[a].key
        /\ r.review = run[a].review /\ r.proposal = run[a].proposal
    BY <1>1, Sharing DEF RecoveryRun
  <2>2. run' = [run EXCEPT ![a] = r]
    BY <1>3 DEF Transition
  <2> HIDE DEF r
  <2>3. Phase(r, patched[a])
    BY <1>1, <2>1, Sharing DEF Phase
  <2>4. \A d \in Call \ {c} : call[d].attempt = a => Fits(call[d], r, patched[a])
    BY <1>1, <2>1, Sharing DEF Fits, Terminal
  <2> QED
    BY <1>1, <2>2, <2>3, <2>4, Sharing, SagaMoves
<1> QED
  BY <1>2, <1>3 DEF CancelFinish

\* Nothing of the saga but a thaw shares the run with freeze_run.
LEMMA FreezeEndsSaga ==
  ASSUME Serial, NEW c \in Call, FreezeCompensate(c) \/ FreezePersist(c) PROVE SagaInv'
<1> DEFINE a == call[c].attempt
<1>1. /\ Busy(c) /\ call[c].op = "freeze" /\ UNCHANGED patched
      /\ Proceeds(c) /\ call'[c] = Idle
  BY ProceedsReturn DEF FreezeCompensate, FreezePersist, At, Busy, Serial, Known, TypeInv,
     TypeOK, Return
<1>2. PICK r : /\ run' = [run EXCEPT ![a] = r] /\ r.key = run[a].key
               /\ r.state \in {"retry_failed", "proposing"}
  <2>1. CASE FreezeCompensate(c)
    <3>1. run' = [run EXCEPT ![a] = [run[a] EXCEPT !.state = "retry_failed"]]
      BY <2>1 DEF FreezeCompensate, Transition
    <3>2. /\ [run[a] EXCEPT !.state = "retry_failed"].key = run[a].key
          /\ [run[a] EXCEPT !.state = "retry_failed"].state = "retry_failed"
      BY <1>1, Sharing DEF RecoveryRun
    <3> QED
      BY <3>1, <3>2
  <2>2. CASE FreezePersist(c)
    <3> DEFINE s == [run[a] EXCEPT !.state = "proposing", !.locked = call[c].files]
    <3>1. run' = [run EXCEPT ![a] = s]
      BY <2>2 DEF FreezePersist, Transition
    <3>2. s.key = run[a].key /\ s.state = "proposing"
      BY <1>1, Sharing DEF RecoveryRun
    <3> QED
      BY <3>1, <3>2
  <2> QED
    BY <2>1, <2>2
<1>3. patched[a] = {}
  BY <1>1, Sharing DEF Fits
<1>4. Phase(r, patched[a])
  BY <1>2, <1>3 DEF Phase
<1>5. \A d \in Call \ {c} : call[d].attempt = a => Fits(call[d], r, patched[a])
  BY <1>1, <1>2, Sharing DEF Fits, Apart, WorkOp
<1> QED
  BY <1>1, <1>2, <1>4, <1>5, Sharing, SagaMoves

\* thaw_run drops the files of a run and nothing else.
LEMMA ThawForgetSaga == ASSUME Serial, NEW c \in Call, ThawForget(c) PROVE SagaInv'
<1> DEFINE a == call[c].attempt
           r == [run[a] EXCEPT !.locked = {}]
<1>1. /\ Busy(c) /\ UNCHANGED patched /\ Proceeds(c) /\ call'[c] = Idle
      /\ run' = [run EXCEPT ![a] = r]
  BY ProceedsReturn DEF ThawForget, Busy, Serial, Known, HardInv, ThreadSafe, TypeInv, ThreadOK,
     TypeOK, Return
<1>2. /\ r.state = run[a].state /\ r.key = run[a].key
      /\ r.review = run[a].review /\ r.proposal = run[a].proposal
  BY <1>1, Sharing DEF RecoveryRun
<1> HIDE DEF r
<1>3. Phase(r, patched[a])
  BY <1>1, <1>2, Sharing DEF Phase
<1>4. \A d \in Call \ {c} : call[d].attempt = a => Fits(call[d], r, patched[a])
  BY <1>1, <1>2, Sharing DEF Fits
<1> QED
  BY <1>1, <1>3, <1>4, Sharing, SagaMoves

\* No review is out while a run is PROPOSING.
LEMMA ProposeFinishSaga ==
  ASSUME Serial, NEW c \in Call, NEW p \in Proposal, ProposeFinish(c, p) PROVE SagaInv'
<1> DEFINE a == call[c].attempt
           r == [run[a] EXCEPT !.state = "reviewing", !.proposal = p]
<1>1. Busy(c) /\ UNCHANGED patched /\ Proceeds(c) /\ call'[c] = Idle
  BY ProceedsReturn DEF ProposeFinish, At, Busy, Serial, Known, TypeInv, TypeOK, Return
<1>2. CASE UNCHANGED registry
  BY <1>1, <1>2, SagaQuiet DEF registry
<1>3. CASE run[a].state = "proposing" /\ Transition(a, r)
  <2>1. r.state = "reviewing" /\ r.key = run[a].key
    BY <1>1, Sharing DEF RecoveryRun
  <2>2. run' = [run EXCEPT ![a] = r]
    BY <1>3 DEF Transition
  <2> HIDE DEF r
  <2>3. patched[a] = {}
    BY <1>1, <1>3, Sharing DEF Phase
  <2>4. Phase(r, patched[a])
    BY <2>1, <2>3 DEF Phase
  <2>5. \A d \in Call \ {c} : call[d].attempt = a => Fits(call[d], r, patched[a])
    BY <1>1, <1>3, <2>1, Sharing DEF Fits, Terminal
  <2> QED
    BY <1>1, <2>2, <2>4, <2>5, Sharing, SagaMoves
<1> QED
  BY <1>2, <1>3 DEF ProposeFinish

\* The proposal a late verdict was asked about is still the run's.
LEMMA ReviewFinishSaga ==
  ASSUME Serial, NEW c \in Call, NEW v \in Verdict, ReviewFinish(c, v) PROVE SagaInv'
<1> DEFINE a == call[c].attempt
           s == IF v = "approved" THEN "awaiting_human_confirm" ELSE "reviewing"
           w == [verdict |-> v, proposal |-> call[c].proposal]
           r == [run[a] EXCEPT !.state = s, !.review = w]
<1>1. /\ Busy(c) /\ call[c].op = "review" /\ UNCHANGED patched
      /\ Proceeds(c) /\ call'[c] = Idle
  BY ProceedsReturn DEF ReviewFinish, At, Busy, Serial, Known, TypeInv, TypeOK, Return
<1>2. CASE UNCHANGED registry
  BY <1>1, <1>2, SagaQuiet DEF registry
<1>3. CASE run[a].state = "reviewing" /\ Transition(a, r)
  <2>1. s \in {"awaiting_human_confirm", "reviewing"}
        /\ (s = "awaiting_human_confirm" => w = ApprovalOf(call[c].proposal))
    BY DEF ApprovalOf
  <2>2. run' = [run EXCEPT ![a] = r]
    BY <1>3 DEF Transition
  <2> HIDE DEF s, w
  <2>3. r.state = s /\ r.key = run[a].key /\ r.review = w /\ r.proposal = run[a].proposal
    BY <1>1, Sharing DEF RecoveryRun
  <2> HIDE DEF r
  <2>4. patched[a] = {} /\ run[a].proposal = call[c].proposal
    BY <1>1, <1>3, Sharing DEF Phase, Fits
  <2>5. Phase(r, patched[a])
    BY <2>1, <2>3, <2>4 DEF Phase
  <2>6. \A d \in Call \ {c} : call[d].attempt = a => Fits(call[d], r, patched[a])
    BY <1>1, <1>3, <2>1, <2>3, Sharing DEF Fits, Terminal
  <2> QED
    BY <1>1, <2>2, <2>5, <2>6, Sharing, SagaMoves
<1> QED
  BY <1>2, <1>3 DEF ReviewFinish

\* The steps of freeze_run outside the registry lock.
LEMMA FreezeSaga == ASSUME Serial, NEW c \in Call, Freeze(c) PROVE SagaInv'
<1>1. TypeInv /\ {"snapshot", "persist", "rollback"} \subseteq Pc \ Outside
  BY DEF Pc, Outside, Serial, Known
<1>2. CASE FreezeLock(c) \/ FreezeSnapshot(c)
  <2>1. call[c].pc \notin Outside /\ UNCHANGED <<run, patched>>
    BY <1>2 DEF FreezeLock, FreezeSnapshot, At, Outside, registry
  <2>2. Proceeds(c)
    BY <1>1, <1>2, <2>1, ProceedsGoto, ProceedsReturn DEF FreezeLock, FreezeSnapshot
  <2> QED
    BY <2>1, <2>2, SagaQuiet
<1>3. CASE FreezeRollback(c)
  <2>1. Proceeds(c)
    BY <1>1, <1>3, ProceedsMark DEF FreezeRollback, At, Outside, Outcome
  <2> QED
    BY <1>3, <2>1, SagaQuiet DEF FreezeRollback, registry
<1> QED
  BY <1>2, <1>3, FreezeEndsSaga DEF Freeze

LEMMA ThawReleaseSaga == ASSUME Serial, NEW c \in Call, ThawRelease(c) PROVE SagaInv'
<1>1. TypeInv /\ "forget" \in Pc \ Outside /\ call[c].pc \notin Outside
  BY DEF Pc, Outside, Serial, Known, ThawRelease
<1>2. Proceeds(c)
  BY <1>1, ProceedsGoto, ProceedsReturn DEF ThawRelease
<1> QED
  BY <1>2, SagaQuiet DEF ThawRelease, registry

\* The bytes that go live are those of the proposal the run's review approved.
LEMMA PatchReplaceSaga == ASSUME Serial, NEW c \in Call, PatchReplace(c) PROVE SagaInv'
<1> DEFINE a == call[c].attempt
           Q == patched[a] \cup {call[c].proposal}
<1>1. Busy(c) /\ call[c].op = "apply" /\ UNCHANGED run /\ TypeInv
  BY DEF PatchReplace, At, Busy, registry, Serial, Known
<1>2. Proceeds(c)
  <2>1. "evidence" \in Pc \ Outside /\ call[c].pc \notin Outside
    BY DEF PatchReplace, At, Pc, Outside
  <2> QED
    BY <1>1, <2>1, ProceedsGoto DEF PatchReplace
<1>3. a \in Attempt /\ patched'[a] = Q /\ \A b \in Attempt \ {a} : patched'[b] = patched[b]
  BY <1>1, Sharing DEF PatchReplace, TypeInv, TypeOK
<1>4. run[a].state \in {"applying", "cancelled"} /\ run[a].review = ApprovalOf(call[c].proposal)
  BY <1>1, Sharing DEF Fits
<1>5. \A b \in Attempt : Phase(run'[b], patched'[b])
  <2>1. Phase(run[a], Q)
    BY <1>1, <1>4, Sharing DEF Phase
  <2> QED
    BY <1>1, <1>3, <2>1 DEF Serial, SagaInv
<1>6. Fit(c)'
  <2>1. Fits(call[c], run[a], Q)
    BY <1>1, Sharing DEF Fits
  <2>2. Fits(call'[c], run[a], Q)
    BY <1>2, <2>1, ProceedsFits
  <2>3. CASE call'[c] = Idle
    BY <2>3, IdleFits DEF Fit
  <2>4. CASE call'[c] # Idle
    BY <1>1, <1>2, <1>3, <2>2, <2>4 DEF Fit, Proceeds
  <2> QED
    BY <2>3, <2>4
<1>7. ASSUME NEW d \in Call \ {c} PROVE Fit(d)'
  <2>1. call'[d] = call[d] /\ Fit(d)
    BY <1>2 DEF Proceeds, Serial, SagaInv
  <2>2. CASE call[d].attempt = a
    <3>1. call[d].op # "freeze" /\ Fits(call[d], run[a], patched[a])
      BY <1>1, <2>2, Sharing DEF Apart, WorkOp
    <3>2. Fits(call[d], run[a], Q)
      BY <3>1 DEF Fits
    <3> QED
      BY <1>1, <1>3, <2>1, <2>2, <3>2 DEF Fit
  <2>3. CASE call[d].attempt \in Attempt \ {a}
    BY <1>1, <1>3, <2>1, <2>3 DEF Fit
  <2>4. CASE call[d].attempt \notin Attempt
    BY <2>1, <2>4, OutsideFits DEF Fit
  <2> QED
    BY <2>2, <2>3, <2>4
<1> QED
  BY <1>2, <1>5, <1>6, <1>7, ProceedsApart DEF Serial, SagaInv

\* apply_proposal leaves the run to resume_run, or ends it.
LEMMA ApplyEndsSaga ==
  ASSUME Serial, NEW c \in Call, ApplyFinish(c) \/ ApplyCompensate(c) PROVE SagaInv'
<1> DEFINE a == call[c].attempt
<1>1. /\ Busy(c) /\ call[c].op = "apply" /\ UNCHANGED patched
      /\ Proceeds(c) /\ call'[c] = Idle
  BY ProceedsReturn DEF ApplyFinish, ApplyCompensate, At, Busy, Serial, Known, TypeInv,
     TypeOK, Return
<1>2. PICK s \in {"re_running_gate", "retry_failed"} :
        run' = [run EXCEPT ![a] = [run[a] EXCEPT !.state = s]]
  BY DEF ApplyFinish, ApplyCompensate, Transition
<1> DEFINE r == [run[a] EXCEPT !.state = s]
<1>3. /\ r.state = s /\ r.key = run[a].key
      /\ r.review = run[a].review /\ r.proposal = run[a].proposal
  BY <1>1, Sharing DEF RecoveryRun
<1>4. run' = [run EXCEPT ![a] = r]
  BY <1>2
<1> HIDE DEF r
<1>5. Phase(r, patched[a])
  BY <1>1, <1>3, Sharing DEF Phase
<1>6. \A d \in Call \ {c} : call[d].attempt = a => Fits(call[d], r, patched[a])
  BY <1>1, <1>3, Sharing DEF Fits, Apart, WorkOp, Terminal
<1> QED
  BY <1>1, <1>4, <1>5, <1>6, Sharing, SagaMoves

LEMMA ApplySaga == ASSUME Serial, NEW c \in Call, Apply(c) PROVE SagaInv'
<1>1. TypeInv /\ {"replace", "applied"} \subseteq Pc \ Outside
  BY DEF Pc, Outside, Serial, Known
<1>2. CASE PatchCheck(c) \/ PatchEvidence(c)
  <2>1. call[c].pc \notin Outside /\ UNCHANGED <<run, patched>>
    BY <1>2 DEF PatchCheck, PatchEvidence, At, Outside, registry
  <2>2. ApplyRaise(c) => Proceeds(c)
    BY <1>1, <2>1, ProceedsMark DEF ApplyRaise, Outcome
  <2>3. Proceeds(c)
    BY <1>1, <1>2, <2>1, <2>2, ProceedsGoto DEF PatchCheck, PatchEvidence
  <2> QED
    BY <2>1, <2>3, SagaQuiet
<1> QED
  BY <1>2, PatchReplaceSaga, ApplyEndsSaga DEF Apply

LEMMA ResumeSaga == ASSUME Serial, NEW c \in Call, Resume(c) PROVE SagaInv'
<1> DEFINE a == call[c].attempt
<1>1. /\ Busy(c) /\ call[c].op = "resume" /\ UNCHANGED patched /\ TypeInv
      /\ call[c].pc \notin Outside
  BY DEF Resume, ResumeGate, ResumeFinish, ResumeThaw, At, Busy, Outside, Serial, Known
<1>2. CASE ResumeGate(c)
  <2>1. Proceeds(c)
    BY <1>1, <1>2, ProceedsMark, ProceedsReturn DEF ResumeGate, Outcome
  <2> QED
    BY <1>2, <2>1, SagaQuiet DEF ResumeGate, registry
<1>3. CASE ResumeThaw(c)
  <2> DEFINE files == run[a].locked
  <2>1. CASE call' = [call EXCEPT ![c].pc = "release", ![c].files = files]
    <3>1. call[c] \in CallState /\ call \in [Call -> CallState]
      BY <1>1 DEF TypeInv, TypeOK
    <3>2. /\ call'[c].op = call[c].op /\ call'[c].pc = "release"
          /\ call'[c].attempt = call[c].attempt /\ call'[c].proposal = call[c].proposal
          /\ \A d \in Call \ {c} : call'[d] = call[d]
      BY <2>1, <3>1 DEF CallState
    <3>3. Proceeds(c)
      BY <1>1, <3>2 DEF Proceeds, Outside
    <3> QED
      BY <1>3, <3>3, SagaQuiet DEF ResumeThaw, registry
  <2>2. CASE Return(c)
    BY <1>1, <1>3, <2>2, ProceedsReturn, SagaQuiet DEF ResumeThaw, registry
  <2> QED
    BY <1>3, <2>1, <2>2 DEF ResumeThaw
<1>4. CASE ResumeFinish(c)
  <2> DEFINE r == [run[a] EXCEPT !.state = call[c].status]
  <2>1. call[c].status \in Terminal
    BY <1>1, <1>4 DEF ResumeFinish, At, TypeInv, ThreadOK, Terminal
  <2>2. /\ r.state = call[c].status /\ r.key = run[a].key
        /\ r.review = run[a].review /\ r.proposal = run[a].proposal
    BY <1>1, Sharing DEF RecoveryRun
  <2>3. run' = [run EXCEPT ![a] = r]
    BY <1>4 DEF ResumeFinish, Transition
  <2>4. Proceeds(c)
    <3>1. "thaw" \in Pc \ Outside
      BY DEF Pc, Outside
    <3> QED
      BY <1>1, <1>4, <3>1, ProceedsGoto DEF ResumeFinish
  <2> HIDE DEF r
  <2>5. Phase(r, patched[a])
    BY <1>1, <2>1, <2>2, Sharing DEF Phase, Terminal
  <2>6. Fits(call[c], r, patched[a])
    BY <1>1, <2>1, <2>2, Sharing DEF Fits
  <2>7. \A d \in Call \ {c} : call[d].attempt = a => Fits(call[d], r, patched[a])
    BY <1>1, <2>1, <2>2, Sharing DEF Fits, Apart, Terminal, WorkOp
  <2> QED
    BY <1>1, <2>3, <2>4, <2>5, <2>6, <2>7, Sharing, SagaMoves
<1> QED
  BY <1>2, <1>3, <1>4 DEF Resume

-----------------------------------------------------------------------------
(* The environment, the next-state relation and the theorems.               *)

LEMMA RestartSaga == ASSUME Serial, Restart PROVE SagaInv'
<1>1. \A a \in Attempt : Phase(run'[a], patched'[a])
  BY DEF Restart, Phase, NoRun
<1>2. \A c \in Call : call'[c] = Idle
  BY DEF Restart
<1>3. Idle.op \notin WorkOp
  BY DEF Idle, WorkOp
<1> QED
  BY <1>1, <1>2, <1>3, IdleFits DEF SagaInv, Fit, Apart, WorkOp

LEMMA NothingSaga == ASSUME Serial, UNCHANGED <<run, patched, call>> PROVE SagaInv'
BY DEF Serial, SagaInv, Fit

LEMMA NextSaga == SerialFreeze /\ Serial /\ [Next]_vars => SagaInv'
<1> SUFFICES ASSUME SerialFreeze, Serial, [Next]_vars PROVE SagaInv'
  OBVIOUS
<1>1. ASSUME NEW c \in Call, Request(c) PROVE SagaInv'
  BY <1>1, OtherRequestsSaga, ProposeCheckSaga, ResumeCheckSaga, FreezeCheckSaga,
     ReviewCheckSaga, ApplyCheckSaga DEF Request
<1>2. ASSUME NEW c \in Call, Step(c) PROVE SagaInv'
  <2>1. CASE AdapterFail(c)
    <3>1. Proceeds(c)
      BY <2>1, ProceedsReturn DEF AdapterFail, Serial, Known
    <3> QED
      BY <2>1, <3>1, SagaQuiet DEF AdapterFail, registry
  <2> QED
    BY <1>2, <2>1, MarkSaga, StartSaga, CancelFinishSaga, FreezeSaga, ApplySaga, ResumeSaga,
       ThawReleaseSaga, ThawForgetSaga, ProposeFinishSaga, ReviewFinishSaga DEF Step
<1>3. CASE \E a \in Attempt : RecordRoute(a)
  BY <1>3, NothingSaga DEF RecordRoute, registry
<1>4. CASE \E f \in File : LockServerStep(f)
  BY <1>4, NothingSaga DEF LockServerStep, registry
<1>5. CASE UNCHANGED vars
  BY <1>5, NothingSaga DEF vars
<1> QED
  BY <1>1, <1>2, <1>3, <1>4, <1>5, RestartSaga DEF Next

LEMMA SerialCorrect == ASSUME SerialFreeze PROVE Spec => []Serial
<1>1. Init => Serial
  BY InitType, InitLedger, InitHard, InitSaga DEF Known, Serial
<1>2. Serial /\ [Next]_vars => Serial'
  BY NextType, NextLedger, NextHard, NextSaga DEF Known, Serial
<1> QED
  BY <1>1, <1>2, PTL DEF Spec

\* Where the freeze_run calls of an attempt do not overlap, no two threads are
\* ever inside the patch applier for one run, whatever cancels, late reviews,
\* resumes, faults and restarts race with them.
THEOREM OnePatcher == ASSUME SerialFreeze PROVE Spec => []OnePatcherPerRun
<1>1. Serial => OnePatcherPerRun
  BY DEF Serial, SagaInv, Apart, OnePatcherPerRun
<1> QED
  BY <1>1, SerialCorrect, PTL

\* ... and the bytes that are live for a run are those of the one proposal that
\* its review approved.
THEOREM OnlyReviewedPatched == ASSUME SerialFreeze PROVE Spec => []PatchedWasReviewed
<1>1. Serial => PatchedWasReviewed
  BY DEF Serial, SagaInv, Phase, ApprovalOf, PatchedWasReviewed
<1> QED
  BY <1>1, SerialCorrect, PTL

-----------------------------------------------------------------------------
(* The index.  A run is closed by _transition, which gives up its entry, but   *)
(* for the one that start_recovery closes in steps of its own: from then on    *)
(* its thread is about to look the entry up or to drop it.                     *)

\* start_recovery closes the run that it has registered ...
Escalating(c) ==
  call[c].op = "start" /\ call[c].pc \in {"mark", "append", "escalate", "lookup", "drop"}

\* ... and has closed it, but not given up its entry.
Leaves(c, a) == call[c].op = "start" /\ call[c].attempt = a /\ call[c].pc \in {"lookup", "drop"}

Entry(k, a) ==
  /\ run[a].key = k /\ run[a].state # "absent"
  /\ run[a].state \in Terminal => \E c \in Call : Leaves(c, a)

IndexInv ==
  /\ \A k \in Key, a \in Attempt : index[k] = a => Entry(k, a)
  /\ \A c \in Call : Escalating(c) => run[call[c].attempt].key = call[c].key

\* The thread returns or goes on, and closes nothing that it has not closed before.
Onward(c) ==
  /\ \A d \in Call \ {c} : call'[d] = call[d]
  /\ Escalating(c)' => Escalating(c) /\ call'[c].attempt = call[c].attempt /\ call'[c].key = call[c].key

\* It is not one that leaves.
Steps(c) == Onward(c) /\ \A a \in Attempt : ~Leaves(c, a)

\* The entries that are left after a step were there before it; their runs are open,
\* or were closed before, or are closed by the thread that will give them up.
LEMMA IndexFrame ==
  ASSUME Known, IndexInv, NEW c \in Call, Onward(c), RunsEvolve,
         \A k \in Key, a \in Attempt : index'[k] = a =>
           /\ index[k] = a
           /\ run'[a].state \in Terminal => run[a].state \in Terminal \/ Leaves(c, a)'
           /\ Leaves(c, a) => Leaves(c, a)'
  PROVE  IndexInv'
<1>1. ASSUME NEW k \in Key, NEW a \in Attempt, index'[k] = a PROVE Entry(k, a)'
  <2>1. /\ index[k] = a /\ Entry(k, a) /\ run'[a].key = k /\ run'[a].state # "absent"
        /\ run'[a].state \in Terminal => run[a].state \in Terminal \/ Leaves(c, a)'
        /\ Leaves(c, a) => Leaves(c, a)'
    BY <1>1 DEF IndexInv, Entry, RunsEvolve
  <2>2. ASSUME NEW d \in Call, Leaves(d, a) PROVE Leaves(d, a)'
    <3>1. CASE d = c
      BY <2>1, <2>2, <3>1
    <3>2. CASE d # c
      BY <2>2, <3>2 DEF Onward, Leaves
    <3> QED
      BY <3>1, <3>2
  <2>3. run'[a].state \in Terminal => \E d \in Call : Leaves(d, a)'
    BY <2>1, <2>2 DEF Entry
  <2> QED
    BY <2>1, <2>3 DEF Entry
<1>2. ASSUME NEW d \in Call, Escalating(d)' PROVE run'[call'[d].attempt].key = call'[d].key
  <2>1. Escalating(d) /\ call'[d].attempt = call[d].attempt /\ call'[d].key = call[d].key
    BY <1>2 DEF Onward, Escalating
  <2>2. call[d].attempt \in Attempt /\ run[call[d].attempt].key = call[d].key
    BY <2>1 DEF Escalating, IndexInv, Known, TypeInv, ThreadOK
  <2> QED
    BY <2>1, <2>2 DEF RunsEvolve
<1> QED
  BY <1>1, <1>2 DEF IndexInv

\* The entries and the states of the runs stay.
LEMMA IndexQuiet ==
  ASSUME Known, IndexInv, NEW c \in Call, Steps(c), index' = index,
         \A a \in Attempt : run'[a].key = run[a].key /\ run'[a].state = run[a].state
  PROVE  IndexInv'
BY IndexFrame DEF Steps, RunsEvolve

\* _transition.
LEMMA IndexTransition ==
  ASSUME Known, IndexInv, NEW c \in Call, Steps(c), NEW a \in Attempt, NEW r \in RecoveryRun,
         Transition(a, r), r.key = run[a].key, r.state # "absent", run[a].state # "absent"
  PROVE  IndexInv'
<1>1. run'[a] = r /\ \A b \in Attempt \ {a} : run'[b] = run[b]
  BY DEF Known, TypeInv, TypeOK, Transition
<1>2. ASSUME NEW k \in Key, NEW b \in Attempt, index'[k] = b
      PROVE  index[k] = b /\ (run'[b].state \in Terminal => run[b].state \in Terminal)
  <2>1. index[k] = b /\ (b = a /\ k = r.key => r.state \notin Terminal)
    <3>1. CASE r.state \in Terminal /\ index[r.key] = a
      <4>1. index' = [index EXCEPT ![r.key] = None] /\ None \notin Attempt
        BY <3>1, ConstantsAssumption DEF Transition
      <4>2. k # r.key /\ index[k] = b
        BY <1>2, <4>1 DEF Known, TypeInv, TypeOK
      <4> QED
        BY <4>2
    <3>2. CASE ~(r.state \in Terminal /\ index[r.key] = a)
      BY <1>2, <3>2 DEF Transition
    <3> QED
      BY <3>1, <3>2
  <2>2. b = a => k = r.key
    BY <2>1 DEF IndexInv, Entry
  <2> QED
    BY <1>1, <2>1, <2>2
<1>3. RunsEvolve
  BY <1>1 DEF RunsEvolve
<1> QED
  BY <1>2, <1>3, IndexFrame DEF Steps

\* The same, for a step that moves the state of the thread's run.
LEMMA IndexMoves ==
  ASSUME Known, IndexInv, NEW c \in Call, Busy(c), Steps(c), NEW s \in RecoveryState,
         s # "absent", Transition(call[c].attempt, [run[call[c].attempt] EXCEPT !.state = s])
  PROVE  IndexInv'
<1> DEFINE r == [run[call[c].attempt] EXCEPT !.state = s]
<1>1. call[c].attempt \in Attempt /\ r \in RecoveryRun /\ r.key = run[call[c].attempt].key
      /\ r.state = s /\ run[call[c].attempt].state # "absent"
  BY WorkingRun, RunRecord
<1> HIDE DEF r
<1> QED
  BY <1>1, IndexTransition DEF r

LEMMA StepsReturn ==
  ASSUME TypeInv, NEW c \in Call, Return(c)
  PROVE  Onward(c) /\ (call[c].pc \notin {"lookup", "drop"} => Steps(c))
BY ThreadMoves DEF TypeInv, Steps, Onward, Escalating, Leaves

LEMMA StepsGoto ==
  ASSUME TypeInv, NEW c \in Call, NEW pc \in Pc, Goto(c, pc),
         call[c].pc \in {"mark", "append", "release"}, call[c].pc = "release" => pc = "forget"
  PROVE  Steps(c)
<1>1. /\ \A d \in Call \ {c} : call'[d] = call[d]
      /\ call'[c].op = call[c].op /\ call'[c].attempt = call[c].attempt /\ call'[c].key = call[c].key
      /\ call'[c].pc = pc
  BY DEF TypeInv, TypeOK, Goto, CallState
<1> QED
  BY <1>1 DEF Steps, Onward, Escalating, Leaves

\* A thread that has nothing to do with start_recovery.
LEMMA CarriesSteps == ASSUME NEW c \in Call, Carries(c), call[c].op # "start" PROVE Steps(c)
BY DEF Carries, Steps, Onward, Escalating, Leaves, Idle

\* A call begins.
LEMMA StepsBegin ==
  ASSUME TypeInv, NEW c \in Call, NEW r, call[c] = Idle, call' = [call EXCEPT ![c] = r],
         r.op # "start" \/ r.pc = "record"
  PROVE  Steps(c)
<1>1. call'[c] = r /\ \A d \in Call \ {c} : call'[d] = call[d]
  BY DEF TypeInv, TypeOK
<1>2. Idle.op # "start"
  BY DEF Idle
<1> QED
  BY <1>1, <1>2 DEF Steps, Onward, Escalating, Leaves

LEMMA IndexMark == ASSUME Known, IndexInv, NEW c \in Call, Mark(c) PROVE IndexInv'
<1>1. call[c].pc \in {"mark", "append"} /\ UNCHANGED <<run, index>>
  BY DEF Mark, MarkUnavailable, MarkScan, MarkAppend, registry
<1>2. \A pc \in {"append", "finish", "escalate"} : Goto(c, pc) => Steps(c)
  <2>1. {"append", "finish", "escalate"} \subseteq Pc
    BY DEF Pc
  <2>2. TypeInv
    BY DEF Known
  <2>3. ASSUME NEW pc \in Pc, Goto(c, pc) PROVE Steps(c)
    BY <1>1, <2>2, <2>3, StepsGoto
  <2> QED
    BY <2>1, <2>3
<1>3. Return(c) => Steps(c)
  BY <1>1, StepsReturn DEF Known
<1>4. \A ok \in BOOLEAN : AfterMark(c, ok) => Steps(c)
  BY <1>2, <1>3 DEF AfterMark
<1>5. Steps(c)
  <2>1. CASE MarkUnavailable(c)
    BY <1>4, <2>1 DEF MarkUnavailable
  <2>2. CASE MarkScan(c)
    BY <1>2, <1>4, <2>2 DEF MarkScan
  <2>3. CASE MarkAppend(c)
    BY <1>4, <2>3, ConstantsAssumption DEF MarkAppend
  <2> QED
    BY <2>1, <2>2, <2>3 DEF Mark
<1> QED
  BY <1>1, <1>5, IndexQuiet

LEMMA IndexRequest == ASSUME Known, IndexInv, NEW c \in Call, Request(c) PROVE IndexInv'
<1>0. TypeInv
  BY DEF Known
<1>1. ASSUME NEW r, Begin(c, r), r.op # "start", UNCHANGED registry PROVE IndexInv'
  BY <1>0, <1>1, StepsBegin, IndexQuiet DEF Begin, registry
<1>2. ASSUME NEW k \in Key, StartCheck(c, k) PROVE IndexInv'
  <2>1. Steps(c)
    <3> DEFINE r == [Idle EXCEPT !.op = "start", !.pc = "record", !.key = k]
    <3>1. r.pc = "record" /\ call[c] = Idle /\ call' = [call EXCEPT ![c] = r]
      BY <1>2 DEF StartCheck, Begin, Idle
    <3> HIDE DEF r
    <3> QED
      BY <1>0, <3>1, StepsBegin
  <2>2. run' = run /\ index' = [index EXCEPT ![k] = None] /\ None \notin Attempt
    BY <1>2, ConstantsAssumption DEF StartCheck
  <2>3. \A j \in Key, a \in Attempt : index'[j] = a => index[j] = a
    BY <1>0, <2>2 DEF TypeInv, TypeOK
  <2>4. RunsEvolve
    BY <2>2 DEF RunsEvolve
  <2> QED
    BY <2>1, <2>2, <2>3, <2>4, IndexFrame DEF Steps
<1>3. ASSUME NEW a \in Attempt, NEW p \in Proposal, ApplyCheck(c, a, p) PROVE IndexInv'
  <2> DEFINE r == [Idle EXCEPT !.op = "apply", !.pc = "check", !.attempt = a, !.proposal = p]
             s == [run[a] EXCEPT !.state = "applying"]
  <2>1. r.op = "apply" /\ call[c] = Idle /\ call' = [call EXCEPT ![c] = r]
    BY <1>3 DEF ApplyCheck, Idle
  <2>2. /\ s \in RecoveryRun /\ s.key = run[a].key /\ s.state = "applying" /\ Transition(a, s)
        /\ run[a].state # "absent"
    BY <1>0, <1>3, RunRecord, StatesAreStates DEF ApplyCheck, TypeInv, TypeOK
  <2> HIDE DEF r, s
  <2> QED
    BY <1>0, <2>1, <2>2, StepsBegin, IndexTransition
<1>4. ASSUME NEW a \in Attempt, CancelCheck(c, a) PROVE IndexInv'
  BY <1>1, <1>4 DEF CancelCheck, Idle
<1>5. ASSUME NEW a \in Attempt, ThawCheck(c, a) PROVE IndexInv'
  BY <1>1, <1>5 DEF ThawCheck, Idle
<1>6. ASSUME NEW a \in Attempt, ProposeCheck(c, a) PROVE IndexInv'
  BY <1>1, <1>6 DEF ProposeCheck, Idle
<1>7. ASSUME NEW a \in Attempt, ResumeCheck(c, a) PROVE IndexInv'
  BY <1>1, <1>7 DEF ResumeCheck, Idle
<1>8. ASSUME NEW a \in Attempt, NEW files, FreezeCheck(c, a, files) PROVE IndexInv'
  BY <1>1, <1>8 DEF FreezeCheck, Idle
<1>9. ASSUME NEW a \in Attempt, NEW p, ReviewCheck(c, a, p) PROVE IndexInv'
  BY <1>1, <1>9 DEF ReviewCheck, Idle
<1>10. ASSUME NEW a \in Attempt, NEW s, MarkRoute(c, a, s) PROVE IndexInv'
  BY <1>1, <1>10 DEF MarkRoute, Idle
<1> QED
  BY <1>2, <1>3, <1>4, <1>5, <1>6, <1>7, <1>8, <1>9, <1>10 DEF Request

\* The run is registered under its pair; nobody had its attempt id in hand.
LEMMA IndexRegister == ASSUME Known, IndexInv, NEW c \in Call, StartRegister(c) PROVE IndexInv'
<1> DEFINE k == call[c].key
<1>1. PICK a \in Attempt : a = call[c].attempt /\ run[a].state = "absent" /\ k \in Key
  BY DEF StartRegister, Known, TypeInv, HardInv, ThreadSafe, ThreadOK, Registers, At
<1>2. /\ run'[a] = NewRun(k) /\ \A b \in Attempt \ {a} : run'[b] = run[b]
      /\ index'[k] = a /\ \A j \in Key \ {k} : index'[j] = index[j]
  BY <1>1 DEF StartRegister, Known, TypeInv, TypeOK
<1>3. run'[a].key = k /\ run'[a].state \notin Terminal /\ run'[a].state # "absent"
  BY <1>2 DEF NewRun, NoRun, Terminal
<1>4. /\ \A d \in Call \ {c} : call'[d] = call[d]
      /\ Escalating(c)' => call'[c].attempt = a /\ call'[c].key = k
  <2>1. CASE Return(c)
    BY <2>1, ThreadMoves DEF Known, TypeInv, Escalating
  <2>2. CASE call' = [call EXCEPT ![c].pc = "mark", ![c].status = "escalated"]
    BY <1>1, <2>2 DEF Known, TypeInv, TypeOK, CallState
  <2> QED
    BY <2>1, <2>2 DEF StartRegister
<1>5. \A d \in Call : Escalating(d) => d # c /\ call[d].attempt \in Attempt \ {a}
  <2> SUFFICES ASSUME NEW d \in Call, Escalating(d) PROVE d # c /\ call[d].attempt \in Attempt \ {a}
    OBVIOUS
  <2>1. Busy(d) /\ call[d].attempt \in Attempt /\ ThreadSafe(d)
    BY DEF Escalating, Busy, Known, TypeInv, ThreadOK, HardInv
  <2>2. d # c
    BY DEF Escalating, StartRegister, At
  <2> QED
    BY <1>1, <2>1, <2>2 DEF ThreadSafe
<1>6. ASSUME NEW j \in Key, NEW b \in Attempt, index'[j] = b PROVE Entry(j, b)'
  <2>1. CASE b = a
    <3>1. j = k
      <4> SUFFICES ASSUME j # k PROVE FALSE
        OBVIOUS
      <4>1. index[j] = a /\ Entry(j, a) /\ j # k
        BY <1>2, <1>6, <2>1 DEF IndexInv
      <4> QED
        BY <1>1, <4>1 DEF Entry
    <3> QED
      BY <1>3, <2>1, <3>1 DEF Entry
  <2>2. CASE b # a
    <3>1. j # k /\ index[j] = b /\ Entry(j, b) /\ run'[b] = run[b]
      BY <1>2, <1>6, <2>2 DEF IndexInv
    <3>2. ASSUME NEW d \in Call, Leaves(d, b) PROVE Leaves(d, b)'
      BY <1>4, <1>5, <3>2 DEF Leaves, Escalating
    <3> QED
      BY <3>1, <3>2 DEF Entry
  <2> QED
    BY <2>1, <2>2
<1>7. ASSUME NEW d \in Call, Escalating(d)' PROVE run'[call'[d].attempt].key = call'[d].key
  <2>1. CASE d = c
    BY <1>3, <1>4, <1>7, <2>1
  <2>2. CASE d # c
    BY <1>2, <1>4, <1>5, <1>7, <2>2 DEF Escalating, IndexInv
  <2> QED
    BY <2>1, <2>2
<1> QED
  BY <1>6, <1>7 DEF IndexInv

LEMMA IndexStart == ASSUME Known, IndexInv, NEW c \in Call, Start(c) PROVE IndexInv'
<1> DEFINE k == call[c].key
           b == call[c].attempt
<1>0. TypeInv
  BY DEF Known
<1>1. ASSUME NEW a \in Attempt, StartRecord(c, a) PROVE IndexInv'
  <2>1. \A d \in Call \ {c} : call'[d] = call[d]
    BY <1>0, <1>1, ThreadMoves DEF StartRecord, TypeInv, TypeOK
  <2>2. call'[c].op # "start" \/ call'[c].pc = "register"
    BY <1>0, <1>1, ThreadMoves DEF StartRecord, TypeInv, TypeOK, CallState
  <2>3. Steps(c)
    BY <1>1, <2>1, <2>2 DEF StartRecord, At, Steps, Onward, Escalating, Leaves
  <2> QED
    BY <1>1, <2>3, IndexQuiet DEF StartRecord, registry
<1>2. ASSUME call[c].op = "start", call[c].pc \in {"escalate", "lookup", "drop"}
      PROVE  /\ k \in Key /\ b \in Attempt /\ run[b].key = k /\ run[b].state # "absent"
             /\ \A j \in Key : index[j] = b => j = k
  <2>1. Busy(c) /\ Escalating(c)
    BY <1>2 DEF Busy, Escalating
  <2> QED
    BY <1>0, <2>1, WorkingRun DEF IndexInv, Entry, Escalating, TypeInv, ThreadOK
<1>3. ASSUME NEW pc \in Pc, Goto(c, pc), call[c].op = "start", call[c].pc \in {"escalate", "lookup"}
      PROVE  /\ Onward(c) /\ call'[c].pc = pc /\ call'[c].op = "start" /\ call'[c].attempt = b
  <2>1. /\ \A d \in Call \ {c} : call'[d] = call[d]
        /\ call'[c].op = call[c].op /\ call'[c].attempt = call[c].attempt /\ call'[c].key = call[c].key
        /\ call'[c].pc = pc
    BY <1>0, <1>3 DEF TypeInv, TypeOK, Goto, CallState
  <2> QED
    BY <1>3, <2>1 DEF Onward, Escalating
<1>4. {"lookup", "drop"} \subseteq Pc
  BY DEF Pc
<1>5. CASE StartEscalate(c)
  <2>1. Onward(c) /\ \A a \in Attempt : (a = b => Leaves(c, a)') /\ ~Leaves(c, a)
    BY <1>3, <1>4, <1>5 DEF StartEscalate, At, Leaves
  <2>2. b \in Attempt /\ run[b].state # "absent" /\ run[b] \in RecoveryRun
    BY <1>0, <1>2, <1>5 DEF StartEscalate, At, TypeInv, TypeOK
  <2>3. /\ run'[b].key = run[b].key /\ run'[b].state = "escalated"
        /\ \A a \in Attempt \ {b} : run'[a] = run[a]
    BY <1>0, <1>5, <2>2 DEF StartEscalate, TypeInv, TypeOK, RecoveryRun
  <2>4. RunsEvolve
    BY <2>2, <2>3 DEF RunsEvolve
  <2>5. index' = index
    BY <1>5 DEF StartEscalate
  <2>6. \A a \in Attempt : run'[a].state \in Terminal => run[a].state \in Terminal \/ Leaves(c, a)'
    BY <2>1, <2>3
  <2> QED
    BY <2>1, <2>4, <2>5, <2>6, IndexFrame
<1>6. CASE StartLookup(c)
  <2>1. RunsEvolve /\ run' = run /\ index' = index
    BY <1>6 DEF StartLookup, registry, RunsEvolve
  <2>2. CASE index[k] = b
    <3>1. Onward(c) /\ \A a \in Attempt : Leaves(c, a) => Leaves(c, a)'
      BY <1>3, <1>4, <1>6, <2>2 DEF StartLookup, At, Leaves
    <3> QED
      BY <2>1, <3>1, IndexFrame
  <2>3. CASE index[k] # b
    <3>1. Onward(c) /\ \A j \in Key, a \in Attempt : index[j] = a => ~Leaves(c, a)
      BY <1>0, <1>2, <1>6, <2>3, StepsReturn DEF StartLookup, At, Leaves
    <3> QED
      BY <2>1, <3>1, IndexFrame
  <2> QED
    BY <2>2, <2>3
<1>7. CASE StartDrop(c)
  <2>1. RunsEvolve /\ run' = run /\ Onward(c)
    BY <1>0, <1>7, StepsReturn DEF StartDrop, RunsEvolve
  <2>2. ASSUME NEW j \in Key, NEW a \in Attempt, index'[j] = a
        PROVE  index[j] = a /\ ~Leaves(c, a)
    BY <1>0, <1>2, <1>7, <2>2, ConstantsAssumption
       DEF StartDrop, At, Leaves, TypeInv, TypeOK
  <2> QED
    BY <2>1, <2>2, IndexFrame
<1> QED
  BY <1>1, <1>5, <1>6, <1>7, IndexRegister DEF Start

LEMMA IndexCancel == ASSUME Known, IndexInv, NEW c \in Call, CancelFinish(c) PROVE IndexInv'
<1>1. Busy(c) /\ Steps(c)
  BY CarriesReturn, CarriesSteps DEF CancelFinish, At, Busy, Known
<1>2. "cancelled" \in RecoveryState
  BY StatesAreStates DEF Terminal
<1> QED
  BY <1>1, <1>2, IndexQuiet, IndexMoves DEF CancelFinish, registry

LEMMA IndexFreeze == ASSUME Known, IndexInv, NEW c \in Call, Freeze(c) PROVE IndexInv'
<1>1. Busy(c) /\ call[c].op = "freeze"
  BY DEF Freeze, FreezeLock, FreezeSnapshot, FreezeRollback, FreezeCompensate, FreezePersist,
     At, Busy
<1>2. {"snapshot", "persist", "rollback"} \subseteq Pc \ {"record", "register"}
  BY DEF Pc
<1>3. \A pc \in {"snapshot", "persist", "rollback"} : Goto(c, pc) => Steps(c)
  BY <1>1, <1>2, CarriesGoto, CarriesSteps DEF Busy, Known
<1>4. Return(c) => Steps(c)
  BY <1>1, CarriesReturn, CarriesSteps DEF Known
<1>5. CASE FreezeLock(c) \/ FreezeSnapshot(c)
  BY <1>3, <1>4, <1>5, IndexQuiet DEF FreezeLock, FreezeSnapshot, registry
<1>6. CASE FreezeRollback(c)
  <2>1. Steps(c)
    BY <1>1, <1>6, CarriesMark, CarriesSteps DEF FreezeRollback, Busy, Known, Outcome
  <2> QED
    BY <1>6, <2>1, IndexQuiet DEF FreezeRollback, registry
<1>7. CASE FreezeCompensate(c)
  BY <1>1, <1>4, <1>7, IndexMoves, StatesAreStates DEF FreezeCompensate, Terminal
<1>8. CASE FreezePersist(c)
  <2> DEFINE a == call[c].attempt
             r == [run[a] EXCEPT !.state = "proposing", !.locked = call[c].files]
  <2>1. a \in Attempt /\ run[a] \in RecoveryRun /\ call[c].files \in SUBSET File
        /\ run[a].state # "absent"
    BY <1>1, WorkingRun DEF Known, TypeInv, TypeOK, CallState
  <2>2. "proposing" \in RecoveryState
    BY DEF RecoveryState, Cancellable
  <2>3. r \in RecoveryRun /\ r.key = run[a].key /\ r.state = "proposing"
    BY <2>1, <2>2 DEF RecoveryRun
  <2>4. Transition(a, r) /\ Steps(c)
    BY <1>4, <1>8 DEF FreezePersist
  <2> HIDE DEF r
  <2> QED
    BY <2>1, <2>3, <2>4, IndexTransition
<1> QED
  BY <1>5, <1>6, <1>7, <1>8 DEF Freeze

LEMMA IndexThaw ==
  ASSUME Known, IndexInv, NEW c \in Call, ThawRelease(c) \/ ThawForget(c) PROVE IndexInv'
<1>1. Busy(c) /\ call[c].pc \in {"release", "forget"}
  BY DEF ThawRelease, ThawForget, Busy, Known, HardInv, ThreadSafe, TypeInv, ThreadOK
<1>2. Return(c) => Steps(c)
  BY <1>1, StepsReturn DEF Known
<1>3. CASE ThawRelease(c)
  <2>1. "forget" \in Pc
    BY DEF Pc
  <2>2. Steps(c)
    BY <1>1, <1>2, <1>3, <2>1, StepsGoto DEF ThawRelease, Known
  <2> QED
    BY <1>3, <2>2, IndexQuiet DEF ThawRelease, registry
<1>4. CASE ThawForget(c)
  <2>1. \A a \in Attempt : run'[a].key = run[a].key /\ run'[a].state = run[a].state
    BY <1>1, <1>4, WorkingRun DEF ThawForget, Known, TypeInv, TypeOK, RecoveryRun
  <2> QED
    BY <1>2, <1>4, <2>1, IndexQuiet DEF ThawForget
<1> QED
  BY <1>3, <1>4

LEMMA IndexPropose ==
  ASSUME Known, IndexInv, NEW c \in Call, NEW p \in Proposal, ProposeFinish(c, p) PROVE IndexInv'
<1> DEFINE a == call[c].attempt
           r == [run[a] EXCEPT !.state = "reviewing", !.proposal = p]
<1>1. Busy(c) /\ Steps(c)
  BY CarriesReturn, CarriesSteps DEF ProposeFinish, At, Busy, Known
<1>2. CASE UNCHANGED registry
  BY <1>1, <1>2, IndexQuiet DEF registry
<1>3. CASE Transition(a, r)
  <2>1. "reviewing" \in RecoveryState
    BY DEF RecoveryState, Cancellable
  <2>2. /\ r \in RecoveryRun /\ r.key = run[a].key /\ r.state = "reviewing"
        /\ a \in Attempt /\ run[a].state # "absent"
    BY <1>1, <2>1, WorkingRun DEF RecoveryRun
  <2> HIDE DEF r
  <2> QED
    BY <1>1, <1>3, <2>2, IndexTransition
<1> QED
  BY <1>2, <1>3 DEF ProposeFinish

LEMMA IndexReview ==
  ASSUME Known, IndexInv, NEW c \in Call, NEW v \in Verdict, ReviewFinish(c, v) PROVE IndexInv'
<1> DEFINE a == call[c].attempt
           s == IF v = "approved" THEN "awaiting_human_confirm" ELSE "reviewing"
           w == [verdict |-> v, proposal |-> call[c].proposal]
           r == [run[a] EXCEPT !.state = s, !.review = w]
<1>1. Busy(c) /\ Steps(c)
  BY CarriesReturn, CarriesSteps DEF ReviewFinish, At, Busy, Known
<1>2. CASE UNCHANGED registry
  BY <1>1, <1>2, IndexQuiet DEF registry
<1>3. CASE Transition(a, r)
  <2>1. s \in RecoveryState /\ s # "absent"
    BY DEF RecoveryState, Cancellable
  <2>2. w \in Review
    BY DEF Known, TypeInv, TypeOK, CallState, Review
  <2> HIDE DEF s, w
  <2>3. /\ r \in RecoveryRun /\ r.key = run[a].key /\ r.state = s
        /\ a \in Attempt /\ run[a].state # "absent"
    BY <1>1, <2>1, <2>2, WorkingRun DEF RecoveryRun
  <2> HIDE DEF r
  <2> QED
    BY <1>1, <1>3, <2>1, <2>3, IndexTransition
<1> QED
  BY <1>2, <1>3 DEF ReviewFinish

LEMMA IndexApply == ASSUME Known, IndexInv, NEW c \in Call, Apply(c) PROVE IndexInv'
<1>1. Busy(c) /\ call[c].op = "apply"
  BY DEF Apply, PatchCheck, PatchReplace, PatchEvidence, ApplyFinish, ApplyCompensate, At, Busy
<1>2. {"replace", "evidence", "applied"} \subseteq Pc \ {"record", "register"}
  BY DEF Pc
<1>3. \A pc \in {"replace", "evidence", "applied"} : Goto(c, pc) => Steps(c)
  BY <1>1, <1>2, CarriesGoto, CarriesSteps DEF Busy, Known
<1>4. (Return(c) => Steps(c)) /\ (ApplyRaise(c) => Steps(c))
  BY <1>1, CarriesReturn, CarriesMark, CarriesSteps DEF ApplyRaise, Busy, Known, Outcome
<1>5. CASE PatchCheck(c) \/ PatchReplace(c) \/ PatchEvidence(c)
  BY <1>3, <1>4, <1>5, IndexQuiet DEF PatchCheck, PatchReplace, PatchEvidence, registry
<1>6. CASE ApplyFinish(c)
  <2>1. "re_running_gate" \in RecoveryState
    BY DEF RecoveryState, Cancellable
  <2> QED
    BY <1>1, <1>4, <1>6, <2>1, IndexMoves DEF ApplyFinish
<1>7. CASE ApplyCompensate(c)
  BY <1>1, <1>4, <1>7, IndexMoves, StatesAreStates DEF ApplyCompensate, Terminal
<1> QED
  BY <1>5, <1>6, <1>7 DEF Apply

LEMMA IndexResume == ASSUME Known, IndexInv, NEW c \in Call, Resume(c) PROVE IndexInv'
<1>1. Busy(c) /\ call[c].op = "resume"
  BY DEF Resume, ResumeGate, ResumeFinish, ResumeThaw, At, Busy
<1>2. Return(c) => Steps(c)
  BY <1>1, CarriesReturn, CarriesSteps DEF Known
<1>3. CASE ResumeGate(c)
  <2>1. Steps(c)
    BY <1>1, <1>2, <1>3, CarriesMark, CarriesSteps DEF ResumeGate, Busy, Known, Outcome
  <2> QED
    BY <1>3, <2>1, IndexQuiet DEF ResumeGate, registry
<1>4. CASE ResumeFinish(c)
  <2>1. call[c].status \in RecoveryState /\ call[c].status # "absent"
    BY <1>4 DEF ResumeFinish, At, Known, TypeInv, ThreadOK, RecoveryState, Terminal
  <2>2. "thaw" \in Pc \ {"record", "register"}
    BY DEF Pc
  <2>3. Steps(c)
    BY <1>1, <1>4, <2>2, CarriesGoto, CarriesSteps DEF ResumeFinish, Busy, Known
  <2> QED
    BY <1>1, <1>4, <2>1, <2>3, IndexMoves DEF ResumeFinish
<1>5. CASE ResumeThaw(c)
  <2> DEFINE files == run[call[c].attempt].locked
  <2>1. CASE call' = [call EXCEPT ![c].pc = "release", ![c].files = files]
    <3>1. call[c] \in CallState /\ call \in [Call -> CallState]
      BY DEF Known, TypeInv, TypeOK
    <3>2. call'[c].op = call[c].op /\ \A d \in Call \ {c} : call'[d] = call[d]
      BY <2>1, <3>1 DEF CallState
    <3>3. Steps(c)
      BY <1>1, <3>2 DEF Steps, Onward, Escalating, Leaves
    <3> QED
      BY <1>5, <3>3, IndexQuiet DEF ResumeThaw, registry
  <2>2. CASE Return(c)
    BY <1>2, <1>5, <2>2, IndexQuiet DEF ResumeThaw, registry
  <2> QED
    BY <1>5, <2>1, <2>2 DEF ResumeThaw
<1> QED
  BY <1>3, <1>4, <1>5 DEF Resume

LEMMA NextIndex == Known /\ IndexInv /\ [Next]_vars => IndexInv'
<1> SUFFICES ASSUME Known, IndexInv, [Next]_vars PROVE IndexInv'
  OBVIOUS
<1>1. ASSUME NEW c \in Call, Step(c) PROVE IndexInv'
  <2>1. CASE AdapterFail(c)
    <3>1. Steps(c)
      BY <2>1, StepsReturn DEF AdapterFail, Known
    <3> QED
      BY <2>1, <3>1, IndexQuiet DEF AdapterFail, registry
  <2> QED
    BY <1>1, <2>1, IndexMark, IndexStart, IndexCancel, IndexFreeze, IndexApply, IndexResume,
       IndexThaw, IndexPropose, IndexReview DEF Step
<1>2. CASE UNCHANGED <<run, index, call>>
  BY <1>2 DEF IndexInv, Entry, Leaves, Escalating
<1>3. CASE Restart
  BY <1>3, ConstantsAssumption DEF Restart, IndexInv, Escalating, Idle
<1> QED
  BY <1>1, <1>2, <1>3, IndexRequest DEF Next, RecordRoute, LockServerStep, registry, vars

\* An entry of _OPEN_BY_FINGERPRINT names a run of its pair, and one that is open,
\* but for the run that start_recovery is about to take out of the index itself.
THEOREM IndexNamesOpen == Spec => []IndexNamesOpenRun
<1>1. Init => Known /\ IndexInv
  <2> SUFFICES ASSUME Init PROVE IndexInv
    BY InitType, InitLedger, InitHard DEF Known
  <2> QED
    BY ConstantsAssumption DEF Init, IndexInv, Escalating, Idle
<1>2. Known /\ IndexInv /\ [Next]_vars => (Known /\ IndexInv)'
  BY NextType, NextLedger, NextHard, NextIndex DEF Known
<1>3. Known /\ IndexInv => IndexNamesOpenRun
  BY DEF IndexInv, Entry, Leaves, IndexNamesOpenRun, At
<1> QED
  BY <1>1, <1>2, <1>3, PTL DEF Spec

-----------------------------------------------------------------------------
(* Calls that do not overlap: what a call has seen of its run is still so     *)
(* at its end.                                                               *)

Alone == \A c, d \in Call : c = d

Open(a) == run[a].state \notin Terminal \cup {"absent"}

\* The call has found its run open, and has not closed it yet.
InHand(c) ==
  \/ call[c].op \in {"cancel", "freeze", "apply"}
  \/ call[c].op = "resume" /\ call[c].pc \in {"gate", "mark", "append", "finish"}
  \/ call[c].op = "start" /\ call[c].pc \in {"mark", "append", "escalate"}

HandInv == \A c \in Call : InHand(c) => Open(call[c].attempt)

\* How the locals of a thread change.
LEMMA ThreadGoesOn ==
  ASSUME TypeInv, NEW c \in Call, NEW pc \in Pc, Goto(c, pc)
  PROVE  /\ call'[c].pc = pc /\ call'[c].op = call[c].op
         /\ call'[c].attempt = call[c].attempt /\ call'[c].key = call[c].key
         /\ call'[c].status = call[c].status
BY DEF TypeInv, TypeOK, Goto, CallState

LEMMA ThreadGoesToMark ==
  ASSUME TypeInv, NEW c \in Call, NEW s,
         call' = [call EXCEPT ![c].pc = "mark", ![c].status = s]
  PROVE  /\ call'[c].pc = "mark" /\ call'[c].op = call[c].op
         /\ call'[c].attempt = call[c].attempt /\ call'[c].key = call[c].key
         /\ call'[c].status = s
BY DEF TypeInv, TypeOK, CallState

LEMMA ThreadEnds ==
  ASSUME TypeInv, NEW c \in Call, Return(c)
  PROVE  call'[c] = Idle /\ call'[c].op = "none" /\ call'[c].pc = "idle" /\ ~InHand(c)'
BY DEF TypeInv, TypeOK, Return, Idle, InHand

LEMMA ThreadBegins ==
  ASSUME TypeInv, NEW c \in Call, NEW r, Begin(c, r) PROVE call'[c] = r /\ call[c] = Idle
BY DEF TypeInv, TypeOK, Begin

\* After mark_recovery_outcome.
LEMMA AfterMarkGoes ==
  ASSUME TypeInv, NEW c \in Call, NEW ok \in BOOLEAN, AfterMark(c, ok)
  PROVE  \/ call'[c] = Idle
         \/ /\ call'[c].op = call[c].op /\ call'[c].attempt = call[c].attempt
            /\ call'[c].key = call[c].key /\ call'[c].status = call[c].status
            /\ \/ call'[c].pc = "finish" /\ call[c].op \in {"freeze", "apply", "resume", "cancel"}
               \/ call'[c].pc = "escalate" /\ call[c].op = "start"
<1>1. {"finish", "escalate"} \subseteq Pc
  BY DEF Pc
<1> QED
  BY <1>1, ThreadGoesOn, ThreadEnds DEF AfterMark

\* A step of mark_recovery_outcome.
LEMMA MarkGoes ==
  ASSUME TypeInv, NEW c \in Call, Mark(c)
  PROVE  /\ call[c].pc \in {"mark", "append"} /\ UNCHANGED <<run, index>>
         /\ \/ call'[c] = Idle
            \/ /\ call'[c].op = call[c].op /\ call'[c].attempt = call[c].attempt
               /\ call'[c].key = call[c].key /\ call'[c].status = call[c].status
               /\ \/ call'[c].pc = "append"
                  \/ call'[c].pc = "finish" /\ call[c].op \in {"freeze", "apply", "resume", "cancel"}
                  \/ call'[c].pc = "escalate" /\ call[c].op = "start"
<1>1. call[c].pc \in {"mark", "append"} /\ UNCHANGED <<run, index>>
  BY DEF Mark, MarkUnavailable, MarkScan, MarkAppend, registry
<1>2. CASE Goto(c, "append")
  <2>1. "append" \in Pc
    BY DEF Pc
  <2> QED
    BY <1>1, <1>2, <2>1, ThreadGoesOn
<1>3. ASSUME NEW ok \in BOOLEAN, AfterMark(c, ok)
      PROVE  \/ call'[c] = Idle
             \/ /\ call'[c].op = call[c].op /\ call'[c].attempt = call[c].attempt
                /\ call'[c].key = call[c].key /\ call'[c].status = call[c].status
                /\ \/ call'[c].pc = "finish" /\ call[c].op \in {"freeze", "apply", "resume", "cancel"}
                   \/ call'[c].pc = "escalate" /\ call[c].op = "start"
  BY <1>3, AfterMarkGoes
<1>4. Goto(c, "append") \/ \E ok \in BOOLEAN : AfterMark(c, ok)
  BY ConstantsAssumption DEF Mark, MarkUnavailable, MarkScan, MarkAppend
<1> QED
  BY <1>1, <1>2, <1>3, <1>4

LEMMA IdleIsNotInHand == \A c \in Call : (call[c] = Idle => ~InHand(c)) /\ ((call[c] = Idle)' => ~InHand(c)')
BY DEF Idle, InHand

LEMMA HandFrame ==
  ASSUME Alone, NEW c \in Call, InHand(c)' => Open(call[c].attempt)' PROVE HandInv'
BY DEF Alone, HandInv

\* The thread keeps its attempt, and closes no run that it has in hand.
LEMMA HandStays ==
  ASSUME HandInv, Alone, NEW c \in Call, call'[c].attempt = call[c].attempt,
         InHand(c)' => InHand(c) /\ (Open(call[c].attempt) => run'[call[c].attempt].state = run[call[c].attempt].state)
  PROVE  HandInv'
BY HandFrame DEF HandInv, Open

LEMMA HandMark == ASSUME Known, HandInv, Alone, NEW c \in Call, Mark(c) PROVE HandInv'
<1>1. TypeInv
  BY DEF Known
<1>2. CASE call'[c] = Idle
  BY <1>2, IdleIsNotInHand, HandFrame
<1>3. CASE call'[c] # Idle
  <2>1. InHand(c)' => InHand(c)
    BY <1>1, <1>3, MarkGoes DEF InHand
  <2> QED
    BY <1>1, <1>3, <2>1, MarkGoes, HandStays
<1> QED
  BY <1>2, <1>3

LEMMA HandRequest == ASSUME Known, HandInv, Alone, NEW c \in Call, Request(c) PROVE HandInv'
<1>0. TypeInv /\ TypeOK
  BY DEF Known, TypeInv
<1>1. ASSUME NEW r, Begin(c, r), r.op \notin {"cancel", "freeze", "apply", "resume"},
             r.op = "start" => r.pc = "record"
      PROVE  HandInv'
  BY <1>0, <1>1, ThreadBegins, HandFrame DEF InHand
<1>2. ASSUME NEW r, NEW a \in Attempt, Begin(c, r), r.attempt = a, Open(a), UNCHANGED run
      PROVE  HandInv'
  BY <1>0, <1>2, ThreadBegins, HandFrame DEF Open
<1>3. ASSUME NEW k \in Key, StartCheck(c, k) PROVE HandInv'
  BY <1>1, <1>3 DEF StartCheck, Idle
<1>4. ASSUME NEW a \in Attempt, CancelCheck(c, a) PROVE HandInv'
  BY <1>2, <1>4 DEF CancelCheck, Idle, Open, Cancellable, Terminal, registry
<1>5. ASSUME NEW a \in Attempt, ThawCheck(c, a) PROVE HandInv'
  BY <1>1, <1>5 DEF ThawCheck, Idle
<1>6. ASSUME NEW a \in Attempt, ProposeCheck(c, a) PROVE HandInv'
  BY <1>1, <1>6 DEF ProposeCheck, Idle
<1>7. ASSUME NEW a \in Attempt, ResumeCheck(c, a) PROVE HandInv'
  BY <1>2, <1>7 DEF ResumeCheck, Idle, Open, Terminal, registry
<1>8. ASSUME NEW a \in Attempt, NEW files, FreezeCheck(c, a, files) PROVE HandInv'
  BY <1>2, <1>8 DEF FreezeCheck, Idle, Open, Terminal, registry
<1>9. ASSUME NEW a \in Attempt, NEW p, ReviewCheck(c, a, p) PROVE HandInv'
  BY <1>1, <1>9 DEF ReviewCheck, Idle
<1>10. ASSUME NEW a \in Attempt, NEW s, MarkRoute(c, a, s) PROVE HandInv'
  BY <1>1, <1>10 DEF MarkRoute, Idle
<1>11. ASSUME NEW a \in Attempt, NEW p \in Proposal, ApplyCheck(c, a, p) PROVE HandInv'
  <2>1. call'[c].attempt = a
    BY <1>0, <1>11 DEF ApplyCheck, TypeOK, Idle
  <2>2. run'[a].state = "applying"
    BY <1>0, <1>11 DEF ApplyCheck, Transition, TypeOK, RecoveryRun
  <2> QED
    BY <2>1, <2>2, HandFrame DEF Open, Terminal
<1> QED
  BY <1>3, <1>4, <1>5, <1>6, <1>7, <1>8, <1>9, <1>10, <1>11 DEF Request

LEMMA HandStep == ASSUME Known, HandInv, Alone, NEW c \in Call, Step(c) PROVE HandInv'
<1>0. TypeInv /\ TypeOK
  BY DEF Known, TypeInv
<1>1. CASE Return(c)
  BY <1>0, <1>1, ThreadEnds, HandFrame
<1>2. ASSUME NEW pc \in {"snapshot", "persist", "rollback", "replace", "evidence", "applied", "forget"},
             Goto(c, pc), UNCHANGED run
      PROVE  HandInv'
  <2>1. pc \in Pc
    BY DEF Pc
  <2> QED
    BY <1>0, <1>2, <2>1, ThreadGoesOn, HandStays DEF InHand
<1>3. ASSUME NEW s, call' = [call EXCEPT ![c].pc = "mark", ![c].status = s], UNCHANGED run,
             call[c].op \in {"freeze", "apply"} \/ (call[c].op = "resume" /\ call[c].pc = "gate")
      PROVE  HandInv'
  BY <1>0, <1>3, ThreadGoesToMark, HandStays DEF InHand
<1>11. ASSUME ApplyRaise(c), UNCHANGED run, call[c].op \in {"freeze", "apply"} PROVE HandInv'
  <2>1. call' = [call EXCEPT ![c].pc = "mark", ![c].status = "retry_failed"]
    BY <1>11 DEF ApplyRaise
  <2>2. call'[c].attempt = call[c].attempt /\ call'[c].op = call[c].op /\ call[c].op \in {"freeze", "apply"}
    BY <1>0, <1>11, <2>1, ThreadGoesToMark
  <2> QED
    BY <1>11, <2>2, HandStays DEF InHand
<1>4. CASE Mark(c)
  BY <1>4, HandMark
<1>5. CASE Start(c)
  <2>1. ASSUME NEW a \in Attempt, StartRecord(c, a), ~Return(c) PROVE HandInv'
    <3>1. call'[c].op = "start" /\ call'[c].pc = "register"
      BY <1>0, <2>1 DEF StartRecord, At, TypeOK, CallState
    <3> QED
      BY <3>1, HandFrame DEF InHand
  <2>2. CASE StartRegister(c) /\ ~Return(c)
    <3>1. call'[c].attempt = call[c].attempt
      BY <1>0, <2>2, ThreadGoesToMark DEF StartRegister
    <3>2. call[c].attempt \in Attempt
      BY <1>0, <2>2 DEF StartRegister, At, TypeInv, ThreadOK
    <3>3. run'[call[c].attempt].state = "created"
      BY <1>0, <2>2, <3>2 DEF StartRegister, TypeOK, NewRun, NoRun
    <3> QED
      BY <3>1, <3>3, HandFrame DEF Open, Terminal
  <2>3. CASE StartEscalate(c) \/ StartLookup(c)
    <3>1. {"lookup", "drop"} \subseteq Pc
      BY DEF Pc
    <3>2. CASE Goto(c, "lookup") \/ Goto(c, "drop")
      <4>1. call'[c].op = "start" /\ call'[c].pc \in {"lookup", "drop"}
        BY <1>0, <2>3, <3>1, <3>2, ThreadGoesOn DEF StartEscalate, StartLookup, At
      <4> QED
        BY <4>1, HandFrame DEF InHand
    <3> QED
      BY <1>1, <2>3, <3>2 DEF StartEscalate, StartLookup
  <2> QED
    BY <1>1, <1>5, <2>1, <2>2, <2>3 DEF Start, StartDrop
<1>6. CASE Freeze(c)
  <2>1. CASE FreezeLock(c) \/ FreezeSnapshot(c) \/ FreezeCompensate(c) \/ FreezePersist(c)
    BY <1>1, <1>2, <2>1
       DEF FreezeLock, FreezeSnapshot, FreezeCompensate, FreezePersist, registry
  <2>2. CASE FreezeRollback(c)
    BY <1>11, <2>2 DEF FreezeRollback, ApplyRaise, At, registry
  <2> QED
    BY <1>6, <2>1, <2>2 DEF Freeze
<1>7. CASE Apply(c)
  <2>1. CASE ApplyRaise(c) /\ call[c].op = "apply" /\ UNCHANGED run
    BY <1>11, <2>1
  <2>2. CASE Return(c)
    BY <1>1, <2>2
  <2>3. CASE (Goto(c, "replace") \/ Goto(c, "evidence") \/ Goto(c, "applied")) /\ UNCHANGED run
    BY <1>2, <2>3
  <2> QED
    BY <1>7, <2>1, <2>2, <2>3 DEF Apply, PatchCheck, PatchReplace, PatchEvidence, ApplyFinish,
       ApplyCompensate, At, registry
<1>8. CASE Resume(c)
  <2>1. CASE ResumeGate(c)
    BY <1>1, <1>3, <2>1 DEF ResumeGate, At, registry
  <2>2. CASE ResumeFinish(c)
    <3>1. "thaw" \in Pc
      BY DEF Pc
    <3>2. call'[c].op = "resume" /\ call'[c].pc = "thaw"
      BY <1>0, <2>2, <3>1, ThreadGoesOn DEF ResumeFinish, At
    <3> QED
      BY <3>2, HandFrame DEF InHand
  <2>3. CASE ResumeThaw(c) /\ ~Return(c)
    <3>1. call'[c].op = "resume" /\ call'[c].pc = "release"
      BY <1>0, <2>3 DEF ResumeThaw, At, TypeOK, CallState
    <3> QED
      BY <3>1, HandFrame DEF InHand
  <2> QED
    BY <1>1, <1>8, <2>1, <2>2, <2>3 DEF Resume
<1>9. CASE CancelFinish(c) \/ ThawForget(c) \/ AdapterFail(c)
          \/ (\E p \in Proposal : ProposeFinish(c, p)) \/ (\E v \in Verdict : ReviewFinish(c, v))
  BY <1>1, <1>9 DEF CancelFinish, ThawForget, AdapterFail, ProposeFinish, ReviewFinish
<1>10. CASE ThawRelease(c)
  BY <1>1, <1>2, <1>10 DEF ThawRelease, registry
<1> QED
  BY <1>4, <1>5, <1>6, <1>7, <1>8, <1>9, <1>10 DEF Step

LEMMA NextHand == ASSUME Known, HandInv, Alone, [Next]_vars PROVE HandInv'
<1>1. CASE UNCHANGED <<run, call>>
  BY <1>1 DEF HandInv, InHand, Open
<1>2. CASE Restart
  BY <1>2 DEF Restart, HandInv, InHand, Idle
<1> QED
  BY <1>1, <1>2, HandRequest, HandStep DEF Next, RecordRoute, LockServerStep, registry, vars

-----------------------------------------------------------------------------
(* What a step of a thread, other than those of start_recovery and of         *)
(* mark_recovery_outcome, does to the registry.                              *)

Quiet == index' = index /\ \A a \in Attempt : run'[a].key = run[a].key /\ run'[a].state = run[a].state

\* The state in which the thread closes its run.
ClosesAs(c, s) ==
  /\ call[c].pc = "finish"
  /\ \/ call[c].op = "cancel" /\ s = "cancelled"
     \/ call[c].op \in {"freeze", "apply"} /\ s = "retry_failed"
     \/ call[c].op = "resume" /\ s = call[c].status

\* _transition: the run is closed, or it was open and the call ends.
Moves(c) == \E r \in RecoveryRun :
  /\ Transition(call[c].attempt, r)
  /\ r.key = run[call[c].attempt].key /\ r.state # "absent"
  /\ \/ r.state \in Terminal /\ ClosesAs(c, r.state)
     \/ /\ r.state \notin Terminal /\ Open(call[c].attempt)
        /\ call[c].pc # "finish" /\ call'[c] = Idle

\* The thread goes on, and to mark_recovery_outcome only to close its run.
Works(c) ==
  /\ Carries(c)
  /\ call'[c].pc \notin {"append", "finish", "escalate", "lookup", "drop"}
  /\ call'[c].pc = "mark" =>
       \/ call[c].op \in {"freeze", "apply"} /\ call'[c].status = "retry_failed"
       \/ /\ call[c].op = "resume" /\ call[c].pc = "gate"
          /\ call'[c].status \in {"recovered", "escalated"}

Goes(c) == Busy(c) /\ Works(c) /\ ((Quiet /\ call[c].pc # "finish") \/ Moves(c))

LEMMA WorksReturn ==
  ASSUME TypeInv, NEW c \in Call, Return(c) PROVE Works(c) /\ call'[c] = Idle
BY CarriesReturn, ThreadEnds DEF Works

LEMMA WorksGoto ==
  ASSUME TypeInv, NEW c \in Call, Busy(c),
         NEW pc \in Pc \ {"record", "register", "mark", "append", "finish", "escalate", "lookup", "drop"},
         Goto(c, pc)
  PROVE  Works(c)
BY CarriesGoto, ThreadGoesOn DEF Works, Busy

LEMMA WorksMark ==
  ASSUME TypeInv, NEW c \in Call, Busy(c), NEW s \in Outcome,
         call' = [call EXCEPT ![c].pc = "mark", ![c].status = s],
         \/ call[c].op \in {"freeze", "apply"} /\ s = "retry_failed"
         \/ call[c].op = "resume" /\ call[c].pc = "gate" /\ s \in {"recovered", "escalated"}
  PROVE  Works(c)
<1>1. /\ call'[c].pc = "mark" /\ call'[c].op = call[c].op
      /\ call'[c].attempt = call[c].attempt /\ call'[c].status = s
  BY ThreadGoesToMark
<1>2. Carries(c)
  BY CarriesMark DEF Busy
<1> QED
  BY <1>1, <1>2 DEF Works

\* A section that moves the state of the thread's run only.
LEMMA StateMoves ==
  ASSUME Known, NEW c \in Call, Busy(c), NEW s \in RecoveryState, s # "absent",
         Transition(call[c].attempt, [run[call[c].attempt] EXCEPT !.state = s]),
         \/ s \in Terminal /\ ClosesAs(c, s)
         \/ /\ s \notin Terminal /\ Open(call[c].attempt)
            /\ call[c].pc # "finish" /\ call'[c] = Idle
  PROVE  Moves(c)
<1> DEFINE r == [run[call[c].attempt] EXCEPT !.state = s]
<1>1. r \in RecoveryRun /\ r.key = run[call[c].attempt].key /\ r.state = s
  BY WorkingRun, RunRecord
<1> HIDE DEF r
<1> QED
  BY <1>1 DEF Moves, r

LEMMA CancelGoes == ASSUME Known, HandInv, NEW c \in Call, CancelFinish(c) PROVE Goes(c)
<1>1. Busy(c) /\ Works(c) /\ call[c].op = "cancel" /\ call[c].pc = "finish"
  BY WorksReturn DEF CancelFinish, At, Busy, Known
<1>2. "cancelled" \in RecoveryState /\ "cancelled" \in Terminal
  BY StatesAreStates DEF Terminal
<1>3. run[call[c].attempt].state \notin Terminal
  BY <1>1 DEF HandInv, InHand, Open
<1>4. ClosesAs(c, "cancelled")
  BY <1>1 DEF ClosesAs
<1>5. Transition(call[c].attempt, [run[call[c].attempt] EXCEPT !.state = "cancelled"])
  BY <1>3 DEF CancelFinish
<1>6. Moves(c)
  BY <1>1, <1>2, <1>4, <1>5, StateMoves
<1> QED
  BY <1>1, <1>6 DEF Goes

LEMMA FreezeGoes == ASSUME Known, HandInv, NEW c \in Call, Freeze(c) PROVE Goes(c)
<1>1. Busy(c) /\ call[c].op = "freeze" /\ TypeInv
  BY DEF Freeze, FreezeLock, FreezeSnapshot, FreezeRollback, FreezeCompensate, FreezePersist,
     At, Busy, Known
<1>2. \A pc \in {"snapshot", "persist", "rollback"} : Goto(c, pc) => Works(c)
  <2>1. {"snapshot", "persist", "rollback"} \subseteq
          Pc \ {"record", "register", "mark", "append", "finish", "escalate", "lookup", "drop"}
    BY DEF Pc
  <2> QED
    BY <1>1, <2>1, WorksGoto
<1>3. Return(c) => Works(c) /\ call'[c] = Idle
  BY <1>1, WorksReturn
<1>4. CASE FreezeLock(c) \/ FreezeSnapshot(c)
  BY <1>1, <1>2, <1>3, <1>4 DEF FreezeLock, FreezeSnapshot, At, registry, Goes, Quiet
<1>5. CASE FreezeRollback(c)
  <2>1. "retry_failed" \in Outcome /\ call' = [call EXCEPT ![c].pc = "mark", ![c].status = "retry_failed"]
    BY <1>5 DEF Outcome, FreezeRollback
  <2>2. Works(c)
    BY <1>1, <2>1, WorksMark
  <2> QED
    BY <1>1, <1>5, <2>2 DEF FreezeRollback, At, registry, Goes, Quiet
<1>6. CASE FreezeCompensate(c)
  <2>1. "retry_failed" \in RecoveryState /\ "retry_failed" \in Terminal
    BY StatesAreStates DEF Terminal
  <2>2. ClosesAs(c, "retry_failed")
    BY <1>6 DEF ClosesAs, FreezeCompensate, At
  <2>3. Moves(c)
    BY <1>1, <1>6, <2>1, <2>2, StateMoves DEF FreezeCompensate
  <2> QED
    BY <1>1, <1>3, <1>6, <2>3 DEF FreezeCompensate, Goes
<1>7. CASE FreezePersist(c)
  <2> DEFINE a == call[c].attempt
             r == [run[a] EXCEPT !.state = "proposing", !.locked = call[c].files]
  <2>1. a \in Attempt /\ run[a] \in RecoveryRun /\ call[c].files \in SUBSET File
    BY <1>1, WorkingRun DEF TypeInv, TypeOK, CallState
  <2>2. "proposing" \in RecoveryState /\ "proposing" \notin Terminal
    BY DEF RecoveryState, Cancellable, Terminal
  <2>3. r \in RecoveryRun /\ r.key = run[a].key /\ r.state = "proposing"
    BY <2>1, <2>2 DEF RecoveryRun
  <2>4. Transition(a, r) /\ call'[c] = Idle /\ Works(c) /\ call[c].pc # "finish"
    BY <1>3, <1>7 DEF FreezePersist, At
  <2>5. Open(a)
    BY <1>1 DEF HandInv, InHand
  <2> HIDE DEF r
  <2>6. Moves(c)
    BY <2>2, <2>3, <2>4, <2>5 DEF Moves
  <2> QED
    BY <1>1, <2>4, <2>6 DEF Goes
<1> QED
  BY <1>4, <1>5, <1>6, <1>7 DEF Freeze

LEMMA ThawGoes ==
  ASSUME Known, HandInv, NEW c \in Call, ThawRelease(c) \/ ThawForget(c)
  PROVE  Goes(c)
<1>1. Busy(c) /\ call[c].pc \in {"release", "forget"} /\ TypeInv
  BY DEF ThawRelease, ThawForget, Busy, Known, HardInv, ThreadSafe, TypeInv, ThreadOK
<1>2. Return(c) => Works(c)
  BY <1>1, WorksReturn
<1>3. CASE ThawRelease(c)
  <2>1. "forget" \in Pc \ {"record", "register", "mark", "append", "finish", "escalate", "lookup", "drop"}
    BY DEF Pc
  <2>2. Works(c)
    BY <1>1, <1>2, <1>3, <2>1, WorksGoto DEF ThawRelease
  <2> QED
    BY <1>1, <1>3, <2>2 DEF ThawRelease, registry, Goes, Quiet
<1>4. CASE ThawForget(c)
  <2>1. \A a \in Attempt : run'[a].key = run[a].key /\ run'[a].state = run[a].state
    BY <1>1, <1>4, WorkingRun DEF ThawForget, Known, TypeInv, TypeOK, RecoveryRun
  <2> QED
    BY <1>1, <1>2, <1>4, <2>1 DEF ThawForget, Goes, Quiet
<1> QED
  BY <1>3, <1>4

LEMMA ProposeGoes ==
  ASSUME Known, HandInv, NEW c \in Call, NEW p \in Proposal, ProposeFinish(c, p) PROVE Goes(c)
<1> DEFINE a == call[c].attempt
           r == [run[a] EXCEPT !.state = "reviewing", !.proposal = p]
<1>1. Busy(c) /\ Works(c) /\ call'[c] = Idle /\ call[c].pc # "finish"
  BY WorksReturn DEF ProposeFinish, At, Busy, Known
<1>2. CASE UNCHANGED registry
  BY <1>1, <1>2 DEF registry, Goes, Quiet
<1>3. CASE run[a].state = "proposing" /\ Transition(a, r)
  <2>1. "reviewing" \in RecoveryState /\ "reviewing" \notin Terminal
    BY DEF RecoveryState, Cancellable, Terminal
  <2>2. r \in RecoveryRun /\ r.key = run[a].key /\ r.state = "reviewing"
    BY <1>1, <2>1, WorkingRun DEF RecoveryRun
  <2>3. Open(a)
    BY <1>3 DEF Open, Terminal
  <2> HIDE DEF r
  <2>4. Moves(c)
    BY <1>1, <1>3, <2>1, <2>2, <2>3 DEF Moves
  <2> QED
    BY <1>1, <2>4 DEF Goes
<1> QED
  BY <1>2, <1>3 DEF ProposeFinish

LEMMA ReviewGoes ==
  ASSUME Known, HandInv, NEW c \in Call, NEW v \in Verdict, ReviewFinish(c, v) PROVE Goes(c)
<1> DEFINE a == call[c].attempt
           s == IF v = "approved" THEN "awaiting_human_confirm" ELSE "reviewing"
           w == [verdict |-> v, proposal |-> call[c].proposal]
           r == [run[a] EXCEPT !.state = s, !.review = w]
<1>1. Busy(c) /\ Works(c) /\ call'[c] = Idle /\ call[c].pc # "finish"
  BY WorksReturn DEF ReviewFinish, At, Busy, Known
<1>2. CASE UNCHANGED registry
  BY <1>1, <1>2 DEF registry, Goes, Quiet
<1>3. CASE run[a].state = "reviewing" /\ Transition(a, r)
  <2>1. s \in RecoveryState /\ s # "absent" /\ s \notin Terminal
    BY DEF RecoveryState, Cancellable, Terminal
  <2>2. w \in Review
    BY DEF Known, TypeInv, TypeOK, CallState, Review
  <2> HIDE DEF s, w
  <2>3. r \in RecoveryRun /\ r.key = run[a].key /\ r.state = s
    BY <1>1, <2>1, <2>2, WorkingRun DEF RecoveryRun
  <2>4. Open(a)
    BY <1>3 DEF Open, Terminal
  <2> HIDE DEF r
  <2>5. Moves(c)
    BY <1>1, <1>3, <2>1, <2>3, <2>4 DEF Moves
  <2> QED
    BY <1>1, <2>5 DEF Goes
<1> QED
  BY <1>2, <1>3 DEF ReviewFinish

LEMMA ApplyGoes == ASSUME Known, HandInv, NEW c \in Call, Apply(c) PROVE Goes(c)
<1>1. Busy(c) /\ call[c].op = "apply" /\ TypeInv
  BY DEF Apply, PatchCheck, PatchReplace, PatchEvidence, ApplyFinish, ApplyCompensate,
     At, Busy, Known
<1>2. \A pc \in {"replace", "evidence", "applied"} : Goto(c, pc) => Works(c)
  <2>1. {"replace", "evidence", "applied"} \subseteq
          Pc \ {"record", "register", "mark", "append", "finish", "escalate", "lookup", "drop"}
    BY DEF Pc
  <2> QED
    BY <1>1, <2>1, WorksGoto
<1>3. Return(c) => Works(c) /\ call'[c] = Idle
  BY <1>1, WorksReturn
<1>4. ApplyRaise(c) => Works(c)
  <2> SUFFICES ASSUME ApplyRaise(c) PROVE Works(c)
    OBVIOUS
  <2>1. "retry_failed" \in Outcome /\ call' = [call EXCEPT ![c].pc = "mark", ![c].status = "retry_failed"]
    BY DEF Outcome, ApplyRaise
  <2> QED
    BY <1>1, <2>1, WorksMark
<1>5. CASE PatchCheck(c) \/ PatchReplace(c) \/ PatchEvidence(c)
  BY <1>1, <1>2, <1>4, <1>5 DEF PatchCheck, PatchReplace, PatchEvidence, At, registry, Goes, Quiet
<1>6. CASE ApplyFinish(c)
  <2>1. "re_running_gate" \in RecoveryState /\ "re_running_gate" \notin Terminal
    BY DEF RecoveryState, Cancellable, Terminal
  <2>2. Open(call[c].attempt) /\ call[c].pc # "finish" /\ call'[c] = Idle /\ Works(c)
    BY <1>1, <1>3, <1>6 DEF HandInv, InHand, ApplyFinish, At
  <2>3. Moves(c)
    BY <1>1, <1>6, <2>1, <2>2, StateMoves DEF ApplyFinish
  <2> QED
    BY <1>1, <2>2, <2>3 DEF Goes
<1>7. CASE ApplyCompensate(c)
  <2>1. "retry_failed" \in RecoveryState /\ "retry_failed" \in Terminal
    BY StatesAreStates DEF Terminal
  <2>2. ClosesAs(c, "retry_failed")
    BY <1>7 DEF ClosesAs, ApplyCompensate, At
  <2>3. Moves(c)
    BY <1>1, <1>7, <2>1, <2>2, StateMoves DEF ApplyCompensate
  <2> QED
    BY <1>1, <1>3, <1>7, <2>3 DEF ApplyCompensate, Goes
<1> QED
  BY <1>5, <1>6, <1>7 DEF Apply

LEMMA ResumeGoes == ASSUME Known, HandInv, NEW c \in Call, Resume(c) PROVE Goes(c)
<1>1. Busy(c) /\ call[c].op = "resume" /\ TypeInv
  BY DEF Resume, ResumeGate, ResumeFinish, ResumeThaw, At, Busy, Known
<1>2. Return(c) => Works(c)
  BY <1>1, WorksReturn
<1>3. CASE ResumeGate(c)
  <2>1. ASSUME NEW s \in {"recovered", "escalated"},
               call' = [call EXCEPT ![c].pc = "mark", ![c].status = s]
        PROVE  Works(c)
    BY <1>1, <1>3, <2>1, WorksMark DEF ResumeGate, At, Outcome
  <2>2. Works(c)
    BY <1>2, <1>3, <2>1 DEF ResumeGate
  <2> QED
    BY <1>1, <1>3, <2>2 DEF ResumeGate, At, registry, Goes, Quiet
<1>4. CASE ResumeFinish(c)
  <2>1. call[c].status \in Terminal /\ call[c].status \in RecoveryState /\ call[c].status # "absent"
    BY <1>4 DEF ResumeFinish, At, Known, TypeInv, ThreadOK, RecoveryState, Terminal
  <2>2. "thaw" \in Pc \ {"record", "register", "mark", "append", "finish", "escalate", "lookup", "drop"}
    BY DEF Pc
  <2>3. Works(c)
    BY <1>1, <1>4, <2>2, WorksGoto DEF ResumeFinish
  <2>4. ClosesAs(c, call[c].status)
    BY <1>4 DEF ResumeFinish, At, ClosesAs
  <2>5. Moves(c)
    BY <1>1, <1>4, <2>1, <2>4, StateMoves DEF ResumeFinish
  <2> QED
    BY <1>1, <2>3, <2>5 DEF Goes
<1>5. CASE ResumeThaw(c)
  <2> DEFINE files == run[call[c].attempt].locked
  <2>1. CASE call' = [call EXCEPT ![c].pc = "release", ![c].files = files]
    <3>1. call[c] \in CallState /\ call \in [Call -> CallState]
      BY <1>1 DEF TypeInv, TypeOK
    <3>2. /\ call'[c].op = call[c].op /\ call'[c].pc = "release"
          /\ call'[c].attempt = call[c].attempt /\ \A d \in Call \ {c} : call'[d] = call[d]
      BY <2>1, <3>1 DEF CallState
    <3>3. Works(c)
      BY <1>1, <3>2 DEF Works, Carries, Busy
    <3> QED
      BY <1>1, <1>5, <3>3 DEF ResumeThaw, At, registry, Goes, Quiet
  <2>2. CASE Return(c)
    BY <1>1, <1>2, <1>5, <2>2 DEF ResumeThaw, At, registry, Goes, Quiet
  <2> QED
    BY <1>5, <2>1, <2>2 DEF ResumeThaw
<1> QED
  BY <1>3, <1>4, <1>5 DEF Resume

LEMMA StepGoes ==
  ASSUME Known, HandInv, NEW c \in Call, Step(c), ~Start(c), ~Mark(c)
  PROVE  Goes(c) /\ call[c].pc # "escalate" /\ UNCHANGED <<failures, outcomes>>
<1>1. UNCHANGED <<failures, outcomes>> /\ call[c].pc # "escalate"
  BY DEF Step, CancelFinish, Freeze, FreezeLock, FreezeSnapshot, FreezeRollback, FreezeCompensate,
     FreezePersist, Apply, PatchCheck, PatchReplace, PatchEvidence, ApplyFinish, ApplyCompensate,
     Resume, ResumeGate, ResumeFinish, ResumeThaw, ThawRelease, ThawForget, AdapterFail,
     ProposeFinish, ReviewFinish, ledger, At
<1>2. CASE AdapterFail(c)
  <2>1. Busy(c) /\ Works(c) /\ call[c].pc # "finish"
    BY <1>2, WorksReturn DEF AdapterFail, Busy, Known, HardInv, ThreadSafe, TypeInv, ThreadOK
  <2> QED
    BY <1>1, <1>2, <2>1 DEF AdapterFail, registry, Goes, Quiet
<1> QED
  BY <1>1, <1>2, CancelGoes, FreezeGoes, ThawGoes, ProposeGoes, ReviewGoes, ApplyGoes, ResumeGoes
     DEF Step

-----------------------------------------------------------------------------
(* One open run per pair.                                                    *)

\* An open run has the index entry of its pair.  A start_recovery that has found
\* no open run for its pair is still right when it registers its own; one that
\* gives up an entry gives up the entry of the run that it has closed.
OpenInv ==
  /\ \A a \in Attempt : Open(a) => index[run[a].key] = a
  /\ \A c \in Call : call[c].op = "start" /\ call[c].pc \in {"record", "register"} =>
       \A a \in Attempt : Open(a) => run[a].key # call[c].key
  /\ \A c \in Call : call[c].op = "start" /\ call[c].pc \in {"lookup", "drop"} =>
       /\ ~Open(call[c].attempt)
       /\ call[c].pc = "drop" => index[call[c].key] = call[c].attempt

LEMMA OpenFrame ==
  ASSUME OpenInv, Alone, NEW c \in Call, call'[c].pc \notin {"record", "register", "lookup", "drop"},
         \A a \in Attempt : Open(a)' => run'[a].key = run[a].key /\ Open(a) /\ index'[run[a].key] = index[run[a].key]
  PROVE  OpenInv'
<1>1. \A d \in Call : d = c
  BY DEF Alone
<1>2. \A a \in Attempt : Open(a)' => index'[run'[a].key] = a
  BY DEF OpenInv
<1> QED
  BY <1>1, <1>2 DEF OpenInv

LEMMA OpenTransition ==
  ASSUME Known, OpenInv, Alone, NEW c \in Call, call'[c].pc \notin {"record", "register", "lookup", "drop"},
         NEW a \in Attempt, NEW r \in RecoveryRun, Transition(a, r), r.key = run[a].key,
         r.state \in Terminal \/ Open(a)
  PROVE  OpenInv'
<1>1. run'[a] = r /\ \A b \in Attempt \ {a} : run'[b] = run[b]
  BY DEF Known, TypeInv, TypeOK, Transition
<1>2. ASSUME NEW b \in Attempt, Open(b)'
      PROVE  run'[b].key = run[b].key /\ Open(b) /\ index'[run[b].key] = index[run[b].key]
  <2>1. run'[b].key = run[b].key /\ Open(b) /\ (b = a => r.state \notin Terminal)
    BY <1>1, <1>2 DEF Open
  <2>2. index[run[b].key] = b
    BY <2>1 DEF OpenInv
  <2>3. CASE r.state \in Terminal /\ index[r.key] = a
    <3>1. index' = [index EXCEPT ![r.key] = None] /\ run[b].key # r.key
      BY <2>1, <2>2, <2>3 DEF Transition
    <3>2. run[b].key \in Key /\ index \in [Key -> Attempt \cup {None}]
      BY <2>1 DEF Open, Known, TypeInv, TypeOK, RunOK
    <3> QED
      BY <2>1, <3>1, <3>2
  <2>4. CASE ~(r.state \in Terminal /\ index[r.key] = a)
    BY <2>1, <2>4 DEF Transition
  <2> QED
    BY <2>3, <2>4
<1> QED
  BY <1>2, OpenFrame

LEMMA OpenGoes == ASSUME Known, OpenInv, Alone, NEW c \in Call, Goes(c) PROVE OpenInv'
<1>1. call'[c].pc \notin {"record", "register", "lookup", "drop"}
  BY DEF Goes, Works, Carries, Idle
<1>2. CASE Quiet
  BY <1>1, <1>2, OpenFrame DEF Quiet, Open
<1>3. CASE Moves(c)
  BY <1>1, <1>3, WorkingRun, OpenTransition DEF Goes, Moves
<1> QED
  BY <1>2, <1>3 DEF Goes

LEMMA OpenMark == ASSUME Known, OpenInv, Alone, NEW c \in Call, Mark(c) PROVE OpenInv'
<1>1. UNCHANGED <<run, index>> /\ call'[c].pc \notin {"record", "register", "lookup", "drop"}
  BY MarkGoes DEF Known, Idle
<1> QED
  BY <1>1, OpenFrame DEF Open

LEMMA OpenRequest == ASSUME Known, OpenInv, Alone, NEW c \in Call, Request(c) PROVE OpenInv'
<1>0. TypeInv
  BY DEF Known
<1>1. ASSUME NEW r, Begin(c, r), UNCHANGED registry, r.pc \notin {"record", "register", "lookup", "drop"}
      PROVE  OpenInv'
  BY <1>0, <1>1, ThreadBegins, OpenFrame DEF Open, registry
<1>2. ASSUME NEW k \in Key, StartCheck(c, k) PROVE OpenInv'
  <2>1. call'[c].op = "start" /\ call'[c].pc = "record" /\ call'[c].key = k /\ run' = run
    BY <1>0, <1>2 DEF StartCheck, Begin, TypeInv, TypeOK, Idle
  <2>2. \A a \in Attempt : Open(a) => run[a].key # k /\ run[a].key \in Key
    BY <1>0, <1>2 DEF StartCheck, OpenInv, Open, TypeInv, RunOK
  <2>3. \A j \in Key \ {k} : index'[j] = index[j]
    BY <1>0, <1>2 DEF StartCheck, TypeInv, TypeOK
  <2>4. \A a \in Attempt : Open(a)' => Open(a) /\ index'[run'[a].key] = a
    BY <2>1, <2>2, <2>3 DEF OpenInv, Open
  <2>5. \A d \in Call : d = c
    BY DEF Alone
  <2> QED
    BY <2>1, <2>2, <2>4, <2>5 DEF OpenInv
<1>3. ASSUME NEW a \in Attempt, NEW p \in Proposal, ApplyCheck(c, a, p) PROVE OpenInv'
  <2> DEFINE s == [run[a] EXCEPT !.state = "applying"]
  <2>1. call'[c].pc = "check"
    BY <1>0, <1>3 DEF ApplyCheck, TypeInv, TypeOK, Idle
  <2>2. /\ s \in RecoveryRun /\ s.key = run[a].key /\ Transition(a, s)
    BY <1>0, <1>3, RunRecord, StatesAreStates DEF ApplyCheck, TypeInv, TypeOK, RecoveryState
  <2>3. Open(a)
    BY <1>3 DEF ApplyCheck, Open, Terminal
  <2> HIDE DEF s
  <2> QED
    BY <2>1, <2>2, <2>3, OpenTransition
<1>4. ASSUME NEW a \in Attempt, CancelCheck(c, a) PROVE OpenInv'
  BY <1>1, <1>4 DEF CancelCheck, Idle
<1>5. ASSUME NEW a \in Attempt, ThawCheck(c, a) PROVE OpenInv'
  BY <1>1, <1>5 DEF ThawCheck, Idle
<1>6. ASSUME NEW a \in Attempt, ProposeCheck(c, a) PROVE OpenInv'
  BY <1>1, <1>6 DEF ProposeCheck, Idle
<1>7. ASSUME NEW a \in Attempt, ResumeCheck(c, a) PROVE OpenInv'
  BY <1>1, <1>7 DEF ResumeCheck, Idle
<1>8. ASSUME NEW a \in Attempt, NEW files, FreezeCheck(c, a, files) PROVE OpenInv'
  BY <1>1, <1>8 DEF FreezeCheck, Idle
<1>9. ASSUME NEW a \in Attempt, NEW p, ReviewCheck(c, a, p) PROVE OpenInv'
  BY <1>1, <1>9 DEF ReviewCheck, Idle
<1>10. ASSUME NEW a \in Attempt, NEW s, MarkRoute(c, a, s) PROVE OpenInv'
  BY <1>1, <1>10 DEF MarkRoute, Idle
<1> QED
  BY <1>2, <1>3, <1>4, <1>5, <1>6, <1>7, <1>8, <1>9, <1>10 DEF Request

LEMMA OpenStart ==
  ASSUME \A k \in Key : Redacted[k] = k, Known, OpenInv, Alone, NEW c \in Call, Start(c)
  PROVE  OpenInv'
<1>0. TypeInv /\ TypeOK /\ \A d \in Call : d = c
  BY DEF Known, TypeInv, Alone
<1>1. CASE Return(c) /\ UNCHANGED registry
  BY <1>0, <1>1, ThreadEnds, OpenFrame DEF Open, registry
<1>2. ASSUME NEW a \in Attempt, StartRecord(c, a), ~Return(c) PROVE OpenInv'
  <2>1. /\ call'[c].op = "start" /\ call'[c].pc = "register" /\ call'[c].key = call[c].key
        /\ call[c].pc = "record" /\ call[c].op = "start"
    BY <1>0, <1>2 DEF StartRecord, At, CallState, TypeInv, TypeOK, ThreadOK
  <2> QED
    BY <1>0, <1>2, <2>1 DEF StartRecord, OpenInv, Open, registry
<1>3. CASE StartRegister(c)
  <2> DEFINE k == call[c].key
  <2>1. PICK a \in Attempt : a = call[c].attempt /\ k \in Key
    BY <1>3 DEF StartRegister, Known, TypeInv, ThreadOK, At
  <2>2. /\ run'[a] = NewRun(k) /\ \A b \in Attempt \ {a} : run'[b] = run[b]
        /\ index'[k] = a /\ \A j \in Key \ {k} : index'[j] = index[j]
    BY <1>0, <1>3, <2>1 DEF StartRegister, TypeOK
  <2>3. run'[a].key = k
    BY <2>2 DEF NewRun, NoRun
  <2>4. \A b \in Attempt \ {a} : Open(b)' => Open(b) /\ run[b].key \in Key \ {k}
    BY <1>0, <1>3, <2>2 DEF StartRegister, At, OpenInv, Open, TypeInv, RunOK
  <2>5. \A b \in Attempt : Open(b)' => index'[run'[b].key] = b
    BY <2>2, <2>3, <2>4 DEF OpenInv
  <2>6. call'[c].pc \notin {"record", "register", "lookup", "drop"}
    BY <1>0, <1>3, ThreadEnds, ThreadGoesToMark DEF StartRegister
  <2> QED
    BY <1>0, <2>5, <2>6 DEF OpenInv
<1>4. CASE StartEscalate(c)
  <2>1. call[c].attempt \in Attempt /\ "lookup" \in Pc
    BY <1>0, <1>4 DEF StartEscalate, At, TypeInv, ThreadOK, Pc
  <2>2. call'[c].op = "start" /\ call'[c].pc = "lookup" /\ call'[c].attempt = call[c].attempt
    BY <1>0, <1>4, <2>1, ThreadGoesOn DEF StartEscalate, At
  <2>3. /\ run'[call[c].attempt].state = "escalated" /\ index' = index
        /\ \A b \in Attempt \ {call[c].attempt} : run'[b] = run[b]
    BY <1>0, <1>4, <2>1 DEF StartEscalate, TypeOK, RecoveryRun
  <2>4. ~Open(call[c].attempt)'
    BY <2>2, <2>3 DEF Open, Terminal
  <2>5. ASSUME NEW b \in Attempt, Open(b)' PROVE index'[run'[b].key] = b
    <3>1. b # call[c].attempt
      BY <2>2, <2>4, <2>5 DEF Open
    <3> QED
      BY <2>3, <2>5, <3>1 DEF OpenInv, Open
  <2> QED
    BY <1>0, <2>2, <2>4, <2>5 DEF OpenInv
<1>5. CASE StartLookup(c) /\ ~Return(c)
  <2>1. Goto(c, "drop") /\ "drop" \in Pc /\ index[call[c].key] = call[c].attempt
    BY <1>5 DEF StartLookup, Pc
  <2>2. /\ call'[c].pc = "drop" /\ call'[c].attempt = call[c].attempt /\ call'[c].key = call[c].key
    BY <1>0, <2>1, ThreadGoesOn
  <2> QED
    BY <1>0, <1>5, <2>1, <2>2 DEF StartLookup, At, OpenInv, Open, registry
<1>6. CASE StartDrop(c)
  <2>1. call'[c].pc \notin {"record", "register", "lookup", "drop"}
    BY <1>0, <1>6, ThreadEnds DEF StartDrop
  <2>2. index[call[c].key] = call[c].attempt /\ ~Open(call[c].attempt)
    BY <1>6 DEF StartDrop, At, OpenInv
  <2>3. ASSUME NEW a \in Attempt, Open(a) PROVE index'[run[a].key] = index[run[a].key]
    <3>1. index[run[a].key] = a /\ a # call[c].attempt /\ run[a].key \in Key
      BY <1>0, <2>2, <2>3 DEF OpenInv, Open, TypeInv, RunOK
    <3> QED
      BY <1>0, <1>6, <2>2, <3>1 DEF StartDrop, TypeOK
  <2> QED
    BY <1>6, <2>1, <2>3, OpenFrame DEF StartDrop, Open
<1> QED
  BY <1>1, <1>2, <1>3, <1>4, <1>5, <1>6 DEF Start, StartRecord, StartLookup

LEMMA NextOpen ==
  ASSUME \A k \in Key : Redacted[k] = k, Known, HandInv, OpenInv, Alone, [Next]_vars PROVE OpenInv'
<1>1. ASSUME NEW c \in Call, Step(c) PROVE OpenInv'
  BY <1>1, StepGoes, OpenGoes, OpenMark, OpenStart
<1>2. CASE UNCHANGED <<run, index, call>>
  BY <1>2 DEF OpenInv, Open
<1>3. CASE Restart
  BY <1>3 DEF Restart, OpenInv, Open, Idle, NoRun
<1> QED
  BY <1>1, <1>2, <1>3, OpenRequest DEF Next, RecordRoute, LockServerStep, registry, vars

\* When calls do not overlap, and redaction leaves the summaries alone, no pair has
\* two open runs: the duplicate check of start_recovery is as good as a lookup
\* among all runs, because every open run keeps the index entry of its pair.
THEOREM OneOpenRun ==
  ASSUME Alone, \A k \in Key : Redacted[k] = k PROVE Spec => []OneOpenRunPerFingerprint
<1>1. Init => Known /\ HandInv /\ OpenInv
  <2> SUFFICES ASSUME Init PROVE HandInv /\ OpenInv
    BY InitType, InitLedger, InitHard DEF Known
  <2> QED
    BY DEF Init, HandInv, InHand, OpenInv, Open, NoRun, Idle
<1>2. Known /\ HandInv /\ OpenInv /\ [Next]_vars => (Known /\ HandInv /\ OpenInv)'
  BY NextType, NextLedger, NextHard, NextHand, NextOpen DEF Known
<1>3. OpenInv => OneOpenRunPerFingerprint
  BY DEF OpenInv, Open, OneOpenRunPerFingerprint
<1> QED
  BY <1>1, <1>2, <1>3, PTL DEF Spec

-----------------------------------------------------------------------------
(* The run and its ledger agree.                                             *)

\* The outcome that belongs to a terminal state.
RowOf(s) == IF s \in {"recovered", "escalated"} THEN s ELSE "retry_failed"

\* A call that writes the outcome of its run, or has just written it.
Closing(c) == call[c].pc \in {"mark", "append", "finish", "escalate"}

\* It has the run in hand, writes what the run is then closed as, and does not go
\* on to close it without having written that.
Closes(c) ==
  /\ \/ call[c].op \in {"cancel", "freeze", "apply"} /\ call[c].status = "retry_failed"
     \/ call[c].op = "start" /\ call[c].status = "escalated" /\ call[c].pc # "finish"
     \/ call[c].op = "resume" /\ call[c].status \in {"recovered", "escalated"}
  /\ call[c].pc \in {"finish", "escalate"} => outcomes[call[c].attempt] = <<call[c].status>>

AgreeInv ==
  /\ \A a \in Attempt : run[a].state \in Terminal => outcomes[a] = <<RowOf(run[a].state)>>
  /\ \A a \in Attempt : Open(a) =>
       \/ outcomes[a] = << >>
       \/ \E c \in Call : call[c].attempt = a /\ call[c].pc \in {"finish", "escalate"}
  /\ \A c \in Call : Closing(c) => Closes(c)
  /\ \A c \in Call : Registers(c) => outcomes[call[c].attempt] = << >>

\* The outcomes stay, and the thread closes nothing.
LEMMA AgreeFrame ==
  ASSUME AgreeInv, Alone, NEW c \in Call, outcomes' = outcomes, call[c].pc \notin {"finish", "escalate"},
         \A a \in Attempt : run'[a].state \in Terminal => run[a].state = run'[a].state,
         \A a \in Attempt : Open(a)' => Open(a),
         Closing(c)' => Closes(c)', ~Registers(c)'
  PROVE  AgreeInv'
<1>1. \A d \in Call : d = c
  BY DEF Alone
<1>2. \A a \in Attempt : Open(a) => outcomes[a] = << >>
  BY <1>1 DEF AgreeInv
<1> QED
  BY <1>1, <1>2 DEF AgreeInv

LEMMA AgreeGoes ==
  ASSUME Known, AgreeInv, Alone, NEW c \in Call, Goes(c), call[c].pc # "escalate", UNCHANGED outcomes
  PROVE  AgreeInv'
<1>0. TypeInv /\ TypeOK /\ \A d \in Call : d = c
  BY DEF Known, TypeInv, Alone
<1>1. (Closing(c)' => Closes(c)') /\ ~Registers(c)'
  BY DEF Goes, Works, Carries, Idle, Closing, Closes, Registers, At
<1>2. CASE Quiet /\ call[c].pc # "finish"
  <2>1. \A a \in Attempt : run'[a].state = run[a].state /\ (Open(a)' => Open(a))
    BY <1>2 DEF Quiet, Open
  <2> QED
    BY <1>1, <1>2, <2>1, AgreeFrame
<1>3. CASE Moves(c)
  <2>1. PICK r \in RecoveryRun :
          /\ Transition(call[c].attempt, r)
          /\ r.key = run[call[c].attempt].key /\ r.state # "absent"
          /\ \/ r.state \in Terminal /\ ClosesAs(c, r.state)
             \/ /\ r.state \notin Terminal /\ Open(call[c].attempt)
                /\ call[c].pc # "finish" /\ call'[c] = Idle
    BY <1>3 DEF Moves
  <2>2. PICK a \in Attempt : a = call[c].attempt
    BY WorkingRun DEF Goes
  <2>3. run'[a] = r /\ \A b \in Attempt \ {a} : run'[b] = run[b]
    BY <1>0, <2>1, <2>2 DEF TypeOK, Transition
  <2>4. CASE r.state \in Terminal /\ ClosesAs(c, r.state)
    <3>1. outcomes[a] = <<RowOf(r.state)>>
      BY <2>2, <2>4 DEF ClosesAs, AgreeInv, Closing, Closes, RowOf
    <3>2. \A b \in Attempt : Open(b)' => b # a /\ Open(b)
      BY <2>3, <2>4 DEF Open
    <3>3. \A b \in Attempt : Open(b)' => outcomes[b] = << >>
      BY <1>0, <2>2, <3>2 DEF AgreeInv
    <3>4. \A b \in Attempt : run'[b].state \in Terminal => outcomes[b] = <<RowOf(run'[b].state)>>
      BY <2>3, <3>1 DEF AgreeInv
    <3> QED
      BY <1>0, <1>1, <3>3, <3>4 DEF AgreeInv
  <2>5. CASE r.state \notin Terminal /\ Open(a) /\ call[c].pc # "finish"
    <3>1. \A b \in Attempt : /\ run'[b].state \in Terminal => run[b].state = run'[b].state
                             /\ Open(b)' => Open(b)
      BY <2>3, <2>5 DEF Open
    <3> QED
      BY <1>1, <2>5, <3>1, AgreeFrame
  <2> QED
    BY <2>1, <2>2, <2>4, <2>5
<1> QED
  BY <1>2, <1>3 DEF Goes

LEMMA AgreeRequest ==
  ASSUME RouteOutcome = {}, Known, AgreeInv, Alone, NEW c \in Call, Request(c) PROVE AgreeInv'
<1>0. TypeInv /\ TypeOK
  BY DEF Known, TypeInv
<1>1. ASSUME NEW r, Begin(c, r), UNCHANGED <<run, outcomes>>,
             r.pc \notin {"register", "append", "finish", "escalate"},
             r.pc = "mark" => r.op = "cancel" /\ r.status = "retry_failed"
      PROVE  AgreeInv'
  <2>1. call'[c] = r /\ call[c].pc \notin {"finish", "escalate"}
    BY <1>0, <1>1, ThreadBegins DEF Idle
  <2>2. (Closing(c)' => Closes(c)') /\ ~Registers(c)'
    BY <1>1, <2>1 DEF Closing, Closes, Registers, At
  <2> QED
    BY <1>1, <2>1, <2>2, AgreeFrame DEF Open
<1>2. ASSUME NEW k \in Key, StartCheck(c, k) PROVE AgreeInv'
  BY <1>1, <1>2 DEF StartCheck, Idle, ledger
<1>3. ASSUME NEW a \in Attempt, NEW p \in Proposal, ApplyCheck(c, a, p) PROVE AgreeInv'
  <2>1. call'[c].pc = "check" /\ call[c].pc = "idle" /\ UNCHANGED outcomes
    BY <1>0, <1>3 DEF ApplyCheck, TypeOK, Idle, ledger
  <2>2. run'[a].state = "applying" /\ \A b \in Attempt \ {a} : run'[b] = run[b]
    BY <1>0, <1>3 DEF ApplyCheck, Transition, TypeOK, RecoveryRun
  <2>3. Open(a)
    BY <1>3 DEF ApplyCheck, Open, Terminal
  <2>4. \A b \in Attempt : /\ run'[b].state \in Terminal => run[b].state = run'[b].state
                           /\ Open(b)' => Open(b)
    BY <2>2, <2>3 DEF Open, Terminal
  <2>5. ~Closing(c)' /\ ~Registers(c)'
    BY <2>1 DEF Closing, Registers, At
  <2> QED
    BY <2>1, <2>4, <2>5, AgreeFrame
<1>4. ASSUME NEW a \in Attempt, CancelCheck(c, a) PROVE AgreeInv'
  BY <1>1, <1>4 DEF CancelCheck, Idle, registry, ledger
<1>5. ASSUME NEW a \in Attempt, ThawCheck(c, a) PROVE AgreeInv'
  BY <1>1, <1>5 DEF ThawCheck, Idle, registry, ledger
<1>6. ASSUME NEW a \in Attempt, ProposeCheck(c, a) PROVE AgreeInv'
  BY <1>1, <1>6 DEF ProposeCheck, Idle, registry, ledger
<1>7. ASSUME NEW a \in Attempt, ResumeCheck(c, a) PROVE AgreeInv'
  BY <1>1, <1>7 DEF ResumeCheck, Idle, registry, ledger
<1>8. ASSUME NEW a \in Attempt, NEW files, FreezeCheck(c, a, files) PROVE AgreeInv'
  BY <1>1, <1>8 DEF FreezeCheck, Idle, registry, ledger
<1>9. ASSUME NEW a \in Attempt, NEW p, ReviewCheck(c, a, p) PROVE AgreeInv'
  BY <1>1, <1>9 DEF ReviewCheck, Idle, registry, ledger
<1> QED
  BY <1>2, <1>3, <1>4, <1>5, <1>6, <1>7, <1>8, <1>9 DEF Request

\* The call is the only one, works on an open run whose outcome is still to be
\* written, and finds the ledger free.
LEMMA AgreeMark ==
  ASSUME ~Faults, Known, HandInv, AgreeInv, Alone, NEW c \in Call, Mark(c) PROVE AgreeInv'
<1> DEFINE a == call[c].attempt
<1>0. TypeInv /\ TypeOK /\ \A d \in Call : d = c
  BY DEF Known, TypeInv, Alone
<1>1. /\ call[c].pc \in {"mark", "append"} /\ UNCHANGED <<run, index>> /\ Closes(c)
      /\ call[c].op \in {"cancel", "freeze", "apply", "start", "resume"}
  BY <1>0, MarkGoes DEF AgreeInv, Closing, Closes
<1>2. a \in Attempt /\ Open(a) /\ a \in failures /\ outcomes[a] = << >>
  <2>1. a \in Attempt /\ a \in failures
    BY <1>0, <1>1 DEF Known, TypeInv, ThreadOK, LedgerInv, LedgerThread
  <2>2. Open(a)
    BY <1>1 DEF HandInv, InHand
  <2> QED
    BY <1>0, <1>1, <2>1, <2>2 DEF AgreeInv
<1>3. CASE MarkScan(c)
  <2>1. Goto(c, "append") /\ UNCHANGED outcomes /\ "append" \in Pc
    BY <1>2, <1>3 DEF MarkScan, Pc
  <2>2. /\ call'[c].pc = "append" /\ call'[c].op = call[c].op
        /\ call'[c].attempt = a /\ call'[c].status = call[c].status
    BY <1>0, <2>1, ThreadGoesOn
  <2>3. Closes(c)' /\ ~Registers(c)'
    BY <1>1, <2>2 DEF Closes, Registers, At
  <2> QED
    BY <1>1, <2>1, <2>3, AgreeFrame DEF Open
<1>4. CASE MarkAppend(c)
  <2>1. AfterMark(c, TRUE) /\ outcomes' = [outcomes EXCEPT ![a] = Append(@, call[c].status)]
    BY <1>4 DEF MarkAppend
  <2>2. {"finish", "escalate"} \subseteq Pc
    BY DEF Pc
  <2>3. /\ call'[c].op = call[c].op /\ call'[c].attempt = a /\ call'[c].status = call[c].status
        /\ IF call[c].op = "start" THEN call'[c].pc = "escalate" ELSE call'[c].pc = "finish"
    BY <1>0, <1>1, <2>1, <2>2, ThreadGoesOn DEF AfterMark
  <2>4. outcomes'[a] = <<call[c].status>> /\ \A b \in Attempt \ {a} : outcomes'[b] = outcomes[b]
    <3>1. outcomes'[a] = Append(<< >>, call[c].status)
      BY <1>0, <1>2, <2>1 DEF TypeOK
    <3> QED
      BY <1>0, <1>2, <2>1, <3>1 DEF TypeOK
  <2>5. Closes(c)' /\ ~Registers(c)'
    BY <1>1, <2>3, <2>4 DEF Closes, Registers, At
  <2>6. ASSUME NEW b \in Attempt, Open(b)'
        PROVE  outcomes'[b] = << >> \/ (call'[c].attempt = b /\ call'[c].pc \in {"finish", "escalate"})
    <3>1. CASE b = a
      BY <2>3, <3>1
    <3>2. CASE b # a
      <4>1. Open(b)
        BY <1>1, <2>6 DEF Open
      <4>2. outcomes[b] = << >>
        BY <1>0, <3>2, <4>1 DEF AgreeInv
      <4> QED
        BY <2>4, <3>2, <4>2
    <3> QED
      BY <3>1, <3>2
  <2>7. ASSUME NEW b \in Attempt, run'[b].state \in Terminal
        PROVE  outcomes'[b] = <<RowOf(run'[b].state)>>
    BY <1>1, <1>2, <2>4, <2>7 DEF AgreeInv, Open
  <2> QED
    BY <1>0, <2>5, <2>6, <2>7 DEF AgreeInv
<1> QED
  BY <1>3, <1>4 DEF Mark, MarkUnavailable

LEMMA AgreeStart ==
  ASSUME Known, HandInv, AgreeInv, Alone, NEW c \in Call, Start(c) PROVE AgreeInv'
<1> DEFINE a == call[c].attempt
<1>0. TypeInv /\ TypeOK /\ \A d \in Call : d = c
  BY DEF Known, TypeInv, Alone
<1>1. CASE Return(c) /\ UNCHANGED <<run, outcomes>> /\ call[c].pc \notin {"finish", "escalate"}
  <2>1. ~Closing(c)' /\ ~Registers(c)'
    BY <1>0, <1>1, ThreadEnds DEF Closing, Registers, At
  <2> QED
    BY <1>1, <2>1, AgreeFrame DEF Open
<1>2. ASSUME NEW b \in Attempt, StartRecord(c, b), ~Return(c) PROVE AgreeInv'
  <2>1. /\ call'[c].op = "start" /\ call'[c].pc = "register" /\ call'[c].attempt = b
        /\ call[c].pc = "record" /\ UNCHANGED <<run, outcomes>>
    BY <1>0, <1>2 DEF StartRecord, At, CallState, TypeOK, registry
  <2>2. outcomes[b] = << >>
    BY <1>2 DEF StartRecord, Known, LedgerInv, RowsOK
  <2>3. \A e \in Attempt : Open(e) => outcomes[e] = << >>
    BY <1>0, <2>1 DEF AgreeInv
  <2> QED
    BY <1>0, <2>1, <2>2, <2>3 DEF AgreeInv, Open, Closing
<1>3. CASE StartRegister(c)
  <2>1. a \in Attempt /\ outcomes[a] = << >> /\ UNCHANGED outcomes /\ call[c].pc = "register"
        /\ call[c].op = "start"
    BY <1>0, <1>3 DEF StartRegister, AgreeInv, Registers, At, TypeInv, ThreadOK, ledger
  <2>2. run'[a].state = "created" /\ \A b \in Attempt \ {a} : run'[b] = run[b]
    BY <1>0, <1>3, <2>1 DEF StartRegister, TypeOK, NewRun, NoRun
  <2>3. Closing(c)' => call'[c].op = "start" /\ call'[c].pc = "mark" /\ call'[c].status = "escalated"
    BY <1>0, <1>3, <2>1, ThreadEnds, ThreadGoesToMark DEF StartRegister, Closing
  <2>4. ~Registers(c)'
    BY <1>0, <1>3, ThreadEnds, ThreadGoesToMark DEF StartRegister, Registers, At
  <2>5. ASSUME NEW b \in Attempt, Open(b)' PROVE outcomes[b] = << >>
    BY <1>0, <2>1, <2>2, <2>5 DEF AgreeInv, Open
  <2>6. ASSUME NEW b \in Attempt, run'[b].state \in Terminal
        PROVE  outcomes[b] = <<RowOf(run'[b].state)>>
    BY <2>2, <2>6 DEF AgreeInv, Terminal
  <2> QED
    BY <1>0, <2>1, <2>3, <2>4, <2>5, <2>6 DEF AgreeInv, Closes
<1>4. CASE StartEscalate(c)
  <2>1. a \in Attempt /\ outcomes[a] = <<"escalated">> /\ UNCHANGED outcomes
    BY <1>0, <1>4 DEF StartEscalate, AgreeInv, Closing, Closes, At, TypeInv, ThreadOK, ledger
  <2>2. run'[a].state = "escalated" /\ \A b \in Attempt \ {a} : run'[b] = run[b]
    BY <1>0, <1>4, <2>1 DEF StartEscalate, TypeOK, RecoveryRun
  <2>3. "lookup" \in Pc
    BY DEF Pc
  <2>4. ~Closing(c)' /\ ~Registers(c)'
    BY <1>0, <1>4, <2>3, ThreadGoesOn DEF StartEscalate, Closing, Registers, At
  <2>5. ASSUME NEW b \in Attempt, Open(b)' PROVE outcomes[b] = << >>
    <3>1. b # a /\ Open(b)
      BY <2>2, <2>5 DEF Open, Terminal
    <3> QED
      BY <1>0, <3>1 DEF AgreeInv
  <2>6. ASSUME NEW b \in Attempt, run'[b].state \in Terminal
        PROVE  outcomes[b] = <<RowOf(run'[b].state)>>
    BY <2>1, <2>2, <2>6 DEF AgreeInv, RowOf
  <2> QED
    BY <1>0, <2>1, <2>4, <2>5, <2>6 DEF AgreeInv
<1>5. CASE StartLookup(c) /\ ~Return(c)
  <2>1. Goto(c, "drop") /\ "drop" \in Pc /\ call[c].pc = "lookup" /\ UNCHANGED <<run, outcomes>>
    BY <1>5 DEF StartLookup, Pc, At, registry, ledger
  <2>2. ~Closing(c)' /\ ~Registers(c)'
    BY <1>0, <2>1, ThreadGoesOn DEF Closing, Registers, At
  <2> QED
    BY <2>1, <2>2, AgreeFrame DEF Open
<1>6. CASE (StartDrop(c) \/ StartLookup(c)) /\ Return(c)
  BY <1>1, <1>6 DEF StartDrop, StartLookup, At, registry, ledger
<1>7. ASSUME NEW b \in Attempt, StartRecord(c, b), Return(c) PROVE AgreeInv'
  BY <1>1, <1>7 DEF StartRecord, At, registry, ledger
<1>8. StartDrop(c) => Return(c)
  BY DEF StartDrop
<1> QED
  BY <1>2, <1>3, <1>4, <1>5, <1>6, <1>7, <1>8 DEF Start

LEMMA NextAgree ==
  ASSUME ~Faults, RouteOutcome = {}, Known, HandInv, AgreeInv, Alone, [Next]_vars PROVE AgreeInv'
<1>1. ASSUME NEW c \in Call, Step(c) PROVE AgreeInv'
  BY <1>1, StepGoes, AgreeGoes, AgreeMark, AgreeStart
<1>2. CASE UNCHANGED <<run, outcomes, call>>
  BY <1>2 DEF AgreeInv, Open, Closing, Closes, Registers, At
<1>3. CASE Restart
  BY <1>3 DEF Restart, AgreeInv, Open, Closing, Registers, At, Idle, NoRun, Terminal
<1> QED
  BY <1>1, <1>2, <1>3, AgreeRequest DEF Next, RecordRoute, LockServerStep, registry, ledger, vars

\* When calls do not overlap, the MCP server works and nobody closes an attempt
\* behind the controller's back, the state a run ends in is the outcome that the
\* durable ledger was given for it.
THEOREM LedgerAgrees ==
  ASSUME Alone, ~Faults, RouteOutcome = {} PROVE Spec => []LedgerAgreesWithRun
<1>1. Init => Known /\ HandInv /\ AgreeInv
  <2> SUFFICES ASSUME Init PROVE HandInv /\ AgreeInv
    BY InitType, InitLedger, InitHard DEF Known
  <2> QED
    BY DEF Init, HandInv, InHand, AgreeInv, Open, Closing, Registers, At, NoRun, Idle, Terminal
<1>2. Known /\ HandInv /\ AgreeInv /\ [Next]_vars => (Known /\ HandInv /\ AgreeInv)'
  BY NextType, NextLedger, NextHard, NextHand, NextAgree DEF Known
<1>3. AgreeInv => LedgerAgreesWithRun
  BY DEF AgreeInv, RowOf, LedgerAgreesWithRun, Terminal
<1> QED
  BY <1>1, <1>2, <1>3, PTL DEF Spec

=============================================================================
