------------------------- MODULE ServiceRunnerProofs -------------------------
(* Proofs about the supervisor of source services, for any number of services,  *)
(* requests and pids.                                                           *)
EXTENDS ServiceRunner, TLAPS

RunnerPc == {"idle", "start", "stop", "popen", "upread", "upwrite", "dropread", "dropwrite",
             "after", "kill"}
Runner == [pc : RunnerPc, service : Service \cup {None}, pid : Pid \cup {None},
           copy : [Service -> Pid \cup {None}], then : {"idle", "popen"}]

RunnerOK(r) ==
  /\ r \in Runner
  /\ r.pc = "idle" <=> r.service = None
  /\ r.pc \in {"upread", "upwrite", "after", "kill"} => r.pid # None

TypeInv ==
  /\ process \in [Pid -> Process \cup {None}]
  /\ stateFile \in [Service -> Pid \cup {None}]
  /\ runner \in [Request -> Runner] /\ \A t \in Request : RunnerOK(runner[t])
  /\ served \in 0..MaxServed
  /\ stopped \subseteq Pid /\ recycled \subseteq Pid /\ astray \subseteq Service

-----------------------------------------------------------------------------
(* What a step does to the requests.                                        *)

\* Request t is moved to r.
Moved(t, r) ==
  /\ \A u \in Request : runner'[u] = IF u = t THEN r ELSE runner[u]
  /\ runner' \in [Request -> Runner] /\ \A u \in Request : RunnerOK(runner'[u])

LEMMA MoveTo ==
  ASSUME TypeInv, NEW t \in Request, NEW r, RunnerOK(r), runner' = [runner EXCEPT ![t] = r]
  PROVE  Moved(t, r)
BY DEF TypeInv, RunnerOK, Moved

LEMMA NoRunnerOK ==
  RunnerOK(NoRunner) /\ NoRunner.pc = "idle" /\ NoRunner.service = None
  /\ NoRunner.copy = [s \in Service |-> None]
BY DEF RunnerOK, NoRunner, Runner, RunnerPc

LEMMA Returns ==
  ASSUME TypeInv, NEW t \in Request, Return(t) PROVE Moved(t, NoRunner)
BY NoRunnerOK, MoveTo DEF Return

\* A request goes on to a stage that needs no pid.
LEMMA Gotos ==
  ASSUME TypeInv, NEW t \in Request, runner[t].service # None, Goto(t, "popen")
  PROVE  \E r : Moved(t, r) /\ r.pc = "popen" /\ r.service = runner[t].service /\ r.copy = runner[t].copy
<1> DEFINE r == [runner[t] EXCEPT !.pc = "popen"]
<1>1. RunnerOK(runner[t]) /\ runner' = [runner EXCEPT ![t] = r]
  BY DEF TypeInv, Goto
<1>2. RunnerOK(r) /\ r.pc = "popen" /\ r.service = runner[t].service /\ r.copy = runner[t].copy
  BY <1>1 DEF RunnerOK, Runner, RunnerPc
<1> QED
  BY <1>1, <1>2, MoveTo

LEMMA Drops ==
  ASSUME TypeInv, NEW t \in Request, runner[t].service # None, NEW then \in {"idle", "popen"}, Drop(t, then)
  PROVE  \E r : /\ Moved(t, r) /\ r.pc = "dropread" /\ r.service = runner[t].service
                /\ r.copy = runner[t].copy
<1> DEFINE r == [runner[t] EXCEPT !.pc = "dropread", !.then = then]
<1>1. RunnerOK(runner[t]) /\ runner' = [runner EXCEPT ![t] = r]
  BY DEF TypeInv, Drop
<1>2. RunnerOK(r) /\ r.pc = "dropread" /\ r.service = runner[t].service /\ r.copy = runner[t].copy
  BY <1>1 DEF RunnerOK, Runner, RunnerPc
<1> QED
  BY <1>1, <1>2, MoveTo

\* A request has started a process.
LEMMA Names ==
  ASSUME TypeInv, NEW t \in Request, runner[t].service # None, NEW p \in Pid, p # None,
         runner' = [runner EXCEPT ![t].pid = p, ![t].pc = "upread"]
  PROVE  \E r : /\ Moved(t, r) /\ r.pc = "upread" /\ r.pid = p /\ r.service = runner[t].service
                /\ r.copy = runner[t].copy
<1> DEFINE r == [runner[t] EXCEPT !.pid = p, !.pc = "upread"]
<1>1. RunnerOK(runner[t]) /\ runner' = [runner EXCEPT ![t] = r]
  BY DEF TypeInv
<1>2. RunnerOK(r) /\ r.pc = "upread" /\ r.pid = p /\ r.service = runner[t].service /\ r.copy = runner[t].copy
  BY <1>1 DEF RunnerOK, Runner, RunnerPc
<1> QED
  BY <1>1, <1>2, MoveTo

LEMMA Reads ==
  ASSUME TypeInv, NEW t \in Request, ReadState(t)
  PROVE  \E r : /\ Moved(t, r) /\ r.pc = (IF runner[t].pc = "upread" THEN "upwrite" ELSE "dropwrite")
                /\ r.pid = runner[t].pid /\ r.service = runner[t].service /\ r.copy = stateFile
<1> DEFINE r == [runner[t] EXCEPT !.copy = stateFile,
                                  !.pc = IF @ = "upread" THEN "upwrite" ELSE "dropwrite"]
<1>1. RunnerOK(runner[t]) /\ runner' = [runner EXCEPT ![t] = r]
  BY DEF TypeInv, ReadState
<1>2. /\ RunnerOK(r) /\ r.pc = (IF runner[t].pc = "upread" THEN "upwrite" ELSE "dropwrite")
      /\ r.pid = runner[t].pid /\ r.service = runner[t].service /\ r.copy = stateFile
  BY <1>1 DEF RunnerOK, Runner, RunnerPc, ReadState, TypeInv
<1> QED
  BY <1>1, <1>2, MoveTo

LEMMA Writes ==
  ASSUME TypeInv, NEW t \in Request, WriteState(t)
  PROVE  /\ stateFile' \in [Service -> Pid \cup {None}]
         /\ runner[t].service \in Service
         /\ \A s \in Service : stateFile'[s] =
              IF s # runner[t].service THEN runner[t].copy[s]
              ELSE IF runner[t].pc = "upwrite" THEN runner[t].pid ELSE None
         /\ \E r : /\ Moved(t, r) /\ r.copy = [s \in Service |-> None]
                   /\ \/ runner[t].pc = "upwrite" /\ r.pc = "after" /\ r.service = runner[t].service
                                                  /\ r.pid = runner[t].pid
                      \/ runner[t].pc = "dropwrite" /\ r = NoRunner
                      \/ runner[t].pc = "dropwrite" /\ r.pc = "popen" /\ r.service = runner[t].service
<1>0. RunnerOK(runner[t]) /\ runner[t].pc \in {"upwrite", "dropwrite"}
  BY DEF TypeInv, WriteState
<1>1. /\ stateFile' = [runner[t].copy EXCEPT ![runner[t].service] =
                          IF runner[t].pc = "upwrite" THEN runner[t].pid ELSE None]
      /\ runner[t].copy \in [Service -> Pid \cup {None}] /\ runner[t].service \in Service
      /\ runner[t].pid \in Pid \cup {None}
  BY <1>0 DEF WriteState, RunnerOK, Runner
<1>2. CASE runner[t].pc = "upwrite"
  <2> DEFINE r == [runner[t] EXCEPT !.pc = "after", !.copy = NoRunner.copy]
  <2>1. runner' = [runner EXCEPT ![t] = r]
    BY <1>2 DEF WriteState, TypeInv
  <2>2. /\ RunnerOK(r) /\ r.pc = "after" /\ r.service = runner[t].service
        /\ r.pid = runner[t].pid /\ r.copy = [s \in Service |-> None]
    BY <1>0, <1>2, NoRunnerOK DEF RunnerOK, Runner, RunnerPc
  <2> QED
    BY <1>1, <1>2, <2>1, <2>2, MoveTo
<1>3. CASE runner[t].pc = "dropwrite" /\ runner[t].then = "idle"
  BY <1>1, <1>3, Returns, NoRunnerOK DEF WriteState
<1>4. CASE runner[t].pc = "dropwrite" /\ runner[t].then # "idle"
  <2> DEFINE r == [runner[t] EXCEPT !.pc = runner[t].then, !.copy = NoRunner.copy]
  <2>1. runner' = [runner EXCEPT ![t] = r] /\ runner[t].then = "popen"
    BY <1>0, <1>4 DEF WriteState, TypeInv, RunnerOK, Runner
  <2>2. /\ RunnerOK(r) /\ r.pc = "popen" /\ r.service = runner[t].service
        /\ r.copy = [s \in Service |-> None]
    BY <1>0, <1>4, <2>1, NoRunnerOK DEF RunnerOK, Runner, RunnerPc
  <2> QED
    BY <1>1, <1>4, <2>1, <2>2, MoveTo
<1> QED
  BY <1>0, <1>2, <1>3, <1>4

LEMMA Comes ==
  ASSUME ServiceRunnerAssumption, TypeInv, NEW t \in Request, NEW s \in Service,
         NEW op \in {"start", "stop"}, Come(t, op, s)
  PROVE  \E r : Moved(t, r) /\ r.pc = op /\ r.service = s /\ r.copy = runner[t].copy
<1> DEFINE r == [runner[t] EXCEPT !.pc = op, !.service = s]
<1>1. RunnerOK(runner[t]) /\ runner' = [runner EXCEPT ![t] = r] /\ s # None
  BY DEF TypeInv, Come, ServiceRunnerAssumption
<1>2. RunnerOK(r) /\ r.pc = op /\ r.service = s /\ r.copy = runner[t].copy
  BY <1>1 DEF RunnerOK, Runner, RunnerPc
<1> QED
  BY <1>1, <1>2, MoveTo

\* A request that is served has a service.
LEMMA Serving ==
  ASSUME TypeInv, NEW t \in Request, runner[t].pc # "idle"
  PROVE  /\ RunnerOK(runner[t]) /\ runner[t].service # None /\ runner[t].service \in Service
         /\ runner[t].copy \in [Service -> Pid \cup {None}]
         /\ runner[t].pc \in {"upread", "upwrite", "after", "kill"} => runner[t].pid \in Pid
BY DEF TypeInv, RunnerOK, Runner

-----------------------------------------------------------------------------
(* What each step does, in terms of the one request that moves              *)

LEMMA Looks ==
  ASSUME TypeInv, NEW t \in Request, Look(t)
  PROVE  \E r :
    /\ Moved(t, r) /\ UNCHANGED <<process, stateFile, served, histories>>
    /\ \/ r = NoRunner
       \/ /\ r.service = runner[t].service /\ r.copy = runner[t].copy
          /\ \/ r.pc = "popen" /\ stateFile[r.service] = None
             \/ /\ r.pc = "dropread" /\ stateFile[r.service] # None
                /\ process[stateFile[r.service]] = None
<1>1. runner[t].service # None /\ UNCHANGED <<process, stateFile, served, histories>>
  BY Serving DEF Look
<1>2. CASE Return(t)
  BY <1>1, <1>2, Returns
<1>3. CASE stateFile[runner[t].service] = None /\ Goto(t, "popen")
  <2>1. PICK r : Moved(t, r) /\ r.pc = "popen" /\ r.service = runner[t].service /\ r.copy = runner[t].copy
    BY <1>1, <1>3, Gotos
  <2> QED
    BY <1>1, <1>3, <2>1
<1>4. CASE /\ stateFile[runner[t].service] # None /\ process[stateFile[runner[t].service]] = None
           /\ Drop(t, "popen")
  <2>1. PICK r : Moved(t, r) /\ r.pc = "dropread" /\ r.service = runner[t].service /\ r.copy = runner[t].copy
    BY <1>1, <1>4, Drops
  <2> QED
    BY <1>1, <1>4, <2>1
<1> QED
  BY <1>2, <1>3, <1>4 DEF Look

LEMMA Popens ==
  ASSUME ServiceRunnerAssumption, TypeInv, NEW t \in Request, Popen(t)
  PROVE  \E r :
    /\ Moved(t, r) /\ UNCHANGED <<stateFile, served, stopped, astray>>
    /\ \/ r = NoRunner /\ UNCHANGED <<process, recycled>>
       \/ /\ r.service = runner[t].service /\ r.copy = runner[t].copy /\ r.pc = "upread"
          /\ r.pid \in Pid /\ Gives(r.pid, Child(r.service))
<1>1. runner[t].service # None /\ UNCHANGED <<stateFile, served, stopped, astray>>
  BY Serving DEF Popen
<1>2. CASE Return(t) /\ UNCHANGED <<process, recycled>>
  BY <1>1, <1>2, Returns
<1>3. ASSUME NEW p \in Pid, Gives(p, Child(runner[t].service)),
             runner' = [runner EXCEPT ![t].pid = p, ![t].pc = "upread"]
      PROVE  \E r :
               /\ Moved(t, r) /\ r.service = runner[t].service /\ r.copy = runner[t].copy /\ r.pc = "upread"
               /\ r.pid \in Pid /\ Gives(r.pid, Child(r.service))
  <2>1. p # None
    BY DEF ServiceRunnerAssumption
  <2>2. PICK r : /\ Moved(t, r) /\ r.pc = "upread" /\ r.pid = p /\ r.service = runner[t].service
                 /\ r.copy = runner[t].copy
    BY <1>1, <1>3, <2>1, Names
  <2> QED
    BY <1>3, <2>2
<1> QED
  BY <1>1, <1>2, <1>3 DEF Popen

LEMMA Afters ==
  ASSUME TypeInv, NEW t \in Request, After(t)
  PROVE  \E r :
    /\ Moved(t, r) /\ UNCHANGED <<stateFile, served, histories>>
    /\ \/ r = NoRunner
       \/ /\ r.service = runner[t].service /\ r.copy = runner[t].copy /\ r.pc = "dropread"
          /\ process[runner[t].pid] = Zombie(r.service)
    /\ process' = IF process[runner[t].pid] = Zombie(runner[t].service)
                  THEN [process EXCEPT ![runner[t].pid] = None] ELSE process
<1>1. runner[t].service # None /\ UNCHANGED <<stateFile, served, histories>>
      /\ process' = IF process[runner[t].pid] = Zombie(runner[t].service)
                    THEN [process EXCEPT ![runner[t].pid] = None] ELSE process
  BY Serving DEF After
<1>2. CASE Return(t)
  BY <1>1, <1>2, Returns
<1>3. CASE process[runner[t].pid] = Zombie(runner[t].service) /\ Drop(t, "idle")
  <2>1. PICK r : Moved(t, r) /\ r.pc = "dropread" /\ r.service = runner[t].service /\ r.copy = runner[t].copy
    BY <1>1, <1>3, Drops
  <2> QED
    BY <1>1, <1>3, <2>1
<1> QED
  BY <1>2, <1>3 DEF After

LEMMA Stops ==
  ASSUME TypeInv, NEW t \in Request, Stop(t)
  PROVE  \E r :
    /\ Moved(t, r) /\ UNCHANGED <<process, stateFile, served, histories>>
    /\ \/ r = NoRunner
       \/ /\ r.service = runner[t].service /\ r.copy = runner[t].copy /\ stateFile[r.service] # None
          /\ \/ r.pc = "dropread" /\ process[stateFile[r.service]] = None
             \/ r.pc = "kill" /\ r.pid = stateFile[r.service]
<1>1. /\ runner[t].service # None /\ UNCHANGED <<process, stateFile, served, histories>>
      /\ stateFile[runner[t].service] \in Pid \cup {None}
  BY Serving DEF Stop, TypeInv
<1>2. CASE Return(t)
  BY <1>1, <1>2, Returns
<1>3. CASE /\ stateFile[runner[t].service] # None /\ process[stateFile[runner[t].service]] = None
           /\ Drop(t, "idle")
  <2>1. PICK r : Moved(t, r) /\ r.pc = "dropread" /\ r.service = runner[t].service /\ r.copy = runner[t].copy
    BY <1>1, <1>3, Drops
  <2> QED
    BY <1>1, <1>3, <2>1
<1>4. CASE /\ stateFile[runner[t].service] # None
           /\ runner' = [runner EXCEPT ![t].pid = stateFile[runner[t].service], ![t].pc = "kill"]
  <2>0. PICK p \in Pid : /\ p = stateFile[runner[t].service] /\ p # None
                          /\ runner' = [runner EXCEPT ![t].pid = p, ![t].pc = "kill"]
    BY <1>1, <1>4
  <2> DEFINE r == [runner[t] EXCEPT !.pid = p, !.pc = "kill"]
  <2>1. RunnerOK(runner[t]) /\ runner' = [runner EXCEPT ![t] = r]
    BY <2>0 DEF TypeInv
  <2>2. /\ RunnerOK(r) /\ r.pc = "kill" /\ r.pid = p
        /\ r.service = runner[t].service /\ r.copy = runner[t].copy
    BY <1>1, <2>0, <2>1 DEF RunnerOK, Runner, RunnerPc
  <2>3. Moved(t, r)
    BY <2>1, <2>2, MoveTo
  <2> QED
    BY <1>1, <2>0, <2>2, <2>3
<1> QED
  BY <1>2, <1>3, <1>4 DEF Stop

LEMMA Kills ==
  ASSUME TypeInv, NEW t \in Request, Kill(t)
  PROVE  \E r :
    /\ Moved(t, r) /\ UNCHANGED <<process, stateFile, served, recycled, astray>>
    /\ \/ r = NoRunner /\ UNCHANGED stopped
       \/ /\ r.service = runner[t].service /\ r.copy = runner[t].copy /\ r.pc = "dropread"
          /\ stopped' = stopped \cup {runner[t].pid}
<1>1. runner[t].service # None /\ UNCHANGED <<process, stateFile, served, recycled, astray>>
  BY Serving DEF Kill
<1>2. CASE Return(t) /\ UNCHANGED stopped
  BY <1>1, <1>2, Returns
<1>3. CASE stopped' = stopped \cup {runner[t].pid} /\ Drop(t, "idle")
  <2>1. PICK r : Moved(t, r) /\ r.pc = "dropread" /\ r.service = runner[t].service /\ r.copy = runner[t].copy
    BY <1>1, <1>3, Drops
  <2> QED
    BY <1>1, <1>3, <2>1
<1> QED
  BY <1>2, <1>3 DEF Kill

-----------------------------------------------------------------------------
(* Types                                                                    *)

LEMMA TypeInit ==
  ASSUME ServiceRunnerAssumption, Init PROVE TypeInv
BY NoRunnerOK DEF Init, TypeInv, RunnerOK, ServiceRunnerAssumption

LEMMA GivesType ==
  ASSUME TypeInv, NEW p \in Pid, NEW what \in Process, Gives(p, what)
  PROVE  process' \in [Pid -> Process \cup {None}] /\ recycled' \subseteq Pid /\ recycled \subseteq recycled'
BY DEF Gives, TypeInv

LEMMA TypeServe ==
  ASSUME ServiceRunnerAssumption, TypeInv, NEW t \in Request, Serve(t) PROVE TypeInv'
<1>1. ASSUME NEW op \in {"start", "stop"}, NEW s \in Service, Come(t, op, s) PROVE TypeInv'
  <2>1. \E r : Moved(t, r)
    BY <1>1, Comes
  <2>2. served' \in 0..MaxServed
    BY <1>1 DEF Come, TypeInv, ServiceRunnerAssumption
  <2> QED
    BY <1>1, <2>1, <2>2 DEF Come, Moved, TypeInv
<1>2. CASE Look(t)
  BY <1>2, Looks DEF Moved, TypeInv, histories
<1>3. CASE Popen(t)
  <2>1. PICK r :
          /\ Moved(t, r) /\ UNCHANGED <<stateFile, served, stopped, astray>>
          /\ \/ r = NoRunner /\ UNCHANGED <<process, recycled>>
             \/ /\ r.service = runner[t].service /\ r.copy = runner[t].copy /\ r.pc = "upread"
                /\ r.pid \in Pid /\ Gives(r.pid, Child(r.service))
    BY <1>3, Popens
  <2>2. Child(runner[t].service) \in Process
    BY <1>3, Serving DEF Popen, Child, Process
  <2> QED
    BY <2>1, <2>2, GivesType DEF Moved, TypeInv
<1>4. CASE ReadState(t)
  BY <1>4, Reads DEF ReadState, Moved, TypeInv, histories
<1>5. CASE WriteState(t)
  BY <1>5, Writes DEF WriteState, Moved, TypeInv
<1>6. CASE After(t)
  BY <1>6, Afters DEF Moved, TypeInv, histories
<1>7. CASE Stop(t)
  BY <1>7, Stops DEF Moved, TypeInv, histories
<1>8. CASE Kill(t)
  <2>1. runner[t].pid \in Pid
    BY <1>8, Serving DEF Kill
  <2> QED
    BY <1>8, <2>1, Kills DEF Moved, TypeInv
<1> QED
  BY <1>1, <1>2, <1>3, <1>4, <1>5, <1>6, <1>7, <1>8 DEF Serve

\* The system's steps move no request and no record.
LEMMA TypeSystem ==
  ASSUME ServiceRunnerAssumption, TypeInv, NEW p \in Pid, Ends(p) \/ Reap(p) \/ SomethingElse(p)
  PROVE  TypeInv' /\ UNCHANGED <<stateFile, runner, astray>>
<1>1. CASE Ends(p)
  <2>1. ASSUME process[p].kind = "service", process[p] # None PROVE Zombie(process[p].of) \in Process
    BY <2>1 DEF TypeInv, Process, Zombie
  <2>2. process' \in [Pid -> Process \cup {None}]
    BY <1>1, <2>1 DEF Ends, TypeInv
  <2> QED
    BY <1>1, <2>2 DEF Ends, TypeInv
<1>2. CASE Reap(p)
  BY <1>2 DEF Reap, TypeInv, histories
<1>3. CASE SomethingElse(p)
  <2>1. Foreign \in Process
    BY DEF Foreign, Process
  <2> QED
    BY <1>3, <2>1, GivesType DEF SomethingElse, TypeInv
<1> QED
  BY <1>1, <1>2, <1>3

LEMMA TypeRestart ==
  ASSUME ServiceRunnerAssumption, TypeInv, Restart PROVE TypeInv'
BY NoRunnerOK DEF Restart, TypeInv, RunnerOK

LEMMA TypeStep ==
  ASSUME ServiceRunnerAssumption, TypeInv, [Next]_runnerVars PROVE TypeInv'
<1>1. CASE UNCHANGED runnerVars
  BY <1>1 DEF runnerVars, TypeInv
<1> QED
  BY <1>1, TypeServe, TypeSystem, TypeRestart DEF Next

\* The processes, the records and the requests keep their types, and a request that
\* writes a record or signals a process knows its pid.
THEOREM RunnerTypeCorrect ==
  ASSUME ServiceRunnerAssumption PROVE Spec => []TypeOK
<1>1. Init => TypeInv
  BY TypeInit
<1>2. TypeInv /\ [Next]_runnerVars => TypeInv'
  BY TypeStep
<1>3. TypeInv => TypeOK
  BY DEF TypeInv, TypeOK, RunnerOK, Runner, RunnerPc
<1> QED
  BY <1>1, <1>2, <1>3, PTL DEF Spec

-----------------------------------------------------------------------------
(* A stop                                                                   *)

\* A pid that something has on record for service s is free, a process of s, or
\* was given again while something named it.
Rec(p, s) == p = None \/ p \in recycled \/ process[p] = None \/ process[p].of = s

Awaits(r) == r.pc \in {"upread", "upwrite", "after"}

\* Records, what requests carry of them, and the pids they are about to signal or
\* to record.  Nobody else awaits the process that a request has started.
RecordInv ==
  /\ \A s \in Service : Rec(stateFile[s], s)
  /\ \A t \in Request :
       /\ \A s \in Service : Rec(runner[t].copy[s], s)
       /\ runner[t].pc = "kill" => Rec(runner[t].pid, runner[t].service)
       /\ Awaits(runner[t]) =>
            /\ process[runner[t].pid] \in {Child(runner[t].service), Zombie(runner[t].service)}
            /\ \A u \in Request : Awaits(runner[u]) /\ runner[u].pid = runner[t].pid => u = t

LEMMA OfNone ==
  ASSUME ServiceRunnerAssumption, NEW s \in Service
  PROVE  Child(s) # None /\ Zombie(s) # None /\ Child(s).of = s /\ Zombie(s).of = s
BY DEF Child, Zombie, Process, ServiceRunnerAssumption

\* What may happen to a process without a record noticing.
Unnoticed(q) ==
  \/ process'[q] = process[q] \/ process'[q] = None
  \/ process[q] # None /\ process'[q].of = process[q].of
  \/ Named(q) => q \in recycled'

Change == recycled \subseteq recycled' /\ \A q \in Pid : Unnoticed(q)

LEMMA RecKept ==
  ASSUME Change, NEW p \in Pid \cup {None}, NEW s, Rec(p, s), p # None => Named(p)
  PROVE  Rec(p, s)'
BY DEF Change, Unnoticed, Rec

\* What was on record stays good, wherever a step takes it.
LEMMA RecordsKept ==
  ASSUME TypeInv, RecordInv, Change, NEW s \in Service, NEW p \in Pid \cup {None},
         \/ p = stateFile[s]
         \/ \E t \in Request : p = runner[t].copy[s]
         \/ \E t \in Request : runner[t].pc = "kill" /\ p = runner[t].pid /\ s = runner[t].service
  PROVE  Rec(p, s)'
<1>1. Rec(p, s) /\ (p # None => Named(p))
  BY DEF RecordInv, Named
<1> QED
  BY <1>1, RecKept

\* The requests that await a process still do.
AwaitKept(t) ==
  \A u \in Request : u # t /\ Awaits(runner[u]) =>
    process'[runner[u].pid] \in {Child(runner[u].service), Zombie(runner[u].service)}

LEMMA RecordStep ==
  ASSUME TypeInv, TypeInv', RecordInv, Change, NEW t \in Request, NEW r, Moved(t, r), AwaitKept(t),
         \A s \in Service, p \in Pid \cup {None} : p = stateFile'[s] \/ p = r.copy[s] => Rec(p, s)',
         \A s \in Service, p \in Pid : r.pc = "kill" /\ p = r.pid /\ s = r.service => Rec(p, s)',
         Awaits(r) => /\ process'[r.pid] \in {Child(r.service), Zombie(r.service)}
                      /\ \A u \in Request : u # t /\ Awaits(runner[u]) => runner[u].pid # r.pid
  PROVE  RecordInv'
<1>1. /\ \A s \in Service : stateFile'[s] \in Pid \cup {None}
      /\ \A u \in Request : /\ \A s \in Service : runner'[u].copy[s] \in Pid \cup {None}
                            /\ runner'[u].pc = "kill" => runner'[u].pid \in Pid /\ runner'[u].service \in Service
  BY DEF TypeInv, RunnerOK, Runner
<1>2. \A u \in Request : runner'[u] = IF u = t THEN r ELSE runner[u]
  BY DEF Moved
<1>3. \A s \in Service : Rec(stateFile[s], s)'
  BY <1>1 DEF Rec
<1>4. ASSUME NEW u \in Request, NEW s \in Service PROVE Rec(runner[u].copy[s], s)'
  <2>1. PICK p \in Pid \cup {None} : p = runner'[u].copy[s]
    BY <1>1
  <2>2. Rec(p, s)'
    BY <1>2, <2>1, RecordsKept
  <2> QED
    BY <2>1, <2>2 DEF Rec
<1>5. ASSUME NEW u \in Request, runner'[u].pc = "kill" PROVE Rec(runner[u].pid, runner[u].service)'
  <2>1. PICK p \in Pid, s \in Service : p = runner'[u].pid /\ s = runner'[u].service
    BY <1>1, <1>5
  <2>2. Rec(p, s)'
    BY <1>2, <1>5, <2>1, RecordsKept
  <2> QED
    BY <2>1, <2>2 DEF Rec
<1>6. ASSUME NEW u \in Request, Awaits(runner'[u])
      PROVE  /\ process'[runner'[u].pid] \in {Child(runner'[u].service), Zombie(runner'[u].service)}
             /\ \A v \in Request : Awaits(runner'[v]) /\ runner'[v].pid = runner'[u].pid => v = u
  BY <1>2, <1>6 DEF AwaitKept, RecordInv
<1> QED
  BY <1>3, <1>4, <1>5, <1>6 DEF RecordInv, Awaits

\* A step that leaves the processes alone leaves everything in place.
LEMMA Still ==
  ASSUME RecordInv, process' = process, recycled' = recycled
  PROVE  Change /\ \A t \in Request : AwaitKept(t)
BY DEF Change, Unnoticed, AwaitKept, RecordInv

\* A pid is given to something: nobody awaited it, and what named it is noted.
LEMMA Given ==
  ASSUME ServiceRunnerAssumption, TypeInv, RecordInv, NEW p \in Pid, NEW what, Gives(p, what)
  PROVE  /\ Change /\ \A t \in Request : AwaitKept(t)
         /\ \A u \in Request : Awaits(runner[u]) => runner[u].pid # p
         /\ process'[p] = what
<1>1. /\ \A q \in Pid : process'[q] = IF q = p THEN what ELSE process[q]
      /\ process[p] = None /\ recycled \subseteq recycled' /\ (Named(p) => p \in recycled')
  BY DEF Gives, TypeInv
<1>2. Change
  BY <1>1 DEF Change, Unnoticed
<1>3. ASSUME NEW u \in Request, Awaits(runner[u]) PROVE runner[u].pid # p /\ runner[u].pid \in Pid
  <2>1. runner[u].service \in Service /\ runner[u].pid \in Pid
    BY <1>3, Serving DEF Awaits
  <2> QED
    BY <1>1, <1>3, <2>1, OfNone DEF RecordInv
<1> QED
  BY <1>1, <1>2, <1>3 DEF AwaitKept, RecordInv

LEMMA RecordServe ==
  ASSUME ServiceRunnerAssumption, TypeInv, TypeInv', RecordInv, NEW t \in Request, Serve(t)
  PROVE  RecordInv'
<1>0. NoRunner.pc = "idle" /\ \A s \in Service : NoRunner.copy[s] = None
  BY NoRunnerOK
<1>1. ASSUME NEW r, Moved(t, r), UNCHANGED <<process, stateFile, recycled>>,
             r = NoRunner \/ r.copy = runner[t].copy, r.pc # "kill", ~Awaits(r)
      PROVE  RecordInv'
  <2>1. Change /\ AwaitKept(t)
    BY <1>1, Still
  <2>2. \A s \in Service, p \in Pid \cup {None} : p = stateFile'[s] \/ p = r.copy[s] => Rec(p, s)'
    BY <1>0, <1>1, <2>1, RecordsKept DEF Rec
  <2> QED
    BY <1>1, <2>1, <2>2, RecordStep
<1>2. ASSUME NEW op \in {"start", "stop"}, NEW s \in Service, Come(t, op, s) PROVE RecordInv'
  BY <1>1, <1>2, Comes DEF Come, Awaits
<1>3. CASE Look(t)
  BY <1>0, <1>1, <1>3, Looks DEF Awaits, histories
<1>4. CASE Popen(t)
  <2>1. PICK r :
          /\ Moved(t, r) /\ UNCHANGED <<stateFile, served, stopped, astray>>
          /\ \/ r = NoRunner /\ UNCHANGED <<process, recycled>>
             \/ /\ r.service = runner[t].service /\ r.copy = runner[t].copy /\ r.pc = "upread"
                /\ r.pid \in Pid /\ Gives(r.pid, Child(r.service))
    BY <1>4, Popens
  <2>2. CASE r = NoRunner /\ UNCHANGED <<process, recycled>>
    BY <1>0, <1>1, <2>1, <2>2 DEF Awaits
  <2>3. CASE /\ r.service = runner[t].service /\ r.copy = runner[t].copy /\ r.pc = "upread"
             /\ r.pid \in Pid /\ Gives(r.pid, Child(r.service))
    <3>1. Change /\ AwaitKept(t) /\ (\A u \in Request : Awaits(runner[u]) => runner[u].pid # r.pid)
          /\ process'[r.pid] = Child(r.service)
      BY <2>3, Given
    <3>2. \A s \in Service, p \in Pid \cup {None} : p = stateFile'[s] \/ p = r.copy[s] => Rec(p, s)'
      BY <2>1, <2>3, <3>1, RecordsKept
    <3> QED
      BY <2>1, <2>3, <3>1, <3>2, RecordStep
  <2> QED
    BY <2>1, <2>2, <2>3
<1>5. CASE ReadState(t)
  <2>1. PICK r : /\ Moved(t, r) /\ r.pc = (IF runner[t].pc = "upread" THEN "upwrite" ELSE "dropwrite")
                 /\ r.pid = runner[t].pid /\ r.service = runner[t].service /\ r.copy = stateFile
    BY <1>5, Reads
  <2>2. Change /\ AwaitKept(t) /\ process' = process /\ stateFile' = stateFile
    BY <1>5, Still DEF ReadState, histories
  <2>3. \A s \in Service, p \in Pid \cup {None} : p = stateFile'[s] \/ p = r.copy[s] => Rec(p, s)'
    BY <2>1, <2>2, RecordsKept
  <2>4. Awaits(r) => Awaits(runner[t])
    BY <1>5, <2>1 DEF Awaits, ReadState
  <2>5. Awaits(r) => /\ process'[r.pid] \in {Child(r.service), Zombie(r.service)}
                     /\ \A u \in Request : u # t /\ Awaits(runner[u]) => runner[u].pid # r.pid
    BY <2>1, <2>2, <2>4 DEF RecordInv
  <2> QED
    BY <2>1, <2>2, <2>3, <2>5, RecordStep
<1>6. CASE WriteState(t)
  <2>0. /\ Change /\ AwaitKept(t) /\ process' = process /\ runner[t].service \in Service
        /\ \A s \in Service : stateFile'[s] =
             IF s # runner[t].service THEN runner[t].copy[s]
             ELSE IF runner[t].pc = "upwrite" THEN runner[t].pid ELSE None
    BY <1>6, Still, Writes DEF WriteState
  <2>1. PICK r : /\ Moved(t, r) /\ r.copy = [s \in Service |-> None]
                 /\ \/ runner[t].pc = "upwrite" /\ r.pc = "after" /\ r.service = runner[t].service
                                                /\ r.pid = runner[t].pid
                    \/ runner[t].pc = "dropwrite" /\ r = NoRunner
                    \/ runner[t].pc = "dropwrite" /\ r.pc = "popen" /\ r.service = runner[t].service
    BY <1>6, Writes
  <2>2. ASSUME NEW s \in Service, NEW p \in Pid \cup {None}, p = stateFile'[s] \/ p = r.copy[s]
        PROVE  Rec(p, s)'
    <3>1. CASE p = None
      BY <3>1 DEF Rec
    <3>2. CASE p = runner[t].copy[s]
      BY <2>0, <3>2, RecordsKept
    <3>3. CASE runner[t].pc = "upwrite" /\ s = runner[t].service /\ p = runner[t].pid
      BY <2>0, <3>3, OfNone DEF RecordInv, Awaits, Rec
    <3> QED
      BY <2>0, <2>1, <2>2, <3>1, <3>2, <3>3
  <2>3. r.pc # "kill" /\ (Awaits(r) => Awaits(runner[t]) /\ r.service = runner[t].service /\ r.pid = runner[t].pid)
    BY <1>0, <2>1 DEF Awaits
  <2>4. Awaits(r) => /\ process'[r.pid] \in {Child(r.service), Zombie(r.service)}
                     /\ \A u \in Request : u # t /\ Awaits(runner[u]) => runner[u].pid # r.pid
    BY <2>0, <2>3 DEF RecordInv
  <2> QED
    BY <2>0, <2>1, <2>2, <2>3, <2>4, RecordStep
<1>7. CASE After(t)
  <2>1. PICK r :
          /\ Moved(t, r) /\ UNCHANGED <<stateFile, served, histories>>
          /\ \/ r = NoRunner
             \/ /\ r.service = runner[t].service /\ r.copy = runner[t].copy /\ r.pc = "dropread"
                /\ process[runner[t].pid] = Zombie(r.service)
          /\ process' = IF process[runner[t].pid] = Zombie(runner[t].service)
                        THEN [process EXCEPT ![runner[t].pid] = None] ELSE process
    BY <1>7, Afters
  <2>2. /\ recycled' = recycled /\ runner[t].pid \in Pid /\ Awaits(runner[t])
        /\ \A q \in Pid : /\ process'[q] \in {process[q], None}
                          /\ q # runner[t].pid => process'[q] = process[q]
    BY <1>7, <2>1, Serving DEF After, Awaits, TypeInv, histories
  <2>3. Change
    BY <2>2 DEF Change, Unnoticed
  <2>4. AwaitKept(t)
    <3> SUFFICES ASSUME NEW u \in Request, u # t, Awaits(runner[u])
                 PROVE  process'[runner[u].pid] \in {Child(runner[u].service), Zombie(runner[u].service)}
      BY DEF AwaitKept
    <3>1. runner[u].pid \in Pid /\ runner[u].pid # runner[t].pid
      BY <2>2, Serving DEF Awaits, RecordInv
    <3> QED
      BY <2>2, <3>1 DEF RecordInv
  <2>5. \A s \in Service, p \in Pid \cup {None} : p = stateFile'[s] \/ p = r.copy[s] => Rec(p, s)'
    BY <1>0, <2>1, <2>3, RecordsKept DEF Rec
  <2>6. r.pc # "kill" /\ ~Awaits(r)
    BY <1>0, <2>1 DEF Awaits
  <2> QED
    BY <2>1, <2>3, <2>4, <2>5, <2>6, RecordStep
<1>8. CASE Stop(t)
  <2>1. PICK r :
          /\ Moved(t, r) /\ UNCHANGED <<process, stateFile, served, histories>>
          /\ \/ r = NoRunner
             \/ /\ r.service = runner[t].service /\ r.copy = runner[t].copy /\ stateFile[r.service] # None
                /\ \/ r.pc = "dropread" /\ process[stateFile[r.service]] = None
                   \/ r.pc = "kill" /\ r.pid = stateFile[r.service]
    BY <1>8, Stops
  <2>2. Change /\ AwaitKept(t)
    BY <2>1, Still DEF histories
  <2>3. \A s \in Service, p \in Pid \cup {None} : p = stateFile'[s] \/ p = r.copy[s] => Rec(p, s)'
    BY <1>0, <2>1, <2>2, RecordsKept DEF Rec
  <2>4. \A s \in Service, p \in Pid : r.pc = "kill" /\ p = r.pid /\ s = r.service => Rec(p, s)'
    BY <1>0, <2>1, <2>2, RecordsKept
  <2>5. ~Awaits(r)
    BY <1>0, <2>1 DEF Awaits
  <2> QED
    BY <2>1, <2>2, <2>3, <2>4, <2>5, RecordStep
<1>9. CASE Kill(t)
  BY <1>0, <1>1, <1>9, Kills DEF Awaits
<1> QED
  BY <1>2, <1>3, <1>4, <1>5, <1>6, <1>7, <1>8, <1>9 DEF Serve

LEMMA RecordSystem ==
  ASSUME ServiceRunnerAssumption, TypeInv, RecordInv, NEW p \in Pid, Ends(p) \/ Reap(p) \/ SomethingElse(p)
  PROVE  RecordInv'
<1>1. UNCHANGED <<stateFile, runner>> /\ TypeInv'
  BY TypeSystem
<1>2. Change
  <2>1. CASE Ends(p)
    <3>1. \A q \in Pid : q # p => process'[q] = process[q]
      BY <2>1 DEF Ends, TypeInv
    <3>2. process'[p] = None \/ (process[p] # None /\ process'[p] = Zombie(process[p].of))
      BY <2>1 DEF Ends, TypeInv
    <3> QED
      BY <2>1, <3>1, <3>2 DEF Change, Unnoticed, Ends, Zombie
  <2>2. CASE Reap(p)
    BY <2>2 DEF Reap, Change, Unnoticed, TypeInv, histories
  <2>3. CASE SomethingElse(p)
    BY <2>3, Given DEF SomethingElse
  <2> QED
    BY <2>1, <2>2, <2>3
<1>3. ASSUME NEW u \in Request, Awaits(runner[u])
      PROVE  process'[runner[u].pid] \in {Child(runner[u].service), Zombie(runner[u].service)}
  <2>0. runner[u].pid \in Pid /\ runner[u].service \in Service
        /\ process[runner[u].pid] \in {Child(runner[u].service), Zombie(runner[u].service)}
    BY <1>3, Serving DEF Awaits, RecordInv
  <2>1. CASE Ends(p)
    <3>1. CASE runner[u].pid # p
      BY <2>0, <2>1, <3>1 DEF Ends, TypeInv
    <3>2. CASE runner[u].pid = p
      <4>1. Awaited(p)
        BY <1>3, <3>2 DEF Awaited, Awaits
      <4>2. process'[p] = Zombie(process[p].of)
        BY <2>1, <4>1 DEF Ends, TypeInv
      <4> QED
        BY <2>0, <3>2, <4>2, OfNone
    <3> QED
      BY <3>1, <3>2
  <2>2. CASE Reap(p)
    <3>1. runner[u].pid # p
      BY <1>3, <2>2 DEF Reap, Awaited, Awaits
    <3> QED
      BY <2>0, <2>2, <3>1 DEF Reap, TypeInv
  <2>3. CASE SomethingElse(p)
    <3>1. runner[u].pid # p
      BY <1>3, <2>3, Given DEF SomethingElse
    <3> QED
      BY <2>0, <2>3, <3>1 DEF SomethingElse, Gives, TypeInv
  <2> QED
    BY <2>1, <2>2, <2>3
<1>4. \A s \in Service : Rec(stateFile[s], s)'
  <2> SUFFICES ASSUME NEW s \in Service PROVE Rec(stateFile[s], s)'
    OBVIOUS
  <2>1. PICK q \in Pid \cup {None} : q = stateFile[s]
    BY DEF TypeInv
  <2> QED
    BY <1>1, <1>2, <2>1, RecordsKept DEF Rec
<1>5. ASSUME NEW u \in Request, NEW s \in Service PROVE Rec(runner[u].copy[s], s)'
  <2>1. PICK q \in Pid \cup {None} : q = runner[u].copy[s]
    BY DEF TypeInv, Runner
  <2> QED
    BY <1>1, <1>2, <2>1, RecordsKept DEF Rec
<1>6. ASSUME NEW u \in Request, runner[u].pc = "kill" PROVE Rec(runner[u].pid, runner[u].service)'
  <2>1. PICK q \in Pid, s \in Service : q = runner[u].pid /\ s = runner[u].service
    BY <1>6, Serving
  <2> QED
    BY <1>1, <1>2, <1>6, <2>1, RecordsKept DEF Rec
<1> QED
  BY <1>1, <1>3, <1>4, <1>5, <1>6 DEF RecordInv

\* However the requests interleave, the file is overwritten, the backend restarts and
\* pids come back: a stop signals a process of its service, unless the pid was given
\* again while the record, or the stop, named it.
THEOREM StopsHitTheirOwn ==
  ASSUME ServiceRunnerAssumption PROVE Spec => StopHitsItsOwn
<1> DEFINE Inv == TypeInv /\ RecordInv
           Hit == \A t \in Request : runner[t].pc = "kill" /\ runner'[t].pc = "dropread" =>
                    process[runner[t].pid].of = runner[t].service \/ runner[t].pid \in recycled
<1>1. Init => Inv
  BY TypeInit, NoRunnerOK DEF Init, RecordInv, Rec, Awaits
<1>2. Inv /\ [Next]_runnerVars => Inv'
  <2> SUFFICES ASSUME TypeInv, RecordInv, [Next]_runnerVars PROVE TypeInv' /\ RecordInv'
    OBVIOUS
  <2>1. TypeInv'
    BY TypeStep
  <2>2. CASE Restart
    <3>1. process' = process /\ stateFile' = stateFile /\ recycled' = recycled
      BY <2>2 DEF Restart
    <3>2. \A t \in Request : runner'[t].pc = "idle" /\ \A s \in Service : runner'[t].copy[s] = None
      BY <2>2, NoRunnerOK DEF Restart
    <3>3. \A s \in Service : Rec(stateFile[s], s)'
      BY <3>1 DEF RecordInv, Rec
    <3>4. \A t \in Request : \A s \in Service : Rec(runner[t].copy[s], s)'
      BY <3>2 DEF Rec
    <3> QED
      BY <2>1, <3>2, <3>3, <3>4 DEF RecordInv, Awaits
  <2>3. CASE UNCHANGED runnerVars
    <3>1. process' = process /\ stateFile' = stateFile /\ recycled' = recycled /\ runner' = runner
      BY <2>3 DEF runnerVars
    <3> QED
      BY <2>1, <3>1 DEF RecordInv, Rec, Awaits
  <2> QED
    BY <2>1, <2>2, <2>3, RecordServe, RecordSystem DEF Next
<1>3. Inv /\ [Next]_runnerVars => Hit
  <2> SUFFICES ASSUME TypeInv, RecordInv, [Next]_runnerVars, NEW t \in Request,
                      runner[t].pc = "kill", runner'[t].pc = "dropread"
               PROVE  process[runner[t].pid].of = runner[t].service \/ runner[t].pid \in recycled
    OBVIOUS
  <2>1. Kill(t)
    <3>1. ASSUME NEW u \in Request, Serve(u) PROVE u = t
      <4>1. \E r : Moved(u, r)
        BY <3>1, Comes, Looks, Popens, Reads, Writes, Afters, Stops, Kills DEF Serve
      <4> QED
        BY <4>1 DEF Moved
    <3>2. Serve(t)
      <4>1. ASSUME NEW p \in Pid, Ends(p) \/ Reap(p) \/ SomethingElse(p) PROVE FALSE
        BY <4>1, TypeSystem
      <4>2. ~Restart /\ ~UNCHANGED runnerVars
        BY NoRunnerOK DEF Restart, runnerVars, TypeInv
      <4> QED
        BY <3>1, <4>1, <4>2 DEF Next
    <3> QED
      BY <3>2 DEF Serve, Come, Look, Popen, ReadState, WriteState, After, Stop
  <2>3. process[runner[t].pid] # None
    <3>1. ~Return(t)
      BY Returns, NoRunnerOK DEF Moved
    <3> QED
      BY <2>1, <3>1 DEF Kill
  <2>4. Rec(runner[t].pid, runner[t].service) /\ runner[t].pid # None
    BY Serving DEF RecordInv, ServiceRunnerAssumption
  <2> QED
    BY <2>3, <2>4 DEF Rec
<1>4. Inv /\ [Next]_runnerVars => [Hit]_runnerVars
  BY <1>3
<1> QED
  BY <1>1, <1>2, <1>4, PTL DEF Spec, StopHitsItsOwn

-----------------------------------------------------------------------------
(* One process and its record                                               *)

\* What is alive of service s, by the stage of the one request that has it in hand.
Fit(r, s) ==
  /\ r.pc \in {"start", "stop"} => Live(s) \subseteq {stateFile[s]}
  /\ r.pc \in {"popen", "dropread", "dropwrite"} => Live(s) = {}
  /\ r.pc \in {"upread", "upwrite"} => Live(s) \subseteq {r.pid}
  /\ r.pc \in {"after", "kill"} => Live(s) \subseteq {r.pid} /\ stateFile[s] = r.pid

LiveInv(s) ==
  s \notin astray =>
    /\ ~InHand(s) => Live(s) \subseteq {stateFile[s]}
    /\ \A t \in Request : runner[t].service = s =>
         Fit(runner[t], s) /\ \A u \in Request : runner[u].service = s => u = t

\* Another service's request is served.
LEMMA OtherService ==
  ASSUME NEW s \in Service, LiveInv(s), NEW t \in Request, NEW r, Moved(t, r),
         r.service # s, runner[t].service # s, astray \subseteq astray',
         s \notin astray' => Live(s)' \subseteq Live(s) /\ stateFile'[s] = stateFile[s]
  PROVE  LiveInv(s)'
<1>1. SUFFICES ASSUME s \notin astray' PROVE LiveInv(s)'
  BY DEF LiveInv
<1>2. \A u \in Request : /\ runner'[u].service = s <=> runner[u].service = s
                         /\ runner[u].service = s => runner'[u] = runner[u]
  BY DEF Moved
<1>3. InHand(s)' <=> InHand(s)
  BY <1>2 DEF InHand
<1>4. Live(s)' \subseteq Live(s) /\ stateFile'[s] = stateFile[s] /\ s \notin astray
  BY <1>1
<1>5. ASSUME NEW u \in Request, runner'[u].service = s PROVE Fit(runner[u], s)'
  <2>1. Fit(runner[u], s) /\ runner'[u] = runner[u]
    BY <1>2, <1>4, <1>5 DEF LiveInv
  <2> QED
    BY <1>4, <2>1 DEF Fit
<1> QED
  BY <1>2, <1>3, <1>4, <1>5 DEF LiveInv

\* The one request that has a service in hand goes on with it, or lets go of it.
LEMMA OwnService ==
  ASSUME NEW s \in Service, LiveInv(s), NEW t \in Request, runner[t].service = s,
         ServiceRunnerAssumption, NEW r, Moved(t, r), astray \subseteq astray',
         s \notin astray /\ Fit(runner[t], s) =>
           \/ r.service = s /\ \A q : q = r => Fit(q, s)'
           \/ r = NoRunner /\ Live(s)' \subseteq {stateFile'[s]}
  PROVE  LiveInv(s)'
<1>1. SUFFICES ASSUME s \notin astray' PROVE LiveInv(s)'
  BY DEF LiveInv
<1>2. s \notin astray /\ Fit(runner[t], s) /\ \A u \in Request : runner[u].service = s => u = t
  BY <1>1 DEF LiveInv
<1>3. \A u \in Request : runner'[u].service = s => u = t /\ runner'[u] = r
  BY <1>2 DEF Moved
<1>4. CASE r.service = s /\ \A q : q = r => Fit(q, s)'
  <2>1. InHand(s)'
    BY <1>4 DEF InHand, Moved
  <2>2. runner'[t] = r
    BY DEF Moved
  <2>3. Fit(runner[t], s)'
    BY <1>4, <2>2 DEF Fit
  <2> QED
    BY <1>3, <2>1, <2>3 DEF LiveInv
<1>5. CASE r = NoRunner /\ Live(s)' \subseteq {stateFile'[s]}
  <2>1. \A u \in Request : runner'[u].service # s
    BY <1>3, <1>5, NoRunnerOK DEF ServiceRunnerAssumption
  <2> QED
    BY <1>5, <2>1 DEF LiveInv
<1> QED
  BY <1>2, <1>4, <1>5

\* A step that moves one request, whatever it does to its own service.
LEMMA LiveStep ==
  ASSUME ServiceRunnerAssumption, TypeInv, \A s \in Service : LiveInv(s), NEW t \in Request,
         NEW w \in Service, runner[t].service = w, NEW r, Moved(t, r), r.service \in {w, None},
         astray \subseteq astray',
         \A s \in Service : s # w /\ s \notin astray' => Live(s)' \subseteq Live(s) /\ stateFile'[s] = stateFile[s],
         w \notin astray /\ Fit(runner[t], w) =>
           \/ r.service = w /\ \A q : q = r => Fit(q, w)'
           \/ r = NoRunner /\ Live(w)' \subseteq {stateFile'[w]}
  PROVE  \A s \in Service : LiveInv(s)'
<1>1. LiveInv(w)'
  BY OwnService
<1>2. ASSUME NEW s \in Service, s # w PROVE LiveInv(s)'
  <2>1. r.service # s
    BY <1>2 DEF ServiceRunnerAssumption
  <2> QED
    BY <1>2, <2>1, OtherService
<1> QED
  BY <1>1, <1>2

\* A process that is started is nobody else's.
LEMMA Born ==
  ASSUME ServiceRunnerAssumption, TypeInv, NEW p \in Pid, NEW what, Gives(p, what), stopped' = stopped
  PROVE  \A s \in Service : Live(s)' \subseteq (IF what = Child(s) THEN Live(s) \cup {p} ELSE Live(s))
BY DEF Gives, Live, TypeInv

\* A process that is gone or signalled is not alive.
LEMMA Fewer ==
  ASSUME NEW s, stopped \subseteq stopped', \A q \in Pid : process'[q] = process[q] \/ process'[q] = None, None # Child(s)
  PROVE  Live(s)' \subseteq Live(s)
BY DEF Live

LEMMA LiveServe ==
  ASSUME ServiceRunnerAssumption, TypeInv, \A s \in Service : LiveInv(s), NEW t \in Request, Serve(t)
  PROVE  \A s \in Service : LiveInv(s)'
<1>0. /\ NoRunner.pc = "idle" /\ NoRunner.service = None
      /\ \A s \in Service : Live(s) \subseteq Pid /\ None \notin Live(s)
  BY NoRunnerOK DEF Live, ServiceRunnerAssumption
<1>1. ASSUME NEW op \in {"start", "stop"}, NEW s \in Service, Come(t, op, s) PROVE \A x \in Service : LiveInv(x)'
  <2>1. PICK r : Moved(t, r) /\ r.pc = op /\ r.service = s /\ r.copy = runner[t].copy
    BY <1>1, Comes
  <2>2. /\ runner[t].service = None /\ UNCHANGED <<process, stateFile, stopped>>
        /\ astray' = IF InHand(s) THEN astray \cup {s} ELSE astray
    BY <1>1 DEF Come, TypeInv, RunnerOK
  <2>3. \A x \in Service : Live(x)' = Live(x) /\ x # None
    BY <2>2 DEF Live, ServiceRunnerAssumption
  <2>4. ASSUME NEW x \in Service, x # s PROVE LiveInv(x)'
    BY <2>1, <2>2, <2>3, <2>4, OtherService
  <2>5. LiveInv(s)'
    <3> SUFFICES ASSUME s \notin astray' PROVE LiveInv(s)'
      BY DEF LiveInv
    <3>1. ~InHand(s) /\ s \notin astray
      BY <2>2
    <3>2. Live(s) \subseteq {stateFile[s]} /\ \A u \in Request : runner[u].service # s
      BY <3>1 DEF LiveInv, InHand
    <3>3. \A u \in Request : runner'[u].service = s => u = t /\ runner'[u] = r
      BY <2>1, <3>2 DEF Moved
    <3>4. ASSUME NEW u \in Request, runner'[u].service = s PROVE Fit(runner[u], s)'
      BY <1>1, <2>1, <2>2, <2>3, <3>2, <3>3, <3>4 DEF Fit
    <3> QED
      BY <2>2, <2>3, <3>2, <3>3, <3>4 DEF LiveInv
  <2> QED
    BY <2>4, <2>5
<1> SUFFICES ASSUME runner[t].pc # "idle", ~\E op \in {"start", "stop"}, s \in Service : Come(t, op, s)
             PROVE  \A s \in Service : LiveInv(s)'
  BY <1>1 DEF Serve, Look, Popen, ReadState, WriteState, After, Stop, Kill
<1>2. PICK w \in Service : runner[t].service = w
  BY Serving
<1>3. CASE Look(t)
  <2>1. PICK r :
          /\ Moved(t, r) /\ UNCHANGED <<process, stateFile, served, histories>>
          /\ \/ r = NoRunner
             \/ /\ r.service = runner[t].service /\ r.copy = runner[t].copy
                /\ \/ r.pc = "popen" /\ stateFile[r.service] = None
                   \/ /\ r.pc = "dropread" /\ stateFile[r.service] # None
                      /\ process[stateFile[r.service]] = None
    BY <1>3, Looks
  <2>2. \A s \in Service : Live(s)' = Live(s)
    BY <2>1 DEF Live, histories
  <2>3. ASSUME Fit(runner[t], w)
        PROVE  \/ r.service = w /\ \A q : q = r => Fit(q, w)'
               \/ r = NoRunner /\ Live(w)' \subseteq {stateFile'[w]}
    <3>1. Live(w) \subseteq {stateFile[w]}
      BY <1>3, <2>3 DEF Fit, Look
    <3>2. r # NoRunner => Live(w) = {}
      BY <1>0, <1>2, <2>1, <3>1, OfNone DEF Live
    <3> QED
      BY <1>2, <2>1, <2>2, <3>1, <3>2 DEF Fit
  <2> QED
    BY <1>0, <1>2, <2>1, <2>2, <2>3, LiveStep DEF histories
<1>4. CASE Popen(t)
  <2>1. PICK r :
          /\ Moved(t, r) /\ UNCHANGED <<stateFile, served, stopped, astray>>
          /\ \/ r = NoRunner /\ UNCHANGED <<process, recycled>>
             \/ /\ r.service = runner[t].service /\ r.copy = runner[t].copy /\ r.pc = "upread"
                /\ r.pid \in Pid /\ Gives(r.pid, Child(r.service))
    BY <1>4, Popens
  <2>2. \A s \in Service : s # w => Live(s)' \subseteq Live(s)
    <3>1. CASE UNCHANGED process
      BY <2>1, <3>1 DEF Live
    <3>2. CASE r.service = runner[t].service /\ r.pid \in Pid /\ Gives(r.pid, Child(r.service))
      <4>1. \A s \in Service : s # w => Child(w) # Child(s)
        BY OfNone
      <4> QED
        BY <1>2, <2>1, <3>2, <4>1, Born
    <3> QED
      BY <2>1, <3>1, <3>2
  <2>3. ASSUME Fit(runner[t], w)
        PROVE  \/ r.service = w /\ \A q : q = r => Fit(q, w)'
               \/ r = NoRunner /\ Live(w)' \subseteq {stateFile'[w]}
    <3>1. Live(w) = {}
      BY <1>4, <2>3 DEF Fit, Popen
    <3>2. CASE r = NoRunner /\ UNCHANGED <<process, recycled>>
      BY <2>1, <3>1, <3>2 DEF Live
    <3>3. CASE r.service = runner[t].service /\ r.pc = "upread" /\ r.pid \in Pid /\ Gives(r.pid, Child(r.service))
      <4>1. Live(w)' \subseteq {r.pid}
        BY <1>2, <2>1, <3>1, <3>3, Born
      <4> QED
        BY <1>2, <3>3, <4>1 DEF Fit
    <3> QED
      BY <2>1, <3>2, <3>3
  <2> QED
    BY <1>0, <1>2, <2>1, <2>2, <2>3, LiveStep
<1>5. CASE ReadState(t)
  <2>1. PICK r : /\ Moved(t, r) /\ r.pc = (IF runner[t].pc = "upread" THEN "upwrite" ELSE "dropwrite")
                 /\ r.pid = runner[t].pid /\ r.service = runner[t].service /\ r.copy = stateFile
    BY <1>5, Reads
  <2>2. stateFile' = stateFile /\ astray' = astray /\ \A s \in Service : Live(s)' = Live(s)
    BY <1>5 DEF ReadState, Live, histories
  <2>3. ASSUME Fit(runner[t], w) PROVE r.service = w /\ \A q : q = r => Fit(q, w)'
    BY <1>2, <1>5, <2>1, <2>2, <2>3 DEF Fit, ReadState
  <2> QED
    BY <1>2, <2>1, <2>2, <2>3, LiveStep
<1>6. CASE WriteState(t)
  <2>1. PICK r : /\ Moved(t, r) /\ r.copy = [s \in Service |-> None]
                 /\ \/ runner[t].pc = "upwrite" /\ r.pc = "after" /\ r.service = runner[t].service
                                                /\ r.pid = runner[t].pid
                    \/ runner[t].pc = "dropwrite" /\ r = NoRunner
                    \/ runner[t].pc = "dropwrite" /\ r.pc = "popen" /\ r.service = runner[t].service
    BY <1>6, Writes
  <2>2. \A s \in Service : stateFile'[s] =
          IF s # w THEN runner[t].copy[s] ELSE IF runner[t].pc = "upwrite" THEN runner[t].pid ELSE None
    BY <1>2, <1>6, Writes
  <2>3. /\ \A s \in Service : Live(s)' = Live(s)
        /\ astray' = astray \cup {s \in Service \ {w} : stateFile[s] # runner[t].copy[s]}
    BY <1>2, <1>6 DEF WriteState, Live
  <2>4. \A s \in Service : s # w /\ s \notin astray' => stateFile'[s] = stateFile[s]
    BY <2>2, <2>3
  <2>5. ASSUME Fit(runner[t], w)
        PROVE  \/ r.service = w /\ \A q : q = r => Fit(q, w)'
               \/ r = NoRunner /\ Live(w)' \subseteq {stateFile'[w]}
    BY <1>2, <2>1, <2>2, <2>3, <2>5 DEF Fit
  <2> QED
    BY <1>0, <1>2, <2>1, <2>3, <2>4, <2>5, LiveStep
<1>7. CASE After(t)
  <2>1. PICK r :
          /\ Moved(t, r) /\ UNCHANGED <<stateFile, served, histories>>
          /\ \/ r = NoRunner
             \/ /\ r.service = runner[t].service /\ r.copy = runner[t].copy /\ r.pc = "dropread"
                /\ process[runner[t].pid] = Zombie(r.service)
          /\ process' = IF process[runner[t].pid] = Zombie(runner[t].service)
                        THEN [process EXCEPT ![runner[t].pid] = None] ELSE process
    BY <1>7, Afters
  <2>2. \A s \in Service : Live(s)' \subseteq Live(s)
    <3>1. \A q \in Pid : process'[q] = process[q] \/ process'[q] = None
      BY <2>1 DEF TypeInv
    <3> QED
      BY <2>1, <3>1, Fewer, OfNone DEF histories
  <2>3. ASSUME Fit(runner[t], w)
        PROVE  \/ r.service = w /\ \A q : q = r => Fit(q, w)'
               \/ r = NoRunner /\ Live(w)' \subseteq {stateFile'[w]}
    <3>1. Live(w) \subseteq {runner[t].pid} /\ stateFile[w] = runner[t].pid
      BY <1>7, <2>3 DEF Fit, After
    <3>2. CASE r = NoRunner
      BY <2>1, <2>2, <3>1, <3>2
    <3>3. CASE r # NoRunner
      <4>1. process[runner[t].pid] = Zombie(w) /\ Zombie(w) # Child(w)
        BY <1>2, <2>1, <3>3 DEF Zombie, Child
      <4>2. Live(w) = {}
        BY <3>1, <4>1 DEF Live
      <4> QED
        BY <1>2, <2>1, <2>2, <3>3, <4>2 DEF Fit
    <3> QED
      BY <3>2, <3>3
  <2> QED
    BY <1>0, <1>2, <2>1, <2>2, <2>3, LiveStep DEF histories
<1>8. CASE Stop(t)
  <2>1. PICK r :
          /\ Moved(t, r) /\ UNCHANGED <<process, stateFile, served, histories>>
          /\ \/ r = NoRunner
             \/ /\ r.service = runner[t].service /\ r.copy = runner[t].copy /\ stateFile[r.service] # None
                /\ \/ r.pc = "dropread" /\ process[stateFile[r.service]] = None
                   \/ r.pc = "kill" /\ r.pid = stateFile[r.service]
    BY <1>8, Stops
  <2>2. \A s \in Service : Live(s)' = Live(s)
    BY <2>1 DEF Live, histories
  <2>3. ASSUME Fit(runner[t], w)
        PROVE  \/ r.service = w /\ \A q : q = r => Fit(q, w)'
               \/ r = NoRunner /\ Live(w)' \subseteq {stateFile'[w]}
    <3>1. Live(w) \subseteq {stateFile[w]}
      BY <1>8, <2>3 DEF Fit, Stop
    <3>2. process[stateFile[w]] = None => Live(w) = {}
      BY <3>1, OfNone DEF Live
    <3> QED
      BY <1>2, <2>1, <2>2, <3>1, <3>2 DEF Fit
  <2> QED
    BY <1>0, <1>2, <2>1, <2>2, <2>3, LiveStep DEF histories
<1>9. CASE Kill(t)
  <2>1. PICK r :
          /\ Moved(t, r) /\ UNCHANGED <<process, stateFile, served, recycled, astray>>
          /\ \/ r = NoRunner /\ UNCHANGED stopped
             \/ /\ r.service = runner[t].service /\ r.copy = runner[t].copy /\ r.pc = "dropread"
                /\ stopped' = stopped \cup {runner[t].pid}
    BY <1>9, Kills
  <2>2. \A s \in Service : Live(s)' \subseteq Live(s)
    BY <2>1 DEF Live
  <2>3. ASSUME Fit(runner[t], w)
        PROVE  \/ r.service = w /\ \A q : q = r => Fit(q, w)'
               \/ r = NoRunner /\ Live(w)' \subseteq {stateFile'[w]}
    <3>1. Live(w) \subseteq {runner[t].pid} /\ stateFile[w] = runner[t].pid
      BY <1>9, <2>3 DEF Fit, Kill
    <3>2. r # NoRunner => Live(w)' = {}
      BY <2>1, <2>2, <3>1 DEF Live
    <3> QED
      BY <1>2, <2>1, <2>2, <3>1, <3>2 DEF Fit
  <2> QED
    BY <1>0, <1>2, <2>1, <2>2, <2>3, LiveStep
<1> QED
  BY <1>3, <1>4, <1>5, <1>6, <1>7, <1>8, <1>9 DEF Serve

\* The system starts no service.
LEMMA LiveSystem ==
  ASSUME ServiceRunnerAssumption, TypeInv, \A s \in Service : LiveInv(s), NEW p \in Pid,
         Ends(p) \/ Reap(p) \/ SomethingElse(p)
  PROVE  \A s \in Service : LiveInv(s)'
<1>1. UNCHANGED <<stateFile, runner, astray>>
  BY TypeSystem
<1>2. \A s \in Service : Live(s)' \subseteq Live(s)
  <2>1. CASE Ends(p)
    <3>1. /\ stopped' = stopped \ {p} /\ \A q \in Pid : q # p => process'[q] = process[q]
          /\ process'[p] = None \/ process'[p] = Zombie(process[p].of)
      BY <2>1 DEF Ends, TypeInv
    <3>2. \A s \in Service : process'[p] # Child(s)
      BY <3>1, OfNone DEF Zombie, Child
    <3> QED
      BY <3>1, <3>2 DEF Live
  <2>2. CASE Reap(p)
    <3>1. stopped' = stopped /\ \A q \in Pid : process'[q] = process[q] \/ process'[q] = None
      BY <2>2 DEF Reap, TypeInv, histories
    <3> QED
      BY <3>1, Fewer, OfNone
  <2>3. CASE SomethingElse(p)
    <3>1. \A s \in Service : Foreign # Child(s)
      BY DEF Foreign, Child
    <3> QED
      BY <2>3, <3>1, Born DEF SomethingElse
  <2> QED
    BY <2>1, <2>2, <2>3
<1>3. ASSUME NEW s \in Service, s \notin astray, NEW u \in Request, Fit(runner[u], s) PROVE Fit(runner[u], s)'
  BY <1>1, <1>2, <1>3 DEF Fit
<1> QED
  BY <1>1, <1>2, <1>3 DEF LiveInv, InHand

\* For any number of services and requests: the live process of a service is the one
\* that its record names, when no request has the service in hand; but for the services
\* that two had in hand, whose record another's write undid, or whose request was cut off.
THEOREM OneRecordedProcess ==
  ASSUME ServiceRunnerAssumption PROVE Spec => []LiveIsRecorded
<1> DEFINE Inv == TypeInv /\ \A s \in Service : LiveInv(s)
<1>1. Init => Inv
  <2> SUFFICES ASSUME Init PROVE Inv
    OBVIOUS
  <2>1. \A s \in Service : Live(s) = {} /\ \A t \in Request : runner[t].service # s
    BY NoRunnerOK, OfNone DEF Init, Live, ServiceRunnerAssumption
  <2> QED
    BY <2>1, TypeInit DEF LiveInv
<1>2. Inv /\ [Next]_runnerVars => Inv'
  <2> SUFFICES ASSUME TypeInv, \A s \in Service : LiveInv(s), [Next]_runnerVars
               PROVE  TypeInv' /\ \A s \in Service : LiveInv(s)'
    OBVIOUS
  <2>1. TypeInv'
    BY TypeStep
  <2>2. ASSUME Restart, NEW s \in Service PROVE LiveInv(s)'
    <3>1. /\ \A t \in Request : runner'[t].service # s
          /\ astray' = astray \cup {x \in Service : InHand(x)} /\ stateFile' = stateFile /\ Live(s)' = Live(s)
      BY <2>2, NoRunnerOK DEF Restart, Live, ServiceRunnerAssumption
    <3> QED
      BY <3>1 DEF LiveInv
  <2>3. ASSUME UNCHANGED runnerVars, NEW s \in Service PROVE LiveInv(s)'
    <3>1. UNCHANGED <<stateFile, runner, astray>> /\ Live(s)' = Live(s)
      BY <2>3 DEF runnerVars, Live
    <3> QED
      BY <3>1 DEF LiveInv, InHand, Fit
  <2> QED
    BY <2>1, <2>2, <2>3, LiveServe, LiveSystem DEF Next
<1>3. Inv => LiveIsRecorded
  BY DEF LiveInv, LiveIsRecorded
<1> QED
  BY <1>1, <1>2, <1>3, PTL DEF Spec
=============================================================================
