--------------------------- MODULE ServiceRunner ---------------------------
(***************************************************************************)
(* The supervisor of source services (services/source_service_supervisor)  *)
(* behind the routes start-runner and stop-runner of api/routes/modules:   *)
(* it starts the process of a service, records its pid in one JSON file    *)
(* for all services, and stops what is recorded.                           *)
(*                                                                         *)
(* Requests run in threads of their own and take no lock.  The file is     *)
(* read and written whole, in two steps; copy is what a request carries    *)
(* from the one to the other.  A pid belongs to one process at a time and  *)
(* may be given again.  As on POSIX, a child that has ended keeps its pid, *)
(* and answers signals, until it is reaped.  Commands, environments, logs  *)
(* and the texts of the probes are left out.                               *)
(***************************************************************************)
EXTENDS Naturals, FiniteSets

CONSTANTS
  Service,        \* source services with a registered runner
  Request,        \* threads of the request pool
  Pid,            \* process ids
  None,           \* no process, no record, no service
  MaxServed       \* bound on requests

Process == [kind : {"service", "foreign", "zombie"}, of : Service \cup {None}]

ServiceRunnerAssumption == None \notin Pid \cup Service \cup Process /\ MaxServed \in Nat

VARIABLES
  process,        \* [Pid -> Process \cup {None}]
  stateFile,      \* [Service -> Pid \cup {None}]: the records
  runner,         \* the requests
  served,         \* requests so far
  stopped,        \* history: pids that were sent SIGTERM and have not ended
  recycled,       \* history: pids given again while something named them
  astray          \* history: services that two requests had in hand at a time, or
                  \* whose record another's write undid, or whose request was cut off

runnerVars == <<process, stateFile, runner, served, stopped, recycled, astray>>
histories == <<stopped, recycled, astray>>

Foreign == [kind |-> "foreign", of |-> None]
Zombie(s) == [kind |-> "zombie", of |-> s]
Child(s) == [kind |-> "service", of |-> s]

NoRunner == [pc |-> "idle", service |-> None, pid |-> None,
             copy |-> [s \in Service |-> None], then |-> "idle"]

Init ==
  /\ process = [p \in Pid |-> None]
  /\ stateFile = [s \in Service |-> None]
  /\ runner = [t \in Request |-> NoRunner]
  /\ served = 0
  /\ stopped = {} /\ recycled = {} /\ astray = {}

Goto(t, pc) == runner' = [runner EXCEPT ![t].pc = pc]
Drop(t, then) == runner' = [runner EXCEPT ![t].pc = "dropread", ![t].then = then]
Return(t) == runner' = [runner EXCEPT ![t] = NoRunner]
InHand(s) == \E t \in Request : runner[t].service = s

\* The child of a request that waits for it.
Awaited(p) == \E t \in Request : runner[t].pid = p /\ runner[t].pc \in {"upread", "upwrite", "after"}

-----------------------------------------------------------------------------
(* The system                                                               *)

\* A process ends; one that this very backend has started stays as a zombie.
Ends(p) ==
  /\ process[p] # None /\ process[p].kind # "zombie"
  /\ \/ ~Awaited(p) /\ process' = [process EXCEPT ![p] = None]
     \/ process[p].kind = "service" /\ process' = [process EXCEPT ![p] = Zombie(process[p].of)]
  /\ stopped' = stopped \ {p}
  /\ UNCHANGED <<stateFile, runner, served, recycled, astray>>

\* The next Popen of the backend, whatever it is for, reaps a zombie.
Reap(p) ==
  /\ process[p] # None /\ process[p].kind = "zombie" /\ ~Awaited(p)
  /\ process' = [process EXCEPT ![p] = None]
  /\ UNCHANGED <<stateFile, runner, served, histories>>

\* A record names a pid, or will, or a stop is about to signal it.
Named(p) == \/ \E s \in Service : stateFile[s] = p \/ \E t \in Request : runner[t].copy[s] = p
            \/ \E t \in Request : runner[t].pc = "kill" /\ runner[t].pid = p

Gives(p, what) ==
  /\ process[p] = None
  /\ process' = [process EXCEPT ![p] = what]
  /\ recycled' = IF Named(p) THEN recycled \cup {p} ELSE recycled

SomethingElse(p) ==
  /\ Gives(p, Foreign)
  /\ UNCHANGED <<stateFile, runner, served, stopped, astray>>

\* The backend dies and comes back; the services live on.
Restart ==
  /\ \E t \in Request : runner[t].pc # "idle"
  /\ astray' = astray \cup {s \in Service : InHand(s)}
  /\ runner' = [t \in Request |-> NoRunner]
  /\ UNCHANGED <<process, stateFile, served, stopped, recycled>>

-----------------------------------------------------------------------------
(* Requests                                                                 *)

Come(t, op, s) ==
  /\ runner[t].pc = "idle" /\ served < MaxServed
  /\ served' = served + 1
  /\ runner' = [runner EXCEPT ![t].pc = op, ![t].service = s]
  /\ astray' = IF InHand(s) THEN astray \cup {s} ELSE astray
  /\ UNCHANGED <<process, stateFile, stopped, recycled>>

\* Mutant: a record is enough to think that the service runs no longer.
Look_NotAlive(t) ==
  /\ runner[t].pc = "start"
  /\ \/ Return(t)
     \/ IF stateFile[runner[t].service] = None THEN Goto(t, "popen") ELSE Drop(t, "popen")
  /\ UNCHANGED <<process, stateFile, served, histories>>

\* A service that answers already, or may not be started, ends the request, and so
\* does a record whose pid is alive; the record of a dead one is dropped.
Look(t) ==
  LET p == stateFile[runner[t].service] IN
  /\ runner[t].pc = "start"
  /\ \/ Return(t)
     \/ p = None /\ Goto(t, "popen")
     \/ p # None /\ process[p] = None /\ Drop(t, "popen")
  /\ UNCHANGED <<process, stateFile, served, histories>>

\* Popen fails, or there is a process.
Popen(t) ==
  /\ runner[t].pc = "popen"
  /\ \/ Return(t) /\ UNCHANGED <<process, recycled>>
     \/ \E p \in Pid : /\ Gives(p, Child(runner[t].service))
                       /\ runner' = [runner EXCEPT ![t].pid = p, ![t].pc = "upread"]
  /\ UNCHANGED <<stateFile, served, stopped, astray>>

\* _upsert_process_state and _remove_process_state: read it all,
ReadState(t) ==
  /\ runner[t].pc \in {"upread", "dropread"}
  /\ runner' = [runner EXCEPT ![t].copy = stateFile,
                              ![t].pc = IF @ = "upread" THEN "upwrite" ELSE "dropwrite"]
  /\ UNCHANGED <<process, stateFile, served, histories>>

\* and write it all.  What others have written in between is undone.
WriteState(t) ==
  LET s == runner[t].service IN
  /\ runner[t].pc \in {"upwrite", "dropwrite"}
  /\ stateFile' = [runner[t].copy EXCEPT ![s] = IF runner[t].pc = "upwrite" THEN runner[t].pid ELSE None]
  /\ astray' = astray \cup {r \in Service \ {s} : stateFile[r] # runner[t].copy[r]}
  /\ IF runner[t].pc = "upwrite" THEN runner' = [runner EXCEPT ![t].pc = "after", ![t].copy = NoRunner.copy]
     ELSE IF runner[t].then = "idle" THEN Return(t)
     ELSE runner' = [runner EXCEPT ![t].pc = runner[t].then, ![t].copy = NoRunner.copy]
  /\ UNCHANGED <<process, served, stopped, recycled>>

\* _probe_after_start: a process that has ended, with nobody answering for it, loses
\* its record; poll reaps it.
After(t) ==
  LET p == runner[t].pid   gone == process[p] = Zombie(runner[t].service) IN
  /\ runner[t].pc = "after"
  /\ Return(t) \/ (gone /\ Drop(t, "idle"))
  /\ process' = IF gone THEN [process EXCEPT ![p] = None] ELSE process
  /\ UNCHANGED <<stateFile, served, histories>>

\* Mutant: the first record that is found is the one.
Stop_AnyRecord(t) ==
  \E s \in Service : LET p == stateFile[s] IN
    /\ runner[t].pc = "stop"
    /\ IF p = None THEN Return(t)
       ELSE IF process[p] = None THEN Drop(t, "idle")
       ELSE runner' = [runner EXCEPT ![t].pid = p, ![t].pc = "kill"]
    /\ UNCHANGED <<process, stateFile, served, histories>>

\* stop_source_service_runner: nothing recorded, or nothing alive, or SIGTERM next.
Stop(t) ==
  LET p == stateFile[runner[t].service] IN
  /\ runner[t].pc = "stop"
  /\ IF p = None THEN Return(t)
     ELSE IF process[p] = None THEN Drop(t, "idle")
     ELSE runner' = [runner EXCEPT ![t].pid = p, ![t].pc = "kill"]
  /\ UNCHANGED <<process, stateFile, served, histories>>

\* os.kill: the process is gone by now or not ours to signal (OSError: the record
\* stays), or it gets the signal and ends in its own time.
Kill(t) ==
  LET p == runner[t].pid IN
  /\ runner[t].pc = "kill"
  /\ \/ /\ process[p] \in {None, Foreign}
        /\ Return(t) /\ UNCHANGED stopped
     \/ process[p] # None /\ stopped' = stopped \cup {p} /\ Drop(t, "idle")
  /\ UNCHANGED <<process, stateFile, served, recycled, astray>>

Serve(t) ==
  \/ \E op \in {"start", "stop"}, s \in Service : Come(t, op, s)
  \/ Look(t) \/ Popen(t) \/ ReadState(t) \/ WriteState(t) \/ After(t) \/ Stop(t) \/ Kill(t)

Next ==
  \/ \E t \in Request : Serve(t)
  \/ \E p \in Pid : Ends(p) \/ Reap(p) \/ SomethingElse(p)
  \/ Restart
Spec == Init /\ [][Next]_runnerVars

-----------------------------------------------------------------------------
(* Properties                                                               *)

\* Variables keep their types; who writes a record knows a pid.
TypeOK ==
  /\ process \in [Pid -> Process \cup {None}]
  /\ stateFile \in [Service -> Pid \cup {None}]
  /\ runner \in [Request -> [pc : {"idle", "start", "stop", "popen", "upread", "upwrite", "dropread",
                                   "dropwrite", "after", "kill"},
                             service : Service \cup {None}, pid : Pid \cup {None},
                             copy : [Service -> Pid \cup {None}], then : {"idle", "popen"}]]
  /\ served \in 0..MaxServed
  /\ stopped \subseteq Pid /\ recycled \subseteq Pid /\ astray \subseteq Service
  /\ \A t \in Request : /\ runner[t].pc # "idle" => runner[t].service # None
                        /\ runner[t].pc \in {"upread", "upwrite", "after", "kill"} =>
                             runner[t].pid # None

\* The live processes of a service that no stop has been sent to.
Live(s) == {p \in Pid \ stopped : process[p] = Child(s)}

\* A service has one process, and the record that lets it be stopped names it, when
\* no request has it in hand; but for services that have gone astray.
\* (start_source_service_runner, _active_state, _upsert_process_state)
LiveIsRecorded ==
  \A s \in Service \ astray : ~InHand(s) => Live(s) \subseteq {stateFile[s]}

\* "Terminate only a PID previously started by this supervisor", and for this very
\* service, whatever else the records have been through, unless the pid was given
\* again while the record, or the stop, named it.  (stop_source_service_runner)
StopHitsItsOwn ==
  [][\A t \in Request :
       runner[t].pc = "kill" /\ runner'[t].pc = "dropread" =>
         process[runner[t].pid].of = runner[t].service \/ runner[t].pid \in recycled]_runnerVars
=============================================================================
