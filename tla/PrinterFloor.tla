---------------------------- MODULE PrinterFloor ----------------------------
(***************************************************************************)
(* The printers, what lies on their build plates, and the requests that    *)
(* start prints on them: the upload-gcode route of api/routes/printers.py  *)
(* with start=True, and the build-plate clearance of                       *)
(* services/local_state.py behind it and behind the observe routes.        *)
(*                                                                         *)
(* A request runs in a thread of its own.  Telemetry is read over HTTP,    *)
(* and every SQL statement is a transaction of its own (_common.execute):  *)
(* each of these is a step, and what a request has read it carries along   *)
(* in at[t].  Requests that are refused before they read anything (a       *)
(* locked printer, no approval, a bad file) change nothing and are left    *)
(* out; so are the prints' contents.  The approval that a start needs is   *)
(* only ever read here: somebody else has to put it into the table.        *)
(***************************************************************************)
EXTENDS Naturals, Sequences, SequencesExt

CONSTANTS
  Fleet,          \* the printers, in the order of the configuration
  Locked,         \* those under the maintenance lock (the S1)
  File,           \* names of G-code files on the printers
  Request,        \* threads of the request pool
  Route,          \* what they are asked for
  Known,          \* printers that have a clearance row at the start
  Reprint,        \* TRUE: a file may be printed more than once
  None,           \* Python's None
  Absent,         \* no row
  MaxPrints,      \* bound on prints begun on a printer
  MaxRequests,    \* bound on requests
  MaxFaults       \* bound on answers that do not come

Printer == Range(Fleet)

\* A row of the table build_plate_clearance.
Row == [state : {"clear", "needs_clearance", "locked"}, last : File \cup {None}]

FloorAssumption ==
  /\ Fleet \in Seq(Printer) /\ Locked \subseteq Printer /\ Known \subseteq Printer
  /\ None \notin File
  /\ Absent \notin Row
  /\ Reprint \in BOOLEAN
  /\ MaxPrints \in Nat /\ MaxRequests \in Nat /\ MaxFaults \in Nat

VARIABLES
  machine,        \* [Printer -> Machine]: what a printer answers when it is asked
  plate,          \* [Printer -> Plate]: what really lies on it
  log,            \* history: the files whose prints have begun on each printer
  row,            \* the table build_plate_clearance
  note,           \* printers with an ACTION_REQUIRED notification not dismissed
  crossed,        \* history: printers flagged while an operator's mark went on to
                  \* dismiss the notification of the flag
  late,           \* history: printers marked clear by a mark that a print's end overtook
  early,          \* history: printers whose first row names a print that was under way,
                  \* or was written over another request's row
  at,             \* the request threads
  requests,       \* requests so far
  faults          \* answers lost so far

world == <<machine, plate, log>>
table == <<row, note, crossed, late, early>>
floorVars == <<machine, plate, log, row, note, crossed, late, early, at, requests, faults>>

\* print_stats.state, print_stats.filename and whether virtual_sdcard.progress
\* has reached 99.5 %.  "paused" and "error" are like "printing" and "cancelled"
\* to every check of the code.
Machine == [state : {"standby", "printing", "complete", "cancelled"},
            file : File \cup {None}, high : BOOLEAN]
Plate == {"empty", "partial", "complete"}

\* What _moonraker_snapshot keeps: current_job and whether progress >= 99.5.
View == [job : File \cup {None}, high : BOOLEAN]
Blind == [job |-> None, high |-> FALSE]

\* IDLE_PRINT_STATES.
Idle(p) == machine[p].state \in {"standby", "complete"}

NoRequest == [op |-> "none", pc |-> "idle", printer |-> None,
              view |-> [p \in Printer |-> Blind], seen |-> Absent, todo |-> {},
              saw |-> FALSE, overtaken |-> FALSE]

Init ==
  /\ machine = [p \in Printer |-> [state |-> "standby", file |-> None, high |-> FALSE]]
  /\ plate = [p \in Printer |-> "empty"]
  /\ log = [p \in Printer |-> << >>]
  /\ row = [p \in Printer |-> IF p \notin Known THEN Absent
              ELSE [state |-> IF p \in Locked THEN "locked" ELSE "clear", last |-> None]]
  /\ note = {}
  /\ crossed = {} /\ late = {} /\ early = {}
  /\ at = [t \in Request |-> NoRequest]
  /\ requests = 0
  /\ faults = 0

Set(t, r) == at' = [at EXCEPT ![t] = r]
Goto(t, pc) == at' = [at EXCEPT ![t].pc = pc]
Return(t) == Set(t, NoRequest)

\* An answer comes, or it does not and is counted.
Answered == faults' = faults
Lost == faults < MaxFaults /\ faults' = faults + 1

-----------------------------------------------------------------------------
(* The printers and the people beside them.                                 *)

\* A printer takes a start command unless it is printing.
Begins(p, f) ==
  /\ machine[p].state # "printing"
  /\ Len(log[p]) < MaxPrints
  /\ Reprint \/ f \notin Range(log[p])
  /\ machine' = [machine EXCEPT ![p] = [state |-> "printing", file |-> f, high |-> FALSE]]
  /\ plate' = [plate EXCEPT ![p] = "partial"]
  /\ log' = [log EXCEPT ![p] = Append(@, f)]

\* A print is started from the printer's own page, or by the print workflow,
\* which does not look at the clearance.
StartElsewhere(p, f) == Begins(p, f) /\ UNCHANGED <<table, at, requests, faults>>

Progress(p) ==
  /\ machine[p].state = "printing" /\ ~machine[p].high
  /\ machine' = [machine EXCEPT ![p].high = TRUE]
  /\ UNCHANGED <<plate, log, table, at, requests, faults>>

\* The file name and the progress stay on display.  The requests that have read
\* the printer's telemetry before are overtaken (history).
Complete(p) ==
  /\ machine[p].state = "printing" /\ machine[p].high
  /\ machine' = [machine EXCEPT ![p].state = "complete"]
  /\ plate' = [plate EXCEPT ![p] = "complete"]
  /\ at' = [t \in Request |-> [at[t] EXCEPT !.overtaken =
                                @ \/ (at[t].op \in {"start", "clear"} /\ at[t].printer = p)]]
  /\ UNCHANGED <<log, table, requests, faults>>

Cancel(p) ==
  /\ machine[p].state = "printing"
  /\ machine' = [machine EXCEPT ![p].state = "cancelled", ![p].high = FALSE]
  /\ UNCHANGED <<plate, log, table, at, requests, faults>>

TakeOff(p) ==
  /\ machine[p].state # "printing" /\ plate[p] # "empty"
  /\ plate' = [plate EXCEPT ![p] = "empty"]
  /\ UNCHANGED <<machine, log, table, at, requests, faults>>

\* The display is cleared by somebody who has taken a finished part off before.
ResetFile(p) ==
  /\ machine[p].state # "printing" /\ machine[p].file # None
  /\ plate[p] # "complete"
  /\ machine' = [machine EXCEPT ![p] = [state |-> "standby", file |-> None, high |-> FALSE]]
  /\ UNCHANGED <<plate, log, table, at, requests, faults>>

-----------------------------------------------------------------------------
(* local_state.py: telemetry, and the table that is brought up to date.     *)

\* _moonraker_snapshots: of a locked or silent printer nothing is known.
Telemetry(silent) ==
  [p \in Printer |-> IF p \in Locked \cup silent THEN Blind
                     ELSE [job |-> machine[p].file, high |-> machine[p].high]]

Completed(v) == v.job # None /\ v.high

\* A request comes in and reads the telemetry: a print is to be started, the
\* plates are asked for (for the cameras without telemetry), or an operator, who
\* is looking at the plate, says that it is clear.
Ask(t, op, p) ==
  /\ at[t].pc = "idle" /\ requests < MaxRequests /\ op \in Route
  /\ requests' = requests + 1
  /\ op = "start" => p \notin Locked
  /\ op = "clear" => plate[p] = "empty"
  /\ \E silent \in {{}, Printer} :
       /\ IF op = "cameras" THEN silent = Printer /\ Answered
          ELSE IF silent = {} THEN Answered ELSE Lost
       /\ Set(t, [NoRequest EXCEPT !.op = op, !.printer = p,
                                   !.view = Telemetry(silent),
                                   !.pc = IF op = "clear" THEN "mark" ELSE "rows"])
  /\ UNCHANGED <<world, table>>

\* Mutant: a plate is flagged again only if its row is not clear.
ToFlag_StateOnly(v, r) == Completed(v) /\ (r = Absent \/ r.state # "clear")

\* A completed print that the row does not call cleared.
ToFlag(v, r) == Completed(v) /\ (r = Absent \/ r.last # v.job \/ r.state # "clear")

\* Mutant: one round of the loop too many.
Continue_OneMore(t, r) == Set(t, [r EXCEPT !.pc = "write"])

\* saw: the telemetry of the check has come (history).
\* The request with the rest of its upserts before it; after the last of them
\* assert_build_plate_clear looks at the row of the printer in the result.
Continue(t, r) ==
  Set(t, IF r.todo # {} THEN [r EXCEPT !.pc = "write"]
         ELSE IF r.op = "start" /\ r.seen.state # "needs_clearance"
              THEN [NoRequest EXCEPT !.op = "start", !.pc = "idle1", !.printer = r.printer,
                                     !.saw = r.view[r.printer] # Blind,
                                     !.overtaken = r.overtaken]
              ELSE NoRequest)

\* build_plate_clearance_rows: SELECT, which decides what is written for whom: a
\* flag, or a first row for a printer that has none.
ReadRows(t) ==
  /\ at[t].pc = "rows"
  /\ Continue(t, [at[t] EXCEPT
       !.todo = {p \in Printer : ToFlag(at[t].view[p], row[p])
                                   \/ (row[p] = Absent /\ ~Completed(at[t].view[p]))},
       !.seen = IF at[t].op = "start" THEN row[at[t].printer] ELSE Absent])
  /\ UNCHANGED <<world, table, requests, faults>>

\* The printer whose turn it is in a loop over the fleet with todo left.
Turn(todo, p) ==
  \E i \in DOMAIN Fleet : /\ p = Fleet[i] /\ p \in todo
                         /\ \A k \in 1..(i - 1) : Fleet[k] \notin todo

\* The upserts, one by one, each with what the request believes.
Upsert(t) ==
  /\ at[t].pc = "write"
  /\ \E p \in Printer : LET v == at[t].view[p] IN
     /\ Turn(at[t].todo, p)
     /\ row' = [row EXCEPT ![p] =
               [state |-> IF Completed(v) THEN "needs_clearance"
                          ELSE IF p \in Locked THEN "locked" ELSE "clear",
                last |-> v.job]]
     /\ early' = IF Completed(v) \/ (v.job = None /\ row[p] = Absent) THEN early ELSE early \cup {p}
  /\ Goto(t, "back")
  /\ UNCHANGED <<world, note, crossed, late, requests, faults>>

\* Mutant: only the page that shows the plates asks somebody to look at them.
ReadBack_PlatesOnly(t) ==
  /\ at[t].pc = "back"
  /\ \E p \in Printer :
     /\ Turn(at[t].todo, p)
     /\ note' = IF Completed(at[t].view[p]) /\ at[t].op = "plates" THEN note \cup {p} ELSE note
     /\ Continue(t, [at[t] EXCEPT !.todo = @ \ {p},
                                  !.seen = IF p = at[t].printer THEN row[p] ELSE @])
  /\ UNCHANGED <<world, row, crossed, late, early, requests, faults>>

\* Each upsert is read back, for the result, and _ensure_plate_notification looks
\* after the notification of a flagged plate.
ReadBack(t) ==
  /\ at[t].pc = "back"
  /\ \E p \in Printer :
     /\ Turn(at[t].todo, p)
     /\ note' = IF Completed(at[t].view[p]) THEN note \cup {p} ELSE note
     /\ Continue(t, [at[t] EXCEPT !.todo = @ \ {p},
                                  !.seen = IF p = at[t].printer THEN row[p] ELSE @])
  /\ UNCHANGED <<world, row, crossed, late, early, requests, faults>>

\* mark_build_plate_clear: the upsert, then the notification is dismissed.  A
\* mark that is overtaken overtakes the checks on its printer (history).
MarkClear(t) ==
  LET p == at[t].printer IN
  /\ at[t].pc = "mark"
  /\ row' = [row EXCEPT ![p] = [state |-> "clear", last |-> at[t].view[p].job]]
  /\ at' = [q \in Request |->
              IF q = t THEN [at[q] EXCEPT !.pc = "dismiss"]
              ELSE [at[q] EXCEPT !.overtaken = @ \/ (at[t].overtaken /\ at[q].printer = p)]]
  /\ late' = IF at[t].overtaken THEN late \cup {p} ELSE late
  /\ UNCHANGED <<world, note, crossed, early, requests, faults>>

Dismiss(t) ==
  /\ at[t].pc = "dismiss"
  /\ note' = note \ {at[t].printer}
  /\ crossed' = IF row[at[t].printer].state = "clear" THEN crossed
                ELSE crossed \cup {at[t].printer}
  /\ Return(t)
  /\ UNCHANGED <<world, row, late, early, requests, faults>>

-----------------------------------------------------------------------------
(* upload_gcode_to_printer after the plate check.                           *)

\* _fresh_idle_state, before and after the upload: no answer is a 502, a busy
\* printer a 409.  The upload in between may fail, and changes nothing here.
CheckIdle(t) ==
  /\ at[t].pc \in {"idle1", "idle2"}
  /\ \/ Lost /\ Return(t)
     \/ /\ Answered
        /\ IF Idle(at[t].printer)
           THEN Goto(t, IF at[t].pc = "idle1" THEN "idle2" ELSE "post")
           ELSE Return(t)
  /\ UNCHANGED <<world, table, requests>>

\* The printer takes the command; whether the answer comes makes no difference.
Starts(t) ==
  /\ at[t].pc = "post"
  /\ \E f \in File : Begins(at[t].printer, f)
  /\ Return(t)
  /\ UNCHANGED <<table, requests, faults>>

\* It refuses, or the command is lost.
StartFails(t) ==
  /\ at[t].pc = "post"
  /\ IF machine[at[t].printer].state = "printing" THEN Answered ELSE Lost
  /\ Return(t)
  /\ UNCHANGED <<world, table, requests>>

Floor(p) ==
  \/ \E f \in File : StartElsewhere(p, f)
  \/ Progress(p) \/ Complete(p) \/ Cancel(p) \/ TakeOff(p) \/ ResetFile(p)

Serve(t) ==
  \/ \E op \in {"start", "clear"}, p \in Printer : Ask(t, op, p)
  \/ \E op \in {"plates", "cameras"} : Ask(t, op, None)
  \/ ReadRows(t) \/ Upsert(t) \/ ReadBack(t)
  \/ MarkClear(t) \/ Dismiss(t)
  \/ CheckIdle(t) \/ Starts(t) \/ StartFails(t)

Next == (\E p \in Printer : Floor(p)) \/ (\E t \in Request : Serve(t))
Spec == Init /\ [][Next]_floorVars

-----------------------------------------------------------------------------
(* Properties                                                               *)

RequestState ==
  [op : {"none", "start", "clear", "plates", "cameras"},
   pc : {"idle", "rows", "write", "back", "mark", "dismiss", "idle1", "idle2", "post"},
   printer : Printer \cup {None}, view : [Printer -> View],
   seen : Row \cup {Absent}, todo : SUBSET Printer, saw : BOOLEAN, overtaken : BOOLEAN]

\* Variables keep their types; what the steps of a request rely on is there.
TypeOK ==
  /\ machine \in [Printer -> Machine]
  /\ plate \in [Printer -> Plate]
  /\ log \in [Printer -> Seq(File)]
  /\ row \in [Printer -> Row \cup {Absent}]
  /\ note \subseteq Printer /\ crossed \subseteq Printer
  /\ late \subseteq Printer /\ early \subseteq Printer
  /\ at \in [Request -> RequestState]
  /\ requests \in 0..MaxRequests /\ faults \in 0..MaxFaults
  /\ \A t \in Request :
       /\ at[t].op \in {"start", "clear"} => at[t].printer \in Printer
       /\ at[t].op = "start" => at[t].printer \notin Locked
       /\ at[t].pc \in {"write", "back"} => at[t].todo # {}
       /\ at[t].pc \in {"mark", "dismiss"} => at[t].op = "clear"
       /\ at[t].pc \in {"idle1", "idle2", "post"} => at[t].op = "start"

\* "Build plate must be checked before the next print starts": the upload route
\* starts no print over the finished part of another, however refreshes, marks
\* and other starts interleave, if the telemetry of its own check came and no
\* print has ended since.  (local_state.assert_build_plate_clear)
CheckedPlateIsEmpty ==
  [][\A t \in Request :
       /\ at[t].pc = "post" /\ at'[t].pc = "idle" /\ log'[at[t].printer] # log[at[t].printer]
       /\ at[t].saw /\ ~at[t].overtaken /\ at[t].printer \notin early
       => plate[at[t].printer] # "complete"]_floorVars

\* "Completed print detected; build plate must be checked before the next print
\* starts": a request that has seen that the last print is complete leaves the plate on
\* which it lies flagged, or is about to flag it, unless a mark came too late.  It
\* needs that no file is printed twice and that no row is early.
\* (local_state.build_plate_clearance_rows)
FinishedIsFlagged ==
  [][\A t \in Request : at[t].pc = "rows" /\ at'[t].pc # "rows" =>
       \A p \in {q \in Printer : plate[q] = "complete" /\ Completed(at[t].view[q])
                                    /\ at[t].view[q].job = machine[q].file} :
         p \in late \cup at'[t].todo \/ row'[p].state = "needs_clearance"]_floorVars

\* A flagged plate has a notification that asks for somebody to look at it, once
\* the request that flags it is done, except where an operator's mark for the
\* print before was about to dismiss it.  (local_state._ensure_plate_notification)
FlagIsNotified ==
  \A p \in Printer : row[p] # Absent =>
    \/ row[p].state # "needs_clearance"
    \/ p \in note \cup crossed
    \/ \E t \in Request : at[t].pc = "back" /\ Turn(at[t].todo, p)
=============================================================================
