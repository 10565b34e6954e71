------------------------- MODULE PrinterFloorProofs -------------------------
(* Proofs about the printers and the table of their build plates, for any      *)
(* number of printers, files and requests: types, no checked start over a      *)
(* finished part, and a notification for every flag.                           *)
EXTENDS PrinterFloor, TLAPS

-----------------------------------------------------------------------------
(* Types.                                                                      *)

\* A telemetry answer, and a request that starts, are typed.
LEMMA TelemetryType ==
  ASSUME TypeOK, NEW silent \in {{}, Printer}
  PROVE  Telemetry(silent) \in [Printer -> View]
BY DEF TypeOK, Telemetry, Blind, View, Machine

LEMMA NoRequestType == NoRequest \in RequestState /\ NoRequest.pc = "idle" /\ NoRequest.op = "none"
BY DEF NoRequest, RequestState, Blind, View

\* What a request's record is worth at each step.
RequestOK(r) ==
  /\ r \in RequestState
  /\ r.op \in {"start", "clear"} => r.printer \in Printer
  /\ r.op = "start" => r.printer \notin Locked
  /\ r.pc \in {"write", "back"} => r.todo # {}
  /\ r.pc \in {"mark", "dismiss"} => r.op = "clear"
  /\ r.pc \in {"idle1", "idle2", "post"} => r.op = "start"

StoreOK ==
  /\ machine \in [Printer -> Machine] /\ plate \in [Printer -> Plate]
  /\ log \in [Printer -> Seq(File)]
  /\ row \in [Printer -> Row \cup {Absent}]
  /\ note \subseteq Printer /\ crossed \subseteq Printer
  /\ late \subseteq Printer /\ early \subseteq Printer
  /\ requests \in 0..MaxRequests /\ faults \in 0..MaxFaults

LEMMA TypeSplit ==
  TypeOK <=> StoreOK /\ at \in [Request -> RequestState] /\ \A t \in Request : RequestOK(at[t])
BY DEF TypeOK, StoreOK, RequestOK

LEMMA OneRequest ==
  ASSUME TypeOK, NEW t \in Request, NEW r, Set(t, r)
  PROVE  at'[t] = r /\ \A u \in Request \ {t} : at'[u] = at[u]
BY DEF TypeOK, Set

LEMMA OneRequestType ==
  ASSUME TypeOK, StoreOK', NEW t \in Request, NEW r, RequestOK(r), Set(t, r)
  PROVE  TypeOK'
<1>1. at' \in [Request -> RequestState]
  BY DEF TypeOK, Set, RequestOK
<1>2. \A u \in Request : RequestOK(at'[u])
  BY OneRequest, TypeSplit
<1> QED
  BY <1>1, <1>2 DEF TypeOK, StoreOK, RequestOK

LEMMA ReturnType ==
  ASSUME TypeOK, StoreOK', NEW t \in Request, Return(t) PROVE TypeOK'
<1>1. RequestOK(NoRequest)
  BY NoRequestType DEF RequestOK
<1> QED
  BY <1>1, OneRequestType DEF Return

\* The steps that follow ReadRows and each ReadBack.
Continued(r) ==
  IF r.todo # {} THEN [r EXCEPT !.pc = "write"]
  ELSE IF r.op = "start" /\ r.seen.state # "needs_clearance"
       THEN [NoRequest EXCEPT !.op = "start", !.pc = "idle1", !.printer = r.printer,
                              !.saw = r.view[r.printer] # Blind, !.overtaken = r.overtaken]
       ELSE NoRequest

LEMMA ContinueType ==
  ASSUME TypeOK, StoreOK', NEW t \in Request, NEW r, RequestOK(r), Continue(t, r)
  PROVE  TypeOK'
<1>1. RequestOK(Continued(r))
  <2>1. CASE r.todo # {}
    BY <2>1 DEF Continued, RequestOK, RequestState
  <2>2. CASE r.todo = {} /\ r.op = "start" /\ r.seen.state # "needs_clearance"
    <3> DEFINE b == r.view[r.printer] # Blind
               s == [NoRequest EXCEPT !.op = "start", !.pc = "idle1", !.printer = r.printer,
                                      !.saw = b, !.overtaken = r.overtaken]
    <3>1. b \in BOOLEAN /\ r.overtaken \in BOOLEAN /\ r.printer \in Printer \ Locked
      BY <2>2 DEF RequestOK, RequestState
    <3> HIDE DEF b
    <3>2. RequestOK(s)
      BY <3>1, NoRequestType DEF RequestOK, RequestState
    <3> QED
      BY <2>2, <3>2 DEF Continued, b
  <2>3. CASE r.todo = {} /\ ~(r.op = "start" /\ r.seen.state # "needs_clearance")
    BY <2>3, NoRequestType DEF Continued, RequestOK
  <2> QED
    BY <2>1, <2>2, <2>3
<1>2. Set(t, Continued(r))
  BY DEF Continue, Continued
<1> QED
  BY <1>1, <1>2, OneRequestType

LEMMA InitTypes == FloorAssumption /\ Init => TypeOK
<1> SUFFICES ASSUME FloorAssumption, Init PROVE TypeOK
  OBVIOUS
<1>1. StoreOK
  BY DEF FloorAssumption, Init, StoreOK, Machine, Plate, Row
<1>2. at = [t \in Request |-> NoRequest]
  BY DEF Init
<1>3. RequestOK(NoRequest)
  BY NoRequestType DEF RequestOK
<1> QED
  BY <1>1, <1>2, <1>3, NoRequestType, TypeSplit

LEMMA FloorType ==
  ASSUME FloorAssumption, TypeOK, NEW p \in Printer, Floor(p) PROVE TypeOK'
<1>1. UNCHANGED <<table, requests, faults>>
  BY DEF Floor, StartElsewhere, Progress, Complete, Cancel, TakeOff, ResetFile
<1>2. machine' \in [Printer -> Machine] /\ plate' \in [Printer -> Plate]
      /\ log' \in [Printer -> Seq(File)]
  <2>1. CASE \E f \in File : StartElsewhere(p, f)
    BY <2>1 DEF StartElsewhere, Begins, TypeOK, Machine, Plate
  <2>2. CASE Progress(p)
    BY <2>2 DEF Progress, TypeOK, Machine, Plate
  <2>3. CASE Complete(p)
    BY <2>3 DEF Complete, TypeOK, Machine, Plate
  <2>4. CASE Cancel(p)
    BY <2>4 DEF Cancel, TypeOK, Machine, Plate
  <2>5. CASE TakeOff(p)
    BY <2>5 DEF TakeOff, TypeOK, Machine, Plate
  <2>6. CASE ResetFile(p)
    BY <2>6 DEF ResetFile, TypeOK, Machine, Plate
  <2> QED
    BY <2>1, <2>2, <2>3, <2>4, <2>5, <2>6 DEF Floor
<1>3. StoreOK'
  BY <1>1, <1>2 DEF TypeOK, StoreOK, table
<1>4. at' \in [Request -> RequestState] /\ \A t \in Request : RequestOK(at'[t])
  <2>1. CASE Complete(p)
    <3>1. ASSUME NEW t \in Request PROVE RequestOK(at'[t])
      <4> DEFINE b == at[t].overtaken \/ (at[t].op \in {"start", "clear"} /\ at[t].printer = p)
      <4>1. at'[t] = [at[t] EXCEPT !.overtaken = b] /\ b \in BOOLEAN
        BY <2>1 DEF Complete, TypeOK, RequestState
      <4> HIDE DEF b
      <4>2. RequestOK(at[t])
        BY TypeSplit
      <4> QED
        BY <4>1, <4>2 DEF RequestOK, RequestState
    <3>2. at' = [t \in Request |-> at'[t]]
      BY <2>1 DEF Complete
    <3> QED
      BY <3>1, <3>2 DEF RequestOK
  <2>2. CASE at' = at
    BY <2>2, TypeSplit
  <2> QED
    BY <2>1, <2>2 DEF Floor, StartElsewhere, Progress, Cancel, TakeOff, ResetFile
<1> QED
  BY <1>3, <1>4 DEF TypeOK, StoreOK, RequestOK

\* A request comes in.
Asked(op, p, v) ==
  [NoRequest EXCEPT !.op = op, !.printer = p, !.view = v,
                    !.pc = IF op = "clear" THEN "mark" ELSE "rows"]

LEMMA AskedOK ==
  ASSUME NEW op \in {"start", "clear", "plates", "cameras"}, NEW p \in Printer \cup {None},
         op \in {"start", "clear"} => p \in Printer, op = "start" => p \notin Locked,
         NEW v \in [Printer -> View]
  PROVE  RequestOK(Asked(op, p, v))
BY NoRequestType DEF Asked, RequestOK, RequestState

LEMMA FaultsCounted ==
  ASSUME FloorAssumption, TypeOK, Lost \/ Answered \/ UNCHANGED faults
  PROVE  faults' \in 0..MaxFaults
BY DEF FloorAssumption, TypeOK, Lost, Answered

LEMMA AskRecord ==
  ASSUME FloorAssumption, TypeOK, NEW t \in Request, NEW op, NEW p, Ask(t, op, p)
  PROVE  /\ at[t].pc = "idle" /\ UNCHANGED <<world, table>>
         /\ op = "start" => p \notin Locked
         /\ op = "clear" => plate[p] = "empty"
         /\ requests' \in 0..MaxRequests /\ faults' \in 0..MaxFaults
         /\ \E silent \in {{}, Printer} : Set(t, Asked(op, p, Telemetry(silent)))
<1>1. requests' \in 0..MaxRequests
  BY DEF Ask, TypeOK, FloorAssumption
<1>2. faults' \in 0..MaxFaults
  BY FaultsCounted DEF Ask
<1> QED
  BY <1>1, <1>2 DEF Ask, Asked

LEMMA AskType ==
  ASSUME FloorAssumption, TypeOK, NEW t \in Request,
         NEW op \in {"start", "clear", "plates", "cameras"}, NEW p \in Printer \cup {None},
         op \in {"start", "clear"} => p \in Printer, Ask(t, op, p)
  PROVE  TypeOK'
<1>1. PICK silent \in {{}, Printer} : Set(t, Asked(op, p, Telemetry(silent)))
  BY AskRecord
<1>2. RequestOK(Asked(op, p, Telemetry(silent)))
  BY AskRecord, AskedOK, TelemetryType
<1>3. StoreOK'
  BY AskRecord DEF StoreOK, TypeOK, world, table
<1> QED
  BY <1>1, <1>2, <1>3, OneRequestType

\* The request that ReadRows and ReadBack continue with.
Told(t) ==
  [at[t] EXCEPT
     !.todo = {p \in Printer : ToFlag(at[t].view[p], row[p])
                                 \/ (row[p] = Absent /\ ~Completed(at[t].view[p]))},
     !.seen = IF at[t].op = "start" THEN row[at[t].printer] ELSE Absent]

Back(t, p) ==
  [at[t] EXCEPT !.todo = @ \ {p}, !.seen = IF p = at[t].printer THEN row[p] ELSE @]

LEMMA ToldOK == ASSUME TypeOK, NEW t \in Request, at[t].pc = "rows" PROVE RequestOK(Told(t))
<1>1. RequestOK(at[t]) /\ row \in [Printer -> Row \cup {Absent}]
  BY TypeSplit DEF StoreOK
<1> DEFINE T == {p \in Printer : ToFlag(at[t].view[p], row[p])
                                   \/ (row[p] = Absent /\ ~Completed(at[t].view[p]))}
           s == IF at[t].op = "start" THEN row[at[t].printer] ELSE Absent
<1>2. T \in SUBSET Printer /\ s \in Row \cup {Absent}
  BY <1>1 DEF RequestOK
<1> HIDE DEF T, s
<1>3. RequestOK([at[t] EXCEPT !.todo = T, !.seen = s])
  BY <1>1, <1>2 DEF RequestOK, RequestState
<1> QED
  BY <1>3 DEF Told, T, s

LEMMA BackOK ==
  ASSUME TypeOK, NEW t \in Request, NEW p \in Printer, at[t].pc = "back"
  PROVE  [Back(t, p) EXCEPT !.pc = "rows"] \in RequestState
         /\ Back(t, p) \in RequestState
         /\ Back(t, p).op = at[t].op /\ Back(t, p).printer = at[t].printer
         /\ Back(t, p).view = at[t].view /\ Back(t, p).overtaken = at[t].overtaken
         /\ Back(t, p).todo = at[t].todo \ {p}
         /\ Back(t, p).seen = IF p = at[t].printer THEN row[p] ELSE at[t].seen
BY DEF Back, TypeOK, RequestState

\* Continue gives the request its next place itself.
LEMMA ContinueBack ==
  ASSUME TypeOK, StoreOK', NEW t \in Request, NEW p \in Printer, at[t].pc = "back",
         Continue(t, Back(t, p))
  PROVE  TypeOK'
<1> DEFINE r == Back(t, p)
           q == [r EXCEPT !.pc = "rows"]
<1>1. /\ r \in RequestState /\ r.op = at[t].op /\ r.printer = at[t].printer
      /\ q \in RequestState
  BY BackOK
<1>2. RequestOK(at[t])
  BY TypeSplit
<1> HIDE DEF r
<1>3. q.op = r.op /\ q.printer = r.printer /\ q.pc = "rows" /\ q.todo = r.todo /\ q.seen = r.seen
      /\ q.view = r.view /\ q.overtaken = r.overtaken
      /\ [q EXCEPT !.pc = "write"] = [r EXCEPT !.pc = "write"]
  BY <1>1 DEF RequestState
<1>4. RequestOK(q)
  BY <1>1, <1>2, <1>3 DEF RequestOK
<1>5. Continued(q) = Continued(r)
  BY <1>3 DEF Continued
<1>6. Continue(t, q)
  BY <1>5 DEF Continue, Continued, r
<1> QED
  BY <1>4, <1>6, ContinueType

LEMMA ServeType ==
  ASSUME FloorAssumption, TypeOK, NEW t \in Request, Serve(t) PROVE TypeOK'
<1>0. RequestOK(at[t])
  BY TypeSplit
<1>1. CASE \E op \in {"start", "clear"}, p \in Printer : Ask(t, op, p)
  BY <1>1, AskType
<1>2. CASE \E op \in {"plates", "cameras"} : Ask(t, op, None)
  BY <1>2, AskType
<1>3. CASE ReadRows(t)
  <2>1. StoreOK'
    BY <1>3 DEF ReadRows, TypeOK, StoreOK, world, table
  <2> QED
    BY <1>3, <2>1, ToldOK, ContinueType DEF ReadRows, Told
<1>4. CASE Upsert(t)
  <2>1. PICK p \in Printer :
          /\ row' = [row EXCEPT ![p] =
               [state |-> IF Completed(at[t].view[p]) THEN "needs_clearance"
                          ELSE IF p \in Locked THEN "locked" ELSE "clear",
                last |-> at[t].view[p].job]]
          /\ early' \in {early, early \cup {p}}
    BY <1>4 DEF Upsert
  <2>2. StoreOK'
    <3>1. at[t].view[p].job \in File \cup {None}
      BY <1>0 DEF RequestOK, RequestState, View
    <3>2. row' \in [Printer -> Row \cup {Absent}]
      BY <2>1, <3>1 DEF TypeOK, Row
    <3> QED
      BY <1>4, <2>1, <3>2 DEF Upsert, TypeOK, StoreOK, world
  <2>3. RequestOK([at[t] EXCEPT !.pc = "back"])
    BY <1>0, <1>4 DEF Upsert, RequestOK, RequestState
  <2>4. Set(t, [at[t] EXCEPT !.pc = "back"])
    BY <1>4 DEF Upsert, Goto, Set, TypeOK
  <2> QED
    BY <2>2, <2>3, <2>4, OneRequestType
<1>5. CASE ReadBack(t)
  <2>1. PICK p \in Printer : note' \in {note, note \cup {p}} /\ Continue(t, Back(t, p))
    BY <1>5 DEF ReadBack, Back
  <2>2. StoreOK' /\ at[t].pc = "back"
    BY <1>5, <2>1 DEF ReadBack, TypeOK, StoreOK, world
  <2> QED
    BY <2>1, <2>2, ContinueBack
<1>6. CASE MarkClear(t)
  <2> DEFINE p == at[t].printer
  <2>1. p \in Printer /\ at[t].view[p].job \in File \cup {None}
    BY <1>0, <1>6 DEF MarkClear, RequestOK, RequestState, View
  <2>2. row' \in [Printer -> Row \cup {Absent}] /\ late' \subseteq Printer
    BY <1>6, <2>1 DEF MarkClear, TypeOK, Row
  <2>3. StoreOK'
    BY <1>6, <2>2 DEF MarkClear, TypeOK, StoreOK, world
  <2>4. ASSUME NEW u \in Request PROVE RequestOK(at'[u])
    <3>1. RequestOK(at[u])
      BY TypeSplit
    <3>2. CASE u = t
      <4>1. at'[u] = [at[u] EXCEPT !.pc = "dismiss"] /\ at[u].op = "clear"
        BY <1>0, <1>6, <3>2 DEF MarkClear, RequestOK
      <4> QED
        BY <3>1, <4>1 DEF RequestOK, RequestState
    <3>3. CASE u # t
      <4> DEFINE b == at[u].overtaken \/ (at[t].overtaken /\ at[u].printer = p)
      <4>1. at'[u] = [at[u] EXCEPT !.overtaken = b] /\ b \in BOOLEAN
        BY <1>6, <3>3 DEF MarkClear, TypeOK, RequestState
      <4> HIDE DEF b
      <4> QED
        BY <3>1, <4>1 DEF RequestOK, RequestState
    <3> QED
      BY <3>2, <3>3
  <2>5. at' = [u \in Request |-> at'[u]]
    BY <1>6 DEF MarkClear
  <2>6. at' \in [Request -> RequestState]
    BY <2>4, <2>5 DEF RequestOK
  <2> QED
    BY <2>3, <2>4, <2>6 DEF TypeOK, StoreOK, RequestOK
<1>7. CASE Dismiss(t)
  <2>1. at[t].printer \in Printer
    BY <1>0, <1>7 DEF Dismiss, RequestOK
  <2>2. StoreOK'
    BY <1>7, <2>1 DEF Dismiss, TypeOK, StoreOK, world
  <2> QED
    BY <1>7, <2>2, ReturnType DEF Dismiss
<1>8. CASE CheckIdle(t)
  <2>1. StoreOK'
    BY <1>8, FaultsCounted DEF CheckIdle, TypeOK, StoreOK, world, table
  <2>2. ASSUME NEW pc \in {"idle2", "post"}, Goto(t, pc) PROVE TypeOK'
    <3>1. RequestOK([at[t] EXCEPT !.pc = pc])
      BY <1>0, <1>8 DEF CheckIdle, RequestOK, RequestState
    <3> QED
      BY <2>1, <2>2, <3>1, OneRequestType DEF Goto, Set
  <2> QED
    BY <1>8, <2>1, <2>2, ReturnType DEF CheckIdle
<1>9. CASE Starts(t)
  <2>1. at[t].printer \in Printer
    BY <1>0, <1>9 DEF Starts, RequestOK
  <2>2. machine' \in [Printer -> Machine] /\ plate' \in [Printer -> Plate]
        /\ log' \in [Printer -> Seq(File)]
    BY <1>9, <2>1 DEF Starts, Begins, TypeOK, Machine, Plate
  <2>3. StoreOK'
    BY <1>9, <2>2 DEF Starts, TypeOK, StoreOK, table
  <2> QED
    BY <1>9, <2>3, ReturnType DEF Starts
<1>10. CASE StartFails(t)
  <2>1. StoreOK'
    BY <1>10, FaultsCounted DEF StartFails, TypeOK, StoreOK, world, table
  <2> QED
    BY <1>10, <2>1, ReturnType DEF StartFails
<1> QED
  BY <1>1, <1>2, <1>3, <1>4, <1>5, <1>6, <1>7, <1>8, <1>9, <1>10 DEF Serve

LEMMA NextTypes == FloorAssumption /\ TypeOK /\ [Next]_floorVars => TypeOK'
<1> SUFFICES ASSUME FloorAssumption, TypeOK, [Next]_floorVars PROVE TypeOK'
  OBVIOUS
<1>1. CASE UNCHANGED floorVars
  BY <1>1 DEF floorVars, TypeOK
<1> QED
  BY <1>1, FloorType, ServeType DEF Next

\* Variables keep their types, and what the steps of a request rely on is there.
THEOREM FloorTypeCorrect == ASSUME FloorAssumption PROVE Spec => []TypeOK
BY InitTypes, NextTypes, PTL DEF Spec

-----------------------------------------------------------------------------
(* Flags and notifications.                                                    *)

LEMMA OneTurn ==
  ASSUME FloorAssumption, NEW todo, NEW p, NEW q, Turn(todo, p), Turn(todo, q) PROVE p = q
<1>1. PICK i \in DOMAIN Fleet : /\ p = Fleet[i] /\ p \in todo
                                /\ \A k \in 1..(i - 1) : Fleet[k] \notin todo
  BY DEF Turn
<1>2. PICK j \in DOMAIN Fleet : /\ q = Fleet[j] /\ q \in todo
                                /\ \A k \in 1..(j - 1) : Fleet[k] \notin todo
  BY DEF Turn
<1>3. i \in Nat /\ j \in Nat /\ i >= 1 /\ j >= 1
  BY DEF FloorAssumption
<1>4. ~(i < j) /\ ~(j < i)
  BY <1>1, <1>2, <1>3
<1> QED
  BY <1>1, <1>2, <1>3, <1>4

\* A request that has flagged p and is about to see to its notification.
Notifies(t, p) ==
  at[t].pc = "back" /\ Turn(at[t].todo, p) /\ Completed(at[t].view[p])

Flagged(p) == row[p] # Absent /\ row[p].state = "needs_clearance"

NoteInv ==
  \A p \in Printer : Flagged(p) => p \in note \cup crossed \/ \E t \in Request : Notifies(t, p)

\* Flags, notifications and the requests that see to them stay.
LEMMA NoteFrame ==
  ASSUME NoteInv, note \subseteq note', crossed \subseteq crossed', UNCHANGED row,
         \A t \in Request : at[t].pc = "back" =>
           at'[t].pc = "back" /\ at'[t].view = at[t].view /\ at'[t].todo = at[t].todo
  PROVE  NoteInv'
BY DEF NoteInv, Flagged, Notifies, Turn, Completed

LEMMA NoteNext == FloorAssumption /\ TypeOK /\ NoteInv /\ [Next]_floorVars => NoteInv'
<1> SUFFICES ASSUME FloorAssumption, TypeOK, NoteInv, [Next]_floorVars PROVE NoteInv'
  OBVIOUS
<1>1. CASE UNCHANGED floorVars
  BY <1>1, NoteFrame DEF floorVars
<1>2. ASSUME NEW p \in Printer, Floor(p) PROVE NoteInv'
  <2>1. UNCHANGED <<row, note, crossed>>
    BY <1>2 DEF Floor, StartElsewhere, Progress, Complete, Cancel, TakeOff, ResetFile, table
  <2>2. \A t \in Request :
          at'[t].view = at[t].view /\ at'[t].todo = at[t].todo /\ at'[t].pc = at[t].pc
    BY <1>2 DEF Floor, StartElsewhere, Progress, Complete, Cancel, TakeOff, ResetFile, TypeOK,
       RequestState
  <2> QED
    BY <2>1, <2>2, NoteFrame
<1>3. ASSUME NEW t \in Request, at[t].pc # "back", NEW r, Set(t, r), UNCHANGED row,
             note \subseteq note', crossed \subseteq crossed'
      PROVE  NoteInv'
  BY <1>3, OneRequest, NoteFrame
<1>4. ASSUME NEW t \in Request, Serve(t) PROVE NoteInv'
  <2>1. CASE \E op \in {"start", "clear"}, p \in Printer : Ask(t, op, p)
    BY <1>3, <2>1, AskRecord DEF table
  <2>2. CASE \E op \in {"plates", "cameras"} : Ask(t, op, None)
    BY <1>3, <2>2, AskRecord DEF table
  <2>3. CASE ReadRows(t)
    BY <1>3, <2>3 DEF ReadRows, Continue, table
  <2>4. CASE Upsert(t)
    <3>1. PICK p \in Printer :
            /\ Turn(at[t].todo, p)
            /\ row' = [row EXCEPT ![p] =
                 [state |-> IF Completed(at[t].view[p]) THEN "needs_clearance"
                            ELSE IF p \in Locked THEN "locked" ELSE "clear",
                  last |-> at[t].view[p].job]]
      BY <2>4 DEF Upsert
    <3>2. /\ at'[t].view = at[t].view /\ at'[t].todo = at[t].todo /\ at'[t].pc = "back"
          /\ \A u \in Request \ {t} : at'[u] = at[u]
          /\ at[t].pc = "write" /\ note' = note /\ crossed' = crossed
      BY <2>4 DEF Upsert, Goto, TypeOK, RequestState
    <3>3. ASSUME NEW q \in Printer, Flagged(q)'
          PROVE  q \in (note \cup crossed)' \/ \E u \in Request : Notifies(u, q)'
      <4>1. CASE q = p
        <5>1. Completed(at[t].view[p])
          BY <3>1, <3>3, <4>1 DEF Flagged, TypeOK
        <5>2. Notifies(t, q)'
          BY <3>1, <3>2, <4>1, <5>1 DEF Notifies, Turn, Completed
        <5> QED
          BY <5>2
      <4>2. CASE q # p
        <5>1. Flagged(q)
          BY <3>1, <3>3, <4>2 DEF Flagged, TypeOK
        <5>2. \A u \in Request : Notifies(u, q) => Notifies(u, q)'
          BY <3>2 DEF Notifies, Turn, Completed
        <5> QED
          BY <3>2, <5>1, <5>2 DEF NoteInv
      <4> QED
        BY <4>1, <4>2
    <3> QED
      BY <3>3 DEF NoteInv
  <2>5. CASE ReadBack(t)
    <3>1. PICK p \in Printer :
            /\ Turn(at[t].todo, p)
            /\ note' = IF Completed(at[t].view[p]) THEN note \cup {p} ELSE note
      BY <2>5 DEF ReadBack
    <3>2. row' = row /\ crossed' = crossed /\ \A u \in Request \ {t} : at'[u] = at[u]
      BY <2>5 DEF ReadBack, Continue, Set, TypeOK
    <3>3. ASSUME NEW q \in Printer, Notifies(t, q) PROVE q \in note'
      BY <3>1, <3>3, OneTurn DEF Notifies
    <3>4. \A u \in Request \ {t}, q \in Printer : Notifies(u, q) => Notifies(u, q)'
      BY <3>2 DEF Notifies, Turn, Completed
    <3>5. note \subseteq note'
      BY <3>1
    <3> QED
      BY <3>2, <3>3, <3>4, <3>5 DEF NoteInv, Flagged
  <2>6. CASE MarkClear(t)
    <3> DEFINE p == at[t].printer
    <3>1. /\ row' = [row EXCEPT ![p] = [state |-> "clear", last |-> at[t].view[p].job]]
          /\ note' = note /\ crossed' = crossed
      BY <2>6 DEF MarkClear
    <3>3. \A u \in Request : /\ at[u].pc = "back" => at'[u].pc = "back"
                             /\ at'[u].view = at[u].view /\ at'[u].todo = at[u].todo
      BY <2>6 DEF MarkClear, TypeOK, RequestState
    <3>4. \A q \in Printer : Flagged(q)' => Flagged(q)
      BY <3>1 DEF Flagged, TypeOK
    <3>5. \A u \in Request, q \in Printer : Notifies(u, q) => Notifies(u, q)'
      BY <3>3 DEF Notifies, Turn, Completed
    <3> QED
      BY <3>1, <3>4, <3>5 DEF NoteInv
  <2>7. CASE Dismiss(t)
    <3> DEFINE p == at[t].printer
    <3>1. /\ row' = row /\ note' = note \ {p} /\ at[t].pc = "dismiss"
          /\ crossed' = IF row[p].state = "clear" THEN crossed ELSE crossed \cup {p}
          /\ \A u \in Request \ {t} : at'[u] = at[u]
      BY <2>7, OneRequest DEF Dismiss, Return
    <3>2. \A q \in Printer : Flagged(q)' /\ q \in note \cup crossed => q \in (note \cup crossed)'
      BY <3>1 DEF Flagged
    <3>3. \A u \in Request, q \in Printer : Notifies(u, q) => Notifies(u, q)'
      BY <3>1 DEF Notifies, Turn, Completed
    <3> QED
      BY <3>1, <3>2, <3>3 DEF NoteInv, Flagged
  <2>8. CASE CheckIdle(t)
    <3>1. at[t].pc # "back" /\ UNCHANGED <<row, note, crossed>>
      BY <2>8 DEF CheckIdle, table
    <3>2. \A pc : Goto(t, pc) => Set(t, [at[t] EXCEPT !.pc = pc])
      BY DEF Goto, Set, TypeOK
    <3> QED
      BY <1>3, <2>8, <3>1, <3>2 DEF CheckIdle, Return
  <2>9. CASE Starts(t) \/ StartFails(t)
    BY <1>3, <2>9 DEF Starts, StartFails, Return, table
  <2> QED
    BY <1>4, <2>1, <2>2, <2>3, <2>4, <2>5, <2>6, <2>7, <2>8, <2>9 DEF Serve
<1> QED
  BY <1>1, <1>2, <1>4 DEF Next

\* A flagged plate has a notification or a request that is about to see to it,
\* unless an operator's mark for the print before has dismissed it.
THEOREM FlagsAreNotified == ASSUME FloorAssumption PROVE Spec => []FlagIsNotified
<1>1. Init => NoteInv
  BY DEF Init, NoteInv, Flagged
<1>2. NoteInv => FlagIsNotified
  BY DEF NoteInv, Flagged, Notifies, FlagIsNotified
<1> QED
  BY <1>1, <1>2, InitTypes, NextTypes, NoteNext, PTL DEF Spec

-----------------------------------------------------------------------------
(* Starts over finished parts, where no file is printed twice.                 *)

Full(p) == plate[p] = "complete"

\* A finished part lies under the display of its print; a printer that prints has
\* a part in work on its plate.
WorldInv ==
  \A p \in Printer :
    /\ Full(p) => /\ machine[p].state = "complete" /\ machine[p].high
                  /\ machine[p].file # None
    /\ machine[p].state = "printing" => plate[p] = "partial" /\ machine[p].file \in File
    /\ machine[p].file # None => machine[p].file \in Range(log[p])

\* f has been printed and taken off.
Gone(p, f) ==
  /\ f \in Range(log[p])
  /\ machine[p].file = f => ~Full(p) /\ machine[p].state # "printing"

\* A row that is not flagged names no part that lies on the plate or is in work.
RowInv ==
  \A p \in Printer \ early :
    row[p] # Absent /\ row[p].state # "needs_clearance" /\ row[p].last # None => Gone(p, row[p].last)

\* The same of a mark on its way.
Marks(t) ==
  at[t].pc = "mark" =>
    LET p == at[t].printer   f == at[t].view[p].job IN
      /\ f # None => Gone(p, f)
      /\ Full(p) => at[t].overtaken

\* A start whose check has seen the finished part that is on the plate flags it, and
\* gives up when it has read its own row back.
Checks(t) ==
  LET p == at[t].printer   v == at[t].view[p] IN
    at[t].op = "start" /\ ~at[t].overtaken /\ p \notin early /\ Full(p) =>
      /\ at[t].pc \in {"rows", "write", "back"} /\ v # Blind
           => v = [job |-> machine[p].file, high |-> TRUE]
      /\ at[t].pc \in {"write", "back"} /\ v # Blind
           => p \in at[t].todo \/ (at[t].seen # Absent /\ at[t].seen.state = "needs_clearance")
      /\ at[t].pc = "back" /\ v # Blind /\ Turn(at[t].todo, p) => Flagged(p)
      /\ at[t].pc \in {"idle1", "idle2", "post"} => ~at[t].saw

PlateInv == TypeOK /\ WorldInv /\ RowInv /\ \A t \in Request : Marks(t) /\ Checks(t)

\* What is on a plate was there, and what was gone stays gone.
WorldKept ==
  /\ \A p \in Printer : Full(p)' => Full(p) /\ machine'[p] = machine[p]
  /\ \A p \in Printer, f \in File : Gone(p, f) => Gone(p, f)'

\* The request goes on unchanged, perhaps overtaken.
Rests(t) ==
  /\ at'[t].op = at[t].op /\ at'[t].pc = at[t].pc /\ at'[t].printer = at[t].printer
  /\ at'[t].view = at[t].view /\ at'[t].seen = at[t].seen /\ at'[t].todo = at[t].todo
  /\ at'[t].saw = at[t].saw
  /\ at[t].overtaken => at'[t].overtaken

LEMMA OthersRest ==
  ASSUME PlateInv, WorldKept, early \subseteq early', NEW t \in Request, Rests(t),
         at[t].op = "start" /\ ~at'[t].overtaken /\ Flagged(at[t].printer)
           => Flagged(at[t].printer)' \/ at[t].printer \in early' \/ ~Full(at[t].printer)'
  PROVE  Marks(t)' /\ Checks(t)'
<1>1. Marks(t) /\ Checks(t) /\ RequestOK(at[t])
  BY TypeSplit DEF PlateInv
<1>2. Marks(t)'
  <2>1. CASE at[t].pc = "mark"
    <3> DEFINE p == at[t].printer
               f == at[t].view[p].job
    <3>1. p \in Printer /\ f \in File \cup {None}
      BY <1>1, <2>1 DEF RequestOK, RequestState, View
    <3>2. /\ f # None => Gone(p, f)'
          /\ Full(p)' => at'[t].overtaken
      BY <1>1, <2>1, <3>1 DEF Marks, WorldKept, Rests
    <3>3. at'[t].printer = p /\ at'[t].view[p].job = f
      BY DEF Rests
    <3> QED
      BY <3>2, <3>3 DEF Marks
  <2>2. CASE at[t].pc # "mark"
    BY <2>2 DEF Marks, Rests
  <2> QED
    BY <2>1, <2>2
<1>3. Checks(t)'
  <2> DEFINE p == at[t].printer
  <2>1. CASE at[t].op = "start" /\ ~at'[t].overtaken /\ p \notin early' /\ Full(p)'
    <3>1. p \in Printer
      BY <1>1, <2>1 DEF RequestOK
    <3>2. ~at[t].overtaken /\ p \notin early /\ Full(p) /\ machine'[p] = machine[p]
      BY <2>1, <3>1 DEF WorldKept, Rests
    <3>3. Flagged(p) => Flagged(p)'
      BY <2>1
    <3>4. Turn(at[t].todo, p)' <=> Turn(at[t].todo, p)
      BY DEF Turn, Rests
    <3> QED
      BY <1>1, <2>1, <3>2, <3>3, <3>4 DEF Checks, Rests
  <2>2. CASE ~(at[t].op = "start" /\ ~at'[t].overtaken /\ p \notin early' /\ Full(p)')
    BY <2>2 DEF Checks, Rests
  <2> QED
    BY <2>1, <2>2
<1> QED
  BY <1>2, <1>3

LEMMA RowFrame ==
  ASSUME PlateInv, WorldKept, early \subseteq early', UNCHANGED row
  PROVE  RowInv'
<1> SUFFICES ASSUME NEW p \in Printer, p \notin early', row[p] # Absent,
                    row[p].state # "needs_clearance", row[p].last # None
             PROVE  Gone(p, row[p].last)'
  BY DEF RowInv
<1>1. row[p].last \in File /\ Gone(p, row[p].last)
  BY DEF PlateInv, RowInv, TypeOK, Row
<1>2. row' = row
  OBVIOUS
<1> QED
  BY <1>1, <1>2 DEF WorldKept, Gone

LEMMA RangeOfAppend ==
  ASSUME NEW S, NEW s \in Seq(S), NEW e \in S PROVE Range(Append(s, e)) = Range(s) \cup {e}
<1>1. Len(s) \in Nat /\ DOMAIN s = 1..Len(s) /\ DOMAIN Append(s, e) = 1..(Len(s) + 1)
  OBVIOUS
<1>2. \A i \in 1..Len(s) : Append(s, e)[i] = s[i]
  OBVIOUS
<1>3. Append(s, e)[Len(s) + 1] = e
  OBVIOUS
<1>4. 1..(Len(s) + 1) = 1..Len(s) \cup {Len(s) + 1}
  BY <1>1
<1> QED
  BY <1>1, <1>2, <1>3, <1>4 DEF Range

\* A print begins: what lay on the plate is a part in work now.
LEMMA BeginsKeeps ==
  ASSUME TypeOK, WorldInv, ~Reprint, NEW p \in Printer, NEW f \in File, None \notin File, Begins(p, f)
  PROVE  WorldInv' /\ WorldKept
<1>1. /\ machine'[p] = [state |-> "printing", file |-> f, high |-> FALSE] /\ plate'[p] = "partial"
      /\ \A q \in Printer \ {p} : machine'[q] = machine[q] /\ plate'[q] = plate[q] /\ log'[q] = log[q]
      /\ f \notin Range(log[p]) /\ machine[p].state # "printing"
  BY DEF Begins, TypeOK
<1>2. Range(log'[p]) = Range(log[p]) \cup {f}
  <2>1. log'[p] = Append(log[p], f) /\ log[p] \in Seq(File)
    BY DEF Begins, TypeOK
  <2> QED
    BY <2>1, RangeOfAppend
<1>3. WorldInv'
  BY <1>1, <1>2 DEF WorldInv, Full
<1>4. WorldKept
  BY <1>1, <1>2 DEF WorldKept, Full, Gone
<1> QED
  BY <1>3, <1>4

\* The display, or the plate, of a printer that does not end a print.
LEMMA WorldMoves ==
  ASSUME TypeOK, WorldInv, NEW p \in Printer,
         Progress(p) \/ Cancel(p) \/ TakeOff(p) \/ ResetFile(p)
  PROVE  WorldInv' /\ WorldKept
<1>1. CASE Progress(p)
  <2>1. /\ machine'[p].state = "printing" /\ machine'[p].file = machine[p].file
        /\ \A q \in Printer \ {p} : machine'[q] = machine[q]
        /\ plate' = plate /\ log' = log /\ machine[p].state = "printing"
    BY <1>1 DEF Progress, TypeOK, Machine
  <2> QED
    BY <2>1 DEF WorldInv, WorldKept, Full, Gone
<1>2. CASE Cancel(p)
  <2>1. /\ machine'[p].state = "cancelled" /\ machine'[p].file = machine[p].file
        /\ \A q \in Printer \ {p} : machine'[q] = machine[q]
        /\ plate' = plate /\ log' = log /\ machine[p].state = "printing"
    BY <1>2 DEF Cancel, TypeOK, Machine
  <2> QED
    BY <2>1 DEF WorldInv, WorldKept, Full, Gone
<1>3. CASE TakeOff(p)
  <2>1. /\ plate'[p] = "empty" /\ \A q \in Printer \ {p} : plate'[q] = plate[q]
        /\ machine' = machine /\ log' = log /\ machine[p].state # "printing"
    BY <1>3 DEF TakeOff, TypeOK
  <2> QED
    BY <2>1 DEF WorldInv, WorldKept, Full, Gone
<1>4. CASE ResetFile(p)
  <2>1. /\ machine'[p] = [state |-> "standby", file |-> None, high |-> FALSE]
        /\ \A q \in Printer \ {p} : machine'[q] = machine[q]
        /\ plate' = plate /\ log' = log /\ ~Full(p)
    BY <1>4 DEF ResetFile, TypeOK, Full
  <2> QED
    BY <2>1 DEF WorldInv, WorldKept, Full, Gone
<1> QED
  BY <1>1, <1>2, <1>3, <1>4

LEMMA CompletePlate ==
  ASSUME FloorAssumption, PlateInv, NEW p \in Printer, Complete(p) PROVE PlateInv'
<1>1. /\ machine[p].state = "printing" /\ machine'[p].state = "complete"
      /\ machine'[p].file = machine[p].file /\ machine'[p].high /\ plate'[p] = "complete"
      /\ \A q \in Printer \ {p} : machine'[q] = machine[q] /\ plate'[q] = plate[q]
      /\ log' = log /\ row' = row /\ early' = early
  BY DEF Complete, PlateInv, TypeOK, Machine, table
<1>2. WorldInv'
  BY <1>1 DEF PlateInv, WorldInv, Full, FloorAssumption
<1>3. \A q \in Printer, f \in File : Gone(q, f) => Gone(q, f)'
  BY <1>1 DEF Gone, Full
<1>4. \A q \in Printer \ {p} : Full(q)' => Full(q) /\ machine'[q] = machine[q]
  BY <1>1 DEF Full
<1>5. TypeOK'
  BY FloorType DEF PlateInv, Floor
<1>6. RowInv'
  <2> SUFFICES ASSUME NEW q \in Printer, q \notin early, row[q] # Absent,
                      row[q].state # "needs_clearance", row[q].last # None
               PROVE  Gone(q, row[q].last)'
    BY <1>1 DEF RowInv
  <2>1. row[q].last \in File /\ Gone(q, row[q].last)
    BY DEF PlateInv, RowInv, TypeOK, Row
  <2> QED
    BY <1>1, <1>3, <2>1 DEF Gone
<1>7. ASSUME NEW t \in Request PROVE Marks(t)' /\ Checks(t)'
  <2>0. PICK q : q = at[t].printer
    OBVIOUS
  <2> DEFINE b == at[t].overtaken \/ (at[t].op \in {"start", "clear"} /\ q = p)
  <2>1. at'[t] = [at[t] EXCEPT !.overtaken = b] /\ at[t] \in RequestState
    BY <2>0 DEF Complete, PlateInv, TypeOK
  <2>2. /\ at'[t].op = at[t].op /\ at'[t].pc = at[t].pc /\ at'[t].printer = q
        /\ at'[t].view = at[t].view /\ at'[t].seen = at[t].seen /\ at'[t].todo = at[t].todo
        /\ at'[t].saw = at[t].saw /\ (at'[t].overtaken <=> b)
    BY <2>0, <2>1 DEF RequestState
  <2> HIDE DEF b
  <2>3. Marks(t) /\ Checks(t) /\ RequestOK(at[t])
    BY TypeSplit DEF PlateInv
  <2>4. Marks(t)'
    <3>1. CASE at[t].pc = "mark"
      <4>0. PICK f : f = at[t].view[q].job
        OBVIOUS
      <4>1. q \in Printer /\ f \in File \cup {None} /\ at[t].op = "clear"
        BY <2>0, <2>3, <3>1, <4>0 DEF RequestOK, RequestState, View
      <4>2. f # None => Gone(q, f)'
        BY <1>3, <2>0, <2>3, <3>1, <4>0, <4>1 DEF Marks
      <4>3. Full(q)' => b
        BY <1>4, <2>0, <2>3, <3>1, <4>1 DEF Marks, b
      <4> QED
        BY <2>2, <4>0, <4>2, <4>3 DEF Marks
    <3>2. CASE at[t].pc # "mark"
      BY <2>2, <3>2 DEF Marks
    <3> QED
      BY <3>1, <3>2
  <2>5. Checks(t)'
    <3>1. CASE at[t].op = "start" /\ ~b /\ q \notin early /\ Full(q)'
      <4>1. q \in Printer \ {p} /\ ~at[t].overtaken
        BY <2>0, <2>3, <3>1 DEF RequestOK, b
      <4>2. Full(q) /\ machine'[q] = machine[q]
        BY <1>4, <3>1, <4>1
      <4>3. (Turn(at[t].todo, q)' <=> Turn(at[t].todo, q)) /\ (Flagged(q)' <=> Flagged(q))
        BY <1>1, <2>2 DEF Turn, Flagged
      <4> QED
        BY <1>1, <2>0, <2>2, <2>3, <3>1, <4>1, <4>2, <4>3 DEF Checks
    <3>2. CASE ~(at[t].op = "start" /\ ~b /\ q \notin early /\ Full(q)')
      BY <1>1, <2>2, <3>2 DEF Checks
    <3> QED
      BY <3>1, <3>2
  <2> QED
    BY <2>4, <2>5
<1> QED
  BY <1>2, <1>5, <1>6, <1>7 DEF PlateInv

LEMMA FloorPlate ==
  ASSUME FloorAssumption, ~Reprint, PlateInv, NEW p \in Printer, Floor(p) PROVE PlateInv'
<1>1. CASE Complete(p)
  BY <1>1, CompletePlate
<1>2. CASE ~Complete(p)
  <2>1. WorldInv' /\ WorldKept
    BY <1>2, BeginsKeeps, WorldMoves DEF Floor, StartElsewhere, PlateInv, FloorAssumption
  <2>2. UNCHANGED <<row, early, at>>
    BY <1>2 DEF Floor, StartElsewhere, Progress, Cancel, TakeOff, ResetFile, table
  <2>3. RowInv'
    BY <2>1, <2>2, RowFrame
  <2>4. ASSUME NEW t \in Request PROVE Marks(t)' /\ Checks(t)'
    <3>1. Rests(t) /\ (Flagged(at[t].printer) => Flagged(at[t].printer)')
      BY <2>2 DEF Rests, Flagged
    <3> QED
      BY <2>1, <2>2, <3>1, OthersRest
  <2> QED
    BY <2>1, <2>3, <2>4, FloorType DEF PlateInv
<1> QED
  BY <1>1, <1>2

\* A step of one request that leaves the rows alone.
LEMMA PlateFrame ==
  ASSUME PlateInv, TypeOK', WorldInv', WorldKept, UNCHANGED <<row, early>>, NEW t \in Request,
         \A u \in Request \ {t} : at'[u] = at[u], Marks(t)' /\ Checks(t)'
  PROVE  PlateInv'
<1>1. RowInv'
  BY RowFrame
<1>2. ASSUME NEW u \in Request \ {t} PROVE Marks(u)' /\ Checks(u)'
  <2>1. Rests(u) /\ (Flagged(at[u].printer) => Flagged(at[u].printer)')
    BY DEF Rests, Flagged
  <2> QED
    BY <2>1, OthersRest
<1> QED
  BY <1>1, <1>2 DEF PlateInv

LEMMA WorldStays ==
  ASSUME WorldInv, UNCHANGED world PROVE WorldInv' /\ WorldKept
BY DEF world, WorldInv, WorldKept, Full, Gone

\* A request that is done has nothing to say.
LEMMA DoneRests ==
  ASSUME NEW t \in Request, at'[t] = NoRequest PROVE Marks(t)' /\ Checks(t)'
BY DEF NoRequest, Marks, Checks

LEMMA AskPlate ==
  ASSUME FloorAssumption, PlateInv, TypeOK', NEW t \in Request, NEW op, NEW p \in Printer \cup {None},
         op \in {"start", "clear"} => p \in Printer, Ask(t, op, p)
  PROVE  PlateInv'
<1>1. PICK silent \in {{}, Printer} : Set(t, Asked(op, p, Telemetry(silent)))
  BY AskRecord DEF PlateInv
<1>2. /\ UNCHANGED <<world, table>> /\ (op = "start" => p \notin Locked)
      /\ (op = "clear" => plate[p] = "empty")
  BY AskRecord DEF PlateInv
<1>3. \A u \in Request \ {t} : at'[u] = at[u]
  BY <1>1, OneRequest DEF PlateInv
<1>4. PICK v : v = Telemetry(silent)
  OBVIOUS
<1>5. at'[t] = Asked(op, p, v)
  BY <1>1, <1>4, OneRequest DEF PlateInv
<1>6. /\ at'[t].op = op /\ at'[t].printer = p /\ at'[t].view = v /\ ~at'[t].overtaken
      /\ at'[t].pc = IF op = "clear" THEN "mark" ELSE "rows"
  BY <1>5, NoRequestType DEF Asked, NoRequest, RequestState
<1>7. p \in Printer =>
        v[p] = Blind \/ v[p] = [job |-> machine[p].file, high |-> machine[p].high]
  BY <1>4 DEF Telemetry
<1>8. Marks(t)'
  <2>1. CASE op = "clear"
    <3>1. p \in Printer /\ ~Full(p) /\ machine[p].state # "printing" /\ UNCHANGED world
      BY <1>2, <2>1 DEF Full, PlateInv, WorldInv
    <3>2. v[p].job # None => v[p].job = machine[p].file
      BY <1>7, <3>1 DEF Blind
    <3>3. v[p].job # None => Gone(p, v[p].job)
      BY <3>1, <3>2 DEF PlateInv, WorldInv, Gone
    <3>4. ~Full(p)' /\ (v[p].job # None => Gone(p, v[p].job)')
      BY <3>1, <3>3 DEF world, Full, Gone
    <3> QED
      BY <1>6, <3>4 DEF Marks
  <2>2. CASE op # "clear"
    BY <1>6, <2>2 DEF Marks
  <2> QED
    BY <2>1, <2>2
<1>9. Checks(t)'
  <2>1. CASE op = "start" /\ Full(p)
    <3>1. p \in Printer /\ machine[p].high /\ machine' = machine
      BY <1>2, <2>1 DEF PlateInv, WorldInv, world
    <3>2. machine'[p].file = machine[p].file
      BY <3>1
    <3>3. v[p] # Blind => v[p] = [job |-> machine'[p].file, high |-> TRUE]
      BY <1>7, <3>1, <3>2 DEF PlateInv, TypeOK, Machine
    <3> QED
      BY <1>6, <2>1, <3>3 DEF Checks
  <2>2. CASE op # "start" \/ ~Full(p)
    <3>1. op # "start" \/ ~Full(p)'
      BY <1>2, <2>2 DEF Full, world
    <3> QED
      BY <1>6, <3>1 DEF Checks
  <2> QED
    BY <2>1, <2>2
<1> QED
  BY <1>2, <1>3, <1>8, <1>9, WorldStays, PlateFrame DEF PlateInv, table

\* The end of the reads and upserts: the check gives up if its own row is flagged.
LEMMA ContinuePlate ==
  ASSUME PlateInv, TypeOK', UNCHANGED <<world, row, early>>, NEW t \in Request, NEW r,
         at'[t] = Continued(r), r \in RequestState,
         r.op = "start" /\ ~r.overtaken /\ r.printer \notin early /\ Full(r.printer)
           /\ r.view[r.printer] # Blind =>
             /\ r.view[r.printer] = [job |-> machine[r.printer].file, high |-> TRUE]
             /\ r.printer \in r.todo \/ (r.seen # Absent /\ r.seen.state = "needs_clearance")
  PROVE  Marks(t)' /\ Checks(t)'
<1>0. PICK p : p = r.printer
  OBVIOUS
<1>1. CASE r.todo # {}
  <2>1. PICK s : s = [r EXCEPT !.pc = "write"]
    OBVIOUS
  <2>2. at'[t] = s
    BY <1>1, <2>1 DEF Continued
  <2>3. /\ s.op = r.op /\ s.printer = p /\ s.view = r.view /\ s.todo = r.todo /\ s.seen = r.seen
        /\ s.pc = "write" /\ s.overtaken = r.overtaken
    BY <1>0, <2>1 DEF RequestState
  <2>4. Marks(t)'
    BY <2>2, <2>3 DEF Marks
  <2>5. UNCHANGED <<machine, plate, early>>
    BY DEF world
  <2>6. Checks(t)'
    BY <1>0, <2>2, <2>3, <2>5 DEF Checks, Full
  <2> QED
    BY <2>4, <2>6
<1>2. CASE r.todo = {} /\ r.op = "start" /\ r.seen.state # "needs_clearance"
  <2>0. PICK b : b = (r.view[r.printer] # Blind)
    OBVIOUS
  <2>1. at'[t] = [NoRequest EXCEPT !.op = "start", !.pc = "idle1", !.printer = r.printer,
                                   !.saw = b, !.overtaken = r.overtaken]
    BY <1>2, <2>0 DEF Continued
  <2>2. /\ at'[t].op = "start" /\ at'[t].pc = "idle1" /\ at'[t].printer = p /\ at'[t].saw = b
        /\ at'[t].overtaken = r.overtaken
    BY <1>0, <2>1 DEF NoRequest
  <2>3. ~r.overtaken /\ p \notin early /\ Full(p) => ~b
    BY <1>0, <1>2, <2>0
  <2>4. UNCHANGED <<machine, plate, early>>
    BY DEF world
  <2> QED
    BY <2>2, <2>3, <2>4 DEF Marks, Checks, Full
<1>3. CASE r.todo = {} /\ ~(r.op = "start" /\ r.seen.state # "needs_clearance")
  BY <1>3, DoneRests DEF Continued
<1> QED
  BY <1>1, <1>2, <1>3

LEMMA ReadRowsPlate ==
  ASSUME FloorAssumption, PlateInv, TypeOK', NEW t \in Request, ReadRows(t) PROVE PlateInv'
<1>0. at[t].pc = "rows" /\ Checks(t) /\ RequestOK(at[t]) /\ UNCHANGED <<world, table>>
  BY TypeSplit DEF ReadRows, PlateInv
<1>1. PICK r : r = Told(t)
  OBVIOUS
<1>2. Set(t, Continued(r))
  BY <1>1 DEF ReadRows, Continue, Continued, Told
<1>3. at'[t] = Continued(r) /\ \A u \in Request \ {t} : at'[u] = at[u]
  BY <1>2, OneRequest DEF PlateInv
<1>4. r \in RequestState
  BY <1>0, <1>1, ToldOK DEF PlateInv, RequestOK
<1>5. PICK p : p = at[t].printer
  OBVIOUS
<1>6. /\ r.op = at[t].op /\ r.printer = p /\ r.view = at[t].view /\ r.overtaken = at[t].overtaken
      /\ r.todo = {q \in Printer : ToFlag(r.view[q], row[q])
                                     \/ (row[q] = Absent /\ ~Completed(r.view[q]))}
      /\ r.op = "start" => r.seen = row[p]
  BY <1>0, <1>1, <1>5 DEF Told, RequestOK, RequestState
<1>7. ASSUME r.op = "start", ~r.overtaken, p \notin early, Full(p), r.view[p] # Blind
      PROVE  /\ r.view[p] = [job |-> machine[p].file, high |-> TRUE]
             /\ p \in r.todo \/ (r.seen # Absent /\ r.seen.state = "needs_clearance")
  <2>1. r.view[p] = [job |-> machine[p].file, high |-> TRUE] /\ p \in Printer
    BY <1>0, <1>5, <1>6, <1>7 DEF Checks, RequestOK
  <2>2. machine[p].file # None /\ Completed(r.view[p])
    BY <1>7, <2>1 DEF PlateInv, WorldInv, Completed
  <2>3. CASE p \notin r.todo
    <3>1. row[p] # Absent /\ row[p].last = machine[p].file /\ row[p].state = "clear"
      BY <1>6, <2>1, <2>2, <2>3 DEF ToFlag
    <3>2. Gone(p, machine[p].file)
      BY <1>7, <2>1, <2>2, <3>1 DEF PlateInv, RowInv
    <3> QED
      BY <1>7, <3>2 DEF Gone
  <2> QED
    BY <2>1, <2>3
<1>8. Marks(t)' /\ Checks(t)'
  BY <1>0, <1>3, <1>4, <1>6, <1>7, ContinuePlate DEF table
<1> QED
  BY <1>0, <1>3, <1>8, WorldStays, PlateFrame DEF PlateInv, table

LEMMA ReadBackPlate ==
  ASSUME FloorAssumption, PlateInv, TypeOK', NEW t \in Request, ReadBack(t) PROVE PlateInv'
<1>0. at[t].pc = "back" /\ Checks(t) /\ RequestOK(at[t]) /\ UNCHANGED <<world, row, early>>
  BY TypeSplit DEF ReadBack, PlateInv
<1>1. PICK q \in Printer : Turn(at[t].todo, q) /\ Continue(t, Back(t, q))
  BY DEF ReadBack, Back
<1>2. PICK r : r = Back(t, q)
  OBVIOUS
<1>3. at'[t] = Continued(r) /\ \A u \in Request \ {t} : at'[u] = at[u]
  <2>1. Set(t, Continued(r))
    BY <1>1, <1>2 DEF Continue, Continued
  <2> QED
    BY <2>1, OneRequest DEF PlateInv
<1>5. PICK p : p = at[t].printer
  OBVIOUS
<1>6. /\ r \in RequestState /\ r.op = at[t].op /\ r.printer = p /\ r.view = at[t].view
      /\ r.overtaken = at[t].overtaken /\ r.todo = at[t].todo \ {q}
      /\ r.seen = IF q = p THEN row[q] ELSE at[t].seen
  BY <1>0, <1>2, <1>5, BackOK DEF PlateInv
<1>7. ASSUME r.op = "start", ~r.overtaken, p \notin early, Full(p), r.view[p] # Blind
      PROVE  /\ r.view[p] = [job |-> machine[p].file, high |-> TRUE]
             /\ p \in r.todo \/ (r.seen # Absent /\ r.seen.state = "needs_clearance")
  <2>1. /\ r.view[p] = [job |-> machine[p].file, high |-> TRUE]
        /\ p \in at[t].todo \/ (at[t].seen # Absent /\ at[t].seen.state = "needs_clearance")
        /\ Turn(at[t].todo, p) => Flagged(p)
    BY <1>0, <1>5, <1>6, <1>7 DEF Checks
  <2>2. CASE q = p
    BY <1>1, <1>6, <2>1, <2>2 DEF Flagged
  <2>3. CASE q # p
    BY <1>6, <2>1, <2>3
  <2> QED
    BY <2>1, <2>2, <2>3
<1>8. Marks(t)' /\ Checks(t)'
  BY <1>0, <1>3, <1>6, <1>7, ContinuePlate
<1> QED
  BY <1>0, <1>3, <1>8, WorldStays, PlateFrame DEF PlateInv

\* What a refresh writes: a flag, or a first row that names nothing; everything
\* else is early.
LEMMA UpsertPlate ==
  ASSUME FloorAssumption, PlateInv, TypeOK', NEW t \in Request, Upsert(t) PROVE PlateInv'
<1>0. at[t].pc = "write" /\ RequestOK(at[t]) /\ UNCHANGED world
  BY TypeSplit DEF Upsert, PlateInv
<1>1. PICK p \in Printer :
        /\ Turn(at[t].todo, p)
        /\ row' = [row EXCEPT ![p] =
             [state |-> IF Completed(at[t].view[p]) THEN "needs_clearance"
                        ELSE IF p \in Locked THEN "locked" ELSE "clear",
              last |-> at[t].view[p].job]]
        /\ early' = IF Completed(at[t].view[p]) \/ (at[t].view[p].job = None /\ row[p] = Absent)
                    THEN early ELSE early \cup {p}
  BY DEF Upsert
<1>2. PICK v : v = at[t].view[p]
  OBVIOUS
<1>3. /\ row'[p].last = v.job /\ row'[p] # Absent
      /\ row'[p].state = "needs_clearance" <=> Completed(v)
      /\ \A q \in Printer \ {p} : row'[q] = row[q]
  <2>1. PICK x : x = [state |-> IF Completed(v) THEN "needs_clearance"
                                ELSE IF p \in Locked THEN "locked" ELSE "clear",
                      last |-> v.job]
    OBVIOUS
  <2>2. row' = [row EXCEPT ![p] = x] /\ DOMAIN row = Printer
    BY <1>1, <1>2, <2>1 DEF PlateInv, TypeOK
  <2>3. v.job \in File \cup {None}
    BY <1>0, <1>2 DEF RequestOK, RequestState, View
  <2>4. x # Absent /\ x.last = v.job /\ (x.state = "needs_clearance" <=> Completed(v))
    <3>1. x \in Row
      BY <2>1, <2>3 DEF Row
    <3> QED
      BY <2>1, <3>1 DEF FloorAssumption
  <2> QED
    BY <2>2, <2>4
<1>4. WorldInv' /\ WorldKept
  BY <1>0, WorldStays DEF PlateInv
<1>5. early \subseteq early'
  BY <1>1
<1>6. RowInv'
  <2> SUFFICES ASSUME NEW q \in Printer, q \notin early', row'[q] # Absent,
                      row'[q].state # "needs_clearance", row'[q].last # None
               PROVE  Gone(q, row[q].last)'
    BY DEF RowInv
  <2>1. CASE q = p
    BY <1>1, <1>2, <1>3, <2>1
  <2>2. CASE q # p
    <3>1. PICK f : f = row[q].last
      OBVIOUS
    <3>2. row'[q] = row[q] /\ Gone(q, f)
      BY <1>3, <1>5, <2>2, <3>1 DEF PlateInv, RowInv
    <3>3. Gone(q, f)'
      BY <1>0, <3>2 DEF Gone, Full, world
    <3> QED
      BY <3>1, <3>2, <3>3 DEF Gone
  <2> QED
    BY <2>1, <2>2
<1>7. \A q \in Printer : Flagged(q) /\ q \notin early' => Flagged(q)'
  <2> SUFFICES ASSUME NEW q \in Printer, Flagged(q), q \notin early' PROVE Flagged(q)'
    OBVIOUS
  <2>1. CASE q = p
    BY <1>1, <1>2, <1>3, <2>1 DEF Flagged
  <2>2. CASE q # p
    BY <1>3, <2>2 DEF Flagged
  <2> QED
    BY <2>1, <2>2
<1>8. /\ \A u \in Request \ {t} : at'[u] = at[u]
      /\ at'[t] = [at[t] EXCEPT !.pc = "back"] /\ at[t] \in RequestState
  BY DEF Upsert, Goto, PlateInv, TypeOK
<1>9. ASSUME NEW u \in Request \ {t} PROVE Marks(u)' /\ Checks(u)'
  <2>1. Rests(u)
    BY <1>8 DEF Rests
  <2>2. PICK q : q = at[u].printer
    OBVIOUS
  <2>3. at[u].op = "start" => q \in Printer
    BY <2>2 DEF PlateInv, TypeOK
  <2>4. at[u].op = "start" /\ Flagged(q) => Flagged(q)' \/ q \in early'
    BY <1>7, <2>3
  <2>5. at[u].op = "start" /\ Flagged(at[u].printer)
          => Flagged(at[u].printer)' \/ at[u].printer \in early'
    BY <1>8, <2>2, <2>4 DEF Flagged
  <2> QED
    BY <1>4, <1>5, <2>1, <2>5, OthersRest
<1>10. Marks(t)' /\ Checks(t)'
  <2>0. PICK q : q = at[t].printer
    OBVIOUS
  <2>1. /\ at'[t].op = at[t].op /\ at'[t].pc = "back" /\ at'[t].printer = q
        /\ at'[t].view = at[t].view /\ at'[t].seen = at[t].seen /\ at'[t].todo = at[t].todo
        /\ at'[t].saw = at[t].saw /\ at'[t].overtaken = at[t].overtaken
    BY <1>8, <2>0 DEF RequestState
  <2>2. Marks(t)'
    BY <2>1 DEF Marks
  <2>3. CASE at[t].op = "start" /\ ~at[t].overtaken /\ q \notin early' /\ Full(q)'
    <3>1. q \notin early /\ Full(q) /\ UNCHANGED <<machine, plate>>
      BY <1>0, <1>5, <2>3 DEF world, Full
    <3>2. /\ at[t].view[q] # Blind => at[t].view[q] = [job |-> machine[q].file, high |-> TRUE]
          /\ at[t].view[q] # Blind
               => q \in at[t].todo \/ (at[t].seen # Absent /\ at[t].seen.state = "needs_clearance")
      BY <1>0, <2>0, <2>3, <3>1 DEF Checks, PlateInv
    <3>3. ASSUME Turn(at[t].todo, q), at[t].view[q] # Blind PROVE Flagged(q)'
      <4>1. q = p
        BY <1>1, <3>3, OneTurn
      <4>2. machine[q].file # None
        BY <3>1, <4>1 DEF PlateInv, WorldInv
      <4>3. Completed(v)
        BY <1>2, <3>2, <3>3, <4>1, <4>2 DEF Completed
      <4> QED
        BY <1>3, <4>1, <4>3 DEF Flagged
    <3>4. Turn(at[t].todo, q)' <=> Turn(at[t].todo, q)
      BY <2>1 DEF Turn
    <3>5. Checks(t)'
      BY <2>1, <3>1, <3>2, <3>3, <3>4 DEF Checks
    <3> QED
      BY <2>2, <3>5
  <2>4. CASE ~(at[t].op = "start" /\ ~at[t].overtaken /\ q \notin early' /\ Full(q)')
    BY <2>1, <2>2, <2>4 DEF Checks
  <2> QED
    BY <2>3, <2>4
<1> QED
  BY <1>4, <1>6, <1>9, <1>10 DEF PlateInv

\* A mark that comes in time finds no finished part; one that is overtaken
\* overtakes the checks.
LEMMA MarkClearPlate ==
  ASSUME FloorAssumption, PlateInv, TypeOK', NEW t \in Request, MarkClear(t) PROVE PlateInv'
<1>0. at[t].pc = "mark" /\ Marks(t) /\ RequestOK(at[t]) /\ UNCHANGED <<world, early>>
  BY TypeSplit DEF MarkClear, PlateInv
<1>1. PICK p : p = at[t].printer
  OBVIOUS
<1>2. PICK f : f = at[t].view[p].job
  OBVIOUS
<1>3. /\ p \in Printer /\ f \in File \cup {None} /\ at[t].op = "clear"
      /\ f # None => Gone(p, f)
      /\ Full(p) => at[t].overtaken
  BY <1>0, <1>1, <1>2 DEF RequestOK, RequestState, View, Marks
<1>4. row'[p] = [state |-> "clear", last |-> f] /\ \A q \in Printer \ {p} : row'[q] = row[q]
  BY <1>1, <1>2, <1>3 DEF MarkClear, PlateInv, TypeOK
<1>5. WorldInv' /\ WorldKept
  BY <1>0, WorldStays DEF PlateInv
<1>6. RowInv'
  <2> SUFFICES ASSUME NEW q \in Printer, q \notin early, row'[q] # Absent,
                      row'[q].state # "needs_clearance", row'[q].last # None
               PROVE  Gone(q, row[q].last)'
    BY <1>0 DEF RowInv
  <2>1. PICK g : g = row'[q].last
    OBVIOUS
  <2>2. Gone(q, g)
    BY <1>3, <1>4, <2>1 DEF PlateInv, RowInv
  <2>3. Gone(q, g)'
    BY <1>0, <2>2 DEF Gone, Full, world
  <2> QED
    BY <2>1, <2>3 DEF Gone
<1>7. ASSUME NEW u \in Request \ {t} PROVE Marks(u)' /\ Checks(u)'
  <2>1. PICK q : q = at[u].printer
    OBVIOUS
  <2> DEFINE b == at[u].overtaken \/ (at[t].overtaken /\ q = p)
  <2>2. at'[u] = [at[u] EXCEPT !.overtaken = b] /\ at[u] \in RequestState
    BY <1>1, <2>1 DEF MarkClear, PlateInv, TypeOK
  <2>3. Rests(u) /\ (at'[u].overtaken <=> b)
    BY <2>2 DEF Rests, RequestState
  <2>4. at[u].op = "start" => q \in Printer
    BY <2>1 DEF PlateInv, TypeOK
  <2>5. at[u].op = "start" /\ ~b /\ Flagged(q) => Flagged(q)' \/ ~Full(q)'
    <3>1. CASE q = p
      BY <1>0, <1>3, <3>1 DEF Full, world
    <3>2. CASE q # p
      BY <1>4, <2>4, <3>2 DEF Flagged
    <3> QED
      BY <3>1, <3>2
  <2>6. at[u].op = "start" /\ ~at'[u].overtaken /\ Flagged(at[u].printer)
          => Flagged(at[u].printer)' \/ at[u].printer \in early' \/ ~Full(at[u].printer)'
    BY <2>1, <2>3, <2>5 DEF Flagged, Full, Rests
  <2>7. early \subseteq early'
    BY <1>0
  <2> QED
    BY <1>5, <2>3, <2>6, <2>7, OthersRest
<1>8. Marks(t)' /\ Checks(t)'
  <2>1. at'[t] = [at[t] EXCEPT !.pc = "dismiss"] /\ at[t] \in RequestState
    BY DEF MarkClear, PlateInv, TypeOK
  <2>2. at'[t].op = "clear" /\ at'[t].pc = "dismiss"
    BY <1>3, <2>1 DEF RequestState
  <2> QED
    BY <2>2 DEF Marks, Checks
<1> QED
  BY <1>5, <1>6, <1>7, <1>8 DEF PlateInv

\* The steps after the check.
LEMMA CheckIdlePlate ==
  ASSUME FloorAssumption, PlateInv, TypeOK', NEW t \in Request, CheckIdle(t) PROVE PlateInv'
<1>0. at[t].pc \in {"idle1", "idle2"} /\ Checks(t) /\ UNCHANGED <<world, table>>
  BY DEF CheckIdle, PlateInv
<1>1. \A u \in Request \ {t} : at'[u] = at[u]
  BY OneRequest DEF CheckIdle, Goto, Return, Set, PlateInv, TypeOK
<1>2. Marks(t)' /\ Checks(t)'
  <2>1. CASE Return(t)
    BY <2>1, OneRequest, DoneRests DEF Return, PlateInv
  <2>2. ASSUME NEW pc \in {"idle2", "post"}, Goto(t, pc) PROVE Marks(t)' /\ Checks(t)'
    <3>1. at'[t] = [at[t] EXCEPT !.pc = pc] /\ at[t] \in RequestState
      BY <2>2 DEF Goto, PlateInv, TypeOK
    <3>2. /\ at'[t].op = at[t].op /\ at'[t].pc = pc /\ at'[t].printer = at[t].printer
          /\ at'[t].saw = at[t].saw /\ at'[t].overtaken = at[t].overtaken
      BY <3>1 DEF RequestState
    <3>3. UNCHANGED <<plate, early>>
      BY <1>0 DEF world, table
    <3> QED
      BY <1>0, <2>2, <3>2, <3>3 DEF Marks, Checks, Full
  <2> QED
    BY <2>1, <2>2 DEF CheckIdle
<1> QED
  BY <1>0, <1>1, <1>2, WorldStays, PlateFrame DEF PlateInv, table

LEMMA ServePlate ==
  ASSUME FloorAssumption, ~Reprint, PlateInv, NEW t \in Request, Serve(t) PROVE PlateInv'
<1>0. TypeOK' /\ TypeOK /\ WorldInv
  BY ServeType DEF PlateInv
<1>1. CASE \E op \in {"start", "clear"}, p \in Printer : Ask(t, op, p)
  BY <1>0, <1>1, AskPlate
<1>2. CASE \E op \in {"plates", "cameras"} : Ask(t, op, None)
  BY <1>0, <1>2, AskPlate
<1>3. CASE Dismiss(t) \/ StartFails(t)
  <2>1. UNCHANGED <<world, row, early>> /\ Return(t)
    BY <1>3 DEF Dismiss, StartFails, table
  <2>2. at'[t] = NoRequest /\ \A u \in Request \ {t} : at'[u] = at[u]
    BY <1>0, <2>1, OneRequest DEF Return
  <2> QED
    BY <1>0, <2>1, <2>2, DoneRests, WorldStays, PlateFrame
<1>4. CASE Starts(t)
  <2>1. PICK f \in File : Begins(at[t].printer, f)
    BY <1>4 DEF Starts
  <2>2. at[t].printer \in Printer /\ UNCHANGED <<row, early>> /\ Return(t)
    BY <1>0, <1>4 DEF Starts, TypeOK, table
  <2>3. WorldInv' /\ WorldKept
    BY <1>0, <2>1, <2>2, BeginsKeeps DEF FloorAssumption
  <2>4. at'[t] = NoRequest /\ \A u \in Request \ {t} : at'[u] = at[u]
    BY <1>0, <2>2, OneRequest DEF Return
  <2> QED
    BY <1>0, <2>2, <2>3, <2>4, DoneRests, PlateFrame
<1> QED
  BY <1>0, <1>1, <1>2, <1>3, <1>4, ReadRowsPlate, UpsertPlate, ReadBackPlate, MarkClearPlate,
     CheckIdlePlate DEF Serve

LEMMA InitPlate == FloorAssumption /\ Init => PlateInv
<1> SUFFICES ASSUME FloorAssumption, Init PROVE PlateInv
  OBVIOUS
<1>1. TypeOK
  BY InitTypes
<1>2. WorldInv
  BY DEF Init, WorldInv, Full
<1>3. RowInv
  BY DEF Init, RowInv
<1>4. \A t \in Request : Marks(t) /\ Checks(t)
  BY DEF Init, Marks, Checks, NoRequest
<1> QED
  BY <1>1, <1>2, <1>3, <1>4 DEF PlateInv

LEMMA NextPlate == FloorAssumption /\ ~Reprint /\ PlateInv /\ [Next]_floorVars => PlateInv'
<1> SUFFICES ASSUME FloorAssumption, ~Reprint, PlateInv, [Next]_floorVars PROVE PlateInv'
  OBVIOUS
<1>1. CASE UNCHANGED floorVars
  <2>1. TypeOK'
    BY NextTypes DEF PlateInv
  <2>2. UNCHANGED <<row, early, at, world>>
    BY <1>1 DEF floorVars, world
  <2>3. WorldInv' /\ WorldKept
    BY <2>2, WorldStays DEF PlateInv
  <2>4. \A t \in Request : Marks(t)' /\ Checks(t)'
    BY <2>2, <2>3, OthersRest DEF Rests, Flagged
  <2> QED
    BY <2>1, <2>2, <2>3, <2>4, RowFrame DEF PlateInv
<1> QED
  BY <1>1, FloorPlate, ServePlate DEF Next

\* Where no file is printed twice, the upload route starts no print over a
\* finished part if its own check had telemetry and no print has ended since.
THEOREM ChecksHold == ASSUME FloorAssumption, ~Reprint PROVE Spec => CheckedPlateIsEmpty
<1>1. ASSUME PlateInv, NEW t \in Request, at[t].pc = "post", at[t].saw, ~at[t].overtaken,
             at[t].printer \notin early
      PROVE  plate[at[t].printer] # "complete"
  <2>1. at[t].op = "start" /\ Checks(t)
    BY <1>1 DEF PlateInv, TypeOK
  <2> QED
    BY <1>1, <2>1 DEF Checks, Full
<1>2. PlateInv =>
        \A t \in Request :
          /\ at[t].pc = "post" /\ at'[t].pc = "idle" /\ log'[at[t].printer] # log[at[t].printer]
          /\ at[t].saw /\ ~at[t].overtaken /\ at[t].printer \notin early
          => plate[at[t].printer] # "complete"
  BY <1>1
<1> QED
  BY <1>2, InitPlate, NextPlate, PTL DEF Spec, CheckedPlateIsEmpty

=============================================================================
