--------------------------- MODULE DispatchProofs ---------------------------
(* Proofs about the token supervisor and the provider probes, for any number of *)
(* callers, tokens and printers, and any size of the window and the ledger.     *)
EXTENDS Dispatch, TLAPS

-----------------------------------------------------------------------------
(* Types                                                                    *)

\* What a caller's record is like at each of its stages.
CallerOK(r) ==
  /\ r \in Call
  /\ r.pc # "idle" => r.unit # None /\ r.kind # "none"
  /\ r.pc \in {"wait", "handle"} => r.mutex # None
  /\ r.pc \in {"tool", "wait", "handle"} => r.kind # "probe"

TypeInv ==
  /\ registry \in [Token -> TokenState]
  /\ mutexOf \in [Unit -> Mutex \cup {None}] /\ holder \in [Mutex -> Caller \cup {None}]
  /\ caller \in [Caller -> Call] /\ \A c \in Caller : CallerOK(caller[c])
  /\ event \in Seq(Event) /\ Len(event) \in 0..MaxEvents
  /\ clock \in 0..MaxClock

LEMMA NoCallOK ==
  ASSUME DispatchAssumption PROVE CallerOK(NoCall)
BY DEF DispatchAssumption, CallerOK, NoCall, Call, Verdict

\* A step that moves one caller to a good record keeps the others' records good.
LEMMA SetKeeps ==
  ASSUME TypeInv, NEW c \in Caller, NEW r, CallerOK(r), Set(c, r)
  PROVE  /\ caller' \in [Caller -> Call] /\ \A d \in Caller : CallerOK(caller'[d])
         /\ \A d \in Caller : caller'[d] = IF d = c THEN r ELSE caller[d]
BY DEF TypeInv, CallerOK, Set

\* A caller's record is one of the next event.
Logged(r) == [kind |-> r.kind, token |-> r.token, unit |-> r.unit, verdict |-> r.verdict,
              ts |-> r.ts, read |-> r.read]

LEMMA LogAppends ==
  ASSUME DispatchAssumption, TypeInv, NEW c \in Caller, Log(c)
  PROVE  /\ event' = Append(event, Logged(caller[c])) /\ Logged(caller[c]) \in Event
         /\ event' \in Seq(Event) /\ Len(event') = Len(event) + 1 /\ Len(event') \in 0..MaxEvents
         /\ \A i \in 1..Len(event') :
              event'[i] = IF i = Len(event) + 1 THEN Logged(caller[c]) ELSE event[i]
         /\ Set(c, NoCall)
<1>1. event' = Append(event, Logged(caller[c])) /\ Len(event) < MaxEvents /\ Set(c, NoCall)
  BY DEF Log, Append1, Logged
<1>2. CallerOK(caller[c]) /\ caller[c].pc = "log"
  BY DEF TypeInv, Log
<1>3. Logged(caller[c]) \in Event
  BY <1>2 DEF CallerOK, Call, Event, Logged
<1> QED
  BY <1>1, <1>3 DEF TypeInv, DispatchAssumption

LEMMA TypeInit ==
  ASSUME DispatchAssumption, Init PROVE TypeInv
<1>1. caller \in [Caller -> Call] /\ \A c \in Caller : CallerOK(caller[c])
  BY NoCallOK DEF Init, CallerOK
<1>2. event \in Seq(Event) /\ Len(event) \in 0..MaxEvents
  BY DEF Init, DispatchAssumption
<1> QED
  BY <1>1, <1>2 DEF Init, TypeInv, TokenState, DispatchAssumption

LEMMA TypeWork ==
  ASSUME DispatchAssumption, TypeInv, NEW c \in Caller, Work(c) PROVE TypeInv'
<1>0. CallerOK(caller[c])
  BY DEF TypeInv
<1>1. ASSUME NEW r, CallerOK(r), Set(c, r), UNCHANGED <<registry, mutexOf, holder, event, clock>>
      PROVE  TypeInv'
  BY <1>1, SetKeeps DEF TypeInv
<1>2. ASSUME NEW kind \in {"poll", "plan"}, NEW k \in Token \cup {None}, NEW u \in Unit,
             Dispatch(c, kind, k, u)
      PROVE  TypeInv'
  <2> DEFINE call == [NoCall EXCEPT !.kind = kind, !.token = k, !.unit = u]
             granted == [call EXCEPT !.pc = "tool"]
             refused == [call EXCEPT !.pc = "log", !.token = None, !.verdict = "fail"]
  <2>1. CallerOK(granted) /\ CallerOK(refused)
    BY NoCallOK DEF CallerOK, Call, NoCall, Verdict, DispatchAssumption
  <2>2. CASE Set(c, refused) /\ UNCHANGED registry
    BY <1>1, <1>2, <2>1, <2>2 DEF Dispatch, mutexes
  <2>3. CASE Set(c, granted) /\ registry' = [registry EXCEPT ![k] = "consumed"]
    BY <1>2, <2>1, <2>3, SetKeeps DEF Dispatch, mutexes, TypeInv, TokenState
  <2> QED
    BY <1>2, <2>2, <2>3 DEF Dispatch
<1>3. CASE Unregistered(c)
  <2>1. CallerOK([caller[c] EXCEPT !.pc = "log", !.verdict = "fail"])
    BY <1>0, <1>3 DEF Unregistered, CallerOK, Call, Verdict
  <2> QED
    BY <1>1, <1>3, <2>1 DEF Unregistered, mutexes
<1>4. CASE mutex_for(c)
  <2> DEFINE u == caller[c].unit
             m == IF mutexOf[u] = None THEN <<c, u>> ELSE mutexOf[u]
  <2>1. u \in Unit /\ m \in Mutex /\ m # None
    BY <1>0, <1>4 DEF mutex_for, CallerOK, Call, TypeInv, Mutex, DispatchAssumption
  <2>2. CallerOK([caller[c] EXCEPT !.pc = "wait", !.mutex = m])
    BY <1>0, <1>4, <2>1 DEF mutex_for, CallerOK, Call
  <2>3. mutexOf' \in [Unit -> Mutex \cup {None}]
    BY <1>4, <2>1 DEF mutex_for, TypeInv
  <2> QED
    BY <1>4, <2>2, <2>3, SetKeeps DEF mutex_for, TypeInv
<1>5. CASE Enter(c)
  <2>1. CallerOK([caller[c] EXCEPT !.pc = "handle"])
    BY <1>0, <1>5 DEF Enter, CallerOK, Call
  <2>2. holder' \in [Mutex -> Caller \cup {None}]
    BY <1>0, <1>5 DEF Enter, TypeInv
  <2> QED
    BY <1>5, <2>1, <2>2, SetKeeps DEF Enter, TypeInv
<1>6. CASE Handle(c)
  <2>1. \A v \in {"pass", "fail"} : CallerOK([caller[c] EXCEPT !.pc = "log", !.verdict = v])
    BY <1>0, <1>6 DEF Handle, CallerOK, Call, Verdict
  <2>2. holder' \in [Mutex -> Caller \cup {None}]
    BY <1>6 DEF Handle, TypeInv
  <2>3. PICK r : CallerOK(r) /\ Set(c, r)
    BY <1>6, <2>1, NoCallOK DEF Handle
  <2> QED
    BY <1>6, <2>2, <2>3, SetKeeps DEF Handle, TypeInv
<1>7. CASE Log(c)
  BY <1>7, LogAppends, NoCallOK, SetKeeps DEF Log, mutexes, TypeInv
<1>8. ASSUME NEW u \in Unit, Probe(c, u) PROVE TypeInv'
  <2>1. CallerOK([NoCall EXCEPT !.pc = "rate", !.kind = "probe", !.unit = u, !.ts = clock])
    BY NoCallOK DEF CallerOK, Call, NoCall, Verdict, DispatchAssumption, TypeInv
  <2> QED
    BY <1>1, <1>8, <2>1 DEF Probe, mutexes
<1>9. CASE RateCap(c)
  <2>1. CallerOK([caller[c] EXCEPT !.pc = "call", !.read = Len(event)])
    BY <1>0, <1>9 DEF RateCap, CallerOK, Call, TypeInv
  <2>2. PICK r : CallerOK(r) /\ Set(c, r)
    BY <1>9, <2>1, NoCallOK DEF RateCap
  <2> QED
    BY <1>1, <1>9, <2>2 DEF RateCap, mutexes
<1>10. CASE CallProvider(c)
  <2>1. \A v \in {"pass", "fail"} : CallerOK([caller[c] EXCEPT !.pc = "log", !.verdict = v])
    BY <1>0, <1>10 DEF CallProvider, CallerOK, Call, Verdict
  <2>2. PICK r : CallerOK(r) /\ Set(c, r)
    BY <1>10, <2>1, NoCallOK DEF CallProvider
  <2> QED
    BY <1>1, <1>10, <2>2 DEF CallProvider, mutexes
<1> QED
  BY <1>2, <1>3, <1>4, <1>5, <1>6, <1>7, <1>8, <1>9, <1>10 DEF Work

\* The steps that are no caller's move no caller, no mutex and no event.
Elsewhere == (\E k \in Token : issue_token(k) \/ Expire(k)) \/ Tick \/ UNCHANGED dispatchVars

LEMMA ElsewhereKeeps ==
  ASSUME DispatchAssumption, TypeInv, Elsewhere
  PROVE  /\ TypeInv' /\ UNCHANGED <<mutexOf, holder, caller, event>>
         /\ \A k \in Token : registry[k] = "consumed" => registry'[k] = "consumed"
<1> DEFINE Goal == /\ TypeInv' /\ UNCHANGED <<mutexOf, holder, caller, event>>
                   /\ \A k \in Token : registry[k] = "consumed" => registry'[k] = "consumed"
<1>1. ASSUME NEW k \in Token, issue_token(k) PROVE Goal
  BY <1>1 DEF issue_token, mutexes, TypeInv, TokenState
<1>2. ASSUME NEW k \in Token, Expire(k) PROVE Goal
  BY <1>2 DEF Expire, mutexes, TypeInv, TokenState
<1>3. CASE Tick
  <2>1. clock' \in 0..MaxClock
    BY <1>3 DEF Tick, TypeInv, DispatchAssumption
  <2> QED
    BY <1>3, <2>1 DEF Tick, mutexes, TypeInv
<1>4. CASE UNCHANGED dispatchVars
  BY <1>4 DEF dispatchVars, mutexes, TypeInv
<1> QED
  BY <1>1, <1>2, <1>3, <1>4 DEF Elsewhere

LEMMA Steps ==
  ASSUME [Next]_dispatchVars PROVE (\E c \in Caller : Work(c)) \/ Elsewhere
BY DEF Next, Elsewhere

LEMMA TypeStep ==
  ASSUME DispatchAssumption, TypeInv, [Next]_dispatchVars PROVE TypeInv'
BY Steps, TypeWork, ElsewhereKeeps

\* The registry, the mutexes, the callers and the ledger keep their types, whatever
\* the threads and the processes of the probes do.
THEOREM DispatchTypeCorrect ==
  ASSUME DispatchAssumption PROVE Spec => []TypeOK
<1>1. Init => TypeInv
  BY TypeInit
<1>2. TypeInv /\ [Next]_dispatchVars => TypeInv'
  BY TypeStep
<1>3. TypeInv => TypeOK
  BY DEF TypeInv, TypeOK, CallerOK
<1> QED
  BY <1>1, <1>2, <1>3, PTL DEF Spec

-----------------------------------------------------------------------------
(* Tokens                                                                   *)

\* What is behind a caller or an event is a token that is spent: a validation that
\* finds one still issued cannot meet it again.
Spent ==
  /\ \A c \in Caller : Granted(c) => registry[caller[c].token] = "consumed"
  /\ \A i \in 1..Len(event) : event[i].token # None => registry[event[i].token] = "consumed"

TokenInv == TypeInv /\ Spent /\ TokenIsSpentOnce

LEMMA TokenTypes ==
  ASSUME TypeInv
  PROVE  /\ \A c \in Caller : caller[c].token \in Token \cup {None}
         /\ \A i \in 1..Len(event) : event[i] \in Event /\ event[i].token \in Token \cup {None}
<1>1. \A i \in 1..Len(event) : event[i] \in Event
  BY DEF TypeInv
<1>2. \A e \in Event : e.token \in Token \cup {None}
  BY DEF Event
<1>3. \A r \in Call : r.token \in Token \cup {None}
  BY DEF Call
<1> QED
  BY <1>1, <1>2, <1>3 DEF TypeInv

\* A caller that holds no token but one it held before, while the ledger stays, takes
\* nothing from anyone.
LEMMA NoNewToken ==
  ASSUME TokenInv, NEW c \in Caller, NEW r, Set(c, r), UNCHANGED event,
         r.token \in {None, caller[c].token},
         \A k \in Token : registry[k] = "consumed" => registry'[k] = "consumed"
  PROVE  Spent' /\ TokenIsSpentOnce'
<1>1. \A d \in Caller : caller'[d] = IF d = c THEN r ELSE caller[d]
  BY DEF Set, TokenInv, TypeInv
<1>2. \A d \in Caller : caller[d].token \in Token \cup {None}
  BY TokenTypes DEF TokenInv
<1>3. \A i \in 1..Len(event) : event[i].token \in Token \cup {None}
  BY TokenTypes DEF TokenInv
<1>4. \A d \in Caller : caller'[d].token \in {None, caller[d].token}
  BY <1>1
<1>5. Spent'
  BY <1>2, <1>3, <1>4 DEF TokenInv, Spent, Granted
<1>6. TokenIsSpentOnce'
  BY <1>4 DEF TokenInv, TokenIsSpentOnce, Granted
<1> QED
  BY <1>5, <1>6

LEMMA TokenWork ==
  ASSUME DispatchAssumption, TokenInv, NEW c \in Caller, Work(c)
  PROVE  Spent' /\ TokenIsSpentOnce'
<1> USE DEF TokenInv
<1>0. /\ \A d \in Caller : caller[d].token \in Token \cup {None}
      /\ \A i \in 1..Len(event) : event[i].token \in Token \cup {None}
  BY TokenTypes
<1>1. ASSUME NEW r, Set(c, r), r.token \in {None, caller[c].token}, UNCHANGED <<registry, event>>
      PROVE  Spent' /\ TokenIsSpentOnce'
  BY <1>1, NoNewToken
<1>2. ASSUME NEW kind \in {"poll", "plan"}, NEW k \in Token \cup {None}, NEW u \in Unit,
             Dispatch(c, kind, k, u)
      PROVE  Spent' /\ TokenIsSpentOnce'
  <2> DEFINE call == [NoCall EXCEPT !.kind = kind, !.token = k, !.unit = u]
             granted == [call EXCEPT !.pc = "tool"]
             refused == [call EXCEPT !.pc = "log", !.token = None, !.verdict = "fail"]
  <2>1. granted.token = k /\ refused.token = None
    BY DEF NoCall
  <2>2. CASE Set(c, refused) /\ UNCHANGED registry
    BY <1>1, <1>2, <2>1, <2>2 DEF Dispatch
  <2>3. CASE /\ k # None /\ Valid(k) /\ Set(c, granted)
             /\ registry' = [registry EXCEPT ![k] = "consumed"]
    <3>1. /\ \A d \in Caller : caller'[d] = IF d = c THEN granted ELSE caller[d]
          /\ event' = event
      BY <1>2, <2>3 DEF Dispatch, Set, TypeInv
    <3>2. \A j \in Token : registry'[j] = IF j = k THEN "consumed" ELSE registry[j]
      BY <2>3 DEF TypeInv
    <3>3. /\ \A d \in Caller : caller[d].token # k
          /\ \A i \in 1..Len(event) : event[i].token # k
      BY <2>3 DEF Valid, Spent, Granted
    <3>4. /\ \A d \in Caller : caller'[d].token = IF d = c THEN k ELSE caller[d].token
          /\ Len(event') = Len(event)
      BY <2>1, <3>1
    <3>5. Spent'
      BY <1>0, <2>3, <3>1, <3>2, <3>4 DEF Spent, Granted
    <3>6. TokenIsSpentOnce'
      BY <3>1, <3>3, <3>4 DEF TokenIsSpentOnce, Granted
    <3> QED
      BY <3>5, <3>6
  <2> QED
    BY <1>2, <2>2, <2>3 DEF Dispatch
<1>3. CASE Unregistered(c) \/ Handle(c) \/ CallProvider(c)
  <2>1. /\ NoCall.token = None
        /\ \A v : [caller[c] EXCEPT !.pc = "log", !.verdict = v].token = caller[c].token
    BY DEF NoCall, TypeInv, Call
  <2> QED
    BY <1>1, <1>3, <2>1 DEF Unregistered, Handle, CallProvider
<1>4. CASE mutex_for(c) \/ Enter(c) \/ RateCap(c)
  <2>1. /\ NoCall.token = None
        /\ [caller[c] EXCEPT !.pc = "handle"].token = caller[c].token
        /\ [caller[c] EXCEPT !.pc = "call", !.read = Len(event)].token = caller[c].token
        /\ \A m : [caller[c] EXCEPT !.pc = "wait", !.mutex = m].token = caller[c].token
    BY DEF NoCall, TypeInv, Call
  <2>2. PICK r : Set(c, r) /\ r.token \in {None, caller[c].token}
    BY <1>4, <2>1 DEF mutex_for, Enter, RateCap
  <2> QED
    BY <1>1, <1>4, <2>2 DEF mutex_for, Enter, RateCap
<1>5. ASSUME NEW u \in Unit, Probe(c, u) PROVE Spent' /\ TokenIsSpentOnce'
  <2>1. [NoCall EXCEPT !.pc = "rate", !.kind = "probe", !.unit = u, !.ts = clock].token = None
    BY DEF NoCall
  <2> QED
    BY <1>1, <1>5, <2>1 DEF Probe
<1>6. CASE Log(c)
  <2>1. /\ \A i \in 1..Len(event') :
             event'[i].token = IF i = Len(event) + 1 THEN caller[c].token ELSE event[i].token
        /\ Len(event') = Len(event) + 1 /\ Len(event) \in Nat
    <3>1. Logged(caller[c]).token = caller[c].token
      BY DEF Logged
    <3> QED
      BY <1>6, <3>1, LogAppends DEF TypeInv
  <2>2. \A d \in Caller : caller'[d].token = IF d = c THEN None ELSE caller[d].token
    BY <1>6, LogAppends DEF Set, TypeInv, NoCall
  <2>3. registry' = registry
    BY <1>6 DEF Log
  <2>4. Spent'
    BY <2>1, <2>2, <2>3 DEF Spent, Granted
  <2>5. TokenIsSpentOnce'
    BY <2>1, <2>2 DEF TokenIsSpentOnce, Granted
  <2> QED
    BY <2>4, <2>5
<1> QED
  BY <1>2, <1>3, <1>4, <1>5, <1>6 DEF Work

\* However many threads dispatch with the same token at a time, one of them is let
\* through, and none after it: the validation and the consumption are one step.
THEOREM TokensAreSpentOnce ==
  ASSUME DispatchAssumption PROVE Spec => []TokenIsSpentOnce
<1>1. Init => TokenInv
  <2> SUFFICES ASSUME Init PROVE TokenInv
    OBVIOUS
  <2>1. \A c \in Caller : caller[c].token = None
    BY DEF Init, NoCall
  <2>2. 1..Len(event) = {}
    BY DEF Init
  <2> QED
    BY <2>1, <2>2, TypeInit DEF TokenInv, Spent, TokenIsSpentOnce, Granted
<1>2. TokenInv /\ [Next]_dispatchVars => TokenInv'
  <2> SUFFICES ASSUME TokenInv, [Next]_dispatchVars PROVE TokenInv'
    OBVIOUS
  <2>1. TypeInv'
    BY TypeStep DEF TokenInv
  <2>2. CASE Elsewhere
    <3>1. UNCHANGED <<caller, event>> /\ \A k \in Token : registry[k] = "consumed" => registry'[k] = "consumed"
      BY <2>2, ElsewhereKeeps DEF TokenInv
    <3>2. /\ \A d \in Caller : caller[d].token \in Token \cup {None}
          /\ \A i \in 1..Len(event) : event[i].token \in Token \cup {None}
      BY TokenTypes DEF TokenInv
    <3> QED
      BY <2>1, <3>1, <3>2 DEF TokenInv, Spent, TokenIsSpentOnce, Granted
  <2> QED
    BY <2>1, <2>2, Steps, TokenWork DEF TokenInv
<1>3. TokenInv => TokenIsSpentOnce
  BY DEF TokenInv
<1> QED
  BY <1>1, <1>2, <1>3, PTL DEF Spec

-----------------------------------------------------------------------------
(* Mutexes                                                                  *)

\* Who waits or handles has the one mutex of its printer or run, which is never
\* replaced, and who handles holds it.
Held ==
  \A c \in Caller :
    /\ caller[c].pc \in {"wait", "handle"} => mutexOf[caller[c].unit] = caller[c].mutex
    /\ caller[c].pc = "handle" => holder[caller[c].mutex] = c

\* A step that leaves the mutexes alone, and moves a caller to where it needs none.
LEMMA NoMutex ==
  ASSUME TypeInv, Held, NEW c \in Caller, NEW r, Set(c, r), r.pc \notin {"wait", "handle"},
         UNCHANGED <<mutexOf, holder>>
  PROVE  Held'
<1>1. \A d \in Caller : caller'[d] = IF d = c THEN r ELSE caller[d]
  BY DEF Set, TypeInv
<1> QED
  BY <1>1 DEF Held

LEMMA HeldWork ==
  ASSUME DispatchAssumption, TypeInv, Held, NEW c \in Caller, Work(c)
  PROVE  Held'
<1>0. CallerOK(caller[c]) /\ \A d \in Caller : CallerOK(caller[d])
  BY DEF TypeInv
<1>1. CASE mutex_for(c)
  <2> DEFINE u == caller[c].unit
             m == IF mutexOf[u] = None THEN <<c, u>> ELSE mutexOf[u]
             r == [caller[c] EXCEPT !.pc = "wait", !.mutex = m]
  <2>1. u \in Unit /\ r.unit = u /\ r.mutex = m /\ r.pc = "wait"
    BY <1>0, <1>1 DEF mutex_for, CallerOK, Call
  <2>2. Set(c, r) /\ mutexOf' = [mutexOf EXCEPT ![u] = m] /\ holder' = holder
    BY <1>1 DEF mutex_for
  <2>3. \A d \in Caller : caller'[d] = IF d = c THEN r ELSE caller[d]
    BY <2>2 DEF Set, TypeInv
  <2>4. \A v \in Unit : mutexOf'[v] = IF v = u THEN m ELSE mutexOf[v]
    BY <2>1, <2>2 DEF TypeInv
  <2>5. ASSUME NEW d \in Caller, d # c, caller[d].pc \in {"wait", "handle"}
        PROVE  mutexOf'[caller[d].unit] = caller[d].mutex
    <3>1. caller[d].unit \in Unit /\ caller[d].mutex # None
      BY <1>0, <2>5 DEF CallerOK, Call
    <3>2. mutexOf[caller[d].unit] = caller[d].mutex
      BY <2>5 DEF Held
    <3> QED
      BY <2>4, <3>1, <3>2
  <2>6. mutexOf'[r.unit] = r.mutex
    BY <2>1, <2>4
  <2> HIDE DEF r
  <2> QED
    BY <2>1, <2>2, <2>3, <2>5, <2>6 DEF Held
<1>2. CASE Enter(c)
  <2> DEFINE r == [caller[c] EXCEPT !.pc = "handle"]
  <2>1. r.unit = caller[c].unit /\ r.mutex = caller[c].mutex /\ caller[c].mutex \in Mutex
    BY <1>0, <1>2 DEF Enter, CallerOK, Call
  <2>2. /\ \A d \in Caller : caller'[d] = IF d = c THEN r ELSE caller[d]
        /\ \A x \in Mutex : holder'[x] = IF x = caller[c].mutex THEN c ELSE holder[x]
        /\ mutexOf' = mutexOf /\ caller[c].pc = "wait" /\ holder[caller[c].mutex] = None
    BY <1>2 DEF Enter, Set, TypeInv
  <2>3. ASSUME NEW d \in Caller, d # c, caller[d].pc = "handle"
        PROVE  holder'[caller[d].mutex] = d
    <3>1. caller[d].mutex \in Mutex /\ holder[caller[d].mutex] = d /\ d # None
      BY <1>0, <2>3 DEF CallerOK, Call, Held, DispatchAssumption
    <3> QED
      BY <2>2, <3>1
  <2> HIDE DEF r
  <2> QED
    BY <2>1, <2>2, <2>3 DEF Held
<1>3. CASE Handle(c)
  <2>1. PICK r : Set(c, r) /\ r.pc \notin {"wait", "handle"}
    <3>1. \A v : [caller[c] EXCEPT !.pc = "log", !.verdict = v].pc = "log"
      BY <1>0 DEF CallerOK, Call
    <3>2. NoCall.pc = "idle"
      BY DEF NoCall
    <3> QED
      BY <1>3, <3>1, <3>2 DEF Handle
  <2>2. /\ \A d \in Caller : caller'[d] = IF d = c THEN r ELSE caller[d]
        /\ \A x \in Mutex : x # caller[c].mutex => holder'[x] = holder[x]
        /\ mutexOf' = mutexOf /\ holder[caller[c].mutex] = c
    BY <1>3, <2>1 DEF Handle, Set, TypeInv, Held
  <2>3. ASSUME NEW d \in Caller, d # c, caller[d].pc = "handle"
        PROVE  holder'[caller[d].mutex] = d
    <3>1. caller[d].mutex \in Mutex /\ holder[caller[d].mutex] = d
      BY <1>0, <2>3 DEF CallerOK, Call, Held
    <3> QED
      BY <2>2, <2>3, <3>1
  <2> QED
    BY <2>1, <2>2, <2>3 DEF Held
<1>4. ASSUME NEW kind \in {"poll", "plan"}, NEW k \in Token \cup {None}, NEW u \in Unit,
             Dispatch(c, kind, k, u)
      PROVE  Held'
  <2> DEFINE call == [NoCall EXCEPT !.kind = kind, !.token = k, !.unit = u]
  <2>1. /\ [call EXCEPT !.pc = "tool"].pc = "tool"
        /\ [call EXCEPT !.pc = "log", !.token = None, !.verdict = "fail"].pc = "log"
    BY DEF NoCall
  <2> QED
    BY <1>4, <2>1, NoMutex DEF Dispatch, mutexes
<1>5. CASE Unregistered(c) \/ CallProvider(c) \/ RateCap(c)
  <2>1. /\ NoCall.pc = "idle"
        /\ [caller[c] EXCEPT !.pc = "call", !.read = Len(event)].pc = "call"
        /\ \A v : [caller[c] EXCEPT !.pc = "log", !.verdict = v].pc = "log"
    BY <1>0 DEF NoCall, CallerOK, Call
  <2> QED
    BY <1>5, <2>1, NoMutex DEF Unregistered, CallProvider, RateCap, mutexes
<1>6. ASSUME NEW u \in Unit, Probe(c, u) PROVE Held'
  <2>1. [NoCall EXCEPT !.pc = "rate", !.kind = "probe", !.unit = u, !.ts = clock].pc = "rate"
    BY DEF NoCall
  <2> QED
    BY <1>6, <2>1, NoMutex DEF Probe, mutexes
<1>7. CASE Log(c)
  <2>1. NoCall.pc = "idle"
    BY DEF NoCall
  <2> QED
    BY <1>7, <2>1, NoMutex, LogAppends DEF Log, mutexes
<1> QED
  BY <1>1, <1>2, <1>3, <1>4, <1>5, <1>6, <1>7 DEF Work

\* A printer, or a run, has one mutex, made by whoever asks first and kept: no two
\* handlers are at work on the same one at a time.
THEOREM OneHandlerAtATime ==
  ASSUME DispatchAssumption PROVE Spec => []OneHandlerPerUnit
<1>1. Init => TypeInv /\ Held
  BY TypeInit DEF Init, Held, NoCall
<1>2. TypeInv /\ Held /\ [Next]_dispatchVars => (TypeInv /\ Held)'
  <2> SUFFICES ASSUME TypeInv, Held, [Next]_dispatchVars PROVE TypeInv' /\ Held'
    OBVIOUS
  <2>1. CASE Elsewhere
    BY <2>1, ElsewhereKeeps DEF Held
  <2> QED
    BY <2>1, Steps, TypeStep, HeldWork
<1>3. TypeInv /\ Held => OneHandlerPerUnit
  BY DEF Held, OneHandlerPerUnit
<1> QED
  BY <1>1, <1>2, <1>3, PTL DEF Spec

-----------------------------------------------------------------------------
(* Probes                                                                   *)

\* What a probe has read of the ledger held no probe of its provider in the window.
Paced(unit, ts, read) ==
  \A i \in 1..Len(event) :
    i <= read /\ event[i].kind = "probe" /\ event[i].unit = unit => ts > event[i].ts + Window

PaceInv ==
  /\ \A c \in Caller : caller[c].kind = "probe" /\ caller[c].pc \in {"call", "log"} =>
       caller[c].read <= Len(event) /\ Paced(caller[c].unit, caller[c].ts, caller[c].read)
  /\ \A j \in 1..Len(event) : event[j].kind = "probe" =>
       event[j].read < j /\ Paced(event[j].unit, event[j].ts, event[j].read)

\* The ledger stays, and the caller that moves is no probe that has read it, or was
\* already one.
LEMMA PaceKept ==
  ASSUME TypeInv, PaceInv, NEW c \in Caller, NEW r, Set(c, r), UNCHANGED event,
         \/ r.kind # "probe" \/ r.pc \notin {"call", "log"}
         \/ r.read <= Len(event) /\ Paced(r.unit, r.ts, r.read)
  PROVE  PaceInv'
<1>1. \A d \in Caller : caller'[d] = IF d = c THEN r ELSE caller[d]
  BY DEF Set, TypeInv
<1>2. \A u, t, n : Paced(u, t, n)' <=> Paced(u, t, n)
  BY DEF Paced
<1> QED
  BY <1>1, <1>2 DEF PaceInv

LEMMA PaceWork ==
  ASSUME DispatchAssumption, TypeInv, PaceInv, NEW c \in Caller, Work(c)
  PROVE  PaceInv'
<1>0. CallerOK(caller[c]) /\ caller[c] \in Call
  BY DEF TypeInv
<1>1. ASSUME NEW kind \in {"poll", "plan"}, NEW k \in Token \cup {None}, NEW u \in Unit,
             Dispatch(c, kind, k, u)
      PROVE  PaceInv'
  <2> DEFINE call == [NoCall EXCEPT !.kind = kind, !.token = k, !.unit = u]
  <2>1. /\ [call EXCEPT !.pc = "tool"].kind = kind
        /\ [call EXCEPT !.pc = "log", !.token = None, !.verdict = "fail"].kind = kind
    BY DEF NoCall
  <2> QED
    BY <1>1, <2>1, PaceKept DEF Dispatch
<1>2. CASE Unregistered(c) \/ Handle(c)
  <2>1. /\ NoCall.pc = "idle" /\ caller[c].kind # "probe"
        /\ \A v : [caller[c] EXCEPT !.pc = "log", !.verdict = v].kind = caller[c].kind
    BY <1>0, <1>2 DEF NoCall, CallerOK, Call, Unregistered, Handle
  <2> QED
    BY <1>2, <2>1, PaceKept DEF Unregistered, Handle
<1>3. CASE mutex_for(c) \/ Enter(c)
  <2>1. /\ [caller[c] EXCEPT !.pc = "handle"].pc = "handle"
        /\ \A m : [caller[c] EXCEPT !.pc = "wait", !.mutex = m].pc = "wait"
    BY <1>0 DEF Call
  <2>2. PICK r : Set(c, r) /\ r.pc \notin {"call", "log"}
    BY <1>3, <2>1 DEF mutex_for, Enter
  <2> QED
    BY <1>3, <2>2, PaceKept DEF mutex_for, Enter
<1>4. ASSUME NEW u \in Unit, Probe(c, u) PROVE PaceInv'
  <2>1. [NoCall EXCEPT !.pc = "rate", !.kind = "probe", !.unit = u, !.ts = clock].pc = "rate"
    BY DEF NoCall
  <2> QED
    BY <1>4, <2>1, PaceKept DEF Probe
<1>5. CASE CallProvider(c)
  <2>1. ASSUME NEW v, Set(c, [caller[c] EXCEPT !.pc = "log", !.verdict = v])
        PROVE  PaceInv'
    <3> DEFINE r == [caller[c] EXCEPT !.pc = "log", !.verdict = v]
    <3>1. r.kind = caller[c].kind /\ r.unit = caller[c].unit /\ r.ts = caller[c].ts /\ r.read = caller[c].read
      BY <1>0 DEF Call
    <3>2. caller[c].kind = "probe" =>
            caller[c].read <= Len(event) /\ Paced(caller[c].unit, caller[c].ts, caller[c].read)
      BY <1>5 DEF CallProvider, PaceInv
    <3>3. event' = event
      BY <1>5 DEF CallProvider
    <3> HIDE DEF r
    <3>4. r.kind # "probe" \/ (r.read <= Len(event) /\ Paced(r.unit, r.ts, r.read))
      BY <3>1, <3>2
    <3> QED
      BY <2>1, <3>3, <3>4, PaceKept DEF r
  <2>2. NoCall.pc = "idle"
    BY DEF NoCall
  <2> QED
    BY <1>5, <2>1, <2>2, PaceKept DEF CallProvider
<1>6. CASE RateCap(c)
  <2> DEFINE r == [caller[c] EXCEPT !.pc = "call", !.read = Len(event)]
  <2>1. NoCall.pc = "idle" /\ r.unit = caller[c].unit /\ r.ts = caller[c].ts /\ r.read = Len(event)
    BY <1>0 DEF NoCall, Call
  <2>2. ASSUME Recent(caller[c].unit, caller[c].ts) = {}
        PROVE  Paced(caller[c].unit, caller[c].ts, Len(event))
    <3>1. \A i \in 1..Len(event) : event[i].kind = "probe" /\ event[i].unit = caller[c].unit =>
            ~(event[i].ts + Window >= caller[c].ts)
      BY <2>2 DEF Recent
    <3>2. caller[c].ts \in Nat /\ Window \in Nat /\ \A e \in Event : e.ts \in Nat
      BY <1>0 DEF Call, Event, DispatchAssumption
    <3> QED
      BY <3>1, <3>2, TokenTypes DEF Paced
  <2>3. Len(event) \in Nat
    BY DEF TypeInv
  <2> HIDE DEF r
  <2>4. \/ Set(c, NoCall)
        \/ Set(c, r) /\ r.read <= Len(event) /\ Paced(r.unit, r.ts, r.read)
    BY <1>6, <2>1, <2>2, <2>3 DEF RateCap, r
  <2> QED
    BY <1>6, <2>1, <2>4, PaceKept DEF RateCap
<1>7. CASE Log(c)
  <2> DEFINE n == Len(event) + 1
             e == Logged(caller[c])
  <2>1. e.kind = caller[c].kind /\ e.unit = caller[c].unit /\ e.ts = caller[c].ts /\ e.read = caller[c].read
    BY DEF Logged
  <2>2. /\ Len(event') = n /\ Len(event) \in Nat
        /\ \A i \in 1..n : event'[i] = IF i = n THEN e ELSE event[i]
    BY <1>7, LogAppends DEF TypeInv
  <2>3. \A d \in Caller : caller'[d] = IF d = c THEN NoCall ELSE caller[d]
    BY <1>7, LogAppends DEF Set, TypeInv
  <2>4. \A d \in Caller : caller[d].read \in Nat
    BY DEF TypeInv, Call
  <2>5. \A i \in 1..Len(event) : event[i].read \in Nat
    BY TokenTypes DEF Event
  <2> HIDE DEF e
  <2>6. ASSUME NEW u, NEW t, NEW k \in Nat, k <= Len(event), Paced(u, t, k) PROVE Paced(u, t, k)'
    BY <2>2, <2>6 DEF Paced
  <2>7. ASSUME NEW d \in Caller, caller'[d].kind = "probe", caller'[d].pc \in {"call", "log"}
        PROVE  caller'[d].read <= Len(event') /\ Paced(caller[d].unit, caller[d].ts, caller[d].read)'
    <3>1. d # c /\ caller'[d] = caller[d]
      BY <2>3, <2>7 DEF NoCall
    <3>2. caller[d].read <= Len(event) /\ Paced(caller[d].unit, caller[d].ts, caller[d].read)
      BY <2>7, <3>1 DEF PaceInv
    <3> QED
      BY <2>2, <2>4, <2>6, <3>1, <3>2 DEF Paced
  <2>8. ASSUME NEW j \in 1..n, event'[j].kind = "probe"
        PROVE  event'[j].read < j /\ Paced(event[j].unit, event[j].ts, event[j].read)'
    <3>1. CASE j = n
      <4>1. event'[j] = e
        BY <2>2, <3>1
      <4>2. e.kind = "probe" /\ e.read \in Nat
        BY <2>1, <2>4, <2>8, <4>1
      <4>3. e.read <= Len(event) /\ Paced(e.unit, e.ts, e.read)
        BY <1>7, <2>1, <4>2 DEF Log, PaceInv
      <4>4. event'[j].read < j
        BY <2>2, <3>1, <4>1, <4>2, <4>3
      <4>5. \A i \in 1..Len(event') : i <= e.read => event'[i] = event[i] /\ i \in 1..Len(event)
        BY <2>2, <4>2, <4>3
      <4> QED
        BY <4>1, <4>3, <4>4, <4>5 DEF Paced
    <3>2. CASE j # n
      <4>1. j \in 1..Len(event) /\ event'[j] = event[j]
        BY <2>2, <3>2
      <4>2. event[j].read < j /\ Paced(event[j].unit, event[j].ts, event[j].read) /\ event[j].read \in Nat
        BY <2>5, <2>8, <4>1 DEF PaceInv
      <4>3. \A i \in 1..Len(event') : i <= event[j].read => event'[i] = event[i] /\ i \in 1..Len(event)
        BY <2>2, <4>1, <4>2
      <4> QED
        BY <4>1, <4>2, <4>3 DEF Paced
    <3> QED
      BY <3>1, <3>2
  <2> QED
    BY <2>2, <2>7, <2>8 DEF PaceInv, Paced
<1> QED
  BY <1>1, <1>2, <1>3, <1>4, <1>5, <1>6, <1>7 DEF Work

\* Whatever the window, and however the processes of the probes interleave: of two
\* probes of a provider that are closer, the later one read the ledger before the
\* earlier one was in it.
THEOREM ProbesKeepTheirDistance ==
  ASSUME DispatchAssumption PROVE Spec => []ProbesArePaced
<1>1. Init => TypeInv /\ PaceInv
  <2> SUFFICES ASSUME Init PROVE TypeInv /\ PaceInv
    OBVIOUS
  <2>1. 1..Len(event) = {} /\ \A c \in Caller : caller[c].pc = "idle"
    BY DEF Init, NoCall
  <2> QED
    BY <2>1, TypeInit DEF PaceInv
<1>2. TypeInv /\ PaceInv /\ [Next]_dispatchVars => (TypeInv /\ PaceInv)'
  <2> SUFFICES ASSUME TypeInv, PaceInv, [Next]_dispatchVars PROVE TypeInv' /\ PaceInv'
    OBVIOUS
  <2>1. CASE Elsewhere
    BY <2>1, ElsewhereKeeps DEF PaceInv, Paced
  <2> QED
    BY <2>1, Steps, TypeStep, PaceWork
<1>3. TypeInv /\ PaceInv => ProbesArePaced
  <2> SUFFICES ASSUME TypeInv, PaceInv, NEW i \in 1..Len(event), NEW j \in 1..Len(event), i < j,
                      event[i].kind = "probe", event[j].kind = "probe",
                      event[i].unit = event[j].unit, ~(event[j].read < i)
               PROVE  event[j].ts > event[i].ts + Window
    BY DEF ProbesArePaced
  <2>1. Paced(event[j].unit, event[j].ts, event[j].read)
    BY DEF PaceInv
  <2>2. event[j].read \in Nat
    BY TokenTypes DEF Event
  <2>3. i <= event[j].read
    BY <2>2
  <2> QED
    BY <2>1, <2>3 DEF Paced
<1> QED
  BY <1>1, <1>2, <1>3, PTL DEF Spec
=============================================================================
