------------------------------ MODULE Dispatch ------------------------------
(***************************************************************************)
(* The capability-token supervisor (orchestration/supervisor), the ledger  *)
(* of its decisions, and the provider probes that the operator's command   *)
(* line runs against the same kind of ledger (gateways/probe, cli/probe).  *)
(*                                                                         *)
(* Callers dispatch polls, plans and 3D generations from threads of one    *)
(* process.  _registry_lock makes the validation of a token and its        *)
(* consumption one step, and the lookup of a mutex with its creation       *)
(* another.  Each probe is a process of its own with a token of its own;   *)
(* only the ledger is shared.  Signatures, phases and tools of a token are *)
(* one question, whether it fits; contents and hashes are left out.  A 3D  *)
(* generation is dispatched as a plan is.                                  *)
(***************************************************************************)
EXTENDS Naturals, Sequences

CONSTANTS
  Token, Caller,
  Unit,           \* printers and runs: what a mutex is for
  None,
  Window,         \* how many ticks later the next probe is still too early
  MaxClock, MaxEvents

\* A lock object by who made it and what for.
Mutex == Caller \X Unit

DispatchAssumption ==
  /\ None \notin Token \cup Caller \cup Unit \cup Mutex
  /\ Window \in Nat /\ MaxClock \in Nat /\ MaxEvents \in Nat

VARIABLES
  registry,       \* [Token -> TokenState]: _tokens, _consumed_tokens, expires_at_utc
  mutexOf,        \* [Unit -> Mutex \cup {None}]: _printer_locks, _run_locks
  holder,         \* [Mutex -> Caller \cup {None}]
  caller,         \* the callers
  event,          \* the ledger, append-only
  clock

dispatchVars == <<registry, mutexOf, holder, caller, event, clock>>
mutexes == <<mutexOf, holder>>

NoCall == [pc |-> "idle", kind |-> "none", token |-> None, unit |-> None, mutex |-> None,
           verdict |-> "none", ts |-> 0, read |-> 0]

Init ==
  /\ registry = [k \in Token |-> "none"]
  /\ mutexOf = [u \in Unit |-> None] /\ holder = [m \in Mutex |-> None]
  /\ caller = [c \in Caller |-> NoCall]
  /\ event = << >>
  /\ clock = 0

Set(c, r) == caller' = [caller EXCEPT ![c] = r]

issue_token(k) ==
  /\ registry[k] = "none" /\ registry' = [registry EXCEPT ![k] = "issued"]
  /\ UNCHANGED <<mutexes, caller, event, clock>>

\* Time: tokens run out, ticks pass.
Expire(k) ==
  /\ registry[k] = "issued" /\ registry' = [registry EXCEPT ![k] = "expired"]
  /\ UNCHANGED <<mutexes, caller, event, clock>>

Tick ==
  /\ clock < MaxClock /\ clock' = clock + 1
  /\ UNCHANGED <<registry, mutexes, caller, event>>

\* OrchestrationLedger.append.
Append1(c) ==
  /\ Len(event) < MaxEvents
  /\ event' = Append(event, [kind |-> caller[c].kind, token |-> caller[c].token,
                             unit |-> caller[c].unit, verdict |-> caller[c].verdict,
                             ts |-> caller[c].ts, read |-> caller[c].read])
  /\ Set(c, NoCall)

-----------------------------------------------------------------------------
(* dispatch_poll, dispatch_plan, dispatch_gen3d                             *)

\* Mutant: a consumed token is still in the registry.
Valid_Consumed(k) == registry[k] \in {"issued", "consumed"}

Valid(k) == registry[k] = "issued"

\* _validate_and_consume_token: no token, one that does not fit or one that is not
\* valid is refused and stays what it is.  A token goes with the call and its event (history).
Dispatch(c, kind, k, u) ==
  /\ caller[c].pc = "idle"
  /\ LET call == [NoCall EXCEPT !.kind = kind, !.token = k, !.unit = u] IN
     \/ /\ k # None /\ Valid(k)
        /\ registry' = [registry EXCEPT ![k] = "consumed"]
        /\ Set(c, [call EXCEPT !.pc = "tool"])
     \/ Set(c, [call EXCEPT !.pc = "log", !.token = None, !.verdict = "fail"]) /\ UNCHANGED registry
  /\ UNCHANGED <<mutexes, event, clock>>

\* The token is spent, whether the tool is registered or not.
Unregistered(c) ==
  /\ caller[c].pc = "tool"
  /\ Set(c, [caller[c] EXCEPT !.pc = "log", !.verdict = "fail"])
  /\ UNCHANGED <<registry, mutexes, event, clock>>

\* Mutant: a new mutex is handed out and not kept.
mutex_for_Dropped(c) ==
  LET u == caller[c].unit   m == IF mutexOf[u] = None THEN <<c, u>> ELSE mutexOf[u] IN
  /\ caller[c].pc = "tool"
  /\ Set(c, [caller[c] EXCEPT !.pc = "wait", !.mutex = m])
  /\ UNCHANGED <<registry, mutexes, event, clock>>

\* mutex_for and mutex_for_run.
mutex_for(c) ==
  LET u == caller[c].unit   m == IF mutexOf[u] = None THEN <<c, u>> ELSE mutexOf[u] IN
  /\ caller[c].pc = "tool"
  /\ mutexOf' = [mutexOf EXCEPT ![u] = m]
  /\ Set(c, [caller[c] EXCEPT !.pc = "wait", !.mutex = m])
  /\ UNCHANGED <<registry, holder, event, clock>>

Enter(c) ==
  /\ caller[c].pc = "wait" /\ holder[caller[c].mutex] = None
  /\ holder' = [holder EXCEPT ![caller[c].mutex] = c]
  /\ Set(c, [caller[c] EXCEPT !.pc = "handle"])
  /\ UNCHANGED <<registry, mutexOf, event, clock>>

\* The handler answers, or raises: a poll lets the exception through, and leaves no
\* event; the others make an Err of it.
Handle(c) ==
  /\ caller[c].pc = "handle"
  /\ holder' = [holder EXCEPT ![caller[c].mutex] = None]
  /\ \/ \E v \in {"pass", "fail"} : Set(c, [caller[c] EXCEPT !.pc = "log", !.verdict = v])
     \/ caller[c].kind = "poll" /\ Set(c, NoCall)
  /\ UNCHANGED <<registry, mutexOf, event, clock>>

Log(c) ==
  /\ caller[c].pc = "log"
  /\ Append1(c)
  /\ UNCHANGED <<registry, mutexes, clock>>

-----------------------------------------------------------------------------
(* ProviderProbeGateway.probe                                               *)

\* The time of a probe is the one at which it begins.  Its budget is a fresh one.
Probe(c, u) ==
  /\ caller[c].pc = "idle"
  /\ Set(c, [NoCall EXCEPT !.pc = "rate", !.kind = "probe", !.unit = u, !.ts = clock])
  /\ UNCHANGED <<registry, mutexes, event, clock>>

\* Mutant: only the answers that were good count.
Recent_Good(u, ts) == {i \in 1..Len(event) : /\ event[i].kind = "probe" /\ event[i].unit = u
                                             /\ event[i].verdict = "pass" /\ event[i].ts + Window >= ts}

\* The probes of a provider in the window before ts.
Recent(u, ts) == {i \in 1..Len(event) : /\ event[i].kind = "probe" /\ event[i].unit = u
                                        /\ event[i].ts + Window >= ts}

\* _rate_cap_exceeded reads the whole ledger.  read: how much there was (history).
RateCap(c) ==
  /\ caller[c].pc = "rate"
  /\ Set(c, IF Recent(caller[c].unit, caller[c].ts) = {}
            THEN [caller[c] EXCEPT !.pc = "call", !.read = Len(event)] ELSE NoCall)
  /\ UNCHANGED <<registry, mutexes, event, clock>>

\* The provider answers, well or not, or the call fails and leaves no event.
CallProvider(c) ==
  /\ caller[c].pc = "call"
  /\ \/ \E v \in {"pass", "fail"} : Set(c, [caller[c] EXCEPT !.pc = "log", !.verdict = v])
     \/ Set(c, NoCall)
  /\ UNCHANGED <<registry, mutexes, event, clock>>

Work(c) ==
  \/ \E kind \in {"poll", "plan"}, k \in Token \cup {None}, u \in Unit : Dispatch(c, kind, k, u)
  \/ Unregistered(c) \/ mutex_for(c) \/ Enter(c) \/ Handle(c) \/ Log(c)
  \/ (\E u \in Unit : Probe(c, u)) \/ RateCap(c) \/ CallProvider(c)

Next ==
  \/ \E c \in Caller : Work(c)
  \/ \E k \in Token : issue_token(k) \/ Expire(k)
  \/ Tick
Spec == Init /\ [][Next]_dispatchVars

-----------------------------------------------------------------------------
(* Properties                                                               *)

TokenState == {"none", "issued", "expired", "consumed"}
Verdict == {"none", "pass", "fail"}
Call == [pc : {"idle", "tool", "wait", "handle", "log", "rate", "call"},
         kind : {"none", "poll", "plan", "probe"}, token : Token \cup {None},
         unit : Unit \cup {None}, mutex : Mutex \cup {None}, verdict : Verdict,
         ts : 0..MaxClock, read : 0..MaxEvents]
Event == [kind : {"poll", "plan", "probe"}, token : Token \cup {None}, unit : Unit,
          verdict : Verdict, ts : 0..MaxClock, read : 0..MaxEvents]

\* Variables keep their types; who waits for a mutex has one.
TypeOK ==
  /\ registry \in [Token -> TokenState]
  /\ mutexOf \in [Unit -> Mutex \cup {None}] /\ holder \in [Mutex -> Caller \cup {None}]
  /\ caller \in [Caller -> Call] /\ event \in Seq(Event)
  /\ clock \in 0..MaxClock
  /\ \A c \in Caller : /\ caller[c].pc # "idle" => caller[c].unit # None /\ caller[c].kind # "none"
                       /\ caller[c].pc \in {"wait", "handle"} => caller[c].mutex # None

\* A mutex per printer and per run: no two handlers work on the same one at a time,
\* though the mutexes are made when they are first asked for.  (mutex_for)
OneHandlerPerUnit ==
  \A c, d \in Caller : caller[c].pc = "handle" /\ caller[d].pc = "handle" /\ c # d =>
    caller[c].unit # caller[d].unit

\* c works, or has worked, on the strength of a token.
Granted(c) == caller[c].token # None

\* A token is good for one dispatch: not for two callers at a time, nor for one after
\* another whose outcome the ledger holds.  (_validate_and_consume_token)
TokenIsSpentOnce ==
  \A c \in Caller : Granted(c) =>
    /\ \A d \in Caller \ {c} : Granted(d) => caller[d].token # caller[c].token
    /\ \A i \in 1..Len(event) : event[i].token # caller[c].token

\* Two probes of a provider in the ledger are a window apart, unless the one read the
\* ledger before the other was in it: nothing orders two processes.
\* (_rate_cap_exceeded)
ProbesArePaced ==
  \A i, j \in 1..Len(event) :
    i < j /\ event[i].kind = "probe" /\ event[j].kind = "probe" /\ event[i].unit = event[j].unit =>
      \/ event[j].ts > event[i].ts + Window
      \/ event[j].read < i
=============================================================================
