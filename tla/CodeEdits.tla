----------------------------- MODULE CodeEdits -----------------------------
(***************************************************************************)
(* The agents' own source code in the agents' hands: the operations of     *)
(* services/code_history.py by which an agent proposes a file's new text,  *)
(* applies it, restores a snapshot, stages and commits what it has         *)
(* changed, and opens a branch, as the code operator's routes and the      *)
(* actions of the personas call them.                                      *)
(*                                                                         *)
(* Requests run in threads of their own and share one checkout.  What      *)
(* orders them is the table of file locks in the MCP lock server, which    *)
(* every operation asks once and which may change at any later moment;     *)
(* people who work in the checkout ask for nothing.  A task belongs to one *)
(* agent and a lock to one task.  Paths, sizes, policies, git's hooks,     *)
(* push and pull request (which leave the checkout alone) and the MCP      *)
(* evidence are left out, and so is a base other than the current commit   *)
(* for a new branch.                                                       *)
(***************************************************************************)
EXTENDS Naturals, FiniteSets

CONSTANTS
  File, Text,
  Actor, Task,
  Owner,          \* whose a task is
  Request,        \* threads of the request pool
  Shipping,       \* the branches that agents may commit to, codex/... and so on
  Main,           \* another branch
  None,
  MaxAsked,       \* bound on the agents' requests
  MaxMoves        \* bound on what else moves: locks, expiries, people

Branch == Shipping \cup {Main}

CodeEditsAssumption ==
  /\ Owner \in [Task -> Actor]
  /\ None \notin Text \cup Task \cup Branch \cup [File -> Text]
  /\ MaxAsked \in Nat /\ MaxMoves \in Nat

VARIABLES
  live,           \* the files of the checkout
  index,          \* what is staged
  tip,            \* the commit of each branch, None where there is no branch
  branch,         \* the one that is checked out
  lock,           \* the lock server's table
  snaps,          \* code_history_snapshots
  proposals,      \* the stored proposals
  intents,        \* code_patch.replace_inflight: the proposals being applied
  hand,           \* what each thread is at
  contested,      \* history: files of which some operation was not alone
  overtaken,      \* history: commits during which somebody staged or switched
  asked, moves    \* counters

editVars == <<live, index, tip, branch, lock, snaps, proposals, intents, hand, contested, overtaken,
              asked, moves>>

Lock == [task : Task \cup {None}, stale : BOOLEAN]
Free == [task |-> None, stale |-> FALSE]
Snapshot == [file : File, text : Text, agent : Actor]
Proposal == [file : File, base : Text, text : Text, agent : Actor]

NoHand == [op |-> "none", pc |-> "idle", task |-> None, files |-> {}, text |-> None,
           change |-> None, on |-> None]
Hand == [op : {"none", "propose", "apply", "restore", "stage", "commit", "branch"},
         pc : {"idle", "pre", "save", "lock", "announce", "replace", "verify", "rollback",
               "post", "check", "add", "look", "commit", "switch"},
         task : Task \cup {None}, files : SUBSET File, text : Text \cup {None},
         change : Proposal \cup {None}, on : Branch \cup {None}]

\* Earlier sessions may have left work in the checkout, snapshots, proposals and locks.
Init ==
  /\ live \in [File -> Text] /\ branch \in Branch
  /\ \E x \in Text : /\ index = [f \in File |-> x]
                      /\ tip = [b \in Branch |-> IF b = branch THEN index ELSE None]
  /\ lock \in [File -> {[task |-> k, stale |-> FALSE] : k \in Task \cup {None}}]
  /\ \E a \in Actor, F \in SUBSET File :
       snaps = {[file |-> f, text |-> index[f], agent |-> a] : f \in F}
  /\ \E f \in File, a \in Actor :
       proposals \in SUBSET {p \in Proposal : p.file = f /\ p.agent = a /\ p.base # p.text}
  /\ intents = {}
  /\ hand = [t \in Request |-> NoHand]
  /\ contested = {} /\ overtaken = {} /\ asked = 0 /\ moves = 0

-----------------------------------------------------------------------------
\* _require_active_mcp_lock
HoldsLock(k, f) == lock[f].task = k /\ ~lock[f].stale

\* git diff --cached --name-only, and all that git sees as changed
Staged == {f \in File : index[f] # tip[branch][f]}
Changed == Staged \cup {f \in File : live[f] # index[f]}

\* The threads that are about to write a file.
Writers(f) == {t \in Request : hand[t].op \in {"apply", "restore"} /\ f \in hand[t].files}
WritersOf(f, K) == {t \in Writers(f) : hand[t].task \in K}

\* The file of a proposal's, an apply's or a restore's thread.
TheFile(t) == CHOOSE f \in File : hand[t].files = {f}

At(t, pc) == hand[t].pc = pc
Set(t, h) == hand' = [hand EXCEPT ![t] = h]
Go(t, pc) == hand' = [hand EXCEPT ![t].pc = pc]
Done(t) == Set(t, NoHand)

\* A request comes in with its first step.
Ask(t, h) ==
  /\ At(t, "idle") /\ asked < MaxAsked /\ asked' = asked + 1
  /\ Set(t, h)

tables == <<lock, snaps, proposals, intents>>
git == <<index, tip, branch>>
counts == <<asked, moves>>

\* snapshot_file, before or after a write, and for its route.
Snap(t) ==
  /\ At(t, "pre") \/ At(t, "post")
  /\ snaps' = snaps \cup
       {[file |-> TheFile(t), text |-> live[TheFile(t)], agent |-> Owner[hand[t].task]]}
  /\ \/ At(t, "post") /\ Done(t)
     \/ At(t, "pre") /\ hand[t].op = "propose" /\ Go(t, "save")
     \/ At(t, "pre") /\ hand[t].op = "apply" /\ Go(t, "announce")
     \/ At(t, "pre") /\ hand[t].op = "restore" /\ Go(t, "replace")
  /\ UNCHANGED <<live, git, lock, proposals, intents, contested, overtaken, counts>>

\* POST history/snapshots
SnapshotRoute ==
  /\ asked < MaxAsked /\ asked' = asked + 1
  /\ \E f \in File, a \in Actor : snaps' = snaps \cup {[file |-> f, text |-> live[f], agent |-> a]}
  /\ UNCHANGED <<live, git, lock, proposals, intents, hand, contested, overtaken, moves>>

-----------------------------------------------------------------------------
(* Proposals                                                                *)

ProposeRead(t) ==
  /\ \E k \in Task, f \in File, x \in Text :
       Ask(t, [NoHand EXCEPT !.op = "propose", !.pc = "pre", !.task = k, !.files = {f},
               !.change = [file |-> f, base |-> live[f], text |-> x, agent |-> Owner[k]]])
  /\ UNCHANGED <<live, git, tables, contested, overtaken, moves>>

ProposeSave(t) ==
  /\ At(t, "save")
  /\ proposals' = proposals \cup {hand[t].change} /\ Done(t)
  /\ UNCHANGED <<live, git, lock, snaps, intents, contested, overtaken, counts>>

\* Mutant: the text that a proposal was made for is not compared.
ApplyRead_Stale(t) ==
  \E k \in Task, p \in proposals :
    /\ p.agent = Owner[k]
    /\ Ask(t, [NoHand EXCEPT !.op = "apply", !.pc = "lock", !.task = k, !.files = {p.file},
               !.text = live[p.file], !.change = p])
    /\ contested' = contested \cup (IF WritersOf(p.file, {k}) = {} THEN {} ELSE {p.file})
    /\ UNCHANGED <<live, git, tables, overtaken, moves>>

\* apply_patch_proposal: the proposal must be the agent's own and not stale ...
ApplyRead(t) ==
  \E k \in Task, p \in proposals :
    /\ p.agent = Owner[k] /\ p.base = live[p.file]
    /\ Ask(t, [NoHand EXCEPT !.op = "apply", !.pc = "lock", !.task = k, !.files = {p.file},
               !.text = live[p.file], !.change = p])
    /\ contested' = contested \cup (IF WritersOf(p.file, {k}) = {} THEN {} ELSE {p.file})
    /\ UNCHANGED <<live, git, tables, overtaken, moves>>

\* ... and the file locked for its task.
ApplyLock(t) ==
  /\ At(t, "lock")
  /\ IF HoldsLock(hand[t].task, TheFile(t)) THEN Go(t, "pre") ELSE Done(t)
  /\ UNCHANGED <<live, git, tables, contested, overtaken, counts>>

\* The new text is in a temporary file, and the event before the rename.
Announce(t) ==
  /\ At(t, "announce") /\ Go(t, "replace")
  /\ intents' = intents \cup {hand[t].change}
  /\ UNCHANGED <<live, git, lock, snaps, proposals, contested, overtaken, counts>>

ApplyReplace(t) ==
  /\ At(t, "replace") /\ hand[t].op = "apply" /\ Go(t, "verify")
  /\ live' = [live EXCEPT ![TheFile(t)] = hand[t].change.text]
  /\ UNCHANGED <<git, tables, contested, overtaken, counts>>

\* "Any drift here is FS corruption": the text read at first is put back.
Verify(t) ==
  /\ At(t, "verify")
  /\ Go(t, IF live[TheFile(t)] = hand[t].change.text THEN "post" ELSE "rollback")
  /\ UNCHANGED <<live, git, tables, contested, overtaken, counts>>

Rollback(t) ==
  /\ At(t, "rollback") /\ Done(t)
  /\ live' = [live EXCEPT ![TheFile(t)] = hand[t].text]
  /\ UNCHANGED <<git, tables, contested, overtaken, counts>>

RestoreLock(t) ==
  \E k \in Task, s \in snaps :
    /\ HoldsLock(k, s.file)
    /\ Ask(t, [NoHand EXCEPT !.op = "restore", !.pc = "pre", !.task = k, !.files = {s.file},
               !.text = s.text])
    /\ contested' = contested \cup (IF WritersOf(s.file, {k}) = {} THEN {} ELSE {s.file})
    /\ UNCHANGED <<live, git, tables, overtaken, moves>>

RestoreReplace(t) ==
  /\ At(t, "replace") /\ hand[t].op = "restore" /\ Done(t)
  /\ live' = [live EXCEPT ![TheFile(t)] = hand[t].text]
  /\ UNCHANGED <<git, tables, contested, overtaken, counts>>

-----------------------------------------------------------------------------
(* git                                                                      *)

\* git_stage_owned_files and git_commit_owned_files: a commit is for an agents' branch.
Ship(t) ==
  /\ \E op \in {"stage", "commit"}, k \in Task, F \in (SUBSET File) \ {{}} :
       /\ op = "commit" => branch \in Shipping
       /\ Ask(t, [NoHand EXCEPT !.op = op, !.pc = "check", !.task = k, !.files = F,
                  !.on = branch])
  /\ UNCHANGED <<live, git, tables, contested, overtaken, moves>>

\* _ensure_git_ship_files
Check(t) ==
  /\ At(t, "check")
  /\ IF \A f \in hand[t].files :
          /\ f \in Changed
          /\ \E s \in snaps : s.file = f /\ s.agent = Owner[hand[t].task]
          /\ HoldsLock(hand[t].task, f)
     THEN Go(t, "add") ELSE Done(t)
  /\ UNCHANGED <<live, git, tables, contested, overtaken, counts>>

Add(t) ==
  /\ At(t, "add")
  /\ index' = [f \in File |-> IF f \in hand[t].files THEN live[f] ELSE index[f]]
  /\ IF hand[t].op = "stage" THEN Done(t) ELSE Go(t, "look")
  /\ overtaken' = overtaken \cup {u \in Request : At(u, "commit")}
  /\ UNCHANGED <<live, tip, branch, tables, contested, counts>>

\* Mutant: anything staged will do.
Look_AnyStaged(t) ==
  /\ At(t, "look")
  /\ IF Staged # {} THEN Go(t, "commit") ELSE Done(t)
  /\ UNCHANGED <<live, git, tables, contested, overtaken, counts>>

\* A refusal leaves staged what Add has staged.
Look(t) ==
  /\ At(t, "look")
  /\ IF Staged # {} /\ Staged \subseteq hand[t].files THEN Go(t, "commit") ELSE Done(t)
  /\ UNCHANGED <<live, git, tables, contested, overtaken, counts>>

\* git commit takes in all that is staged by now, on the branch of now, or fails.
Commit(t) ==
  /\ At(t, "commit") /\ Done(t)
  /\ tip' = IF Staged = {} THEN tip ELSE [tip EXCEPT ![branch] = index]
  /\ overtaken' = overtaken \ {t}
  /\ UNCHANGED <<live, index, branch, tables, contested, counts>>

\* git_create_branch: only from a clean checkout.
BranchLook(t) ==
  /\ Changed = {}
  /\ \E b \in Shipping, k \in Task :
       Ask(t, [NoHand EXCEPT !.op = "branch", !.pc = "switch", !.task = k, !.on = b])
  /\ UNCHANGED <<live, git, tables, contested, overtaken, moves>>

\* git switch -c fails where the branch exists, and takes along what is not committed.
Switch(t) ==
  /\ At(t, "switch") /\ Done(t)
  /\ IF tip[hand[t].on] # None THEN UNCHANGED <<branch, tip, overtaken>>
     ELSE /\ branch' = hand[t].on /\ tip' = [tip EXCEPT ![hand[t].on] = tip[branch]]
          /\ overtaken' = overtaken \cup {u \in Request : hand[u].op = "commit"}
  /\ UNCHANGED <<live, index, tables, contested, counts>>

-----------------------------------------------------------------------------
(* The lock server, people, restarts                                        *)

Move == moves < MaxMoves /\ moves' = moves + 1

\* hermes_lock_files, also over a lock whose time is up
Take(k, f) ==
  /\ Move /\ (lock[f].task \in {k, None} \/ lock[f].stale)
  /\ lock' = [lock EXCEPT ![f] = [task |-> k, stale |-> FALSE]]
  /\ contested' = contested \cup (IF lock[f].task = k \/ WritersOf(f, {k, lock[f].task}) = {}
                          THEN {} ELSE {f})
  /\ UNCHANGED <<live, git, snaps, proposals, intents, hand, overtaken, asked>>

Release(k, f) ==
  /\ Move /\ lock[f].task = k
  /\ lock' = [lock EXCEPT ![f] = Free]
  /\ contested' = contested \cup (IF WritersOf(f, {k}) = {} THEN {} ELSE {f})
  /\ UNCHANGED <<live, git, snaps, proposals, intents, hand, overtaken, asked>>

Expire(f) ==
  /\ Move /\ lock[f].task # None /\ ~lock[f].stale
  /\ lock' = [lock EXCEPT ![f].stale = TRUE]
  /\ UNCHANGED <<live, git, snaps, proposals, intents, hand, contested, overtaken, asked>>

PersonEdits(f, x) ==
  /\ Move /\ x # live[f]
  /\ live' = [live EXCEPT ![f] = x]
  /\ contested' = contested \cup (IF Writers(f) = {} THEN {} ELSE {f})
  /\ UNCHANGED <<git, tables, hand, overtaken, asked>>

\* What is in the checkout, in the tables and on the lock server stays.
Restart ==
  /\ Move /\ hand' = [t \in Request |-> NoHand] /\ overtaken' = {}
  /\ UNCHANGED <<live, git, tables, contested, asked>>

Next ==
  \/ \E t \in Request :
       \/ Snap(t)
       \/ ProposeRead(t) \/ ProposeSave(t)
       \/ ApplyRead(t) \/ ApplyLock(t) \/ Announce(t) \/ ApplyReplace(t) \/ Verify(t)
       \/ Rollback(t)
       \/ RestoreLock(t) \/ RestoreReplace(t)
       \/ Ship(t) \/ Check(t) \/ Add(t) \/ Look(t) \/ Commit(t)
       \/ BranchLook(t) \/ Switch(t)
  \/ SnapshotRoute
  \/ \E k \in Task, f \in File : Take(k, f) \/ Release(k, f)
  \/ \E f \in File : Expire(f) \/ \E x \in Text : PersonEdits(f, x)
  \/ Restart

Spec == Init /\ [][Next]_editVars

-----------------------------------------------------------------------------
(* Properties                                                               *)

\* Variables keep their types; the branch that is checked out exists.
TypeOK ==
  /\ live \in [File -> Text] /\ index \in [File -> Text]
  /\ tip \in [Branch -> [File -> Text] \cup {None}]
  /\ branch \in Branch /\ tip[branch] # None
  /\ lock \in [File -> Lock]
  /\ snaps \subseteq Snapshot /\ proposals \subseteq Proposal /\ intents \subseteq proposals
  /\ hand \in [Request -> Hand]
  /\ contested \subseteq File /\ overtaken \subseteq Request
  /\ asked \in 0..MaxAsked /\ moves \in 0..MaxMoves

\* A file is written for the task that has its lock, and what is overwritten is in a
\* snapshot; a proposal replaces the very text it was made for, with its event in the
\* ledger first, so that a crash can be told and undone.  Not claimed of a file whose
\* lock changed hands, on which a task worked twice at a time, or that a person
\* edited, while an operation was under way.  (apply_patch_proposal, restore_snapshot)
WritesAreCovered ==
  [][\A t \in Request : \A f \in hand[t].files \ contested' :
       live'[f] # live[f] /\ hand'[t] # hand[t] =>
         /\ lock[f].task = hand[t].task
         /\ \E s \in snaps : s.file = f /\ s.text = live[f]
         /\ hand[t].op = "apply" => live[f] = hand[t].change.base /\ hand[t].change \in intents]_editVars

\* A commit takes in files only that its request was checked for, each one with a
\* snapshot of the agent, and lands on the agents' branch that it reports; unless
\* somebody staged or switched at the last moment.  (git_commit_owned_files)
CommitIsAsReported ==
  [][\A t \in Request \ overtaken : tip' # tip /\ At(t, "commit") /\ ~At(t, "commit")' =>
       /\ branch = hand[t].on /\ branch \in Shipping
       /\ Staged \subseteq hand[t].files
       /\ \A f \in Staged : \E s \in snaps : s.file = f /\ s.agent = Owner[hand[t].task]]_editVars
=============================================================================
