---------------------------- MODULE AgentUpdates ----------------------------
(***************************************************************************)
(* Backups, staged updates and rollbacks of the Hermes Agent checkout      *)
(* (api/routes/agent_updates.py): a backup, then one release tag after     *)
(* the other, each checked out and checked, and back to the backup's       *)
(* target at the first that is not green.                                  *)
(*                                                                         *)
(* Requests run in threads of their own and take no lock; each git command *)
(* and each run of the checks is a step.  A commit is a release, tag, or   *)
(* one that somebody made upon it, own; git describe finds tag as the      *)
(* nearest, 0 for none.  Whether a commit passes the checks (package       *)
(* metadata, compileall, pytest) is a fact of the commit.  Texts, proof    *)
(* events and backups of other checkouts are left out.                     *)
(***************************************************************************)
EXTENDS Naturals, Sequences, FiniteSets

CONSTANTS
  Request,        \* threads of the request pool
  Last,           \* the newest release
  MaxRuns         \* bound on requests

AgentUpdatesAssumption == Last \in Nat \ {0} /\ MaxRuns \in Nat

VARIABLES
  tree,           \* the commit that is checked out, and whether by its branch
  home,           \* the commit of the branch, which stays
  green,          \* the commits that pass the checks
  untidy,         \* there is uncommitted work
  kept,           \* the recorded backups
  visit,          \* the requests
  runs            \* requests so far

agentVars == <<tree, home, green, untidy, kept, visit, runs>>

Commit == [tag : 0..Last, own : BOOLEAN]
Release(n) == [tag |-> n, own |-> FALSE]
Tree == [commit : Commit, branch : BOOLEAN]

NoVisit == [kind |-> "none", pc |-> "idle",
            backup |-> [commit |-> Release(0), branch |-> FALSE],
            target |-> "tag", todo |-> << >>, checks |-> TRUE, answer |-> "none", alone |-> TRUE]

Init ==
  /\ home \in {c \in Commit : c.tag \in 0..1} \ {Release(0)}
  /\ \E branch \in BOOLEAN : tree = [commit |-> home, branch |-> branch]
  /\ green \in SUBSET ({Release(n) : n \in 1..Last} \cup {home})
  /\ untidy = FALSE /\ kept = {}
  /\ visit = [t \in Request |-> NoVisit]
  /\ runs = 0

Goto(t, pc) == visit' = [visit EXCEPT ![t].pc = pc]

\* The request ends with an answer, which it leaves behind (history).
Answer(t, a) == visit' = [visit EXCEPT ![t].pc = "idle", ![t].answer = a]

Edit ==
  /\ untidy' = ~untidy
  /\ UNCHANGED <<tree, home, green, kept, visit, runs>>

-----------------------------------------------------------------------------
\* A rollback names a backup, or takes the newest, and its tag, its branch or its
\* commit; alone: no other request is under way (history).
Come(t, kind, checks) ==
  /\ visit[t].pc = "idle" /\ runs < MaxRuns
  /\ runs' = runs + 1
  /\ \E b \in IF kind = "rollback" THEN kept ELSE {NoVisit.backup},
        target \in IF kind = "rollback" THEN {"tag", "branch", "commit"} ELSE {"tag"} :
       visit' = [u \in Request |->
         IF u = t THEN [NoVisit EXCEPT !.kind = kind, !.checks = checks, !.backup = b,
                                       !.target = target,
                                       !.pc = IF kind = "staged" THEN "plan" ELSE "backup",
                                       !.alone = \A r \in Request : visit[r].pc = "idle"]
         ELSE [visit[u] EXCEPT !.alone = FALSE]]
  /\ UNCHANGED <<tree, home, green, untidy, kept>>

\* _pending_tags: the releases after the nearest one up to the one that is asked for,
\* which stands alone where there is no nearest; the first max_steps of them.
Pending(target) ==
  IF tree.commit.tag = 0 THEN << target >>
  ELSE [i \in 1..(IF target > tree.commit.tag THEN target - tree.commit.tag ELSE 0)
          |-> tree.commit.tag + i]

\* git fetch and the releases API answer, or the request ends.
Plan(t) ==
  /\ visit[t].pc = "plan"
  /\ \/ Answer(t, "none")
     \/ \E target \in 1..Last, steps \in 1..Last :
          LET todo == SubSeq(Pending(target), 1, steps) IN
          /\ steps <= Len(Pending(target))
          /\ visit' = [visit EXCEPT ![t].pc = "backup", ![t].todo = todo]
  /\ UNCHANGED <<tree, home, green, untidy, kept, runs>>

\* _create_backup: a bundle and a record, or the request ends; so does one that was
\* for a backup only (create_update_backup).
Backup(t) ==
  /\ visit[t].pc = "backup"
  /\ \/ Answer(t, "none") /\ UNCHANGED kept
     \/ kept' = kept \cup {tree} /\ visit[t].kind = "backup" /\ Answer(t, "none")
     \/ /\ kept' = kept \cup {tree} /\ visit[t].kind # "backup"
        /\ visit' = [visit EXCEPT ![t].pc = IF visit[t].kind = "staged" THEN "step" ELSE "target",
                                  ![t].backup = IF visit[t].kind = "staged" THEN tree ELSE @]
  /\ UNCHANGED <<tree, home, green, untidy, runs>>

CheckOut(c) == tree' = [commit |-> c, branch |-> FALSE]

\* A tag that cannot be checked out, or not in time, is like one that fails.
Step(t) ==
  /\ visit[t].pc = "step"
  /\ \/ CheckOut(Release(Head(visit[t].todo))) /\ \E pc \in {"checks", "target"} : Goto(t, pc)
     \/ UNCHANGED tree /\ Goto(t, "target")
  /\ UNCHANGED <<home, green, untidy, kept, runs>>

\* _run_update_checks; git status must have nothing to say.
Passes == tree.commit \in green /\ ~untidy

\* Mutant: checks that are skipped are as good as passed.
Checks_Skipped(t) ==
  /\ visit[t].pc = "checks"
  /\ IF visit[t].checks => Passes
     THEN IF Len(visit[t].todo) = 1 THEN Answer(t, "updated")
          ELSE visit' = [visit EXCEPT ![t].pc = "step", ![t].todo = Tail(@)]
     ELSE Goto(t, "target")
  /\ UNCHANGED <<tree, home, green, untidy, kept, runs>>

\* Checks that were not asked for count as skipped, and skipped is not passed.
Checks(t) ==
  /\ visit[t].pc = "checks"
  /\ IF visit[t].checks /\ Passes
     THEN IF Len(visit[t].todo) = 1 THEN Answer(t, "updated")
          ELSE visit' = [visit EXCEPT ![t].pc = "step", ![t].todo = Tail(@)]
     ELSE Goto(t, "target")
  /\ UNCHANGED <<tree, home, green, untidy, kept, runs>>

\* Mutant: the repair goes back by one release.
Target_OneBack(t) ==
  IF visit[t].kind = "staged" /\ Head(visit[t].todo) > 1
  THEN Release(Head(visit[t].todo) - 1) ELSE visit[t].backup.commit

\* What `git checkout --detach` is given: the tag of the backup, exact or nearest,
\* before its branch ("detached" where there was none, which is no ref: Release(0)
\* here) and its commit.
Target(t) ==
  LET b == visit[t].backup IN
  CASE visit[t].target = "tag" /\ b.commit.tag # 0 -> Release(b.commit.tag)
    [] visit[t].target = "commit" -> b.commit
    [] OTHER -> IF b.branch THEN home ELSE Release(0)

\* _auto_repair_to_backup, and the same command in rollback_update.
GoBack(t) ==
  /\ visit[t].pc = "target"
  /\ \/ /\ Target(t) # Release(0)
        /\ CheckOut(Target(t)) /\ Goto(t, "verify")
     \/ UNCHANGED tree /\ \E a \in {"none", "failed"} : Answer(t, a)
  /\ UNCHANGED <<home, green, untidy, kept, runs>>

Verify(t) ==
  /\ visit[t].pc = "verify"
  /\ Answer(t, IF Passes THEN "rolled_back" ELSE "failed")
  /\ UNCHANGED <<tree, home, green, untidy, kept, runs>>

Serve(t) ==
  \/ \E checks \in BOOLEAN : Come(t, "staged", checks)
  \/ Come(t, "rollback", TRUE) \/ Come(t, "backup", TRUE)
  \/ Plan(t) \/ Backup(t) \/ Step(t) \/ Checks(t) \/ GoBack(t) \/ Verify(t)

Next == Edit \/ \E t \in Request : Serve(t)
Spec == Init /\ [][Next]_agentVars

-----------------------------------------------------------------------------
(* Properties                                                               *)

\* Variables keep their types; an update that goes on has tags to go to.
TypeOK ==
  /\ tree \in Tree /\ home \in Commit /\ green \subseteq Commit
  /\ untidy \in BOOLEAN /\ kept \subseteq Tree
  /\ visit \in [Request -> [kind : {"none", "staged", "rollback", "backup"},
                            pc : {"idle", "plan", "backup", "step", "checks", "target", "verify"},
                            backup : Tree, target : {"tag", "branch", "commit"},
                            todo : Seq(1..Last), checks : BOOLEAN,
                            answer : {"none", "updated", "rolled_back", "failed"},
                            alone : BOOLEAN]]
  /\ runs \in 0..MaxRuns
  /\ \A t \in Request : visit[t].pc \in {"step", "checks"} => visit[t].todo # << >>

Answers(t, a) == visit[t].pc # "idle" /\ visit'[t].pc = "idle" /\ visit'[t].answer = a

\* "updated" is said, where no other request was under way, only of a checkout that
\* is at the last tag of the plan, and that tag has passed its checks, as have those
\* on the way.  (staged_update)
UpdatedIsVerified ==
  [][\A t \in Request : Answers(t, "updated") /\ visit[t].alone =>
       /\ tree'.commit = Release(Head(visit[t].todo))
       /\ visit[t].backup.commit.tag # 0 =>
            \A n \in (visit[t].backup.commit.tag + 1)..tree'.commit.tag : Release(n) \in green
       /\ tree'.commit \in green]_agentVars

\* "rolled_back" is said after a staged update, where no other request was under
\* way, only of a checkout that is back at the very commit it came from, unless that
\* was one that somebody had made upon a release: the nearest tag takes its place.
\* (_auto_repair_to_backup)
RepairRestores ==
  [][\A t \in Request :
       Answers(t, "rolled_back") /\ visit[t].alone /\ visit[t].kind = "staged" =>
         \/ tree'.commit = visit[t].backup.commit
         \/ visit[t].backup.commit.own /\ visit[t].backup.commit.tag # 0]_agentVars
=============================================================================
