--------------------------- MODULE SourceUpdates ---------------------------
(***************************************************************************)
(* Backups, updates and rollbacks of the checkout of one source module:    *)
(* the routes update/backup, update/apply and rollback of                  *)
(* api/routes/modules.py.                                                  *)
(*                                                                         *)
(* The requests run in threads of their own and take no lock; each git     *)
(* command is a step, and people work in the checkout meanwhile.  A commit *)
(* is an upstream one, base, or one with own local commits upon it.  One   *)
(* branch is modelled.  update/check, the status rows and the proof events *)
(* decide nothing here and are left out.                                   *)
(***************************************************************************)
EXTENDS Naturals, Sequences, FiniteSets

CONSTANTS
  Request,        \* threads of the request pool
  Work,           \* pieces of uncommitted work, each in a file of its own
  None,
  Top,            \* bound on commits upstream
  MaxOwn,         \* bound on local commits upon one another
  MaxAsks         \* bound on requests

SourceUpdatesAssumption ==
  None \notin Work /\ Top \in Nat /\ MaxOwn \in Nat /\ MaxAsks \in Nat

VARIABLES
  head,           \* the commit that is checked out
  upstream,       \* the newest commit of the remote's branch
  fetchHead,      \* FETCH_HEAD
  work,           \* uncommitted work in the checkout
  written,        \* history: work there has ever been
  zipped,         \* work in a backup's dirty.zip
  backups,        \* the commits of the recorded backups, oldest first
  ask,            \* the requests
  asks            \* requests so far

checkout == <<head, upstream, fetchHead, work, written>>
saved == <<zipped, backups>>
sourceVars == <<head, upstream, fetchHead, work, written, zipped, backups, ask, asks>>

Commit == [base : 0..Top, own : 0..MaxOwn]
Upstream(n) == [base |-> n, own |-> 0]

\* start, older: the commit and the work there was when the request came; alone:
\* nobody else has worked on the checkout since; missed: commits that people have
\* made since the request looked at it (history).
NoAsk == [kind |-> "none", pc |-> "idle", before |-> Upstream(0), dirty |-> {},
          start |-> Upstream(0), older |-> {}, alone |-> TRUE, missed |-> {}]

Init ==
  /\ head = Upstream(0) /\ upstream = 0 /\ fetchHead = 0
  /\ work = {} /\ written = {} /\ zipped = {}
  /\ backups = << >>
  /\ ask = [t \in Request |-> NoAsk]
  /\ asks = 0

Goto(t, pc) == ask' = [ask EXCEPT ![t].pc = pc]
Return(t) == ask' = [ask EXCEPT ![t] = NoAsk]
Backups == {backups[i] : i \in DOMAIN backups}

-----------------------------------------------------------------------------
(* People, here and upstream                                                *)

Push ==
  /\ upstream < Top /\ upstream' = upstream + 1
  /\ UNCHANGED <<head, fetchHead, work, written, saved, ask, asks>>

Edit(w) ==
  /\ w \notin written
  /\ work' = work \cup {w} /\ written' = written \cup {w}
  /\ UNCHANGED <<head, upstream, fetchHead, saved, ask, asks>>

CommitWork ==
  /\ work # {} /\ head.own < MaxOwn
  /\ head' = [head EXCEPT !.own = @ + 1] /\ work' = {}
  /\ ask' = [t \in Request |-> [ask[t] EXCEPT !.alone = FALSE, !.missed = @ \cup {head'}]]
  /\ UNCHANGED <<upstream, fetchHead, written, saved, asks>>

-----------------------------------------------------------------------------
(* Requests                                                                 *)

\* rollback_module looks for the recorded backup first, the newest or the one that
\* is named.
Ask(t, kind) ==
  /\ ask[t].pc = "idle" /\ asks < MaxAsks
  /\ asks' = asks + 1
  /\ \E target \in IF kind = "rollback" THEN Backups ELSE {Upstream(0)} :
       ask' = [u \in Request |->
         IF u = t THEN [NoAsk EXCEPT !.kind = kind, !.pc = "state", !.before = target,
                                     !.start = head, !.older = work,
                                     !.alone = \A r \in Request : ask[r].pc = "idle"]
         ELSE [ask[u] EXCEPT !.alone = FALSE]]
  /\ UNCHANGED <<checkout, saved>>

\* apply_module_update wants a checkout without uncommitted work, and a backup, the
\* newest or the one that is named, of the very commit that is checked out.
ApplyState(t) ==
  /\ ask[t].kind = "apply" /\ ask[t].pc = "state"
  /\ \/ Return(t)
     \/ /\ work = {} /\ head \in Backups
        /\ ask' = [ask EXCEPT ![t].before = head, ![t].pc = "remote", ![t].missed = {}]
  /\ UNCHANGED <<checkout, saved, asks>>

\* Mutant: a rollback makes a backup only where there is uncommitted work.
BackupState_IfDirty(t) ==
  /\ ask[t].kind \in {"backup", "rollback"} /\ ask[t].pc = "state"
  /\ ask' = [ask EXCEPT ![t].start = head, ![t].dirty = work, ![t].missed = {},
                        ![t].pc = IF work = {} /\ ask[t].kind = "rollback" THEN "reset" ELSE "bundle"]
  /\ UNCHANGED <<checkout, saved, asks>>

\* _create_source_backup reads the state, of which a rollback keeps its target.
BackupState(t) ==
  /\ ask[t].kind \in {"backup", "rollback"} /\ ask[t].pc = "state"
  /\ ask' = [ask EXCEPT ![t].start = head, ![t].dirty = work, ![t].missed = {},
                        ![t].pc = "bundle"]
  /\ UNCHANGED <<checkout, saved, asks>>

\* Mutant: a rollback does without the zip.
Bundle_NoZip(t) ==
  /\ ask[t].pc = "bundle"
  /\ \/ Return(t) /\ UNCHANGED saved
     \/ /\ backups' = Append(backups, ask[t].start) /\ UNCHANGED zipped
        /\ IF ask[t].kind = "rollback" THEN Goto(t, "reset") ELSE Return(t)
  /\ UNCHANGED <<checkout, asks>>

\* git bundle, the zip of the files that were dirty, and the record; or nothing, if
\* git fails.  _git_text has stripped git's list: where its first line began with a
\* blank (a change that is not staged) that file's name is cut, and it is not found.
Bundle(t) ==
  /\ ask[t].pc = "bundle"
  /\ \/ Return(t) /\ UNCHANGED saved
     \/ /\ \E first \in ask[t].dirty \cup {None} :
             zipped' = zipped \cup ((ask[t].dirty \cap work) \ {first})
        /\ backups' = Append(backups, ask[t].start)
        /\ IF ask[t].kind = "rollback" THEN Goto(t, "reset") ELSE Return(t)
  /\ UNCHANGED <<checkout, asks>>

\* git ls-remote: nothing to do, no answer, or on with it.
Remote(t) ==
  /\ ask[t].pc = "remote"
  /\ \/ Return(t)
     \/ Upstream(upstream) # ask[t].before /\ Goto(t, "fetch")
  /\ UNCHANGED <<checkout, saved, asks>>

Fetch(t) ==
  /\ ask[t].pc = "fetch"
  /\ \/ Return(t) /\ UNCHANGED fetchHead
     \/ fetchHead' = upstream /\ Goto(t, "merge")
  /\ UNCHANGED <<head, upstream, work, written, saved, asks>>

\* Mutant: without --ff-only, a checkout with local commits gets a merge commit.
Merge_Commit(t) ==
  /\ ask[t].pc = "merge"
  /\ \/ Return(t) /\ UNCHANGED head
     \/ /\ head' = IF fetchHead <= head.base THEN head ELSE [head EXCEPT !.base = fetchHead]
        /\ Goto(t, "gates")
  /\ UNCHANGED <<upstream, fetchHead, work, written, saved, asks>>

\* git merge --ff-only: forward, or already there; else, and over files that differ,
\* it fails.
Merge(t) ==
  /\ ask[t].pc = "merge"
  /\ \/ Return(t) /\ UNCHANGED head
     \/ /\ head.own = 0 \/ fetchHead <= head.base
        /\ head' = IF fetchHead <= head.base THEN head ELSE Upstream(fetchHead)
        /\ Goto(t, "gates")
  /\ UNCHANGED <<upstream, fetchHead, work, written, saved, asks>>

\* _source_update_gates: no uncommitted work, another commit than before, and the
\* module is found in the checkout.
Gates(t) ==
  /\ ask[t].pc = "gates"
  /\ \/ work = {} /\ head # ask[t].before /\ Return(t)
     \/ Goto(t, "reset")
  /\ UNCHANGED <<checkout, saved, asks>>

\* _rollback_to_backup: checkout of the branch, which may fail, and reset --hard.
Reset(t) ==
  /\ ask[t].pc = "reset"
  /\ \/ head' = ask[t].before /\ work' = {}
     \/ UNCHANGED <<head, work>>
  /\ Return(t)
  /\ UNCHANGED <<upstream, fetchHead, written, saved, asks>>

Serve(t) ==
  \/ \E kind \in {"backup", "apply", "rollback"} : Ask(t, kind)
  \/ ApplyState(t) \/ BackupState(t) \/ Bundle(t)
  \/ Remote(t) \/ Fetch(t) \/ Merge(t) \/ Gates(t) \/ Reset(t)

Next == Push \/ CommitWork \/ (\E w \in Work : Edit(w)) \/ (\E t \in Request : Serve(t))
Spec == Init /\ [][Next]_sourceVars

-----------------------------------------------------------------------------
(* Properties                                                               *)

\* Variables keep their types.
TypeOK ==
  /\ head \in Commit /\ upstream \in 0..Top /\ fetchHead \in 0..Top
  /\ work \subseteq written /\ written \subseteq Work /\ zipped \subseteq Work
  /\ backups \in Seq(Commit)
  /\ ask \in [Request -> [kind : {"none", "backup", "apply", "rollback"},
                          pc : {"idle", "state", "bundle", "remote", "fetch", "merge", "gates", "reset"},
                          before : Commit, start : Commit, dirty : SUBSET Work,
                          older : SUBSET Work, alone : BOOLEAN, missed : SUBSET Commit]]
  /\ asks \in 0..MaxAsks

Resets(t) == ask[t].pc = "reset" /\ ask'[t].pc = "idle" /\ (head' # head \/ work' # work)

\* Uncommitted work that is older than a request is not thrown away by it: an update
\* keeps all of it, a rollback has zipped it, all but the one file whose name git's
\* stripped list has cut.  (apply_module_update, rollback_module, _zip_dirty_files)
OlderWorkIsKept ==
  [][\A t \in Request : Resets(t) =>
       Cardinality((ask[t].older \cap work) \ zipped)
         <= IF ask[t].kind = "rollback" THEN 1 ELSE 0]_sourceVars

\* An update that nobody interferes with leaves the checkout at the commit where it
\* was or at a newer one of upstream, whatever fails on the way.  (apply_module_update)
UpdateIsForward ==
  [][\A t \in Request :
       ask[t].kind = "apply" /\ ask[t].alone /\ ask[t].pc # "idle" /\ ask'[t].pc = "idle" =>
         \/ head' = ask[t].start
         \/ head'.own = 0 /\ head'.base > ask[t].start.base]_sourceVars

\* A local commit that a request takes the checkout away from is the commit of some
\* backup, even where requests overlap, unless somebody committed it after the
\* request had looked.  (rollback_module, _create_source_backup)
LocalCommitsAreBackedUp ==
  [][\A t \in Request : Resets(t) /\ head' # head =>
       head.own = 0 \/ head \in Backups \cup ask[t].missed]_sourceVars
=============================================================================
