------------------------------ MODULE JobQueue ------------------------------
(***************************************************************************)
(* The print queue of core/agents/job_queue.py: one JSON file, and any     *)
(* number of JobQueue objects on it.  The HTTP server keeps one for as     *)
(* long as it lives; every command, MCP call, tool call and workflow opens *)
(* one of its own.  An object reads the file once, when it is made, and    *)
(* every change writes its whole copy back: open the shared <file>.tmp,    *)
(* write, rename.                                                          *)
(*                                                                         *)
(* A file is an inode, since two writers of one .tmp go on writing the     *)
(* inode after it has been renamed.  An object's lock lets one change in   *)
(* at a time, so an object is a process here.  Of the states of a job only *)
(* those the callers bring about are kept: enqueue, and the transition to  *)
(* cancelled, which a cancelled job refuses.                               *)
(***************************************************************************)
EXTENDS Naturals, FiniteSets

CONSTANTS
  Entry,          \* job ids, each a fresh uuid
  Queue,          \* JobQueue objects
  Server,         \* those that live on after a change
  Inode,          \* inodes for the file and its .tmp
  None,
  Torn,           \* what is no JSON: truncated, or written by two
  MaxUses         \* bound on the objects made

JobQueueAssumption ==
  /\ Server \subseteq Queue /\ None \notin Inode /\ MaxUses \in Nat
  /\ Torn \notin [Entry -> {"absent", "queued", "cancelled"}]

VARIABLES
  content,        \* [Inode -> Copy \cup {Torn}]
  queuePath,      \* the inode of the queue file
  tmpPath,        \* the inode of its .tmp
  object,         \* the JobQueue objects
  mixed,          \* history: inodes that two have had open at a time, or that one
                  \* renamed and another wrote
  uses            \* objects made so far

jobQueueVars == <<content, queuePath, tmpPath, object, mixed, uses>>

Copy == [Entry -> {"absent", "queued", "cancelled"}]
Empty == [e \in Entry |-> "absent"]

\* fresh: nobody has saved since the object read the file; shared: another object
\* has had the .tmp open during this save (both history).
NoObject == [pc |-> "none", jobs |-> Empty, ino |-> None, fresh |-> FALSE, shared |-> FALSE]

Init ==
  /\ content = [i \in Inode |-> Torn]
  /\ queuePath = None /\ tmpPath = None
  /\ object = [q \in Queue |-> NoObject]
  /\ mixed = {} /\ uses = 0

Holders(i) == {q \in Queue : object[q].ino = i}
Saving(q) == object[q].pc \in {"open", "written"}
Filed(e) == IF queuePath = None \/ content[queuePath] = Torn THEN "absent"
            ELSE content[queuePath][e]

-----------------------------------------------------------------------------
\* __init__, _load_if_exists: a file that cannot be read ends it.
Load(q) ==
  /\ object[q].pc = "none" /\ uses < MaxUses
  /\ uses' = uses + 1
  /\ \/ /\ queuePath = None
        /\ object' = [object EXCEPT ![q] = [NoObject EXCEPT !.pc = "ready", !.fresh = TRUE]]
     \/ /\ queuePath # None /\ content[queuePath] # Torn
        /\ object' = [object EXCEPT ![q] = [NoObject EXCEPT !.pc = "ready", !.fresh = TRUE,
                                              !.jobs = content[queuePath]]]
  /\ UNCHANGED <<content, queuePath, tmpPath, mixed>>

\* In memory first.  A job id is new to every object and every file.
Change(q, e, s) ==
  /\ object[q].pc = "ready"
  /\ object' = [object EXCEPT ![q].pc = "save", ![q].jobs[e] = s]
  /\ UNCHANGED <<content, queuePath, tmpPath, mixed, uses>>

Enqueue(q, e) ==
  /\ \A p \in Queue : object[p].jobs[e] = "absent"
  /\ \A i \in Inode : content[i] # Torn => content[i][e] = "absent"
  /\ Change(q, e, "queued")

\* Mutant: a cancelled job may be put back into the queue.
CancelJob_Retry(q, e) ==
  \E s \in {"queued", "cancelled"} : object[q].jobs[e] \notin {"absent", s} /\ Change(q, e, s)

\* Unknown ids raise KeyError and cancelled jobs ValueError; nothing changes.
CancelJob(q, e) == object[q].jobs[e] = "queued" /\ Change(q, e, "cancelled")

\* save: open("w") makes the .tmp or truncates the one that is there.
OpenTmp(q) ==
  /\ object[q].pc = "save"
  /\ LET Free == {i \in Inode : Holders(i) = {} /\ i \notin {queuePath, tmpPath}}
         Opens(i) == /\ tmpPath' = i
                     /\ content' = [content EXCEPT ![i] = Torn]
                     /\ mixed' = IF Holders(i) = {} THEN mixed \ {i} ELSE mixed \cup {i}
                     /\ object' = [p \in Queue |->
                          IF p = q THEN [object[q] EXCEPT !.pc = "open", !.ino = i,
                                                          !.shared = Holders(i) # {}]
                          ELSE [object[p] EXCEPT !.shared = @ \/ p \in Holders(i)]]
     IN  IF tmpPath # None THEN Opens(tmpPath) ELSE \E i \in Free : Opens(i)
  /\ UNCHANGED <<queuePath, uses>>

\* The text goes to the inode when the file is closed; over another's text, or
\* with another's still to come, it may stay what it is or not.
CloseTmp(q) ==
  /\ object[q].pc = "open"
  /\ \E text \in {object[q].jobs} \cup (IF object[q].shared THEN {Torn} ELSE {}) :
       content' = [content EXCEPT ![object[q].ino] = text]
  /\ object' = [object EXCEPT ![q].pc = "written"]
  /\ UNCHANGED <<queuePath, tmpPath, mixed, uses>>

\* The server's object goes on with what it has in memory.
Done(q, fresh) ==
  object' = [p \in Queue |->
    IF p = q THEN IF q \in Server
                  THEN [object[q] EXCEPT !.pc = "ready", !.ino = None, !.shared = FALSE]
                  ELSE NoObject
    ELSE [object[p] EXCEPT !.fresh = @ /\ fresh]]

\* Mutant: the file is renamed before it is closed.
ReplaceTmp_Early(q) ==
  /\ object[q].pc \in {"open", "written"} /\ tmpPath # None
  /\ queuePath' = tmpPath /\ tmpPath' = None
  /\ mixed' = IF tmpPath = object[q].ino THEN mixed ELSE mixed \cup {tmpPath}
  /\ Done(q, FALSE)
  /\ UNCHANGED <<content, uses>>

\* os.replace: whatever has the name .tmp by now becomes the queue.
ReplaceTmp(q) ==
  /\ object[q].pc = "written" /\ tmpPath # None
  /\ queuePath' = tmpPath /\ tmpPath' = None
  /\ mixed' = IF tmpPath = object[q].ino THEN mixed ELSE mixed \cup {tmpPath}
  /\ Done(q, FALSE)
  /\ UNCHANGED <<content, uses>>

\* The .tmp is gone, or held open by another on Windows: the exception reaches the
\* caller, and the server's memory keeps the change.
ReplaceFails(q) ==
  /\ object[q].pc = "written"
  /\ tmpPath = None \/ Holders(tmpPath) \ {q} # {}
  /\ Done(q, TRUE)
  /\ UNCHANGED <<content, queuePath, tmpPath, mixed, uses>>

\* The process ends, or is killed, at any point.
Ends(q) ==
  /\ object[q].pc # "none"
  /\ object' = [object EXCEPT ![q] = NoObject]
  /\ UNCHANGED <<content, queuePath, tmpPath, mixed, uses>>

Use(q) ==
  \/ Load(q) \/ OpenTmp(q) \/ CloseTmp(q) \/ ReplaceTmp(q) \/ ReplaceFails(q) \/ Ends(q)
  \/ \E e \in Entry : Enqueue(q, e) \/ CancelJob(q, e)

Next == \E q \in Queue : Use(q)
Spec == Init /\ [][Next]_jobQueueVars

-----------------------------------------------------------------------------
(* Properties                                                               *)

\* Variables keep their types; who saves has an inode.
TypeOK ==
  /\ content \in [Inode -> Copy \cup {Torn}]
  /\ queuePath \in Inode \cup {None} /\ tmpPath \in Inode \cup {None}
  /\ object \in [Queue -> [pc : {"none", "ready", "save", "open", "written"}, jobs : Copy,
                           ino : Inode \cup {None}, fresh : BOOLEAN, shared : BOOLEAN]]
  /\ mixed \subseteq Inode /\ uses \in 0..MaxUses
  /\ \A q \in Queue : Saving(q) <=> object[q].ino # None

\* "Atomic write": the queue file can be read, whenever a process dies and however
\* loads and saves interleave, unless two saves have used the .tmp at a time.
\* (JobQueue.save)
QueueFileReads == queuePath # None /\ content[queuePath] = Torn => queuePath \in mixed

\* A job on file stays there and a cancelled one stays cancelled, but for the save
\* of an object that has missed another's save, or of two at a time.  A short-lived
\* object alone, or a server alone, loses nothing.  (JobQueue.save, _load_if_exists)
SavesKeepJobs ==
  [][\A e \in Entry :
       \/ Filed(e)' = Filed(e)
       \/ Filed(e) = "absent"
       \/ Filed(e) = "queued" /\ Filed(e)' = "cancelled"
       \/ queuePath \in mixed \/ queuePath' \in mixed'
       \/ \E q \in Queue : object[q].pc = "written" /\ object'[q].pc # "written"
                            /\ ~object[q].fresh]_jobQueueVars
=============================================================================
