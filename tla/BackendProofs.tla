--------------------------- MODULE BackendProofs ---------------------------
(***************************************************************************)
(* What is proved of the parts of the backend holds of the whole: every    *)
(* step of Backend is, for each part, a step of it or one that leaves it   *)
(* alone.                                                                  *)
(*                                                                         *)
(* Four parts have their proofs in modules of their own.  Those of the     *)
(* other four are here, about their instances in Backend: first the part   *)
(* by itself, under its own assumption and specification, then the whole.  *)
(***************************************************************************)
EXTENDS Backend, SequenceTheorems, FiniteSetTheorems, TLAPS

-----------------------------------------------------------------------------
(* JobQueue: types.                                                         *)

Object == [pc : {"none", "ready", "save", "open", "written"}, jobs : Jobs!Copy,
           ino : Inode \cup {None}, fresh : BOOLEAN, shared : BOOLEAN]

\* What one object is worth.
ObjectOK(o) == o \in Object /\ (o.pc \in {"open", "written"} <=> o.ino # None)

FilesOK ==
  /\ content \in [Inode -> Jobs!Copy \cup {Torn}]
  /\ queuePath \in Inode \cup {None} /\ tmpPath \in Inode \cup {None}
  /\ mixed \subseteq Inode /\ uses \in 0..MaxUses

LEMMA QueueTypeSplit ==
  Jobs!TypeOK <=> FilesOK /\ object \in [Queue -> Object] /\ \A q \in Queue : ObjectOK(object[q])
BY DEF Jobs!TypeOK, FilesOK, ObjectOK, Object, Jobs!Saving

LEMMA NoObjectOK == ObjectOK(Jobs!NoObject) /\ Jobs!NoObject.pc = "none" /\ Jobs!NoObject.ino = None
                    /\ Jobs!NoObject.fresh = FALSE /\ Jobs!NoObject.shared = FALSE
BY DEF ObjectOK, Object, Jobs!NoObject, Jobs!Copy, Jobs!Empty

\* One object moves.
LEMMA OneObjectType ==
  ASSUME Jobs!TypeOK, FilesOK', NEW q \in Queue, NEW o, ObjectOK(o),
         object' = [object EXCEPT ![q] = o]
  PROVE  Jobs!TypeOK'
<1>1. object' \in [Queue -> Object] /\ \A p \in Queue : ObjectOK(object'[p])
  BY QueueTypeSplit DEF ObjectOK
<1> QED
  BY <1>1, QueueTypeSplit DEF Jobs!TypeOK, FilesOK, ObjectOK, Object, Jobs!Saving

LEMMA LoadObject ==
  ASSUME Jobs!JobQueueAssumption, Jobs!TypeOK, NEW q \in Queue, Jobs!Load(q)
  PROVE  \E o \in Object :
           /\ ObjectOK(o) /\ object' = [object EXCEPT ![q] = o]
           /\ o.pc = "ready" /\ o.ino = None /\ o.fresh /\ ~o.shared
           /\ \A e \in Name : o.jobs[e] = Jobs!Filed(e)
<1>1. CASE queuePath = None
        /\ object' = [object EXCEPT ![q] = [Jobs!NoObject EXCEPT !.pc = "ready", !.fresh = TRUE]]
  <2> DEFINE o == [Jobs!NoObject EXCEPT !.pc = "ready", !.fresh = TRUE]
  <2>1. /\ ObjectOK(o) /\ o.pc = "ready" /\ o.ino = None /\ o.fresh /\ ~o.shared
        /\ \A e \in Name : o.jobs[e] = "absent"
    BY DEF Jobs!NoObject, ObjectOK, Object, Jobs!Copy, Jobs!Empty
  <2>2. object' = [object EXCEPT ![q] = o]
    BY <1>1
  <2> HIDE DEF o
  <2>3. o \in Object
    BY <2>1 DEF ObjectOK
  <2>4. \A e \in Name : o.jobs[e] = Jobs!Filed(e)
    BY <1>1, <2>1 DEF Jobs!Filed
  <2> QED
    BY <2>1, <2>2, <2>3, <2>4
<1>2. CASE /\ queuePath # None /\ content[queuePath] # Torn
           /\ object' = [object EXCEPT ![q] = [Jobs!NoObject EXCEPT !.pc = "ready", !.fresh = TRUE,
                                                 !.jobs = content[queuePath]]]
  <2> DEFINE o == [Jobs!NoObject EXCEPT !.pc = "ready", !.fresh = TRUE, !.jobs = content[queuePath]]
  <2>1. content[queuePath] \in Jobs!Copy
    BY <1>2 DEF Jobs!TypeOK
  <2>2. /\ ObjectOK(o) /\ o.pc = "ready" /\ o.ino = None /\ o.fresh /\ ~o.shared
        /\ o.jobs = content[queuePath]
    BY <2>1 DEF Jobs!NoObject, ObjectOK, Object
  <2>3. object' = [object EXCEPT ![q] = o]
    BY <1>2
  <2> HIDE DEF o
  <2>4. o \in Object
    BY <2>2 DEF ObjectOK
  <2>5. \A e \in Name : o.jobs[e] = Jobs!Filed(e)
    BY <1>2, <2>2 DEF Jobs!Filed
  <2> QED
    BY <2>2, <2>3, <2>4, <2>5
<1> QED
  BY <1>1, <1>2 DEF Jobs!Load

LEMMA ChangeObject ==
  ASSUME Jobs!TypeOK, NEW q \in Queue, NEW e \in Name,
         NEW s \in {"absent", "queued", "cancelled"},
         Jobs!Change(q, e, s)
  PROVE  \E o \in Object :
           /\ ObjectOK(o) /\ object' = [object EXCEPT ![q] = o]
           /\ o.pc = "save" /\ o.ino = object[q].ino /\ o.fresh = object[q].fresh
           /\ o.shared = object[q].shared
           /\ o.jobs[e] = s /\ \A d \in Name \ {e} : o.jobs[d] = object[q].jobs[d]
<1> DEFINE o == [object[q] EXCEPT !.pc = "save", !.jobs[e] = s]
<1>1. object' = [object EXCEPT ![q] = o]
  BY DEF Jobs!Change, Jobs!TypeOK
<1>2. object[q] \in Object /\ ObjectOK(object[q]) /\ object[q].pc = "ready"
  BY QueueTypeSplit DEF Jobs!Change
<1>3. /\ o \in Object /\ o.pc = "save" /\ o.ino = object[q].ino /\ o.fresh = object[q].fresh
      /\ o.shared = object[q].shared
      /\ o.jobs[e] = s /\ \A d \in Name \ {e} : o.jobs[d] = object[q].jobs[d]
  BY <1>2 DEF Object, Jobs!Copy
<1> QED
  BY <1>1, <1>2, <1>3 DEF ObjectOK

\* The .tmp that a save opens.
LEMMA OpenTmpStep ==
  ASSUME Jobs!JobQueueAssumption, Jobs!TypeOK, NEW q \in Queue, Jobs!OpenTmp(q)
  PROVE  \E i \in Inode :
           /\ i = tmpPath \/ (tmpPath = None /\ Jobs!Holders(i) = {} /\ i # queuePath)
           /\ tmpPath' = i /\ content' = [content EXCEPT ![i] = Torn]
           /\ mixed' = IF Jobs!Holders(i) = {} THEN mixed \ {i} ELSE mixed \cup {i}
           /\ object' = [p \in Queue |->
                IF p = q THEN [object[q] EXCEPT !.pc = "open", !.ino = i,
                                                !.shared = Jobs!Holders(i) # {}]
                ELSE [object[p] EXCEPT !.shared = @ \/ p \in Jobs!Holders(i)]]
           /\ object[q].pc = "save" /\ UNCHANGED <<queuePath, uses>>
BY DEF Jobs!OpenTmp, Jobs!TypeOK

LEMMA QueueNextTypes ==
  Jobs!JobQueueAssumption /\ Jobs!TypeOK /\ [Jobs!Next]_Jobs!jobQueueVars => Jobs!TypeOK'
<1> SUFFICES ASSUME Jobs!JobQueueAssumption, Jobs!TypeOK, [Jobs!Next]_Jobs!jobQueueVars
             PROVE  Jobs!TypeOK'
  OBVIOUS
<1>1. CASE UNCHANGED Jobs!jobQueueVars
  BY <1>1 DEF Jobs!jobQueueVars, Jobs!TypeOK, Jobs!Saving
<1>2. ASSUME NEW q \in Queue, Jobs!Load(q) PROVE Jobs!TypeOK'
  <2>1. FilesOK'
    BY <1>2 DEF Jobs!Load, Jobs!TypeOK, FilesOK, Jobs!JobQueueAssumption
  <2> QED
    BY <1>2, <2>1, LoadObject, OneObjectType
<1>3. ASSUME NEW q \in Queue, NEW e \in Name, Jobs!Enqueue(q, e) \/ Jobs!CancelJob(q, e)
      PROVE  Jobs!TypeOK'
  <2>1. Jobs!Change(q, e, "queued") \/ Jobs!Change(q, e, "cancelled")
    BY <1>3 DEF Jobs!Enqueue, Jobs!CancelJob
  <2>2. FilesOK'
    BY <2>1 DEF Jobs!Change, Jobs!TypeOK, FilesOK
  <2> QED
    BY <2>1, <2>2, ChangeObject, OneObjectType
<1>4. ASSUME NEW q \in Queue, Jobs!OpenTmp(q) PROVE Jobs!TypeOK'
  <2>1. PICK i \in Inode :
           /\ tmpPath' = i /\ content' = [content EXCEPT ![i] = Torn]
           /\ mixed' = IF Jobs!Holders(i) = {} THEN mixed \ {i} ELSE mixed \cup {i}
           /\ object' = [p \in Queue |->
                IF p = q THEN [object[q] EXCEPT !.pc = "open", !.ino = i,
                                                !.shared = Jobs!Holders(i) # {}]
                ELSE [object[p] EXCEPT !.shared = @ \/ p \in Jobs!Holders(i)]]
           /\ object[q].pc = "save" /\ UNCHANGED <<queuePath, uses>>
    BY <1>4, OpenTmpStep
  <2>2. FilesOK'
    BY <2>1 DEF Jobs!TypeOK, FilesOK
  <2>3. \A p \in Queue : object'[p] =
           IF p = q THEN [object[q] EXCEPT !.pc = "open", !.ino = i, !.shared = Jobs!Holders(i) # {}]
                ELSE [object[p] EXCEPT !.shared = @ \/ p \in Jobs!Holders(i)]
    BY <2>1
  <2>4. ASSUME NEW p \in Queue PROVE ObjectOK(object'[p])
    <3>1. ObjectOK(object[p])
      BY QueueTypeSplit
    <3>2. PICK b \in BOOLEAN : b = (Jobs!Holders(i) # {})
      OBVIOUS
    <3>3. PICK c \in BOOLEAN : c = (object[p].shared \/ p \in Jobs!Holders(i))
      OBVIOUS
    <3>4. object'[p] = IF p = q THEN [object[p] EXCEPT !.pc = "open", !.ino = i, !.shared = b]
                       ELSE [object[p] EXCEPT !.shared = c]
      BY <2>3, <3>2, <3>3
    <3> QED
      BY <3>1, <3>4 DEF ObjectOK, Object, Jobs!JobQueueAssumption
  <2>5. object' \in [Queue -> Object]
    <3>1. object' = [p \in Queue |-> object'[p]]
      BY <2>1
    <3> QED
      BY <2>4, <3>1 DEF ObjectOK
  <2> QED
    BY <2>2, <2>4, <2>5, QueueTypeSplit DEF Jobs!TypeOK, FilesOK, ObjectOK, Object, Jobs!Saving
<1>5. ASSUME NEW q \in Queue, Jobs!CloseTmp(q) PROVE Jobs!TypeOK'
  <2>1. ObjectOK(object[q]) /\ object[q].pc = "open"
    BY <1>5, QueueTypeSplit DEF Jobs!CloseTmp
  <2>2. ObjectOK([object[q] EXCEPT !.pc = "written"])
    BY <2>1 DEF ObjectOK, Object
  <2>3. object' = [object EXCEPT ![q] = [object[q] EXCEPT !.pc = "written"]]
    BY <1>5 DEF Jobs!CloseTmp, Jobs!TypeOK
  <2>4. FilesOK'
    BY <1>5, <2>1 DEF Jobs!CloseTmp, Jobs!TypeOK, FilesOK, ObjectOK, Object
  <2> QED
    BY <2>2, <2>3, <2>4, OneObjectType
<1>6. ASSUME NEW q \in Queue, NEW b \in BOOLEAN, Jobs!Done(q, b), FilesOK' PROVE Jobs!TypeOK'
  <2>1. ASSUME NEW p \in Queue PROVE ObjectOK(object'[p])
    <3>1. ObjectOK(object[p]) /\ ObjectOK(Jobs!NoObject)
      BY QueueTypeSplit, NoObjectOK
    <3>2. PICK c \in BOOLEAN : c = (object[p].fresh /\ b)
      OBVIOUS
    <3>3. \/ object'[p] = Jobs!NoObject
          \/ object'[p] = [object[p] EXCEPT !.pc = "ready", !.ino = None, !.shared = FALSE]
          \/ object'[p] = [object[p] EXCEPT !.fresh = c]
      BY <1>6, <3>2 DEF Jobs!Done
    <3> QED
      BY <3>1, <3>3 DEF ObjectOK, Object
  <2>2. object' = [p \in Queue |-> object'[p]]
    BY <1>6 DEF Jobs!Done
  <2>3. object' \in [Queue -> Object]
    BY <2>1, <2>2 DEF ObjectOK
  <2> QED
    BY <1>6, <2>1, <2>3 DEF Jobs!TypeOK, FilesOK, ObjectOK, Object, Jobs!Saving
<1>7. ASSUME NEW q \in Queue, Jobs!ReplaceTmp(q) \/ Jobs!ReplaceFails(q) PROVE Jobs!TypeOK'
  <2>1. FilesOK'
    BY <1>7 DEF Jobs!ReplaceTmp, Jobs!ReplaceFails, Jobs!TypeOK, FilesOK
  <2> QED
    BY <1>6, <1>7, <2>1 DEF Jobs!ReplaceTmp, Jobs!ReplaceFails
<1>8. ASSUME NEW q \in Queue, Jobs!Ends(q) PROVE Jobs!TypeOK'
  <2>1. FilesOK'
    BY <1>8 DEF Jobs!Ends, Jobs!TypeOK, FilesOK
  <2> QED
    BY <1>8, <2>1, NoObjectOK, OneObjectType DEF Jobs!Ends
<1> QED
  BY <1>1, <1>2, <1>3, <1>4, <1>5, <1>7, <1>8 DEF Jobs!Next, Jobs!Use

LEMMA QueueInitTypes == Jobs!JobQueueAssumption /\ Jobs!Init => Jobs!TypeOK
<1> SUFFICES ASSUME Jobs!JobQueueAssumption, Jobs!Init PROVE Jobs!TypeOK
  OBVIOUS
<1>1. FilesOK
  BY DEF Jobs!Init, FilesOK, Jobs!JobQueueAssumption
<1>2. object = [q \in Queue |-> Jobs!NoObject]
  BY DEF Jobs!Init
<1>3. ObjectOK(Jobs!NoObject)
  BY NoObjectOK
<1> QED
  BY <1>1, <1>2, <1>3, QueueTypeSplit DEF ObjectOK

-----------------------------------------------------------------------------
(* JobQueue: the file and what the objects know of it.                      *)

\* Who alone has an inode open has the one that is named .tmp, and what it has written
\* is what is there.
HolderAlone(q) ==
  object[q].ino # None /\ object[q].ino \notin mixed =>
    /\ tmpPath = object[q].ino /\ ~object[q].shared
    /\ \A p \in Queue : object[p].ino = object[q].ino => p = q
    /\ object[q].pc = "written" => content[object[q].ino] = object[q].jobs

FileInv ==
  /\ queuePath # None => queuePath # tmpPath
  /\ Jobs!QueueFileReads
  /\ \A q \in Queue : HolderAlone(q)

\* A job on file may have become another in memory only in the way the callers change it.
Follows(a, b) == a = "absent" \/ b = a \/ (a = "queued" /\ b = "cancelled")

FreshKnows ==
  \A q \in Queue : object[q].pc # "none" /\ object[q].fresh /\ queuePath \notin mixed =>
    \A e \in Name : Follows(Jobs!Filed(e), object[q].jobs[e])

\* Steps that leave the files alone and open none.
LEMMA FilesAloneKeep ==
  ASSUME FileInv, UNCHANGED <<content, queuePath, tmpPath, mixed>>,
         \A p \in Queue :
           \/ object'[p].ino = None
           \/ /\ object'[p].ino = object[p].ino /\ object'[p].pc = object[p].pc
              /\ object'[p].jobs = object[p].jobs /\ object'[p].shared = object[p].shared
  PROVE  FileInv'
BY DEF FileInv, HolderAlone, Jobs!QueueFileReads

LEMMA FilesAloneKnow ==
  ASSUME FreshKnows, UNCHANGED queuePath,
         queuePath # None => content'[queuePath] = content[queuePath],
         queuePath \in mixed => queuePath \in mixed',
         \A p \in Queue :
           \/ object'[p].pc = "none" \/ ~object'[p].fresh
           \/ object[p].pc # "none" /\ object[p].fresh /\ object'[p].jobs = object[p].jobs
  PROVE  FreshKnows'
BY DEF FreshKnows, Jobs!Filed

LEMMA OpenTmpKeeps ==
  ASSUME Jobs!JobQueueAssumption, Jobs!TypeOK, FileInv, FreshKnows, NEW q \in Queue,
         Jobs!OpenTmp(q)
  PROVE  FileInv' /\ FreshKnows'
<1>1. PICK i \in Inode :
        /\ i = tmpPath \/ (tmpPath = None /\ Jobs!Holders(i) = {} /\ i # queuePath)
        /\ tmpPath' = i /\ content' = [content EXCEPT ![i] = Torn]
        /\ mixed' = IF Jobs!Holders(i) = {} THEN mixed \ {i} ELSE mixed \cup {i}
        /\ object' = [p \in Queue |->
             IF p = q THEN [object[q] EXCEPT !.pc = "open", !.ino = i, !.shared = Jobs!Holders(i) # {}]
             ELSE [object[p] EXCEPT !.shared = @ \/ p \in Jobs!Holders(i)]]
        /\ object[q].pc = "save" /\ UNCHANGED <<queuePath, uses>>
  BY OpenTmpStep
<1>2. \A p \in Queue : object[p] \in Object /\ ObjectOK(object[p])
  BY QueueTypeSplit
<1>3. object'[q] = [object[q] EXCEPT !.pc = "open", !.ino = i, !.shared = Jobs!Holders(i) # {}]
  BY <1>1
<1>4. \A p \in Queue \ {q} : object'[p] = [object[p] EXCEPT !.shared = @ \/ p \in Jobs!Holders(i)]
  BY <1>1
<1>5. /\ object'[q].pc = "open" /\ object'[q].ino = i
      /\ object'[q].shared = (Jobs!Holders(i) # {})
      /\ object'[q].fresh = object[q].fresh /\ object'[q].jobs = object[q].jobs
  BY <1>2, <1>3 DEF Object
<1>6. ASSUME NEW p \in Queue, p # q
      PROVE  /\ object'[p].pc = object[p].pc /\ object'[p].ino = object[p].ino
             /\ object'[p].fresh = object[p].fresh /\ object'[p].jobs = object[p].jobs
             /\ p \notin Jobs!Holders(i) => object'[p].shared = object[p].shared
  <2>1. PICK c \in BOOLEAN : c = (object[p].shared \/ p \in Jobs!Holders(i))
    OBVIOUS
  <2>2. object'[p] = [object[p] EXCEPT !.shared = c]
    BY <1>4, <1>6, <2>1
  <2> QED
    BY <1>2, <1>6, <2>1, <2>2 DEF Object
<1>7. queuePath # i /\ object[q].ino = None
  BY <1>1, <1>2 DEF FileInv, ObjectOK, Jobs!JobQueueAssumption
<1>8. content' \in [Inode -> Jobs!Copy \cup {Torn}] /\ content'[i] = Torn
      /\ \A j \in Inode \ {i} : content'[j] = content[j]
  BY <1>1 DEF Jobs!TypeOK
<1>9. queuePath # None => queuePath \in Inode
  BY DEF Jobs!TypeOK
<1>10. queuePath # None => content'[queuePath] = content[queuePath]
  BY <1>7, <1>8, <1>9
<1>11. queuePath \in mixed <=> queuePath \in mixed'
  BY <1>1, <1>7
<1>0. /\ tmpPath' = i
      /\ Jobs!Holders(i) = {} => \A j : j \in mixed' <=> j \in mixed /\ j # i
      /\ Jobs!Holders(i) # {} => \A j : j \in mixed' <=> j \in mixed \/ j = i
  BY <1>1
<1>12. FreshKnows'
  <2>1. \A p \in Queue :
           \/ object'[p].pc = "none" \/ ~object'[p].fresh
           \/ object[p].pc # "none" /\ object[p].fresh /\ object'[p].jobs = object[p].jobs
    BY <1>1, <1>5, <1>6
  <2> QED
    BY <1>1, <1>10, <1>11, <2>1, FilesAloneKnow
<1>13. ASSUME NEW p \in Queue PROVE HolderAlone(p)'
  <2>1. SUFFICES ASSUME object'[p].ino # None, object'[p].ino \notin mixed'
                 PROVE  /\ tmpPath' = object'[p].ino /\ ~object'[p].shared
                        /\ \A r \in Queue : object'[r].ino = object'[p].ino => r = p
                        /\ object'[p].pc = "written" =>
                             content'[object'[p].ino] = object'[p].jobs
    BY DEF HolderAlone
  <2>2. CASE p = q
    <3>1. Jobs!Holders(i) = {}
      BY <1>0, <1>5, <2>1, <2>2
    <3>2. \A r \in Queue : object[r].ino # i
      BY <3>1 DEF Jobs!Holders
    <3> QED
      BY <1>0, <1>5, <1>6, <2>2, <3>1, <3>2
  <2>3. CASE p # q
    <3>1. object'[p].ino = object[p].ino
      BY <1>6, <2>3
    <3>2. object[p].ino # i
      <4>1. SUFFICES ASSUME object[p].ino = i PROVE FALSE
        OBVIOUS
      <4>2. p \in Jobs!Holders(i)
        BY <4>1 DEF Jobs!Holders
      <4> QED
        BY <1>0, <2>1, <3>1, <4>1, <4>2
    <3>3. object[p].ino \notin mixed
      BY <1>0, <2>1, <3>1, <3>2
    <3>4. tmpPath = object[p].ino
      BY <2>1, <3>1, <3>3 DEF FileInv, HolderAlone
    <3>5. HolderAlone(p) /\ object[p].ino \in Inode /\ p \notin Jobs!Holders(i)
      BY <2>1, <3>1, <3>2 DEF FileInv, Jobs!TypeOK, Jobs!Holders
    <3>6. /\ ~object'[p].shared
          /\ object'[p].pc = "written" => content'[object'[p].ino] = object'[p].jobs
      BY <1>6, <1>8, <2>1, <2>3, <3>1, <3>2, <3>3, <3>5 DEF HolderAlone
    <3>7. \A r \in Queue : object'[r].ino = object'[p].ino => r = p
      BY <1>5, <1>6, <3>1, <3>2, <3>3, <3>5, <2>1 DEF HolderAlone
    <3>8. tmpPath' = object'[p].ino
      BY <1>1, <2>1, <3>1, <3>4
    <3> QED
      BY <3>6, <3>7, <3>8
  <2> QED
    BY <2>2, <2>3
<1>14. Jobs!QueueFileReads'
  BY <1>1, <1>10, <1>11 DEF FileInv, Jobs!QueueFileReads
<1> QED
  BY <1>1, <1>7, <1>12, <1>13, <1>14 DEF FileInv

LEMMA CloseTmpKeeps ==
  ASSUME Jobs!JobQueueAssumption, Jobs!TypeOK, FileInv, FreshKnows, NEW q \in Queue,
         Jobs!CloseTmp(q)
  PROVE  FileInv' /\ FreshKnows' /\ (queuePath \notin mixed => \A e \in Name : Jobs!Filed(e)' = Jobs!Filed(e))
<1> DEFINE i == object[q].ino
<1>1. ObjectOK(object[q]) /\ object[q].pc = "open"
  BY QueueTypeSplit DEF Jobs!CloseTmp
<1>2. i \in Inode /\ i # None
  BY <1>1 DEF ObjectOK, Object
<1>3. PICK text : content' = [content EXCEPT ![i] = text]
                  /\ (text = object[q].jobs \/ (object[q].shared /\ text = Torn))
  BY DEF Jobs!CloseTmp
<1>4. content'[i] = text /\ \A j \in Inode \ {i} : content'[j] = content[j]
  BY <1>2, <1>3 DEF Jobs!TypeOK
<1>5. /\ object'[q].pc = "written" /\ object'[q].ino = i /\ object'[q].jobs = object[q].jobs
      /\ object'[q].fresh = object[q].fresh /\ object'[q].shared = object[q].shared
      /\ \A p \in Queue \ {q} : object'[p] = object[p]
  <2>1. object' = [object EXCEPT ![q] = [object[q] EXCEPT !.pc = "written"]]
    BY DEF Jobs!CloseTmp, Jobs!TypeOK
  <2> QED
    BY <1>1, <2>1 DEF ObjectOK, Object, Jobs!TypeOK
<1>6. UNCHANGED <<queuePath, tmpPath, mixed>>
  BY DEF Jobs!CloseTmp
<1>7. queuePath # None /\ queuePath \notin mixed => queuePath \in Inode \ {i}
  BY <1>2 DEF FileInv, HolderAlone, Jobs!TypeOK
<1>8. queuePath # None /\ queuePath \notin mixed => content'[queuePath] = content[queuePath]
  BY <1>4, <1>7
<1>9. queuePath \notin mixed => \A e \in Name : Jobs!Filed(e)' = Jobs!Filed(e)
  BY <1>6, <1>8 DEF Jobs!Filed
<1>10. FreshKnows'
  <2>1. SUFFICES ASSUME NEW p \in Queue, object'[p].pc # "none", object'[p].fresh,
                        queuePath' \notin mixed'
                 PROVE  \A e \in Name : Follows(Jobs!Filed(e)', object'[p].jobs[e])
    BY DEF FreshKnows
  <2>2. object[p].pc # "none" /\ object[p].fresh /\ object'[p].jobs = object[p].jobs
    BY <1>1, <1>5, <2>1
  <2> QED
    BY <1>6, <1>9, <2>1, <2>2 DEF FreshKnows
<1>11. ASSUME NEW p \in Queue PROVE HolderAlone(p)'
  <2>1. \A r \in Queue : object'[r].ino = object[r].ino /\ object'[r].shared = object[r].shared
                        /\ object'[r].jobs = object[r].jobs
    BY <1>5
  <2>2. CASE p = q
    BY <1>3, <1>4, <1>5, <1>6, <2>1, <2>2 DEF FileInv, HolderAlone
  <2>3. CASE p # q
    <3>1. SUFFICES ASSUME object[p].ino # None, object[p].ino \notin mixed PROVE HolderAlone(p)'
      BY <1>6, <2>1 DEF HolderAlone
    <3>2. HolderAlone(p) /\ object[p].ino # i /\ object[p].ino \in Inode
      BY <2>3, <3>1 DEF FileInv, HolderAlone, Jobs!TypeOK
    <3> QED
      BY <1>4, <1>5, <1>6, <2>1, <2>3, <3>2 DEF HolderAlone
  <2> QED
    BY <2>2, <2>3
<1>12. Jobs!QueueFileReads'
  BY <1>6, <1>8 DEF FileInv, Jobs!QueueFileReads
<1> QED
  BY <1>6, <1>9, <1>10, <1>11, <1>12 DEF FileInv
LEMMA DoneObjects ==
  ASSUME Jobs!TypeOK, NEW q \in Queue, NEW b \in BOOLEAN, Jobs!Done(q, b)
  PROVE  /\ object'[q].ino = None
         /\ object'[q].pc = "none" \/ (/\ object'[q].jobs = object[q].jobs
                                      /\ object'[q].fresh = object[q].fresh)
         /\ \A p \in Queue \ {q} :
              /\ object'[p].pc = object[p].pc /\ object'[p].ino = object[p].ino
              /\ object'[p].jobs = object[p].jobs /\ object'[p].shared = object[p].shared
              /\ object'[p].fresh = (object[p].fresh /\ b)
<1>1. \A p \in Queue : object[p] \in Object
  BY QueueTypeSplit
<1>2. \/ object'[q] = Jobs!NoObject
      \/ object'[q] = [object[q] EXCEPT !.pc = "ready", !.ino = None, !.shared = FALSE]
  BY DEF Jobs!Done
<1>3. ASSUME NEW p \in Queue \ {q}
      PROVE  /\ object'[p].pc = object[p].pc /\ object'[p].ino = object[p].ino
             /\ object'[p].jobs = object[p].jobs /\ object'[p].shared = object[p].shared
             /\ object'[p].fresh = (object[p].fresh /\ b)
  <2>1. PICK c \in BOOLEAN : c = (object[p].fresh /\ b)
    OBVIOUS
  <2>2. object'[p] = [object[p] EXCEPT !.fresh = c]
    BY <1>3, <2>1 DEF Jobs!Done
  <2> QED
    BY <1>1, <2>1, <2>2 DEF Object
<1> QED
  BY <1>1, <1>2, <1>3, NoObjectOK DEF Object

LEMMA ReplaceTmpKeeps ==
  ASSUME Jobs!JobQueueAssumption, Jobs!TypeOK, FileInv, FreshKnows, NEW q \in Queue,
         Jobs!ReplaceTmp(q)
  PROVE  /\ FileInv' /\ FreshKnows'
         /\ queuePath' \notin mixed' => content'[queuePath'] = object[q].jobs
<1> DEFINE i == object[q].ino
<1>1. /\ object[q].pc = "written" /\ tmpPath # None
      /\ queuePath' = tmpPath /\ tmpPath' = None
      /\ tmpPath = i => mixed' = mixed
      /\ tmpPath # i => \A j : j \in mixed' <=> j \in mixed \/ j = tmpPath
      /\ content' = content
  BY DEF Jobs!ReplaceTmp
<1>2. ObjectOK(object[q]) /\ i \in Inode /\ i # None
  BY <1>1, QueueTypeSplit DEF ObjectOK, Object
<1>3. /\ object'[q].ino = None
      /\ object'[q].pc = "none" \/ (/\ object'[q].jobs = object[q].jobs
                                   /\ object'[q].fresh = object[q].fresh)
      /\ \A p \in Queue \ {q} :
           /\ object'[p].pc = object[p].pc /\ object'[p].ino = object[p].ino
           /\ object'[p].jobs = object[p].jobs /\ object'[p].shared = object[p].shared
           /\ ~object'[p].fresh
  BY DoneObjects DEF Jobs!ReplaceTmp
<1>4. queuePath' \notin mixed' => content'[queuePath'] = object[q].jobs
  BY <1>1, <1>2 DEF FileInv, HolderAlone
<1>5. Jobs!QueueFileReads'
  <2>1. object[q].jobs # Torn
    BY <1>2 DEF ObjectOK, Object, Jobs!Copy, Jobs!JobQueueAssumption
  <2> QED
    BY <1>4, <2>1 DEF Jobs!QueueFileReads
<1>6. ASSUME NEW p \in Queue PROVE HolderAlone(p)'
  <2>1. SUFFICES ASSUME object'[p].ino # None, object'[p].ino \notin mixed' PROVE FALSE
    BY DEF HolderAlone
  <2>2. p # q /\ object'[p].ino = object[p].ino
    BY <1>3, <2>1
  <2>3. object[p].ino \notin mixed
    BY <1>1, <2>1, <2>2
  <2>4. tmpPath = object[p].ino /\ object[q].ino # object[p].ino
    BY <1>2, <2>1, <2>2, <2>3 DEF FileInv, HolderAlone
  <2> QED
    BY <1>1, <2>1, <2>2, <2>4
<1>7. FreshKnows'
  <2>1. SUFFICES ASSUME NEW p \in Queue, object'[p].pc # "none", object'[p].fresh,
                        queuePath' \notin mixed'
                 PROVE  \A e \in Name : Follows(Jobs!Filed(e)', object'[p].jobs[e])
    BY DEF FreshKnows
  <2>2. p = q /\ object'[p].jobs = object[q].jobs
    BY <1>3, <2>1
  <2> QED
    BY <1>4, <2>1, <2>2 DEF Jobs!Filed, Follows
<1> QED
  BY <1>1, <1>4, <1>5, <1>6, <1>7 DEF FileInv

LEMMA ChangeKeeps ==
  ASSUME Jobs!JobQueueAssumption, Jobs!TypeOK, FileInv, FreshKnows, NEW q \in Queue,
         NEW e \in Name,
         Jobs!Enqueue(q, e) \/ Jobs!CancelJob(q, e)
  PROVE  FileInv' /\ FreshKnows'
<1>1. PICK s \in {"queued", "cancelled"} :
        /\ Jobs!Change(q, e, s)
        /\ s = "queued" => Jobs!Enqueue(q, e)
        /\ s = "cancelled" => object[q].jobs[e] = "queued"
  BY DEF Jobs!Enqueue, Jobs!CancelJob
<1>2. PICK o \in Object :
        /\ ObjectOK(o) /\ object' = [object EXCEPT ![q] = o]
        /\ o.pc = "save" /\ o.ino = object[q].ino /\ o.fresh = object[q].fresh
        /\ o.shared = object[q].shared
        /\ o.jobs[e] = s /\ \A d \in Name \ {e} : o.jobs[d] = object[q].jobs[d]
  BY <1>1, ChangeObject
<1>3. object'[q] = o /\ (\A p \in Queue \ {q} : object'[p] = object[p]) /\ o.ino = None
  BY <1>2 DEF Jobs!TypeOK, ObjectOK
<1>4. object[q].pc = "ready" /\ UNCHANGED <<content, queuePath, tmpPath, mixed>>
  BY <1>1 DEF Jobs!Change
<1>5. FileInv'
  BY <1>3, <1>4, FilesAloneKeep
<1>6. ASSUME NEW d \in Name, queuePath \notin mixed, o.fresh
      PROVE  Follows(Jobs!Filed(d), o.jobs[d])
  <2>1. Follows(Jobs!Filed(d), object[q].jobs[d])
    BY <1>2, <1>4, <1>6 DEF FreshKnows
  <2>2. CASE d # e
    BY <1>2, <2>1, <2>2
  <2>3. CASE d = e /\ s = "queued"
    BY <1>1, <2>3 DEF Jobs!Enqueue, Jobs!Filed, Follows, Jobs!TypeOK
  <2>4. CASE d = e /\ s = "cancelled"
    BY <1>1, <1>2, <2>1, <2>4 DEF Follows
  <2> QED
    BY <1>1, <2>2, <2>3, <2>4
<1>7. FreshKnows'
  BY <1>3, <1>4, <1>6 DEF FreshKnows, Jobs!Filed
<1> QED
  BY <1>5, <1>7

QueueInv == Jobs!TypeOK /\ FileInv /\ FreshKnows

LEMMA QueueInvStep == Jobs!JobQueueAssumption /\ QueueInv /\ [Jobs!Next]_Jobs!jobQueueVars => QueueInv'
<1> SUFFICES ASSUME Jobs!JobQueueAssumption, QueueInv, [Jobs!Next]_Jobs!jobQueueVars
             PROVE  FileInv' /\ FreshKnows'
  BY QueueNextTypes DEF QueueInv
<1>0. Jobs!TypeOK /\ FileInv /\ FreshKnows
  BY DEF QueueInv
<1>1. CASE UNCHANGED Jobs!jobQueueVars
  BY <1>0, <1>1 DEF Jobs!jobQueueVars, FileInv, HolderAlone, Jobs!QueueFileReads, FreshKnows,
     Jobs!Filed
<1>2. ASSUME NEW q \in Queue, Jobs!Load(q) PROVE FileInv' /\ FreshKnows'
  <2>1. PICK o \in Object :
          /\ object' = [object EXCEPT ![q] = o]
          /\ o.ino = None /\ \A e \in Name : o.jobs[e] = Jobs!Filed(e)
    BY <1>0, <1>2, LoadObject
  <2>2. object'[q] = o /\ \A p \in Queue \ {q} : object'[p] = object[p]
    BY <1>0, <2>1 DEF Jobs!TypeOK
  <2>3. UNCHANGED <<content, queuePath, tmpPath, mixed>>
    BY <1>2 DEF Jobs!Load
  <2>4. FileInv'
    BY <1>0, <2>1, <2>2, <2>3, FilesAloneKeep
  <2> QED
    BY <1>0, <2>1, <2>2, <2>3, <2>4 DEF FreshKnows, Jobs!Filed, Follows
<1>3. ASSUME NEW q \in Queue, NEW e \in Name, Jobs!Enqueue(q, e) \/ Jobs!CancelJob(q, e)
      PROVE  FileInv' /\ FreshKnows'
  BY <1>0, <1>3, ChangeKeeps
<1>4. ASSUME NEW q \in Queue, Jobs!OpenTmp(q) \/ Jobs!CloseTmp(q) \/ Jobs!ReplaceTmp(q)
      PROVE  FileInv' /\ FreshKnows'
  BY <1>0, <1>4, OpenTmpKeeps, CloseTmpKeeps, ReplaceTmpKeeps
<1>5. ASSUME NEW q \in Queue, Jobs!ReplaceFails(q) PROVE FileInv' /\ FreshKnows'
  <2>1. UNCHANGED <<content, queuePath, tmpPath, mixed>> /\ object[q].pc = "written"
        /\ Jobs!Done(q, TRUE)
    BY <1>5 DEF Jobs!ReplaceFails
  <2>2. /\ object'[q].ino = None
        /\ object'[q].pc = "none" \/ (/\ object'[q].jobs = object[q].jobs
                                     /\ object'[q].fresh = object[q].fresh)
        /\ \A p \in Queue \ {q} :
             /\ object'[p].pc = object[p].pc /\ object'[p].ino = object[p].ino
             /\ object'[p].jobs = object[p].jobs /\ object'[p].shared = object[p].shared
             /\ object'[p].fresh => object[p].fresh
    BY <1>0, <2>1, DoneObjects
  <2>3. FileInv'
    BY <1>0, <2>1, <2>2, FilesAloneKeep
  <2> QED
    BY <1>0, <2>1, <2>2, <2>3, FilesAloneKnow
<1>6. ASSUME NEW q \in Queue, Jobs!Ends(q) PROVE FileInv' /\ FreshKnows'
  <2>1. object'[q] = Jobs!NoObject /\ \A p \in Queue \ {q} : object'[p] = object[p]
    BY <1>0, <1>6 DEF Jobs!Ends, Jobs!TypeOK
  <2>2. UNCHANGED <<content, queuePath, tmpPath, mixed>>
    BY <1>6 DEF Jobs!Ends
  <2>3. FileInv'
    BY <1>0, <2>1, <2>2, FilesAloneKeep, NoObjectOK
  <2> QED
    BY <1>0, <2>1, <2>2, <2>3, FilesAloneKnow, NoObjectOK
<1> QED
  BY <1>1, <1>2, <1>3, <1>4, <1>5, <1>6 DEF Jobs!Next, Jobs!Use

LEMMA QueueInvHolds == ASSUME Jobs!JobQueueAssumption PROVE Jobs!Spec => []QueueInv
<1>1. Jobs!Init => QueueInv
  <2> SUFFICES ASSUME Jobs!Init PROVE QueueInv
    OBVIOUS
  <2>1. \A q \in Queue : object[q].ino = None /\ object[q].pc = "none"
    BY NoObjectOK DEF Jobs!Init
  <2> QED
    BY <2>1, QueueInitTypes DEF Jobs!Init, QueueInv, FileInv, HolderAlone, Jobs!QueueFileReads,
       FreshKnows
<1>2. QueueInv /\ [Jobs!Next]_Jobs!jobQueueVars => QueueInv'
  BY QueueInvStep
<1> QED
  BY <1>1, <1>2, PTL DEF Jobs!Spec

\* A step that changes what the file says of a job is a save, and the saver knew the file.
LEMMA SaveStep ==
  ASSUME Jobs!JobQueueAssumption, QueueInv, NEW e \in Name, [Jobs!Next]_Jobs!jobQueueVars,
         queuePath \notin mixed, queuePath' \notin mixed', Jobs!Filed(e)' # Jobs!Filed(e)
  PROVE  \/ Follows(Jobs!Filed(e), Jobs!Filed(e)')
         \/ \E q \in Queue : object[q].pc = "written" /\ object'[q].pc # "written"
                             /\ ~object[q].fresh
<1>0. Jobs!TypeOK /\ FileInv /\ FreshKnows
  BY DEF QueueInv
<1>1. ASSUME UNCHANGED queuePath, queuePath # None => content'[queuePath] = content[queuePath]
      PROVE  FALSE
  BY <1>1 DEF Jobs!Filed
<1>2. PICK q \in Queue : Jobs!Use(q)
  BY <1>1 DEF Jobs!Next, Jobs!jobQueueVars
<1>3. CASE Jobs!OpenTmp(q)
  <2>1. PICK i \in Inode :
          /\ i = tmpPath \/ (tmpPath = None /\ Jobs!Holders(i) = {} /\ i # queuePath)
          /\ content' = [content EXCEPT ![i] = Torn] /\ UNCHANGED queuePath
    BY <1>0, <1>3, OpenTmpStep
  <2>2. queuePath # i
    BY <1>0, <2>1 DEF FileInv, Jobs!JobQueueAssumption
  <2> QED
    BY <1>0, <1>1, <2>1, <2>2 DEF Jobs!TypeOK
<1>4. CASE Jobs!CloseTmp(q)
  BY <1>0, <1>4, CloseTmpKeeps
<1>5. CASE Jobs!ReplaceTmp(q)
  <2>1. content'[queuePath'] = object[q].jobs /\ object[q].pc = "written"
    BY <1>0, <1>5, ReplaceTmpKeeps DEF Jobs!ReplaceTmp
  <2>2. object[q].jobs # Torn /\ queuePath' # None
    BY <1>0, <1>5, QueueTypeSplit DEF Jobs!ReplaceTmp, ObjectOK, Object, Jobs!Copy,
       Jobs!JobQueueAssumption
  <2>3. Jobs!Filed(e)' = object[q].jobs[e]
    BY <2>1, <2>2 DEF Jobs!Filed
  <2>4. object'[q].pc # "written"
    <3>1. \/ object'[q] = Jobs!NoObject
          \/ object'[q] = [object[q] EXCEPT !.pc = "ready", !.ino = None, !.shared = FALSE]
      BY <1>5 DEF Jobs!ReplaceTmp, Jobs!Done
    <3>2. object[q] \in Object
      BY <1>0, QueueTypeSplit
    <3> QED
      BY <3>1, <3>2, NoObjectOK DEF Object
  <2> QED
    BY <1>0, <2>1, <2>3, <2>4 DEF FreshKnows
<1>6. CASE Jobs!Load(q) \/ Jobs!ReplaceFails(q) \/ Jobs!Ends(q) \/ \E d \in Name : Jobs!Enqueue(q, d) \/ Jobs!CancelJob(q, d)
  BY <1>1, <1>6 DEF Jobs!Load, Jobs!ReplaceFails, Jobs!Ends, Jobs!Enqueue, Jobs!CancelJob,
     Jobs!Change
<1> QED
  BY <1>2, <1>3, <1>4, <1>5, <1>6 DEF Jobs!Use

LEMMA QueueKeepsJobs == ASSUME Jobs!JobQueueAssumption PROVE Jobs!Spec => Jobs!SavesKeepJobs
<1>1. QueueInv /\ [Jobs!Next]_Jobs!jobQueueVars =>
        [\A e \in Name :
           \/ Jobs!Filed(e)' = Jobs!Filed(e)
           \/ Jobs!Filed(e) = "absent"
           \/ Jobs!Filed(e) = "queued" /\ Jobs!Filed(e)' = "cancelled"
           \/ queuePath \in mixed \/ queuePath' \in mixed'
           \/ \E q \in Queue : object[q].pc = "written" /\ object'[q].pc # "written"
                                /\ ~object[q].fresh]_Jobs!jobQueueVars
  BY SaveStep DEF Follows
<1>2. Jobs!Spec => []QueueInv
  BY QueueInvHolds
<1> QED
  BY <1>1, <1>2, PTL DEF Jobs!Spec, Jobs!SavesKeepJobs

-----------------------------------------------------------------------------
(* SourceUpdates: types.                                                    *)

Asking == [kind : {"none", "backup", "apply", "rollback"},
           pc : {"idle", "state", "bundle", "remote", "fetch", "merge", "gates", "reset"},
           before : Source!Commit, start : Source!Commit, dirty : SUBSET Name,
           older : SUBSET Name, alone : BOOLEAN, missed : SUBSET Source!Commit]

ModuleOK ==
  /\ head \in Source!Commit /\ upstream \in 0..Top /\ fetchHead \in 0..Top
  /\ work \subseteq written /\ written \subseteq Name /\ zipped \subseteq Name
  /\ backups \in Seq(Source!Commit) /\ asks \in 0..MaxAsks

LEMMA SourceTypeSplit == Source!TypeOK <=> ModuleOK /\ ask \in [Request -> Asking]
BY DEF Source!TypeOK, ModuleOK, Asking

LEMMA NextTypeSplit == ModuleOK' /\ ask' \in [Request -> Asking] => Source!TypeOK'
BY DEF Source!TypeOK, ModuleOK, Asking

LEMMA UpstreamType ==
  ASSUME Source!SourceUpdatesAssumption
  PROVE  \A n \in 0..Top : Source!Upstream(n) \in Source!Commit
BY DEF Source!Upstream, Source!Commit, Source!SourceUpdatesAssumption

LEMMA NoAskOK ==
  ASSUME Source!SourceUpdatesAssumption
  PROVE  Source!NoAsk \in Asking /\ Source!NoAsk.kind = "none" /\ Source!NoAsk.pc = "idle" /\ Source!NoAsk.older = {}
<1>1. Source!Upstream(0) \in Source!Commit
  BY UpstreamType DEF Source!SourceUpdatesAssumption
<1> QED
  BY <1>1 DEF Source!NoAsk, Asking

LEMMA BackupsType == Source!TypeOK => Source!Backups \subseteq Source!Commit
<1> SUFFICES ASSUME Source!TypeOK, NEW i \in DOMAIN backups PROVE backups[i] \in Source!Commit
  BY DEF Source!Backups
<1>1. backups \in Seq(Source!Commit) /\ DOMAIN backups = 1..Len(backups)
  BY LenProperties DEF Source!TypeOK
<1> QED
  BY <1>1, ElementOfSeq

\* A record adds to the backups.
LEMMA RecordedBackup ==
  ASSUME Source!TypeOK, NEW c \in Source!Commit, backups' = Append(backups, c)
  PROVE  backups' \in Seq(Source!Commit) /\ Source!Backups \cup {c} \subseteq Source!Backups'
<1>1. /\ backups \in Seq(Source!Commit) /\ Len(backups) \in Nat
      /\ DOMAIN backups = 1..Len(backups)
  BY LenProperties DEF Source!TypeOK
<1>2. /\ backups' \in Seq(Source!Commit) /\ Len(backups') = Len(backups) + 1
      /\ \A i \in 1..Len(backups) : backups'[i] = backups[i]
      /\ backups'[Len(backups) + 1] = c
  BY <1>1, AppendProperties
<1>3. DOMAIN backups' = 1..(Len(backups) + 1)
  BY <1>2, LenProperties
<1>4. \A i \in 1..Len(backups) : i \in DOMAIN backups'
  BY <1>1, <1>3
<1>5. Len(backups) + 1 \in DOMAIN backups'
  BY <1>1, <1>3
<1>6. Source!Backups \subseteq Source!Backups'
  BY <1>1, <1>2, <1>4 DEF Source!Backups
<1> QED
  BY <1>2, <1>5, <1>6 DEF Source!Backups

-----------------------------------------------------------------------------
(* SourceUpdates: what a request knows of the checkout.                     *)

AskShape(a) ==
  /\ a.pc = "bundle" => a.kind \in {"backup", "rollback"}
  /\ a.pc \in {"remote", "fetch", "merge", "gates"} => a.kind = "apply"
  /\ a.pc = "reset" => a.kind \in {"apply", "rollback"}
  /\ a.older \subseteq written

\* What was there when the request came is in the zip, but for one file, or gone.
AskWork(a) ==
  /\ a.pc = "bundle" => a.older \cap work \subseteq a.dirty
  /\ a.pc = "reset" /\ a.kind = "rollback" => \E w : (a.older \cap work) \ zipped \subseteq {w}
  /\ a.pc \notin {"idle", "state"} /\ a.kind = "apply" => a.older \cap work = {}

\* Where it goes back to is a backup, and so is where it would go away from, or it is about
\* to be one, or it was made behind its back.
AskHead(a) ==
  /\ a.pc # "idle" /\ a.kind = "rollback" => a.before \in Source!Backups
  /\ a.pc \notin {"idle", "state"} /\ a.kind = "apply" => a.before \in Source!Backups
  /\ a.pc \notin {"idle", "state"} /\ head.own # 0 =>
       head \in Source!Backups \cup a.missed \/ (a.pc = "bundle" /\ head = a.start)

\* An update that is alone has moved the checkout forward or not at all.
AskForward(a) ==
  a.kind = "apply" /\ a.alone =>
    /\ a.pc \in {"state", "remote", "fetch", "merge"} => head = a.start
    /\ a.pc \in {"remote", "fetch", "merge", "gates", "reset"} => a.before = a.start
    /\ a.pc \in {"gates", "reset"} =>
         head = a.start \/ (head.own = 0 /\ head.base > a.start.base)

AskInv(a) == AskShape(a) /\ AskWork(a) /\ AskHead(a) /\ AskForward(a)

OnlyOne ==
  \A t, u \in Request : ask[t].alone /\ ask[t].pc # "idle" /\ u # t => ask[u].pc = "idle"

SourceInv == OnlyOne /\ \A t \in Request : AskInv(ask[t])
SourceState == Source!TypeOK /\ SourceInv

\* What no step takes back: texts that are gone stay gone, copies stay.
Onward ==
  /\ written \subseteq written' /\ work' \cap written \subseteq work
  /\ zipped \subseteq zipped' /\ Source!Backups \subseteq Source!Backups'

LEMMA SameBackups == UNCHANGED backups => UNCHANGED Source!Backups
BY DEF Source!Backups

\* A request that another step passes by.
LEMMA AskStays ==
  ASSUME Source!TypeOK, NEW u \in Request, AskInv(ask[u]), Onward,
         /\ ask'[u].pc = ask[u].pc /\ ask'[u].kind = ask[u].kind /\ ask'[u].before = ask[u].before
         /\ ask'[u].start = ask[u].start /\ ask'[u].dirty = ask[u].dirty
         /\ ask'[u].older = ask[u].older /\ ask[u].missed \subseteq ask'[u].missed,
         head' = head \/ head'.own = 0 \/ head' \in Source!Backups' \cup ask'[u].missed,
         ask'[u].alone => ask[u].alone /\ (head' = head \/ ask[u].pc = "idle")
  PROVE  AskInv(ask[u])'
<1>1. AskShape(ask[u])'
  BY DEF AskInv, AskShape, Onward
<1>2. ask'[u].older \cap work' \subseteq ask[u].older \cap work
  BY DEF AskInv, AskShape, Onward
<1>3. AskWork(ask[u])'
  <2>1. ask[u].pc = "reset" /\ ask[u].kind = "rollback" =>
          \E w : (ask'[u].older \cap work') \ zipped' \subseteq {w}
    <3>1. SUFFICES ASSUME ask[u].pc = "reset" /\ ask[u].kind = "rollback"
                   PROVE  \E w : (ask'[u].older \cap work') \ zipped' \subseteq {w}
      OBVIOUS
    <3>2. PICK w : (ask[u].older \cap work) \ zipped \subseteq {w}
      BY <3>1 DEF AskInv, AskWork
    <3>3. (ask'[u].older \cap work') \ zipped' \subseteq {w}
      BY <1>2, <3>2 DEF Onward
    <3> QED
      BY <3>3
  <2> QED
    BY <1>2, <2>1 DEF AskInv, AskWork
<1>4. AskHead(ask[u])'
  BY DEF AskInv, AskHead, Onward
<1>5. AskForward(ask[u])'
  BY DEF AskInv, AskForward
<1> QED
  BY <1>1, <1>3, <1>4, <1>5 DEF AskInv

\* A request goes on.
LEMMA AskMoved ==
  ASSUME Source!TypeOK, SourceInv, NEW t \in Request, ask[t].pc # "idle",
         NEW a \in Asking, ask' = [ask EXCEPT ![t] = a], a.pc # "idle" /\ a.alone => ask[t].alone,
         ModuleOK', Onward, head' = head \/ head'.own = 0 \/ head' \in Source!Backups', AskInv(ask[t])'
  PROVE  SourceState'
<1>1. Source!TypeOK'
  <2>1. ask' \in [Request -> Asking]
    BY SourceTypeSplit
  <2> QED
    BY <2>1, NextTypeSplit
<1>2. ask'[t] = a /\ \A u \in Request \ {t} : ask'[u] = ask[u]
  BY DEF Source!TypeOK
<1>3. OnlyOne'
  BY <1>2 DEF SourceInv, OnlyOne
<1>4. ASSUME NEW u \in Request \ {t} PROVE AskInv(ask[u])'
  <2>1. ask'[u] = ask[u] /\ AskInv(ask[u]) /\ (ask[u].alone => ask[u].pc = "idle")
    BY <1>2 DEF SourceInv, OnlyOne
  <2> QED
    BY <2>1, AskStays
<1> QED
  BY <1>1, <1>3, <1>4 DEF SourceState, SourceInv

\* It goes on to another step and nothing else of it changes.
LEMMA GotoAsk ==
  ASSUME Source!TypeOK, NEW t \in Request,
         Source!Goto(t, "fetch") \/ Source!Goto(t, "merge") \/ Source!Goto(t, "gates") \/ Source!Goto(t, "reset")
  PROVE  \E a \in Asking :
           /\ ask' = [ask EXCEPT ![t] = a] /\ ask'[t] = a /\ Source!Goto(t, a.pc)
           /\ a.kind = ask[t].kind /\ a.before = ask[t].before /\ a.start = ask[t].start
           /\ a.dirty = ask[t].dirty /\ a.older = ask[t].older /\ a.alone = ask[t].alone
           /\ a.missed = ask[t].missed
<1>1. PICK pc \in {"fetch", "merge", "gates", "reset"} : Source!Goto(t, pc)
  OBVIOUS
<1> DEFINE a == [ask[t] EXCEPT !.pc = pc]
<1>2. ask[t] \in Asking /\ ask \in [Request -> Asking]
  BY SourceTypeSplit
<1>3. ask' = [ask EXCEPT ![t] = a]
  BY <1>1, <1>2 DEF Source!Goto
<1>4. /\ a \in Asking /\ a.pc = pc
      /\ a.kind = ask[t].kind /\ a.before = ask[t].before /\ a.start = ask[t].start
      /\ a.dirty = ask[t].dirty /\ a.older = ask[t].older /\ a.alone = ask[t].alone
      /\ a.missed = ask[t].missed
  BY <1>2 DEF Asking
<1> HIDE DEF a
<1>5. ask'[t] = a
  BY <1>2, <1>3
<1> QED
  BY <1>1, <1>3, <1>4, <1>5

\* It returns.
LEMMA ReturnKeeps ==
  ASSUME Source!SourceUpdatesAssumption, Source!TypeOK, SourceInv, NEW t \in Request,
         ask[t].pc # "idle", Source!Return(t),
         ModuleOK', Onward, head' = head \/ head'.own = 0 \/ head' \in Source!Backups'
  PROVE  SourceState'
<1>1. ask' = [ask EXCEPT ![t] = Source!NoAsk] /\ ask'[t] = Source!NoAsk
  BY DEF Source!Return, Source!TypeOK
<1>2. AskInv(ask[t])'
  BY <1>1, NoAskOK DEF AskInv, AskShape, AskWork, AskHead, AskForward
<1> QED
  BY <1>1, <1>2, NoAskOK, AskMoved

-----------------------------------------------------------------------------
(* SourceUpdates: the steps.                                                *)

\* People: they push, edit, and commit behind the requests' backs.
LEMMA PeopleKeep ==
  ASSUME Source!SourceUpdatesAssumption, Source!TypeOK, SourceInv,
         Source!Push \/ Source!CommitWork \/ \E w \in Name : Source!Edit(w)
  PROVE  SourceState'
<1>1. CASE Source!Push
  <2>1. /\ upstream' \in 0..Top
        /\ UNCHANGED <<head, fetchHead, work, written, zipped, backups, ask, asks>>
    BY <1>1 DEF Source!Push, Source!TypeOK, Source!SourceUpdatesAssumption, Source!saved
  <2>2. Source!TypeOK' /\ UNCHANGED Source!Backups
    BY <2>1, SameBackups DEF Source!TypeOK
  <2> QED
    BY <2>1, <2>2 DEF SourceState, SourceInv, OnlyOne, AskInv, AskShape, AskWork, AskHead,
       AskForward
<1>2. ASSUME NEW w \in Name, Source!Edit(w) PROVE SourceState'
  <2>1. /\ w \notin written /\ work' = work \cup {w} /\ written' = written \cup {w}
        /\ UNCHANGED <<head, upstream, fetchHead, zipped, backups, ask, asks>>
    BY <1>2 DEF Source!Edit, Source!saved
  <2>2. Source!TypeOK' /\ UNCHANGED Source!Backups
    BY <2>1, SameBackups DEF Source!TypeOK
  <2>3. Onward
    BY <2>1, <2>2 DEF Onward
  <2>4. OnlyOne'
    BY <2>1 DEF SourceInv, OnlyOne
  <2>5. ASSUME NEW u \in Request PROVE AskInv(ask[u])'
    BY <2>1, <2>3, AskStays DEF SourceInv
  <2> QED
    BY <2>2, <2>4, <2>5 DEF SourceState, SourceInv
<1>3. CASE Source!CommitWork
  <2>1. /\ head.own < MaxOwn /\ head' = [head EXCEPT !.own = @ + 1] /\ work' = {}
        /\ ask' = [t \in Request |-> [ask[t] EXCEPT !.alone = FALSE, !.missed = @ \cup {head'}]]
        /\ UNCHANGED <<upstream, fetchHead, written, zipped, backups, asks>>
    BY <1>3 DEF Source!CommitWork, Source!saved
  <2>2. head' \in Source!Commit
    <3>1. head \in Source!Commit /\ head.own \in 0..MaxOwn /\ head.own + 1 \in 0..MaxOwn
      <4>1. head.own < MaxOwn
        BY <2>1
      <4> QED
        BY <4>1 DEF Source!TypeOK, Source!Commit, Source!SourceUpdatesAssumption
    <3> QED
      BY <2>1, <3>1 DEF Source!Commit
  <2>3. ASSUME NEW u \in Request
        PROVE  /\ ask'[u] \in Asking /\ ~ask'[u].alone
               /\ ask'[u].pc = ask[u].pc /\ ask'[u].kind = ask[u].kind
               /\ ask'[u].before = ask[u].before
               /\ ask'[u].start = ask[u].start /\ ask'[u].dirty = ask[u].dirty
               /\ ask'[u].older = ask[u].older /\ ask'[u].missed = ask[u].missed \cup {head'}
    <3>1. ask'[u] = [ask[u] EXCEPT !.alone = FALSE, !.missed = @ \cup {head'}]
      BY <2>1
    <3>2. ask[u] \in Asking
      BY SourceTypeSplit
    <3>3. PICK missed \in SUBSET Source!Commit : missed = ask[u].missed \cup {head'}
      BY <2>2, <3>2 DEF Asking
    <3>4. ask'[u] = [ask[u] EXCEPT !.alone = FALSE, !.missed = missed]
      BY <3>1, <3>2, <3>3 DEF Asking
    <3> QED
      BY <3>2, <3>3, <3>4 DEF Asking
  <2>4. ask' \in [Request -> Asking]
    <3>1. ask' = [u \in Request |-> ask'[u]]
      BY <2>1
    <3> QED
      BY <2>3, <3>1
  <2>5. Source!TypeOK' /\ UNCHANGED Source!Backups
    <3>1. ModuleOK'
      BY <2>1, <2>2 DEF Source!TypeOK, ModuleOK
    <3> QED
      BY <2>1, <2>4, <3>1, SameBackups, NextTypeSplit
  <2>6. Onward
    BY <2>1, <2>5 DEF Onward
  <2>7. OnlyOne'
    BY <2>3 DEF OnlyOne
  <2>8. ASSUME NEW u \in Request PROVE AskInv(ask[u])'
    BY <2>3, <2>6, AskStays DEF SourceInv
  <2> QED
    BY <2>5, <2>7, <2>8 DEF SourceState, SourceInv
<1> QED
  BY <1>1, <1>2, <1>3

LEMMA AskKeeps ==
  ASSUME Source!SourceUpdatesAssumption, Source!TypeOK, SourceInv, NEW t \in Request,
         NEW kind \in {"backup", "apply", "rollback"}, Source!Ask(t, kind)
  PROVE  SourceState'
<1>1. /\ ask[t].pc = "idle" /\ asks < MaxAsks /\ asks' = asks + 1
      /\ UNCHANGED <<head, upstream, fetchHead, work, written, zipped, backups>>
  BY DEF Source!Ask, Source!checkout, Source!saved
<1>2. PICK target \in Source!Commit :
        /\ kind = "rollback" => target \in Source!Backups
        /\ ask' = [u \in Request |->
             IF u = t THEN [Source!NoAsk EXCEPT !.kind = kind, !.pc = "state", !.before = target,
                                         !.start = head, !.older = work,
                                         !.alone = \A r \in Request : ask[r].pc = "idle"]
             ELSE [ask[u] EXCEPT !.alone = FALSE]]
  <2> DEFINE B == IF kind = "rollback" THEN Source!Backups ELSE {Source!Upstream(0)}
  <2>1. B \subseteq Source!Commit /\ (kind = "rollback" => B = Source!Backups)
    BY BackupsType, UpstreamType DEF Source!SourceUpdatesAssumption
  <2>2. PICK target \in B :
          ask' = [u \in Request |->
             IF u = t THEN [Source!NoAsk EXCEPT !.kind = kind, !.pc = "state", !.before = target,
                                         !.start = head, !.older = work,
                                         !.alone = \A r \in Request : ask[r].pc = "idle"]
             ELSE [ask[u] EXCEPT !.alone = FALSE]]
    BY Zenon DEF Source!Ask
  <2> HIDE DEF B
  <2>3. target \in Source!Commit /\ (kind = "rollback" => target \in Source!Backups)
    BY <2>1, <2>2
  <2> QED
    BY <2>2, <2>3, Zenon
<1>3. PICK alone \in BOOLEAN : alone = (\A r \in Request : ask[r].pc = "idle")
  OBVIOUS
<1> DEFINE a == [Source!NoAsk EXCEPT !.kind = kind, !.pc = "state", !.before = target, !.start = head,
                              !.older = work, !.alone = alone]
<1>4. ask'[t] = a
  BY <1>2, <1>3
<1>5. /\ a \in Asking /\ a.kind = kind /\ a.pc = "state" /\ a.before = target /\ a.start = head
      /\ a.older = work /\ a.alone = alone
  BY <1>2, NoAskOK DEF Asking, Source!TypeOK
<1> HIDE DEF a
<1>6. ASSUME NEW u \in Request \ {t}
      PROVE  /\ ask'[u] \in Asking /\ ~ask'[u].alone
             /\ ask'[u].pc = ask[u].pc /\ ask'[u].kind = ask[u].kind
             /\ ask'[u].before = ask[u].before /\ ask'[u].start = ask[u].start
             /\ ask'[u].dirty = ask[u].dirty /\ ask'[u].older = ask[u].older
             /\ ask'[u].missed = ask[u].missed
  <2>1. ask'[u] = [ask[u] EXCEPT !.alone = FALSE] /\ ask[u] \in Asking
    BY <1>2, <1>6, SourceTypeSplit
  <2> QED
    BY <2>1 DEF Asking
<1>7. Source!TypeOK' /\ UNCHANGED Source!Backups
  <2>1. ask' = [u \in Request |-> ask'[u]]
    BY <1>2
  <2>2. ask' \in [Request -> Asking]
    BY <1>4, <1>5, <1>6, <2>1
  <2>3. asks' \in 0..MaxAsks
    BY <1>1 DEF Source!TypeOK, Source!SourceUpdatesAssumption
  <2>4. ModuleOK'
    BY <1>1, <2>3 DEF Source!TypeOK, ModuleOK
  <2> QED
    BY <1>1, <2>2, <2>4, SameBackups, NextTypeSplit
<1>8. OnlyOne'
  <2>1. SUFFICES ASSUME NEW p \in Request, NEW u \in Request, ask'[p].alone, ask'[p].pc # "idle",
                        u # p
                 PROVE  ask'[u].pc = "idle"
    BY DEF OnlyOne
  <2>2. p = t /\ alone
    BY <1>4, <1>5, <1>6, <2>1
  <2> QED
    BY <1>3, <1>6, <2>1, <2>2
<1>9. AskInv(ask[t])'
  <2>1. AskShape(ask[t])'
    BY <1>1, <1>4, <1>5 DEF AskShape, Source!TypeOK
  <2>2. AskWork(ask[t])'
    BY <1>4, <1>5 DEF AskWork
  <2>3. AskHead(ask[t])'
    <3>1. kind = "rollback" => target \in Source!Backups
      BY <1>2
    <3> QED
      BY <1>4, <1>5, <1>7, <3>1 DEF AskHead
  <2>4. AskForward(ask[t])'
    BY <1>1, <1>4, <1>5 DEF AskForward
  <2> QED
    BY <2>1, <2>2, <2>3, <2>4 DEF AskInv
<1>10. ASSUME NEW u \in Request \ {t} PROVE AskInv(ask[u])'
  <2>1. Onward
    BY <1>1, <1>7 DEF Onward
  <2> QED
    BY <1>1, <1>6, <2>1, AskStays DEF SourceInv
<1> QED
  BY <1>7, <1>8, <1>9, <1>10 DEF SourceState, SourceInv
LEMMA ApplyStateKeeps ==
  ASSUME Source!SourceUpdatesAssumption, Source!TypeOK, SourceInv, NEW t \in Request,
         Source!ApplyState(t)
  PROVE  SourceState'
<1>1. /\ ask[t].kind = "apply" /\ ask[t].pc = "state"
      /\ UNCHANGED <<head, upstream, fetchHead, work, written, zipped, backups, asks>>
  BY DEF Source!ApplyState, Source!checkout, Source!saved
<1>2. ModuleOK' /\ Onward /\ UNCHANGED Source!Backups
  BY <1>1, SameBackups DEF Source!TypeOK, ModuleOK, Onward
<1>3. CASE Source!Return(t)
  BY <1>1, <1>2, <1>3, ReturnKeeps
<1>4. CASE /\ work = {} /\ head \in Source!Backups
           /\ ask' = [ask EXCEPT ![t].before = head, ![t].pc = "remote", ![t].missed = {}]
  <2> DEFINE a == [ask[t] EXCEPT !.before = head, !.pc = "remote", !.missed = {}]
  <2>1. ask[t] \in Asking /\ ask \in [Request -> Asking] /\ head \in Source!Commit
    BY SourceTypeSplit DEF ModuleOK
  <2>2. ask' = [ask EXCEPT ![t] = a]
    BY <1>4, <2>1
  <2>3. /\ a \in Asking /\ a.pc = "remote" /\ a.kind = "apply" /\ a.before = head
        /\ a.start = ask[t].start /\ a.alone = ask[t].alone /\ a.older = ask[t].older
    BY <1>1, <2>1 DEF Asking
  <2> HIDE DEF a
  <2>4. ask'[t] = a
    BY <2>1, <2>2
  <2>5. AskInv(ask[t])'
    <3>1. AskInv(ask[t])
      BY DEF SourceInv
    <3>2. AskShape(ask[t])' /\ AskWork(ask[t])'
      BY <1>1, <1>4, <2>3, <2>4, <3>1 DEF AskInv, AskShape, AskWork
    <3>3. AskHead(ask[t])'
      BY <1>1, <1>2, <1>4, <2>3, <2>4 DEF AskHead
    <3>4. AskForward(ask[t])'
      BY <1>1, <2>3, <2>4, <3>1 DEF AskInv, AskForward
    <3> QED
      BY <3>2, <3>3, <3>4 DEF AskInv
  <2> QED
    BY <1>1, <1>2, <2>2, <2>3, <2>5, AskMoved
<1> QED
  BY <1>3, <1>4 DEF Source!ApplyState

LEMMA BackupStateKeeps ==
  ASSUME Source!SourceUpdatesAssumption, Source!TypeOK, SourceInv, NEW t \in Request,
         Source!BackupState(t)
  PROVE  SourceState'
<1>1. /\ ask[t].kind \in {"backup", "rollback"} /\ ask[t].pc = "state"
      /\ UNCHANGED <<head, upstream, fetchHead, work, written, zipped, backups, asks>>
      /\ ask' = [ask EXCEPT ![t].start = head, ![t].dirty = work, ![t].missed = {},
                            ![t].pc = "bundle"]
  BY DEF Source!BackupState, Source!checkout, Source!saved
<1>2. ModuleOK' /\ Onward /\ UNCHANGED Source!Backups
  BY <1>1, SameBackups DEF Source!TypeOK, ModuleOK, Onward
<1> DEFINE a == [ask[t] EXCEPT !.start = head, !.dirty = work, !.missed = {}, !.pc = "bundle"]
<1>3. ask[t] \in Asking /\ ask \in [Request -> Asking] /\ head \in Source!Commit /\ work \subseteq Name
  BY SourceTypeSplit DEF ModuleOK
<1>4. ask' = [ask EXCEPT ![t] = a]
  BY <1>1, <1>3
<1>5. /\ a \in Asking /\ a.pc = "bundle" /\ a.kind = ask[t].kind /\ a.before = ask[t].before
      /\ a.start = head /\ a.dirty = work /\ a.alone = ask[t].alone /\ a.older = ask[t].older
  BY <1>1, <1>3 DEF Asking
<1> HIDE DEF a
<1>6. ask'[t] = a
  BY <1>3, <1>4
<1>7. AskInv(ask[t])'
  <2>1. AskInv(ask[t])
    BY DEF SourceInv
  <2>2. AskShape(ask[t])' /\ AskWork(ask[t])'
    BY <1>1, <1>5, <1>6, <2>1 DEF AskInv, AskShape, AskWork
  <2>3. AskHead(ask[t])'
    BY <1>1, <1>2, <1>5, <1>6, <2>1 DEF AskInv, AskHead
  <2>4. AskForward(ask[t])'
    BY <1>1, <1>5, <1>6, <2>1 DEF AskInv, AskForward
  <2> QED
    BY <2>2, <2>3, <2>4 DEF AskInv
<1> QED
  BY <1>1, <1>2, <1>4, <1>5, <1>7, AskMoved

LEMMA BundleKeeps ==
  ASSUME Source!SourceUpdatesAssumption, Source!TypeOK, SourceInv, NEW t \in Request,
         Source!Bundle(t)
  PROVE  SourceState'
<1>1. /\ ask[t].pc = "bundle"
      /\ UNCHANGED <<head, upstream, fetchHead, work, written, asks>>
  BY DEF Source!Bundle, Source!checkout
<1>2. ask[t] \in Asking /\ ask[t].start \in Source!Commit /\ ask[t].dirty \subseteq Name
  BY SourceTypeSplit DEF Asking
<1>3. CASE Source!Return(t) /\ UNCHANGED Source!saved
  <2>1. ModuleOK' /\ Onward
    BY <1>1, <1>3, SameBackups DEF Source!TypeOK, ModuleOK, Onward, Source!saved
  <2> QED
    BY <1>1, <1>3, <2>1, ReturnKeeps
<1>4. ASSUME NEW first, zipped' = zipped \cup ((ask[t].dirty \cap work) \ {first}),
             backups' = Append(backups, ask[t].start)
      PROVE  /\ ModuleOK' /\ Onward /\ ask[t].start \in Source!Backups'
             /\ (ask[t].dirty \cap work) \ zipped' \subseteq {first}
  <2>1. backups' \in Seq(Source!Commit) /\ Source!Backups \cup {ask[t].start} \subseteq Source!Backups'
    BY <1>2, <1>4, RecordedBackup
  <2> QED
    BY <1>1, <1>2, <1>4, <2>1 DEF Source!TypeOK, ModuleOK, Onward
<1>5. ASSUME NEW first, zipped' = zipped \cup ((ask[t].dirty \cap work) \ {first}),
             backups' = Append(backups, ask[t].start), Source!Return(t)
      PROVE  SourceState'
  BY <1>1, <1>4, <1>5, ReturnKeeps
<1>6. ASSUME NEW first, zipped' = zipped \cup ((ask[t].dirty \cap work) \ {first}),
             backups' = Append(backups, ask[t].start), ask[t].kind = "rollback", Source!Goto(t, "reset")
      PROVE  SourceState'
  <2>1. PICK a \in Asking :
           /\ ask' = [ask EXCEPT ![t] = a] /\ ask'[t] = a /\ Source!Goto(t, a.pc)
           /\ a.kind = ask[t].kind /\ a.before = ask[t].before /\ a.start = ask[t].start
           /\ a.dirty = ask[t].dirty /\ a.older = ask[t].older /\ a.alone = ask[t].alone
           /\ a.missed = ask[t].missed
    BY <1>6, GotoAsk
  <2>2. a.pc = "reset"
    BY <1>2, <1>6, <2>1 DEF Source!Goto, Source!TypeOK, Asking
  <2>3. /\ ModuleOK' /\ Onward /\ ask[t].start \in Source!Backups'
        /\ (ask[t].dirty \cap work) \ zipped' \subseteq {first}
    BY <1>4, <1>6
  <2>4. AskInv(ask[t])
    BY DEF SourceInv
  <2>5. AskWork(ask[t])'
    <3>1. (a.older \cap work') \ zipped' \subseteq {first}
      BY <1>1, <2>1, <2>3, <2>4 DEF AskInv, AskWork
    <3> QED
      BY <1>6, <2>1, <2>2, <3>1 DEF AskWork
  <2>6. AskHead(ask[t])'
    BY <1>1, <1>6, <2>1, <2>2, <2>3, <2>4 DEF AskInv, AskHead, Onward
  <2>7. AskShape(ask[t])' /\ AskForward(ask[t])'
    BY <1>1, <1>6, <2>1, <2>2, <2>4 DEF AskInv, AskShape, AskForward
  <2>8. AskInv(ask[t])'
    BY <2>5, <2>6, <2>7 DEF AskInv
  <2> QED
    BY <1>1, <2>1, <2>3, <2>8, AskMoved
<1> QED
  BY <1>3, <1>5, <1>6, Zenon DEF Source!Bundle

\* The update asks the remote, fetches, and merges.
LEMMA UpdateKeeps ==
  ASSUME Source!SourceUpdatesAssumption, Source!TypeOK, SourceInv, NEW t \in Request,
         Source!Remote(t) \/ Source!Fetch(t) \/ Source!Merge(t) \/ Source!Gates(t)
  PROVE  SourceState'
<1>1. /\ ask[t].pc \in {"remote", "fetch", "merge", "gates"}
      /\ UNCHANGED <<upstream, work, written, zipped, backups, asks>>
  BY DEF Source!Remote, Source!Fetch, Source!Merge, Source!Gates, Source!checkout, Source!saved
<1>2. ask[t].kind = "apply" /\ AskInv(ask[t])
  BY <1>1 DEF SourceInv, AskInv, AskShape
<1>3. /\ head' = head \/ (head'.own = 0 /\ head'.base > head.base /\ ask[t].pc = "merge")
      /\ head' \in Source!Commit /\ fetchHead' \in 0..Top
  <2>1. ASSUME head' = IF fetchHead <= head.base THEN head ELSE Source!Upstream(fetchHead)
        PROVE  (head' = head \/ (head'.own = 0 /\ head'.base > head.base)) /\ head' \in Source!Commit
    <3>1. fetchHead \in 0..Top /\ head \in Source!Commit /\ head.base \in 0..Top /\ Top \in Nat
      BY DEF Source!TypeOK, Source!Commit, Source!SourceUpdatesAssumption
    <3>2. CASE fetchHead <= head.base
      BY <2>1, <3>1, <3>2
    <3>3. CASE ~(fetchHead <= head.base)
      BY <2>1, <3>1, <3>3, UpstreamType DEF Source!Upstream
    <3> QED
      BY <3>2, <3>3
  <2>2. head \in Source!Commit /\ fetchHead \in 0..Top /\ upstream \in 0..Top
    BY DEF Source!TypeOK
  <2>3. CASE Source!Remote(t) \/ Source!Gates(t)
    BY <2>2, <2>3 DEF Source!Remote, Source!Gates, Source!checkout
  <2>4. CASE Source!Fetch(t)
    BY <2>2, <2>4 DEF Source!Fetch
  <2>5. CASE Source!Merge(t)
    BY <2>1, <2>2, <2>5 DEF Source!Merge
  <2> QED
    BY <2>3, <2>4, <2>5
<1>4. ModuleOK' /\ Onward /\ UNCHANGED Source!Backups
  BY <1>1, <1>3, SameBackups DEF Source!TypeOK, ModuleOK, Onward
<1>5. CASE Source!Return(t)
  BY <1>1, <1>3, <1>4, <1>5, ReturnKeeps
<1>6. ASSUME NEW pc \in {"fetch", "merge", "gates", "reset"}, Source!Goto(t, pc),
             /\ pc \in {"fetch", "merge", "reset"} => ask[t].pc # "merge"
             /\ pc = "merge" => ask[t].pc = "fetch"
             /\ pc = "fetch" => ask[t].pc = "remote"
             /\ pc = "reset" => ask[t].pc = "gates"
             /\ pc = "gates" => ask[t].pc = "merge"
      PROVE  SourceState'
  <2>1. PICK a \in Asking :
           /\ ask' = [ask EXCEPT ![t] = a] /\ ask'[t] = a /\ Source!Goto(t, a.pc)
           /\ a.kind = ask[t].kind /\ a.before = ask[t].before /\ a.start = ask[t].start
           /\ a.dirty = ask[t].dirty /\ a.older = ask[t].older /\ a.alone = ask[t].alone
           /\ a.missed = ask[t].missed
    BY <1>6, GotoAsk
  <2>2. a.pc = pc
    BY <1>6, <2>1 DEF Source!Goto, Source!TypeOK, Asking
  <2>3. AskShape(ask[t])' /\ AskWork(ask[t])'
    BY <1>1, <1>2, <1>6, <2>1, <2>2 DEF AskInv, AskShape, AskWork
  <2>4. AskHead(ask[t])'
    BY <1>1, <1>2, <1>3, <1>4, <1>6, <2>1, <2>2 DEF AskInv, AskHead
  <2>5. AskForward(ask[t])'
    BY <1>1, <1>2, <1>3, <1>6, <2>1, <2>2 DEF AskInv, AskForward
  <2>6. AskInv(ask[t])'
    BY <2>3, <2>4, <2>5 DEF AskInv
  <2> QED
    BY <1>1, <1>3, <1>4, <2>1, <2>6, AskMoved
<1> QED
  BY <1>5, <1>6 DEF Source!Remote, Source!Fetch, Source!Merge, Source!Gates

LEMMA ResetKeeps ==
  ASSUME Source!SourceUpdatesAssumption, Source!TypeOK, SourceInv, NEW t \in Request,
         Source!Reset(t)
  PROVE  SourceState'
<1>1. /\ ask[t].pc = "reset" /\ Source!Return(t)
      /\ UNCHANGED <<upstream, fetchHead, written, zipped, backups, asks>>
      /\ (head' = ask[t].before /\ work' = {}) \/ UNCHANGED <<head, work>>
  BY DEF Source!Reset, Source!saved
<1>2. ask[t].before \in Source!Commit /\ ask[t].before \in Source!Backups
  BY <1>1, SourceTypeSplit DEF Asking, SourceInv, AskInv, AskShape, AskHead
<1>3. ModuleOK' /\ Onward /\ UNCHANGED Source!Backups
  BY <1>1, <1>2, SameBackups DEF Source!TypeOK, ModuleOK, Onward
<1> QED
  BY <1>1, <1>2, <1>3, ReturnKeeps

LEMMA SourceStateStep ==
  ASSUME Source!SourceUpdatesAssumption
  PROVE  SourceState /\ [Source!Next]_Source!sourceVars => SourceState'
<1> SUFFICES ASSUME SourceState, [Source!Next]_Source!sourceVars PROVE SourceState'
  OBVIOUS
<1>0. Source!TypeOK /\ SourceInv
  BY DEF SourceState
<1>1. CASE UNCHANGED Source!sourceVars
  <2>1. UNCHANGED Source!Backups
    BY <1>1, SameBackups DEF Source!sourceVars
  <2> QED
    BY <1>0, <1>1, <2>1 DEF Source!sourceVars, SourceState, Source!TypeOK, SourceInv, OnlyOne,
       AskInv, AskShape, AskWork, AskHead, AskForward
<1>2. CASE Source!Push \/ Source!CommitWork \/ \E w \in Name : Source!Edit(w)
  BY <1>0, <1>2, PeopleKeep
<1>3. ASSUME NEW t \in Request, Source!Serve(t) PROVE SourceState'
  BY <1>0, <1>3, AskKeeps, ApplyStateKeeps, BackupStateKeeps, BundleKeeps, UpdateKeeps,
     ResetKeeps DEF Source!Serve
<1> QED
  BY <1>1, <1>2, <1>3 DEF Source!Next

LEMMA SourceStateHolds == ASSUME Source!SourceUpdatesAssumption PROVE Source!Spec => []SourceState
<1>1. Source!Init => SourceState
  <2> SUFFICES ASSUME Source!Init PROVE SourceState
    OBVIOUS
  <2>1. ask = [t \in Request |-> Source!NoAsk] /\ Source!Upstream(0) \in Source!Commit
    BY UpstreamType DEF Source!Init, Source!SourceUpdatesAssumption
  <2>2. backups = << >> /\ backups \in Seq(Source!Commit)
    BY DEF Source!Init
  <2>3. Source!TypeOK
    BY <2>1, <2>2, NoAskOK, SourceTypeSplit DEF Source!Init, ModuleOK,
       Source!SourceUpdatesAssumption
  <2>4. SourceInv
    BY <2>1, NoAskOK DEF SourceInv, OnlyOne, AskInv, AskShape, AskWork, AskHead, AskForward
  <2> QED
    BY <2>3, <2>4 DEF SourceState
<1>2. SourceState /\ [Source!Next]_Source!sourceVars => SourceState'
  BY SourceStateStep
<1> QED
  BY <1>1, <1>2, PTL DEF Source!Spec
-----------------------------------------------------------------------------
(* SourceUpdates: what the steps promise.                                   *)

\* Who resets is at its last step.
LEMMA WhoResets ==
  ASSUME Source!TypeOK, [Source!Next]_Source!sourceVars, NEW t \in Request, Source!Resets(t)
  PROVE  /\ head' = ask[t].before /\ work' = {} /\ UNCHANGED <<zipped, backups>>
<1>0. ask \in [Request -> Asking] /\ ask[t].pc = "reset" /\ ask'[t].pc # "reset"
      /\ ~UNCHANGED <<head, work>>
  BY SourceTypeSplit DEF Source!Resets
<1>1. CASE Source!Push \/ \E w \in Name : Source!Edit(w)
  BY <1>0, <1>1 DEF Source!Push, Source!Edit
<1>2. CASE Source!CommitWork
  <2>1. ask'[t] = [ask[t] EXCEPT !.alone = FALSE, !.missed = @ \cup {head'}]
    BY <1>2 DEF Source!CommitWork
  <2> QED
    BY <1>0, <2>1 DEF Asking
<1>3. ASSUME NEW u \in Request, Source!Serve(u), u # t PROVE FALSE
  <2>1. ASSUME NEW kind, Source!Ask(u, kind) PROVE FALSE
    BY <1>0, <2>1 DEF Source!Ask, Source!checkout
  <2> QED
    BY <1>0, <1>3, <2>1 DEF Source!Serve, Source!ApplyState, Source!BackupState, Source!Bundle,
       Source!Remote, Source!Fetch, Source!Merge, Source!Gates, Source!Reset, Source!Return,
       Source!Goto, Source!checkout
<1>4. CASE Source!Serve(t)
  <2>1. ASSUME NEW kind, Source!Ask(t, kind) PROVE FALSE
    BY <1>0, <2>1 DEF Source!Ask
  <2> QED
    BY <1>0, <1>4, <2>1 DEF Source!Serve, Source!ApplyState, Source!BackupState, Source!Bundle,
       Source!Remote, Source!Fetch, Source!Merge, Source!Gates, Source!Reset, Source!saved
<1> QED
  BY <1>0, <1>1, <1>2, <1>3, <1>4 DEF Source!Next, Source!sourceVars

LEMMA SameCount == \A S : Source!Cardinality(S) = Cardinality(S)
BY DEF Source!Cardinality, Cardinality

LEMMA SourceWorkIsKept ==
  ASSUME Source!SourceUpdatesAssumption
  PROVE  Source!Spec => Source!OlderWorkIsKept
<1>1. ASSUME SourceState, [Source!Next]_Source!sourceVars, NEW t \in Request, Source!Resets(t)
      PROVE  Cardinality((ask[t].older \cap work) \ zipped)
               <= IF ask[t].kind = "rollback" THEN 1 ELSE 0
  <2> DEFINE lost == (ask[t].older \cap work) \ zipped
  <2>1. AskInv(ask[t]) /\ ask[t].pc = "reset"
    BY <1>1 DEF SourceState, SourceInv, Source!Resets
  <2>2. CASE ask[t].kind = "rollback"
    <3>1. PICK w : lost \subseteq {w}
      BY <2>1, <2>2 DEF AskInv, AskWork
    <3>2. IsFiniteSet({w}) /\ Cardinality({w}) = 1
      BY FS_Singleton
    <3> HIDE DEF lost
    <3>3. Cardinality(lost) <= 1
      BY <3>1, <3>2, FS_Subset
    <3> QED
      BY <2>2, <3>3 DEF lost
  <2>3. CASE ask[t].kind # "rollback"
    <3>1. lost = {}
      BY <2>1, <2>3 DEF AskInv, AskShape, AskWork
    <3>2. Cardinality({}) = 0
      BY FS_EmptySet
    <3> QED
      BY <2>3, <3>1, <3>2
  <2> QED
    BY <2>2, <2>3
<1>2. SourceState /\ [Source!Next]_Source!sourceVars =>
        [\A t \in Request : Source!Resets(t) =>
           Source!Cardinality((ask[t].older \cap work) \ zipped)
             <= IF ask[t].kind = "rollback" THEN 1 ELSE 0]_Source!sourceVars
  BY <1>1, SameCount
<1>3. Source!Spec => []SourceState
  BY SourceStateHolds
<1> QED
  BY <1>2, <1>3, PTL DEF Source!Spec, Source!OlderWorkIsKept

\* An update that is over has left the checkout alone with its last step or put it back.
LEMMA WhoEnds ==
  ASSUME Source!TypeOK, [Source!Next]_Source!sourceVars, NEW t \in Request, ask[t].pc # "idle",
         ask'[t].pc = "idle"
  PROVE  UNCHANGED head \/ (ask[t].pc = "reset" /\ head' = ask[t].before)
<1>0. ask \in [Request -> Asking] /\ ask' # ask
  BY SourceTypeSplit
<1>1. CASE Source!Push \/ \E w \in Name : Source!Edit(w)
  BY <1>0, <1>1 DEF Source!Push, Source!Edit
<1>2. CASE Source!CommitWork
  <2>1. ask'[t] = [ask[t] EXCEPT !.alone = FALSE, !.missed = @ \cup {head'}]
    BY <1>2 DEF Source!CommitWork
  <2> QED
    BY <1>0, <2>1 DEF Asking
<1>3. ASSUME NEW u \in Request, Source!Serve(u), ~UNCHANGED head
      PROVE  Source!Merge(u) \/ Source!Reset(u)
  <2>1. ASSUME NEW kind, Source!Ask(u, kind) PROVE FALSE
    BY <1>3, <2>1 DEF Source!Ask, Source!checkout
  <2> QED
    BY <1>3, <2>1 DEF Source!Serve, Source!ApplyState, Source!BackupState, Source!Bundle,
       Source!Remote, Source!Fetch, Source!Gates, Source!checkout
<1>4. ASSUME NEW u \in Request, Source!Merge(u), ~UNCHANGED head PROVE FALSE
  <2>1. Source!Goto(u, "gates")
    BY <1>4 DEF Source!Merge
  <2> QED
    BY <1>0, <2>1 DEF Source!Goto, Asking
<1>5. ASSUME NEW u \in Request, Source!Reset(u), ~UNCHANGED head
      PROVE  ask[t].pc = "reset" /\ head' = ask[t].before
  <2>1. Source!Return(u) /\ ask[u].pc = "reset" /\ head' = ask[u].before
    BY <1>5 DEF Source!Reset
  <2> QED
    BY <1>0, <2>1 DEF Source!Return
<1> QED
  BY <1>0, <1>1, <1>2, <1>3, <1>4, <1>5 DEF Source!Next, Source!sourceVars

LEMMA SourceGoesForward ==
  ASSUME Source!SourceUpdatesAssumption
  PROVE  Source!Spec => Source!UpdateIsForward
<1>1. ASSUME SourceState, [Source!Next]_Source!sourceVars, NEW t \in Request,
             ask[t].kind = "apply", ask[t].alone,
             ask[t].pc # "idle", ask'[t].pc = "idle"
      PROVE  \/ head' = ask[t].start
             \/ head'.own = 0 /\ head'.base > ask[t].start.base
  <2>1. Source!TypeOK /\ AskInv(ask[t])
    BY <1>1 DEF SourceState, SourceInv
  <2>2. ask[t].pc \in {"state", "remote", "fetch", "merge", "gates", "reset"}
    BY <1>1, <2>1, SourceTypeSplit DEF Asking, AskInv, AskShape
  <2>3. UNCHANGED head \/ (ask[t].pc = "reset" /\ head' = ask[t].before)
    BY <1>1, <2>1, WhoEnds
  <2> QED
    BY <1>1, <2>1, <2>2, <2>3 DEF AskInv, AskForward
<1>2. SourceState /\ [Source!Next]_Source!sourceVars =>
        [\A t \in Request :
           ask[t].kind = "apply" /\ ask[t].alone /\ ask[t].pc # "idle" /\ ask'[t].pc = "idle" =>
             \/ head' = ask[t].start
             \/ head'.own = 0 /\ head'.base > ask[t].start.base]_Source!sourceVars
  BY <1>1
<1>3. Source!Spec => []SourceState
  BY SourceStateHolds
<1> QED
  BY <1>2, <1>3, PTL DEF Source!Spec, Source!UpdateIsForward

LEMMA SourceCommitsBackedUp ==
  ASSUME Source!SourceUpdatesAssumption
  PROVE  Source!Spec => Source!LocalCommitsAreBackedUp
<1>1. ASSUME SourceState, [Source!Next]_Source!sourceVars, NEW t \in Request, Source!Resets(t),
             head' # head
      PROVE  head.own = 0 \/ head \in Source!Backups \cup ask[t].missed
  BY <1>1 DEF SourceState, SourceInv, AskInv, AskHead, Source!Resets
<1>2. SourceState /\ [Source!Next]_Source!sourceVars =>
        [\A t \in Request : Source!Resets(t) /\ head' # head =>
           head.own = 0 \/ head \in Source!Backups \cup ask[t].missed]_Source!sourceVars
  BY <1>1
<1>3. Source!Spec => []SourceState
  BY SourceStateHolds
<1> QED
  BY <1>2, <1>3, PTL DEF Source!Spec, Source!LocalCommitsAreBackedUp

-----------------------------------------------------------------------------
(* AgentUpdates: types.                                                     *)

Visit == [kind : {"none", "staged", "rollback", "backup"},
          pc : {"idle", "plan", "backup", "step", "checks", "target", "verify"},
          backup : Agent!Tree, target : {"tag", "branch", "commit"},
          todo : Seq(1..Last), checks : BOOLEAN,
          answer : {"none", "updated", "rolled_back", "failed"}, alone : BOOLEAN]

VisitOK(v) == v \in Visit /\ (v.pc \in {"step", "checks"} => v.todo # << >>)

CheckoutOK ==
  /\ tree \in Agent!Tree /\ home \in Agent!Commit /\ green \subseteq Agent!Commit
  /\ untidy \in BOOLEAN /\ kept \subseteq Agent!Tree /\ runs \in 0..MaxRuns

LEMMA AgentTypeSplit ==
  Agent!TypeOK <=> CheckoutOK /\ visit \in [Request -> Visit] /\ \A t \in Request : VisitOK(visit[t])
BY DEF Agent!TypeOK, CheckoutOK, VisitOK, Visit

LEMMA ReleaseType ==
  ASSUME Agent!AgentUpdatesAssumption
  PROVE  \A n \in 0..Last : Agent!Release(n) \in Agent!Commit
BY DEF Agent!Release, Agent!Commit

LEMMA NoVisitOK ==
  ASSUME Agent!AgentUpdatesAssumption
  PROVE  /\ Agent!NoVisit \in Visit /\ Agent!NoVisit.pc = "idle" /\ Agent!NoVisit.backup \in Agent!Tree
         /\ Agent!NoVisit.kind = "none" /\ Agent!NoVisit.target = "tag"
<1>1. Agent!Release(0) \in Agent!Commit
  BY ReleaseType DEF Agent!AgentUpdatesAssumption
<1>2. << >> \in Seq(1..Last)
  BY EmptySeq
<1> QED
  BY <1>1, <1>2 DEF Agent!NoVisit, Visit, Agent!Tree

\* One request moves.
LEMMA OneVisitType ==
  ASSUME Agent!TypeOK, CheckoutOK', NEW t \in Request, NEW v, VisitOK(v),
         visit' = [visit EXCEPT ![t] = v]
  PROVE  Agent!TypeOK'
<1>1. visit' \in [Request -> Visit] /\ \A u \in Request : VisitOK(visit'[u])
  BY AgentTypeSplit DEF VisitOK
<1> QED
  BY <1>1, AgentTypeSplit DEF Agent!TypeOK, CheckoutOK, VisitOK, Visit

LEMMA SameLength == ASSUME NEW a \in Nat, NEW b \in Nat, 1..a = 1..b PROVE a = b
<1>1. ~(a < b)
  <2>1. a < b => b \in 1..b /\ b \notin 1..a
    OBVIOUS
  <2> QED
    BY <2>1
<1>2. ~(b < a)
  <2>1. b < a => a \in 1..a /\ a \notin 1..b
    OBVIOUS
  <2> QED
    BY <2>1
<1> QED
  BY <1>1, <1>2

\* The releases between, one upon the other.
LEMMA PendingSeq ==
  ASSUME Agent!AgentUpdatesAssumption, Agent!TypeOK, NEW target \in 1..Last
  PROVE  /\ Agent!Pending(target) \in Seq(1..Last)
         /\ tree.commit.tag # 0 =>
              \A i \in 1..Len(Agent!Pending(target)) : Agent!Pending(target)[i] = tree.commit.tag + i
<1>1. tree.commit.tag \in 0..Last /\ Last \in Nat
  BY DEF Agent!TypeOK, Agent!Tree, Agent!Commit, Agent!AgentUpdatesAssumption
<1>2. CASE tree.commit.tag = 0
  BY <1>2 DEF Agent!Pending
<1>3. CASE tree.commit.tag # 0
  <2> DEFINE n == IF target > tree.commit.tag THEN target - tree.commit.tag ELSE 0
             s == [i \in 1..n |-> tree.commit.tag + i]
  <2>1. n \in Nat /\ \A i \in 1..n : tree.commit.tag + i \in 1..Last
    BY <1>1, <1>3
  <2>2. s \in Seq(1..Last) /\ Len(s) = n
    <3>1. s \in [1..n -> 1..Last]
      BY <2>1
    <3> HIDE DEF s, n
    <3>2. s \in Seq(1..Last)
      BY <2>1, <3>1, SeqDef
    <3>3. Len(s) \in Nat /\ DOMAIN s = 1..Len(s) /\ DOMAIN s = 1..n
      BY <3>1, <3>2, LenProperties
    <3>4. Len(s) = n
      BY <2>1, <3>3, SameLength
    <3> QED
      BY <3>2, <3>4
  <2>3. Agent!Pending(target) = s
    BY <1>3 DEF Agent!Pending
  <2> QED
    BY <2>2, <2>3
<1> QED
  BY <1>2, <1>3

\* The first of them.
LEMMA PlannedSteps ==
  ASSUME Agent!AgentUpdatesAssumption, Agent!TypeOK, NEW target \in 1..Last, NEW n \in 1..Last,
         n <= Len(Agent!Pending(target))
  PROVE  LET todo == SubSeq(Agent!Pending(target), 1, n) IN
         /\ todo \in Seq(1..Last) /\ todo # << >> /\ Len(todo) \in Nat \ {0}
         /\ tree.commit.tag # 0 => \A i \in 1..Len(todo) : todo[i] = tree.commit.tag + i
<1> DEFINE s == Agent!Pending(target)
<1>1. s \in Seq(1..Last) /\ Len(s) \in Nat /\ n \in Nat \ {0}
  BY PendingSeq, LenProperties DEF Agent!AgentUpdatesAssumption
<1>2. ASSUME NEW i \in 1..n PROVE s[i] \in 1..Last
  <2>1. i \in 1..Len(s)
    BY <1>1
  <2> HIDE DEF s
  <2> QED
    BY <1>1, <2>1, ElementOfSeq
<1>3. /\ SubSeq(s, 1, n) \in Seq(1..Last) /\ Len(SubSeq(s, 1, n)) = n
      /\ \A i \in 1..n : SubSeq(s, 1, n)[i] = s[i]
  <2> HIDE DEF s
  <2>1. 1 \in Int /\ n \in Int /\ n - 1 + 1 = n /\ \A i \in 1..n : 1 + i - 1 = i
    BY <1>1
  <2>2. /\ SubSeq(s, 1, n) \in Seq(1..Last)
        /\ Len(SubSeq(s, 1, n)) = IF 1 <= n THEN n - 1 + 1 ELSE 0
        /\ \A i \in 1..(n - 1 + 1) : SubSeq(s, 1, n)[i] = s[1 + i - 1]
    BY <1>2, <2>1, SubSeqProperties
  <2> QED
    BY <1>1, <2>1, <2>2
<1>4. SubSeq(s, 1, n) # << >>
  BY <1>1, <1>3, EmptySeq
<1>5. tree.commit.tag # 0 => \A i \in 1..n : SubSeq(s, 1, n)[i] = tree.commit.tag + i
  <2>1. \A i \in 1..n : i \in 1..Len(s)
    BY <1>1
  <2> QED
    BY <1>3, <2>1, PendingSeq
<1> HIDE DEF s
<1>6. /\ SubSeq(s, 1, n) \in Seq(1..Last) /\ SubSeq(s, 1, n) # << >>
      /\ Len(SubSeq(s, 1, n)) \in Nat \ {0}
      /\ tree.commit.tag # 0 =>
           \A i \in 1..Len(SubSeq(s, 1, n)) : SubSeq(s, 1, n)[i] = tree.commit.tag + i
  BY <1>1, <1>3, <1>4, <1>5
<1> QED
  BY <1>6 DEF s

-----------------------------------------------------------------------------
(* AgentUpdates: what a request does to itself and to the checkout.         *)

\* The only one under way is alone with the checkout.
AloneOK ==
  \A t, u \in Request : visit[t].alone /\ visit[t].pc # "idle" /\ u # t => visit[u].pc = "idle"

\* What is planned goes on from the backup, each step over a release that has passed.
StagedOK(v) ==
  /\ v.pc = "backup" /\ tree.commit.tag # 0 =>
       \A i \in 1..Len(v.todo) : v.todo[i] = tree.commit.tag + i
  /\ v.pc \in {"step", "checks"} /\ v.backup.commit.tag # 0 =>
       /\ \A i \in 1..Len(v.todo) : v.todo[i] = v.todo[1] + i - 1
       /\ \A n \in (v.backup.commit.tag + 1)..(v.todo[1] - 1) : Agent!Release(n) \in green
  /\ v.pc = "checks" => tree.commit = Agent!Release(v.todo[1])
  /\ v.pc = "verify" => \/ tree.commit = v.backup.commit
                        \/ v.backup.commit.own /\ v.backup.commit.tag # 0

VisitInv(v) ==
  /\ v.pc \in {"plan", "step", "checks"} => v.kind = "staged"
  /\ v.kind = "staged" => v.target = "tag" /\ (v.pc = "backup" => v.todo # << >>)
  /\ v.kind = "staged" /\ v.pc \in {"step", "checks", "target", "verify"} /\ v.backup.branch =>
       v.backup.commit = home
  /\ v.kind = "staged" /\ v.alone => StagedOK(v)

AgentInv ==
  /\ AloneOK
  /\ tree.branch => tree.commit = home
  /\ \A t \in Request : VisitInv(visit[t])
AgentState == Agent!TypeOK /\ AgentInv

\* A request that goes on disturbs no other: that one is not alone.
LEMMA VisitMoved ==
  ASSUME Agent!TypeOK, AgentInv, NEW t \in Request, visit[t].pc # "idle",
         NEW v, VisitOK(v), v.alone = visit[t].alone, visit' = [visit EXCEPT ![t] = v],
         CheckoutOK', UNCHANGED <<home, green>>, tree'.branch => tree'.commit = home,
         VisitInv(visit[t])'
  PROVE  AgentState'
<1>1. Agent!TypeOK'
  BY OneVisitType
<1>2. visit'[t] = v /\ \A u \in Request \ {t} : visit'[u] = visit[u]
  BY DEF Agent!TypeOK
<1>3. AloneOK'
  BY <1>2 DEF AgentInv, AloneOK
<1>4. ASSUME NEW u \in Request, u # t PROVE VisitInv(visit[u])'
  <2>1. visit'[u] = visit[u] /\ VisitInv(visit[u])
    BY <1>2, <1>4 DEF AgentInv
  <2>2. visit[u].alone => visit[u].pc = "idle"
    BY <1>4 DEF AgentInv, AloneOK
  <2> QED
    BY <2>1, <2>2 DEF VisitInv, StagedOK
<1> QED
  BY <1>1, <1>3, <1>4 DEF AgentState, AgentInv

LEMMA AnswerKeeps ==
  ASSUME Agent!TypeOK, AgentInv, NEW t \in Request, visit[t].pc # "idle",
         NEW a \in {"none", "updated", "rolled_back", "failed"}, Agent!Answer(t, a),
         CheckoutOK', UNCHANGED <<tree, home, green>>
  PROVE  AgentState' /\ visit'[t].answer = a
<1> DEFINE v == [visit[t] EXCEPT !.pc = "idle", !.answer = a]
<1>1. visit[t] \in Visit /\ visit \in [Request -> Visit]
  BY AgentTypeSplit
<1>2. VisitOK(v) /\ v.pc = "idle" /\ v.alone = visit[t].alone /\ v.kind = visit[t].kind
      /\ v.target = visit[t].target /\ v.answer = a
  BY <1>1 DEF VisitOK, Visit
<1>3. visit' = [visit EXCEPT ![t] = v]
  BY <1>1 DEF Agent!Answer
<1> HIDE DEF v
<1>4. visit'[t] = v
  BY <1>1, <1>3
<1>5. VisitInv(visit[t])'
  BY <1>2, <1>4 DEF VisitInv, StagedOK, AgentInv
<1>6. tree'.branch => tree'.commit = home
  BY DEF AgentInv
<1> QED
  BY <1>2, <1>3, <1>4, <1>5, <1>6, VisitMoved

LEMMA ComeKeeps ==
  ASSUME Agent!AgentUpdatesAssumption, Agent!TypeOK, AgentInv, NEW t \in Request,
         NEW kind \in {"staged", "rollback", "backup"}, NEW checks \in BOOLEAN, Agent!Come(t, kind, checks)
  PROVE  AgentState' /\ visit[t].pc = "idle"
<1>1. PICK b \in Agent!Tree, target \in {"tag", "branch", "commit"} :
        /\ kind # "rollback" => target = "tag"
        /\ visit' = [u \in Request |->
             IF u = t THEN [Agent!NoVisit EXCEPT !.kind = kind, !.checks = checks, !.backup = b,
                                           !.target = target,
                                           !.pc = IF kind = "staged" THEN "plan" ELSE "backup",
                                           !.alone = \A r \in Request : visit[r].pc = "idle"]
             ELSE [visit[u] EXCEPT !.alone = FALSE]]
  <2>1. kept \subseteq Agent!Tree /\ Agent!NoVisit.backup \in Agent!Tree
    BY NoVisitOK DEF Agent!TypeOK
  <2>2. /\ (IF kind = "rollback" THEN kept ELSE {Agent!NoVisit.backup}) \subseteq Agent!Tree
        /\ (IF kind = "rollback" THEN {"tag", "branch", "commit"} ELSE {"tag"})
             \subseteq {"tag", "branch", "commit"}
        /\ kind # "rollback" =>
             (IF kind = "rollback" THEN {"tag", "branch", "commit"} ELSE {"tag"}) = {"tag"}
    BY <2>1
  <2> DEFINE B == IF kind = "rollback" THEN kept ELSE {Agent!NoVisit.backup}
             T == IF kind = "rollback" THEN {"tag", "branch", "commit"} ELSE {"tag"}
  <2>3. PICK b \in B, target \in T :
          visit' = [u \in Request |->
             IF u = t THEN [Agent!NoVisit EXCEPT !.kind = kind, !.checks = checks, !.backup = b,
                                           !.target = target,
                                           !.pc = IF kind = "staged" THEN "plan" ELSE "backup",
                                           !.alone = \A r \in Request : visit[r].pc = "idle"]
             ELSE [visit[u] EXCEPT !.alone = FALSE]]
    BY Zenon DEF Agent!Come
  <2>4. b \in Agent!Tree /\ target \in {"tag", "branch", "commit"} /\ (kind # "rollback" => target = "tag")
    BY <2>2, <2>3
  <2> HIDE DEF B, T
  <2> QED
    BY <2>3, <2>4, Zenon
<1>2. PICK alone \in BOOLEAN : alone = (\A r \in Request : visit[r].pc = "idle")
  OBVIOUS
<1>3. PICK pc \in {"plan", "backup"} : pc = IF kind = "staged" THEN "plan" ELSE "backup"
  OBVIOUS
<1> DEFINE v == [Agent!NoVisit EXCEPT !.kind = kind, !.checks = checks, !.backup = b,
                                !.target = target, !.pc = pc, !.alone = alone]
<1>4. visit'[t] = v
  BY <1>1, <1>2, <1>3
<1>5. /\ VisitOK(v) /\ v.kind = kind /\ v.pc = pc /\ v.target = target /\ v.alone = alone
      /\ v.todo = Agent!NoVisit.todo
  BY NoVisitOK DEF VisitOK, Visit
<1> HIDE DEF v
<1>6. \A u \in Request : visit[u] \in Visit /\ VisitOK(visit[u])
  BY AgentTypeSplit
<1>7. ASSUME NEW u \in Request \ {t}
      PROVE  /\ VisitOK(visit'[u]) /\ ~visit'[u].alone /\ visit'[u].pc = visit[u].pc
             /\ visit'[u].kind = visit[u].kind /\ visit'[u].target = visit[u].target
             /\ visit'[u].backup = visit[u].backup /\ visit'[u].todo = visit[u].todo
  <2>1. visit'[u] = [visit[u] EXCEPT !.alone = FALSE]
    BY <1>1, <1>7
  <2> QED
    BY <1>6, <2>1 DEF Visit, VisitOK
<1>8. UNCHANGED <<tree, home, green, untidy, kept>> /\ runs' \in 0..MaxRuns /\ visit[t].pc = "idle"
  <2>1. /\ UNCHANGED <<tree, home, green, untidy, kept>> /\ visit[t].pc = "idle"
        /\ runs < MaxRuns /\ runs' = runs + 1
    BY Zenon DEF Agent!Come
  <2> QED
    BY <2>1 DEF Agent!TypeOK, Agent!AgentUpdatesAssumption
<1>9. Agent!TypeOK'
  <2>1. visit' = [u \in Request |-> visit'[u]]
    BY <1>1
  <2>2. visit' \in [Request -> Visit] /\ \A u \in Request : VisitOK(visit'[u])
    BY <1>4, <1>5, <1>7, <2>1 DEF VisitOK
  <2> QED
    BY <1>8, <2>2 DEF Agent!TypeOK, VisitOK, Visit
<1>10. AloneOK'
  <2>1. SUFFICES ASSUME NEW p \in Request, NEW u \in Request, visit'[p].alone,
                        visit'[p].pc # "idle", u # p
                 PROVE  visit'[u].pc = "idle"
    BY DEF AloneOK
  <2>2. p = t /\ alone
    BY <1>4, <1>5, <1>7, <2>1
  <2> QED
    BY <1>2, <1>7, <2>1, <2>2
<1>11. VisitInv(visit[t])'
  <2>1. v.todo = << >> /\ v.pc # "checks" /\ v.pc # "verify" /\ v.pc # "step"
    BY <1>3, <1>5 DEF Agent!NoVisit
  <2>2. v.pc = "backup" => v.kind # "staged"
    BY <1>3, <1>5
  <2> QED
    BY <1>1, <1>3, <1>4, <1>5, <2>1, <2>2 DEF VisitInv, StagedOK
<1>12. ASSUME NEW u \in Request \ {t} PROVE VisitInv(visit[u])'
  BY <1>7, <1>8 DEF VisitInv, AgentInv
<1> QED
  BY <1>8, <1>9, <1>10, <1>11, <1>12 DEF AgentState, AgentInv

LEMMA PlanKeeps ==
  ASSUME Agent!AgentUpdatesAssumption, Agent!TypeOK, AgentInv, NEW t \in Request, Agent!Plan(t)
  PROVE  AgentState'
<1>1. visit[t].pc = "plan" /\ UNCHANGED <<tree, home, green, untidy, kept, runs>>
  BY DEF Agent!Plan
<1>2. visit[t] \in Visit /\ visit \in [Request -> Visit] /\ CheckoutOK
  BY AgentTypeSplit
<1>3. CheckoutOK'
  BY <1>1, <1>2 DEF CheckoutOK
<1>4. CASE Agent!Answer(t, "none")
  BY <1>1, <1>3, <1>4, AnswerKeeps
<1>5. ASSUME NEW target \in 1..Last, NEW n \in 1..Last, n <= Len(Agent!Pending(target)),
             visit' = [visit EXCEPT ![t].pc = "backup", ![t].todo = SubSeq(Agent!Pending(target), 1, n)]
      PROVE  AgentState'
  <2>1. PICK todo : todo = SubSeq(Agent!Pending(target), 1, n)
    OBVIOUS
  <2>2. /\ todo \in Seq(1..Last)
        /\ tree.commit.tag # 0 => \A i \in 1..Len(todo) : todo[i] = tree.commit.tag + i
    BY <1>5, <2>1, PlannedSteps
  <2>8. todo # << >>
    BY <1>5, <2>1, PlannedSteps
  <2> DEFINE v == [visit[t] EXCEPT !.pc = "backup", !.todo = todo]
  <2>3. visit' = [visit EXCEPT ![t] = v]
    BY <1>2, <1>5, <2>1
  <2>4. /\ VisitOK(v) /\ v.alone = visit[t].alone /\ v.pc = "backup" /\ v.kind = visit[t].kind
        /\ v.target = visit[t].target /\ v.todo = todo
    BY <1>2, <2>2 DEF VisitOK, Visit
  <2> HIDE DEF v
  <2>5. visit'[t] = v
    BY <1>2, <2>3
  <2>6. VisitInv(visit[t])'
    BY <1>1, <2>2, <2>4, <2>5, <2>8 DEF VisitInv, StagedOK, AgentInv
  <2>7. tree'.branch => tree'.commit = home
    BY <1>1 DEF AgentInv
  <2> QED
    BY <1>1, <1>3, <2>3, <2>4, <2>6, <2>7, VisitMoved
<1> QED
  BY <1>4, <1>5, Zenon DEF Agent!Plan

LEMMA BackupKeeps ==
  ASSUME Agent!AgentUpdatesAssumption, Agent!TypeOK, AgentInv, NEW t \in Request, Agent!Backup(t)
  PROVE  AgentState'
<1>1. visit[t].pc = "backup" /\ UNCHANGED <<tree, home, green, untidy, runs>>
  BY DEF Agent!Backup
<1>2. visit[t] \in Visit /\ visit \in [Request -> Visit] /\ CheckoutOK
  BY AgentTypeSplit
<1>3. CheckoutOK'
  BY <1>1, <1>2 DEF CheckoutOK, Agent!Backup
<1>4. CASE Agent!Answer(t, "none")
  BY <1>1, <1>3, <1>4, AnswerKeeps
<1>0. visit[t].kind = "staged" => visit[t].todo # << >>
  BY <1>1 DEF AgentInv, VisitInv
<1>5. CASE visit' = [visit EXCEPT ![t].pc = IF visit[t].kind = "staged" THEN "step" ELSE "target",
                                  ![t].backup = IF visit[t].kind = "staged" THEN tree ELSE @]
  <2>1. PICK pc \in {"step", "target"} : pc = IF visit[t].kind = "staged" THEN "step" ELSE "target"
    OBVIOUS
  <2>2. PICK b \in Agent!Tree : b = IF visit[t].kind = "staged" THEN tree ELSE visit[t].backup
    BY <1>2 DEF Visit, CheckoutOK
  <2> DEFINE v == [visit[t] EXCEPT !.pc = pc, !.backup = b]
  <2>3. visit' = [visit EXCEPT ![t] = v]
    BY <1>2, <1>5, <2>1, <2>2
  <2>4. /\ VisitOK(v) /\ v.alone = visit[t].alone /\ v.pc = pc /\ v.kind = visit[t].kind
        /\ v.target = visit[t].target /\ v.todo = visit[t].todo /\ v.backup = b
    BY <1>0, <1>2, <2>1 DEF VisitOK, Visit
  <2> HIDE DEF v
  <2>5. visit'[t] = v
    BY <1>2, <2>3
  <2>6. ASSUME visit[t].kind = "staged", visit[t].alone, tree.commit.tag # 0
        PROVE  /\ \A i \in 1..Len(v.todo) : v.todo[i] = v.todo[1] + i - 1
               /\ (tree.commit.tag + 1)..(v.todo[1] - 1) = {}
    <3>1. \A i \in 1..Len(v.todo) : v.todo[i] = tree.commit.tag + i
      BY <1>1, <2>4, <2>6 DEF AgentInv, VisitInv, StagedOK
    <3>2. Len(v.todo) \in Nat \ {0} /\ tree.commit.tag \in Nat
      BY <1>0, <1>2, <2>4, <2>6, EmptySeq DEF Visit, CheckoutOK, Agent!Tree, Agent!Commit
    <3>3. 1 \in 1..Len(v.todo) /\ v.todo[1] = tree.commit.tag + 1
      BY <3>1, <3>2
    <3>4. \A i \in 1..Len(v.todo) : i \in Nat /\ tree.commit.tag + i = (tree.commit.tag + 1) + i - 1
      BY <3>2
    <3>5. \A n : n \notin (tree.commit.tag + 1)..((tree.commit.tag + 1) - 1)
      BY <3>2
    <3> QED
      BY <3>1, <3>3, <3>4, <3>5
  <2>7. VisitInv(visit[t])'
    <3>1. v.pc # "plan" /\ v.pc # "backup" /\ v.pc # "checks" /\ v.pc # "verify"
          /\ (v.pc = "step" => v.kind = "staged")
      BY <2>1, <2>4
    <3>2. v.kind = "staged" => v.target = "tag" /\ b = tree
      BY <2>2, <2>4 DEF AgentInv, VisitInv
    <3>3. v.kind = "staged" /\ v.alone => StagedOK(visit[t])'
      BY <1>1, <2>4, <2>5, <2>6, <3>1, <3>2 DEF StagedOK
    <3> QED
      BY <1>1, <2>4, <2>5, <3>1, <3>2, <3>3 DEF VisitInv, AgentInv
  <2>8. tree'.branch => tree'.commit = home
    BY <1>1 DEF AgentInv
  <2> QED
    BY <1>1, <1>3, <2>3, <2>4, <2>7, <2>8, VisitMoved
<1> QED
  BY <1>4, <1>5, Zenon DEF Agent!Backup
\* A step of the update: the checkout may go to the next release.
LEMMA StepKeeps ==
  ASSUME Agent!AgentUpdatesAssumption, Agent!TypeOK, AgentInv, NEW t \in Request, Agent!Step(t)
  PROVE  AgentState'
<1>1. visit[t].pc = "step" /\ UNCHANGED <<home, green, untidy, kept, runs>>
  BY DEF Agent!Step
<1>2. /\ visit[t] \in Visit /\ visit \in [Request -> Visit] /\ CheckoutOK
      /\ visit[t].todo # << >> /\ visit[t].todo \in Seq(1..Last)
  BY <1>1, AgentTypeSplit DEF VisitOK, Visit
<1>3. Head(visit[t].todo) = visit[t].todo[1] /\ visit[t].todo[1] \in 0..Last
  <2>1. Head(visit[t].todo) = visit[t].todo[1]
    OBVIOUS
  <2>2. Head(visit[t].todo) \in 1..Last
    BY <1>2, HeadTailProperties
  <2> QED
    BY <2>1, <2>2 DEF Agent!AgentUpdatesAssumption
<1>4. PICK pc \in {"checks", "target"} :
        /\ Agent!Goto(t, pc)
        /\ \/ tree' = [commit |-> Agent!Release(visit[t].todo[1]), branch |-> FALSE]
           \/ UNCHANGED tree /\ pc = "target"
  BY <1>3 DEF Agent!Step, Agent!CheckOut
<1> DEFINE v == [visit[t] EXCEPT !.pc = pc]
<1>5. visit' = [visit EXCEPT ![t] = v]
  BY <1>2, <1>4 DEF Agent!Goto
<1>6. /\ VisitOK(v) /\ v.alone = visit[t].alone /\ v.pc = pc /\ v.kind = visit[t].kind
      /\ v.target = visit[t].target /\ v.todo = visit[t].todo /\ v.backup = visit[t].backup
  BY <1>2 DEF VisitOK, Visit
<1> HIDE DEF v
<1>7. visit'[t] = v
  BY <1>2, <1>5
<1>8. tree' \in Agent!Tree /\ (tree'.branch => tree'.commit = home)
  <2>1. Agent!Release(visit[t].todo[1]) \in Agent!Commit
    BY <1>3, ReleaseType
  <2>2. tree \in Agent!Tree /\ (tree.branch => tree.commit = home)
    BY <1>2 DEF CheckoutOK, AgentInv
  <2>3. CASE tree' = [commit |-> Agent!Release(visit[t].todo[1]), branch |-> FALSE]
    BY <2>1, <2>3 DEF Agent!Tree
  <2> QED
    BY <1>4, <2>2, <2>3
<1>9. CheckoutOK'
  BY <1>1, <1>2, <1>8 DEF CheckoutOK
<1>10. VisitInv(visit[t])'
  <2>1. VisitInv(visit[t])
    BY DEF AgentInv
  <2>2. v.pc = "checks" => tree'.commit = Agent!Release(v.todo[1])
    BY <1>4, <1>6
  <2>3. v.kind = "staged" /\ v.alone => StagedOK(visit[t])'
    BY <1>1, <1>6, <1>7, <2>1, <2>2 DEF VisitInv, StagedOK
  <2> QED
    BY <1>1, <1>6, <1>7, <2>1, <2>3 DEF VisitInv
<1> QED
  BY <1>1, <1>5, <1>6, <1>8, <1>9, <1>10, VisitMoved

LEMMA ChecksKeep ==
  ASSUME Agent!AgentUpdatesAssumption, Agent!TypeOK, AgentInv, NEW t \in Request, Agent!Checks(t)
  PROVE  AgentState'
<1>1. visit[t].pc = "checks" /\ UNCHANGED <<tree, home, green, untidy, kept, runs>>
  BY DEF Agent!Checks
<1>2. /\ visit[t] \in Visit /\ visit \in [Request -> Visit] /\ CheckoutOK
      /\ visit[t].todo # << >> /\ visit[t].todo \in Seq(1..Last)
      /\ Len(visit[t].todo) \in Nat \ {0}
  BY <1>1, AgentTypeSplit, EmptySeq DEF VisitOK, Visit
<1>3. CheckoutOK'
  BY <1>1, <1>2 DEF CheckoutOK
<1>4. tree'.branch => tree'.commit = home
  BY <1>1 DEF AgentInv
<1>5. VisitInv(visit[t]) /\ visit[t].kind = "staged"
  BY <1>1 DEF AgentInv, VisitInv
<1>6. CASE Agent!Answer(t, "updated")
  BY <1>1, <1>3, <1>6, AnswerKeeps
<1>7. CASE Agent!Goto(t, "target")
  <2> DEFINE v == [visit[t] EXCEPT !.pc = "target"]
  <2>1. visit' = [visit EXCEPT ![t] = v]
    BY <1>2, <1>7 DEF Agent!Goto
  <2>2. /\ VisitOK(v) /\ v.alone = visit[t].alone /\ v.pc = "target" /\ v.kind = visit[t].kind
        /\ v.target = visit[t].target /\ v.backup = visit[t].backup
    BY <1>2 DEF VisitOK, Visit
  <2> HIDE DEF v
  <2>3. visit'[t] = v
    BY <1>2, <2>1
  <2>4. VisitInv(visit[t])'
    BY <1>1, <1>5, <2>2, <2>3 DEF VisitInv, StagedOK
  <2> QED
    BY <1>1, <1>3, <1>4, <2>1, <2>2, <2>4, VisitMoved
<1>8. CASE /\ visit[t].checks /\ Agent!Passes /\ Len(visit[t].todo) # 1
           /\ visit' = [visit EXCEPT ![t].pc = "step", ![t].todo = Tail(@)]
  <2>1. PICK todo : todo = Tail(visit[t].todo)
    OBVIOUS
  <2>2. /\ todo \in Seq(1..Last) /\ Len(todo) = Len(visit[t].todo) - 1
        /\ \A i \in 1..Len(todo) : todo[i] = visit[t].todo[i + 1]
    BY <1>2, <2>1, HeadTailProperties
  <2>3. todo # << >> /\ Len(todo) \in Nat \ {0}
    <3>1. Len(todo) \in Nat \ {0}
      BY <1>2, <1>8, <2>2
    <3> QED
      BY <3>1, EmptySeq
  <2> DEFINE v == [visit[t] EXCEPT !.pc = "step", !.todo = todo]
  <2>4. visit' = [visit EXCEPT ![t] = v]
    BY <1>2, <1>8, <2>1
  <2>5. /\ VisitOK(v) /\ v.alone = visit[t].alone /\ v.pc = "step" /\ v.kind = visit[t].kind
        /\ v.target = visit[t].target /\ v.backup = visit[t].backup /\ v.todo = todo
    BY <1>2, <2>2, <2>3 DEF VisitOK, Visit
  <2> HIDE DEF v
  <2>6. visit'[t] = v
    BY <1>2, <2>4
  <2>7. ASSUME visit[t].alone, visit[t].backup.commit.tag # 0
        PROVE  /\ \A i \in 1..Len(todo) : todo[i] = todo[1] + i - 1
               /\ \A n \in (visit[t].backup.commit.tag + 1)..(todo[1] - 1) : Agent!Release(n) \in green
    <3> DEFINE old == visit[t].todo
    <3>1. /\ \A i \in 1..Len(old) : old[i] = old[1] + i - 1
          /\ \A n \in (visit[t].backup.commit.tag + 1)..(old[1] - 1) : Agent!Release(n) \in green
          /\ tree.commit = Agent!Release(old[1])
      BY <1>1, <1>5, <2>7 DEF VisitInv, StagedOK
    <3>2. Agent!Release(old[1]) \in green
      BY <1>8, <3>1 DEF Agent!Passes
    <3>3. old[1] \in 1..Last /\ Last \in Nat /\ visit[t].backup.commit.tag \in Nat
      BY <1>2, ElementOfSeq DEF Agent!AgentUpdatesAssumption, Visit, Agent!Tree, Agent!Commit
    <3>4. ASSUME NEW i \in 1..Len(todo) PROVE todo[i] = old[1] + i
      <4>1. i + 1 \in 1..Len(old)
        BY <1>2, <2>2, <2>3
      <4> QED
        BY <2>2, <3>1, <3>3, <3>4, <4>1
    <3>5. todo[1] = old[1] + 1
      BY <2>3, <3>4
    <3> HIDE DEF old
    <3>6. \A i \in 1..Len(todo) : todo[i] = todo[1] + i - 1
      BY <2>3, <3>3, <3>4, <3>5
    <3>7. \A n \in (visit[t].backup.commit.tag + 1)..(todo[1] - 1) :
            n = old[1] \/ n \in (visit[t].backup.commit.tag + 1)..(old[1] - 1)
      BY <3>3, <3>5
    <3> QED
      BY <3>1, <3>2, <3>6, <3>7
  <2>8. v.kind = "staged" /\ v.alone => StagedOK(visit[t])'
    BY <1>1, <2>5, <2>6, <2>7 DEF StagedOK, Agent!Release
  <2>9. VisitInv(visit[t])'
    BY <1>1, <1>5, <2>5, <2>6, <2>8 DEF VisitInv
  <2> QED
    BY <1>1, <1>3, <1>4, <2>4, <2>5, <2>9, VisitMoved
<1> QED
  BY <1>6, <1>7, <1>8 DEF Agent!Checks

\* Where a repair goes to.
LEMMA TargetOfStaged ==
  ASSUME Agent!AgentUpdatesAssumption, Agent!TypeOK, AgentInv, NEW t \in Request,
         visit[t].pc = "target",
         visit[t].kind = "staged", Agent!Target(t) # Agent!Release(0)
  PROVE  \/ Agent!Target(t) = visit[t].backup.commit
         \/ visit[t].backup.commit.own /\ visit[t].backup.commit.tag # 0
<1> DEFINE b == visit[t].backup
<1>1. visit[t].target = "tag" /\ (b.branch => b.commit = home)
  BY DEF AgentInv, VisitInv
<1>2. b.commit \in Agent!Commit
  BY AgentTypeSplit DEF Visit, Agent!Tree
<1>3. CASE b.commit.tag # 0
  BY <1>1, <1>2, <1>3 DEF Agent!Target, Agent!Release, Agent!Commit
<1>4. CASE b.commit.tag = 0
  BY <1>1, <1>4 DEF Agent!Target
<1> QED
  BY <1>3, <1>4

LEMMA GoBackKeeps ==
  ASSUME Agent!AgentUpdatesAssumption, Agent!TypeOK, AgentInv, NEW t \in Request, Agent!GoBack(t)
  PROVE  AgentState'
<1>1. visit[t].pc = "target" /\ UNCHANGED <<home, green, untidy, kept, runs>>
  BY DEF Agent!GoBack
<1>2. visit[t] \in Visit /\ visit \in [Request -> Visit] /\ CheckoutOK
  BY AgentTypeSplit
<1>3. ASSUME UNCHANGED tree, NEW a \in {"none", "failed"}, Agent!Answer(t, a) PROVE AgentState'
  <2>1. CheckoutOK'
    BY <1>1, <1>2, <1>3 DEF CheckoutOK
  <2> QED
    BY <1>1, <1>3, <2>1, AnswerKeeps
<1>4. CASE Agent!Target(t) # Agent!Release(0) /\ Agent!CheckOut(Agent!Target(t)) /\ Agent!Goto(t, "verify")
  <2> DEFINE v == [visit[t] EXCEPT !.pc = "verify"]
  <2>1. visit' = [visit EXCEPT ![t] = v]
    BY <1>2, <1>4 DEF Agent!Goto
  <2>2. /\ VisitOK(v) /\ v.alone = visit[t].alone /\ v.pc = "verify" /\ v.kind = visit[t].kind
        /\ v.target = visit[t].target /\ v.backup = visit[t].backup
    BY <1>2 DEF VisitOK, Visit
  <2> HIDE DEF v
  <2>3. visit'[t] = v
    BY <1>2, <2>1
  <2>4. tree' = [commit |-> Agent!Target(t), branch |-> FALSE]
    BY <1>4 DEF Agent!CheckOut
  <2>5. Agent!Target(t) \in Agent!Commit
    <3>1. visit[t].backup.commit \in Agent!Commit /\ home \in Agent!Commit
      BY <1>2 DEF Visit, Agent!Tree, CheckoutOK
    <3>2. visit[t].backup.commit.tag \in 0..Last
      BY <3>1 DEF Agent!Commit
    <3>3. \/ Agent!Target(t) = Agent!Release(visit[t].backup.commit.tag)
          \/ Agent!Target(t) = visit[t].backup.commit
          \/ Agent!Target(t) = home \/ Agent!Target(t) = Agent!Release(0)
      BY DEF Agent!Target
    <3> QED
      BY <1>4, <3>1, <3>2, <3>3, ReleaseType
  <2>6. CheckoutOK'
    BY <1>1, <1>2, <2>4, <2>5 DEF CheckoutOK, Agent!Tree
  <2>7. VisitInv(visit[t])'
    <3>1. VisitInv(visit[t])
      BY DEF AgentInv
    <3>2. v.kind = "staged" =>
            \/ tree'.commit = v.backup.commit
            \/ v.backup.commit.own /\ v.backup.commit.tag # 0
      <4>1. tree'.commit = Agent!Target(t)
        BY <2>4
      <4>2. visit[t].kind = "staged" =>
              \/ Agent!Target(t) = visit[t].backup.commit
              \/ visit[t].backup.commit.own /\ visit[t].backup.commit.tag # 0
        BY <1>1, <1>4, TargetOfStaged
      <4>3. v.backup = visit[t].backup /\ v.kind = visit[t].kind
        BY <2>2
      <4> QED
        BY <4>1, <4>2, <4>3, Zenon
    <3> QED
      BY <1>1, <2>2, <2>3, <3>1, <3>2 DEF VisitInv, StagedOK
  <2> QED
    BY <1>1, <2>1, <2>2, <2>4, <2>6, <2>7, VisitMoved
<1> QED
  BY <1>3, <1>4 DEF Agent!GoBack

LEMMA AgentStateStep ==
  ASSUME Agent!AgentUpdatesAssumption
  PROVE  AgentState /\ [Agent!Next]_Agent!agentVars => AgentState'
<1> SUFFICES ASSUME AgentState, [Agent!Next]_Agent!agentVars PROVE AgentState'
  OBVIOUS
<1>0. Agent!TypeOK /\ AgentInv
  BY DEF AgentState
<1>1. CASE UNCHANGED Agent!agentVars
  BY <1>0, <1>1 DEF Agent!agentVars, AgentState, Agent!TypeOK, AgentInv, AloneOK, VisitInv,
     StagedOK
<1>2. CASE Agent!Edit
  BY <1>0, <1>2 DEF Agent!Edit, AgentState, Agent!TypeOK, AgentInv, AloneOK, VisitInv, StagedOK
<1>3. ASSUME NEW t \in Request, Agent!Verify(t) PROVE AgentState'
  <2>1. CheckoutOK'
    BY <1>0, <1>3, AgentTypeSplit DEF CheckoutOK, Agent!Verify
  <2> QED
    BY <1>0, <1>3, <2>1, AnswerKeeps DEF Agent!Verify
<1>4. ASSUME NEW t \in Request, Agent!Serve(t) PROVE AgentState'
  BY <1>0, <1>3, <1>4, ComeKeeps, PlanKeeps, BackupKeeps, StepKeeps, ChecksKeep, GoBackKeeps
     DEF Agent!Serve
<1> QED
  BY <1>1, <1>2, <1>4 DEF Agent!Next

LEMMA AgentStateHolds == ASSUME Agent!AgentUpdatesAssumption PROVE Agent!Spec => []AgentState
<1>1. Agent!Init => AgentState
  <2> SUFFICES ASSUME Agent!Init PROVE AgentState
    OBVIOUS
  <2>1. visit = [t \in Request |-> Agent!NoVisit] /\ Agent!NoVisit \in Visit /\ Agent!NoVisit.pc = "idle"
        /\ Agent!NoVisit.kind = "none"
    BY NoVisitOK DEF Agent!Init
  <2>2. CheckoutOK
    <3>1. \A n \in 1..Last : Agent!Release(n) \in Agent!Commit
      BY ReleaseType DEF Agent!AgentUpdatesAssumption
    <3>2. home \in Agent!Commit /\ untidy \in BOOLEAN /\ kept \subseteq Agent!Tree /\ runs \in 0..MaxRuns
      <4>1. home \in Agent!Commit
        BY DEF Agent!Init
      <4>2. untidy = FALSE /\ kept = {} /\ runs = 0
        BY DEF Agent!Init
      <4>3. runs \in 0..MaxRuns
        BY <4>2 DEF Agent!AgentUpdatesAssumption
      <4> QED
        BY <4>1, <4>2, <4>3, Zenon
    <3>3. tree \in Agent!Tree
      BY <3>2 DEF Agent!Init, Agent!Tree
    <3>4. green \subseteq Agent!Commit
      BY <3>1, <3>2 DEF Agent!Init
    <3> QED
      BY <3>2, <3>3, <3>4 DEF CheckoutOK
  <2>3. tree.branch => tree.commit = home
    BY DEF Agent!Init
  <2> QED
    BY <2>1, <2>2, <2>3, AgentTypeSplit DEF AgentState, AgentInv, AloneOK, VisitInv, StagedOK,
       VisitOK
<1>2. AgentState /\ [Agent!Next]_Agent!agentVars => AgentState'
  BY AgentStateStep
<1> QED
  BY <1>1, <1>2, PTL DEF Agent!Spec
\* Who says "updated" or "rolled_back" has just checked.
LEMMA WhoAnswers ==
  ASSUME Agent!TypeOK, [Agent!Next]_Agent!agentVars, NEW t \in Request,
         NEW a \in {"updated", "rolled_back"},
         visit[t].pc # "idle", visit'[t].pc = "idle", visit'[t].answer = a
  PROVE  /\ UNCHANGED tree /\ Agent!Passes
         /\ a = "updated" => /\ visit[t].pc = "checks" /\ Len(visit[t].todo) = 1
         /\ a = "rolled_back" => visit[t].pc = "verify"
<1>0. visit \in [Request -> Visit]
  BY AgentTypeSplit
<1>1. visit' # visit
  BY DEF Agent!agentVars
<1>2. PICK u \in Request : Agent!Serve(u)
  BY <1>1 DEF Agent!Next, Agent!agentVars, Agent!Edit
<1>3. ASSUME NEW b, Agent!Answer(u, b) PROVE u = t /\ b = a
  BY <1>0, <1>3 DEF Agent!Answer, Visit
<1>4. ASSUME NEW pc, pc # "idle", Agent!Goto(u, pc) PROVE FALSE
  BY <1>0, <1>4 DEF Agent!Goto, Visit
<1>5. ASSUME NEW kind \in {"staged", "rollback", "backup"}, NEW checks \in BOOLEAN,
             Agent!Come(u, kind, checks)
      PROVE  FALSE
  <2>1. visit[u].pc = "idle" /\ u # t
    BY <1>5 DEF Agent!Come
  <2>2. visit'[t] = [visit[t] EXCEPT !.alone = FALSE]
    BY <1>5, <2>1 DEF Agent!Come
  <2> QED
    BY <1>0, <2>2 DEF Visit
<1>6. ASSUME Agent!Plan(u) PROVE FALSE
  <2>1. ASSUME NEW todo, visit' = [visit EXCEPT ![u].pc = "backup", ![u].todo = todo] PROVE FALSE
    BY <1>0, <2>1 DEF Visit
  <2> QED
    BY <1>3, <1>6, <2>1 DEF Agent!Plan
<1>7. ASSUME Agent!Backup(u) PROVE FALSE
  <2>1. ASSUME NEW pc, NEW b, pc # "idle",
               visit' = [visit EXCEPT ![u].pc = pc, ![u].backup = b] PROVE FALSE
    BY <1>0, <2>1 DEF Visit
  <2> QED
    BY <1>3, <1>7, <2>1 DEF Agent!Backup
<1>8. ASSUME Agent!Step(u) PROVE FALSE
  BY <1>4, <1>8 DEF Agent!Step
<1>9. ASSUME Agent!GoBack(u) PROVE FALSE
  BY <1>3, <1>4, <1>9 DEF Agent!GoBack
<1>10. CASE Agent!Checks(u)
  <2>1. ASSUME NEW todo, visit' = [visit EXCEPT ![u].pc = "step", ![u].todo = todo] PROVE FALSE
    BY <1>0, <2>1 DEF Visit
  <2>2. Agent!Answer(u, "updated") /\ Len(visit[u].todo) = 1 /\ Agent!Passes /\ UNCHANGED tree
        /\ visit[u].pc = "checks"
    BY <1>4, <1>10, <2>1 DEF Agent!Checks
  <2> QED
    BY <1>3, <2>2
<1>11. CASE Agent!Verify(u)
  <2>1. Agent!Answer(u, IF Agent!Passes THEN "rolled_back" ELSE "failed") /\ UNCHANGED tree
        /\ visit[u].pc = "verify"
    BY <1>11 DEF Agent!Verify
  <2> QED
    BY <1>3, <2>1
<1> QED
  BY <1>2, <1>5, <1>6, <1>7, <1>8, <1>9, <1>10, <1>11 DEF Agent!Serve

LEMMA AgentUpdatesVerified ==
  ASSUME Agent!AgentUpdatesAssumption
  PROVE  Agent!Spec => Agent!UpdatedIsVerified
<1>1. ASSUME AgentState, [Agent!Next]_Agent!agentVars, NEW t \in Request,
             Agent!Answers(t, "updated"), visit[t].alone
      PROVE  /\ tree'.commit = Agent!Release(Head(visit[t].todo))
             /\ visit[t].backup.commit.tag # 0 =>
                  \A n \in (visit[t].backup.commit.tag + 1)..tree'.commit.tag : Agent!Release(n) \in green
             /\ tree'.commit \in green
  <2>1. /\ UNCHANGED tree /\ Agent!Passes /\ visit[t].pc = "checks" /\ Agent!TypeOK /\ AgentInv
    BY <1>1, WhoAnswers DEF Agent!Answers, AgentState
  <2>2. StagedOK(visit[t])
    BY <1>1, <2>1 DEF AgentInv, VisitInv
  <2>3. Head(visit[t].todo) = visit[t].todo[1]
    OBVIOUS
  <2>4. tree.commit = Agent!Release(visit[t].todo[1]) /\ tree.commit \in green
    BY <2>1, <2>2 DEF StagedOK, Agent!Passes
  <2>5. visit[t].backup.commit.tag \in Nat /\ visit[t].todo[1] \in Nat
    <3>1. visit[t].todo \in Seq(1..Last) /\ visit[t].todo # << >> /\ visit[t].backup \in Agent!Tree
      BY <2>1, AgentTypeSplit DEF VisitOK, Visit
    <3>2. visit[t].todo[1] \in 1..Last
      BY <2>3, <3>1, HeadTailProperties
    <3>3. visit[t].backup.commit.tag \in 0..Last
      BY <3>1 DEF Agent!Tree, Agent!Commit
    <3> QED
      BY <3>2, <3>3
  <2>6. visit[t].backup.commit.tag # 0 =>
          \A n \in (visit[t].backup.commit.tag + 1)..tree.commit.tag : Agent!Release(n) \in green
    <3>1. tree.commit.tag = visit[t].todo[1]
      BY <2>4 DEF Agent!Release
    <3>2. \A n \in (visit[t].backup.commit.tag + 1)..visit[t].todo[1] :
            n = visit[t].todo[1] \/ n \in (visit[t].backup.commit.tag + 1)..(visit[t].todo[1] - 1)
      BY <2>5
    <3> QED
      BY <2>1, <2>2, <2>4, <3>1, <3>2 DEF StagedOK
  <2> QED
    BY <2>1, <2>3, <2>4, <2>6
<1>2. AgentState /\ [Agent!Next]_Agent!agentVars =>
        [\A t \in Request : Agent!Answers(t, "updated") /\ visit[t].alone =>
           /\ tree'.commit = Agent!Release(Head(visit[t].todo))
           /\ visit[t].backup.commit.tag # 0 =>
                \A n \in (visit[t].backup.commit.tag + 1)..tree'.commit.tag : Agent!Release(n) \in green
           /\ tree'.commit \in green]_Agent!agentVars
  BY <1>1
<1>3. Agent!Spec => []AgentState
  BY AgentStateHolds
<1> QED
  BY <1>2, <1>3, PTL DEF Agent!Spec, Agent!UpdatedIsVerified

LEMMA AgentRepairRestores ==
  ASSUME Agent!AgentUpdatesAssumption
  PROVE  Agent!Spec => Agent!RepairRestores
<1>1. ASSUME AgentState, [Agent!Next]_Agent!agentVars, NEW t \in Request,
             Agent!Answers(t, "rolled_back"),
             visit[t].alone, visit[t].kind = "staged"
      PROVE  \/ tree'.commit = visit[t].backup.commit
             \/ visit[t].backup.commit.own /\ visit[t].backup.commit.tag # 0
  <2>1. UNCHANGED tree /\ visit[t].pc = "verify" /\ AgentInv
    BY <1>1, WhoAnswers DEF Agent!Answers, AgentState
  <2> QED
    BY <1>1, <2>1 DEF AgentInv, VisitInv, StagedOK
<1>2. AgentState /\ [Agent!Next]_Agent!agentVars =>
        [\A t \in Request :
           Agent!Answers(t, "rolled_back") /\ visit[t].alone /\ visit[t].kind = "staged" =>
             \/ tree'.commit = visit[t].backup.commit
             \/ visit[t].backup.commit.own /\ visit[t].backup.commit.tag # 0]_Agent!agentVars
  BY <1>1
<1>3. Agent!Spec => []AgentState
  BY AgentStateHolds
<1> QED
  BY <1>2, <1>3, PTL DEF Agent!Spec, Agent!RepairRestores

-----------------------------------------------------------------------------
(* CodeEdits: types, and what an operation holds at each of its steps.      *)

StageOK(h) ==
  \/ h.op = "none" /\ h.pc = "idle"
  \/ h.op = "propose" /\ h.pc \in {"pre", "save"}
  \/ h.op = "restore" /\ h.pc \in {"pre", "replace"}
  \/ h.op = "apply" /\ h.pc \in {"lock", "pre", "announce", "replace", "verify", "rollback", "post"}
  \/ h.op = "stage" /\ h.pc \in {"check", "add"}
  \/ h.op = "commit" /\ h.pc \in {"check", "add", "look", "commit"}
  \/ h.op = "branch" /\ h.pc = "switch"

HandOK(h) ==
  /\ h \in Edits!Hand /\ StageOK(h)
  /\ h.op # "none" => h.task \in Task
  /\ h.op \in {"propose", "apply", "restore"} => \E f \in Name : h.files = {f}
  /\ h.op \in {"propose", "apply"} => h.change \in Edits!Proposal /\ h.files = {h.change.file}
  /\ h.op = "apply" => h.change \in proposals
  /\ h.op \in {"apply", "restore"} => h.text \in Text
  /\ h.op \in {"commit", "branch"} => h.on \in Shipping

CheckoutTypes ==
  /\ live \in [Name -> Text] /\ index \in [Name -> Text]
  /\ tip \in [Edits!Branch -> [Name -> Text] \cup {None}]
  /\ branch \in Edits!Branch /\ tip[branch] # None

TableTypes ==
  /\ lock \in [Name -> Edits!Lock]
  /\ snaps \subseteq Edits!Snapshot /\ proposals \subseteq Edits!Proposal
  /\ intents \subseteq proposals
  /\ contested \subseteq Name /\ overtaken \subseteq Request
  /\ asked \in 0..MaxAsked /\ moves \in 0..MaxMoves

HandTypes == hand \in [Request -> Edits!Hand] /\ \A t \in Request : HandOK(hand[t])

EditTypes == CheckoutTypes /\ TableTypes /\ HandTypes

Writing(h) == h.op \in {"apply", "restore"}

\* Of a file that is not contested: who writes has its lock, and knows its text.
WriteOK(h) ==
  Writing(h) => \A f \in h.files \ contested :
    /\ h.pc # "lock" => lock[f].task = h.task
    /\ lock[f].task = h.task =>
         /\ h.op = "apply" /\ h.pc \in {"lock", "pre", "announce", "replace"} =>
              live[f] = h.change.base
         /\ h.pc \in {"announce", "replace"} => \E s \in snaps : s.file = f /\ s.text = live[f]
         /\ h.op = "apply" /\ h.pc = "replace" => h.change \in intents
         /\ h.pc \in {"verify", "post"} => live[f] = h.change.text
         /\ h.pc # "rollback"

\* ... and no other writes it for the same task.
Apart ==
  \A t, u \in Request : t # u /\ Writing(hand[t]) /\ Writing(hand[u]) =>
    \A f \in (hand[t].files \cap hand[u].files) \ contested : hand[t].task # hand[u].task

WriteInv == Apart /\ \A t \in Request : WriteOK(hand[t])

CommitOK(t) ==
  hand[t].op = "commit" =>
    /\ hand[t].pc \in {"add", "look", "commit"} =>
         \A f \in hand[t].files : \E s \in snaps : s.file = f /\ s.agent = Owner[hand[t].task]
    /\ t \notin overtaken =>
         branch = hand[t].on /\ (hand[t].pc = "commit" => Edits!Staged \subseteq hand[t].files)

CommitInv == \A t \in Request : CommitOK(t)
EditInv == EditTypes /\ WriteInv /\ CommitInv

LEMMA EditTypesAreTypes == EditTypes => Edits!TypeOK
BY DEF EditTypes, CheckoutTypes, TableTypes, HandTypes, Edits!TypeOK

LEMMA NoHandOK ==
  /\ HandOK(Edits!NoHand) /\ WriteOK(Edits!NoHand) /\ ~Writing(Edits!NoHand)
  /\ Edits!NoHand.op = "none" /\ Edits!NoHand.pc = "idle"
BY DEF HandOK, StageOK, Edits!NoHand, Edits!Hand, WriteOK, Writing

LEMMA TheFileIs ==
  ASSUME EditTypes, NEW t \in Request, hand[t].op \in {"propose", "apply", "restore"}
  PROVE  Edits!TheFile(t) \in Name /\ hand[t].files = {Edits!TheFile(t)}
<1>1. \E f \in Name : hand[t].files = {f}
  BY DEF EditTypes, HandTypes, HandOK
<1> QED
  BY <1>1 DEF Edits!TheFile

\* A step of a request to its next stage.
LEMMA GoHand ==
  ASSUME EditTypes, NEW t \in Request,
         NEW pc \in {"pre", "save", "lock", "announce", "replace", "verify", "rollback", "post",
                     "check", "add", "look", "commit"}, Edits!Go(t, pc)
  PROVE  \E h \in Edits!Hand :
           /\ hand' = [hand EXCEPT ![t] = h] /\ hand'[t] = h /\ h.pc = pc
           /\ h.op = hand[t].op /\ h.task = hand[t].task /\ h.files = hand[t].files
           /\ h.text = hand[t].text /\ h.change = hand[t].change /\ h.on = hand[t].on
<1> DEFINE h == [hand[t] EXCEPT !.pc = pc]
<1>1. hand[t] \in Edits!Hand /\ hand \in [Request -> Edits!Hand]
  BY DEF EditTypes, HandTypes
<1>2. hand' = [hand EXCEPT ![t] = h]
  BY <1>1 DEF Edits!Go
<1>3. /\ h \in Edits!Hand /\ h.pc = pc
      /\ h.op = hand[t].op /\ h.task = hand[t].task /\ h.files = hand[t].files
      /\ h.text = hand[t].text /\ h.change = hand[t].change /\ h.on = hand[t].on
  BY <1>1 DEF Edits!Hand
<1> HIDE DEF h
<1> QED
  BY <1>1, <1>2, <1>3

-----------------------------------------------------------------------------
(* CodeEdits: what others' steps leave as it is.                            *)

LEMMA WritePasses ==
  ASSUME NEW u \in Request, WriteOK(hand[u]), hand'[u] = hand[u],
         snaps \subseteq snaps', intents \subseteq intents', contested \subseteq contested',
         Writing(hand[u]) => \A f \in hand[u].files \ contested' :
           /\ hand[u].pc # "lock" => lock'[f].task = lock[f].task
           /\ lock'[f].task = hand[u].task => lock[f].task = hand[u].task /\ live'[f] = live[f]
  PROVE  WriteOK(hand[u])'
<1>1. SUFFICES ASSUME Writing(hand[u]), NEW f \in hand[u].files \ contested'
               PROVE  /\ hand[u].pc # "lock" => lock'[f].task = hand[u].task
                      /\ lock'[f].task = hand[u].task =>
                           /\ hand[u].op = "apply" /\ hand[u].pc \in {"lock", "pre", "announce", "replace"} =>
                                live'[f] = hand[u].change.base
                           /\ hand[u].pc \in {"announce", "replace"} =>
                                \E s \in snaps' : s.file = f /\ s.text = live'[f]
                           /\ hand[u].op = "apply" /\ hand[u].pc = "replace" =>
                                hand[u].change \in intents'
                           /\ hand[u].pc \in {"verify", "post"} => live'[f] = hand[u].change.text
                           /\ hand[u].pc # "rollback"
  BY DEF WriteOK, Writing
<1> QED
  BY <1>1 DEF WriteOK

LEMMA CommitPasses ==
  ASSUME NEW u \in Request, CommitOK(u), hand'[u] = hand[u], snaps \subseteq snaps',
         hand[u].op = "commit" /\ u \notin overtaken' =>
           /\ u \notin overtaken /\ branch' = branch
           /\ hand[u].pc = "commit" => Edits!Staged' \subseteq Edits!Staged
  PROVE  CommitOK(u)'
BY DEF CommitOK

LEMMA SameStaged == UNCHANGED <<index, tip, branch>> => UNCHANGED Edits!Staged
BY DEF Edits!Staged

\* A step of one request that writes no file, stages nothing and switches nothing.
LEMMA CalmStep ==
  ASSUME EditInv, NEW t \in Request, NEW h, hand' = [hand EXCEPT ![t] = h],
         UNCHANGED <<live, lock, index, tip, branch, overtaken, contested>>,
         snaps \subseteq snaps', proposals \subseteq proposals', intents \subseteq intents',
         snaps' \subseteq Edits!Snapshot, proposals' \subseteq Edits!Proposal, intents' \subseteq proposals',
         asked' \in 0..MaxAsked, moves' \in 0..MaxMoves,
         Writing(h) => Writing(hand[t]) /\ h.files = hand[t].files /\ h.task = hand[t].task,
         HandOK(hand[t])', WriteOK(hand[t])', CommitOK(t)'
  PROVE  EditInv'
<1>0. hand \in [Request -> Edits!Hand] /\ CheckoutTypes /\ TableTypes
  BY DEF EditInv, EditTypes, HandTypes
<1>1. hand'[t] = h /\ \A u \in Request \ {t} : hand'[u] = hand[u]
  BY <1>0
<1>2. EditTypes'
  <2>1. CheckoutTypes' /\ TableTypes'
    BY <1>0 DEF CheckoutTypes, TableTypes
  <2>2. \A u \in Request \ {t} : HandOK(hand[u])'
    BY <1>1 DEF EditInv, EditTypes, HandTypes, HandOK
  <2>3. hand' \in [Request -> Edits!Hand]
    BY <1>0, <1>1 DEF HandOK
  <2> QED
    BY <2>1, <2>2, <2>3 DEF EditTypes, HandTypes
<1>3. Apart'
  BY <1>1 DEF EditInv, WriteInv, Apart
<1>4. \A u \in Request : WriteOK(hand[u])'
  BY <1>1, WritePasses DEF EditInv, WriteInv
<1>5. \A u \in Request : CommitOK(u)'
  BY <1>1, CommitPasses, SameStaged DEF EditInv, CommitInv
<1> QED
  BY <1>2, <1>3, <1>4, <1>5 DEF EditInv, WriteInv, CommitInv

\* A request that ends without any of it.
LEMMA CalmEnd ==
  ASSUME EditInv, NEW t \in Request, Edits!Done(t),
         UNCHANGED <<live, lock, index, tip, branch, overtaken, contested>>,
         snaps \subseteq snaps', proposals \subseteq proposals', intents \subseteq intents',
         snaps' \subseteq Edits!Snapshot, proposals' \subseteq Edits!Proposal, intents' \subseteq proposals',
         asked' \in 0..MaxAsked, moves' \in 0..MaxMoves
  PROVE  EditInv'
<1>1. hand' = [hand EXCEPT ![t] = Edits!NoHand] /\ hand'[t] = Edits!NoHand
  BY DEF Edits!Done, Edits!Set, EditInv, EditTypes, HandTypes
<1>2. HandOK(hand[t])' /\ WriteOK(hand[t])' /\ CommitOK(t)'
  BY <1>1, NoHandOK DEF HandOK, StageOK, WriteOK, Writing, CommitOK
<1> QED
  BY <1>1, <1>2, NoHandOK, CalmStep

-----------------------------------------------------------------------------
(* CodeEdits: the steps that write no file.                                 *)

LEMMA SnapKeeps ==
  ASSUME EditInv, Edits!CodeEditsAssumption, NEW t \in Request, Edits!Snap(t) PROVE EditInv'
<1>1. /\ EditTypes /\ CheckoutTypes /\ TableTypes /\ HandOK(hand[t]) /\ WriteOK(hand[t])
      /\ UNCHANGED <<live, index, tip, branch, lock, proposals, intents, contested,
                     overtaken, asked, moves>>
  BY DEF EditInv, EditTypes, HandTypes, WriteInv, Edits!Snap, Edits!git, Edits!counts
<1>2. hand[t].op \in {"propose", "apply", "restore"} /\ hand[t].pc \in {"pre", "post"}
  BY <1>1 DEF Edits!Snap, Edits!At, HandOK, StageOK
<1>3. Edits!TheFile(t) \in Name /\ hand[t].files = {Edits!TheFile(t)}
  BY <1>1, <1>2, TheFileIs
<1> DEFINE s == [file |-> Edits!TheFile(t), text |-> live[Edits!TheFile(t)], agent |-> Owner[hand[t].task]]
<1>4. s \in Edits!Snapshot /\ snaps' = snaps \cup {s} /\ s.file = Edits!TheFile(t) /\ s.text = live[Edits!TheFile(t)]
  BY <1>1, <1>2, <1>3 DEF Edits!Snap, Edits!Snapshot, CheckoutTypes, HandOK,
     Edits!CodeEditsAssumption
<1> HIDE DEF s
<1>5. /\ snaps \subseteq snaps' /\ snaps' \subseteq Edits!Snapshot
      /\ proposals \subseteq Edits!Proposal
      /\ intents \subseteq proposals /\ asked \in 0..MaxAsked /\ moves \in 0..MaxMoves
  BY <1>1, <1>4 DEF TableTypes
<1>6. CASE Edits!Done(t)
  BY <1>1, <1>5, <1>6, CalmEnd
<1>7. ASSUME NEW pc \in {"save", "announce", "replace"}, Edits!Go(t, pc), hand[t].pc = "pre",
             /\ pc = "save" => hand[t].op = "propose"
             /\ pc = "announce" => hand[t].op = "apply"
             /\ pc = "replace" => hand[t].op = "restore"
      PROVE  EditInv'
  <2>1. PICK h \in Edits!Hand :
           /\ hand' = [hand EXCEPT ![t] = h] /\ hand'[t] = h /\ h.pc = pc
           /\ h.op = hand[t].op /\ h.task = hand[t].task /\ h.files = hand[t].files
           /\ h.text = hand[t].text /\ h.change = hand[t].change /\ h.on = hand[t].on
    BY <1>1, <1>7, GoHand
  <2>2. HandOK(hand[t])'
    BY <1>1, <1>7, <2>1 DEF HandOK, StageOK
  <2>3. WriteOK(hand[t])'
    BY <1>1, <1>3, <1>4, <1>7, <2>1 DEF WriteOK, Writing
  <2>4. CommitOK(t)'
    BY <1>2, <2>1 DEF CommitOK
  <2> QED
    BY <1>1, <1>5, <2>1, <2>2, <2>3, <2>4, CalmStep DEF Writing
<1> QED
  BY <1>6, <1>7 DEF Edits!Snap, Edits!At
\* A request comes in that writes no file.
LEMMA AskKeepsCalm ==
  ASSUME EditInv, Edits!CodeEditsAssumption, NEW t \in Request, NEW h, Edits!Ask(t, h),
         ~Writing(h),
         HandOK(h), h.pc \notin {"add", "look", "commit"}, h.op = "commit" => branch = h.on \/ t \in overtaken,
         UNCHANGED <<live, Edits!git, Edits!tables, contested, overtaken, moves>>
  PROVE  EditInv'
<1>1. /\ hand' = [hand EXCEPT ![t] = h] /\ hand'[t] = h /\ asked' \in 0..MaxAsked
      /\ moves \in 0..MaxMoves
  BY DEF Edits!Ask, Edits!Set, EditInv, EditTypes, HandTypes, TableTypes,
     Edits!CodeEditsAssumption
<1>2. /\ UNCHANGED <<live, index, tip, branch, lock, snaps, proposals, intents, contested,
                     overtaken, moves>>
      /\ snaps \subseteq Edits!Snapshot /\ proposals \subseteq Edits!Proposal
      /\ intents \subseteq proposals
  BY DEF Edits!git, Edits!tables, EditInv, EditTypes, TableTypes
<1>3. HandOK(hand[t])' /\ WriteOK(hand[t])' /\ CommitOK(t)'
  BY <1>1, <1>2 DEF HandOK, WriteOK, Writing, CommitOK
<1> QED
  BY <1>1, <1>2, <1>3, CalmStep

LEMMA AsksKeep ==
  ASSUME EditInv, Edits!CodeEditsAssumption, NEW t \in Request,
         Edits!ProposeRead(t) \/ Edits!Ship(t) \/ Edits!BranchLook(t)
  PROVE  EditInv'
<1>0. CheckoutTypes /\ Edits!NoHand \in Edits!Hand
  BY NoHandOK DEF EditInv, EditTypes, HandOK
<1>1. CASE Edits!ProposeRead(t)
  <2>1. PICK k \in Task, f \in Name, x \in Text :
          Edits!Ask(t, [Edits!NoHand EXCEPT !.op = "propose", !.pc = "pre", !.task = k, !.files = {f},
                  !.change = [file |-> f, base |-> live[f], text |-> x, agent |-> Owner[k]]])
    BY <1>1 DEF Edits!ProposeRead
  <2>2. PICK c \in Edits!Proposal :
          c = [file |-> f, base |-> live[f], text |-> x, agent |-> Owner[k]] /\ c.file = f
    <3>1. live[f] \in Text /\ Owner[k] \in Actor
      BY <1>0 DEF CheckoutTypes, Edits!CodeEditsAssumption
    <3>2. [file |-> f, base |-> live[f], text |-> x, agent |-> Owner[k]] \in Edits!Proposal
      BY <3>1 DEF Edits!Proposal
    <3> QED
      BY <3>2
  <2> DEFINE h == [Edits!NoHand EXCEPT !.op = "propose", !.pc = "pre", !.task = k, !.files = {f},
                   !.change = c]
  <2>3. /\ HandOK(h) /\ ~Writing(h) /\ h.op = "propose" /\ h.pc = "pre"
    BY <1>0, <2>2 DEF HandOK, StageOK, Edits!Hand, Writing
  <2>4. Edits!Ask(t, h)
    BY <2>1, <2>2
  <2> HIDE DEF h
  <2>5. UNCHANGED <<live, Edits!git, Edits!tables, contested, overtaken, moves>>
    BY <1>1 DEF Edits!ProposeRead
  <2> QED
    BY <2>3, <2>4, <2>5, AskKeepsCalm
<1>2. CASE Edits!Ship(t)
  <2>1. PICK what \in {"stage", "commit"}, k \in Task, F \in SUBSET Name :
          /\ what = "commit" => branch \in Shipping
          /\ Edits!Ask(t, [Edits!NoHand EXCEPT !.op = what, !.pc = "check", !.task = k, !.files = F,
                     !.on = branch])
    BY <1>2 DEF Edits!Ship
  <2> DEFINE h == [Edits!NoHand EXCEPT !.op = what, !.pc = "check", !.task = k, !.files = F, !.on = branch]
  <2>2. /\ HandOK(h) /\ ~Writing(h) /\ h.pc = "check" /\ h.on = branch
    BY <1>0, <2>1 DEF HandOK, StageOK, Edits!Hand, Writing, CheckoutTypes
  <2>3. Edits!Ask(t, h)
    BY <2>1
  <2> HIDE DEF h
  <2>4. UNCHANGED <<live, Edits!git, Edits!tables, contested, overtaken, moves>>
    BY <1>2 DEF Edits!Ship
  <2> QED
    BY <2>2, <2>3, <2>4, AskKeepsCalm
<1>3. CASE Edits!BranchLook(t)
  <2>1. PICK b \in Shipping, k \in Task :
          Edits!Ask(t, [Edits!NoHand EXCEPT !.op = "branch", !.pc = "switch", !.task = k, !.on = b])
    BY <1>3 DEF Edits!BranchLook
  <2> DEFINE h == [Edits!NoHand EXCEPT !.op = "branch", !.pc = "switch", !.task = k, !.on = b]
  <2>2. /\ HandOK(h) /\ ~Writing(h) /\ h.pc = "switch" /\ h.op = "branch"
    BY <1>0, <2>1 DEF HandOK, StageOK, Edits!Hand, Writing, Edits!Branch
  <2>3. Edits!Ask(t, h)
    BY <2>1
  <2> HIDE DEF h
  <2>4. UNCHANGED <<live, Edits!git, Edits!tables, contested, overtaken, moves>>
    BY <1>3 DEF Edits!BranchLook
  <2> QED
    BY <2>2, <2>3, <2>4, AskKeepsCalm
<1> QED
  BY <1>1, <1>2, <1>3

LEMMA ProposeSaveKeeps ==
  ASSUME EditInv, Edits!CodeEditsAssumption, NEW t \in Request, Edits!ProposeSave(t)
  PROVE  EditInv'
<1>1. /\ HandOK(hand[t]) /\ TableTypes /\ proposals' = proposals \cup {hand[t].change}
      /\ Edits!Done(t)
      /\ hand[t].pc = "save"
      /\ UNCHANGED <<live, index, tip, branch, lock, snaps, intents, contested, overtaken,
                     asked, moves>>
  BY DEF Edits!ProposeSave, Edits!At, Edits!git, Edits!counts, EditInv, EditTypes, HandTypes
<1>2. hand[t].change \in Edits!Proposal
  BY <1>1 DEF HandOK, StageOK
<1> QED
  BY <1>1, <1>2, CalmEnd DEF TableTypes

LEMMA ApplyLockKeeps ==
  ASSUME EditInv, Edits!CodeEditsAssumption, NEW t \in Request, Edits!ApplyLock(t) PROVE EditInv'
<1>1. /\ EditTypes /\ TableTypes /\ HandOK(hand[t]) /\ WriteOK(hand[t]) /\ hand[t].pc = "lock"
      /\ UNCHANGED <<live, index, tip, branch, lock, snaps, proposals, intents, contested,
                     overtaken, asked, moves>>
  BY DEF EditInv, EditTypes, HandTypes, WriteInv, Edits!ApplyLock, Edits!At, Edits!git,
     Edits!tables, Edits!counts
<1>2. hand[t].op = "apply"
  BY <1>1 DEF HandOK, StageOK
<1>3. CASE Edits!Done(t)
  BY <1>1, <1>3, CalmEnd DEF TableTypes
<1>4. CASE Edits!HoldsLock(hand[t].task, Edits!TheFile(t)) /\ Edits!Go(t, "pre")
  <2>1. Edits!TheFile(t) \in Name /\ hand[t].files = {Edits!TheFile(t)}
    BY <1>1, <1>2, TheFileIs
  <2>2. PICK h \in Edits!Hand :
           /\ hand' = [hand EXCEPT ![t] = h] /\ hand'[t] = h /\ h.pc = "pre"
           /\ h.op = hand[t].op /\ h.task = hand[t].task /\ h.files = hand[t].files
           /\ h.text = hand[t].text /\ h.change = hand[t].change /\ h.on = hand[t].on
    BY <1>1, <1>4, GoHand
  <2>3. HandOK(hand[t])'
    BY <1>1, <1>2, <2>2 DEF HandOK, StageOK
  <2>4. WriteOK(hand[t])'
    BY <1>1, <1>2, <1>4, <2>1, <2>2 DEF WriteOK, Writing, Edits!HoldsLock
  <2>5. CommitOK(t)'
    BY <1>2, <2>2 DEF CommitOK
  <2> QED
    BY <1>1, <2>2, <2>3, <2>4, <2>5, CalmStep DEF Writing, TableTypes
<1> QED
  BY <1>3, <1>4 DEF Edits!ApplyLock

LEMMA AnnounceKeeps ==
  ASSUME EditInv, Edits!CodeEditsAssumption, NEW t \in Request, Edits!Announce(t) PROVE EditInv'
<1>1. /\ EditTypes /\ TableTypes /\ HandOK(hand[t]) /\ WriteOK(hand[t]) /\ hand[t].pc = "announce"
      /\ Edits!Go(t, "replace") /\ intents' = intents \cup {hand[t].change}
      /\ UNCHANGED <<live, index, tip, branch, lock, snaps, proposals, contested, overtaken,
                     asked, moves>>
  BY DEF EditInv, EditTypes, HandTypes, WriteInv, Edits!Announce, Edits!At, Edits!git,
     Edits!counts
<1>2. hand[t].op = "apply" /\ hand[t].change \in proposals
  BY <1>1 DEF HandOK, StageOK
<1>3. PICK h \in Edits!Hand :
         /\ hand' = [hand EXCEPT ![t] = h] /\ hand'[t] = h /\ h.pc = "replace"
         /\ h.op = hand[t].op /\ h.task = hand[t].task /\ h.files = hand[t].files
         /\ h.text = hand[t].text /\ h.change = hand[t].change /\ h.on = hand[t].on
  BY <1>1, GoHand
<1>4. HandOK(hand[t])'
  BY <1>1, <1>2, <1>3 DEF HandOK, StageOK
<1>5. WriteOK(hand[t])'
  BY <1>1, <1>2, <1>3 DEF WriteOK, Writing
<1>6. CommitOK(t)'
  BY <1>2, <1>3 DEF CommitOK
<1> QED
  BY <1>1, <1>2, <1>3, <1>4, <1>5, <1>6, CalmStep DEF Writing, TableTypes

LEMMA VerifyKeeps ==
  ASSUME EditInv, Edits!CodeEditsAssumption, NEW t \in Request, Edits!Verify(t) PROVE EditInv'
<1>1. /\ EditTypes /\ TableTypes /\ HandOK(hand[t]) /\ WriteOK(hand[t]) /\ hand[t].pc = "verify"
      /\ UNCHANGED <<live, index, tip, branch, lock, snaps, proposals, intents, contested,
                     overtaken, asked, moves>>
  BY DEF EditInv, EditTypes, HandTypes, WriteInv, Edits!Verify, Edits!At, Edits!git,
     Edits!tables, Edits!counts
<1>2. hand[t].op = "apply"
  BY <1>1 DEF HandOK, StageOK
<1>3. Edits!TheFile(t) \in Name /\ hand[t].files = {Edits!TheFile(t)}
  BY <1>1, <1>2, TheFileIs
<1>4. PICK pc \in {"post", "rollback"} :
        Edits!Go(t, pc) /\ (pc = "rollback" => live[Edits!TheFile(t)] # hand[t].change.text)
  BY DEF Edits!Verify
<1>5. PICK h \in Edits!Hand :
         /\ hand' = [hand EXCEPT ![t] = h] /\ hand'[t] = h /\ h.pc = pc
         /\ h.op = hand[t].op /\ h.task = hand[t].task /\ h.files = hand[t].files
         /\ h.text = hand[t].text /\ h.change = hand[t].change /\ h.on = hand[t].on
  BY <1>1, <1>4, GoHand
<1>6. HandOK(hand[t])'
  BY <1>1, <1>2, <1>5 DEF HandOK, StageOK
<1>7. WriteOK(hand[t])'
  BY <1>1, <1>2, <1>3, <1>4, <1>5 DEF WriteOK, Writing
<1>8. CommitOK(t)'
  BY <1>2, <1>5 DEF CommitOK
<1> QED
  BY <1>1, <1>5, <1>6, <1>7, <1>8, CalmStep DEF Writing, TableTypes

LEMMA ChecksKeepEdits ==
  ASSUME EditInv, Edits!CodeEditsAssumption, NEW t \in Request, Edits!Check(t) \/ Edits!Look(t)
  PROVE  EditInv'
<1>1. /\ EditTypes /\ TableTypes /\ HandOK(hand[t]) /\ CommitOK(t)
      /\ hand[t].pc \in {"check", "look"}
      /\ UNCHANGED <<live, index, tip, branch, lock, snaps, proposals, intents, contested,
                     overtaken, asked, moves>>
  BY DEF EditInv, EditTypes, HandTypes, CommitInv, Edits!Check, Edits!Look, Edits!At,
     Edits!git, Edits!tables, Edits!counts
<1>2. hand[t].op \in {"stage", "commit"} /\ (hand[t].pc = "look" => hand[t].op = "commit")
  BY <1>1 DEF HandOK, StageOK
<1>3. CASE Edits!Done(t)
  BY <1>1, <1>3, CalmEnd DEF TableTypes
<1>4. ASSUME NEW pc \in {"add", "commit"}, Edits!Go(t, pc),
             pc = "add" => /\ hand[t].pc = "check"
                           /\ \A f \in hand[t].files :
                                \E s \in snaps : s.file = f /\ s.agent = Owner[hand[t].task],
             pc = "commit" => hand[t].pc = "look" /\ Edits!Staged \subseteq hand[t].files
      PROVE  EditInv'
  <2>1. PICK h \in Edits!Hand :
           /\ hand' = [hand EXCEPT ![t] = h] /\ hand'[t] = h /\ h.pc = pc
           /\ h.op = hand[t].op /\ h.task = hand[t].task /\ h.files = hand[t].files
           /\ h.text = hand[t].text /\ h.change = hand[t].change /\ h.on = hand[t].on
    BY <1>1, <1>4, GoHand
  <2>2. HandOK(hand[t])' /\ WriteOK(hand[t])'
    BY <1>1, <1>2, <1>4, <2>1 DEF HandOK, StageOK, WriteOK, Writing
  <2>3. CommitOK(t)'
    BY <1>1, <1>2, <1>4, <2>1, SameStaged DEF CommitOK
  <2> QED
    BY <1>1, <1>2, <2>1, <2>2, <2>3, CalmStep DEF Writing, TableTypes
<1> QED
  BY <1>3, <1>4 DEF Edits!Check, Edits!Look, Edits!At
-----------------------------------------------------------------------------
(* CodeEdits: requests that will write, and their writes.                   *)

\* One that comes in is not alone with its file where its task already writes it.
LEMMA WriterComes ==
  ASSUME EditInv, Edits!CodeEditsAssumption, NEW t \in Request, NEW h, NEW f \in Name,
         NEW k \in Task,
         Edits!Ask(t, h), HandOK(h), Writing(h), h.files = {f}, h.task = k, h.op # "commit",
         contested' = contested \cup (IF Edits!WritersOf(f, {k}) = {} THEN {} ELSE {f}),
         f \notin contested => WriteOK(h),
         UNCHANGED <<live, Edits!git, Edits!tables, overtaken, moves>>
  PROVE  EditInv'
<1>0. hand \in [Request -> Edits!Hand] /\ CheckoutTypes /\ TableTypes /\ HandTypes /\ WriteInv /\ CommitInv
  BY DEF EditInv, EditTypes, HandTypes
<1>1. /\ hand' = [hand EXCEPT ![t] = h] /\ asked' \in 0..MaxAsked /\ hand[t].pc = "idle"
  BY DEF Edits!Ask, Edits!At, Edits!Set, EditInv, EditTypes, HandTypes, TableTypes,
     Edits!CodeEditsAssumption
<1>2. hand'[t] = h /\ \A u \in Request \ {t} : hand'[u] = hand[u]
  BY <1>0, <1>1
<1>3. /\ UNCHANGED <<live, index, tip, branch, lock, snaps, proposals, intents, overtaken, moves>>
      /\ contested \subseteq contested' /\ contested' \subseteq Name
  BY <1>0 DEF Edits!git, Edits!tables, TableTypes
<1>4. EditTypes'
  <2>1. CheckoutTypes' /\ TableTypes'
    BY <1>0, <1>1, <1>3 DEF CheckoutTypes, TableTypes
  <2>2. \A u \in Request : HandOK(hand[u])'
    BY <1>0, <1>2, <1>3 DEF HandTypes, HandOK
  <2>3. hand' \in [Request -> Edits!Hand]
    BY <1>0, <1>1 DEF HandOK
  <2> QED
    BY <2>1, <2>2, <2>3 DEF EditTypes, HandTypes
<1>5. ASSUME NEW u \in Request \ {t}, Writing(hand[u]), f \in hand[u].files, f \notin contested'
      PROVE  hand[u].task # k
  <2>1. Edits!WritersOf(f, {k}) = {}
    BY <1>5
  <2> QED
    BY <1>5, <2>1 DEF Edits!WritersOf, Edits!Writers, Writing
<1>6. Apart'
  <2>1. SUFFICES ASSUME NEW p \in Request, NEW u \in Request, p # u,
                        Writing(hand'[p]), Writing(hand'[u]),
                        NEW g \in (hand'[p].files \cap hand'[u].files) \ contested'
                 PROVE  hand'[p].task # hand'[u].task
    BY DEF Apart, Writing
  <2>2. CASE p # t /\ u # t
    BY <1>0, <1>2, <1>3, <2>1, <2>2 DEF WriteInv, Apart
  <2>3. CASE p = t
    BY <1>2, <1>5, <2>1, <2>3
  <2>4. CASE u = t
    BY <1>2, <1>5, <2>1, <2>4
  <2> QED
    BY <2>2, <2>3, <2>4
<1>7. \A u \in Request \ {t} : WriteOK(hand[u])'
  BY <1>0, <1>2, <1>3, WritePasses DEF WriteInv
<1>8. WriteOK(hand[t])'
  BY <1>2, <1>3 DEF WriteOK, Writing
<1>9. \A u \in Request \ {t} : CommitOK(u)'
  BY <1>0, <1>2, <1>3, CommitPasses, SameStaged DEF CommitInv
<1>10. CommitOK(t)'
  BY <1>2 DEF CommitOK
<1> QED
  BY <1>4, <1>6, <1>7, <1>8, <1>9, <1>10 DEF EditInv, WriteInv, CommitInv

LEMMA ApplyReadKeeps ==
  ASSUME EditInv, Edits!CodeEditsAssumption, NEW t \in Request, Edits!ApplyRead(t) PROVE EditInv'
<1>0. CheckoutTypes /\ Edits!NoHand \in Edits!Hand /\ proposals \subseteq Edits!Proposal
  BY NoHandOK DEF EditInv, EditTypes, HandOK, TableTypes
<1>1. PICK k \in Task, p \in proposals :
        /\ p.agent = Owner[k] /\ p.base = live[p.file]
        /\ Edits!Ask(t, [Edits!NoHand EXCEPT !.op = "apply", !.pc = "lock", !.task = k, !.files = {p.file},
                   !.text = live[p.file], !.change = p])
        /\ contested' = contested \cup (IF Edits!WritersOf(p.file, {k}) = {} THEN {} ELSE {p.file})
        /\ UNCHANGED <<live, Edits!git, Edits!tables, overtaken, moves>>
  BY DEF Edits!ApplyRead
<1> DEFINE h == [Edits!NoHand EXCEPT !.op = "apply", !.pc = "lock", !.task = k, !.files = {p.file},
                               !.text = live[p.file], !.change = p]
<1>2. p \in Edits!Proposal /\ p.file \in Name /\ live[p.file] \in Text
  BY <1>0, <1>1 DEF Edits!Proposal, CheckoutTypes
<1>3. /\ h \in Edits!Hand /\ h.op = "apply" /\ h.pc = "lock" /\ h.task = k /\ h.files = {p.file}
      /\ h.text = live[p.file] /\ h.change = p
  BY <1>0, <1>1, <1>2 DEF Edits!Hand
<1>4. Edits!Ask(t, h)
  BY <1>1
<1> HIDE DEF h
<1>5. HandOK(h) /\ Writing(h) /\ WriteOK(h)
  BY <1>1, <1>2, <1>3 DEF HandOK, StageOK, Writing, WriteOK
<1> QED
  BY <1>1, <1>2, <1>3, <1>4, <1>5, WriterComes

LEMMA RestoreLockKeeps ==
  ASSUME EditInv, Edits!CodeEditsAssumption, NEW t \in Request, Edits!RestoreLock(t)
  PROVE  EditInv'
<1>0. CheckoutTypes /\ Edits!NoHand \in Edits!Hand /\ snaps \subseteq Edits!Snapshot
  BY NoHandOK DEF EditInv, EditTypes, HandOK, TableTypes
<1>1. PICK k \in Task, s \in snaps :
        /\ Edits!HoldsLock(k, s.file)
        /\ Edits!Ask(t, [Edits!NoHand EXCEPT !.op = "restore", !.pc = "pre", !.task = k, !.files = {s.file},
                   !.text = s.text])
        /\ contested' = contested \cup (IF Edits!WritersOf(s.file, {k}) = {} THEN {} ELSE {s.file})
        /\ UNCHANGED <<live, Edits!git, Edits!tables, overtaken, moves>>
  BY DEF Edits!RestoreLock
<1> DEFINE h == [Edits!NoHand EXCEPT !.op = "restore", !.pc = "pre", !.task = k, !.files = {s.file},
                               !.text = s.text]
<1>2. s.file \in Name /\ s.text \in Text
  BY <1>0, <1>1 DEF Edits!Snapshot
<1>3. /\ h \in Edits!Hand /\ h.op = "restore" /\ h.pc = "pre" /\ h.task = k /\ h.files = {s.file}
      /\ h.text = s.text
  BY <1>0, <1>1, <1>2 DEF Edits!Hand
<1>4. Edits!Ask(t, h)
  BY <1>1
<1> HIDE DEF h
<1>5. HandOK(h) /\ Writing(h) /\ WriteOK(h)
  BY <1>1, <1>2, <1>3 DEF HandOK, StageOK, Writing, WriteOK, Edits!HoldsLock
<1> QED
  BY <1>1, <1>2, <1>3, <1>4, <1>5, WriterComes

\* A write: the file's new text, or, where nobody disturbs, none by another task.
LEMMA WriteKeeps ==
  ASSUME EditInv, Edits!CodeEditsAssumption, NEW t \in Request, NEW h, NEW x \in Text,
         Writing(hand[t]), hand[t].pc # "lock",
         live' = [live EXCEPT ![Edits!TheFile(t)] = x],
         UNCHANGED <<Edits!git, Edits!tables, contested, overtaken, Edits!counts>>,
         hand' = [hand EXCEPT ![t] = h], HandOK(h), WriteOK(hand[t])', h.op # "commit",
         Writing(h) => h.files = hand[t].files /\ h.task = hand[t].task
  PROVE  EditInv'
<1>0. /\ hand \in [Request -> Edits!Hand] /\ CheckoutTypes /\ TableTypes /\ HandTypes
      /\ WriteInv /\ CommitInv
      /\ EditTypes
  BY DEF EditInv, EditTypes, HandTypes
<1>1. Edits!TheFile(t) \in Name /\ hand[t].files = {Edits!TheFile(t)}
  BY <1>0, TheFileIs DEF Writing
<1>2. hand'[t] = h /\ \A u \in Request \ {t} : hand'[u] = hand[u]
  BY <1>0
<1>3. UNCHANGED <<index, tip, branch, lock, snaps, proposals, intents, contested, overtaken,
                  asked, moves>>
  BY DEF Edits!git, Edits!tables, Edits!counts
<1>4. live' \in [Name -> Text] /\ \A f \in Name \ {Edits!TheFile(t)} : live'[f] = live[f]
  BY <1>0, <1>1 DEF CheckoutTypes
<1>5. EditTypes'
  <2>1. CheckoutTypes' /\ TableTypes'
    BY <1>0, <1>3, <1>4 DEF CheckoutTypes, TableTypes
  <2>2. \A u \in Request : HandOK(hand[u])'
    BY <1>0, <1>2, <1>3 DEF HandTypes, HandOK
  <2>3. hand' \in [Request -> Edits!Hand]
    BY <1>0 DEF HandOK
  <2> QED
    BY <2>1, <2>2, <2>3 DEF EditTypes, HandTypes
<1>6. Apart'
  BY <1>0, <1>2, <1>3 DEF WriteInv, Apart
<1>7. ASSUME NEW u \in Request \ {t} PROVE WriteOK(hand[u])'
  <2>1. ASSUME Writing(hand[u]), NEW f \in hand[u].files \ contested, lock[f].task = hand[u].task
        PROVE  live'[f] = live[f]
    <3>1. CASE f = Edits!TheFile(t)
      <4>1. lock[f].task = hand[t].task
        BY <1>0, <1>1, <2>1, <3>1 DEF WriteInv, WriteOK
      <4>2. hand[t].task # hand[u].task
        BY <1>0, <1>1, <2>1, <3>1 DEF WriteInv, Apart
      <4> QED
        BY <2>1, <4>1, <4>2
    <3>2. CASE f # Edits!TheFile(t)
      <4>1. f \in Name
        BY <1>0, <1>7, <2>1 DEF HandTypes, Edits!Hand
      <4> QED
        BY <1>4, <3>2, <4>1
    <3> QED
      BY <3>1, <3>2
  <2> QED
    BY <1>0, <1>2, <1>3, <2>1, WritePasses DEF WriteInv
<1>8. \A u \in Request \ {t} : CommitOK(u)'
  BY <1>0, <1>2, <1>3, CommitPasses, SameStaged DEF CommitInv
<1>9. CommitOK(t)'
  BY <1>2 DEF CommitOK
<1> QED
  BY <1>5, <1>6, <1>7, <1>8, <1>9 DEF EditInv, WriteInv, CommitInv

LEMMA WritesKeep ==
  ASSUME EditInv, Edits!CodeEditsAssumption, NEW t \in Request,
         Edits!ApplyReplace(t) \/ Edits!Rollback(t) \/ Edits!RestoreReplace(t)
  PROVE  EditInv'
<1>1. EditTypes /\ HandOK(hand[t]) /\ hand \in [Request -> Edits!Hand]
  BY DEF EditInv, EditTypes, HandTypes
<1>2. CASE Edits!ApplyReplace(t)
  <2>1. /\ hand[t].pc = "replace" /\ hand[t].op = "apply" /\ Edits!Go(t, "verify")
        /\ live' = [live EXCEPT ![Edits!TheFile(t)] = hand[t].change.text]
        /\ UNCHANGED <<Edits!git, Edits!tables, contested, overtaken, Edits!counts>>
    BY <1>2 DEF Edits!ApplyReplace, Edits!At
  <2>2. PICK h \in Edits!Hand :
           /\ hand' = [hand EXCEPT ![t] = h] /\ hand'[t] = h /\ h.pc = "verify"
           /\ h.op = hand[t].op /\ h.task = hand[t].task /\ h.files = hand[t].files
           /\ h.text = hand[t].text /\ h.change = hand[t].change /\ h.on = hand[t].on
    BY <1>1, <2>1, GoHand
  <2>3. hand[t].change.text \in Text /\ HandOK(h)
    BY <1>1, <2>1, <2>2 DEF HandOK, StageOK, Edits!Proposal
  <2>4. Edits!TheFile(t) \in Name /\ hand[t].files = {Edits!TheFile(t)} /\ live'[Edits!TheFile(t)] = hand[t].change.text
    BY <1>1, <2>1, TheFileIs DEF EditTypes, CheckoutTypes
  <2>5. WriteOK(hand[t])'
    <3>1. WriteOK(hand[t])
      BY DEF EditInv, WriteInv
    <3> QED
      BY <2>1, <2>2, <2>4, <3>1 DEF WriteOK, Writing, Edits!tables
  <2> QED
    BY <2>1, <2>2, <2>3, <2>5, WriteKeeps DEF Writing
<1>3. CASE Edits!Rollback(t) \/ Edits!RestoreReplace(t)
  <2>1. /\ hand[t].pc \in {"rollback", "replace"} /\ Edits!Done(t) /\ Writing(hand[t])
        /\ live' = [live EXCEPT ![Edits!TheFile(t)] = hand[t].text] /\ hand[t].text \in Text
        /\ UNCHANGED <<Edits!git, Edits!tables, contested, overtaken, Edits!counts>>
    BY <1>1, <1>3 DEF Edits!Rollback, Edits!RestoreReplace, Edits!At, HandOK, StageOK, Writing
  <2>2. hand' = [hand EXCEPT ![t] = Edits!NoHand] /\ hand'[t] = Edits!NoHand
    BY <1>1, <2>1 DEF Edits!Done, Edits!Set
  <2>3. WriteOK(hand[t])'
    BY <2>2, NoHandOK DEF WriteOK, Writing
  <2> QED
    BY <2>1, <2>2, <2>3, NoHandOK, WriteKeeps
<1> QED
  BY <1>2, <1>3

-----------------------------------------------------------------------------
(* CodeEdits: git, which may overtake a commit.                             *)

LEMMA GitStep ==
  ASSUME EditInv, NEW t \in Request, NEW h, hand' = [hand EXCEPT ![t] = h],
         HandOK(h), ~Writing(h), CheckoutTypes', overtaken' \subseteq Request,
         UNCHANGED <<live, Edits!tables, contested, Edits!counts>>,
         \A u \in Request : CommitOK(u)'
  PROVE  EditInv'
<1>0. /\ hand \in [Request -> Edits!Hand] /\ TableTypes /\ HandTypes /\ WriteInv
  BY DEF EditInv, EditTypes, HandTypes
<1>1. hand'[t] = h /\ \A u \in Request \ {t} : hand'[u] = hand[u]
  BY <1>0
<1>2. UNCHANGED <<live, lock, snaps, proposals, intents, contested, asked, moves>>
  BY DEF Edits!tables, Edits!counts
<1>3. EditTypes'
  <2>1. TableTypes'
    BY <1>0, <1>2 DEF TableTypes
  <2>2. \A u \in Request : HandOK(hand[u])'
    BY <1>0, <1>1, <1>2 DEF HandTypes, HandOK
  <2>3. hand' \in [Request -> Edits!Hand]
    BY <1>0 DEF HandOK
  <2> QED
    BY <2>1, <2>2, <2>3 DEF EditTypes, HandTypes
<1>4. Apart'
  BY <1>0, <1>1, <1>2 DEF WriteInv, Apart
<1>5. \A u \in Request \ {t} : WriteOK(hand[u])'
  BY <1>0, <1>1, <1>2, WritePasses DEF WriteInv
<1>6. WriteOK(hand[t])'
  BY <1>1 DEF WriteOK, Writing
<1> QED
  BY <1>3, <1>4, <1>5, <1>6 DEF EditInv, WriteInv, CommitInv

LEMMA AddKeeps ==
  ASSUME EditInv, Edits!CodeEditsAssumption, NEW t \in Request, Edits!Add(t) PROVE EditInv'
<1>1. /\ EditTypes /\ CheckoutTypes /\ TableTypes /\ HandOK(hand[t]) /\ CommitInv
      /\ hand \in [Request -> Edits!Hand] /\ hand[t].pc = "add"
      /\ UNCHANGED <<live, tip, branch, Edits!tables, contested, Edits!counts>>
      /\ overtaken' = overtaken \cup {u \in Request : hand[u].pc = "commit"}
  BY DEF EditInv, EditTypes, HandTypes, Edits!Add, Edits!At
<1>2. hand[t].op \in {"stage", "commit"} /\ UNCHANGED snaps
  BY <1>1 DEF HandOK, StageOK, Edits!tables
<1>3. CheckoutTypes' /\ overtaken' \subseteq Request
  <2>1. index' \in [Name -> Text]
    BY <1>1 DEF Edits!Add, CheckoutTypes
  <2> QED
    BY <1>1, <2>1 DEF CheckoutTypes, TableTypes
<1>4. ASSUME NEW u \in Request \ {t}, hand'[u] = hand[u] PROVE CommitOK(u)'
  BY <1>1, <1>2, <1>4, CommitPasses DEF CommitInv
<1>5. CASE Edits!Done(t)
  <2>1. hand' = [hand EXCEPT ![t] = Edits!NoHand]
    BY <1>5 DEF Edits!Done, Edits!Set
  <2>2. CommitOK(t)'
    BY <1>1, <2>1, NoHandOK DEF CommitOK
  <2>3. \A u \in Request \ {t} : CommitOK(u)'
    BY <1>1, <1>4, <2>1
  <2> QED
    BY <1>1, <1>3, <2>1, <2>2, <2>3, NoHandOK, GitStep
<1>6. CASE Edits!Go(t, "look") /\ hand[t].op = "commit"
  <2>1. PICK h \in Edits!Hand :
           /\ hand' = [hand EXCEPT ![t] = h] /\ hand'[t] = h /\ h.pc = "look"
           /\ h.op = hand[t].op /\ h.task = hand[t].task /\ h.files = hand[t].files
           /\ h.text = hand[t].text /\ h.change = hand[t].change /\ h.on = hand[t].on
    BY <1>1, <1>6, GoHand
  <2>2. HandOK(h) /\ ~Writing(h)
    BY <1>1, <1>6, <2>1 DEF HandOK, StageOK, Writing
  <2>3. CommitOK(t)'
    BY <1>1, <1>2, <1>6, <2>1 DEF CommitInv, CommitOK
  <2>4. \A u \in Request \ {t} : CommitOK(u)'
    BY <1>1, <1>4, <2>1
  <2> QED
    BY <1>1, <1>3, <2>1, <2>2, <2>3, <2>4, GitStep
<1> QED
  BY <1>2, <1>5, <1>6 DEF Edits!Add

LEMMA CommitKeeps ==
  ASSUME EditInv, Edits!CodeEditsAssumption, NEW t \in Request, Edits!Commit(t) PROVE EditInv'
<1>1. /\ CheckoutTypes /\ TableTypes /\ CommitInv /\ hand \in [Request -> Edits!Hand]
      /\ hand' = [hand EXCEPT ![t] = Edits!NoHand] /\ overtaken' = overtaken \ {t}
      /\ UNCHANGED <<live, index, branch, Edits!tables, contested, Edits!counts>>
      /\ UNCHANGED snaps
  BY DEF EditInv, EditTypes, HandTypes, Edits!Commit, Edits!Done, Edits!Set, Edits!tables
<1>2. CheckoutTypes' /\ Edits!Staged' \subseteq Edits!Staged
  <2>1. CASE tip' = tip
    BY <1>1, <2>1, SameStaged DEF CheckoutTypes
  <2>2. CASE tip' = [tip EXCEPT ![branch] = index]
    <3>1. tip'[branch] = index /\ index # None /\ tip' \in [Edits!Branch -> [Name -> Text] \cup {None}]
      BY <1>1, <2>2 DEF CheckoutTypes, Edits!CodeEditsAssumption
    <3>2. Edits!Staged' = {}
      BY <1>1, <3>1 DEF Edits!Staged
    <3> QED
      BY <1>1, <3>1, <3>2 DEF CheckoutTypes
  <2> QED
    BY <2>1, <2>2 DEF Edits!Commit
<1>3. CommitOK(t)'
  BY <1>1, NoHandOK DEF CommitOK
<1>4. \A u \in Request \ {t} : CommitOK(u)'
  BY <1>1, <1>2, CommitPasses DEF CommitInv
<1>5. overtaken' \subseteq Request
  BY <1>1 DEF TableTypes
<1> QED
  BY <1>1, <1>2, <1>3, <1>4, <1>5, NoHandOK, GitStep

LEMMA SwitchKeeps ==
  ASSUME EditInv, Edits!CodeEditsAssumption, NEW t \in Request, Edits!Switch(t) PROVE EditInv'
<1>1. /\ CheckoutTypes /\ TableTypes /\ CommitInv /\ hand \in [Request -> Edits!Hand]
      /\ hand' = [hand EXCEPT ![t] = Edits!NoHand] /\ Edits!Done(t) /\ HandOK(hand[t])
      /\ hand[t].pc = "switch"
      /\ UNCHANGED <<live, index, Edits!tables, contested, Edits!counts>>
      /\ UNCHANGED <<lock, snaps, proposals, intents, asked, moves>>
  BY DEF EditInv, EditTypes, HandTypes, Edits!Switch, Edits!At, Edits!Done, Edits!Set,
     Edits!tables, Edits!counts
<1>2. CASE UNCHANGED <<branch, tip, overtaken>>
  BY <1>1, <1>2, CalmEnd DEF TableTypes
<1>3. CASE /\ branch' = hand[t].on /\ tip' = [tip EXCEPT ![hand[t].on] = tip[branch]]
           /\ overtaken' = overtaken \cup {u \in Request : hand[u].op = "commit"}
  <2>1. hand[t].on \in Edits!Branch
    BY <1>1 DEF HandOK, StageOK, Edits!Branch
  <2>2. CheckoutTypes' /\ overtaken' \subseteq Request
    BY <1>1, <1>3, <2>1 DEF CheckoutTypes, TableTypes
  <2>3. CommitOK(t)'
    BY <1>1, NoHandOK DEF CommitOK
  <2>4. \A u \in Request \ {t} : CommitOK(u)'
    BY <1>1, <1>3, CommitPasses DEF CommitInv
  <2> QED
    BY <1>1, <2>2, <2>3, <2>4, NoHandOK, GitStep
<1> QED
  BY <1>2, <1>3 DEF Edits!Switch

-----------------------------------------------------------------------------
(* CodeEdits: the lock server, people, a restart; the invariant.            *)

\* A step that no request takes.
LEMMA OutsideStep ==
  ASSUME EditInv, UNCHANGED <<Edits!git, proposals, intents, hand, overtaken>>,
         live' \in [Name -> Text], lock' \in [Name -> Edits!Lock],
         snaps \subseteq snaps', snaps' \subseteq Edits!Snapshot,
         contested \subseteq contested', contested' \subseteq Name,
         asked' \in 0..MaxAsked, moves' \in 0..MaxMoves,
         \A u \in Request : Writing(hand[u]) => \A f \in hand[u].files \ contested' :
           /\ hand[u].pc # "lock" => lock'[f].task = lock[f].task
           /\ lock'[f].task = hand[u].task => lock[f].task = hand[u].task /\ live'[f] = live[f]
  PROVE  EditInv'
<1>0. CheckoutTypes /\ TableTypes /\ HandTypes /\ WriteInv /\ CommitInv
  BY DEF EditInv, EditTypes
<1>1. UNCHANGED <<index, tip, branch, proposals, intents, hand, overtaken>>
  BY DEF Edits!git
<1>2. EditTypes'
  <2>1. CheckoutTypes' /\ TableTypes'
    BY <1>0, <1>1 DEF CheckoutTypes, TableTypes
  <2>2. HandTypes'
    BY <1>0, <1>1 DEF HandTypes, HandOK
  <2> QED
    BY <2>1, <2>2 DEF EditTypes
<1>3. Apart'
  BY <1>0, <1>1 DEF WriteInv, Apart
<1>4. \A u \in Request : WriteOK(hand[u])'
  BY <1>0, <1>1, WritePasses DEF WriteInv
<1>5. \A u \in Request : CommitOK(u)'
  BY <1>0, <1>1, CommitPasses, SameStaged DEF CommitInv
<1> QED
  BY <1>2, <1>3, <1>4, <1>5 DEF EditInv, WriteInv, CommitInv

LEMMA SnapshotRouteKeeps ==
  ASSUME EditInv, Edits!CodeEditsAssumption, Edits!SnapshotRoute PROVE EditInv'
<1>1. PICK f \in Name, a \in Actor : snaps' = snaps \cup {[file |-> f, text |-> live[f], agent |-> a]}
  BY DEF Edits!SnapshotRoute
<1>2. /\ CheckoutTypes /\ TableTypes
      /\ UNCHANGED <<Edits!git, proposals, intents, hand, overtaken>>
      /\ UNCHANGED <<live, lock, contested, moves>> /\ asked < MaxAsked /\ asked' = asked + 1
  BY DEF Edits!SnapshotRoute, EditInv, EditTypes
<1>3. [file |-> f, text |-> live[f], agent |-> a] \in Edits!Snapshot
  BY <1>2 DEF Edits!Snapshot, CheckoutTypes
<1>4. /\ snaps \subseteq snaps' /\ snaps' \subseteq Edits!Snapshot /\ asked' \in 0..MaxAsked
      /\ live' \in [Name -> Text] /\ lock' \in [Name -> Edits!Lock] /\ contested' \subseteq Name
      /\ moves' \in 0..MaxMoves
  BY <1>1, <1>2, <1>3 DEF TableTypes, CheckoutTypes, Edits!CodeEditsAssumption
<1> QED
  BY <1>2, <1>4, OutsideStep

\* What the steps of the lock server and of people have in common.
LEMMA MoveBound ==
  ASSUME EditInv, Edits!CodeEditsAssumption, Edits!Move
  PROVE  /\ moves' \in 0..MaxMoves /\ asked \in 0..MaxAsked
         /\ live \in [Name -> Text] /\ lock \in [Name -> Edits!Lock]
         /\ snaps \subseteq Edits!Snapshot
         /\ contested \subseteq Name
         /\ \A u \in Request : HandOK(hand[u]) /\ WriteOK(hand[u])
BY DEF Edits!Move, EditInv, EditTypes, CheckoutTypes, TableTypes, HandTypes, WriteInv,
   Edits!CodeEditsAssumption

LEMMA LocksKeep ==
  ASSUME EditInv, Edits!CodeEditsAssumption, NEW k \in Task, NEW f \in Name,
         Edits!Take(k, f) \/ Edits!Release(k, f) \/ Edits!Expire(f)
  PROVE  EditInv'
<1>1. /\ Edits!Move /\ UNCHANGED <<Edits!git, proposals, intents, hand, overtaken>>
      /\ UNCHANGED <<live, snaps, asked>>
  BY DEF Edits!Take, Edits!Release, Edits!Expire
<1>2. /\ moves' \in 0..MaxMoves /\ asked' \in 0..MaxAsked
      /\ live' \in [Name -> Text] /\ lock \in [Name -> Edits!Lock]
      /\ snaps' \subseteq Edits!Snapshot
      /\ contested \subseteq Name /\ \A u \in Request : HandOK(hand[u]) /\ WriteOK(hand[u])
  BY <1>1, MoveBound
<1>3. PICK l \in Edits!Lock :
        /\ lock' = [lock EXCEPT ![f] = l]
        /\ contested \subseteq contested' /\ contested' \subseteq Name
        /\ l.task # lock[f].task =>
             /\ l.task \in {k, None}
             /\ f \in contested' \/ Edits!WritersOf(f, {k, lock[f].task}) = {}
  <2>1. CASE Edits!Take(k, f)
    <3>1. [task |-> k, stale |-> FALSE] \in Edits!Lock
      BY DEF Edits!Lock
    <3> QED
      BY <1>2, <2>1, <3>1 DEF Edits!Take
  <2>2. CASE Edits!Release(k, f)
    <3>1. Edits!Free \in Edits!Lock /\ Edits!Free.task = None
      BY DEF Edits!Free, Edits!Lock
    <3>2. lock[f].task = k /\ {k, lock[f].task} = {k}
      BY <2>2 DEF Edits!Release
    <3> QED
      BY <1>2, <2>2, <3>1, <3>2 DEF Edits!Release
  <2>3. CASE Edits!Expire(f)
    <3>1. [lock[f] EXCEPT !.stale = TRUE] \in Edits!Lock /\ [lock[f] EXCEPT !.stale = TRUE].task = lock[f].task
      BY <1>2 DEF Edits!Lock
    <3>2. lock' = [lock EXCEPT ![f] = [lock[f] EXCEPT !.stale = TRUE]]
      BY <1>2, <2>3 DEF Edits!Expire
    <3> QED
      BY <1>2, <2>3, <3>1, <3>2 DEF Edits!Expire
  <2> QED
    BY <2>1, <2>2, <2>3
<1>4. lock'[f] = l /\ lock' \in [Name -> Edits!Lock] /\ \A g \in Name \ {f} : lock'[g] = lock[g]
  BY <1>2, <1>3
<1>5. ASSUME NEW u \in Request, Writing(hand[u]), NEW g \in hand[u].files \ contested'
      PROVE  /\ hand[u].pc # "lock" => lock'[g].task = lock[g].task
             /\ lock'[g].task = hand[u].task => lock[g].task = hand[u].task
  <2>1. /\ g \in Name /\ hand[u].task \in Task /\ hand[u].task # None
        /\ hand[u].pc # "lock" => lock[g].task = hand[u].task
    BY <1>2, <1>3, <1>5 DEF HandOK, Edits!Hand, Writing, WriteOK, Edits!CodeEditsAssumption
  <2>2. CASE g # f
    BY <1>4, <2>1, <2>2
  <2>3. CASE g = f /\ l.task = lock[f].task
    BY <1>4, <2>3
  <2>4. CASE g = f /\ l.task # lock[f].task
    <3>1. hand[u].task \notin {k, lock[f].task}
      BY <1>3, <1>5, <2>4 DEF Edits!WritersOf, Edits!Writers, Writing
    <3> QED
      BY <1>3, <1>4, <2>1, <2>4, <3>1
  <2> QED
    BY <2>2, <2>3, <2>4
<1> QED
  BY <1>1, <1>2, <1>3, <1>4, <1>5, OutsideStep

LEMMA PersonEditsKeeps ==
  ASSUME EditInv, Edits!CodeEditsAssumption, NEW f \in Name, NEW x \in Text,
         Edits!PersonEdits(f, x)
  PROVE  EditInv'
<1>1. /\ Edits!Move /\ UNCHANGED <<Edits!git, proposals, intents, hand, overtaken>>
      /\ UNCHANGED <<lock, snaps, asked>> /\ live' = [live EXCEPT ![f] = x]
      /\ contested' = contested \cup (IF Edits!Writers(f) = {} THEN {} ELSE {f})
  BY DEF Edits!PersonEdits, Edits!tables
<1>2. /\ moves' \in 0..MaxMoves /\ asked' \in 0..MaxAsked
      /\ live \in [Name -> Text] /\ lock' \in [Name -> Edits!Lock]
      /\ snaps' \subseteq Edits!Snapshot
      /\ contested \subseteq Name /\ \A u \in Request : HandOK(hand[u]) /\ WriteOK(hand[u])
  BY <1>1, MoveBound
<1>3. /\ live' \in [Name -> Text] /\ \A g \in Name \ {f} : live'[g] = live[g]
      /\ contested \subseteq contested' /\ contested' \subseteq Name
  BY <1>1, <1>2
<1>4. ASSUME NEW u \in Request, Writing(hand[u]), NEW g \in hand[u].files \ contested'
      PROVE  live'[g] = live[g]
  <2>1. g \in Name
    BY <1>2, <1>4 DEF HandOK, Edits!Hand
  <2>2. g # f
    BY <1>1, <1>4 DEF Edits!Writers, Writing
  <2> QED
    BY <1>3, <2>1, <2>2
<1> QED
  BY <1>1, <1>2, <1>3, <1>4, OutsideStep

LEMMA RestartKeepsEdits == ASSUME EditInv, Edits!CodeEditsAssumption, Edits!Restart PROVE EditInv'
<1>1. /\ CheckoutTypes /\ TableTypes /\ moves' \in 0..MaxMoves
      /\ hand' = [t \in Request |-> Edits!NoHand] /\ overtaken' = {}
      /\ UNCHANGED <<live, index, tip, branch, lock, snaps, proposals, intents, contested, asked>>
  BY MoveBound DEF Edits!Restart, EditInv, EditTypes, Edits!git, Edits!tables
<1>2. \A t \in Request : hand'[t] = Edits!NoHand
  BY <1>1
<1>3. CheckoutTypes' /\ TableTypes'
  BY <1>1 DEF CheckoutTypes, TableTypes
<1>4. HandTypes'
  BY <1>1, <1>2, NoHandOK DEF HandTypes, HandOK
<1>5. WriteInv' /\ CommitInv'
  BY <1>2, NoHandOK DEF WriteInv, Apart, WriteOK, Writing, CommitInv, CommitOK
<1> QED
  BY <1>3, <1>4, <1>5 DEF EditInv, EditTypes

LEMMA EditInvInit == ASSUME Edits!CodeEditsAssumption, Edits!Init PROVE EditInv
<1>1. hand = [t \in Request |-> Edits!NoHand] /\ \A t \in Request : hand[t] = Edits!NoHand
  BY DEF Edits!Init
<1>2. CheckoutTypes
  <2>1. /\ live \in [Name -> Text] /\ branch \in Edits!Branch /\ index \in [Name -> Text]
        /\ tip = [b \in Edits!Branch |-> IF b = branch THEN index ELSE None] /\ index # None
    BY DEF Edits!Init, Edits!CodeEditsAssumption
  <2> QED
    BY <2>1 DEF CheckoutTypes
<1>3. TableTypes
  <2>1. lock \in [Name -> Edits!Lock]
    <3>1. \A k \in Task \cup {None} : [task |-> k, stale |-> FALSE] \in Edits!Lock
      BY DEF Edits!Lock
    <3>2. {[task |-> k, stale |-> FALSE] : k \in Task \cup {None}} \subseteq Edits!Lock
      BY <3>1
    <3> QED
      BY <3>2 DEF Edits!Init
  <2>2. snaps \subseteq Edits!Snapshot
    <3>1. PICK a \in Actor, F \in SUBSET Name :
            snaps = {[file |-> f, text |-> index[f], agent |-> a] : f \in F}
      BY DEF Edits!Init
    <3>2. \A f \in F : [file |-> f, text |-> index[f], agent |-> a] \in Edits!Snapshot
      BY <1>2 DEF Edits!Snapshot, CheckoutTypes
    <3> QED
      BY <3>1, <3>2
  <2>3. proposals \subseteq Edits!Proposal
    BY DEF Edits!Init
  <2> QED
    BY <2>1, <2>2, <2>3 DEF Edits!Init, TableTypes, Edits!CodeEditsAssumption
<1>4. HandTypes
  BY <1>1, NoHandOK DEF HandTypes, HandOK
<1>5. WriteInv /\ CommitInv
  BY <1>1, NoHandOK DEF WriteInv, Apart, WriteOK, Writing, CommitInv, CommitOK
<1> QED
  BY <1>2, <1>3, <1>4, <1>5 DEF EditInv, EditTypes

LEMMA EditInvStep ==
  ASSUME EditInv, Edits!CodeEditsAssumption, [Edits!Next]_Edits!editVars
  PROVE  EditInv'
<1>1. ASSUME NEW t \in Request,
             \/ Edits!Snap(t) \/ Edits!ProposeRead(t) \/ Edits!ProposeSave(t)
             \/ Edits!ApplyRead(t) \/ Edits!ApplyLock(t)
             \/ Edits!Announce(t) \/ Edits!Verify(t) \/ Edits!RestoreLock(t)
      PROVE  EditInv'
  BY <1>1, SnapKeeps, AsksKeep, ProposeSaveKeeps, ApplyReadKeeps, ApplyLockKeeps,
     AnnounceKeeps, VerifyKeeps, RestoreLockKeeps
<1>2. ASSUME NEW t \in Request,
             \/ Edits!ApplyReplace(t) \/ Edits!Rollback(t) \/ Edits!RestoreReplace(t)
             \/ Edits!Ship(t) \/ Edits!Check(t)
             \/ Edits!Add(t) \/ Edits!Look(t) \/ Edits!Commit(t) \/ Edits!BranchLook(t)
             \/ Edits!Switch(t)
      PROVE  EditInv'
  BY <1>2, WritesKeep, AsksKeep, ChecksKeepEdits, AddKeeps, CommitKeeps, SwitchKeeps
<1>3. CASE Edits!SnapshotRoute \/ Edits!Restart
  BY <1>3, SnapshotRouteKeeps, RestartKeepsEdits
<1>4. ASSUME NEW k \in Task, NEW f \in Name, Edits!Take(k, f) \/ Edits!Release(k, f)
      PROVE  EditInv'
  BY <1>4, LocksKeep
<1>5. ASSUME NEW f \in Name, Edits!Expire(f) PROVE EditInv'
  <2>1. lock[f].task \in Task
    BY <1>5 DEF Edits!Expire, EditInv, EditTypes, TableTypes, Edits!Lock
  <2> QED
    BY <1>5, <2>1, LocksKeep
<1>6. ASSUME NEW f \in Name, NEW x \in Text, Edits!PersonEdits(f, x) PROVE EditInv'
  BY <1>6, PersonEditsKeeps
<1>7. CASE UNCHANGED Edits!editVars
  <2>1. /\ UNCHANGED <<Edits!git, proposals, intents, hand, overtaken>>
        /\ UNCHANGED <<live, lock, snaps, contested, asked, moves>> /\ CheckoutTypes /\ TableTypes
    BY <1>7 DEF Edits!editVars, Edits!git, EditInv, EditTypes
  <2> QED
    BY <2>1, OutsideStep DEF CheckoutTypes, TableTypes
<1> QED
  BY <1>1, <1>2, <1>3, <1>4, <1>5, <1>6, <1>7 DEF Edits!Next

\* The inductive invariant of the edits, which also types them.
LEMMA EditInvHolds == ASSUME Edits!CodeEditsAssumption PROVE Edits!Spec => []EditInv
<1>1. Edits!Init => EditInv
  BY EditInvInit
<1>2. EditInv /\ [Edits!Next]_Edits!editVars => EditInv'
  BY EditInvStep
<1> QED
  BY <1>1, <1>2, PTL DEF Edits!Spec

-----------------------------------------------------------------------------
(* CodeEdits: its two action properties.                                    *)

\* Whose hand moves while a file changes is who writes it.
LEMMA TheWriter ==
  ASSUME EditInv, Edits!CodeEditsAssumption, [Edits!Next]_Edits!editVars, NEW t \in Request,
         NEW f \in hand[t].files,
         live'[f] # live[f], hand'[t] # hand[t]
  PROVE  Edits!ApplyReplace(t) \/ Edits!Rollback(t) \/ Edits!RestoreReplace(t)
<1>0. hand \in [Request -> Edits!Hand]
  BY DEF EditInv, EditTypes, HandTypes
<1>1. PICK u \in Request : Edits!ApplyReplace(u) \/ Edits!Rollback(u) \/ Edits!RestoreReplace(u)
  <2>1. live' # live /\ hand' # hand
    OBVIOUS
  <2> QED
    BY <2>1 DEF Edits!Next, Edits!editVars, Edits!Snap, Edits!ProposeRead, Edits!ProposeSave,
       Edits!ApplyRead, Edits!ApplyLock, Edits!Announce, Edits!Verify, Edits!RestoreLock,
       Edits!Ship, Edits!Check, Edits!Add, Edits!Look, Edits!Commit, Edits!BranchLook,
       Edits!Switch, Edits!SnapshotRoute, Edits!Take, Edits!Release, Edits!Expire,
       Edits!PersonEdits, Edits!Restart
<1>2. \A v \in Request \ {u} : hand'[v] = hand[v]
  BY <1>0, <1>1 DEF Edits!ApplyReplace, Edits!Rollback, Edits!RestoreReplace, Edits!Go,
     Edits!Done, Edits!Set
<1> QED
  BY <1>1, <1>2

\* A file is written for the task that has its lock, over a text that a snapshot has,
\* and a proposal over its own base with its event first: see CodeEdits.
LEMMA EditsAreCovered ==
  ASSUME Edits!CodeEditsAssumption
  PROVE  Edits!Spec => Edits!WritesAreCovered
<1>1. ASSUME EditInv, EditInv', [Edits!Next]_Edits!editVars
      PROVE  [\A t \in Request : \A f \in hand[t].files \ contested' :
                live'[f] # live[f] /\ hand'[t] # hand[t] =>
                  /\ lock[f].task = hand[t].task
                  /\ \E s \in snaps : s.file = f /\ s.text = live[f]
                  /\ hand[t].op = "apply" =>
                       live[f] = hand[t].change.base /\ hand[t].change \in intents]_Edits!editVars
  <2>1. SUFFICES ASSUME NEW t \in Request, NEW f \in hand[t].files \ contested',
                        live'[f] # live[f], hand'[t] # hand[t]
                 PROVE  /\ lock[f].task = hand[t].task
                        /\ \E s \in snaps : s.file = f /\ s.text = live[f]
                        /\ hand[t].op = "apply" =>
                             live[f] = hand[t].change.base /\ hand[t].change \in intents
    OBVIOUS
  <2>2. Edits!ApplyReplace(t) \/ Edits!Rollback(t) \/ Edits!RestoreReplace(t)
    BY <1>1, <2>1, TheWriter
  <2>3. contested' = contested /\ HandOK(hand[t]) /\ WriteOK(hand[t])
    BY <1>1, <2>2 DEF Edits!ApplyReplace, Edits!Rollback, Edits!RestoreReplace, EditInv,
       EditTypes, HandTypes, WriteInv
  <2> QED
    BY <2>1, <2>2, <2>3 DEF Edits!ApplyReplace, Edits!Rollback, Edits!RestoreReplace, Edits!At,
       HandOK, StageOK, WriteOK, Writing
<1> QED
  BY <1>1, EditInvHolds, PTL DEF Edits!Spec, Edits!WritesAreCovered

\* A commit takes in only files that its request was checked for, with a snapshot of
\* the agent, on the agents' branch that it reports: see CodeEdits.
LEMMA CommitsAreAsReported ==
  ASSUME Edits!CodeEditsAssumption
  PROVE  Edits!Spec => Edits!CommitIsAsReported
<1>1. ASSUME EditInv, EditInv', [Edits!Next]_Edits!editVars
      PROVE  [\A t \in Request \ overtaken : tip' # tip /\ Edits!At(t, "commit") /\ ~Edits!At(t, "commit")' =>
                /\ branch = hand[t].on /\ branch \in Shipping
                /\ Edits!Staged \subseteq hand[t].files
                /\ \A f \in Edits!Staged :
                     \E s \in snaps : s.file = f /\ s.agent = Owner[hand[t].task]]_Edits!editVars
  <2>1. SUFFICES ASSUME NEW t \in Request \ overtaken, hand[t].pc = "commit"
                 PROVE  /\ branch = hand[t].on /\ branch \in Shipping
                        /\ Edits!Staged \subseteq hand[t].files
                        /\ \A f \in Edits!Staged :
                             \E s \in snaps : s.file = f /\ s.agent = Owner[hand[t].task]
    BY DEF Edits!At
  <2>2. HandOK(hand[t]) /\ CommitOK(t)
    BY <1>1 DEF EditInv, EditTypes, HandTypes, CommitInv
  <2> QED
    BY <2>1, <2>2 DEF HandOK, StageOK, CommitOK
<1> QED
  BY <1>1, EditInvHolds, PTL DEF Edits!Spec, Edits!CommitIsAsReported

-----------------------------------------------------------------------------
(* Each part is implemented                                                 *)

LEMMA WholeHasRows == Spec => Rows!Spec
<1>1. Init => Rows!Init
  BY DEF Init
<1>2. [Next]_backendVars => [Rows!Next]_Rows!jobVars
  <2> SUFFICES ASSUME [Next]_backendVars PROVE Rows!Next \/ UNCHANGED Rows!jobVars
    OBVIOUS
  <2>1. CASE RowStep
    BY <2>1 DEF RowStep
  <2>2. ASSUME UNCHANGED jobVars PROVE UNCHANGED Rows!jobVars
    BY <2>2 DEF jobVars, Rows!jobVars, Rows!rows
  <2> QED
    BY <2>1, <2>2 DEF Next, backendVars, FloorStep, QueueStep, SourceStep, AgentStep,
       RunnerStep, TokenStep, EditStep
<1> QED
  BY <1>1, <1>2, PTL DEF Spec, Rows!Spec

LEMMA WholeHasRunner == Spec => Runner!Spec
<1>1. Init => Runner!Init
  BY DEF Init
<1>2. [Next]_backendVars => [Runner!Next]_Runner!runnerVars
  <2> SUFFICES ASSUME [Next]_backendVars PROVE Runner!Next \/ UNCHANGED Runner!runnerVars
    OBVIOUS
  <2>1. CASE RunnerStep
    BY <2>1 DEF RunnerStep
  <2>2. ASSUME UNCHANGED runnerVars PROVE UNCHANGED Runner!runnerVars
    BY <2>2 DEF runnerVars, Runner!runnerVars
  <2> QED
    BY <2>1, <2>2 DEF Next, backendVars, FloorStep, RowStep, QueueStep, SourceStep, AgentStep,
       TokenStep, EditStep
<1> QED
  BY <1>1, <1>2, PTL DEF Spec, Runner!Spec

LEMMA WholeHasTokens == Spec => Tokens!Spec
<1>1. Init => Tokens!Init
  BY DEF Init
<1>2. [Next]_backendVars => [Tokens!Next]_Tokens!dispatchVars
  <2> SUFFICES ASSUME [Next]_backendVars PROVE Tokens!Next \/ UNCHANGED Tokens!dispatchVars
    OBVIOUS
  <2>1. CASE TokenStep
    BY <2>1 DEF TokenStep
  <2>2. ASSUME UNCHANGED dispatchVars PROVE UNCHANGED Tokens!dispatchVars
    BY <2>2 DEF dispatchVars, Tokens!dispatchVars
  <2> QED
    BY <2>1, <2>2 DEF Next, backendVars, FloorStep, RowStep, QueueStep, SourceStep, AgentStep,
       RunnerStep, EditStep
<1> QED
  BY <1>1, <1>2, PTL DEF Spec, Tokens!Spec

LEMMA WholeHasFloor == Spec => Floor!Spec
<1>1. Init => Floor!Init
  BY DEF Init
<1>2. [Next]_backendVars => [Floor!Next]_Floor!floorVars
  <2> SUFFICES ASSUME [Next]_backendVars PROVE Floor!Next \/ UNCHANGED Floor!floorVars
    OBVIOUS
  <2>1. CASE FloorStep
    BY <2>1 DEF FloorStep
  <2>2. ASSUME UNCHANGED floorVars PROVE UNCHANGED Floor!floorVars
    BY <2>2 DEF floorVars, Floor!floorVars
  <2> QED
    BY <2>1, <2>2 DEF Next, backendVars, RowStep, QueueStep, SourceStep, AgentStep, RunnerStep,
       TokenStep, EditStep
<1> QED
  BY <1>1, <1>2, PTL DEF Spec, Floor!Spec

LEMMA WholeHasJobs == Spec => Jobs!Spec
<1>1. Init => Jobs!Init
  BY DEF Init
<1>2. [Next]_backendVars => [Jobs!Next]_Jobs!jobQueueVars
  <2> SUFFICES ASSUME [Next]_backendVars PROVE Jobs!Next \/ UNCHANGED Jobs!jobQueueVars
    OBVIOUS
  <2>1. CASE QueueStep
    BY <2>1 DEF QueueStep
  <2>2. ASSUME UNCHANGED jobQueueVars PROVE UNCHANGED Jobs!jobQueueVars
    BY <2>2 DEF jobQueueVars, Jobs!jobQueueVars
  <2> QED
    BY <2>1, <2>2 DEF Next, backendVars, FloorStep, RowStep, SourceStep, AgentStep, RunnerStep,
       TokenStep, EditStep
<1> QED
  BY <1>1, <1>2, PTL DEF Spec, Jobs!Spec

LEMMA WholeHasSource == Spec => Source!Spec
<1>1. Init => Source!Init
  BY DEF Init
<1>2. [Next]_backendVars => [Source!Next]_Source!sourceVars
  <2> SUFFICES ASSUME [Next]_backendVars PROVE Source!Next \/ UNCHANGED Source!sourceVars
    OBVIOUS
  <2>1. CASE SourceStep
    BY <2>1 DEF SourceStep
  <2>2. ASSUME UNCHANGED sourceVars PROVE UNCHANGED Source!sourceVars
    BY <2>2 DEF sourceVars, Source!sourceVars
  <2> QED
    BY <2>1, <2>2 DEF Next, backendVars, FloorStep, RowStep, QueueStep, AgentStep, RunnerStep,
       TokenStep, EditStep
<1> QED
  BY <1>1, <1>2, PTL DEF Spec, Source!Spec

LEMMA WholeHasAgent == Spec => Agent!Spec
<1>1. Init => Agent!Init
  BY DEF Init
<1>2. [Next]_backendVars => [Agent!Next]_Agent!agentVars
  <2> SUFFICES ASSUME [Next]_backendVars PROVE Agent!Next \/ UNCHANGED Agent!agentVars
    OBVIOUS
  <2>1. CASE AgentStep
    BY <2>1 DEF AgentStep
  <2>2. ASSUME UNCHANGED agentVars PROVE UNCHANGED Agent!agentVars
    BY <2>2 DEF agentVars, Agent!agentVars
  <2> QED
    BY <2>1, <2>2 DEF Next, backendVars, FloorStep, RowStep, QueueStep, SourceStep, RunnerStep,
       TokenStep, EditStep
<1> QED
  BY <1>1, <1>2, PTL DEF Spec, Agent!Spec

LEMMA WholeHasEdits == Spec => Edits!Spec
<1>1. Init => Edits!Init
  BY DEF Init
<1>2. [Next]_backendVars => [Edits!Next]_Edits!editVars
  <2> SUFFICES ASSUME [Next]_backendVars PROVE Edits!Next \/ UNCHANGED Edits!editVars
    OBVIOUS
  <2>1. CASE EditStep
    BY <2>1 DEF EditStep
  <2>2. ASSUME UNCHANGED editVars PROVE UNCHANGED Edits!editVars
    BY <2>2 DEF editVars, Edits!editVars
  <2> QED
    BY <2>1, <2>2 DEF Next, backendVars, FloorStep, RowStep, QueueStep, SourceStep, AgentStep,
       RunnerStep, TokenStep
<1> QED
  BY <1>1, <1>2, PTL DEF Spec, Edits!Spec

-----------------------------------------------------------------------------
(* Their theorems                                                           *)

\* Where no file is printed twice, no print is started over the finished part of
\* another, up to the races that the property names.  (PrinterFloor)
THEOREM WholeStartsOnEmpty == ASSUME ~Reprint PROVE Spec => CheckedPlateIsEmpty
<1>1. Floor!Spec => Floor!CheckedPlateIsEmpty
  BY Floor!ChecksHold, BackendAssumption
<1> QED
  BY <1>1, WholeHasFloor DEF CheckedPlateIsEmpty

\* A flagged plate has a notification, unless a mark for the print before has
\* dismissed it.  (PrinterFloor)
THEOREM WholeNotifies == Spec => []FlagIsNotified
<1>1. Floor!Spec => []Floor!FlagIsNotified
  BY Floor!FlagsAreNotified, BackendAssumption
<1> QED
  BY <1>1, WholeHasFloor, PTL DEF FlagIsNotified

\* The row of a job fits what its steps say, unless two requests worked on it
\* at once or a statement was missing.  (JobRows)
THEOREM WholeFitsSteps == Spec => []StatusFitsSteps
<1>1. Rows!Spec => []Rows!StatusFitsSteps
  BY Rows!RowsFitSteps, BackendAssumption
<1> QED
  BY <1>1, WholeHasRows, PTL DEF StatusFitsSteps

\* A repair is decided about once, unless two requests had the job in hand at a
\* time.  (JobRows)
THEOREM WholeDecidesOnce == Spec => DecidedOnce
<1>1. Rows!Spec => Rows!DecidedOnce
  BY Rows!RepairsDecidedOnce, BackendAssumption
<1> QED
  BY <1>1, WholeHasRows DEF DecidedOnce

\* A stop hits a process of the service it was asked to stop, unless the pid
\* was given again.  (ServiceRunner)
THEOREM WholeStopsItsOwn == Spec => StopHitsItsOwn
<1>1. Runner!Spec => Runner!StopHitsItsOwn
  BY Runner!StopsHitTheirOwn, BackendAssumption
<1> QED
  BY <1>1, WholeHasRunner DEF StopHitsItsOwn

\* A service has one process, which its record names, unless requests
\* overlapped or a pid was given again.  (ServiceRunner)
THEOREM WholeRecordsTheLive == Spec => []LiveIsRecorded
<1>1. Runner!Spec => []Runner!LiveIsRecorded
  BY Runner!OneRecordedProcess, BackendAssumption
<1> QED
  BY <1>1, WholeHasRunner, PTL DEF LiveIsRecorded

\* A token is good for one dispatch.  (Dispatch)
THEOREM WholeSpendsTokensOnce == Spec => []TokenIsSpentOnce
<1>1. Tokens!Spec => []Tokens!TokenIsSpentOnce
  BY Tokens!TokensAreSpentOnce, BackendAssumption
<1> QED
  BY <1>1, WholeHasTokens, PTL DEF TokenIsSpentOnce

\* A printer or a run has one handler at a time.  (Dispatch)
THEOREM WholeHandlesOneAtATime == Spec => []OneHandlerPerUnit
<1>1. Tokens!Spec => []Tokens!OneHandlerPerUnit
  BY Tokens!OneHandlerAtATime, BackendAssumption
<1> QED
  BY <1>1, WholeHasTokens, PTL DEF OneHandlerPerUnit

\* Probes of a provider keep their distance, unless one had read the ledger
\* before the other wrote to it.  (Dispatch)
THEOREM WholePacesProbes == Spec => []ProbesArePaced
<1>1. Tokens!Spec => []Tokens!ProbesArePaced
  BY Tokens!ProbesKeepTheirDistance, BackendAssumption
<1> QED
  BY <1>1, WholeHasTokens, PTL DEF ProbesArePaced

\* The queue file is never torn or missing once it was there, unless two queues
\* had the .tmp open at a time.  (JobQueue)
THEOREM WholeQueueReads == Spec => []QueueFileReads
<1>1. QueueInv => QueueFileReads
  BY DEF QueueInv, FileInv, QueueFileReads
<1> QED
  BY <1>1, WholeHasJobs, QueueInvHolds, BackendAssumption, PTL

\* A save of an object that has missed nobody's takes no job away and revives no
\* cancelled one, unless two had the .tmp open at a time.  (JobQueue)
THEOREM WholeKeepsJobs == Spec => SavesKeepJobs
<1>1. Jobs!Spec => Jobs!SavesKeepJobs
  BY QueueKeepsJobs, BackendAssumption
<1> QED
  BY <1>1, WholeHasJobs DEF SavesKeepJobs

\* Work that was not committed when a request came is in a zip when the checkout is
\* reset, but for one file of a rollback.  (SourceUpdates)
THEOREM WholeKeepsWork == Spec => OlderWorkIsKept
<1>1. Source!Spec => Source!OlderWorkIsKept
  BY SourceWorkIsKept, BackendAssumption
<1> QED
  BY <1>1, WholeHasSource DEF OlderWorkIsKept

\* An update that is alone takes the checkout forward or leaves it.  (SourceUpdates)
THEOREM WholeUpdatesForward == Spec => UpdateIsForward
<1>1. Source!Spec => Source!UpdateIsForward
  BY SourceGoesForward, BackendAssumption
<1> QED
  BY <1>1, WholeHasSource DEF UpdateIsForward

\* A commit that a reset leaves is a backup, or was made behind the request.
\* (SourceUpdates)
THEOREM WholeBacksUp == Spec => LocalCommitsAreBackedUp
<1>1. Source!Spec => Source!LocalCommitsAreBackedUp
  BY SourceCommitsBackedUp, BackendAssumption
<1> QED
  BY <1>1, WholeHasSource DEF LocalCommitsAreBackedUp

\* An agent that is reported as updated, by a request that was alone, is at the last
\* release of the plan, and that one and those on the way have passed the checks.
\* (AgentUpdates)
THEOREM WholeVerifies == Spec => UpdatedIsVerified
<1>1. Agent!Spec => Agent!UpdatedIsVerified
  BY AgentUpdatesVerified, BackendAssumption
<1> QED
  BY <1>1, WholeHasAgent DEF UpdatedIsVerified

\* A staged update that was alone and is reported as rolled back is at the very commit
\* it came from, unless somebody had made that one upon a release.  (AgentUpdates)
THEOREM WholeRepairs == Spec => RepairRestores
<1>1. Agent!Spec => Agent!RepairRestores
  BY AgentRepairRestores, BackendAssumption
<1> QED
  BY <1>1, WholeHasAgent DEF RepairRestores

\* A file is written for the task that has its lock, over a text that a snapshot
\* has, and a proposal over its own base, with its event first.  (CodeEdits)
THEOREM WholeCoversWrites == Spec => WritesAreCovered
<1>1. Edits!Spec => Edits!WritesAreCovered
  BY EditsAreCovered, BackendAssumption
<1> QED
  BY <1>1, WholeHasEdits DEF WritesAreCovered

\* A commit takes in files only that its request was checked for, on the branch that
\* it reports, unless overtaken at the last moment.  (CodeEdits)
THEOREM WholeCommitsAsReported == Spec => CommitIsAsReported
<1>1. Edits!Spec => Edits!CommitIsAsReported
  BY CommitsAreAsReported, BackendAssumption
<1> QED
  BY <1>1, WholeHasEdits DEF CommitIsAsReported

\* Every variable of the whole keeps its type.  (all parts)
THEOREM BackendTypeCorrect == Spec => []TypeOK
<1>1. Floor!Spec => []Floor!TypeOK
  BY Floor!FloorTypeCorrect, BackendAssumption
<1>2. Rows!Spec => []Rows!TypeOK
  BY Rows!JobRowsTypeCorrect, BackendAssumption
<1>3. Runner!Spec => []Runner!TypeOK
  BY Runner!RunnerTypeCorrect, BackendAssumption
<1>4. Tokens!Spec => []Tokens!TypeOK
  BY Tokens!DispatchTypeCorrect, BackendAssumption
<1>5. Jobs!Spec => []QueueInv
  BY QueueInvHolds, BackendAssumption
<1>6. Source!Spec => []SourceState
  BY SourceStateHolds, BackendAssumption
<1>7. Agent!Spec => []AgentState
  BY AgentStateHolds, BackendAssumption
<1>8. Edits!Spec => []EditInv
  BY EditInvHolds, BackendAssumption
<1>9. QueueInv /\ SourceState /\ AgentState /\ EditInv
        => Jobs!TypeOK /\ Source!TypeOK /\ Agent!TypeOK /\ Edits!TypeOK
  BY EditTypesAreTypes DEF QueueInv, SourceState, AgentState, EditInv
<1> QED
  BY <1>1, <1>2, <1>3, <1>4, <1>5, <1>6, <1>7, <1>8, <1>9, WholeHasFloor, WholeHasRows,
     WholeHasRunner, WholeHasTokens, WholeHasJobs, WholeHasSource, WholeHasAgent,
     WholeHasEdits, PTL DEF TypeOK
=============================================================================
