--------------------------- MODULE KnowledgeProofs ---------------------------
(* Theorems about Knowledge for any number of requests, batches and cuts,    *)
(* when chunkers follow each other and a run that keeps the vectors there    *)
(* are runs alone (~Overlap).                                                *)
EXTENDS Knowledge, TLAPS

Statuses == Busy \cup Settled \cup Absent
Jobs == [at : Steps, kind : Kinds, doc : Docs, seen : Statuses,
         cut : 0..MaxCuts, done : SUBSET Part, fresh : SUBSET Part]

(* Where a request of each kind can be. *)
Kinded(j) ==
    /\ job[j].kind = None <=> job[j].at = "idle"
    /\ job[j].at \in {"sync", "clear", "parse", "parsing", "find", "mark"} => job[j].kind = "pipeline"
    /\ job[j].at \in {"chunk", "split", "cut"} => job[j].kind \in {"pipeline", "chunk"}
    /\ job[j].at \in {"index", "embed"} => job[j].kind \in {"pipeline", "rebuild", "extend"}
    /\ job[j].at = "wipe" => job[j].kind \in {"pipeline", "rebuild"}
    /\ job[j].at = "read" => job[j].kind = "extend"
    /\ job[j].at = "publish" => job[j].kind = "publish"
    /\ job[j].kind = "publish" => job[j].at \in {"publish", "over"}
    /\ job[j].at \notin {"embed", "mark", "over"} => job[j].done = {} /\ job[j].fresh = {}

(* Nobody works on a document that does not exist yet. *)
Begun(j) == job[j].kind # None => status[Doc(j)] # None

(* A chunker about to cut always has a status to send. *)
Cutting(j) ==
    /\ job[j].at = "chunk" /\ job[j].seen = "chunking" => status[Doc(j)] # "uploaded"
    /\ job[j].at = "split" => status[Doc(j)] # "uploaded"
    /\ job[j].at = "cut" => job[j].seen # "uploaded"

(* Whoever deleted vectors keeps the write lock until new ones are there. *)
Locked(j) ==
    /\ writer = j => job[j].at = "embed"
    /\ job[j].at = "embed" /\ job[j].kind # "extend" => writer = j

(* What a run embeds is the document's cut; a batch is fresh or kept. *)
Current(j) ==
    /\ job[j].cut = cut[Doc(j)]
    /\ \A p \in job[j].done : p \in job[j].fresh <=> <<job[j].cut, p>> \notin Kept(j)

Embedding(j) == job[j].at = "embed" =>
    /\ job[j].cut # 0 /\ job[j].fresh \subseteq job[j].done
    /\ Row(Doc(j)) => Current(j)

Holds(j) == Kinded(j) /\ Begun(j) /\ Cutting(j) /\ Locked(j) /\ Embedding(j)

(* Chunkers follow each other, a run that keeps vectors runs alone. *)
Alone == \A j, k \in Job :
    j # k /\ Doc(j) = Doc(k) => /\ ~(Extending(j) /\ Working(k))
                                /\ ~(Chunking(j) /\ Chunking(k))

(* A step of a pipeline is shown only while somebody works on the document. *)
Worked(d) == status[d] \in Busy => \E j \in Job : Working(j) /\ Doc(j) = d

(* The parts of NoOrphans and ReadyIsIndexed that are about one document. *)
Sound(d) ==
    /\ \A v \in vectors[d] : v[1] = cut[d]
    /\ ~Row(d) => cut[d] = 0
    /\ d = "source" /\ status[d] = "ready" =>
          cut[d] # 0 /\ {cut[d]} \X Part \subseteq vectors[d]

IInv ==
    /\ TypeOK
    /\ \A j \in Job : Holds(j)
    /\ Alone
    /\ \A d \in Docs : Worked(d) /\ Sound(d)

-----------------------------------------------------------------------------
(* What a step of request j leaves the others: it writes "uploaded" only as *)
(* a chunker, and touches chunks or vectors only as a worker that has or    *)
(* can take the write lock, or when nobody can be at work on the document.  *)
Frame(j) ==
    /\ \A k \in Job \ {j} : job'[k] = job[k]
    /\ \A d \in Docs :
        /\ status[d] # None => status'[d] # None /\ (status'[d] \notin Absent => Row(d))
        /\ status'[d] = "uploaded" => \/ status[d] \in {"uploaded", None}
                                      \/ d = Doc(j) /\ Chunking(j)
        /\ \/ cut'[d] = cut[d] /\ vectors'[d] = vectors[d]
           \/ status'[d] \in Absent \/ status[d] = None
           \/ d = Doc(j) /\ Working(j) /\ writer \in {None, j}
    /\ \/ writer' = writer
       \/ writer = None /\ writer' = j
       \/ writer = j /\ writer' = None

(* Request j goes on with what it does, or ends. *)
Continues(j) ==
    /\ job[j].kind # None /\ job'[j].kind = job[j].kind /\ job'[j].doc = job[j].doc
    /\ job[j].at # "over"
    /\ Chunking(j)' => Chunking(j)

LEMMA Bystander ==
  ASSUME IInv, NEW j \in Job, NEW k \in Job \ {j}, Frame(j)
  PROVE  Holds(k)'
<1>. DEFINE d == Doc(k)
<1>1. job'[k] = job[k] /\ Holds(k) /\ Kinded(k)' /\ d \in Docs /\ Doc(k)' = d
  BY DEF IInv, Frame, Holds, Kinded, Doc, TypeOK
<1>2. /\ status[d] # None => status'[d] # None /\ (status'[d] \notin Absent => Row(d))
      /\ status'[d] = "uploaded" => \/ status[d] \in {"uploaded", None}
                                    \/ d = Doc(j) /\ Chunking(j)
      /\ \/ cut'[d] = cut[d] /\ vectors'[d] = vectors[d]
         \/ status'[d] \in Absent \/ status[d] = None
         \/ d = Doc(j) /\ Working(j) /\ writer \in {None, j}
  BY <1>1 DEF Frame
<1>3. Begun(k)'
  BY <1>1, <1>2 DEF Holds, Begun, Doc
<1>4. Cutting(k)'
  <2>1. job[k].at \in {"chunk", "split", "cut"} => Chunking(k) /\ status[d] # None
    BY <1>1 DEF Holds, Kinded, Chunking, Begun, None
  <2>2. job[k].at \in {"chunk", "split", "cut"} =>
            (status'[d] = "uploaded" => status[d] = "uploaded")
    BY <1>1, <1>2, <2>1 DEF IInv, Alone
  <2>. QED
    BY <1>1, <2>2 DEF Holds, Cutting, Doc
<1>5. Locked(k)'
  <2>1. j # None /\ k # None
    BY KnowledgeConstants DEF None
  <2>. QED
    BY <1>1, <2>1 DEF Holds, Locked, Frame
<1>6. Embedding(k)'
  <2>. SUFFICES ASSUME job[k].at = "embed", status'[d] \notin Absent
                PROVE  Current(k)'
    BY <1>1 DEF Holds, Embedding, Row, Doc
  <2>1. status[d] # None /\ Working(k) /\ (job[k].kind = "extend" => Extending(k))
    BY <1>1 DEF Holds, Kinded, Begun, Working, Extending, None
  <2>2. ~(d = Doc(j) /\ Working(j) /\ writer \in {None, j})
    <3>1. CASE job[k].kind = "extend"
      BY <2>1, <3>1 DEF IInv, Alone
    <3>2. CASE job[k].kind # "extend"
      BY <1>1, <3>2, KnowledgeConstants DEF Holds, Locked, None
    <3>. QED
      BY <3>1, <3>2
  <2>3. cut'[d] = cut[d] /\ vectors'[d] = vectors[d] /\ Row(d)
    BY <1>2, <2>1, <2>2
  <2>4. Current(k)
    BY <1>1, <2>3 DEF Holds, Embedding
  <2>. QED
    BY <1>1, <2>3, <2>4 DEF Current, Kept, Doc
<1>. QED
  BY <1>1, <1>3, <1>4, <1>5, <1>6 DEF Holds

(* A step of a request that has begun. *)
LEMMA StepSafe ==
  ASSUME IInv, NEW j \in Job, TypeOK', Frame(j), Continues(j), Holds(j)',
         \A d \in Docs \ {Doc(j)} :
            (status[d] = None /\ status'[d] \notin Busy) \/ status'[d] = status[d],
         \A d \in Docs : Sound(d)',
         status'[Doc(j)] \in Busy => \/ Working(j)'
                                     \/ ~Working(j) /\ status'[Doc(j)] = status[Doc(j)]
  PROVE  IInv'
<1>1. \A k \in Job : Holds(k)'
  BY Bystander
<1>2. \A k \in Job : /\ Doc(k)' = Doc(k) /\ (Chunking(k)' => Chunking(k))
                     /\ (Working(k)' => Working(k)) /\ (Extending(k)' => Extending(k))
                     /\ k # j => (Working(k) => Working(k)')
  BY DEF Frame, Continues, Doc, Chunking, Working, Extending
<1>3. Alone'
  BY <1>2 DEF IInv, Alone
<1>4. ASSUME NEW d \in Docs, status'[d] \in Busy
      PROVE  \E k \in Job : Working(k)' /\ Doc(k)' = d
  <2>1. CASE d = Doc(j) /\ Working(j)'
    BY <1>2, <2>1
  <2>2. CASE ~(d = Doc(j) /\ Working(j)')
    <3>1. status[d] \in Busy
      BY <1>4, <2>2
    <3>2. PICK w \in Job : Working(w) /\ Doc(w) = d
      BY <3>1 DEF IInv, Worked
    <3>3. w # j
      BY <1>4, <2>2, <3>2
    <3>. QED
      BY <1>2, <3>2, <3>3
  <2>. QED
    BY <2>1, <2>2
<1>5. \A d \in Docs : Worked(d)'
  BY <1>4 DEF Worked
<1>. QED
  BY <1>1, <1>3, <1>5 DEF IInv

-----------------------------------------------------------------------------
(* Steps that touch no chunks and no vectors.                               *)

LEMMA JobTyped ==
  ASSUME TypeOK, NEW j \in Job
  PROVE  /\ job[j] \in Jobs /\ job[j].at \in Steps /\ job[j].kind \in Kinds /\ job[j].doc \in Docs
         /\ job[j].seen \in Statuses /\ job[j].cut \in 0..MaxCuts
         /\ job[j].done \subseteq Part /\ job[j].fresh \subseteq Part
         /\ status[job[j].doc] \in Statuses
BY DEF TypeOK, Jobs, Statuses

\* What becomes of a request's record when only its step changes.
LEMMA Gone ==
  ASSUME TypeOK, NEW j \in Job, NEW step \in Steps, Goes(j, step)
  PROVE  /\ job' \in [Job -> Jobs] /\ \A k \in Job \ {j} : job'[k] = job[k]
         /\ job'[j].at = step /\ job'[j].seen = job[j].seen /\ job'[j].cut = job[j].cut
         /\ job'[j].done = job[j].done /\ job'[j].fresh = job[j].fresh
         /\ job'[j].kind = job[j].kind /\ job'[j].doc = job[j].doc
<1>. DEFINE new == [job[j] EXCEPT !.at = step]
<1>1. job[j] \in Jobs /\ job \in [Job -> Jobs]
  BY JobTyped DEF TypeOK, Jobs, Statuses
<1>2. job' = [job EXCEPT ![j] = new]
  BY <1>1 DEF Goes, Jobs
<1>3. /\ new \in Jobs /\ new.at = step /\ new.seen = job[j].seen /\ new.cut = job[j].cut
      /\ new.done = job[j].done /\ new.fresh = job[j].fresh
      /\ new.kind = job[j].kind /\ new.doc = job[j].doc
  BY <1>1 DEF Jobs
<1>. HIDE DEF new
<1>. QED
  BY <1>1, <1>2, <1>3

\* A request that moves and reads: the status, the chunks, or one more batch.
Notes(j, step, seen) == job' = [job EXCEPT ![j].at = step, ![j].seen = seen]
LEMMA Seen ==
  ASSUME TypeOK, NEW j \in Job, NEW step \in Steps, NEW seen \in Statuses,
         Notes(j, step, seen)
  PROVE  /\ job' \in [Job -> Jobs] /\ \A k \in Job \ {j} : job'[k] = job[k]
         /\ job'[j].at = step /\ job'[j].seen = seen /\ job'[j].cut = job[j].cut
         /\ job'[j].done = job[j].done /\ job'[j].fresh = job[j].fresh
         /\ job'[j].kind = job[j].kind /\ job'[j].doc = job[j].doc
<1>. DEFINE new == [job[j] EXCEPT !.at = step, !.seen = seen]
<1>1. job[j] \in Jobs /\ job \in [Job -> Jobs]
  BY JobTyped DEF TypeOK, Jobs, Statuses
<1>2. job' = [job EXCEPT ![j] = new]
  BY <1>1 DEF Jobs, Notes
<1>3. /\ new \in Jobs /\ new.at = step /\ new.seen = seen /\ new.cut = job[j].cut
      /\ new.done = job[j].done /\ new.fresh = job[j].fresh
      /\ new.kind = job[j].kind /\ new.doc = job[j].doc
  BY <1>1 DEF Jobs
<1>. HIDE DEF new
<1>. QED
  BY <1>1, <1>2, <1>3

Takes(j, step, c) == job' = [job EXCEPT ![j].at = step, ![j].cut = c]
LEMMA CutSeen ==
  ASSUME TypeOK, NEW j \in Job, NEW step \in Steps, NEW c \in 0..MaxCuts,
         Takes(j, step, c)
  PROVE  /\ job' \in [Job -> Jobs] /\ \A k \in Job \ {j} : job'[k] = job[k]
         /\ job'[j].at = step /\ job'[j].seen = job[j].seen /\ job'[j].cut = c
         /\ job'[j].done = job[j].done /\ job'[j].fresh = job[j].fresh
         /\ job'[j].kind = job[j].kind /\ job'[j].doc = job[j].doc
<1>. DEFINE new == [job[j] EXCEPT !.at = step, !.cut = c]
<1>1. job[j] \in Jobs /\ job \in [Job -> Jobs]
  BY JobTyped DEF TypeOK, Jobs, Statuses
<1>2. job' = [job EXCEPT ![j] = new]
  BY <1>1 DEF Jobs, Takes
<1>3. /\ new \in Jobs /\ new.at = step /\ new.seen = job[j].seen /\ new.cut = c
      /\ new.done = job[j].done /\ new.fresh = job[j].fresh
      /\ new.kind = job[j].kind /\ new.doc = job[j].doc
  BY <1>1 DEF Jobs
<1>. HIDE DEF new
<1>. QED
  BY <1>1, <1>2, <1>3

Receives(j, done, fresh) == job' = [job EXCEPT ![j].done = done, ![j].fresh = fresh]
LEMMA BatchSeen ==
  ASSUME TypeOK, NEW j \in Job, NEW done \in SUBSET Part, NEW fresh \in SUBSET Part,
         Receives(j, done, fresh)
  PROVE  /\ job' \in [Job -> Jobs] /\ \A k \in Job \ {j} : job'[k] = job[k]
         /\ job'[j].at = job[j].at /\ job'[j].seen = job[j].seen /\ job'[j].cut = job[j].cut
         /\ job'[j].done = done /\ job'[j].fresh = fresh
         /\ job'[j].kind = job[j].kind /\ job'[j].doc = job[j].doc
<1>. DEFINE new == [job[j] EXCEPT !.done = done, !.fresh = fresh]
<1>1. job[j] \in Jobs /\ job \in [Job -> Jobs]
  BY JobTyped DEF TypeOK, Jobs, Statuses
<1>2. job' = [job EXCEPT ![j] = new]
  BY <1>1 DEF Jobs, Receives
<1>3. /\ new \in Jobs /\ new.at = job[j].at /\ new.seen = job[j].seen /\ new.cut = job[j].cut
      /\ new.done = done /\ new.fresh = fresh
      /\ new.kind = job[j].kind /\ new.doc = job[j].doc
  BY <1>1 DEF Jobs
<1>. HIDE DEF new
<1>. QED
  BY <1>1, <1>2, <1>3

\* A status is written, chunks, vectors and the lock are as before.  A ready
\* document stays so, or becomes something else.
LEMMA StatusStep ==
  ASSUME IInv, NEW j \in Job, UNCHANGED <<cut, vectors, cuts, writer>>,
         job' \in [Job -> Jobs], \A k \in Job \ {j} : job'[k] = job[k],
         Continues(j), Kinded(j)', Cutting(j)',
         job[j].at # "embed", job'[j].at # "embed",
         NEW s \in Statuses, s \notin {None, "ready"},
         \/ UNCHANGED status
         \/ /\ status' = [status EXCEPT ![Doc(j)] = s]
            /\ Row(Doc(j)) /\ s \notin Absent
            /\ s = "uploaded" => Chunking(j),
         status'[Doc(j)] \in Busy => \/ Working(j)'
                                     \/ ~Working(j) /\ status'[Doc(j)] = status[Doc(j)]
  PROVE  IInv'
<1>. DEFINE d == Doc(j)
<1>1. d \in Docs /\ status \in [Docs -> Statuses] /\ Holds(j) /\ Doc(j)' = d
      /\ status[d] # None
  <2>1. d \in Docs /\ status \in [Docs -> Statuses] /\ Holds(j)
    BY DEF IInv, TypeOK, Doc, Statuses
  <2>. QED
    BY <2>1 DEF Holds, Begun, Continues, Doc
<1>2. /\ status' \in [Docs -> Statuses]
      /\ \A e \in Docs \ {d} : status'[e] = status[e]
      /\ \/ status'[d] = status[d]
         \/ status'[d] = s /\ Row(d) /\ s \notin Absent /\ (s = "uploaded" => Chunking(j))
  BY <1>1
<1>3. TypeOK'
  BY <1>2 DEF IInv, TypeOK, Jobs, Statuses
<1>4. Frame(j)
  BY <1>1, <1>2 DEF Frame, Row, Absent, None
<1>5. Locked(j)'
  BY <1>1, <1>2 DEF Holds, Locked
<1>6. Begun(j)' /\ Embedding(j)'
  BY <1>1, <1>2 DEF Begun, Embedding, Row, Absent
<1>7. Holds(j)'
  BY <1>5, <1>6 DEF Holds
<1>8. ASSUME NEW e \in Docs PROVE Sound(e)'
  BY <1>2, None \in Absent DEF IInv, Sound, Row, Absent
<1>. QED
  BY <1>2, <1>3, <1>4, <1>7, <1>8, StepSafe

LEMMA WriteThroughSafe ==
  ASSUME IInv, NEW j \in Job, NEW from, NEW to \in Steps, NEW s \in Statuses,
         WriteThrough(j, from, s, to),
         \/ from = "clear" /\ s = job[j].seen /\ to = "parse"
         \/ from = "sync" /\ s = "uploaded" /\ to = "parse"
         \/ from = "parse" /\ s = "parsing" /\ to = "parsing"
         \/ from = "parsing" /\ s = "uploaded" /\ to = "chunk"
  PROVE  IInv'
<1>1. /\ job[j].at = from /\ Row(Doc(j)) /\ UNCHANGED <<cut, vectors, cuts, writer>>
      /\ Notes(j, to, status'[Doc(j)])
      /\ Kinded(j) /\ TypeOK /\ Doc(j) \in Docs /\ status \in [Docs -> Statuses]
  BY DEF WriteThrough, Notes, IInv, Holds, TypeOK, Statuses, Doc
<1>2. \/ UNCHANGED status
      \/ status' = [status EXCEPT ![Doc(j)] = s] /\ s # job[j].seen
  BY DEF WriteThrough, Put
<1>3. /\ job' \in [Job -> Jobs] /\ \A k \in Job \ {j} : job'[k] = job[k]
      /\ job'[j].at = to /\ job'[j].seen = status'[Doc(j)] /\ job'[j].cut = job[j].cut
      /\ job'[j].done = job[j].done /\ job'[j].fresh = job[j].fresh
      /\ job'[j].kind = job[j].kind /\ job'[j].doc = job[j].doc
  <2>1. status'[Doc(j)] \in Statuses
    BY <1>1, <1>2
  <2>. QED
    BY <1>1, <2>1, Seen
<1>4. Continues(j) /\ Kinded(j)' /\ Working(j)' /\ Chunking(j)
  BY <1>1, <1>3 DEF Continues, Kinded, Chunking, Working, None
<1>5. Cutting(j)'
  BY <1>3 DEF Cutting, Doc
<1>6. \E t \in {"parsing", "uploaded"} : \/ UNCHANGED status
                                         \/ status' = [status EXCEPT ![Doc(j)] = t]
  BY <1>2
<1>7. {"parsing", "uploaded"} \subseteq Statuses \ (Absent \cup {"ready"})
  BY DEF Statuses, Busy, Settled, Absent, None
<1>. QED
  BY <1>1, <1>3, <1>4, <1>5, <1>6, <1>7, StatusStep DEF Absent

LEMMA LoadSafe == ASSUME IInv, NEW j \in Job, Load(j) PROVE IInv'
<1>. DEFINE to == IF job[j].at = "split" THEN "cut" ELSE "index"
<1>1. /\ job[j].at \in {"split", "find"} /\ Row(Doc(j))
      /\ UNCHANGED <<status, cut, vectors, cuts, writer>>
      /\ Kinded(j) /\ Cutting(j) /\ TypeOK
      /\ to \in Steps /\ status[Doc(j)] \in Statuses
  BY JobTyped DEF Load, IInv, Holds, Steps, Doc
<1>7. Notes(j, to, status[Doc(j)])
  <2>. DEFINE next == [split |-> "cut", find |-> "index"]
  <2>1. job' = [job EXCEPT ![j].at = next[job[j].at], ![j].seen = status[Doc(j)]]
    BY <1>1, JobTyped DEF Load, TypeOK
  <2>2. next[job[j].at] = to
    BY <1>1
  <2>. HIDE DEF next, to
  <2>. QED
    BY <2>1, <2>2 DEF Notes
<1>. HIDE DEF to
<1>2. /\ job' \in [Job -> Jobs] /\ \A k \in Job \ {j} : job'[k] = job[k]
      /\ job'[j].at = to /\ job'[j].seen = status[Doc(j)]
      /\ job'[j].done = job[j].done /\ job'[j].fresh = job[j].fresh
      /\ job'[j].kind = job[j].kind /\ job'[j].doc = job[j].doc
  <2>1. TypeOK /\ to \in Steps /\ status[Doc(j)] \in Statuses
    BY <1>1
  <2>. QED
    BY <2>1, <1>7, Seen
<1>3. Continues(j) /\ Kinded(j)' /\ Working(j)'
  BY <1>1, <1>2 DEF Continues, Kinded, Chunking, Working, None, to
<1>4. Cutting(j)'
  BY <1>1, <1>2 DEF Cutting, Doc, to
<1>5. "failed" \in Statuses \ {None, "ready"}
  BY DEF Statuses, Settled, None
<1>6. job'[j].at # "embed" /\ job[j].at # "embed"
  BY <1>1, <1>2 DEF to
<1>. QED
  BY <1>1, <1>2, <1>3, <1>4, <1>5, <1>6, StatusStep

LEMMA ReadFailsSafe == ASSUME IInv, NEW j \in Job, ReadFails(j) PROVE IInv'
<1>1. /\ job[j].at \in {"parsing", "split", "mark"} /\ Row(Doc(j))
      /\ UNCHANGED <<cut, vectors, cuts, writer>>
      /\ status' = [status EXCEPT ![Doc(j)] = "failed"]
      /\ Kinded(j) /\ TypeOK /\ Doc(j) \in Docs /\ status \in [Docs -> Statuses]
  BY JobTyped DEF ReadFails, IInv, Holds, Doc, TypeOK, Statuses
<1>2. PICK to \in {"mark", "over"} : Goes(j, to) /\ (job[j].at # "split" => to = "over")
                                     /\ (job[j].kind # "pipeline" => to = "over")
  BY <1>1 DEF ReadFails, Failed, Over
<1>3. /\ job' \in [Job -> Jobs] /\ \A k \in Job \ {j} : job'[k] = job[k]
      /\ job'[j].at = to
      /\ job'[j].done = job[j].done /\ job'[j].fresh = job[j].fresh
      /\ job'[j].kind = job[j].kind /\ job'[j].doc = job[j].doc
  BY <1>1, <1>2, Gone DEF Steps
<1>4. Continues(j) /\ Kinded(j)' /\ Cutting(j)'
  BY <1>1, <1>2, <1>3 DEF Continues, Kinded, Cutting, Chunking, None
<1>5. "failed" \in Statuses \ (Absent \cup {"ready"}) /\ status'[Doc(j)] \notin Busy
  BY <1>1 DEF Statuses, Settled, Absent, None, Busy
<1>. QED
  BY <1>1, <1>2, <1>3, <1>4, <1>5, StatusStep DEF Absent

LEMMA StartChunkSafe == ASSUME IInv, NEW j \in Job, StartChunk(j) PROVE IInv'
<1>1. /\ job[j].at = "chunk"
      /\ UNCHANGED <<cut, vectors, cuts, writer>>
      /\ \/ UNCHANGED status /\ job[j].seen = "chunking"
         \/ status' = [status EXCEPT ![Doc(j)] = "chunking"] /\ Row(Doc(j))
      /\ Goes(j, "split") /\ Kinded(j) /\ Cutting(j) /\ TypeOK
      /\ Doc(j) \in Docs /\ status \in [Docs -> Statuses]
  BY JobTyped DEF StartChunk, Sends, Put, IInv, Holds, Doc, TypeOK, Statuses
<1>2. /\ job' \in [Job -> Jobs] /\ \A k \in Job \ {j} : job'[k] = job[k]
      /\ job'[j].at = "split"
      /\ job'[j].done = job[j].done /\ job'[j].fresh = job[j].fresh
      /\ job'[j].kind = job[j].kind /\ job'[j].doc = job[j].doc
  BY <1>1, Gone DEF Steps
<1>3. Continues(j) /\ Kinded(j)' /\ Working(j)'
  BY <1>1, <1>2 DEF Continues, Kinded, Chunking, Working, None
<1>4. Cutting(j)'
  BY <1>1, <1>2 DEF Cutting, Doc
<1>5. "chunking" \in Statuses \ (Absent \cup {"ready"})
  BY DEF Statuses, Busy, Absent, None
<1>. QED
  BY <1>1, <1>2, <1>3, <1>4, <1>5, StatusStep DEF Absent

LEMMA StartIndexSafe == ASSUME IInv, NEW j \in Job, StartIndex(j) PROVE IInv'
<1>. DEFINE to == IF job[j].kind = "extend" THEN "read" ELSE "wipe"
<1>1. /\ job[j].at = "index"
      /\ UNCHANGED <<cut, vectors, cuts, writer>>
      /\ \/ UNCHANGED status
         \/ status' = [status EXCEPT ![Doc(j)] = "indexing"] /\ Row(Doc(j))
      /\ Goes(j, to) /\ Kinded(j) /\ TypeOK /\ to \in Steps
      /\ Doc(j) \in Docs /\ status \in [Docs -> Statuses]
  BY JobTyped DEF StartIndex, Sends, Put, IInv, Holds, Doc, TypeOK, Statuses, Steps
<1>. HIDE DEF to
<1>2. /\ job' \in [Job -> Jobs] /\ \A k \in Job \ {j} : job'[k] = job[k]
      /\ job'[j].at = to
      /\ job'[j].done = job[j].done /\ job'[j].fresh = job[j].fresh
      /\ job'[j].kind = job[j].kind /\ job'[j].doc = job[j].doc
  BY <1>1, Gone
<1>3. Continues(j) /\ Kinded(j)' /\ Working(j)' /\ Cutting(j)' /\ job'[j].at # "embed"
  BY <1>1, <1>2 DEF Continues, Kinded, Chunking, Working, Cutting, None, to
<1>5. "indexing" \in Statuses \ (Absent \cup {"ready"})
  BY DEF Statuses, Busy, Absent, None
<1>. QED
  BY <1>1, <1>2, <1>3, <1>5, StatusStep DEF Absent

\* The document is gone: nothing was committed, the lock is free again.
LEMMA VanishedSafe == ASSUME IInv, NEW j \in Job, Vanished(j) PROVE IInv'
<1>1. /\ job[j].at \notin {"idle", "over"} /\ ~Row(Doc(j))
      /\ UNCHANGED <<status, cut, vectors, cuts>>
      /\ writer' = IF writer = j THEN None ELSE writer
      /\ Goes(j, "over") /\ Holds(j) /\ Kinded(j) /\ TypeOK /\ Doc(j) \in Docs
  BY JobTyped DEF Vanished, Over, IInv, Holds, Doc
<1>2. /\ job' \in [Job -> Jobs] /\ \A k \in Job \ {j} : job'[k] = job[k]
      /\ job'[j].at = "over"
      /\ job'[j].done = job[j].done /\ job'[j].fresh = job[j].fresh
      /\ job'[j].kind = job[j].kind /\ job'[j].doc = job[j].doc
  BY <1>1, Gone DEF Steps
<1>3. Continues(j) /\ Kinded(j)' /\ Cutting(j)' /\ Embedding(j)'
  BY <1>1, <1>2 DEF Continues, Kinded, Cutting, Embedding, Chunking, None
<1>4. Begun(j)' /\ Locked(j)'
  BY <1>1, <1>2, KnowledgeConstants DEF Holds, Begun, Locked, Doc, None
<1>5. TypeOK'
  BY <1>1, <1>2 DEF TypeOK, Jobs, Statuses
<1>6. Frame(j)
  BY <1>1, <1>2 DEF Frame, Row
<1>7. \A d \in Docs : Sound(d)'
  BY <1>1 DEF IInv, Sound, Row
<1>8. status'[Doc(j)] \notin Busy
  BY <1>1 DEF Row, Absent, Busy, None
<1>. QED
  BY <1>1, <1>3, <1>4, <1>5, <1>6, <1>7, <1>8, StepSafe DEF Holds

LEMMA NothingToIndexSafe == ASSUME IInv, NEW j \in Job, NothingToIndex(j) PROVE IInv'
<1>. DEFINE d == Doc(j)
<1>1. /\ job[j].at \in {"wipe", "read"} /\ writer = None /\ UNCHANGED <<cut, cuts, writer>>
      /\ Holds(j) /\ Kinded(j) /\ TypeOK /\ d \in Docs
      /\ \/ Row(d) /\ cut[d] = 0 /\ status' = [status EXCEPT ![d] = "failed"]
            /\ \/ vectors' = [vectors EXCEPT ![d] = {}]
               \/ vectors' = [vectors EXCEPT ![d] = vectors[d]]
         \/ ~Row(d) /\ UNCHANGED <<status, vectors>>
  BY JobTyped DEF NothingToIndex, IInv, Holds, Doc, TypeOK
<1>2. PICK to \in {"mark", "over"} : Goes(j, to) /\ (job[j].kind # "pipeline" => to = "over")
  BY <1>1 DEF NothingToIndex, Failed, Over
<1>3. /\ job' \in [Job -> Jobs] /\ \A k \in Job \ {j} : job'[k] = job[k]
      /\ job'[j].at = to
      /\ job'[j].done = job[j].done /\ job'[j].fresh = job[j].fresh
      /\ job'[j].kind = job[j].kind /\ job'[j].doc = job[j].doc
  BY <1>1, <1>2, Gone DEF Steps
<1>4. Continues(j) /\ Kinded(j)' /\ Cutting(j)' /\ Embedding(j)' /\ Working(j)
  BY <1>1, <1>2, <1>3 DEF Continues, Kinded, Cutting, Embedding, Chunking, Working, None
<1>5. /\ status \in [Docs -> Statuses] /\ vectors \in [Docs -> SUBSET ((1..MaxCuts) \X Part)]
      /\ status[d] # None
  BY <1>1, <1>4 DEF TypeOK, Statuses, Holds, Begun, Continues
<1>6. /\ status' \in [Docs -> Statuses] /\ vectors' \in [Docs -> SUBSET ((1..MaxCuts) \X Part)]
      /\ \A e \in Docs \ {d} : status'[e] = status[e] /\ vectors'[e] = vectors[e]
      /\ vectors'[d] = {} \/ vectors'[d] = vectors[d]
      /\ \/ status'[d] = "failed" /\ Row(d) /\ cut[d] = 0
         \/ status'[d] = status[d] /\ ~Row(d) /\ vectors'[d] = vectors[d]
  BY <1>1, <1>5 DEF Statuses, Settled
<1>7. Begun(j)' /\ Locked(j)'
  BY <1>1, <1>3, <1>5, <1>6, KnowledgeConstants DEF Begun, Locked, Doc, None
<1>8. TypeOK'
  BY <1>1, <1>3, <1>6 DEF TypeOK, Jobs, Statuses
<1>9. Frame(j)
  BY <1>1, <1>3, <1>4, <1>6 DEF Frame, Row, None
<1>10. ASSUME NEW e \in Docs PROVE Sound(e)'
  BY <1>1, <1>6 DEF IInv, Sound, Row, Absent
<1>11. status'[d] \notin Busy
  BY <1>6 DEF Row, Absent, Busy, None
<1>. QED
  BY <1>4, <1>6, <1>7, <1>8, <1>9, <1>10, <1>11, StepSafe DEF Holds

\* A document is cut: its status says so, for the chunker had one to send.
LEMMA CutSafe == ASSUME IInv, NEW j \in Job, Cut(j) PROVE IInv'
<1>. DEFINE d == Doc(j)
            to == IF job[j].kind = "pipeline" THEN "find" ELSE "over"
<1>1. /\ job[j].at = "cut" /\ writer = None /\ UNCHANGED writer
      /\ Row(d) /\ status' = [status EXCEPT ![d] = "uploaded"]
      /\ cuts < MaxCuts /\ cuts' = cuts + 1
      /\ cut' = [cut EXCEPT ![d] = cuts + 1] /\ vectors' = [vectors EXCEPT ![d] = {}]
      /\ Goes(j, to) /\ Holds(j) /\ Kinded(j) /\ TypeOK /\ d \in Docs
  BY JobTyped DEF Cut, Sends, Put, Cutting, IInv, Holds, Doc, TypeOK
<1>2. /\ job' \in [Job -> Jobs] /\ \A k \in Job \ {j} : job'[k] = job[k]
      /\ job'[j].at = to
      /\ job'[j].done = job[j].done /\ job'[j].fresh = job[j].fresh
      /\ job'[j].kind = job[j].kind /\ job'[j].doc = job[j].doc
  BY <1>1, Gone DEF Steps
<1>3. /\ Continues(j) /\ Kinded(j)' /\ Cutting(j)' /\ Embedding(j)'
      /\ Working(j) /\ Chunking(j) /\ job'[j].at # "embed"
  BY <1>1, <1>2 DEF Continues, Kinded, Cutting, Embedding, Chunking, Working, None
<1>4. /\ status \in [Docs -> Statuses] /\ vectors \in [Docs -> SUBSET ((1..MaxCuts) \X Part)]
      /\ cut \in [Docs -> 0..MaxCuts] /\ cuts + 1 \in 0..MaxCuts
  BY <1>1, KnowledgeConstants DEF TypeOK, Statuses
<1>5. /\ status' \in [Docs -> Statuses] /\ vectors' \in [Docs -> SUBSET ((1..MaxCuts) \X Part)]
      /\ cut' \in [Docs -> 0..MaxCuts]
      /\ \A e \in Docs \ {d} : status'[e] = status[e] /\ vectors'[e] = vectors[e] /\ cut'[e] = cut[e]
      /\ vectors'[d] = {} /\ status'[d] = "uploaded"
  BY <1>1, <1>4 DEF Statuses, Settled
<1>6. Begun(j)' /\ Locked(j)'
  BY <1>1, <1>2, <1>3, <1>5, KnowledgeConstants DEF Begun, Locked, Doc, None
<1>7. TypeOK'
  BY <1>1, <1>2, <1>4, <1>5 DEF TypeOK, Jobs, Statuses
<1>8. Frame(j)
  BY <1>1, <1>2, <1>3, <1>5 DEF Frame, Row, None
<1>9. ASSUME NEW e \in Docs PROVE Sound(e)'
  BY <1>5 DEF IInv, Sound, Row, Absent, None
<1>10. status'[d] \notin Busy
  BY <1>5 DEF Busy
<1>. QED
  BY <1>3, <1>5, <1>6, <1>7, <1>8, <1>9, <1>10, StepSafe DEF Holds

\* A run reads the cut it embeds; one that deleted vectors has the lock.
LEMMA ReadChunksSafe == ASSUME IInv, NEW j \in Job, ReadChunks(j) PROVE IInv'
<1>. DEFINE d == Doc(j)
<1>1. /\ job[j].at \in {"wipe", "read"} /\ UNCHANGED <<status, cut, vectors, cuts>>
      /\ job[j].at = "wipe" => writer = None
      /\ writer' = IF job[j].at = "wipe" THEN j ELSE writer
      /\ Row(d) /\ cut[d] # 0
      /\ Takes(j, "embed", cut[d])
      /\ Holds(j) /\ Kinded(j) /\ TypeOK /\ d \in Docs /\ cut[d] \in 0..MaxCuts
  BY JobTyped DEF ReadChunks, Takes, IInv, Holds, Doc, TypeOK
<1>2. /\ job' \in [Job -> Jobs] /\ \A k \in Job \ {j} : job'[k] = job[k]
      /\ job'[j].at = "embed" /\ job'[j].cut = cut[d]
      /\ job'[j].done = job[j].done /\ job'[j].fresh = job[j].fresh
      /\ job'[j].kind = job[j].kind /\ job'[j].doc = job[j].doc
  BY <1>1, CutSeen DEF Steps
<1>3. Continues(j) /\ Kinded(j)' /\ Cutting(j)' /\ Working(j)' /\ Working(j)
  BY <1>1, <1>2 DEF Continues, Kinded, Cutting, Chunking, Working, None
<1>4. job'[j].done = {} /\ job'[j].fresh = {}
  BY <1>1, <1>2 DEF Kinded
<1>5. Begun(j)' /\ Embedding(j)'
  BY <1>1, <1>2, <1>4 DEF Holds, Begun, Embedding, Current, Doc
<1>6. Locked(j)'
  BY <1>1, <1>2 DEF Locked, Kinded
<1>7. TypeOK'
  BY <1>1, <1>2 DEF TypeOK, Jobs, Statuses
<1>8. Frame(j)
  BY <1>1, <1>2 DEF Frame, Row
<1>9. \A e \in Docs : Sound(e)'
  BY <1>1 DEF IInv, Sound, Row
<1>. QED
  BY <1>1, <1>3, <1>5, <1>6, <1>7, <1>8, <1>9, StepSafe DEF Holds

LEMMA EmbedSafe == ASSUME IInv, NEW j \in Job, NEW p \in Part, Embed(j, p) PROVE IInv'
<1>. DEFINE d == Doc(j)
            done == job[j].done \cup {p}
            fresh == IF <<job[j].cut, p>> \in Kept(j) THEN job[j].fresh ELSE job[j].fresh \cup {p}
<1>1. /\ job[j].at = "embed" /\ p \notin job[j].done
      /\ UNCHANGED <<status, cut, vectors, cuts, writer>>
      /\ Holds(j) /\ Kinded(j) /\ TypeOK /\ d \in Docs
      /\ done \in SUBSET Part /\ fresh \in SUBSET Part
  BY JobTyped DEF Embed, IInv, Holds, Doc
<1>2. Receives(j, done, fresh)
  <2>1. job[j] \in Jobs /\ job \in [Job -> Jobs]
    BY <1>1, JobTyped DEF TypeOK, Jobs, Statuses
  <2>. QED
    BY <2>1 DEF Embed, Receives, Jobs
<1>. HIDE DEF done, fresh
<1>3. /\ job' \in [Job -> Jobs] /\ \A k \in Job \ {j} : job'[k] = job[k]
      /\ job'[j].at = "embed" /\ job'[j].cut = job[j].cut
      /\ job'[j].done = done /\ job'[j].fresh = fresh
      /\ job'[j].kind = job[j].kind /\ job'[j].doc = job[j].doc
  BY <1>1, <1>2, BatchSeen
<1>4. Continues(j) /\ Kinded(j)' /\ Cutting(j)' /\ Working(j)'
  BY <1>1, <1>3 DEF Continues, Kinded, Cutting, Chunking, Working, None
<1>5. Begun(j)' /\ Locked(j)'
  BY <1>1, <1>3 DEF Holds, Begun, Locked, Doc
<1>6. Embedding(j)'
  <2>1. Kept(j)' = Kept(j) /\ Doc(j)' = d /\ cut'[d] = cut[d] /\ Row(d)' = Row(d)
    BY <1>1, <1>3 DEF Kept, Doc, Row
  <2>2. /\ job[j].cut # 0 /\ job[j].fresh \subseteq job[j].done
        /\ Row(d) => Current(j)
    BY <1>1 DEF Holds, Embedding
  <2>3. fresh \subseteq done
    BY <2>2 DEF fresh, done
  <2>4. Current(j) => Current(j)'
    <3>1. ASSUME Current(j), NEW q \in done
          PROVE  q \in fresh <=> <<job[j].cut, q>> \notin Kept(j)
      BY <1>1, <2>2, <3>1 DEF Current, fresh, done
    <3>. QED
      BY <1>3, <2>1, <3>1 DEF Current
  <2>. QED
    BY <1>3, <2>1, <2>2, <2>3, <2>4 DEF Embedding
<1>7. TypeOK'
  BY <1>1, <1>3 DEF TypeOK, Jobs, Statuses
<1>8. Frame(j)
  BY <1>1, <1>3 DEF Frame, Row
<1>9. \A e \in Docs : Sound(e)'
  BY <1>1 DEF IInv, Sound, Row
<1>. QED
  BY <1>1, <1>4, <1>5, <1>6, <1>7, <1>8, <1>9, StepSafe DEF Holds

\* The run ends: with every batch the document has them all.
LEMMA IndexedSafe == ASSUME IInv, NEW j \in Job, Indexed(j) PROVE IInv'
<1>. DEFINE d == Doc(j)
            new == {job[j].cut} \X job[j].fresh
            s == IF job[j].done = Part THEN "ready" ELSE "failed"
<1>1. /\ job[j].at = "embed" /\ writer \in {None, j} /\ Row(d) /\ writer' = None
      /\ UNCHANGED <<cut, cuts>>
      /\ Holds(j) /\ Kinded(j) /\ TypeOK /\ d \in Docs
      /\ job[j].cut \in 0..MaxCuts /\ job[j].done \subseteq Part /\ job[j].fresh \subseteq Part
  BY JobTyped DEF Indexed, IInv, Holds, Doc
<1>2. PICK to \in {"mark", "over"} : Goes(j, to) /\ (job[j].kind # "pipeline" => to = "over")
  BY DEF Indexed, Failed, Over
<1>3. /\ job' \in [Job -> Jobs] /\ \A k \in Job \ {j} : job'[k] = job[k]
      /\ job'[j].at = to
      /\ job'[j].done = job[j].done /\ job'[j].fresh = job[j].fresh
      /\ job'[j].kind = job[j].kind /\ job'[j].doc = job[j].doc
  BY <1>1, <1>2, Gone DEF Steps
<1>4. Continues(j) /\ Kinded(j)' /\ Cutting(j)' /\ Embedding(j)' /\ Working(j)
  BY <1>1, <1>2, <1>3 DEF Continues, Kinded, Cutting, Embedding, Chunking, Working, None
<1>5. job[j].cut # 0 /\ job[j].fresh \subseteq job[j].done /\ Current(j)
  BY <1>1 DEF Holds, Embedding
<1>6. new \cap Kept(j) = {}
  BY <1>5 DEF Current
<1>7. /\ vectors' = [vectors EXCEPT ![d] = Kept(j) \cup new]
      /\ status' = [status EXCEPT ![d] = s]
  BY <1>6 DEF Indexed
<1>8. /\ status \in [Docs -> Statuses] /\ vectors \in [Docs -> SUBSET ((1..MaxCuts) \X Part)]
      /\ Kept(j) \subseteq vectors[d] /\ new \subseteq (1..MaxCuts) \X Part
  BY <1>1, <1>5 DEF TypeOK, Statuses, Kept
<1>. HIDE DEF new
<1>9. /\ status' \in [Docs -> Statuses] /\ vectors' \in [Docs -> SUBSET ((1..MaxCuts) \X Part)]
      /\ \A e \in Docs \ {d} : status'[e] = status[e] /\ vectors'[e] = vectors[e]
      /\ vectors'[d] = Kept(j) \cup new /\ status'[d] = s /\ s \in {"ready", "failed"}
  BY <1>1, <1>7, <1>8 DEF Statuses, Settled
<1>10. Begun(j)' /\ Locked(j)'
  BY <1>1, <1>2, <1>3, <1>9, KnowledgeConstants DEF Begun, Locked, Doc, None
<1>11. TypeOK'
  BY <1>1, <1>3, <1>9 DEF TypeOK, Jobs, Statuses
<1>12. Frame(j)
  BY <1>1, <1>3, <1>4, <1>9 DEF Frame, Row, None
<1>13. ASSUME NEW e \in Docs, e = d PROVE Sound(e)'
  <2>1. \A v \in vectors'[e] : v[1] = cut'[e]
    BY <1>1, <1>5, <1>8, <1>9, <1>13 DEF IInv, Sound, Current, new
  <2>2. status'[e] \notin Absent
    BY <1>9, <1>13 DEF Absent, None
  <2>3. ASSUME status'[e] = "ready" PROVE cut'[e] # 0 /\ {cut'[e]} \X Part \subseteq vectors'[e]
    <3>1. job[j].done = Part
      BY <1>9, <1>13, <2>3
    <3>2. \A p \in Part : <<job[j].cut, p>> \in Kept(j) \cup new
      BY <1>5, <3>1 DEF Current, new
    <3>. QED
      BY <1>1, <1>5, <1>9, <1>13, <3>2 DEF Current
  <2>. QED
    BY <2>1, <2>2, <2>3 DEF Sound, Row
<1>14. ASSUME NEW e \in Docs PROVE Sound(e)'
  BY <1>1, <1>9, <1>13 DEF IInv, Sound, Row
<1>15. status'[d] \notin Busy
  BY <1>9 DEF Busy
<1>. QED
  BY <1>4, <1>9, <1>10, <1>11, <1>12, <1>14, <1>15, StepSafe DEF Holds

LEMMA PublishSafe == ASSUME IInv, NEW j \in Job, Publish(j) PROVE IInv'
<1>. DEFINE shared == {<<cuts + 1, p>> : p \in {q \in Part : <<cut["source"], q>> \in vectors["source"]}}
            c == IF cut["source"] = 0 THEN 0 ELSE cuts + 1
<1>1. /\ job[j].at = "publish" /\ writer = None /\ UNCHANGED writer
      /\ status["copy"] = None /\ status' = [status EXCEPT !["copy"] = "ready"]
      /\ cuts < MaxCuts /\ cuts' = cuts + 1
      /\ cut' = [cut EXCEPT !["copy"] = c] /\ vectors' = [vectors EXCEPT !["copy"] = shared]
      /\ Goes(j, "over") /\ Holds(j) /\ Kinded(j) /\ TypeOK
  BY DEF Publish, Over, IInv, Holds
<1>2. /\ job' \in [Job -> Jobs] /\ \A k \in Job \ {j} : job'[k] = job[k]
      /\ job'[j].at = "over"
      /\ job'[j].done = job[j].done /\ job'[j].fresh = job[j].fresh
      /\ job'[j].kind = job[j].kind /\ job'[j].doc = job[j].doc
  BY <1>1, Gone DEF Steps
<1>3. /\ status \in [Docs -> Statuses] /\ vectors \in [Docs -> SUBSET ((1..MaxCuts) \X Part)]
      /\ cut \in [Docs -> 0..MaxCuts] /\ cuts + 1 \in 1..MaxCuts /\ "copy" \in Docs /\ "source" \in Docs
  BY <1>1, KnowledgeConstants DEF TypeOK, Statuses, Docs
<1>4. shared \subseteq (1..MaxCuts) \X Part /\ c \in 0..MaxCuts
      /\ (c = 0 => shared = {}) /\ \A v \in shared : v[1] = cuts + 1
  <2>1. shared \subseteq (1..MaxCuts) \X Part /\ \A v \in shared : v[1] = cuts + 1
    <3>. SUFFICES ASSUME NEW v \in shared
                  PROVE  v \in (1..MaxCuts) \X Part /\ v[1] = cuts + 1
      OBVIOUS
    <3>1. PICK p \in Part : v = <<cuts + 1, p>>
      OBVIOUS
    <3>. QED
      BY <1>3, <3>1
  <2>2. c \in 0..MaxCuts
    BY <1>3
  <2>3. ASSUME c = 0 PROVE shared = {}
    <3>1. cut["source"] = 0
      BY <1>3, <2>3, KnowledgeConstants
    <3>2. \A q \in Part : <<0, q>> \notin vectors["source"]
      BY <1>3
    <3>. QED
      BY <3>1, <3>2
  <2>. QED
    BY <2>1, <2>2, <2>3
<1>. HIDE DEF shared, c
<1>5. /\ status' \in [Docs -> Statuses] /\ vectors' \in [Docs -> SUBSET ((1..MaxCuts) \X Part)]
      /\ cut' \in [Docs -> 0..MaxCuts]
      /\ \A e \in Docs \ {"copy"} : status'[e] = status[e] /\ vectors'[e] = vectors[e] /\ cut'[e] = cut[e]
      /\ status'["copy"] = "ready" /\ vectors'["copy"] = shared /\ cut'["copy"] = c
  BY <1>1, <1>3, <1>4 DEF Statuses, Settled
<1>6. Continues(j) /\ Kinded(j)' /\ Cutting(j)' /\ Embedding(j)' /\ ~Working(j)
  BY <1>1, <1>2 DEF Continues, Kinded, Cutting, Embedding, Chunking, Working, None
<1>7. Doc(j) # "copy" /\ Doc(j) \in Docs
  BY <1>1, <1>6, JobTyped DEF Holds, Begun, Continues, Doc
<1>8. Begun(j)' /\ Locked(j)'
  BY <1>1, <1>2, <1>5, <1>7, KnowledgeConstants DEF Holds, Begun, Locked, Doc, None
<1>9. TypeOK'
  BY <1>1, <1>2, <1>3, <1>5 DEF TypeOK, Jobs, Statuses
<1>10. Frame(j)
  BY <1>1, <1>2, <1>5 DEF Frame, Row
<1>11. ASSUME NEW e \in Docs PROVE Sound(e)'
  <2>1. CASE e = "copy"
    <3>1. \A v \in shared : v[1] = c
      BY <1>4 DEF c
    <3>. QED
      BY <1>5, <2>1, <3>1 DEF Sound, Row, Absent, None
  <2>2. CASE e # "copy"
    BY <1>5, <2>2 DEF IInv, Sound, Row
  <2>. QED
    BY <2>1, <2>2
<1>12. \A d \in Docs \ {Doc(j)} :
          (status[d] = None /\ status'[d] \notin Busy) \/ status'[d] = status[d]
  BY <1>1, <1>5 DEF Busy
<1>. QED
  BY <1>5, <1>6, <1>7, <1>8, <1>9, <1>10, <1>11, <1>12, StepSafe DEF Holds

-----------------------------------------------------------------------------
(* Requests that begin, documents that go.                                  *)

LEMMA DeleteSafe == ASSUME IInv, NEW d \in Docs, Delete(d) PROVE IInv'
<1>1. /\ Row(d) /\ UNCHANGED <<cuts, writer, job>> /\ TypeOK
      /\ status \in [Docs -> Statuses] /\ vectors \in [Docs -> SUBSET ((1..MaxCuts) \X Part)]
      /\ cut \in [Docs -> 0..MaxCuts]
  BY DEF Delete, IInv, TypeOK, Statuses
<1>2. /\ status' \in [Docs -> Statuses] /\ vectors' \in [Docs -> SUBSET ((1..MaxCuts) \X Part)]
      /\ cut' \in [Docs -> 0..MaxCuts]
      /\ \A e \in Docs \ {d} : status'[e] = status[e] /\ vectors'[e] = vectors[e] /\ cut'[e] = cut[e]
      /\ status'[d] = "gone" /\ cut'[d] = 0 /\ vectors'[d] = {}
  BY <1>1, KnowledgeConstants DEF Delete, Statuses, Absent
<1>3. TypeOK'
  BY <1>1, <1>2 DEF TypeOK, Statuses
<1>4. ASSUME NEW k \in Job PROVE Holds(k)'
  <2>1. Holds(k) /\ Doc(k) \in Docs /\ Doc(k)' = Doc(k) /\ job'[k] = job[k]
    BY <1>1, JobTyped DEF IInv, Doc
  <2>2. Kinded(k)' /\ Locked(k)'
    BY <1>1, <2>1 DEF Holds, Kinded, Locked
  <2>3. CASE Doc(k) = d
    BY <1>2, <2>1, <2>2, <2>3 DEF Holds, Begun, Cutting, Embedding, Row, Absent, None, Doc
  <2>4. CASE Doc(k) # d
    BY <1>2, <2>1, <2>2, <2>4 DEF Holds, Begun, Cutting, Embedding, Current, Kept, Row, Doc
  <2>. QED
    BY <2>3, <2>4
<1>5. Alone'
  BY <1>1 DEF IInv, Alone, Doc, Extending, Working, Chunking
<1>6. ASSUME NEW e \in Docs PROVE Worked(e)' /\ Sound(e)'
  <2>1. CASE e = d
    BY <1>2, <2>1 DEF Worked, Sound, Busy, Row, Absent
  <2>2. CASE e # d
    BY <1>1, <1>2, <2>2 DEF IInv, Worked, Sound, Row, Working, Doc
  <2>. QED
    BY <2>1, <2>2
<1>. QED
  BY <1>3, <1>4, <1>5, <1>6 DEF IInv

\* A request begins where its kind begins, in nobody's way.
LEMMA BeginSafe ==
  ASSUME IInv, NEW j \in Job, NEW kind \in Kinds, NEW d \in Docs, NEW step \in Steps,
         NEW seen \in Statuses, Begin(j, kind, d, step, seen),
         UNCHANGED <<cut, vectors, cuts, writer>>,
         \/ UNCHANGED status /\ Row(d)
         \/ status' = [status EXCEPT ![d] = "uploaded"] /\ status[d] = None,
         \/ kind = "pipeline" /\ step \in {"sync", "clear", "over"}
         \/ kind = "chunk" /\ step = "chunk" /\ seen = status[d]
         \/ kind \in {"rebuild", "extend"} /\ step = "index"
         \/ kind = "publish" /\ step = "publish" /\ d = "source",
         \A k \in Job : Doc(k) = d =>
            /\ kind # "publish" => ~Extending(k)
            /\ kind = "extend" => ~Working(k)
            /\ kind \in {"pipeline", "chunk"} => ~Chunking(k)
  PROVE  IInv'
<1>. DEFINE new == [job[j] EXCEPT !.at = step, !.kind = kind, !.doc = d, !.seen = seen]
<1>1. /\ job[j] \in Jobs /\ job \in [Job -> Jobs] /\ job[j].at = "idle" /\ Holds(j) /\ Kinded(j)
      /\ TypeOK /\ status \in [Docs -> Statuses]
  BY JobTyped DEF Begin, IInv, Holds, TypeOK, Jobs, Statuses
<1>2. job' = [job EXCEPT ![j] = new]
  BY <1>1 DEF Begin, Jobs
<1>3. /\ new \in Jobs /\ new.at = step /\ new.seen = seen /\ new.kind = kind /\ new.doc = d
      /\ new.done = job[j].done /\ new.fresh = job[j].fresh
  BY <1>1 DEF Jobs
<1>. HIDE DEF new
<1>4. /\ job' \in [Job -> Jobs] /\ \A k \in Job \ {j} : job'[k] = job[k]
      /\ job'[j].at = step /\ job'[j].seen = seen /\ job'[j].kind = kind /\ Doc(j)' = d
      /\ job'[j].done = {} /\ job'[j].fresh = {}
  BY <1>1, <1>2, <1>3 DEF Kinded, Doc
<1>5. /\ status' \in [Docs -> Statuses] /\ \A e \in Docs \ {d} : status'[e] = status[e]
      /\ \/ status'[d] = status[d] /\ Row(d)
         \/ status'[d] = "uploaded" /\ status[d] = None
  BY <1>1 DEF Statuses, Settled
<1>6. Kinded(j)' /\ Cutting(j)' /\ Embedding(j)'
  BY <1>4, <1>5 DEF Kinded, Cutting, Embedding, None
<1>7. Begun(j)' /\ Locked(j)'
  BY <1>1, <1>4, <1>5, KnowledgeConstants DEF Holds, Begun, Locked, Row, Absent, None
<1>8. TypeOK'
  BY <1>1, <1>4, <1>5 DEF TypeOK, Jobs, Statuses
<1>9. Frame(j)
  BY <1>4, <1>5 DEF Frame, Row
<1>10. \A k \in Job : Holds(k)'
  BY <1>6, <1>7, <1>9, Bystander DEF Holds
<1>11. /\ ~Working(j) /\ ~Chunking(j) /\ ~Extending(j)
       /\ Extending(j)' => kind = "extend" /\ Working(j)'
       /\ Working(j)' => kind # "publish"
       /\ Chunking(j)' => kind \in {"pipeline", "chunk"}
       /\ \A k \in Job \ {j} : /\ Doc(k)' = Doc(k) /\ Working(k)' = Working(k)
                               /\ Chunking(k)' = Chunking(k) /\ Extending(k)' = Extending(k)
  BY <1>1, <1>4 DEF Kinded, Working, Chunking, Extending, Doc, None
<1>12. Alone'
  BY <1>4, <1>11 DEF IInv, Alone
<1>13. ASSUME NEW e \in Docs PROVE Worked(e)' /\ Sound(e)'
  <2>1. Sound(e)'
    BY <1>5 DEF IInv, Sound, Row, Absent
  <2>2. status'[e] \in Busy => status[e] \in Busy
    BY <1>5 DEF Busy
  <2>. QED
    BY <1>11, <2>1, <2>2 DEF IInv, Worked
<1>. QED
  BY <1>8, <1>10, <1>12, <1>13 DEF IInv

LEMMA StartsSafe == ASSUME IInv, ~Overlap, NEW j \in Job, Starts(j) PROVE IInv'
<1>. /\ {"pipeline", "chunk", "rebuild", "extend", "publish"} \subseteq Kinds
     /\ "source" \in Docs /\ "uploaded" \in Statuses /\ status \in [Docs -> Statuses]
     /\ {"clear", "over", "sync", "chunk", "index", "publish"} \subseteq Steps
  BY DEF Kinds, Docs, Statuses, Settled, Steps, IInv, TypeOK
<1>1. ASSUME NEW indexed \in BOOLEAN, Create(j, indexed) PROVE IInv'
  <2>1. \A k \in Job : Doc(k) = "source" => job[k].kind = None
    BY <1>1 DEF Create, IInv, Holds, Begun
  <2>2. \A k \in Job : Doc(k) = "source" => ~Extending(k) /\ ~Working(k) /\ ~Chunking(k)
    BY <2>1 DEF Extending, Working, Chunking, None
  <2>. QED
    BY <1>1, <2>2, BeginSafe DEF Create
<1>2. CASE Confirm(j)
  BY <1>2, BeginSafe DEF Confirm, MayStart
<1>3. ASSUME NEW d \in Docs, Request(j, "chunk", d, "chunk") PROVE IInv'
  BY <1>3, BeginSafe DEF Request, MayStart
<1>4. ASSUME NEW d \in Docs, NEW kind \in {"rebuild", "extend"}, Request(j, kind, d, "index")
      PROVE  IInv'
  BY <1>4, BeginSafe DEF Request, MayStart
<1>5. ASSUME NEW d \in Docs, Request(j, "publish", d, "publish") PROVE IInv'
  BY <1>5, BeginSafe DEF Request, MayStart
<1>. QED
  BY <1>1, <1>2, <1>3, <1>4, <1>5 DEF Starts

-----------------------------------------------------------------------------
LEMMA InitSafe == Init => IInv
<1>. SUFFICES ASSUME Init PROVE IInv
  OBVIOUS
<1>1. TypeOK
  BY KnowledgeConstants DEF Init, TypeOK, Docs, Absent, Busy, Settled, Steps, Kinds, None
<1>2. ASSUME NEW j \in Job PROVE Holds(j) /\ job[j].kind = None
  BY KnowledgeConstants
  DEF Init, Holds, Kinded, Begun, Cutting, Locked, Embedding, None
<1>3. Alone
  BY <1>2 DEF Alone, Extending, Chunking, None
<1>4. ASSUME NEW d \in Docs PROVE Worked(d) /\ Sound(d)
  BY DEF Init, Worked, Sound, Busy, None
<1>. QED
  BY <1>1, <1>2, <1>3, <1>4 DEF IInv

LEMMA WorksSafe == ASSUME IInv, NEW j \in Job, Works(j) PROVE IInv'
<1>1. CASE Clear(j) \/ Sync(j) \/ StartParse(j) \/ Parsed(j)
  <2>1. job[j].seen \in Statuses /\ {"parse", "parsing", "chunk"} \subseteq Steps
        /\ {"uploaded", "parsing"} \subseteq Statuses
    BY JobTyped DEF IInv, Steps, Statuses, Settled, Busy
  <2>. QED
    BY <1>1, <2>1, WriteThroughSafe DEF Clear, Sync, StartParse, Parsed
<1>. QED
  BY <1>1, VanishedSafe, LoadSafe, ReadFailsSafe, StartChunkSafe, CutSafe, StartIndexSafe,
     NothingToIndexSafe, ReadChunksSafe, EmbedSafe, IndexedSafe, PublishSafe DEF Works

LEMMA NextSafe == ~Overlap => (IInv /\ [Next]_vars => IInv')
<1>. SUFFICES ASSUME ~Overlap, IInv, [Next]_vars PROVE IInv'
  OBVIOUS
<1>1. CASE UNCHANGED vars
  <2>1. \A j \in Job : Holds(j)'
    BY <1>1 DEF vars, IInv, Holds, Kinded, Begun, Cutting, Locked, Embedding, Current, Kept, Row, Doc
  <2>2. TypeOK' /\ Alone'
    BY <1>1 DEF vars, IInv, TypeOK, Alone, Doc, Extending, Chunking, Working
  <2>3. \A d \in Docs : Worked(d)' /\ Sound(d)'
    BY <1>1 DEF vars, IInv, Worked, Sound, Row, Doc, Working
  <2>. QED
    BY <2>1, <2>2, <2>3 DEF IInv
<1>2. CASE Next
  BY <1>2, StartsSafe, WorksSafe, DeleteSafe DEF Next
<1>. QED
  BY <1>1, <1>2

-----------------------------------------------------------------------------
\* Every ready document is searchable as a whole, however the requests that
\* parse, cut, index, confirm and delete it interleave and fail
\* (index_chunks, chunk_document, process_document_pipeline).
THEOREM SearchableWhenReady == ~Overlap => (Spec => []ReadyIsIndexed)
<1>1. IInv => ReadyIsIndexed
  BY DEF IInv, Sound, ReadyIsIndexed, Docs
<1>. SUFFICES ASSUME ~Overlap PROVE Spec => []ReadyIsIndexed
  OBVIOUS
<1>2. IInv /\ [Next]_vars => IInv'
  BY NextSafe
<1>. QED
  BY <1>1, <1>2, InitSafe, PTL DEF Spec

\* No vector outlives its chunk and no chunk its document, although nothing in
\* the database enforces it and a run may still work on what is deleted.
THEOREM NothingOrphaned == ~Overlap => (Spec => []NoOrphans)
<1>1. IInv => NoOrphans
  BY DEF IInv, Sound, NoOrphans
<1>. SUFFICES ASSUME ~Overlap PROVE Spec => []NoOrphans
  OBVIOUS
<1>2. IInv /\ [Next]_vars => IInv'
  BY NextSafe
<1>. QED
  BY <1>1, <1>2, InitSafe, PTL DEF Spec

\* A document at rest shows no step of a pipeline: whoever ends last has
\* settled its status, on every path and for every overlap of index runs.
THEOREM SettledAtRest == ~Overlap => (Spec => []RestIsSettled)
<1>1. IInv => RestIsSettled
  <2>1. \A j \in Job : IInv /\ Working(j) => job[j].at \notin {"idle", "over"}
    BY DEF IInv, Holds, Kinded, Working, None
  <2>. QED
    BY <2>1 DEF IInv, Worked, RestIsSettled
<1>. SUFFICES ASSUME ~Overlap PROVE Spec => []RestIsSettled
  OBVIOUS
<1>2. IInv /\ [Next]_vars => IInv'
  BY NextSafe
<1>. QED
  BY <1>1, <1>2, InitSafe, PTL DEF Spec
==============================================================================
