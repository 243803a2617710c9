----------------------------- MODULE Knowledge -----------------------------
(***************************************************************************)
(* A document of the knowledge base, the copy of it in the library, and    *)
(* the requests that parse, cut, index, publish and delete them: the       *)
(* upload pipeline, a confirmed conclusion, the chunk and index routes.    *)
(*                                                                         *)
(* As in MemoryCards the database is SQLite - the first write of a         *)
(* transaction takes the only write lock, foreign keys are not enforced -  *)
(* and the session writes a status only when it differs from the one it    *)
(* has loaded, and raises when it updates a row that is gone.  Contents    *)
(* are left out: a cut is the set of chunks one run of the chunker made,   *)
(* known by a number, and every cut has the same parts, one per batch of   *)
(* the embedding service.                                                  *)
(***************************************************************************)
EXTENDS Naturals, FiniteSets

CONSTANTS
    Job,            \* requests and background tasks
    Part,           \* batches of chunks a document is embedded in
    MaxCuts,        \* bound: how often documents are cut
    Overlap         \* may chunkers, and runs that add vectors, overlap?

ASSUME KnowledgeConstants ==
    /\ "none" \notin Job
    /\ MaxCuts \in Nat
    /\ Overlap \in BOOLEAN

VARIABLES
    status,     \* status[d]: committed status of the document's row
    cut,        \* cut[d]: the number of its chunks' cut, 0 without chunks
    vectors,    \* vectors[d]: <<cut, part>> of its embedding rows
    cuts,       \* cuts made so far
    writer,     \* job that holds the write lock across several steps
    job         \* job[j]: what j does and what it has read

vars == <<status, cut, vectors, cuts, writer, job>>

None == "none"
Docs == {"source", "copy"}
Busy == {"parsing", "chunking", "indexing"}
Settled == {"uploaded", "ready", "failed"}
Absent == {None, "gone"}
Steps == {"idle", "sync", "clear", "parse", "parsing", "chunk", "split", "cut", "find",
          "index", "wipe", "read", "embed", "mark", "publish", "over"}
Kinds == {None, "pipeline", "chunk", "rebuild", "extend", "publish"}

TypeOK ==
    /\ status \in [Docs -> Busy \cup Settled \cup Absent]
    /\ cut \in [Docs -> 0..MaxCuts]
    /\ vectors \in [Docs -> SUBSET ((1..MaxCuts) \X Part)]
    /\ cuts \in 0..MaxCuts
    /\ writer \in Job \cup {None}
    /\ job \in [Job -> [at : Steps, kind : Kinds, doc : Docs, seen : Busy \cup Settled \cup Absent,
                        cut : 0..MaxCuts, done : SUBSET Part, fresh : SUBSET Part]]

Init ==
    /\ status = [d \in Docs |-> None]
    /\ cut = [d \in Docs |-> 0]
    /\ vectors = [d \in Docs |-> {}]
    /\ cuts = 0
    /\ writer = None
    /\ job = [j \in Job |-> [at |-> "idle", kind |-> None, doc |-> "source", seen |-> None,
                             cut |-> 0, done |-> {}, fresh |-> {}]]

-----------------------------------------------------------------------------
Doc(j)      == job[j].doc
Row(d)      == status[d] \notin Absent
Chunking(j) == job[j].kind \in {"pipeline", "chunk"} /\ job[j].at \in
                   {"sync", "clear", "parse", "parsing", "chunk", "split", "cut"}
Working(j)  == job[j].kind \notin {None, "publish"} /\ job[j].at # "over"
Extending(j) == Working(j) /\ job[j].kind = "extend"

(* Without Overlap chunkers follow each other, and an index run that keeps *)
(* the vectors there are runs alone; everything else overlaps freely.      *)
MayStart(kind, d) ==
    Overlap \/ \A k \in Job : Doc(k) = d =>
        /\ kind # "publish" => ~Extending(k)
        /\ kind = "chunk" => ~Chunking(k)
        /\ kind = "extend" => ~Working(k)

Goes(j, step) == job' = [job EXCEPT ![j].at = step]
Over(j)   == Goes(j, "over")
Failed(j) == Goes(j, IF job[j].kind = "pipeline" THEN "mark" ELSE "over")

(* The session sends a status only when it is not the one it has loaded. *)
Put(j, s) == status' = IF job[j].seen = s THEN status ELSE [status EXCEPT ![Doc(j)] = s]
Sends(j, s) == job[j].seen # s

Begin(j, kind, d, step, seen) ==
    /\ job[j].at = "idle"
    /\ job' = [job EXCEPT ![j].at = step, ![j].kind = kind, ![j].doc = d, ![j].seen = seen]

(* import_document, upload_document, or a conclusion confirmed for the     *)
(* first time; the pipeline follows unless auto_index is off.              *)
Create(j, indexed) ==
    /\ status["source"] = None
    /\ writer = None
    /\ Begin(j, "pipeline", "source", IF indexed THEN "clear" ELSE "over", "uploaded")
    /\ status' = [status EXCEPT !["source"] = "uploaded"]
    /\ UNCHANGED <<cut, vectors, cuts, writer>>

(* A conclusion is confirmed again: its document was read, then rewritten. *)
Confirm(j) ==
    /\ Row("source")
    /\ MayStart("chunk", "source")
    /\ Begin(j, "pipeline", "source", "sync", status["source"])
    /\ UNCHANGED <<status, cut, vectors, cuts, writer>>

(* The chunk route, the index route and publishing begin by reading. *)
Request(j, kind, d, step) ==
    /\ Row(d)
    /\ MayStart(kind, d)
    /\ kind = "publish" => d = "source" /\ status[d] = "ready"
    /\ Begin(j, kind, d, step, status[d])
    /\ UNCHANGED <<status, cut, vectors, cuts, writer>>

(* The document was deleted meanwhile: the session raises, nothing is      *)
(* committed.  A chunker that has no status to send does not notice.       *)
Vanished(j) ==
    /\ ~Row(Doc(j))
    /\ \/ job[j].at \in {"sync", "clear", "parse", "parsing", "chunk", "split", "find", "embed", "mark"}
       \/ job[j].at = "cut" /\ Sends(j, "uploaded")
       \/ job[j].at = "index" /\ Sends(j, "indexing")
    /\ Over(j)
    /\ writer' = IF writer = j THEN None ELSE writer
    /\ UNCHANGED <<status, cut, vectors, cuts>>

-----------------------------------------------------------------------------
(* process_document_pipeline and chunk_document.                           *)

(* A status is written and, after the commit, the row is read again. *)
WriteThrough(j, from, s, to) ==
    /\ job[j].at = from
    /\ writer = None
    /\ Row(Doc(j))
    /\ Put(j, s)
    /\ job' = [job EXCEPT ![j].at = to, ![j].seen = status'[Doc(j)]]
    /\ UNCHANGED <<cut, vectors, cuts, writer>>

Clear(j)      == WriteThrough(j, "clear", job[j].seen, "parse")
Sync(j)       == WriteThrough(j, "sync", "uploaded", "parse")
StartParse(j) == WriteThrough(j, "parse", "parsing", "parsing")
Parsed(j)     == WriteThrough(j, "parsing", "uploaded", "chunk")

(* The chunker reads the text after its first commit, list_chunks the row  *)
(* after its second: the session knows the status of that moment.          *)
Load(j) ==
    LET next == [split |-> "cut", find |-> "index"] IN
    /\ job[j].at \in DOMAIN next
    /\ Row(Doc(j))
    /\ job' = [job EXCEPT ![j].at = next[@], ![j].seen = status[Doc(j)]]
    /\ UNCHANGED <<status, cut, vectors, cuts, writer>>

(* Nothing could be extracted, or the splitter raised; the pipeline marks  *)
(* the document failed once more when the chunker or the indexer did.      *)
ReadFails(j) ==
    /\ job[j].at \in {"parsing", "split", "mark"}
    /\ writer = None
    /\ Row(Doc(j))
    /\ status' = [status EXCEPT ![Doc(j)] = "failed"]
    /\ IF job[j].at = "split" THEN Failed(j) ELSE Over(j)
    /\ UNCHANGED <<cut, vectors, cuts, writer>>

StartChunk(j) ==
    /\ job[j].at = "chunk"
    /\ writer = None
    /\ Sends(j, "chunking") => Row(Doc(j))
    /\ Put(j, "chunking")
    /\ Goes(j, "split")
    /\ UNCHANGED <<cut, vectors, cuts, writer>>

\* Mutant: cutting a document again leaves the vectors of the old chunks.
CutKeepsVectors(j) ==
    /\ job[j].at = "cut"
    /\ writer = None
    /\ cuts < MaxCuts
    /\ Sends(j, "uploaded") => Row(Doc(j))
    /\ Put(j, "uploaded")
    /\ cuts' = cuts + 1
    /\ cut' = [cut EXCEPT ![Doc(j)] = cuts']
    /\ Goes(j, IF job[j].kind = "pipeline" THEN "find" ELSE "over")
    /\ UNCHANGED <<vectors, writer>>

(* Old vectors and chunks go and new chunks come in one transaction. *)
Cut(j) ==
    /\ job[j].at = "cut"
    /\ writer = None
    /\ cuts < MaxCuts
    /\ Sends(j, "uploaded") => Row(Doc(j))
    /\ Put(j, "uploaded")
    /\ cuts' = cuts + 1
    /\ cut' = [cut EXCEPT ![Doc(j)] = cuts']
    /\ vectors' = [vectors EXCEPT ![Doc(j)] = {}]
    /\ Goes(j, IF job[j].kind = "pipeline" THEN "find" ELSE "over")
    /\ UNCHANGED writer

-----------------------------------------------------------------------------
(* index_chunks.                                                           *)

StartIndex(j) ==
    /\ job[j].at = "index"
    /\ writer = None
    /\ Sends(j, "indexing") => Row(Doc(j))
    /\ Put(j, "indexing")
    /\ Goes(j, IF job[j].kind = "extend" THEN "read" ELSE "wipe")
    /\ UNCHANGED <<cut, vectors, cuts, writer>>

(* No document or no chunks: the failure is committed with the deletion. *)
NothingToIndex(j) ==
    /\ job[j].at \in {"wipe", "read"}
    /\ writer = None
    /\ ~Row(Doc(j)) \/ cut[Doc(j)] = 0
    /\ IF Row(Doc(j))
       THEN /\ status' = [status EXCEPT ![Doc(j)] = "failed"]
            /\ vectors' = [vectors EXCEPT ![Doc(j)] = IF job[j].at = "wipe" THEN {} ELSE @]
       ELSE UNCHANGED <<status, vectors>>
    /\ Failed(j)
    /\ UNCHANGED <<cut, cuts, writer>>

\* Mutant: the chunks are read before the deletion takes the write lock.
ReadChunksUnlocked(j) ==
    /\ job[j].at \in {"wipe", "read"}
    /\ Row(Doc(j))
    /\ cut[Doc(j)] # 0
    /\ job' = [job EXCEPT ![j].at = "embed", ![j].cut = cut[Doc(j)]]
    /\ UNCHANGED <<status, cut, vectors, cuts, writer>>

(* Rebuilding deletes first, which takes the lock; then chunks are read. *)
ReadChunks(j) ==
    /\ job[j].at \in {"wipe", "read"}
    /\ job[j].at = "wipe" => writer = None
    /\ Row(Doc(j))
    /\ cut[Doc(j)] # 0
    /\ writer' = IF job[j].at = "wipe" THEN j ELSE writer
    /\ job' = [job EXCEPT ![j].at = "embed", ![j].cut = cut[Doc(j)]]
    /\ UNCHANGED <<status, cut, vectors, cuts>>

(* The vectors the transaction leaves in place. *)
Kept(j) == IF job[j].kind = "extend" THEN vectors[Doc(j)] ELSE {}

(* One batch comes back; rows that are there already are only refreshed. *)
Embed(j, p) ==
    /\ job[j].at = "embed"
    /\ p \notin job[j].done
    /\ job' = [job EXCEPT ![j].done = @ \cup {p},
                          ![j].fresh = IF <<job[j].cut, p>> \in Kept(j) THEN @ ELSE @ \cup {p}]
    /\ UNCHANGED <<status, cut, vectors, cuts, writer>>

\* Mutant: an index run that fails leaves the status as it is.
IndexedOrSilent(j) ==
    /\ job[j].at = "embed"
    /\ writer \in {None, j}
    /\ Row(Doc(j))
    /\ vectors' = [vectors EXCEPT ![Doc(j)] = Kept(j) \cup {job[j].cut} \X job[j].fresh]
    /\ status' = IF job[j].done = Part THEN [status EXCEPT ![Doc(j)] = "ready"] ELSE status
    /\ writer' = None
    /\ IF job[j].done = Part THEN Over(j) ELSE Failed(j)
    /\ UNCHANGED <<cut, cuts>>

(* The run ends: ready with every batch, failed with those that came back. *)
(* A vector somebody else inserted meanwhile makes the commit fail.        *)
Indexed(j) ==
    LET new == {job[j].cut} \X job[j].fresh IN
    /\ job[j].at = "embed"
    /\ writer \in {None, j}
    /\ Row(Doc(j))
    /\ IF new \cap Kept(j) = {}
       THEN /\ vectors' = [vectors EXCEPT ![Doc(j)] = Kept(j) \cup new]
            /\ status' = [status EXCEPT ![Doc(j)] = IF job[j].done = Part THEN "ready" ELSE "failed"]
       ELSE UNCHANGED <<vectors, status>>
    /\ writer' = None
    /\ IF job[j].done = Part THEN Over(j) ELSE Failed(j)
    /\ UNCHANGED <<cut, cuts>>

-----------------------------------------------------------------------------
(* publish_document_to_library: the status it copies was read before the   *)
(* lock, chunks and vectors are copied under it.                           *)
Publish(j) ==
    /\ job[j].at = "publish"
    /\ writer = None
    /\ status["copy"] = None
    /\ cuts < MaxCuts
    /\ status' = [status EXCEPT !["copy"] = "ready"]
    /\ cuts' = cuts + 1
    /\ cut' = [cut EXCEPT !["copy"] = IF cut["source"] = 0 THEN 0 ELSE cuts']
    /\ vectors' = [vectors EXCEPT !["copy"] =
                      {<<cuts', p>> : p \in {q \in Part : <<cut["source"], q>> \in vectors["source"]}}]
    /\ Over(j)
    /\ UNCHANGED writer

\* Mutant: a document is archived under a status nobody else knows.
DeleteArchives(d) ==
    /\ Row(d)
    /\ writer = None
    /\ status' = [status EXCEPT ![d] = "archived"]
    /\ UNCHANGED <<cut, vectors, cuts, writer, job>>

Delete(d) ==
    /\ Row(d)
    /\ writer = None
    /\ status' = [status EXCEPT ![d] = "gone"]
    /\ cut' = [cut EXCEPT ![d] = 0]
    /\ vectors' = [vectors EXCEPT ![d] = {}]
    /\ UNCHANGED <<cuts, writer, job>>

Starts(j) ==
    \/ \E indexed \in BOOLEAN : Create(j, indexed)
    \/ Confirm(j)
    \/ \E d \in Docs : \/ Request(j, "chunk", d, "chunk")
                       \/ \E kind \in {"rebuild", "extend"} : Request(j, kind, d, "index")
                       \/ Request(j, "publish", d, "publish")

Works(j) ==
    \/ Vanished(j) \/ Clear(j) \/ Sync(j) \/ StartParse(j) \/ Parsed(j) \/ Load(j) \/ ReadFails(j)
    \/ StartChunk(j) \/ Cut(j) \/ StartIndex(j) \/ NothingToIndex(j) \/ ReadChunks(j)
    \/ \E p \in Part : Embed(j, p)
    \/ Indexed(j) \/ Publish(j)

Next ==
    \/ \E j \in Job : Starts(j) \/ Works(j)
    \/ \E d \in Docs : Delete(d)

Spec == Init /\ [][Next]_vars

-----------------------------------------------------------------------------
(* A ready source document is searchable as a whole: it has chunks, and    *)
(* every batch of them has its vectors, however requests that chunk, index *)
(* and confirm it follow each other or fail (its status promises so to the *)
(* retrieval scope, which offers ready documents only).                    *)
ReadyIsIndexed ==
    status["source"] = "ready" =>
        cut["source"] # 0 /\ {cut["source"]} \X Part \subseteq vectors["source"]

(* No vector without its chunk, no chunk without its document: a search    *)
(* joins all three and a deleted document leaves nothing, although no      *)
(* foreign key is enforced and whoever indexes or cuts it may still be at  *)
(* work when it is deleted.                                                *)
NoOrphans ==
    \A d \in Docs :
        /\ \A v \in vectors[d] : v[1] = cut[d]
        /\ ~Row(d) => cut[d] = 0

(* When nobody works on a document any more its status says so: it is      *)
(* uploaded, ready or failed, never a step of a pipeline that has ended.   *)
RestIsSettled ==
    \A d \in Docs :
        status[d] \in Busy => \E j \in Job : Doc(j) = d /\ job[j].at \notin {"idle", "over"}

=============================================================================
