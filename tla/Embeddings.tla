----------------------------- MODULE Embeddings -----------------------------
(***************************************************************************)
(* The embedding service at work for one document: an index job resolves   *)
(* the account's model, takes the texts batch by batch and posts them in   *)
(* requests of RequestBatch texts.  A request that times out is halved,    *)
(* and a single text is asked for three times; any other error ends the    *)
(* job.  The account may replace the model behind the name meanwhile.      *)
(*                                                                         *)
(* Vectors stay in the session of the job until it commits, and it commits *)
(* what it has also when it fails.  A vector is known by the model that    *)
(* computed it; who else works on the document is the matter of Knowledge. *)
(***************************************************************************)
EXTENDS Integers, Sequences, FiniteSets

CONSTANTS
    Texts,              \* number of texts of the document
    IndexBatch,         \* embedding_batch_size
    RequestBatch,       \* texts in a request: the batch size, at most 10 for DashScope
    SingleRetries,      \* max_single_retries
    MaxModels,          \* bound: models the account configures under the name
    MaxJobs             \* bound: index jobs

ASSUME SizesAssumption ==
    /\ Texts \in Nat /\ SingleRetries \in Nat
    /\ IndexBatch \in Nat \ {0} /\ RequestBatch \in Nat \ {0}

VARIABLES
    config,     \* the model the account's row names, 0 for no row
    newest,     \* models configured so far
    jobs,       \* jobs begun so far
    status,     \* the document's status
    index,      \* index[t]: the model of the stored vector of t, 0 for none
    job,        \* where the job is
    runtime,    \* the model it resolved
    session,    \* session[t]: what it would commit for t
    batch,      \* the texts batch.from + 1 .. batch.to it embeds now
    work,       \* ranges still to be asked for, in order
    slots,      \* texts of the batch whose vector has come
    requests    \* requests sent for the batch

vars == <<config, newest, jobs, status, index, job, runtime, session, batch, work, slots, requests>>

account == <<config, newest>>
stored  == <<status, index>>
asked   == <<batch, work, slots, requests>>

Text  == 1..Texts
Model == 0..MaxModels
NoBatch == [from |-> 0, to |-> 0]

Init ==
    /\ config = 0 /\ newest = 0 /\ jobs = 0
    /\ status = "pending"
    /\ index = [t \in Text |-> 0]
    /\ job = "idle" /\ runtime = 0
    /\ session = [t \in Text |-> 0]
    /\ batch = NoBatch /\ work = <<>> /\ slots = {} /\ requests = 0

-----------------------------------------------------------------------------
(* The account's models.                                                   *)

\* A row is written, or written over: the name stays.
Upsert ==
    /\ newest < MaxModels
    /\ newest' = newest + 1
    /\ config' = newest + 1
    /\ UNCHANGED <<jobs, stored, job, runtime, session, asked>>

DeleteConfig ==
    /\ config # 0
    /\ config' = 0
    /\ UNCHANGED <<newest, jobs, stored, job, runtime, session, asked>>

-----------------------------------------------------------------------------
(* An index job.                                                           *)

Begin ==
    /\ job = "idle" /\ jobs < MaxJobs
    /\ jobs' = jobs + 1
    /\ status' = "indexing"
    /\ job' = "resolving"
    /\ UNCHANGED <<account, index, runtime, session, asked>>

\* A name that is not configured raises, and the document stays where it is.
\* A rebuild deletes the vectors first, in the session.
Resolve ==
    /\ job = "resolving"
    /\ \/ /\ config = 0
          /\ job' = "idle"
          /\ UNCHANGED <<runtime, session, batch>>
       \/ /\ config # 0
          /\ runtime' = config
          /\ session' \in {index, [t \in Text |-> 0]}
          /\ job' = "batching"
          /\ batch' = NoBatch
    /\ UNCHANGED <<account, jobs, stored, work, slots, requests>>

Shorter(a, b) == IF a < b THEN a ELSE b

\* from + 1 .. to in requests of RequestBatch texts.
Ranges(from, to) ==
    [i \in 1..((to - from + RequestBatch - 1) \div RequestBatch) |->
        [from  |-> from + (i - 1) * RequestBatch,
         to    |-> Shorter(from + i * RequestBatch, to),
         tries |-> 0]]

NextBatch ==
    LET to == Shorter(batch.to + IndexBatch, Texts) IN
    /\ job = "batching" /\ batch.to < Texts
    /\ batch' = [from |-> batch.to, to |-> to]
    /\ work' = Ranges(batch.to, to)
    /\ slots' = {} /\ requests' = 0
    /\ job' = "asking"
    /\ UNCHANGED <<account, jobs, stored, runtime, session>>

\* The vectors of the batch go into the session.
Assemble ==
    /\ job = "asking" /\ work = <<>>
    /\ session' = [t \in Text |-> IF t \in slots THEN runtime ELSE session[t]]
    /\ job' = "batching"
    /\ UNCHANGED <<account, jobs, stored, runtime, asked>>

\* A document without texts cannot be indexed.
Commit ==
    /\ job = "batching" /\ batch.to = Texts
    /\ index' = session
    /\ status' = IF Texts = 0 THEN "failed" ELSE "ready"
    /\ job' = "idle"
    /\ UNCHANGED <<account, jobs, runtime, session, asked>>

\* Mutant: a job that failed restores the status.
FailReady ==
    /\ job = "failing"
    /\ index' = session
    /\ status' = "ready"
    /\ job' = "idle"
    /\ UNCHANGED <<account, jobs, runtime, session, asked>>

\* The session is committed as it is, with the status.
Fail ==
    /\ job = "failing"
    /\ index' = session
    /\ status' = "failed"
    /\ job' = "idle"
    /\ UNCHANGED <<account, jobs, runtime, session, asked>>

\* The process dies: what was not committed is gone.
Die ==
    /\ job # "idle"
    /\ job' = "idle"
    /\ UNCHANGED <<account, jobs, stored, runtime, session, asked>>

-----------------------------------------------------------------------------
(* Requests.                                                               *)

Of(range) == (range.from + 1)..range.to
Wide(range) == range.to - range.from > 1

Asking ==
    /\ job = "asking" /\ work # <<>>
    /\ requests' = requests + 1
    /\ UNCHANGED <<account, jobs, stored, runtime, session, batch>>

Answered ==
    /\ Asking
    /\ slots' = slots \cup Of(Head(work))
    /\ work' = Tail(work)
    /\ UNCHANGED job

Half(range) == range.from + ((range.to - range.from) \div 2)
Halves(range) == <<[from |-> range.from, to |-> Half(range), tries |-> 0],
                   [from |-> Half(range), to |-> range.to, tries |-> 0]>>

\* Mutant: the middle text is in neither half.
TimesOutAndSkips ==
    /\ Asking /\ Wide(Head(work))
    /\ work' = <<[Halves(Head(work))[1] EXCEPT !.to = @ - 1], Halves(Head(work))[2]>> \o Tail(work)
    /\ UNCHANGED <<job, slots>>

\* The halves come before everything else, the left one first.
TimesOut ==
    /\ Asking /\ Wide(Head(work))
    /\ work' = Halves(Head(work)) \o Tail(work)
    /\ UNCHANGED <<job, slots>>

\* Mutant: the retry of a single text is not counted.
SingleTimesOutUncounted ==
    /\ Asking /\ ~Wide(Head(work))
    /\ UNCHANGED <<job, slots, work>>

SingleTimesOut ==
    /\ Asking /\ ~Wide(Head(work))
    /\ IF Head(work).tries < SingleRetries
       THEN work' = [work EXCEPT ![1].tries = @ + 1] /\ UNCHANGED job
       ELSE job' = "failing" /\ UNCHANGED work
    /\ UNCHANGED slots

\* Any other error, and an answer of another number of vectors.
Refused ==
    /\ Asking
    /\ job' = "failing"
    /\ UNCHANGED <<work, slots>>

-----------------------------------------------------------------------------
Next ==
    \/ Upsert \/ DeleteConfig
    \/ Begin \/ Resolve \/ NextBatch \/ Assemble \/ Commit \/ Fail \/ Die
    \/ Answered \/ TimesOut \/ SingleTimesOut \/ Refused

Spec == Init /\ [][Next]_vars

-----------------------------------------------------------------------------
TypeOK ==
    /\ config \in Model /\ newest \in Model /\ runtime \in Model
    /\ status \in {"pending", "indexing", "ready", "failed"}
    /\ job \in {"idle", "resolving", "batching", "asking", "failing"}
    /\ index \in [Text -> Model] /\ session \in [Text -> Model]
    /\ batch \in [from : 0..Texts, to : 0..Texts]
    /\ work \in Seq([from : 0..Texts, to : 0..Texts, tries : 0..SingleRetries])

(* However requests are split and retried, the vectors that have come are  *)
(* those of the texts before the range that is asked for next, and the     *)
(* waiting ranges are the rest of the batch, in order, without gap or      *)
(* overlap: no text is left out and none is sent after it was answered.    *)
Front == IF work = <<>> THEN batch.to ELSE Head(work).from

Contiguous ==
    /\ \A i \in DOMAIN work : work[i].from < work[i].to
    /\ \A i \in 1..(Len(work) - 1) : work[i].to = work[i + 1].from
    /\ work # <<>> => work[Len(work)].to = batch.to

NothingLost == job = "asking" => Contiguous /\ slots = (batch.from + 1)..Front

(* A batch of n texts costs at most n - 1 requests that are split and      *)
(* SingleRetries + 1 for every text, however slow the server is.           *)
RequestsBounded ==
    job # "idle" /\ batch.to > batch.from =>
        requests <= (batch.to - batch.from) * (SingleRetries + 2) - 1

(* The vectors of a ready document were all computed by one model,         *)
(* although the model behind the name may change during a job and a job    *)
(* that fails leaves its vectors beside older ones.                        *)
ReadyIsUniform ==
    status = "ready" => \A t, u \in Text : index[t] = index[u] /\ index[t] # 0
=============================================================================
