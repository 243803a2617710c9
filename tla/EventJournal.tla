----------------------------- MODULE EventJournal -----------------------------
(***************************************************************************)
(* The journal of one agent run (agent_run_events), its writers and the    *)
(* clients that follow it.                                                 *)
(*                                                                         *)
(* Writers: the worker thread of each claim (the streamed run first, then  *)
(* one job per confirmation, on any server), the user's cancel request,    *)
(* and the heartbeat that interrupts a claim whose lease ran out.  The     *)
(* database hands out cursors before a transaction commits, so appending   *)
(* is two steps, Begin and Commit, with the locks the code takes between.  *)
(*                                                                         *)
(* Readers: AgentRunRuntime.iter_events, one generator per connection.  A  *)
(* client that loses its connection returns with the last cursor it saw.   *)
(* Readers never write, so they share nothing but the journal.             *)
(*                                                                         *)
(* RunRuntime holds the life of the claims in full; here a claim is just   *)
(* active, finished or interrupted and the journal is in detail.           *)
(***************************************************************************)
EXTENDS Naturals, FiniteSets, FiniteSetsExt

CONSTANTS
    Stream,        \* the job that executes the queued run
    Confirmation,  \* jobs that execute a confirmation
    User,          \* the cancel request
    Recovery,      \* the heartbeat of some server
    Reader,        \* clients following the run
    Limit,         \* events one read returns (200)
    MaxDeltas,     \* bound: events a job emits before its last one
    MaxCancels,    \* bound: cancel requests
    MayLose,       \* a lease may run out under a live thread
    MayFail        \* jobs that may meet an unexpected exception

Job    == {Stream} \cup Confirmation
Writer == Job \cup {User}

ASSUME JournalConstants ==
    /\ Stream \notin Confirmation /\ User \notin Job
    /\ Recovery \notin Writer
    /\ Limit \in Nat \ {0}
    /\ MaxDeltas \in Nat /\ MaxCancels \in Nat
    /\ MayLose \in BOOLEAN /\ MayFail \subseteq Job

VARIABLES
    status,   \* agent_runs.status
    claim,    \* agent_run_workers: state and owner
    log,      \* committed events, by cursor
    seq,      \* the last cursor the database handed out
    tx,       \* [Writer -> the append it has flushed and not committed]
    job,      \* [Job -> its progress, and the status its response carries]
    cancel,   \* the cancel request: progress, response, how many were made
    deltas,   \* [Job -> events emitted before the last one]
    reader,   \* [Reader -> its generator]
    got       \* [Reader -> cursors of the events the client received]

vars == <<status, claim, log, seq, tx, job, cancel, deltas, reader, got>>

Active   == {"queued", "running"}
Settled  == {"requires_confirmation", "completed", "failed", "cancelled", "interrupted"}

\* An event is its name and its payload: the status the answer carries and
\* whether an error was added to it.  The rest of an answer is not kept.
Names  == {"delta", "run.in_progress", "run.completed", "run.cancelled", "run.failed",
           "run.interrupted"}
Events == [event : Names, shows : Active \cup Settled, error : BOOLEAN]
Event(name, st) == [event |-> name, shows |-> st, error |-> FALSE]
Failure(st)     == [event |-> "run.failed", shows |-> st, error |-> TRUE]
Delta           == Event("delta", "running")

\* The names record_snapshot gives, by status.
SnapshotOf(st) ==
    Event(CASE st = "cancelled"               -> "run.cancelled"
            [] st \in {"failed", "interrupted"} -> "run.failed"
            [] st \in Active                   -> "run.in_progress"
            [] OTHER                           -> "run.completed", st)

\* What stream_run ends with: its own last event, or that of a replay.
LastOf(st) ==
    CASE st = "cancelled"   -> {Event("run.cancelled", st)}
      [] st = "interrupted" -> {Event("run.interrupted", st), Event("run.completed", st)}
      [] st \in Active      -> {Event("run.in_progress", st)}
      [] OTHER              -> {Event("run.completed", st)}

NoTx   == [open |-> FALSE, at |-> 0, fenced |-> FALSE, event |-> Delta]
Txs    == [open : BOOLEAN, at : Nat, fenced : BOOLEAN, event : Events]
NoCancel == [pc |-> "off", said |-> "queued", made |-> 0]
JobPcs == {"idle", "start", "work", "last", "response", "look", "snapshot", "error", "lost",
           "finish", "over"}
Closed  == [pc |-> "off", cursor |-> 0, active |-> FALSE]
Readers == [pc : {"off", "read", "status", "worker", "tail", "drain"}, cursor : Nat,
            active : BOOLEAN]

Init ==
    /\ status = "queued"
    /\ claim = [state |-> "none", owner |-> Recovery]
    /\ log = <<>>
    /\ seq = 0
    /\ tx = [w \in Writer |-> NoTx]
    /\ job = [j \in Job |-> [pc |-> "idle", said |-> "queued"]]
    /\ cancel = NoCancel
    /\ deltas = [j \in Job |-> 0]
    /\ reader = [c \in Reader |-> Closed]
    /\ got = [c \in Reader |-> {}]

-----------------------------------------------------------------------------
(* Row locks, and the append. *)

\* Mutants: nothing serialises the appends of a run; the fence is a plain read.
RowUnlocked   == TRUE
ClaimUnlocked == TRUE

\* UPDATE agent_runs SET status = status holds the run's row until the commit.
RowFree == \A w \in Writer : ~tx[w].open

\* The owner fence holds the claim's row until the commit.
ClaimFree == \A w \in Writer : ~(tx[w].open /\ tx[w].fenced)

Owns(j) == claim.state = "active" /\ claim.owner = j

Added(at, event) == [s \in DOMAIN log \cup {at} |-> IF s = at THEN event ELSE log[s]]

\* _append up to its flush.
Begin(w, event, fenced) ==
    /\ ~tx[w].open
    /\ RowFree
    /\ fenced => Owns(w) /\ ClaimFree
    /\ seq' = seq + 1
    /\ tx' = [tx EXCEPT ![w] = [open |-> TRUE, at |-> seq + 1, fenced |-> fenced, event |-> event]]

\* Mutant: the session is not closed, its locks stay.
CommitLeftOpen(w) ==
    /\ tx[w].open
    /\ log' = Added(tx[w].at, tx[w].event)
    /\ UNCHANGED tx

\* _append's commit.
Commit(w) ==
    /\ tx[w].open
    /\ log' = Added(tx[w].at, tx[w].event)
    /\ tx' = [tx EXCEPT ![w] = NoTx]

\* _mark_failed: status and event in the caller's transaction.
MarkFailed(st) ==
    IF status \in Active
    THEN /\ RowFree
         /\ status' = st
         /\ seq' = seq + 1
         /\ log' = Added(seq + 1, Failure(st))
    ELSE UNCHANGED <<status, seq, log>>

\* The journal ends with an event of the same name and, as far as it is kept, the
\* same payload: an error added to one tells it apart.
AlreadyLast(event) == DOMAIN log # {} /\ log[Max(DOMAIN log)] = event

\* A stop is answered by the request and by the thread, which may add steps to the
\* answer in between; other answers with one status are the same.
MayDiffer(st) == st \in {"cancelled", "interrupted"}
MayAppend(st) == ~AlreadyLast(SnapshotOf(st)) \/ MayDiffer(st)

Goto(j, pc) == job' = [job EXCEPT ![j].pc = pc]
Say(j, pc)  == job' = [job EXCEPT ![j] = [pc |-> pc, said |-> status]]

-----------------------------------------------------------------------------
(* The worker thread of a claim. *)

\* _submit: the run, or its confirmation, is handed to a worker.
Claim(j) ==
    /\ job[j].pc = "idle"
    /\ IF j = Stream THEN status = "queued" /\ claim.state = "none"
                     ELSE status = "requires_confirmation" /\ claim.state # "active"
    /\ claim' = [state |-> "active", owner |-> j]
    /\ Goto(j, "start")
    /\ UNCHANGED <<status, log, seq, tx, cancel, deltas, reader, got>>

\* stream_run and confirm_run take the run to "running", if it still waits;
\* otherwise the stream replays what is saved and the confirmation is refused.
Start(j) ==
    /\ job[j].pc = "start"
    /\ LET waits == IF j = Stream THEN "queued" ELSE "requires_confirmation" IN
       IF status = waits
       THEN RowFree /\ status' = "running" /\ Goto(j, "work")
       ELSE Goto(j, IF j = Stream THEN "last" ELSE "error") /\ UNCHANGED status
    /\ UNCHANGED <<claim, log, seq, tx, cancel, deltas, reader, got>>

\* An event on the way; only the streamed run journals them.
Emit(j) ==
    /\ j = Stream /\ job[j].pc = "work" /\ deltas[j] < MaxDeltas
    /\ Begin(j, Delta, TRUE)
    /\ deltas' = [deltas EXCEPT ![j] = @ + 1]
    /\ UNCHANGED <<status, claim, log, job, cancel, reader, got>>

\* _finish_run: the outcome is saved, unless the run was stopped meanwhile.
Conclude(j, st) ==
    /\ job[j].pc = "work" /\ ~tx[j].open
    /\ IF status \notin {"cancelled", "interrupted"} THEN RowFree /\ status' = st ELSE UNCHANGED status
    /\ Goto(j, IF j = Stream THEN "last" ELSE "response")
    /\ UNCHANGED <<claim, log, seq, tx, cancel, deltas, reader, got>>

\* stream_run reads the run for its last event; the runtime then appends it.
LastEvent(j) ==
    /\ job[j].pc = "last"
    /\ \E event \in LastOf(status) : Begin(j, event, TRUE)
    /\ Goto(j, "response")
    /\ UNCHANGED <<status, claim, log, deltas, cancel, reader, got>>

Committed(j) ==
    /\ Commit(j)
    /\ UNCHANGED <<status, claim, seq, job, cancel, deltas, reader, got>>

\* get_run for the snapshot.  A stream that ended without a final status raises.
Response(j) ==
    /\ job[j].pc = "response" /\ ~tx[j].open
    /\ Say(j, IF j = Stream /\ status \in Active THEN "error" ELSE "look")
    /\ UNCHANGED <<status, claim, log, seq, tx, cancel, deltas, reader, got>>

\* record_snapshot: look at the journal's end, then append without the fence.
Look(j) ==
    /\ job[j].pc = "look"
    /\ \/ AlreadyLast(SnapshotOf(job[j].said)) /\ Goto(j, "finish")
       \/ MayAppend(job[j].said) /\ Goto(j, "snapshot")
    /\ UNCHANGED <<status, claim, log, seq, tx, cancel, deltas, reader, got>>

Snapshot(j) ==
    /\ job[j].pc = "snapshot"
    /\ Begin(j, SnapshotOf(job[j].said), FALSE)
    /\ Goto(j, "finish")
    /\ UNCHANGED <<status, claim, log, cancel, deltas, reader, got>>

\* _LeaseLost from the fence of an append.
LeaseLost(j) ==
    /\ j = Stream /\ job[j].pc \in {"work", "last"} /\ ~tx[j].open
    /\ ~Owns(j)
    /\ Goto(j, "lost")
    /\ UNCHANGED <<status, claim, log, seq, tx, cancel, deltas, reader, got>>

Enforce(j) ==
    /\ job[j].pc = "lost"
    /\ IF claim.state = "interrupted" /\ status # "cancelled"
       THEN RowFree /\ status' = "interrupted"
       ELSE UNCHANGED status
    /\ Goto(j, "finish")
    /\ UNCHANGED <<claim, log, seq, tx, cancel, deltas, reader, got>>

\* Any other exception; an append in progress rolls back and the response is
\* discarded.
Fails(j) ==
    /\ j \in MayFail
    /\ job[j].pc \in {"start", "work", "last", "response", "look", "snapshot", "finish"}
    /\ job[j].pc = "finish" => tx[j].open
    /\ tx' = [tx EXCEPT ![j] = NoTx]
    /\ job' = [job EXCEPT ![j] = [pc |-> "error", said |-> "queued"]]
    /\ UNCHANGED <<status, claim, log, seq, cancel, deltas, reader, got>>

FailOwned(j) ==
    /\ job[j].pc = "error"
    /\ IF Owns(j) THEN MarkFailed("failed") ELSE UNCHANGED <<status, log, seq>>
    /\ Goto(j, "finish")
    /\ UNCHANGED <<claim, tx, cancel, deltas, reader, got>>

\* _finish_claim never seals a claim and leaves its run in progress.
Finish(j) ==
    /\ job[j].pc = "finish" /\ ~tx[j].open
    /\ IF Owns(j)
       THEN claim' = [claim EXCEPT !.state = "finished"] /\ MarkFailed("failed")
       ELSE UNCHANGED <<status, claim, log, seq>>
    /\ Goto(j, "over")
    /\ UNCHANGED <<tx, cancel, deltas, reader, got>>

-----------------------------------------------------------------------------
(* The others who write. *)

\* recover_expired, once the lease ran out.
Interrupt ==
    /\ MayLose
    /\ claim.state = "active" /\ ClaimFree
    /\ claim' = [claim EXCEPT !.state = "interrupted"]
    /\ MarkFailed("interrupted")
    /\ UNCHANGED <<tx, job, cancel, deltas, reader, got>>

\* cancel_run: stop the run if it can still be stopped, and read it back.
Cancel ==
    /\ cancel.pc = "off" /\ cancel.made < MaxCancels
    /\ IF status \in Active \cup {"requires_confirmation"}
       THEN /\ RowFree
            /\ status' = "cancelled"
       ELSE UNCHANGED status
    /\ cancel' = [pc |-> "look", said |-> status', made |-> cancel.made + 1]
    /\ UNCHANGED <<claim, log, seq, tx, job, deltas, reader, got>>

CancelLook ==
    /\ cancel.pc = "look"
    /\ \/ AlreadyLast(SnapshotOf(cancel.said)) /\ cancel' = [NoCancel EXCEPT !.made = cancel.made]
       \/ MayAppend(cancel.said) /\ cancel' = [cancel EXCEPT !.pc = "snapshot"]
    /\ UNCHANGED <<status, claim, log, seq, tx, job, deltas, reader, got>>

CancelSnapshot ==
    /\ cancel.pc = "snapshot"
    /\ Begin(User, SnapshotOf(cancel.said), FALSE)
    /\ cancel' = [NoCancel EXCEPT !.made = cancel.made]
    /\ UNCHANGED <<status, claim, log, job, deltas, reader, got>>

-----------------------------------------------------------------------------
(* iter_events. *)

After(c) == {s \in DOMAIN log : s > reader[c].cursor}

\* read_events: the first Limit committed events after the cursor.
Page(c) == {s \in After(c) : Cardinality({t \in After(c) : t < s}) < Limit}

Receive(c, last) == got' = [got EXCEPT ![c] = @ \cup {s \in Page(c) : s <= last}]

MoveTo(c, pc, cursor) ==
    reader' = [reader EXCEPT ![c] = [pc |-> pc, cursor |-> cursor, active |-> FALSE]]

\* A client connects, with the last cursor it saw.
Connect(c) ==
    /\ reader[c].pc = "off"
    /\ MoveTo(c, "read", reader[c].cursor)
    /\ UNCHANGED <<status, claim, log, seq, tx, job, cancel, deltas, got>>

\* The events of one read are yielded; the generator goes on at pc.
Yield(c, pc) ==
    /\ Page(c) # {}
    /\ MoveTo(c, pc, Max(Page(c)))
    /\ Receive(c, Max(Page(c)))

Read(c) ==
    /\ reader[c].pc = "read"
    /\ \/ Yield(c, "read")
       \/ Page(c) = {} /\ MoveTo(c, "status", reader[c].cursor) /\ UNCHANGED got
    /\ UNCHANGED <<status, claim, log, seq, tx, job, cancel, deltas>>

\* The check reads the run, then its worker.
ReadStatus(c) ==
    /\ reader[c].pc = "status"
    /\ reader' = [reader EXCEPT ![c].pc = "worker", ![c].active = status \in Active]
    /\ UNCHANGED <<status, claim, log, seq, tx, job, cancel, deltas, got>>

\* Mutant: only a claim that finished ends the stream.
DoneWhenFinished(active) == claim.state = "none" \/ (~active /\ claim.state = "finished")

\* Work without a claim is never waited for.
Done(active) == claim.state = "none" \/ (~active /\ claim.state # "active")

\* The run is done, the generator polls again, or the server of this connection
\* was told to stop; the client's next connection may reach another server.
ReadWorker(c) ==
    /\ reader[c].pc = "worker"
    /\ IF Done(reader[c].active)
       THEN MoveTo(c, "tail", reader[c].cursor)
       ELSE \E pc \in {"read", "drain"} : MoveTo(c, pc, reader[c].cursor)
    /\ UNCHANGED <<status, claim, log, seq, tx, job, cancel, deltas, got>>

\* Mutant: the stream ends on the check, with no last read.
TailSkipped(c) ==
    /\ reader[c].pc \in {"tail", "drain"}
    /\ MoveTo(c, "off", reader[c].cursor)
    /\ UNCHANGED <<status, claim, log, seq, tx, job, cancel, deltas, got>>

\* A worker can commit its last event between the read and the check.
Tail(c) ==
    /\ reader[c].pc \in {"tail", "drain"}
    /\ \/ Yield(c, "off")
       \/ Page(c) = {} /\ MoveTo(c, "off", reader[c].cursor) /\ UNCHANGED got
    /\ UNCHANGED <<status, claim, log, seq, tx, job, cancel, deltas>>

\* The connection breaks, perhaps in the middle of a page.
Disconnect(c) ==
    /\ reader[c].pc # "off"
    /\ \/ MoveTo(c, "off", reader[c].cursor) /\ UNCHANGED got
       \/ /\ reader[c].pc \in {"read", "tail", "drain"}
          /\ \E last \in Page(c) : MoveTo(c, "off", last) /\ Receive(c, last)
    /\ UNCHANGED <<status, claim, log, seq, tx, job, cancel, deltas>>

-----------------------------------------------------------------------------

\* How a loop concludes; every finished outcome counts as "completed" here.
Outcome == {"requires_confirmation", "completed"}

Work(j) ==
    \/ Start(j) \/ LastEvent(j) \/ Committed(j) \/ Response(j) \/ Look(j) \/ Snapshot(j)
    \/ LeaseLost(j) \/ Enforce(j) \/ FailOwned(j) \/ Finish(j)
    \/ \E st \in Outcome : Conclude(j, st)

Follow(c) == Read(c) \/ ReadStatus(c) \/ ReadWorker(c) \/ Tail(c)

Next ==
    \/ \E j \in Job : Claim(j) \/ Emit(j) \/ Fails(j) \/ Work(j)
    \/ Interrupt \/ Cancel \/ CancelLook \/ CancelSnapshot \/ Committed(User)
    \/ \E c \in Reader : Connect(c) \/ Disconnect(c) \/ Follow(c)

Spec == Init /\ [][Next]_vars

\* Threads are scheduled, transactions end, and the server keeps serving a
\* connected client.  Nobody owes a confirmation, a cancel or a failure.
Fairness ==
    /\ \A j \in Job : WF_vars(Work(j))
    /\ WF_vars(Committed(User))
    /\ \A c \in Reader : WF_vars(Follow(c))

LiveSpec == Spec /\ Fairness

-----------------------------------------------------------------------------

TypeOK ==
    /\ status \in Active \cup Settled
    /\ claim \in [state : {"none", "active", "finished", "interrupted"}, owner : Job \cup {Recovery}]
    /\ DOMAIN log \subseteq 1..seq
    /\ \A s \in DOMAIN log : log[s] \in Events
    /\ seq \in Nat
    /\ tx \in [Writer -> Txs]
    /\ \A w \in Writer : tx[w].open => tx[w].at \in (1..seq) \ DOMAIN log
    /\ \A j \in Job : job[j].pc \in JobPcs /\ job[j].said \in Active \cup Settled
    /\ cancel.pc \in {"off", "look", "snapshot"} /\ cancel.made \in 0..MaxCancels
    /\ cancel.said \in Active \cup Settled
    /\ deltas \in [Job -> 0..MaxDeltas]
    /\ reader \in [Reader -> Readers]
    /\ got \in [Reader -> SUBSET (1..seq)]

\* A client never skips an event: whatever is committed at or below its cursor
\* it has received, over any number of reconnects, however the writers' commits
\* interleave with the cursors the database hands out (_append's row lock).
NoSkip == \A c \in Reader : {s \in DOMAIN log : s <= reader[c].cursor} \subseteq got[c]

\* The streamed thread journals its events, the last one too, only while it
\* owns the claim: none is committed after the claim was interrupted (_append's
\* owner fence, which locks the claim until the event commits).
OwnerSpeaks ==
    [][\A j \in Job :
          tx[j].open /\ tx[j].fenced /\ tx[j].at \in DOMAIN log' => Owns(j)]_vars

\* A stream that ends because its run is done has told its client how the last
\* claim came out: when that claim ran to its end, an event with the status its
\* job answered with is among those received (iter_events' check and last read,
\* and _execute's order of last event, snapshot and _finish_claim).
EndsTold ==
    [][\A c \in Reader :
          Tail(c) /\ reader[c].pc = "tail" /\ claim.state = "finished" =>
          LET answered == job[claim.owner].said
          IN answered \in Settled => \E s \in got'[c] : log[s].shows = answered]_vars

\* The run is in progress and no claim of it is held: a confirmation that lost
\* its claim before it took the run to "running" has gone without ending it.
Adrift == status \in Active /\ claim.state \in {"finished", "interrupted"}

\* A connected stream ends: once the run has been executed its claim closes and
\* the generator returns, after failures of any job and lost leases too.  The one
\* exception is a run that stays adrift for good, which is never Done; a user who
\* cancels it ends its streams (iter_events, _execute and _finish_claim).
StreamsEnd == <>[]Adrift \/ \A c \in Reader : reader[c].pc # "off" ~> reader[c].pc = "off"
=============================================================================
