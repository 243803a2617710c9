------------------------------ MODULE CliSession ------------------------------
(***************************************************************************)
(* The native session of one CLI in one conversation's workspace: the      *)
(* state file of CliSessionStore, the lease of a dispatch, what each run   *)
(* of _run_cli_agent_stream hands to the CLI, and what the CLI's own       *)
(* sessions therefore know of the conversation.                            *)
(*                                                                         *)
(* Runs execute on any process; processes die at any point and leave the   *)
(* CLI behind as an orphan.  The model is of one runner name: entries,     *)
(* leases and sessions of different runners are independent.  A CLI is     *)
(* external: it may continue a resumed session under its id or under a new *)
(* one with the same content, report its session or not, succeed or fail.  *)
(***************************************************************************)
EXTENDS Naturals, Sequences, FiniteSets

CONSTANTS
    Run,          \* CLI runs of the conversation
    Other,        \* formal messages of other backends in it
    Binding,      \* configuration fingerprints
    MaxTurns,     \* llm_history_turns
    MaxAttempts   \* bound: dispatches

VARIABLES
    entry,      \* the runner's entry of the state file
    attempted,  \* attempted_run_ids of that entry
    lease,      \* who holds the flock of the runner
    job,        \* the thread of each run: its dispatch and what it built
    history,    \* formal messages of the conversation, in order
    known,      \* what each native session was told, in order
    live,       \* runs whose CLI process is alive
    attempts,   \* dispatches so far
    spawned     \* how often each run's task was handed to a CLI

vars == <<entry, attempted, lease, job, history, known, live, attempts, spawned>>

None     == "none"
Sessions == Run \cup {None}    \* a session is named after the run that created it
Topics   == Run \cup Other     \* a run's own turn and its formal message are one topic
Pcs      == {"idle", "context", "spawn", "stream", "result", "failed", "over", "gone"}

NoCheckpoint == [session |-> None, binding |-> None, consumed |-> {}, runs |-> {}]
NoEntry == [status |-> "new", binding |-> None, checkpoint |-> NoCheckpoint,
            attempt |-> 0, session |-> None]
NoJob == [pc |-> "idle", binding |-> None, attempt |-> 0, resume |-> None, consumed |-> {},
          runs |-> {}, selected |-> <<>>, session |-> None, said |-> FALSE]

Init ==
    /\ entry = NoEntry /\ attempted = {} /\ lease = None
    /\ job = [r \in Run |-> NoJob]
    /\ history = <<>>
    /\ known = [s \in Run |-> <<>>]
    /\ live = {}
    /\ attempts = 0 /\ spawned = [r \in Run |-> 0]

Members(seq) == {seq[i] : i \in DOMAIN seq}

-----------------------------------------------------------------------------
(* Dispatch.                                                                *)

\* Mutants: the cursor of an uncertain session is kept for the next one; an
\* uncertain session is resumed from its last checkpoint.
ProjectKeepingCursor(b) ==
    IF entry.status = "ready" /\ entry.binding = b /\ entry.checkpoint.binding = b
    THEN entry.checkpoint
    ELSE [entry.checkpoint EXCEPT !.session = None]

ProjectAnyStatus(b) ==
    IF entry.binding = b /\ entry.checkpoint.binding = b THEN entry.checkpoint
    ELSE NoCheckpoint

\* _project: only a committed turn of the same configuration is resumed.
Project(b) ==
    IF entry.status = "ready" /\ entry.binding = b /\ entry.checkpoint.binding = b
    THEN entry.checkpoint
    ELSE NoCheckpoint

MayBegin(r) ==
    /\ job[r].pc \in {"idle", "gone", "over"}    \* a run may be handed in again
    /\ attempts < MaxAttempts
    /\ lease = None

Dispatched(r, b) ==
    LET state == Project(b) IN
    /\ entry' = [status |-> "inflight", binding |-> b, checkpoint |-> entry.checkpoint,
                 attempt |-> attempts + 1, session |-> None]
    /\ lease' = r
    /\ job' = [job EXCEPT ![r] =
          [NoJob EXCEPT !.pc = "context", !.binding = b, !.attempt = attempts + 1,
                        !.resume = state.session, !.consumed = state.consumed,
                        !.runs = state.runs]]
    /\ attempts' = attempts + 1
    /\ UNCHANGED <<history, known, live, spawned>>

\* Mutant: only a dispatch that succeeded counts as an attempt.
BeginAgain(r, b) ==
    /\ MayBegin(r) /\ r \notin entry.checkpoint.runs
    /\ Dispatched(r, b)
    /\ UNCHANGED attempted

\* begin_dispatch under the lease: the attempt is durable before anything is sent.
Begin(r, b) ==
    /\ MayBegin(r) /\ r \notin attempted
    /\ attempted' = attempted \cup {r}
    /\ Dispatched(r, b)

\* Mutant: unfinished runs are history as well.
UnseenAny(r) == {i \in DOMAIN history : history[i].topic \notin job[r].consumed \cup job[r].runs}

\* Where in the history the messages are that the session has not seen yet, of
\* runs it did not execute itself; unfinished ones are no dialogue.
Unseen(r) ==
    {i \in DOMAIN history : /\ history[i].final
                            /\ history[i].topic \notin job[r].consumed \cup job[r].runs}

\* build_conversation_context: in their order the last of them, as many as the
\* limits of turns and of characters leave.
BuildContext(r) ==
    /\ job[r].pc = "context"
    /\ \E k \in 0 .. MaxTurns : \E place \in [1 .. k -> Unseen(r)] :
          /\ \A i, j \in 1 .. k : i < j => place[i] < place[j]
          /\ \A i \in 1 .. k : \A later \in Unseen(r) :
                later > place[i] => \E j \in 1 .. k : place[j] = later
          /\ job' = [job EXCEPT ![r].pc = "spawn",
                                ![r].selected = [i \in 1 .. k |-> history[place[i]].topic]]
    /\ UNCHANGED <<entry, attempted, lease, history, known, live, attempts, spawned>>

\* The CLI gets the quoted history and the task.
Spawn(r) ==
    /\ job[r].pc = "spawn"
    /\ \E s \in {r} \cup ({job[r].resume} \ {None}) :
          /\ known' = [known EXCEPT ![s] =
                (IF job[r].resume = None THEN <<>> ELSE known[job[r].resume])
                \o job[r].selected \o <<r>>]
          /\ job' = [job EXCEPT ![r].pc = "stream", ![r].session = s]
    /\ live' = live \cup {r}
    /\ spawned' = [spawned EXCEPT ![r] = @ + 1]
    /\ UNCHANGED <<entry, attempted, lease, history, attempts>>

SpawnFails(r) ==
    /\ job[r].pc = "spawn"
    /\ job' = [job EXCEPT ![r].pc = "failed"]
    /\ UNCHANGED <<entry, attempted, lease, history, known, live, attempts, spawned>>

\* _owned_entry: the file still shows this dispatch in flight.
Owned(r) ==
    /\ entry.status = "inflight" /\ entry.binding = job[r].binding
    /\ entry.attempt = job[r].attempt

\* A session event; the store keeps it as evidence.
NoteSession(r) ==
    /\ job[r].pc = "stream" /\ ~job[r].said
    /\ Owned(r)
    /\ entry' = [entry EXCEPT !.session = job[r].session]
    /\ job' = [job EXCEPT ![r].said = TRUE]
    /\ UNCHANGED <<attempted, lease, history, known, live, attempts, spawned>>

\* The output ended and the process tree is killed; result_ok is True or not
\* (an error, a timeout, no recognisable result).
StreamEnds(r, ok) ==
    /\ job[r].pc = "stream"
    /\ job' = [job EXCEPT ![r].pc = IF ok THEN "result" ELSE "failed"]
    /\ live' = live \ {r}
    /\ UNCHANGED <<entry, attempted, lease, history, known, attempts, spawned>>

\* A cancelled run never commits.
HeedStop(r) ==
    /\ job[r].pc \in {"stream", "result"}
    /\ job' = [job EXCEPT ![r].pc = "failed"]
    /\ live' = live \ {r}
    /\ UNCHANGED <<entry, attempted, lease, history, known, attempts, spawned>>

\* Mutant: the lock file is left open.
ReleaseNothing(r) == lease' = lease

Release(r) == lease' = IF lease = r THEN None ELSE lease

\* What is left of a thread: the session an orphan may still work in.
Ended(r, pc) ==
    [NoJob EXCEPT !.pc = pc, !.session = IF r \in live THEN job[r].session ELSE None]

\* The formal message of the run, whatever became of it.
Recorded(r) ==
    history' = IF \E i \in DOMAIN history : history[i].topic = r THEN history
               ELSE Append(history, [topic |-> r, final |-> TRUE])

\* Mutant: the session's own turn is not remembered as its own.
CommitForgettingRun(r) ==
    /\ job[r].pc = "result" /\ Owned(r)
    /\ entry' = IF entry.session = None THEN [entry EXCEPT !.status = "uncertain"]
                ELSE [entry EXCEPT !.status = "ready",
                         !.checkpoint = [session |-> entry.session, binding |-> job[r].binding,
                                         consumed |-> job[r].consumed \cup Members(job[r].selected),
                                         runs |-> job[r].runs]]
    /\ Release(r)
    /\ job' = [job EXCEPT ![r] = Ended(r, "over")]
    /\ UNCHANGED <<attempted, history, known, live, attempts, spawned>>

\* commit_success: with evidence of a session the checkpoint moves on, without
\* it the next run starts afresh.
Commit(r) ==
    /\ job[r].pc = "result" /\ Owned(r)
    /\ entry' = IF entry.session = None THEN [entry EXCEPT !.status = "uncertain"]
                ELSE [entry EXCEPT !.status = "ready",
                         !.checkpoint = [session |-> entry.session, binding |-> job[r].binding,
                                         consumed |-> job[r].consumed \cup Members(job[r].selected),
                                         runs |-> job[r].runs \cup {r}]]
    /\ Release(r)
    /\ job' = [job EXCEPT ![r] = Ended(r, "over")]
    /\ UNCHANGED <<attempted, history, known, live, attempts, spawned>>

\* dispatch.close() without a commit: whatever was sent may have been done.
Close(r) ==
    /\ job[r].pc = "failed"
    /\ entry' = IF Owned(r) THEN [entry EXCEPT !.status = "uncertain"] ELSE entry
    /\ Release(r)
    /\ job' = [job EXCEPT ![r] = Ended(r, "over")]
    /\ UNCHANGED <<attempted, history, known, live, attempts, spawned>>

\* _record_agent_history after the stream.
Record(r) ==
    /\ job[r].pc = "over"
    /\ \A i \in DOMAIN history : history[i].topic # r
    /\ Recorded(r)
    /\ UNCHANGED <<entry, attempted, lease, job, known, live, attempts, spawned>>

-----------------------------------------------------------------------------
(* The rest of the world.                                                   *)

\* The process dies: the lease goes with it, the CLI may live on.
Crash(r) ==
    /\ job[r].pc \notin {"idle", "gone"}
    /\ job' = [job EXCEPT ![r] = Ended(r, "gone")]
    /\ Release(r)
    /\ UNCHANGED <<entry, attempted, history, known, live, attempts, spawned>>

OrphanEnds(r) ==
    /\ r \in live /\ job[r].pc = "gone"
    /\ live' = live \ {r}
    /\ job' = [job EXCEPT ![r].session = None]
    /\ UNCHANGED <<entry, attempted, lease, history, known, attempts, spawned>>

\* Another backend's message, first perhaps as a waiting run; a message of a
\* run that died is written by the runtime's recovery.
Post(m, final) ==
    /\ \/ m \in Other
       \/ m \in Run /\ job[m].pc = "gone" /\ final
    /\ \A i \in DOMAIN history : history[i].topic # m
    /\ history' = Append(history, [topic |-> m, final |-> final])
    /\ UNCHANGED <<entry, attempted, lease, job, known, live, attempts, spawned>>

Settle(i) ==
    /\ i \in DOMAIN history /\ ~history[i].final
    /\ history' = [history EXCEPT ![i].final = TRUE]
    /\ UNCHANGED <<entry, attempted, lease, job, known, live, attempts, spawned>>

Thread(r) ==
    \/ \E b \in Binding : Begin(r, b)
    \/ BuildContext(r) \/ Spawn(r) \/ SpawnFails(r) \/ NoteSession(r)
    \/ StreamEnds(r, TRUE) \/ StreamEnds(r, FALSE) \/ HeedStop(r)
    \/ Commit(r) \/ Close(r) \/ Record(r)

Next ==
    \/ \E r \in Run : Thread(r) \/ Crash(r) \/ OrphanEnds(r)
    \/ \E m \in Topics, final \in BOOLEAN : Post(m, final)
    \/ \E i \in DOMAIN history : Settle(i)

Spec == Init /\ [][Next]_vars

-----------------------------------------------------------------------------
(* Properties.                                                              *)

Checkpoints == [session : Sessions, binding : Binding \cup {None},
                consumed : SUBSET Topics, runs : SUBSET Run]

\* Ranges; an attempt in the file is one that was made, and the lease belongs
\* to a thread that is in the middle of a dispatch.
TypeOK ==
    /\ entry \in [status : {"new", "inflight", "uncertain", "ready"},
                  binding : Binding \cup {None}, checkpoint : Checkpoints,
                  attempt : 0 .. attempts, session : Sessions]
    /\ attempted \subseteq Run /\ lease \in Sessions
    /\ lease # None => job[lease].pc \notin {"idle", "over", "gone"}
    /\ job \in [Run -> [pc : Pcs, binding : Binding \cup {None}, attempt : 0 .. attempts,
                        resume : Sessions, consumed : SUBSET Topics, runs : SUBSET Run,
                        selected : Seq(Topics), session : Sessions, said : BOOLEAN]]
    /\ history \in Seq([topic : Topics, final : BOOLEAN])
    /\ known \in [Run -> Seq(Topics)]
    /\ live \subseteq Run /\ attempts \in 0 .. MaxAttempts
    /\ spawned \in [Run -> Nat]

\* A native session is never told a turn twice, neither a formal message nor
\* its own answer (docs/backend-continuity.md), whatever crashed or failed.
ToldOnce ==
    \A s \in Run : \A i, j \in DOMAIN known[s] : known[s][i] = known[s][j] => i = j

\* What a dispatch leaves out because the session has seen it, the session has
\* really seen: a cursor never outlives the session it belongs to.
LeftOutIsKnown ==
    \A r \in Run : job[r].pc = "spawn" =>
        job[r].consumed \cup job[r].runs
            \subseteq IF job[r].resume = None THEN {} ELSE Members(known[job[r].resume])

\* A session is never resumed while an earlier CLI, perhaps an orphan of a dead
\* process, may still be working in it.
QuietResume ==
    \A r, q \in Run :
        (job[r].pc = "spawn" /\ job[r].resume # None /\ q \in live) =>
            job[q].session # job[r].resume

\* The task of a run is handed to a CLI once, also if the run is handed in
\* again after a crash that left nobody knowing what it did.
HandedOnce == \A r \in Run : spawned[r] <= 1

\* What a session was told of other backends does not change afterwards: a turn
\* that still waits for an approval, and is rewritten by it, is not told.
OnlyFinishedTold ==
    \A s \in Run : \A i \in DOMAIN known[s] :
        known[s][i] \in Other => \E h \in DOMAIN history :
            history[h].topic = known[s][i] /\ history[h].final

=============================================================================
