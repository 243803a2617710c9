------------------------------ MODULE RunRuntime ------------------------------
(***************************************************************************)
(* AgentRunRuntime: the durable owner of queued agent runs, together with  *)
(* the parts of AgentService that its worker threads execute (stream_run,  *)
(* confirm_run, cancel_run, _finish_run).                                  *)
(*                                                                         *)
(* Several server processes share one database.  Each process has one      *)
(* runtime with its own owner id, a bounded pool and a lease heartbeat.    *)
(* The rows agent_runs and agent_run_workers are the shared state; every   *)
(* action below is at most one committed database transaction, so that the *)
(* processes interleave exactly where the code commits.                    *)
(*                                                                         *)
(* A process that comes back after a crash draws a fresh owner id, so it   *)
(* is another member of Server; a member that went down stays down.        *)
(* Time is abstracted: a lease is expired or it is not (LeaseExpires).     *)
(***************************************************************************)
EXTENDS Naturals, FiniteSets

CONSTANTS
    Server,          \* runtimes, one owner id each
    NoServer,        \* the owner of a run no runtime ever claimed
    Run,             \* admitted agent runs
    Conversation,
    NoConversation,  \* conversation of a run submitted without one
    ConversationOf,  \* [Run -> Conversation \cup {NoConversation}]
    ModeOf,          \* [Run -> Modes]
    Companion,       \* runs of the companion channel: approval token required
    Capacity,        \* max_workers + max_queue of a runtime
    Workers,         \* max_workers of a runtime
    MayFail,         \* runs whose worker thread can meet an unexpected exception
    MaySuspend,      \* runtimes that can stall past a lease and wake again
    MayCrash,        \* runtimes that can disappear
    MayClose,        \* runtimes that can be shut down in order
    MaxTurns,        \* bound: dangerous calls a run proposes
    MaxTools         \* bound: other tools a run executes

\* agent_auto: the streamed tool loop.  sync: the same loop behind run().
\* keyword: agent_auto whose model cannot call tools and whose plan comes from
\* keywords.  cli: a Claude Code or Codex child process.
Modes == {"agent_auto", "sync", "keyword", "workflow", "cli"}

ASSUME ConstantsOK ==
    /\ NoServer \notin Server
    /\ NoConversation \notin Conversation
    /\ Run # {} /\ IsFiniteSet(Run)
    /\ ConversationOf \in [Run -> Conversation \cup {NoConversation}]
    /\ ModeOf \in [Run -> Modes]
    /\ Companion \subseteq Run
    /\ Capacity \in Nat \ {0}
    /\ Workers \in 1..Capacity
    /\ MayFail \subseteq Run
    /\ MaySuspend \subseteq Server
    /\ MayCrash \subseteq Server
    /\ MayClose \subseteq Server
    /\ MaxTurns \in Nat
    /\ MaxTools \in Nat

VARIABLES
    \* ---- the database
    status,   \* agent_runs.status
    turn,     \* which dangerous call the saved confirmation and loop state name
    worker,   \* agent_run_workers
    shown,    \* status in the latest snapshot of the run's journal
    \* ---- each process
    server,   \* "up", "closing" (shutdown was called) or "down"
    free,     \* the capacity semaphore _slots
    submit,   \* what _submit, inside its lock, has read and not yet committed
    job,      \* _futures and the progress of each worker thread
    \* ---- outside world, and history the properties speak of
    child,    \* runs whose CLI child process is alive
    granted,  \* approvals the user gave, by turn
    applied,  \* how often the approved call of a turn was executed
    tools,    \* other tools executed
    late      \* tools started after a stop was committed

dbVars  == <<status, turn, worker, shown>>
vars == <<status, turn, worker, shown, server, free, submit, job,
          child, granted, applied, tools, late>>

Active   == {"queued", "running"}
Stopped  == {"cancelled", "interrupted"}
Outcomes == {"completed", "failed"}
Statuses == Active \cup Stopped \cup Outcomes \cup {"requires_confirmation"}
Turns    == 1..MaxTurns

NoWorker == [owner |-> NoServer, state |-> "none", holds |-> FALSE, expired |-> FALSE]
WorkerRows == [owner : Server \cup {NoServer},
               state : {"none", "active", "finished", "interrupted"},
               holds : BOOLEAN,     \* slot_key is set
               expired : BOOLEAN]   \* lease_expires_at < now

Kinds == {"stream", "confirm"}
Idle  == [pc |-> "idle", kind |-> "stream", token |-> 0]
Pcs   == {"idle", "queued", "claim", "work", "tool", "final",   \* stream_run
          "consent", "approved", "apply",                       \* confirm_run
          "refused", "error", "lost", "enforce", "close", "done"}
Jobs  == [pc : Pcs, kind : Kinds, token : 0..MaxTurns]

NoSubmit == [on |-> FALSE, run |-> CHOOSE r \in Run : TRUE, kind |-> "stream",
             token |-> 0, known |-> FALSE]
Submits  == [on : BOOLEAN, run : Run, kind : Kinds, token : 0..MaxTurns,
             known : BOOLEAN]       \* the read found a worker row

Init ==
    /\ status = [r \in Run |-> "queued"]
    /\ turn = [r \in Run |-> 0]
    /\ worker = [r \in Run |-> NoWorker]
    /\ shown = [r \in Run |-> "none"]
    /\ server = [s \in Server |-> "up"]
    /\ free = [s \in Server |-> Capacity]
    /\ submit = [s \in Server |-> NoSubmit]
    /\ job = [s \in Server |-> [r \in Run |-> Idle]]
    /\ child = {}
    /\ granted = [r \in Run |-> {}]
    /\ applied = [r \in Run |-> [t \in Turns |-> 0]]
    /\ tools = [r \in Run |-> 0]
    /\ late = [r \in Run |-> 0]

-----------------------------------------------------------------------------
(* What the transactions share. *)

IsCli(r) == ModeOf[r] = "cli"

\* The plan is fixed in advance and an approval ends the run.
Planned(r) == ModeOf[r] \in {"keyword", "workflow"}

\* run_mode is agent_auto: a running loop looks for its cancellation.
Cancellable(r) == ModeOf[r] \in {"agent_auto", "sync", "keyword"}

\* The WHERE clause of every owner fence.
Owns(s, r) == worker[r].owner = s /\ worker[r].state = "active"

\* Mutant: the slot key carries the mode, so a CLI and an API run may share.
SlotTakenPerMode(r) ==
    /\ ConversationOf[r] # NoConversation
    /\ \E q \in Run \ {r} : /\ worker[q].holds /\ ModeOf[q] = ModeOf[r]
                            /\ ConversationOf[q] = ConversationOf[r]

\* The unique index over slot_key rejects a second row of the conversation.
SlotTaken(r) ==
    /\ ConversationOf[r] # NoConversation
    /\ \E q \in Run \ {r} : worker[q].holds /\ ConversationOf[q] = ConversationOf[r]

Claim(s, r) ==
    worker' = [worker EXCEPT ![r] =
        [owner |-> s, state |-> "active", expired |-> FALSE,
         holds |-> ConversationOf[r] # NoConversation]]

\* Mutants: failing a run that waits for approval; failing it whatever its
\* status; failing it without telling the observers.
MarkFailedWaiting(r, st) ==
    IF status[r] \in Active \cup {"requires_confirmation"}
    THEN /\ status' = [status EXCEPT ![r] = st]
         /\ shown' = [shown EXCEPT ![r] = st]
    ELSE UNCHANGED <<status, shown>>

MarkFailedAlways(r, st) ==
    /\ status' = [status EXCEPT ![r] = st]
    /\ shown' = [shown EXCEPT ![r] = st]

MarkFailedSilently(r, st) ==
    /\ status' = IF status[r] \in Active THEN [status EXCEPT ![r] = st] ELSE status
    /\ UNCHANGED shown

\* _mark_failed: only a queued or running run changes, and with an event.
MarkFailed(r, st) ==
    IF status[r] \in Active
    THEN /\ status' = [status EXCEPT ![r] = st]
         /\ shown' = [shown EXCEPT ![r] = st]
    ELSE UNCHANGED <<status, shown>>

\* Mutant: the result is written whatever happened meanwhile.
FinishRunAlways(r, st) == status' = [status EXCEPT ![r] = st]

\* Stop statuses are never overwritten by a result that arrives late.
FinishRun(r, st) ==
    status' = IF status[r] \in Stopped THEN status ELSE [status EXCEPT ![r] = st]

Live(s) == server[s] \in {"up", "closing"}

Started(s) == {r \in Run : job[s][r].pc \notin {"idle", "queued", "done"}}

At(s, r, pc) == Live(s) /\ job[s][r].pc = pc

Goto(s, r, pc) == job' = [job EXCEPT ![s][r].pc = pc]

\* Sources whose loop yields events through the owner fence as it goes; the
\* others (planned runs, synchronous completion, every confirmation) yield
\* none until they are finished.
Streams(s, r) == job[s][r].kind = "stream" /\ ModeOf[r] \in {"agent_auto", "cli"}

\* Mutant: the tool loop, too, compares with "cancelled" only.
HeedsCancelOnly(s, r) == IF ModeOf[r] = "cli" THEN {} ELSE {"cancelled"}

\* The statuses a source looks for before it starts a tool: the tool loop uses
\* _is_run_cancelled, _execute_tool_calls compares with "cancelled" only, and
\* the CLI child is not asked at all.
Heeds(s, r) ==
    CASE ModeOf[r] = "cli" -> {}
      [] Planned(r) /\ job[s][r].kind = "stream" -> {"cancelled"}
      [] OTHER -> Stopped

-----------------------------------------------------------------------------
(* _submit.  The runtime's lock is held from the read to the end of the     *)
(* commit, so a process has at most one submission under way; the database  *)
(* is not locked in between.                                                *)

MaySubmit(s, r) ==
    server[s] = "up" /\ ~submit[s].on /\ job[s][r].pc = "idle"

SubmitStart(s, r) ==
    /\ MaySubmit(s, r)
    /\ status[r] = "queued"
    /\ worker[r].state = "none"
    /\ submit' = [submit EXCEPT ![s] = [on |-> TRUE, run |-> r, kind |-> "stream",
                                        token |-> 0, known |-> FALSE]]
    /\ UNCHANGED <<status, turn, worker, shown, server, free, job,
                   child, granted, applied, tools, late>>

\* A run that was settled before any runtime claimed it gets a snapshot.
SubmitSettled(s, r) ==
    /\ MaySubmit(s, r)
    /\ worker[r].state = "none"
    /\ status[r] # "queued"
    /\ shown[r] = "none"
    /\ shown' = [shown EXCEPT ![r] = status[r]]
    /\ UNCHANGED <<status, turn, worker, server, free, submit, job,
                   child, granted, applied, tools, late>>

\* The user confirms: token t names the operation shown to them at some time,
\* t = 0 is a confirmation without a token.
SubmitConfirm(s, r, t) ==
    /\ MaySubmit(s, r)
    /\ status[r] = "requires_confirmation"
    /\ t \in 0..turn[r]
    /\ ~(IsCli(r) /\ worker[r].state \in {"finished", "interrupted"} /\ worker[r].holds)
    /\ worker[r].state # "active"
    /\ submit' = [submit EXCEPT ![s] = [on |-> TRUE, run |-> r, kind |-> "confirm",
                                        token |-> t, known |-> worker[r].state # "none"]]
    /\ granted' = [granted EXCEPT ![r] = IF t = 0 THEN @ ELSE @ \cup {t}]
    /\ UNCHANGED <<status, turn, worker, shown, server, free, job,
                   child, applied, tools, late>>

\* The row of the submission can still be written: INSERT needs that nobody
\* inserted it meanwhile, the confirmation's UPDATE that nobody reclaimed it.
RowFree(s) ==
    LET w == worker[submit[s].run]
    IN IF submit[s].known THEN w.state \in {"finished", "interrupted"}
                          ELSE w.state = "none"

SubmitCommit(s) ==
    LET r == submit[s].run
    IN /\ server[s] = "up" /\ submit[s].on
       /\ free[s] > 0
       /\ RowFree(s)
       /\ ~SlotTaken(r)
       /\ Claim(s, r)
       /\ free' = [free EXCEPT ![s] = @ - 1]
       /\ job' = [job EXCEPT ![s][r] = [pc |-> "queued", kind |-> submit[s].kind,
                                        token |-> submit[s].token]]
       /\ submit' = [submit EXCEPT ![s] = NoSubmit]
       /\ UNCHANGED <<status, turn, shown, server, child, granted, applied, tools, late>>

\* executor.submit raised (no thread can be started): the committed claim is
\* left behind without an owner that renews it.
SubmitUnscheduled(s) ==
    LET r == submit[s].run
    IN /\ server[s] = "up" /\ submit[s].on /\ r \in MayFail
       /\ free[s] > 0 /\ RowFree(s) /\ ~SlotTaken(r)
       /\ Claim(s, r)
       /\ MarkFailed(r, "failed")
       /\ submit' = [submit EXCEPT ![s] = NoSubmit]
       /\ UNCHANGED <<turn, server, free, job, child, granted, applied, tools, late>>

\* Mutant: a permit is returned that this path never took.
SubmitGiveUpTwice(s) ==
    /\ server[s] = "up" /\ submit[s].on
    /\ free[s] = 0 \/ ~RowFree(s) \/ SlotTaken(submit[s].run)
    /\ free' = [free EXCEPT ![s] = @ + 1]
    /\ submit' = [submit EXCEPT ![s] = NoSubmit]
    /\ UNCHANGED <<status, turn, worker, shown, server, job,
                   child, granted, applied, tools, late>>

\* AgentRuntimeBusy, or None because somebody else has the run: the semaphore
\* is given back and nothing was committed.
SubmitGiveUp(s) ==
    /\ server[s] = "up" /\ submit[s].on
    /\ free[s] = 0 \/ ~RowFree(s) \/ SlotTaken(submit[s].run)
    /\ submit' = [submit EXCEPT ![s] = NoSubmit]
    /\ UNCHANGED <<status, turn, worker, shown, server, free, job,
                   child, granted, applied, tools, late>>

-----------------------------------------------------------------------------
(* The worker thread: _execute over stream_run.                             *)

JobStart(s, r) ==
    /\ At(s, r, "queued")
    /\ Cardinality(Started(s)) < Workers
    /\ Goto(s, r, IF job[s][r].kind = "stream" THEN "claim" ELSE "consent")
    /\ UNCHANGED <<status, turn, worker, shown, server, free, submit,
                   child, granted, applied, tools, late>>

\* Compare-and-swap queued -> running; otherwise the saved state is replayed.
StreamClaim(s, r) ==
    /\ At(s, r, "claim")
    /\ IF status[r] = "queued"
       THEN /\ status' = [status EXCEPT ![r] = "running"]
            /\ child' = IF IsCli(r) THEN child \cup {r} ELSE child
            /\ Goto(s, r, "work")
       ELSE /\ UNCHANGED <<status, child>>
            /\ Goto(s, r, "final")
    /\ UNCHANGED <<turn, worker, shown, server, free, submit,
                   granted, applied, tools, late>>

\* A loop asks before a dangerous call.  Once confirmed, only the companion's
\* runs ask again, and a planned run has nothing left to propose.
MayAsk(s, r) ==
    /\ ~IsCli(r) /\ turn[r] < MaxTurns
    /\ job[s][r].kind = "confirm" => r \in Companion

\* The source proposes a call.  A streaming source first yields the proposal
\* through _append, which needs the claim and renews it.
ProposeTool(s, r) ==
    /\ At(s, r, "work")
    /\ tools[r] < MaxTools \/ MayAsk(s, r)
    /\ job[s][r].kind = "confirm" => ~Planned(r)
    /\ IF Streams(s, r) /\ ~Owns(s, r)
       THEN Goto(s, r, "lost") /\ UNCHANGED worker
       ELSE /\ worker' = IF Streams(s, r) THEN [worker EXCEPT ![r].expired = FALSE] ELSE worker
            /\ Goto(s, r, IF status[r] \in Heeds(s, r) THEN "final" ELSE "tool")
    /\ UNCHANGED <<status, turn, shown, server, free, submit,
                   child, granted, applied, tools, late>>

\* The handler runs: an external effect that no rollback undoes.
Tool(s, r) ==
    /\ At(s, r, "tool")
    /\ tools[r] < MaxTools
    /\ tools' = [tools EXCEPT ![r] = @ + 1]
    /\ late' = [late EXCEPT ![r] = IF status[r] \in Stopped THEN @ + 1 ELSE @]
    /\ Goto(s, r, "work")
    /\ UNCHANGED <<status, turn, worker, shown, server, free, submit,
                   child, granted, applied>>

\* The call is dangerous: it is saved with the loop state, the run waits, and
\* the source ends.
AskApproval(s, r) ==
    /\ At(s, r, "tool")
    /\ MayAsk(s, r)
    /\ FinishRun(r, "requires_confirmation")
    /\ turn' = IF status[r] \in Stopped THEN turn ELSE [turn EXCEPT ![r] = @ + 1]
    /\ Goto(s, r, "final")
    /\ UNCHANGED <<worker, shown, server, free, submit,
                   child, granted, applied, tools, late>>

\* The source ends by itself; a CLI child has exited by then.
Finish(s, r) ==
    /\ At(s, r, "work")
    /\ \E st \in Outcomes : FinishRun(r, st)
    /\ child' = child \ {r}
    /\ Goto(s, r, "final")
    /\ UNCHANGED <<turn, worker, shown, server, free, submit,
                   granted, applied, tools, late>>

\* Anything may raise outside the generator's own guard: route resolution, a
\* plugin phase, the journal write, a database outage.
Raise(s, r) ==
    /\ r \in MayFail /\ Live(s)
    /\ job[s][r].pc \in {"claim", "work", "tool", "approved", "final"}
    /\ Goto(s, r, "error")
    /\ UNCHANGED <<status, turn, worker, shown, server, free, submit,
                   child, granted, applied, tools, late>>

\* The terminal event.  A stream yields it through the owner fence and then
\* requires a final status; a confirmation records a snapshot without a fence.
Conclude(s, r) ==
    /\ At(s, r, "final")
    /\ IF job[s][r].kind = "stream" /\ ~Owns(s, r)
       THEN Goto(s, r, "lost") /\ UNCHANGED <<worker, shown>>
       ELSE /\ shown' = [shown EXCEPT ![r] = status[r]]
            /\ worker' = IF job[s][r].kind = "stream"
                         THEN [worker EXCEPT ![r].expired = FALSE] ELSE worker
            /\ Goto(s, r, IF job[s][r].kind = "stream" /\ status[r] \in Active
                          THEN "error" ELSE "close")
    /\ UNCHANGED <<status, turn, server, free, submit,
                   child, granted, applied, tools, late>>

-----------------------------------------------------------------------------
(* The worker thread: _execute over confirm_run.                            *)

\* Mutants: the claim of the approval is a plain update; the token shown for
\* an earlier turn still counts.
ConsentUnchecked(s, r) ==
    /\ At(s, r, "consent")
    /\ status[r] \in {"requires_confirmation", "running"}
    /\ job[s][r].token \in {turn[r]} \cup (IF r \in Companion THEN {} ELSE {0})
    /\ status' = [status EXCEPT ![r] = "running"]
    /\ Goto(s, r, "approved")
    /\ UNCHANGED <<turn, worker, shown, server, free, submit,
                   child, granted, applied, tools, late>>

ConsentAnyToken(s, r) ==
    /\ At(s, r, "consent")
    /\ status[r] = "requires_confirmation"
    /\ status' = [status EXCEPT ![r] = "running"]
    /\ Goto(s, r, "approved")
    /\ UNCHANGED <<turn, worker, shown, server, free, submit,
                   child, granted, applied, tools, late>>

\* Token check and compare-and-swap over (status, confirmation, loop state).
Consent(s, r) ==
    /\ At(s, r, "consent")
    /\ status[r] = "requires_confirmation"
    /\ job[s][r].token \in {turn[r]} \cup (IF r \in Companion THEN {} ELSE {0})
    /\ status' = [status EXCEPT ![r] = "running"]
    /\ Goto(s, r, "approved")
    /\ UNCHANGED <<turn, worker, shown, server, free, submit,
                   child, granted, applied, tools, late>>

\* confirm_run refuses: stale token, run no longer waiting, unreadable
\* checkpoint, changed backend binding, lost compare-and-swap (which returns
\* the run as it is when a cancellation won).
Refuse(s, r) ==
    /\ At(s, r, "consent")
    /\ \/ Goto(s, r, "refused")
       \/ status[r] = "cancelled" /\ Goto(s, r, "final")
    /\ UNCHANGED <<status, turn, worker, shown, server, free, submit,
                   child, granted, applied, tools, late>>

\* A refusal that left the approval in place is not a failure of the run.
Refused(s, r) ==
    /\ At(s, r, "refused")
    /\ Goto(s, r, IF status[r] = "requires_confirmation" THEN "close" ELSE "error")
    /\ UNCHANGED <<status, turn, worker, shown, server, free, submit,
                   child, granted, applied, tools, late>>

\* _is_run_cancelled before the approved handler.
CheckApproved(s, r) ==
    /\ At(s, r, "approved")
    /\ Goto(s, r, IF status[r] \in Stopped THEN "final" ELSE "apply")
    /\ UNCHANGED <<status, turn, worker, shown, server, free, submit,
                   child, granted, applied, tools, late>>

\* The approved call is executed.
Apply(s, r) ==
    /\ At(s, r, "apply")
    /\ applied' = [applied EXCEPT ![r][turn[r]] = @ + 1]
    /\ late' = [late EXCEPT ![r] = IF status[r] \in Stopped THEN @ + 1 ELSE @]
    /\ Goto(s, r, "work")
    /\ UNCHANGED <<status, turn, worker, shown, server, free, submit,
                   child, granted, tools>>

-----------------------------------------------------------------------------
(* How a worker thread ends.                                                *)

\* _fail_owned; the write itself may be lost to a database outage.
Fail(s, r) ==
    /\ At(s, r, "error")
    /\ \/ Owns(s, r) /\ MarkFailed(r, "failed")
       \/ (r \in MayFail \/ ~Owns(s, r)) /\ UNCHANGED <<status, shown>>
    /\ Goto(s, r, "close")
    /\ UNCHANGED <<turn, worker, server, free, submit,
                   child, granted, applied, tools, late>>

\* _enforce_interruption reads the worker row ...
EnforceRead(s, r) ==
    /\ At(s, r, "lost")
    /\ Goto(s, r, IF worker[r].state = "interrupted" THEN "enforce" ELSE "close")
    /\ UNCHANGED <<status, turn, worker, shown, server, free, submit,
                   child, granted, applied, tools, late>>

\* ... and then stops the run, whatever its status but "cancelled".
EnforceWrite(s, r) ==
    /\ At(s, r, "enforce")
    /\ status' = IF status[r] = "cancelled" THEN status ELSE [status EXCEPT ![r] = "interrupted"]
    /\ Goto(s, r, "close")
    /\ UNCHANGED <<turn, worker, shown, server, free, submit,
                   child, granted, applied, tools, late>>

\* Mutant: the slot is never freed.
FinishClaimKeeping(s, r, release) ==
    /\ worker' = IF Owns(s, r) THEN [worker EXCEPT ![r].state = "finished"] ELSE worker
    /\ IF Owns(s, r) THEN MarkFailed(r, "failed") ELSE UNCHANGED <<status, shown>>

\* _finish_claim: release the owned claim and fail a run left unfinished, or
\* free the slot an interrupted CLI owner still reserves.
FinishClaim(s, r, release) ==
    IF Owns(s, r)
    THEN /\ worker' = [worker EXCEPT ![r].state = "finished",
                                     ![r].holds = IF release THEN FALSE ELSE @]
         /\ MarkFailed(r, "failed")
    ELSE /\ worker' = IF release /\ worker[r].owner = s /\ worker[r].state = "interrupted"
                      THEN [worker EXCEPT ![r].holds = FALSE] ELSE worker
         /\ UNCHANGED <<status, shown>>

\* The source closes, which ends a CLI child, and the claim is released.
Close(s, r) ==
    /\ At(s, r, "close")
    /\ FinishClaim(s, r, TRUE)
    /\ child' = child \ {r}
    /\ Goto(s, r, "done")
    /\ UNCHANGED <<turn, server, free, submit, granted, applied, tools, late>>

\* Mutant: the slot is freed although the child may still be there.
CloseFailsReleasing(s, r) ==
    /\ At(s, r, "close")
    /\ IsCli(r) /\ r \in MayFail
    /\ FinishClaim(s, r, TRUE)
    /\ Goto(s, r, "done")
    /\ UNCHANGED <<turn, server, free, submit, child, granted, applied, tools, late>>

\* Closing the CLI source raises: _job_done keeps the conversation reserved.
CloseFails(s, r) ==
    /\ At(s, r, "close")
    /\ IsCli(r) /\ r \in MayFail
    /\ FinishClaim(s, r, FALSE)
    /\ Goto(s, r, "done")
    /\ UNCHANGED <<turn, server, free, submit, child, granted, applied, tools, late>>

\* The database is unavailable for both attempts at _finish_claim.
CloseUnrecorded(s, r) ==
    /\ At(s, r, "close")
    /\ r \in MayFail
    /\ child' = child \ {r}
    /\ Goto(s, r, "done")
    /\ UNCHANGED <<status, turn, worker, shown, server, free, submit,
                   granted, applied, tools, late>>

\* Mutant: the permit is not returned.
JobDoneLeaking(s, r) ==
    /\ At(s, r, "done")
    /\ ~submit[s].on
    /\ job' = [job EXCEPT ![s][r] = Idle]
    /\ UNCHANGED <<status, turn, worker, shown, server, free, submit,
                   child, granted, applied, tools, late>>

\* _job_done, under the runtime's lock: the future and the capacity go back.
JobDone(s, r) ==
    /\ At(s, r, "done")
    /\ ~submit[s].on
    /\ job' = [job EXCEPT ![s][r] = Idle]
    /\ free' = [free EXCEPT ![s] = @ + 1]
    /\ UNCHANGED <<status, turn, worker, shown, server, submit,
                   child, granted, applied, tools, late>>

-----------------------------------------------------------------------------
(* Leases, recovery, shutdown, crash; the user's cancellation.              *)

LeaseExpires(r) ==
    /\ worker[r].state = "active" /\ ~worker[r].expired
    /\ worker' = [worker EXCEPT ![r].expired = TRUE]
    /\ UNCHANGED <<status, turn, shown, server, free, submit, job,
                   child, granted, applied, tools, late>>

Holder(r) == worker[r].owner

\* Nobody renews the claim any more: the process is gone, or its thread ended
\* without recording it.
LeaseAbandoned(r) ==
    /\ worker[r].state = "active"
    /\ server[Holder(r)] = "down" \/ job[Holder(r)][r].pc = "idle"
    /\ LeaseExpires(r)

\* The process still works on the run but was stalled longer than the lease.
LeaseOverrun(r) ==
    /\ worker[r].state = "active"
    /\ Holder(r) \in MaySuspend /\ Live(Holder(r)) /\ job[Holder(r)][r].pc # "idle"
    /\ LeaseExpires(r)

\* One pass of _maintain_leases over a stalled process's claim, in time.
Renew(s, r) ==
    /\ Live(s) /\ job[s][r].pc # "idle"
    /\ Owns(s, r) /\ worker[r].expired
    /\ worker' = [worker EXCEPT ![r].expired = FALSE]
    /\ UNCHANGED <<status, turn, shown, server, free, submit, job,
                   child, granted, applied, tools, late>>

\* The heartbeat thread runs until a closing runtime has nothing left to own.
Maintains(s) ==
    \/ server[s] = "up"
    \/ server[s] = "closing" /\ \E r \in Run : job[s][r].pc # "idle"

\* Mutant: the run of the lost claim is left as it is.
RecoverClaimOnly(s, r) ==
    /\ Maintains(s)
    /\ worker[r].state = "active" /\ worker[r].expired
    /\ worker' = [worker EXCEPT ![r].state = "interrupted", ![r].expired = FALSE,
                                ![r].holds = IF IsCli(r) THEN @ ELSE FALSE]
    /\ UNCHANGED <<status, turn, shown, server, free, submit, job,
                   child, granted, applied, tools, late>>

\* recover_expired, in any runtime.
Recover(s, r) ==
    /\ Maintains(s)
    /\ worker[r].state = "active" /\ worker[r].expired
    /\ worker' = [worker EXCEPT ![r].state = "interrupted", ![r].expired = FALSE,
                                ![r].holds = IF IsCli(r) THEN @ ELSE FALSE]
    /\ MarkFailed(r, "interrupted")
    /\ UNCHANGED <<turn, server, free, submit, job, child, granted, applied, tools, late>>

Shutdown(s) ==
    /\ s \in MayClose /\ server[s] = "up" /\ ~submit[s].on
    /\ server' = [server EXCEPT ![s] = "closing"]
    /\ UNCHANGED <<status, turn, worker, shown, free, submit, job,
                   child, granted, applied, tools, late>>

\* executor.shutdown(cancel_futures=True) on a job no thread has started.
DropQueued(s, r) ==
    /\ At(s, r, "queued")
    /\ server[s] = "closing"
    /\ IF Owns(s, r) THEN MarkFailed(r, "interrupted") ELSE UNCHANGED <<status, shown>>
    /\ Goto(s, r, "close")
    /\ UNCHANGED <<turn, worker, server, free, submit, child, granted, applied, tools, late>>

\* The process disappears; a CLI child may survive it.
Crash(s) ==
    /\ s \in MayCrash /\ Live(s)
    /\ server' = [server EXCEPT ![s] = "down"]
    /\ job' = [job EXCEPT ![s] = [r \in Run |-> Idle]]
    /\ submit' = [submit EXCEPT ![s] = NoSubmit]
    /\ free' = [free EXCEPT ![s] = Capacity]
    /\ UNCHANGED <<status, turn, worker, shown, child, granted, applied, tools, late>>

\* cancel_run: queued and waiting runs, and running ones whose loop looks.
Cancel(r) ==
    /\ status[r] \in {"queued", "requires_confirmation"}
                     \cup (IF Cancellable(r) THEN {"running"} ELSE {})
    /\ status' = [status EXCEPT ![r] = "cancelled"]
    /\ UNCHANGED <<turn, worker, shown, server, free, submit, job,
                   child, granted, applied, tools, late>>

\* The snapshot that the cancel route records after cancel_run, if it gets to.
RecordCancel(r) ==
    /\ status[r] = "cancelled" /\ shown[r] # "cancelled"
    /\ shown' = [shown EXCEPT ![r] = "cancelled"]
    /\ UNCHANGED <<status, turn, worker, server, free, submit, job,
                   child, granted, applied, tools, late>>

-----------------------------------------------------------------------------

Execute(s, r) ==
    \/ JobStart(s, r) \/ StreamClaim(s, r) \/ ProposeTool(s, r) \/ Tool(s, r)
    \/ AskApproval(s, r) \/ Finish(s, r) \/ Raise(s, r) \/ Conclude(s, r)
    \/ Consent(s, r) \/ Refuse(s, r) \/ Refused(s, r)
    \/ CheckApproved(s, r) \/ Apply(s, r)
    \/ Fail(s, r) \/ EnforceRead(s, r) \/ EnforceWrite(s, r)
    \/ Close(s, r) \/ CloseFails(s, r) \/ CloseUnrecorded(s, r)
    \/ DropQueued(s, r) \/ JobDone(s, r)

Next ==
    \/ \E s \in Server, r \in Run :
          \/ SubmitStart(s, r) \/ SubmitSettled(s, r)
          \/ \E t \in 0..MaxTurns : SubmitConfirm(s, r, t)
          \/ Execute(s, r) \/ Renew(s, r) \/ Recover(s, r)
    \/ \E s \in Server : SubmitCommit(s) \/ SubmitUnscheduled(s) \/ SubmitGiveUp(s)
                        \/ Shutdown(s) \/ Crash(s)
    \/ \E r \in Run : LeaseAbandoned(r) \/ LeaseOverrun(r) \/ Cancel(r) \/ RecordCancel(r)

Spec == Init /\ [][Next]_vars

\* Threads are scheduled, an abandoned lease runs out, and every heartbeat
\* thread keeps scanning for expired leases.  Users owe nothing.
Fairness ==
    /\ \A s \in Server, r \in Run : WF_vars(Execute(s, r)) /\ WF_vars(Recover(s, r))
    /\ \A s \in Server : WF_vars(SubmitCommit(s) \/ SubmitUnscheduled(s) \/ SubmitGiveUp(s))
    /\ \A r \in Run : WF_vars(LeaseAbandoned(r))

FairSpec == Spec /\ Fairness

-----------------------------------------------------------------------------
(* Properties.                                                              *)

\* The range of every variable.
TypeOK ==
    /\ status \in [Run -> Statuses]
    /\ turn \in [Run -> 0..MaxTurns]
    /\ worker \in [Run -> WorkerRows]
    /\ shown \in [Run -> Statuses \cup {"none"}]
    /\ server \in [Server -> {"up", "closing", "down"}]
    /\ free \in [Server -> 0..Capacity]
    /\ submit \in [Server -> Submits]
    /\ job \in [Server -> [Run -> Jobs]]
    /\ child \subseteq Run
    /\ granted \in [Run -> SUBSET Turns]
    /\ applied \in [Run -> [Turns -> Nat]]
    /\ tools \in [Run -> Nat]
    /\ late \in [Run -> Nat]

SameConversation(q, r) ==
    q # r /\ ConversationOf[q] = ConversationOf[r] /\ ConversationOf[r] # NoConversation

\* Two live claims never belong to the same conversation, whichever processes
\* hold them and whether a stream or a confirmation took them (_submit).
ConversationExclusive ==
    \A q, r \in Run : SameConversation(q, r) =>
        ~(worker[q].state = "active" /\ worker[r].state = "active")

\* While a CLI child lives, no other run of its conversation gets a claim: not
\* a new task of any mode and not the approval of an earlier one.
CliWorkspaceReserved ==
    \A q \in child, r \in Run : SameConversation(q, r) => worker[r].state # "active"

Executing(s, r) == job[s][r].pc \in {"work", "tool", "approved", "apply"}

\* At most one thread of all processes is executing a given run.
OneExecutor ==
    \A r \in Run : \A s, z \in Server : Executing(s, r) /\ Executing(z, r) => s = z

\* A dangerous call that waited for approval is executed at most once, however
\* often and wherever it is confirmed.
ApprovedOnce == \A r \in Run : \A t \in Turns : applied[r][t] <= 1

\* On the companion channel a call is executed only if the user approved that
\* very turn: an approval never authorises a later call.
ApprovedExactly ==
    \A r \in Companion : \A t \in Turns : applied[r][t] > 0 => t \in granted[r]

\* Once a cancellation or an interruption is committed, the tool loop starts at
\* most the one tool it had already decided on.
StopBoundsTools ==
    \A r \in Run : ModeOf[r] \in {"agent_auto", "sync"} => late[r] <= 1

\* The capacity semaphore counts the futures exactly: no path through _submit
\* and _job_done leaks a permit or returns one twice.
CapacityBalanced ==
    \A s \in Server :
        free[s] + Cardinality({r \in Run : job[s][r].pc # "idle"}) = Capacity

\* A cancelled or interrupted run keeps that status: no late result, approval
\* or failure report revives it.
StopIsFinal == [][\A r \in Run : status[r] \in Stopped => status'[r] = status[r]]_vars

\* Every settled status is final.
SettledIsFinal ==
    [][\A r \in Run : status[r] \in Stopped \cup Outcomes => status'[r] = status[r]]_vars

\* Observers learn of every interruption: the journal's latest snapshot of an
\* interrupted run says so.
InterruptionShown == \A r \in Run : status[r] = "interrupted" => shown[r] = "interrupted"

\* An approval that was saved survives the loss of its owner's lease: only the
\* user's confirmation or cancellation ends it.
ApprovalSurvives ==
    [][\A r \in Run : status[r] = "requires_confirmation" =>
          status'[r] \in {"requires_confirmation", "running", "cancelled"}]_vars

\* A stopped run starts no further tool in any mode that can be fenced.
StopBoundsEveryLoop ==
    \A r \in Run : ModeOf[r] # "cli" => late[r] <= 1

\* Some runtime keeps scanning for expired leases.
ServiceContinues == []<>(\E s \in Server : server[s] = "up")

\* No run stays in progress forever.
RunsSettle ==
    ServiceContinues => \A r \in Run : (status[r] = "running") ~> (status[r] # "running")

\* A run without a CLI child does not block its conversation forever.
ConversationFreed ==
    ServiceContinues =>
        \A r \in Run : ~IsCli(r) => (worker[r].holds ~> ~worker[r].holds)

=============================================================================
