------------------------------- MODULE ToolLoop -------------------------------
(***************************************************************************)
(* The tool loop of one API run (_iterate_tool_loop) with its ledger, its  *)
(* model and plan quotas, its durable receipt, and the checkpoint through  *)
(* which confirm_run continues it after an approval.                       *)
(*                                                                         *)
(* The model behind the loop is the adversary: it answers every request    *)
(* with any batch of calls, also when it was offered no tools.  The run is *)
(* cancelled, interrupted or loses its thread at any point in between.     *)
(* Who may execute the run is RunRuntime's subject; here one thread does.  *)
(***************************************************************************)
EXTENDS Naturals, Sequences, FiniteSets

CONSTANTS
    SafeCall,       \* calls of handlers that need no approval
    DangerousCall,  \* calls of handlers that do
    InvalidCall,    \* unparsable, unknown, disabled or ill-typed calls
    PlanCall,       \* the update_plan metadata call
    Budget,         \* max_steps of the run
    ModelLimit,     \* MAX_MODEL_CALLS
    PlanLimit,      \* MAX_PLAN_ATTEMPTS
    Duplicates,     \* _MAX_CONSECUTIVE_DUPLICATE_CALLS
    MaxBatch,       \* bound: calls in one answer of the model
    Modes           \* request options a run may be submitted with

External == SafeCall \cup DangerousCall \cup InvalidCall
Calls    == External \cup {PlanCall}
Batches  == UNION {[1..n -> Calls] : n \in 0..MaxBatch}

ASSUME LoopConstants ==
    /\ Budget \in Nat \ {0} /\ ModelLimit \in Nat \ {0} /\ PlanLimit \in Nat
    /\ Duplicates \in Nat \ {0} /\ MaxBatch \in Nat
    /\ PlanCall \notin External
    /\ SafeCall \cap DangerousCall = {} /\ SafeCall \cap InvalidCall = {}
    /\ DangerousCall \cap InvalidCall = {}
    /\ Modes \subseteq [dry : BOOLEAN, ahead : BOOLEAN, companion : BOOLEAN, planning : BOOLEAN]
    /\ \A m \in Modes : m.companion => ~m.ahead     \* companion_service submits so

VARIABLES
    \* ---- the run's row
    status,      \* status
    receipt,     \* execution_receipt_json
    checkpoint,  \* required_confirmations_json and loop_state_json
    revision,    \* revision of task_plan_json
    \* ---- the thread
    phase,       \* where it is
    queue,       \* calls of the current batch not yet looked at
    ledger,      \* ToolLoopLedger
    control,     \* RunLoopControl
    stop,        \* the repeated-call guard fired
    refused,     \* plan_limit_noted
    resumed,     \* this thread continues an approval
    mode,        \* dry_run, confirm_dangerous_actions, channel, update_plan enabled
    transcript,  \* what the checks read in the tool messages
    \* ---- history
    effects,     \* handlers started, in order: the call and its reservation
    asked,       \* requests made to the model
    proposed,    \* external calls the model ever asked for
    confirms,    \* approvals the user gave
    fallback     \* the keyword plan took over

rowVars     == <<status, receipt, checkpoint, revision>>
accountVars == <<ledger, control, transcript>>
flowVars    == <<stop, refused, resumed, mode>>
historyVars == <<effects, asked, proposed, confirms, fallback>>
vars == <<rowVars, phase, queue, accountVars, flowVars, historyVars>>

None     == "none"
Stopped  == {"cancelled", "interrupted"}
Settled  == {"completed", "partial_success", "failed"}
Statuses == {"running", "requires_confirmation"} \cup Stopped \cup Settled
Reasons  == {"in_progress", "model_finished", "tool_budget", "duplicate_guard",
             "iteration_limit", "waiting_confirmation"}
Phases   == {"top", "ask", "calls", "check", "handle", "result", "leave", "wait", "end",
             "raised", "approved", "applying", "applied", "idle"}

NewLedger == [used |-> 0, succeeded |-> 0, failed |-> 0, rejected |-> 0, skipped |-> 0,
              pending |-> 0, omitted |-> 0, history |-> <<>>, reason |-> "in_progress"]
NoReceipt == [NewLedger EXCEPT !.reason = None]

NewControl    == [model |-> 0, plan |-> 0]
NewTranscript == [plans |-> 0, last |-> 0, sorted |-> TRUE, open |-> None]
NoCheckpoint  == [call |-> PlanCall, ledger |-> NewLedger, control |-> NewControl,
                  transcript |-> NewTranscript]

Init ==
    /\ status = "running" /\ receipt = NoReceipt /\ checkpoint = NoCheckpoint /\ revision = 0
    /\ phase = "top" /\ queue = <<>>
    /\ ledger = NewLedger
    /\ control = NewControl
    /\ stop = FALSE /\ refused = FALSE /\ resumed = FALSE
    /\ mode \in Modes
    /\ transcript = NewTranscript
    /\ effects = <<>> /\ asked = 0 /\ proposed = 0 /\ confirms = 0 /\ fallback = FALSE

-----------------------------------------------------------------------------
(* The ledger. *)

\* reserve(): one attempt is charged before it is executed or shown.
Reserved(l, c) ==
    IF l.used >= Budget THEN l
    ELSE [l EXCEPT !.used = @ + 1, !.pending = @ + 1, !.history = Append(@, c)]

\* Mutant: the outcome is counted beside the reservation.
ResolvedStillPending(l, outcome) ==
    CASE outcome = "completed" -> [l EXCEPT !.succeeded = @ + 1]
      [] outcome = "failed"    -> [l EXCEPT !.pending = @ - 1, !.failed = @ + 1]
      [] outcome = "rejected"  -> [l EXCEPT !.pending = @ - 1, !.rejected = @ + 1]
      [] outcome = "skipped"   -> [l EXCEPT !.pending = @ - 1, !.skipped = @ + 1]

\* resolve(): the reservation becomes an outcome; nothing is charged again.
Resolved(l, outcome) ==
    CASE outcome = "completed" -> [l EXCEPT !.pending = @ - 1, !.succeeded = @ + 1]
      [] outcome = "failed"    -> [l EXCEPT !.pending = @ - 1, !.failed = @ + 1]
      [] outcome = "rejected"  -> [l EXCEPT !.pending = @ - 1, !.rejected = @ + 1]
      [] outcome = "skipped"   -> [l EXCEPT !.pending = @ - 1, !.skipped = @ + 1]

\* Mutant: calls the loop never looked at do not make a run incomplete.
IncompleteOmittedIgnored(l) ==
    \/ l.failed + l.rejected + l.pending > 0
    \/ l.reason \notin {"model_finished", "tool_budget"}

\* _incomplete(): something was not done, or the loop did not end by itself.
Incomplete(l) ==
    \/ l.failed + l.rejected + l.pending + l.omitted > 0
    \/ l.reason \notin {"model_finished", "tool_budget"}

FinalStatus(l) ==
    CASE l.reason = "waiting_confirmation" -> "requires_confirmation"
      [] l.reason = "in_progress"          -> "running"
      [] OTHER -> IF ~Incomplete(l) THEN "completed"
                  ELSE IF l.succeeded + l.skipped > 0 THEN "partial_success" ELSE "failed"

\* The same call was charged that often in a row, immediately before this one.
Repeated(l, c) ==
    LET n == Len(l.history)
    IN n >= Duplicates /\ \A i \in n - Duplicates + 1 .. n : l.history[i] = c

ExternalCount(calls) == Cardinality({i \in DOMAIN calls : calls[i] # PlanCall})

Omitting(l, calls) == [l EXCEPT !.omitted = @ + ExternalCount(calls)]

\* The assistant message of one call enters the transcript, with its batch;
\* plan calls are only ever counted up to MAX_PLAN_ATTEMPTS.
Recorded(c, answered) ==
    [plans  |-> IF c = PlanCall /\ transcript.plans < PlanLimit THEN transcript.plans + 1
                ELSE transcript.plans,
     last   |-> control.model,
     sorted |-> transcript.sorted /\ control.model >= transcript.last,
     open   |-> IF answered THEN None ELSE c]

\* _persist_execution_receipt: only while the run is running.
Persist(l) == receipt' = IF status = "running" THEN l ELSE receipt

\* What an approval needs to be continued, _save_pending_tool_call and
\* _save_loop_state: written unless the run was stopped.
Saved(k) == checkpoint' = IF status \in Stopped THEN checkpoint ELSE k

\* _is_run_cancelled, asked again at every step of the loop.
Heeded == status \in Stopped

Abandon == phase' = "idle"

\* What AgentExecutionReceipt.from_snapshot shows for the stored receipt.
PublicIncomplete ==
    \/ Incomplete(receipt)
    \/ status \in Stopped \cup {"failed"}

-----------------------------------------------------------------------------
(* One round: ask the model, read its answer.                               *)

\* Mutant: a request to the model is free.
AskFreely ==
    /\ phase = "top" /\ ~Heeded
    /\ control.model < ModelLimit
    /\ ledger' = [ledger EXCEPT !.reason =
          IF stop THEN "duplicate_guard"
          ELSE IF ledger.used >= Budget THEN "tool_budget" ELSE @]
    /\ phase' = "ask"
    /\ UNCHANGED <<rowVars, queue, control, transcript, flowVars, historyVars>>

\* A request is charged before it is made; the last one offers no tools.
AskModel ==
    /\ phase = "top" /\ ~Heeded
    /\ control.model < ModelLimit
    /\ ledger' = [ledger EXCEPT !.reason =
          IF control.model = ModelLimit - 1 THEN "iteration_limit"
          ELSE IF stop THEN "duplicate_guard"
          ELSE IF ledger.used >= Budget THEN "tool_budget" ELSE @]
    /\ control' = [control EXCEPT !.model = @ + 1]
    /\ asked' = asked + 1
    /\ phase' = "ask"
    /\ UNCHANGED <<rowVars, queue, transcript, flowVars, effects, proposed, confirms, fallback>>

\* Did the request that is under way offer no tools?
Forced ==
    \/ control.model = ModelLimit
    \/ stop
    \/ ledger.used >= Budget /\ (control.plan >= PlanLimit \/ ~mode.planning)

\* The answer: a summary whatever it proposes, the end, or calls to look at.
Answer(batch) ==
    /\ phase = "ask" /\ ~Heeded
    /\ proposed' = proposed + ExternalCount(batch)
    /\ refused' = FALSE
    /\ \/ /\ Forced
          /\ ledger' = Omitting(ledger, batch)
          /\ phase' = "leave" /\ UNCHANGED queue
       \/ /\ ~Forced /\ batch = <<>>
          /\ ledger' = [ledger EXCEPT !.reason =
                IF ledger.used >= Budget THEN "tool_budget" ELSE "model_finished"]
          /\ phase' = "leave" /\ UNCHANGED queue
       \/ /\ ~Forced /\ batch # <<>>
          /\ phase' = "calls" /\ queue' = batch /\ UNCHANGED ledger
    /\ UNCHANGED <<rowVars, control, transcript, stop, resumed, mode,
                   effects, asked, confirms, fallback>>

\* The provider fails, or does not support tools.
ProviderFails ==
    /\ phase = "ask"
    /\ phase' = "raised"
    /\ UNCHANGED <<rowVars, queue, accountVars, flowVars, historyVars>>

NextBatch ==
    /\ phase = "calls" /\ queue = <<>>
    /\ phase' = "top"
    /\ UNCHANGED <<rowVars, queue, accountVars, flowVars, historyVars>>

Looking(c) == phase = "calls" /\ queue # <<>> /\ ~Heeded /\ Head(queue) = c

-----------------------------------------------------------------------------
(* One call of the batch.                                                   *)

\* More plan calls in a batch that was already told: not even recorded.
SkipPlan ==
    /\ Looking(PlanCall) /\ control.plan >= PlanLimit /\ refused
    /\ queue' = Tail(queue)
    /\ UNCHANGED <<rowVars, phase, accountVars, flowVars, historyVars>>

\* Mutant: a refused plan call still counts against the attempts.
PlanRefusalCharged ==
    /\ Looking(PlanCall) /\ control.plan >= PlanLimit /\ ~refused
    /\ refused' = TRUE
    /\ control' = [control EXCEPT !.plan = @ + 1]
    /\ transcript' = Recorded(PlanCall, TRUE)
    /\ queue' = Tail(queue)
    /\ UNCHANGED <<rowVars, phase, ledger, stop, resumed, mode, historyVars>>

RefusePlan ==
    /\ Looking(PlanCall) /\ control.plan >= PlanLimit /\ ~refused
    /\ refused' = TRUE
    /\ transcript' = Recorded(PlanCall, TRUE)
    /\ queue' = Tail(queue)
    /\ UNCHANGED <<rowVars, phase, ledger, control, stop, resumed, mode, historyVars>>

\* An attempt is charged whether the plan is invalid, unchanged or replaced
\* (TaskPlanService.update commits a new revision on a running run).
UpdatePlan ==
    /\ Looking(PlanCall) /\ control.plan < PlanLimit
    /\ control' = [control EXCEPT !.plan = @ + 1]
    /\ revision' \in {revision} \cup {n \in {revision + 1} : mode.planning}
    /\ transcript' = Recorded(PlanCall, TRUE)
    /\ queue' = Tail(queue)
    /\ UNCHANGED <<status, receipt, checkpoint, phase, ledger, flowVars, historyVars>>

OmitOverBudget ==
    /\ \E c \in External : Looking(c)
    /\ ledger.used >= Budget
    /\ ledger' = [ledger EXCEPT !.omitted = @ + 1]
    /\ queue' = Tail(queue)
    /\ UNCHANGED <<rowVars, phase, control, transcript, flowVars, historyVars>>

Considered(c) == Looking(c) /\ ledger.used < Budget

\* The repeated-call guard gives up the rest of the batch, and the loop.
StopRepetition ==
    \E c \in External :
        /\ Considered(c) /\ Repeated(ledger, c)
        /\ ledger' = Omitting(ledger, queue)
        /\ stop' = TRUE
        /\ queue' = <<>>
        /\ phase' = "top"
        /\ UNCHANGED <<rowVars, control, transcript, refused, resumed, mode, historyVars>>

RejectInvalid ==
    \E c \in InvalidCall :
        /\ Considered(c) /\ ~Repeated(ledger, c)
        /\ ledger' = Resolved(Reserved(ledger, c), "rejected")
        /\ Persist(ledger')
        /\ transcript' = Recorded(c, TRUE)
        /\ queue' = Tail(queue)
        /\ UNCHANGED <<status, checkpoint, revision, phase, control, flowVars, historyVars>>

NeedsApproval(c) == c \in DangerousCall /\ ~mode.dry /\ ~mode.ahead

\* Mutant: the receipt is written only with the result.
ReserveUnrecorded ==
    \E c \in SafeCall \cup DangerousCall :
        /\ Considered(c) /\ ~Repeated(ledger, c)
        /\ ledger' = Reserved(ledger, c)
        /\ phase' = IF NeedsApproval(c) THEN "wait" ELSE "check"
        /\ UNCHANGED <<rowVars, queue, control, transcript, flowVars, historyVars>>

\* The attempt is charged and the receipt committed before anything happens.
Reserve ==
    \E c \in SafeCall \cup DangerousCall :
        /\ Considered(c) /\ ~Repeated(ledger, c)
        /\ ledger' = Reserved(ledger, c)
        /\ Persist(ledger')
        /\ phase' = IF NeedsApproval(c) THEN "wait" ELSE "check"
        /\ UNCHANGED <<status, checkpoint, revision, queue, control, transcript,
                       flowVars, historyVars>>

\* Mutant: the calls behind the one that waits are not counted as omitted.
SaveApprovalForgetting ==
    /\ phase = "wait"
    /\ ledger' = [ledger EXCEPT !.reason = "waiting_confirmation"]
    /\ transcript' = Recorded(Head(queue), FALSE)
    /\ Saved([call |-> Head(queue), ledger |-> ledger', control |-> control,
              transcript |-> transcript'])
    /\ Persist(ledger')
    /\ queue' = <<>>
    /\ phase' = "end"
    /\ UNCHANGED <<status, revision, control, flowVars, historyVars>>

\* Only the reviewed call survives, with the counters it was charged to.
SaveApproval ==
    /\ phase = "wait"
    /\ ledger' = [Omitting(ledger, Tail(queue)) EXCEPT !.reason = "waiting_confirmation"]
    /\ transcript' = Recorded(Head(queue), FALSE)
    /\ Saved([call |-> Head(queue), ledger |-> ledger', control |-> control,
              transcript |-> transcript'])
    /\ Persist(ledger')
    /\ queue' = <<>>
    /\ phase' = "end"
    /\ UNCHANGED <<status, revision, control, flowVars, historyVars>>

\* tool.started was yielded; the run is asked once more before the handler.
CheckHandler ==
    /\ phase = "check"
    /\ phase' = IF Heeded THEN "idle" ELSE "handle"
    /\ UNCHANGED <<rowVars, queue, accountVars, flowVars, historyVars>>

\* The handler is started: an external effect that no rollback undoes.
StartHandler ==
    /\ phase = "handle" /\ ~mode.dry
    /\ effects' = Append(effects, [call |-> Head(queue), slot |-> ledger.used])
    /\ phase' = "result"
    /\ UNCHANGED <<rowVars, queue, accountVars, flowVars, asked, proposed, confirms, fallback>>

\* A call the safety checks of ToolService.execute block never starts a handler.
Outcomes ==
    CASE mode.dry                                    -> {"skipped"}
      [] ~mode.dry /\ phase \in {"handle", "applying"} -> {"failed"}
      [] ~mode.dry /\ phase \in {"result", "applied"}  -> {"completed", "failed"}

HandlerDone ==
    /\ phase \in {"handle", "result"}
    /\ \E outcome \in Outcomes : ledger' = Resolved(ledger, outcome)
    /\ Persist(ledger')
    /\ transcript' = Recorded(Head(queue), TRUE)
    /\ queue' = Tail(queue)
    /\ phase' = "calls"
    /\ UNCHANGED <<status, checkpoint, revision, control, flowVars, historyVars>>

-----------------------------------------------------------------------------
(* How the loop ends.                                                       *)

\* Whatever the loop was about to do next, a committed stop ends it.
HeedStop ==
    /\ phase \in {"top", "ask", "calls"} /\ Heeded
    /\ Abandon
    /\ UNCHANGED <<rowVars, queue, accountVars, flowVars, historyVars>>

Leave ==
    /\ phase = "leave"
    /\ Persist(ledger)
    /\ phase' = "end"
    /\ UNCHANGED <<status, checkpoint, revision, queue, accountVars, flowVars, historyVars>>

\* _finish_run, and the thread is gone.
Finish ==
    /\ phase = "end"
    /\ IF Heeded THEN UNCHANGED <<status, checkpoint>>
       ELSE /\ status' = FinalStatus(ledger)
            /\ checkpoint' = IF status' = "requires_confirmation" THEN checkpoint ELSE NoCheckpoint
    /\ Abandon
    /\ UNCHANGED <<receipt, revision, queue, accountVars, flowVars, historyVars>>

\* _finish_run of the keyword plan, which may also end waiting for approval
\* (RunRuntime follows that approval).
KeywordPlan ==
    /\ fallback' = TRUE
    /\ \E st \in Settled \cup {"requires_confirmation"} :
          status' = IF Heeded THEN status ELSE st
    /\ Abandon
    /\ UNCHANGED <<receipt, checkpoint, revision, queue, accountVars, flowVars,
                   effects, asked, proposed, confirms>>

\* The provider has no tools: the keyword plan runs instead, but only if the
\* receipt shows that nothing was charged yet, and never after an approval.
FallBack ==
    /\ phase = "raised" /\ ~resumed
    /\ receipt.used = 0
    /\ KeywordPlan

\* Otherwise the exception reaches the runtime, which fails the run.
FailRun ==
    /\ phase = "raised"
    /\ status' = IF status = "running" THEN "failed" ELSE status
    /\ Abandon
    /\ UNCHANGED <<receipt, checkpoint, revision, queue, accountVars, flowVars, historyVars>>

-----------------------------------------------------------------------------
(* confirm_run over a checkpoint.                                           *)

\* _restore_execution_ledger: the open reservation is the reviewed call, it is
\* the last thing in the transcript, and the counters are consistent.
LedgerRestorable(k) ==
    /\ k.ledger.pending = 1
    /\ k.ledger.history # <<>> /\ k.ledger.history[Len(k.ledger.history)] = k.call
    /\ k.transcript.open = k.call
    /\ k.ledger.used <= Budget /\ Len(k.ledger.history) = k.ledger.used
    /\ k.ledger.used = k.ledger.succeeded + k.ledger.failed + k.ledger.rejected
                       + k.ledger.skipped + k.ledger.pending

\* _restore_loop_control: the quotas agree with the transcript and the plan.
ControlRestorable(k) ==
    /\ k.control.model \in 1 .. ModelLimit - 1
    /\ k.control.plan = k.transcript.plans
    /\ k.transcript.sorted /\ k.transcript.last = k.control.model
    /\ revision <= k.control.plan

Restorable(k) == LedgerRestorable(k) /\ ControlRestorable(k)

\* The checks come first, then the compare-and-swap that claims the consent.
Confirm ==
    /\ phase = "idle" /\ status = "requires_confirmation"
    /\ Restorable(checkpoint)
    /\ status' = "running"
    /\ confirms' = confirms + 1
    /\ ledger' = checkpoint.ledger
    /\ control' = checkpoint.control
    /\ transcript' = checkpoint.transcript
    /\ queue' = <<checkpoint.call>>
    /\ stop' = FALSE /\ refused' = FALSE /\ resumed' = TRUE
    /\ phase' = "approved"
    /\ UNCHANGED <<receipt, checkpoint, revision, mode, effects, asked, proposed, fallback>>

CheckApproved ==
    /\ phase = "approved"
    /\ phase' = IF Heeded THEN "idle" ELSE "applying"
    /\ UNCHANGED <<rowVars, queue, accountVars, flowVars, historyVars>>

StartApproved ==
    /\ phase = "applying"
    /\ effects' = Append(effects, [call |-> Head(queue), slot |-> ledger.used])
    /\ phase' = "applied"
    /\ UNCHANGED <<rowVars, queue, accountVars, flowVars, asked, proposed, confirms, fallback>>

\* Mutant: the continuation is no longer the loop that was interrupted.
ResumeForgetting ==
    /\ phase \in {"applying", "applied"}
    /\ \E outcome \in Outcomes :
          ledger' = [Resolved(ledger, outcome) EXCEPT !.reason = "in_progress"]
    /\ Persist(ledger')
    /\ transcript' = [transcript EXCEPT !.open = None]
    /\ control' = [control EXCEPT !.plan = 0]
    /\ mode' = [mode EXCEPT !.ahead = ~mode.companion]
    /\ queue' = <<>>
    /\ phase' = "top"
    /\ UNCHANGED <<status, checkpoint, revision, stop, refused, resumed, historyVars>>

\* Mutant: consent covers what follows on every channel.
ResumeTrusting ==
    /\ phase \in {"applying", "applied"}
    /\ \E outcome \in Outcomes :
          ledger' = [Resolved(ledger, outcome) EXCEPT !.reason = "in_progress"]
    /\ Persist(ledger')
    /\ transcript' = [transcript EXCEPT !.open = None]
    /\ mode' = [mode EXCEPT !.ahead = TRUE]
    /\ queue' = <<>>
    /\ phase' = "top"
    /\ UNCHANGED <<status, checkpoint, revision, control, stop, refused, resumed, historyVars>>

\* The approved call's own reservation is resolved and the loop goes on with
\* the counters it was interrupted with.  The consent covers later calls too,
\* except on the companion channel.
Resume ==
    /\ phase \in {"applying", "applied"}
    /\ \E outcome \in Outcomes :
          ledger' = [Resolved(ledger, outcome) EXCEPT !.reason = "in_progress"]
    /\ Persist(ledger')
    /\ transcript' = [transcript EXCEPT !.open = None]
    /\ mode' = [mode EXCEPT !.ahead = ~mode.companion]
    /\ queue' = <<>>
    /\ phase' = "top"
    /\ UNCHANGED <<status, checkpoint, revision, control, stop, refused, resumed, historyVars>>

-----------------------------------------------------------------------------
(* Around the loop.                                                         *)

\* cancel_run at any time, recover_expired while the run is running.
StopRun(st) ==
    /\ \/ st = "cancelled" /\ status \in {"running", "requires_confirmation"}
       \/ st = "interrupted" /\ status = "running"
    /\ status' = st
    /\ UNCHANGED <<receipt, checkpoint, revision, phase, queue, accountVars, flowVars,
                   historyVars>>

\* The process or the claim is lost; RunRuntime interrupts the run afterwards.
LoseThread ==
    /\ phase # "idle"
    /\ Abandon
    /\ UNCHANGED <<rowVars, queue, accountVars, flowVars, historyVars>>

Loop ==
    \/ AskModel \/ (\E batch \in Batches : Answer(batch)) \/ NextBatch
    \/ SkipPlan \/ RefusePlan \/ UpdatePlan
    \/ OmitOverBudget \/ StopRepetition \/ RejectInvalid \/ Reserve
    \/ SaveApproval \/ CheckHandler \/ StartHandler \/ HandlerDone
    \/ HeedStop \/ Leave \/ Finish \/ FallBack \/ FailRun
    \/ CheckApproved \/ StartApproved \/ Resume

Next ==
    \/ Loop \/ ProviderFails \/ Confirm \/ LoseThread
    \/ \E st \in Stopped : StopRun(st)

Spec == Init /\ [][Next]_vars

\* The thread is scheduled and its provider answers or fails; a run whose
\* thread is gone is interrupted in the end (RunRuntime's RunsSettle).
FairSpec ==
    /\ Spec
    /\ WF_vars(Loop)
    /\ WF_vars(phase = "idle" /\ StopRun("interrupted"))

-----------------------------------------------------------------------------
(* Properties.                                                              *)

Ledgers ==
    [used : 0 .. Budget, succeeded : 0 .. Budget, failed : 0 .. Budget, rejected : 0 .. Budget,
     skipped : 0 .. Budget, pending : 0 .. 1, omitted : Nat, history : Seq(External),
     reason : Reasons]
Controls    == [model : 0 .. ModelLimit, plan : 0 .. PlanLimit]
Transcripts == [plans : 0 .. PlanLimit, last : 0 .. ModelLimit, sorted : BOOLEAN, open : Calls \cup {None}]
Checkpoints == [call : Calls, ledger : Ledgers, control : Controls, transcript : Transcripts]

\* Every variable keeps its range, and ToolLoopLedger._validate never raises:
\* the charged attempts are the outcomes plus the one that is open.
TypeOK ==
    /\ status \in Statuses
    /\ receipt \in Ledgers \cup {NoReceipt}
    /\ checkpoint \in Checkpoints
    /\ revision \in Nat
    /\ phase \in Phases
    /\ queue \in Seq(Calls)
    /\ ledger \in Ledgers /\ Len(ledger.history) = ledger.used
    /\ ledger.used = ledger.succeeded + ledger.failed + ledger.rejected + ledger.skipped
                     + ledger.pending
    /\ control \in Controls
    /\ transcript \in Transcripts
    /\ stop \in BOOLEAN /\ refused \in BOOLEAN /\ resumed \in BOOLEAN
    /\ mode \in [dry : BOOLEAN, ahead : BOOLEAN, companion : BOOLEAN, planning : BOOLEAN]
    /\ effects \in Seq([call : Calls, slot : 1 .. Budget])
    /\ asked \in Nat /\ proposed \in Nat /\ confirms \in Nat /\ fallback \in BOOLEAN

\* A run the user is shown as finished without an omission really did all the
\* model ever proposed: no call was dropped, refused, left open or lost with a
\* thread, in this loop or before an approval (AgentExecutionReceipt.incomplete).
HonestReceipt ==
    (receipt # NoReceipt /\ ~PublicIncomplete) =>
        /\ proposed = receipt.succeeded + receipt.skipped
        /\ Len(effects) = receipt.succeeded

\* Whatever way the loop ended by itself, every external call the model asked
\* for is either charged or counted as omitted in the stored receipt.
EveryProposalAccounted ==
    (/\ status \in {"requires_confirmation"} \cup Settled /\ ~fallback
     /\ status = "failed" => receipt.reason \notin {None, "in_progress"}) =>
        receipt # NoReceipt /\ proposed = receipt.used + receipt.omitted

\* What the loop saved for an approval passes the checks confirm_run makes
\* before it claims the consent: a user is never asked for an approval that
\* can only be refused, also after refused plan calls and earlier approvals.
ResumeAccepted ==
    (status = "requires_confirmation" /\ ~fallback) =>
        Restorable(checkpoint)

\* On the companion channel every dangerous handler that ran had an approval of
\* its own; elsewhere consent was given when the run was submitted or once.
DangerousEffects == {i \in DOMAIN effects : effects[i].call \in DangerousCall}
ConsentPerCall ==
    IF mode.companion THEN Cardinality(DangerousEffects) <= confirms
    ELSE DangerousEffects # {} => mode.ahead \/ confirms > 0

\* Approvals grant no new quota of model requests or plan updates
\* (_restore_loop_control).
QuotaSurvivesApproval == asked <= ModelLimit /\ revision <= PlanLimit

\* The receipt of a run is true: it says complete only when nothing the model
\* asked for is missing, and what is missing is counted (AgentExecutionReceipt).
ReceiptTrue == HonestReceipt /\ EveryProposalAccounted

\* An approval gives what was asked for and no more: it can be given, it lets one
\* call through and it grants no new quota (confirm_run, _restore_loop_control).
ApprovalHolds == ResumeAccepted /\ ConsentPerCall /\ QuotaSurvivesApproval

\* Effects are only ever caused under a reservation that the database already
\* shows, each reservation by one handler at most and no more than the budget
\* of the run, through approvals, stops and lost threads.
Reserving == INSTANCE ReservedEffects WITH
    charged <- receipt.used,
    settled <- receipt.used - receipt.pending,
    spent   <- {effects[i].slot : i \in DOMAIN effects}
EffectsReserved == Reserving!Spec

\* A running loop ends or waits for the user, whatever the model answers.
LoopEnds == [](status = "running" => <>(status # "running"))

=============================================================================
