-------------------------- MODULE RunRuntimeProofs --------------------------
(* Theorems about RunRuntime for every number of processes, runs,           *)
(* conversations, turns and tools, with and without stalls and crashes.     *)
EXTENDS RunRuntime, FiniteSetTheorems, TLAPS

-----------------------------------------------------------------------------
(* Typing.                                                                  *)

LEMMA PcNames ==
  /\ "idle" \in Pcs /\ "queued" \in Pcs /\ "claim" \in Pcs /\ "work" \in Pcs
  /\ "tool" \in Pcs /\ "final" \in Pcs /\ "consent" \in Pcs /\ "approved" \in Pcs
  /\ "apply" \in Pcs /\ "refused" \in Pcs /\ "error" \in Pcs /\ "lost" \in Pcs
  /\ "enforce" \in Pcs /\ "close" \in Pcs /\ "done" \in Pcs
BY DEF Pcs

LEMMA StatusNames ==
  /\ "queued" \in Statuses /\ "running" \in Statuses /\ "cancelled" \in Statuses
  /\ "interrupted" \in Statuses /\ "completed" \in Statuses /\ "failed" \in Statuses
  /\ "requires_confirmation" \in Statuses
BY DEF Statuses, Active, Stopped, Outcomes

LEMMA IdleTyped == Idle \in Jobs
BY ConstantsOK DEF ConstantsOK, Idle, Jobs, Pcs, Kinds

LEMMA NoSubmitTyped == NoSubmit \in Submits
BY ConstantsOK DEF ConstantsOK, NoSubmit, Submits, Kinds

\* Moving one thread along keeps the table of threads typed.
LEMMA JobGoto ==
  ASSUME job \in [Server -> [Run -> Jobs]],
         NEW s \in Server, NEW r \in Run, NEW pc \in Pcs, Goto(s, r, pc)
  PROVE  job' \in [Server -> [Run -> Jobs]]
<1>1. job[s] \in [Run -> Jobs] /\ job[s][r] \in Jobs
  OBVIOUS
<1>2. [job[s][r] EXCEPT !.pc = pc] \in Jobs
  BY <1>1 DEF Jobs
<1>3. [job[s] EXCEPT ![r].pc = pc] \in [Run -> Jobs]
  BY <1>1, <1>2
<1>. QED
  BY <1>1, <1>3 DEF Goto

LEMMA CountedUp ==
  ASSUME NEW D, NEW f \in [D -> Nat], NEW x
  PROVE  [f EXCEPT ![x] = @ + 1] \in [D -> Nat]
<1>1. CASE x \in D
  <2>1. f[x] + 1 \in Nat
    BY <1>1
  <2>. QED
    BY <2>1
<1>2. CASE x \notin D
  <2>1. [f EXCEPT ![x] = @ + 1] = f
    BY <1>2
  <2>. QED
    BY <2>1
<1>. QED
  BY <1>1, <1>2

LEMMA RowRenewed ==
  ASSUME worker \in [Run -> WorkerRows], NEW r \in Run
  PROVE  /\ [worker EXCEPT ![r].expired = FALSE] \in [Run -> WorkerRows]
         /\ [worker EXCEPT ![r].expired = TRUE] \in [Run -> WorkerRows]
<1>1. worker[r] \in WorkerRows
  OBVIOUS
<1>2. /\ [worker[r] EXCEPT !.expired = FALSE] \in WorkerRows
      /\ [worker[r] EXCEPT !.expired = TRUE] \in WorkerRows
  BY <1>1 DEF WorkerRows
<1>. QED
  BY <1>2

LEMMA RowClaimed ==
  ASSUME TypeOK, NEW s \in Server, NEW r \in Run, Claim(s, r)
  PROVE  worker' \in [Run -> WorkerRows]
BY DEF TypeOK, Claim, WorkerRows

LEMMA RowRecovered ==
  ASSUME TypeOK, NEW s \in Server, NEW r \in Run, Recover(s, r)
  PROVE  worker' \in [Run -> WorkerRows]
<1>. DEFINE kept == IF IsCli(r) THEN worker[r].holds ELSE FALSE
            row  == [worker[r] EXCEPT !.state = "interrupted", !.expired = FALSE,
                                      !.holds = kept]
<1>1. row \in WorkerRows
  <2>1. worker[r] \in WorkerRows
    BY DEF TypeOK
  <2>2. kept \in BOOLEAN
    BY <2>1 DEF WorkerRows
  <2>. QED
    BY <2>1, <2>2 DEF WorkerRows
<1>2. worker' = [worker EXCEPT ![r] = row]
  BY DEF Recover, TypeOK, WorkerRows
<1>. QED
  BY <1>1, <1>2 DEF TypeOK

LEMMA FailureTyped ==
  ASSUME TypeOK, NEW r \in Run, NEW st \in Statuses, MarkFailed(r, st)
  PROVE  status' \in [Run -> Statuses] /\ shown' \in [Run -> Statuses \cup {"none"}]
BY ZenonT(60) DEF TypeOK, MarkFailed

LEMMA ClaimFinished ==
  ASSUME TypeOK, NEW s \in Server, NEW r \in Run, NEW release \in BOOLEAN,
         FinishClaim(s, r, release)
  PROVE  /\ worker' \in [Run -> WorkerRows]
         /\ status' \in [Run -> Statuses]
         /\ shown' \in [Run -> Statuses \cup {"none"}]
<1>0. worker[r] \in WorkerRows /\ worker[r].holds \in BOOLEAN
  BY DEF TypeOK, WorkerRows
<1>1. CASE Owns(s, r)
  <2>. DEFINE kept == IF release THEN FALSE ELSE worker[r].holds
              row  == [worker[r] EXCEPT !.state = "finished", !.holds = kept]
  <2>1. row \in WorkerRows
    <3>1. kept \in BOOLEAN
      BY <1>0
    <3>. QED
      BY <1>0, <3>1 DEF WorkerRows
  <2>2. worker' = [worker EXCEPT ![r] = row] /\ MarkFailed(r, "failed")
    BY <1>1 DEF FinishClaim, TypeOK, WorkerRows
  <2>. QED
    BY <2>1, <2>2, FailureTyped, StatusNames DEF TypeOK
<1>2. CASE ~Owns(s, r)
  <2>1. [worker[r] EXCEPT !.holds = FALSE] \in WorkerRows
    BY <1>0 DEF WorkerRows
  <2>2. worker' \in {worker, [worker EXCEPT ![r].holds = FALSE]}
    BY <1>2 DEF FinishClaim
  <2>3. worker' \in [Run -> WorkerRows]
    BY <2>1, <2>2 DEF TypeOK
  <2>. QED
    BY <1>2, <2>3 DEF FinishClaim, TypeOK
<1>. QED
  BY <1>1, <1>2

\* A process with a future has fewer permits than its capacity.
LEMMA PermitReturned ==
  ASSUME TypeOK, CapacityBalanced, NEW s \in Server, NEW r \in Run, job[s][r].pc # "idle"
  PROVE  free[s] + 1 \in 0..Capacity
<1>. DEFINE busy == {q \in Run : job[s][q].pc # "idle"}
<1>1. IsFiniteSet(busy)
  BY ConstantsOK, FS_Subset DEF ConstantsOK
<1>2. Cardinality(busy) \in Nat /\ Cardinality(busy) # 0
  BY <1>1, FS_EmptySet, FS_CardinalityType
<1>3. free[s] + Cardinality(busy) = Capacity
  BY DEF CapacityBalanced
<1>. QED
  BY <1>2, <1>3, ConstantsOK DEF TypeOK, ConstantsOK

LEMMA TypeStep ==
  ASSUME TypeOK, CapacityBalanced, [Next]_vars
  PROVE  TypeOK'
<1>. USE ConstantsOK DEF ConstantsOK
<1>1. ASSUME NEW s \in Server, NEW r \in Run, SubmitStart(s, r)
      PROVE  TypeOK'
  <2>3. submit' \in [Server -> Submits]
    BY <1>1 DEF SubmitStart, TypeOK, Submits, Kinds
  <2>. QED
    BY <1>1, <2>3, StatusNames DEF SubmitStart, TypeOK
<1>2. ASSUME NEW s \in Server, NEW r \in Run, SubmitSettled(s, r)
      PROVE  TypeOK'
  BY <1>2, StatusNames DEF SubmitSettled, TypeOK
<1>3. ASSUME NEW s \in Server, NEW r \in Run, NEW t \in 0..MaxTurns, SubmitConfirm(s, r, t)
      PROVE  TypeOK'
  <2>2. granted' \in [Run -> SUBSET Turns]
    <3>1. CASE t = 0
      BY <1>3, <3>1 DEF SubmitConfirm, TypeOK
    <3>2. CASE t # 0
      <4>1. granted[r] \cup {t} \in SUBSET Turns
        BY <3>2 DEF TypeOK, Turns
      <4>. QED
        BY <1>3, <3>2, <4>1 DEF SubmitConfirm, TypeOK
    <3>. QED
      BY <3>1, <3>2
  <2>3. submit' \in [Server -> Submits]
    BY <1>3 DEF SubmitConfirm, TypeOK, Submits, Kinds
  <2>. QED
    BY <1>3, <2>2, <2>3, StatusNames DEF SubmitConfirm, Turns, TypeOK
<1>4. ASSUME NEW s \in Server, SubmitCommit(s)
      PROVE  TypeOK'
  <2>1. submit[s].run \in Run /\ submit[s].kind \in Kinds /\ submit[s].token \in 0..MaxTurns
    BY DEF TypeOK, Submits
  <2>2. worker' \in [Run -> WorkerRows]
    BY <1>4, <2>1, RowClaimed DEF SubmitCommit
  <2>3. submit' \in [Server -> Submits]
    BY <1>4, NoSubmitTyped DEF SubmitCommit, TypeOK
  <2>4. job' \in [Server -> [Run -> Jobs]]
    BY <1>4, <2>1 DEF SubmitCommit, TypeOK, Jobs, Pcs
  <2>. QED
    BY <1>4, <2>1, <2>2, <2>3, <2>4, StatusNames DEF SubmitCommit, TypeOK
<1>5. ASSUME NEW s \in Server, SubmitUnscheduled(s)
      PROVE  TypeOK'
  <2>1. submit[s].run \in Run /\ submit[s].kind \in Kinds /\ submit[s].token \in 0..MaxTurns
    BY DEF TypeOK, Submits
  <2>2. worker' \in [Run -> WorkerRows]
    BY <1>5, <2>1, RowClaimed DEF SubmitUnscheduled
  <2>3. submit' \in [Server -> Submits]
    BY <1>5, NoSubmitTyped DEF SubmitUnscheduled, TypeOK
  <2>5. status' \in [Run -> Statuses] /\ shown' \in [Run -> Statuses \cup {"none"}]
    BY <1>5, <2>1, FailureTyped, StatusNames DEF SubmitUnscheduled, TypeOK
  <2>. QED
    BY <1>5, <2>1, <2>2, <2>3, <2>5, StatusNames DEF SubmitUnscheduled, TypeOK
<1>6. ASSUME NEW s \in Server, SubmitGiveUp(s)
      PROVE  TypeOK'
  <2>3. submit' \in [Server -> Submits]
    BY <1>6, NoSubmitTyped DEF SubmitGiveUp, TypeOK
  <2>. QED
    BY <1>6, <2>3, StatusNames DEF SubmitGiveUp, TypeOK
<1>7. ASSUME NEW s \in Server, NEW r \in Run, JobStart(s, r)
      PROVE  TypeOK'
  <2>1. job' \in [Server -> [Run -> Jobs]]
    BY <1>7, PcNames, JobGoto DEF JobStart, TypeOK
  <2>. QED
    BY <1>7, <2>1, StatusNames DEF JobStart, TypeOK
<1>8. ASSUME NEW s \in Server, NEW r \in Run, StreamClaim(s, r)
      PROVE  TypeOK'
  <2>1. job' \in [Server -> [Run -> Jobs]]
    BY <1>8, PcNames, JobGoto DEF StreamClaim, TypeOK
  <2>2. status' = status \/ status' = [status EXCEPT ![r] = "running"]
    BY <1>8 DEF StreamClaim
  <2>3. child' \subseteq Run
    BY <1>8 DEF StreamClaim, TypeOK
  <2>4. status' \in [Run -> Statuses]
    BY <2>2, StatusNames DEF TypeOK
  <2>. QED
    BY <1>8, <2>1, <2>2, <2>3, <2>4, StatusNames DEF StreamClaim, TypeOK
<1>9. ASSUME NEW s \in Server, NEW r \in Run, ProposeTool(s, r)
      PROVE  TypeOK'
  <2>1. job' \in [Server -> [Run -> Jobs]]
    BY <1>9, PcNames, JobGoto DEF ProposeTool, TypeOK
  <2>2. worker' = worker \/ worker' = [worker EXCEPT ![r].expired = FALSE]
    <3>1. CASE Streams(s, r) /\ ~Owns(s, r)
      BY <1>9, <3>1 DEF ProposeTool
    <3>2. CASE Streams(s, r) /\ Owns(s, r)
      BY <1>9, <3>2 DEF ProposeTool
    <3>3. CASE ~(Streams(s, r))
      BY <1>9, <3>3 DEF ProposeTool
    <3>. QED
      BY <3>1, <3>2, <3>3
  <2>6. worker' \in [Run -> WorkerRows]
    <3>1. worker \in [Run -> WorkerRows]
      BY DEF TypeOK
    <3>. QED
      BY ZenonT(60), <2>2, <3>1, RowRenewed
  <2>. QED
    BY <1>9, <2>1, <2>2, <2>6, StatusNames DEF ProposeTool, TypeOK
<1>10. ASSUME NEW s \in Server, NEW r \in Run, Tool(s, r)
      PROVE  TypeOK'
  <2>1. job' \in [Server -> [Run -> Jobs]]
    BY <1>10, PcNames, JobGoto DEF Tool, TypeOK
  <2>. QED
    BY <1>10, <2>1, StatusNames DEF Tool, TypeOK
<1>11. ASSUME NEW s \in Server, NEW r \in Run, AskApproval(s, r)
      PROVE  TypeOK'
  <2>1. job' \in [Server -> [Run -> Jobs]]
    BY <1>11, PcNames, JobGoto DEF AskApproval, TypeOK
  <2>5. status' \in [Run -> Statuses]
    BY <1>11, StatusNames DEF AskApproval, FinishRun, TypeOK, Outcomes
  <2>. QED
    BY <1>11, <2>1, <2>5, StatusNames DEF AskApproval, MayAsk, TypeOK
<1>12. ASSUME NEW s \in Server, NEW r \in Run, Finish(s, r)
      PROVE  TypeOK'
  <2>1. job' \in [Server -> [Run -> Jobs]]
    BY <1>12, PcNames, JobGoto DEF Finish, TypeOK
  <2>5. status' \in [Run -> Statuses]
    BY <1>12, StatusNames DEF Finish, FinishRun, TypeOK, Outcomes
  <2>. QED
    BY <1>12, <2>1, <2>5, StatusNames DEF Finish, TypeOK
<1>13. ASSUME NEW s \in Server, NEW r \in Run, Raise(s, r)
      PROVE  TypeOK'
  <2>1. job' \in [Server -> [Run -> Jobs]]
    BY <1>13, PcNames, JobGoto DEF Raise, TypeOK
  <2>. QED
    BY <1>13, <2>1, StatusNames DEF Raise, TypeOK
<1>14. ASSUME NEW s \in Server, NEW r \in Run, Conclude(s, r)
      PROVE  TypeOK'
  <2>1. job' \in [Server -> [Run -> Jobs]]
    BY <1>14, PcNames, JobGoto DEF Conclude, TypeOK
  <2>2. worker' = worker \/ worker' = [worker EXCEPT ![r].expired = FALSE]
    <3>1. CASE job[s][r].kind = "stream" /\ ~Owns(s, r)
      BY <1>14, <3>1 DEF Conclude
    <3>2. CASE job[s][r].kind = "stream" /\ Owns(s, r)
      BY <1>14, <3>2 DEF Conclude
    <3>3. CASE ~(job[s][r].kind = "stream")
      BY <1>14, <3>3 DEF Conclude
    <3>. QED
      BY <3>1, <3>2, <3>3
  <2>6. worker' \in [Run -> WorkerRows]
    <3>1. worker \in [Run -> WorkerRows]
      BY DEF TypeOK
    <3>. QED
      BY ZenonT(60), <2>2, <3>1, RowRenewed
  <2>3. shown' \in [Run -> Statuses \cup {"none"}]
    BY ZenonT(60), <1>14 DEF Conclude, TypeOK
  <2>. QED
    BY <1>14, <2>1, <2>2, <2>6, <2>3, StatusNames DEF Conclude, TypeOK
<1>15. ASSUME NEW s \in Server, NEW r \in Run, Consent(s, r)
      PROVE  TypeOK'
  <2>1. job' \in [Server -> [Run -> Jobs]]
    BY <1>15, PcNames, JobGoto DEF Consent, TypeOK
  <2>. QED
    BY <1>15, <2>1, StatusNames DEF Consent, TypeOK
<1>16. ASSUME NEW s \in Server, NEW r \in Run, Refuse(s, r)
      PROVE  TypeOK'
  <2>1. job' \in [Server -> [Run -> Jobs]]
    BY <1>16, PcNames, JobGoto DEF Refuse, TypeOK
  <2>. QED
    BY <1>16, <2>1, StatusNames DEF Refuse, TypeOK
<1>17. ASSUME NEW s \in Server, NEW r \in Run, Refused(s, r)
      PROVE  TypeOK'
  <2>1. job' \in [Server -> [Run -> Jobs]]
    BY <1>17, PcNames, JobGoto DEF Refused, TypeOK
  <2>. QED
    BY <1>17, <2>1, StatusNames DEF Refused, TypeOK
<1>18. ASSUME NEW s \in Server, NEW r \in Run, CheckApproved(s, r)
      PROVE  TypeOK'
  <2>1. job' \in [Server -> [Run -> Jobs]]
    BY <1>18, PcNames, JobGoto DEF CheckApproved, TypeOK
  <2>. QED
    BY <1>18, <2>1, StatusNames DEF CheckApproved, TypeOK
<1>19. ASSUME NEW s \in Server, NEW r \in Run, Apply(s, r)
      PROVE  TypeOK'
  <2>1. job' \in [Server -> [Run -> Jobs]]
    BY <1>19, PcNames, JobGoto DEF Apply, TypeOK
  <2>2. [applied[r] EXCEPT ![turn[r]] = @ + 1] \in [Turns -> Nat]
    <3>1. applied[r] \in [Turns -> Nat]
      BY DEF TypeOK
    <3>. QED
      BY <3>1, CountedUp
  <2>3. applied' \in [Run -> [Turns -> Nat]]
    <3>1. applied \in [Run -> [Turns -> Nat]]
      BY DEF TypeOK
    <3>2. applied' = [applied EXCEPT ![r] = [applied[r] EXCEPT ![turn[r]] = @ + 1]]
      BY <1>19, <3>1 DEF Apply
    <3>. QED
      BY <2>2, <3>1, <3>2
  <2>4. late' \in [Run -> Nat]
    BY <1>19 DEF Apply, TypeOK
  <2>. QED
    BY <1>19, <2>1, <2>2, <2>3, <2>4, StatusNames DEF Apply, Turns, TypeOK
<1>20. ASSUME NEW s \in Server, NEW r \in Run, Fail(s, r)
      PROVE  TypeOK'
  <2>1. job' \in [Server -> [Run -> Jobs]]
    BY <1>20, PcNames, JobGoto DEF Fail, TypeOK
  <2>5. status' \in [Run -> Statuses] /\ shown' \in [Run -> Statuses \cup {"none"}]
    BY <1>20, FailureTyped, StatusNames DEF Fail, TypeOK
  <2>. QED
    BY <1>20, <2>1, <2>5, StatusNames DEF Fail, TypeOK
<1>21. ASSUME NEW s \in Server, NEW r \in Run, EnforceRead(s, r)
      PROVE  TypeOK'
  <2>1. job' \in [Server -> [Run -> Jobs]]
    BY <1>21, PcNames, JobGoto DEF EnforceRead, TypeOK
  <2>. QED
    BY <1>21, <2>1, StatusNames DEF EnforceRead, TypeOK
<1>22. ASSUME NEW s \in Server, NEW r \in Run, EnforceWrite(s, r)
      PROVE  TypeOK'
  <2>1. job' \in [Server -> [Run -> Jobs]]
    BY <1>22, PcNames, JobGoto DEF EnforceWrite, TypeOK
  <2>. QED
    BY <1>22, <2>1, StatusNames DEF EnforceWrite, TypeOK
<1>23. ASSUME NEW s \in Server, NEW r \in Run, Close(s, r)
      PROVE  TypeOK'
  <2>1. job' \in [Server -> [Run -> Jobs]]
    BY <1>23, PcNames, JobGoto DEF Close, TypeOK
  <2>2. worker' \in [Run -> WorkerRows] /\ status' \in [Run -> Statuses]
       /\ shown' \in [Run -> Statuses \cup {"none"}]
    BY <1>23, ClaimFinished DEF Close
  <2>. QED
    BY <1>23, <2>1, <2>2, StatusNames DEF Close, TypeOK
<1>24. ASSUME NEW s \in Server, NEW r \in Run, CloseFails(s, r)
      PROVE  TypeOK'
  <2>1. job' \in [Server -> [Run -> Jobs]]
    BY <1>24, PcNames, JobGoto DEF CloseFails, TypeOK
  <2>2. worker' \in [Run -> WorkerRows] /\ status' \in [Run -> Statuses]
       /\ shown' \in [Run -> Statuses \cup {"none"}]
    BY <1>24, ClaimFinished DEF CloseFails
  <2>. QED
    BY <1>24, <2>1, <2>2, StatusNames DEF CloseFails, TypeOK
<1>25. ASSUME NEW s \in Server, NEW r \in Run, CloseUnrecorded(s, r)
      PROVE  TypeOK'
  <2>1. job' \in [Server -> [Run -> Jobs]]
    BY <1>25, PcNames, JobGoto DEF CloseUnrecorded, TypeOK
  <2>. QED
    BY <1>25, <2>1, StatusNames DEF CloseUnrecorded, TypeOK
<1>26. ASSUME NEW s \in Server, NEW r \in Run, JobDone(s, r)
      PROVE  TypeOK'
  <2>1. job' \in [Server -> [Run -> Jobs]]
    BY <1>26, IdleTyped DEF JobDone, TypeOK
  <2>2. free' \in [Server -> 0..Capacity]
    BY <1>26, PermitReturned DEF JobDone, At, TypeOK
  <2>. QED
    BY <1>26, <2>1, <2>2, StatusNames DEF JobDone, TypeOK
<1>27. ASSUME NEW r \in Run, LeaseAbandoned(r)
      PROVE  TypeOK'
  <2>2. worker' \in [Run -> WorkerRows]
    BY <1>27, RowRenewed DEF LeaseAbandoned, LeaseExpires, TypeOK
  <2>. QED
    BY <1>27, <2>2, StatusNames DEF LeaseAbandoned, LeaseExpires, TypeOK
<1>28. ASSUME NEW r \in Run, LeaseOverrun(r)
      PROVE  TypeOK'
  <2>2. worker' \in [Run -> WorkerRows]
    BY <1>28, RowRenewed DEF LeaseOverrun, LeaseExpires, TypeOK
  <2>. QED
    BY <1>28, <2>2, StatusNames DEF LeaseOverrun, LeaseExpires, TypeOK
<1>29. ASSUME NEW s \in Server, NEW r \in Run, Renew(s, r)
      PROVE  TypeOK'
  <2>2. worker' \in [Run -> WorkerRows]
    BY <1>29, RowRenewed DEF Renew, TypeOK
  <2>. QED
    BY <1>29, <2>2, StatusNames DEF Renew, TypeOK
<1>30. ASSUME NEW s \in Server, NEW r \in Run, Recover(s, r)
      PROVE  TypeOK'
  <2>2. worker' \in [Run -> WorkerRows]
    BY <1>30, RowRecovered DEF Recover
  <2>5. status' \in [Run -> Statuses] /\ shown' \in [Run -> Statuses \cup {"none"}]
    BY <1>30, FailureTyped, StatusNames DEF Recover, TypeOK
  <2>. QED
    BY <1>30, <2>2, <2>5, StatusNames DEF Recover, TypeOK
<1>31. ASSUME NEW s \in Server, Shutdown(s)
      PROVE  TypeOK'
  BY <1>31, StatusNames DEF Shutdown, TypeOK
<1>32. ASSUME NEW s \in Server, NEW r \in Run, DropQueued(s, r)
      PROVE  TypeOK'
  <2>1. job' \in [Server -> [Run -> Jobs]]
    BY <1>32, PcNames, JobGoto DEF DropQueued, TypeOK
  <2>5. status' \in [Run -> Statuses] /\ shown' \in [Run -> Statuses \cup {"none"}]
    BY <1>32, FailureTyped, StatusNames DEF DropQueued, TypeOK
  <2>. QED
    BY <1>32, <2>1, <2>5, StatusNames DEF DropQueued, TypeOK
<1>33. ASSUME NEW s \in Server, Crash(s)
      PROVE  TypeOK'
  <2>1. job' \in [Server -> [Run -> Jobs]]
    BY <1>33, IdleTyped DEF Crash, TypeOK
  <2>3. submit' \in [Server -> Submits]
    BY <1>33, NoSubmitTyped DEF Crash, TypeOK
  <2>. QED
    BY <1>33, <2>1, <2>3, StatusNames DEF Crash, TypeOK
<1>34. ASSUME NEW r \in Run, Cancel(r)
      PROVE  TypeOK'
  BY <1>34, StatusNames DEF Cancel, TypeOK
<1>35. ASSUME NEW r \in Run, RecordCancel(r)
      PROVE  TypeOK'
  BY <1>35, StatusNames DEF RecordCancel, TypeOK
<1>36. CASE UNCHANGED vars
  BY <1>36 DEF vars, TypeOK
<1>. QED
  BY <1>1, <1>2, <1>3, <1>4, <1>5, <1>6, <1>7, <1>8, <1>9, <1>10, <1>11, <1>12,
     <1>13, <1>14, <1>15, <1>16, <1>17, <1>18, <1>19, <1>20, <1>21, <1>22, <1>23, <1>24,
     <1>25, <1>26, <1>27, <1>28, <1>29, <1>30, <1>31, <1>32, <1>33, <1>34, <1>35, <1>36 DEF Next, Execute

-----------------------------------------------------------------------------
(* The capacity semaphore.                                                  *)

Busy(s) == {r \in Run : job[s][r].pc # "idle"}

\* The lock of _submit: nobody starts a thread for the run being submitted.
FreshSubmit == \A s \in Server : submit[s].on => job[s][submit[s].run].pc = "idle"

CapacityInv == CapacityBalanced /\ FreshSubmit

LEMMA GotoPcs ==
  ASSUME TypeOK, NEW s \in Server, NEW r \in Run, NEW pc, Goto(s, r, pc)
  PROVE  \A z \in Server, q \in Run :
            /\ job'[z][q].pc = IF z = s /\ q = r THEN pc ELSE job[z][q].pc
            /\ job'[z][q].token = job[z][q].token
<1>1. job[s] \in [Run -> Jobs] /\ job[s][r] \in Jobs /\ job \in [Server -> [Run -> Jobs]]
  BY DEF TypeOK
<1>2. job' = [job EXCEPT ![s] = [job[s] EXCEPT ![r] = [job[s][r] EXCEPT !.pc = pc]]]
  BY <1>1 DEF Goto
<1>3. /\ [job[s][r] EXCEPT !.pc = pc].pc = pc
      /\ [job[s][r] EXCEPT !.pc = pc].token = job[s][r].token
  BY <1>1 DEF Jobs
<1>. QED
  BY <1>1, <1>2, <1>3

LEMMA ThreadMoves ==
  ASSUME TypeOK, CapacityInv, NEW s \in Server, NEW r \in Run, NEW pc,
         Goto(s, r, pc), pc # "idle", job[s][r].pc # "idle", UNCHANGED <<free, submit>>
  PROVE  CapacityInv'
<1>1. \A z \in Server, q \in Run : job'[z][q].pc = "idle" <=> job[z][q].pc = "idle"
  BY GotoPcs
<1>2. \A z \in Server : Busy(z)' = Busy(z)
  BY <1>1 DEF Busy
<1>3. CapacityBalanced'
  BY <1>2 DEF CapacityInv, CapacityBalanced, Busy
<1>4. \A z \in Server : submit[z].run \in Run
  BY DEF TypeOK, Submits
<1>5. FreshSubmit'
  BY <1>1, <1>4 DEF CapacityInv, FreshSubmit
<1>. QED
  BY <1>3, <1>5 DEF CapacityInv

LEMMA SubmitMoves ==
  ASSUME TypeOK, CapacityInv, NEW s \in Server, NEW new \in Submits,
         submit' = [submit EXCEPT ![s] = new],
         new.on => job[s][new.run].pc = "idle",
         UNCHANGED <<free, job>>
  PROVE  CapacityInv'
<1>1. CapacityBalanced'
  BY DEF CapacityInv, CapacityBalanced
<1>2. FreshSubmit'
  BY DEF CapacityInv, FreshSubmit, TypeOK
<1>. QED
  BY <1>1, <1>2 DEF CapacityInv

\* One more future, one permit fewer, and the other way round.
LEMMA OneMoreBusy ==
  ASSUME CapacityBalanced, NEW s \in Server, NEW r \in Run, TypeOK,
         job[s][r].pc = "idle"
  PROVE  free[s] - 1 + Cardinality(Busy(s) \cup {r}) = Capacity
<1>1. IsFiniteSet(Busy(s)) /\ r \notin Busy(s)
  BY ConstantsOK, FS_Subset DEF ConstantsOK, Busy
<1>2. Cardinality(Busy(s)) \in Nat /\ Cardinality(Busy(s) \cup {r}) = Cardinality(Busy(s)) + 1
  BY <1>1, FS_AddElement, FS_CardinalityType
<1>3. free[s] + Cardinality(Busy(s)) = Capacity /\ free[s] \in Nat
  BY ConstantsOK DEF CapacityBalanced, Busy, TypeOK, ConstantsOK
<1>. QED
  BY <1>2, <1>3

LEMMA OneLessBusy ==
  ASSUME CapacityBalanced, NEW s \in Server, NEW r \in Run, TypeOK,
         job[s][r].pc # "idle"
  PROVE  free[s] + 1 + Cardinality(Busy(s) \ {r}) = Capacity
<1>1. IsFiniteSet(Busy(s)) /\ r \in Busy(s)
  BY ConstantsOK, FS_Subset DEF ConstantsOK, Busy
<1>2. Cardinality(Busy(s)) \in Nat /\ Cardinality(Busy(s) \ {r}) = Cardinality(Busy(s)) - 1
  BY <1>1, FS_RemoveElement, FS_CardinalityType
<1>3. free[s] + Cardinality(Busy(s)) = Capacity /\ free[s] \in Nat
  BY ConstantsOK DEF CapacityBalanced, Busy, TypeOK, ConstantsOK
<1>. QED
  BY <1>2, <1>3

LEMMA CapacityStep ==
  ASSUME TypeOK, CapacityInv, [Next]_vars
  PROVE  CapacityInv'
<1>1. ASSUME NEW s \in Server, NEW r \in Run, SubmitStart(s, r)
      PROVE  CapacityInv'
  <2>. DEFINE new == [on |-> TRUE, run |-> r, kind |-> "stream",
                      token |-> 0, known |-> FALSE]
  <2>1. new \in Submits
    BY ConstantsOK DEF Submits, Kinds, ConstantsOK
  <2>. QED
    BY <1>1, <2>1, SubmitMoves DEF SubmitStart, MaySubmit
<1>2. ASSUME NEW s \in Server, NEW r \in Run, SubmitSettled(s, r)
      PROVE  CapacityInv'
  BY <1>2 DEF SubmitSettled, CapacityInv, CapacityBalanced, FreshSubmit
<1>3. ASSUME NEW s \in Server, NEW r \in Run, NEW t \in 0..MaxTurns, SubmitConfirm(s, r, t)
      PROVE  CapacityInv'
  <2>. DEFINE new == [on |-> TRUE, run |-> r, kind |-> "confirm",
                      token |-> t, known |-> worker[r].state # "none"]
  <2>1. new \in Submits
    BY DEF Submits, Kinds
  <2>. QED
    BY <1>3, <2>1, SubmitMoves DEF SubmitConfirm, MaySubmit
<1>4. ASSUME NEW s \in Server, SubmitCommit(s)
      PROVE  CapacityInv'
  <2>. DEFINE r == submit[s].run
              new == [pc |-> "queued", kind |-> submit[s].kind, token |-> submit[s].token]
  <2>1. r \in Run /\ submit[s].on /\ job[s][r].pc = "idle"
    BY <1>4 DEF SubmitCommit, CapacityInv, FreshSubmit, TypeOK, Submits
  <2>2. /\ job' = [job EXCEPT ![s] = [job[s] EXCEPT ![r] = new]]
        /\ free' = [free EXCEPT ![s] = free[s] - 1]
        /\ submit' = [submit EXCEPT ![s] = NoSubmit]
    BY <1>4 DEF SubmitCommit, TypeOK
  <2>3. Busy(s)' = Busy(s) \cup {r} /\ \A z \in Server \ {s} : Busy(z)' = Busy(z)
    BY <2>1, <2>2 DEF Busy, TypeOK
  <2>4. CapacityBalanced'
    <3>1. free'[s] + Cardinality(Busy(s)') = Capacity
      BY <2>1, <2>2, <2>3, OneMoreBusy DEF CapacityInv, TypeOK
    <3>2. ASSUME NEW z \in Server \ {s}
          PROVE  free'[z] + Cardinality(Busy(z)') = Capacity
      BY <2>2, <2>3 DEF CapacityInv, CapacityBalanced, Busy, TypeOK
    <3>. QED
      BY <3>1, <3>2 DEF CapacityBalanced, Busy
  <2>5. FreshSubmit'
    BY <2>2 DEF CapacityInv, FreshSubmit, TypeOK, NoSubmit
  <2>. QED
    BY <2>4, <2>5 DEF CapacityInv
<1>5. ASSUME NEW s \in Server, SubmitUnscheduled(s)
      PROVE  CapacityInv'
  BY <1>5, NoSubmitTyped, SubmitMoves DEF SubmitUnscheduled, NoSubmit
<1>6. ASSUME NEW s \in Server, SubmitGiveUp(s)
      PROVE  CapacityInv'
  BY <1>6, NoSubmitTyped, SubmitMoves DEF SubmitGiveUp, NoSubmit
<1>7. ASSUME NEW s \in Server, NEW r \in Run, JobStart(s, r)
      PROVE  CapacityInv'
  BY <1>7, ThreadMoves DEF JobStart, At
<1>8. ASSUME NEW s \in Server, NEW r \in Run, StreamClaim(s, r)
      PROVE  CapacityInv'
  BY <1>8, ThreadMoves DEF StreamClaim, At
<1>9. ASSUME NEW s \in Server, NEW r \in Run, ProposeTool(s, r)
      PROVE  CapacityInv'
  BY <1>9, ThreadMoves DEF ProposeTool, At
<1>10. ASSUME NEW s \in Server, NEW r \in Run, Tool(s, r)
      PROVE  CapacityInv'
  BY <1>10, ThreadMoves DEF Tool, At
<1>11. ASSUME NEW s \in Server, NEW r \in Run, AskApproval(s, r)
      PROVE  CapacityInv'
  BY <1>11, ThreadMoves DEF AskApproval, At
<1>12. ASSUME NEW s \in Server, NEW r \in Run, Finish(s, r)
      PROVE  CapacityInv'
  BY <1>12, ThreadMoves DEF Finish, At
<1>13. ASSUME NEW s \in Server, NEW r \in Run, Raise(s, r)
      PROVE  CapacityInv'
  BY <1>13, ThreadMoves DEF Raise, At
<1>14. ASSUME NEW s \in Server, NEW r \in Run, Conclude(s, r)
      PROVE  CapacityInv'
  BY <1>14, ThreadMoves DEF Conclude, At
<1>15. ASSUME NEW s \in Server, NEW r \in Run, Consent(s, r)
      PROVE  CapacityInv'
  BY <1>15, ThreadMoves DEF Consent, At
<1>16. ASSUME NEW s \in Server, NEW r \in Run, Refuse(s, r)
      PROVE  CapacityInv'
  BY <1>16, ThreadMoves DEF Refuse, At
<1>17. ASSUME NEW s \in Server, NEW r \in Run, Refused(s, r)
      PROVE  CapacityInv'
  BY <1>17, ThreadMoves DEF Refused, At
<1>18. ASSUME NEW s \in Server, NEW r \in Run, CheckApproved(s, r)
      PROVE  CapacityInv'
  BY <1>18, ThreadMoves DEF CheckApproved, At
<1>19. ASSUME NEW s \in Server, NEW r \in Run, Apply(s, r)
      PROVE  CapacityInv'
  BY <1>19, ThreadMoves DEF Apply, At
<1>20. ASSUME NEW s \in Server, NEW r \in Run, Fail(s, r)
      PROVE  CapacityInv'
  BY <1>20, ThreadMoves DEF Fail, At
<1>21. ASSUME NEW s \in Server, NEW r \in Run, EnforceRead(s, r)
      PROVE  CapacityInv'
  BY <1>21, ThreadMoves DEF EnforceRead, At
<1>22. ASSUME NEW s \in Server, NEW r \in Run, EnforceWrite(s, r)
      PROVE  CapacityInv'
  BY <1>22, ThreadMoves DEF EnforceWrite, At
<1>23. ASSUME NEW s \in Server, NEW r \in Run, Close(s, r)
      PROVE  CapacityInv'
  BY <1>23, ThreadMoves DEF Close, At
<1>24. ASSUME NEW s \in Server, NEW r \in Run, CloseFails(s, r)
      PROVE  CapacityInv'
  BY <1>24, ThreadMoves DEF CloseFails, At
<1>25. ASSUME NEW s \in Server, NEW r \in Run, CloseUnrecorded(s, r)
      PROVE  CapacityInv'
  BY <1>25, ThreadMoves DEF CloseUnrecorded, At
<1>26. ASSUME NEW s \in Server, NEW r \in Run, JobDone(s, r)
      PROVE  CapacityInv'
  <2>1. /\ job' = [job EXCEPT ![s] = [job[s] EXCEPT ![r] = Idle]]
        /\ free' = [free EXCEPT ![s] = free[s] + 1]
        /\ job[s][r].pc # "idle" /\ ~submit[s].on /\ submit' = submit
    BY <1>26 DEF JobDone, At, TypeOK
  <2>2. Busy(s)' = Busy(s) \ {r} /\ \A z \in Server \ {s} : Busy(z)' = Busy(z)
    BY <2>1 DEF Busy, TypeOK, Idle
  <2>3. CapacityBalanced'
    <3>1. free'[s] + Cardinality(Busy(s)') = Capacity
      BY <2>1, <2>2, OneLessBusy DEF CapacityInv, TypeOK
    <3>2. ASSUME NEW z \in Server \ {s}
          PROVE  free'[z] + Cardinality(Busy(z)') = Capacity
      BY <2>1, <2>2 DEF CapacityInv, CapacityBalanced, Busy, TypeOK
    <3>. QED
      BY <3>1, <3>2 DEF CapacityBalanced, Busy
  <2>4. FreshSubmit'
    BY <2>1 DEF CapacityInv, FreshSubmit, TypeOK
  <2>. QED
    BY <2>3, <2>4 DEF CapacityInv
<1>27. ASSUME NEW r \in Run, LeaseAbandoned(r)
      PROVE  CapacityInv'
  BY <1>27 DEF LeaseAbandoned, LeaseExpires, CapacityInv, CapacityBalanced, FreshSubmit
<1>28. ASSUME NEW r \in Run, LeaseOverrun(r)
      PROVE  CapacityInv'
  BY <1>28 DEF LeaseOverrun, LeaseExpires, CapacityInv, CapacityBalanced, FreshSubmit
<1>29. ASSUME NEW s \in Server, NEW r \in Run, Renew(s, r)
      PROVE  CapacityInv'
  BY <1>29 DEF Renew, CapacityInv, CapacityBalanced, FreshSubmit
<1>30. ASSUME NEW s \in Server, NEW r \in Run, Recover(s, r)
      PROVE  CapacityInv'
  BY <1>30 DEF Recover, CapacityInv, CapacityBalanced, FreshSubmit
<1>31. ASSUME NEW s \in Server, Shutdown(s)
      PROVE  CapacityInv'
  BY <1>31 DEF Shutdown, CapacityInv, CapacityBalanced, FreshSubmit
<1>32. ASSUME NEW s \in Server, NEW r \in Run, DropQueued(s, r)
      PROVE  CapacityInv'
  BY <1>32, ThreadMoves DEF DropQueued, At
<1>33. ASSUME NEW s \in Server, Crash(s)
      PROVE  CapacityInv'
  <2>1. Busy(s)' = {} /\ \A z \in Server \ {s} : Busy(z)' = Busy(z)
    BY <1>33 DEF Crash, Busy, TypeOK, Idle
  <2>2. CapacityBalanced'
    <3>1. free'[s] + Cardinality(Busy(s)') = Capacity
      BY <1>33, <2>1, FS_EmptySet, ConstantsOK DEF Crash, TypeOK, ConstantsOK
    <3>2. ASSUME NEW z \in Server \ {s}
          PROVE  free'[z] + Cardinality(Busy(z)') = Capacity
      BY <1>33, <2>1 DEF Crash, CapacityInv, CapacityBalanced, Busy, TypeOK
    <3>. QED
      BY <3>1, <3>2 DEF CapacityBalanced, Busy
  <2>3. FreshSubmit'
    BY <1>33 DEF Crash, CapacityInv, FreshSubmit, TypeOK, NoSubmit
  <2>. QED
    BY <2>2, <2>3 DEF CapacityInv
<1>34. ASSUME NEW r \in Run, Cancel(r)
      PROVE  CapacityInv'
  BY <1>34 DEF Cancel, CapacityInv, CapacityBalanced, FreshSubmit
<1>35. ASSUME NEW r \in Run, RecordCancel(r)
      PROVE  CapacityInv'
  BY <1>35 DEF RecordCancel, CapacityInv, CapacityBalanced, FreshSubmit
<1>36. CASE UNCHANGED vars
  BY <1>36 DEF vars, CapacityInv, CapacityBalanced, FreshSubmit
<1>. QED
  BY <1>1, <1>2, <1>3, <1>4, <1>5, <1>6, <1>7, <1>8, <1>9, <1>10, <1>11, <1>12,
     <1>13, <1>14, <1>15, <1>16, <1>17, <1>18, <1>19, <1>20, <1>21, <1>22, <1>23, <1>24,
     <1>25, <1>26, <1>27, <1>28, <1>29, <1>30, <1>31, <1>32, <1>33, <1>34, <1>35, <1>36 DEF Next, Execute

\* Nobody has a future yet and every permit is there.
LEMMA InitTyped == Init => TypeOK /\ CapacityInv
<1>. SUFFICES ASSUME Init
              PROVE  TypeOK /\ CapacityInv
  OBVIOUS
<1>1. TypeOK
  BY ConstantsOK, StatusNames, NoSubmitTyped, IdleTyped
     DEF Init, TypeOK, ConstantsOK, NoWorker, WorkerRows
<1>2. \A s \in Server : {r \in Run : job[s][r].pc # "idle"} = {}
  BY DEF Init, Idle
<1>3. CapacityBalanced
  <2>1. Cardinality({}) = 0 /\ Capacity \in Nat
    BY FS_EmptySet, ConstantsOK DEF ConstantsOK
  <2>2. \A s \in Server : free[s] = Capacity
    BY DEF Init
  <2>3. \A s \in Server : Cardinality({r \in Run : job[s][r].pc # "idle"}) = 0
    BY <1>2, <2>1
  <2>. QED
    BY <2>1, <2>2, <2>3 DEF CapacityBalanced
<1>4. FreshSubmit
  BY DEF Init, FreshSubmit, NoSubmit
<1>. QED
  BY <1>1, <1>3, <1>4 DEF CapacityInv

LEMMA Base == Spec => [](TypeOK /\ CapacityInv)
<1>1. TypeOK /\ CapacityInv /\ [Next]_vars => (TypeOK /\ CapacityInv)'
  BY TypeStep, CapacityStep DEF CapacityInv
<1>. QED
  BY InitTyped, <1>1, PTL DEF Spec

\* Every variable keeps its range in every reachable state; in particular the
\* semaphore of _submit and _job_done never leaves 0..Capacity.
THEOREM TypeCorrect == Spec => []TypeOK
BY Base, PTL

\* _submit and _job_done balance: the permits and the futures of a process
\* always add up to its capacity, through crashes and failed submissions.
THEOREM CapacityNeverLeaks == Spec => []CapacityBalanced
<1>1. TypeOK /\ CapacityInv => CapacityBalanced
  BY DEF CapacityInv
<1>. QED
  BY Base, <1>1, PTL


-----------------------------------------------------------------------------
(* A committed stop.                                                        *)

StopKept == \A q \in Run : status[q] \in Stopped => status'[q] = status[q]

LEMMA FailureKeepsStop ==
  ASSUME TypeOK, NEW r \in Run, NEW st, MarkFailed(r, st)
  PROVE  StopKept
BY DEF TypeOK, MarkFailed, StopKept, Stopped, Active

LEMMA FinishKeepsStop ==
  ASSUME TypeOK, NEW s \in Server, NEW r \in Run, NEW release, FinishClaim(s, r, release)
  PROVE  StopKept
<1>1. CASE Owns(s, r)
  BY <1>1, FailureKeepsStop DEF FinishClaim
<1>2. CASE ~Owns(s, r)
  BY <1>2 DEF FinishClaim, StopKept
<1>. QED
  BY <1>1, <1>2

LEMMA ResultKeepsStop ==
  ASSUME TypeOK, NEW r \in Run, NEW st, FinishRun(r, st)
  PROVE  StopKept
BY DEF TypeOK, FinishRun, StopKept

LEMMA StopStep ==
  ASSUME TypeOK, [Next]_vars
  PROVE  StopKept
<1>1. ASSUME NEW s \in Server, NEW r \in Run, SubmitStart(s, r)
      PROVE  StopKept
  BY <1>1 DEF SubmitStart, StopKept
<1>2. ASSUME NEW s \in Server, NEW r \in Run, SubmitSettled(s, r)
      PROVE  StopKept
  BY <1>2 DEF SubmitSettled, StopKept
<1>3. ASSUME NEW s \in Server, NEW r \in Run, NEW t \in 0..MaxTurns, SubmitConfirm(s, r, t)
      PROVE  StopKept
  BY <1>3 DEF SubmitConfirm, StopKept
<1>4. ASSUME NEW s \in Server, SubmitCommit(s)
      PROVE  StopKept
  BY <1>4 DEF SubmitCommit, StopKept
<1>5. ASSUME NEW s \in Server, SubmitUnscheduled(s)
      PROVE  StopKept
  <2>1. submit[s].run \in Run
    BY DEF TypeOK, Submits
  <2>. QED
    BY <1>5, <2>1, FailureKeepsStop DEF SubmitUnscheduled
<1>6. ASSUME NEW s \in Server, SubmitGiveUp(s)
      PROVE  StopKept
  BY <1>6 DEF SubmitGiveUp, StopKept
<1>7. ASSUME NEW s \in Server, NEW r \in Run, JobStart(s, r)
      PROVE  StopKept
  BY <1>7 DEF JobStart, StopKept
<1>8. ASSUME NEW s \in Server, NEW r \in Run, StreamClaim(s, r)
      PROVE  StopKept
  BY <1>8 DEF StreamClaim, StopKept, Stopped, TypeOK
<1>9. ASSUME NEW s \in Server, NEW r \in Run, ProposeTool(s, r)
      PROVE  StopKept
  BY <1>9 DEF ProposeTool, StopKept
<1>10. ASSUME NEW s \in Server, NEW r \in Run, Tool(s, r)
      PROVE  StopKept
  BY <1>10 DEF Tool, StopKept
<1>11. ASSUME NEW s \in Server, NEW r \in Run, AskApproval(s, r)
      PROVE  StopKept
  BY <1>11, ResultKeepsStop DEF AskApproval
<1>12. ASSUME NEW s \in Server, NEW r \in Run, Finish(s, r)
      PROVE  StopKept
  BY <1>12, ResultKeepsStop DEF Finish
<1>13. ASSUME NEW s \in Server, NEW r \in Run, Raise(s, r)
      PROVE  StopKept
  BY <1>13 DEF Raise, StopKept
<1>14. ASSUME NEW s \in Server, NEW r \in Run, Conclude(s, r)
      PROVE  StopKept
  BY <1>14 DEF Conclude, StopKept
<1>15. ASSUME NEW s \in Server, NEW r \in Run, Consent(s, r)
      PROVE  StopKept
  BY <1>15 DEF Consent, StopKept, Stopped, TypeOK
<1>16. ASSUME NEW s \in Server, NEW r \in Run, Refuse(s, r)
      PROVE  StopKept
  BY <1>16 DEF Refuse, StopKept
<1>17. ASSUME NEW s \in Server, NEW r \in Run, Refused(s, r)
      PROVE  StopKept
  BY <1>17 DEF Refused, StopKept
<1>18. ASSUME NEW s \in Server, NEW r \in Run, CheckApproved(s, r)
      PROVE  StopKept
  BY <1>18 DEF CheckApproved, StopKept
<1>19. ASSUME NEW s \in Server, NEW r \in Run, Apply(s, r)
      PROVE  StopKept
  BY <1>19 DEF Apply, StopKept
<1>20. ASSUME NEW s \in Server, NEW r \in Run, Fail(s, r)
      PROVE  StopKept
  BY <1>20, FailureKeepsStop DEF Fail, StopKept
<1>21. ASSUME NEW s \in Server, NEW r \in Run, EnforceRead(s, r)
      PROVE  StopKept
  BY <1>21 DEF EnforceRead, StopKept
<1>22. ASSUME NEW s \in Server, NEW r \in Run, EnforceWrite(s, r)
      PROVE  StopKept
  BY <1>22 DEF EnforceWrite, StopKept, Stopped, TypeOK
<1>23. ASSUME NEW s \in Server, NEW r \in Run, Close(s, r)
      PROVE  StopKept
  BY <1>23, FinishKeepsStop DEF Close
<1>24. ASSUME NEW s \in Server, NEW r \in Run, CloseFails(s, r)
      PROVE  StopKept
  BY <1>24, FinishKeepsStop DEF CloseFails
<1>25. ASSUME NEW s \in Server, NEW r \in Run, CloseUnrecorded(s, r)
      PROVE  StopKept
  BY <1>25 DEF CloseUnrecorded, StopKept
<1>26. ASSUME NEW s \in Server, NEW r \in Run, JobDone(s, r)
      PROVE  StopKept
  BY <1>26 DEF JobDone, StopKept
<1>27. ASSUME NEW r \in Run, LeaseAbandoned(r)
      PROVE  StopKept
  BY <1>27 DEF LeaseAbandoned, LeaseExpires, StopKept
<1>28. ASSUME NEW r \in Run, LeaseOverrun(r)
      PROVE  StopKept
  BY <1>28 DEF LeaseOverrun, LeaseExpires, StopKept
<1>29. ASSUME NEW s \in Server, NEW r \in Run, Renew(s, r)
      PROVE  StopKept
  BY <1>29 DEF Renew, StopKept
<1>30. ASSUME NEW s \in Server, NEW r \in Run, Recover(s, r)
      PROVE  StopKept
  BY <1>30, FailureKeepsStop DEF Recover, StopKept
<1>31. ASSUME NEW s \in Server, Shutdown(s)
      PROVE  StopKept
  BY <1>31 DEF Shutdown, StopKept
<1>32. ASSUME NEW s \in Server, NEW r \in Run, DropQueued(s, r)
      PROVE  StopKept
  BY <1>32, FailureKeepsStop DEF DropQueued, StopKept
<1>33. ASSUME NEW s \in Server, Crash(s)
      PROVE  StopKept
  BY <1>33 DEF Crash, StopKept
<1>34. ASSUME NEW r \in Run, Cancel(r)
      PROVE  StopKept
  BY <1>34 DEF Cancel, StopKept, Stopped, TypeOK
<1>35. ASSUME NEW r \in Run, RecordCancel(r)
      PROVE  StopKept
  BY <1>35 DEF RecordCancel, StopKept
<1>36. CASE UNCHANGED vars
  BY <1>36 DEF vars, StopKept
<1>. QED
  BY <1>1, <1>2, <1>3, <1>4, <1>5, <1>6, <1>7, <1>8, <1>9, <1>10, <1>11, <1>12,
     <1>13, <1>14, <1>15, <1>16, <1>17, <1>18, <1>19, <1>20, <1>21, <1>22, <1>23, <1>24,
     <1>25, <1>26, <1>27, <1>28, <1>29, <1>30, <1>31, <1>32, <1>33, <1>34, <1>35, <1>36 DEF Next, Execute

\* No late result, approval, failure report or recovery changes the status of
\* a run whose cancellation or interruption is committed, in any process and
\* at any time: the fences of _finish_run, _mark_failed, confirm_run and
\* _enforce_interruption together.
THEOREM StopNeverUndone == Spec => StopIsFinal
<1>1. TypeOK /\ [Next]_vars => [\A r \in Run : status[r] \in Stopped => status'[r] = status[r]]_vars
  BY StopStep DEF StopKept
<1>. QED
  BY TypeCorrect, <1>1, PTL DEF Spec, StopIsFinal

-----------------------------------------------------------------------------
(* The slot of a conversation.                                              *)

\* A live claim of a run with a conversation holds the slot.
ClaimsHold ==
    \A r \in Run : worker[r].state = "active" /\ ConversationOf[r] # NoConversation
                   => worker[r].holds

\* The unique index.
OneHolder ==
    \A q, r \in Run : SameConversation(q, r) => ~(worker[q].holds /\ worker[r].holds)

SlotInv == ClaimsHold /\ OneHolder

\* A row may lose its claim or its slot without asking anybody ...
RowsLoosen ==
    \A q \in Run : /\ worker'[q].state = "active" => worker[q].state = "active"
                   /\ worker'[q].holds => worker[q].holds
                   /\ worker'[q].state = "active" => worker'[q].holds = worker[q].holds

LEMMA LooseningKeepsSlots ==
  ASSUME SlotInv, RowsLoosen
  PROVE  SlotInv'
BY DEF SlotInv, RowsLoosen, ClaimsHold, OneHolder, SameConversation

\* ... and gets one only when no other row of the conversation has it.
LEMMA ClaimKeepsSlots ==
  ASSUME TypeOK, SlotInv, NEW s \in Server, NEW r \in Run, ~SlotTaken(r), Claim(s, r)
  PROVE  SlotInv'
<1>1. /\ worker'[r].state = "active" /\ worker'[r].holds = (ConversationOf[r] # NoConversation)
      /\ \A q \in Run \ {r} : worker'[q] = worker[q]
  BY DEF Claim, TypeOK
<1>2. ClaimsHold'
  BY <1>1 DEF SlotInv, ClaimsHold
<1>3. ASSUME NEW p \in Run, NEW q \in Run, SameConversation(p, q)
      PROVE  ~(worker'[p].holds /\ worker'[q].holds)
  BY <1>1, <1>3 DEF SlotInv, OneHolder, SameConversation, SlotTaken
<1>. QED
  BY <1>2, <1>3 DEF SlotInv, OneHolder, SameConversation

\* Moving the expiry of one lease does not touch claims or slots.
LEMMA RenewalLoosens ==
  ASSUME TypeOK, NEW r \in Run, NEW b,
         worker' = worker \/ worker' = [worker EXCEPT ![r].expired = b]
  PROVE  RowsLoosen
<1>1. worker \in [Run -> WorkerRows] /\ worker[r] \in WorkerRows
  BY DEF TypeOK
<1>2. /\ [worker[r] EXCEPT !.expired = b].state = worker[r].state
      /\ [worker[r] EXCEPT !.expired = b].holds = worker[r].holds
  BY <1>1 DEF WorkerRows
<1>3. \A q \in Run : worker'[q].state = worker[q].state /\ worker'[q].holds = worker[q].holds
  BY <1>1, <1>2
<1>. QED
  BY <1>3 DEF RowsLoosen

LEMMA FinishingLoosens ==
  ASSUME TypeOK, NEW s \in Server, NEW r \in Run, NEW release \in BOOLEAN,
         FinishClaim(s, r, release)
  PROVE  RowsLoosen
<1>0. worker \in [Run -> WorkerRows] /\ worker[r] \in WorkerRows /\ worker[r].holds \in BOOLEAN
  BY DEF TypeOK, WorkerRows
<1>1. CASE Owns(s, r)
  <2>. DEFINE kept == IF release THEN FALSE ELSE worker[r].holds
              row  == [worker[r] EXCEPT !.state = "finished", !.holds = kept]
  <2>1. worker' = [worker EXCEPT ![r] = row]
    BY <1>0, <1>1 DEF FinishClaim, WorkerRows
  <2>2. row.state = "finished" /\ (row.holds => worker[r].holds)
    BY <1>0 DEF WorkerRows
  <2>. QED
    BY <1>0, <2>1, <2>2 DEF RowsLoosen
<1>2. CASE ~Owns(s, r)
  <2>1. CASE worker' = worker
    BY <2>1 DEF RowsLoosen
  <2>2. CASE worker' # worker
    <3>1. worker' = [worker EXCEPT ![r].holds = FALSE] /\ worker[r].state = "interrupted"
      BY <1>2, <2>2 DEF FinishClaim
    <3>2. /\ worker'[r].state = "interrupted" /\ ~worker'[r].holds
          /\ \A q \in Run \ {r} : worker'[q] = worker[q]
      BY <1>0, <3>1 DEF WorkerRows
    <3>. QED
      BY <3>2 DEF RowsLoosen
  <2>. QED
    BY <2>1, <2>2
<1>. QED
  BY <1>1, <1>2

LEMMA RecoveryLoosens ==
  ASSUME TypeOK, NEW s \in Server, NEW r \in Run, Recover(s, r)
  PROVE  RowsLoosen
<1>0. worker \in [Run -> WorkerRows] /\ worker[r] \in WorkerRows /\ worker[r].holds \in BOOLEAN
  BY DEF TypeOK, WorkerRows
<1>. DEFINE kept == IF IsCli(r) THEN worker[r].holds ELSE FALSE
            row  == [worker[r] EXCEPT !.state = "interrupted", !.expired = FALSE,
                                      !.holds = kept]
<1>1. worker' = [worker EXCEPT ![r] = row]
  BY <1>0 DEF Recover, WorkerRows
<1>2. row.state = "interrupted" /\ (row.holds => worker[r].holds)
  BY <1>0 DEF WorkerRows
<1>. QED
  BY <1>0, <1>1, <1>2 DEF RowsLoosen

LEMMA SlotStep ==
  ASSUME TypeOK, SlotInv, [Next]_vars
  PROVE  SlotInv'
<1>1. ASSUME NEW s \in Server, NEW r \in Run, SubmitStart(s, r)
      PROVE  SlotInv'
  BY <1>1 DEF SubmitStart, SlotInv, ClaimsHold, OneHolder, SameConversation
<1>2. ASSUME NEW s \in Server, NEW r \in Run, SubmitSettled(s, r)
      PROVE  SlotInv'
  BY <1>2 DEF SubmitSettled, SlotInv, ClaimsHold, OneHolder, SameConversation
<1>3. ASSUME NEW s \in Server, NEW r \in Run, NEW t \in 0..MaxTurns, SubmitConfirm(s, r, t)
      PROVE  SlotInv'
  BY <1>3 DEF SubmitConfirm, SlotInv, ClaimsHold, OneHolder, SameConversation
<1>4. ASSUME NEW s \in Server, SubmitCommit(s)
      PROVE  SlotInv'
  <2>1. submit[s].run \in Run
    BY DEF TypeOK, Submits
  <2>. QED
    BY <1>4, <2>1, ClaimKeepsSlots DEF SubmitCommit
<1>5. ASSUME NEW s \in Server, SubmitUnscheduled(s)
      PROVE  SlotInv'
  <2>1. submit[s].run \in Run
    BY DEF TypeOK, Submits
  <2>. QED
    BY <1>5, <2>1, ClaimKeepsSlots DEF SubmitUnscheduled
<1>6. ASSUME NEW s \in Server, SubmitGiveUp(s)
      PROVE  SlotInv'
  BY <1>6 DEF SubmitGiveUp, SlotInv, ClaimsHold, OneHolder, SameConversation
<1>7. ASSUME NEW s \in Server, NEW r \in Run, JobStart(s, r)
      PROVE  SlotInv'
  BY <1>7 DEF JobStart, SlotInv, ClaimsHold, OneHolder, SameConversation
<1>8. ASSUME NEW s \in Server, NEW r \in Run, StreamClaim(s, r)
      PROVE  SlotInv'
  BY <1>8 DEF StreamClaim, SlotInv, ClaimsHold, OneHolder, SameConversation
<1>9. ASSUME NEW s \in Server, NEW r \in Run, ProposeTool(s, r)
      PROVE  SlotInv'
  <2>1. worker' = worker \/ worker' = [worker EXCEPT ![r].expired = FALSE]
    <3>1. CASE Streams(s, r) /\ ~Owns(s, r)
      BY <1>9, <3>1 DEF ProposeTool
    <3>2. CASE Streams(s, r) /\ Owns(s, r)
      BY <1>9, <3>2 DEF ProposeTool
    <3>3. CASE ~(Streams(s, r))
      BY <1>9, <3>3 DEF ProposeTool
    <3>. QED
      BY <3>1, <3>2, <3>3
  <2>. QED
    BY <2>1, RenewalLoosens, LooseningKeepsSlots
<1>10. ASSUME NEW s \in Server, NEW r \in Run, Tool(s, r)
      PROVE  SlotInv'
  BY <1>10 DEF Tool, SlotInv, ClaimsHold, OneHolder, SameConversation
<1>11. ASSUME NEW s \in Server, NEW r \in Run, AskApproval(s, r)
      PROVE  SlotInv'
  BY <1>11 DEF AskApproval, SlotInv, ClaimsHold, OneHolder, SameConversation
<1>12. ASSUME NEW s \in Server, NEW r \in Run, Finish(s, r)
      PROVE  SlotInv'
  BY <1>12 DEF Finish, SlotInv, ClaimsHold, OneHolder, SameConversation
<1>13. ASSUME NEW s \in Server, NEW r \in Run, Raise(s, r)
      PROVE  SlotInv'
  BY <1>13 DEF Raise, SlotInv, ClaimsHold, OneHolder, SameConversation
<1>14. ASSUME NEW s \in Server, NEW r \in Run, Conclude(s, r)
      PROVE  SlotInv'
  <2>1. worker' = worker \/ worker' = [worker EXCEPT ![r].expired = FALSE]
    <3>1. CASE job[s][r].kind = "stream" /\ ~Owns(s, r)
      BY <1>14, <3>1 DEF Conclude
    <3>2. CASE job[s][r].kind = "stream" /\ Owns(s, r)
      BY <1>14, <3>2 DEF Conclude
    <3>3. CASE ~(job[s][r].kind = "stream")
      BY <1>14, <3>3 DEF Conclude
    <3>. QED
      BY <3>1, <3>2, <3>3
  <2>. QED
    BY <2>1, RenewalLoosens, LooseningKeepsSlots
<1>15. ASSUME NEW s \in Server, NEW r \in Run, Consent(s, r)
      PROVE  SlotInv'
  BY <1>15 DEF Consent, SlotInv, ClaimsHold, OneHolder, SameConversation
<1>16. ASSUME NEW s \in Server, NEW r \in Run, Refuse(s, r)
      PROVE  SlotInv'
  BY <1>16 DEF Refuse, SlotInv, ClaimsHold, OneHolder, SameConversation
<1>17. ASSUME NEW s \in Server, NEW r \in Run, Refused(s, r)
      PROVE  SlotInv'
  BY <1>17 DEF Refused, SlotInv, ClaimsHold, OneHolder, SameConversation
<1>18. ASSUME NEW s \in Server, NEW r \in Run, CheckApproved(s, r)
      PROVE  SlotInv'
  BY <1>18 DEF CheckApproved, SlotInv, ClaimsHold, OneHolder, SameConversation
<1>19. ASSUME NEW s \in Server, NEW r \in Run, Apply(s, r)
      PROVE  SlotInv'
  BY <1>19 DEF Apply, SlotInv, ClaimsHold, OneHolder, SameConversation
<1>20. ASSUME NEW s \in Server, NEW r \in Run, Fail(s, r)
      PROVE  SlotInv'
  BY <1>20 DEF Fail, SlotInv, ClaimsHold, OneHolder, SameConversation
<1>21. ASSUME NEW s \in Server, NEW r \in Run, EnforceRead(s, r)
      PROVE  SlotInv'
  BY <1>21 DEF EnforceRead, SlotInv, ClaimsHold, OneHolder, SameConversation
<1>22. ASSUME NEW s \in Server, NEW r \in Run, EnforceWrite(s, r)
      PROVE  SlotInv'
  BY <1>22 DEF EnforceWrite, SlotInv, ClaimsHold, OneHolder, SameConversation
<1>23. ASSUME NEW s \in Server, NEW r \in Run, Close(s, r)
      PROVE  SlotInv'
  BY <1>23, FinishingLoosens, LooseningKeepsSlots DEF Close
<1>24. ASSUME NEW s \in Server, NEW r \in Run, CloseFails(s, r)
      PROVE  SlotInv'
  BY <1>24, FinishingLoosens, LooseningKeepsSlots DEF CloseFails
<1>25. ASSUME NEW s \in Server, NEW r \in Run, CloseUnrecorded(s, r)
      PROVE  SlotInv'
  BY <1>25 DEF CloseUnrecorded, SlotInv, ClaimsHold, OneHolder, SameConversation
<1>26. ASSUME NEW s \in Server, NEW r \in Run, JobDone(s, r)
      PROVE  SlotInv'
  BY <1>26 DEF JobDone, SlotInv, ClaimsHold, OneHolder, SameConversation
<1>27. ASSUME NEW r \in Run, LeaseAbandoned(r)
      PROVE  SlotInv'
  BY <1>27, RenewalLoosens, LooseningKeepsSlots DEF LeaseAbandoned, LeaseExpires
<1>28. ASSUME NEW r \in Run, LeaseOverrun(r)
      PROVE  SlotInv'
  BY <1>28, RenewalLoosens, LooseningKeepsSlots DEF LeaseOverrun, LeaseExpires
<1>29. ASSUME NEW s \in Server, NEW r \in Run, Renew(s, r)
      PROVE  SlotInv'
  BY <1>29, RenewalLoosens, LooseningKeepsSlots DEF Renew, LeaseExpires
<1>30. ASSUME NEW s \in Server, NEW r \in Run, Recover(s, r)
      PROVE  SlotInv'
  BY <1>30, RecoveryLoosens, LooseningKeepsSlots
<1>31. ASSUME NEW s \in Server, Shutdown(s)
      PROVE  SlotInv'
  BY <1>31 DEF Shutdown, SlotInv, ClaimsHold, OneHolder, SameConversation
<1>32. ASSUME NEW s \in Server, NEW r \in Run, DropQueued(s, r)
      PROVE  SlotInv'
  BY <1>32 DEF DropQueued, SlotInv, ClaimsHold, OneHolder, SameConversation
<1>33. ASSUME NEW s \in Server, Crash(s)
      PROVE  SlotInv'
  BY <1>33 DEF Crash, SlotInv, ClaimsHold, OneHolder, SameConversation
<1>34. ASSUME NEW r \in Run, Cancel(r)
      PROVE  SlotInv'
  BY <1>34 DEF Cancel, SlotInv, ClaimsHold, OneHolder, SameConversation
<1>35. ASSUME NEW r \in Run, RecordCancel(r)
      PROVE  SlotInv'
  BY <1>35 DEF RecordCancel, SlotInv, ClaimsHold, OneHolder, SameConversation
<1>36. CASE UNCHANGED vars
  BY <1>36 DEF vars, SlotInv, ClaimsHold, OneHolder, SameConversation
<1>. QED
  BY <1>1, <1>2, <1>3, <1>4, <1>5, <1>6, <1>7, <1>8, <1>9, <1>10, <1>11, <1>12,
     <1>13, <1>14, <1>15, <1>16, <1>17, <1>18, <1>19, <1>20, <1>21, <1>22, <1>23, <1>24,
     <1>25, <1>26, <1>27, <1>28, <1>29, <1>30, <1>31, <1>32, <1>33, <1>34, <1>35, <1>36 DEF Next, Execute

\* _submit never lets two claims of one conversation be live together, however
\* many processes race for it, across confirmations, crashes and recoveries.
\* The slot key, not the claim, is what the index protects: the invariant adds
\* that every live claim holds its slot.
THEOREM OneClaimPerConversation == Spec => []ConversationExclusive
<1>1. Init => SlotInv
  BY DEF Init, NoWorker, SlotInv, ClaimsHold, OneHolder
<1>2. TypeOK /\ SlotInv /\ [Next]_vars => SlotInv'
  BY SlotStep
<1>3. SlotInv => ConversationExclusive
  BY DEF SlotInv, ClaimsHold, OneHolder, ConversationExclusive, SameConversation
<1>. QED
  BY TypeCorrect, <1>1, <1>2, <1>3, PTL DEF Spec


-----------------------------------------------------------------------------
(* One thread executes a run.                                               *)

\* Statuses in which nobody may be executing the run.
Waiting == {"queued", "requires_confirmation"}

ExecInv ==
    /\ OneExecutor
    /\ \A s \in Server, r \in Run : Executing(s, r) => status[r] \notin Waiting

\* A thread stops executing, or goes on; a run that somebody still executes is
\* not set back to a waiting status.
ExecutionShrinks ==
    /\ \A z \in Server, q \in Run : Executing(z, q)' => Executing(z, q)
    /\ \A q \in Run : \/ status'[q] = status[q]
                      \/ status'[q] \notin Waiting
                      \/ \A z \in Server : ~Executing(z, q)'

LEMMA ShrinkingKeepsExecutor ==
  ASSUME ExecInv, ExecutionShrinks
  PROVE  ExecInv'
BY DEF ExecInv, ExecutionShrinks, OneExecutor

\* The compare-and-swap on a waiting status admits the only executor.
LEMMA SwapAdmitsOne ==
  ASSUME TypeOK, ExecInv, NEW s \in Server, NEW r \in Run, NEW pc, Goto(s, r, pc),
         status[r] \in Waiting, status' = [status EXCEPT ![r] = "running"]
  PROVE  ExecInv'
<1>1. \A z \in Server, q \in Run : q # r => (Executing(z, q)' <=> Executing(z, q))
  BY GotoPcs DEF Executing
<1>2. \A z \in Server : ~Executing(z, r)
  BY DEF ExecInv
<1>3. \A z \in Server : Executing(z, r)' => z = s
  BY <1>2, GotoPcs DEF Executing
<1>4. OneExecutor'
  BY <1>1, <1>3 DEF ExecInv, OneExecutor
<1>5. /\ status'[r] = "running" /\ \A q \in Run : q # r => status'[q] = status[q]
      /\ "running" \notin Waiting
  BY DEF TypeOK, Waiting
<1>. QED
  BY <1>1, <1>4, <1>5 DEF ExecInv

\* What the shared transactions do to the statuses of waiting runs: nothing.
NoNewWaiting == \A q \in Run : status'[q] = status[q] \/ status'[q] \notin Waiting

LEMMA FailureLeavesNoWaiting ==
  ASSUME TypeOK, NEW r \in Run, NEW st \in {"failed", "interrupted"}, MarkFailed(r, st)
  PROVE  NoNewWaiting
BY DEF TypeOK, MarkFailed, NoNewWaiting, Waiting

LEMMA FinishLeavesNoWaiting ==
  ASSUME TypeOK, NEW s \in Server, NEW r \in Run, NEW release, FinishClaim(s, r, release)
  PROVE  NoNewWaiting
<1>1. CASE Owns(s, r)
  BY <1>1, FailureLeavesNoWaiting DEF FinishClaim
<1>2. CASE ~Owns(s, r)
  BY <1>2 DEF FinishClaim, NoNewWaiting
<1>. QED
  BY <1>1, <1>2

\* A thread that goes to a place where it does not execute, or was executing.
LEMMA MoveShrinks ==
  ASSUME TypeOK, NEW s \in Server, NEW r \in Run, NEW pc, Goto(s, r, pc),
         Executing(s, r) \/ pc \notin {"work", "tool", "approved", "apply"},
         NoNewWaiting
  PROVE  ExecutionShrinks
BY GotoPcs DEF Executing, NoNewWaiting, ExecutionShrinks

LEMMA StandstillShrinks ==
  ASSUME UNCHANGED job, NoNewWaiting
  PROVE  ExecutionShrinks
BY DEF Executing, NoNewWaiting, ExecutionShrinks

LEMMA ExecStep ==
  ASSUME TypeOK, ExecInv, [Next]_vars
  PROVE  ExecInv'
<1>. USE ShrinkingKeepsExecutor
<1>1. ASSUME NEW s \in Server, NEW r \in Run, SubmitStart(s, r)
      PROVE  ExecInv'
  BY <1>1, StandstillShrinks DEF SubmitStart, NoNewWaiting
<1>2. ASSUME NEW s \in Server, NEW r \in Run, SubmitSettled(s, r)
      PROVE  ExecInv'
  BY <1>2, StandstillShrinks DEF SubmitSettled, NoNewWaiting
<1>3. ASSUME NEW s \in Server, NEW r \in Run, NEW t \in 0..MaxTurns, SubmitConfirm(s, r, t)
      PROVE  ExecInv'
  BY <1>3, StandstillShrinks DEF SubmitConfirm, NoNewWaiting
<1>4. ASSUME NEW s \in Server, SubmitCommit(s)
      PROVE  ExecInv'
  <2>. DEFINE new == [pc |-> "queued", kind |-> submit[s].kind, token |-> submit[s].token]
  <2>1. submit[s].run \in Run /\ UNCHANGED status
    BY <1>4 DEF SubmitCommit, TypeOK, Submits
  <2>2. job' = [job EXCEPT ![s] = [job[s] EXCEPT ![submit[s].run] = new]]
    BY <1>4 DEF SubmitCommit, TypeOK
  <2>3. \A z \in Server, q \in Run : job'[z][q].pc = "queued" \/ job'[z][q].pc = job[z][q].pc
    BY <2>1, <2>2 DEF TypeOK
  <2>. QED
    BY <2>1, <2>3 DEF ExecutionShrinks, Executing
<1>5. ASSUME NEW s \in Server, SubmitUnscheduled(s)
      PROVE  ExecInv'
  <2>1. submit[s].run \in Run
    BY DEF TypeOK, Submits
  <2>. QED
    BY <1>5, <2>1, FailureLeavesNoWaiting, StandstillShrinks DEF SubmitUnscheduled
<1>6. ASSUME NEW s \in Server, SubmitGiveUp(s)
      PROVE  ExecInv'
  BY <1>6, StandstillShrinks DEF SubmitGiveUp, NoNewWaiting
<1>7. ASSUME NEW s \in Server, NEW r \in Run, JobStart(s, r)
      PROVE  ExecInv'
  <2>1. NoNewWaiting
    BY <1>7 DEF JobStart, NoNewWaiting, Waiting, TypeOK
  <2>. QED
    BY <1>7, <2>1, MoveShrinks DEF JobStart, At, Executing
<1>8. ASSUME NEW s \in Server, NEW r \in Run, StreamClaim(s, r)
      PROVE  ExecInv'
  <2>1. CASE status[r] = "queued"
    BY <1>8, <2>1, SwapAdmitsOne DEF StreamClaim, Waiting
  <2>2. CASE status[r] # "queued"
    BY <1>8, <2>2, MoveShrinks DEF StreamClaim, NoNewWaiting
  <2>. QED
    BY <2>1, <2>2
<1>9. ASSUME NEW s \in Server, NEW r \in Run, ProposeTool(s, r)
      PROVE  ExecInv'
  <2>1. NoNewWaiting /\ Executing(s, r)
    BY <1>9 DEF ProposeTool, At, Executing, NoNewWaiting
  <2>2. \E pc : Goto(s, r, pc)
    BY <1>9 DEF ProposeTool
  <2>. QED
    BY <2>1, <2>2, MoveShrinks
<1>10. ASSUME NEW s \in Server, NEW r \in Run, Tool(s, r)
      PROVE  ExecInv'
  <2>1. NoNewWaiting
    BY <1>10 DEF Tool, NoNewWaiting, Waiting, TypeOK
  <2>. QED
    BY <1>10, <2>1, MoveShrinks DEF Tool, At, Executing
<1>11. ASSUME NEW s \in Server, NEW r \in Run, AskApproval(s, r)
      PROVE  ExecInv'
  <2>1. Executing(s, r) /\ Goto(s, r, "final")
    BY <1>11 DEF AskApproval, At, Executing
  <2>2. /\ \A z \in Server, q \in Run : Executing(z, q)' => Executing(z, q)
        /\ \A z \in Server : ~Executing(z, r)'
    BY <2>1, GotoPcs DEF Executing, ExecInv, OneExecutor
  <2>3. \A q \in Run : q # r => status'[q] = status[q]
    BY <1>11 DEF AskApproval, FinishRun
  <2>. QED
    BY <2>2, <2>3 DEF ExecutionShrinks
<1>12. ASSUME NEW s \in Server, NEW r \in Run, Finish(s, r)
      PROVE  ExecInv'
  <2>1. NoNewWaiting
    BY <1>12 DEF Finish, NoNewWaiting, Waiting, FinishRun, Outcomes, TypeOK
  <2>. QED
    BY <1>12, <2>1, MoveShrinks DEF Finish, At, Executing
<1>13. ASSUME NEW s \in Server, NEW r \in Run, Raise(s, r)
      PROVE  ExecInv'
  <2>1. NoNewWaiting
    BY <1>13 DEF Raise, NoNewWaiting, Waiting, TypeOK
  <2>. QED
    BY <1>13, <2>1, MoveShrinks DEF Raise, At, Executing
<1>14. ASSUME NEW s \in Server, NEW r \in Run, Conclude(s, r)
      PROVE  ExecInv'
  <2>1. NoNewWaiting
    BY <1>14 DEF Conclude, NoNewWaiting, Waiting, TypeOK
  <2>. QED
    BY <1>14, <2>1, MoveShrinks DEF Conclude, At, Executing
<1>15. ASSUME NEW s \in Server, NEW r \in Run, Consent(s, r)
      PROVE  ExecInv'
  BY <1>15, SwapAdmitsOne DEF Consent, Waiting
<1>16. ASSUME NEW s \in Server, NEW r \in Run, Refuse(s, r)
      PROVE  ExecInv'
  <2>1. NoNewWaiting
    BY <1>16 DEF Refuse, NoNewWaiting, Waiting, TypeOK
  <2>. QED
    BY <1>16, <2>1, MoveShrinks DEF Refuse, At, Executing
<1>17. ASSUME NEW s \in Server, NEW r \in Run, Refused(s, r)
      PROVE  ExecInv'
  <2>1. NoNewWaiting
    BY <1>17 DEF Refused, NoNewWaiting, Waiting, TypeOK
  <2>. QED
    BY <1>17, <2>1, MoveShrinks DEF Refused, At, Executing
<1>18. ASSUME NEW s \in Server, NEW r \in Run, CheckApproved(s, r)
      PROVE  ExecInv'
  <2>1. NoNewWaiting
    BY <1>18 DEF CheckApproved, NoNewWaiting, Waiting, TypeOK
  <2>. QED
    BY <1>18, <2>1, MoveShrinks DEF CheckApproved, At, Executing
<1>19. ASSUME NEW s \in Server, NEW r \in Run, Apply(s, r)
      PROVE  ExecInv'
  <2>1. NoNewWaiting
    BY <1>19 DEF Apply, NoNewWaiting, Waiting, TypeOK
  <2>. QED
    BY <1>19, <2>1, MoveShrinks DEF Apply, At, Executing
<1>20. ASSUME NEW s \in Server, NEW r \in Run, Fail(s, r)
      PROVE  ExecInv'
  <2>1. NoNewWaiting
    BY <1>20, FailureLeavesNoWaiting DEF Fail, NoNewWaiting
  <2>. QED
    BY <1>20, <2>1, MoveShrinks DEF Fail
<1>21. ASSUME NEW s \in Server, NEW r \in Run, EnforceRead(s, r)
      PROVE  ExecInv'
  <2>1. NoNewWaiting
    BY <1>21 DEF EnforceRead, NoNewWaiting, Waiting, TypeOK
  <2>. QED
    BY <1>21, <2>1, MoveShrinks DEF EnforceRead, At, Executing
<1>22. ASSUME NEW s \in Server, NEW r \in Run, EnforceWrite(s, r)
      PROVE  ExecInv'
  <2>1. NoNewWaiting
    BY <1>22 DEF EnforceWrite, NoNewWaiting, Waiting, TypeOK
  <2>. QED
    BY <1>22, <2>1, MoveShrinks DEF EnforceWrite, At, Executing
<1>23. ASSUME NEW s \in Server, NEW r \in Run, Close(s, r)
      PROVE  ExecInv'
  BY <1>23, FinishLeavesNoWaiting, MoveShrinks DEF Close
<1>24. ASSUME NEW s \in Server, NEW r \in Run, CloseFails(s, r)
      PROVE  ExecInv'
  BY <1>24, FinishLeavesNoWaiting, MoveShrinks DEF CloseFails
<1>25. ASSUME NEW s \in Server, NEW r \in Run, CloseUnrecorded(s, r)
      PROVE  ExecInv'
  <2>1. NoNewWaiting
    BY <1>25 DEF CloseUnrecorded, NoNewWaiting, Waiting, TypeOK
  <2>. QED
    BY <1>25, <2>1, MoveShrinks DEF CloseUnrecorded, At, Executing
<1>26. ASSUME NEW s \in Server, NEW r \in Run, JobDone(s, r)
      PROVE  ExecInv'
  <2>1. \A z \in Server, q \in Run : job'[z][q].pc = "idle" \/ job'[z][q].pc = job[z][q].pc
    BY <1>26 DEF JobDone, TypeOK, Idle
  <2>. QED
    BY <1>26, <2>1 DEF JobDone, ExecutionShrinks, Executing
<1>27. ASSUME NEW r \in Run, LeaseAbandoned(r)
      PROVE  ExecInv'
  BY <1>27, StandstillShrinks DEF LeaseAbandoned, LeaseExpires, NoNewWaiting
<1>28. ASSUME NEW r \in Run, LeaseOverrun(r)
      PROVE  ExecInv'
  BY <1>28, StandstillShrinks DEF LeaseOverrun, LeaseExpires, NoNewWaiting
<1>29. ASSUME NEW s \in Server, NEW r \in Run, Renew(s, r)
      PROVE  ExecInv'
  BY <1>29, StandstillShrinks DEF Renew, NoNewWaiting
<1>30. ASSUME NEW s \in Server, NEW r \in Run, Recover(s, r)
      PROVE  ExecInv'
  BY <1>30, FailureLeavesNoWaiting, StandstillShrinks DEF Recover
<1>31. ASSUME NEW s \in Server, Shutdown(s)
      PROVE  ExecInv'
  BY <1>31, StandstillShrinks DEF Shutdown, NoNewWaiting
<1>32. ASSUME NEW s \in Server, NEW r \in Run, DropQueued(s, r)
      PROVE  ExecInv'
  <2>1. NoNewWaiting
    BY <1>32, FailureLeavesNoWaiting DEF DropQueued, NoNewWaiting
  <2>. QED
    BY <1>32, <2>1, MoveShrinks DEF DropQueued
<1>33. ASSUME NEW s \in Server, Crash(s)
      PROVE  ExecInv'
  <2>1. \A z \in Server, q \in Run : job'[z][q].pc = "idle" \/ job'[z][q].pc = job[z][q].pc
    BY <1>33 DEF Crash, TypeOK, Idle
  <2>. QED
    BY <1>33, <2>1 DEF Crash, ExecutionShrinks, Executing
<1>34. ASSUME NEW r \in Run, Cancel(r)
      PROVE  ExecInv'
  BY <1>34, StandstillShrinks DEF Cancel, NoNewWaiting, Waiting, TypeOK
<1>35. ASSUME NEW r \in Run, RecordCancel(r)
      PROVE  ExecInv'
  BY <1>35, StandstillShrinks DEF RecordCancel, NoNewWaiting
<1>36. CASE UNCHANGED vars
  BY <1>36, StandstillShrinks DEF vars, NoNewWaiting
<1>. QED
  BY <1>1, <1>2, <1>3, <1>4, <1>5, <1>6, <1>7, <1>8, <1>9, <1>10, <1>11, <1>12,
     <1>13, <1>14, <1>15, <1>16, <1>17, <1>18, <1>19, <1>20, <1>21, <1>22, <1>23, <1>24,
     <1>25, <1>26, <1>27, <1>28, <1>29, <1>30, <1>31, <1>32, <1>33, <1>34, <1>35, <1>36 DEF Next, Execute

LEMMA ExecAlways == Spec => []ExecInv
<1>1. Init => ExecInv
  BY DEF Init, Idle, ExecInv, OneExecutor, Executing
<1>2. TypeOK /\ ExecInv /\ [Next]_vars => ExecInv'
  BY ExecStep
<1>. QED
  BY TypeCorrect, <1>1, <1>2, PTL DEF Spec

\* The two compare-and-swaps (stream_run on "queued", confirm_run on
\* "requires_confirmation") let one thread of all processes execute a run,
\* although leases expire under working owners and runs are submitted again.
THEOREM OneThreadExecutes == Spec => []OneExecutor
<1>1. ExecInv => OneExecutor
  BY DEF ExecInv
<1>. QED
  BY ExecAlways, <1>1, PTL


-----------------------------------------------------------------------------
(* Approvals.                                                               *)

\* The call saved last has not been executed.
Pending(r) == turn[r] \in Turns /\ applied[r][turn[r]] = 0

Approving(s, r) == job[s][r].pc \in {"approved", "apply"}

ApprovalInv ==
    /\ \A r \in Run : \A t \in Turns : t > turn[r] => applied[r][t] = 0
    /\ \A r \in Run : status[r] = "requires_confirmation" => Pending(r)
    /\ \A s \in Server, r \in Run : Approving(s, r) => Pending(r)
    /\ ApprovedOnce

\* A token is an approval the user gave for the turn it names.
ConsentInv ==
    /\ \A s \in Server : submit[s].token # 0 => submit[s].token \in granted[submit[s].run]
    /\ \A s \in Server, r \in Run : job[s][r].token # 0 => job[s][r].token \in granted[r]
    /\ \A s \in Server, r \in Companion : Approving(s, r) => turn[r] \in granted[r]
    /\ ApprovedExactly

NoNewApproval ==
    /\ \A q \in Run : status'[q] = "requires_confirmation" => status[q] = "requires_confirmation"
    /\ \A z \in Server, q \in Run : Approving(z, q)' => Approving(z, q)
    /\ UNCHANGED <<turn, applied>>

TokensKept ==
    /\ UNCHANGED granted
    /\ \A z \in Server, q \in Run : job'[z][q].token \in {0, job[z][q].token}
    /\ \A z \in Server : submit'[z] = submit[z] \/ submit'[z].token = 0

LEMMA NothingNew ==
  ASSUME ApprovalInv, NoNewApproval
  PROVE  ApprovalInv'
BY DEF ApprovalInv, NoNewApproval, ApprovedOnce, Pending, Approving

LEMMA NoNewConsent ==
  ASSUME TypeOK, ConsentInv, NoNewApproval, TokensKept
  PROVE  ConsentInv'
<1>1. \A z \in Server : submit[z].run \in Run
  BY DEF TypeOK, Submits
<1>2. \A s \in Server : submit'[s].token # 0 => submit'[s].token \in granted'[submit'[s].run]
  BY <1>1 DEF ConsentInv, TokensKept
<1>3. \A s \in Server, r \in Run : job'[s][r].token # 0 => job'[s][r].token \in granted'[r]
  BY DEF ConsentInv, TokensKept
<1>4. \A s \in Server, r \in Companion : Approving(s, r)' => turn'[r] \in granted'[r]
  BY ConstantsOK DEF ConsentInv, NoNewApproval, TokensKept, ConstantsOK
<1>5. ApprovedExactly'
  BY DEF ConsentInv, NoNewApproval, TokensKept, ApprovedExactly
<1>. QED
  BY <1>2, <1>3, <1>4, <1>5 DEF ConsentInv

LEMMA NothingNewAtAll ==
  ASSUME TypeOK, ApprovalInv, ConsentInv, NoNewApproval, TokensKept
  PROVE  ApprovalInv' /\ ConsentInv'
BY NothingNew, NoNewConsent

\* What the shared transactions do to the statuses.
NoNewWait == \A q \in Run : status'[q] = "requires_confirmation" => status[q] = "requires_confirmation"

LEMMA FailureAsksNothing ==
  ASSUME TypeOK, NEW r \in Run, NEW st \in {"failed", "interrupted"}, MarkFailed(r, st)
  PROVE  NoNewWait
BY DEF TypeOK, MarkFailed, NoNewWait

LEMMA FinishAsksNothing ==
  ASSUME TypeOK, NEW s \in Server, NEW r \in Run, NEW release, FinishClaim(s, r, release)
  PROVE  NoNewWait
<1>1. CASE Owns(s, r)
  BY <1>1, FailureAsksNothing DEF FinishClaim
<1>2. CASE ~Owns(s, r)
  BY <1>2 DEF FinishClaim, NoNewWait
<1>. QED
  BY <1>1, <1>2

LEMMA MoveIsNothingNew ==
  ASSUME TypeOK, NEW s \in Server, NEW r \in Run, NEW pc, Goto(s, r, pc),
         Approving(s, r) \/ pc \notin {"approved", "apply"},
         NoNewWait, UNCHANGED <<turn, applied, granted, submit>>
  PROVE  NoNewApproval /\ TokensKept
BY GotoPcs DEF Approving, NoNewWait, NoNewApproval, TokensKept

LEMMA StandstillIsNothingNew ==
  ASSUME UNCHANGED <<job, turn, applied, granted>>, NoNewWait,
         \A z \in Server : submit'[z] = submit[z] \/ submit'[z].token = 0
  PROVE  NoNewApproval /\ TokensKept
BY DEF Approving, NoNewWait, NoNewApproval, TokensKept

LEMMA ApprovalStep ==
  ASSUME TypeOK, ExecInv, ApprovalInv, ConsentInv, [Next]_vars
  PROVE  ApprovalInv' /\ ConsentInv'
<1>. USE NothingNewAtAll
<1>1. ASSUME NEW s \in Server, NEW r \in Run, SubmitStart(s, r)
      PROVE  ApprovalInv' /\ ConsentInv'
  BY <1>1, StandstillIsNothingNew DEF SubmitStart, NoNewWait, NoSubmit, TypeOK
<1>2. ASSUME NEW s \in Server, NEW r \in Run, SubmitSettled(s, r)
      PROVE  ApprovalInv' /\ ConsentInv'
  BY <1>2, StandstillIsNothingNew DEF SubmitSettled, NoNewWait, TypeOK
<1>3. ASSUME NEW s \in Server, NEW r \in Run, NEW t \in 0..MaxTurns, SubmitConfirm(s, r, t)
      PROVE  ApprovalInv' /\ ConsentInv'
  <2>1. NoNewApproval
    BY <1>3 DEF SubmitConfirm, NoNewApproval, Approving
  <2>2. /\ granted' = [granted EXCEPT ![r] = IF t = 0 THEN granted[r] ELSE granted[r] \cup {t}]
        /\ UNCHANGED <<job, turn, applied>>
        /\ submit'[s].run = r /\ submit'[s].token = t
        /\ \A z \in Server : z # s => submit'[z] = submit[z]
    BY <1>3 DEF SubmitConfirm, TypeOK
  <2>3. /\ \A q \in Run : granted[q] \subseteq granted'[q]
        /\ t # 0 => t \in granted'[r]
    BY <2>2 DEF TypeOK
  <2>4. ConsentInv'
    <3>1. \A z \in Server : submit[z].run \in Run
      BY DEF TypeOK, Submits
    <3>2. \A z \in Server : submit'[z].token # 0 => submit'[z].token \in granted'[submit'[z].run]
      BY <2>2, <2>3, <3>1 DEF ConsentInv
    <3>3. ApprovedExactly'
      BY <2>2, <2>3, ConstantsOK DEF ConsentInv, ApprovedExactly, ConstantsOK
    <3>. QED
      BY <2>2, <2>3, <3>2, <3>3, ConstantsOK DEF ConsentInv, Approving, ConstantsOK
  <2>. QED
    BY <2>1, <2>4, NothingNew
<1>4. ASSUME NEW s \in Server, SubmitCommit(s)
      PROVE  ApprovalInv' /\ ConsentInv'
  <2>. DEFINE new == [pc |-> "queued", kind |-> submit[s].kind, token |-> submit[s].token]
  <2>1. submit[s].run \in Run /\ UNCHANGED <<status, turn, applied, granted>>
    BY <1>4 DEF SubmitCommit, TypeOK, Submits
  <2>2. /\ job' = [job EXCEPT ![s] = [job[s] EXCEPT ![submit[s].run] = new]]
        /\ submit' = [submit EXCEPT ![s] = NoSubmit]
    BY <1>4 DEF SubmitCommit, TypeOK
  <2>3. \A z \in Server, q \in Run :
           \/ job'[z][q] = job[z][q]
           \/ job'[z][q].pc = "queued" /\ q = submit[s].run /\ job'[z][q].token = submit[s].token
    BY <2>1, <2>2 DEF TypeOK
  <2>4. NoNewApproval
    BY <2>1, <2>3 DEF NoNewApproval, Approving
  <2>5. ConsentInv'
    <3>1. \A z \in Server : submit'[z] = submit[z] \/ submit'[z].token = 0
      BY <2>2 DEF TypeOK, NoSubmit
    <3>2. ApprovedExactly'
      BY <2>1 DEF ConsentInv, ApprovedExactly
    <3>3. \A z \in Server, q \in Companion : Approving(z, q)' => turn'[q] \in granted'[q]
      BY <2>1, <2>4, ConstantsOK DEF ConsentInv, NoNewApproval, ConstantsOK
    <3>4. \A z \in Server, q \in Run : job'[z][q].token # 0 => job'[z][q].token \in granted'[q]
      BY <2>1, <2>3 DEF ConsentInv
    <3>. QED
      BY <2>1, <3>1, <3>2, <3>3, <3>4 DEF ConsentInv
  <2>. QED
    BY <2>4, <2>5, NothingNew
<1>5. ASSUME NEW s \in Server, SubmitUnscheduled(s)
      PROVE  ApprovalInv' /\ ConsentInv'
  <2>1. submit[s].run \in Run
    BY DEF TypeOK, Submits
  <2>2. NoNewWait
    BY <1>5, <2>1, FailureAsksNothing DEF SubmitUnscheduled
  <2>. QED
    BY <1>5, <2>2, StandstillIsNothingNew DEF SubmitUnscheduled, NoSubmit, TypeOK
<1>6. ASSUME NEW s \in Server, SubmitGiveUp(s)
      PROVE  ApprovalInv' /\ ConsentInv'
  BY <1>6, StandstillIsNothingNew DEF SubmitGiveUp, NoNewWait, NoSubmit, TypeOK
<1>7. ASSUME NEW s \in Server, NEW r \in Run, JobStart(s, r)
      PROVE  ApprovalInv' /\ ConsentInv'
  <2>1. NoNewWait
    BY <1>7 DEF JobStart, NoNewWait, TypeOK
  <2>. QED
    BY <1>7, <2>1, MoveIsNothingNew DEF JobStart, At, Approving
<1>8. ASSUME NEW s \in Server, NEW r \in Run, StreamClaim(s, r)
      PROVE  ApprovalInv' /\ ConsentInv'
  <2>1. NoNewWait /\ UNCHANGED <<turn, applied, granted, submit>>
    BY <1>8 DEF StreamClaim, NoNewWait, TypeOK
  <2>2. Goto(s, r, "work") \/ Goto(s, r, "final")
    BY <1>8 DEF StreamClaim
  <2>. QED
    BY <2>1, <2>2, MoveIsNothingNew
<1>9. ASSUME NEW s \in Server, NEW r \in Run, ProposeTool(s, r)
      PROVE  ApprovalInv' /\ ConsentInv'
  <2>1. NoNewWait /\ UNCHANGED <<turn, applied, granted, submit>>
    BY <1>9 DEF ProposeTool, NoNewWait
  <2>2. \E pc : Goto(s, r, pc) /\ pc \notin {"approved", "apply"}
    BY <1>9 DEF ProposeTool
  <2>. QED
    BY <2>1, <2>2, MoveIsNothingNew
<1>10. ASSUME NEW s \in Server, NEW r \in Run, Tool(s, r)
      PROVE  ApprovalInv' /\ ConsentInv'
  <2>1. NoNewWait
    BY <1>10 DEF Tool, NoNewWait, TypeOK
  <2>. QED
    BY <1>10, <2>1, MoveIsNothingNew DEF Tool, At, Approving
<1>11. ASSUME NEW s \in Server, NEW r \in Run, AskApproval(s, r)
      PROVE  ApprovalInv' /\ ConsentInv'
  <2>1. CASE status[r] \in Stopped
    <3>1. NoNewWait
      BY <1>11, <2>1 DEF AskApproval, FinishRun, NoNewWait
    <3>. QED
      BY <1>11, <2>1, <3>1, MoveIsNothingNew DEF AskApproval
  <2>2. CASE status[r] \notin Stopped
    <3>1. /\ turn[r] \in 0..MaxTurns /\ turn[r] < MaxTurns /\ MaxTurns \in Nat
          /\ turn' = [turn EXCEPT ![r] = turn[r] + 1]
          /\ status' = [status EXCEPT ![r] = "requires_confirmation"]
          /\ UNCHANGED <<applied, granted, submit>>
          /\ job[s][r].pc = "tool" /\ Goto(s, r, "final")
      BY <1>11, <2>2, ConstantsOK DEF AskApproval, At, MayAsk, FinishRun, TypeOK, ConstantsOK
    <3>2. /\ turn'[r] = turn[r] + 1 /\ turn'[r] \in Turns /\ turn'[r] > turn[r]
          /\ \A q \in Run : q # r => turn'[q] = turn[q] /\ status'[q] = status[q]
      <4>1. turn'[r] = turn[r] + 1
        BY <3>1 DEF TypeOK
      <4>2. turn[r] + 1 \in Turns /\ turn[r] + 1 > turn[r]
        BY <3>1 DEF Turns
      <4>3. \A q \in Run : q # r => turn'[q] = turn[q] /\ status'[q] = status[q]
        BY <3>1 DEF TypeOK
      <4>. QED
        BY <4>1, <4>2, <4>3
    <3>3. Pending(r)'
      BY <3>1, <3>2 DEF Pending, ApprovalInv
    <3>4. \A z \in Server : ~Approving(z, r)'
      BY <3>1, GotoPcs DEF Approving, ExecInv, OneExecutor, Executing
    <3>5. \A z \in Server, q \in Run : /\ Approving(z, q)' => Approving(z, q) /\ q # r
                                       /\ job'[z][q].token = job[z][q].token
      BY <3>1, <3>4, GotoPcs DEF Approving
    <3>6. ApprovalInv'
      <4>1. \A q \in Run : \A t \in Turns : t > turn'[q] => applied'[q][t] = 0
        BY <3>1, <3>2 DEF ApprovalInv, Turns, TypeOK
      <4>2. \A q \in Run : status'[q] = "requires_confirmation" => Pending(q)'
        BY <3>1, <3>2, <3>3 DEF ApprovalInv, Pending
      <4>3. \A z \in Server, q \in Run : Approving(z, q)' => Pending(q)'
        BY <3>1, <3>2, <3>5 DEF ApprovalInv, Pending
      <4>. QED
        BY <3>1, <4>1, <4>2, <4>3 DEF ApprovalInv, ApprovedOnce
    <3>7. ConsentInv'
      BY <3>1, <3>2, <3>5, ConstantsOK DEF ConsentInv, ApprovedExactly, ConstantsOK
    <3>. QED
      BY <3>6, <3>7
  <2>. QED
    BY <2>1, <2>2
<1>12. ASSUME NEW s \in Server, NEW r \in Run, Finish(s, r)
      PROVE  ApprovalInv' /\ ConsentInv'
  <2>1. NoNewWait
    BY <1>12 DEF Finish, NoNewWait, FinishRun, Outcomes, TypeOK
  <2>. QED
    BY <1>12, <2>1, MoveIsNothingNew DEF Finish, At, Approving
<1>13. ASSUME NEW s \in Server, NEW r \in Run, Raise(s, r)
      PROVE  ApprovalInv' /\ ConsentInv'
  <2>1. NoNewWait
    BY <1>13 DEF Raise, NoNewWait, TypeOK
  <2>. QED
    BY <1>13, <2>1, MoveIsNothingNew DEF Raise, At, Approving
<1>14. ASSUME NEW s \in Server, NEW r \in Run, Conclude(s, r)
      PROVE  ApprovalInv' /\ ConsentInv'
  <2>1. NoNewWait
    BY <1>14 DEF Conclude, NoNewWait, TypeOK
  <2>. QED
    BY <1>14, <2>1, MoveIsNothingNew DEF Conclude, At, Approving
<1>15. ASSUME NEW s \in Server, NEW r \in Run, Consent(s, r)
      PROVE  ApprovalInv' /\ ConsentInv'
  <2>1. /\ Pending(r) /\ Goto(s, r, "approved") /\ UNCHANGED <<turn, applied, granted, submit>>
        /\ status' = [status EXCEPT ![r] = "running"]
        /\ job[s][r].token \in {turn[r]} \cup (IF r \in Companion THEN {} ELSE {0})
    BY <1>15 DEF Consent, ApprovalInv
  <2>2. r \in Companion => turn[r] \in granted[r]
    <3>1. turn[r] # 0
      BY <2>1, ConstantsOK DEF Pending, Turns, TypeOK, ConstantsOK
    <3>. QED
      BY <2>1, <3>1 DEF ConsentInv
  <2>3. \A z \in Server, q \in Run : /\ Approving(z, q)' => Approving(z, q) \/ q = r
                                     /\ job'[z][q].token = job[z][q].token
    BY <2>1, GotoPcs DEF Approving
  <2>4. \A q \in Run : status'[q] = "requires_confirmation" => status[q] = "requires_confirmation"
    BY <2>1 DEF TypeOK
  <2>5. ApprovalInv'
    BY <2>1, <2>3, <2>4 DEF ApprovalInv, ApprovedOnce, Pending
  <2>6. ConsentInv'
    BY <2>1, <2>2, <2>3, ConstantsOK DEF ConsentInv, ApprovedExactly, ConstantsOK
  <2>. QED
    BY <2>5, <2>6
<1>16. ASSUME NEW s \in Server, NEW r \in Run, Refuse(s, r)
      PROVE  ApprovalInv' /\ ConsentInv'
  <2>1. NoNewWait
    BY <1>16 DEF Refuse, NoNewWait, TypeOK
  <2>. QED
    BY <1>16, <2>1, MoveIsNothingNew DEF Refuse, At, Approving
<1>17. ASSUME NEW s \in Server, NEW r \in Run, Refused(s, r)
      PROVE  ApprovalInv' /\ ConsentInv'
  <2>1. NoNewWait
    BY <1>17 DEF Refused, NoNewWait, TypeOK
  <2>. QED
    BY <1>17, <2>1, MoveIsNothingNew DEF Refused, At, Approving
<1>18. ASSUME NEW s \in Server, NEW r \in Run, CheckApproved(s, r)
      PROVE  ApprovalInv' /\ ConsentInv'
  <2>1. NoNewWait
    BY <1>18 DEF CheckApproved, NoNewWait, TypeOK
  <2>. QED
    BY <1>18, <2>1, MoveIsNothingNew DEF CheckApproved, At, Approving
<1>19. ASSUME NEW s \in Server, NEW r \in Run, Apply(s, r)
      PROVE  ApprovalInv' /\ ConsentInv'
  <2>1. /\ Pending(r) /\ Goto(s, r, "work") /\ UNCHANGED <<status, turn, granted, submit>>
        /\ job[s][r].pc = "apply"
        /\ applied' = [applied EXCEPT ![r] = [applied[r] EXCEPT ![turn[r]] = applied[r][turn[r]] + 1]]
    BY <1>19 DEF Apply, At, ApprovalInv, Approving, TypeOK
  <2>2. /\ applied'[r][turn[r]] = 1
        /\ \A q \in Run, t \in Turns : q # r \/ t # turn[r] => applied'[q][t] = applied[q][t]
    BY <2>1 DEF Pending, TypeOK
  <2>3. \A z \in Server, q \in Run : /\ Approving(z, q)' => Approving(z, q) /\ q # r
                                     /\ job'[z][q].token = job[z][q].token
    BY <2>1, GotoPcs DEF Approving, ExecInv, OneExecutor, Executing
  <2>4. status[r] # "requires_confirmation"
    BY <2>1 DEF ExecInv, Executing, Waiting
  <2>5. ApprovalInv'
    <3>1. \A q \in Run : \A t \in Turns : t > turn'[q] => applied'[q][t] = 0
      BY <2>1, <2>2 DEF ApprovalInv, TypeOK, Turns
    <3>2. \A q \in Run : q # r /\ Pending(q) => Pending(q)'
      BY <2>1, <2>2 DEF Pending
    <3>3. \A q \in Run : \A t \in Turns : applied'[q][t] <= 1
      BY <2>2 DEF ApprovalInv, ApprovedOnce
    <3>. QED
      BY <2>1, <2>3, <2>4, <3>1, <3>2, <3>3 DEF ApprovalInv, ApprovedOnce
  <2>6. ConsentInv'
    <3>1. r \in Companion => turn[r] \in granted[r]
      BY <2>1 DEF ConsentInv, Approving
    <3>2. ApprovedExactly'
      BY <2>1, <2>2, <3>1, ConstantsOK DEF ConsentInv, ApprovedExactly, ConstantsOK
    <3>. QED
      BY <2>1, <2>3, <3>2, ConstantsOK DEF ConsentInv, ConstantsOK
  <2>. QED
    BY <2>5, <2>6
<1>20. ASSUME NEW s \in Server, NEW r \in Run, Fail(s, r)
      PROVE  ApprovalInv' /\ ConsentInv'
  <2>1. NoNewWait
    BY <1>20, FailureAsksNothing DEF Fail, NoNewWait
  <2>. QED
    BY <1>20, <2>1, MoveIsNothingNew DEF Fail
<1>21. ASSUME NEW s \in Server, NEW r \in Run, EnforceRead(s, r)
      PROVE  ApprovalInv' /\ ConsentInv'
  <2>1. NoNewWait
    BY <1>21 DEF EnforceRead, NoNewWait, TypeOK
  <2>. QED
    BY <1>21, <2>1, MoveIsNothingNew DEF EnforceRead, At, Approving
<1>22. ASSUME NEW s \in Server, NEW r \in Run, EnforceWrite(s, r)
      PROVE  ApprovalInv' /\ ConsentInv'
  <2>1. NoNewWait
    BY <1>22 DEF EnforceWrite, NoNewWait, TypeOK
  <2>. QED
    BY <1>22, <2>1, MoveIsNothingNew DEF EnforceWrite, At, Approving
<1>23. ASSUME NEW s \in Server, NEW r \in Run, Close(s, r)
      PROVE  ApprovalInv' /\ ConsentInv'
  BY <1>23, FinishAsksNothing, MoveIsNothingNew DEF Close
<1>24. ASSUME NEW s \in Server, NEW r \in Run, CloseFails(s, r)
      PROVE  ApprovalInv' /\ ConsentInv'
  BY <1>24, FinishAsksNothing, MoveIsNothingNew DEF CloseFails
<1>25. ASSUME NEW s \in Server, NEW r \in Run, CloseUnrecorded(s, r)
      PROVE  ApprovalInv' /\ ConsentInv'
  <2>1. NoNewWait
    BY <1>25 DEF CloseUnrecorded, NoNewWait, TypeOK
  <2>. QED
    BY <1>25, <2>1, MoveIsNothingNew DEF CloseUnrecorded, At, Approving
<1>26. ASSUME NEW s \in Server, NEW r \in Run, JobDone(s, r)
      PROVE  ApprovalInv' /\ ConsentInv'
  <2>1. \A z \in Server, q \in Run : job'[z][q] = Idle \/ job'[z][q] = job[z][q]
    BY <1>26 DEF JobDone, TypeOK
  <2>2. \A z \in Server : submit'[z] = submit[z] \/ submit'[z].token = 0
    BY <1>26 DEF JobDone, TypeOK, NoSubmit
  <2>3. NoNewApproval
    BY <1>26, <2>1 DEF JobDone, NoNewApproval, Approving, Idle
  <2>4. TokensKept
    BY <1>26, <2>1, <2>2 DEF JobDone, TokensKept, Idle
  <2>. QED
    BY <2>3, <2>4
<1>27. ASSUME NEW r \in Run, LeaseAbandoned(r)
      PROVE  ApprovalInv' /\ ConsentInv'
  BY <1>27, StandstillIsNothingNew DEF LeaseAbandoned, LeaseExpires, NoNewWait, TypeOK
<1>28. ASSUME NEW r \in Run, LeaseOverrun(r)
      PROVE  ApprovalInv' /\ ConsentInv'
  BY <1>28, StandstillIsNothingNew DEF LeaseOverrun, LeaseExpires, NoNewWait, TypeOK
<1>29. ASSUME NEW s \in Server, NEW r \in Run, Renew(s, r)
      PROVE  ApprovalInv' /\ ConsentInv'
  BY <1>29, StandstillIsNothingNew DEF Renew, NoNewWait, TypeOK
<1>30. ASSUME NEW s \in Server, NEW r \in Run, Recover(s, r)
      PROVE  ApprovalInv' /\ ConsentInv'
  BY <1>30, FailureAsksNothing, StandstillIsNothingNew DEF Recover
<1>31. ASSUME NEW s \in Server, Shutdown(s)
      PROVE  ApprovalInv' /\ ConsentInv'
  BY <1>31, StandstillIsNothingNew DEF Shutdown, NoNewWait, TypeOK
<1>32. ASSUME NEW s \in Server, NEW r \in Run, DropQueued(s, r)
      PROVE  ApprovalInv' /\ ConsentInv'
  <2>1. NoNewWait
    BY <1>32, FailureAsksNothing DEF DropQueued, NoNewWait
  <2>. QED
    BY <1>32, <2>1, MoveIsNothingNew DEF DropQueued
<1>33. ASSUME NEW s \in Server, Crash(s)
      PROVE  ApprovalInv' /\ ConsentInv'
  <2>1. \A z \in Server, q \in Run : job'[z][q] = Idle \/ job'[z][q] = job[z][q]
    BY <1>33 DEF Crash, TypeOK
  <2>2. \A z \in Server : submit'[z] = submit[z] \/ submit'[z].token = 0
    BY <1>33 DEF Crash, TypeOK, NoSubmit
  <2>3. NoNewApproval
    BY <1>33, <2>1 DEF Crash, NoNewApproval, Approving, Idle
  <2>4. TokensKept
    BY <1>33, <2>1, <2>2 DEF Crash, TokensKept, Idle
  <2>. QED
    BY <2>3, <2>4
<1>34. ASSUME NEW r \in Run, Cancel(r)
      PROVE  ApprovalInv' /\ ConsentInv'
  BY <1>34, StandstillIsNothingNew DEF Cancel, NoNewWait, TypeOK
<1>35. ASSUME NEW r \in Run, RecordCancel(r)
      PROVE  ApprovalInv' /\ ConsentInv'
  BY <1>35, StandstillIsNothingNew DEF RecordCancel, NoNewWait, TypeOK
<1>36. CASE UNCHANGED vars
  BY <1>36, StandstillIsNothingNew DEF vars, NoNewWait
<1>. QED
  BY <1>1, <1>2, <1>3, <1>4, <1>5, <1>6, <1>7, <1>8, <1>9, <1>10, <1>11, <1>12,
     <1>13, <1>14, <1>15, <1>16, <1>17, <1>18, <1>19, <1>20, <1>21, <1>22, <1>23, <1>24,
     <1>25, <1>26, <1>27, <1>28, <1>29, <1>30, <1>31, <1>32, <1>33, <1>34, <1>35, <1>36 DEF Next, Execute

LEMMA ApprovalAlways == Spec => [](ApprovalInv /\ ConsentInv)
<1>1. Init => ApprovalInv /\ ConsentInv
  BY ConstantsOK DEF Init, Idle, NoSubmit, ApprovalInv, ConsentInv, ApprovedOnce,
                     ApprovedExactly, Approving, Turns, ConstantsOK
<1>2. TypeOK /\ ExecInv /\ (ApprovalInv /\ ConsentInv) /\ [Next]_vars
      => (ApprovalInv /\ ConsentInv)'
  BY ApprovalStep
<1>. QED
  BY TypeCorrect, ExecAlways, <1>1, <1>2, PTL DEF Spec

\* An approved call runs at most once: two tabs that confirm it, a retry of the
\* confirmation on another process, a crash or a recovery in between never make
\* confirm_run execute it again.
THEOREM ApprovedCallRunsOnce == Spec => []ApprovedOnce
<1>1. ApprovalInv /\ ConsentInv => ApprovedOnce
  BY DEF ApprovalInv
<1>. QED
  BY ApprovalAlways, <1>1, PTL

\* On the companion channel a dangerous call runs only if the user's token named
\* that very turn: an approval that arrives late, or twice, authorises nothing
\* the run proposed afterwards.
THEOREM ApprovalNamesTheCall == Spec => []ApprovedExactly
<1>1. ApprovalInv /\ ConsentInv => ApprovedExactly
  BY DEF ConsentInv
<1>. QED
  BY ApprovalAlways, <1>1, PTL

-----------------------------------------------------------------------------
(* The tool a stop comes too late for.                                      *)

\* Runs whose loop looks for every stop before it starts a tool.
Fenced == {r \in Run : ModeOf[r] \in {"agent_auto", "sync"}}

\* A thread that has decided to start a tool or the approved call.
Starting(s, r) == job[s][r].pc \in {"tool", "apply"}

LateInv ==
    \A r \in Fenced :
        /\ status[r] \notin Stopped => late[r] = 0
        /\ late[r] <= 1
        /\ late[r] = 1 => \A s \in Server : ~Starting(s, r)

NoNewStart ==
    /\ UNCHANGED late
    /\ \A z \in Server, q \in Run : Starting(z, q)' => Starting(z, q)

LEMMA NoNewStartKeepsBound ==
  ASSUME LateInv, StopKept, NoNewStart
  PROVE  LateInv'
BY DEF LateInv, StopKept, NoNewStart, Fenced

LEMMA MoveStartsNothing ==
  ASSUME TypeOK, NEW s \in Server, NEW r \in Run, NEW pc, Goto(s, r, pc),
         pc \notin {"tool", "apply"}, UNCHANGED late
  PROVE  NoNewStart
BY GotoPcs DEF NoNewStart, Starting

\* The check before a start: nothing was started late so far.
LEMMA CheckedStart ==
  ASSUME TypeOK, LateInv, NEW s \in Server, NEW r \in Run, NEW pc, Goto(s, r, pc),
         r \in Fenced => status[r] \notin Stopped, UNCHANGED <<status, late>>
  PROVE  LateInv'
<1>1. \A z \in Server, q \in Run : q # r => (Starting(z, q)' <=> Starting(z, q))
  BY GotoPcs DEF Starting
<1>2. r \in Fenced => late[r] = 0
  BY DEF LateInv
<1>. QED
  BY <1>1, <1>2 DEF LateInv, Fenced

\* The start itself: the only executor leaves the place from which it starts.
LEMMA StartCounts ==
  ASSUME TypeOK, ExecInv, LateInv, NEW s \in Server, NEW r \in Run, Starting(s, r),
         Goto(s, r, "work"), UNCHANGED status,
         late' = [late EXCEPT ![r] = IF status[r] \in Stopped THEN @ + 1 ELSE @]
  PROVE  LateInv'
<1>1. \A z \in Server, q \in Run : Starting(z, q)' => Starting(z, q) /\ q # r
  BY GotoPcs DEF Starting, ExecInv, OneExecutor, Executing
<1>2. \A q \in Run : q # r => late'[q] = late[q]
  BY DEF TypeOK
<1>3. late'[r] = IF status[r] \in Stopped THEN late[r] + 1 ELSE late[r]
  BY DEF TypeOK
<1>4. r \in Fenced => late[r] = 0
  <2>1. late[r] \in Nat
    BY DEF TypeOK
  <2>2. r \in Fenced => late[r] <= 1 /\ late[r] # 1
    BY DEF LateInv
  <2>. QED
    BY <2>1, <2>2
<1>5. \/ late'[r] \in {0, 1} /\ (status'[r] \notin Stopped => late'[r] = 0)
      \/ r \notin Fenced
  BY <1>3, <1>4
<1>6. ASSUME NEW q \in Fenced
      PROVE  /\ status'[q] \notin Stopped => late'[q] = 0
             /\ late'[q] <= 1
             /\ late'[q] = 1 => \A z \in Server : ~Starting(z, q)'
  <2>1. CASE q = r
    BY <1>1, <1>5, <2>1 DEF Fenced
  <2>2. CASE q # r
    BY <1>1, <1>2, <2>2 DEF LateInv, Fenced
  <2>. QED
    BY <2>1, <2>2
<1>. QED
  BY <1>6 DEF LateInv, Fenced

LEMMA LateStep ==
  ASSUME TypeOK, ExecInv, LateInv, [Next]_vars
  PROVE  LateInv'
<1>0. StopKept
  BY StopStep
<1>. USE <1>0, NoNewStartKeepsBound
<1>1. ASSUME NEW s \in Server, NEW r \in Run, SubmitStart(s, r)
      PROVE  LateInv'
  BY <1>1 DEF SubmitStart, NoNewStart, Starting
<1>2. ASSUME NEW s \in Server, NEW r \in Run, SubmitSettled(s, r)
      PROVE  LateInv'
  BY <1>2 DEF SubmitSettled, NoNewStart, Starting
<1>3. ASSUME NEW s \in Server, NEW r \in Run, NEW t \in 0..MaxTurns, SubmitConfirm(s, r, t)
      PROVE  LateInv'
  BY <1>3 DEF SubmitConfirm, NoNewStart, Starting
<1>4. ASSUME NEW s \in Server, SubmitCommit(s)
      PROVE  LateInv'
  <2>. DEFINE new == [pc |-> "queued", kind |-> submit[s].kind, token |-> submit[s].token]
  <2>1. submit[s].run \in Run
    BY DEF TypeOK, Submits
  <2>2. job' = [job EXCEPT ![s] = [job[s] EXCEPT ![submit[s].run] = new]]
    BY <1>4 DEF SubmitCommit, TypeOK
  <2>3. \A z \in Server, q \in Run : job'[z][q].pc = "queued" \/ job'[z][q].pc = job[z][q].pc
    BY <2>1, <2>2 DEF TypeOK
  <2>. QED
    BY <1>4, <2>3 DEF SubmitCommit, NoNewStart, Starting
<1>5. ASSUME NEW s \in Server, SubmitUnscheduled(s)
      PROVE  LateInv'
  BY <1>5 DEF SubmitUnscheduled, NoNewStart, Starting
<1>6. ASSUME NEW s \in Server, SubmitGiveUp(s)
      PROVE  LateInv'
  BY <1>6 DEF SubmitGiveUp, NoNewStart, Starting
<1>7. ASSUME NEW s \in Server, NEW r \in Run, JobStart(s, r)
      PROVE  LateInv'
  BY <1>7, MoveStartsNothing DEF JobStart
<1>8. ASSUME NEW s \in Server, NEW r \in Run, StreamClaim(s, r)
      PROVE  LateInv'
  <2>1. Goto(s, r, "work") \/ Goto(s, r, "final")
    BY <1>8 DEF StreamClaim
  <2>. QED
    BY <1>8, <2>1, MoveStartsNothing DEF StreamClaim
<1>9. ASSUME NEW s \in Server, NEW r \in Run, ProposeTool(s, r)
      PROVE  LateInv'
  <2>1. \E pc : (Goto(s, r, pc) /\ pc \notin {"tool", "apply"}) \/ Goto(s, r, "tool")
    BY <1>9 DEF ProposeTool
  <2>2. CASE \E pc : Goto(s, r, pc) /\ pc \notin {"tool", "apply"}
    BY <1>9, <2>2, MoveStartsNothing DEF ProposeTool
  <2>3. CASE ~\E pc : Goto(s, r, pc) /\ pc \notin {"tool", "apply"}
    <3>1. Goto(s, r, "tool") /\ status[r] \notin Heeds(s, r) /\ UNCHANGED <<status, late>>
      BY <1>9, <2>3 DEF ProposeTool
    <3>2. r \in Fenced => status[r] \notin Stopped
      BY <3>1 DEF Heeds, Fenced, Planned
    <3>. QED
      BY <3>1, <3>2, CheckedStart
  <2>. QED
    BY <2>2, <2>3
<1>10. ASSUME NEW s \in Server, NEW r \in Run, Tool(s, r)
      PROVE  LateInv'
  BY <1>10, StartCounts DEF Tool, At, Executing, Starting
<1>11. ASSUME NEW s \in Server, NEW r \in Run, AskApproval(s, r)
      PROVE  LateInv'
  BY <1>11, MoveStartsNothing DEF AskApproval
<1>12. ASSUME NEW s \in Server, NEW r \in Run, Finish(s, r)
      PROVE  LateInv'
  BY <1>12, MoveStartsNothing DEF Finish
<1>13. ASSUME NEW s \in Server, NEW r \in Run, Raise(s, r)
      PROVE  LateInv'
  BY <1>13, MoveStartsNothing DEF Raise
<1>14. ASSUME NEW s \in Server, NEW r \in Run, Conclude(s, r)
      PROVE  LateInv'
  BY <1>14, MoveStartsNothing DEF Conclude
<1>15. ASSUME NEW s \in Server, NEW r \in Run, Consent(s, r)
      PROVE  LateInv'
  BY <1>15, MoveStartsNothing DEF Consent
<1>16. ASSUME NEW s \in Server, NEW r \in Run, Refuse(s, r)
      PROVE  LateInv'
  BY <1>16, MoveStartsNothing DEF Refuse
<1>17. ASSUME NEW s \in Server, NEW r \in Run, Refused(s, r)
      PROVE  LateInv'
  BY <1>17, MoveStartsNothing DEF Refused
<1>18. ASSUME NEW s \in Server, NEW r \in Run, CheckApproved(s, r)
      PROVE  LateInv'
  <2>1. CASE status[r] \in Stopped
    BY <1>18, <2>1, MoveStartsNothing DEF CheckApproved
  <2>2. CASE status[r] \notin Stopped
    BY <1>18, <2>2, CheckedStart DEF CheckApproved
  <2>. QED
    BY <2>1, <2>2
<1>19. ASSUME NEW s \in Server, NEW r \in Run, Apply(s, r)
      PROVE  LateInv'
  BY <1>19, StartCounts DEF Apply, At, Executing, Starting
<1>20. ASSUME NEW s \in Server, NEW r \in Run, Fail(s, r)
      PROVE  LateInv'
  BY <1>20, MoveStartsNothing DEF Fail
<1>21. ASSUME NEW s \in Server, NEW r \in Run, EnforceRead(s, r)
      PROVE  LateInv'
  BY <1>21, MoveStartsNothing DEF EnforceRead
<1>22. ASSUME NEW s \in Server, NEW r \in Run, EnforceWrite(s, r)
      PROVE  LateInv'
  BY <1>22, MoveStartsNothing DEF EnforceWrite
<1>23. ASSUME NEW s \in Server, NEW r \in Run, Close(s, r)
      PROVE  LateInv'
  BY <1>23, MoveStartsNothing DEF Close
<1>24. ASSUME NEW s \in Server, NEW r \in Run, CloseFails(s, r)
      PROVE  LateInv'
  BY <1>24, MoveStartsNothing DEF CloseFails
<1>25. ASSUME NEW s \in Server, NEW r \in Run, CloseUnrecorded(s, r)
      PROVE  LateInv'
  BY <1>25, MoveStartsNothing DEF CloseUnrecorded
<1>26. ASSUME NEW s \in Server, NEW r \in Run, JobDone(s, r)
      PROVE  LateInv'
  <2>1. \A z \in Server, q \in Run : job'[z][q].pc = "idle" \/ job'[z][q].pc = job[z][q].pc
    BY <1>26 DEF JobDone, TypeOK, Idle
  <2>. QED
    BY <1>26, <2>1 DEF JobDone, NoNewStart, Starting
<1>27. ASSUME NEW r \in Run, LeaseAbandoned(r)
      PROVE  LateInv'
  BY <1>27 DEF LeaseAbandoned, LeaseExpires, NoNewStart, Starting
<1>28. ASSUME NEW r \in Run, LeaseOverrun(r)
      PROVE  LateInv'
  BY <1>28 DEF LeaseOverrun, LeaseExpires, NoNewStart, Starting
<1>29. ASSUME NEW s \in Server, NEW r \in Run, Renew(s, r)
      PROVE  LateInv'
  BY <1>29 DEF Renew, NoNewStart, Starting
<1>30. ASSUME NEW s \in Server, NEW r \in Run, Recover(s, r)
      PROVE  LateInv'
  BY <1>30 DEF Recover, NoNewStart, Starting
<1>31. ASSUME NEW s \in Server, Shutdown(s)
      PROVE  LateInv'
  BY <1>31 DEF Shutdown, NoNewStart, Starting
<1>32. ASSUME NEW s \in Server, NEW r \in Run, DropQueued(s, r)
      PROVE  LateInv'
  BY <1>32, MoveStartsNothing DEF DropQueued
<1>33. ASSUME NEW s \in Server, Crash(s)
      PROVE  LateInv'
  <2>1. \A z \in Server, q \in Run : job'[z][q].pc = "idle" \/ job'[z][q].pc = job[z][q].pc
    BY <1>33 DEF Crash, TypeOK, Idle
  <2>. QED
    BY <1>33, <2>1 DEF Crash, NoNewStart, Starting
<1>34. ASSUME NEW r \in Run, Cancel(r)
      PROVE  LateInv'
  BY <1>34 DEF Cancel, NoNewStart, Starting
<1>35. ASSUME NEW r \in Run, RecordCancel(r)
      PROVE  LateInv'
  BY <1>35 DEF RecordCancel, NoNewStart, Starting
<1>36. CASE UNCHANGED vars
  BY <1>36 DEF vars, NoNewStart, Starting
<1>. QED
  BY <1>1, <1>2, <1>3, <1>4, <1>5, <1>6, <1>7, <1>8, <1>9, <1>10, <1>11, <1>12,
     <1>13, <1>14, <1>15, <1>16, <1>17, <1>18, <1>19, <1>20, <1>21, <1>22, <1>23, <1>24,
     <1>25, <1>26, <1>27, <1>28, <1>29, <1>30, <1>31, <1>32, <1>33, <1>34, <1>35, <1>36 DEF Next, Execute

\* Once a cancellation or an interruption is committed, a run of the tool loop
\* starts at most one more tool, the one whose check preceded the stop: the loop
\* asks _is_run_cancelled before each tool and before the approved call, and no
\* second thread can have passed that check, because one thread executes a run.
THEOREM StopBoundsTheLoop == Spec => []StopBoundsTools
<1>1. Init => LateInv
  BY DEF Init, LateInv, Fenced
<1>2. TypeOK /\ ExecInv /\ LateInv /\ [Next]_vars => LateInv'
  BY LateStep
<1>3. LateInv => StopBoundsTools
  BY DEF LateInv, Fenced, StopBoundsTools
<1>. QED
  BY TypeCorrect, ExecAlways, <1>1, <1>2, <1>3, PTL DEF Spec

-----------------------------------------------------------------------------
(* The workspace of a living CLI child.                                     *)

Ended == {"finished", "interrupted"}

\* A living child belongs to a CLI run whose row still holds the slot.  It was
\* started under a live claim: a run that is still queued when its thread
\* claims it cannot have an ended row, because ending a row settles the run.
ChildInv ==
    /\ \A r \in child : IsCli(r) /\ (ConversationOf[r] # NoConversation => worker[r].holds)
    /\ \A r \in Run : worker[r].state \in Ended => status[r] # "queued"
    /\ \A s \in Server, r \in Run : job[s][r].pc # "idle" => worker[r].state # "none"

NoNewQueued == \A q \in Run : status'[q] = "queued" => status[q] = "queued"

\* What a transaction on the rows may do without asking about children.
RowsProgress ==
    /\ NoNewQueued
    /\ \A q \in Run : /\ worker[q].state # "none" => worker'[q].state # "none"
                      /\ worker'[q].state \in Ended
                           => worker[q].state \in Ended \/ status'[q] # "queued"

ChildrenKeepSlots == \A q \in child' : worker[q].holds => worker'[q].holds

LEMMA ProgressKeepsReservation ==
  ASSUME TypeOK, ChildInv, RowsProgress, ChildrenKeepSlots, child' \subseteq child,
         \A z \in Server, q \in Run : job'[z][q].pc # "idle" => job[z][q].pc # "idle"
  PROVE  ChildInv'
BY DEF ChildInv, RowsProgress, ChildrenKeepSlots, NoNewQueued, IsCli

LEMMA MoveReserves ==
  ASSUME TypeOK, ChildInv, RowsProgress, ChildrenKeepSlots, child' \subseteq child,
         NEW s \in Server, NEW r \in Run, NEW pc, Goto(s, r, pc), job[s][r].pc # "idle"
  PROVE  ChildInv'
<1>1. \A z \in Server, q \in Run : job'[z][q].pc # "idle" => job[z][q].pc # "idle"
  BY GotoPcs
<1>. QED
  BY <1>1, ProgressKeepsReservation

LEMMA StandstillReserves ==
  ASSUME TypeOK, ChildInv, RowsProgress, ChildrenKeepSlots, UNCHANGED <<child, job>>
  PROVE  ChildInv'
BY ProgressKeepsReservation

LEMMA RowsStay ==
  ASSUME UNCHANGED worker, NoNewQueued
  PROVE  RowsProgress /\ ChildrenKeepSlots
BY DEF RowsProgress, ChildrenKeepSlots

LEMMA RenewalKeepsRows ==
  ASSUME TypeOK, NEW r \in Run, NEW b, UNCHANGED status, child' \subseteq child,
         worker' = worker \/ worker' = [worker EXCEPT ![r].expired = b]
  PROVE  RowsProgress /\ ChildrenKeepSlots
<1>1. worker \in [Run -> WorkerRows] /\ worker[r] \in WorkerRows
  BY DEF TypeOK
<1>2. /\ [worker[r] EXCEPT !.expired = b].state = worker[r].state
      /\ [worker[r] EXCEPT !.expired = b].holds = worker[r].holds
  BY <1>1 DEF WorkerRows
<1>3. \A q \in Run : worker'[q].state = worker[q].state /\ worker'[q].holds = worker[q].holds
  BY <1>1, <1>2
<1>4. child' \subseteq Run
  BY DEF TypeOK
<1>. QED
  BY <1>3, <1>4 DEF RowsProgress, ChildrenKeepSlots, NoNewQueued

LEMMA FailureQueuesNothing ==
  ASSUME TypeOK, NEW r \in Run, NEW st, st # "queued", MarkFailed(r, st)
  PROVE  NoNewQueued /\ status'[r] # "queued"
BY DEF TypeOK, MarkFailed, NoNewQueued, Active

\* Ending a claim settles a queued run, and only a release by the thread whose
\* child is gone frees the slot.
LEMMA FinishingReserves ==
  ASSUME TypeOK, NEW s \in Server, NEW r \in Run, NEW release \in BOOLEAN,
         FinishClaim(s, r, release), child' \subseteq child,
         release => r \notin child'
  PROVE  RowsProgress /\ ChildrenKeepSlots
<1>0. /\ worker \in [Run -> WorkerRows] /\ worker[r] \in WorkerRows
      /\ worker[r].holds \in BOOLEAN /\ child' \subseteq Run
  BY DEF TypeOK, WorkerRows
<1>1. CASE Owns(s, r)
  <2>. DEFINE kept == IF release THEN FALSE ELSE worker[r].holds
              row  == [worker[r] EXCEPT !.state = "finished", !.holds = kept]
  <2>1. worker' = [worker EXCEPT ![r] = row] /\ MarkFailed(r, "failed")
    BY <1>0, <1>1 DEF FinishClaim, WorkerRows
  <2>2. row.state = "finished" /\ row.holds = kept
    BY <1>0 DEF WorkerRows
  <2>3. /\ worker'[r].state = "finished" /\ worker'[r].holds = kept
        /\ \A q \in Run : q # r => worker'[q] = worker[q]
    BY <1>0, <2>1, <2>2
  <2>4. NoNewQueued /\ status'[r] # "queued"
    BY <2>1, FailureQueuesNothing
  <2>5. RowsProgress
    BY <2>3, <2>4 DEF RowsProgress
  <2>6. ChildrenKeepSlots
    BY <1>0, <2>3 DEF ChildrenKeepSlots
  <2>. QED
    BY <2>5, <2>6
<1>2. CASE ~Owns(s, r)
  <2>1. /\ UNCHANGED status
        /\ worker' = worker \/ (release /\ worker' = [worker EXCEPT ![r].holds = FALSE])
    BY <1>2 DEF FinishClaim
  <2>2. [worker[r] EXCEPT !.holds = FALSE].state = worker[r].state
    BY <1>0 DEF WorkerRows
  <2>3. /\ \A q \in Run : worker'[q].state = worker[q].state
        /\ \A q \in Run : q # r \/ ~release => worker'[q] = worker[q]
    BY <1>0, <2>1, <2>2
  <2>. QED
    BY <1>0, <2>1, <2>3 DEF RowsProgress, ChildrenKeepSlots, NoNewQueued
<1>. QED
  BY <1>1, <1>2

\* Recovery leaves the slot with a CLI run: its child may still be there.
LEMMA RecoveryReserves ==
  ASSUME TypeOK, ChildInv, NEW s \in Server, NEW r \in Run, Recover(s, r)
  PROVE  RowsProgress /\ ChildrenKeepSlots
<1>0. worker \in [Run -> WorkerRows] /\ worker[r] \in WorkerRows /\ child' = child /\ child \subseteq Run
  BY DEF TypeOK, Recover
<1>. DEFINE kept == IF IsCli(r) THEN worker[r].holds ELSE FALSE
            row  == [worker[r] EXCEPT !.state = "interrupted", !.expired = FALSE,
                                      !.holds = kept]
<1>1. worker' = [worker EXCEPT ![r] = row]
  BY <1>0 DEF Recover, WorkerRows
<1>2. row.state = "interrupted" /\ row.holds = kept
  BY <1>0 DEF WorkerRows
<1>3. /\ worker'[r].state = "interrupted" /\ worker'[r].holds = kept
      /\ \A q \in Run : q # r => worker'[q] = worker[q]
  BY <1>0, <1>1, <1>2
<1>4. NoNewQueued /\ status'[r] # "queued"
  BY FailureQueuesNothing DEF Recover
<1>5. RowsProgress
  BY <1>3, <1>4 DEF RowsProgress
<1>6. ChildrenKeepSlots
  BY <1>0, <1>3 DEF ChildrenKeepSlots, ChildInv
<1>. QED
  BY <1>5, <1>6

\* A claim takes the slot; a run whose row can be claimed has no living child
\* that a new row would have to spare.
LEMMA ClaimReserves ==
  ASSUME TypeOK, ChildInv, NEW s \in Server, NEW r \in Run, Claim(s, r), NoNewQueued,
         UNCHANGED child,
         \A z \in Server, q \in Run : job'[z][q].pc # "idle" => job[z][q].pc # "idle" \/ q = r
  PROVE  ChildInv'
<1>1. /\ worker'[r].state = "active" /\ worker'[r].holds = (ConversationOf[r] # NoConversation)
      /\ \A q \in Run : q # r => worker'[q] = worker[q]
  BY DEF Claim, TypeOK
<1>2. child \subseteq Run /\ "active" \notin Ended \cup {"none"}
  BY DEF TypeOK, Ended
<1>3. \A q \in child' : IsCli(q) /\ (ConversationOf[q] # NoConversation => worker'[q].holds)
  BY <1>1, <1>2 DEF ChildInv
<1>4. \A q \in Run : worker'[q].state \in Ended => status'[q] # "queued"
  BY <1>1, <1>2 DEF ChildInv, NoNewQueued
<1>5. \A z \in Server, q \in Run : job'[z][q].pc # "idle" => worker'[q].state # "none"
  BY <1>1, <1>2 DEF ChildInv
<1>. QED
  BY <1>3, <1>4, <1>5 DEF ChildInv, IsCli

LEMMA ChildStep ==
  ASSUME TypeOK, SlotInv, ChildInv, [Next]_vars
  PROVE  ChildInv'
<1>1. ASSUME NEW s \in Server, NEW r \in Run, SubmitStart(s, r)
      PROVE  ChildInv'
  BY <1>1, RowsStay, StandstillReserves DEF SubmitStart, NoNewQueued
<1>2. ASSUME NEW s \in Server, NEW r \in Run, SubmitSettled(s, r)
      PROVE  ChildInv'
  BY <1>2, RowsStay, StandstillReserves DEF SubmitSettled, NoNewQueued
<1>3. ASSUME NEW s \in Server, NEW r \in Run, NEW t \in 0..MaxTurns, SubmitConfirm(s, r, t)
      PROVE  ChildInv'
  BY <1>3, RowsStay, StandstillReserves DEF SubmitConfirm, NoNewQueued
<1>4. ASSUME NEW s \in Server, SubmitCommit(s)
      PROVE  ChildInv'
  <2>. DEFINE new == [pc |-> "queued", kind |-> submit[s].kind, token |-> submit[s].token]
  <2>1. submit[s].run \in Run
    BY DEF TypeOK, Submits
  <2>2. job' = [job EXCEPT ![s] = [job[s] EXCEPT ![submit[s].run] = new]]
    BY <1>4 DEF SubmitCommit, TypeOK
  <2>3. \A z \in Server, q \in Run : job'[z][q].pc # "idle" => job[z][q].pc # "idle" \/ q = submit[s].run
    BY <2>1, <2>2 DEF TypeOK
  <2>. QED
    BY <1>4, <2>1, <2>3, ClaimReserves DEF SubmitCommit, NoNewQueued
<1>5. ASSUME NEW s \in Server, SubmitUnscheduled(s)
      PROVE  ChildInv'
  <2>1. submit[s].run \in Run /\ "failed" # "queued"
    BY DEF TypeOK, Submits
  <2>2. NoNewQueued
    BY <1>5, <2>1, FailureQueuesNothing DEF SubmitUnscheduled
  <2>. QED
    BY <1>5, <2>1, <2>2, ClaimReserves DEF SubmitUnscheduled
<1>6. ASSUME NEW s \in Server, SubmitGiveUp(s)
      PROVE  ChildInv'
  BY <1>6, RowsStay, StandstillReserves DEF SubmitGiveUp, NoNewQueued
<1>7. ASSUME NEW s \in Server, NEW r \in Run, JobStart(s, r)
      PROVE  ChildInv'
  <2>1. NoNewQueued
    BY <1>7 DEF JobStart, NoNewQueued, TypeOK
  <2>2. job[s][r].pc # "idle" /\ UNCHANGED worker /\ child' \subseteq child
    BY <1>7 DEF JobStart, At
  <2>. QED
    BY <1>7, <2>1, <2>2, RowsStay, MoveReserves DEF JobStart
<1>8. ASSUME NEW s \in Server, NEW r \in Run, StreamClaim(s, r)
      PROVE  ChildInv'
  <2>1. CASE status[r] = "queued" /\ IsCli(r)
    <3>1. /\ job[s][r].pc = "claim" /\ Goto(s, r, "work") /\ UNCHANGED worker
          /\ child' = child \cup {r} /\ status' = [status EXCEPT ![r] = "running"]
      BY <1>8, <2>1 DEF StreamClaim, At
    <3>2. worker[r].state = "active"
      BY <2>1, <3>1 DEF ChildInv, Ended, TypeOK, WorkerRows
    <3>3. ConversationOf[r] # NoConversation => worker[r].holds
      BY <3>2 DEF SlotInv, ClaimsHold
    <3>4. \A q \in Run : status'[q] = "queued" => status[q] = "queued"
      BY <3>1 DEF TypeOK
    <3>5. \A z \in Server, q \in Run : job'[z][q].pc # "idle" => job[z][q].pc # "idle"
      BY <3>1, GotoPcs
    <3>. QED
      BY <2>1, <3>1, <3>3, <3>4, <3>5 DEF ChildInv
  <2>2. CASE ~(status[r] = "queued" /\ IsCli(r))
    <3>1. NoNewQueued /\ UNCHANGED <<worker, child>> /\ job[s][r].pc # "idle"
      BY <1>8, <2>2 DEF StreamClaim, NoNewQueued, TypeOK, At
    <3>2. Goto(s, r, "work") \/ Goto(s, r, "final")
      BY <1>8 DEF StreamClaim
    <3>. QED
      BY <3>1, <3>2, RowsStay, MoveReserves
  <2>. QED
    BY <2>1, <2>2
<1>9. ASSUME NEW s \in Server, NEW r \in Run, ProposeTool(s, r)
      PROVE  ChildInv'
  <2>1. worker' = worker \/ worker' = [worker EXCEPT ![r].expired = FALSE]
    <3>1. CASE Streams(s, r) /\ ~Owns(s, r)
      BY <1>9, <3>1 DEF ProposeTool
    <3>2. CASE Streams(s, r) /\ Owns(s, r)
      BY <1>9, <3>2 DEF ProposeTool
    <3>3. CASE ~(Streams(s, r))
      BY <1>9, <3>3 DEF ProposeTool
    <3>. QED
      BY <3>1, <3>2, <3>3
  <2>2. (\E pc : Goto(s, r, pc) /\ pc # "idle") /\ UNCHANGED <<status, child>> /\ job[s][r].pc # "idle"
    BY <1>9 DEF ProposeTool, At
  <2>. QED
    BY <2>1, <2>2, RenewalKeepsRows, MoveReserves
<1>10. ASSUME NEW s \in Server, NEW r \in Run, Tool(s, r)
      PROVE  ChildInv'
  <2>1. NoNewQueued
    BY <1>10 DEF Tool, NoNewQueued, TypeOK
  <2>2. job[s][r].pc # "idle" /\ UNCHANGED worker /\ child' \subseteq child
    BY <1>10 DEF Tool, At
  <2>. QED
    BY <1>10, <2>1, <2>2, RowsStay, MoveReserves DEF Tool
<1>11. ASSUME NEW s \in Server, NEW r \in Run, AskApproval(s, r)
      PROVE  ChildInv'
  <2>1. NoNewQueued
    BY <1>11 DEF AskApproval, FinishRun, Outcomes, NoNewQueued, TypeOK
  <2>2. job[s][r].pc # "idle" /\ UNCHANGED worker /\ child' \subseteq child
    BY <1>11 DEF AskApproval, At
  <2>. QED
    BY <1>11, <2>1, <2>2, RowsStay, MoveReserves DEF AskApproval
<1>12. ASSUME NEW s \in Server, NEW r \in Run, Finish(s, r)
      PROVE  ChildInv'
  <2>1. NoNewQueued
    BY <1>12 DEF Finish, FinishRun, Outcomes, NoNewQueued, TypeOK
  <2>2. job[s][r].pc # "idle" /\ UNCHANGED worker /\ child' \subseteq child
    BY <1>12 DEF Finish, At
  <2>. QED
    BY <1>12, <2>1, <2>2, RowsStay, MoveReserves DEF Finish
<1>13. ASSUME NEW s \in Server, NEW r \in Run, Raise(s, r)
      PROVE  ChildInv'
  <2>1. NoNewQueued
    BY <1>13 DEF Raise, NoNewQueued, TypeOK
  <2>2. job[s][r].pc # "idle" /\ UNCHANGED worker /\ child' \subseteq child
    BY <1>13 DEF Raise, At
  <2>. QED
    BY <1>13, <2>1, <2>2, RowsStay, MoveReserves DEF Raise
<1>14. ASSUME NEW s \in Server, NEW r \in Run, Conclude(s, r)
      PROVE  ChildInv'
  <2>1. worker' = worker \/ worker' = [worker EXCEPT ![r].expired = FALSE]
    <3>1. CASE job[s][r].kind = "stream" /\ ~Owns(s, r)
      BY <1>14, <3>1 DEF Conclude
    <3>2. CASE job[s][r].kind = "stream" /\ Owns(s, r)
      BY <1>14, <3>2 DEF Conclude
    <3>3. CASE ~(job[s][r].kind = "stream")
      BY <1>14, <3>3 DEF Conclude
    <3>. QED
      BY <3>1, <3>2, <3>3
  <2>2. (\E pc : Goto(s, r, pc) /\ pc # "idle") /\ UNCHANGED <<status, child>> /\ job[s][r].pc # "idle"
    BY <1>14 DEF Conclude, At
  <2>. QED
    BY <2>1, <2>2, RenewalKeepsRows, MoveReserves
<1>15. ASSUME NEW s \in Server, NEW r \in Run, Consent(s, r)
      PROVE  ChildInv'
  <2>1. NoNewQueued
    BY <1>15 DEF Consent, NoNewQueued, TypeOK
  <2>2. job[s][r].pc # "idle" /\ UNCHANGED worker /\ child' \subseteq child
    BY <1>15 DEF Consent, At
  <2>. QED
    BY <1>15, <2>1, <2>2, RowsStay, MoveReserves DEF Consent
<1>16. ASSUME NEW s \in Server, NEW r \in Run, Refuse(s, r)
      PROVE  ChildInv'
  <2>1. NoNewQueued
    BY <1>16 DEF Refuse, NoNewQueued, TypeOK
  <2>2. job[s][r].pc # "idle" /\ UNCHANGED worker /\ child' \subseteq child
    BY <1>16 DEF Refuse, At
  <2>. QED
    BY <1>16, <2>1, <2>2, RowsStay, MoveReserves DEF Refuse
<1>17. ASSUME NEW s \in Server, NEW r \in Run, Refused(s, r)
      PROVE  ChildInv'
  <2>1. NoNewQueued
    BY <1>17 DEF Refused, NoNewQueued, TypeOK
  <2>2. job[s][r].pc # "idle" /\ UNCHANGED worker /\ child' \subseteq child
    BY <1>17 DEF Refused, At
  <2>. QED
    BY <1>17, <2>1, <2>2, RowsStay, MoveReserves DEF Refused
<1>18. ASSUME NEW s \in Server, NEW r \in Run, CheckApproved(s, r)
      PROVE  ChildInv'
  <2>1. NoNewQueued
    BY <1>18 DEF CheckApproved, NoNewQueued, TypeOK
  <2>2. job[s][r].pc # "idle" /\ UNCHANGED worker /\ child' \subseteq child
    BY <1>18 DEF CheckApproved, At
  <2>. QED
    BY <1>18, <2>1, <2>2, RowsStay, MoveReserves DEF CheckApproved
<1>19. ASSUME NEW s \in Server, NEW r \in Run, Apply(s, r)
      PROVE  ChildInv'
  <2>1. NoNewQueued
    BY <1>19 DEF Apply, NoNewQueued, TypeOK
  <2>2. job[s][r].pc # "idle" /\ UNCHANGED worker /\ child' \subseteq child
    BY <1>19 DEF Apply, At
  <2>. QED
    BY <1>19, <2>1, <2>2, RowsStay, MoveReserves DEF Apply
<1>20. ASSUME NEW s \in Server, NEW r \in Run, Fail(s, r)
      PROVE  ChildInv'
  <2>1. NoNewQueued
    BY <1>20, FailureQueuesNothing DEF Fail, NoNewQueued
  <2>2. job[s][r].pc # "idle" /\ UNCHANGED worker /\ child' \subseteq child
    BY <1>20 DEF Fail, At
  <2>. QED
    BY <1>20, <2>1, <2>2, RowsStay, MoveReserves DEF Fail
<1>21. ASSUME NEW s \in Server, NEW r \in Run, EnforceRead(s, r)
      PROVE  ChildInv'
  <2>1. NoNewQueued
    BY <1>21 DEF EnforceRead, NoNewQueued, TypeOK
  <2>2. job[s][r].pc # "idle" /\ UNCHANGED worker /\ child' \subseteq child
    BY <1>21 DEF EnforceRead, At
  <2>. QED
    BY <1>21, <2>1, <2>2, RowsStay, MoveReserves DEF EnforceRead
<1>22. ASSUME NEW s \in Server, NEW r \in Run, EnforceWrite(s, r)
      PROVE  ChildInv'
  <2>1. NoNewQueued
    BY <1>22 DEF EnforceWrite, NoNewQueued, TypeOK
  <2>2. job[s][r].pc # "idle" /\ UNCHANGED worker /\ child' \subseteq child
    BY <1>22 DEF EnforceWrite, At
  <2>. QED
    BY <1>22, <2>1, <2>2, RowsStay, MoveReserves DEF EnforceWrite
<1>23. ASSUME NEW s \in Server, NEW r \in Run, Close(s, r)
      PROVE  ChildInv'
  <2>1. /\ FinishClaim(s, r, TRUE) /\ Goto(s, r, "done") /\ job[s][r].pc # "idle"
        /\ child' = child \ {r}
    BY <1>23 DEF Close, At
  <2>. QED
    BY <2>1, FinishingReserves, MoveReserves
<1>24. ASSUME NEW s \in Server, NEW r \in Run, CloseFails(s, r)
      PROVE  ChildInv'
  <2>1. /\ FinishClaim(s, r, FALSE) /\ Goto(s, r, "done") /\ job[s][r].pc # "idle"
        /\ child' = child
    BY <1>24 DEF CloseFails, At
  <2>. QED
    BY <2>1, FinishingReserves, MoveReserves
<1>25. ASSUME NEW s \in Server, NEW r \in Run, CloseUnrecorded(s, r)
      PROVE  ChildInv'
  <2>1. NoNewQueued
    BY <1>25 DEF CloseUnrecorded, NoNewQueued, TypeOK
  <2>2. job[s][r].pc # "idle" /\ UNCHANGED worker /\ child' \subseteq child
    BY <1>25 DEF CloseUnrecorded, At
  <2>. QED
    BY <1>25, <2>1, <2>2, RowsStay, MoveReserves DEF CloseUnrecorded
<1>26. ASSUME NEW s \in Server, NEW r \in Run, JobDone(s, r)
      PROVE  ChildInv'
  <2>1. \A z \in Server, q \in Run : job'[z][q].pc # "idle" => job[z][q].pc # "idle"
    BY <1>26 DEF JobDone, TypeOK, Idle
  <2>2. NoNewQueued /\ UNCHANGED <<worker, child>>
    BY <1>26 DEF JobDone, NoNewQueued
  <2>. QED
    BY <2>1, <2>2, RowsStay, ProgressKeepsReservation
<1>27. ASSUME NEW r \in Run, LeaseAbandoned(r)
      PROVE  ChildInv'
  BY <1>27, RenewalKeepsRows, StandstillReserves DEF LeaseAbandoned, LeaseExpires
<1>28. ASSUME NEW r \in Run, LeaseOverrun(r)
      PROVE  ChildInv'
  BY <1>28, RenewalKeepsRows, StandstillReserves DEF LeaseOverrun, LeaseExpires
<1>29. ASSUME NEW s \in Server, NEW r \in Run, Renew(s, r)
      PROVE  ChildInv'
  BY <1>29, RenewalKeepsRows, StandstillReserves DEF Renew
<1>30. ASSUME NEW s \in Server, NEW r \in Run, Recover(s, r)
      PROVE  ChildInv'
  BY <1>30, RecoveryReserves, StandstillReserves DEF Recover
<1>31. ASSUME NEW s \in Server, Shutdown(s)
      PROVE  ChildInv'
  BY <1>31, RowsStay, StandstillReserves DEF Shutdown, NoNewQueued
<1>32. ASSUME NEW s \in Server, NEW r \in Run, DropQueued(s, r)
      PROVE  ChildInv'
  <2>1. NoNewQueued
    BY <1>32, FailureQueuesNothing DEF DropQueued, NoNewQueued
  <2>2. job[s][r].pc # "idle" /\ UNCHANGED worker /\ child' \subseteq child
    BY <1>32 DEF DropQueued, At
  <2>. QED
    BY <1>32, <2>1, <2>2, RowsStay, MoveReserves DEF DropQueued
<1>33. ASSUME NEW s \in Server, Crash(s)
      PROVE  ChildInv'
  <2>1. \A z \in Server, q \in Run : job'[z][q].pc # "idle" => job[z][q].pc # "idle"
    BY <1>33 DEF Crash, TypeOK, Idle
  <2>2. NoNewQueued /\ UNCHANGED <<worker, child>>
    BY <1>33 DEF Crash, NoNewQueued
  <2>. QED
    BY <2>1, <2>2, RowsStay, ProgressKeepsReservation
<1>34. ASSUME NEW r \in Run, Cancel(r)
      PROVE  ChildInv'
  <2>1. NoNewQueued
    BY <1>34 DEF Cancel, NoNewQueued, TypeOK
  <2>. QED
    BY <1>34, <2>1, RowsStay, StandstillReserves DEF Cancel
<1>35. ASSUME NEW r \in Run, RecordCancel(r)
      PROVE  ChildInv'
  BY <1>35, RowsStay, StandstillReserves DEF RecordCancel, NoNewQueued
<1>36. CASE UNCHANGED vars
  BY <1>36, RowsStay, StandstillReserves DEF vars, NoNewQueued
<1>. QED
  BY <1>1, <1>2, <1>3, <1>4, <1>5, <1>6, <1>7, <1>8, <1>9, <1>10, <1>11, <1>12,
     <1>13, <1>14, <1>15, <1>16, <1>17, <1>18, <1>19, <1>20, <1>21, <1>22, <1>23, <1>24,
     <1>25, <1>26, <1>27, <1>28, <1>29, <1>30, <1>31, <1>32, <1>33, <1>34, <1>35, <1>36 DEF Next, Execute

LEMMA ChildAlways == Spec => [](SlotInv /\ ChildInv)
<1>1. Init => SlotInv /\ ChildInv
  BY DEF Init, NoWorker, Idle, SlotInv, ClaimsHold, OneHolder, ChildInv, Ended
<1>2. TypeOK /\ (SlotInv /\ ChildInv) /\ [Next]_vars => (SlotInv /\ ChildInv)'
  BY SlotStep, ChildStep
<1>. QED
  BY TypeCorrect, <1>1, <1>2, PTL DEF Spec

\* While a Claude Code or Codex child may be alive, no other run of its
\* conversation gets a claim, in any process: neither a recovery of the child's
\* row, nor the crash of its process, nor a close that fails frees the slot, and
\* the unique index turns every other claim away.
THEOREM LivingChildIsAlone == Spec => []CliWorkspaceReserved
<1>1. TypeOK /\ SlotInv /\ ChildInv => CliWorkspaceReserved
  BY DEF SlotInv, ClaimsHold, OneHolder, ChildInv, CliWorkspaceReserved, SameConversation, TypeOK
<1>. QED
  BY TypeCorrect, ChildAlways, <1>1, PTL

-----------------------------------------------------------------------------
(* Runtimes that renew in time.  When no process stalls past its lease, a    *)
(* thread at work owns its run, and only what nobody works on is recovered.  *)

PromptInv ==
    /\ \A s \in Server, r \in Run : job[s][r].pc \notin {"idle", "done"} => Owns(s, r)
    /\ \A r \in Run : worker[r].state = "active" => Holder(r) \in Server
    /\ \A r \in Run : worker[r].state = "active" /\ worker[r].expired
                         => job[Holder(r)][r].pc = "idle"
    /\ \A s \in Server, r \in Run : job[s][r].pc \notin {"lost", "enforce"}
    /\ \A s \in Server : server[s] = "down" => \A r \in Run : job[s][r].pc = "idle"

OwnersKept ==
    \A q \in Run : /\ worker'[q].owner = worker[q].owner
                   /\ worker'[q].state = worker[q].state
                   /\ worker'[q].expired => worker[q].expired

LEMMA RowsUntouched ==
  ASSUME UNCHANGED worker
  PROVE  OwnersKept
BY DEF OwnersKept

LEMMA RenewalTouchesNoOwner ==
  ASSUME TypeOK, NEW r \in Run,
         worker' = worker \/ worker' = [worker EXCEPT ![r].expired = FALSE]
  PROVE  OwnersKept
<1>1. worker \in [Run -> WorkerRows] /\ worker[r] \in WorkerRows
  BY DEF TypeOK
<1>2. /\ [worker[r] EXCEPT !.expired = FALSE].owner = worker[r].owner
      /\ [worker[r] EXCEPT !.expired = FALSE].state = worker[r].state
      /\ [worker[r] EXCEPT !.expired = FALSE].expired = FALSE
  BY <1>1 DEF WorkerRows
<1>. QED
  BY <1>1, <1>2 DEF OwnersKept

LEMMA StandstillIsPrompt ==
  ASSUME PromptInv, OwnersKept, UNCHANGED <<server, job>>
  PROVE  PromptInv'
BY DEF PromptInv, OwnersKept, Owns, Holder

LEMMA MoveIsPrompt ==
  ASSUME TypeOK, PromptInv, OwnersKept, UNCHANGED server,
         NEW s \in Server, NEW r \in Run, NEW pc, Goto(s, r, pc),
         pc \notin {"idle", "lost", "enforce"}, job[s][r].pc \notin {"idle", "done"}
  PROVE  PromptInv'
<1>1. \A z \in Server, q \in Run :
         \/ job'[z][q].pc = job[z][q].pc
         \/ z = s /\ q = r /\ job'[z][q].pc = pc
  BY GotoPcs
<1>2. \A z \in Server, q \in Run : Owns(z, q)' <=> Owns(z, q)
  BY DEF OwnersKept, Owns
<1>3. \A z \in Server, q \in Run : job'[z][q].pc = "idle" <=> job[z][q].pc = "idle"
  BY <1>1
<1>4. \A z \in Server, q \in Run : job'[z][q].pc \notin {"idle", "done"} => Owns(z, q)'
  BY <1>1, <1>2 DEF PromptInv
<1>5. \A q \in Run : worker'[q].state = "active" => Holder(q)' \in Server
  BY DEF PromptInv, OwnersKept, Holder
<1>6. \A q \in Run : worker'[q].state = "active" /\ worker'[q].expired
                        => job'[worker'[q].owner][q].pc = "idle"
  BY <1>3 DEF PromptInv, OwnersKept, Holder
<1>7. \A z \in Server, q \in Run : job'[z][q].pc \notin {"lost", "enforce"}
  BY <1>1 DEF PromptInv
<1>8. \A z \in Server : server'[z] = "down" => \A q \in Run : job'[z][q].pc = "idle"
  BY <1>3 DEF PromptInv
<1>. QED
  BY <1>4, <1>5, <1>6, <1>7, <1>8 DEF PromptInv, Holder

\* A run whose row is no live claim has no thread at work, anywhere.
LEMMA ClaimIsPrompt ==
  ASSUME TypeOK, PromptInv, NEW s \in Server, NEW r \in Run, Claim(s, r),
         worker[r].state # "active", server[s] = "up", UNCHANGED server,
         \A z \in Server, q \in Run : \/ job'[z][q].pc = job[z][q].pc
                                      \/ z = s /\ q = r /\ job'[z][q].pc = "queued"
  PROVE  PromptInv'
<1>1. /\ worker'[r].owner = s /\ worker'[r].state = "active" /\ worker'[r].expired = FALSE
      /\ \A q \in Run : q # r => worker'[q] = worker[q]
  BY DEF Claim, TypeOK
<1>2. \A z \in Server, q \in Run : job'[z][q].pc \notin {"idle", "done"} => Owns(z, q)'
  BY <1>1 DEF PromptInv, Owns
<1>3. \A q \in Run : worker'[q].state = "active" => worker'[q].owner \in Server
  BY <1>1 DEF PromptInv, Holder
<1>4. \A q \in Run : worker'[q].state = "active" /\ worker'[q].expired
                        => job'[worker'[q].owner][q].pc = "idle"
  BY <1>1 DEF PromptInv, Holder
<1>5. \A z \in Server, q \in Run : job'[z][q].pc \notin {"lost", "enforce"}
  BY DEF PromptInv
<1>6. \A z \in Server : server'[z] = "down" => \A q \in Run : job'[z][q].pc = "idle"
  BY DEF PromptInv
<1>. QED
  BY <1>2, <1>3, <1>4, <1>5, <1>6 DEF PromptInv, Holder

\* The owner's thread ends: nobody else was at work on the run.
LEMMA FinishIsPrompt ==
  ASSUME TypeOK, PromptInv, NEW s \in Server, NEW r \in Run, NEW release \in BOOLEAN,
         FinishClaim(s, r, release), Goto(s, r, "done"), UNCHANGED server,
         job[s][r].pc = "close"
  PROVE  PromptInv'
<1>. DEFINE kept == IF release THEN FALSE ELSE worker[r].holds
            row  == [worker[r] EXCEPT !.state = "finished", !.holds = kept]
<1>0. worker \in [Run -> WorkerRows] /\ worker[r] \in WorkerRows
  BY DEF TypeOK
<1>1. Owns(s, r)
  BY DEF PromptInv
<1>2. worker' = [worker EXCEPT ![r] = row]
  BY <1>0, <1>1 DEF FinishClaim, WorkerRows
<1>3. worker'[r].state = "finished" /\ \A q \in Run : q # r => worker'[q] = worker[q]
  BY <1>0, <1>2 DEF WorkerRows
<1>4. \A z \in Server, q \in Run :
         \/ job'[z][q].pc = job[z][q].pc /\ (q # r \/ z # s)
         \/ z = s /\ q = r /\ job'[z][q].pc = "done"
  BY GotoPcs
<1>5. \A z \in Server, q \in Run : job'[z][q].pc \notin {"idle", "done"} => Owns(z, q)'
  BY <1>1, <1>3, <1>4 DEF PromptInv, Owns
<1>6. \A q \in Run : worker'[q].state = "active" => q # r /\ worker'[q].owner \in Server
  BY <1>3 DEF PromptInv, Holder
<1>7. \A q \in Run : worker'[q].state = "active" /\ worker'[q].expired
                        => job'[worker'[q].owner][q].pc = "idle"
  BY <1>3, <1>4, <1>6 DEF PromptInv, Holder
<1>8. \A z \in Server, q \in Run : job'[z][q].pc \notin {"lost", "enforce"}
  BY <1>4 DEF PromptInv
<1>9. \A z \in Server : server'[z] = "down" => \A q \in Run : job'[z][q].pc = "idle"
  BY <1>4 DEF PromptInv
<1>. QED
  BY <1>5, <1>6, <1>7, <1>8, <1>9 DEF PromptInv, Holder

\* A claim that is recovered belonged to nobody's thread.
LEMMA RecoveryIsPrompt ==
  ASSUME TypeOK, PromptInv, NEW s \in Server, NEW r \in Run, Recover(s, r)
  PROVE  PromptInv'
<1>. DEFINE kept == IF IsCli(r) THEN worker[r].holds ELSE FALSE
            row  == [worker[r] EXCEPT !.state = "interrupted", !.expired = FALSE,
                                      !.holds = kept]
<1>0. worker \in [Run -> WorkerRows] /\ worker[r] \in WorkerRows
  BY DEF TypeOK
<1>1. /\ worker' = [worker EXCEPT ![r] = row] /\ UNCHANGED <<server, job>>
      /\ worker[r].state = "active" /\ worker[r].expired
  BY <1>0 DEF Recover, WorkerRows
<1>2. worker'[r].state = "interrupted" /\ \A q \in Run : q # r => worker'[q] = worker[q]
  BY <1>0, <1>1 DEF WorkerRows
<1>3. \A z \in Server : job[z][r].pc \in {"idle", "done"}
  BY <1>1 DEF PromptInv, Owns, Holder
<1>. QED
  BY <1>1, <1>2, <1>3 DEF PromptInv, Owns, Holder

LEMMA PromptStep ==
  ASSUME MaySuspend = {}, TypeOK, PromptInv, [Next]_vars
  PROVE  PromptInv'
<1>1. ASSUME NEW s \in Server, NEW r \in Run, SubmitStart(s, r)
      PROVE  PromptInv'
  BY <1>1, RowsUntouched, StandstillIsPrompt DEF SubmitStart
<1>2. ASSUME NEW s \in Server, NEW r \in Run, SubmitSettled(s, r)
      PROVE  PromptInv'
  BY <1>2, RowsUntouched, StandstillIsPrompt DEF SubmitSettled
<1>3. ASSUME NEW s \in Server, NEW r \in Run, NEW t \in 0..MaxTurns, SubmitConfirm(s, r, t)
      PROVE  PromptInv'
  BY <1>3, RowsUntouched, StandstillIsPrompt DEF SubmitConfirm
<1>4. ASSUME NEW s \in Server, SubmitCommit(s)
      PROVE  PromptInv'
  <2>. DEFINE new == [pc |-> "queued", kind |-> submit[s].kind, token |-> submit[s].token]
  <2>1. submit[s].run \in Run
    BY DEF TypeOK, Submits
  <2>2. job' = [job EXCEPT ![s] = [job[s] EXCEPT ![submit[s].run] = new]]
    BY <1>4 DEF SubmitCommit, TypeOK
  <2>3. \A z \in Server, q \in Run :
           \/ job'[z][q].pc = job[z][q].pc
           \/ z = s /\ q = submit[s].run /\ job'[z][q].pc = "queued"
    BY <2>1, <2>2 DEF TypeOK
  <2>4. /\ Claim(s, submit[s].run) /\ UNCHANGED server /\ server[s] = "up"
        /\ worker[submit[s].run].state # "active"
    BY <1>4 DEF SubmitCommit, RowFree
  <2>. QED
    BY <2>1, <2>3, <2>4, ClaimIsPrompt
<1>5. ASSUME NEW s \in Server, SubmitUnscheduled(s)
      PROVE  PromptInv'
  <2>1. submit[s].run \in Run
    BY DEF TypeOK, Submits
  <2>2. /\ Claim(s, submit[s].run) /\ UNCHANGED <<server, job>> /\ server[s] = "up"
        /\ worker[submit[s].run].state # "active"
    BY <1>5 DEF SubmitUnscheduled, RowFree
  <2>. QED
    BY <2>1, <2>2, ClaimIsPrompt
<1>6. ASSUME NEW s \in Server, SubmitGiveUp(s)
      PROVE  PromptInv'
  BY <1>6, RowsUntouched, StandstillIsPrompt DEF SubmitGiveUp
<1>7. ASSUME NEW s \in Server, NEW r \in Run, JobStart(s, r)
      PROVE  PromptInv'
  BY <1>7, RowsUntouched, MoveIsPrompt DEF JobStart, At
<1>8. ASSUME NEW s \in Server, NEW r \in Run, StreamClaim(s, r)
      PROVE  PromptInv'
  <2>1. (\E pc : Goto(s, r, pc) /\ pc \notin {"idle", "lost", "enforce"}) /\ UNCHANGED <<worker, server>>
    BY <1>8 DEF StreamClaim
  <2>2. job[s][r].pc \notin {"idle", "done"}
    BY <1>8 DEF StreamClaim, At
  <2>. QED
    BY <2>1, <2>2, RowsUntouched, MoveIsPrompt
<1>9. ASSUME NEW s \in Server, NEW r \in Run, ProposeTool(s, r)
      PROVE  PromptInv'
  <2>1. Owns(s, r) /\ job[s][r].pc = "work"
    BY <1>9 DEF ProposeTool, At, PromptInv
  <2>2. worker' = worker \/ worker' = [worker EXCEPT ![r].expired = FALSE]
    <3>1. CASE Streams(s, r)
      BY <1>9, <2>1, <3>1 DEF ProposeTool
    <3>2. CASE ~(Streams(s, r))
      BY <1>9, <3>2 DEF ProposeTool
    <3>. QED
      BY <3>1, <3>2
  <2>3. (\E pc : Goto(s, r, pc) /\ pc \notin {"idle", "lost", "enforce"}) /\ UNCHANGED server
    BY <1>9, <2>1 DEF ProposeTool
  <2>. QED
    BY <2>1, <2>2, <2>3, RenewalTouchesNoOwner, MoveIsPrompt
<1>10. ASSUME NEW s \in Server, NEW r \in Run, Tool(s, r)
      PROVE  PromptInv'
  BY <1>10, RowsUntouched, MoveIsPrompt DEF Tool, At
<1>11. ASSUME NEW s \in Server, NEW r \in Run, AskApproval(s, r)
      PROVE  PromptInv'
  BY <1>11, RowsUntouched, MoveIsPrompt DEF AskApproval, At
<1>12. ASSUME NEW s \in Server, NEW r \in Run, Finish(s, r)
      PROVE  PromptInv'
  BY <1>12, RowsUntouched, MoveIsPrompt DEF Finish, At
<1>13. ASSUME NEW s \in Server, NEW r \in Run, Raise(s, r)
      PROVE  PromptInv'
  BY <1>13, RowsUntouched, MoveIsPrompt DEF Raise, At
<1>14. ASSUME NEW s \in Server, NEW r \in Run, Conclude(s, r)
      PROVE  PromptInv'
  <2>1. Owns(s, r) /\ job[s][r].pc = "final"
    BY <1>14 DEF Conclude, At, PromptInv
  <2>2. worker' = worker \/ worker' = [worker EXCEPT ![r].expired = FALSE]
    <3>1. CASE job[s][r].kind = "stream"
      BY <1>14, <2>1, <3>1 DEF Conclude
    <3>2. CASE ~(job[s][r].kind = "stream")
      BY <1>14, <3>2 DEF Conclude
    <3>. QED
      BY <3>1, <3>2
  <2>3. (\E pc : Goto(s, r, pc) /\ pc \notin {"idle", "lost", "enforce"}) /\ UNCHANGED server
    BY <1>14, <2>1 DEF Conclude
  <2>. QED
    BY <2>1, <2>2, <2>3, RenewalTouchesNoOwner, MoveIsPrompt
<1>15. ASSUME NEW s \in Server, NEW r \in Run, Consent(s, r)
      PROVE  PromptInv'
  BY <1>15, RowsUntouched, MoveIsPrompt DEF Consent, At
<1>16. ASSUME NEW s \in Server, NEW r \in Run, Refuse(s, r)
      PROVE  PromptInv'
  <2>1. (\E pc : Goto(s, r, pc) /\ pc \notin {"idle", "lost", "enforce"}) /\ UNCHANGED <<worker, server>>
    BY <1>16 DEF Refuse
  <2>2. job[s][r].pc \notin {"idle", "done"}
    BY <1>16 DEF Refuse, At
  <2>. QED
    BY <2>1, <2>2, RowsUntouched, MoveIsPrompt
<1>17. ASSUME NEW s \in Server, NEW r \in Run, Refused(s, r)
      PROVE  PromptInv'
  BY <1>17, RowsUntouched, MoveIsPrompt DEF Refused, At
<1>18. ASSUME NEW s \in Server, NEW r \in Run, CheckApproved(s, r)
      PROVE  PromptInv'
  BY <1>18, RowsUntouched, MoveIsPrompt DEF CheckApproved, At
<1>19. ASSUME NEW s \in Server, NEW r \in Run, Apply(s, r)
      PROVE  PromptInv'
  BY <1>19, RowsUntouched, MoveIsPrompt DEF Apply, At
<1>20. ASSUME NEW s \in Server, NEW r \in Run, Fail(s, r)
      PROVE  PromptInv'
  BY <1>20, RowsUntouched, MoveIsPrompt DEF Fail, At
<1>21. ASSUME NEW s \in Server, NEW r \in Run, EnforceRead(s, r)
      PROVE  PromptInv'
  BY <1>21 DEF EnforceRead, At, PromptInv
<1>22. ASSUME NEW s \in Server, NEW r \in Run, EnforceWrite(s, r)
      PROVE  PromptInv'
  BY <1>22 DEF EnforceWrite, At, PromptInv
<1>23. ASSUME NEW s \in Server, NEW r \in Run, Close(s, r)
      PROVE  PromptInv'
  <2>1. FinishClaim(s, r, TRUE) /\ Goto(s, r, "done") /\ UNCHANGED server /\ job[s][r].pc = "close"
    BY <1>23 DEF Close, At
  <2>. QED
    BY <2>1, FinishIsPrompt
<1>24. ASSUME NEW s \in Server, NEW r \in Run, CloseFails(s, r)
      PROVE  PromptInv'
  <2>1. FinishClaim(s, r, FALSE) /\ Goto(s, r, "done") /\ UNCHANGED server /\ job[s][r].pc = "close"
    BY <1>24 DEF CloseFails, At
  <2>. QED
    BY <2>1, FinishIsPrompt
<1>25. ASSUME NEW s \in Server, NEW r \in Run, CloseUnrecorded(s, r)
      PROVE  PromptInv'
  BY <1>25, RowsUntouched, MoveIsPrompt DEF CloseUnrecorded, At
<1>26. ASSUME NEW s \in Server, NEW r \in Run, JobDone(s, r)
      PROVE  PromptInv'
  <2>1. \A z \in Server, q \in Run : job'[z][q].pc \in {"idle", job[z][q].pc}
    BY <1>26 DEF JobDone, TypeOK, Idle
  <2>2. UNCHANGED worker /\ \A z \in Server : server'[z] = "down" =>
           server[z] = "down" \/ \A q \in Run : job'[z][q].pc = "idle"
    BY <1>26 DEF JobDone, TypeOK, Idle
  <2>. QED
    BY <2>1, <2>2 DEF PromptInv, Owns, Holder
<1>27. ASSUME NEW r \in Run, LeaseAbandoned(r)
      PROVE  PromptInv'
  <2>1. /\ worker' = [worker EXCEPT ![r].expired = TRUE] /\ UNCHANGED <<server, job>>
        /\ worker[r].state = "active" /\ Holder(r) \in Server
    BY <1>27 DEF LeaseAbandoned, LeaseExpires, PromptInv
  <2>2. job[Holder(r)][r].pc = "idle"
    BY <1>27, <2>1 DEF LeaseAbandoned, PromptInv
  <2>3. /\ \A q \in Run : worker'[q].owner = worker[q].owner /\ worker'[q].state = worker[q].state
        /\ \A q \in Run : q # r => worker'[q] = worker[q]
    BY <2>1 DEF TypeOK, WorkerRows
  <2>. QED
    BY <2>1, <2>2, <2>3 DEF PromptInv, Owns, Holder
<1>28. ASSUME NEW r \in Run, LeaseOverrun(r)
      PROVE  PromptInv'
  BY <1>28 DEF LeaseOverrun
<1>29. ASSUME NEW s \in Server, NEW r \in Run, Renew(s, r)
      PROVE  PromptInv'
  BY <1>29, RenewalTouchesNoOwner, StandstillIsPrompt DEF Renew
<1>30. ASSUME NEW s \in Server, NEW r \in Run, Recover(s, r)
      PROVE  PromptInv'
  BY <1>30, RecoveryIsPrompt
<1>31. ASSUME NEW s \in Server, Shutdown(s)
      PROVE  PromptInv'
  <2>1. \A z \in Server : server'[z] = "down" => server[z] = "down"
    BY <1>31 DEF Shutdown, TypeOK
  <2>. QED
    BY <1>31, <2>1 DEF Shutdown, PromptInv, Owns, Holder
<1>32. ASSUME NEW s \in Server, NEW r \in Run, DropQueued(s, r)
      PROVE  PromptInv'
  BY <1>32, RowsUntouched, MoveIsPrompt DEF DropQueued, At
<1>33. ASSUME NEW s \in Server, Crash(s)
      PROVE  PromptInv'
  <2>1. \A z \in Server, q \in Run : job'[z][q].pc \in {"idle", job[z][q].pc}
    BY <1>33 DEF Crash, TypeOK, Idle
  <2>2. UNCHANGED worker /\ \A z \in Server : server'[z] = "down" =>
           server[z] = "down" \/ \A q \in Run : job'[z][q].pc = "idle"
    BY <1>33 DEF Crash, TypeOK, Idle
  <2>. QED
    BY <2>1, <2>2 DEF PromptInv, Owns, Holder
<1>34. ASSUME NEW r \in Run, Cancel(r)
      PROVE  PromptInv'
  BY <1>34, RowsUntouched, StandstillIsPrompt DEF Cancel
<1>35. ASSUME NEW r \in Run, RecordCancel(r)
      PROVE  PromptInv'
  BY <1>35, RowsUntouched, StandstillIsPrompt DEF RecordCancel
<1>36. CASE UNCHANGED vars
  BY <1>36, RowsUntouched, StandstillIsPrompt DEF vars
<1>. QED
  BY <1>1, <1>2, <1>3, <1>4, <1>5, <1>6, <1>7, <1>8, <1>9, <1>10, <1>11, <1>12,
     <1>13, <1>14, <1>15, <1>16, <1>17, <1>18, <1>19, <1>20, <1>21, <1>22, <1>23, <1>24,
     <1>25, <1>26, <1>27, <1>28, <1>29, <1>30, <1>31, <1>32, <1>33, <1>34, <1>35, <1>36 DEF Next, Execute

LEMMA PromptAlways ==
  ASSUME MaySuspend = {}
  PROVE  Spec => []PromptInv
<1>1. Init => PromptInv
  BY DEF Init, NoWorker, Idle, PromptInv
<1>2. TypeOK /\ PromptInv /\ [Next]_vars => PromptInv'
  BY PromptStep
<1>. QED
  BY TypeCorrect, <1>1, <1>2, PTL DEF Spec

\* What a step does to a saved approval.
ApprovalKept ==
    \A q \in Run : status[q] = "requires_confirmation" =>
        status'[q] \in {"requires_confirmation", "running", "cancelled"}

LEMMA FailureTells ==
  ASSUME TypeOK, InterruptionShown, NEW r \in Run, NEW st, MarkFailed(r, st)
  PROVE  InterruptionShown' /\ ApprovalKept
<1>1. CASE status[r] \in Active
  BY <1>1 DEF MarkFailed, InterruptionShown, ApprovalKept, TypeOK, Active
<1>2. CASE status[r] \notin Active
  BY <1>2 DEF MarkFailed, InterruptionShown, ApprovalKept
<1>. QED
  BY <1>1, <1>2

LEMMA SilenceTells ==
  ASSUME InterruptionShown, UNCHANGED <<status, shown>>
  PROVE  InterruptionShown' /\ ApprovalKept
BY DEF InterruptionShown, ApprovalKept

LEMMA TellingStep ==
  ASSUME MaySuspend = {}, TypeOK, ExecInv, PromptInv, InterruptionShown, [Next]_vars
  PROVE  InterruptionShown' /\ ApprovalKept
<1>1. ASSUME NEW s \in Server, NEW r \in Run, SubmitStart(s, r)
      PROVE  InterruptionShown' /\ ApprovalKept
  BY <1>1, SilenceTells DEF SubmitStart
<1>2. ASSUME NEW s \in Server, NEW r \in Run, SubmitSettled(s, r)
      PROVE  InterruptionShown' /\ ApprovalKept
  BY <1>2 DEF SubmitSettled, InterruptionShown, ApprovalKept, TypeOK
<1>3. ASSUME NEW s \in Server, NEW r \in Run, NEW t \in 0..MaxTurns, SubmitConfirm(s, r, t)
      PROVE  InterruptionShown' /\ ApprovalKept
  BY <1>3, SilenceTells DEF SubmitConfirm
<1>4. ASSUME NEW s \in Server, SubmitCommit(s)
      PROVE  InterruptionShown' /\ ApprovalKept
  BY <1>4, SilenceTells DEF SubmitCommit
<1>5. ASSUME NEW s \in Server, SubmitUnscheduled(s)
      PROVE  InterruptionShown' /\ ApprovalKept
  <2>1. submit[s].run \in Run
    BY DEF TypeOK, Submits
  <2>. QED
    BY <1>5, <2>1, FailureTells DEF SubmitUnscheduled
<1>6. ASSUME NEW s \in Server, SubmitGiveUp(s)
      PROVE  InterruptionShown' /\ ApprovalKept
  BY <1>6, SilenceTells DEF SubmitGiveUp
<1>7. ASSUME NEW s \in Server, NEW r \in Run, JobStart(s, r)
      PROVE  InterruptionShown' /\ ApprovalKept
  BY <1>7, SilenceTells DEF JobStart
<1>8. ASSUME NEW s \in Server, NEW r \in Run, StreamClaim(s, r)
      PROVE  InterruptionShown' /\ ApprovalKept
  BY <1>8 DEF StreamClaim, InterruptionShown, ApprovalKept, TypeOK
<1>9. ASSUME NEW s \in Server, NEW r \in Run, ProposeTool(s, r)
      PROVE  InterruptionShown' /\ ApprovalKept
  BY <1>9, SilenceTells DEF ProposeTool
<1>10. ASSUME NEW s \in Server, NEW r \in Run, Tool(s, r)
      PROVE  InterruptionShown' /\ ApprovalKept
  BY <1>10, SilenceTells DEF Tool
<1>11. ASSUME NEW s \in Server, NEW r \in Run, AskApproval(s, r)
      PROVE  InterruptionShown' /\ ApprovalKept
  <2>1. status[r] # "requires_confirmation"
    BY <1>11 DEF AskApproval, At, ExecInv, Executing, Waiting
  <2>2. /\ UNCHANGED shown
        /\ \E st \in Outcomes \cup {"requires_confirmation"} : status' \in {status, [status EXCEPT ![r] = st]}
    BY <1>11 DEF AskApproval, FinishRun
  <2>. QED
    BY <2>1, <2>2 DEF Outcomes, InterruptionShown, ApprovalKept, TypeOK
<1>12. ASSUME NEW s \in Server, NEW r \in Run, Finish(s, r)
      PROVE  InterruptionShown' /\ ApprovalKept
  <2>1. status[r] # "requires_confirmation"
    BY <1>12 DEF Finish, At, ExecInv, Executing, Waiting
  <2>2. /\ UNCHANGED shown
        /\ \E st \in Outcomes \cup {"requires_confirmation"} : status' \in {status, [status EXCEPT ![r] = st]}
    BY <1>12 DEF Finish, FinishRun
  <2>. QED
    BY <2>1, <2>2 DEF Outcomes, InterruptionShown, ApprovalKept, TypeOK
<1>13. ASSUME NEW s \in Server, NEW r \in Run, Raise(s, r)
      PROVE  InterruptionShown' /\ ApprovalKept
  BY <1>13, SilenceTells DEF Raise
<1>14. ASSUME NEW s \in Server, NEW r \in Run, Conclude(s, r)
      PROVE  InterruptionShown' /\ ApprovalKept
  <2>1. UNCHANGED status /\ shown' \in {shown, [shown EXCEPT ![r] = status[r]]}
    BY <1>14 DEF Conclude
  <2>. QED
    BY <2>1 DEF InterruptionShown, ApprovalKept, TypeOK
<1>15. ASSUME NEW s \in Server, NEW r \in Run, Consent(s, r)
      PROVE  InterruptionShown' /\ ApprovalKept
  BY <1>15 DEF Consent, InterruptionShown, ApprovalKept, TypeOK
<1>16. ASSUME NEW s \in Server, NEW r \in Run, Refuse(s, r)
      PROVE  InterruptionShown' /\ ApprovalKept
  BY <1>16, SilenceTells DEF Refuse
<1>17. ASSUME NEW s \in Server, NEW r \in Run, Refused(s, r)
      PROVE  InterruptionShown' /\ ApprovalKept
  BY <1>17, SilenceTells DEF Refused
<1>18. ASSUME NEW s \in Server, NEW r \in Run, CheckApproved(s, r)
      PROVE  InterruptionShown' /\ ApprovalKept
  BY <1>18, SilenceTells DEF CheckApproved
<1>19. ASSUME NEW s \in Server, NEW r \in Run, Apply(s, r)
      PROVE  InterruptionShown' /\ ApprovalKept
  BY <1>19, SilenceTells DEF Apply
<1>20. ASSUME NEW s \in Server, NEW r \in Run, Fail(s, r)
      PROVE  InterruptionShown' /\ ApprovalKept
  BY <1>20, FailureTells, SilenceTells DEF Fail
<1>21. ASSUME NEW s \in Server, NEW r \in Run, EnforceRead(s, r)
      PROVE  InterruptionShown' /\ ApprovalKept
  BY <1>21, SilenceTells DEF EnforceRead
<1>22. ASSUME NEW s \in Server, NEW r \in Run, EnforceWrite(s, r)
      PROVE  InterruptionShown' /\ ApprovalKept
  BY <1>22 DEF EnforceWrite, At, PromptInv
<1>23. ASSUME NEW s \in Server, NEW r \in Run, Close(s, r)
      PROVE  InterruptionShown' /\ ApprovalKept
  BY <1>23, FailureTells, SilenceTells DEF Close, FinishClaim
<1>24. ASSUME NEW s \in Server, NEW r \in Run, CloseFails(s, r)
      PROVE  InterruptionShown' /\ ApprovalKept
  BY <1>24, FailureTells, SilenceTells DEF CloseFails, FinishClaim
<1>25. ASSUME NEW s \in Server, NEW r \in Run, CloseUnrecorded(s, r)
      PROVE  InterruptionShown' /\ ApprovalKept
  BY <1>25, SilenceTells DEF CloseUnrecorded
<1>26. ASSUME NEW s \in Server, NEW r \in Run, JobDone(s, r)
      PROVE  InterruptionShown' /\ ApprovalKept
  BY <1>26, SilenceTells DEF JobDone
<1>27. ASSUME NEW r \in Run, LeaseAbandoned(r)
      PROVE  InterruptionShown' /\ ApprovalKept
  BY <1>27, SilenceTells DEF LeaseAbandoned, LeaseExpires
<1>28. ASSUME NEW r \in Run, LeaseOverrun(r)
      PROVE  InterruptionShown' /\ ApprovalKept
  BY <1>28 DEF LeaseOverrun
<1>29. ASSUME NEW s \in Server, NEW r \in Run, Renew(s, r)
      PROVE  InterruptionShown' /\ ApprovalKept
  BY <1>29, SilenceTells DEF Renew
<1>30. ASSUME NEW s \in Server, NEW r \in Run, Recover(s, r)
      PROVE  InterruptionShown' /\ ApprovalKept
  BY <1>30, FailureTells DEF Recover
<1>31. ASSUME NEW s \in Server, Shutdown(s)
      PROVE  InterruptionShown' /\ ApprovalKept
  BY <1>31, SilenceTells DEF Shutdown
<1>32. ASSUME NEW s \in Server, NEW r \in Run, DropQueued(s, r)
      PROVE  InterruptionShown' /\ ApprovalKept
  BY <1>32, FailureTells, SilenceTells DEF DropQueued
<1>33. ASSUME NEW s \in Server, Crash(s)
      PROVE  InterruptionShown' /\ ApprovalKept
  BY <1>33, SilenceTells DEF Crash
<1>34. ASSUME NEW r \in Run, Cancel(r)
      PROVE  InterruptionShown' /\ ApprovalKept
  BY <1>34 DEF Cancel, InterruptionShown, ApprovalKept, TypeOK
<1>35. ASSUME NEW r \in Run, RecordCancel(r)
      PROVE  InterruptionShown' /\ ApprovalKept
  BY <1>35 DEF RecordCancel, InterruptionShown, ApprovalKept, TypeOK
<1>36. CASE UNCHANGED vars
  BY <1>36, SilenceTells DEF vars
<1>. QED
  BY <1>1, <1>2, <1>3, <1>4, <1>5, <1>6, <1>7, <1>8, <1>9, <1>10, <1>11, <1>12,
     <1>13, <1>14, <1>15, <1>16, <1>17, <1>18, <1>19, <1>20, <1>21, <1>22, <1>23, <1>24,
     <1>25, <1>26, <1>27, <1>28, <1>29, <1>30, <1>31, <1>32, <1>33, <1>34, <1>35, <1>36 DEF Next, Execute

LEMMA TellingAlways ==
  ASSUME MaySuspend = {}
  PROVE  Spec => []InterruptionShown
<1>1. Init => InterruptionShown
  BY DEF Init, InterruptionShown
<1>2. TypeOK /\ ExecInv /\ PromptInv /\ InterruptionShown /\ [Next]_vars => InterruptionShown'
  BY TellingStep
<1>. QED
  BY TypeCorrect, ExecAlways, PromptAlways, <1>1, <1>2, PTL DEF Spec

\* As long as no process stalls past its lease (MaySuspend is empty), every
\* interruption is in the run's journal together with its status: a crash, a
\* shutdown or a lost claim is told by _mark_failed in the transaction that
\* decides it, and the silent write of _enforce_interruption is never reached.
THEOREM InterruptionsAreTold ==
  ASSUME MaySuspend = {}
  PROVE  Spec => []InterruptionShown
BY TellingAlways

\* Under the same assumption a saved approval survives crashes, recoveries and
\* shutdowns: only confirm_run and cancel_run take a run out of
\* requires_confirmation.  (With a stall the code breaks this: see the run
\* approval_lost.)
THEOREM ApprovalsOutliveOwners ==
  ASSUME MaySuspend = {}
  PROVE  Spec => ApprovalSurvives
<1>1. TypeOK /\ ExecInv /\ PromptInv /\ InterruptionShown /\ [Next]_vars
      => [\A r \in Run : status[r] = "requires_confirmation" =>
            status'[r] \in {"requires_confirmation", "running", "cancelled"}]_vars
  BY TellingStep DEF ApprovalKept
<1>. QED
  BY TypeCorrect, ExecAlways, PromptAlways, TellingAlways, <1>1, PTL DEF Spec, ApprovalSurvives

=============================================================================
