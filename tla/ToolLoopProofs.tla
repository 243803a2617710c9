--------------------------- MODULE ToolLoopProofs ---------------------------
(* Theorems about ToolLoop for any budget and limits, any set of calls and   *)
(* modes, and any batches the model may answer with.                         *)
EXTENDS ToolLoop, FiniteSetTheorems, FunctionTheorems, SequenceTheorems, TLAPS

(* ToolLoopLedger._validate: what was charged is resolved or open. *)
Balanced(l) ==
    /\ Len(l.history) = l.used
    /\ l.used = l.succeeded + l.failed + l.rejected + l.skipped + l.pending

\* The call that was charged last.
LastCharged(l) == l.history[Len(l.history)]

-----------------------------------------------------------------------------
LEMMA SumsAre ==
  ASSUME NEW l, NEW n \in Nat,
         l.succeeded \in Nat, l.failed \in Nat, l.rejected \in Nat, l.skipped \in Nat,
         l.used = l.succeeded + l.failed + l.rejected + l.skipped + 1, l.used \in 0..n
  PROVE  /\ l.succeeded + 1 \in 0..n /\ l.failed + 1 \in 0..n
         /\ l.rejected + 1 \in 0..n /\ l.skipped + 1 \in 0..n
         /\ (l.succeeded + 1) + l.failed + l.rejected + l.skipped + 0 = l.used
         /\ l.succeeded + (l.failed + 1) + l.rejected + l.skipped + 0 = l.used
         /\ l.succeeded + l.failed + (l.rejected + 1) + l.skipped + 0 = l.used
         /\ l.succeeded + l.failed + l.rejected + (l.skipped + 1) + 0 = l.used
<1>1. l.succeeded + 1 \in 0..n
  OBVIOUS
<1>2. l.failed + 1 \in 0..n
  OBVIOUS
<1>3. l.rejected + 1 \in 0..n
  OBVIOUS
<1>4. l.skipped + 1 \in 0..n
  OBVIOUS
<1>5. (l.succeeded + 1) + l.failed + l.rejected + l.skipped + 0 = l.used
  OBVIOUS
<1>6. l.succeeded + (l.failed + 1) + l.rejected + l.skipped + 0 = l.used
  OBVIOUS
<1>7. l.succeeded + l.failed + (l.rejected + 1) + l.skipped + 0 = l.used
  OBVIOUS
<1>8. l.succeeded + l.failed + l.rejected + (l.skipped + 1) + 0 = l.used
  OBVIOUS
<1>. QED
  BY <1>1, <1>2, <1>3, <1>4, <1>5, <1>6, <1>7, <1>8

-----------------------------------------------------------------------------
(* The operations of the ledger.                                             *)

LEMMA ReservedIs ==
  ASSUME NEW l \in Ledgers, Balanced(l), l.used < Budget, l.pending = 0, NEW c \in External
  PROVE  LET r == Reserved(l, c) IN
         /\ r \in Ledgers /\ Balanced(r)
         /\ r.used = l.used + 1 /\ r.pending = 1 /\ LastCharged(r) = c /\ r.history # <<>>
         /\ r.succeeded = l.succeeded /\ r.failed = l.failed /\ r.rejected = l.rejected
         /\ r.skipped = l.skipped /\ r.omitted = l.omitted /\ r.reason = l.reason
<1>. DEFINE r == Reserved(l, c)
<1>1. r = [l EXCEPT !.used = l.used + 1, !.pending = l.pending + 1,
                    !.history = Append(l.history, c)]
  BY LoopConstants DEF Reserved, Ledgers
<1>2. l.history \in Seq(External)
  BY DEF Ledgers
<1>3. /\ Append(l.history, c) \in Seq(External)
      /\ Len(Append(l.history, c)) = Len(l.history) + 1
      /\ Append(l.history, c)[Len(l.history) + 1] = c
      /\ Append(l.history, c) # <<>>
  BY <1>2
<1>4. l.used + 1 \in 0..Budget /\ l.pending + 1 \in 0..1 /\ l.pending + 1 = 1
  BY LoopConstants DEF Ledgers
<1>5. /\ r.used = l.used + 1 /\ r.pending = l.pending + 1 /\ r.history = Append(l.history, c)
      /\ r.succeeded = l.succeeded /\ r.failed = l.failed /\ r.rejected = l.rejected
      /\ r.skipped = l.skipped /\ r.omitted = l.omitted /\ r.reason = l.reason
  BY <1>1 DEF Ledgers
<1>6. r \in Ledgers
  BY <1>1, <1>3, <1>4 DEF Ledgers
<1>. HIDE DEF r
<1>7. Len(r.history) = r.used
  BY <1>3, <1>5 DEF Balanced
<1>8. r.used = r.succeeded + r.failed + r.rejected + r.skipped + r.pending
  <2>1. /\ l.used \in Nat /\ l.succeeded \in Nat /\ l.failed \in Nat /\ l.rejected \in Nat
        /\ l.skipped \in Nat
    BY LoopConstants DEF Ledgers
  <2>. QED
    BY <1>4, <1>5, <2>1 DEF Balanced
<1>9. LastCharged(r) = c /\ r.history # <<>>
  BY <1>3, <1>5 DEF LastCharged
<1>. QED
  BY <1>4, <1>5, <1>6, <1>7, <1>8, <1>9 DEF Balanced, r

OutcomeNames == {"completed", "failed", "rejected", "skipped"}

LEMMA ResolvedIs ==
  ASSUME NEW l \in Ledgers, Balanced(l), l.pending = 1, NEW o \in OutcomeNames
  PROVE  LET r == Resolved(l, o) IN
         /\ r \in Ledgers /\ Balanced(r)
         /\ r.used = l.used /\ r.pending = 0 /\ r.history = l.history
         /\ r.omitted = l.omitted /\ r.reason = l.reason
         /\ r.succeeded = l.succeeded + (IF o = "completed" THEN 1 ELSE 0)
         /\ r.failed = l.failed + (IF o = "failed" THEN 1 ELSE 0)
         /\ r.rejected = l.rejected + (IF o = "rejected" THEN 1 ELSE 0)
         /\ r.skipped = l.skipped + (IF o = "skipped" THEN 1 ELSE 0)
<1>. DEFINE p == l.pending - 1
            a == l.succeeded + 1
            f == l.failed + 1
            j == l.rejected + 1
            k == l.skipped + 1
            r == Resolved(l, o)
<1>1. /\ l.used \in 0..Budget /\ l.succeeded \in Nat /\ l.failed \in Nat /\ l.rejected \in Nat
      /\ l.skipped \in Nat /\ Len(l.history) = l.used
      /\ l.used = l.succeeded + l.failed + l.rejected + l.skipped + 1
  BY LoopConstants DEF Ledgers, Balanced
<1>2. p = 0
  OBVIOUS
<1>3. Budget \in Nat
  BY LoopConstants
<1>4. /\ a \in 0..Budget /\ f \in 0..Budget /\ j \in 0..Budget /\ k \in 0..Budget
      /\ a + l.failed + l.rejected + l.skipped + 0 = l.used
      /\ l.succeeded + f + l.rejected + l.skipped + 0 = l.used
      /\ l.succeeded + l.failed + j + l.skipped + 0 = l.used
      /\ l.succeeded + l.failed + l.rejected + k + 0 = l.used
  BY <1>1, <1>3, SumsAre DEF a, f, j, k
<1>. DEFINE same == r \in Ledgers /\ r.used = l.used /\ r.pending = p /\ r.history = l.history
                    /\ r.omitted = l.omitted /\ r.reason = l.reason
<1>. HIDE DEF p, a, f, j, k
<1>5. CASE o = "completed"
  <2>1. r = [l EXCEPT !.pending = p, !.succeeded = a]
    BY <1>5 DEF Resolved, p, a
  <2>2. 0 \in 0..1
    OBVIOUS
  <2>3. same /\ r.succeeded = a /\ r.failed = l.failed /\ r.rejected = l.rejected /\ r.skipped = l.skipped
    BY <1>2, <1>4, <2>1, <2>2 DEF Ledgers
  <2>. HIDE DEF r
  <2>4. Balanced(r)
    BY <1>1, <1>2, <1>4, <2>3 DEF Balanced
  <2>5. l.succeeded + 0 = l.succeeded /\ l.failed + 0 = l.failed
        /\ l.rejected + 0 = l.rejected /\ l.skipped + 0 = l.skipped
    BY <1>1
  <2>. QED
    BY <1>2, <1>5, <2>3, <2>4, <2>5 DEF a, r
<1>6. CASE o = "failed"
  <2>1. r = [l EXCEPT !.pending = p, !.failed = f]
    BY <1>6 DEF Resolved, p, f
  <2>2. 0 \in 0..1
    OBVIOUS
  <2>3. same /\ r.succeeded = l.succeeded /\ r.failed = f /\ r.rejected = l.rejected /\ r.skipped = l.skipped
    BY <1>2, <1>4, <2>1, <2>2 DEF Ledgers
  <2>. HIDE DEF r
  <2>4. Balanced(r)
    BY <1>1, <1>2, <1>4, <2>3 DEF Balanced
  <2>5. l.succeeded + 0 = l.succeeded /\ l.failed + 0 = l.failed
        /\ l.rejected + 0 = l.rejected /\ l.skipped + 0 = l.skipped
    BY <1>1
  <2>. QED
    BY <1>2, <1>6, <2>3, <2>4, <2>5 DEF f, r
<1>7. CASE o = "rejected"
  <2>1. r = [l EXCEPT !.pending = p, !.rejected = j]
    BY <1>7 DEF Resolved, p, j
  <2>2. 0 \in 0..1
    OBVIOUS
  <2>3. same /\ r.succeeded = l.succeeded /\ r.failed = l.failed /\ r.rejected = j /\ r.skipped = l.skipped
    BY <1>2, <1>4, <2>1, <2>2 DEF Ledgers
  <2>. HIDE DEF r
  <2>4. Balanced(r)
    BY <1>1, <1>2, <1>4, <2>3 DEF Balanced
  <2>5. l.succeeded + 0 = l.succeeded /\ l.failed + 0 = l.failed
        /\ l.rejected + 0 = l.rejected /\ l.skipped + 0 = l.skipped
    BY <1>1
  <2>. QED
    BY <1>2, <1>7, <2>3, <2>4, <2>5 DEF j, r
<1>8. CASE o = "skipped"
  <2>1. r = [l EXCEPT !.pending = p, !.skipped = k]
    BY <1>8 DEF Resolved, p, k
  <2>2. 0 \in 0..1
    OBVIOUS
  <2>3. same /\ r.succeeded = l.succeeded /\ r.failed = l.failed /\ r.rejected = l.rejected /\ r.skipped = k
    BY <1>2, <1>4, <2>1, <2>2 DEF Ledgers
  <2>. HIDE DEF r
  <2>4. Balanced(r)
    BY <1>1, <1>2, <1>4, <2>3 DEF Balanced
  <2>5. l.succeeded + 0 = l.succeeded /\ l.failed + 0 = l.failed
        /\ l.rejected + 0 = l.rejected /\ l.skipped + 0 = l.skipped
    BY <1>1
  <2>. QED
    BY <1>2, <1>8, <2>3, <2>4, <2>5 DEF k, r
<1>. QED
  BY <1>5, <1>6, <1>7, <1>8 DEF OutcomeNames

-----------------------------------------------------------------------------
(* Counting the external calls of a batch.                                   *)

LEMMA CountOfNone == ExternalCount(<<>>) = 0
<1>1. {i \in DOMAIN <<>> : <<>>[i] # PlanCall} = {}
  OBVIOUS
<1>. QED
  BY <1>1, FS_EmptySet DEF ExternalCount

LEMMA CountIsNat ==
  ASSUME NEW q \in Seq(Calls)
  PROVE  ExternalCount(q) \in Nat
<1>1. IsFiniteSet(1..Len(q)) /\ DOMAIN q = 1..Len(q)
  BY FS_Interval
<1>2. IsFiniteSet({i \in DOMAIN q : q[i] # PlanCall})
  BY <1>1, FS_Subset
<1>. QED
  BY <1>2, FS_CardinalityType DEF ExternalCount

LEMMA CountOfHead ==
  ASSUME NEW q \in Seq(Calls), q # <<>>
  PROVE  /\ Head(q) \in Calls /\ Tail(q) \in Seq(Calls)
         /\ ExternalCount(q) = ExternalCount(Tail(q)) + (IF Head(q) = PlanCall THEN 0 ELSE 1)
<1>. DEFINE n == Len(q)
            A == {i \in DOMAIN q : q[i] # PlanCall}
            B == {i \in DOMAIN Tail(q) : Tail(q)[i] # PlanCall}
            f == [i \in B |-> i + 1]
<1>1. /\ n \in Nat \ {0} /\ DOMAIN q = 1..n
      /\ Head(q) = q[1] /\ Head(q) \in Calls
      /\ Tail(q) \in Seq(Calls) /\ DOMAIN Tail(q) = 1..(n - 1)
      /\ \A i \in 1..(n - 1) : Tail(q)[i] = q[i + 1]
  BY HeadTailProperties, LenProperties, EmptySeq
<1>2. f \in Bijection(B, A \ {1})
  <2>1. f \in [B -> A \ {1}]
    BY <1>1
  <2>2. \A i, j \in B : f[i] = f[j] => i = j
    BY <1>1
  <2>3. \A j \in A \ {1} : \E i \in B : f[i] = j
    <3>. TAKE j \in A \ {1}
    <3>1. j - 1 \in B /\ f[j - 1] = j
      BY <1>1
    <3>. QED
      BY <3>1
  <2>. HIDE DEF f, A, B
  <2>. QED
    BY <2>1, <2>2, <2>3, Fun_IsBij
<1>3. IsFiniteSet(A) /\ IsFiniteSet(B)
  <2>1. IsFiniteSet(1..n) /\ IsFiniteSet(1..(n - 1))
    BY <1>1, FS_Interval
  <2>. QED
    BY <1>1, <2>1, FS_Subset
<1>4. Cardinality(A \ {1}) = Cardinality(B)
  <2>1. ExistsBijection(B, A \ {1})
    BY <1>2 DEF ExistsBijection
  <2>. HIDE DEF A, B
  <2>. QED
    BY <1>3, <2>1, FS_Bijection
<1>5. Cardinality(A \ {1}) = IF 1 \in A THEN Cardinality(A) - 1 ELSE Cardinality(A)
  <2>. HIDE DEF A
  <2>. QED
    BY <1>3, FS_RemoveElement
<1>6. Cardinality(A) \in Nat
  <2>. HIDE DEF A
  <2>. QED
    BY <1>3, FS_CardinalityType
<1>7. 1 \in A <=> Head(q) # PlanCall
  BY <1>1
<1>8. ExternalCount(q) = Cardinality(A) /\ ExternalCount(Tail(q)) = Cardinality(B)
  BY DEF ExternalCount
<1>. HIDE DEF A, B, f
<1>. QED
  BY <1>1, <1>4, <1>5, <1>6, <1>7, <1>8

LEMMA ReasonIs ==
  ASSUME NEW l \in Ledgers, Balanced(l), NEW x \in Reasons
  PROVE  LET r == [l EXCEPT !.reason = x] IN
         /\ r \in Ledgers /\ Balanced(r) /\ r.reason = x
         /\ r.used = l.used /\ r.pending = l.pending /\ r.history = l.history
         /\ r.omitted = l.omitted /\ r.succeeded = l.succeeded /\ r.failed = l.failed
         /\ r.rejected = l.rejected /\ r.skipped = l.skipped
BY DEF Ledgers, Balanced

LEMMA OmittedIs ==
  ASSUME NEW l \in Ledgers, Balanced(l), NEW n \in Nat
  PROVE  LET r == [l EXCEPT !.omitted = @ + n] IN
         /\ r \in Ledgers /\ Balanced(r) /\ r.omitted = l.omitted + n
         /\ r.used = l.used /\ r.pending = l.pending /\ r.history = l.history
         /\ r.reason = l.reason /\ r.succeeded = l.succeeded /\ r.failed = l.failed
         /\ r.rejected = l.rejected /\ r.skipped = l.skipped
<1>. DEFINE m == l.omitted + n
            r == [l EXCEPT !.omitted = m]
<1>1. m \in Nat
  BY DEF Ledgers
<1>. HIDE DEF m
<1>2. /\ r \in Ledgers /\ r.omitted = m
      /\ r.used = l.used /\ r.pending = l.pending /\ r.history = l.history
      /\ r.reason = l.reason /\ r.succeeded = l.succeeded /\ r.failed = l.failed
      /\ r.rejected = l.rejected /\ r.skipped = l.skipped
  BY <1>1 DEF Ledgers
<1>3. Balanced(r)
  BY <1>2 DEF Balanced
<1>. QED
  BY <1>2, <1>3 DEF m

\* Every field is a number where it should be.
LEMMA LedgerFields ==
  ASSUME NEW l \in Ledgers
  PROVE  /\ l.used \in 0..Budget /\ l.pending \in 0..1 /\ l.omitted \in Nat /\ l.reason \in Reasons
         /\ l.succeeded \in Nat /\ l.failed \in Nat /\ l.rejected \in Nat /\ l.skipped \in Nat
         /\ l.history \in Seq(External)
BY LoopConstants DEF Ledgers

LEMMA OpenIsCharged ==
  ASSUME NEW l \in Ledgers, Balanced(l), l.pending = 1
  PROVE  l.used \in 1..Budget
<1>1. /\ l.used \in 0..Budget /\ l.succeeded \in Nat /\ l.failed \in Nat /\ l.rejected \in Nat
      /\ l.skipped \in Nat /\ l.used = l.succeeded + l.failed + l.rejected + l.skipped + 1
  BY LedgerFields DEF Balanced
<1>2. l.used >= 1 /\ l.used <= Budget /\ l.used \in Nat
  BY <1>1, LoopConstants
<1>. QED
  BY <1>2, LoopConstants

LEMMA RecordedIs ==
  ASSUME control \in Controls, transcript \in Transcripts, NEW c \in Calls, NEW told \in BOOLEAN
  PROVE  LET r == Recorded(c, told) IN
         /\ r \in Transcripts
         /\ r.plans = IF c = PlanCall /\ transcript.plans < PlanLimit THEN transcript.plans + 1
                      ELSE transcript.plans
         /\ r.last = control.model
         /\ (transcript.sorted /\ control.model >= transcript.last) => r.sorted
         /\ r.open = IF told THEN None ELSE c
BY LoopConstants DEF Recorded, Transcripts, Controls

-----------------------------------------------------------------------------
(* Where the loop is: what is left of the batch, and which reservation is    *)
(* open.                                                                     *)

Charged   == {"check", "handle", "result", "wait", "approved", "applying", "applied"}
Consented == {"approved", "applying", "applied"}
Between   == {"top", "ask", "calls", "leave", "raised"}

Placed ==
    /\ phase # "idle" => status \in {"running"} \cup Stopped
    /\ phase \in {"top", "ask", "leave", "end", "raised"} => queue = <<>>
    /\ phase \in Charged => /\ queue # <<>> /\ Head(queue) \in External
                            /\ ledger.pending = 1 /\ LastCharged(ledger) = Head(queue)
    /\ phase \in Consented => Tail(queue) = <<>>
    /\ phase \in Between => ledger.pending = 0
    /\ phase \in Between \cup (Charged \ Consented) => ledger.reason # "waiting_confirmation"
    /\ phase = "end" => ledger.pending = IF ledger.reason = "waiting_confirmation" THEN 1 ELSE 0

Flow == TypeOK /\ Placed

LEMMA FlowInit == Init => Flow
<1>. SUFFICES ASSUME Init PROVE Flow
  OBVIOUS
<1>1. NewLedger \in Ledgers /\ NewLedger.reason = "in_progress" /\ NewLedger.pending = 0
      /\ NewLedger.history = <<>> /\ NewLedger.used = 0 /\ Balanced(NewLedger)
  BY LoopConstants DEF NewLedger, Ledgers, Reasons, Balanced
<1>2. NewControl \in Controls /\ NewTranscript \in Transcripts
  BY LoopConstants DEF NewControl, NewTranscript, Controls, Transcripts
<1>3. NoCheckpoint \in Checkpoints
  BY <1>1, <1>2 DEF NoCheckpoint, Checkpoints, Calls
<1>4. mode \in [dry : BOOLEAN, ahead : BOOLEAN, companion : BOOLEAN, planning : BOOLEAN]
  BY LoopConstants DEF Init
<1>5. TypeOK
  <2>1. <<>> \in Seq(Calls) /\ <<>> \in Seq([call : Calls, slot : 1 .. Budget])
    OBVIOUS
  <2>2. ledger \in Ledgers /\ Balanced(ledger) /\ receipt \in Ledgers \cup {NoReceipt}
    BY <1>1 DEF Init
  <2>. QED
    BY <1>2, <1>3, <1>4, <2>1, <2>2 DEF Init, TypeOK, Statuses, Phases, Balanced
<1>6. Placed
  BY <1>1 DEF Init, Placed, Between, Charged, Consented
<1>. QED
  BY <1>5, <1>6 DEF Flow

LEMMA FlowNow ==
  ASSUME Flow
  PROVE  /\ ledger \in Ledgers /\ Balanced(ledger)
         /\ control \in Controls /\ transcript \in Transcripts /\ checkpoint \in Checkpoints
         /\ queue \in Seq(Calls)
         /\ queue # <<>> => /\ Head(queue) \in Calls /\ Tail(queue) \in Seq(Calls)
                            /\ (Head(queue) # PlanCall => Head(queue) \in External)
         /\ control.model \in 0..ModelLimit /\ control.plan \in 0..PlanLimit
BY DEF Flow, TypeOK, Balanced, Controls, Calls

\* A step that moves to another phase and changes nothing it depends on.
LEMMA FlowMoves ==
  ASSUME Flow, UNCHANGED <<rowVars, queue, ledger, control, transcript, mode, resumed, effects,
                           asked, proposed, confirms, fallback>>,
         stop' \in BOOLEAN, refused' \in BOOLEAN,
         \/ phase' = phase
         \/ phase' = "idle"
         \/ phase = "ask" /\ phase' = "raised"
         \/ phase = "calls" /\ queue = <<>> /\ phase' = "top"
         \/ phase = "check" /\ phase' = "handle"
         \/ phase = "approved" /\ phase' = "applying"
  PROVE  Flow'
<1>1. TypeOK'
  BY DEF Flow, TypeOK, rowVars, Phases
<1>2. Placed'
  BY DEF Flow, TypeOK, Placed, rowVars, Between, Charged, Consented
<1>. QED
  BY <1>1, <1>2 DEF Flow

\* A step of the loop between two calls, which leaves only the ledger's
\* reason and its omissions changed.
LEMMA FlowBetween ==
  ASSUME Flow, phase \in Between, phase' \in Between,
         ledger' \in Ledgers, Balanced(ledger'), ledger'.pending = 0,
         ledger'.reason # "waiting_confirmation",
         control' \in Controls, transcript' \in Transcripts, queue' \in Seq(Calls),
         phase' # "calls" => queue' = <<>>,
         revision' \in Nat, stop' \in BOOLEAN, refused' \in BOOLEAN,
         asked' \in Nat, proposed' \in Nat, receipt' \in Ledgers \cup {NoReceipt},
         UNCHANGED <<status, checkpoint, mode, resumed, effects, confirms, fallback>>
  PROVE  Flow'
<1>1. TypeOK'
  BY DEF Flow, TypeOK, Balanced, Phases, Between
<1>2. Placed'
  BY DEF Flow, TypeOK, Placed, Between, Charged, Consented
<1>. QED
  BY <1>1, <1>2 DEF Flow

LEMMA FlowAsk == ASSUME Flow, AskModel PROVE Flow'
<1>1. PICK x \in Reasons : x # "waiting_confirmation" /\ ledger' = [ledger EXCEPT !.reason = x]
  <2>1. ledger.reason \in Reasons /\ ledger.reason # "waiting_confirmation"
    BY FlowNow, LedgerFields DEF AskModel, Flow, Placed, Between
  <2>2. \/ ledger' = [ledger EXCEPT !.reason = "iteration_limit"]
        \/ ledger' = [ledger EXCEPT !.reason = "duplicate_guard"]
        \/ ledger' = [ledger EXCEPT !.reason = "tool_budget"]
        \/ ledger' = [ledger EXCEPT !.reason = ledger.reason]
    BY DEF AskModel
  <2>. QED
    BY <2>1, <2>2 DEF Reasons
<1>2. /\ ledger' \in Ledgers /\ Balanced(ledger') /\ ledger'.pending = ledger.pending
      /\ ledger'.reason # "waiting_confirmation"
  BY <1>1, FlowNow, ReasonIs
<1>3. control' \in Controls
  <2>1. control.model + 1 \in 0..ModelLimit
    BY FlowNow, LoopConstants DEF AskModel
  <2>. QED
    BY <2>1, FlowNow DEF AskModel, Controls
<1>4. phase = "top" /\ phase' = "ask" /\ queue = <<>> /\ ledger.pending = 0
  BY DEF AskModel, Flow, Placed, Between
<1>. QED
  BY <1>2, <1>3, <1>4, FlowBetween
     DEF AskModel, rowVars, flowVars, Flow, TypeOK, Between

LEMMA FlowAnswer == ASSUME Flow, NEW batch \in Batches, Answer(batch) PROVE Flow'
<1>1. batch \in Seq(Calls)
  BY LoopConstants, SeqDef DEF Batches
<1>2. ExternalCount(batch) \in Nat
  BY <1>1, CountIsNat
<1>3. phase = "ask" /\ queue = <<>> /\ ledger.pending = 0 /\ ledger.reason # "waiting_confirmation"
  BY DEF Answer, Flow, Placed, Between
<1>4. /\ ledger' \in Ledgers /\ Balanced(ledger') /\ ledger'.pending = 0
      /\ ledger'.reason # "waiting_confirmation"
  <2>1. CASE ledger' = Omitting(ledger, batch)
    BY <1>2, <1>3, <2>1, FlowNow, OmittedIs DEF Omitting
  <2>2. CASE \E x \in {"tool_budget", "model_finished"} : ledger' = [ledger EXCEPT !.reason = x]
    <3>1. PICK x \in {"tool_budget", "model_finished"} : ledger' = [ledger EXCEPT !.reason = x]
      BY <2>2
    <3>2. x \in Reasons /\ x # "waiting_confirmation"
      BY DEF Reasons
    <3>. QED
      BY <1>3, <3>1, <3>2, FlowNow, ReasonIs
  <2>3. CASE ledger' = ledger
    BY <1>3, <2>3, FlowNow
  <2>. QED
    BY <2>1, <2>2, <2>3 DEF Answer
<1>5. phase' \in {"leave", "calls"} /\ queue' \in Seq(Calls) /\ (phase' # "calls" => queue' = <<>>)
  BY <1>1, <1>3, FlowNow DEF Answer
<1>6. proposed' \in Nat
  BY <1>2 DEF Answer, Flow, TypeOK
<1>. QED
  BY <1>3, <1>4, <1>5, <1>6, FlowBetween
     DEF Answer, rowVars, Flow, TypeOK, Between


\* What is known of the call the loop looks at.
LEMMA FlowLooks ==
  ASSUME Flow, NEW c \in Calls, Looking(c)
  PROVE  /\ phase = "calls" /\ queue # <<>> /\ Head(queue) = c /\ Tail(queue) \in Seq(Calls)
         /\ status = "running"
         /\ ledger.pending = 0 /\ ledger.reason # "waiting_confirmation"
BY FlowNow DEF Looking, Heeded, Flow, Placed, Between

LEMMA FlowPlan == ASSUME Flow, SkipPlan \/ RefusePlan \/ UpdatePlan PROVE Flow'
<1>1. PlanCall \in Calls
  BY DEF Calls
<1>2. Looking(PlanCall)
  BY DEF SkipPlan, RefusePlan, UpdatePlan
<1>3. queue' = Tail(queue) /\ phase' = phase /\ ledger' = ledger
  BY DEF SkipPlan, RefusePlan, UpdatePlan, accountVars
<1>4. transcript' \in Transcripts
  BY <1>1, FlowNow, RecordedIs DEF SkipPlan, RefusePlan, UpdatePlan, accountVars
<1>5. control' \in Controls
  <2>1. CASE UpdatePlan
    <3>1. control.plan + 1 \in 0..PlanLimit
      BY <2>1, FlowNow, LoopConstants DEF UpdatePlan
    <3>. QED
      BY <2>1, <3>1, FlowNow DEF UpdatePlan, Controls
  <2>. QED
    BY <2>1, FlowNow DEF SkipPlan, RefusePlan, accountVars
<1>6. revision' \in Nat
  <2>1. revision \in Nat /\ revision + 1 \in Nat
    BY DEF Flow, TypeOK
  <2>2. revision' \in {revision, revision + 1}
    BY DEF SkipPlan, RefusePlan, UpdatePlan, rowVars
  <2>. QED
    BY <2>1, <2>2
<1>7. /\ stop' \in BOOLEAN /\ refused' \in BOOLEAN
      /\ asked' \in Nat /\ proposed' \in Nat /\ receipt' \in Ledgers \cup {NoReceipt}
      /\ UNCHANGED <<status, checkpoint, mode, resumed, effects, confirms, fallback>>
  BY DEF SkipPlan, RefusePlan, UpdatePlan, rowVars, flowVars, historyVars, Flow, TypeOK
<1>. QED
  BY <1>1, <1>2, <1>3, <1>4, <1>5, <1>6, <1>7, FlowBetween, FlowLooks, FlowNow DEF Between

LEMMA FlowOmit == ASSUME Flow, OmitOverBudget PROVE Flow'
<1>1. PICK c \in External : Looking(c)
  BY DEF OmitOverBudget
<1>2. ledger' = [ledger EXCEPT !.omitted = @ + 1] /\ 1 \in Nat
  BY DEF OmitOverBudget
<1>3. ledger' \in Ledgers /\ Balanced(ledger') /\ ledger'.pending = 0
      /\ ledger'.reason # "waiting_confirmation"
  BY <1>1, <1>2, FlowNow, FlowLooks, OmittedIs DEF Calls
<1>. QED
  BY <1>1, <1>3, FlowLooks, FlowNow, FlowBetween
     DEF OmitOverBudget, rowVars, flowVars, historyVars, Flow, TypeOK, Between, Calls

LEMMA FlowRepetition == ASSUME Flow, StopRepetition PROVE Flow'
<1>1. PICK c \in External : Looking(c)
  BY DEF StopRepetition, Considered
<1>2. ledger' = [ledger EXCEPT !.omitted = @ + ExternalCount(queue)] /\ ExternalCount(queue) \in Nat
  BY FlowNow, CountIsNat DEF StopRepetition, Omitting
<1>3. ledger' \in Ledgers /\ Balanced(ledger') /\ ledger'.pending = 0
      /\ ledger'.reason # "waiting_confirmation"
  BY <1>1, <1>2, FlowNow, FlowLooks, OmittedIs DEF Calls
<1>4. <<>> \in Seq(Calls)
  OBVIOUS
<1>. QED
  BY <1>1, <1>3, <1>4, FlowLooks, FlowNow, FlowBetween
     DEF StopRepetition, rowVars, historyVars, Flow, TypeOK, Between, Calls

LEMMA FlowReject == ASSUME Flow, RejectInvalid PROVE Flow'
<1>1. PICK c \in InvalidCall :
          /\ Looking(c) /\ ledger.used < Budget
          /\ ledger' = Resolved(Reserved(ledger, c), "rejected")
          /\ transcript' = Recorded(c, TRUE)
  BY DEF RejectInvalid, Considered
<1>2. c \in External /\ c \in Calls
  BY DEF External, Calls
<1>3. Reserved(ledger, c) \in Ledgers /\ Balanced(Reserved(ledger, c))
      /\ Reserved(ledger, c).pending = 1 /\ Reserved(ledger, c).reason = ledger.reason
  BY <1>1, <1>2, FlowNow, FlowLooks, ReservedIs
<1>4. ledger' \in Ledgers /\ Balanced(ledger') /\ ledger'.pending = 0
      /\ ledger'.reason # "waiting_confirmation"
  BY <1>1, <1>2, <1>3, FlowLooks, ResolvedIs DEF OutcomeNames
<1>5. transcript' \in Transcripts
  BY <1>1, <1>2, FlowNow, RecordedIs
<1>6. receipt' \in Ledgers \cup {NoReceipt}
  BY <1>4 DEF RejectInvalid, Persist, Flow, TypeOK
<1>. QED
  BY <1>1, <1>2, <1>4, <1>5, <1>6, FlowLooks, FlowNow, FlowBetween
     DEF RejectInvalid, rowVars, flowVars, historyVars, Flow, TypeOK, Between

LEMMA FlowReserve == ASSUME Flow, Reserve PROVE Flow'
<1>1. PICK c \in SafeCall \cup DangerousCall :
          /\ Looking(c) /\ ledger.used < Budget
          /\ ledger' = Reserved(ledger, c)
          /\ phase' \in {"wait", "check"}
  BY DEF Reserve, Considered
<1>2. c \in External /\ c \in Calls
  BY DEF External, Calls
<1>3. /\ ledger' \in Ledgers /\ Balanced(ledger') /\ ledger'.pending = 1
      /\ LastCharged(ledger') = c /\ ledger'.reason # "waiting_confirmation"
  BY <1>1, <1>2, FlowNow, FlowLooks, ReservedIs
<1>4. receipt' \in Ledgers \cup {NoReceipt}
  BY <1>3 DEF Reserve, Persist, Flow, TypeOK
<1>5. phase = "calls" /\ queue # <<>> /\ Head(queue) = c /\ status = "running"
  BY <1>1, <1>2, FlowLooks
<1>6. TypeOK'
  BY <1>1, <1>3, <1>4 DEF Reserve, flowVars, historyVars, Flow, TypeOK, Balanced, Phases
<1>7. Placed'
  BY <1>1, <1>2, <1>3, <1>5 DEF Reserve, Placed, Between, Charged, Consented
<1>. QED
  BY <1>6, <1>7 DEF Flow

LEMMA FlowSave == ASSUME Flow, SaveApproval PROVE Flow'
<1>1. /\ phase = "wait" /\ queue # <<>> /\ Head(queue) \in External /\ Tail(queue) \in Seq(Calls)
      /\ ledger.pending = 1 /\ status \in {"running"} \cup Stopped
  BY FlowNow DEF SaveApproval, Flow, Placed, Charged
<1>2. Omitting(ledger, Tail(queue)) \in Ledgers /\ Balanced(Omitting(ledger, Tail(queue)))
      /\ Omitting(ledger, Tail(queue)).pending = 1
  BY <1>1, FlowNow, CountIsNat, OmittedIs DEF Omitting
<1>3. ledger' \in Ledgers /\ Balanced(ledger') /\ ledger'.pending = 1
      /\ ledger'.reason = "waiting_confirmation"
  BY <1>2, ReasonIs DEF SaveApproval, Reasons
<1>4. transcript' \in Transcripts
  BY <1>1, FlowNow, RecordedIs DEF SaveApproval, Calls
<1>5. checkpoint' \in Checkpoints
  BY <1>1, <1>3, <1>4, FlowNow DEF SaveApproval, Saved, Checkpoints, Calls
<1>6. receipt' \in Ledgers \cup {NoReceipt}
  BY <1>3 DEF SaveApproval, Persist, Flow, TypeOK
<1>7. TypeOK'
  <2>1. /\ queue' \in Seq(Calls) /\ phase' \in Phases
        /\ UNCHANGED <<status, revision, control, stop, refused, resumed, mode, effects, asked,
                      proposed, confirms, fallback>>
    BY DEF SaveApproval, flowVars, historyVars, Phases
  <2>. QED
    BY <1>3, <1>4, <1>5, <1>6, <2>1 DEF Flow, TypeOK, Balanced
<1>8. Placed'
  BY <1>1, <1>3 DEF SaveApproval, Placed, Between, Charged, Consented
<1>. QED
  BY <1>7, <1>8 DEF Flow


LEMMA FlowStart == ASSUME Flow, StartHandler \/ StartApproved PROVE Flow'
<1>1. /\ phase \in {"handle", "applying"} /\ Head(queue) \in External /\ ledger.pending = 1
      /\ phase' = IF phase = "handle" THEN "result" ELSE "applied"
      /\ effects' = Append(effects, [call |-> Head(queue), slot |-> ledger.used])
      /\ UNCHANGED <<rowVars, queue, accountVars, flowVars, asked, proposed, confirms, fallback>>
  BY DEF StartHandler, StartApproved, Flow, Placed, Charged
<1>2. ledger.used \in 1..Budget
  BY <1>1, FlowNow, OpenIsCharged
<1>3. [call |-> Head(queue), slot |-> ledger.used] \in [call : Calls, slot : 1..Budget]
  BY <1>1, <1>2 DEF Calls
<1>4. effects' \in Seq([call : Calls, slot : 1..Budget])
  <2>1. effects \in Seq([call : Calls, slot : 1..Budget])
    BY DEF Flow, TypeOK
  <2>. QED
    BY <1>1, <1>3, <2>1, AppendProperties
<1>5. TypeOK'
  <2>1. phase' \in Phases
    BY <1>1 DEF Phases
  <2>. QED
    BY <1>1, <1>4, <2>1 DEF Flow, TypeOK, rowVars, accountVars, flowVars
<1>6. Placed'
  BY <1>1 DEF Flow, Placed, rowVars, accountVars, Between, Charged, Consented
<1>. QED
  BY <1>5, <1>6 DEF Flow

\* The outcome of a handler, in the loop and of an approved call.
LEMMA OutcomesAre ==
  ASSUME phase \in {"handle", "result", "applying", "applied"}, mode.dry \in BOOLEAN
  PROVE  Outcomes \subseteq OutcomeNames /\ "rejected" \notin Outcomes
<1>1. CASE mode.dry
  BY <1>1 DEF Outcomes, OutcomeNames
<1>2. CASE ~mode.dry /\ phase \in {"handle", "applying"}
  BY <1>2 DEF Outcomes, OutcomeNames
<1>3. CASE ~mode.dry /\ phase \in {"result", "applied"}
  BY <1>3 DEF Outcomes, OutcomeNames
<1>. QED
  BY <1>1, <1>2, <1>3

LEMMA FlowDone == ASSUME Flow, HandlerDone PROVE Flow'
<1>1. PICK outcome \in Outcomes : ledger' = Resolved(ledger, outcome)
  BY DEF HandlerDone
<1>2. /\ phase \in {"handle", "result"} /\ phase' = "calls" /\ queue # <<>>
      /\ Head(queue) \in External /\ Tail(queue) \in Seq(Calls) /\ queue' = Tail(queue)
      /\ ledger.pending = 1 /\ ledger.reason # "waiting_confirmation"
      /\ status \in {"running"} \cup Stopped
  BY FlowNow DEF HandlerDone, Flow, Placed, Charged, Consented
<1>3. outcome \in OutcomeNames
  BY <1>2, OutcomesAre DEF Flow, TypeOK
<1>4. ledger' \in Ledgers /\ Balanced(ledger') /\ ledger'.pending = 0
      /\ ledger'.reason # "waiting_confirmation"
  BY <1>1, <1>2, <1>3, FlowNow, ResolvedIs
<1>5. transcript' \in Transcripts
  BY <1>2, FlowNow, RecordedIs DEF HandlerDone, Calls
<1>6. receipt' \in Ledgers \cup {NoReceipt}
  BY <1>4 DEF HandlerDone, Persist, Flow, TypeOK
<1>7. TypeOK'
  <2>1. /\ phase' \in Phases /\ queue' \in Seq(Calls)
        /\ UNCHANGED <<status, checkpoint, revision, control, stop, refused, resumed, mode, effects,
                      asked, proposed, confirms, fallback>>
    BY <1>2 DEF HandlerDone, flowVars, historyVars, Phases
  <2>. QED
    BY <1>4, <1>5, <1>6, <2>1 DEF Flow, TypeOK, Balanced
<1>8. Placed'
  BY <1>2, <1>4 DEF HandlerDone, Placed, Between, Charged, Consented
<1>. QED
  BY <1>7, <1>8 DEF Flow

LEMMA FlowResume == ASSUME Flow, Resume PROVE Flow'
<1>1. PICK outcome \in Outcomes :
          ledger' = [Resolved(ledger, outcome) EXCEPT !.reason = "in_progress"]
  BY DEF Resume
<1>2. /\ phase \in {"applying", "applied"} /\ phase' = "top" /\ queue' = <<>>
      /\ ledger.pending = 1 /\ status \in {"running"} \cup Stopped
  BY DEF Resume, Flow, Placed, Charged, Consented
<1>3. outcome \in OutcomeNames
  BY <1>2, OutcomesAre DEF Flow, TypeOK
<1>4. ledger' \in Ledgers /\ Balanced(ledger') /\ ledger'.pending = 0
      /\ ledger'.reason # "waiting_confirmation"
  <2>1. Resolved(ledger, outcome) \in Ledgers /\ Balanced(Resolved(ledger, outcome))
        /\ Resolved(ledger, outcome).pending = 0
    BY <1>2, <1>3, FlowNow, ResolvedIs
  <2>. QED
    BY <1>1, <2>1, ReasonIs DEF Reasons
<1>5. transcript' \in Transcripts
  BY FlowNow DEF Resume, Transcripts
<1>6. receipt' \in Ledgers \cup {NoReceipt}
  BY <1>4 DEF Resume, Persist, Flow, TypeOK
<1>7. mode' \in [dry : BOOLEAN, ahead : BOOLEAN, companion : BOOLEAN, planning : BOOLEAN]
  BY DEF Resume, Flow, TypeOK
<1>8. TypeOK'
  <2>1. /\ phase' \in Phases /\ queue' \in Seq(Calls)
        /\ UNCHANGED <<status, checkpoint, revision, control, stop, refused, resumed, effects,
                      asked, proposed, confirms, fallback>>
    BY <1>2 DEF Resume, historyVars, Phases
  <2>. QED
    BY <1>4, <1>5, <1>6, <1>7, <2>1 DEF Flow, TypeOK, Balanced
<1>9. Placed'
  BY <1>2, <1>4 DEF Resume, Placed, Between, Charged, Consented
<1>. QED
  BY <1>8, <1>9 DEF Flow

LEMMA FlowLeave == ASSUME Flow, Leave PROVE Flow'
<1>1. receipt' \in Ledgers \cup {NoReceipt}
  BY FlowNow DEF Leave, Persist, Flow, TypeOK
<1>2. TypeOK'
  BY <1>1 DEF Leave, accountVars, flowVars, historyVars, Flow, TypeOK, Phases
<1>3. Placed'
  BY DEF Leave, accountVars, flowVars, historyVars, Flow, Placed, Between, Charged, Consented
<1>. QED
  BY <1>2, <1>3 DEF Flow

\* A step that ends the thread.
LEMMA FlowEnds ==
  ASSUME Flow, status' \in Statuses, checkpoint' \in Checkpoints, phase' = "idle",
         fallback' \in BOOLEAN,
         UNCHANGED <<receipt, revision, queue, accountVars, flowVars, effects, asked, proposed,
                     confirms>>
  PROVE  Flow'
<1>1. TypeOK'
  BY DEF Flow, TypeOK, accountVars, flowVars, Phases
<1>2. Placed'
  BY DEF Placed, Between, Charged, Consented
<1>. QED
  BY <1>1, <1>2 DEF Flow

LEMMA EmptyCheckpoint == NoCheckpoint \in Checkpoints
<1>1. NewLedger \in Ledgers
  BY LoopConstants DEF NewLedger, Ledgers, Reasons
<1>2. NewControl \in Controls /\ NewTranscript \in Transcripts
  BY LoopConstants DEF NewControl, NewTranscript, Controls, Transcripts
<1>. QED
  BY <1>1, <1>2 DEF NoCheckpoint, Checkpoints, Calls

LEMMA FlowFinish == ASSUME Flow, Finish \/ FallBack \/ FailRun PROVE Flow'
<1>1. status \in Statuses /\ checkpoint \in Checkpoints /\ fallback \in BOOLEAN
  BY DEF Flow, TypeOK
<1>2. FinalStatus(ledger) \in Statuses
  BY DEF FinalStatus, Statuses, Settled
<1>3. status' \in Statuses /\ checkpoint' \in Checkpoints /\ fallback' \in BOOLEAN
  <2>1. CASE Finish
    BY <1>1, <1>2, <2>1, EmptyCheckpoint DEF Finish, historyVars
  <2>2. CASE FallBack
    BY <1>1, <2>2 DEF FallBack, KeywordPlan, Statuses
  <2>3. CASE FailRun
    BY <1>1, <2>3 DEF FailRun, Statuses, Settled, historyVars
  <2>. QED
    BY <2>1, <2>2, <2>3
<1>. QED
  BY <1>3, FlowEnds DEF Finish, FallBack, KeywordPlan, FailRun, Abandon, historyVars

LEMMA FlowConfirm == ASSUME Flow, Confirm PROVE Flow'
<1>1. /\ checkpoint.ledger \in Ledgers /\ checkpoint.control \in Controls
      /\ checkpoint.transcript \in Transcripts /\ checkpoint.call \in Calls
  BY FlowNow DEF Checkpoints
<1>2. /\ Balanced(checkpoint.ledger) /\ checkpoint.ledger.pending = 1
      /\ LastCharged(checkpoint.ledger) = checkpoint.call /\ checkpoint.ledger.history # <<>>
  BY DEF Confirm, Restorable, LedgerRestorable, Balanced, LastCharged
<1>3. checkpoint.call \in External
  <2>1. checkpoint.ledger.history \in Seq(External)
    BY <1>1, LedgerFields
  <2>. QED
    BY <1>2, <2>1 DEF LastCharged
<1>4. queue' \in Seq(Calls) /\ queue' # <<>> /\ Head(queue') = checkpoint.call /\ Tail(queue') = <<>>
  BY <1>1 DEF Confirm
<1>5. TypeOK'
  <2>1. /\ phase' \in Phases /\ status' \in Statuses
        /\ UNCHANGED <<receipt, checkpoint, revision, mode, effects, asked, proposed, fallback>>
        /\ stop' \in BOOLEAN /\ refused' \in BOOLEAN /\ resumed' \in BOOLEAN
    BY DEF Confirm, Phases, Statuses
  <2>2. /\ ledger' = checkpoint.ledger /\ control' = checkpoint.control
        /\ transcript' = checkpoint.transcript
    BY DEF Confirm
  <2>3. confirms' \in Nat
    BY DEF Confirm, Flow, TypeOK
  <2>. QED
    BY <1>1, <1>2, <1>4, <2>1, <2>2, <2>3 DEF Flow, TypeOK, Balanced
<1>6. Placed'
  BY <1>2, <1>3, <1>4 DEF Confirm, Placed, Between, Charged, Consented
<1>. QED
  BY <1>5, <1>6 DEF Flow

LEMMA FlowStops == ASSUME Flow, NEW st \in Stopped, StopRun(st) PROVE Flow'
<1>1. TypeOK'
  BY DEF StopRun, accountVars, flowVars, historyVars, Flow, TypeOK, Statuses
<1>2. Placed'
  BY DEF StopRun, accountVars, flowVars, historyVars, Flow, Placed, Between, Charged, Consented
<1>. QED
  BY <1>1, <1>2 DEF Flow

LEMMA FlowStep == Flow /\ [Next]_vars => Flow'
<1>. SUFFICES ASSUME Flow, [Next]_vars PROVE Flow'
  OBVIOUS
<1>1. CASE AskModel
  BY <1>1, FlowAsk
<1>2. ASSUME NEW batch \in Batches, Answer(batch) PROVE Flow'
  BY <1>2, FlowAnswer
<1>3. CASE NextBatch \/ CheckHandler \/ HeedStop \/ CheckApproved \/ ProviderFails \/ LoseThread
  BY <1>3, FlowMoves
     DEF NextBatch, CheckHandler, HeedStop, CheckApproved, ProviderFails, LoseThread, Abandon,
         rowVars, accountVars, flowVars, historyVars, Flow, TypeOK
<1>4. CASE SkipPlan \/ RefusePlan \/ UpdatePlan
  BY <1>4, FlowPlan
<1>5. CASE OmitOverBudget \/ StopRepetition \/ RejectInvalid \/ Reserve \/ SaveApproval
  BY <1>5, FlowOmit, FlowRepetition, FlowReject, FlowReserve, FlowSave
<1>6. CASE StartHandler \/ StartApproved \/ HandlerDone \/ Resume \/ Leave
  BY <1>6, FlowStart, FlowDone, FlowResume, FlowLeave
<1>7. CASE Finish \/ FallBack \/ FailRun \/ Confirm
  BY <1>7, FlowFinish, FlowConfirm
<1>8. ASSUME NEW st \in Stopped, StopRun(st) PROVE Flow'
  BY <1>8, FlowStops
<1>9. CASE UNCHANGED vars
  BY <1>9, FlowMoves DEF vars, rowVars, accountVars, flowVars, historyVars, Flow, TypeOK
<1>. QED
  BY <1>1, <1>2, <1>3, <1>4, <1>5, <1>6, <1>7, <1>8, <1>9 DEF Next, Loop


-----------------------------------------------------------------------------
(* What the database shows of the ledger while a thread works, and what an   *)
(* approval has been given to keep.                                          *)

Below(n) == \A i \in DOMAIN effects : effects[i].slot < n

Synced ==
    /\ phase # "idle" => /\ receipt.used = ledger.used
                         /\ status = "running" => receipt.pending = ledger.pending
    /\ phase \in Charged => receipt.pending = 1

Slots ==
    /\ Below(receipt.used + 1)
    /\ phase \in Charged \ {"result", "applied"} => Below(receipt.used)

Quotas ==
    /\ asked <= ModelLimit /\ revision <= PlanLimit
    /\ phase # "idle" =>
          /\ asked = control.model /\ control.plan = transcript.plans /\ revision <= control.plan
          /\ transcript.sorted /\ transcript.last <= control.model
    /\ phase = "ask" => control.model >= 1
    /\ phase \in {"calls"} \cup Charged => control.model \in 1 .. ModelLimit - 1

\* The checkpoint is the run as it stands, and can be continued.
Approvable ==
    /\ Restorable(checkpoint) /\ checkpoint.ledger = receipt
    /\ asked = checkpoint.control.model /\ Below(receipt.used)

Kept ==
    /\ (phase = "end" /\ status = "running" /\ ledger.reason = "waiting_confirmation") => Approvable
    /\ (status = "requires_confirmation" /\ ~fallback) => Approvable
    /\ fallback => phase = "idle" /\ checkpoint = NoCheckpoint
    /\ (~resumed /\ phase \notin {"end", "idle"}) => checkpoint = NoCheckpoint

Account == Synced /\ Slots /\ Quotas /\ Kept

LEMMA ReceiptNow ==
  ASSUME Flow
  PROVE  receipt.used \in 0..Budget /\ receipt.pending \in 0..1
<1>1. CASE receipt \in Ledgers
  BY <1>1, LedgerFields
<1>2. CASE receipt = NoReceipt
  BY <1>2, LoopConstants DEF NoReceipt, NewLedger
<1>. QED
  BY <1>1, <1>2 DEF Flow, TypeOK

LEMMA NothingToRestore == ~Restorable(NoCheckpoint)
BY DEF Restorable, LedgerRestorable, NoCheckpoint, NewLedger

LEMMA AccountInit == Init => Account
<1>. SUFFICES ASSUME Init PROVE Account
  OBVIOUS
<1>1. Synced
  BY DEF Init, Synced, NoReceipt, NewLedger, Charged
<1>2. DOMAIN effects = {}
  BY DEF Init
<1>3. Slots
  BY <1>2 DEF Init, Slots, Below, Charged
<1>4. Quotas
  BY LoopConstants DEF Init, Quotas, NewControl, NewTranscript, Charged
<1>5. Kept
  BY DEF Init, Kept
<1>. QED
  BY <1>1, <1>3, <1>4, <1>5 DEF Account

\* A step that leaves the account as it is and does not reserve.
LEMMA AccountMoves ==
  ASSUME Flow, Account,
         UNCHANGED <<status, receipt, checkpoint, effects, fallback, revision, asked, resumed,
                     control, transcript>>,
         ledger'.used = ledger.used, ledger'.pending = ledger.pending,
         phase = "end" => ledger' = ledger,
         \/ phase' = phase
         \/ phase' = "idle"
         \/ phase = "ask" /\ phase' \in {"raised", "leave"}
         \/ phase = "ask" /\ phase' = "calls" /\ control.model # ModelLimit
         \/ phase = "calls" /\ phase' = "top"
         \/ phase = "check" /\ phase' = "handle"
         \/ phase = "approved" /\ phase' = "applying"
  PROVE  Account'
<1>1. Synced'
  BY DEF Account, Synced, Charged
<1>2. Slots'
  BY DEF Account, Slots, Below, Charged
<1>3. Quotas'
  <2>1. control.model \in 0..ModelLimit
    BY FlowNow
  <2>. QED
    BY <2>1, LoopConstants DEF Account, Quotas, Charged
<1>4. Kept'
  <2>1. Approvable' <=> Approvable
    BY DEF Approvable, Restorable, LedgerRestorable, ControlRestorable, Below
  <2>. QED
    BY <2>1 DEF Account, Kept
<1>. QED
  BY <1>1, <1>2, <1>3, <1>4 DEF Account

LEMMA AccountAsk == ASSUME Flow, Account, AskModel PROVE Account'
<1>1. /\ phase = "top" /\ phase' = "ask" /\ control.model < ModelLimit
      /\ control' = [control EXCEPT !.model = @ + 1] /\ asked' = asked + 1
      /\ UNCHANGED <<status, receipt, checkpoint, effects, fallback, revision, resumed, transcript>>
  BY DEF AskModel, rowVars, flowVars
<1>2. ledger'.used = ledger.used /\ ledger'.pending = ledger.pending
  BY FlowNow DEF AskModel, Ledgers
<1>3. control'.model = control.model + 1 /\ control'.plan = control.plan
      /\ control.model \in 0..ModelLimit
  BY <1>1, FlowNow DEF Controls
<1>4. Synced' /\ Slots'
  BY <1>1, <1>2 DEF Account, Synced, Slots, Below, Charged
<1>5. Quotas'
  <2>1. transcript.last \in Nat
    BY FlowNow, LoopConstants DEF Transcripts
  <2>. QED
    BY <1>1, <1>3, <2>1, LoopConstants DEF Account, Quotas, Charged
<1>6. Kept'
  BY <1>1 DEF Account, Kept, Flow, Placed, Stopped
<1>. QED
  BY <1>4, <1>5, <1>6 DEF Account

LEMMA AccountAnswer == ASSUME Flow, Account, NEW batch \in Batches, Answer(batch) PROVE Account'
<1>1. ledger'.used = ledger.used /\ ledger'.pending = ledger.pending
  BY FlowNow DEF Answer, Omitting, Ledgers
<1>2. phase = "ask" /\ phase' \in {"leave", "calls"} /\ (phase' = "calls" => control.model # ModelLimit)
  BY DEF Answer, Forced
<1>. QED
  BY <1>1, <1>2, AccountMoves DEF Answer, rowVars

LEMMA AccountPlan == ASSUME Flow, Account, SkipPlan \/ RefusePlan \/ UpdatePlan PROVE Account'
<1>1. CASE SkipPlan
  BY <1>1, AccountMoves DEF SkipPlan, rowVars, accountVars, flowVars, historyVars
<1>2. CASE RefusePlan \/ UpdatePlan
  <2>1. PlanCall \in Calls /\ Looking(PlanCall)
    BY <1>2 DEF RefusePlan, UpdatePlan, Calls
  <2>2. /\ phase = "calls" /\ phase' = "calls" /\ status = "running"
        /\ transcript' = Recorded(PlanCall, TRUE)
        /\ UNCHANGED <<status, receipt, checkpoint, effects, fallback, resumed, asked, ledger>>
    BY <1>2, <2>1, FlowLooks DEF RefusePlan, UpdatePlan, rowVars, flowVars, historyVars
  <2>3. Synced' /\ Slots'
    BY <2>2 DEF Account, Synced, Slots, Below, Charged
  <2>4. Kept'
    BY <2>2 DEF Account, Kept
  <2>5. /\ transcript'.last = control.model
        /\ (transcript.sorted /\ control.model >= transcript.last) => transcript'.sorted
        /\ transcript'.plans = IF transcript.plans < PlanLimit THEN transcript.plans + 1
                               ELSE transcript.plans
    BY <2>1, <2>2, FlowNow, RecordedIs
  <2>6. control.model \in 0..ModelLimit /\ control.plan \in 0..PlanLimit /\ revision \in Nat
    BY FlowNow DEF Flow, TypeOK
  <2>7. control'.model = control.model
    BY <1>2, FlowNow DEF RefusePlan, UpdatePlan, Controls
  <2>8. \/ /\ control.plan >= PlanLimit /\ control'.plan = control.plan /\ revision' = revision
        \/ /\ control.plan < PlanLimit /\ control'.plan = control.plan + 1
           /\ revision' = revision \/ revision' = revision + 1
    BY <1>2, FlowNow DEF RefusePlan, UpdatePlan, Controls, rowVars
  <2>9. /\ control'.plan = transcript'.plans /\ revision' <= control'.plan /\ revision' <= PlanLimit
    <3>1. control.plan = transcript.plans /\ revision <= control.plan
      BY <2>2 DEF Account, Quotas
    <3>2. CASE control.plan < PlanLimit
      BY <2>5, <2>6, <2>8, <3>1, <3>2, LoopConstants
    <3>3. CASE control.plan >= PlanLimit
      BY <2>5, <2>6, <2>8, <3>1, <3>3, LoopConstants
    <3>. QED
      BY <2>6, <3>2, <3>3, LoopConstants
  <2>10. transcript.sorted /\ transcript.last <= control.model /\ transcript.last \in Nat
    BY <2>2, FlowNow, LoopConstants DEF Account, Quotas, Transcripts
  <2>11. transcript'.sorted /\ transcript'.last <= control'.model
    <3>1. control.model >= transcript.last /\ control.model <= control.model
      BY <2>6, <2>10
    <3>. QED
      BY <2>5, <2>7, <2>10, <3>1
  <2>12. asked = control.model /\ asked <= ModelLimit /\ control.model \in 1 .. ModelLimit - 1
    BY <2>2 DEF Account, Quotas
  <2>13. Quotas'
    BY <2>2, <2>7, <2>9, <2>11, <2>12 DEF Quotas
  <2>. QED
    BY <2>3, <2>4, <2>13 DEF Account
<1>. QED
  BY <1>1, <1>2


LEMMA BelowUp ==
  ASSUME Flow, NEW n \in Nat, NEW m \in Nat, n <= m, Below(n)
  PROVE  Below(m)
<1>1. \A i \in DOMAIN effects : effects[i].slot \in Nat
  <2>1. effects \in Seq([call : Calls, slot : 1..Budget])
    BY DEF Flow, TypeOK
  <2>2. \A i \in DOMAIN effects : effects[i] \in [call : Calls, slot : 1..Budget]
    BY <2>1, ElementOfSeq, LenProperties
  <2>. QED
    BY <2>2, LoopConstants
<1>. QED
  BY <1>1 DEF Below

\* The transcript when the message of an external call enters it.
LEMMA TranscriptMoves ==
  ASSUME Flow, Account, phase # "idle", NEW c \in External, NEW told \in BOOLEAN
  PROVE  LET r == Recorded(c, told) IN
         /\ r.plans = transcript.plans /\ r.sorted /\ r.last = control.model
         /\ r.open = IF told THEN None ELSE c
<1>1. c \in Calls /\ c # PlanCall
  BY LoopConstants DEF Calls
<1>2. transcript.sorted /\ transcript.last <= control.model
  BY DEF Account, Quotas
<1>3. control.model >= transcript.last
  BY <1>2, FlowNow, LoopConstants DEF Transcripts
<1>. QED
  BY <1>1, <1>2, <1>3, FlowNow, RecordedIs

LEMMA AccountReject == ASSUME Flow, Account, RejectInvalid PROVE Account'
<1>1. PICK c \in InvalidCall :
          /\ Looking(c) /\ ledger.used < Budget
          /\ ledger' = Resolved(Reserved(ledger, c), "rejected")
          /\ transcript' = Recorded(c, TRUE)
  BY DEF RejectInvalid, Considered
<1>2. c \in External /\ c \in Calls
  BY DEF External, Calls
<1>3. /\ phase = "calls" /\ phase' = "calls" /\ status = "running" /\ receipt' = ledger'
      /\ UNCHANGED <<status, checkpoint, effects, fallback, revision, asked, resumed, control>>
  BY <1>1, <1>2, FlowLooks DEF RejectInvalid, Persist, flowVars, historyVars
<1>4. ledger'.used = ledger.used + 1 /\ ledger'.pending = 0
  <2>1. /\ Reserved(ledger, c) \in Ledgers /\ Balanced(Reserved(ledger, c))
        /\ Reserved(ledger, c).pending = 1 /\ Reserved(ledger, c).used = ledger.used + 1
    BY <1>1, <1>2, FlowNow, FlowLooks, ReservedIs
  <2>. QED
    BY <1>1, <2>1, ResolvedIs DEF OutcomeNames
<1>5. Synced'
  BY <1>3, <1>4 DEF Account, Synced, Charged
<1>6. Slots'
  <2>1. receipt.used = ledger.used /\ receipt.used \in Nat
    BY <1>3, ReceiptNow, LoopConstants DEF Account, Synced
  <2>2. Below(receipt.used + 1)
    BY DEF Account, Slots
  <2>3. Below(receipt.used + 1 + 1)
    BY <2>1, <2>2, BelowUp
  <2>. QED
    BY <1>3, <1>4, <2>1, <2>3 DEF Slots, Below, Charged
<1>7. Quotas'
  <2>1. transcript'.plans = transcript.plans /\ transcript'.sorted /\ transcript'.last = control.model
    BY <1>1, <1>2, <1>3, TranscriptMoves
  <2>2. control.model <= control.model
    BY FlowNow
  <2>. QED
    BY <1>3, <2>1, <2>2 DEF Account, Quotas, Charged
<1>8. Kept'
  BY <1>3 DEF Account, Kept
<1>. QED
  BY <1>5, <1>6, <1>7, <1>8 DEF Account

LEMMA AccountReserve == ASSUME Flow, Account, Reserve PROVE Account'
<1>1. PICK c \in SafeCall \cup DangerousCall :
          /\ Looking(c) /\ ledger.used < Budget
          /\ ledger' = Reserved(ledger, c)
          /\ phase' \in {"wait", "check"}
  BY DEF Reserve, Considered
<1>2. c \in External /\ c \in Calls
  BY DEF External, Calls
<1>3. /\ phase = "calls" /\ status = "running" /\ receipt' = ledger'
      /\ UNCHANGED <<status, checkpoint, effects, fallback, revision, asked, resumed, control,
                    transcript>>
  BY <1>1, <1>2, FlowLooks DEF Reserve, Persist, flowVars, historyVars
<1>4. ledger'.used = ledger.used + 1 /\ ledger'.pending = 1
  BY <1>1, <1>2, FlowNow, FlowLooks, ReservedIs
<1>5. Synced'
  BY <1>3, <1>4 DEF Account, Synced, Charged
<1>6. Slots'
  <2>1. receipt.used = ledger.used /\ receipt.used \in Nat
    BY <1>3, ReceiptNow, LoopConstants DEF Account, Synced
  <2>2. Below(receipt.used + 1)
    BY DEF Account, Slots
  <2>3. Below(receipt.used + 1 + 1)
    BY <2>1, <2>2, BelowUp
  <2>. QED
    BY <1>3, <1>4, <2>1, <2>2, <2>3 DEF Slots, Below
<1>7. Quotas'
  BY <1>1, <1>3 DEF Account, Quotas, Charged
<1>8. Kept'
  BY <1>1, <1>3 DEF Account, Kept
<1>. QED
  BY <1>5, <1>6, <1>7, <1>8 DEF Account

LEMMA AccountSave == ASSUME Flow, Account, SaveApproval PROVE Account'
<1>. DEFINE c == Head(queue)
            left == ExternalCount(Tail(queue))
            over == Omitting(ledger, Tail(queue))
<1>1. /\ phase = "wait" /\ phase' = "end" /\ queue # <<>> /\ c \in External
      /\ Tail(queue) \in Seq(Calls)
      /\ ledger.pending = 1 /\ LastCharged(ledger) = c /\ status \in {"running"} \cup Stopped
      /\ UNCHANGED <<status, effects, fallback, revision, asked, resumed, control>>
  BY FlowNow DEF SaveApproval, Flow, Placed, Charged, flowVars, historyVars
<1>2. /\ over \in Ledgers /\ Balanced(over) /\ over.used = ledger.used /\ over.pending = 1
      /\ over.history = ledger.history
  BY <1>1, FlowNow, CountIsNat, OmittedIs DEF Omitting
<1>3. /\ ledger' \in Ledgers /\ Balanced(ledger') /\ ledger'.used = ledger.used
      /\ ledger'.pending = 1 /\ LastCharged(ledger') = c /\ ledger'.history # <<>>
  <2>1. ledger' = [over EXCEPT !.reason = "waiting_confirmation"]
    BY DEF SaveApproval
  <2>2. ledger' \in Ledgers /\ Balanced(ledger') /\ ledger'.used = ledger.used
        /\ ledger'.pending = 1 /\ ledger'.history = ledger.history
    <3>. HIDE DEF over
    <3>. QED
      BY <1>2, <2>1, ReasonIs DEF Reasons
  <2>3. ledger.used \in 1..Budget /\ Len(ledger.history) = ledger.used
    BY <1>1, FlowNow, OpenIsCharged DEF Balanced
  <2>4. ledger.history # <<>>
    BY <2>3, LoopConstants
  <2>. QED
    BY <1>1, <2>2, <2>4 DEF LastCharged
<1>4. transcript' = Recorded(c, FALSE)
  BY DEF SaveApproval
<1>5. /\ transcript'.plans = transcript.plans /\ transcript'.sorted
      /\ transcript'.last = control.model /\ transcript'.open = c
  BY <1>1, <1>4, TranscriptMoves
<1>6. control.model <= control.model /\ control.model \in 1 .. ModelLimit - 1
      /\ control.plan = transcript.plans /\ revision <= control.plan /\ asked = control.model
  BY <1>1, FlowNow DEF Account, Quotas, Charged
<1>7. Quotas'
  BY <1>1, <1>5, <1>6 DEF Account, Quotas, Charged
<1>8. receipt.used = ledger.used /\ receipt.pending = 1 /\ Below(receipt.used)
  BY <1>1 DEF Account, Synced, Slots, Charged
<1>9. receipt' = (IF status = "running" THEN ledger' ELSE receipt)
  BY DEF SaveApproval, Persist
<1>10. Synced'
  BY <1>1, <1>3, <1>8, <1>9 DEF Synced, Charged
<1>11. Slots'
  <2>1. receipt'.used = receipt.used
    BY <1>3, <1>8, <1>9
  <2>2. Below(receipt.used + 1)
    BY DEF Account, Slots
  <2>. QED
    BY <1>1, <2>1, <2>2 DEF Slots, Below, Charged
<1>12. ASSUME status = "running" PROVE Approvable'
  <2>1. checkpoint' = [call |-> c, ledger |-> ledger', control |-> control,
                       transcript |-> transcript']
    BY <1>12 DEF SaveApproval, Saved, Stopped
  <2>2. /\ checkpoint'.call = c /\ checkpoint'.ledger = ledger'
        /\ checkpoint'.control = control /\ checkpoint'.transcript = transcript'
    BY <2>1
  <2>3. LedgerRestorable(checkpoint)'
    <3>1. ledger'.used <= Budget
      BY <1>3, LedgerFields, LoopConstants
    <3>. QED
      BY <1>3, <1>5, <2>2, <3>1 DEF LedgerRestorable, Balanced, LastCharged
  <2>4. ControlRestorable(checkpoint)'
    BY <1>1, <1>5, <1>6, <2>2 DEF ControlRestorable
  <2>5. Below(receipt.used)'
    BY <1>1, <1>3, <1>8, <1>9, <1>12 DEF Below
  <2>. QED
    BY <1>1, <1>6, <1>9, <1>12, <2>2, <2>3, <2>4, <2>5 DEF Approvable, Restorable
<1>13. Kept'
  <2>1. ~fallback
    BY <1>1 DEF Account, Kept
  <2>. QED
    BY <1>1, <1>12, <2>1 DEF Kept, Stopped
<1>. QED
  BY <1>7, <1>10, <1>11, <1>13 DEF Account


\* A handler is started under the open reservation, which has no effect yet.
LEMMA StartIs ==
  ASSUME Flow, Account, StartHandler \/ StartApproved
  PROVE  /\ phase \in {"handle", "applying"} /\ phase' \in {"result", "applied"}
         /\ receipt.used = ledger.used /\ receipt.pending = 1 /\ Below(receipt.used)
         /\ receipt.used \in 1..Budget
         /\ effects \in Seq([call : Calls, slot : 1..Budget])
         /\ Len(effects') = Len(effects) + 1
         /\ DOMAIN effects' = 1..(Len(effects) + 1) /\ DOMAIN effects = 1..Len(effects)
         /\ \A i \in DOMAIN effects : effects'[i] = effects[i]
         /\ effects'[Len(effects) + 1] = [call |-> Head(queue), slot |-> receipt.used]
         /\ UNCHANGED <<rowVars, queue, accountVars, flowVars, asked, proposed, confirms, fallback>>
<1>1. /\ phase \in {"handle", "applying"} /\ phase' \in {"result", "applied"}
      /\ effects' = Append(effects, [call |-> Head(queue), slot |-> ledger.used])
      /\ UNCHANGED <<rowVars, queue, accountVars, flowVars, asked, proposed, confirms, fallback>>
  BY DEF StartHandler, StartApproved
<1>2. receipt.used = ledger.used /\ receipt.pending = 1 /\ Below(receipt.used)
  BY <1>1 DEF Account, Synced, Slots, Charged
<1>3. ledger.used \in 1..Budget /\ Head(queue) \in Calls
  BY <1>1, FlowNow, OpenIsCharged DEF Flow, Placed, Charged, Calls
<1>4. effects \in Seq([call : Calls, slot : 1..Budget])
  BY DEF Flow, TypeOK
<1>5. [call |-> Head(queue), slot |-> ledger.used] \in [call : Calls, slot : 1..Budget]
  BY <1>3
<1>6. /\ effects' \in Seq([call : Calls, slot : 1..Budget])
      /\ Len(effects') = Len(effects) + 1
      /\ \A i \in 1..Len(effects) : effects'[i] = effects[i]
      /\ effects'[Len(effects) + 1] = [call |-> Head(queue), slot |-> ledger.used]
  BY <1>1, <1>4, <1>5, AppendProperties
<1>7. DOMAIN effects' = 1..(Len(effects) + 1) /\ DOMAIN effects = 1..Len(effects)
  BY <1>4, <1>6, LenProperties
<1>. QED
  BY <1>1, <1>2, <1>3, <1>4, <1>6, <1>7

LEMMA AccountStart == ASSUME Flow, Account, StartHandler \/ StartApproved PROVE Account'
<1>1. /\ phase \in {"handle", "applying"} /\ phase' \in {"result", "applied"}
      /\ receipt.used \in 1..Budget /\ Below(receipt.used)
      /\ UNCHANGED <<rowVars, accountVars, flowVars, asked, fallback>>
  BY StartIs
<1>2. Synced'
  BY <1>1 DEF Account, Synced, Charged, rowVars, accountVars
<1>3. Slots'
  <2>1. Below(receipt.used + 1)
    BY DEF Account, Slots
  <2>2. ASSUME NEW i \in DOMAIN effects' PROVE effects'[i].slot < receipt.used + 1
    <3>1. CASE i \in DOMAIN effects
      BY <2>1, <3>1, StartIs DEF Below
    <3>2. CASE i = Len(effects) + 1
      <4>1. receipt.used < receipt.used + 1
        BY <1>1, LoopConstants
      <4>. QED
        BY <3>2, <4>1, StartIs
    <3>3. Len(effects) \in Nat
      BY StartIs, LenProperties
    <3>. QED
      BY <3>1, <3>2, <3>3, StartIs
  <2>. QED
    BY <1>1, <2>2 DEF Slots, Below, Charged, rowVars
<1>4. Quotas'
  BY <1>1 DEF Account, Quotas, Charged, rowVars, accountVars
<1>5. Kept'
  BY <1>1 DEF Account, Kept, Flow, Placed, Stopped, rowVars, flowVars
<1>. QED
  BY <1>2, <1>3, <1>4, <1>5 DEF Account

\* The reservation is resolved: the charge stays, whoever stops the run.
LEMMA AccountSettles ==
  ASSUME Flow, Account, HandlerDone \/ Resume
  PROVE  /\ phase \in {"handle", "result", "applying", "applied"}
         /\ ledger.pending = 1 /\ ledger'.pending = 0 /\ ledger'.used = ledger.used
         /\ receipt.used = ledger.used /\ receipt.pending = 1
         /\ receipt' = (IF status = "running" THEN ledger' ELSE receipt)
         /\ status' = status /\ effects' = effects
<1>1. /\ phase \in {"handle", "result", "applying", "applied"} /\ status' = status
      /\ effects' = effects
      /\ receipt' = (IF status = "running" THEN ledger' ELSE receipt)
  BY DEF HandlerDone, Resume, Persist, historyVars
<1>2. ledger.pending = 1 /\ receipt.used = ledger.used /\ receipt.pending = 1
  BY <1>1 DEF Flow, Placed, Account, Synced, Charged
<1>3. PICK outcome \in Outcomes :
          \/ ledger' = Resolved(ledger, outcome)
          \/ ledger' = [Resolved(ledger, outcome) EXCEPT !.reason = "in_progress"]
  BY DEF HandlerDone, Resume
<1>4. outcome \in OutcomeNames
  BY <1>1, OutcomesAre DEF Flow, TypeOK
<1>5. /\ Resolved(ledger, outcome) \in Ledgers /\ Balanced(Resolved(ledger, outcome))
      /\ Resolved(ledger, outcome).used = ledger.used /\ Resolved(ledger, outcome).pending = 0
  BY <1>2, <1>4, FlowNow, ResolvedIs
<1>6. ledger'.pending = 0 /\ ledger'.used = ledger.used
  <2>1. "in_progress" \in Reasons
    BY DEF Reasons
  <2>2. CASE ledger' = Resolved(ledger, outcome)
    BY <1>5, <2>2
  <2>3. CASE ledger' = [Resolved(ledger, outcome) EXCEPT !.reason = "in_progress"]
    <3>. DEFINE l == Resolved(ledger, outcome)
    <3>1. l \in Ledgers /\ Balanced(l) /\ l.used = ledger.used /\ l.pending = 0
          /\ ledger' = [l EXCEPT !.reason = "in_progress"]
      BY <1>5, <2>3
    <3>. HIDE DEF l
    <3>. QED
      BY <2>1, <3>1, ReasonIs
  <2>. QED
    BY <1>3, <2>2, <2>3
<1>. QED
  BY <1>1, <1>2, <1>6

LEMMA AccountDone == ASSUME Flow, Account, HandlerDone \/ Resume PROVE Account'
<1>1. /\ phase \in {"handle", "result", "applying", "applied"} /\ phase' \in {"calls", "top"}
      /\ UNCHANGED <<checkpoint, revision, control, resumed, asked, fallback>>
  BY DEF HandlerDone, Resume, flowVars, historyVars
<1>2. Synced'
  BY <1>1, AccountSettles DEF Synced, Charged
<1>3. Slots'
  <2>1. receipt'.used = receipt.used
    BY AccountSettles
  <2>. QED
    BY <1>1, <2>1, AccountSettles DEF Account, Slots, Below, Charged
<1>4. transcript'.plans = transcript.plans /\ transcript'.sorted /\ transcript'.last <= control.model
  <2>1. CASE HandlerDone
    <3>1. Head(queue) \in External /\ transcript' = Recorded(Head(queue), TRUE)
      BY <1>1, <2>1 DEF HandlerDone, Flow, Placed, Charged
    <3>2. control.model <= control.model
      BY FlowNow
    <3>. QED
      BY <1>1, <3>1, <3>2, TranscriptMoves
  <2>2. CASE Resume
    <3>1. transcript' = [transcript EXCEPT !.open = None]
      BY <2>2 DEF Resume
    <3>. QED
      BY <1>1, <3>1, FlowNow DEF Account, Quotas, Transcripts
  <2>. QED
    BY <2>1, <2>2
<1>5. Quotas'
  BY <1>1, <1>4 DEF Account, Quotas, Charged
<1>6. Kept'
  <2>1. status # "requires_confirmation"
    BY <1>1 DEF Flow, Placed, Stopped
  <2>2. ~fallback /\ (~resumed => checkpoint = NoCheckpoint)
    BY <1>1 DEF Account, Kept
  <2>. QED
    BY <1>1, <2>1, <2>2, AccountSettles DEF Kept
<1>. QED
  BY <1>2, <1>3, <1>5, <1>6 DEF Account

LEMMA AccountLeave == ASSUME Flow, Account, Leave PROVE Account'
<1>1. /\ phase = "leave" /\ phase' = "end"
      /\ receipt' = (IF status = "running" THEN ledger ELSE receipt)
      /\ UNCHANGED <<status, checkpoint, revision, accountVars, flowVars, historyVars>>
  BY DEF Leave, Persist
<1>2. receipt'.used = receipt.used /\ ledger.reason # "waiting_confirmation"
  BY <1>1 DEF Account, Synced, Flow, Placed, Between
<1>3. Synced'
  BY <1>1, <1>2 DEF Account, Synced, Charged, accountVars
<1>4. Slots'
  BY <1>1, <1>2 DEF Account, Slots, Below, Charged, historyVars
<1>5. Quotas'
  BY <1>1 DEF Account, Quotas, Charged, accountVars, historyVars
<1>6. Kept'
  BY <1>1, <1>2 DEF Account, Kept, Flow, Placed, Stopped, accountVars, flowVars, historyVars
<1>. QED
  BY <1>3, <1>4, <1>5, <1>6 DEF Account

\* A thread that ends, whatever becomes of the run.
LEMMA AccountEnds ==
  ASSUME Flow, Account, phase' = "idle",
         UNCHANGED <<receipt, revision, effects, asked>>, Kept'
  PROVE  Account'
<1>1. Synced' /\ Slots' /\ Quotas'
  BY DEF Account, Synced, Slots, Below, Quotas, Charged
<1>. QED
  BY <1>1 DEF Account

LEMMA AccountFinish == ASSUME Flow, Account, Finish \/ FallBack \/ FailRun PROVE Account'
<1>1. CASE Finish
  <2>1. /\ phase = "end" /\ phase' = "idle" /\ ~fallback
        /\ UNCHANGED <<receipt, revision, effects, asked, fallback, resumed>>
    BY <1>1 DEF Finish, Abandon, Account, Kept, flowVars, historyVars
  <2>2. CASE status \in Stopped
    BY <1>1, <2>1, <2>2, AccountEnds DEF Finish, Heeded, Kept, Stopped
  <2>3. CASE status \notin Stopped
    <3>1. status = "running"
      BY <2>1, <2>3 DEF Flow, Placed
    <3>2. status' = FinalStatus(ledger)
          /\ checkpoint' = (IF status' = "requires_confirmation" THEN checkpoint ELSE NoCheckpoint)
      BY <1>1, <2>3 DEF Finish, Heeded
    <3>3. status' = "requires_confirmation" => ledger.reason = "waiting_confirmation"
      BY <3>2 DEF FinalStatus
    <3>4. status' = "requires_confirmation" => Approvable'
      <4>1. status' = "requires_confirmation" => Approvable /\ checkpoint' = checkpoint
        BY <2>1, <3>1, <3>2, <3>3 DEF Account, Kept
      <4>. QED
        BY <2>1, <4>1 DEF Approvable, Restorable, LedgerRestorable, ControlRestorable, Below
    <3>5. Kept'
      BY <2>1, <3>4 DEF Kept
    <3>. QED
      BY <2>1, <3>5, AccountEnds
  <2>. QED
    BY <2>2, <2>3
<1>2. CASE FallBack
  <2>1. /\ phase = "raised" /\ ~resumed /\ fallback' /\ phase' = "idle"
        /\ UNCHANGED <<receipt, checkpoint, revision, effects, asked, resumed>>
    BY <1>2 DEF FallBack, KeywordPlan, Abandon, flowVars
  <2>2. checkpoint = NoCheckpoint
    BY <2>1 DEF Account, Kept
  <2>3. Kept'
    BY <2>1, <2>2 DEF Kept
  <2>. QED
    BY <2>1, <2>3, AccountEnds
<1>3. CASE FailRun
  <2>1. /\ phase = "raised" /\ phase' = "idle"
        /\ UNCHANGED <<receipt, checkpoint, revision, effects, asked, fallback, resumed>>
        /\ status' # "requires_confirmation"
    BY <1>3 DEF FailRun, Abandon, flowVars, historyVars, Flow, Placed, Stopped
  <2>2. Kept'
    BY <2>1 DEF Account, Kept
  <2>. QED
    BY <2>1, <2>2, AccountEnds
<1>. QED
  BY <1>1, <1>2, <1>3

LEMMA AccountConfirm == ASSUME Flow, Account, Confirm PROVE Account'
<1>1. /\ phase' = "approved" /\ status = "requires_confirmation" /\ status' = "running"
      /\ Restorable(checkpoint) /\ resumed'
      /\ ledger' = checkpoint.ledger /\ control' = checkpoint.control
      /\ transcript' = checkpoint.transcript
      /\ UNCHANGED <<receipt, checkpoint, revision, effects, asked, fallback>>
  BY DEF Confirm
<1>2. ~fallback /\ Approvable
  BY <1>1, NothingToRestore DEF Account, Kept
<1>3. receipt = ledger' /\ Below(receipt.used) /\ asked = control'.model
  BY <1>1, <1>2 DEF Approvable
<1>4. receipt.pending = 1
  BY <1>1, <1>3 DEF Restorable, LedgerRestorable
<1>5. Synced'
  BY <1>1, <1>3, <1>4 DEF Synced, Charged
<1>6. Slots'
  BY <1>1, <1>3 DEF Account, Slots, Below, Charged
<1>7. Quotas'
  <2>1. /\ control'.model \in 1 .. ModelLimit - 1 /\ control'.plan = transcript'.plans
        /\ transcript'.sorted /\ transcript'.last = control'.model /\ revision <= control'.plan
    BY <1>1 DEF Restorable, ControlRestorable
  <2>2. control'.model <= control'.model
    BY <2>1, LoopConstants
  <2>. QED
    BY <1>1, <1>3, <2>1, <2>2 DEF Account, Quotas
<1>8. Kept'
  BY <1>1, <1>2 DEF Kept
<1>. QED
  BY <1>5, <1>6, <1>7, <1>8 DEF Account

LEMMA AccountStops == ASSUME Flow, Account, NEW st \in Stopped, StopRun(st) PROVE Account'
<1>1. /\ status' \in Stopped
      /\ UNCHANGED <<receipt, checkpoint, revision, phase, accountVars, flowVars, historyVars>>
  BY DEF StopRun
<1>2. Synced' /\ Slots' /\ Quotas' /\ Kept'
  BY <1>1 DEF Account, Synced, Slots, Below, Quotas, Kept, Charged, Stopped, accountVars, flowVars,
     historyVars
<1>. QED
  BY <1>2 DEF Account

LEMMA AccountStep == Flow /\ Account /\ [Next]_vars => Account'
<1>. SUFFICES ASSUME Flow, Account, [Next]_vars PROVE Account'
  OBVIOUS
<1>1. CASE AskModel
  BY <1>1, AccountAsk
<1>2. ASSUME NEW batch \in Batches, Answer(batch) PROVE Account'
  BY <1>2, AccountAnswer
<1>3. CASE NextBatch \/ CheckHandler \/ HeedStop \/ CheckApproved \/ ProviderFails \/ LoseThread
  BY <1>3, AccountMoves
     DEF NextBatch, CheckHandler, HeedStop, CheckApproved, ProviderFails, LoseThread, Abandon,
         rowVars, accountVars, flowVars, historyVars
<1>4. CASE SkipPlan \/ RefusePlan \/ UpdatePlan
  BY <1>4, AccountPlan
<1>5. CASE OmitOverBudget \/ StopRepetition
  <2>1. ledger'.used = ledger.used /\ ledger'.pending = ledger.pending
    BY <1>5, FlowNow DEF OmitOverBudget, StopRepetition, Omitting, Ledgers
  <2>2. phase = "calls" /\ phase' \in {"calls", "top"}
    BY <1>5 DEF OmitOverBudget, StopRepetition, Considered, Looking
  <2>. QED
    BY <1>5, <2>1, <2>2, AccountMoves
       DEF OmitOverBudget, StopRepetition, rowVars, accountVars, flowVars, historyVars
<1>6. CASE RejectInvalid \/ Reserve \/ SaveApproval
  BY <1>6, AccountReject, AccountReserve, AccountSave
<1>7. CASE StartHandler \/ StartApproved \/ HandlerDone \/ Resume \/ Leave
  BY <1>7, AccountStart, AccountDone, AccountLeave
<1>8. CASE Finish \/ FallBack \/ FailRun \/ Confirm
  BY <1>8, AccountFinish, AccountConfirm
<1>9. ASSUME NEW st \in Stopped, StopRun(st) PROVE Account'
  BY <1>9, AccountStops
<1>10. CASE UNCHANGED vars
  BY <1>10, AccountMoves DEF vars, rowVars, accountVars, flowVars, historyVars
<1>. QED
  BY <1>1, <1>2, <1>3, <1>4, <1>5, <1>6, <1>7, <1>8, <1>9, <1>10 DEF Next, Loop


-----------------------------------------------------------------------------
(* The loop implements the abstract account.                                 *)

Spent == {effects[i].slot : i \in DOMAIN effects}

LEMMA MapInit == Init => Reserving!Init
<1>. SUFFICES ASSUME Init PROVE Reserving!Init
  OBVIOUS
<1>1. receipt.used = 0 /\ receipt.pending = 0
  BY DEF Init, NoReceipt, NewLedger
<1>2. DOMAIN effects = {}
  BY DEF Init
<1>3. Spent = {}
  BY <1>2 DEF Spent
<1>4. receipt.used - receipt.pending = 0
  BY <1>1
<1>. QED
  BY <1>1, <1>3, <1>4 DEF Reserving!Init, Spent

\* What the abstract account sees of a step.
LEMMA MapQuiet ==
  ASSUME receipt'.used = receipt.used, receipt'.pending = receipt.pending, effects' = effects
  PROVE  UNCHANGED Reserving!vars
BY DEF Reserving!vars

LEMMA MapStart ==
  ASSUME Flow, Account, StartHandler \/ StartApproved
  PROVE  Reserving!Execute
<1>1. /\ receipt.used \in 1..Budget /\ receipt.pending = 1 /\ Below(receipt.used)
      /\ receipt' = receipt
  BY StartIs DEF rowVars
<1>2. Len(effects) \in Nat /\ DOMAIN effects' = DOMAIN effects \cup {Len(effects) + 1}
      /\ Len(effects) + 1 \notin DOMAIN effects
  <2>1. Len(effects) \in Nat
    <3>1. effects \in Seq([call : Calls, slot : 1..Budget])
      BY DEF Flow, TypeOK
    <3>. QED
      BY <3>1, LenProperties
  <2>2. DOMAIN effects' = 1..(Len(effects) + 1) /\ DOMAIN effects = 1..Len(effects)
    BY StartIs
  <2>. QED
    BY <2>1, <2>2
<1>3. Spent' = Spent \cup {receipt.used}
  <2>1. \A i \in DOMAIN effects : effects'[i].slot = effects[i].slot
    BY StartIs
  <2>2. effects'[Len(effects) + 1].slot = receipt.used
    BY StartIs
  <2>. QED
    BY <1>2, <2>1, <2>2 DEF Spent
<1>4. receipt.used \notin Spent
  <2>1. ~(receipt.used < receipt.used)
    BY <1>1, LoopConstants
  <2>. QED
    BY <1>1, <2>1 DEF Below, Spent
<1>5. receipt.used = receipt.used - 1 + 1
  BY <1>1, LoopConstants
<1>. QED
  BY <1>1, <1>3, <1>4, <1>5 DEF Reserving!Execute, Reserving!Open, Spent

LEMMA MapReserve ==
  ASSUME Flow, Account, Reserve
  PROVE  Reserving!Charge
<1>1. PICK c \in SafeCall \cup DangerousCall :
          /\ Looking(c) /\ ledger.used < Budget
          /\ ledger' = Reserved(ledger, c)
  BY DEF Reserve, Considered
<1>2. c \in External /\ c \in Calls
  BY DEF External, Calls
<1>3. phase = "calls" /\ status = "running" /\ receipt' = ledger' /\ effects' = effects
      /\ ledger.pending = 0
  BY <1>1, <1>2, FlowLooks DEF Reserve, Persist, historyVars
<1>4. ledger'.used = ledger.used + 1 /\ ledger'.pending = 1
  BY <1>1, <1>2, <1>3, FlowNow, ReservedIs
<1>5. receipt.used = ledger.used /\ receipt.pending = 0 /\ receipt.used \in Nat
  BY <1>3, ReceiptNow, LoopConstants DEF Account, Synced
<1>6. /\ receipt'.used = receipt.used + 1
      /\ receipt'.used - receipt'.pending = receipt.used - receipt.pending
      /\ receipt.used # receipt.used - receipt.pending + 1
  BY <1>3, <1>4, <1>5
<1>. QED
  BY <1>1, <1>3, <1>5, <1>6 DEF Reserving!Charge, Reserving!Open

LEMMA MapReject ==
  ASSUME Flow, Account, RejectInvalid
  PROVE  Reserving!Reject
<1>1. PICK c \in InvalidCall :
          /\ Looking(c) /\ ledger.used < Budget
          /\ ledger' = Resolved(Reserved(ledger, c), "rejected")
  BY DEF RejectInvalid, Considered
<1>2. c \in External /\ c \in Calls
  BY DEF External, Calls
<1>3. phase = "calls" /\ status = "running" /\ receipt' = ledger' /\ effects' = effects
      /\ ledger.pending = 0
  BY <1>1, <1>2, FlowLooks DEF RejectInvalid, Persist, historyVars
<1>4. ledger'.used = ledger.used + 1 /\ ledger'.pending = 0
  <2>1. /\ Reserved(ledger, c) \in Ledgers /\ Balanced(Reserved(ledger, c))
        /\ Reserved(ledger, c).pending = 1 /\ Reserved(ledger, c).used = ledger.used + 1
    BY <1>1, <1>2, <1>3, FlowNow, ReservedIs
  <2>. QED
    BY <1>1, <2>1, ResolvedIs DEF OutcomeNames
<1>5. receipt.used = ledger.used /\ receipt.pending = 0 /\ receipt.used \in Nat
  BY <1>3, ReceiptNow, LoopConstants DEF Account, Synced
<1>6. /\ receipt'.used = receipt.used + 1
      /\ receipt'.used - receipt'.pending = receipt.used - receipt.pending + 1
      /\ receipt.used # receipt.used - receipt.pending + 1
  BY <1>3, <1>4, <1>5
<1>. QED
  BY <1>1, <1>3, <1>5, <1>6 DEF Reserving!Reject, Reserving!Open

LEMMA MapSettle ==
  ASSUME Flow, Account, HandlerDone \/ Resume
  PROVE  Reserving!Settle \/ UNCHANGED Reserving!vars
<1>1. CASE status = "running"
  <2>1. /\ receipt'.used = receipt.used /\ receipt'.pending = 0 /\ receipt.pending = 1
        /\ effects' = effects /\ receipt.used \in Nat
    BY <1>1, AccountSettles, ReceiptNow, LoopConstants
  <2>2. receipt'.used - receipt'.pending = receipt.used
        /\ receipt.used = receipt.used - receipt.pending + 1
    BY <2>1
  <2>. QED
    BY <2>1, <2>2 DEF Reserving!Settle, Reserving!Open
<1>2. CASE status # "running"
  BY <1>2, AccountSettles, MapQuiet
<1>. QED
  BY <1>1, <1>2

LEMMA MapStep == Flow /\ Account /\ [Next]_vars => [Reserving!Next]_(Reserving!vars)
<1>. SUFFICES ASSUME Flow, Account, [Next]_vars
              PROVE  Reserving!Next \/ UNCHANGED Reserving!vars
  OBVIOUS
<1>1. CASE StartHandler \/ StartApproved
  BY <1>1, MapStart DEF Reserving!Next
<1>2. CASE Reserve
  BY <1>2, MapReserve DEF Reserving!Next
<1>3. CASE RejectInvalid
  BY <1>3, MapReject DEF Reserving!Next
<1>4. CASE HandlerDone \/ Resume
  BY <1>4, MapSettle DEF Reserving!Next
<1>5. CASE SaveApproval
  <2>1. /\ phase = "wait" /\ status \in {"running"} \cup Stopped /\ effects' = effects
        /\ receipt' = (IF status = "running" THEN ledger' ELSE receipt)
    BY <1>5 DEF SaveApproval, Persist, historyVars, Flow, Placed
  <2>2. receipt.used = ledger.used /\ receipt.pending = 1 /\ ledger.pending = 1
        /\ Tail(queue) \in Seq(Calls)
    BY <2>1, FlowNow DEF Account, Synced, Flow, Placed, Charged
  <2>3. ledger'.used = ledger.used /\ ledger'.pending = ledger.pending
    BY <1>5, FlowNow DEF SaveApproval, Omitting, Ledgers
  <2>. QED
    BY <2>1, <2>2, <2>3, MapQuiet
<1>6. CASE Leave
  <2>1. /\ phase = "leave" /\ effects' = effects
        /\ receipt' = (IF status = "running" THEN ledger ELSE receipt)
    BY <1>6 DEF Leave, Persist, historyVars
  <2>. QED
    BY <2>1, MapQuiet DEF Account, Synced
<1>7. CASE \/ AskModel \/ (\E batch \in Batches : Answer(batch)) \/ NextBatch
           \/ SkipPlan \/ RefusePlan \/ UpdatePlan \/ OmitOverBudget \/ StopRepetition
           \/ CheckHandler \/ HeedStop \/ Finish \/ FallBack \/ FailRun \/ CheckApproved
           \/ ProviderFails \/ Confirm \/ LoseThread \/ (\E st \in Stopped : StopRun(st))
           \/ UNCHANGED vars
  <2>1. receipt' = receipt /\ effects' = effects
    BY <1>7 DEF AskModel, Answer, NextBatch, SkipPlan, RefusePlan, UpdatePlan, OmitOverBudget,
       StopRepetition, CheckHandler, HeedStop, Finish, FallBack, KeywordPlan, FailRun,
       CheckApproved, ProviderFails, Confirm, LoseThread, StopRun, vars, rowVars, historyVars
  <2>. QED
    BY <2>1, MapQuiet
<1>. QED
  BY <1>1, <1>2, <1>3, <1>4, <1>5, <1>6, <1>7 DEF Next, Loop

(* Every external effect of a run has a reservation of its own that the     *)
(* database showed before it, within the budget of the run, through         *)
(* approvals, stops and lost threads: the loop implements ReservedEffects   *)
(* (ToolLoopLedger.reserve, _persist_execution_receipt).                    *)
THEOREM LoopReserves == Spec => EffectsReserved
<1>1. Init => Flow /\ Account /\ Reserving!Init
  BY FlowInit, AccountInit, MapInit
<1>2. Flow /\ Account /\ [Next]_vars => (Flow /\ Account)' /\ [Reserving!Next]_(Reserving!vars)
  BY FlowStep, AccountStep, MapStep
<1>. QED
  BY <1>1, <1>2, PTL DEF Spec, EffectsReserved, Reserving!Spec

(* Every variable keeps its range and ToolLoopLedger._validate never raises. *)
THEOREM LedgerBalances == Spec => []TypeOK
<1>1. Flow => TypeOK
  BY DEF Flow
<1>. QED
  BY <1>1, FlowInit, FlowStep, PTL DEF Spec


-----------------------------------------------------------------------------
(* Consent: what a dangerous handler needs before it is started.             *)

Consent ==
    /\ mode.companion => ~mode.ahead
    /\ (phase \in {"check", "handle"} /\ Head(queue) \in DangerousCall) => mode.dry \/ mode.ahead
    /\ phase \in Consented => confirms > 0
    /\ (~mode.companion /\ DangerousEffects # {}) => mode.ahead \/ confirms > 0
    /\ mode.companion =>
          Cardinality(DangerousEffects) + (IF phase \in {"approved", "applying"} THEN 1 ELSE 0)
              <= confirms

LEMMA DangerousFinite ==
  ASSUME Flow
  PROVE  IsFiniteSet(DangerousEffects) /\ Cardinality(DangerousEffects) \in Nat
<1>1. effects \in Seq([call : Calls, slot : 1..Budget])
  BY DEF Flow, TypeOK
<1>2. IsFiniteSet(1..Len(effects)) /\ DOMAIN effects = 1..Len(effects)
  BY <1>1, LenProperties, FS_Interval
<1>3. IsFiniteSet(DangerousEffects)
  BY <1>2, FS_Subset DEF DangerousEffects
<1>. QED
  BY <1>3, FS_CardinalityType

LEMMA ConsentInit == Init => Consent
<1>. SUFFICES ASSUME Init PROVE Consent
  OBVIOUS
<1>1. DangerousEffects = {}
  BY DEF Init, DangerousEffects
<1>2. Cardinality(DangerousEffects) = 0
  BY <1>1, FS_EmptySet
<1>3. mode.companion => ~mode.ahead
  BY LoopConstants DEF Init
<1>. QED
  BY <1>1, <1>2, <1>3 DEF Init, Consent, Consented

\* A step that neither reserves, nor starts a handler, nor consents.
LEMMA ConsentMoves ==
  ASSUME Flow, Consent, UNCHANGED <<mode, effects, confirms>>,
         \/ phase' = phase /\ queue' = queue
         \/ phase' \notin {"check", "handle"} \cup Consented
         \/ phase = "check" /\ phase' = "handle" /\ queue' = queue
         \/ phase = "approved" /\ phase' = "applying"
  PROVE  Consent'
<1>1. DangerousEffects' = DangerousEffects
  BY DEF DangerousEffects
<1>2. Cardinality(DangerousEffects) \in Nat /\ confirms \in Nat
  BY DangerousFinite DEF Flow, TypeOK
<1>3. mode.companion =>
          Cardinality(DangerousEffects') + (IF phase' \in {"approved", "applying"} THEN 1 ELSE 0)
              <= confirms'
  BY <1>1, <1>2 DEF Consent, Consented
<1>. QED
  BY <1>1, <1>3 DEF Consent, Consented

LEMMA ConsentReserve == ASSUME Flow, Consent, Reserve PROVE Consent'
<1>1. PICK c \in SafeCall \cup DangerousCall :
          /\ Looking(c) /\ phase' = (IF NeedsApproval(c) THEN "wait" ELSE "check")
          /\ UNCHANGED <<queue, mode, effects, confirms>>
  BY DEF Reserve, Considered, flowVars, historyVars
<1>2. phase = "calls" /\ Head(queue) = c
  BY <1>1 DEF Looking
<1>3. DangerousEffects' = DangerousEffects
  BY <1>1 DEF DangerousEffects
<1>4. (phase' = "check" /\ c \in DangerousCall) => mode.dry \/ mode.ahead
  BY <1>1 DEF NeedsApproval
<1>. QED
  BY <1>1, <1>2, <1>3, <1>4 DEF Consent, Consented

LEMMA ConsentStart == ASSUME Flow, Account, Consent, StartHandler \/ StartApproved PROVE Consent'
<1>. DEFINE n == Len(effects) + 1
<1>1. /\ phase \in {"handle", "applying"} /\ phase' \in {"result", "applied"}
      /\ UNCHANGED <<mode, queue, confirms>>
      /\ phase' = "applied" => phase = "applying"
      /\ DOMAIN effects' = 1..n /\ DOMAIN effects = 1..Len(effects)
      /\ \A i \in DOMAIN effects : effects'[i] = effects[i]
      /\ effects'[n] = [call |-> Head(queue), slot |-> receipt.used]
  BY StartIs DEF StartHandler, StartApproved, flowVars
<1>2. Len(effects) \in Nat
  <2>1. effects \in Seq([call : Calls, slot : 1..Budget])
    BY DEF Flow, TypeOK
  <2>. QED
    BY <2>1, LenProperties
<1>3. DangerousEffects' = IF Head(queue) \in DangerousCall THEN DangerousEffects \cup {n}
                          ELSE DangerousEffects
  <2>1. 1..n = 1..Len(effects) \cup {n}
    BY <1>2
  <2>. HIDE DEF n
  <2>. QED
    BY <1>1, <2>1 DEF DangerousEffects
<1>4. /\ IsFiniteSet(DangerousEffects) /\ Cardinality(DangerousEffects) \in Nat
      /\ IsFiniteSet(DangerousEffects \cup {n}) /\ confirms \in Nat
      /\ Cardinality(DangerousEffects \cup {n}) <= Cardinality(DangerousEffects) + 1
  <2>1. IsFiniteSet(DangerousEffects) /\ Cardinality(DangerousEffects) \in Nat
    BY DangerousFinite
  <2>2. /\ IsFiniteSet(DangerousEffects \cup {n})
        /\ Cardinality(DangerousEffects \cup {n}) =
              IF n \in DangerousEffects THEN Cardinality(DangerousEffects)
              ELSE Cardinality(DangerousEffects) + 1
    <3>. HIDE DEF n
    <3>. QED
      BY <2>1, FS_AddElement
  <2>3. confirms \in Nat
    BY DEF Flow, TypeOK
  <2>. QED
    BY <2>1, <2>2, <2>3
<1>5. CASE phase = "applying"
  <2>1. confirms > 0
    BY <1>5 DEF Consent, Consented
  <2>2. mode.companion => Cardinality(DangerousEffects') <= confirms
    <3>1. mode.companion => Cardinality(DangerousEffects) + 1 <= confirms
      BY <1>5 DEF Consent
    <3>2. CASE DangerousEffects' = DangerousEffects
      BY <1>4, <3>1, <3>2
    <3>3. CASE DangerousEffects' = DangerousEffects \cup {n}
      <4>1. Cardinality(DangerousEffects \cup {n}) \in Nat
        BY <1>4, FS_CardinalityType
      <4>. QED
        BY <1>4, <3>1, <3>3, <4>1
    <3>. QED
      BY <1>3, <3>2, <3>3
  <2>3. mode.companion => Cardinality(DangerousEffects') + 0 <= confirms
    <3>1. Cardinality(DangerousEffects') \in Nat
      <4>1. IsFiniteSet(DangerousEffects')
        BY <1>3, <1>4
      <4>. QED
        BY <4>1, FS_CardinalityType
    <3>. QED
      BY <2>2, <3>1
  <2>. QED
    BY <1>1, <2>1, <2>3 DEF Consent, Consented
<1>6. CASE phase = "handle"
  <2>1. phase' = "result" /\ ~mode.dry
    BY <1>6 DEF StartHandler, StartApproved
  <2>2. CASE Head(queue) \in DangerousCall
    BY <1>1, <1>6, <2>1, <2>2 DEF Consent, Consented
  <2>3. CASE Head(queue) \notin DangerousCall
    BY <1>1, <1>3, <1>6, <2>1, <2>3 DEF Consent, Consented
  <2>. QED
    BY <2>2, <2>3
<1>. QED
  BY <1>1, <1>5, <1>6

LEMMA ConsentConfirm == ASSUME Flow, Consent, Confirm PROVE Consent'
<1>1. /\ phase = "idle" /\ phase' = "approved" /\ confirms' = confirms + 1
      /\ UNCHANGED <<mode, effects>>
  BY DEF Confirm
<1>2. DangerousEffects' = DangerousEffects
  BY <1>1 DEF DangerousEffects
<1>3. Cardinality(DangerousEffects) \in Nat /\ confirms \in Nat
  BY DangerousFinite DEF Flow, TypeOK
<1>4. mode.companion => Cardinality(DangerousEffects) <= confirms
  BY <1>1, <1>3 DEF Consent
<1>5. mode.companion => Cardinality(DangerousEffects) + 1 <= confirms + 1
  BY <1>3, <1>4
<1>6. confirms + 1 > 0
  BY <1>3
<1>. QED
  BY <1>1, <1>2, <1>5, <1>6 DEF Consent, Consented

LEMMA ConsentResume == ASSUME Flow, Consent, Resume PROVE Consent'
<1>1. /\ phase \in {"applying", "applied"} /\ phase' = "top"
      /\ mode' = [mode EXCEPT !.ahead = ~mode.companion] /\ UNCHANGED <<effects, confirms>>
  BY DEF Resume, historyVars
<1>2. mode'.companion = mode.companion /\ mode'.dry = mode.dry /\ mode'.ahead = ~mode.companion
  BY <1>1 DEF Flow, TypeOK
<1>3. DangerousEffects' = DangerousEffects
  BY <1>1 DEF DangerousEffects
<1>4. Cardinality(DangerousEffects) \in Nat /\ confirms \in Nat /\ confirms > 0
  BY <1>1, DangerousFinite DEF Flow, TypeOK, Consent, Consented
<1>5. mode.companion => Cardinality(DangerousEffects) + 0 <= confirms
  BY <1>1, <1>4 DEF Consent
<1>. QED
  BY <1>1, <1>2, <1>3, <1>4, <1>5 DEF Consent, Consented

LEMMA ConsentStep == Flow /\ Account /\ Consent /\ [Next]_vars => Consent'
<1>. SUFFICES ASSUME Flow, Account, Consent, [Next]_vars PROVE Consent'
  OBVIOUS
<1>1. CASE \/ AskModel \/ NextBatch \/ OmitOverBudget \/ StopRepetition \/ RejectInvalid
           \/ SkipPlan \/ RefusePlan \/ UpdatePlan \/ (\E batch \in Batches : Answer(batch))
  <2>1. phase' \notin {"check", "handle"} \cup Consented /\ UNCHANGED <<mode, effects, confirms>>
    BY <1>1 DEF AskModel, NextBatch, OmitOverBudget, StopRepetition, RejectInvalid, SkipPlan,
       RefusePlan, UpdatePlan, Answer, Looking, Considered, Consented, flowVars, historyVars
  <2>. QED
    BY <2>1, ConsentMoves
<1>2. CASE \/ SaveApproval \/ HandlerDone \/ HeedStop \/ Leave \/ Finish \/ FallBack \/ FailRun
           \/ ProviderFails \/ LoseThread
  <2>1. phase' \notin {"check", "handle"} \cup Consented /\ UNCHANGED <<mode, effects, confirms>>
    BY <1>2 DEF SaveApproval, HandlerDone, HeedStop, Leave, Finish, FallBack, KeywordPlan, FailRun,
       ProviderFails, LoseThread, Abandon, Consented, flowVars, historyVars
  <2>. QED
    BY <2>1, ConsentMoves
<1>3. CASE CheckHandler \/ CheckApproved \/ (\E st \in Stopped : StopRun(st)) \/ UNCHANGED vars
  <2>1. /\ UNCHANGED <<mode, effects, confirms, queue>>
        /\ \/ phase' = phase
           \/ phase' = "idle"
           \/ phase = "check" /\ phase' = "handle"
           \/ phase = "approved" /\ phase' = "applying"
    BY <1>3 DEF CheckHandler, CheckApproved, StopRun, vars, flowVars, historyVars
  <2>. QED
    BY <2>1, ConsentMoves DEF Consented
<1>4. CASE Reserve
  BY <1>4, ConsentReserve
<1>5. CASE StartHandler \/ StartApproved
  BY <1>5, ConsentStart
<1>6. CASE Confirm \/ Resume
  BY <1>6, ConsentConfirm, ConsentResume
<1>. QED
  BY <1>1, <1>2, <1>3, <1>4, <1>5, <1>6 DEF Next, Loop

(* An approval can be given, lets one call through and grants no new quota: *)
(* the checkpoint of a waiting run always passes the checks of confirm_run, *)
(* on the companion channel every dangerous handler that ran had its own    *)
(* confirmation, and the model is never asked, or the plan replaced, more   *)
(* often than the limits of one run allow (_restore_loop_control).          *)
THEOREM ApprovalGivesOneCall == Spec => []ApprovalHolds
<1>1. Flow /\ Account /\ Consent => ApprovalHolds
  <2>. SUFFICES ASSUME Flow, Account, Consent PROVE ApprovalHolds
    OBVIOUS
  <2>1. ResumeAccepted
    BY DEF ResumeAccepted, Account, Kept, Approvable
  <2>2. QuotaSurvivesApproval
    BY DEF QuotaSurvivesApproval, Account, Quotas
  <2>3. ConsentPerCall
    <3>1. mode.companion => Cardinality(DangerousEffects) <= confirms
      <4>1. Cardinality(DangerousEffects) \in Nat /\ confirms \in Nat
        BY DangerousFinite DEF Flow, TypeOK
      <4>. QED
        BY <4>1 DEF Consent
    <3>. QED
      BY <3>1 DEF ConsentPerCall, Consent
  <2>. QED
    BY <2>1, <2>2, <2>3 DEF ApprovalHolds
<1>2. Init => Flow /\ Account /\ Consent
  BY FlowInit, AccountInit, ConsentInit
<1>3. Flow /\ Account /\ Consent /\ [Next]_vars => (Flow /\ Account /\ Consent)'
  BY FlowStep, AccountStep, ConsentStep
<1>. QED
  BY <1>1, <1>2, <1>3, PTL DEF Spec


-----------------------------------------------------------------------------
(* The receipt: what is missing of what the model proposed, and why the loop *)
(* ended.                                                                    *)

Closing == {"model_finished", "tool_budget"}

Reasoned ==
    /\ phase \in {"top", "calls"} =>
          \/ ledger.reason = "in_progress"
          \/ ledger.reason = "tool_budget" /\ ledger.used >= Budget
    /\ phase \in Charged \ Consented => ledger.reason = "in_progress"
    /\ phase = "ask" =>
          ledger.reason = IF control.model = ModelLimit THEN "iteration_limit"
                          ELSE IF stop THEN "duplicate_guard"
                          ELSE IF ledger.used >= Budget THEN "tool_budget" ELSE "in_progress"
    /\ phase \in {"leave", "end"} => ledger.reason # "in_progress"

Shown ==
    /\ Balanced(receipt)
    /\ (status = "running" /\ phase \in Between \cup (Charged \ Consented)) =>
          receipt.reason \in {None, "in_progress"}
    /\ (status = "running" /\ phase \in Consented) => receipt.reason = "waiting_confirmation"
    /\ (status = "running" /\ phase = "end") => receipt = ledger

\* Proposals are charged, omitted or still in the batch.
Left ==
    /\ phase \in {"top", "ask", "leave", "end", "raised"} => proposed = ledger.used + ledger.omitted
    /\ phase = "calls" => proposed = ledger.used + ledger.omitted + ExternalCount(queue)
    /\ phase \in Charged => proposed = ledger.used + ledger.omitted + ExternalCount(Tail(queue))

\* Handlers that were started ended well or failed.
Counted(l, k) == l.succeeded <= k /\ k <= l.succeeded + l.failed

Started ==
    /\ phase \in {"result", "applied"} => Counted(ledger, Len(effects) - 1)
    /\ phase \notin {"idle", "result", "applied"} => Counted(ledger, Len(effects))
    /\ phase \in {"wait", "result"} \cup Consented => ~mode.dry
    /\ (phase = "end" /\ ledger.reason = "waiting_confirmation") => ~mode.dry

\* What a thread leaves behind.
Final ==
    /\ (status = "requires_confirmation" /\ ~fallback) =>
          /\ ~mode.dry /\ receipt.reason = "waiting_confirmation"
          /\ proposed = receipt.used + receipt.omitted /\ Counted(receipt, Len(effects))
    /\ (receipt.reason \in Closing /\ status \notin Stopped) =>
          /\ phase \in {"end", "idle"}
          /\ proposed = receipt.used + receipt.omitted /\ Counted(receipt, Len(effects))
    /\ EveryProposalAccounted

Truth == Reasoned /\ Shown /\ Left /\ Started /\ Final

LEMMA Numbers ==
  ASSUME Flow
  PROVE  /\ ledger.used \in Nat /\ ledger.omitted \in Nat /\ ledger.succeeded \in Nat
         /\ ledger.failed \in Nat /\ ledger.reason \in Reasons
         /\ proposed \in Nat /\ Len(effects) \in Nat
<1>1. effects \in Seq([call : Calls, slot : 1..Budget])
  BY DEF Flow, TypeOK
<1>2. Len(effects) \in Nat
  BY <1>1, LenProperties
<1>3. ledger.used \in Nat
  BY FlowNow, LedgerFields, LoopConstants
<1>. QED
  BY <1>2, <1>3, FlowNow, LedgerFields DEF Flow, TypeOK

LEMMA EmptyBalanced == Balanced(NewLedger) /\ Balanced(NoReceipt)
<1>1. /\ NoReceipt.history = <<>> /\ NoReceipt.used = 0 /\ NoReceipt.succeeded = 0
      /\ NoReceipt.failed = 0 /\ NoReceipt.rejected = 0 /\ NoReceipt.skipped = 0
      /\ NoReceipt.pending = 0
  BY DEF NoReceipt, NewLedger
<1>. QED
  BY <1>1 DEF Balanced, NewLedger

LEMMA TruthInit == Init => Truth
<1>. SUFFICES ASSUME Init PROVE Truth
  OBVIOUS
<1>1. /\ NewLedger.reason = "in_progress" /\ NewLedger.used = 0 /\ NewLedger.omitted = 0
      /\ NewLedger.succeeded = 0 /\ NewLedger.failed = 0
  BY DEF NewLedger
<1>2. NoReceipt.reason = None
  BY DEF NoReceipt, NewLedger
<1>3. Len(effects) = 0
  BY DEF Init
<1>4. Reasoned /\ Left
  BY <1>1 DEF Init, Reasoned, Left, Charged, Consented
<1>5. Shown
  BY <1>2, EmptyBalanced DEF Init, Shown, Charged, Consented
<1>6. Started
  BY <1>1, <1>3 DEF Init, Started, Counted, Consented
<1>7. Final
  BY <1>2 DEF Init, Final, Closing, None, EveryProposalAccounted, Settled
<1>. QED
  BY <1>4, <1>5, <1>6, <1>7 DEF Truth

\* A step that leaves the thread before its end makes nothing final.
LEMMA NotFinal ==
  ASSUME Flow', Shown', phase' \notin {"end", "idle"}
  PROVE  Final'
<1>1. status' \in {"running"} \cup Stopped
  BY DEF Flow, Placed
<1>2. phase' \in Between \cup Charged
  BY DEF Flow, TypeOK, Phases, Between, Charged
<1>3. status' = "running" => receipt'.reason \notin Closing
  BY <1>2 DEF Shown, Closing, None
<1>. QED
  BY <1>1, <1>3 DEF Final, Stopped, EveryProposalAccounted, Settled

\* A step that leaves ledger and receipt as they are.
LEMMA TruthMoves ==
  ASSUME Flow, Truth,
         UNCHANGED <<status, receipt, queue, ledger, control, stop, mode, effects, proposed, fallback>>,
         \/ phase' = phase
         \/ phase' = "idle"
         \/ phase = "ask" /\ phase' = "raised"
         \/ phase = "calls" /\ queue = <<>> /\ phase' = "top"
         \/ phase = "check" /\ phase' = "handle"
         \/ phase = "approved" /\ phase' = "applying"
  PROVE  Truth'
<1>1. Reasoned'
  BY DEF Truth, Reasoned, Charged, Consented
<1>2. Shown'
  BY DEF Truth, Shown, Between, Charged, Consented, Balanced
<1>3. Left'
  <2>1. queue = <<>> => ExternalCount(queue) = 0
    BY CountOfNone
  <2>2. queue = <<>> => ledger.used + ledger.omitted + ExternalCount(queue) = ledger.used + ledger.omitted
    BY <2>1, Numbers
  <2>3. ExternalCount(queue)' = ExternalCount(queue)
        /\ ExternalCount(Tail(queue))' = ExternalCount(Tail(queue))
    BY DEF ExternalCount
  <2>. QED
    BY <2>2, <2>3 DEF Truth, Left, Charged
<1>4. Started'
  BY DEF Truth, Started, Counted, Consented
<1>5. Final'
  BY DEF Truth, Final, Shown, EveryProposalAccounted, Counted, Between, Charged, Consented, Closing,
     Flow, Placed, Stopped, None, Settled
<1>. QED
  BY <1>1, <1>2, <1>3, <1>4, <1>5 DEF Truth

LEMMA TruthAsk == ASSUME Flow, Flow', Truth, AskModel PROVE Truth'
<1>1. /\ phase = "top" /\ phase' = "ask" /\ control.model < ModelLimit
      /\ control' = [control EXCEPT !.model = @ + 1]
      /\ UNCHANGED <<status, receipt, queue, stop, mode, effects, proposed, fallback>>
  BY DEF AskModel, rowVars, flowVars
<1>2. control'.model = control.model + 1 /\ control.model \in Nat
  BY <1>1, FlowNow, LoopConstants DEF Controls
<1>3. control'.model = ModelLimit <=> control.model = ModelLimit - 1
  BY <1>2, LoopConstants
<1>4. \/ ledger.reason = "in_progress"
      \/ ledger.reason = "tool_budget" /\ ledger.used >= Budget
  BY <1>1 DEF Truth, Reasoned
<1>. DEFINE x == IF control'.model = ModelLimit THEN "iteration_limit"
                 ELSE IF stop THEN "duplicate_guard"
                 ELSE IF ledger.used >= Budget THEN "tool_budget" ELSE "in_progress"
<1>5. ledger' = [ledger EXCEPT !.reason = x]
  BY <1>3, <1>4 DEF AskModel
<1>6. x \in Reasons
  BY DEF Reasons
<1>7. /\ ledger'.reason = x /\ ledger'.used = ledger.used /\ ledger'.omitted = ledger.omitted
      /\ ledger'.succeeded = ledger.succeeded /\ ledger'.failed = ledger.failed
  <2>. HIDE DEF x
  <2>. QED
    BY <1>5, <1>6, FlowNow, ReasonIs
<1>8. Reasoned'
  BY <1>1, <1>7 DEF Reasoned, Charged
<1>9. Shown'
  BY <1>1 DEF Truth, Shown, Between, Charged, Consented, Balanced
<1>10. Left'
  BY <1>1, <1>7 DEF Truth, Left, Charged
<1>11. Started'
  BY <1>1, <1>7 DEF Truth, Started, Counted, Consented
<1>12. Final'
  BY <1>1, <1>9, NotFinal
<1>. QED
  BY <1>8, <1>9, <1>10, <1>11, <1>12 DEF Truth


LEMMA TruthAnswer ==
  ASSUME Flow, Flow', Truth, NEW batch \in Batches, Answer(batch) PROVE Truth'
<1>1. batch \in Seq(Calls)
  BY LoopConstants, SeqDef DEF Batches
<1>2. ExternalCount(batch) \in Nat
  BY <1>1, CountIsNat
<1>3. /\ phase = "ask" /\ proposed' = proposed + ExternalCount(batch)
      /\ UNCHANGED <<status, receipt, control, stop, mode, effects, fallback>>
  BY DEF Answer, rowVars
<1>4. /\ ledger.reason = IF control.model = ModelLimit THEN "iteration_limit"
                         ELSE IF stop THEN "duplicate_guard"
                         ELSE IF ledger.used >= Budget THEN "tool_budget" ELSE "in_progress"
      /\ proposed = ledger.used + ledger.omitted
      /\ Counted(ledger, Len(effects))
  BY <1>3 DEF Truth, Reasoned, Left, Started
<1>5. CASE /\ Forced /\ ledger' = Omitting(ledger, batch) /\ phase' = "leave"
  <2>1. /\ ledger'.omitted = ledger.omitted + ExternalCount(batch) /\ ledger'.used = ledger.used
        /\ ledger'.reason = ledger.reason /\ ledger'.succeeded = ledger.succeeded
        /\ ledger'.failed = ledger.failed
    BY <1>2, <1>5, FlowNow, OmittedIs DEF Omitting
  <2>2. Reasoned'
    BY <1>4, <1>5, <2>1 DEF Reasoned, Forced, Charged
  <2>3. Left'
    BY <1>2, <1>3, <1>4, <1>5, <2>1, Numbers DEF Left, Charged
  <2>4. Started'
    BY <1>3, <1>4, <1>5, <2>1 DEF Started, Counted, Consented
  <2>5. Shown'
    BY <1>3, <1>5 DEF Truth, Shown, Between, Charged, Consented, Balanced
  <2>6. Final'
    BY <1>5, <2>5, NotFinal
  <2>. QED
    BY <2>2, <2>3, <2>4, <2>5, <2>6 DEF Truth
<1>6. CASE /\ ~Forced /\ batch = <<>> /\ phase' = "leave"
           /\ ledger' = [ledger EXCEPT !.reason =
                IF ledger.used >= Budget THEN "tool_budget" ELSE "model_finished"]
  <2>. DEFINE x == IF ledger.used >= Budget THEN "tool_budget" ELSE "model_finished"
  <2>1. x \in Reasons /\ x # "in_progress"
    BY DEF Reasons
  <2>2. ledger' = [ledger EXCEPT !.reason = x]
    BY <1>6
  <2>3. /\ ledger'.omitted = ledger.omitted /\ ledger'.used = ledger.used
        /\ ledger'.reason = x /\ ledger'.succeeded = ledger.succeeded
        /\ ledger'.failed = ledger.failed /\ x # "waiting_confirmation"
    <3>1. x # "waiting_confirmation"
      OBVIOUS
    <3>. HIDE DEF x
    <3>. QED
      BY <2>1, <2>2, <3>1, FlowNow, ReasonIs
  <2>. HIDE DEF x
  <2>4. Reasoned'
    BY <1>6, <2>1, <2>3 DEF Reasoned, Charged
  <2>5. proposed' = proposed
    BY <1>3, <1>6, CountOfNone, Numbers
  <2>6. Left'
    BY <1>4, <1>6, <2>3, <2>5 DEF Left, Charged
  <2>7. Started'
    BY <1>3, <1>4, <1>6, <2>3 DEF Started, Counted, Consented
  <2>8. Shown'
    BY <1>3, <1>6 DEF Truth, Shown, Between, Charged, Consented, Balanced
  <2>9. Final'
    BY <1>6, <2>8, NotFinal
  <2>. QED
    BY <2>4, <2>6, <2>7, <2>8, <2>9 DEF Truth
<1>7. CASE ~Forced /\ phase' = "calls" /\ queue' = batch /\ UNCHANGED ledger
  <2>1. Reasoned'
    BY <1>3, <1>4, <1>7 DEF Reasoned, Forced, Charged
  <2>2. Left'
    BY <1>2, <1>3, <1>4, <1>7, Numbers DEF Left, Charged, ExternalCount
  <2>3. Started'
    BY <1>3, <1>4, <1>7 DEF Started, Counted, Consented
  <2>4. Shown'
    BY <1>3, <1>7 DEF Truth, Shown, Between, Charged, Consented, Balanced
  <2>5. Final'
    BY <1>7, <2>4, NotFinal
  <2>. QED
    BY <2>1, <2>2, <2>3, <2>4, <2>5 DEF Truth
<1>. QED
  BY <1>5, <1>6, <1>7 DEF Answer

\* A step from one call of the batch to the next which leaves the run's row alone.
LEMMA TruthNext ==
  ASSUME Flow, Flow', Truth, phase = "calls", phase' \in {"calls", "top"},
         UNCHANGED <<status, receipt, mode, effects, proposed, fallback>>,
         ledger'.used = ledger.used, ledger'.reason = ledger.reason,
         ledger'.succeeded = ledger.succeeded, ledger'.failed = ledger.failed,
         phase' = "calls" =>
            ledger'.omitted + ExternalCount(queue') = ledger.omitted + ExternalCount(queue),
         phase' = "top" => ledger'.omitted = ledger.omitted + ExternalCount(queue)
  PROVE  Truth'
<1>1. Reasoned'
  BY DEF Truth, Reasoned, Charged
<1>2. Shown'
  BY DEF Truth, Shown, Between, Charged, Consented, Balanced
<1>3. Left'
  <2>1. ExternalCount(queue) \in Nat /\ ExternalCount(queue') \in Nat
    BY FlowNow, CountIsNat DEF Flow, TypeOK
  <2>2. ledger'.omitted \in Nat
    BY LedgerFields DEF Flow, TypeOK
  <2>3. proposed = ledger.used + ledger.omitted + ExternalCount(queue)
    BY DEF Truth, Left
  <2>4. CASE phase' = "calls"
    <3>1. proposed = ledger.used + (ledger'.omitted + ExternalCount(queue'))
      BY <2>1, <2>2, <2>3, <2>4, Numbers
    <3>2. proposed' = ledger'.used + ledger'.omitted + ExternalCount(queue')
      BY <2>1, <2>2, <3>1, Numbers
    <3>3. ExternalCount(queue)' = ExternalCount(queue')
      BY DEF ExternalCount
    <3>. QED
      BY <2>4, <3>2, <3>3 DEF Left, Charged
  <2>5. CASE phase' = "top"
    <3>1. proposed' = ledger'.used + ledger'.omitted
      BY <2>1, <2>2, <2>3, <2>5, Numbers
    <3>. QED
      BY <2>5, <3>1 DEF Left, Charged
  <2>. QED
    BY <2>4, <2>5
<1>4. Started'
  BY DEF Truth, Started, Counted, Consented
<1>5. Final'
  BY <1>2, NotFinal
<1>. QED
  BY <1>1, <1>2, <1>3, <1>4, <1>5 DEF Truth

LEMMA TruthPlan == ASSUME Flow, Flow', Truth, SkipPlan \/ RefusePlan \/ UpdatePlan PROVE Truth'
<1>1. PlanCall \in Calls /\ Looking(PlanCall)
  BY DEF SkipPlan, RefusePlan, UpdatePlan, Calls
<1>2. /\ phase = "calls" /\ phase' = "calls" /\ queue' = Tail(queue) /\ ledger' = ledger
      /\ UNCHANGED <<status, receipt, mode, effects, proposed, fallback>>
  BY <1>1, FlowLooks
     DEF SkipPlan, RefusePlan, UpdatePlan, rowVars, accountVars, flowVars, historyVars
<1>3. ExternalCount(Tail(queue)) = ExternalCount(queue)
  <2>1. queue \in Seq(Calls) /\ queue # <<>> /\ Head(queue) = PlanCall /\ Tail(queue) \in Seq(Calls)
    BY <1>1, FlowNow, FlowLooks
  <2>2. ExternalCount(queue) = ExternalCount(Tail(queue)) + 0 /\ ExternalCount(Tail(queue)) \in Nat
    BY <2>1, CountOfHead, CountIsNat
  <2>. QED
    BY <2>2
<1>. QED
  BY <1>2, <1>3, TruthNext

\* One call of the batch is charged, or omitted.
LEMMA OneIsCharged ==
  ASSUME NEW u \in Nat, NEW o \in Nat, NEW m \in Nat
  PROVE  /\ u + o + (m + 1) = (u + 1) + o + m
         /\ (o + 1) + m = o + (m + 1)
OBVIOUS

LEMMA TruthOmit == ASSUME Flow, Flow', Truth, OmitOverBudget \/ StopRepetition PROVE Truth'
<1>1. PICK c \in External : Looking(c)
  BY DEF OmitOverBudget, StopRepetition, Considered
<1>2. c \in Calls /\ c # PlanCall
  BY LoopConstants DEF Calls
<1>3. /\ phase = "calls" /\ queue \in Seq(Calls) /\ queue # <<>> /\ Head(queue) = c
      /\ UNCHANGED <<status, receipt, mode, effects, proposed, fallback>>
  BY <1>1, <1>2, FlowNow, FlowLooks
     DEF OmitOverBudget, StopRepetition, rowVars, flowVars, historyVars
<1>4. ExternalCount(queue) = ExternalCount(Tail(queue)) + 1
      /\ ExternalCount(queue) \in Nat /\ ExternalCount(Tail(queue)) \in Nat
  BY <1>2, <1>3, CountOfHead, CountIsNat
<1>5. CASE OmitOverBudget
  <2>1. ledger' = [ledger EXCEPT !.omitted = @ + 1] /\ phase' = phase /\ queue' = Tail(queue)
        /\ 1 \in Nat
    BY <1>5 DEF OmitOverBudget
  <2>2. /\ ledger'.omitted = ledger.omitted + 1 /\ ledger'.used = ledger.used
        /\ ledger'.reason = ledger.reason /\ ledger'.succeeded = ledger.succeeded
        /\ ledger'.failed = ledger.failed
    BY <2>1, FlowNow, OmittedIs
  <2>3. (ledger.omitted + 1) + ExternalCount(Tail(queue)) =
            ledger.omitted + (ExternalCount(Tail(queue)) + 1)
    BY <1>4, Numbers, OneIsCharged
  <2>4. ledger'.omitted + ExternalCount(queue') = ledger.omitted + ExternalCount(queue)
    BY <1>4, <2>1, <2>2, <2>3
  <2>. QED
    BY <1>3, <2>1, <2>2, <2>4, TruthNext
<1>6. CASE StopRepetition
  <2>1. ledger' = [ledger EXCEPT !.omitted = @ + ExternalCount(queue)] /\ phase' = "top"
    BY <1>6 DEF StopRepetition, Omitting
  <2>2. /\ ledger'.omitted = ledger.omitted + ExternalCount(queue) /\ ledger'.used = ledger.used
        /\ ledger'.reason = ledger.reason /\ ledger'.succeeded = ledger.succeeded
        /\ ledger'.failed = ledger.failed
    BY <1>4, <2>1, FlowNow, OmittedIs
  <2>. QED
    BY <1>3, <2>1, <2>2, TruthNext
<1>. QED
  BY <1>5, <1>6


LEMMA TruthReject == ASSUME Flow, Flow', Truth, RejectInvalid PROVE Truth'
<1>1. PICK c \in InvalidCall :
          /\ Looking(c) /\ ledger.used < Budget
          /\ ledger' = Resolved(Reserved(ledger, c), "rejected")
  BY DEF RejectInvalid, Considered
<1>2. c \in External /\ c \in Calls /\ c # PlanCall
  BY LoopConstants DEF External, Calls
<1>3. /\ phase = "calls" /\ phase' = "calls" /\ status = "running" /\ receipt' = ledger'
      /\ queue \in Seq(Calls) /\ queue # <<>> /\ Head(queue) = c /\ queue' = Tail(queue)
      /\ ledger.pending = 0
      /\ UNCHANGED <<status, mode, effects, proposed, fallback>>
  BY <1>1, <1>2, FlowNow, FlowLooks DEF RejectInvalid, Persist, flowVars, historyVars
<1>4. /\ ledger'.used = ledger.used + 1 /\ ledger'.omitted = ledger.omitted
      /\ ledger'.succeeded = ledger.succeeded /\ ledger'.failed = ledger.failed
      /\ ledger'.reason = ledger.reason /\ Balanced(ledger')
  <2>. DEFINE l == Reserved(ledger, c)
  <2>1. /\ l \in Ledgers /\ Balanced(l) /\ l.pending = 1 /\ l.used = ledger.used + 1
        /\ l.omitted = ledger.omitted /\ l.succeeded = ledger.succeeded
        /\ l.failed = ledger.failed /\ l.reason = ledger.reason
    BY <1>1, <1>2, <1>3, FlowNow, ReservedIs
  <2>2. ledger' = Resolved(l, "rejected")
    BY <1>1
  <2>. HIDE DEF l
  <2>3. /\ ledger'.succeeded = l.succeeded + 0 /\ ledger'.failed = l.failed + 0
        /\ ledger'.used = l.used /\ ledger'.omitted = l.omitted /\ ledger'.reason = l.reason
        /\ Balanced(ledger')
    BY <2>1, <2>2, ResolvedIs DEF OutcomeNames
  <2>. QED
    BY <2>1, <2>3, Numbers
<1>5. ledger.reason = "in_progress"
  <2>1. ~(ledger.used >= Budget)
    BY <1>1, Numbers, LoopConstants
  <2>. QED
    BY <1>3, <2>1 DEF Truth, Reasoned
<1>6. Reasoned'
  BY <1>3, <1>4, <1>5 DEF Reasoned, Charged
<1>7. Shown'
  BY <1>3, <1>4, <1>5 DEF Shown, Between, Charged, Consented, Balanced
<1>8. Left'
  <2>1. ExternalCount(queue) = ExternalCount(Tail(queue)) + 1 /\ ExternalCount(Tail(queue)) \in Nat
    BY <1>2, <1>3, CountOfHead, CountIsNat
  <2>2. proposed = ledger.used + ledger.omitted + ExternalCount(queue)
    BY <1>3 DEF Truth, Left
  <2>3. proposed = (ledger.used + 1) + ledger.omitted + ExternalCount(Tail(queue))
    <3>. DEFINE m == ExternalCount(Tail(queue))
    <3>1. m \in Nat /\ proposed = ledger.used + ledger.omitted + (m + 1)
      BY <2>1, <2>2
    <3>. HIDE DEF m
    <3>2. proposed = (ledger.used + 1) + ledger.omitted + m
      <4>1. ledger.used \in Nat /\ ledger.omitted \in Nat
        BY Numbers
      <4>. QED
        BY <3>1, <4>1, OneIsCharged
    <3>. QED
      BY <3>2 DEF m
  <2>5. proposed' = ledger'.used + ledger'.omitted + ExternalCount(queue')
    BY <1>3, <1>4, <2>3
  <2>4. ExternalCount(queue)' = ExternalCount(queue')
    BY DEF ExternalCount
  <2>. QED
    BY <1>3, <2>4, <2>5 DEF Left, Charged
<1>9. Started'
  BY <1>3, <1>4 DEF Truth, Started, Counted, Consented
<1>10. Final'
  BY <1>3, <1>7, NotFinal
<1>. QED
  BY <1>6, <1>7, <1>8, <1>9, <1>10 DEF Truth

LEMMA TruthReserve == ASSUME Flow, Flow', Truth, Reserve PROVE Truth'
<1>1. PICK c \in SafeCall \cup DangerousCall :
          /\ Looking(c) /\ ledger.used < Budget
          /\ ledger' = Reserved(ledger, c)
          /\ phase' = (IF NeedsApproval(c) THEN "wait" ELSE "check")
  BY DEF Reserve, Considered
<1>2. c \in External /\ c \in Calls /\ c # PlanCall
  BY LoopConstants DEF External, Calls
<1>3. /\ phase = "calls" /\ phase' \in {"wait", "check"} /\ status = "running" /\ receipt' = ledger'
      /\ queue \in Seq(Calls) /\ queue # <<>> /\ Head(queue) = c /\ queue' = queue
      /\ ledger.pending = 0
      /\ UNCHANGED <<status, mode, effects, proposed, fallback>>
  BY <1>1, <1>2, FlowNow, FlowLooks DEF Reserve, Persist, flowVars, historyVars
<1>4. /\ ledger'.used = ledger.used + 1 /\ ledger'.omitted = ledger.omitted
      /\ ledger'.succeeded = ledger.succeeded /\ ledger'.failed = ledger.failed
      /\ ledger'.reason = ledger.reason /\ Balanced(ledger')
  BY <1>1, <1>2, <1>3, FlowNow, ReservedIs
<1>5. ledger.reason = "in_progress"
  <2>1. ~(ledger.used >= Budget)
    BY <1>1, Numbers, LoopConstants
  <2>. QED
    BY <1>3, <2>1 DEF Truth, Reasoned
<1>6. Reasoned'
  BY <1>3, <1>4, <1>5 DEF Reasoned, Charged
<1>7. Shown'
  BY <1>3, <1>4, <1>5 DEF Shown, Between, Charged, Consented, Balanced
<1>8. Left'
  <2>1. ExternalCount(queue) = ExternalCount(Tail(queue)) + 1 /\ ExternalCount(Tail(queue)) \in Nat
    BY <1>2, <1>3, CountOfHead, CountIsNat
  <2>2. proposed = ledger.used + ledger.omitted + ExternalCount(queue)
    BY <1>3 DEF Truth, Left
  <2>3. proposed = (ledger.used + 1) + ledger.omitted + ExternalCount(Tail(queue))
    <3>. DEFINE m == ExternalCount(Tail(queue))
    <3>1. m \in Nat /\ proposed = ledger.used + ledger.omitted + (m + 1)
      BY <2>1, <2>2
    <3>. HIDE DEF m
    <3>2. proposed = (ledger.used + 1) + ledger.omitted + m
      <4>1. ledger.used \in Nat /\ ledger.omitted \in Nat
        BY Numbers
      <4>. QED
        BY <3>1, <4>1, OneIsCharged
    <3>. QED
      BY <3>2 DEF m
  <2>5. proposed' = ledger'.used + ledger'.omitted + ExternalCount(Tail(queue'))
    BY <1>3, <1>4, <2>3
  <2>4. ExternalCount(Tail(queue))' = ExternalCount(Tail(queue'))
    BY DEF ExternalCount
  <2>. QED
    BY <1>3, <2>4, <2>5 DEF Left, Charged
<1>9. Started'
  <2>1. phase' = "wait" => ~mode.dry
    BY <1>1 DEF NeedsApproval
  <2>. QED
    BY <1>3, <1>4, <2>1 DEF Truth, Started, Counted, Consented
<1>10. Final'
  BY <1>3, <1>7, NotFinal
<1>. QED
  BY <1>6, <1>7, <1>8, <1>9, <1>10 DEF Truth

LEMMA TruthSave == ASSUME Flow, Flow', Truth, SaveApproval PROVE Truth'
<1>. DEFINE left == ExternalCount(Tail(queue))
            over == Omitting(ledger, Tail(queue))
<1>1. /\ phase = "wait" /\ phase' = "end" /\ queue # <<>> /\ Tail(queue) \in Seq(Calls)
      /\ status \in {"running"} \cup Stopped
      /\ ledger' = [over EXCEPT !.reason = "waiting_confirmation"]
      /\ receipt' = (IF status = "running" THEN ledger' ELSE receipt)
      /\ UNCHANGED <<status, mode, effects, proposed, fallback>>
  BY FlowNow DEF SaveApproval, Persist, Flow, Placed, Charged, flowVars, historyVars
<1>2. left \in Nat
  BY <1>1, CountIsNat
<1>3. /\ over \in Ledgers /\ Balanced(over) /\ over.used = ledger.used
      /\ over.omitted = ledger.omitted + left
      /\ over.succeeded = ledger.succeeded /\ over.failed = ledger.failed
  BY <1>2, FlowNow, OmittedIs DEF Omitting
<1>4. /\ ledger'.used = ledger.used /\ ledger'.omitted = ledger.omitted + left
      /\ ledger'.succeeded = ledger.succeeded /\ ledger'.failed = ledger.failed
      /\ ledger'.reason = "waiting_confirmation" /\ Balanced(ledger')
  <2>1. "waiting_confirmation" \in Reasons
    BY DEF Reasons
  <2>. HIDE DEF over, left
  <2>. QED
    BY <1>1, <1>3, <2>1, ReasonIs
<1>5. proposed = ledger.used + ledger.omitted + left /\ Counted(ledger, Len(effects)) /\ ~mode.dry
  BY <1>1 DEF Truth, Left, Started, Charged
<1>6. proposed' = ledger'.used + ledger'.omitted
  <2>. HIDE DEF left
  <2>. QED
    BY <1>1, <1>2, <1>4, <1>5, Numbers
<1>7. Reasoned'
  BY <1>1, <1>4 DEF Reasoned, Charged
<1>8. Balanced(receipt)'
  <2>1. Balanced(receipt)
    BY DEF Truth, Shown
  <2>. QED
    BY <1>1, <1>4, <2>1 DEF Balanced
<1>9. Shown'
  BY <1>1, <1>8 DEF Shown, Between, Charged, Consented, Stopped
<1>10. Left'
  BY <1>1, <1>6 DEF Left, Charged
<1>11. Started'
  BY <1>1, <1>4, <1>5 DEF Started, Counted, Consented
<1>12. Final'
  <2>1. status' \in {"running"} \cup Stopped
    BY <1>1
  <2>2. status' = "running" => receipt'.reason \notin Closing
    BY <1>1, <1>4 DEF Closing
  <2>. QED
    BY <2>1, <2>2 DEF Final, EveryProposalAccounted, Stopped, Settled
<1>. QED
  BY <1>7, <1>9, <1>10, <1>11, <1>12 DEF Truth

LEMMA TruthStart ==
  ASSUME Flow, Flow', Account, Truth, StartHandler \/ StartApproved PROVE Truth'
<1>1. /\ phase \in {"handle", "applying"} /\ phase' \in {"result", "applied"}
      /\ phase' = "applied" <=> phase = "applying"
      /\ UNCHANGED <<rowVars, queue, accountVars, flowVars, proposed, fallback>>
  BY StartIs DEF StartHandler, StartApproved
<1>2. Len(effects') = Len(effects) + 1
  BY StartIs
<1>3. Reasoned'
  BY <1>1 DEF Truth, Reasoned, Charged, Consented, accountVars
<1>4. Shown'
  BY <1>1 DEF Truth, Shown, Between, Charged, Consented, Balanced, rowVars
<1>5. Left'
  BY <1>1 DEF Truth, Left, Charged, accountVars, ExternalCount
<1>6. Started'
  <2>1. Counted(ledger, Len(effects))
    BY <1>1 DEF Truth, Started
  <2>2. Len(effects') - 1 = Len(effects)
    BY <1>2, Numbers
  <2>3. ~mode.dry
    BY <1>1 DEF Truth, Started, Consented, StartHandler, StartApproved
  <2>. QED
    BY <1>1, <2>1, <2>2, <2>3 DEF Started, Counted, Consented, accountVars, flowVars
<1>7. Final'
  BY <1>1, <1>4, NotFinal
<1>. QED
  BY <1>3, <1>4, <1>5, <1>6, <1>7 DEF Truth

LEMMA CountedMoves ==
  ASSUME NEW s \in Nat, NEW f \in Nat, NEW k \in Nat
  PROVE  /\ (s <= k - 1 /\ k - 1 <= s + f) => /\ s + 1 <= k /\ k <= (s + 1) + f
                                             /\ s <= k /\ k <= s + (f + 1)
         /\ (s <= k /\ k <= s + f) => s <= k /\ k <= s + (f + 1)
OBVIOUS

\* A handler that was started is counted once, well or failed; one that was not
\* is never counted as done.
LEMMA OutcomeCounts ==
  ASSUME Flow, Truth, phase \in {"handle", "result", "applying", "applied"}, NEW o \in Outcomes
  PROVE  LET r == Resolved(ledger, o) IN
         /\ r \in Ledgers /\ Balanced(r) /\ r.reason = ledger.reason
         /\ r.used = ledger.used /\ r.omitted = ledger.omitted
         /\ Counted(r, Len(effects))
<1>. DEFINE r == Resolved(ledger, o)
            k == Len(effects)
<1>1. o \in OutcomeNames /\ ledger.pending = 1
  BY OutcomesAre DEF Flow, TypeOK, Placed, Charged
<1>2. /\ r \in Ledgers /\ Balanced(r) /\ r.reason = ledger.reason
      /\ r.used = ledger.used /\ r.omitted = ledger.omitted
      /\ r.succeeded = ledger.succeeded + (IF o = "completed" THEN 1 ELSE 0)
      /\ r.failed = ledger.failed + (IF o = "failed" THEN 1 ELSE 0)
  BY <1>1, FlowNow, ResolvedIs
<1>3. ledger.succeeded \in Nat /\ ledger.failed \in Nat /\ k \in Nat
  BY Numbers
<1>4. /\ ledger.succeeded + 0 = ledger.succeeded /\ ledger.failed + 0 = ledger.failed
  BY <1>3
<1>. HIDE DEF r, k
<1>5. CASE phase \in {"result", "applied"}
  <2>1. o \in {"completed", "failed"}
    <3>1. ~mode.dry
      BY <1>5 DEF Truth, Started, Consented
    <3>. QED
      BY <1>5, <3>1 DEF Outcomes
  <2>2. ledger.succeeded <= k - 1 /\ k - 1 <= ledger.succeeded + ledger.failed
    BY <1>5 DEF Truth, Started, Counted, k
  <2>3. /\ ledger.succeeded + 1 <= k /\ k <= (ledger.succeeded + 1) + ledger.failed
        /\ ledger.succeeded <= k /\ k <= ledger.succeeded + (ledger.failed + 1)
    BY <1>3, <2>2, CountedMoves
  <2>4. Counted(r, k)
    <3>1. CASE o = "completed"
      <4>1. r.succeeded = ledger.succeeded + 1 /\ r.failed = ledger.failed
        BY <1>2, <1>4, <3>1
      <4>. QED
        BY <2>3, <4>1 DEF Counted
    <3>2. CASE o = "failed"
      <4>1. r.succeeded = ledger.succeeded /\ r.failed = ledger.failed + 1
        BY <1>2, <1>4, <3>2
      <4>. QED
        BY <2>3, <4>1 DEF Counted
    <3>. QED
      BY <2>1, <3>1, <3>2
  <2>. QED
    BY <1>2, <2>4 DEF r, k
<1>6. CASE phase \in {"handle", "applying"}
  <2>1. o \in {"skipped", "failed"}
    <3>1. CASE mode.dry
      BY <3>1 DEF Outcomes
    <3>2. CASE ~mode.dry
      BY <1>6, <3>2 DEF Outcomes
    <3>. QED
      BY <3>1, <3>2
  <2>2. ledger.succeeded <= k /\ k <= ledger.succeeded + ledger.failed
    BY <1>6 DEF Truth, Started, Counted, k
  <2>3. ledger.succeeded <= k /\ k <= ledger.succeeded + (ledger.failed + 1)
    BY <1>3, <2>2, CountedMoves
  <2>4. Counted(r, k)
    <3>1. CASE o = "skipped"
      <4>1. r.succeeded = ledger.succeeded /\ r.failed = ledger.failed
        BY <1>2, <1>4, <3>1
      <4>. QED
        BY <2>2, <4>1 DEF Counted
    <3>2. CASE o = "failed"
      <4>1. r.succeeded = ledger.succeeded /\ r.failed = ledger.failed + 1
        BY <1>2, <1>4, <3>2
      <4>. QED
        BY <2>3, <4>1 DEF Counted
    <3>. QED
      BY <2>1, <3>1, <3>2
  <2>. QED
    BY <1>2, <2>4 DEF r, k
<1>. QED
  BY <1>5, <1>6

LEMMA TruthDone == ASSUME Flow, Flow', Truth, HandlerDone PROVE Truth'
<1>1. PICK o \in Outcomes : ledger' = Resolved(ledger, o)
  BY DEF HandlerDone
<1>2. /\ phase \in {"handle", "result"} /\ phase' = "calls" /\ queue' = Tail(queue)
      /\ status \in {"running"} \cup Stopped
      /\ receipt' = (IF status = "running" THEN ledger' ELSE receipt)
      /\ UNCHANGED <<status, mode, effects, proposed, fallback>>
  BY DEF HandlerDone, Persist, Flow, Placed, flowVars, historyVars
<1>3. /\ Balanced(ledger') /\ ledger'.reason = ledger.reason
      /\ ledger'.used = ledger.used /\ ledger'.omitted = ledger.omitted
      /\ Counted(ledger', Len(effects))
  BY <1>1, <1>2, OutcomeCounts
<1>4. ledger.reason = "in_progress"
  BY <1>2 DEF Truth, Reasoned, Charged, Consented
<1>5. Reasoned'
  BY <1>2, <1>3, <1>4 DEF Reasoned, Charged
<1>6. Balanced(receipt)'
  <2>1. Balanced(receipt)
    BY DEF Truth, Shown
  <2>. QED
    BY <1>2, <1>3, <2>1 DEF Balanced
<1>7. Shown'
  BY <1>2, <1>3, <1>4, <1>6 DEF Shown, Between, Charged, Consented
<1>8. Left'
  <2>1. proposed = ledger.used + ledger.omitted + ExternalCount(Tail(queue))
    BY <1>2 DEF Truth, Left, Charged
  <2>2. ExternalCount(queue)' = ExternalCount(queue')
    BY DEF ExternalCount
  <2>. QED
    BY <1>2, <1>3, <2>1, <2>2 DEF Left, Charged
<1>9. Started'
  BY <1>2, <1>3 DEF Started, Counted, Consented
<1>10. Final'
  BY <1>2, <1>7, NotFinal
<1>. QED
  BY <1>5, <1>7, <1>8, <1>9, <1>10 DEF Truth

LEMMA TruthResume == ASSUME Flow, Flow', Truth, Resume PROVE Truth'
<1>1. PICK o \in Outcomes : ledger' = [Resolved(ledger, o) EXCEPT !.reason = "in_progress"]
  BY DEF Resume
<1>2. /\ phase \in {"applying", "applied"} /\ phase' = "top" /\ Tail(queue) = <<>>
      /\ status \in {"running"} \cup Stopped
      /\ receipt' = (IF status = "running" THEN ledger' ELSE receipt)
      /\ UNCHANGED <<status, effects, proposed, fallback>>
  BY DEF Resume, Persist, Flow, Placed, Consented, historyVars
<1>3. /\ Balanced(ledger') /\ ledger'.reason = "in_progress"
      /\ ledger'.used = ledger.used /\ ledger'.omitted = ledger.omitted
      /\ Counted(ledger', Len(effects))
  <2>. DEFINE l == Resolved(ledger, o)
  <2>1. /\ l \in Ledgers /\ Balanced(l) /\ Counted(l, Len(effects))
        /\ l.used = ledger.used /\ l.omitted = ledger.omitted
    BY <1>2, OutcomeCounts
  <2>2. "in_progress" \in Reasons /\ ledger' = [l EXCEPT !.reason = "in_progress"]
    BY <1>1 DEF Reasons
  <2>. HIDE DEF l
  <2>3. /\ Balanced(ledger') /\ ledger'.reason = "in_progress"
        /\ ledger'.used = l.used /\ ledger'.omitted = l.omitted
        /\ ledger'.succeeded = l.succeeded /\ ledger'.failed = l.failed
    BY <2>1, <2>2, ReasonIs
  <2>. QED
    BY <2>1, <2>3 DEF Counted
<1>4. Reasoned'
  BY <1>2, <1>3 DEF Reasoned, Charged
<1>5. Balanced(receipt)'
  <2>1. Balanced(receipt)
    BY DEF Truth, Shown
  <2>. QED
    BY <1>2, <1>3, <2>1 DEF Balanced
<1>6. Shown'
  BY <1>2, <1>3, <1>5 DEF Shown, Between, Charged, Consented
<1>7. Left'
  <2>1. proposed = ledger.used + ledger.omitted + ExternalCount(<<>>)
    BY <1>2 DEF Truth, Left, Charged
  <2>2. proposed = ledger.used + ledger.omitted
    BY <2>1, CountOfNone, Numbers
  <2>. QED
    BY <1>2, <1>3, <2>2 DEF Left, Charged
<1>8. Started'
  BY <1>2, <1>3 DEF Started, Counted, Consented
<1>9. Final'
  BY <1>2, <1>6, NotFinal
<1>. QED
  BY <1>4, <1>6, <1>7, <1>8, <1>9 DEF Truth

LEMMA TruthLeave == ASSUME Flow, Flow', Truth, Leave PROVE Truth'
<1>1. /\ phase = "leave" /\ phase' = "end" /\ status \in {"running"} \cup Stopped
      /\ receipt' = (IF status = "running" THEN ledger ELSE receipt)
      /\ ledger.reason # "waiting_confirmation"
      /\ UNCHANGED <<status, ledger, mode, effects, proposed, fallback>>
  BY DEF Leave, Persist, Flow, Placed, Between, accountVars, flowVars, historyVars
<1>2. /\ ledger.reason # "in_progress" /\ Balanced(receipt) /\ Balanced(ledger)
      /\ proposed = ledger.used + ledger.omitted /\ Counted(ledger, Len(effects))
  BY <1>1, FlowNow DEF Truth, Reasoned, Shown, Left, Started, Consented
<1>3. Reasoned'
  BY <1>1, <1>2 DEF Reasoned, Charged
<1>4. Balanced(receipt)'
  BY <1>1, <1>2 DEF Balanced
<1>5. Shown'
  BY <1>1, <1>4 DEF Shown, Between, Charged, Consented
<1>6. Left'
  BY <1>1, <1>2 DEF Left, Charged
<1>7. Started'
  BY <1>1, <1>2 DEF Started, Counted, Consented
<1>8. Final'
  BY <1>1, <1>2 DEF Final, EveryProposalAccounted, Stopped, Settled, Counted
<1>. QED
  BY <1>3, <1>5, <1>6, <1>7, <1>8 DEF Truth

\* A thread that ends.
LEMMA TruthEnds ==
  ASSUME Truth, phase' = "idle", receipt' = receipt, Final'
  PROVE  Truth'
<1>1. Shown'
  BY DEF Truth, Shown, Between, Charged, Consented, Balanced
<1>2. Reasoned' /\ Left' /\ Started'
  BY DEF Reasoned, Left, Started, Charged, Consented
<1>. QED
  BY <1>1, <1>2 DEF Truth

LEMMA TruthFinish == ASSUME Flow, Truth, Finish \/ FallBack \/ FailRun PROVE Truth'
<1>1. CASE Finish
  <2>1. /\ phase = "end" /\ phase' = "idle" /\ status \in {"running"} \cup Stopped
        /\ UNCHANGED <<receipt, ledger, mode, effects, proposed, fallback>>
    BY <1>1 DEF Finish, Abandon, Flow, Placed, accountVars, flowVars, historyVars
  <2>2. CASE status \in Stopped
    <3>1. status' \in Stopped
      BY <1>1, <2>2 DEF Finish, Heeded
    <3>2. Final'
      BY <3>1 DEF Final, EveryProposalAccounted, Stopped, Settled
    <3>. QED
      BY <2>1, <3>2, TruthEnds
  <2>3. CASE status = "running"
    <3>1. /\ receipt = ledger /\ ledger.reason \in Reasons
          /\ proposed = ledger.used + ledger.omitted /\ Counted(ledger, Len(effects))
          /\ ledger.reason = "waiting_confirmation" => ~mode.dry
      BY <2>1, <2>3, Numbers DEF Truth, Shown, Left, Started, Consented
    <3>2. status' = "requires_confirmation" => ledger.reason = "waiting_confirmation"
      <4>1. status' = FinalStatus(ledger)
        BY <1>1, <2>3 DEF Finish, Heeded, Stopped
      <4>. QED
        BY <4>1 DEF FinalStatus
    <3>3. receipt # NoReceipt
      <4>1. NoReceipt.reason = None
        BY DEF NoReceipt, NewLedger
      <4>. QED
        BY <3>1, <4>1 DEF Reasons, None
    <3>4. Final'
      BY <2>1, <3>1, <3>2, <3>3 DEF Final, EveryProposalAccounted, Counted, NoReceipt, NewLedger
    <3>. QED
      BY <2>1, <3>4, TruthEnds
  <2>. QED
    BY <2>1, <2>2, <2>3
<1>2. CASE FallBack \/ FailRun
  <2>1. /\ phase = "raised" /\ phase' = "idle" /\ status \in {"running"} \cup Stopped
        /\ receipt' = receipt
    BY <1>2 DEF FallBack, KeywordPlan, FailRun, Abandon, Flow, Placed
  <2>2. status = "running" => receipt.reason \in {None, "in_progress"}
    BY <2>1 DEF Truth, Shown, Between
  <2>3. status \in Stopped => status' = status
    BY <1>2 DEF FallBack, KeywordPlan, FailRun, Heeded, Stopped
  <2>4. fallback' \/ status' = "failed" \/ status' \in Stopped
    BY <1>2, <2>1 DEF FallBack, KeywordPlan, FailRun
  <2>5. Final'
    BY <2>1, <2>2, <2>3, <2>4
       DEF Final, EveryProposalAccounted, Stopped, Settled, Closing, None
  <2>. QED
    BY <2>1, <2>5, TruthEnds
<1>. QED
  BY <1>1, <1>2

LEMMA TruthConfirm == ASSUME Flow, Flow', Account, Truth, Confirm PROVE Truth'
<1>1. /\ phase' = "approved" /\ status = "requires_confirmation" /\ status' = "running"
      /\ ledger' = checkpoint.ledger /\ queue' = <<checkpoint.call>>
      /\ Restorable(checkpoint)
      /\ UNCHANGED <<receipt, mode, effects, proposed, fallback>>
  BY DEF Confirm
<1>2. ~fallback /\ Approvable
  BY <1>1, NothingToRestore DEF Account, Kept
<1>3. /\ ledger' = receipt /\ ~mode.dry /\ receipt.reason = "waiting_confirmation"
      /\ proposed = receipt.used + receipt.omitted /\ Counted(receipt, Len(effects))
  BY <1>1, <1>2 DEF Approvable, Truth, Final
<1>4. Reasoned'
  BY <1>1 DEF Reasoned, Charged, Consented
<1>5. Shown'
  BY <1>1, <1>3 DEF Truth, Shown, Between, Charged, Consented, Balanced
<1>6. Left'
  <2>1. Tail(queue)' = <<>>
    BY <1>1
  <2>2. ExternalCount(Tail(queue))' = ExternalCount(<<>>)
    BY <2>1 DEF ExternalCount
  <2>3. /\ ledger'.used \in Nat /\ ledger'.omitted \in Nat
        /\ proposed' = ledger'.used + ledger'.omitted
    <3>1. ledger' \in Ledgers
      BY DEF Flow, TypeOK
    <3>2. ledger'.used \in 0..Budget /\ ledger'.omitted \in Nat
      BY <3>1, LedgerFields
    <3>3. ledger'.used \in Nat
      BY <3>2, LoopConstants
    <3>. QED
      BY <1>1, <1>3, <3>2, <3>3
  <2>4. proposed' = ledger'.used + ledger'.omitted + 0
    BY <2>3
  <2>. QED
    BY <1>1, <2>2, <2>4, CountOfNone DEF Left, Charged
<1>7. Started'
  BY <1>1, <1>3 DEF Started, Counted, Consented
<1>8. Final'
  BY <1>1, <1>5, NotFinal
<1>. QED
  BY <1>4, <1>5, <1>6, <1>7, <1>8 DEF Truth

LEMMA TruthStops == ASSUME Truth, NEW st \in Stopped, StopRun(st) PROVE Truth'
<1>1. /\ status' \in Stopped
      /\ UNCHANGED <<receipt, phase, queue, ledger, control, stop, mode, effects, proposed, fallback>>
  BY DEF StopRun, accountVars, flowVars, historyVars
<1>2. Reasoned'
  BY <1>1 DEF Truth, Reasoned, Charged, Consented
<1>3. Shown'
  BY <1>1 DEF Truth, Shown, Balanced, Stopped
<1>4. Left'
  BY <1>1 DEF Truth, Left, Charged, ExternalCount
<1>5. Started'
  BY <1>1 DEF Truth, Started, Counted, Consented
<1>6. Final'
  BY <1>1 DEF Final, EveryProposalAccounted, Stopped, Settled
<1>. QED
  BY <1>2, <1>3, <1>4, <1>5, <1>6 DEF Truth

LEMMA TruthStep == Flow /\ Flow' /\ Account /\ Truth /\ [Next]_vars => Truth'
<1>. SUFFICES ASSUME Flow, Flow', Account, Truth, [Next]_vars PROVE Truth'
  OBVIOUS
<1>1. CASE AskModel
  BY <1>1, TruthAsk
<1>2. ASSUME NEW batch \in Batches, Answer(batch) PROVE Truth'
  BY <1>2, TruthAnswer
<1>3. CASE NextBatch \/ CheckHandler \/ HeedStop \/ CheckApproved \/ ProviderFails \/ LoseThread
           \/ UNCHANGED vars
  <2>1. /\ UNCHANGED <<status, receipt, queue, ledger, control, stop, mode, effects, proposed,
                       fallback>>
        /\ \/ phase' = phase
           \/ phase' = "idle"
           \/ phase = "ask" /\ phase' = "raised"
           \/ phase = "calls" /\ queue = <<>> /\ phase' = "top"
           \/ phase = "check" /\ phase' = "handle"
           \/ phase = "approved" /\ phase' = "applying"
    BY <1>3 DEF NextBatch, CheckHandler, HeedStop, CheckApproved, ProviderFails, LoseThread, Abandon,
       vars, rowVars, accountVars, flowVars, historyVars
  <2>. QED
    BY <2>1, TruthMoves
<1>4. CASE SkipPlan \/ RefusePlan \/ UpdatePlan
  BY <1>4, TruthPlan
<1>5. CASE OmitOverBudget \/ StopRepetition \/ RejectInvalid \/ Reserve \/ SaveApproval
  BY <1>5, TruthOmit, TruthReject, TruthReserve, TruthSave
<1>6. CASE StartHandler \/ StartApproved \/ HandlerDone \/ Resume \/ Leave
  BY <1>6, TruthStart, TruthDone, TruthResume, TruthLeave
<1>7. CASE Finish \/ FallBack \/ FailRun \/ Confirm
  BY <1>7, TruthFinish, TruthConfirm
<1>8. ASSUME NEW st \in Stopped, StopRun(st) PROVE Truth'
  BY <1>8, TruthStops
<1>. QED
  BY <1>1, <1>2, <1>3, <1>4, <1>5, <1>6, <1>7, <1>8 DEF Next, Loop

LEMMA Squeezed == ASSUME NEW m \in Nat, NEW k \in Nat, m <= k, k <= m + 0 PROVE k = m
OBVIOUS

LEMMA NothingMissing ==
  ASSUME NEW l \in Ledgers, Balanced(l), ~(l.failed + l.rejected + l.pending + l.omitted > 0),
         NEW k \in Nat, Counted(l, k)
  PROVE  l.used + l.omitted = l.succeeded + l.skipped /\ k = l.succeeded
<1>1. /\ l.used \in 0..Budget /\ l.succeeded \in Nat /\ l.failed \in Nat /\ l.rejected \in Nat
      /\ l.skipped \in Nat /\ l.pending \in Nat /\ l.omitted \in Nat
  BY LedgerFields
<1>2. l.failed = 0 /\ l.rejected = 0 /\ l.pending = 0 /\ l.omitted = 0
  BY <1>1
<1>3. l.used = l.succeeded + 0 + 0 + l.skipped + 0
  BY <1>2 DEF Balanced
<1>4. l.used + 0 = l.succeeded + l.skipped
  BY <1>1, <1>3
<1>5. l.succeeded <= k /\ k <= l.succeeded + 0
  BY <1>2 DEF Counted
<1>6. k = l.succeeded
  BY <1>1, <1>5, Squeezed
<1>. QED
  BY <1>2, <1>4, <1>6

(* The receipt of a run is true: shown as complete it misses no call the    *)
(* model asked for, in any thread of the run, and however the loop ended    *)
(* what was not done is counted (_persist_execution_receipt,                *)
(* AgentExecutionReceipt.incomplete).                                       *)
THEOREM ReceiptIsTrue == Spec => []ReceiptTrue
<1>1. Flow /\ Truth => ReceiptTrue
  <2>. SUFFICES ASSUME Flow, Truth PROVE ReceiptTrue
    OBVIOUS
  <2>1. EveryProposalAccounted
    BY DEF Truth, Final
  <2>2. HonestReceipt
    <3>. SUFFICES ASSUME receipt # NoReceipt, ~PublicIncomplete
                  PROVE  proposed = receipt.succeeded + receipt.skipped
                         /\ Len(effects) = receipt.succeeded
      BY DEF HonestReceipt
    <3>1. receipt \in Ledgers
      BY DEF Flow, TypeOK
    <3>2. /\ receipt.reason \in Closing /\ status \notin Stopped
          /\ ~(receipt.failed + receipt.rejected + receipt.pending + receipt.omitted > 0)
      BY DEF PublicIncomplete, Incomplete, Closing
    <3>3. /\ proposed = receipt.used + receipt.omitted /\ Counted(receipt, Len(effects))
          /\ Balanced(receipt) /\ Len(effects) \in Nat
      BY <3>2, Numbers DEF Truth, Final, Shown
    <3>. QED
      BY <3>1, <3>2, <3>3, NothingMissing
  <2>. QED
    BY <2>1, <2>2 DEF ReceiptTrue
<1>2. Init => Flow /\ Account /\ Truth
  BY FlowInit, AccountInit, TruthInit
<1>3. Flow /\ Account /\ Truth /\ [Next]_vars => (Flow /\ Account /\ Truth)'
  BY FlowStep, AccountStep, TruthStep
<1>. QED
  BY <1>1, <1>2, <1>3, PTL DEF Spec

=============================================================================
