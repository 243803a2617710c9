--------------------------- MODULE ServicesProofs ---------------------------
(* Theorems about the components of Services, for every value of their      *)
(* constants.  Each rests on an invariant of its own, which the steps of    *)
(* its component keep; in a behaviour that is about a component no other    *)
(* steps are taken.                                                         *)
EXTENDS Services, FiniteSetTheorems, SequenceTheorems, WellFoundedInduction, TLAPS

LEMMA OneAtWork ==
  ASSUME [NextAll]_allVars
  PROVE  /\ part' = part
         /\ part = "embeddings" => [Next]_vars
         /\ part = "bridge" => [Bridge!Next]_bridgeVars
         /\ part = "channel" => [Link!Next]_linkVars
         /\ part = "accounts" => [Accounts!Next]_accountsVars
         /\ part = "outreach" => [Pushes!Next]_pushesVars
         /\ part = "workspace" => [Space!Next]_spaceVars
         /\ part = "chat" => [Chat!Next]_chatVars
         /\ part = "web" => [Web!Next]_webVars
         /\ part = "shell" => [Shell!Next]_shellVars
         /\ part = "cli" => [Process!Next]_processVars
         /\ part = "plan" => [Plan!Next]_planVars
BY DEF NextAll, EmbeddingsStep, BridgeStep, LinkStep, AccountsStep, PushesStep, SpaceStep,
       ChatStep, WebStep, ShellStep, ProcessStep, PlanStep, allVars

LEMMA TableIsSeq ==
  ASSUME NEW S, NEW n \in Nat, NEW f \in [1..n -> S]
  PROVE  f \in Seq(S) /\ Len(f) = n
OBVIOUS


-----------------------------------------------------------------------------
(* Embeddings: no text is lost, and no vectors of two models are mixed.     *)

Position == 0..Texts
Stretch  == [from : Position, to : Position, tries : Nat]
Jobs     == {"idle", "resolving", "batching", "asking", "failing"}

(* What every variable holds, as far as the arguments below need it. *)
Typed ==
    /\ config \in Nat /\ newest \in Nat /\ runtime \in Nat
    /\ job \in Jobs
    /\ index \in [Text -> Nat] /\ session \in [Text -> Nat]
    /\ batch \in [from : Position, to : Position]
    /\ work \in Seq(Stretch)
    /\ slots \subseteq Text

(* The texts that the session has vectors of this job for. *)
Done == IF job = "asking" THEN batch.from ELSE batch.to

(* A job that goes on has resolved a model, and gave it to every text so far. *)
Uniform ==
    job \in {"batching", "asking"} =>
        /\ runtime # 0
        /\ \A t \in Text : t <= Done => session[t] = runtime

(* What is asked for next is in the batch. *)
Within == job = "asking" => batch.from < batch.to /\ batch.from <= Front

IInv ==
    /\ Typed
    /\ NothingLost
    /\ Within
    /\ Uniform
    /\ ReadyIsUniform

-----------------------------------------------------------------------------
(* Division: the requests of a batch cover it, and none of them is empty.   *)

LEMMA Quotient ==
  ASSUME NEW n \in Nat, NEW r \in Nat \ {0}
  PROVE  LET q == (n + r - 1) \div r IN
         /\ q \in Nat
         /\ q * r >= n
         /\ n > 0 => q > 0 /\ (q - 1) * r < n
<1>. DEFINE q == (n + r - 1) \div r
<1>1. q \in Nat
  OBVIOUS
<1>2. q * r <= n + r - 1 /\ n + r - 1 < q * r + r
  OBVIOUS
<1>. QED
  BY <1>1, <1>2

LEMMA RangesCover ==
  ASSUME NEW from \in Position, NEW to \in Position, from < to
  PROVE  LET w == Ranges(from, to) IN
         /\ w \in Seq(Stretch)
         /\ w # <<>>
         /\ Head(w).from = from
         /\ w[Len(w)].to = to
         /\ \A i \in DOMAIN w : w[i].from < w[i].to
         /\ \A i \in 1..(Len(w) - 1) : w[i].to = w[i + 1].from
<1>. DEFINE n == to - from
            r == RequestBatch
            q == (n + r - 1) \div r
            w == Ranges(from, to)
<1>1. n \in Nat /\ n > 0 /\ r \in Nat \ {0}
  BY SizesAssumption DEF Position
<1>2. q \in Nat /\ q > 0 /\ q * r >= n /\ (q - 1) * r < n
  BY <1>1, Quotient
<1>3. ASSUME NEW i \in 1..q
      PROVE  /\ (i - 1) * r \in Nat /\ (i - 1) * r < n
             /\ i * r = (i - 1) * r + r
             /\ i < q => i * r < n
             /\ i = q => i * r >= n
  <2>1. ASSUME NEW j \in Nat, NEW k \in Nat, j <= k PROVE j * r <= k * r /\ j * r \in Nat
    BY <1>1, <2>1
  <2>2. (i - 1) * r <= (q - 1) * r /\ (i - 1) * r \in Nat
    BY <1>2, <2>1
  <2>3. i * r = (i - 1) * r + r
    BY <1>1
  <2>4. i < q => i * r <= (q - 1) * r
    BY <1>2, <2>1
  <2>. QED
    BY <1>1, <1>2, <2>2, <2>3, <2>4
<1>4. w = [i \in 1..q |-> [from |-> from + (i - 1) * r, to |-> Shorter(from + i * r, to), tries |-> 0]]
  BY DEF Ranges
<1>5. ASSUME NEW i \in 1..q
      PROVE  /\ w[i] \in Stretch
             /\ w[i].from = from + (i - 1) * r
             /\ i < q => w[i].to = from + i * r
             /\ i = q => w[i].to = to
             /\ w[i].from < w[i].to
  <2>1. w[i] = [from |-> from + (i - 1) * r, to |-> Shorter(from + i * r, to), tries |-> 0]
    BY <1>4
  <2>2. /\ i < q => Shorter(from + i * r, to) = from + i * r
        /\ i = q => Shorter(from + i * r, to) = to
    BY <1>1, <1>3 DEF Shorter, Position
  <2>3. /\ from + (i - 1) * r \in Position
        /\ Shorter(from + i * r, to) \in Position
        /\ from + (i - 1) * r < Shorter(from + i * r, to)
    <3>1. from \in Nat /\ to \in Nat /\ Texts \in Nat /\ to <= Texts /\ n = to - from
      BY SizesAssumption DEF Position
    <3>2. (i - 1) * r \in Nat /\ (i - 1) * r < n /\ i * r = (i - 1) * r + r /\ r \in Nat \ {0}
      BY <1>1, <1>3
    <3>3. CASE i < q
      <4>1. i * r < n
        BY <1>3, <3>3
      <4>. HIDE DEF n, r
      <4>. QED
        BY <2>2, <3>1, <3>2, <3>3, <4>1 DEF Position
    <3>4. CASE i = q
      <4>. HIDE DEF n, r
      <4>. QED
        BY <2>2, <3>1, <3>2, <3>4 DEF Position
    <3>. QED
      BY <1>2, <3>3, <3>4
  <2>. QED
    BY <2>1, <2>2, <2>3 DEF Stretch
<1>6. DOMAIN w = 1..q /\ Len(w) = q /\ w \in Seq(Stretch)
  <2>1. w \in [1..q -> Stretch]
    BY <1>4, <1>5
  <2>. QED
    BY <1>2, <2>1
<1>7. Head(w).from = from
  <2>1. 1 \in 1..q /\ (1 - 1) * r = 0
    BY <1>1, <1>2
  <2>2. w[1].from = from + 0
    BY <1>5, <2>1
  <2>. QED
    BY <1>6, <2>1, <2>2 DEF Position
<1>8. \A i \in 1..(q - 1) : w[i].to = w[i + 1].from
  BY <1>1, <1>2, <1>5
<1>. QED
  BY <1>2, <1>5, <1>6, <1>7, <1>8

-----------------------------------------------------------------------------
LEMMA InitHolds == Init => IInv
<1>. SUFFICES ASSUME Init PROVE IInv
  OBVIOUS
<1>1. Typed
  BY SizesAssumption DEF Init, Typed, Jobs, Position, NoBatch, Text
<1>2. NothingLost /\ Within /\ Uniform /\ ReadyIsUniform
  BY DEF Init, NothingLost, Within, Uniform, ReadyIsUniform
<1>. QED
  BY <1>1, <1>2 DEF IInv

\* What the conjuncts of the invariant are about.
LEMMA Unchanged ==
  ASSUME IInv, UNCHANGED <<stored, job, runtime, session, asked>>,
         config' \in Nat, newest' \in Nat
  PROVE  IInv'
BY DEF IInv, Typed, NothingLost, Contiguous, Front, Within, Uniform, Done, ReadyIsUniform, stored, asked, Text

\* A job that is neither embedding nor has committed claims nothing.
LEMMA Elsewhere ==
  ASSUME IInv, job' \in {"idle", "resolving", "failing"}, status' # "ready",
         runtime' \in Nat, session' \in [Text -> Nat], index' \in [Text -> Nat],
         UNCHANGED <<account, asked>>
  PROVE  IInv'
BY DEF IInv, Typed, NothingLost, Within, Uniform, ReadyIsUniform, account, asked, Jobs, Text

LEMMA NextBatchHolds == ASSUME IInv, NextBatch PROVE IInv'
<1>. DEFINE to == Shorter(batch.to + IndexBatch, Texts)
<1>. USE DEF IInv
<1>1. Typed /\ batch.to \in Position /\ batch.to < Texts /\ Texts \in Nat
  BY SizesAssumption DEF Typed, NextBatch
<1>2. to \in Position /\ batch.to < to
  BY <1>1, SizesAssumption DEF Shorter, Position
<1>3. /\ batch' = [from |-> batch.to, to |-> to] /\ work' = Ranges(batch.to, to)
      /\ slots' = {} /\ job' = "asking" /\ UNCHANGED <<account, stored, runtime, session>>
      /\ job = "batching"
  BY DEF NextBatch
<1>4. LET w == Ranges(batch.to, to) IN
         /\ w \in Seq(Stretch)
         /\ w # <<>>
         /\ Head(w).from = batch.to
         /\ w[Len(w)].to = to
         /\ \A i \in DOMAIN w : w[i].from < w[i].to
         /\ \A i \in 1..(Len(w) - 1) : w[i].to = w[i + 1].from
  BY <1>1, <1>2, RangesCover
<1>. HIDE DEF to
<1>5. Typed'
  BY <1>1, <1>2, <1>3, <1>4 DEF Typed, account, stored, Jobs, Text
<1>6. batch'.from = batch.to /\ batch'.to = to
  BY <1>3
<1>7. Front' = batch.to
  BY <1>3, <1>4 DEF Front
<1>8. NothingLost'
  <2>1. (batch.to + 1)..batch.to = {}
    BY <1>1 DEF Position
  <2>. QED
    BY <1>3, <1>4, <1>6, <1>7, <2>1 DEF NothingLost, Contiguous
<1>9. Uniform'
  BY <1>3, <1>6 DEF Uniform, Done, Text
<1>10. ReadyIsUniform'
  BY <1>3 DEF ReadyIsUniform, stored, Text
<1>11. Within'
  BY <1>1, <1>2, <1>6, <1>7 DEF Within, Position
<1>. QED
  BY <1>5, <1>8, <1>9, <1>10, <1>11

\* While a job asks, the head of the waiting ranges is where the answers end.
LEMMA AskingSays ==
  ASSUME IInv, Asking
  PROVE  /\ work \in Seq(Stretch) /\ work # <<>> /\ Contiguous
         /\ Head(work) \in Stretch /\ Head(work) = work[1]
         /\ Head(work).from < Head(work).to
         /\ batch.from <= Head(work).from
         /\ slots = (batch.from + 1)..Head(work).from
         /\ batch.from \in Position /\ batch.to \in Position /\ batch.from < batch.to
<1>1. work \in Seq(Stretch) /\ work # <<>> /\ Contiguous
  BY DEF IInv, Typed, Asking, NothingLost
<1>2. Head(work) \in Stretch /\ Head(work) = work[1] /\ 1 \in DOMAIN work
  BY <1>1
<1>. QED
  BY <1>1, <1>2 DEF IInv, Typed, Asking, NothingLost, Within, Front, Contiguous

\* A request changes the ranges that wait and the texts that came, or ends the job.
LEMMA AskingHolds ==
  ASSUME IInv, Asking, job' = "asking", work' \in Seq(Stretch), slots' \subseteq Text,
         Contiguous', slots' = (batch.from + 1)..Front', batch.from <= Front'
  PROVE  IInv'
<1>1. /\ UNCHANGED <<account, stored, runtime, session, batch>>
      /\ job = "asking" /\ IInv
  BY DEF Asking
<1>2. Typed'
  BY <1>1 DEF IInv, Typed, account, stored, Jobs, Text
<1>3. NothingLost' /\ Within'
  BY <1>1 DEF IInv, NothingLost, Within
<1>4. Uniform' /\ ReadyIsUniform'
  BY <1>1 DEF IInv, Uniform, Done, ReadyIsUniform, stored, Text
<1>. QED
  BY <1>2, <1>3, <1>4 DEF IInv

\* A request that ends the job.
LEMMA FailingHolds ==
  ASSUME IInv, Asking, job' = "failing", UNCHANGED <<work, slots>>
  PROVE  IInv'
BY DEF Asking, IInv, Typed, NothingLost, Within, Uniform, ReadyIsUniform, account, stored, Jobs, Text

LEMMA AnsweredHolds == ASSUME IInv, Answered PROVE IInv'
<1>1. /\ work \in Seq(Stretch) /\ work # <<>> /\ Contiguous
      /\ Head(work) \in Stretch /\ Head(work) = work[1]
      /\ Head(work).from < Head(work).to
      /\ batch.from <= Head(work).from
      /\ slots = (batch.from + 1)..Head(work).from
      /\ batch.from \in Position /\ batch.to \in Position /\ batch.from < batch.to
  BY AskingSays DEF Answered
<1>2. /\ Asking /\ job' = "asking" /\ batch' = batch
      /\ slots' = slots \cup Of(Head(work)) /\ work' = Tail(work)
  BY DEF Answered, Asking
<1>3. /\ work' \in Seq(Stretch) /\ Len(work') = Len(work) - 1
      /\ \A i \in DOMAIN work' : work'[i] = work[i + 1] /\ i + 1 \in DOMAIN work
  BY <1>1, <1>2
<1>4. Contiguous'
  BY <1>1, <1>2, <1>3 DEF Contiguous
<1>5. Front' = Head(work).to
  <2>1. CASE work' = <<>>
    <3>1. Len(work) = 1
      BY <1>1, <1>3, <2>1
    <3>. QED
      BY <1>1, <1>2, <2>1, <3>1 DEF Front, Contiguous
  <2>2. CASE work' # <<>>
    <3>1. 1 \in DOMAIN work' /\ Head(work') = work[2] /\ 1 \in 1..(Len(work) - 1)
      BY <1>1, <1>3, <2>2
    <3>. QED
      BY <1>1, <2>2, <3>1 DEF Front, Contiguous
  <2>. QED
    BY <2>1, <2>2
<1>6. slots' = (batch.from + 1)..Head(work).to /\ slots' \subseteq Text /\ batch.from <= Head(work).to
  <2>. DEFINE a == batch.from
              b == Head(work).from
              c == Head(work).to
  <2>1. a \in Nat /\ b \in Nat /\ c \in Nat /\ a <= b /\ b < c /\ c <= Texts /\ Texts \in Nat
    BY <1>1, SizesAssumption DEF Stretch, Position
  <2>2. slots = (a + 1)..b /\ slots' = slots \cup ((b + 1)..c)
    BY <1>1, <1>2 DEF Of
  <2>. HIDE DEF a, b, c
  <2>3. ((a + 1)..b) \cup ((b + 1)..c) = (a + 1)..c /\ (a + 1)..c \subseteq 1..Texts
    BY <2>1
  <2>. QED
    BY <2>1, <2>2, <2>3 DEF a, b, c, Text
<1>. QED
  BY <1>2, <1>3, <1>4, <1>5, <1>6, AskingHolds

LEMMA TimesOutHolds == ASSUME IInv, TimesOut PROVE IInv'
<1>. DEFINE h == Head(work)
            l == [from |-> h.from, to |-> Half(h), tries |-> 0]
            r == [from |-> Half(h), to |-> h.to, tries |-> 0]
<1>1. /\ work \in Seq(Stretch) /\ work # <<>> /\ Contiguous
      /\ h \in Stretch /\ h = work[1] /\ h.from < h.to /\ batch.from <= h.from
      /\ slots = (batch.from + 1)..h.from
      /\ batch.from \in Position /\ batch.to \in Position /\ batch.from < batch.to
  BY AskingSays DEF TimesOut
<1>2. /\ Asking /\ job' = "asking" /\ batch' = batch /\ slots' = slots
      /\ work' = <<l, r>> \o Tail(work) /\ h.to - h.from > 1
  BY DEF TimesOut, Asking, Halves, Wide
<1>3. Half(h) \in Position /\ h.from < Half(h) /\ Half(h) < h.to
  <2>. HIDE DEF h
  <2>0. h.from \in Position /\ h.to \in Position
    BY <1>1 DEF Stretch
  <2>1. /\ h.from \in Nat /\ h.to \in Nat /\ Texts \in Nat /\ h.to <= Texts
        /\ h.to - h.from \in Nat /\ h.to - h.from > 1
    BY <1>1, <1>2, <2>0, SizesAssumption DEF Position
  <2>2. ASSUME NEW n \in Nat, n > 1 PROVE n \div 2 \in Nat /\ n \div 2 > 0 /\ n \div 2 < n
    BY <2>2
  <2>3. /\ (h.to - h.from) \div 2 \in Nat /\ (h.to - h.from) \div 2 > 0
        /\ (h.to - h.from) \div 2 < h.to - h.from
    BY <2>1, <2>2
  <2>4. Half(h) = h.from + ((h.to - h.from) \div 2)
    BY DEF Half
  <2>. QED
    BY <2>1, <2>3, <2>4 DEF Position
<1>4. l \in Stretch /\ r \in Stretch
  BY <1>1, <1>3 DEF Stretch
<1>5. /\ Tail(work) \in Seq(Stretch) /\ Len(Tail(work)) = Len(work) - 1
      /\ \A i \in DOMAIN Tail(work) : Tail(work)[i] = work[i + 1] /\ i + 1 \in DOMAIN work
  BY <1>1
<1>. HIDE DEF h, l, r
<1>6. /\ work' \in Seq(Stretch) /\ Len(work') = Len(work) + 1 /\ work' # <<>>
      /\ work'[1] = l /\ work'[2] = r /\ Head(work') = l
      /\ \A i \in 3..Len(work') : work'[i] = work[i - 1] /\ i - 1 \in DOMAIN work
  BY <1>1, <1>2, <1>4, <1>5
<1>7. l.from = h.from /\ l.to = r.from /\ r.to = h.to /\ l.from < l.to /\ r.from < r.to
  BY <1>3 DEF l, r
<1>8. Contiguous'
  <2>1. ASSUME NEW i \in DOMAIN work' PROVE work'[i].from < work'[i].to
    BY <1>1, <1>6, <1>7 DEF Contiguous
  <2>2. ASSUME NEW i \in 1..(Len(work') - 1) PROVE work'[i].to = work'[i + 1].from
    <3>1. CASE i = 1
      BY <1>6, <1>7, <3>1
    <3>2. CASE i = 2
      BY <1>1, <1>6, <1>7, <3>2 DEF Contiguous
    <3>3. CASE i > 2
      BY SMTT(30), <1>1, <1>6, <3>3 DEF Contiguous
    <3>. QED
      BY <1>1, <1>6, <3>1, <3>2, <3>3
  <2>3. work'[Len(work')].to = batch.to
    <3>1. CASE Len(work') = 2
      BY <1>1, <1>6, <1>7, <3>1 DEF Contiguous
    <3>2. CASE Len(work') > 2
      BY <1>1, <1>6, <3>2 DEF Contiguous
    <3>. QED
      BY <1>1, <1>6, <3>1, <3>2
  <2>. QED
    BY <1>2, <2>1, <2>2, <2>3 DEF Contiguous
<1>9. Front' = h.from
  BY <1>6, <1>7 DEF Front
<1>. QED
  BY <1>1, <1>2, <1>6, <1>8, <1>9, AskingHolds DEF IInv, Typed, h

LEMMA SingleTimesOutHolds == ASSUME IInv, SingleTimesOut PROVE IInv'
<1>1. CASE Head(work).tries < SingleRetries
  <2>1. /\ work \in Seq(Stretch) /\ work # <<>> /\ Contiguous
        /\ Head(work) \in Stretch /\ Head(work) = work[1]
        /\ slots = (batch.from + 1)..Head(work).from /\ batch.from <= Head(work).from
    BY AskingSays DEF SingleTimesOut
  <2>2. /\ Asking /\ job' = "asking" /\ batch' = batch /\ slots' = slots
        /\ work' = [work EXCEPT ![1].tries = @ + 1]
    BY <1>1 DEF SingleTimesOut, Asking
  <2>3. [work[1] EXCEPT !.tries = @ + 1] \in Stretch
    BY <2>1 DEF Stretch
  <2>4. /\ work' \in Seq(Stretch) /\ Len(work') = Len(work) /\ DOMAIN work' = DOMAIN work
        /\ \A i \in DOMAIN work : work'[i].from = work[i].from /\ work'[i].to = work[i].to
    BY <2>1, <2>2, <2>3 DEF Stretch
  <2>5. Contiguous'
    BY <2>1, <2>2, <2>4 DEF Contiguous
  <2>6. Front' = Head(work).from
    BY <2>1, <2>4 DEF Front
  <2>. QED
    BY <2>1, <2>2, <2>4, <2>5, <2>6, AskingHolds DEF IInv, Typed
<1>2. CASE ~(Head(work).tries < SingleRetries)
  BY <1>2, FailingHolds DEF SingleTimesOut
<1>. QED
  BY <1>1, <1>2

LEMMA AssembleHolds == ASSUME IInv, Assemble PROVE IInv'
<1>1. /\ job = "asking" /\ work = <<>> /\ job' = "batching"
      /\ session' = [t \in Text |-> IF t \in slots THEN runtime ELSE session[t]]
      /\ UNCHANGED <<account, stored, runtime, asked>>
  BY DEF Assemble
<1>2. Typed'
  BY <1>1 DEF IInv, Typed, account, stored, asked, Jobs, Text
<1>3. slots = (batch.from + 1)..batch.to
  BY <1>1 DEF IInv, NothingLost, Front
<1>4. Uniform'
  BY <1>1, <1>3 DEF IInv, Typed, Uniform, Done, asked, Text, Position
<1>. QED
  BY <1>1, <1>2, <1>4 DEF IInv, NothingLost, Within, ReadyIsUniform, stored, Text

\* The commit of a job that embedded every text.
LEMMA CommitHolds == ASSUME IInv, Commit PROVE IInv'
<1>1. /\ job = "batching" /\ batch.to = Texts /\ index' = session /\ job' = "idle"
      /\ status' = IF Texts = 0 THEN "failed" ELSE "ready"
      /\ UNCHANGED <<account, runtime, session, asked>>
  BY DEF Commit
<1>2. Typed'
  BY <1>1 DEF IInv, Typed, account, asked, Jobs, Text
<1>3. ReadyIsUniform'
  BY <1>1 DEF IInv, Uniform, Done, ReadyIsUniform, Text
<1>. QED
  BY <1>1, <1>2, <1>3 DEF IInv, NothingLost, Within, Uniform

LEMMA ResolveHolds == ASSUME IInv, Resolve PROVE IInv'
<1>1. CASE config = 0
  BY <1>1 DEF Resolve, IInv, Typed, NothingLost, Within, Uniform, ReadyIsUniform, account, stored, Jobs, Text
<1>2. CASE config # 0
  <2>1. /\ runtime' = config /\ session' \in {index, [t \in Text |-> 0]} /\ job' = "batching"
        /\ batch' = NoBatch /\ UNCHANGED <<account, stored, work, slots>>
    BY <1>2 DEF Resolve
  <2>2. Typed'
    BY <2>1, SizesAssumption DEF IInv, Typed, account, stored, Jobs, Text, NoBatch, Position
  <2>3. Uniform'
    BY <1>2, <2>1 DEF Uniform, Done, NoBatch, Text
  <2>. QED
    BY <2>1, <2>2, <2>3 DEF IInv, NothingLost, Within, ReadyIsUniform, stored, Text
<1>. QED
  BY <1>1, <1>2

LEMMA StepHolds == IInv /\ [Next]_vars => IInv'
<1>. SUFFICES ASSUME IInv, [Next]_vars PROVE IInv'
  OBVIOUS
<1>1. CASE Upsert
  BY <1>1, Unchanged DEF Upsert, IInv, Typed
<1>2. CASE DeleteConfig
  BY <1>2, Unchanged DEF DeleteConfig, IInv, Typed
<1>3. CASE Begin
  BY <1>3, Elsewhere DEF Begin, IInv, Typed
<1>4. CASE Fail
  BY <1>4, Elsewhere DEF Fail, IInv, Typed
<1>5. CASE Die
  BY <1>5 DEF Die, IInv, Typed, NothingLost, Within, Uniform, ReadyIsUniform, account, stored, asked, Jobs, Text
<1>6. CASE Refused
  BY <1>6, FailingHolds DEF Refused
<1>7. CASE UNCHANGED vars
  BY <1>7, Unchanged DEF vars, stored, asked, IInv, Typed
<1>. QED
  BY <1>1, <1>2, <1>3, <1>4, <1>5, <1>6, <1>7, ResolveHolds, NextBatchHolds, AssembleHolds, CommitHolds,
     AnsweredHolds, TimesOutHolds, SingleTimesOutHolds DEF Next

-----------------------------------------------------------------------------
(* What a batch may still cost: every text a request and SingleRetries       *)
(* retries, and one split less than there are texts in each waiting range.   *)

Price   == SingleRetries + 2
Cost(k) == k * Price
Left    == Cost(batch.to - Front) - Len(work) - (IF work = <<>> THEN 0 ELSE Head(work).tries)

Costs ==
    /\ requests \in Nat
    /\ \A i \in DOMAIN work : /\ work[i].tries <= SingleRetries
                              /\ Wide(work[i]) => work[i].tries = 0
    /\ job = "asking" =>
         /\ \A i \in DOMAIN work : batch.to - work[i].to >= Len(work) - i
         /\ requests + Left <= Cost(batch.to - batch.from) - 1
    /\ batch.to > batch.from => requests <= Cost(batch.to - batch.from) - 1

LEMMA InitCosts == Init => Costs
BY DEF Init, Costs, NoBatch

\* The requests of a batch leave at least one text for each that waits behind.
LEMMA RangesSpread ==
  ASSUME NEW from \in Position, NEW to \in Position, from < to
  PROVE  LET w == Ranges(from, to) IN
         /\ Len(w) \in Nat /\ DOMAIN w = 1..Len(w) /\ Len(w) > 0
         /\ \A i \in 1..Len(w) : w[i].tries = 0 /\ to - w[i].to >= Len(w) - i
<1>. DEFINE n == to - from
            r == RequestBatch
            q == (n + r - 1) \div r
            w == Ranges(from, to)
<1>1. n \in Nat /\ n > 0 /\ r \in Nat \ {0} /\ from \in Nat /\ to \in Nat
  BY SizesAssumption DEF Position
<1>2. q \in Nat /\ q > 0 /\ (q - 1) * r < n
  BY <1>1, Quotient
<1>3. w = [i \in 1..q |-> [from |-> from + (i - 1) * r, to |-> Shorter(from + i * r, to), tries |-> 0]]
  BY DEF Ranges
<1>4. DOMAIN w = 1..q /\ Len(w) = q
  BY <1>2, <1>3
<1>5. ASSUME NEW i \in 1..q
      PROVE  w[i].tries = 0 /\ to - w[i].to >= q - i
  <2>1. w[i].tries = 0 /\ w[i].to = Shorter(from + i * r, to)
    BY <1>3
  <2>2. CASE i = q
    <3>1. Shorter(from + i * r, to) <= to
      BY <1>1 DEF Shorter
    <3>2. Shorter(from + i * r, to) \in Nat
      BY <1>1 DEF Shorter
    <3>. QED
      BY <1>1, <2>1, <2>2, <3>1, <3>2
  <2>3. CASE i < q
    <3>1. (q - 1) * r = i * r + ((q - 1) - i) * r
      BY <1>1, <1>2
    <3>2. ((q - 1) - i) * r >= (q - 1) - i
      <4>1. \A a \in Nat, b \in Nat \ {0} : a * b >= a
        OBVIOUS
      <4>2. (q - 1) - i \in Nat
        BY <1>2, <2>3
      <4>. QED
        BY <1>1, <4>1, <4>2
    <3>3. i * r \in Nat /\ ((q - 1) - i) * r \in Int
      BY <1>1, <1>2
    <3>. HIDE DEF q, r
    <3>4. Shorter(from + i * r, to) <= from + i * r /\ Shorter(from + i * r, to) \in Nat
      BY <1>1, <3>3 DEF Shorter
    <3>5. i * r < n - ((q - 1) - i)
      BY <1>1, <1>2, <3>1, <3>2, <3>3
    <3>. QED
      BY <1>1, <1>2, <2>1, <3>3, <3>4, <3>5
  <2>. QED
    BY <1>2, <2>2, <2>3
<1>. QED
  BY <1>2, <1>4, <1>5

LEMMA Prices ==
  /\ Price \in Nat /\ Price >= 2 /\ Price = SingleRetries + 2
  /\ \A k \in Int : Cost(k) \in Int
  /\ \A k \in Nat \ {0} : Cost(k) >= Price
  /\ \A k \in Nat : Cost(k) >= k
<1>1. Price \in Nat /\ Price >= 2 /\ Price = SingleRetries + 2
  BY SizesAssumption DEF Price
<1>. HIDE DEF Price
<1>2. \A k \in Int : Cost(k) \in Int
  BY <1>1 DEF Cost
<1>3. \A k \in Nat \ {0} : Cost(k) >= Price
  BY <1>1 DEF Cost
<1>5. \A k \in Nat : Cost(k) >= k
  BY <1>1 DEF Cost
<1>. QED
  BY <1>1, <1>2, <1>3, <1>5

LEMMA CostsAdd ==
  ASSUME NEW k \in Int, NEW m \in Int
  PROVE  Cost(k + m) = Cost(k) + Cost(m)
<1>1. Price \in Nat
  BY Prices
<1>. HIDE DEF Price
<1>. QED
  BY <1>1 DEF Cost

\* The first waiting range: what it still costs, and what those behind it do.
LEMMA HeadCosts ==
  ASSUME IInv, Costs, Asking
  PROVE  LET h == Head(work)
             n == batch.to - batch.from
             m == h.to - h.from
             f == batch.to - h.to IN
         /\ m \in Nat \ {0} /\ f \in Nat /\ f >= Len(work) - 1
         /\ h.tries \in Nat /\ h.tries <= SingleRetries /\ (m > 1 => h.tries = 0)
         /\ Len(work) \in Nat \ {0} /\ requests \in Nat
         /\ h.from \in Int /\ h.to \in Int /\ batch.to \in Int /\ Front = h.from
         /\ Cost(n) \in Int /\ Cost(m) \in Int /\ Cost(f) \in Int
         /\ Cost(f) >= f /\ Cost(m) >= Price
         /\ Left = Cost(m) + Cost(f) - Len(work) - h.tries
         /\ Left \in Int /\ Left > 0
         /\ requests + Left <= Cost(n) - 1
<1>. DEFINE h == Head(work)
            n == batch.to - batch.from
            m == h.to - h.from
            f == batch.to - h.to
<1>1. /\ work \in Seq(Stretch) /\ work # <<>> /\ h \in Stretch /\ h = work[1] /\ h.from < h.to
      /\ batch.from \in Position /\ batch.to \in Position /\ batch.from < batch.to
  BY AskingSays
<1>2. /\ Len(work) \in Nat \ {0} /\ 1 \in DOMAIN work
      /\ h.from \in Nat /\ h.to \in Nat /\ h.tries \in Nat /\ batch.from \in Nat /\ batch.to \in Nat
  BY <1>1 DEF Stretch, Position
<1>3. job = "asking"
  BY DEF Asking
<1>4. /\ h.tries <= SingleRetries /\ (Wide(h) => h.tries = 0)
      /\ batch.to - h.to >= Len(work) - 1
      /\ requests \in Nat /\ requests + Left <= Cost(n) - 1
  BY <1>1, <1>2, <1>3 DEF Costs
<1>5. Front = h.from /\ Left = Cost(batch.to - h.from) - Len(work) - h.tries
  BY <1>1 DEF Front, Left
<1>. HIDE DEF h
<1>6. n \in Int /\ m \in Nat \ {0} /\ f \in Nat /\ f >= Len(work) - 1 /\ (m > 1 => h.tries = 0)
  BY <1>1, <1>2, <1>4 DEF Wide
<1>7. batch.to - h.from = m + f
  BY <1>2
<1>. HIDE DEF m, f, n
<1>8. /\ Cost(n) \in Int /\ Cost(m) \in Int /\ Cost(f) \in Int
      /\ Cost(f) >= f /\ Cost(m) >= Price
      /\ Cost(m + f) = Cost(m) + Cost(f)
  <2>1. Cost(m + f) = Cost(m) + Cost(f)
    BY <1>6, CostsAdd
  <2>. QED
    BY <1>6, <2>1, Prices
<1>9. Left = Cost(m) + Cost(f) - Len(work) - h.tries
  <2>1. Cost(batch.to - h.from) = Cost(m + f)
    BY <1>7
  <2>. QED
    BY <1>2, <1>5, <1>8, <2>1
<1>10. Left \in Int /\ Left > 0
  <2>. DEFINE cm == Cost(m)
              cf == Cost(f)
  <2>1. cm \in Int /\ cf \in Int /\ cf >= f /\ cm >= Price /\ Left = cm + cf - Len(work) - h.tries
    BY <1>8, <1>9
  <2>2. Price = SingleRetries + 2 /\ SingleRetries \in Nat
    BY Prices, SizesAssumption
  <2>3. h.tries \in Nat /\ h.tries <= SingleRetries /\ Len(work) \in Nat /\ f \in Nat /\ f >= Len(work) - 1
    BY <1>2, <1>4, <1>6
  <2>. DEFINE t == h.tries
              q == Len(work)
  <2>. HIDE DEF cm, cf, t, q
  <2>4. /\ cm \in Int /\ cf \in Int /\ t \in Nat /\ q \in Nat
        /\ Left = cm + cf - q - t /\ cm >= Price /\ cf >= f /\ f >= q - 1 /\ t <= SingleRetries
    BY <2>1, <2>3 DEF t, q
  <2>. QED
    BY <1>6, <2>2, <2>4
<1>11. /\ m \in Nat \ {0} /\ f \in Nat /\ f >= Len(work) - 1
      /\ h.tries \in Nat /\ h.tries <= SingleRetries /\ (m > 1 => h.tries = 0)
  BY <1>2, <1>4, <1>6
<1>12. /\ Len(work) \in Nat \ {0} /\ requests \in Nat
      /\ h.from \in Int /\ h.to \in Int /\ batch.to \in Int /\ Front = h.from
  BY <1>2, <1>4, <1>5
<1>13. /\ Cost(n) \in Int /\ Cost(m) \in Int /\ Cost(f) \in Int
      /\ Cost(f) >= f /\ Cost(m) >= Price
  BY <1>8
<1>14. /\ Left = Cost(m) + Cost(f) - Len(work) - h.tries
      /\ Left \in Int /\ Left > 0
  BY <1>9, <1>10
<1>15. requests + Left <= Cost(n) - 1
  BY <1>4
<1>. QED
  BY <1>11, <1>12, <1>13, <1>14, <1>15 DEF h, m, f, n

LEMMA StepCosts ==
  ASSUME IInv, IInv', Costs, [Next]_vars
  PROVE  Costs'
<1>. DEFINE n == batch.to - batch.from
<1>1. ASSUME UNCHANGED asked, job' # "asking" PROVE Costs'
  BY <1>1 DEF Costs, asked, Wide
<1>2. ASSUME UNCHANGED <<asked, job>> PROVE Costs'
  BY <1>2 DEF Costs, asked, Wide, Left, Front
<1>3. CASE Resolve
  <2>1. CASE config = 0
    BY <1>1, <1>3, <2>1 DEF Resolve, asked
  <2>2. CASE config # 0
    BY <1>3, <2>2 DEF Resolve, Costs, NoBatch, Wide
  <2>. QED
    BY <2>1, <2>2
<1>4. CASE NextBatch
  <2>. DEFINE to == Shorter(batch.to + IndexBatch, Texts)
              w  == Ranges(batch.to, to)
  <2>1. batch.to \in Position /\ batch.to < Texts /\ Texts \in Nat
    BY <1>4, SizesAssumption DEF IInv, Typed, NextBatch
  <2>2. to \in Position /\ batch.to < to
    BY <2>1, SizesAssumption DEF Shorter, Position
  <2>3. /\ batch' = [from |-> batch.to, to |-> to] /\ work' = w /\ requests' = 0 /\ job' = "asking"
    BY <1>4 DEF NextBatch
  <2>. HIDE DEF to
  <2>4. /\ Len(w) \in Nat /\ DOMAIN w = 1..Len(w) /\ Len(w) > 0
        /\ \A i \in 1..Len(w) : w[i].tries = 0 /\ to - w[i].to >= Len(w) - i
    BY <2>1, <2>2, RangesSpread
  <2>5. w # <<>> /\ Head(w).from = batch.to /\ w \in Seq(Stretch)
    BY <2>1, <2>2, RangesCover
  <2>. HIDE DEF w
  <2>6. Head(w).tries = 0
    BY <2>4, <2>5
  <2>7. batch'.from = batch.to /\ batch'.to = to /\ Front' = batch.to
    BY <2>3, <2>5 DEF Front
  <2>8. Left' = Cost(to - batch.to) - Len(w) - 0
    BY <2>3, <2>5, <2>6, <2>7 DEF Left
  <2>9. to - batch.to \in Nat \ {0} /\ Cost(to - batch.to) \in Int /\ Cost(to - batch.to) >= Price
    BY <2>1, <2>2, Prices DEF Position
  <2>10. requests' + Left' <= Cost(to - batch.to) - 1 /\ requests' <= Cost(to - batch.to) - 1
    <3>. DEFINE c == Cost(to - batch.to)
    <3>1. c \in Int /\ c >= Price /\ Left' = c - Len(w) - 0 /\ requests' = 0 /\ Price >= 2 /\ Price \in Nat
      BY <2>3, <2>8, <2>9, Prices
    <3>. HIDE DEF c
    <3>2. requests' + Left' <= c - 1 /\ requests' <= c - 1
      BY <2>4, <3>1
    <3>. QED
      BY <3>2 DEF c
  <2>. QED
    BY <2>3, <2>4, <2>7, <2>10, SizesAssumption DEF Costs
<1>5. CASE Refused
  <2>1. Asking /\ requests' = requests + 1 /\ UNCHANGED <<batch, work>> /\ job' = "failing"
    BY <1>5 DEF Refused, Asking
  <2>2. requests + 1 <= Cost(n) - 1
    BY <2>1, HeadCosts
  <2>. QED
    BY <2>1, <2>2 DEF Costs, Wide
<1>6. CASE SingleTimesOut
  <2>0. Asking /\ requests' = requests + 1 /\ batch' = batch /\ ~Wide(Head(work))
    BY <1>6 DEF SingleTimesOut, Asking
  <2>1. CASE job' = "failing" /\ work' = work
    <3>1. requests + 1 <= Cost(n) - 1
      BY <2>0, HeadCosts
    <3>. QED
      BY <2>0, <2>1, <3>1 DEF Costs, Wide
  <2>2. CASE /\ Head(work).tries < SingleRetries
             /\ work' = [work EXCEPT ![1].tries = @ + 1] /\ job' = job
    <3>1. /\ work \in Seq(Stretch) /\ work # <<>> /\ Head(work) = work[1] /\ work[1] \in Stretch
          /\ 1 \in DOMAIN work
      BY <2>0, AskingSays
    <3>2. \A s \in Stretch : /\ [s EXCEPT !.tries = @ + 1].from = s.from
                             /\ [s EXCEPT !.tries = @ + 1].to = s.to
                             /\ [s EXCEPT !.tries = @ + 1].tries = s.tries + 1
      BY DEF Stretch
    <3>3. work'[1] = [work[1] EXCEPT !.tries = @ + 1] /\ \A i \in DOMAIN work : i # 1 => work'[i] = work[i]
      BY <2>2, <3>1
    <3>4. /\ work'[1].from = work[1].from /\ work'[1].to = work[1].to
          /\ work'[1].tries = work[1].tries + 1
      BY <3>1, <3>2, <3>3
    <3>5. /\ Len(work') = Len(work) /\ DOMAIN work' = DOMAIN work /\ work' # <<>>
          /\ Head(work') = work'[1]
      <4>1. work' \in Seq(Stretch)
        BY <2>0, <2>2 DEF IInv, Typed
      <4>2. DOMAIN work' = DOMAIN work
        BY <2>2
      <4>. QED
        BY <3>1, <4>1, <4>2
    <3>6. Front' = Front /\ Left' = Left - 1
      <4>1. Front' = work'[1].from /\ Front = work[1].from
        BY <3>1, <3>5 DEF Front
      <4>2. Left = Cost(batch.to - Front) - Len(work) - work[1].tries
        BY <3>1 DEF Left
      <4>3. Left' = Cost(batch.to - Front) - Len(work) - (work[1].tries + 1)
        BY <2>0, <3>1, <3>4, <3>5, <4>1 DEF Left
      <4>4. Cost(batch.to - Front) \in Int /\ Len(work) \in Nat /\ work[1].tries \in Nat
        <5>1. batch.to \in Int /\ Front \in Int
          BY <2>0, HeadCosts
        <5>. QED
          <6>1. Cost(batch.to - Front) \in Int
            BY <5>1, Prices
          <6>2. Len(work) \in Nat /\ work[1].tries \in Nat
            BY <3>1 DEF Stretch
          <6>. QED
            BY <6>1, <6>2
      <4>. QED
        BY <3>4, <4>1, <4>2, <4>3, <4>4
    <3>7. requests + Left <= Cost(n) - 1 /\ Left \in Int /\ requests \in Nat /\ Cost(n) \in Int /\ Left > 0
      BY <2>0, HeadCosts
    <3>8. requests' + Left' <= Cost(n) - 1 /\ requests' <= Cost(n) - 1 /\ requests' \in Nat
      BY <2>0, <3>6, <3>7
    <3>9. \A i \in DOMAIN work : /\ work'[i].tries <= SingleRetries /\ work'[i].to = work[i].to
                                 /\ Wide(work'[i]) => work'[i].tries = 0
      <4>1. work'[1].tries <= SingleRetries /\ ~Wide(work'[1])
        BY <2>0, <2>2, <3>1, <3>4, SizesAssumption DEF Wide, Stretch
      <4>. QED
        BY <3>3, <3>4, <4>1 DEF Costs
    <3>10. job = "asking"
      BY <2>0 DEF Asking
      <3>. QED
      BY <2>0, <2>2, <3>5, <3>8, <3>9, <3>10 DEF Costs
  <2>. QED
    BY <1>6, <2>1, <2>2 DEF SingleTimesOut
<1>7. CASE Answered
  <2>1. Asking /\ requests' = requests + 1 /\ batch' = batch /\ work' = Tail(work) /\ job' = job /\ job = "asking"
    BY <1>7 DEF Answered, Asking
  <2>2. /\ work \in Seq(Stretch) /\ work # <<>> /\ Contiguous
        /\ Head(work) = work[1] /\ work[1] \in Stretch
    BY <2>1, AskingSays
  <2>3. /\ work' \in Seq(Stretch) /\ Len(work') = Len(work) - 1 /\ Len(work) \in Nat \ {0}
        /\ \A i \in DOMAIN work' : work'[i] = work[i + 1] /\ i + 1 \in DOMAIN work
    BY <2>1, <2>2
  <2>. DEFINE k == IF work' = <<>> THEN 0 ELSE Head(work').tries
              f == batch.to - Head(work).to
  <2>4. Front' = Head(work).to
    <3>1. CASE work' = <<>>
      <4>1. Len(work) = 1
        BY <2>2, <2>3, <3>1
      <4>. QED
        BY <2>1, <2>2, <3>1, <4>1 DEF Front, Contiguous
    <3>2. CASE work' # <<>>
      <4>1. 1 \in DOMAIN work' /\ Head(work') = work[2] /\ 1 \in 1..(Len(work) - 1)
        BY <2>2, <2>3, <3>2
      <4>. QED
        BY <2>2, <3>2, <4>1 DEF Front, Contiguous
    <3>. QED
      BY <3>1, <3>2
  <2>5. k \in Nat
    <3>1. work' # <<>> => Head(work') \in Stretch
      BY <2>3
    <3>. QED
      BY <3>1 DEF Stretch
  <2>6. Left' = Cost(f) - Len(work') - k
    BY <2>1, <2>4 DEF Left
  <2>. HIDE DEF k
  <2>7. /\ requests' + Left' <= Cost(n) - 1 /\ requests' <= Cost(n) - 1 /\ requests' \in Nat
    <3>. DEFINE m == Head(work).to - Head(work).from
                h == Head(work)
    <3>1. /\ m \in Nat \ {0} /\ f \in Nat /\ f >= Len(work) - 1
          /\ h.tries \in Nat /\ h.tries <= SingleRetries
          /\ Len(work) \in Nat \ {0} /\ requests \in Nat
          /\ Cost(n) \in Int /\ Cost(m) \in Int /\ Cost(f) \in Int
          /\ Cost(f) >= f /\ Cost(m) >= Price
          /\ Left = Cost(m) + Cost(f) - Len(work) - h.tries /\ Left > 0 /\ Left \in Int
          /\ requests + Left <= Cost(n) - 1
      BY <2>1, HeadCosts
    <3>2. Left' = Cost(f) - (Len(work) - 1) - k
      BY <2>3, <2>6
    <3>3. requests' = requests + 1 /\ Price = SingleRetries + 2 /\ SingleRetries \in Nat
      BY <2>1, Prices, SizesAssumption
    <3>. HIDE DEF m, f, n, h
    <3>. DEFINE cm == Cost(m)
                cf == Cost(f)
                cn == Cost(n)
    <3>4. /\ cn \in Int /\ cm \in Int /\ cf \in Int /\ cm >= Price
          /\ Left = cm + cf - Len(work) - h.tries /\ Left' = cf - (Len(work) - 1) - k
          /\ requests + Left <= cn - 1
      BY <3>1, <3>2
    <3>. DEFINE t == h.tries
                q == Len(work)
    <3>. HIDE DEF cm, cf, cn, t, q
    <3>7. /\ cn \in Int /\ cm \in Int /\ cf \in Int /\ cm >= Price /\ t \in Nat /\ t <= SingleRetries
          /\ q \in Nat /\ Left = cm + cf - q - t /\ Left' = cf - (q - 1) - k
      BY <3>1, <3>4 DEF t, q
    <3>5. Left' <= Left - 1 /\ Left' \in Int
      BY <2>5, <3>3, <3>7
    <3>8. requests \in Nat /\ requests + Left <= cn - 1 /\ Left \in Int /\ Left > 0
      BY <3>1, <3>4
    <3>6. requests' + Left' <= cn - 1 /\ requests' <= cn - 1 /\ requests' \in Nat
      BY <3>3, <3>5, <3>7, <3>8
    <3>. QED
      BY <3>6 DEF cn
  <2>8. \A i \in DOMAIN work' : batch'.to - work'[i].to >= Len(work') - i
    <3>1. \A i \in DOMAIN work' : /\ batch.to - work[i + 1].to >= Len(work) - (i + 1)
                                  /\ work'[i] = work[i + 1] /\ i \in Nat
      BY <2>1, <2>3 DEF Costs
    <3>2. \A i \in DOMAIN work' : Len(work') - i = Len(work) - (i + 1)
      BY <2>3, <3>1
    <3>. QED
      BY <2>1, <3>1, <3>2
  <2>9. \A i \in DOMAIN work' : /\ work'[i].tries <= SingleRetries
                                /\ Wide(work'[i]) => work'[i].tries = 0
    BY <2>3 DEF Costs
  <2>. QED
    BY <2>1, <2>7, <2>8, <2>9 DEF Costs
<1>8. CASE TimesOut
  <2>. DEFINE h == Head(work)
              l == [from |-> h.from, to |-> Half(h), tries |-> 0]
              r == [from |-> Half(h), to |-> h.to, tries |-> 0]
              m == h.to - h.from
              f == batch.to - h.to
  <2>1. /\ Asking /\ requests' = requests + 1 /\ batch' = batch /\ job' = job /\ job = "asking"
        /\ work' = <<l, r>> \o Tail(work) /\ m > 1
    BY <1>8 DEF TimesOut, Asking, Halves, Wide
  <2>2. work \in Seq(Stretch) /\ work # <<>> /\ h = work[1] /\ h \in Stretch
    BY <2>1, AskingSays
  <2>3. /\ Tail(work) \in Seq(Stretch) /\ Len(Tail(work)) = Len(work) - 1
        /\ \A i \in DOMAIN Tail(work) : Tail(work)[i] = work[i + 1] /\ i + 1 \in DOMAIN work
    BY <2>2
  <2>4. h.from \in Nat /\ h.to \in Nat /\ Half(h) \in Int /\ Half(h) < h.to
    <3>0. h.from \in Nat /\ h.to \in Nat /\ m > 1
      BY <2>1, <2>2 DEF Stretch, Position
    <3>. HIDE DEF h
    <3>1. \A k \in Nat : k > 1 => k \div 2 \in Nat /\ k \div 2 < k
      OBVIOUS
    <3>2. m \in Nat /\ (m \div 2) \in Nat /\ m \div 2 < m
      BY <3>0, <3>1
    <3>. QED
      BY <3>0, <3>2 DEF Half
  <2>5. l.to = Half(h) /\ l.from = h.from /\ r.to = h.to /\ l.tries = 0 /\ r.tries = 0
    OBVIOUS
  <2>6. work' \in Seq(Stretch)
    BY DEF IInv, Typed
  <2>. HIDE DEF l, r, h
  <2>7. /\ Len(work') = Len(work) + 1 /\ work' # <<>> /\ DOMAIN work' = 1..(Len(work) + 1)
        /\ work'[1] = l /\ work'[2] = r /\ Head(work') = l
        /\ \A i \in 3..Len(work') : work'[i] = work[i - 1] /\ i - 1 \in DOMAIN work
    BY <2>1, <2>2, <2>3, <2>6
  <2>8. /\ m \in Nat \ {0} /\ f \in Nat /\ f >= Len(work) - 1 /\ h.tries = 0
        /\ Len(work) \in Nat \ {0} /\ requests \in Nat
        /\ Cost(n) \in Int /\ Left \in Int /\ Left > 0
        /\ requests + Left <= Cost(n) - 1 /\ Front = h.from
    BY <2>1, HeadCosts DEF h
  <2>9. Left' = Left - 1
    <3>1. Front' = h.from
      BY <2>5, <2>7 DEF Front
    <3>2. Left' = Cost(batch.to - h.from) - (Len(work) + 1) - 0
      BY <2>1, <2>5, <2>7, <3>1 DEF Left
    <3>3. Left = Cost(batch.to - h.from) - Len(work) - 0
      BY <2>2, <2>8 DEF Left, h
    <3>4. Cost(batch.to - h.from) \in Int
      <4>1. batch.to - h.from \in Int
        BY <2>4, SizesAssumption DEF IInv, Typed, Position
      <4>. QED
        BY <4>1, Prices
    <3>. QED
      BY <2>8, <3>2, <3>3, <3>4
  <2>10. requests' + Left' <= Cost(n) - 1 /\ requests' <= Cost(n) - 1 /\ requests' \in Nat
    BY <2>1, <2>8, <2>9
  <2>13. batch.to \in Int /\ SingleRetries \in Nat
    BY SizesAssumption DEF IInv, Typed, Position
  <2>14. /\ batch.to - work'[1].to >= Len(work') - 1 /\ work'[1].tries = 0
         /\ batch.to - work'[2].to >= Len(work') - 2 /\ work'[2].tries = 0
    <3>1. work'[1].to = Half(h) /\ work'[2].to = h.to /\ work'[1].tries = 0 /\ work'[2].tries = 0
      BY ONLY <2>5, <2>7
    <3>2. Half(h) \in Int /\ h.to \in Nat /\ Half(h) + 1 <= h.to
      BY ONLY <2>4
    <3>3. Len(work') = Len(work) + 1 /\ Len(work) \in Nat
      BY ONLY <2>7, <2>8
    <3>4. batch.to - h.to >= Len(work) - 1
      BY ONLY <2>8
    <3>. QED
      BY ONLY <2>13, <3>1, <3>2, <3>3, <3>4
  <2>11. ASSUME NEW i \in DOMAIN work'
         PROVE  /\ batch'.to - work'[i].to >= Len(work') - i
                /\ work'[i].tries <= SingleRetries /\ (Wide(work'[i]) => work'[i].tries = 0)
    <3>1. CASE i = 1
      BY <2>1, <2>13, <2>14, <3>1
    <3>2. CASE i = 2
      BY <2>1, <2>13, <2>14, <3>2
    <3>3. CASE i > 2
      <4>1. i \in 3..Len(work') /\ work'[i] = work[i - 1] /\ i - 1 \in DOMAIN work
        BY <2>7, <2>8, <3>3
      <4>2. /\ batch.to - work[i - 1].to >= Len(work) - (i - 1)
            /\ work[i - 1].tries <= SingleRetries /\ (Wide(work[i - 1]) => work[i - 1].tries = 0)
        BY <2>1, <4>1 DEF Costs
      <4>3. Len(work) - (i - 1) = Len(work') - i
        BY <2>7, <2>8, <4>1
      <4>. QED
        BY <2>1, <4>1, <4>2, <4>3
    <3>. QED
      BY <2>7, <2>8, <3>1, <3>2, <3>3
  <2>. QED
    BY <2>1, <2>10, <2>11 DEF Costs
<1>9. CASE Assemble \/ Commit \/ Fail \/ Die \/ Begin
  BY <1>1, <1>9 DEF Assemble, Commit, Fail, Die, Begin, asked
<1>10. CASE Upsert \/ DeleteConfig \/ UNCHANGED vars
  BY <1>2, <1>10 DEF Upsert, DeleteConfig, vars, asked
<1>. QED
  BY <1>3, <1>4, <1>5, <1>6, <1>7, <1>8, <1>9, <1>10 DEF Next

LEMMA CostsBound == Costs => RequestsBounded
BY DEF Costs, RequestsBounded, Cost, Price

LEMMA BatchesAreSound == SpecAll => [](IInv /\ Costs)
<1>. DEFINE I == IInv /\ Costs
<1>1. InitAll => I
  BY InitHolds, InitCosts DEF InitAll
<1>2. I /\ [NextAll]_allVars => I'
  <2>. SUFFICES ASSUME I, [NextAll]_allVars PROVE I'
    OBVIOUS
  <2>1. [Next]_vars
    BY DEF NextAll, EmbeddingsStep, BridgeStep, LinkStep, AccountsStep, PushesStep, SpaceStep,
           ChatStep, WebStep, ShellStep, ProcessStep, PlanStep, allVars
  <2>2. IInv'
    BY <2>1, StepHolds
  <2>. QED
    BY <2>1, <2>2, StepCosts
<1>. QED
  BY <1>1, <1>2, PTL DEF SpecAll

(* However requests are halved and retried, for any sizes and any number of *)
(* texts: the vectors that came are those of the texts before the next      *)
(* range, and the waiting ranges are the rest of the batch                  *)
(* (EmbeddingService._embed_with_adaptive_retry).                           *)
THEOREM NoTextIsLost == SpecAll => []NothingLost
<1>1. IInv /\ Costs => NothingLost
  BY DEF IInv
<1>. QED
  BY <1>1, BatchesAreSound, PTL

(* However slow the server and however often the job dies, a batch costs a  *)
(* bounded number of requests; and the vectors of a ready document come     *)
(* from one model, although the account may replace the model behind the    *)
(* name during the job (EmbeddingService._embed_with_adaptive_retry,        *)
(* RetrievalService.index_chunks).                                          *)
THEOREM VectorsAreUniform == SpecAll => []VectorsUniform
<1>1. IInv /\ Costs => VectorsUniform
  BY CostsBound DEF IInv, VectorsUniform
<1>. QED
  BY <1>1, BatchesAreSound, PTL
-----------------------------------------------------------------------------
(* ShellJobs.                                                               *)

Exit == {"zero", "other", "signal"}
Answers == [status : {"none", "running", "completed", "error", "timeout", "killed"},
            code : {"none"} \cup Exit, output : BOOLEAN]

(* How a command exited never changes, so what a poll said is still true    *)
(* when it is written down, and "completed" is only written of "zero".      *)
ShellTyped ==
    /\ process \in {"none", "running"} \cup Exit
    /\ entry \in Answers
    /\ reported \in [Asker -> Answers]
    /\ polled \in [Asker -> {"none"} \cup Exit]
    /\ capture \in {"none", "waiting", "read", "coded", "expired", "over"}
    /\ capture \in {"coded", "read", "expired"} => process \in Exit
PollIsTrue   == \A a \in Asker : polled[a] # "none" => process = polled[a]
EntryIsTrue  == entry.status = "completed" => process = "zero"
CaptureBegan == process = "none" <=> capture = "none"

ShellInv ==
    /\ ShellTyped /\ PollIsTrue /\ EntryIsTrue /\ CaptureBegan
    /\ Shell!SuccessIsTrue /\ Shell!NotLeftRunning

LEMMA ShellBegins == Shell!Init => ShellInv
BY DEF Shell!Init, Shell!NoEntry, ShellInv, ShellTyped, PollIsTrue, EntryIsTrue, CaptureBegan,
       Shell!SuccessIsTrue, Shell!NotLeftRunning, Answers, Exit

LEMMA ShellGoesOn == ASSUME ShellInv, [Shell!Next]_shellVars PROVE ShellInv'
<1>. USE DEF ShellInv, ShellTyped, PollIsTrue, EntryIsTrue, CaptureBegan, Shell!SuccessIsTrue,
             Shell!NotLeftRunning, Answers, Exit, Shell!Gone
<1>1. CASE Shell!Start
  BY <1>1 DEF Shell!Start
<1>2. CASE Shell!Exits
  BY <1>2 DEF Shell!Exits
<1>3. CASE Shell!Holds
  BY <1>3 DEF Shell!Holds
<1>4. CASE Shell!CaptureReads
  BY <1>4 DEF Shell!CaptureReads
<1>5. CASE Shell!CaptureTimesOut
  BY <1>5 DEF Shell!CaptureTimesOut, Shell!Killed
<1>6. CASE Shell!CaptureSetsCode
  BY <1>6 DEF Shell!CaptureSetsCode
<1>7. CASE Shell!CaptureSetsStatus
  BY <1>7 DEF Shell!CaptureSetsStatus, Shell!Verdict
<1>8. ASSUME NEW a \in Asker, Shell!StatusFinds(a) \/ Shell!StatusAsks(a) \/ Shell!KillFinds(a)
      PROVE  ShellInv'
  BY <1>8 DEF Shell!StatusFinds, Shell!StatusAsks, Shell!KillFinds
<1>9. ASSUME NEW a \in Asker, Shell!StatusPolls(a) PROVE ShellInv'
  BY <1>9 DEF Shell!StatusPolls, Shell!Step
<1>14. ASSUME NEW a \in Asker, Shell!StatusSetsCode(a) PROVE ShellInv'
  BY <1>14 DEF Shell!StatusSetsCode, Shell!Step
<1>15. ASSUME NEW a \in Asker, Shell!StatusSetsStatus(a) PROVE ShellInv'
  BY <1>15 DEF Shell!StatusSetsStatus, Shell!Step, Shell!Verdict
<1>16. ASSUME NEW a \in Asker, Shell!StatusTellsStatus(a) PROVE ShellInv'
  BY <1>16 DEF Shell!StatusTellsStatus, Shell!Step, Shell!NoEntry
<1>17. ASSUME NEW a \in Asker, Shell!StatusTellsCode(a) PROVE ShellInv'
  BY <1>17 DEF Shell!StatusTellsCode, Shell!Step
<1>18. ASSUME NEW a \in Asker, Shell!StatusTellsOutput(a) PROVE ShellInv'
  BY <1>18 DEF Shell!StatusTellsOutput, Shell!Step
<1>10. ASSUME NEW a \in Asker, Shell!KillSignals(a) PROVE ShellInv'
  BY <1>10 DEF Shell!KillSignals, Shell!Step, Shell!Killed
<1>11. ASSUME NEW a \in Asker, Shell!KillMarks(a) PROVE ShellInv'
  BY <1>11 DEF Shell!KillMarks, Shell!Step
<1>12. ASSUME NEW a \in Asker, Shell!KillSetsCode(a) PROVE ShellInv'
  BY <1>12 DEF Shell!KillSetsCode, Shell!Step
<1>13. CASE UNCHANGED shellVars
  BY <1>13 DEF shellVars
<1>. QED
  BY <1>1, <1>2, <1>3, <1>4, <1>5, <1>6, <1>7, <1>8, <1>9, <1>10, <1>11, <1>12, <1>13,
     <1>14, <1>15, <1>16, <1>17, <1>18
  DEF Shell!Next

-----------------------------------------------------------------------------
(* WebTools.                                                                *)

Place == {"idle", "resolving", "looking", "fetching", "requesting"}
Told  == [how : {"none", "cached", "videos", "candidates", "response", "error", "raised"},
          age : Int, late : BOOLEAN]
Heard == {"answer", "busy", "broken", "fatal"}

WebTyped ==
    /\ now \in Nat
    /\ cache \in [Numbers -> Nat]
    /\ at \in [WebCall -> Place]
    /\ wants \in [WebCall -> Nat]
    /\ heard \in [WebCall -> Seq(Heard)]
    /\ deadline \in [WebCall -> Nat]
    /\ told \in [WebCall -> Told]

(* A call is told nothing before it ends, it has heard nothing before it    *)
(* requests, and as long as it goes on all it heard may pass.               *)
MayPass(h) == \A i \in 1..Len(h) : h[i] \in Web!Transient
Truthful(h, t) ==
    /\ Len(h) <= Attempts
    /\ \A i \in 1..(Len(h) - 1) : h[i] \in Web!Transient
    /\ t.how = "response" =>
         h[Len(h)] = "answer" \/ (h[Len(h)] = "busy" /\ Len(h) = Attempts)
    /\ t.how = "error" => \/ t.late
                          \/ h[Len(h)] = "fatal"
                          \/ h[Len(h)] = "broken" /\ Len(h) = Attempts
    /\ t.how = "cached" => t.age <= Ttl
CallHolds(a, h, t) ==
    /\ a # "idle" => t = Web!NoAnswer
    /\ a \in {"resolving", "looking", "fetching"} => h = <<>>
    /\ a = "requesting" => Len(h) < Attempts /\ MayPass(h)
    /\ Truthful(h, t)

WebInv == WebTyped /\ \A c \in WebCall : CallHolds(at[c], heard[c], told[c])

LEMMA WebMeans ==
  WebInv => Web!ServedFresh /\ Web!OnlyTransientRetried
BY DEF WebInv, CallHolds, Truthful, Web!ServedFresh, Web!OnlyTransientRetried

LEMMA LargestFits ==
  ASSUME NEW c, Web!Fits(c) # {}
  PROVE  Web!Largest(c) \in Numbers /\ cache[Web!Largest(c)] # 0
<1>1. \A n \in Web!Fits(c) : n \in 1..20
  BY WebAssumption DEF Web!Fits
<1>2. \E n \in Web!Fits(c) : \A m \in Web!Fits(c) : m <= n
  BY <1>1, SMTT(60)
<1>3. Web!Largest(c) \in Web!Fits(c)
  BY <1>2 DEF Web!Largest
<1>. QED
  BY <1>3 DEF Web!Fits

LEMMA CallEnds ==
  ASSUME WebTyped, NEW c \in WebCall, NEW h \in Seq(Heard), NEW how \in {"cached", "videos",
         "candidates", "response", "error", "raised"}, NEW t \in Nat, Web!Tell(c, how, t),
         heard' = [heard EXCEPT ![c] = h],
         Truthful(h, [how  |-> how, age |-> IF t = 0 THEN 0 ELSE now - t,
                      late |-> at[c] = "requesting" /\ now >= deadline[c]]),
         \A d \in WebCall : CallHolds(at[d], heard[d], told[d]),
         UNCHANGED now, cache' \in [Numbers -> Nat]
  PROVE  WebInv'
<1>1. told'[c] = [how  |-> how, age |-> IF t = 0 THEN 0 ELSE now - t,
                  late |-> at[c] = "requesting" /\ now >= deadline[c]]
  BY DEF WebTyped, Web!Tell
<1>2. at'[c] = "idle" /\ heard'[c] = h
  BY DEF WebTyped, Web!Tell, Web!Go
<1>3. CallHolds(at'[c], heard'[c], told'[c])
  BY <1>1, <1>2 DEF CallHolds
<1>4. \A d \in WebCall : d # c => at'[d] = at[d] /\ heard'[d] = heard[d] /\ told'[d] = told[d]
  BY DEF WebTyped, Web!Tell, Web!Go
<1>5. WebTyped'
  BY DEF WebTyped, Web!Tell, Web!Go, Place, Told
<1>6. \A d \in WebCall : CallHolds(at'[d], heard'[d], told'[d])
  BY <1>3, <1>4
<1>. QED
  BY <1>5, <1>6 DEF WebInv

LEMMA CallGoesOn ==
  ASSUME WebInv, WebTyped', NEW c \in WebCall, at' = [at EXCEPT ![c] = at'[c]],
         heard' = [heard EXCEPT ![c] = heard'[c]], told' = [told EXCEPT ![c] = told'[c]],
         CallHolds(at'[c], heard'[c], told'[c])
  PROVE  WebInv'
<1>1. \A d \in WebCall : d # c => at'[d] = at[d] /\ heard'[d] = heard[d] /\ told'[d] = told[d]
  BY DEF WebInv, WebTyped
<1>. QED
  BY <1>1 DEF WebInv

LEMMA WebBegins == Web!Init => WebInv
<1>1. CallHolds("idle", <<>>, Web!NoAnswer)
  BY WebAssumption DEF CallHolds, Truthful, Web!NoAnswer
<1>2. Web!Init => WebTyped
  BY DEF Web!Init, WebTyped, Place, Told, Heard, Web!NoAnswer
<1>. QED
  BY <1>1, <1>2 DEF Web!Init, WebInv

LEMMA WebGoesOn == ASSUME WebInv, [Web!Next]_webVars PROVE WebInv'
<1>1. ASSUME NEW c \in WebCall, Web!Search(c) PROVE WebInv'
  <2>1. WebTyped'
    BY <1>1, WebAssumption
    DEF WebInv, WebTyped, Web!Search, Web!Try, Web!Go, Web!NoAnswer, Place, Told
  <2>2. CallHolds(at'[c], heard'[c], told'[c])
    BY <1>1, WebAssumption DEF WebInv, WebTyped, Web!Search, Web!Try, Web!Go, CallHolds,
       Truthful, MayPass, Web!NoAnswer
  <2>. QED
    BY <1>1, <2>1, <2>2, CallGoesOn DEF WebInv, WebTyped, Web!Search, Web!Try, Web!Go
<1>2. ASSUME NEW c \in WebCall, Web!LatestVideos(c) PROVE WebInv'
  <2>1. WebTyped'
    BY <1>2, WebAssumption
    DEF WebInv, WebTyped, Web!LatestVideos, Web!Go, Web!NoAnswer, Place, Told
  <2>2. CallHolds(at'[c], heard'[c], told'[c])
    BY <1>2, WebAssumption DEF WebInv, WebTyped, Web!LatestVideos, Web!Go, CallHolds,
       Truthful, Web!NoAnswer
  <2>. QED
    BY <1>2, <2>1, <2>2, CallGoesOn DEF WebInv, WebTyped, Web!LatestVideos, Web!Go
<1>3. ASSUME NEW c \in WebCall, Web!Resolve(c) PROVE WebInv'
  <2>1. WebTyped'
    <3>1. CASE Web!Go(c, "looking") /\ UNCHANGED <<heard, deadline>>
      BY <1>3, <3>1 DEF WebInv, WebTyped, Web!Resolve, Web!Go, Place
    <3>2. CASE Web!Try(c)
      BY <1>3, <3>2, WebAssumption DEF WebInv, WebTyped, Web!Resolve, Web!Try, Web!Go, Place
    <3>. QED
      BY <1>3, <3>1, <3>2 DEF Web!Resolve
  <2>2. CallHolds(at'[c], heard'[c], told'[c])
    BY <1>3, WebAssumption DEF WebInv, WebTyped, Web!Resolve, Web!Try, Web!Go, CallHolds,
       Truthful, MayPass, Web!NoAnswer
  <2>. QED
    <3>1. /\ at' = [at EXCEPT ![c] = at'[c]]
          /\ heard' = [heard EXCEPT ![c] = heard'[c]]
          /\ told' = [told EXCEPT ![c] = told'[c]]
      <4>1. CASE Web!Go(c, "looking") /\ UNCHANGED <<heard, deadline>>
        BY <1>3, <4>1 DEF WebInv, WebTyped, Web!Resolve, Web!Go
      <4>2. CASE Web!Try(c)
        BY <1>3, <4>2 DEF WebInv, WebTyped, Web!Resolve, Web!Try, Web!Go
      <4>. QED
        BY <1>3, <4>1, <4>2 DEF Web!Resolve
    <3>. QED
      BY <2>1, <2>2, <3>1, CallGoesOn
<1>4. ASSUME NEW c \in WebCall, Web!Continue(c), at[c] = "looking", UNCHANGED <<now, heard>>,
             cache' \in [Numbers -> Nat]
      PROVE  WebInv'
  <2>1. WebTyped'
    BY <1>4 DEF WebInv, WebTyped, Web!Continue, Web!Go, Place
  <2>2. CallHolds(at'[c], heard'[c], told'[c])
    BY <1>4 DEF WebInv, WebTyped, Web!Continue, Web!Go, CallHolds
  <2>. QED
    BY <1>4, <2>1, <2>2, CallGoesOn DEF WebInv, WebTyped, Web!Continue, Web!Go
<1>5. ASSUME NEW c \in WebCall, Web!Look(c) PROVE WebInv'
  <2>. DEFINE n == Web!Largest(c)
  <2>1. at[c] = "looking" /\ heard[c] = <<>> /\ UNCHANGED <<now, heard>>
    BY <1>5 DEF Web!Look, WebInv, CallHolds
  <2>2. CASE Web!Fits(c) # {} /\ ~Web!Expired(n) /\ Web!Tell(c, "cached", cache[n]) /\ UNCHANGED cache
    <3>1. n \in Numbers /\ cache[n] # 0 /\ cache[n] \in Nat /\ now - cache[n] <= Ttl
      <4>1. n \in Numbers /\ cache[n] # 0
        BY <2>2, LargestFits
      <4>2. cache[n] \in Nat /\ now \in Nat
        BY <4>1 DEF WebInv, WebTyped
      <4>. QED
        BY <2>2, <4>1, <4>2, WebAssumption DEF Web!Expired
    <3>. DEFINE t == [how  |-> "cached", age |-> IF cache[n] = 0 THEN 0 ELSE now - cache[n],
                      late |-> at[c] = "requesting" /\ now >= deadline[c]]
    <3>2. Truthful(<<>>, t)
      BY <3>1, WebAssumption DEF Truthful
    <3>3. heard' = [heard EXCEPT ![c] = <<>>]
      BY <2>1 DEF WebInv, WebTyped
    <3>4. <<>> \in Seq(Heard) /\ cache' \in [Numbers -> Nat]
      BY <2>2 DEF WebInv, WebTyped
    <3>. HIDE DEF n
    <3>. QED
      BY <2>1, <2>2, <3>1, <3>2, <3>3, <3>4, CallEnds DEF WebInv
  <2>3. CASE Web!Fits(c) # {} /\ cache' = [cache EXCEPT ![n] = 0] /\ Web!Continue(c)
    BY <1>4, <2>1, <2>3 DEF WebInv, WebTyped
  <2>4. CASE Web!Continue(c) /\ UNCHANGED cache
    BY <1>4, <2>1, <2>4 DEF WebInv, WebTyped
  <2>. QED
    BY <1>5, <2>2, <2>3, <2>4 DEF Web!Look
<1>6. ASSUME NEW c \in WebCall, Web!Fetch(c) PROVE WebInv'
  <2>1. at[c] = "fetching" /\ heard[c] = <<>>
    BY <1>6 DEF Web!Fetch, WebInv, CallHolds
  <2>2. CASE Web!FetchFinds(c)
    <3>. DEFINE t == [how  |-> "videos", age |-> IF now = 0 THEN 0 ELSE now - now,
                      late |-> at[c] = "requesting" /\ now >= deadline[c]]
    <3>1. Truthful(<<>>, t)
      BY WebAssumption DEF Truthful
    <3>2. /\ heard' = [heard EXCEPT ![c] = <<>>] /\ cache' \in [Numbers -> Nat]
          /\ <<>> \in Seq(Heard) /\ now \in Nat
      BY <2>1, <2>2 DEF WebInv, WebTyped, Web!FetchFinds
    <3>3. Web!Tell(c, "videos", now) /\ UNCHANGED now
      BY <2>2 DEF Web!FetchFinds
    <3>. QED
      BY <3>1, <3>2, <3>3, CallEnds DEF WebInv
  <2>3. CASE Web!FetchFindsNone(c)
    <3>1. WebTyped'
      BY <2>3, WebAssumption DEF WebInv, WebTyped, Web!FetchFindsNone, Web!Try, Web!Go, Place
    <3>2. CallHolds(at'[c], heard'[c], told'[c])
      BY <2>1, <2>3, WebAssumption DEF WebInv, WebTyped, Web!FetchFindsNone, Web!Try, Web!Go,
         CallHolds, Truthful, MayPass, Web!NoAnswer
    <3>. QED
      BY <2>3, <3>1, <3>2, CallGoesOn DEF WebInv, WebTyped, Web!FetchFindsNone, Web!Try, Web!Go
  <2>. QED
    BY <1>6, <2>2, <2>3 DEF Web!Fetch
<1>7. ASSUME NEW c \in WebCall, Web!Request(c) PROVE WebInv'
  <2>. DEFINE h(o) == Append(heard[c], o)
  <2>1. PICK o \in Heard :
          /\ heard' = [heard EXCEPT ![c] = h(o)]
          /\ IF o \in Web!Transient /\ Len(heard[c]) + 1 < Attempts
             THEN UNCHANGED <<at, wants, deadline, told, latest>>
             ELSE Web!Tell(c, Web!Outcome(c, o \in {"answer", "busy"}), 0)
    BY <1>7 DEF Web!Request, Heard, WebInv, WebTyped
  <2>2. /\ at[c] = "requesting" /\ heard[c] \in Seq(Heard) /\ h(o) \in Seq(Heard)
        /\ Len(heard[c]) < Attempts /\ MayPass(heard[c]) /\ told[c] = Web!NoAnswer
        /\ UNCHANGED <<now, cache>> /\ now < deadline[c]
    BY <1>7 DEF Web!Request, WebInv, WebTyped, CallHolds
  <2>3. /\ Len(h(o)) = Len(heard[c]) + 1
        /\ \A i \in 1..Len(heard[c]) : h(o)[i] \in Web!Transient
        /\ h(o)[Len(h(o))] = o
    BY <2>2 DEF MayPass
  <2>4. CASE o \in Web!Transient /\ Len(heard[c]) + 1 < Attempts
    <3>1. WebTyped'
      BY <2>1, <2>2, <2>4 DEF WebInv, WebTyped
    <3>2. at'[c] = "requesting" /\ heard'[c] = h(o) /\ told'[c] = Web!NoAnswer
      BY <2>1, <2>2, <2>4 DEF WebInv, WebTyped
    <3>3. \A i \in 1..Len(h(o)) : h(o)[i] \in Web!Transient
      BY <2>2, <2>3, <2>4
    <3>4. CallHolds("requesting", h(o), Web!NoAnswer)
      BY <2>2, <2>3, <2>4, <3>3, WebAssumption DEF CallHolds, Truthful, MayPass, Web!NoAnswer
    <3>. QED
      <4>1. /\ at' = [at EXCEPT ![c] = at'[c]]
            /\ heard' = [heard EXCEPT ![c] = heard'[c]]
            /\ told' = [told EXCEPT ![c] = told'[c]]
        <5>1. at' = at /\ told' = told /\ heard' = [heard EXCEPT ![c] = h(o)]
          BY <2>1, <2>4
        <5>2. at = [at EXCEPT ![c] = at[c]] /\ told = [told EXCEPT ![c] = told[c]]
          BY DEF WebInv, WebTyped
        <5>3. heard'[c] = h(o)
          BY <3>2
        <5>. HIDE DEF h
        <5>. QED
          BY <5>1, <5>2, <5>3
      <4>2. CallHolds(at'[c], heard'[c], told'[c])
        BY <3>2, <3>4
      <4>. QED
        BY <3>1, <4>1, <4>2, CallGoesOn
  <2>5. CASE ~(o \in Web!Transient /\ Len(heard[c]) + 1 < Attempts)
    <3>. DEFINE how == Web!Outcome(c, o \in {"answer", "busy"})
                t == [how  |-> how, age |-> IF 0 = 0 THEN 0 ELSE now - 0,
                      late |-> at[c] = "requesting" /\ now >= deadline[c]]
    <3>1. how \in {"candidates", "response", "error"}
      BY DEF Web!Outcome
    <3>2. how = "response" => o \in {"answer", "busy"}
      BY DEF Web!Outcome
    <3>3. how = "error" => o \notin {"answer", "busy"}
      BY DEF Web!Outcome
    <3>. HIDE DEF how
    <3>4. o \in Web!Transient => Len(h(o)) = Attempts
      BY <2>2, <2>3, <2>5, WebAssumption
    <3>5. Truthful(h(o), t)
      BY <2>2, <2>3, <3>1, <3>2, <3>3, <3>4, WebAssumption DEF Truthful, Heard, Web!Transient
    <3>6. Web!Tell(c, how, 0)
      BY <2>1, <2>5 DEF how
    <3>7. cache' \in [Numbers -> Nat]
      BY <2>2 DEF WebInv, WebTyped
    <3>. QED
      BY <2>1, <2>2, <3>1, <3>5, <3>6, <3>7, CallEnds DEF WebInv
  <2>. QED
    BY <2>4, <2>5
<1>8. ASSUME NEW c \in WebCall, Web!BudgetExhausted(c) PROVE WebInv'
  <2>. DEFINE how == Web!Outcome(c, FALSE)
              t == [how  |-> how, age |-> IF 0 = 0 THEN 0 ELSE now - 0,
                    late |-> at[c] = "requesting" /\ now >= deadline[c]]
  <2>1. how \in {"candidates", "error"}
    BY DEF Web!Outcome
  <2>. HIDE DEF how
  <2>2. /\ at[c] = "requesting" /\ now >= deadline[c] /\ heard[c] \in Seq(Heard)
        /\ Truthful(heard[c], told[c]) /\ UNCHANGED <<now, cache>>
        /\ heard' = [heard EXCEPT ![c] = heard[c]] /\ cache' \in [Numbers -> Nat]
    BY <1>8 DEF Web!BudgetExhausted, WebInv, WebTyped, CallHolds
  <2>3. Truthful(heard[c], t)
    BY <2>1, <2>2 DEF Truthful
  <2>4. Web!Tell(c, how, 0)
    BY <1>8 DEF Web!BudgetExhausted, how
  <2>. QED
    BY <2>1, <2>2, <2>3, <2>4, CallEnds DEF WebInv
<1>9. CASE Web!Tick
  BY <1>9 DEF Web!Tick, WebInv, WebTyped
<1>10. CASE UNCHANGED webVars
  BY <1>10 DEF webVars, WebInv, WebTyped
<1>11. ASSUME NEW c \in WebCall, Web!LookBreaks(c) PROVE WebInv'
  <2>. DEFINE t == [how  |-> "raised", age |-> IF 0 = 0 THEN 0 ELSE now - 0,
                    late |-> at[c] = "requesting" /\ now >= deadline[c]]
  <2>1. /\ heard[c] = <<>> /\ UNCHANGED <<now, cache>> /\ Web!Tell(c, "raised", 0)
        /\ heard' = heard /\ <<>> \in Seq(Heard)
    BY <1>11 DEF Web!LookBreaks, WebInv, CallHolds
  <2>2. heard' = [heard EXCEPT ![c] = <<>>] /\ cache' \in [Numbers -> Nat]
    BY <2>1 DEF WebInv, WebTyped
  <2>3. Truthful(<<>>, t)
    BY WebAssumption DEF Truthful
  <2>. QED
    BY <2>1, <2>2, <2>3, CallEnds DEF WebInv
<1>. QED
  BY <1>1, <1>2, <1>3, <1>5, <1>6, <1>7, <1>8, <1>9, <1>10, <1>11 DEF Web!Next

\* What a tool tells is true, however many calls and questions overlap: videos
\* from the cache are at most Ttl old, a request is repeated only after a failure
\* that may pass, a job called completed exited with zero, and nothing runs that
\* nobody watches (web_tools, net.http, shell_tools).
THEOREM ToolsTellTheTruth == SpecAll => []ToolsTruthful
<1>. DEFINE I == (part = "web" => WebInv) /\ (part = "shell" => ShellInv)
<1>1. InitAll => I
  BY WebBegins, ShellBegins DEF InitAll
<1>2. I /\ [NextAll]_allVars => I'
  BY OneAtWork, WebGoesOn, ShellGoesOn
<1>3. I => ToolsTruthful
  BY WebMeans DEF ShellInv, ToolsTruthful
<1>. QED
  BY <1>1, <1>2, <1>3, PTL DEF SpecAll

-----------------------------------------------------------------------------
(* ChatAnswer.                                                              *)

Questions == [images : BOOLEAN, history : BOOLEAN]

ChatTyped ==
    /\ question \in Questions
    /\ take \in Chat!Takes
    /\ takes \in Seq(Chat!Takes)
    /\ segments \in Seq(Chat!Takes)

\* The order in which a question is asked: images are dropped and do not come back,
\* and with the same images the prompt with the history comes after the native one.
Later(a, b) ==
    /\ b.images => a.images
    /\ a.images = b.images => a.mode = "native" /\ b.mode = "compat"

(* Nothing was received before the provider is asked, and what is kept of    *)
(* an answer was received in the last way of asking.                         *)
Unasked ==
    stage \notin {"asking", "done"} => takes = <<>> /\ segments = <<>> /\ outcome = "none"
LastTake ==
    stage = "asking" =>
        /\ takes # <<>> /\ take = takes[Len(takes)] /\ outcome = "none"
        /\ \A i \in DOMAIN segments : segments[i] = take
TakesOrdered == \A i, j \in DOMAIN takes : i < j => Later(takes[i], takes[j])

ChatInv == ChatTyped /\ Unasked /\ LastTake /\ TakesOrdered /\ Chat!OneTake

LEMMA ChatMeans == ChatInv => AnswerIsOne
BY DEF ChatInv, ChatTyped, TakesOrdered, Later, AnswerIsOne, Chat!EachTakeOnce, Chat!Takes

LEMMA ChatBegins == Chat!Init => ChatInv
BY DEF Chat!Init, Chat!NoTake, Chat!Takes, Questions, ChatInv, ChatTyped, Unasked, LastTake,
       TakesOrdered, Chat!OneTake

LEMMA FirstTake ==
  ASSUME ChatInv, stage \notin {"asking", "done"}, NEW kept, Chat!Ask(kept)
  PROVE  ChatInv'
<1>1. takes = <<>> /\ segments = <<>> /\ outcome = "none"
  BY DEF ChatInv, Unasked
<1>2. CASE stage' = "done" /\ outcome' \in {"mock", "failed"} /\ UNCHANGED Chat!asking
  BY <1>1, <1>2 DEF ChatInv, ChatTyped, Unasked, LastTake, TakesOrdered, Chat!OneTake, Chat!asking
<1>3. CASE /\ stage' = "asking"
           /\ question' \in Questions
           /\ take' = [images |-> question'.images, mode |-> Chat!FirstMode(question')]
           /\ takes' = <<take'>>
           /\ UNCHANGED <<segments, outcome>>
  <2>1. Chat!FirstMode(question') \in {"native", "compat"}
    BY DEF Chat!FirstMode
  <2>2. take' \in Chat!Takes /\ takes' \in Seq(Chat!Takes) /\ Len(takes') = 1 /\ takes'[1] = take'
    BY <1>3, <2>1 DEF Chat!Takes, Questions
  <2>3. DOMAIN takes' = 1..1
    BY <2>2
  <2>4. TakesOrdered'
    BY <2>3 DEF TakesOrdered
  <2>5. LastTake'
    BY <1>1, <1>3, <2>2 DEF LastTake
  <2>. QED
    BY <1>1, <1>3, <2>2, <2>4, <2>5 DEF ChatInv, ChatTyped, Unasked, Chat!OneTake
<1>. QED
  BY <1>2, <1>3 DEF Chat!Ask, Questions

\* A failed try is followed by a later way of asking, or by none.
LEMMA NextTake ==
  ASSUME ChatInv, stage = "asking", NEW e, Chat!Failed(e), UNCHANGED question
  PROVE  ChatInv'
<1>. DEFINE b == Chat!FirstMode(question)
<1>1. b \in {"native", "compat"} /\ take \in Chat!Takes /\ takes \in Seq(Chat!Takes)
  BY DEF Chat!FirstMode, ChatInv, ChatTyped
<1>2. CASE Chat!GiveUp
  BY <1>2 DEF Chat!Failed, Chat!GiveUp, ChatInv, ChatTyped, Unasked, LastTake, TakesOrdered,
     Chat!OneTake
<1>3. ASSUME NEW t \in Chat!Takes, Chat!Another(t), Later(take, t) PROVE ChatInv'
  <2>1. /\ takes' \in Seq(Chat!Takes) /\ Len(takes') = Len(takes) + 1 /\ takes'[Len(takes')] = t
        /\ \A i \in DOMAIN takes : takes'[i] = takes[i] /\ takes[i] \in Chat!Takes
        /\ DOMAIN takes = 1..Len(takes) /\ DOMAIN takes' = 1..(Len(takes) + 1)
        /\ Len(takes) \in Nat
    BY <1>1, <1>3 DEF Chat!Another
  <2>2. takes # <<>> /\ take = takes[Len(takes)]
    BY DEF ChatInv, LastTake
  <2>3. \A i \in DOMAIN takes : i # Len(takes) => Later(takes[i], take)
    BY <2>1, <2>2 DEF ChatInv, TakesOrdered
  <2>4. \A i \in DOMAIN takes : Later(takes[i], t)
    BY <1>1, <1>3, <2>1, <2>2, <2>3 DEF Later, Chat!Takes
  <2>5. TakesOrdered'
    BY <2>1, <2>4 DEF ChatInv, TakesOrdered
  <2>6. stage' = "asking" /\ take' = t /\ segments' = <<>> /\ outcome' = "none"
    BY <1>3 DEF Chat!Another, Chat!Failed, ChatInv, LastTake
  <2>7. LastTake' /\ Unasked' /\ (Chat!OneTake)'
    BY <2>1, <2>6 DEF LastTake, Unasked, Chat!OneTake
  <2>. QED
    BY <2>1, <2>5, <2>6, <2>7 DEF ChatInv, ChatTyped
<1>4. CASE /\ take.mode = "native" /\ question.history /\ HistoryMode = "auto"
           /\ Chat!Another([take EXCEPT !.mode = "compat"])
  <2>. DEFINE t == [take EXCEPT !.mode = "compat"]
  <2>1. t \in Chat!Takes /\ Later(take, t)
    BY <1>1, <1>4 DEF Chat!Takes, Later
  <2>. QED
    BY <1>3, <1>4, <2>1
<1>5. CASE take.images /\ Chat!Another([images |-> FALSE, mode |-> b])
  <2>1. [images |-> FALSE, mode |-> b] \in Chat!Takes /\ Later(take, [images |-> FALSE, mode |-> b])
    BY <1>1, <1>5 DEF Chat!Takes, Later
  <2>. QED
    BY <1>3, <1>5, <2>1
<1>. QED
  BY <1>2, <1>4, <1>5 DEF Chat!Failed, Chat!TryAgain

LEMMA ChatGoesOn == ASSUME ChatInv, [Chat!Next]_chatVars PROVE ChatInv'
<1>1. ASSUME stage \notin {"asking", "done"}, stage' # "asking", outcome' # "answered",
             outcome' = "none" \/ stage' = "done", UNCHANGED <<question, take, takes, segments>>
      PROVE  ChatInv'
  BY <1>1 DEF ChatInv, ChatTyped, Unasked, LastTake, TakesOrdered, Chat!OneTake
<1>2. stage \notin {"asking", "done"} => outcome = "none"
  BY DEF ChatInv, Unasked
<1>3. CASE Chat!Scope
  <2>1. CASE Chat!Ask(Chat!NoHits)
    BY <1>3, <2>1, FirstTake DEF Chat!Scope
  <2>2. CASE stage' = "rewrite" /\ UNCHANGED <<Chat!searching, Chat!asking, outcome>>
    BY <1>1, <1>2, <1>3, <2>2 DEF Chat!Scope, Chat!asking
  <2>. QED
    BY <1>3, <2>1, <2>2 DEF Chat!Scope
<1>4. CASE Chat!Rewrite
  BY <1>1, <1>2, <1>4 DEF Chat!Rewrite, Chat!asking
<1>5. CASE Chat!SearchPlain
  BY <1>1, <1>2, <1>5 DEF Chat!SearchPlain, Chat!asking
<1>6. CASE Chat!SearchFails
  BY <1>1, <1>2, <1>6 DEF Chat!SearchFails, Chat!asking
<1>7. ASSUME NEW a \in {"rewritten", "hypothesis", "refined"}, NEW n \in {"hyde", "check", "cut"},
             NEW k, Chat!SearchMore(a, k, n)
      PROVE  ChatInv'
  BY <1>1, <1>2, <1>7 DEF Chat!SearchMore, Chat!asking
<1>8. ASSUME NEW a \in {"hyde", "check"}, NEW k \in {"hypothesis", "refined"}, NEW n \in {"check", "cut"},
             Chat!Helper(a, k, n)
      PROVE  ChatInv'
  BY <1>1, <1>2, <1>8 DEF Chat!Helper, Chat!asking
<1>9. CASE Chat!Cut
  BY <1>9, FirstTake DEF Chat!Cut
<1>10. CASE Chat!RequestFails
  <2>1. CASE \E e \in Chat!Failures : Chat!Failed(e)
    BY <1>10, <2>1, NextTake DEF Chat!RequestFails
  <2>2. CASE Chat!GiveUp /\ UNCHANGED segments
    BY <1>10, <2>2 DEF Chat!RequestFails, Chat!GiveUp, ChatInv, ChatTyped, Unasked, LastTake,
       TakesOrdered, Chat!OneTake
  <2>. QED
    BY <1>10, <2>1, <2>2 DEF Chat!RequestFails
<1>11. CASE Chat!Receive
  <2>1. CASE Chat!Failed(Chat!Plain)
    BY <1>11, <2>1, NextTake DEF Chat!Receive
  <2>2. CASE /\ segments' = Append(segments, take) /\ UNCHANGED <<take, takes>>
             /\ (stage' = stage /\ outcome' = outcome) \/ (stage' = "done" /\ outcome' = "answered")
    <3>1. stage = "asking" /\ UNCHANGED question
      BY <1>11 DEF Chat!Receive
    <3>2. segments \in Seq(Chat!Takes) /\ take \in Chat!Takes
      BY DEF ChatInv, ChatTyped
    <3>3. segments' \in Seq(Chat!Takes) /\ \A i \in DOMAIN segments' : segments'[i] = take
      BY <2>2, <3>1, <3>2 DEF ChatInv, LastTake
    <3>. QED
      BY <2>2, <3>1, <3>2, <3>3 DEF ChatInv, ChatTyped, Unasked, LastTake, TakesOrdered, Chat!OneTake
  <2>. QED
    BY <1>11, <2>1, <2>2 DEF Chat!Receive
<1>12. CASE UNCHANGED chatVars
  BY <1>12 DEF chatVars, ChatInv, ChatTyped, Unasked, LastTake, TakesOrdered, Chat!OneTake
<1>. QED
  BY <1>3, <1>4, <1>5, <1>6, <1>7, <1>8, <1>9, <1>10, <1>11, <1>12
  DEF Chat!Next, Chat!Hypothesis, Chat!Sufficiency

\* An answer is made of the parts of one way of asking, whatever failed before it,
\* and no way of asking is tried twice: the history in the prompt comes after the
\* native one, and images that were dropped do not come back (LLMService's
\* fallbacks).
THEOREM OneAnswer == SpecAll => []AnswerIsOne
<1>. DEFINE I == part = "chat" => ChatInv
<1>1. InitAll => I
  BY ChatBegins DEF InitAll
<1>2. I /\ [NextAll]_allVars => I'
  BY OneAtWork, ChatGoesOn
<1>3. I => AnswerIsOne
  BY ChatMeans DEF AnswerIsOne
<1>. QED
  BY <1>1, <1>2, <1>3, PTL DEF SpecAll

-----------------------------------------------------------------------------
(* CliProcess: its CLI is gone when a dispatch is over.                     *)

KillSteps == {"no", "look", "term", "patience", "over"}

(* Nothing of a dispatch exists before its CLI does; whoever is through     *)
(* _kill_process_tree saw the CLI gone or killed it, and only Spawn starts  *)
(* one; and the generator is over behind its own kill, or without a CLI.    *)
Fresh   == reader = "start" => /\ leader = "none" /\ watchdog = "off"
                               /\ killing = [k \in Process!Killer |-> "no"]
Reaped  == \A k \in Process!Killer : killing[k] = "over" => ~Process!Alive
Behind  == reader = "over" => leader = "none" \/ killing["reader"] = "over"
Stages  == killing \in [Process!Killer -> KillSteps]

KillInv == Stages /\ Fresh /\ Reaped /\ Behind

LEMMA KillBegins == Process!Init => KillInv
BY DEF Process!Init, KillInv, Stages, KillSteps, Fresh, Reaped, Behind, Process!Killer

\* A step that starts no CLI and leaves the threads where they are.
LEMMA NothingStarts ==
  ASSUME KillInv, Process!Alive' => Process!Alive, leader = "none" => leader' = "none",
         UNCHANGED <<reader, watchdog, killing>>
  PROVE  KillInv'
BY DEF KillInv, Stages, Fresh, Reaped, Behind, Process!Killer

\* A step of the generator, from its start to its end, that kills nobody.
LEMMA GeneratorMoves ==
  ASSUME KillInv, UNCHANGED <<leader, killing>>, reader # "start",
         reader' \notin {"start", "over"}
  PROVE  KillInv'
BY DEF KillInv, Stages, Fresh, Reaped, Behind, Process!Alive

\* A step of _kill_process_tree.
LEMMA KillerMoves ==
  ASSUME KillInv, NEW k \in Process!Killer, NEW step \in KillSteps,
         killing[k] \notin {"no", "over"}, Process!At(k, step),
         step = "over" => ~Process!Alive', Process!Alive' => Process!Alive,
         leader = "none" => leader' = "none", UNCHANGED <<reader, watchdog>>
  PROVE  KillInv'
<1>1. Stages'
  BY DEF KillInv, Stages, Process!At
<1>2. reader # "start"
  BY DEF KillInv, Fresh
<1>3. \A q \in Process!Killer : killing'[q] = IF q = k THEN step ELSE killing[q]
  BY DEF KillInv, Stages, Process!At
<1>4. Reaped'
  BY <1>3 DEF KillInv, Reaped
<1>5. "reader" \in Process!Killer
  BY DEF Process!Killer
<1>6. Behind'
  BY <1>3, <1>5 DEF KillInv, Behind
<1>. QED
  BY <1>1, <1>2, <1>4, <1>6 DEF KillInv, Fresh

LEMMA KillGoesOn == ASSUME KillInv, [Process!Next]_processVars PROVE KillInv'
<1>1. CASE Process!Writes
  BY <1>1, NothingStarts DEF Process!Writes, Process!Alive
<1>2. CASE Process!ReadsPrompt
  BY <1>2, NothingStarts DEF Process!ReadsPrompt, Process!Alive
<1>3. CASE Process!Forks
  BY <1>3, NothingStarts DEF Process!Forks, Process!Alive
<1>4. CASE Process!Exits
  BY <1>4, NothingStarts DEF Process!Exits, Process!Alive
<1>5. CASE Process!Spawn
  BY <1>5 DEF Process!Spawn, KillInv, Stages, Fresh, Reaped, Behind, Process!Killer, Process!Alive
<1>6. CASE Process!Feed
  BY <1>6, GeneratorMoves DEF Process!Feed, Process!cli
<1>7. CASE Process!Read
  BY <1>7, NothingStarts DEF Process!Read, Process!Alive
<1>8. CASE Process!Abandon
  BY <1>8, GeneratorMoves DEF Process!Abandon, Process!cli
<1>9. CASE Process!EndOfFile
  BY <1>9, GeneratorMoves DEF Process!EndOfFile, Process!cli
<1>10. CASE Process!Waited
  BY <1>10, GeneratorMoves DEF Process!Waited, Process!cli
<1>11. CASE Process!CleanUp
  BY <1>11 DEF Process!CleanUp, Process!cli, KillInv, Stages, KillSteps, Fresh, Reaped, Behind,
     Process!Killer, Process!Alive
<1>12. CASE Process!Conclude
  BY <1>12 DEF Process!Conclude, Process!cli, KillInv, Stages, Fresh, Reaped, Behind, Process!Alive
<1>13. CASE Process!Fires
  BY <1>13 DEF Process!Fires, Process!cli, KillInv, Stages, KillSteps, Fresh, Reaped, Behind,
     Process!Killer, Process!Alive
<1>14. ASSUME NEW k \in Process!Killer, Process!Look(k) PROVE KillInv'
  BY <1>14, KillerMoves DEF Process!Look, Process!cli, Process!Alive, KillSteps
<1>15. ASSUME NEW k \in Process!Killer, Process!Terminate(k) PROVE KillInv'
  BY <1>15, KillerMoves DEF Process!Terminate, Process!Alive, KillSteps
<1>16. ASSUME NEW k \in Process!Killer, Process!Kill(k) PROVE KillInv'
  BY <1>16, KillerMoves DEF Process!Kill, Process!Alive, KillSteps
<1>17. CASE UNCHANGED processVars
  BY <1>17, NothingStarts DEF processVars, Process!Alive
<1>. QED
  BY <1>1, <1>2, <1>3, <1>4, <1>5, <1>6, <1>7, <1>8, <1>9, <1>10, <1>11, <1>12, <1>13,
     <1>14, <1>15, <1>16, <1>17 DEF Process!Next

-----------------------------------------------------------------------------
(* CliProcess: the verdict is the one of the lines that were read.          *)

LineOf == {"text", "result", "result, is_error", "turn.completed", "turn.failed", "message_end",
           "message_end, failed", "agent_end", "agent_end, failed"}

\* Of the first n lines of w: does one end the dispatch, does the last message fail?
Ended(w, n)   == \E i \in 1..n : Process!Ends(w[i])
Failing(w, n) == \E i \in 1..n : /\ w[i] = "message_end, failed"
                                 /\ \A j \in (i + 1)..n : w[j] = "text"
Good(line) == line \in {"result", "turn.completed", "agent_end"}
Succeeds(w, l) == Good(w[l]) /\ ~Failing(w, l - 1)
Decided(w, n, v) ==
    \E l \in 1..n :
        /\ Process!Ends(w[l])
        /\ \A j \in 1..n : Process!Ends(w[j]) => j <= l
        /\ v \in {"yes", "no"} /\ (v = "yes" <=> Succeeds(w, l))

LinesRead == Len(written) - Len(pipe)

LinesTyped ==
    /\ backend \in {"claude", "codex", "pi"}
    /\ written \in Seq(Process!Lines(backend))
    /\ pipe \in Seq(Process!Lines(backend))
    /\ Len(pipe) <= Len(written)
    /\ \A i \in 1..Len(pipe) : pipe[i] = written[LinesRead + i]

(* Parser and consumer know what the lines read so far say; whoever stopped *)
(* reading at the end of the stream has read them all.                      *)
Followed ==
    /\ stumbled <=> Failing(written, LinesRead)
    /\ sawResult <=> Ended(written, LinesRead)
    /\ sawResult => Decided(written, LinesRead, verdict)
    /\ ~sawResult => IF reader # "over" THEN verdict = "none"
                     ELSE abandoned \/ verdict = "no"
Drained ==
    reader \in {"waiting", "cleanup", "over"} /\ ~abandoned => pipe = <<>> /\ leader # "running"

Bits == stumbled \in BOOLEAN /\ sawResult \in BOOLEAN /\ abandoned \in BOOLEAN
Unstarted == reader = "start" => leader = "none" /\ written = <<>>
VerdictInv == LinesTyped /\ Bits /\ Followed /\ Drained /\ Unstarted

LEMMA SamePrefix ==
  ASSUME NEW w, NEW u, NEW n \in Nat, \A i \in 1..n : u[i] = w[i]
  PROVE  /\ Failing(u, n) <=> Failing(w, n)
         /\ Ended(u, n) <=> Ended(w, n)
         /\ \A v : Decided(w, n, v) => Decided(u, n, v)
<1>1. ASSUME NEW m \in 0..n PROVE Failing(u, m) <=> Failing(w, m)
  <2>1. \A i \in 1..m : u[i] = w[i] /\ \A j \in (i + 1)..m : u[j] = w[j]
    OBVIOUS
  <2>. QED
    BY <2>1 DEF Failing
<1>2. ASSUME NEW l \in 1..n PROVE Succeeds(u, l) <=> Succeeds(w, l)
  <2>1. l - 1 \in 0..n
    OBVIOUS
  <2>. QED
    BY <1>1, <2>1 DEF Succeeds
<1>3. Failing(u, n) <=> Failing(w, n)
  BY <1>1
<1>. QED
  BY <1>2, <1>3 DEF Ended, Decided

LEMMA OneMoreLine ==
  ASSUME NEW w, NEW n \in Nat
  PROVE  /\ Failing(w, n + 1) <=> \/ w[n + 1] = "message_end, failed"
                                  \/ Failing(w, n) /\ w[n + 1] = "text"
         /\ Ended(w, n + 1) <=> Ended(w, n) \/ Process!Ends(w[n + 1])
         /\ \A v : Process!Ends(w[n + 1]) /\ v \in {"yes", "no"} /\ (v = "yes" <=> Succeeds(w, n + 1))
                     => Decided(w, n + 1, v)
         /\ \A v : ~Process!Ends(w[n + 1]) /\ Decided(w, n, v) => Decided(w, n + 1, v)
<1>1. 1..(n + 1) = 1..n \cup {n + 1}
  OBVIOUS
<1>2. Failing(w, n + 1) <=> \/ w[n + 1] = "message_end, failed"
                            \/ Failing(w, n) /\ w[n + 1] = "text"
  <2>1. ASSUME Failing(w, n + 1), w[n + 1] # "message_end, failed" PROVE Failing(w, n) /\ w[n + 1] = "text"
    <3>1. PICK i \in 1..(n + 1) : /\ w[i] = "message_end, failed"
                                  /\ \A j \in (i + 1)..(n + 1) : w[j] = "text"
      BY <2>1 DEF Failing
    <3>2. i # n + 1
      BY <2>1, <3>1
    <3>3. i \in 1..n /\ n + 1 \in (i + 1)..(n + 1) /\ \A j \in (i + 1)..n : j \in (i + 1)..(n + 1)
      BY <3>2
    <3>. QED
      BY <3>1, <3>3 DEF Failing
  <2>2. ASSUME w[n + 1] = "message_end, failed" PROVE Failing(w, n + 1)
    <3>1. n + 1 \in 1..(n + 1) /\ (n + 1 + 1)..(n + 1) = {}
      OBVIOUS
    <3>. QED
      BY <2>2, <3>1 DEF Failing
  <2>3. ASSUME Failing(w, n), w[n + 1] = "text" PROVE Failing(w, n + 1)
    <3>1. PICK i \in 1..n : /\ w[i] = "message_end, failed"
                            /\ \A j \in (i + 1)..n : w[j] = "text"
      BY <2>3 DEF Failing
    <3>2. i \in 1..(n + 1) /\ \A j \in (i + 1)..(n + 1) : j \in (i + 1)..n \/ j = n + 1
      OBVIOUS
    <3>. QED
      BY <2>3, <3>1, <3>2 DEF Failing
  <2>. QED
    BY <2>1, <2>2, <2>3
<1>3. Ended(w, n + 1) <=> Ended(w, n) \/ Process!Ends(w[n + 1])
  BY <1>1 DEF Ended
<1>4. ASSUME NEW v, Process!Ends(w[n + 1]), v \in {"yes", "no"}, v = "yes" <=> Succeeds(w, n + 1)
      PROVE  Decided(w, n + 1, v)
  BY <1>4 DEF Decided
<1>5. ASSUME NEW v, ~Process!Ends(w[n + 1]), Decided(w, n, v) PROVE Decided(w, n + 1, v)
  BY <1>1, <1>5 DEF Decided
<1>. QED
  BY <1>2, <1>3, <1>4, <1>5

LEMMA VerdictBegins == Process!Init => VerdictInv
<1>. SUFFICES ASSUME Process!Init PROVE VerdictInv
  OBVIOUS
<1>1. /\ written = <<>> /\ pipe = <<>>
      /\ stumbled = FALSE /\ sawResult = FALSE /\ abandoned = FALSE
      /\ backend \in {"claude", "codex", "pi"} /\ verdict = "none" /\ reader = "start"
      /\ leader = "none"
  BY CliAssumption DEF Process!Init
<1>2. LinesTyped /\ LinesRead = 0
  BY <1>1 DEF LinesTyped, LinesRead
<1>3. ~Failing(written, LinesRead) /\ ~Ended(written, LinesRead)
  <2>1. ~Failing(written, 0) /\ ~Ended(written, 0)
    BY DEF Failing, Ended
  <2>. QED
    BY <1>2, <2>1
<1>4. Followed
  BY <1>1, <1>3 DEF Followed
<1>. QED
  BY <1>1, <1>2, <1>4 DEF VerdictInv, Bits, Drained, Unstarted

\* A step after which the same lines have been read and the verdict is the same.
LEMMA SameLines ==
  ASSUME VerdictInv, UNCHANGED <<backend, pipe, written, stumbled, sawResult, verdict>>,
         abandoned' \in BOOLEAN, reader' = "start" => reader = "start" /\ leader' = leader,
         reader' = "over" => reader = "over" /\ abandoned' = abandoned, reader = "over" => reader' = "over",
         Drained'
  PROVE  VerdictInv'
<1>1. LinesRead' = LinesRead
  BY DEF LinesRead
<1>2. LinesTyped'
  BY <1>1 DEF VerdictInv, LinesTyped
<1>3. Followed'
  BY <1>1 DEF VerdictInv, Followed
<1>. QED
  BY <1>2, <1>3 DEF VerdictInv, Bits, Unstarted

LEMMA VerdictGoesOn ==
  ASSUME VerdictInv, KillInv, [Process!Next]_processVars
  PROVE  VerdictInv'
<1>. DEFINE L == Process!Lines(backend)
            n == LinesRead
<1>0. /\ written \in Seq(L) /\ pipe \in Seq(L) /\ n \in Nat /\ Len(written) = n + Len(pipe)
      /\ Len(pipe) \in Nat
  BY DEF VerdictInv, LinesTyped, LinesRead
<1>. HIDE DEF L, n
<1>1. CASE Process!Writes
  <2>1. leader = "running" /\ UNCHANGED <<backend, reader, stumbled, sawResult, abandoned, verdict, leader>>
    BY <1>1 DEF Process!Writes, Process!told
  <2>2. PICK line \in L : pipe' = Append(pipe, line) /\ written' = Append(written, line)
    BY <1>1 DEF Process!Writes, L
  <2>3. /\ written' \in Seq(L) /\ pipe' \in Seq(L)
        /\ Len(written') = Len(written) + 1 /\ Len(pipe') = Len(pipe) + 1
        /\ \A i \in 1..Len(written) : written'[i] = written[i]
        /\ \A i \in 1..Len(pipe) : pipe'[i] = pipe[i]
        /\ written'[Len(written) + 1] = line /\ pipe'[Len(pipe) + 1] = line
    BY <1>0, <2>2, AppendProperties
  <2>4. LinesRead' = n
    BY <1>0, <2>3 DEF LinesRead, n
  <2>5. LinesTyped'
    <3>1. ASSUME NEW i \in 1..(Len(pipe) + 1) PROVE pipe'[i] = written'[n + i]
      <4>1. CASE i \in 1..Len(pipe)
        <5>1. n + i \in 1..Len(written)
          BY <1>0, <4>1
        <5>. QED
          BY <2>3, <4>1, <5>1 DEF VerdictInv, LinesTyped, n
      <4>2. CASE i = Len(pipe) + 1
        BY <1>0, <2>3, <4>2
      <4>. QED
        BY <1>0, <4>1, <4>2
    <3>. QED
      BY <1>0, <2>1, <2>3, <2>4, <3>1 DEF VerdictInv, LinesTyped, L
  <2>6. /\ Failing(written', n) <=> Failing(written, n)
        /\ Ended(written', n) <=> Ended(written, n)
        /\ \A v : Decided(written, n, v) => Decided(written', n, v)
    <3>1. \A i \in 1..n : written'[i] = written[i]
      BY <1>0, <2>3
    <3>. QED
      BY <1>0, <3>1, SamePrefix
  <2>7. Followed'
    BY <2>1, <2>4, <2>6 DEF VerdictInv, Followed, n
  <2>. QED
    BY <2>1, <2>5, <2>7 DEF VerdictInv, Bits, Drained, Unstarted
<1>2. CASE Process!Read
  <2>1. /\ reader = "reading" /\ pipe # <<>> /\ pipe' = Tail(pipe)
        /\ UNCHANGED <<backend, written, reader, abandoned, leader>>
    BY <1>2 DEF Process!Read
  <2>. DEFINE line == Head(pipe)
              said == Process!Says(line)
  <2>2. /\ line = pipe[1] /\ pipe' \in Seq(L) /\ Len(pipe') = Len(pipe) - 1 /\ Len(pipe) >= 1
        /\ \A i \in 1..Len(pipe') : pipe'[i] = pipe[i + 1]
    BY <1>0, <2>1
  <2>3. LinesRead' = n + 1
    BY <1>0, <2>1, <2>2 DEF LinesRead, n
  <2>4. line = written[n + 1] /\ line \in L
    BY <1>0, <2>2 DEF VerdictInv, LinesTyped, n
  <2>5. LinesTyped'
    <3>1. ASSUME NEW i \in 1..Len(pipe') PROVE pipe'[i] = written[n + 1 + i]
      <4>1. i + 1 \in 1..Len(pipe) /\ n + (i + 1) = n + 1 + i
        BY <1>0, <2>2
      <4>. QED
        BY <2>2, <4>1 DEF VerdictInv, LinesTyped, n
    <3>. QED
      BY <1>0, <2>1, <2>2, <2>3, <3>1 DEF VerdictInv, LinesTyped, L
  <2>6. /\ stumbled' <=> line = "message_end, failed" \/ (stumbled /\ line = "text")
        /\ sawResult' <=> sawResult \/ said # "none"
        /\ verdict' = IF said = "none" THEN verdict ELSE said
        /\ stumbled' \in BOOLEAN /\ sawResult' \in BOOLEAN
    BY <1>2 DEF Process!Read, Process!Stumbles, VerdictInv, Bits
  <2>7. /\ said # "none" <=> Process!Ends(line)
        /\ Process!Ends(line) => said \in {"yes", "no"}
        /\ Process!Ends(line) => (said = "yes" <=> Succeeds(written, n + 1))
    <3>1. (n + 1) - 1 = n
      BY <1>0
    <3>2. Succeeds(written, n + 1) <=>
            Good(line) /\ ~stumbled
      <4>1. stumbled <=> Failing(written, n)
        BY DEF VerdictInv, Followed, n
      <4>2. Succeeds(written, n + 1) <=>
              Good(written[n + 1]) /\ ~Failing(written, n)
        <5>1. \A m : m = n => (Failing(written, m) <=> Failing(written, n))
          OBVIOUS
        <5>2. Failing(written, (n + 1) - 1) <=> Failing(written, n)
          BY <3>1, <5>1
        <5>. QED
          BY <5>2 DEF Succeeds
      <4>. QED
        BY <2>4, <4>1, <4>2
    <3>3. CASE backend = "claude"
      <4>1. ~stumbled
        <5>1. \A i \in 1..n : written[i] \in L
          BY <1>0
        <5>2. "message_end, failed" \notin L
          BY <3>3 DEF L, Process!Lines
        <5>. QED
          BY <5>1, <5>2 DEF VerdictInv, Followed, Failing, n
      <4>. QED
        BY <2>4, <3>2, <3>3, <4>1 DEF Process!Says, Process!ClaudeSays, Process!Lines, Process!Ends, L, Good
    <3>4. CASE backend = "codex"
      <4>1. ~stumbled
        <5>1. \A i \in 1..n : written[i] \in L
          BY <1>0
        <5>2. "message_end, failed" \notin L
          BY <3>4 DEF L, Process!Lines
        <5>. QED
          BY <5>1, <5>2 DEF VerdictInv, Followed, Failing, n
      <4>. QED
        BY <2>4, <3>2, <3>4, <4>1 DEF Process!Says, Process!CodexSays, Process!Lines, Process!Ends, L, Good
    <3>5. CASE backend = "pi"
      BY <2>4, <3>2, <3>5 DEF Process!Says, Process!PiSays, Process!Lines, Process!Ends, L, Good
    <3>. QED
      BY <3>3, <3>4, <3>5 DEF VerdictInv, LinesTyped
  <2>8. Followed'
    <3>1. /\ Failing(written, n + 1) <=> line = "message_end, failed" \/ (stumbled /\ line = "text")
          /\ Ended(written, n + 1) <=> sawResult \/ Process!Ends(line)
      BY <1>0, <2>4, OneMoreLine DEF VerdictInv, Followed, n
    <3>2. ASSUME sawResult' PROVE Decided(written, n + 1, verdict')
      <4>1. CASE Process!Ends(line)
        <5>1. verdict' = said
          BY <2>6, <2>7, <4>1
        <5>. QED
          BY <1>0, <2>4, <2>7, <4>1, <5>1, OneMoreLine
      <4>2. CASE ~Process!Ends(line)
        <5>1. verdict' = verdict /\ sawResult
          BY <2>6, <2>7, <3>2, <4>2
        <5>. QED
          BY <1>0, <2>4, <4>2, <5>1, OneMoreLine DEF VerdictInv, Followed, n
      <4>. QED
        BY <4>1, <4>2
    <3>3. ~sawResult' => verdict' = "none"
      BY <2>1, <2>6 DEF VerdictInv, Followed
    <3>. QED
      BY <2>1, <2>3, <2>6, <2>7, <3>1, <3>2, <3>3 DEF Followed
  <2>. QED
    BY <2>1, <2>5, <2>6, <2>8 DEF VerdictInv, Bits, Drained, Unstarted
<1>3. CASE Process!Spawn
  <2>1. reader = "start" /\ leader = "none" /\ UNCHANGED <<backend, pipe, written, stumbled, sawResult, abandoned>>
    BY <1>3 DEF Process!Spawn, VerdictInv, Unstarted
  <2>2. LinesRead' = n /\ LinesTyped'
    BY <2>1 DEF VerdictInv, LinesTyped, LinesRead, n
  <2>. QED
    <3>1. \/ reader' = "feeding" /\ leader' = "running" /\ verdict' = verdict
          \/ reader' = "over" /\ verdict' = "no" /\ leader' = leader
      BY <1>3 DEF Process!Spawn
    <3>2. /\ Failing(written', LinesRead') <=> stumbled'
          /\ Ended(written', LinesRead') <=> sawResult'
          /\ ~sawResult' /\ pipe' = <<>>
      <4>1. written = <<>> /\ n = 0 /\ pipe = <<>>
        <5>1. written = <<>> /\ Len(written) = 0
          BY <2>1 DEF VerdictInv, Unstarted
        <5>2. n = 0 /\ Len(pipe) = 0
          BY <1>0, <5>1
        <5>. QED
          BY <1>0, <5>1, <5>2, EmptySeq
      <4>2. ~Failing(written, n) /\ ~Ended(written, n)
        BY <4>1 DEF Failing, Ended
      <4>3. ~stumbled /\ ~sawResult
        BY <4>2 DEF VerdictInv, Followed, n
      <4>. QED
        BY <2>1, <2>2, <4>1, <4>2, <4>3
    <3>. QED
      BY <2>1, <2>2, <3>1, <3>2 DEF VerdictInv, Followed, Drained, Bits, Unstarted
<1>4. CASE Process!Conclude
  <2>1. reader = "cleanup" /\ UNCHANGED <<backend, pipe, written, stumbled, sawResult, abandoned, leader>>
    BY <1>4 DEF Process!Conclude, Process!cli
  <2>2. LinesRead' = n /\ LinesTyped'
    BY <2>1 DEF VerdictInv, LinesTyped, LinesRead, n
  <2>. QED
    BY <1>4, <2>1, <2>2 DEF Process!Conclude, VerdictInv, Followed, Drained, Bits, Unstarted, n
<1>5. CASE Process!ReadsPrompt \/ Process!Forks \/ Process!Exits \/ Process!Feed
           \/ Process!Abandon \/ Process!EndOfFile \/ Process!Waited \/ Process!CleanUp
           \/ Process!Fires \/ UNCHANGED processVars
  <2>1. /\ UNCHANGED <<backend, pipe, written, stumbled, sawResult, verdict>>
        /\ abandoned' \in BOOLEAN
        /\ reader' = "start" => reader = "start" /\ leader' = leader
        /\ reader' = "over" => reader = "over" /\ abandoned' = abandoned
        /\ reader = "over" => reader' = "over"
        /\ Drained'
    <3>. USE DEF Process!cli, Process!told, VerdictInv, Bits, Drained, KillInv, Fresh
    <3>1. CASE Process!ReadsPrompt
      BY <3>1 DEF Process!ReadsPrompt
    <3>2. CASE Process!Forks
      BY <3>2 DEF Process!Forks
    <3>3. CASE Process!Exits
      BY <3>3 DEF Process!Exits
    <3>4. CASE Process!Feed
      BY <3>4 DEF Process!Feed
    <3>5. CASE Process!Abandon
      BY <3>5 DEF Process!Abandon
    <3>6. CASE Process!EndOfFile
      BY <3>6 DEF Process!EndOfFile
    <3>7. CASE Process!Waited
      BY <3>7 DEF Process!Waited
    <3>8. CASE Process!CleanUp
      BY <3>8 DEF Process!CleanUp
    <3>9. CASE Process!Fires
      BY <3>9 DEF Process!Fires
    <3>10. CASE UNCHANGED processVars
      BY <3>10 DEF processVars
    <3>. QED
      BY <1>5, <3>1, <3>2, <3>3, <3>4, <3>5, <3>6, <3>7, <3>8, <3>9, <3>10
  <2>. QED
    BY <2>1, SameLines
<1>6. ASSUME NEW k \in Process!Killer, Process!Look(k) \/ Process!Terminate(k) \/ Process!Kill(k)
      PROVE  VerdictInv'
  <2>1. /\ UNCHANGED <<backend, pipe, written, stumbled, sawResult, verdict, reader, abandoned>>
        /\ leader' \in {leader, "exited"}
    BY <1>6 DEF Process!Look, Process!Terminate, Process!Kill, Process!cli, Process!told
  <2>2. Drained'
    BY <2>1 DEF VerdictInv, Drained
  <2>3. reader # "start"
    BY <1>6 DEF KillInv, Fresh, Process!Look, Process!Terminate, Process!Kill
  <2>. QED
    BY <2>1, <2>2, <2>3, SameLines DEF VerdictInv, Bits
<1>. QED
  BY <1>1, <1>2, <1>3, <1>4, <1>5, <1>6 DEF Process!Next

LEMMA VerdictMeans ==
  ASSUME KillInv, VerdictInv
  PROVE  Process!ResultStands /\ Process!CliGone
<1>1. Process!CliGone
  BY DEF KillInv, Behind, Reaped, Process!CliGone, Process!Alive, Process!Killer
<1>2. SUFFICES ASSUME reader = "over", ~abandoned
               PROVE  /\ verdict \in {"yes", "no"}
                      /\ (verdict = "yes") =
                            /\ \E i \in DOMAIN written : Process!Ends(written[i])
                            /\ written[Process!Last] \in {"result", "turn.completed", "agent_end"}
                            /\ ~\E i \in 1..(Process!Last - 1) :
                                   /\ written[i] = "message_end, failed"
                                   /\ \A j \in (i + 1)..(Process!Last - 1) : written[j] = "text"
  BY <1>1 DEF Process!ResultStands
<1>. DEFINE n == Len(written)
<1>3. pipe = <<>> /\ LinesRead = n /\ n \in Nat /\ DOMAIN written = 1..n
  BY <1>2 DEF VerdictInv, Drained, LinesTyped, LinesRead
<1>4. CASE ~sawResult
  <2>1. verdict = "no"
    BY <1>2, <1>4 DEF VerdictInv, Followed
  <2>2. ~\E i \in DOMAIN written : Process!Ends(written[i])
    BY <1>3, <1>4 DEF VerdictInv, Followed, Ended
  <2>. QED
    BY <2>1, <2>2
<1>5. CASE sawResult
  <2>1. PICK l \in 1..n :
          /\ Process!Ends(written[l])
          /\ \A j \in 1..n : Process!Ends(written[j]) => j <= l
          /\ verdict \in {"yes", "no"} /\ (verdict = "yes" <=> Succeeds(written, l))
    BY <1>3, <1>5 DEF VerdictInv, Followed, Decided
  <2>2. \A i \in DOMAIN written :
          Process!Ends(written[i]) /\ (\A j \in DOMAIN written : Process!Ends(written[j]) => j <= i) => i = l
    BY <1>3, <2>1
  <2>3. l \in DOMAIN written
    BY <1>3
  <2>4. Process!Last = l
    BY <1>3, <2>1, <2>2, <2>3 DEF Process!Last
  <2>. QED
    BY <2>1, <2>3, <2>4 DEF Succeeds, Failing, Good
<1>. QED
  BY <1>4, <1>5

\* A dispatch comes out as its CLI said last, however many lines it wrote, whatever
\* the watchdog and the kill at the end did meanwhile; and however it ends - with a
\* result, an abandoned stream, a time-out while the CLI ignores SIGTERM - its CLI is
\* gone when the generator is over (BaseCliAgentRunner.run, _run_cli_agent_stream).
THEOREM DispatchesEnd == SpecAll => []DispatchEnds
<1>. DEFINE I == part = "cli" => KillInv /\ VerdictInv
<1>1. InitAll => I
  BY KillBegins, VerdictBegins DEF InitAll
<1>2. I /\ [NextAll]_allVars => I'
  BY OneAtWork, KillGoesOn, VerdictGoesOn
<1>3. I => DispatchEnds
  BY VerdictMeans DEF DispatchEnds
<1>. QED
  BY <1>1, <1>2, <1>3, PTL DEF SpecAll

-----------------------------------------------------------------------------
(* AuthSessions: what every row and request holds.                          *)

Account  == [exists : BOOLEAN, team : BOOLEAN, pw : Nat, since : Nat]
Sessions == [parent : Nat, pw : Nat \ {0}, stamp : Nat, over : BOOLEAN]
Requests == [at : {"idle", "issuing", "rotating", "revoking"}, from : Nat, pw : Nat, stamp : Nat]

AuthTyped ==
    /\ owner \in Account /\ (owner.exists => owner.pw # 0)
    /\ sessions \in Seq(Sessions)
    /\ request \in [Tab -> Requests]
    /\ \A t \in Tab : /\ request[t].from <= Len(sessions)
                      /\ request[t].at = "issuing" => request[t].pw # 0
                      /\ request[t].at = "rotating" => request[t].from \in DOMAIN sessions
    /\ \A h \in DOMAIN sessions : sessions[h].parent < h
    /\ cutOff \in Nat

LEMMA AuthBegins == Accounts!Init => AuthTyped
BY DEF Accounts!Init, Accounts!Idle, AuthTyped, Account, Sessions, Requests

LEMMA AuthStaysTyped ==
  ASSUME AuthTyped, [Accounts!Next]_accountsVars
  PROVE  AuthTyped'
<1>0. sessions \in Seq(Sessions) /\ Len(sessions) \in Nat /\ DOMAIN sessions = 1..Len(sessions)
  BY DEF AuthTyped
<1>. DEFINE Fits(q, n) == /\ q \in Requests /\ q.from <= n /\ (q.at = "issuing" => q.pw # 0)
                          /\ q.at = "rotating" => q.from \in 1..n
<1>1. ASSUME NEW t \in Tab, NEW q, Fits(q, Len(sessions)), request' = [request EXCEPT ![t] = q],
             sessions' \in Seq(Sessions), Len(sessions') = Len(sessions),
             \A h \in 1..Len(sessions) : sessions'[h].parent = sessions[h].parent,
             owner' \in Account, owner'.exists => owner'.pw # 0, cutOff' \in Nat
      PROVE  AuthTyped'
  <2>1. \A u \in Tab : request'[u] = IF u = t THEN q ELSE request[u]
    BY <1>1 DEF AuthTyped
  <2>2. DOMAIN sessions' = DOMAIN sessions
    BY <1>0, <1>1
  <2>3. \A h \in DOMAIN sessions' : sessions'[h].parent < h
    BY <1>0, <1>1, <2>2 DEF AuthTyped
  <2>4. request' \in [Tab -> Requests]
    BY <1>1 DEF AuthTyped
  <2>5. \A u \in Tab : Fits(request'[u], Len(sessions))
    BY <1>0, <1>1, <2>1 DEF AuthTyped
  <2>. QED
    BY <1>0, <1>1, <2>2, <2>3, <2>4, <2>5 DEF AuthTyped
<1>2. /\ Fits(Accounts!Idle, Len(sessions))
      /\ \A p \in Nat : Fits([at |-> "revoking", from |-> 0, pw |-> p, stamp |-> 0], Len(sessions))
  BY <1>0 DEF Accounts!Idle, Requests
<1>3. owner \in Account /\ (owner.exists => owner.pw # 0) /\ cutOff \in Nat /\ owner.pw \in Nat
  BY DEF AuthTyped, Account
<1>4. CASE Accounts!Register
  <2>. DEFINE row == Accounts!Row(0, owner.pw + 1, owner.pw + 1)
  <2>1. row \in Sessions /\ row.parent = 0
    BY <1>3 DEF Accounts!Row, Sessions
  <2>2. /\ sessions' \in Seq(Sessions) /\ Len(sessions') = Len(sessions) + 1
        /\ \A i \in 1..Len(sessions) : sessions'[i] = sessions[i]
        /\ sessions'[Len(sessions) + 1] = row
    BY <1>0, <1>4, <2>1, AppendProperties DEF Accounts!Register
  <2>3. DOMAIN sessions' = 1..(Len(sessions) + 1)
    BY <1>0, <2>2
  <2>4. \A h \in DOMAIN sessions' : sessions'[h].parent < h
    BY <1>0, <2>1, <2>2, <2>3 DEF AuthTyped
  <2>5. owner' \in Account /\ owner'.pw # 0 /\ UNCHANGED <<request, cutOff>>
    BY <1>3, <1>4 DEF Accounts!Register, Account
  <2>6. \A t \in Tab : Fits(request[t], Len(sessions))
    BY <1>0 DEF AuthTyped
  <2>7. \A t \in Tab : Fits(request[t], Len(sessions'))
    BY <1>0, <2>2, <2>6 DEF Requests
  <2>. QED
    BY <2>2, <2>3, <2>4, <2>5, <2>7 DEF AuthTyped
<1>5. ASSUME NEW t \in Tab, Accounts!Login(t) PROVE AuthTyped'
  <2>. DEFINE q == [at |-> "issuing", from |-> 0, pw |-> owner.pw, stamp |-> owner.pw]
  <2>1. Fits(q, Len(sessions)) /\ request' = [request EXCEPT ![t] = q] /\ UNCHANGED <<owner, sessions, cutOff>>
    BY <1>0, <1>3, <1>5 DEF Accounts!Login, Requests
  <2>. QED
    BY <1>0, <1>1, <1>3, <2>1
<1>6. ASSUME NEW t \in Tab, NEW s \in DOMAIN sessions, Accounts!Refresh(t, s) PROVE AuthTyped'
  <2>. DEFINE q == [at |-> "issuing", from |-> s, pw |-> sessions[s].pw, stamp |-> owner.pw]
  <2>1. Fits(q, Len(sessions)) /\ request' = [request EXCEPT ![t] = q] /\ UNCHANGED <<owner, sessions, cutOff>>
    <3>1. sessions[s] \in Sessions /\ s \in 1..Len(sessions)
      BY <1>0
    <3>2. sessions[s].pw \in Nat \ {0}
      BY <3>1 DEF Sessions
    <3>. HIDE DEF Sessions
    <3>. QED
      BY <1>0, <1>3, <1>6, <3>1, <3>2 DEF Accounts!Refresh, Requests
  <2>. QED
    BY <1>0, <1>1, <1>3, <2>1
<1>7. ASSUME NEW t \in Tab, Accounts!Issue(t) PROVE AuthTyped'
  <2>. DEFINE q == request[t]
              row == Accounts!Row(q.from, q.pw, q.stamp)
              p == IF q.from = 0 \/ ~owner.exists THEN Accounts!Idle
                   ELSE [q EXCEPT !.at = "rotating"]
  <2>1. Fits(q, Len(sessions)) /\ q.at = "issuing"
    BY <1>0, <1>7 DEF AuthTyped, Accounts!Issue
  <2>2. row \in Sessions /\ row.parent = q.from
    BY <2>1 DEF Accounts!Row, Sessions, Requests
  <2>3. /\ sessions' \in Seq(Sessions) /\ Len(sessions') = Len(sessions) + 1
        /\ \A i \in 1..Len(sessions) : sessions'[i] = sessions[i]
        /\ sessions'[Len(sessions) + 1] = row
    BY <1>0, <1>7, <2>2, AppendProperties DEF Accounts!Issue
  <2>4. DOMAIN sessions' = 1..(Len(sessions) + 1)
    BY <1>0, <2>3
  <2>5. \A h \in DOMAIN sessions' : sessions'[h].parent < h
    BY <1>0, <2>1, <2>2, <2>3, <2>4 DEF AuthTyped, Requests
  <2>6. Fits(p, Len(sessions'))
    BY <1>0, <2>1, <2>3 DEF Accounts!Idle, Requests
  <2>7. \A u \in Tab : Fits(request[u], Len(sessions))
    BY <1>0 DEF AuthTyped
  <2>8. \A u \in Tab : Fits(request[u], Len(sessions'))
    BY <1>0, <2>3, <2>7 DEF Requests
  <2>9. request' = [request EXCEPT ![t] = p] /\ UNCHANGED owner /\ cutOff' \in Nat
    BY <1>3, <1>7 DEF Accounts!Issue
  <2>10. \A u \in Tab : Fits(request'[u], Len(sessions'))
    BY <2>6, <2>8, <2>9 DEF AuthTyped
  <2>11. request' \in [Tab -> Requests]
    BY <2>6, <2>9 DEF AuthTyped
  <2>. QED
    BY <1>3, <2>3, <2>4, <2>5, <2>9, <2>10, <2>11 DEF AuthTyped
<1>8. ASSUME NEW s \in DOMAIN sessions
      PROVE  LET o == [sessions EXCEPT ![s].over = TRUE] IN
             /\ o \in Seq(Sessions) /\ Len(o) = Len(sessions)
             /\ \A h \in 1..Len(sessions) : o[h].parent = sessions[h].parent
  <2>. DEFINE o == [sessions EXCEPT ![s].over = TRUE]
  <2>0. \A r \in Sessions : /\ [r EXCEPT !.over = TRUE] \in Sessions
                            /\ [r EXCEPT !.over = TRUE].parent = r.parent
    BY DEF Sessions
  <2>1. \A h \in 1..Len(sessions) : o[h] \in Sessions /\ o[h].parent = sessions[h].parent
    BY <1>0, <2>0
  <2>2. o \in [1..Len(sessions) -> Sessions]
    BY <1>0, <2>1
  <2>. QED
    BY <1>0, <2>1, <2>2
<1>9. ASSUME NEW t \in Tab, Accounts!Rotate(t) PROVE AuthTyped'
  <2>1. request[t].from \in DOMAIN sessions
    BY <1>9 DEF AuthTyped, Accounts!Rotate
  <2>2. /\ sessions' = [sessions EXCEPT ![request[t].from].over = TRUE]
        /\ request' = [request EXCEPT ![t] = Accounts!Idle] /\ UNCHANGED <<owner, cutOff>>
    BY <1>9 DEF Accounts!Rotate
  <2>. QED
    BY <1>1, <1>2, <1>3, <1>8, <2>1, <2>2
<1>10. ASSUME NEW s \in DOMAIN sessions, Accounts!Logout(s) PROVE AuthTyped'
  <2>1. sessions' = [sessions EXCEPT ![s].over = TRUE] /\ UNCHANGED <<owner, request, cutOff>>
    BY <1>10 DEF Accounts!Logout
  <2>2. /\ sessions' \in Seq(Sessions) /\ Len(sessions') = Len(sessions)
        /\ \A h \in 1..Len(sessions) : sessions'[h].parent = sessions[h].parent
    BY <1>8, <2>1
  <2>3. DOMAIN sessions' = DOMAIN sessions
    BY <1>0, <2>2
  <2>. QED
    BY <1>0, <2>1, <2>2, <2>3 DEF AuthTyped
<1>11. ASSUME NEW t \in Tab, Accounts!ChangePassword(t) PROVE AuthTyped'
  <2>1. owner' \in Account /\ owner'.pw # 0
    BY <1>3, <1>11 DEF Accounts!ChangePassword, Account
  <2>2. request' = [request EXCEPT ![t] = [at |-> "revoking", from |-> 0, pw |-> owner.pw, stamp |-> 0]]
    BY <1>11 DEF Accounts!ChangePassword
  <2>3. UNCHANGED <<sessions, cutOff>>
    BY <1>11 DEF Accounts!ChangePassword
  <2>. QED
    BY <1>0, <1>1, <1>2, <1>3, <2>1, <2>2, <2>3
<1>12. ASSUME NEW t \in Tab, Accounts!RevokeAll(t) PROVE AuthTyped'
  <2>1. /\ sessions' = [s \in 1..Len(sessions) |-> [sessions[s] EXCEPT !.over = TRUE]]
        /\ request' = [request EXCEPT ![t] = Accounts!Idle] /\ UNCHANGED <<owner, cutOff>>
    BY <1>0, <1>12 DEF Accounts!RevokeAll, Accounts!RevokedAll
  <2>0. \A r \in Sessions : /\ [r EXCEPT !.over = TRUE] \in Sessions
                            /\ [r EXCEPT !.over = TRUE].parent = r.parent
    BY DEF Sessions
  <2>2. \A h \in 1..Len(sessions) : sessions'[h] \in Sessions /\ sessions'[h].parent = sessions[h].parent
    <3>1. \A h \in 1..Len(sessions) : sessions[h] \in Sessions
      BY <1>0
    <3>. HIDE DEF Sessions
    <3>. QED
      BY <2>0, <2>1, <3>1
  <2>3. sessions' \in [1..Len(sessions) -> Sessions]
    BY <2>1, <2>2
  <2>4. sessions' \in Seq(Sessions) /\ Len(sessions') = Len(sessions)
    BY <1>0, <2>3
  <2>. QED
    BY <1>1, <1>2, <1>3, <2>1, <2>2, <2>4
<1>13. CASE Accounts!DeleteUser \/ Accounts!DeleteTeam
  <2>1. owner' \in Account /\ (owner'.exists => owner'.pw # 0)
    BY <1>3, <1>13 DEF Accounts!DeleteUser, Accounts!DeleteTeam, Account
  <2>2. UNCHANGED <<sessions, request, cutOff>>
    BY <1>13 DEF Accounts!DeleteUser, Accounts!DeleteTeam
  <2>. QED
    BY <2>1, <2>2 DEF AuthTyped
<1>14. ASSUME NEW t \in Tab, Accounts!Die(t) PROVE AuthTyped'
  <2>1. request' = [request EXCEPT ![t] = Accounts!Idle] /\ UNCHANGED <<owner, sessions>> /\ cutOff' \in Nat
    BY <1>3, <1>14 DEF Accounts!Die
  <2>. QED
    BY <1>0, <1>1, <1>2, <1>3, <2>1
<1>15. CASE UNCHANGED accountsVars
  BY <1>15 DEF accountsVars, AuthTyped
<1>. QED
  BY <1>4, <1>5, <1>6, <1>7, <1>9, <1>10, <1>11, <1>12, <1>13, <1>14, <1>15 DEF Accounts!Next

-----------------------------------------------------------------------------
(* AuthSessions: who was given a successor.                                 *)

Children(S, s) == {h \in DOMAIN S : S[h].parent = s}
Issuing(R, s)  == {t \in Tab : R[t].at = "issuing" /\ R[t].from = s}
Rotating(R, s) == {t \in Tab : R[t].at = "rotating" /\ R[t].from = s}
OneIf(b) == IF b THEN 1 ELSE 0

(* The token of a living session gave as many sessions as requests are      *)
(* about to retire it, or were cut off before they did; once it is retired, *)
(* only the requests that had read it can still add one each.               *)
Exchanges ==
    \A s \in DOMAIN sessions :
        LET c == Cardinality(Children(sessions, s)) IN
        IF Accounts!Live(s) THEN c <= Cardinality(Rotating(request, s)) + cutOff
        ELSE c + Cardinality(Issuing(request, s)) <= Cardinality(Tab) + cutOff

(* A change of the password to come, or one cut off, explains a session     *)
(* that goes back to password p.                                            *)
Explained(p) == \/ \E t \in Tab : request[t].at = "revoking" /\ request[t].pw >= p
                \/ p \in halfChanged

(* A request that is about to open a session of an old password will open   *)
(* one of the named kinds.                                                  *)
OldRequests ==
    \A t \in Tab :
        request[t].at = "issuing" /\ request[t].pw >= owner.since /\ request[t].pw < owner.pw
        => Explained(request[t].pw) \/ t \in overtaken \/ request[t].from \in late

AuthInv == AuthTyped /\ Exchanges /\ Accounts!OldPasswordOut /\ OldRequests

LEMMA WithAndWithout ==
  ASSUME NEW X, IsFiniteSet(X), NEW t
  PROVE  /\ IsFiniteSet(X \ {t})
         /\ Cardinality(X \ {t}) \in Nat
         /\ Cardinality(X) = Cardinality(X \ {t}) + OneIf(t \in X)
<1>1. IsFiniteSet(X \ {t}) /\ Cardinality(X \ {t}) \in Nat /\ Cardinality(X) \in Nat
  BY FS_Difference, FS_CardinalityType
<1>2. CASE t \in X
  BY <1>1, <1>2, FS_RemoveElement DEF OneIf
<1>3. CASE t \notin X
  <2>1. X \ {t} = X
    BY <1>3
  <2>2. Cardinality(X \ {t}) = Cardinality(X) /\ OneIf(t \in X) = 0
    BY <1>3, <2>1 DEF OneIf
  <2>. QED
    BY <1>1, <2>2
<1>. QED
  BY <1>2, <1>3

LEMMA TabCounts ==
  ASSUME NEW R, NEW s
  PROVE  /\ IsFiniteSet(Issuing(R, s)) /\ IsFiniteSet(Rotating(R, s))
         /\ Cardinality(Issuing(R, s)) \in Nat /\ Cardinality(Rotating(R, s)) \in Nat
         /\ Cardinality(Tab) \in Nat
         /\ Cardinality(Issuing(R, s)) + Cardinality(Rotating(R, s)) <= Cardinality(Tab)
<1>. DEFINE A == Issuing(R, s)
            B == Rotating(R, s)
<1>1. A \in SUBSET Tab /\ B \in SUBSET Tab /\ A \cup B \in SUBSET Tab /\ A \cap B = {}
  BY DEF Issuing, Rotating
<1>. HIDE DEF A, B
<1>2. /\ IsFiniteSet(A) /\ IsFiniteSet(B) /\ IsFiniteSet(A \cup B)
      /\ Cardinality(A \cup B) <= Cardinality(Tab)
  BY <1>1, TabAssumption, FS_Subset
<1>3. Cardinality(A) \in Nat /\ Cardinality(B) \in Nat /\ Cardinality(Tab) \in Nat
  BY <1>2, TabAssumption, FS_CardinalityType
<1>4. Cardinality(A \cup B) = Cardinality(A) + Cardinality(B) - Cardinality(A \cap B)
  BY <1>2, FS_Union
<1>5. Cardinality(A \cap B) = 0
  BY <1>1, FS_EmptySet
<1>. QED
  BY <1>2, <1>3, <1>4, <1>5 DEF A, B

LEMMA TabMoves ==
  ASSUME NEW R, NEW Q, NEW t \in Tab, \A u \in Tab : u # t => Q[u] = R[u], NEW s
  PROVE  /\ Cardinality(Issuing(Q, s)) + OneIf(R[t].at = "issuing" /\ R[t].from = s) =
              Cardinality(Issuing(R, s)) + OneIf(Q[t].at = "issuing" /\ Q[t].from = s)
         /\ Cardinality(Rotating(Q, s)) + OneIf(R[t].at = "rotating" /\ R[t].from = s) =
              Cardinality(Rotating(R, s)) + OneIf(Q[t].at = "rotating" /\ Q[t].from = s)
<1>1. /\ Issuing(Q, s) \ {t} = Issuing(R, s) \ {t}
      /\ Rotating(Q, s) \ {t} = Rotating(R, s) \ {t}
  BY DEF Issuing, Rotating
<1>2. ASSUME NEW P
      PROVE  /\ t \in Issuing(P, s) <=> P[t].at = "issuing" /\ P[t].from = s
             /\ t \in Rotating(P, s) <=> P[t].at = "rotating" /\ P[t].from = s
  BY DEF Issuing, Rotating
<1>3. ASSUME NEW P
      PROVE  /\ Cardinality(Issuing(P, s)) =
                  Cardinality(Issuing(P, s) \ {t}) + OneIf(P[t].at = "issuing" /\ P[t].from = s)
             /\ Cardinality(Rotating(P, s)) =
                  Cardinality(Rotating(P, s) \ {t}) + OneIf(P[t].at = "rotating" /\ P[t].from = s)
             /\ Cardinality(Issuing(P, s) \ {t}) \in Nat
             /\ Cardinality(Rotating(P, s) \ {t}) \in Nat
  <2>1. /\ Cardinality(Issuing(P, s)) = Cardinality(Issuing(P, s) \ {t}) + OneIf(t \in Issuing(P, s))
        /\ Cardinality(Rotating(P, s)) = Cardinality(Rotating(P, s) \ {t}) + OneIf(t \in Rotating(P, s))
        /\ Cardinality(Issuing(P, s) \ {t}) \in Nat
        /\ Cardinality(Rotating(P, s) \ {t}) \in Nat
    BY TabCounts, WithAndWithout
  <2>2. /\ OneIf(t \in Issuing(P, s)) = OneIf(P[t].at = "issuing" /\ P[t].from = s)
        /\ OneIf(t \in Rotating(P, s)) = OneIf(P[t].at = "rotating" /\ P[t].from = s)
    BY <1>2 DEF OneIf
  <2>. QED
    BY <2>1, <2>2
<1>4. \A b : OneIf(b) \in Nat
  BY DEF OneIf
<1>5. /\ Cardinality(Issuing(Q, s)) =
           Cardinality(Issuing(R, s) \ {t}) + OneIf(Q[t].at = "issuing" /\ Q[t].from = s)
      /\ Cardinality(Rotating(Q, s)) =
           Cardinality(Rotating(R, s) \ {t}) + OneIf(Q[t].at = "rotating" /\ Q[t].from = s)
  BY <1>1, <1>3
<1>. QED
  BY <1>3, <1>4, <1>5

LEMMA ChildCounts ==
  ASSUME NEW S \in Seq(Sessions), NEW s
  PROVE  IsFiniteSet(Children(S, s)) /\ Cardinality(Children(S, s)) \in Nat
<1>1. Children(S, s) \in SUBSET (1..Len(S)) /\ Len(S) \in Nat
  BY DEF Children
<1>2. IsFiniteSet(1..Len(S))
  BY <1>1, FS_Interval
<1>. QED
  BY <1>1, <1>2, FS_Subset, FS_CardinalityType

LEMMA OneMoreChild ==
  ASSUME NEW S \in Seq(Sessions), NEW row \in Sessions, NEW s
  PROVE  Cardinality(Children(Append(S, row), s)) =
           Cardinality(Children(S, s)) + OneIf(row.parent = s)
<1>. DEFINE n == Len(S) + 1
            T == Append(S, row)
<1>1. /\ T \in Seq(Sessions) /\ Len(T) = n /\ T[n] = row /\ \A i \in 1..Len(S) : T[i] = S[i]
      /\ DOMAIN T = 1..n /\ DOMAIN S = 1..Len(S) /\ Len(S) \in Nat
  BY AppendProperties
<1>. HIDE DEF T
<1>2. Children(T, s) \ {n} = Children(S, s) /\ (n \in Children(T, s) <=> row.parent = s)
  BY <1>1 DEF Children
<1>3. Cardinality(Children(T, s)) = Cardinality(Children(T, s) \ {n}) + OneIf(n \in Children(T, s))
  BY <1>1, ChildCounts, WithAndWithout
<1>4. OneIf(n \in Children(T, s)) = OneIf(row.parent = s)
  BY <1>2 DEF OneIf
<1>. QED
  BY <1>2, <1>3, <1>4 DEF T

\* Nobody has a successor, and nobody asks for one, before the session exists.
LEMMA NewSession ==
  ASSUME NEW S \in Seq(Sessions), \A h \in DOMAIN S : S[h].parent < h,
         NEW R, \A t \in Tab : R[t].from \in Nat /\ R[t].from < Len(S),
         Len(S) # 0, NEW c \in Nat
  PROVE  /\ Cardinality(Children(S, Len(S))) <= Cardinality(Rotating(R, Len(S))) + c
         /\ Cardinality(Children(S, Len(S))) + Cardinality(Issuing(R, Len(S))) <= Cardinality(Tab) + c
<1>1. Children(S, Len(S)) = {}
  BY DEF Children, Sessions
<1>2. Issuing(R, Len(S)) = {}
  BY DEF Issuing
<1>3. Cardinality(Children(S, Len(S))) = 0 /\ Cardinality(Issuing(R, Len(S))) = 0
  BY <1>1, <1>2, FS_EmptySet
<1>. QED
  BY <1>3, TabCounts

LEMMA ExchangesBegin == Accounts!Init => Exchanges
BY DEF Accounts!Init, Exchanges

LEMMA ExchangesGoOn ==
  ASSUME AuthTyped, AuthTyped', Exchanges, [Accounts!Next]_accountsVars
  PROVE  Exchanges'
<1>. DEFINE n == Len(sessions)
            C(s) == Cardinality(Children(sessions, s))
            A(s) == Cardinality(Issuing(request, s))
            B(s) == Cardinality(Rotating(request, s))
            all == Cardinality(Tab)
            Allows(s, c, a, b, k, live) == IF live THEN c <= b + k ELSE c + a <= all + k
<1>0. /\ sessions \in Seq(Sessions) /\ n \in Nat /\ DOMAIN sessions = 1..n /\ cutOff \in Nat
      /\ \A t \in Tab : request[t] \in Requests /\ request[t].from \in 0..n
      /\ request \in [Tab -> Requests]
  BY DEF AuthTyped, Requests
<1>1. \A s : /\ A(s) \in Nat /\ B(s) \in Nat /\ C(s) \in Nat /\ all \in Nat
             /\ A(s) + B(s) <= all
  BY <1>0, TabCounts, ChildCounts
<1>2. \A s \in 1..n : Allows(s, C(s), A(s), B(s), cutOff, ~sessions[s].over)
  BY <1>0 DEF Exchanges, Accounts!Live
<1>3. ASSUME DOMAIN sessions' = 1..n, \A s \in 1..n : sessions'[s].parent = sessions[s].parent
      PROVE  \A s : Children(sessions', s) = Children(sessions, s)
  BY <1>0, <1>3 DEF Children
<1>. HIDE DEF C, A, B, all, n
\* One request moves.
<1>4. ASSUME NEW t \in Tab, NEW q, request' = [request EXCEPT ![t] = q],
             UNCHANGED sessions, cutOff' \in Nat, cutOff' >= cutOff,
             request[t].at = "rotating" => cutOff' >= cutOff + 1,
             \A s \in 1..n : q.at = "issuing" /\ q.from = s => ~sessions[s].over
      PROVE  Exchanges'
  <2>1. \A u \in Tab : u # t => request'[u] = request[u]
    BY <1>0, <1>4
  <2>2. request'[t] = q
    BY <1>0, <1>4
  <2>3. ASSUME NEW s \in 1..n
        PROVE  Allows(s, C(s), Cardinality(Issuing(request', s)), Cardinality(Rotating(request', s)),
                     cutOff', ~sessions[s].over)
    <3>. DEFINE a == OneIf(request[t].at = "issuing" /\ request[t].from = s)
                b == OneIf(request[t].at = "rotating" /\ request[t].from = s)
                aa == OneIf(q.at = "issuing" /\ q.from = s)
                bb == OneIf(q.at = "rotating" /\ q.from = s)
                A2 == Cardinality(Issuing(request', s))
                B2 == Cardinality(Rotating(request', s))
    <3>1. A2 + a = A(s) + aa /\ B2 + b = B(s) + bb
      BY <2>1, <2>2, TabMoves DEF A, B
    <3>2. A2 \in Nat /\ B2 \in Nat
      BY TabCounts
    <3>3. /\ a \in 0..1 /\ b \in 0..1 /\ aa \in 0..1 /\ bb \in 0..1
          /\ b = 1 => cutOff' >= cutOff + 1
          /\ aa = 1 => ~sessions[s].over
      BY <1>4 DEF OneIf
    <3>. HIDE DEF a, b, aa, bb, A2, B2
    <3>6. /\ A(s) \in Nat /\ B(s) \in Nat /\ C(s) \in Nat /\ all \in Nat /\ A(s) + B(s) <= all
          /\ cutOff \in Nat /\ cutOff' \in Nat /\ cutOff' >= cutOff
      BY <1>0, <1>1, <1>4
    <3>4. CASE ~sessions[s].over
      <4>1. C(s) <= B(s) + cutOff
        BY <1>2, <3>4
      <4>2. C(s) <= B2 + cutOff'
        BY <3>1, <3>2, <3>3, <3>6, <4>1
      <4>. QED
        BY <3>4, <4>2 DEF B2
    <3>5. CASE sessions[s].over
      <4>1. C(s) + A(s) <= all + cutOff /\ aa = 0
        BY <1>2, <3>3, <3>5
      <4>2. C(s) + A2 <= all + cutOff'
        BY <3>1, <3>2, <3>3, <3>6, <4>1
      <4>. QED
        BY <3>5, <4>2 DEF A2
    <3>. QED
      BY <3>4, <3>5
  <2>4. DOMAIN sessions' = 1..n /\ \A s : Children(sessions', s) = Children(sessions, s)
    BY <1>0, <1>4 DEF n
  <2>. QED
    BY <1>4, <2>3, <2>4 DEF Exchanges, Accounts!Live, C, all
\* Sessions end, and nobody else is about to ask for one.
<1>5. ASSUME DOMAIN sessions' = 1..n, \A s \in 1..n : sessions'[s].parent = sessions[s].parent,
             UNCHANGED cutOff,
             \A s \in 1..n : /\ Cardinality(Issuing(request', s)) <= A(s)
                             /\ \/ sessions'[s].over
                                \/ /\ sessions'[s].over = sessions[s].over
                                   /\ Cardinality(Rotating(request', s)) = B(s)
      PROVE  Exchanges'
  <2>1. ASSUME NEW s \in 1..n
        PROVE  Allows(s, C(s), Cardinality(Issuing(request', s)), Cardinality(Rotating(request', s)),
                     cutOff', ~sessions'[s].over)
    <3>. DEFINE A2 == Cardinality(Issuing(request', s))
                B2 == Cardinality(Rotating(request', s))
    <3>1. A2 \in Nat /\ B2 \in Nat /\ A2 <= A(s)
      BY <1>5, TabCounts
    <3>. HIDE DEF A2, B2
    <3>2. CASE sessions'[s].over
      <4>1. C(s) + A(s) <= all + cutOff
        BY <1>0, <1>1, <1>2
      <4>2. C(s) + A2 <= all + cutOff'
        BY <1>0, <1>1, <1>5, <3>1, <4>1
      <4>. QED
        BY <3>2, <4>2 DEF A2
    <3>3. CASE ~sessions'[s].over
      <4>1. B2 = B(s) /\ ~sessions[s].over
        BY <1>5, <3>3 DEF B2
      <4>2. C(s) <= B2 + cutOff'
        BY <1>2, <1>5, <4>1
      <4>. QED
        BY <3>3, <4>2 DEF B2
    <3>. QED
      BY <3>2, <3>3
  <2>2. \A s : Children(sessions', s) = Children(sessions, s)
    BY <1>3, <1>5
  <2>. QED
    BY <1>5, <2>1, <2>2 DEF Exchanges, Accounts!Live, C, all
\* A session begins, by a request that knew the one before it, or by none.
<1>6. ASSUME NEW row \in Sessions, sessions' = Append(sessions, row), row.parent \in 0..n,
             ~row.over, cutOff' \in Nat, cutOff' >= cutOff,
             \A t \in Tab : request'[t].from \in 0..n,
             \A s \in 1..n :
               LET f == OneIf(row.parent = s) IN
               /\ Cardinality(Issuing(request', s)) + f <= A(s)
               /\ Cardinality(Rotating(request', s)) + cutOff' >= B(s) + f + cutOff
      PROVE  Exchanges'
  <2>1. /\ sessions' \in Seq(Sessions) /\ Len(sessions') = n + 1 /\ DOMAIN sessions' = 1..(n + 1)
        /\ \A i \in 1..n : sessions'[i] = sessions[i]
        /\ sessions'[n + 1] = row
    BY <1>0, <1>6, AppendProperties DEF n
  <2>2. ASSUME NEW s \in 1..n
        PROVE  Allows(s, Cardinality(Children(sessions', s)), Cardinality(Issuing(request', s)),
                     Cardinality(Rotating(request', s)), cutOff', ~sessions'[s].over)
    <3>. DEFINE f  == OneIf(row.parent = s)
                A2 == Cardinality(Issuing(request', s))
                B2 == Cardinality(Rotating(request', s))
                C2 == Cardinality(Children(sessions', s))
    <3>1. C2 = C(s) + f
      BY <1>0, <1>6, OneMoreChild DEF C
    <3>2. A2 + f <= A(s) /\ B2 + cutOff' >= B(s) + f + cutOff
      BY <1>6
    <3>3. A2 \in Nat /\ B2 \in Nat /\ f \in 0..1 /\ sessions'[s].over = sessions[s].over
      BY <2>1, TabCounts DEF OneIf
    <3>. HIDE DEF A2, B2, C2, f
    <3>6. /\ A(s) \in Nat /\ B(s) \in Nat /\ C(s) \in Nat /\ all \in Nat /\ A(s) + B(s) <= all
          /\ cutOff \in Nat /\ cutOff' \in Nat /\ cutOff' >= cutOff
      BY <1>0, <1>1, <1>6
    <3>4. CASE ~sessions[s].over
      <4>1. C(s) <= B(s) + cutOff
        BY <1>2, <3>4
      <4>2. C2 <= B2 + cutOff'
        BY <3>1, <3>2, <3>3, <3>6, <4>1
      <4>. QED
        BY <3>3, <3>4, <4>2 DEF B2, C2
    <3>5. CASE sessions[s].over
      <4>1. C(s) + A(s) <= all + cutOff
        BY <1>2, <3>5
      <4>2. C2 + A2 <= all + cutOff'
        BY <3>1, <3>2, <3>3, <3>6, <4>1
      <4>. QED
        BY <3>3, <3>5, <4>2 DEF A2, C2
    <3>. QED
      BY <3>4, <3>5
  <2>3. /\ Cardinality(Children(sessions', n + 1)) <= Cardinality(Rotating(request', n + 1)) + cutOff'
        /\ Cardinality(Children(sessions', n + 1)) + Cardinality(Issuing(request', n + 1))
              <= Cardinality(Tab) + cutOff'
    <3>1. \A h \in DOMAIN sessions' : sessions'[h].parent < h
      BY DEF AuthTyped
    <3>2. Len(sessions') # 0
      BY <1>0, <2>1
    <3>3. \A t \in Tab : request'[t].from \in Nat /\ request'[t].from < Len(sessions')
      BY <1>0, <1>6, <2>1
    <3>. QED
      BY <1>6, <2>1, <3>1, <3>2, <3>3, NewSession
  <2>4. \A s \in DOMAIN sessions' : s \in 1..n \/ s = n + 1
    BY <1>0, <2>1
  <2>. QED
    BY <2>2, <2>3, <2>4 DEF Exchanges, Accounts!Live, all
<1>7. CASE Accounts!Register
  <2>. DEFINE row == Accounts!Row(0, owner.pw + 1, owner.pw + 1)
  <2>1. row \in Sessions /\ row.parent = 0 /\ ~row.over
    BY DEF Accounts!Row, Sessions, AuthTyped, Account
  <2>2. sessions' = Append(sessions, row) /\ UNCHANGED <<request, cutOff>>
    BY <1>7 DEF Accounts!Register
  <2>3. \A s \in 1..n : OneIf(row.parent = s) = 0
    BY <1>0, <2>1 DEF OneIf
  <2>4. \A s \in 1..n : /\ Cardinality(Issuing(request', s)) + OneIf(row.parent = s) <= A(s)
                        /\ Cardinality(Rotating(request', s)) + cutOff' >= B(s) + OneIf(row.parent = s) + cutOff
    BY <1>0, <1>1, <2>2, <2>3 DEF A, B
  <2>5. \A t \in Tab : request'[t].from \in 0..n
    BY <1>0, <2>2
  <2>. HIDE DEF row
  <2>. QED
    BY <1>0, <1>6, <2>1, <2>2, <2>4, <2>5
<1>8. ASSUME NEW t \in Tab, Accounts!Issue(t) PROVE Exchanges'
  <2>. DEFINE q == request[t]
              row == Accounts!Row(q.from, q.pw, q.stamp)
              p == IF q.from = 0 \/ ~owner.exists THEN Accounts!Idle
                   ELSE [q EXCEPT !.at = "rotating"]
  <2>1. q \in Requests /\ q.from \in 0..n /\ q.at = "issuing" /\ q.pw # 0
    BY <1>0, <1>8 DEF AuthTyped, Accounts!Issue
  <2>2. row \in Sessions /\ row.parent = q.from /\ ~row.over
    BY <2>1 DEF Accounts!Row, Sessions, Requests
  <2>3. /\ sessions' = Append(sessions, row) /\ request' = [request EXCEPT ![t] = p]
        /\ cutOff' = IF q.from # 0 /\ ~owner.exists THEN cutOff + 1 ELSE cutOff
    BY <1>8 DEF Accounts!Issue
  <2>4. request'[t] = p /\ \A u \in Tab : u # t => request'[u] = request[u]
    BY <1>0, <2>3
  <2>5. /\ p.from \in 0..n /\ p.at # "issuing"
        /\ \A s \in 1..n : p.at = "rotating" /\ p.from = s <=> q.from = s /\ owner.exists
    BY <1>0, <2>1 DEF Accounts!Idle, Requests
  <2>. HIDE DEF p
  <2>6. ASSUME NEW s \in 1..n
        PROVE  /\ Cardinality(Issuing(request', s)) + OneIf(q.from = s) <= A(s)
               /\ Cardinality(Rotating(request', s)) + cutOff' >= B(s) + OneIf(q.from = s) + cutOff
    <3>. DEFINE A2 == Cardinality(Issuing(request', s))
                B2 == Cardinality(Rotating(request', s))
    <3>0. \A u \in Tab : u # t => request'[u] = request[u]
      BY <2>4
    <3>1. /\ A2 + OneIf(q.at = "issuing" /\ q.from = s) = A(s) + OneIf(p.at = "issuing" /\ p.from = s)
          /\ B2 + OneIf(q.at = "rotating" /\ q.from = s) = B(s) + OneIf(p.at = "rotating" /\ p.from = s)
      <4>1. /\ A2 + OneIf(q.at = "issuing" /\ q.from = s)
                  = A(s) + OneIf(request'[t].at = "issuing" /\ request'[t].from = s)
            /\ B2 + OneIf(q.at = "rotating" /\ q.from = s)
                  = B(s) + OneIf(request'[t].at = "rotating" /\ request'[t].from = s)
        BY <3>0, TabMoves DEF A, B
      <4>. QED
        BY <2>4, <4>1
    <3>2. /\ OneIf(q.at = "issuing" /\ q.from = s) = OneIf(q.from = s)
          /\ OneIf(p.at = "issuing" /\ p.from = s) = 0
          /\ OneIf(q.at = "rotating" /\ q.from = s) = 0
          /\ OneIf(p.at = "rotating" /\ p.from = s) = OneIf(q.from = s /\ owner.exists)
      BY <2>1, <2>5 DEF OneIf
    <3>3. OneIf(q.from = s) <= OneIf(q.from = s /\ owner.exists) + (cutOff' - cutOff)
      BY <1>0, <2>3 DEF OneIf
    <3>4. /\ A2 \in Nat /\ B2 \in Nat /\ OneIf(q.from = s) \in Nat
          /\ OneIf(q.from = s /\ owner.exists) \in Nat /\ cutOff' \in Nat
      BY <1>0, <2>3, TabCounts DEF OneIf
    <3>. HIDE DEF A2, B2
    <3>5. A2 + OneIf(q.from = s) <= A(s) /\ B2 + cutOff' >= B(s) + OneIf(q.from = s) + cutOff
      <4>1. A(s) \in Nat /\ B(s) \in Nat /\ cutOff \in Nat
        BY <1>0, <1>1
      <4>2. A2 + OneIf(q.from = s) = A(s) /\ B2 = B(s) + OneIf(q.from = s /\ owner.exists)
        BY <3>1, <3>2, <3>4, <4>1
      <4>. QED
        BY <3>3, <3>4, <4>1, <4>2
    <3>. QED
      BY <3>5 DEF A2, B2
  <2>7. \A u \in Tab : request'[u].from \in 0..n
    BY <1>0, <2>4, <2>5
  <2>8. cutOff' \in Nat /\ cutOff' >= cutOff
    BY <1>0, <2>3
  <2>. HIDE DEF row, q
  <2>. QED
    BY <1>6, <2>1, <2>2, <2>3, <2>6, <2>7, <2>8
<1>22. ASSUME NEW t \in Tab, NEW q, q.from \in 0..n, request[t].at = "idle",
              request' = [request EXCEPT ![t] = q], UNCHANGED <<sessions, cutOff>>,
              q.from # 0 => ~sessions[q.from].over
       PROVE  Exchanges'
  <2>1. \A s \in 1..n : q.at = "issuing" /\ q.from = s => ~sessions[s].over
    BY <1>0, <1>22
  <2>2. /\ cutOff' \in Nat /\ cutOff' >= cutOff /\ (request[t].at = "rotating" => cutOff' >= cutOff + 1)
        /\ sessions' = sessions
    BY <1>0, <1>22
  <2>. QED
    BY <1>4, <1>22, <2>1, <2>2
<1>9. ASSUME NEW t \in Tab, Accounts!Login(t) PROVE Exchanges'
  <2>. DEFINE q == [at |-> "issuing", from |-> 0, pw |-> owner.pw, stamp |-> owner.pw]
  <2>1. /\ request' = [request EXCEPT ![t] = q] /\ q.from = 0 /\ 0 \in 0..n
        /\ request[t].at = "idle" /\ UNCHANGED <<sessions, cutOff>>
    BY <1>0, <1>9 DEF Accounts!Login
  <2>. HIDE DEF q
  <2>. QED
    BY <1>22, <2>1
<1>10. ASSUME NEW t \in Tab, NEW s \in DOMAIN sessions, Accounts!Refresh(t, s) PROVE Exchanges'
  <2>. DEFINE q == [at |-> "issuing", from |-> s, pw |-> sessions[s].pw, stamp |-> owner.pw]
  <2>1. /\ request' = [request EXCEPT ![t] = q] /\ q.from = s /\ s \in 0..n
        /\ request[t].at = "idle" /\ ~sessions[s].over /\ UNCHANGED <<sessions, cutOff>>
    BY <1>0, <1>10 DEF Accounts!Refresh, Accounts!Live
  <2>. HIDE DEF q
  <2>. QED
    BY <1>22, <2>1
<1>11. ASSUME NEW t \in Tab, Accounts!ChangePassword(t) PROVE Exchanges'
  <2>. DEFINE q == [at |-> "revoking", from |-> 0, pw |-> owner.pw, stamp |-> 0]
  <2>1. /\ request' = [request EXCEPT ![t] = q] /\ q.from = 0 /\ 0 \in 0..n
        /\ request[t].at = "idle" /\ UNCHANGED <<sessions, cutOff>>
    BY <1>0, <1>11 DEF Accounts!ChangePassword
  <2>. HIDE DEF q
  <2>. QED
    BY <1>22, <2>1
<1>12. ASSUME NEW t \in Tab, Accounts!Die(t) PROVE Exchanges'
  <2>1. /\ request' = [request EXCEPT ![t] = Accounts!Idle] /\ UNCHANGED sessions
        /\ cutOff' = IF request[t].at = "rotating" THEN cutOff + 1 ELSE cutOff
    BY <1>12 DEF Accounts!Die
  <2>2. Accounts!Idle.at # "issuing"
    BY DEF Accounts!Idle
  <2>3. cutOff' \in Nat /\ cutOff' >= cutOff /\ (request[t].at = "rotating" => cutOff' >= cutOff + 1)
    BY <1>0, <2>1
  <2>. QED
    BY <1>4, <2>1, <2>2, <2>3
<1>13. ASSUME NEW t \in Tab, request' = [request EXCEPT ![t] = Accounts!Idle], NEW s \in 1..n
       PROVE  /\ Cardinality(Issuing(request', s)) <= A(s)
              /\ ~(request[t].at = "rotating" /\ request[t].from = s)
                   => Cardinality(Rotating(request', s)) = B(s)
  <2>1. request'[t].at = "idle" /\ \A u \in Tab : u # t => request'[u] = request[u]
    BY <1>0, <1>13 DEF Accounts!Idle
  <2>2. /\ Cardinality(Issuing(request', s)) + OneIf(request[t].at = "issuing" /\ request[t].from = s)
             = A(s) + OneIf(request'[t].at = "issuing" /\ request'[t].from = s)
        /\ Cardinality(Rotating(request', s)) + OneIf(request[t].at = "rotating" /\ request[t].from = s)
             = B(s) + OneIf(request'[t].at = "rotating" /\ request'[t].from = s)
    BY <2>1, TabMoves DEF A, B
  <2>3. /\ OneIf(request'[t].at = "issuing" /\ request'[t].from = s) = 0
        /\ OneIf(request'[t].at = "rotating" /\ request'[t].from = s) = 0
        /\ OneIf(request[t].at = "issuing" /\ request[t].from = s) \in Nat
        /\ ~(request[t].at = "rotating" /\ request[t].from = s)
             => OneIf(request[t].at = "rotating" /\ request[t].from = s) = 0
    BY <2>1 DEF OneIf
  <2>4. Cardinality(Issuing(request', s)) \in Nat /\ Cardinality(Rotating(request', s)) \in Nat
    BY TabCounts
  <2>. QED
    BY <1>1, <2>2, <2>3, <2>4
<1>14. \A r \in Sessions : /\ [r EXCEPT !.over = TRUE].parent = r.parent
                           /\ [r EXCEPT !.over = TRUE].over
  BY DEF Sessions
<1>15. \A s \in 1..n : sessions[s] \in Sessions
  BY <1>0 DEF n
<1>. HIDE DEF Sessions
<1>16. ASSUME NEW x \in 1..n, sessions' = [sessions EXCEPT ![x].over = TRUE]
       PROVE  /\ DOMAIN sessions' = 1..n /\ \A s \in 1..n : sessions'[s].parent = sessions[s].parent
              /\ sessions'[x].over /\ \A s \in 1..n : s # x => sessions'[s] = sessions[s]
  BY <1>0, <1>14, <1>15, <1>16
<1>17. ASSUME NEW t \in Tab, Accounts!Rotate(t) PROVE Exchanges'
  <2>. DEFINE x == request[t].from
  <2>1. /\ x \in 1..n /\ sessions' = [sessions EXCEPT ![x].over = TRUE]
        /\ request' = [request EXCEPT ![t] = Accounts!Idle] /\ UNCHANGED cutOff
    BY <1>0, <1>17 DEF Accounts!Rotate, AuthTyped
  <2>2. \A s \in 1..n : /\ Cardinality(Issuing(request', s)) <= A(s)
                        /\ s # x => Cardinality(Rotating(request', s)) = B(s)
    BY <1>13, <2>1
  <2>. HIDE DEF x
  <2>. QED
    BY <1>5, <1>16, <2>1, <2>2
<1>18. ASSUME NEW x \in DOMAIN sessions, Accounts!Logout(x) PROVE Exchanges'
  <2>1. /\ x \in 1..n /\ sessions' = [sessions EXCEPT ![x].over = TRUE] /\ UNCHANGED <<request, cutOff>>
    BY <1>0, <1>18 DEF Accounts!Logout
  <2>2. \A s \in 1..n : /\ Cardinality(Issuing(request', s)) <= A(s)
                        /\ Cardinality(Rotating(request', s)) = B(s)
    BY <1>1, <2>1 DEF A, B
  <2>. QED
    BY <1>5, <1>16, <2>1, <2>2
<1>19. ASSUME NEW t \in Tab, Accounts!RevokeAll(t) PROVE Exchanges'
  <2>1. /\ sessions' = [s \in 1..n |-> [sessions[s] EXCEPT !.over = TRUE]]
        /\ request' = [request EXCEPT ![t] = Accounts!Idle] /\ UNCHANGED cutOff
    BY <1>0, <1>19 DEF Accounts!RevokeAll, Accounts!RevokedAll
  <2>2. \A s \in 1..n : sessions'[s].parent = sessions[s].parent /\ sessions'[s].over
    BY <1>14, <1>15, <2>1
  <2>3. DOMAIN sessions' = 1..n
    BY <2>1
  <2>4. \A s \in 1..n : Cardinality(Issuing(request', s)) <= A(s)
    BY <1>13, <2>1
  <2>. QED
    BY <1>5, <2>1, <2>2, <2>3, <2>4
<1>20. CASE UNCHANGED <<sessions, request, cutOff>>
  <2>1. \A s \in 1..n : /\ Cardinality(Issuing(request', s)) <= A(s)
                        /\ Cardinality(Rotating(request', s)) = B(s)
    BY <1>1, <1>20 DEF A, B
  <2>. QED
    BY <1>0, <1>5, <1>20, <2>1
<1>21. Accounts!DeleteUser \/ Accounts!DeleteTeam \/ UNCHANGED accountsVars
         => UNCHANGED <<sessions, request, cutOff>>
  BY DEF Accounts!DeleteUser, Accounts!DeleteTeam, accountsVars
<1>. QED
  BY <1>7, <1>8, <1>9, <1>10, <1>11, <1>12, <1>17, <1>18, <1>19, <1>20, <1>21 DEF Accounts!Next

LEMMA ExchangesBound ==
  ASSUME AuthTyped, Exchanges
  PROVE  Accounts!ExchangedOnce
<1>1. sessions \in Seq(Sessions) /\ cutOff \in Nat
  BY DEF AuthTyped
<1>2. ASSUME NEW s \in DOMAIN sessions
      PROVE  Cardinality(Children(sessions, s)) <= Cardinality(Tab) + cutOff
  <2>. DEFINE c == Cardinality(Children(sessions, s))
              a == Cardinality(Issuing(request, s))
              b == Cardinality(Rotating(request, s))
  <2>1. IF Accounts!Live(s) THEN c <= b + cutOff ELSE c + a <= Cardinality(Tab) + cutOff
    BY DEF Exchanges
  <2>2. /\ a \in Nat /\ b \in Nat /\ c \in Nat /\ Cardinality(Tab) \in Nat
        /\ a + b <= Cardinality(Tab)
    BY <1>1, TabCounts, ChildCounts
  <2>. HIDE DEF a, b, c
  <2>3. c <= Cardinality(Tab) + cutOff
    BY <1>1, <2>1, <2>2
  <2>. QED
    BY <2>3 DEF c
<1>3. \A s : Children(sessions, s) = {h \in DOMAIN sessions : sessions[h].parent = s}
  BY DEF Children
<1>4. \A S : Accounts!Cardinality(S) = Cardinality(S)
  BY DEF Cardinality, Accounts!Cardinality
<1>. HIDE DEF Children
<1>. QED
  BY <1>2, <1>3, <1>4 DEF Accounts!ExchangedOnce

-----------------------------------------------------------------------------
(* AuthSessions: what a change of the password ends.                        *)

LEMMA OldPasswordBegins == Accounts!Init => Accounts!OldPasswordOut /\ OldRequests
BY DEF Accounts!Init, Accounts!Idle, Accounts!OldPasswordOut, OldRequests

LEMMA OldRequestsStayKnown ==
  ASSUME AuthTyped, AuthTyped', Accounts!OldPasswordOut, OldRequests, [Accounts!Next]_accountsVars
  PROVE  OldRequests'
<1>. DEFINE Known(t) == Explained(request[t].pw) \/ t \in overtaken \/ request[t].from \in late
            Old(p) == p >= owner.since /\ p < owner.pw
            Still(p) == \/ \E u \in Tab : request'[u].at = "revoking" /\ request'[u].pw >= p
                        \/ p \in halfChanged'
<1>0. /\ request \in [Tab -> Requests] /\ owner.since \in Nat /\ owner.pw \in Nat
      /\ \A t \in Tab : request[t].pw \in Nat
      /\ \A t \in Tab : request[t].at = "issuing" => request[t].pw # 0
  BY DEF AuthTyped, Account, Requests
<1>1. \A t \in Tab : request[t].at = "issuing" /\ Old(request[t].pw) => Known(t)
  BY DEF OldRequests
<1>2. \A s \in DOMAIN sessions : sessions[s].pw \in Nat
  <2>1. \A s \in DOMAIN sessions : sessions[s] \in Sessions
    BY DEF AuthTyped
  <2>. QED
    BY <2>1 DEF Sessions
\* Who was about to open one still is, and what explains it still does.
<1>3. ASSUME NEW t \in Tab, owner'.since = owner.since, owner'.pw = owner.pw,
             late \subseteq late', overtaken \ {t} \subseteq overtaken',
             \A u \in Tab : u # t => request'[u] = request[u],
             \A p \in Nat \ {0} : Explained(p) => Still(p),
             request'[t].at = "issuing" /\ Old(request'[t].pw) =>
                 Explained(request'[t].pw) \/ request'[t].from \in late
      PROVE  OldRequests'
  <2>1. ASSUME NEW u \in Tab, request'[u].at = "issuing", Old(request'[u].pw)
        PROVE  \/ Still(request'[u].pw)
               \/ u \in overtaken'
               \/ request'[u].from \in late'
    <3>0. request'[u].pw \in Nat \ {0}
      BY <2>1 DEF AuthTyped, Requests
    <3>1. CASE u = t
      BY <1>3, <2>1, <3>0, <3>1
    <3>2. CASE u # t
      <4>1. request'[u] = request[u] /\ Known(u)
        BY <1>1, <1>3, <2>1, <3>2
      <4>2. Explained(request'[u].pw) \/ u \in overtaken' \/ request'[u].from \in late'
        BY <1>3, <3>2, <4>1
      <4>. QED
        BY <1>3, <3>0, <4>2
    <3>. QED
      BY <3>1, <3>2
  <2>. QED
    BY <1>3, <2>1 DEF OldRequests, Explained, Still
<1>. HIDE DEF Known, Still
\* Nobody who was revoking has stopped.
<1>4. ASSUME \A u \in Tab : request[u].at = "revoking" => request'[u] = request[u],
             halfChanged' = halfChanged
      PROVE  \A p : Explained(p) => Still(p)
  BY <1>4 DEF Explained, Still
<1>5. CASE Accounts!Register
  BY <1>5 DEF Accounts!Register, OldRequests, AuthTyped, Account, Requests
<1>6. ASSUME NEW t \in Tab, Accounts!Login(t) PROVE OldRequests'
  <2>1. /\ \A u \in Tab : u # t => request'[u] = request[u]
        /\ request'[t].pw = owner.pw /\ request[t].at = "idle"
        /\ UNCHANGED <<owner, late, overtaken, halfChanged>>
    BY <1>0, <1>6 DEF Accounts!Login
  <2>2. \A p : Explained(p) => Still(p)
    BY <1>4, <2>1
  <2>3. ~Old(request'[t].pw)
    BY <1>0, <2>1
  <2>. QED
    BY <1>3, <2>1, <2>2, <2>3
<1>7. ASSUME NEW t \in Tab, NEW s \in DOMAIN sessions, Accounts!Refresh(t, s) PROVE OldRequests'
  <2>1. /\ \A u \in Tab : u # t => request'[u] = request[u]
        /\ request'[t].pw = sessions[s].pw /\ request'[t].from = s
        /\ request[t].at = "idle" /\ Accounts!Live(s)
        /\ UNCHANGED <<owner, late, overtaken, halfChanged>>
    BY <1>0, <1>7 DEF Accounts!Refresh
  <2>2. \A p : Explained(p) => Still(p)
    BY <1>4, <2>1
  <2>3. Old(sessions[s].pw) => Explained(sessions[s].pw) \/ s \in late
    BY <1>0, <1>2, <2>1 DEF Accounts!OldPasswordOut, Accounts!OfOldPassword, Explained
  <2>. QED
    BY <1>3, <2>1, <2>2, <2>3
<1>8. ASSUME NEW t \in Tab, Accounts!Issue(t) PROVE OldRequests'
  <2>1. /\ \A u \in Tab : u # t => request'[u] = request[u]
        /\ request[t].at = "issuing" /\ UNCHANGED <<owner, halfChanged>>
        /\ late \subseteq late' /\ overtaken' = overtaken \ {t}
    BY <1>0, <1>8 DEF Accounts!Issue
  <2>2. request'[t].at # "issuing"
    BY <1>0, <1>8 DEF Accounts!Issue, Accounts!Idle, Requests
  <2>3. \A p : Explained(p) => Still(p)
    BY <1>4, <2>1
  <2>. QED
    BY <1>3, <2>1, <2>2, <2>3
<1>9. ASSUME NEW t \in Tab, Accounts!Rotate(t) PROVE OldRequests'
  <2>1. /\ \A u \in Tab : u # t => request'[u] = request[u]
        /\ request[t].at = "rotating" /\ request'[t].at # "issuing"
        /\ UNCHANGED <<owner, late, overtaken, halfChanged>>
    BY <1>0, <1>9 DEF Accounts!Rotate, Accounts!Idle
  <2>2. \A p : Explained(p) => Still(p)
    BY <1>4, <2>1
  <2>. QED
    BY <1>3, <2>1, <2>2
<1>10. ASSUME NEW t \in Tab, Accounts!ChangePassword(t) PROVE OldRequests'
  <2>1. request'[t].at = "revoking" /\ request'[t].pw = owner.pw /\ owner'.pw = owner.pw + 1
    BY <1>0, <1>10 DEF Accounts!ChangePassword, AuthTyped, Account
  <2>2. \A u \in Tab : request'[u].pw \in Nat
    BY DEF AuthTyped, Requests
  <2>3. \A u \in Tab : request'[u].pw < owner'.pw => Still(request'[u].pw)
    BY <1>0, <2>1, <2>2 DEF Still
  <2>. QED
    BY <2>3 DEF OldRequests, Explained, Still
<1>11. ASSUME NEW t \in Tab, Accounts!RevokeAll(t) PROVE OldRequests'
  <2>1. /\ overtaken' = overtaken \cup {u \in Tab : request[u].at = "issuing"}
        /\ \A u \in Tab : u # t => request'[u] = request[u]
        /\ request'[t].at # "issuing"
    BY <1>0, <1>11 DEF Accounts!RevokeAll, Accounts!Overtaken, Accounts!Idle
  <2>2. \A u \in Tab : request'[u].at = "issuing" => u \in overtaken'
    BY <2>1
  <2>. QED
    BY <2>2 DEF OldRequests
<1>12. ASSUME NEW t \in Tab, Accounts!Die(t) PROVE OldRequests'
  <2>1. /\ \A u \in Tab : u # t => request'[u] = request[u]
        /\ request'[t].at # "issuing" /\ UNCHANGED <<owner, late>>
        /\ overtaken' = overtaken \ {t}
        /\ halfChanged' = IF request[t].at = "revoking" THEN halfChanged \cup 1..request[t].pw
                          ELSE halfChanged
    BY <1>0, <1>12 DEF Accounts!Die, Accounts!Idle
  <2>2. ASSUME NEW p \in Nat \ {0}, Explained(p) PROVE Still(p)
    <3>1. CASE p \in halfChanged
      BY <2>1, <3>1 DEF Still
    <3>2. ASSUME NEW u \in Tab, request[u].at = "revoking", request[u].pw >= p PROVE Still(p)
      <4>1. CASE u = t
        <5>1. p \in 1..request[t].pw
          BY <1>0, <3>2, <4>1
        <5>. QED
          BY <2>1, <3>2, <4>1, <5>1 DEF Still
      <4>2. CASE u # t
        BY <2>1, <3>2, <4>2 DEF Still
      <4>. QED
        BY <4>1, <4>2
    <3>. QED
      BY <2>2, <3>1, <3>2 DEF Explained
  <2>. QED
    BY <1>3, <2>1, <2>2
<1>13. ASSUME NEW s \in DOMAIN sessions, Accounts!Logout(s) PROVE OldRequests'
  BY <1>13 DEF Accounts!Logout, OldRequests, Explained
<1>14. CASE Accounts!DeleteUser \/ Accounts!DeleteTeam
  <2>1. /\ owner'.since = owner.since /\ owner'.pw = owner.pw
        /\ UNCHANGED <<request, overtaken, late, halfChanged>>
    BY <1>14 DEF Accounts!DeleteUser, Accounts!DeleteTeam, AuthTyped, Account
  <2>. QED
    BY <2>1 DEF OldRequests, Explained
<1>15. CASE UNCHANGED accountsVars
  BY <1>15 DEF accountsVars, OldRequests, Explained
<1>. QED
  BY <1>5, <1>6, <1>7, <1>8, <1>9, <1>10, <1>11, <1>12, <1>13, <1>14, <1>15 DEF Accounts!Next

LEMMA OldPasswordStaysOut ==
  ASSUME AuthTyped, AuthTyped', Accounts!OldPasswordOut, OldRequests, [Accounts!Next]_accountsVars
  PROVE  Accounts!OldPasswordOut'
<1>. DEFINE n == Len(sessions)
            Excused(s) == \/ \E t \in Tab : request[t].at = "revoking" /\ request[t].pw >= sessions[s].pw
                          \/ sessions[s].pw \in halfChanged
                          \/ s \in late
            Old(s) == /\ ~sessions[s].over
                      /\ sessions[s].pw >= owner.since /\ sessions[s].pw < owner.pw
<1>0. /\ n \in Nat /\ DOMAIN sessions = 1..n /\ request \in [Tab -> Requests]
      /\ owner.since \in Nat /\ owner.pw \in Nat /\ sessions \in Seq(Sessions)
  BY DEF AuthTyped, Account
<1>1. \A s \in 1..n : sessions[s].pw \in Nat \ {0}
  <2>1. \A s \in 1..n : sessions[s] \in Sessions
    BY <1>0
  <2>. QED
    BY <2>1 DEF Sessions
<1>2. \A s \in 1..n : Old(s) => Excused(s)
  BY <1>0, <1>1 DEF Accounts!OldPasswordOut, Accounts!OfOldPassword, Accounts!Live
<1>3. owner'.since \in Nat /\ owner'.pw \in Nat /\ \A s \in DOMAIN sessions' : sessions'[s].pw \in Nat
  <2>1. owner'.since \in Nat /\ owner'.pw \in Nat
    BY DEF AuthTyped, Account
  <2>2. \A s \in DOMAIN sessions' : sessions'[s] \in Sessions
    BY DEF AuthTyped
  <2>. QED
    BY <2>1, <2>2 DEF Sessions
<1>4. ASSUME \A s \in DOMAIN sessions' :
               /\ ~sessions'[s].over
               /\ sessions'[s].pw >= owner'.since /\ sessions'[s].pw < owner'.pw
               => \/ \E t \in Tab : request'[t].at = "revoking" /\ request'[t].pw >= sessions'[s].pw
                  \/ sessions'[s].pw \in halfChanged'
                  \/ s \in late'
      PROVE  Accounts!OldPasswordOut'
  BY <1>3, <1>4 DEF Accounts!OldPasswordOut, Accounts!OfOldPassword, Accounts!Live
\* No password and no session is new; who was revoking has done so, or has left word.
<1>5. ASSUME DOMAIN sessions' = 1..n,
             \A s \in 1..n : /\ sessions'[s].pw = sessions[s].pw
                             /\ sessions[s].over => sessions'[s].over,
             owner'.since = owner.since, owner'.pw = owner.pw,
             late' = late, halfChanged \subseteq halfChanged',
             \A t \in Tab : request[t].at = "revoking" =>
                 \/ request'[t] = request[t]
                 \/ \A s \in 1..n : sessions[s].pw <= request[t].pw =>
                        sessions'[s].over \/ sessions[s].pw \in halfChanged'
      PROVE  Accounts!OldPasswordOut'
  <2>1. ASSUME NEW s \in 1..n, Old(s), ~sessions'[s].over
        PROVE  \/ \E t \in Tab : request'[t].at = "revoking" /\ request'[t].pw >= sessions'[s].pw
               \/ sessions'[s].pw \in halfChanged'
               \/ s \in late'
    <3>1. CASE s \in late \/ sessions[s].pw \in halfChanged
      BY <1>5, <3>1
    <3>2. ASSUME NEW t \in Tab, request[t].at = "revoking", request[t].pw >= sessions[s].pw
          PROVE  \/ request'[t].at = "revoking" /\ request'[t].pw >= sessions'[s].pw
                 \/ sessions'[s].pw \in halfChanged'
      <4>1. request[t].pw \in Nat /\ sessions[s].pw <= request[t].pw
        BY <1>0, <1>1, <3>2 DEF Requests
      <4>. QED
        BY <1>5, <2>1, <3>2, <4>1
    <3>3. Excused(s)
      BY <1>2, <2>1
    <3>. QED
      BY <3>1, <3>2, <3>3
  <2>. QED
    BY <1>4, <1>5, <2>1
<1>6. CASE Accounts!Register
  <2>1. owner'.since = owner'.pw
    BY <1>6 DEF Accounts!Register
  <2>. QED
    BY <1>3, <1>4, <2>1
<1>7. ASSUME NEW t \in Tab, Accounts!ChangePassword(t) PROVE Accounts!OldPasswordOut'
  <2>1. owner'.pw = owner.pw + 1 /\ sessions' = sessions
    BY <1>7 DEF Accounts!ChangePassword, AuthTyped, Account
  <2>2. request'[t].at = "revoking" /\ request'[t].pw = owner.pw
    BY <1>0, <1>7 DEF Accounts!ChangePassword
  <2>3. \A s \in DOMAIN sessions' : sessions'[s].pw < owner'.pw => request'[t].pw >= sessions'[s].pw
    BY <1>0, <1>3, <2>1, <2>2
  <2>. QED
    BY <1>4, <2>2, <2>3
<1>8. ASSUME NEW t \in Tab, Accounts!Issue(t) PROVE Accounts!OldPasswordOut'
  <2>. DEFINE row == Accounts!Row(request[t].from, request[t].pw, request[t].stamp)
  <2>1. /\ sessions' = Append(sessions, row) /\ request[t].at = "issuing"
        /\ owner' = owner /\ halfChanged' = halfChanged
        /\ late' = IF t \in overtaken \/ request[t].from \in late THEN late \cup {n + 1} ELSE late
        /\ \A u \in Tab : u # t => request'[u] = request[u]
    BY <1>0, <1>8 DEF Accounts!Issue
  <2>2. row \in Sessions /\ row.pw = request[t].pw
    BY <1>0, <2>1 DEF Accounts!Row, Sessions, Requests, AuthTyped
  <2>. HIDE DEF row
  <2>3. /\ DOMAIN sessions' = 1..(n + 1) /\ sessions'[n + 1] = row
        /\ \A i \in 1..n : sessions'[i] = sessions[i]
    BY <1>0, <2>1, <2>2, AppendProperties
  <2>4. ASSUME NEW s \in 1..n, Old(s)
        PROVE  \/ \E u \in Tab : request'[u].at = "revoking" /\ request'[u].pw >= sessions'[s].pw
               \/ sessions'[s].pw \in halfChanged'
               \/ s \in late'
    <3>1. Excused(s)
      BY <1>2, <2>4
    <3>2. sessions'[s] = sessions[s]
      BY <2>3
    <3>. QED
      BY <2>1, <3>1, <3>2
  <2>5. ASSUME sessions'[n + 1].pw >= owner'.since, sessions'[n + 1].pw < owner'.pw
        PROVE  \/ \E u \in Tab : request'[u].at = "revoking" /\ request'[u].pw >= sessions'[n + 1].pw
               \/ sessions'[n + 1].pw \in halfChanged'
               \/ n + 1 \in late'
    <3>1. Explained(request[t].pw) \/ t \in overtaken \/ request[t].from \in late
      BY <2>1, <2>2, <2>3, <2>5 DEF OldRequests
    <3>2. Explained(request[t].pw) =>
            \/ \E u \in Tab : request'[u].at = "revoking" /\ request'[u].pw >= request[t].pw
            \/ request[t].pw \in halfChanged'
      BY <2>1 DEF Explained
    <3>. QED
      BY <2>1, <2>2, <2>3, <3>1, <3>2
  <2>6. \A s \in DOMAIN sessions' : s \in 1..n \/ s = n + 1
    BY <1>0, <2>3
  <2>7. \A s \in 1..n : /\ ~sessions'[s].over
                        /\ sessions'[s].pw >= owner'.since /\ sessions'[s].pw < owner'.pw
                        => Old(s)
    BY <2>1, <2>3
  <2>. QED
    BY <1>4, <2>4, <2>5, <2>6, <2>7
<1>9. CASE UNCHANGED <<sessions, request, late, halfChanged>>
             /\ owner'.since = owner.since /\ owner'.pw = owner.pw
  BY <1>0, <1>5, <1>9
<1>10. ASSUME NEW t \in Tab, NEW q, request[t].at # "revoking", request' = [request EXCEPT ![t] = q],
              UNCHANGED <<owner, sessions, late, halfChanged>>
       PROVE  Accounts!OldPasswordOut'
  <2>1. \A u \in Tab : request[u].at = "revoking" => request'[u] = request[u]
    BY <1>0, <1>10
  <2>. QED
    BY <1>0, <1>5, <1>10, <2>1
<1>11. ASSUME NEW t \in Tab, Accounts!Die(t) PROVE Accounts!OldPasswordOut'
  <2>1. /\ request' = [request EXCEPT ![t] = Accounts!Idle] /\ UNCHANGED <<owner, sessions, late>>
        /\ halfChanged' = IF request[t].at = "revoking" THEN halfChanged \cup 1..request[t].pw
                          ELSE halfChanged
    BY <1>11 DEF Accounts!Die
  <2>2. \A u \in Tab : u # t => request'[u] = request[u]
    BY <1>0, <2>1
  <2>3. request[t].at = "revoking" =>
          \A s \in 1..n : sessions[s].pw <= request[t].pw => sessions[s].pw \in halfChanged'
    BY <1>0, <1>1, <2>1 DEF Requests
  <2>. QED
    BY <1>0, <1>5, <2>1, <2>2, <2>3
<1>12. \A r \in Sessions : /\ [r EXCEPT !.over = TRUE].pw = r.pw
                           /\ [r EXCEPT !.over = TRUE].over
  BY DEF Sessions
<1>13. \A s \in 1..n : sessions[s] \in Sessions
  BY <1>0
<1>. HIDE DEF Sessions
<1>14. ASSUME NEW x \in 1..n, sessions' = [sessions EXCEPT ![x].over = TRUE],
              UNCHANGED <<owner, late, halfChanged>>,
              \A t \in Tab : request[t].at = "revoking" => request'[t] = request[t]
       PROVE  Accounts!OldPasswordOut'
  <2>1. /\ DOMAIN sessions' = 1..n
        /\ \A s \in 1..n : /\ sessions'[s].pw = sessions[s].pw
                            /\ sessions[s].over => sessions'[s].over
    BY <1>0, <1>12, <1>13, <1>14
  <2>. QED
    BY <1>5, <1>14, <2>1
<1>15. ASSUME NEW t \in Tab, Accounts!Rotate(t) PROVE Accounts!OldPasswordOut'
  <2>1. /\ request[t].from \in 1..n /\ sessions' = [sessions EXCEPT ![request[t].from].over = TRUE]
        /\ UNCHANGED <<owner, late, halfChanged>>
    BY <1>0, <1>15 DEF Accounts!Rotate, AuthTyped
  <2>2. \A u \in Tab : request[u].at = "revoking" => request'[u] = request[u]
    BY <1>0, <1>15 DEF Accounts!Rotate
  <2>. QED
    BY <1>14, <2>1, <2>2
<1>16. ASSUME NEW x \in DOMAIN sessions, Accounts!Logout(x) PROVE Accounts!OldPasswordOut'
  <2>1. /\ x \in 1..n /\ sessions' = [sessions EXCEPT ![x].over = TRUE]
        /\ UNCHANGED <<owner, request, late, halfChanged>>
    BY <1>0, <1>16 DEF Accounts!Logout
  <2>. QED
    BY <1>14, <2>1
<1>17. ASSUME NEW t \in Tab, Accounts!RevokeAll(t) PROVE Accounts!OldPasswordOut'
  <2>1. /\ sessions' = [s \in 1..n |-> [sessions[s] EXCEPT !.over = TRUE]]
    BY <1>0, <1>17 DEF Accounts!RevokeAll, Accounts!RevokedAll
  <2>2. \A s \in DOMAIN sessions' : sessions'[s].over
    BY <1>12, <1>13, <2>1
  <2>. QED
    BY <1>4, <2>2
<1>18. ASSUME NEW t \in Tab, Accounts!Login(t) PROVE Accounts!OldPasswordOut'
  BY <1>10, <1>18 DEF Accounts!Login
<1>19. ASSUME NEW t \in Tab, NEW x \in DOMAIN sessions, Accounts!Refresh(t, x)
       PROVE  Accounts!OldPasswordOut'
  BY <1>10, <1>19 DEF Accounts!Refresh
<1>20. Accounts!DeleteUser \/ Accounts!DeleteTeam \/ UNCHANGED accountsVars
         => /\ UNCHANGED <<sessions, request, late, halfChanged>>
            /\ owner'.since = owner.since /\ owner'.pw = owner.pw
  BY DEF Accounts!DeleteUser, Accounts!DeleteTeam, accountsVars, AuthTyped, Account
<1>. QED
  BY <1>6, <1>7, <1>8, <1>9, <1>11, <1>15, <1>16, <1>17, <1>18, <1>19, <1>20 DEF Accounts!Next

(* A session that goes back to a password that was changed lives on only   *)
(* while the change has not ended the sessions yet, after a crash kept it  *)
(* from doing so, or where it descends from a request that had begun       *)
(* before they were ended; and the exchanges of a refresh token are at     *)
(* most as many as the requests that overlap and the crashes               *)
(* (AuthService.refresh, change_password).                                 *)
THEOREM SessionsAreRetired == SpecAll => []SessionsRetired
<1>. DEFINE I == part = "accounts" => AuthInv
<1>1. InitAll => I
  BY AuthBegins, ExchangesBegin, OldPasswordBegins DEF InitAll, AuthInv
<1>2. I /\ [NextAll]_allVars => I'
  <2>. SUFFICES ASSUME I, [NextAll]_allVars PROVE I'
    OBVIOUS
  <2>1. part' = part /\ (part = "accounts" => [Accounts!Next]_accountsVars)
    BY OneAtWork
  <2>. QED
    BY <2>1, AuthStaysTyped, ExchangesGoOn, OldRequestsStayKnown, OldPasswordStaysOut DEF AuthInv
<1>3. I => SessionsRetired
  BY ExchangesBound DEF AuthInv, SessionsRetired
<1>. QED
  BY <1>1, <1>2, <1>3, PTL DEF SpecAll

-----------------------------------------------------------------------------
(* Workspace: what a question was answered from, and which favourites have  *)
(* their cards.                                                             *)

Lines == [conversation : Nat, exists : BOOLEAN, channel : {"ask", "action", "echo"}, version : Nat,
          saw : SUBSET Nat]
Favourites == [row : Nat, version : Nat, space : Nat, exists : BOOLEAN, promoted : BOOLEAN]

Spaces == [default : BOOLEAN, status : {"active", "archived", "deleted"}]
Talks  == [space : Nat, exists : BOOLEAN]

\* The rows of saw are rows of conversation c before m.
Before(R, c, m, saw) == \A k \in saw : k \in DOMAIN R /\ k < m /\ R[k].conversation = c

\* What an answer to q will be stored with.
SawEarlier(R, q) ==
    /\ q.conversation \in Nat /\ q.row \in Nat
    /\ q.row # 0 => q.row \in DOMAIN R /\ R[q.row].conversation = q.conversation
    /\ Before(R, q.conversation, IF q.row = 0 THEN Len(R) + 1 ELSE q.row, q.saw)

LinesInv ==
    /\ rows \in Seq(Lines) /\ DOMAIN asking = Inquiry
    /\ spaces \in Seq(Spaces) /\ conversations \in Seq(Talks)
    /\ \A m \in 1..Len(rows) : Before(rows, rows[m].conversation, m, rows[m].saw)
    /\ \A r \in Inquiry : asking[r].at = "answering" => SawEarlier(rows, asking[r])

HasCard(F, C, f) == \E i \in DOMAIN C : C[i] = [favorite |-> f, version |-> F[f].version]

CardsInv ==
    /\ favorites \in Seq(Favourites) /\ cards \in Seq([favorite : Nat, version : Nat])
    /\ rows \in Seq(Lines) /\ DOMAIN asking = Inquiry
    /\ \A f \in DOMAIN favorites : favorites[f].promoted => HasCard(favorites, cards, f)
    /\ \A r \in Inquiry : asking[r].at = "promoting" =>
           asking[r].favorite \in DOMAIN favorites /\ HasCard(favorites, cards, asking[r].favorite)

LEMMA SpaceBegins == Space!Init => LinesInv /\ CardsInv
BY DEF Space!Init, Space!Idle, LinesInv, CardsInv, SawEarlier, Before

\* A conversation's rows stay its rows.
LEMMA BeforeLasts ==
  ASSUME NEW R \in Seq(Lines), NEW Q \in Seq(Lines), Len(R) <= Len(Q),
         \A m \in 1..Len(R) : Q[m].conversation = R[m].conversation
  PROVE  /\ \A c, m, saw : Before(R, c, m, saw) => Before(Q, c, m, saw)
         /\ \A q : SawEarlier(R, q) => SawEarlier(Q, q)
<1>1. DOMAIN R = 1..Len(R) /\ DOMAIN Q = 1..Len(Q) /\ Len(R) \in Nat /\ Len(Q) \in Nat
  OBVIOUS
<1>2. ASSUME NEW c, NEW m, NEW saw, Before(R, c, m, saw)
      PROVE  Before(Q, c, m, saw)
  <2>1. \A k \in saw : k \in 1..Len(R) /\ k < m /\ R[k].conversation = c
    BY <1>1, <1>2 DEF Before
  <2>. QED
    BY <1>1, <2>1 DEF Before
<1>3. ASSUME NEW q, SawEarlier(R, q)
      PROVE  SawEarlier(Q, q)
  <2>1. CASE q.row # 0
    <3>1. Before(R, q.conversation, q.row, q.saw) /\ q.row \in 1..Len(R) /\ q.conversation \in Nat /\ q.row \in Nat
      BY <1>1, <1>3, <2>1 DEF SawEarlier
    <3>. QED
      BY <1>1, <1>2, <1>3, <2>1, <3>1 DEF SawEarlier
  <2>2. CASE q.row = 0
    <3>1. Before(R, q.conversation, Len(R) + 1, q.saw) /\ q.conversation \in Nat
      BY <1>3, <2>2 DEF SawEarlier
    <3>2. \A k \in q.saw : k \in 1..Len(R) /\ R[k].conversation = q.conversation
      BY <1>1, <3>1 DEF Before
    <3>3. Before(Q, q.conversation, Len(Q) + 1, q.saw)
      BY <1>1, <3>2 DEF Before
    <3>. QED
      BY <2>2, <3>1, <3>3 DEF SawEarlier
  <2>. QED
    BY <2>1, <2>2
<1>. QED
  BY <1>2, <1>3

LEMMA LinesGoOn ==
  ASSUME LinesInv, [Space!Next]_spaceVars
  PROVE  LinesInv'
<1>0. /\ rows \in Seq(Lines) /\ Len(rows) \in Nat /\ DOMAIN rows = 1..Len(rows)
      /\ DOMAIN asking = Inquiry /\ spaces \in Seq(Spaces) /\ conversations \in Seq(Talks)
      /\ \A m \in 1..Len(rows) : rows[m] \in Lines
      /\ \A c \in DOMAIN conversations : c \in Nat
      /\ \A m \in 1..Len(rows) : Before(rows, rows[m].conversation, m, rows[m].saw)
      /\ \A r \in Inquiry : asking[r].at = "answering" => SawEarlier(rows, asking[r])
  BY DEF LinesInv
<1>. HIDE DEF Lines, Spaces, Talks
\* The rows of before stay, with what their answers knew; the new one knew earlier ones.
<1>1. ASSUME rows' \in Seq(Lines), Len(rows') >= Len(rows),
             \A m \in 1..Len(rows) : /\ rows'[m].conversation = rows[m].conversation
                                     /\ \/ rows'[m].saw = rows[m].saw
                                        \/ Before(rows, rows[m].conversation, m, rows'[m].saw),
             \A m \in 1..Len(rows') : m \notin 1..Len(rows) =>
                 Before(rows, rows'[m].conversation, m, rows'[m].saw),
             spaces' \in Seq(Spaces), conversations' \in Seq(Talks),
             DOMAIN asking' = Inquiry,
             \A r \in Inquiry : asking'[r].at = "answering" =>
                                    asking'[r] = asking[r] \/ SawEarlier(rows, asking'[r])
      PROVE  LinesInv'
  <2>1. /\ \A c, m, saw : Before(rows, c, m, saw) => Before(rows', c, m, saw)
        /\ \A q : SawEarlier(rows, q) => SawEarlier(rows', q)
    BY <1>0, <1>1, BeforeLasts
  <2>2. \A m \in 1..Len(rows') : Before(rows, rows'[m].conversation, m, rows'[m].saw)
    <3>1. \A m \in 1..Len(rows) : Before(rows, rows'[m].conversation, m, rows'[m].saw)
      BY <1>0, <1>1
    <3>. QED
      BY <1>1, <3>1
  <2>3. \A r \in Inquiry : asking'[r].at = "answering" => SawEarlier(rows, asking'[r])
    BY <1>0, <1>1
  <2>. QED
    BY <1>1, <2>1, <2>2, <2>3 DEF LinesInv
<1>2. ASSUME rows' = rows, spaces' \in Seq(Spaces), conversations' \in Seq(Talks),
             DOMAIN asking' = Inquiry,
             \A r \in Inquiry : asking'[r].at = "answering" =>
                                    asking'[r] = asking[r] \/ SawEarlier(rows, asking'[r])
      PROVE  LinesInv'
  BY <1>0, <1>1, <1>2
<1>3. ASSUME NEW r \in Inquiry, NEW q, Space!Goes(r, q)
      PROVE  DOMAIN asking' = Inquiry /\ asking'[r] = q /\ \A u \in Inquiry : u # r => asking'[u] = asking[u]
  BY <1>0, <1>3 DEF Space!Goes
\* A request that asks nobody.
<1>4. ASSUME NEW r \in Inquiry, NEW q, Space!Goes(r, q), q.at # "answering",
             UNCHANGED <<rows, spaces, conversations>>
      PROVE  LinesInv'
  BY <1>0, <1>2, <1>3, <1>4
<1>5. ASSUME UNCHANGED <<rows, spaces, conversations, asking>> PROVE LinesInv'
  BY <1>0, <1>2, <1>5
<1>6. ASSUME NEW c, NEW m \in Nat \ {0}
      PROVE  \A k \in Space!Context(c, m) : k \in 1..Len(rows) /\ k < m /\ rows[k].conversation = c
  BY <1>0 DEF Space!Context, Space!In
<1>7. Space!Idle.at # "answering"
  BY DEF Space!Idle
<1>8. ASSUME NEW r \in Inquiry, NEW c \in DOMAIN conversations, Space!Ask(r, c) PROVE LinesInv'
  <2>. DEFINE q == [at |-> "answering", conversation |-> c, row |-> 0,
                    saw |-> Space!Context(c, Len(rows) + 1)]
  <2>1. SawEarlier(rows, q)
    BY <1>0, <1>6 DEF SawEarlier, Before
  <2>2. Space!Goes(r, q) /\ UNCHANGED <<rows, spaces, conversations>>
    BY <1>8 DEF Space!Ask
  <2>. HIDE DEF q
  <2>. QED
    BY <1>0, <1>2, <1>3, <2>1, <2>2
<1>9. ASSUME NEW r \in Inquiry, NEW m \in DOMAIN rows, Space!Edit(r, m) PROVE LinesInv'
  <2>. DEFINE c == rows[m].conversation
              q == [at |-> "answering", conversation |-> c, row |-> m,
                    saw |-> IF rows[m].channel = "ask" THEN Space!Context(c, m) ELSE {}]
  <2>0. m \in 1..Len(rows) /\ c \in Nat
    BY <1>0 DEF Lines
  <2>3. \A k \in q.saw : k \in 1..Len(rows) /\ k < m /\ rows[k].conversation = c
    BY <1>6, <2>0
  <2>1. SawEarlier(rows, q)
    BY <1>0, <2>0, <2>3 DEF SawEarlier, Before
  <2>2. Space!Goes(r, q) /\ UNCHANGED <<rows, spaces, conversations>>
    BY <1>9 DEF Space!Edit, Space!ContextOfEdit
  <2>. HIDE DEF q
  <2>. QED
    BY <1>0, <1>2, <1>3, <2>1, <2>2
<1>10. ASSUME NEW row \in Lines, rows' = Append(rows, row),
              Before(rows, row.conversation, Len(rows) + 1, row.saw),
              UNCHANGED <<spaces, conversations>>,
              DOMAIN asking' = Inquiry,
              \A r \in Inquiry : asking'[r].at = "answering" => asking'[r] = asking[r]
       PROVE  LinesInv'
  <2>1. /\ rows' \in Seq(Lines) /\ Len(rows') = Len(rows) + 1 /\ rows'[Len(rows) + 1] = row
        /\ \A m \in 1..Len(rows) : rows'[m] = rows[m]
    BY <1>0, <1>10, AppendProperties
  <2>2. \A m \in 1..Len(rows') : m \in 1..Len(rows) \/ m = Len(rows) + 1
    BY <1>0, <2>1
  <2>. QED
    BY <1>0, <1>1, <1>10, <2>1, <2>2
<1>11. ASSUME NEW r \in Inquiry, Space!Answer(r) PROVE LinesInv'
  <2>. DEFINE q == asking[r]
              row == Space!Row(q.conversation, "ask", q.saw)
  <2>1. SawEarlier(rows, q) /\ q.row = 0 /\ Space!Goes(r, Space!Idle) /\ UNCHANGED <<spaces, conversations>>
    BY <1>0, <1>11 DEF Space!Answer
  <2>2. CASE rows' = rows
    BY <1>0, <1>4, <1>7, <2>1, <2>2
  <2>3. CASE rows' = Append(rows, row)
    <3>1. Before(rows, q.conversation, Len(rows) + 1, q.saw) /\ q.conversation \in Nat
      BY <2>1 DEF SawEarlier
    <3>2. q.saw \in SUBSET Nat
      BY <1>0, <3>1 DEF Before
    <3>3. row \in Lines /\ row.conversation = q.conversation /\ row.saw = q.saw
      BY <3>1, <3>2 DEF Space!Row, Lines
    <3>. HIDE DEF row
    <3>. QED
      BY <1>3, <1>7, <1>10, <2>1, <2>3, <3>1, <3>3
  <2>. QED
    BY <1>11, <2>2, <2>3 DEF Space!Answer
<1>12. ASSUME NEW c \in DOMAIN conversations, NEW over \in {"action", "echo"}, Space!Action(c, over)
       PROVE  LinesInv'
  <2>. DEFINE row == Space!Row(c, over, {})
  <2>1. rows' = Append(rows, row) /\ UNCHANGED <<spaces, conversations, asking>>
    BY <1>12 DEF Space!Action
  <2>2. row \in Lines /\ row.saw = {}
    BY <1>0 DEF Space!Row, Lines
  <2>3. Before(rows, row.conversation, Len(rows) + 1, row.saw)
    BY <2>2 DEF Before
  <2>. HIDE DEF row
  <2>. QED
    BY <1>0, <1>10, <2>1, <2>2, <2>3
<1>13. ASSUME rows' \in Seq(Lines), Len(rows') = Len(rows),
              \A m \in 1..Len(rows) : /\ rows'[m].conversation = rows[m].conversation
                                      /\ rows'[m].saw = rows[m].saw,
              spaces' \in Seq(Spaces), conversations' \in Seq(Talks), UNCHANGED asking
       PROVE  LinesInv'
  BY <1>0, <1>1, <1>13
<1>14. \A l \in Lines : /\ [l EXCEPT !.exists = FALSE] \in Lines
                        /\ [l EXCEPT !.exists = FALSE].conversation = l.conversation
                        /\ [l EXCEPT !.exists = FALSE].saw = l.saw
  BY DEF Lines
<1>15. ASSUME NEW m \in DOMAIN rows, Space!DeleteRow(m) PROVE LinesInv'
  <2>1. rows' = [rows EXCEPT ![m].exists = FALSE] /\ UNCHANGED <<spaces, conversations, asking>>
    BY <1>15 DEF Space!DeleteRow
  <2>2. rows' \in [1..Len(rows) -> Lines]
    BY <1>0, <1>14, <2>1
  <2>3. \A k \in 1..Len(rows) : /\ rows'[k].conversation = rows[k].conversation
                               /\ rows'[k].saw = rows[k].saw
    BY <1>0, <1>14, <2>1
  <2>. QED
    BY <1>0, <1>13, <2>1, <2>2, <2>3
<1>16. ASSUME NEW c \in DOMAIN conversations, Space!DeleteConversation(c) PROVE LinesInv'
  <2>1. /\ rows' = [m \in 1..Len(rows) |->
                      IF rows[m].conversation = c THEN [rows[m] EXCEPT !.exists = FALSE] ELSE rows[m]]
        /\ conversations' = [conversations EXCEPT ![c].exists = FALSE] /\ UNCHANGED <<spaces, asking>>
    BY <1>0, <1>16 DEF Space!DeleteConversation
  <2>2. rows' \in [1..Len(rows) -> Lines]
    BY <1>0, <1>14, <2>1
  <2>3. \A k \in 1..Len(rows) : /\ rows'[k].conversation = rows[k].conversation
                               /\ rows'[k].saw = rows[k].saw
    BY <1>0, <1>14, <2>1
  <2>4. spaces' \in Seq(Spaces) /\ conversations' \in Seq(Talks)
    <3>1. \A x \in Talks : [x EXCEPT !.exists = FALSE] \in Talks
      BY DEF Talks
    <3>2. conversations' \in [DOMAIN conversations -> Talks] /\ DOMAIN conversations = 1..Len(conversations)
      BY <1>0, <2>1, <3>1
    <3>. QED
      BY <1>0, <2>1, <3>2
  <2>. QED
    BY <1>0, <1>13, <2>1, <2>2, <2>3, <2>4
<1>17. ASSUME NEW r \in Inquiry, Space!Reanswer(r) PROVE LinesInv'
  <2>. DEFINE q == asking[r]
  <2>1. SawEarlier(rows, q) /\ q.row \in 1..Len(rows) /\ Space!Goes(r, Space!Idle) /\ UNCHANGED <<spaces, conversations>>
    BY <1>0, <1>17 DEF Space!Reanswer, SawEarlier
  <2>2. CASE rows' = rows
    BY <1>0, <1>4, <1>7, <2>1, <2>2
  <2>3. CASE rows' = [rows EXCEPT ![q.row].version = @ + 1, ![q.row].saw = q.saw]
    <3>1. Before(rows, q.conversation, q.row, q.saw) /\ rows[q.row].conversation = q.conversation
      BY <1>0, <2>1 DEF SawEarlier
    <3>2. q.saw \in SUBSET Nat
      BY <1>0, <3>1 DEF Before
    <3>3. /\ rows'[q.row] = [rows[q.row] EXCEPT !.version = @ + 1, !.saw = q.saw]
          /\ \A k \in 1..Len(rows) : k # q.row => rows'[k] = rows[k]
          /\ rows' = [k \in 1..Len(rows) |-> rows'[k]]
      BY <1>0, <2>1, <2>3
    <3>4. \A l \in Lines : /\ [l EXCEPT !.version = @ + 1] \in Lines
                           /\ [l EXCEPT !.version = @ + 1].conversation = l.conversation
      BY DEF Lines
    <3>5. \A l \in Lines : /\ [l EXCEPT !.saw = q.saw] \in Lines
                           /\ [l EXCEPT !.saw = q.saw].conversation = l.conversation
                           /\ [l EXCEPT !.saw = q.saw].saw = q.saw
      BY <3>2 DEF Lines
    <3>6. /\ rows'[q.row] \in Lines /\ rows'[q.row].saw = q.saw
          /\ rows'[q.row].conversation = rows[q.row].conversation
      <4>. DEFINE l == [rows[q.row] EXCEPT !.version = @ + 1]
      <4>1. l \in Lines /\ l.conversation = rows[q.row].conversation
        BY <1>0, <2>1, <3>4
      <4>2. rows'[q.row] = [l EXCEPT !.saw = q.saw]
        BY <3>3
      <4>. HIDE DEF l
      <4>. QED
        BY <3>5, <4>1, <4>2
    <3>9. rows' \in [1..Len(rows) -> Lines]
      BY <1>0, <3>3, <3>6
    <3>7. rows' \in Seq(Lines) /\ Len(rows') = Len(rows)
      <4>1. Len(rows) \in Nat
        BY <1>0
      <4>. QED
        BY <3>9, <4>1, TableIsSeq
    <3>8. \A m \in 1..Len(rows) : /\ rows'[m].conversation = rows[m].conversation
                                  /\ \/ rows'[m].saw = rows[m].saw
                                     \/ Before(rows, rows[m].conversation, m, rows'[m].saw)
      BY <3>1, <3>3, <3>6
    <3>. QED
      BY <1>0, <1>1, <1>3, <1>7, <2>1, <3>7, <3>8
  <2>. QED
    BY <1>17, <2>2, <2>3 DEF Space!Reanswer
<1>18. ASSUME NEW s \in DOMAIN spaces, Space!CreateConversation(s) PROVE LinesInv'
  <2>1. [space |-> s, exists |-> TRUE] \in Talks
    BY <1>0 DEF Talks
  <2>2. conversations' \in Seq(Talks) /\ UNCHANGED <<spaces, rows, asking>>
    BY <1>0, <1>18, <2>1, AppendProperties DEF Space!CreateConversation
  <2>. QED
    BY <1>0, <1>2, <2>2
<1>19. ASSUME NEW b \in BOOLEAN, Space!NewSpace(b) PROVE spaces' \in Seq(Spaces)
  <2>1. [default |-> b, status |-> "active"] \in Spaces
    BY DEF Spaces
  <2>. QED
    BY <1>0, <1>19, <2>1, AppendProperties DEF Space!NewSpace
<1>20. CASE Space!CreateSpace
  BY <1>0, <1>2, <1>19, <1>20 DEF Space!CreateSpace
<1>21. ASSUME NEW r \in Inquiry, Space!MakeDefault(r) PROVE LinesInv'
  <2>1. spaces' \in Seq(Spaces) /\ Space!Goes(r, Space!Idle) /\ UNCHANGED <<rows, conversations>>
    BY <1>19, <1>21 DEF Space!MakeDefault
  <2>. QED
    BY <1>0, <1>2, <1>3, <1>7, <2>1
<1>22. ASSUME NEW s \in DOMAIN spaces, NEW standing \in {"active", "archived", "deleted"},
              Space!UpdateSpace(s, standing)
       PROVE  LinesInv'
  <2>1. \A x \in Spaces : [x EXCEPT !.status = standing] \in Spaces
    BY DEF Spaces
  <2>2. /\ spaces' = [spaces EXCEPT ![s].status = standing] /\ UNCHANGED <<rows, conversations, asking>>
    BY <1>22 DEF Space!UpdateSpace
  <2>3. spaces' \in [1..Len(spaces) -> Spaces] /\ Len(spaces) \in Nat
    BY <1>0, <2>1, <2>2
  <2>4. spaces' \in Seq(Spaces)
    BY <1>0, <2>3
  <2>. QED
    BY <1>0, <1>2, <2>2, <2>4
<1>23. ASSUME NEW r \in Inquiry,
              \/ Space!NeedDefault(r) \/ Space!Promoted(r) \/ Space!Fails(r)
              \/ \E f \in DOMAIN favorites : Space!Promote(r, f)
       PROVE  LinesInv'
  <2>1. UNCHANGED <<rows, spaces, conversations>> /\ \E q : Space!Goes(r, q) /\ q.at # "answering"
    <3>1. [at |-> "default"].at # "answering"
      OBVIOUS
    <3>2. \A f : [at |-> "promoting", favorite |-> f].at # "answering"
      OBVIOUS
    <3>. QED
      BY <1>7, <1>23, <3>1, <3>2 DEF Space!NeedDefault, Space!Promoted, Space!Fails, Space!Promote
  <2>. QED
    BY <1>4, <2>1
<1>24. \A m, s, f : Space!Favor(m, s) \/ Space!DeleteFavorite(f) \/ UNCHANGED spaceVars
         => UNCHANGED <<rows, spaces, conversations, asking>>
  BY DEF Space!Favor, Space!DeleteFavorite, spaceVars
<1>. QED
  BY <1>5, <1>8, <1>9, <1>11, <1>12, <1>15, <1>16, <1>17, <1>18, <1>20, <1>21, <1>22, <1>23, <1>24
     DEF Space!Next

LEMMA CardsGoOn ==
  ASSUME CardsInv, LinesInv, LinesInv', [Space!Next]_spaceVars
  PROVE  CardsInv'
<1>. DEFINE Cards == [favorite : Nat, version : Nat]
<1>0. /\ favorites \in Seq(Favourites) /\ cards \in Seq(Cards) /\ DOMAIN asking = Inquiry
      /\ rows \in Seq(Lines) /\ rows' \in Seq(Lines) /\ DOMAIN asking' = Inquiry
      /\ DOMAIN favorites = 1..Len(favorites) /\ Len(favorites) \in Nat
      /\ DOMAIN cards = 1..Len(cards) /\ Len(cards) \in Nat
      /\ DOMAIN rows = 1..Len(rows) /\ spaces \in Seq(Spaces) /\ DOMAIN spaces = 1..Len(spaces)
  BY DEF CardsInv, LinesInv
<1>1. /\ \A f \in 1..Len(favorites) : favorites[f].promoted => HasCard(favorites, cards, f)
      /\ \A r \in Inquiry : asking[r].at = "promoting" =>
           /\ asking[r].favorite \in 1..Len(favorites)
           /\ HasCard(favorites, cards, asking[r].favorite)
      /\ \A f \in 1..Len(favorites) : favorites[f] \in Favourites
  <2>1. \A f \in 1..Len(favorites) : favorites[f] \in Favourites
    BY <1>0
  <2>2. \A f \in 1..Len(favorites) : favorites[f].promoted => HasCard(favorites, cards, f)
    BY <1>0 DEF CardsInv
  <2>3. \A r \in Inquiry : asking[r].at = "promoting" =>
           /\ asking[r].favorite \in 1..Len(favorites)
           /\ HasCard(favorites, cards, asking[r].favorite)
    BY <1>0 DEF CardsInv
  <2>. QED
    BY <2>1, <2>2, <2>3
<1>. HIDE DEF Favourites, Lines, Spaces, Cards
\* Favourites keep their version and cards stay; a mark and a promotion have a card.
<1>2. ASSUME favorites' \in Seq(Favourites), Len(favorites') >= Len(favorites),
             \A f \in 1..Len(favorites) : favorites'[f].version = favorites[f].version,
             cards' \in Seq(Cards), Len(cards') >= Len(cards),
             \A i \in 1..Len(cards) : cards'[i] = cards[i],
             \A f \in 1..Len(favorites') : favorites'[f].promoted =>
                 /\ f \in 1..Len(favorites)
                 /\ favorites[f].promoted \/ HasCard(favorites, cards, f),
             \A r \in Inquiry : asking'[r].at = "promoting" =>
                 \/ asking'[r] = asking[r]
                 \/ /\ asking'[r].favorite \in 1..Len(favorites)
                    /\ HasCard(favorites', cards', asking'[r].favorite)
      PROVE  CardsInv'
  <2>0. DOMAIN favorites' = 1..Len(favorites') /\ DOMAIN cards' = 1..Len(cards')
        /\ Len(favorites') \in Nat /\ Len(cards') \in Nat
    BY <1>2
  <2>1. ASSUME NEW f \in 1..Len(favorites), HasCard(favorites, cards, f)
        PROVE  HasCard(favorites', cards', f)
    <3>1. PICK i \in 1..Len(cards) : cards[i] = [favorite |-> f, version |-> favorites[f].version]
      BY <1>0, <2>1 DEF HasCard
    <3>2. i \in DOMAIN cards' /\ cards'[i] = [favorite |-> f, version |-> favorites'[f].version]
      BY <1>0, <1>2, <2>0, <3>1
    <3>. QED
      BY <3>2 DEF HasCard
  <2>2. \A f \in DOMAIN favorites' : favorites'[f].promoted => HasCard(favorites', cards', f)
    BY <1>1, <1>2, <2>0, <2>1
  <2>3. \A r \in Inquiry : asking'[r].at = "promoting" =>
           asking'[r].favorite \in DOMAIN favorites' /\ HasCard(favorites', cards', asking'[r].favorite)
    <3>1. \A f \in 1..Len(favorites) : f \in DOMAIN favorites'
      BY <1>0, <1>2, <2>0
    <3>. QED
      BY <1>1, <1>2, <2>1, <3>1
  <2>. QED
    BY <1>0, <1>2, <2>2, <2>3 DEF CardsInv, Cards
<1>3. ASSUME UNCHANGED <<favorites, cards>>,
             \A r \in Inquiry : asking'[r].at = "promoting" => asking'[r] = asking[r]
      PROVE  CardsInv'
  BY <1>0, <1>2, <1>3
<1>4. ASSUME NEW r \in Inquiry, NEW q, Space!Goes(r, q)
      PROVE  asking'[r] = q /\ \A u \in Inquiry : u # r => asking'[u] = asking[u]
  BY <1>0, <1>4 DEF Space!Goes
<1>5. Space!Idle.at # "promoting"
  BY DEF Space!Idle
<1>6. ASSUME NEW r \in Inquiry, NEW q, Space!Goes(r, q), q.at # "promoting", UNCHANGED <<favorites, cards>>
      PROVE  CardsInv'
  BY <1>3, <1>4, <1>6
<1>7. ASSUME NEW r \in Inquiry,
             \/ Space!NeedDefault(r) \/ Space!MakeDefault(r) \/ Space!Answer(r)
             \/ Space!Reanswer(r) \/ Space!Fails(r)
             \/ \E c \in DOMAIN conversations : Space!Ask(r, c)
             \/ \E m \in DOMAIN rows : Space!Edit(r, m)
      PROVE  CardsInv'
  <2>1. UNCHANGED <<favorites, cards>> /\ \E q : Space!Goes(r, q) /\ q.at # "promoting"
    <3>1. [at |-> "default"].at # "promoting"
      OBVIOUS
    <3>2. \A c, m, x : [at |-> "answering", conversation |-> c, row |-> m, saw |-> x].at # "promoting"
      OBVIOUS
    <3>3. CASE \E m \in DOMAIN rows : Space!Edit(r, m)
      <4>1. PICK m \in DOMAIN rows : Space!Edit(r, m)
        BY <3>3
      <4>. DEFINE x == IF rows[m].channel = "ask" THEN Space!ContextOfEdit(rows[m].conversation, m) ELSE {}
                  q == [at |-> "answering", conversation |-> rows[m].conversation, row |-> m, saw |-> x]
      <4>2. UNCHANGED <<favorites, cards>> /\ Space!Goes(r, q)
        BY <4>1 DEF Space!Edit
      <4>3. q.at # "promoting"
        BY <3>2
      <4>. QED
        BY <4>2, <4>3
    <3>. QED
      BY <1>5, <1>7, <3>1, <3>2, <3>3 DEF Space!NeedDefault, Space!MakeDefault, Space!Answer,
         Space!Reanswer, Space!Fails, Space!Ask
  <2>. QED
    BY <1>6, <2>1
<1>8. ASSUME NEW m \in DOMAIN rows, NEW s \in DOMAIN spaces, Space!Favor(m, s) PROVE CardsInv'
  <2>. DEFINE fav == [row |-> m, version |-> rows[m].version, space |-> s, exists |-> TRUE,
                      promoted |-> FALSE]
  <2>1. rows[m].version \in Nat /\ m \in Nat /\ s \in Nat
    <3>1. rows[m] \in Lines /\ m \in Nat
      BY <1>0
    <3>. QED
      BY <1>0, <3>1 DEF Lines
  <2>2. fav \in Favourites /\ ~fav.promoted
    BY <2>1 DEF Favourites
  <2>3. favorites' = Append(favorites, fav) /\ UNCHANGED <<cards, asking>>
    BY <1>8 DEF Space!Favor
  <2>. HIDE DEF fav
  <2>4. /\ favorites' \in Seq(Favourites) /\ Len(favorites') = Len(favorites) + 1
        /\ favorites'[Len(favorites) + 1] = fav
        /\ \A f \in 1..Len(favorites) : favorites'[f] = favorites[f]
    BY <1>0, <2>2, <2>3, AppendProperties
  <2>5. \A f \in 1..Len(favorites') : f \in 1..Len(favorites) \/ f = Len(favorites) + 1
    BY <1>0, <2>4
  <2>. QED
    BY <1>0, <1>2, <2>2, <2>3, <2>4, <2>5
<1>9. /\ \A x \in Favourites : /\ [x EXCEPT !.exists = FALSE] \in Favourites
                               /\ [x EXCEPT !.exists = FALSE].version = x.version
                               /\ [x EXCEPT !.exists = FALSE].promoted = x.promoted
      /\ \A x \in Favourites : /\ [x EXCEPT !.promoted = TRUE] \in Favourites
                               /\ [x EXCEPT !.promoted = TRUE].version = x.version
  BY DEF Favourites
<1>10. ASSUME NEW f \in DOMAIN favorites, Space!DeleteFavorite(f) PROVE CardsInv'
  <2>1. favorites' = [favorites EXCEPT ![f].exists = FALSE] /\ UNCHANGED <<cards, asking>>
    BY <1>10 DEF Space!DeleteFavorite
  <2>2. favorites' \in [1..Len(favorites) -> Favourites]
    BY <1>0, <1>1, <1>9, <2>1
  <2>3. ASSUME NEW g \in 1..Len(favorites)
        PROVE  favorites'[g].version = favorites[g].version /\ (favorites'[g].promoted => favorites[g].promoted)
    <3>1. CASE g = f
      <4>1. favorites'[g] = [favorites[g] EXCEPT !.exists = FALSE]
        BY <1>0, <2>1, <3>1
      <4>2. favorites'[g].version = favorites[g].version /\ favorites'[g].promoted = favorites[g].promoted
        BY <1>1, <1>9, <4>1
      <4>. QED
        BY <4>2
    <3>2. CASE g # f
      <4>1. favorites'[g] = favorites[g]
        BY <1>0, <2>1, <3>2
      <4>. QED
        BY <4>1
    <3>. QED
      BY <3>1, <3>2
  <2>4. favorites' \in Seq(Favourites) /\ Len(favorites') = Len(favorites)
    <3>1. Len(favorites) \in Nat
      BY <1>0
    <3>. QED
      BY <2>2, <3>1
  <2>. QED
    BY <1>0, <1>2, <2>1, <2>3, <2>4
<1>11. ASSUME NEW r \in Inquiry, Space!Promoted(r) PROVE CardsInv'
  <2>. DEFINE f == asking[r].favorite
  <2>1. /\ f \in 1..Len(favorites) /\ HasCard(favorites, cards, f)
        /\ Space!Goes(r, Space!Idle) /\ UNCHANGED cards
    BY <1>1, <1>11 DEF Space!Promoted
  <2>2. CASE favorites' = favorites
    BY <1>5, <1>6, <2>1, <2>2
  <2>3. CASE favorites' = [favorites EXCEPT ![f].promoted = TRUE]
    <3>1. favorites' \in [1..Len(favorites) -> Favourites]
      BY <1>0, <1>1, <1>9, <2>1, <2>3
    <3>2. \A g \in 1..Len(favorites) : /\ favorites'[g].version = favorites[g].version
                                       /\ g # f => favorites'[g] = favorites[g]
      BY <1>0, <1>1, <1>9, <2>1, <2>3
    <3>3. favorites' \in Seq(Favourites) /\ Len(favorites') = Len(favorites)
      BY <1>0, <3>1
    <3>. QED
      BY <1>0, <1>2, <1>4, <1>5, <2>1, <3>2, <3>3
  <2>. QED
    BY <1>11, <2>2, <2>3 DEF Space!Promoted
<1>12. ASSUME NEW r \in Inquiry, NEW f \in DOMAIN favorites, Space!Promote(r, f) PROVE CardsInv'
  <2>. DEFINE card == [favorite |-> f, version |-> favorites[f].version]
              q == [at |-> "promoting", favorite |-> f]
  <2>1. cards' = Append(cards, card) /\ Space!Goes(r, q) /\ UNCHANGED favorites /\ q.favorite = f
    BY <1>12 DEF Space!Promote
  <2>2. card \in Cards
    BY <1>0, <1>1 DEF Favourites, Cards
  <2>3. /\ cards' \in Seq(Cards) /\ Len(cards') = Len(cards) + 1 /\ cards'[Len(cards) + 1] = card
        /\ \A i \in 1..Len(cards) : cards'[i] = cards[i]
    BY <1>0, <2>1, <2>2, AppendProperties
  <2>4. HasCard(favorites', cards', f)
    <3>1. DOMAIN cards' = 1..(Len(cards) + 1) /\ Len(cards) + 1 \in DOMAIN cards'
      BY <1>0, <2>3
    <3>2. cards'[Len(cards) + 1] = [favorite |-> f, version |-> favorites'[f].version]
      BY <2>1, <2>3
    <3>. QED
      BY <3>1, <3>2 DEF HasCard
  <2>. HIDE DEF card, q
  <2>5. \A u \in Inquiry : u = r \/ asking'[u] = asking[u]
    BY <1>4, <2>1
  <2>6. asking'[r].favorite = f
    BY <1>4, <2>1
  <2>. QED
    BY <1>0, <1>2, <2>1, <2>3, <2>4, <2>5, <2>6
<1>13. CASE UNCHANGED <<favorites, cards, asking>>
  BY <1>3, <1>13
<1>14. \A c, m, s, x : \/ Space!CreateSpace \/ Space!CreateConversation(s) \/ Space!UpdateSpace(s, x)
                       \/ Space!DeleteConversation(c) \/ (\E over : Space!Action(c, over)) \/ Space!DeleteRow(m)
                       \/ UNCHANGED spaceVars
                     => UNCHANGED <<favorites, cards, asking>>
  BY DEF Space!CreateSpace, Space!CreateConversation, Space!UpdateSpace, Space!DeleteConversation,
         Space!Action, Space!DeleteRow, spaceVars
<1>. QED
  BY <1>7, <1>8, <1>10, <1>11, <1>12, <1>13, <1>14 DEF Space!Next

(* An edited or a new question is answered from earlier rows of its own     *)
(* conversation, and a favourite marked as promoted has a card of the       *)
(* version that was kept, whatever is deleted or edited while a request     *)
(* waits for its answer or stands between its two commits                   *)
(* (edit_chat_history_message, FavoriteService.promote_to_memory).          *)
THEOREM RowsAreKept == SpecAll => []RowsKept
<1>. DEFINE I == part = "workspace" => LinesInv /\ CardsInv
<1>1. InitAll => I
  BY SpaceBegins DEF InitAll
<1>2. I /\ [NextAll]_allVars => I'
  BY OneAtWork, LinesGoOn, CardsGoOn
<1>3. I => RowsKept
  <2>1. LinesInv => Space!ContextIsEarlier
    BY DEF LinesInv, Before, Space!ContextIsEarlier
  <2>2. CardsInv => Space!MarkedHasCard
    BY DEF CardsInv, HasCard, Space!MarkedHasCard
  <2>. QED
    BY <2>1, <2>2 DEF RowsKept
<1>. QED
  BY <1>1, <1>2, <1>3, PTL DEF SpecAll

=============================================================================
