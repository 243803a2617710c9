--------------------------- MODULE ContinuityProofs ---------------------------
(***************************************************************************)
(* Theorems about Continuity, for any processes, turns, editors, requests, *)
(* texts, runs, messages and configurations.  Each component has an        *)
(* inductive invariant of its own: FilesInv and Pages of the memory files, *)
(* CardsInv of the memory cards, SessionsInv and Quoted of the sessions.   *)
(***************************************************************************)
EXTENDS Continuity, SequenceTheorems, FiniteSetTheorems, TLAPS

-----------------------------------------------------------------------------
(***************************************************************************)
(* The memory files.                                                       *)
(***************************************************************************)

States  == {"open", "queued", "fanned", "waiting", "asking", "writing", "done", "lost"}
Early   == {"open", "queued", "fanned", "waiting"}   \* not taken in yet
Busy    == {"asking", "writing"}                     \* under the workspace lock
Entered == {"asking", "writing", "done", "lost"}

\* The form of the state, as far as the arguments below need it.
Shaped ==
    /\ turn \in [Run -> [at : States, on : Process \cup {None}]]
    /\ \A r \in Run : turn[r].at \notin {"open", "lost"} => turn[r].on \in Process
    /\ queue \in [Process -> Seq(Run)] /\ lock \in [Process -> Run \cup {None}]
    /\ buffer \in [Process -> [Conversation -> Seq(Run)]]
    /\ count \in [Process -> [Conversation -> Nat]]
    /\ window \in [Run -> SUBSET Run]
    /\ failed \subseteq Run /\ IsFiniteSet(failed)
    /\ history \subseteq Run /\ pending \subseteq Run

\* The bus hands a turn over once.
Queued ==
    \A p \in Process :
        /\ \A i \in DOMAIN queue[p] : turn[queue[p][i]].at = "queued" /\ turn[queue[p][i]].on = p
        /\ \A i, j \in DOMAIN queue[p] : queue[p][i] = queue[p][j] => i = j

\* A turn that is not taken in has weighed nothing, and no disk failed it.
Fresh == \A r \in Run : turn[r].at \in Early => window[r] = {} /\ r \notin failed

\* What a consolidation has in view, and what a buffer holds, was taken in.
Viewed == \A r \in Run : \A y \in window[r] : turn[y].at \in Entered

Buffered ==
    \A p \in Process, c \in Conversation :
        /\ Len(buffer[p][c]) = IF count[p][c] < BufferCap THEN count[p][c] ELSE BufferCap
        /\ \A y \in Elements(buffer[p][c]) :
              turn[y].on = p /\ ConversationOf[y] = c /\ turn[y].at \in Entered \ {"lost"}

\* The lock is held by a consolidation, and that one has the whole buffer in view.
Locked ==
    /\ \A p \in Process : lock[p] # None => turn[lock[p]].on = p /\ turn[lock[p]].at \in Busy
    /\ \A r \in Run : turn[r].at \in Busy =>
          /\ lock[turn[r].on] = r /\ r \notin failed /\ r \in window[r]
          /\ window[r] = Elements(buffer[turn[r].on][ConversationOf[r]])

\* A consolidation that ended shares no turn with another one, nor with a buffer.
Ended(r) == turn[r].at = "done" /\ r \notin failed /\ window[r] # {}

Parted ==
    /\ \A r \in Run : Ended(r) =>
          /\ r \in window[r]
          /\ \A p \in Process, c \in Conversation : window[r] \cap Elements(buffer[p][c]) = {}
    /\ \A r, x \in Run : r # x /\ Ended(r) /\ Ended(x) => window[r] \cap window[x] = {}

Recorded == \A r \in history \cup pending : turn[r].at \in {"writing", "done", "lost"}

Kept ==
    \A r \in Run \ Companion :
        turn[r].at = "done" =>
              \/ r \in Weighed
              \/ r \in Elements(buffer[turn[r].on][ConversationOf[r]])
              \/ r \in failed /\ window[r] = {}
              \/ Cardinality(BrokenOff(r)) > BufferCap - MinTurns

\* The older a turn in a buffer and the higher the count, the more broken off
\* consolidations had it in view, the one in hand included.
InHand(p, c) == IF lock[p] # None /\ ConversationOf[lock[p]] = c THEN 1 ELSE 0
Least(m, n)  == IF m < n THEN m ELSE n

Views ==
    \A p \in Process, c \in Conversation :
        count[p][c] >= MinTurns =>
            \A i \in DOMAIN buffer[p][c] :
                Cardinality(BrokenOff(buffer[p][c][i])) + InHand(p, c)
                    > Least(Len(buffer[p][c]) - i, count[p][c] - MinTurns)

FilesInv ==
    /\ Shaped /\ Queued /\ Fresh /\ Viewed /\ Buffered /\ Locked /\ Parted /\ Recorded
    /\ Kept /\ Views

-----------------------------------------------------------------------------
LEMMA FilesInit == Init => FilesInv
<1>. SUFFICES ASSUME Init PROVE FilesInv
  OBVIOUS
<1>1. /\ turn = [r \in Run |-> [at |-> "open", on |-> None]]
      /\ queue = [p \in Process |-> <<>>] /\ lock = [p \in Process |-> None]
      /\ buffer = [p \in Process |-> [c \in Conversation |-> <<>>]]
      /\ count = [p \in Process |-> [c \in Conversation |-> 0]]
      /\ window = [r \in Run |-> {}]
      /\ history = {} /\ pending = {} /\ failed = {}
  BY DEF Init
<1>2. /\ DOMAIN <<>> = {} /\ <<>> \in Seq(Run) /\ Len(<<>>) = 0 /\ Elements(<<>>) = {}
  BY EmptySeq DEF Elements
<1>3. Shaped
  BY <1>1, <1>2, FS_EmptySet DEF Shaped, States
<1>4. Queued /\ Fresh /\ Viewed /\ Recorded
  BY <1>1, <1>2 DEF Queued, Fresh, Viewed, Recorded
<1>5. Buffered
  BY <1>1, <1>2, FilesAssumption DEF Buffered
<1>6. Locked /\ Parted /\ Kept
  BY <1>1 DEF Locked, Busy, Parted, Ended, Kept
<1>7. Views
  BY <1>1, FilesAssumption DEF Views
<1>. QED
  BY <1>3, <1>4, <1>5, <1>6, <1>7 DEF FilesInv

\* What a step that gives a turn a new place does to the turns.
LEMMA TurnIs ==
  ASSUME turn \in [Run -> [at : States, on : Process \cup {None}]], NEW r \in Run, NEW a \in States,
         turn' = [turn EXCEPT ![r].at = a]
  PROVE  /\ turn' \in [Run -> [at : States, on : Process \cup {None}]]
         /\ turn'[r].at = a /\ turn'[r].on = turn[r].on
         /\ \A q \in Run \ {r} : turn'[q] = turn[q]
OBVIOUS

LEMMA CellIs ==
  ASSUME NEW P, NEW C, NEW V, NEW f \in [P -> [C -> V]], NEW p \in P, NEW c \in C, NEW v \in V,
         NEW g, g = [f EXCEPT ![p][c] = v]
  PROVE  /\ g \in [P -> [C -> V]] /\ g[p][c] = v
         /\ \A d \in C \ {c} : g[p][d] = f[p][d]
         /\ \A q \in P \ {p} : g[q] = f[q]
OBVIOUS

\* What is held of a buffer that one more turn joins: all, or all but the oldest.
LEMMA HeldIs ==
  ASSUME NEW b \in Seq(Run), NEW r \in Run, Len(b) <= BufferCap
  PROVE  LastOf(Append(b, r), BufferCap) =
            IF Len(b) = BufferCap THEN Append(Tail(b), r) ELSE Append(b, r)
<1>. DEFINE a == Append(b, r)
<1>1. a \in Seq(Run) /\ Len(a) = Len(b) + 1 /\ Len(b) \in Nat /\ a # <<>>
  BY AppendProperties, LenProperties
<1>2. Len(b) = BufferCap => b # <<>> /\ Tail(a) = Append(Tail(b), r)
  BY HeadTailAppend, EmptySeq, FilesAssumption
<1>. HIDE DEF a
<1>3. Tail(a) = SubSeq(a, 2, Len(a)) /\ a = SubSeq(a, 1, Len(a))
  BY <1>1, TailIsSubSeq, SubSeqFull
<1>4. CASE Len(b) = BufferCap
  <2>1. (IF Len(a) > BufferCap THEN Len(a) - BufferCap + 1 ELSE 1) = 2
    BY <1>1, <1>4, FilesAssumption
  <2>2. LastOf(a, BufferCap) = Tail(a)
    BY <1>3, <2>1 DEF LastOf
  <2>. QED
    BY <1>2, <1>4, <2>2 DEF a
<1>5. CASE Len(b) # BufferCap
  <2>1. (IF Len(a) > BufferCap THEN Len(a) - BufferCap + 1 ELSE 1) = 1
    BY <1>1, <1>5, FilesAssumption
  <2>2. LastOf(a, BufferCap) = a
    BY <1>3, <2>1 DEF LastOf
  <2>. QED
    BY <1>5, <2>2 DEF a
<1>. QED
  BY <1>4, <1>5

-----------------------------------------------------------------------------
(* The steps, one by one.                                                   *)

\* Steps of the worker, of the editors, and of a consolidation that writes.
LEMMA FilesStay ==
  ASSUME FilesInv, UNCHANGED <<turn, queue, lock, buffer, count, window, failed>>,
         history' \cup pending' \subseteq
            history \cup pending \cup {r \in Run : turn[r].at = "writing"}
  PROVE  FilesInv'
<1>1. \A y : BrokenOff(y)' = BrokenOff(y)
  BY DEF BrokenOff
<1>2. Shaped'
  BY DEF FilesInv, Shaped
<1>3. Queued' /\ Fresh' /\ Viewed' /\ Buffered' /\ Locked'
  BY DEF FilesInv, Queued, Fresh, Viewed, Buffered, Locked
<1>4. Parted'
  BY DEF FilesInv, Parted, Ended
<1>5. Recorded'
  BY DEF FilesInv, Recorded
<1>6. Kept'
  BY <1>1 DEF FilesInv, Kept, Weighed
<1>7. Views'
  BY <1>1 DEF FilesInv, Views, InHand
<1>. QED
  BY <1>2, <1>3, <1>4, <1>5, <1>6, <1>7 DEF FilesInv

\* A turn goes on that is not taken in before, and either not after or over.
LEMMA FilesMove ==
  ASSUME FilesInv, NEW r \in Run, UNCHANGED <<lock, buffer, count, window, history, pending>>,
         turn' \in [Run -> [at : States, on : Process \cup {None}]],
         \A q \in Run \ {r} : turn'[q] = turn[q],
         turn[r].at \in Early, turn'[r].at \in Early \cup {"done"},
         turn'[r].at # "open" => turn'[r].on \in Process,
         queue' \in [Process -> Seq(Run)], Queued',
         \/ failed' = failed /\ (turn'[r].at = "done" => r \in Companion)
         \/ failed' = failed \cup {r} /\ turn'[r].at = "done"
  PROVE  FilesInv'
<1>1. window[r] = {} /\ r \notin failed /\ \A x \in Run : r \notin window[x]
  BY DEF FilesInv, Fresh, Viewed, Early, Entered
<1>2. \A y : BrokenOff(y)' = BrokenOff(y)
  BY <1>1 DEF BrokenOff
<1>3. \A q \in Run : turn[q].at \in Entered => q # r /\ turn'[q] = turn[q]
  BY DEF Early, Entered
<1>4. Shaped'
  <2>1. IsFiniteSet(failed') /\ failed' \subseteq Run
    <3>1. IsFiniteSet(failed) /\ IsFiniteSet(failed \cup {r}) /\ failed \subseteq Run
      BY FS_AddElement DEF FilesInv, Shaped
    <3>. QED
      BY <3>1
  <2>2. \A q \in Run : turn'[q].at \notin {"open", "lost"} => turn'[q].on \in Process
    BY DEF FilesInv, Shaped, Early
  <2>. QED
    BY <2>1, <2>2 DEF FilesInv, Shaped
<1>5. Fresh'
  BY <1>1 DEF FilesInv, Fresh, Early
<1>6. Viewed'
  BY <1>3 DEF FilesInv, Viewed, Shaped
<1>7. Buffered'
  <2>1. \A p \in Process, c \in Conversation : \A y \in Elements(buffer[p][c]) :
            y \in Run /\ turn[y].at \in Entered
    BY LenProperties DEF FilesInv, Shaped, Buffered, Elements
  <2>2. \A p \in Process, c \in Conversation : \A y \in Elements(buffer[p][c]) :
            turn'[y] = turn[y]
    BY <1>3, <2>1
  <2>3. ASSUME NEW p \in Process, NEW c \in Conversation
        PROVE  /\ Len(buffer[p][c]) = IF count[p][c] < BufferCap THEN count[p][c] ELSE BufferCap
               /\ \A y \in Elements(buffer[p][c]) :
                    turn'[y].on = p /\ ConversationOf[y] = c /\ turn'[y].at \in Entered \ {"lost"}
    <3>1. /\ Len(buffer[p][c]) = IF count[p][c] < BufferCap THEN count[p][c] ELSE BufferCap
          /\ \A y \in Elements(buffer[p][c]) :
                turn[y].on = p /\ ConversationOf[y] = c /\ turn[y].at \in Entered \ {"lost"}
      BY DEF FilesInv, Buffered
    <3>. QED
      BY <2>2, <3>1
  <2>. QED
    BY <2>3 DEF Buffered
<1>8. Locked'
  <2>1. \A q \in Run : turn'[q].at \in Busy => q # r /\ turn'[q] = turn[q]
    BY DEF Busy, Early
  <2>2. \A p \in Process : lock[p] # None => turn'[lock[p]] = turn[lock[p]]
    BY <1>3 DEF FilesInv, Locked, Shaped, Busy, Entered
  <2>3. \A q \in Run : q # r => (q \in failed' <=> q \in failed)
    OBVIOUS
  <2>. QED
    BY <2>1, <2>2, <2>3 DEF FilesInv, Locked
<1>9. \A q \in Run : Ended(q)' <=> Ended(q)
  BY <1>1 DEF Ended
<1>10. Parted'
  BY <1>9 DEF FilesInv, Parted
<1>11. Recorded'
  BY <1>3 DEF FilesInv, Recorded, Shaped, Entered
<1>12. Kept'
  <2>1. ASSUME NEW y \in Weighed PROVE y \in Weighed'
    <3>1. PICK x \in Run : turn[x].at = "done" /\ x \notin failed /\ y \in window[x]
      BY DEF Weighed
    <3>2. x # r /\ turn'[x].at = "done" /\ x \notin failed' /\ y \in window'[x]
      BY <1>1, <3>1
    <3>. QED
      BY <3>2 DEF Weighed
  <2>2. ASSUME NEW q \in Run \ Companion, turn'[q].at = "done", q # r
        PROVE  \/ q \in Weighed'
               \/ q \in Elements(buffer'[turn'[q].on][ConversationOf[q]])
               \/ q \in failed' /\ window'[q] = {}
               \/ Cardinality(BrokenOff(q)') > BufferCap - MinTurns
    BY <1>2, <2>1, <2>2 DEF FilesInv, Kept
  <2>. QED
    BY <1>1, <2>2 DEF Kept
<1>13. Views'
  BY <1>2 DEF FilesInv, Views, InHand
<1>. QED
  BY <1>4, <1>5, <1>6, <1>7, <1>8, <1>10, <1>11, <1>12, <1>13 DEF FilesInv

LEMMA EnqueueKeeps ==
  ASSUME FilesInv, NEW r \in Run, NEW p \in Process, Enqueue(r, p)
  PROVE FilesInv'
<1>1. /\ turn[r].at = "open" /\ turn' = [turn EXCEPT ![r] = [at |-> "queued", on |-> p]]
      /\ queue' = [queue EXCEPT ![p] = Append(queue[p], r)]
      /\ UNCHANGED <<lock, buffer, count, window, history, pending, failed>>
  BY DEF Enqueue, files
<1>2. /\ turn' \in [Run -> [at : States, on : Process \cup {None}]]
      /\ turn'[r].at = "queued" /\ turn'[r].on = p /\ \A q \in Run \ {r} : turn'[q] = turn[q]
  BY <1>1 DEF FilesInv, Shaped, States
<1>3. /\ queue[p] \in Seq(Run) /\ queue'[p] = Append(queue[p], r)
      /\ queue' \in [Process -> Seq(Run)]
      /\ \A o \in Process \ {p} : queue'[o] = queue[o]
  BY <1>1, AppendProperties DEF FilesInv, Shaped
<1>4. /\ DOMAIN queue[p] = 1 .. Len(queue[p]) /\ Len(queue[p]) \in Nat
      /\ DOMAIN queue'[p] = 1 .. (Len(queue[p]) + 1)
      /\ \A i \in 1 .. Len(queue[p]) : queue'[p][i] = queue[p][i]
      /\ queue'[p][Len(queue[p]) + 1] = r
  BY <1>3, AppendProperties, LenProperties
<1>5. \A o \in Process : \A i \in DOMAIN queue[o] : queue[o][i] \in Run /\ queue[o][i] # r
  BY <1>1, LenProperties DEF FilesInv, Shaped, Queued
<1>6. Queued'
  <2>1. ASSUME NEW i \in DOMAIN queue'[p]
        PROVE  turn'[queue'[p][i]].at = "queued" /\ turn'[queue'[p][i]].on = p
    BY <1>2, <1>4, <1>5, <2>1 DEF FilesInv, Queued
  <2>2. ASSUME NEW i \in DOMAIN queue'[p], NEW j \in DOMAIN queue'[p], queue'[p][i] = queue'[p][j]
        PROVE  i = j
    BY <1>4, <1>5, <2>2 DEF FilesInv, Queued
  <2>3. ASSUME NEW o \in Process, o # p
        PROVE  /\ \A i \in DOMAIN queue'[o] :
                     turn'[queue'[o][i]].at = "queued" /\ turn'[queue'[o][i]].on = o
               /\ \A i, j \in DOMAIN queue'[o] : queue'[o][i] = queue'[o][j] => i = j
    <3>1. /\ queue'[o] = queue[o]
          /\ \A i \in DOMAIN queue[o] : turn'[queue[o][i]] = turn[queue[o][i]]
      BY <1>2, <1>3, <1>5, <2>3
    <3>2. /\ \A i \in DOMAIN queue[o] : turn[queue[o][i]].at = "queued" /\ turn[queue[o][i]].on = o
          /\ \A i, j \in DOMAIN queue[o] : queue[o][i] = queue[o][j] => i = j
      BY DEF FilesInv, Queued
    <3>. QED
      BY <3>1, <3>2
  <2>. QED
    BY <2>1, <2>2, <2>3 DEF Queued
<1>. QED
  BY <1>1, <1>2, <1>3, <1>6, FilesMove DEF Early

LEMMA DispatchKeeps == ASSUME FilesInv, NEW p \in Process, Dispatch(p) PROVE FilesInv'
<1>. DEFINE r == Head(queue[p])
            a == IF r \in Companion THEN "done" ELSE "fanned"
<1>1. /\ queue[p] # <<>> /\ turn' = [turn EXCEPT ![r].at = a]
      /\ queue' = [queue EXCEPT ![p] = Tail(queue[p])]
      /\ UNCHANGED <<lock, buffer, count, window, history, pending, failed>>
  BY DEF Dispatch, files
<1>2. /\ queue[p] \in Seq(Run) /\ Len(queue[p]) \in Nat /\ Len(queue[p]) > 0 /\ r = queue[p][1]
      /\ DOMAIN queue[p] = 1 .. Len(queue[p]) /\ r \in Run
  BY <1>1, EmptySeq, LenProperties, HeadTailProperties DEF FilesInv, Shaped
<1>3. /\ queue'[p] = Tail(queue[p]) /\ queue' \in [Process -> Seq(Run)]
      /\ \A o \in Process \ {p} : queue'[o] = queue[o]
  BY <1>1, HeadTailProperties DEF FilesInv, Shaped
<1>4. /\ DOMAIN queue'[p] = 1 .. (Len(queue[p]) - 1)
      /\ \A i \in 1 .. (Len(queue[p]) - 1) : queue'[p][i] = queue[p][i + 1]
  BY <1>1, <1>2, <1>3, HeadTailProperties, LenProperties
<1>5. turn[r].at = "queued" /\ turn[r].on = p
  BY <1>2 DEF FilesInv, Queued
<1>. HIDE DEF r
<1>6. /\ turn' \in [Run -> [at : States, on : Process \cup {None}]]
      /\ turn'[r].at = a /\ turn'[r].on = p /\ \A q \in Run \ {r} : turn'[q] = turn[q]
  <2>1. a \in States /\ turn \in [Run -> [at : States, on : Process \cup {None}]]
    BY DEF FilesInv, Shaped, States
  <2>. HIDE DEF a
  <2>. QED
    BY <1>1, <1>2, <1>5, <2>1, TurnIs
<1>7. Queued'
  <2>1. ASSUME NEW i \in DOMAIN queue'[p]
        PROVE  queue'[p][i] \in Run \ {r} /\ turn[queue'[p][i]].at = "queued"
               /\ turn[queue'[p][i]].on = p
    <3>1. i + 1 \in DOMAIN queue[p] /\ i + 1 # 1 /\ queue'[p][i] = queue[p][i + 1]
      BY <1>2, <1>4
    <3>. QED
      BY <1>2, <3>1, LenProperties DEF FilesInv, Queued
  <2>2. ASSUME NEW i \in DOMAIN queue'[p], NEW j \in DOMAIN queue'[p], queue'[p][i] = queue'[p][j]
        PROVE  i = j
    <3>1. /\ i + 1 \in DOMAIN queue[p] /\ queue'[p][i] = queue[p][i + 1] /\ i \in Int
          /\ j + 1 \in DOMAIN queue[p] /\ queue'[p][j] = queue[p][j + 1] /\ j \in Int
      BY <1>2, <1>4
    <3>2. queue[p][i + 1] = queue[p][j + 1]
      BY <2>2, <3>1
    <3>3. \A k, m \in DOMAIN queue[p] : queue[p][k] = queue[p][m] => k = m
      BY DEF FilesInv, Queued
    <3>4. i + 1 = j + 1
      BY <3>1, <3>2, <3>3
    <3>. QED
      BY <3>1, <3>4
  <2>3. ASSUME NEW o \in Process, o # p, NEW i \in DOMAIN queue[o]
        PROVE  queue[o][i] \in Run \ {r}
    BY <1>5, <2>3, LenProperties DEF FilesInv, Shaped, Queued
  <2>4. ASSUME NEW o \in Process
        PROVE  /\ \A i \in DOMAIN queue'[o] :
                     turn'[queue'[o][i]].at = "queued" /\ turn'[queue'[o][i]].on = o
               /\ \A i, j \in DOMAIN queue'[o] : queue'[o][i] = queue'[o][j] => i = j
    <3>1. CASE o = p
      BY <1>6, <2>1, <2>2, <3>1
    <3>2. CASE o # p
      <4>1. /\ queue'[o] = queue[o]
            /\ \A i \in DOMAIN queue[o] : turn'[queue[o][i]] = turn[queue[o][i]]
        BY <1>3, <1>6, <2>3, <3>2
      <4>2. /\ \A i \in DOMAIN queue[o] : turn[queue[o][i]].at = "queued" /\ turn[queue[o][i]].on = o
            /\ \A i, j \in DOMAIN queue[o] : queue[o][i] = queue[o][j] => i = j
        BY DEF FilesInv, Queued
      <4>. QED
        BY <4>1, <4>2
    <3>. QED
      BY <3>1, <3>2
  <2>. QED
    BY <2>4 DEF Queued
<1>. QED
  BY <1>1, <1>2, <1>3, <1>5, <1>6, <1>7, FilesMove DEF Early

\* The queue's turns are none of those that are past it.
LEMMA QueueStays ==
  ASSUME FilesInv, NEW r \in Run, UNCHANGED queue, turn[r].at # "queued",
         \A q \in Run \ {r} : turn'[q] = turn[q]
  PROVE  Queued'
<1>1. \A p \in Process : \A i \in DOMAIN queue[p] : queue[p][i] \in Run \ {r}
  BY LenProperties DEF FilesInv, Shaped, Queued
<1>. QED
  BY <1>1 DEF FilesInv, Queued

LEMMA EnsureKeeps ==
  ASSUME FilesInv, NEW r \in Run, EnsureWorkspace(r) \/ Refused(r)
  PROVE  FilesInv'
<1>1. PICK a \in {"waiting", "done"} :
         /\ turn[r].at \in {"fanned", "waiting"} /\ turn' = [turn EXCEPT ![r].at = a]
         /\ UNCHANGED <<queue, lock, buffer, count, window, history, pending>>
         /\ \/ a = "waiting" /\ failed' = failed
            \/ a = "done" /\ failed' = failed \cup {r}
  BY DEF EnsureWorkspace, Refused
<1>2. /\ turn' \in [Run -> [at : States, on : Process \cup {None}]]
      /\ turn'[r].at = a /\ turn'[r].on = turn[r].on
      /\ \A q \in Run \ {r} : turn'[q] = turn[q]
  BY <1>1, TurnIs DEF FilesInv, Shaped, States
<1>3. Queued'
  BY <1>1, <1>2, QueueStays
<1>4. turn[r].on \in Process /\ queue' \in [Process -> Seq(Run)]
  BY <1>1 DEF FilesInv, Shaped
<1>. QED
  BY <1>1, <1>2, <1>3, <1>4, FilesMove DEF Early


LEMMA BrokenFinite ==
  ASSUME FilesInv, NEW y
  PROVE IsFiniteSet(BrokenOff(y)) /\ Cardinality(BrokenOff(y)) \in Nat
<1>1. BrokenOff(y) \subseteq failed /\ IsFiniteSet(failed)
  BY DEF FilesInv, Shaped, BrokenOff
<1>. QED
  BY <1>1, FS_Subset, FS_CardinalityType

\* Turns in a buffer are turns that were taken in.
LEMMA InBuffer ==
  ASSUME FilesInv, NEW p \in Process, NEW c \in Conversation, NEW y \in Elements(buffer[p][c])
  PROVE  /\ y \in Run /\ turn[y].on = p /\ ConversationOf[y] = c
         /\ turn[y].at \in Entered \ {"lost"}
<1>1. buffer[p][c] \in Seq(Run)
  BY DEF FilesInv, Shaped
<1>2. y \in Run
  BY <1>1, LenProperties DEF Elements
<1>3. turn[y].on = p /\ ConversationOf[y] = c /\ turn[y].at \in Entered \ {"lost"}
  BY DEF FilesInv, Buffered
<1>. QED
  BY <1>2, <1>3

LEMMA ExtractKeeps == ASSUME FilesInv, NEW r \in Run, Extract(r) PROVE FilesInv'
<1>1. /\ turn[r].at = "asking" /\ turn' = [turn EXCEPT ![r].at = "writing"]
      /\ UNCHANGED <<queue, lock, buffer, count, window, history, pending, failed>>
  BY DEF Extract, files
<1>2. /\ turn' \in [Run -> [at : States, on : Process \cup {None}]]
      /\ turn'[r].at = "writing" /\ turn'[r].on = turn[r].on
      /\ \A q \in Run \ {r} : turn'[q] = turn[q]
  BY <1>1, TurnIs DEF FilesInv, Shaped, States
<1>3. /\ \A q \in Run : turn'[q].on = turn[q].on
      /\ \A q \in Run : turn'[q].at \in Busy <=> turn[q].at \in Busy
      /\ \A q \in Run : turn'[q].at = "done" <=> turn[q].at = "done"
      /\ \A q \in Run : turn[q].at \in Entered \ {"lost"} => turn'[q].at \in Entered \ {"lost"}
      /\ \A q \in Run : turn[q].at \in Entered => turn'[q].at \in Entered
      /\ \A q \in Run : turn'[q].at \in Early => turn[q].at \in Early
  BY <1>1, <1>2 DEF Busy, Entered, Early
<1>4. \A y : BrokenOff(y)' = BrokenOff(y)
  BY <1>1 DEF BrokenOff
<1>5. Shaped'
  BY <1>1, <1>2 DEF FilesInv, Shaped
<1>6. Queued'
  BY <1>1, <1>2, QueueStays
<1>7. Fresh' /\ Viewed'
  BY <1>1, <1>3 DEF FilesInv, Fresh, Viewed, Shaped
<1>8. Buffered'
  <2>1. ASSUME NEW p \in Process, NEW c \in Conversation
        PROVE  /\ Len(buffer[p][c]) = IF count[p][c] < BufferCap THEN count[p][c] ELSE BufferCap
               /\ \A y \in Elements(buffer[p][c]) :
                     turn'[y].on = p /\ ConversationOf[y] = c /\ turn'[y].at \in Entered \ {"lost"}
    <3>1. Len(buffer[p][c]) = IF count[p][c] < BufferCap THEN count[p][c] ELSE BufferCap
      BY DEF FilesInv, Buffered
    <3>. QED
      BY <1>3, <3>1, InBuffer
  <2>. QED
    BY <1>1, <2>1 DEF Buffered
<1>9. Locked'
  <2>1. \A p \in Process : lock[p] # None => lock[p] \in Run
    BY DEF FilesInv, Shaped
  <2>. QED
    BY <1>1, <1>3, <2>1 DEF FilesInv, Locked
<1>10. Parted'
  <2>1. \A q \in Run : Ended(q)' <=> Ended(q)
    BY <1>1, <1>3 DEF Ended
  <2>. QED
    BY <1>1, <2>1 DEF FilesInv, Parted
<1>11. Recorded'
  BY <1>1, <1>2 DEF FilesInv, Recorded, Shaped
<1>12. Kept'
  <2>1. Weighed' = Weighed
    BY <1>1, <1>3 DEF Weighed
  <2>. QED
    BY <1>1, <1>3, <1>4, <2>1 DEF FilesInv, Kept
<1>13. Views'
  BY <1>1, <1>4 DEF FilesInv, Views, InHand
<1>. QED
  BY <1>5, <1>6, <1>7, <1>8, <1>9, <1>10, <1>11, <1>12, <1>13 DEF FilesInv

LEMMA WriteKeeps == ASSUME FilesInv, NEW r \in Run, Write(r) PROVE FilesInv'
<1>1. /\ turn[r].at = "writing"
      /\ UNCHANGED <<turn, queue, lock, buffer, count, window, failed>>
  BY DEF Write
<1>2. history' \subseteq history \cup {r} /\ pending' \subseteq pending \cup {r}
  BY DEF Write
<1>. QED
  BY <1>1, <1>2, FilesStay

LEMMA RestKeeps ==
  ASSUME FilesInv,
         \/ \E p \in Process : StopWaiting(p)
         \/ \E e \in Editor, k \in Kinds : Open(e, k)
         \/ \E e \in Editor : Save(e)
         \/ UNCHANGED vars
  PROVE  FilesInv'
<1>1. UNCHANGED <<turn, queue, lock, buffer, count, window, failed, history, pending>>
  BY DEF StopWaiting, Open, Save, files, vars
<1>. QED
  BY <1>1, FilesStay

\* What is known of a consolidation at work.
LEMMA AtWork ==
  ASSUME FilesInv, NEW r \in Run, turn[r].at \in Busy
  PROVE  /\ turn[r].on \in Process /\ ConversationOf[r] \in Conversation
         /\ lock[turn[r].on] = r /\ r # None /\ r \notin failed /\ r \in window[r]
         /\ window[r] = Elements(buffer[turn[r].on][ConversationOf[r]])
         /\ \A q \in Run : q # r /\ turn[q].at \in Busy => turn[q].on # turn[r].on
         /\ \A o \in Process : o # turn[r].on => lock[o] # r
<1>1. turn[r].on \in Process
  BY DEF FilesInv, Shaped, Busy
<1>2. ConversationOf[r] \in Conversation /\ r # None
  BY FilesAssumption DEF Conversation, None
<1>3. /\ lock[turn[r].on] = r /\ r \notin failed /\ r \in window[r]
      /\ window[r] = Elements(buffer[turn[r].on][ConversationOf[r]])
      /\ \A q \in Run : turn[q].at \in Busy => lock[turn[q].on] = q
  BY DEF FilesInv, Locked
<1>4. \A o \in Process : lock[o] # None => turn[lock[o]].on = o
  BY DEF FilesInv, Locked
<1>. QED
  BY <1>1, <1>2, <1>3, <1>4

LEMMA WriteFailsKeeps == ASSUME FilesInv, NEW r \in Run, WriteFails(r) PROVE FilesInv'
<1>. DEFINE p == turn[r].on
            c == ConversationOf[r]
<1>1. /\ turn[r].at = "writing" /\ turn' = [turn EXCEPT ![r].at = "done"]
      /\ lock' = [lock EXCEPT ![p] = None] /\ failed' = failed \cup {r}
      /\ UNCHANGED <<queue, buffer, count, window, history, pending>>
  BY DEF WriteFails, files
<1>2. /\ turn' \in [Run -> [at : States, on : Process \cup {None}]]
      /\ turn'[r].at = "done" /\ turn'[r].on = p
      /\ \A q \in Run \ {r} : turn'[q] = turn[q]
  BY <1>1, TurnIs DEF FilesInv, Shaped, States
<1>3. /\ p \in Process /\ c \in Conversation /\ lock[p] = r /\ r # None /\ r \notin failed
      /\ r \in window[r] /\ window[r] = Elements(buffer[p][c])
      /\ \A q \in Run : q # r /\ turn[q].at \in Busy => turn[q].on # p
      /\ \A o \in Process : o # p => lock[o] # r
  BY <1>1, AtWork DEF Busy
<1>. HIDE DEF p, c
<1>4. /\ lock' \in [Process -> Run \cup {None}] /\ lock'[p] = None
      /\ \A o \in Process \ {p} : lock'[o] = lock[o]
  BY <1>1, <1>3 DEF FilesInv, Shaped
<1>5. /\ \A q \in Run : turn'[q].on = turn[q].on
      /\ \A q \in Run : turn'[q].at \in Busy => q # r /\ turn[q].at \in Busy
      /\ \A q \in Run : turn[q].at \in Entered \ {"lost"} => turn'[q].at \in Entered \ {"lost"}
      /\ \A q \in Run : turn[q].at \in Entered => turn'[q].at \in Entered
      /\ \A q \in Run : turn'[q].at \in Early => q # r /\ turn[q].at \in Early
  BY <1>1, <1>2 DEF Busy, Entered, Early, p
<1>6. \A y : BrokenOff(y)' = IF y \in window[r] THEN BrokenOff(y) \cup {r} ELSE BrokenOff(y)
  BY <1>1 DEF BrokenOff
<1>7. \A y : Cardinality(BrokenOff(y)') = IF y \in window[r] THEN Cardinality(BrokenOff(y)) + 1
                                                            ELSE Cardinality(BrokenOff(y))
  <2>1. ASSUME NEW y PROVE Cardinality(BrokenOff(y) \cup {r}) = Cardinality(BrokenOff(y)) + 1
    <3>1. r \notin BrokenOff(y) /\ IsFiniteSet(BrokenOff(y))
      BY <1>3, BrokenFinite DEF BrokenOff
    <3>. QED
      BY <3>1, FS_AddElement
  <2>. QED
    BY <1>6, <2>1
<1>8. Shaped'
  <2>1. IsFiniteSet(failed \cup {r}) /\ failed \cup {r} \subseteq Run
    BY FS_AddElement DEF FilesInv, Shaped
  <2>2. \A q \in Run : turn'[q].at \notin {"open", "lost"} => turn'[q].on \in Process
    BY <1>1, <1>2, <1>3 DEF FilesInv, Shaped
  <2>. QED
    BY <1>1, <1>2, <1>4, <2>1, <2>2 DEF FilesInv, Shaped
<1>9. Queued'
  BY <1>1, <1>2, QueueStays
<1>10. Fresh' /\ Viewed'
  BY <1>1, <1>5 DEF FilesInv, Fresh, Viewed, Shaped
<1>11. Buffered'
  <2>1. ASSUME NEW o \in Process, NEW d \in Conversation
        PROVE  /\ Len(buffer[o][d]) = IF count[o][d] < BufferCap THEN count[o][d] ELSE BufferCap
               /\ \A y \in Elements(buffer[o][d]) :
                     turn'[y].on = o /\ ConversationOf[y] = d /\ turn'[y].at \in Entered \ {"lost"}
    <3>1. Len(buffer[o][d]) = IF count[o][d] < BufferCap THEN count[o][d] ELSE BufferCap
      BY DEF FilesInv, Buffered
    <3>. QED
      BY <1>5, <3>1, InBuffer
  <2>. QED
    BY <1>1, <2>1 DEF Buffered
<1>12. Locked'
  <2>1. ASSUME NEW o \in Process, lock'[o] # None
        PROVE  turn'[lock'[o]].on = o /\ turn'[lock'[o]].at \in Busy
    <3>1. o # p /\ lock'[o] = lock[o] /\ lock[o] \in Run /\ lock[o] # r
      BY <1>3, <1>4, <2>1 DEF FilesInv, Shaped
    <3>2. turn[lock[o]].on = o /\ turn[lock[o]].at \in Busy
      BY <2>1, <3>1 DEF FilesInv, Locked
    <3>. QED
      BY <1>2, <3>1, <3>2
  <2>2. ASSUME NEW q \in Run, turn'[q].at \in Busy
        PROVE  /\ lock'[turn'[q].on] = q /\ q \notin failed' /\ q \in window'[q]
               /\ window'[q] = Elements(buffer'[turn'[q].on][ConversationOf[q]])
    <3>1. q # r /\ turn[q].at \in Busy /\ turn[q].on # p /\ turn'[q].on = turn[q].on
      BY <1>3, <1>5, <2>2
    <3>2. /\ turn[q].on \in Process /\ lock[turn[q].on] = q /\ q \notin failed /\ q \in window[q]
          /\ window[q] = Elements(buffer[turn[q].on][ConversationOf[q]])
      BY <3>1, AtWork
    <3>. QED
      BY <1>1, <1>4, <3>1, <3>2
  <2>. QED
    BY <2>1, <2>2 DEF Locked
<1>13. Parted'
  <2>1. \A q \in Run : Ended(q)' => Ended(q)
    BY <1>1, <1>2 DEF Ended
  <2>. QED
    BY <1>1, <2>1 DEF FilesInv, Parted
<1>14. Recorded'
  BY <1>1, <1>2 DEF FilesInv, Recorded, Shaped
<1>15. Kept'
  <2>1. ASSUME NEW y \in Weighed PROVE y \in Weighed'
    <3>1. PICK x \in Run : turn[x].at = "done" /\ x \notin failed /\ y \in window[x]
      BY DEF Weighed
    <3>2. x # r /\ turn'[x].at = "done" /\ x \notin failed' /\ y \in window'[x]
      BY <1>1, <1>2, <3>1
    <3>. QED
      BY <3>2 DEF Weighed
  <2>2. \A y : Cardinality(BrokenOff(y)) > BufferCap - MinTurns =>
                   Cardinality(BrokenOff(y)') > BufferCap - MinTurns
    <3>1. \A y : Cardinality(BrokenOff(y)) \in Nat
      BY BrokenFinite
    <3>. QED
      BY <1>7, <3>1, FilesAssumption
  <2>3. ASSUME NEW q \in Run \ Companion, turn'[q].at = "done"
        PROVE  \/ q \in Weighed'
               \/ q \in Elements(buffer'[turn'[q].on][ConversationOf[q]])
               \/ q \in failed' /\ window'[q] = {}
               \/ Cardinality(BrokenOff(q)') > BufferCap - MinTurns
    <3>1. CASE q = r
      BY <1>1, <1>2, <1>3, <3>1 DEF c
    <3>2. CASE q # r
      <4>1. \/ q \in Weighed
            \/ q \in Elements(buffer[turn[q].on][ConversationOf[q]])
            \/ q \in failed /\ window[q] = {}
            \/ Cardinality(BrokenOff(q)) > BufferCap - MinTurns
        BY <1>2, <2>3, <3>2 DEF FilesInv, Kept
      <4>. QED
        BY <1>1, <1>2, <2>1, <2>2, <3>2, <4>1
    <3>. QED
      BY <3>1, <3>2
  <2>. QED
    BY <2>3 DEF Kept
<1>16. Views'
  <2>1. ASSUME NEW o \in Process, NEW d \in Conversation, count[o][d] >= MinTurns,
               NEW i \in DOMAIN buffer[o][d]
        PROVE  Cardinality(BrokenOff(buffer[o][d][i])') + InHand(o, d)'
                    > Least(Len(buffer[o][d]) - i, count[o][d] - MinTurns)
    <3>. DEFINE least == Least(Len(buffer[o][d]) - i, count[o][d] - MinTurns)
    <3>1. PICK y : y = buffer[o][d][i] /\ y \in Elements(buffer[o][d])
      BY DEF Elements
    <3>2. Cardinality(BrokenOff(y)) + InHand(o, d) > least /\ Cardinality(BrokenOff(y)) \in Nat
      BY <2>1, <3>1, BrokenFinite DEF FilesInv, Views
    <3>3. least \in Int
      <4>1. Len(buffer[o][d]) \in Nat /\ i \in Int /\ count[o][d] \in Nat
        BY LenProperties DEF FilesInv, Shaped
      <4>. QED
        BY <4>1, FilesAssumption DEF Least
    <3>. HIDE DEF least
    <3>4. Cardinality(BrokenOff(y)') + InHand(o, d)' > least
      <4>1. CASE o = p /\ d = c
        <5>1. InHand(o, d) = 1 /\ InHand(o, d)' = 0
          BY <1>3, <1>4, <4>1 DEF InHand, c
        <5>2. Cardinality(BrokenOff(y)') = Cardinality(BrokenOff(y)) + 1
          BY <1>3, <1>7, <3>1, <4>1
        <5>. QED
          BY <3>2, <3>3, <5>1, <5>2
      <4>2. CASE ~(o = p /\ d = c)
        <5>1. InHand(o, d)' = InHand(o, d) /\ InHand(o, d) \in Nat
          BY <1>3, <1>4, <4>2 DEF InHand, c
        <5>2. Cardinality(BrokenOff(y)') >= Cardinality(BrokenOff(y))
              /\ Cardinality(BrokenOff(y)') \in Nat
          BY <1>7, <3>2
        <5>. QED
          BY <3>2, <3>3, <5>1, <5>2
      <4>. QED
        BY <4>1, <4>2
    <3>. QED
      BY <1>1, <3>1, <3>4 DEF least
  <2>. QED
    BY <1>1, <2>1 DEF Views
<1>. QED
  BY <1>8, <1>9, <1>10, <1>11, <1>12, <1>13, <1>14, <1>15, <1>16 DEF FilesInv


LEMMA CommittedKeeps == ASSUME FilesInv, NEW r \in Run, Committed(r) PROVE FilesInv'
<1>. DEFINE p == turn[r].on
            c == ConversationOf[r]
<1>1. /\ turn[r].at = "writing" /\ turn' = [turn EXCEPT ![r].at = "done"]
      /\ lock' = [lock EXCEPT ![p] = None] /\ count' = [count EXCEPT ![p][c] = 0]
      /\ buffer' = [buffer EXCEPT ![p][c] = <<>>]
      /\ UNCHANGED <<queue, window, history, pending, failed>>
  BY DEF Committed
<1>2. /\ turn' \in [Run -> [at : States, on : Process \cup {None}]]
      /\ turn'[r].at = "done" /\ turn'[r].on = p
      /\ \A q \in Run \ {r} : turn'[q] = turn[q]
  BY <1>1, TurnIs DEF FilesInv, Shaped, States
<1>3. /\ p \in Process /\ c \in Conversation /\ lock[p] = r /\ r # None /\ r \notin failed
      /\ r \in window[r] /\ window[r] = Elements(buffer[p][c])
      /\ \A q \in Run : q # r /\ turn[q].at \in Busy => turn[q].on # p
      /\ \A o \in Process : o # p => lock[o] # r
  BY <1>1, AtWork DEF Busy
<1>. HIDE DEF p, c
<1>4. /\ lock' \in [Process -> Run \cup {None}] /\ lock'[p] = None
      /\ \A o \in Process \ {p} : lock'[o] = lock[o]
  BY <1>1, <1>3 DEF FilesInv, Shaped
<1>5. /\ \A q \in Run : turn'[q].on = turn[q].on
      /\ \A q \in Run : turn'[q].at \in Busy => q # r /\ turn[q].at \in Busy
      /\ \A q \in Run : turn[q].at \in Entered \ {"lost"} => turn'[q].at \in Entered \ {"lost"}
      /\ \A q \in Run : turn[q].at \in Entered => turn'[q].at \in Entered
      /\ \A q \in Run : turn'[q].at \in Early => q # r /\ turn[q].at \in Early
  BY <1>1, <1>2 DEF Busy, Entered, Early, p
<1>6. /\ buffer' \in [Process -> [Conversation -> Seq(Run)]] /\ buffer'[p][c] = <<>>
      /\ \A d \in Conversation \ {c} : buffer'[p][d] = buffer[p][d]
      /\ \A o \in Process \ {p} : buffer'[o] = buffer[o]
  <2>1. <<>> \in Seq(Run) /\ buffer \in [Process -> [Conversation -> Seq(Run)]]
    BY EmptySeq DEF FilesInv, Shaped
  <2>. QED
    BY <1>1, <1>3, <2>1, CellIs
<1>7. /\ count' \in [Process -> [Conversation -> Nat]] /\ count'[p][c] = 0
      /\ \A d \in Conversation \ {c} : count'[p][d] = count[p][d]
      /\ \A o \in Process \ {p} : count'[o] = count[o]
  <2>1. 0 \in Nat /\ count \in [Process -> [Conversation -> Nat]]
    BY DEF FilesInv, Shaped
  <2>. QED
    BY <1>1, <1>3, <2>1, CellIs
<1>8. Elements(<<>>) = {} /\ Len(<<>>) = 0 /\ DOMAIN <<>> = {}
  BY EmptySeq DEF Elements
<1>9. \A y : BrokenOff(y)' = BrokenOff(y)
  BY <1>1 DEF BrokenOff
<1>10. Shaped'
  <2>1. \A q \in Run : turn'[q].at \notin {"open", "lost"} => turn'[q].on \in Process
    BY <1>1, <1>2, <1>3 DEF FilesInv, Shaped
  <2>. QED
    BY <1>1, <1>2, <1>4, <1>6, <1>7, <2>1 DEF FilesInv, Shaped
<1>11. Queued'
  BY <1>1, <1>2, QueueStays
<1>12. Fresh' /\ Viewed'
  BY <1>1, <1>5 DEF FilesInv, Fresh, Viewed, Shaped
<1>13. Buffered'
  <2>1. ASSUME NEW o \in Process, NEW d \in Conversation
        PROVE  /\ Len(buffer'[o][d]) = IF count'[o][d] < BufferCap THEN count'[o][d] ELSE BufferCap
               /\ \A y \in Elements(buffer'[o][d]) :
                     turn'[y].on = o /\ ConversationOf[y] = d /\ turn'[y].at \in Entered \ {"lost"}
    <3>1. CASE o = p /\ d = c
      BY <1>6, <1>7, <1>8, <3>1, FilesAssumption
    <3>2. CASE ~(o = p /\ d = c)
      <4>1. buffer'[o][d] = buffer[o][d] /\ count'[o][d] = count[o][d]
        BY <1>6, <1>7, <3>2
      <4>2. Len(buffer[o][d]) = IF count[o][d] < BufferCap THEN count[o][d] ELSE BufferCap
        BY DEF FilesInv, Buffered
      <4>. QED
        BY <1>5, <4>1, <4>2, InBuffer
    <3>. QED
      BY <3>1, <3>2
  <2>. QED
    BY <2>1 DEF Buffered
<1>14. Locked'
  <2>1. ASSUME NEW o \in Process, lock'[o] # None
        PROVE  turn'[lock'[o]].on = o /\ turn'[lock'[o]].at \in Busy
    <3>1. o # p /\ lock'[o] = lock[o] /\ lock[o] \in Run /\ lock[o] # r
      BY <1>3, <1>4, <2>1 DEF FilesInv, Shaped
    <3>2. turn[lock[o]].on = o /\ turn[lock[o]].at \in Busy
      BY <2>1, <3>1 DEF FilesInv, Locked
    <3>. QED
      BY <1>2, <3>1, <3>2
  <2>2. ASSUME NEW q \in Run, turn'[q].at \in Busy
        PROVE  /\ lock'[turn'[q].on] = q /\ q \notin failed' /\ q \in window'[q]
               /\ window'[q] = Elements(buffer'[turn'[q].on][ConversationOf[q]])
    <3>1. q # r /\ turn[q].at \in Busy /\ turn[q].on # p /\ turn'[q].on = turn[q].on
      BY <1>3, <1>5, <2>2
    <3>2. /\ turn[q].on \in Process /\ lock[turn[q].on] = q /\ q \notin failed /\ q \in window[q]
          /\ window[q] = Elements(buffer[turn[q].on][ConversationOf[q]])
      BY <3>1, AtWork
    <3>. QED
      BY <1>1, <1>4, <1>6, <3>1, <3>2
  <2>. QED
    BY <2>1, <2>2 DEF Locked
\* No other buffer has a turn of the window that closes.
<1>15. \A o \in Process, d \in Conversation :
          /\ Elements(buffer'[o][d]) \subseteq Elements(buffer[o][d])
          /\ window[r] \cap Elements(buffer'[o][d]) = {}
  <2>1. ASSUME NEW o \in Process, NEW d \in Conversation
        PROVE  /\ Elements(buffer'[o][d]) \subseteq Elements(buffer[o][d])
               /\ window[r] \cap Elements(buffer'[o][d]) = {}
    <3>1. CASE o = p /\ d = c
      BY <1>6, <1>8, <3>1
    <3>2. CASE ~(o = p /\ d = c)
      <4>1. buffer'[o][d] = buffer[o][d]
        BY <1>6, <3>2
      <4>2. ASSUME NEW y \in window[r] \cap Elements(buffer[o][d]) PROVE FALSE
        <5>1. turn[y].on = p /\ ConversationOf[y] = c
          BY <1>3, InBuffer
        <5>2. turn[y].on = o /\ ConversationOf[y] = d
          BY InBuffer
        <5>. QED
          BY <3>2, <5>1, <5>2
      <4>. QED
        BY <4>1, <4>2
    <3>. QED
      BY <3>1, <3>2
  <2>. QED
    BY <2>1
<1>16. Parted'
  <2>1. \A q \in Run : Ended(q)' => (q = r \/ Ended(q))
    BY <1>1, <1>2 DEF Ended
  <2>2. ASSUME NEW q \in Run, Ended(q)'
        PROVE  /\ q \in window[q]
               /\ \A o \in Process, d \in Conversation :
                     window[q] \cap Elements(buffer'[o][d]) = {}
    <3>1. CASE q = r
      BY <1>3, <1>15, <3>1
    <3>2. CASE q # r
      <4>1. /\ q \in window[q]
            /\ \A o \in Process, d \in Conversation : window[q] \cap Elements(buffer[o][d]) = {}
        BY <2>1, <2>2, <3>2 DEF FilesInv, Parted
      <4>. QED
        BY <1>15, <4>1
    <3>. QED
      BY <3>1, <3>2
  <2>3. \A q \in Run : Ended(q) => window[q] \cap window[r] = {}
    BY <1>3 DEF FilesInv, Parted
  <2>4. \A q, x \in Run : q # x /\ Ended(q) /\ Ended(x) => window[q] \cap window[x] = {}
    BY DEF FilesInv, Parted
  <2>5. \A q, x \in Run : q # x /\ Ended(q)' /\ Ended(x)' => window[q] \cap window[x] = {}
    BY <2>1, <2>3, <2>4
  <2>. QED
    BY <1>1, <2>2, <2>5 DEF Parted
<1>17. Recorded'
  BY <1>1, <1>2 DEF FilesInv, Recorded, Shaped
<1>18. Kept'
  <2>1. ASSUME NEW y \in Weighed PROVE y \in Weighed'
    <3>1. PICK x \in Run : turn[x].at = "done" /\ x \notin failed /\ y \in window[x]
      BY DEF Weighed
    <3>2. x # r /\ turn'[x].at = "done" /\ x \notin failed' /\ y \in window'[x]
      BY <1>1, <1>2, <3>1
    <3>. QED
      BY <3>2 DEF Weighed
  <2>2. window[r] \subseteq Weighed'
    BY <1>1, <1>2, <1>3 DEF Weighed
  <2>3. ASSUME NEW q \in Run \ Companion, turn'[q].at = "done"
        PROVE  \/ q \in Weighed'
               \/ q \in Elements(buffer'[turn'[q].on][ConversationOf[q]])
               \/ q \in failed' /\ window'[q] = {}
               \/ Cardinality(BrokenOff(q)') > BufferCap - MinTurns
    <3>1. CASE q = r
      BY <1>3, <2>2, <3>1
    <3>2. CASE q # r
      <4>1. \/ q \in Weighed
            \/ q \in Elements(buffer[turn[q].on][ConversationOf[q]])
            \/ q \in failed /\ window[q] = {}
            \/ Cardinality(BrokenOff(q)) > BufferCap - MinTurns
        BY <1>2, <2>3, <3>2 DEF FilesInv, Kept
      <4>2. turn[q].on \in Process /\ ConversationOf[q] \in Conversation /\ turn'[q].on = turn[q].on
        BY <1>2, <2>3, <3>2 DEF FilesInv, Shaped, Conversation
      <4>3. CASE turn[q].on = p /\ ConversationOf[q] = c
        BY <1>1, <1>3, <1>9, <2>1, <2>2, <4>1, <4>3
      <4>4. CASE ~(turn[q].on = p /\ ConversationOf[q] = c)
        <5>1. buffer'[turn[q].on][ConversationOf[q]] = buffer[turn[q].on][ConversationOf[q]]
          BY <1>6, <4>2, <4>4
        <5>. QED
          BY <1>1, <1>9, <2>1, <4>1, <4>2, <5>1
      <4>. QED
        BY <4>3, <4>4
    <3>. QED
      BY <3>1, <3>2
  <2>. QED
    BY <2>3 DEF Kept
<1>19. Views'
  <2>1. ASSUME NEW o \in Process, NEW d \in Conversation, count'[o][d] >= MinTurns
        PROVE  \A i \in DOMAIN buffer'[o][d] :
                 Cardinality(BrokenOff(buffer[o][d][i])') + InHand(o, d)'
                    > Least(Len(buffer'[o][d]) - i, count'[o][d] - MinTurns)
    <3>1. ~(o = p /\ d = c)
      BY <1>7, <2>1, FilesAssumption
    <3>2. buffer'[o][d] = buffer[o][d] /\ count'[o][d] = count[o][d]
      BY <1>6, <1>7, <3>1
    <3>3. InHand(o, d)' = InHand(o, d)
      BY <1>3, <1>4, <3>1 DEF InHand, c
    <3>4. \A i \in DOMAIN buffer[o][d] :
              Cardinality(BrokenOff(buffer[o][d][i])) + InHand(o, d)
                  > Least(Len(buffer[o][d]) - i, count[o][d] - MinTurns)
      BY <2>1, <3>2 DEF FilesInv, Views
    <3>. QED
      BY <1>9, <3>2, <3>3, <3>4
  <2>. QED
    BY <2>1 DEF Views
<1>. QED
  BY <1>10, <1>11, <1>12, <1>13, <1>14, <1>16, <1>17, <1>18, <1>19 DEF FilesInv

LEMMA CrashKeeps == ASSUME FilesInv, NEW p \in Process, Crash(p) PROVE FilesInv'
<1>. DEFINE gone(r) == /\ turn[r].on = p
                       /\ \/ turn[r].at # "done"
                          \/ r \in Elements(buffer[p][ConversationOf[r]])
<1>1. /\ turn' = [r \in Run |-> IF gone(r) THEN [at |-> "lost", on |-> None] ELSE turn[r]]
      /\ queue' = [queue EXCEPT ![p] = <<>>] /\ lock' = [lock EXCEPT ![p] = None]
      /\ buffer' = [buffer EXCEPT ![p] = [c \in Conversation |-> <<>>]]
      /\ count' = [count EXCEPT ![p] = [c \in Conversation |-> 0]]
      /\ UNCHANGED <<window, history, pending, failed>>
  BY DEF Crash, files
<1>2. /\ \A r \in Run : gone(r) => turn'[r] = [at |-> "lost", on |-> None]
      /\ \A r \in Run : ~gone(r) => turn'[r] = turn[r]
  BY <1>1
<1>3. /\ <<>> \in Seq(Run) /\ Elements(<<>>) = {} /\ Len(<<>>) = 0 /\ DOMAIN <<>> = {}
  BY EmptySeq DEF Elements
<1>4. /\ queue' \in [Process -> Seq(Run)] /\ queue'[p] = <<>>
      /\ \A o \in Process \ {p} : queue'[o] = queue[o]
      /\ lock' \in [Process -> Run \cup {None}] /\ lock'[p] = None
      /\ \A o \in Process \ {p} : lock'[o] = lock[o]
  BY <1>1, <1>3 DEF FilesInv, Shaped
<1>5. /\ buffer' \in [Process -> [Conversation -> Seq(Run)]]
      /\ \A c \in Conversation : buffer'[p][c] = <<>>
      /\ \A o \in Process \ {p} : buffer'[o] = buffer[o]
      /\ count' \in [Process -> [Conversation -> Nat]]
      /\ \A c \in Conversation : count'[p][c] = 0
      /\ \A o \in Process \ {p} : count'[o] = count[o]
  BY <1>1, <1>3 DEF FilesInv, Shaped
<1>6. \A r \in Run : turn'[r].at \notin {"lost"} => ~gone(r) /\ turn'[r] = turn[r]
  BY <1>2
<1>7. \A r \in Run : turn[r].on # p => turn'[r] = turn[r]
  BY <1>2
<1>8. \A r \in Run : turn[r].at \in Entered => turn'[r].at \in Entered
  BY <1>2 DEF Entered
<1>9. \A y : BrokenOff(y)' = BrokenOff(y)
  BY <1>1 DEF BrokenOff
<1>10. Shaped'
  <2>1. turn' \in [Run -> [at : States, on : Process \cup {None}]]
    BY <1>1 DEF FilesInv, Shaped, States
  <2>2. \A r \in Run : turn'[r].at \notin {"open", "lost"} => turn'[r].on \in Process
    BY <1>6 DEF FilesInv, Shaped
  <2>. QED
    BY <1>1, <1>4, <1>5, <2>1, <2>2 DEF FilesInv, Shaped
<1>11. Queued'
  <2>1. ASSUME NEW o \in Process
        PROVE  /\ \A i \in DOMAIN queue'[o] :
                     turn'[queue'[o][i]].at = "queued" /\ turn'[queue'[o][i]].on = o
               /\ \A i, j \in DOMAIN queue'[o] : queue'[o][i] = queue'[o][j] => i = j
    <3>1. CASE o = p
      BY <1>3, <1>4, <3>1
    <3>2. CASE o # p
      <4>1. /\ queue'[o] = queue[o]
            /\ \A i \in DOMAIN queue[o] : queue[o][i] \in Run
        BY <1>4, <3>2, LenProperties DEF FilesInv, Shaped
      <4>2. /\ \A i \in DOMAIN queue[o] : turn[queue[o][i]].at = "queued" /\ turn[queue[o][i]].on = o
            /\ \A i, j \in DOMAIN queue[o] : queue[o][i] = queue[o][j] => i = j
        BY DEF FilesInv, Queued
      <4>. QED
        BY <1>7, <3>2, <4>1, <4>2
    <3>. QED
      BY <3>1, <3>2
  <2>. QED
    BY <2>1 DEF Queued
<1>12. Fresh' /\ Viewed'
  <2>1. Fresh'
    BY <1>1, <1>6 DEF FilesInv, Fresh, Early
  <2>2. Viewed'
    BY <1>1, <1>8 DEF FilesInv, Viewed, Shaped
  <2>. QED
    BY <2>1, <2>2
<1>13. Buffered'
  <2>1. ASSUME NEW o \in Process, NEW d \in Conversation
        PROVE  /\ Len(buffer'[o][d]) = IF count'[o][d] < BufferCap THEN count'[o][d] ELSE BufferCap
               /\ \A y \in Elements(buffer'[o][d]) :
                     turn'[y].on = o /\ ConversationOf[y] = d /\ turn'[y].at \in Entered \ {"lost"}
    <3>1. CASE o = p
      BY <1>3, <1>5, <3>1, FilesAssumption
    <3>2. CASE o # p
      <4>1. buffer'[o][d] = buffer[o][d] /\ count'[o][d] = count[o][d]
        BY <1>5, <3>2
      <4>2. Len(buffer[o][d]) = IF count[o][d] < BufferCap THEN count[o][d] ELSE BufferCap
        BY DEF FilesInv, Buffered
      <4>3. \A y \in Elements(buffer[o][d]) :
                /\ y \in Run /\ turn[y].on = o /\ ConversationOf[y] = d
                /\ turn[y].at \in Entered \ {"lost"}
        BY InBuffer
      <4>. QED
        BY <1>7, <3>2, <4>1, <4>2, <4>3
    <3>. QED
      BY <3>1, <3>2
  <2>. QED
    BY <2>1 DEF Buffered
<1>14. Locked'
  <2>1. ASSUME NEW o \in Process, lock'[o] # None
        PROVE  turn'[lock'[o]].on = o /\ turn'[lock'[o]].at \in Busy
    <3>1. o # p /\ lock'[o] = lock[o] /\ lock[o] \in Run
      BY <1>4, <2>1 DEF FilesInv, Shaped
    <3>2. turn[lock[o]].on = o /\ turn[lock[o]].at \in Busy
      BY <2>1, <3>1 DEF FilesInv, Locked
    <3>. QED
      BY <1>7, <3>1, <3>2
  <2>2. ASSUME NEW q \in Run, turn'[q].at \in Busy
        PROVE  /\ lock'[turn'[q].on] = q /\ q \notin failed' /\ q \in window'[q]
               /\ window'[q] = Elements(buffer'[turn'[q].on][ConversationOf[q]])
    <3>1. turn'[q] = turn[q] /\ turn[q].at \in Busy /\ turn[q].on # p
      BY <1>6, <2>2 DEF Busy
    <3>2. /\ turn[q].on \in Process /\ lock[turn[q].on] = q /\ q \notin failed /\ q \in window[q]
          /\ window[q] = Elements(buffer[turn[q].on][ConversationOf[q]])
      BY <3>1, AtWork
    <3>. QED
      BY <1>1, <1>4, <1>5, <3>1, <3>2
  <2>. QED
    BY <2>1, <2>2 DEF Locked
<1>15. Parted'
  <2>1. \A q \in Run : Ended(q)' => Ended(q)
    BY <1>1, <1>6 DEF Ended
  <2>2. \A o \in Process, d \in Conversation : Elements(buffer'[o][d]) \subseteq Elements(buffer[o][d])
    BY <1>3, <1>5
  <2>3. /\ \A q \in Run : Ended(q) =>
             /\ q \in window[q]
             /\ \A o \in Process, d \in Conversation : window[q] \cap Elements(buffer[o][d]) = {}
        /\ \A q, x \in Run : q # x /\ Ended(q) /\ Ended(x) => window[q] \cap window[x] = {}
    BY DEF FilesInv, Parted
  <2>4. /\ \A q \in Run : Ended(q)' =>
             /\ q \in window[q]
             /\ \A o \in Process, d \in Conversation : window[q] \cap Elements(buffer'[o][d]) = {}
        /\ \A q, x \in Run : q # x /\ Ended(q)' /\ Ended(x)' => window[q] \cap window[x] = {}
    BY <2>1, <2>2, <2>3
  <2>. QED
    BY <1>1, <2>4 DEF Parted
<1>16. Recorded'
  <2>1. \A r \in Run : turn'[r].at \in {turn[r].at, "lost"}
    BY <1>2
  <2>. QED
    BY <1>1, <2>1 DEF FilesInv, Recorded, Shaped
<1>17. Kept'
  <2>1. ASSUME NEW y \in Weighed PROVE y \in Weighed'
    <3>1. PICK x \in Run : turn[x].at = "done" /\ x \notin failed /\ y \in window[x]
      BY DEF Weighed
    <3>2. Ended(x) /\ ConversationOf[x] \in Conversation
      BY <3>1 DEF Ended, Conversation
    <3>3. x \notin Elements(buffer[p][ConversationOf[x]])
      BY <3>2 DEF FilesInv, Parted
    <3>4. turn'[x] = turn[x]
      BY <1>2, <3>1, <3>3
    <3>. QED
      BY <1>1, <3>1, <3>4 DEF Weighed
  <2>2. ASSUME NEW q \in Run \ Companion, turn'[q].at = "done"
        PROVE  \/ q \in Weighed'
               \/ q \in Elements(buffer'[turn'[q].on][ConversationOf[q]])
               \/ q \in failed' /\ window'[q] = {}
               \/ Cardinality(BrokenOff(q)') > BufferCap - MinTurns
    <3>1. ~gone(q) /\ turn'[q] = turn[q]
      BY <1>6, <2>2
    <3>2. \/ q \in Weighed
          \/ q \in Elements(buffer[turn[q].on][ConversationOf[q]])
          \/ q \in failed /\ window[q] = {}
          \/ Cardinality(BrokenOff(q)) > BufferCap - MinTurns
      BY <2>2, <3>1 DEF FilesInv, Kept
    <3>3. turn[q].on \in Process
      BY <2>2, <3>1 DEF FilesInv, Shaped
    <3>4. q \in Elements(buffer[turn[q].on][ConversationOf[q]]) =>
             buffer'[turn[q].on] = buffer[turn[q].on]
      BY <1>5, <3>1, <3>3
    <3>. QED
      BY <1>1, <1>9, <2>1, <3>1, <3>2, <3>4
  <2>. QED
    BY <2>2 DEF Kept
<1>18. Views'
  <2>1. ASSUME NEW o \in Process, NEW d \in Conversation, count'[o][d] >= MinTurns
        PROVE  \A i \in DOMAIN buffer'[o][d] :
                 Cardinality(BrokenOff(buffer[o][d][i])') + InHand(o, d)'
                    > Least(Len(buffer'[o][d]) - i, count'[o][d] - MinTurns)
    <3>1. o # p
      BY <1>5, <2>1, FilesAssumption
    <3>2. buffer'[o][d] = buffer[o][d] /\ count'[o][d] = count[o][d]
      BY <1>5, <3>1
    <3>3. InHand(o, d)' = InHand(o, d)
      BY <1>4, <3>1 DEF InHand
    <3>4. \A i \in DOMAIN buffer[o][d] :
              Cardinality(BrokenOff(buffer[o][d][i])) + InHand(o, d)
                  > Least(Len(buffer[o][d]) - i, count[o][d] - MinTurns)
      BY <2>1, <3>2 DEF FilesInv, Views
    <3>. QED
      BY <1>9, <3>2, <3>3, <3>4
  <2>. QED
    BY <2>1 DEF Views
<1>. QED
  BY <1>10, <1>11, <1>12, <1>13, <1>14, <1>15, <1>16, <1>17, <1>18 DEF FilesInv


LEMMA LeastUp ==
  ASSUME NEW x \in Int, NEW y \in Int
  PROVE  Least(x + 1, y + 1) = Least(x, y) + 1 /\ Least(x, y) \in Int
BY DEF Least

LEMMA TakeInKeeps == ASSUME FilesInv, NEW r \in Run, TakeIn(r) PROVE FilesInv'
<1>. DEFINE p == turn[r].on
            c == ConversationOf[r]
            b == buffer[p][c]
            n == count[p][c]
            held == LastOf(Append(b, r), BufferCap)
            full == n + 1 >= MinTurns
            drop == IF Len(b) = BufferCap THEN 1 ELSE 0
<1>1. /\ turn[r].at = "waiting" /\ lock[p] = None
      /\ turn' = [turn EXCEPT ![r].at = IF full THEN "asking" ELSE "done"]
      /\ lock' = [lock EXCEPT ![p] = IF full THEN r ELSE None]
      /\ buffer' = [buffer EXCEPT ![p][c] = held] /\ count' = [count EXCEPT ![p][c] = n + 1]
      /\ window' = [window EXCEPT ![r] = IF full THEN Elements(held) ELSE {}]
      /\ UNCHANGED <<queue, history, pending, failed>>
  BY DEF TakeIn
<1>2. p \in Process /\ c \in Conversation /\ r # None /\ r \in Run
  BY <1>1, FilesAssumption DEF FilesInv, Shaped, Conversation, None
<1>3. b \in Seq(Run) /\ n \in Nat /\ Len(b) \in Nat /\ DOMAIN b = 1 .. Len(b)
  BY <1>2, LenProperties DEF FilesInv, Shaped
<1>4. Len(b) = IF n < BufferCap THEN n ELSE BufferCap
  BY <1>2 DEF FilesInv, Buffered
<1>5. /\ held \in Seq(Run) /\ Len(held) = Len(b) + 1 - drop
      /\ held[Len(held)] = r /\ drop \in {0, 1}
      /\ \A i \in 1 .. Len(held) : i # Len(held) => held[i] = b[i + drop]
      /\ DOMAIN held = 1 .. Len(held) /\ Len(held) \in Nat \ {0}
  <2>1. BufferCap \in Nat \ {0} /\ Len(b) <= BufferCap
    BY <1>3, <1>4, FilesAssumption
  <2>. HIDE DEF b
  <2>2. held = IF Len(b) = BufferCap THEN Append(Tail(b), r) ELSE Append(b, r)
    BY <1>2, <1>3, <2>1, HeldIs
  <2>3. (Len(b) # BufferCap => drop = 0) /\ (Len(b) = BufferCap => drop = 1)
    OBVIOUS
  <2>. HIDE DEF held, drop
  <2>4. PICK s \in Seq(Run) : /\ held = Append(s, r) /\ Len(s) = Len(b) - drop
                              /\ \A i \in 1 .. Len(s) : s[i] = b[i + drop]
    <3>1. CASE Len(b) = BufferCap
      <4>1. b # <<>>
        BY <2>1, <3>1, EmptySeq
      <4>2. /\ Tail(b) \in Seq(Run) /\ Len(Tail(b)) = Len(b) - 1
            /\ \A i \in 1 .. Len(Tail(b)) : Tail(b)[i] = b[i + 1]
        BY <1>3, <4>1, HeadTailProperties
      <4>. QED
        BY <2>2, <2>3, <3>1, <4>2
    <3>2. CASE Len(b) # BufferCap
      <4>1. Len(b) - drop = Len(b) /\ \A i \in 1 .. Len(b) : i + drop = i
        BY <1>3, <2>3, <3>2
      <4>. QED
        BY <1>3, <2>2, <3>2, <4>1
    <3>. QED
      BY <3>1, <3>2
  <2>5. /\ held \in Seq(Run) /\ Len(held) = Len(s) + 1 /\ Len(s) \in Nat
        /\ \A i \in 1 .. Len(s) : held[i] = s[i]
        /\ held[Len(s) + 1] = r /\ DOMAIN held = 1 .. Len(held)
    BY <1>2, <2>4, AppendProperties, LenProperties
  <2>6. Len(held) = Len(b) + 1 - drop /\ drop \in {0, 1}
    BY <1>3, <2>3, <2>4, <2>5
  <2>7. \A i \in 1 .. Len(held) : i # Len(held) => held[i] = b[i + drop]
    BY <2>4, <2>5
  <2>. QED
    BY <2>5, <2>6, <2>7
<1>. HIDE DEF p, c, b, n, held
<1>6. /\ \A y \in Elements(held) : y = r \/ y \in Elements(b)
      /\ r \in Elements(held)
      /\ \A y \in Elements(b) : y \in Elements(held) \/ (drop = 1 /\ y = b[1])
  <2>1. ASSUME NEW i \in 1 .. Len(held) PROVE held[i] = r \/ held[i] \in Elements(b)
    <3>1. CASE i = Len(held)
      BY <1>5, <3>1
    <3>2. CASE i # Len(held)
      <4>1. i + drop \in 1 .. Len(b) /\ held[i] = b[i + drop]
        BY <1>3, <1>5, <3>2
      <4>. QED
        BY <1>3, <4>1 DEF Elements
    <3>. QED
      BY <3>1, <3>2
  <2>2. Len(held) \in DOMAIN held /\ held[Len(held)] = r
    BY <1>5
  <2>3. ASSUME NEW i \in 1 .. Len(b) PROVE b[i] \in Elements(held) \/ (drop = 1 /\ i = 1)
    <3>1. CASE i - drop >= 1
      <4>1. /\ i - drop \in 1 .. Len(held) /\ i - drop # Len(held)
            /\ (i - drop) + drop = i
        BY <1>3, <1>5, <3>1
      <4>2. held[i - drop] = b[i]
        BY <1>5, <4>1
      <4>. QED
        BY <1>5, <4>1, <4>2 DEF Elements
    <3>2. CASE ~(i - drop >= 1)
      BY <3>2
    <3>. QED
      BY <3>1, <3>2
  <2>. QED
    <3>1. \A y \in Elements(held) : y = r \/ y \in Elements(b)
      BY <1>5, <2>1 DEF Elements
    <3>2. r \in Elements(held)
      BY <2>2 DEF Elements
    <3>3. \A y \in Elements(b) : y \in Elements(held) \/ (drop = 1 /\ y = b[1])
      <4>1. ASSUME NEW y \in Elements(b) PROVE y \in Elements(held) \/ (drop = 1 /\ y = b[1])
        <5>1. PICK i \in 1 .. Len(b) : y = b[i]
          BY <1>3 DEF Elements
        <5>. QED
          BY <2>3, <5>1
      <4>. QED
        BY <4>1
    <3>. QED
      BY <3>1, <3>2, <3>3
<1>7. \A y \in Elements(b) : y \in Run /\ y # r /\ turn[y].on = p /\ ConversationOf[y] = c
                             /\ turn[y].at \in Entered \ {"lost"}
  BY <1>1, <1>2, InBuffer DEF b, Entered
<1>8. /\ turn' \in [Run -> [at : States, on : Process \cup {None}]]
      /\ turn'[r].at = IF full THEN "asking" ELSE "done"
      /\ turn'[r].on = p
      /\ \A q \in Run \ {r} : turn'[q] = turn[q]
  <2>. DEFINE a == IF full THEN "asking" ELSE "done"
  <2>1. a \in States /\ turn \in [Run -> [at : States, on : Process \cup {None}]]
    BY DEF FilesInv, Shaped, States
  <2>2. turn' = [turn EXCEPT ![r].at = a]
    BY <1>1
  <2>. HIDE DEF a
  <2>3. /\ turn' \in [Run -> [at : States, on : Process \cup {None}]]
        /\ turn'[r].at = a /\ turn'[r].on = turn[r].on
        /\ \A q \in Run \ {r} : turn'[q] = turn[q]
    BY <2>1, <2>2, TurnIs
  <2>. QED
    BY <2>3 DEF a, p
<1>9. /\ lock' \in [Process -> Run \cup {None}]
      /\ lock'[p] = IF full THEN r ELSE None
      /\ \A o \in Process \ {p} : lock'[o] = lock[o]
  BY <1>1, <1>2 DEF FilesInv, Shaped
<1>10. /\ buffer' \in [Process -> [Conversation -> Seq(Run)]] /\ buffer'[p][c] = held
       /\ \A d \in Conversation \ {c} : buffer'[p][d] = buffer[p][d]
       /\ \A o \in Process \ {p} : buffer'[o] = buffer[o]
  <2>1. buffer \in [Process -> [Conversation -> Seq(Run)]]
    BY DEF FilesInv, Shaped
  <2>. QED
    BY <1>1, <1>2, <1>5, <2>1, CellIs
<1>11. /\ count' \in [Process -> [Conversation -> Nat]] /\ count'[p][c] = n + 1
       /\ \A d \in Conversation \ {c} : count'[p][d] = count[p][d]
       /\ \A o \in Process \ {p} : count'[o] = count[o]
  <2>1. n + 1 \in Nat /\ count \in [Process -> [Conversation -> Nat]]
    BY <1>3 DEF FilesInv, Shaped
  <2>. QED
    BY <1>1, <1>2, <2>1, CellIs
<1>12. /\ window' \in [Run -> SUBSET Run]
       /\ window'[r] = IF full THEN Elements(held) ELSE {}
       /\ \A q \in Run \ {r} : window'[q] = window[q]
  <2>1. Elements(held) \subseteq Run
    BY <1>6, <1>7
  <2>. QED
    BY <1>1, <2>1 DEF FilesInv, Shaped
<1>13. window[r] = {} /\ r \notin failed /\ \A x \in Run : r \notin window[x]
  BY <1>1 DEF FilesInv, Fresh, Viewed, Early, Entered
<1>14. \A y : BrokenOff(y)' = BrokenOff(y)
  <2>1. \A x \in failed : x \in Run /\ x # r
    BY <1>13 DEF FilesInv, Shaped
  <2>. QED
    BY <1>1, <1>12, <2>1 DEF BrokenOff
<1>15. Shaped'
  <2>1. \A q \in Run : turn'[q].at \notin {"open", "lost"} => turn'[q].on \in Process
    BY <1>2, <1>8 DEF FilesInv, Shaped
  <2>. QED
    BY <1>1, <1>8, <1>9, <1>10, <1>11, <1>12, <2>1 DEF FilesInv, Shaped
<1>16. Queued'
  BY <1>1, <1>8, QueueStays
<1>17. Fresh'
  <2>1. \A q \in Run : turn'[q].at \in Early => q # r
    BY <1>8 DEF Early
  <2>. QED
    BY <1>1, <1>8, <1>12, <2>1 DEF FilesInv, Fresh
<1>18. Viewed'
  <2>1. ASSUME NEW q \in Run, NEW y \in window'[q] PROVE turn'[y].at \in Entered
    <3>1. CASE q = r
      <4>1. y = r \/ y \in Elements(b)
        BY <1>6, <1>12, <2>1, <3>1
      <4>2. CASE y = r
        BY <1>8, <4>2 DEF Entered
      <4>3. CASE y \in Elements(b)
        BY <1>7, <1>8, <4>3
      <4>. QED
        BY <4>1, <4>2, <4>3
    <3>2. CASE q # r
      <4>1. y \in window[q] /\ y # r /\ y \in Run
        BY <1>12, <1>13, <2>1, <3>2 DEF FilesInv, Shaped
      <4>. QED
        BY <1>8, <4>1 DEF FilesInv, Viewed
    <3>. QED
      BY <3>1, <3>2
  <2>. QED
    BY <2>1 DEF Viewed
<1>19. Buffered'
  <2>1. ASSUME NEW o \in Process, NEW d \in Conversation
        PROVE  /\ Len(buffer'[o][d]) = IF count'[o][d] < BufferCap THEN count'[o][d] ELSE BufferCap
               /\ \A y \in Elements(buffer'[o][d]) :
                     turn'[y].on = o /\ ConversationOf[y] = d /\ turn'[y].at \in Entered \ {"lost"}
    <3>1. CASE o = p /\ d = c
      <4>1. Len(held) = IF n + 1 < BufferCap THEN n + 1 ELSE BufferCap
        BY <1>3, <1>4, <1>5, FilesAssumption
      <4>2. turn'[r].on = p /\ ConversationOf[r] = c /\ turn'[r].at \in Entered \ {"lost"}
        BY <1>8 DEF Entered, c
      <4>3. \A y \in Elements(b) : turn'[y] = turn[y]
        BY <1>7, <1>8
      <4>4. \A y \in Elements(held) :
               turn'[y].on = p /\ ConversationOf[y] = c /\ turn'[y].at \in Entered \ {"lost"}
        BY <1>6, <1>7, <4>2, <4>3
      <4>. QED
        BY <1>10, <1>11, <3>1, <4>1, <4>4
    <3>2. CASE ~(o = p /\ d = c)
      <4>1. buffer'[o][d] = buffer[o][d] /\ count'[o][d] = count[o][d]
        BY <1>10, <1>11, <3>2
      <4>2. Len(buffer[o][d]) = IF count[o][d] < BufferCap THEN count[o][d] ELSE BufferCap
        BY DEF FilesInv, Buffered
      <4>3. \A y \in Elements(buffer[o][d]) :
               /\ turn[y].on = o /\ ConversationOf[y] = d /\ turn[y].at \in Entered \ {"lost"}
               /\ y \in Run /\ y # r
        BY <1>1, InBuffer DEF Entered
      <4>. QED
        BY <1>8, <4>1, <4>2, <4>3
    <3>. QED
      BY <3>1, <3>2
  <2>. QED
    BY <2>1 DEF Buffered
<1>20. Locked'
  <2>1. ASSUME NEW o \in Process, lock'[o] # None
        PROVE  turn'[lock'[o]].on = o /\ turn'[lock'[o]].at \in Busy
    <3>1. CASE o = p
      BY <1>2, <1>8, <1>9, <2>1, <3>1 DEF Busy
    <3>2. CASE o # p
      <4>1. lock'[o] = lock[o] /\ lock[o] \in Run
        BY <1>9, <2>1, <3>2 DEF FilesInv, Shaped
      <4>2. turn[lock[o]].on = o /\ turn[lock[o]].at \in Busy
        BY <2>1, <4>1 DEF FilesInv, Locked
      <4>3. lock[o] # r
        BY <1>1, <4>2 DEF Busy
      <4>. QED
        BY <1>8, <4>1, <4>2, <4>3
    <3>. QED
      BY <3>1, <3>2
  <2>2. ASSUME NEW q \in Run, turn'[q].at \in Busy
        PROVE  /\ lock'[turn'[q].on] = q /\ q \notin failed' /\ q \in window'[q]
               /\ window'[q] = Elements(buffer'[turn'[q].on][ConversationOf[q]])
    <3>1. CASE q = r
      <4>1. full
        BY <1>8, <2>2, <3>1 DEF Busy
      <4>. QED
        BY <1>1, <1>6, <1>8, <1>9, <1>10, <1>12, <1>13, <3>1, <4>1 DEF c
    <3>2. CASE q # r
      <4>1. turn'[q] = turn[q] /\ turn[q].at \in Busy
        BY <1>8, <2>2, <3>2
      <4>2. /\ turn[q].on \in Process /\ lock[turn[q].on] = q /\ q \notin failed /\ q \in window[q]
            /\ window[q] = Elements(buffer[turn[q].on][ConversationOf[q]])
        BY <4>1, AtWork
      <4>3. turn[q].on # p
        BY <1>1, <4>2, FilesAssumption DEF None, p
      <4>. QED
        BY <1>1, <1>9, <1>10, <1>12, <3>2, <4>1, <4>2, <4>3
    <3>. QED
      BY <3>1, <3>2
  <2>. QED
    BY <2>1, <2>2 DEF Locked
<1>21. Parted'
  <2>1. \A q \in Run : Ended(q)' => q # r /\ Ended(q) /\ window'[q] = window[q]
    <3>1. ~ Ended(r)'
      BY <1>8, <1>12 DEF Ended
    <3>. QED
      BY <1>1, <1>8, <1>12, <3>1 DEF Ended
  <2>2. \A o \in Process, d \in Conversation :
           \A y \in Elements(buffer'[o][d]) : y = r \/ y \in Elements(buffer[o][d])
    <3>1. ASSUME NEW o \in Process, NEW d \in Conversation
          PROVE  \A y \in Elements(buffer'[o][d]) : y = r \/ y \in Elements(buffer[o][d])
      <4>1. CASE o = p /\ d = c
        BY <1>6, <1>10, <4>1 DEF b
      <4>2. CASE ~(o = p /\ d = c)
        BY <1>10, <4>2
      <4>. QED
        BY <4>1, <4>2
    <3>. QED
      BY <3>1
  <2>3. /\ \A q \in Run : Ended(q) =>
             /\ q \in window[q]
             /\ \A o \in Process, d \in Conversation : window[q] \cap Elements(buffer[o][d]) = {}
        /\ \A q, x \in Run : q # x /\ Ended(q) /\ Ended(x) => window[q] \cap window[x] = {}
    BY DEF FilesInv, Parted
  <2>4. ASSUME NEW q \in Run, Ended(q)'
        PROVE  /\ q \in window'[q]
               /\ \A o \in Process, d \in Conversation : window'[q] \cap Elements(buffer'[o][d]) = {}
    BY <1>13, <2>1, <2>2, <2>3, <2>4
  <2>5. \A q, x \in Run : q # x /\ Ended(q)' /\ Ended(x)' => window'[q] \cap window'[x] = {}
    BY <2>1, <2>3
  <2>. QED
    BY <2>4, <2>5 DEF Parted
<1>22. Recorded'
  BY <1>1, <1>8 DEF FilesInv, Recorded, Shaped
<1>23. Views'
  <2>1. ASSUME NEW o \in Process, NEW d \in Conversation, count'[o][d] >= MinTurns,
               NEW i \in DOMAIN buffer'[o][d]
        PROVE  Cardinality(BrokenOff(buffer[o][d][i])') + InHand(o, d)'
                    > Least(Len(buffer'[o][d]) - i, count'[o][d] - MinTurns)
    <3>1. CASE o = p /\ d = c
      <4>1. full /\ InHand(o, d)' = 1
        BY <1>2, <1>9, <1>11, <2>1, <3>1 DEF InHand, c
      <4>2. i \in 1 .. Len(held) /\ buffer'[o][d] = held /\ count'[o][d] = n + 1
        BY <1>5, <1>10, <1>11, <2>1, <3>1
      <4>3. PICK y : y = held[i]
        OBVIOUS
      <4>4. Cardinality(BrokenOff(y)) \in Nat
        BY BrokenFinite
      <4>5. Cardinality(BrokenOff(y)) + 1 > Least(Len(held) - i, n + 1 - MinTurns)
        <5>1. CASE i = Len(held) \/ n < MinTurns
          <6>0. n + 1 >= MinTurns
            BY <4>1
          <6>. HIDE DEF full, drop
          <6>1. /\ Len(held) - i \in Nat /\ n + 1 - MinTurns \in Nat
                /\ Len(held) - i = 0 \/ n + 1 - MinTurns = 0
            <7>1. Len(held) \in Nat /\ i \in 1 .. Len(held) /\ n \in Nat /\ MinTurns \in Nat
              BY <1>3, <1>5, <4>2, FilesAssumption
            <7>. QED
              BY <5>1, <6>0, <7>1
          <6>2. Least(Len(held) - i, n + 1 - MinTurns) = 0
            BY <6>1 DEF Least
          <6>. QED
            BY <4>4, <6>2
        <5>2. CASE i # Len(held) /\ n >= MinTurns
          <6>1. /\ i + drop \in DOMAIN b /\ y = b[i + drop]
                /\ Len(held) - i = Len(b) - (i + drop) + 1
            <7>. HIDE DEF full, drop
            <7>1. /\ Len(held) = Len(b) + 1 - drop /\ drop \in {0, 1} /\ Len(b) \in Nat
                  /\ i \in 1 .. Len(held) /\ i # Len(held)
              BY <1>3, <1>5, <4>2, <5>2
            <7>2. y = b[i + drop]
              BY <1>5, <4>3, <7>1
            <7>3. i + drop \in 1 .. Len(b) /\ Len(held) - i = Len(b) - (i + drop) + 1
              BY <7>1
            <7>. QED
              BY <1>3, <7>2, <7>3
          <6>2. InHand(p, c) = 0
            BY <1>1, <1>2 DEF InHand, p
          <6>3. Cardinality(BrokenOff(y)) + InHand(p, c) > Least(Len(b) - (i + drop), n - MinTurns)
            BY <1>2, <5>2, <6>1 DEF FilesInv, Views, b, n
          <6>4. /\ Len(b) - (i + drop) \in Int /\ n - MinTurns \in Int
                /\ n + 1 - MinTurns = (n - MinTurns) + 1
            <7>. HIDE DEF drop, full
            <7>1. i + drop \in 1 .. Len(b) /\ Len(b) \in Nat /\ n \in Nat /\ MinTurns \in Nat
              BY <1>3, <6>1, FilesAssumption
            <7>. QED
              BY <7>1
          <6>. HIDE DEF drop, full
          <6>5. /\ Least(Len(held) - i, n + 1 - MinTurns)
                      = Least(Len(b) - (i + drop), n - MinTurns) + 1
                /\ Least(Len(b) - (i + drop), n - MinTurns) \in Int
            BY <6>1, <6>4, LeastUp
          <6>. QED
            BY <4>4, <6>2, <6>3, <6>5
        <5>. QED
          BY <1>3, <5>1, <5>2, FilesAssumption
      <4>6. Cardinality(BrokenOff(y)') + InHand(o, d)' > Least(Len(held) - i, n + 1 - MinTurns)
        BY <1>14, <4>1, <4>5
      <4>. QED
        <5>. HIDE DEF full, drop
        <5>1. buffer'[o][d][i] = y
          BY <4>2, <4>3
        <5>2. Least(Len(buffer'[o][d]) - i, count'[o][d] - MinTurns)
                 = Least(Len(held) - i, n + 1 - MinTurns)
          <6>1. /\ Len(buffer'[o][d]) = Len(held) /\ Len(held) \in Nat /\ i \in Nat
                /\ count'[o][d] = n + 1 /\ n \in Nat /\ MinTurns \in Nat
            BY <1>3, <1>5, <4>2, FilesAssumption
          <6>. QED
            BY <6>1 DEF Least
        <5>3. BrokenOff(buffer[o][d][i])' = BrokenOff(y)'
          BY <5>1 DEF BrokenOff
        <5>. QED
          BY <4>6, <5>2, <5>3
    <3>2. CASE ~(o = p /\ d = c)
      <4>1. buffer'[o][d] = buffer[o][d] /\ count'[o][d] = count[o][d]
        BY <1>10, <1>11, <3>2
      <4>2. InHand(o, d)' = InHand(o, d)
        BY <1>1, <1>2, <1>9, <3>2 DEF InHand, c, p
      <4>3. Cardinality(BrokenOff(buffer[o][d][i])) + InHand(o, d)
                  > Least(Len(buffer[o][d]) - i, count[o][d] - MinTurns)
        BY <2>1, <4>1 DEF FilesInv, Views
      <4>. QED
        BY <1>14, <4>1, <4>2, <4>3
    <3>. QED
      BY <3>1, <3>2
  <2>. QED
    BY <2>1 DEF Views
\* The turn that falls out of a full buffer was in view often enough.
<1>24. drop = 1 => Cardinality(BrokenOff(b[1])) > BufferCap - MinTurns
  <2>. SUFFICES ASSUME drop = 1 PROVE Cardinality(BrokenOff(b[1])) > BufferCap - MinTurns
    OBVIOUS
  <2>1. Len(b) = BufferCap /\ n >= BufferCap /\ n >= MinTurns /\ 1 \in DOMAIN b
    BY <1>3, <1>4, FilesAssumption
  <2>2. InHand(p, c) = 0
    BY <1>1, <1>2 DEF InHand, p
  <2>3. Cardinality(BrokenOff(b[1])) + InHand(p, c) > Least(Len(b) - 1, n - MinTurns)
    BY <1>2, <2>1 DEF FilesInv, Views, b, n
  <2>4. Least(Len(b) - 1, n - MinTurns) >= BufferCap - MinTurns
        /\ Least(Len(b) - 1, n - MinTurns) \in Int
    BY <1>3, <2>1, FilesAssumption DEF Least
  <2>5. Cardinality(BrokenOff(b[1])) \in Nat
    BY BrokenFinite
  <2>. HIDE DEF drop, full
  <2>. QED
    BY <2>2, <2>3, <2>4, <2>5, FilesAssumption
<1>25. Kept'
  <2>1. ASSUME NEW y \in Weighed PROVE y \in Weighed'
    <3>1. PICK x \in Run : turn[x].at = "done" /\ x \notin failed /\ y \in window[x]
      BY DEF Weighed
    <3>2. x # r /\ turn'[x].at = "done" /\ x \notin failed' /\ y \in window'[x]
      BY <1>1, <1>8, <1>12, <3>1
    <3>. QED
      BY <3>2 DEF Weighed
  <2>2. ASSUME NEW q \in Run \ Companion, turn'[q].at = "done"
        PROVE  \/ q \in Weighed'
               \/ q \in Elements(buffer'[turn'[q].on][ConversationOf[q]])
               \/ q \in failed' /\ window'[q] = {}
               \/ Cardinality(BrokenOff(q)') > BufferCap - MinTurns
    <3>1. CASE q = r
      BY <1>6, <1>8, <1>10, <3>1 DEF c
    <3>2. CASE q # r
      <4>1. \/ q \in Weighed
            \/ q \in Elements(buffer[turn[q].on][ConversationOf[q]])
            \/ q \in failed /\ window[q] = {}
            \/ Cardinality(BrokenOff(q)) > BufferCap - MinTurns
        BY <1>8, <2>2, <3>2 DEF FilesInv, Kept
      <4>2. turn'[q] = turn[q] /\ turn[q].on \in Process /\ ConversationOf[q] \in Conversation
        BY <1>8, <2>2, <3>2 DEF FilesInv, Shaped, Conversation
      <4>3. CASE turn[q].on = p /\ ConversationOf[q] = c
        <5>1. CASE q \in Elements(b)
          <6>1. q \in Elements(held) \/ Cardinality(BrokenOff(q)) > BufferCap - MinTurns
            BY <1>6, <1>24, <5>1
          <6>. QED
            BY <1>10, <1>14, <4>2, <4>3, <6>1
        <5>2. CASE q \notin Elements(b)
          BY <1>1, <1>12, <1>14, <2>1, <3>2, <4>1, <4>3, <5>2 DEF b
        <5>. QED
          BY <5>1, <5>2
      <4>4. CASE ~(turn[q].on = p /\ ConversationOf[q] = c)
        <5>1. buffer'[turn[q].on][ConversationOf[q]] = buffer[turn[q].on][ConversationOf[q]]
          BY <1>10, <4>2, <4>4
        <5>. QED
          BY <1>1, <1>12, <1>14, <2>1, <3>2, <4>1, <4>2, <5>1
      <4>. QED
        BY <4>3, <4>4
    <3>. QED
      BY <3>1, <3>2
  <2>. QED
    BY <2>2 DEF Kept
<1>. QED
  BY <1>15, <1>16, <1>17, <1>18, <1>19, <1>20, <1>21, <1>22, <1>23, <1>25 DEF FilesInv

LEMMA FilesNext == ASSUME FilesInv, [Next]_vars PROVE FilesInv'
<1>1. ASSUME NEW r \in Run, NEW p \in Process, Enqueue(r, p) PROVE FilesInv'
  BY <1>1, EnqueueKeeps
<1>2. ASSUME NEW p \in Process, Dispatch(p) PROVE FilesInv'
  BY <1>2, DispatchKeeps
<1>3. ASSUME NEW p \in Process, Crash(p) PROVE FilesInv'
  BY <1>3, CrashKeeps
<1>4. ASSUME NEW r \in Run, EnsureWorkspace(r) \/ Refused(r) PROVE FilesInv'
  BY <1>4, EnsureKeeps
<1>5. ASSUME NEW r \in Run, TakeIn(r) PROVE FilesInv'
  BY <1>5, TakeInKeeps
<1>6. ASSUME NEW r \in Run, Extract(r) PROVE FilesInv'
  BY <1>6, ExtractKeeps
<1>7. ASSUME NEW r \in Run, Write(r) PROVE FilesInv'
  BY <1>7, WriteKeeps
<1>8. ASSUME NEW r \in Run, WriteFails(r) PROVE FilesInv'
  BY <1>8, WriteFailsKeeps
<1>9. ASSUME NEW r \in Run, Committed(r) PROVE FilesInv'
  BY <1>9, CommittedKeeps
<1>. QED
  BY <1>1, <1>2, <1>3, <1>4, <1>5, <1>6, <1>7, <1>8, <1>9, RestKeeps DEF Next

LEMMA FilesWeighed == FilesInv => EachTurnWeighedOnce
<1>. SUFFICES ASSUME FilesInv PROVE EachTurnWeighedOnce
  OBVIOUS
<1>1. ASSUME NEW r \in history \cup pending, NEW x \in history \cup pending,
             r # x, window[r] \cap window[x] # {}, {r, x} \cap failed = {},
             {r, x} \cap {y \in Run : turn[y].at = "lost"} = {}
      PROVE  FALSE
  <2>1. /\ r \in Run /\ x \in Run /\ r \notin failed /\ x \notin failed
        /\ turn[r].at \in {"writing", "done"} /\ turn[x].at \in {"writing", "done"}
        /\ window[r] # {} /\ window[x] # {}
    BY <1>1 DEF FilesInv, Shaped, Recorded
  <2>2. CASE turn[r].at = "done" /\ turn[x].at = "done"
    BY <1>1, <2>1, <2>2 DEF FilesInv, Parted, Ended
  \* What one has in view is in a buffer still, and what one that ended had is not.
  <2>3. ASSUME NEW q \in {r, x}, NEW z \in {r, x}, turn[q].at = "writing", turn[z].at = "done"
        PROVE  window[q] \cap window[z] = {}
    <3>1. /\ turn[q].on \in Process /\ ConversationOf[q] \in Conversation
          /\ window[q] = Elements(buffer[turn[q].on][ConversationOf[q]])
      BY <2>1, <2>3, AtWork DEF Busy
    <3>2. Ended(z) /\ z \in Run
      BY <2>1, <2>3 DEF Ended
    <3>. QED
      BY <3>1, <3>2 DEF FilesInv, Parted
  <2>4. CASE turn[r].at = "writing" /\ turn[x].at = "writing"
    <3>1. PICK y : y \in window[r] /\ y \in window[x]
      BY <1>1
    <3>2. /\ turn[r].on \in Process /\ ConversationOf[r] \in Conversation
          /\ window[r] = Elements(buffer[turn[r].on][ConversationOf[r]])
          /\ turn[x].on \in Process /\ ConversationOf[x] \in Conversation
          /\ window[x] = Elements(buffer[turn[x].on][ConversationOf[x]])
          /\ lock[turn[r].on] = r /\ lock[turn[x].on] = x
      BY <2>1, <2>4, AtWork DEF Busy
    <3>3. turn[y].on = turn[r].on /\ turn[y].on = turn[x].on
      BY <3>1, <3>2, InBuffer
    <3>. QED
      BY <1>1, <3>2, <3>3
  <2>. QED
    BY <1>1, <2>1, <2>2, <2>3, <2>4
<1>. QED
  BY <1>1 DEF FilesInv, Kept, EachTurnWeighedOnce

-----------------------------------------------------------------------------
(* The notebook.                                                           *)

Pages ==
    /\ notes \in [Kinds -> SUBSET (Run \cup Editor)]
    /\ editor = [e \in Editor |-> editor[e]]
    /\ \A e \in Editor : editor[e].doc \in Kinds \cup {None}

LEMMA PagesInit == Init => Pages
BY DEF Init, Pages, Closed

LEMMA PagesNext == ASSUME Pages, [Next]_vars PROVE Pages'
<1>1. ASSUME NEW r \in Run, Write(r) PROVE Pages'
  BY <1>1 DEF Write, Pages
<1>2. ASSUME NEW e \in Editor, NEW k \in Kinds, Open(e, k) PROVE Pages'
  BY <1>2 DEF Open, files, Pages
<1>3. ASSUME NEW e \in Editor, Save(e) PROVE Pages'
  <2>1. editor' = [editor EXCEPT ![e] = Closed]
    BY <1>3 DEF Save
  <2>2. notes' \in [Kinds -> SUBSET (Run \cup Editor)]
    BY <1>3 DEF Save, Pages
  <2>. QED
    BY <2>1, <2>2 DEF Pages, Closed
<1>4. ASSUME UNCHANGED <<notes, editor>> PROVE Pages'
  BY <1>4 DEF Pages
<1>5. ASSUME NEW r \in Run,
             EnsureWorkspace(r) \/ Refused(r) \/ TakeIn(r) \/ Extract(r) \/ WriteFails(r) \/ Committed(r)
      PROVE  UNCHANGED <<notes, editor>>
  BY <1>5 DEF EnsureWorkspace, Refused, TakeIn, Extract, WriteFails, Committed, files
<1>6. ASSUME NEW p \in Process, (\E r \in Run : Enqueue(r, p)) \/ Dispatch(p) \/ StopWaiting(p) \/ Crash(p)
      PROVE  UNCHANGED <<notes, editor>>
  BY <1>6 DEF Enqueue, Dispatch, StopWaiting, Crash, files
<1>7. CASE UNCHANGED vars
  BY <1>4, <1>7 DEF vars
<1>. QED
  BY <1>1, <1>2, <1>3, <1>4, <1>5, <1>6, <1>7 DEF Next

LEMMA KeptInPages ==
  ASSUME Pages, [Next]_vars, NEW k \in Kinds, NEW n \in notes[k] \ notes'[k]
  PROVE  \E e \in Editor : /\ editor[e].doc = k /\ editor'[e].doc = None
                           /\ n \in editor[e].seen.notes
<1>1. ~ UNCHANGED notes
  OBVIOUS
<1>2. ASSUME NEW r \in Run, Write(r) PROVE notes[k] \subseteq notes'[k]
  BY <1>2 DEF Write
<1>3. PICK e \in Editor : Save(e)
  BY <1>1, <1>2 DEF Next, vars, files, Enqueue, Dispatch, StopWaiting, Crash, EnsureWorkspace,
                    Refused, TakeIn, Extract, WriteFails, Committed, Open
<1>4. editor'[e].doc = None
  BY <1>3 DEF Save, Pages, Closed
<1>5. PICK kept : /\ editor[e].seen = Revision(editor[e].doc)
                  /\ notes' = [notes EXCEPT ![editor[e].doc] = kept]
  BY <1>1, <1>3 DEF Save
<1>6. editor[e].doc = k
  BY <1>5 DEF Pages
<1>7. n \in editor[e].seen.notes
  BY <1>5, <1>6 DEF Revision
<1>. QED
  BY <1>4, <1>6, <1>7

-----------------------------------------------------------------------------
(***************************************************************************)
(* Memory cards.                                                           *)
(***************************************************************************)

(* Who is where, and what a request carries there. *)
AtRest(r) == req[r].at \in {"idle", "over"}

Carries  ==
    \A r \in Request :
        req[r].at \in {"edit", "indexing", "embed", "upsert"} => req[r].text \in Text
LockHeld == \A r \in Request : req[r].at = "indexing" <=> writer = r
Unborn   ==
    origin = Store!None => card = Store!NoCard /\ vectors = <<>> /\ \A r \in Request : AtRest(r)
Creating == writer # Store!None /\ card = Store!NoCard =>
                vectors = <<>> /\ \A r \in Request \ {writer} : AtRest(r)
ByHand   == origin # "history" => \A r \in Request : req[r].at \notin {"embed", "upsert"}

(* A summary that was seen missing stays missing. *)
NoSummary ==
    \A r \in Request :
        req[r].at = "edit" /\ req[r].seen.summary = Store!None =>
            card.summary = Store!None /\ draft.summary = Store!None
DraftKeeps ==
    writer # Store!None /\ card # Store!NoCard => draft.summary \in {card.summary, Store!None}

(* The row of an open transaction is a card, and not summed up as it was before. *)
Drafted ==
    writer # Store!None =>
        draft \in Store!Cards /\ draft.summary \in {Store!None, draft.text}
NoDraft == writer = Store!None => draft = Store!NoCard

Indexed ==
    origin = "notebook" =>
        IF card = Store!NoCard THEN vectors = <<>>
        ELSE Len(vectors) = 1 /\ card.summary \in {Store!None, card.text}

CardsInv ==
    /\ Store!TypeOK /\ Carries /\ LockHeld /\ Unborn /\ Creating /\ ByHand
    /\ NoSummary /\ DraftKeeps /\ Drafted /\ NoDraft /\ Indexed

-----------------------------------------------------------------------------
LEMMA CardsInit == Store!Init => CardsInv
<1>. SUFFICES ASSUME Store!Init PROVE CardsInv
  OBVIOUS
<1>1. Store!TypeOK
  BY DEF Store!Init, Store!TypeOK, Store!Steps
<1>2. /\ Carries /\ LockHeld /\ Unborn /\ Creating /\ ByHand
      /\ NoSummary /\ DraftKeeps /\ Drafted /\ NoDraft /\ Indexed
  BY CardsAssumption DEF Store!Init, Carries, LockHeld, Unborn, Creating, ByHand, NoSummary,
     DraftKeeps, Drafted, NoDraft, Indexed, AtRest, Store!None
<1>. QED
  BY <1>1, <1>2 DEF CardsInv

\* Where a request is and what it carries: the rows of the table req.
Rows == [at : Store!Steps, text : Text \cup {Store!None},
         seen : Store!Cards \cup {Store!NoCard}, found : BOOLEAN]

\* Every way the actions change a request keeps the table typed.
LEMMA ReqTyped ==
  ASSUME req \in [Request -> Rows], NEW r \in Request,
         NEW step \in Store!Steps, NEW t \in Text \cup {Store!None},
         NEW row \in Store!Cards \cup {Store!NoCard}, NEW b \in BOOLEAN
  PROVE  /\ [req EXCEPT ![r].at = step] \in [Request -> Rows]
         /\ [req EXCEPT ![r].at = step, ![r].text = t] \in [Request -> Rows]
         /\ [req EXCEPT ![r].at = step, ![r].text = t, ![r].seen = row] \in [Request -> Rows]
         /\ [req EXCEPT ![r].at = step, ![r].found = b] \in [Request -> Rows]
<1>1. /\ [req[r] EXCEPT !.at = step] \in Rows
      /\ [req[r] EXCEPT !.at = step, !.text = t] \in Rows
      /\ [req[r] EXCEPT !.at = step, !.text = t, !.seen = row] \in Rows
      /\ [req[r] EXCEPT !.at = step, !.found = b] \in Rows
  BY DEF Rows
<1>. QED
  BY <1>1

\* The rows actions write, and the vectors, keep their types.
LEMMA CardTyped ==
  ASSUME Store!TypeOK, card # Store!NoCard, NEW r \in Request, NEW b \in BOOLEAN
  PROVE  /\ req[r].text \in Text => Store!Edited(r) \in Store!Cards
         /\ [card EXCEPT !.active = b] \in Store!Cards
BY DEF Store!TypeOK, Store!Edited, Store!Cards, Store!NoCard, Store!None

LEMMA VectorsTyped ==
  ASSUME Store!TypeOK, NEW r \in Request, req[r].text \in Text
  PROVE  /\ Store!Upserted(r) \in Seq(Text)
         /\ Append(vectors, req[r].text) \in Seq(Text)
BY DEF Store!TypeOK, Store!Upserted

-----------------------------------------------------------------------------
(* One lemma per action: it keeps every part of the invariant.              *)

\* IInv is kept when a card is saved by hand.
LEMMA SaveKeeps ==
  ASSUME CardsInv, NEW r \in Request, NEW t \in Text, NEW s \in BOOLEAN, Store!Save(r, t, s)
  PROVE  CardsInv'
<1>. USE CardsAssumption DEF CardsInv
<1>1. Store!TypeOK'
  <2>1. req' \in [Request -> Rows]
    <3>1. /\ req \in [Request -> Rows] /\ card \in Store!Cards \cup {Store!NoCard}
          /\ "indexing" \in Store!Steps
      BY DEF Store!TypeOK, Rows, Store!Steps
    <3>. QED
      BY <3>1, ReqTyped DEF Store!Save
  <2>2. /\ card' \in Store!Cards \cup {Store!NoCard} /\ draft' \in Store!Cards \cup {Store!NoCard}
        /\ origin' \in {Store!None, "notebook", "history"}
        /\ vectors' \in Seq(Text)
        /\ writer' \in Request \cup {Store!None}
    BY <2>1 DEF Store!TypeOK, Store!Cards, Store!Save
  <2>. QED
    BY <2>1, <2>2 DEF Store!TypeOK, Rows
<1>2. Carries'
  BY DEF Carries, Store!TypeOK, Store!Save
<1>3. LockHeld'
  BY DEF LockHeld, Store!TypeOK, AtRest, Unborn, Store!Save
<1>4. Unborn'
  BY DEF Unborn, Store!None, Store!Save
<1>5. Creating'
  BY DEF Creating, Store!TypeOK, AtRest, Unborn, Store!Save
<1>6. ByHand'
  BY DEF ByHand, Store!TypeOK, AtRest, Unborn, Store!Save
<1>8. NoSummary'
  BY DEF NoSummary, Store!TypeOK, AtRest, Unborn, Store!Save
<1>9. DraftKeeps'
  BY DEF DraftKeeps, Unborn, Store!Save
<1>10. Drafted'
  <2>1. draft' \in Store!Cards /\ draft'.summary \in {Store!None, draft'.text}
    BY DEF Store!Save, Store!Cards, Store!None
  <2>. QED
    BY <2>1 DEF Drafted
<1>11. NoDraft'
  BY DEF NoDraft, LockHeld, Store!Save
<1>12. Indexed'
  BY DEF Indexed, Unborn, Store!Save
<1>. QED
  BY <1>1, <1>2, <1>3, <1>4, <1>5, <1>6, <1>8, <1>9, <1>10, <1>11, <1>12

\* IInv is kept when an edit reads the row.
LEMMA LoadEditKeeps ==
  ASSUME CardsInv, NEW r \in Request, NEW t \in Text, Store!Load(r, "edit", t)
  PROVE  CardsInv'
<1>. USE CardsAssumption DEF CardsInv
<1>1. Store!TypeOK'
  <2>1. req' \in [Request -> Rows]
    <3>1. /\ req \in [Request -> Rows] /\ card \in Store!Cards \cup {Store!NoCard}
          /\ "edit" \in Store!Steps
      BY DEF Store!TypeOK, Rows, Store!Steps
    <3>. QED
      BY <3>1, ReqTyped DEF Store!Load
  <2>2. /\ card' \in Store!Cards \cup {Store!NoCard} /\ draft' \in Store!Cards \cup {Store!NoCard}
        /\ origin' \in {Store!None, "notebook", "history"}
        /\ vectors' \in Seq(Text)
        /\ writer' \in Request \cup {Store!None}
    BY <2>1 DEF Store!TypeOK, Store!Load
  <2>. QED
    BY <2>1, <2>2 DEF Store!TypeOK, Rows
<1>2. Carries'
  BY DEF Carries, Store!TypeOK, Store!Load
<1>3. LockHeld'
  BY DEF LockHeld, Store!TypeOK, Store!Load
<1>4. Unborn'
  BY DEF Unborn, AtRest, Store!Load
<1>5. Creating'
  BY DEF Creating, AtRest, Store!Load
<1>6. ByHand'
  BY DEF ByHand, Store!TypeOK, Store!Load
<1>8. NoSummary'
  BY DEF NoSummary, Store!TypeOK, Store!NoCard, DraftKeeps, NoDraft, Store!Load
<1>9. DraftKeeps'
  BY DEF DraftKeeps, Store!Load
<1>10. Drafted'
  BY DEF Drafted, Store!TypeOK, Store!Load
<1>11. NoDraft'
  BY DEF NoDraft, Store!Load
<1>12. Indexed'
  BY DEF Indexed, Store!Load
<1>. QED
  BY <1>1, <1>2, <1>3, <1>4, <1>5, <1>6, <1>8, <1>9, <1>10, <1>11, <1>12

\* IInv is kept when a pause or a deletion reads the row.
LEMMA LoadOtherKeeps ==
  ASSUME CardsInv, NEW r \in Request, NEW step \in {"toggle", "delete"}, Store!Load(r, step, Store!None)
  PROVE  CardsInv'
<1>. USE CardsAssumption DEF CardsInv
<1>1. Store!TypeOK'
  <2>1. req' \in [Request -> Rows]
    <3>1. /\ req \in [Request -> Rows] /\ card \in Store!Cards \cup {Store!NoCard}
          /\ step \in Store!Steps
      BY DEF Store!TypeOK, Rows, Store!Steps
    <3>. QED
      BY <3>1, ReqTyped DEF Store!Load
  <2>2. /\ card' \in Store!Cards \cup {Store!NoCard} /\ draft' \in Store!Cards \cup {Store!NoCard}
        /\ origin' \in {Store!None, "notebook", "history"}
        /\ vectors' \in Seq(Text)
        /\ writer' \in Request \cup {Store!None}
    BY <2>1 DEF Store!TypeOK, Store!Load
  <2>. QED
    BY <2>1, <2>2 DEF Store!TypeOK, Rows
<1>2. Carries'
  BY DEF Carries, Store!TypeOK, Store!Load
<1>3. LockHeld'
  BY DEF LockHeld, Store!TypeOK, Store!Load
<1>4. Unborn'
  BY DEF Unborn, AtRest, Store!Load
<1>5. Creating'
  BY DEF Creating, AtRest, Store!Load
<1>6. ByHand'
  BY DEF ByHand, Store!TypeOK, Store!Load
<1>8. NoSummary'
  BY DEF NoSummary, Store!TypeOK, Store!Load
<1>9. DraftKeeps'
  BY DEF DraftKeeps, Store!Load
<1>10. Drafted'
  BY DEF Drafted, Store!TypeOK, Store!Load
<1>11. NoDraft'
  BY DEF NoDraft, Store!Load
<1>12. Indexed'
  BY DEF Indexed, Store!Load
<1>. QED
  BY <1>1, <1>2, <1>3, <1>4, <1>5, <1>6, <1>8, <1>9, <1>10, <1>11, <1>12

\* IInv is kept when consolidation commits a card.
LEMMA SaveHistoryKeeps ==
  ASSUME CardsInv, NEW r \in Request, NEW t \in Text, Store!SaveHistory(r, t)
  PROVE  CardsInv'
<1>. USE CardsAssumption DEF CardsInv
<1>1. Store!TypeOK'
  <2>1. req' \in [Request -> Rows]
    <3>1. /\ req \in [Request -> Rows] /\ card \in Store!Cards \cup {Store!NoCard}
          /\ "embed" \in Store!Steps
      BY DEF Store!TypeOK, Rows, Store!Steps
    <3>. QED
      BY <3>1, ReqTyped DEF Store!SaveHistory
  <2>2. /\ card' \in Store!Cards \cup {Store!NoCard} /\ draft' \in Store!Cards \cup {Store!NoCard}
        /\ origin' \in {Store!None, "notebook", "history"}
        /\ vectors' \in Seq(Text)
        /\ writer' \in Request \cup {Store!None}
    BY <2>1 DEF Store!TypeOK, Store!Cards, Store!SaveHistory
  <2>. QED
    BY <2>1, <2>2 DEF Store!TypeOK, Rows
<1>2. Carries'
  BY DEF Carries, Store!TypeOK, Store!SaveHistory
<1>3. LockHeld'
  BY DEF LockHeld, Store!TypeOK, Store!SaveHistory
<1>4. Unborn'
  BY DEF Unborn, Store!None, Store!SaveHistory
<1>5. Creating'
  BY DEF Creating, AtRest, Store!SaveHistory
<1>6. ByHand'
  BY DEF ByHand, Store!SaveHistory
<1>8. NoSummary'
  BY DEF NoSummary, Store!TypeOK, AtRest, Unborn, Store!SaveHistory
<1>9. DraftKeeps'
  BY DEF DraftKeeps, Store!SaveHistory
<1>10. Drafted'
  BY DEF Drafted, Store!SaveHistory
<1>11. NoDraft'
  BY DEF NoDraft, Store!SaveHistory
<1>12. Indexed'
  BY DEF Indexed, Store!SaveHistory
<1>. QED
  BY <1>1, <1>2, <1>3, <1>4, <1>5, <1>6, <1>8, <1>9, <1>10, <1>11, <1>12

\* IInv is kept when the row is gone.
LEMMA VanishedKeeps ==
  ASSUME CardsInv, NEW r \in Request, Store!Vanished(r)
  PROVE  CardsInv'
<1>. USE CardsAssumption DEF CardsInv
<1>1. Store!TypeOK'
  <2>1. req' \in [Request -> Rows]
    <3>1. /\ req \in [Request -> Rows] /\ card \in Store!Cards \cup {Store!NoCard}
          /\ "over" \in Store!Steps
      BY DEF Store!TypeOK, Rows, Store!Steps
    <3>. QED
      BY <3>1, ReqTyped DEF Store!Vanished, Store!Over, Store!Goes
  <2>2. /\ card' \in Store!Cards \cup {Store!NoCard} /\ draft' \in Store!Cards \cup {Store!NoCard}
        /\ origin' \in {Store!None, "notebook", "history"}
        /\ vectors' \in Seq(Text)
        /\ writer' \in Request \cup {Store!None}
    BY <2>1 DEF Store!TypeOK, Store!Vanished
  <2>. QED
    BY <2>1, <2>2 DEF Store!TypeOK, Rows
<1>2. Carries'
  BY DEF Carries, Store!Vanished, Store!Over, Store!Goes
<1>3. LockHeld'
  BY DEF LockHeld, Store!Vanished, Store!Over, Store!Goes
<1>4. Unborn'
  BY DEF Unborn, AtRest, Store!Vanished, Store!Over, Store!Goes
<1>5. Creating'
  BY DEF Creating, AtRest, Store!Vanished, Store!Over, Store!Goes
<1>6. ByHand'
  BY DEF ByHand, Store!Vanished, Store!Over, Store!Goes
<1>8. NoSummary'
  BY DEF NoSummary, Store!Vanished, Store!Over, Store!Goes
<1>9. DraftKeeps'
  BY DEF DraftKeeps, Store!Vanished, Store!Over, Store!Goes
<1>10. Drafted'
  BY DEF Drafted, Store!Vanished, Store!Over, Store!Goes
<1>11. NoDraft'
  BY DEF NoDraft, Store!Vanished, Store!Over, Store!Goes
<1>12. Indexed'
  BY DEF Indexed, Store!Vanished, Store!Over, Store!Goes
<1>. QED
  BY <1>1, <1>2, <1>3, <1>4, <1>5, <1>6, <1>8, <1>9, <1>10, <1>11, <1>12

\* IInv is kept when an edit takes the lock.
LEMMA FlushKeeps ==
  ASSUME CardsInv, NEW r \in Request, Store!Flush(r)
  PROVE  CardsInv'
<1>. USE CardsAssumption DEF CardsInv
<1>1. Store!TypeOK'
  <2>1. req' \in [Request -> Rows]
    <3>1. /\ req \in [Request -> Rows] /\ card \in Store!Cards \cup {Store!NoCard}
          /\ "indexing" \in Store!Steps
      BY DEF Store!TypeOK, Rows, Store!Steps
    <3>. QED
      BY <3>1, ReqTyped DEF Store!Flush, Store!Goes
  <2>2. /\ card' \in Store!Cards \cup {Store!NoCard} /\ draft' \in Store!Cards \cup {Store!NoCard}
        /\ origin' \in {Store!None, "notebook", "history"}
        /\ vectors' \in Seq(Text)
        /\ writer' \in Request \cup {Store!None}
    BY CardTyped, <2>1 DEF Store!TypeOK, Carries, Store!Flush
  <2>. QED
    BY <2>1, <2>2 DEF Store!TypeOK, Rows
<1>2. Carries'
  BY DEF Carries, Store!Flush, Store!Goes, Store!Edited
<1>3. LockHeld'
  BY DEF LockHeld, Store!TypeOK, Store!None, Store!Flush, Store!Goes, Store!Edited
<1>4. Unborn'
  BY DEF Unborn, AtRest, Store!Flush, Store!Goes, Store!Edited
<1>5. Creating'
  BY DEF Creating, AtRest, Store!Flush, Store!Goes, Store!Edited
<1>6. ByHand'
  BY DEF ByHand, Store!Flush, Store!Goes, Store!Edited
<1>8. NoSummary'
  BY DEF NoSummary, Store!Flush, Store!Goes, Store!Edited
<1>9. DraftKeeps'
  BY DEF DraftKeeps, Store!Flush, Store!Goes, Store!Edited
<1>10. Drafted'
  <2>1. req[r].text \in Text /\ card # Store!NoCard /\ draft' = Store!Edited(r)
    BY DEF Carries, Store!Flush
  <2>2. Store!Edited(r) \in Store!Cards
    BY <2>1, CardTyped
  <2>3. Store!Edited(r).summary \in {Store!None, Store!Edited(r).text}
    BY DEF Drafted, NoSummary, Store!Flush, Store!Edited, Store!TypeOK
  <2>. QED
    BY <2>1, <2>2, <2>3 DEF Drafted
<1>11. NoDraft'
  BY DEF NoDraft, LockHeld, Store!Flush, Store!Goes, Store!Edited
<1>12. Indexed'
  BY DEF Indexed, Store!Flush, Store!Goes, Store!Edited
<1>. QED
  BY <1>1, <1>2, <1>3, <1>4, <1>5, <1>6, <1>8, <1>9, <1>10, <1>11, <1>12

\* IInv is kept when card and vector are committed.
LEMMA CommitKeeps ==
  ASSUME CardsInv, NEW r \in Request, Store!Commit(r)
  PROVE  CardsInv'
<1>. USE CardsAssumption DEF CardsInv
<1>1. Store!TypeOK'
  <2>1. req' \in [Request -> Rows]
    <3>1. /\ req \in [Request -> Rows] /\ card \in Store!Cards \cup {Store!NoCard}
          /\ "over" \in Store!Steps
      BY DEF Store!TypeOK, Rows, Store!Steps
    <3>. QED
      BY <3>1, ReqTyped DEF Store!Commit, Store!Over, Store!Goes
  <2>2. /\ card' \in Store!Cards \cup {Store!NoCard} /\ draft' \in Store!Cards \cup {Store!NoCard}
        /\ origin' \in {Store!None, "notebook", "history"}
        /\ vectors' \in Seq(Text)
        /\ writer' \in Request \cup {Store!None}
    BY VectorsTyped, <2>1 DEF Store!TypeOK, Carries, Store!Commit
  <2>. QED
    BY <2>1, <2>2 DEF Store!TypeOK, Rows
<1>2. Carries'
  BY DEF Carries, Store!Commit, Store!Over, Store!Goes, Store!Upserted
<1>3. LockHeld'
  BY DEF LockHeld, Store!TypeOK, Store!None, Store!Commit, Store!Over, Store!Goes, Store!Upserted
<1>4. Unborn'
  BY DEF Unborn, AtRest, Store!Commit, Store!Over, Store!Goes, Store!Upserted
<1>5. Creating'
  BY DEF Creating, AtRest, Store!Commit, Store!Over, Store!Goes, Store!Upserted
<1>6. ByHand'
  BY DEF ByHand, Store!Commit, Store!Over, Store!Goes, Store!Upserted
<1>8. NoSummary'
  BY DEF NoSummary, Store!NoCard, Store!Commit, Store!Over, Store!Goes, Store!Upserted
<1>9. DraftKeeps'
  BY DEF DraftKeeps, Store!Commit, Store!Over, Store!Goes, Store!Upserted
<1>10. Drafted'
  BY DEF Drafted, Store!Commit, Store!Over, Store!Goes, Store!Upserted
<1>11. NoDraft'
  BY DEF NoDraft, Store!Commit, Store!Over, Store!Goes, Store!Upserted
<1>12. Indexed'
  <2>1. writer # Store!None /\ card' = draft /\ vectors' = Store!Upserted(r)
    BY DEF Store!Commit, LockHeld, Store!TypeOK, Store!None
  <2>2. draft # Store!NoCard /\ draft.summary \in {Store!None, draft.text}
    BY <2>1 DEF Drafted, Store!Cards, Store!NoCard, Store!None
  <2>3. origin = "notebook" => Len(vectors') = 1
    BY <2>1 DEF Indexed, Store!Upserted, Store!TypeOK
  <2>. QED
    BY <2>1, <2>2, <2>3 DEF Indexed, Store!Commit
<1>. QED
  BY <1>1, <1>2, <1>3, <1>4, <1>5, <1>6, <1>8, <1>9, <1>10, <1>11, <1>12

\* IInv is kept when a card is paused or resumed.
LEMMA ToggleKeeps ==
  ASSUME CardsInv, NEW r \in Request, Store!Toggle(r)
  PROVE  CardsInv'
<1>. USE CardsAssumption DEF CardsInv
<1>1. Store!TypeOK'
  <2>1. req' \in [Request -> Rows]
    <3>1. /\ req \in [Request -> Rows] /\ card \in Store!Cards \cup {Store!NoCard}
          /\ "over" \in Store!Steps
      BY DEF Store!TypeOK, Rows, Store!Steps
    <3>. QED
      BY <3>1, ReqTyped DEF Store!Toggle, Store!Over, Store!Goes
  <2>2. /\ card' \in Store!Cards \cup {Store!NoCard} /\ draft' \in Store!Cards \cup {Store!NoCard}
        /\ origin' \in {Store!None, "notebook", "history"}
        /\ vectors' \in Seq(Text)
        /\ writer' \in Request \cup {Store!None}
    BY CardTyped, <2>1 DEF Store!TypeOK, Rows, Store!Cards, Store!NoCard, Store!Toggle
  <2>. QED
    BY <2>1, <2>2 DEF Store!TypeOK, Rows
<1>2. Carries'
  BY DEF Carries, Store!Toggle, Store!Over, Store!Goes
<1>3. LockHeld'
  BY DEF LockHeld, Store!Toggle, Store!Over, Store!Goes
<1>4. Unborn'
  BY DEF Unborn, AtRest, Store!Toggle, Store!Over, Store!Goes
<1>5. Creating'
  BY DEF Creating, AtRest, Store!Toggle, Store!Over, Store!Goes
<1>6. ByHand'
  BY DEF ByHand, Store!Toggle, Store!Over, Store!Goes
<1>8. NoSummary'
  BY DEF NoSummary, Store!Toggle, Store!Over, Store!Goes
<1>9. DraftKeeps'
  BY DEF DraftKeeps, Store!Toggle, Store!Over, Store!Goes
<1>10. Drafted'
  BY DEF Drafted, Store!Toggle, Store!Over, Store!Goes
<1>11. NoDraft'
  BY DEF NoDraft, Store!Toggle, Store!Over, Store!Goes
<1>12. Indexed'
  <2>1. card \in Store!Cards /\ card # Store!NoCard /\ UNCHANGED <<origin, vectors>>
    BY DEF Store!Toggle, Store!TypeOK
  <2>2. card' = [card EXCEPT !.active = ~req[r].seen.active]
    BY DEF Store!Toggle
  <2>3. card'.text = card.text /\ card'.summary = card.summary /\ card.text \in Text
    BY <2>1, <2>2 DEF Store!Cards
  <2>4. card' # Store!NoCard
    BY <2>3 DEF Store!NoCard, Store!None
  <2>. QED
    BY <2>1, <2>3, <2>4 DEF Indexed
<1>. QED
  BY <1>1, <1>2, <1>3, <1>4, <1>5, <1>6, <1>8, <1>9, <1>10, <1>11, <1>12

\* IInv is kept when a card is deleted.
LEMMA DeleteKeeps ==
  ASSUME CardsInv, NEW r \in Request, Store!Delete(r)
  PROVE  CardsInv'
<1>. USE CardsAssumption DEF CardsInv
<1>1. Store!TypeOK'
  <2>1. req' \in [Request -> Rows]
    <3>1. /\ req \in [Request -> Rows] /\ card \in Store!Cards \cup {Store!NoCard}
          /\ "over" \in Store!Steps
      BY DEF Store!TypeOK, Rows, Store!Steps
    <3>. QED
      BY <3>1, ReqTyped DEF Store!Delete, Store!Over, Store!Goes
  <2>2. /\ card' \in Store!Cards \cup {Store!NoCard} /\ draft' \in Store!Cards \cup {Store!NoCard}
        /\ origin' \in {Store!None, "notebook", "history"}
        /\ vectors' \in Seq(Text)
        /\ writer' \in Request \cup {Store!None}
    BY <2>1 DEF Store!TypeOK, Store!Delete
  <2>. QED
    BY <2>1, <2>2 DEF Store!TypeOK, Rows
<1>2. Carries'
  BY DEF Carries, Store!Delete, Store!Over, Store!Goes
<1>3. LockHeld'
  BY DEF LockHeld, Store!Delete, Store!Over, Store!Goes
<1>4. Unborn'
  BY DEF Unborn, AtRest, Store!Delete, Store!Over, Store!Goes
<1>5. Creating'
  BY DEF Creating, AtRest, Store!Delete, Store!Over, Store!Goes
<1>6. ByHand'
  BY DEF ByHand, Store!Delete, Store!Over, Store!Goes
<1>8. NoSummary'
  BY DEF NoSummary, NoDraft, Store!Delete, Store!Over, Store!Goes
<1>9. DraftKeeps'
  BY DEF DraftKeeps, Store!Delete, Store!Over, Store!Goes
<1>10. Drafted'
  BY DEF Drafted, Store!Delete, Store!Over, Store!Goes
<1>11. NoDraft'
  BY DEF NoDraft, Store!Delete, Store!Over, Store!Goes
<1>12. Indexed'
  BY DEF Indexed, Store!Delete, Store!Over, Store!Goes
<1>. QED
  BY <1>1, <1>2, <1>3, <1>4, <1>5, <1>6, <1>8, <1>9, <1>10, <1>11, <1>12

\* IInv is kept when a transaction is rolled back.
LEMMA FailKeeps ==
  ASSUME CardsInv, NEW r \in Request, Store!Fail(r)
  PROVE  CardsInv'
<1>. USE CardsAssumption DEF CardsInv
<1>1. Store!TypeOK'
  <2>1. req' \in [Request -> Rows]
    <3>1. /\ req \in [Request -> Rows] /\ card \in Store!Cards \cup {Store!NoCard}
          /\ "over" \in Store!Steps
      BY DEF Store!TypeOK, Rows, Store!Steps
    <3>. QED
      BY <3>1, ReqTyped DEF Store!Fail, Store!Over, Store!Goes
  <2>2. /\ card' \in Store!Cards \cup {Store!NoCard} /\ draft' \in Store!Cards \cup {Store!NoCard}
        /\ origin' \in {Store!None, "notebook", "history"}
        /\ vectors' \in Seq(Text)
        /\ writer' \in Request \cup {Store!None}
    BY <2>1 DEF Store!TypeOK, Store!Fail
  <2>. QED
    BY <2>1, <2>2 DEF Store!TypeOK, Rows
<1>2. Carries'
  BY DEF Carries, Store!Fail, Store!Over, Store!Goes
<1>3. LockHeld'
  BY DEF LockHeld, Store!TypeOK, Store!None, Store!Fail, Store!Over, Store!Goes
<1>4. Unborn'
  BY DEF Unborn, Store!TypeOK, Store!None, AtRest, Creating, Store!Fail, Store!Over, Store!Goes
<1>5. Creating'
  BY DEF Creating, AtRest, Store!Fail, Store!Over, Store!Goes
<1>6. ByHand'
  BY DEF ByHand, Store!None, AtRest, LockHeld, Creating, Store!Fail, Store!Over, Store!Goes
<1>8. NoSummary'
  BY DEF NoSummary, Store!NoCard, Store!Fail, Store!Over, Store!Goes
<1>9. DraftKeeps'
  BY DEF DraftKeeps, Store!Fail, Store!Over, Store!Goes
<1>10. Drafted'
  BY DEF Drafted, Store!Fail, Store!Over, Store!Goes
<1>11. NoDraft'
  BY DEF NoDraft, Store!Fail, Store!Over, Store!Goes
<1>12. Indexed'
  BY DEF Indexed, Store!Fail, Store!Over, Store!Goes
<1>. QED
  BY <1>1, <1>2, <1>3, <1>4, <1>5, <1>6, <1>8, <1>9, <1>10, <1>11, <1>12

\* IInv is kept when the bridge looks for a vector.
LEMMA FindVectorKeeps ==
  ASSUME CardsInv, NEW r \in Request, Store!FindVector(r)
  PROVE  CardsInv'
<1>. USE CardsAssumption DEF CardsInv
<1>1. Store!TypeOK'
  <2>1. req' \in [Request -> Rows]
    <3>1. /\ req \in [Request -> Rows] /\ card \in Store!Cards \cup {Store!NoCard}
          /\ "upsert" \in Store!Steps
      BY DEF Store!TypeOK, Rows, Store!Steps
    <3>. QED
      BY <3>1, ReqTyped DEF Store!FindVector
  <2>2. /\ card' \in Store!Cards \cup {Store!NoCard} /\ draft' \in Store!Cards \cup {Store!NoCard}
        /\ origin' \in {Store!None, "notebook", "history"}
        /\ vectors' \in Seq(Text)
        /\ writer' \in Request \cup {Store!None}
    BY <2>1 DEF Store!TypeOK, Store!FindVector
  <2>. QED
    BY <2>1, <2>2 DEF Store!TypeOK, Rows
<1>2. Carries'
  BY DEF Carries, Store!TypeOK, Store!FindVector
<1>3. LockHeld'
  BY DEF LockHeld, Store!TypeOK, Store!FindVector
<1>4. Unborn'
  BY DEF Unborn, AtRest, Store!FindVector
<1>5. Creating'
  BY DEF Creating, AtRest, LockHeld, Store!FindVector
<1>6. ByHand'
  BY DEF ByHand, Store!FindVector
<1>8. NoSummary'
  BY DEF NoSummary, Store!TypeOK, Store!FindVector
<1>9. DraftKeeps'
  BY DEF DraftKeeps, Store!FindVector
<1>10. Drafted'
  BY DEF Drafted, Store!TypeOK, Store!FindVector
<1>11. NoDraft'
  BY DEF NoDraft, Store!FindVector
<1>12. Indexed'
  BY DEF Indexed, Store!FindVector
<1>. QED
  BY <1>1, <1>2, <1>3, <1>4, <1>5, <1>6, <1>8, <1>9, <1>10, <1>11, <1>12

\* IInv is kept when the bridge writes a vector.
LEMMA UpsertKeeps ==
  ASSUME CardsInv, NEW r \in Request, Store!Upsert(r)
  PROVE  CardsInv'
<1>. USE CardsAssumption DEF CardsInv
<1>1. Store!TypeOK'
  <2>1. req' \in [Request -> Rows]
    <3>1. /\ req \in [Request -> Rows] /\ card \in Store!Cards \cup {Store!NoCard}
          /\ "over" \in Store!Steps
      BY DEF Store!TypeOK, Rows, Store!Steps
    <3>. QED
      BY <3>1, ReqTyped DEF Store!Upsert, Store!Over, Store!Goes
  <2>2. /\ card' \in Store!Cards \cup {Store!NoCard} /\ draft' \in Store!Cards \cup {Store!NoCard}
        /\ origin' \in {Store!None, "notebook", "history"}
        /\ vectors' \in Seq(Text)
        /\ writer' \in Request \cup {Store!None}
    BY VectorsTyped, <2>1 DEF Store!TypeOK, Carries, Store!Upsert
  <2>. QED
    BY <2>1, <2>2 DEF Store!TypeOK, Rows
<1>2. Carries'
  BY DEF Carries, Store!Upsert, Store!Over, Store!Goes, Store!Upserted
<1>3. LockHeld'
  BY DEF LockHeld, Store!Upsert, Store!Over, Store!Goes, Store!Upserted
<1>4. Unborn'
  BY DEF Unborn, AtRest, Store!Upsert, Store!Over, Store!Goes, Store!Upserted
<1>5. Creating'
  BY DEF Creating, AtRest, Store!Upsert, Store!Over, Store!Goes, Store!Upserted
<1>6. ByHand'
  BY DEF ByHand, Store!Upsert, Store!Over, Store!Goes, Store!Upserted
<1>8. NoSummary'
  BY DEF NoSummary, Store!Upsert, Store!Over, Store!Goes, Store!Upserted
<1>9. DraftKeeps'
  BY DEF DraftKeeps, Store!Upsert, Store!Over, Store!Goes, Store!Upserted
<1>10. Drafted'
  BY DEF Drafted, Store!Upsert, Store!Over, Store!Goes, Store!Upserted
<1>11. NoDraft'
  BY DEF NoDraft, Store!Upsert, Store!Over, Store!Goes, Store!Upserted
<1>12. Indexed'
  BY DEF Indexed, ByHand, Store!Upsert, Store!Over, Store!Goes, Store!Upserted
<1>. QED
  BY <1>1, <1>2, <1>3, <1>4, <1>5, <1>6, <1>8, <1>9, <1>10, <1>11, <1>12

-----------------------------------------------------------------------------
LEMMA CardsNext == CardsInv /\ [Store!Next]_cardsVars => CardsInv'
<1>. SUFFICES ASSUME CardsInv, [Store!Next]_cardsVars PROVE CardsInv'
  OBVIOUS
<1>1. CASE UNCHANGED cardsVars
  BY <1>1 DEF cardsVars, CardsInv, Store!TypeOK, Carries, LockHeld, Unborn, Creating, ByHand,
     NoSummary, DraftKeeps, Drafted, NoDraft, Indexed, AtRest
<1>2. CASE Store!Next
  <2>1. PICK r \in Request :
          \/ \E t \in Text, summarised \in BOOLEAN : Store!Save(r, t, summarised)
          \/ \E t \in Text : Store!Load(r, "edit", t) \/ Store!SaveHistory(r, t)
          \/ \E step \in {"toggle", "delete"} : Store!Load(r, step, Store!None)
          \/ Store!Vanished(r) \/ Store!Flush(r) \/ Store!Commit(r)
          \/ Store!Toggle(r) \/ Store!Delete(r) \/ Store!Fail(r)
          \/ Store!FindVector(r) \/ Store!Upsert(r)
    BY <1>2 DEF Store!Next
  <2>2. ASSUME NEW t \in Text, NEW s \in BOOLEAN, Store!Save(r, t, s) PROVE CardsInv'
    BY <2>2, SaveKeeps
  <2>3. ASSUME NEW t \in Text, Store!Load(r, "edit", t) PROVE CardsInv'
    BY <2>3, LoadEditKeeps
  <2>4. ASSUME NEW t \in Text, Store!SaveHistory(r, t) PROVE CardsInv'
    BY <2>4, SaveHistoryKeeps
  <2>5. ASSUME NEW step \in {"toggle", "delete"}, Store!Load(r, step, Store!None) PROVE CardsInv'
    BY <2>5, LoadOtherKeeps
  <2>6. Store!Vanished(r) \/ Store!Flush(r) \/ Store!Commit(r) => CardsInv'
    BY VanishedKeeps, FlushKeeps, CommitKeeps
  <2>7. Store!Toggle(r) \/ Store!Delete(r) \/ Store!Fail(r) => CardsInv'
    BY ToggleKeeps, DeleteKeeps, FailKeeps
  <2>8. Store!FindVector(r) \/ Store!Upsert(r) => CardsInv'
    BY FindVectorKeeps, UpsertKeeps
  <2>. QED
    BY <2>1, <2>2, <2>3, <2>4, <2>5, <2>6, <2>7, <2>8
<1>. QED
  BY <1>1, <1>2

\* What the inductive invariant says of the two stores.
LEMMA IndexedSays == ASSUME CardsInv PROVE Store!IndexedTogether
<1>1. ASSUME origin = "notebook", card # Store!NoCard
      PROVE  Len(vectors) = 1 /\ card.summary \in {Store!None, card.text}
  BY <1>1 DEF CardsInv, Indexed
<1>2. ASSUME origin = "notebook", card = Store!NoCard PROVE vectors = <<>>
  BY <1>2 DEF CardsInv, Indexed
<1>3. ASSUME origin = "notebook", NEW h \in Store!Hits PROVE h.summary \in {Store!None, h.text}
  <2>1. card # Store!NoCard
    BY <1>3 DEF Store!Hits, Store!NoCard
  <2>. QED
    BY <1>1, <1>3, <2>1 DEF Store!Hits
<1>. QED
  BY <1>1, <1>2, <1>3 DEF Store!IndexedTogether

-----------------------------------------------------------------------------
(***************************************************************************)
(* The native sessions of coding agents.                                   *)
(***************************************************************************)

Active(r) == job[r].pc \in {"context", "spawn", "stream", "result", "failed"}

\* A sequence, of whatever its members are.
IsList(q) == q \in Seq(Cli!Members(q))

JobFields   == {"pc", "binding", "attempt", "resume", "consumed", "runs", "selected", "session",
                "said"}
EntryFields == {"status", "binding", "checkpoint", "attempt", "session"}

\* The form of the state, as far as the arguments below need it.
Formed ==
    /\ DOMAIN job = CliRun
    /\ \A r \in CliRun : /\ DOMAIN job[r] = JobFields /\ job[r].pc \in Cli!Pcs
                         /\ job[r].session \in Cli!Sessions /\ job[r].resume \in Cli!Sessions
                         /\ IsList(job[r].selected)
    /\ DOMAIN entry = EntryFields
    /\ entry.session \in Cli!Sessions /\ entry.checkpoint.session \in Cli!Sessions
    /\ DOMAIN known = CliRun /\ \A s \in CliRun : IsList(known[s])
    /\ spawned \in [CliRun -> Nat]
    /\ attempted \subseteq CliRun /\ live \subseteq CliRun

\* A run is dispatched once, and its task is handed over by that dispatch only.
Once ==
    \A r \in CliRun :
        /\ r \notin attempted => job[r].pc = "idle"
        /\ spawned[r] <= 1
        /\ (r \notin attempted \/ job[r].pc \in {"context", "spawn"}) => spawned[r] = 0

\* The dispatch under way holds the lease, and the file shows it.
Leased ==
    \A r \in CliRun : Active(r) =>
        /\ lease = r /\ Cli!Owned(r)
        /\ job[r].pc \in {"context", "spawn"} => entry.session = Cli!None
        /\ job[r].pc \in {"stream", "result"} => entry.session \in {Cli!None, job[r].session}

\* A session exists once its run was handed over.
Made ==
    \A s \in CliRun :
        (\/ entry.session = s \/ entry.checkpoint.session = s
         \/ \E q \in CliRun : job[q].session = s \/ job[q].resume = s) => spawned[s] # 0

\* Nobody resumes, or has resumed, the session an orphan may be working in.
Apart ==
    \A q \in live :
        /\ job[q].pc \in {"stream", "gone"} /\ job[q].session # Cli!None
        /\ job[q].pc = "gone" =>
              /\ entry.status = "ready" => entry.checkpoint.session # job[q].session
              /\ \A r \in CliRun : Active(r) => /\ job[r].resume # job[q].session
                                                /\ job[r].session # job[q].session

\* What counts as seen was told to the session it is counted for.
Seen(r) == job[r].consumed \cup job[r].runs

Told ==
    /\ entry.status = "ready" =>
          /\ entry.checkpoint.session # Cli!None
          /\ entry.checkpoint.consumed \cup entry.checkpoint.runs
                \subseteq Cli!Members(known[entry.checkpoint.session])
    /\ \A r \in CliRun :
          /\ job[r].pc \in {"context", "spawn"} =>
                Seen(r) \subseteq IF job[r].resume = Cli!None THEN {} ELSE Cli!Members(known[job[r].resume])
          /\ job[r].pc \in {"stream", "result"} =>
                /\ job[r].session # Cli!None
                /\ Seen(r) \cup Cli!Members(job[r].selected) \cup {r}
                      \subseteq Cli!Members(known[job[r].session])

\* The formal messages: one of each run, and only of runs that are over.
Listed ==
    /\ messages \in Seq([topic : Cli!Topics, final : BOOLEAN])
    /\ \A i, j \in DOMAIN messages : messages[i].topic = messages[j].topic => i = j
    /\ \A i \in DOMAIN messages :
          messages[i].topic \in CliRun => job[messages[i].topic].pc \in {"over", "gone"}

Finished(m) ==
    m \in Other => \E h \in DOMAIN messages : messages[h].topic = m /\ messages[h].final

\* What a dispatch quotes is new to the session, and over.
Picked ==
    \A r \in CliRun : job[r].pc = "spawn" =>
        /\ \A i, j \in DOMAIN job[r].selected : job[r].selected[i] = job[r].selected[j] => i = j
        /\ Cli!Members(job[r].selected) \cap Seen(r) = {}
        /\ \A m \in Cli!Members(job[r].selected) :
              (m \in CliRun => job[m].pc \in {"over", "gone"}) /\ Finished(m)

\* What a session was told counts as seen.
Cursor ==
    /\ entry.status = "ready" =>
          Cli!Members(known[entry.checkpoint.session])
              \subseteq entry.checkpoint.consumed \cup entry.checkpoint.runs
    /\ \A r \in CliRun :
          /\ job[r].pc \in {"context", "spawn"} /\ job[r].resume # Cli!None =>
                Cli!Members(known[job[r].resume]) \subseteq Seen(r)
          /\ job[r].pc \in {"stream", "result"} =>
                Cli!Members(known[job[r].session])
                    \subseteq Seen(r) \cup Cli!Members(job[r].selected) \cup {r}

\* What a session was told, it was told once, and it was over or handed over.
Heard ==
    /\ Cli!ToldOnce
    /\ \A s \in CliRun : \A m \in Cli!Members(known[s]) :
          (m \in CliRun => job[m].pc \notin {"idle", "context", "spawn"}) /\ Finished(m)

SessionsInv == Formed /\ Once /\ Leased /\ Made /\ Apart /\ Told

Quoted == Listed /\ Picked /\ Cursor /\ Heard

-----------------------------------------------------------------------------
LEMMA EmptyList == IsList(<<>>) /\ Cli!Members(<<>>) = {}
BY DEF IsList, Cli!Members

LEMMA ListJoins ==
  ASSUME NEW p, NEW q, IsList(p), IsList(q)
  PROVE  IsList(p \o q) /\ Cli!Members(p \o q) = Cli!Members(p) \cup Cli!Members(q)
<1>. DEFINE S == Cli!Members(p) \cup Cli!Members(q)
<1>1. p \in Seq(S) /\ q \in Seq(S)
  BY SeqMonotonic DEF IsList
<1>2. /\ p \o q \in Seq(S) /\ Len(p \o q) = Len(p) + Len(q)
      /\ \A i \in 1..(Len(p) + Len(q)) :
            (p \o q)[i] = IF i <= Len(p) THEN p[i] ELSE q[i - Len(p)]
  BY <1>1, ConcatProperties
<1>3. /\ DOMAIN p = 1..Len(p) /\ DOMAIN q = 1..Len(q) /\ Len(p) \in Nat /\ Len(q) \in Nat
      /\ DOMAIN (p \o q) = 1..(Len(p) + Len(q))
  BY <1>1, <1>2, LenProperties
<1>4. ASSUME NEW i \in DOMAIN p PROVE p[i] \in Cli!Members(p \o q)
  <2>1. i \in 1..(Len(p) + Len(q)) /\ i <= Len(p)
    BY <1>3
  <2>. QED
    BY <1>2, <1>3, <2>1 DEF Cli!Members
<1>5. ASSUME NEW i \in DOMAIN q PROVE q[i] \in Cli!Members(p \o q)
  <2>1. i + Len(p) \in 1..(Len(p) + Len(q)) /\ ~(i + Len(p) <= Len(p)) /\ (i + Len(p)) - Len(p) = i
    BY <1>3
  <2>2. (p \o q)[i + Len(p)] = q[i]
    BY <1>2, <2>1
  <2>. QED
    BY <1>3, <2>1, <2>2 DEF Cli!Members
<1>6. ASSUME NEW i \in DOMAIN (p \o q) PROVE (p \o q)[i] \in S
  BY <1>2, <1>3
<1>7. Cli!Members(p \o q) = S
  <2>1. Cli!Members(p) \subseteq Cli!Members(p \o q)
    BY <1>4 DEF Cli!Members
  <2>2. Cli!Members(q) \subseteq Cli!Members(p \o q)
    BY <1>5 DEF Cli!Members
  <2>3. Cli!Members(p \o q) \subseteq S
    BY <1>6 DEF Cli!Members
  <2>. QED
    BY <2>1, <2>2, <2>3
<1>. QED
  BY <1>2, <1>7 DEF IsList

LEMMA OneList == ASSUME NEW x PROVE IsList(<<x>>) /\ Cli!Members(<<x>>) = {x}
BY DEF IsList, Cli!Members

-----------------------------------------------------------------------------
LEMMA SessionsInit == ASSUME Cli!None \notin CliRun, Cli!Init PROVE SessionsInv
<1>1. /\ entry = Cli!NoEntry /\ \A r \in CliRun : job[r] = Cli!NoJob /\ known[r] = <<>> /\ spawned[r] = 0
      /\ live = {} /\ attempted = {}
      /\ DOMAIN job = CliRun /\ DOMAIN known = CliRun /\ spawned \in [CliRun -> Nat]
  BY DEF Cli!Init
<1>2. /\ DOMAIN Cli!NoJob = JobFields /\ Cli!NoJob.pc = "idle" /\ Cli!NoJob.session = Cli!None
      /\ Cli!NoJob.resume = Cli!None /\ Cli!NoJob.selected = <<>>
  BY DEF Cli!NoJob, JobFields
<1>3. /\ DOMAIN Cli!NoEntry = EntryFields /\ Cli!NoEntry.session = Cli!None /\ Cli!NoEntry.status = "new"
      /\ Cli!NoEntry.checkpoint.session = Cli!None
  BY DEF Cli!NoEntry, EntryFields, Cli!NoCheckpoint
<1>4. Formed
  BY <1>1, <1>2, <1>3, EmptyList DEF Formed, Cli!Sessions, Cli!Pcs
<1>5. Once /\ Leased /\ Made /\ Apart /\ Told
  BY <1>1, <1>2, <1>3 DEF Once, Leased, Made, Apart, Told, Active
<1>. QED
  BY <1>4, <1>5 DEF SessionsInv

\* What the assignment of one field of one job leaves alone.
LEMMA PcIs ==
  ASSUME Formed, NEW r \in CliRun, NEW p \in Cli!Pcs, job' = [job EXCEPT ![r].pc = p]
  PROVE  /\ DOMAIN job' = CliRun /\ DOMAIN job'[r] = JobFields
         /\ \A q \in CliRun \ {r} : job'[q] = job[q]
         /\ job'[r].pc = p /\ job'[r].binding = job[r].binding /\ job'[r].attempt = job[r].attempt
         /\ job'[r].resume = job[r].resume /\ job'[r].consumed = job[r].consumed
         /\ job'[r].runs = job[r].runs /\ job'[r].selected = job[r].selected
         /\ job'[r].session = job[r].session
<1>1. DOMAIN job = CliRun /\ DOMAIN job[r] = JobFields
  BY DEF Formed
<1>. DEFINE j == [job[r] EXCEPT !.pc = p]
<1>2. /\ DOMAIN j = JobFields /\ j.pc = p /\ j.binding = job[r].binding /\ j.attempt = job[r].attempt
      /\ j.resume = job[r].resume /\ j.consumed = job[r].consumed /\ j.runs = job[r].runs
      /\ j.selected = job[r].selected /\ j.session = job[r].session
  BY <1>1 DEF JobFields
<1>3. job' = [job EXCEPT ![r] = j]
  OBVIOUS
<1>. HIDE DEF j
<1>4. DOMAIN job' = CliRun /\ job'[r] = j /\ \A q \in CliRun \ {r} : job'[q] = job[q]
  BY <1>1, <1>3
<1>. QED
  BY <1>2, <1>4

\* Nobody else is in the middle of a dispatch.
LEMMA Alone ==
  ASSUME SessionsInv, NEW r \in CliRun, Active(r)
  PROVE  \A q \in CliRun : Active(q) => q = r
BY DEF SessionsInv, Leased

\* A dispatch ends its output, whatever came of it.
LEMMA InvEnds ==
  ASSUME Cli!None \notin CliRun, SessionsInv, NEW r \in CliRun,
         Cli!SpawnFails(r) \/ Cli!StreamEnds(r, TRUE) \/ Cli!StreamEnds(r, FALSE) \/ Cli!HeedStop(r)
  PROVE  SessionsInv'
<1>1. PICK p \in {"result", "failed"} :
      /\ job[r].pc \in {"spawn", "stream", "result"} /\ job' = [job EXCEPT ![r].pc = p]
      /\ p = "result" => job[r].pc = "stream"
      /\ live' \subseteq live /\ (r \in live' => job[r].pc = "spawn")
      /\ UNCHANGED <<entry, attempted, lease, known, spawned>>
  BY DEF Cli!SpawnFails, Cli!StreamEnds, Cli!HeedStop
<1>2. p \in Cli!Pcs /\ Active(r) /\ r \notin live'
  BY <1>1 DEF Cli!Pcs, Active, SessionsInv, Apart
<1>3. /\ DOMAIN job' = CliRun /\ DOMAIN job'[r] = JobFields
      /\ \A q \in CliRun \ {r} : job'[q] = job[q]
      /\ job'[r].pc = p /\ job'[r].binding = job[r].binding /\ job'[r].attempt = job[r].attempt
      /\ job'[r].resume = job[r].resume /\ job'[r].consumed = job[r].consumed
      /\ job'[r].runs = job[r].runs /\ job'[r].selected = job[r].selected
      /\ job'[r].session = job[r].session
  BY <1>1, <1>2, PcIs DEF SessionsInv
<1>4. Formed'
  BY <1>1, <1>2, <1>3 DEF SessionsInv, Formed, IsList
<1>5. Once'
  BY <1>1, <1>2, <1>3 DEF SessionsInv, Once, Active
<1>6. Leased'
  BY <1>1, <1>2, <1>3 DEF SessionsInv, Leased, Active, Cli!Owned
<1>7. Made'
  BY <1>1, <1>3 DEF SessionsInv, Made
<1>8. Apart'
  <2>1. \A q \in live' : q \in CliRun /\ job'[q] = job[q]
    BY <1>1, <1>2, <1>3 DEF SessionsInv, Formed
  <2>2. \A q \in CliRun : Active(q)' => Active(q) /\ job'[q].resume = job[q].resume
                                        /\ job'[q].session = job[q].session
    BY <1>2, <1>3 DEF Active
  <2>. QED
    BY <1>1, <2>1, <2>2 DEF SessionsInv, Apart
<1>9. Told'
  BY <1>1, <1>2, <1>3 DEF SessionsInv, Told, Seen, Active
<1>. QED
  BY <1>4, <1>5, <1>6, <1>7, <1>8, <1>9 DEF SessionsInv

\* A new dispatch: the attempt is durable, and only a settled session is resumed.
LEMMA InvBegin ==
  ASSUME Cli!None \notin CliRun, SessionsInv, NEW r \in CliRun, NEW b \in Binding, Cli!Begin(r, b)
  PROVE  SessionsInv'
<1>. DEFINE state == Cli!Project(b)
            j == [Cli!NoJob EXCEPT !.pc = "context", !.binding = b, !.attempt = attempts + 1,
                                   !.resume = state.session, !.consumed = state.consumed,
                                   !.runs = state.runs]
            e == [status |-> "inflight", binding |-> b, checkpoint |-> entry.checkpoint,
                  attempt |-> attempts + 1, session |-> Cli!None]
<1>1. /\ r \notin attempted /\ attempted' = attempted \cup {r} /\ lease = Cli!None /\ lease' = r
      /\ entry' = e /\ job' = [job EXCEPT ![r] = j]
      /\ UNCHANGED <<known, live, spawned>>
  BY DEF Cli!Begin, Cli!MayBegin, Cli!Dispatched
<1>2. /\ DOMAIN j = JobFields /\ j.pc = "context" /\ j.binding = b /\ j.attempt = attempts + 1
      /\ j.resume = state.session /\ j.consumed = state.consumed /\ j.runs = state.runs
      /\ j.selected = <<>> /\ j.session = Cli!None
  BY DEF Cli!NoJob, JobFields
<1>3. /\ state.session \in Cli!Sessions
      /\ state.session = Cli!None \/ state.session = entry.checkpoint.session
      /\ state.session # Cli!None => entry.status = "ready"
      /\ state.consumed \cup state.runs \subseteq
            IF state.session = Cli!None THEN {} ELSE Cli!Members(known[state.session])
  <2>1. CASE entry.status = "ready" /\ state = entry.checkpoint
    BY <2>1 DEF SessionsInv, Formed, Told
  <2>2. CASE state = Cli!NoCheckpoint
    BY <2>2 DEF Cli!NoCheckpoint, Cli!Sessions
  <2>. QED
    BY <2>1, <2>2 DEF Cli!Project
<1>4. /\ DOMAIN e = EntryFields /\ e.session = Cli!None /\ e.status = "inflight" /\ e.binding = b
      /\ e.attempt = attempts + 1 /\ e.checkpoint = entry.checkpoint
  BY DEF EntryFields
<1>. HIDE DEF e, j, state
<1>5. DOMAIN job' = CliRun /\ job'[r] = j /\ \A q \in CliRun \ {r} : job'[q] = job[q]
  BY <1>1 DEF SessionsInv, Formed
<1>6. \A q \in CliRun : ~Active(q)
  BY <1>1 DEF SessionsInv, Leased
<1>7. job[r].pc = "idle" /\ spawned[r] = 0 /\ r \notin live
  BY <1>1 DEF SessionsInv, Once, Apart
<1>8. Formed'
  <2>1. ASSUME NEW q \in CliRun
        PROVE  /\ DOMAIN job'[q] = JobFields /\ job'[q].pc \in Cli!Pcs
               /\ job'[q].session \in Cli!Sessions /\ job'[q].resume \in Cli!Sessions
               /\ IsList(job'[q].selected)
    <3>1. CASE q = r
      BY <1>2, <1>3, <1>5, <3>1, EmptyList DEF Cli!Pcs, Cli!Sessions
    <3>2. CASE q # r
      BY <1>5, <3>2 DEF SessionsInv, Formed
    <3>. QED
      BY <3>1, <3>2
  <2>2. /\ DOMAIN entry' = EntryFields /\ entry'.session \in Cli!Sessions
        /\ entry'.checkpoint.session \in Cli!Sessions
    BY <1>1, <1>4 DEF SessionsInv, Formed, Cli!Sessions
  <2>3. attempted' \subseteq CliRun
    BY <1>1 DEF SessionsInv, Formed
  <2>4. \A q \in CliRun : IsList(job[q].selected)' /\ IsList(known[q])'
    BY SMTT(30), <1>1, <2>1 DEF SessionsInv, Formed, IsList
  <2>. QED
    BY <1>1, <1>5, <2>1, <2>2, <2>3, <2>4 DEF SessionsInv, Formed
<1>9. Once'
  BY <1>1, <1>2, <1>5, <1>7 DEF SessionsInv, Once
<1>10. Leased'
  BY <1>1, <1>2, <1>4, <1>5, <1>6 DEF Leased, Active, Cli!Owned
<1>11. Made'
  BY <1>1, <1>2, <1>3, <1>4, <1>5 DEF SessionsInv, Made
<1>12. Apart'
  <2>1. ASSUME NEW q \in live'
        PROVE  /\ job'[q] = job[q] /\ q \in CliRun /\ job[q].pc = "gone" /\ job[q].session # Cli!None
               /\ entry.status = "ready" => entry.checkpoint.session # job[q].session
    <3>1. q \in live /\ q \in CliRun /\ q # r
      BY <1>1, <1>7 DEF SessionsInv, Formed
    <3>2. job[q].pc \in {"stream", "gone"} /\ job[q].session # Cli!None
          /\ (job[q].pc = "gone" /\ entry.status = "ready" =>
                 entry.checkpoint.session # job[q].session)
      BY <3>1 DEF SessionsInv, Apart
    <3>. QED
      BY <1>5, <1>6, <3>1, <3>2 DEF Active
  <2>2. \A q \in CliRun : Active(q)' => q = r
    BY <1>5, <1>6 DEF Active
  <2>3. entry'.status # "ready"
    BY <1>1, <1>4
  <2>4. ASSUME NEW q \in live' PROVE job'[r].resume # job'[q].session /\ job'[r].session # job'[q].session
    BY <1>2, <1>3, <1>5, <2>1
  <2>. QED
    BY <2>1, <2>2, <2>3, <2>4 DEF Apart
<1>13. Told'
  <2>1. \A q \in CliRun \ {r} : Seen(q)' = Seen(q)
    BY <1>5 DEF Seen
  <2>2. Seen(r)' \subseteq IF job'[r].resume = Cli!None THEN {} ELSE Cli!Members(known'[job'[r].resume])
    BY <1>1, <1>2, <1>3, <1>5 DEF Seen
  <2>3. \A q \in CliRun \ {r} : job'[q].pc \notin {"context", "spawn", "stream", "result"}
    BY <1>5, <1>6 DEF Active
  <2>. QED
    BY <1>1, <1>2, <1>4, <1>5, <2>2, <2>3 DEF Told
<1>. QED
  BY <1>8, <1>9, <1>10, <1>11, <1>12, <1>13 DEF SessionsInv

\* The messages a dispatch is about to quote, whatever they are, are a sequence.
LEMMA InvContext ==
  ASSUME Cli!None \notin CliRun, SessionsInv, NEW r \in CliRun, Cli!BuildContext(r)
  PROVE SessionsInv'
<1>1. PICK k \in 0 .. MaxTurns : \E place \in [1 .. k -> Cli!Unseen(r)] :
          job' = [job EXCEPT ![r].pc = "spawn",
                      ![r].selected = [i \in 1 .. k |-> messages[place[i]].topic]]
  BY DEF Cli!BuildContext
<1>2. PICK place \in [1 .. k -> Cli!Unseen(r)] :
          job' = [job EXCEPT ![r].pc = "spawn",
                      ![r].selected = [i \in 1 .. k |-> messages[place[i]].topic]]
  BY <1>1
<1>. DEFINE picked == [i \in 1 .. k |-> messages[place[i]].topic]
            j == [job[r] EXCEPT !.pc = "spawn", !.selected = picked]
<1>3. IsList(picked)
  <2>1. picked \in [1 .. k -> Cli!Members(picked)]
    BY DEF Cli!Members
  <2>. HIDE DEF picked
  <2>2. k \in Nat
    BY SessionsAssumption
  <2>3. PICK S : S = Cli!Members(picked)
    OBVIOUS
  <2>4. picked \in [1 .. k -> S]
    BY <2>1, <2>3
  <2>5. picked \in Seq(S)
    BY ONLY <2>2, <2>4, SeqDef
  <2>. QED
    BY <2>3, <2>5 DEF IsList
<1>4. job' = [job EXCEPT ![r] = j] /\ DOMAIN job = CliRun /\ DOMAIN job[r] = JobFields
  BY <1>2 DEF SessionsInv, Formed
<1>. HIDE DEF picked
<1>5. /\ DOMAIN j = JobFields /\ j.pc = "spawn" /\ j.selected = picked /\ j.binding = job[r].binding
      /\ j.attempt = job[r].attempt /\ j.resume = job[r].resume /\ j.consumed = job[r].consumed
      /\ j.runs = job[r].runs /\ j.session = job[r].session
  BY <1>4 DEF JobFields
<1>. HIDE DEF j
<1>6. DOMAIN job' = CliRun /\ job'[r] = j /\ \A q \in CliRun \ {r} : job'[q] = job[q]
  BY <1>4
<1>7. job[r].pc = "context" /\ UNCHANGED <<entry, attempted, lease, known, live, spawned>>
  BY DEF Cli!BuildContext
<1>8. Formed'
  BY <1>3, <1>5, <1>6, <1>7 DEF SessionsInv, Formed, IsList, Cli!Pcs
<1>9. Once'
  BY <1>5, <1>6, <1>7 DEF SessionsInv, Once
<1>10. Leased'
  BY <1>5, <1>6, <1>7 DEF SessionsInv, Leased, Active, Cli!Owned
<1>11. Made'
  BY <1>5, <1>6, <1>7 DEF SessionsInv, Made
<1>12. Apart'
  <2>1. r \notin live
    BY <1>7 DEF SessionsInv, Apart
  <2>2. \A q \in live' : q \in CliRun /\ job'[q] = job[q]
    BY <1>6, <1>7, <2>1 DEF SessionsInv, Formed
  <2>3. \A q \in CliRun : Active(q)' => Active(q) /\ job'[q].resume = job[q].resume
                                        /\ job'[q].session = job[q].session
    BY <1>5, <1>6, <1>7 DEF Active
  <2>. QED
    BY <1>7, <2>2, <2>3 DEF SessionsInv, Apart
<1>13. Told'
  <2>1. \A q \in CliRun : Seen(q)' = Seen(q)
    BY <1>5, <1>6 DEF Seen
  <2>2. ASSUME NEW q \in CliRun, q # r
        PROVE  job'[q] = job[q]
    BY <1>6, <2>2
  <2>3. /\ Seen(r) \subseteq IF job[r].resume = Cli!None THEN {} ELSE Cli!Members(known[job[r].resume])
        /\ job'[r].resume = job[r].resume /\ job'[r].pc = "spawn"
    BY <1>5, <1>6, <1>7 DEF SessionsInv, Told
  <2>. QED
    BY <1>7, <2>1, <2>2, <2>3 DEF SessionsInv, Told
<1>. QED
  BY <1>8, <1>9, <1>10, <1>11, <1>12, <1>13 DEF SessionsInv

\* The hand-over: the session, resumed or new, now knows what was left out, what
\* was quoted, and the task.
LEMMA InvSpawn ==
  ASSUME Cli!None \notin CliRun, SessionsInv, NEW r \in CliRun, Cli!Spawn(r)
  PROVE SessionsInv'
<1>. DEFINE before == IF job[r].resume = Cli!None THEN <<>> ELSE known[job[r].resume]
            told   == before \o job[r].selected \o <<r>>
<1>1. PICK s \in {r} \cup ({job[r].resume} \ {Cli!None}) :
          /\ known' = [known EXCEPT ![s] = told]
          /\ job' = [job EXCEPT ![r].pc = "stream", ![r].session = s]
  BY DEF Cli!Spawn
<1>2. /\ job[r].pc = "spawn" /\ live' = live \cup {r}
      /\ spawned' = [spawned EXCEPT ![r] = spawned[r] + 1]
      /\ UNCHANGED <<entry, attempted, lease>>
  BY DEF Cli!Spawn
<1>3. s \in CliRun /\ s # Cli!None /\ job[r].resume \in Cli!Sessions
  BY <1>1 DEF SessionsInv, Formed, Cli!Sessions
<1>4. IsList(before) /\ Seen(r) \subseteq Cli!Members(before)
  <2>1. CASE job[r].resume = Cli!None
    BY <1>2, <2>1, EmptyList DEF SessionsInv, Told
  <2>2. CASE job[r].resume # Cli!None
    BY <1>2, <1>3, <2>2 DEF SessionsInv, Told, Formed, Cli!Sessions
  <2>. QED
    BY <2>1, <2>2
<1>5. IsList(told) /\ Cli!Members(told) = Cli!Members(before) \cup Cli!Members(job[r].selected) \cup {r}
  <2>1. IsList(job[r].selected)
    BY DEF SessionsInv, Formed
  <2>. HIDE DEF before
  <2>2. IsList(before \o job[r].selected)
        /\ Cli!Members(before \o job[r].selected) = Cli!Members(before) \cup Cli!Members(job[r].selected)
    BY <1>4, <2>1, ListJoins
  <2>. QED
    BY <2>2, OneList, ListJoins
<1>. HIDE DEF before, told
<1>. DEFINE j == [job[r] EXCEPT !.pc = "stream", !.session = s]
<1>6. job' = [job EXCEPT ![r] = j] /\ DOMAIN job = CliRun /\ DOMAIN job[r] = JobFields
  BY <1>1 DEF SessionsInv, Formed
<1>7. /\ DOMAIN j = JobFields /\ j.pc = "stream" /\ j.session = s /\ j.binding = job[r].binding
      /\ j.attempt = job[r].attempt /\ j.resume = job[r].resume /\ j.consumed = job[r].consumed
      /\ j.runs = job[r].runs /\ j.selected = job[r].selected
  BY <1>6 DEF JobFields
<1>. HIDE DEF j
<1>8. DOMAIN job' = CliRun /\ job'[r] = j /\ \A q \in CliRun \ {r} : job'[q] = job[q]
  BY <1>6
<1>9. DOMAIN known' = CliRun /\ known'[s] = told /\ \A q \in CliRun \ {s} : known'[q] = known[q]
  BY <1>1, <1>3 DEF SessionsInv, Formed
<1>10. spawned[r] = 0
  BY <1>2 DEF SessionsInv, Once
<1>11. /\ spawned' \in [CliRun -> Nat] /\ spawned'[r] = 1
       /\ \A q \in CliRun \ {r} : spawned'[q] = spawned[q]
  BY <1>2, <1>10 DEF SessionsInv, Formed
<1>12. Active(r) /\ \A q \in CliRun \ {r} : ~Active(q)
  <2>1. Active(r)
    BY <1>2 DEF Active
  <2>. QED
    BY <2>1, Alone
<1>13. Formed'
  <2>1. \A q \in CliRun : IsList(known'[q])
    BY <1>5, <1>9 DEF SessionsInv, Formed
  <2>2. ASSUME NEW q \in CliRun
        PROVE  /\ DOMAIN job'[q] = JobFields /\ job'[q].pc \in Cli!Pcs
               /\ job'[q].session \in Cli!Sessions /\ job'[q].resume \in Cli!Sessions
               /\ IsList(job'[q].selected)
    <3>1. CASE q = r
      BY <1>3, <1>7, <1>8, <3>1 DEF SessionsInv, Formed, Cli!Pcs, Cli!Sessions
    <3>2. CASE q # r
      BY <1>8, <3>2 DEF SessionsInv, Formed
    <3>. QED
      BY <3>1, <3>2
  <2>3. live' \subseteq CliRun
    BY <1>2 DEF SessionsInv, Formed
  <2>4. \A q \in CliRun : IsList(job[q].selected)' /\ IsList(known[q])'
    BY <2>1, <2>2 DEF IsList, Cli!Members
  <2>. QED
    BY <1>2, <1>8, <1>9, <1>11, <2>2, <2>3, <2>4 DEF SessionsInv, Formed
<1>14. Once'
  <2>1. r \in attempted
    BY <1>2 DEF SessionsInv, Once
  <2>. QED
    BY <1>2, <1>7, <1>8, <1>11, <2>1 DEF SessionsInv, Once
<1>15. Leased'
  <2>1. entry.session = Cli!None /\ lease = r /\ Cli!Owned(r)
    BY <1>2, <1>12 DEF SessionsInv, Leased
  <2>2. \A q \in CliRun \ {r} : ~Active(q)'
    BY <1>8, <1>12 DEF Active
  <2>3. Cli!Owned(r)'
    BY <1>2, <1>7, <1>8, <2>1 DEF Cli!Owned
  <2>. QED
    BY <1>2, <1>7, <1>8, <2>1, <2>2, <2>3 DEF Leased
<1>16. Made'
  <2>1. ASSUME NEW z \in CliRun, entry'.session = z \/ entry'.checkpoint.session = z
        PROVE  spawned'[z] # 0
    BY <1>2, <1>11, <2>1 DEF SessionsInv, Made
  <2>2. ASSUME NEW z \in CliRun, NEW q \in CliRun, job'[q].session = z \/ job'[q].resume = z
        PROVE  spawned'[z] # 0
    <3>1. z = r \/ job[q].session = z \/ job[q].resume = z
      BY <1>1, <1>7, <1>8, <2>2
    <3>. QED
      BY <1>11, <3>1 DEF SessionsInv, Made
  <2>. QED
    BY <2>1, <2>2 DEF Made
<1>17. Apart'
  <2>1. ASSUME NEW q \in live', q # r
        PROVE  /\ q \in CliRun /\ job'[q] = job[q] /\ job[q].pc = "gone" /\ job[q].session # Cli!None
               /\ job[r].resume # job[q].session /\ s # job[q].session
               /\ entry.status = "ready" => entry.checkpoint.session # job[q].session
    <3>1. q \in live /\ q \in CliRun /\ job[q].pc \in {"stream", "gone"} /\ job[q].session # Cli!None
      BY <1>2, <2>1 DEF SessionsInv, Formed, Apart
    <3>2. job[q].pc = "gone"
      BY <1>12, <2>1, <3>1 DEF Active
    <3>3. job[r].resume # job[q].session
          /\ (entry.status = "ready" => entry.checkpoint.session # job[q].session)
      BY <1>12, <3>1, <3>2 DEF SessionsInv, Apart
    <3>4. spawned[job[q].session] # 0
      BY <3>1 DEF SessionsInv, Made, Formed, Cli!Sessions
    <3>. QED
      BY <1>1, <1>8, <1>10, <2>1, <3>1, <3>2, <3>3, <3>4
  <2>2. \A q \in CliRun \ {r} : ~Active(q)'
    BY <1>8, <1>12 DEF Active
  <2>. QED
    BY <1>2, <1>3, <1>7, <1>8, <2>1, <2>2 DEF Apart
<1>18. Told'
  <2>1. entry'.status # "ready"
    BY <1>2, <1>12 DEF SessionsInv, Leased, Cli!Owned
  <2>2. \A q \in CliRun \ {r} : job'[q].pc \notin {"context", "spawn", "stream", "result"}
    BY <1>8, <1>12 DEF Active
  <2>3. Seen(r)' = Seen(r) /\ Cli!Members(job[r].selected)' = Cli!Members(job[r].selected)
    BY <1>7, <1>8 DEF Seen, Cli!Members
  <2>4. Cli!Members(known[job[r].session])' = Cli!Members(told)
    BY <1>7, <1>8, <1>9 DEF Cli!Members
  <2>5. Seen(r) \cup Cli!Members(job[r].selected) \cup {r} \subseteq Cli!Members(told)
    BY <1>4, <1>5
  <2>6. job'[r].pc = "stream" /\ job'[r].session # Cli!None
    BY <1>3, <1>7, <1>8
  <2>7. Seen(r)' \cup Cli!Members(job'[r].selected) \cup {r} \subseteq Cli!Members(known'[job'[r].session])
    BY <2>3, <2>4, <2>5 DEF Cli!Members
  <2>. QED
    BY <2>1, <2>2, <2>6, <2>7 DEF Told
<1>. QED
  BY <1>13, <1>14, <1>15, <1>16, <1>17, <1>18 DEF SessionsInv

\* The evidence of a session is of the session the dispatch works in.
LEMMA InvNote ==
  ASSUME Cli!None \notin CliRun, SessionsInv, NEW r \in CliRun, Cli!NoteSession(r)
  PROVE SessionsInv'
<1>1. /\ job[r].pc = "stream" /\ entry' = [entry EXCEPT !.session = job[r].session]
      /\ job' = [job EXCEPT ![r].said = TRUE]
      /\ UNCHANGED <<attempted, lease, known, live, spawned>>
  BY DEF Cli!NoteSession
<1>2. Active(r) /\ DOMAIN job = CliRun /\ DOMAIN job[r] = JobFields /\ DOMAIN entry = EntryFields
  BY <1>1 DEF Active, SessionsInv, Formed
<1>3. /\ DOMAIN entry' = EntryFields /\ entry'.session = job[r].session
      /\ entry'.status = entry.status /\ entry'.binding = entry.binding
      /\ entry'.attempt = entry.attempt /\ entry'.checkpoint = entry.checkpoint
  BY <1>1, <1>2 DEF EntryFields
<1>. DEFINE j == [job[r] EXCEPT !.said = TRUE]
<1>4. /\ DOMAIN j = JobFields /\ j.pc = job[r].pc /\ j.session = job[r].session
      /\ j.binding = job[r].binding /\ j.attempt = job[r].attempt /\ j.resume = job[r].resume
      /\ j.consumed = job[r].consumed /\ j.runs = job[r].runs /\ j.selected = job[r].selected
  BY <1>2 DEF JobFields
<1>5. job' = [job EXCEPT ![r] = j]
  BY <1>1
<1>. HIDE DEF j
<1>6. /\ DOMAIN job' = CliRun
      /\ \A q \in CliRun : /\ DOMAIN job'[q] = JobFields
                           /\ job'[q].pc = job[q].pc /\ job'[q].session = job[q].session
                           /\ job'[q].binding = job[q].binding /\ job'[q].attempt = job[q].attempt
                           /\ job'[q].resume = job[q].resume /\ job'[q].consumed = job[q].consumed
                           /\ job'[q].runs = job[q].runs /\ job'[q].selected = job[q].selected
  BY <1>2, <1>4, <1>5 DEF SessionsInv, Formed
<1>7. \A q \in CliRun : Active(q)' <=> Active(q)
  BY <1>6 DEF Active
<1>8. Formed'
  BY <1>1, <1>3, <1>6 DEF SessionsInv, Formed, IsList
<1>9. Once'
  BY <1>1, <1>6 DEF SessionsInv, Once
<1>10. Leased'
  <2>1. \A q \in CliRun : Active(q)' => q = r
    BY <1>2, <1>7, Alone
  <2>2. lease = r /\ Cli!Owned(r)
    BY <1>2 DEF SessionsInv, Leased
  <2>3. Cli!Owned(r)'
    BY <1>3, <1>6, <2>2 DEF Cli!Owned
  <2>. QED
    BY <1>1, <1>3, <1>6, <2>1, <2>2, <2>3 DEF Leased
<1>11. Made'
  BY <1>1, <1>3, <1>6 DEF SessionsInv, Made
<1>12. Apart'
  BY SMTT(30), <1>1, <1>3, <1>6, <1>7 DEF SessionsInv, Apart, Formed
<1>13. Told'
  <2>1. \A q \in CliRun : Seen(q)' = Seen(q)
    BY <1>6 DEF Seen
  <2>. QED
    BY <1>1, <1>3, <1>6, <2>1 DEF SessionsInv, Told
<1>. QED
  BY <1>8, <1>9, <1>10, <1>11, <1>12, <1>13 DEF SessionsInv

\* What a thread leaves behind when it is over or gone.
LEMMA EndedIs ==
  ASSUME Formed, NEW r \in CliRun, NEW p \in {"over", "gone"}, job' = [job EXCEPT ![r] = Cli!Ended(r, p)]
  PROVE  /\ DOMAIN job' = CliRun /\ \A q \in CliRun \ {r} : job'[q] = job[q]
         /\ DOMAIN job'[r] = JobFields /\ job'[r].pc = p /\ job'[r].resume = Cli!None
         /\ job'[r].selected = <<>>
         /\ job'[r].session = (IF r \in live THEN job[r].session ELSE Cli!None)
<1>1. /\ DOMAIN Cli!Ended(r, p) = JobFields /\ Cli!Ended(r, p).pc = p /\ Cli!Ended(r, p).resume = Cli!None
      /\ Cli!Ended(r, p).selected = <<>>
      /\ Cli!Ended(r, p).session = (IF r \in live THEN job[r].session ELSE Cli!None)
  BY DEF Cli!Ended, Cli!NoJob, JobFields
<1>2. DOMAIN job = CliRun
  BY DEF Formed
<1>. QED
  BY <1>1, <1>2

\* A dispatch is over: its session is the next one to resume, or none is.
LEMMA InvOver ==
  ASSUME Cli!None \notin CliRun, SessionsInv, NEW r \in CliRun, Cli!Commit(r) \/ Cli!Close(r)
  PROVE SessionsInv'
<1>1. /\ job[r].pc \in {"result", "failed"} /\ job' = [job EXCEPT ![r] = Cli!Ended(r, "over")]
      /\ UNCHANGED <<attempted, known, live, spawned>>
  BY DEF Cli!Commit, Cli!Close
<1>2. Active(r) /\ r \notin live /\ lease = r /\ Cli!Owned(r) /\ DOMAIN entry = EntryFields
  BY <1>1 DEF Active, SessionsInv, Leased, Apart, Formed
<1>3. /\ DOMAIN job' = CliRun /\ \A q \in CliRun \ {r} : job'[q] = job[q]
      /\ DOMAIN job'[r] = JobFields /\ job'[r].pc = "over" /\ job'[r].resume = Cli!None
      /\ job'[r].selected = <<>> /\ job'[r].session = Cli!None
  BY <1>1, <1>2, EndedIs DEF SessionsInv
<1>4. \/ /\ entry' = [entry EXCEPT !.status = "uncertain"]
      \/ /\ job[r].pc = "result" /\ entry.session # Cli!None
         /\ entry' = [entry EXCEPT !.status = "ready",
                         !.checkpoint = [session |-> entry.session, binding |-> job[r].binding,
                                         consumed |-> job[r].consumed \cup Cli!Members(job[r].selected),
                                         runs |-> job[r].runs \cup {r}]]
  BY <1>2 DEF Cli!Commit, Cli!Close
<1>. DEFINE cp   == entry'.checkpoint
            next == [session |-> entry.session, binding |-> job[r].binding,
                     consumed |-> job[r].consumed \cup Cli!Members(job[r].selected),
                     runs |-> job[r].runs \cup {r}]
<1>5. /\ DOMAIN entry' = EntryFields /\ entry'.session = entry.session
      /\ \/ entry'.status = "uncertain" /\ cp = entry.checkpoint
         \/ /\ entry'.status = "ready" /\ job[r].pc = "result" /\ entry.session # Cli!None
            /\ cp.session = entry.session
            /\ cp.consumed = job[r].consumed \cup Cli!Members(job[r].selected)
            /\ cp.runs = job[r].runs \cup {r}
  <2>1. CASE entry' = [entry EXCEPT !.status = "uncertain"]
    BY <1>2, <2>1 DEF EntryFields
  <2>2. CASE /\ job[r].pc = "result" /\ entry.session # Cli!None
             /\ entry' = [entry EXCEPT !.status = "ready", !.checkpoint = next]
    <3>1. /\ next.session = entry.session
          /\ next.consumed = job[r].consumed \cup Cli!Members(job[r].selected)
          /\ next.runs = job[r].runs \cup {r}
      OBVIOUS
    <3>. HIDE DEF next
    <3>2. /\ DOMAIN entry' = EntryFields /\ entry'.session = entry.session
          /\ entry'.status = "ready" /\ cp = next
      BY <1>2, <2>2 DEF EntryFields
    <3>. QED
      BY <2>2, <3>1, <3>2
  <2>. QED
    BY <1>4, <2>1, <2>2
<1>. HIDE DEF cp
<1>6. \A q \in CliRun : ~Active(q)'
  <2>1. \A q \in CliRun \ {r} : ~Active(q)
    BY <1>2, Alone
  <2>. QED
    BY <1>3, <2>1 DEF Active
<1>7. entry'.status = "ready" => cp.session = job[r].session /\ cp.session \in CliRun
  <2>1. (job[r].pc = "result" /\ entry.session # Cli!None) => entry.session = job[r].session
    BY <1>2 DEF SessionsInv, Leased
  <2>2. entry.session \in Cli!Sessions
    BY DEF SessionsInv, Formed
  <2>. QED
    BY <1>5, <2>1, <2>2 DEF Cli!Sessions
<1>8. Formed'
  <2>1. cp.session \in Cli!Sessions
    BY <1>5 DEF SessionsInv, Formed
  <2>2. \A q \in CliRun : IsList(job[q].selected)'
    BY <1>3, EmptyList DEF SessionsInv, Formed, IsList
  <2>. QED
    BY <1>1, <1>3, <1>5, <2>1, <2>2 DEF SessionsInv, Formed, Cli!Pcs, Cli!Sessions, cp, IsList
<1>9. Once'
  <2>1. r \in attempted
    BY <1>1 DEF SessionsInv, Once
  <2>. QED
    BY <1>1, <1>3, <2>1 DEF SessionsInv, Once
<1>10. Leased'
  BY <1>6 DEF Leased
<1>11. Made'
  <2>1. entry'.checkpoint.session \in {entry.session, entry.checkpoint.session}
    BY <1>5 DEF cp
  <2>. QED
    BY <1>1, <1>3, <1>5, <2>1 DEF SessionsInv, Made
<1>12. Apart'
  <2>1. ASSUME NEW q \in live'
        PROVE  /\ q \in CliRun /\ job'[q] = job[q] /\ job[q].pc = "gone" /\ job[q].session # Cli!None
               /\ job[r].session # job[q].session
    <3>1. q \in live /\ q \in CliRun /\ q # r /\ job[q].pc \in {"stream", "gone"}
          /\ job[q].session # Cli!None
      BY <1>1, <1>2 DEF SessionsInv, Formed, Apart
    <3>2. ~Active(q)
      BY <1>2, <3>1, Alone
    <3>3. job[q].pc = "gone"
      BY <3>1, <3>2 DEF Active
    <3>. QED
      BY <1>2, <1>3, <3>1, <3>3 DEF SessionsInv, Apart
  <2>. QED
    BY <1>6, <1>7, <2>1 DEF Apart, cp
<1>13. Told'
  <2>1. ASSUME entry'.status = "ready"
        PROVE  cp.session # Cli!None /\ cp.consumed \cup cp.runs \subseteq Cli!Members(known[cp.session])
    <3>1. /\ job[r].pc = "result" /\ cp.session = job[r].session
          /\ cp.consumed = job[r].consumed \cup Cli!Members(job[r].selected)
          /\ cp.runs = job[r].runs \cup {r}
      BY <1>5, <1>7, <2>1
    <3>2. Seen(r) \cup Cli!Members(job[r].selected) \cup {r} \subseteq Cli!Members(known[job[r].session])
          /\ job[r].session # Cli!None
      BY <3>1 DEF SessionsInv, Told
    <3>. QED
      BY <3>1, <3>2 DEF Seen
  <2>2. \A q \in CliRun : job'[q].pc \notin {"context", "spawn", "stream", "result"}
    BY <1>6 DEF Active
  <2>. QED
    BY <1>1, <2>1, <2>2 DEF Told, cp
<1>. QED
  BY <1>8, <1>9, <1>10, <1>11, <1>12, <1>13 DEF SessionsInv

\* The process dies: the CLI may go on in its session, which nobody will resume,
\* because the entry of the file was never settled.
LEMMA InvCrash ==
  ASSUME Cli!None \notin CliRun, SessionsInv, NEW r \in CliRun, Cli!Crash(r)
  PROVE SessionsInv'
<1>1. /\ job[r].pc \notin {"idle", "gone"} /\ job' = [job EXCEPT ![r] = Cli!Ended(r, "gone")]
      /\ lease' = (IF lease = r THEN Cli!None ELSE lease)
      /\ UNCHANGED <<entry, attempted, known, live, spawned>>
  BY DEF Cli!Crash, Cli!Release
<1>2. /\ DOMAIN job' = CliRun /\ \A q \in CliRun \ {r} : job'[q] = job[q]
      /\ DOMAIN job'[r] = JobFields /\ job'[r].pc = "gone" /\ job'[r].resume = Cli!None
      /\ job'[r].selected = <<>>
      /\ job'[r].session = (IF r \in live THEN job[r].session ELSE Cli!None)
  BY <1>1, EndedIs DEF SessionsInv
<1>3. r \in live => job[r].pc = "stream" /\ job[r].session # Cli!None
  BY <1>1 DEF SessionsInv, Apart
<1>4. ASSUME NEW q \in CliRun, Active(q)'
      PROVE  q # r /\ Active(q) /\ job'[q] = job[q]
  BY <1>2, <1>4 DEF Active
<1>5. Formed'
  <2>1. \A q \in CliRun : IsList(job[q].selected)'
    BY <1>2, EmptyList DEF SessionsInv, Formed, IsList
  <2>. QED
    BY <1>1, <1>2, <2>1 DEF SessionsInv, Formed, Cli!Pcs, Cli!Sessions, IsList
<1>6. Once'
  <2>1. r \in attempted
    BY <1>1 DEF SessionsInv, Once
  <2>. QED
    BY <1>1, <1>2, <2>1 DEF SessionsInv, Once
<1>7. Leased'
  <2>1. ASSUME NEW q \in CliRun, Active(q)'
        PROVE  /\ lease' = q /\ Cli!Owned(q)'
               /\ job'[q].pc \in {"context", "spawn"} => entry'.session = Cli!None
               /\ job'[q].pc \in {"stream", "result"} => entry'.session \in {Cli!None, job'[q].session}
    <3>1. q # r /\ Active(q) /\ job'[q] = job[q]
      BY <1>4, <2>1
    <3>2. lease = q /\ Cli!Owned(q)
      BY <3>1 DEF SessionsInv, Leased
    <3>3. Cli!Owned(q)'
      BY <1>1, <3>1, <3>2 DEF Cli!Owned
    <3>. QED
      BY <1>1, <3>1, <3>2, <3>3 DEF SessionsInv, Leased
  <2>. QED
    BY <2>1 DEF Leased
<1>8. Made'
  BY <1>1, <1>2 DEF SessionsInv, Made
<1>9. Apart'
  <2>1. ASSUME NEW q \in live', q # r
        PROVE  /\ q \in CliRun /\ q \in live /\ job'[q] = job[q]
    BY <1>1, <1>2, <2>1 DEF SessionsInv, Formed
  <2>2. ASSUME r \in live
        PROVE  entry.status # "ready" /\ \A q \in CliRun : ~Active(q)'
    <3>1. Active(r)
      BY <1>3, <2>2 DEF Active
    <3>2. entry.status # "ready"
      BY <3>1 DEF SessionsInv, Leased, Cli!Owned
    <3>3. \A q \in CliRun : Active(q) => q = r
      BY <3>1, Alone
    <3>. QED
      BY <1>4, <3>2, <3>3
  <2>. QED
    BY <1>1, <1>2, <1>3, <1>4, <2>1, <2>2 DEF SessionsInv, Apart
<1>10. Told'
  <2>1. \A q \in CliRun \ {r} : Seen(q)' = Seen(q)
    BY <1>2 DEF Seen
  <2>. QED
    BY <1>1, <1>2, <2>1 DEF SessionsInv, Told
<1>. QED
  BY <1>5, <1>6, <1>7, <1>8, <1>9, <1>10 DEF SessionsInv

LEMMA InvOrphan ==
  ASSUME Cli!None \notin CliRun, SessionsInv, NEW r \in CliRun, Cli!OrphanEnds(r)
  PROVE SessionsInv'
<1>1. /\ job[r].pc = "gone" /\ live' = live \ {r} /\ job' = [job EXCEPT ![r].session = Cli!None]
      /\ UNCHANGED <<entry, attempted, lease, known, spawned>>
  BY DEF Cli!OrphanEnds
<1>2. DOMAIN job = CliRun /\ DOMAIN job[r] = JobFields
  BY DEF SessionsInv, Formed
<1>. DEFINE j == [job[r] EXCEPT !.session = Cli!None]
<1>3. /\ DOMAIN j = JobFields /\ j.pc = "gone" /\ j.session = Cli!None
      /\ j.resume = job[r].resume /\ j.selected = job[r].selected
  BY <1>1, <1>2 DEF JobFields
<1>4. job' = [job EXCEPT ![r] = j]
  BY <1>1
<1>. HIDE DEF j
<1>5. DOMAIN job' = CliRun /\ job'[r] = j /\ \A q \in CliRun \ {r} : job'[q] = job[q]
  BY <1>2, <1>4
<1>6. ASSUME NEW q \in CliRun, Active(q)'
      PROVE  q # r /\ Active(q) /\ job'[q] = job[q]
  BY <1>3, <1>5, <1>6 DEF Active
<1>7. Formed'
  BY <1>1, <1>3, <1>5 DEF SessionsInv, Formed, Cli!Pcs, Cli!Sessions, IsList
<1>8. Once'
  BY <1>1, <1>3, <1>5 DEF SessionsInv, Once
<1>9. Leased'
  <2>1. ASSUME NEW q \in CliRun, Active(q)'
        PROVE  /\ lease' = q /\ Cli!Owned(q)'
               /\ job'[q].pc \in {"context", "spawn"} => entry'.session = Cli!None
               /\ job'[q].pc \in {"stream", "result"} => entry'.session \in {Cli!None, job'[q].session}
    <3>1. Active(q) /\ job'[q] = job[q]
      BY <1>6, <2>1
    <3>2. lease = q /\ Cli!Owned(q)
      BY <3>1 DEF SessionsInv, Leased
    <3>3. Cli!Owned(q)'
      BY <1>1, <3>1, <3>2 DEF Cli!Owned
    <3>. QED
      BY <1>1, <3>1, <3>2, <3>3 DEF SessionsInv, Leased
  <2>. QED
    BY <2>1 DEF Leased
<1>10. Made'
  BY <1>1, <1>3, <1>5 DEF SessionsInv, Made
<1>11. Apart'
  <2>1. \A q \in live' : q \in live /\ q \in CliRun /\ job'[q] = job[q]
    BY <1>1, <1>5 DEF SessionsInv, Formed
  <2>. QED
    BY <1>1, <1>6, <2>1 DEF SessionsInv, Apart
<1>12. Told'
  <2>1. \A q \in CliRun \ {r} : Seen(q)' = Seen(q)
    BY <1>5 DEF Seen
  <2>. QED
    BY <1>1, <1>3, <1>5, <2>1 DEF SessionsInv, Told
<1>. QED
  BY <1>7, <1>8, <1>9, <1>10, <1>11, <1>12 DEF SessionsInv

\* The conversation goes on beside the dispatches.
LEMMA InvRest ==
  ASSUME SessionsInv, UNCHANGED <<entry, attempted, lease, job, known, live, spawned>>
  PROVE  SessionsInv'
<1>1. Formed' /\ Once'
  BY DEF SessionsInv, Formed, Once, IsList
<1>2. Leased'
  BY DEF SessionsInv, Leased, Active, Cli!Owned
<1>3. Made' /\ Apart'
  BY DEF SessionsInv, Made, Apart, Active
<1>4. Told'
  BY DEF SessionsInv, Told, Seen
<1>. QED
  BY <1>1, <1>2, <1>3, <1>4 DEF SessionsInv

LEMMA SessionsNext ==
  ASSUME Cli!None \notin CliRun
  PROVE SessionsInv /\ [Cli!Next]_sessionsVars => SessionsInv'
<1>. SUFFICES ASSUME SessionsInv, [Cli!Next]_sessionsVars PROVE SessionsInv'
  OBVIOUS
<1>1. ASSUME NEW r \in CliRun, Cli!Thread(r) PROVE SessionsInv'
  <2>1. ASSUME NEW b \in Binding, Cli!Begin(r, b) PROVE SessionsInv'
    BY <2>1, InvBegin
  <2>2. CASE Cli!BuildContext(r)
    BY <2>2, InvContext
  <2>3. CASE Cli!Spawn(r)
    BY <2>3, InvSpawn
  <2>4. CASE Cli!SpawnFails(r) \/ Cli!StreamEnds(r, TRUE) \/ Cli!StreamEnds(r, FALSE) \/ Cli!HeedStop(r)
    BY <2>4, InvEnds
  <2>5. CASE Cli!NoteSession(r)
    BY <2>5, InvNote
  <2>6. CASE Cli!Commit(r) \/ Cli!Close(r)
    BY <2>6, InvOver
  <2>7. CASE Cli!Record(r)
    BY <2>7, InvRest DEF Cli!Record
  <2>. QED
    BY <1>1, <2>1, <2>2, <2>3, <2>4, <2>5, <2>6, <2>7 DEF Cli!Thread
<1>2. ASSUME NEW r \in CliRun, Cli!Crash(r) \/ Cli!OrphanEnds(r) PROVE SessionsInv'
  BY <1>2, InvCrash, InvOrphan
<1>3. ASSUME NEW m \in Cli!Topics, NEW final \in BOOLEAN, Cli!Post(m, final) PROVE SessionsInv'
  BY <1>3, InvRest DEF Cli!Post
<1>4. ASSUME NEW i \in DOMAIN messages, Cli!Settle(i) PROVE SessionsInv'
  BY <1>4, InvRest DEF Cli!Settle
<1>5. CASE UNCHANGED sessionsVars
  BY <1>5, InvRest DEF sessionsVars
<1>. QED
  BY <1>1, <1>2, <1>3, <1>4, <1>5 DEF Cli!Next

-----------------------------------------------------------------------------
(* What the sessions hear.  The steps keep SessionsInv, so it is at hand.   *)

Distinct(q) == \A i, j \in DOMAIN q : q[i] = q[j] => i = j

LEMMA DistinctJoins ==
  ASSUME NEW p, NEW q, IsList(p), IsList(q), Distinct(p), Distinct(q),
         Cli!Members(p) \cap Cli!Members(q) = {}
  PROVE  Distinct(p \o q)
<1>. DEFINE S == Cli!Members(p) \cup Cli!Members(q)
<1>1. p \in Seq(S) /\ q \in Seq(S)
  BY SeqMonotonic DEF IsList
<1>2. /\ p \o q \in Seq(S) /\ Len(p \o q) = Len(p) + Len(q)
      /\ \A i \in 1..(Len(p) + Len(q)) :
            (p \o q)[i] = IF i <= Len(p) THEN p[i] ELSE q[i - Len(p)]
  BY <1>1, ConcatProperties
<1>3. /\ DOMAIN p = 1..Len(p) /\ DOMAIN q = 1..Len(q) /\ Len(p) \in Nat /\ Len(q) \in Nat
      /\ DOMAIN (p \o q) = 1..(Len(p) + Len(q))
  BY <1>1, <1>2, LenProperties
<1>. SUFFICES ASSUME NEW i \in 1..(Len(p) + Len(q)), NEW j \in 1..(Len(p) + Len(q)),
                     (p \o q)[i] = (p \o q)[j]
              PROVE  i = j
  BY <1>3 DEF Distinct
<1>4. CASE i <= Len(p) /\ j <= Len(p)
  <2>1. p[i] = p[j] /\ i \in DOMAIN p /\ j \in DOMAIN p
    BY <1>2, <1>3, <1>4
  <2>. QED
    BY <2>1 DEF Distinct
<1>5. CASE ~(i <= Len(p)) /\ ~(j <= Len(p))
  <2>1. q[i - Len(p)] = q[j - Len(p)] /\ i - Len(p) \in DOMAIN q /\ j - Len(p) \in DOMAIN q
    BY <1>2, <1>3, <1>5
  <2>2. i - Len(p) = j - Len(p)
    BY <2>1 DEF Distinct
  <2>. QED
    BY <1>3, <2>2
<1>6. ASSUME NEW m \in 1..(Len(p) + Len(q)), NEW n \in 1..(Len(p) + Len(q)),
             m <= Len(p), ~(n <= Len(p))
      PROVE  (p \o q)[m] # (p \o q)[n]
  <2>1. /\ (p \o q)[m] = p[m] /\ m \in DOMAIN p
        /\ (p \o q)[n] = q[n - Len(p)] /\ n - Len(p) \in DOMAIN q
    BY <1>2, <1>3, <1>6
  <2>2. p[m] \in Cli!Members(p) /\ q[n - Len(p)] \in Cli!Members(q)
    BY <2>1 DEF Cli!Members
  <2>. QED
    BY <2>1, <2>2
<1>. QED
  BY <1>4, <1>5, <1>6

\* A step that tells nothing, and adds nothing to the history.
LEMMA QuotedStays ==
  ASSUME Quoted, UNCHANGED <<messages, known>>,
         \A q \in CliRun :
            /\ job[q].pc \in {"over", "gone"} => job'[q].pc \in {"over", "gone"}
            /\ job'[q].pc \in {"idle", "context", "spawn"} =>
                  job[q].pc \in {"idle", "context", "spawn"}
            /\ job'[q].pc = "spawn" =>
                  job[q].pc = "spawn" /\ job'[q].selected = job[q].selected
            /\ job'[q].pc \in {"context", "spawn"} =>
                  /\ job[q].pc \in {"context", "spawn"} /\ job'[q].resume = job[q].resume
                  /\ Seen(q)' = Seen(q)
            /\ job'[q].pc \in {"stream", "result"} =>
                  /\ job[q].pc \in {"stream", "result"} /\ job'[q].session = job[q].session
                  /\ Seen(q)' = Seen(q) /\ job'[q].selected = job[q].selected,
         entry'.status = "ready" =>
            Cli!Members(known[entry'.checkpoint.session])
                \subseteq entry'.checkpoint.consumed \cup entry'.checkpoint.runs
  PROVE  Quoted'
<1>1. \A m : Finished(m)' <=> Finished(m)
  BY DEF Finished
<1>2. Listed'
  BY DEF Quoted, Listed
<1>3. Picked'
  <2>. SUFFICES ASSUME NEW q \in CliRun, job'[q].pc = "spawn"
                PROVE  /\ \A i, j \in DOMAIN job'[q].selected :
                             job'[q].selected[i] = job'[q].selected[j] => i = j
                       /\ Cli!Members(job'[q].selected) \cap Seen(q)' = {}
                       /\ \A m \in Cli!Members(job'[q].selected) :
                             (m \in CliRun => job'[m].pc \in {"over", "gone"}) /\ Finished(m)'
    BY DEF Picked
  <2>1. job[q].pc = "spawn" /\ job'[q].selected = job[q].selected /\ Seen(q)' = Seen(q)
    OBVIOUS
  <2>. QED
    BY <1>1, <2>1 DEF Quoted, Picked
<1>4. Cursor'
  BY DEF Quoted, Cursor
<1>5. Heard'
  BY <1>1 DEF Quoted, Heard, Cli!ToldOnce
<1>. QED
  BY <1>2, <1>3, <1>4, <1>5 DEF Quoted

\* A step that only adds to the history, or finishes one of its messages.
LEMMA QuotedGrows ==
  ASSUME Quoted, UNCHANGED <<entry, job, known>>, Listed', \A m : Finished(m) => Finished(m)'
  PROVE  Quoted'
<1>1. \A q \in CliRun : Seen(q)' = Seen(q)
  BY DEF Seen
<1>2. Picked'
  BY <1>1 DEF Quoted, Picked
<1>3. Cursor'
  BY <1>1 DEF Quoted, Cursor
<1>4. Heard'
  BY DEF Quoted, Heard, Cli!ToldOnce
<1>. QED
  BY <1>2, <1>3, <1>4 DEF Quoted

LEMMA QuotedInit == ASSUME Cli!Init PROVE Quoted
<1>1. /\ entry.status = "new" /\ messages = <<>>
      /\ \A r \in CliRun : job[r].pc = "idle" /\ known[r] = <<>>
  BY DEF Cli!Init, Cli!NoEntry, Cli!NoJob
<1>2. DOMAIN messages = {} /\ messages \in Seq([topic : Cli!Topics, final : BOOLEAN])
  BY <1>1
<1>3. \A r \in CliRun : DOMAIN known[r] = {} /\ Cli!Members(known[r]) = {}
  BY <1>1, EmptyList
<1>. QED
  BY <1>1, <1>2, <1>3 DEF Quoted, Listed, Picked, Cursor, Heard, Cli!ToldOnce

LEMMA QuotedBegin ==
  ASSUME Cli!None \notin CliRun, SessionsInv, Quoted, NEW r \in CliRun, NEW b \in Binding, Cli!Begin(r, b)
  PROVE  Quoted'
<1>. DEFINE state == Cli!Project(b)
            j == [Cli!NoJob EXCEPT !.pc = "context", !.binding = b, !.attempt = attempts + 1,
                                   !.resume = state.session, !.consumed = state.consumed,
                                   !.runs = state.runs]
            e == [status |-> "inflight", binding |-> b, checkpoint |-> entry.checkpoint,
                  attempt |-> attempts + 1, session |-> Cli!None]
<1>1. /\ r \notin attempted /\ lease = Cli!None /\ entry' = e /\ job' = [job EXCEPT ![r] = j]
      /\ UNCHANGED <<messages, known>>
  BY DEF Cli!Begin, Cli!MayBegin, Cli!Dispatched
<1>2. /\ j.pc = "context" /\ j.resume = state.session /\ j.consumed = state.consumed
      /\ j.runs = state.runs /\ e.status = "inflight"
  BY DEF Cli!NoJob
<1>3. state.session # Cli!None =>
         Cli!Members(known[state.session]) \subseteq state.consumed \cup state.runs
  <2>1. CASE entry.status = "ready" /\ state = entry.checkpoint
    BY <2>1 DEF Quoted, Cursor
  <2>2. CASE state = Cli!NoCheckpoint
    BY <2>2 DEF Cli!NoCheckpoint
  <2>. QED
    BY <2>1, <2>2 DEF Cli!Project
<1>. HIDE DEF e, j, state
<1>4. job'[r] = j /\ \A q \in CliRun \ {r} : job'[q] = job[q]
  BY <1>1 DEF SessionsInv, Formed
<1>5. job[r].pc = "idle" /\ \A q \in CliRun : ~Active(q)
  BY <1>1 DEF SessionsInv, Once, Leased
<1>6. \A q \in CliRun : /\ job'[q].pc \notin {"spawn", "stream", "result"}
                        /\ job'[q].pc = "context" => q = r
                        /\ job[q].pc \in {"over", "gone"} => job'[q].pc \in {"over", "gone"}
                        /\ job'[q].pc \in {"idle", "context", "spawn"} =>
                              job[q].pc \in {"idle", "context", "spawn"}
  BY <1>2, <1>4, <1>5 DEF Active
<1>7. \A m : Finished(m)' <=> Finished(m)
  BY <1>1 DEF Finished
<1>8. Listed'
  BY <1>1, <1>6 DEF Quoted, Listed
<1>9. Picked'
  BY <1>6 DEF Picked
<1>10. Cursor'
  <2>1. job'[r].resume # Cli!None => Cli!Members(known'[job'[r].resume]) \subseteq Seen(r)'
    BY <1>1, <1>2, <1>3, <1>4 DEF Seen
  <2>2. entry'.status # "ready"
    BY <1>1, <1>2
  <2>. QED
    BY <1>6, <2>1, <2>2 DEF Cursor
<1>11. Heard'
  BY <1>1, <1>6, <1>7 DEF Quoted, Heard, Cli!ToldOnce
<1>. QED
  BY <1>8, <1>9, <1>10, <1>11 DEF Quoted

\* What is picked from the history is new to the session, once each, and over.
LEMMA QuotedContext ==
  ASSUME SessionsInv, Quoted, NEW r \in CliRun, Cli!BuildContext(r)
  PROVE  Quoted'
<1>1. PICK k \in 0 .. MaxTurns : \E place \in [1 .. k -> Cli!Unseen(r)] :
          /\ \A i, l \in 1 .. k : i < l => place[i] < place[l]
          /\ job' = [job EXCEPT ![r].pc = "spawn",
                         ![r].selected = [i \in 1 .. k |-> messages[place[i]].topic]]
  BY DEF Cli!BuildContext
<1>2. PICK place \in [1 .. k -> Cli!Unseen(r)] :
          /\ \A i, l \in 1 .. k : i < l => place[i] < place[l]
          /\ job' = [job EXCEPT ![r].pc = "spawn",
                         ![r].selected = [i \in 1 .. k |-> messages[place[i]].topic]]
  BY <1>1
<1>. DEFINE picked == [i \in 1 .. k |-> messages[place[i]].topic]
            j == [job[r] EXCEPT !.pc = "spawn", !.selected = picked]
<1>3. /\ job[r].pc = "context" /\ UNCHANGED <<entry, messages, known>>
      /\ job' = [job EXCEPT ![r] = j] /\ DOMAIN job = CliRun /\ DOMAIN job[r] = JobFields
  BY <1>2 DEF Cli!BuildContext, SessionsInv, Formed
<1>4. /\ Distinct(picked)
      /\ \A m \in Cli!Members(picked) : \E h \in Cli!Unseen(r) : m = messages[h].topic
  <2>1. \A i \in 1 .. k : place[i] \in Cli!Unseen(r) /\ place[i] \in DOMAIN messages
    BY <1>2 DEF Cli!Unseen
  <2>2. \A i \in 1 .. k : place[i] \in Nat
    <3>1. DOMAIN messages \subseteq Nat
      BY LenProperties DEF Quoted, Listed
    <3>. QED
      BY <2>1, <3>1
  <2>3. ASSUME NEW i \in 1 .. k, NEW l \in 1 .. k, messages[place[i]].topic = messages[place[l]].topic
        PROVE  i = l
    <3>1. place[i] = place[l]
      BY <2>1, <2>3 DEF Quoted, Listed
    <3>. QED
      BY <1>1, <1>2, <2>2, <3>1
  <2>. QED
    BY <2>1, <2>3 DEF Distinct, Cli!Members
<1>. HIDE DEF picked
<1>5. /\ j.pc = "spawn" /\ j.selected = picked /\ j.resume = job[r].resume
      /\ j.consumed = job[r].consumed /\ j.runs = job[r].runs
  BY <1>3 DEF JobFields
<1>. HIDE DEF j
<1>6. job'[r] = j /\ \A q \in CliRun \ {r} : job'[q] = job[q]
  BY <1>3
<1>7. \A q \in CliRun : Seen(q)' = Seen(q)
  BY <1>5, <1>6 DEF Seen
<1>8. \A q \in CliRun \ {r} : ~Active(q)
  <2>1. Active(r)
    BY <1>3 DEF Active
  <2>. QED
    BY <2>1, Alone
<1>9. \A q \in CliRun :
          /\ job[q].pc \in {"over", "gone"} => job'[q].pc \in {"over", "gone"}
          /\ job'[q].pc \in {"idle", "context", "spawn"} =>
                job[q].pc \in {"idle", "context", "spawn"}
          /\ job'[q].pc \in {"context", "spawn", "stream", "result"} => q = r
  BY <1>3, <1>5, <1>6, <1>8 DEF Active
<1>10. \A m : Finished(m)' <=> Finished(m)
  BY <1>3 DEF Finished
<1>11. Listed'
  BY <1>3, <1>9 DEF Quoted, Listed
<1>12. Picked'
  <2>1. ASSUME NEW m \in Cli!Members(picked)
        PROVE  m \notin Seen(r) /\ (m \in CliRun => job'[m].pc \in {"over", "gone"}) /\ Finished(m)'
    <3>1. PICK h \in Cli!Unseen(r) : m = messages[h].topic
      BY <1>4
    <3>2. h \in DOMAIN messages /\ messages[h].final /\ m \notin Seen(r)
      BY <3>1 DEF Cli!Unseen, Seen
    <3>3. m \in CliRun => job'[m].pc \in {"over", "gone"}
      BY <1>9, <3>1, <3>2 DEF Quoted, Listed
    <3>4. Finished(m)'
      BY <1>3, <3>1, <3>2 DEF Finished
    <3>. QED
      BY <3>2, <3>3, <3>4
  <2>2. job'[r].selected = picked
    BY <1>5, <1>6
  <2>. QED
    BY <1>4, <1>7, <1>9, <2>1, <2>2 DEF Picked, Distinct
<1>13. Cursor'
  <2>1. job'[r].resume # Cli!None => Cli!Members(known[job'[r].resume]) \subseteq Seen(r)
    BY <1>3, <1>5, <1>6 DEF Quoted, Cursor
  <2>2. job'[r].pc = "spawn"
    BY <1>5, <1>6
  <2>3. entry'.status = "ready" =>
            Cli!Members(known[entry'.checkpoint.session])
                \subseteq entry'.checkpoint.consumed \cup entry'.checkpoint.runs
    BY <1>3 DEF Quoted, Cursor
  <2>. QED
    BY <1>3, <1>7, <1>9, <2>1, <2>2, <2>3 DEF Cursor
<1>14. Heard'
  BY <1>3, <1>9, <1>10 DEF Quoted, Heard, Cli!ToldOnce
<1>. QED
  BY <1>11, <1>12, <1>13, <1>14 DEF Quoted

\* The hand-over: everything the session is told now is new to it.
LEMMA QuotedSpawn ==
  ASSUME CliRun \cap Other = {}, SessionsInv, Quoted, NEW r \in CliRun, Cli!Spawn(r)
  PROVE  Quoted'
<1>. DEFINE before == IF job[r].resume = Cli!None THEN <<>> ELSE known[job[r].resume]
            quoted == job[r].selected
            told   == before \o quoted \o <<r>>
<1>1. PICK s \in {r} \cup ({job[r].resume} \ {Cli!None}) :
          /\ known' = [known EXCEPT ![s] = told]
          /\ job' = [job EXCEPT ![r].pc = "stream", ![r].session = s]
  BY DEF Cli!Spawn
<1>2. job[r].pc = "spawn" /\ UNCHANGED <<entry, messages>>
  BY DEF Cli!Spawn
<1>3. s \in CliRun /\ job[r].resume \in Cli!Sessions /\ IsList(quoted)
  BY <1>1 DEF SessionsInv, Formed, Cli!Sessions
<1>4. /\ IsList(before) /\ Distinct(before) /\ Cli!Members(before) \subseteq Seen(r)
      /\ \A m \in Cli!Members(before) :
            (m \in CliRun => job[m].pc \notin {"idle", "context", "spawn"}) /\ Finished(m)
  <2>1. CASE job[r].resume = Cli!None
    <3>1. before = <<>> /\ DOMAIN before = {}
      BY <2>1
    <3>. QED
      BY <3>1, EmptyList DEF Distinct
  <2>2. CASE job[r].resume # Cli!None
    <3>1. job[r].resume \in CliRun /\ before = known[job[r].resume]
      BY <1>3, <2>2 DEF Cli!Sessions
    <3>. HIDE DEF before
    <3>2. IsList(before) /\ Cli!Members(before) \subseteq Seen(r)
      BY <1>2, <2>2, <3>1 DEF SessionsInv, Formed, Quoted, Cursor
    <3>3. Distinct(before)
      BY <3>1 DEF Quoted, Heard, Cli!ToldOnce, Distinct
    <3>. QED
      BY <3>1, <3>2, <3>3 DEF Quoted, Heard
  <2>. QED
    BY <2>1, <2>2
<1>5. /\ Distinct(quoted) /\ Cli!Members(quoted) \cap Seen(r) = {}
      /\ \A m \in Cli!Members(quoted) : (m \in CliRun => job[m].pc \in {"over", "gone"}) /\ Finished(m)
  BY <1>2 DEF Quoted, Picked, Distinct
<1>6. r \notin Cli!Members(before) /\ r \notin Cli!Members(quoted)
  BY <1>2, <1>4, <1>5
<1>. HIDE DEF before, quoted
<1>7. Distinct(told) /\ Cli!Members(told) = Cli!Members(before) \cup Cli!Members(quoted) \cup {r}
  <2>1. /\ IsList(before \o quoted) /\ Distinct(before \o quoted)
        /\ Cli!Members(before \o quoted) = Cli!Members(before) \cup Cli!Members(quoted)
    BY <1>3, <1>4, <1>5, ListJoins, DistinctJoins
  <2>2. IsList(<<r>>) /\ Cli!Members(<<r>>) = {r} /\ Distinct(<<r>>)
    BY OneList DEF Distinct
  <2>. QED
    BY <1>6, <2>1, <2>2, ListJoins, DistinctJoins
<1>. HIDE DEF told
<1>. DEFINE j == [job[r] EXCEPT !.pc = "stream", !.session = s]
<1>8. job' = [job EXCEPT ![r] = j] /\ DOMAIN job = CliRun /\ DOMAIN job[r] = JobFields
  BY <1>1 DEF SessionsInv, Formed
<1>9. /\ j.pc = "stream" /\ j.session = s /\ j.consumed = job[r].consumed
      /\ j.runs = job[r].runs /\ j.selected = job[r].selected
  BY <1>8 DEF JobFields
<1>. HIDE DEF j
<1>10. job'[r] = j /\ \A q \in CliRun \ {r} : job'[q] = job[q]
  BY <1>8
<1>11. known'[s] = told /\ \A q \in CliRun \ {s} : known'[q] = known[q]
  BY <1>1, <1>3 DEF SessionsInv, Formed
<1>12. Cli!Owned(r) /\ \A q \in CliRun \ {r} : ~Active(q)
  <2>1. Active(r)
    BY <1>2 DEF Active
  <2>. QED
    BY <2>1, Alone DEF SessionsInv, Leased
<1>13. \A q \in CliRun :
          /\ job[q].pc \in {"over", "gone"} => job'[q].pc \in {"over", "gone"}
          /\ job'[q].pc \in {"idle", "context", "spawn"} =>
                q # r /\ job[q].pc \in {"idle", "context", "spawn"}
          /\ job'[q].pc \notin {"context", "spawn"}
          /\ job'[q].pc \in {"stream", "result"} => q = r
  BY <1>2, <1>9, <1>10, <1>12 DEF Active
<1>14. \A m : Finished(m)' <=> Finished(m)
  BY <1>2 DEF Finished
<1>15. Listed'
  BY <1>2, <1>13 DEF Quoted, Listed
<1>16. Picked'
  BY <1>13 DEF Picked
<1>17. Cursor'
  <2>1. Cli!Members(known'[s]) \subseteq Seen(r) \cup Cli!Members(quoted) \cup {r}
    BY <1>4, <1>7, <1>11
  <2>2. job'[r].session = s /\ job'[r].selected = quoted /\ Seen(r)' = Seen(r)
    BY <1>9, <1>10 DEF Seen, quoted
  <2>3. entry'.status # "ready"
    BY <1>2, <1>12 DEF Cli!Owned
  <2>. QED
    BY <1>13, <2>1, <2>2, <2>3 DEF Cursor
<1>18. Heard'
  <2>1. ASSUME NEW q \in CliRun, NEW i \in DOMAIN known'[q], NEW l \in DOMAIN known'[q],
               known'[q][i] = known'[q][l]
        PROVE  i = l
    <3>1. CASE q = s
      BY <1>7, <1>11, <2>1, <3>1 DEF Distinct
    <3>2. CASE q # s
      BY <1>11, <2>1, <3>2 DEF Quoted, Heard, Cli!ToldOnce
    <3>. QED
      BY <3>1, <3>2
  <2>2. ASSUME NEW q \in CliRun, NEW m \in Cli!Members(known'[q])
        PROVE  (m \in CliRun => job'[m].pc \notin {"idle", "context", "spawn"}) /\ Finished(m)'
    <3>1. CASE q = s
      <4>1. m \in Cli!Members(before) \/ m \in Cli!Members(quoted) \/ m = r
        BY <1>7, <1>11, <2>2, <3>1
      <4>2. CASE m \in Cli!Members(before)
        BY <1>4, <1>13, <1>14, <4>2
      <4>3. CASE m \in Cli!Members(quoted)
        BY <1>5, <1>13, <1>14, <4>3
      <4>4. CASE m = r
        BY <1>9, <1>10, <4>4 DEF Finished
      <4>. QED
        BY <4>1, <4>2, <4>3, <4>4
    <3>2. CASE q # s
      BY <1>11, <1>13, <1>14, <2>2, <3>2 DEF Quoted, Heard
    <3>. QED
      BY <3>1, <3>2
  <2>. QED
    BY <2>1, <2>2 DEF Heard, Cli!ToldOnce
<1>. QED
  BY <1>15, <1>16, <1>17, <1>18 DEF Quoted

\* The output of a dispatch ends; a session is reported; a process or an orphan dies.
LEMMA QuotedThread ==
  ASSUME SessionsInv, Quoted, NEW r \in CliRun,
         \/ Cli!SpawnFails(r) \/ Cli!StreamEnds(r, TRUE) \/ Cli!StreamEnds(r, FALSE) \/ Cli!HeedStop(r)
         \/ Cli!NoteSession(r) \/ Cli!Crash(r) \/ Cli!OrphanEnds(r)
  PROVE  Quoted'
<1>1. UNCHANGED <<messages, known>>
  BY DEF Cli!SpawnFails, Cli!StreamEnds, Cli!HeedStop, Cli!NoteSession, Cli!Crash, Cli!OrphanEnds
<1>2. /\ DOMAIN job = CliRun /\ DOMAIN job[r] = JobFields /\ DOMAIN entry = EntryFields
  BY DEF SessionsInv, Formed
<1>3. /\ job[r].pc \notin {"over", "gone"} => job'[r].pc \in {"stream", "result", "failed", "gone"}
      /\ job[r].pc \in {"over", "gone"} => job'[r].pc = "gone"
      /\ job'[r].pc \in {"stream", "result"} =>
            /\ job[r].pc = "stream" /\ job'[r].session = job[r].session
            /\ Seen(r)' = Seen(r) /\ job'[r].selected = job[r].selected
      /\ \A q \in CliRun \ {r} : job'[q] = job[q]
  <2>1. CASE \/ Cli!SpawnFails(r) \/ Cli!StreamEnds(r, TRUE) \/ Cli!StreamEnds(r, FALSE) \/ Cli!HeedStop(r)
    <3>1. PICK p \in {"result", "failed"} :
             /\ job[r].pc \in {"spawn", "stream", "result"} /\ job' = [job EXCEPT ![r].pc = p]
             /\ p = "result" => job[r].pc = "stream"
      BY <2>1 DEF Cli!SpawnFails, Cli!StreamEnds, Cli!HeedStop
    <3>2. p \in Cli!Pcs
      BY DEF Cli!Pcs
    <3>. QED
      BY <3>1, <3>2, PcIs DEF SessionsInv, Seen
  <2>2. CASE Cli!NoteSession(r)
    <3>. DEFINE j == [job[r] EXCEPT !.said = TRUE]
    <3>1. /\ j.pc = job[r].pc /\ j.session = job[r].session /\ j.consumed = job[r].consumed
          /\ j.runs = job[r].runs /\ j.selected = job[r].selected
      BY <1>2 DEF JobFields
    <3>2. job[r].pc = "stream" /\ job' = [job EXCEPT ![r] = j]
      BY <2>2 DEF Cli!NoteSession
    <3>. HIDE DEF j
    <3>3. job'[r] = j /\ \A q \in CliRun \ {r} : job'[q] = job[q]
      BY <1>2, <3>2
    <3>. QED
      BY <3>1, <3>2, <3>3 DEF Seen
  <2>3. CASE Cli!Crash(r)
    <3>1. job' = [job EXCEPT ![r] = Cli!Ended(r, "gone")]
      BY <2>3 DEF Cli!Crash
    <3>. QED
      BY <3>1, EndedIs DEF SessionsInv
  <2>4. CASE Cli!OrphanEnds(r)
    <3>. DEFINE j == [job[r] EXCEPT !.session = Cli!None]
    <3>1. j.pc = job[r].pc
      BY <1>2 DEF JobFields
    <3>2. job[r].pc = "gone" /\ job' = [job EXCEPT ![r] = j]
      BY <2>4 DEF Cli!OrphanEnds
    <3>. HIDE DEF j
    <3>3. job'[r] = j /\ \A q \in CliRun \ {r} : job'[q] = job[q]
      BY <1>2, <3>2
    <3>. QED
      BY <3>1, <3>2, <3>3
  <2>. QED
    BY <2>1, <2>2, <2>3, <2>4
<1>4. entry'.status = "ready" => entry' = entry
  <2>1. CASE Cli!NoteSession(r)
    <3>1. entry' = [entry EXCEPT !.session = job[r].session] /\ entry.status = "inflight"
      BY <2>1 DEF Cli!NoteSession, Cli!Owned
    <3>. QED
      BY <1>2, <3>1 DEF EntryFields
  <2>2. CASE ~Cli!NoteSession(r)
    BY <2>2 DEF Cli!SpawnFails, Cli!StreamEnds, Cli!HeedStop, Cli!Crash, Cli!OrphanEnds
  <2>. QED
    BY <2>1, <2>2
<1>5. entry'.status = "ready" =>
         Cli!Members(known[entry'.checkpoint.session])
             \subseteq entry'.checkpoint.consumed \cup entry'.checkpoint.runs
  BY <1>4 DEF Quoted, Cursor
<1>6. \A q \in CliRun \ {r} : job'[q] = job[q] /\ Seen(q)' = Seen(q)
  BY <1>3 DEF Seen
<1>7. ASSUME NEW q \in CliRun
      PROVE  /\ job[q].pc \in {"over", "gone"} => job'[q].pc \in {"over", "gone"}
             /\ job'[q].pc \in {"idle", "context", "spawn"} =>
                  job[q].pc \in {"idle", "context", "spawn"}
             /\ job'[q].pc = "spawn" =>
                  job[q].pc = "spawn" /\ job'[q].selected = job[q].selected
             /\ job'[q].pc \in {"context", "spawn"} =>
                  /\ job[q].pc \in {"context", "spawn"} /\ job'[q].resume = job[q].resume
                  /\ Seen(q)' = Seen(q)
             /\ job'[q].pc \in {"stream", "result"} =>
                  /\ job[q].pc \in {"stream", "result"} /\ job'[q].session = job[q].session
                  /\ Seen(q)' = Seen(q) /\ job'[q].selected = job[q].selected
  <2>1. CASE q = r
    BY <1>3, <2>1
  <2>2. CASE q # r
    BY <1>6, <2>2
  <2>. QED
    BY <2>1, <2>2
<1>. QED
  BY <1>1, <1>5, <1>7, QuotedStays

\* What the dispatch quoted, and its own turn, are added to what was seen.
LEMMA QuotedOver ==
  ASSUME SessionsInv, Quoted, NEW r \in CliRun, Cli!Commit(r) \/ Cli!Close(r)
  PROVE  Quoted'
<1>1. /\ job[r].pc \in {"result", "failed"} /\ job' = [job EXCEPT ![r] = Cli!Ended(r, "over")]
      /\ UNCHANGED <<messages, known>>
  BY DEF Cli!Commit, Cli!Close
<1>2. Active(r) /\ Cli!Owned(r) /\ DOMAIN entry = EntryFields
  BY <1>1 DEF Active, SessionsInv, Leased, Formed
<1>3. /\ \A q \in CliRun \ {r} : job'[q] = job[q]
      /\ job'[r].pc = "over"
  BY <1>1, EndedIs DEF SessionsInv
<1>. DEFINE next == [session |-> entry.session, binding |-> job[r].binding,
                     consumed |-> job[r].consumed \cup Cli!Members(job[r].selected),
                     runs |-> job[r].runs \cup {r}]
<1>4. ASSUME entry'.status = "ready"
      PROVE  /\ job[r].pc = "result" /\ entry.session # Cli!None
             /\ entry'.checkpoint.session = entry.session
             /\ entry'.checkpoint.consumed = job[r].consumed \cup Cli!Members(job[r].selected)
             /\ entry'.checkpoint.runs = job[r].runs \cup {r}
  <2>1. \/ entry' = [entry EXCEPT !.status = "uncertain"]
        \/ /\ job[r].pc = "result" /\ entry.session # Cli!None
           /\ entry' = [entry EXCEPT !.status = "ready", !.checkpoint = next]
    BY <1>2 DEF Cli!Commit, Cli!Close
  <2>2. entry' # [entry EXCEPT !.status = "uncertain"]
    BY <1>2, <1>4 DEF EntryFields
  <2>3. /\ next.session = entry.session
        /\ next.consumed = job[r].consumed \cup Cli!Members(job[r].selected)
        /\ next.runs = job[r].runs \cup {r}
    OBVIOUS
  <2>. HIDE DEF next
  <2>4. entry'.checkpoint = next
    BY <1>2, <2>1, <2>2 DEF EntryFields
  <2>. QED
    BY <2>1, <2>2, <2>3, <2>4
<1>5. entry'.status = "ready" =>
         Cli!Members(known[entry'.checkpoint.session])
             \subseteq entry'.checkpoint.consumed \cup entry'.checkpoint.runs
  <2>. SUFFICES ASSUME entry'.status = "ready"
                PROVE  Cli!Members(known[entry'.checkpoint.session])
                          \subseteq entry'.checkpoint.consumed \cup entry'.checkpoint.runs
    OBVIOUS
  <2>1. entry.session = job[r].session
    BY <1>2, <1>4 DEF SessionsInv, Leased
  <2>2. Cli!Members(known[job[r].session])
            \subseteq job[r].consumed \cup job[r].runs \cup Cli!Members(job[r].selected) \cup {r}
    BY <1>4 DEF Quoted, Cursor, Seen
  <2>. QED
    BY <1>4, <2>1, <2>2
<1>6. \A q \in CliRun \ {r} : job'[q] = job[q] /\ Seen(q)' = Seen(q)
  BY <1>3 DEF Seen
<1>. QED
  BY <1>1, <1>3, <1>5, <1>6, QuotedStays

LEMMA Appended ==
  ASSUME NEW S, NEW q \in Seq(S), NEW x \in S
  PROVE  /\ Append(q, x) \in Seq(S)
         /\ DOMAIN Append(q, x) = DOMAIN q \cup {Len(q) + 1} /\ Len(q) + 1 \notin DOMAIN q
         /\ \A i \in DOMAIN q : Append(q, x)[i] = q[i]
         /\ Append(q, x)[Len(q) + 1] = x
BY AppendProperties, LenProperties

\* A message of the conversation is recorded, or finished.
LEMMA QuotedPost ==
  ASSUME SessionsInv, Quoted, NEW m \in Cli!Topics, NEW final \in BOOLEAN,
         \A i \in DOMAIN messages : messages[i].topic # m,
         m \in CliRun => job[m].pc \in {"over", "gone"},
         messages' = Append(messages, [topic |-> m, final |-> final]),
         UNCHANGED <<entry, job, known>>
  PROVE  Quoted'
<1>. DEFINE x == [topic |-> m, final |-> final]
            S == [topic : Cli!Topics, final : BOOLEAN]
<1>1. x \in S /\ messages \in Seq(S) /\ x.topic = m
  BY DEF Quoted, Listed
<1>2. messages' = Append(messages, x)
  OBVIOUS
<1>. HIDE DEF x, S
<1>3. /\ messages' \in Seq(S)
      /\ DOMAIN messages' = DOMAIN messages \cup {Len(messages) + 1}
      /\ Len(messages) + 1 \notin DOMAIN messages
      /\ \A i \in DOMAIN messages : messages'[i] = messages[i]
      /\ messages'[Len(messages) + 1] = x
  BY <1>1, <1>2, Appended
<1>4. Listed'
  BY <1>1, <1>3 DEF Quoted, Listed, S
<1>5. \A y : Finished(y) => Finished(y)'
  BY <1>3 DEF Finished
<1>. QED
  BY <1>4, <1>5, QuotedGrows

LEMMA QuotedSettle ==
  ASSUME SessionsInv, Quoted, NEW i \in DOMAIN messages, Cli!Settle(i)
  PROVE  Quoted'
<1>. DEFINE x == [messages[i] EXCEPT !.final = TRUE]
            S == [topic : Cli!Topics, final : BOOLEAN]
<1>1. messages' = [messages EXCEPT ![i] = x] /\ UNCHANGED <<entry, job, known>>
  BY DEF Cli!Settle
<1>2. messages \in Seq(S) /\ messages[i] \in S
  <2>1. messages \in Seq(S)
    BY DEF Quoted, Listed
  <2>. HIDE DEF S
  <2>. QED
    BY <2>1, LenProperties
<1>3. x \in S /\ x.topic = messages[i].topic /\ x.final
  BY <1>2
<1>. HIDE DEF x
<1>4. /\ messages' \in Seq(S) /\ DOMAIN messages' = DOMAIN messages /\ messages'[i] = x
      /\ \A h \in DOMAIN messages : h # i => messages'[h] = messages[h]
  BY <1>1, <1>2, <1>3, ExceptSeq, LenProperties
<1>5. Listed'
  <2>1. \A h \in DOMAIN messages' : messages'[h].topic = messages[h].topic
    BY <1>3, <1>4
  <2>. QED
    BY <1>1, <1>4, <2>1 DEF Quoted, Listed
<1>6. ASSUME NEW y, Finished(y) PROVE Finished(y)'
  <2>1. ASSUME NEW h \in DOMAIN messages, messages[h].topic = y, messages[h].final
        PROVE  h \in DOMAIN messages' /\ messages'[h].topic = y /\ messages'[h].final
    BY <1>3, <1>4, <2>1
  <2>. QED
    BY <1>6, <2>1 DEF Finished
<1>. QED
  BY <1>1, <1>5, <1>6, QuotedGrows

LEMMA QuotedStep ==
  ASSUME Cli!None \notin CliRun, CliRun \cap Other = {}, SessionsInv, Quoted, [Cli!Next]_sessionsVars
  PROVE  Quoted'
<1>1. ASSUME NEW r \in CliRun, Cli!Thread(r) PROVE Quoted'
  <2>1. ASSUME NEW b \in Binding, Cli!Begin(r, b) PROVE Quoted'
    BY <2>1, QuotedBegin
  <2>2. CASE Cli!BuildContext(r)
    BY <2>2, QuotedContext
  <2>3. CASE Cli!Spawn(r)
    BY <2>3, QuotedSpawn
  <2>4. CASE Cli!SpawnFails(r) \/ Cli!StreamEnds(r, TRUE) \/ Cli!StreamEnds(r, FALSE) \/ Cli!HeedStop(r)
    BY <2>4, QuotedThread
  <2>5. CASE Cli!NoteSession(r)
    BY <2>5, QuotedThread
  <2>6. CASE Cli!Commit(r) \/ Cli!Close(r)
    BY <2>6, QuotedOver
  <2>7. CASE Cli!Record(r)
    <3>1. /\ job[r].pc = "over" /\ \A i \in DOMAIN messages : messages[i].topic # r
          /\ messages' = Append(messages, [topic |-> r, final |-> TRUE])
          /\ UNCHANGED <<entry, job, known>>
      BY <2>7 DEF Cli!Record, Cli!Recorded
    <3>. QED
      BY <3>1, QuotedPost DEF Cli!Topics
  <2>. QED
    BY <1>1, <2>1, <2>2, <2>3, <2>4, <2>5, <2>6, <2>7 DEF Cli!Thread
<1>2. ASSUME NEW r \in CliRun, Cli!Crash(r) \/ Cli!OrphanEnds(r) PROVE Quoted'
  BY <1>2, QuotedThread
<1>3. ASSUME NEW m \in Cli!Topics, NEW final \in BOOLEAN, Cli!Post(m, final) PROVE Quoted'
  <2>1. /\ \A i \in DOMAIN messages : messages[i].topic # m
        /\ m \in CliRun => job[m].pc \in {"over", "gone"}
        /\ messages' = Append(messages, [topic |-> m, final |-> final])
        /\ UNCHANGED <<entry, job, known>>
    BY <1>3 DEF Cli!Post
  <2>. QED
    BY <2>1, QuotedPost
<1>4. ASSUME NEW i \in DOMAIN messages, Cli!Settle(i) PROVE Quoted'
  BY <1>4, QuotedSettle
<1>5. CASE UNCHANGED sessionsVars
  <2>1. UNCHANGED <<entry, job, messages, known>>
    BY <1>5 DEF sessionsVars
  <2>2. Listed' /\ \A m : Finished(m) => Finished(m)'
    BY <2>1 DEF Quoted, Listed, Finished
  <2>. QED
    BY <2>1, <2>2, QuotedGrows
<1>. QED
  BY <1>1, <1>2, <1>3, <1>4, <1>5 DEF Cli!Next

-----------------------------------------------------------------------------
(***************************************************************************)
(* The whole.                                                              *)
(***************************************************************************)

\* Whatever the component, its steps keep its invariant, and the others rest.
FilesHold    == part = "files" => FilesInv /\ Pages
CardsHold    == part = "cards" => CardsInv
SessionsHold == part = "sessions" => SessionsInv /\ Quoted

LEMMA FilesAlways == SpecAll => []FilesHold
<1>1. InitAll => FilesHold
  BY FilesInit, PagesInit DEF InitAll, FilesHold
<1>2. FilesHold /\ [NextAll]_allVars => FilesHold'
  <2>. SUFFICES ASSUME FilesHold, [NextAll]_allVars, part' = "files" PROVE FilesInv' /\ Pages'
    BY DEF FilesHold
  <2>1. part = "files" /\ [Next]_vars
    BY DEF NextAll, FilesStep, CardsStep, SessionsStep, allVars
  <2>. QED
    BY <2>1, FilesNext, PagesNext DEF FilesHold
<1>. QED
  BY <1>1, <1>2, PTL DEF SpecAll

LEMMA CardsAlways == SpecAll => []CardsHold
<1>1. InitAll => CardsHold
  BY CardsInit DEF InitAll, CardsHold
<1>2. CardsHold /\ [NextAll]_allVars => CardsHold'
  <2>. SUFFICES ASSUME CardsHold, [NextAll]_allVars, part' = "cards" PROVE CardsInv'
    BY DEF CardsHold
  <2>1. part = "cards" /\ [Store!Next]_cardsVars
    BY DEF NextAll, FilesStep, CardsStep, SessionsStep, allVars
  <2>. QED
    BY <2>1, CardsNext DEF CardsHold
<1>. QED
  BY <1>1, <1>2, PTL DEF SpecAll

LEMMA SessionsAlways == SpecAll => []SessionsHold
<1>. USE SessionsAssumption
<1>0. Cli!None \notin CliRun /\ CliRun \cap Other = {}
  BY DEF Cli!None
<1>1. InitAll => SessionsHold
  BY <1>0, SessionsInit, QuotedInit DEF InitAll, SessionsHold
<1>2. SessionsHold /\ [NextAll]_allVars => SessionsHold'
  <2>. SUFFICES ASSUME SessionsHold, [NextAll]_allVars, part' = "sessions"
                PROVE  SessionsInv' /\ Quoted'
    BY DEF SessionsHold
  <2>1. part = "sessions" /\ [Cli!Next]_sessionsVars
    BY DEF NextAll, FilesStep, CardsStep, SessionsStep, allVars
  <2>. QED
    BY <1>0, <2>1, SessionsNext, QuotedStep DEF SessionsHold
<1>. QED
  BY <1>1, <1>2, PTL DEF SpecAll

\* No turn is consolidated twice and none is forgotten, by overlapping
\* consolidations and by restarts; what a failing disk costs is bounded
\* (memory_consolidation_service.py _on_turn_committed, _consolidate).
THEOREM TurnsAreWeighed == SpecAll => []TurnsWeighed
<1>1. FilesHold => TurnsWeighed
  BY FilesWeighed DEF FilesHold, TurnsWeighed
<1>. QED
  BY <1>1, FilesAlways, PTL

\* What was written into a memory file is removed by a person only, and only
\* what that person had on the screen (memory_markdown_store.py save_document
\* and the merges of a consolidation).
THEOREM NotesAreKept == SpecAll => NotesKept
<1>1. FilesHold /\ [NextAll]_allVars =>
        [part = "files" =>
          \A k \in Kinds : \A n \in notes[k] \ notes'[k] :
              \E e \in Editor : /\ editor[e].doc = k
                                /\ editor'[e].doc = None
                                /\ n \in editor[e].seen.notes]_allVars
  <2>. SUFFICES ASSUME FilesHold, NextAll, part = "files",
                       NEW k \in Kinds, NEW n \in notes[k] \ notes'[k]
                PROVE  \E e \in Editor : /\ editor[e].doc = k
                                         /\ editor'[e].doc = None
                                         /\ n \in editor[e].seen.notes
    OBVIOUS
  <2>1. Pages /\ Next
    BY DEF FilesHold, NextAll, FilesStep, CardsStep, SessionsStep
  <2>. QED
    BY <2>1, KeptInPages
<1>. QED
  BY <1>1, FilesAlways, PTL DEF SpecAll, NotesKept

\* A card that was saved by hand or by an approved tool never loses its vector,
\* never gets a second one, leaves none behind, and is not summed up as it was
\* before (memory_service.py create, update, delete).
THEOREM CardAndVectorTogether == SpecAll => []IndexedTogether
<1>1. CardsHold => IndexedTogether
  BY IndexedSays DEF CardsHold, IndexedTogether
<1>. QED
  BY <1>1, CardsAlways, PTL

\* What the invariants of the sessions say of the promises made for them.
LEMMA SessionsSay ==
  ASSUME SessionsInv, Quoted
  PROVE  /\ Cli!ToldOnce /\ Cli!OnlyFinishedTold /\ Cli!LeftOutIsKnown
         /\ Cli!QuietResume /\ Cli!HandedOnce
<1>1. Cli!ToldOnce
  BY DEF Quoted, Heard
<1>2. Cli!OnlyFinishedTold
  BY DEF Quoted, Heard, Finished, Cli!OnlyFinishedTold, Cli!Members
<1>3. Cli!LeftOutIsKnown
  BY DEF SessionsInv, Told, Seen, Cli!LeftOutIsKnown
<1>4. Cli!HandedOnce
  BY DEF SessionsInv, Once, Cli!HandedOnce
<1>5. Cli!QuietResume
  <2>. SUFFICES ASSUME NEW r \in CliRun, NEW q \in CliRun, job[r].pc = "spawn", q \in live
                PROVE  job[q].session # job[r].resume
    BY DEF Cli!QuietResume
  <2>1. Active(r) /\ job[q].pc \in {"stream", "gone"}
    BY DEF Active, SessionsInv, Apart
  <2>2. job[q].pc # "stream"
    <3>1. Active(q) => q = r
      BY <2>1, Alone
    <3>. QED
      BY <3>1 DEF Active
  <2>. QED
    BY <2>1, <2>2 DEF SessionsInv, Apart
<1>. QED
  BY <1>1, <1>2, <1>3, <1>4, <1>5

\* A native session is told every turn at most once and only finished ones,
\* whatever crashed, failed or was handed in again; what a dispatch leaves out
\* was told to the session it resumes, no session is resumed under a CLI that
\* may still work in it, and a task is handed over once (cli_session_store.py
\* begin_dispatch, _project, commit_success; build_conversation_context).
THEOREM SessionsAreHonest == SpecAll => []SessionsHonest
<1>1. SessionsHold => SessionsHonest
  BY SessionsSay DEF SessionsHold, SessionsHonest
<1>. QED
  BY <1>1, SessionsAlways, PTL

==============================================================================
