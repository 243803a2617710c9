------------------------- MODULE EventJournalProofs -------------------------
(* Theorems about EventJournal for any number of confirmations, readers,     *)
(* deltas and cancel requests, and any size of a page.                       *)
EXTENDS EventJournal, FiniteSetTheorems, WellFoundedInduction, TLAPS

(* At most one append is open; its cursor is the newest, above all others. *)
OneOpen ==
    /\ seq \in Nat
    /\ DOMAIN log \subseteq 1..seq
    /\ \A w \in Writer : tx[w].open => tx[w].at = seq /\ seq \in Nat \ {0} /\ seq \notin DOMAIN log
    /\ \A v, w \in Writer : tx[v].open /\ tx[w].open => v = w

(* An append under the fence belongs to the owner of the claim. *)
Fenced == \A j \in Job : tx[j].open /\ tx[j].fenced => Owns(j)

Tables ==
    /\ DOMAIN tx = Writer
    /\ reader \in [Reader -> Readers]
    /\ got \in [Reader -> SUBSET Nat]

(* A reader's cursor is one of the journal's. *)
Cursors == \A c \in Reader : reader[c].cursor \in {0} \cup DOMAIN log

IInv == OneOpen /\ Fenced /\ Tables /\ Cursors /\ NoSkip

-----------------------------------------------------------------------------
(* A page has a last cursor, and nothing above the reader's is left out     *)
(* below it.                                                                *)

LEMMA LastExists ==
  ASSUME NEW n \in Nat, NEW S, S \subseteq 1..n, S # {}
  PROVE  Max(S) \in S /\ \A s \in S : s <= Max(S)
<1>. DEFINE T == {n - s : s \in S}
            R == OpToRel(<, Nat)
<1>1. T \subseteq Nat /\ T # {}
  <2>1. \A s \in S : n - s \in Nat
    OBVIOUS
  <2>. QED
    BY <2>1
<1>2. PICK x \in T : \A y \in T : ~(<<y, x>> \in R)
  <2>. HIDE DEF T
  <2>. QED
    BY <1>1, WFMin, NatLessThanWellFounded
<1>3. \A y \in T : ~(y < x)
  <2>1. ASSUME NEW y \in Nat, NEW z \in Nat, y < z PROVE <<y, z>> \in R
    BY <2>1 DEF OpToRel
  <2>. QED
    BY <1>1, <1>2, <2>1
<1>4. PICK m \in S : x = n - m
  OBVIOUS
<1>5. \A s \in S : m >= s
  <2>. TAKE s \in S
  <2>1. n - s \in T
    OBVIOUS
  <2>. QED
    BY <1>3, <1>4, <2>1
<1>. QED
  BY <1>4, <1>5 DEF Max

\* What a reader that moves to the last cursor of a part of its page has received.
LEMMA PageIsNext ==
  ASSUME IInv, NEW c \in Reader, NEW last \in Page(c)
  PROVE  /\ last \in DOMAIN log
         /\ \A s \in DOMAIN log :
                s <= last => s \in got[c] \/ s \in {t \in Page(c) : t <= last}
<1>1. seq \in Nat /\ DOMAIN log \subseteq 1..seq
  BY DEF IInv, OneOpen
<1>2. reader[c].cursor \in Nat /\ Limit \in Nat
  BY JournalConstants DEF IInv, Tables, Readers
<1>3. last \in After(c) /\ Cardinality({t \in After(c) : t < last}) < Limit
  BY DEF Page
<1>4. After(c) \subseteq 1..seq
  BY <1>1 DEF After
<1>5. ASSUME NEW s \in After(c), s <= last PROVE s \in Page(c)
  <2>. DEFINE A == {t \in After(c) : t < s}
              B == {t \in After(c) : t < last}
  <2>1. IsFiniteSet(1..seq)
    BY <1>1, FS_Interval
  <2>2. IsFiniteSet(B) /\ IsFiniteSet(A)
    BY <1>4, <2>1, FS_Subset
  <2>3. A \subseteq B
    BY <1>3, <1>4, <1>5
  <2>4. Cardinality(A) <= Cardinality(B) /\ Cardinality(A) \in Nat /\ Cardinality(B) \in Nat
    BY <2>2, <2>3, FS_Subset, FS_CardinalityType
  <2>. QED
    BY <1>2, <1>3, <2>4 DEF Page
<1>6. ASSUME NEW s \in DOMAIN log, s <= last PROVE s \in got[c] \/ s \in Page(c)
  <2>1. CASE s <= reader[c].cursor
    BY <2>1 DEF IInv, NoSkip
  <2>2. CASE s > reader[c].cursor
    BY <1>5, <1>6, <2>2 DEF After
  <2>. QED
    BY <1>1, <1>2, <2>1, <2>2
<1>. QED
  BY <1>3, <1>6 DEF After

-----------------------------------------------------------------------------
LEMMA InitHolds == Init => IInv
<1>. SUFFICES ASSUME Init PROVE IInv
  OBVIOUS
<1>1. DOMAIN log = {}
  BY DEF Init
<1>2. OneOpen /\ Fenced
  BY <1>1 DEF Init, OneOpen, Fenced, NoTx, Writer
<1>3. Tables
  BY DEF Init, Tables, Closed, Readers
<1>4. Cursors /\ NoSkip
  BY <1>1 DEF Init, Cursors, NoSkip, Closed
<1>. QED
  BY <1>2, <1>3, <1>4 DEF IInv

\* The readers' side, when no event is added.
LEMMA Quiet ==
  ASSUME IInv, UNCHANGED <<log, reader, got>>
  PROVE  Cursors' /\ NoSkip'
BY DEF IInv, Cursors, NoSkip

\* The readers' side, when an event is added above all others.
LEMMA AddedAbove ==
  ASSUME IInv, NEW at \in Nat \ {0}, NEW event, \A s \in DOMAIN log : s < at,
         log' = Added(at, event), UNCHANGED <<reader, got>>
  PROVE  Cursors' /\ NoSkip' /\ DOMAIN log' = DOMAIN log \cup {at}
<1>1. DOMAIN log' = DOMAIN log \cup {at}
  BY DEF Added
<1>2. \A c \in Reader : reader[c].cursor \in {0} \cup DOMAIN log /\ ~(at <= reader[c].cursor)
  BY DEF IInv, Cursors, OneOpen
<1>. QED
  BY <1>1, <1>2 DEF IInv, Cursors, NoSkip

\* Begin opens an append with a new cursor, of the owner if it is fenced.
LEMMA BeginHolds ==
  ASSUME IInv, NEW w \in Writer, NEW event, NEW fenced \in BOOLEAN,
         Begin(w, event, fenced), w \notin Job => ~fenced, UNCHANGED <<claim, log>>
  PROVE  OneOpen' /\ Fenced' /\ DOMAIN tx' = Writer
<1>. DEFINE row == [open |-> TRUE, at |-> seq + 1, fenced |-> fenced, event |-> event]
<1>1. /\ seq \in Nat /\ seq' = seq + 1 /\ DOMAIN log \subseteq 1..seq
      /\ \A v \in Writer : ~tx[v].open
      /\ tx' = [tx EXCEPT ![w] = row] /\ DOMAIN tx = Writer
      /\ fenced => Owns(w)
  BY DEF IInv, OneOpen, Tables, Begin, RowFree
<1>2. /\ DOMAIN tx' = Writer /\ tx'[w] = row
      /\ \A v \in Writer \ {w} : tx'[v] = tx[v]
  BY <1>1
<1>3. OneOpen'
  BY <1>1, <1>2 DEF OneOpen
<1>4. Fenced'
  BY <1>1, <1>2 DEF Fenced, Owns, Writer
<1>. QED
  BY <1>2, <1>3, <1>4

\* An append is committed or rolled back.
LEMMA CloseHolds ==
  ASSUME IInv, NEW w \in Writer, tx' = [tx EXCEPT ![w] = NoTx], UNCHANGED <<claim, seq>>,
         log' = log \/ (tx[w].open /\ DOMAIN log' = DOMAIN log \cup {tx[w].at})
  PROVE  OneOpen' /\ Fenced' /\ DOMAIN tx' = Writer
<1>1. ~NoTx.open
  BY DEF NoTx
<1>2. /\ DOMAIN tx' = Writer /\ tx'[w] = NoTx
      /\ \A v \in Writer \ {w} : tx'[v] = tx[v]
  BY <1>1 DEF IInv, Tables
<1>3. OneOpen'
  BY <1>1, <1>2 DEF IInv, OneOpen
<1>4. Fenced'
  BY <1>1, <1>2 DEF IInv, Fenced, Owns, Writer
<1>. QED
  BY <1>2, <1>3, <1>4

LEMMA CommittedHolds == ASSUME IInv, NEW w \in Writer, Committed(w) PROVE IInv'
<1>1. /\ tx[w].open /\ log' = Added(tx[w].at, tx[w].event) /\ tx' = [tx EXCEPT ![w] = NoTx]
      /\ UNCHANGED <<claim, seq, reader, got>>
  BY DEF Committed, Commit
<1>2. tx[w].at \in Nat \ {0} /\ \A s \in DOMAIN log : s < tx[w].at
  BY <1>1 DEF IInv, OneOpen
<1>3. Cursors' /\ NoSkip' /\ DOMAIN log' = DOMAIN log \cup {tx[w].at}
  BY <1>1, <1>2, AddedAbove
<1>. QED
  BY <1>1, <1>3, CloseHolds DEF IInv, Tables

\* MarkFailed adds its event above all others, and only when nothing is open.
LEMMA MarkFailedHolds ==
  ASSUME IInv, NEW st, MarkFailed(st), UNCHANGED <<tx, reader, got>>,
         \A j \in Job : tx[j].open /\ tx[j].fenced => (Owns(j))'
  PROVE  IInv'
<1>1. CASE status \in Active
  <2>1. /\ \A v \in Writer : ~tx[v].open
        /\ seq \in Nat /\ seq' = seq + 1 /\ log' = Added(seq + 1, Failure(st)) /\ DOMAIN log \subseteq 1..seq
    BY <1>1 DEF MarkFailed, RowFree, IInv, OneOpen
  <2>2. seq + 1 \in Nat \ {0} /\ \A s \in DOMAIN log : s < seq + 1
    BY <2>1
  <2>3. Cursors' /\ NoSkip' /\ DOMAIN log' = DOMAIN log \cup {seq + 1}
    BY <2>1, <2>2, AddedAbove
  <2>4. OneOpen' /\ Fenced'
    BY <2>1, <2>3 DEF OneOpen, Fenced, Writer
  <2>. QED
    BY <2>3, <2>4 DEF IInv, Tables
<1>2. CASE status \notin Active
  BY <1>2, Quiet DEF MarkFailed, IInv, OneOpen, Fenced, Tables
<1>. QED
  BY <1>1, <1>2

\* A reader that moves without receiving, or receives part of its page.
LEMMA MoveHolds ==
  ASSUME IInv, NEW c \in Reader, NEW pc \in {"off", "read", "status", "worker", "tail", "drain"},
         NEW cursor,
         MoveTo(c, pc, cursor),
         \/ cursor = reader[c].cursor /\ UNCHANGED got
         \/ cursor \in Page(c) /\ Receive(c, cursor),
         UNCHANGED <<claim, log, seq, tx>>
  PROVE  IInv'
<1>1. OneOpen' /\ Fenced'
  BY DEF IInv, OneOpen, Fenced, Owns
<1>2. seq \in Nat /\ DOMAIN log \subseteq 1..seq
  BY DEF IInv, OneOpen
<1>3. CASE cursor = reader[c].cursor /\ UNCHANGED got
  <2>1. cursor \in Nat
    BY <1>3 DEF IInv, Tables, Readers
  <2>2. reader' \in [Reader -> Readers] /\ \A r \in Reader : reader'[r].cursor = reader[r].cursor
    BY <1>3, <2>1 DEF IInv, Tables, MoveTo, Readers
  <2>. QED
    BY <1>1, <1>3, <2>2 DEF IInv, Tables, Cursors, NoSkip
<1>4. CASE cursor \in Page(c) /\ Receive(c, cursor)
  <2>1. /\ cursor \in DOMAIN log
        /\ \A s \in DOMAIN log :
              s <= cursor => s \in got[c] \/ s \in {t \in Page(c) : t <= cursor}
    BY <1>4, PageIsNext
  <2>2. cursor \in Nat /\ Page(c) \subseteq Nat
    BY <1>2, <2>1 DEF Page, After
  <2>3. /\ reader' \in [Reader -> Readers] /\ reader'[c].cursor = cursor
        /\ \A r \in Reader \ {c} : reader'[r] = reader[r]
    BY <2>2 DEF IInv, Tables, MoveTo, Readers
  <2>4. /\ got' \in [Reader -> SUBSET Nat]
        /\ got'[c] = got[c] \cup {s \in Page(c) : s <= cursor}
        /\ \A r \in Reader \ {c} : got'[r] = got[r]
    BY <1>4, <2>2 DEF IInv, Tables, Receive
  <2>5. Cursors'
    BY <2>1, <2>3 DEF IInv, Cursors
  <2>6. NoSkip'
    BY <2>1, <2>3, <2>4 DEF IInv, NoSkip
  <2>. QED
    BY <1>1, <2>3, <2>4, <2>5, <2>6 DEF IInv, Tables
<1>. QED
  BY <1>3, <1>4

-----------------------------------------------------------------------------
\* The worker of a claim.
LEMMA ClaimHolds == ASSUME IInv, NEW j \in Job, Claim(j) PROVE IInv'
<1>1. /\ claim.state # "active"
      /\ UNCHANGED <<log, seq, tx, reader, got>>
  BY DEF Claim
<1>2. Fenced'
  BY <1>1 DEF IInv, Fenced, Owns
<1>. QED
  BY <1>1, <1>2, Quiet DEF IInv, OneOpen, Tables

LEMMA FailsHolds == ASSUME IInv, NEW j \in Job, Fails(j) PROVE IInv'
<1>1. tx' = [tx EXCEPT ![j] = NoTx] /\ UNCHANGED <<claim, seq, log, reader, got>>
  BY DEF Fails
<1>2. j \in Writer
  BY DEF Writer
<1>. QED
  BY <1>1, <1>2, Quiet, CloseHolds DEF IInv, Tables

\* The appends: an event on the way, the last one, and the two snapshots.
LEMMA OpensHolds ==
  ASSUME IInv, NEW w \in Writer, NEW event, NEW fenced \in BOOLEAN,
         Begin(w, event, fenced), w \notin Job => ~fenced,
         UNCHANGED <<claim, log, reader, got>>
  PROVE  IInv'
BY BeginHolds, Quiet DEF IInv, Tables

LEMMA WorkHolds == ASSUME IInv, NEW j \in Job, Work(j) \/ Emit(j) PROVE IInv'
<1>. j \in Writer /\ TRUE \in BOOLEAN /\ FALSE \in BOOLEAN
  BY DEF Writer
<1>1. CASE Emit(j)
  <2>1. Begin(j, Delta, TRUE) /\ UNCHANGED <<claim, log, reader, got>>
    BY <1>1 DEF Emit
  <2>. QED
    BY <2>1, OpensHolds
<1>2. CASE LastEvent(j)
  <2>1. PICK event \in LastOf(status) :
            Begin(j, event, TRUE) /\ UNCHANGED <<claim, log, reader, got>>
    BY <1>2 DEF LastEvent
  <2>. QED
    BY <2>1, OpensHolds
<1>3. CASE Snapshot(j)
  <2>1. Begin(j, SnapshotOf(job[j].said), FALSE) /\ UNCHANGED <<claim, log, reader, got>>
    BY <1>3 DEF Snapshot
  <2>. QED
    BY <2>1, OpensHolds
<1>4. CASE Committed(j)
  BY <1>4, CommittedHolds
<1>5. CASE \/ Start(j) \/ Response(j) \/ Look(j) \/ LeaseLost(j) \/ Enforce(j)
           \/ \E st \in Outcome : Conclude(j, st)
  <2>1. UNCHANGED <<claim, log, seq, tx, reader, got>>
    BY <1>5 DEF Start, Response, Look, LeaseLost, Enforce, Conclude
  <2>. QED
    BY <2>1, Quiet DEF IInv, OneOpen, Fenced, Owns, Tables
<1>6. CASE FailOwned(j)
  <2>1. UNCHANGED <<claim, tx, reader, got>>
    BY <1>6 DEF FailOwned
  <2>2. \A k \in Job : tx[k].open /\ tx[k].fenced => (Owns(k))'
    BY <2>1 DEF IInv, Fenced, Owns
  <2>3. CASE Owns(j)
    BY <1>6, <2>1, <2>2, <2>3, MarkFailedHolds DEF FailOwned
  <2>4. CASE ~Owns(j)
    BY <1>6, <2>1, <2>4, Quiet DEF FailOwned, IInv, OneOpen, Fenced, Owns, Tables
  <2>. QED
    BY <2>3, <2>4
<1>7. CASE Finish(j)
  <2>1. UNCHANGED <<tx, reader, got>> /\ ~tx[j].open
    BY <1>7 DEF Finish
  <2>2. CASE Owns(j)
    <3>1. \A k \in Job : ~(tx[k].open /\ tx[k].fenced)
      BY <2>1, <2>2 DEF IInv, Fenced, Owns
    <3>. QED
      BY <1>7, <2>1, <2>2, <3>1, MarkFailedHolds DEF Finish
  <2>3. CASE ~Owns(j)
    BY <1>7, <2>1, <2>3, Quiet DEF Finish, IInv, OneOpen, Fenced, Owns, Tables
  <2>. QED
    BY <2>2, <2>3
<1>. QED
  BY <1>1, <1>2, <1>3, <1>4, <1>5, <1>6, <1>7 DEF Work

\* The heartbeat and the cancel request.
LEMMA OthersHold ==
  ASSUME IInv,
         Interrupt \/ Cancel \/ CancelLook \/ CancelSnapshot \/ Committed(User)
  PROVE  IInv'
<1>. User \in Writer /\ User \notin Job /\ FALSE \in BOOLEAN
  BY JournalConstants DEF Writer
<1>1. CASE Interrupt
  <2>1. MarkFailed("interrupted") /\ UNCHANGED <<tx, reader, got>> /\ ClaimFree
    BY <1>1 DEF Interrupt
  <2>2. \A k \in Job : ~(tx[k].open /\ tx[k].fenced)
    BY <2>1 DEF ClaimFree, Writer
  <2>. QED
    BY <2>1, <2>2, MarkFailedHolds
<1>2. CASE Cancel \/ CancelLook
  <2>1. UNCHANGED <<claim, log, seq, tx, reader, got>>
    BY <1>2 DEF Cancel, CancelLook
  <2>. QED
    BY <2>1, Quiet DEF IInv, OneOpen, Fenced, Owns, Tables
<1>3. CASE CancelSnapshot
  <2>1. Begin(User, SnapshotOf(cancel.said), FALSE) /\ UNCHANGED <<claim, log, reader, got>>
    BY <1>3 DEF CancelSnapshot
  <2>. QED
    BY <2>1, OpensHolds
<1>4. CASE Committed(User)
  BY <1>4, CommittedHolds
<1>. QED
  BY <1>1, <1>2, <1>3, <1>4

\* A page that is not empty is received up to its last event.
LEMMA YieldMoves ==
  ASSUME IInv, NEW c \in Reader, NEW pc, Yield(c, pc)
  PROVE  /\ Max(Page(c)) \in Page(c)
         /\ MoveTo(c, pc, Max(Page(c))) /\ Receive(c, Max(Page(c)))
<1>1. seq \in Nat /\ Page(c) \subseteq 1..seq /\ Page(c) # {}
  BY DEF IInv, OneOpen, Page, After, Yield
<1>. QED
  BY <1>1, LastExists DEF Yield

LEMMA ReaderHolds ==
  ASSUME IInv, NEW c \in Reader, Connect(c) \/ Disconnect(c) \/ Follow(c)
  PROVE  IInv'
<1>. UNCHANGED <<claim, log, seq, tx>>
  BY DEF Connect, Disconnect, Follow, Read, ReadStatus, ReadWorker, Tail
<1>1. CASE ReadStatus(c)
  <2>1. /\ reader' = [reader EXCEPT ![c].pc = "worker", ![c].active = status \in Active]
        /\ UNCHANGED got
    BY <1>1 DEF ReadStatus
  <2>2. /\ reader' \in [Reader -> Readers]
        /\ \A r \in Reader : reader'[r].cursor = reader[r].cursor
    <3>. DEFINE asked == [reader[c] EXCEPT !.pc = "worker", !.active = status \in Active]
    <3>1. reader \in [Reader -> Readers]
      BY DEF IInv, Tables
    <3>2. reader[c] \in Readers /\ (status \in Active) \in BOOLEAN
      BY <3>1
    <3>3. asked \in Readers /\ asked.cursor = reader[c].cursor
      BY <3>2 DEF Readers
    <3>4. reader' = [reader EXCEPT ![c] = asked]
      BY <2>1, <3>1, <3>2 DEF Readers
    <3>. QED
      BY <3>1, <3>3, <3>4
  <2>. QED
    BY <2>1, <2>2 DEF IInv, OneOpen, Fenced, Owns, Tables, Cursors, NoSkip
<1>2. CASE Connect(c)
  <2>1. MoveTo(c, "read", reader[c].cursor) /\ UNCHANGED got
    BY <1>2 DEF Connect
  <2>. QED
    BY <2>1, MoveHolds
<1>3. CASE Disconnect(c)
  <2>1. \/ MoveTo(c, "off", reader[c].cursor) /\ UNCHANGED got
        \/ \E last \in Page(c) : MoveTo(c, "off", last) /\ Receive(c, last)
    BY <1>3 DEF Disconnect
  <2>. QED
    BY <2>1, MoveHolds
<1>4. CASE Read(c)
  <2>1. \/ Yield(c, "read")
        \/ MoveTo(c, "status", reader[c].cursor) /\ UNCHANGED got
    BY <1>4 DEF Read
  <2>. QED
    BY <2>1, YieldMoves, MoveHolds
<1>5. CASE ReadWorker(c)
  <2>1. /\ \E pc \in {"tail", "drain", "read"} : MoveTo(c, pc, reader[c].cursor)
        /\ UNCHANGED got
    BY <1>5 DEF ReadWorker
  <2>. QED
    BY <2>1, MoveHolds
<1>6. CASE Tail(c)
  <2>1. \/ Yield(c, "off")
        \/ MoveTo(c, "off", reader[c].cursor) /\ UNCHANGED got
    BY <1>6 DEF Tail
  <2>. QED
    BY <2>1, YieldMoves, MoveHolds
<1>. QED
  BY <1>1, <1>2, <1>3, <1>4, <1>5, <1>6 DEF Follow

LEMMA StepHolds == IInv /\ [Next]_vars => IInv'
<1>. SUFFICES ASSUME IInv, [Next]_vars PROVE IInv'
  OBVIOUS
<1>1. CASE UNCHANGED vars
  BY <1>1 DEF vars, IInv, OneOpen, Fenced, Owns, Tables, Cursors, NoSkip
<1>2. CASE Next
  BY <1>2, ClaimHolds, FailsHolds, WorkHolds, OthersHold, ReaderHolds DEF Next
<1>. QED
  BY <1>1, <1>2

-----------------------------------------------------------------------------
\* A client that reconnects with the last cursor it saw never skips an event:
\* the row lock keeps at most one append open, so an event always commits above
\* every cursor a page has shown (_append, read_events, iter_events).
THEOREM NoEventSkipped == Spec => []NoSkip
<1>1. IInv => NoSkip
  BY DEF IInv
<1>. QED
  BY <1>1, InitHolds, StepHolds, PTL DEF Spec

\* An event of the streamed thread commits only while its claim is its own: the
\* fence holds the claim's row from the check to the commit, and neither the
\* heartbeat nor another worker can take the claim in between (_append).
THEOREM OnlyOwnerSpeaks == Spec => OwnerSpeaks
<1>1. IInv /\ [Next]_vars =>
        [\A j \in Job :
            tx[j].open /\ tx[j].fenced /\ tx[j].at \in DOMAIN log' => Owns(j)]_vars
  BY DEF IInv, Fenced
<1>. QED
  BY <1>1, InitHolds, StepHolds, PTL DEF Spec, OwnerSpeaks

-----------------------------------------------------------------------------
(* What a job answered is in the journal before its claim is closed.        *)

Jobs == [pc : JobPcs, said : Active \cup Settled]

Threads ==
    /\ status \in Active \cup Settled
    /\ claim \in [state : {"none", "active", "finished", "interrupted"}, owner : Job \cup {Recovery}]
    /\ job \in [Job -> Jobs]

InLog(st) == \E s \in DOMAIN log : log[s].shows = st

(* A final answer is known from the response on; it is in the journal, or in *)
(* the job's open append, from the moment the snapshot is taken.             *)
Answered(j) ==
    job[j].said \in Settled =>
        \/ job[j].pc \in {"look", "snapshot"}
        \/ /\ job[j].pc \in {"finish", "over"}
           /\ InLog(job[j].said) \/ (tx[j].open /\ tx[j].event.shows = job[j].said)

(* A job that is over has nothing left to commit. *)
Settles(j) == job[j].pc = "over" => ~tx[j].open

(* A claim is closed by its own job, as the last thing it does. *)
ClosedLast == claim.state = "finished" => claim.owner \in Job /\ job[claim.owner].pc = "over"

Answers == Threads /\ (\A j \in Job : Answered(j) /\ Settles(j)) /\ ClosedLast

LogKept == \A s \in DOMAIN log : s \in DOMAIN log' /\ log'[s] = log[s]

\* The journal only grows: an event is added at a cursor no event has.
LEMMA AddedKeeps ==
  ASSUME NEW at, NEW event, at \notin DOMAIN log, log' = Added(at, event)
  PROVE  LogKept /\ at \in DOMAIN log' /\ log'[at] = event
BY DEF Added, LogKept

LEMMA MarkFailedKeeps == ASSUME IInv, NEW st, MarkFailed(st) PROVE LogKept
<1>1. seq \in Nat /\ DOMAIN log \subseteq 1..seq
  BY DEF IInv, OneOpen
<1>2. seq + 1 \notin DOMAIN log
  BY <1>1
<1>3. CASE status \in Active
  BY <1>2, <1>3, AddedKeeps DEF MarkFailed
<1>4. CASE status \notin Active
  BY <1>4 DEF MarkFailed, LogKept
<1>. QED
  BY <1>3, <1>4

LEMMA CommitKeeps ==
  ASSUME IInv, NEW w \in Writer, Commit(w)
  PROVE  LogKept /\ \E s \in DOMAIN log' : log'[s].shows = tx[w].event.shows
<1>1. tx[w].at \notin DOMAIN log /\ log' = Added(tx[w].at, tx[w].event)
  BY DEF IInv, OneOpen, Commit
<1>. QED
  BY <1>1, AddedKeeps

\* A job that neither moves nor writes keeps what is known of it.
LEMMA JobKept ==
  ASSUME NEW k \in Job, Answered(k), Settles(k), LogKept, job'[k] = job[k], tx'[k] = tx[k]
  PROVE  Answered(k)' /\ Settles(k)'
BY DEF Answered, Settles, InLog, LogKept

LEMMA AnswersInit == Init => Answers
<1>. SUFFICES ASSUME Init PROVE Answers
  OBVIOUS
<1>1. Threads
  BY DEF Init, Threads, Jobs, JobPcs, Active
<1>2. \A j \in Job : job[j].said \notin Settled /\ job[j].pc # "over"
  BY DEF Init, Settled
<1>3. ClosedLast
  BY DEF Init, ClosedLast
<1>. QED
  BY <1>1, <1>2, <1>3 DEF Answers, Answered, Settles

\* A step of one job: the others are as they were.
LEMMA JobMoves ==
  ASSUME Answers, NEW j \in Job, NEW pc \in JobPcs, Goto(j, pc)
  PROVE  /\ job' \in [Job -> Jobs]
         /\ job'[j] = [pc |-> pc, said |-> job[j].said]
         /\ \A k \in Job \ {j} : job'[k] = job[k]
<1>1. job \in [Job -> Jobs] /\ job[j] \in Jobs
  BY DEF Answers, Threads
<1>2. [job[j] EXCEPT !.pc = pc] = [pc |-> pc, said |-> job[j].said]
  BY <1>1 DEF Jobs
<1>3. job' = [job EXCEPT ![j] = [pc |-> pc, said |-> job[j].said]]
  BY <1>1, <1>2 DEF Goto
<1>4. [pc |-> pc, said |-> job[j].said] \in Jobs
  BY <1>1 DEF Jobs
<1>. QED
  BY <1>1, <1>3, <1>4

\* What one job's step has to show.
LEMMA OneMoves ==
  ASSUME Answers, NEW j \in Job, LogKept,
         status' \in Active \cup Settled,
         claim' \in [state : {"none", "active", "finished", "interrupted"}, owner : Job \cup {Recovery}],
         claim' = claim \/ claim'.state # "finished" \/ (claim'.owner = j /\ job'[j].pc = "over"),
         job' \in [Job -> Jobs], \A k \in Job \ {j} : job'[k] = job[k],
         \A k \in Job \ {j} : tx'[k] = tx[k],
         job[j].pc # "over",
         Answered(j)', Settles(j)'
  PROVE  Answers'
<1>1. Threads'
  BY DEF Threads
<1>2. \A k \in Job : Answered(k)' /\ Settles(k)'
  BY JobKept DEF Answers
<1>3. ClosedLast'
  <2>1. CASE claim' = claim
    BY <2>1 DEF Answers, ClosedLast
  <2>2. CASE claim'.state # "finished"
    BY <2>2 DEF ClosedLast
  <2>3. CASE claim'.owner = j /\ job'[j].pc = "over"
    BY <2>3 DEF ClosedLast
  <2>. QED
    BY <2>1, <2>2, <2>3
<1>. QED
  BY <1>1, <1>2, <1>3 DEF Answers

\* A step of no job.
LEMMA NoneMoves ==
  ASSUME Answers, LogKept, status' \in Active \cup Settled,
         claim' \in [state : {"none", "active", "finished", "interrupted"}, owner : Job \cup {Recovery}],
         claim' = claim \/ claim'.state # "finished",
         UNCHANGED job, \A k \in Job : tx'[k] = tx[k]
  PROVE  Answers'
<1>1. Threads'
  BY DEF Answers, Threads
<1>2. \A k \in Job : Answered(k)' /\ Settles(k)'
  BY JobKept DEF Answers
<1>3. ClosedLast'
  BY DEF Answers, ClosedLast
<1>. QED
  BY <1>1, <1>2, <1>3 DEF Answers

-----------------------------------------------------------------------------
\* The steps on the way to the response: nothing is answered yet.
LEMMA EarlyAnswers ==
  ASSUME IInv, Answers, NEW j \in Job,
         Claim(j) \/ Start(j) \/ LastEvent(j) \/ LeaseLost(j) \/ Enforce(j) \/ FailOwned(j)
             \/ \E st \in Outcome : Conclude(j, st)
  PROVE  Answers'
<1>. DEFINE early == {"idle", "start", "work", "last", "lost", "error"}
            later == {"start", "work", "last", "lost", "error", "finish", "response"}
<1>1. job[j].pc \in early
  BY DEF Claim, Start, LastEvent, LeaseLost, Enforce, FailOwned, Conclude
<1>2. PICK pc \in later : Goto(j, pc)
  <2>1. CASE Claim(j) \/ LastEvent(j) \/ LeaseLost(j) \/ Enforce(j) \/ FailOwned(j)
    BY <2>1 DEF Claim, LastEvent, LeaseLost, Enforce, FailOwned
  <2>2. CASE Start(j)
    <3>1. Goto(j, "work") \/ Goto(j, "last") \/ Goto(j, "error")
      BY <2>2 DEF Start
    <3>. QED
      BY <3>1
  <2>3. CASE \E st \in Outcome : Conclude(j, st)
    <3>1. Goto(j, "last") \/ Goto(j, "response")
      BY <2>3 DEF Conclude
    <3>. QED
      BY <3>1
  <2>. QED
    BY <2>1, <2>2, <2>3
<1>3. pc \in JobPcs /\ pc # "over"
  BY DEF JobPcs
<1>4. /\ job' \in [Job -> Jobs] /\ job'[j] = [pc |-> pc, said |-> job[j].said]
      /\ \A k \in Job \ {j} : job'[k] = job[k]
  BY <1>2, <1>3, JobMoves
<1>5. Answered(j) /\ Settles(j) /\ Threads
  BY DEF Answers
<1>6. job[j].said \notin Settled /\ job[j].pc # "over"
  BY <1>1, <1>5 DEF Answered
<1>7. Answered(j)' /\ Settles(j)'
  BY <1>3, <1>4, <1>6 DEF Answered, Settles
<1>8. LogKept
  <2>1. CASE FailOwned(j)
    BY <2>1, MarkFailedKeeps DEF FailOwned, LogKept
  <2>2. CASE ~FailOwned(j)
    BY <2>2 DEF Claim, Start, LastEvent, LeaseLost, Enforce, Conclude, LogKept
  <2>. QED
    BY <2>1, <2>2
<1>9. status' \in Active \cup Settled
  BY <1>5 DEF Claim, Start, LastEvent, LeaseLost, Enforce, FailOwned, Conclude, MarkFailed, Outcome,
              Threads, Active, Settled
<1>10. /\ claim' \in [state : {"none", "active", "finished", "interrupted"}, owner : Job \cup {Recovery}]
       /\ claim' = claim \/ claim'.state # "finished"
  <2>1. CASE Claim(j)
    BY <2>1 DEF Claim
  <2>2. CASE ~Claim(j)
    BY <1>5, <2>2 DEF Start, LastEvent, LeaseLost, Enforce, FailOwned, Conclude, Threads
  <2>. QED
    BY <2>1, <2>2
<1>11. \A k \in Job \ {j} : tx'[k] = tx[k]
  <2>1. CASE LastEvent(j)
    BY <2>1 DEF LastEvent, Begin, IInv, Tables, Writer
  <2>2. CASE ~LastEvent(j)
    BY <2>2 DEF Claim, Start, LeaseLost, Enforce, FailOwned, Conclude
  <2>. QED
    BY <2>1, <2>2
<1>. QED
  BY <1>4, <1>6, <1>7, <1>8, <1>9, <1>10, <1>11, OneMoves

\* The response and its snapshot.
LEMMA LateAnswers ==
  ASSUME IInv, Answers, NEW j \in Job, Response(j) \/ Look(j) \/ Snapshot(j) \/ Fails(j)
  PROVE  Answers'
<1>1. /\ Answered(j) /\ Settles(j) /\ Threads /\ job \in [Job -> Jobs] /\ j \in Writer
      /\ status \in Active \cup Settled
  BY DEF Answers, Threads, Writer
<1>2. /\ UNCHANGED <<status, claim, log>> /\ LogKept /\ job[j].pc # "over"
  BY DEF Response, Look, Snapshot, Fails, LogKept
<1>3. \A k \in Job \ {j} : tx'[k] = tx[k]
  BY <1>1 DEF Response, Look, Snapshot, Fails, Begin, IInv, Tables, Writer
<1>4. /\ job' \in [Job -> Jobs] /\ (\A k \in Job \ {j} : job'[k] = job[k])
      /\ Answered(j)' /\ Settles(j)'
  <2>1. CASE Response(j)
    <3>1. PICK pc \in {"error", "look"} :
             /\ job' = [job EXCEPT ![j] = [pc |-> pc, said |-> status]]
             /\ pc = "error" => status \in Active
      BY <2>1 DEF Response, Say
    <3>2. [pc |-> pc, said |-> status] \in Jobs
      BY <1>1 DEF Jobs, JobPcs
    <3>3. /\ job' \in [Job -> Jobs] /\ (\A k \in Job \ {j} : job'[k] = job[k])
          /\ job'[j] = [pc |-> pc, said |-> status]
      BY <1>1, <3>1, <3>2
    <3>4. Answered(j)'
      BY <3>1, <3>3 DEF Answered, Active, Settled
    <3>. QED
      BY <3>3, <3>4 DEF Settles
  <2>2. CASE Look(j)
    <3>1. PICK pc \in {"finish", "snapshot"} :
             Goto(j, pc) /\ (pc = "finish" => AlreadyLast(SnapshotOf(job[j].said)))
      BY <2>2 DEF Look
    <3>2. /\ job' \in [Job -> Jobs] /\ job'[j] = [pc |-> pc, said |-> job[j].said]
          /\ \A k \in Job \ {j} : job'[k] = job[k]
      BY <3>1, JobMoves DEF JobPcs
    <3>3. AlreadyLast(SnapshotOf(job[j].said)) => InLog(job[j].said)
      <4>1. seq \in Nat /\ DOMAIN log \subseteq 1..seq
        BY DEF IInv, OneOpen
      <4>2. SnapshotOf(job[j].said).shows = job[j].said
        BY DEF SnapshotOf, Event
      <4>. QED
        BY <4>1, <4>2, LastExists DEF AlreadyLast, InLog
    <3>4. pc = "finish" => (\E s \in DOMAIN log' : log'[s].shows = job[j].said)
      BY <1>2, <3>1, <3>3 DEF InLog
    <3>5. Answered(j)'
      BY <3>2, <3>4 DEF Answered, InLog
    <3>. QED
      BY <3>2, <3>5 DEF Settles
  <2>3. CASE Snapshot(j)
    <3>1. Goto(j, "finish") /\ Begin(j, SnapshotOf(job[j].said), FALSE)
      BY <2>3 DEF Snapshot
    <3>2. /\ job' \in [Job -> Jobs] /\ job'[j] = [pc |-> "finish", said |-> job[j].said]
          /\ \A k \in Job \ {j} : job'[k] = job[k]
      BY <3>1, JobMoves DEF JobPcs
    <3>3. tx'[j].open /\ tx'[j].event.shows = job[j].said
      BY <1>1, <3>1 DEF Begin, IInv, Tables, SnapshotOf, Event
    <3>. QED
      BY <3>2, <3>3 DEF Answered, Settles
  <2>4. CASE Fails(j)
    <3>1. [pc |-> "error", said |-> "queued"] \in Jobs
      BY DEF Jobs, JobPcs, Active
    <3>2. /\ job' \in [Job -> Jobs] /\ (\A k \in Job \ {j} : job'[k] = job[k])
          /\ job'[j] = [pc |-> "error", said |-> "queued"]
      BY <1>1, <2>4, <3>1 DEF Fails
    <3>. QED
      BY <3>2 DEF Answered, Settles, Settled
  <2>. QED
    BY <2>1, <2>2, <2>3, <2>4
<1>5. /\ status' \in Active \cup Settled /\ claim' = claim
      /\ claim' \in [state : {"none", "active", "finished", "interrupted"}, owner : Job \cup {Recovery}]
  BY <1>1, <1>2 DEF Threads
<1>. QED
  BY <1>2, <1>3, <1>4, <1>5, OneMoves

\* The claim is closed when nothing of the job's is left to commit.
LEMMA FinishAnswers == ASSUME IInv, Answers, NEW j \in Job, Finish(j) PROVE Answers'
<1>1. Answered(j) /\ Threads /\ job[j].pc = "finish" /\ ~tx[j].open /\ Goto(j, "over") /\ UNCHANGED tx
  BY DEF Answers, Finish
<1>2. /\ job' \in [Job -> Jobs] /\ job'[j] = [pc |-> "over", said |-> job[j].said]
      /\ \A k \in Job \ {j} : job'[k] = job[k]
  BY <1>1, JobMoves DEF JobPcs
<1>3. LogKept
  BY MarkFailedKeeps DEF Finish, LogKept
<1>4. job[j].said \in Settled => InLog(job[j].said)
  BY <1>1 DEF Answered
<1>5. job[j].said \in Settled => (\E s \in DOMAIN log' : log'[s].shows = job[j].said)
  BY <1>3, <1>4 DEF InLog, LogKept
<1>6. Answered(j)' /\ Settles(j)'
  BY <1>1, <1>2, <1>5 DEF Answered, Settles, InLog
<1>7. status' \in Active \cup Settled
  BY <1>1 DEF Finish, MarkFailed, Threads, Settled
<1>8. /\ claim' \in [state : {"none", "active", "finished", "interrupted"}, owner : Job \cup {Recovery}]
      /\ claim' = claim \/ claim'.owner = j
  <2>1. CASE Owns(j)
    <3>1. claim' = [claim EXCEPT !.state = "finished"] /\ claim.owner = j
      BY <2>1 DEF Finish, Owns
    <3>. QED
      BY <1>1, <3>1 DEF Threads
  <2>2. CASE ~Owns(j)
    BY <1>1, <2>2 DEF Finish, Threads
  <2>. QED
    BY <2>1, <2>2
<1>. QED
  BY <1>1, <1>2, <1>3, <1>6, <1>7, <1>8, OneMoves

\* An append ends: what it shows is in the journal from now on.
LEMMA CommittedAnswers == ASSUME IInv, Answers, NEW w \in Writer, Committed(w) PROVE Answers'
<1>1. /\ tx[w].open /\ tx' = [tx EXCEPT ![w] = NoTx] /\ DOMAIN tx = Writer /\ Commit(w)
      /\ UNCHANGED <<status, claim, job>> /\ Threads
  BY DEF Committed, Commit, IInv, Tables, Answers
<1>2. LogKept /\ \E s \in DOMAIN log' : log'[s].shows = tx[w].event.shows
  BY <1>1, CommitKeeps
<1>3. ASSUME NEW k \in Job PROVE Answered(k)' /\ Settles(k)'
  <2>1. Answered(k) /\ Settles(k) /\ k \in Writer
    BY DEF Answers, Writer
  <2>2. CASE k # w
    BY <1>1, <1>2, <2>1, <2>2, JobKept
  <2>3. CASE k = w
    <3>1. ~tx'[k].open /\ job'[k] = job[k]
      BY <1>1, <2>1, <2>3 DEF NoTx
    <3>2. InLog(job[k].said) => (\E s \in DOMAIN log' : log'[s].shows = job[k].said)
      BY <1>2 DEF InLog, LogKept
    <3>3. Answered(k)'
      BY <1>2, <2>1, <2>3, <3>1, <3>2 DEF Answered, InLog
    <3>. QED
      BY <3>1, <3>3 DEF Settles
  <2>. QED
    BY <2>2, <2>3
<1>4. Threads' /\ ClosedLast'
  BY <1>1 DEF Threads, Answers, ClosedLast
<1>. QED
  BY <1>3, <1>4 DEF Answers

\* Everybody else.
LEMMA OtherAnswers ==
  ASSUME IInv, Answers,
         \/ UNCHANGED vars
         \/ Interrupt \/ Cancel \/ CancelLook \/ CancelSnapshot
         \/ \E j \in Job : Emit(j)
         \/ \E c \in Reader : Connect(c) \/ Disconnect(c) \/ Follow(c)
  PROVE  Answers'
<1>1. Threads /\ User \notin Job /\ DOMAIN tx = Writer
  BY JournalConstants DEF Answers, IInv, Tables, Writer
<1>2. CASE \E j \in Job : Emit(j)
  <2>1. PICK j \in Job : Emit(j)
    BY <1>2
  <2>2. /\ job[j].pc = "work" /\ UNCHANGED <<status, claim, job, log>> /\ Begin(j, Delta, TRUE)
        /\ Answered(j) /\ Settles(j)
    BY <2>1 DEF Emit, Answers
  <2>3. (\A k \in Job \ {j} : tx'[k] = tx[k]) /\ LogKept
    BY <1>1, <2>2 DEF Begin, Writer, LogKept
  <2>4. Answered(j)' /\ Settles(j)'
    BY <2>2 DEF Answered, Settles
  <2>. QED
    BY <1>1, <2>2, <2>3, <2>4, OneMoves DEF Threads
<1>3. CASE Interrupt
  <2>1. /\ LogKept /\ UNCHANGED <<tx, job>>
        /\ claim' = [claim EXCEPT !.state = "interrupted"] /\ status' \in {status, "interrupted"}
    BY <1>3, MarkFailedKeeps DEF Interrupt, MarkFailed
  <2>2. /\ status' \in Active \cup Settled
        /\ claim' \in [state : {"none", "active", "finished", "interrupted"}, owner : Job \cup {Recovery}]
        /\ claim'.state # "finished"
    BY <1>1, <2>1 DEF Threads, Settled
  <2>. QED
    BY <2>1, <2>2, NoneMoves
<1>4. CASE CancelSnapshot
  <2>1. /\ LogKept /\ UNCHANGED <<status, claim, job>> /\ \A k \in Job : tx'[k] = tx[k]
    BY <1>1, <1>4 DEF CancelSnapshot, Begin, Writer, LogKept
  <2>. QED
    BY <1>1, <2>1, NoneMoves DEF Threads
<1>5. CASE \/ UNCHANGED vars \/ Cancel \/ CancelLook
           \/ \E c \in Reader : Connect(c) \/ Disconnect(c) \/ Follow(c)
  <2>1. UNCHANGED <<claim, log, tx, job>> /\ status' \in {status, "cancelled"}
    BY <1>5 DEF vars, Cancel, CancelLook, Connect, Disconnect, Follow, Read, ReadStatus,
                ReadWorker, Tail
  <2>2. LogKept /\ status' \in Active \cup Settled
    BY <1>1, <2>1 DEF Threads, Settled, LogKept
  <2>. QED
    BY <1>1, <2>1, <2>2, NoneMoves DEF Threads
<1>. QED
  BY <1>2, <1>3, <1>4, <1>5

LEMMA AnswersStep == IInv /\ Answers /\ [Next]_vars => Answers'
<1>. SUFFICES ASSUME IInv, Answers, [Next]_vars PROVE Answers'
  OBVIOUS
<1>1. ASSUME NEW j \in Job, Claim(j) \/ Fails(j) \/ Work(j) PROVE Answers'
  <2>1. CASE Committed(j)
    BY <2>1, CommittedAnswers DEF Writer
  <2>2. CASE Finish(j)
    BY <2>2, FinishAnswers
  <2>. QED
    BY <1>1, <2>1, <2>2, EarlyAnswers, LateAnswers DEF Work
<1>2. CASE Committed(User)
  BY <1>2, CommittedAnswers DEF Writer
<1>. QED
  BY <1>1, <1>2, OtherAnswers DEF Next

-----------------------------------------------------------------------------
(* The last read of a stream.                                               *)

(* The events added between a stream's last page and its last read fit in   *)
(* one page (of 200).                                                        *)
TailFits ==
    \A c \in Reader :
        reader[c].pc = "tail" /\ claim.state = "finished" => Cardinality(After(c)) <= Limit

\* When everything after the cursor fits in a page, the page is all of it.
LEMMA PageIsAll ==
  ASSUME IInv, NEW c \in Reader, Cardinality(After(c)) <= Limit
  PROVE  Page(c) = After(c)
<1>1. seq \in Nat /\ After(c) \subseteq 1..seq /\ Limit \in Nat
  BY JournalConstants DEF IInv, OneOpen, After
<1>2. IsFiniteSet(After(c))
  <2>1. IsFiniteSet(1..seq)
    BY <1>1, FS_Interval
  <2>. QED
    BY <1>1, <2>1, FS_Subset
<1>3. ASSUME NEW s \in After(c) PROVE Cardinality({t \in After(c) : t < s}) < Limit
  <2>. DEFINE below == {t \in After(c) : t < s}
  <2>1. below \subseteq After(c) \ {s}
    BY <1>1
  <2>2. /\ IsFiniteSet(After(c) \ {s})
        /\ Cardinality(After(c) \ {s}) = Cardinality(After(c)) - 1
    BY <1>2, FS_RemoveElement
  <2>3. IsFiniteSet(below) /\ Cardinality(below) <= Cardinality(After(c) \ {s})
    BY <2>1, <2>2, FS_Subset
  <2>4. Cardinality(below) \in Nat /\ Cardinality(After(c)) \in Nat
    BY <1>2, <2>3, FS_CardinalityType
  <2>. HIDE DEF below
  <2>5. Cardinality(below) < Limit
    BY <1>1, <2>2, <2>3, <2>4
  <2>. QED
    BY <2>5 DEF below
<1>. QED
  BY <1>3 DEF Page

\* After its last read the client has every event of the journal.
LEMMA TailTakesAll ==
  ASSUME IInv, NEW c \in Reader, Tail(c), Cardinality(After(c)) <= Limit
  PROVE  DOMAIN log \subseteq got'[c]
<1>1. Page(c) = After(c)
  BY PageIsAll
<1>2. /\ seq \in Nat /\ DOMAIN log \subseteq 1..seq /\ reader[c].cursor \in Nat
      /\ DOMAIN got = Reader
      /\ {s \in DOMAIN log : s <= reader[c].cursor} \subseteq got[c]
  BY DEF IInv, OneOpen, Tables, Readers, NoSkip
<1>3. CASE Yield(c, "off")
  <2>1. Receive(c, Max(Page(c))) /\ Page(c) # {}
    BY <1>3, YieldMoves
  <2>2. \A s \in Page(c) : s <= Max(Page(c))
    <3>1. Page(c) \subseteq 1..seq
      BY <1>2 DEF Page, After
    <3>. QED
      BY <1>2, <2>1, <3>1, LastExists
  <2>3. got'[c] = got[c] \cup Page(c)
    BY <1>2, <2>1, <2>2 DEF Receive
  <2>. QED
    BY <1>1, <1>2, <2>3 DEF After
<1>4. CASE Page(c) = {} /\ UNCHANGED got
  BY <1>1, <1>2, <1>4 DEF After
<1>. QED
  BY <1>3, <1>4 DEF Tail

\* A stream that ends because its run is done has told its client the status
\* the last job answered with, as long as its last read fits in one page: the
\* answer is in the journal before the claim closes (_execute: last event, then
\* record_snapshot, then _finish_claim), and the last read, made after the
\* check, brings everything that was not received yet (iter_events).
THEOREM StreamTellsOutcome == Spec /\ []TailFits => EndsTold
<1>1. ASSUME IInv, Answers, TailFits, NEW c \in Reader,
             Tail(c), reader[c].pc = "tail", claim.state = "finished",
             job[claim.owner].said \in Settled
      PROVE  \E s \in got'[c] : log[s].shows = job[claim.owner].said
  <2>1. claim.owner \in Job /\ job[claim.owner].pc = "over"
    BY <1>1 DEF Answers, ClosedLast
  <2>2. Answered(claim.owner) /\ Settles(claim.owner)
    BY <1>1, <2>1 DEF Answers
  <2>3. InLog(job[claim.owner].said)
    BY <1>1, <2>1, <2>2 DEF Answered, Settles
  <2>4. DOMAIN log \subseteq got'[c]
    BY <1>1, TailTakesAll DEF TailFits
  <2>. QED
    BY <2>3, <2>4 DEF InLog
<1>2. IInv /\ Answers /\ TailFits =>
        [\A c \in Reader :
            Tail(c) /\ reader[c].pc = "tail" /\ claim.state = "finished" =>
            LET answered == job[claim.owner].said
            IN answered \in Settled => \E s \in got'[c] : log[s].shows = answered]_vars
  BY <1>1
<1>. QED
  BY <1>2, InitHolds, AnswersInit, StepHolds, AnswersStep, PTL DEF Spec, EndsTold
=============================================================================
