---------------------------- MODULE MemoryFiles ----------------------------
(***************************************************************************)
(* The memory files of one workspace (MEMORY.md, RECENT_CONTEXT.md,        *)
(* HISTORY.md, PENDING.md), the people who edit two of them in the         *)
(* notebook, and the consolidation service, which learns of completed      *)
(* turns through the event bus of its process and every MinTurns turns of  *)
(* a conversation asks a model what is worth keeping.                      *)
(*                                                                         *)
(* Every write of a file is one step: it reads, computes and replaces the  *)
(* file under the file's own lock, which processes share.  The queue, the  *)
(* buffers of turns and the workspace lock belong to a process and die     *)
(* with it.  A text is the set of its notes; a note is known by the run    *)
(* or the person that wrote it, and the revision of a file is its content. *)
(***************************************************************************)
EXTENDS Naturals, Sequences, FiniteSets

CONSTANTS
    Process,            \* server processes
    Run,                \* turns that will complete
    ConversationOf,     \* ConversationOf[r]: the conversation of a turn
    Companion,          \* turns of the companion channel, which is never consolidated
    Editor,             \* people at the notebook
    MinTurns,           \* memory_consolidation_min_turns
    BufferCap,          \* turns a buffer holds: max(min_turns, 6)
    RecentTurns,        \* lines of the Recent Turns block
    MayFail,            \* turns whose disk writes may fail
    MayCrash            \* processes that may die

\* The buffer never holds less than a consolidation waits for.
ASSUME FilesAssumption ==
    /\ MinTurns \in Nat \ {0} /\ BufferCap \in Nat /\ BufferCap >= MinTurns
    /\ "none" \notin Run \cup Process

VARIABLES
    turn,       \* turn[r]: where the event of r is
    queue,      \* queue[p]: the bus's queue
    awaited,    \* awaited[p]: the turn the bus's worker waits for
    lock,       \* lock[p]: holder of the workspace lock
    buffer,     \* buffer[p][c]: turns of a conversation since its last consolidation
    count,      \* count[p][c]: how many turns the service counted
    window,     \* window[r]: the turns the consolidation of r has in view
    todo,       \* todo[r]: what the model found and r has still to write
    made,       \* made[k]: does the file exist?
    notes,      \* notes[k]: notes in the editable part of a file
    recent,     \* the Recent Turns block
    history,    \* consolidations recorded in HISTORY.md
    pending,    \* consolidations recorded in PENDING.md
    cards,      \* consolidations bridged to memory cards
    editor,     \* editor[e]: the document e has open and the revision seen
    failed      \* history: turns whose consolidation, or taking in, a failing disk broke off

vars == <<turn, queue, awaited, lock, buffer, count, window, todo, made, notes, recent,
          history, pending, cards, editor, failed>>

files == <<made, notes, recent, history, pending, cards>>

None == "none"
Kinds == {"long_term", "recent_context"}
Findings == <<"history", "pending", "long_term", "context">>
Conversation == {ConversationOf[r] : r \in Run}

Revision(k) == [made |-> made[k], notes |-> notes[k],
                recent |-> IF k = "recent_context" THEN recent ELSE <<>>]

Closed == [doc |-> None, seen |-> None]

LastOf(s, n) == SubSeq(s, IF Len(s) > n THEN Len(s) - n + 1 ELSE 1, Len(s))
Elements(s)  == {s[i] : i \in DOMAIN s}

Init ==
    /\ turn = [r \in Run |-> [at |-> "open", on |-> None]]
    /\ queue = [p \in Process |-> <<>>]
    /\ awaited = [p \in Process |-> None]
    /\ lock = [p \in Process |-> None]
    /\ buffer = [p \in Process |-> [c \in Conversation |-> <<>>]]
    /\ count = [p \in Process |-> [c \in Conversation |-> 0]]
    /\ window = [r \in Run |-> {}]
    /\ todo = [r \in Run |-> {}]
    /\ made = [k \in Kinds |-> FALSE]
    /\ notes = [k \in Kinds |-> {}]
    /\ recent = <<>>
    /\ history = {} /\ pending = {} /\ cards = {} /\ failed = {}
    /\ editor = [e \in Editor |-> Closed]

-----------------------------------------------------------------------------
(* The event bus. *)

\* The run completed on p: its turn is put on the bus.
Enqueue(r, p) ==
    /\ turn[r].at = "open"
    /\ turn' = [turn EXCEPT ![r] = [at |-> "queued", on |-> p]]
    /\ queue' = [queue EXCEPT ![p] = Append(@, r)]
    /\ UNCHANGED <<awaited, lock, buffer, count, window, todo, files, editor, failed>>

\* The worker hands the oldest event to a thread and waits for it.
Dispatch(p) ==
    /\ awaited[p] = None
    /\ queue[p] # <<>>
    /\ LET r == Head(queue[p]) IN
       /\ awaited' = [awaited EXCEPT ![p] = r]
       /\ turn' = [turn EXCEPT ![r].at = IF r \in Companion THEN "done" ELSE "fanned"]
    /\ queue' = [queue EXCEPT ![p] = Tail(@)]
    /\ UNCHANGED <<lock, buffer, count, window, todo, files, editor, failed>>

\* The observer returned, or thirty seconds are over and the worker goes on.
StopWaiting(p) ==
    /\ awaited[p] # None
    /\ awaited' = [awaited EXCEPT ![p] = None]
    /\ UNCHANGED <<turn, queue, lock, buffer, count, window, todo, files, editor, failed>>

-----------------------------------------------------------------------------
(* The consolidation service, in a thread of the bus. *)

\* The workspace's files are created where they are missing.
EnsureWorkspace(r) ==
    /\ turn[r].at = "fanned"
    /\ turn' = [turn EXCEPT ![r].at = "waiting"]
    /\ made' = [k \in Kinds |-> TRUE]
    /\ UNCHANGED <<queue, awaited, lock, buffer, count, window, todo, notes, recent, history,
                   pending, cards, editor, failed>>

\* The disk refuses to make the files, or to replace the recent turns: the
\* exception ends the observer before the turn is taken in.
Refused(r) ==
    /\ r \in MayFail
    /\ \/ /\ turn[r].at = "fanned"
          /\ \E some \in {{}, {"long_term"}, Kinds} :
                made' = [k \in Kinds |-> made[k] \/ k \in some]
       \/ /\ turn[r].at = "waiting" /\ lock[turn[r].on] = None
          /\ UNCHANGED made
    /\ turn' = [turn EXCEPT ![r].at = "done"]
    /\ failed' = failed \cup {r}
    /\ UNCHANGED <<queue, awaited, lock, buffer, count, window, todo, notes, recent, history,
                   pending, cards, editor>>

\* Mutant: the turn is taken in without the workspace lock.
TakeInUnlocked(r) ==
    LET p == turn[r].on
        c == ConversationOf[r]
        held == LastOf(Append(buffer[p][c], r), BufferCap)
        full == count[p][c] + 1 >= MinTurns
    IN
    /\ turn[r].at = "waiting"
    /\ recent' = LastOf(Append(recent, r), RecentTurns)
    /\ made' = [made EXCEPT !["recent_context"] = TRUE]
    /\ buffer' = [buffer EXCEPT ![p][c] = held]
    /\ count' = [count EXCEPT ![p][c] = @ + 1]
    /\ turn' = [turn EXCEPT ![r].at = IF full THEN "asking" ELSE "done"]
    /\ lock' = [lock EXCEPT ![p] = IF full THEN r ELSE None]
    /\ window' = [window EXCEPT ![r] = IF full THEN Elements(held) ELSE {}]
    /\ UNCHANGED <<queue, awaited, todo, notes, history, pending, cards, editor, failed>>

\* Under the workspace lock the turn is added to the recent turns, to the
\* buffer of its conversation and to its count; when the count is reached the
\* consolidation begins with a copy of the buffer.
TakeIn(r) ==
    LET p == turn[r].on
        c == ConversationOf[r]
        held == LastOf(Append(buffer[p][c], r), BufferCap)
        full == count[p][c] + 1 >= MinTurns
    IN
    /\ turn[r].at = "waiting"
    /\ lock[p] = None
    /\ recent' = LastOf(Append(recent, r), RecentTurns)
    /\ made' = [made EXCEPT !["recent_context"] = TRUE]
    /\ buffer' = [buffer EXCEPT ![p][c] = held]
    /\ count' = [count EXCEPT ![p][c] = @ + 1]
    /\ turn' = [turn EXCEPT ![r].at = IF full THEN "asking" ELSE "done"]
    /\ lock' = [lock EXCEPT ![p] = IF full THEN r ELSE None]
    /\ window' = [window EXCEPT ![r] = IF full THEN Elements(held) ELSE {}]
    /\ UNCHANGED <<queue, awaited, todo, notes, history, pending, cards, editor, failed>>

\* The model answers; what it finds is validated.  An answer that cannot be
\* used, and a call that fails, find nothing.  Facts for MEMORY.md are some of
\* the pending items.
Extract(r) ==
    /\ turn[r].at = "asking"
    /\ \E found \in SUBSET Elements(Findings) :
        /\ "long_term" \in found => "pending" \in found
        /\ todo' = [todo EXCEPT ![r] = found]
    /\ turn' = [turn EXCEPT ![r].at = "writing"]
    /\ UNCHANGED <<queue, awaited, lock, buffer, count, window, files, editor, failed>>

\* What was found is written, file by file.  HISTORY.md and PENDING.md carry a
\* mark of the run, and what is marked is not appended again.
Write(r) ==
    /\ turn[r].at = "writing"
    /\ todo[r] # {}
    /\ LET i == CHOOSE i \in DOMAIN Findings :
                    Findings[i] \in todo[r] /\ \A j \in 1..(i - 1) : Findings[j] \notin todo[r]
           what == Findings[i]
       IN
       /\ todo' = [todo EXCEPT ![r] = @ \ {what}]
       /\ history' = IF what = "history" THEN history \cup {r} ELSE history
       /\ pending' = IF what = "pending" THEN pending \cup {r} ELSE pending
       /\ notes' = [k \in Kinds |-> IF k = what \/ (k = "recent_context" /\ what = "context")
                                    THEN notes[k] \cup {r} ELSE notes[k]]
    /\ UNCHANGED <<turn, queue, awaited, lock, buffer, count, window, made, recent, cards,
                   editor, failed>>

\* The disk refuses a write: the exception leaves count and buffer as they are.
WriteFails(r) ==
    /\ r \in MayFail
    /\ turn[r].at = "writing"
    /\ todo[r] # {}
    /\ turn' = [turn EXCEPT ![r].at = "done"]
    /\ todo' = [todo EXCEPT ![r] = {}]
    /\ lock' = [lock EXCEPT ![turn[r].on] = None]
    /\ failed' = failed \cup {r}
    /\ UNCHANGED <<queue, awaited, buffer, count, window, files, editor>>

\* The bridge turns recorded history into cards, or fails and is logged; then
\* the window is closed, whatever the model had found in it.
Committed(r) ==
    LET p == turn[r].on
        c == ConversationOf[r]
    IN
    /\ turn[r].at = "writing"
    /\ todo[r] = {}
    /\ cards' \in {cards} \cup {cards \cup {x} : x \in {r} \cap history}
    /\ count' = [count EXCEPT ![p][c] = 0]
    /\ buffer' = [buffer EXCEPT ![p][c] = <<>>]
    /\ turn' = [turn EXCEPT ![r].at = "done"]
    /\ lock' = [lock EXCEPT ![p] = None]
    /\ UNCHANGED <<queue, awaited, window, todo, made, notes, recent, history, pending, editor,
                   failed>>

\* A process dies: its queue, its threads and its buffers are gone.
Crash(p) ==
    /\ p \in MayCrash
    /\ turn' = [r \in Run |->
                  IF /\ turn[r].on = p
                     /\ \/ turn[r].at # "done"
                        \/ r \in Elements(buffer[p][ConversationOf[r]])
                  THEN [at |-> "lost", on |-> None] ELSE turn[r]]
    /\ queue' = [queue EXCEPT ![p] = <<>>]
    /\ awaited' = [awaited EXCEPT ![p] = None]
    /\ lock' = [lock EXCEPT ![p] = None]
    /\ buffer' = [buffer EXCEPT ![p] = [c \in Conversation |-> <<>>]]
    /\ count' = [count EXCEPT ![p] = [c \in Conversation |-> 0]]
    /\ todo' = [r \in Run |-> IF turn[r].on = p THEN {} ELSE todo[r]]
    /\ UNCHANGED <<window, files, editor, failed>>

-----------------------------------------------------------------------------
(* The notebook. *)

Open(e, k) ==
    /\ editor[e].doc = None
    /\ editor' = [editor EXCEPT ![e] = [doc |-> k, seen |-> Revision(k)]]
    /\ UNCHANGED <<turn, queue, awaited, lock, buffer, count, window, todo, files, failed>>

\* Mutant: a save that does not compare the revision.
SaveBlindly(e) ==
    /\ editor[e].doc # None
    /\ LET k == editor[e].doc IN
       \E kept \in SUBSET editor[e].seen.notes :
        /\ notes' = [notes EXCEPT ![k] = kept \cup {e}]
        /\ made' = [made EXCEPT ![k] = TRUE]
    /\ editor' = [editor EXCEPT ![e] = Closed]
    /\ UNCHANGED <<turn, queue, awaited, lock, buffer, count, window, todo, recent, history,
                   pending, cards, failed>>

\* A save replaces the text if the file is still the one that was opened.  The
\* Recent Turns block is hidden from the editor and kept.
Save(e) ==
    /\ editor[e].doc # None
    /\ LET k == editor[e].doc IN
       \/ /\ editor[e].seen = Revision(k)
          /\ \E kept \in SUBSET notes[k] :
               notes' = [notes EXCEPT ![k] = kept \cup {e}]
          /\ made' = [made EXCEPT ![k] = TRUE]
       \/ /\ editor[e].seen # Revision(k)       \* refused
          /\ UNCHANGED <<notes, made>>
    /\ editor' = [editor EXCEPT ![e] = Closed]
    /\ UNCHANGED <<turn, queue, awaited, lock, buffer, count, window, todo, recent, history,
                   pending, cards, failed>>

-----------------------------------------------------------------------------
Next ==
    \/ \E r \in Run, p \in Process : Enqueue(r, p)
    \/ \E p \in Process : Dispatch(p) \/ StopWaiting(p) \/ Crash(p)
    \/ \E r \in Run :
        \/ EnsureWorkspace(r) \/ Refused(r) \/ TakeIn(r) \/ Extract(r)
        \/ Write(r) \/ WriteFails(r) \/ Committed(r)
    \/ \E e \in Editor, k \in Kinds : Open(e, k)
    \/ \E e \in Editor : Save(e)

Spec == Init /\ [][Next]_vars

-----------------------------------------------------------------------------
TypeOK ==
    /\ turn \in [Run -> [at : {"open", "queued", "fanned", "waiting", "asking", "writing",
                               "done", "lost"}, on : Process \cup {None}]]
    /\ \A p \in Process : lock[p] \in Run \cup {None} /\ awaited[p] \in Run \cup {None}
    /\ \A p \in Process, c \in Conversation : Len(buffer[p][c]) <= BufferCap
    /\ \A k \in Kinds : notes[k] \subseteq Run \cup Editor
    /\ Len(recent) <= RecentTurns

(* A turn that completed waits in a buffer or was part of a consolidation  *)
(* that ended.  A restart takes only turns no consolidation has weighed    *)
(* yet, and what a failing disk costs is bounded: the turn it refused to   *)
(* note at all, and turns it kept from being weighed again and again,      *)
(* until newer ones pushed them out of the buffer.  A turn is part of two  *)
(* recorded consolidations only when a write of the first one failed and   *)
(* left its buffer standing.                                               *)
Weighed == UNION {window[r] : r \in {x \in Run : turn[x].at = "done" /\ x \notin failed}}

BrokenOff(r) == {x \in failed : r \in window[x]}   \* consolidations of r the disk broke off

EachTurnWeighedOnce ==
    /\ \A r \in Run \ Companion :
          turn[r].at = "done" =>
              \/ r \in Weighed
              \/ r \in Elements(buffer[turn[r].on][ConversationOf[r]])
              \/ r \in failed /\ window[r] = {}
              \/ Cardinality(BrokenOff(r)) > BufferCap - MinTurns
    /\ \A r, x \in history \cup pending :
          r # x /\ window[r] \cap window[x] # {} =>
              {r, x} \cap failed # {} \/ {r, x} \cap {y \in Run : turn[y].at = "lost"} # {}

=============================================================================
