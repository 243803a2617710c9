---------------------------- MODULE MemoryCards ----------------------------
(***************************************************************************)
(* One memory card and the vectors that find it: MemoryService, as the     *)
(* notebook, the approved memory tool, the workbench and the consolidation *)
(* bridge call it, each request in a thread and a database session of its  *)
(* own.                                                                    *)
(*                                                                         *)
(* The database is SQLite, the one the application bootstraps by itself:   *)
(* a SELECT takes no lock that outlives it, the first write of a           *)
(* transaction takes the only write lock and its commit or rollback gives  *)
(* it back.  The session is SQLAlchemy's, without autoflush: an UPDATE     *)
(* names only the columns whose value differs from the one the session     *)
(* read, and fails when the row is gone.  Both are external.               *)
(***************************************************************************)
EXTENDS Naturals, Sequences

CONSTANTS
    Request,    \* calls of the service
    Text        \* contents a card can have

VARIABLES
    card,       \* the committed row, NoCard without one
    origin,     \* who created it: "none" before, "notebook" or "history"
    vectors,    \* texts of its committed MemoryCardEmbedding rows
    draft,      \* the row as the transaction that holds the lock sees it
    writer,     \* request that holds the write lock
    req         \* per request: where it is, the text it brings, the row it read

vars == <<card, origin, vectors, draft, writer, req>>

None   == "none"
Cards  == [text : Text, summary : Text \cup {None}, active : BOOLEAN]
NoCard == [text |-> None, summary |-> None, active |-> FALSE]
Steps  == {"idle", "edit", "toggle", "delete", "indexing", "embed", "upsert", "over"}

TypeOK ==
    /\ card \in Cards \cup {NoCard}
    /\ origin \in {None, "notebook", "history"}
    /\ vectors \in Seq(Text)
    /\ draft \in Cards \cup {NoCard}
    /\ writer \in Request \cup {None}
    /\ req \in [Request -> [at : Steps, text : Text \cup {None},
                            seen : Cards \cup {NoCard}, found : BOOLEAN]]

Init ==
    /\ card = NoCard
    /\ origin = None
    /\ vectors = <<>>
    /\ draft = NoCard
    /\ writer = None
    /\ req = [r \in Request |-> [at |-> "idle", text |-> None, seen |-> NoCard, found |-> FALSE]]

Goes(r, step) == req' = [req EXCEPT ![r].at = step]
Over(r) == Goes(r, "over")

-----------------------------------------------------------------------------
\* Mutant: the card is committed before it is indexed.
SaveCommitsFirst(r, t, summarised) ==
    /\ req[r].at = "idle"
    /\ origin = None
    /\ writer = None
    /\ origin' = "notebook"
    /\ card' = [text |-> t, summary |-> IF summarised THEN t ELSE None, active |-> TRUE]
    /\ req' = [req EXCEPT ![r].at = "embed", ![r].text = t]
    /\ UNCHANGED <<vectors, draft, writer>>

(* create: the row is flushed and its vector computed before the commit.   *)
Save(r, t, summarised) ==
    /\ req[r].at = "idle"
    /\ origin = None
    /\ writer = None
    /\ writer' = r
    /\ origin' = "notebook"
    /\ draft' = [text |-> t, summary |-> IF summarised THEN t ELSE None, active |-> TRUE]
    /\ req' = [req EXCEPT ![r].at = "indexing", ![r].text = t]
    /\ UNCHANGED <<card, vectors>>

(* update and delete first read the row, without a lock.  The content that *)
(* an edit brings may be the stored one: the notebook always sends it.     *)
Load(r, step, t) ==
    /\ req[r].at = "idle"
    /\ card # NoCard
    /\ req' = [req EXCEPT ![r].at = step, ![r].text = t, ![r].seen = card]
    /\ UNCHANGED <<card, origin, vectors, draft, writer>>

(* The columns an edit of the content changes in the row that is there now. *)
Edited(r) ==
    [card EXCEPT !.text    = IF req[r].text = req[r].seen.text THEN @ ELSE req[r].text,
                 !.summary = IF req[r].seen.summary = None THEN @ ELSE None]

(* The UPDATE finds no row: the session raises and rolls back. *)
Vanished(r) ==
    /\ req[r].at \in {"edit", "toggle"}
    /\ writer = None
    /\ card = NoCard
    /\ Over(r)
    /\ UNCHANGED <<card, origin, vectors, draft, writer>>

(* update with a content: flush, then the vector in the same transaction. *)
Flush(r) ==
    /\ req[r].at = "edit"
    /\ writer = None
    /\ card # NoCard
    /\ writer' = r
    /\ draft' = Edited(r)
    /\ Goes(r, "indexing")
    /\ UNCHANGED <<card, origin, vectors>>

(* _upsert_embedding on the rows r can see: the first is replaced. *)
Upserted(r) == IF vectors = <<>> THEN <<req[r].text>> ELSE [vectors EXCEPT ![1] = req[r].text]

Commit(r) ==
    /\ req[r].at = "indexing"
    /\ card' = draft
    /\ vectors' = Upserted(r)
    /\ draft' = NoCard
    /\ writer' = None
    /\ Over(r)
    /\ UNCHANGED origin

(* update without a content: pausing and resuming a card. *)
Toggle(r) ==
    /\ req[r].at = "toggle"
    /\ writer = None
    /\ card # NoCard
    /\ card' = [card EXCEPT !.active = ~req[r].seen.active]
    /\ Over(r)
    /\ UNCHANGED <<origin, vectors, draft, writer>>

Delete(r) ==
    /\ req[r].at = "delete"
    /\ writer = None
    /\ card' = NoCard
    /\ vectors' = <<>>
    /\ Over(r)
    /\ UNCHANGED <<origin, draft, writer>>

(* An exception before the commit - the embedding call fails, the lock is  *)
(* not free in time, the process dies - rolls the transaction back.        *)
Fail(r) ==
    /\ req[r].at \notin {"idle", "over"}
    /\ IF writer = r
       THEN /\ writer' = None
            /\ draft' = NoCard
            /\ origin' = IF card = NoCard /\ vectors = <<>> THEN None ELSE origin
       ELSE UNCHANGED <<writer, draft, origin>>
    /\ Over(r)
    /\ UNCHANGED <<card, vectors>>

-----------------------------------------------------------------------------
(* create_from_consolidation commits the card first and indexes it after:  *)
(* it embeds what it read back, looks for a vector, and writes.            *)
SaveHistory(r, t) ==
    /\ req[r].at = "idle"
    /\ origin = None
    /\ writer = None
    /\ origin' = "history"
    /\ card' = [text |-> t, summary |-> t, active |-> TRUE]
    /\ req' = [req EXCEPT ![r].at = "embed", ![r].text = t]
    /\ UNCHANGED <<vectors, draft, writer>>

FindVector(r) ==
    /\ req[r].at = "embed"
    /\ req' = [req EXCEPT ![r].at = "upsert", ![r].found = vectors # <<>>]
    /\ UNCHANGED <<card, origin, vectors, draft, writer>>

Upsert(r) ==
    /\ req[r].at = "upsert"
    /\ writer = None
    /\ vectors' = CASE ~req[r].found                   -> Append(vectors, req[r].text)
                    [] req[r].found /\ vectors # <<>> -> Upserted(r)
                    [] req[r].found /\ vectors = <<>> -> vectors
    /\ Over(r)
    /\ UNCHANGED <<card, origin, draft, writer>>

Next ==
    \E r \in Request :
        \/ \E t \in Text, summarised \in BOOLEAN : Save(r, t, summarised)
        \/ \E t \in Text : Load(r, "edit", t) \/ SaveHistory(r, t)
        \/ \E step \in {"toggle", "delete"} : Load(r, step, None)
        \/ Vanished(r) \/ Flush(r) \/ Commit(r) \/ Toggle(r) \/ Delete(r) \/ Fail(r)
        \/ FindVector(r) \/ Upsert(r)

Spec == Init /\ [][Next]_vars

-----------------------------------------------------------------------------
(* What a search can return: the text whose vector a query was compared    *)
(* with (search_cards_for_chat), the text that is handed out for it and    *)
(* the summary the keyword search of the tools reads.                      *)
Hits == IF card.active
        THEN {[matched |-> vectors[i], text |-> card.text, summary |-> card.summary] : i \in DOMAIN vectors}
        ELSE {}

(* Correcting a card that was saved by hand or by an approved tool corrects *)
(* what finds it: it is found by the text it has now and by nothing else.   *)
RecallCurrent == origin = "notebook" => \A h \in Hits : h.matched = h.text

(* Card, vector and summary live and die together: a card that was saved   *)
(* by hand or by an approved tool has exactly one vector, a deleted one    *)
(* has none, although deleting reads the card before it locks anything and *)
(* another request may be about to write it; and its summary is not left   *)
(* over from an earlier text, whatever edits, pauses and failures overlap. *)
IndexedTogether ==
    origin = "notebook" =>
        /\ Len(vectors) = IF card = NoCard THEN 0 ELSE 1
        /\ \A h \in Hits : h.summary \in {None, h.text}

=============================================================================
