----------------------------- MODULE Workspace ------------------------------
(***************************************************************************)
(* What one user keeps: spaces, conversations, the questions asked in them *)
(* and favourite answers, which can be promoted to memory cards or         *)
(* conclusions.  A request that asks the provider, or that commits twice,  *)
(* takes two steps; the other requests come between.                       *)
(***************************************************************************)
EXTENDS Naturals, Sequences, FiniteSets

CONSTANTS
    Request,            \* requests that may overlap
    HistoryTurns,       \* llm_history_turns
    MaxSpaces, MaxConversations, MaxRows, MaxFavorites, MaxCards, MaxEdits   \* bounds

VARIABLES
    spaces,             \* project_spaces rows, oldest first
    conversations,      \* conversations rows, oldest first
    rows,               \* chat_history rows, oldest first; saw is history
    favorites,          \* answer_favorites rows, oldest first
    cards,              \* history: memory cards and conclusions promoted from favourites
    request             \* request[r]: what it has read and will do next

vars == <<spaces, conversations, rows, favorites, cards, request>>

Idle == [at |-> "idle"]

Init ==
    /\ spaces = <<>> /\ conversations = <<>> /\ rows = <<>>
    /\ favorites = <<>> /\ cards = <<>>
    /\ request = [r \in Request |-> Idle]

Goes(r, q) == request' = [request EXCEPT ![r] = q]
Free(r) == request[r].at = "idle"

-----------------------------------------------------------------------------
(* Spaces.                                                                 *)
DefaultSpaces == {s \in DOMAIN spaces : spaces[s].default /\ spaces[s].status = "active"}

\* Listing spaces, or starting a conversation without naming one, makes the
\* default space when none is found.
NeedDefault(r) ==
    /\ Free(r) /\ DefaultSpaces = {}
    /\ Goes(r, [at |-> "default"])
    /\ UNCHANGED <<spaces, conversations, rows, favorites, cards>>

NewSpace(default) ==
    /\ Len(spaces) < MaxSpaces
    /\ spaces' = Append(spaces, [default |-> default, status |-> "active"])

MakeDefault(r) ==
    /\ request[r].at = "default"
    /\ NewSpace(TRUE) /\ Goes(r, Idle)
    /\ UNCHANGED <<conversations, rows, favorites, cards>>

CreateSpace ==
    /\ NewSpace(FALSE)
    /\ UNCHANGED <<conversations, rows, favorites, cards, request>>

Accessible(s) == spaces[s].status # "deleted"

\* Mutant: a default space is archived as well.
UpdateAnySpace(s, status) ==
    /\ Accessible(s)
    /\ spaces' = [spaces EXCEPT ![s].status = status]
    /\ UNCHANGED <<conversations, rows, favorites, cards, request>>

\* To archive, to take back and to delete: not the default space.
UpdateSpace(s, status) ==
    /\ Accessible(s)
    /\ spaces[s].default => status = "active"
    /\ spaces' = [spaces EXCEPT ![s].status = status]
    /\ UNCHANGED <<conversations, rows, favorites, cards, request>>

-----------------------------------------------------------------------------
(* Conversations and their questions.                                      *)
CreateConversation(s) ==
    /\ Accessible(s)
    /\ Len(conversations) < MaxConversations
    /\ conversations' = Append(conversations, [space |-> s, exists |-> TRUE])
    /\ UNCHANGED <<spaces, rows, favorites, cards, request>>

\* The user or an administrator deletes it with its questions; favourites stay.
DeleteConversation(c) ==
    /\ conversations[c].exists
    /\ conversations' = [conversations EXCEPT ![c].exists = FALSE]
    /\ rows' = [m \in DOMAIN rows |->
                    IF rows[m].conversation = c THEN [rows[m] EXCEPT !.exists = FALSE] ELSE rows[m]]
    /\ UNCHANGED <<spaces, favorites, cards, request>>

In(c) == {m \in DOMAIN rows : rows[m].exists /\ rows[m].conversation = c}

\* What can be told to the model, edited and marked as a favourite.
Talk == {"ask", "echo"}

\* The last HistoryTurns rows before m, as far as they can be told.
Context(c, m) ==
    LET before == {n \in In(c) : n < m} IN
    {n \in before : /\ Cardinality({o \in before : o > n}) < HistoryTurns
                    /\ rows[n].channel \in Talk}

\* Mutant: the context of an edited question is that of a new one.
ContextOfNew(c, m) == Context(c, Len(rows) + 1)

\* The context of an edited question.
ContextOfEdit(c, m) == Context(c, m)

Ask(r, c) ==
    /\ Free(r) /\ conversations[c].exists
    /\ Goes(r, [at |-> "answering", conversation |-> c, row |-> 0,
                saw |-> Context(c, Len(rows) + 1)])
    /\ UNCHANGED <<spaces, conversations, rows, favorites, cards>>

Row(c, channel, saw) ==
    [conversation |-> c, exists |-> TRUE, channel |-> channel, version |-> 1, saw |-> saw]

\* The answer is stored if the conversation is still there.
Answer(r) ==
    LET q == request[r] IN
    /\ q.at = "answering" /\ q.row = 0
    /\ IF conversations[q.conversation].exists
       THEN /\ Len(rows) < MaxRows
            /\ rows' = Append(rows, Row(q.conversation, "ask", q.saw))
       ELSE UNCHANGED rows
    /\ Goes(r, Idle)
    /\ UNCHANGED <<spaces, conversations, favorites, cards>>

\* An action, or a finished run of an agent, leaves a row as well, and so does an echo.
Action(c, channel) ==
    /\ conversations[c].exists
    /\ Len(rows) < MaxRows
    /\ rows' = Append(rows, Row(c, channel, {}))
    /\ UNCHANGED <<spaces, conversations, favorites, cards, request>>

\* Only the latest row of its conversation; an echo is not put to the model.
Edit(r, m) ==
    LET c == rows[m].conversation IN
    /\ Free(r)
    /\ rows[m].exists /\ rows[m].version < MaxEdits
    /\ \A n \in In(c) : n <= m
    /\ rows[m].channel \in Talk
    /\ conversations[c].exists
    /\ Goes(r, [at |-> "answering", conversation |-> c, row |-> m,
                saw |-> IF rows[m].channel = "ask" THEN ContextOfEdit(c, m) ELSE {}])
    /\ UNCHANGED <<spaces, conversations, rows, favorites, cards>>

\* The row is looked up again, nothing else.
Reanswer(r) ==
    LET q == request[r] IN
    /\ q.at = "answering" /\ q.row # 0
    /\ rows' = IF rows[q.row].exists
               THEN [rows EXCEPT ![q.row].version = @ + 1, ![q.row].saw = q.saw] ELSE rows
    /\ Goes(r, Idle)
    /\ UNCHANGED <<spaces, conversations, favorites, cards>>

DeleteRow(m) ==
    /\ rows[m].exists
    /\ rows' = [rows EXCEPT ![m].exists = FALSE]
    /\ UNCHANGED <<spaces, conversations, favorites, cards, request>>

-----------------------------------------------------------------------------
(* Favourites: a copy of the question and the answer.                      *)
Favor(m, s) ==
    /\ rows[m].exists /\ rows[m].channel \in Talk /\ Accessible(s)
    /\ Len(favorites) < MaxFavorites
    /\ favorites' = Append(favorites, [row |-> m, version |-> rows[m].version, space |-> s,
                                       exists |-> TRUE, promoted |-> FALSE])
    /\ UNCHANGED <<spaces, conversations, rows, cards, request>>

Reachable(f) == favorites[f].exists /\ Accessible(favorites[f].space)

DeleteFavorite(f) ==
    /\ Reachable(f)
    /\ favorites' = [favorites EXCEPT ![f].exists = FALSE]
    /\ UNCHANGED <<spaces, conversations, rows, cards, request>>

\* Mutant: the favourite is marked first.
PromoteMarked(r, f) ==
    /\ Free(r) /\ Reachable(f) /\ Len(cards) < MaxCards
    /\ favorites' = [favorites EXCEPT ![f].promoted = TRUE]
    /\ Goes(r, [at |-> "promoting", favorite |-> f])
    /\ UNCHANGED <<spaces, conversations, rows, cards>>

\* The card, or the conclusion, is committed first,
Promote(r, f) ==
    /\ Free(r) /\ Reachable(f) /\ Len(cards) < MaxCards
    /\ cards' = Append(cards, [favorite |-> f, version |-> favorites[f].version])
    /\ Goes(r, [at |-> "promoting", favorite |-> f])
    /\ UNCHANGED <<spaces, conversations, rows, favorites>>

\* the mark on the favourite after it; there is none if it was deleted meanwhile.
Promoted(r) ==
    /\ request[r].at = "promoting"
    /\ favorites' = IF favorites[request[r].favorite].exists
                    THEN [favorites EXCEPT ![request[r].favorite].promoted = TRUE] ELSE favorites
    /\ Goes(r, Idle)
    /\ UNCHANGED <<spaces, conversations, rows, cards>>

\* The provider fails, or the request dies.
Fails(r) ==
    /\ ~Free(r) /\ Goes(r, Idle)
    /\ UNCHANGED <<spaces, conversations, rows, favorites, cards>>

-----------------------------------------------------------------------------
Next ==
    \/ CreateSpace
    \/ \E s \in DOMAIN spaces :
        \/ CreateConversation(s)
        \/ \E status \in {"active", "archived", "deleted"} : UpdateSpace(s, status)
        \/ \E m \in DOMAIN rows : Favor(m, s)
    \/ \E c \in DOMAIN conversations :
        \/ DeleteConversation(c)
        \/ \E channel \in {"action", "echo"} : Action(c, channel)
    \/ \E m \in DOMAIN rows : DeleteRow(m)
    \/ \E f \in DOMAIN favorites : DeleteFavorite(f)
    \/ \E r \in Request :
        \/ NeedDefault(r) \/ MakeDefault(r) \/ Answer(r) \/ Reanswer(r) \/ Promoted(r) \/ Fails(r)
        \/ \E c \in DOMAIN conversations : Ask(r, c)
        \/ \E m \in DOMAIN rows : Edit(r, m)
        \/ \E f \in DOMAIN favorites : Promote(r, f)

Spec == Init /\ [][Next]_vars

-----------------------------------------------------------------------------
TypeOK ==
    /\ spaces \in Seq([default : BOOLEAN, status : {"active", "archived", "deleted"}])
    /\ conversations \in Seq([space : DOMAIN spaces, exists : BOOLEAN])
    /\ \A m \in DOMAIN rows : rows[m].conversation \in DOMAIN conversations
    /\ \A f \in DOMAIN favorites : favorites[f].row \in DOMAIN rows

(* Once the user has a default space, there is one to fall back on.        *)
DefaultStays == [][DefaultSpaces # {} => DefaultSpaces' # {}]_vars

(* A question, asked or edited, was answered knowing questions of its own  *)
(* conversation that came before it, whatever came in between.             *)
ContextIsEarlier ==
    \A m \in DOMAIN rows : \A n \in rows[m].saw :
        n < m /\ rows[n].conversation = rows[m].conversation

(* A favourite marked as promoted was promoted: there is a card with the   *)
(* answer it keeps.                                                        *)
MarkedHasCard ==
    \A f \in DOMAIN favorites :
        favorites[f].promoted =>
            \E i \in DOMAIN cards : cards[i] = [favorite |-> f, version |-> favorites[f].version]
=============================================================================
