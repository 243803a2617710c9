----------------------------- MODULE ChatAnswer -----------------------------
(***************************************************************************)
(* Answering one chat question: the search for context with its helper     *)
(* model (rewriting, a hypothetical answer, a sufficiency check: each may  *)
(* fail and is then left out), and the calls to the provider, with their   *)
(* continuations, their second try with the history told in one message    *)
(* and their second try without images.                                    *)
(***************************************************************************)
EXTENDS Naturals, Sequences, FiniteSets, TLC

CONSTANTS
    Chunk,          \* indexed chunks in scope
    TopK,           \* hits asked for
    Scores,         \* the similarities a search may give
    HistoryMode,    \* the setting: "native", "compat" or "auto"
    MaxSegments     \* _MAX_COMPLETION_SEGMENTS

VARIABLES
    stage,          \* what is done next
    question,       \* what the request brings for the provider (read in Ask)
    hits,           \* chunk -> its similarity and the search that found it
    plain,          \* history: the hits of the plain search, until the provider is asked
    rewritten,      \* did the helper model rewrite the question?
    take,           \* how the provider is being asked
    takes,          \* history: the ways it was asked, in order
    segments,       \* parts of the answer received, each with the take it came from
    outcome

vars == <<stage, question, hits, plain, rewritten, take, takes, segments, outcome>>

searching == <<hits, plain, rewritten>>
asking == <<question, take, takes, segments>>

\* What the provider is sent: with the images or without them, the history as
\* messages of its own or told in the prompt.
Takes  == [images : BOOLEAN, mode : {"native", "compat"}]
NoTake == [images |-> FALSE, mode |-> "native"]
NoHits == [c \in {} |-> 0]

Init ==
    /\ stage = "scope"
    /\ question = [images |-> FALSE, history |-> FALSE]
    /\ hits = NoHits /\ plain = NoHits /\ rewritten = FALSE
    /\ take = NoTake /\ takes = <<>> /\ segments = <<>>
    /\ outcome = "none"

-----------------------------------------------------------------------------
FirstMode(q) == IF ~q.history \/ HistoryMode # "compat" THEN "native" ELSE "compat"

\* The built-in mock answers when it is asked for or no provider is set up; a
\* custom model with half its settings is refused; else the provider is asked.
Ask(kept) ==
    /\ hits' = kept /\ plain' = NoHits /\ rewritten' = FALSE
    /\ \/ stage' = "done" /\ outcome' \in {"mock", "failed"} /\ UNCHANGED asking
       \/ /\ stage' = "asking"
          /\ question' \in [images : BOOLEAN, history : BOOLEAN]
          /\ take' = [images |-> question'.images, mode |-> FirstMode(question')]
          /\ takes' = <<take'>>
          /\ UNCHANGED <<segments, outcome>>

\* Without documents in scope, or none of them indexed, there is no search.
Scope ==
    /\ stage = "scope"
    /\ \/ Ask(NoHits)
       \/ stage' = "rewrite" /\ UNCHANGED <<searching, asking, outcome>>

\* What a search may return: at most TopK chunks with their similarity.
Found(search) ==
    UNION {[S -> [score : Scores, search : {search}]] :
                S \in {T \in SUBSET Chunk : Cardinality(T) <= TopK}}

\* A search that cannot embed its query fails the request.
SearchFails ==
    /\ stage \in {"plain", "rewritten", "hypothesis", "refined"}
    /\ stage' = "done" /\ outcome' = "failed"
    /\ UNCHANGED <<searching, asking>>

\* The helper model rewrites the question, or fails and is left out.
Rewrite ==
    /\ stage = "rewrite"
    /\ stage' = "plain" /\ rewritten' \in BOOLEAN
    /\ UNCHANGED <<hits, plain, asking, outcome>>

SearchPlain ==
    /\ stage = "plain"
    /\ \E found \in Found(1) : hits' = found /\ plain' = found
    /\ stage' = IF rewritten THEN "rewritten" ELSE "hyde"
    /\ UNCHANGED <<rewritten, asking, outcome>>

\* Mutant: the hits of a later search replace those of the plain one.
SearchInstead(at, number, next) ==
    /\ stage = at /\ stage' = next
    /\ hits' \in Found(number)
    /\ UNCHANGED <<plain, rewritten, asking, outcome>>

\* New chunks are added; one already found keeps its first similarity.
SearchMore(at, number, next) ==
    /\ stage = at /\ stage' = next
    /\ \E found \in Found(number) : hits' = hits @@ found
    /\ UNCHANGED <<plain, rewritten, asking, outcome>>

\* Helper calls: an answer leads to one more search, no answer is left out.
Helper(at, search, next) ==
    /\ stage = at /\ stage' \in {search, next}
    /\ UNCHANGED <<searching, asking, outcome>>

Hypothesis == Helper("hyde", "hypothesis", "check")

\* Only an answer "not sufficient" with another query leads to a search; no
\* hits at all mean the question once more.
Sufficiency == Helper("check", "refined", "cut")

\* Sorted by similarity (of equals, the first found) and cut at TopK.
Before(a, b) == hits[a].score > hits[b].score
                \/ (hits[a].score = hits[b].score /\ hits[a].search < hits[b].search)

Best(kept) == \A a \in DOMAIN hits \ kept : \A b \in kept : ~Before(a, b)

Cut ==
    /\ stage = "cut"
    /\ \E kept \in SUBSET DOMAIN hits :
        /\ Cardinality(kept) <= TopK
        /\ kept # DOMAIN hits => Cardinality(kept) = TopK
        /\ Best(kept)
        /\ Ask([c \in kept |-> hits[c]])

-----------------------------------------------------------------------------
(* The provider.  A failure may say that the message content was not       *)
(* understood, or that the account was refused, or both, or neither.       *)
Failures == [content : BOOLEAN, refused : BOOLEAN]
Plain == [content |-> FALSE, refused |-> FALSE]

Another(t) == take' = t /\ takes' = Append(takes, t) /\ UNCHANGED <<stage, outcome>>

GiveUp == stage' = "done" /\ outcome' = "failed" /\ UNCHANGED <<take, takes>>

\* Mutant: a try with the history in the prompt is followed by another.
TryCompatAgain(e) ==
    IF question.history /\ HistoryMode = "auto" /\ ~e.refused
    THEN Another([take EXCEPT !.mode = "compat"])
    ELSE IF take.images /\ e.content
    THEN Another([images |-> FALSE, mode |-> FirstMode(question)])
    ELSE GiveUp

\* First once more with the history in the prompt, then all over without images.
TryAgain(e) ==
    IF take.mode = "native" /\ question.history /\ HistoryMode = "auto" /\ ~e.refused
    THEN Another([take EXCEPT !.mode = "compat"])
    ELSE IF take.images /\ e.content
    THEN Another([images |-> FALSE, mode |-> FirstMode(question)])
    ELSE GiveUp

\* Mutant: what was received before the failure stays.
FailedKeeping(e) == TryAgain(e) /\ UNCHANGED segments

\* What was received before the failure is dropped.
Failed(e) == TryAgain(e) /\ segments' = <<>>

\* A response that is no JSON fails the request at once.
RequestFails ==
    /\ stage = "asking"
    /\ \/ \E e \in Failures : Failed(e)
       \/ GiveUp /\ UNCHANGED segments
    /\ UNCHANGED <<question, searching>>

\* Is the answer to be continued?
GoesOn(content, ends) ==
    ends = "length" /\ content = "words" /\ Len(segments) + 1 < MaxSegments

\* One response.  Nothing at all in it is a failure; blanks, or a call of a
\* tool that nobody offered, end the answer with what there is.
Receive ==
    /\ stage = "asking"
    /\ \E content \in {"words", "image", "blank", "nothing"}, ends \in {"stop", "length"} :
        IF content = "nothing" THEN Failed(Plain)
        ELSE /\ segments' = Append(segments, take)
             /\ IF GoesOn(content, ends) THEN UNCHANGED <<stage, outcome>>
                ELSE stage' = "done" /\ outcome' = "answered"
             /\ UNCHANGED <<take, takes>>
    /\ UNCHANGED <<question, searching>>

-----------------------------------------------------------------------------
Next ==
    \/ Scope \/ Rewrite \/ SearchPlain \/ SearchFails
    \/ SearchMore("rewritten", 2, "hyde") \/ Hypothesis
    \/ SearchMore("hypothesis", 3, "check") \/ Sufficiency
    \/ SearchMore("refined", 4, "cut") \/ Cut
    \/ Receive \/ RequestFails

Spec == Init /\ [][Next]_vars

-----------------------------------------------------------------------------
TypeOK ==
    /\ stage \in {"scope", "rewrite", "plain", "rewritten", "hyde", "hypothesis",
                  "check", "refined", "cut", "asking", "done"}
    /\ outcome \in {"none", "mock", "answered", "failed"}
    /\ DOMAIN hits \subseteq Chunk
    /\ take \in Takes /\ \A i \in DOMAIN takes : takes[i] \in Takes
    /\ Len(segments) <= MaxSegments

(* An answer is made of the parts of one way of asking: what an attempt    *)
(* received before it failed is not glued to what the next one received.   *)
OneTake ==
    outcome = "answered" => \A i \in DOMAIN segments : segments[i] = take

(* Trying again ends: no way of asking is tried twice, and after images    *)
(* were dropped they do not come back.                                     *)
EachTakeOnce ==
    \A i, j \in DOMAIN takes :
        i < j => takes[i] # takes[j] /\ (takes[j].images => takes[i].images)

(* Help never hurts: a chunk the plain search found is left out of the     *)
(* context only for TopK chunks that are as similar; without help it is    *)
(* the plain search.                                                       *)
HelpKeepsBest ==
    [][stage = "cut" /\ stage' # "cut" =>
        \A c \in DOMAIN plain \ DOMAIN hits' :
            /\ Cardinality(DOMAIN hits') = TopK
            /\ \A d \in DOMAIN hits' : hits'[d].score >= plain[c].score]_vars
=============================================================================
