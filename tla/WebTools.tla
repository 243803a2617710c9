------------------------------ MODULE WebTools ------------------------------
(***************************************************************************)
(* The web tools: the latest videos of a Bilibili channel, from a cache    *)
(* that all calls share, from five sources tried in turn, or - as mere     *)
(* candidates - from a search; and web_fetch and web_search, which go      *)
(* through retry_request, the loop around every request of theirs.         *)
(*                                                                         *)
(* What a source shows of the channel is the time it was asked.  Parsing   *)
(* and formatting are left out: a source has videos or it has not.         *)
(***************************************************************************)
EXTENDS Naturals, Sequences

CONSTANTS
    Caller,         \* tool calls under way, each in a thread of its own
    Limit,          \* numbers of videos asked for
    Ttl,            \* _BILIBILI_CACHE_TTL_SECONDS
    Attempts,       \* max_attempts
    Budget,         \* total_timeout_s
    MaxTime         \* bound: time

VARIABLES
    now,        \* the clock
    cache,      \* _BILIBILI_VIDEO_CACHE of the channel: cache[n] is 0 or the time of the entry
    at,         \* at[c]: where the call is
    wants,      \* wants[c]: the number of videos, 0 for a fetch or a search
    heard,      \* heard[c]: what its requests brought so far
    deadline,   \* deadline[c]: end of its budget
    told,       \* told[c]: its answer
    newest,     \* history: the videos told last
    overlapped  \* history: two calls for videos were under way at once

vars == <<now, cache, at, wants, heard, deadline, told, newest, overlapped>>

NoAnswer == [how |-> "none", age |-> 0, late |-> FALSE]

Init ==
    /\ now = 1
    /\ cache = [n \in Limit |-> 0]
    /\ at = [c \in Caller |-> "idle"]
    /\ wants = [c \in Caller |-> 0]
    /\ heard = [c \in Caller |-> <<>>]
    /\ deadline = [c \in Caller |-> 0]
    /\ told = [c \in Caller |-> NoAnswer]
    /\ newest = 0 /\ overlapped = FALSE

Go(c, place) == at' = [at EXCEPT ![c] = place]

Tell(c, how, seen) ==
    /\ told' = [told EXCEPT ![c] = [how  |-> how,
                                    age  |-> IF seen = 0 THEN 0 ELSE now - seen,
                                    late |-> at[c] = "requesting" /\ now >= deadline[c]]]
    /\ newest' = IF seen = 0 THEN newest ELSE seen
    /\ wants' = [wants EXCEPT ![c] = 0]
    /\ deadline' = [deadline EXCEPT ![c] = 0]
    /\ Go(c, "idle")

\* Into retry_request.
Try(c) ==
    /\ heard' = [heard EXCEPT ![c] = <<>>]
    /\ deadline' = [deadline EXCEPT ![c] = now + Budget]
    /\ Go(c, "requesting")

-----------------------------------------------------------------------------
(* The calls.                                                              *)

\* web_fetch, and web_search where it asks a provider.
Search(c) ==
    /\ at[c] = "idle"
    /\ wants' = [wants EXCEPT ![c] = 0]
    /\ told' = [told EXCEPT ![c] = NoAnswer]
    /\ Try(c)
    /\ UNCHANGED <<now, cache, newest, overlapped>>

\* bilibili_latest_videos, and web_search for a query that looks like it.
LatestVideos(c) ==
    /\ at[c] = "idle"
    /\ heard' = [heard EXCEPT ![c] = <<>>]
    /\ \E n \in Limit : wants' = [wants EXCEPT ![c] = n]
    /\ told' = [told EXCEPT ![c] = NoAnswer]
    /\ overlapped' = (overlapped \/ \E d \in Caller \ {c} : at[d] # "idle" /\ wants[d] # 0)
    /\ Go(c, "resolving")
    /\ UNCHANGED <<now, cache, deadline, newest>>

\* The channel is found by its name, or only a search is left.
Resolve(c) ==
    /\ at[c] = "resolving"
    /\ \/ Go(c, "looking") /\ UNCHANGED <<heard, deadline>>
       \/ Try(c)
    /\ UNCHANGED <<now, cache, wants, told, newest, overlapped>>

Fits(c) == {n \in Limit : n >= wants[c] /\ cache[n] # 0}
Largest(c) == CHOOSE n \in Fits(c) : \A m \in Fits(c) : m <= n
Smallest(c) == CHOOSE n \in Fits(c) : \A m \in Fits(c) : n <= m
Expired(n) == now - cache[n] > Ttl

\* No entry will do.
Continue(c) == Go(c, "fetching") /\ UNCHANGED <<wants, deadline, told, newest>>

\* Mutant: the smallest entry that will do.
LookSmallest(c) ==
    /\ at[c] = "looking"
    /\ IF Fits(c) # {} /\ ~Expired(Smallest(c))
       THEN Tell(c, "cached", cache[Smallest(c)]) /\ UNCHANGED cache
       ELSE /\ cache' = [n \in Limit |-> IF Fits(c) # {} /\ n = Smallest(c) THEN 0 ELSE cache[n]]
            /\ Continue(c)
    /\ UNCHANGED <<now, heard, overlapped>>

\* Mutant: when the largest entry has expired the next one is taken.
LookFurther(c) ==
    /\ at[c] = "looking"
    /\ \/ /\ Fits(c) # {} /\ ~Expired(Largest(c))
          /\ Tell(c, "cached", cache[Largest(c)])
          /\ UNCHANGED cache
       \/ /\ Fits(c) # {} /\ Expired(Largest(c))
          /\ cache' = [cache EXCEPT ![Largest(c)] = 0]
          /\ IF \E n \in Fits(c) : n # Largest(c)
             THEN Tell(c, "cached", cache[CHOOSE n \in Fits(c) : n # Largest(c)])
             ELSE Continue(c)
       \/ Fits(c) = {} /\ Continue(c) /\ UNCHANGED cache
    /\ UNCHANGED <<now, heard, overlapped>>

\* The largest entry that will do is served, or removed when it is too old.
Look(c) ==
    /\ at[c] = "looking"
    /\ \/ /\ Fits(c) # {} /\ ~Expired(Largest(c))
          /\ Tell(c, "cached", cache[Largest(c)])
          /\ UNCHANGED cache
       \/ /\ Fits(c) # {} /\ Expired(Largest(c))
          /\ cache' = [cache EXCEPT ![Largest(c)] = 0]
          /\ Continue(c)
       \/ Fits(c) = {} /\ Continue(c) /\ UNCHANGED cache
    /\ UNCHANGED <<now, heard, overlapped>>

\* The cache changes its size under the loop over it, which then raises: the call of
\* another thread removes an entry or adds one.
Resizes(d) ==
    \/ at[d] = "looking" /\ Fits(d) # {} /\ Expired(Largest(d))
    \/ at[d] = "fetching" /\ cache[wants[d]] = 0

LookBreaks(c) ==
    /\ at[c] = "looking"
    /\ \E d \in Caller \ {c} : Resizes(d)
    /\ Tell(c, "raised", 0)
    /\ UNCHANGED <<now, cache, heard, overlapped>>

\* The five sources, in the order they are tried, and what a parser makes of what
\* one of them sends: videos, or none that it can read.
Apis    == <<"wbi", "plain", "dynamic">>
Mirrors == <<"app", "rsshub">>
Sources == Apis \o Mirrors
Parsed  == {"videos", "nothing"}

\* One of the sources has videos, which are kept for later calls.
FetchFinds(c) ==
    /\ cache' = [cache EXCEPT ![wants[c]] = now]
    /\ Tell(c, "videos", now)
    /\ UNCHANGED <<now, heard, overlapped>>

\* None has any; only a search is left.
FetchFindsNone(c) ==
    /\ Try(c)
    /\ UNCHANGED <<now, cache, wants, told, newest, overlapped>>

Fetch(c) ==
    /\ at[c] = "fetching"
    /\ \E sent \in [DOMAIN Sources -> Parsed] :
        IF \E i \in DOMAIN Sources : sent[i] = "videos" THEN FetchFinds(c) ELSE FetchFindsNone(c)

-----------------------------------------------------------------------------
(* retry_request.                                                          *)

\* What a search brings are candidates, not the latest videos; without them the
\* answer is empty.
Outcome(c, ok) ==
    CASE wants[c] # 0       -> "candidates"
      [] wants[c] = 0 /\ ok -> "response"
      [] OTHER              -> "error"

\* What is worth another attempt: a status that may pass ("busy"), a time-out or
\* a broken connection ("broken").
Transient == {"busy", "broken"}

\* Mutant: one attempt more.
RequestOnceMore(c) ==
    /\ at[c] = "requesting" /\ now < deadline[c]
    /\ \E outcome \in {"answer", "busy", "broken", "fatal"} :
        /\ heard' = [heard EXCEPT ![c] = Append(@, outcome)]
        /\ IF outcome \in Transient /\ Len(heard[c]) < Attempts
           THEN UNCHANGED <<at, wants, deadline, told, newest>>
           ELSE Tell(c, Outcome(c, outcome \in {"answer", "busy"}), 0)
    /\ UNCHANGED <<now, cache, overlapped>>

\* The last attempt stands.  Other errors are raised at once.
Request(c) ==
    /\ at[c] = "requesting" /\ now < deadline[c]
    /\ \E outcome \in {"answer", "busy", "broken", "fatal"} :
        /\ heard' = [heard EXCEPT ![c] = Append(@, outcome)]
        /\ IF outcome \in Transient /\ Len(heard[c]) + 1 < Attempts
           THEN UNCHANGED <<at, wants, deadline, told, newest>>
           ELSE Tell(c, Outcome(c, outcome \in {"answer", "busy"}), 0)
    /\ UNCHANGED <<now, cache, overlapped>>

BudgetExhausted(c) ==
    /\ at[c] = "requesting" /\ now >= deadline[c]
    /\ Tell(c, Outcome(c, FALSE), 0)
    /\ UNCHANGED <<now, cache, heard, overlapped>>

Tick ==
    /\ now < MaxTime
    /\ now' = now + 1
    /\ UNCHANGED <<cache, at, wants, heard, deadline, told, newest, overlapped>>

-----------------------------------------------------------------------------
Next ==
    \/ \E c \in Caller :
        \/ Search(c) \/ LatestVideos(c) \/ Resolve(c) \/ Look(c) \/ LookBreaks(c)
        \/ Fetch(c) \/ Request(c) \/ BudgetExhausted(c)
    \/ Tick

Spec == Init /\ [][Next]_vars

-----------------------------------------------------------------------------
(* Videos from the cache were fetched at most Ttl ago, also when entries   *)
(* for several numbers of videos age side by side.                         *)
ServedFresh == \A c \in Caller : told[c].how = "cached" => told[c].age <= Ttl

(* As long as calls for videos do not overlap, no call is told less recent *)
(* videos than a call before it, whatever numbers they ask for.            *)
NeverOlder == [][~overlapped' => newest' >= newest]_vars

(* Requests are repeated only after a failure that may pass, and Attempts  *)
(* times at most; a caller is told of a response exactly when the last     *)
(* request had one, and of an error when the budget ended between two.     *)
OnlyTransientRetried ==
    \A c \in Caller :
        LET n == Len(heard[c]) IN
        /\ n <= Attempts
        /\ \A i \in 1..(n - 1) : heard[c][i] \in Transient
        /\ told[c].how = "response" => heard[c][n] = "answer" \/ (heard[c][n] = "busy" /\ n = Attempts)
        /\ told[c].how = "error" => \/ told[c].late
                                    \/ heard[c][n] = "fatal"
                                    \/ heard[c][n] = "broken" /\ n = Attempts
=============================================================================
