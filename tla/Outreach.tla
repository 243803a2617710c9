------------------------------ MODULE Outreach ------------------------------
(***************************************************************************)
(* Proactive outreach.  A tick asks every enabled source for its events,   *)
(* skips those its log has seen, logs the others and pushes the urgent or  *)
(* relevant ones: it posts a webhook and stores a delivery.  Ticks are run *)
(* by the scheduler's threads and by callers of the route; a failed        *)
(* delivery is retried on request.  Every commit and every post is a step  *)
(* of its own, and nothing in the database keeps two ticks apart.          *)
(*                                                                         *)
(* Events are never acknowledged: a source returns all it has at every     *)
(* pull.  The energy model is built anew for each tick, so nothing has     *)
(* been pushed yet when it scores: its fatigue is always zero.             *)
(***************************************************************************)
EXTENDS Integers, Sequences, FiniteSets

CONSTANTS
    Source, Feed,       \* Feed[s]: the events source s comes to have, in order
    LogName,            \* LogName[s]: the name under which s is logged
    Channel,            \* Channel[s]: "alert" or another channel
    Given,              \* Given[e]: the id e carries, "" for an empty one, Absent for none
    Absent,
    Severity, Alarming, \* severity of an event; does its text hold an alarm word?
    Loop, Caller,       \* scheduler threads and callers of the tick route
    Retrier,            \* callers of the retry route
    MaxRetries,         \* proactive_max_retries
    MaxBegun,           \* bound: ticks and retries begun
    MaxUncounted,       \* bound: retries of a delivery that die after they posted
    Mortal              \* tickers and retriers whose process may die

VARIABLES
    hooked,     \* is a webhook configured?
    running,    \* the scheduler's flag
    looping,    \* threads of the scheduler that are alive
    sources,    \* the rows of sources, oldest first
    shown,      \* shown[s]: how much of its feed s has
    tick,       \* tick[t]: where a ticker is
    begun,      \* ticks and retries begun
    seen,       \* the event log: name and id
    deliveries, \* rows of deliveries; key, posted, uncounted and by are history
    retry,      \* retry[q]: the delivery a retrier holds
    orphaned    \* history: keys of logged events whose ticker died before it delivered

vars == <<hooked, running, looping, sources, shown, tick, begun, seen, deliveries, retry,
          orphaned>>

Ticker == Loop \cup Caller
Event  == UNION {{Feed[s][i] : i \in DOMAIN Feed[s]} : s \in Source}
None   == "none"

Idle == [at |-> "idle", sources |-> <<>>, events |-> <<>>, ok |-> FALSE]
Rest == [at |-> "idle", row |-> 0, count |-> 0, ok |-> FALSE]

Init ==
    /\ hooked \in BOOLEAN
    /\ running = FALSE /\ looping = {}
    /\ sources = <<>>
    /\ shown = [s \in Source |-> 0]
    /\ tick = [t \in Ticker |-> Idle]
    /\ begun = 0
    /\ seen = {} /\ deliveries = <<>> /\ orphaned = {}
    /\ retry = [q \in Retrier |-> Rest]

-----------------------------------------------------------------------------
(* Which events are pushed. *)

Urgency(e) ==
    CASE Severity[e] \in {"critical", "p1", "high"}     -> 1000
      [] Severity[e] \in {"warning", "p2", "medium"}    -> 700
      [] Severity[e] \in {"info", "p3", "low"}          -> 300
      [] OTHER                                          -> 500

Relevance(e, s) ==
    CASE Channel[s] = "alert" -> 900
      [] Alarming[e]          -> 800
      [] OTHER                -> 400

\* Weights 0.4 and 0.35 against a threshold of 0.5; the severest always pass.
Pushes(e, s) ==
    \/ Urgency(e) = 1000
    \/ 40 * Urgency(e) + 35 * Relevance(e, s) >= 50000

\* The id an event is looked up by: a hash of its content when it has none.
Sought(e) == IF Given[e] \in {"", Absent} THEN e ELSE Given[e]

\* The id it is logged by: an empty id is an id here.
Logged(e) == IF Given[e] = Absent THEN e ELSE Given[e]

\* What the log keeps of event e of source s.
Key(e, s) == <<LogName[s], Logged(e)>>

-----------------------------------------------------------------------------
(* The scheduler. *)

Start(t) ==
    /\ t \in Loop \ looping
    /\ ~running
    /\ running' = TRUE
    /\ looping' = looping \cup {t}
    /\ UNCHANGED <<hooked, sources, shown, tick, begun, seen, deliveries, retry, orphaned>>

\* Stopping waits five seconds at most; the thread may still be in a tick.
Stop ==
    /\ running
    /\ running' = FALSE
    /\ UNCHANGED <<hooked, looping, sources, shown, tick, begun, seen, deliveries, retry,
                   orphaned>>

LoopEnds(t) ==
    /\ t \in looping
    /\ ~running
    /\ tick[t].at = "idle"
    /\ looping' = looping \ {t}
    /\ UNCHANGED <<hooked, running, sources, shown, tick, begun, seen, deliveries, retry,
                   orphaned>>

-----------------------------------------------------------------------------
(* Sources. *)

CreateSource(s) ==
    /\ \A i \in DOMAIN sources : sources[i] # s
    /\ sources' = Append(sources, s)
    /\ UNCHANGED <<hooked, running, looping, shown, tick, begun, seen, deliveries, retry,
                   orphaned>>

Happens(s) ==
    /\ shown[s] < Len(Feed[s])
    /\ shown' = [shown EXCEPT ![s] = @ + 1]
    /\ UNCHANGED <<hooked, running, looping, sources, tick, begun, seen, deliveries, retry,
                   orphaned>>

-----------------------------------------------------------------------------
(* A tick. *)

\* The rest of a tick after one event: the next event, or the next source.
Onward(k) == [k EXCEPT !.events = Tail(@),
                       !.at = IF Len(k.events) > 1 THEN "checking" ELSE "pulling"]

Goes(t, k) == tick' = [tick EXCEPT ![t] = k]

Begin(t) ==
    /\ tick[t].at = "idle"
    /\ t \in Loop => running /\ t \in looping
    /\ sources # <<>>
    /\ begun < MaxBegun
    /\ begun' = begun + 1
    /\ Goes(t, [Idle EXCEPT !.at = "pulling", !.sources = sources])
    /\ UNCHANGED <<hooked, running, looping, sources, shown, seen, deliveries, retry, orphaned>>

\* All events of the next source; a failing tool yields none.  A server that
\* cannot be connected, and an answer of another shape, raise and end the tick.
Pull(t) ==
    /\ tick[t].at = "pulling"
    /\ \/ /\ tick[t].sources # <<>>
          /\ LET s == Head(tick[t].sources) IN
             \E events \in {<<>>, SubSeq(Feed[s], 1, shown[s])} :
                Goes(t, [tick[t] EXCEPT !.events = events,
                            !.sources = IF events = <<>> THEN Tail(@) ELSE @,
                            !.at = IF events = <<>> THEN "pulling" ELSE "checking"])
       \/ Goes(t, Idle)
    /\ UNCHANGED <<hooked, running, looping, sources, shown, begun, seen, deliveries, retry,
                   orphaned>>

Of(t)   == Head(tick[t].events)
From(t) == Head(tick[t].sources)

\* The last event of a source takes the source with it.
Past(k) == IF Len(k.events) > 1 THEN Onward(k) ELSE [Onward(k) EXCEPT !.sources = Tail(@)]

\* Mutant: duplicates are sought by the id alone, even when it is logged otherwise.
CheckByContent(t) ==
    /\ tick[t].at = "checking"
    /\ Goes(t, IF <<LogName[From(t)], <<Of(t)>> >> \in seen
               THEN Past(tick[t]) ELSE [tick[t] EXCEPT !.at = "logging"])
    /\ UNCHANGED <<hooked, running, looping, sources, shown, begun, seen, deliveries, retry,
                   orphaned>>

Check(t) ==
    /\ tick[t].at = "checking"
    /\ Goes(t, IF <<LogName[From(t)], Sought(Of(t))>> \in seen
               THEN Past(tick[t]) ELSE [tick[t] EXCEPT !.at = "logging"])
    /\ UNCHANGED <<hooked, running, looping, sources, shown, begun, seen, deliveries, retry,
                   orphaned>>

\* The event is logged, in a transaction of its own, and scored.
Log(t) ==
    /\ tick[t].at = "logging"
    /\ seen' = seen \cup {Key(Of(t), From(t))}
    /\ Goes(t, IF Pushes(Of(t), From(t)) THEN [tick[t] EXCEPT !.at = "posting"]
               ELSE Past(tick[t]))
    /\ UNCHANGED <<hooked, running, looping, sources, shown, begun, deliveries, retry, orphaned>>

\* Mutant: an exception of the webhook leaves send().
PostRaises(t) ==
    /\ tick[t].at = "posting"
    /\ \/ Goes(t, [tick[t] EXCEPT !.at = "storing", !.ok = TRUE])
       \/ /\ hooked
          /\ Goes(t, Idle)
    /\ UNCHANGED <<hooked, running, looping, sources, shown, begun, seen, deliveries, retry,
                   orphaned>>

\* The webhook is posted, if there is one; whatever goes wrong is noted.
Post(t) ==
    /\ tick[t].at = "posting"
    /\ \E ok \in IF hooked THEN BOOLEAN ELSE {TRUE} :
          Goes(t, [tick[t] EXCEPT !.at = "storing", !.ok = ok])
    /\ UNCHANGED <<hooked, running, looping, sources, shown, begun, seen, deliveries, retry,
                   orphaned>>

\* The delivery is stored as sent, or as failed once.
Store(t) ==
    /\ tick[t].at = "storing"
    /\ deliveries' = Append(deliveries,
            [key |-> Key(Of(t), From(t)), by |-> t, posted |-> 1, uncounted |-> 0,
             status |-> IF tick[t].ok THEN "sent" ELSE "failed",
             retries |-> IF tick[t].ok THEN 0 ELSE 1])
    /\ Goes(t, [Past(tick[t]) EXCEPT !.ok = FALSE])
    /\ UNCHANGED <<hooked, running, looping, sources, shown, begun, seen, retry, orphaned>>

Die(t) ==
    /\ t \in Mortal
    /\ tick[t].at # "idle"
    /\ orphaned' = IF tick[t].at \in {"posting", "storing"}
                   THEN orphaned \cup {Key(Of(t), From(t))} ELSE orphaned
    /\ Goes(t, Idle)
    /\ looping' = looping \ {t}
    /\ running' = IF t \in looping THEN FALSE ELSE running
    /\ UNCHANGED <<hooked, sources, shown, begun, seen, deliveries, retry>>

-----------------------------------------------------------------------------
(* Retries. *)

LoadFailed(q, i) ==
    /\ retry[q].at = "idle"
    /\ deliveries[i].status = "failed"
    /\ deliveries[i].retries < MaxRetries
    /\ begun < MaxBegun
    /\ begun' = begun + 1
    /\ retry' = [retry EXCEPT ![q] = [at |-> "posting", row |-> i,
                                      count |-> deliveries[i].retries, ok |-> FALSE]]
    /\ UNCHANGED <<hooked, running, looping, sources, shown, tick, seen, deliveries, orphaned>>

PostAgain(q) ==
    /\ retry[q].at = "posting"
    /\ \E ok \in BOOLEAN : retry' = [retry EXCEPT ![q].at = "storing", ![q].ok = ok]
    /\ deliveries' = [deliveries EXCEPT ![retry[q].row].posted = @ + 1]
    /\ UNCHANGED <<hooked, running, looping, sources, shown, tick, begun, seen, orphaned>>

\* Mutant: a retry that fails again stores its verdict, not the attempt.
StoreVerdict(q) ==
    /\ retry[q].at = "storing"
    /\ deliveries' = [deliveries EXCEPT
            ![retry[q].row].status = IF retry[q].ok THEN "sent" ELSE "failed"]
    /\ retry' = [retry EXCEPT ![q] = Rest]
    /\ UNCHANGED <<hooked, running, looping, sources, shown, tick, begun, seen, orphaned>>

\* Only the column that changed is written: the verdict, or the count as this
\* request had read it, plus one.
StoreRetry(q) ==
    /\ retry[q].at = "storing"
    /\ deliveries' = IF retry[q].ok
            THEN [deliveries EXCEPT ![retry[q].row].status = "sent"]
            ELSE [deliveries EXCEPT ![retry[q].row].retries = retry[q].count + 1]
    /\ retry' = [retry EXCEPT ![q] = Rest]
    /\ UNCHANGED <<hooked, running, looping, sources, shown, tick, begun, seen, orphaned>>

RetryDies(q) ==
    /\ q \in Mortal
    /\ retry[q].at # "idle"
    /\ retry[q].at = "storing" => deliveries[retry[q].row].uncounted < MaxUncounted
    /\ deliveries' = IF retry[q].at = "posting" THEN deliveries
                     ELSE [deliveries EXCEPT ![retry[q].row].uncounted = @ + 1]
    /\ retry' = [retry EXCEPT ![q] = Rest]
    /\ UNCHANGED <<hooked, running, looping, sources, shown, tick, begun, seen, orphaned>>

-----------------------------------------------------------------------------
Next ==
    \/ Stop
    \/ \E t \in Loop : Start(t) \/ LoopEnds(t)
    \/ \E s \in Source : CreateSource(s) \/ Happens(s)
    \/ \E t \in Ticker :
        Begin(t) \/ Pull(t) \/ Check(t) \/ Log(t) \/ Post(t) \/ Store(t) \/ Die(t)
    \/ \E q \in Retrier :
        \/ \E i \in DOMAIN deliveries : LoadFailed(q, i)
        \/ PostAgain(q) \/ StoreRetry(q) \/ RetryDies(q)

Spec == Init /\ [][Next]_vars

-----------------------------------------------------------------------------
(* However often ticks run and overlap, and although sources never forget  *)
(* an event, one ticker pushes what goes by one id in one log once - unless *)
(* the id is empty, for it is then logged under another id than it is      *)
(* looked up by.                                                           *)
PushedOnce ==
    \A i, j \in DOMAIN deliveries :
        /\ deliveries[i].key = deliveries[j].key
        /\ deliveries[i].by = deliveries[j].by
        /\ deliveries[i].key[2] # ""
        => i = j

\* Whatever is logged under a key is worth a push.
WorthPushing(key) ==
    \A s \in Source : \A i \in DOMAIN Feed[s] :
        Key(Feed[s][i], s) = key => Pushes(Feed[s][i], s)

(* An event that is logged will never be looked at again.  If it was worth *)
(* a push, its delivery is stored, its tick is about to store it, or the   *)
(* process of its tick died between the two transactions: a webhook that   *)
(* refuses, or another tick at the same time, loses nothing.               *)
LoggedIsPushed ==
    \A key \in seen : WorthPushing(key) =>
        \/ \E d \in DOMAIN deliveries : deliveries[d].key = key
        \/ \E t \in Ticker : /\ tick[t].at \in {"posting", "storing"}
                             /\ Key(Of(t), From(t)) = key
        \/ key \in orphaned

(* What failed has been tried once, however few retries there are to be.   *)
Tries == IF MaxRetries = 0 THEN 1 ELSE MaxRetries

(* A delivery is posted at most MaxRetries times by retries that follow    *)
(* each other.  Two that overlap can write back an older count, but never  *)
(* one that was not read before: the posts still end, at the sum of the    *)
(* counts.  A retry that dies after its post is not counted.               *)
RetriesEnd ==
    Cardinality(Retrier) <= 2 =>
        \A i \in DOMAIN deliveries :
            deliveries[i].posted <= deliveries[i].uncounted +
                IF Cardinality(Retrier) = 2 THEN (Tries * (Tries + 1)) \div 2 ELSE Tries

=============================================================================
