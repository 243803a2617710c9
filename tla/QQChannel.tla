----------------------------- MODULE QQChannel -----------------------------
(***************************************************************************)
(* A channel of the QQ adapter and the outbound half of the message bus:   *)
(* the loop that connects, the heartbeat, and the one dispatcher that      *)
(* hands replies to the channel, tries twice and goes on.  The official    *)
(* channel posts a reply by HTTP; NapCat sends it over the socket and      *)
(* waits for the response that echoes its number.                          *)
(***************************************************************************)
EXTENDS Naturals, Sequences, FiniteSets

CONSTANTS
    MaxReplies,     \* bound: replies published
    MaxDials,       \* bound: connections opened
    MaxDelay        \* doublings until _RECONNECT_MAX_DELAY

VARIABLES
    kind,           \* "qqbot" or "napcat"
    reconnects,     \* reconnect_enabled
    up,             \* _running of the channel
    link,           \* where the connect loop is
    delay,          \* doublings of the delay since the last connection
    dials,          \* connections opened; the last one is _ws
    open,           \* is the last one still open?
    ws,             \* _ws is not None
    beats,          \* heartbeat tasks alive, by the connection that started them
    token,          \* "none", "good" or "stale"
    busUp, subscribed,
    outbox,         \* the outbound queue
    published,      \* replies published so far
    flight,         \* the reply the dispatcher is at
    calls,          \* calls made: the echo counter
    wire,           \* responses on their way: echo and reply
    received,       \* history: replies the platform received, in order
    answered        \* history: replies whose call returned with a response

vars == <<kind, reconnects, up, link, delay, dials, open, ws, beats, token, busUp, subscribed,
          outbox, published, flight, calls, wire, received, answered>>

loop == <<reconnects, up, link, delay, dials, open, ws, beats, token>>
bus  == <<busUp, subscribed, outbox, published, flight, calls, wire, received, answered>>

NoFlight == [reply |-> 0, attempt |-> 0, at |-> "none", echo |-> 0]
Entry    == IF kind = "qqbot" THEN "token" ELSE "dial"

Init ==
    /\ kind \in {"qqbot", "napcat"} /\ reconnects \in BOOLEAN
    /\ up = FALSE /\ link = "none" /\ delay = 0 /\ dials = 0 /\ open = FALSE /\ ws = FALSE
    /\ beats = {} /\ token = "none"
    /\ busUp = TRUE /\ subscribed = FALSE
    /\ outbox = <<>> /\ published = 0
    /\ flight = NoFlight /\ calls = 0 /\ wire = {}
    /\ received = <<>> /\ answered = {}

-----------------------------------------------------------------------------
(* The connect loop. *)

Start ==
    /\ link = "none"
    /\ up' = TRUE
    /\ subscribed' = TRUE
    /\ link' = Entry
    /\ UNCHANGED <<kind, reconnects, delay, dials, open, ws, beats, token, busUp, outbox,
                   published, flight, calls, wire, received, answered>>

\* A token that lasts is kept; the gateway is asked where to connect.
GetToken ==
    /\ link = "token"
    /\ \/ token' = "good" /\ link' = "dial"
       \/ token # "good" /\ link' = "failed" /\ UNCHANGED token
    /\ UNCHANGED <<kind, reconnects, up, delay, dials, open, ws, beats, bus>>

TokenExpires ==
    /\ token = "good"
    /\ token' = "stale"
    /\ UNCHANGED <<kind, reconnects, up, link, delay, dials, open, ws, beats, bus>>

Dial ==
    /\ link = "dial"
    /\ \/ /\ dials < MaxDials
          /\ dials' = dials + 1
          /\ open' = TRUE /\ ws' = TRUE
          /\ delay' = 0
          /\ link' = "open"
       \/ link' = "failed" /\ UNCHANGED <<dials, open, ws, delay>>
    /\ UNCHANGED <<kind, reconnects, up, beats, token, bus>>

\* Hello: the heartbeat of an earlier connection is cancelled, a new one is
\* started, and the bot identifies itself.
Hello ==
    /\ kind = "qqbot"
    /\ link = "open"
    /\ beats' = {dials}
    /\ link' = "ready"
    /\ UNCHANGED <<kind, reconnects, up, delay, dials, open, ws, token, bus>>

\* The socket closes; the heartbeat goes on failing until the next Hello.
Closes ==
    /\ link \in {"open", "ready"}
    /\ open' = FALSE
    /\ link' = "failed"
    /\ wire' = {}
    /\ UNCHANGED <<kind, reconnects, up, delay, dials, ws, beats, token, busUp, subscribed,
                   outbox, published, flight, calls, received, answered>>

\* Mutant: what is not a closed connection ends the loop.
ReconnectOnClose ==
    /\ link = "failed"
    /\ IF up /\ reconnects /\ ws
       THEN link' = Entry /\ delay' = IF delay < MaxDelay THEN delay + 1 ELSE delay
       ELSE link' = "over" /\ UNCHANGED delay
    /\ UNCHANGED <<kind, reconnects, up, dials, open, ws, beats, token, bus>>

\* Whatever went wrong, the loop waits and begins again; one that is not to reconnect
\* ends, and the channel stays as it is until it is stopped.
Reconnect ==
    /\ link = "failed"
    /\ IF up /\ reconnects
       THEN link' = Entry /\ delay' = IF delay < MaxDelay THEN delay + 1 ELSE delay
       ELSE link' = "over" /\ UNCHANGED delay
    /\ UNCHANGED <<kind, reconnects, up, dials, open, ws, beats, token, bus>>

\* The tasks are cancelled, the socket is closed and forgotten.
Stop ==
    /\ up
    /\ up' = FALSE
    /\ subscribed' = FALSE
    /\ link' = "over"
    /\ beats' = {}
    /\ open' = FALSE /\ ws' = FALSE
    /\ UNCHANGED <<kind, reconnects, delay, dials, token, busUp, outbox, published, flight,
                   calls, wire, received, answered>>

-----------------------------------------------------------------------------
(* The dispatcher of the bus. *)

Publish ==
    /\ published < MaxReplies
    /\ published' = published + 1
    /\ outbox' = Append(outbox, published + 1)
    /\ UNCHANGED <<kind, loop, busUp, subscribed, flight, calls, wire, received, answered>>

\* The oldest reply is handed to the channel, or dropped when there is none.
Dispatch ==
    /\ busUp
    /\ flight = NoFlight
    /\ outbox # <<>>
    /\ flight' = IF subscribed
                 THEN [reply |-> Head(outbox), attempt |-> 1, at |-> "calling", echo |-> 0]
                 ELSE NoFlight
    /\ outbox' = Tail(outbox)
    /\ UNCHANGED <<kind, loop, busUp, subscribed, published, calls, wire, received, answered>>

\* Mutant: a reply that failed is tried again after the others.
RaisedToTheEnd ==
    /\ flight' = NoFlight
    /\ outbox' = IF flight.attempt = 1 THEN Append(outbox, flight.reply) ELSE outbox

\* The call raised: it is tried once more, then the reply is lost.
Raised ==
    /\ flight' = IF flight.attempt = 1
                 THEN [flight EXCEPT !.attempt = 2, !.at = "calling", !.echo = 0] ELSE NoFlight
    /\ UNCHANGED outbox

Returned == flight' = NoFlight /\ UNCHANGED outbox

\* The official channel: the post arrives or not, and its response arrives or
\* not.  A stale token is renewed first.
Post ==
    /\ kind = "qqbot"
    /\ flight.at = "calling"
    /\ \/ /\ up
          /\ received' = Append(received, flight.reply)
          /\ \/ Returned /\ answered' = answered \cup {flight.reply}
             \/ Raised /\ UNCHANGED answered
          /\ token' = "good"
       \/ Raised /\ UNCHANGED <<received, answered, token>>
    /\ UNCHANGED <<kind, reconnects, up, link, delay, dials, open, ws, beats, busUp, subscribed,
                   published, calls, wire>>

\* NapCat: the request goes out over an open socket; a closed one raises.
Send ==
    /\ kind = "napcat"
    /\ flight.at = "calling"
    /\ \/ /\ ws /\ open
          /\ calls' = calls + 1
          /\ flight' = [flight EXCEPT !.at = "echo", !.echo = calls + 1]
          /\ \/ /\ received' = Append(received, flight.reply)
                /\ wire' = wire \cup {[echo |-> calls + 1, reply |-> flight.reply]}
             \/ UNCHANGED <<received, wire>>
          /\ UNCHANGED outbox
       \/ /\ ~(ws /\ open)
          /\ calls' = IF ws THEN calls + 1 ELSE calls
          /\ Raised
          /\ UNCHANGED <<received, wire>>
    /\ UNCHANGED <<kind, loop, busUp, subscribed, published, answered>>

\* A response, if its echo is the one that is waited for, ends the call: also
\* one that says the message could not be sent.
Echo(x) ==
    /\ x \in wire
    /\ link = "open"
    /\ wire' = wire \ {x}
    /\ IF flight.at = "echo" /\ flight.echo = x.echo
       THEN Returned /\ answered' = answered \cup {flight.reply}
       ELSE UNCHANGED <<flight, outbox, answered>>
    /\ UNCHANGED <<kind, loop, busUp, subscribed, published, calls, received>>

\* Thirty seconds without a response count as sent.
EchoTimeout ==
    /\ flight.at = "echo"
    /\ Returned
    /\ UNCHANGED <<kind, loop, busUp, subscribed, published, calls, wire, received, answered>>

\* The bus stops last; its dispatcher is cancelled where it is.
BusStop ==
    /\ link = "over" /\ ~up
    /\ busUp
    /\ busUp' = FALSE
    /\ flight' = NoFlight
    /\ UNCHANGED <<kind, loop, subscribed, outbox, published, calls, wire, received, answered>>

-----------------------------------------------------------------------------
Next ==
    \/ Start \/ GetToken \/ TokenExpires \/ Dial \/ Hello \/ Closes \/ Reconnect \/ Stop
    \/ Publish \/ Dispatch \/ Post \/ Send \/ EchoTimeout \/ BusStop
    \/ \E x \in wire : Echo(x)

Spec == Init /\ [][Next]_vars

-----------------------------------------------------------------------------
(* The platform receives replies in the order they were published, each at *)
(* most twice, whatever fails; and a reply that counts as answered was     *)
(* received, also when the response to an earlier call comes late.         *)
RepliesInOrder ==
    /\ \A i, j \in DOMAIN received : i < j => received[i] <= received[j]
    /\ \A n \in 1..published : Cardinality({i \in DOMAIN received : received[i] = n}) <= 2
    /\ \A n \in answered : \E i \in DOMAIN received : received[i] = n

(* A channel that is to reconnect goes on connecting whatever broke, until *)
(* it is stopped, and however often it does, one heartbeat beats at most.  *)
KeepsConnecting ==
    /\ up /\ reconnects => link # "over"
    /\ Cardinality(beats) <= 1

=============================================================================
