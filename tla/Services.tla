------------------------------ MODULE Services ------------------------------
(***************************************************************************)
(* What stands around the agent: the embedding service (Embeddings), the   *)
(* QQ adapter (QQBridge, QQChannel), accounts (AuthSessions), spaces and   *)
(* conversations (Workspace), answers (ChatAnswer), proactive pushes       *)
(* (Outreach), and what a run executes: web tools (WebTools), background   *)
(* jobs (ShellJobs), a coding agent (CliProcess) and its plan              *)
(* (PlanProjection).  They do not share state, so a behaviour is about one *)
(* of them: the variables of the others rest.  A constant or a variable    *)
(* that two components name alike has a name of its own here.              *)
(***************************************************************************)
EXTENDS Embeddings

\* Of QQBridge, QQChannel, AuthSessions, Outreach, Workspace, ChatAnswer, WebTools,
\* ShellJobs, CliProcess and PlanProjection, as they describe them.
CONSTANTS
    MaxMessages, ChatOf, UserOf, MaySay, Welcome, Unlucky, Parts, Limit, CacheLimit,
    MaxReplies, MaxDials, MaxDelay,
    Tab, Mortal, MaxIssued,
    Sensor, Brings, LogName, Channel, Given, Absent, Severity, Alarming, Loop, TickCaller,
    Retrier, MaxRetries, MaxBegun, MaxUncounted, MayDie,
    Inquiry, HistoryTurns, MaxSpaces, MaxConversations, MaxRows, MaxFavorites, MaxCards,
    MaxEdits,
    Chunk, TopK, Scores, HistoryMode, MaxSegments,
    WebCall, Numbers, Ttl, Attempts, Budget, MaxTime,
    Asker,
    Backends, MaxLines, Large,
    MaxShown, Remembered, MaxCalls

\* web_tools and net.http: times in seconds, the loop tries once at least, and a
\* number of videos is between 1 and 20.
ASSUME WebAssumption ==
    Ttl \in Nat /\ Budget \in Nat /\ Attempts \in Nat \ {0} /\ Numbers \subseteq 1..20

\* The runners there are.
ASSUME CliAssumption == Backends \subseteq {"claude", "codex", "pi"}

\* Messages are numbered, the platform takes a number of replies, and an answer has pieces.
ASSUME BridgeAssumption == MaxMessages \in Nat /\ Limit \in Nat /\ Parts \in Nat

\* Plans, calls that are remembered and calls are counted.
ASSUME PlanAssumption == MaxShown \in Nat /\ Remembered \in Nat /\ MaxCalls \in Nat

\* There are finitely many requests.
ASSUME TabAssumption == IsFiniteSet(Tab)

VARIABLES
    part,       \* the component this behaviour is about
    kind, inbox, task, held, again, pending, conversation, convLock, notice, counts,
    counted, forgotten, sent, answered, run, prompted, consent,
    channel, reconnects, up, link, delay, dials, open, ws, beats, token, busUp, subscribed,
    outbox, published, flight, calls, wire, received, acknowledged,
    owner, sessions, request, overtaken, late, cutOff, halfChanged,
    hooked, running, looping, sources, shown, tick, begun, seen, deliveries, retry, orphaned,
    spaces, conversations, rows, favorites, cards, asking,
    stage, question, hits, plain, rewritten, take, takes, segments, outcome,
    now, cache, at, wants, heard, deadline, told, latest, overlapped,
    process, outputHeld, entry, capture, place, polled, reported,
    backend, leader, child, hasRead, pipe, written, reader, watchdog, timedOut, killing,
    stumbled, sawResult, abandoned, verdict,
    planCalls, results, order, registry, source, planShown, closed

Bridge   == INSTANCE QQBridge WITH Says <- MaySay, asked <- prompted
Link     == INSTANCE QQChannel WITH kind <- channel, answered <- acknowledged
Accounts == INSTANCE AuthSessions WITH account <- owner
Pushes   == INSTANCE Outreach WITH Source <- Sensor, Feed <- Brings, Caller <- TickCaller,
                                   Mortal <- MayDie
Space    == INSTANCE Workspace WITH Request <- Inquiry, request <- asking
Chat     == INSTANCE ChatAnswer
Web      == INSTANCE WebTools WITH Limit <- Numbers, Caller <- WebCall, newest <- latest
Shell    == INSTANCE ShellJobs WITH held <- outputHeld, at <- place, told <- reported
Process  == INSTANCE CliProcess
Plan     == INSTANCE PlanProjection WITH calls <- planCalls, shown <- planShown

\* Feeds are sequences of events, and there are finitely many callers.
ASSUME PushesAssumption ==
    Brings \in [Sensor -> Seq(Pushes!Event)] /\ MaxRetries \in Nat /\ IsFiniteSet(Retrier)

bridgeVars   == <<kind, inbox, task, held, again, pending, conversation, convLock, notice,
                  counts, counted, forgotten, sent, answered, run, prompted, consent>>
linkVars     == <<channel, reconnects, up, link, delay, dials, open, ws, beats, token,
                  busUp, subscribed, outbox, published, flight, calls, wire, received,
                  acknowledged>>
accountsVars == <<owner, sessions, request, overtaken, late, cutOff, halfChanged>>
pushesVars   == <<hooked, running, looping, sources, shown, tick, begun, seen, deliveries,
                  retry, orphaned>>
spaceVars    == <<spaces, conversations, rows, favorites, cards, asking>>
chatVars     == <<stage, question, hits, plain, rewritten, take, takes, segments, outcome>>
webVars      == <<now, cache, at, wants, heard, deadline, told, latest, overlapped>>
shellVars    == <<process, outputHeld, entry, capture, place, polled, reported>>
processVars  == <<backend, leader, child, hasRead, pipe, written, reader, watchdog,
                  timedOut, killing, stumbled, sawResult, abandoned, verdict>>
planVars     == <<planCalls, results, order, registry, source, planShown, closed>>

-----------------------------------------------------------------------------
(* One component is at work in a behaviour.                                *)

BridgeRests ==
    /\ kind = 0 /\ inbox = 0 /\ task = 0 /\ held = 0 /\ again = 0 /\ pending = 0
    /\ conversation = 0 /\ convLock = 0 /\ notice = 0 /\ counts = 0 /\ counted = 0
    /\ forgotten = 0 /\ sent = 0 /\ answered = 0 /\ run = 0 /\ prompted = 0 /\ consent = 0
LinkRests ==
    /\ channel = 0 /\ reconnects = 0 /\ up = 0 /\ link = 0 /\ delay = 0 /\ dials = 0
    /\ open = 0 /\ ws = 0 /\ beats = 0 /\ token = 0 /\ busUp = 0 /\ subscribed = 0
    /\ outbox = 0 /\ published = 0 /\ flight = 0 /\ calls = 0 /\ wire = 0 /\ received = 0 /\ acknowledged = 0
AccountsRests ==
    /\ owner = 0 /\ sessions = 0 /\ request = 0 /\ overtaken = 0 /\ late = 0
    /\ cutOff = 0 /\ halfChanged = 0
PushesRests ==
    /\ hooked = 0 /\ running = 0 /\ looping = 0 /\ sources = 0 /\ shown = 0 /\ tick = 0
    /\ begun = 0 /\ seen = 0 /\ deliveries = 0 /\ retry = 0 /\ orphaned = 0
SpaceRests ==
    /\ spaces = 0 /\ conversations = 0 /\ rows = 0 /\ favorites = 0 /\ cards = 0
    /\ asking = 0
ChatRests ==
    /\ stage = 0 /\ question = 0 /\ hits = 0 /\ plain = 0 /\ rewritten = 0 /\ take = 0
    /\ takes = 0 /\ segments = 0 /\ outcome = 0
WebRests ==
    /\ now = 0 /\ cache = 0 /\ at = 0 /\ wants = 0 /\ heard = 0 /\ deadline = 0 /\ told = 0
    /\ latest = 0 /\ overlapped = 0
ShellRests ==
    /\ process = 0 /\ outputHeld = 0 /\ entry = 0 /\ capture = 0 /\ place = 0 /\ polled = 0
    /\ reported = 0
ProcessRests ==
    /\ backend = 0 /\ leader = 0 /\ child = 0 /\ hasRead = 0 /\ pipe = 0 /\ written = 0
    /\ reader = 0 /\ watchdog = 0 /\ timedOut = 0 /\ killing = 0 /\ stumbled = 0
    /\ sawResult = 0 /\ abandoned = 0 /\ verdict = 0
PlanRests ==
    /\ planCalls = 0 /\ results = 0 /\ order = 0 /\ registry = 0 /\ source = 0
    /\ planShown = 0 /\ closed = 0

InitAll ==
    /\ part \in {"embeddings", "bridge", "channel", "accounts", "outreach", "workspace",
                 "chat", "web", "shell", "cli", "plan"}
    /\ Init
    /\ IF part = "bridge" THEN Bridge!Init ELSE BridgeRests
    /\ IF part = "channel" THEN Link!Init ELSE LinkRests
    /\ IF part = "accounts" THEN Accounts!Init ELSE AccountsRests
    /\ IF part = "outreach" THEN Pushes!Init ELSE PushesRests
    /\ IF part = "workspace" THEN Space!Init ELSE SpaceRests
    /\ IF part = "chat" THEN Chat!Init ELSE ChatRests
    /\ IF part = "web" THEN Web!Init ELSE WebRests
    /\ IF part = "shell" THEN Shell!Init ELSE ShellRests
    /\ IF part = "cli" THEN Process!Init ELSE ProcessRests
    /\ IF part = "plan" THEN Plan!Init ELSE PlanRests

EmbeddingsStep ==
    /\ part = "embeddings" /\ Next
    /\ UNCHANGED <<part, bridgeVars, linkVars, accountsVars, pushesVars, spaceVars,
                   chatVars, webVars, shellVars, processVars, planVars>>
BridgeStep ==
    /\ part = "bridge" /\ Bridge!Next
    /\ UNCHANGED <<part, vars, linkVars, accountsVars, pushesVars, spaceVars, chatVars,
                   webVars, shellVars, processVars, planVars>>
LinkStep ==
    /\ part = "channel" /\ Link!Next
    /\ UNCHANGED <<part, vars, bridgeVars, accountsVars, pushesVars, spaceVars, chatVars,
                   webVars, shellVars, processVars, planVars>>
AccountsStep ==
    /\ part = "accounts" /\ Accounts!Next
    /\ UNCHANGED <<part, vars, bridgeVars, linkVars, pushesVars, spaceVars, chatVars,
                   webVars, shellVars, processVars, planVars>>
PushesStep ==
    /\ part = "outreach" /\ Pushes!Next
    /\ UNCHANGED <<part, vars, bridgeVars, linkVars, accountsVars, spaceVars, chatVars,
                   webVars, shellVars, processVars, planVars>>
SpaceStep ==
    /\ part = "workspace" /\ Space!Next
    /\ UNCHANGED <<part, vars, bridgeVars, linkVars, accountsVars, pushesVars, chatVars,
                   webVars, shellVars, processVars, planVars>>
ChatStep ==
    /\ part = "chat" /\ Chat!Next
    /\ UNCHANGED <<part, vars, bridgeVars, linkVars, accountsVars, pushesVars, spaceVars,
                   webVars, shellVars, processVars, planVars>>
WebStep ==
    /\ part = "web" /\ Web!Next
    /\ UNCHANGED <<part, vars, bridgeVars, linkVars, accountsVars, pushesVars, spaceVars,
                   chatVars, shellVars, processVars, planVars>>
ShellStep ==
    /\ part = "shell" /\ Shell!Next
    /\ UNCHANGED <<part, vars, bridgeVars, linkVars, accountsVars, pushesVars, spaceVars,
                   chatVars, webVars, processVars, planVars>>
ProcessStep ==
    /\ part = "cli" /\ Process!Next
    /\ UNCHANGED <<part, vars, bridgeVars, linkVars, accountsVars, pushesVars, spaceVars,
                   chatVars, webVars, shellVars, planVars>>
PlanStep ==
    /\ part = "plan" /\ Plan!Next
    /\ UNCHANGED <<part, vars, bridgeVars, linkVars, accountsVars, pushesVars, spaceVars,
                   chatVars, webVars, shellVars, processVars>>

NextAll ==
    \/ EmbeddingsStep \/ BridgeStep \/ LinkStep \/ AccountsStep \/ PushesStep \/ SpaceStep
    \/ ChatStep \/ WebStep \/ ShellStep \/ ProcessStep \/ PlanStep

allVars == <<part, vars, bridgeVars, linkVars, accountsVars, pushesVars, spaceVars, chatVars,
             webVars, shellVars, processVars, planVars>>

SpecAll == InitAll /\ [][NextAll]_allVars

-----------------------------------------------------------------------------
(* No more requests than the timeouts that split them explain, and the     *)
(* vectors of a ready document come from one model (EmbeddingService,      *)
(* RetrievalService.index_chunks).                                         *)
VectorsUniform == RequestsBounded /\ ReadyIsUniform

(* A dangerous run goes on only at the word of the person who asked for    *)
(* it, in the chat that was shown its prompt last; and a chat has one      *)
(* conversation however messages overlap (AgentBridge).                    *)
ConsentInChat == part = "bridge" => Bridge!AskedBeforeApproved /\ Bridge!OneConversation

(* The platform's limit of replies to a message holds over all tasks, and  *)
(* nobody who has an answer is told to wait for it (AgentBridge).          *)
RepliesBounded == part = "bridge" => Bridge!RepliesWithinLimit /\ Bridge!NoticeBeforeAnswer

(* Replies reach the platform in order, and a channel that is to reconnect *)
(* goes on connecting (MessageBus, NapCatChannel, QQBotChannel).           *)
ChannelLasts == part = "channel" => Link!RepliesInOrder /\ Link!KeepsConnecting

(* A password change leaves alive only sessions that a request under way   *)
(* with it opened, and a token is exchanged once by each of the requests   *)
(* that overlap (AuthService).                                             *)
SessionsRetired == part = "accounts" => Accounts!OldPasswordOut /\ Accounts!ExchangedOnce

(* "Password change invalidates all sessions" (AuthService).  It does not  *)
(* hold: see the run sessions_survive.                                     *)
PasswordChangeEndsSessions == part = "accounts" => Accounts!ChangeEndsSessions

(* An event is pushed once, none that is logged is lost but by a crash,    *)
(* and retries end (ProactiveService, OutboundService).                    *)
EventsPushed ==
    part = "outreach" => Pushes!PushedOnce /\ Pushes!LoggedIsPushed /\ Pushes!RetriesEnd

(* A question was answered knowing earlier questions of its conversation,  *)
(* and a favourite that is marked has its card (ChatHistoryService's edit, *)
(* FavoriteService's promotion).                                           *)
RowsKept == part = "workspace" => Space!ContextIsEarlier /\ Space!MarkedHasCard

(* An answer is made of one way of asking, and no way is tried twice       *)
(* (LLMService's fallbacks when a request fails).                          *)
AnswerIsOne == part = "chat" => Chat!OneTake /\ Chat!EachTakeOnce

(* What a tool tells is true: what comes from the cache is fresh, requests *)
(* are repeated only after failures that may pass; a job that is called    *)
(* completed succeeded, and one that nobody watches any more does not run  *)
(* (web_tools, net.http, shell_tools).                                     *)
ToolsTruthful ==
    /\ part = "web"   => Web!ServedFresh /\ Web!OnlyTransientRetried
    /\ part = "shell" => Shell!SuccessIsTrue /\ Shell!NotLeftRunning

(* A dispatch comes out as its CLI said last, and leaves no CLI behind     *)
(* (BaseCliAgentRunner.run, _run_cli_agent_stream).                        *)
DispatchEnds == part = "cli" => Process!ResultStands /\ Process!CliGone

(* The plan that is shown is one the CLI had, and the newest that can be   *)
(* shown (ClaudeCodeRunner's projection).                                  *)
PlanShown == part = "plan" => Plan!ShownIsReplayed
=============================================================================
