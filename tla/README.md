# Formal models of CaiBao

CaiBao (`src/app`, `src/qqbot_adapter`) is a FastAPI server that answers questions over a team's
documents and runs agents that call tools. The models here are about its stateful core: durable
agent runs on several processes, approvals, the journal that clients follow, the sessions of
external CLIs, and the two stores (memory cards, documents) whose rows and vectors have to agree.
Every module is written from the code; `PROJECT.json` maps each definition to its lines.

1. Inventory - the parts of the system, their state, what is hard, what makes them correct
2. Modules - how state and actions correspond to the code
3. Runs - what each one asks, its bounds and its result
4. Fairness
5. Proofs
6. Where the code and its documentation disagree
7. What is not modelled
8. Possible extensions

## 1. Inventory

### How the parts interact

A request creates an `agent_runs` row. For queued runs `AgentRunRuntime` claims the row in
`agent_run_workers`, takes a permit of its pool and gives a thread to
`AgentService.stream_run`; the thread appends every event to `agent_run_events` and renews a
lease. A heartbeat thread of every process looks for leases that ran out, interrupts those runs and
frees their conversations. Inside the thread a tool loop asks the model, charges each proposed call
to a ledger, executes it, or stops and waits for an approval; `confirm_run` continues from the
checkpoint, perhaps on another process. CLI runs hand their task to Claude Code or Codex, whose
native session is kept in a file of the conversation's workspace. Completed turns go through an
event bus to the consolidation service, which writes memory files and memory cards. Documents are
parsed, cut and embedded by background tasks; confirmed conclusions become documents. The proactive
scheduler, the outbound service and the QQ adapter carry messages in and out.

Almost everything is coordinated through the database (SQLite by default, PostgreSQL supported) and
a few file locks. There is no queue between processes.

### Components

| Component | State it keeps | Operations | Hard behaviour | Correct when |
|---|---|---|---|---|
| Agent run runtime (`agent_run_runtime.py`) | `agent_run_workers` (owner, state, slot, lease); semaphore, futures and owned set per process | submit, execute a confirmation, execute, finish a claim, renew, recover, enforce an interruption, shut down | processes that crash or stall past their lease and wake again; a permit, a claim and a future that must agree on every error path; one conversation, one claim | one executor per run; stops last; saved approvals survive; nothing stays running; permits balance |
| Agent service (`agent_service.py`) | `agent_runs` (status, confirmation, loop state, receipt, plan), steps | stream, confirm, cancel, finish; five execution modes | status is read before a tool and written after it | a stop is noticed before the next tool; a settled status is final |
| Run journal (`agent_run_event.py`, `iter_events`) | `agent_run_events`, one cursor per reader | append, snapshot, read a page, follow | cursors are handed out before commit; the last events race the completion check | no event skipped; a lost owner is silent; streams end unless the run is left without a claim, and have told the outcome |
| Tool loop, execution ledger | reserved, completed, failed, rejected, skipped, omitted calls; model and plan quotas; the checkpoint of an approval | reserve, resolve, reject, omit, save, restore, receipt | several calls per answer of which one waits; resumption in another process; a model that repeats itself | the receipt tells the truth; quotas and consent hold across approvals; the loop ends |
| Task plans (`task_plan_*.py`) | `task_plan_json`, revision | compare-and-set update, refusals | a cancelled run's plan must not move | revisions grow, 64 of them |
| CLI sessions (`cli_session_store.py`, `conversation_context.py`) | a JSON file per workspace: binding, session, committed and uncertain messages; a lock per dispatch | inspect, begin, note the session, commit, mark uncertain | the process dies while the CLI works; the CLI may or may not have read what it was sent | a turn is told once; what is left out is known; no second writer in a session |
| Memory cards (`memory_service.py`) | `memory_cards`, `memory_card_embeddings` | create, update, pause, delete, consolidate, search | the session writes only the columns that changed since *this* request loaded them, but the vector always | a card is found by its current text; card and vector live and die together |
| Documents and retrieval | `documents` (status), `document_chunks`, `chunk_embeddings`, files | upload, parse, cut, index, publish, delete, search | each phase is its own transaction; no foreign key is enforced | ready means searchable as a whole; no orphans; no status of a pipeline that has ended |
| Conclusions | `conclusions`, one synced document each | create, edit, confirm, archive | confirming reindexes a document others may be indexing | one document per conclusion, with its current text |
| Memory files and consolidation, event bus | `MEMORY.md`, `HISTORY.md`, `RECENT_CONTEXT.md` per user; turn buffers and a queue in memory | append, promote, edit a section with its revision, drain, consolidate | two writers of one file; a restart between a turn and its consolidation; observers that time out | nothing is overwritten unseen; history is recorded once; each turn is weighed |
| Proactive outreach, outbound | event log, deliveries, energy | tick, deduplicate, log, deliver, retry | logged and delivered in two transactions; retries beside each other | an event is delivered once, or its failure is visible |
| QQ adapter | pending confirmation, conversation and reply counts per chat, outbound queue, socket | receive, confirm, cancel, reply, dispatch, reconnect | an await between reading and removing a pending confirmation; two messages that both need a conversation | a word approves the run its author saw; the reply limit holds; the channel comes back |
| Authentication | refresh sessions (rotated, revoked) | login, refresh, logout, change password | two refreshes with one token; a refresh beside a password change | one successor per token and request; which sessions outlive a password change |
| Sub-agents, drift | a job row or a state file per skill | start, step, finish | the process dies in between | a job that ended says so |
| Embedding service | the account's model row, vectors of a job not yet committed | resolve, post a batch, halve, retry | the model behind a name is replaced during a job | no text without its vector, one model per ready document |
| Chat answers, LLM service | one answer's segments | search, ask, continue, ask again without images or with the history as text | a fallback after part of an answer was shown | the answer is of one take |
| CLI child (`cli_agent_service.py`) | process group, pipe, watchdog | spawn, feed, read, time out, kill | the watchdog, the reader and the CLI's own end race | the last result decides; no CLI outlives its dispatch |
| Plan projection | the calls and results a CLI announced | remember, match, project | results in any order, two kinds of tool | the plan shown is one the CLI had |
| Web tools, shell jobs | a shared cache with its freshness; the table of background jobs | fetch with retries, list, status, kill | calls that fill the cache together; a job that ends while it is asked or killed | what is told is fresh, and true of the process |
| MCP, plugins | sockets, a registry | call | time-outs of the outside world | - |
| Spaces, conversations, history, favourites | their rows | delete, edit, regenerate, promote | a request between the provider's answer and its row; two commits | an answer knows earlier questions only; a marked favourite has its card |
| Teams, users, admin, companion, personas | single rows | one transaction per request | few | scoping of queries |
| Web UI, macOS shell | none on the server | render, follow a stream, recover it | reconnecting with a cursor | the reader side of the journal |
| Database, configuration, scripts | schema, settings | migrate, evaluate | - | - |

The components, with their sources and what is modelled of them, are in `PROJECT.json`
("components"); every place where the code can go wrong in a way that is hard to test is listed at
its line under "hazards", with the property that would catch it or the reason why none does yet.

## 2. Modules

| Module | Models | Its companion modules |
|---|---|---|
| `RunRuntime` | claims, leases, approvals, stops of runs on several processes | `MCRunRuntime`, `RunRuntimeProofs` |
| `EventJournal` | appending to and following one run's journal | `MCEventJournal`, `EventJournalProofs` |
| `ToolLoop` | one run's tool loop, ledger, quotas and checkpoint | `MCToolLoop`, `ToolLoopProofs`; implements `ReservedEffects` |
| `ReservedEffects` | the abstract promise: no effect without a durable reservation, within the budget | - |
| `Knowledge` | one document, its library copy, chunks and vectors under overlapping jobs | `MCKnowledge`, `KnowledgeProofs` |
| `MemoryCards` | one card and its vector under overlapping requests | `Continuity`, `ContinuityProofs` |
| `CliSession` | what native CLI sessions are told, and when they are resumed | `Continuity`, `ContinuityProofs` |
| `MemoryFiles` | event bus, consolidation and the files of a workspace | `Continuity`, `ContinuityProofs` |
| `Continuity` | the three modules above, of what is kept from turn to turn, one at work at a time | `MCContinuity`, `ContinuityProofs` |
| `Embeddings` | one index job's requests, halved and retried, and a model that is replaced | `Services`, `ServicesProofs` |
| `QQBridge` | messages of a chat, confirmations, replies, runs | `Services`, `MessagingProofs` |
| `QQChannel` | the gateway connection and the outbound queue | `Services`, `MessagingProofs` |
| `AuthSessions` | an account, its password and rotating refresh sessions | `Services`, `ServicesProofs` |
| `Outreach` | ticks, the event log, deliveries and retries | `Services`, `MessagingProofs` |
| `Workspace` | spaces, conversations, history rows and favourites of one user | `Services`, `ServicesProofs` |
| `ChatAnswer` | searching for context and asking for one answer | `Services`, `ServicesProofs` |
| `WebTools` | the shared video cache, its sources, and the loop around every request | `Services`, `ServicesProofs` |
| `ShellJobs` | a background job, its capturing thread, status and kill | `Services`, `ServicesProofs` |
| `CliProcess` | one CLI process group, its reader and its watchdog | `Services`, `ServicesProofs` |
| `PlanProjection` | the plan a CLI announces and the one shown | `Services`, `PlanProofs` |
| `Services` | the eleven modules above that stand around the agent, one at work at a time | `MCServices`, `ServicesProofs`, `MessagingProofs`, `PlanProofs` |

`Continuity` and `Services` put several components into one specification. The components share
no state in the code, so nothing is gained from interleaving them: a behaviour chooses its `part` at
the start and only that component moves; the variables of the others rest. A property of the
specification is what is claimed of that part (`part = "cli" => Process!ResultStands /\ ...`), and
every component is still explored exhaustively. Both keep each component's names and rename only those
that two of them share: in `Services` `MaySay` for the bridge's `Says`, `owner` for the account, `asking`
for the workspace's requests; in `Continuity`, which extends `MemoryFiles`, `CliRun` and `messages` for
the runs and the history of the sessions. All constants stay parameters there, because theorems are
proved of `SpecAll` for every value of them; `MCContinuity` and `MCServices` only give them values
for TLC.

Definitions keep the names of the code where that reads well. A definition whose comment begins with
"Mutant" is not part of the model: it is a plausible bug of the definition after it, used to show
that a property notices.

Components that do share state are composed inside one module: `RunRuntime` holds the processes,
the database rows and the confirmations together, `Knowledge` the document, its copy and all its
jobs, `EventJournal` the writers and the readers, `QQBridge` the chats and the agent server,
`MemoryFiles` the bus, the consolidation and the editors.

### RunRuntime

*State.* `status`, `turn` (which dangerous call the saved confirmation names), `worker` (a row of
`agent_run_workers`) and `shown` (the journal's latest snapshot) are the database. `server`, `free`
(the semaphore), `submit` (what `_submit` has read and not yet committed) and `job` (a program
counter per thread) are each process's own. `child`, `granted`, `applied`, `tools` and `late` are
the outside world and the history the properties speak of.

*Actions.* Each is at most one committed transaction. `SubmitStart ... SubmitGiveUp` are `_submit`;
`JobStart`, `StreamClaim`, `ProposeTool`, `Tool`, `AskApproval`, `Finish`, `Raise`, `Conclude` are
`_execute` with `stream_run`; `Consent`, `Refuse`, `CheckApproved`, `Apply` are `confirm_run`;
`Fail`, `EnforceRead`, `EnforceWrite`, `Close`, `CloseFails`, `CloseUnrecorded`, `JobDone` are the
error paths and the end of a thread; `Renew`, `Recover` are the heartbeat; `Shutdown`,
`DropQueued`, `Crash`, `Cancel`, `RecordCancel` speak for themselves.

*Abstractions.* Time is a flag per lease, set by `LeaseAbandoned` (its process is gone, or
`_job_done` gave it up) or `LeaseOverrun` (its process is suspended). `partial_success` is folded
into `completed`. Reading and appending to the journal are one step here and in detail in
`EventJournal`. The calls of a keyword approval count as one. A process that returns after a crash
is another member of `Server`, since it draws a new owner id.

### EventJournal

The journal is a function from committed cursors to entries; `tx` holds an append whose cursor was
handed out and which is not committed, `claim` the row whose lock fences the owner, `reader` the
generator of each connection and `got` what its client received. One run, one stream job and its
confirmations, the user's cancel and some process's recovery write. `completed` stands for every
finished outcome. Snapshots of runs from before the journal are left to `RunRuntime`. Cursors that
other runs take in between are not modelled: a reader compares cursors and never counts them.
An entry has the event's name, the status it shows and whether it carries an error, so that
`AlreadyLast` compares what `record_snapshot` compares, name and payload. Two snapshots of one run
with one status are the same, with one exception (`MayDiffer`): a stop is answered by the request as
well as by the thread, and the thread may have recorded a step in between.

Any job may fail, the confirmations too. A confirmation that fails after its claim was recovered
leaves the run in progress without a claim (`Adrift`; the run `run_stuck` shows how), and then the
run is never done and none of its streams ends, unless the user cancels it. `StreamsEnd` therefore
says: either the run stays adrift for good, or every connected stream ends.

A read returns at most `Limit` events (200 in the code, 3 here). `EndsTold` needs that what is
written between an empty read and the check that the run is done fits one page: the tail is read
once (`agent_run_runtime.py:389`), and with `Limit = 2` the property is violated. In the code more
than 200 events would have to be written between two statements.

### ToolLoop and ReservedEffects

One thread, from the first request to the model to the receipt, through approvals. The model is an
adversary: it answers with any batch of calls, also when it was offered none. A stop, and the loss
of the thread, may come between any two steps. `ledger` is `ToolLoopLedger`, `control` is
`RunLoopControl`, `receipt` and `checkpoint` are the row's columns; `effects` is what handlers did.
`ReservedEffects` has three variables and four actions (charge, reject, execute, settle);
`EffectsReserved` says that the loop, read through `charged <- receipt.used` and so on, does nothing
else. Checkpoints written before ledgers existed, the check that a route is the same at resumption,
message ids and arguments are left out. The keyword plan that takes over when a model cannot call
tools is one step, and its approval is left to `RunRuntime`. The companion channel never submits
with consent in advance (`companion_service.py:158`), which is an assumption on `Modes`.

### CliSession

`entry` is the runner's entry of the state file, `lease` the lock of a dispatch, `job` each run's
thread, `history` the conversation, and `known` the truth the code cannot see: what each native
session was told. A process may die at any point and leave its CLI working. The CLI may continue
under a new session id, report it or not, succeed or fail. One runner name; the bound of 512 ids,
the 100 messages read and legacy or corrupt files are left out. That turns omitted by the history
window may be told later, out of order, is the code's behaviour and is not called an error. `Unseen`
is where in the history the candidates are, and `BuildContext` picks the last of them, in their order, as
many as the limits of turns and characters leave: any number up to the window, since the length of a
message is not modelled. `OnlyFinishedTold` says that no session hears of a run that is still under way.

### MemoryCards

One card, its vector, and requests that load it, compute and write. What is external: SQLite
serialises writers from the first write to the commit, and SQLAlchemy's session writes a column only
if it differs from the value this request loaded, and raises if the row it updates is gone. Those
rules are what makes the interesting behaviours, so they are modelled exactly: `Edited` and `Flush`
compare with `loaded`, `Upserted` always computes the vector from the text the request carries.
Other fields of a card (title, scope, expiry) and a summary passed explicitly are left out. An edit
may bring the text that is stored: the notebook sends the content with every save
(`companion-memory.mjs:66`). That is why `RecallCurrent` does not hold (`recall_stale`), while
`IndexedTogether` does not depend on it.

### Knowledge

`status`, `cut` and `vectors` are the rows of a document and of its copy in the library. Texts are
left out; a cut has a number, and each cut the same parts, one per batch of the embedding service.
`job` holds what a request does and the status it has loaded (`seen`), since here too a status is
sent only when it differs. `writer` is the write lock, held by a rebuilding index run from its
deletion to its commit. A commit and the refresh that follows are one step; where the session reads
the row again only later (`list_chunks`, the chunker's text) `Load` is a step of its own.
`WriteThrough` is `_set_status`; `Cut` is the second transaction of `chunk_document`; `Indexed` is
the end of `index_chunks`, which commits what it has also when it fails; the pipeline marks such a
document failed once more (`ReadFails`).

`Overlap = FALSE` is an assumption on the environment: chunkers of one document follow each other,
and the index route that keeps existing vectors (its default, `schemas/retrieval.py:9`) runs alone.
The browser keeps to it (`docs/step-10-attachment-upload-design.md:56` says it should not call
those routes itself), the server does not enforce it. With `Overlap = TRUE` a ready document can
have chunks without vectors, and chunks can be inserted after their document was deleted.
Also assumed: embedding models that resolve, a write lock obtained within its five seconds, and
processes that do not die inside a pipeline. Without these `RestIsSettled` fails, because nothing
ever looks at a document left at `indexing` (see the hazards).

### Embeddings

`config` is the model the account's row names, `slots` the vectors the job's session holds, `index`
the committed ones, by the model that computed them. `work` is the stack of text ranges
`_embed_with_adaptive_retry` still has to ask for. A request may time out however small it is: it
is halved, a single text is retried `SingleRetries` times. The model may be replaced between two
batches (`EmbeddingModelService`); `index_chunks` resolves it once, overwrites whatever vectors there
are without comparing models, and stores the name it resolved with each of them. Vectors are known by their model and not by their text, which `Knowledge` looks after.

### MemoryFiles

A file is a set of notes, a note is known by whom it comes from. `turn` is a run on its way through
the bus, `queue` and `buffer` belong to a process and die with it, `lock` is the workspace lock of
a consolidation. A consolidation's extraction may return nothing, its writes may fail one by one
(`WriteFails`), and a process may die between them. The disk may also refuse a turn before it is taken
in (`Refused`: making the files, or replacing the recent turns), which ends the observer. A buffer keeps
its last `BufferCap` turns (`max(min_turns, 6)`), so a disk that goes on failing makes it drop the
oldest. `EachTurnWeighedOnce` says exactly what that costs: a turn that is neither in a buffer nor
weighed was refused, or was in more broken consolidations than the buffer had spare places. Editors (the
notebook routes) send the revision they have seen. History is cut to its last entries by a size in
characters, which is not modelled.

### QQBridge and QQChannel

One event loop: a step is what a task does between two awaits that really wait, so reading the
pending confirmation and removing it may be separated exactly where the code awaits. `inbox` are the
messages by their kind (a task, a word of consent, of cancellation, of refusal), `pending` the
confirmation a chat is shown, `counts` the passive replies used. The official channel asks for a
whole answer, NapCat follows the stream and falls back. In `QQChannel` `link` is the connect loop
with its delays, `beats` and `token` the heartbeat and the access token, `flight` the reply that is
being delivered, `calls` the requests waiting for their echo. Delays are steps of a small scale.
`reconnects` is the setting `reconnect_enabled`: without it the connect loop ends with its first
connection, and the channel stays as it is until it is stopped.

### AuthSessions, Workspace, Outreach

All three are rows that several requests write commit by commit. In `AuthSessions` a client may
present any refresh token it was ever given; access tokens are good while the password they were
issued under is the account's (`stamp`). A session also remembers, as history, the password that was
typed to open its line (`pw`): a refresh hands it on, whatever the account's password is by then. The
code lets sessions outlive a change of the password, see section 6; `OldPasswordOut` says which: those
opened by a request that had begun before the sessions were revoked, their successors, and all while
the change is under way or was cut off. In `Workspace` a request that asks the provider, or commits
twice, takes two steps; rows of the channels `ask` and `echo` can be edited and made a favourite, rows
of an action cannot. In `Outreach` a tick pulls, deduplicates by the log of its name, logs, posts the webhook and
stores a delivery, each a step; sources never forget what they returned. A row of the log is a key: the
log's name and the id the event is logged by (one without an id is given one; one with an empty id is
looked up by another than it is logged by). Two sources may share a log, then an
event of the one hides an equal id of the other: `LoggedIsPushed` speaks of keys under which nothing but
what is `WorthPushing` can come. Scores are reduced to the set
of events that pass (`Severity`, `Alarming`); the energy model is rebuilt for each tick and therefore
never tired, which is the code's behaviour.

### ChatAnswer, WebTools, ShellJobs

`ChatAnswer` follows `ask` from retrieval to the last segment: each use of the helper model may fail
and is left out then, an answer that is cut is continued, a provider that refuses the history or the
images is asked again without. `WebTools` has a clock, since freshness is its point; what a source
shows is the time it was asked, and `retry_request` is the loop of every request. The cache is looked
through without a lock, and a call of another thread that adds or removes an entry meanwhile makes the
loop raise (`LookBreaks`): the caller is told an error and nothing else. `ShellJobs` has the process,
whoever else holds its output, the entry in `_jobs` and the threads that look at it. The capturing
thread fills the entry in under the lock; status and kill only find it under the lock, and read and
write its fields one by one without. So the verdict of a kill or of a time-out may be overwritten, and
a status call may tell a status and a code that do not belong together; no property claims otherwise.

### CliProcess and PlanProjection

`leader` is the CLI, `child` a process it leaves in its group, `pipe` the lines not yet read, `killing`
the two callers of `_kill_process_tree`. `Says` is what the parsers of the three backends make of a
line. Time is not counted: a limit may be reached as soon as it runs, so no property depends on how
long anything takes. The code's tree killer does nothing when the CLI itself has already exited
(`cli_agent_service.py:907`), so a process that the CLI left behind survives a time-out; the document
says the whole group is ended (`docs/step-13-cli-agent-backends.md:64`). `TimeoutKillsGroup` states
that and is refuted; it is kept in the module as a definition and is claimed by no run.
`PlanProjection` remembers the announced calls, matches their results in whatever order they come, and
applies them in the order of the calls; texts are left out, and a list that cannot be shown leaves the
one that is. Calls beyond the limit of what is remembered are ignored (`Kept`). `After(n)` is the reference: the tasks the CLI had after its first `n` calls, read off
the calls and their results without replaying them.
`PlanShown` speaks of runs that use the task calls only: a TodoWrite hands over its whole list, so there
is nothing to replay, and which kind comes first depends on the order of results.

## 3. Runs

All passing runs are exhaustive. `CHECK_DEADLOCK FALSE` everywhere: every system here may stop,
because users owe no further request.

| Run | Asks | Instance |
|---|---|---|
| `runtime_live` | `InterruptionShown`, `ApprovalSurvives`; liveness `RunsSettle`, `ConversationFreed` | 1 API run, 2 approvals, 2 processes; one may die, both may be shut down, neither stalls |
| `runtime_stalled` | `OneExecutor`, `ApprovedOnce`, `ApprovedExactly`, `CapacityBalanced`, `StopBoundsTools`, `StopIsFinal`, `ConversationExclusive`, `CliWorkspaceReserved` | two scenes: a synchronous companion run, 2 approvals, 2 tools, 2 processes that may both stall and one of which may die; or that run with 1 approval beside a CLI run in one conversation, the CLI run on the process that may stall; 943 546 states |
| `journal` | `NoSkip`, `OwnerSpeaks`, `EndsTold`, liveness `StreamsEnd` | a stream and one confirmation, both of which may fail, one cancel, one client, pages of 3; 495 240 states |
| `toolloop` | `ReceiptTrue` (the receipt is honest and accounts for every proposal), `ApprovalHolds` (a checkpoint can be resumed, consent is per call, quotas survive), refinement `EffectsReserved`, liveness `LoopEnds` | budget 3, 3 model requests, 1 plan update, answers of up to 2 calls, five ways to submit |
| `knowledge` | `ReadyIsIndexed`, `NoOrphans`, `RestIsSettled` | 3 jobs, 2 batches, 4 cuts |
| `continuity` | cards: `IndexedTogether`; CLI sessions: `SessionsHonest` (told once, what is left out is known, resumed only when quiet, handed over once); memory files: `TurnsWeighed`, `NotesKept` | cards: 4 requests, 3 texts; sessions: 3 runs, 1 other message, 2 configurations, 3 dispatches, window of 2; files: 3 turns of one conversation, threshold 2, a buffer of 2, one process that may crash, one editor, a disk that may fail two of the turns; 893 945 states up to symmetry |
| `services` | one or two conjunctions per component, see below | see below |
| `approval_lost`, `workflow_stop`, `run_stuck` | one property each, violated by the code (section 6) | one run on two processes, with the stall or the mode that matters |
| `recall_stale`, `sessions_survive` | `RecallCurrent`, `PasswordChangeEndsSessions`, violated by the code (section 6) | those of `continuity` and `services` |

`runtime_stalled` keeps its two scenes apart with a state constraint, `OneScene` of `MCRunRuntime`: in
the one the CLI run was cancelled before anybody claimed it and everything may happen to the other; in
the other both are there, the processes stay up and only one of them stalls. Shutdowns are left to
`runtime_live`. What the two runs do to each other while processes crash, stall and close at once is
left to the proofs, which hold for any number of runs and processes.

*The parts of* `services`:

| Part | Property | Instance |
|---|---|---|
| `Embeddings` | `NothingLost`: vectors and waiting ranges make up the batch; `VectorsUniform`: one model per ready document, requests bounded | 5 texts in batches of 4 and requests of 3, 2 models, 2 jobs, 2 retries of a single text |
| `QQBridge` | `ConsentInChat`: only the asker's word, after the prompt, approves, and one conversation per chat; `RepliesBounded`: reply limit, no notice after the answer | a group, two users, three messages (two tasks and a word), answers of 2 parts, 3 replies per message, counts kept of 1 |
| `QQChannel` | `ChannelLasts`: replies in order and at most twice, connecting goes on where it is to | 3 replies, 2 dials, delays up to 2, with and without reconnecting |
| `AuthSessions` | `SessionsRetired`: a session of a changed password lives on only where the change left the chance, a token is exchanged once by each overlapping request | 2 tabs, one of which may die, 5 sessions |
| `Outreach` | `EventsPushed`: pushed once, logged means pushed but for a crash, retries end | 2 sources with one log and 3 events (with an id, without, an empty one), a scheduler thread, a caller and a retrier that may die, a second retrier, 2 retries |
| `Workspace` | `RowsKept`: an answer knows earlier questions of its conversation only, a marked favourite has its card | 1 request at a time between two commits, 1 space, 2 conversations, 2 rows, 2 edits |
| `ChatAnswer` | `AnswerIsOne`: one take, none tried twice | 3 chunks, 2 scores, 4 segments |
| `WebTools` | `ToolsTruthful`: served fresh, only transient failures retried | 2 callers, freshness 1, 2 attempts, time up to 3 |
| `ShellJobs` | `ToolsTruthful`: "completed" succeeded, a job nobody watches is not running | 2 callers of status or kill |
| `CliProcess` | `DispatchEnds`: the last result decides, no CLI outlives its dispatch | three backends, 3 lines, a prompt larger than the pipe |
| `PlanProjection` | `PlanShown`: the plan shown is a replay of the calls that were answered | 4 calls of which 3 are remembered, plans of 1 step |

The run of `services` has 2 967 306 states, all parts together.

*Why these bounds.* The hazards of the runtime need two processes, one that lost a claim and one
that took it, and an approval that comes after another one, which is what two turns give; capacity
is 1, so that a leaked permit stops the pool. In one conversation two runs compete; a third would
wait like the second. A history of two rows in two conversations is what it takes for a question to
have an earlier row that is not its own conversation's. Stalls and liveness are in different runs, because a process that may stall
for ever may also never finish, and because a suspended owner that wakes does overwrite a settled
status (`approval_lost`): `ApprovalSurvives` holds only where no process stalls past its lease.
The journal needs two writers whose commits can cross and one reader; readers share nothing. The
tool loop's limits (10, 15 and 8 in the code) are each reached at 3, 3 and 1, and two calls per answer
suffice for one of them to wait while the other is left. Three CLI runs are a committed turn, one that
was left uncertain, and the one that has to cope with both. Four requests on a card are a creator, two
editors and a deletion. Three jobs on a document are the pipeline, a second run and a publication or
a third; deletions are not counted among them; four cuts are one more than three jobs make on
their own, for the copy. In the services two actors meet wherever two can, a limit is reached within
the instance (reply limit 3 with parts of 2, batches that do not divide the texts, more messages than
the cache of counts keeps), and retries use up what they may. What larger instances would add to the
services is covered by their proofs. In the memory files the buffer is as small as its threshold, so after
one consolidation that fails the next turn pushes the oldest out; a second failing turn may be refused
before it is taken in.

Type invariants are stated in the modules that have one and are proved (`RunRuntimeProofs`,
`KnowledgeProofs`, `ToolLoopProofs`, and as a part of every invariant below) or were used while developing; the runs spend their time on the other properties.

## 4. Fairness

Safety is checked without fairness. For liveness:

- `RunRuntime`: threads that have something to do are scheduled, a submission that has read goes
  on, an abandoned lease runs out (time passes) and every heartbeat thread keeps scanning
  (`_maintain_leases` catches every exception for exactly that reason). `RunsSettle` and
  `ConversationFreed` assume that some process is up again and again. Users owe nothing: no
  approval, no cancellation. `ConversationFreed` is not claimed for CLI runs, whose slot is kept on
  purpose while a child may live.
- `EventJournal`: worker threads and open transactions proceed, and a connected reader is served.
  Nobody owes a confirmation or a cancellation.
- `ToolLoop`: the loop's thread is scheduled and its provider answers or fails; a run whose thread
  is gone is interrupted in the end, which is what `RunsSettle` establishes.

The composed runs check no liveness. What matters there in that direction is stated as safety at the
end of an activity: a turn that was not weighed is still in a buffer (`TurnsWeighed`), retries stop at
their bound (`RetriesEnd`), a channel that was not stopped never leaves its connect loop and never has two heartbeats
(`KeepsConnecting`), a dispatch that is over has no CLI (`CliGone`).

## 5. Proofs

Eight modules hold theorems, checked by TLAPS to the last leaf. They use the named assumptions on
the constants and what a theorem states itself, so they hold for every number of processes, runs,
conversations, turns, requests, readers, calls, batches and texts.

*RunRuntime* - the inductive invariants, each first checked by TLC:

- `TypeCorrect`, `CapacityNeverLeaks`: `TypeOK` is not inductive alone, because the permit count
  stays in range only while it adds up with the futures; `CapacityInv` is `CapacityBalanced` and
  "what `_submit` prepares has no future yet", which it may rely on since the lock is held from
  the read to the commit.
- `StopNeverUndone`: an action property, from the guards of every status write.
- `OneClaimPerConversation`: `SlotInv`, every live claim of a conversation holds its slot and no
  two rows hold one.
- `OneThreadExecutes`: `ExecInv`, from the ways into a claim: a thread that executes either owns
  the live claim or was overtaken by a stop or an approval that no other thread can use.
- `ApprovedCallRunsOnce`, `ApprovalNamesTheCall`: `ApprovalInv` and `ConsentInv`, which bind the
  turn in the row, the consumed consent and the one thread that carries it.
- `StopBoundsTheLoop`: `LateInv`, a run of the tool loop that was stopped has started no tool yet while
  some thread is at the place from which one is started, and one at most otherwise. It needs
  `OneExecutor`: the thread that starts is the only one that could have passed the check.
- `LivingChildIsAlone`: `ChildInv`, a living child belongs to a CLI run whose row still holds the slot
  of its conversation, and an ended row never belongs to a queued run, so a late thread cannot start
  a child under a claim that is over. With `SlotInv` no other claim of the conversation is live.
- `InterruptionsAreTold` and `ApprovalsOutliveOwners` (an action property) assume that no process
  stalls past its lease (`MaySuspend = {}`), as the run does; under a stall the code breaks the second
  (`approval_lost`). `PromptInv` says what renewing in time gives: a thread at work owns its row,
  only the claim of a run on which no thread works runs out, and so nobody loses a claim and the
  silent write of `_enforce_interruption` is not reached. `TellingStep` proves both from it at once.

*EventJournal* - `NoEventSkipped` and `OnlyOwnerSpeaks`. `NoSkip` alone is not inductive: an append may
commit below a cursor that a reader has passed. `OneOpen` says that cannot be: the row lock keeps at
most one append open, and its cursor is the newest one handed out, above every committed event and so
above every reader's cursor (`Cursors`). `PageIsNext` shows that a page is a beginning of what comes
after the cursor, for any limit, by the monotonicity of cardinality; `Fenced` that an open fenced
append belongs to the owner of the claim. `StreamTellsOutcome` (`EndsTold`) rests on `Answers`: from the
moment a job knows its answer it is about to write it or has it in the journal or in its open append
(`Answered`), a job that is over has nothing left to commit (`Settles`), and a claim becomes finished
as the last thing its own job does (`ClosedLast`). So a stream that finds the claim finished can read
the outcome, and its last read brings it if one page holds all that is left. That is the hypothesis
`[]TailFits` (what was added between a stream's last page and its last read fits in one page), and it
cannot be dropped: with smaller pages TLC finds the stream that ends without its outcome. In
the instance of the run it holds by the number of events there are; in the code it says that no 200
events are written between two reads.

*Knowledge* - `SearchableWhenReady`, `NothingOrphaned` and `SettledAtRest`, under `~Overlap` (which is
what the run assumes too). `IInv` says for each request what it may rely on: where a kind of request can
be (`Kinded`), that a chunker about to cut has a status to send (`Cutting` - otherwise a deleted document
could get chunks), that who has deleted vectors holds the write lock (`Locked`), and that what a run
embeds is the document's cut, each batch fresh or kept (`Embedding`). `Alone` is the assumption at work.
`Frame` is what a step leaves to everyone else; `Bystander` proves once that a request which does not
move keeps what it relies on, so each action is left with its own request and document.

*ToolLoop* - four layers, each preserved with the help of the ones before it, one lemma per action:

- `Flow` (`TypeOK` and `Placed`): what is left of the batch in each phase and whether a reservation is
  open, from which `LedgerBalances` - the sums of `_validate` are kept by `Reserved` and `Resolved` only
  because a reservation is open exactly where the loop resolves one.
- `Account`: what the row shows of the ledger while a thread works (`Synced`: the charge is always in
  the row, also when a stop keeps later outcomes out of it), that the slot of the open reservation has
  no effect yet (`Slots`), the quotas, and that the checkpoint of a waiting run is the run as it stands
  (`Kept`). With it every step of the loop maps to a step of `ReservedEffects` or a stutter (`MapStep`):
  `LoopReserves` is the refinement for every budget, and it includes approvals, stops and lost threads.
- `Consent`: what a dangerous call needs before its handler is started; on the companion channel the
  effects plus the consent being used never exceed the confirmations. `ApprovalGivesOneCall` is this
  with `Kept` and the quotas.
- `Truth`: the model's proposals are charged, omitted or still in the batch (`Left`), started handlers
  are counted as done or failed (`Started`), and a reason to call a run complete is only written when
  the loop has left (`Shown`, `Final`). `ReceiptIsTrue` follows: a receipt without a gap has nothing
  failed, rejected, open or omitted, so what was charged is what was proposed.

*ContinuityProofs* - theorems of `Continuity`, that is of its `SpecAll`; each component has an invariant
over its own variables, one lemma per action, one step per conjunct.

- `TurnsAreWeighed` (`MemoryFiles`): `FilesInv` accounts for every turn on its way. A turn is handed over
  once (`Queued`); what a consolidation has in view, and what a buffer holds, was taken in (`Viewed`,
  `Buffered`); a consolidation at work holds the workspace lock and has exactly the buffer in view
  (`Locked`), so two that ended share no turn and leave none behind (`Parted`). No buffer
  holds a turn that was lost with its process, so a restart weighs nothing again. The bound on
  what a disk costs is an amortised count, `Views`: the older a turn in a buffer and the higher the
  count, the more broken consolidations have had it in view, because a count at the threshold starts
  a consolidation with every turn that comes. When a full buffer drops its oldest turn, that turn has
  been in more than `BufferCap - MinTurns` of them.
- `NotesAreKept`, an action property: merges only add, and a save from a page that is no longer
  the document's is refused; `Pages` is all it needs of the state.
- `CardAndVectorTogether` (`MemoryCards`), for editors that re-send a text as well. `CardsInv` relates what
  a request has loaded and prepared to the row: a request past its first write holds the lock, its draft
  keeps no summary of another text, and a request that creates or consolidates is the only one that
  knows the card.
- `SessionsAreHonest` (`CliSession`), all five parts. `SessionsInv` says that the dispatch under way holds
  the lease and is the one in the file (`Leased`), that a session exists once its run was handed over
  (`Made`), that what counts as seen was told to the session it is counted for (`Told`), and that
  the session an orphan may be in is apart from the settled checkpoint and from every dispatch (`Apart`):
  a crash leaves the entry unsettled, so nobody resumes from it, and a run's own session is new because
  a run is dispatched once. `Quoted` is the converse, from which telling once follows: what a session
  was told counts as seen by whoever resumes it (`Cursor`), what a dispatch quotes is none of it
  and has no repetition (`Picked`), because the history has one formal message per run (`Listed`).

*PlanProofs* - `PlanIsShown` (`PlanProjection` in `Services`): for calls of one kind the projection has applied
exactly the answered calls at the front, what waits is the rest in the order of the calls (`Projection`),
and after `n` calls the list it keeps is the tasks alive then, oldest first and with their last status,
and the plan shown the newest that could be shown (`PlanRun`). `ListGoesOn` takes the list over one call:
a task that is created joins at the end because its number is new, one that is deleted leaves a gap
that `RemoveAt` closes, one that changes stays in its place. `ListIsAfter` says that an increasing list of
those tasks *is* `After(n)`, by counting (`Enumerates`). The fold over the calls that are due is a recursive
function; that it exists and does what each step does is `FoldRuns` and `Projects`, by the least number
for which it would fail (`Climb`), since induction theorems that take an operator are out of reach.

*ServicesProofs* and *MessagingProofs* - theorems of `Services`, that is of `SpecAll`. For each component
an invariant over its own variables is shown to begin with `Init` of the component, to be kept by each of
its actions, and to imply the property; a step of another component leaves the variables alone.

- `NoTextIsLost`, `VectorsAreUniform` (`Embeddings`): the ranges that wait are adjacent, none is empty,
  the first begins where the vectors end and the last ends with the batch; while a job runs, the vectors
  in its session are of the model it resolved. `Costs` is an amortised count: a text may cost one
  request, its retries and one split, and what was spent with what the waiting ranges may still
  cost never exceeds that. `Quotient` says that the requests of a batch cover it.
- `ToolsTellTheTruth` (`WebTools`, `ShellJobs`): as long as a call goes on, all it has heard may pass,
  and it has not used its attempts up (`CallHolds`); how a command exited never changes, so a poll is
  still true when it is written down, in whatever order status, kill and the capturing thread write
  (`ShellInv`).
- `OneAnswer` (`ChatAnswer`): the ways of asking are ordered, images are dropped before the
  history is put into the prompt (`Later`); all takes follow that order, so none comes twice, and all
  segments are of the last one.
- `DispatchesEnd` (`CliProcess`): whoever is through `_kill_process_tree` saw the group gone or killed it, and
  only the one spawn starts a process (`KillInv`); the flags of parser and consumer are functions of the
  lines read so far (`Followed`), and who stops reading at the end has read them all (`Drained`), so
  the verdict is that of the last closing line (`VerdictInv`).
- `SessionsAreRetired` (`AuthSessions`): every living session of a changed password is `Explained` - the
  change is still under way or was cut off, or the request that opened it, or one it descends from, had
  begun before the sessions were revoked - and so is what a request under way is about to open
  (`OldRequests`). For the exchanges of a token `Exchanges` counts by cardinality. A living session has given as many
  successors as requests are about to retire it; a retired one can only get one more from each request
  that had read it while it lived. The bound is the number of requests, so there must be finitely many.
- `RowsAreKept` (`Workspace`): what an answer under way has seen are earlier rows of the conversation it will
  be stored in (`SawEarlier`), though rows are edited and deleted meanwhile; cards are made before
  their favourite is marked, and neither a card nor the version a favourite names is changed (`CardsInv`).
- `ChannelsLast` (`QQChannel`): what waits is newer than what arrived (`InOrder`), the reply being
  delivered is the newest that may have arrived, and an echo that is awaited answers no other reply
  (`InFlight`, `OnTheWire`); a reply arrives at most twice, since it is tried twice.
- `ChatsConsent`, `RepliesAreBounded` (`QQBridge`), for any number of chats, users and messages: a chat
  waits for the run it was shown last, and who is about to confirm a run is the person who asked, in the
  same chat (`ConsentInv`); who makes a conversation holds the lock of a chat that has none, and a
  run's conversation is its chat's (`TalkInv`); the count is what was published until it is evicted
  (`CountsInv`); who is owed a notice has no answer yet (`NoticeInv`).
- `EventsArePushed` (`Outreach`): what was pushed is logged, a ticker about to push a key has not pushed it
  (`AboutTo`), and what is logged is `Pursued`. `RetriesEnd` is a potential: the posts made, those
  that may begin and the sum of the counts that can still be read never exceed the bound (`RoomOne` for one
  retrier, `RoomTwo` with triangular numbers for two, whose stale counts may move a row back). It is
  stated for at most two overlapping retriers; for more nothing is claimed.

The assumptions on the constants of `Services` say of which values the constants are: `WebAssumption`
(seconds and numbers are natural, `retry_request` tries at least once, `max(1, ...)`, and 1 to 20
videos are asked for, which the tool clamps), `CliAssumption` (the three runners), `TabAssumption`
(finitely many requests), `BridgeAssumption` and `PushesAssumption` (messages, parts, limits and retries
are natural numbers, feeds are sequences of events, retriers are finitely many), `PlanAssumption` (numbers
are natural). `SizesAssumption` of `Embeddings` has batches of at least one text, which the service makes
sure of (`max(1, ...)`). Those of `Continuity`: `FilesAssumption` (a threshold of at least one turn and a buffer
that holds it, `max(min_turns, 6)`), `CardsAssumption` and `SessionsAssumption` (nothing is called
"none", and a message is of a CLI run or of another backend, not both).

*Only model-checked:*

- all liveness (`LoopEnds`, `RunsSettle`, `ConversationFreed`, `StreamsEnd`), which with ENABLED is
  beyond the prover;
- that the instance of `journal` meets `TailFits`, under which `EndsTold` is proved.

Every other property of a passing run is stated by a theorem.

## 6. Where the code and its documentation disagree

- `approval_lost`: a process suspended between saving an approval and its last event wakes and sets
  the run to interrupted; `docs/agent-task-lifecycle.md:20` says such an approval can still be given.
- `workflow_stop`: workflow and keyword plans heed `cancelled` but not `interrupted`;
  `docs/agent-task-lifecycle.md:26` says both keep an old executor from further tools.
- `run_stuck`: a confirmation whose claim was recovered before it began leaves the run running
  without a claim when it fails; the same line says a run cannot stay in progress for ever.
- `recall_stale`: an editor that re-sends the text it has loaded, as the notebook does on every save,
  leaves another's correction in the row with the vector of the old text, since the vector is computed
  from the request's text and the unchanged column is not written; `docs/companion-memory.md:21` says
  that editing updates the vector so that the old text is no longer found.
- `sessions_survive`: a login that read the account before its password was changed commits its session
  after the change has revoked all it found, and a refresh in the same place does so too;
  `docs/superpowers/specs/2026-04-12-standard-auth-design.md:578` says a password change invalidates
  all sessions.

Two more, which no run claims. `TimeoutKillsGroup` of `CliProcess` is refuted, see section 2. And the QQ
bridge looks for a word of consent first and anywhere in an answer (`bridge.py:287`), so that a refusal
which contains one counts as consent; `bridge.py:57` lists that very refusal among the cancel words.
This was found by reading.

## 7. What is not modelled

The outside world behind tools, MCP servers, model and embedding providers (a step that succeeds,
fails or is refused); prompts, parsing and ranking; single-row operations of one request each (roles,
members, listings, admin); rendering; schema and settings. Drift skills are a second, simpler tool loop
run by hand; sub-agents write a row that nothing reads after a crash; plugins are a registry filled
at start; the MCP client is a line protocol with one request at a time. Within modelled components:
the stored plan's compare-and-set, the first confirmation of a conclusion (two at once create two
documents), the library copy's readiness (publishing reads the status before it takes the lock), files
on disk, a crash inside a document's pipeline, the routes of models, the order of a workflow's DAG, the
local hash embedding, and the probe for installed CLIs. The hazards that no property covers say why.

## 8. Possible extensions

1. `ReservedEffects`: its own consequences (distinct slots, at most the budget) as theorems; that the
   loop implements it is proved.
2. `Knowledge`: the first confirmation of a conclusion, with two requests that find no document, and the
   publication of a copy, which reads a status before it has the write lock.
3. `Continuity`: what is left of `RecallCurrent` - the vector belongs to the text the last writer sent.
4. The tools that edit files: two runs that read, replace and write back one file.
5. Pure functions over bounded inputs: route resolution, the order of a workflow's DAG, the window
   of `conversation_context`, chunk boundaries with overlap.
