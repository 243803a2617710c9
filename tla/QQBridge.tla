------------------------------ MODULE QQBridge ------------------------------
(***************************************************************************)
(* The QQ adapter's bridge between chats and the agent API.  Every message *)
(* of a chat becomes a task of one event loop; a step of this module is    *)
(* what a task does between two awaits that really wait.  A message either *)
(* answers the confirmation its chat is waiting for or becomes a run: the  *)
(* official channel asks for the whole answer, NapCat follows the stream   *)
(* and falls back to the whole answer when the connection fails.           *)
(*                                                                         *)
(* The agent server is the environment: a run is created or refused, runs, *)
(* and ends, waits for approval or fails, whether or not somebody listens. *)
(***************************************************************************)
EXTENDS Naturals, Sequences, FiniteSets

CONSTANTS
    MaxMessages, ChatOf, UserOf,    \* bound: the messages, numbered as they come in (see HasRoom)
    Says,           \* Says[m]: what m may say, of "task", "confirm", "cancel", "refuse" (不执行)
    Welcome,        \* messages from people and groups on the allow lists
    Unlucky,        \* kinds and messages for which the server, or the way to it, may fail
    Parts,          \* pieces of 3500 characters an answer takes
    Limit,          \* _QQBOT_PASSIVE_REPLY_LIMIT
    CacheLimit      \* _QQBOT_REPLY_COUNT_CACHE_LIMIT

VARIABLES
    kind,           \* the channel of the adapter: "qqbot", the official one, or "napcat"
    inbox,          \* the bus's inbound queue
    task,           \* task[m]: what the task of m is at
    held,           \* held[m]: the run m confirms or cancels
    again,          \* messages whose run is asked for again
    pending,        \* pending[c]: the run that waits for a confirmation in chat c
    conversation,   \* conversation[c]: the conversation of c, named by who made it
    convLock,       \* convLock[c]: who is making it
    notice,         \* messages whose processing notice is still to come
    counts,         \* counts[m]: replies counted for m
    counted,        \* the keys of the counts, oldest first
    forgotten,      \* history: messages whose count was evicted
    sent,           \* history: sent[m], replies published to an official message
    answered,       \* messages whose answer, or a piece of it, was published
    run,            \* run[r]: the server's runs
    asked,          \* history: asked[c], the last run whose prompt chat c was shown
    consent         \* history: consent[r], the messages that confirmed r

vars == <<kind, inbox, task, held, again, pending, conversation, convLock, notice, counts, counted,
          forgotten, sent, answered, run, asked, consent>>

server  == <<run, consent>>
replies == <<counts, counted, forgotten, sent, answered>>
convs   == <<conversation, convLock>>

None  == 0
NoRun == <<0, 0>>
Message == 1..MaxMessages
Official == IF kind = "qqbot" THEN Message ELSE {}   \* their replies are counted
Chat == {ChatOf[m] : m \in Message}
Run  == Message \X {1, 2}           \* the first and the second run of a message
RunOf(m) == <<m, IF m \in again THEN 2 ELSE 1>>
Requester(r) == UserOf[r[1]]

Init ==
    /\ kind \in {"qqbot", "napcat"}
    /\ inbox = <<>>
    /\ task = [m \in Message |-> "away"]
    /\ held = [m \in Message |-> NoRun]
    /\ again = {}
    /\ pending = [c \in Chat |-> NoRun]
    /\ conversation = [c \in Chat |-> None]
    /\ convLock = [c \in Chat |-> None]
    /\ notice = {}
    /\ counts = [m \in Message |-> 0]
    /\ counted = <<>> /\ forgotten = {}
    /\ sent = [m \in Message |-> 0]
    /\ answered = {}
    /\ run = [r \in Run |-> [status |-> "absent", conv |-> None]]
    /\ asked = [c \in Chat |-> NoRun]
    /\ consent = [r \in Run |-> {}]

To(m, at) == task' = [task EXCEPT ![m] = at]

Fails(m) == <<kind, m>> \in Unlucky

\* Bound: as many messages come in, and runs are asked for again, as there are messages.
HasRoom == Cardinality({m \in Message : task[m] # "away"}) + Cardinality(again) < MaxMessages

-----------------------------------------------------------------------------
(* Publishing replies. *)

Room(m) == Limit - counts[m]

\* Mutant: an answer of several pieces is sent whole.
PublishWhole(m, n) ==
    /\ sent' = [sent EXCEPT ![m] = IF m \in Official THEN @ + n ELSE @]
    /\ counts' = [counts EXCEPT ![m] = IF m \in Official /\ Room(m) > 0 THEN @ + 1 ELSE @]
    /\ UNCHANGED <<counted, forgotten>>

\* n replies to an official message are published as far as its count has
\* room.  A new key may push the oldest one out of the cache.
Publish(m, n) ==
    LET fit  == IF m \notin Official THEN 0 ELSE IF n <= Room(m) THEN n ELSE Room(m)
        full == fit > 0 /\ counts[m] = 0 /\ Len(counted) >= CacheLimit
        old  == IF full THEN {Head(counted)} ELSE {}
    IN
    /\ sent' = [sent EXCEPT ![m] = @ + fit]
    /\ counted' = IF fit > 0 /\ counts[m] = 0
                  THEN Append(IF full THEN Tail(counted) ELSE counted, m) ELSE counted
    /\ forgotten' = forgotten \cup old
    /\ counts' = [x \in Message |-> IF x \in old THEN 0
                                    ELSE IF x = m THEN counts[x] + fit ELSE counts[x]]

Tell(m)    == Publish(m, 1) /\ UNCHANGED answered
Answers(m) == Publish(m, Parts) /\ answered' = answered \cup {m}

-----------------------------------------------------------------------------
(* A message comes in. *)

Arrive(m) ==
    /\ task[m] = "away"
    /\ HasRoom
    /\ \A x \in Message : x < m => task[x] # "away"
    /\ IF m \in Welcome THEN To(m, "queued") /\ inbox' = Append(inbox, m)
                        ELSE To(m, "done") /\ UNCHANGED inbox
    /\ UNCHANGED <<kind, held, again, pending, convs, notice, replies, server, asked>>

\* Words of consent are sought first, anywhere in the text: a refusal that
\* contains one is a consent.
Confirming(word) == word \in {"confirm", "refuse"}

\* The main loop makes a task of the oldest message.  It answers the pending
\* confirmation of its chat if its sender asked for that run; any other word of
\* theirs dismisses the confirmation.
Handle ==
    LET m == Head(inbox)
        c == ChatOf[m]
        mine == pending[c] # NoRun /\ Requester(pending[c]) = UserOf[m]
    IN
    /\ inbox # <<>>
    /\ inbox' = Tail(inbox)
    /\ \/ /\ mine
          /\ held' = [held EXCEPT ![m] = pending[c]]
          /\ \E word \in Says[m] \ {"task"} :
                To(m, IF Confirming(word) THEN "confirming" ELSE "cancelling")
          /\ UNCHANGED <<pending, notice>>
       \/ /\ mine => "task" \in Says[m]
          /\ pending' = IF mine THEN [pending EXCEPT ![c] = NoRun] ELSE pending
          /\ To(m, IF m \in Official THEN "conversation" ELSE "thinking")
          /\ notice' = IF m \in Official THEN notice \cup {m} ELSE notice
          /\ UNCHANGED held
    /\ UNCHANGED <<kind, again, convs, replies, server, asked>>

-----------------------------------------------------------------------------
(* Confirming and cancelling. *)

ConfirmNotice(m) ==
    /\ task[m] = "confirming"
    /\ Tell(m)
    /\ To(m, "approving")
    /\ UNCHANGED <<kind, inbox, held, again, pending, convs, notice, server, asked>>

\* The server takes the confirmation of a run that waits.
Approve(m) ==
    LET r == held[m] IN
    /\ task[m] = "approving"
    /\ IF run[r].status = "waiting"
       THEN /\ run' = [run EXCEPT ![r].status = "running"]
            /\ consent' = [consent EXCEPT ![r] = @ \cup {m}]
       ELSE UNCHANGED server
    /\ To(m, "approved")
    /\ UNCHANGED <<kind, inbox, held, again, pending, convs, notice, replies, asked>>

\* The call returns, or fails; what the chat waits for now is dropped.
Approved(m) ==
    /\ task[m] = "approved"
    /\ \/ run[held[m]].status = "completed" /\ Answers(m)
       \/ Tell(m)
    /\ pending' = [pending EXCEPT ![ChatOf[m]] = NoRun]
    /\ To(m, "done")
    /\ UNCHANGED <<kind, inbox, held, again, convs, notice, server, asked>>

\* The run is not told: it goes on waiting.
Cancel(m) ==
    /\ task[m] = "cancelling"
    /\ Tell(m)
    /\ pending' = [pending EXCEPT ![ChatOf[m]] = NoRun]
    /\ To(m, "done")
    /\ UNCHANGED <<kind, inbox, held, again, convs, notice, server, asked>>

-----------------------------------------------------------------------------
(* The conversation of a chat. *)

Thinking(m) ==
    /\ task[m] = "thinking"
    /\ Tell(m)
    /\ To(m, "conversation")
    /\ UNCHANGED <<kind, inbox, held, again, pending, convs, notice, server, asked>>

\* A conversation that is known is used; whoever finds the lock taken waits.
LookUp(m) ==
    LET c == ChatOf[m]
        free == conversation[c] = None /\ convLock[c] = None
    IN
    /\ task[m] = "conversation"
    /\ To(m, IF conversation[c] # None THEN "posting" ELSE IF free THEN "making" ELSE "locking")
    /\ convLock' = IF free THEN [convLock EXCEPT ![c] = m] ELSE convLock
    /\ UNCHANGED <<kind, inbox, held, again, pending, conversation, notice, replies, server, asked>>

\* Mutant: whoever gets the lock makes a conversation.
LockUnchecked(m) ==
    /\ task[m] = "locking"
    /\ convLock[ChatOf[m]] = None
    /\ To(m, "making")
    /\ convLock' = [convLock EXCEPT ![ChatOf[m]] = m]
    /\ UNCHANGED <<kind, inbox, held, again, pending, conversation, notice, replies, server, asked>>

\* Whoever has waited for the lock looks again.
Lock(m) ==
    LET c == ChatOf[m] IN
    /\ task[m] = "locking"
    /\ convLock[c] = None
    /\ IF conversation[c] # None
       THEN To(m, "posting") /\ UNCHANGED convLock
       ELSE To(m, "making") /\ convLock' = [convLock EXCEPT ![c] = m]
    /\ UNCHANGED <<kind, inbox, held, again, pending, conversation, notice, replies, server, asked>>

\* The server makes it, or the call fails and the run goes without one.
Make(m) ==
    LET c == ChatOf[m] IN
    /\ task[m] = "making"
    /\ \/ conversation' = [conversation EXCEPT ![c] = m]
       \/ Fails(m) /\ UNCHANGED conversation
    /\ convLock' = [convLock EXCEPT ![c] = None]
    /\ To(m, IF conversation'[c] = m THEN "posting" ELSE "without")
    /\ UNCHANGED <<kind, inbox, held, again, pending, notice, replies, server, asked>>

-----------------------------------------------------------------------------
(* Runs. *)

Busy(conv) == conv # None /\ \E r \in Run : run[r].status = "running" /\ run[r].conv = conv

Streams(m) == m \notin Official /\ m \notin again

\* The run is created; a conversation that is busy, and any other error of the
\* server, refuses it.  A refused first run ends the message.
Post(m) ==
    LET conv == IF task[m] = "posting" THEN conversation[ChatOf[m]] ELSE None IN
    /\ task[m] \in {"posting", "without"}
    /\ \/ /\ ~Busy(conv)
          /\ run' = [run EXCEPT ![RunOf(m)] = [status |-> "running", conv |-> conv]]
          /\ To(m, IF Streams(m) THEN "streaming" ELSE "awaiting")
          /\ UNCHANGED <<notice, replies>>
       \/ /\ Busy(conv) \/ Fails(m)
          /\ Tell(m)
          /\ notice' = notice \ {m}
          /\ To(m, "done")
          /\ UNCHANGED run
    /\ UNCHANGED <<kind, inbox, held, again, pending, convs, consent, asked>>

\* On the server.
RunEnds(r) ==
    /\ run[r].status = "running"
    /\ \E s \in {"completed", "waiting"} \cup IF Fails(r[1]) THEN {"failed"} ELSE {} :
        run' = [run EXCEPT ![r].status = s]
    /\ UNCHANGED <<kind, inbox, task, held, again, pending, convs, notice, replies, consent, asked>>

\* Nothing was heard of the first run: it is asked for again, and for the
\* whole answer this time.  After the second try the sender is told.
Unheard(m) ==
    /\ Fails(m)
    /\ task[m] \in {"streaming", "awaiting"}
    /\ \/ /\ m \notin again
          /\ HasRoom
          /\ again' = again \cup {m}
          /\ To(m, "conversation")
          /\ notice' = notice \cup {m}
          /\ answered' = answered \ {m}
          /\ UNCHANGED <<counts, counted, forgotten, sent>>
       \/ /\ m \in again
          /\ To(m, "done")
          /\ notice' = notice \ {m}
          /\ Tell(m)
          /\ UNCHANGED again
    /\ UNCHANGED <<kind, inbox, held, pending, convs, server, asked>>

\* Mutant: a prompt does not replace the confirmation the chat waits for.
AskFirst(m) == pending' = [pending EXCEPT ![ChatOf[m]] = IF @ = NoRun THEN RunOf(m) ELSE @]

\* The chat is shown what the run wants and waits for its confirmation.
Ask(m) == pending' = [pending EXCEPT ![ChatOf[m]] = RunOf(m)]

\* The stream shows pieces of the answer,
Progress(m) ==
    /\ task[m] = "streaming"
    /\ m \notin answered
    /\ run[RunOf(m)].status \in {"running", "completed"}
    /\ Publish(m, 1)
    /\ answered' = answered \cup {m}
    /\ UNCHANGED <<kind, inbox, task, held, again, pending, convs, notice, server, asked>>

\* What is shown at the end of a run: its answer, an error, or the prompt.
Outcome(m) ==
    LET s == run[RunOf(m)].status IN
    /\ s \in {"completed", "failed", "waiting"}
    /\ IF s = "waiting"
       THEN Ask(m) /\ asked' = [asked EXCEPT ![ChatOf[m]] = RunOf(m)]
       ELSE UNCHANGED <<pending, asked>>
    /\ To(m, "done")

\* and its end.  An answer whose pieces were shown is not repeated.
StreamEnds(m) ==
    /\ task[m] = "streaming"
    /\ Outcome(m)
    /\ \/ run[RunOf(m)].status = "completed" /\ Answers(m)
       \/ run[RunOf(m)].status # "completed" /\ Tell(m)
       \/ run[RunOf(m)].status = "completed" /\ m \in answered /\ UNCHANGED replies
    /\ UNCHANGED <<kind, inbox, held, again, convs, notice, server>>

\* Mutant: the notice is not called off.
ResultWithoutCancel(m) ==
    /\ task[m] = "awaiting"
    /\ Outcome(m)
    /\ IF run[RunOf(m)].status = "completed" THEN Answers(m) ELSE Tell(m)
    /\ UNCHANGED <<kind, inbox, held, again, convs, notice, server>>

\* The whole result: the notice is called off, then the tools that were used
\* and the outcome are published in one go.
Result(m) ==
    /\ task[m] = "awaiting"
    /\ Outcome(m)
    /\ notice' = notice \ {m}
    /\ \E tools \in {0, 1} :
          IF run[RunOf(m)].status = "completed"
          THEN Publish(m, tools + Parts) /\ answered' = answered \cup {m}
          ELSE Publish(m, tools + 1) /\ UNCHANGED answered
    /\ UNCHANGED <<kind, inbox, held, again, convs, server>>

\* The result is late.
Notice(m) ==
    /\ m \in notice
    /\ Tell(m)
    /\ notice' = notice \ {m}
    /\ UNCHANGED <<kind, inbox, task, held, again, pending, convs, server, asked>>

-----------------------------------------------------------------------------
Next ==
    \/ Handle
    \/ \E m \in Message :
        \/ Arrive(m)
        \/ ConfirmNotice(m) \/ Approve(m) \/ Approved(m) \/ Cancel(m)
        \/ Thinking(m) \/ LookUp(m) \/ Lock(m) \/ Make(m)
        \/ Post(m) \/ Unheard(m) \/ Progress(m) \/ StreamEnds(m) \/ Result(m) \/ Notice(m)
    \/ \E r \in Run : RunEnds(r)

Spec == Init /\ [][Next]_vars

-----------------------------------------------------------------------------
(* A dangerous run goes on only when the person who started it answers in  *)
(* the chat where its prompt was the last one shown: a prompt that comes   *)
(* later replaces it, and nobody confirms what they were not asked.        *)
AskedBeforeApproved ==
    /\ \A c \in Chat : pending[c] # NoRun => pending[c] = asked[c]
    /\ \A r \in Run : \A m \in consent[r] :
          UserOf[m] = Requester(r) /\ ChatOf[m] = ChatOf[r[1]]

(* The platform accepts a limited number of replies to one message.  The   *)
(* notices, prompts and pieces of all tasks stay below it, as long as the  *)
(* count of the message is not evicted from the cache.                     *)
RepliesWithinLimit == \A m \in Official \ forgotten : sent[m] <= Limit

(* Once the answer is there, nobody is still to be told to wait for it.    *)
NoticeBeforeAnswer == notice \cap answered = {}

(* Messages that come in together share one conversation.                  *)
OneConversation ==
    \A r, x \in Run :
        /\ ChatOf[r[1]] = ChatOf[x[1]]
        /\ run[r].conv # None /\ run[x].conv # None
        => run[r].conv = run[x].conv

=============================================================================
