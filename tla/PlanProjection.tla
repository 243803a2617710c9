--------------------------- MODULE PlanProjection ---------------------------
(***************************************************************************)
(* The public work plan of a Claude Code run: ClaudeCodeRunner remembers   *)
(* the calls of TodoWrite, TaskCreate and TaskUpdate it reads, matches     *)
(* their results by id, in whatever order they come, and projects them in  *)
(* the order of the calls.  A list that cannot be shown is not shown in    *)
(* part, and the first kind of tool that shows a plan excludes the other.  *)
(*                                                                         *)
(* A task is named by the call that creates it; its subject is not         *)
(* modelled, and TodoWrite returns the list it was given.                  *)
(***************************************************************************)
EXTENDS Naturals, Sequences, SequencesExt, FiniteSets

CONSTANTS
    MaxShown,       \* steps of a plan, ten
    Remembered,     \* _MAX_CLAUDE_PLAN_CALLS
    MaxCalls        \* bound: calls of the CLI

VARIABLES
    calls,      \* calls the CLI made, in order
    results,    \* results[i]: what came back for calls[i]
    order,      \* _plan_order: calls whose projection is due
    registry,   \* _plan_tasks: tasks in the order they were created
    source,     \* _plan_source: "none", "todo" or "tasks"
    shown,      \* the plan published last
    closed      \* _plan_closed

vars == <<calls, results, order, registry, source, shown, closed>>

Status == {"pending", "in_progress", "completed"}

Call == [name : {"todo"}, task : {0}, to : Status]
        \cup [name : {"create"}, task : {0}, to : {"pending"}]
        \cup [name : {"update"}, task : 1..MaxCalls, to : Status \cup {"deleted"}]

Source(call) == IF call.name = "todo" THEN "todo" ELSE "tasks"

Init ==
    /\ calls = <<>> /\ results = <<>> /\ order = <<>>
    /\ registry = <<>> /\ source = "none" /\ shown = <<>>
    /\ closed = FALSE

-----------------------------------------------------------------------------
\* Ten steps at most, and one of them active.
Valid(steps) ==
    /\ Len(steps) <= MaxShown
    /\ Cardinality({i \in DOMAIN steps : steps[i].status = "in_progress"}) <= 1

Step(task, status) == [task |-> task, status |-> status]

\* The list a TodoWrite hands over: one step.
Todo(call) == <<Step(0, call.to)>>

\* An assistant line with a call: one that comes after the result of the CLI,
\* beyond the limit, or of the excluded kind is not remembered.
Issue(call) ==
    /\ Len(calls) < MaxCalls
    /\ calls' = Append(calls, call)
    /\ results' = Append(results, "open")
    /\ order' = IF /\ ~closed /\ Len(calls) < Remembered
                   /\ source \in {"none", Source(call)}
                THEN Append(order, Len(calls) + 1)
                ELSE order
    /\ UNCHANGED <<registry, source, shown, closed>>

-----------------------------------------------------------------------------
(* _apply_plan_result: what a successful call does to the view.            *)

Known(list, task) == \E j \in DOMAIN list : list[j].task = task

\* A task has one entry, which goes or gets the new status.
Updated(list, call) ==
    LET j == CHOOSE j \in DOMAIN list : list[j].task = call.task IN
    IF call.to = "deleted" THEN RemoveAt(list, j) ELSE [list EXCEPT ![j] = Step(call.task, call.to)]

\* A plan that cannot be shown leaves the one that is.
Shows(view, kind, steps) ==
    IF Valid(steps) THEN [view EXCEPT !.source = kind, !.shown = steps] ELSE view

\* A result without the structured part - several came in one message - says
\* nothing about tasks.
Apply(view, i) ==
    LET call == calls[i]
        list == IF call.name = "create" THEN Append(view.registry, Step(i, "pending"))
                                        ELSE Updated(view.registry, call)
    IN
    CASE results'[i] = "failed" \/ view.source \notin {"none", Source(call)}   -> view
      [] call.name = "todo"                                                    -> Shows(view, "todo", Todo(call))
      [] results'[i] = "bare"                                                  -> view
      [] call.name = "update" /\ ~Known(view.registry, call.task)              -> view
      [] OTHER -> Shows([view EXCEPT !.registry = list], "tasks", list)

View == [registry |-> registry, source |-> source, shown |-> shown]

\* The calls at the front of the order whose results are there.
Due ==
    CHOOSE n \in 0..Len(order) :
        /\ \A k \in 1..n : results'[order[k]] # "open"
        /\ n < Len(order) => results'[order[n + 1]] = "open"

\* The calls of front are applied one after the other.
Projected(front) ==
    LET view[k \in 0..Len(front)] == IF k = 0 THEN View ELSE Apply(view[k - 1], front[k])
        last == view[Len(front)]
    IN  registry' = last.registry /\ source' = last.source /\ shown' = last.shown

Answer(i, outcome) ==
    /\ results[i] = "open"
    /\ results' = [results EXCEPT ![i] = outcome]
    /\ UNCHANGED <<calls, closed>>

\* Mutant: a result is projected when it comes.
ReceiveAtOnce(i, outcome) ==
    /\ Answer(i, outcome)
    /\ Projected(SelectSeq(order, LAMBDA k : k = i))
    /\ order' = SelectSeq(order, LAMBDA k : k # i)

\* A user line with a result: everything that is due is projected.
Receive(i, outcome) ==
    /\ Answer(i, outcome)
    /\ Projected(SubSeq(order, 1, Due))
    /\ order' = SubSeq(order, Due + 1, Len(order))

\* The result of the CLI closes the plan.
Close ==
    /\ ~closed
    /\ closed' = TRUE
    /\ order' = <<>>
    /\ UNCHANGED <<calls, results, registry, source, shown>>

\* A task the CLI names in an update exists: it was created by an earlier call.
Next ==
    \/ \E call \in Call :
        /\ call.name = "update" => call.task \in DOMAIN calls /\ calls[call.task].name = "create"
        /\ Issue(call)
    \/ \E i \in DOMAIN calls, outcome \in {"full", "bare", "failed"} : Receive(i, outcome)
    \/ Close

Spec == Init /\ [][Next]_vars

-----------------------------------------------------------------------------
(* While calls are of one kind, the plan that is shown is the newest one   *)
(* that can be shown among those the CLI had after its first n calls, for  *)
(* the n calls that are remembered and answered without a gap - however    *)
(* their results were reordered.  After(n) says what the CLI had: the      *)
(* tasks created and not deleted, each with its last status.               *)
Told(i) == results[i] = "full"

LastUpdate(task, n) ==
    LET updates == {i \in (task + 1)..n : Told(i) /\ calls[i].name = "update" /\ calls[i].task = task}
        ends    == {i \in updates : calls[i].to = "deleted"}
    IN  CASE ends # {}               -> "deleted"
          [] ends = {} /\ updates = {} -> "pending"
          [] OTHER                   -> calls[CHOOSE i \in updates : \A j \in updates : j <= i].to

\* The k-th of a set of numbers.
Kth(S, k) == CHOOSE t \in S : Cardinality({u \in S : u < t}) = k - 1

After(n) ==
    LET alive == {t \in 1..n : Told(t) /\ calls[t].name = "create" /\ LastUpdate(t, n) # "deleted"}
    IN  [k \in 1..Cardinality(alive) |-> Step(Kth(alive, k), LastUpdate(Kth(alive, k), n))]

\* Calls beyond the limit are never shown.
Kept == IF Len(calls) <= Remembered THEN Len(calls) ELSE Remembered

Answered ==
    CHOOSE n \in 0..Kept :
        /\ \A i \in 1..n : results[i] # "open"
        /\ n < Kept => results[n + 1] = "open"

ShownIsReplayed ==
    ~closed /\ (\A i \in DOMAIN calls : calls[i].name # "todo") =>
        \E n \in 0..Answered :
            /\ Valid(After(n)) /\ shown = After(n)
            /\ \A m \in (n + 1)..Answered : Valid(After(m)) => After(m) = After(n)
=============================================================================
