----------------------------- MODULE ShellJobs ------------------------------
(***************************************************************************)
(* A background job of shell_exec: the entry in _jobs, the thread that     *)
(* waits for the process and captures its output, and the calls of         *)
(* shell_status and shell_kill, which find the entry under the lock, and   *)
(* read and write its fields without.  A process the command leaves may    *)
(* hold its output open; only the command itself is ever killed.           *)
(***************************************************************************)
EXTENDS Naturals

CONSTANTS
    Asker       \* tool calls that look at the job or kill it, in threads of their own

VARIABLES
    process,    \* the command: "none", "running", or how it exited: "zero", "other" or "signal"
    held,       \* does something else hold its output open?
    entry,      \* _jobs[job]: its status, its return code and whether its output is there
    capture,    \* the capturing thread: "none", "waiting", "over", or on the way there
    at,         \* at[a]: where the call is
    polled,     \* polled[a]: what poll() said
    told        \* told[a]: what shell_status has answered so far

vars == <<process, held, entry, capture, at, polled, told>>

NoEntry == [status |-> "none", code |-> "none", output |-> FALSE]

Init ==
    /\ process = "none" /\ held = FALSE
    /\ entry = NoEntry
    /\ capture = "none"
    /\ at = [a \in Asker |-> "idle"]
    /\ polled = [a \in Asker |-> "none"]
    /\ told = [a \in Asker |-> NoEntry]

Gone == process \in {"zero", "other", "signal"}

-----------------------------------------------------------------------------
\* shell_exec in the background: the entry, then the thread.
Start ==
    /\ process = "none"
    /\ process' = "running"
    /\ entry' = [status |-> "running", code |-> "none", output |-> FALSE]
    /\ capture' = "waiting"
    /\ UNCHANGED <<held, at, polled, told>>

Exits ==
    /\ process = "running"
    /\ process' \in {"zero", "other"}
    /\ UNCHANGED <<held, entry, capture, at, polled, told>>

Holds ==
    /\ IF held THEN held' = FALSE ELSE process = "running" /\ held' = TRUE
    /\ UNCHANGED <<process, entry, capture, at, polled, told>>

\* kill() does nothing to a process that was reaped.
Killed == process' = IF process = "running" THEN "signal" ELSE process

-----------------------------------------------------------------------------
(* _capture_job, which fills the entry in under the lock.                  *)

\* Mutant: a signal, which is a negative code, counts as success.
VerdictOfSign(code) == IF code \in {"zero", "signal"} THEN "completed" ELSE "error"

Verdict(code) == IF code = "zero" THEN "completed" ELSE "error"

\* Mutant: the time-out is noted and nobody is killed.
CaptureExpires ==
    /\ capture = "waiting"
    /\ capture' = "expired"
    /\ UNCHANGED <<process, held, entry, at, polled, told>>

\* The process has exited and its output is closed; or the time is up.
CaptureReads ==
    /\ capture = "waiting" /\ Gone /\ ~held
    /\ capture' = "read"
    /\ entry' = [entry EXCEPT !.output = TRUE]
    /\ UNCHANGED <<process, held, at, polled, told>>

CaptureTimesOut ==
    /\ capture = "waiting"
    /\ capture' = "expired"
    /\ Killed
    /\ UNCHANGED <<held, entry, at, polled, told>>

CaptureSetsCode ==
    /\ capture = "read"
    /\ capture' = "coded"
    /\ entry' = [entry EXCEPT !.code = process]
    /\ UNCHANGED <<process, held, at, polled, told>>

\* Whatever the entry says by now.
CaptureSetsStatus ==
    /\ capture \in {"coded", "expired"}
    /\ capture' = "over"
    /\ entry' = [entry EXCEPT !.status =
                    IF capture = "coded" THEN Verdict(process) ELSE "timeout"]
    /\ UNCHANGED <<process, held, at, polled, told>>

Locked == capture \in {"read", "coded", "expired"}

-----------------------------------------------------------------------------
(* shell_status: it finds the entry under the lock, and goes on without.   *)

Step(a, from, to) == at[a] = from /\ at' = [at EXCEPT ![a] = to]

StatusFinds(a) ==
    /\ process # "none" /\ ~Locked
    /\ Step(a, "idle", "asking")
    /\ UNCHANGED <<process, held, entry, capture, polled, told>>

\* A job that still runs as far as the entry says is looked at.
StatusAsks(a) ==
    /\ Step(a, "asking", IF entry.status = "running" THEN "polling" ELSE "telling")
    /\ UNCHANGED <<process, held, entry, capture, polled, told>>

StatusPolls(a) ==
    /\ Step(a, "polling", IF Gone THEN "code" ELSE "telling")
    /\ polled' = [polled EXCEPT ![a] = IF Gone THEN process ELSE "none"]
    /\ UNCHANGED <<process, held, entry, capture, told>>

StatusSetsCode(a) ==
    /\ Step(a, "code", "status")
    /\ entry' = [entry EXCEPT !.code = polled[a]]
    /\ UNCHANGED <<process, held, capture, polled, told>>

StatusSetsStatus(a) ==
    /\ Step(a, "status", "telling")
    /\ entry' = [entry EXCEPT !.status = Verdict(polled[a])]
    /\ polled' = [polled EXCEPT ![a] = "none"]
    /\ UNCHANGED <<process, held, capture, told>>

\* The answer is made field by field.
StatusTellsStatus(a) ==
    /\ Step(a, "telling", "tellingCode")
    /\ told' = [told EXCEPT ![a] = [NoEntry EXCEPT !.status = entry.status]]
    /\ UNCHANGED <<process, held, entry, capture, polled>>

StatusTellsCode(a) ==
    /\ Step(a, "tellingCode", "tellingOutput")
    /\ told' = [told EXCEPT ![a].code = entry.code]
    /\ UNCHANGED <<process, held, entry, capture, polled>>

StatusTellsOutput(a) ==
    /\ Step(a, "tellingOutput", "idle")
    /\ told' = [told EXCEPT ![a].output = entry.output]
    /\ UNCHANGED <<process, held, entry, capture, polled>>

-----------------------------------------------------------------------------
(* shell_kill, which never asks what the entry says.                       *)

KillFinds(a) ==
    /\ process # "none" /\ ~Locked
    /\ Step(a, "idle", "killing")
    /\ UNCHANGED <<process, held, entry, capture, polled, told>>

KillSignals(a) ==
    /\ Step(a, "killing", "marking")
    /\ Killed
    /\ UNCHANGED <<held, entry, capture, polled, told>>

KillMarks(a) ==
    /\ Step(a, "marking", "coding")
    /\ entry' = [entry EXCEPT !.status = "killed"]
    /\ UNCHANGED <<process, held, capture, polled, told>>

KillSetsCode(a) ==
    /\ Step(a, "coding", "idle")
    /\ entry' = [entry EXCEPT !.code = "signal"]
    /\ UNCHANGED <<process, held, capture, polled, told>>

-----------------------------------------------------------------------------
Next ==
    \/ Start \/ Exits \/ Holds
    \/ CaptureReads \/ CaptureTimesOut \/ CaptureSetsCode \/ CaptureSetsStatus
    \/ \E a \in Asker :
        \/ StatusFinds(a) \/ StatusAsks(a) \/ StatusPolls(a)
        \/ StatusSetsCode(a) \/ StatusSetsStatus(a)
        \/ StatusTellsStatus(a) \/ StatusTellsCode(a) \/ StatusTellsOutput(a)
        \/ KillFinds(a) \/ KillSignals(a) \/ KillMarks(a) \/ KillSetsCode(a)

Spec == Init /\ [][Next]_vars

-----------------------------------------------------------------------------
(* A status call only ever says "completed" of a command that exited with  *)
(* zero, although the entry is written by three threads without a lock.    *)
SuccessIsTrue == \A a \in Asker : told[a].status = "completed" => process = "zero"

(* When the capturing thread is over - the output came, or the time did -  *)
(* the command is gone and its entry does not say that it runs.            *)
NotLeftRunning ==
    capture = "over" => Gone /\ entry.status # "running"
=============================================================================
