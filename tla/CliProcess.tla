----------------------------- MODULE CliProcess -----------------------------
(***************************************************************************)
(* One dispatch to a coding agent: BaseCliAgentRunner.run starts the CLI   *)
(* in a process group of its own, hands it the prompt, reads its lines     *)
(* until nobody can write any more, and a watchdog thread kills the group  *)
(* when the time is over.  The agent service follows the events and        *)
(* decides from them what became of the run.                               *)
(*                                                                         *)
(* What a line says of the result is up to the parser of the backend.  The *)
(* CLI and a process it may leave in its group are the environment.        *)
(* Time is not counted: a limit may be reached as soon as it runs.         *)
(***************************************************************************)
EXTENDS Naturals, Sequences

CONSTANTS
    Backends,       \* the CLIs a run may use, of "claude", "codex" and "pi"
    MaxLines,       \* bound: lines the CLI writes
    Large           \* does the prompt exceed the buffer of a pipe?

VARIABLES
    backend,    \* the CLI of this run
    leader,     \* the CLI: "none", "running", "mute" (stdout closed) or "exited"
    child,      \* is another process of its group alive that holds stdout?
    hasRead,    \* the CLI has read its prompt
    pipe,       \* lines written and not read yet
    written,    \* history: all lines written
    reader,     \* where the generator is
    watchdog,   \* "off", "armed", "fired" or "cancelled"
    timedOut,   \* timed_out["flag"]
    killing,    \* killing[k]: where _kill_process_tree of k is
    stumbled,   \* _failure_text of the parser of Pi
    sawResult,  \* saw_result
    abandoned,  \* the consumer closed the generator
    verdict     \* result_ok of the consumer: "none", "yes" or "no"

vars == <<backend, leader, child, hasRead, pipe, written, reader, watchdog, timedOut, killing,
          stumbled, sawResult, abandoned, verdict>>

cli  == <<backend, leader, child, hasRead, pipe, written>>
told == <<stumbled, sawResult, abandoned, verdict>>

Killer == {"reader", "watchdog"}

Init ==
    /\ backend \in Backends
    /\ leader = "none" /\ child = FALSE /\ hasRead = FALSE
    /\ pipe = <<>> /\ written = <<>>
    /\ reader = "start" /\ watchdog = "off" /\ timedOut = FALSE
    /\ killing = [k \in Killer |-> "no"]
    /\ stumbled = FALSE /\ sawResult = FALSE /\ abandoned = FALSE /\ verdict = "none"

Alive == leader \in {"running", "mute"}

-----------------------------------------------------------------------------
(* What parse_line makes of a line, "yes", "no" or nothing about the       *)
(* result.  Pi remembers a message that ended in an error until another    *)
(* message, or the agent, ends; "agent_end, failed" ends with one that was *)
(* not announced.                                                          *)
Lines(cliName) ==
    CASE cliName = "claude" -> {"text", "result", "result, is_error"}
      [] cliName = "codex"  -> {"text", "turn.completed", "turn.failed"}
      [] cliName = "pi"     -> {"text", "message_end", "message_end, failed", "agent_end", "agent_end, failed"}

ClaudeSays(line) ==
    CASE line = "result" -> "yes" [] line = "result, is_error" -> "no" [] OTHER -> "none"

CodexSays(line) ==
    CASE line = "turn.completed" -> "yes" [] line = "turn.failed" -> "no" [] OTHER -> "none"

PiSays(line) ==
    CASE line = "agent_end"         -> IF stumbled THEN "no" ELSE "yes"
      [] line = "agent_end, failed" -> "no"
      [] OTHER                      -> "none"

Says(line) ==
    CASE backend = "claude" -> ClaudeSays(line)
      [] backend = "codex"  -> CodexSays(line)
      [] backend = "pi"     -> PiSays(line)

\* Mutant: a retry that succeeded does not clear the error.
StumblesForGood(line) ==
    \/ line = "message_end, failed"
    \/ stumbled /\ line \in {"text", "message_end"}

Stumbles(line) ==
    \/ line = "message_end, failed"
    \/ stumbled /\ line = "text"

-----------------------------------------------------------------------------
(* The processes.                                                          *)

Writes ==
    /\ leader = "running" /\ Len(written) < MaxLines
    /\ \E line \in Lines(backend) :
        /\ pipe' = Append(pipe, line)
        /\ written' = Append(written, line)
    /\ UNCHANGED <<backend, leader, child, hasRead, reader, watchdog, timedOut, killing, told>>

ReadsPrompt ==
    /\ Alive /\ ~hasRead
    /\ hasRead' = TRUE
    /\ UNCHANGED <<backend, leader, child, pipe, written, reader, watchdog, timedOut, killing, told>>

Forks ==
    /\ leader = "running" /\ ~child
    /\ child' = TRUE
    /\ UNCHANGED <<backend, leader, hasRead, pipe, written, reader, watchdog, timedOut, killing, told>>

Exits ==
    /\ \/ leader = "running" /\ leader' \in {"mute", "exited"} /\ UNCHANGED child
       \/ leader = "mute" /\ leader' = "exited" /\ UNCHANGED child
       \/ child /\ child' = FALSE /\ UNCHANGED leader
    /\ UNCHANGED <<backend, hasRead, pipe, written, reader, watchdog, timedOut, killing, told>>

-----------------------------------------------------------------------------
(* The generator.                                                          *)

\* A CLI that cannot be started raises, and the run fails.
Spawn ==
    /\ reader = "start"
    /\ \/ reader' = "feeding" /\ leader' = "running" /\ UNCHANGED verdict
       \/ reader' = "over" /\ verdict' = "no" /\ UNCHANGED leader
    /\ UNCHANGED <<backend, child, hasRead, pipe, written, watchdog, timedOut, killing, stumbled,
                   sawResult, abandoned>>

\* The prompt is written before the watchdog is armed: a large one waits until
\* the CLI has read it, or is gone.
Feed ==
    /\ reader = "feeding"
    /\ Large => hasRead \/ ~Alive
    /\ reader' = "reading"
    /\ watchdog' = "armed"
    /\ UNCHANGED <<cli, timedOut, killing, told>>

\* The next line; a result sets the verdict.
Read ==
    /\ reader = "reading" /\ pipe # <<>>
    /\ pipe' = Tail(pipe)
    /\ stumbled' = Stumbles(Head(pipe))
    /\ LET said == Says(Head(pipe)) IN
        /\ sawResult' = (sawResult \/ said # "none")
        /\ verdict' = IF said = "none" THEN verdict ELSE said
    /\ UNCHANGED <<backend, leader, child, hasRead, written, reader, watchdog, timedOut, killing, abandoned>>

\* The run was cancelled, or recording the event failed: the generator is closed.
Abandon ==
    /\ reader = "reading"
    /\ abandoned' = TRUE
    /\ reader' = "cleanup"
    /\ UNCHANGED <<cli, watchdog, timedOut, killing, stumbled, sawResult, verdict>>

Disarmed == watchdog' = IF watchdog = "armed" THEN "cancelled" ELSE watchdog

\* Nobody holds stdout any more.
EndOfFile ==
    /\ reader = "reading"
    /\ pipe = <<>> /\ leader # "running" /\ ~child
    /\ reader' = "waiting"
    /\ Disarmed
    /\ UNCHANGED <<cli, timedOut, killing, told>>

\* The CLI has exited, or ten seconds are over.
Waited ==
    /\ reader = "waiting"
    /\ reader' = "cleanup"
    /\ UNCHANGED <<cli, watchdog, timedOut, killing, told>>

CleanUp ==
    /\ reader = "cleanup" /\ killing["reader"] = "no"
    /\ Disarmed
    /\ killing' = [killing EXCEPT !["reader"] = "look"]
    /\ UNCHANGED <<cli, reader, timedOut, told>>

\* Mutant: a time-out is an error, whatever was read.
ConcludeStrictly ==
    /\ reader = "cleanup" /\ killing["reader"] = "over"
    /\ reader' = "over"
    /\ verdict' = IF ~abandoned /\ (timedOut \/ ~sawResult) THEN "no" ELSE verdict
    /\ UNCHANGED <<cli, watchdog, timedOut, killing, stumbled, sawResult, abandoned>>

\* Without a result a time-out, and any exit, is an error; after a result a
\* time-out is a warning.
Conclude ==
    /\ reader = "cleanup" /\ killing["reader"] = "over"
    /\ reader' = "over"
    /\ verdict' = IF ~abandoned /\ ~sawResult THEN "no" ELSE verdict
    /\ UNCHANGED <<cli, watchdog, timedOut, killing, stumbled, sawResult, abandoned>>

-----------------------------------------------------------------------------
(* The watchdog, and _kill_process_tree, which both threads call.          *)

Fires ==
    /\ watchdog = "armed"
    /\ watchdog' = "fired"
    /\ timedOut' = TRUE
    /\ killing' = [killing EXCEPT !["watchdog"] = "look"]
    /\ UNCHANGED <<cli, reader, told>>

At(k, step) == killing' = [killing EXCEPT ![k] = step]

\* A CLI that has exited is left alone, and so is its group.
Look(k) ==
    /\ killing[k] = "look"
    /\ At(k, IF Alive THEN "term" ELSE "over")
    /\ UNCHANGED <<cli, reader, watchdog, timedOut, told>>

\* SIGTERM to the group, which its processes may ignore.  The group of a CLI
\* that the other thread has reaped is not found.
Terminate(k) ==
    /\ killing[k] = "term"
    /\ leader' \in IF Alive THEN {leader, "exited"} ELSE {leader}
    /\ child' \in {child, FALSE}
    /\ At(k, "patience")
    /\ UNCHANGED <<backend, hasRead, pipe, written, reader, watchdog, timedOut, told>>

\* Mutant: nothing follows SIGTERM.
KillNobody(k) ==
    /\ killing[k] = "patience"
    /\ At(k, "over")
    /\ UNCHANGED <<cli, reader, watchdog, timedOut, told>>

\* The CLI exits within three seconds, or the group gets SIGKILL.
Kill(k) ==
    /\ killing[k] = "patience"
    /\ At(k, "over")
    /\ \/ ~Alive /\ UNCHANGED <<leader, child>>
       \/ Alive /\ leader' = "exited" /\ child' = FALSE
    /\ UNCHANGED <<backend, hasRead, pipe, written, reader, watchdog, timedOut, told>>

-----------------------------------------------------------------------------
Next ==
    \/ Writes \/ ReadsPrompt \/ Forks \/ Exits
    \/ Spawn \/ Feed \/ Read \/ Abandon \/ EndOfFile \/ Waited \/ CleanUp \/ Conclude
    \/ Fires
    \/ \E k \in Killer : Look(k) \/ Terminate(k) \/ Kill(k)

Spec == Init /\ [][Next]_vars

-----------------------------------------------------------------------------
(* What the CLI said last about its result decides the run: an exit code,  *)
(* a watchdog that fires while the CLI cleans up, or the kill at the end   *)
(* never turns a result into a failure, and never makes one up.  Pi fails  *)
(* when the last message before its end did, not when an earlier one did.  *)
Ends(line) == line \in {"result", "result, is_error", "turn.completed", "turn.failed",
                        "agent_end", "agent_end, failed"}
Last == CHOOSE i \in DOMAIN written : Ends(written[i]) /\ \A j \in DOMAIN written : Ends(written[j]) => j <= i

ResultStands ==
    reader = "over" /\ ~abandoned =>
        /\ verdict \in {"yes", "no"}
        /\ (verdict = "yes") =
              /\ \E i \in DOMAIN written : Ends(written[i])
              /\ written[Last] \in {"result", "turn.completed", "agent_end"}
              /\ ~\E i \in 1..(Last - 1) : /\ written[i] = "message_end, failed"
                                           /\ \A j \in (i + 1)..(Last - 1) : written[j] = "text"

(* When a dispatch is over - and the next one may enter the workspace -    *)
(* its CLI is gone, however it was left.                                   *)
CliGone == reader = "over" => ~Alive

(* The watchdog kills the process group when the time is over.             *)
TimeoutKillsGroup == killing["watchdog"] = "over" => ~Alive /\ ~child
=============================================================================
