---------------------------- MODULE MCRunRuntime ----------------------------
(* Small instances of RunRuntime for TLC. *)
EXTENDS RunRuntime, TLC

CONSTANTS s1, s2, r1, r2, c1

OneRun == {r1}
TwoRuns == {r1, r2}

TwoServers == {s1, s2}

\* One run, or two runs of one conversation.
SharedConversation == [r \in Run |-> c1]

Api == [r \in Run |-> "agent_auto"]
Workflow == [r \in Run |-> "workflow"]
CliAndSync == [r \in Run |-> IF r = r1 THEN "cli" ELSE "sync"]

\* Runs of one mode in one conversation are interchangeable.
Interchangeable == Permutations(Run)

-----------------------------------------------------------------------------
\* r1 was cancelled before anybody claimed it: r2 is alone, and all may happen to it.
Alone == status[r1] = "cancelled" /\ shown[r1] = "cancelled" /\ worker[r1].state = "none"

\* Two runs beside each other, on servers that stay up and of which s2 does not stall;
\* r2 proposes one dangerous call, r1 no call, and r2 does not fail; r1 is sent to s1.
Beside ==
    /\ job[s2][r1].pc = "idle"
    /\ ~(submit[s2].on /\ submit[s2].run = r1)
    /\ \A r \in TwoRuns :
        turn[r] <= 1 /\ tools[r] = 0 /\ ~(Owns(s2, r) /\ worker[r].expired)
    /\ status[r2] # "failed"
    /\ \A s \in Server :
        /\ server[s] = "up"
        /\ job[s][r1].pc # "tool"
        /\ job[s][r2].pc = "tool" => turn[r2] = 0
        /\ job[s][r2].pc # "error"
        /\ job[s][r2].pc = "idle" => ~Owns(s, r2)

\* runtime_stalled plays one of the two scenes.
OneScene == Alone \/ Beside

=============================================================================
