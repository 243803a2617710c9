----------------------------- MODULE MCToolLoop -----------------------------
(* Instances of ToolLoop for TLC. *)
EXTENDS ToolLoop

\* How runs are submitted: by the API with and without consent in advance, dry,
\* from the companion, and with update_plan enabled or not.
Plain     == [dry |-> FALSE, ahead |-> FALSE, companion |-> FALSE, planning |-> TRUE]
Ahead     == [Plain EXCEPT !.ahead = TRUE]
Dry       == [Plain EXCEPT !.dry = TRUE]
Companion == [Plain EXCEPT !.companion = TRUE]
NoPlans   == [Plain EXCEPT !.planning = FALSE]

AllModes  == {Plain, Ahead, Dry, Companion, NoPlans}
Approvals == {Plain, Companion}

=============================================================================
