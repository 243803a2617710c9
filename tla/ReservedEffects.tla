--------------------------- MODULE ReservedEffects ---------------------------
(***************************************************************************)
(* What the accounting of a tool run promises, without the loop: external  *)
(* effects happen under reservations that were made durable before them.   *)
(* A reservation is one of a fixed budget, it stays open until its outcome *)
(* is recorded, and only the newest one can be open.  A handler may run    *)
(* once under an open reservation; a reservation may also be settled       *)
(* without any effect (rejected, blocked, dry run).                        *)
(***************************************************************************)
EXTENDS Naturals

CONSTANT Budget    \* reservations a run may make

VARIABLES
    charged,  \* reservations made so far
    settled,  \* of these, the ones whose outcome is recorded
    spent     \* the reservations under which a handler was started

vars == <<charged, settled, spent>>

Init == charged = 0 /\ settled = 0 /\ spent = {}

Open == charged = settled + 1

Charge ==
    /\ ~Open /\ charged < Budget
    /\ charged' = charged + 1
    /\ UNCHANGED <<settled, spent>>

\* An invalid proposal is charged and settled at once.
Reject ==
    /\ ~Open /\ charged < Budget
    /\ charged' = charged + 1 /\ settled' = settled + 1
    /\ UNCHANGED spent

Execute ==
    /\ Open /\ charged \notin spent
    /\ spent' = spent \cup {charged}
    /\ UNCHANGED <<charged, settled>>

Settle ==
    /\ Open
    /\ settled' = charged
    /\ UNCHANGED <<charged, spent>>

Next == Charge \/ Reject \/ Execute \/ Settle

Spec == Init /\ [][Next]_vars

=============================================================================
