---------------------------- MODULE MCEventJournal ----------------------------
(* One run, its stream and its confirmations, followed by one client. *)
EXTENDS EventJournal

CONSTANTS stream, k1, user, recovery, c1
=============================================================================
