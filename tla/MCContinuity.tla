---------------------------- MODULE MCContinuity ----------------------------
(* An instance of Continuity for TLC.                                       *)
EXTENDS Continuity, TLC

CONSTANTS k1, k2, k3, k4, x, y, z, m1, t1, t2, t3, p1, e1, g1

Requests == {k1, k2, k3, k4}
Texts    == {x, y, z}

Turns    == {t1, t2, t3}

OneConversation == [t \in Turns |-> g1]

\* Two of the turns, t2 and t3, may meet a disk that fails.
Interchangeable ==
    Permutations({k1, k2, k3}) \cup Permutations({x, y}) \cup Permutations({t2, t3})
=============================================================================
