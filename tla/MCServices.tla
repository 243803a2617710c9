----------------------------- MODULE MCServices -----------------------------
(* An instance of Services for TLC.                                         *)
EXTENDS Services, TLC

CONSTANTS g, u, w, e1, e2, e3, s1, s2, l1, c1, q1, q2

\* One group and two of its users: one asks for something while the other's task runs,
\* and a third message answers a prompt.
OneGroup == [m \in 1..MaxMessages |-> g]
TwoUsers == [m \in 1..MaxMessages |-> IF m = 2 THEN w ELSE u]
Words    == [m \in 1..MaxMessages |-> IF m = 3 THEN {"confirm", "cancel"} ELSE {"task"}]
First    == {<<"qqbot", 1>>, <<"napcat", 1>>}

\* Events with an id, without one and with an empty one; the first is worth a push.
Events == {e1, e2, e3}
Feeds  == s1 :> <<e1>> @@ s2 :> <<e2, e3>>
OneLog == [s \in {s1, s2} |-> "n"]
Alerts == [s \in {s1, s2} |-> "alert"]
Ids    == e1 :> "id1" @@ e2 :> Absent @@ e3 :> ""
Severities == e1 :> "high" @@ e2 :> "p3" @@ e3 :> "p3"
Alarms == [e \in Events |-> e = e2]

=============================================================================
