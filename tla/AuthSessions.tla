---------------------------- MODULE AuthSessions ----------------------------
(***************************************************************************)
(* Signing in: one account, its password and its refresh sessions.  Every  *)
(* commit of a request is a step, and requests of several tabs overlap.  A *)
(* client may present any refresh token it was ever given.  An access      *)
(* token is good while the password it was issued under is the account's.  *)
(***************************************************************************)
EXTENDS Naturals, Sequences, FiniteSets

CONSTANTS
    Tab,            \* requests that may overlap
    Mortal,         \* tabs whose request may be cut off by a crash
    MaxIssued       \* bound: sessions issued and passwords the account has had, together

VARIABLES
    account,        \* the rows of user and team, which password it is and since which one
    sessions,       \* rows of refresh sessions, oldest first; parent, pw are history
    request,        \* request[t]
    overtaken,      \* history: tabs whose request read before the sessions were last revoked
    late,           \* history: sessions such a request has opened, and their successors
    cutOff,         \* history: refreshes that failed before they retired their token
    halfChanged     \* history: passwords whose change died before it ended the sessions

vars == <<account, sessions, request, overtaken, late, cutOff, halfChanged>>

Idle == [at |-> "idle", from |-> 0, pw |-> 0, stamp |-> 0]

Init ==
    /\ account = [exists |-> FALSE, team |-> FALSE, pw |-> 0, since |-> 0]
    /\ sessions = <<>>
    /\ request = [t \in Tab |-> Idle]
    /\ overtaken = {} /\ late = {} /\ cutOff = 0 /\ halfChanged = {}

\* Retired (rotated_at) and revoked (revoked_at) are one: nothing tells them apart.
\* pw is the password that was typed to open the line of sessions, stamp the one the
\* access token was made under (pwd_ts).
Row(parent, pw, stamp) == [parent |-> parent, pw |-> pw, stamp |-> stamp, over |-> FALSE]

Live(s) == ~sessions[s].over

\* Does somebody hold an access token that is still good?
SignedIn == account.exists /\ \E s \in DOMAIN sessions : sessions[s].stamp = account.pw

Issued == Len(sessions) + account.pw

-----------------------------------------------------------------------------
\* The first session is committed together with team and user.  A name whose
\* user and team were deleted may be registered again, with a new timestamp.
Register ==
    /\ ~account.exists /\ ~account.team
    /\ Issued + 1 < MaxIssued
    /\ account' = [exists |-> TRUE, team |-> TRUE, pw |-> account.pw + 1, since |-> account.pw + 1]
    /\ sessions' = Append(sessions, Row(0, account.pw + 1, account.pw + 1))
    /\ UNCHANGED <<request, overtaken, late, cutOff, halfChanged>>

\* The password is right.
Login(t) ==
    /\ request[t].at = "idle"
    /\ account.exists
    /\ request' = [request EXCEPT ![t] = [at |-> "issuing", from |-> 0,
                                            pw |-> account.pw, stamp |-> account.pw]]
    /\ UNCHANGED <<account, sessions, overtaken, late, cutOff, halfChanged>>

\* The token's session is neither retired nor revoked, and the user is there: the
\* password of now need not be the one the session goes back to.
Refresh(t, s) ==
    /\ request[t].at = "idle"
    /\ Live(s)
    /\ account.exists
    /\ request' = [request EXCEPT ![t] = [at |-> "issuing", from |-> s,
                                            pw |-> sessions[s].pw, stamp |-> account.pw]]
    /\ UNCHANGED <<account, sessions, overtaken, late, cutOff, halfChanged>>

\* The new session is committed; a login is done with that, and so is a
\* request whose user has gone: reading the user again fails.
Issue(t) ==
    LET q == request[t] IN
    /\ q.at = "issuing"
    /\ Issued < MaxIssued
    /\ sessions' = Append(sessions, Row(q.from, q.pw, q.stamp))
    /\ late' = IF t \in overtaken \/ q.from \in late THEN late \cup {Len(sessions) + 1} ELSE late
    /\ overtaken' = overtaken \ {t}
    /\ request' = [request EXCEPT ![t] = IF q.from = 0 \/ ~account.exists THEN Idle
                                            ELSE [q EXCEPT !.at = "rotating"]]
    /\ cutOff' = IF q.from # 0 /\ ~account.exists THEN cutOff + 1 ELSE cutOff
    /\ UNCHANGED <<account, halfChanged>>

\* Mutant: the old session is not retired when it was given its successor.
RotateNothing(t) ==
    /\ request[t].at = "rotating"
    /\ request' = [request EXCEPT ![t] = Idle]
    /\ UNCHANGED <<account, sessions, overtaken, late, cutOff, halfChanged>>

\* A second commit retires the session whose token was presented.
Rotate(t) ==
    /\ request[t].at = "rotating"
    /\ sessions' = [sessions EXCEPT ![request[t].from].over = TRUE]
    /\ request' = [request EXCEPT ![t] = Idle]
    /\ UNCHANGED <<account, overtaken, late, cutOff, halfChanged>>

\* The presented session is revoked; its successors are not.
Logout(s) ==
    /\ Live(s)
    /\ sessions' = [sessions EXCEPT ![s].over = TRUE]
    /\ UNCHANGED <<account, request, overtaken, late, cutOff, halfChanged>>

RevokedAll == [s \in DOMAIN sessions |-> [sessions[s] EXCEPT !.over = TRUE]]

\* A signed-in user changes the password in one commit
ChangePassword(t) ==
    /\ request[t].at = "idle"
    /\ SignedIn
    /\ Issued < MaxIssued
    /\ account' = [account EXCEPT !.pw = @ + 1]
    /\ request' = [request EXCEPT ![t] = [at |-> "revoking", from |-> 0,
                                            pw |-> account.pw, stamp |-> 0]]
    /\ UNCHANGED <<sessions, overtaken, late, cutOff, halfChanged>>

Overtaken == overtaken \cup {u \in Tab : request[u].at = "issuing"}

\* Mutant: only the latest session is revoked.
RevokeNewest(t) ==
    /\ request[t].at = "revoking"
    /\ sessions' = [sessions EXCEPT ![Len(sessions)].over = TRUE]
    /\ request' = [request EXCEPT ![t] = Idle]
    /\ overtaken' = Overtaken /\ halfChanged' = {}
    /\ UNCHANGED <<account, late, cutOff>>

\* and revokes all sessions that are there in the next.
RevokeAll(t) ==
    /\ request[t].at = "revoking"
    /\ sessions' = RevokedAll
    /\ request' = [request EXCEPT ![t] = Idle]
    /\ overtaken' = Overtaken /\ halfChanged' = {}
    /\ UNCHANGED <<account, late, cutOff>>

\* An administrator deletes the user; the sessions stay.
DeleteUser ==
    /\ account.exists
    /\ account' = [account EXCEPT !.exists = FALSE]
    /\ UNCHANGED <<sessions, request, overtaken, late, cutOff, halfChanged>>

\* A team is deleted with its users.
DeleteTeam ==
    /\ account.team
    /\ account' = [account EXCEPT !.team = FALSE, !.exists = FALSE]
    /\ UNCHANGED <<sessions, request, overtaken, late, cutOff, halfChanged>>

Die(t) ==
    /\ t \in Mortal
    /\ request[t].at # "idle"
    /\ cutOff' = IF request[t].at = "rotating" THEN cutOff + 1 ELSE cutOff
    /\ halfChanged' = IF request[t].at = "revoking" THEN halfChanged \cup 1..request[t].pw
                      ELSE halfChanged
    /\ request' = [request EXCEPT ![t] = Idle]
    /\ overtaken' = overtaken \ {t}
    /\ UNCHANGED <<account, sessions, late>>

-----------------------------------------------------------------------------
Next ==
    \/ Register \/ DeleteUser \/ DeleteTeam
    \/ \E t \in Tab :
        \/ Login(t) \/ Issue(t) \/ Rotate(t)
        \/ ChangePassword(t) \/ RevokeAll(t) \/ Die(t)
        \/ \E s \in DOMAIN sessions : Refresh(t, s)
    \/ \E s \in DOMAIN sessions : Logout(s)

Spec == Init /\ [][Next]_vars

-----------------------------------------------------------------------------
TypeOK ==
    /\ account \in [exists : BOOLEAN, team : BOOLEAN, pw : Nat, since : Nat]
    /\ sessions \in Seq([parent : Nat, pw : Nat, stamp : Nat, over : BOOLEAN])
    /\ request \in [Tab -> [at : {"idle", "issuing", "rotating", "revoking"},
                            from : Nat, pw : Nat, stamp : Nat]]
    /\ overtaken \subseteq Tab
    /\ \A t \in Tab : request[t].from \in {0} \cup DOMAIN sessions

\* Does the session go back to a password that was changed?  (The sessions of a user who
\* was deleted are outside: they are left as they were.)
OfOldPassword(s) == sessions[s].pw \in account.since .. account.pw - 1

(* A session that goes back to an old password lives on only where the     *)
(* change left the chance: the change has not revoked the sessions yet, or *)
(* was cut off before it did, or the session, or one it goes back to, was  *)
(* opened by a request that had begun before the sessions were revoked.    *)
OldPasswordOut ==
    \A s \in DOMAIN sessions :
        Live(s) /\ OfOldPassword(s) =>
            \/ \E t \in Tab : request[t].at = "revoking" /\ request[t].pw >= sessions[s].pw
            \/ sessions[s].pw \in halfChanged
            \/ s \in late

(* A password change that was carried out ends every session of the old    *)
(* password.                                                               *)
ChangeEndsSessions ==
    (\A t \in Tab : request[t].at # "revoking") /\ halfChanged = {} =>
        \A s \in DOMAIN sessions : ~(Live(s) /\ OfOldPassword(s))

(* A refresh token is exchanged once, or once by each of several requests  *)
(* that overlap: it is not a key that goes on opening sessions, unless a   *)
(* crash kept it from being retired.                                       *)
ExchangedOnce ==
    \A s \in DOMAIN sessions :
        Cardinality({h \in DOMAIN sessions : sessions[h].parent = s})
            <= Cardinality(Tab) + cutOff

=============================================================================
