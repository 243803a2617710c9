--------------------------- MODULE MessagingProofs ---------------------------
(* Theorems about the components of Services through which the agent and    *)
(* people reach each other - the QQ adapter's connection (QQChannel) and    *)
(* bridge (QQBridge), and what is pushed unasked (Outreach) - for every     *)
(* value of their constants.                                                *)
EXTENDS Services, FiniteSetTheorems, SequenceTheorems, WellFoundedInduction, TLAPS

LEMMA OneReaches ==
  ASSUME [NextAll]_allVars
  PROVE  /\ part' = part
         /\ part = "bridge" => [Bridge!Next]_bridgeVars
         /\ part = "channel" => [Link!Next]_linkVars
         /\ part = "outreach" => [Pushes!Next]_pushesVars
BY DEF NextAll, EmbeddingsStep, BridgeStep, LinkStep, AccountsStep, PushesStep, SpaceStep,
       ChatStep, WebStep, ShellStep, ProcessStep, PlanStep, allVars

OneIf(b) == IF b THEN 1 ELSE 0

LEMMA WithAndWithout ==
  ASSUME NEW X, IsFiniteSet(X), NEW t
  PROVE  /\ IsFiniteSet(X \ {t})
         /\ Cardinality(X \ {t}) \in Nat
         /\ Cardinality(X) = Cardinality(X \ {t}) + OneIf(t \in X)
<1>1. IsFiniteSet(X \ {t}) /\ Cardinality(X \ {t}) \in Nat /\ Cardinality(X) \in Nat
  BY FS_Difference, FS_CardinalityType
<1>2. CASE t \in X
  BY <1>1, <1>2, FS_RemoveElement DEF OneIf
<1>3. CASE t \notin X
  <2>1. X \ {t} = X
    BY <1>3
  <2>2. Cardinality(X \ {t}) = Cardinality(X) /\ OneIf(t \in X) = 0
    BY <1>3, <2>1 DEF OneIf
  <2>. QED
    BY <1>1, <2>2
<1>. QED
  BY <1>2, <1>3

-----------------------------------------------------------------------------
(* QQChannel: the order of replies, how often each arrives, and the loop.   *)

CountIn(R, k) == Cardinality({i \in DOMAIN R : R[i] = k})

Flights == [reply : Nat, attempt : 0..2, at : {"none", "calling", "echo"}, echo : Nat]

BusTyped ==
    /\ outbox \in Seq(Nat) /\ received \in Seq(Nat) /\ published \in Nat /\ calls \in Nat
    /\ flight \in Flights

(* What waits is newer than what was received and than what is handed over  *)
(* now, which is the newest that was received.                              *)
InOrder ==
    /\ \A i \in 1..Len(outbox) : /\ outbox[i] \in 1..published
                                 /\ \A j \in 1..Len(outbox) : i < j => outbox[i] < outbox[j]
    /\ \A i \in 1..Len(received) :
           /\ received[i] \in 1..published
           /\ \A j \in 1..Len(outbox) : received[i] < outbox[j]
           /\ \A j \in 1..Len(received) : i < j => received[i] <= received[j]
    /\ \A k \in Nat : CountIn(received, k) <= 2

InFlight ==
    flight # Link!NoFlight =>
        /\ flight.at # "none" /\ flight.attempt \in 1..2 /\ flight.reply \in 1..published
        /\ \A j \in 1..Len(outbox) : flight.reply < outbox[j]
        /\ \A i \in 1..Len(received) : received[i] <= flight.reply
        /\ CountIn(received, flight.reply) <= IF flight.at = "calling" THEN flight.attempt - 1
                                              ELSE flight.attempt
        /\ flight.at = "echo" =>
               \A x \in wire : x.echo = flight.echo => x.reply = flight.reply

\* Every response is to a call that arrived.
OnTheWire ==
    /\ \A x \in wire : /\ x.echo \in Nat /\ x.echo <= calls
                       /\ \E i \in 1..Len(received) : received[i] = x.reply
    /\ \A k \in acknowledged : \E i \in 1..Len(received) : received[i] = k

BusInv == BusTyped /\ InOrder /\ InFlight /\ OnTheWire

LEMMA CountType ==
  ASSUME NEW R \in Seq(Nat), NEW k
  PROVE  IsFiniteSet({i \in DOMAIN R : R[i] = k}) /\ CountIn(R, k) \in Nat
<1>1. {i \in DOMAIN R : R[i] = k} \in SUBSET (1..Len(R)) /\ Len(R) \in Nat
  OBVIOUS
<1>2. IsFiniteSet(1..Len(R))
  BY <1>1, FS_Interval
<1>. QED
  BY <1>1, <1>2, FS_Subset, FS_CardinalityType DEF CountIn

LEMMA CountAppend ==
  ASSUME NEW R \in Seq(Nat), NEW m \in Nat, NEW k
  PROVE  CountIn(Append(R, m), k) = CountIn(R, k) + OneIf(m = k)
<1>. DEFINE n == Len(R) + 1
            T == Append(R, m)
            X == {i \in DOMAIN T : T[i] = k}
<1>1. /\ T \in Seq(Nat) /\ Len(T) = n /\ T[n] = m /\ \A i \in 1..Len(R) : T[i] = R[i]
      /\ DOMAIN T = 1..n /\ DOMAIN R = 1..Len(R) /\ Len(R) \in Nat
  BY AppendProperties
<1>. HIDE DEF T
<1>2. X \ {n} = {i \in DOMAIN R : R[i] = k} /\ (n \in X <=> m = k)
  BY <1>1
<1>3. Cardinality(X) = Cardinality(X \ {n}) + OneIf(n \in X)
  <2>1. IsFiniteSet(X)
    BY <1>1, CountType
  <2>. QED
    BY <2>1, WithAndWithout
<1>4. OneIf(n \in X) = OneIf(m = k)
  BY <1>2 DEF OneIf
<1>. QED
  BY <1>2, <1>3, <1>4 DEF CountIn, T

\* A flight that is tried once more, and one whose call went out as number n.
Retried(x) == [x EXCEPT !.attempt = 2, !.at = "calling", !.echo = 0]
SentAs(x, n) == [x EXCEPT !.at = "echo", !.echo = n]

LEMMA FlightSteps ==
  ASSUME NEW x \in Flights, NEW n \in Nat
  PROVE  /\ Retried(x) \in Flights /\ Retried(x).reply = x.reply /\ Retried(x).attempt = 2
         /\ Retried(x).at = "calling"
         /\ SentAs(x, n) \in Flights /\ SentAs(x, n).reply = x.reply
         /\ SentAs(x, n).attempt = x.attempt /\ SentAs(x, n).at = "echo" /\ SentAs(x, n).echo = n
<1>. DEFINE a == [x EXCEPT !.attempt = 2]
            b == [a EXCEPT !.at = "calling"]
            c == [x EXCEPT !.at = "echo"]
<1>1. a \in Flights /\ a.reply = x.reply /\ a.attempt = 2
  BY DEF Flights
<1>2. c \in Flights /\ c.reply = x.reply /\ c.attempt = x.attempt /\ c.at = "echo"
  BY DEF Flights
<1>. HIDE DEF a, c
<1>3. b \in Flights /\ b.reply = x.reply /\ b.attempt = 2 /\ b.at = "calling"
  BY <1>1 DEF Flights
<1>. HIDE DEF b
<1>4. /\ [b EXCEPT !.echo = 0] \in Flights /\ [b EXCEPT !.echo = 0].reply = x.reply
      /\ [b EXCEPT !.echo = 0].attempt = 2 /\ [b EXCEPT !.echo = 0].at = "calling"
  BY <1>3 DEF Flights
<1>5. /\ [c EXCEPT !.echo = n] \in Flights /\ [c EXCEPT !.echo = n].reply = x.reply
      /\ [c EXCEPT !.echo = n].attempt = x.attempt /\ [c EXCEPT !.echo = n].at = "echo"
      /\ [c EXCEPT !.echo = n].echo = n
  BY <1>2 DEF Flights
<1>6. Retried(x) = [b EXCEPT !.echo = 0]
  BY DEF Retried, a, b
<1>7. SentAs(x, n) = [c EXCEPT !.echo = n]
  BY DEF SentAs, c
<1>. QED
  BY <1>4, <1>5, <1>6, <1>7

LEMMA BusBegins == Link!Init => BusInv
<1>. SUFFICES ASSUME Link!Init PROVE BusInv
  OBVIOUS
<1>1. /\ outbox = <<>> /\ received = <<>> /\ published = 0 /\ calls = 0 /\ flight = Link!NoFlight
      /\ wire = {} /\ acknowledged = {}
  BY DEF Link!Init
<1>2. BusTyped
  BY <1>1 DEF BusTyped, Flights, Link!NoFlight
<1>3. \A k : CountIn(received, k) = 0
  <2>1. \A k : {i \in DOMAIN received : received[i] = k} = {}
    BY <1>1
  <2>. QED
    BY <2>1, FS_EmptySet DEF CountIn
<1>4. Len(outbox) = 0 /\ Len(received) = 0
  BY <1>1
<1>. QED
  BY <1>1, <1>2, <1>3, <1>4 DEF BusInv, InOrder, InFlight, OnTheWire

LEMMA BusGoesOn ==
  ASSUME BusInv, [Link!Next]_linkVars
  PROVE  BusInv'
<1>0. /\ outbox \in Seq(Nat) /\ received \in Seq(Nat) /\ published \in Nat /\ calls \in Nat
      /\ flight \in Flights /\ Len(outbox) \in Nat /\ Len(received) \in Nat
      /\ DOMAIN outbox = 1..Len(outbox) /\ DOMAIN received = 1..Len(received)
      /\ InOrder /\ InFlight /\ OnTheWire
  BY DEF BusInv, BusTyped
<1>1. ASSUME UNCHANGED <<outbox, received, published, calls, flight, acknowledged>>, wire' \subseteq wire
      PROVE  BusInv'
  BY <1>1 DEF BusInv, BusTyped, InOrder, InFlight, OnTheWire
<1>2. Link!NoFlight \in Flights /\ Link!NoFlight.at = "none"
  BY DEF Flights, Link!NoFlight
\* The dispatcher lets go of a reply.
<1>3. ASSUME UNCHANGED <<outbox, received, published, calls>>, wire' \subseteq wire,
             flight' = Link!NoFlight,
             \A k \in acknowledged' : k \in acknowledged \/ \E i \in 1..Len(received) : received[i] = k
      PROVE  BusInv'
  BY <1>0, <1>2, <1>3 DEF BusInv, BusTyped, InOrder, InFlight, OnTheWire
<1>4. CASE Link!Publish
  <2>1. /\ published' = published + 1 /\ outbox' = Append(outbox, published + 1)
        /\ UNCHANGED <<flight, calls, wire, received, acknowledged>>
    BY <1>4 DEF Link!Publish
  <2>2. /\ outbox' \in Seq(Nat) /\ Len(outbox') = Len(outbox) + 1
        /\ outbox'[Len(outbox) + 1] = published + 1
        /\ \A i \in 1..Len(outbox) : outbox'[i] = outbox[i]
    BY <1>0, <2>1, AppendProperties
  <2>3. \A i \in 1..Len(outbox') : i \in 1..Len(outbox) \/ i = Len(outbox) + 1
    BY <1>0, <2>2
  <2>4. \A i \in 1..Len(outbox') : /\ outbox'[i] \in 1..published'
                                   /\ \A j \in 1..Len(outbox') : i < j => outbox'[i] < outbox'[j]
    BY <1>0, <2>1, <2>2, <2>3 DEF InOrder
  <2>5. \A i \in 1..Len(received') :
           /\ received'[i] \in 1..published'
           /\ \A j \in 1..Len(outbox') : received'[i] < outbox'[j]
           /\ \A j \in 1..Len(received') : i < j => received'[i] <= received'[j]
    BY <1>0, <2>1, <2>2, <2>3 DEF InOrder
  <2>6. InOrder'
    BY <1>0, <2>1, <2>4, <2>5 DEF InOrder
  <2>7. InFlight'
    <3>1. CASE flight = Link!NoFlight
      BY <2>1, <3>1 DEF InFlight
    <3>2. CASE flight # Link!NoFlight
      BY <1>0, <2>1, <2>2, <2>3, <3>2 DEF InFlight
    <3>. QED
      BY <3>1, <3>2
  <2>. QED
    BY <1>0, <2>1, <2>2, <2>6, <2>7 DEF BusInv, BusTyped, OnTheWire
<1>5. CASE Link!Dispatch
  <2>1. /\ flight = Link!NoFlight /\ outbox # <<>> /\ outbox' = Tail(outbox)
        /\ UNCHANGED <<published, calls, wire, received, acknowledged>>
        /\ flight' = Link!NoFlight \/
           flight' = [reply |-> Head(outbox), attempt |-> 1, at |-> "calling", echo |-> 0]
    BY <1>5 DEF Link!Dispatch
  <2>2. /\ outbox' \in Seq(Nat) /\ Len(outbox') = Len(outbox) - 1 /\ Len(outbox) # 0
        /\ \A i \in 1..Len(outbox') : outbox'[i] = outbox[i + 1] /\ i + 1 \in 1..Len(outbox)
        /\ Head(outbox) = outbox[1] /\ 1 \in 1..Len(outbox)
    BY <1>0, <2>1
  <2>3. InOrder'
    <3>1. \A i \in 1..Len(outbox') : /\ outbox'[i] \in 1..published'
                                     /\ \A j \in 1..Len(outbox') : i < j => outbox'[i] < outbox'[j]
      BY <1>0, <2>1, <2>2 DEF InOrder
    <3>2. \A i \in 1..Len(received') :
             /\ received'[i] \in 1..published'
             /\ \A j \in 1..Len(outbox') : received'[i] < outbox'[j]
             /\ \A j \in 1..Len(received') : i < j => received'[i] <= received'[j]
      BY <1>0, <2>1, <2>2 DEF InOrder
    <3>. QED
      BY <1>0, <2>1, <3>1, <3>2 DEF InOrder
  <2>4. CASE flight' = Link!NoFlight
    BY <1>0, <1>2, <2>1, <2>2, <2>3, <2>4 DEF BusInv, BusTyped, InFlight, OnTheWire
  <2>5. CASE flight' = [reply |-> Head(outbox), attempt |-> 1, at |-> "calling", echo |-> 0]
    <3>1. /\ flight'.reply = outbox[1] /\ flight'.attempt = 1 /\ flight'.at = "calling"
          /\ flight' \in Flights
      BY <1>0, <2>2, <2>5 DEF InOrder, Flights
    <3>2. \A i \in 1..Len(received) : received[i] < outbox[1]
      BY <1>0, <2>2 DEF InOrder
    <3>3. CountIn(received, outbox[1]) = 0
      <4>1. \A i \in 1..Len(received) : received[i] \in Nat /\ received[i] # outbox[1]
        BY <1>0, <2>2, <3>2
      <4>2. {i \in DOMAIN received : received[i] = outbox[1]} = {}
        BY <1>0, <4>1
      <4>. QED
        BY <4>2, FS_EmptySet DEF CountIn
    <3>4. outbox[1] \in 1..published /\ \A j \in 1..Len(outbox') : outbox[1] < outbox'[j]
      BY <1>0, <2>2 DEF InOrder
    <3>5. \A i \in 1..Len(received) : received[i] <= outbox[1]
      BY <1>0, <2>2, <3>2
    <3>6. InFlight'
      BY <2>1, <3>1, <3>3, <3>4, <3>5 DEF InFlight
    <3>. QED
      BY <1>0, <2>1, <2>2, <2>3, <3>1, <3>6 DEF BusInv, BusTyped, OnTheWire
  <2>. QED
    BY <2>1, <2>4, <2>5
\* A call: the platform receives the reply, or does not.
<1>6. ASSUME flight.at = "calling",
             received' = received \/ received' = Append(received, flight.reply),
             UNCHANGED <<outbox, published>>
      PROVE  /\ received' \in Seq(Nat) /\ InOrder'
             /\ \A i \in 1..Len(received) : i \in 1..Len(received') /\ received'[i] = received[i]
             /\ \A i \in 1..Len(received') : received'[i] <= flight.reply
             /\ flight.reply \in 1..published /\ flight.attempt \in 1..2
             /\ \A j \in 1..Len(outbox) : flight.reply < outbox[j]
             /\ CountIn(received', flight.reply) <= flight.attempt
             /\ received' # received =>
                    \E i \in 1..Len(received') : received'[i] = flight.reply
  <2>0. flight # Link!NoFlight
    BY <1>2, <1>6
  <2>1. /\ flight.reply \in 1..published /\ flight.attempt \in 1..2
        /\ \A j \in 1..Len(outbox) : flight.reply < outbox[j]
        /\ \A i \in 1..Len(received) : received[i] <= flight.reply
        /\ CountIn(received, flight.reply) <= flight.attempt - 1
    BY <1>0, <1>6, <2>0 DEF InFlight
  <2>2. flight.reply \in Nat
    BY <2>1
  <2>3. CASE received' = received
    <3>1. InOrder'
      BY <1>0, <1>6, <2>3 DEF InOrder
    <3>2. CountIn(received, flight.reply) \in Nat
      BY <1>0, CountType
    <3>. QED
      BY <1>0, <2>1, <2>3, <3>1, <3>2
  <2>4. CASE received' = Append(received, flight.reply)
    <3>1. /\ received' \in Seq(Nat) /\ Len(received') = Len(received) + 1
          /\ received'[Len(received) + 1] = flight.reply
          /\ \A i \in 1..Len(received) : received'[i] = received[i]
      BY <1>0, <2>2, <2>4, AppendProperties
    <3>2. \A i \in 1..Len(received') : i \in 1..Len(received) \/ i = Len(received) + 1
      BY <1>0, <3>1
    <3>3. ASSUME NEW i \in 1..Len(received')
          PROVE  /\ received'[i] \in 1..published
                 /\ \A j \in 1..Len(outbox) : received'[i] < outbox[j]
                 /\ \A j \in 1..Len(received') : i < j => received'[i] <= received'[j]
                 /\ received'[i] <= flight.reply
      <4>1. CASE i \in 1..Len(received)
        <5>1. received'[i] = received[i] /\ received[i] <= flight.reply
          BY <2>1, <3>1, <4>1
        <5>2. /\ received[i] \in 1..published
              /\ \A j \in 1..Len(outbox) : received[i] < outbox[j]
              /\ \A j \in 1..Len(received) : i < j => received[i] <= received[j]
          BY <1>0, <4>1 DEF InOrder
        <5>. QED
          BY <3>1, <3>2, <5>1, <5>2
      <4>2. CASE i = Len(received) + 1
        BY <1>0, <2>1, <2>2, <3>1, <4>2
      <4>. QED
        BY <3>2, <4>1, <4>2
    <3>4. \A k : CountIn(received', k) = CountIn(received, k) + OneIf(flight.reply = k)
      BY <1>0, <2>2, <2>4, CountAppend
    <3>5. \A k : CountIn(received, k) \in Nat
      BY <1>0, CountType
    <3>6. CountIn(received', flight.reply) <= flight.attempt
      BY <2>1, <3>4, <3>5 DEF OneIf
    <3>7. \A k \in Nat : CountIn(received', k) <= 2
      <4>1. \A k \in Nat : k # flight.reply => CountIn(received', k) <= 2
        BY <1>0, <3>4, <3>5 DEF InOrder, OneIf
      <4>2. CountIn(received', flight.reply) <= 2
        BY <2>1, <3>4, <3>5, <3>6 DEF OneIf
      <4>. QED
        BY <4>1, <4>2
    <3>8. InOrder'
      BY <1>0, <1>6, <3>3, <3>7 DEF InOrder
    <3>9. \A i \in 1..Len(received) : i \in 1..Len(received')
      BY <1>0, <3>1
    <3>10. Len(received) + 1 \in 1..Len(received')
      BY <1>0, <3>1
    <3>. QED
      BY <2>1, <3>1, <3>3, <3>6, <3>8, <3>9, <3>10
  <2>. QED
    BY <1>6, <2>3, <2>4
\* After a call the dispatcher lets go or tries once more.
<1>7. ASSUME flight.at = "calling",
             received' = received \/ received' = Append(received, flight.reply),
             UNCHANGED <<outbox, published, wire>>, calls' \in Nat, calls' >= calls,
             flight' = Link!NoFlight \/ Link!Raised,
             \A k \in acknowledged' : k \in acknowledged \/ (k = flight.reply /\ received' # received)
      PROVE  BusInv'
  <2>1. /\ received' \in Seq(Nat) /\ InOrder'
        /\ \A i \in 1..Len(received) : i \in 1..Len(received') /\ received'[i] = received[i]
        /\ \A i \in 1..Len(received') : received'[i] <= flight.reply
        /\ flight.reply \in 1..published /\ flight.attempt \in 1..2
        /\ \A j \in 1..Len(outbox) : flight.reply < outbox[j]
        /\ CountIn(received', flight.reply) <= flight.attempt
        /\ received' # received => \E i \in 1..Len(received') : received'[i] = flight.reply
    BY <1>6, <1>7
  <2>2. OnTheWire'
    <3>1. \A k : (\E i \in 1..Len(received) : received[i] = k)
                   => \E i \in 1..Len(received') : received'[i] = k
      BY <2>1
    <3>2. \A x \in wire : x.echo \in Nat /\ x.echo <= calls'
      BY <1>0, <1>7 DEF OnTheWire
    <3>. QED
      BY <1>0, <1>7, <2>1, <3>1, <3>2 DEF OnTheWire
  <2>3. flight' \in Flights /\ InFlight'
    <3>1. CASE flight' = Link!NoFlight
      BY <1>2, <3>1 DEF InFlight
    <3>2. CASE flight' # Link!NoFlight
      <4>1. flight.attempt = 1 /\ flight' = [flight EXCEPT !.attempt = 2, !.at = "calling", !.echo = 0]
        BY <1>7, <3>2 DEF Link!Raised
      <4>2. /\ flight' \in Flights /\ flight'.reply = flight.reply /\ flight'.attempt = 2
            /\ flight'.at = "calling"
        <5>1. flight' = Retried(flight)
          BY <4>1 DEF Retried
        <5>. QED
          BY <1>0, <5>1, FlightSteps
      <4>3. CountIn(received', flight'.reply) <= flight'.attempt - 1
        BY <2>1, <4>1, <4>2
      <4>. QED
        BY <1>7, <2>1, <4>2, <4>3 DEF InFlight
    <3>. QED
      BY <3>1, <3>2
  <2>. QED
    BY <1>0, <1>7, <2>1, <2>2, <2>3 DEF BusInv, BusTyped
<1>8. CASE Link!Post
  <2>1. /\ flight.at = "calling" /\ UNCHANGED <<published, calls, wire>>
        /\ \/ /\ received' = Append(received, flight.reply)
              /\ \/ Link!Returned /\ acknowledged' = acknowledged \cup {flight.reply}
                 \/ Link!Raised /\ UNCHANGED acknowledged
           \/ Link!Raised /\ UNCHANGED <<received, acknowledged>>
    BY <1>8 DEF Link!Post
  <2>2. UNCHANGED outbox /\ (flight' = Link!NoFlight \/ Link!Raised)
    BY <2>1 DEF Link!Returned, Link!Raised
  <2>3. received' = Append(received, flight.reply) => received' # received
    <3>1. flight.reply \in Nat
      BY <1>0 DEF Flights
    <3>2. Len(Append(received, flight.reply)) = Len(received) + 1
      BY <1>0, <3>1, AppendProperties
    <3>. SUFFICES ASSUME received' = Append(received, flight.reply), received' = received
                  PROVE  FALSE
      OBVIOUS
    <3>3. Len(received) = Len(received) + 1
      BY <3>2
    <3>. QED
      BY <1>0, <3>3
  <2>4. \A k \in acknowledged' : k \in acknowledged \/ (k = flight.reply /\ received' # received)
    BY <2>1, <2>3
  <2>. QED
    BY <1>0, <1>7, <2>1, <2>2, <2>4
<1>9. CASE Link!Send
  <2>1. CASE Link!Raised /\ calls' \in {calls, calls + 1} /\ UNCHANGED <<received, wire, published, acknowledged>>
             /\ flight.at = "calling"
    <3>1. UNCHANGED outbox /\ calls' \in Nat /\ calls' >= calls
      BY <1>0, <2>1 DEF Link!Raised
    <3>. QED
      BY <1>7, <2>1, <3>1
  <2>2. CASE /\ flight.at = "calling" /\ calls' = calls + 1
             /\ flight' = [flight EXCEPT !.at = "echo", !.echo = calls + 1]
             /\ \/ /\ received' = Append(received, flight.reply)
                   /\ wire' = wire \cup {[echo |-> calls + 1, reply |-> flight.reply]}
                \/ UNCHANGED <<received, wire>>
             /\ UNCHANGED <<outbox, published, acknowledged>>
    <3>1. /\ received' \in Seq(Nat) /\ InOrder'
          /\ \A i \in 1..Len(received) : i \in 1..Len(received') /\ received'[i] = received[i]
          /\ \A i \in 1..Len(received') : received'[i] <= flight.reply
          /\ flight.reply \in 1..published /\ flight.attempt \in 1..2
          /\ \A j \in 1..Len(outbox) : flight.reply < outbox[j]
          /\ CountIn(received', flight.reply) <= flight.attempt
          /\ received' # received => \E i \in 1..Len(received') : received'[i] = flight.reply
      BY <1>6, <2>2
    <3>2. /\ flight' \in Flights /\ flight'.reply = flight.reply /\ flight'.attempt = flight.attempt
          /\ flight'.at = "echo" /\ flight'.echo = calls + 1
      <4>1. flight' = SentAs(flight, calls + 1) /\ calls + 1 \in Nat
        BY <1>0, <2>2 DEF SentAs
      <4>. QED
        BY <1>0, <4>1, FlightSteps
    <3>3. \A k : (\E i \in 1..Len(received) : received[i] = k)
                   => \E i \in 1..Len(received') : received'[i] = k
      BY <3>1
    <3>4. \A x \in wire' : x \in wire \/ (x.echo = calls + 1 /\ x.reply = flight.reply /\ received' # received)
      <4>1. received' = Append(received, flight.reply) => received' # received
        <5>1. Len(Append(received, flight.reply)) = Len(received) + 1
          BY <1>0, <3>1, AppendProperties
        <5>. SUFFICES ASSUME received' = Append(received, flight.reply), received' = received
                      PROVE  FALSE
          OBVIOUS
        <5>2. Len(received) = Len(received) + 1
          BY <5>1
        <5>. QED
          BY <1>0, <5>2
      <4>2. CASE UNCHANGED wire
        BY <4>2
      <4>3. CASE /\ received' = Append(received, flight.reply)
                 /\ wire' = wire \cup {[echo |-> calls + 1, reply |-> flight.reply]}
        <5>1. received' # received
          BY <4>1, <4>3
        <5>. QED
          BY <4>3, <5>1
      <4>. QED
        BY <2>2, <4>2, <4>3
    <3>5. OnTheWire'
      <4>1. \A x \in wire : /\ x.echo \in Nat /\ x.echo <= calls
                            /\ \E i \in 1..Len(received) : received[i] = x.reply
        BY <1>0 DEF OnTheWire
      <4>2. ASSUME NEW x \in wire'
            PROVE  /\ x.echo \in Nat /\ x.echo <= calls'
                   /\ \E i \in 1..Len(received') : received'[i] = x.reply
        <5>1. CASE x \in wire
          <6>1. x.echo \in Nat /\ x.echo <= calls /\ calls \in Nat /\ calls' = calls + 1
            BY <1>0, <2>2, <4>1, <5>1
          <6>2. x.echo <= calls'
            BY <6>1
          <6>3. \E i \in 1..Len(received') : received'[i] = x.reply
            BY <3>3, <4>1, <5>1
          <6>. QED
            BY <6>1, <6>2, <6>3
        <5>2. CASE x.echo = calls + 1 /\ x.reply = flight.reply /\ received' # received
          BY <1>0, <2>2, <3>1, <5>2
        <5>. QED
          BY <3>4, <5>1, <5>2
      <4>3. \A k \in acknowledged' : \E i \in 1..Len(received') : received'[i] = k
        BY <1>0, <2>2, <3>3 DEF OnTheWire
      <4>. QED
        BY <4>2, <4>3 DEF OnTheWire
    <3>6. \A x \in wire' : x.echo = calls + 1 => x.reply = flight.reply
      BY <1>0, <3>4 DEF OnTheWire
    <3>7. InFlight'
      BY <2>2, <3>1, <3>2, <3>6 DEF InFlight
    <3>. QED
      BY <1>0, <2>2, <3>1, <3>2, <3>5, <3>7 DEF BusInv, BusTyped
  <2>. QED
    BY <1>9, <2>1, <2>2 DEF Link!Send
<1>10. ASSUME NEW x \in wire, Link!Echo(x) PROVE BusInv'
  <2>1. wire' \subseteq wire /\ UNCHANGED <<published, calls, received>>
    BY <1>10 DEF Link!Echo
  <2>2. CASE flight.at = "echo" /\ flight.echo = x.echo
    <3>1. /\ flight' = Link!NoFlight /\ UNCHANGED outbox
          /\ acknowledged' = acknowledged \cup {flight.reply}
      BY <1>10, <2>2 DEF Link!Echo, Link!Returned
    <3>2. flight # Link!NoFlight
      BY <1>2, <2>2
    <3>3. x.reply = flight.reply /\ \E i \in 1..Len(received) : received[i] = x.reply
      BY <1>0, <2>2, <3>2 DEF InFlight, OnTheWire
    <3>. QED
      BY <1>3, <2>1, <3>1, <3>3
  <2>3. CASE ~(flight.at = "echo" /\ flight.echo = x.echo)
    BY <1>1, <1>10, <2>1, <2>3 DEF Link!Echo
  <2>. QED
    BY <2>2, <2>3
<1>11. CASE Link!EchoTimeout
  BY <1>3, <1>11 DEF Link!EchoTimeout, Link!Returned
<1>12. CASE Link!BusStop
  BY <1>3, <1>12 DEF Link!BusStop
<1>13. CASE \/ Link!Start \/ Link!GetToken \/ Link!TokenExpires \/ Link!Dial \/ Link!Hello
            \/ Link!Closes \/ Link!Reconnect \/ Link!Stop \/ UNCHANGED linkVars
  <2>1. UNCHANGED <<outbox, received, published, calls, flight, acknowledged>> /\ wire' \subseteq wire
    BY <1>13 DEF Link!Start, Link!GetToken, Link!TokenExpires, Link!Dial, Link!Hello, Link!Closes,
       Link!Reconnect, Link!Stop, Link!bus, linkVars
  <2>. QED
    BY <1>1, <2>1
<1>. QED
  BY <1>4, <1>5, <1>8, <1>9, <1>10, <1>11, <1>12, <1>13 DEF Link!Next

LoopInv == (up /\ reconnects => link # "over") /\ (beats = {} \/ \E d : beats = {d})

LEMMA LoopBegins == Link!Init => LoopInv
BY DEF Link!Init, LoopInv

LEMMA LoopGoesOn == ASSUME LoopInv, [Link!Next]_linkVars PROVE LoopInv'
<1>1. Link!Entry # "over"
  BY DEF Link!Entry
<1>2. CASE Link!Start
  BY <1>1, <1>2 DEF LoopInv, Link!Start
<1>3. CASE Link!GetToken
  BY <1>3 DEF LoopInv, Link!GetToken
<1>4. CASE Link!Dial
  BY <1>4 DEF LoopInv, Link!Dial
<1>5. CASE Link!Hello
  BY <1>5 DEF LoopInv, Link!Hello
<1>6. CASE Link!Closes
  BY <1>6 DEF LoopInv, Link!Closes
<1>7. CASE Link!Reconnect
  BY <1>1, <1>7 DEF LoopInv, Link!Reconnect
<1>8. CASE Link!Stop
  BY <1>8 DEF LoopInv, Link!Stop
<1>9. CASE \/ Link!TokenExpires \/ Link!Publish \/ Link!Dispatch \/ Link!Post \/ Link!Send
           \/ Link!EchoTimeout \/ Link!BusStop \/ UNCHANGED linkVars
  <2>1. UNCHANGED <<reconnects, up, link, beats>>
    BY <1>9 DEF Link!TokenExpires, Link!Publish, Link!Dispatch, Link!Post, Link!Send,
       Link!EchoTimeout, Link!BusStop, linkVars, Link!loop
  <2>. QED
    BY <2>1 DEF LoopInv
<1>10. ASSUME NEW x \in wire, Link!Echo(x) PROVE LoopInv'
  BY <1>10 DEF LoopInv, Link!Echo, Link!loop
<1>. QED
  BY <1>2, <1>3, <1>4, <1>5, <1>6, <1>7, <1>8, <1>9, <1>10 DEF Link!Next

(* The platform receives replies in the order they were published, each at *)
(* most twice, whatever connections break and calls time out; a reply that *)
(* counts as answered was received; and the loop of a channel that is to   *)
(* reconnect goes on until it is stopped, with one heartbeat at most       *)
(* (bus.py, qqbot_channel.py, napcat_channel.py).                          *)
THEOREM ChannelsLast == SpecAll => []ChannelLasts
<1>. DEFINE I == part = "channel" => BusInv /\ LoopInv
<1>1. InitAll => I
  BY BusBegins, LoopBegins DEF InitAll
<1>2. I /\ [NextAll]_allVars => I'
  BY OneReaches, BusGoesOn, LoopGoesOn
<1>3. I => ChannelLasts
  <2>0. \A S : Link!Cardinality(S) = Cardinality(S)
    BY DEF Cardinality, Link!Cardinality
  <2>1. ASSUME BusInv PROVE Link!RepliesInOrder
    <3>1. received \in Seq(Nat) /\ DOMAIN received = 1..Len(received)
      BY <2>1 DEF BusInv, BusTyped
    <3>2. \A k \in 1..published : Cardinality({i \in DOMAIN received : received[i] = k}) <= 2
      BY <2>1 DEF BusInv, InOrder, CountIn
    <3>3. \A i, j \in DOMAIN received : i < j => received[i] <= received[j]
      BY <2>1, <3>1 DEF BusInv, InOrder
    <3>4. \A k \in acknowledged : \E i \in DOMAIN received : received[i] = k
      BY <2>1, <3>1 DEF BusInv, OnTheWire
    <3>. QED
      BY <2>0, <3>2, <3>3, <3>4 DEF Link!RepliesInOrder
  <2>2. ASSUME LoopInv PROVE Link!KeepsConnecting
    <3>1. Cardinality(beats) <= 1
      <4>1. CASE beats = {}
        BY <4>1, FS_EmptySet
      <4>2. ASSUME NEW d, beats = {d} PROVE Cardinality(beats) <= 1
        <5>1. Cardinality({d}) = 1
          BY FS_Singleton
        <5>. QED
          BY <4>2, <5>1
      <4>. QED
        BY <2>2, <4>1, <4>2 DEF LoopInv
    <3>. QED
      BY <2>0, <2>2, <3>1 DEF LoopInv, Link!KeepsConnecting
  <2>. QED
    BY <2>1, <2>2 DEF ChannelLasts
<1>. QED
  BY <1>1, <1>2, <1>3, PTL DEF SpecAll

-----------------------------------------------------------------------------
(* QQBridge: replies, notices, conversations and consent.                   *)

(* The count of a message is what was published to it, until it is evicted. *)
CountsInv ==
    /\ counts \in [Bridge!Message -> 0..Limit] /\ sent \in [Bridge!Message -> Nat]
    /\ \A m \in Bridge!Message \ forgotten : sent[m] = counts[m]

TaskSteps ==
    {"away", "queued", "confirming", "approving", "approved", "cancelling", "thinking",
     "conversation", "locking", "making", "posting", "without", "streaming", "awaiting", "done"}
Waits == {"conversation", "locking", "making", "posting", "without", "awaiting"}

(* A message in the queue is there once; whose notice is to come has no     *)
(* answer yet and asks for the whole one.                                   *)
NoticeInv ==
    /\ task \in [Bridge!Message -> TaskSteps] /\ inbox \in Seq(Bridge!Message)
    /\ notice \subseteq Bridge!Message /\ answered \subseteq Bridge!Message
    /\ again \subseteq Bridge!Message
    /\ \A i \in 1..Len(inbox) : /\ task[inbox[i]] = "queued"
                                /\ \A j \in 1..Len(inbox) : i # j => inbox[i] # inbox[j]
    /\ \A m \in notice : task[m] \in Waits /\ (m \in Bridge!Official \/ m \in again)
    /\ \A m \in answered : task[m] \in {"streaming", "done"}

\* The tasks of other messages stay where they are.
OthersStay(m) == task' \in [Bridge!Message -> TaskSteps]
                 /\ \A x \in Bridge!Message : x # m => task'[x] = task[x]

(* Who makes a conversation holds the lock of a chat that has none, and a   *)
(* run's conversation is its chat's.                                        *)
RunStates == {"absent", "running", "completed", "waiting", "failed"}

TalkInv ==
    /\ conversation \in [Bridge!Chat -> Bridge!Message \cup {0}]
    /\ convLock \in [Bridge!Chat -> Bridge!Message \cup {0}]
    /\ run \in [Bridge!Run -> [status : RunStates, conv : Bridge!Message \cup {0}]]
    /\ \A m \in Bridge!Message : task[m] = "making" =>
          convLock[ChatOf[m]] = m /\ conversation[ChatOf[m]] = 0
    /\ \A r \in Bridge!Run : run[r].conv # 0 => run[r].conv = conversation[ChatOf[r[1]]]

Entitled(m, r) == UserOf[m] = UserOf[r[1]] /\ ChatOf[m] = ChatOf[r[1]]

(* A chat waits for the run whose prompt it was shown last, and only the    *)
(* person who asked for a run is about to confirm it.                       *)
ConsentInv ==
    /\ pending \in [Bridge!Chat -> Bridge!Run \cup {Bridge!NoRun}]
    /\ prompted \in [Bridge!Chat -> Bridge!Run \cup {Bridge!NoRun}]
    /\ held \in [Bridge!Message -> Bridge!Run \cup {Bridge!NoRun}]
    /\ consent \in [Bridge!Run -> SUBSET Bridge!Message]
    /\ \A c \in Bridge!Chat : pending[c] # Bridge!NoRun =>
          pending[c] = prompted[c] /\ pending[c] \in Bridge!Run /\ ChatOf[pending[c][1]] = c
    /\ \A m \in Bridge!Message : task[m] \in {"confirming", "approving"} =>
          held[m] \in Bridge!Run /\ Entitled(m, held[m])
    /\ \A r \in Bridge!Run : \A m \in consent[r] : Entitled(m, r)

LEMMA RunsAre ==
  /\ \A m \in Bridge!Message : /\ m \in Nat /\ m # 0 /\ ChatOf[m] \in Bridge!Chat
                               /\ Bridge!RunOf(m) \in Bridge!Run /\ Bridge!RunOf(m)[1] = m
  /\ \A r \in Bridge!Run : r[1] \in Bridge!Message /\ ChatOf[r[1]] \in Bridge!Chat
  /\ Bridge!NoRun \notin Bridge!Run /\ 0 \notin Bridge!Message
<1>1. \A m \in Bridge!Message : m \in Nat /\ m # 0 /\ ChatOf[m] \in Bridge!Chat
  BY BridgeAssumption DEF Bridge!Message, Bridge!Chat
<1>2. \A m \in Bridge!Message : Bridge!RunOf(m) \in Bridge!Run /\ Bridge!RunOf(m)[1] = m
  BY DEF Bridge!RunOf, Bridge!Run
<1>3. \A r \in Bridge!Run : r[1] \in Bridge!Message
  BY DEF Bridge!Run
<1>4. 0 \notin Bridge!Message
  BY <1>1
<1>5. Bridge!NoRun \notin Bridge!Run
  BY <1>4 DEF Bridge!NoRun, Bridge!Run
<1>. QED
  BY <1>1, <1>2, <1>3, <1>4, <1>5

\* What is published to a message is counted, and stays within the limit.
LEMMA PublishCounts ==
  ASSUME CountsInv, NEW m \in Bridge!Message, NEW n \in Nat, Bridge!Publish(m, n)
  PROVE  CountsInv'
<1>. DEFINE fit  == IF m \notin Bridge!Official THEN 0
                    ELSE IF n <= Bridge!Room(m) THEN n ELSE Bridge!Room(m)
            full == fit > 0 /\ counts[m] = 0 /\ Len(counted) >= CacheLimit
            old  == IF full THEN {Head(counted)} ELSE {}
<1>1. /\ sent' = [sent EXCEPT ![m] = @ + fit]
      /\ forgotten' = forgotten \cup old
      /\ counts' = [x \in Bridge!Message |-> IF x \in old THEN 0
                                             ELSE IF x = m THEN counts[x] + fit ELSE counts[x]]
  BY Zenon DEF Bridge!Publish
<1>2. /\ counts \in [Bridge!Message -> 0..Limit] /\ sent \in [Bridge!Message -> Nat]
      /\ \A x \in Bridge!Message \ forgotten : sent[x] = counts[x]
      /\ Limit \in Nat
  BY BridgeAssumption DEF CountsInv
<1>3. fit \in Nat /\ counts[m] + fit \in 0..Limit
  BY <1>2 DEF Bridge!Room
<1>. HIDE DEF fit, old
<1>4. counts' \in [Bridge!Message -> 0..Limit] /\ sent' \in [Bridge!Message -> Nat]
  BY <1>1, <1>2, <1>3
<1>5. ASSUME NEW x \in Bridge!Message \ forgotten' PROVE sent'[x] = counts'[x]
  <2>1. x \in Bridge!Message \ forgotten /\ x \notin old /\ sent[x] = counts[x]
    BY <1>1, <1>2
  <2>. QED
    BY <1>1, <1>2, <2>1
<1>. QED
  BY <1>4, <1>5 DEF CountsInv

LEMMA BridgeBegins ==
  ASSUME Bridge!Init
  PROVE  CountsInv /\ NoticeInv /\ TalkInv /\ ConsentInv
<1>0. /\ inbox = <<>> /\ task = [m \in Bridge!Message |-> "away"]
      /\ held = [m \in Bridge!Message |-> Bridge!NoRun] /\ again = {}
      /\ pending = [c \in Bridge!Chat |-> Bridge!NoRun]
      /\ conversation = [c \in Bridge!Chat |-> 0] /\ convLock = [c \in Bridge!Chat |-> 0]
      /\ notice = {} /\ counts = [m \in Bridge!Message |-> 0] /\ answered = {}
      /\ sent = [m \in Bridge!Message |-> 0]
      /\ run = [r \in Bridge!Run |-> [status |-> "absent", conv |-> 0]]
      /\ prompted = [c \in Bridge!Chat |-> Bridge!NoRun] /\ consent = [r \in Bridge!Run |-> {}]
  BY DEF Bridge!Init, Bridge!None
<1>1. CountsInv
  <2>1. 0 \in 0..Limit /\ 0 \in Nat
    BY BridgeAssumption
  <2>. QED
    BY <1>0, <2>1 DEF CountsInv
<1>2. NoticeInv
  <2>1. inbox = <<>>
    BY <1>0
  <2>2. inbox \in Seq(Bridge!Message) /\ Len(inbox) = 0
    BY <2>1
  <2>3. task \in [Bridge!Message -> TaskSteps]
    BY <1>0 DEF TaskSteps
  <2>. QED
    BY <1>0, <2>2, <2>3 DEF NoticeInv
<1>3. TalkInv
  BY <1>0, RunsAre DEF TalkInv, RunStates
<1>4. ConsentInv
  BY <1>0, RunsAre DEF ConsentInv
<1>. QED
  BY <1>1, <1>2, <1>3, <1>4

LEMMA CountsGoOn == ASSUME CountsInv, [Bridge!Next]_bridgeVars PROVE CountsInv'
<1>1. CASE \E m \in Bridge!Message : \E n \in Nat : Bridge!Publish(m, n)
  BY <1>1, PublishCounts
<1>2. CASE UNCHANGED <<counts, sent, forgotten>>
  BY <1>2 DEF CountsInv
<1>3. \A m \in Bridge!Message : Bridge!Tell(m) \/ Bridge!Answers(m) =>
         \E n \in Nat : Bridge!Publish(m, n)
  BY BridgeAssumption DEF Bridge!Tell, Bridge!Answers
<1>4. ASSUME NEW m \in Bridge!Message,
             \/ Bridge!ConfirmNotice(m) \/ Bridge!Approved(m) \/ Bridge!Cancel(m)
             \/ Bridge!Thinking(m) \/ Bridge!Notice(m) \/ Bridge!Post(m) \/ Bridge!Unheard(m)
             \/ Bridge!Progress(m) \/ Bridge!StreamEnds(m) \/ Bridge!Result(m)
      PROVE  CountsInv'
  <2>1. CASE Bridge!Result(m)
    <3>1. PICK tools \in {0, 1} : Bridge!Publish(m, tools + Parts) \/ Bridge!Publish(m, tools + 1)
      BY <2>1 DEF Bridge!Result
    <3>2. tools + Parts \in Nat /\ tools + 1 \in Nat
      BY BridgeAssumption
    <3>. QED
      BY <1>1, <3>1, <3>2
  <2>2. CASE Bridge!Progress(m)
    BY <1>1, <2>2 DEF Bridge!Progress
  <2>3. CASE \/ Bridge!ConfirmNotice(m) \/ Bridge!Approved(m) \/ Bridge!Cancel(m)
             \/ Bridge!Thinking(m) \/ Bridge!Notice(m) \/ Bridge!Post(m) \/ Bridge!Unheard(m)
             \/ Bridge!StreamEnds(m)
    <3>1. Bridge!Tell(m) \/ Bridge!Answers(m) \/ UNCHANGED <<counts, sent, forgotten>>
      BY <2>3 DEF Bridge!ConfirmNotice, Bridge!Approved, Bridge!Cancel, Bridge!Thinking,
         Bridge!Notice, Bridge!Post, Bridge!Unheard, Bridge!StreamEnds, Bridge!replies
    <3>. QED
      BY <1>1, <1>2, <1>3, <3>1
  <2>. QED
    BY <1>4, <2>1, <2>2, <2>3
<1>5. ASSUME NEW m \in Bridge!Message,
             \/ Bridge!Arrive(m) \/ Bridge!Approve(m) \/ Bridge!LookUp(m) \/ Bridge!Lock(m)
             \/ Bridge!Make(m)
      PROVE  CountsInv'
  BY <1>2, <1>5 DEF Bridge!Arrive, Bridge!Approve, Bridge!LookUp, Bridge!Lock, Bridge!Make,
     Bridge!replies
<1>6. CASE Bridge!Handle \/ UNCHANGED bridgeVars
  BY <1>2, <1>6 DEF Bridge!Handle, Bridge!replies, bridgeVars
<1>7. ASSUME NEW r \in Bridge!Run, Bridge!RunEnds(r) PROVE CountsInv'
  BY <1>2, <1>7 DEF Bridge!RunEnds, Bridge!replies
<1>. QED
  BY <1>4, <1>5, <1>6, <1>7 DEF Bridge!Next

\* Where a task goes.
LEMMA TaskMoves ==
  ASSUME NoticeInv
  PROVE  \A m \in Bridge!Message : \A p \in TaskSteps :
            Bridge!To(m, p) => OthersStay(m) /\ task'[m] = p
BY DEF NoticeInv, Bridge!To, OthersStay

LEMMA NoticesGoOn == ASSUME NoticeInv, [Bridge!Next]_bridgeVars PROVE NoticeInv'
<1>0. /\ task \in [Bridge!Message -> TaskSteps] /\ inbox \in Seq(Bridge!Message)
      /\ notice \subseteq Bridge!Message /\ answered \subseteq Bridge!Message
      /\ again \subseteq Bridge!Message /\ Len(inbox) \in Nat
      /\ \A i \in 1..Len(inbox) : /\ inbox[i] \in Bridge!Message /\ task[inbox[i]] = "queued"
                                  /\ \A j \in 1..Len(inbox) : i # j => inbox[i] # inbox[j]
      /\ \A m \in notice : task[m] \in Waits /\ (m \in Bridge!Official \/ m \in again)
      /\ \A m \in answered : task[m] \in {"streaming", "done"}
  BY DEF NoticeInv
<1>1. Bridge!Official' = Bridge!Official
  BY DEF Bridge!Official, Bridge!Next, bridgeVars, Bridge!Handle, Bridge!Arrive, Bridge!ConfirmNotice,
     Bridge!Approve, Bridge!Approved, Bridge!Cancel, Bridge!Thinking, Bridge!LookUp, Bridge!Lock,
     Bridge!Make, Bridge!Post, Bridge!Unheard, Bridge!Progress, Bridge!StreamEnds, Bridge!Result,
     Bridge!Notice, Bridge!RunEnds
\* One task goes on from where it is; the others stay.
<1>2. ASSUME NEW m \in Bridge!Message, OthersStay(m), task[m] # "queued", UNCHANGED inbox,
             again' = again \/ again' = again \cup {m},
             notice' \subseteq notice \cup {m}, answered' \subseteq answered \cup {m},
             m \in notice' => task'[m] \in Waits /\ (m \in Bridge!Official \/ m \in again'),
             m \in answered' => task'[m] \in {"streaming", "done"}
      PROVE  NoticeInv'
  <2>1. task' \in [Bridge!Message -> TaskSteps] /\ \A x \in Bridge!Message : x # m => task'[x] = task[x]
    BY <1>2 DEF OthersStay
  <2>3. \A i \in 1..Len(inbox') : /\ task'[inbox'[i]] = "queued"
                                  /\ \A j \in 1..Len(inbox') : i # j => inbox'[i] # inbox'[j]
    BY <1>0, <1>2, <2>1
  <2>4. again' \subseteq Bridge!Message /\ again \subseteq again'
    BY <1>0, <1>2
  <2>5. /\ notice' \subseteq Bridge!Message
        /\ \A x \in notice' : task'[x] \in Waits /\ (x \in Bridge!Official' \/ x \in again')
    BY <1>0, <1>1, <1>2, <2>1, <2>4
  <2>6. /\ answered' \subseteq Bridge!Message
        /\ \A x \in answered' : task'[x] \in {"streaming", "done"}
    BY <1>0, <1>2, <2>1
  <2>. QED
    BY <1>0, <1>2, <2>1, <2>3, <2>4, <2>5, <2>6 DEF NoticeInv
<1>3. ASSUME UNCHANGED <<task, inbox, again>>, notice' \subseteq notice,
             \A x \in answered' : x \in answered \/ (x \in Bridge!Message /\ task[x] = "streaming")
      PROVE  NoticeInv'
  BY <1>0, <1>1, <1>3 DEF NoticeInv
<1>4. CASE Bridge!Handle
  <2>. DEFINE m == Head(inbox)
  <2>1. /\ inbox # <<>> /\ inbox' = Tail(inbox) /\ UNCHANGED <<again, answered>>
        /\ \/ /\ \E word \in MaySay[m] \ {"task"} :
                    Bridge!To(m, IF Bridge!Confirming(word) THEN "confirming" ELSE "cancelling")
              /\ UNCHANGED notice
           \/ /\ Bridge!To(m, IF m \in Bridge!Official THEN "conversation" ELSE "thinking")
              /\ notice' = IF m \in Bridge!Official THEN notice \cup {m} ELSE notice
    BY <1>4 DEF Bridge!Handle, Bridge!replies
  <2>2. /\ inbox' \in Seq(Bridge!Message) /\ Len(inbox') = Len(inbox) - 1 /\ 1 \in 1..Len(inbox)
        /\ m = inbox[1] /\ m \in Bridge!Message
        /\ \A i \in 1..Len(inbox') : inbox'[i] = inbox[i + 1] /\ i + 1 \in 1..Len(inbox) /\ i + 1 # 1
    BY <1>0, <2>1
  <2>. HIDE DEF m
  <2>3. /\ OthersStay(m) /\ task[m] = "queued"
        /\ \/ UNCHANGED notice
           \/ m \in Bridge!Official /\ notice' = notice \cup {m} /\ task'[m] \in Waits
    <3>0. task[m] = "queued" /\ {"confirming", "cancelling", "conversation", "thinking"} \subseteq TaskSteps
      BY <1>0, <2>2 DEF TaskSteps
    <3>1. ASSUME NEW p \in {"confirming", "cancelling"}, Bridge!To(m, p), UNCHANGED notice
          PROVE  OthersStay(m)
      BY TaskMoves, <2>2, <3>0, <3>1
    <3>2. CASE m \in Bridge!Official /\ Bridge!To(m, "conversation") /\ notice' = notice \cup {m}
      BY TaskMoves, <2>2, <3>0, <3>2 DEF Waits
    <3>3. CASE Bridge!To(m, "thinking") /\ UNCHANGED notice
      BY TaskMoves, <2>2, <3>0, <3>3
    <3>. QED
      BY <2>1, <3>0, <3>1, <3>2, <3>3
  <2>4. task' \in [Bridge!Message -> TaskSteps] /\ \A x \in Bridge!Message : x # m => task'[x] = task[x]
    BY <2>3 DEF OthersStay
  <2>5. m \notin notice /\ m \notin answered
    BY <1>0, <2>3 DEF Waits
  <2>6. \A i \in 1..Len(inbox') : /\ task'[inbox'[i]] = "queued"
                                  /\ \A j \in 1..Len(inbox') : i # j => inbox'[i] # inbox'[j]
    <3>1. ASSUME NEW i \in 1..Len(inbox') PROVE inbox'[i] # m /\ inbox'[i] \in Bridge!Message
      <4>1. inbox'[i] = inbox[i + 1] /\ i + 1 \in 1..Len(inbox) /\ i + 1 # 1
        BY <2>2
      <4>2. inbox[i + 1] # inbox[1]
        BY <1>0, <2>2, <4>1
      <4>. QED
        BY <1>0, <2>2, <4>1, <4>2
    <3>2. \A i \in 1..Len(inbox') : task'[inbox'[i]] = "queued"
      BY <1>0, <2>2, <2>4, <3>1
    <3>3. \A i, j \in 1..Len(inbox') : i # j => i + 1 # j + 1
      OBVIOUS
    <3>. QED
      BY <1>0, <2>2, <3>2, <3>3
  <2>7. /\ notice' \subseteq Bridge!Message
        /\ \A x \in notice' : task'[x] \in Waits /\ (x \in Bridge!Official' \/ x \in again')
    BY <1>0, <1>1, <2>1, <2>2, <2>3, <2>4, <2>5
  <2>8. \A x \in answered' : task'[x] \in {"streaming", "done"}
    BY <1>0, <2>1, <2>4, <2>5
  <2>. QED
    BY <1>0, <2>1, <2>2, <2>4, <2>6, <2>7, <2>8 DEF NoticeInv
<1>5. ASSUME NEW m \in Bridge!Message, Bridge!Arrive(m) PROVE NoticeInv'
  <2>1. /\ task[m] = "away" /\ UNCHANGED <<again, notice, answered>>
        /\ \/ Bridge!To(m, "queued") /\ inbox' = Append(inbox, m)
           \/ Bridge!To(m, "done") /\ UNCHANGED inbox
    BY <1>5 DEF Bridge!Arrive, Bridge!replies
  <2>2. m \notin notice /\ m \notin answered /\ "queued" \in TaskSteps /\ "done" \in TaskSteps
    BY <1>0, <2>1 DEF Waits, TaskSteps
  <2>3. CASE Bridge!To(m, "done") /\ UNCHANGED inbox
    <3>1. OthersStay(m)
      BY TaskMoves, <2>2, <2>3
    <3>. QED
      BY <1>2, <2>1, <2>2, <2>3, <3>1
  <2>4. CASE Bridge!To(m, "queued") /\ inbox' = Append(inbox, m)
    <3>1. /\ task' \in [Bridge!Message -> TaskSteps] /\ task'[m] = "queued"
          /\ \A x \in Bridge!Message : x # m => task'[x] = task[x]
      BY TaskMoves, <2>2, <2>4 DEF OthersStay
    <3>2. /\ inbox' \in Seq(Bridge!Message) /\ Len(inbox') = Len(inbox) + 1
          /\ inbox'[Len(inbox) + 1] = m /\ \A i \in 1..Len(inbox) : inbox'[i] = inbox[i]
      BY <1>0, <2>4, AppendProperties
    <3>3. \A i \in 1..Len(inbox') : i \in 1..Len(inbox) \/ i = Len(inbox) + 1
      BY <1>0, <3>2
    <3>4. \A i \in 1..Len(inbox) : inbox[i] # m
      BY <1>0, <2>1
    <3>5. \A i \in 1..Len(inbox') : /\ task'[inbox'[i]] = "queued"
                                    /\ \A j \in 1..Len(inbox') : i # j => inbox'[i] # inbox'[j]
      BY <1>0, <3>1, <3>2, <3>3, <3>4
    <3>6. \A x \in notice' : task'[x] \in Waits /\ (x \in Bridge!Official' \/ x \in again')
      BY <1>0, <1>1, <2>1, <2>2, <3>1
    <3>7. \A x \in answered' : task'[x] \in {"streaming", "done"}
      BY <1>0, <2>1, <2>2, <3>1
    <3>. QED
      BY <1>0, <2>1, <3>1, <3>2, <3>5, <3>6, <3>7 DEF NoticeInv
  <2>. QED
    BY <2>1, <2>3, <2>4
<1>6. ASSUME NEW m \in Bridge!Message,
             \/ Bridge!ConfirmNotice(m) \/ Bridge!Approve(m) \/ Bridge!Cancel(m) \/ Bridge!Thinking(m)
             \/ Bridge!LookUp(m) \/ Bridge!Lock(m) \/ Bridge!Make(m)
      PROVE  NoticeInv'
  <2>1. UNCHANGED <<inbox, again, notice, answered>>
    BY <1>6 DEF Bridge!ConfirmNotice, Bridge!Approve, Bridge!Cancel, Bridge!Thinking,
       Bridge!LookUp, Bridge!Lock, Bridge!Make, Bridge!Tell, Bridge!replies
  <2>2. /\ OthersStay(m)
        /\ task[m] \in {"confirming", "approving", "cancelling", "thinking"} \cup Waits
        /\ task[m] \in Waits => task'[m] \in Waits
    <3>1. CASE Bridge!ConfirmNotice(m) \/ Bridge!Approve(m) \/ Bridge!Cancel(m) \/ Bridge!Thinking(m)
      <4>1. /\ task[m] \in {"confirming", "approving", "cancelling", "thinking"}
            /\ \E p \in {"approving", "approved", "done", "conversation"} : Bridge!To(m, p)
        BY <3>1 DEF Bridge!ConfirmNotice, Bridge!Approve, Bridge!Cancel, Bridge!Thinking
      <4>2. {"approving", "approved", "done", "conversation"} \subseteq TaskSteps
        BY DEF TaskSteps
      <4>. QED
        BY TaskMoves, <4>1, <4>2 DEF Waits
    <3>2. CASE Bridge!LookUp(m) \/ Bridge!Lock(m) \/ Bridge!Make(m)
      <4>1. task[m] \in {"conversation", "locking", "making"}
        BY <3>2 DEF Bridge!LookUp, Bridge!Lock, Bridge!Make
      <4>2. \E p \in {"posting", "making", "locking", "without"} : Bridge!To(m, p)
        <5>1. CASE Bridge!LookUp(m)
          BY <5>1 DEF Bridge!LookUp
        <5>2. CASE Bridge!Lock(m)
          BY <5>2 DEF Bridge!Lock
        <5>3. CASE Bridge!Make(m)
          BY <5>3 DEF Bridge!Make
        <5>. QED
          BY <3>2, <5>1, <5>2, <5>3
      <4>3. {"posting", "making", "locking", "without"} \subseteq TaskSteps \cap Waits
        BY DEF TaskSteps, Waits
      <4>. QED
        BY TaskMoves, <4>1, <4>2, <4>3 DEF Waits
    <3>. QED
      BY <1>6, <3>1, <3>2
  <2>3. task[m] # "queued" /\ m \notin answered
    BY <1>0, <2>2 DEF Waits
  <2>. QED
    BY <1>0, <1>2, <2>1, <2>2, <2>3
<1>7. ASSUME NEW m \in Bridge!Message, Bridge!Approved(m) PROVE NoticeInv'
  <2>1. /\ task[m] = "approved" /\ Bridge!To(m, "done")
        /\ UNCHANGED <<inbox, again, notice>> /\ answered' \subseteq answered \cup {m}
    BY <1>7 DEF Bridge!Approved, Bridge!Tell, Bridge!Answers
  <2>2. m \notin notice /\ "done" \in TaskSteps
    BY <1>0, <2>1 DEF Waits, TaskSteps
  <2>3. OthersStay(m) /\ task'[m] = "done"
    BY TaskMoves, <2>1, <2>2
  <2>. QED
    BY <1>2, <2>1, <2>2, <2>3
<1>8. ASSUME NEW m \in Bridge!Message, Bridge!Post(m) PROVE NoticeInv'
  <2>1. task[m] \in {"posting", "without"} /\ UNCHANGED <<inbox, again>>
    BY <1>8 DEF Bridge!Post
  <2>2. task[m] # "queued" /\ m \notin answered
    BY <1>0, <2>1
  <2>3. {"streaming", "awaiting", "done"} \subseteq TaskSteps
    BY DEF TaskSteps
  <2>4. CASE /\ Bridge!To(m, IF Bridge!Streams(m) THEN "streaming" ELSE "awaiting")
             /\ UNCHANGED <<notice, answered>>
    <3>1. CASE Bridge!Streams(m)
      <4>1. m \notin notice
        BY <1>0, <3>1 DEF Bridge!Streams
      <4>2. OthersStay(m)
        BY TaskMoves, <2>3, <2>4, <3>1
      <4>. QED
        BY <1>2, <2>1, <2>2, <2>4, <4>1, <4>2
    <3>2. CASE ~Bridge!Streams(m)
      <4>1. OthersStay(m) /\ task'[m] = "awaiting"
        BY TaskMoves, <2>3, <2>4, <3>2
      <4>2. m \in notice => m \in Bridge!Official \/ m \in again
        BY <1>0
      <4>. QED
        BY <1>2, <2>1, <2>2, <2>4, <4>1, <4>2 DEF Waits
    <3>. QED
      BY <3>1, <3>2
  <2>5. CASE Bridge!To(m, "done") /\ notice' = notice \ {m} /\ UNCHANGED answered
    <3>1. OthersStay(m)
      BY TaskMoves, <2>3, <2>5
    <3>. QED
      BY <1>2, <2>1, <2>2, <2>5, <3>1
  <2>. QED
    BY <1>8, <2>4, <2>5 DEF Bridge!Post, Bridge!Tell, Bridge!replies
<1>9. ASSUME NEW m \in Bridge!Message, Bridge!Unheard(m) PROVE NoticeInv'
  <2>1. task[m] \in {"streaming", "awaiting"} /\ UNCHANGED inbox
    BY <1>9 DEF Bridge!Unheard
  <2>2. CASE /\ again' = again \cup {m} /\ Bridge!To(m, "conversation") /\ notice' = notice \cup {m}
             /\ answered' = answered \ {m}
    <3>1. OthersStay(m) /\ task'[m] = "conversation" /\ "conversation" \in Waits
      BY TaskMoves, <2>2 DEF TaskSteps, Waits
    <3>. QED
      BY <1>2, <2>1, <2>2, <3>1
  <2>3. CASE /\ Bridge!To(m, "done") /\ notice' = notice \ {m} /\ UNCHANGED <<again, answered>>
    <3>1. OthersStay(m) /\ task'[m] = "done"
      BY TaskMoves, <2>3 DEF TaskSteps
    <3>. QED
      BY <1>2, <2>1, <2>3, <3>1
  <2>. QED
    BY <1>9, <2>2, <2>3 DEF Bridge!Unheard, Bridge!Tell
<1>10. ASSUME NEW m \in Bridge!Message, Bridge!StreamEnds(m) PROVE NoticeInv'
  <2>1. /\ task[m] = "streaming" /\ Bridge!To(m, "done")
        /\ UNCHANGED <<inbox, again, notice>> /\ answered' \subseteq answered \cup {m}
    BY <1>10 DEF Bridge!StreamEnds, Bridge!Outcome, Bridge!Tell, Bridge!Answers, Bridge!replies
  <2>2. m \notin notice /\ "done" \in TaskSteps
    BY <1>0, <2>1 DEF Waits, TaskSteps
  <2>3. OthersStay(m) /\ task'[m] = "done"
    BY TaskMoves, <2>1, <2>2
  <2>. QED
    BY <1>2, <2>1, <2>2, <2>3
<1>11. ASSUME NEW m \in Bridge!Message, Bridge!Result(m) PROVE NoticeInv'
  <2>1. /\ task[m] = "awaiting" /\ Bridge!To(m, "done")
        /\ UNCHANGED <<inbox, again>> /\ notice' = notice \ {m} /\ answered' \subseteq answered \cup {m}
    BY <1>11 DEF Bridge!Result, Bridge!Outcome
  <2>2. OthersStay(m) /\ task'[m] = "done"
    BY TaskMoves, <2>1 DEF TaskSteps
  <2>. QED
    BY <1>2, <2>1, <2>2
<1>12. ASSUME NEW m \in Bridge!Message, Bridge!Progress(m) \/ Bridge!Notice(m) PROVE NoticeInv'
  <2>1. UNCHANGED <<task, inbox, again>> /\ notice' \subseteq notice
    BY <1>12 DEF Bridge!Progress, Bridge!Notice
  <2>2. UNCHANGED answered \/ (task[m] = "streaming" /\ answered' = answered \cup {m})
    BY <1>12 DEF Bridge!Progress, Bridge!Notice, Bridge!Tell
  <2>. QED
    BY <1>3, <2>1, <2>2
<1>13. CASE UNCHANGED bridgeVars \/ \E r \in Bridge!Run : Bridge!RunEnds(r)
  BY <1>3, <1>13 DEF bridgeVars, Bridge!RunEnds, Bridge!replies
<1>. QED
  BY <1>4, <1>5, <1>6, <1>7, <1>8, <1>9, <1>10, <1>11, <1>12, <1>13 DEF Bridge!Next

LEMMA TalksGoOn ==
  ASSUME TalkInv, NoticeInv, [Bridge!Next]_bridgeVars
  PROVE  TalkInv'
<1>0. /\ conversation \in [Bridge!Chat -> Bridge!Message \cup {0}]
      /\ convLock \in [Bridge!Chat -> Bridge!Message \cup {0}]
      /\ run \in [Bridge!Run -> [status : RunStates, conv : Bridge!Message \cup {0}]]
      /\ \A m \in Bridge!Message : task[m] = "making" =>
            convLock[ChatOf[m]] = m /\ conversation[ChatOf[m]] = 0
      /\ \A r \in Bridge!Run : run[r].conv # 0 => run[r].conv = conversation[ChatOf[r[1]]]
  BY DEF TalkInv
\* Nobody begins to make a conversation, and what runs are about stays.
<1>1. ASSUME UNCHANGED <<conversation, convLock>>,
             \A m \in Bridge!Message : task'[m] = "making" => task[m] = "making",
             run' \in [Bridge!Run -> [status : RunStates, conv : Bridge!Message \cup {0}]],
             \A r \in Bridge!Run : run'[r].conv = run[r].conv
      PROVE  TalkInv'
  BY <1>0, <1>1 DEF TalkInv
<1>2. ASSUME UNCHANGED <<conversation, convLock, run>>,
             \A m \in Bridge!Message : task'[m] = "making" => task[m] = "making"
      PROVE  TalkInv'
  BY <1>0, <1>1, <1>2
\* The state of a run changes.
<1>3. ASSUME NEW r \in Bridge!Run, NEW p \in RunStates, run' = [run EXCEPT ![r].status = p]
      PROVE  /\ run' \in [Bridge!Run -> [status : RunStates, conv : Bridge!Message \cup {0}]]
             /\ \A x \in Bridge!Run : run'[x].conv = run[x].conv
  <2>1. \A y \in [status : RunStates, conv : Bridge!Message \cup {0}] :
           /\ [y EXCEPT !.status = p] \in [status : RunStates, conv : Bridge!Message \cup {0}]
           /\ [y EXCEPT !.status = p].conv = y.conv
    OBVIOUS
  <2>2. run' = [run EXCEPT ![r] = [run[r] EXCEPT !.status = p]]
    BY <1>3
  <2>. QED
    BY <1>0, <2>1, <2>2
<1>4. CASE Bridge!Handle
  <2>. DEFINE m == Head(inbox)
  <2>1. /\ inbox # <<>> /\ UNCHANGED <<conversation, convLock, run>>
        /\ \E p \in {"confirming", "cancelling", "conversation", "thinking"} : Bridge!To(m, p)
    BY <1>4 DEF Bridge!Handle, Bridge!convs, Bridge!server
  <2>2. m \in Bridge!Message
    BY <2>1 DEF NoticeInv
  <2>. HIDE DEF m
  <2>3. \A x \in Bridge!Message : task'[x] = "making" => task[x] = "making"
    BY <2>1, <2>2, TaskMoves DEF OthersStay, TaskSteps
  <2>. QED
    BY <1>2, <2>1, <2>3
<1>5. ASSUME NEW m \in Bridge!Message,
             \/ Bridge!Arrive(m) \/ Bridge!ConfirmNotice(m) \/ Bridge!Approved(m) \/ Bridge!Cancel(m)
             \/ Bridge!Thinking(m) \/ Bridge!Unheard(m) \/ Bridge!StreamEnds(m) \/ Bridge!Result(m)
      PROVE  TalkInv'
  <2>1. /\ UNCHANGED <<conversation, convLock, run>>
        /\ \E p \in {"queued", "done", "approving", "conversation"} : Bridge!To(m, p)
    BY <1>5 DEF Bridge!Arrive, Bridge!ConfirmNotice, Bridge!Approved, Bridge!Cancel, Bridge!Thinking,
       Bridge!Unheard, Bridge!StreamEnds, Bridge!Result, Bridge!Outcome, Bridge!convs, Bridge!server
  <2>2. \A x \in Bridge!Message : task'[x] = "making" => task[x] = "making"
    BY <2>1, TaskMoves DEF OthersStay, TaskSteps
  <2>. QED
    BY <1>2, <2>1, <2>2
<1>6. ASSUME NEW m \in Bridge!Message, Bridge!Approve(m) PROVE TalkInv'
  <2>1. /\ UNCHANGED <<conversation, convLock>> /\ Bridge!To(m, "approved")
        /\ \/ UNCHANGED run
           \/ run[held[m]].status = "waiting" /\ run' = [run EXCEPT ![held[m]].status = "running"]
    BY <1>6 DEF Bridge!Approve, Bridge!convs, Bridge!server
  <2>2. \A x \in Bridge!Message : task'[x] = "making" => task[x] = "making"
    BY <2>1, TaskMoves DEF OthersStay, TaskSteps
  <2>3. CASE UNCHANGED run
    BY <1>2, <2>1, <2>2, <2>3
  <2>4. CASE run' = [run EXCEPT ![held[m]].status = "running"]
    <3>1. CASE held[m] \in Bridge!Run
      BY <1>1, <1>3, <2>1, <2>2, <2>4, <3>1 DEF RunStates
    <3>2. CASE held[m] \notin Bridge!Run
      <4>1. UNCHANGED run
        BY <1>0, <2>4, <3>2
      <4>. QED
        BY <2>3, <4>1
    <3>. QED
      BY <3>1, <3>2
  <2>. QED
    BY <2>1, <2>3, <2>4
<1>7. ASSUME NEW m \in Bridge!Message, Bridge!LookUp(m) \/ Bridge!Lock(m) PROVE TalkInv'
  <2>. DEFINE c == ChatOf[m]
  <2>1. /\ UNCHANGED <<conversation, run>>
        /\ \/ /\ convLock[c] = 0 /\ conversation[c] = 0 /\ Bridge!To(m, "making")
              /\ convLock' = [convLock EXCEPT ![c] = m]
           \/ /\ UNCHANGED convLock
              /\ Bridge!To(m, "posting") \/ Bridge!To(m, "locking")
    BY <1>7 DEF Bridge!LookUp, Bridge!Lock, Bridge!None, Bridge!server
  <2>2. {"making", "posting", "locking"} \subseteq TaskSteps
    BY DEF TaskSteps
  <2>3. CASE Bridge!To(m, "posting") \/ Bridge!To(m, "locking")
    <3>1. \A x \in Bridge!Message : task'[x] = "making" => task[x] = "making"
      BY <2>2, <2>3, TaskMoves DEF OthersStay
    <3>2. CASE UNCHANGED convLock
      BY <1>2, <2>1, <3>1, <3>2
    <3>3. CASE Bridge!To(m, "making")
      BY <2>2, <2>3, <3>3, TaskMoves
    <3>. QED
      BY <2>1, <3>2, <3>3
  <2>4. CASE /\ convLock[c] = 0 /\ conversation[c] = 0 /\ Bridge!To(m, "making")
             /\ convLock' = [convLock EXCEPT ![c] = m]
    <3>1. OthersStay(m) /\ task'[m] = "making"
      BY <2>2, <2>4, TaskMoves
    <3>2. /\ c \in Bridge!Chat /\ convLock' \in [Bridge!Chat -> Bridge!Message \cup {0}]
          /\ convLock'[c] = m /\ \A d \in Bridge!Chat : d # c => convLock'[d] = convLock[d]
      BY <1>0, <2>4, RunsAre
    <3>3. ASSUME NEW x \in Bridge!Message, task'[x] = "making"
          PROVE  convLock'[ChatOf[x]] = x /\ conversation'[ChatOf[x]] = 0
      <4>1. CASE x = m
        BY <2>1, <2>4, <3>2, <4>1
      <4>2. CASE x # m
        <5>1. task[x] = "making" /\ ChatOf[x] \in Bridge!Chat /\ x # 0
          BY <3>1, <3>3, <4>2, RunsAre DEF OthersStay
        <5>2. convLock[ChatOf[x]] = x /\ conversation[ChatOf[x]] = 0
          BY <1>0, <5>1
        <5>3. ChatOf[x] # c
          BY <2>4, <5>1, <5>2
        <5>. QED
          BY <2>1, <3>2, <5>1, <5>2, <5>3
      <4>. QED
        BY <4>1, <4>2
    <3>. QED
      BY <1>0, <2>1, <3>2, <3>3 DEF TalkInv
  <2>. QED
    BY <2>1, <2>3, <2>4
<1>8. ASSUME NEW m \in Bridge!Message, Bridge!Make(m) PROVE TalkInv'
  <2>. DEFINE c == ChatOf[m]
  <2>1. /\ task[m] = "making" /\ UNCHANGED run
        /\ conversation' = [conversation EXCEPT ![c] = m] \/ UNCHANGED conversation
        /\ convLock' = [convLock EXCEPT ![c] = 0]
        /\ Bridge!To(m, "posting") \/ Bridge!To(m, "without")
    BY <1>8 DEF Bridge!Make, Bridge!None, Bridge!server
  <2>2. c \in Bridge!Chat /\ convLock[c] = m /\ conversation[c] = 0 /\ m # 0
    BY <1>0, <2>1, RunsAre
  <2>3. /\ conversation' \in [Bridge!Chat -> Bridge!Message \cup {0}]
        /\ convLock' \in [Bridge!Chat -> Bridge!Message \cup {0}]
        /\ \A d \in Bridge!Chat : d # c => convLock'[d] = convLock[d] /\ conversation'[d] = conversation[d]
    BY <1>0, <2>1, <2>2
  <2>4. \A x \in Bridge!Message : task'[x] = "making" => task[x] = "making" /\ x # m
    BY <2>1, TaskMoves DEF OthersStay, TaskSteps
  <2>5. ASSUME NEW x \in Bridge!Message, task'[x] = "making"
        PROVE  convLock'[ChatOf[x]] = x /\ conversation'[ChatOf[x]] = 0
    <3>1. /\ x # m /\ ChatOf[x] \in Bridge!Chat
          /\ convLock[ChatOf[x]] = x /\ conversation[ChatOf[x]] = 0
      BY <1>0, <2>4, <2>5, RunsAre
    <3>2. ChatOf[x] # c
      BY <2>2, <3>1
    <3>. QED
      BY <2>3, <3>1, <3>2
  <2>6. ASSUME NEW r \in Bridge!Run, run'[r].conv # 0
        PROVE  run'[r].conv = conversation'[ChatOf[r[1]]]
    <3>1. /\ run'[r].conv = run[r].conv /\ run[r].conv = conversation[ChatOf[r[1]]]
          /\ ChatOf[r[1]] \in Bridge!Chat
      BY <1>0, <2>1, <2>6, RunsAre
    <3>2. ChatOf[r[1]] # c
      BY <2>2, <2>6, <3>1
    <3>. QED
      BY <2>3, <3>1, <3>2
  <2>. QED
    BY <1>0, <2>1, <2>3, <2>5, <2>6 DEF TalkInv
<1>9. ASSUME NEW m \in Bridge!Message, Bridge!Post(m) PROVE TalkInv'
  <2>. DEFINE cv == IF task[m] = "posting" THEN conversation[ChatOf[m]] ELSE 0
              r == Bridge!RunOf(m)
  <2>1. /\ UNCHANGED <<conversation, convLock>>
        /\ \E p \in {"streaming", "awaiting", "done"} : Bridge!To(m, p)
        /\ UNCHANGED run \/ run' = [run EXCEPT ![r] = [status |-> "running", conv |-> cv]]
    BY <1>9 DEF Bridge!Post, Bridge!None, Bridge!convs
  <2>2. \A x \in Bridge!Message : task'[x] = "making" => task[x] = "making"
    BY <2>1, TaskMoves DEF OthersStay, TaskSteps
  <2>3. CASE UNCHANGED run
    BY <1>2, <2>1, <2>2, <2>3
  <2>4. CASE run' = [run EXCEPT ![r] = [status |-> "running", conv |-> cv]]
    <3>1. r \in Bridge!Run /\ r[1] = m /\ ChatOf[m] \in Bridge!Chat
      BY RunsAre
    <3>2. cv \in Bridge!Message \cup {0} /\ (cv # 0 => cv = conversation[ChatOf[m]])
      BY <1>0, <3>1
    <3>. HIDE DEF cv, r
    <3>3. [status |-> "running", conv |-> cv] \in [status : RunStates, conv : Bridge!Message \cup {0}]
      BY <3>2 DEF RunStates
    <3>4. /\ run' \in [Bridge!Run -> [status : RunStates, conv : Bridge!Message \cup {0}]]
          /\ run'[r].conv = cv /\ \A x \in Bridge!Run : x # r => run'[x] = run[x]
      BY <1>0, <2>4, <3>1, <3>3
    <3>5. \A x \in Bridge!Run : run'[x].conv # 0 => run'[x].conv = conversation'[ChatOf[x[1]]]
      BY <1>0, <2>1, <3>1, <3>2, <3>4
    <3>. QED
      BY <1>0, <2>1, <2>2, <3>4, <3>5 DEF TalkInv
  <2>. QED
    BY <2>1, <2>3, <2>4
<1>10. ASSUME NEW m \in Bridge!Message, Bridge!Progress(m) \/ Bridge!Notice(m) PROVE TalkInv'
  BY <1>2, <1>10 DEF Bridge!Progress, Bridge!Notice, Bridge!convs, Bridge!server
<1>11. ASSUME NEW r \in Bridge!Run, Bridge!RunEnds(r) PROVE TalkInv'
  <2>1. UNCHANGED <<task, conversation, convLock>> /\ \E p \in RunStates : run' = [run EXCEPT ![r].status = p]
    BY <1>11 DEF Bridge!RunEnds, Bridge!convs, RunStates
  <2>. QED
    BY <1>1, <1>3, <2>1
<1>12. CASE UNCHANGED bridgeVars
  BY <1>2, <1>12 DEF bridgeVars
<1>. QED
  BY <1>4, <1>5, <1>6, <1>7, <1>8, <1>9, <1>10, <1>11, <1>12 DEF Bridge!Next

LEMMA ConsentGoesOn ==
  ASSUME ConsentInv, NoticeInv, [Bridge!Next]_bridgeVars
  PROVE  ConsentInv'
<1>. DEFINE Perhaps == Bridge!Run \cup {Bridge!NoRun}
            About(m) == m \in {"confirming", "approving"}
<1>0. /\ pending \in [Bridge!Chat -> Perhaps] /\ prompted \in [Bridge!Chat -> Perhaps]
      /\ held \in [Bridge!Message -> Perhaps] /\ consent \in [Bridge!Run -> SUBSET Bridge!Message]
      /\ \A c \in Bridge!Chat : pending[c] # Bridge!NoRun =>
            pending[c] = prompted[c] /\ pending[c] \in Bridge!Run /\ ChatOf[pending[c][1]] = c
      /\ \A m \in Bridge!Message : About(task[m]) => held[m] \in Bridge!Run /\ Entitled(m, held[m])
      /\ \A r \in Bridge!Run : \A m \in consent[r] : Entitled(m, r)
  BY DEF ConsentInv
\* What chats wait for: the same, nothing, or the run whose prompt is shown.
<1>1. ASSUME NEW c \in Bridge!Chat, NEW r \in Perhaps, pending' = [pending EXCEPT ![c] = r],
             \/ r = Bridge!NoRun /\ UNCHANGED prompted
             \/ r \in Bridge!Run /\ ChatOf[r[1]] = c /\ prompted' = [prompted EXCEPT ![c] = r]
      PROVE  /\ pending' \in [Bridge!Chat -> Perhaps] /\ prompted' \in [Bridge!Chat -> Perhaps]
             /\ \A d \in Bridge!Chat : pending'[d] # Bridge!NoRun =>
                   pending'[d] = prompted'[d] /\ pending'[d] \in Bridge!Run /\ ChatOf[pending'[d][1]] = d
  BY <1>0, <1>1
\* Nobody comes to confirm.
<1>2. ASSUME UNCHANGED <<held, consent>>,
             \A m \in Bridge!Message : About(task'[m]) => About(task[m]),
             \/ UNCHANGED <<pending, prompted>>
             \/ /\ pending' \in [Bridge!Chat -> Perhaps] /\ prompted' \in [Bridge!Chat -> Perhaps]
                /\ \A d \in Bridge!Chat : pending'[d] # Bridge!NoRun =>
                      pending'[d] = prompted'[d] /\ pending'[d] \in Bridge!Run
                      /\ ChatOf[pending'[d][1]] = d
      PROVE  ConsentInv'
  <2>1. \A m \in Bridge!Message : About(task'[m]) => held'[m] \in Bridge!Run /\ Entitled(m, held'[m])
    BY <1>0, <1>2
  <2>2. /\ held' \in [Bridge!Message -> Perhaps] /\ consent' \in [Bridge!Run -> SUBSET Bridge!Message]
        /\ \A r \in Bridge!Run : \A m \in consent'[r] : Entitled(m, r)
    BY <1>0, <1>2
  <2>3. CASE UNCHANGED <<pending, prompted>>
    BY <1>0, <2>1, <2>2, <2>3 DEF ConsentInv
  <2>4. CASE ~UNCHANGED <<pending, prompted>>
    BY <1>2, <2>1, <2>2, <2>4 DEF ConsentInv
  <2>. QED
    BY <2>3, <2>4
\* A task goes where nothing is confirmed, or from the notice to the call.
<1>3. ASSUME NEW m \in Bridge!Message, NEW p \in TaskSteps, Bridge!To(m, p), About(p) => About(task[m])
      PROVE  \A x \in Bridge!Message : About(task'[x]) => About(task[x])
  BY <1>3, TaskMoves DEF OthersStay
<1>4. CASE Bridge!Handle
  <2>. DEFINE m == Head(inbox)
              c == ChatOf[m]
              mine == pending[c] # Bridge!NoRun /\ Bridge!Requester(pending[c]) = UserOf[m]
  <2>0. inbox # <<>> /\ UNCHANGED <<consent, prompted>>
    BY <1>4 DEF Bridge!Handle, Bridge!server
  <2>1. m \in Bridge!Message
    BY <2>0 DEF NoticeInv
  <2>2. CASE /\ mine /\ held' = [held EXCEPT ![m] = pending[c]] /\ UNCHANGED pending
             /\ \E p \in {"confirming", "cancelling"} : Bridge!To(m, p)
    <3>. HIDE DEF m
    <3>1. OthersStay(m)
      BY <2>1, <2>2, TaskMoves DEF TaskSteps
    <3>2. /\ pending[c] \in Bridge!Run /\ Entitled(m, pending[c])
      BY <1>0, <2>1, <2>2, RunsAre DEF Bridge!Requester, Entitled
    <3>3. /\ held' \in [Bridge!Message -> Perhaps] /\ held'[m] = pending[c]
          /\ \A x \in Bridge!Message : x # m => held'[x] = held[x]
      BY <1>0, <2>1, <2>2, <3>2
    <3>4. \A x \in Bridge!Message : About(task'[x]) => held'[x] \in Bridge!Run /\ Entitled(x, held'[x])
      BY <1>0, <3>1, <3>2, <3>3 DEF OthersStay
    <3>. QED
      BY <1>0, <2>0, <2>2, <3>3, <3>4 DEF ConsentInv
  <2>3. CASE /\ UNCHANGED held
             /\ pending' = IF mine THEN [pending EXCEPT ![c] = Bridge!NoRun] ELSE pending
             /\ \E p \in {"conversation", "thinking"} : Bridge!To(m, p)
    <3>1. {"conversation", "thinking"} \subseteq TaskSteps
      BY DEF TaskSteps
    <3>. HIDE DEF m
    <3>2. \A x \in Bridge!Message : About(task'[x]) => About(task[x])
      BY <1>3, <2>1, <2>3, <3>1
    <3>3. CASE mine
      <4>1. c \in Bridge!Chat /\ pending' = [pending EXCEPT ![c] = Bridge!NoRun]
        BY <2>1, <2>3, <3>3, RunsAre
      <4>. HIDE DEF c, mine
      <4>. QED
        BY <1>1, <1>2, <2>0, <2>3, <3>2, <4>1
    <3>4. CASE ~mine
      BY <1>2, <2>0, <2>3, <3>2, <3>4
    <3>. QED
      BY <3>3, <3>4
  <2>. QED
    <3>1. CASE /\ mine /\ held' = [held EXCEPT ![m] = pending[c]] /\ UNCHANGED pending
               /\ \E word \in MaySay[m] \ {"task"} :
                     Bridge!To(m, IF Bridge!Confirming(word) THEN "confirming" ELSE "cancelling")
      <4>1. \E p \in {"confirming", "cancelling"} : Bridge!To(m, p)
        BY <3>1
      <4>. QED
        BY <2>2, <3>1, <4>1
    <3>2. CASE /\ UNCHANGED held
               /\ pending' = IF mine THEN [pending EXCEPT ![c] = Bridge!NoRun] ELSE pending
               /\ Bridge!To(m, IF m \in Bridge!Official THEN "conversation" ELSE "thinking")
      <4>1. \E p \in {"conversation", "thinking"} : Bridge!To(m, p)
        BY <3>2
      <4>. QED
        BY <2>3, <3>2, <4>1
    <3>. QED
      BY <1>4, <3>1, <3>2, Zenon DEF Bridge!Handle
<1>5. ASSUME NEW m \in Bridge!Message,
             \/ Bridge!Arrive(m) \/ Bridge!Thinking(m) \/ Bridge!LookUp(m) \/ Bridge!Lock(m)
             \/ Bridge!Make(m) \/ Bridge!Post(m) \/ Bridge!Unheard(m)
      PROVE  ConsentInv'
  <2>. DEFINE Gone == {"queued", "done", "conversation", "posting", "making", "locking",
                       "without", "streaming", "awaiting"}
  <2>1. UNCHANGED <<pending, prompted, held, consent>>
    BY <1>5 DEF Bridge!Arrive, Bridge!Thinking, Bridge!LookUp, Bridge!Lock, Bridge!Make,
       Bridge!Post, Bridge!Unheard, Bridge!server
  <2>2. \E p \in Gone : Bridge!To(m, p)
    <3>1. CASE Bridge!Arrive(m) \/ Bridge!Thinking(m) \/ Bridge!Unheard(m)
      BY <3>1 DEF Bridge!Arrive, Bridge!Thinking, Bridge!Unheard
    <3>2. CASE Bridge!LookUp(m)
      BY <3>2 DEF Bridge!LookUp
    <3>3. CASE Bridge!Lock(m)
      BY <3>3 DEF Bridge!Lock
    <3>4. CASE Bridge!Make(m)
      BY <3>4 DEF Bridge!Make
    <3>5. CASE Bridge!Post(m)
      BY <3>5 DEF Bridge!Post
    <3>. QED
      BY <1>5, <3>1, <3>2, <3>3, <3>4, <3>5
  <2>3. \A p \in Gone : p \in TaskSteps /\ ~About(p)
    BY DEF TaskSteps
  <2>4. \A x \in Bridge!Message : About(task'[x]) => About(task[x])
    <3>. HIDE DEF Gone, About
    <3>. QED
      BY <1>3, <2>2, <2>3
  <2>. QED
    BY <1>2, <2>1, <2>4
<1>6. ASSUME NEW m \in Bridge!Message, Bridge!ConfirmNotice(m) PROVE ConsentInv'
  <2>1. UNCHANGED <<pending, prompted, held, consent>>
    BY <1>6 DEF Bridge!ConfirmNotice, Bridge!server
  <2>2. task[m] = "confirming" /\ Bridge!To(m, "approving") /\ "approving" \in TaskSteps
    BY <1>6 DEF Bridge!ConfirmNotice, TaskSteps
  <2>. QED
    BY <1>2, <1>3, <2>1, <2>2
<1>7. ASSUME NEW m \in Bridge!Message, Bridge!Approve(m) PROVE ConsentInv'
  <2>1. /\ UNCHANGED <<pending, prompted, held>> /\ task[m] = "approving" /\ Bridge!To(m, "approved")
        /\ UNCHANGED consent \/ consent' = [consent EXCEPT ![held[m]] = @ \cup {m}]
        /\ "approved" \in TaskSteps
    BY <1>7 DEF Bridge!Approve, Bridge!server, TaskSteps
  <2>2. \A x \in Bridge!Message : About(task'[x]) => About(task[x])
    BY <1>3, <2>1
  <2>3. CASE UNCHANGED consent
    BY <1>2, <2>1, <2>2, <2>3
  <2>4. CASE consent' = [consent EXCEPT ![held[m]] = @ \cup {m}]
    <3>1. held[m] \in Bridge!Run /\ Entitled(m, held[m])
      BY <1>0, <2>1
    <3>2. /\ consent' \in [Bridge!Run -> SUBSET Bridge!Message]
          /\ consent'[held[m]] = consent[held[m]] \cup {m}
          /\ \A r \in Bridge!Run : r # held[m] => consent'[r] = consent[r]
      BY <1>0, <2>4, <3>1
    <3>3. \A r \in Bridge!Run : \A x \in consent'[r] : Entitled(x, r)
      BY <1>0, <3>1, <3>2
    <3>4. \A x \in Bridge!Message : About(task'[x]) => held'[x] \in Bridge!Run /\ Entitled(x, held'[x])
      BY <1>0, <2>1, <2>2
    <3>. QED
      BY <1>0, <2>1, <3>2, <3>3, <3>4 DEF ConsentInv
  <2>. QED
    BY <2>1, <2>3, <2>4
<1>8. ASSUME NEW m \in Bridge!Message, Bridge!Approved(m) \/ Bridge!Cancel(m) PROVE ConsentInv'
  <2>1. /\ UNCHANGED <<prompted, held, consent>> /\ Bridge!To(m, "done") /\ "done" \in TaskSteps
        /\ pending' = [pending EXCEPT ![ChatOf[m]] = Bridge!NoRun] /\ ChatOf[m] \in Bridge!Chat
    BY <1>8, RunsAre DEF Bridge!Approved, Bridge!Cancel, Bridge!server, TaskSteps
  <2>2. \A x \in Bridge!Message : About(task'[x]) => About(task[x])
    BY <1>3, <2>1
  <2>. QED
    BY <1>1, <1>2, <2>1, <2>2
<1>9. ASSUME NEW m \in Bridge!Message, Bridge!StreamEnds(m) \/ Bridge!Result(m) PROVE ConsentInv'
  <2>. DEFINE r == Bridge!RunOf(m)
              c == ChatOf[m]
  <2>1. /\ UNCHANGED <<held, consent>> /\ Bridge!To(m, "done") /\ "done" \in TaskSteps
        /\ \/ UNCHANGED <<pending, prompted>>
           \/ pending' = [pending EXCEPT ![c] = r] /\ prompted' = [prompted EXCEPT ![c] = r]
    BY <1>9 DEF Bridge!StreamEnds, Bridge!Result, Bridge!Outcome, Bridge!Ask, Bridge!server, TaskSteps
  <2>2. \A x \in Bridge!Message : About(task'[x]) => About(task[x])
    BY <1>3, <2>1
  <2>3. r \in Bridge!Run /\ r[1] = m /\ c \in Bridge!Chat
    BY RunsAre
  <2>. HIDE DEF r, c
  <2>4. CASE UNCHANGED <<pending, prompted>>
    BY <1>2, <2>1, <2>2, <2>4
  <2>5. CASE pending' = [pending EXCEPT ![c] = r] /\ prompted' = [prompted EXCEPT ![c] = r]
    <3>1. ChatOf[r[1]] = c
      BY <2>3 DEF c
    <3>2. /\ pending' \in [Bridge!Chat -> Perhaps] /\ prompted' \in [Bridge!Chat -> Perhaps]
          /\ \A d \in Bridge!Chat : pending'[d] # Bridge!NoRun =>
                pending'[d] = prompted'[d] /\ pending'[d] \in Bridge!Run /\ ChatOf[pending'[d][1]] = d
      BY <1>1, <2>3, <2>5, <3>1
    <3>. QED
      BY <1>2, <2>1, <2>2, <3>2
  <2>. QED
    BY <2>1, <2>4, <2>5
<1>10. ASSUME NEW m \in Bridge!Message, Bridge!Progress(m) \/ Bridge!Notice(m) PROVE ConsentInv'
  BY <1>2, <1>10 DEF Bridge!Progress, Bridge!Notice, Bridge!server
<1>11. CASE UNCHANGED bridgeVars \/ \E r \in Bridge!Run : Bridge!RunEnds(r)
  BY <1>2, <1>11 DEF bridgeVars, Bridge!RunEnds
<1>. QED
  BY <1>4, <1>5, <1>6, <1>7, <1>8, <1>9, <1>10, <1>11 DEF Bridge!Next

BridgeInv == CountsInv /\ NoticeInv /\ TalkInv /\ ConsentInv

LEMMA BridgeIsSound == SpecAll => [](part = "bridge" => BridgeInv)
<1>. DEFINE I == part = "bridge" => BridgeInv
<1>1. InitAll => I
  BY BridgeBegins DEF InitAll, BridgeInv
<1>2. I /\ [NextAll]_allVars => I'
  BY OneReaches, CountsGoOn, NoticesGoOn, TalksGoOn, ConsentGoesOn DEF BridgeInv
<1>. QED
  BY <1>1, <1>2, PTL DEF SpecAll

(* A run of a chat goes on only at a word of the person who asked for it,  *)
(* in the chat that was shown its prompt last, and whoever asks together   *)
(* shares one conversation (AgentBridge._handle_message, its              *)
(* confirmations and _ensure_conversation).                                *)
THEOREM ChatsConsent == SpecAll => []ConsentInChat
<1>1. (part = "bridge" => BridgeInv) => ConsentInChat
  <2>1. ASSUME ConsentInv PROVE Bridge!AskedBeforeApproved
    BY <2>1 DEF ConsentInv, Entitled, Bridge!AskedBeforeApproved, Bridge!Requester
  <2>2. ASSUME TalkInv PROVE Bridge!OneConversation
    BY <2>2, RunsAre DEF TalkInv, Bridge!OneConversation, Bridge!None
  <2>. QED
    BY <2>1, <2>2 DEF ConsentInChat, BridgeInv
<1>. QED
  BY <1>1, BridgeIsSound, PTL

(* However the tasks of a chat overlap, no more replies go to a message    *)
(* than the platform takes, and no notice follows the answer (AgentBridge,  *)
(* _publish_reply and the delayed notice).                                 *)
THEOREM RepliesAreBounded == SpecAll => []RepliesBounded
<1>1. (part = "bridge" => BridgeInv) => RepliesBounded
  <2>1. ASSUME CountsInv PROVE Bridge!RepliesWithinLimit
    <3>1. \A m \in Bridge!Message \ forgotten : sent[m] <= Limit
      BY <2>1, BridgeAssumption DEF CountsInv
    <3>. QED
      BY <3>1 DEF Bridge!RepliesWithinLimit, Bridge!Official
  <2>2. ASSUME NoticeInv PROVE Bridge!NoticeBeforeAnswer
    BY <2>2 DEF NoticeInv, Waits, Bridge!NoticeBeforeAnswer
  <2>. QED
    BY <2>1, <2>2 DEF RepliesBounded, BridgeInv
<1>. QED
  BY <1>1, BridgeIsSound, PTL

-----------------------------------------------------------------------------
(* Outreach: what is logged, pushed and retried.                            *)

TickStates == {"idle", "pulling", "checking", "logging", "posting", "storing"}
Ticks == [at : TickStates, sources : Seq(Sensor), events : Seq(Pushes!Event), ok : BOOLEAN]

Comes(e, s) == \E i \in DOMAIN Brings[s] : Brings[s][i] = e

\* A tick that is at an event: it came from the source the tick is at.
EventsAt(k) ==
    /\ k.events # <<>> /\ k.sources # <<>>
    /\ \A i \in 1..Len(k.events) : Comes(k.events[i], Head(k.sources))

KeyAt(k) == Pushes!Key(Head(k.events), Head(k.sources))
Keys == {Pushes!Key(e, s) : e \in Pushes!Event, s \in Sensor}
Rows == [key : Keys, by : Pushes!Ticker, posted : Nat, uncounted : Nat,
         status : {"sent", "failed"}, retries : Nat]

TicksInv ==
    /\ sources \in Seq(Sensor) /\ shown \in [Sensor -> Nat]
    /\ \A s \in Sensor : shown[s] <= Len(Brings[s])
    /\ tick \in [Pushes!Ticker -> Ticks]
    /\ \A t \in Pushes!Ticker :
          tick[t].at \in {"checking", "logging", "posting", "storing"} => EventsAt(tick[t])
    /\ deliveries \in Seq(Rows)

\* Ticker t has not pushed what goes by this key.
NotYet(rs, t, key) == \A i \in 1..Len(rs) : rs[i].by = t => rs[i].key # key

(* What was pushed is logged, and who is about to push something has not    *)
(* pushed it before.                                                        *)
AllLogged == \A i \in 1..Len(deliveries) : deliveries[i].key \in seen
OncePushed ==
    \A i, j \in 1..Len(deliveries) :
        /\ deliveries[i].key = deliveries[j].key /\ deliveries[i].by = deliveries[j].by
        /\ deliveries[i].key[2] # ""
        => i = j
AboutTo ==
    \A t \in Pushes!Ticker :
        /\ tick[t].at \in {"logging", "posting", "storing"} /\ KeyAt(tick[t])[2] # ""
              => NotYet(deliveries, t, KeyAt(tick[t]))
        /\ tick[t].at \in {"posting", "storing"} => KeyAt(tick[t]) \in seen
Pursued(key) ==
    \/ \E i \in 1..Len(deliveries) : deliveries[i].key = key
    \/ \E t \in Pushes!Ticker : tick[t].at \in {"posting", "storing"} /\ KeyAt(tick[t]) = key
    \/ key \in orphaned
KeysInv ==
    AllLogged /\ OncePushed /\ AboutTo
    /\ \A key \in seen : Pushes!WorthPushing(key) => Pursued(key)

SetAt(k, v)      == [k EXCEPT !.at = v]
SetSources(k, v) == [k EXCEPT !.sources = v]
SetEvents(k, v)  == [k EXCEPT !.events = v]
SetOk(k, v)      == [k EXCEPT !.ok = v]

LEMMA TickFields ==
  ASSUME NEW k \in Ticks
  PROVE  /\ \A v \in TickStates : /\ SetAt(k, v) \in Ticks /\ SetAt(k, v).at = v
                                  /\ SetAt(k, v).sources = k.sources /\ SetAt(k, v).events = k.events
         /\ \A v \in Seq(Sensor) :
               /\ SetSources(k, v) \in Ticks /\ SetSources(k, v).sources = v
               /\ SetSources(k, v).at = k.at /\ SetSources(k, v).events = k.events
         /\ \A v \in Seq(Pushes!Event) :
               /\ SetEvents(k, v) \in Ticks /\ SetEvents(k, v).events = v
               /\ SetEvents(k, v).at = k.at /\ SetEvents(k, v).sources = k.sources
         /\ \A v \in BOOLEAN : /\ SetOk(k, v) \in Ticks /\ SetOk(k, v).at = k.at
                               /\ SetOk(k, v).sources = k.sources /\ SetOk(k, v).events = k.events
<1>1. \A v \in TickStates : /\ SetAt(k, v) \in Ticks /\ SetAt(k, v).at = v
                            /\ SetAt(k, v).sources = k.sources /\ SetAt(k, v).events = k.events
  BY DEF Ticks, SetAt
<1>2. \A v \in Seq(Sensor) :
         /\ SetSources(k, v) \in Ticks /\ SetSources(k, v).sources = v
         /\ SetSources(k, v).at = k.at /\ SetSources(k, v).events = k.events
  BY DEF Ticks, SetSources
<1>3. \A v \in Seq(Pushes!Event) :
         /\ SetEvents(k, v) \in Ticks /\ SetEvents(k, v).events = v
         /\ SetEvents(k, v).at = k.at /\ SetEvents(k, v).sources = k.sources
  BY DEF Ticks, SetEvents
<1>4. \A v \in BOOLEAN : /\ SetOk(k, v) \in Ticks /\ SetOk(k, v).at = k.at
                         /\ SetOk(k, v).sources = k.sources /\ SetOk(k, v).events = k.events
  BY DEF Ticks, SetOk
<1>. QED
  BY <1>1, <1>2, <1>3, <1>4

\* A tick that is done with an event is at the next one, or pulls.
LEMMA PastIs ==
  ASSUME NEW k \in Ticks, EventsAt(k)
  PROVE  /\ Pushes!Past(k) \in Ticks /\ Pushes!Past(k).at \in {"checking", "pulling"}
         /\ Pushes!Past(k).at = "checking" => EventsAt(Pushes!Past(k))
<1>. DEFINE p == IF Len(k.events) > 1 THEN "checking" ELSE "pulling"
            a == SetEvents(k, Tail(k.events))
            b == SetAt(a, p)
            c == SetSources(b, Tail(b.sources))
<1>1. /\ k.events \in Seq(Pushes!Event) /\ k.events # <<>> /\ k.sources \in Seq(Sensor)
      /\ k.sources # <<>>
  BY DEF Ticks, EventsAt
<1>2. /\ Tail(k.events) \in Seq(Pushes!Event) /\ Len(Tail(k.events)) = Len(k.events) - 1
      /\ \A i \in 1..Len(Tail(k.events)) : Tail(k.events)[i] = k.events[i + 1]
      /\ Tail(k.sources) \in Seq(Sensor)
  BY <1>1, HeadTailProperties
<1>3. a \in Ticks /\ a.events = Tail(k.events) /\ a.sources = k.sources
  BY <1>2, TickFields
<1>4. p \in TickStates
  BY DEF TickStates
<1>5. Pushes!Onward(k) = b
  BY DEF Pushes!Onward, SetAt, SetEvents
<1>. HIDE DEF a
<1>6. b \in Ticks /\ b.at = p /\ b.events = Tail(k.events) /\ b.sources = k.sources
  <2>. HIDE DEF p
  <2>. QED
    BY <1>3, <1>4, TickFields
<1>7. Len(k.events) > 1 => Pushes!Past(k) = b
  BY <1>5 DEF Pushes!Past
<1>8. ~(Len(k.events) > 1) => Pushes!Past(k) = c
  BY <1>5 DEF Pushes!Past, SetSources
<1>. HIDE DEF b
<1>9. c \in Ticks /\ c.at = p
  <2>. HIDE DEF p
  <2>. QED
    BY <1>2, <1>6, TickFields
<1>. HIDE DEF c
<1>10. CASE Len(k.events) > 1
  <2>1. Tail(k.events) # <<>>
    <3>1. Len(k.events) \in Nat
      BY <1>1
    <3>2. Len(Tail(k.events)) = Len(k.events) - 1
      BY <1>2
    <3>4. Len(Tail(k.events)) # 0
      <4>. DEFINE n == Len(k.events)
                  m == Len(Tail(k.events))
      <4>1. n \in Nat /\ n > 1 /\ m = n - 1
        BY <1>10, <3>1, <3>2
      <4>. HIDE DEF n, m
      <4>2. m # 0
        BY <4>1
      <4>. QED
        BY <4>2 DEF m
    <3>3. Len(<< >>) = 0
      OBVIOUS
    <3>. QED
      BY <3>4, <3>3, Zenon
  <2>2. \A i \in 1..Len(b.events) : Comes(b.events[i], Head(b.sources))
    <3>1. \A i \in 1..Len(Tail(k.events)) : i + 1 \in 1..Len(k.events)
      BY <1>1, <1>2
    <3>. QED
      BY <1>2, <1>6, <3>1 DEF EventsAt
  <2>3. EventsAt(b)
    BY <1>1, <1>6, <2>1, <2>2 DEF EventsAt
  <2>. QED
    BY <1>6, <1>7, <1>10, <2>3
<1>11. CASE ~(Len(k.events) > 1)
  BY <1>8, <1>9, <1>11
<1>. QED
  BY <1>10, <1>11

LEMMA PushesBegin == ASSUME Pushes!Init PROVE TicksInv /\ KeysInv
<1>1. /\ sources = <<>> /\ shown = [s \in Sensor |-> 0] /\ deliveries = <<>> /\ seen = {}
      /\ tick = [t \in Pushes!Ticker |-> Pushes!Idle]
  BY DEF Pushes!Init
<1>2. Pushes!Idle \in Ticks /\ Pushes!Idle.at = "idle"
  BY DEF Pushes!Idle, Ticks, TickStates
<1>3. sources \in Seq(Sensor) /\ deliveries \in Seq(Rows) /\ Len(deliveries) = 0
  BY <1>1
<1>4. \A s \in Sensor : Len(Brings[s]) \in Nat
  BY PushesAssumption
<1>5. TicksInv
  <2>1. shown \in [Sensor -> Nat] /\ \A s \in Sensor : shown[s] <= Len(Brings[s])
    BY <1>1, <1>4
  <2>2. /\ tick \in [Pushes!Ticker -> Ticks]
        /\ \A t \in Pushes!Ticker : tick[t].at = "idle"
    BY <1>1, <1>2
  <2>. QED
    BY <1>3, <2>1, <2>2 DEF TicksInv
<1>6. KeysInv
  <2>1. \A t \in Pushes!Ticker : tick[t].at = "idle"
    BY <1>1, <1>2
  <2>2. \A i : i \notin 1..Len(deliveries)
    BY <1>3
  <2>3. AllLogged
    BY <2>2 DEF AllLogged
  <2>4. OncePushed
    BY <2>2 DEF OncePushed
  <2>5. AboutTo
    BY <2>1 DEF AboutTo
  <2>. QED
    BY <1>1, <2>3, <2>4, <2>5 DEF KeysInv
<1>. QED
  BY <1>5, <1>6

\* What is pulled are events the source brings.
LEMMA PulledComes ==
  ASSUME TicksInv, NEW s \in Sensor, NEW ev, ev \in {<<>>, SubSeq(Brings[s], 1, shown[s])}
  PROVE  ev \in Seq(Pushes!Event) /\ \A i \in 1..Len(ev) : Comes(ev[i], s)
<1>1. /\ Brings[s] \in Seq(Pushes!Event) /\ shown[s] \in Nat /\ shown[s] <= Len(Brings[s])
      /\ Len(Brings[s]) \in Nat
  BY PushesAssumption DEF TicksInv
<1>2. CASE ev = <<>>
  BY <1>2
<1>3. CASE ev = SubSeq(Brings[s], 1, shown[s])
  <2>1. \A i \in 1..shown[s] : Brings[s][i] \in Pushes!Event /\ i \in DOMAIN Brings[s]
    BY <1>1
  <2>2. /\ ev \in Seq(Pushes!Event) /\ Len(ev) = IF 1 <= shown[s] THEN shown[s] - 1 + 1 ELSE 0
        /\ \A i \in 1..(shown[s] - 1 + 1) : ev[i] = Brings[s][1 + i - 1]
    BY <1>1, <1>3, <2>1, SubSeqProperties
  <2>3. \A i \in 1..Len(ev) : i \in 1..shown[s] /\ ev[i] = Brings[s][i]
    BY <1>1, <2>2
  <2>. QED
    BY <2>1, <2>2, <2>3 DEF Comes
<1>. QED
  BY <1>2, <1>3

\* A ticker takes a step; deliveries stay, or one is appended.
TickerAt(t, k) == tick' = [tick EXCEPT ![t] = k]

LEMMA TicksMove ==
  ASSUME TicksInv, NEW t \in Pushes!Ticker, NEW k \in Ticks, TickerAt(t, k),
         k.at \in {"checking", "logging", "posting", "storing"} => EventsAt(k),
         deliveries' \in Seq(Rows), UNCHANGED <<sources, shown>>
  PROVE  /\ TicksInv' /\ tick'[t] = k /\ tick \in [Pushes!Ticker -> Ticks]
         /\ \A x \in Pushes!Ticker : x # t => tick'[x] = tick[x]
<1>1. /\ tick \in [Pushes!Ticker -> Ticks] /\ tick' \in [Pushes!Ticker -> Ticks] /\ tick'[t] = k
      /\ \A x \in Pushes!Ticker : x # t => tick'[x] = tick[x]
  BY DEF TicksInv, TickerAt
<1>2. \A x \in Pushes!Ticker :
         tick'[x].at \in {"checking", "logging", "posting", "storing"} => EventsAt(tick'[x])
  BY <1>1 DEF TicksInv
<1>. QED
  BY <1>1, <1>2 DEF TicksInv

\* The rows keep their keys and who stored them.
SameKeys ==
    /\ deliveries' \in Seq(Rows) /\ Len(deliveries') = Len(deliveries)
    /\ \A i \in 1..Len(deliveries) : /\ deliveries'[i].key = deliveries[i].key
                                     /\ deliveries'[i].by = deliveries[i].by

\* A ticker stays, goes where it is not about to push what it was not before, or has posted.
Steps(x) ==
    \/ tick'[x] = tick[x]
    \/ /\ tick'[x].at \notin {"posting", "storing"} /\ tick[x].at \notin {"posting", "storing"}
       /\ tick'[x].at = "logging" /\ KeyAt(tick'[x])[2] # "" => NotYet(deliveries, x, KeyAt(tick'[x]))
    \/ /\ tick'[x].at = "storing" /\ tick[x].at = "posting"
       /\ KeyAt(tick'[x]) = KeyAt(tick[x])

LEMMA KeysStay ==
  ASSUME TicksInv, KeysInv, SameKeys, UNCHANGED <<seen, orphaned>>,
         \A x \in Pushes!Ticker : Steps(x)
  PROVE  KeysInv'
<1>0. /\ deliveries' \in Seq(Rows) /\ Len(deliveries') = Len(deliveries)
      /\ \A i \in 1..Len(deliveries) : /\ deliveries'[i].key = deliveries[i].key
                                       /\ deliveries'[i].by = deliveries[i].by
  BY DEF SameKeys
<1>1. AllLogged'
  BY <1>0 DEF KeysInv, AllLogged
<1>2. OncePushed'
  <2>1. ASSUME NEW i \in 1..Len(deliveries), NEW j \in 1..Len(deliveries),
               deliveries'[i].key = deliveries'[j].key, deliveries'[i].by = deliveries'[j].by,
               deliveries'[i].key[2] # ""
        PROVE  i = j
    <3>1. /\ deliveries[i].key = deliveries[j].key /\ deliveries[i].by = deliveries[j].by
          /\ deliveries[i].key[2] # ""
      BY <1>0, <2>1
    <3>. QED
      BY <3>1 DEF KeysInv, OncePushed
  <2>. QED
    BY <1>0, <2>1 DEF OncePushed
<1>3. \A x, key : NotYet(deliveries, x, key) => NotYet(deliveries', x, key)
  BY <1>0 DEF NotYet
<1>4. ASSUME NEW x \in Pushes!Ticker
      PROVE  /\ tick'[x].at \in {"logging", "posting", "storing"} /\ KeyAt(tick'[x])[2] # ""
                   => NotYet(deliveries', x, KeyAt(tick'[x]))
             /\ tick'[x].at \in {"posting", "storing"} => KeyAt(tick'[x]) \in seen
  <2>0. /\ tick[x].at \in {"logging", "posting", "storing"} /\ KeyAt(tick[x])[2] # ""
              => NotYet(deliveries, x, KeyAt(tick[x]))
        /\ tick[x].at \in {"posting", "storing"} => KeyAt(tick[x]) \in seen
    BY DEF KeysInv, AboutTo
  <2>1. Steps(x)
    OBVIOUS
  <2>2. CASE tick'[x] = tick[x]
    BY <1>3, <2>0, <2>2
  <2>3. CASE /\ tick'[x].at \notin {"posting", "storing"}
             /\ tick'[x].at = "logging" /\ KeyAt(tick'[x])[2] # ""
                   => NotYet(deliveries, x, KeyAt(tick'[x]))
    BY <1>3, <2>3
  <2>4. CASE tick[x].at = "posting" /\ KeyAt(tick'[x]) = KeyAt(tick[x])
    BY <1>3, <2>0, <2>4
  <2>. QED
    BY <2>1, <2>2, <2>3, <2>4 DEF Steps
<1>5. AboutTo'
  BY <1>4 DEF AboutTo
<1>6. ASSUME NEW key \in seen, Pursued(key) PROVE Pursued(key)'
  <2>1. CASE \E x \in Pushes!Ticker : tick[x].at \in {"posting", "storing"} /\ KeyAt(tick[x]) = key
    <3>1. PICK x \in Pushes!Ticker : tick[x].at \in {"posting", "storing"} /\ KeyAt(tick[x]) = key
      BY <2>1
    <3>2. tick'[x].at \in {"posting", "storing"} /\ KeyAt(tick'[x]) = key
      BY <3>1 DEF Steps
    <3>. QED
      BY <3>2 DEF Pursued
  <2>. QED
    BY <1>0, <1>6, <2>1 DEF Pursued
<1>. QED
  BY <1>1, <1>2, <1>5, <1>6 DEF KeysInv

\* What a tick at an event has before it.
LEMMA AtEvent ==
  ASSUME TicksInv, NEW t \in Pushes!Ticker,
         tick[t].at \in {"checking", "logging", "posting", "storing"}
  PROVE  /\ tick[t] \in Ticks /\ EventsAt(tick[t])
         /\ Pushes!Of(t) = Head(tick[t].events) /\ Pushes!From(t) = Head(tick[t].sources)
         /\ Pushes!Of(t) \in Pushes!Event /\ Pushes!From(t) \in Sensor
         /\ Comes(Pushes!Of(t), Pushes!From(t))
         /\ Pushes!Key(Pushes!Of(t), Pushes!From(t)) = KeyAt(tick[t]) /\ KeyAt(tick[t]) \in Keys
<1>1. tick[t] \in Ticks /\ EventsAt(tick[t])
  BY DEF TicksInv
<1>2. Pushes!Of(t) = Head(tick[t].events) /\ Pushes!From(t) = Head(tick[t].sources)
  BY DEF Pushes!Of, Pushes!From
<1>3. /\ tick[t].events \in Seq(Pushes!Event) /\ tick[t].events # <<>>
      /\ tick[t].sources \in Seq(Sensor) /\ tick[t].sources # <<>>
  BY <1>1 DEF Ticks, EventsAt
<1>4. Pushes!Of(t) \in Pushes!Event /\ Pushes!From(t) \in Sensor
  BY <1>2, <1>3, HeadTailProperties
<1>5. 1 \in 1..Len(tick[t].events) /\ Pushes!Of(t) = tick[t].events[1]
  BY <1>2, <1>3
<1>6. Comes(Pushes!Of(t), Pushes!From(t))
  BY <1>1, <1>2, <1>5 DEF EventsAt
<1>7. Pushes!Key(Pushes!Of(t), Pushes!From(t)) = KeyAt(tick[t])
  BY <1>2 DEF KeyAt
<1>. QED
  BY <1>1, <1>2, <1>4, <1>6, <1>7 DEF Keys

LEMMA SameRows ==
  ASSUME TicksInv, UNCHANGED deliveries PROVE SameKeys
BY DEF TicksInv, SameKeys

\* What does not concern the tickers.
LEMMA TickersRest ==
  ASSUME TicksInv, KeysInv, SameKeys, UNCHANGED <<seen, orphaned, tick>>,
         sources' \in Seq(Sensor), shown' \in [Sensor -> Nat],
         \A s \in Sensor : shown'[s] <= Len(Brings[s])
  PROVE  TicksInv' /\ KeysInv'
<1>1. \A x \in Pushes!Ticker : Steps(x)
  BY DEF Steps
<1>2. deliveries' \in Seq(Rows)
  BY DEF SameKeys
<1>3. TicksInv'
  BY <1>2 DEF TicksInv
<1>. QED
  BY <1>1, <1>3, KeysStay

\* A ticker goes to k.
LEMMA TickerGoes ==
  ASSUME TicksInv, KeysInv, NEW t \in Pushes!Ticker, NEW k \in Ticks, TickerAt(t, k),
         UNCHANGED <<sources, shown, deliveries, seen, orphaned>>,
         \/ /\ k.at \notin {"posting", "storing"} /\ tick[t].at \notin {"posting", "storing"}
            /\ k.at = "logging" /\ KeyAt(k)[2] # "" => NotYet(deliveries, t, KeyAt(k))
         \/ k.at = "storing" /\ tick[t].at = "posting" /\ KeyAt(k) = KeyAt(tick[t]),
         k.at \in {"checking", "logging", "posting", "storing"} => EventsAt(k)
  PROVE  TicksInv' /\ KeysInv'
<1>1. SameKeys
  BY SameRows
<1>2. deliveries' \in Seq(Rows)
  BY <1>1 DEF SameKeys
<1>3. /\ TicksInv' /\ tick'[t] = k
      /\ \A x \in Pushes!Ticker : x # t => tick'[x] = tick[x]
  BY <1>2, TicksMove
<1>4. \A x \in Pushes!Ticker : Steps(x)
  BY <1>3 DEF Steps
<1>. QED
  BY <1>1, <1>3, <1>4, KeysStay

LEMMA TickBegins ==
  ASSUME TicksInv, KeysInv, NEW t \in Pushes!Ticker, Pushes!Begin(t) PROVE TicksInv' /\ KeysInv'
<1>. DEFINE a == SetAt(Pushes!Idle, "pulling")
            k == SetSources(a, sources)
<1>1. /\ tick[t].at = "idle" /\ TickerAt(t, k)
      /\ UNCHANGED <<sources, shown, deliveries, seen, orphaned>>
  BY DEF Pushes!Begin, Pushes!Goes, TickerAt, SetAt, SetSources
<1>2. sources \in Seq(Sensor)
  BY DEF TicksInv
<1>3. Pushes!Idle \in Ticks /\ "pulling" \in TickStates
  BY DEF Pushes!Idle, Ticks, TickStates
<1>4. a \in Ticks /\ a.at = "pulling"
  BY <1>3, TickFields
<1>. HIDE DEF a
<1>5. k \in Ticks /\ k.at = "pulling"
  BY <1>2, <1>4, TickFields
<1>. HIDE DEF k
<1>. QED
  BY <1>1, <1>5, TickerGoes

LEMMA TickPulls ==
  ASSUME TicksInv, KeysInv, NEW t \in Pushes!Ticker, Pushes!Pull(t) PROVE TicksInv' /\ KeysInv'
<1>1. /\ tick[t].at = "pulling" /\ tick[t] \in Ticks
      /\ UNCHANGED <<sources, shown, deliveries, seen, orphaned>>
  BY DEF Pushes!Pull, TicksInv
<1>2. CASE Pushes!Goes(t, Pushes!Idle)
  <2>1. Pushes!Idle \in Ticks /\ Pushes!Idle.at = "idle"
    BY DEF Pushes!Idle, Ticks, TickStates
  <2>2. TickerAt(t, Pushes!Idle)
    BY <1>2 DEF Pushes!Goes, TickerAt
  <2>. QED
    BY <1>1, <2>1, <2>2, TickerGoes
<1>3. CASE /\ tick[t].sources # <<>>
           /\ LET s == Head(tick[t].sources) IN
              \E events \in {<<>>, SubSeq(Brings[s], 1, shown[s])} :
                 Pushes!Goes(t, [tick[t] EXCEPT !.events = events,
                            !.sources = IF events = <<>> THEN Tail(@) ELSE @,
                            !.at = IF events = <<>> THEN "pulling" ELSE "checking"])
  <2>. DEFINE s == Head(tick[t].sources)
  <2>1. tick[t].sources # <<>> /\ tick[t].sources \in Seq(Sensor)
    BY <1>1, <1>3 DEF Ticks
  <2>2. s \in Sensor /\ Tail(tick[t].sources) \in Seq(Sensor)
    BY <2>1, HeadTailProperties
  <2>3. PICK ev \in {<<>>, SubSeq(Brings[s], 1, shown[s])} :
           Pushes!Goes(t, [tick[t] EXCEPT !.events = ev,
                            !.sources = IF ev = <<>> THEN Tail(@) ELSE @,
                            !.at = IF ev = <<>> THEN "pulling" ELSE "checking"])
    BY <1>3
  <2>4. ev \in Seq(Pushes!Event) /\ \A i \in 1..Len(ev) : Comes(ev[i], s)
    BY <2>2, <2>3, PulledComes
  <2>. DEFINE rest == IF ev = <<>> THEN Tail(tick[t].sources) ELSE tick[t].sources
              p == IF ev = <<>> THEN "pulling" ELSE "checking"
              a == SetEvents(tick[t], ev)
              b == SetSources(a, rest)
              k == SetAt(b, p)
  <2>5. TickerAt(t, k)
    BY <2>3 DEF Pushes!Goes, TickerAt, SetEvents, SetSources, SetAt
  <2>6. a \in Ticks /\ a.events = ev
    BY <1>1, <2>4, TickFields
  <2>7. rest \in Seq(Sensor) /\ p \in TickStates
    BY <2>1, <2>2 DEF TickStates
  <2>8. (ev # <<>> => rest = tick[t].sources /\ p = "checking") /\ (ev = <<>> => p = "pulling")
    OBVIOUS
  <2>. HIDE DEF a, rest, p
  <2>9. b \in Ticks /\ b.events = ev /\ b.sources = rest
    BY <2>6, <2>7, TickFields
  <2>. HIDE DEF b
  <2>10. k \in Ticks /\ k.events = ev /\ k.sources = rest /\ k.at = p
    BY <2>7, <2>9, TickFields
  <2>11. ev # <<>> => EventsAt(k)
    BY <2>1, <2>4, <2>8, <2>10 DEF EventsAt
  <2>. HIDE DEF k
  <2>. QED
    BY <1>1, <2>5, <2>8, <2>10, <2>11, TickerGoes
<1>. QED
  BY <1>2, <1>3 DEF Pushes!Pull

\* An id that is not empty is looked up as it is logged.
LEMMA SoughtAsLogged ==
  ASSUME NEW e, Pushes!Logged(e) # "" PROVE Pushes!Sought(e) = Pushes!Logged(e)
BY DEF Pushes!Logged, Pushes!Sought

LEMMA TickChecks ==
  ASSUME TicksInv, KeysInv, NEW t \in Pushes!Ticker, Pushes!Check(t) PROVE TicksInv' /\ KeysInv'
<1>. DEFINE e == Pushes!Of(t)
            s == Pushes!From(t)
            k == SetAt(tick[t], "logging")
<1>1. tick[t].at = "checking" /\ UNCHANGED <<sources, shown, deliveries, seen, orphaned>>
  BY DEF Pushes!Check
<1>2. /\ tick[t] \in Ticks /\ EventsAt(tick[t]) /\ Pushes!Key(e, s) = KeyAt(tick[t])
  BY <1>1, AtEvent
<1>3. CASE <<LogName[s], Pushes!Sought(e)>> \in seen
  <2>1. TickerAt(t, Pushes!Past(tick[t]))
    BY <1>3 DEF Pushes!Check, Pushes!Goes, TickerAt
  <2>. QED
    BY <1>1, <1>2, <2>1, PastIs, TickerGoes
<1>4. CASE <<LogName[s], Pushes!Sought(e)>> \notin seen
  <2>1. TickerAt(t, k)
    BY <1>4 DEF Pushes!Check, Pushes!Goes, TickerAt, SetAt
  <2>2. "logging" \in TickStates
    BY DEF TickStates
  <2>3. /\ k \in Ticks /\ k.at = "logging" /\ k.sources = tick[t].sources
        /\ k.events = tick[t].events
    BY <1>2, <2>2, TickFields
  <2>4. KeyAt(k) = <<LogName[s], Pushes!Logged(e)>> /\ EventsAt(k)
    BY <1>2, <2>3 DEF KeyAt, EventsAt, Pushes!Key
  <2>5. ASSUME KeyAt(k)[2] # "" PROVE NotYet(deliveries, t, KeyAt(k))
    <3>1. KeyAt(k)[2] = Pushes!Logged(e)
      BY <2>4
    <3>2. Pushes!Sought(e) = Pushes!Logged(e)
      BY <2>5, <3>1, SoughtAsLogged
    <3>3. KeyAt(k) \notin seen
      BY <1>4, <2>4, <3>2
    <3>. QED
      BY <3>3 DEF NotYet, KeysInv, AllLogged
  <2>. HIDE DEF k
  <2>. QED
    BY <1>1, <2>1, <2>3, <2>4, <2>5, TickerGoes
<1>. QED
  BY <1>3, <1>4

\* What is logged and not pushed is not worth a push.
LEMMA TickLogs ==
  ASSUME TicksInv, KeysInv, NEW t \in Pushes!Ticker, Pushes!Log(t) PROVE TicksInv' /\ KeysInv'
<1>. DEFINE e == Pushes!Of(t)
            s == Pushes!From(t)
            key == KeyAt(tick[t])
            p == SetAt(tick[t], "posting")
            k == IF Pushes!Pushes(e, s) THEN p ELSE Pushes!Past(tick[t])
<1>1. /\ tick[t].at = "logging" /\ UNCHANGED <<sources, shown, deliveries, orphaned>>
      /\ seen' = seen \cup {Pushes!Key(e, s)} /\ TickerAt(t, k)
  BY DEF Pushes!Log, Pushes!Goes, TickerAt, SetAt
<1>2. /\ tick[t] \in Ticks /\ EventsAt(tick[t]) /\ Pushes!Key(e, s) = key
      /\ Comes(e, s) /\ s \in Sensor
  BY <1>1, AtEvent
<1>3. /\ p \in Ticks /\ p.at = "posting" /\ EventsAt(p) /\ KeyAt(p) = key
  <2>1. "posting" \in TickStates
    BY DEF TickStates
  <2>2. p \in Ticks /\ p.at = "posting" /\ p.sources = tick[t].sources /\ p.events = tick[t].events
    BY <1>2, <2>1, TickFields
  <2>. QED
    BY <1>2, <2>2 DEF EventsAt, KeyAt
<1>4. /\ k \in Ticks /\ k.at \in {"posting", "checking", "pulling"}
      /\ k.at = "posting" => KeyAt(k) = key
      /\ k.at = "posting" <=> Pushes!Pushes(e, s)
      /\ k.at \in {"checking", "posting"} => EventsAt(k)
  <2>. HIDE DEF p
  <2>1. CASE Pushes!Pushes(e, s)
    BY <1>3, <2>1
  <2>2. CASE ~Pushes!Pushes(e, s)
    BY <1>2, <2>2, PastIs
  <2>. QED
    BY <2>1, <2>2
<1>. HIDE DEF k
<1>5. deliveries' \in Seq(Rows)
  BY <1>1, SameRows DEF SameKeys
<1>6. /\ TicksInv' /\ tick'[t] = k
      /\ \A x \in Pushes!Ticker : x # t => tick'[x] = tick[x]
  BY <1>1, <1>4, <1>5, TicksMove
<1>7. AllLogged' /\ OncePushed'
  BY <1>1 DEF KeysInv, AllLogged, OncePushed
<1>8. AboutTo'
  <2>1. ASSUME NEW x \in Pushes!Ticker
        PROVE  /\ tick'[x].at \in {"logging", "posting", "storing"} /\ KeyAt(tick'[x])[2] # ""
                     => NotYet(deliveries', x, KeyAt(tick'[x]))
               /\ tick'[x].at \in {"posting", "storing"} => KeyAt(tick'[x]) \in seen'
    <3>1. /\ tick[x].at \in {"logging", "posting", "storing"} /\ KeyAt(tick[x])[2] # ""
                => NotYet(deliveries, x, KeyAt(tick[x]))
          /\ tick[x].at \in {"posting", "storing"} => KeyAt(tick[x]) \in seen
      BY DEF KeysInv, AboutTo
    <3>2. CASE x # t
      BY <1>1, <1>6, <3>1, <3>2
    <3>3. CASE x = t
      BY <1>1, <1>2, <1>4, <1>6, <3>1, <3>3
    <3>. QED
      BY <3>2, <3>3
  <2>. QED
    BY <2>1 DEF AboutTo
<1>9. ASSUME NEW y \in seen', Pushes!WorthPushing(y) PROVE Pursued(y)'
  <2>1. CASE y \in seen
    <3>1. Pursued(y)
      BY <1>9, <2>1 DEF KeysInv
    <3>2. CASE \E x \in Pushes!Ticker : tick[x].at \in {"posting", "storing"} /\ KeyAt(tick[x]) = y
      <4>1. PICK x \in Pushes!Ticker : tick[x].at \in {"posting", "storing"} /\ KeyAt(tick[x]) = y
        BY <3>2
      <4>2. tick'[x].at \in {"posting", "storing"} /\ KeyAt(tick'[x]) = y
        BY <1>1, <1>6, <4>1
      <4>. QED
        BY <4>2 DEF Pursued
    <3>. QED
      BY <1>1, <3>1, <3>2 DEF Pursued
  <2>2. CASE y = key
    <3>1. Pushes!Pushes(e, s)
      BY <1>2, <1>9, <2>2 DEF Pushes!WorthPushing, Comes
    <3>2. tick'[t].at \in {"posting", "storing"} /\ KeyAt(tick'[t]) = y
      BY <1>4, <1>6, <2>2, <3>1
    <3>. QED
      BY <3>2 DEF Pursued
  <2>. QED
    BY <1>1, <1>2, <2>1, <2>2
<1>. QED
  BY <1>6, <1>7, <1>8, <1>9 DEF KeysInv

LEMMA TickPosts ==
  ASSUME TicksInv, KeysInv, NEW t \in Pushes!Ticker, Pushes!Post(t) PROVE TicksInv' /\ KeysInv'
<1>1. tick[t].at = "posting" /\ UNCHANGED <<sources, shown, deliveries, seen, orphaned>>
  BY DEF Pushes!Post
<1>2. tick[t] \in Ticks /\ EventsAt(tick[t])
  BY <1>1, AtEvent
<1>3. PICK v \in BOOLEAN : Pushes!Goes(t, [tick[t] EXCEPT !.at = "storing", !.ok = v])
  BY DEF Pushes!Post
<1>. DEFINE a == SetAt(tick[t], "storing")
            k == SetOk(a, v)
<1>4. TickerAt(t, k)
  BY <1>3 DEF Pushes!Goes, TickerAt, SetAt, SetOk
<1>5. "storing" \in TickStates
  BY DEF TickStates
<1>6. a \in Ticks /\ a.at = "storing" /\ a.sources = tick[t].sources /\ a.events = tick[t].events
  BY <1>2, <1>5, TickFields
<1>. HIDE DEF a
<1>7. k \in Ticks /\ k.at = "storing" /\ k.sources = tick[t].sources /\ k.events = tick[t].events
  BY <1>6, TickFields
<1>. HIDE DEF k
<1>8. EventsAt(k) /\ KeyAt(k) = KeyAt(tick[t])
  BY <1>2, <1>7 DEF EventsAt, KeyAt
<1>. QED
  BY <1>1, <1>4, <1>7, <1>8, TickerGoes

\* The row a tick stores is the first of its key, unless the id is empty.
LEMMA TickStores ==
  ASSUME TicksInv, KeysInv, NEW t \in Pushes!Ticker, Pushes!Store(t) PROVE TicksInv' /\ KeysInv'
<1>. DEFINE key == KeyAt(tick[t])
            row == [key |-> Pushes!Key(Pushes!Of(t), Pushes!From(t)), by |-> t, posted |-> 1,
                    uncounted |-> 0, status |-> IF tick[t].ok THEN "sent" ELSE "failed",
                    retries |-> IF tick[t].ok THEN 0 ELSE 1]
            k == SetOk(Pushes!Past(tick[t]), FALSE)
            n == Len(deliveries)
<1>1. /\ tick[t].at = "storing" /\ UNCHANGED <<sources, shown, seen, orphaned>>
      /\ deliveries' = Append(deliveries, row) /\ TickerAt(t, k)
  BY DEF Pushes!Store, Pushes!Goes, TickerAt, SetOk
<1>2. /\ tick[t] \in Ticks /\ EventsAt(tick[t]) /\ key \in Keys
      /\ Pushes!Key(Pushes!Of(t), Pushes!From(t)) = key
  BY <1>1, AtEvent
<1>3. row \in Rows /\ row.key = key /\ row.by = t
  BY <1>2 DEF Rows
<1>4. k \in Ticks /\ k.at \in {"checking", "pulling"} /\ (k.at = "checking" => EventsAt(k))
  <2>1. /\ Pushes!Past(tick[t]) \in Ticks /\ Pushes!Past(tick[t]).at \in {"checking", "pulling"}
        /\ Pushes!Past(tick[t]).at = "checking" => EventsAt(Pushes!Past(tick[t]))
    BY <1>2, PastIs
  <2>2. /\ k \in Ticks /\ k.at = Pushes!Past(tick[t]).at
        /\ k.sources = Pushes!Past(tick[t]).sources /\ k.events = Pushes!Past(tick[t]).events
    BY <2>1, TickFields
  <2>. QED
    BY <2>1, <2>2 DEF EventsAt
<1>. HIDE DEF row, k
<1>5. /\ deliveries \in Seq(Rows) /\ deliveries' \in Seq(Rows) /\ n \in Nat
      /\ Len(deliveries') = n + 1 /\ deliveries'[n + 1] = row
      /\ \A i \in 1..n : deliveries'[i] = deliveries[i]
  BY <1>1, <1>3 DEF TicksInv
<1>6. /\ TicksInv' /\ tick'[t] = k
      /\ \A x \in Pushes!Ticker : x # t => tick'[x] = tick[x]
  BY <1>1, <1>4, <1>5, TicksMove
<1>7. key \in seen /\ (key[2] # "" => NotYet(deliveries, t, key))
  BY <1>1 DEF KeysInv, AboutTo
<1>8. \A i \in 1..Len(deliveries') : i \in 1..n \/ i = n + 1
  BY <1>5
<1>9. AllLogged'
  BY <1>1, <1>3, <1>5, <1>7, <1>8 DEF KeysInv, AllLogged
<1>10. OncePushed'
  <2>1. ASSUME NEW i \in 1..Len(deliveries'), NEW j \in 1..Len(deliveries'),
               deliveries'[i].key = deliveries'[j].key, deliveries'[i].by = deliveries'[j].by,
               deliveries'[i].key[2] # ""
        PROVE  i = j
    <3>1. CASE i \in 1..n /\ j \in 1..n
      <4>1. deliveries'[i] = deliveries[i] /\ deliveries'[j] = deliveries[j]
        BY <1>5, <3>1
      <4>. QED
        BY <2>1, <3>1, <4>1 DEF KeysInv, OncePushed
    <3>2. CASE i \in 1..n /\ j = n + 1
      <4>1. deliveries'[i] = deliveries[i] /\ deliveries'[j] = row
        BY <1>5, <3>2
      <4>. QED
        BY <1>3, <1>7, <2>1, <3>2, <4>1 DEF NotYet
    <3>3. CASE i = n + 1 /\ j \in 1..n
      <4>1. deliveries'[i] = row /\ deliveries'[j] = deliveries[j]
        BY <1>5, <3>3
      <4>. QED
        BY <1>3, <1>7, <2>1, <3>3, <4>1 DEF NotYet
    <3>. QED
      BY <1>8, <3>1, <3>2, <3>3
  <2>. QED
    BY <2>1 DEF OncePushed
<1>11. AboutTo'
  <2>1. ASSUME NEW x \in Pushes!Ticker
        PROVE  /\ tick'[x].at \in {"logging", "posting", "storing"} /\ KeyAt(tick'[x])[2] # ""
                     => NotYet(deliveries', x, KeyAt(tick'[x]))
               /\ tick'[x].at \in {"posting", "storing"} => KeyAt(tick'[x]) \in seen'
    <3>1. CASE x = t
      BY <1>4, <1>6, <3>1
    <3>2. CASE x # t
      <4>1. /\ tick[x].at \in {"logging", "posting", "storing"} /\ KeyAt(tick[x])[2] # ""
                  => NotYet(deliveries, x, KeyAt(tick[x]))
            /\ tick[x].at \in {"posting", "storing"} => KeyAt(tick[x]) \in seen
        BY DEF KeysInv, AboutTo
      <4>2. \A y : NotYet(deliveries, x, y) => NotYet(deliveries', x, y)
        BY <1>3, <1>5, <1>8, <3>2 DEF NotYet
      <4>. QED
        BY <1>1, <1>6, <3>2, <4>1, <4>2
    <3>. QED
      BY <3>1, <3>2
  <2>. QED
    BY <2>1 DEF AboutTo
<1>12. ASSUME NEW y \in seen', Pushes!WorthPushing(y) PROVE Pursued(y)'
  <2>1. Pursued(y)
    BY <1>1, <1>12 DEF KeysInv
  <2>2. CASE \E i \in 1..n : deliveries[i].key = y
    <3>1. PICK i \in 1..n : deliveries[i].key = y
      BY <2>2
    <3>2. i \in 1..Len(deliveries') /\ deliveries'[i].key = y
      BY <1>5, <3>1
    <3>. QED
      BY <3>2 DEF Pursued
  <2>3. CASE \E x \in Pushes!Ticker : tick[x].at \in {"posting", "storing"} /\ KeyAt(tick[x]) = y
    <3>1. PICK x \in Pushes!Ticker : tick[x].at \in {"posting", "storing"} /\ KeyAt(tick[x]) = y
      BY <2>3
    <3>2. CASE x = t
      <4>1. n + 1 \in 1..Len(deliveries') /\ deliveries'[n + 1].key = y
        BY <1>3, <1>5, <3>1, <3>2
      <4>. QED
        BY <4>1 DEF Pursued
    <3>3. CASE x # t
      <4>1. tick'[x].at \in {"posting", "storing"} /\ KeyAt(tick'[x]) = y
        BY <1>6, <3>1, <3>3
      <4>. QED
        BY <4>1 DEF Pursued
    <3>. QED
      BY <3>2, <3>3
  <2>4. CASE y \in orphaned
    BY <1>1, <2>4 DEF Pursued
  <2>. QED
    BY <2>1, <2>2, <2>3, <2>4 DEF Pursued
<1>. QED
  BY <1>6, <1>9, <1>10, <1>11, <1>12 DEF KeysInv

\* A ticker that dies with an event leaves its key among the orphaned.
LEMMA TickDies ==
  ASSUME TicksInv, KeysInv, NEW t \in Pushes!Ticker, Pushes!Die(t) PROVE TicksInv' /\ KeysInv'
<1>1. /\ UNCHANGED <<sources, shown, seen, deliveries>> /\ TickerAt(t, Pushes!Idle)
      /\ orphaned \subseteq orphaned'
      /\ tick[t].at \in {"posting", "storing"}
            => Pushes!Key(Pushes!Of(t), Pushes!From(t)) \in orphaned'
  BY DEF Pushes!Die, Pushes!Goes, TickerAt
<1>2. Pushes!Idle \in Ticks /\ Pushes!Idle.at = "idle"
  BY DEF Pushes!Idle, Ticks, TickStates
<1>3. deliveries' \in Seq(Rows)
  BY <1>1, SameRows DEF SameKeys
<1>4. /\ TicksInv' /\ tick'[t] = Pushes!Idle
      /\ \A x \in Pushes!Ticker : x # t => tick'[x] = tick[x]
  BY <1>1, <1>2, <1>3, TicksMove
<1>5. AllLogged' /\ OncePushed'
  BY <1>1 DEF KeysInv, AllLogged, OncePushed
<1>6. AboutTo'
  <2>1. ASSUME NEW x \in Pushes!Ticker
        PROVE  /\ tick'[x].at \in {"logging", "posting", "storing"} /\ KeyAt(tick'[x])[2] # ""
                     => NotYet(deliveries', x, KeyAt(tick'[x]))
               /\ tick'[x].at \in {"posting", "storing"} => KeyAt(tick'[x]) \in seen'
    <3>1. CASE x = t
      BY <1>2, <1>4, <3>1
    <3>2. CASE x # t
      BY <1>1, <1>4, <3>2 DEF KeysInv, AboutTo
    <3>. QED
      BY <3>1, <3>2
  <2>. QED
    BY <2>1 DEF AboutTo
<1>7. ASSUME NEW y \in seen', Pushes!WorthPushing(y) PROVE Pursued(y)'
  <2>1. Pursued(y)
    BY <1>1, <1>7 DEF KeysInv
  <2>2. CASE \E x \in Pushes!Ticker : tick[x].at \in {"posting", "storing"} /\ KeyAt(tick[x]) = y
    <3>1. PICK x \in Pushes!Ticker : tick[x].at \in {"posting", "storing"} /\ KeyAt(tick[x]) = y
      BY <2>2
    <3>2. CASE x = t
      <4>1. KeyAt(tick[x]) = Pushes!Key(Pushes!Of(t), Pushes!From(t))
        BY <3>1, <3>2, AtEvent
      <4>. QED
        BY <1>1, <3>1, <3>2, <4>1 DEF Pursued
    <3>3. CASE x # t
      <4>1. tick'[x].at \in {"posting", "storing"} /\ KeyAt(tick'[x]) = y
        BY <1>4, <3>1, <3>3
      <4>. QED
        BY <4>1 DEF Pursued
    <3>. QED
      BY <3>2, <3>3
  <2>. QED
    BY <1>1, <2>1, <2>2 DEF Pursued
<1>. QED
  BY <1>4, <1>5, <1>6, <1>7 DEF KeysInv

\* The scheduler and the sources do not touch what ticks have done.
LEMMA OthersMove ==
  ASSUME TicksInv, KeysInv,
         \/ Pushes!Stop
         \/ \E t \in Loop : Pushes!Start(t) \/ Pushes!LoopEnds(t)
         \/ \E s \in Sensor : Pushes!CreateSource(s) \/ Pushes!Happens(s)
  PROVE  TicksInv' /\ KeysInv'
<1>1. /\ sources \in Seq(Sensor) /\ shown \in [Sensor -> Nat]
      /\ \A s \in Sensor : shown[s] <= Len(Brings[s])
  BY DEF TicksInv
<1>2. CASE Pushes!Stop \/ \E t \in Loop : Pushes!Start(t) \/ Pushes!LoopEnds(t)
  <2>1. UNCHANGED <<sources, shown, tick, seen, deliveries, orphaned>>
    BY <1>2 DEF Pushes!Stop, Pushes!Start, Pushes!LoopEnds
  <2>. QED
    BY <1>1, <2>1, SameRows, TickersRest
<1>3. ASSUME NEW s \in Sensor, Pushes!CreateSource(s) PROVE TicksInv' /\ KeysInv'
  <2>1. sources' = Append(sources, s) /\ UNCHANGED <<shown, tick, seen, deliveries, orphaned>>
    BY <1>3 DEF Pushes!CreateSource
  <2>2. sources' \in Seq(Sensor)
    BY <1>1, <2>1
  <2>. QED
    BY <1>1, <2>1, <2>2, SameRows, TickersRest
<1>4. ASSUME NEW s \in Sensor, Pushes!Happens(s) PROVE TicksInv' /\ KeysInv'
  <2>1. /\ shown[s] < Len(Brings[s]) /\ shown' = [shown EXCEPT ![s] = @ + 1]
        /\ UNCHANGED <<sources, tick, seen, deliveries, orphaned>>
    BY <1>4 DEF Pushes!Happens
  <2>2. \A x \in Sensor : Len(Brings[x]) \in Nat
    BY PushesAssumption
  <2>3. shown' \in [Sensor -> Nat] /\ \A x \in Sensor : shown'[x] <= Len(Brings[x])
    BY <1>1, <2>1, <2>2
  <2>. QED
    BY <1>1, <2>1, <2>3, SameRows, TickersRest
<1>. QED
  BY <1>2, <1>3, <1>4

-----------------------------------------------------------------------------
(* How often a delivery is posted: what it may still be posted is bounded   *)
(* by the counts that can still be read of it.                              *)

Tri(n) == (n * (n + 1)) \div 2

LEMMA TriGrows ==
  ASSUME NEW n \in Nat
  PROVE  Tri(n) \in Nat /\ Tri(n + 1) = Tri(n) + n + 1
<1>. DEFINE a == n * (n + 1)
            b == (n + 1) * ((n + 1) + 1)
<1>1. b = a + 2 * (n + 1)
  OBVIOUS
<1>2. a \in Nat
  OBVIOUS
<1>3. Tri(n) = a \div 2 /\ Tri(n + 1) = b \div 2
  BY DEF Tri
<1>. HIDE DEF a, b
<1>4. a \div 2 \in Nat /\ b \div 2 = a \div 2 + (n + 1)
  BY <1>1, <1>2
<1>. QED
  BY <1>3, <1>4

LEMMA TriOrdered ==
  ASSUME NEW m \in Nat, NEW n \in Nat, m <= n
  PROVE  Tri(m) <= Tri(n)
<1>. DEFINE a == m * (m + 1)
            b == n * (n + 1)
<1>1. a \in Nat /\ b \in Nat
  OBVIOUS
<1>2. a <= b
  <2>1. m * (m + 1) <= n * (m + 1)
    OBVIOUS
  <2>2. n * (m + 1) <= n * (n + 1)
    OBVIOUS
  <2>3. n * (m + 1) \in Nat
    OBVIOUS
  <2>. QED
    BY <2>1, <2>2, <2>3, <1>1
<1>3. Tri(m) = a \div 2 /\ Tri(n) = b \div 2
  BY DEF Tri
<1>. HIDE DEF a, b
<1>. QED
  BY <1>1, <1>2, <1>3

LEMMA TriPositive == ASSUME NEW n \in Nat \ {0} PROVE Tri(n) >= 1 /\ Tri(n) \in Nat
<1>1. n - 1 \in Nat /\ (n - 1) + 1 = n
  OBVIOUS
<1>2. Tri(n - 1) \in Nat /\ Tri((n - 1) + 1) = Tri(n - 1) + (n - 1) + 1
  BY <1>1, TriGrows
<1>. QED
  BY <1>1, <1>2

LEMMA TriesAre == Pushes!Tries \in Nat \ {0}
BY PushesAssumption DEF Pushes!Tries

Holds == [at : {"idle", "posting", "storing"}, row : Nat, count : Nat, ok : BOOLEAN]

\* A retrier that holds h, as delivery i with row d sees it.
Posts(h, i)    == h.at = "posting" /\ h.row = i
Stores(h, i)   == h.at = "storing" /\ h.row = i
Away(h, i)     == ~Posts(h, i) /\ ~Stores(h, i)
Weight(h, i)   == IF Stores(h, i) THEN 0 ELSE 1
Awaits(h, i)   == IF Posts(h, i) THEN 1 ELSE 0
Reads(h, i, d) == IF Away(h, i) THEN d.retries ELSE h.count

\* What is left to delivery d when the least count is lo and w posts may begin.
RoomTwo(d, w, lo) ==
    d.posted + w + (Pushes!Tries - d.retries) + Tri(Pushes!Tries - lo)
        <= d.uncounted + Tri(Pushes!Tries) + 2
RoomOne(d, w) == d.posted + w + (Pushes!Tries - d.retries) <= d.uncounted + Pushes!Tries + 1

RowTwo(i, d, h, x) ==
    /\ d.status = "failed" =>
          /\ d.retries \in {Reads(h, i, d), Reads(x, i, d)}
          /\ RoomTwo(d, Weight(h, i) + Weight(x, i), Reads(h, i, d))
          /\ RoomTwo(d, Weight(h, i) + Weight(x, i), Reads(x, i, d))
    /\ d.status = "sent" =>
          d.posted + Awaits(h, i) + Awaits(x, i) <= d.uncounted + Tri(Pushes!Tries)

RowOne(i, d, h) ==
    /\ d.status = "failed" => d.retries = Reads(h, i, d) /\ RoomOne(d, Weight(h, i))
    /\ d.status = "sent" => d.posted + Awaits(h, i) <= d.uncounted + Pushes!Tries

\* The step of a retrier from h to k, as delivery i sees it: its row goes from d to e.
Stays(d, e) == e.status = d.status /\ e.retries = d.retries
Pause(i, d, h, e, k) == e = d /\ Away(h, i) /\ Away(k, i)
Loads(i, d, h, e, k) ==
    /\ e = d /\ d.status = "failed" /\ Away(h, i) /\ Posts(k, i) /\ k.count = d.retries
Posted(i, d, h, e, k) ==
    /\ Posts(h, i) /\ Stores(k, i) /\ k.count = h.count
    /\ Stays(d, e) /\ e.posted = d.posted + 1 /\ e.uncounted = d.uncounted
Settles(i, d, h, e, k) ==
    /\ Stores(h, i) /\ Away(k, i)
    /\ e.status = "sent" /\ e.posted = d.posted /\ e.uncounted = d.uncounted
Fails(i, d, h, e, k) ==
    /\ Stores(h, i) /\ Away(k, i) /\ e.status = d.status /\ e.retries = h.count + 1
    /\ e.posted = d.posted /\ e.uncounted = d.uncounted
GivesUp(i, d, h, e, k) == e = d /\ Posts(h, i) /\ Away(k, i)
Forgets(i, d, h, e, k) ==
    /\ Stores(h, i) /\ Away(k, i)
    /\ Stays(d, e) /\ e.posted = d.posted /\ e.uncounted = d.uncounted + 1

RowStep(i, d, h, e, k) ==
    \/ Pause(i, d, h, e, k) \/ Loads(i, d, h, e, k) \/ Posted(i, d, h, e, k)
    \/ Settles(i, d, h, e, k) \/ Fails(i, d, h, e, k) \/ GivesUp(i, d, h, e, k)
    \/ Forgets(i, d, h, e, k)

Counted(i, h) == ~Away(h, i) => h.count \in 1..(Pushes!Tries - 1)
Tried(d) == d.status = "failed" => d.retries \in 1..Pushes!Tries

\* The least count of a row leaves as many tries as there are below it.
LEMMA CountsLeave ==
  ASSUME NEW c \in 1..Pushes!Tries
  PROVE  /\ Pushes!Tries - c \in Nat /\ Tri(Pushes!Tries - c) \in Nat
         /\ c < Pushes!Tries =>
               /\ Tri(Pushes!Tries - c) >= 1
               /\ Tri(Pushes!Tries - c) = Tri(Pushes!Tries - (c + 1)) + (Pushes!Tries - c)
         /\ \A b \in 1..c : Tri(Pushes!Tries - c) <= Tri(Pushes!Tries - b)
<1>. DEFINE T == Pushes!Tries
            n == T - c
<1>1. T \in Nat \ {0}
  BY TriesAre
<1>. HIDE DEF T
<1>2. n \in Nat
  BY <1>1 DEF T
<1>3. Tri(n) \in Nat
  BY <1>2, TriGrows
<1>4. ASSUME c < T PROVE Tri(n) >= 1 /\ Tri(n) = Tri(T - (c + 1)) + n
  <2>1. n - 1 \in Nat /\ (n - 1) + 1 = n /\ T - (c + 1) = n - 1 /\ n \in Nat \ {0}
    BY <1>1, <1>2, <1>4 DEF T
  <2>. HIDE DEF n
  <2>2. Tri((n - 1) + 1) = Tri(n - 1) + (n - 1) + 1 /\ Tri(n - 1) \in Nat
    BY <2>1, TriGrows
  <2>3. Tri(n) >= 1
    BY <2>1, TriPositive
  <2>. QED
    BY <2>1, <2>2, <2>3
<1>5. ASSUME NEW b \in 1..c PROVE Tri(n) <= Tri(T - b)
  <2>1. T - b \in Nat /\ n <= T - b
    BY <1>1, <1>2 DEF T
  <2>. HIDE DEF n
  <2>. QED
    BY <1>2, <2>1, TriOrdered
<1>. QED
  BY <1>2, <1>3, <1>4, <1>5 DEF T

LEMMA RowTwoStep ==
  ASSUME NEW i \in Nat, NEW d \in Rows, NEW e \in Rows, NEW h \in Holds, NEW k \in Holds,
         NEW x \in Holds, RowTwo(i, d, h, x), RowStep(i, d, h, e, k),
         Counted(i, h), Counted(i, x), Tried(d), Tried(e)
  PROVE  RowTwo(i, e, k, x)
<1>. DEFINE T == Pushes!Tries
            c == h.count
            g == Reads(x, i, d)
            b == Weight(x, i)
            r == d.retries
<1>0. /\ T \in Nat \ {0} /\ c \in Nat /\ r \in Nat /\ e.retries \in Nat
      /\ d.posted \in Nat /\ d.uncounted \in Nat /\ Tri(T) \in Nat /\ b \in {0, 1}
      /\ g \in Nat /\ d.status \in {"sent", "failed"} /\ e.status \in {"sent", "failed"}
      /\ e.posted \in Nat /\ e.uncounted \in Nat /\ Awaits(x, i) \in {0, 1}
  BY TriesAre, TriPositive DEF Holds, Rows, Weight, Reads, Awaits
<1>1. d.status = "failed" =>
         /\ r \in 1..T /\ Reads(h, i, d) \in 1..T /\ g \in 1..T
         /\ r \in {Reads(h, i, d), g}
         /\ RoomTwo(d, Weight(h, i) + b, Reads(h, i, d)) /\ RoomTwo(d, Weight(h, i) + b, g)
  BY <1>0 DEF RowTwo, Tried, Counted, Reads
<1>2. d.status = "sent" => d.posted + Awaits(h, i) + Awaits(x, i) <= d.uncounted + Tri(T)
  BY DEF RowTwo
<1>3. /\ Stores(h, i) => Weight(h, i) = 0 /\ Awaits(h, i) = 0 /\ Reads(h, i, d) = c /\ ~Away(h, i)
      /\ Posts(h, i) => Weight(h, i) = 1 /\ Awaits(h, i) = 1 /\ Reads(h, i, d) = c /\ ~Away(h, i)
      /\ Away(h, i) => Weight(h, i) = 1 /\ Awaits(h, i) = 0 /\ Reads(h, i, d) = r
      /\ Stores(k, i) => Weight(k, i) = 0 /\ Awaits(k, i) = 0 /\ Reads(k, i, e) = k.count
      /\ Posts(k, i) => Weight(k, i) = 1 /\ Awaits(k, i) = 1 /\ Reads(k, i, e) = k.count
      /\ Away(k, i) => Weight(k, i) = 1 /\ Awaits(k, i) = 0 /\ Reads(k, i, e) = e.retries
      /\ Stores(x, i) => b = 0 /\ Awaits(x, i) = 0 /\ g = x.count /\ ~Away(x, i)
      /\ Posts(x, i) => b = 1 /\ Awaits(x, i) = 1 /\ g = x.count /\ ~Away(x, i)
      /\ Away(x, i) => b = 1 /\ Awaits(x, i) = 0 /\ g = r /\ Reads(x, i, e) = e.retries
      /\ ~Away(x, i) => Reads(x, i, e) = g
      /\ Away(x, i) \/ Posts(x, i) \/ Stores(x, i)
  BY DEF Weight, Awaits, Reads, Posts, Stores, Away
<1>4. e.retries = r => Reads(x, i, e) = g
  BY <1>3
<1>5. ~Away(h, i) => c \in 1..(T - 1)
  BY DEF Counted
<1>6. ~Away(x, i) => g \in 1..(T - 1)
  BY <1>3 DEF Counted
<1>7. \A v \in 1..T : T - v \in Nat /\ Tri(T - v) \in Nat
  BY CountsLeave
<1>. HIDE DEF T, c, g, b, r
<1>8. ASSUME e.status = "failed" =>
                /\ e.retries \in {Reads(k, i, e), Reads(x, i, e)}
                /\ RoomTwo(e, Weight(k, i) + b, Reads(k, i, e))
                /\ RoomTwo(e, Weight(k, i) + b, Reads(x, i, e)),
             e.status = "sent" => e.posted + Awaits(k, i) + Awaits(x, i) <= e.uncounted + Tri(T)
      PROVE  RowTwo(i, e, k, x)
  BY <1>8 DEF RowTwo, T, b
<1>11. CASE Pause(i, d, h, e, k)
  <2>1. e = d /\ Away(h, i) /\ Away(k, i)
    BY <1>11 DEF Pause
  <2>. QED
    BY <1>1, <1>2, <1>3, <1>4, <1>8, <2>1 DEF r
<1>12. CASE Loads(i, d, h, e, k)
  <2>1. e = d /\ d.status = "failed" /\ Away(h, i) /\ Posts(k, i) /\ k.count = r
    BY <1>12 DEF Loads, r
  <2>. QED
    BY <1>1, <1>3, <1>4, <1>8, <2>1 DEF r
<1>13. CASE Posted(i, d, h, e, k)
  <2>1. /\ Posts(h, i) /\ Stores(k, i) /\ k.count = c /\ e.status = d.status /\ e.retries = r
        /\ e.posted = d.posted + 1 /\ e.uncounted = d.uncounted
    BY <1>13 DEF Posted, Stays, c, r
  <2>2. ASSUME NEW lo \in 1..T, RoomTwo(d, 1 + b, lo), d.status = "failed" PROVE RoomTwo(e, 0 + b, lo)
    <3>1. Tri(T - lo) \in Nat
      BY <1>7
    <3>. QED
      BY <1>0, <1>1, <2>1, <2>2, <3>1 DEF RoomTwo, T, r
  <2>. QED
    BY <1>0, <1>1, <1>2, <1>3, <1>4, <1>8, <2>1, <2>2
<1>14. CASE Settles(i, d, h, e, k)
  <2>1. /\ Stores(h, i) /\ Away(k, i) /\ e.status = "sent" /\ e.posted = d.posted
        /\ e.uncounted = d.uncounted
    BY <1>14 DEF Settles
  <2>2. CASE d.status = "sent"
    BY <1>0, <1>2, <1>3, <1>8, <2>1, <2>2
  <2>3. CASE d.status = "failed"
    <3>1. /\ c \in 1..T /\ c < T /\ RoomTwo(d, 0 + b, c) /\ r \in {c, g} /\ r \in 1..T
      BY <1>0, <1>1, <1>3, <1>5, <2>1, <2>3
    <3>2. Tri(T - c) >= 1 /\ Tri(T - c) \in Nat
      BY <3>1, CountsLeave DEF T
    <3>3. d.posted + (0 + b) + (T - r) + Tri(T - c) <= d.uncounted + Tri(T) + 2
      BY <3>1 DEF RoomTwo, T, r
    <3>4. d.posted + Awaits(x, i) <= d.uncounted + Tri(T)
      <4>1. CASE Away(x, i)
        BY <1>0, <1>3, <3>1, <3>2, <3>3, <4>1
      <4>2. CASE Posts(x, i)
        BY <1>0, <1>3, <1>6, <3>1, <3>2, <3>3, <4>2
      <4>3. CASE Stores(x, i)
        BY <1>0, <1>3, <1>6, <3>1, <3>2, <3>3, <4>3
      <4>. QED
        BY <1>3, <4>1, <4>2, <4>3
    <3>. QED
      BY <1>0, <1>3, <1>8, <2>1, <3>4
  <2>. QED
    BY <1>0, <2>2, <2>3
<1>15. CASE Fails(i, d, h, e, k)
  <2>1. /\ Stores(h, i) /\ Away(k, i) /\ e.status = d.status /\ e.retries = c + 1
        /\ e.posted = d.posted /\ e.uncounted = d.uncounted
    BY <1>15 DEF Fails, c
  <2>2. CASE d.status = "sent"
    BY <1>0, <1>2, <1>3, <1>8, <2>1, <2>2
  <2>3. CASE d.status = "failed"
    <3>1. /\ c \in 1..T /\ c < T /\ RoomTwo(d, 0 + b, c) /\ RoomTwo(d, 0 + b, g)
          /\ r \in {c, g} /\ r \in 1..T /\ g \in 1..T
      BY <1>0, <1>1, <1>3, <1>5, <2>1, <2>3
    <3>2. /\ Tri(T - c) \in Nat /\ c + 1 \in 1..T /\ Tri(T - (c + 1)) \in Nat
          /\ Tri(T - c) = Tri(T - (c + 1)) + (T - c)
      <4>1. c + 1 \in 1..T
        BY <1>0, <3>1
      <4>. QED
        BY <1>7, <3>1, <4>1, CountsLeave DEF T
    <3>3. d.posted + (0 + b) + (T - r) + Tri(T - c) <= d.uncounted + Tri(T) + 2
      BY <3>1 DEF RoomTwo, T, r
    <3>4. e.posted + (1 + b) + (T - e.retries) + Tri(T - (c + 1)) <= e.uncounted + Tri(T) + 2
      BY <1>0, <2>1, <3>1, <3>2, <3>3
    <3>5. RoomTwo(e, 1 + b, c + 1)
      BY <3>4 DEF RoomTwo, T
    <3>6. ASSUME ~Away(x, i) PROVE RoomTwo(e, 1 + b, g)
      <4>1. Tri(T - g) \in Nat
        BY <1>7, <3>1
      <4>2. CASE g >= c + 1
        <5>1. c + 1 \in 1..g
          BY <1>0, <3>2, <4>2
        <5>2. Tri(T - g) <= Tri(T - (c + 1))
          BY <3>1, <5>1, CountsLeave DEF T
        <5>3. e.posted + (1 + b) + (T - e.retries) + Tri(T - g) <= e.uncounted + Tri(T) + 2
          BY <1>0, <3>2, <3>4, <4>1, <5>2
        <5>. QED
          BY <5>3 DEF RoomTwo, T
      <4>3. CASE g <= c
        <5>1. d.posted + (0 + b) + (T - r) + Tri(T - g) <= d.uncounted + Tri(T) + 2
          BY <3>1 DEF RoomTwo, T, r
        <5>2. e.posted + (1 + b) + (T - e.retries) + Tri(T - g) <= e.uncounted + Tri(T) + 2
          BY <1>0, <2>1, <3>1, <4>1, <4>3, <5>1
        <5>. QED
          BY <5>2 DEF RoomTwo, T
      <4>. QED
        BY <1>0, <4>2, <4>3
    <3>7. Reads(k, i, e) = c + 1 /\ Weight(k, i) = 1 /\ Reads(x, i, e) \in {c + 1, g}
          /\ (Away(x, i) => Reads(x, i, e) = c + 1)
      BY <1>3, <2>1
    <3>8. RoomTwo(e, 1 + b, Reads(x, i, e))
      BY <1>3, <3>5, <3>6, <3>7
    <3>. QED
      BY <1>8, <2>1, <2>3, <3>5, <3>7, <3>8
  <2>. QED
    BY <1>0, <2>2, <2>3
<1>16. CASE GivesUp(i, d, h, e, k)
  <2>1. e = d /\ Posts(h, i) /\ Away(k, i) /\ e.retries = r
    BY <1>16 DEF GivesUp, r
  <2>. QED
    BY <1>0, <1>1, <1>2, <1>3, <1>4, <1>8, <2>1
<1>17. CASE Forgets(i, d, h, e, k)
  <2>1. /\ Stores(h, i) /\ Away(k, i) /\ e.status = d.status /\ e.retries = r
        /\ e.posted = d.posted /\ e.uncounted = d.uncounted + 1
    BY <1>17 DEF Forgets, Stays, r
  <2>2. ASSUME NEW lo \in 1..T, RoomTwo(d, 0 + b, lo), d.status = "failed" PROVE RoomTwo(e, 1 + b, lo)
    <3>1. Tri(T - lo) \in Nat
      BY <1>7
    <3>. QED
      BY <1>0, <1>1, <2>1, <2>2, <3>1 DEF RoomTwo, T, r
  <2>. QED
    BY <1>0, <1>1, <1>2, <1>3, <1>4, <1>8, <2>1, <2>2
<1>. QED
  BY <1>11, <1>12, <1>13, <1>14, <1>15, <1>16, <1>17 DEF RowStep

\* A retrier's step does not mind which of the two it is.
LEMMA RowTwoSwaps ==
  ASSUME NEW i \in Nat, NEW d \in Rows, NEW h \in Holds, NEW x \in Holds, RowTwo(i, d, h, x)
  PROVE  RowTwo(i, d, x, h)
<1>1. /\ Weight(h, i) + Weight(x, i) = Weight(x, i) + Weight(h, i)
      /\ d.posted + Awaits(h, i) + Awaits(x, i) = d.posted + Awaits(x, i) + Awaits(h, i)
  BY DEF Weight, Awaits, Rows
<1>. QED
  BY <1>1 DEF RowTwo

LEMMA RowOneStep ==
  ASSUME NEW i \in Nat, NEW d \in Rows, NEW e \in Rows, NEW h \in Holds, NEW k \in Holds,
         RowOne(i, d, h), RowStep(i, d, h, e, k), Counted(i, h), Tried(d), Tried(e)
  PROVE  RowOne(i, e, k)
<1>. DEFINE T == Pushes!Tries
            c == h.count
            r == d.retries
<1>0. /\ T \in Nat \ {0} /\ c \in Nat /\ r \in Nat /\ e.retries \in Nat
      /\ d.posted \in Nat /\ d.uncounted \in Nat
      /\ d.status \in {"sent", "failed"} /\ e.status \in {"sent", "failed"}
      /\ e.posted \in Nat /\ e.uncounted \in Nat
  BY TriesAre DEF Holds, Rows
<1>1. /\ d.status = "failed" =>
            /\ r = Reads(h, i, d)
            /\ d.posted + Weight(h, i) + (T - r) <= d.uncounted + T + 1
      /\ d.status = "sent" => d.posted + Awaits(h, i) <= d.uncounted + T
  BY DEF RowOne, RoomOne
<1>2. /\ Stores(h, i) => Weight(h, i) = 0 /\ Awaits(h, i) = 0 /\ Reads(h, i, d) = c /\ ~Away(h, i)
      /\ Posts(h, i) => Weight(h, i) = 1 /\ Awaits(h, i) = 1 /\ Reads(h, i, d) = c /\ ~Away(h, i)
      /\ Away(h, i) => Weight(h, i) = 1 /\ Awaits(h, i) = 0
      /\ Stores(k, i) => Weight(k, i) = 0 /\ Awaits(k, i) = 0 /\ Reads(k, i, e) = k.count
      /\ Posts(k, i) => Weight(k, i) = 1 /\ Awaits(k, i) = 1 /\ Reads(k, i, e) = k.count
      /\ Away(k, i) => Weight(k, i) = 1 /\ Awaits(k, i) = 0 /\ Reads(k, i, e) = e.retries
  BY DEF Weight, Awaits, Reads, Posts, Stores, Away
<1>3. ~Away(h, i) => c \in 1..(T - 1)
  BY DEF Counted
<1>. HIDE DEF T, c, r
<1>4. ASSUME e.status = "failed" =>
                /\ e.retries = Reads(k, i, e)
                /\ e.posted + Weight(k, i) + (T - e.retries) <= e.uncounted + T + 1,
             e.status = "sent" => e.posted + Awaits(k, i) <= e.uncounted + T
      PROVE  RowOne(i, e, k)
  BY <1>4 DEF RowOne, RoomOne, T
<1>11. CASE Pause(i, d, h, e, k)
  <2>1. e = d /\ Away(h, i) /\ Away(k, i) /\ e.retries = r
    BY <1>11 DEF Pause, r
  <2>. QED
    BY <1>0, <1>1, <1>2, <1>4, <2>1
<1>12. CASE Loads(i, d, h, e, k)
  <2>1. e = d /\ d.status = "failed" /\ Away(h, i) /\ Posts(k, i) /\ k.count = r /\ e.retries = r
    BY <1>12 DEF Loads, r
  <2>. QED
    BY <1>0, <1>1, <1>2, <1>4, <2>1
<1>13. CASE Posted(i, d, h, e, k)
  <2>1. /\ Posts(h, i) /\ Stores(k, i) /\ k.count = c /\ e.status = d.status /\ e.retries = r
        /\ e.posted = d.posted + 1 /\ e.uncounted = d.uncounted
    BY <1>13 DEF Posted, Stays, c, r
  <2>. QED
    BY <1>0, <1>1, <1>2, <1>4, <2>1
<1>14. CASE Settles(i, d, h, e, k)
  <2>1. /\ Stores(h, i) /\ Away(k, i) /\ e.status = "sent" /\ e.posted = d.posted
        /\ e.uncounted = d.uncounted
    BY <1>14 DEF Settles
  <2>. QED
    BY <1>0, <1>1, <1>2, <1>3, <1>4, <2>1
<1>15. CASE Fails(i, d, h, e, k)
  <2>1. /\ Stores(h, i) /\ Away(k, i) /\ e.status = d.status /\ e.retries = c + 1
        /\ e.posted = d.posted /\ e.uncounted = d.uncounted
    BY <1>15 DEF Fails, c
  <2>. QED
    BY <1>0, <1>1, <1>2, <1>3, <1>4, <2>1
<1>16. CASE GivesUp(i, d, h, e, k)
  <2>1. e = d /\ Posts(h, i) /\ Away(k, i) /\ e.retries = r
    BY <1>16 DEF GivesUp, r
  <2>. QED
    BY <1>0, <1>1, <1>2, <1>4, <2>1
<1>17. CASE Forgets(i, d, h, e, k)
  <2>1. /\ Stores(h, i) /\ Away(k, i) /\ e.status = d.status /\ e.retries = r
        /\ e.posted = d.posted /\ e.uncounted = d.uncounted + 1
    BY <1>17 DEF Forgets, Stays, r
  <2>. QED
    BY <1>0, <1>1, <1>2, <1>4, <2>1
<1>. QED
  BY <1>11, <1>12, <1>13, <1>14, <1>15, <1>16, <1>17 DEF RowStep

RetryTyped ==
    /\ retry \in [Retrier -> Holds]
    /\ \A q \in Retrier : retry[q].at # "idle" =>
          retry[q].row \in 1..Len(deliveries) /\ retry[q].count \in 1..(Pushes!Tries - 1)
    /\ \A i \in 1..Len(deliveries) : Tried(deliveries[i])

RowsLeft ==
    /\ Retrier = {} => \A i \in 1..Len(deliveries) :
                          deliveries[i].posted <= deliveries[i].uncounted + Pushes!Tries
    /\ \A q \in Retrier : Retrier = {q} =>
          \A i \in 1..Len(deliveries) : RowOne(i, deliveries[i], retry[q])
    /\ \A q, x \in Retrier : q # x /\ Retrier = {q, x} =>
          \A i \in 1..Len(deliveries) : RowTwo(i, deliveries[i], retry[q], retry[x])

PushesInv == TicksInv /\ KeysInv /\ RetryTyped /\ RowsLeft

RetryAt(q, k) == retry' = [retry EXCEPT ![q] = k]

\* A retrier goes to k.
LEMMA RetrierGoes ==
  ASSUME PushesInv, NEW q \in Retrier, NEW k \in Holds, RetryAt(q, k), SameKeys,
         UNCHANGED <<sources, shown, tick, seen, orphaned>>,
         k.at # "idle" =>
            k.row \in 1..Len(deliveries) /\ k.count \in 1..(Pushes!Tries - 1),
         \A i \in 1..Len(deliveries) :
            /\ RowStep(i, deliveries[i], retry[q], deliveries'[i], k)
            /\ Tried(deliveries'[i])
  PROVE  PushesInv'
<1>1. TicksInv' /\ KeysInv'
  BY TickersRest DEF PushesInv, TicksInv
<1>2. /\ deliveries \in Seq(Rows) /\ deliveries' \in Seq(Rows)
      /\ Len(deliveries') = Len(deliveries)
  BY DEF PushesInv, TicksInv, SameKeys
<1>3. /\ retry \in [Retrier -> Holds] /\ retry' \in [Retrier -> Holds] /\ retry'[q] = k
      /\ \A x \in Retrier : x # q => retry'[x] = retry[x]
  BY DEF PushesInv, RetryTyped, RetryAt
<1>4. RetryTyped'
  BY <1>2, <1>3 DEF PushesInv, RetryTyped
<1>5. \A i \in 1..Len(deliveries) : /\ i \in Nat /\ deliveries[i] \in Rows /\ deliveries'[i] \in Rows
                                    /\ Tried(deliveries[i]) /\ Tried(deliveries'[i])
  BY <1>2 DEF PushesInv, RetryTyped
<1>6. \A x \in Retrier : \A i \in 1..Len(deliveries) : retry[x] \in Holds /\ Counted(i, retry[x])
  BY <1>3 DEF PushesInv, RetryTyped, Counted, Away, Posts, Stores
<1>7. ASSUME NEW x \in Retrier, Retrier = {x}, NEW i \in 1..Len(deliveries')
      PROVE  RowOne(i, deliveries'[i], retry'[x])
  <2>1. x = q /\ i \in 1..Len(deliveries)
    BY <1>2, <1>7
  <2>2. RowOne(i, deliveries[i], retry[q])
    BY <1>7, <2>1 DEF PushesInv, RowsLeft
  <2>3. RowStep(i, deliveries[i], retry[q], deliveries'[i], k)
    BY <2>1
  <2>4. RowOne(i, deliveries'[i], k)
    BY <1>5, <1>6, <2>1, <2>2, <2>3, RowOneStep
  <2>. QED
    BY <1>3, <2>1, <2>4
<1>8. ASSUME NEW x \in Retrier, x # q, Retrier = {q, x}, NEW i \in 1..Len(deliveries')
      PROVE  RowTwo(i, deliveries'[i], retry'[q], retry'[x])
  <2>1. i \in 1..Len(deliveries)
    BY <1>2
  <2>2. RowTwo(i, deliveries[i], retry[q], retry[x])
    BY <1>8, <2>1 DEF PushesInv, RowsLeft
  <2>3. RowStep(i, deliveries[i], retry[q], deliveries'[i], k)
    BY <2>1
  <2>4. RowTwo(i, deliveries'[i], k, retry[x])
    BY <1>5, <1>6, <2>1, <2>2, <2>3, RowTwoStep
  <2>. QED
    BY <1>3, <1>8, <2>4
<1>9. ASSUME NEW y \in Retrier, NEW x \in Retrier, y # x, Retrier = {y, x},
             NEW i \in 1..Len(deliveries')
      PROVE  RowTwo(i, deliveries'[i], retry'[y], retry'[x])
  <2>1. CASE y = q
    BY <1>8, <1>9, <2>1
  <2>2. CASE x = q
    <3>1. y # q /\ Retrier = {q, y}
      BY <1>9, <2>2
    <3>2. RowTwo(i, deliveries'[i], retry'[q], retry'[y])
      BY <1>8, <3>1
    <3>3. i \in Nat /\ deliveries'[i] \in Rows /\ retry'[q] \in Holds /\ retry'[y] \in Holds
      BY <1>2, <1>3, <1>5
    <3>. QED
      BY <2>2, <3>2, <3>3, RowTwoSwaps
  <2>. QED
    BY <1>9, <2>1, <2>2
<1>10. RowsLeft'
  BY <1>7, <1>9 DEF RowsLeft
<1>. QED
  BY <1>1, <1>4, <1>10 DEF PushesInv

SetPosted(d, v)    == [d EXCEPT !.posted = v]
SetUncounted(d, v) == [d EXCEPT !.uncounted = v]
SetStatus(d, v)    == [d EXCEPT !.status = v]
SetRetries(d, v)   == [d EXCEPT !.retries = v]

Twins(d, e) == e.key = d.key /\ e.by = d.by

LEMMA RowFields ==
  ASSUME NEW d \in Rows
  PROVE  /\ \A v \in Nat :
               /\ SetPosted(d, v) \in Rows /\ Twins(d, SetPosted(d, v))
               /\ Stays(d, SetPosted(d, v)) /\ SetPosted(d, v).posted = v
               /\ SetPosted(d, v).uncounted = d.uncounted
         /\ \A v \in Nat :
               /\ SetUncounted(d, v) \in Rows /\ Twins(d, SetUncounted(d, v))
               /\ Stays(d, SetUncounted(d, v)) /\ SetUncounted(d, v).uncounted = v
               /\ SetUncounted(d, v).posted = d.posted
         /\ \A v \in {"sent", "failed"} :
               /\ SetStatus(d, v) \in Rows /\ Twins(d, SetStatus(d, v))
               /\ SetStatus(d, v).status = v /\ SetStatus(d, v).posted = d.posted
               /\ SetStatus(d, v).uncounted = d.uncounted
         /\ \A v \in Nat :
               /\ SetRetries(d, v) \in Rows /\ Twins(d, SetRetries(d, v))
               /\ SetRetries(d, v).retries = v /\ SetRetries(d, v).status = d.status
               /\ SetRetries(d, v).posted = d.posted /\ SetRetries(d, v).uncounted = d.uncounted
<1>1. \A v \in Nat :
         /\ SetPosted(d, v) \in Rows /\ Twins(d, SetPosted(d, v))
         /\ Stays(d, SetPosted(d, v)) /\ SetPosted(d, v).posted = v
         /\ SetPosted(d, v).uncounted = d.uncounted
  BY DEF Rows, SetPosted, Twins, Stays
<1>2. \A v \in Nat :
         /\ SetUncounted(d, v) \in Rows /\ Twins(d, SetUncounted(d, v))
         /\ Stays(d, SetUncounted(d, v)) /\ SetUncounted(d, v).uncounted = v
         /\ SetUncounted(d, v).posted = d.posted
  BY DEF Rows, SetUncounted, Twins, Stays
<1>3. \A v \in {"sent", "failed"} :
         /\ SetStatus(d, v) \in Rows /\ Twins(d, SetStatus(d, v))
         /\ SetStatus(d, v).status = v /\ SetStatus(d, v).posted = d.posted
         /\ SetStatus(d, v).uncounted = d.uncounted
  BY DEF Rows, SetStatus, Twins
<1>4. \A v \in Nat :
         /\ SetRetries(d, v) \in Rows /\ Twins(d, SetRetries(d, v))
         /\ SetRetries(d, v).retries = v /\ SetRetries(d, v).status = d.status
         /\ SetRetries(d, v).posted = d.posted /\ SetRetries(d, v).uncounted = d.uncounted
  BY DEF Rows, SetRetries, Twins
<1>. QED
  BY <1>1, <1>2, <1>3, <1>4

\* Delivery j becomes e; the others stay.
RowAt(j, e) == deliveries' = [deliveries EXCEPT ![j] = e]

LEMMA RowMoves ==
  ASSUME TicksInv, NEW j \in 1..Len(deliveries), NEW e \in Rows, Twins(deliveries[j], e),
         RowAt(j, e)
  PROVE  /\ SameKeys /\ deliveries'[j] = e
         /\ \A i \in 1..Len(deliveries) : i # j => deliveries'[i] = deliveries[i]
<1>1. deliveries \in Seq(Rows)
  BY DEF TicksInv
<1>2. /\ deliveries' \in Seq(Rows) /\ Len(deliveries') = Len(deliveries)
      /\ deliveries'[j] = e
      /\ \A i \in 1..Len(deliveries) : i # j => deliveries'[i] = deliveries[i]
  BY <1>1 DEF RowAt
<1>. QED
  BY <1>2 DEF SameKeys, Twins

\* What a retrier that is at a row knows.
LEMMA AtRow ==
  ASSUME PushesInv, NEW q \in Retrier, retry[q].at # "idle"
  PROVE  /\ retry[q] \in Holds /\ retry[q].row \in 1..Len(deliveries)
         /\ retry[q].count \in 1..(Pushes!Tries - 1) /\ retry[q].count \in Nat
         /\ deliveries[retry[q].row] \in Rows
         /\ \A i \in 1..Len(deliveries) : deliveries[i] \in Rows /\ Tried(deliveries[i])
         /\ Pushes!Rest \in Holds /\ Pushes!Rest.at = "idle"
<1>1. /\ retry[q] \in Holds /\ retry[q].row \in 1..Len(deliveries)
      /\ retry[q].count \in 1..(Pushes!Tries - 1)
      /\ \A i \in 1..Len(deliveries) : Tried(deliveries[i])
  BY DEF PushesInv, RetryTyped
<1>2. \A i \in 1..Len(deliveries) : deliveries[i] \in Rows
  BY DEF PushesInv, TicksInv
<1>3. Pushes!Rest \in Holds /\ Pushes!Rest.at = "idle"
  BY DEF Pushes!Rest, Holds
<1>. QED
  BY <1>1, <1>2, <1>3 DEF Holds

\* A retrier is done with its row, which becomes e.
LEMMA RetrierRests ==
  ASSUME PushesInv, NEW q \in Retrier, retry[q].at # "idle", RetryAt(q, Pushes!Rest),
         UNCHANGED <<sources, shown, tick, seen, orphaned>>,
         NEW e \in Rows, Twins(deliveries[retry[q].row], e), RowAt(retry[q].row, e), Tried(e),
         RowStep(retry[q].row, deliveries[retry[q].row], retry[q], e, Pushes!Rest)
  PROVE  PushesInv'
<1>. DEFINE j == retry[q].row
<1>1. /\ j \in 1..Len(deliveries) /\ Pushes!Rest \in Holds /\ Pushes!Rest.at = "idle"
      /\ \A i \in 1..Len(deliveries) : Tried(deliveries[i])
  BY AtRow
<1>2. /\ SameKeys /\ deliveries'[j] = e
      /\ \A i \in 1..Len(deliveries) : i # j => deliveries'[i] = deliveries[i]
  BY <1>1, RowMoves DEF PushesInv
<1>3. ASSUME NEW i \in 1..Len(deliveries)
      PROVE  /\ RowStep(i, deliveries[i], retry[q], deliveries'[i], Pushes!Rest)
             /\ Tried(deliveries'[i])
  <2>1. CASE i = j
    BY <1>2, <2>1
  <2>2. CASE i # j
    <3>1. Pause(i, deliveries[i], retry[q], deliveries'[i], Pushes!Rest)
      BY <1>1, <1>2, <2>2 DEF Pause, Away, Posts, Stores
    <3>. QED
      BY <1>1, <1>2, <2>2, <3>1 DEF RowStep
  <2>. QED
    BY <2>1, <2>2
<1>. QED
  BY <1>1, <1>2, <1>3, RetrierGoes

LEMMA RetryLoads ==
  ASSUME PushesInv, NEW q \in Retrier, NEW j \in DOMAIN deliveries, Pushes!LoadFailed(q, j)
  PROVE  PushesInv'
<1>. DEFINE d == deliveries[j]
            k == [at |-> "posting", row |-> j, count |-> d.retries, ok |-> FALSE]
<1>1. /\ retry[q].at = "idle" /\ d.status = "failed" /\ d.retries < MaxRetries
      /\ RetryAt(q, k)
      /\ UNCHANGED <<sources, shown, tick, seen, deliveries, orphaned>>
  BY DEF Pushes!LoadFailed, RetryAt
<1>2. /\ deliveries \in Seq(Rows) /\ j \in 1..Len(deliveries) /\ d \in Rows /\ Tried(d)
      /\ \A i \in 1..Len(deliveries) : Tried(deliveries[i])
  BY DEF PushesInv, TicksInv, RetryTyped
<1>3. d.retries \in 1..(Pushes!Tries - 1) /\ d.retries \in Nat /\ j \in Nat
  BY <1>1, <1>2, TriesAre, PushesAssumption DEF Tried, Pushes!Tries
<1>4. k \in Holds /\ k.at = "posting" /\ k.row = j /\ k.count = d.retries
  BY <1>3 DEF Holds
<1>5. SameKeys
  BY <1>1, SameRows DEF PushesInv
<1>. HIDE DEF k
<1>6. ASSUME NEW i \in 1..Len(deliveries)
      PROVE  RowStep(i, deliveries[i], retry[q], deliveries'[i], k) /\ Tried(deliveries'[i])
  <2>1. deliveries'[i] = deliveries[i] /\ Away(retry[q], i) /\ Tried(deliveries'[i])
    BY <1>1, <1>2 DEF Away, Posts, Stores
  <2>2. CASE i = j
    <3>1. Posts(k, i)
      BY <1>4, <2>2 DEF Posts
    <3>2. Loads(i, deliveries[i], retry[q], deliveries'[i], k)
      BY <1>1, <1>4, <2>1, <2>2, <3>1 DEF Loads
    <3>. QED
      BY <2>1, <3>2 DEF RowStep
  <2>3. CASE i # j
    <3>1. Away(k, i)
      BY <1>4, <2>3 DEF Away, Posts, Stores
    <3>. QED
      BY <2>1, <3>1 DEF RowStep, Pause
  <2>. QED
    BY <2>2, <2>3
<1>. QED
  BY <1>1, <1>2, <1>3, <1>4, <1>5, <1>6, RetrierGoes

HoldAt(h, v) == [h EXCEPT !.at = v]
HoldOk(h, v) == [h EXCEPT !.ok = v]

LEMMA RetryPosts ==
  ASSUME PushesInv, NEW q \in Retrier, Pushes!PostAgain(q) PROVE PushesInv'
<1>. DEFINE h == retry[q]
            j == h.row
            d == deliveries[j]
            e == SetPosted(d, d.posted + 1)
<1>1. /\ h.at = "posting" /\ RowAt(j, e)
      /\ UNCHANGED <<sources, shown, tick, seen, orphaned>>
  BY DEF Pushes!PostAgain, RowAt, SetPosted
<1>2. PICK v \in BOOLEAN : retry' = [retry EXCEPT ![q].at = "storing", ![q].ok = v]
  BY DEF Pushes!PostAgain
<1>. DEFINE a == HoldAt(h, "storing")
            k == HoldOk(a, v)
<1>3. RetryAt(q, k)
  <2>1. retry \in [Retrier -> Holds]
    BY DEF PushesInv, RetryTyped
  <2>. QED
    BY <1>2, <2>1 DEF RetryAt, HoldAt, HoldOk
<1>4. /\ h \in Holds /\ j \in 1..Len(deliveries) /\ h.count \in 1..(Pushes!Tries - 1) /\ d \in Rows
      /\ \A i \in 1..Len(deliveries) : Tried(deliveries[i])
  BY <1>1, AtRow
<1>5. a \in Holds /\ a.at = "storing" /\ a.row = j /\ a.count = h.count
  BY <1>4 DEF Holds, HoldAt
<1>. HIDE DEF a
<1>6. k \in Holds /\ k.at = "storing" /\ k.row = j /\ k.count = h.count
  BY <1>5 DEF Holds, HoldOk
<1>. HIDE DEF k
<1>7. /\ e \in Rows /\ Twins(d, e) /\ Stays(d, e) /\ e.posted = d.posted + 1
      /\ e.uncounted = d.uncounted
  <2>1. d.posted + 1 \in Nat
    BY <1>4 DEF Rows
  <2>. QED
    BY <1>4, <2>1, RowFields
<1>. HIDE DEF e
<1>8. /\ SameKeys /\ deliveries'[j] = e
      /\ \A i \in 1..Len(deliveries) : i # j => deliveries'[i] = deliveries[i]
  BY <1>1, <1>4, <1>7, RowMoves DEF PushesInv
<1>9. ASSUME NEW i \in 1..Len(deliveries)
      PROVE  RowStep(i, deliveries[i], h, deliveries'[i], k) /\ Tried(deliveries'[i])
  <2>1. CASE i = j
    <3>1. Posts(h, i) /\ Stores(k, i)
      BY <1>1, <1>6, <2>1 DEF Posts, Stores
    <3>2. Posted(i, d, h, e, k)
      BY <1>6, <1>7, <3>1 DEF Posted
    <3>3. Tried(e)
      BY <1>4, <1>7 DEF Tried, Stays
    <3>. QED
      BY <1>8, <2>1, <3>2, <3>3 DEF RowStep
  <2>2. CASE i # j
    <3>1. Away(h, i) /\ Away(k, i)
      BY <1>6, <2>2 DEF Away, Posts, Stores
    <3>2. deliveries'[i] = deliveries[i]
      BY <1>8, <2>2
    <3>. QED
      BY <1>4, <3>1, <3>2 DEF RowStep, Pause
  <2>. QED
    BY <2>1, <2>2
<1>. QED
  BY <1>1, <1>3, <1>4, <1>6, <1>8, <1>9, RetrierGoes

LEMMA RetryStores ==
  ASSUME PushesInv, NEW q \in Retrier, Pushes!StoreRetry(q) PROVE PushesInv'
<1>. DEFINE h == retry[q]
            j == h.row
            d == deliveries[j]
            s == SetStatus(d, "sent")
            f == SetRetries(d, h.count + 1)
<1>1. /\ h.at = "storing" /\ RetryAt(q, Pushes!Rest)
      /\ UNCHANGED <<sources, shown, tick, seen, orphaned>>
  BY DEF Pushes!StoreRetry, RetryAt
<1>2. /\ h \in Holds /\ j \in 1..Len(deliveries) /\ h.count \in 1..(Pushes!Tries - 1)
      /\ h.count \in Nat /\ d \in Rows /\ Tried(d) /\ Pushes!Rest.at = "idle"
  BY <1>1, AtRow
<1>3. Stores(h, j) /\ Away(Pushes!Rest, j)
  BY <1>1, <1>2 DEF Stores, Away, Posts
<1>4. CASE h.ok
  <2>1. RowAt(j, s)
    BY <1>4 DEF Pushes!StoreRetry, RowAt, SetStatus
  <2>2. /\ s \in Rows /\ Twins(d, s) /\ s.status = "sent" /\ s.posted = d.posted
        /\ s.uncounted = d.uncounted
    BY <1>2, RowFields
  <2>. HIDE DEF s
  <2>3. Tried(s) /\ RowStep(j, d, h, s, Pushes!Rest)
    BY <1>3, <2>2 DEF Tried, RowStep, Settles
  <2>. QED
    BY <1>1, <2>1, <2>2, <2>3, RetrierRests
<1>5. CASE ~h.ok
  <2>1. RowAt(j, f)
    BY <1>5 DEF Pushes!StoreRetry, RowAt, SetRetries
  <2>2. h.count + 1 \in Nat /\ h.count + 1 \in 1..Pushes!Tries
    BY <1>2, TriesAre
  <2>3. /\ f \in Rows /\ Twins(d, f) /\ f.retries = h.count + 1 /\ f.status = d.status
        /\ f.posted = d.posted /\ f.uncounted = d.uncounted
    BY <1>2, <2>2, RowFields
  <2>. HIDE DEF f
  <2>4. Tried(f) /\ RowStep(j, d, h, f, Pushes!Rest)
    BY <1>3, <2>2, <2>3 DEF Tried, RowStep, Fails
  <2>. QED
    BY <1>1, <2>1, <2>3, <2>4, RetrierRests
<1>. QED
  BY <1>4, <1>5

LEMMA RetryDiesToo ==
  ASSUME PushesInv, NEW q \in Retrier, Pushes!RetryDies(q) PROVE PushesInv'
<1>. DEFINE h == retry[q]
            j == h.row
            d == deliveries[j]
            e == SetUncounted(d, d.uncounted + 1)
<1>1. /\ h.at # "idle" /\ RetryAt(q, Pushes!Rest)
      /\ UNCHANGED <<sources, shown, tick, seen, orphaned>>
  BY DEF Pushes!RetryDies, RetryAt
<1>2. /\ h \in Holds /\ j \in 1..Len(deliveries) /\ d \in Rows /\ Tried(d)
      /\ Pushes!Rest.at = "idle"
  BY <1>1, AtRow
<1>3. Away(Pushes!Rest, j) /\ deliveries \in Seq(Rows)
  BY <1>2 DEF Stores, Away, Posts, PushesInv, TicksInv
<1>4. CASE h.at = "posting"
  <2>1. UNCHANGED deliveries
    BY <1>4 DEF Pushes!RetryDies
  <2>2. RowAt(j, d)
    BY <1>2, <1>3, <2>1 DEF RowAt
  <2>3. RowStep(j, d, h, d, Pushes!Rest)
    BY <1>3, <1>4 DEF RowStep, GivesUp, Posts
  <2>4. Twins(d, d)
    BY DEF Twins
  <2>. QED
    BY <1>1, <1>2, <2>2, <2>3, <2>4, RetrierRests
<1>5. CASE h.at = "storing"
  <2>1. RowAt(j, e)
    BY <1>5 DEF Pushes!RetryDies, RowAt, SetUncounted
  <2>2. d.uncounted + 1 \in Nat
    BY <1>2 DEF Rows
  <2>3. /\ e \in Rows /\ Twins(d, e) /\ Stays(d, e) /\ e.uncounted = d.uncounted + 1
        /\ e.posted = d.posted
    BY <1>2, <2>2, RowFields
  <2>. HIDE DEF e
  <2>4. Tried(e) /\ RowStep(j, d, h, e, Pushes!Rest)
    BY <1>2, <1>3, <1>5, <2>3 DEF Tried, RowStep, Forgets, Stores, Stays
  <2>. QED
    BY <1>1, <2>1, <2>3, <2>4, RetrierRests
<1>. QED
  BY <1>1, <1>2, <1>4, <1>5 DEF Holds

\* A ticker's step leaves the retriers and their rows alone.
LEMMA RetriersRest ==
  ASSUME PushesInv, TicksInv', KeysInv', UNCHANGED <<retry, deliveries>>
  PROVE  PushesInv'
BY DEF PushesInv, RetryTyped, RowsLeft

\* A row that is new has been posted once, and no retrier is at it.
LEMMA RowIsNew ==
  ASSUME PushesInv, TicksInv', KeysInv', UNCHANGED retry, NEW d \in Rows,
         deliveries' = Append(deliveries, d), d.posted = 1, d.uncounted = 0,
         d.status = "failed" => d.retries = 1
  PROVE  PushesInv'
<1>. DEFINE n == Len(deliveries)
            T == Pushes!Tries
<1>1. deliveries \in Seq(Rows) /\ n \in Nat
  BY DEF PushesInv, TicksInv
<1>2. /\ Len(deliveries') = n + 1 /\ deliveries'[n + 1] = d
      /\ \A i \in 1..n : deliveries'[i] = deliveries[i]
  BY <1>1
<1>3. \A i \in 1..(n + 1) : i \in 1..n \/ i = n + 1
  BY <1>1
<1>4. \A q \in Retrier : Away(retry[q], n + 1)
  <2>1. ASSUME NEW q \in Retrier, retry[q].at # "idle" PROVE retry[q].row # n + 1
    BY <1>1, <2>1 DEF PushesInv, RetryTyped
  <2>. QED
    BY <2>1 DEF Away, Posts, Stores
<1>5. T \in Nat \ {0}
  BY TriesAre
<1>6. Tried(d)
  BY <1>5 DEF Tried
<1>7. RetryTyped'
  <2>1. 1..n \subseteq 1..(n + 1)
    BY <1>1
  <2>. QED
    BY <1>2, <1>3, <1>6, <2>1 DEF PushesInv, RetryTyped
<1>8. 1 \in 1..T /\ Tri(T) \in Nat /\ Tri(T) >= 1 /\ Tri(T) = Tri(T - 1) + T /\ Tri(T - 1) \in Nat
  <2>1. T - 1 \in Nat /\ (T - 1) + 1 = T
    BY <1>5
  <2>. HIDE DEF T
  <2>2. Tri(T - 1) \in Nat /\ Tri((T - 1) + 1) = Tri(T - 1) + (T - 1) + 1
    BY <2>1, TriGrows
  <2>3. Tri(T) \in Nat /\ Tri(T) >= 1
    BY <1>5, TriPositive
  <2>. QED
    BY <1>5, <2>1, <2>2, <2>3
<1>9. d.retries \in Nat /\ d.status \in {"sent", "failed"}
  BY DEF Rows
<1>10. ASSUME NEW h, Away(h, n + 1)
       PROVE  Weight(h, n + 1) = 1 /\ Awaits(h, n + 1) = 0 /\ Reads(h, n + 1, d) = d.retries
  BY <1>10 DEF Weight, Awaits, Reads, Away
<1>11. ASSUME NEW h, NEW x, Away(h, n + 1), Away(x, n + 1) PROVE RowTwo(n + 1, d, h, x)
  <2>1. /\ Weight(h, n + 1) = 1 /\ Awaits(h, n + 1) = 0 /\ Reads(h, n + 1, d) = d.retries
        /\ Weight(x, n + 1) = 1 /\ Awaits(x, n + 1) = 0 /\ Reads(x, n + 1, d) = d.retries
    BY <1>10, <1>11
  <2>2. d.status = "failed" =>
           d.posted + (1 + 1) + (T - d.retries) + Tri(T - d.retries) <= d.uncounted + Tri(T) + 2
    <3>. HIDE DEF T
    <3>. QED
      BY <1>5, <1>8
  <2>3. d.posted + 0 + 0 <= d.uncounted + Tri(T)
    <3>. HIDE DEF T
    <3>. QED
      BY <1>8
  <2>. QED
    BY <2>1, <2>2, <2>3 DEF RowTwo, RoomTwo
<1>12. ASSUME NEW h, Away(h, n + 1) PROVE RowOne(n + 1, d, h)
  <2>1. Weight(h, n + 1) = 1 /\ Awaits(h, n + 1) = 0 /\ Reads(h, n + 1, d) = d.retries
    BY <1>10, <1>12
  <2>2. d.status = "failed" => d.posted + 1 + (T - d.retries) <= d.uncounted + T + 1
    <3>. HIDE DEF T
    <3>. QED
      BY <1>5
  <2>3. d.posted + 0 <= d.uncounted + T
    <3>. HIDE DEF T
    <3>. QED
      BY <1>5
  <2>. QED
    BY <2>1, <2>2, <2>3 DEF RowOne, RoomOne
<1>13. RowsLeft'
  <2>1. ASSUME Retrier = {}, NEW i \in 1..Len(deliveries')
        PROVE  deliveries'[i].posted <= deliveries'[i].uncounted + T
    <3>1. CASE i \in 1..n
      BY <1>2, <2>1, <3>1 DEF PushesInv, RowsLeft
    <3>2. CASE i = n + 1
      <4>. HIDE DEF T
      <4>. QED
        BY <1>2, <1>5, <3>2
    <3>. QED
      BY <1>2, <1>3, <3>1, <3>2
  <2>2. ASSUME NEW q \in Retrier, Retrier = {q}, NEW i \in 1..Len(deliveries')
        PROVE  RowOne(i, deliveries'[i], retry[q])
    <3>1. CASE i \in 1..n
      BY <1>2, <2>2, <3>1 DEF PushesInv, RowsLeft
    <3>2. CASE i = n + 1
      BY <1>2, <1>4, <1>12, <3>2
    <3>. QED
      BY <1>2, <1>3, <3>1, <3>2
  <2>3. ASSUME NEW q \in Retrier, NEW x \in Retrier, q # x, Retrier = {q, x},
               NEW i \in 1..Len(deliveries')
        PROVE  RowTwo(i, deliveries'[i], retry[q], retry[x])
    <3>1. CASE i \in 1..n
      BY <1>2, <2>3, <3>1 DEF PushesInv, RowsLeft
    <3>2. CASE i = n + 1
      BY <1>2, <1>4, <1>11, <3>2
    <3>. QED
      BY <1>2, <1>3, <3>1, <3>2
  <2>. QED
    BY <2>1, <2>2, <2>3 DEF RowsLeft
<1>. QED
  BY <1>7, <1>13 DEF PushesInv

LEMMA PushesGoOn ==
  ASSUME PushesInv, [Pushes!Next]_pushesVars PROVE PushesInv'
<1>0. TicksInv /\ KeysInv
  BY DEF PushesInv
<1>1. CASE UNCHANGED pushesVars
  BY <1>1 DEF pushesVars, PushesInv, TicksInv, KeysInv, AllLogged, OncePushed, AboutTo, Pursued,
              NotYet, RetryTyped, RowsLeft
<1>2. CASE \/ Pushes!Stop
           \/ \E t \in Loop : Pushes!Start(t) \/ Pushes!LoopEnds(t)
           \/ \E s \in Sensor : Pushes!CreateSource(s) \/ Pushes!Happens(s)
  <2>1. TicksInv' /\ KeysInv'
    BY <1>0, <1>2, OthersMove
  <2>2. UNCHANGED <<retry, deliveries>>
    BY <1>2 DEF Pushes!Stop, Pushes!Start, Pushes!LoopEnds, Pushes!CreateSource, Pushes!Happens
  <2>. QED
    BY <2>1, <2>2, RetriersRest
<1>3. ASSUME NEW t \in Pushes!Ticker,
             \/ Pushes!Begin(t) \/ Pushes!Pull(t) \/ Pushes!Check(t) \/ Pushes!Log(t)
             \/ Pushes!Post(t) \/ Pushes!Die(t)
      PROVE  PushesInv'
  <2>1. TicksInv' /\ KeysInv'
    BY <1>0, <1>3, TickBegins, TickPulls, TickChecks, TickLogs, TickPosts, TickDies
  <2>2. UNCHANGED <<retry, deliveries>>
    BY <1>3 DEF Pushes!Begin, Pushes!Pull, Pushes!Check, Pushes!Log, Pushes!Post, Pushes!Die
  <2>. QED
    BY <2>1, <2>2, RetriersRest
<1>4. ASSUME NEW t \in Pushes!Ticker, Pushes!Store(t) PROVE PushesInv'
  <2>. DEFINE d == [key |-> Pushes!Key(Pushes!Of(t), Pushes!From(t)), by |-> t, posted |-> 1,
                    uncounted |-> 0, status |-> IF tick[t].ok THEN "sent" ELSE "failed",
                    retries |-> IF tick[t].ok THEN 0 ELSE 1]
  <2>1. TicksInv' /\ KeysInv'
    BY <1>0, <1>4, TickStores
  <2>2. UNCHANGED retry /\ deliveries' = Append(deliveries, d) /\ tick[t].at = "storing"
    BY <1>4 DEF Pushes!Store
  <2>3. Pushes!Key(Pushes!Of(t), Pushes!From(t)) \in Keys
    BY <1>0, <2>2, AtEvent
  <2>4. /\ d \in Rows /\ d.posted = 1 /\ d.uncounted = 0
        /\ d.status = "failed" => d.retries = 1
    BY <2>3 DEF Rows
  <2>. HIDE DEF d
  <2>. QED
    BY <2>1, <2>2, <2>4, RowIsNew
<1>5. ASSUME NEW q \in Retrier,
             \/ \E i \in DOMAIN deliveries : Pushes!LoadFailed(q, i)
             \/ Pushes!PostAgain(q) \/ Pushes!StoreRetry(q) \/ Pushes!RetryDies(q)
      PROVE  PushesInv'
  BY <1>5, RetryLoads, RetryPosts, RetryStores, RetryDiesToo
<1>. QED
  BY <1>1, <1>2, <1>3, <1>4, <1>5 DEF Pushes!Next

LEMMA PushesStart == ASSUME Pushes!Init PROVE PushesInv
<1>1. TicksInv /\ KeysInv
  BY PushesBegin
<1>2. deliveries = <<>> /\ retry = [q \in Retrier |-> Pushes!Rest]
  BY DEF Pushes!Init
<1>3. Pushes!Rest \in Holds /\ Pushes!Rest.at = "idle"
  BY DEF Pushes!Rest, Holds
<1>4. \A i : i \notin 1..Len(deliveries)
  BY <1>2
<1>5. retry \in [Retrier -> Holds] /\ \A q \in Retrier : retry[q].at = "idle"
  BY <1>2, <1>3
<1>6. RetryTyped
  BY <1>4, <1>5 DEF RetryTyped
<1>7. RowsLeft
  BY <1>4 DEF RowsLeft
<1>. QED
  BY <1>1, <1>6, <1>7 DEF PushesInv

LEMMA RoomBounds ==
  ASSUME NEW p \in Nat, NEW u \in Nat, NEW n \in Nat, NEW w \in {0, 1}, NEW v \in {0, 1},
         NEW s \in Nat, NEW a \in Nat,
         p + (w + v) + s + a <= u + n + 2, (w + v) + s + a >= 2
  PROVE  p <= u + n
OBVIOUS

\* What is left of a row bounds what it was posted.
LEMMA PostsEnd == ASSUME PushesInv PROVE Pushes!RetriesEnd
<1>. DEFINE T == Pushes!Tries
<1>1. \A S : Pushes!Cardinality(S) = Cardinality(S)
  BY DEF Cardinality, Pushes!Cardinality
<1>2. IsFiniteSet(Retrier) /\ Cardinality(Retrier) \in Nat
  BY PushesAssumption, FS_CardinalityType
<1>3. T \in Nat \ {0} /\ Tri(T) \in Nat
  BY TriesAre, TriPositive
<1>4. deliveries \in Seq(Rows) /\ DOMAIN deliveries = 1..Len(deliveries)
  BY DEF PushesInv, TicksInv
<1>5. ASSUME NEW i \in 1..Len(deliveries)
      PROVE  /\ deliveries[i].posted \in Nat /\ deliveries[i].uncounted \in Nat
             /\ deliveries[i].status \in {"sent", "failed"} /\ deliveries[i].retries \in Nat
             /\ deliveries[i].status = "failed" => deliveries[i].retries \in 1..T
  <2>1. deliveries[i] \in Rows
    BY <1>4
  <2>2. Tried(deliveries[i])
    BY DEF PushesInv, RetryTyped
  <2>. QED
    BY <2>1, <2>2 DEF Rows, Tried
<1>6. ASSUME Cardinality(Retrier) = 0, NEW i \in 1..Len(deliveries)
      PROVE  deliveries[i].posted <= deliveries[i].uncounted + T
  <2>1. Retrier = {}
    BY <1>2, <1>6, FS_EmptySet
  <2>. QED
    BY <2>1 DEF PushesInv, RowsLeft
<1>7. ASSUME Cardinality(Retrier) = 1, NEW i \in 1..Len(deliveries)
      PROVE  deliveries[i].posted <= deliveries[i].uncounted + T
  <2>1. PICK q : Retrier = {q}
    BY <1>2, <1>7, FS_Singleton
  <2>2. RowOne(i, deliveries[i], retry[q])
    BY <2>1 DEF PushesInv, RowsLeft
  <2>3. Weight(retry[q], i) \in {0, 1} /\ Awaits(retry[q], i) \in {0, 1}
    BY DEF Weight, Awaits
  <2>4. ASSUME deliveries[i].status = "failed"
        PROVE  deliveries[i].posted <= deliveries[i].uncounted + T
    <3>1. deliveries[i].retries = Reads(retry[q], i, deliveries[i])
      BY <2>2, <2>4 DEF RowOne
    <3>2. ~Away(retry[q], i) => deliveries[i].retries <= T - 1
      <4>1. ~Away(retry[q], i) => retry[q].count \in 1..(T - 1)
        BY <2>1 DEF PushesInv, RetryTyped, Away, Posts, Stores
      <4>. QED
        BY <1>3, <3>1, <4>1 DEF Reads
    <3>3. Away(retry[q], i) => Weight(retry[q], i) = 1
      BY DEF Weight, Away
    <3>4. deliveries[i].posted + Weight(retry[q], i) + (T - deliveries[i].retries)
             <= deliveries[i].uncounted + T + 1
      BY <2>2, <2>4 DEF RowOne, RoomOne
    <3>. DEFINE p == deliveries[i].posted
                u == deliveries[i].uncounted
                r == deliveries[i].retries
                w == Weight(retry[q], i)
    <3>5. p \in Nat /\ u \in Nat /\ r \in 1..T /\ w \in {0, 1}
      BY <1>5, <2>3, <2>4
    <3>6. p + w + (T - r) <= u + T + 1 /\ (w = 1 \/ r <= T - 1)
      BY <3>2, <3>3, <3>4
    <3>. HIDE DEF T, p, u, r, w
    <3>7. p <= u + T
      BY <1>3, <3>5, <3>6
    <3>. QED
      BY <3>7 DEF p, u
  <2>5. ASSUME deliveries[i].status = "sent"
        PROVE  deliveries[i].posted <= deliveries[i].uncounted + T
    <3>1. deliveries[i].posted + Awaits(retry[q], i) <= deliveries[i].uncounted + T
      BY <2>2, <2>5 DEF RowOne
    <3>. HIDE DEF T
    <3>. QED
      BY <1>3, <1>5, <2>3, <3>1
  <2>. QED
    BY <1>5, <2>4, <2>5
<1>8. ASSUME Cardinality(Retrier) = 2, NEW i \in 1..Len(deliveries)
      PROVE  deliveries[i].posted <= deliveries[i].uncounted + Tri(T)
  <2>1. PICK q : q \in Retrier
    BY <1>8, FS_EmptySet
  <2>2. IsFiniteSet(Retrier \ {q}) /\ Cardinality(Retrier \ {q}) = 1
    BY <1>2, <1>8, <2>1, FS_RemoveElement
  <2>3. PICK x : Retrier \ {q} = {x}
    BY <2>2, FS_Singleton
  <2>4. x \in Retrier /\ q # x /\ Retrier = {q, x}
    BY <2>1, <2>3
  <2>5. RowTwo(i, deliveries[i], retry[q], retry[x])
    BY <2>1, <2>4 DEF PushesInv, RowsLeft
  <2>. DEFINE w == Weight(retry[q], i)
              v == Weight(retry[x], i)
              d == deliveries[i]
              lo == Reads(retry[q], i, d)
              g == Reads(retry[x], i, d)
  <2>6. /\ w \in {0, 1} /\ v \in {0, 1} /\ Awaits(retry[q], i) \in {0, 1}
        /\ Awaits(retry[x], i) \in {0, 1}
    BY DEF Weight, Awaits
  <2>7. /\ (Away(retry[q], i) => w = 1 /\ lo = d.retries) /\ (Away(retry[x], i) => v = 1 /\ g = d.retries)
        /\ (~Away(retry[q], i) => lo \in 1..(T - 1)) /\ (~Away(retry[x], i) => g \in 1..(T - 1))
    <3>1. \A y \in Retrier : ~Away(retry[y], i) => retry[y].count \in 1..(T - 1)
      BY DEF PushesInv, RetryTyped, Away, Posts, Stores
    <3>. QED
      BY <2>1, <2>4, <3>1 DEF Weight, Reads, Away
  <2>8. ASSUME d.status = "failed" PROVE d.posted <= d.uncounted + Tri(T)
    <3>1. /\ d.retries \in {lo, g} /\ RoomTwo(d, w + v, lo) /\ RoomTwo(d, w + v, g)
          /\ d.retries \in 1..T
      BY <1>5, <2>5, <2>8 DEF RowTwo
    <3>2. /\ d.posted + (w + v) + (T - d.retries) + Tri(T - lo) <= d.uncounted + Tri(T) + 2
          /\ d.posted + (w + v) + (T - d.retries) + Tri(T - g) <= d.uncounted + Tri(T) + 2
      BY <3>1 DEF RoomTwo
    <3>3. \A c \in 1..T : T - c \in Nat /\ Tri(T - c) \in Nat /\ (c < T => Tri(T - c) >= 1)
      BY CountsLeave
    <3>4. d.posted \in Nat /\ d.uncounted \in Nat
      BY <1>5
    <3>. HIDE DEF T, w, v, lo, g, d
    <3>5. lo \in 1..T /\ g \in 1..T /\ (lo \in 1..(T - 1) => lo < T) /\ (g \in 1..(T - 1) => g < T)
      BY <1>3, <2>7, <3>1
    <3>6. Tri(T - lo) \in Nat /\ Tri(T - g) \in Nat /\ T - d.retries \in Nat
      BY <3>1, <3>3, <3>5
    <3>7. \/ (w + v) + (T - d.retries) + Tri(T - lo) >= 2
          \/ (w + v) + (T - d.retries) + Tri(T - g) >= 2
      <4>1. CASE w = 1 /\ v = 1
        BY <3>6, <4>1
      <4>2. ASSUME d.retries <= T - 1 PROVE T - d.retries >= 1
        BY <1>3, <3>1, <4>2
      <4>3. CASE w = 0
        <5>1. lo \in 1..(T - 1) /\ Tri(T - lo) >= 1
          BY <2>7, <3>3, <3>5, <4>3
        <5>2. d.retries <= T - 1 \/ v = 1
          BY <1>3, <2>6, <2>7, <3>1, <5>1
        <5>. QED
          BY <2>6, <3>6, <4>2, <5>1, <5>2
      <4>4. CASE v = 0
        <5>1. g \in 1..(T - 1) /\ Tri(T - g) >= 1
          BY <2>7, <3>3, <3>5, <4>4
        <5>2. d.retries <= T - 1 \/ w = 1
          BY <1>3, <2>6, <2>7, <3>1, <5>1
        <5>. QED
          BY <2>6, <3>6, <4>2, <5>1, <5>2
      <4>. QED
        BY <2>6, <4>1, <4>3, <4>4
    <3>. QED
      BY <1>3, <2>6, <3>2, <3>4, <3>6, <3>7, RoomBounds
  <2>9. ASSUME d.status = "sent" PROVE d.posted <= d.uncounted + Tri(T)
    <3>1. d.posted + Awaits(retry[q], i) + Awaits(retry[x], i) <= d.uncounted + Tri(T)
      BY <2>5, <2>9 DEF RowTwo
    <3>. HIDE DEF T
    <3>. QED
      BY <1>3, <1>5, <2>6, <3>1
  <2>. QED
    BY <1>5, <2>8, <2>9
<1>9. ASSUME Cardinality(Retrier) <= 2, NEW i \in 1..Len(deliveries)
      PROVE  deliveries[i].posted <= deliveries[i].uncounted +
                IF Cardinality(Retrier) = 2 THEN Tri(T) ELSE T
  <2>1. Cardinality(Retrier) \in {0, 1, 2}
    BY <1>2, <1>9
  <2>. QED
    BY <1>6, <1>7, <1>8, <2>1
<1>. QED
  BY <1>1, <1>4, <1>9 DEF Pushes!RetriesEnd, Tri

(* However ticks, threads and retries overlap and die, a ticker pushes what *)
(* goes by one id once, what was logged and is worth a push is pushed or    *)
(* its process died, and a delivery is not posted for ever                  *)
(* (ProactiveService.run_tick, OutboundService.send and retry).             *)
THEOREM EventsArePushed == SpecAll => []EventsPushed
<1>. DEFINE I == part = "outreach" => PushesInv
<1>1. InitAll => I
  BY PushesStart DEF InitAll
<1>2. I /\ [NextAll]_allVars => I'
  BY OneReaches, PushesGoOn
<1>3. I => EventsPushed
  <2>1. ASSUME PushesInv
        PROVE  Pushes!PushedOnce /\ Pushes!LoggedIsPushed
    <3>0. DOMAIN deliveries = 1..Len(deliveries)
      BY <2>1 DEF PushesInv, TicksInv
    <3>1. Pushes!PushedOnce
      BY <2>1, <3>0 DEF PushesInv, KeysInv, OncePushed, Pushes!PushedOnce
    <3>2. \A key \in seen : Pushes!WorthPushing(key) => Pursued(key)
      BY <2>1 DEF PushesInv, KeysInv
    <3>3. \A t \in Pushes!Ticker : KeyAt(tick[t]) = Pushes!Key(Pushes!Of(t), Pushes!From(t))
      BY DEF KeyAt, Pushes!Of, Pushes!From
    <3>. QED
      BY <3>0, <3>1, <3>2, <3>3 DEF Pursued, Pushes!LoggedIsPushed
  <2>. QED
    BY <2>1, PostsEnd DEF EventsPushed
<1>. QED
  BY <1>1, <1>2, <1>3, PTL DEF SpecAll

=============================================================================
