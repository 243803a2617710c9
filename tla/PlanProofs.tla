----------------------------- MODULE PlanProofs -----------------------------
(* The plan of a coding agent (PlanProjection) for any number of calls, any *)
(* order of their results and any size of a plan.  What recursion computes  *)
(* is proved by the least number it would fail for.                         *)
EXTENDS ServicesProofs

(* Induction up to n over a set of numbers. *)
LEMMA Climb ==
  ASSUME NEW n \in Nat, NEW G, 0 \in G, \A k \in 0..n : k < n /\ k \in G => k + 1 \in G
  PROVE  \A k \in 0..n : k \in G
<1>. DEFINE bad == {k \in 0..n : k \notin G}
            R == OpToRel(<, Nat)
<1>1. SUFFICES ASSUME bad # {} PROVE FALSE
  OBVIOUS
<1>2. PICK x \in bad : \A y \in bad : ~(<<y, x>> \in R)
  <2>1. bad \subseteq Nat
    OBVIOUS
  <2>. HIDE DEF bad
  <2>. QED
    BY <1>1, <2>1, WFMin, NatLessThanWellFounded
<1>3. ASSUME NEW y \in Nat, NEW z \in Nat, y < z PROVE <<y, z>> \in R
  BY <1>3 DEF OpToRel
<1>4. x \in 0..n /\ x # 0 /\ x \notin G
  OBVIOUS
<1>5. x - 1 \in Nat /\ x \in Nat /\ x - 1 < x /\ x - 1 \in 0..n
  BY <1>4
<1>6. x - 1 \notin bad
  BY <1>2, <1>3, <1>5
<1>7. x - 1 \in G /\ x - 1 < n
  BY <1>4, <1>5, <1>6
<1>8. (x - 1) + 1 \in G
  BY <1>5, <1>7
<1>. QED
  BY <1>4, <1>5, <1>8

LEMMA Largest ==
  ASSUME NEW n \in Nat, NEW S, S \subseteq 1..n, S # {}
  PROVE  \E m \in S : \A s \in S : s <= m
<1>. DEFINE G == {k \in 0..n : (\A s \in S : s > k) \/ \E m \in S : \A s \in S : s <= k => s <= m}
<1>1. 0 \in G
  OBVIOUS
<1>2. ASSUME NEW k \in 0..n, k < n, k \in G PROVE k + 1 \in G
  <2>1. k + 1 \in 0..n
    BY <1>2
  <2>2. CASE k + 1 \in S
    <3>1. \A s \in S : s <= k + 1 => s <= k + 1
      OBVIOUS
    <3>. QED
      BY <2>1, <2>2, <3>1
  <2>3. CASE k + 1 \notin S
    <3>1. \A s \in S : s <= k + 1 => s <= k
      BY <1>2, <2>3
    <3>2. CASE \A s \in S : s > k
      <4>1. \A s \in S : s > k + 1
        BY <1>2, <3>1, <3>2
      <4>. QED
        BY <2>1, <4>1
    <3>3. CASE \E m \in S : \A s \in S : s <= k => s <= m
      <4>1. PICK m \in S : \A s \in S : s <= k => s <= m
        BY <3>3
      <4>2. \A s \in S : s <= k + 1 => s <= m
        BY <3>1, <4>1
      <4>. QED
        BY <2>1, <4>2
    <3>. QED
      BY <1>2, <3>2, <3>3
  <2>. QED
    BY <2>2, <2>3
<1>. HIDE DEF G
<1>3. n \in G
  BY <1>1, <1>2, Climb
<1>4. (\A s \in S : s > n) \/ \E m \in S : \A s \in S : s <= n => s <= m
  BY <1>3 DEF G
<1>5. \A s \in S : s <= n /\ ~(s > n)
  OBVIOUS
<1>. QED
  BY <1>4, <1>5

Folds(f, n, v, A) == f[0] = v /\ \A k \in 1..n : f[k] = A[<<f[k - 1], k>>]

\* A function can be folded over 1..n, step by step.
LEMMA FoldRuns ==
  ASSUME NEW n \in Nat, NEW V, NEW v \in V, NEW A \in [V \X (1..n) -> V]
  PROVE  \E f \in [0..n -> V] : Folds(f, n, v, A)
<1>. DEFINE G == {m \in 0..n :
                     \E f \in [0..m -> V] : f[0] = v /\ \A k \in 1..m : f[k] = A[<<f[k - 1], k>>]}
<1>1. 0 \in G
  <2>. DEFINE f == [k \in 0..0 |-> v]
  <2>1. f \in [0..0 -> V] /\ f[0] = v
    OBVIOUS
  <2>2. \A k \in 1..0 : f[k] = A[<<f[k - 1], k>>]
    OBVIOUS
  <2>. HIDE DEF f
  <2>. QED
    BY <2>1, <2>2
<1>2. ASSUME NEW m \in 0..n, m < n, m \in G PROVE m + 1 \in G
  <2>1. PICK f \in [0..m -> V] : f[0] = v /\ \A k \in 1..m : f[k] = A[<<f[k - 1], k>>]
    BY <1>2
  <2>. DEFINE g == [k \in 0..(m + 1) |-> IF k = m + 1 THEN A[<<f[m], m + 1>>] ELSE f[k]]
  <2>2. /\ m \in Nat /\ m + 1 \in 1..n /\ m + 1 \in 0..n /\ f[m] \in V
        /\ A[<<f[m], m + 1>>] \in V
    BY <1>2
  <2>3. ASSUME NEW k \in 0..(m + 1) PROVE g[k] \in V
    BY <2>2
  <2>4. g \in [0..(m + 1) -> V]
    BY <2>3
  <2>5. g[0] = v
    BY <2>1, <2>2
  <2>6. ASSUME NEW k \in 1..(m + 1) PROVE g[k] = A[<<g[k - 1], k>>]
    <3>1. CASE k = m + 1
      <4>1. k - 1 = m /\ m \in 0..(m + 1) /\ m # m + 1
        BY <2>2, <3>1
      <4>2. g[k - 1] = f[m]
        BY <4>1
      <4>3. g[k] = A[<<f[m], k>>]
        BY <3>1
      <4>. HIDE DEF g
      <4>. QED
        BY <4>2, <4>3
    <3>2. CASE k # m + 1
      <4>1. k \in 1..m /\ k - 1 \in 0..m /\ g[k] = f[k] /\ g[k - 1] = f[k - 1]
        BY <2>2, <3>2
      <4>. QED
        BY <2>1, <4>1
    <3>. QED
      BY <3>1, <3>2
  <2>. HIDE DEF g
  <2>. QED
    BY <2>2, <2>4, <2>5, <2>6
<1>. HIDE DEF G
<1>3. n \in G
  BY <1>1, <1>2, Climb
<1>. QED
  BY <1>3 DEF G, Folds

-----------------------------------------------------------------------------
(* Sequences of increasing numbers, and what goes out of one.               *)

LEMMA Counted ==
  ASSUME NEW n \in Nat, NEW S, NEW f \in [1..n -> S],
         \A j, k \in 1..n : f[j] = f[k] => j = k,
         \A s \in S : \E k \in 1..n : f[k] = s
  PROVE  Cardinality(S) = n
<1>1. f \in Bijection(1..n, S)
  BY DEF Bijection, Injection, Surjection, IsInjective
<1>2. ExistsBijection(1..n, S)
  BY <1>1 DEF ExistsBijection
<1>. QED
  BY <1>2, FS_CountingElements

Rising(f, n)  == \A j, k \in 1..n : j < k => f[j] < f[k]
Onto(f, n, S) == \A s \in S : \E k \in 1..n : f[k] = s
Sorted(f, n, S) == \A k \in 1..n : Plan!Kth(S, k) = f[k]

\* The k-th of a set is the one with k - 1 of them below.
LEMMA Enumerates ==
  ASSUME NEW m \in Nat, NEW S, S \subseteq 1..m, NEW n \in Nat, NEW f \in [1..n -> S],
         Rising(f, n), Onto(f, n, S)
  PROVE  Plan!Cardinality(S) = n /\ Sorted(f, n, S)
<1>. USE DEF Rising, Onto
<1>0. (\A s \in S : s \in Nat) /\ \A k \in 1..n : f[k] \in S
  OBVIOUS
<1>1. \A j, k \in 1..n : f[j] = f[k] => j = k
  <2>. SUFFICES ASSUME NEW j \in 1..n, NEW k \in 1..n, f[j] = f[k], j # k PROVE FALSE
    OBVIOUS
  <2>1. f[j] \in Nat /\ f[k] \in Nat
    BY <1>0
  <2>2. CASE j < k
    BY <2>1, <2>2
  <2>3. CASE k < j
    BY <2>1, <2>3
  <2>. QED
    BY <2>2, <2>3
<1>2. Cardinality(S) = n
  BY <1>1, Counted
<1>3. ASSUME NEW k \in 1..n PROVE Cardinality({u \in S : u < f[k]}) = k - 1
  <2>. DEFINE B == {u \in S : u < f[k]}
              g == [j \in 1..(k - 1) |-> f[j]]
  <2>1. k - 1 \in Nat
    OBVIOUS
  <2>2. ASSUME NEW j \in 1..(k - 1) PROVE j \in 1..n /\ j < k /\ g[j] = f[j] /\ g[j] \in B
    OBVIOUS
  <2>3. g \in [1..(k - 1) -> B]
    BY <2>2
  <2>4. \A i, j \in 1..(k - 1) : g[i] = g[j] => i = j
    BY <1>1, <2>2
  <2>5. ASSUME NEW s \in B PROVE \E j \in 1..(k - 1) : g[j] = s
    <3>1. PICK j \in 1..n : f[j] = s
      OBVIOUS
    <3>2. s < f[k] /\ s \in Nat /\ f[k] \in Nat
      BY <1>0
    <3>3. j < k
      <4>1. CASE j = k
        BY <3>1, <3>2, <4>1
      <4>2. CASE k < j
        <5>1. f[k] < f[j]
          BY <4>2
        <5>. QED
          BY <3>1, <3>2, <5>1
      <4>. QED
        BY <4>1, <4>2
    <3>4. j \in 1..(k - 1)
      BY <3>3
    <3>. QED
      BY <2>2, <3>1, <3>4
  <2>. HIDE DEF B, g
  <2>6. Cardinality(B) = k - 1
    BY <2>1, <2>3, <2>4, <2>5, Counted
  <2>. QED
    BY <2>6 DEF B
<1>4. ASSUME NEW k \in 1..n, NEW t \in S, Cardinality({u \in S : u < t}) = k - 1
      PROVE  t = f[k]
  <2>1. PICK j \in 1..n : t = f[j]
    OBVIOUS
  <2>2. Cardinality({u \in S : u < t}) = j - 1
    BY <1>3, <2>1
  <2>3. j = k
    BY <1>4, <2>2
  <2>. QED
    BY <2>1, <2>3
<1>5. \A T : Plan!Cardinality(T) = Cardinality(T)
  BY DEF Cardinality, Plan!Cardinality
<1>6. ASSUME NEW k \in 1..n PROVE Plan!Kth(S, k) = f[k]
  <2>. DEFINE P(t) == Plan!Cardinality({u \in S : u < t}) = k - 1
  <2>1. f[k] \in S /\ P(f[k])
    BY <1>3, <1>5
  <2>2. \A t \in S : P(t) => t = f[k]
    BY <1>4, <1>5
  <2>. HIDE DEF P
  <2>3. (CHOOSE t \in S : P(t)) = f[k]
    BY <2>1, <2>2
  <2>. QED
    BY <2>3 DEF P, Plan!Kth
<1>. QED
  BY <1>2, <1>5, <1>6 DEF Sorted

LEMMA RemoveAtGives ==
  ASSUME NEW T, NEW s \in Seq(T), NEW j \in 1..Len(s)
  PROVE  /\ Plan!RemoveAt(s, j) \in Seq(T)
         /\ Len(Plan!RemoveAt(s, j)) = Len(s) - 1
         /\ \A k \in 1..(Len(s) - 1) :
               Plan!RemoveAt(s, j)[k] = IF k < j THEN s[k] ELSE s[k + 1]
<1>. DEFINE l == SubSeq(s, 1, j - 1)
            r == SubSeq(s, j + 1, Len(s))
<1>1. Len(s) \in Nat /\ j \in Nat /\ j <= Len(s) /\ j >= 1 /\ j - 1 \in Nat
  OBVIOUS
<1>2. l \in Seq(T) /\ Len(l) = j - 1 /\ \A k \in 1..(j - 1) : l[k] = s[k]
  BY <1>1
<1>3. r \in Seq(T) /\ Len(r) = Len(s) - j /\ \A k \in 1..(Len(s) - j) : r[k] = s[j + k]
  BY <1>1
<1>. HIDE DEF l, r
<1>4. l \o r \in Seq(T) /\ Len(l \o r) = Len(s) - 1
  <2>1. l \o r \in Seq(T) /\ Len(l \o r) = Len(l) + Len(r)
    BY <1>2, <1>3, ConcatProperties
  <2>. QED
    BY <1>1, <1>2, <1>3, <2>1
<1>5. ASSUME NEW k \in 1..(Len(s) - 1)
      PROVE  (l \o r)[k] = IF k < j THEN s[k] ELSE s[k + 1]
  <2>1. CASE k < j
    BY <1>1, <1>2, <1>3, <2>1
  <2>2. CASE ~(k < j)
    <3>1. k - Len(l) \in 1..(Len(s) - j) /\ j + (k - Len(l)) = k + 1
      BY <1>1, <1>2, <2>2
    <3>2. (l \o r)[k] = r[k - Len(l)]
      BY <1>1, <1>2, <1>3, <2>2
    <3>3. r[k - Len(l)] = s[k + 1]
      BY <1>3, <3>1
    <3>. QED
      BY <2>2, <3>2, <3>3
  <2>. QED
    BY <2>1, <2>2
<1>. QED
  BY <1>4, <1>5 DEF l, r, Plan!RemoveAt

-----------------------------------------------------------------------------
(* The list of tasks, call by call.                                         *)

PlanTask == [task : Nat, status : Plan!Status]
PlanViews == [registry : Seq(PlanTask), source : {"none", "tasks"}, shown : Seq(PlanTask)]

PlanTyped ==
    /\ planCalls \in Seq(Plan!Call)
    /\ results \in Seq({"open", "full", "bare", "failed"})
    /\ Len(results) = Len(planCalls)

(* What is told of a task after its creation, in the first n calls. *)
Ups(t, n) ==
    {i \in (t + 1)..n : Plan!Told(i) /\ planCalls[i].name = "update" /\ planCalls[i].task = t}
Ends(t, n) == {i \in Ups(t, n) : planCalls[i].to = "deleted"}

Alive(n) ==
    {t \in 1..n : /\ Plan!Told(t) /\ planCalls[t].name = "create"
                  /\ Plan!LastUpdate(t, n) # "deleted"}

(* list has the tasks that are alive after n calls, in their order. *)
Lists(list, n) ==
    /\ list \in Seq(PlanTask)
    /\ \A j, k \in DOMAIN list : j < k => list[j].task < list[k].task
    /\ \A j \in DOMAIN list : list[j].task \in Alive(n)
    /\ \A t \in Alive(n) : \E j \in DOMAIN list : list[j].task = t
    /\ \A j \in DOMAIN list : list[j].status = Plan!LastUpdate(list[j].task, n)

(* A call that says nothing new of any task. *)
Idle(list, i) ==
    \/ ~Plan!Told(i)
    \/ planCalls[i].name = "update" /\ ~Plan!Known(list, planCalls[i].task)

NextList(list, i) ==
    IF planCalls[i].name = "create" THEN Append(list, Plan!Step(i, "pending"))
                                    ELSE Plan!Updated(list, planCalls[i])

LEMMA CallIs ==
  ASSUME PlanTyped, NEW i \in DOMAIN planCalls, planCalls[i].name # "todo", MaxCalls \in Nat
  PROVE  /\ planCalls[i].name \in {"create", "update"}
         /\ planCalls[i].task \in Nat
         /\ planCalls[i].name = "update" =>
               planCalls[i].to \in {"pending", "in_progress", "completed", "deleted"}
<1>1. planCalls[i] \in Plan!Call
  BY DEF PlanTyped
<1>2. CASE planCalls[i] \in [name : {"create"}, task : {0}, to : {"pending"}]
  BY <1>2
<1>3. CASE planCalls[i] \in [name : {"update"}, task : 1..MaxCalls,
                             to : {"pending", "in_progress", "completed", "deleted"}]
  BY <1>3
<1>4. CASE planCalls[i] \in [name : {"todo"}, task : {0}, to : Plan!Status]
  BY <1>4
<1>. QED
  BY <1>1, <1>2, <1>3, <1>4 DEF Plan!Call, Plan!Status

LEMMA LastIs ==
  ASSUME NEW t, NEW n
  PROVE  Plan!LastUpdate(t, n) =
            CASE Ends(t, n) # {} -> "deleted"
              [] Ends(t, n) = {} /\ Ups(t, n) = {} -> "pending"
              [] OTHER -> planCalls[CHOOSE i \in Ups(t, n) : \A j \in Ups(t, n) : j <= i].to
BY DEF Plan!LastUpdate, Ends, Ups

\* A task is gone when one of its updates deletes it.
LEMMA LastDeletes ==
  ASSUME NEW t \in Nat, NEW n \in Nat
  PROVE  Plan!LastUpdate(t, n) = "deleted" <=> Ends(t, n) # {}
<1>1. CASE Ends(t, n) # {}
  BY <1>1, LastIs
<1>2. CASE Ends(t, n) = {} /\ Ups(t, n) = {}
  BY <1>2, LastIs
<1>3. CASE Ends(t, n) = {} /\ Ups(t, n) # {}
  <2>. DEFINE last == CHOOSE i \in Ups(t, n) : \A j \in Ups(t, n) : j <= i
  <2>1. Ups(t, n) \subseteq 1..n
    BY DEF Ups
  <2>2. last \in Ups(t, n)
    <3>1. \E i \in Ups(t, n) : \A j \in Ups(t, n) : j <= i
      BY <1>3, <2>1, Largest
    <3>. QED
      BY <3>1
  <2>3. planCalls[last].to # "deleted"
    BY <1>3, <2>2 DEF Ends
  <2>4. Plan!LastUpdate(t, n) = planCalls[last].to
    BY <1>3, LastIs
  <2>. QED
    BY <1>3, <2>3, <2>4
<1>. QED
  BY <1>1, <1>2, <1>3

\* One call more: it is one of the updates of its task, and of no other.
LEMMA UpsNext ==
  ASSUME NEW t \in Nat, NEW n \in Nat, t <= n
  PROVE  Ups(t, n + 1) =
            IF Plan!Told(n + 1) /\ planCalls[n + 1].name = "update" /\ planCalls[n + 1].task = t
            THEN Ups(t, n) \cup {n + 1} ELSE Ups(t, n)
<1>1. (t + 1)..(n + 1) = ((t + 1)..n) \cup {n + 1}
  OBVIOUS
<1>. QED
  BY <1>1 DEF Ups

LEMMA LastSame ==
  ASSUME NEW t, NEW n, NEW m, Ups(t, m) = Ups(t, n)
  PROVE  Plan!LastUpdate(t, m) = Plan!LastUpdate(t, n)
<1>1. Ends(t, m) = Ends(t, n)
  BY DEF Ends
<1>. QED
  BY <1>1, LastIs

\* The last update is the newest, unless one deletes the task.
LEMMA LastMoves ==
  ASSUME NEW t \in Nat, NEW n \in Nat, t <= n, Ends(t, n) = {},
         Plan!Told(n + 1), planCalls[n + 1].name = "update", planCalls[n + 1].task = t
  PROVE  Plan!LastUpdate(t, n + 1) = planCalls[n + 1].to
<1>1. Ups(t, n + 1) = Ups(t, n) \cup {n + 1} /\ Ups(t, n) \subseteq 1..n
  BY UpsNext DEF Ups
<1>2. CASE planCalls[n + 1].to = "deleted"
  <2>1. n + 1 \in Ends(t, n + 1)
    BY <1>1, <1>2 DEF Ends
  <2>. QED
    BY <1>2, <2>1, LastIs
<1>3. CASE planCalls[n + 1].to # "deleted"
  <2>1. Ends(t, n + 1) = {} /\ Ups(t, n + 1) # {}
    BY <1>1, <1>3 DEF Ends
  <2>2. /\ n + 1 \in Ups(t, n + 1)
        /\ \A j \in Ups(t, n + 1) : j <= n + 1
        /\ \A i \in Ups(t, n + 1) : n + 1 <= i => i = n + 1
    <3>1. \A j \in Ups(t, n) : j <= n + 1 /\ ~(n + 1 <= j)
      BY <1>1
    <3>. QED
      BY <1>1, <3>1
  <2>. DEFINE P(i) == \A j \in Ups(t, n + 1) : j <= i
  <2>3. P(n + 1) /\ \A i \in Ups(t, n + 1) : P(i) => i = n + 1
    BY <2>2
  <2>. HIDE DEF P
  <2>4. (CHOOSE i \in Ups(t, n + 1) : P(i)) = n + 1
    BY <2>2, <2>3
  <2>5. Plan!LastUpdate(t, n + 1)
          = planCalls[CHOOSE i \in Ups(t, n + 1) : \A j \in Ups(t, n + 1) : j <= i].to
    BY <2>1, LastIs
  <2>. QED
    BY <2>4, <2>5 DEF P
<1>. QED
  BY <1>2, <1>3

\* Tasks that a call is not about are alive after it as they were before.
LEMMA AliveKeeps ==
  ASSUME NEW n \in Nat, NEW t \in 1..n, ~(/\ Plan!Told(n + 1) /\ planCalls[n + 1].name = "update"
                                          /\ planCalls[n + 1].task = t)
  PROVE  /\ t \in Alive(n + 1) <=> t \in Alive(n)
         /\ Plan!LastUpdate(t, n + 1) = Plan!LastUpdate(t, n)
<1>1. t \in Nat /\ t <= n /\ t \in 1..(n + 1)
  OBVIOUS
<1>2. Ups(t, n + 1) = Ups(t, n)
  BY <1>1, UpsNext
<1>. QED
  BY <1>1, <1>2, LastSame DEF Alive

\* A call that is idle changes no task.
LEMMA IdleLists ==
  ASSUME PlanTyped, NEW n \in Nat, n + 1 \in DOMAIN planCalls, planCalls[n + 1].name # "todo",
         MaxCalls \in Nat, NEW list, Lists(list, n), Idle(list, n + 1)
  PROVE  Lists(list, n + 1)
<1>. DEFINE x == planCalls[n + 1].task
<1>1. x \in Nat
  BY CallIs
<1>2. n + 1 \notin Alive(n + 1)
  BY DEF Idle, Alive
<1>3. ASSUME NEW t \in 1..n
      PROVE  /\ t \in Alive(n + 1) <=> t \in Alive(n)
             /\ t \in Alive(n) => Plan!LastUpdate(t, n + 1) = Plan!LastUpdate(t, n)
  <2>1. CASE Plan!Told(n + 1) /\ planCalls[n + 1].name = "update" /\ x = t
    <3>1. t \notin Alive(n)
      BY <2>1 DEF Idle, Plan!Known, Lists
    <3>2. t \in Alive(n + 1) => t \in Alive(n)
      <4>1. t \in Nat /\ t <= n
        OBVIOUS
      <4>2. Ends(t, n) \subseteq Ends(t, n + 1)
        BY <4>1, UpsNext DEF Ends
      <4>. QED
        BY <4>1, <4>2, LastDeletes DEF Alive
    <3>. QED
      BY <3>1, <3>2
  <2>2. CASE ~(Plan!Told(n + 1) /\ planCalls[n + 1].name = "update" /\ x = t)
    BY <2>2, AliveKeeps
  <2>. QED
    BY <2>1, <2>2
<1>4. Alive(n + 1) = Alive(n)
  <2>1. Alive(n) \subseteq 1..n /\ Alive(n + 1) \subseteq 1..(n + 1)
    BY DEF Alive
  <2>2. 1..(n + 1) = (1..n) \cup {n + 1} /\ n + 1 \notin 1..n
    OBVIOUS
  <2>. QED
    BY <1>2, <1>3, <2>1, <2>2
<1>5. Alive(n) \subseteq 1..n
  BY DEF Alive
<1>. QED
  BY <1>3, <1>4, <1>5 DEF Lists

\* A task that is created comes last.
LEMMA CreateLists ==
  ASSUME NEW n \in Nat, Plan!Told(n + 1), planCalls[n + 1].name = "create",
         NEW list, Lists(list, n)
  PROVE  Lists(Append(list, Plan!Step(n + 1, "pending")), n + 1)
<1>. DEFINE new == Append(list, Plan!Step(n + 1, "pending"))
<1>1. /\ list \in Seq(PlanTask) /\ Plan!Step(n + 1, "pending") \in PlanTask
      /\ Len(list) \in Nat /\ DOMAIN list = 1..Len(list)
  BY DEF Lists, PlanTask, Plan!Step, Plan!Status
<1>2. /\ new \in Seq(PlanTask) /\ DOMAIN new = 1..(Len(list) + 1)
      /\ \A j \in 1..Len(list) : new[j] = list[j]
      /\ new[Len(list) + 1] = Plan!Step(n + 1, "pending")
  BY <1>1
<1>. HIDE DEF new
<1>3. Alive(n) \subseteq 1..n
  BY DEF Alive
<1>4. Plan!LastUpdate(n + 1, n + 1) = "pending"
  <2>1. Ups(n + 1, n + 1) = {} /\ Ends(n + 1, n + 1) = {}
    BY DEF Ups, Ends
  <2>. QED
    BY <2>1, LastIs
<1>5. n + 1 \in Alive(n + 1)
  BY <1>4 DEF Alive
<1>6. \A t \in 1..n : /\ t \in Alive(n + 1) <=> t \in Alive(n)
                      /\ Plan!LastUpdate(t, n + 1) = Plan!LastUpdate(t, n)
  BY AliveKeeps
<1>7. Alive(n + 1) = Alive(n) \cup {n + 1}
  <2>1. Alive(n + 1) \subseteq (1..n) \cup {n + 1}
    BY DEF Alive
  <2>. QED
    BY <1>3, <1>5, <1>6, <2>1
<1>8. /\ new[Len(list) + 1].task = n + 1
      /\ new[Len(list) + 1].status = "pending"
  BY <1>2 DEF Plan!Step
<1>9. ASSUME NEW j \in DOMAIN new, NEW k \in DOMAIN new, j < k
      PROVE  new[j].task < new[k].task
  <2>1. j \in 1..Len(list)
    BY <1>1, <1>2, <1>9
  <2>2. list[j].task \in 1..n /\ new[j] = list[j]
    BY <1>1, <1>2, <1>3, <2>1 DEF Lists
  <2>3. CASE k = Len(list) + 1
    BY <1>8, <2>2, <2>3
  <2>4. CASE k # Len(list) + 1
    <3>1. k \in 1..Len(list)
      BY <1>1, <1>2, <2>4
    <3>2. new[k] = list[k]
      BY <1>2, <3>1
    <3>. QED
      BY <1>1, <1>9, <2>1, <2>2, <3>1, <3>2 DEF Lists
  <2>. QED
    BY <2>3, <2>4
<1>10. ASSUME NEW j \in DOMAIN new
       PROVE  new[j].task \in Alive(n + 1) /\ new[j].status = Plan!LastUpdate(new[j].task, n + 1)
  <2>1. CASE j = Len(list) + 1
    BY <1>4, <1>5, <1>8, <2>1
  <2>2. CASE j # Len(list) + 1
    <3>1. j \in 1..Len(list)
      BY <1>1, <1>2, <2>2
    <3>2. new[j] = list[j]
      BY <1>2, <3>1
    <3>. QED
      BY <1>1, <1>3, <1>6, <1>7, <3>1, <3>2 DEF Lists
  <2>. QED
    BY <2>1, <2>2
<1>11. ASSUME NEW t \in Alive(n + 1) PROVE \E j \in DOMAIN new : new[j].task = t
  <2>1. CASE t = n + 1
    <3>1. Len(list) + 1 \in DOMAIN new
      BY <1>1, <1>2
    <3>. QED
      BY <1>8, <2>1, <3>1
  <2>2. CASE t \in Alive(n)
    <3>1. PICK j \in DOMAIN list : list[j].task = t
      BY <2>2 DEF Lists
    <3>2. j \in DOMAIN new /\ new[j] = list[j]
      BY <1>1, <1>2
    <3>. QED
      BY <3>1, <3>2
  <2>. QED
    BY <1>7, <2>1, <2>2
<1>12. Lists(new, n + 1)
  BY <1>2, <1>9, <1>10, <1>11 DEF Lists
<1>. QED
  BY <1>12 DEF new

\* A task that is deleted goes, and the others close up.
LEMMA DeleteLists ==
  ASSUME NEW n \in Nat, Plan!Told(n + 1), planCalls[n + 1].name = "update",
         planCalls[n + 1].to = "deleted",
         NEW list, Lists(list, n), NEW i \in DOMAIN list, list[i].task = planCalls[n + 1].task
  PROVE  Lists(Plan!RemoveAt(list, i), n + 1)
<1>. DEFINE x == planCalls[n + 1].task
            new == Plan!RemoveAt(list, i)
            old(k) == IF k < i THEN k ELSE k + 1
<1>1. /\ list \in Seq(PlanTask) /\ Len(list) \in Nat /\ DOMAIN list = 1..Len(list)
      /\ i \in 1..Len(list) /\ Alive(n) \subseteq 1..n
  BY DEF Lists, Alive
<1>2. /\ new \in Seq(PlanTask) /\ Len(new) = Len(list) - 1
      /\ \A k \in 1..(Len(list) - 1) : new[k] = IF k < i THEN list[k] ELSE list[k + 1]
  BY <1>1, RemoveAtGives
<1>. HIDE DEF new
<1>3. DOMAIN new = 1..(Len(list) - 1)
  BY <1>2
<1>4. ASSUME NEW k \in DOMAIN new
      PROVE  old(k) \in DOMAIN list /\ new[k] = list[old(k)] /\ old(k) # i
  BY <1>1, <1>2, <1>3
<1>5. \A j, k \in DOMAIN new : j < k => old(j) < old(k)
  BY <1>1, <1>3
<1>6. \A j \in DOMAIN list : j # i => \E k \in DOMAIN new : old(k) = j
  <2>. SUFFICES ASSUME NEW j \in DOMAIN list, j # i PROVE \E k \in DOMAIN new : old(k) = j
    OBVIOUS
  <2>1. CASE j < i
    <3>1. j \in DOMAIN new /\ old(j) = j
      BY <1>1, <1>3, <2>1
    <3>. QED
      BY <3>1
  <2>2. CASE i < j
    <3>1. j - 1 \in DOMAIN new /\ old(j - 1) = j
      BY <1>1, <1>3, <2>2
    <3>. QED
      BY <3>1
  <2>. QED
    BY <1>1, <2>1, <2>2
<1>. HIDE DEF old
<1>7. \A j \in DOMAIN list : j # i => list[j].task # x
  <2>. SUFFICES ASSUME NEW j \in DOMAIN list, j # i PROVE list[j].task # x
    OBVIOUS
  <2>1. list[j].task \in Nat /\ x \in Nat /\ list[i].task = x
    BY <1>1 DEF Lists
  <2>2. CASE j < i
    <3>1. list[j].task < list[i].task
      BY <2>2 DEF Lists
    <3>. QED
      BY <2>1, <3>1
  <2>3. CASE i < j
    <3>1. list[i].task < list[j].task
      BY <2>3 DEF Lists
    <3>. QED
      BY <2>1, <3>1
  <2>. QED
    BY <1>1, <2>2, <2>3
<1>8. x \in 1..n /\ x \in Nat /\ x <= n /\ x \in Alive(n)
  BY <1>1 DEF Lists
<1>9. Ends(x, n) = {}
  BY <1>8, LastDeletes DEF Alive
<1>10. Plan!LastUpdate(x, n + 1) = "deleted"
  BY <1>8, <1>9, LastMoves
<1>11. \A t \in 1..n : t # x => /\ t \in Alive(n + 1) <=> t \in Alive(n)
                                /\ Plan!LastUpdate(t, n + 1) = Plan!LastUpdate(t, n)
  BY AliveKeeps
<1>12. Alive(n + 1) = Alive(n) \ {x}
  <2>1. Alive(n + 1) \subseteq 1..(n + 1) /\ n + 1 \notin Alive(n + 1) /\ x \notin Alive(n + 1)
    BY <1>10 DEF Alive
  <2>2. 1..(n + 1) = (1..n) \cup {n + 1} /\ n + 1 \notin 1..n
    OBVIOUS
  <2>. QED
    BY <1>1, <1>11, <2>1, <2>2
<1>13. \A j, k \in DOMAIN new : j < k => new[j].task < new[k].task
  BY <1>4, <1>5 DEF Lists
<1>14. \A k \in DOMAIN new : new[k].task \in Alive(n + 1)
  BY <1>4, <1>7, <1>12 DEF Lists
<1>15. ASSUME NEW t \in Alive(n + 1) PROVE \E k \in DOMAIN new : new[k].task = t
  <2>1. PICK j \in DOMAIN list : list[j].task = t
    BY <1>12 DEF Lists
  <2>2. j # i
    BY <1>12, <2>1
  <2>3. PICK k \in DOMAIN new : old(k) = j
    BY <1>6, <2>2
  <2>. QED
    BY <1>4, <2>1, <2>3
<1>16. \A k \in DOMAIN new : new[k].status = Plan!LastUpdate(new[k].task, n + 1)
  <2>. SUFFICES ASSUME NEW k \in DOMAIN new
                PROVE  new[k].status = Plan!LastUpdate(new[k].task, n + 1)
    OBVIOUS
  <2>1. /\ old(k) \in DOMAIN list /\ new[k] = list[old(k)]
        /\ new[k].status = Plan!LastUpdate(new[k].task, n)
    BY <1>4 DEF Lists
  <2>2. new[k].task \in 1..n /\ new[k].task # x
    BY <1>1, <1>12, <1>14
  <2>. QED
    BY <1>11, <2>1, <2>2
<1>17. Lists(new, n + 1)
  BY <1>2, <1>13, <1>14, <1>15, <1>16 DEF Lists
<1>. QED
  BY <1>17 DEF new

\* A task that is updated stays where it is.
LEMMA ChangeLists ==
  ASSUME NEW n \in Nat, Plan!Told(n + 1), planCalls[n + 1].name = "update",
         planCalls[n + 1].to \in {"pending", "in_progress", "completed"},
         NEW list, Lists(list, n), NEW i \in DOMAIN list, list[i].task = planCalls[n + 1].task
  PROVE  Lists([list EXCEPT ![i] = Plan!Step(planCalls[n + 1].task, planCalls[n + 1].to)], n + 1)
<1>. DEFINE x == planCalls[n + 1].task
            new == [list EXCEPT ![i] = Plan!Step(x, planCalls[n + 1].to)]
<1>1. /\ list \in Seq(PlanTask) /\ DOMAIN list = 1..Len(list) /\ Alive(n) \subseteq 1..n
      /\ x \in Alive(n)
  BY DEF Lists, Alive
<1>2. x \in 1..n /\ x \in Nat /\ x <= n
  BY <1>1
<1>3. Plan!Step(x, planCalls[n + 1].to) \in PlanTask
  BY <1>2 DEF PlanTask, Plan!Step, Plan!Status
<1>4. new \in Seq(PlanTask) /\ DOMAIN new = DOMAIN list
  BY <1>1, <1>3
<1>5. /\ new[i].task = x /\ new[i].status = planCalls[n + 1].to
      /\ \A j \in DOMAIN list : j # i => new[j] = list[j]
  BY <1>1 DEF Plan!Step
<1>. HIDE DEF new
<1>6. \A j \in DOMAIN list : new[j].task = list[j].task
  BY <1>5
<1>7. Ends(x, n) = {}
  BY <1>1, <1>2, LastDeletes DEF Alive
<1>8. Plan!LastUpdate(x, n + 1) = planCalls[n + 1].to
  BY <1>2, <1>7, LastMoves
<1>9. x \in Alive(n + 1)
  BY <1>1, <1>8 DEF Alive
<1>10. \A t \in 1..n : t # x => /\ t \in Alive(n + 1) <=> t \in Alive(n)
                                /\ Plan!LastUpdate(t, n + 1) = Plan!LastUpdate(t, n)
  BY AliveKeeps
<1>11. Alive(n + 1) = Alive(n)
  <2>1. Alive(n + 1) \subseteq 1..(n + 1) /\ n + 1 \notin Alive(n + 1)
    BY DEF Alive
  <2>3. \A t \in 1..n : t \in Alive(n + 1) <=> t \in Alive(n)
    BY <1>1, <1>9, <1>10
  <2>2. 1..(n + 1) = (1..n) \cup {n + 1} /\ n + 1 \notin 1..n
    OBVIOUS
  <2>. QED
    BY <1>1, <2>1, <2>2, <2>3
<1>12. ASSUME NEW j \in DOMAIN new
       PROVE  new[j].status = Plan!LastUpdate(new[j].task, n + 1)
  <2>1. CASE j = i
    BY <1>5, <1>8, <2>1
  <2>2. CASE j # i
    <3>1. /\ list[j].task \in Alive(n)
          /\ list[j].status = Plan!LastUpdate(list[j].task, n)
      BY <1>4 DEF Lists
    <3>2. list[j].task # x
      <4>1. list[j].task \in Nat /\ list[i].task \in Nat
        BY <1>1, <3>1
      <4>2. CASE j < i
        <5>1. list[j].task < list[i].task
          BY <1>4, <4>2 DEF Lists
        <5>. QED
          BY <4>1, <5>1
      <4>3. CASE i < j
        <5>1. list[i].task < list[j].task
          BY <1>4, <4>3 DEF Lists
        <5>. QED
          BY <4>1, <5>1
      <4>. QED
        BY <1>1, <1>4, <2>2, <4>2, <4>3
    <3>. QED
      BY <1>1, <1>4, <1>5, <1>10, <2>2, <3>1, <3>2
  <2>. QED
    BY <2>1, <2>2
<1>13. Lists(new, n + 1)
  BY <1>4, <1>6, <1>11, <1>12 DEF Lists
<1>. QED
  BY <1>13 DEF new

\* The list after one call more.
LEMMA ListGoesOn ==
  ASSUME PlanTyped, NEW n \in Nat, n + 1 \in DOMAIN planCalls, planCalls[n + 1].name # "todo",
         MaxCalls \in Nat, NEW list, Lists(list, n), ~Idle(list, n + 1)
  PROVE  Lists(NextList(list, n + 1), n + 1)
<1>1. /\ planCalls[n + 1].name \in {"create", "update"} /\ Plan!Told(n + 1)
      /\ planCalls[n + 1].name = "update" =>
            planCalls[n + 1].to \in {"pending", "in_progress", "completed", "deleted"}
  BY CallIs DEF Idle
<1>2. CASE planCalls[n + 1].name = "create"
  BY <1>1, <1>2, CreateLists DEF NextList
<1>3. CASE planCalls[n + 1].name = "update"
  <2>. DEFINE i == CHOOSE i \in DOMAIN list : list[i].task = planCalls[n + 1].task
  <2>1. i \in DOMAIN list /\ list[i].task = planCalls[n + 1].task
    BY <1>3 DEF Idle, Plan!Known
  <2>2. NextList(list, n + 1) =
          IF planCalls[n + 1].to = "deleted" THEN Plan!RemoveAt(list, i)
          ELSE [list EXCEPT ![i] = Plan!Step(planCalls[n + 1].task, planCalls[n + 1].to)]
    BY <1>3 DEF NextList, Plan!Updated
  <2>. HIDE DEF i
  <2>. QED
    BY <1>1, <1>3, <2>1, <2>2, DeleteLists, ChangeLists
<1>. QED
  BY <1>1, <1>2, <1>3

\* There is one list of the tasks that are alive: After.
LEMMA ListIsAfter ==
  ASSUME NEW n \in Nat, NEW list, Lists(list, n)
  PROVE  list = Plan!After(n)
<1>. DEFINE f == [k \in 1..Len(list) |-> list[k].task]
            pick(k) == Plan!Kth(Alive(n), k)
<1>1. /\ list \in Seq(PlanTask) /\ Len(list) \in Nat /\ DOMAIN list = 1..Len(list)
      /\ Alive(n) \subseteq 1..n
  BY DEF Lists, Alive
<1>2. f \in [1..Len(list) -> Alive(n)]
  BY <1>1 DEF Lists
<1>3. /\ \A j, k \in 1..Len(list) : j < k => f[j] < f[k]
      /\ \A t \in Alive(n) : \E k \in 1..Len(list) : f[k] = t
  BY <1>1 DEF Lists
<1>4. Plan!Cardinality(Alive(n)) = Len(list) /\ \A k \in 1..Len(list) : pick(k) = list[k].task
  <2>1. \A k \in 1..Len(list) : f[k] = list[k].task
    OBVIOUS
  <2>. HIDE DEF f
  <2>2. ASSUME NEW S, S = Alive(n), NEW len \in Nat, len = Len(list)
        PROVE  Plan!Cardinality(S) = len /\ \A k \in 1..len : Plan!Kth(S, k) = f[k]
    <3>1. /\ S \subseteq 1..n /\ f \in [1..len -> S]
          /\ Rising(f, len) /\ Onto(f, len, S)
      BY <1>1, <1>2, <1>3, <2>2 DEF Rising, Onto
    <3>. QED
      BY <3>1, Enumerates DEF Sorted
  <2>3. /\ Plan!Cardinality(Alive(n)) = Len(list)
        /\ \A k \in 1..Len(list) : Plan!Kth(Alive(n), k) = f[k]
    BY <1>1, <2>2
  <2>. QED
    BY <2>1, <2>3
<1>5. Plan!After(n) =
        [k \in 1..Plan!Cardinality(Alive(n)) |-> Plan!Step(pick(k), Plan!LastUpdate(pick(k), n))]
  BY DEF Plan!After, Alive
<1>. HIDE DEF pick
<1>6. ASSUME NEW k \in 1..Len(list)
      PROVE  list[k] = Plan!Step(pick(k), Plan!LastUpdate(pick(k), n))
  <2>1. list[k] \in PlanTask /\ list[k].status = Plan!LastUpdate(list[k].task, n)
    BY <1>1 DEF Lists
  <2>2. pick(k) = list[k].task
    BY <1>4
  <2>. QED
    BY <2>1, <2>2 DEF PlanTask, Plan!Step
<1>7. list = [k \in 1..Len(list) |-> list[k]]
  BY <1>1
<1>. QED
  BY <1>4, <1>5, <1>6, <1>7

-----------------------------------------------------------------------------
(* The view: the list, and the plan that is shown.                          *)

(* After n calls: the list is the CLI's, and the plan shown is the newest   *)
(* one that could be shown.                                                 *)
PlanRun(v, n) ==
    /\ v \in PlanViews
    /\ Lists(v.registry, n)
    /\ \A p \in 0..n : Lists(Plan!After(p), p)
    /\ \E m \in 0..n :
          /\ Plan!Valid(v.shown) /\ v.shown = Plan!After(m)
          /\ \A p \in (m + 1)..n : Plan!Valid(Plan!After(p)) => Plan!After(p) = v.shown

(* What a call that is answered does to the view. *)
NextView(v, i) ==
    IF Idle(v.registry, i) THEN v
    ELSE Plan!Shows([v EXCEPT !.registry = NextList(v.registry, i)], "tasks",
                    NextList(v.registry, i))

PlanNumbers == MaxShown \in Nat /\ Remembered \in Nat /\ MaxCalls \in Nat

\* The list a call leaves is a list of tasks.
LEMMA NextListTyped ==
  ASSUME PlanTyped, PlanNumbers, NEW list \in Seq(PlanTask), NEW i \in DOMAIN planCalls,
         planCalls[i].name # "todo", ~Idle(list, i)
  PROVE  NextList(list, i) \in Seq(PlanTask)
<1>1. /\ planCalls[i].name \in {"create", "update"} /\ planCalls[i].task \in Nat
      /\ planCalls[i].name = "update" =>
            planCalls[i].to \in {"pending", "in_progress", "completed", "deleted"}
  BY CallIs DEF PlanNumbers
<1>2. i \in Nat
  BY DEF PlanTyped
<1>3. CASE planCalls[i].name = "create"
  <2>1. Plan!Step(i, "pending") \in PlanTask
    BY <1>2 DEF PlanTask, Plan!Step, Plan!Status
  <2>. QED
    BY <1>3, <2>1 DEF NextList
<1>4. CASE planCalls[i].name = "update"
  <2>. DEFINE j == CHOOSE j \in DOMAIN list : list[j].task = planCalls[i].task
  <2>1. j \in DOMAIN list
    BY <1>4 DEF Idle, Plan!Known
  <2>2. NextList(list, i) =
          IF planCalls[i].to = "deleted" THEN Plan!RemoveAt(list, j)
          ELSE [list EXCEPT ![j] = Plan!Step(planCalls[i].task, planCalls[i].to)]
    BY <1>4 DEF NextList, Plan!Updated
  <2>. HIDE DEF j
  <2>3. CASE planCalls[i].to = "deleted"
    BY <2>1, <2>2, <2>3, RemoveAtGives
  <2>4. CASE planCalls[i].to # "deleted"
    <3>1. Plan!Step(planCalls[i].task, planCalls[i].to) \in PlanTask
      BY <1>1, <1>4, <2>4 DEF PlanTask, Plan!Step, Plan!Status
    <3>. QED
      BY <2>1, <2>2, <2>4, <3>1
  <2>. QED
    BY <2>3, <2>4
<1>. QED
  BY <1>1, <1>3, <1>4

\* What is shown with a new list.
LEMMA ShowsIs ==
  ASSUME NEW v \in PlanViews, NEW list \in Seq(PlanTask), NEW w,
         w = Plan!Shows([v EXCEPT !.registry = list], "tasks", list)
  PROVE  /\ w \in PlanViews /\ w.registry = list
         /\ w.shown = IF Plan!Valid(list) THEN list ELSE v.shown
<1>. DEFINE u == [v EXCEPT !.registry = list]
<1>1. u \in PlanViews /\ u.registry = list /\ u.shown = v.shown
  BY DEF PlanViews
<1>. HIDE DEF u
<1>2. CASE Plan!Valid(list)
  <2>1. w = [u EXCEPT !.source = "tasks", !.shown = list]
    BY <1>2 DEF Plan!Shows, u
  <2>. QED
    BY <1>1, <1>2, <2>1 DEF PlanViews
<1>3. CASE ~Plan!Valid(list)
  <2>1. w = u
    BY <1>3 DEF Plan!Shows, u
  <2>. QED
    BY <1>1, <1>3, <2>1
<1>. QED
  BY <1>2, <1>3

LEMMA NextTyped ==
  \A v \in PlanViews : \A i \in DOMAIN planCalls :
      PlanTyped /\ PlanNumbers /\ planCalls[i].name # "todo" => NextView(v, i) \in PlanViews
<1>. SUFFICES ASSUME NEW v \in PlanViews, NEW i \in DOMAIN planCalls, PlanTyped, PlanNumbers,
                     planCalls[i].name # "todo"
              PROVE  NextView(v, i) \in PlanViews
  OBVIOUS
<1>1. CASE Idle(v.registry, i)
  BY <1>1 DEF NextView
<1>2. CASE ~Idle(v.registry, i)
  <2>1. v.registry \in Seq(PlanTask)
    BY DEF PlanViews
  <2>2. NextList(v.registry, i) \in Seq(PlanTask)
    BY <1>2, <2>1, NextListTyped
  <2>. QED
    BY <1>2, <2>2, ShowsIs DEF NextView
<1>. QED
  BY <1>1, <1>2

\* A call that is answered takes the view to the next number of calls.
LEMMA ViewGoesOn ==
  \A n \in Nat : \A v \in PlanViews :
      /\ PlanTyped /\ PlanNumbers
      /\ n + 1 \in DOMAIN planCalls /\ planCalls[n + 1].name # "todo"
      /\ PlanRun(v, n)
      => PlanRun(NextView(v, n + 1), n + 1)
<1>. SUFFICES ASSUME NEW n \in Nat, NEW v \in PlanViews, PlanTyped, PlanNumbers,
                     n + 1 \in DOMAIN planCalls, planCalls[n + 1].name # "todo", PlanRun(v, n)
              PROVE  PlanRun(NextView(v, n + 1), n + 1)
  OBVIOUS
<1>0. PICK w : w = NextView(v, n + 1)
  OBVIOUS
<1>1. PICK m \in 0..n :
         /\ Plan!Valid(v.shown) /\ v.shown = Plan!After(m)
         /\ \A p \in (m + 1)..n : Plan!Valid(Plan!After(p)) => Plan!After(p) = v.shown
  BY DEF PlanRun
<1>2. Lists(v.registry, n) /\ v.registry \in Seq(PlanTask) /\ MaxCalls \in Nat
  BY DEF PlanRun, PlanViews, PlanNumbers
<1>3. v.registry = Plan!After(n)
  BY <1>2, ListIsAfter
<1>4. m \in 0..(n + 1) /\ n + 1 \in 0..(n + 1)
  OBVIOUS
<1>5. ASSUME NEW list, Lists(list, n + 1), NEW p \in 0..(n + 1) PROVE Lists(Plan!After(p), p)
  <2>1. CASE p = n + 1
    BY <1>5, <2>1, ListIsAfter
  <2>2. CASE p # n + 1
    <3>1. p \in 0..n
      BY <2>2
    <3>. QED
      BY <3>1 DEF PlanRun
  <2>. QED
    BY <2>1, <2>2
<1>6. CASE Idle(v.registry, n + 1)
  <2>1. w = v /\ Lists(v.registry, n + 1)
    BY <1>0, <1>2, <1>6, IdleLists DEF NextView
  <2>2. Plan!After(n + 1) = Plan!After(n)
    BY <1>3, <2>1, ListIsAfter
  <2>3. ASSUME NEW p \in (m + 1)..(n + 1), Plan!Valid(Plan!After(p))
        PROVE  Plan!After(p) = v.shown
    <3>1. CASE p \in (m + 1)..n
      BY <1>1, <2>3, <3>1
    <3>2. CASE p = n + 1 /\ m < n
      <4>1. n \in (m + 1)..n
        BY <3>2
      <4>. QED
        BY <1>1, <2>2, <2>3, <3>2, <4>1
    <3>3. CASE p = n + 1 /\ m = n
      BY <1>1, <2>2, <3>3
    <3>. QED
      BY <3>1, <3>2, <3>3
  <2>4. PlanRun(v, n + 1)
    BY <1>1, <1>4, <1>5, <2>1, <2>3 DEF PlanRun
  <2>. QED
    BY <1>0, <2>1, <2>4
<1>7. CASE ~Idle(v.registry, n + 1)
  <2>. DEFINE list == NextList(v.registry, n + 1)
  <2>1. list \in Seq(PlanTask) /\ Lists(list, n + 1)
    BY <1>2, <1>7, NextListTyped, ListGoesOn
  <2>2. w = Plan!Shows([v EXCEPT !.registry = list], "tasks", list)
    BY <1>0, <1>7 DEF NextView
  <2>. HIDE DEF list
  <2>3. list = Plan!After(n + 1)
    BY <2>1, ListIsAfter
  <2>4. /\ w \in PlanViews /\ w.registry = list
        /\ w.shown = IF Plan!Valid(list) THEN list ELSE v.shown
    BY <2>1, <2>2, ShowsIs
  <2>5. CASE Plan!Valid(list)
    <3>1. (n + 1 + 1)..(n + 1) = {}
      OBVIOUS
    <3>2. PlanRun(w, n + 1)
      BY <1>4, <1>5, <2>1, <2>3, <2>4, <2>5, <3>1 DEF PlanRun
    <3>. QED
      BY <1>0, <3>2
  <2>6. CASE ~Plan!Valid(list)
    <3>1. ASSUME NEW p \in (m + 1)..(n + 1), Plan!Valid(Plan!After(p))
          PROVE  Plan!After(p) = v.shown
      <4>1. p # n + 1
        BY <2>3, <2>6, <3>1
      <4>2. p \in (m + 1)..n
        BY <4>1
      <4>. QED
        BY <1>1, <3>1, <4>2
    <3>2. PlanRun(w, n + 1)
      BY <1>1, <1>4, <1>5, <2>1, <2>4, <2>6, <3>1 DEF PlanRun
    <3>. QED
      BY <1>0, <3>2
  <2>. QED
    BY <2>5, <2>6
<1>. QED
  BY <1>6, <1>7

LEMMA NextTypedThen ==
  (\A v \in PlanViews : \A i \in DOMAIN planCalls :
      PlanTyped /\ PlanNumbers /\ planCalls[i].name # "todo" => NextView(v, i) \in PlanViews)'
BY NextTyped, PTL

LEMMA ListIsAfterThen ==
  (\A n \in Nat : \A list \in Seq(PlanTask) : Lists(list, n) => list = Plan!After(n))'
<1>1. \A n \in Nat : \A list \in Seq(PlanTask) : Lists(list, n) => list = Plan!After(n)
  BY ListIsAfter
<1>. QED
  BY <1>1, PTL

LEMMA ViewGoesOnThen ==
  (\A n \in Nat : \A v \in PlanViews :
      /\ PlanTyped /\ PlanNumbers
      /\ n + 1 \in DOMAIN planCalls /\ planCalls[n + 1].name # "todo"
      /\ PlanRun(v, n)
      => PlanRun(NextView(v, n + 1), n + 1))'
BY ViewGoesOn, PTL

\* What the code does with a result is what NextView says.
LEMMA ApplyIs ==
  ASSUME UNCHANGED planCalls, NEW v \in PlanViews, NEW i,
         planCalls[i].name \in {"create", "update"}, results'[i] \in {"full", "bare", "failed"}
  PROVE  Plan!Apply(v, i) = NextView(v, i)'
<1>1. v.source \in {"none", Plan!Source(planCalls[i])} /\ planCalls[i].name # "todo"
  BY DEF PlanViews, Plan!Source
<1>2. CASE results'[i] # "full"
  BY <1>1, <1>2 DEF Plan!Apply, NextView, Idle, Plan!Told
<1>3. CASE results'[i] = "full" /\ planCalls[i].name = "update"
           /\ ~Plan!Known(v.registry, planCalls[i].task)
  BY <1>1, <1>3 DEF Plan!Apply, NextView, Idle, Plan!Told
<1>4. CASE results'[i] = "full" /\ ~(planCalls[i].name = "update"
           /\ ~Plan!Known(v.registry, planCalls[i].task))
  <2>1. ~Idle(v.registry, i)'
    BY <1>4 DEF Idle, Plan!Told
  <2>2. NextView(v, i)' = Plan!Shows([v EXCEPT !.registry = NextList(v.registry, i)], "tasks",
                                     NextList(v.registry, i))
    BY <2>1 DEF NextView, NextList
  <2>. QED
    BY <1>1, <1>4, <2>2 DEF Plan!Apply, NextList
<1>. QED
  BY <1>2, <1>3, <1>4

-----------------------------------------------------------------------------
(* A result: everything that is due is projected.                           *)

\* The calls at the front that are answered.
LEMMA DueIs ==
  ASSUME Len(order) \in Nat
  PROVE  /\ Plan!Due \in 0..Len(order)
         /\ \A k \in 1..Plan!Due : results'[order[k]] # "open"
         /\ Plan!Due < Len(order) => results'[order[Plan!Due + 1]] = "open"
<1>0. PICK L \in Nat : L = Len(order)
  OBVIOUS
<1>. DEFINE Q(n) == /\ \A k \in 1..n : results'[order[k]] # "open"
                    /\ n < L => results'[order[n + 1]] = "open"
<1>1. \E n \in 0..L : Q(n)
  <2>. SUFFICES ASSUME \A n \in 0..L : ~Q(n) PROVE FALSE
    OBVIOUS
  <2>0. PICK G : G = {n \in 0..L : \A k \in 1..n : results'[order[k]] # "open"}
    OBVIOUS
  <2>1. 0 \in G
    BY <2>0
  <2>2. ASSUME NEW n \in 0..L, n < L, n \in G PROVE n + 1 \in G
    <3>1. results'[order[n + 1]] # "open"
      BY <2>0, <2>2
    <3>2. \A k \in 1..(n + 1) : k \in 1..n \/ k = n + 1
      OBVIOUS
    <3>3. n + 1 \in 0..L
      BY <2>2
    <3>. QED
      BY <2>0, <2>2, <3>1, <3>2, <3>3
  <2>3. L \in G
    BY ONLY L \in Nat, <2>1, <2>2, Climb
  <2>4. Q(L) /\ L \in 0..L
    BY <2>0, <2>3
  <2>. QED
    BY <2>4
<1>2. Plan!Due = CHOOSE n \in 0..L : Q(n)
  BY <1>0 DEF Plan!Due
<1>. HIDE DEF Q
<1>3. Plan!Due \in 0..L /\ Q(Plan!Due)
  BY <1>1, <1>2
<1>. QED
  BY <1>0, <1>3 DEF Q

\* The views of the calls that are projected, one after the other.
LEMMA ViewsExist ==
  ASSUME PlanTyped', PlanNumbers, UNCHANGED planCalls,
         NEW n \in Nat, NEW d \in Nat, n + d <= Len(planCalls),
         \A i \in DOMAIN planCalls : planCalls[i].name \in {"create", "update"},
         \A k \in 1..d : results'[n + k] \in {"full", "bare", "failed"},
         NEW v \in PlanViews
  PROVE  \E f \in [0..d -> PlanViews] :
            f[0] = v /\ \A k \in 1..d : f[k] = Plan!Apply(f[k - 1], n + k)
<1>0. PICK A : A = [x \in PlanViews \X (1..d) |-> Plan!Apply(x[1], n + x[2])]
  OBVIOUS
<1>1. Len(planCalls) \in Nat /\ DOMAIN planCalls = 1..Len(planCalls)
  BY DEF PlanTyped
<1>2. ASSUME NEW u \in PlanViews, NEW k \in 1..d
      PROVE  Plan!Apply(u, n + k) \in PlanViews
  <2>1. n + k \in DOMAIN planCalls
    BY <1>1
  <2>2. NextView(u, n + k)' \in PlanViews
    <3>1. planCalls'[n + k].name # "todo" /\ n + k \in DOMAIN planCalls'
      BY <2>1
    <3>. QED
      BY <3>1, NextTypedThen DEF PlanNumbers
  <2>3. planCalls[n + k].name \in {"create", "update"}
    BY <2>1
  <2>4. results'[n + k] \in {"full", "bare", "failed"}
    OBVIOUS
  <2>. QED
    BY <2>2, <2>3, <2>4, ApplyIs
<1>3. A \in [PlanViews \X (1..d) -> PlanViews]
  BY <1>0, <1>2
<1>4. \A u \in PlanViews : \A k \in 1..d : A[<<u, k>>] = Plan!Apply(u, n + k)
  BY <1>0
<1>5. PICK f \in [0..d -> PlanViews] : f[0] = v /\ \A k \in 1..d : f[k] = A[<<f[k - 1], k>>]
  <2>1. \E f \in [0..d -> PlanViews] : Folds(f, d, v, A)
    BY <1>3, FoldRuns
  <2>. QED
    BY <2>1 DEF Folds
<1>6. \A k \in 1..d : f[k] = Plan!Apply(f[k - 1], n + k)
  <2>. TAKE k \in 1..d
  <2>1. k - 1 \in 0..d
    OBVIOUS
  <2>2. f[k - 1] \in PlanViews
    BY <2>1
  <2>. QED
    BY <1>4, <1>5, <2>2
<1>. QED
  BY <1>5, <1>6

\* The projection of the calls n + 1 to n + d.
LEMMA Projects ==
  ASSUME PlanTyped', PlanNumbers, UNCHANGED planCalls,
         NEW n \in Nat, NEW d \in Nat, n + d <= Len(planCalls),
         \A i \in DOMAIN planCalls : planCalls[i].name \in {"create", "update"},
         \A k \in 1..d : results'[n + k] \in {"full", "bare", "failed"},
         NEW v \in PlanViews, v = Plan!View, PlanRun(v, n)',
         NEW front, Len(front) = d, \A k \in 1..d : front[k] = n + k,
         Plan!Projected(front)
  PROVE  \E w \in PlanViews : /\ PlanRun(w, n + d)'
                              /\ registry' = w.registry /\ source' = w.source
                              /\ planShown' = w.shown
<1>. DEFINE Steps(g) == [k \in 0..d |-> IF k = 0 THEN v ELSE Plan!Apply(g[k - 1], front[k])]
<1>1. \E g : g = Steps(g)
  <2>1. PICK f \in [0..d -> PlanViews] :
           f[0] = v /\ \A k \in 1..d : f[k] = Plan!Apply(f[k - 1], n + k)
    BY ViewsExist
  <2>2. \A k \in 0..d : f[k] = IF k = 0 THEN v ELSE Plan!Apply(f[k - 1], front[k])
    <3>. TAKE k \in 0..d
    <3>1. CASE k = 0
      BY <2>1, <3>1
    <3>2. CASE k # 0
      <4>1. k \in 1..d
        BY <3>2
      <4>2. f[k] = Plan!Apply(f[k - 1], n + k) /\ front[k] = n + k
        BY <2>1, <4>1
      <4>. QED
        BY <3>2, <4>2
    <3>. QED
      BY <3>1, <3>2
  <2>3. f = [k \in 0..d |-> f[k]]
    OBVIOUS
  <2>4. f = Steps(f)
    BY <2>2, <2>3
  <2>. QED
    BY <2>4
<1>2. \E g : /\ g = Steps(g)
             /\ registry' = g[d].registry /\ source' = g[d].source /\ planShown' = g[d].shown
  <2>. DEFINE c == CHOOSE g : g = Steps(g)
  <2>1. c = Steps(c)
    BY <1>1
  <2>2. registry' = c[d].registry /\ source' = c[d].source /\ planShown' = c[d].shown
    BY DEF Plan!Projected
  <2>. HIDE DEF c, Steps
  <2>. QED
    BY <2>1, <2>2
<1>3. PICK g : /\ g = Steps(g)
               /\ registry' = g[d].registry /\ source' = g[d].source /\ planShown' = g[d].shown
  BY <1>2
<1>4. g[0] = v /\ \A k \in 1..d : g[k] = Plan!Apply(g[k - 1], n + k)
  <2>1. \A k \in 0..d : g[k] = IF k = 0 THEN v ELSE Plan!Apply(g[k - 1], front[k])
    BY <1>3
  <2>2. g[0] = v
    BY <2>1
  <2>3. ASSUME NEW k \in 1..d PROVE g[k] = Plan!Apply(g[k - 1], n + k)
    <3>1. k \in 0..d /\ k # 0 /\ front[k] = n + k
      OBVIOUS
    <3>. QED
      BY <2>1, <3>1
  <2>. QED
    BY <2>2, <2>3
<1>0. PICK G : G = {k \in 0..d : PlanRun(g[k], n + k)'}
  OBVIOUS
<1>5. 0 \in G
  BY <1>0, <1>4
<1>6. ASSUME NEW k \in 0..d, k < d, k \in G PROVE k + 1 \in G
  <2>1. PlanRun(g[k], n + k)' /\ n + k \in Nat /\ (n + k) + 1 = n + (k + 1)
    BY <1>0, <1>6
  <2>2. g[k] \in PlanViews
    BY <2>1 DEF PlanRun, PlanViews, PlanTask, Plan!Status
  <2>3. k + 1 \in 1..d /\ (k + 1) - 1 = k /\ k + 1 \in 0..d
    BY <1>6
  <2>4. g[k + 1] = Plan!Apply(g[k], n + (k + 1))
    BY <1>4, <2>3
  <2>5. n + (k + 1) \in DOMAIN planCalls
    BY <2>3 DEF PlanTyped
  <2>6. g[k + 1] = NextView(g[k], n + (k + 1))'
    <3>1. PICK u \in PlanViews : u = g[k]
      BY <2>2
    <3>2. PICK i : i = n + (k + 1)
      OBVIOUS
    <3>3. planCalls[i].name \in {"create", "update"} /\ results'[i] \in {"full", "bare", "failed"}
      BY <2>3, <2>5, <3>2
    <3>4. Plan!Apply(u, i) = NextView(u, i)'
      BY <3>3, ApplyIs
    <3>. QED
      BY <2>4, <3>1, <3>2, <3>4
  <2>7. PlanRun(NextView(g[k], (n + k) + 1), (n + k) + 1)'
    <3>1. planCalls'[(n + k) + 1].name # "todo" /\ (n + k) + 1 \in DOMAIN planCalls'
      BY <2>1, <2>5
    <3>2. PlanNumbers'
      BY DEF PlanNumbers
    <3>. QED
      BY <2>1, <2>2, <3>1, <3>2, ViewGoesOnThen
  <2>8. PlanRun(g[k + 1], n + (k + 1))'
    BY <2>1, <2>6, <2>7
  <2>. QED
    BY <1>0, <2>3, <2>8
<1>7. d \in G
  BY ONLY d \in Nat, <1>5, <1>6, Climb
<1>8. PlanRun(g[d], n + d)'
  BY <1>0, <1>7
<1>9. g[d] \in PlanViews
  BY <1>8 DEF PlanRun, PlanViews, PlanTask, Plan!Status
<1>. QED
  BY <1>3, <1>8, <1>9

-----------------------------------------------------------------------------
(* The projection of a run whose calls are of one kind: those up to the     *)
(* limit, the others never enter the order.                                 *)

PlanFollows ==
    /\ ~closed
    /\ \A i \in DOMAIN planCalls : planCalls[i].name # "todo"

(* The first n calls are projected, the others that are kept wait for the   *)
(* result of the next.                                                      *)
Projection(n) ==
    /\ n <= Plan!Kept
    /\ order \in Seq(Nat) /\ Len(order) = Plan!Kept - n
    /\ \A k \in 1..Len(order) : order[k] = n + k
    /\ \A i \in 1..n : results[i] # "open"
    /\ n < Plan!Kept => results[n + 1] = "open"
    /\ PlanRun(Plan!View, n)

PlanInv == PlanTyped /\ (PlanFollows => \E n \in Nat : Projection(n))

LEMMA PlanBegins == PlanNumbers /\ Plan!Init => PlanInv
<1>. SUFFICES ASSUME PlanNumbers, Plan!Init PROVE PlanInv
  OBVIOUS
<1>1. /\ planCalls = <<>> /\ results = <<>> /\ order = <<>>
      /\ registry = <<>> /\ source = "none" /\ planShown = <<>>
  BY DEF Plan!Init
<1>2. PlanTyped
  BY <1>1 DEF PlanTyped
<1>3. PICK v : v = Plan!View
  OBVIOUS
<1>4. v \in PlanViews /\ v.registry = <<>> /\ v.shown = <<>>
  BY <1>1, <1>3 DEF PlanViews, Plan!View
<1>5. Lists(<<>>, 0)
  BY DEF Lists, Alive
<1>6. Plan!After(0) = <<>>
  BY <1>5, ListIsAfter
<1>7. Plan!Valid(<<>>)
  <2>1. {i \in DOMAIN <<>> : <<>>[i].status = "in_progress"} = {}
    OBVIOUS
  <2>2. Plan!Cardinality({}) = 0
    <3>1. Plan!Cardinality({}) = Cardinality({})
      BY DEF Cardinality, Plan!Cardinality
    <3>. QED
      BY <3>1, FS_EmptySet
  <2>. QED
    BY <2>1, <2>2 DEF PlanNumbers, Plan!Valid
<1>8. PlanRun(v, 0)
  <2>1. \A p \in 0..0 : p = 0
    OBVIOUS
  <2>. QED
    BY <1>4, <1>5, <1>6, <1>7, <2>1 DEF PlanRun
<1>9. Projection(0)
  <2>1. Plan!Kept = 0
    BY <1>1 DEF Plan!Kept, PlanNumbers
  <2>. QED
    BY <1>1, <1>3, <1>8, <2>1 DEF Projection
<1>. QED
  BY <1>2, <1>9 DEF PlanInv

\* What the CLI had after n calls stays, when those calls do.
LEMMA RunStays ==
  ASSUME NEW n \in Nat, NEW v, PlanRun(v, n),
         \A i \in 1..n : planCalls'[i] = planCalls[i] /\ results'[i] = results[i]
  PROVE  PlanRun(v, n)'
<1>1. ASSUME NEW t \in Nat, NEW p \in 0..n PROVE Plan!LastUpdate(t, p)' = Plan!LastUpdate(t, p)
  <2>. DEFINE U == {i \in (t + 1)..p : /\ Plan!Told(i) /\ planCalls[i].name = "update"
                                       /\ planCalls[i].task = t}
  <2>1. \A i \in (t + 1)..p : i \in 1..n
    OBVIOUS
  <2>2. U' = U /\ U \subseteq 1..n
    BY <2>1 DEF Plan!Told
  <2>3. \A i \in U : planCalls'[i].to = planCalls[i].to
    BY <2>2
  <2>4. Plan!LastUpdate(t, p) =
           LET ends == {i \in U : planCalls[i].to = "deleted"}
           IN  CASE ends # {} -> "deleted"
                 [] ends = {} /\ U = {} -> "pending"
                 [] OTHER -> planCalls[CHOOSE i \in U : \A j \in U : j <= i].to
    BY DEF Plan!LastUpdate
  <2>5. Plan!LastUpdate(t, p)' =
           LET ends == {i \in U' : planCalls'[i].to = "deleted"}
           IN  CASE ends # {} -> "deleted"
                 [] ends = {} /\ U' = {} -> "pending"
                 [] OTHER -> planCalls'[CHOOSE i \in U' : \A j \in U' : j <= i].to
    BY DEF Plan!LastUpdate
  <2>. DEFINE last == CHOOSE i \in U : \A j \in U : j <= i
  <2>6. U # {} => last \in U
    BY <2>2, Largest
  <2>. HIDE DEF U
  <2>7. {i \in U' : planCalls'[i].to = "deleted"} = {i \in U : planCalls[i].to = "deleted"}
    BY <2>2, <2>3
  <2>. QED
    BY <2>2, <2>3, <2>4, <2>5, <2>6, <2>7
<1>2. ASSUME NEW p \in 0..n PROVE Alive(p)' = Alive(p)
  <2>1. \A t \in 1..p : t \in 1..n /\ t \in Nat
    OBVIOUS
  <2>2. \A t \in 1..p : t \in Alive(p)' <=> t \in Alive(p)
    BY <1>1, <2>1 DEF Alive, Plan!Told
  <2>. QED
    BY <2>2 DEF Alive
<1>3. ASSUME NEW p \in 0..n, NEW list, Lists(list, p) PROVE Lists(list, p)'
  <2>1. \A j \in DOMAIN list : list[j].task \in Nat
    BY <1>3 DEF Lists, Alive
  <2>2. Alive(p)' = Alive(p)
    BY <1>2
  <2>3. \A j \in DOMAIN list :
           Plan!LastUpdate(list[j].task, p)' = Plan!LastUpdate(list[j].task, p)
    BY <1>1, <2>1
  <2>4. list \in Seq(PlanTask)
    BY <1>3 DEF Lists
  <2>. QED
    BY <1>3, <2>2, <2>3, <2>4 DEF Lists, PlanTask, Plan!Status
<1>4. ASSUME NEW p \in 0..n
      PROVE  Plan!After(p)' = Plan!After(p) /\ Lists(Plan!After(p), p)'
  <2>1. PICK list : list = Plan!After(p)
    OBVIOUS
  <2>2. Lists(list, p)' /\ list \in Seq(PlanTask)
    <3>1. Lists(list, p)
      BY <2>1 DEF PlanRun
    <3>2. Lists(list, p)'
      BY <1>3, <3>1
    <3>. QED
      BY <3>1, <3>2 DEF Lists
  <2>3. list = Plan!After(p)'
    BY <2>2, ListIsAfterThen
  <2>. QED
    BY <2>1, <2>2, <2>3
<1>5. PICK m \in 0..n :
         /\ Plan!Valid(v.shown) /\ v.shown = Plan!After(m)
         /\ \A p \in (m + 1)..n : Plan!Valid(Plan!After(p)) => Plan!After(p) = v.shown
  BY DEF PlanRun
<1>6. \A p \in (m + 1)..n : p \in 0..n
  OBVIOUS
<1>7. /\ v.shown = Plan!After(m)'
      /\ \A p \in (m + 1)..n : Plan!Valid(Plan!After(p)') => Plan!After(p)' = v.shown
  BY <1>4, <1>5, <1>6
<1>8. v \in PlanViews /\ Lists(v.registry, n)'
  BY <1>3 DEF PlanRun
<1>. QED
  BY <1>4, <1>5, <1>7, <1>8 DEF PlanRun, PlanViews, PlanTask, Plan!Status, Plan!Valid

LEMMA IssueKeeps == ASSUME PlanNumbers, PlanInv, NEW call \in Plan!Call, Plan!Issue(call) PROVE PlanInv'
<1>1. /\ planCalls' = Append(planCalls, call) /\ results' = Append(results, "open")
      /\ UNCHANGED <<registry, source, planShown, closed>>
  BY DEF Plan!Issue
<1>2. /\ planCalls \in Seq(Plan!Call) /\ results \in Seq({"open", "full", "bare", "failed"})
      /\ Len(results) = Len(planCalls) /\ Len(planCalls) \in Nat
  BY DEF PlanInv, PlanTyped
<1>3. PlanTyped'
  BY <1>1, <1>2 DEF PlanTyped
<1>4. /\ Len(planCalls') = Len(planCalls) + 1
      /\ \A i \in 1..Len(planCalls) : planCalls'[i] = planCalls[i] /\ results'[i] = results[i]
      /\ planCalls'[Len(planCalls) + 1] = call /\ results'[Len(planCalls) + 1] = "open"
  BY <1>1, <1>2
<1>5. ASSUME PlanFollows' PROVE \E n \in Nat : Projection(n)'
  <2>1. PlanFollows /\ call.name # "todo"
    <3>1. /\ ~closed'
          /\ \A i \in 1..(Len(planCalls) + 1) : planCalls'[i].name # "todo"
      BY <1>1, <1>2, <1>5 DEF PlanFollows
    <3>2. \A i \in 1..Len(planCalls) : planCalls[i].name # "todo"
      BY <1>2, <1>4, <3>1
    <3>3. call.name # "todo"
      BY <1>2, <1>4, <3>1
    <3>. QED
      BY <1>1, <1>2, <1>4, <3>1, <3>2, <3>3 DEF PlanFollows
  <2>2. PICK n \in Nat : Projection(n)
    BY <2>1 DEF PlanInv
  <2>3. PICK v : v = Plan!View
    OBVIOUS
  <2>4. PlanRun(v, n)
    BY <2>2, <2>3 DEF Projection
  <2>20. /\ Plan!Kept \in Nat /\ Plan!Kept <= Len(planCalls)
         /\ Len(planCalls) < Remembered => Plan!Kept = Len(planCalls) /\ Plan!Kept' = Len(planCalls) + 1
         /\ ~(Len(planCalls) < Remembered) => Plan!Kept' = Plan!Kept
    BY <1>2, <1>4 DEF PlanNumbers, Plan!Kept
  <2>5. n <= Len(planCalls) /\ \A i \in 1..n : i \in 1..Len(planCalls)
    BY <1>2, <2>2, <2>20 DEF Projection
  <2>6. PlanRun(v, n)'
    BY <1>4, <2>4, <2>5, RunStays
  <2>7. source \in {"none", "tasks"}
    BY <2>3, <2>4 DEF PlanRun, PlanViews, Plan!View
  <2>9. /\ order \in Seq(Nat) /\ Len(order) = Plan!Kept - n /\ n <= Plan!Kept
        /\ \A k \in 1..Len(order) : order[k] = n + k
        /\ \A i \in 1..n : results[i] # "open"
        /\ n < Plan!Kept => results[n + 1] = "open"
    BY <2>2 DEF Projection
  <2>16. \A i \in 1..n : results'[i] # "open"
    BY <1>4, <2>5, <2>9
  <2>18. v = Plan!View'
    BY <1>1, <2>3 DEF Plan!View
\* A call beyond the limit.
  <2>21. CASE ~(Len(planCalls) < Remembered)
    <3>1. order' = order
      BY <2>21 DEF Plan!Issue
    <3>2. n < Plan!Kept' => results'[n + 1] = "open"
      <4>. HAVE n < Plan!Kept'
      <4>1. n < Plan!Kept /\ n + 1 \in 1..Len(planCalls)
        BY <1>2, <2>20, <2>21
      <4>. QED
        BY <1>4, <2>9, <4>1
    <3>3. n <= Plan!Kept' /\ order' \in Seq(Nat) /\ Len(order') = Plan!Kept' - n
      BY <2>9, <2>20, <2>21, <3>1
    <3>4. \A k \in 1..Len(order') : order'[k] = n + k
      BY <2>9, <3>1
    <3>. QED
      BY <2>6, <2>16, <2>18, <3>2, <3>3, <3>4 DEF Projection
\* A call that is remembered.
  <2>22. CASE Len(planCalls) < Remembered
    <3>1. order' = Append(order, Len(planCalls) + 1)
      BY <2>1, <2>7, <2>22 DEF Plan!Issue, Plan!Source, PlanFollows
    <3>2. PICK L \in Nat, O \in Seq(Nat), C \in Nat : L = Len(order) /\ O = order /\ C = Len(planCalls)
      <4>1. order \in Seq(Nat)
        BY <2>9
      <4>2. Len(order) \in Nat
        BY <4>1, LenProperties
      <4>. QED
        BY <1>2, <4>1, <4>2
    <3>. DEFINE P == Append(O, C + 1)
    <3>3. /\ P \in Seq(Nat) /\ Len(P) = L + 1 /\ P[L + 1] = C + 1
          /\ \A k \in 1..L : P[k] = O[k]
      <4>1. C + 1 \in Nat
        OBVIOUS
      <4>. QED
        BY <3>2, <4>1, AppendProperties
    <3>. HIDE DEF P
    <3>4. order' = P /\ Plan!Kept' = C + 1 /\ L = C - n /\ n <= C
      BY <2>9, <2>20, <2>22, <3>1, <3>2 DEF P
    <3>5. \A k \in 1..L : O[k] = n + k
      BY <2>9, <3>2
    <3>6. order' \in Seq(Nat) /\ Len(order') = Plan!Kept' - n
      BY <3>3, <3>4
    <3>7. \A k \in 1..Len(order') : order'[k] = n + k
      <4>. SUFFICES ASSUME NEW k \in 1..(L + 1) PROVE P[k] = n + k
        BY <3>3, <3>4
      <4>1. CASE k \in 1..L
        BY <3>3, <3>5, <4>1
      <4>2. CASE k = L + 1
        <5>1. n + (L + 1) = C + 1
          BY <3>4
        <5>. QED
          BY <3>3, <4>2, <5>1
      <4>. QED
        BY <4>1, <4>2
    <3>8. results'[n + 1] = "open"
      <4>1. CASE n < Len(planCalls)
        <5>1. n + 1 \in 1..Len(planCalls) /\ n < Plan!Kept
          BY <1>2, <2>20, <2>22, <4>1
        <5>. QED
          BY <1>4, <2>9, <5>1
      <4>2. CASE n = Len(planCalls)
        BY <1>4, <4>2
      <4>. QED
        BY <1>2, <2>5, <4>1, <4>2
    <3>9. n <= Plan!Kept'
      BY <3>4
    <3>. QED
      BY <2>6, <2>16, <2>18, <3>6, <3>7, <3>8, <3>9 DEF Projection
  <2>. QED
    BY <2>21, <2>22
<1>. QED
  BY <1>3, <1>5 DEF PlanInv

LEMMA ReceiveKeeps ==
  ASSUME PlanNumbers, PlanInv, NEW i \in DOMAIN planCalls, NEW came \in {"full", "bare", "failed"},
         Plan!Receive(i, came)
  PROVE  PlanInv'
<1>1. /\ results[i] = "open" /\ results' = [results EXCEPT ![i] = came]
      /\ UNCHANGED <<planCalls, closed>>
      /\ Plan!Projected(SubSeq(order, 1, Plan!Due))
      /\ order' = SubSeq(order, Plan!Due + 1, Len(order))
  BY DEF Plan!Receive, Plan!Answer
<1>2. /\ planCalls \in Seq(Plan!Call) /\ results \in Seq({"open", "full", "bare", "failed"})
      /\ Len(results) = Len(planCalls) /\ Len(planCalls) \in Nat
      /\ DOMAIN planCalls = 1..Len(planCalls)
  BY DEF PlanInv, PlanTyped
<1>3. PlanTyped'
  BY <1>1, <1>2 DEF PlanTyped
<1>6. PICK K \in Nat : K = Plan!Kept
  BY <1>2 DEF PlanNumbers, Plan!Kept
<1>7. K <= Len(planCalls) /\ K = Plan!Kept'
  BY <1>1, <1>2, <1>6 DEF PlanNumbers, Plan!Kept
<1>4. ASSUME PlanFollows PROVE \E n \in Nat : Projection(n)'
  <2>1. PICK n \in Nat : Projection(n)
    BY <1>4 DEF PlanInv
  <2>30. /\ order \in Seq(Nat) /\ Len(order) = K - n /\ n <= K
         /\ \A k \in 1..Len(order) : order[k] = n + k
         /\ \A k \in 1..n : results[k] # "open"
         /\ PlanRun(Plan!View, n)
    BY <1>6, <2>1 DEF Projection
  <2>31. K \in Nat /\ n \in Nat
    OBVIOUS
  <2>32. n <= Len(planCalls)
    BY ONLY <1>2, <1>7, <2>30, <2>31
  <2>2. /\ order \in Seq(Nat) /\ Len(order) = K - n /\ n <= K /\ n <= Len(planCalls)
        /\ \A k \in 1..Len(order) : order[k] = n + k
        /\ \A k \in 1..n : results[k] # "open"
        /\ PlanRun(Plan!View, n)
    BY <2>30, <2>32
  <2>3. PICK v : v = Plan!View
    OBVIOUS
  <2>4. PlanRun(v, n) /\ v \in PlanViews
    BY <2>2, <2>3 DEF PlanRun
  <2>5. \A k \in 1..n : planCalls'[k] = planCalls[k] /\ results'[k] = results[k]
    BY <1>1, <1>2, <2>2
  <2>6. PlanRun(v, n)'
    BY <2>4, <2>5, RunStays
  <2>7. PICK d \in 0..Len(order) : d = Plan!Due
    BY <2>2, DueIs
  <2>8. /\ \A k \in 1..d : results'[order[k]] # "open"
        /\ d < Len(order) => results'[order[d + 1]] = "open"
    BY <2>2, <2>7, DueIs
  <2>9. d \in Nat /\ n + d <= K /\ n + d <= Len(planCalls) /\ Len(order) \in Nat
    <3>1. d \in Nat /\ d <= Len(order) /\ Len(order) \in Nat /\ Len(planCalls) \in Nat
      BY <1>2, <2>2
    <3>2. d <= K - n /\ K <= Len(planCalls)
      BY <1>7, <2>2, <3>1
    <3>. QED
      BY ONLY <2>31, <3>1, <3>2
  <2>10. \A k \in DOMAIN planCalls : planCalls[k].name \in {"create", "update"}
    BY <1>4, CallIs DEF PlanFollows, PlanInv, PlanNumbers
  <2>11. \A k \in 1..d : results'[n + k] \in {"full", "bare", "failed"} /\ order[k] = n + k
    <3>. TAKE k \in 1..d
    <3>0. Len(planCalls) \in Nat
      BY <1>2
    <3>1. k \in 1..Len(order) /\ n + k \in 1..Len(planCalls)
      BY <2>9, <2>31, <3>0
    <3>2. order[k] = n + k /\ results'[n + k] # "open"
      BY <2>2, <2>8, <3>1
    <3>3. results'[n + k] \in {"open", "full", "bare", "failed"}
      BY <1>1, <1>2, <3>1
    <3>. QED
      BY <3>2, <3>3
  <2>12. PICK front : front = SubSeq(order, 1, d)
    OBVIOUS
  <2>13. Len(front) = d /\ \A k \in 1..d : front[k] = n + k
    <3>1. Len(front) = d /\ \A k \in 1..d : front[k] = order[k]
      BY <2>2, <2>9, <2>12
    <3>. QED
      BY <2>11, <3>1
  <2>14. Plan!Projected(front)
    BY <1>1, <2>7, <2>12
  <2>15. PICK w \in PlanViews : /\ PlanRun(w, n + d)'
                                /\ registry' = w.registry /\ source' = w.source
                                /\ planShown' = w.shown
    BY <1>1, <1>3, <2>3, <2>4, <2>6, <2>9, <2>10, <2>11, <2>13, <2>14, Projects
  <2>16. w = Plan!View'
    BY <2>15 DEF Plan!View, PlanViews
  <2>17. order' = SubSeq(order, d + 1, Len(order))
    BY <1>1, <2>7
  <2>18. order' \in Seq(Nat) /\ Len(order') = K - (n + d)
    <3>1. Len(order) = K - n /\ d \in 0..Len(order) /\ Len(order) \in Nat
      BY <2>2, <2>9
    <3>2. order' \in Seq(Nat) /\ Len(order') = Len(order) - d
      <4>1. order \in Seq(Nat)
        BY <2>2
      <4>2. \A s \in Seq(Nat) : \A k \in 0..Len(s) :
              /\ SubSeq(s, k + 1, Len(s)) \in Seq(Nat)
              /\ Len(SubSeq(s, k + 1, Len(s))) = Len(s) - k
        OBVIOUS
      <4>. QED
        BY ONLY <2>17, <3>1, <4>1, <4>2
    <3>. QED
      BY <2>31, <3>1, <3>2
  <2>19. \A k \in 1..Len(order') : order'[k] = (n + d) + k
    <3>. TAKE k \in 1..Len(order')
    <3>1. d + k \in 1..Len(order) /\ k \in 1..(Len(order) - d)
      BY <1>2, <2>2, <2>9, <2>18
    <3>2. order'[k] = order[d + k]
      BY <2>2, <2>9, <2>17, <3>1
    <3>3. order[d + k] = n + (d + k)
      BY <2>2, <3>1
    <3>. QED
      BY <2>9, <3>1, <3>2, <3>3
  <2>20. \A k \in 1..(n + d) : results'[k] # "open"
    <3>. TAKE k \in 1..(n + d)
    <3>1. CASE k <= n
      BY <2>2, <2>5, <3>1
    <3>2. CASE k > n
      <4>1. k - n \in 1..d /\ n + (k - n) = k
        BY <2>9, <3>2
      <4>. QED
        BY <2>11, <4>1
    <3>. QED
      BY <2>9, <3>1, <3>2
  <2>21. n + d < K => results'[(n + d) + 1] = "open"
    <3>. HAVE n + d < K
    <3>1. d < Len(order) /\ d + 1 \in 1..Len(order) /\ n + (d + 1) = (n + d) + 1
      BY <1>2, <2>2, <2>9
    <3>2. order[d + 1] = n + (d + 1)
      BY <2>2, <3>1
    <3>. QED
      BY <2>8, <3>1, <3>2
  <2>22. Projection(n + d)'
    BY <1>1, <1>7, <2>9, <2>15, <2>16, <2>18, <2>19, <2>20, <2>21 DEF Projection
  <2>. QED
    BY <2>9, <2>22
<1>5. PlanFollows' => PlanFollows
  BY <1>1 DEF PlanFollows
<1>. QED
  BY <1>3, <1>4, <1>5 DEF PlanInv

LEMMA PlanGoesOn == ASSUME PlanNumbers, PlanInv, [Plan!Next]_planVars PROVE PlanInv'
<1>1. CASE UNCHANGED planVars
  <2>1. UNCHANGED <<planCalls, results, order, registry, source, planShown, closed>>
    BY <1>1 DEF planVars
  <2>2. PlanTyped' /\ (PlanFollows' => PlanFollows)
    BY <2>1 DEF PlanInv, PlanTyped, PlanFollows
  <2>3. ASSUME NEW n \in Nat, Projection(n) PROVE Projection(n)'
    <3>1. PICK v : v = Plan!View
      OBVIOUS
    <3>2. PlanRun(v, n)
      BY <2>3, <3>1 DEF Projection
    <3>3. PlanRun(v, n)'
      BY <2>1, <3>2, RunStays
    <3>4. v = Plan!View'
      BY <2>1, <3>1 DEF Plan!View
    <3>. QED
      BY <2>1, <2>3, <3>3, <3>4 DEF Projection, Plan!Kept
  <2>. QED
    BY <2>2, <2>3 DEF PlanInv
<1>2. CASE Plan!Close
  <2>1. UNCHANGED <<planCalls, results>> /\ closed' = TRUE
    BY <1>2 DEF Plan!Close
  <2>. QED
    BY <2>1 DEF PlanInv, PlanTyped, PlanFollows
<1>3. CASE Plan!Next
  <2>1. CASE \E call \in Plan!Call : Plan!Issue(call)
    BY <2>1, IssueKeeps
  <2>2. CASE \E i \in DOMAIN planCalls, came \in {"full", "bare", "failed"} :
                Plan!Receive(i, came)
    BY <2>2, ReceiveKeeps
  <2>. QED
    BY <1>2, <1>3, <2>1, <2>2 DEF Plan!Next
<1>. QED
  BY <1>1, <1>3

\* The newest plan that could be shown is the one that is shown.
LEMMA PlanMeans == PlanNumbers /\ PlanInv => Plan!ShownIsReplayed
<1>. SUFFICES ASSUME PlanNumbers, PlanInv, ~closed,
                     \A i \in DOMAIN planCalls : planCalls[i].name # "todo"
              PROVE  \E n \in 0..Plan!Answered :
                        /\ Plan!Valid(Plan!After(n)) /\ planShown = Plan!After(n)
                        /\ \A m \in (n + 1)..Plan!Answered :
                              Plan!Valid(Plan!After(m)) => Plan!After(m) = Plan!After(n)
  BY DEF Plan!ShownIsReplayed
<1>1. PICK n \in Nat : Projection(n)
  BY DEF PlanInv, PlanFollows
<1>2. PICK K \in Nat : K = Plan!Kept
  <2>1. Len(planCalls) \in Nat
    BY DEF PlanInv, PlanTyped
  <2>. QED
    BY <2>1 DEF PlanNumbers, Plan!Kept
<1>3. Plan!Answered = n
  <2>. DEFINE P(k) == /\ \A i \in 1..k : results[i] # "open"
                      /\ k < K => results[k + 1] = "open"
  <2>1. n \in 0..K /\ P(n)
    BY <1>1, <1>2 DEF Projection
  <2>2. ASSUME NEW k \in 0..K, P(k) PROVE k = n
    <3>1. ~(k < n)
      <4>. SUFFICES ASSUME k < n PROVE FALSE
        OBVIOUS
      <4>1. k < K /\ k + 1 \in 1..n
        BY <1>2, <2>1
      <4>. QED
        BY <2>1, <2>2, <4>1
    <3>2. ~(n < k)
      <4>. SUFFICES ASSUME n < k PROVE FALSE
        OBVIOUS
      <4>1. n < K /\ n + 1 \in 1..k
        BY <1>2, <2>1
      <4>. QED
        BY <2>1, <2>2, <4>1
    <3>. QED
      BY <1>2, <3>1, <3>2
  <2>3. Plan!Answered = CHOOSE k \in 0..K : P(k)
    BY <1>2 DEF Plan!Answered
  <2>. HIDE DEF P
  <2>. QED
    BY <2>1, <2>2, <2>3
<1>4. PICK v : v = Plan!View
  OBVIOUS
<1>5. PlanRun(v, n) /\ v.shown = planShown
  BY <1>1, <1>4 DEF Projection, Plan!View
<1>. QED
  BY <1>3, <1>5 DEF PlanRun

\* The plan that is shown is the newest one that can be shown among those the
\* coding agent had: results that come in any order are applied in the order of
\* their calls, each once, and a list that cannot be shown leaves the plan as it
\* was (ClaudeCodeRunner._receive_plan_result and _apply_plan_result).
THEOREM PlanIsShown == SpecAll => []PlanShown
<1>. DEFINE Inv == part = "plan" => PlanInv
<1>1. PlanNumbers
  BY PlanAssumption DEF PlanNumbers
<1>2. InitAll => Inv
  BY <1>1, PlanBegins DEF InitAll
<1>3. Inv /\ [NextAll]_allVars => Inv'
  BY <1>1, OneAtWork, PlanGoesOn
<1>4. Inv => PlanShown
  BY <1>1, PlanMeans DEF PlanShown
<1>. HIDE DEF Inv
<1>. QED
  BY <1>2, <1>3, <1>4, PTL DEF SpecAll
=============================================================================
