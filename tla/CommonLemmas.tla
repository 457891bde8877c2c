---------------------------- MODULE CommonLemmas ----------------------------
(***************************************************************************)
(* What several modules of proofs rest on: induction for a set of numbers; *)
(* what the operations on the timer's state return, for every Timeout and  *)
(* every number of source ids; and what is read from an answer of CUPS,    *)
(* for every answer.                                                       *)
(***************************************************************************)
EXTENDS KillTimerOps, IPPAnswers, NaturalsInduction, WellFoundedInduction, TLAPS

-----------------------------------------------------------------------------
(* Induction. *)

\* The least of some numbers, and induction for a set of numbers.
LEMMA Least ==
    ASSUME NEW I \in SUBSET Nat, I # {}
    PROVE  Min(I) \in I /\ \A y \in I : Min(I) <= y
<1> DEFINE R == OpToRel(<, Nat)
<1>1. \E x \in I : \A y \in I : ~(<<y, x>> \in R)
  BY NatLessThanWellFounded, WFMin
<1>2. \A x, y \in Nat : <<y, x>> \in R <=> y < x
  BY DEF OpToRel
<1> HIDE DEF R
<1>3. PICK x \in I : \A y \in I : ~(<<y, x>> \in R)
  BY Zenon, <1>1
<1>4. \A y \in I : ~(y < x)
  BY Zenon, <1>2, <1>3
<1>5. \E z \in I : \A y \in I : z =< y
  BY <1>4
<1> QED
  BY <1>5 DEF Min

\* The greatest of some numbers up to n, and the least of some integers from b on.
LEMMA Greatest ==
    ASSUME NEW n \in Nat, NEW I \in SUBSET (0 .. n), I # {}
    PROVE  Max(I) \in I /\ \A y \in I : y <= Max(I)
<1> DEFINE J == {n - i : i \in I}
<1>1. J \in SUBSET Nat /\ J # {}
  <2>1. \A i \in I : n - i \in Nat
    OBVIOUS
  <2> QED
    BY Zenon, <2>1
<1>2. Min(J) \in J /\ \A y \in J : Min(J) <= y
  <2> HIDE DEF J
  <2> QED
    BY <1>1, Least
<1>3. PICK m \in I : Min(J) = n - m
  BY <1>2
<1>4. ASSUME NEW i \in I PROVE m >= i
  <2>1. n - i \in J
    OBVIOUS
  <2>2. n - m <= n - i
    BY <1>2, <1>3, <2>1
  <2> QED
    BY <2>2
<1>5. \E x \in I : \A y \in I : x >= y
  BY <1>4
<1> QED
  BY <1>5 DEF Max

LEMMA LeastFrom ==
    ASSUME NEW b \in Int, NEW I \in SUBSET Int, I # {}, \A i \in I : i >= b
    PROVE  Min(I) \in I /\ \A y \in I : Min(I) <= y
<1> DEFINE J == {i - b : i \in I}
<1>1. J \in SUBSET Nat /\ J # {}
  <2>1. \A i \in I : i - b \in Nat
    OBVIOUS
  <2> QED
    BY Zenon, <2>1
<1>2. Min(J) \in J /\ \A y \in J : Min(J) <= y
  <2> HIDE DEF J
  <2> QED
    BY <1>1, Least
<1>3. PICK m \in I : Min(J) = m - b
  BY <1>2
<1>4. ASSUME NEW i \in I PROVE m <= i
  <2>1. i - b \in J
    OBVIOUS
  <2>2. m - b <= i - b
    BY <1>2, <1>3, <2>1
  <2> QED
    BY <2>2
<1>5. \E x \in I : \A y \in I : x =< y
  BY <1>4
<1> QED
  BY <1>5 DEF Min

LEMMA Induction ==
    ASSUME NEW T, 0 \in T, \A n \in Nat : n \in T => n + 1 \in T
    PROVE  \A n \in Nat : n \in T
<1> DEFINE I == {n \in Nat : n \notin T}
<1> SUFFICES ASSUME I # {} PROVE FALSE
  OBVIOUS
<1>1. I \in SUBSET Nat
  OBVIOUS
<1>2. PICK m \in I : \A y \in I : m <= y
  <2> HIDE DEF I
  <2> QED
    BY <1>1, Least
<1>3. m # 0 /\ m \in Nat /\ m \notin T
  OBVIOUS
<1>4. m - 1 \in Nat /\ m - 1 \notin I /\ (m - 1) + 1 = m
  BY <1>2, <1>3
<1> QED
  BY <1>3, <1>4

-----------------------------------------------------------------------------
(* The idle timer. *)

USE TimeoutAssumption, MaxIdAssumption

\* OnlyTimer(k): the state every operation but a hold leaves behind.
OnlyTimer(k) == \A id \in Ids : k.due[id] # Dead <=> id = k.timer
NoSource(k) == \A id \in Ids : k.due[id] = Dead

LEMMA NextIdFresh ==
    ASSUME NEW k \in TimerState
    PROVE  NextId(k) \in Ids /\ NextId(k) # k.timer
BY DEF TimerState, NextId, Ids

\* g_timeout_add_seconds attaches exactly one source when none is attached.
LEMMA AddTimeout ==
    ASSUME NEW k \in TimerState, NoSource(k)
    PROVE  /\ add_timeout(k) \in TimerState
           /\ add_timeout(k).holds = k.holds
           /\ OnlyTimer(add_timeout(k))
           /\ add_timeout(k).due[add_timeout(k).timer] = Timeout
<1> DEFINE id == NextId(k)
           z == add_timeout(k)
<1>1. id \in Ids
  BY NextIdFresh
<1>2. Timeout \in Dead .. Timeout /\ Timeout # Dead
  BY DEF Dead
<1>3. k.holds \in Nat /\ k.due \in [Ids -> Dead .. Timeout] /\ k.timer \in Ids
  BY DEF TimerState
<1>4. z = [k EXCEPT !.timer = id, !.due[id] = Timeout]
  BY DEF add_timeout
<1>5. /\ z.holds = k.holds
      /\ z.timer = id
      /\ z.due = [k.due EXCEPT ![id] = Timeout]
  BY <1>4 DEF TimerState
<1>6. z \in TimerState
  <2>1. z = [holds |-> k.holds, timer |-> id, due |-> [k.due EXCEPT ![id] = Timeout]]
    BY <1>4 DEF TimerState
  <2>2. [k.due EXCEPT ![id] = Timeout] \in [Ids -> Dead .. Timeout]
    BY <1>2, <1>3
  <2> QED
    BY <1>1, <1>3, <2>1, <2>2 DEF TimerState
<1> HIDE DEF id, z
<1>7. z.due[id] = Timeout /\ \A i \in Ids \ {id} : z.due[i] = Dead
  BY <1>1, <1>3, <1>5 DEF NoSource
<1> QED
  BY <1>2, <1>5, <1>6, <1>7 DEF OnlyTimer, z

LEMMA RemoveSource ==
    ASSUME NEW k \in TimerState, OnlyTimer(k)
    PROVE  /\ g_source_remove(k, k.timer) \in TimerState
           /\ g_source_remove(k, k.timer).holds = k.holds
           /\ NoSource(g_source_remove(k, k.timer))
BY DEF TimerState, g_source_remove, OnlyTimer, NoSource, Dead

LEMMA StartedState ==
    Started \in TimerState /\ Started.holds = 0 /\ OnlyTimer(Started)
    /\ Started.due[Started.timer] = Timeout
<1>1. Unstarted \in TimerState /\ NoSource(Unstarted) /\ Unstarted.holds = 0
  BY DEF Unstarted, TimerState, NoSource, Dead, Ids
<1> QED
  BY <1>1, AddTimeout DEF Started

\* add_hold(): the first hold detaches the source, later ones find none.
LEMMA AddHoldState ==
    ASSUME NEW k \in TimerState,
           IF k.holds = 0 THEN OnlyTimer(k) ELSE NoSource(k)
    PROVE  /\ add_hold(k) \in TimerState
           /\ add_hold(k).holds = k.holds + 1
           /\ NoSource(add_hold(k))
<1>1. CASE k.holds = 0
  BY <1>1, RemoveSource DEF add_hold, TimerState, NoSource
<1>2. CASE k.holds # 0
  BY <1>2 DEF add_hold, TimerState, NoSource
<1> QED
  BY <1>1, <1>2

\* remove_hold(): the last one attaches a fresh source for the whole Timeout.
LEMMA RemoveHoldState ==
    ASSUME NEW k \in TimerState, k.holds > 0, NoSource(k)
    PROVE  /\ remove_hold(k) \in TimerState
           /\ remove_hold(k).holds = k.holds - 1
           /\ IF k.holds = 1
              THEN /\ OnlyTimer(remove_hold(k))
                   /\ remove_hold(k).due[remove_hold(k).timer] = Timeout
              ELSE NoSource(remove_hold(k))
<1>1. CASE k.holds = 1
  <2> DEFINE z == [k EXCEPT !.holds = 0]
  <2>1. z \in TimerState /\ NoSource(z) /\ z.holds = 0
    BY DEF TimerState, NoSource
  <2>2. remove_hold(k) = add_timeout(z)
    BY <1>1 DEF remove_hold
  <2> HIDE DEF z
  <2>3. /\ add_timeout(z) \in TimerState
        /\ add_timeout(z).holds = 0
        /\ OnlyTimer(add_timeout(z))
        /\ add_timeout(z).due[add_timeout(z).timer] = Timeout
    BY <2>1, AddTimeout
  <2> QED
    BY <1>1, <2>2, <2>3
<1>2. CASE k.holds > 1
  <2>1. remove_hold(k) = [k EXCEPT !.holds = @ - 1]
    BY <1>2 DEF remove_hold
  <2> QED
    BY <1>2, <2>1 DEF TimerState, NoSource
<1> QED
  BY <1>1, <1>2 DEF TimerState

\* alive(): the source is replaced by a fresh one.
LEMMA AliveState ==
    ASSUME NEW k \in TimerState, k.holds = 0, OnlyTimer(k)
    PROVE  /\ alive(k) \in TimerState
           /\ alive(k).holds = 0
           /\ OnlyTimer(alive(k))
           /\ alive(k).due[alive(k).timer] = Timeout
BY RemoveSource, AddTimeout DEF alive

\* OneSourceIffIdle in the terms of the lemmas.
LEMMA AttachedOne ==
    ASSUME NEW k \in TimerState
    PROVE  /\ Attached(k) = {k.timer} <=> OnlyTimer(k)
           /\ Attached(k) = {} <=> NoSource(k)
BY DEF Attached, OnlyTimer, NoSource, TimerState

-----------------------------------------------------------------------------
(* Answers of CUPS. *)

\* g_hash_table_insert.
LEMMA PutProperties ==
    ASSUME NEW table, NEW key, NEW value
    PROVE  /\ DOMAIN Put(table, key, value) = {key} \cup DOMAIN table
           /\ Put(table, key, value)[key] = value
           /\ \A k \in DOMAIN table : k # key => Put(table, key, value)[k] = table[k]
BY DEF Put

\* What is read is read one attribute, and one record, after the other.
AttributeSteps(f, s, record, attributes, needed, key) ==
    /\ f[0] = s
    /\ \A i \in 1 .. Len(attributes) :
          f[i] = IF attributes[i] \in DOMAIN record
                 THEN Read(f[i - 1], attributes[i], record[attributes[i]], needed, key)
                 ELSE f[i - 1]
    /\ ReadRecord(s, record, attributes, needed, key) = f[Len(attributes)]
RecordSteps(f, records, attributes, needed, key) ==
    /\ f[0] = Reading(attributes)
    /\ \A i \in 1 .. Len(records) :
          f[i] = ReadRecord(f[i - 1], records[i], attributes, needed, key)
    /\ Collect(records, attributes, needed, key) = f[Len(records)].table

LEMMA ReadRecordSteps ==
    ASSUME NEW s, NEW record, NEW attributes, Len(attributes) \in Nat, NEW needed, NEW key
    PROVE  \E f : AttributeSteps(f, s, record, attributes, needed, key)
<1> DEFINE Step(t, i) == IF attributes[i] \in DOMAIN record
                         THEN Read(t, attributes[i], record[attributes[i]], needed, key) ELSE t
           Steps(f, n) == f = [i \in 0 .. n |-> IF i = 0 THEN s ELSE Step(f[i - 1], i)]
           T == {n \in Nat : \E f : Steps(f, n)}
           l == Len(attributes)
           after == CHOOSE f : Steps(f, l)
<1>1. ReadRecord(s, record, attributes, needed, key) = after[l]
  BY DEF ReadRecord
<1> HIDE DEF Step
<1>2. 0 \in T
  <2>1. Steps([i \in 0 .. 0 |-> s], 0)
    OBVIOUS
  <2> HIDE DEF Steps
  <2> QED
    BY <2>1
<1>3. ASSUME NEW n \in Nat, n \in T PROVE n + 1 \in T
  <2>1. PICK f : Steps(f, n)
    BY <1>3
  <2> DEFINE g == [i \in 0 .. n + 1 |-> IF i <= n THEN f[i] ELSE Step(f[n], i)]
  <2>2. ASSUME NEW i \in 0 .. n + 1 PROVE g[i] = IF i = 0 THEN s ELSE Step(g[i - 1], i)
    <3>1. CASE i = 0
      BY <2>1, <3>1
    <3>2. CASE i # 0 /\ i <= n
      <4>1. f[i] = Step(f[i - 1], i)
        BY <2>1, <3>2
      <4>2. g[i] = f[i] /\ g[i - 1] = f[i - 1]
        BY <3>2
      <4> QED
        BY <3>2, <4>1, <4>2
    <3>3. CASE i = n + 1
      <4>1. g[i] = Step(f[n], i) /\ g[i - 1] = f[n]
        BY <3>3
      <4> QED
        BY <3>3, <4>1
    <3> QED
      BY <3>1, <3>2, <3>3
  <2>3. g = [i \in 0 .. n + 1 |-> g[i]]
    OBVIOUS
  <2> HIDE DEF g
  <2>4. Steps(g, n + 1)
    BY <2>2, <2>3
  <2> HIDE DEF Steps
  <2> QED
    BY <2>4
<1>4. l \in T
  <2> HIDE DEF T, l
  <2>1. l \in Nat
    BY DEF l
  <2> QED
    BY <1>2, <1>3, <2>1, Induction
<1>5. Steps(after, l)
  <2> HIDE DEF Steps, l
  <2> QED
    BY <1>4
<1> HIDE DEF after
<1>6. after[0] = s /\ \A i \in 1 .. l : after[i] = Step(after[i - 1], i)
  BY <1>5
<1> QED
  BY <1>1, <1>6 DEF Step, AttributeSteps

LEMMA CollectSteps ==
    ASSUME NEW records, Len(records) \in Nat, NEW attributes, NEW needed, NEW key
    PROVE  \E f : RecordSteps(f, records, attributes, needed, key)
<1> DEFINE Step(t, i) == ReadRecord(t, records[i], attributes, needed, key)
           s == Reading(attributes)
           Steps(f, n) == f = [i \in 0 .. n |-> IF i = 0 THEN s ELSE Step(f[i - 1], i)]
           T == {n \in Nat : \E f : Steps(f, n)}
           l == Len(records)
           after == CHOOSE f : Steps(f, l)
<1>1. Collect(records, attributes, needed, key) = after[l].table
  BY DEF Collect
<1> HIDE DEF Step, s
<1>2. 0 \in T
  <2>1. Steps([i \in 0 .. 0 |-> s], 0)
    OBVIOUS
  <2> HIDE DEF Steps
  <2> QED
    BY <2>1
<1>3. ASSUME NEW n \in Nat, n \in T PROVE n + 1 \in T
  <2>1. PICK f : Steps(f, n)
    BY <1>3
  <2> DEFINE g == [i \in 0 .. n + 1 |-> IF i <= n THEN f[i] ELSE Step(f[n], i)]
  <2>2. ASSUME NEW i \in 0 .. n + 1 PROVE g[i] = IF i = 0 THEN s ELSE Step(g[i - 1], i)
    <3>1. CASE i = 0
      BY <2>1, <3>1
    <3>2. CASE i # 0 /\ i <= n
      <4>1. f[i] = Step(f[i - 1], i)
        BY <2>1, <3>2
      <4>2. g[i] = f[i] /\ g[i - 1] = f[i - 1]
        BY <3>2
      <4> QED
        BY <3>2, <4>1, <4>2
    <3>3. CASE i = n + 1
      <4>1. g[i] = Step(f[n], i) /\ g[i - 1] = f[n]
        BY <3>3
      <4> QED
        BY <3>3, <4>1
    <3> QED
      BY <3>1, <3>2, <3>3
  <2>3. g = [i \in 0 .. n + 1 |-> g[i]]
    OBVIOUS
  <2> HIDE DEF g
  <2>4. Steps(g, n + 1)
    BY <2>2, <2>3
  <2> HIDE DEF Steps
  <2> QED
    BY <2>4
<1>4. l \in T
  <2> HIDE DEF T, l
  <2>1. l \in Nat
    BY DEF l
  <2> QED
    BY <1>2, <1>3, <2>1, Induction
<1>5. Steps(after, l)
  <2> HIDE DEF Steps, l
  <2> QED
    BY <1>4
<1> HIDE DEF after
<1>6. after[0] = s /\ \A i \in 1 .. l : after[i] = Step(after[i - 1], i)
  BY <1>5
<1> QED
  BY <1>1, <1>6 DEF Step, s, RecordSteps

\* Names that are sent one after the other, each once.
EachOnce(attributes) ==
    /\ Len(attributes) \in Nat /\ Len(attributes) > 0
    /\ DOMAIN attributes = 1 .. Len(attributes)
    /\ \A i, j \in DOMAIN attributes : attributes[i] = attributes[j] => i = j

\* A function on these attributes.
OnAttributes(values, attributes) == values = [a \in ToSet(attributes) |-> values[a]]

\* A complete record makes an entry of its own, and leaves nothing to the next.
LEMMA RecordRead ==
    ASSUME NEW attributes, EachOnce(attributes), NEW record, DOMAIN record = ToSet(attributes),
           NEW key, NEW s, s.seen = {}, OnAttributes(s.values, attributes)
    PROVE  LET t == ReadRecord(s, record, attributes, ToSet(attributes), key)
               values == [a \in ToSet(attributes) |-> record[a]]
           IN  t = [seen |-> {}, values |-> values, table |-> Put(s.table, values[key], values)]
<1> DEFINE l == Len(attributes)
           A == ToSet(attributes)
           First(i) == {attributes[j] : j \in 1 .. i}
           Partly(i) == [a \in A |-> IF a \in First(i) THEN record[a] ELSE s.values[a]]
           values == [a \in A |-> record[a]]
<1>1. /\ l \in Nat /\ l > 0 /\ DOMAIN attributes = 1 .. l
      /\ \A i, j \in 1 .. l : attributes[i] = attributes[j] => i = j
      /\ \A i \in 1 .. l : attributes[i] \in A
      /\ A = First(l)
  BY DEF EachOnce, ToSet
<1>2. PICK f : AttributeSteps(f, s, record, attributes, A, key)
  BY <1>1, ReadRecordSteps
<1>3. /\ \A i \in 1 .. l : f[i] = Read(f[i - 1], attributes[i], record[attributes[i]], A, key)
      /\ f[0] = s /\ ReadRecord(s, record, attributes, A, key) = f[l]
  BY <1>1, <1>2 DEF AttributeSteps
<1> DEFINE OK(i) == f[i].seen = First(i) /\ f[i].values = Partly(i) /\ f[i].table = s.table
           T == {i \in Nat : i < l => OK(i)}
<1>4. ASSUME NEW i \in Nat, i < l PROVE First(i + 1) = First(i) \cup {attributes[i + 1]}
  <2>1. 1 .. i + 1 = (1 .. i) \cup {i + 1}
    OBVIOUS
  <2> QED
    BY <2>1
<1> HIDE DEF l, A
<1>5. ASSUME NEW i \in Nat, i < l, OK(i)
      PROVE  /\ f[i].seen \cup {attributes[i + 1]} = First(i + 1)
             /\ [f[i].values EXCEPT ![attributes[i + 1]] = record[attributes[i + 1]]] = Partly(i + 1)
  <2>1. i + 1 \in 1 .. l /\ attributes[i + 1] \in A
    BY <1>1, <1>5
  <2>2. First(i + 1) = First(i) \cup {attributes[i + 1]}
    BY <1>4, <1>5
  <2> HIDE DEF First
  <2> QED
    BY <1>5, <2>1, <2>2
<1>6. ASSUME NEW i \in Nat, i < l
      PROVE  f[i + 1] = Read(f[i], attributes[i + 1], record[attributes[i + 1]], A, key)
  <2>1. i + 1 \in 1 .. l /\ (i + 1) - 1 = i
    BY <1>1, <1>6
  <2> QED
    BY <1>3, <2>1
<1>7. 0 \in T
  <2>1. First(0) = {}
    OBVIOUS
  <2>2. Partly(0) = [a \in A |-> s.values[a]]
    BY <2>1
  <2>3. OK(0)
    BY <1>3, <2>1, <2>2 DEF OnAttributes, A
  <2> QED
    BY <2>3
<1>8. ASSUME NEW i \in Nat, i \in T PROVE i + 1 \in T
  <2> SUFFICES ASSUME i + 1 < l PROVE OK(i + 1)
    OBVIOUS
  <2>1. i < l /\ OK(i)
    BY <1>1, <1>8
  <2>2. ~(A \subseteq First(i + 1))
    <3>1. attributes[l] \in A /\ l \in 1 .. l
      BY <1>1
    <3>2. ASSUME NEW j \in 1 .. i + 1, attributes[j] = attributes[l] PROVE FALSE
      <4>1. j \in 1 .. l /\ j # l
        BY <1>1
      <4> QED
        BY <1>1, <3>1, <3>2, <4>1
    <3> QED
      BY <3>1, <3>2
  <2> DEFINE v == [f[i].values EXCEPT ![attributes[i + 1]] = record[attributes[i + 1]]]
             w == f[i].seen \cup {attributes[i + 1]}
  <2>3. v = Partly(i + 1) /\ w = First(i + 1)
    BY <1>5, <2>1
  <2>4. f[i + 1] = IF A \subseteq w
                   THEN [seen |-> {}, values |-> v, table |-> Put(f[i].table, v[key], v)]
                   ELSE [seen |-> w, values |-> v, table |-> f[i].table]
    BY <1>6, <2>1 DEF Read
  <2> HIDE DEF v, w, First, Partly
  <2>5. f[i + 1] = [seen |-> w, values |-> v, table |-> f[i].table]
    BY <2>2, <2>3, <2>4
  <2> QED
    BY <2>1, <2>3, <2>5
<1>9. OK(l - 1) /\ l - 1 \in Nat /\ l - 1 < l /\ (l - 1) + 1 = l
  <2>1. l - 1 \in Nat /\ l - 1 < l /\ (l - 1) + 1 = l
    BY <1>1
  <2> HIDE DEF T
  <2>2. l - 1 \in T
    BY <1>7, <1>8, <2>1, Induction
  <2> USE DEF T
  <2> QED
    BY <2>1, <2>2
<1> DEFINE k == l - 1
           v == [f[k].values EXCEPT ![attributes[k + 1]] = record[attributes[k + 1]]]
           w == f[k].seen \cup {attributes[k + 1]}
<1> HIDE DEF k
<1>10. OK(k) /\ k \in Nat /\ k < l /\ k + 1 = l
  BY <1>9 DEF k
<1>11. w = First(k + 1) /\ v = Partly(k + 1)
  BY <1>5, <1>10
<1>12. w = A /\ v = values
  <2>1. First(k + 1) = A
    BY <1>1, <1>10
  <2> HIDE DEF First, w, v
  <2> QED
    BY <1>11, <2>1
<1>13. f[l] = IF A \subseteq w
              THEN [seen |-> {}, values |-> v, table |-> Put(f[k].table, v[key], v)]
              ELSE [seen |-> w, values |-> v, table |-> f[k].table]
  BY <1>6, <1>10 DEF Read
<1> HIDE DEF w, v, values
<1>14. f[l] = [seen |-> {}, values |-> values, table |-> Put(s.table, values[key], values)]
  BY <1>10, <1>12, <1>13
<1> QED
  BY <1>3, <1>14 DEF A, values

\* Whatever is sent, the entries have every attribute.
LEMMA EntriesShaped ==
    ASSUME NEW records, Len(records) \in Nat, NEW attributes, Len(attributes) \in Nat,
           NEW needed, NEW key
    PROVE  \A k \in DOMAIN Collect(records, attributes, needed, key) :
              OnAttributes(Collect(records, attributes, needed, key)[k], attributes)
<1> DEFINE OK(s) == /\ OnAttributes(s.values, attributes)
                    /\ \A k \in DOMAIN s.table : OnAttributes(s.table[k], attributes)
           l == Len(records)
<1>1. ASSUME NEW s, OK(s), NEW name, NEW value PROVE OK(Read(s, name, value, needed, key))
  <2> DEFINE values == [s.values EXCEPT ![name] = value]
             t == Read(s, name, value, needed, key)
  <2>1. OnAttributes(values, attributes)
    <3>1. s.values = [a \in ToSet(attributes) |-> s.values[a]]
      BY <1>1 DEF OnAttributes
    <3>2. values = [a \in ToSet(attributes) |-> IF a = name THEN value ELSE s.values[a]]
      BY <3>1
    <3> QED
      BY <3>2 DEF OnAttributes
  <2>2. /\ t.values = values
        /\ t.table = s.table \/ t.table = Put(s.table, values[key], values)
    BY DEF Read
  <2> HIDE DEF t, values
  <2>3. ASSUME NEW k \in DOMAIN t.table PROVE OnAttributes(t.table[k], attributes)
    <3>1. CASE t.table = s.table
      BY <1>1, <2>3, <3>1
    <3>2. CASE t.table = Put(s.table, values[key], values)
      <4>1. t.table[k] = values \/ (k \in DOMAIN s.table /\ t.table[k] = s.table[k])
        BY <2>3, <3>2 DEF Put
      <4> QED
        BY <1>1, <2>1, <4>1
    <3> QED
      BY <2>2, <3>1, <3>2
  <2> QED
    BY <2>1, <2>2, <2>3 DEF t
<1> HIDE DEF OK
<1>2. ASSUME NEW s, OK(s), NEW record PROVE OK(ReadRecord(s, record, attributes, needed, key))
  <2> DEFINE n == Len(attributes)
  <2>0. PICK f : AttributeSteps(f, s, record, attributes, needed, key)
    BY ReadRecordSteps
  <2>1. /\ f[0] = s
        /\ \A i \in 1 .. n :
              f[i] = IF attributes[i] \in DOMAIN record
                     THEN Read(f[i - 1], attributes[i], record[attributes[i]], needed, key)
                     ELSE f[i - 1]
        /\ ReadRecord(s, record, attributes, needed, key) = f[n]
    BY <2>0 DEF AttributeSteps
  <2> DEFINE T == {i \in Nat : i <= n => OK(f[i])}
  <2>2. 0 \in T
    BY <1>2, <2>1
  <2>3. ASSUME NEW i \in Nat, i \in T PROVE i + 1 \in T
    <3> SUFFICES ASSUME i + 1 <= n PROVE OK(f[i + 1])
      OBVIOUS
    <3>1. i + 1 \in 1 .. n /\ (i + 1) - 1 = i /\ OK(f[i])
      BY <2>3
    <3> QED
      BY <1>1, <2>1, <3>1
  <2>4. n \in T
    <3> HIDE DEF T
    <3> QED
      BY <2>2, <2>3, Induction
  <2> QED
    BY <2>1, <2>4
<1>0. PICK f : RecordSteps(f, records, attributes, needed, key)
  BY CollectSteps
<1>3. /\ f[0] = Reading(attributes)
      /\ \A i \in 1 .. l : f[i] = ReadRecord(f[i - 1], records[i], attributes, needed, key)
      /\ Collect(records, attributes, needed, key) = f[l].table
  BY <1>0 DEF RecordSteps
<1> DEFINE T == {i \in Nat : i <= l => OK(f[i])}
<1>4. 0 \in T
  <2>1. OK(Reading(attributes))
    BY DEF OK, Reading, OnAttributes
  <2> QED
    BY <1>3, <2>1
<1>5. ASSUME NEW i \in Nat, i \in T PROVE i + 1 \in T
  <2> SUFFICES ASSUME i + 1 <= l PROVE OK(f[i + 1])
    OBVIOUS
  <2>1. i + 1 \in 1 .. l /\ (i + 1) - 1 = i /\ OK(f[i])
    BY <1>5
  <2> QED
    BY <1>2, <1>3, <2>1
<1>6. l \in T
  <2> HIDE DEF T
  <2> QED
    BY <1>4, <1>5, Induction
<1> QED
  BY <1>3, <1>6 DEF OK

\* If every record is complete, each entry is one of the records, and each record has an
\* entry under its key.
LEMMA CollectComplete ==
    ASSUME NEW records, Len(records) \in Nat, DOMAIN records = 1 .. Len(records),
           NEW attributes, EachOnce(attributes), NEW key \in ToSet(attributes),
           \A i \in DOMAIN records : DOMAIN records[i] = ToSet(attributes)
    PROVE  LET table == Collect(records, attributes, ToSet(attributes), key)
               values(i) == [a \in ToSet(attributes) |-> records[i][a]]
           IN  /\ \A k \in DOMAIN table :
                     \E i \in DOMAIN records : k = records[i][key] /\ table[k] = values(i)
               /\ \A i \in DOMAIN records : records[i][key] \in DOMAIN table
<1> DEFINE A == ToSet(attributes)
           l == Len(records)
           table == Collect(records, attributes, A, key)
           values(i) == [a \in A |-> records[i][a]]
           OK(s, n) ==
              /\ s.seen = {} /\ OnAttributes(s.values, attributes)
              /\ \A k \in DOMAIN s.table :
                    \E i \in 1 .. n : k = records[i][key] /\ s.table[k] = values(i)
              /\ \A i \in 1 .. n : records[i][key] \in DOMAIN s.table
<1>0. PICK f : RecordSteps(f, records, attributes, A, key)
  BY CollectSteps
<1>1. /\ f[0] = Reading(attributes)
      /\ \A i \in 1 .. l : f[i] = ReadRecord(f[i - 1], records[i], attributes, A, key)
      /\ table = f[l].table
  BY <1>0 DEF RecordSteps
<1> DEFINE T == {i \in Nat : i <= l => OK(f[i], i)}
<1>2. 0 \in T
  <2>1. OK(Reading(attributes), 0)
    BY DEF Reading, OnAttributes
  <2> QED
    BY <1>1, <2>1
<1>3. ASSUME NEW n \in Nat, n \in T PROVE n + 1 \in T
  <2> SUFFICES ASSUME n + 1 <= l PROVE OK(f[n + 1], n + 1)
    OBVIOUS
  <2> DEFINE s == f[n]
             t == f[n + 1]
             v == values(n + 1)
  <2>1. n + 1 \in 1 .. l /\ (n + 1) - 1 = n /\ OK(s, n) /\ n + 1 \in 1 .. n + 1
    BY <1>3
  <2>2. t = ReadRecord(s, records[n + 1], attributes, A, key)
    BY <1>1, <2>1
  <2>3. t = [seen |-> {}, values |-> v, table |-> Put(s.table, v[key], v)]
    <3> DEFINE r == records[n + 1]
    <3>1. DOMAIN r = ToSet(attributes) /\ s.seen = {} /\ OnAttributes(s.values, attributes)
      BY <2>1
    <3>2. v = [a \in ToSet(attributes) |-> r[a]]
      OBVIOUS
    <3> HIDE DEF r, s, t, v
    <3>3. LET x == ReadRecord(s, r, attributes, ToSet(attributes), key)
              y == [a \in ToSet(attributes) |-> r[a]]
          IN  x = [seen |-> {}, values |-> y, table |-> Put(s.table, y[key], y)]
      BY <3>1, RecordRead
    <3>4. t = ReadRecord(s, r, attributes, ToSet(attributes), key)
      BY <2>2 DEF r, t, s
    <3> QED
      BY <3>2, <3>3, <3>4
  <2>4. v[key] = records[n + 1][key]
    OBVIOUS
  <2>5. OnAttributes(v, attributes)
    BY DEF OnAttributes
  <2> HIDE DEF v, s, t, A, values
  <2>6. t.seen = {} /\ t.values = v /\ t.table = Put(s.table, v[key], v)
    BY <2>3
  <2>7. ASSUME NEW k \in DOMAIN t.table
        PROVE  \E i \in 1 .. n + 1 : k = records[i][key] /\ t.table[k] = values(i)
    <3>1. CASE k = v[key]
      <4>1. t.table[k] = v
        BY <2>6, <3>1 DEF Put
      <4> QED
        BY <2>1, <2>4, <3>1, <4>1 DEF v
    <3>2. CASE k # v[key]
      <4>1. k \in DOMAIN s.table /\ t.table[k] = s.table[k]
        BY <2>6, <2>7, <3>2 DEF Put
      <4>2. PICK i \in 1 .. n : k = records[i][key] /\ s.table[k] = values(i)
        BY <2>1, <4>1
      <4>3. i \in 1 .. n + 1
        OBVIOUS
      <4> QED
        BY <4>1, <4>2, <4>3
    <3> QED
      BY <3>1, <3>2
  <2>8. ASSUME NEW i \in 1 .. n + 1 PROVE records[i][key] \in DOMAIN t.table
    <3>1. DOMAIN t.table = DOMAIN s.table \cup {records[n + 1][key]}
      BY <2>4, <2>6 DEF Put
    <3>2. i \in 1 .. n \/ i = n + 1
      OBVIOUS
    <3> QED
      BY <2>1, <3>1, <3>2
  <2> QED
    BY <2>5, <2>6, <2>7, <2>8 DEF t
<1>4. OK(f[l], l)
  <2> HIDE DEF T
  <2>1. l \in T
    BY <1>2, <1>3, Induction
  <2> USE DEF T
  <2> HIDE DEF OK
  <2> QED
    BY <2>1
<1> QED
  BY <1>1, <1>4

=============================================================================
