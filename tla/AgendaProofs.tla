----------------------------- MODULE AgendaProofs -----------------------------
(***************************************************************************)
(* Proofs about the event agenda and its two users.                        *)
(*                                                                         *)
(* The agenda, for every set of instants, phases and targets, every        *)
(* identity limit and every trace length.                                  *)
(*                                                                         *)
(* Behavioral callbacks.  A runtime adds no agenda call of its own, so     *)
(* whatever holds of an agenda holds under callbacks.  Causes precede      *)
(* effects because a context speaks for an event the agenda has delivered, *)
(* and the agenda takes nothing before that; and the mailboxes stay sorted *)
(* because every event arrives after all that came before it, so the first *)
(* acceptable message is the oldest of its kind.                           *)
(*                                                                         *)
(* Transient sessions, for every policy validate_run_policy accepts on a   *)
(* fine enough grid, every set of breakpoints and schedules, and every     *)
(* agenda.  The session only ever makes the calls of an agenda, so the     *)
(* invariant of the agenda holds of it.  An analog step is taken only when *)
(* nothing is due, and is cut at the first breakpoint of any kind: it      *)
(* cannot pass an event, the agenda accepts the advance, and the samples   *)
(* tile the time.                                                          *)
(***************************************************************************)
EXTENDS Behaviors, TransientSession, FoldFacts

-----------------------------------------------------------------------------
(* Lemmas on natural numbers and sequences.                                *)

LEMMA InsertAtProperties ==
  ASSUME NEW S, NEW q \in Seq(S), NEW p \in 1..Len(q) + 1, NEW e \in S
  PROVE  /\ InsertAt(q, p, e) \in Seq(S)
         /\ Len(InsertAt(q, p, e)) = Len(q) + 1
         /\ InsertAt(q, p, e)[p] = e
         /\ \A k \in 1..p - 1 : InsertAt(q, p, e)[k] = q[k]
         /\ \A k \in p..Len(q) : InsertAt(q, p, e)[k + 1] = q[k]
<1> DEFINE L == SubSeq(q, 1, p - 1)
           R == SubSeq(q, p, Len(q))
           LE == L \o <<e>>
<1>0. Len(q) \in Nat /\ p \in Int /\ \A i \in 1..Len(q) : q[i] \in S
  BY LenProperties, ElementOfSeq
<1>1. L \in Seq(S) /\ Len(L) = p - 1 /\ \A i \in 1..p - 1 : L[i] = q[i]
  <2>1. \A i \in 1..p - 1 : q[i] \in S
    BY <1>0
  <2> QED
    BY <1>0, <2>1, SubSeqProperties
<1>2. R \in Seq(S) /\ Len(R) = Len(q) - p + 1
      /\ \A i \in 1..Len(q) - p + 1 : R[i] = q[p + i - 1]
  <2>1. \A i \in p..Len(q) : q[i] \in S
    BY <1>0
  <2>2. p <= Len(q) \/ p = Len(q) + 1
    BY <1>0
  <2> HIDE DEF R
  <2> QED
    BY <1>0, <2>1, <2>2, SubSeqProperties DEF R
<1>3. <<e>> \in Seq(S) /\ Len(<<e>>) = 1 /\ <<e>>[1] = e
  OBVIOUS
<1> HIDE DEF L, R
<1>4. LE \in Seq(S) /\ Len(LE) = p
      /\ \A i \in 1..p : LE[i] = IF i < p THEN q[i] ELSE e
  BY <1>0, <1>1, <1>3, ConcatProperties
<1> HIDE DEF LE
<1>5. LE \o R \in Seq(S) /\ Len(LE \o R) = Len(q) + 1
      /\ \A i \in 1..Len(q) + 1 :
           (LE \o R)[i] = IF i <= p THEN LE[i] ELSE R[i - p]
  <2>1. LE \in Seq(S) /\ R \in Seq(S)
    BY <1>2, <1>4
  <2>2. Len(LE) + Len(R) = Len(q) + 1
    BY <1>0, <1>2, <1>4
  <2>3. LE \o R \in Seq(S) /\ Len(LE \o R) = Len(LE) + Len(R)
        /\ \A i \in 1..Len(LE) + Len(R) :
             (LE \o R)[i] = IF i <= Len(LE) THEN LE[i] ELSE R[i - Len(LE)]
    BY <2>1, ConcatProperties
  <2> QED
    BY <2>2, <2>3, <1>4
<1>6. \A i \in 1..Len(q) + 1 : i > p => R[i - p] = q[i - 1]
  BY <1>0, <1>2
<1>7. InsertAt(q, p, e) = LE \o R
  BY DEF InsertAt, LE, L, R
<1> QED
  BY <1>0, <1>4, <1>5, <1>6, <1>7

LEMMA RemoveAtProperties ==
  ASSUME NEW S, NEW q \in Seq(S), NEW p \in 1..Len(q)
  PROVE  /\ RemoveAt(q, p) \in Seq(S)
         /\ Len(RemoveAt(q, p)) = Len(q) - 1
         /\ \A k \in 1..p - 1 : RemoveAt(q, p)[k] = q[k]
         /\ \A k \in p..Len(q) - 1 : RemoveAt(q, p)[k] = q[k + 1]
<1> DEFINE L == SubSeq(q, 1, p - 1)
           R == SubSeq(q, p + 1, Len(q))
<1>0. Len(q) \in Nat /\ p \in Int /\ \A i \in 1..Len(q) : q[i] \in S
  BY LenProperties, ElementOfSeq
<1>1. L \in Seq(S) /\ Len(L) = p - 1 /\ \A i \in 1..p - 1 : L[i] = q[i]
  <2>1. \A i \in 1..p - 1 : q[i] \in S
    BY <1>0
  <2> QED
    BY <1>0, <2>1, SubSeqProperties
<1>2. R \in Seq(S) /\ Len(R) = Len(q) - p
      /\ \A i \in 1..Len(q) - p : R[i] = q[p + i]
  <2>1. \A i \in p + 1..Len(q) : q[i] \in S
    BY <1>0
  <2>2. p + 1 <= Len(q) \/ p = Len(q)
    BY <1>0
  <2> HIDE DEF R
  <2> QED
    BY <1>0, <2>1, <2>2, SubSeqProperties DEF R
<1> HIDE DEF L, R
<1>3. L \o R \in Seq(S) /\ Len(L \o R) = Len(q) - 1
      /\ \A i \in 1..Len(q) - 1 :
           (L \o R)[i] = IF i <= p - 1 THEN L[i] ELSE R[i - (p - 1)]
  BY <1>0, <1>1, <1>2, ConcatProperties
<1>4. \A i \in 1..Len(q) - 1 : i >= p => R[i - (p - 1)] = q[i + 1]
  BY <1>0, <1>2
<1>5. RemoveAt(q, p) = L \o R
  BY DEF RemoveAt, L, R
<1> QED
  BY <1>0, <1>1, <1>3, <1>4, <1>5

-----------------------------------------------------------------------------
(* The order of events, and the deque operations that keep it.             *)

LEMMA EventFields ==
  ASSUME NEW e \in Events
  PROVE  /\ e.time \in Times /\ e.time \in Int
         /\ e.phase \in Phases /\ e.phase \in Int
         /\ e.id \in Ids /\ e.id \in Int
<1>1. e.time \in Times /\ e.phase \in Phases /\ e.id \in Ids
  BY DEF Events
<1>2. Times \subseteq Int /\ Phases \subseteq Int /\ Ids \subseteq Int
  BY AgendaAssumption DEF Ids
<1> QED
  BY <1>1, <1>2

(* compare_event_order is a strict order, total on distinct identities. *)
LEMMA OrdersBeforeIsStrictOrder ==
  /\ \A a \in Events : ~OrdersBefore(a, a)
  /\ \A a, b, c \in Events : OrdersBefore(a, b) /\ OrdersBefore(b, c) => OrdersBefore(a, c)
  /\ \A a, b \in Events : a.id # b.id => OrdersBefore(a, b) \/ OrdersBefore(b, a)
  /\ \A a, b \in Events : ~(OrdersBefore(a, b) /\ OrdersBefore(b, a))
BY EventFields DEF OrdersBefore

LEMMA SequenceIndices ==
  ASSUME NEW S, NEW q \in Seq(S)
  PROVE  /\ Len(q) \in Nat
         /\ DOMAIN q = 1..Len(q)
         /\ \A i \in 1..Len(q) : q[i] \in S
BY LenProperties, ElementOfSeq

LEMMA InsertionPositionExists ==
  ASSUME NEW q \in Seq(Events), NEW e \in Events
  PROVE  LET p == InsertionPosition(q, e)
         IN  /\ p \in 1..Len(q) + 1
             /\ \A i \in 1..p - 1 : ~OrdersBefore(e, q[i])
             /\ p <= Len(q) => OrdersBefore(e, q[p])
<1> DEFINE Good(p) == /\ \A i \in 1..p - 1 : ~OrdersBefore(e, q[i])
                      /\ p <= Len(q) => OrdersBefore(e, q[p])
           T == {p \in 1..Len(q) + 1 : p <= Len(q) => OrdersBefore(e, q[p])}
<1>0. Len(q) \in Nat
  BY SequenceIndices
<1>1. T \subseteq Nat /\ Len(q) + 1 \in T
  BY <1>0
<1>2. PICK p \in T : \A y \in T : p <= y
  <2> HIDE DEF T
  <2> QED
    BY <1>1, LeastNatural
<1>3. p \in 1..Len(q) + 1 /\ Good(p)
  <2>1. p \in 1..Len(q) + 1 /\ (p <= Len(q) => OrdersBefore(e, q[p]))
    BY <1>2
  <2>2. ASSUME NEW i \in 1..p - 1, OrdersBefore(e, q[i]) PROVE FALSE
    <3>1. i \in T
      BY <1>0, <2>1, <2>2
    <3> HIDE DEF T
    <3> QED
      BY <1>2, <2>1, <3>1
  <2> QED
    BY <2>1, <2>2
<1>4. InsertionPosition(q, e) = CHOOSE x \in 1..Len(q) + 1 : Good(x)
  BY DEF InsertionPosition
<1> HIDE DEF Good
<1>5. InsertionPosition(q, e) \in 1..Len(q) + 1 /\ Good(InsertionPosition(q, e))
  BY <1>3, <1>4
<1> QED
  BY <1>5 DEF Good

(* In a sorted deque the insertion position separates the events before e   *)
(* from the events after it.                                                *)
LEMMA InsertionPositionSplits ==
  ASSUME NEW q \in Seq(Events), NEW e \in Events, Sorted(q),
         \A i \in 1..Len(q) : q[i].id # e.id
  PROVE  /\ InsertionPosition(q, e) \in 1..Len(q) + 1
         /\ \A i \in 1..InsertionPosition(q, e) - 1 : OrdersBefore(q[i], e)
         /\ \A i \in InsertionPosition(q, e)..Len(q) : OrdersBefore(e, q[i])
<1> DEFINE p == InsertionPosition(q, e)
<1>0. Len(q) \in Nat /\ \A i \in 1..Len(q) : q[i] \in Events
  BY SequenceIndices
<1>1. /\ p \in 1..Len(q) + 1
      /\ \A i \in 1..p - 1 : ~OrdersBefore(e, q[i])
      /\ p <= Len(q) => OrdersBefore(e, q[p])
  BY InsertionPositionExists
<1> HIDE DEF p
<1>4. \A i \in 1..p - 1 : OrdersBefore(q[i], e)
  BY <1>0, <1>1, OrdersBeforeIsStrictOrder
<1>5. \A i \in p..Len(q) : OrdersBefore(e, q[i])
  <2> SUFFICES ASSUME NEW i \in p..Len(q) PROVE OrdersBefore(e, q[i])
    OBVIOUS
  <2>1. p \in 1..Len(q) /\ i \in 1..Len(q) /\ OrdersBefore(e, q[p])
    BY <1>0, <1>1
  <2>2. i = p \/ OrdersBefore(q[p], q[i])
    BY <1>0, <1>1, <2>1 DEF Sorted
  <2> QED
    BY <1>0, <2>1, <2>2, OrdersBeforeIsStrictOrder
<1> QED
  BY <1>1, <1>4, <1>5 DEF p

(* Inserting an event with a fresh identity keeps the deque sorted and adds *)
(* just that event.                                                         *)
LEMMA InsertedProperties ==
  ASSUME NEW q \in Seq(Events), NEW e \in Events, Sorted(q),
         \A i \in 1..Len(q) : q[i].id # e.id
  PROVE  /\ Inserted(q, e) \in Seq(Events)
         /\ Len(Inserted(q, e)) = Len(q) + 1
         /\ Sorted(Inserted(q, e))
         /\ Elements(Inserted(q, e)) = Elements(q) \cup {e}
<1> DEFINE p == InsertionPosition(q, e)
           r == Inserted(q, e)
<1>0. Len(q) \in Nat /\ \A i \in 1..Len(q) : q[i] \in Events
  BY SequenceIndices
<1>1. p \in 1..Len(q) + 1
  BY InsertionPositionSplits
<1>4. \A i \in 1..p - 1 : OrdersBefore(q[i], e)
  BY InsertionPositionSplits
<1>5. \A i \in p..Len(q) : OrdersBefore(e, q[i])
  BY InsertionPositionSplits
<1>2. r = InsertAt(q, p, e)
  BY DEF Inserted
<1> HIDE DEF p, r
<1>3. /\ r \in Seq(Events)
      /\ Len(r) = Len(q) + 1
      /\ r[p] = e
      /\ \A k \in 1..p - 1 : r[k] = q[k]
      /\ \A k \in p + 1..Len(q) + 1 : r[k] = q[k - 1]
  <2>1. p \in 1..Len(q) + 1
    BY <1>1
  <2>2. /\ r \in Seq(Events)
        /\ Len(r) = Len(q) + 1
        /\ r[p] = e
        /\ \A k \in 1..p - 1 : r[k] = q[k]
        /\ \A k \in p..Len(q) : r[k + 1] = q[k]
    BY <1>2, <2>1, InsertAtProperties
  <2>3. ASSUME NEW k \in p + 1..Len(q) + 1 PROVE r[k] = q[k - 1]
    <3>1. k - 1 \in p..Len(q) /\ (k - 1) + 1 = k
      BY <1>0, <2>1
    <3> QED
      BY <2>2, <3>1
  <2> QED
    BY <2>2, <2>3
<1>6. Sorted(r)
  <2> SUFFICES ASSUME NEW i \in 1..Len(q) + 1, NEW j \in 1..Len(q) + 1, i < j
               PROVE  OrdersBefore(r[i], r[j])
    BY <1>3 DEF Sorted
  <2>1. CASE j < p
    <3>1. r[i] = q[i] /\ r[j] = q[j] /\ i \in 1..Len(q) /\ j \in 1..Len(q)
      BY <2>1, <1>0, <1>1, <1>3
    <3> QED
      BY <3>1 DEF Sorted
  <2>2. CASE j = p
    BY <2>2, <1>0, <1>1, <1>3, <1>4
  <2>3. CASE j > p /\ i < p
    <3>1. /\ r[i] = q[i] /\ r[j] = q[j - 1]
          /\ i \in 1..Len(q) /\ j - 1 \in 1..Len(q) /\ i < j - 1
      BY <2>3, <1>0, <1>1, <1>3
    <3> QED
      BY <3>1 DEF Sorted
  <2>4. CASE j > p /\ i = p
    <3>1. j - 1 \in p..Len(q) /\ j \in p + 1..Len(q) + 1
      BY <2>4, <1>0, <1>1
    <3>2. r[i] = e /\ r[j] = q[j - 1]
      BY <2>4, <1>3, <3>1
    <3> QED
      BY <3>1, <3>2, <1>5
  <2>5. CASE j > p /\ i > p
    <3>1. /\ r[i] = q[i - 1] /\ r[j] = q[j - 1]
          /\ i - 1 \in 1..Len(q) /\ j - 1 \in 1..Len(q) /\ i - 1 < j - 1
      BY <2>5, <1>0, <1>1, <1>3
    <3> QED
      BY <3>1 DEF Sorted
  <2> QED
    BY <1>0, <1>1, <2>1, <2>2, <2>3, <2>4, <2>5
<1>7. Elements(r) = Elements(q) \cup {e}
  <2>1. ASSUME NEW x \in Elements(r) PROVE x \in Elements(q) \cup {e}
    <3>1. PICK k \in 1..Len(q) + 1 : x = r[k]
      BY <1>3, <2>1 DEF Elements
    <3>2. \/ x = e
          \/ k < p /\ k \in 1..Len(q) /\ x = q[k]
          \/ k > p /\ k - 1 \in 1..Len(q) /\ x = q[k - 1]
      BY <1>0, <1>1, <1>3, <3>1
    <3> QED
      BY <3>2 DEF Elements
  <2>2. e \in Elements(r)
    BY <1>0, <1>1, <1>3 DEF Elements
  <2>3. ASSUME NEW i \in 1..Len(q) PROVE q[i] \in Elements(r)
    <3>1. i < p => i \in 1..Len(q) + 1 /\ q[i] = r[i]
      BY <1>0, <1>1, <1>3
    <3>2. i >= p => i + 1 \in 1..Len(q) + 1 /\ q[i] = r[i + 1]
      BY <1>0, <1>1, <1>3
    <3>3. i < p \/ i >= p
      BY <1>0, <1>1
    <3>4. \E k \in 1..Len(q) + 1 : q[i] = r[k]
      BY <3>1, <3>2, <3>3
    <3> QED
      BY <1>3, <3>4 DEF Elements
  <2> QED
    BY <2>1, <2>2, <2>3 DEF Elements
<1> QED
  BY <1>3, <1>6, <1>7 DEF r

(* Removing one place keeps the deque sorted and drops just that event. *)
LEMMA WithoutProperties ==
  ASSUME NEW q \in Seq(Events), Sorted(q), NEW p \in 1..Len(q)
  PROVE  /\ Without(q, p) \in Seq(Events)
         /\ Len(Without(q, p)) = Len(q) - 1
         /\ Sorted(Without(q, p))
         /\ Elements(Without(q, p)) = Elements(q) \ {q[p]}
<1> DEFINE r == Without(q, p)
<1>0. Len(q) \in Nat /\ \A i \in 1..Len(q) : q[i] \in Events
  BY SequenceIndices
<1>1. /\ r \in Seq(Events)
      /\ Len(r) = Len(q) - 1
      /\ \A k \in 1..p - 1 : r[k] = q[k]
      /\ \A k \in p..Len(q) - 1 : r[k] = q[k + 1]
  BY RemoveAtProperties DEF Without
<1> HIDE DEF r
<1>2. Sorted(r)
  <2> SUFFICES ASSUME NEW i \in 1..Len(q) - 1, NEW j \in 1..Len(q) - 1, i < j
               PROVE  OrdersBefore(r[i], r[j])
    BY <1>1 DEF Sorted
  <2>0. ASSUME NEW k \in 1..Len(q) - 1
        PROVE  /\ k < p => k \in 1..Len(q) /\ r[k] = q[k]
               /\ k >= p => k + 1 \in 1..Len(q) /\ r[k] = q[k + 1]
    <3>1. k < p => k \in 1..Len(q) /\ r[k] = q[k]
      BY <1>0, <1>1
    <3>2. k >= p => k + 1 \in 1..Len(q) /\ r[k] = q[k + 1]
      BY <1>0, <1>1
    <3> QED
      BY <3>1, <3>2
  <2>1. PICK a \in {i, i + 1} : a \in 1..Len(q) /\ r[i] = q[a] /\ (a = i + 1 => i >= p)
    <3>1. CASE i < p
      BY <2>0, <3>1
    <3>2. CASE i >= p
      BY <2>0, <3>2
    <3> QED
      BY <1>0, <3>1, <3>2
  <2>2. PICK b \in {j, j + 1} : b \in 1..Len(q) /\ r[j] = q[b] /\ (b = j => j < p)
    <3>1. CASE j < p
      BY <2>0, <3>1
    <3>2. CASE j >= p
      BY <2>0, <3>2
    <3> QED
      BY <1>0, <3>1, <3>2
  <2>3. a < b
    BY <1>0, <2>1, <2>2
  <2> QED
    BY <2>1, <2>2, <2>3 DEF Sorted
<1>3. \A i \in 1..Len(q) : i # p => q[i] # q[p]
  BY <1>0, OrdersBeforeIsStrictOrder DEF Sorted
<1>4. Elements(r) = Elements(q) \ {q[p]}
  <2>1. ASSUME NEW x \in Elements(r) PROVE x \in Elements(q) \ {q[p]}
    <3>1. PICK k \in 1..Len(q) - 1 : x = r[k]
      BY <1>1, <2>1 DEF Elements
    <3>2. \/ k < p /\ k \in 1..Len(q) /\ x = q[k]
          \/ k >= p /\ k + 1 \in 1..Len(q) /\ x = q[k + 1]
      BY <1>0, <1>1, <3>1
    <3> QED
      BY <1>0, <1>3, <3>2 DEF Elements
  <2>2. ASSUME NEW i \in 1..Len(q), i # p PROVE q[i] \in Elements(r)
    <3>1. i < p => i \in 1..Len(q) - 1 /\ q[i] = r[i]
      BY <1>0, <1>1
    <3>2. i > p => i - 1 \in 1..Len(q) - 1 /\ q[i] = r[i - 1]
      BY <1>0, <1>1
    <3> QED
      BY <1>0, <1>1, <2>2, <3>1, <3>2 DEF Elements
  <2> QED
    BY <2>1, <2>2 DEF Elements
<1> QED
  BY <1>1, <1>2, <1>4 DEF r

(* The merge of a sorted trace into a sorted deque is sorted and holds just *)
(* the events of both.                                                      *)
LEMMA MergedProperties ==
  ASSUME NEW q \in Seq(Events), NEW added \in Seq(Events), Sorted(q), Sorted(added),
         \A i \in 1..Len(q), j \in 1..Len(added) : q[i].id # added[j].id
  PROVE  /\ Merged(q, added) \in Seq(Events)
         /\ Len(Merged(q, added)) = Len(q) + Len(added)
         /\ Sorted(Merged(q, added))
         /\ Elements(Merged(q, added)) = Elements(q) \cup Elements(added)
<1> DEFINE n == Len(q)
           m == Len(added)
           P(j) == InsertionPosition(q, added[j])
           slot(j) == P(j) + j - 1
           Splits(k, t) == (t > 0 => slot(t) < k) /\ (t < m => slot(t + 1) >= k)
           taken(k) == CHOOSE t \in 0..m : Splits(k, t)
           place(k) == IF taken(k) < m /\ slot(taken(k) + 1) = k
                       THEN added[taken(k) + 1] ELSE q[k - taken(k)]
           r == [k \in 1..n + m |-> place(k)]
<1>0. /\ n \in Nat /\ m \in Nat
      /\ \A i \in 1..n : q[i] \in Events
      /\ \A j \in 1..m : added[j] \in Events
  BY SequenceIndices
<1>1. ASSUME NEW j \in 1..m
      PROVE  /\ P(j) \in 1..n + 1
             /\ \A i \in 1..P(j) - 1 : OrdersBefore(q[i], added[j])
             /\ \A i \in P(j)..n : OrdersBefore(added[j], q[i])
  BY <1>0, InsertionPositionSplits
<1>a. Merged(q, added) = r
  BY DEF Merged
<1> HIDE DEF P
<1>2. ASSUME NEW j \in 1..m, NEW k \in 1..m, j < k
      PROVE  P(j) <= P(k)
  <2> SUFFICES ASSUME P(k) < P(j) PROVE FALSE
    BY <1>1
  <2>1. P(k) \in 1..n /\ P(k) \in 1..P(j) - 1 /\ P(k) \in P(k)..n
    BY <1>0, <1>1
  <2>2. OrdersBefore(added[k], q[P(k)]) /\ OrdersBefore(q[P(k)], added[j])
    BY <1>1, <2>1
  <2>3. OrdersBefore(added[j], added[k])
    BY <1>2 DEF Sorted
  <2> QED
    BY <1>0, <2>1, <2>2, <2>3, OrdersBeforeIsStrictOrder
<1>3. /\ \A j \in 1..m : slot(j) \in 1..n + m
      /\ \A j, k \in 1..m : j < k => slot(j) < slot(k)
      /\ \A j, k \in 1..m : slot(j) < slot(k) => j < k
  <2>1. \A j \in 1..m : slot(j) \in 1..n + m
    BY <1>0, <1>1
  <2>2. \A j, k \in 1..m : j < k => slot(j) < slot(k)
    BY <1>0, <1>1, <1>2
  <2> QED
    BY <1>0, <2>1, <2>2
<1> HIDE DEF slot
<1>4. ASSUME NEW k \in 1..n + m
      PROVE  taken(k) \in 0..m /\ Splits(k, taken(k))
  <2> DEFINE T == {t \in 0..m : t < m => slot(t + 1) >= k}
  <2>1. T \subseteq Nat /\ m \in T
    BY <1>0
  <2>2. PICK t \in T : \A y \in T : t <= y
    <3> HIDE DEF T
    <3> QED
      BY <2>1, LeastNatural
  <2>3. t > 0 => slot(t) < k
    <3> SUFFICES ASSUME t > 0 PROVE slot(t) < k
      OBVIOUS
    <3>1. t - 1 \in 0..m /\ t - 1 < m /\ t \in 1..m /\ (t - 1) + 1 = t
      BY <1>0, <2>2
    <3>2. t - 1 \notin T
      BY <1>0, <2>2, <3>1
    <3>3. ~(slot((t - 1) + 1) >= k)
      BY <3>1, <3>2
    <3> QED
      BY <1>0, <1>3, <3>1, <3>3
  <2>4. t \in 0..m /\ Splits(k, t)
    BY <2>2, <2>3
  <2> HIDE DEF Splits
  <2> QED
    BY <2>4
<1> HIDE DEF taken
(* Place k holds either the added event whose slot it is ... *)
<1>5. ASSUME NEW k \in 1..n + m, taken(k) < m, slot(taken(k) + 1) = k
      PROVE  taken(k) + 1 \in 1..m /\ r[k] = added[taken(k) + 1]
  BY <1>0, <1>4, <1>5
(* ... or an existing event between the insertion positions around it. *)
<1>6. ASSUME NEW k \in 1..n + m, ~(taken(k) < m /\ slot(taken(k) + 1) = k)
      PROVE  /\ k - taken(k) \in 1..n
             /\ r[k] = q[k - taken(k)]
             /\ taken(k) > 0 => P(taken(k)) <= k - taken(k)
             /\ taken(k) < m => k - taken(k) < P(taken(k) + 1)
  <2>1. taken(k) \in 0..m /\ Splits(k, taken(k))
    BY <1>4
  <2>2. taken(k) > 0 => taken(k) \in 1..m /\ P(taken(k)) \in 1..n + 1
                        /\ P(taken(k)) <= k - taken(k)
    BY <1>0, <1>1, <2>1 DEF slot
  <2>3. taken(k) < m => /\ taken(k) + 1 \in 1..m
                        /\ P(taken(k) + 1) \in 1..n + 1
                        /\ k - taken(k) < P(taken(k) + 1)
    <3> SUFFICES ASSUME taken(k) < m
                 PROVE  /\ taken(k) + 1 \in 1..m
                        /\ P(taken(k) + 1) \in 1..n + 1
                        /\ k - taken(k) < P(taken(k) + 1)
      OBVIOUS
    <3>1. taken(k) + 1 \in 1..m /\ slot(taken(k) + 1) \in 1..n + m
      BY <1>0, <1>3, <2>1
    <3>2. slot(taken(k) + 1) > k
      BY <1>0, <1>6, <2>1, <3>1
    <3>3. P(taken(k) + 1) \in 1..n + 1
      BY <1>1, <3>1
    <3> QED
      BY <1>0, <2>1, <3>1, <3>2, <3>3 DEF slot
  <2>4. k - taken(k) \in 1..n
    BY <1>0, <2>1, <2>2, <2>3
  <2> QED
    BY <1>6, <2>2, <2>3, <2>4
<1>7. ASSUME NEW k \in 1..n + m, NEW l \in 1..n + m, k < l
      PROVE  taken(k) <= taken(l)
  <2>1. taken(k) \in 0..m /\ Splits(k, taken(k)) /\ taken(l) \in 0..m /\ Splits(l, taken(l))
    BY <1>4
  <2> SUFFICES ASSUME taken(l) < taken(k) PROVE FALSE
    BY <1>0, <2>1
  <2>2. taken(l) + 1 \in 1..m /\ taken(k) \in 1..m
    BY <1>0, <2>1
  <2>3. slot(taken(l) + 1) >= l /\ slot(taken(k)) < k
    BY <1>0, <2>1
  <2>4. slot(taken(l) + 1) <= slot(taken(k))
    BY <1>0, <1>3, <2>1, <2>2
  <2> QED
    BY <1>0, <1>3, <1>7, <2>2, <2>3, <2>4
<1>8. r \in Seq(Events) /\ Len(r) = n + m /\ \A k \in 1..n + m : r[k] \in Events
  <2>1. \A k \in 1..n + m : place(k) \in Events
    <3> SUFFICES ASSUME NEW k \in 1..n + m PROVE place(k) \in Events
      OBVIOUS
    <3> QED
      BY <1>0, <1>5, <1>6
  <2> HIDE DEF place
  <2>2. r \in Seq(Events) /\ n + m \in Nat /\ DOMAIN r = 1..n + m
    BY <1>0, <2>1, IsASeq
  <2>3. Len(r) = n + m
    BY <2>2, LenProperties
  <2> QED
    BY <2>1, <2>2, <2>3
<1> HIDE DEF r
<1>9. Sorted(r)
  <2> SUFFICES ASSUME NEW k \in 1..n + m, NEW l \in 1..n + m, k < l
               PROVE  OrdersBefore(r[k], r[l])
    BY <1>8 DEF Sorted
  <2> DEFINE IsAdded(x) == taken(x) < m /\ slot(taken(x) + 1) = x
  <2>0. taken(k) \in 0..m /\ taken(l) \in 0..m /\ taken(k) <= taken(l)
        /\ Splits(k, taken(k)) /\ Splits(l, taken(l))
    BY <1>4, <1>7
  <2>1. CASE IsAdded(k) /\ IsAdded(l)
    <3>1. taken(k) + 1 \in 1..m /\ taken(l) + 1 \in 1..m
          /\ r[k] = added[taken(k) + 1] /\ r[l] = added[taken(l) + 1]
      BY <1>5, <2>1
    <3>2. taken(k) + 1 < taken(l) + 1
      BY <1>3, <2>1, <3>1
    <3> QED
      BY <3>1, <3>2 DEF Sorted
  <2>2. CASE IsAdded(k) /\ ~IsAdded(l)
    <3>1. taken(k) + 1 \in 1..m /\ r[k] = added[taken(k) + 1]
      BY <1>5, <2>2
    <3>2. /\ l - taken(l) \in 1..n /\ r[l] = q[l - taken(l)]
          /\ taken(l) > 0 => P(taken(l)) <= l - taken(l)
      BY <1>6, <2>2
    <3>3. taken(l) >= taken(k) + 1
      BY <1>0, <2>0, <2>2, <3>1
    <3>4. P(taken(k) + 1) <= P(taken(l)) /\ taken(l) \in 1..m
      BY <1>0, <1>1, <1>2, <2>0, <3>1, <3>3
    <3>5. l - taken(l) \in P(taken(k) + 1)..n
      <4>1. P(taken(k) + 1) \in Int /\ P(taken(l)) \in Int /\ taken(l) > 0
        BY <1>0, <1>1, <3>1, <3>4
      <4>2. P(taken(l)) <= l - taken(l)
        BY <3>2, <4>1
      <4> QED
        BY <1>0, <3>2, <3>4, <4>1, <4>2
    <3> QED
      BY <1>1, <3>1, <3>2, <3>5
  <2>3. CASE ~IsAdded(k) /\ IsAdded(l)
    <3>1. taken(l) + 1 \in 1..m /\ r[l] = added[taken(l) + 1]
      BY <1>5, <2>3
    <3>2. /\ k - taken(k) \in 1..n /\ r[k] = q[k - taken(k)]
          /\ taken(k) < m => k - taken(k) < P(taken(k) + 1)
      BY <1>6, <2>3
    <3>3. taken(k) + 1 \in 1..m /\ P(taken(k) + 1) <= P(taken(l) + 1)
      BY <1>0, <1>1, <1>2, <2>0, <3>1
    <3>4. k - taken(k) \in 1..P(taken(l) + 1) - 1
      <4>1. P(taken(k) + 1) \in Int /\ P(taken(l) + 1) \in Int
        BY <1>1, <3>1, <3>3
      <4>2. k - taken(k) \in Int /\ k - taken(k) >= 1 /\ taken(k) < m
        BY <1>0, <2>0, <3>2, <3>3
      <4>3. k - taken(k) < P(taken(k) + 1)
        BY <3>2, <4>2
      <4> QED
        BY <3>3, <4>1, <4>2, <4>3
    <3> QED
      BY <1>1, <3>1, <3>2, <3>4
  <2>4. CASE ~IsAdded(k) /\ ~IsAdded(l)
    <3>1. /\ k - taken(k) \in 1..n /\ r[k] = q[k - taken(k)]
          /\ taken(k) < m => k - taken(k) < P(taken(k) + 1)
      BY <1>6, <2>4
    <3>2. /\ l - taken(l) \in 1..n /\ r[l] = q[l - taken(l)]
          /\ taken(l) > 0 => P(taken(l)) <= l - taken(l)
      BY <1>6, <2>4
    <3>3. k - taken(k) < l - taken(l)
      <4>1. CASE taken(k) = taken(l)
        BY <4>1, <1>0, <2>0
      <4>2. CASE taken(k) < taken(l)
        <5>1. taken(k) + 1 \in 1..m /\ taken(l) \in 1..m
          BY <4>2, <1>0, <2>0
        <5>2. P(taken(k) + 1) <= P(taken(l))
          BY <4>2, <5>1, <1>0, <1>1, <1>2, <2>0
        <5>3. P(taken(k) + 1) \in Int /\ P(taken(l)) \in Int
          BY <5>1, <1>1
        <5>4. taken(k) < m /\ taken(l) > 0 /\ k - taken(k) \in Int /\ l - taken(l) \in Int
          BY <5>1, <1>0, <2>0
        <5>5. k - taken(k) < P(taken(k) + 1) /\ P(taken(l)) <= l - taken(l)
          BY <5>4, <3>1, <3>2
        <5> QED
          BY <5>2, <5>3, <5>4, <5>5
      <4> QED
        BY <4>1, <4>2, <1>0, <2>0
    <3> QED
      BY <3>1, <3>2, <3>3 DEF Sorted
  <2> QED
    BY <2>1, <2>2, <2>3, <2>4
<1>10. Elements(r) = Elements(q) \cup Elements(added)
  <2>1. ASSUME NEW x \in Elements(r) PROVE x \in Elements(q) \cup Elements(added)
    <3>1. PICK k \in 1..n + m : x = r[k]
      BY <1>8, <2>1 DEF Elements
    <3>2. (\E i \in 1..n : x = q[i]) \/ (\E j \in 1..m : x = added[j])
      BY <1>5, <1>6, <3>1
    <3> QED
      BY <3>2 DEF Elements
  <2>2. ASSUME NEW j \in 1..m PROVE added[j] \in Elements(r)
    <3>1. slot(j) \in 1..n + m
      BY <1>3
    <3>2. taken(slot(j)) \in 0..m /\ Splits(slot(j), taken(slot(j)))
      BY <1>4, <3>1
    <3>3. taken(slot(j)) < j
      BY <1>0, <1>3, <3>2
    <3>4. taken(slot(j)) + 1 \in 1..m /\ ~(taken(slot(j)) + 1 < j)
      BY <1>0, <1>3, <3>1, <3>2, <3>3
    <3>5. taken(slot(j)) + 1 = j
      BY <1>0, <3>2, <3>3, <3>4
    <3>6. r[slot(j)] = added[j]
      BY <1>5, <3>1, <3>4, <3>5, <1>0, <3>2
    <3> QED
      BY <1>8, <3>1, <3>6 DEF Elements
  <2>3. ASSUME NEW i \in 1..n PROVE q[i] \in Elements(r)
    <3> DEFINE T == {t \in 0..m : t < m => P(t + 1) > i}
    <3>1. T \subseteq Nat /\ m \in T
      BY <1>0
    <3>2. PICK c \in T : \A y \in T : c <= y
      <4> HIDE DEF T
      <4> QED
        BY <3>1, LeastNatural
    <3>3. c \in 0..m /\ (c < m => P(c + 1) > i)
      BY <3>2
    <3>4. c > 0 => P(c) <= i
      <4> SUFFICES ASSUME c > 0 PROVE P(c) <= i
        OBVIOUS
      <4>1. c - 1 \in 0..m /\ c - 1 < m /\ c \in 1..m /\ (c - 1) + 1 = c
        BY <1>0, <3>3
      <4>2. c - 1 \notin T
        BY <1>0, <3>2, <4>1
      <4>3. ~(P((c - 1) + 1) > i)
        BY <4>1, <4>2
      <4> QED
        BY <1>0, <1>1, <4>1, <4>3
    <3> HIDE DEF T
    <3>5. i + c \in 1..n + m
      BY <1>0, <3>3
    <3>6. taken(i + c) \in 0..m /\ Splits(i + c, taken(i + c))
      BY <1>4, <3>5
    <3>7. ~(taken(i + c) > c)
      <4> SUFFICES ASSUME taken(i + c) > c PROVE FALSE
        OBVIOUS
      <4>1. c + 1 \in 1..m /\ taken(i + c) \in 1..m /\ slot(taken(i + c)) < i + c
        BY <1>0, <3>3, <3>6
      <4>2. slot(c + 1) <= slot(taken(i + c))
        BY <1>0, <1>3, <3>3, <4>1
      <4>3. slot(c + 1) > i + c
        BY <1>0, <1>1, <3>3, <4>1 DEF slot
      <4>4. slot(c + 1) \in Int /\ slot(taken(i + c)) \in Int /\ i + c \in Int
        BY <1>0, <1>3, <3>3, <4>1
      <4> QED
        BY <4>1, <4>2, <4>3, <4>4
    <3>8. ~(taken(i + c) < c)
      <4> SUFFICES ASSUME taken(i + c) < c PROVE FALSE
        OBVIOUS
      <4>1. c \in 1..m /\ taken(i + c) + 1 \in 1..m /\ slot(taken(i + c) + 1) >= i + c
        BY <1>0, <3>3, <3>6
      <4>2. slot(taken(i + c) + 1) <= slot(c)
        BY <1>0, <1>3, <3>3, <3>6, <4>1
      <4>3. slot(c) < i + c
        BY <1>0, <1>1, <3>3, <3>4, <4>1 DEF slot
      <4> QED
        BY <1>0, <1>3, <4>1, <4>2, <4>3
    <3>9. taken(i + c) = c
      BY <1>0, <3>3, <3>6, <3>7, <3>8
    <3>10. ~(c < m /\ slot(c + 1) = i + c)
      BY <1>0, <1>1, <3>3 DEF slot
    <3>11. r[i + c] = q[(i + c) - c] /\ (i + c) - c = i
      BY <1>0, <1>6, <3>3, <3>5, <3>9, <3>10
    <3> QED
      BY <1>8, <3>5, <3>11 DEF Elements
  <2> QED
    BY <2>1, <2>2, <2>3 DEF Elements
<1> QED
  BY <1>a, <1>8, <1>9, <1>10

-----------------------------------------------------------------------------
(* The inductive invariant.                                                *)

LEMMA RequestFields ==
  ASSUME NEW req \in Requests
  PROVE  /\ req.time \in Times /\ req.time \in Int
         /\ req.phase \in Phases /\ req.phase \in Int
         /\ req.target \in Targets
<1>1. req.time \in Times /\ req.phase \in Phases /\ req.target \in Targets
  BY DEF Requests
<1>2. Times \subseteq Int /\ Phases \subseteq Int
  BY AgendaAssumption
<1> QED
  BY <1>1, <1>2

(* A request made into an event keeps its fields. *)
LEMMA FromRequestProperties ==
  ASSUME NEW req \in Requests, NEW id \in Ids, NEW from \in Ids \cup {NoId}
  PROVE  /\ FromRequest(id, req, from) \in Events
         /\ FromRequest(id, req, from).id = id
         /\ FromRequest(id, req, from).time = req.time
         /\ FromRequest(id, req, from).phase = req.phase
BY RequestFields DEF FromRequest, Events

(* Clock values and the completed phase are integers. *)
LEMMA ClockTypes ==
  ASSUME TypeOK
  PROVE  /\ now \in Int /\ lastPhase \in Int /\ lastPhase >= NoPhase
         /\ nextId \in Nat /\ U64Max \in Nat /\ nextId <= U64Max
BY AgendaAssumption DEF TypeOK, NoPhase, Ids

(* A log extended by records that deliver nothing delivers what it did. *)
LEMMA LogWithoutDelivery ==
  ASSUME NEW log \in Seq(Records), NEW new \in Seq(Records), InDeliveryOrder(log),
         \A i \in 1..Len(new) : new[i].action # "Delivered"
  PROVE  /\ log \o new \in Seq(Records)
         /\ DeliveredIn(log \o new) = DeliveredIn(log)
         /\ InDeliveryOrder(log \o new)
<1> DEFINE all == log \o new
<1>0. Len(log) \in Nat /\ Len(new) \in Nat
  BY SequenceIndices
<1>1. /\ all \in Seq(Records)
      /\ Len(all) = Len(log) + Len(new)
      /\ \A i \in 1..Len(log) + Len(new) :
           all[i] = IF i <= Len(log) THEN log[i] ELSE new[i - Len(log)]
  BY ConcatProperties
<1> HIDE DEF all
<1>2. /\ \A i \in 1..Len(log) : i \in 1..Len(all) /\ all[i] = log[i]
      /\ \A i \in 1..Len(all) : all[i].action = "Delivered" => i \in 1..Len(log)
  BY <1>0, <1>1
<1>3. DeliveredIn(all) = DeliveredIn(log)
  BY <1>2 DEF DeliveredIn
<1>4. InDeliveryOrder(all)
  BY <1>2 DEF InDeliveryOrder
<1> QED
  BY <1>1, <1>3, <1>4 DEF all

(* One delivery at the end of the log, after all the earlier ones. *)
LEMMA LogWithDelivery ==
  ASSUME NEW log \in Seq(Records), NEW rec \in Records, rec.action = "Delivered",
         InDeliveryOrder(log),
         \A d \in DeliveredIn(log) : OrdersBefore(d, rec.event)
  PROVE  /\ Append(log, rec) \in Seq(Records)
         /\ DeliveredIn(Append(log, rec)) = DeliveredIn(log) \cup {rec.event}
         /\ InDeliveryOrder(Append(log, rec))
<1> DEFINE all == Append(log, rec)
<1>0. Len(log) \in Nat
  BY SequenceIndices
<1>1. /\ all \in Seq(Records)
      /\ Len(all) = Len(log) + 1
      /\ \A i \in 1..Len(log) : all[i] = log[i]
      /\ all[Len(log) + 1] = rec
  BY AppendProperties
<1> HIDE DEF all
<1>2. 1..Len(all) = 1..Len(log) \cup {Len(log) + 1}
  BY <1>0, <1>1
<1>3. DeliveredIn(all) = DeliveredIn(log) \cup {rec.event}
  BY <1>1, <1>2 DEF DeliveredIn
<1>4. InDeliveryOrder(all)
  <2> SUFFICES ASSUME NEW i \in 1..Len(all), NEW j \in 1..Len(all), i < j,
                      all[i].action = "Delivered", all[j].action = "Delivered"
               PROVE  OrdersBefore(all[i].event, all[j].event)
    BY DEF InDeliveryOrder
  <2>1. i \in 1..Len(log) /\ all[i] = log[i] /\ all[i].event \in DeliveredIn(log)
    BY <1>0, <1>1, <1>2 DEF DeliveredIn
  <2>2. CASE j \in 1..Len(log)
    BY <1>1, <2>1, <2>2 DEF InDeliveryOrder
  <2>3. CASE j = Len(log) + 1
    BY <1>1, <2>1, <2>3
  <2> QED
    BY <1>2, <2>2, <2>3
<1> QED
  BY <1>1, <1>3, <1>4 DEF all

(* Every delivered event is an event. *)
LEMMA DeliveredEvents ==
  ASSUME NEW log \in Seq(Records)
  PROVE  DeliveredIn(log) \subseteq Events
<1>1. \A i \in 1..Len(log) : log[i] \in Records
  BY SequenceIndices
<1> QED
  BY <1>1 DEF DeliveredIn, Records

(* A step that only lets the events of A into the deque. *)
Joined(A) ==
  /\ now' = now
  /\ Elements(pending') = Elements(pending) \cup A
  /\ \A e \in A : e \in Events /\ nextId <= e.id /\ NotInPast(e)
  /\ DeliveredIn(lifecycle') = DeliveredIn(lifecycle)

(* A step that replaces one pending event by the events of A. *)
Replaced(old, A) ==
  /\ now' = now
  /\ old \in Elements(pending)
  /\ Elements(pending') = (Elements(pending) \ {old}) \cup A
  /\ \A e \in A : e \in Events /\ nextId <= e.id /\ NotInPast(e)
  /\ DeliveredIn(lifecycle') = DeliveredIn(lifecycle)

(* What Schedule, SchedulePreordered, Cancel and Reschedule have in common: *)
(* the clock stays, events leave, and only fresh events that are not in the *)
(* past join.                                                               *)
LEMMA AddingPreservesInv ==
  ASSUME AgendaInv, UNCHANGED <<now, lastPhase>>,
         nextId' \in Ids, nextId' >= nextId,
         pending' \in Seq(Events), Sorted(pending'),
         NEW A, Elements(pending') \subseteq Elements(pending) \cup A,
         \A e \in A : e \in Events /\ nextId <= e.id /\ e.id < nextId' /\ NotInPast(e),
         lifecycle' \in Seq(Records), InDeliveryOrder(lifecycle'),
         DeliveredIn(lifecycle') = DeliveredIn(lifecycle),
         counters' \in Counters
  PROVE  AgendaInv'
<1> USE DEF AgendaInv
<1>0. /\ now \in Int /\ nextId \in Nat /\ nextId' \in Int
      /\ Elements(pending) \subseteq Events
      /\ DeliveredIn(lifecycle) \subseteq Events
  BY ClockTypes, SequenceIndices, DeliveredEvents DEF TypeOK, Elements, Ids
<1>1. TypeOK'
  BY DEF TypeOK
<1>2. AgendaSorted' /\ DeliveriesOrdered'
  BY DEF AgendaSorted, DeliveriesOrdered
<1>3. ASSUME NEW e \in Elements(pending')
      PROVE  e.id < nextId' /\ NotInPast(e)'
  <2>1. CASE e \in Elements(pending)
    BY <1>0, <2>1, EventFields DEF NotInPast
  <2>2. CASE e \in A
    BY <2>2 DEF NotInPast
  <2> QED
    BY <2>1, <2>2
<1>4. ASSUME NEW d \in DeliveredIn(lifecycle')
      PROVE  /\ d.id < nextId'
             /\ d.time <= now'
             /\ d.time = now' => d.phase <= lastPhase'
             /\ \A e \in Elements(pending') : OrdersBefore(d, e)
  <2>1. d \in Events /\ d.id \in Int /\ d.time \in Int /\ d.phase \in Int
        /\ d \in DeliveredIn(lifecycle)
    BY <1>0, EventFields
  <2>2. d.id < nextId /\ d.time <= now /\ (d.time = now => d.phase <= lastPhase)
    BY <2>1
  <2>3. ASSUME NEW e \in A PROVE OrdersBefore(d, e)
    <3>1. e.id \in Int /\ e.time \in Int /\ e.phase \in Int
      BY EventFields
    <3>2. e.time >= now /\ (e.time = now => e.phase >= lastPhase) /\ nextId <= e.id
      BY DEF NotInPast
    <3>3. lastPhase \in Int
      BY ClockTypes
    <3> QED
      BY <1>0, <2>1, <2>2, <3>1, <3>2, <3>3 DEF OrdersBefore
  <2> QED
    BY <1>0, <2>1, <2>2, <2>3
<1>5. \A e \in Elements(pending') : e.id < nextId' /\ NotInPast(e)'
  BY <1>3
<1>6. (\A d \in DeliveredIn(lifecycle) :
         /\ d.id < nextId
         /\ d.time <= now
         /\ d.time = now => d.phase <= lastPhase
         /\ \A e \in Elements(pending) : OrdersBefore(d, e))'
  BY <1>4
<1> QED
  BY <1>1, <1>2, <1>5, <1>6

-----------------------------------------------------------------------------
(* Each action keeps the invariant.                                        *)

(* Facts about the pending events the action lemmas share. *)
LEMMA PendingFacts ==
  ASSUME AgendaInv
  PROVE  /\ pending \in Seq(Events) /\ Sorted(pending) /\ Len(pending) \in Nat
         /\ Elements(pending) \subseteq Events
         /\ \A i \in 1..Len(pending) : pending[i] \in Events /\ pending[i].id < nextId
         /\ lifecycle \in Seq(Records) /\ InDeliveryOrder(lifecycle)
         /\ DeliveredIn(lifecycle) \subseteq Events
         /\ nextId \in Ids /\ nextId \in Nat
BY SequenceIndices, DeliveredEvents, ClockTypes
   DEF AgendaInv, AgendaSorted, DeliveriesOrdered, TypeOK, Elements

LEMMA CounterTypes ==
  ASSUME NEW c \in Counters
  PROVE  /\ \A name \in CounterNames, n \in Nat : Count(c, name, n) \in Counters
         /\ \A q \in Seq(Events) : Peak(c, q) \in Counters
<1>1. \A name \in CounterNames : c[name] \in Nat
  BY DEF Counters
<1>2. \A name \in CounterNames, n \in Nat : Count(c, name, n) \in Counters
  BY <1>1 DEF Counters, Count
<1>3. \A q \in Seq(Events) : Len(q) \in Nat
  BY SequenceIndices
<1>4. \A q \in Seq(Events) : Peak(c, q) \in Counters
  BY <1>1, <1>3 DEF Counters, CounterNames, Peak
<1> QED
  BY <1>2, <1>4

(* An event made from an accepted request with a fresh identity may join. *)
LEMMA AcceptedRequest ==
  ASSUME AgendaInv, NEW req \in Requests, ~Refuses(req),
         NEW id \in Ids, NEW from \in Ids \cup {NoId}
  PROVE  /\ FromRequest(id, req, from) \in Events
         /\ NotInPast(FromRequest(id, req, from))
         /\ Scheduled(FromRequest(id, req, from)) \in Records
<1>1. now \in Int /\ lastPhase \in Int /\ lastPhase >= NoPhase
  BY ClockTypes DEF AgendaInv
<1>2. Phases \subseteq 0..4
  BY AgendaAssumption
<1>3. req.time >= now /\ (req.time = now => req.phase >= lastPhase)
  BY <1>1, <1>2, RequestFields DEF Refuses, NoPhase
<1>4. FromRequest(id, req, from) \in Events
  BY FromRequestProperties
<1>5. NotInPast(FromRequest(id, req, from))
  BY <1>3, FromRequestProperties DEF NotInPast
<1>6. Scheduled(FromRequest(id, req, from)) \in Records
  BY <1>4 DEF Scheduled, Records, Actions
<1> QED
  BY <1>4, <1>5, <1>6

LEMMA SchedulePreservesInv ==
  ASSUME AgendaInv, NEW req \in Requests, Schedule(req)
  PROVE  AgendaInv' /\ \E A : Joined(A)
<1> DEFINE e == FromRequest(nextId, req, NoId)
           q == Inserted(pending, e)
           A == {e}
<1>0. nextId < U64Max /\ nextId' = nextId + 1 /\ U64Max \in Nat
  BY AgendaAssumption DEF Schedule
<1>1. e \in Events /\ e.id = nextId /\ NotInPast(e) /\ Scheduled(e) \in Records
  <2>1. ~Refuses(req) /\ nextId \in Ids
    BY PendingFacts DEF Schedule
  <2> QED
    BY <2>1, AcceptedRequest, FromRequestProperties
<1>2. pending' = q /\ lifecycle' = Append(lifecycle, Scheduled(e))
      /\ counters' = Peak(Count(counters, "scheduled", 1), q)
      /\ UNCHANGED <<now, lastPhase>>
  BY DEF Schedule
<1> HIDE DEF e
<1>3. /\ q \in Seq(Events) /\ Sorted(q)
      /\ Elements(q) = Elements(pending) \cup {e}
  <2>1. \A i \in 1..Len(pending) : pending[i].id # e.id
    BY <1>1, PendingFacts, EventFields
  <2> QED
    BY <1>1, <2>1, PendingFacts, InsertedProperties
<1> HIDE DEF q
<1>4. /\ lifecycle' \in Seq(Records) /\ InDeliveryOrder(lifecycle')
      /\ DeliveredIn(lifecycle') = DeliveredIn(lifecycle)
  <2>1. lifecycle' = lifecycle \o <<Scheduled(e)>>
    BY <1>1, <1>2, PendingFacts, AppendIsConcat
  <2>2. <<Scheduled(e)>> \in Seq(Records)
        /\ \A i \in 1..Len(<<Scheduled(e)>>) : <<Scheduled(e)>>[i].action # "Delivered"
    BY <1>1 DEF Scheduled
  <2> QED
    BY <2>1, <2>2, PendingFacts, LogWithoutDelivery
<1>5. counters' \in Counters
  <2>1. counters \in Counters
    BY DEF AgendaInv, TypeOK
  <2>2. Count(counters, "scheduled", 1) \in Counters
    BY <2>1, CounterTypes DEF CounterNames
  <2> QED
    BY <1>2, <1>3, <2>2, CounterTypes
<1>6. nextId' \in Ids /\ nextId' >= nextId
  BY <1>0, PendingFacts DEF Ids
<1>7. \A x \in A : x \in Events /\ nextId <= x.id /\ x.id < nextId' /\ NotInPast(x)
  BY <1>0, <1>1, PendingFacts
<1>8. Elements(pending') \subseteq Elements(pending) \cup A
      /\ pending' \in Seq(Events) /\ Sorted(pending')
  BY <1>2, <1>3
<1>9. Joined(A)
  BY <1>2, <1>3, <1>4, <1>7 DEF Joined
<1> HIDE DEF q, A
<1>10. AgendaInv'
  BY <1>2, <1>4, <1>5, <1>6, <1>7, <1>8, AddingPreservesInv
<1> QED
  BY <1>9, <1>10

(* The events of a preordered trace: fresh, consecutive, sorted, and merged *)
(* into the deque without disturbing its order.                             *)
LEMMA PreorderedFacts ==
  ASSUME AgendaInv, NEW n \in 1..MaxTrace, NEW reqs \in [1..n -> Requests],
         SchedulePreordered(reqs)
  PROVE  LET added == [i \in DOMAIN reqs |-> FromRequest(nextId + i - 1, reqs[i], NoId)]
             new == [i \in DOMAIN reqs |-> Scheduled(added[i])]
             q == Merged(pending, added)
         IN /\ n \in Nat /\ U64Max \in Nat /\ nextId \in Nat
            /\ nextId + n <= U64Max /\ nextId' = nextId + n
            /\ \A i \in 1..n : /\ added[i] \in Events /\ added[i].id = nextId + i - 1
                               /\ NotInPast(added[i])
                               /\ new[i] = Scheduled(added[i])
            /\ pending' = q /\ lifecycle' = lifecycle \o new
            /\ counters' = Peak(Count(Count(counters, "scheduled", n), "preordered", n), q)
            /\ UNCHANGED <<now, lastPhase>>
            /\ added \in Seq(Events) /\ Len(added) = n
            /\ new \in Seq(Records) /\ Len(new) = n
            /\ \A i \in 1..n : new[i].action # "Delivered"
            /\ q \in Seq(Events) /\ Sorted(q) /\ Len(q) = Len(pending) + n
            /\ Elements(q) = Elements(pending) \cup Elements(added)
<1> DEFINE added == [i \in DOMAIN reqs |-> FromRequest(nextId + i - 1, reqs[i], NoId)]
           new == [i \in DOMAIN reqs |-> Scheduled(added[i])]
           q == Merged(pending, added)
<1>0. /\ n \in Nat /\ DOMAIN reqs = 1..n /\ Len(reqs) = n
      /\ U64Max \in Nat /\ nextId + n <= U64Max /\ nextId' = nextId + n
      /\ nextId \in Nat
      /\ \A i \in 1..n : ~Refuses(reqs[i])
      /\ \A i \in 1..n : i > 1 => ~RequestAfter(reqs[i - 1], reqs[i])
  <2>1. n \in Nat /\ DOMAIN reqs = 1..n
    BY AgendaAssumption
  <2>2. reqs \in Seq(Requests) /\ Len(reqs) = n
    BY <2>1, LenProperties, IsASeq
  <2> QED
    BY <2>1, <2>2, AgendaAssumption, PendingFacts DEF SchedulePreordered, HasRoom
<1>1. ASSUME NEW i \in 1..n
      PROVE  /\ added[i] \in Events /\ added[i].id = nextId + i - 1
             /\ added[i].time = reqs[i].time /\ added[i].phase = reqs[i].phase
             /\ NotInPast(added[i]) /\ Scheduled(added[i]) \in Records
  <2>1. nextId + i - 1 \in Ids /\ reqs[i] \in Requests /\ ~Refuses(reqs[i])
    BY <1>0 DEF Ids
  <2>2. added[i] = FromRequest(nextId + i - 1, reqs[i], NoId)
    BY <1>0
  <2> QED
    BY <2>1, <2>2, AcceptedRequest, FromRequestProperties
<1>2. /\ pending' = q /\ lifecycle' = lifecycle \o new
      /\ counters' = Peak(Count(Count(counters, "scheduled", n), "preordered", n), q)
      /\ UNCHANGED <<now, lastPhase>>
  BY <1>0 DEF SchedulePreordered
<1>3. added \in Seq(Events) /\ Len(added) = n
  <2> HIDE DEF added
  <2>1. added = [i \in 1..n |-> added[i]]
    BY <1>0 DEF added
  <2>2. added \in [1..n -> Events]
    BY <1>1, <2>1
  <2> QED
    BY <1>0, <2>2, LenProperties, IsASeq
<1>4. /\ new \in Seq(Records) /\ Len(new) = n
      /\ \A i \in 1..n : new[i].action # "Delivered"
  <2> HIDE DEF added
  <2>1. \A i \in 1..n : new[i] = Scheduled(added[i])
    BY <1>0
  <2>2. new \in [1..n -> Records]
    BY <1>0, <1>1
  <2>3. new \in Seq(Records) /\ Len(new) = n
    BY <1>0, <2>2, LenProperties, IsASeq
  <2> QED
    BY <2>1, <2>3 DEF Scheduled
<1> HIDE DEF added, new
<1>5. Sorted(added)
  <2> DEFINE T(i) == {j \in i + 1..n : RequestAfter(reqs[i], reqs[j])}
  <2>0. \A i \in 1..n : /\ reqs[i].time \in Int /\ reqs[i].phase \in Int
    BY RequestFields
  <2>1. ASSUME NEW i \in 1..n PROVE T(i) = {}
    <3> SUFFICES ASSUME T(i) # {} PROVE FALSE
      OBVIOUS
    <3>1. T(i) \subseteq Nat
      BY <1>0
    <3>2. PICK j \in T(i) : \A y \in T(i) : j <= y
      <4> HIDE DEF T
      <4> QED
        BY <3>1, LeastNatural
    <3>3. j \in i + 1..n /\ j > 1 /\ j \in 1..n /\ j - 1 \in 1..n /\ j - 1 >= i
          /\ RequestAfter(reqs[i], reqs[j])
      BY <1>0, <3>2
    <3>4. ~RequestAfter(reqs[j - 1], reqs[j])
      BY <1>0, <3>3
    <3>5. j - 1 # i
      BY <3>3, <3>4
    <3>6. j - 1 \in i + 1..n /\ j - 1 \notin T(i)
      BY <1>0, <3>2, <3>3, <3>5
    <3>7. ~RequestAfter(reqs[i], reqs[j - 1])
      BY <3>6
    <3> QED
      BY <2>0, <3>3, <3>4, <3>7 DEF RequestAfter
  <2>2. ASSUME NEW i \in 1..n, NEW j \in 1..n, i < j
        PROVE  OrdersBefore(added[i], added[j])
    <3>1. j \in i + 1..n
      BY <1>0, <2>2
    <3>2. ~RequestAfter(reqs[i], reqs[j])
      BY <2>1, <3>1
    <3>3. added[i].id < added[j].id
      BY <1>0, <1>1, <2>2
    <3>4. /\ added[i].time = reqs[i].time /\ added[i].phase = reqs[i].phase
          /\ added[j].time = reqs[j].time /\ added[j].phase = reqs[j].phase
      BY <1>1
    <3> QED
      BY <2>0, <3>2, <3>3, <3>4 DEF RequestAfter, OrdersBefore
  <2> QED
    BY <1>3, <2>2 DEF Sorted
<1>6. /\ q \in Seq(Events) /\ Sorted(q) /\ Len(q) = Len(pending) + n
      /\ Elements(q) = Elements(pending) \cup Elements(added)
  <2>1. \A i \in 1..Len(pending), j \in 1..Len(added) : pending[i].id # added[j].id
    <3>1. \A i \in 1..Len(pending) : pending[i].id < nextId /\ pending[i].id \in Int
      BY PendingFacts, EventFields
    <3> QED
      BY <1>0, <1>1, <1>3, <3>1
  <2> QED
    BY <1>3, <1>5, <2>1, PendingFacts, MergedProperties
<1> HIDE DEF q
<1>7. \A i \in 1..n : new[i] = Scheduled(added[i])
  BY <1>0 DEF new
<1> QED
  BY <1>0, <1>1, <1>2, <1>3, <1>4, <1>6, <1>7 DEF added, new, q

LEMMA SchedulePreorderedPreservesInv ==
  ASSUME AgendaInv, NEW n \in 1..MaxTrace, NEW reqs \in [1..n -> Requests],
         SchedulePreordered(reqs)
  PROVE  AgendaInv' /\ \E A : Joined(A)
<1> DEFINE added == [i \in DOMAIN reqs |-> FromRequest(nextId + i - 1, reqs[i], NoId)]
           new == [i \in DOMAIN reqs |-> Scheduled(added[i])]
           q == Merged(pending, added)
<1>1. /\ n \in Nat /\ U64Max \in Nat /\ nextId \in Nat
      /\ nextId + n <= U64Max /\ nextId' = nextId + n
      /\ \A i \in 1..n : /\ added[i] \in Events /\ added[i].id = nextId + i - 1
                         /\ NotInPast(added[i])
  BY PreorderedFacts
<1>2. /\ pending' = q /\ lifecycle' = lifecycle \o new
      /\ counters' = Peak(Count(Count(counters, "scheduled", n), "preordered", n), q)
      /\ UNCHANGED <<now, lastPhase>>
  BY PreorderedFacts
<1>3. added \in Seq(Events) /\ Len(added) = n
  BY PreorderedFacts
<1>4. /\ new \in Seq(Records) /\ Len(new) = n
      /\ \A i \in 1..n : new[i].action # "Delivered"
  BY PreorderedFacts
<1>6. /\ q \in Seq(Events) /\ Sorted(q)
      /\ Elements(q) = Elements(pending) \cup Elements(added)
  BY PreorderedFacts
<1> HIDE DEF added, new, q
<1>7. /\ lifecycle' \in Seq(Records) /\ InDeliveryOrder(lifecycle')
      /\ DeliveredIn(lifecycle') = DeliveredIn(lifecycle)
  BY <1>2, <1>4, PendingFacts, LogWithoutDelivery
<1>8. counters' \in Counters
  <2>1. counters \in Counters
    BY DEF AgendaInv, TypeOK
  <2>2. Count(counters, "scheduled", n) \in Counters
    BY <1>1, <2>1, CounterTypes DEF CounterNames
  <2>3. Count(Count(counters, "scheduled", n), "preordered", n) \in Counters
    BY <1>1, <2>2, CounterTypes DEF CounterNames
  <2> QED
    BY <1>2, <1>6, <2>3, CounterTypes
<1>9. nextId' \in Ids /\ nextId' >= nextId
  BY <1>1 DEF Ids
<1>10. \A x \in Elements(added) :
         x \in Events /\ nextId <= x.id /\ x.id < nextId' /\ NotInPast(x)
  BY <1>1, <1>3 DEF Elements
<1>11. Joined(Elements(added))
  BY <1>2, <1>6, <1>7, <1>10 DEF Joined
<1>12. AgendaInv'
  BY <1>2, <1>6, <1>7, <1>8, <1>9, <1>10, AddingPreservesInv
<1> QED
  BY <1>11, <1>12

LEMMA CancelPreservesInv ==
  ASSUME AgendaInv, NEW id \in Ids, Cancel(id)
  PROVE  AgendaInv' /\ \E old : Replaced(old, {})
<1>1. PICK i \in DOMAIN pending :
        /\ pending' = Without(pending, i)
        /\ lifecycle' = Append(lifecycle, [event |-> pending[i], action |-> "Canceled",
                                           related |-> NoId])
        /\ counters' = Count(counters, "canceled", 1)
        /\ UNCHANGED <<now, lastPhase, nextId>>
  BY DEF Cancel
<1> DEFINE A == {}
           rec == [event |-> pending[i], action |-> "Canceled", related |-> NoId]
<1>2. i \in 1..Len(pending) /\ pending[i] \in Events
  BY <1>1, PendingFacts, SequenceIndices
<1>3. /\ pending' \in Seq(Events) /\ Sorted(pending')
      /\ Elements(pending') = Elements(pending) \ {pending[i]}
      /\ Elements(pending') \subseteq Elements(pending) \cup A
  BY <1>1, <1>2, PendingFacts, WithoutProperties
<1>4. /\ lifecycle' \in Seq(Records) /\ InDeliveryOrder(lifecycle')
      /\ DeliveredIn(lifecycle') = DeliveredIn(lifecycle)
  <2>1. rec \in Records /\ rec.action # "Delivered"
    BY <1>2 DEF Records, Actions
  <2> HIDE DEF rec
  <2>2. lifecycle' = lifecycle \o <<rec>>
    BY <1>1, <2>1, PendingFacts, AppendIsConcat DEF rec
  <2>3. <<rec>> \in Seq(Records)
        /\ \A k \in 1..Len(<<rec>>) : <<rec>>[k].action # "Delivered"
    BY <2>1
  <2> QED
    BY <2>2, <2>3, PendingFacts, LogWithoutDelivery
<1>5. counters' \in Counters
  <2>1. counters \in Counters
    BY DEF AgendaInv, TypeOK
  <2> QED
    BY <1>1, <2>1, CounterTypes DEF CounterNames
<1>6. nextId' \in Ids /\ nextId' >= nextId
  BY <1>1, PendingFacts
<1>7. \A x \in A : x \in Events /\ nextId <= x.id /\ x.id < nextId' /\ NotInPast(x)
  OBVIOUS
<1>8. Replaced(pending[i], A)
  BY <1>1, <1>2, <1>3, <1>4, <1>7 DEF Replaced, Elements
<1>9. \E old : Replaced(old, {})
  BY <1>8
<1> HIDE DEF A
<1>10. AgendaInv'
  BY <1>1, <1>3, <1>4, <1>5, <1>6, <1>7, AddingPreservesInv
<1> QED
  BY <1>9, <1>10

LEMMA ReschedulePreservesInv ==
  ASSUME AgendaInv, NEW id \in Ids, NEW req \in Requests, Reschedule(id, req)
  PROVE  AgendaInv' /\ \E old, new : Replaced(old, {new})
<1> DEFINE e == FromRequest(nextId, req, id)
           A == {e}
<1>1. PICK i \in DOMAIN pending :
        /\ pending' = Inserted(Without(pending, i), e)
        /\ lifecycle' = lifecycle \o
             <<[event |-> pending[i], action |-> "Rescheduled", related |-> nextId],
               [event |-> e, action |-> "Scheduled", related |-> id]>>
        /\ counters' = CountRescheduled(counters, Inserted(Without(pending, i), e))
        /\ nextId < U64Max /\ nextId' = nextId + 1 /\ ~Refuses(req)
        /\ UNCHANGED <<now, lastPhase>>
  BY DEF Reschedule
<1> DEFINE w == Without(pending, i)
           q == Inserted(w, e)
           old == [event |-> pending[i], action |-> "Rescheduled", related |-> nextId]
           new == [event |-> e, action |-> "Scheduled", related |-> id]
<1>0. nextId \in Ids /\ nextId \in Nat /\ U64Max \in Nat
  BY AgendaAssumption, PendingFacts
<1>2. i \in 1..Len(pending) /\ pending[i] \in Events
  BY <1>1, PendingFacts, SequenceIndices
<1>3. e \in Events /\ e.id = nextId /\ NotInPast(e)
  BY <1>0, <1>1, AcceptedRequest, FromRequestProperties
<1> HIDE DEF e
<1>4. w \in Seq(Events) /\ Sorted(w) /\ Elements(w) = Elements(pending) \ {pending[i]}
  BY <1>2, PendingFacts, WithoutProperties
<1> HIDE DEF w
<1>5. /\ q \in Seq(Events) /\ Sorted(q)
      /\ Elements(q) = (Elements(pending) \ {pending[i]}) \cup A
  <2>1. \A k \in 1..Len(w) : w[k] \in Elements(pending)
    BY <1>4 DEF Elements
  <2>2. \A x \in Elements(pending) : x.id < nextId /\ x.id \in Int
    BY PendingFacts, EventFields DEF AgendaInv
  <2>3. \A k \in 1..Len(w) : w[k].id # e.id
    BY <1>0, <1>3, <2>1, <2>2
  <2> QED
    BY <1>3, <1>4, <2>3, InsertedProperties
<1>6. /\ lifecycle' \in Seq(Records) /\ InDeliveryOrder(lifecycle')
      /\ DeliveredIn(lifecycle') = DeliveredIn(lifecycle)
  <2>1. old \in Records /\ new \in Records
        /\ old.action # "Delivered" /\ new.action # "Delivered"
    BY <1>0, <1>2, <1>3 DEF Records, Actions
  <2> HIDE DEF old, new
  <2>2. /\ <<old, new>> \in Seq(Records)
        /\ \A k \in 1..Len(<<old, new>>) : <<old, new>>[k].action # "Delivered"
    BY <2>1
  <2>3. lifecycle' = lifecycle \o <<old, new>>
    BY <1>1 DEF old, new
  <2> QED
    BY <2>2, <2>3, PendingFacts, LogWithoutDelivery
<1>7. counters' \in Counters
  <2>1. counters \in Counters
    BY DEF AgendaInv, TypeOK
  <2>2. Count(counters, "scheduled", 1) \in Counters
    BY <2>1, CounterTypes DEF CounterNames
  <2>3. Count(Count(counters, "scheduled", 1), "rescheduled", 1) \in Counters
    BY <2>2, CounterTypes DEF CounterNames
  <2>4. counters' = Peak(Count(Count(counters, "scheduled", 1), "rescheduled", 1), q)
    BY <1>1 DEF CountRescheduled, w
  <2> QED
    BY <1>5, <2>3, <2>4, CounterTypes
<1>8. nextId' \in Ids /\ nextId' >= nextId
  BY <1>0, <1>1 DEF Ids
<1>9. \A x \in A : x \in Events /\ nextId <= x.id /\ x.id < nextId' /\ NotInPast(x)
  BY <1>0, <1>1, <1>3
<1>10. pending' \in Seq(Events) /\ Sorted(pending')
       /\ Elements(pending') \subseteq Elements(pending) \cup A
  BY <1>1, <1>5 DEF w
<1>11. Replaced(pending[i], A)
  <2>1. pending[i] \in Elements(pending)
    BY <1>2 DEF Elements
  <2>2. Elements(pending') = (Elements(pending) \ {pending[i]}) \cup A
    BY <1>1, <1>5 DEF w
  <2> QED
    BY <1>1, <1>6, <1>9, <2>1, <2>2 DEF Replaced
<1>12. \E x, y : Replaced(x, {y})
  BY <1>11
<1> HIDE DEF A
<1>13. AgendaInv'
  BY <1>1, <1>6, <1>7, <1>8, <1>9, <1>10, AddingPreservesInv
<1> QED
  BY <1>12, <1>13

(* The front of a sorted deque is its least event. *)
LEMMA HeadIsLeast ==
  ASSUME NEW q \in Seq(Events), Sorted(q), q # <<>>
  PROVE  /\ Head(q) \in Events /\ Head(q) \in Elements(q)
         /\ Tail(q) \in Seq(Events) /\ Sorted(Tail(q))
         /\ Elements(Tail(q)) = Elements(q) \ {Head(q)}
         /\ \A e \in Elements(q) : e = Head(q) \/ OrdersBefore(Head(q), e)
<1>0. /\ Len(q) \in Nat /\ Len(q) > 0
      /\ \A i \in 1..Len(q) : q[i] \in Events
  BY SequenceIndices, EmptySeq
<1>1. Head(q) = q[1] /\ q[1] \in Events
  BY <1>0
<1>2. /\ Tail(q) \in Seq(Events) /\ Len(Tail(q)) = Len(q) - 1
      /\ \A i \in 1..Len(q) - 1 : Tail(q)[i] = q[i + 1]
  BY HeadTailProperties
<1>3. Sorted(Tail(q))
  BY <1>0, <1>2 DEF Sorted
<1>4. \A e \in Elements(q) : e = Head(q) \/ OrdersBefore(Head(q), e)
  BY <1>0, <1>1 DEF Sorted, Elements
<1>5. Elements(Tail(q)) = Elements(q) \ {Head(q)}
  <2>1. \A i \in 2..Len(q) : q[i] # q[1]
    BY <1>0, OrdersBeforeIsStrictOrder DEF Sorted
  <2>2. ASSUME NEW x \in Elements(Tail(q)) PROVE x \in Elements(q) \ {Head(q)}
    <3>1. PICK k \in 1..Len(q) - 1 : x = q[k + 1]
      BY <1>2, <2>2 DEF Elements
    <3>2. k + 1 \in 2..Len(q) /\ k + 1 \in 1..Len(q)
      BY <1>0, <3>1
    <3> QED
      BY <1>1, <2>1, <3>1, <3>2 DEF Elements
  <2>3. ASSUME NEW x \in Elements(q), x # Head(q) PROVE x \in Elements(Tail(q))
    <3>1. PICK k \in 1..Len(q) : x = q[k]
      BY <2>3 DEF Elements
    <3>2. k - 1 \in 1..Len(q) - 1 /\ (k - 1) + 1 = k
      BY <1>0, <1>1, <2>3, <3>1
    <3>3. x = Tail(q)[k - 1]
      BY <1>2, <3>1, <3>2
    <3> QED
      BY <1>2, <3>2, <3>3 DEF Elements
  <2> QED
    BY <2>2, <2>3
<1>6. Head(q) \in Elements(q)
  BY <1>0, <1>1 DEF Elements
<1> QED
  BY <1>1, <1>2, <1>3, <1>4, <1>5, <1>6

LEMMA DeliverNextPreservesInv ==
  ASSUME AgendaInv, DeliverNext
  PROVE  AgendaInv' /\ \E e \in Elements(pending) :
           /\ now' = e.time /\ e.time >= now
           /\ Elements(pending') = Elements(pending) \ {e}
           /\ \A x \in Elements(pending) : x = e \/ OrdersBefore(e, x)
           /\ \A d \in DeliveredIn(lifecycle) : OrdersBefore(d, e)
           /\ DeliveredIn(lifecycle') = DeliveredIn(lifecycle) \cup {e}
<1> DEFINE e == Head(pending)
           rec == [event |-> e, action |-> "Delivered", related |-> NoId]
<1>1. /\ pending # <<>> /\ now' = e.time /\ lastPhase' = e.phase
      /\ pending' = Tail(pending) /\ lifecycle' = Append(lifecycle, rec)
      /\ counters' = IF counters["delivered"] < U64Max
                     THEN Count(counters, "delivered", 1) ELSE counters
      /\ nextId' = nextId
  BY DEF DeliverNext, Completed
<1>2. /\ e \in Events /\ e \in Elements(pending)
      /\ pending' \in Seq(Events) /\ Sorted(pending')
      /\ Elements(pending') = Elements(pending) \ {e}
      /\ \A x \in Elements(pending) : x = e \/ OrdersBefore(e, x)
  BY <1>1, PendingFacts, HeadIsLeast
<1> HIDE DEF e
<1>3. /\ e.time \in Times /\ e.time \in Int /\ e.phase \in Phases /\ e.phase \in Int
      /\ e.id < nextId /\ e.time >= now
  BY <1>2, EventFields DEF AgendaInv, NotInPast
<1>4. \A d \in DeliveredIn(lifecycle) : OrdersBefore(d, e)
  BY <1>2 DEF AgendaInv
<1>5. /\ lifecycle' \in Seq(Records) /\ InDeliveryOrder(lifecycle')
      /\ DeliveredIn(lifecycle') = DeliveredIn(lifecycle) \cup {e}
  <2>1. rec \in Records /\ rec.action = "Delivered" /\ rec.event = e
    BY <1>2 DEF Records, Actions
  <2> HIDE DEF rec
  <2> QED
    BY <1>1, <1>4, <2>1, PendingFacts, LogWithDelivery
<1>6. counters' \in Counters
  <2>1. counters \in Counters
    BY DEF AgendaInv, TypeOK
  <2>2. Count(counters, "delivered", 1) \in Counters
    BY <2>1, CounterTypes DEF CounterNames
  <2> QED
    BY <1>1, <2>1, <2>2
<1>7. TypeOK'
  BY <1>1, <1>2, <1>3, <1>5, <1>6, PendingFacts DEF TypeOK
<1>8. \A x \in Elements(pending') : x.id < nextId' /\ NotInPast(x)'
  <2> SUFFICES ASSUME NEW x \in Elements(pending') PROVE x.id < nextId' /\ NotInPast(x)'
    OBVIOUS
  <2>1. x \in Elements(pending) /\ x \in Events /\ OrdersBefore(e, x)
    BY <1>2, PendingFacts
  <2>2. x.time \in Int /\ x.phase \in Int /\ x.id < nextId
    BY <2>1, EventFields DEF AgendaInv
  <2>3. x.time >= e.time /\ (x.time = e.time => x.phase >= e.phase)
    BY <1>3, <2>1, <2>2 DEF OrdersBefore
  <2> QED
    BY <1>1, <2>2, <2>3 DEF NotInPast
<1>9. ASSUME NEW d \in DeliveredIn(lifecycle')
      PROVE  /\ d.id < nextId'
             /\ d.time <= now'
             /\ d.time = now' => d.phase <= lastPhase'
             /\ \A x \in Elements(pending') : OrdersBefore(d, x)
  <2>1. CASE d = e
    BY <1>1, <1>2, <1>3, <2>1
  <2>2. CASE d \in DeliveredIn(lifecycle)
    <3>1. d \in Events /\ d.time \in Int /\ d.phase \in Int
      BY <2>2, PendingFacts, EventFields
    <3>2. OrdersBefore(d, e) /\ d.id < nextId
          /\ \A x \in Elements(pending) : OrdersBefore(d, x)
      BY <1>4, <2>2 DEF AgendaInv
    <3>3. d.time <= e.time /\ (d.time = e.time => d.phase <= e.phase)
      BY <1>3, <3>1, <3>2 DEF OrdersBefore
    <3> QED
      BY <1>1, <1>2, <3>2, <3>3
  <2> QED
    BY <1>5, <2>1, <2>2
<1>10. AgendaInv'
  BY <1>2, <1>5, <1>7, <1>8, <1>9 DEF AgendaInv, AgendaSorted, DeliveriesOrdered
<1> QED
  BY <1>1, <1>2, <1>3, <1>4, <1>5, <1>10

LEMMA AdvanceTimePreservesInv ==
  ASSUME AgendaInv, NEW t \in Times, AdvanceTime(t)
  PROVE  AgendaInv' /\ \A e \in Elements(pending) : e.time >= t
<1>1. /\ t > now /\ now' = t /\ lastPhase' = NoPhase
      /\ UNCHANGED <<nextId, pending, lifecycle, counters>>
      /\ pending # <<>> => ~(Head(pending).time < t)
  BY DEF AdvanceTime, WouldSkip
<1>2. t \in Int /\ now \in Int
  BY AgendaAssumption, ClockTypes DEF AgendaInv
<1>3. ASSUME NEW e \in Elements(pending) PROVE e.time >= t
  <2>1. pending # <<>>
    BY EmptySeq DEF Elements
  <2>2. Head(pending) \in Events /\ (e = Head(pending) \/ OrdersBefore(Head(pending), e))
    BY <2>1, PendingFacts, HeadIsLeast
  <2>3. e \in Events
    BY PendingFacts
  <2>4. Head(pending).time \in Int /\ e.time \in Int
    BY <2>2, <2>3, EventFields
  <2> QED
    BY <1>1, <1>2, <2>1, <2>2, <2>4 DEF OrdersBefore
<1>4. TypeOK'
  BY <1>1 DEF AgendaInv, TypeOK
<1>5. \A e \in Elements(pending) : e.id < nextId /\ NotInPast(e)'
  <2> SUFFICES ASSUME NEW e \in Elements(pending) PROVE e.id < nextId /\ NotInPast(e)'
    OBVIOUS
  <2>1. e.phase \in 0..4
    BY PendingFacts, EventFields, AgendaAssumption
  <2>2. e.phase >= NoPhase
    BY <2>1 DEF NoPhase
  <2> QED
    BY <1>1, <1>3, <2>2 DEF AgendaInv, NotInPast
<1>6. \A d \in DeliveredIn(lifecycle) : d.time < t
  BY <1>1, <1>2, PendingFacts, EventFields DEF AgendaInv
<1>7. \A d \in DeliveredIn(lifecycle) :
        d.time \in Int /\ d.time <= t /\ ~(d.time = t)
  BY <1>2, <1>6, PendingFacts, EventFields
<1> QED
  BY <1>1, <1>3, <1>4, <1>5, <1>7 DEF AgendaInv, AgendaSorted, DeliveriesOrdered

-----------------------------------------------------------------------------
(* Theorems.                                                               *)

LEMMA InitEstablishesInv == Init => AgendaInv
<1> SUFFICES ASSUME Init PROVE AgendaInv
  OBVIOUS
<1>1. /\ now = StartTime /\ lastPhase = NoPhase /\ nextId = 0
      /\ pending = <<>> /\ lifecycle = <<>> /\ counters = NoCounts
  BY DEF Init
<1>2. Len(pending) = 0 /\ Len(lifecycle) = 0
  BY <1>1
<1>3. Elements(pending) = {} /\ DeliveredIn(lifecycle) = {}
  BY <1>2 DEF Elements, DeliveredIn
<1>4. counters \in Counters
  BY <1>1 DEF NoCounts, Counters
<1>5. 0 \in Ids
  BY AgendaAssumption DEF Ids
<1>6. TypeOK
  BY <1>1, <1>4, <1>5, AgendaAssumption DEF TypeOK
<1>7. Sorted(pending) /\ InDeliveryOrder(lifecycle)
  BY <1>2 DEF Sorted, InDeliveryOrder
<1> QED
  BY <1>3, <1>6, <1>7 DEF AgendaInv, AgendaSorted, DeliveriesOrdered

LEMMA StutterPreservesInv ==
  ASSUME AgendaInv, UNCHANGED vars
  PROVE  AgendaInv'
<1>1. /\ now' = now /\ lastPhase' = lastPhase /\ nextId' = nextId
      /\ pending' = pending /\ lifecycle' = lifecycle /\ counters' = counters
  BY DEF vars
<1>2. TypeOK'
  BY <1>1 DEF AgendaInv, TypeOK
<1>3. AgendaSorted' /\ DeliveriesOrdered'
  BY <1>1 DEF AgendaInv, AgendaSorted, DeliveriesOrdered
<1>4. (\A e \in Elements(pending) : e.id < nextId /\ NotInPast(e))'
  BY <1>1 DEF AgendaInv, NotInPast
<1>5. (\A d \in DeliveredIn(lifecycle) :
         /\ d.id < nextId
         /\ d.time <= now
         /\ d.time = now => d.phase <= lastPhase
         /\ \A e \in Elements(pending) : OrdersBefore(d, e))'
  BY <1>1 DEF AgendaInv
<1> QED
  BY <1>2, <1>3, <1>4, <1>5 DEF AgendaInv

LEMMA NextPreservesInv == AgendaInv /\ [Next]_vars => AgendaInv'
<1> SUFFICES ASSUME AgendaInv, [Next]_vars PROVE AgendaInv'
  OBVIOUS
<1>1. CASE \E t \in Times : AdvanceTime(t)
  BY <1>1, AdvanceTimePreservesInv
<1>2. CASE \E req \in Requests : Schedule(req)
  BY <1>2, SchedulePreservesInv
<1>3. CASE \E n \in 1..MaxTrace : \E reqs \in [1..n -> Requests] : SchedulePreordered(reqs)
  BY <1>3, SchedulePreorderedPreservesInv
<1>4. CASE \E id \in Ids : Cancel(id)
  BY <1>4, CancelPreservesInv
<1>5. CASE \E id \in Ids, req \in Requests : Reschedule(id, req)
  BY <1>5, ReschedulePreservesInv
<1>6. CASE DeliverNext
  BY <1>6, DeliverNextPreservesInv
<1>7. CASE UNCHANGED vars
  BY <1>7, StutterPreservesInv
<1> QED
  BY <1>1, <1>2, <1>3, <1>4, <1>5, <1>6, <1>7 DEF Next, Requesting

(* The inductive invariant holds throughout every run of the agenda.       *)
THEOREM AgendaInvariant == Spec => []AgendaInv
BY InitEstablishesInv, NextPreservesInv, PTL DEF Spec

(* Type correctness of every agenda variable, for any number of identities *)
(* and any set of instants.                                                *)
THEOREM AgendaTypeCorrect == Spec => []TypeOK
<1>1. AgendaInv => TypeOK
  BY DEF AgendaInv
<1> QED
  BY <1>1, AgendaInvariant, PTL

(* The deque peek, deliver_next, advance_time and next_breakpoint_after    *)
(* read from the front is sorted in every reachable state.                 *)
THEOREM AgendaStaysSorted == Spec => []AgendaSorted
<1>1. AgendaInv => AgendaSorted
  BY DEF AgendaInv
<1> QED
  BY <1>1, AgendaInvariant, PTL

(* No pending event is ever behind the clock or the completed phase.       *)
THEOREM AgendaNeverInPast == Spec => []NothingPendingInPast
<1>1. AgendaInv => NothingPendingInPast
  BY DEF AgendaInv, NothingPendingInPast
<1> QED
  BY <1>1, AgendaInvariant, PTL

(* Deliveries are strictly increasing in (time, phase, sequence), whatever *)
(* is scheduled, merged, cancelled or rescheduled between them.            *)
THEOREM AgendaDeliversInOrder == Spec => []DeliveriesOrdered
<1>1. AgendaInv => DeliveriesOrdered
  BY DEF AgendaInv
<1> QED
  BY <1>1, AgendaInvariant, PTL

-----------------------------------------------------------------------------
(* The clock and the abstract queue.                                       *)

LEMMA StepNeverSkips ==
  AgendaInv /\ [Next]_vars =>
    [/\ now' >= now
     /\ \A e \in Elements(pending) :
          e.time < now' => e \in DeliveredIn(lifecycle')]_vars
<1> SUFFICES ASSUME AgendaInv, Next
             PROVE  /\ now' >= now
                    /\ \A e \in Elements(pending) :
                         e.time < now' => e \in DeliveredIn(lifecycle')
  OBVIOUS
<1>0. /\ now \in Int
      /\ \A e \in Elements(pending) : e \in Events /\ e.time \in Int /\ e.time >= now
  BY ClockTypes, PendingFacts, EventFields DEF AgendaInv, NotInPast
<1>1. CASE \E t \in Times : AdvanceTime(t)
  <2>1. PICK t \in Times : AdvanceTime(t)
    BY <1>1
  <2>2. now' = t /\ t > now /\ t \in Int
    BY <2>1, AgendaAssumption DEF AdvanceTime
  <2>3. \A e \in Elements(pending) : e.time >= t
    BY <2>1, AdvanceTimePreservesInv
  <2> QED
    BY <1>0, <2>2, <2>3
<1>2. CASE now' = now
  BY <1>0, <1>2
<1>3. CASE DeliverNext
  <2>1. PICK e \in Elements(pending) :
          /\ now' = e.time /\ e.time >= now
          /\ \A x \in Elements(pending) : x = e \/ OrdersBefore(e, x)
    BY <1>3, DeliverNextPreservesInv
  <2>2. \A x \in Elements(pending) : x.time >= e.time
    BY <1>0, <2>1 DEF OrdersBefore
  <2> QED
    BY <1>0, <2>1, <2>2
<1>4. (\E t \in Times : AdvanceTime(t)) \/ now' = now \/ DeliverNext
  BY DEF Next, Requesting, Schedule, SchedulePreordered, Cancel, Reschedule
<1> QED
  BY <1>1, <1>2, <1>3, <1>4

(* Time never runs backward, and passes an event only by delivering it.    *)
THEOREM AgendaNeverSkips == Spec => NoEventSkipped
BY AgendaInvariant, StepNeverSkips, PTL DEF Spec, NoEventSkipped

(* A fresh event that is not in the past may join the abstract queue. *)
LEMMA FreshMayJoin ==
  ASSUME AgendaInv, NEW e \in Events, nextId <= e.id, NotInPast(e)
  PROVE  e \notin Elements(pending) /\ Queue!MayJoin(e)
<1>1. e.id \in Int /\ e.time \in Int /\ e.phase \in Int /\ nextId \in Int
      /\ now \in Int /\ lastPhase \in Int
  BY EventFields, ClockTypes DEF AgendaInv
<1>2. e \notin Elements(pending)
  BY <1>1 DEF AgendaInv
<1>3. ASSUME NEW d \in DeliveredIn(lifecycle) PROVE Queue!Before(d, e)
  <2>1. d.id \in Int /\ d.time \in Int /\ d.phase \in Int
    BY PendingFacts, EventFields
  <2>2. d.id < nextId /\ d.time <= now /\ (d.time = now => d.phase <= lastPhase)
    BY DEF AgendaInv
  <2> QED
    BY <1>1, <2>1, <2>2 DEF NotInPast, Queue!Before
<1> QED
  BY <1>2, <1>3 DEF NotInPast, Queue!MayJoin

LEMMA StepRefinesQueue ==
  AgendaInv /\ [Next]_vars => [Queue!QueueNext]_(Queue!queueVars)
<1> SUFFICES ASSUME AgendaInv, [Next]_vars
             PROVE  [Queue!QueueNext]_(Queue!queueVars)
  OBVIOUS
<1> USE DEF Queue!queueVars
<1>1. CASE \E t \in Times : AdvanceTime(t)
  <2>1. PICK t \in Times : AdvanceTime(t)
    BY <1>1
  <2>2. now' = t /\ t > now /\ pending' = pending /\ lifecycle' = lifecycle
    BY <2>1 DEF AdvanceTime
  <2>3. \A e \in Elements(pending) : e.time >= t
    BY <2>1, AdvanceTimePreservesInv
  <2>4. Queue!Pass(now')
    BY <2>2, <2>3 DEF Queue!Pass
  <2> QED
    BY <2>4 DEF Queue!QueueNext
<1>2. CASE \E A : Joined(A)
  <2>1. PICK A : Joined(A)
    BY <1>2
  <2>2. \A e \in A : e \notin Elements(pending) /\ Queue!MayJoin(e)
    BY <2>1, FreshMayJoin DEF Joined
  <2>3. Elements(pending') \ Elements(pending) = A
    BY <2>1, <2>2 DEF Joined
  <2>4. Queue!Enqueue(Elements(pending') \ Elements(pending))
    BY <2>1, <2>2, <2>3 DEF Joined, Queue!Enqueue
  <2> QED
    BY <2>1, <2>4 DEF Joined, Queue!QueueNext
<1>3. CASE \E old : Replaced(old, {})
  <2>1. PICK old : Replaced(old, {})
    BY <1>3
  <2>2. Queue!Drop(old) /\ old \in Elements(pending)
    BY <2>1 DEF Replaced, Queue!Drop
  <2> QED
    BY <2>2 DEF Queue!QueueNext
<1>4. CASE \E old, new : Replaced(old, {new})
  <2>1. PICK old, new : Replaced(old, {new})
    BY <1>4
  <2>2. new \notin Elements(pending) /\ Queue!MayJoin(new)
    BY <2>1, FreshMayJoin DEF Replaced
  <2>3. Queue!Replace(old, new) /\ old \in Elements(pending) /\ new \in Elements(pending')
    BY <2>1, <2>2 DEF Replaced, Queue!Replace
  <2> QED
    BY <2>3 DEF Queue!QueueNext
<1>5. CASE DeliverNext
  <2>1. PICK e \in Elements(pending) :
           /\ now' = e.time /\ e.time >= now
           /\ Elements(pending') = Elements(pending) \ {e}
           /\ \A x \in Elements(pending) : x = e \/ OrdersBefore(e, x)
           /\ \A d \in DeliveredIn(lifecycle) : OrdersBefore(d, e)
           /\ DeliveredIn(lifecycle') = DeliveredIn(lifecycle) \cup {e}
    BY <1>5, DeliverNextPreservesInv
  <2>2. e \notin DeliveredIn(lifecycle)
    BY <2>1, PendingFacts, OrdersBeforeIsStrictOrder
  <2>3. /\ \A o \in Elements(pending) \ {e} : Queue!Before(e, o)
        /\ \A s \in DeliveredIn(lifecycle) : Queue!Before(s, e)
    BY <2>1 DEF OrdersBefore, Queue!Before
  <2>4. Queue!Serve(e)
    BY <2>1, <2>2, <2>3 DEF Queue!Serve
  <2> QED
    BY <2>4 DEF Queue!QueueNext
<1>6. CASE UNCHANGED vars
  BY <1>6 DEF vars
<1> QED
  BY <1>1, <1>2, <1>3, <1>4, <1>5, <1>6,
     SchedulePreservesInv, SchedulePreorderedPreservesInv, CancelPreservesInv,
     ReschedulePreservesInv
     DEF Next, Requesting

(* The sorted deque with its merges, cancellations and replacements         *)
(* implements the abstract event queue.                                     *)
THEOREM AgendaImplementsQueue == Spec => ImplementsEventQueue
<1>1. Init => Queue!QueueInit
  <2> SUFFICES ASSUME Init PROVE Queue!QueueInit
    OBVIOUS
  <2>1. now = StartTime /\ Len(pending) = 0 /\ Len(lifecycle) = 0
    BY DEF Init
  <2> QED
    BY <2>1 DEF Queue!QueueInit, Elements, DeliveredIn
<1> QED
  BY <1>1, AgendaInvariant, StepRefinesQueue, PTL
     DEF Spec, ImplementsEventQueue, Queue!QueueSpec

-----------------------------------------------------------------------------
(* The lifecycle log.                                                      *)

(* A replay's starting point, and what it holds when nothing is wrong.      *)
Ledger(P, X, c) == [pending |-> P, expected |-> X, counters |-> c, sound |-> TRUE]
Blank == Ledger({}, {}, NoCounts)

(* A set of positions that holds the first, and with each its next.         *)
LEMMA UpTo ==
  ASSUME NEW N \in Nat, NEW S, 0 \in S, \A k \in 1..N : k - 1 \in S => k \in S
  PROVE  \A k \in 0..N : k \in S
<1> DEFINE T == {k \in 0..N : k \notin S}
<1> SUFFICES ASSUME T # {}
             PROVE  FALSE
  OBVIOUS
<1>1. T \subseteq Nat
  OBVIOUS
<1>2. PICK n \in T : \A y \in T : n <= y
  <2> HIDE DEF T
  <2> QED
    BY <1>1, LeastNatural
<1>3. n \in 1..N /\ n - 1 \in 0..N /\ ~(n <= n - 1) /\ n \notin S
  OBVIOUS
<1> QED
  BY <1>2, <1>3

(* A recursive function on an interval exists: here, the replay of a log.   *)
LEMMA ReplayExists ==
  ASSUME NEW N \in Nat
  PROVE  \A log :
           \E a : a = [k \in 0..N |-> IF k = 0 THEN Blank ELSE ReplayStep(a[k - 1], log[k])]
<1> TAKE log
<1> DEFINE Defined(n) ==
             \E g : g = [k \in 0..n |-> IF k = 0 THEN Blank ELSE ReplayStep(g[k - 1], log[k])]
           Bad == {n \in 0..N : ~Defined(n)}
<1> SUFFICES ASSUME Bad # {}
             PROVE  FALSE
  OBVIOUS
<1>1. Defined(0)
  <2> DEFINE g == [k \in 0..0 |-> Blank]
  <2>1. g = [k \in 0..0 |-> IF k = 0 THEN Blank ELSE ReplayStep(g[k - 1], log[k])]
    OBVIOUS
  <2> HIDE DEF g
  <2> QED
    BY <2>1
<1>2. ASSUME NEW n \in 1..N, Defined(n - 1)
      PROVE  Defined(n)
  <2>1. PICK g : g = [k \in 0..n - 1 |-> IF k = 0 THEN Blank ELSE ReplayStep(g[k - 1], log[k])]
    BY <1>2
  <2> DEFINE h == [k \in 0..n |-> IF k < n THEN g[k] ELSE ReplayStep(g[n - 1], log[n])]
  <2>2. \A k \in 0..n : k - 1 \in 0..n => h[k - 1] = g[k - 1]
    OBVIOUS
  <2>3. \A k \in 0..n : h[k] = IF k = 0 THEN Blank ELSE ReplayStep(h[k - 1], log[k])
    <3> TAKE k \in 0..n
    <3>1. CASE k = 0
      BY <2>1, <3>1
    <3>2. CASE k # 0 /\ k < n
      <4>1. h[k] = g[k] /\ k \in 0..n - 1 /\ k - 1 \in 0..n
        BY <3>2
      <4> HIDE DEF h
      <4> QED
        BY <2>1, <2>2, <3>2, <4>1
    <3>3. CASE k = n
      <4>1. h[k] = ReplayStep(g[n - 1], log[n]) /\ k - 1 \in 0..n
        BY <3>3
      <4> HIDE DEF h
      <4> QED
        BY <2>2, <3>3, <4>1
    <3> QED
      BY <3>1, <3>2, <3>3
  <2>4. h = [k \in 0..n |-> h[k]]
    OBVIOUS
  <2> HIDE DEF h
  <2>5. h = [k \in 0..n |-> IF k = 0 THEN Blank ELSE ReplayStep(h[k - 1], log[k])]
    BY <2>3, <2>4
  <2> QED
    BY <2>5
<1> HIDE DEF Defined
<1>3. Bad \subseteq Nat
  OBVIOUS
<1>4. PICK n \in Bad : \A y \in Bad : n <= y
  <2> HIDE DEF Bad
  <2> QED
    BY <1>3, LeastNatural
<1>5. n \in 1..N /\ n - 1 \in 0..N /\ ~(n <= n - 1) /\ ~Defined(n)
  BY <1>1
<1>6. n - 1 \notin Bad
  BY <1>4, <1>5
<1> QED
  BY <1>2, <1>5, <1>6

(* The replay of a log starts blank and takes one record after the other.   *)
LEMMA ReplaysRun ==
  ASSUME NEW log \in Seq(Records)
  PROVE  /\ Replays(log)[0] = Blank
         /\ \A k \in 1..Len(log) : Replays(log)[k] = ReplayStep(Replays(log)[k - 1], log[k])
<1> DEFINE a == Replays(log)
           N == Len(log)
<1>1. a = CHOOSE f : f = [k \in 0..N |-> IF k = 0 THEN Blank ELSE ReplayStep(f[k - 1], log[k])]
  BY DEF Replays, Blank, Ledger
<1>2. N \in Nat
  BY SequenceIndices
<1>3. \E f : f = [k \in 0..N |-> IF k = 0 THEN Blank ELSE ReplayStep(f[k - 1], log[k])]
  <2> HIDE DEF N
  <2>1. \A l : \E f : f = [k \in 0..N |-> IF k = 0 THEN Blank ELSE ReplayStep(f[k - 1], l[k])]
    BY <1>2, ReplayExists, Zenon
  <2> QED
    BY <2>1, Zenon
<1> HIDE DEF a, N
<1>4. a = [k \in 0..N |-> IF k = 0 THEN Blank ELSE ReplayStep(a[k - 1], log[k])]
  BY <1>1, <1>3, Zenon
<1>5. a[0] = Blank /\ \A k \in 1..N : a[k] = ReplayStep(a[k - 1], log[k])
  BY <1>2, <1>4
<1> QED
  BY <1>5 DEF a, N

(* More records do not change what the replay holds before them.            *)
LEMMA ReplaysOfPrefix ==
  ASSUME NEW log \in Seq(Records), NEW new \in Seq(Records)
  PROVE  \A k \in 0..Len(log) : Replays(log \o new)[k] = Replays(log)[k]
<1> DEFINE all == log \o new
           a == Replays(log)
           b == Replays(all)
           Bad == {k \in 0..Len(log) : b[k] # a[k]}
<1> SUFFICES ASSUME Bad # {}
             PROVE  FALSE
  OBVIOUS
<1>1. /\ all \in Seq(Records) /\ Len(log) \in Nat /\ Len(new) \in Nat
      /\ Len(all) = Len(log) + Len(new)
      /\ \A k \in 1..Len(log) : all[k] = log[k]
  BY SequenceIndices, ConcatProperties
<1> HIDE DEF all
<1>2. /\ b[0] = Blank /\ \A k \in 1..Len(log) : b[k] = ReplayStep(b[k - 1], log[k])
  BY <1>1, ReplaysRun
<1>3. /\ a[0] = Blank /\ \A k \in 1..Len(log) : a[k] = ReplayStep(a[k - 1], log[k])
  BY ReplaysRun
<1> HIDE DEF a, b
<1>4. Bad \subseteq Nat
  BY <1>1
<1>5. PICK k \in Bad : \A y \in Bad : k <= y
  <2> HIDE DEF Bad
  <2> QED
    BY <1>4, LeastNatural
<1>6. k \in 1..Len(log) /\ k - 1 \in 0..Len(log) /\ ~(k <= k - 1) /\ b[k] # a[k]
  BY <1>1, <1>2, <1>3
<1>7. b[k - 1] = a[k - 1]
  BY <1>5, <1>6
<1> QED
  BY <1>2, <1>3, <1>6, <1>7

(* What a replay holds at the end of a log.                                 *)
AtEnd(log) == Replays(log)[Len(log)]

(* One more record is one more step of the replay.                          *)
LEMMA ReplayOfAppend ==
  ASSUME NEW log \in Seq(Records), NEW rec \in Records
  PROVE  AtEnd(Append(log, rec)) = ReplayStep(AtEnd(log), rec)
<1> DEFINE all == Append(log, rec)
           one == <<rec>>
<1>1. all = log \o one /\ one \in Seq(Records)
  BY AppendIsConcat
<1>2. /\ all \in Seq(Records) /\ Len(all) = Len(log) + 1 /\ all[Len(log) + 1] = rec
      /\ Len(log) \in Nat
  BY AppendProperties, SequenceIndices
<1> HIDE DEF all, one
<1>3. Replays(all)[Len(log)] = Replays(log)[Len(log)]
  <2>1. \A k \in 0..Len(log) : Replays(log \o one)[k] = Replays(log)[k]
    BY <1>1, ReplaysOfPrefix
  <2>2. Len(log) \in 0..Len(log)
    BY <1>2
  <2> QED
    BY <1>1, <2>1, <2>2
<1>4. Replays(all)[Len(log) + 1] = ReplayStep(Replays(all)[Len(log)], all[Len(log) + 1])
  <2>1. \A k \in 1..Len(all) : Replays(all)[k] = ReplayStep(Replays(all)[k - 1], all[k])
    BY <1>2, ReplaysRun
  <2>2. Len(log) + 1 \in 1..Len(all) /\ Len(log) + 1 - 1 = Len(log)
    BY <1>2
  <2> QED
    BY <2>1, <2>2
<1>5. AtEnd(all) = ReplayStep(AtEnd(log), rec)
  BY <1>2, <1>3, <1>4 DEF AtEnd
<1> QED
  BY <1>5 DEF all

(* The counters after one more event, of n pending.                         *)
Grown(c, n) ==
  [Count(c, "scheduled", 1) EXCEPT !["maximumPending"] = IF n > @ THEN n ELSE @]

(* A sound replay takes a fresh event that replaces what it should.         *)
LEMMA ReplayOfScheduled ==
  ASSUME NEW P, NEW X, NEW c, NEW rec, rec.action = "Scheduled",
         \A p \in P : p.id # rec.event.id,
         {x[2] : x \in {y \in X : y[1] = rec.event.id}} = {rec.related} \ {NoId}
  PROVE  ReplayStep(Ledger(P, X, c), rec) =
           Ledger(P \cup {rec.event}, X \ {y \in X : y[1] = rec.event.id},
                  Grown(c, Cardinality(P \cup {rec.event})))
<1> DEFINE e == rec.event
           known == {p \in P : p.id = e.id}
           expected == {x \in X : x[1] = e.id}
           left == (P \ known) \cup {e}
<1>1. known = {} /\ left = P \cup {e}
  OBVIOUS
<1>2. ReplayStep(Ledger(P, X, c), rec) =
        [pending |-> left, expected |-> X \ expected,
         counters |-> Grown(c, Cardinality(left)),
         sound |-> TRUE /\ known = {} /\ {x[2] : x \in expected} = {rec.related} \ {NoId}]
  BY DEF ReplayStep, Ledger, Grown
<1>3. (TRUE /\ known = {} /\ {x[2] : x \in expected} = {rec.related} \ {NoId}) = TRUE
  BY <1>1
<1> HIDE DEF known, left, expected
<1>4. ReplayStep(Ledger(P, X, c), rec) = Ledger(left, X \ expected, Grown(c, Cardinality(left)))
  BY <1>2, <1>3 DEF Ledger
<1> QED
  BY <1>1, <1>4 DEF expected

(* A sound replay takes the departure of an event it holds.                 *)
LEMMA ReplayOfLeaving ==
  ASSUME NEW P, NEW X, NEW c, NEW rec, rec.event \in P,
         \A p \in P : p.id = rec.event.id => p = rec.event,
         rec.action \in {"Canceled", "Delivered", "Rescheduled"},
         rec.action = "Rescheduled" => rec.related # NoId
  PROVE  ReplayStep(Ledger(P, X, c), rec) =
           [pending |-> P \ {rec.event},
            expected |-> IF rec.action = "Rescheduled"
                         THEN {x \in X : x[1] # rec.related}
                                \cup {<<rec.related, rec.event.id>>}
                         ELSE X,
            counters |-> Count(c, CASE rec.action = "Canceled" -> "canceled"
                                    [] rec.action = "Rescheduled" -> "rescheduled"
                                    [] rec.action = "Delivered" -> "delivered", 1),
            sound |-> TRUE]
<1> DEFINE e == rec.event
           known == {p \in P : p.id = e.id}
<1>1. known = {e}
  OBVIOUS
<1>2. (TRUE /\ known = {e} /\ (rec.action = "Rescheduled" => rec.related # NoId)) = TRUE
  BY <1>1
<1>3. ReplayStep(Ledger(P, X, c), rec) =
        [pending |-> P \ known,
         expected |-> IF rec.action = "Rescheduled" /\ rec.related # NoId
                      THEN {x \in X : x[1] # rec.related} \cup {<<rec.related, e.id>>}
                      ELSE X,
         counters |-> Count(c, CASE rec.action = "Canceled" -> "canceled"
                                 [] rec.action = "Rescheduled" -> "rescheduled"
                                 [] rec.action = "Delivered" -> "delivered", 1),
         sound |-> TRUE /\ known = {e} /\ (rec.action = "Rescheduled" => rec.related # NoId)]
  BY DEF ReplayStep, Ledger
<1> HIDE DEF known
<1> QED
  BY <1>1, <1>2, <1>3

(* A sound replay takes a cancellation.                                     *)
LEMMA ReplayOfCanceled ==
  ASSUME NEW P, NEW X, NEW c, NEW rec, rec.event \in P, rec.action = "Canceled",
         \A p \in P : p.id = rec.event.id => p = rec.event
  PROVE  ReplayStep(Ledger(P, X, c), rec) = Ledger(P \ {rec.event}, X, Count(c, "canceled", 1))
BY ReplayOfLeaving DEF Ledger

(* A sound replay takes a delivery.                                         *)
LEMMA ReplayOfDelivered ==
  ASSUME NEW P, NEW X, NEW c, NEW rec, rec.event \in P, rec.action = "Delivered",
         \A p \in P : p.id = rec.event.id => p = rec.event
  PROVE  ReplayStep(Ledger(P, X, c), rec) = Ledger(P \ {rec.event}, X, Count(c, "delivered", 1))
BY ReplayOfLeaving DEF Ledger

(* A sound replay takes a replacement, and awaits the event it names.       *)
LEMMA ReplayOfRescheduled ==
  ASSUME NEW P, NEW X, NEW c, NEW rec, rec.event \in P, rec.action = "Rescheduled",
         \A p \in P : p.id = rec.event.id => p = rec.event, rec.related # NoId
  PROVE  ReplayStep(Ledger(P, X, c), rec) =
           Ledger(P \ {rec.event},
                  {x \in X : x[1] # rec.related} \cup {<<rec.related, rec.event.id>>},
                  Count(c, "rescheduled", 1))
BY ReplayOfLeaving DEF Ledger

(* The elements of a deque are as many as its places.                       *)
LEMMA SortedSize ==
  ASSUME NEW q \in Seq(Events), Sorted(q)
  PROVE  IsFiniteSet(Elements(q)) /\ Cardinality(Elements(q)) = Len(q)
<1>1. Len(q) \in Nat /\ \A i \in 1..Len(q) : q[i] \in Events
  BY SequenceIndices
<1>2. IsFiniteSet(1..Len(q)) /\ Cardinality(1..Len(q)) = Len(q)
  <2>1. 1 \in Int /\ Len(q) \in Int
    BY <1>1
  <2>2. /\ IsFiniteSet(1..Len(q))
        /\ Cardinality(1..Len(q)) = IF 1 > Len(q) THEN 0 ELSE Len(q) - 1 + 1
    BY <2>1, FS_Interval
  <2> QED
    BY <1>1, <2>2
<1> DEFINE f == [i \in 1..Len(q) |-> q[i]]
<1>3. \A i, j \in 1..Len(q) : q[i] = q[j] => i = j
  BY <1>1, OrdersBeforeIsStrictOrder DEF Sorted
<1>4. f \in Bijection(1..Len(q), Elements(q))
  BY <1>3 DEF Bijection, Injection, Surjection, IsInjective, Elements
<1>5. ExistsBijection(1..Len(q), Elements(q))
  BY <1>4 DEF ExistsBijection
<1> QED
  BY <1>2, <1>5, FS_Bijection

(* The counters the replay reconstructs.                                    *)
Kept(c) == [c EXCEPT !["preordered"] = 0]

(* The replay of the log gives the deque and the counters; every identity   *)
(* is pending or left once, and pending under one event; and the peak is    *)
(* no less than what is pending.                                            *)
ReplayInv ==
  /\ AtEnd(lifecycle) = Ledger(Elements(pending), {}, Kept(counters))
  /\ counters["scheduled"] = nextId
  /\ nextId = counters["delivered"] + counters["canceled"] + counters["rescheduled"]
                + Len(pending)
  /\ Len(pending) <= counters["maximumPending"]
  /\ \A a, b \in Elements(pending) : a.id = b.id => a = b

(* Counting and forgetting the preordered events commute.                   *)
LEMMA CountsKept ==
  ASSUME NEW c \in Counters
  PROVE  /\ \A n \in Nat : Kept(Grown(c, n)) = Grown(Kept(c), n)
         /\ \A name \in {"scheduled", "canceled", "rescheduled", "delivered"} :
              Kept(Count(c, name, 1)) = Count(Kept(c), name, 1)
         /\ Kept(c) \in Counters
BY DEF Kept, Grown, Count, Counters, CounterNames

(* One event more, and the peak at least what is pending then.              *)
LEMMA GrownCounts ==
  ASSUME NEW c \in Counters, NEW n \in Nat
  PROVE  /\ Grown(c, n)["scheduled"] = c["scheduled"] + 1
         /\ Grown(c, n)["delivered"] = c["delivered"]
         /\ Grown(c, n)["canceled"] = c["canceled"]
         /\ Grown(c, n)["rescheduled"] = c["rescheduled"]
         /\ n <= Grown(c, n)["maximumPending"]
         /\ Grown(c, n) \in Counters
BY DEF Grown, Count, Counters, CounterNames

(* The replay of a new agenda's log is blank.                               *)
LEMMA InitReplays == Init => ReplayInv
<1> SUFFICES ASSUME Init
             PROVE  ReplayInv
  OBVIOUS
<1>1. /\ nextId = 0 /\ pending = <<>> /\ lifecycle = <<>> /\ counters = NoCounts
  BY DEF Init
<1>2. Len(lifecycle) = 0 /\ Len(pending) = 0 /\ Elements(pending) = {}
      /\ lifecycle \in Seq(Records)
  BY <1>1 DEF Elements
<1>3. Kept(counters) = NoCounts
  BY <1>1 DEF Kept, NoCounts
<1>4. AtEnd(lifecycle) = Ledger(Elements(pending), {}, Kept(counters))
  BY <1>2, <1>3, ReplaysRun DEF AtEnd, Blank
<1> QED
  BY <1>1, <1>2, <1>4 DEF ReplayInv, NoCounts, CounterNames

(* Facts the action lemmas share.                                           *)
LEMMA ReplayFacts ==
  ASSUME AgendaInv, ReplayInv
  PROVE  /\ pending \in Seq(Events) /\ Sorted(pending) /\ Len(pending) \in Nat
         /\ lifecycle \in Seq(Records) /\ counters \in Counters
         /\ nextId \in Nat /\ nextId \in Ids /\ U64Max \in Nat
         /\ \A name \in CounterNames : counters[name] \in Nat
         /\ \A x \in Elements(pending) : x \in Events /\ x.id \in Int /\ x.id < nextId
         /\ Cardinality(Elements(pending)) = Len(pending)
<1>1. counters \in Counters
  BY DEF AgendaInv, TypeOK
<1>2. \A x \in Elements(pending) : x \in Events /\ x.id \in Int /\ x.id < nextId
  BY PendingFacts, EventFields DEF AgendaInv
<1> QED
  BY <1>1, <1>2, PendingFacts, SortedSize, AgendaAssumption DEF Counters

(* What is left of the invariant once an event has joined.                  *)
LEMMA JoinedTotals ==
  ASSUME AgendaInv, ReplayInv, counters' = Grown(counters, Len(pending) + 1),
         nextId' = nextId + 1, Len(pending') = Len(pending) + 1,
         AtEnd(lifecycle') = Ledger(Elements(pending'), {}, Kept(counters')),
         \A a, b \in Elements(pending') : a.id = b.id => a = b
  PROVE  ReplayInv'
<1>1. /\ counters["delivered"] \in Nat /\ counters["canceled"] \in Nat
      /\ counters["rescheduled"] \in Nat /\ Len(pending) \in Nat
      /\ nextId \in Nat /\ counters \in Counters
  BY ReplayFacts DEF CounterNames
<1>10. Len(pending) + 1 \in Nat
  BY <1>1
<1>11. counters'["scheduled"] = counters["scheduled"] + 1
  BY <1>10, <1>1, GrownCounts
<1>12. counters'["delivered"] = counters["delivered"]
  BY <1>10, <1>1, GrownCounts
<1>13. counters'["canceled"] = counters["canceled"]
  BY <1>10, <1>1, GrownCounts
<1>14. counters'["rescheduled"] = counters["rescheduled"]
  BY <1>10, <1>1, GrownCounts
<1>15. Len(pending') <= counters'["maximumPending"]
  BY <1>10, <1>1, GrownCounts
<1>2. /\ counters'["scheduled"] = counters["scheduled"] + 1
      /\ counters'["delivered"] = counters["delivered"]
      /\ counters'["canceled"] = counters["canceled"]
      /\ counters'["rescheduled"] = counters["rescheduled"]
      /\ Len(pending') <= counters'["maximumPending"]
  BY <1>11, <1>12, <1>13, <1>14, <1>15
<1>3. nextId' = counters'["delivered"] + counters'["canceled"] + counters'["rescheduled"]
                  + Len(pending')
  BY <1>1, <1>2 DEF ReplayInv
<1>4. counters'["scheduled"] = nextId'
  BY <1>2 DEF ReplayInv
<1> QED
  BY <1>2, <1>3, <1>4 DEF ReplayInv

(* schedule                                                                 *)
LEMMA ScheduleReplays ==
  ASSUME AgendaInv, ReplayInv, NEW req \in Requests, Schedule(req)
  PROVE  ReplayInv'
<1> DEFINE e == FromRequest(nextId, req, NoId)
           q == Inserted(pending, e)
           rec == Scheduled(e)
<1>1. /\ pending' = q /\ lifecycle' = Append(lifecycle, rec)
      /\ counters' = Peak(Count(counters, "scheduled", 1), q) /\ nextId' = nextId + 1
      /\ nextId < U64Max /\ ~Refuses(req)
  BY DEF Schedule
<1>2. e \in Events /\ e.id = nextId /\ rec \in Records /\ NoId \in Ids \cup {NoId}
  BY <1>1, ReplayFacts, AcceptedRequest, FromRequestProperties
<1>3. rec.action = "Scheduled" /\ rec.event = e /\ rec.related = NoId
  BY DEF Scheduled
<1> HIDE DEF e, rec
<1>4. /\ q \in Seq(Events) /\ Len(q) = Len(pending) + 1 /\ Sorted(q)
      /\ Elements(q) = Elements(pending) \cup {e}
  <2>1. \A i \in 1..Len(pending) : pending[i].id # e.id
    <3>1. \A i \in 1..Len(pending) : pending[i] \in Elements(pending)
      BY DEF Elements
    <3>2. \A x \in Elements(pending) : x.id # e.id
      BY <1>2, ReplayFacts
    <3> QED
      BY <3>1, <3>2
  <2> QED
    BY <1>2, <2>1, ReplayFacts, InsertedProperties
<1> HIDE DEF q
<1>5. Cardinality(Elements(pending) \cup {e}) = Len(pending) + 1
  BY <1>4, SortedSize
<1>6. counters' = Grown(counters, Len(pending) + 1)
  BY <1>1, <1>4, ReplayFacts DEF Grown, Peak
<1>7. AtEnd(lifecycle') = Ledger(Elements(pending'), {}, Kept(counters'))
  <2>1. AtEnd(lifecycle') = ReplayStep(Ledger(Elements(pending), {}, Kept(counters)), rec)
    BY <1>1, <1>2, ReplayFacts, ReplayOfAppend DEF ReplayInv
  <2>2. \A p \in Elements(pending) : p.id # rec.event.id
    BY <1>2, <1>3, ReplayFacts
  <2>3. {x[2] : x \in {y \in {} : y[1] = rec.event.id}} = {rec.related} \ {NoId}
    BY <1>3
  <2>4. AtEnd(lifecycle') = Ledger(Elements(pending) \cup {e}, {},
                                   Grown(Kept(counters), Len(pending) + 1))
    BY <1>3, <1>5, <2>1, <2>2, <2>3, ReplayOfScheduled
  <2>5. Kept(counters') = Grown(Kept(counters), Len(pending) + 1)
    BY <1>6, ReplayFacts, CountsKept
  <2> QED
    BY <1>1, <1>4, <2>4, <2>5
<1>8. \A a, b \in Elements(pending') : a.id = b.id => a = b
  BY <1>1, <1>2, <1>4, ReplayFacts DEF ReplayInv
<1> QED
  BY <1>1, <1>4, <1>6, <1>7, <1>8, JoinedTotals

(* cancel and deliver_next: one event leaves.                               *)
LEMMA LeavingReplays ==
  ASSUME AgendaInv, ReplayInv, NEW e \in Elements(pending),
         NEW name \in {"canceled", "delivered"}, NEW action,
         action = IF name = "canceled" THEN "Canceled" ELSE "Delivered",
         lifecycle' = Append(lifecycle, [event |-> e, action |-> action, related |-> NoId]),
         Elements(pending') = Elements(pending) \ {e}, Len(pending') = Len(pending) - 1,
         counters' = Count(counters, name, 1), nextId' = nextId
  PROVE  ReplayInv'
<1> DEFINE rec == [event |-> e, action |-> action, related |-> NoId]
<1>1. rec \in Records /\ rec.event = e /\ rec.action = action
  BY ReplayFacts DEF Records, Actions
<1> HIDE DEF rec
<1>2. AtEnd(lifecycle') = Ledger(Elements(pending'), {}, Kept(counters'))
  <2>1. AtEnd(lifecycle') = ReplayStep(Ledger(Elements(pending), {}, Kept(counters)), rec)
    BY <1>1, ReplayFacts, ReplayOfAppend DEF ReplayInv, rec
  <2>2. \A p \in Elements(pending) : p.id = rec.event.id => p = rec.event
    BY <1>1 DEF ReplayInv
  <2>3. AtEnd(lifecycle') = Ledger(Elements(pending) \ {e}, {}, Count(Kept(counters), name, 1))
    <3>1. rec.event \in Elements(pending)
      BY <1>1
    <3>2. CASE name = "canceled"
      <4>1. rec.action = "Canceled"
        BY <1>1, <3>2
      <4>2. ReplayStep(Ledger(Elements(pending), {}, Kept(counters)), rec)
              = Ledger(Elements(pending) \ {rec.event}, {}, Count(Kept(counters), "canceled", 1))
        BY <2>2, <3>1, <4>1, ReplayOfCanceled
      <4> QED
        BY <1>1, <2>1, <3>2, <4>2
    <3>3. CASE name = "delivered"
      <4>1. rec.action = "Delivered"
        BY <1>1, <3>3
      <4>2. ReplayStep(Ledger(Elements(pending), {}, Kept(counters)), rec)
              = Ledger(Elements(pending) \ {rec.event}, {}, Count(Kept(counters), "delivered", 1))
        BY <2>2, <3>1, <4>1, ReplayOfDelivered
      <4> QED
        BY <1>1, <2>1, <3>3, <4>2
    <3> QED
      BY <3>2, <3>3
  <2>4. Kept(counters') = Count(Kept(counters), name, 1)
    BY ReplayFacts, CountsKept
  <2> QED
    BY <2>3, <2>4
<1>3. /\ counters'["scheduled"] = counters["scheduled"]
      /\ counters'["delivered"] + counters'["canceled"] + counters'["rescheduled"]
           = counters["delivered"] + counters["canceled"] + counters["rescheduled"] + 1
      /\ counters'["maximumPending"] = counters["maximumPending"]
  BY ReplayFacts DEF Count, Counters, CounterNames
<1>4. \A k \in CounterNames : counters[k] \in Nat
  BY ReplayFacts
<1>5. /\ counters["delivered"] \in Nat /\ counters["canceled"] \in Nat
      /\ counters["rescheduled"] \in Nat /\ counters["maximumPending"] \in Nat
      /\ Len(pending) \in Nat
  BY <1>4, ReplayFacts DEF CounterNames
<1>6. nextId' = counters'["delivered"] + counters'["canceled"] + counters'["rescheduled"]
                  + Len(pending')
  <2> DEFINE gone == counters["delivered"] + counters["canceled"] + counters["rescheduled"]
  <2>1. gone \in Nat /\ nextId = gone + Len(pending)
    BY <1>5 DEF ReplayInv
  <2> HIDE DEF gone
  <2>2. counters'["delivered"] + counters'["canceled"] + counters'["rescheduled"] = gone + 1
    BY <1>3 DEF gone
  <2> QED
    BY <1>5, <2>1, <2>2
<1> QED
  BY <1>2, <1>3, <1>5, <1>6 DEF ReplayInv

(* cancel                                                                   *)
LEMMA CancelReplays ==
  ASSUME AgendaInv, ReplayInv, NEW id \in Ids, Cancel(id)
  PROVE  ReplayInv'
<1>1. PICK i \in DOMAIN pending :
        /\ pending' = Without(pending, i)
        /\ lifecycle' = Append(lifecycle, [event |-> pending[i], action |-> "Canceled",
                                           related |-> NoId])
        /\ counters' = Count(counters, "canceled", 1)
        /\ UNCHANGED <<now, lastPhase, nextId>>
  BY DEF Cancel
<1>2. i \in 1..Len(pending) /\ pending[i] \in Elements(pending)
  BY ReplayFacts, SequenceIndices DEF Elements
<1>3. Elements(pending') = Elements(pending) \ {pending[i]} /\ Len(pending') = Len(pending) - 1
  BY <1>1, <1>2, ReplayFacts, WithoutProperties
<1> QED
  BY <1>1, <1>2, <1>3, LeavingReplays

(* deliver_next: the count never saturates while an event is pending.       *)
LEMMA DeliverReplays ==
  ASSUME AgendaInv, ReplayInv, DeliverNext
  PROVE  ReplayInv'
<1>1. /\ pending # <<>> /\ pending' = Tail(pending) /\ nextId' = nextId
      /\ lifecycle' = Append(lifecycle, [event |-> Head(pending), action |-> "Delivered",
                                         related |-> NoId])
      /\ counters' = IF counters["delivered"] < U64Max
                      THEN Count(counters, "delivered", 1) ELSE counters
  BY DEF DeliverNext
<1>2. /\ Head(pending) \in Elements(pending)
      /\ Elements(Tail(pending)) = Elements(pending) \ {Head(pending)}
      /\ Len(pending) > 0 /\ Len(Tail(pending)) = Len(pending) - 1
  BY <1>1, ReplayFacts, HeadIsLeast, HeadTailProperties, EmptySeq
<1>3. counters["delivered"] < U64Max
  <2>1. /\ counters["delivered"] \in Nat /\ counters["canceled"] \in Nat
        /\ counters["rescheduled"] \in Nat
    BY ReplayFacts DEF CounterNames
  <2>2. nextId <= U64Max
    BY ReplayFacts DEF Ids
  <2> QED
    BY <1>2, <2>1, <2>2, ReplayFacts DEF ReplayInv
<1> QED
  BY <1>1, <1>2, <1>3, LeavingReplays

(* reschedule: a departure and an arrival that name each other.             *)
LEMMA RescheduleReplays ==
  ASSUME AgendaInv, ReplayInv, NEW id \in Ids, NEW req \in Requests, Reschedule(id, req)
  PROVE  ReplayInv'
<1> DEFINE e == FromRequest(nextId, req, id)
<1>1. PICK i \in DOMAIN pending :
        /\ pending[i].id = id
        /\ pending' = Inserted(Without(pending, i), e)
        /\ lifecycle' = lifecycle \o
             <<[event |-> pending[i], action |-> "Rescheduled", related |-> nextId],
               [event |-> e, action |-> "Scheduled", related |-> id]>>
        /\ counters' = CountRescheduled(counters, Inserted(Without(pending, i), e))
        /\ nextId < U64Max /\ nextId' = nextId + 1 /\ ~Refuses(req)
  BY DEF Reschedule
<1> DEFINE w == Without(pending, i)
           q == Inserted(w, e)
           x == pending[i]
           left == [event |-> x, action |-> "Rescheduled", related |-> nextId]
           rec == [event |-> e, action |-> "Scheduled", related |-> id]
           P == Elements(pending) \ {x}
           c == Count(Kept(counters), "rescheduled", 1)
<1>2. i \in 1..Len(pending) /\ x \in Elements(pending) /\ x.id = id
  BY <1>1, ReplayFacts, SequenceIndices DEF Elements
<1>3. e \in Events /\ e.id = nextId
  BY <1>1, ReplayFacts, AcceptedRequest, FromRequestProperties
<1>4. nextId \in Nat /\ nextId \in Ids /\ id # NoId /\ nextId # NoId
  BY ReplayFacts DEF Ids, NoId
<1>5. /\ left \in Records /\ left.event = x /\ left.action = "Rescheduled"
      /\ left.related = nextId
  BY <1>2, <1>4, ReplayFacts DEF Records, Actions
<1>6. rec \in Records /\ rec.event = e /\ rec.action = "Scheduled" /\ rec.related = id
  BY <1>3 DEF Records, Actions
<1>7. /\ w \in Seq(Events) /\ Sorted(w) /\ Elements(w) = P /\ Len(w) = Len(pending) - 1
  BY <1>2, ReplayFacts, WithoutProperties
<1> HIDE DEF e, w
<1>8. /\ q \in Seq(Events) /\ Sorted(q) /\ Elements(q) = P \cup {e}
      /\ Len(q) = Len(pending)
  <2>1. \A k \in 1..Len(w) : w[k] \in Elements(pending)
    BY <1>7 DEF Elements
  <2>2. \A k \in 1..Len(w) : w[k].id # e.id
    BY <1>3, <2>1, ReplayFacts
  <2>3. Len(w) + 1 = Len(pending)
    BY <1>7, ReplayFacts
  <2> QED
    BY <1>3, <1>7, <2>2, <2>3, InsertedProperties
<1>9. pending' = q /\ lifecycle' = Append(Append(lifecycle, left), rec)
  <2>1. pending' = q
    BY <1>1 DEF w
  <2>2. lifecycle' = lifecycle \o <<left, rec>>
    BY <1>1
  <2> HIDE DEF left, rec
  <2>3. lifecycle \o <<left, rec>> = Append(Append(lifecycle, left), rec)
    BY <1>5, <1>6, ReplayFacts
  <2> QED
    BY <2>1, <2>2, <2>3
<1>10. counters' = Peak(Count(Count(counters, "scheduled", 1), "rescheduled", 1), q)
  BY <1>1 DEF CountRescheduled, w
<1> HIDE DEF q, left, rec, x
<1>11. AtEnd(Append(lifecycle, left)) = Ledger(P, {<<nextId, id>>}, c)
  <2>1. AtEnd(Append(lifecycle, left))
          = ReplayStep(Ledger(Elements(pending), {}, Kept(counters)), left)
    BY <1>5, ReplayFacts, ReplayOfAppend DEF ReplayInv
  <2>2. \A p \in Elements(pending) : p.id = left.event.id => p = left.event
    BY <1>2, <1>5 DEF ReplayInv
  <2>3. left.event \in Elements(pending) /\ left.related # NoId
    BY <1>2, <1>4, <1>5
  <2>4. ReplayStep(Ledger(Elements(pending), {}, Kept(counters)), left)
          = Ledger(Elements(pending) \ {left.event},
                   {y \in {} : y[1] # left.related} \cup {<<left.related, left.event.id>>}, c)
    BY <1>5, <2>2, <2>3, ReplayOfRescheduled
  <2>5. {y \in {} : y[1] # left.related} \cup {<<left.related, left.event.id>>}
          = {<<nextId, id>>}
    BY <1>2, <1>5
  <2> QED
    BY <1>5, <2>1, <2>4, <2>5
<1>12. Cardinality(P \cup {e}) = Len(pending)
  BY <1>8, SortedSize
<1> HIDE DEF P, c
<1>13. AtEnd(lifecycle') = Ledger(P \cup {e}, {}, Grown(c, Len(pending)))
  <2> DEFINE X == {<<nextId, id>>}
  <2>1. AtEnd(lifecycle') = ReplayStep(Ledger(P, X, c), rec)
    <3>1. Append(lifecycle, left) \in Seq(Records)
      BY <1>5, ReplayFacts, AppendProperties
    <3> QED
      BY <1>6, <1>9, <1>11, <3>1, ReplayOfAppend
  <2>2. \A p \in P : p.id # rec.event.id
    BY <1>3, <1>6, ReplayFacts DEF P
  <2>3. {y \in X : y[1] = rec.event.id} = X
    BY <1>3, <1>6
  <2>4. {y[2] : y \in {z \in X : z[1] = rec.event.id}} = {rec.related} \ {NoId}
    <3>1. {y[2] : y \in X} = {id}
      OBVIOUS
    <3>2. {rec.related} \ {NoId} = {id}
      BY <1>4, <1>6
    <3> HIDE DEF X
    <3> QED
      BY <2>3, <3>1, <3>2
  <2>5. X \ {y \in X : y[1] = rec.event.id} = {}
    BY <2>3
  <2> HIDE DEF X
  <2>6. ReplayStep(Ledger(P, X, c), rec) =
          Ledger(P \cup {rec.event}, X \ {y \in X : y[1] = rec.event.id},
                 Grown(c, Cardinality(P \cup {rec.event})))
    BY <1>6, <2>2, <2>4, ReplayOfScheduled
  <2> QED
    BY <1>6, <1>12, <2>1, <2>5, <2>6
<1>14. Kept(counters') = Grown(c, Len(pending))
  BY <1>8, <1>10, ReplayFacts DEF Kept, Grown, Peak, Count, Counters, CounterNames, c
<1>15. AtEnd(lifecycle') = Ledger(Elements(pending'), {}, Kept(counters'))
  BY <1>8, <1>9, <1>13, <1>14
<1>16. /\ counters["delivered"] \in Nat /\ counters["canceled"] \in Nat
       /\ counters["rescheduled"] \in Nat /\ Len(pending) \in Nat
       /\ counters["scheduled"] \in Nat /\ counters["maximumPending"] \in Nat
       /\ counters \in Counters
  BY ReplayFacts DEF CounterNames
<1>17. /\ counters'["scheduled"] = counters["scheduled"] + 1
       /\ counters'["delivered"] = counters["delivered"]
       /\ counters'["canceled"] = counters["canceled"]
       /\ counters'["rescheduled"] = counters["rescheduled"] + 1
       /\ Len(pending) <= counters'["maximumPending"]
  BY <1>8, <1>10, <1>16 DEF Peak, Count, Counters, CounterNames
<1>18. \A a, b \in Elements(pending') : a.id = b.id => a = b
  BY <1>3, <1>8, <1>9, ReplayFacts DEF ReplayInv, P
<1>19. nextId' = counters'["delivered"] + counters'["canceled"] + counters'["rescheduled"]
                   + Len(pending')
  <2>1. Len(pending') = Len(pending)
    BY <1>8, <1>9
  <2>2. nextId' = counters["delivered"] + counters["canceled"] + counters["rescheduled"]
                    + Len(pending) + 1
    BY <1>1 DEF ReplayInv
  <2> QED
    BY <1>16, <1>17, <2>1, <2>2
<1> QED
  BY <1>1, <1>8, <1>9, <1>15, <1>17, <1>18, <1>19 DEF ReplayInv

(* One count grows, the others stay.                                        *)
LEMMA CountOne ==
  ASSUME NEW c \in Counters, NEW name \in CounterNames, NEW k \in Nat
  PROVE  /\ Count(c, name, k) \in Counters
         /\ Count(c, name, k)[name] = c[name] + k
         /\ \A other \in CounterNames \ {name} : Count(c, name, k)[other] = c[other]
BY DEF Count, Counters

(* The counters after k more events, from n pending.                        *)
Many(c, n, k) ==
  [Count(c, "scheduled", k) EXCEPT !["maximumPending"] = IF n + k > @ THEN n + k ELSE @]

(* Counting k events is counting k - 1 of them and one more.                *)
LEMMA ManyGrown ==
  ASSUME NEW c \in Counters, NEW n \in Nat, NEW k \in Nat \ {0}
  PROVE  Grown(Many(c, n, k - 1), n + k) = Many(c, n, k)
BY DEF Grown, Many, Count, Counters, CounterNames

(* schedule_preordered: event after event of the trace.                     *)
LEMMA PreorderedReplays ==
  ASSUME AgendaInv, ReplayInv, NEW n \in 1..MaxTrace, NEW reqs \in [1..n -> Requests],
         SchedulePreordered(reqs)
  PROVE  ReplayInv'
<1> DEFINE added == [i \in DOMAIN reqs |-> FromRequest(nextId + i - 1, reqs[i], NoId)]
           new == [i \in DOMAIN reqs |-> Scheduled(added[i])]
           q == Merged(pending, added)
           all == lifecycle \o new
           L == Len(lifecycle)
           m == Len(pending)
           P(k) == Elements(pending) \cup {added[j] : j \in 1..k}
           f == Replays(all)
           c == Kept(counters)
<1>1. /\ n \in Nat /\ nextId \in Nat /\ nextId' = nextId + n
      /\ \A i \in 1..n : /\ added[i] \in Events /\ added[i].id = nextId + i - 1
                         /\ new[i] = Scheduled(added[i])
  BY PreorderedFacts
<1>2. /\ pending' = q /\ lifecycle' = all
      /\ counters' = Peak(Count(Count(counters, "scheduled", n), "preordered", n), q)
  BY PreorderedFacts
<1>3. added \in Seq(Events) /\ Len(added) = n /\ new \in Seq(Records) /\ Len(new) = n
  BY PreorderedFacts
<1>4. /\ q \in Seq(Events) /\ Sorted(q) /\ Len(q) = m + n
      /\ Elements(q) = Elements(pending) \cup Elements(added)
  BY PreorderedFacts
<1> HIDE DEF added, new, q
<1>5. /\ lifecycle \in Seq(Records) /\ L \in Nat /\ m \in Nat /\ c \in Counters
      /\ counters \in Counters
  BY ReplayFacts, SequenceIndices, CountsKept
<1>6. /\ all \in Seq(Records) /\ Len(all) = L + n
      /\ \A i \in 1..n : all[L + i] = new[i]
  <2>1. lifecycle \in Seq(Records) /\ new \in Seq(Records) /\ Len(new) = n
    BY <1>3, <1>5
  <2>2. /\ all \in Seq(Records) /\ Len(all) = Len(lifecycle) + Len(new)
        /\ \A i \in 1..Len(lifecycle) + Len(new) :
             all[i] = IF i <= Len(lifecycle) THEN lifecycle[i] ELSE new[i - Len(lifecycle)]
    BY <2>1, ConcatProperties
  <2>3. L + n = Len(lifecycle) + Len(new)
    BY <2>1
  <2> HIDE DEF all
  <2>4. ASSUME NEW i \in 1..n
        PROVE  all[L + i] = new[i]
    <3>1. /\ L + i \in 1..Len(lifecycle) + Len(new) /\ ~(L + i <= Len(lifecycle))
          /\ (L + i) - Len(lifecycle) = i
      BY <1>1, <1>5, <2>1
    <3> QED
      BY <2>2, <3>1
  <2> QED
    BY <2>2, <2>3, <2>4
<1>7. f[L] = Ledger(Elements(pending), {}, c)
  <2>1. L \in 0..L
    BY <1>5
  <2>2. f[L] = Replays(lifecycle)[L]
    BY <1>3, <1>5, <2>1, ReplaysOfPrefix
  <2> QED
    BY <2>2 DEF ReplayInv, AtEnd
<1>8. \A k \in 1..n : f[L + k] = ReplayStep(f[L + k - 1], Scheduled(added[k]))
  <2>1. \A k \in 1..Len(all) : f[k] = ReplayStep(f[k - 1], all[k])
    BY <1>6, ReplaysRun
  <2> HIDE DEF all, f, L
  <2>2. ASSUME NEW k \in 1..n
        PROVE  L + k \in 1..Len(all) /\ all[L + k] = Scheduled(added[k])
    BY <1>1, <1>5, <1>6
  <2>3. ASSUME NEW k \in 1..n
        PROVE  f[L + k] = ReplayStep(f[L + k - 1], Scheduled(added[k]))
    <3>1. f[L + k] = ReplayStep(f[(L + k) - 1], all[L + k])
      BY <2>1, <2>2
    <3>2. all[L + k] = Scheduled(added[k])
      BY <2>2
    <3>3. (L + k) - 1 = L + k - 1
      BY <1>1, <1>5
    <3> QED
      BY <3>1, <3>2, <3>3
  <2> QED
    BY <2>3
<1> HIDE DEF f, all, L, c
<1>9. Many(c, m, 0) = c
  <2>1. m <= c["maximumPending"]
    BY <1>5 DEF ReplayInv, Kept, Counters, CounterNames, c
  <2> QED
    BY <1>5, <2>1 DEF Many, Count, Counters, CounterNames
<1> DEFINE Holds(k) == /\ f[L + k] = Ledger(P(k), {}, Many(c, m, k))
                       /\ IsFiniteSet(P(k)) /\ Cardinality(P(k)) = m + k
           S == {k \in 0..n : Holds(k)}
<1>10. 0 \in S
  <2>1. P(0) = Elements(pending) /\ L + 0 = L
    BY <1>5
  <2>2. IsFiniteSet(Elements(pending)) /\ Cardinality(Elements(pending)) = m
    <3>1. pending \in Seq(Events) /\ Sorted(pending)
      BY ReplayFacts
    <3> QED
      BY <3>1, SortedSize
  <2> HIDE DEF m, P
  <2>3. f[L + 0] = Ledger(P(0), {}, Many(c, m, 0))
    BY <1>7, <1>9, <2>1
  <2>4. m + 0 = m /\ 0 \in 0..n
    BY <1>1, <1>5
  <2> QED
    BY <2>1, <2>2, <2>3, <2>4
<1>11. ASSUME NEW k \in 1..n, k - 1 \in S
       PROVE  k \in S
  <2> DEFINE e == added[k]
             rec == Scheduled(e)
  <2>1. P(k) = P(k - 1) \cup {e}
    <3>1. 1..k = (1..k - 1) \cup {k}
      BY <1>1
    <3> QED
      BY <3>1
  <2>2. \A p \in P(k - 1) : p.id # e.id
    <3>1. e.id = nextId + k - 1
      BY <1>1
    <3>2. \A p \in Elements(pending) : p.id # e.id
      BY <1>1, <3>1, ReplayFacts
    <3>3. \A j \in 1..k - 1 : added[j].id # e.id
      BY <1>1, <3>1
    <3> QED
      BY <3>2, <3>3
  <2>3. rec.action = "Scheduled" /\ rec.event = e /\ rec.related = NoId
    BY DEF Scheduled
  <2>4. Holds(k - 1)
    BY <1>11
  <2>5. /\ IsFiniteSet(P(k)) /\ Cardinality(P(k)) = m + k
    <3>1. e \notin P(k - 1)
      BY <2>2
    <3>2. IsFiniteSet(P(k - 1)) /\ Cardinality(P(k - 1)) = m + (k - 1)
      BY <2>4
    <3> HIDE DEF P, e
    <3>3. /\ IsFiniteSet(P(k - 1) \cup {e})
          /\ Cardinality(P(k - 1) \cup {e}) = Cardinality(P(k - 1)) + 1
      BY <3>1, <3>2, FS_AddElement
    <3> QED
      BY <1>1, <1>5, <2>1, <3>2, <3>3
  <2> HIDE DEF P, e, rec
  <2>6. f[L + k] = ReplayStep(Ledger(P(k - 1), {}, Many(c, m, k - 1)), rec)
    <3>1. L + (k - 1) = L + k - 1
      BY <1>1, <1>5
    <3> QED
      BY <1>8, <2>4, <3>1 DEF rec, e
  <2>7. {y[2] : y \in {z \in {} : z[1] = rec.event.id}} = {rec.related} \ {NoId}
    BY <2>3
  <2>8. ReplayStep(Ledger(P(k - 1), {}, Many(c, m, k - 1)), rec)
          = Ledger(P(k - 1) \cup {rec.event}, {} \ {y \in {} : y[1] = rec.event.id},
                   Grown(Many(c, m, k - 1), Cardinality(P(k - 1) \cup {rec.event})))
    BY <2>2, <2>3, <2>7, ReplayOfScheduled
  <2>9. Grown(Many(c, m, k - 1), m + k) = Many(c, m, k)
    BY <1>1, <1>5, ManyGrown
  <2>10. f[L + k] = Ledger(P(k), {}, Many(c, m, k))
    BY <2>1, <2>3, <2>5, <2>6, <2>8, <2>9
  <2> QED
    BY <2>5, <2>10
<1> HIDE DEF S
<1>12. \A k \in 0..n : k \in S
  BY <1>1, <1>10, <1>11, UpTo
<1>13. f[L + n] = Ledger(P(n), {}, Many(c, m, n))
  <2>1. n \in S
    BY <1>1, <1>12
  <2> QED
    BY <2>1 DEF S
<1>14. P(n) = Elements(q)
  BY <1>3, <1>4 DEF Elements
<1>15. Kept(counters') = Many(c, m, n)
  BY <1>1, <1>2, <1>4, <1>5 DEF Many, Kept, Peak, Count, Counters, CounterNames, c
<1>16. AtEnd(lifecycle') = Ledger(Elements(pending'), {}, Kept(counters'))
  <2>1. AtEnd(all) = f[L + n]
    BY <1>6 DEF AtEnd, f
  <2> QED
    BY <1>2, <1>13, <1>14, <1>15, <2>1
<1>17. /\ counters["delivered"] \in Nat /\ counters["canceled"] \in Nat
       /\ counters["rescheduled"] \in Nat /\ counters["scheduled"] \in Nat
  BY ReplayFacts DEF CounterNames
<1>18. /\ counters'["scheduled"] = counters["scheduled"] + n
       /\ counters'["delivered"] = counters["delivered"]
       /\ counters'["canceled"] = counters["canceled"]
       /\ counters'["rescheduled"] = counters["rescheduled"]
       /\ Len(q) <= counters'["maximumPending"]
  <2> DEFINE d == Count(Count(counters, "scheduled", n), "preordered", n)
  <2>1. Len(q) \in Nat
    BY <1>1, <1>4, <1>5
  <2>2. /\ d \in Counters /\ d["scheduled"] = counters["scheduled"] + n
        /\ \A name \in {"delivered", "canceled", "rescheduled"} : d[name] = counters[name]
    <3> DEFINE b == Count(counters, "scheduled", n)
    <3>1. /\ b \in Counters /\ b["scheduled"] = counters["scheduled"] + n
          /\ \A name \in {"delivered", "canceled", "rescheduled"} : b[name] = counters[name]
      BY <1>1, <1>5, CountOne DEF CounterNames
    <3>2. d = Count(b, "preordered", n)
      OBVIOUS
    <3> HIDE DEF b, d
    <3>3. "preordered" \in CounterNames /\ b \in Counters /\ n \in Nat
      BY <1>1, <3>1 DEF CounterNames
    <3>4. /\ d \in Counters
          /\ \A other \in CounterNames \ {"preordered"} : d[other] = b[other]
      BY <3>2, <3>3, CountOne
    <3> QED
      BY <3>1, <3>4 DEF CounterNames
  <2>3. counters' = Peak(d, q)
    BY <1>2
  <2> HIDE DEF d
  <2>4. d["maximumPending"] \in Nat
    BY <2>2 DEF Counters, CounterNames
  <2>5. /\ \A name \in CounterNames \ {"maximumPending"} : counters'[name] = d[name]
        /\ Len(q) <= counters'["maximumPending"]
    BY <2>1, <2>2, <2>3, <2>4 DEF Peak, Counters, CounterNames
  <2> QED
    BY <2>2, <2>5 DEF CounterNames
<1>19. \A a, b \in Elements(pending') : a.id = b.id => a = b
  <2>1. \A a, b \in Elements(added) : a.id = b.id => a = b
    BY <1>1, <1>3 DEF Elements
  <2>2. \A a \in Elements(pending), b \in Elements(added) : a.id # b.id
    <3>1. \A b \in Elements(added) : b.id \in Int /\ b.id >= nextId
      BY <1>1, <1>3 DEF Elements
    <3> QED
      BY <1>1, <3>1, ReplayFacts
  <2> QED
    BY <1>2, <1>4, <2>1, <2>2 DEF ReplayInv
<1>20. nextId' = counters'["delivered"] + counters'["canceled"] + counters'["rescheduled"]
                   + Len(pending')
  <2> DEFINE gone == counters["delivered"] + counters["canceled"] + counters["rescheduled"]
  <2>1. gone \in Nat /\ nextId = gone + m
    BY <1>17 DEF ReplayInv
  <2>2. counters'["delivered"] + counters'["canceled"] + counters'["rescheduled"] = gone
    BY <1>18
  <2> HIDE DEF gone
  <2> QED
    BY <1>1, <1>2, <1>4, <1>5, <2>1, <2>2
<1>21. counters'["scheduled"] = nextId' /\ Len(pending') <= counters'["maximumPending"]
  BY <1>1, <1>2, <1>18 DEF ReplayInv
<1> QED
  BY <1>16, <1>19, <1>20, <1>21 DEF ReplayInv

(* Every step of an agenda leaves a log its verification accepts.           *)
LEMMA NextReplays ==
  ASSUME AgendaInv, ReplayInv, [Next]_vars
  PROVE  ReplayInv'
<1>1. CASE UNCHANGED <<nextId, pending, lifecycle, counters>>
  BY <1>1 DEF ReplayInv
<1>2. CASE \E req \in Requests : Schedule(req)
  BY <1>2, ScheduleReplays
<1>3. CASE \E n \in 1..MaxTrace : \E reqs \in [1..n -> Requests] : SchedulePreordered(reqs)
  BY <1>3, PreorderedReplays
<1>4. CASE \E id \in Ids : Cancel(id)
  BY <1>4, CancelReplays
<1>5. CASE \E id \in Ids, req \in Requests : Reschedule(id, req)
  BY <1>5, RescheduleReplays
<1>6. CASE DeliverNext
  BY <1>6, DeliverReplays
<1> QED
  BY <1>1, <1>2, <1>3, <1>4, <1>5, <1>6 DEF Next, Requesting, AdvanceTime, vars

(* verify_lifecycle accepts every agenda the operations can produce: its    *)
(* log alone gives the deque and the counters, replacements included, and   *)
(* no count saturates on the way.                                           *)
THEOREM AgendaReplays == Spec => []LifecycleReplays
<1>1. AgendaInv /\ ReplayInv => LifecycleReplays
  <2> SUFFICES ASSUME AgendaInv, ReplayInv
               PROVE  VerifyLifecycle
    BY DEF LifecycleReplays
  <2> DEFINE end == AtEnd(lifecycle)
  <2>1. end = Ledger(Elements(pending), {}, Kept(counters)) /\ Sorted(pending)
    BY ReplayFacts DEF ReplayInv
  <2>2. [Kept(counters) EXCEPT !["preordered"] = counters["preordered"]] = counters
    BY ReplayFacts DEF Kept, Counters, CounterNames
  <2> QED
    BY <2>1, <2>2 DEF VerifyLifecycle, AtEnd, Ledger
<1>2. Init => ReplayInv
  BY InitReplays
<1>3. AgendaInv /\ ReplayInv /\ [Next]_vars => ReplayInv'
  BY NextReplays
<1> QED
  BY <1>1, <1>2, <1>3, AgendaInvariant, PTL DEF Spec

(*************************** Behavioral callbacks **************************)

(* Every step of the runtimes is a call of the agenda or leaves it alone.   *)
LEMMA StepsAreCalls == [BehaviorNext]_behaviorVars => [Next]_vars
BY DEF BehaviorNext, behaviorVars, Authoring, RegisterHandler, RegisterTask, Deliver, Dispatch,
       DispatchAsync, CallbackStep, EmitAt, CancelEvent, RescheduleEvent, HandlerReturns,
       TaskWaits, TaskCompletes, Next, Requesting

(* Authors and callbacks use the agenda through its operations only, in     *)
(* whatever order callbacks of both runtimes are resumed: what is proved of *)
(* the agenda holds of it under them.                                       *)
THEOREM CallbacksUseAnAgenda == BehaviorSpec => Spec
<1>1. BehaviorInit => Init
  BY DEF BehaviorInit
<1> QED
  BY <1>1, StepsAreCalls, PTL DEF BehaviorSpec, Spec

-----------------------------------------------------------------------------
(* What the log says of identities.                                        *)

IsScheduling(log, i) == log[i].action = "Scheduled"

(* Every identity below n was scheduled once, before it left or was         *)
(* delivered, and as the event it still is in the log and in `held`.        *)
LogSound(log, n, held) ==
  /\ \A id \in 0..n - 1 : \E i \in 1..Len(log) : IsScheduling(log, i) /\ log[i].event.id = id
  /\ \A i \in 1..Len(log) : log[i].event.id < n
  /\ \A i, j \in 1..Len(log) :
       IsScheduling(log, i) /\ log[i].event.id = log[j].event.id
         => i <= j /\ log[i].event = log[j].event
  /\ \A i \in 1..Len(log) : \A e \in held :
       IsScheduling(log, i) /\ log[i].event.id = e.id => log[i].event = e

(* What one call adds to the log when the pending events were `held` and    *)
(* are `kept`: one schedule for every identity handed out, and other        *)
(* records of pending events only.                                          *)
Continues(new, n, m, held, kept) ==
  /\ m \in Nat /\ n <= m
  /\ \A id \in n..m - 1 : \E j \in 1..Len(new) : IsScheduling(new, j) /\ new[j].event.id = id
  /\ \A j \in 1..Len(new) : IsScheduling(new, j) => new[j].event.id \in n..m - 1
  /\ \A j \in 1..Len(new) : ~IsScheduling(new, j) => new[j].event \in held
  /\ \A i, j \in 1..Len(new) :
       IsScheduling(new, i) /\ IsScheduling(new, j) /\ new[i].event.id = new[j].event.id => i = j
  /\ \A e \in kept : e \in held \/ \E j \in 1..Len(new) : IsScheduling(new, j) /\ new[j].event = e

(* The events of a log.                                                     *)
LEMMA LogEvents ==
  ASSUME NEW log \in Seq(Records)
  PROVE  \A i \in 1..Len(log) : /\ log[i] \in Records /\ log[i].event \in Events
                                /\ log[i].event.id \in Int
<1> SUFFICES ASSUME NEW i \in 1..Len(log)
             PROVE  log[i] \in Records /\ log[i].event \in Events /\ log[i].event.id \in Int
  OBVIOUS
<1>1. log[i] \in Records
  BY SequenceIndices
<1>2. log[i].event \in Events
  BY <1>1 DEF Records
<1> QED
  BY <1>1, <1>2, EventFields

(* The records of a log that has grown.                                     *)
LEMMA GrownLog ==
  ASSUME NEW log \in Seq(Records), NEW new \in Seq(Records)
  PROVE  /\ log \o new \in Seq(Records)
         /\ Len(log) \in Nat /\ Len(new) \in Nat
         /\ Len(log \o new) = Len(log) + Len(new)
         /\ \A i \in 1..Len(log) : i \in 1..Len(log \o new) /\ (log \o new)[i] = log[i]
         /\ \A k \in 1..Len(new) : /\ Len(log) + k \in 1..Len(log \o new)
                                   /\ (log \o new)[Len(log) + k] = new[k]
         /\ \A i \in 1..Len(log \o new) :
              i \in 1..Len(log) \/ \E k \in 1..Len(new) : i = Len(log) + k
<1>1. Len(log) \in Nat /\ Len(new) \in Nat
  BY SequenceIndices
<1>2. /\ log \o new \in Seq(Records)
      /\ Len(log \o new) = Len(log) + Len(new)
      /\ \A i \in 1..Len(log) + Len(new) :
           (log \o new)[i] = IF i <= Len(log) THEN log[i] ELSE new[i - Len(log)]
  BY ConcatProperties
<1> DEFINE all == log \o new
           n == Len(log)
           m == Len(new)
<1> HIDE DEF all
<1>3. \A i \in 1..n : i \in 1..Len(all) /\ all[i] = log[i]
  BY <1>1, <1>2 DEF all
<1>4. \A k \in 1..m : n + k \in 1..Len(all) /\ all[n + k] = new[k]
  <2> SUFFICES ASSUME NEW k \in 1..m
               PROVE  n + k \in 1..Len(all) /\ all[n + k] = new[k]
    OBVIOUS
  <2>1. n + k \in 1..n + m /\ ~(n + k <= n) /\ (n + k) - n = k
    BY <1>1
  <2> QED
    BY <1>2, <2>1 DEF all
<1>5. \A i \in 1..Len(all) : i \in 1..n \/ \E k \in 1..m : i = n + k
  <2> SUFFICES ASSUME NEW i \in 1..n + m, i \notin 1..n
               PROVE  \E k \in 1..m : i = n + k
    BY <1>2 DEF all
  <2>1. i - n \in 1..m /\ i = n + (i - n)
    BY <1>1
  <2> QED
    BY <2>1
<1> QED
  BY <1>1, <1>2, <1>3, <1>4, <1>5 DEF all

(* A call keeps the log sound.                                              *)
LEMMA ContinuedLogSound ==
  ASSUME NEW log \in Seq(Records), NEW new \in Seq(Records), NEW n \in Nat, NEW m,
         NEW held, NEW kept, LogSound(log, n, held), Continues(new, n, m, held, kept),
         \A e \in held : e.id < n
  PROVE  LogSound(log \o new, m, kept)
<1> DEFINE all == log \o new
           L == Len(log)
<1>1. /\ L \in Nat /\ m \in Nat /\ n <= m
      /\ \A i \in 1..L : i \in 1..Len(all) /\ all[i] = log[i]
      /\ \A k \in 1..Len(new) : L + k \in 1..Len(all) /\ all[L + k] = new[k]
      /\ \A i \in 1..Len(all) : i \in 1..L \/ \E k \in 1..Len(new) : i = L + k
  BY GrownLog DEF Continues
<1>2. /\ \A i \in 1..L : log[i].event.id \in Int /\ log[i].event.id < n
      /\ \A k \in 1..Len(new) : new[k].event.id \in Int
  BY LogEvents DEF LogSound
<1> HIDE DEF all, L
<1>3. \A id \in 0..m - 1 : \E i \in 1..Len(all) : IsScheduling(all, i) /\ all[i].event.id = id
  <2> SUFFICES ASSUME NEW id \in 0..m - 1
               PROVE  \E i \in 1..Len(all) : IsScheduling(all, i) /\ all[i].event.id = id
    OBVIOUS
  <2>1. CASE id < n
    <3>1. PICK i \in 1..L : IsScheduling(log, i) /\ log[i].event.id = id
      BY <2>1 DEF LogSound, L
    <3> QED
      BY <1>1, <3>1 DEF IsScheduling
  <2>2. CASE ~(id < n)
    <3>1. id \in n..m - 1
      BY <1>1, <2>2
    <3>2. PICK k \in 1..Len(new) : IsScheduling(new, k) /\ new[k].event.id = id
      BY <3>1 DEF Continues
    <3> QED
      BY <1>1, <3>2 DEF IsScheduling
  <2> QED
    BY <2>1, <2>2
<1>4. \A k \in 1..Len(new) :
        IF IsScheduling(new, k) THEN n <= new[k].event.id /\ new[k].event.id < m
                             ELSE new[k].event \in held /\ new[k].event.id < n
  BY <1>1, <1>2 DEF Continues
<1>5. \A i \in 1..Len(all) : all[i].event.id < m
  <2> SUFFICES ASSUME NEW i \in 1..Len(all)
               PROVE  all[i].event.id < m
    OBVIOUS
  <2>1. CASE i \in 1..L
    BY <1>1, <1>2, <2>1
  <2>2. CASE i \notin 1..L
    <3>1. PICK k \in 1..Len(new) : i = L + k
      BY <1>1, <2>2
    <3>2. new[k].event.id < m
      <4>1. /\ new[k].event.id \in Int
            /\ new[k].event.id < n \/ new[k].event.id < m
        BY <1>2, <1>4
      <4> QED
        BY <1>1, <4>1
    <3> QED
      BY <1>1, <3>1, <3>2
  <2> QED
    BY <2>1, <2>2
<1>6. \A i, j \in 1..Len(all) :
        IsScheduling(all, i) /\ all[i].event.id = all[j].event.id
          => i <= j /\ all[i].event = all[j].event
  <2> SUFFICES ASSUME NEW i \in 1..Len(all), NEW j \in 1..Len(all), IsScheduling(all, i),
                      all[i].event.id = all[j].event.id
               PROVE  i <= j /\ all[i].event = all[j].event
    OBVIOUS
  <2>1. CASE i \in 1..L /\ j \in 1..L
    BY <1>1, <2>1 DEF LogSound, IsScheduling, L
  <2>2. CASE i \in 1..L /\ j \notin 1..L
    <3>1. PICK k \in 1..Len(new) : j = L + k
      BY <1>1, <2>2
    <3>2. IsScheduling(log, i) /\ log[i].event.id = new[k].event.id
      BY <1>1, <2>2, <3>1 DEF IsScheduling
    <3>3. new[k].event \in held
      BY <1>2, <1>4, <2>2, <3>2
    <3>4. log[i].event = new[k].event
      BY <2>2, <3>2, <3>3 DEF LogSound, L
    <3>5. i <= j
      BY <1>1, <2>2, <3>1
    <3> QED
      BY <1>1, <2>2, <3>1, <3>4, <3>5
  <2>3. CASE i \notin 1..L
    <3>1. PICK k \in 1..Len(new) : i = L + k
      BY <1>1, <2>3
    <3>2. IsScheduling(new, k) /\ n <= new[k].event.id /\ all[i] = new[k]
      BY <1>1, <1>4, <3>1 DEF IsScheduling
    <3>3. j \notin 1..L
      <4> SUFFICES ASSUME j \in 1..L
                   PROVE  FALSE
        OBVIOUS
      <4>1. log[j].event.id < n /\ log[j].event.id = new[k].event.id
        BY <1>1, <1>2, <3>2
      <4> QED
        BY <1>2, <3>2, <4>1
    <3>4. PICK l \in 1..Len(new) : j = L + l
      BY <1>1, <3>3
    <3>5. all[j] = new[l]
      BY <1>1, <3>4
    <3>6. IsScheduling(new, l)
      BY <1>2, <1>4, <3>2, <3>5
    <3>7. k = l
      BY <3>2, <3>5, <3>6 DEF Continues
    <3> QED
      BY <1>1, <3>1, <3>4, <3>7
  <2> QED
    BY <2>1, <2>2, <2>3
<1>7. \A i \in 1..Len(all) : \A e \in kept :
        IsScheduling(all, i) /\ all[i].event.id = e.id => all[i].event = e
  <2> SUFFICES ASSUME NEW i \in 1..Len(all), NEW e \in kept, IsScheduling(all, i),
                      all[i].event.id = e.id
               PROVE  all[i].event = e
    OBVIOUS
  <2>1. CASE e \in held
    <3>1. i \in 1..L
      <4>1. ASSUME NEW k \in 1..Len(new), i = L + k
            PROVE  FALSE
        BY <1>1, <1>2, <1>4, <2>1, <4>1 DEF IsScheduling
      <4> QED
        BY <1>1, <4>1
    <3> QED
      BY <1>1, <2>1, <3>1 DEF LogSound, IsScheduling, L
  <2>2. CASE e \notin held
    <3>1. PICK k \in 1..Len(new) : IsScheduling(new, k) /\ new[k].event = e
      BY <2>2 DEF Continues
    <3>2. IsScheduling(all, L + k) /\ all[L + k].event = e /\ L + k \in 1..Len(all)
      BY <1>1, <3>1 DEF IsScheduling
    <3> QED
      BY <1>6, <3>2
  <2> QED
    BY <2>1, <2>2
<1> QED
  BY <1>3, <1>5, <1>6, <1>7 DEF LogSound, all

(* What one more record says.                                               *)
LEMMA OneMore ==
  ASSUME NEW log \in Seq(Records), NEW rec \in Records
  PROVE  /\ Append(log, rec) = log \o <<rec>> /\ <<rec>> \in Seq(Records)
         /\ Len(<<rec>>) = 1 /\ <<rec>>[1] = rec /\ 1..Len(<<rec>>) = {1}
<1>1. Append(log, rec) = log \o <<rec>>
  BY AppendIsConcat
<1> QED
  BY <1>1

(* schedule logs the one identity it hands out.                             *)
LEMMA ScheduleContinues ==
  ASSUME AgendaInv, NEW req \in Requests, Schedule(req)
  PROVE  \E new \in Seq(Records) :
           /\ lifecycle' = lifecycle \o new
           /\ Continues(new, nextId, nextId', Elements(pending), Elements(pending'))
<1> DEFINE e == FromRequest(nextId, req, NoId)
           rec == Scheduled(e)
           new == <<rec>>
<1>1. /\ pending' = Inserted(pending, e) /\ lifecycle' = Append(lifecycle, rec)
      /\ nextId' = nextId + 1 /\ ~Refuses(req)
  BY DEF Schedule
<1>2. nextId \in Nat /\ nextId \in Ids /\ lifecycle \in Seq(Records)
  BY PendingFacts
<1>3. e \in Events /\ e.id = nextId /\ rec \in Records
  BY <1>1, <1>2, AcceptedRequest, FromRequestProperties
<1>4. rec.action = "Scheduled" /\ rec.event = e
  BY DEF Scheduled
<1> HIDE DEF e, rec
<1>5. Elements(pending') = Elements(pending) \cup {e}
  <2>1. \A i \in 1..Len(pending) : pending[i].id # e.id
    BY <1>2, <1>3, PendingFacts, EventFields
  <2> QED
    BY <1>1, <1>3, <2>1, PendingFacts, InsertedProperties
<1>6. /\ lifecycle' = lifecycle \o new /\ new \in Seq(Records)
      /\ new[1] = rec /\ 1..Len(new) = {1}
  BY <1>1, <1>2, <1>3, OneMore
<1> HIDE DEF new
<1>7. nextId + 1 \in Nat /\ nextId..(nextId + 1) - 1 = {nextId} /\ nextId <= nextId + 1
  BY <1>2
<1>8. Continues(new, nextId, nextId', Elements(pending), Elements(pending'))
  BY <1>1, <1>3, <1>4, <1>5, <1>6, <1>7 DEF Continues, IsScheduling
<1> QED
  BY <1>6, <1>8

(* schedule_preordered logs every identity it hands out, in their order.    *)
LEMMA PreorderedContinues ==
  ASSUME AgendaInv, NEW n \in 1..MaxTrace, NEW reqs \in [1..n -> Requests],
         SchedulePreordered(reqs)
  PROVE  \E new \in Seq(Records) :
           /\ lifecycle' = lifecycle \o new
           /\ Continues(new, nextId, nextId', Elements(pending), Elements(pending'))
<1> DEFINE added == [i \in DOMAIN reqs |-> FromRequest(nextId + i - 1, reqs[i], NoId)]
           new == [i \in DOMAIN reqs |-> Scheduled(added[i])]
           q == Merged(pending, added)
<1>1. /\ n \in Nat /\ nextId \in Nat /\ nextId' = nextId + n
      /\ \A i \in 1..n : /\ added[i] \in Events /\ added[i].id = nextId + i - 1
                         /\ new[i] = Scheduled(added[i])
  BY PreorderedFacts
<1>2. pending' = q /\ lifecycle' = lifecycle \o new
  BY PreorderedFacts
<1>3. added \in Seq(Events) /\ Len(added) = n /\ new \in Seq(Records) /\ Len(new) = n
  BY PreorderedFacts
<1>4. Elements(q) = Elements(pending) \cup Elements(added)
  BY PreorderedFacts
<1> HIDE DEF added, new, q
<1>5. \A i \in 1..n : /\ IsScheduling(new, i) /\ new[i].event = added[i]
                      /\ new[i].event.id = nextId + (i - 1)
  <2> SUFFICES ASSUME NEW i \in 1..n
               PROVE  /\ IsScheduling(new, i) /\ new[i].event = added[i]
                      /\ new[i].event.id = nextId + (i - 1)
    OBVIOUS
  <2>1. new[i] = Scheduled(added[i]) /\ added[i].id = nextId + i - 1
    BY <1>1
  <2>2. Scheduled(added[i]).action = "Scheduled" /\ Scheduled(added[i]).event = added[i]
    BY DEF Scheduled
  <2> QED
    BY <2>1, <2>2 DEF IsScheduling
<1>6. \A id \in nextId..(nextId + n) - 1 : \E i \in 1..n : id = nextId + (i - 1)
  <2> SUFFICES ASSUME NEW id \in nextId..(nextId + n) - 1
               PROVE  \E i \in 1..n : id = nextId + (i - 1)
    OBVIOUS
  <2>1. id - nextId + 1 \in 1..n /\ id = nextId + ((id - nextId + 1) - 1)
    BY <1>1
  <2> QED
    BY <2>1
<1>7. /\ \A i \in 1..n : nextId + (i - 1) \in nextId..(nextId + n) - 1
      /\ \A i, j \in 1..n : nextId + (i - 1) = nextId + (j - 1) => i = j
      /\ nextId + n \in Nat /\ nextId <= nextId + n
  BY <1>1
<1>8. \A e \in Elements(pending') :
        e \in Elements(pending) \/ \E j \in 1..Len(new) : IsScheduling(new, j) /\ new[j].event = e
  <2> SUFFICES ASSUME NEW e \in Elements(added)
               PROVE  \E j \in 1..Len(new) : IsScheduling(new, j) /\ new[j].event = e
    BY <1>2, <1>4
  <2>1. PICK j \in 1..n : added[j] = e
    BY <1>3 DEF Elements
  <2> QED
    BY <1>3, <1>5, <2>1
<1>9. Continues(new, nextId, nextId', Elements(pending), Elements(pending'))
  <2>1. Len(new) = n
    BY <1>3
  <2> HIDE DEF IsScheduling
  <2>2. \A id \in nextId..(nextId + n) - 1 :
          \E j \in 1..Len(new) : IsScheduling(new, j) /\ new[j].event.id = id
    BY <1>5, <1>6, <2>1
  <2>3. \A j \in 1..Len(new) : /\ IsScheduling(new, j)
                               /\ new[j].event.id \in nextId..(nextId + n) - 1
    BY <1>5, <1>7, <2>1
  <2>4. \A i, j \in 1..Len(new) : new[i].event.id = new[j].event.id => i = j
    <3> SUFFICES ASSUME NEW i \in 1..n, NEW j \in 1..n, new[i].event.id = new[j].event.id
                 PROVE  i = j
      BY <2>1
    <3>1. nextId + (i - 1) = nextId + (j - 1)
      BY <1>5
    <3> QED
      BY <1>7, <3>1
  <2> QED
    BY <1>1, <1>7, <1>8, <2>2, <2>3, <2>4 DEF Continues
<1> QED
  BY <1>2, <1>3, <1>9

(* cancel and deliver_next log the pending event they take.                 *)
LEMMA LeavingContinues ==
  ASSUME AgendaInv, NEW rec \in Records, rec.action # "Scheduled",
         rec.event \in Elements(pending), Elements(pending') \subseteq Elements(pending),
         lifecycle' = Append(lifecycle, rec), nextId' = nextId
  PROVE  \E new \in Seq(Records) :
           /\ lifecycle' = lifecycle \o new
           /\ Continues(new, nextId, nextId', Elements(pending), Elements(pending'))
<1> DEFINE new == <<rec>>
<1>1. nextId \in Nat /\ lifecycle \in Seq(Records)
  BY PendingFacts
<1>2. /\ lifecycle' = lifecycle \o new /\ new \in Seq(Records)
      /\ new[1] = rec /\ 1..Len(new) = {1}
  BY <1>1, OneMore
<1> HIDE DEF new
<1>3. nextId..nextId - 1 = {} /\ nextId <= nextId
  BY <1>1
<1>4. Continues(new, nextId, nextId', Elements(pending), Elements(pending'))
  BY <1>1, <1>2, <1>3 DEF Continues, IsScheduling
<1> QED
  BY <1>2, <1>4

(* reschedule logs the event it takes, then the one that replaces it.       *)
LEMMA RescheduleContinues ==
  ASSUME AgendaInv, NEW id \in Ids, NEW req \in Requests, Reschedule(id, req)
  PROVE  \E new \in Seq(Records) :
           /\ lifecycle' = lifecycle \o new
           /\ Continues(new, nextId, nextId', Elements(pending), Elements(pending'))
<1> DEFINE e == FromRequest(nextId, req, id)
<1>1. PICK i \in DOMAIN pending :
        /\ pending' = Inserted(Without(pending, i), e)
        /\ lifecycle' = lifecycle \o
             <<[event |-> pending[i], action |-> "Rescheduled", related |-> nextId],
               [event |-> e, action |-> "Scheduled", related |-> id]>>
        /\ nextId' = nextId + 1 /\ ~Refuses(req)
  BY DEF Reschedule
<1> DEFINE left == [event |-> pending[i], action |-> "Rescheduled", related |-> nextId]
           rec == [event |-> e, action |-> "Scheduled", related |-> id]
           new == <<left, rec>>
<1>2. nextId \in Nat /\ nextId \in Ids /\ lifecycle \in Seq(Records)
  BY PendingFacts
<1>3. i \in 1..Len(pending) /\ pending[i] \in Events /\ pending[i] \in Elements(pending)
  BY <1>1, PendingFacts, SequenceIndices DEF Elements
<1>4. e \in Events /\ e.id = nextId
  BY <1>1, <1>2, AcceptedRequest, FromRequestProperties
<1>5. /\ left \in Records /\ left.event = pending[i] /\ left.action = "Rescheduled"
      /\ rec \in Records /\ rec.event = e /\ rec.action = "Scheduled"
  BY <1>2, <1>3, <1>4 DEF Records, Actions
<1> HIDE DEF e, left, rec
<1>6. Elements(pending') = (Elements(pending) \ {pending[i]}) \cup {e}
  <2> DEFINE w == Without(pending, i)
  <2>1. w \in Seq(Events) /\ Sorted(w) /\ Elements(w) = Elements(pending) \ {pending[i]}
    BY <1>3, PendingFacts, WithoutProperties
  <2> HIDE DEF w
  <2>2. \A x \in Elements(pending) : x.id # e.id
    BY <1>2, <1>4, PendingFacts, EventFields DEF Elements
  <2>3. \A k \in 1..Len(w) : w[k].id # e.id
    BY <2>1, <2>2 DEF Elements
  <2> QED
    BY <1>1, <1>4, <2>1, <2>3, InsertedProperties DEF w
<1>7. /\ lifecycle' = lifecycle \o new /\ new \in Seq(Records)
      /\ new[1] = left /\ new[2] = rec /\ 1..Len(new) = {1, 2}
  <2>1. lifecycle' = lifecycle \o new
    BY <1>1 DEF left, rec
  <2>2. /\ new \in Seq(Records) /\ new[1] = left /\ new[2] = rec /\ Len(new) = 2
    BY <1>5
  <2> QED
    BY <2>1, <2>2
<1> HIDE DEF new
<1>8. nextId + 1 \in Nat /\ nextId..(nextId + 1) - 1 = {nextId} /\ nextId <= nextId + 1
  BY <1>2
<1>9. IsScheduling(new, 2) /\ ~IsScheduling(new, 1)
  BY <1>5, <1>7 DEF IsScheduling
<1>10. Continues(new, nextId, nextId', Elements(pending), Elements(pending'))
  BY <1>1, <1>3, <1>4, <1>5, <1>6, <1>7, <1>8, <1>9 DEF Continues
<1> QED
  BY <1>7, <1>10

(* Every call adds to the log what it does to the deque.                    *)
LEMMA CallContinues ==
  ASSUME AgendaInv, [Next]_vars
  PROVE  \E new \in Seq(Records) :
           /\ lifecycle' = lifecycle \o new
           /\ Continues(new, nextId, nextId', Elements(pending), Elements(pending'))
<1>1. CASE UNCHANGED <<nextId, pending, lifecycle>>
  <2> DEFINE new == <<>>
  <2>1. lifecycle \in Seq(Records) /\ nextId \in Nat
    BY PendingFacts
  <2>2. lifecycle' = lifecycle \o new /\ new \in Seq(Records) /\ 1..Len(new) = {}
    BY <1>1, <2>1
  <2>3. nextId..nextId - 1 = {} /\ nextId <= nextId
    BY <2>1
  <2> HIDE DEF new
  <2>4. Continues(new, nextId, nextId', Elements(pending), Elements(pending'))
    BY <1>1, <2>1, <2>2, <2>3 DEF Continues
  <2> QED
    BY <2>2, <2>4
<1>2. CASE \E req \in Requests : Schedule(req)
  BY <1>2, ScheduleContinues
<1>3. CASE \E n \in 1..MaxTrace : \E reqs \in [1..n -> Requests] : SchedulePreordered(reqs)
  BY <1>3, PreorderedContinues
<1>4. CASE \E id \in Ids : Cancel(id)
  <2>1. PICK i \in DOMAIN pending :
          /\ pending' = Without(pending, i) /\ nextId' = nextId
          /\ lifecycle' = Append(lifecycle, [event |-> pending[i], action |-> "Canceled",
                                             related |-> NoId])
    BY <1>4 DEF Cancel
  <2> DEFINE rec == [event |-> pending[i], action |-> "Canceled", related |-> NoId]
  <2>2. i \in 1..Len(pending) /\ pending[i] \in Events /\ pending[i] \in Elements(pending)
    BY <2>1, PendingFacts, SequenceIndices DEF Elements
  <2>3. Elements(pending') \subseteq Elements(pending)
    BY <2>1, <2>2, PendingFacts, WithoutProperties
  <2>4. rec \in Records /\ rec.action # "Scheduled" /\ rec.event \in Elements(pending)
    BY <2>2 DEF Records, Actions
  <2> HIDE DEF rec
  <2> QED
    BY <2>1, <2>3, <2>4, LeavingContinues DEF rec
<1>5. CASE \E id \in Ids, req \in Requests : Reschedule(id, req)
  BY <1>5, RescheduleContinues
<1>6. CASE DeliverNext
  <2> DEFINE e == Head(pending)
             rec == [event |-> e, action |-> "Delivered", related |-> NoId]
  <2>1. /\ pending # <<>> /\ pending' = Tail(pending) /\ nextId' = nextId
        /\ lifecycle' = Append(lifecycle, rec)
    BY <1>6 DEF DeliverNext
  <2>2. /\ e \in Events /\ e \in Elements(pending)
        /\ Elements(pending') \subseteq Elements(pending)
    BY <2>1, PendingFacts, HeadIsLeast
  <2>3. rec \in Records /\ rec.action # "Scheduled" /\ rec.event \in Elements(pending)
    BY <2>2 DEF Records, Actions
  <2> HIDE DEF rec
  <2> QED
    BY <2>1, <2>2, <2>3, LeavingContinues
<1> QED
  BY <1>1, <1>2, <1>3, <1>4, <1>5, <1>6 DEF Next, Requesting, AdvanceTime, vars

-----------------------------------------------------------------------------
(* The inductive invariant of the runtimes.                                *)

Delivered == DeliveredIn(lifecycle)

BehaviorTypeOK ==
  /\ tasks \in [Targets -> Filters \cup {NoTask}]
  /\ mailboxes \in [Targets -> Seq(Events)]
  /\ arrived = NoEvents \/ \E e \in Delivered : arrived = <<e>>
  /\ inFlight = NoCall \/ \E kind \in {"handler", "task"}, e \in Delivered : inFlight = Calling(kind, e)
  /\ causes \in Seq(Ids \cup {NoId}) /\ Len(causes) = nextId
  /\ received \in Seq(Events)

Alike(a, b) == a.target = b.target /\ a.phase = b.phase

(* What waits in a mailbox was delivered, to its target, and is sorted; the *)
(* event just delivered comes after all of it and after all that was        *)
(* received; and what was received came before whatever waits of its kind.  *)
MailSound ==
  /\ \A t \in Targets : /\ Sorted(mailboxes[t])
                        /\ \A m \in Elements(mailboxes[t]) : m.target = t /\ m \in Delivered
  /\ Elements(received) \subseteq Delivered
  /\ \A e \in Elements(arrived) :
       /\ \A r \in Elements(received) : OrdersBefore(r, e)
       /\ \A t \in Targets : \A m \in Elements(mailboxes[t]) : OrdersBefore(m, e)
  /\ \A i, j \in 1..Len(received) :
       i < j /\ Alike(received[i], received[j]) => OrdersBefore(received[i], received[j])
  /\ \A t \in Targets : \A m \in Elements(mailboxes[t]) : \A r \in Elements(received) :
       Alike(r, m) => OrdersBefore(r, m)
  /\ \A t \in Targets : tasks[t] = NoTask => mailboxes[t] = <<>>

(* The cause c of identity id: delivered before id was scheduled, and       *)
(* before it in execution order.                                            *)
Caused(log, c, id) ==
  \E i, j \in 1..Len(log) :
    /\ i < j
    /\ log[i].action = "Delivered" /\ log[i].event.id = c
    /\ IsScheduling(log, j) /\ log[j].event.id = id
    /\ OrdersBefore(log[i].event, log[j].event)

CausesSound ==
  \A id \in 0..nextId - 1 : causes[id + 1] # NoId => Caused(lifecycle, causes[id + 1], id)

BehaviorInv ==
  /\ AgendaInv
  /\ LogSound(lifecycle, nextId, Elements(pending))
  /\ BehaviorTypeOK
  /\ MailSound
  /\ CausesSound

(* The invariant says of the log what EffectsFollowCauses asks.             *)
LEMMA CausesShow == BehaviorInv => EffectsFollowCauses
<1> SUFFICES ASSUME BehaviorInv, NEW id \in 0..nextId - 1, causes[id + 1] # NoId
             PROVE  /\ OrdersBefore(ScheduledAs(causes[id + 1]), ScheduledAs(id))
                    /\ \E i, j \in DOMAIN lifecycle :
                         /\ i < j
                         /\ lifecycle[i].action = "Delivered"
                         /\ lifecycle[i].event.id = causes[id + 1]
                         /\ lifecycle[j].action = "Scheduled"
                         /\ lifecycle[j].event.id = id
  BY DEF EffectsFollowCauses
<1> DEFINE c == causes[id + 1]
<1>1. /\ lifecycle \in Seq(Records) /\ DOMAIN lifecycle = 1..Len(lifecycle)
      /\ nextId \in Nat /\ LogSound(lifecycle, nextId, Elements(pending))
  BY PendingFacts, SequenceIndices DEF BehaviorInv
<1>2. PICK i \in 1..Len(lifecycle), j \in 1..Len(lifecycle) :
        /\ i < j
        /\ lifecycle[i].action = "Delivered" /\ lifecycle[i].event.id = c
        /\ IsScheduling(lifecycle, j) /\ lifecycle[j].event.id = id
        /\ OrdersBefore(lifecycle[i].event, lifecycle[j].event)
  BY DEF BehaviorInv, CausesSound, Caused
<1>3. \A x \in 1..Len(lifecycle) : ScheduledAs(lifecycle[x].event.id) = lifecycle[x].event
  <2> SUFFICES ASSUME NEW x \in 1..Len(lifecycle)
               PROVE  ScheduledAs(lifecycle[x].event.id) = lifecycle[x].event
    OBVIOUS
  <2> DEFINE y == lifecycle[x].event.id
             Fits(k) == lifecycle[k].event.id = y /\ lifecycle[k].action = "Scheduled"
  <2>1. y \in 0..nextId - 1
    <3>1. lifecycle[x].event \in Events /\ y \in Int
      BY <1>1, LogEvents
    <3>2. y \in Ids
      BY <3>1, EventFields
    <3> QED
      BY <1>1, <3>1, <3>2 DEF LogSound, Ids
  <2>2. \E k \in DOMAIN lifecycle : Fits(k)
    BY <1>1, <2>1 DEF LogSound, IsScheduling
  <2> DEFINE k == CHOOSE k \in DOMAIN lifecycle : Fits(k)
  <2>3. k \in DOMAIN lifecycle /\ Fits(k)
    BY <2>2
  <2>4. ScheduledAs(y) = lifecycle[k].event
    BY DEF ScheduledAs
  <2> HIDE DEF k
  <2>5. IsScheduling(lifecycle, k) /\ lifecycle[k].event.id = lifecycle[x].event.id
    BY <2>3 DEF IsScheduling
  <2> QED
    BY <1>1, <2>3, <2>4, <2>5 DEF LogSound
<1>4. ScheduledAs(c) = lifecycle[i].event /\ ScheduledAs(id) = lifecycle[j].event
  BY <1>2, <1>3
<1> QED
  BY <1>1, <1>2, <1>4 DEF IsScheduling

(* The invariant says of the mailboxes what SelectiveFifo asks.             *)
LEMMA MailShows == BehaviorInv => SelectiveFifo
<1> SUFFICES ASSUME BehaviorInv
             PROVE  SelectiveFifo
  OBVIOUS
<1>1. DOMAIN received = 1..Len(received)
  BY SequenceIndices DEF BehaviorInv, BehaviorTypeOK
<1>2. \A t \in Targets : DOMAIN mailboxes[t] = 1..Len(mailboxes[t])
  BY SequenceIndices DEF BehaviorInv, BehaviorTypeOK
<1> QED
  BY <1>1, <1>2 DEF BehaviorInv, MailSound, SelectiveFifo, Elements, Alike

-----------------------------------------------------------------------------
(* Its preservation.                                                       *)

(* Everything is empty at the start.                                        *)
LEMMA InitBehaves == BehaviorInit => BehaviorInv
<1> SUFFICES ASSUME BehaviorInit
             PROVE  BehaviorInv
  OBVIOUS
<1>1. /\ lifecycle = <<>> /\ pending = <<>> /\ nextId = 0 /\ causes = <<>>
      /\ received = <<>> /\ arrived = <<>> /\ inFlight = <<>>
      /\ mailboxes = [t \in Targets |-> <<>>] /\ tasks = [t \in Targets |-> NoTask]
  BY DEF BehaviorInit, Init, NoEvents, NoCall
<1>2. AgendaInv
  BY InitEstablishesInv DEF BehaviorInit
<1>3. Len(<<>>) = 0 /\ 1..0 = {} /\ 0..0 - 1 = {}
  OBVIOUS
<1>4. Elements(<<>>) = {} /\ Sorted(<<>>)
  BY <1>3 DEF Elements, Sorted
<1>5. LogSound(lifecycle, nextId, Elements(pending))
  BY <1>1, <1>3 DEF LogSound
<1>6. BehaviorTypeOK
  BY <1>1, <1>3 DEF BehaviorTypeOK, NoEvents, NoCall
<1>7. MailSound
  BY <1>1, <1>3, <1>4 DEF MailSound
<1>8. CausesSound
  BY <1>1, <1>3 DEF CausesSound
<1> QED
  BY <1>2, <1>5, <1>6, <1>7, <1>8 DEF BehaviorInv

(* A call of the agenda: the log only grows, and stays sound.               *)
LEMMA CallsKeepLog ==
  ASSUME AgendaInv, LogSound(lifecycle, nextId, Elements(pending)), [Next]_vars
  PROVE  /\ AgendaInv' /\ LogSound(lifecycle', nextId', Elements(pending'))
         /\ DeliveredIn(lifecycle) \subseteq DeliveredIn(lifecycle')
         /\ Len(lifecycle) \in Nat
         /\ \A i \in 1..Len(lifecycle) : /\ i \in 1..Len(lifecycle')
                                         /\ lifecycle'[i] = lifecycle[i]
         /\ nextId \in Nat /\ nextId' \in Nat /\ nextId <= nextId'
<1>1. PICK new \in Seq(Records) :
        /\ lifecycle' = lifecycle \o new
        /\ Continues(new, nextId, nextId', Elements(pending), Elements(pending'))
  BY CallContinues
<1>2. /\ nextId \in Nat /\ lifecycle \in Seq(Records)
      /\ \A e \in Elements(pending) : e.id < nextId
  BY PendingFacts DEF AgendaInv
<1>3. LogSound(lifecycle', nextId', Elements(pending'))
  BY <1>1, <1>2, ContinuedLogSound
<1>4. AgendaInv'
  BY NextPreservesInv
<1>5. /\ Len(lifecycle) \in Nat
      /\ \A i \in 1..Len(lifecycle) : i \in 1..Len(lifecycle') /\ lifecycle'[i] = lifecycle[i]
  BY <1>1, <1>2, GrownLog
<1>6. DeliveredIn(lifecycle) \subseteq DeliveredIn(lifecycle')
  BY <1>5 DEF DeliveredIn
<1>7. nextId' \in Nat /\ nextId <= nextId'
  BY <1>1 DEF Continues
<1> QED
  BY <1>2, <1>3, <1>4, <1>5, <1>6, <1>7

(* A cause that was sound stays so as the log grows.                        *)
LEMMA CausedKept ==
  ASSUME NEW log, NEW all, NEW c, NEW id, Caused(log, c, id),
         \A i \in 1..Len(log) : i \in 1..Len(all) /\ all[i] = log[i]
  PROVE  Caused(all, c, id)
<1>1. PICK i \in 1..Len(log), j \in 1..Len(log) :
        /\ i < j
        /\ log[i].action = "Delivered" /\ log[i].event.id = c
        /\ IsScheduling(log, j) /\ log[j].event.id = id
        /\ OrdersBefore(log[i].event, log[j].event)
  BY DEF Caused
<1>2. i \in 1..Len(all) /\ all[i] = log[i] /\ j \in 1..Len(all) /\ all[j] = log[j]
  BY <1>1
<1>3. IsScheduling(all, j)
  BY <1>1, <1>2 DEF IsScheduling
<1> QED
  BY <1>1, <1>2, <1>3 DEF Caused

(* Causes written for the identities handed out keep the causes sound.      *)
LEMMA CausesKept ==
  ASSUME BehaviorInv, [Next]_vars, NEW more \in Seq(Ids \cup {NoId}),
         causes' = causes \o more, nextId' = nextId + Len(more),
         \A k \in 1..Len(more) : more[k] # NoId => Caused(lifecycle', more[k], nextId + k - 1)
  PROVE  /\ CausesSound'
         /\ causes' \in Seq(Ids \cup {NoId}) /\ Len(causes') = nextId'
<1>1. /\ nextId \in Nat /\ nextId' \in Nat /\ nextId <= nextId'
      /\ \A i \in 1..Len(lifecycle) : /\ i \in 1..Len(lifecycle')
                                      /\ lifecycle'[i] = lifecycle[i]
  BY CallsKeepLog DEF BehaviorInv
<1>2. causes \in Seq(Ids \cup {NoId}) /\ Len(causes) = nextId
  BY DEF BehaviorInv, BehaviorTypeOK
<1>3. /\ causes' \in Seq(Ids \cup {NoId})
      /\ Len(causes') = Len(causes) + Len(more)
      /\ \A i \in 1..Len(causes) + Len(more) :
           causes'[i] = IF i <= Len(causes) THEN causes[i] ELSE more[i - Len(causes)]
  BY <1>2, ConcatProperties
<1>6. /\ Len(more) \in Nat /\ Len(causes) \in Nat
      /\ nextId' = Len(causes) + Len(more) /\ Len(causes) = nextId
  <2>1. Len(more) \in Nat
    BY SequenceIndices
  <2> QED
    BY <1>1, <1>2, <2>1
<1>4. Len(causes') = nextId'
  BY <1>3, <1>6
<1>5. CausesSound'
  <2> PICK m : m = nextId'
    OBVIOUS
  <2> SUFFICES ASSUME NEW id \in 0..m - 1, causes'[id + 1] # NoId
               PROVE  Caused(lifecycle', causes'[id + 1], id)
    BY DEF CausesSound
  <2>3. m = Len(causes) + Len(more) /\ id \in Int /\ 0 <= id /\ id < m
    BY <1>6
  <2>1. CASE id < nextId
    <3>1. id \in 0..nextId - 1 /\ id + 1 \in 1..Len(causes) + Len(more) /\ id + 1 <= Len(causes)
      BY <1>6, <2>1, <2>3
    <3>2. causes'[id + 1] = causes[id + 1]
      BY <1>3, <3>1
    <3>3. Caused(lifecycle, causes[id + 1], id)
      BY <3>1, <3>2 DEF BehaviorInv, CausesSound
    <3> QED
      BY <1>1, <3>2, <3>3, CausedKept
  <2>2. CASE ~(id < nextId)
    <3> DEFINE k == id + 1 - nextId
    <3>1. /\ k \in 1..Len(more) /\ nextId + k - 1 = id
          /\ id + 1 \in 1..Len(causes) + Len(more) /\ ~(id + 1 <= Len(causes))
          /\ (id + 1) - Len(causes) = k
      BY <1>6, <2>2, <2>3
    <3>2. causes'[id + 1] = more[k]
      BY <1>3, <3>1
    <3> HIDE DEF k
    <3> QED
      BY <3>1, <3>2
  <2> QED
    BY <2>1, <2>2
<1> QED
  BY <1>3, <1>4, <1>5

(* What the runtimes keep depends on the log only through what it delivers. *)
LEMMA MailKept ==
  ASSUME MailSound, UNCHANGED <<tasks, mailboxes, arrived, received>>,
         DeliveredIn(lifecycle) \subseteq DeliveredIn(lifecycle')
  PROVE  MailSound'
BY DEF MailSound, Delivered

(* An event that was delivered is behind the clock: what the agenda accepts *)
(* next comes after it.                                                     *)
LEMMA EffectFollows ==
  ASSUME AgendaInv, NEW req \in Requests, ~Refuses(req), NEW d \in Delivered,
         NEW from \in Ids \cup {NoId}
  PROVE  OrdersBefore(d, FromRequest(nextId, req, from))
<1> DEFINE e == FromRequest(nextId, req, from)
<1>1. d \in Events /\ nextId \in Ids /\ nextId \in Nat
  BY PendingFacts DEF Delivered
<1>2. e \in Events /\ NotInPast(e) /\ e.id = nextId
  BY <1>1, AcceptedRequest, FromRequestProperties
<1> HIDE DEF e
<1>3. /\ d.time \in Int /\ d.phase \in Int /\ d.id \in Int
      /\ e.time \in Int /\ e.phase \in Int /\ e.id \in Int
  BY <1>1, <1>2, EventFields
<1>4. now \in Int /\ lastPhase \in Int
  BY ClockTypes DEF AgendaInv
<1>5. d.id < nextId /\ d.time <= now /\ (d.time = now => d.phase <= lastPhase)
  BY DEF AgendaInv, Delivered
<1>6. e.time >= now /\ (e.time = now => e.phase >= lastPhase)
  BY <1>2 DEF NotInPast
<1>7. OrdersBefore(d, e)
  BY <1>1, <1>2, <1>3, <1>4, <1>5, <1>6 DEF OrdersBefore
<1> QED
  BY <1>7 DEF e

(* The runtimes' types hold as the agenda moves on under them.              *)
LEMMA TypesKept ==
  ASSUME BehaviorTypeOK, UNCHANGED <<tasks, mailboxes, arrived, inFlight, received>>,
         DeliveredIn(lifecycle) \subseteq DeliveredIn(lifecycle'),
         causes' \in Seq(Ids \cup {NoId}), Len(causes') = nextId'
  PROVE  BehaviorTypeOK'
BY DEF BehaviorTypeOK, Delivered

(* A call of the agenda that writes sound causes is a step of the runtimes. *)
LEMMA CallBehaves ==
  ASSUME BehaviorInv, [Next]_vars, UNCHANGED <<tasks, mailboxes, arrived, inFlight, received>>,
         NEW more \in Seq(Ids \cup {NoId}),
         causes' = causes \o more, nextId' = nextId + Len(more),
         \A k \in 1..Len(more) : more[k] # NoId => Caused(lifecycle', more[k], nextId + k - 1)
  PROVE  BehaviorInv'
<1>1. /\ CausesSound' /\ causes' \in Seq(Ids \cup {NoId}) /\ Len(causes') = nextId'
  BY CausesKept
<1>2. /\ AgendaInv' /\ LogSound(lifecycle', nextId', Elements(pending'))
      /\ DeliveredIn(lifecycle) \subseteq DeliveredIn(lifecycle')
  BY CallsKeepLog DEF BehaviorInv
<1>3. BehaviorTypeOK'
  BY <1>1, <1>2, TypesKept DEF BehaviorInv
<1>4. MailSound'
  BY <1>2, MailKept DEF BehaviorInv
<1> QED
  BY <1>1, <1>2, <1>3, <1>4 DEF BehaviorInv

(* Authors give no causes.                                                  *)
LEMMA AuthorBehaves ==
  ASSUME BehaviorInv, Authoring
  PROVE  BehaviorInv'
<1>1. [Next]_vars
  BY DEF Authoring, Next
<1>2. PICK m : m = nextId'
  OBVIOUS
<1> DEFINE more == [i \in 1..m - nextId |-> NoId]
<1>3. /\ more \in Seq(Ids \cup {NoId}) /\ Len(more) \in Nat
      /\ m = nextId + Len(more)
      /\ \A k \in 1..Len(more) : more[k] = NoId
  <2>1. nextId \in Nat /\ m \in Nat /\ nextId <= m
    BY <1>1, <1>2, CallsKeepLog DEF BehaviorInv
  <2>2. m - nextId \in Nat /\ m = nextId + (m - nextId)
    BY <2>1
  <2>3. more \in Seq(Ids \cup {NoId}) /\ Len(more) = m - nextId
    BY <2>2
  <2>4. \A k \in 1..m - nextId : more[k] = NoId
    OBVIOUS
  <2> QED
    BY <2>2, <2>3, <2>4
<1>4. causes' = causes \o more /\ UNCHANGED <<tasks, mailboxes, arrived, inFlight, received>>
  BY <1>2 DEF Authoring, runtimeVars
<1> HIDE DEF more
<1>6. nextId' = nextId + Len(more)
  BY <1>2, <1>3
<1> QED
  BY <1>1, <1>3, <1>4, <1>6, CallBehaves

(* A context writes the event its callback was resumed with as the cause.   *)
LEMMA EmitBehaves ==
  ASSUME BehaviorInv, NEW req \in Requests, EmitAt(req)
  PROVE  BehaviorInv'
<1> DEFINE d == Context.event
           e == FromRequest(nextId, req, NoId)
           rec == Scheduled(e)
           L == Len(lifecycle)
<1>1. /\ [Next]_vars /\ ~Refuses(req) /\ nextId' = nextId + 1
      /\ lifecycle' = Append(lifecycle, rec)
      /\ causes' = Append(causes, d.id)
      /\ UNCHANGED <<tasks, mailboxes, arrived, inFlight, received>>
  BY DEF EmitAt, Schedule, Next, Requesting, runtimeVars
<1>2. d \in Delivered
  <2>1. PICK kind \in {"handler", "task"}, x \in Delivered : inFlight = Calling(kind, x)
    BY DEF EmitAt, InCall, BehaviorInv, BehaviorTypeOK
  <2> QED
    BY <2>1 DEF Calling, Context
<1>3. /\ lifecycle \in Seq(Records) /\ L \in Nat /\ nextId \in Nat /\ nextId \in Ids
      /\ d \in Events
  BY <1>2, PendingFacts, SequenceIndices DEF BehaviorInv, Delivered
<1>4. OrdersBefore(d, e) /\ e \in Events /\ e.id = nextId /\ rec \in Records
  BY <1>1, <1>2, <1>3, EffectFollows, AcceptedRequest, FromRequestProperties DEF BehaviorInv
<1>5. rec.action = "Scheduled" /\ rec.event = e
  BY DEF Scheduled
<1> HIDE DEF d, e, rec
<1>6. PICK i \in 1..L : lifecycle[i].action = "Delivered" /\ lifecycle[i].event = d
  BY <1>2 DEF Delivered, DeliveredIn
<1>7. /\ Len(lifecycle') = L + 1 /\ lifecycle'[i] = lifecycle[i] /\ lifecycle'[L + 1] = rec
      /\ i \in 1..L + 1 /\ L + 1 \in 1..L + 1 /\ i < L + 1
  BY <1>1, <1>3, <1>4, AppendProperties
<1>8. Caused(lifecycle', d.id, nextId)
  <2>1. IsScheduling(lifecycle', L + 1) /\ lifecycle'[L + 1].event.id = nextId
    BY <1>4, <1>5, <1>7 DEF IsScheduling
  <2> QED
    BY <1>4, <1>5, <1>6, <1>7, <2>1 DEF Caused
<1> DEFINE more == <<d.id>>
<1>9. /\ more \in Seq(Ids \cup {NoId}) /\ Len(more) = 1 /\ more[1] = d.id
      /\ causes' = causes \o more
  <2>1. d.id \in Ids
    BY <1>3, EventFields
  <2>2. causes \in Seq(Ids \cup {NoId})
    BY DEF BehaviorInv, BehaviorTypeOK
  <2>3. causes' = causes \o more
    BY <1>1, <2>1, <2>2, AppendIsConcat
  <2> QED
    BY <2>1, <2>3
<1> HIDE DEF more
<1>10. \A k \in 1..Len(more) : more[k] # NoId => Caused(lifecycle', more[k], nextId + k - 1)
  <2>1. nextId + 1 - 1 = nextId
    BY <1>3
  <2> QED
    BY <1>8, <1>9, <2>1
<1>11. nextId' = nextId + Len(more)
  BY <1>1, <1>9
<1> QED
  BY <1>1, <1>9, <1>10, <1>11, CallBehaves

(* A cancellation hands out no identity, a replacement one without a cause. *)
LEMMA ChangeBehaves ==
  ASSUME BehaviorInv,
         \/ \E id \in Ids : CancelEvent(id)
         \/ \E id \in Ids, req \in Requests : RescheduleEvent(id, req)
  PROVE  BehaviorInv'
<1>1. causes \in Seq(Ids \cup {NoId}) /\ nextId \in Nat
  BY PendingFacts DEF BehaviorInv, BehaviorTypeOK
<1>2. CASE \E id \in Ids : CancelEvent(id)
  <2> DEFINE more == <<>>
  <2>1. /\ [Next]_vars /\ nextId' = nextId /\ causes' = causes
        /\ UNCHANGED <<tasks, mailboxes, arrived, inFlight, received>>
    BY <1>2 DEF CancelEvent, Cancel, Next, Requesting, runtimeVars, driverVars
  <2>2. /\ more \in Seq(Ids \cup {NoId}) /\ Len(more) = 0 /\ causes' = causes \o more
        /\ 1..Len(more) = {}
    BY <1>1, <2>1
  <2> HIDE DEF more
  <2>3. nextId' = nextId + Len(more)
    BY <1>1, <2>1, <2>2
  <2> QED
    BY <2>1, <2>2, <2>3, CallBehaves
<1>3. CASE \E id \in Ids, req \in Requests : RescheduleEvent(id, req)
  <2> DEFINE more == <<NoId>>
  <2>1. /\ [Next]_vars /\ nextId' = nextId + 1 /\ causes' = Append(causes, NoId)
        /\ UNCHANGED <<tasks, mailboxes, arrived, inFlight, received>>
    BY <1>3 DEF RescheduleEvent, Reschedule, Next, Requesting, runtimeVars
  <2>2. /\ more \in Seq(Ids \cup {NoId}) /\ Len(more) = 1 /\ more[1] = NoId
        /\ causes' = causes \o more /\ 1..Len(more) = {1}
    BY <1>1, <2>1, AppendIsConcat
  <2> HIDE DEF more
  <2>3. nextId' = nextId + Len(more)
    BY <2>1, <2>2
  <2> QED
    BY <2>1, <2>2, <2>3, CallBehaves
<1> QED
  BY <1>2, <1>3

(* What the agenda delivers comes after all that was delivered before.      *)
LEMMA DeliverBehaves ==
  ASSUME BehaviorInv, Deliver
  PROVE  BehaviorInv'
<1> DEFINE e == Head(pending)
<1>1. /\ [Next]_vars /\ DeliverNext /\ arrived' = <<e>> /\ inFlight' = inFlight
      /\ UNCHANGED <<tasks, mailboxes, causes, received>> /\ nextId' = nextId
      /\ arrived = NoEvents /\ inFlight = NoCall
  BY DEF Deliver, Next, runtimeVars, DeliverNext, Idle, InCall
<1>2. /\ AgendaInv' /\ LogSound(lifecycle', nextId', Elements(pending'))
      /\ DeliveredIn(lifecycle) \subseteq DeliveredIn(lifecycle')
      /\ \A i \in 1..Len(lifecycle) : /\ i \in 1..Len(lifecycle')
                                      /\ lifecycle'[i] = lifecycle[i]
  BY <1>1, CallsKeepLog DEF BehaviorInv
<1>3. /\ e \in DeliveredIn(lifecycle')
      /\ \A d \in DeliveredIn(lifecycle) : OrdersBefore(d, e)
  <2> DEFINE rec == [event |-> e, action |-> "Delivered", related |-> NoId]
  <2>1. lifecycle' = Append(lifecycle, rec) /\ pending # <<>>
    BY <1>1 DEF DeliverNext
  <2>2. e \in Events /\ e \in Elements(pending)
    BY <2>1, PendingFacts, HeadIsLeast DEF BehaviorInv
  <2>3. rec \in Records /\ rec.action = "Delivered" /\ rec.event = e
    BY <2>2 DEF Records, Actions
  <2> HIDE DEF rec
  <2>4. \A d \in DeliveredIn(lifecycle) : OrdersBefore(d, e)
    BY <2>2 DEF BehaviorInv, AgendaInv
  <2> QED
    BY <2>1, <2>3, <2>4, PendingFacts, LogWithDelivery DEF BehaviorInv
<1> HIDE DEF e
<1>4. BehaviorTypeOK'
  BY <1>1, <1>2, <1>3 DEF BehaviorInv, BehaviorTypeOK, Delivered
<1>5. MailSound'
  <2>1. Elements(arrived') = {e}
    BY <1>1 DEF Elements
  <2> QED
    BY <1>1, <1>2, <1>3, <2>1 DEF BehaviorInv, MailSound, Delivered
<1>6. CausesSound'
  BY <1>1, <1>2, CausedKept DEF BehaviorInv, CausesSound
<1> QED
  BY <1>2, <1>4, <1>5, <1>6 DEF BehaviorInv

(* What holds while the agenda rests.                                       *)
LEMMA AgendaRests ==
  ASSUME BehaviorInv, UNCHANGED <<vars, causes>>
  PROVE  /\ AgendaInv' /\ LogSound(lifecycle', nextId', Elements(pending'))
         /\ CausesSound' /\ Delivered' = Delivered
<1>1. AgendaInv'
  BY NextPreservesInv DEF BehaviorInv
<1> QED
  BY <1>1 DEF BehaviorInv, vars, CausesSound, Delivered

(* An event appended behind all that waits leaves a mailbox sorted.         *)
LEMMA Waiting ==
  ASSUME NEW q \in Seq(Events), Sorted(q), NEW e \in Events,
         \A m \in Elements(q) : OrdersBefore(m, e)
  PROVE  /\ Append(q, e) \in Seq(Events) /\ Sorted(Append(q, e))
         /\ Elements(Append(q, e)) = Elements(q) \cup {e}
<1> DEFINE box == Append(q, e)
<1>1. /\ Len(q) \in Nat /\ box \in Seq(Events) /\ Len(box) = Len(q) + 1
      /\ \A i \in 1..Len(q) : box[i] = q[i]
      /\ box[Len(q) + 1] = e
  BY SequenceIndices, AppendProperties
<1> HIDE DEF box
<1>2. 1..Len(box) = 1..Len(q) \cup {Len(q) + 1}
  BY <1>1
<1>3. Elements(box) = Elements(q) \cup {e}
  BY <1>1, <1>2 DEF Elements
<1>4. Sorted(box)
  <2> SUFFICES ASSUME NEW i \in 1..Len(box), NEW j \in 1..Len(box), i < j
               PROVE  OrdersBefore(box[i], box[j])
    BY DEF Sorted
  <2>1. i \in 1..Len(q)
    BY <1>1
  <2>2. CASE j \in 1..Len(q)
    BY <1>1, <2>1, <2>2 DEF Sorted
  <2>3. CASE j = Len(q) + 1
    BY <1>1, <2>1, <2>3 DEF Elements
  <2> QED
    BY <1>2, <2>2, <2>3
<1> QED
  BY <1>1, <1>3, <1>4 DEF box

(* The first message a filter accepts is the oldest of its phase: taking it *)
(* leaves only later ones of that phase.                                    *)
LEMMA Taking ==
  ASSUME NEW box \in Seq(Events), Sorted(box), NEW f, NEW i \in Receive(box, f)
  PROVE  /\ i \in 1..Len(box) /\ box[i] \in Elements(box)
         /\ RemoveAt(box, i) \in Seq(Events) /\ Sorted(RemoveAt(box, i))
         /\ Elements(RemoveAt(box, i)) = Elements(box) \ {box[i]}
         /\ \A m \in Elements(RemoveAt(box, i)) :
              m.phase = box[i].phase => OrdersBefore(box[i], m)
<1>1. Len(box) \in Nat /\ DOMAIN box = 1..Len(box)
  BY SequenceIndices
<1>2. /\ i \in 1..Len(box) /\ box[i].phase \in f
      /\ \A j \in 1..i - 1 : box[j].phase \notin f
  BY <1>1 DEF Receive
<1>3. /\ RemoveAt(box, i) \in Seq(Events) /\ Sorted(RemoveAt(box, i))
      /\ Elements(RemoveAt(box, i)) = Elements(box) \ {box[i]}
  BY <1>2, WithoutProperties DEF Without
<1>4. ASSUME NEW m \in Elements(box), m # box[i], m.phase = box[i].phase
      PROVE  OrdersBefore(box[i], m)
  <2>1. PICK j \in 1..Len(box) : m = box[j]
    BY DEF Elements
  <2>2. j # i /\ j \notin 1..i - 1
    BY <1>2, <1>4, <2>1
  <2>3. i < j
    BY <1>1, <1>2, <2>1, <2>2
  <2> QED
    BY <1>2, <2>1, <2>3 DEF Sorted
<1> QED
  BY <1>2, <1>3, <1>4 DEF Elements

(* Registrations, a synchronous dispatch and the ends of callbacks: an      *)
(* event may be given up, and a mailbox with its task.                      *)
LEMMA RuntimeBehaves ==
  ASSUME BehaviorInv,
         \/ \E t \in Targets : RegisterHandler(t)
         \/ \E t \in Targets, f \in Filters : RegisterTask(t, f)
         \/ Dispatch
         \/ HandlerReturns
         \/ \E f \in Filters : TaskWaits(f)
         \/ TaskCompletes
  PROVE  BehaviorInv'
<1>1. UNCHANGED <<vars, causes, received>>
  BY DEF RegisterHandler, RegisterTask, Dispatch, HandlerReturns, TaskWaits, TaskCompletes,
         driverVars
<1>2. /\ AgendaInv' /\ LogSound(lifecycle', nextId', Elements(pending'))
      /\ CausesSound' /\ Delivered' = Delivered
  BY <1>1, AgendaRests
<1>3. /\ nextId' = nextId /\ causes' = causes /\ received' = received
  BY <1>1 DEF vars
<1>4. BehaviorTypeOK /\ MailSound
  BY DEF BehaviorInv
<1>5. Elements(NoEvents) = {}
  BY DEF Elements, NoEvents
<1>6. \A e \in Delivered : e.target \in Targets
  BY PendingFacts DEF BehaviorInv, Delivered, Events
<1>7. InCall => Context.owner \in Targets
  <2> SUFFICES ASSUME InCall
               PROVE  Context.owner \in Targets
    OBVIOUS
  <2>1. PICK kind \in {"handler", "task"}, e \in Delivered : inFlight = Calling(kind, e)
    BY <1>4 DEF InCall, BehaviorTypeOK
  <2>2. Context.owner = e.target
    BY <2>1 DEF Context, Calling
  <2> QED
    BY <1>6, <2>2
<1>8. CASE \E t \in Targets : RegisterHandler(t)
  <2>1. UNCHANGED <<tasks, mailboxes, arrived, inFlight>>
    BY <1>8 DEF RegisterHandler, driverVars
  <2>2. BehaviorTypeOK' /\ MailSound'
    BY <1>2, <1>3, <1>4, <2>1 DEF BehaviorTypeOK, MailSound
  <2> QED
    BY <1>2, <2>2 DEF BehaviorInv
<1>9. CASE \E t \in Targets, f \in Filters : RegisterTask(t, f)
  <2>1. PICK t \in Targets, f \in Filters : tasks' = [tasks EXCEPT ![t] = f]
    BY <1>9 DEF RegisterTask
  <2>2. UNCHANGED <<mailboxes, arrived, inFlight>>
    BY <1>9 DEF RegisterTask, driverVars
  <2>3. BehaviorTypeOK'
    BY <1>2, <1>3, <1>4, <2>1, <2>2 DEF BehaviorTypeOK
  <2>4. \A u \in Targets : tasks'[u] = NoTask => tasks[u] = NoTask
    BY <1>4, <2>1, FiltersAssumption DEF BehaviorTypeOK
  <2>5. MailSound'
    BY <1>2, <1>3, <1>4, <2>2, <2>4 DEF MailSound
  <2> QED
    BY <1>2, <2>3, <2>5 DEF BehaviorInv
<1>10. CASE Dispatch
  <2>1. /\ arrived' = NoEvents /\ UNCHANGED <<tasks, mailboxes>>
        /\ inFlight' = NoCall \/ inFlight' = Calling("handler", Head(arrived))
    BY <1>10 DEF Dispatch, runtimeVars
  <2>2. Head(arrived) \in Delivered
    BY <1>4, <1>10 DEF Dispatch, BehaviorTypeOK
  <2>3. BehaviorTypeOK'
    BY <1>2, <1>3, <1>4, <2>1, <2>2 DEF BehaviorTypeOK
  <2>4. MailSound'
    BY <1>2, <1>3, <1>4, <1>5, <2>1 DEF MailSound
  <2> QED
    BY <1>2, <2>3, <2>4 DEF BehaviorInv
<1>11. CASE HandlerReturns
  <2>1. inFlight' = NoCall /\ UNCHANGED <<tasks, mailboxes, arrived>>
    BY <1>11 DEF HandlerReturns, runtimeVars
  <2>2. BehaviorTypeOK' /\ MailSound'
    BY <1>2, <1>3, <1>4, <2>1 DEF BehaviorTypeOK, MailSound
  <2> QED
    BY <1>2, <2>2 DEF BehaviorInv
<1>12. CASE \E f \in Filters : TaskWaits(f)
  <2>1. PICK f \in Filters : InCall /\ tasks' = [tasks EXCEPT ![Context.owner] = f]
    BY <1>12 DEF TaskWaits
  <2>2. inFlight' = NoCall /\ UNCHANGED <<mailboxes, arrived>>
    BY <1>12 DEF TaskWaits
  <2> DEFINE t == Context.owner
  <2>3. t \in Targets /\ tasks' = [tasks EXCEPT ![t] = f]
    BY <1>7, <2>1
  <2> HIDE DEF t
  <2>4. BehaviorTypeOK'
    BY <1>2, <1>3, <1>4, <2>2, <2>3 DEF BehaviorTypeOK
  <2>5. \A u \in Targets : tasks'[u] = NoTask => tasks[u] = NoTask
    BY <1>4, <2>3, FiltersAssumption DEF BehaviorTypeOK
  <2>6. MailSound'
    BY <1>2, <1>3, <1>4, <2>2, <2>5 DEF MailSound
  <2> QED
    BY <1>2, <2>4, <2>6 DEF BehaviorInv
<1>13. CASE TaskCompletes
  <2> DEFINE t == Context.owner
  <2>1. /\ t \in Targets /\ tasks' = [tasks EXCEPT ![t] = NoTask]
        /\ mailboxes' = [mailboxes EXCEPT ![t] = <<>>]
        /\ inFlight' = NoCall /\ arrived' = arrived
    BY <1>7, <1>13 DEF TaskCompletes, DiscardMailbox
  <2> HIDE DEF t
  <2>2. BehaviorTypeOK'
    BY <1>2, <1>3, <1>4, <2>1 DEF BehaviorTypeOK
  <2>3. /\ mailboxes'[t] = <<>>
        /\ \A u \in Targets \ {t} : mailboxes'[u] = mailboxes[u] /\ tasks'[u] = tasks[u]
    BY <1>4, <2>1 DEF BehaviorTypeOK
  <2>4. Elements(<<>>) = {} /\ Sorted(<<>>)
    BY DEF Elements, Sorted
  <2>5. MailSound'
    BY <1>2, <1>3, <1>4, <2>1, <2>3, <2>4 DEF MailSound
  <2> QED
    BY <1>2, <2>2, <2>5 DEF BehaviorInv
<1> QED
  BY <1>8, <1>9, <1>10, <1>11, <1>12, <1>13

(* An asynchronous dispatch: the event joins the mailbox, and the first     *)
(* message the task accepts leaves it.                                      *)
LEMMA AsyncBehaves ==
  ASSUME BehaviorInv, DispatchAsync
  PROVE  BehaviorInv'
<1> DEFINE e == Head(arrived)
           t == e.target
           box == Append(mailboxes[t], e)
<1>1. /\ arrived # NoEvents /\ arrived' = NoEvents /\ tasks' = tasks
      /\ UNCHANGED <<vars, causes>>
  BY DEF DispatchAsync
<1>2. /\ AgendaInv' /\ LogSound(lifecycle', nextId', Elements(pending'))
      /\ CausesSound' /\ Delivered' = Delivered
      /\ nextId' = nextId /\ causes' = causes
  BY <1>1, AgendaRests DEF vars
<1>3. BehaviorTypeOK /\ MailSound
  BY DEF BehaviorInv
<1>4. e \in Delivered /\ arrived = <<e>>
  BY <1>1, <1>3 DEF BehaviorTypeOK
<1>5. e \in Events /\ t \in Targets
  BY <1>4, PendingFacts DEF BehaviorInv, Delivered, Events
<1>6. /\ \A r \in Elements(received) : OrdersBefore(r, e)
      /\ \A u \in Targets : \A m \in Elements(mailboxes[u]) : OrdersBefore(m, e)
  <2>1. e \in Elements(arrived)
    BY <1>4 DEF Elements
  <2> QED
    BY <1>3, <2>1 DEF MailSound
<1> HIDE DEF e
<1>7. /\ mailboxes[t] \in Seq(Events) /\ Sorted(mailboxes[t])
      /\ \A m \in Elements(mailboxes[t]) : m.target = t /\ m \in Delivered
  BY <1>3, <1>5 DEF BehaviorTypeOK, MailSound
<1>8. /\ box \in Seq(Events) /\ Sorted(box)
      /\ Elements(box) = Elements(mailboxes[t]) \cup {e}
  BY <1>5, <1>6, <1>7, Waiting
<1> HIDE DEF box
<1>9. /\ \A m \in Elements(box) : m.target = t /\ m \in Delivered
      /\ \A m \in Elements(box) : \A r \in Elements(received) :
           Alike(r, m) => OrdersBefore(r, m)
  <2>1. \A m \in Elements(mailboxes[t]) : \A r \in Elements(received) :
          Alike(r, m) => OrdersBefore(r, m)
    BY <1>3, <1>5 DEF MailSound
  <2> QED
    BY <1>4, <1>6, <1>7, <1>8, <2>1
<1>10. Elements(NoEvents) = {}
  BY DEF Elements, NoEvents
<1>11. CASE /\ tasks[t] = NoTask
            /\ UNCHANGED <<mailboxes, inFlight, received>>
  <2>1. BehaviorTypeOK'
    BY <1>1, <1>2, <1>3, <1>11 DEF BehaviorTypeOK
  <2>2. MailSound'
    BY <1>1, <1>2, <1>3, <1>10, <1>11 DEF MailSound
  <2> QED
    BY <1>2, <2>1, <2>2 DEF BehaviorInv
<1>12. CASE /\ tasks[t] # NoTask
            /\ mailboxes' = [mailboxes EXCEPT ![t] = box]
            /\ UNCHANGED <<inFlight, received>>
  <2>1. BehaviorTypeOK'
    BY <1>1, <1>2, <1>3, <1>5, <1>8, <1>12 DEF BehaviorTypeOK
  <2>2. /\ mailboxes'[t] = box
        /\ \A u \in Targets \ {t} : mailboxes'[u] = mailboxes[u]
    BY <1>3, <1>5, <1>12 DEF BehaviorTypeOK
  <2>3. MailSound'
    BY <1>1, <1>2, <1>3, <1>8, <1>9, <1>10, <1>12, <2>2 DEF MailSound
  <2> QED
    BY <1>2, <2>1, <2>3 DEF BehaviorInv
<1>13. ASSUME NEW i \in Receive(box, tasks[t]), tasks[t] # NoTask,
              mailboxes' = [mailboxes EXCEPT ![t] = RemoveAt(box, i)],
              inFlight' = Calling("task", box[i]), received' = Append(received, box[i])
       PROVE  BehaviorInv'
  <2> DEFINE x == box[i]
             rest == RemoveAt(box, i)
             n == Len(received)
  <2>1. /\ x \in Elements(box) /\ rest \in Seq(Events) /\ Sorted(rest)
        /\ Elements(rest) = Elements(box) \ {x}
        /\ \A m \in Elements(rest) : m.phase = x.phase => OrdersBefore(x, m)
    BY <1>8, <1>13, Taking
  <2>2. inFlight' = Calling("task", x) /\ received' = Append(received, x)
        /\ mailboxes' = [mailboxes EXCEPT ![t] = rest]
    BY <1>13
  <2> HIDE DEF x, rest
  <2>3. /\ mailboxes'[t] = rest /\ mailboxes' \in [Targets -> Seq(Events)]
        /\ \A u \in Targets \ {t} : mailboxes'[u] = mailboxes[u]
    BY <1>3, <1>5, <2>1, <2>2 DEF BehaviorTypeOK
  <2>4. x \in Delivered /\ x \in Events /\ x.target = t
    BY <1>9, <2>1, PendingFacts DEF BehaviorInv, Delivered
  <2>5. /\ received' \in Seq(Events) /\ n \in Nat /\ Len(received') = n + 1
        /\ \A k \in 1..n : received'[k] = received[k]
        /\ received'[n + 1] = x
    <3>1. received \in Seq(Events)
      BY <1>3 DEF BehaviorTypeOK
    <3> QED
      BY <2>2, <2>4, <3>1, SequenceIndices, AppendProperties
  <2> HIDE DEF n
  <2>6. 1..n + 1 = 1..n \cup {n + 1}
    BY <2>5
  <2>7. Elements(received') = Elements(received) \cup {x}
    BY <2>5, <2>6 DEF Elements, n
  <2>8. BehaviorTypeOK'
    BY <1>1, <1>2, <1>3, <2>2, <2>3, <2>4, <2>5 DEF BehaviorTypeOK
  <2>9. \A k, l \in 1..Len(received') :
          k < l /\ Alike(received'[k], received'[l])
            => OrdersBefore(received'[k], received'[l])
    <3> SUFFICES ASSUME NEW k \in 1..n + 1, NEW l \in 1..n + 1, k < l,
                        Alike(received'[k], received'[l])
                 PROVE  OrdersBefore(received'[k], received'[l])
      BY <2>5
    <3>1. k \in 1..n
      BY <2>5
    <3>2. CASE l \in 1..n
      BY <1>3, <2>5, <3>1, <3>2 DEF MailSound, n
    <3>3. CASE l = n + 1
      <4>1. received[k] \in Elements(received)
        BY <3>1 DEF Elements, n
      <4> QED
        BY <1>9, <2>1, <2>5, <3>1, <3>3, <4>1
    <3> QED
      BY <2>6, <3>2, <3>3
  <2>10. \A u \in Targets : \A m \in Elements(mailboxes'[u]) : \A r \in Elements(received') :
           Alike(r, m) => OrdersBefore(r, m)
    <3> SUFFICES ASSUME NEW u \in Targets, NEW m \in Elements(mailboxes'[u]),
                        NEW r \in Elements(received'), Alike(r, m)
                 PROVE  OrdersBefore(r, m)
      OBVIOUS
    <3>1. CASE u = t
      <4>1. m \in Elements(box) /\ m \in Elements(rest)
        BY <2>1, <2>3, <3>1
      <4>2. CASE r \in Elements(received)
        BY <1>9, <4>1, <4>2
      <4>3. CASE r = x
        BY <2>1, <4>1, <4>3 DEF Alike
      <4> QED
        BY <2>7, <4>2, <4>3
    <3>2. CASE u # t
      <4>1. m \in Elements(mailboxes[u]) /\ m.target = u
        BY <1>3, <2>3, <3>2 DEF MailSound
      <4>2. r \in Elements(received)
        BY <2>4, <2>7, <3>2, <4>1 DEF Alike
      <4> QED
        BY <1>3, <4>1, <4>2 DEF MailSound
    <3> QED
      BY <3>1, <3>2
  <2>11. \A u \in Targets :
           /\ Sorted(mailboxes'[u])
           /\ \A m \in Elements(mailboxes'[u]) : m.target = u /\ m \in Delivered
           /\ tasks[u] = NoTask => mailboxes'[u] = <<>>
    BY <1>3, <1>9, <1>13, <2>1, <2>3 DEF MailSound
  <2>12. Elements(received') \subseteq Delivered
    BY <1>3, <2>4, <2>7 DEF MailSound
  <2>13. MailSound'
    BY <1>1, <1>2, <1>10, <2>9, <2>10, <2>11, <2>12 DEF MailSound
  <2> QED
    BY <1>2, <2>8, <2>13 DEF BehaviorInv
<1> QED
  BY <1>11, <1>12, <1>13 DEF DispatchAsync, e, box

(* Every step of authors, the driver and callbacks keeps the invariant.     *)
LEMMA BehaviorsKeepInv == BehaviorInv /\ [BehaviorNext]_behaviorVars => BehaviorInv'
<1> SUFFICES ASSUME BehaviorInv, [BehaviorNext]_behaviorVars
             PROVE  BehaviorInv'
  OBVIOUS
<1>1. CASE UNCHANGED behaviorVars
  <2>1. UNCHANGED <<vars, causes, received, tasks, mailboxes, arrived, inFlight>>
    BY <1>1 DEF behaviorVars, runtimeVars, driverVars
  <2>2. /\ AgendaInv' /\ LogSound(lifecycle', nextId', Elements(pending'))
        /\ CausesSound' /\ Delivered' = Delivered
    BY <2>1, AgendaRests
  <2>3. BehaviorTypeOK' /\ MailSound'
    BY <2>1, <2>2 DEF BehaviorInv, BehaviorTypeOK, MailSound, vars
  <2> QED
    BY <2>2, <2>3 DEF BehaviorInv
<1> QED
  BY <1>1, AuthorBehaves, RuntimeBehaves, DeliverBehaves, AsyncBehaves, EmitBehaves,
     ChangeBehaves DEF BehaviorNext, CallbackStep

(* The runtimes' invariant in every reachable state.                        *)
THEOREM BehaviorInvHolds == BehaviorSpec => []BehaviorInv
BY InitBehaves, BehaviorsKeepInv, PTL DEF BehaviorSpec

(* Whatever a callback emits was requested after its cause was delivered,   *)
(* and runs after it, for any number of events, tasks and predicates.       *)
THEOREM EffectsAlwaysFollow == BehaviorSpec => []EffectsFollowCauses
BY CausesShow, BehaviorInvHolds, PTL

(* Selective receive takes messages one predicate cannot tell apart in the  *)
(* order they were delivered, each once.                                    *)
THEOREM ReceiveIsFifo == BehaviorSpec => []SelectiveFifo
BY MailShows, BehaviorInvHolds, PTL

(*************************** Transient sessions ****************************)

-----------------------------------------------------------------------------
(* The inductive invariant.                                                *)

Samples == [time : Int, timestep : Nat \ {0}]
Decisions == [start : Int, timestep : Nat \ {0}, accepted : BOOLEAN]
Kinds == {"step", "until", "runtime"}
CallStates == [kind : Kinds, limit : Int, progress : BOOLEAN, dispatched : Nat]

SessionTypeOK ==
  /\ time \in StartTime..StopTime
  /\ nextTimestep \in 1..MaximumTimestep
  /\ schedules \subseteq Int /\ sourceBreaks \subseteq Int
  /\ samples \in Seq(Samples)
  /\ decisions \in Seq(Decisions)
  /\ delivered \in Seq(Events)
  /\ status \in Statuses
  /\ call \in CallStates

(* A call never stands beyond its limit, and turns to the analog circuit    *)
(* only when nothing is due.                                                *)
CallInv ==
  /\ pc # "idle" => time <= call.limit /\ call.limit <= StopTime
  /\ pc = "solve" => ~Due

(* No decision ends after the session clock.                                *)
DecisionsBehind == \A i \in DOMAIN decisions : EndOf(decisions[i]) <= time

SessionInv ==
  /\ AgendaInv
  /\ SessionTypeOK
  /\ ClocksAgree
  /\ CallInv
  /\ DecisionsBehind
  /\ ReportIsTrue

-----------------------------------------------------------------------------
(* Lemmas on timesteps.                                                    *)

(* Shrinking a timestep that is long enough keeps it positive, and never    *)
(* lengthens it.                                                            *)
LEMMA Shrunk ==
  ASSUME NEW x \in Nat, NEW D \in Nat, D > 1, NEW M \in Nat, M > 0, x >= M * D
  PROVE  x \div D \in Nat /\ 1 <= x \div D /\ x \div D <= x
<1> DEFINE q == x \div D
           r == x % D
<1>1. q \in Int /\ r \in 0..D - 1 /\ x = D * q + r
  OBVIOUS
<1> HIDE DEF q, r
<1>2. q >= 1
  <2> SUFFICES ASSUME q <= 0
               PROVE  FALSE
    BY <1>1
  <2>1. D * q <= 0
    BY <1>1
  <2>2. M * D >= D
    OBVIOUS
  <2>3. M * D \in Nat /\ D * q \in Int
    BY <1>1
  <2> QED
    BY <1>1, <2>1, <2>2, <2>3
<1>3. D * q >= q
  BY <1>1, <1>2
<1>4. D * q \in Int
  BY <1>1
<1> QED
  BY <1>1, <1>2, <1>3, <1>4 DEF q

(* The earliest breakpoint of the agenda is the first pending event that is *)
(* later than the given time.                                               *)
LEMMA AgendaBreakpoint ==
  ASSUME AgendaInv, NEW t \in Int
  PROVE  /\ NextBreakpointAfter(t) \subseteq Int
         /\ \A b \in NextBreakpointAfter(t) : t < b
         /\ \A e \in Elements(pending) : t < e.time =>
              \E b \in NextBreakpointAfter(t) : b <= e.time
<1> DEFINE later == {i \in DOMAIN pending : t < pending[i].time}
<1>1. /\ DOMAIN pending = 1..Len(pending) /\ Len(pending) \in Nat /\ Sorted(pending)
      /\ \A i \in 1..Len(pending) : pending[i] \in Events /\ pending[i].time \in Int
  BY PendingFacts, SequenceIndices, EventFields
<1>2. later \subseteq Nat
  BY <1>1
<1>3. NextBreakpointAfter(t) = IF later = {} THEN {} ELSE {pending[Min(later)].time}
  BY DEF NextBreakpointAfter
<1>4. CASE later = {}
  BY <1>1, <1>3, <1>4 DEF Elements
<1>5. CASE later # {}
  <2> DEFINE m == Min(later)
  <2>1. m \in later /\ \A i \in later : m <= i
    BY <1>2, <1>5, MinOfNaturals
  <2>2. NextBreakpointAfter(t) = {pending[m].time}
    BY <1>3, <1>5
  <2> HIDE DEF m
  <2>3. m \in 1..Len(pending) /\ t < pending[m].time
    BY <1>1, <2>1
  <2>4. ASSUME NEW i \in 1..Len(pending), t < pending[i].time
        PROVE  pending[m].time <= pending[i].time
    <3>1. i \in later /\ m <= i
      BY <1>1, <2>1, <2>4
    <3>2. CASE m = i
      BY <1>1, <3>2
    <3>3. CASE m < i
      <4> HIDE DEF later
      <4>1. OrdersBefore(pending[m], pending[i])
        BY <1>1, <2>3, <3>3 DEF Sorted
      <4> QED
        BY <1>1, <2>3, <4>1 DEF OrdersBefore
    <3> QED
      BY <1>1, <2>3, <3>1, <3>2, <3>3
  <2> QED
    BY <1>1, <2>2, <2>3, <2>4 DEF Elements
<1> QED
  BY <1>4, <1>5

(* event_limited_timestep shortens a proposal, never to nothing, and never  *)
(* lets it pass a breakpoint of a source, a schedule or the agenda.         *)
LEMMA EventLimitedFacts ==
  ASSUME AgendaInv, time \in Int, Breakpoints \subseteq Int, NEW proposed \in Nat \ {0}
  PROVE  /\ EventLimited(proposed) \in 1..proposed
         /\ \A b \in Breakpoints : time < b => time + EventLimited(proposed) <= b
         /\ \A e \in Elements(pending) : time < e.time =>
              time + EventLimited(proposed) <= e.time
<1> DEFINE S == {x \in Breakpoints : x > time} \cup NextBreakpointAfter(time)
           D == {proposed} \cup {b - time : b \in S}
<1>1. S \subseteq Int /\ \A b \in S : time < b
  BY AgendaBreakpoint
<1>2. /\ D \subseteq Nat /\ D # {} /\ proposed \in D
      /\ \A d \in D : d > 0
      /\ \A b \in S : b - time \in D
  <2> HIDE DEF S
  <2> QED
    BY <1>1
<1>3. EventLimited(proposed) = Min(D)
  BY DEF EventLimited
<1> HIDE DEF D
<1>4. Min(D) \in D /\ \A y \in D : Min(D) <= y
  BY <1>2, MinOfNaturals
<1> DEFINE m == Min(D)
<1>5. m \in Nat /\ m > 0 /\ m <= proposed /\ \A b \in S : m <= b - time
  BY <1>2, <1>4
<1> HIDE DEF m
<1>6. \A b \in S : time + m <= b
  BY <1>1, <1>5
<1>7. \A b \in Breakpoints : time < b => time + m <= b
  BY <1>6
<1>8. ASSUME NEW e \in Elements(pending), time < e.time
      PROVE  time + m <= e.time
  <2>1. PICK b \in NextBreakpointAfter(time) : b <= e.time
    BY <1>8, AgendaBreakpoint
  <2>2. e.time \in Int
    BY PendingFacts, EventFields
  <2>3. b \in Int /\ time + m <= b
    BY <1>1, <1>6, <2>1
  <2> QED
    BY <1>5, <2>1, <2>2, <2>3
<1> QED
  BY <1>3, <1>5, <1>7, <1>8 DEF m

(* A recursive function on an interval exists: here, of ever shorter steps. *)
LEMMA ShrinkingRun ==
  ASSUME NEW N \in Nat
  PROVE  \A first :
           \E a : a = [k \in 0..N |-> IF k = 0 THEN first ELSE a[k - 1] \div ShrinkDivisor]
<1> TAKE first
<1> DEFINE Defined(n) ==
             \E g : g = [k \in 0..n |-> IF k = 0 THEN first ELSE g[k - 1] \div ShrinkDivisor]
           S == {n \in Nat : Defined(n)}
<1>1. 0 \in S
  <2> DEFINE g == [k \in 0..0 |-> first]
  <2>1. g = [k \in 0..0 |-> IF k = 0 THEN first ELSE g[k - 1] \div ShrinkDivisor]
    OBVIOUS
  <2> HIDE DEF g
  <2> QED
    BY <2>1
<1>2. ASSUME NEW n \in 1..N, n - 1 \in S
      PROVE  n \in S
  <2>1. PICK g : g = [k \in 0..n - 1 |-> IF k = 0 THEN first ELSE g[k - 1] \div ShrinkDivisor]
    BY <1>2
  <2> DEFINE h == [k \in 0..n |-> IF k < n THEN g[k] ELSE g[n - 1] \div ShrinkDivisor]
  <2>2. \A k \in 0..n : k - 1 \in 0..n => h[k - 1] = g[k - 1]
    OBVIOUS
  <2>3. \A k \in 0..n : h[k] = IF k = 0 THEN first ELSE h[k - 1] \div ShrinkDivisor
    <3> TAKE k \in 0..n
    <3>1. CASE k = 0
      BY <2>1, <3>1
    <3>2. CASE k # 0 /\ k < n
      <4>1. h[k] = g[k] /\ k \in 0..n - 1 /\ k - 1 \in 0..n
        BY <3>2
      <4> HIDE DEF h
      <4> QED
        BY <2>1, <2>2, <3>2, <4>1
    <3>3. CASE k = n
      <4>1. h[k] = g[n - 1] \div ShrinkDivisor /\ k - 1 \in 0..n
        BY <3>3
      <4> HIDE DEF h
      <4> QED
        BY <2>2, <3>3, <4>1
    <3> QED
      BY <3>1, <3>2, <3>3
  <2>4. h = [k \in 0..n |-> h[k]]
    OBVIOUS
  <2> HIDE DEF h
  <2>5. h = [k \in 0..n |-> IF k = 0 THEN first ELSE h[k - 1] \div ShrinkDivisor]
    BY <2>3, <2>4
  <2> QED
    BY <2>5
<1> HIDE DEF S
<1>3. \A k \in 0..N : k \in S
  BY <1>1, <1>2, UpTo
<1> QED
  BY <1>3 DEF S

(* The attempts of a run after k rejections the policy allows: positive     *)
(* steps no longer than the first, which keeps to the proposal, the limit   *)
(* of the call and every breakpoint.                                        *)
LEMMA AttemptFacts ==
  ASSUME AgendaInv, time \in Int, Breakpoints \subseteq Int, nextTimestep \in Nat \ {0},
         NEW limit \in Int, time < limit, NEW k \in 0..MaxRejected,
         \A i \in 1..k : ShrinksTo(Attempts(limit), i)
  PROVE  \A i \in 0..k :
           LET step == Attempts(limit)[i]
           IN /\ step \in Nat \ {0} /\ step <= nextTimestep /\ time + step <= limit
              /\ \A b \in Breakpoints : time < b => time + step <= b
              /\ \A e \in Elements(pending) : time < e.time => time + step <= e.time
<1> DEFINE a == Attempts(limit)
           proposed == Min({nextTimestep, limit - time})
           first == EventLimited(proposed)
<1>0. /\ MaxRejected \in Nat /\ ShrinkDivisor \in Nat /\ ShrinkDivisor > 1
      /\ MinimumTimestep \in Nat /\ MinimumTimestep > 0
  BY PolicyAssumption
<1>1. proposed \in Nat \ {0} /\ proposed <= nextTimestep /\ proposed <= limit - time
  BY MinOfNaturals
<1>2. a = CHOOSE f : f = [i \in 0..MaxRejected |->
                            IF i = 0 THEN first ELSE f[i - 1] \div ShrinkDivisor]
  BY DEF Attempts
<1> HIDE DEF proposed
<1>3. /\ first \in 1..proposed
      /\ \A b \in Breakpoints : time < b => time + first <= b
      /\ \A e \in Elements(pending) : time < e.time => time + first <= e.time
  BY <1>1, EventLimitedFacts
<1> HIDE DEF first
<1>4. \E f : f = [i \in 0..MaxRejected |->
                    IF i = 0 THEN first ELSE f[i - 1] \div ShrinkDivisor]
  <2>1. MaxRejected \in Nat
    BY <1>0
  <2>2. \A x : \E f : f = [i \in 0..MaxRejected |->
                            IF i = 0 THEN x ELSE f[i - 1] \div ShrinkDivisor]
    BY <2>1, ShrinkingRun, Zenon
  <2> QED
    BY <2>2, Zenon
<1> HIDE DEF a
<1>5. a = [i \in 0..MaxRejected |-> IF i = 0 THEN first ELSE a[i - 1] \div ShrinkDivisor]
  BY <1>2, <1>4
<1>6. a[0] = first /\ \A i \in 1..MaxRejected : a[i] = a[i - 1] \div ShrinkDivisor
  BY <1>0, <1>5
<1> DEFINE S == {i \in 0..k : a[i] \in 1..first}
<1>7. 0 \in S
  BY <1>3, <1>6
<1>8. ASSUME NEW i \in 1..k, i - 1 \in S
      PROVE  i \in S
  <2>1. a[i - 1] \in 1..first /\ i \in 1..MaxRejected
    BY <1>0, <1>8
  <2>2. a[i - 1] >= MinimumTimestep * ShrinkDivisor
    <3>1. ShrinksTo(a, i)
      BY DEF a
    <3> QED
      BY <3>1 DEF ShrinksTo
  <2>3. first \in Nat /\ a[i - 1] \in Nat
    BY <1>3, <2>1
  <2>4. /\ a[i - 1] \div ShrinkDivisor \in Nat /\ 1 <= a[i - 1] \div ShrinkDivisor
        /\ a[i - 1] \div ShrinkDivisor <= a[i - 1]
    BY <1>0, <2>2, <2>3, Shrunk
  <2>5. a[i] \in Nat /\ 1 <= a[i] /\ a[i] <= a[i - 1]
    BY <1>6, <2>1, <2>4
  <2> QED
    BY <2>1, <2>3, <2>5
<1> HIDE DEF S
<1>9. \A i \in 0..k : i \in S
  BY <1>7, <1>8, UpTo
<1>10. ASSUME NEW i \in 0..k
       PROVE  /\ a[i] \in Nat \ {0} /\ a[i] <= nextTimestep /\ time + a[i] <= limit
              /\ \A b \in Breakpoints : time < b => time + a[i] <= b
              /\ \A e \in Elements(pending) : time < e.time => time + a[i] <= e.time
  <2>1. a[i] \in 1..first /\ first \in Nat /\ first <= proposed
    BY <1>3, <1>9 DEF S
  <2>2. a[i] \in Nat \ {0} /\ a[i] <= first
    BY <2>1
  <2>3. \A b \in Breakpoints : time < b => time + a[i] <= b
    BY <1>3, <2>1, <2>2
  <2>4. \A e \in Elements(pending) : e.time \in Int
    BY PendingFacts, EventFields
  <2>5. \A e \in Elements(pending) : time < e.time => time + a[i] <= e.time
    BY <1>3, <2>1, <2>2, <2>4
  <2> QED
    BY <1>1, <2>1, <2>2, <2>3, <2>5
<1> QED
  BY <1>10 DEF a

-----------------------------------------------------------------------------
(* Lemmas on the decisions.                                                *)

(* A log of decisions with more decisions after it.                         *)
LEMMA ConcatFacts ==
  ASSUME NEW S, NEW s \in Seq(S), NEW new \in Seq(S)
  PROVE  /\ s \o new \in Seq(S)
         /\ Len(s) \in Nat /\ Len(new) \in Nat
         /\ DOMAIN s = 1..Len(s) /\ DOMAIN new = 1..Len(new)
         /\ DOMAIN (s \o new) = 1..Len(s) + Len(new)
         /\ \A i \in 1..Len(s) : (s \o new)[i] = s[i]
         /\ \A i \in 1..Len(new) : (s \o new)[Len(s) + i] = new[i]
<1>1. Len(s) \in Nat /\ Len(new) \in Nat
  BY SequenceIndices
<1> DEFINE t == s \o new
<1>2. /\ t \in Seq(S) /\ Len(t) = Len(s) + Len(new)
      /\ \A i \in 1..Len(s) + Len(new) :
           t[i] = IF i <= Len(s) THEN s[i] ELSE new[i - Len(s)]
  BY ConcatProperties
<1> HIDE DEF t
<1>3. \A i \in 1..Len(s) : t[i] = s[i]
  BY <1>1, <1>2
<1>4. \A i \in 1..Len(new) : t[Len(s) + i] = new[i]
  BY <1>1, <1>2
<1>5. DOMAIN t = 1..Len(s) + Len(new)
  BY <1>1, <1>2, SequenceIndices
<1>6. DOMAIN s = 1..Len(s) /\ DOMAIN new = 1..Len(new)
  BY SequenceIndices
<1> QED
  BY <1>1, <1>2, <1>3, <1>4, <1>5, <1>6 DEF t

(* The rejections of a log are counted by a natural number.                 *)
LEMMA RejectionsAreFinite ==
  ASSUME NEW s \in Seq(Decisions)
  PROVE  IsFiniteSet(RejectedIn(s)) /\ Cardinality(RejectedIn(s)) \in Nat
<1>1. RejectedIn(s) \subseteq 1..Len(s) /\ Len(s) \in Nat
  BY SequenceIndices DEF RejectedIn
<1>2. IsFiniteSet(1..Len(s))
  BY <1>1, FS_Interval
<1> QED
  BY <1>1, <1>2, FS_Subset, FS_CardinalityType

(* A run that rejects its first k attempts and accepts any other adds k     *)
(* rejections to the log.                                                   *)
LEMMA RejectionsGrow ==
  ASSUME NEW s \in Seq(Decisions), NEW new \in Seq(Decisions), NEW k \in 0..Len(new),
         \A i \in 1..Len(new) : new[i].accepted <=> i > k
  PROVE  Cardinality(RejectedIn(s \o new)) = Cardinality(RejectedIn(s)) + k
<1> DEFINE t == s \o new
           n == Len(s)
<1>1. /\ n \in Nat /\ Len(new) \in Nat /\ DOMAIN s = 1..n /\ DOMAIN t = 1..n + Len(new)
      /\ \A i \in 1..n : t[i] = s[i]
      /\ \A i \in 1..Len(new) : t[n + i] = new[i]
  BY ConcatFacts
<1> HIDE DEF t, n
<1>2. RejectedIn(t) = RejectedIn(s) \cup (n + 1..n + k)
  <2>1. ASSUME NEW i \in 1..n + Len(new)
        PROVE  i \in RejectedIn(t) <=> i \in RejectedIn(s) \cup (n + 1..n + k)
    <3>1. CASE i \in 1..n
      BY <1>1, <3>1 DEF RejectedIn
    <3>2. CASE i \notin 1..n
      <4>1. i - n \in 1..Len(new) /\ i = n + (i - n)
        BY <1>1, <3>2
      <4>2. t[i] = new[i - n]
        BY <1>1, <4>1
      <4>3. i \in RejectedIn(t) <=> ~(i - n > k)
        BY <1>1, <4>1, <4>2 DEF RejectedIn
      <4>4. ~(i - n > k) <=> i \in n + 1..n + k
        BY <1>1, <3>2
      <4> QED
        BY <1>1, <3>2, <4>3, <4>4 DEF RejectedIn
    <3> QED
      BY <3>1, <3>2
  <2>2. RejectedIn(t) \subseteq 1..n + Len(new) /\ RejectedIn(s) \subseteq 1..n + Len(new)
        /\ n + 1..n + k \subseteq 1..n + Len(new)
    BY <1>1 DEF RejectedIn
  <2> QED
    BY <2>1, <2>2
<1>3. IsFiniteSet(RejectedIn(s)) /\ Cardinality(RejectedIn(s)) \in Nat
  BY RejectionsAreFinite
<1>4. IsFiniteSet(n + 1..n + k) /\ Cardinality(n + 1..n + k) = k
  <2>1. n + 1 \in Int /\ n + k \in Int /\ k \in Nat
    BY <1>1
  <2>2. /\ IsFiniteSet(n + 1..n + k)
        /\ Cardinality(n + 1..n + k) =
             IF n + 1 > n + k THEN 0 ELSE (n + k) - (n + 1) + 1
    BY <2>1, FS_Interval
  <2>3. (IF n + 1 > n + k THEN 0 ELSE (n + k) - (n + 1) + 1) = k
    BY <1>1
  <2> QED
    BY <2>2, <2>3
<1>5. RejectedIn(s) \cap (n + 1..n + k) = {}
  BY <1>1 DEF RejectedIn
<1>6. Cardinality({}) = 0
  BY FS_EmptySet
<1>7. Cardinality(RejectedIn(s) \cup (n + 1..n + k)) =
        Cardinality(RejectedIn(s)) + Cardinality(n + 1..n + k)
          - Cardinality(RejectedIn(s) \cap (n + 1..n + k))
  BY <1>3, <1>4, FS_Union
<1>8. Cardinality(RejectedIn(t)) = Cardinality(RejectedIn(s)) + k - 0
  BY <1>2, <1>4, <1>5, <1>6, <1>7
<1> QED
  BY <1>1, <1>3, <1>8 DEF t

(* Decisions taken at the session clock, all but the last of them rejected, *)
(* go after the earlier ones in the order of time.                          *)
LEMMA DecisionsGrow ==
  ASSUME SessionInv, NEW new \in Seq(Decisions), NEW t, t \in Int, time <= t,
         \A i \in 1..Len(new) : new[i].start = time /\ EndOf(new[i]) <= t,
         \A i, j \in 1..Len(new) : i < j => ~new[i].accepted
  PROVE  LET log == decisions \o new
         IN /\ log \in Seq(Decisions)
            /\ \A i \in DOMAIN log : EndOf(log[i]) <= t
            /\ \A i, j \in DOMAIN log : i < j => EndOf(log[i]) <= log[j].start
            /\ {d \in Elements(log) : d.accepted} =
                 {d \in Elements(decisions) : d.accepted} \cup
                 {d \in Elements(new) : d.accepted}
<1> DEFINE log == decisions \o new
           n == Len(decisions)
           m == Len(new)
<1>1. /\ decisions \in Seq(Decisions) /\ time \in Int
      /\ \A i \in DOMAIN decisions : EndOf(decisions[i]) <= time
      /\ \A i, j \in DOMAIN decisions : i < j => EndOf(decisions[i]) <= decisions[j].start
  <2>1. time \in StartTime..StopTime /\ StartTime \in Int /\ StopTime \in Int
    BY AgendaAssumption, PolicyAssumption DEF SessionInv, SessionTypeOK
  <2> QED
    BY <2>1 DEF SessionInv, SessionTypeOK, DecisionsBehind, ReportIsTrue, SamplesTile
<1>2. /\ log \in Seq(Decisions) /\ n \in Nat /\ m \in Nat
      /\ DOMAIN decisions = 1..n /\ DOMAIN log = 1..n + m /\ DOMAIN new = 1..m
      /\ \A i \in 1..n : log[i] = decisions[i]
      /\ \A i \in 1..m : log[n + i] = new[i]
  BY <1>1, ConcatFacts
<1> HIDE DEF log
<1>3. \A d \in Decisions : EndOf(d) \in Int /\ d.start \in Int
  BY DEF Decisions, EndOf
<1>4. \A i \in 1..n + m : log[i] \in Decisions
  BY <1>2, SequenceIndices
<1>5. \A i \in 1..n + m : i \in 1..n \/ (i - n \in 1..m /\ log[i] = new[i - n])
  <2> TAKE i \in 1..n + m
  <2>1. CASE i > n
    <3>1. i - n \in 1..m /\ n + (i - n) = i
      BY <1>2, <2>1
    <3> QED
      BY <1>2, <3>1
  <2> QED
    BY <1>2, <2>1
<1> HIDE DEF n, m
<1>6. ASSUME NEW i \in 1..n + m
      PROVE  EndOf(log[i]) <= t
  <2>1. CASE i \in 1..n
    <3>1. EndOf(log[i]) <= time /\ EndOf(log[i]) \in Int
      BY <1>1, <1>2, <1>3, <1>4, <2>1
    <3> QED
      BY <1>1, <3>1
  <2>2. CASE i - n \in 1..m /\ log[i] = new[i - n]
    BY <2>2 DEF m
  <2> QED
    BY <1>5, <2>1, <2>2
<1>7. ASSUME NEW i \in 1..n + m, NEW j \in 1..n + m, i < j
      PROVE  EndOf(log[i]) <= log[j].start
  <2>1. CASE j \in 1..n
    <3>1. i \in 1..n /\ log[i] = decisions[i] /\ log[j] = decisions[j]
      BY <1>2, <1>7, <2>1
    <3> QED
      BY <1>1, <1>2, <1>7, <2>1, <3>1
  <2>2. CASE j - n \in 1..m /\ log[j] = new[j - n]
    <3>1. log[j].start = time
      BY <2>2 DEF m
    <3>2. CASE i \in 1..n
      BY <1>1, <1>2, <3>1, <3>2
    <3>3. CASE i - n \in 1..m /\ log[i] = new[i - n]
      <4>1. i - n < j - n /\ i - n \in Int /\ j - n \in Int
        BY <1>2, <1>7
      <4>2. ~new[i - n].accepted /\ new[i - n].start = time
        BY <2>2, <3>3, <4>1 DEF m
      <4>3. EndOf(log[i]) = time
        BY <3>3, <4>2 DEF EndOf
      <4> QED
        BY <1>1, <3>1, <4>3
    <3> QED
      BY <1>5, <3>2, <3>3
  <2> QED
    BY <1>5, <2>1, <2>2
<1>8. Elements(log) = Elements(decisions) \cup Elements(new)
  <2>1. Len(log) = n + m
    BY <1>2, SequenceIndices
  <2>2. ASSUME NEW i \in 1..n + m
        PROVE  log[i] \in Elements(decisions) \cup Elements(new)
    BY <1>2, <1>5 DEF Elements, n, m
  <2>3. ASSUME NEW i \in 1..n
        PROVE  decisions[i] \in Elements(log)
    BY <1>2, <2>1, <2>3 DEF Elements
  <2>4. ASSUME NEW i \in 1..m
        PROVE  new[i] \in Elements(log)
    <3>1. n + i \in 1..n + m
      BY <1>2, <2>4
    <3> QED
      BY <1>2, <2>1, <2>4, <3>1 DEF Elements
  <2> QED
    BY <2>1, <2>2, <2>3, <2>4 DEF Elements, n, m
<1> QED
  BY <1>2, <1>6, <1>7, <1>8 DEF log

(* The decisions of a run that rejects its first k attempts.                *)
LEMMA RejectionsFacts ==
  ASSUME time \in Int, NEW k \in 0..MaxRejected, NEW a,
         \A i \in 0..k - 1 : a[i] \in Nat \ {0}
  PROVE  /\ Rejections(a, k) \in Seq(Decisions) /\ Len(Rejections(a, k)) = k
         /\ \A i \in 1..k : /\ Rejections(a, k)[i].start = time
                            /\ ~Rejections(a, k)[i].accepted
                            /\ EndOf(Rejections(a, k)[i]) = time
<1>1. k \in Nat /\ MaxRejected \in Nat
  BY PolicyAssumption
<1>2. \A i \in 1..k : Decision(a[i - 1], FALSE) \in Decisions
  BY <1>1 DEF Decision, Decisions
<1>3. Rejections(a, k) = [i \in 1..k |-> Decision(a[i - 1], FALSE)]
  BY DEF Rejections
<1>4. Rejections(a, k) \in [1..k -> Decisions]
  BY <1>2, <1>3
<1>5. Rejections(a, k) \in Seq(Decisions) /\ Len(Rejections(a, k)) = k
  BY <1>1, <1>4, SeqDef, LenProperties
<1>6. \A i \in 1..k : Rejections(a, k)[i] = Decision(a[i - 1], FALSE)
  BY <1>3
<1> QED
  BY <1>5, <1>6 DEF Decision, EndOf

-----------------------------------------------------------------------------
(* Steps.                                                                  *)

(* Scheduling, cancelling and rescheduling leave the clock and deliver      *)
(* nothing.                                                                 *)
LEMMA RequestingKeeps ==
  ASSUME AgendaInv, Requesting
  PROVE  AgendaInv' /\ now' = now /\ DeliveredIn(lifecycle') = DeliveredIn(lifecycle)
<1>1. CASE \E req \in Requests : Schedule(req)
  BY <1>1, SchedulePreservesInv DEF Joined
<1>2. CASE \E n \in 1..MaxTrace : \E reqs \in [1..n -> Requests] : SchedulePreordered(reqs)
  BY <1>2, SchedulePreorderedPreservesInv DEF Joined
<1>3. CASE \E id \in Ids : Cancel(id)
  BY <1>3, CancelPreservesInv DEF Replaced
<1>4. CASE \E id \in Ids, req \in Requests : Reschedule(id, req)
  BY <1>4, ReschedulePreservesInv DEF Replaced
<1> QED
  BY <1>1, <1>2, <1>3, <1>4 DEF Requesting

(* What the parameters and the invariant say of the clocks.                 *)
LEMMA SessionFacts ==
  ASSUME SessionInv
  PROVE  /\ StartTime \in Int /\ StopTime \in Int /\ StartTime < StopTime
         /\ time \in Int /\ StartTime <= time /\ time <= StopTime /\ time \in Times
         /\ now = time /\ outcome # "Agenda"
         /\ nextTimestep \in Nat \ {0} /\ nextTimestep <= MaximumTimestep
         /\ MaximumTimestep \in Int
         /\ Breakpoints \subseteq Int
         /\ samples \in Seq(Samples) /\ decisions \in Seq(Decisions)
         /\ call.limit \in Int
BY AgendaAssumption, PolicyAssumption
   DEF SessionInv, SessionTypeOK, ClocksAgree, Breakpoints, CallStates

(* A step that neither moves the clock, nor delivers, nor decides anything. *)
LEMMA QuietKeeps ==
  ASSUME SessionInv, AgendaInv', now' = now,
         DeliveredIn(lifecycle') = DeliveredIn(lifecycle),
         UNCHANGED <<time, nextTimestep, samples, decisions, delivered>>,
         (schedules \subseteq Int /\ sourceBreaks \subseteq Int)',
         status' \in Statuses, CompleteAtStop',
         call' \in CallStates, CallInv', outcome' # "Agenda"
  PROVE  SessionInv'
<1>1. SessionTypeOK'
  BY DEF SessionInv, SessionTypeOK
<1>2. ClocksAgree'
  BY DEF SessionInv, ClocksAgree
<1>3. DecisionsBehind'
  BY DEF SessionInv, DecisionsBehind
<1>4. SamplesTile'
  BY DEF SessionInv, ReportIsTrue, SamplesTile, StartOf
<1>5. DeliveredAtEndpoints'
  BY DEF SessionInv, ReportIsTrue, DeliveredAtEndpoints
<1>6. BudgetsHold'
  BY DEF SessionInv, ReportIsTrue, BudgetsHold, RejectedCount
<1> QED
  BY <1>1, <1>2, <1>3, <1>4, <1>5, <1>6 DEF SessionInv, ReportIsTrue

(* Authoring between calls, and what callbacks do.                          *)
LEMMA RequestsKeepInv ==
  ASSUME SessionInv, pc # "solve", Requesting, UNCHANGED <<sessionVars, callVars>>
  PROVE  SessionInv'
<1>1. AgendaInv' /\ now' = now /\ DeliveredIn(lifecycle') = DeliveredIn(lifecycle)
  BY RequestingKeeps DEF SessionInv
<1>2. /\ UNCHANGED <<time, nextTimestep, samples, decisions, delivered>>
      /\ UNCHANGED <<schedules, sourceBreaks, status>>
      /\ UNCHANGED <<pc, call, outcome>>
  BY DEF sessionVars, callVars
<1>3. /\ (schedules \subseteq Int /\ sourceBreaks \subseteq Int)'
      /\ status' \in Statuses /\ call' \in CallStates /\ outcome' # "Agenda"
  BY <1>2 DEF SessionInv, SessionTypeOK, ClocksAgree
<1>4. CompleteAtStop'
  BY <1>2 DEF SessionInv, ReportIsTrue, CompleteAtStop
<1>5. CallInv'
  BY <1>2 DEF SessionInv, CallInv
<1> QED
  BY <1>1, <1>2, <1>3, <1>4, <1>5, QuietKeeps

(* Breakpoint schedules added between calls.                                *)
LEMMA ScheduleAddedKeepsInv ==
  ASSUME SessionInv, NEW times \in Schedules, AddBreakpointSchedule(times)
  PROVE  SessionInv'
<1>1. /\ pc = "idle" /\ schedules' = schedules \cup times
      /\ UNCHANGED vars
      /\ UNCHANGED <<time, nextTimestep, samples, decisions, delivered>>
      /\ UNCHANGED <<sourceBreaks, status>>
      /\ UNCHANGED <<pc, call, outcome>>
  BY DEF AddBreakpointSchedule, callVars
<1>2. AgendaInv' /\ now' = now /\ DeliveredIn(lifecycle') = DeliveredIn(lifecycle)
  BY <1>1, StutterPreservesInv DEF SessionInv, vars
<1>3. /\ (schedules \subseteq Int /\ sourceBreaks \subseteq Int)'
      /\ status' \in Statuses /\ call' \in CallStates /\ outcome' # "Agenda"
  BY <1>1, PolicyAssumption DEF SessionInv, SessionTypeOK, ClocksAgree
<1>4. CompleteAtStop'
  BY <1>1 DEF SessionInv, ReportIsTrue, CompleteAtStop
<1>5. CallInv'
  BY <1>1 DEF SessionInv, CallInv
<1> QED
  BY <1>1, <1>2, <1>3, <1>4, <1>5, QuietKeeps

(* A step that leaves the agenda, the breakpoints and the log alone: the    *)
(* call goes on, ends, or ends the session.                                 *)
LEMMA ControlKeepsInv ==
  ASSUME SessionInv, UNCHANGED vars,
         UNCHANGED <<time, nextTimestep, schedules, sourceBreaks, samples, decisions, delivered>>,
         status' \in Statuses, CompleteAtStop',
         call' \in CallStates, call'.limit = call.limit,
         outcome' # "Agenda",
         pc' # "idle" => pc # "idle",
         pc' = "solve" => ~Due
  PROVE  SessionInv'
<1>1. AgendaInv' /\ now' = now /\ DeliveredIn(lifecycle') = DeliveredIn(lifecycle)
  BY StutterPreservesInv DEF SessionInv, vars
<1>2. (schedules \subseteq Int /\ sourceBreaks \subseteq Int)'
  BY DEF SessionInv, SessionTypeOK
<1>3. CallInv'
  <2>1. Due' = Due
    BY DEF Due, vars
  <2> QED
    BY <2>1 DEF SessionInv, CallInv
<1> QED
  BY <1>1, <1>2, <1>3, QuietKeeps

(* Starting a call.                                                         *)
LEMMA BeginKeepsInv ==
  ASSUME SessionInv, BeginCall
  PROVE  SessionInv'
<1>1. PICK kind, limit : /\ Begin(kind, limit) /\ kind \in Kinds /\ limit \in Int
                         /\ time <= limit /\ limit <= StopTime
  <2>0. time <= StopTime /\ StopTime \in Int /\ Times \subseteq Int
    BY SessionFacts, AgendaAssumption
  <2>1. CASE BeginStep
    BY <2>0, <2>1 DEF BeginStep, Kinds
  <2>2. CASE BeginRuntime
    BY <2>0, <2>2 DEF BeginRuntime, Kinds
  <2>3. CASE \E target \in Times : BeginUntil(target)
    BY <2>0, <2>3 DEF BeginUntil, Kinds
  <2> QED
    BY <2>1, <2>2, <2>3 DEF BeginCall
<1>2. /\ pc' = "deliver" /\ outcome' = "Ok"
      /\ call' = [kind |-> kind, limit |-> limit, progress |-> FALSE, dispatched |-> 0]
      /\ UNCHANGED vars
      /\ UNCHANGED <<time, nextTimestep, samples, decisions, delivered>>
      /\ UNCHANGED <<schedules, sourceBreaks, status>>
  BY <1>1 DEF Begin, sessionVars
<1>3. AgendaInv' /\ now' = now /\ DeliveredIn(lifecycle') = DeliveredIn(lifecycle)
  BY <1>2, StutterPreservesInv DEF SessionInv, vars
<1>4. /\ (schedules \subseteq Int /\ sourceBreaks \subseteq Int)'
      /\ status' \in Statuses
  BY <1>2 DEF SessionInv, SessionTypeOK
<1>5. call' \in CallStates /\ outcome' # "Agenda"
  BY <1>1, <1>2 DEF CallStates
<1>6. CompleteAtStop'
  BY <1>2 DEF SessionInv, ReportIsTrue, CompleteAtStop
<1>7. CallInv'
  BY <1>1, <1>2 DEF CallInv
<1> QED
  BY <1>2, <1>3, <1>4, <1>5, <1>6, <1>7, QuietKeeps

(* Nothing is due: the step turns to the analog circuit, or is over.        *)
LEMMA EndStepKeepsInv ==
  ASSUME SessionInv, EndStep
  PROVE  SessionInv'
<1>1. /\ pc = "deliver" /\ ~Due /\ UNCHANGED vars
      /\ UNCHANGED <<time, nextTimestep, schedules, sourceBreaks, samples, decisions, delivered>>
      /\ status' = status
  BY DEF EndStep, sessionVars
<1>2. call \in CallStates /\ status \in Statuses /\ outcome # "Agenda"
  BY DEF SessionInv, SessionTypeOK, ClocksAgree
<1>3. /\ call' = call \/ call' = [call EXCEPT !.progress = FALSE]
      /\ outcome' = outcome \/ outcome' = "Ok"
  BY DEF EndStep, Return
<1>4. call' \in CallStates /\ call'.limit = call.limit /\ outcome' # "Agenda"
  BY <1>2, <1>3 DEF CallStates
<1>5. CompleteAtStop'
  BY <1>1 DEF SessionInv, ReportIsTrue, CompleteAtStop
<1> QED
  BY <1>1, <1>2, <1>4, <1>5, ControlKeepsInv

(* A callback returns, or fails and ends the call.                          *)
LEMMA CallbackEndKeepsInv ==
  ASSUME SessionInv, CallbackReturns \/ CallbackFails
  PROVE  SessionInv'
<1>1. /\ pc = "callback" /\ UNCHANGED vars /\ pc' # "solve"
      /\ UNCHANGED <<time, nextTimestep, schedules, sourceBreaks, samples, decisions, delivered>>
      /\ status' = status /\ call' = call /\ outcome' \in {outcome, "Behavior"}
  BY DEF CallbackReturns, CallbackFails, sessionVars, Return
<1>2. call \in CallStates /\ status \in Statuses /\ outcome # "Agenda"
  BY DEF SessionInv, SessionTypeOK, ClocksAgree
<1>3. CompleteAtStop'
  BY <1>1 DEF SessionInv, ReportIsTrue, CompleteAtStop
<1> QED
  BY <1>1, <1>2, <1>3, ControlKeepsInv

(* A step that starts at its limit, or with a spent budget.                 *)
LEMMA NoStepKeepsInv ==
  ASSUME SessionInv, AtLimit \/ BudgetSpent
  PROVE  SessionInv'
<1>1. /\ pc = "solve" /\ UNCHANGED vars /\ pc' = "deliver"
      /\ UNCHANGED <<time, nextTimestep, schedules, sourceBreaks, samples, decisions, delivered>>
      /\ outcome' = outcome /\ call' = [call EXCEPT !.progress = TRUE]
  BY DEF AtLimit, BudgetSpent, EndWithoutSample
<1>2. /\ call \in CallStates /\ status \in Statuses /\ outcome # "Agenda"
      /\ CompleteAtStop /\ time <= call.limit /\ call.limit <= StopTime
  BY <1>1 DEF SessionInv, SessionTypeOK, ClocksAgree, CallInv, ReportIsTrue
<1>3. call' \in CallStates /\ call'.limit = call.limit
  BY <1>1, <1>2 DEF CallStates
<1>4. status' \in Statuses /\ CompleteAtStop'
  <2>1. CASE AtLimit
    BY <1>1, <1>2, <2>1 DEF AtLimit, StatusAt, CompleteAtStop, Statuses
  <2>2. CASE BudgetSpent
    <3>1. status' \in {"AcceptedStepLimit", "RejectedStepLimit"}
      BY <2>2 DEF BudgetSpent, Exhausted
    <3>2. time # StopTime
      <4>1. time # call.limit
        BY <2>2 DEF BudgetSpent
      <4> QED
        BY <1>2, <4>1, SessionFacts
    <3> QED
      BY <1>1, <3>1, <3>2 DEF CompleteAtStop, Statuses
  <2> QED
    BY <2>1, <2>2
<1> QED
  BY <1>1, <1>2, <1>3, <1>4, ControlKeepsInv

(* The policy of the step is refused.                                       *)
LEMMA RefusedKeepsInv ==
  ASSUME SessionInv, RunRefused
  PROVE  SessionInv'
<1>1. /\ pc = "solve" /\ UNCHANGED vars /\ pc' = "idle"
      /\ UNCHANGED <<time, nextTimestep, schedules, sourceBreaks, samples, decisions, delivered>>
      /\ outcome' = "InvalidPolicy" /\ call' = call /\ status' = status
  BY DEF RunRefused, Solving, Return, sessionVars
<1>2. call \in CallStates /\ status \in Statuses
  BY DEF SessionInv, SessionTypeOK
<1>3. CompleteAtStop'
  BY <1>1 DEF SessionInv, ReportIsTrue, CompleteAtStop
<1> QED
  BY <1>1, <1>2, <1>3, ControlKeepsInv

(* The instant the session stands at is the start or the end of a sample.   *)
LEMMA AtAnEndpoint ==
  ASSUME SessionInv
  PROVE  time = StartTime \/ \E j \in DOMAIN samples : samples[j].time = time
<1>1. samples \in Seq(Samples) /\ time = StartOf(samples, Len(samples) + 1)
  BY DEF SessionInv, SessionTypeOK, ReportIsTrue, SamplesTile
<1>2. Len(samples) \in Nat /\ DOMAIN samples = 1..Len(samples)
  BY <1>1, SequenceIndices
<1> QED
  BY <1>1, <1>2 DEF StartOf

(* A delivery: the event is due, so the clock stays where it is.            *)
LEMMA DeliverKeepsInv ==
  ASSUME SessionInv, DeliverDue
  PROVE  SessionInv'
<1> DEFINE e == Head(pending)
<1>1. /\ pc = "deliver" /\ pending # <<>> /\ e.time = time /\ DeliverNext
      /\ delivered' = Append(delivered, e)
      /\ UNCHANGED <<time, nextTimestep, schedules, samples, decisions, status>>
      /\ sourceBreaks' = {} \/ sourceBreaks' = sourceBreaks
  BY DEF DeliverDue, Due, ApplyEvent
<1>2. /\ AgendaInv' /\ now' = time /\ e \in Elements(pending) /\ e \in Events
      /\ \A d \in DeliveredIn(lifecycle) : OrdersBefore(d, e)
      /\ DeliveredIn(lifecycle') = DeliveredIn(lifecycle) \cup {e}
  <2>1. AgendaInv
    BY DEF SessionInv
  <2>2. /\ e \in Elements(pending) /\ e \in Events
        /\ \A x \in Elements(pending) : x = e \/ OrdersBefore(e, x)
    BY <1>1, <2>1, PendingFacts, HeadIsLeast
  <2>3. PICK x \in Elements(pending) :
          /\ \A y \in Elements(pending) : y = x \/ OrdersBefore(x, y)
          /\ \A d \in DeliveredIn(lifecycle) : OrdersBefore(d, x)
          /\ DeliveredIn(lifecycle') = DeliveredIn(lifecycle) \cup {x}
    BY <1>1, <2>1, DeliverNextPreservesInv
  <2>4. x = e
    <3>1. x \in Events
      BY <2>1, PendingFacts
    <3> QED
      BY <2>2, <2>3, <3>1, OrdersBeforeIsStrictOrder
  <2> QED
    <3>1. AgendaInv'
      BY <1>1, <2>1, DeliverNextPreservesInv
    <3>2. now' = time
      BY <1>1 DEF DeliverNext
    <3> QED
      BY <2>2, <2>3, <2>4, <3>1, <3>2
<1> HIDE DEF e
<1>3. call' \in CallStates /\ call'.limit = call.limit /\ outcome' # "Agenda" /\ pc' # "solve"
  <2>1. call \in CallStates /\ outcome # "Agenda"
    BY DEF SessionInv, SessionTypeOK, ClocksAgree
  <2>2. call' = [call EXCEPT !.progress = TRUE]
          \/ call' = [call EXCEPT !.progress = TRUE, !.dispatched = @ + 1]
    BY DEF DeliverDue, DispatchOrRefuse
  <2>3. outcome' \in {outcome, "DeltaCycleLimit"} /\ pc' \in {"callback", "idle", pc}
    BY DEF DeliverDue, DispatchOrRefuse, Return
  <2>4. call' \in CallStates /\ call'.limit = call.limit
    <3>1. CASE call' = [call EXCEPT !.progress = TRUE]
      BY <2>1, <3>1 DEF CallStates
    <3>2. CASE call' = [call EXCEPT !.progress = TRUE, !.dispatched = @ + 1]
      <4>1. call'.kind = call.kind /\ call'.limit = call.limit /\ call'.progress = TRUE
            /\ call'.dispatched = call.dispatched + 1
            /\ DOMAIN call' = DOMAIN call
        BY <2>1, <3>2 DEF CallStates
      <4>2. call' = [kind |-> call.kind, limit |-> call.limit, progress |-> TRUE,
                     dispatched |-> call.dispatched + 1]
        BY <2>1, <3>2 DEF CallStates
      <4> QED
        BY <2>1, <4>1, <4>2 DEF CallStates
    <3> QED
      BY <2>2, <3>1, <3>2
  <2>5. outcome' # "Agenda" /\ pc' # "solve"
    BY <1>1, <2>1, <2>3
  <2> QED
    BY <2>4, <2>5
<1>4. /\ delivered \in Seq(Events) /\ Sorted(delivered)
      /\ Elements(delivered) = DeliveredIn(lifecycle)
      /\ \A x \in Elements(delivered) :
           x.time = StartTime \/ \E j \in DOMAIN samples : samples[j].time = x.time
  BY DEF SessionInv, SessionTypeOK, ReportIsTrue, DeliveredAtEndpoints
<1>5. /\ delivered' \in Seq(Events) /\ Sorted(delivered')
      /\ Elements(delivered') = Elements(delivered) \cup {e}
  <2>0. Len(delivered) \in Nat
    BY <1>4, SequenceIndices
  <2>1. /\ delivered' \in Seq(Events) /\ Len(delivered') = Len(delivered) + 1
        /\ \A i \in 1..Len(delivered) : delivered'[i] = delivered[i]
        /\ delivered'[Len(delivered) + 1] = e
    BY <1>1, <1>2, <1>4, AppendProperties
  <2>2. Elements(delivered') = Elements(delivered) \cup {e}
    <3>1. 1..Len(delivered') = 1..Len(delivered) \cup {Len(delivered) + 1}
      BY <2>0, <2>1
    <3> QED
      BY <2>1, <3>1 DEF Elements
  <2>3. ASSUME NEW i \in 1..Len(delivered'), NEW j \in 1..Len(delivered'), i < j
        PROVE  OrdersBefore(delivered'[i], delivered'[j])
    <3>1. i \in 1..Len(delivered) /\ delivered'[i] = delivered[i]
      BY <2>0, <2>1, <2>3
    <3>2. CASE j \in 1..Len(delivered)
      BY <1>4, <2>1, <2>3, <3>1, <3>2 DEF Sorted
    <3>3. CASE j = Len(delivered) + 1
      <4>1. delivered[i] \in DeliveredIn(lifecycle)
        BY <1>4, <3>1 DEF Elements
      <4> QED
        BY <1>2, <2>1, <3>1, <3>3, <4>1
    <3> QED
      BY <2>0, <2>1, <3>2, <3>3
  <2> QED
    BY <2>1, <2>2, <2>3 DEF Sorted
<1>6. DeliveredAtEndpoints'
  <2>1. \A x \in Elements(delivered') :
          x.time = StartTime \/ \E j \in DOMAIN samples : samples[j].time = x.time
    BY <1>1, <1>4, <1>5, AtAnEndpoint
  <2> QED
    BY <1>1, <1>2, <1>4, <1>5, <2>1 DEF DeliveredAtEndpoints
<1>7. SessionTypeOK'
  BY <1>1, <1>3, <1>5 DEF SessionInv, SessionTypeOK
<1>8. ClocksAgree' /\ DecisionsBehind' /\ CallInv'
  BY <1>1, <1>2, <1>3 DEF SessionInv, ClocksAgree, DecisionsBehind, CallInv
<1>9. SamplesTile' /\ CompleteAtStop' /\ BudgetsHold'
  BY <1>1 DEF SessionInv, ReportIsTrue, SamplesTile, StartOf, CompleteAtStop, BudgetsHold,
              RejectedCount
<1> QED
  BY <1>2, <1>6, <1>7, <1>8, <1>9 DEF SessionInv, ReportIsTrue

(* Where a step is solved, both budgets have something left.                *)
LEMMA SolvingFacts ==
  ASSUME SessionInv, Solving
  PROVE  /\ pc = "solve" /\ ~Due /\ time < call.limit /\ call.limit <= StopTime
         /\ Len(samples) < MaxAccepted /\ RejectedCount < MaxRejected
         /\ Len(samples) \in Nat /\ RejectedCount \in Nat
         /\ MaxAccepted \in Nat /\ MaxRejected \in Nat
<1>1. pc = "solve" /\ time # call.limit /\ Exhausted = "Running"
  BY DEF Solving
<1>2. ~Due /\ time <= call.limit /\ call.limit <= StopTime
  BY <1>1 DEF SessionInv, CallInv
<1>3. Len(samples) \in Nat /\ RejectedCount \in Nat
  BY SessionFacts, SequenceIndices, RejectionsAreFinite DEF RejectedCount
<1>4. MaxAccepted \in Nat /\ MaxRejected \in Nat
  BY PolicyAssumption
<1>5. ~(Len(samples) >= MaxAccepted) /\ ~(RejectedCount >= MaxRejected)
  BY <1>1, <1>3, <1>4 DEF Exhausted
<1> QED
  BY <1>1, <1>2, <1>3, <1>4, <1>5, SessionFacts

(* The agenda never refuses an advance to the end of an accepted step.      *)
LEMMA NothingSkipped ==
  ASSUME SessionInv, ~Due, NEW t, t \in Int,
         \A e \in Elements(pending) : time < e.time => t <= e.time
  PROVE  ~WouldSkip(t)
<1> SUFFICES ASSUME pending # <<>>, Head(pending).time < t
             PROVE  FALSE
  BY DEF WouldSkip
<1>1. Head(pending) \in Elements(pending) /\ Head(pending).time \in Int
  BY PendingFacts, HeadIsLeast, EventFields DEF SessionInv
<1>2. Head(pending).time >= now /\ now = time
  BY <1>1, SessionFacts DEF SessionInv, AgendaInv, NotInPast
<1>3. Head(pending).time # time
  BY DEF Due
<1> QED
  BY <1>1, <1>2, <1>3, SessionFacts

(* next_session_timestep stays positive and within the maximum.             *)
LEMMA NextTimestepFacts ==
  ASSUME NEW step \in Nat \ {0}, step <= MaximumTimestep, NEW small \in BOOLEAN
  PROVE  NextTimestep(step, small) \in 1..MaximumTimestep
<1>1. MaximumTimestep \in Nat /\ GrowthFactor \in Nat /\ GrowthFactor > 1
  BY PolicyAssumption
<1>2. step * GrowthFactor \in Nat /\ step * GrowthFactor >= 1
  BY <1>1
<1> DEFINE grown == step * GrowthFactor
           S == {grown, MaximumTimestep}
<1>3. Min(S) \in S /\ \A y \in S : Min(S) <= y
  BY <1>1, <1>2, MinOfNaturals
<1> HIDE DEF grown
<1>4. grown \in Nat /\ grown >= 1
  BY <1>2 DEF grown
<1>5. Min(S) \in 1..MaximumTimestep
  BY <1>1, <1>3, <1>4
<1> QED
  BY <1>1, <1>5 DEF NextTimestep, grown

(* One more sample, and the decision it came from.                          *)
LEMMA TileGrows ==
  ASSUME SessionInv, NEW step \in Nat \ {0}, NEW new \in Seq(Decisions),
         \A i \in 1..Len(new) : new[i].start = time /\ EndOf(new[i]) <= time + step,
         \A i, j \in 1..Len(new) : i < j => ~new[i].accepted,
         {d \in Elements(new) : d.accepted} = {Decision(step, TRUE)},
         decisions' = decisions \o new,
         samples' = Append(samples, Sample(step)),
         time' = time + step
  PROVE  /\ samples' \in Seq(Samples) /\ Len(samples') = Len(samples) + 1
         /\ \A i \in DOMAIN samples : i \in DOMAIN samples' /\ samples'[i] = samples[i]
         /\ decisions' \in Seq(Decisions) /\ DecisionsBehind' /\ SamplesTile'
<1> DEFINE n == Len(samples)
<1>1. /\ samples \in Seq(Samples) /\ time \in Int /\ n \in Nat /\ DOMAIN samples = 1..n
      /\ StartTime \in Int
  BY SessionFacts, SequenceIndices
<1>2. Sample(step) = [time |-> time + step, timestep |-> step] /\ Sample(step) \in Samples
  BY <1>1 DEF Sample, Samples
<1>3. /\ samples' \in Seq(Samples) /\ Len(samples') = n + 1
      /\ \A i \in 1..n : samples'[i] = samples[i]
      /\ samples'[n + 1] = Sample(step)
  BY <1>1, <1>2, AppendProperties
<1>4. DOMAIN samples' = 1..n + 1
  BY <1>3, SequenceIndices
<1>5. /\ \A i \in 1..n : samples[i].time = StartOf(samples, i) + samples[i].timestep
      /\ time = StartOf(samples, n + 1)
      /\ {d \in Elements(decisions) : d.accepted} =
           {DecisionOf(samples, i) : i \in 1..n}
  BY <1>1 DEF SessionInv, ReportIsTrue, SamplesTile
<1>6. /\ decisions' \in Seq(Decisions)
      /\ \A i \in DOMAIN decisions' : EndOf(decisions'[i]) <= time'
      /\ \A i, j \in DOMAIN decisions' : i < j => EndOf(decisions'[i]) <= decisions'[j].start
      /\ {d \in Elements(decisions') : d.accepted} =
           {d \in Elements(decisions) : d.accepted} \cup {Decision(step, TRUE)}
  <2>1. time + step \in Int /\ time <= time + step
    BY <1>1
  <2> QED
    BY <2>1, DecisionsGrow
<1> HIDE DEF n
<1>7. \A i \in 1..n + 1 : StartOf(samples', i) = StartOf(samples, i)
  <2> TAKE i \in 1..n + 1
  <2>1. CASE i = 1
    BY <2>1 DEF StartOf
  <2>2. CASE i # 1
    <3>1. i - 1 \in 1..n
      BY <1>1, <2>2
    <3> QED
      BY <1>3, <2>2, <3>1 DEF StartOf
  <2> QED
    BY <2>1, <2>2
<1>8. StartOf(samples', n + 2) = time + step
  <2>1. n + 2 # 1 /\ (n + 2) - 1 = n + 1
    BY <1>1
  <2> QED
    BY <1>2, <1>3, <2>1 DEF StartOf
<1>9. \A i \in 1..n + 1 : samples'[i].time = StartOf(samples', i) + samples'[i].timestep
  <2> TAKE i \in 1..n + 1
  <2>1. CASE i \in 1..n
    BY <1>3, <1>5, <1>7, <2>1
  <2>2. CASE i = n + 1
    BY <1>2, <1>3, <1>5, <1>7, <2>2
  <2> QED
    BY <1>1, <2>1, <2>2
<1>10. {DecisionOf(samples', i) : i \in 1..n + 1}
         = {DecisionOf(samples, i) : i \in 1..n} \cup {Decision(step, TRUE)}
  <2>1. Decision(step, TRUE) = DecisionOf(samples', n + 1)
    <3>1. StartOf(samples', n + 1) = time
      <4>1. n + 1 \in 1..n + 1
        BY <1>1
      <4> QED
        BY <1>5, <1>7, <4>1
    <3>2. samples'[n + 1].timestep = step
      BY <1>2, <1>3
    <3> QED
      BY <3>1, <3>2 DEF Decision, DecisionOf
  <2>2. \A i \in 1..n : DecisionOf(samples', i) = DecisionOf(samples, i)
    <3> TAKE i \in 1..n
    <3>1. i \in 1..n + 1 /\ samples'[i] = samples[i]
      BY <1>1, <1>3
    <3>2. StartOf(samples', i) = StartOf(samples, i)
      BY <1>7, <3>1
    <3> QED
      BY <3>1, <3>2 DEF DecisionOf
  <2>3. 1..n + 1 = 1..n \cup {n + 1}
    BY <1>1
  <2> QED
    BY <2>1, <2>2, <2>3
<1>11. Len(samples') + 1 = n + 2
  BY <1>1, <1>3
<1>12. SamplesTile'
  BY <1>4, <1>5, <1>6, <1>8, <1>9, <1>10, <1>11 DEF SamplesTile
<1>13. DecisionsBehind'
  BY <1>6 DEF DecisionsBehind
<1> QED
  BY <1>1, <1>3, <1>4, <1>6, <1>12, <1>13 DEF n

(* An accepted step ends within the limit of the call and jumps over no     *)
(* breakpoint and no event, so the agenda follows it.                       *)
LEMMA AcceptedStep ==
  ASSUME SessionInv, NEW k \in 0..MaxRejected, NEW small \in BOOLEAN, StepAccepted(k, small)
  PROVE  LET a == Attempts(call.limit)
             step == a[k]
         IN /\ \A i \in 0..k : a[i] \in Nat \ {0}
            /\ step \in Nat \ {0} /\ step <= MaximumTimestep /\ time + step <= call.limit
            /\ \A b \in Breakpoints : time < b => time + step <= b
            /\ \A e \in Elements(pending) : time < e.time => time + step <= e.time
            /\ AdvanceTime(time + step)
            /\ time' = time + step
            /\ nextTimestep' = NextTimestep(step, small)
            /\ samples' = Append(samples, Sample(step))
            /\ decisions' = decisions \o Append(Rejections(a, k), Decision(step, TRUE))
            /\ status' = StatusAt(time + step)
            /\ call' = [call EXCEPT !.progress = TRUE]
            /\ pc' = "deliver" /\ outcome' = outcome
            /\ UNCHANGED <<schedules, sourceBreaks, delivered>>
            /\ k < RemainingRejections
<1> DEFINE a == Attempts(call.limit)
           step == a[k]
<1>1. Solving
  BY DEF StepAccepted
<1>2. /\ \A i \in 1..k : ShrinksTo(a, i)
      /\ decisions' = decisions \o Append(Rejections(a, k), Decision(step, TRUE))
      /\ UNCHANGED <<schedules, sourceBreaks, delivered>>
      /\ k < RemainingRejections
      /\ WouldSkip(time + step) \/
           /\ AdvanceTime(time + step) /\ time' = time + step
           /\ nextTimestep' = NextTimestep(step, small)
           /\ samples' = Append(samples, Sample(step))
           /\ status' = StatusAt(time + step)
           /\ call' = [call EXCEPT !.progress = TRUE]
           /\ pc' = "deliver" /\ outcome' = outcome
  BY DEF StepAccepted
<1>3. /\ AgendaInv /\ time \in Int /\ Breakpoints \subseteq Int
      /\ nextTimestep \in Nat \ {0} /\ nextTimestep <= MaximumTimestep
      /\ MaximumTimestep \in Int
      /\ call.limit \in Int /\ time < call.limit /\ ~Due /\ MaxRejected \in Nat
  BY <1>1, SessionFacts, SolvingFacts DEF SessionInv
<1>4. \A i \in 0..k :
        /\ a[i] \in Nat \ {0} /\ a[i] <= nextTimestep /\ time + a[i] <= call.limit
        /\ \A b \in Breakpoints : time < b => time + a[i] <= b
        /\ \A e \in Elements(pending) : time < e.time => time + a[i] <= e.time
  BY <1>2, <1>3, AttemptFacts
<1>5. k \in 0..k
  BY <1>3
<1> HIDE DEF a
<1>6. /\ step \in Nat \ {0} /\ step <= nextTimestep /\ time + step <= call.limit
      /\ \A b \in Breakpoints : time < b => time + step <= b
      /\ \A e \in Elements(pending) : time < e.time => time + step <= e.time
  BY <1>4, <1>5
<1> HIDE DEF step
<1>7. time + step \in Int /\ step <= MaximumTimestep
  BY <1>3, <1>6
<1>8. ~WouldSkip(time + step)
  BY <1>3, <1>6, <1>7, NothingSkipped
<1> QED
  BY <1>2, <1>4, <1>6, <1>7, <1>8 DEF a, step

(* What appending one element to a sequence makes of it.                    *)
LEMMA AppendFacts ==
  ASSUME NEW S, NEW s \in Seq(S), NEW x \in S
  PROVE  /\ Append(s, x) \in Seq(S) /\ Len(Append(s, x)) = Len(s) + 1
         /\ \A i \in 1..Len(s) : Append(s, x)[i] = s[i]
         /\ Append(s, x)[Len(s) + 1] = x
  OBVIOUS

(* An accepted step.                                                        *)
LEMMA AcceptKeepsInv ==
  ASSUME SessionInv, NEW k \in 0..MaxRejected, NEW small \in BOOLEAN, StepAccepted(k, small)
  PROVE  SessionInv'
<1> DEFINE a == Attempts(call.limit)
           step == a[k]
           rejected == Rejections(a, k)
           last == Decision(step, TRUE)
           new == Append(rejected, last)
<1>1. /\ \A i \in 0..k : a[i] \in Nat \ {0}
      /\ step \in Nat \ {0} /\ step <= MaximumTimestep /\ time + step <= call.limit
      /\ AdvanceTime(time + step)
      /\ time' = time + step
      /\ nextTimestep' = NextTimestep(step, small)
      /\ samples' = Append(samples, Sample(step))
      /\ decisions' = decisions \o new
      /\ status' = StatusAt(time + step)
      /\ call' = [call EXCEPT !.progress = TRUE]
      /\ pc' = "deliver" /\ outcome' = outcome
      /\ UNCHANGED <<schedules, sourceBreaks, delivered>>
      /\ k < RemainingRejections
  BY AcceptedStep
<1>2. /\ time < call.limit /\ call.limit <= StopTime
      /\ Len(samples) < MaxAccepted /\ Len(samples) \in Nat
      /\ RejectedCount \in Nat /\ MaxAccepted \in Nat /\ MaxRejected \in Nat
  BY SolvingFacts DEF StepAccepted
<1>3. /\ time \in Int /\ StartTime \in Int /\ StopTime \in Int /\ StartTime <= time
      /\ call.limit \in Int /\ call \in CallStates /\ status \in Statuses /\ outcome # "Agenda"
      /\ decisions \in Seq(Decisions)
      /\ schedules \subseteq Int /\ sourceBreaks \subseteq Int /\ delivered \in Seq(Events)
  BY SessionFacts DEF SessionInv, SessionTypeOK
<1> HIDE DEF a
<1>4. k \in Nat /\ \A i \in 0..k - 1 : a[i] \in Nat \ {0}
  BY <1>1, <1>2
<1>5. /\ rejected \in Seq(Decisions) /\ Len(rejected) = k
      /\ \A i \in 1..k : rejected[i].start = time /\ ~rejected[i].accepted
                         /\ EndOf(rejected[i]) = time
  BY <1>3, <1>4, RejectionsFacts
<1> HIDE DEF step, rejected
<1>6. /\ last \in Decisions /\ last.accepted
      /\ last.start = time /\ EndOf(last) = time + step
  BY <1>1, <1>3 DEF Decision, Decisions, EndOf
<1> HIDE DEF last
<1>7. /\ new \in Seq(Decisions) /\ Len(new) = k + 1
      /\ \A i \in 1..k : new[i] = rejected[i]
      /\ new[k + 1] = last
  BY <1>5, <1>6, AppendFacts
<1> HIDE DEF new
<1>8. \A i \in 1..Len(new) : i \in 1..k \/ i = k + 1
  BY <1>4, <1>7
<1>9. /\ \A i \in 1..Len(new) : new[i].start = time /\ EndOf(new[i]) <= time + step
      /\ \A i, j \in 1..Len(new) : i < j => ~new[i].accepted
      /\ \A i \in 1..Len(new) : new[i].accepted <=> i > k
  <2>1. \A i \in 1..k : new[i].start = time /\ EndOf(new[i]) <= time + step
                        /\ ~new[i].accepted /\ ~(i > k)
    <3>1. ASSUME NEW i \in 1..k
          PROVE  /\ new[i].start = time /\ EndOf(new[i]) = time /\ ~new[i].accepted
      BY <1>5, <1>7
    <3>2. time <= time + step /\ \A i \in 1..k : ~(i > k)
      BY <1>1, <1>3, <1>4
    <3> QED
      BY <3>1, <3>2
  <2>2. new[k + 1].start = time /\ EndOf(new[k + 1]) <= time + step
        /\ new[k + 1].accepted /\ k + 1 > k
    <3>1. EndOf(new[k + 1]) = time + step /\ new[k + 1].start = time /\ new[k + 1].accepted
      BY <1>6, <1>7
    <3> QED
      BY <1>1, <1>3, <1>4, <3>1
  <2>3. \A i, j \in 1..Len(new) : i < j => i \in 1..k
    BY <1>4, <1>7
  <2> QED
    BY <1>8, <2>1, <2>2, <2>3
<1>10. {d \in Elements(new) : d.accepted} = {last}
  <2>1. k + 1 \in 1..Len(new)
    BY <1>4, <1>7
  <2> QED
    BY <1>5, <1>6, <1>7, <1>8, <2>1 DEF Elements
<1>11. /\ samples' \in Seq(Samples) /\ Len(samples') = Len(samples) + 1
       /\ \A i \in DOMAIN samples : i \in DOMAIN samples' /\ samples'[i] = samples[i]
       /\ decisions' \in Seq(Decisions) /\ DecisionsBehind' /\ SamplesTile'
  BY <1>1, <1>7, <1>9, <1>10, TileGrows DEF last
<1>12. AgendaInv' /\ now' = time' /\ lifecycle' = lifecycle
  <2>1. time + step \in StartTime..StopTime
    BY <1>1, <1>2, <1>3
  <2>2. time + step \in Times
    BY <2>1, PolicyAssumption
  <2>3. AgendaInv'
    BY <1>1, <2>2, AdvanceTimePreservesInv DEF SessionInv
  <2> QED
    BY <1>1, <2>3 DEF AdvanceTime
<1>13. SessionTypeOK'
  <2>1. time' \in StartTime..StopTime
    BY <1>1, <1>2, <1>3
  <2>2. nextTimestep' \in 1..MaximumTimestep
    BY <1>1, NextTimestepFacts
  <2>3. status' \in Statuses
    BY <1>1, <1>3 DEF StatusAt, Statuses
  <2>4. call' \in CallStates
    BY <1>1, <1>3 DEF CallStates
  <2> QED
    BY <1>1, <1>3, <1>11, <2>1, <2>2, <2>3, <2>4 DEF SessionTypeOK
<1>14. ClocksAgree'
  BY <1>1, <1>3, <1>12 DEF ClocksAgree
<1>15. CallInv'
  <2>1. call'.limit = call.limit
    BY <1>1, <1>3 DEF CallStates
  <2> QED
    BY <1>1, <1>2, <2>1 DEF CallInv
<1>16. DeliveredAtEndpoints'
  BY <1>1, <1>11, <1>12 DEF SessionInv, ReportIsTrue, DeliveredAtEndpoints
<1>17. CompleteAtStop'
  <2>1. time # StopTime
    BY <1>2, <1>3
  <2>2. status # "Complete"
    BY <2>1 DEF SessionInv, ReportIsTrue, CompleteAtStop
  <2> QED
    BY <1>1, <2>2 DEF StatusAt, CompleteAtStop
<1>18. BudgetsHold'
  <2>1. Cardinality(RejectedIn(decisions')) = RejectedCount + k
    <3>1. k \in 0..Len(new)
      BY <1>4, <1>7
    <3> QED
      BY <1>1, <1>3, <1>7, <1>9, <3>1, RejectionsGrow DEF RejectedCount
  <2>2. RejectedCount + k <= MaxRejected
    BY <1>1, <1>2, <1>4 DEF RemainingRejections
  <2>3. Len(samples') <= MaxAccepted
    BY <1>2, <1>11
  <2> QED
    BY <2>1, <2>2, <2>3 DEF BudgetsHold, RejectedCount
<1> QED
  BY <1>11, <1>12, <1>13, <1>14, <1>15, <1>16, <1>17, <1>18 DEF SessionInv, ReportIsTrue

(* A run that stops without a sample.                                       *)
LEMMA BoundedKeepsInv ==
  ASSUME SessionInv, NEW k \in 1..MaxRejected, StepBounded(k)
  PROVE  SessionInv'
<1> DEFINE a == Attempts(call.limit)
           new == Rejections(a, k)
<1>1. /\ Solving /\ k <= RemainingRejections
      /\ \A i \in 1..k - 1 : ShrinksTo(a, i)
      /\ decisions' = decisions \o new
      /\ status' \in {"RejectedStepLimit", "MinimumTimestep"}
      /\ pc' = "deliver" /\ call' = [call EXCEPT !.progress = TRUE]
      /\ UNCHANGED vars
      /\ UNCHANGED <<time, nextTimestep, schedules, sourceBreaks, samples, delivered, outcome>>
  BY DEF StepBounded, EndWithoutSample
<1>2. /\ time < call.limit /\ call.limit <= StopTime
      /\ RejectedCount \in Nat /\ MaxRejected \in Nat
  BY <1>1, SolvingFacts
<1>3. /\ AgendaInv /\ time \in Int /\ Breakpoints \subseteq Int /\ nextTimestep \in Nat \ {0}
      /\ StopTime \in Int /\ call.limit \in Int /\ call \in CallStates
      /\ decisions \in Seq(Decisions) /\ k - 1 \in 0..MaxRejected
  BY <1>2, SessionFacts DEF SessionInv, SessionTypeOK
<1>4. \A i \in 0..k - 1 : a[i] \in Nat \ {0}
  BY <1>1, <1>2, <1>3, AttemptFacts
<1> HIDE DEF a
<1>5. /\ new \in Seq(Decisions) /\ Len(new) = k
      /\ \A i \in 1..k : new[i].start = time /\ ~new[i].accepted /\ EndOf(new[i]) = time
  <2>1. k \in 0..MaxRejected
    BY <1>2
  <2> QED
    BY <1>3, <1>4, <2>1, RejectionsFacts
<1> HIDE DEF new
<1>6. /\ decisions' \in Seq(Decisions)
      /\ \A i \in DOMAIN decisions' : EndOf(decisions'[i]) <= time
      /\ \A i, j \in DOMAIN decisions' : i < j => EndOf(decisions'[i]) <= decisions'[j].start
      /\ {d \in Elements(decisions') : d.accepted} =
           {d \in Elements(decisions) : d.accepted} \cup {d \in Elements(new) : d.accepted}
  <2>1. /\ time <= time
        /\ \A i \in 1..Len(new) : new[i].start = time /\ EndOf(new[i]) <= time
        /\ \A i, j \in 1..Len(new) : i < j => ~new[i].accepted
    BY <1>3, <1>5
  <2> QED
    BY <1>1, <1>3, <1>5, <2>1, DecisionsGrow
<1>7. {d \in Elements(new) : d.accepted} = {}
  BY <1>5 DEF Elements
<1>8. SamplesTile'
  BY <1>1, <1>6, <1>7 DEF SessionInv, ReportIsTrue, SamplesTile
<1>9. DecisionsBehind'
  BY <1>1, <1>6 DEF DecisionsBehind
<1>10. AgendaInv' /\ now' = now /\ lifecycle' = lifecycle
  BY <1>1, <1>3, StutterPreservesInv DEF vars
<1>11. call' \in CallStates /\ call'.limit = call.limit
  BY <1>1, <1>3 DEF CallStates
<1>12. SessionTypeOK'
  <2>1. status' \in Statuses
    BY <1>1 DEF Statuses
  <2> QED
    BY <1>1, <1>6, <1>11, <2>1 DEF SessionInv, SessionTypeOK
<1>13. ClocksAgree' /\ CallInv'
  <2>1. time' = time /\ outcome' = outcome /\ pc' = "deliver"
    BY <1>1
  <2>2. ClocksAgree'
    BY <2>1, <1>10 DEF SessionInv, ClocksAgree
  <2>3. CallInv'
    BY <2>1, <1>2, <1>3, <1>11 DEF CallInv
  <2> QED
    BY <2>2, <2>3
<1>14. DeliveredAtEndpoints'
  BY <1>1, <1>10 DEF SessionInv, ReportIsTrue, DeliveredAtEndpoints
<1>15. CompleteAtStop'
  BY <1>1, <1>2, <1>3 DEF CompleteAtStop
<1>16. BudgetsHold'
  <2>1. Cardinality(RejectedIn(decisions')) = RejectedCount + k
    <3>1. k \in 0..Len(new) /\ \A i \in 1..Len(new) : new[i].accepted <=> i > k
      BY <1>2, <1>5
    <3> QED
      BY <1>1, <1>3, <1>5, <3>1, RejectionsGrow DEF RejectedCount
  <2>2. RejectedCount + k <= MaxRejected
    BY <1>1, <1>2 DEF RemainingRejections
  <2> QED
    BY <1>1, <2>1, <2>2 DEF SessionInv, ReportIsTrue, BudgetsHold, RejectedCount
<1> QED
  BY <1>8, <1>9, <1>10, <1>12, <1>13, <1>14, <1>15, <1>16 DEF SessionInv, ReportIsTrue

-----------------------------------------------------------------------------
(* The session.                                                             *)

(* A new session has no samples, decisions or deliveries, and its clock is  *)
(* the agenda's.                                                            *)
LEMMA InitKeepsInv == SessionInit => SessionInv
<1> SUFFICES ASSUME SessionInit
             PROVE  SessionInv
  OBVIOUS
<1>1. /\ Init /\ time = StartTime /\ nextTimestep = InitialTimestep
      /\ schedules = {} /\ sourceBreaks = SourceBreaks
      /\ samples = <<>> /\ decisions = <<>> /\ delivered = <<>>
      /\ status = "Running" /\ pc = "idle" /\ outcome = "Ok"
      /\ call = [kind |-> "step", limit |-> StopTime, progress |-> FALSE, dispatched |-> 0]
  BY DEF SessionInit
<1>2. /\ StartTime \in Int /\ StopTime \in Int /\ StartTime < StopTime
      /\ InitialTimestep \in 1..MaximumTimestep /\ MaxRejected \in Nat /\ MaxAccepted \in Nat
      /\ SourceBreaks \subseteq Int
  BY AgendaAssumption, PolicyAssumption
<1>3. AgendaInv
  BY <1>1, InitEstablishesInv
<1>4. now = time /\ pending = <<>> /\ lifecycle = <<>>
  BY <1>1 DEF Init
<1>5. SessionTypeOK
  BY <1>1, <1>2 DEF SessionTypeOK, Statuses, CallStates, Kinds
<1>6. ClocksAgree /\ CallInv
  BY <1>1, <1>4 DEF ClocksAgree, CallInv
<1>7. DOMAIN samples = {} /\ DOMAIN decisions = {} /\ Len(samples) = 0 /\ Len(decisions) = 0
      /\ Len(delivered) = 0 /\ Len(lifecycle) = 0
  BY <1>1, <1>4
<1>8. DecisionsBehind
  BY <1>7 DEF DecisionsBehind
<1>9. SamplesTile
  <2>1. Elements(decisions) = {}
    BY <1>7 DEF Elements
  <2>2. time = StartOf(samples, Len(samples) + 1)
    BY <1>1, <1>7 DEF StartOf
  <2> QED
    BY <1>7, <2>1, <2>2 DEF SamplesTile
<1>10. DeliveredAtEndpoints
  <2>1. Elements(delivered) = {} /\ DeliveredIn(lifecycle) = {} /\ Sorted(delivered)
    BY <1>7 DEF Elements, DeliveredIn, Sorted
  <2> QED
    BY <2>1 DEF DeliveredAtEndpoints
<1>11. CompleteAtStop
  BY <1>1, <1>2 DEF CompleteAtStop
<1>12. BudgetsHold
  <2>1. RejectedIn(decisions) = {}
    BY <1>7 DEF RejectedIn
  <2>2. RejectedCount = 0
    BY <2>1, FS_EmptySet DEF RejectedCount
  <2> QED
    BY <1>2, <1>7, <2>2 DEF BudgetsHold
<1> QED
  BY <1>3, <1>5, <1>6, <1>8, <1>9, <1>10, <1>11, <1>12 DEF SessionInv, ReportIsTrue

(* A step of the environment that changes nothing keeps the invariant.      *)
LEMMA StutterKeepsInv ==
  ASSUME SessionInv, UNCHANGED allVars
  PROVE  SessionInv'
<1>1. UNCHANGED vars /\ UNCHANGED sessionVars /\ UNCHANGED callVars
  BY DEF allVars
<1>2. /\ UNCHANGED <<time, nextTimestep, schedules, sourceBreaks, samples, decisions, delivered>>
      /\ status' = status /\ call' = call /\ pc' = pc /\ outcome' = outcome
  BY <1>1 DEF sessionVars, callVars
<1>3. /\ pc' # "idle" => pc # "idle"
      /\ pc' = "solve" => ~Due
  BY <1>2 DEF SessionInv, CallInv
<1>4. status \in Statuses /\ CompleteAtStop /\ call \in CallStates /\ outcome # "Agenda"
  BY DEF SessionInv, SessionTypeOK, ReportIsTrue, ClocksAgree
<1>5. CompleteAtStop'
  BY <1>2, <1>4 DEF CompleteAtStop
<1> QED
  BY <1>1, <1>2, <1>3, <1>4, <1>5, ControlKeepsInv

(* Every step keeps the invariant.                                          *)
LEMMA StepKeepsInv ==
  ASSUME SessionInv, [SessionNext]_allVars
  PROVE  SessionInv'
<1>1. CASE Author
  <2>1. pc # "solve" /\ Requesting /\ UNCHANGED <<sessionVars, callVars>>
    BY <1>1 DEF Author
  <2> QED
    BY <2>1, RequestsKeepInv
<1>2. CASE \E times \in Schedules : AddBreakpointSchedule(times)
  BY <1>2, ScheduleAddedKeepsInv
<1>3. CASE BeginCall
  BY <1>3, BeginKeepsInv
<1>4. CASE CallbackActs
  <2>1. pc # "solve" /\ Requesting /\ UNCHANGED <<sessionVars, callVars>>
    BY <1>4 DEF CallbackActs, Requesting
  <2> QED
    BY <2>1, RequestsKeepInv
<1>5. CASE DeliverDue
  BY <1>5, DeliverKeepsInv
<1>6. CASE EndStep
  BY <1>6, EndStepKeepsInv
<1>7. CASE CallbackReturns \/ CallbackFails
  BY <1>7, CallbackEndKeepsInv
<1>8. CASE AtLimit \/ BudgetSpent
  BY <1>8, NoStepKeepsInv
<1>9. CASE RunRefused
  BY <1>9, RefusedKeepsInv
<1>10. CASE \E k \in 0..MaxRejected, small \in BOOLEAN : StepAccepted(k, small)
  BY <1>10, AcceptKeepsInv
<1>11. CASE \E k \in 1..MaxRejected : StepBounded(k)
  BY <1>11, BoundedKeepsInv
<1>12. CASE UNCHANGED allVars
  BY <1>12, StutterKeepsInv
<1> QED
  BY <1>1, <1>2, <1>3, <1>4, <1>5, <1>6, <1>7, <1>8, <1>9, <1>10, <1>11, <1>12
  DEF SessionNext, CallStep

(* The invariant holds of every run of the session.                         *)
THEOREM SessionInvHolds == SessionSpec => []SessionInv
BY InitKeepsInv, StepKeepsInv, PTL DEF SessionSpec

(* The clocks of the session and of its agenda never part: no accepted step *)
(* is refused by the agenda.                                                *)
THEOREM SessionClocksAgree == SessionSpec => []ClocksAgree
<1>1. SessionInv => ClocksAgree
  BY DEF SessionInv
<1> QED
  BY <1>1, SessionInvHolds, PTL

(* A report tells what the session did: samples that tile the time and are  *)
(* the accepted decisions, deliveries at their endpoints, completion at the *)
(* stop time, and budgets that bound all its calls together.                *)
THEOREM ReportsAreTrue == SessionSpec => []ReportIsTrue
<1>1. SessionInv => ReportIsTrue
  BY DEF SessionInv
<1> QED
  BY <1>1, SessionInvHolds, PTL

\* A session stays true to its agenda's clock and to its report.
THEOREM SessionsAreTrue == SessionSpec => []SessionIsTrue
BY SessionClocksAgree, ReportsAreTrue, PTL DEF SessionIsTrue

(* No analog step passes a breakpoint in force or a pending event.          *)
THEOREM NoStepJumps == SessionSpec => NoBreakpointJumped
<1> DEFINE Landmarks == Breakpoints \cup {e.time : e \in Elements(pending)}
<1>1. ASSUME SessionInv, [SessionNext]_allVars
      PROVE  \A t \in Landmarks : time < t => time' <= t
  <2>1. CASE \E k \in 0..MaxRejected, small \in BOOLEAN : StepAccepted(k, small)
    <3>1. PICK k \in 0..MaxRejected, small \in BOOLEAN : StepAccepted(k, small)
      BY <2>1
    <3>2. PICK step : /\ time' = time + step
                      /\ \A b \in Breakpoints : time < b => time + step <= b
                      /\ \A e \in Elements(pending) : time < e.time => time + step <= e.time
      BY <1>1, <3>1, AcceptedStep
    <3> QED
      BY <3>2
  <2>2. CASE time' = time
    <3>1. time \in Int /\ Breakpoints \subseteq Int
      BY <1>1, SessionFacts
    <3>2. \A e \in Elements(pending) : e.time \in Int
      BY <1>1, PendingFacts, AgendaAssumption DEF SessionInv, Events
    <3> QED
      BY <2>2, <3>1, <3>2
  <2>3. (\E k \in 0..MaxRejected, small \in BOOLEAN : StepAccepted(k, small)) \/ time' = time
    BY <1>1 DEF SessionNext, CallStep, Author, AddBreakpointSchedule, BeginCall, BeginStep,
       BeginRuntime, BeginUntil, Begin, CallbackActs, DeliverDue, EndStep, CallbackReturns,
       CallbackFails, AtLimit, BudgetSpent, RunRefused, StepBounded, EndWithoutSample,
       sessionVars, allVars
  <2> QED
    BY <2>1, <2>2, <2>3
<1>2. SessionInv /\ [SessionNext]_allVars
        => [\A t \in Landmarks : time < t => time' <= t]_allVars
  BY <1>1
<1> QED
  BY <1>2, SessionInvHolds, PTL DEF SessionSpec, NoBreakpointJumped

(* A call that returns normally leaves nothing due, and step_until returns  *)
(* at its target or when the session is over.                               *)
THEOREM CallsSettle == SessionSpec => SettledOnReturn
<1> DEFINE Settled == pc # "idle" /\ pc' = "idle" /\ outcome' = "Ok" =>
                        /\ ~Due'
                        /\ call.kind = "until" => time' = call.limit \/ status' # "Running"
<1>1. ASSUME SessionInv, [SessionNext]_allVars, pc # "idle", pc' = "idle", outcome' = "Ok"
      PROVE  /\ ~Due'
             /\ call.kind = "until" => time' = call.limit \/ status' # "Running"
  <2>1. EndStep \/ CallbackFails \/ RunRefused \/ DeliverDue
          \/ \E k \in 0..MaxRejected, small \in BOOLEAN : StepAccepted(k, small)
    BY <1>1 DEF SessionNext, CallStep, Author, AddBreakpointSchedule, BeginCall, BeginStep,
       BeginRuntime, BeginUntil, Begin, CallbackActs, CallbackReturns, AtLimit, BudgetSpent,
       StepBounded, EndWithoutSample, allVars, callVars
  <2>2. ~CallbackFails /\ ~RunRefused
    BY <1>1 DEF CallbackFails, RunRefused, Return
  <2>3. ~DeliverDue
    BY <1>1 DEF DeliverDue, DispatchOrRefuse, Return
  <2>4. ASSUME NEW k \in 0..MaxRejected, NEW small \in BOOLEAN
        PROVE  ~StepAccepted(k, small)
    <3> SUFFICES ASSUME StepAccepted(k, small)
                 PROVE  FALSE
      OBVIOUS
    <3>1. pc' = "deliver"
      BY <1>1, AcceptedStep
    <3> QED
      BY <1>1, <3>1
  <2>5. EndStep
    BY <2>1, <2>2, <2>3, <2>4
  <2>6. /\ pc = "deliver" /\ ~Due /\ ~GoesOn /\ pending' = pending /\ time' = time
        /\ status' = status
    BY <1>1, <2>5 DEF EndStep, vars, sessionVars
  <2>7. time \in Int /\ call.limit \in Int /\ time <= call.limit
    BY <1>1, <2>6, SessionFacts DEF SessionInv, SessionTypeOK, CallStates, CallInv
  <2> QED
    BY <2>6, <2>7 DEF Due, GoesOn
<1>2. SessionInv /\ [SessionNext]_allVars => [Settled]_allVars
  BY <1>1
<1> QED
  BY <1>2, SessionInvHolds, PTL DEF SessionSpec, SettledOnReturn

(* A session only ever makes the calls of an agenda: whatever holds of      *)
(* every agenda holds of the one a session owns.                            *)
THEOREM SessionRunsAnAgenda == SessionSpec => Spec
<1>1. SessionInit => Init
  BY DEF SessionInit
<1>2. ASSUME SessionInv, [SessionNext]_allVars
      PROVE  [Next]_vars
  <2>1. CASE \E k \in 0..MaxRejected, small \in BOOLEAN : StepAccepted(k, small)
    <3>1. PICK k \in 0..MaxRejected, small \in BOOLEAN : StepAccepted(k, small)
      BY <2>1
    <3>2. PICK t : AdvanceTime(t) /\ time' = t
      BY <1>2, <3>1, AcceptedStep
    <3>3. SessionInv'
      BY <1>2, StepKeepsInv
    <3>4. time' \in Times
      BY <3>3, PolicyAssumption DEF SessionInv, SessionTypeOK
    <3> QED
      BY <3>2, <3>4 DEF Next
  <2>2. CASE DeliverNext \/ Requesting \/ UNCHANGED vars
    BY <2>2 DEF Next
  <2>3. (\E k \in 0..MaxRejected, small \in BOOLEAN : StepAccepted(k, small))
          \/ DeliverNext \/ Requesting \/ UNCHANGED vars
    BY <1>2 DEF SessionNext, CallStep, Author, AddBreakpointSchedule, BeginCall, BeginStep,
       BeginRuntime, BeginUntil, Begin, CallbackActs, DeliverDue, EndStep, CallbackReturns,
       CallbackFails, AtLimit, BudgetSpent, RunRefused, StepBounded, EndWithoutSample,
       Requesting, allVars
  <2> QED
    BY <2>1, <2>2, <2>3
<1> QED
  BY <1>1, <1>2, SessionInvHolds, PTL DEF SessionSpec, Spec
=============================================================================
