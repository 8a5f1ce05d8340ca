---------------------------- MODULE FoldFacts ----------------------------
(***************************************************************************)
(* Lemmas the proofs of several components rest on, about no component:    *)
(* least elements, finite sets, and folds over finite sets.                *)
(***************************************************************************)
EXTENDS Integers, Sequences, FiniteSets, SequencesExt, SequenceTheorems,
        FiniteSetTheorems, WellFoundedInduction, TLAPS

(* A nonempty set of naturals has a least element.                          *)
LEMMA LeastNatural ==
  ASSUME NEW T, T \subseteq Nat, T # {}
  PROVE  \E x \in T : \A y \in T : x <= y
<1> DEFINE R == OpToRel(<, Nat)
<1>1. R = {ss \in Nat \X Nat : ss[1] < ss[2]}
  BY Zenon DEF OpToRel
<1> HIDE DEF R
<1>2. IsWellFoundedOn(R, Nat)
  BY NatLessThanWellFounded DEF R
<1>3. PICK x \in T : \A y \in T : ~(<<y, x>> \in R)
  BY <1>2, WFMin
<1>4. \A y \in T : ~(y < x)
  BY <1>1, <1>3
<1> QED
  BY <1>3, <1>4

(* Minimum and maximum of naturals, and of finitely many integers.          *)
LEMMA MinOfNaturals ==
  ASSUME NEW S, S \subseteq Nat, S # {}
  PROVE  Min(S) \in S /\ \A y \in S : Min(S) <= y
<1>1. PICK x \in S : \A y \in S : x <= y
  BY LeastNatural
<1>2. \A y \in S : x =< y
  BY <1>1
<1> QED
  BY <1>2, Zenon DEF Min

(* Taking something away makes a finite set smaller.                        *)
LEMMA SmallerSubset ==
  ASSUME NEW B, IsFiniteSet(B), NEW A, A \subseteq B, A # B
  PROVE  Cardinality(A) < Cardinality(B)
<1>1. Cardinality(A) <= Cardinality(B) /\ Cardinality(A) # Cardinality(B) /\ IsFiniteSet(A)
  BY FS_Subset
<1>2. Cardinality(A) \in Nat /\ Cardinality(B) \in Nat
  BY <1>1, FS_CardinalityType
<1> QED
  BY <1>1, <1>2

(* Taking an element from a finite set leaves one fewer.                    *)
LEMMA OneLess ==
  ASSUME NEW A, IsFiniteSet(A), NEW x \in A
  PROVE  Cardinality(A \ {x}) = Cardinality(A) - 1
  BY FS_RemoveElement

(* A finite set of integers has a least and a greatest element.             *)
LEMMA LeastOfFinite ==
  ASSUME NEW S, S \subseteq Int, S # {}, IsFiniteSet(S)
  PROVE  \E x \in S : \A y \in S : x <= y
<1> DEFINE Below(x) == {y \in S : y < x}
           ranks == {Cardinality(Below(x)) : x \in S}
<1>1. \A x \in S : IsFiniteSet(Below(x)) /\ Cardinality(Below(x)) \in Nat
  BY FS_Subset, FS_CardinalityType
<1>2. ranks \subseteq Nat /\ ranks # {}
  BY <1>1
<1>3. PICK r \in ranks : \A q \in ranks : r <= q
  BY <1>2, LeastNatural
<1>4. PICK x \in S : r = Cardinality(Below(x))
  OBVIOUS
<1>5. SUFFICES ASSUME NEW y \in S, y < x
               PROVE  FALSE
  BY <1>4
<1>6. Below(y) \subseteq Below(x) /\ Below(y) # Below(x)
  <2>1. x \in Int /\ y \in Int /\ \A z \in S : z \in Int
    OBVIOUS
  <2>2. \A z \in S : z < y => z < x
    BY <2>1, <1>5
  <2>3. y \in Below(x) /\ y \notin Below(y)
    BY <2>1, <1>5
  <2> QED
    BY <2>2, <2>3, Zenon
<1>7. Cardinality(Below(y)) < Cardinality(Below(x))
  <2>1. IsFiniteSet(Below(x))
    BY <1>1
  <2> QED
    BY <2>1, <1>6, SmallerSubset, Zenon
<1>8. r <= Cardinality(Below(y))
  <2>1. Cardinality(Below(y)) \in ranks
    BY Zenon
  <2> QED
    BY <2>1, <1>3, Zenon
<1>9. Cardinality(Below(y)) \in Nat /\ Cardinality(Below(x)) \in Nat
  BY <1>1
<1> QED
  BY <1>4, <1>7, <1>8, <1>9

(* What the least and the greatest of a finite set of integers are.         *)
LEMMA MinMaxOfFinite ==
  ASSUME NEW S, S \subseteq Int, S # {}, IsFiniteSet(S)
  PROVE  /\ Min(S) \in S /\ \A y \in S : Min(S) <= y
         /\ Max(S) \in S /\ \A y \in S : y <= Max(S)
<1>1. Min(S) \in S /\ \A y \in S : Min(S) <= y
  <2>1. PICK x \in S : \A y \in S : x <= y
    BY LeastOfFinite
  <2>2. \A y \in S : x =< y
    BY <2>1
  <2> QED
    BY <2>2, Zenon DEF Min
<1>2. Max(S) \in S /\ \A y \in S : y <= Max(S)
  <2> DEFINE D == {0 - y : y \in S}
  <2>1. D \subseteq Int /\ D # {}
    <3>1. PICK y \in S : TRUE
      OBVIOUS
    <3>2. 0 - y \in D
      OBVIOUS
    <3>3. \A y1 \in S : 0 - y1 \in Int
      OBVIOUS
    <3> QED
      BY <3>2, <3>3, Zenon
  <2>2. IsFiniteSet(D)
    <3> DEFINE minus == [y \in S |-> 0 - y]
    <3>1. minus \in Surjection(S, D)
      BY DEF Surjection
    <3> QED
      BY <3>1, FS_Surjection
  <2>3. PICK d \in D : \A y \in D : d <= y
    <3> HIDE DEF D
    <3> QED
      BY <2>1, <2>2, LeastOfFinite
  <2>4. PICK x \in S : d = 0 - x
    OBVIOUS
  <2>5. \A y \in S : x >= y
    <3> SUFFICES ASSUME NEW y \in S
                 PROVE  x >= y
      OBVIOUS
    <3>1. 0 - y \in D
      OBVIOUS
    <3>2. d <= 0 - y
      BY <2>3, <3>1
    <3> QED
      BY <3>2, <2>4
  <2>6. Max(S) \in S /\ \A y \in S : Max(S) >= y
    BY <2>5, Zenon DEF Max
  <2> QED
    BY <2>6
<1> QED
  BY <1>1, <1>2

(* `it` folds every part of S, taking the elements as `pick` says.          *)
IsFold(it, S, base, pick, op) ==
  it = [s \in SUBSET S |-> IF s = {} THEN base ELSE op[pick[s]][it[s \ {pick[s]}]]]

(* A recursion over the subsets of a finite set, taking one element at a    *)
(* time, has a solution: so the folds of a finite set are what they say.    *)
CanFold(S, T, base, pick, op) ==
  /\ IsFiniteSet(S) /\ base \in T
  /\ \A s \in SUBSET S : s # {} => pick[s] \in s
  /\ op \in [S -> [T -> T]]
(* A fold over a finite set is defined: some function obeys its recursion.  *)
LEMMA FoldExists ==
  ASSUME NEW S, NEW T, NEW base, NEW pick, NEW op, CanFold(S, T, base, pick, op)
  PROVE  \E it \in [SUBSET S -> T] : IsFold(it, S, base, pick, op)
<1> USE DEF CanFold
<1> DEFINE Level(k) == {s \in SUBSET S : Cardinality(s) <= k}
           Solves(it, D) == it = [s \in D |-> IF s = {} THEN base
                                              ELSE op[pick[s]][it[s \ {pick[s]}]]]
           bad == {k \in Nat : ~\E it \in [Level(k) -> T] : Solves(it, Level(k))}
<1>0. \A s \in SUBSET S : IsFiniteSet(s) /\ Cardinality(s) \in Nat
  BY FS_Subset, FS_CardinalityType
<1>1. bad = {}
  <2> SUFFICES ASSUME bad # {}
               PROVE  FALSE
    OBVIOUS
  <2>1. PICK k \in bad : \A j \in bad : k <= j
    BY LeastNatural
  <2>2. k # 0
    <3> SUFFICES ASSUME k = 0
                 PROVE  FALSE
      OBVIOUS
    <3>1. \A s \in Level(0) : s = {}
      BY <1>0, FS_EmptySet
    <3>2. [s \in Level(0) |-> base] \in [Level(0) -> T]
      OBVIOUS
    <3>3. \A s \in Level(0) : base = IF s = {} THEN base
                                  ELSE op[pick[s]][[r \in Level(0) |-> base][s \ {pick[s]}]]
      BY <3>1, Zenon
    <3>4. Solves([s \in Level(0) |-> base], Level(0))
      BY <3>3, Zenon
    <3> QED
      BY <2>1, <3>2, <3>4, Zenon
  <2>3. k - 1 \in Nat /\ k - 1 \notin bad
    <3>1. k \in Nat
      BY Zenon
    <3>2. k - 1 \in Nat
      BY <3>1, <2>2
    <3>3. k - 1 \in bad => k <= k - 1
      BY <2>1, Zenon
    <3>4. ~(k <= k - 1)
      BY <3>1
    <3> QED
      BY <3>2, <3>3, <3>4, Zenon
  <2>4. PICK it \in [Level(k - 1) -> T] : Solves(it, Level(k - 1))
    BY <2>3
  <2> DEFINE new == [s \in Level(k) |-> IF s = {} THEN base ELSE op[pick[s]][it[s \ {pick[s]}]]]
  <2>5. \A s \in Level(k) : s # {} => s \ {pick[s]} \in Level(k - 1)
    <3> SUFFICES ASSUME NEW s \in Level(k), s # {}
                 PROVE  s \ {pick[s]} \in Level(k - 1)
      OBVIOUS
    <3>1. pick[s] \in s /\ IsFiniteSet(s) /\ Cardinality(s) \in Nat /\ Cardinality(s) <= k
      BY <1>0
    <3>2. Cardinality(s \ {pick[s]}) = Cardinality(s) - 1
      BY <3>1, OneLess, Zenon
    <3>3. Cardinality(s \ {pick[s]}) <= k - 1
      BY <3>1, <3>2, <2>1
    <3>4. s \ {pick[s]} \in SUBSET S
      OBVIOUS
    <3> QED
      BY <3>3, <3>4
  <2>6. \A s \in Level(k) : pick[s] \in S \/ s = {}
    OBVIOUS
  <2>7. new \in [Level(k) -> T]
    <3> SUFFICES ASSUME NEW s \in Level(k), s # {}
                 PROVE  op[pick[s]][it[s \ {pick[s]}]] \in T
      BY Zenon
    <3>1. it[s \ {pick[s]}] \in T
      BY <2>4, <2>5, Zenon
    <3>2. op[pick[s]] \in [T -> T]
      BY <2>6
    <3> QED
      BY <3>1, <3>2
  <2>8. \A s \in Level(k - 1) : s \in Level(k) /\ new[s] = it[s]
    <3> SUFFICES ASSUME NEW s \in Level(k - 1)
                 PROVE  s \in Level(k) /\ new[s] = it[s]
      OBVIOUS
    <3>1. s \in Level(k)
      BY <1>0, <2>3
    <3>2. it[s] = IF s = {} THEN base ELSE op[pick[s]][it[s \ {pick[s]}]]
      BY <2>4, Zenon
    <3> QED
      BY <3>1, <3>2
  <2>9. Solves(new, Level(k))
    <3>1. \A s \in Level(k) : (IF s = {} THEN base ELSE op[pick[s]][it[s \ {pick[s]}]])
                              = (IF s = {} THEN base ELSE op[pick[s]][new[s \ {pick[s]}]])
      BY <2>5, <2>8, Zenon
    <3> QED
      BY <3>1, Zenon
  <2> QED
    BY <2>1, <2>7, <2>9, Zenon
<1>2. Cardinality(S) \in Nat /\ Cardinality(S) \notin bad
  BY <1>1, FS_CardinalityType
<1>3. Level(Cardinality(S)) = SUBSET S
  <2>1. \A s \in SUBSET S : Cardinality(s) <= Cardinality(S)
    BY FS_Subset
  <2> QED
    BY <2>1
<1>4. PICK it \in [Level(Cardinality(S)) -> T] : Solves(it, Level(Cardinality(S)))
  BY <1>2
<1>5. it \in [SUBSET S -> T] /\ Solves(it, SUBSET S)
  BY <1>3, <1>4, Zenon
<1> QED
  BY <1>5, Zenon DEF IsFold

(* What a fold over a part of a set yields is among what its operation     *)
(* leads to there.                                                         *)
KeepsIn(f, S, good, pick) ==
  /\ f[{}] \in good[{}]
  /\ \A s \in SUBSET S : s # {} => pick[s] \in s
  /\ \A s \in SUBSET S : s # {} /\ f[s \ {pick[s]}] \in good[s \ {pick[s]}] => f[s] \in good[s]
LEMMA FoldKeeps ==
  ASSUME NEW S, IsFiniteSet(S), NEW good, NEW pick, NEW f, KeepsIn(f, S, good, pick)
  PROVE  f[S] \in good[S]
<1> USE DEF KeepsIn
<1> DEFINE wrong == {s \in SUBSET S : f[s] \notin good[s]}
           sizes == {Cardinality(s) : s \in wrong}
<1>1. \A s \in SUBSET S : IsFiniteSet(s) /\ Cardinality(s) \in Nat
  BY FS_Subset, FS_CardinalityType
<1>2. SUFFICES ASSUME sizes # {}
               PROVE  FALSE
  <2>1. S \in SUBSET S
    OBVIOUS
  <2>2. f[S] \notin good[S] => S \in wrong
    BY <2>1
  <2>3. S \in wrong => Cardinality(S) \in sizes
    BY Zenon
  <2> QED
    BY <2>2, <2>3, Zenon
<1>3. sizes \subseteq Nat
  BY <1>1
<1>4. PICK k \in sizes : \A j \in sizes : k <= j
  BY <1>2, <1>3, LeastNatural, Zenon
<1>5. PICK s \in SUBSET S : f[s] \notin good[s] /\ k = Cardinality(s)
  BY Zenon
<1>6. s # {}
  BY <1>5
<1>7. PICK x \in s : x = pick[s]
  BY <1>6
<1>8. s \ {x} \in SUBSET S /\ f[s \ {x}] \notin good[s \ {x}]
  BY <1>5, <1>6, <1>7
<1>9. Cardinality(s \ {x}) \in sizes
  BY <1>8, Zenon
<1>10. Cardinality(s \ {x}) = Cardinality(s) - 1 /\ Cardinality(s) \in Nat
  BY <1>1, OneLess, Zenon
<1>11. Cardinality(s) <= Cardinality(s \ {x})
  BY <1>4, <1>5, <1>9, Zenon
<1> QED
  BY <1>10, <1>11

(* What a fold yields stays where its operation stays.                      *)
StaysIn(f, S, T, pick) ==
  /\ f[{}] \in T
  /\ \A s \in SUBSET S : s # {} => pick[s] \in s
  /\ \A s \in SUBSET S : s # {} /\ f[s \ {pick[s]}] \in T => f[s] \in T
LEMMA FoldStays ==
  ASSUME NEW S, IsFiniteSet(S), NEW T, NEW pick, NEW f, StaysIn(f, S, T, pick)
  PROVE  f[S] \in T
<1> DEFINE good == [s \in SUBSET S |-> T]
<1>1. \A s \in SUBSET S : good[s] = T
  OBVIOUS
<1>2. {} \in SUBSET S /\ S \in SUBSET S /\ \A s \in SUBSET S : s \ {pick[s]} \in SUBSET S
  OBVIOUS
<1> HIDE DEF good
<1>3. KeepsIn(f, S, good, pick)
  BY <1>1, <1>2 DEF KeepsIn, StaysIn
<1>4. f[S] \in good[S]
  BY <1>3, FoldKeeps
<1> QED
  BY <1>1, <1>2, <1>4

(* A sum over a finite set takes one of the terms after the other.          *)
IsSum(sum, S, w, pick) ==
  /\ sum[{}] = 0
  /\ \A s \in SUBSET S : s # {} => pick[s] \in s /\ sum[s] = w[pick[s]] + sum[s \ {pick[s]}]
LEMMA SumUnfolds ==
  ASSUME NEW S, IsFiniteSet(S), NEW w \in [S -> Nat]
  PROVE  \E sum, pick : IsSum(sum, S, w, pick) /\ SumFunction(w) = sum[S]
<1> DEFINE pick == [s \in SUBSET S |-> CHOOSE x \in s : TRUE]
           op == [x \in S |-> [n \in Nat |-> w[x] + n]]
           Sums(it) == it = [s \in SUBSET S |-> IF s = {} THEN 0
                                ELSE w[CHOOSE x \in s : TRUE] + it[s \ {CHOOSE x \in s : TRUE}]]
<1>1. \A s \in SUBSET S : s # {} => pick[s] \in s /\ pick[s] = CHOOSE x \in s : TRUE
  BY Zenon
<1>2. op \in [S -> [Nat -> Nat]]
  OBVIOUS
<1>3. \A x \in S, n \in Nat : op[x][n] = w[x] + n
  OBVIOUS
<1>4. PICK it \in [SUBSET S -> Nat] : IsFold(it, S, 0, pick, op)
  <2> HIDE DEF pick, op
  <2>1. 0 \in Nat /\ op \in [S -> [Nat -> Nat]]
    BY <1>2
  <2>2. \A s \in SUBSET S : s # {} => pick[s] \in s
    BY <1>1
  <2> QED
    BY <2>1, <2>2, FoldExists DEF CanFold
<1>5. Sums(it)
  <2> SUFFICES ASSUME NEW s \in SUBSET S
               PROVE  it[s] = IF s = {} THEN 0
                              ELSE w[CHOOSE x \in s : TRUE] + it[s \ {CHOOSE x \in s : TRUE}]
    BY <1>4, Zenon DEF IsFold
  <2>1. CASE s = {}
    BY <1>4, <2>1, Zenon DEF IsFold
  <2>2. CASE s # {}
    <3>1. it[s] = op[pick[s]][it[s \ {pick[s]}]]
      BY <1>4, <2>2, Zenon DEF IsFold
    <3>2. it[s \ {pick[s]}] \in Nat /\ pick[s] \in S
      BY <1>1, <1>4, <2>2, Zenon
    <3>3. it[s] = w[pick[s]] + it[s \ {pick[s]}]
      BY <3>1, <3>2, <1>3, Zenon
    <3> QED
      BY <3>3, <1>1, <2>2, Zenon
  <2> QED
    BY <2>1, <2>2
<1> DEFINE chosen == CHOOSE sum : Sums(sum)
<1>6. Sums(chosen)
  BY <1>5, Zenon
<1>7. DOMAIN w = S
  OBVIOUS
<1>8. SumFunction(w) = chosen[S]
  BY <1>7, Zenon DEF SumFunction, SumFunctionOnSet, FoldFunctionOnSet, MapThenFoldSet
<1> HIDE DEF chosen
<1>9. chosen[{}] = 0
  BY <1>6, Zenon
<1>10. ASSUME NEW s \in SUBSET S, s # {}
       PROVE  pick[s] \in s /\ chosen[s] = w[pick[s]] + chosen[s \ {pick[s]}]
  <2>1. chosen[s] = w[CHOOSE x \in s : TRUE] + chosen[s \ {CHOOSE x \in s : TRUE}]
    BY <1>6, <1>10, Zenon
  <2> QED
    BY <2>1, <1>1, <1>10, Zenon
<1> HIDE DEF pick
<1>11. IsSum(chosen, S, w, pick)
  BY <1>9, <1>10, Zenon DEF IsSum
<1> QED
  BY <1>8, <1>11

(* The sum of finitely many naturals is one, and at least so many times what *)
(* each of them is at least.                                                *)
LEMMA SumIsAtLeast ==
  ASSUME NEW S, IsFiniteSet(S), NEW w \in [S -> Nat], NEW least \in Nat, \A x \in S : least <= w[x]
  PROVE  SumFunction(w) \in Nat /\ Cardinality(S) * least <= SumFunction(w)
<1> DEFINE good == [s \in SUBSET S |-> {n \in Nat : Cardinality(s) * least <= n}]
<1>1. PICK sum, pick : IsSum(sum, S, w, pick) /\ SumFunction(w) = sum[S]
  BY SumUnfolds
<1>2. \A s \in SUBSET S : IsFiniteSet(s) /\ Cardinality(s) \in Nat
  BY FS_Subset, FS_CardinalityType
<1>3. sum[{}] \in good[{}]
  <2>1. sum[{}] = 0 /\ Cardinality({}) * least = 0
    BY <1>1, FS_EmptySet DEF IsSum
  <2> QED
    BY <2>1
<1>4. ASSUME NEW s \in SUBSET S, s # {}, sum[s \ {pick[s]}] \in good[s \ {pick[s]}]
      PROVE  sum[s] \in good[s]
  <2>1. PICK x \in s : x = pick[s]
    BY <1>1, <1>4, Zenon DEF IsSum
  <2>2. sum[s] = w[x] + sum[s \ {x}]
    BY <1>1, <1>4, <2>1, Zenon DEF IsSum
  <2>3. Cardinality(s \ {x}) = Cardinality(s) - 1 /\ Cardinality(s) \in Nat
    BY <1>2, OneLess, Zenon
  <2>4. sum[s \ {x}] \in Nat /\ Cardinality(s \ {x}) * least <= sum[s \ {x}]
    <3>1. s \ {x} \in SUBSET S
      OBVIOUS
    <3> QED
      BY <1>4, <2>1, <3>1
  <2>5. w[x] \in Nat /\ least <= w[x]
    OBVIOUS
  <2>6. PICK c \in Nat : c = Cardinality(s)
    BY <2>3
  <2>7. (c - 1) * least = c * least - least
    OBVIOUS
  <2>8. c * least \in Int
    OBVIOUS
  <2>9. sum[s] \in Nat /\ c * least <= sum[s]
    BY <2>2, <2>3, <2>4, <2>5, <2>6, <2>7, <2>8
  <2> QED
    BY <2>6, <2>9
<1> HIDE DEF good
<1>5. KeepsIn(sum, S, good, pick)
  BY <1>1, <1>3, <1>4, Zenon DEF KeepsIn, IsSum
<1>6. sum[S] \in good[S]
  BY <1>5, FoldKeeps
<1>7. good[S] = {n \in Nat : Cardinality(S) * least <= n}
  BY DEF good
<1> QED
  BY <1>1, <1>6, <1>7

(* The sum of finitely many naturals is one.                                *)
LEMMA SumIsNatural ==
  ASSUME NEW S, IsFiniteSet(S), NEW w \in [S -> Nat]
  PROVE  SumFunction(w) \in Nat
<1>1. 0 \in Nat /\ \A x \in S : 0 <= w[x]
  OBVIOUS
<1> QED
  BY <1>1, SumIsAtLeast

(* The values of a function with a finite domain are finitely many.         *)
LEMMA ImageIsFinite ==
  ASSUME NEW S, IsFiniteSet(S), NEW f
  PROVE  IsFiniteSet({f[x] : x \in S})
<1> DEFINE g == [x \in S |-> f[x]]
           R == {f[x] : x \in S}
<1>1. g \in Surjection(S, R)
  BY DEF Surjection
<1> HIDE DEF g, R
<1>2. IsFiniteSet(R)
  BY <1>1, FS_Surjection
<1> QED
  BY <1>2 DEF R

(* The places up to a number, and the numbers between two.                  *)
LEMMA IntervalIsFinite ==
  ASSUME NEW a \in Int, NEW b \in Int
  PROVE  IsFiniteSet(a .. b)
  BY FS_Interval

(* The places of a sequence are finitely many, and so is what it holds.     *)
LEMMA PlacesAreFinite ==
  ASSUME NEW s, NEW T, s \in Seq(T)
  PROVE  /\ IsFiniteSet(DOMAIN s)
         /\ DOMAIN s = 1 .. Len(s) /\ Len(s) \in Nat
         /\ Range(s) \subseteq T /\ IsFiniteSet(Range(s))
<1>1. DOMAIN s = 1 .. Len(s) /\ Len(s) \in Nat /\ s \in [1 .. Len(s) -> T]
  OBVIOUS
<1>2. IsFiniteSet(DOMAIN s)
  <2>1. PICK n \in Nat : n = Len(s)
    BY <1>1
  <2>2. PICK one \in Int : one = 1
    OBVIOUS
  <2>3. IsFiniteSet(one .. n)
    BY FS_Interval
  <2> QED
    BY <1>1, <2>1, <2>2, <2>3
<1>3. Range(s) \subseteq T
  BY <1>1 DEF Range
<1>4. IsFiniteSet(Range(s))
  BY <1>2, ImageIsFinite DEF Range
<1> QED
  BY <1>1, <1>2, <1>3, <1>4

(* A set of parts that has the empty one and whatever is one element more    *)
(* than a part it has, has the whole.                                       *)
LEMMA GrowingParts ==
  ASSUME NEW S, IsFiniteSet(S), NEW good, {} \in good,
         \A s \in SUBSET S : s # {} => \E x \in s : s \ {x} \in good => s \in good
  PROVE  S \in good
<1> DEFINE wrong == {s \in SUBSET S : s \notin good}
           sizes == {Cardinality(s) : s \in wrong}
<1>1. \A s \in SUBSET S : IsFiniteSet(s) /\ Cardinality(s) \in Nat
  BY FS_Subset, FS_CardinalityType
<1>2. SUFFICES ASSUME S \notin good PROVE FALSE
  OBVIOUS
<1>3. sizes # {}
  <2>1. Cardinality(S) \in sizes
    BY <1>2
  <2> QED BY <2>1
<1>4. sizes \subseteq Nat
  BY <1>1
<1>5. PICK k \in sizes : \A j \in sizes : k <= j
  BY <1>3, <1>4, LeastNatural, Zenon
<1>6. PICK s \in SUBSET S : s \notin good /\ k = Cardinality(s)
  BY Zenon
<1>7. PICK x \in s : s \ {x} \notin good
  <2>1. s # {}
    BY <1>6
  <2> HIDE DEF wrong, sizes
  <2>2. \E x \in s : s \ {x} \in good => s \in good
    BY <2>1, Zenon
  <2> QED BY <1>6, <2>2, Zenon
<1>8. Cardinality(s \ {x}) \in sizes
  <2>1. s \ {x} \in wrong
    BY <1>7
  <2>2. PICK r \in wrong : r = s \ {x}
    BY <2>1
  <2> HIDE DEF wrong
  <2>3. Cardinality(r) \in sizes
    OBVIOUS
  <2> QED BY <2>2, <2>3
<1>9. Cardinality(s \ {x}) = Cardinality(s) - 1 /\ Cardinality(s) \in Nat
  BY <1>1, OneLess, Zenon
<1>10. Cardinality(s) <= Cardinality(s \ {x})
  BY <1>5, <1>6, <1>8, Zenon
<1> QED
  BY <1>9, <1>10

(* A sum may begin with any of its terms.                                   *)
LEMMA SumTakesAny ==
  ASSUME NEW S, IsFiniteSet(S), NEW w \in [S -> Nat], NEW x \in S
  PROVE  SumFunction(w) = w[x] + SumFunction([y \in S \ {x} |-> w[y]])
<1>1. PICK sum, pick : IsSum(sum, S, w, pick) /\ SumFunction(w) = sum[S]
  BY SumUnfolds
<1>2. ASSUME NEW s \in SUBSET S, s # {}
      PROVE  pick[s] \in s /\ sum[s] = w[pick[s]] + sum[s \ {pick[s]}]
  BY <1>1, <1>2 DEF IsSum
<1>3. sum[{}] = 0
  BY <1>1 DEF IsSum
<1> DEFINE good == {s \in SUBSET S : /\ sum[s] \in Nat
                                      /\ \A y \in s : /\ sum[s \ {y}] \in Nat
                                                      /\ sum[s] = w[y] + sum[s \ {y}]}
<1>4. \A s \in SUBSET S : s \in good
  <2> DEFINE K(n) == \A s \in SUBSET S : Cardinality(s) = n => s \in good
             bad == {n \in Nat : ~K(n)}
  <2>1. \A s \in SUBSET S : IsFiniteSet(s) /\ Cardinality(s) \in Nat
    BY FS_Subset, FS_CardinalityType
  <2>2. bad = {}
    <3> SUFFICES ASSUME bad # {} PROVE FALSE
      OBVIOUS
    <3>1. bad \subseteq Nat
      OBVIOUS
    <3> HIDE DEF bad
    <3>2. PICK n \in bad : \A m \in bad : n <= m
      BY <3>1, LeastNatural
    <3>3. ASSUME NEW m \in Nat, m < n PROVE K(m)
      <4>1. m \notin bad
        BY <3>1, <3>2, <3>3
      <4> HIDE DEF K
      <4> QED BY <4>1 DEF bad
    <3>4. PICK s \in SUBSET S : Cardinality(s) = n /\ s \notin good
      BY <3>2 DEF bad
    <3>5. CASE s = {}
      <4>1. s \in good
        BY <1>3, <3>5
      <4> QED BY <3>4, <4>1
    <3>6. CASE s # {}
      <4>1. PICK p \in s : p = pick[s] /\ sum[s] = w[p] + sum[s \ {p}]
        BY <1>2, <3>6
      <4>2. ASSUME NEW y \in s PROVE s \ {y} \in good
        <5>1. Cardinality(s \ {y}) = n - 1 /\ n \in Nat /\ s \ {y} \in SUBSET S
          BY <2>1, <3>4, OneLess
        <5>2. Cardinality(s \ {y}) \in Nat
          BY <2>1, <5>1
        <5>3. n - 1 \in Nat /\ n - 1 < n
          BY <5>1, <5>2
        <5>4. K(n - 1)
          BY <5>3, <3>3
        <5> QED BY <5>1, <5>4
      <4>3. \A y \in s : sum[s \ {y}] \in Nat /\ w[y] \in Nat
        BY <4>2
      <4>4. sum[s] \in Nat
        BY <4>1, <4>3
      <4>5. ASSUME NEW y \in s PROVE sum[s] = w[y] + sum[s \ {y}]
        <5>1. CASE y = p
          BY <4>1, <5>1
        <5>2. CASE y # p
          <6>1. sum[s \ {p}] = w[y] + sum[(s \ {p}) \ {y}]
            BY <4>2, <5>2
          <6>2. sum[s \ {y}] = w[p] + sum[(s \ {y}) \ {p}]
            BY <4>2, <5>2
          <6>3. (s \ {p}) \ {y} = (s \ {y}) \ {p}
            OBVIOUS
          <6>4. sum[(s \ {p}) \ {y}] \in Nat
            BY <4>2, <5>2
          <6>5. w[p] \in Nat /\ w[y] \in Nat
            BY <4>3
          <6> QED BY <4>1, <6>1, <6>2, <6>3, <6>4, <6>5
        <5> QED BY <5>1, <5>2
      <4>6. s \in good
        BY <4>3, <4>4, <4>5
      <4> QED BY <3>4, <4>6
    <3> QED BY <3>5, <3>6
  <2> QED BY <2>1, <2>2
<1> DEFINE R == S \ {x}
           v == [y \in R |-> w[y]]
<1>5. IsFiniteSet(R) /\ v \in [R -> Nat] /\ \A y \in R : v[y] = w[y]
  BY FS_Subset
<1> HIDE DEF v
<1>6. PICK sum2, pick2 : IsSum(sum2, R, v, pick2) /\ SumFunction(v) = sum2[R]
  BY <1>5, SumUnfolds
<1> DEFINE same == {s \in SUBSET R : sum2[s] = sum[s]}
<1>7. R \in same
  <2>1. {} \in same
    BY <1>3, <1>6 DEF IsSum
  <2>2. ASSUME NEW s \in SUBSET R, s # {}
        PROVE  \E y \in s : s \ {y} \in same => s \in same
    <3>1. PICK y \in s : y = pick2[s] /\ sum2[s] = v[y] + sum2[s \ {y}]
      BY <1>6, <2>2 DEF IsSum
    <3>2. sum[s] = w[y] + sum[s \ {y}] /\ v[y] = w[y]
      BY <1>4, <1>5
    <3>3. s \ {y} \in same => s \in same
      BY <3>1, <3>2
    <3> QED BY <3>3
  <2> HIDE DEF same
  <2> QED BY <1>5, <2>1, <2>2, GrowingParts
<1>8. sum[S] = w[x] + sum[R]
  BY <1>4
<1> QED BY <1>1, <1>6, <1>7, <1>8 DEF v

(* The sums over the parts of a set.                                        *)
IsTotal(total, S, w) ==
  /\ total[{}] = 0
  /\ \A s \in SUBSET S : /\ total[s] = SumFunction([x \in s |-> w[x]]) /\ total[s] \in Nat
                         /\ \A x \in s : total[s] = w[x] + total[s \ {x}]
LEMMA TotalsExist ==
  ASSUME NEW S, IsFiniteSet(S), NEW w \in [S -> Nat]
  PROVE  \E total : IsTotal(total, S, w) /\ total[S] = SumFunction(w)
<1> DEFINE total == [s \in SUBSET S |-> SumFunction([x \in s |-> w[x]])]
<1>1. ASSUME NEW s \in SUBSET S
      PROVE  /\ total[s] = SumFunction([x \in s |-> w[x]])
             /\ total[s] \in Nat
             /\ \A x \in s : total[s] = w[x] + total[s \ {x}]
  <2> DEFINE v == [x \in s |-> w[x]]
  <2>1. v \in [s -> Nat] /\ IsFiniteSet(s)
    BY FS_Subset
  <2>2. total[s] = SumFunction(v)
    OBVIOUS
  <2>3. total[s] \in Nat
    <3> HIDE DEF v
    <3> QED BY <2>1, <2>2, SumIsNatural
  <2>4. ASSUME NEW x \in s PROVE total[s] = w[x] + total[s \ {x}]
    <3>1. [y \in s \ {x} |-> v[y]] = [y \in s \ {x} |-> w[y]] /\ v[x] = w[x]
      OBVIOUS
    <3>2. total[s \ {x}] = SumFunction([y \in s \ {x} |-> w[y]])
      OBVIOUS
    <3> HIDE DEF v, total
    <3>3. SumFunction(v) = v[x] + SumFunction([y \in s \ {x} |-> v[y]])
      BY <2>1, SumTakesAny
    <3> QED BY <2>2, <3>1, <3>2, <3>3
  <2> QED BY <2>2, <2>3, <2>4
<1>2. total[{}] = 0
  <2> DEFINE none == [x \in {} |-> w[x]]
  <2>1. none \in [{} -> Nat] /\ IsFiniteSet({})
    BY FS_EmptySet
  <2>2. total[{}] = SumFunction(none)
    OBVIOUS
  <2> HIDE DEF none, total
  <2>3. PICK sum, pick : IsSum(sum, {}, none, pick) /\ SumFunction(none) = sum[{}]
    BY <2>1, SumUnfolds
  <2> QED BY <2>2, <2>3 DEF IsSum
<1>3. total[S] = SumFunction(w)
  <2>1. w = [x \in S |-> w[x]]
    OBVIOUS
  <2>2. total[S] = SumFunction([x \in S |-> w[x]])
    BY <1>1
  <2> HIDE DEF total
  <2> QED BY <2>1, <2>2, Zenon
<1> HIDE DEF total
<1>4. IsTotal(total, S, w)
  BY <1>1, <1>2 DEF IsTotal
<1> QED BY <1>3, <1>4

(* The sum over two parts that share nothing.                               *)
LEMMA SumSplits ==
  ASSUME NEW S, IsFiniteSet(S), NEW w \in [S -> Nat], NEW A, NEW B,
         S = A \cup B, A \cap B = {}
  PROVE  SumFunction(w) = SumFunction([x \in A |-> w[x]]) + SumFunction([x \in B |-> w[x]])
<1>1. PICK total : IsTotal(total, S, w) /\ total[S] = SumFunction(w)
  BY TotalsExist
<1>2. total[A] = SumFunction([x \in A |-> w[x]]) /\ total[B] = SumFunction([x \in B |-> w[x]])
      /\ total[A] \in Nat /\ total[B] \in Nat
  BY <1>1 DEF IsTotal
<1> DEFINE good == {s \in SUBSET B : total[A \cup s] = total[A] + total[s]}
<1>3. B \in good
  <2>1. {} \in good
    <3>1. A \cup {} = A /\ total[{}] = 0
      BY <1>1 DEF IsTotal
    <3> QED BY <1>2, <3>1
  <2>2. ASSUME NEW s \in SUBSET B, s # {}
        PROVE  \E x \in s : s \ {x} \in good => s \in good
    <3>1. PICK x \in s : TRUE
      BY <2>2
    <3>2. /\ A \cup s \in SUBSET S /\ s \in SUBSET S
          /\ (A \cup s) \ {x} = A \cup (s \ {x}) /\ x \in A \cup s
          /\ A \cup (s \ {x}) \in SUBSET S /\ s \ {x} \in SUBSET S
      OBVIOUS
    <3>3. total[A \cup s] = w[x] + total[A \cup (s \ {x})]
      <4>1. total[A \cup s] = w[x] + total[(A \cup s) \ {x}]
        BY <1>1, <3>2, Zenon DEF IsTotal
      <4> QED BY <3>2, <4>1
    <3>6. total[s] = w[x] + total[s \ {x}]
      BY <1>1, <3>2 DEF IsTotal
    <3>4. total[s \ {x}] \in Nat /\ w[x] \in Nat
      BY <1>1, <3>2 DEF IsTotal
    <3>5. s \ {x} \in good => s \in good
      BY <1>2, <3>3, <3>4, <3>6
    <3> QED BY <3>5
  <2>3. IsFiniteSet(B)
    BY FS_Subset
  <2> HIDE DEF good
  <2> QED BY <2>1, <2>2, <2>3, GrowingParts
<1>4. total[S] = total[A] + total[B]
  BY <1>3
<1> QED BY <1>1, <1>2, <1>4

(* The sum over the images under a map that keeps different things apart.   *)
LEMMA SumMoves ==
  ASSUME NEW S, IsFiniteSet(S), NEW w \in [S -> Nat], NEW g, NEW T, NEW v \in [T -> Nat],
         T = {g[x] : x \in S}, \A x, y \in S : g[x] = g[y] => x = y,
         \A x \in S : v[g[x]] = w[x]
  PROVE  SumFunction(w) = SumFunction(v)
<1>1. PICK total : IsTotal(total, S, w) /\ total[S] = SumFunction(w)
  BY TotalsExist
<1>2. IsFiniteSet(T)
  BY ImageIsFinite
<1>3. PICK moved : IsTotal(moved, T, v) /\ moved[T] = SumFunction(v)
  BY <1>2, TotalsExist
<1> DEFINE image(s) == {g[x] : x \in s}
           good == {s \in SUBSET S : total[s] = moved[image(s)]}
<1>4. S \in good
  <2>1. {} \in good
    <3>1. image({}) = {}
      OBVIOUS
    <3> QED BY <1>1, <1>3, <3>1 DEF IsTotal
  <2>2. ASSUME NEW s \in SUBSET S, s # {}
        PROVE  \E x \in s : s \ {x} \in good => s \in good
    <3>1. PICK x \in s : TRUE
      BY <2>2
    <3>2. image(s \ {x}) = image(s) \ {g[x]} /\ g[x] \in image(s) /\ image(s) \in SUBSET T
      OBVIOUS
    <3>3. total[s] = w[x] + total[s \ {x}]
      BY <1>1 DEF IsTotal
    <3>4. moved[image(s)] = v[g[x]] + moved[image(s) \ {g[x]}]
      <4> HIDE DEF image
      <4> QED BY <1>3, <3>2 DEF IsTotal
    <3>5. v[g[x]] = w[x]
      OBVIOUS
    <3>6. s \ {x} \in good => s \in good
      BY <3>2, <3>3, <3>4, <3>5
    <3> QED BY <3>6
  <2> HIDE DEF good
  <2> QED BY <2>1, <2>2, GrowingParts
<1>5. total[S] = moved[image(S)] /\ image(S) = T
  BY <1>4
<1> QED BY <1>1, <1>3, <1>5
=============================================================================
