---------------------------- MODULE PackageProofs ----------------------------
(***************************************************************************)
(* Proofs about the package resolver and the package store.                *)
(*                                                                         *)
(* The resolver is sound, it misses no solution, and it takes the highest  *)
(* versions, for every catalog, list of roots and order of later changes.  *)
(* The invariant behind all three says of each frame which of its          *)
(* candidates are exhausted: those that left `rest`, but for the one the   *)
(* next frame is about.  An exhausted candidate is in no consistent        *)
(* selection that keeps the frame's own choices.                           *)
(*                                                                         *)
(* The store's files have one writer each and stay once whole, for every   *)
(* number of processes and artifacts, every artifact size, and any number  *)
(* of failures and kills.                                                  *)
(***************************************************************************)
EXTENDS PackageResolution, PackageStore, SequenceTheorems, TLAPS

Frames(c) ==
  [constraints : SUBSET Requirement, selected : SUBSET c, name : Names, rest : SUBSET c]

(* What a frame's requirements admit for the name it is about. *)
Candidates(c, f) ==
  {r \in c : r.name = f.name /\ \A q \in f.constraints : q.name = f.name => Matches(r, q)}

OnePerName(S) == \A r, s \in S : r.name = s.name => r = s

Collected(list, selected) == Constraints(list) \cup UNION {r.dependencies : r \in selected}

(* A set of names that holds the roots' and is closed under the dependencies *)
(* of S holds the names of S.                                                *)
Grounded(list, S) ==
  \A N :
    /\ NamesOf(Constraints(list)) \subseteq N
    /\ \A r \in S : r.name \in N => NamesOf(r.dependencies) \subseteq N
    => NamesOf(S) \subseteq N

(* No consistent selection holds S. *)
Exhausted(c, list, S) == ~\E T \in SUBSET c : Consistent(list, T) /\ S \subseteq T

(* A partial selection the search may hold. *)
Partial(list, constraints, S) ==
  /\ OnePerName(S)
  /\ constraints = Collected(list, S)
  /\ ~Conflict(constraints, S)
  /\ NamesOf(S) \subseteq NamesOf(constraints)
  /\ Grounded(list, S)

FrameOK(c, list, f) ==
  /\ Partial(list, f.constraints, f.selected)
  /\ f.name \in NamesOf(f.constraints)
  /\ f.name \notin NamesOf(f.selected)
  /\ f.rest \subseteq Candidates(c, f)

(* The frame's loop has taken d: every candidate it took before is           *)
(* exhausted, and those it has not taken are not preferred to d.             *)
Chosen(c, list, f, d) ==
  /\ d \in Candidates(c, f)
  /\ \A r \in f.rest : ~Preferred(r, d)
  /\ \A r \in Candidates(c, f) \ f.rest : r = d \/ Exhausted(c, list, f.selected \cup {r})

(* The frame's loop is between two candidates. *)
Between(c, list, f) ==
  \A r \in Candidates(c, f) \ f.rest : Exhausted(c, list, f.selected \cup {r})

(* Each frame but the last was left by a choice the next one holds. *)
Chain(c, list, s) ==
  /\ s # <<>> => s[1].selected = {}
  /\ \A i \in 1..Len(s) : FrameOK(c, list, s[i])
  /\ \A i \in 1..Len(s) - 1 :
       \E d \in c : /\ Chosen(c, list, s[i], d)
                    /\ s[i + 1].selected = s[i].selected \cup {d}
  /\ \A i, j \in 1..Len(s) : i <= j => s[i].selected \subseteq s[j].selected

(* What an answer says of the search that gave it. *)
Outcome(c, list, s, a, l) ==
  /\ a = "Searching" => s # <<>> /\ Between(c, list, s[Len(s)])
  /\ a = "Locked" /\ s = <<>> => list = <<>> /\ l = {}
  /\ a = "Locked" /\ s # <<>> =>
       \E d \in c : LET S == s[Len(s)].selected \cup {d}
                    IN /\ Chosen(c, list, s[Len(s)], d)
                       /\ Partial(list, Collected(list, S), S)
                       /\ Complete(Collected(list, S), S)
                       /\ l = {Locked(r) : r \in S}
  /\ a = "Unsatisfied" => s = <<>> /\ Exhausted(c, list, {})

ResolutionInv ==
  /\ ResolutionTypeOK
  /\ Chain(catalog, roots, stack)
  /\ Outcome(catalog, roots, stack, answer, lock)

-----------------------------------------------------------------------------
(* A consistent selection meets every requirement of its own members. *)
LEMMA ConsistentMeets ==
  ASSUME NEW list, NEW T, NEW S, Consistent(list, T), S \subseteq T,
         NEW q \in Collected(list, S)
  PROVE  \E r \in T : Matches(r, q)
BY DEF Consistent, Collected

(* What refuses a partial selection refuses every consistent one holding it. *)
LEMMA ConflictExhausts ==
  ASSUME NEW c, NEW list, NEW S, Conflict(Collected(list, S), S)
  PROVE  Exhausted(c, list, S)
<1> SUFFICES ASSUME NEW T \in SUBSET c, Consistent(list, T), S \subseteq T
             PROVE  FALSE
  BY DEF Exhausted
<1>1. PICK r \in S, q \in Collected(list, S) : q.name = r.name /\ ~Matches(r, q)
  BY DEF Conflict
<1>2. PICK t \in T : Matches(t, q)
  BY ConsistentMeets
<1>3. t.name = r.name
  BY <1>1, <1>2 DEF Matches
<1>4. t = r
  BY <1>3 DEF Consistent
<1> QED BY <1>1, <1>2, <1>4

(* A consistent selection that holds a frame's choices holds one of the      *)
(* frame's candidates.                                                       *)
LEMMA CandidateInside ==
  ASSUME NEW c, NEW list, NEW f, FrameOK(c, list, f),
         NEW T \in SUBSET c, Consistent(list, T), f.selected \subseteq T
  PROVE  \E r \in Candidates(c, f) : r \in T
<1>1. f.constraints = Collected(list, f.selected)
  BY DEF FrameOK, Partial
<1>2. PICK q \in f.constraints : q.name = f.name
  BY DEF FrameOK, NamesOf
<1>3. PICK r \in T : Matches(r, q)
  BY <1>1, <1>2, ConsistentMeets
<1>4. r.name = f.name
  BY <1>2, <1>3 DEF Matches
<1>5. ASSUME NEW p \in f.constraints, p.name = f.name PROVE Matches(r, p)
  <2>1. PICK t \in T : Matches(t, p)
    BY <1>1, <1>5, ConsistentMeets
  <2>2. t.name = r.name
    BY <1>4, <1>5, <2>1 DEF Matches
  <2>3. t = r
    BY <2>2 DEF Consistent
  <2> QED BY <2>1, <2>3
<1> QED BY <1>3, <1>4, <1>5 DEF Candidates

(* A frame that has exhausted every candidate is exhausted itself. *)
LEMMA FrameExhausts ==
  ASSUME NEW c, NEW list, NEW f, FrameOK(c, list, f), Between(c, list, f), f.rest = {}
  PROVE  Exhausted(c, list, f.selected)
<1> SUFFICES ASSUME NEW T \in SUBSET c, Consistent(list, T), f.selected \subseteq T
             PROVE  FALSE
  BY DEF Exhausted
<1>1. PICK r \in Candidates(c, f) : r \in T
  BY CandidateInside
<1>2. Exhausted(c, list, f.selected \cup {r})
  BY DEF Between
<1> QED BY <1>1, <1>2 DEF Exhausted

(* A choice that no constraint refuses keeps the selection partial. *)
LEMMA PartialGrows ==
  ASSUME NEW c, NEW list, NEW f, FrameOK(c, list, f), NEW d \in Candidates(c, f),
         ~Conflict(f.constraints \cup d.dependencies, f.selected \cup {d})
  PROVE  /\ f.constraints \cup d.dependencies = Collected(list, f.selected \cup {d})
         /\ Partial(list, f.constraints \cup d.dependencies, f.selected \cup {d})
<1> DEFINE S == f.selected
           S2 == S \cup {d}
           C2 == f.constraints \cup d.dependencies
<1>1. d.name = f.name /\ d.name \notin NamesOf(S) /\ d.name \in NamesOf(f.constraints)
  BY DEF Candidates, FrameOK
<1>2. C2 = Collected(list, S2)
  <2>1. UNION {r.dependencies : r \in S2} = (UNION {r.dependencies : r \in S}) \cup d.dependencies
    OBVIOUS
  <2>2. f.constraints = Constraints(list) \cup UNION {r.dependencies : r \in S}
    BY DEF FrameOK, Partial, Collected
  <2> QED BY <2>1, <2>2 DEF Collected
<1>3. OnePerName(S2)
  BY <1>1 DEF FrameOK, Partial, OnePerName, NamesOf
<1>4. NamesOf(S2) \subseteq NamesOf(C2)
  BY <1>1 DEF FrameOK, Partial, NamesOf
<1>5. Grounded(list, S2)
  <2> SUFFICES ASSUME NEW N,
                      NamesOf(Constraints(list)) \subseteq N,
                      \A r \in S2 : r.name \in N => NamesOf(r.dependencies) \subseteq N
               PROVE  NamesOf(S2) \subseteq N
    BY DEF Grounded
  <2>1. NamesOf(S) \subseteq N
    BY DEF FrameOK, Partial, Grounded
  <2>2. PICK q \in f.constraints : q.name = d.name
    BY <1>1 DEF NamesOf
  <2>3. q \in Constraints(list) \/ \E r \in S : q \in r.dependencies
    BY DEF FrameOK, Partial, Collected
  <2>4. d.name \in N
    BY <2>1, <2>2, <2>3 DEF NamesOf
  <2> QED BY <2>1, <2>4 DEF NamesOf
<1> QED BY <1>2, <1>3, <1>4, <1>5 DEF Partial

-----------------------------------------------------------------------------
(* A call starts with all its candidates ahead of it. *)
LEMMA FrameOfCall ==
  ASSUME NEW list, NEW C \in SUBSET Requirement, NEW S \in SUBSET catalog, NEW n \in Names,
         Partial(list, C, S), n \in NamesOf(C), n \notin NamesOf(S)
  PROVE  /\ Frame(C, S, n) \in Frames(catalog)
         /\ Frame(C, S, n).selected = S
         /\ FrameOK(catalog, list, Frame(C, S, n))
         /\ Between(catalog, list, Frame(C, S, n))
BY DEF Frame, Frames, FrameOK, Between, Candidates

(* Taking a candidate leaves the frame well-formed and makes it the choice. *)
LEMMA TakenIsChosen ==
  ASSUME NEW list, NEW f \in Frames(catalog), FrameOK(catalog, list, f),
         Between(catalog, list, f),
         NEW d \in f.rest, \A r \in f.rest : ~Preferred(r, d)
  PROVE  LET g == Taken(f, d)
         IN  /\ g \in Frames(catalog)
             /\ g.selected = f.selected /\ g.constraints = f.constraints
             /\ FrameOK(catalog, list, g)
             /\ Candidates(catalog, g) = Candidates(catalog, f)
             /\ Chosen(catalog, list, g, d)
<1> DEFINE g == Taken(f, d)
<1>1. /\ g \in Frames(catalog)
      /\ g.selected = f.selected /\ g.constraints = f.constraints /\ g.name = f.name
      /\ g.rest = f.rest \ {d}
  BY DEF Frames, Taken
<1>2. Candidates(catalog, g) = Candidates(catalog, f)
  BY <1>1 DEF Candidates
<1>3. FrameOK(catalog, list, g)
  BY <1>1, <1>2 DEF FrameOK
<1>4. Chosen(catalog, list, g, d)
  BY <1>1, <1>2 DEF Chosen, Between, FrameOK
<1> QED BY <1>1, <1>2, <1>3, <1>4

(* A choice found exhausted leaves the frame between two candidates. *)
LEMMA ChosenExhausted ==
  ASSUME NEW c, NEW list, NEW f, NEW d, Chosen(c, list, f, d),
         Exhausted(c, list, f.selected \cup {d})
  PROVE  Between(c, list, f)
BY DEF Chosen, Between

(* A chain grows by a frame that holds the last one's choice. *)
LEMMA ChainGrows ==
  ASSUME NEW c, NEW list, NEW s \in Seq(Frames(c)), s # <<>>, Chain(c, list, s),
         NEW g \in Frames(c), FrameOK(c, list, g),
         NEW d \in c, Chosen(c, list, s[Len(s)], d), g.selected = s[Len(s)].selected \cup {d}
  PROVE  Chain(c, list, Append(s, g))
<1> DEFINE t == Append(s, g)
           m == Len(s)
<1>1. /\ m \in Nat \ {0} /\ Len(t) = m + 1
      /\ \A i \in 1..m : t[i] = s[i]
      /\ t[m + 1] = g
  BY AppendProperties, EmptySeq
<1> HIDE DEF t, m
<1>2. t[1].selected = {}
  BY <1>1 DEF Chain, m
<1>3. ASSUME NEW i \in 1..m + 1 PROVE FrameOK(c, list, t[i])
  <2>1. CASE i = m + 1
    BY <1>1, <2>1
  <2>2. CASE i # m + 1
    BY <1>1, <2>2 DEF Chain, m
  <2> QED BY <2>1, <2>2
<1>4. ASSUME NEW i \in 1..m
      PROVE  \E e \in c : Chosen(c, list, t[i], e) /\ t[i + 1].selected = t[i].selected \cup {e}
  <2>1. CASE i = m
    BY <1>1, <2>1 DEF m
  <2>2. CASE i # m
    <3>1. i \in 1..m - 1 /\ t[i] = s[i] /\ t[i + 1] = s[i + 1]
      BY <1>1, <2>2
    <3> QED BY <3>1 DEF Chain, m
  <2> QED BY <2>1, <2>2
<1>5. Chain(c, list, t)
  <2>1. 1..Len(t) = 1..m + 1 /\ 1..Len(t) - 1 = 1..m
    BY <1>1
  <2>2. ASSUME NEW i \in 1..m + 1, NEW j \in 1..m + 1, i <= j
        PROVE  t[i].selected \subseteq t[j].selected
    <3>1. \A k \in 1..m : s[k].selected \subseteq s[m].selected
      BY <1>1 DEF Chain, m
    <3>2. CASE j = m + 1 /\ i \in 1..m
      BY <1>1, <3>1, <3>2 DEF m
    <3>3. CASE j = m + 1 /\ i = m + 1
      BY <3>3
    <3>4. CASE j \in 1..m
      <4>1. i \in 1..m /\ t[i] = s[i] /\ t[j] = s[j]
        BY <1>1, <2>2, <3>4
      <4> QED BY <2>2, <3>4, <4>1 DEF Chain, m
    <3> QED BY <1>1, <3>2, <3>3, <3>4
  <2> QED BY <1>2, <1>3, <1>4, <2>1, <2>2 DEF Chain
<1> QED BY <1>5 DEF t

(* A chain without its last frame is a chain. *)
LEMMA ChainFront ==
  ASSUME NEW c, NEW list, NEW s \in Seq(Frames(c)), s # <<>>, Chain(c, list, s)
  PROVE  /\ Len(s) \in Nat \ {0}
         /\ Len(SubSeq(s, 1, Len(s) - 1)) = Len(s) - 1
         /\ \A i \in 1..Len(s) - 1 : SubSeq(s, 1, Len(s) - 1)[i] = s[i]
         /\ Chain(c, list, SubSeq(s, 1, Len(s) - 1))
<1> DEFINE m == Len(s)
           t == SubSeq(s, 1, m - 1)
<1>1. m \in Nat \ {0} /\ \A i \in 1..m - 1 : s[i] \in Frames(c)
  BY EmptySeq
<1>2. Len(t) = m - 1 /\ \A i \in 1..m - 1 : t[i] = s[i]
  <2> HIDE DEF m
  <2>1. m - 1 \in Int /\ (m - 1) - 1 + 1 = m - 1 /\ \A i \in Int : 1 + i - 1 = i
    BY <1>1
  <2>2. /\ Len(t) = IF 1 <= m - 1 THEN (m - 1) - 1 + 1 ELSE 0
        /\ \A i \in 1..(m - 1) - 1 + 1 : t[i] = s[1 + i - 1]
    BY <1>1, <2>1, SubSeqProperties
  <2>3. Len(t) = m - 1
    BY <1>1, <2>1, <2>2
  <2>4. ASSUME NEW i \in 1..m - 1 PROVE t[i] = s[i]
    BY <2>1, <2>2, <1>1
  <2> QED BY <2>3, <2>4
<1> HIDE DEF t, m
<1>3. t # <<>> => t[1].selected = {}
  <2>1. t # <<>> => 1 \in 1..m - 1
    BY <1>1, <1>2, SubSeqEmpty DEF t
  <2> QED BY <1>2, <2>1 DEF Chain
<1>4. \A i \in 1..m - 1 : FrameOK(c, list, t[i])
  BY <1>1, <1>2 DEF Chain, m
<1>5. ASSUME NEW i \in 1..(m - 1) - 1
      PROVE  \E e \in c : Chosen(c, list, t[i], e) /\ t[i + 1].selected = t[i].selected \cup {e}
  <2>1. i \in 1..m - 1 /\ t[i] = s[i] /\ t[i + 1] = s[i + 1]
    BY <1>1, <1>2
  <2> QED BY <2>1 DEF Chain, m
<1>6. \A i, j \in 1..m - 1 : i <= j => t[i].selected \subseteq t[j].selected
  <2>1. \A i \in 1..m - 1 : i \in 1..m
    BY <1>1
  <2> QED BY <1>2, <2>1 DEF Chain, m
<1>7. Chain(c, list, t)
  BY <1>2, <1>3, <1>4, <1>5, <1>6 DEF Chain
<1> QED BY <1>1, <1>2, <1>7 DEF t, m

-----------------------------------------------------------------------------
(* The types of the search's values. *)
LEMMA FramesType ==
  ASSUME ResolutionTypeOK
  PROVE  /\ stack \in Seq(Frames(catalog))
         /\ \A i \in 1..Len(stack) : stack[i] \in Frames(catalog)
         /\ stack # <<>> => Len(stack) \in Nat \ {0} /\ Top \in Frames(catalog)
<1>1. stack \in Seq(Frames(catalog))
  BY DEF ResolutionTypeOK, Frames
<1>2. \A i \in 1..Len(stack) : stack[i] \in Frames(catalog)
  BY <1>1
<1>3. ASSUME stack # <<>> PROVE Len(stack) \in Nat \ {0}
  BY <1>1, <1>3
<1> QED BY <1>1, <1>2, <1>3 DEF Top

LEMMA ReleaseType ==
  ASSUME ResolutionTypeOK, NEW r \in catalog
  PROVE  /\ r \in Release
         /\ r.dependencies \in SUBSET Requirement
         /\ Path(r) \in Names \X Versions \X Digests
         /\ Locked(r) \in [name : Names, version : Versions, source : Sources, digest : Digests]
BY ResolutionAssumption DEF ResolutionTypeOK, Release, Path, Locked

LEMMA WithoutType ==
  ASSUME ResolutionTypeOK, stack # <<>>, NEW d
  PROVE  /\ Without(d) \in Seq(Frames(catalog))
         /\ Len(Without(d)) = Len(stack)
         /\ Without(d) # <<>>
         /\ \A i \in 1..Len(stack) - 1 : Without(d)[i] = stack[i]
         /\ Without(d)[Len(stack)] = Taken(Top, d)
<1>1. stack \in Seq(Frames(catalog)) /\ Len(stack) \in Nat \ {0}
  BY FramesType
<1>2. Taken(Top, d) \in Frames(catalog)
  BY FramesType DEF Frames, Taken
<1> QED BY <1>1, <1>2 DEF Without, Top

LEMMA TypeInit == Init => ResolutionTypeOK
<1> SUFFICES ASSUME Init PROVE ResolutionTypeOK
  OBVIOUS
<1>1. catalog \subseteq Releases
  BY ResolutionAssumption DEF Init
<1>2. stored \subseteq Names \X Versions \X Digests
  BY <1>1, ResolutionAssumption DEF Init, Path, Release
<1> QED BY <1>1, <1>2, ResolutionAssumption DEF Init, ResolutionTypeOK, Answers

LEMMA SearchTypes ==
  ASSUME ResolutionTypeOK, Search
  PROVE  ResolutionTypeOK'
<1>1. ASSUME NEW d \in Releases, Skip(d) PROVE ResolutionTypeOK'
  <2>1. stack' \in Seq(Frames(catalog)) /\ UNCHANGED <<catalog, stored, roots, answer, lock, loaded, edits>>
    BY <1>1, WithoutType DEF Skip, Takes
  <2> QED BY <2>1 DEF ResolutionTypeOK, Frames
<1>2. ASSUME NEW d \in Releases, Accept(d) PROVE ResolutionTypeOK'
  <2>1. stack' \in Seq(Frames(catalog)) /\ UNCHANGED <<catalog, stored, roots, loaded, edits>>
    BY <1>2, WithoutType DEF Accept, Takes
  <2>2. WithSelected(d) \subseteq catalog
    BY <1>2, FramesType DEF Accept, Takes, WithSelected, Frames
  <2>3. lock' \subseteq [name : Names, version : Versions, source : Sources, digest : Digests]
    BY <1>2, <2>2, ReleaseType DEF Accept
  <2>4. answer' \in Answers
    BY <1>2 DEF Accept, Answers
  <2> QED BY <2>1, <2>3, <2>4 DEF ResolutionTypeOK, Frames
<1>3. ASSUME NEW d \in Releases, Descend(d) PROVE ResolutionTypeOK'
  <2>1. Without(d) \in Seq(Frames(catalog)) /\ UNCHANGED <<catalog, stored, roots, answer, lock, loaded, edits>>
    BY <1>3, WithoutType DEF Descend, Takes
  <2>2. PICK n \in Names : stack' = Append(Without(d), Frame(WithConstraints(d), WithSelected(d), n))
    BY <1>3 DEF Descend
  <2>3. WithSelected(d) \subseteq catalog /\ d \in catalog
    BY <1>3, FramesType DEF Descend, Takes, WithSelected, Frames
  <2>4. WithConstraints(d) \subseteq Requirement
    BY <1>3, <2>3, FramesType, ReleaseType DEF Descend, Takes, WithConstraints, Frames
  <2>5. Frame(WithConstraints(d), WithSelected(d), n) \in Frames(catalog)
    BY <2>3, <2>4 DEF Frame, Frames
  <2>6. stack' \in Seq(Frames(catalog))
    BY <2>1, <2>2, <2>5
  <2> QED BY <2>1, <2>6 DEF ResolutionTypeOK, Frames
<1>4. ASSUME Backtrack PROVE ResolutionTypeOK'
  <2>1. stack' \in Seq(Frames(catalog)) /\ UNCHANGED <<catalog, stored, roots, lock, loaded, edits>>
    BY <1>4, FramesType DEF Backtrack
  <2>2. answer' \in Answers
    BY <1>4 DEF Backtrack, Answers
  <2> QED BY <2>1, <2>2 DEF ResolutionTypeOK, Frames
<1> QED BY <1>1, <1>2, <1>3, <1>4 DEF Search

-----------------------------------------------------------------------------
(* What a step that takes candidate d finds and leaves in the top frame. *)
LEMMA TakeFacts ==
  ASSUME ResolutionInv, NEW d, Takes(d)
  PROVE  /\ d \in catalog
         /\ stack # <<>> /\ Len(stack) \in Nat \ {0} /\ Top \in Frames(catalog)
         /\ FrameOK(catalog, roots, Top)
         /\ Taken(Top, d).selected = Top.selected
         /\ FrameOK(catalog, roots, Taken(Top, d))
         /\ Chosen(catalog, roots, Taken(Top, d), d)
         /\ d \in Candidates(catalog, Top)
<1>1. stack # <<>> /\ Len(stack) \in Nat \ {0} /\ Top \in Frames(catalog)
  BY FramesType DEF Takes, ResolutionInv
<1>2. FrameOK(catalog, roots, Top)
  BY <1>1 DEF ResolutionInv, Chain, Top
<1>3. Between(catalog, roots, Top)
  BY DEF ResolutionInv, Outcome, Takes, Top
<1>4. d \in Top.rest /\ \A r \in Top.rest : ~Preferred(r, d)
  BY DEF Takes
<1>5. d \in Candidates(catalog, Top)
  BY <1>2, <1>4 DEF FrameOK
<1>6. d \in catalog
  BY <1>5 DEF Candidates
<1> QED BY <1>1, <1>2, <1>3, <1>4, <1>5, <1>6, TakenIsChosen

(* Taking a candidate disturbs no other frame. *)
LEMMA ChainTaken ==
  ASSUME ResolutionInv, NEW d, Takes(d)
  PROVE  Chain(catalog, roots, Without(d))
<1> DEFINE s == Without(d)
           n == Len(stack)
<1>1. /\ Len(s) = n /\ s # <<>> /\ n \in Nat \ {0}
      /\ \A i \in 1..n - 1 : s[i] = stack[i]
      /\ s[n] = Taken(Top, d)
  BY TakeFacts, WithoutType DEF ResolutionInv
<1>2. s[1].selected = {}
  <2>1. stack[1].selected = {}
    BY TakeFacts DEF ResolutionInv, Chain
  <2>2. CASE n = 1
    BY <1>1, <2>1, <2>2, TakeFacts DEF Top
  <2>3. CASE n # 1
    BY <1>1, <2>1, <2>3
  <2> QED BY <2>2, <2>3
<1>3. ASSUME NEW i \in 1..n PROVE FrameOK(catalog, roots, s[i])
  <2>1. CASE i = n
    BY <1>1, <2>1, TakeFacts
  <2>2. CASE i # n
    BY <1>1, <2>2 DEF ResolutionInv, Chain
  <2> QED BY <2>1, <2>2
<1>4. ASSUME NEW i \in 1..n - 1
      PROVE  \E e \in catalog : /\ Chosen(catalog, roots, s[i], e)
                               /\ s[i + 1].selected = s[i].selected \cup {e}
  <2>1. PICK e \in catalog : /\ Chosen(catalog, roots, stack[i], e)
                            /\ stack[i + 1].selected = stack[i].selected \cup {e}
    BY DEF ResolutionInv, Chain
  <2>2. s[i] = stack[i]
    BY <1>1
  <2>3. s[i + 1].selected = stack[i + 1].selected
    <3>1. CASE i + 1 = n
      BY <1>1, <3>1, TakeFacts DEF Top
    <3>2. CASE i + 1 # n
      BY <1>1, <3>2
    <3> QED BY <3>1, <3>2
  <2> QED BY <2>1, <2>2, <2>3
<1>5. \A i \in 1..n : s[i].selected = stack[i].selected
  <2> SUFFICES ASSUME NEW i \in 1..n PROVE s[i].selected = stack[i].selected
    OBVIOUS
  <2>1. CASE i = n
    BY <1>1, <2>1, TakeFacts DEF Top
  <2>2. CASE i # n
    BY <1>1, <2>2
  <2> QED BY <2>1, <2>2
<1>6. \A i, j \in 1..n : i <= j => s[i].selected \subseteq s[j].selected
  BY <1>5 DEF ResolutionInv, Chain
<1> QED BY <1>1, <1>2, <1>3, <1>4, <1>6 DEF Chain

LEMMA SkipKeeps ==
  ASSUME ResolutionInv, NEW d, Skip(d)
  PROVE  Chain(catalog, roots, stack') /\ Outcome(catalog, roots, stack', answer', lock')
<1>1. Takes(d) /\ stack' = Without(d) /\ answer' = "Searching"
  BY DEF Skip, Takes
<1>2. Len(Without(d)) = Len(stack) /\ Without(d) # <<>> /\ Without(d)[Len(stack)] = Taken(Top, d)
  BY <1>1, TakeFacts, WithoutType DEF ResolutionInv
<1>3. Conflict(Collected(roots, Top.selected \cup {d}), Top.selected \cup {d})
  <2>1. Top.constraints \cup d.dependencies = Collected(roots, Top.selected \cup {d})
    BY <1>1, TakeFacts DEF FrameOK, Partial, Collected
  <2> QED BY <2>1 DEF Skip, WithConstraints, WithSelected
<1>4. Exhausted(catalog, roots, Top.selected \cup {d})
  BY <1>3, ConflictExhausts
<1>5. Between(catalog, roots, Taken(Top, d))
  BY <1>1, <1>4, TakeFacts, ChosenExhausted
<1> QED BY <1>1, <1>2, <1>5, ChainTaken DEF Outcome

LEMMA AcceptKeeps ==
  ASSUME ResolutionInv, NEW d, Accept(d)
  PROVE  Chain(catalog, roots, stack') /\ Outcome(catalog, roots, stack', answer', lock')
<1> DEFINE S == Top.selected \cup {d}
<1>1. Takes(d) /\ stack' = Without(d) /\ answer' = "Locked" /\ lock' = {Locked(r) : r \in S}
  BY DEF Accept, WithSelected
<1>2. Len(Without(d)) = Len(stack) /\ Without(d) # <<>> /\ Without(d)[Len(stack)] = Taken(Top, d)
  BY <1>1, TakeFacts, WithoutType DEF ResolutionInv
<1>3. /\ Top.constraints \cup d.dependencies = Collected(roots, S)
      /\ Partial(roots, Collected(roots, S), S)
  <2>1. ~Conflict(Top.constraints \cup d.dependencies, Top.selected \cup {d})
    BY DEF Accept, WithConstraints, WithSelected
  <2>2. FrameOK(catalog, roots, Top) /\ d \in Candidates(catalog, Top)
    BY <1>1, TakeFacts
  <2>3. /\ Top.constraints \cup d.dependencies = Collected(roots, S)
        /\ Partial(roots, Top.constraints \cup d.dependencies, S)
    BY <2>1, <2>2, PartialGrows
  <2> QED BY <2>3
<1>4. Complete(Collected(roots, S), S)
  BY <1>3 DEF Accept, WithConstraints, WithSelected
<1>5. d \in catalog /\ Chosen(catalog, roots, Taken(Top, d), d) /\ Taken(Top, d).selected = Top.selected
  BY <1>1, TakeFacts
<1>6. Outcome(catalog, roots, stack', answer', lock')
  BY <1>1, <1>2, <1>3, <1>4, <1>5 DEF Outcome
<1> QED BY <1>1, <1>6, ChainTaken

LEMMA DescendKeeps ==
  ASSUME ResolutionInv, NEW d, Descend(d)
  PROVE  Chain(catalog, roots, stack') /\ Outcome(catalog, roots, stack', answer', lock')
<1> DEFINE S == Top.selected \cup {d}
           C == Top.constraints \cup d.dependencies
           m == Len(stack)
<1>1. Takes(d) /\ answer' = "Searching" /\ ~Conflict(C, S)
  BY DEF Descend, Takes, WithConstraints, WithSelected
<1>2. PICK n \in Names :
        /\ n \in NamesOf(C) \ NamesOf(S)
        /\ stack' = Append(Without(d), Frame(C, S, n))
  BY DEF Descend, Least, WithConstraints, WithSelected
<1>3. /\ Without(d) \in Seq(Frames(catalog))
      /\ Len(Without(d)) = m /\ m \in Nat \ {0}
      /\ Without(d)[m] = Taken(Top, d)
  BY <1>1, TakeFacts, WithoutType DEF ResolutionInv
<1>4. d \in catalog /\ S \in SUBSET catalog /\ C \in SUBSET Requirement
  <2>1. d \in catalog /\ Top \in Frames(catalog)
    BY <1>1, TakeFacts
  <2>2. d.dependencies \in SUBSET Requirement
    BY <2>1, ReleaseType DEF ResolutionInv
  <2> QED BY <2>1, <2>2 DEF Frames
<1>5. Partial(roots, C, S)
  BY <1>1, TakeFacts, PartialGrows
<1> DEFINE g == Frame(C, S, n)
<1>6. /\ g \in Frames(catalog) /\ g.selected = S
      /\ FrameOK(catalog, roots, g) /\ Between(catalog, roots, g)
  <2> HIDE DEF S, C
  <2>1. n \in NamesOf(C) /\ n \notin NamesOf(S)
    BY <1>2
  <2> QED BY <1>4, <1>5, <2>1, FrameOfCall
<1>7. Len(stack') = m + 1 /\ stack' # <<>> /\ stack'[m + 1] = g
  BY <1>2, <1>3, <1>6, AppendProperties
<1>8. Chain(catalog, roots, Without(d)) /\ Without(d) # <<>>
  BY <1>1, <1>3, ChainTaken
<1>9. Chain(catalog, roots, stack')
  <2>1. Chosen(catalog, roots, Taken(Top, d), d) /\ Taken(Top, d).selected = Top.selected
    BY <1>1, TakeFacts
  <2>2. Without(d)[Len(Without(d))] = Taken(Top, d)
    BY <1>3
  <2> HIDE DEF g
  <2> QED BY <1>2, <1>3, <1>4, <1>6, <1>8, <2>1, <2>2, ChainGrows DEF g
<1>10. Outcome(catalog, roots, stack', answer', lock')
  <2> HIDE DEF g
  <2> QED BY <1>1, <1>3, <1>6, <1>7 DEF Outcome
<1> QED BY <1>9, <1>10

LEMMA BacktrackKeeps ==
  ASSUME ResolutionInv, Backtrack
  PROVE  Chain(catalog, roots, stack') /\ Outcome(catalog, roots, stack', answer', lock')
<1> DEFINE m == Len(stack)
<1>1. /\ stack \in Seq(Frames(catalog)) /\ stack # <<>> /\ m \in Nat \ {0}
      /\ stack' = SubSeq(stack, 1, m - 1)
      /\ Top.rest = {} /\ answer = "Searching"
  BY FramesType DEF Backtrack, ResolutionInv
<1>3. Chain(catalog, roots, stack)
  BY DEF ResolutionInv
<1>2. Len(stack') = m - 1 /\ \A i \in 1..m - 1 : stack'[i] = stack[i]
  BY <1>1, <1>3, ChainFront
<1>4. Chain(catalog, roots, stack')
  BY <1>1, <1>3, ChainFront
<1>5. Exhausted(catalog, roots, Top.selected)
  <2>1. FrameOK(catalog, roots, Top)
    BY <1>1, <1>3 DEF Chain, Top
  <2>2. Between(catalog, roots, Top)
    BY <1>1 DEF ResolutionInv, Outcome, Top
  <2> QED BY <1>1, <2>1, <2>2, FrameExhausts
<1>6. CASE m = 1
  <2>1. Top.selected = {}
    BY <1>1, <1>3, <1>6 DEF Chain, Top
  <2>2. stack' = <<>> /\ answer' = "Unsatisfied"
    BY <1>1, <1>6, SubSeqEmpty DEF Backtrack
  <2>3. Outcome(catalog, roots, stack', answer', lock')
    BY <1>5, <2>1, <2>2 DEF Outcome
  <2> QED BY <1>4, <2>3
<1>7. CASE m # 1
  <2>1. m - 1 \in 1..m - 1 /\ stack' # <<>> /\ stack'[Len(stack')] = stack[m - 1]
    <3>1. m - 1 \in 1..m - 1 /\ Len(stack') # 0
      BY <1>1, <1>2, <1>7
    <3>2. stack' # <<>>
      BY <3>1, EmptySeq
    <3> QED BY <1>2, <3>1, <3>2
  <2>2. PICK e \in catalog : /\ Chosen(catalog, roots, stack[m - 1], e)
                            /\ Top.selected = stack[m - 1].selected \cup {e}
    <3>1. (m - 1) + 1 = m
      BY <1>1
    <3> QED BY <1>3, <2>1, <3>1 DEF Chain, Top
  <2>3. Between(catalog, roots, stack[m - 1])
    BY <1>5, <2>2, ChosenExhausted
  <2>4. answer' = "Searching"
    BY <1>1, <1>7 DEF Backtrack
  <2>5. Outcome(catalog, roots, stack', answer', lock')
    BY <2>1, <2>3, <2>4 DEF Outcome
  <2> QED BY <1>4, <2>5
<1> QED BY <1>6, <1>7

-----------------------------------------------------------------------------
(* The invariant over the steps of a search. *)
LEMMA SearchKeepsInv == ResolutionInv /\ Search => ResolutionInv'
<1> SUFFICES ASSUME ResolutionInv, Search PROVE ResolutionInv'
  OBVIOUS
<1>1. ResolutionTypeOK'
  BY SearchTypes DEF ResolutionInv
<1>2. UNCHANGED <<catalog, roots>>
  BY DEF Search, Skip, Accept, Descend, Backtrack
<1>3. Chain(catalog, roots, stack') /\ Outcome(catalog, roots, stack', answer', lock')
  BY SkipKeeps, AcceptKeeps, DescendKeeps, BacktrackKeeps DEF Search
<1> QED BY <1>1, <1>2, <1>3 DEF ResolutionInv

(* No frames, no claims. *)
LEMMA EmptyChain ==
  ASSUME NEW c, NEW list
  PROVE  /\ Chain(c, list, <<>>)
         /\ \A a, l : a \notin {"Searching", "Locked", "Unsatisfied"} => Outcome(c, list, <<>>, a, l)
BY DEF Chain, Outcome

(* A resolve call begins with the roots alone. *)
LEMMA RootFrame ==
  ASSUME NEW list \in RootLists, NEW n \in Names, n \in NamesOf(Constraints(list))
  PROVE  LET g == Frame(Constraints(list), {}, n)
         IN  /\ g \in Frames(catalog)
             /\ Chain(catalog, list, <<g>>)
             /\ \A l : Outcome(catalog, list, <<g>>, "Searching", l)
<1> DEFINE g == Frame(Constraints(list), {}, n)
<1>1. Constraints(list) \in SUBSET Requirement
  <2>1. list \in Seq(Requirement)
    BY ResolutionAssumption
  <2>2. \A i \in DOMAIN list : list[i] \in Requirement
    BY <2>1
  <2> QED BY <2>2 DEF Constraints
<1>2. Partial(list, Constraints(list), {})
  BY DEF Partial, OnePerName, Collected, Conflict, NamesOf, Grounded
<1>3. g \in Frames(catalog) /\ g.selected = {} /\ FrameOK(catalog, list, g) /\ Between(catalog, list, g)
  BY <1>1, <1>2, FrameOfCall DEF NamesOf
<1> HIDE DEF g
<1>4. Len(<<g>>) = 1 /\ <<g>>[1] = g /\ <<g>> # <<>>
  OBVIOUS
<1>5. Chain(catalog, list, <<g>>)
  <2>1. \A i \in 1..Len(<<g>>) : i = 1
    BY <1>4
  <2>2. \A i \in 1..Len(<<g>>) - 1 : FALSE
    BY <1>4
  <2>3. \A i \in 1..Len(<<g>>) : FrameOK(catalog, list, <<g>>[i])
    BY <1>3, <1>4, <2>1
  <2>4. \A i, j \in 1..Len(<<g>>) : <<g>>[i].selected \subseteq <<g>>[j].selected
    BY <2>1
  <2> QED BY <1>3, <1>4, <2>2, <2>3, <2>4 DEF Chain
<1>6. \A l : Outcome(catalog, list, <<g>>, "Searching", l)
  BY <1>3, <1>4 DEF Outcome
<1> QED BY <1>3, <1>5, <1>6 DEF g

LEMMA CallKeepsInv == ResolutionInv /\ Call => ResolutionInv'
<1> SUFFICES ASSUME ResolutionInv, Call PROVE ResolutionInv'
  OBVIOUS
<1> USE DEF Begin
<1>1. ASSUME NEW list \in RootLists, ResolveRefused(list) PROVE ResolutionInv'
  <2>1. ResolutionTypeOK'
    BY <1>1, ResolutionAssumption, EmptySeq DEF ResolveRefused, ResolutionInv, ResolutionTypeOK, Answers
  <2> QED BY <1>1, <2>1, EmptyChain DEF ResolveRefused, ResolutionInv
<1>2. ASSUME NEW list \in RootLists, ResolveNothing(list) PROVE ResolutionInv'
  <2>1. ResolutionTypeOK'
    BY <1>2, ResolutionAssumption, EmptySeq DEF ResolveNothing, ResolutionInv, ResolutionTypeOK, Answers
  <2>2. Outcome(catalog, <<>>, <<>>, "Locked", {})
    BY DEF Outcome
  <2> QED BY <1>2, <2>1, <2>2, EmptyChain DEF ResolveNothing, ResolutionInv
<1>3. ASSUME NEW list \in RootLists, Resolve(list) PROVE ResolutionInv'
  <2>1. PICK n \in Names : /\ n \in NamesOf(Constraints(list))
                          /\ stack' = <<Frame(Constraints(list), {}, n)>>
    BY <1>3 DEF Resolve, Least
  <2>2. stack' \in Seq(Frames(catalog)) /\ Chain(catalog, list, stack') /\ Outcome(catalog, list, stack', "Searching", lock)
    <3> DEFINE g == Frame(Constraints(list), {}, n)
    <3>1. g \in Frames(catalog) /\ Chain(catalog, list, <<g>>) /\ Outcome(catalog, list, <<g>>, "Searching", lock)
      BY <2>1, RootFrame
    <3> HIDE DEF g
    <3>2. <<g>> \in Seq(Frames(catalog))
      BY <3>1
    <3> QED BY <2>1, <3>1, <3>2 DEF g
  <2>3. roots' = list /\ answer' = "Searching" /\ loaded' = {} /\ UNCHANGED <<catalog, stored, edits, lock>>
    BY <1>3 DEF Resolve
  <2>4. roots' \in Seq(Requirement) /\ answer' \in Answers
    BY <2>3, ResolutionAssumption DEF Answers
  <2>5. ResolutionTypeOK'
    BY <2>2, <2>3, <2>4 DEF ResolutionInv, ResolutionTypeOK, Frames
  <2> QED BY <2>2, <2>3, <2>5 DEF ResolutionInv
<1>4. ASSUME LoadVerifiedLock PROVE ResolutionInv'
  <2>1. loaded' \subseteq Names \X Versions \X Digests
    BY <1>4 DEF LoadVerifiedLock, ResolutionInv, ResolutionTypeOK
  <2> QED BY <1>4, <2>1 DEF LoadVerifiedLock, ResolutionInv, ResolutionTypeOK
<1>5. ASSUME LoadRefused PROVE ResolutionInv'
  BY <1>5 DEF LoadRefused, ResolutionInv, ResolutionTypeOK
<1> QED BY <1>1, <1>2, <1>3, <1>4, <1>5 DEF Call

LEMMA ChangeKeepsInv == ResolutionInv /\ Change => ResolutionInv'
<1> SUFFICES ASSUME ResolutionInv, Change PROVE ResolutionInv'
  OBVIOUS
<1> DEFINE P == Names \X Versions \X Digests
           L == [name : Names, version : Versions, source : Sources, digest : Digests]
<1>0. Edit
  BY DEF Change, Publish, Withdraw, Lose, DropLocked, Relock
<1>1. stack' = <<>> /\ answer' = "None" /\ loaded' = {} /\ roots' = roots /\ edits' \in 0..MaxEdits
  BY <1>0, ResolutionAssumption DEF Edit, ResolutionInv, ResolutionTypeOK
<1>2. ASSUME NEW r \in Releases
      PROVE  Path(r) \in P /\ r \in Release
  BY ResolutionAssumption DEF Release, Path
<1>3. catalog' \subseteq Releases /\ stored' \subseteq P /\ lock' \subseteq L
  <2>1. CASE \E r \in Releases : Publish(r)
    BY <1>2, <2>1 DEF Publish, ResolutionInv, ResolutionTypeOK
  <2>2. CASE \E r \in Releases : Withdraw(r)
    BY <2>2 DEF Withdraw, ResolutionInv, ResolutionTypeOK
  <2>3. CASE \E a \in stored : Lose(a)
    BY <2>3 DEF Lose, ResolutionInv, ResolutionTypeOK
  <2>4. CASE \E p \in lock : DropLocked(p)
    BY <2>4 DEF DropLocked, ResolutionInv, ResolutionTypeOK
  <2>5. CASE \E p \in lock : \E r, s \in Releases : Relock(p, r, s)
    <3>1. PICK p \in lock, r \in Releases, s \in Releases : Relock(p, r, s)
      BY <2>5
    <3>2. [name |-> r.name, version |-> r.version, source |-> r.source, digest |-> s.digest] \in L
      <4>1. r \in Release /\ s \in Release
        BY <1>2
      <4> QED BY <4>1 DEF Release
    <3> QED BY <3>1, <3>2 DEF Relock, ResolutionInv, ResolutionTypeOK
  <2> QED BY <2>1, <2>2, <2>3, <2>4, <2>5 DEF Change
<1>4. ResolutionTypeOK'
  <2>1. answer' \in Answers /\ roots' \in Seq(Requirement)
    BY <1>1 DEF Answers, ResolutionInv, ResolutionTypeOK
  <2>2. stack' \in Seq([constraints : SUBSET Requirement, selected : SUBSET catalog',
                       name : Names, rest : SUBSET catalog'])
    BY <1>1, EmptySeq
  <2> QED BY <1>1, <1>3, <2>1, <2>2 DEF ResolutionTypeOK
<1> QED BY <1>1, <1>4, EmptyChain DEF ResolutionInv

LEMMA ResolutionInvariant == Spec => []ResolutionInv
<1>1. Init => ResolutionInv
  <2> SUFFICES ASSUME Init PROVE ResolutionInv
    OBVIOUS
  <2>1. stack = <<>> /\ answer = "None"
    BY DEF Init
  <2> QED BY <2>1, TypeInit, EmptyChain DEF ResolutionInv
<1>2. ResolutionInv /\ [Next]_resolutionVars => ResolutionInv'
  <2>1. ResolutionInv /\ UNCHANGED resolutionVars => ResolutionInv'
    BY DEF resolutionVars, ResolutionInv, ResolutionTypeOK
  <2> QED BY <2>1, SearchKeepsInv, CallKeepsInv, ChangeKeepsInv DEF Next
<1> QED BY <1>1, <1>2, PTL DEF Spec

-----------------------------------------------------------------------------
(* The resolver's stack, answers and locks stay well-formed, and its frames  *)
(* hold releases of the catalog it was called on.                            *)
THEOREM ResolutionTypeCorrect == Spec => []ResolutionTypeOK
<1>1. ResolutionInv => ResolutionTypeOK
  BY DEF ResolutionInv
<1> QED BY <1>1, ResolutionInvariant, PTL

(* resolve is sound: what it locks is one release per name that meets the    *)
(* roots and each other's requirements, and nothing nobody asked for.        *)
THEOREM ResolvedLocksAreConsistent == Spec => []LockIsConsistent
<1>1. ResolutionInv => LockIsConsistent
  <2> SUFFICES ASSUME ResolutionInv, answer = "Locked"
               PROVE  \E S \in SUBSET catalog :
                        /\ lock = {Locked(r) : r \in S}
                        /\ Consistent(roots, S)
                        /\ \A N \in SUBSET NamesOf(S) :
                             /\ NamesOf(Constraints(roots)) \subseteq N
                             /\ \A r \in S : r.name \in N => NamesOf(r.dependencies) \subseteq N
                             => N = NamesOf(S)
    BY DEF LockIsConsistent
  <2>1. CASE stack = <<>>
    <3>1. roots = <<>> /\ lock = {}
      BY <2>1 DEF ResolutionInv, Outcome
    <3>2. Constraints(roots) = {}
      BY <3>1 DEF Constraints
    <3> WITNESS {} \in SUBSET catalog
    <3> QED BY <3>1, <3>2 DEF Consistent, NamesOf
  <2>2. CASE stack # <<>>
    <3>1. PICK d \in catalog :
             LET S == Top.selected \cup {d}
             IN  /\ Partial(roots, Collected(roots, S), S)
                 /\ Complete(Collected(roots, S), S)
                 /\ lock = {Locked(r) : r \in S}
      BY <2>2 DEF ResolutionInv, Outcome, Top
    <3> DEFINE S == Top.selected \cup {d}
    <3>2. S \in SUBSET catalog
      BY <2>2, FramesType DEF ResolutionInv, Frames
    <3>3. \A q \in Collected(roots, S) : \E r \in S : Matches(r, q)
      BY <3>1 DEF Partial, Complete, Conflict, NamesOf
    <3>4. Consistent(roots, S)
      BY <3>1, <3>3 DEF Consistent, Partial, OnePerName, Collected
    <3> WITNESS S \in SUBSET catalog
    <3> QED BY <3>1, <3>4 DEF Partial, Grounded
  <2> QED BY <2>1, <2>2
<1> QED BY <1>1, ResolutionInvariant, PTL

(* resolve is complete: it answers "unsatisfied" only when no selection from *)
(* the catalog is consistent with the roots.                                 *)
THEOREM SearchMissesNothing == Spec => []SearchIsComplete
<1>1. ResolutionInv => SearchIsComplete
  BY DEF ResolutionInv, Outcome, SearchIsComplete, Selections, Exhausted
<1> QED BY <1>1, ResolutionInvariant, PTL

(* No choice can be raised: a higher version at any step of the search is in *)
(* no consistent selection that keeps the choices made before it.            *)
THEOREM ChoicesAreHighest == Spec => []HighestCompatible
<1>1. ResolutionInv => HighestCompatible
  <2> SUFFICES ASSUME ResolutionInv, answer = "Locked", NEW i \in DOMAIN stack,
                      NEW e \in catalog, NEW r \in catalog,
                      e.name = stack[i].name, Locked(e) \in lock,
                      r.name = stack[i].name, r.version > e.version,
                      NEW T \in SUBSET catalog, Consistent(roots, T),
                      stack[i].selected \cup {r} \subseteq T
               PROVE  FALSE
    BY DEF HighestCompatible, Selections
  <2>1. /\ stack \in Seq(Frames(catalog)) /\ Len(stack) \in Nat \ {0} /\ stack # <<>>
        /\ i \in 1..Len(stack) /\ stack[i] \in Frames(catalog)
    BY FramesType, EmptySeq DEF ResolutionInv
  <2>2. FrameOK(catalog, roots, stack[i])
    BY <2>1 DEF ResolutionInv, Chain
  <2>3. r \in Candidates(catalog, stack[i])
    <3>1. PICK t \in Candidates(catalog, stack[i]) : t \in T
      BY <2>2, CandidateInside
    <3>2. t.name = r.name
      BY <3>1 DEF Candidates
    <3> QED BY <3>1, <3>2 DEF Consistent
  <2>4. PICK d \in catalog, s \in catalog :
          /\ Chosen(catalog, roots, stack[i], d)
          /\ s.name = e.name /\ s.version = e.version
          /\ d.name = s.name => d = s
    <3>1. PICK b \in catalog :
             /\ Chosen(catalog, roots, Top, b)
             /\ Partial(roots, Collected(roots, Top.selected \cup {b}), Top.selected \cup {b})
             /\ lock = {Locked(t) : t \in Top.selected \cup {b}}
      BY <2>1 DEF ResolutionInv, Outcome, Top
    <3> DEFINE S == Top.selected \cup {b}
    <3>2. PICK s \in S : Locked(s) = Locked(e)
      BY <3>1
    <3>3. s.name = e.name /\ s.version = e.version
      BY <3>2 DEF Locked
    <3>4. S \subseteq catalog
      BY <2>1, FramesType DEF ResolutionInv, Frames
    <3>5. \E d \in S : Chosen(catalog, roots, stack[i], d)
      <4>1. CASE i = Len(stack)
        BY <3>1, <4>1 DEF Top
      <4>2. CASE i # Len(stack)
        <5>1. i \in 1..Len(stack) - 1 /\ i + 1 \in 1..Len(stack) /\ i + 1 <= Len(stack)
              /\ Len(stack) \in 1..Len(stack)
          BY <2>1, <4>2
        <5>2. PICK d \in catalog : /\ Chosen(catalog, roots, stack[i], d)
                                  /\ stack[i + 1].selected = stack[i].selected \cup {d}
          BY <5>1 DEF ResolutionInv, Chain
        <5>3. stack[i + 1].selected \subseteq Top.selected
          BY <5>1 DEF ResolutionInv, Chain, Top
        <5> QED BY <5>2, <5>3
      <4> QED BY <4>1, <4>2
    <3>6. OnePerName(S)
      BY <3>1 DEF Partial
    <3> QED BY <3>2, <3>3, <3>4, <3>5, <3>6 DEF OnePerName
  <2>5. d = s /\ d.version = e.version
    BY <2>4 DEF Chosen, Candidates
  <2>6. r.version \in Nat /\ d.version \in Nat
    BY ReleaseType, ResolutionAssumption DEF ResolutionInv, Release
  <2>7. r # d /\ Preferred(r, d)
    BY <2>5, <2>6 DEF Preferred
  <2>8. Exhausted(catalog, roots, stack[i].selected \cup {r})
    BY <2>3, <2>4, <2>7 DEF Chosen
  <2> QED BY <2>8 DEF Exhausted
<1> QED BY <1>1, ResolutionInvariant, PTL

\* resolve is right: what it locks is consistent, without anything superfluous,
\* and its choices are the highest (`resolve`).
THEOREM ResolvedLocksAreRight == Spec => []LockIsRight
BY ResolvedLocksAreConsistent, ChoicesAreHighest, PTL DEF LockIsRight

(* Whatever happens to the catalog, the store and the lockfile between two   *)
(* calls, what a load returns is one artifact per name with its dependencies *)
(* among the others.                                                         *)
THEOREM LoadsAreClosed == Spec => []LoadedIsClosed
<1>1. Init => LoadedIsClosed
  BY DEF Init, LoadedIsClosed
<1>2. LoadedIsClosed /\ [Next]_resolutionVars => LoadedIsClosed'
  <2> SUFFICES ASSUME LoadedIsClosed, [Next]_resolutionVars PROVE LoadedIsClosed'
    OBVIOUS
  <2>1. CASE LoadVerifiedLock
    <3>1. loaded' = {Path(p) : p \in lock} /\ catalog' = catalog /\ VerifiedLock
      BY <2>1 DEF LoadVerifiedLock
    <3>2. ASSUME NEW p \in lock, NEW q \in lock, Path(p)[1] = Path(q)[1] PROVE Path(p) = Path(q)
      BY <3>1, <3>2 DEF VerifiedLock, Path
    <3>3. ASSUME NEW p \in lock
          PROVE  \E r \in catalog :
                   /\ Path(r) = Path(p)
                   /\ \A q \in r.dependencies :
                        \E b \in loaded' : b[1] = q.name /\ b[2] \in q.version
      <4>1. PICK r \in catalog : /\ Coordinate(r) = Coordinate(p) /\ r.digest = p.digest
                                /\ \A q \in r.dependencies : \E s \in lock : Matches(s, q)
        BY <3>1 DEF VerifiedLock
      <4>2. Path(r) = Path(p)
        BY <4>1 DEF Coordinate, Path
      <4>3. \A s \in lock : \A q : Matches(s, q) => Path(s)[1] = q.name /\ Path(s)[2] \in q.version
        BY DEF Matches, Path
      <4> QED BY <3>1, <4>1, <4>2, <4>3
    <3> QED BY <3>1, <3>2, <3>3 DEF LoadedIsClosed
  <2>2. CASE loaded' = {}
    BY <2>2 DEF LoadedIsClosed
  <2>3. CASE UNCHANGED <<catalog, loaded>>
    BY <2>3 DEF LoadedIsClosed
  <2>4. LoadVerifiedLock \/ loaded' = {} \/ UNCHANGED <<catalog, loaded>>
    <3>1. Search => UNCHANGED <<catalog, loaded>>
      BY DEF Search, Skip, Accept, Descend, Backtrack
    <3>2. Call => LoadVerifiedLock \/ loaded' = {}
      BY DEF Call, ResolveRefused, ResolveNothing, Resolve, Begin, LoadRefused
    <3>3. Change => loaded' = {}
      BY DEF Change, Publish, Withdraw, Lose, DropLocked, Relock, Edit
    <3> QED BY <3>1, <3>2, <3>3 DEF Next, resolutionVars
  <2> QED BY <2>1, <2>2, <2>3, <2>4
<1> QED BY <1>1, <1>2, PTL DEF Spec

-----------------------------------------------------------------------------
(* The store                                                               *)

(* A process that is about to remove a file still finds it: with OneWriter  *)
(* this says that no path a process works on is free for another to create. *)
RemoverFindsFile == \A p \in Processes : step[p] = "remove" => files[holding[p]] # Absent

(* The inductive invariant: OneWriter alone does not exclude a creation     *)
(* while a failed publisher is on its way to the removal.                   *)
StoreInv == StoreTypeOK /\ OneWriter /\ RemoverFindsFile

LEMMA InitEstablishesStoreInv == StoreInit => StoreInv
  BY StoreAssumption
  DEF StoreInit, StoreInv, StoreTypeOK, OneWriter, RemoverFindsFile, Writing, Steps, Results, Absent

(* A step that leaves every file, and takes one process to a place where it *)
(* does not write: idle, before a creation, a comparison or a read.         *)
LEMMA ReadingPreservesStoreInv ==
  ASSUME StoreInv, NEW p \in Processes,
         files' = files, confirmed' \subseteq Artifacts, deaths' \in 0..MaxDeaths,
         NEW a \in Artifacts, holding' = [holding EXCEPT ![p] = a],
         NEW s \in Steps \ {"write", "sync", "remove"}, step' = [step EXCEPT ![p] = s],
         NEW r \in Results, result' = [result EXCEPT ![p] = r]
  PROVE  StoreInv'
<1>1. StoreTypeOK'
  BY DEF StoreInv, StoreTypeOK
<1>2. \A q \in Processes : Writing(q)' => q # p /\ Writing(q) /\ holding'[q] = holding[q]
  BY DEF StoreInv, StoreTypeOK, Writing
<1>3. OneWriter'
  BY <1>2 DEF StoreInv, StoreTypeOK, OneWriter, Writing
<1>4. RemoverFindsFile'
  BY <1>2 DEF StoreInv, StoreTypeOK, RemoverFindsFile, Writing
<1> QED
  BY <1>1, <1>3, <1>4 DEF StoreInv

(* A step of a process on the path it works on: it enters or goes on        *)
(* writing with a file that fits its place, and nobody else writes there.   *)
LEMMA WritingPreservesStoreInv ==
  ASSUME StoreInv, NEW p \in Processes,
         \A q \in Processes \ {p} : Writing(q) => holding[q] # holding[p],
         NEW n \in {Absent} \cup 0..Size, files' = [files EXCEPT ![holding[p]] = n],
         confirmed' \subseteq Artifacts, deaths' = deaths, holding' = holding,
         NEW s \in Steps, step' = [step EXCEPT ![p] = s],
         NEW r \in Results, result' = [result EXCEPT ![p] = r],
         s = "write" => n \in 0..Size - 1,
         s = "sync" => n = WholeFile,
         s = "remove" => n # Absent
  PROVE  StoreInv'
<1>1. StoreTypeOK'
  BY DEF StoreInv, StoreTypeOK
<1>2. \A q \in Processes \ {p} : Writing(q)' => /\ Writing(q)
                                                /\ holding'[q] # holding[p]
                                                /\ files'[holding'[q]] = files[holding[q]]
  BY DEF StoreInv, StoreTypeOK, Writing
<1>3. files'[holding'[p]] = n /\ step'[p] = s
  BY DEF StoreInv, StoreTypeOK
<1>4. \A q \in Processes \ {p} : step'[q] = step[q]
  BY DEF StoreInv, StoreTypeOK
<1>5. OneWriter'
  BY <1>2, <1>3, <1>4 DEF StoreInv, OneWriter, Writing
<1>6. RemoverFindsFile'
  BY <1>2, <1>3, <1>4 DEF StoreInv, RemoverFindsFile, Writing
<1> QED
  BY <1>1, <1>5, <1>6 DEF StoreInv

(* What a process that writes, or that creates, knows of everybody else.    *)
LEMMA SoleWriter ==
  ASSUME StoreInv, NEW p \in Processes,
         Writing(p) \/ files[holding[p]] = Absent
  PROVE  \A q \in Processes \ {p} : Writing(q) => holding[q] # holding[p]
<1>1. \A q \in Processes : Writing(q) => files[holding[q]] # Absent
  BY StoreAssumption
  DEF StoreInv, StoreTypeOK, OneWriter, RemoverFindsFile, Writing, WholeFile, Absent
<1> QED
  BY <1>1 DEF StoreInv, OneWriter

LEMMA NextPreservesStoreInv ==
  ASSUME StoreInv, [StoreNext]_storeVars
  PROVE  StoreInv'
<1>1. CASE UNCHANGED storeVars
  BY <1>1 DEF storeVars, callsAndFiles, StoreInv, StoreTypeOK, OneWriter, RemoverFindsFile,
              Writing
<1>2. CASE StoreNext
  <2> USE StoreAssumption
  <2>1. PICK p \in Processes :
          \/ \E a \in Artifacts : (PublishArtifact(p, a) \/ Load(p, a)) /\ UNCHANGED deaths
          \/ (Proceed(p) \/ Fail(p)) /\ UNCHANGED deaths
          \/ Die(p)
    BY <1>2 DEF StoreNext
  <2>2. holding[p] \in Artifacts /\ step[p] \in Steps /\ result[p] \in Results
        /\ deaths \in 0..MaxDeaths /\ confirmed \subseteq Artifacts
        /\ holding = [holding EXCEPT ![p] = holding[p]]
        /\ result = [result EXCEPT ![p] = result[p]]
        /\ files = [files EXCEPT ![holding[p]] = files[holding[p]]]
        /\ files[holding[p]] \in {Absent} \cup 0..Size
    BY DEF StoreInv, StoreTypeOK
  <2>3. CASE \E a \in Artifacts : (PublishArtifact(p, a) \/ Load(p, a)) /\ UNCHANGED deaths
    <3>1. PICK a \in Artifacts : (PublishArtifact(p, a) \/ Load(p, a)) /\ UNCHANGED deaths
      BY <2>3
    <3>2. PICK s \in {"create", "load"} :
            /\ step' = [step EXCEPT ![p] = s]
            /\ holding' = [holding EXCEPT ![p] = a]
            /\ result' = [result EXCEPT ![p] = "None"]
            /\ UNCHANGED <<files, confirmed, deaths>>
      BY <3>1 DEF PublishArtifact, Load, Start
    <3>3. s \in Steps \ {"write", "sync", "remove"} /\ "None" \in Results
      BY DEF Steps, Results
    <3> QED
      BY <2>2, <3>2, <3>3, ReadingPreservesStoreInv
  <2>4. CASE Open(p) /\ UNCHANGED deaths
    <3>1. CASE files[holding[p]] = Absent
      <4>1. /\ files' = [files EXCEPT ![holding[p]] = 0]
            /\ step' = [step EXCEPT ![p] = "write"]
            /\ UNCHANGED <<holding, confirmed, result, deaths>>
        BY <2>4, <3>1 DEF Open, Write, Goto
      <4>2. \A q \in Processes \ {p} : Writing(q) => holding[q] # holding[p]
        BY <3>1, SoleWriter
      <4>3. 0 \in {Absent} \cup 0..Size /\ 0 \in 0..Size - 1 /\ "write" \in Steps
        BY DEF Steps
      <4>4. /\ confirmed' \subseteq Artifacts /\ deaths' = deaths /\ holding' = holding
            /\ result' = [result EXCEPT ![p] = result[p]]
        BY <2>2, <4>1
      <4>5. ("write" = "sync" => 0 = WholeFile) /\ ("write" = "remove" => 0 # Absent)
        OBVIOUS
      <4> QED
        BY <2>2, <4>1, <4>2, <4>3, <4>4, <4>5, WritingPreservesStoreInv
    <3>2. CASE files[holding[p]] # Absent
      <4>1. /\ step' = [step EXCEPT ![p] = "compare"]
            /\ UNCHANGED <<files, holding, confirmed, result, deaths>>
        BY <2>4, <3>2 DEF Open, Goto
      <4>2. "compare" \in Steps \ {"write", "sync", "remove"}
        BY DEF Steps
      <4> QED
        BY <2>2, <4>1, <4>2, ReadingPreservesStoreInv
    <3> QED
      BY <3>1, <3>2
  <2>5. CASE WriteChunk(p) /\ UNCHANGED deaths
    <3>1. Writing(p) /\ files[holding[p]] \in 0..Size - 1
      BY <2>5 DEF WriteChunk, Writing
    <3>2. PICK s \in {"write", "sync"} :
            /\ s = IF files[holding[p]] + 1 = WholeFile THEN "sync" ELSE "write"
            /\ files' = [files EXCEPT ![holding[p]] = files[holding[p]] + 1]
            /\ step' = [step EXCEPT ![p] = s]
            /\ UNCHANGED <<holding, confirmed, result, deaths>>
      BY <2>5 DEF WriteChunk, Write, Goto
    <3>3. \A q \in Processes \ {p} : Writing(q) => holding[q] # holding[p]
      BY <3>1, SoleWriter
    <3>4. /\ files[holding[p]] + 1 \in 0..Size
          /\ s = "write" => files[holding[p]] + 1 \in 0..Size - 1
          /\ s = "sync" => files[holding[p]] + 1 = WholeFile
          /\ s # "remove" /\ s \in Steps
      BY <3>1, <3>2 DEF WholeFile, Steps
    <3> QED
      BY <2>2, <3>2, <3>3, <3>4, WritingPreservesStoreInv
  <2>6. CASE Sync(p) /\ UNCHANGED deaths
    <3>1. /\ step' = [step EXCEPT ![p] = "idle"]
          /\ result' = [result EXCEPT ![p] = "Created"]
          /\ confirmed' = confirmed \cup {holding[p]}
          /\ UNCHANGED <<files, holding, deaths>>
      BY <2>6 DEF Sync, Return
    <3>2. "idle" \in Steps \ {"write", "sync", "remove"} /\ "Created" \in Results
      BY DEF Steps, Results
    <3> QED
      BY <2>2, <3>1, <3>2, ReadingPreservesStoreInv
  <2>7. CASE RemovePartial(p) /\ UNCHANGED deaths
    <3>1. Writing(p)
      BY <2>7 DEF RemovePartial, Writing
    <3>2. PICK n \in {Absent, files[holding[p]]} :
            /\ files' = [files EXCEPT ![holding[p]] = n]
            /\ step' = [step EXCEPT ![p] = "idle"]
            /\ result' = [result EXCEPT ![p] = "Io"]
            /\ UNCHANGED <<holding, confirmed, deaths>>
      BY <2>2, <2>7 DEF RemovePartial, Write, Return
    <3>3. \A q \in Processes \ {p} : Writing(q) => holding[q] # holding[p]
      BY <3>1, SoleWriter
    <3>4. "idle" \in Steps /\ "Io" \in Results /\ n \in {Absent} \cup 0..Size
      BY <2>2 DEF Steps, Results
    <3> QED
      BY <2>2, <3>2, <3>3, <3>4, WritingPreservesStoreInv
  <2>8. CASE Compare(p) /\ UNCHANGED deaths
    <3>1. PICK r \in {"Existing", "DigestCollision", "Io"} :
            /\ step' = [step EXCEPT ![p] = "idle"]
            /\ result' = [result EXCEPT ![p] = r]
            /\ UNCHANGED <<files, holding, deaths>>
      BY <2>8 DEF Compare, Return
    <3>2. confirmed' \subseteq Artifacts
      BY <2>2, <2>8 DEF Compare
    <3>3. "idle" \in Steps \ {"write", "sync", "remove"} /\ r \in Results
      BY DEF Steps, Results
    <3> QED
      BY <2>2, <3>1, <3>2, <3>3, ReadingPreservesStoreInv
  <2>9. CASE Read(p) /\ UNCHANGED deaths
    <3>1. PICK r \in {"Loaded", "DigestMismatch", "Io"} :
            /\ step' = [step EXCEPT ![p] = "idle"]
            /\ result' = [result EXCEPT ![p] = r]
            /\ UNCHANGED <<files, holding, confirmed, deaths>>
      BY <2>9 DEF Read, Return
    <3>2. "idle" \in Steps \ {"write", "sync", "remove"} /\ r \in Results
      BY DEF Steps, Results
    <3> QED
      BY <2>2, <3>1, <3>2, ReadingPreservesStoreInv
  <2>10. CASE Fail(p) /\ UNCHANGED deaths
    <3>1. Writing(p) /\ step[p] \in {"write", "sync"}
      BY <2>10 DEF Fail, Writing
    <3>2. /\ step' = [step EXCEPT ![p] = "remove"]
          /\ UNCHANGED <<files, holding, confirmed, result, deaths>>
      BY <2>10 DEF Fail, Goto
    <3>3. \A q \in Processes \ {p} : Writing(q) => holding[q] # holding[p]
      BY <3>1, SoleWriter
    <3>4. files[holding[p]] # Absent /\ "remove" \in Steps
      BY <3>1 DEF StoreInv, OneWriter, WholeFile, Absent, Steps
    <3>5. /\ files' = [files EXCEPT ![holding[p]] = files[holding[p]]]
          /\ result' = [result EXCEPT ![p] = result[p]]
          /\ confirmed' \subseteq Artifacts /\ deaths' = deaths /\ holding' = holding
      BY <2>2, <3>2
    <3>6. /\ "remove" = "write" => files[holding[p]] \in 0..Size - 1
          /\ "remove" = "sync" => files[holding[p]] = WholeFile
      OBVIOUS
    <3> QED
      BY <2>2, <3>2, <3>3, <3>4, <3>5, <3>6, WritingPreservesStoreInv
  <2>11. CASE Die(p)
    <3>1. /\ step' = [step EXCEPT ![p] = "idle"]
          /\ result' = [result EXCEPT ![p] = "None"]
          /\ deaths' \in 0..MaxDeaths
          /\ UNCHANGED <<files, holding, confirmed>>
      BY <2>2, <2>11 DEF Die, Return
    <3>2. "idle" \in Steps \ {"write", "sync", "remove"} /\ "None" \in Results
      BY DEF Steps, Results
    <3> QED
      BY <2>2, <3>1, <3>2, ReadingPreservesStoreInv
  <2> QED
    BY <2>1, <2>3, <2>4, <2>5, <2>6, <2>7, <2>8, <2>9, <2>10, <2>11 DEF Proceed
<1> QED
  BY <1>1, <1>2

THEOREM StoreInvariant == StoreSpec => []StoreInv
<1>1. StoreInv /\ [StoreNext]_storeVars => StoreInv'
  BY NextPreservesStoreInv
<1> QED
  BY InitEstablishesStoreInv, <1>1, PTL DEF StoreSpec

(* Files, calls and results stay well-typed: no artifact is ever longer     *)
(* than its own bytes.                                                      *)
THEOREM StoreTypeCorrect == StoreSpec => []StoreTypeOK
<1>1. StoreInv => StoreTypeOK
  BY DEF StoreInv
<1> QED
  BY StoreInvariant, <1>1, PTL

(* However many processes publish the same artifact, one writes its file.   *)
THEOREM StoreHasOneWriter == StoreSpec => []OneWriter
<1>1. StoreInv => OneWriter
  BY DEF StoreInv
<1> QED
  BY StoreInvariant, <1>1, PTL

(* No step of anybody takes away or cuts short a complete file nobody       *)
(* writes: files change by a creation where there is none, or by a writer.  *)
LEMMA StepKeepsCreated ==
  ASSUME StoreInv, StoreNext, NEW a \in Artifacts, files[a] = WholeFile,
         ~\E p \in Processes : Writing(p) /\ holding[p] = a
  PROVE  files'[a] = WholeFile
<1>1. PICK p \in Processes :
        \/ files' = files
        \/ \E n \in {Absent} \cup 0..Size :
              /\ files' = [files EXCEPT ![holding[p]] = n]
              /\ Writing(p) \/ files[holding[p]] = Absent
  <2> USE StoreAssumption
  <2>1. PICK p \in Processes :
          \/ files' = files
          \/ Open(p) \/ WriteChunk(p) \/ RemovePartial(p)
    BY DEF StoreNext, PublishArtifact, Load, Start, Proceed, Sync, Compare, Read, Fail, Die
  <2>2. CASE Open(p)
    BY <2>2 DEF Open, Write
  <2>3. CASE WriteChunk(p)
    <3>1. Writing(p) /\ files[holding[p]] + 1 \in 0..Size
          /\ files' = [files EXCEPT ![holding[p]] = files[holding[p]] + 1]
      BY <2>3 DEF WriteChunk, Write, Writing
    <3> QED
      BY <3>1
  <2>4. CASE RemovePartial(p)
    BY <2>4 DEF RemovePartial, Write, Writing
  <2> QED
    BY <2>1, <2>2, <2>3, <2>4
<1>2. CASE files' = files
  BY <1>2
<1>3. CASE holding[p] # a
  BY <1>1, <1>3 DEF StoreInv, StoreTypeOK
<1>4. CASE holding[p] = a
  BY <1>1, <1>4, StoreAssumption DEF WholeFile, Absent
<1> QED
  BY <1>2, <1>3, <1>4

(* A complete file its creator is done with is there for good.              *)
THEOREM CreatedFilesStay == StoreSpec => CreatedIsForever
<1>1. StoreInv /\ [StoreNext]_storeVars =>
        [\A a \in Artifacts :
           (files[a] = WholeFile /\ ~\E p \in Processes : Writing(p) /\ holding[p] = a)
             => files'[a] = WholeFile]_storeVars
  BY StepKeepsCreated
<1> QED
  BY StoreInvariant, <1>1, PTL DEF StoreSpec, CreatedIsForever
=============================================================================
