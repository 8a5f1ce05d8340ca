------------------------- MODULE DesignHistoryProofs -------------------------
(***************************************************************************)
(* Proofs about DesignHistory for every set of well-formed documents and   *)
(* batches and every bound on revisions.                                   *)
(*                                                                         *)
(* One edit, kind by kind of operation: its inverse is accepted on what it *)
(* left and restores the document, order of the lists included, and what   *)
(* it does not conflict with keeps its content.  One batch, by induction   *)
(* over its edits: the same of the generated inverse batch.  Then the      *)
(* invariant: the stacks walk the line of contents, the log covers every   *)
(* step of it.                                                             *)
(***************************************************************************)
EXTENDS DesignHistory, FoldFacts

-----------------------------------------------------------------------------
(* Lemmas on natural numbers and sequences.                                *)

(* A list as the sequence of its own elements.                              *)
LEMMA SequenceFacts ==
  ASSUME NEW s, IsASequence(s)
  PROVE  /\ Len(s) \in Nat
         /\ DOMAIN s = 1..Len(s)
         /\ s = [i \in 1..Len(s) |-> s[i]]
         /\ \A i \in 1..Len(s) : s[i] \in ToSet(s)
         /\ s = <<>> <=> Len(s) = 0
BY DEF IsASequence, ToSet

(* A function on an interval is a sequence.                                 *)
LEMMA IntervalIsSequence ==
  ASSUME NEW n \in Nat, NEW s, s = [i \in 1..n |-> s[i]]
  PROVE  IsASequence(s) /\ Len(s) = n
BY DEF IsASequence, ToSet

(* Elements before the insertion keep their place, later ones move by one.  *)
LEMMA InsertAtFacts ==
  ASSUME NEW s, IsASequence(s), NEW p \in 1..Len(s) + 1, NEW e
  PROVE  InsertAt(s, p, e) =
           [k \in 1..Len(s) + 1 |-> IF k < p THEN s[k] ELSE IF k = p THEN e ELSE s[k - 1]]
<1> DEFINE S == ToSet(s) \cup {e}
           L == SubSeq(s, 1, p - 1)
           R == SubSeq(s, p, Len(s))
<1>1. Len(s) \in Nat /\ s \in Seq(S) /\ p \in Int /\ \A i \in 1..Len(s) : s[i] \in S
  BY SequenceFacts DEF IsASequence
<1>2. L \in Seq(S) /\ Len(L) = p - 1 /\ \A i \in 1..p - 1 : L[i] = s[i]
  BY <1>1, SubSeqProperties
<1>3. R \in Seq(S) /\ Len(R) = Len(s) - p + 1 /\ \A i \in 1..Len(s) - p + 1 : R[i] = s[p + i - 1]
  BY <1>1, SubSeqProperties
<1>4. <<e>> \in Seq(S) /\ Len(<<e>>) = 1 /\ <<e>>[1] = e
  OBVIOUS
<1> DEFINE LE == L \o <<e>>
<1> HIDE DEF L, R, S
<1>5. LE \in Seq(S) /\ Len(LE) = p /\ \A i \in 1..p : LE[i] = IF i < p THEN s[i] ELSE e
  BY <1>1, <1>2, <1>4, ConcatProperties
<1>6. InsertAt(s, p, e) = LE \o R
  BY DEF InsertAt, L, R
<1> HIDE DEF LE
<1>7. /\ LE \o R \in Seq(S) /\ Len(LE \o R) = Len(LE) + Len(R)
       /\ \A i \in 1..Len(LE) + Len(R) :
            (LE \o R)[i] = IF i <= Len(LE) THEN LE[i] ELSE R[i - Len(LE)]
  BY <1>3, <1>5, ConcatProperties
<1>8. /\ LE \o R \in Seq(S) /\ Len(LE \o R) = Len(s) + 1
      /\ \A i \in 1..Len(s) + 1 : (LE \o R)[i] = IF i <= p THEN LE[i] ELSE R[i - p]
  <2>1. Len(LE) + Len(R) = Len(s) + 1
    BY <1>1, <1>3, <1>5
  <2> QED
    BY <1>5, <1>7, <2>1
<1>9. InsertAt(s, p, e) = [i \in 1..Len(s) + 1 |-> InsertAt(s, p, e)[i]]
  BY <1>1, <1>8, <1>6, LenProperties
<1>10. ASSUME NEW k \in 1..Len(s) + 1
      PROVE  InsertAt(s, p, e)[k] = IF k < p THEN s[k] ELSE IF k = p THEN e ELSE s[k - 1]
  <2>1. k > p => R[k - p] = s[k - 1]
    BY <1>1, <1>3
  <2> QED
    BY <1>1, <1>5, <1>8, <1>6, <2>1
<1> QED
  BY <1>9, <1>10, Zenon

(* Elements before the removed one keep their place, later ones move back   *)
(* by one.                                                                  *)
LEMMA RemoveAtFacts ==
  ASSUME NEW s, IsASequence(s), NEW p \in 1..Len(s)
  PROVE  RemoveAt(s, p) = [k \in 1..Len(s) - 1 |-> IF k < p THEN s[k] ELSE s[k + 1]]
<1> DEFINE S == ToSet(s)
           L == SubSeq(s, 1, p - 1)
           R == SubSeq(s, p + 1, Len(s))
<1>1. Len(s) \in Nat /\ s \in Seq(S) /\ p \in Int /\ \A i \in 1..Len(s) : s[i] \in S
  BY SequenceFacts DEF IsASequence
<1>2. L \in Seq(S) /\ Len(L) = p - 1 /\ \A i \in 1..p - 1 : L[i] = s[i]
  BY <1>1, SubSeqProperties
<1>3. R \in Seq(S) /\ Len(R) = Len(s) - p /\ \A i \in 1..Len(s) - p : R[i] = s[p + i]
  BY <1>1, SubSeqProperties
<1> HIDE DEF L, R, S
<1>4. /\ L \o R \in Seq(S) /\ Len(L \o R) = Len(s) - 1
      /\ \A i \in 1..Len(s) - 1 : (L \o R)[i] = IF i < p THEN L[i] ELSE R[i - p + 1]
  BY <1>1, <1>2, <1>3, ConcatProperties
<1>5. RemoveAt(s, p) = L \o R
  BY DEF RemoveAt, L, R
<1>6. RemoveAt(s, p) = [i \in 1..Len(s) - 1 |-> RemoveAt(s, p)[i]]
  BY <1>1, <1>4, <1>5, LenProperties
<1>7. ASSUME NEW k \in 1..Len(s) - 1
      PROVE  RemoveAt(s, p)[k] = IF k < p THEN s[k] ELSE s[k + 1]
  <2>1. k >= p => R[k - p + 1] = s[k + 1]
    BY <1>1, <1>3
  <2> QED
    BY <1>1, <1>2, <1>4, <1>5, <2>1
<1> QED
  BY <1>6, <1>7, Zenon

-----------------------------------------------------------------------------
(* Lemmas on kinds.                                                        *)

(* A container heads a section of kinds; sections are apart and hold no     *)
(* root.                                                                    *)
LEMMA SectionFacts ==
  ASSUME NEW c \in Containers
  PROVE  /\ c \in Section(c)
         /\ Section(c) \subseteq Kinds
         /\ c # "Circuit"
         /\ \A d \in Containers : c # d => Section(c) \cap Section(d) = {}
<1>1. Section(c) \subseteq Kinds
  BY DEF Section, Kinds
<1>2. DOMAIN DrawingParts = {"Schematic", "SchematicSymbol", "SchematicSymbolLibrary",
           "SchematicPortPlacement", "SchematicWire", "SchematicLabel", "SchematicSheet",
           "SchematicSheetPort", "SchematicSheetLink"}
  BY DEF DrawingParts
<1>3. DOMAIN BoardParts = {"Board", "LandPattern", "Keepout", "Placement", "PlacementConstraint"}
  BY DEF BoardParts
<1>4. DOMAIN CopperParts = {"Route", "Via", "Zone"}
  BY DEF CopperParts
<1>5. c = "Schematic" \/ c = "Board"
  BY DEF Containers
<1> QED
  BY <1>1, <1>2, <1>3, <1>4, <1>5 DEF Section, Containers

(* A kind is in the section of one container at most, and a container in    *)
(* its own only.                                                            *)
LEMMA ContainerOfFacts ==
  ASSUME NEW kind
  PROVE  /\ \A c \in ContainerOf(kind) : c \in Containers /\ kind \in Section(c) /\ kind # c
                                         /\ kind \notin Containers
         /\ \A c \in Containers : kind \in Section(c) => kind = c \/ c \in ContainerOf(kind)
<1>1. \A c, d \in Containers : c \in Section(d) => c = d
  BY SectionFacts
<1> QED
  BY <1>1 DEF ContainerOf

-----------------------------------------------------------------------------
(* Lemmas on the items of a list.                                          *)

(* In a well-formed list an identity names one position.                    *)
LEMMA UniqueItem ==
  ASSUME NEW doc, NEW kind, WellFormedList(kind, doc[kind]), NEW i \in DOMAIN doc[kind]
  PROVE  /\ Position(doc, kind, doc[kind][i].id) = i
         /\ Valued(doc, kind, doc[kind][i].id) = doc[kind][i].value
         /\ Holds(doc, kind, doc[kind][i].id)
<1>1. Position(doc, kind, doc[kind][i].id) = i
  BY DEF Position, WellFormedList
<1>2. doc[kind][i] \in Items(doc, kind)
  BY DEF Items, ToSet
<1> QED
  BY <1>1, <1>2 DEF Valued, Holds, Ids

(* The position of an item the document holds is one of its list.           *)
LEMMA HeldItem ==
  ASSUME NEW doc, NEW kind, NEW id, Holds(doc, kind, id)
  PROVE  /\ Position(doc, kind, id) \in DOMAIN doc[kind]
         /\ doc[kind][Position(doc, kind, id)].id = id
         /\ Valued(doc, kind, id) = doc[kind][Position(doc, kind, id)].value
<1>1. PICK i \in DOMAIN doc[kind] : doc[kind][i].id = id
  BY DEF Holds, Ids, Items, ToSet
<1> QED
  BY <1>1 DEF Position, Valued

(* Lists that hold the same item of an identity, wherever it is.            *)
LEMMA SameItem ==
  ASSUME NEW d1, NEW d2, NEW kind, NEW id,
         WellFormedList(kind, d1[kind]), WellFormedList(kind, d2[kind]),
         \A i \in DOMAIN d1[kind] : d1[kind][i].id = id =>
            \E j \in DOMAIN d2[kind] : d2[kind][j] = d1[kind][i],
         \A j \in DOMAIN d2[kind] : d2[kind][j].id = id =>
            \E i \in DOMAIN d1[kind] : d1[kind][i] = d2[kind][j]
  PROVE  /\ Holds(d1, kind, id) <=> Holds(d2, kind, id)
         /\ Holds(d1, kind, id) => Valued(d1, kind, id) = Valued(d2, kind, id)
<1>1. Holds(d2, kind, id) => Holds(d1, kind, id)
  BY HeldItem, UniqueItem
<1>2. ASSUME Holds(d1, kind, id)
      PROVE  Holds(d2, kind, id) /\ Valued(d1, kind, id) = Valued(d2, kind, id)
  <2> DEFINE i == Position(d1, kind, id)
  <2>1. i \in DOMAIN d1[kind] /\ d1[kind][i].id = id /\ Valued(d1, kind, id) = d1[kind][i].value
    BY <1>2, HeldItem
  <2>2. PICK j \in DOMAIN d2[kind] : d2[kind][j] = d1[kind][i]
    BY <2>1
  <2> QED
    BY <2>1, <2>2, UniqueItem
<1> QED
  BY <1>1, <1>2

(* A well-formed list takes an item of a new identity anywhere, and gives   *)
(* it back.                                                                 *)
LEMMA InsertedList ==
  ASSUME NEW kind, NEW s, WellFormedList(kind, s), NEW p \in 1..Len(s) + 1,
         NEW item, WellFormedItem(kind, item), \A i \in DOMAIN s : s[i].id # item.id
  PROVE  LET t == InsertAt(s, p, item)
         IN /\ WellFormedList(kind, t)
            /\ Len(t) = Len(s) + 1
            /\ p \in DOMAIN t /\ t[p] = item
            /\ \A i \in DOMAIN s : \E j \in DOMAIN t : t[j] = s[i]
            /\ \A j \in DOMAIN t : j = p \/ \E i \in DOMAIN s : s[i] = t[j]
            /\ RemoveAt(t, p) = s
<1> DEFINE t == InsertAt(s, p, item)
<1>1. IsASequence(s) /\ Len(s) \in Nat /\ DOMAIN s = 1..Len(s) /\ p \in Int
  BY SequenceFacts DEF WellFormedList
<1>2. t = [k \in 1..Len(s) + 1 |-> IF k < p THEN s[k] ELSE IF k = p THEN item ELSE s[k - 1]]
  BY <1>1, InsertAtFacts
<1> HIDE DEF t
<1>3. /\ DOMAIN t = 1..Len(s) + 1 /\ Len(s) + 1 \in Nat /\ t = [k \in 1..Len(s) + 1 |-> t[k]]
      /\ t[p] = item
      /\ \A k \in 1..Len(s) + 1 : (k < p => t[k] = s[k]) /\ (k > p => t[k] = s[k - 1])
  BY <1>1, <1>2
<1>4. IsASequence(t) /\ Len(t) = Len(s) + 1
  BY <1>3, IntervalIsSequence
<1>5. \A j \in DOMAIN t : /\ j < p => j \in DOMAIN s /\ t[j] = s[j]
                          /\ j > p => j - 1 \in DOMAIN s /\ t[j] = s[j - 1]
                          /\ j < p \/ j = p \/ j > p
  BY <1>1, <1>3
<1>6. \A i \in DOMAIN s : \E j \in DOMAIN t : t[j] = s[i]
  <2> TAKE i \in DOMAIN s
  <2>1. CASE i < p
    BY <1>1, <1>3, <2>1
  <2>2. CASE i >= p
    <3>1. i + 1 \in DOMAIN t /\ t[i + 1] = s[i]
      BY <1>1, <1>3, <2>2
    <3> QED
      BY <3>1
  <2> QED
    BY <1>1, <2>1, <2>2
<1>7. \A j \in DOMAIN t : j = p \/ \E i \in DOMAIN s : s[i] = t[j]
  BY <1>5
<1>8. \A j \in DOMAIN t : WellFormedItem(kind, t[j])
  BY <1>3, <1>7 DEF WellFormedList
<1>9. ASSUME NEW i \in DOMAIN t, NEW j \in DOMAIN t, t[i].id = t[j].id
      PROVE  i = j
  <2>1. CASE i = p \/ j = p
    BY <1>3, <1>7, <1>9, <2>1
  <2>2. CASE i # p /\ j # p
    <3> DEFINE f(k) == IF k < p THEN k ELSE k - 1
    <3>1. f(i) \in DOMAIN s /\ f(j) \in DOMAIN s /\ t[i] = s[f(i)] /\ t[j] = s[f(j)]
      BY <1>1, <1>5, <2>2
    <3>2. f(i) = f(j)
      BY <1>9, <3>1 DEF WellFormedList
    <3> QED
      BY <1>1, <1>3, <2>2, <3>2
  <2> QED
    BY <2>1, <2>2
<1>10. WellFormedList(kind, t)
  BY <1>4, <1>8, <1>9 DEF WellFormedList
<1>11. p \in DOMAIN t
  BY <1>1, <1>3
<1>12. RemoveAt(t, p) = s
  <2>1. RemoveAt(t, p) = [k \in 1..Len(t) - 1 |-> IF k < p THEN t[k] ELSE t[k + 1]]
    BY <1>1, <1>4, RemoveAtFacts
  <2>2. 1..Len(t) - 1 = 1..Len(s)
    BY <1>1, <1>4
  <2>3. \A k \in 1..Len(s) : (IF k < p THEN t[k] ELSE t[k + 1]) = s[k]
    BY <1>1, <1>3
  <2>4. s = [k \in 1..Len(s) |-> s[k]]
    BY <1>1, SequenceFacts
  <2> QED
    BY <2>1, <2>2, <2>3, <2>4
<1> QED
  BY <1>3, <1>4, <1>6, <1>7, <1>10, <1>11, <1>12 DEF t

(* A well-formed list without one of its items takes it back.               *)
LEMMA RemovedList ==
  ASSUME NEW kind, NEW s, WellFormedList(kind, s), NEW p \in DOMAIN s
  PROVE  LET t == RemoveAt(s, p)
         IN /\ WellFormedList(kind, t)
            /\ Len(t) = Len(s) - 1
            /\ \A j \in DOMAIN t : t[j].id # s[p].id
            /\ \A j \in DOMAIN t : \E i \in DOMAIN s : s[i] = t[j]
            /\ \A i \in DOMAIN s : i = p \/ \E j \in DOMAIN t : t[j] = s[i]
            /\ InsertAt(t, p, s[p]) = s
<1> DEFINE t == RemoveAt(s, p)
<1>1. IsASequence(s) /\ Len(s) \in Nat /\ DOMAIN s = 1..Len(s) /\ p \in 1..Len(s)
  BY SequenceFacts DEF WellFormedList
<1>2. t = [k \in 1..Len(s) - 1 |-> IF k < p THEN s[k] ELSE s[k + 1]]
  BY <1>1, RemoveAtFacts
<1> HIDE DEF t
<1>3. /\ DOMAIN t = 1..Len(s) - 1 /\ Len(s) - 1 \in Nat /\ t = [k \in 1..Len(s) - 1 |-> t[k]]
      /\ \A k \in 1..Len(s) - 1 : (k < p => t[k] = s[k]) /\ (k >= p => t[k] = s[k + 1])
  BY <1>1, <1>2
<1>4. IsASequence(t) /\ Len(t) = Len(s) - 1
  BY <1>3, IntervalIsSequence
<1>5. \A j \in DOMAIN t : /\ j < p => j \in DOMAIN s /\ t[j] = s[j]
                          /\ j >= p => j + 1 \in DOMAIN s /\ t[j] = s[j + 1]
                          /\ j < p \/ j >= p
  BY <1>1, <1>3
<1>6. \A i \in DOMAIN s : i = p \/ \E j \in DOMAIN t : t[j] = s[i]
  <2> TAKE i \in DOMAIN s
  <2>1. CASE i < p
    BY <1>1, <1>3, <2>1
  <2>2. CASE i > p
    <3>1. i - 1 \in DOMAIN t /\ t[i - 1] = s[i]
      BY <1>1, <1>3, <2>2
    <3> QED
      BY <3>1
  <2> QED
    BY <1>1, <2>1, <2>2
<1>7. \A j \in DOMAIN t : \E i \in DOMAIN s : i # p /\ s[i] = t[j]
  <2> TAKE j \in DOMAIN t
  <2>1. CASE j < p
    BY <1>1, <1>5, <2>1
  <2>2. CASE j >= p
    <3>1. j + 1 \in DOMAIN s /\ j + 1 # p /\ s[j + 1] = t[j]
      BY <1>1, <1>3, <1>5, <2>2
    <3> QED
      BY <3>1
  <2> QED
    BY <1>5, <2>1, <2>2
<1>8. \A j \in DOMAIN t : WellFormedItem(kind, t[j]) /\ t[j].id # s[p].id
  BY <1>7 DEF WellFormedList
<1>9. ASSUME NEW i \in DOMAIN t, NEW j \in DOMAIN t, t[i].id = t[j].id
      PROVE  i = j
  <2> DEFINE f(k) == IF k < p THEN k ELSE k + 1
  <2>1. f(i) \in DOMAIN s /\ f(j) \in DOMAIN s /\ t[i] = s[f(i)] /\ t[j] = s[f(j)]
    BY <1>1, <1>3, <1>5
  <2>2. f(i) = f(j)
    BY <1>9, <2>1 DEF WellFormedList
  <2> QED
    BY <1>1, <1>3, <2>2
<1>10. WellFormedList(kind, t)
  BY <1>4, <1>8, <1>9 DEF WellFormedList
<1>11. InsertAt(t, p, s[p]) = s
  <2>1. p \in 1..Len(t) + 1
    BY <1>1, <1>4
  <2>2. InsertAt(t, p, s[p]) =
          [k \in 1..Len(t) + 1 |-> IF k < p THEN t[k] ELSE IF k = p THEN s[p] ELSE t[k - 1]]
    BY <1>4, <2>1, InsertAtFacts
  <2>3. 1..Len(t) + 1 = 1..Len(s)
    BY <1>1, <1>4
  <2>4. \A k \in 1..Len(s) : (IF k < p THEN t[k] ELSE IF k = p THEN s[p] ELSE t[k - 1]) = s[k]
    BY <1>1, <1>3
  <2>5. s = [k \in 1..Len(s) |-> s[k]]
    BY <1>1, SequenceFacts
  <2> QED
    BY <2>2, <2>3, <2>4, <2>5
<1> QED
  BY <1>4, <1>6, <1>7, <1>8, <1>10, <1>11 DEF t

(* Replacing the fields of one item keeps the list, and putting the old     *)
(* fields back restores it.                                                 *)
LEMMA UpdatedItem ==
  ASSUME NEW kind, NEW item, WellFormedItem(kind, item), NEW part \in Parts[kind], NEW new,
         DOMAIN new = Writes[kind][part]
  PROVE  LET value == Over(new, item.value)
             old == [f \in Writes[kind][part] |-> item.value[f]]
         IN /\ DOMAIN value = DOMAIN item.value
            /\ WellFormedItem(kind, [id |-> item.id, value |-> value])
            /\ \A f \in DOMAIN item.value \ Writes[kind][part] : value[f] = item.value[f]
            /\ Over(old, value) = item.value
<1> DEFINE value == Over(new, item.value)
           old == [f \in Writes[kind][part] |-> item.value[f]]
           after == [id |-> item.id, value |-> value]
<1>1. /\ item.value = [f \in DOMAIN item.value |-> item.value[f]]
      /\ \A p \in Parts[kind] : Writes[kind][p] \subseteq DOMAIN item.value
  BY DEF WellFormedItem
<1>2. value = [x \in DOMAIN new \cup DOMAIN item.value |->
                 IF x \in DOMAIN new THEN new[x] ELSE item.value[x]]
  BY DEF Over
<1>3. DOMAIN new \cup DOMAIN item.value = DOMAIN item.value
  BY <1>1
<1>4. /\ DOMAIN value = DOMAIN item.value
      /\ value = [f \in DOMAIN value |-> value[f]]
      /\ \A f \in DOMAIN item.value \ Writes[kind][part] : value[f] = item.value[f]
  BY <1>2, <1>3
<1> HIDE DEF value
<1>5. after.id = item.id /\ after.value = value /\ after = [id |-> after.id, value |-> after.value]
  OBVIOUS
<1> HIDE DEF after
<1>6. WellFormedItem(kind, after)
  BY <1>1, <1>4, <1>5 DEF WellFormedItem
<1>7. Over(old, value) = item.value
  <2>1. Over(old, value) = [x \in DOMAIN old \cup DOMAIN value |->
                              IF x \in DOMAIN old THEN old[x] ELSE value[x]]
    BY DEF Over
  <2>2. DOMAIN old = Writes[kind][part] /\ \A f \in DOMAIN old : old[f] = item.value[f]
    OBVIOUS
  <2> HIDE DEF old
  <2>3. DOMAIN old \cup DOMAIN value = DOMAIN item.value
    BY <1>1, <1>4, <2>2
  <2>4. \A x \in DOMAIN item.value : (IF x \in DOMAIN old THEN old[x] ELSE value[x]) = item.value[x]
    BY <1>4, <2>2
  <2> QED
    BY <1>1, <2>1, <2>3, <2>4
<1> QED
  BY <1>4, <1>6, <1>7 DEF value, old, after

(* Replacing an item by another of its identity keeps the list well-formed, *)
(* and putting the old one back restores it.                                *)
LEMMA UpdatedList ==
  ASSUME NEW kind, NEW s, WellFormedList(kind, s), NEW p \in DOMAIN s,
         NEW item, WellFormedItem(kind, item), item.id = s[p].id
  PROVE  LET t == [i \in DOMAIN s |-> IF i = p THEN item ELSE s[i]]
         IN /\ WellFormedList(kind, t)
            /\ DOMAIN t = DOMAIN s
            /\ Len(t) = Len(s)
            /\ t[p] = item
            /\ \A i \in DOMAIN s : t[i].id = s[i].id /\ (i # p => t[i] = s[i])
            /\ [i \in DOMAIN t |-> IF i = p THEN s[p] ELSE t[i]] = s
<1> DEFINE t == [i \in DOMAIN s |-> IF i = p THEN item ELSE s[i]]
<1>1. /\ IsASequence(s) /\ Len(s) \in Nat /\ DOMAIN s = 1..Len(s)
      /\ s = [i \in 1..Len(s) |-> s[i]]
  BY SequenceFacts DEF WellFormedList
<1>2. /\ DOMAIN t = DOMAIN s /\ t = [i \in 1..Len(s) |-> t[i]] /\ t[p] = item
      /\ \A i \in DOMAIN s : t[i].id = s[i].id /\ (i # p => t[i] = s[i])
  BY <1>1
<1>3. [i \in DOMAIN t |-> IF i = p THEN s[p] ELSE t[i]] = s
  BY <1>1
<1> HIDE DEF t
<1>4. IsASequence(t) /\ Len(t) = Len(s)
  BY <1>1, <1>2, IntervalIsSequence
<1>5. \A i \in DOMAIN t : WellFormedItem(kind, t[i])
  BY <1>2 DEF WellFormedList
<1>6. \A i, j \in DOMAIN t : t[i].id = t[j].id => i = j
  BY <1>2 DEF WellFormedList
<1> QED
  BY <1>2, <1>3, <1>4, <1>5, <1>6 DEF WellFormedList, t

-----------------------------------------------------------------------------
(* Lemmas on the lists of a document.                                      *)

(* Replacing one list by a well-formed one keeps a document well-formed and *)
(* every other list as it was.                                              *)
LEMMA OneListChanged ==
  ASSUME NEW doc, WellFormed(doc), NEW k \in Kinds, NEW list, WellFormedList(k, list),
         k \in Containers => Len(list) = Len(doc[k]),
         \A c \in ContainerOf(k) : doc[c] # <<>>
  PROVE  LET after == [doc EXCEPT ![k] = list]
         IN /\ WellFormed(after)
            /\ after[k] = list
            /\ \A kind \in Kinds \ {k} : after[kind] = doc[kind]
<1> DEFINE after == [doc EXCEPT ![k] = list]
<1>1. /\ after[k] = list /\ \A kind \in Kinds \ {k} : after[kind] = doc[kind]
      /\ after = [kind \in Kinds |-> after[kind]]
  BY DEF WellFormed
<1> HIDE DEF after
<1>2. \A kind \in Kinds : WellFormedList(kind, after[kind])
  BY <1>1 DEF WellFormed
<1>3. ASSUME NEW c \in Containers
      PROVE  Len(after[c]) <= 1 /\ (after[c] = <<>> => \A kind \in Section(c) : after[kind] = <<>>)
  <2>1. c \in Kinds /\ Section(c) \subseteq Kinds /\ c \in Section(c)
    BY SectionFacts
  <2>2. Len(after[c]) = Len(doc[c])
    BY <1>1, <2>1
  <2>3. IsASequence(after[c]) /\ IsASequence(doc[c])
    BY <1>2, <2>1 DEF WellFormed, WellFormedList
  <2>4. after[c] = <<>> <=> doc[c] = <<>>
    BY <2>2, <2>3, SequenceFacts
  <2>5. ASSUME after[c] = <<>>, NEW kind \in Section(c)
        PROVE  after[kind] = <<>>
    <3>1. doc[c] = <<>>
      BY <2>4, <2>5
    <3>2. CASE kind = k
      <4>1. k = c \/ c \in ContainerOf(k)
        BY <3>2, <2>5, ContainerOfFacts
      <4> QED
        BY <2>5, <3>1, <3>2, <4>1
    <3>3. CASE kind # k
      BY <1>1, <2>1, <2>5, <3>1, <3>3 DEF WellFormed
    <3> QED
      BY <3>2, <3>3
  <2> QED
    BY <2>2, <2>5 DEF WellFormed
<1> QED
  BY <1>1, <1>2, <1>3 DEF WellFormed, after

(* Replacing the lists of one section by well-formed ones keeps a document  *)
(* well-formed and every other section as it was.                           *)
LEMMA SectionChanged ==
  ASSUME NEW doc, WellFormed(doc), NEW c \in Containers, NEW lists,
         lists = [kind \in Section(c) |-> lists[kind]],
         \A kind \in Section(c) : WellFormedList(kind, lists[kind]),
         Len(lists[c]) <= 1,
         lists[c] = <<>> => \A kind \in Section(c) : lists[kind] = <<>>
  PROVE  LET after == Over(lists, doc)
         IN /\ WellFormed(after)
            /\ \A kind \in Section(c) : after[kind] = lists[kind]
            /\ \A kind \in Kinds \ Section(c) : after[kind] = doc[kind]
<1> DEFINE after == Over(lists, doc)
<1>1. Section(c) \subseteq Kinds /\ c \in Section(c)
  BY SectionFacts
<1>2. DOMAIN lists = Section(c) /\ DOMAIN doc = Kinds
  BY DEF WellFormed
<1>3. after = [x \in Kinds |-> IF x \in Section(c) THEN lists[x] ELSE doc[x]]
  <2>1. Section(c) \cup Kinds = Kinds
    BY <1>1
  <2> QED
    BY <1>2, <2>1 DEF Over
<1> HIDE DEF after
<1>4. /\ \A kind \in Section(c) : after[kind] = lists[kind]
      /\ \A kind \in Kinds \ Section(c) : after[kind] = doc[kind]
      /\ after = [kind \in Kinds |-> after[kind]]
  BY <1>1, <1>3
<1>5. \A kind \in Kinds : WellFormedList(kind, after[kind])
  BY <1>4 DEF WellFormed
<1>6. ASSUME NEW d \in Containers
      PROVE  Len(after[d]) <= 1 /\ (after[d] = <<>> => \A kind \in Section(d) : after[kind] = <<>>)
  <2>1. CASE d = c
    BY <1>1, <1>4, <2>1
  <2>2. CASE d # c
    <3>1. \A kind \in Section(d) : kind \in Kinds \ Section(c) /\ d \in Section(d)
      BY <2>2, SectionFacts
    <3> QED
      BY <1>4, <3>1, SectionFacts DEF WellFormed
  <2> QED
    BY <2>1, <2>2
<1> QED
  BY <1>4, <1>5, <1>6 DEF WellFormed, after

-----------------------------------------------------------------------------
(* Lemmas on one edit.                                                     *)

(* When an edit is accepted.                                                *)
LEMMA Accepted ==
  ASSUME NEW doc, NEW e
  PROVE  Refusal(doc, e) = "Ok" <=>
           /\ \A c \in ContainerOf(e.kind) : doc[c] # <<>>
           /\ e.op # "insert" => Holds(doc, e.kind, e.id)
           /\ e.op # "insert" /\ e.kind \in Containers => doc[e.kind] # <<>>
           /\ e.op = "insert" /\ e.kind \in Containers => doc[e.kind] = <<>>
           /\ e.op = "insert" /\ e.kind \notin Containers =>
                ~Holds(doc, e.kind, e.id) /\ ~(e.index > Len(doc[e.kind]))
<1>1. \A c : Missing(c) # "Ok"
  BY DEF Missing
<1> QED
  BY <1>1 DEF Refusal

(* What an edit is by its operation.                                        *)
LEMMA EditShapes ==
  ASSUME NEW e, WellFormedEdit(e)
  PROVE  /\ e.kind \in Kinds
         /\ e.op \in {"insert", "remove", "set"}
         /\ e.op = "insert" => e.kind # "Circuit" /\ WellFormedInsertion(e)
         /\ e.op = "remove" => e.kind # "Circuit" /\ e = RemoveEdit(e.kind, e.id)
                               /\ e.part = "presence"
         /\ e.op = "set" => /\ e.part \in Parts[e.kind]
                            /\ e.value = [f \in Writes[e.kind][e.part] |-> e.value[f]]
BY DEF WellFormedEdit, WellFormedInsertion, RemoveEdit

(* Two documents agree at an address when both hold its item with the same  *)
(* part, or neither does.                                                   *)
LEMMA SameContent ==
  ASSUME NEW d1, NEW d2, NEW a,
         Holds(d1, a.kind, a.id) <=> Holds(d2, a.kind, a.id),
         Holds(d1, a.kind, a.id) =>
           /\ a.part # "presence" =>
                \A f \in Writes[a.kind][a.part] :
                  Valued(d1, a.kind, a.id)[f] = Valued(d2, a.kind, a.id)[f]
           /\ a.part = "presence" /\ a.kind \in Containers =>
                \A kind \in Section(a.kind) : d1[kind] = d2[kind]
           /\ a.part = "presence" /\ a.kind \notin Containers =>
                Valued(d1, a.kind, a.id) = Valued(d2, a.kind, a.id)
  PROVE  Content(d1, a) = Content(d2, a)
<1>1. CASE ~Holds(d1, a.kind, a.id)
  BY <1>1 DEF Content
<1>2. CASE Holds(d1, a.kind, a.id) /\ a.part # "presence"
  <2>1. [f \in Writes[a.kind][a.part] |-> Valued(d1, a.kind, a.id)[f]]
          = [f \in Writes[a.kind][a.part] |-> Valued(d2, a.kind, a.id)[f]]
    BY <1>2
  <2> QED
    BY <1>2, <2>1 DEF Content
<1>3. CASE Holds(d1, a.kind, a.id) /\ a.part = "presence" /\ a.kind \in Containers
  <2>1. [kind \in Section(a.kind) |-> d1[kind]] = [kind \in Section(a.kind) |-> d2[kind]]
    BY <1>3
  <2> QED
    BY <1>3, <2>1 DEF Content
<1>4. CASE Holds(d1, a.kind, a.id) /\ a.part = "presence" /\ a.kind \notin Containers
  BY <1>4 DEF Content
<1> QED
  BY <1>1, <1>2, <1>3, <1>4

(* The edit is taken back by its inverse, which is itself an edit.          *)
Reverses(doc, e) ==
  /\ WellFormed(ApplyEdit(doc, e))
  /\ WellFormedEdit(InverseEdit(doc, e))
  /\ Refusal(ApplyEdit(doc, e), InverseEdit(doc, e)) = "Ok"
  /\ ApplyEdit(ApplyEdit(doc, e), InverseEdit(doc, e)) = doc

(* What differs between two documents at addresses nothing conflicts with.  *)
AddressIn(a) == \E kind \in Kinds : \E id : a \in AddressesOf(kind, id)
DiffersOnlyAt(d1, d2, a) ==
  \A b : AddressIn(b) /\ Content(d1, b) # Content(d2, b) => ConflictsWith(b, a)

(* A change of one list that keeps every item of another identity: only the *)
(* item, and the container of the list, may differ.                         *)
LEMMA OneItemChanged ==
  ASSUME NEW d1, NEW d2, WellFormed(d1), WellFormed(d2), NEW k \in Kinds, NEW id,
         \A kind \in Kinds \ {k} : d1[kind] = d2[kind],
         \A i \in DOMAIN d1[k] : d1[k][i].id # id => \E j \in DOMAIN d2[k] : d2[k][j] = d1[k][i],
         \A j \in DOMAIN d2[k] : d2[k][j].id # id => \E i \in DOMAIN d1[k] : d1[k][i] = d2[k][j],
         NEW b, AddressIn(b), Content(d1, b) # Content(d2, b)
  PROVE  \/ b.kind = k /\ b.id = id
         \/ b.part = "presence" /\ b.kind \in Containers /\ k \in Section(b.kind)
<1>1. b.kind \in Kinds
  BY DEF AddressIn, AddressesOf
<1>2. WellFormedList(b.kind, d1[b.kind]) /\ WellFormedList(b.kind, d2[b.kind])
  BY <1>1 DEF WellFormed
<1> SUFFICES ASSUME ~(b.kind = k /\ b.id = id),
                    ~(b.part = "presence" /\ b.kind \in Containers /\ k \in Section(b.kind))
             PROVE  Content(d1, b) = Content(d2, b)
  OBVIOUS
<1>3. /\ \A i \in DOMAIN d1[b.kind] : d1[b.kind][i].id = b.id =>
            \E j \in DOMAIN d2[b.kind] : d2[b.kind][j] = d1[b.kind][i]
      /\ \A j \in DOMAIN d2[b.kind] : d2[b.kind][j].id = b.id =>
            \E i \in DOMAIN d1[b.kind] : d1[b.kind][i] = d2[b.kind][j]
  <2>1. CASE b.kind # k
    BY <1>1, <2>1
  <2>2. CASE b.kind = k
    BY <2>2
  <2> QED
    BY <2>1, <2>2
<1>4. /\ Holds(d1, b.kind, b.id) <=> Holds(d2, b.kind, b.id)
      /\ Holds(d1, b.kind, b.id) => Valued(d1, b.kind, b.id) = Valued(d2, b.kind, b.id)
  <2> DEFINE bk == b.kind
             bi == b.id
  <2>1. WellFormedList(bk, d1[bk]) /\ WellFormedList(bk, d2[bk])
    BY <1>2
  <2>2. /\ \A i \in DOMAIN d1[bk] : d1[bk][i].id = bi => \E j \in DOMAIN d2[bk] : d2[bk][j] = d1[bk][i]
        /\ \A j \in DOMAIN d2[bk] : d2[bk][j].id = bi => \E i \in DOMAIN d1[bk] : d1[bk][i] = d2[bk][j]
    BY <1>3
  <2> HIDE DEF bk, bi
  <2>3. /\ Holds(d1, bk, bi) <=> Holds(d2, bk, bi)
        /\ Holds(d1, bk, bi) => Valued(d1, bk, bi) = Valued(d2, bk, bi)
    BY <2>1, <2>2, SameItem
  <2> QED
    BY <2>3 DEF bk, bi
<1>5. b.part = "presence" /\ b.kind \in Containers => \A kind \in Section(b.kind) : d1[kind] = d2[kind]
  BY SectionFacts
<1> QED
  BY <1>4, <1>5, SameContent

(* Inserting an item that no other lives in is reversible (`Insert*` in     *)
(* edit.rs).                                                                *)
LEMMA InsertItem ==
  ASSUME NEW doc, NEW e, WellFormed(doc), WellFormedEdit(e), Refusal(doc, e) = "Ok",
         e.op = "insert", e.kind \notin Containers
  PROVE  Reverses(doc, e) /\ DiffersOnlyAt(doc, ApplyEdit(doc, e), Address(e))
<1> DEFINE s == doc[e.kind]
           p == InsertionIndex(doc, e) + 1
           item == [id |-> e.id, value |-> e.value]
           t == InsertAt(s, p, item)
           after == [doc EXCEPT ![e.kind] = t]
           inverse == RemoveEdit(e.kind, e.id)
<1>1. e.kind \in Kinds /\ e.kind # "Circuit" /\ e.part = "presence" /\ e.index \in Nat \cup {AtEnd}
      /\ WellFormedItem(e.kind, item)
  BY EditShapes DEF WellFormedInsertion
<1>2. WellFormedList(e.kind, s) /\ IsASequence(s) /\ Len(s) \in Nat
  BY <1>1, SequenceFacts DEF WellFormed, WellFormedList
<1>3. /\ \A c \in ContainerOf(e.kind) : doc[c] # <<>>
      /\ ~Holds(doc, e.kind, e.id) /\ ~(e.index > Len(s))
  BY Accepted
<1>4. p \in 1..Len(s) + 1
  BY <1>1, <1>2, <1>3 DEF InsertionIndex, AtEnd
<1>5. \A i \in DOMAIN s : s[i].id # item.id
  BY <1>2, <1>3, UniqueItem
<1>6. /\ WellFormedList(e.kind, t)
      /\ p \in DOMAIN t /\ t[p] = item
      /\ \A i \in DOMAIN s : \E j \in DOMAIN t : t[j] = s[i]
      /\ \A j \in DOMAIN t : j = p \/ \E i \in DOMAIN s : s[i] = t[j]
      /\ RemoveAt(t, p) = s
  BY <1>1, <1>2, <1>4, <1>5, InsertedList
<1>7. ApplyEdit(doc, e) = after /\ InverseEdit(doc, e) = inverse
  BY DEF ApplyEdit, InverseEdit, Inserted
<1> HIDE DEF t, p
<1>8. /\ WellFormed(after) /\ after[e.kind] = t
      /\ \A kind \in Kinds \ {e.kind} : after[kind] = doc[kind]
  BY <1>1, <1>3, <1>6, OneListChanged
<1> HIDE DEF after
<1>9. WellFormedEdit(inverse)
  BY <1>1 DEF WellFormedEdit, RemoveEdit
<1>10. inverse.kind = e.kind /\ inverse.id = e.id /\ inverse.op = "remove"
  BY DEF RemoveEdit
<1>11. Position(after, e.kind, e.id) = p /\ Holds(after, e.kind, e.id)
  <2>1. WellFormedList(e.kind, after[e.kind]) /\ p \in DOMAIN after[e.kind]
        /\ after[e.kind][p].id = e.id
    BY <1>6, <1>8
  <2> QED
    BY <2>1, UniqueItem
<1>12. \A c \in ContainerOf(e.kind) : after[c] # <<>>
  BY <1>3, <1>8, ContainerOfFacts, SectionFacts
<1> HIDE DEF inverse
<1>13. Refusal(after, inverse) = "Ok"
  BY <1>10, <1>11, <1>12, Accepted
<1>14. ApplyEdit(after, inverse) = doc
  <2>1. ApplyEdit(after, inverse) = [after EXCEPT ![e.kind] = s]
    BY <1>6, <1>8, <1>10, <1>11 DEF ApplyEdit, Removed
  <2>2. /\ after = [kind \in Kinds |-> after[kind]]
        /\ doc = [kind \in Kinds |-> doc[kind]]
    BY <1>8 DEF WellFormed
  <2> QED
    BY <1>1, <1>8, <2>1, <2>2
<1>15. DiffersOnlyAt(doc, after, Address(e))
  <2> SUFFICES ASSUME NEW b, AddressIn(b), Content(doc, b) # Content(after, b)
               PROVE  ConflictsWith(b, Address(e))
    BY DEF DiffersOnlyAt
  <2>1. \/ b.kind = e.kind /\ b.id = e.id
        \/ b.part = "presence" /\ b.kind \in Containers /\ e.kind \in Section(b.kind)
    BY <1>1, <1>6, <1>8, OneItemChanged
  <2> QED
    BY <1>1, <2>1 DEF ConflictsWith, Covers, Address, TargetOf
<1> QED
  BY <1>7, <1>8, <1>9, <1>13, <1>14, <1>15 DEF Reverses

(* Removing an item that no other lives in is reversible: it comes back at  *)
(* its position (`Remove*` in edit.rs).                                     *)
LEMMA RemoveItem ==
  ASSUME NEW doc, NEW e, WellFormed(doc), WellFormedEdit(e), Refusal(doc, e) = "Ok",
         e.op = "remove", e.kind \notin Containers
  PROVE  Reverses(doc, e) /\ DiffersOnlyAt(doc, ApplyEdit(doc, e), Address(e))
<1> DEFINE s == doc[e.kind]
           p == Position(doc, e.kind, e.id)
           t == RemoveAt(s, p)
           after == [doc EXCEPT ![e.kind] = t]
           inverse == [InsertEdit(e.kind, e.id, s[p].value) EXCEPT !.index = p - 1]
<1>1. e.kind \in Kinds /\ e.kind # "Circuit" /\ e.part = "presence"
  BY EditShapes
<1>2. WellFormedList(e.kind, s) /\ IsASequence(s) /\ Len(s) \in Nat /\ DOMAIN s = 1..Len(s)
  BY <1>1, SequenceFacts DEF WellFormed, WellFormedList
<1>3. (\A c \in ContainerOf(e.kind) : doc[c] # <<>>) /\ Holds(doc, e.kind, e.id)
  BY Accepted
<1>4. p \in DOMAIN s /\ s[p].id = e.id /\ Valued(doc, e.kind, e.id) = s[p].value
  BY <1>3, HeldItem
<1>5. /\ WellFormedList(e.kind, t)
      /\ Len(t) = Len(s) - 1
      /\ \A j \in DOMAIN t : t[j].id # e.id
      /\ \A j \in DOMAIN t : \E i \in DOMAIN s : s[i] = t[j]
      /\ \A i \in DOMAIN s : i = p \/ \E j \in DOMAIN t : t[j] = s[i]
      /\ InsertAt(t, p, s[p]) = s
  <2> DEFINE k == e.kind
  <2>1. WellFormedList(k, s) /\ p \in DOMAIN s
    BY <1>2, <1>4
  <2> HIDE DEF s, p, k
  <2>2. /\ WellFormedList(k, t)
        /\ Len(t) = Len(s) - 1
        /\ \A j \in DOMAIN t : t[j].id # s[p].id
        /\ \A j \in DOMAIN t : \E i \in DOMAIN s : s[i] = t[j]
        /\ \A i \in DOMAIN s : i = p \/ \E j \in DOMAIN t : t[j] = s[i]
        /\ InsertAt(t, p, s[p]) = s
    BY <2>1, RemovedList
  <2> QED
    BY <1>4, <2>2 DEF k
<1>6. ApplyEdit(doc, e) = after /\ InverseEdit(doc, e) = inverse
  BY <1>4 DEF ApplyEdit, InverseEdit, Removed
<1> HIDE DEF t, p
<1>7. /\ WellFormed(after) /\ after[e.kind] = t
      /\ \A kind \in Kinds \ {e.kind} : after[kind] = doc[kind]
  BY <1>1, <1>3, <1>5, OneListChanged
<1> HIDE DEF after
<1>8. WellFormedItem(e.kind, s[p]) /\ s[p] = [id |-> e.id, value |-> s[p].value]
  BY <1>2, <1>4 DEF WellFormedList, WellFormedItem
<1>9. /\ inverse = [op |-> "insert", kind |-> e.kind, id |-> e.id, part |-> "presence",
                    value |-> s[p].value, index |-> p - 1]
      /\ p - 1 \in Nat /\ p - 1 # AtEnd
  BY <1>2, <1>4 DEF InsertEdit, AtEnd
<1> HIDE DEF inverse
<1>10. WellFormedEdit(inverse)
  <2>1. WellFormedInsertion(inverse)
    BY <1>8, <1>9 DEF WellFormedInsertion
  <2> QED
    BY <1>1, <1>9, <2>1 DEF WellFormedEdit
<1>11. \A c \in ContainerOf(e.kind) : after[c] # <<>>
  BY <1>3, <1>7, ContainerOfFacts, SectionFacts
<1>12. ~Holds(after, e.kind, e.id) /\ ~(p - 1 > Len(t))
  <2>1. ~Holds(after, e.kind, e.id)
    BY <1>5, <1>7, HeldItem
  <2> QED
    BY <1>2, <1>4, <1>5, <2>1
<1>13. Refusal(after, inverse) = "Ok"
  BY <1>7, <1>9, <1>11, <1>12, Accepted
<1>14. ApplyEdit(after, inverse) = doc
  <2>1. InsertionIndex(after, inverse) + 1 = p
    BY <1>2, <1>4, <1>9 DEF InsertionIndex
  <2>2. Inserted(after, inverse) = s
    BY <1>5, <1>7, <1>8, <1>9, <2>1 DEF Inserted
  <2>3. ApplyEdit(after, inverse) = [after EXCEPT ![e.kind] = s]
    BY <1>9, <2>2 DEF ApplyEdit
  <2>4. /\ after = [kind \in Kinds |-> after[kind]]
        /\ doc = [kind \in Kinds |-> doc[kind]]
    BY <1>7 DEF WellFormed
  <2> QED
    BY <1>1, <1>7, <2>3, <2>4
<1>15. DiffersOnlyAt(doc, after, Address(e))
  <2> SUFFICES ASSUME NEW b, AddressIn(b), Content(doc, b) # Content(after, b)
               PROVE  ConflictsWith(b, Address(e))
    BY DEF DiffersOnlyAt
  <2>1. /\ \A i \in DOMAIN doc[e.kind] : doc[e.kind][i].id # e.id =>
              \E j \in DOMAIN after[e.kind] : after[e.kind][j] = doc[e.kind][i]
        /\ \A j \in DOMAIN after[e.kind] : after[e.kind][j].id # e.id =>
              \E i \in DOMAIN doc[e.kind] : doc[e.kind][i] = after[e.kind][j]
    BY <1>4, <1>5, <1>7
  <2>2. \/ b.kind = e.kind /\ b.id = e.id
        \/ b.part = "presence" /\ b.kind \in Containers /\ e.kind \in Section(b.kind)
    BY <1>1, <1>7, <2>1, OneItemChanged
  <2> QED
    BY <1>1, <2>2 DEF ConflictsWith, Covers, Address, TargetOf
<1> QED
  BY <1>6, <1>7, <1>10, <1>13, <1>14, <1>15 DEF Reverses

(* Setting a part of an item is reversible: the inverse holds the fields it *)
(* had (`Set*` in edit.rs).                                                 *)
LEMMA SetPart ==
  ASSUME NEW doc, NEW e, WellFormed(doc), WellFormedEdit(e), Refusal(doc, e) = "Ok",
         e.op = "set"
  PROVE  Reverses(doc, e) /\ DiffersOnlyAt(doc, ApplyEdit(doc, e), Address(e))
<1> DEFINE s == doc[e.kind]
           p == Position(doc, e.kind, e.id)
           writes == Writes[e.kind][e.part]
           item == [id |-> e.id, value |-> Over(e.value, s[p].value)]
           old == [f \in writes |-> s[p].value[f]]
           t == [i \in DOMAIN s |-> IF i = p THEN item ELSE s[i]]
           after == [doc EXCEPT ![e.kind] = t]
           inverse == [e EXCEPT !.value = old]
<1>1. /\ e.kind \in Kinds /\ e.part \in Parts[e.kind]
      /\ DOMAIN e.value = writes
      /\ Restores[e.kind][e.part] = writes
  BY EditShapes, EveryPartIsReplayed
<1>2. WellFormedList(e.kind, s) /\ IsASequence(s) /\ Len(s) \in Nat /\ DOMAIN s = 1..Len(s)
  BY <1>1, SequenceFacts DEF WellFormed, WellFormedList
<1>3. /\ \A c \in ContainerOf(e.kind) : doc[c] # <<>>
      /\ Holds(doc, e.kind, e.id)
      /\ e.kind \in Containers => doc[e.kind] # <<>>
  BY Accepted
<1>4. p \in DOMAIN s /\ s[p].id = e.id /\ Valued(doc, e.kind, e.id) = s[p].value
  BY <1>3, HeldItem
<1>5. WellFormedItem(e.kind, s[p]) /\ s[p] = [id |-> e.id, value |-> s[p].value]
  BY <1>2, <1>4 DEF WellFormedList, WellFormedItem
<1>6. /\ WellFormedItem(e.kind, item)
      /\ \A f \in DOMAIN s[p].value \ writes : Over(e.value, s[p].value)[f] = s[p].value[f]
      /\ Over(old, Over(e.value, s[p].value)) = s[p].value
  <2> DEFINE it == s[p]
             new == e.value
             it_old == [f \in Writes[e.kind][e.part] |-> it.value[f]]
  <2>1. WellFormedItem(e.kind, it) /\ DOMAIN new = Writes[e.kind][e.part] /\ it.id = e.id
    BY <1>1, <1>4, <1>5
  <2> HIDE DEF it, new
  <2>2. /\ WellFormedItem(e.kind, [id |-> it.id, value |-> Over(new, it.value)])
        /\ \A f \in DOMAIN it.value \ Writes[e.kind][e.part] : Over(new, it.value)[f] = it.value[f]
        /\ Over(it_old, Over(new, it.value)) = it.value
    BY <1>1, <2>1, UpdatedItem
  <2>3. it = s[p] /\ new = e.value /\ it_old = old
    BY DEF it, new
  <2> QED
    BY <2>1, <2>2, <2>3
<1>7. item.id = e.id /\ item.value = Over(e.value, s[p].value)
  OBVIOUS
<1>8. ApplyEdit(doc, e) = after
  BY <1>4 DEF ApplyEdit, Updated
<1>9. InverseEdit(doc, e) = inverse
  BY <1>1, <1>4 DEF InverseEdit
<1> HIDE DEF p, item
<1>10. /\ WellFormedList(e.kind, t) /\ DOMAIN t = DOMAIN s /\ Len(t) = Len(s) /\ t[p] = item
       /\ \A i \in DOMAIN s : t[i].id = s[i].id /\ (i # p => t[i] = s[i])
       /\ [i \in DOMAIN t |-> IF i = p THEN s[p] ELSE t[i]] = s
  <2> HIDE DEF s
  <2> QED
    BY <1>2, <1>4, <1>6, <1>7, UpdatedList
<1> HIDE DEF t
<1>11. /\ WellFormed(after) /\ after[e.kind] = t
       /\ \A kind \in Kinds \ {e.kind} : after[kind] = doc[kind]
  BY <1>1, <1>3, <1>10, OneListChanged
<1> HIDE DEF after
<1>12. /\ inverse = [op |-> "set", kind |-> e.kind, id |-> e.id, part |-> e.part,
                     value |-> old, index |-> e.index]
  BY DEF WellFormedEdit
<1>13. DOMAIN old = writes /\ old = [f \in writes |-> old[f]]
  OBVIOUS
<1> HIDE DEF inverse, old
<1>14. WellFormedEdit(inverse)
  BY <1>1, <1>12, <1>13 DEF WellFormedEdit
<1>15. Position(after, e.kind, e.id) = p /\ Holds(after, e.kind, e.id)
       /\ Valued(after, e.kind, e.id) = item.value
  <2>1. WellFormedList(e.kind, after[e.kind]) /\ p \in DOMAIN after[e.kind]
        /\ after[e.kind][p].id = e.id /\ after[e.kind][p] = item
    BY <1>4, <1>7, <1>10, <1>11
  <2> QED
    BY <2>1, UniqueItem
<1>16. \A c \in ContainerOf(e.kind) : after[c] # <<>>
  BY <1>3, <1>11, ContainerOfFacts, SectionFacts
<1>17. after[e.kind] # <<>>
  BY <1>15, HeldItem
<1>18. Refusal(after, inverse) = "Ok"
  BY <1>12, <1>15, <1>16, <1>17, Accepted
<1>19. ApplyEdit(after, inverse) = doc
  <2>1. Updated(after, inverse)
          = [i \in DOMAIN t |-> IF i = p THEN [id |-> e.id, value |-> Over(old, t[i].value)]
                                ELSE t[i]]
    BY <1>11, <1>12, <1>15 DEF Updated
  <2>2. Over(old, t[p].value) = s[p].value
    BY <1>6, <1>7, <1>10
  <2>3. Updated(after, inverse) = [i \in DOMAIN t |-> IF i = p THEN s[p] ELSE t[i]]
    BY <1>5, <2>1, <2>2
  <2>4. ApplyEdit(after, inverse) = [after EXCEPT ![e.kind] = s]
    BY <1>10, <1>12, <2>3 DEF ApplyEdit
  <2>5. /\ after = [kind \in Kinds |-> after[kind]]
        /\ doc = [kind \in Kinds |-> doc[kind]]
    BY <1>11 DEF WellFormed
  <2> QED
    BY <1>1, <1>11, <2>4, <2>5
<1>20. DiffersOnlyAt(doc, after, Address(e))
  <2> SUFFICES ASSUME NEW b, AddressIn(b), Content(doc, b) # Content(after, b)
               PROVE  ConflictsWith(b, Address(e))
    BY DEF DiffersOnlyAt
  <2>1. /\ \A i \in DOMAIN doc[e.kind] : doc[e.kind][i].id # e.id =>
              \E j \in DOMAIN after[e.kind] : after[e.kind][j] = doc[e.kind][i]
        /\ \A j \in DOMAIN after[e.kind] : after[e.kind][j].id # e.id =>
              \E i \in DOMAIN doc[e.kind] : doc[e.kind][i] = after[e.kind][j]
    BY <1>4, <1>10, <1>11
  <2>2. \/ b.kind = e.kind /\ b.id = e.id
        \/ b.part = "presence" /\ b.kind \in Containers /\ e.kind \in Section(b.kind)
    BY <1>1, <1>11, <2>1, OneItemChanged
  <2>3. CASE b.part = "presence"
    BY <2>2, <2>3 DEF ConflictsWith, Covers, Address, TargetOf
  <2>4. CASE b.part # "presence"
    <3>1. b.kind = e.kind /\ b.id = e.id /\ b.part \in Parts[e.kind]
          /\ b = [kind |-> e.kind, id |-> e.id, part |-> b.part]
      BY <2>2, <2>4 DEF AddressIn, AddressesOf
    <3>2. CASE b.part = e.part
      BY <3>1, <3>2 DEF ConflictsWith, Address
    <3>3. CASE b.part # e.part /\ writes \cap Writes[e.kind][b.part] # {}
      <4>1. e.kind \in DefinedKinds /\ "definition" \in {e.part, b.part}
        BY <1>1, <3>1, <3>3, EveryPartIsReplayed
      <4> QED
        BY <3>1, <4>1 DEF ConflictsWith, Covers, Address, TargetOf
    <3>4. CASE b.part # e.part /\ writes \cap Writes[e.kind][b.part] = {}
      <4>1. \A f \in Writes[e.kind][b.part] : item.value[f] = s[p].value[f]
        BY <1>5, <1>6, <1>7, <3>1, <3>4 DEF WellFormedItem
      <4>2. /\ Holds(doc, b.kind, b.id) /\ Holds(after, b.kind, b.id)
            /\ \A f \in Writes[b.kind][b.part] :
                 Valued(doc, b.kind, b.id)[f] = Valued(after, b.kind, b.id)[f]
        BY <1>3, <1>4, <1>15, <3>1, <4>1
      <4>3. Content(doc, b) = Content(after, b)
        BY <2>4, <4>2, SameContent
      <4> QED
        BY <4>3
    <3> QED
      BY <3>2, <3>3, <3>4
  <2> QED
    BY <2>3, <2>4
<1> QED
  BY <1>8, <1>9, <1>11, <1>14, <1>18, <1>19, <1>20 DEF Reverses

(* A change of the lists of a container differs from the document only at   *)
(* addresses the container covers.                                          *)
LEMMA OneContainerChanged ==
  ASSUME NEW d1, NEW d2, NEW c \in Containers,
         \A kind \in Kinds \ Section(c) : d1[kind] = d2[kind],
         NEW b, AddressIn(b), Content(d1, b) # Content(d2, b)
  PROVE  b.kind \in Section(c)
<1>1. b.kind \in Kinds
  BY DEF AddressIn, AddressesOf
<1> SUFFICES ASSUME b.kind \notin Section(c)
             PROVE  Content(d1, b) = Content(d2, b)
  OBVIOUS
<1>2. d1[b.kind] = d2[b.kind]
  BY <1>1
<1>3. /\ Holds(d1, b.kind, b.id) <=> Holds(d2, b.kind, b.id)
      /\ Valued(d1, b.kind, b.id) = Valued(d2, b.kind, b.id)
  BY <1>2 DEF Holds, Ids, Items, Valued, Position
<1>4. b.kind \in Containers => \A kind \in Section(b.kind) : d1[kind] = d2[kind]
  BY SectionFacts
<1> QED
  BY <1>3, <1>4, SameContent

(* Inserting a layout or a schematic is reversible.                         *)
LEMMA InsertContainer ==
  ASSUME NEW doc, NEW e, WellFormed(doc), WellFormedEdit(e), Refusal(doc, e) = "Ok",
         e.op = "insert", e.kind \in Containers
  PROVE  Reverses(doc, e) /\ DiffersOnlyAt(doc, ApplyEdit(doc, e), Address(e))
<1> DEFINE after == Over(e.value, doc)
           inverse == RemoveEdit(e.kind, e.id)
           empty == [kind \in Section(e.kind) |-> <<>>]
<1>1. /\ e.kind \in Kinds /\ e.kind # "Circuit" /\ e.part = "presence"
      /\ e.value = [kind \in Section(e.kind) |-> e.value[kind]]
      /\ \A kind \in Section(e.kind) : WellFormedList(kind, e.value[kind])
      /\ Len(e.value[e.kind]) = 1 /\ e.value[e.kind][1].id = e.id
  BY EditShapes DEF WellFormedInsertion
<1>2. Section(e.kind) \subseteq Kinds /\ e.kind \in Section(e.kind)
  BY SectionFacts
<1>3. doc[e.kind] = <<>>
  BY Accepted
<1>4. \A kind \in Section(e.kind) : doc[kind] = <<>>
  BY <1>3 DEF WellFormed
<1>5. e.value[e.kind] # <<>> /\ 1 \in DOMAIN e.value[e.kind]
  <2>1. IsASequence(e.value[e.kind])
    BY <1>1, <1>2 DEF WellFormedList
  <2> QED
    BY <1>1, <2>1, SequenceFacts
<1>6. ApplyEdit(doc, e) = after /\ InverseEdit(doc, e) = inverse
  BY DEF ApplyEdit, InverseEdit
<1>7. /\ WellFormed(after)
      /\ \A kind \in Section(e.kind) : after[kind] = e.value[kind]
      /\ \A kind \in Kinds \ Section(e.kind) : after[kind] = doc[kind]
  <2> DEFINE c == e.kind
             lists == e.value
  <2>1. /\ c \in Containers /\ lists = [kind \in Section(c) |-> lists[kind]]
        /\ \A kind \in Section(c) : WellFormedList(kind, lists[kind])
        /\ Len(lists[c]) = 1 /\ lists[c] # <<>>
    BY <1>1, <1>5, Zenon
  <2>2. \A n : n = 1 => n <= 1
    OBVIOUS
  <2>3. Len(lists[c]) <= 1
    BY <2>1, <2>2
  <2> HIDE DEF c, lists
  <2>4. /\ WellFormed(Over(lists, doc))
        /\ \A kind \in Section(c) : Over(lists, doc)[kind] = lists[kind]
        /\ \A kind \in Kinds \ Section(c) : Over(lists, doc)[kind] = doc[kind]
    BY <2>1, <2>3, SectionChanged
  <2> QED
    BY <2>4 DEF c, lists
<1> HIDE DEF after
<1>8. inverse.kind = e.kind /\ inverse.id = e.id /\ inverse.op = "remove"
  BY DEF RemoveEdit
<1>9. WellFormedEdit(inverse)
  BY <1>1 DEF WellFormedEdit, RemoveEdit
<1>10. Holds(after, e.kind, e.id) /\ after[e.kind] # <<>>
  <2>1. WellFormedList(e.kind, after[e.kind]) /\ 1 \in DOMAIN after[e.kind]
        /\ after[e.kind][1].id = e.id
    BY <1>1, <1>2, <1>5, <1>7
  <2> QED
    BY <1>2, <1>5, <1>7, <2>1, UniqueItem
<1>11. \A c \in ContainerOf(e.kind) : FALSE
  BY ContainerOfFacts
<1> HIDE DEF inverse
<1>12. Refusal(after, inverse) = "Ok"
  BY <1>8, <1>10, <1>11, Accepted
<1>13. ApplyEdit(after, inverse) = doc
  <2>1. ApplyEdit(after, inverse) = Over(empty, after)
    BY <1>8 DEF ApplyEdit
  <2>2. DOMAIN empty = Section(e.kind) /\ (\A kind \in Section(e.kind) : empty[kind] = <<>>)
        /\ DOMAIN after = Kinds
    BY <1>7 DEF WellFormed
  <2> HIDE DEF empty
  <2>3. Section(e.kind) \cup Kinds = Kinds
    BY <1>2
  <2>4. Over(empty, after)
          = [x \in Kinds |-> IF x \in Section(e.kind) THEN empty[x] ELSE after[x]]
    BY <2>2, <2>3 DEF Over
  <2>5. \A x \in Kinds : (IF x \in Section(e.kind) THEN empty[x] ELSE after[x]) = doc[x]
    BY <1>4, <1>7, <2>2
  <2>6. doc = [kind \in Kinds |-> doc[kind]]
    BY DEF WellFormed
  <2> QED
    BY <2>1, <2>4, <2>5, <2>6
<1>14. DiffersOnlyAt(doc, after, Address(e))
  <2> SUFFICES ASSUME NEW b, AddressIn(b), Content(doc, b) # Content(after, b)
               PROVE  ConflictsWith(b, Address(e))
    BY DEF DiffersOnlyAt
  <2>1. b.kind \in Section(e.kind)
    BY <1>7, OneContainerChanged
  <2> QED
    BY <1>1, <2>1 DEF ConflictsWith, Covers, Address
<1> QED
  BY <1>6, <1>7, <1>9, <1>12, <1>13, <1>14 DEF Reverses

(* Removing a layout or a schematic is reversible: everything it held comes *)
(* back with it.                                                            *)
LEMMA RemoveContainer ==
  ASSUME NEW doc, NEW e, WellFormed(doc), WellFormedEdit(e), Refusal(doc, e) = "Ok",
         e.op = "remove", e.kind \in Containers
  PROVE  Reverses(doc, e) /\ DiffersOnlyAt(doc, ApplyEdit(doc, e), Address(e))
<1> DEFINE empty == [kind \in Section(e.kind) |-> <<>>]
           lists == [kind \in Section(e.kind) |-> doc[kind]]
           after == Over(empty, doc)
           inverse == InsertEdit(e.kind, e.id, lists)
<1>1. e.kind \in Kinds /\ e.kind # "Circuit" /\ e.part = "presence"
  BY EditShapes
<1>2. Section(e.kind) \subseteq Kinds /\ e.kind \in Section(e.kind)
  BY SectionFacts
<1>3. Holds(doc, e.kind, e.id)
  BY Accepted
<1>4. ApplyEdit(doc, e) = after /\ InverseEdit(doc, e) = inverse
  BY DEF ApplyEdit, InverseEdit
<1>5. /\ empty = [kind \in Section(e.kind) |-> empty[kind]]
      /\ DOMAIN empty = Section(e.kind)
      /\ \A kind \in Section(e.kind) : empty[kind] = <<>>
      /\ lists = [kind \in Section(e.kind) |-> lists[kind]]
      /\ \A kind \in Section(e.kind) : lists[kind] = doc[kind]
      /\ DOMAIN lists = Section(e.kind)
  OBVIOUS
<1> HIDE DEF empty, lists
<1>6. \A kind : WellFormedList(kind, <<>>)
  BY DEF WellFormedList, IsASequence
<1>7. /\ WellFormed(after)
      /\ \A kind \in Section(e.kind) : after[kind] = <<>>
      /\ \A kind \in Kinds \ Section(e.kind) : after[kind] = doc[kind]
  BY <1>1, <1>2, <1>5, <1>6, SectionChanged
<1> HIDE DEF after
<1>8. Len(doc[e.kind]) = 1 /\ doc[e.kind][1].id = e.id
  <2>1. IsASequence(doc[e.kind]) /\ Len(doc[e.kind]) <= 1
    BY <1>1 DEF WellFormed, WellFormedList
  <2>2. PICK i \in DOMAIN doc[e.kind] : doc[e.kind][i].id = e.id
    BY <1>3, HeldItem
  <2>3. Len(doc[e.kind]) \in Nat /\ i \in 1..Len(doc[e.kind])
    BY <2>1, <2>2, SequenceFacts
  <2> DEFINE n == Len(doc[e.kind])
  <2>4. n \in Nat /\ i \in 1..n /\ n <= 1
    BY <2>1, <2>3
  <2> HIDE DEF n
  <2>5. n = 1 /\ i = 1
    BY <2>4
  <2> QED
    BY <2>2, <2>5 DEF n
<1>9. inverse = [op |-> "insert", kind |-> e.kind, id |-> e.id, part |-> "presence",
                 value |-> lists, index |-> AtEnd]
  BY DEF InsertEdit
<1> HIDE DEF inverse
<1>10. WellFormedEdit(inverse)
  <2>1. \A kind \in Section(e.kind) : WellFormedList(kind, lists[kind])
    BY <1>2, <1>5 DEF WellFormed
  <2>2. Len(lists[e.kind]) = 1 /\ lists[e.kind][1].id = e.id
    BY <1>2, <1>5, <1>8
  <2>3. WellFormedInsertion(inverse)
    BY <1>5, <1>9, <2>1, <2>2 DEF WellFormedInsertion
  <2> QED
    BY <1>1, <1>9, <2>3 DEF WellFormedEdit
<1>11. \A c \in ContainerOf(e.kind) : FALSE
  BY ContainerOfFacts
<1>12. Refusal(after, inverse) = "Ok"
  BY <1>2, <1>7, <1>9, <1>11, Accepted
<1>13. ApplyEdit(after, inverse) = doc
  <2>1. ApplyEdit(after, inverse) = Over(lists, after)
    BY <1>9 DEF ApplyEdit
  <2>2. DOMAIN after = Kinds
    BY <1>7 DEF WellFormed
  <2>3. Section(e.kind) \cup Kinds = Kinds
    BY <1>2
  <2>4. Over(lists, after)
          = [x \in Kinds |-> IF x \in Section(e.kind) THEN lists[x] ELSE after[x]]
    BY <1>5, <2>2, <2>3 DEF Over
  <2>5. \A x \in Kinds : (IF x \in Section(e.kind) THEN lists[x] ELSE after[x]) = doc[x]
    BY <1>5, <1>7
  <2>6. doc = [kind \in Kinds |-> doc[kind]]
    BY DEF WellFormed
  <2> QED
    BY <2>1, <2>4, <2>5, <2>6
<1>14. DiffersOnlyAt(doc, after, Address(e))
  <2> SUFFICES ASSUME NEW b, AddressIn(b), Content(doc, b) # Content(after, b)
               PROVE  ConflictsWith(b, Address(e))
    BY DEF DiffersOnlyAt
  <2>1. b.kind \in Section(e.kind)
    BY <1>7, OneContainerChanged
  <2> QED
    BY <1>1, <2>1 DEF ConflictsWith, Covers, Address
<1> QED
  BY <1>4, <1>7, <1>10, <1>12, <1>13, <1>14 DEF Reverses

(* Every accepted edit is taken back by its inverse, which is accepted on   *)
(* what the edit left, and changes nothing but what its address covers.     *)
THEOREM EditIsReversible ==
  ASSUME NEW doc, NEW e, WellFormed(doc), WellFormedEdit(e), Refusal(doc, e) = "Ok"
  PROVE  Reverses(doc, e) /\ DiffersOnlyAt(doc, ApplyEdit(doc, e), Address(e))
BY EditShapes, InsertItem, RemoveItem, SetPart, InsertContainer, RemoveContainer

-----------------------------------------------------------------------------
(* Lemmas on one batch.                                                    *)

(* A batch is replayed edit by edit.                                        *)
LEMMA ReplayRun ==
  ASSUME NEW doc, NEW edits, Len(edits) \in Nat
  PROVE  \E run : /\ Replay(doc, edits) = run[Len(edits)]
                  /\ run[0] = Untouched(doc)
                  /\ \A k \in 1..Len(edits) : run[k] = ReplayEdit(run[k - 1], edits[k])
<1> DEFINE N == Len(edits)
           Defined(n) == \E g : g = [k \in 0..n |-> IF k = 0 THEN Untouched(doc)
                                                    ELSE ReplayEdit(g[k - 1], edits[k])]
           T == {n \in Nat : ~Defined(n)}
<1>1. Defined(N)
  <2> SUFFICES ASSUME ~Defined(N)
               PROVE  FALSE
    OBVIOUS
  <2>1. T # {} /\ T \subseteq Nat
    OBVIOUS
  <2> HIDE DEF Defined
  <2>2. PICK n \in T : \A y \in T : n <= y
    BY <2>1, LeastNatural
  <2>3. n \in Nat /\ ~Defined(n)
    OBVIOUS
  <2>4. CASE n = 0
    <3> DEFINE g == [k \in 0..0 |-> Untouched(doc)]
    <3>1. g = [k \in 0..0 |-> IF k = 0 THEN Untouched(doc) ELSE ReplayEdit(g[k - 1], edits[k])]
      OBVIOUS
    <3> HIDE DEF g
    <3>2. Defined(0)
      BY <3>1 DEF Defined
    <3> QED
      BY <2>3, <2>4, <3>2
  <2>5. CASE n # 0
    <3>1. n - 1 \in Nat /\ ~(n <= n - 1)
      BY <2>3, <2>5
    <3>2. Defined(n - 1)
      BY <2>2, <3>1
    <3>3. PICK g : g = [k \in 0..n - 1 |-> IF k = 0 THEN Untouched(doc)
                                           ELSE ReplayEdit(g[k - 1], edits[k])]
      BY <3>2 DEF Defined
    <3> DEFINE h == [k \in 0..n |-> IF k < n THEN g[k] ELSE ReplayEdit(g[n - 1], edits[n])]
    <3>4. \A k \in 0..n : k - 1 \in 0..n => h[k - 1] = g[k - 1]
      BY <2>3
    <3>5. \A k \in 0..n :
            h[k] = IF k = 0 THEN Untouched(doc) ELSE ReplayEdit(h[k - 1], edits[k])
      <4> TAKE k \in 0..n
      <4>1. CASE k = 0
        BY <2>3, <2>5, <3>3, <4>1
      <4>2. CASE k # 0 /\ k < n
        <5>1. h[k] = g[k] /\ k \in 0..n - 1 /\ k - 1 \in 0..n
          BY <2>3, <4>2
        <5> HIDE DEF h
        <5> QED
          BY <3>3, <3>4, <4>2, <5>1
      <4>3. CASE k = n
        <5>1. h[k] = ReplayEdit(g[n - 1], edits[n]) /\ k - 1 \in 0..n
          BY <2>3, <2>5, <4>3
        <5> HIDE DEF h
        <5> QED
          BY <2>5, <3>4, <4>3, <5>1
      <4> QED
        BY <2>3, <4>1, <4>2, <4>3
    <3>6. DOMAIN h = 0..n /\ h = [k \in 0..n |-> h[k]]
      OBVIOUS
    <3> HIDE DEF h
    <3>7. h = [k \in 0..n |-> IF k = 0 THEN Untouched(doc) ELSE ReplayEdit(h[k - 1], edits[k])]
      BY <3>5, <3>6
    <3>8. Defined(n)
      BY <3>7 DEF Defined
    <3> QED
      BY <2>3, <3>8
  <2> QED
    BY <2>4, <2>5
<1> DEFINE run == CHOOSE g : g = [k \in 0..N |-> IF k = 0 THEN Untouched(doc)
                                                 ELSE ReplayEdit(g[k - 1], edits[k])]
<1>2. Replay(doc, edits) = run[N]
  BY DEF Replay
<1>3. run = [k \in 0..N |-> IF k = 0 THEN Untouched(doc) ELSE ReplayEdit(run[k - 1], edits[k])]
  BY <1>1
<1> HIDE DEF run
<1>4. run[0] = Untouched(doc) /\ \A k \in 1..N : run[k] = ReplayEdit(run[k - 1], edits[k])
  BY <1>3
<1> QED
  BY <1>2, <1>4

(* A set of positions that holds the first, and with each its next.         *)
LEMMA UpTo ==
  ASSUME NEW N \in Nat, NEW S, 0 \in S, \A k \in 1..N : k - 1 \in S => k \in S
  PROVE  \A k \in 0..N : k \in S
<1> DEFINE T == {k \in 0..N : k \notin S}
<1> SUFFICES ASSUME T # {}
             PROVE  FALSE
  OBVIOUS
<1>1. T \subseteq Nat
  OBVIOUS
<1>2. PICK n \in T : \A y \in T : n <= y
  <2> HIDE DEF T
  <2> QED
    BY <1>1, LeastNatural
<1>3. n \in 1..N /\ n - 1 \in 0..N /\ ~(n <= n - 1) /\ n \notin S
  OBVIOUS
<1> QED
  BY <1>2, <1>3

(* One element put before a sequence.                                       *)
LEMMA ConsFacts ==
  ASSUME NEW e, NEW rest, IsASequence(rest)
  PROVE  /\ IsASequence(<<e>> \o rest)
         /\ Len(<<e>> \o rest) = Len(rest) + 1
         /\ (<<e>> \o rest)[1] = e
         /\ \A k \in 1..Len(rest) : (<<e>> \o rest)[k + 1] = rest[k]
<1> DEFINE S == ToSet(rest) \cup {e}
           L == <<e>>
<1>1. Len(rest) \in Nat /\ rest \in Seq(S)
  BY SequenceFacts DEF IsASequence
<1>2. L \in Seq(S) /\ Len(L) = 1 /\ L[1] = e
  OBVIOUS
<1> HIDE DEF S, L
<1>3. /\ L \o rest \in Seq(S) /\ Len(L \o rest) = Len(rest) + 1
      /\ \A i \in 1..Len(rest) + 1 : (L \o rest)[i] = IF i <= 1 THEN L[i] ELSE rest[i - 1]
  <2>1. /\ L \o rest \in Seq(S) /\ Len(L \o rest) = Len(L) + Len(rest)
        /\ \A i \in 1..Len(L) + Len(rest) :
             (L \o rest)[i] = IF i <= Len(L) THEN L[i] ELSE rest[i - Len(L)]
    BY <1>1, <1>2, ConcatProperties
  <2>2. Len(L) + Len(rest) = Len(rest) + 1
    BY <1>1, <1>2
  <2> QED
    BY <1>2, <2>1, <2>2
<1>4. IsASequence(L \o rest)
  <2> DEFINE whole == L \o rest
  <2> HIDE DEF whole
  <2>1. whole \in Seq(S) /\ Len(whole) = Len(rest) + 1
    BY <1>3 DEF whole
  <2>2. whole = [i \in 1..Len(rest) + 1 |-> whole[i]] /\ Len(rest) + 1 \in Nat
    BY <1>1, <2>1, LenProperties
  <2>3. IsASequence(whole)
    BY <2>2, IntervalIsSequence
  <2> QED
    BY <2>3 DEF whole
<1>5. (L \o rest)[1] = e
  BY <1>1, <1>2, <1>3
<1>6. \A k \in 1..Len(rest) : (L \o rest)[k + 1] = rest[k]
  BY <1>1, <1>3
<1> QED
  BY <1>3, <1>4, <1>5, <1>6 DEF L

(* What one step of a replay leaves.                                        *)
IsARun(run) == run = [doc |-> run.doc, refusal |-> run.refusal, inverse |-> run.inverse]

(* A step of a replay applies an accepted edit and puts its inverse before  *)
(* the earlier ones, and leaves the document alone once refused.            *)
LEMMA ReplayEditFacts ==
  ASSUME NEW last, NEW e, IsARun(last)
  PROVE  LET next == ReplayEdit(last, e)
         IN /\ IsARun(next)
            /\ last.refusal # "Ok" => next.refusal = last.refusal /\ next.doc = last.doc
            /\ last.refusal = "Ok" /\ Refusal(last.doc, e) # "Ok" =>
                 next.refusal = Refusal(last.doc, e) /\ next.doc = last.doc
            /\ last.refusal = "Ok" /\ Refusal(last.doc, e) = "Ok" =>
                 /\ next.refusal = "Ok"
                 /\ next.doc = ApplyEdit(last.doc, e)
                 /\ next.inverse = <<InverseEdit(last.doc, e)>> \o last.inverse
<1> DEFINE d == last.doc
           r == last.refusal
           i == last.inverse
<1>1. last = [doc |-> d, refusal |-> r, inverse |-> i]
  BY DEF IsARun
<1>2. CASE r # "Ok"
  BY <1>2 DEF ReplayEdit
<1>3. CASE r = "Ok" /\ Refusal(d, e) # "Ok"
  <2>1. ReplayEdit(last, e) = [last EXCEPT !.refusal = Refusal(d, e)]
    BY <1>3 DEF ReplayEdit
  <2> HIDE DEF d, r, i
  <2>2. ReplayEdit(last, e) = [doc |-> d, refusal |-> Refusal(d, e), inverse |-> i]
    BY <1>1, <2>1
  <2> QED
    BY <1>1, <1>3, <2>2 DEF IsARun
<1>4. CASE r = "Ok" /\ Refusal(d, e) = "Ok"
  BY <1>4 DEF ReplayEdit, IsARun
<1> QED
  BY <1>2, <1>3, <1>4

(* A replay is the last of a run of steps, one per edit.                    *)
LEMMA RunFacts ==
  ASSUME NEW doc, NEW edits, Len(edits) \in Nat
  PROVE  \E run : /\ Replay(doc, edits) = run[Len(edits)]
                  /\ run[0] = Untouched(doc)
                  /\ \A k \in 1..Len(edits) : run[k] = ReplayEdit(run[k - 1], edits[k])
                  /\ \A k \in 0..Len(edits) : IsARun(run[k])
<1>1. PICK run : /\ Replay(doc, edits) = run[Len(edits)]
                 /\ run[0] = Untouched(doc)
                 /\ \A k \in 1..Len(edits) : run[k] = ReplayEdit(run[k - 1], edits[k])
  BY ReplayRun
<1> DEFINE S == {k \in 0..Len(edits) : IsARun(run[k])}
<1>2. 0 \in S
  <2>1. IsARun(Untouched(doc))
    BY DEF Untouched, IsARun
  <2> QED
    BY <1>1, <2>1
<1>3. ASSUME NEW k \in 1..Len(edits), k - 1 \in S
      PROVE  k \in S
  <2> DEFINE last == run[k - 1]
             e == edits[k]
  <2>1. IsARun(last)
    BY <1>3
  <2> HIDE DEF last, e
  <2>2. IsARun(ReplayEdit(last, e))
    BY <2>1, ReplayEditFacts
  <2>3. IsARun(run[k])
    BY <1>1, <2>2 DEF last, e
  <2> QED
    BY <2>3
<1> HIDE DEF S
<1>4. \A k \in 0..Len(edits) : k \in S
  BY <1>2, <1>3, UpTo
<1> QED
  BY <1>1, <1>4 DEF S

(* A batch continues where its first edit left.                             *)
LEMMA ReplayCons ==
  ASSUME NEW doc, NEW e, NEW rest, IsASequence(rest), Refusal(doc, e) = "Ok"
  PROVE  /\ Replay(doc, <<e>> \o rest).doc = Replay(ApplyEdit(doc, e), rest).doc
         /\ Replay(doc, <<e>> \o rest).refusal = Replay(ApplyEdit(doc, e), rest).refusal
<1> DEFINE edits == <<e>> \o rest
           after == ApplyEdit(doc, e)
           N == Len(rest)
<1>1. /\ N \in Nat /\ Len(edits) = N + 1 /\ edits[1] = e
      /\ \A k \in 1..N : edits[k + 1] = rest[k]
  BY ConsFacts, SequenceFacts
<1> HIDE DEF edits, after, N
<1>2. PICK whole : /\ Replay(doc, edits) = whole[N + 1]
                   /\ whole[0] = Untouched(doc)
                   /\ \A k \in 1..N + 1 : whole[k] = ReplayEdit(whole[k - 1], edits[k])
                   /\ \A k \in 0..N + 1 : IsARun(whole[k])
  <2>1. Len(edits) \in Nat
    BY <1>1
  <2>2. PICK whole : /\ Replay(doc, edits) = whole[Len(edits)]
                     /\ whole[0] = Untouched(doc)
                     /\ \A k \in 1..Len(edits) : whole[k] = ReplayEdit(whole[k - 1], edits[k])
                     /\ \A k \in 0..Len(edits) : IsARun(whole[k])
    BY <2>1, RunFacts
  <2> QED
    BY <1>1, <2>2
<1>3. PICK tail : /\ Replay(after, rest) = tail[N]
                  /\ tail[0] = Untouched(after)
                  /\ \A k \in 1..N : tail[k] = ReplayEdit(tail[k - 1], rest[k])
                  /\ \A k \in 0..N : IsARun(tail[k])
  BY <1>1, RunFacts DEF N
<1> DEFINE S == {k \in 0..N : /\ whole[k + 1].doc = tail[k].doc
                              /\ whole[k + 1].refusal = tail[k].refusal}
<1>4. 0 \in S
  <2>1. IsARun(whole[0]) /\ whole[0].doc = doc /\ whole[0].refusal = "Ok"
    BY <1>1, <1>2 DEF Untouched
  <2>2. whole[1] = ReplayEdit(whole[0], e)
    BY <1>1, <1>2
  <2>3. whole[1].doc = after /\ whole[1].refusal = "Ok"
    <3> DEFINE last == whole[0]
    <3>1. IsARun(last) /\ last.refusal = "Ok" /\ Refusal(last.doc, e) = "Ok"
      BY <2>1
    <3> HIDE DEF last
    <3>2. /\ ReplayEdit(last, e).doc = ApplyEdit(last.doc, e)
          /\ ReplayEdit(last, e).refusal = "Ok"
      BY <3>1, ReplayEditFacts
    <3> QED
      BY <2>1, <2>2, <3>2 DEF last, after
  <2> QED
    BY <1>1, <1>3, <2>3 DEF Untouched
<1>5. ASSUME NEW k \in 1..N, k - 1 \in S
      PROVE  k \in S
  <2>1. /\ whole[k + 1] = ReplayEdit(whole[k], rest[k])
        /\ IsARun(whole[k])
    BY <1>1, <1>2
  <2>2. /\ tail[k] = ReplayEdit(tail[k - 1], rest[k])
        /\ IsARun(tail[k - 1])
    BY <1>1, <1>3
  <2>3. whole[k].doc = tail[k - 1].doc /\ whole[k].refusal = tail[k - 1].refusal
    BY <1>1, <1>5
  <2>4. whole[k + 1].doc = tail[k].doc /\ whole[k + 1].refusal = tail[k].refusal
    <3> DEFINE l1 == whole[k]
               l2 == tail[k - 1]
               x == rest[k]
    <3>1. IsARun(l1) /\ IsARun(l2) /\ l1.doc = l2.doc /\ l1.refusal = l2.refusal
      BY <2>1, <2>2, <2>3
    <3> HIDE DEF l1, l2, x
    <3> DEFINE Left(l, r) ==
                 /\ l.refusal # "Ok" => r.refusal = l.refusal /\ r.doc = l.doc
                 /\ l.refusal = "Ok" /\ Refusal(l.doc, x) # "Ok" =>
                      r.refusal = Refusal(l.doc, x) /\ r.doc = l.doc
                 /\ l.refusal = "Ok" /\ Refusal(l.doc, x) = "Ok" =>
                      r.refusal = "Ok" /\ r.doc = ApplyEdit(l.doc, x)
               r1 == ReplayEdit(l1, x)
               r2 == ReplayEdit(l2, x)
    <3>2. Left(l1, r1)
      BY <3>1, ReplayEditFacts
    <3>3. Left(l2, r2)
      BY <3>1, ReplayEditFacts
    <3> HIDE DEF r1, r2
    <3>4. r1.doc = r2.doc /\ r1.refusal = r2.refusal
      BY <3>1, <3>2, <3>3
    <3>5. /\ ReplayEdit(l1, x).doc = ReplayEdit(l2, x).doc
          /\ ReplayEdit(l1, x).refusal = ReplayEdit(l2, x).refusal
      BY <3>4 DEF r1, r2
    <3> QED
      BY <2>1, <2>2, <3>5 DEF l1, l2, x
  <2> QED
    BY <2>4
<1> HIDE DEF S
<1>6. \A k \in 0..N : k \in S
  BY <1>1, <1>4, <1>5, UpTo
<1>7. N \in S
  BY <1>1, <1>6
<1> QED
  BY <1>2, <1>3, <1>7 DEF S, edits, after

(* Replaying an accepted batch leaves a well-formed document, changes       *)
(* nothing but what one of its addresses covers, and leaves the batch that  *)
(* takes it back.                                                           *)
THEOREM BatchIsReversible ==
  ASSUME NEW doc, NEW edits, WellFormed(doc), WellFormedBatch(edits),
         Replay(doc, edits).refusal = "Ok"
  PROVE  LET run == Replay(doc, edits)
         IN /\ IsARun(run)
            /\ WellFormed(run.doc)
            /\ WellFormedBatch(run.inverse)
            /\ Replay(run.doc, run.inverse).refusal = "Ok"
            /\ Replay(run.doc, run.inverse).doc = doc
            /\ \A b : AddressIn(b) /\ Content(doc, b) # Content(run.doc, b) =>
                 \E i \in DOMAIN edits : ConflictsWith(b, Address(edits[i]))
<1> DEFINE N == Len(edits)
<1>1. N \in Nat /\ DOMAIN edits = 1..N
  BY SequenceFacts DEF WellFormedBatch
<1>2. PICK run : /\ Replay(doc, edits) = run[N]
                 /\ run[0] = Untouched(doc)
                 /\ \A k \in 1..N : run[k] = ReplayEdit(run[k - 1], edits[k])
                 /\ \A k \in 0..N : IsARun(run[k])
  BY <1>1, RunFacts
<1> HIDE DEF N
<1> DEFINE Good(r, k) ==
             /\ WellFormed(r.doc)
             /\ WellFormedBatch(r.inverse)
             /\ Replay(r.doc, r.inverse).refusal = "Ok"
             /\ Replay(r.doc, r.inverse).doc = doc
             /\ \A b : AddressIn(b) /\ Content(doc, b) # Content(r.doc, b) =>
                  \E i \in 1..k : ConflictsWith(b, Address(edits[i]))
           S == {k \in 0..N : run[k].refusal = "Ok" => Good(run[k], k)}
<1>3. 0 \in S
  <2>1. run[0].doc = doc /\ run[0].inverse = <<>>
    BY <1>2 DEF Untouched
  <2>2. Len(<<>>) = 0 /\ WellFormedBatch(<<>>)
    BY DEF WellFormedBatch, IsASequence
  <2>3. Replay(doc, <<>>) = Untouched(doc)
    BY <2>2, ReplayRun
  <2>4. Good(run[0], 0)
    BY <2>1, <2>2, <2>3 DEF Untouched
  <2> QED
    BY <1>1, <2>4
<1>4. ASSUME NEW k \in 1..N, k - 1 \in S
      PROVE  k \in S
  <2> DEFINE last == run[k - 1]
             next == run[k]
             e == edits[k]
             inverse == InverseEdit(last.doc, e)
  <2> SUFFICES ASSUME next.refusal = "Ok"
               PROVE  Good(next, k)
    OBVIOUS
  <2>1. next = ReplayEdit(last, e) /\ IsARun(last)
    BY <1>1, <1>2
  <2>2. /\ last.refusal = "Ok" /\ Refusal(last.doc, e) = "Ok"
        /\ next.doc = ApplyEdit(last.doc, e)
        /\ next.inverse = <<inverse>> \o last.inverse
    <3>1. next.refusal = "Ok"
      OBVIOUS
    <3> HIDE DEF last, next, e
    <3> QED
      BY <2>1, <3>1, ReplayEditFacts
  <2>3. Good(last, k - 1)
    BY <1>4, <2>2
  <2>4. WellFormedEdit(e)
    BY <1>1 DEF WellFormedBatch
  <2>5. Reverses(last.doc, e) /\ DiffersOnlyAt(last.doc, next.doc, Address(e))
    BY <2>2, <2>3, <2>4, EditIsReversible
  <2>6. /\ WellFormed(next.doc) /\ WellFormedEdit(inverse)
        /\ Refusal(next.doc, inverse) = "Ok" /\ ApplyEdit(next.doc, inverse) = last.doc
    BY <2>2, <2>5 DEF Reverses
  <2>7. WellFormedBatch(next.inverse)
    <3>1. IsASequence(last.inverse)
      BY <2>3 DEF WellFormedBatch
    <3>2. /\ IsASequence(next.inverse) /\ Len(next.inverse) = Len(last.inverse) + 1
          /\ next.inverse[1] = inverse
          /\ \A i \in 1..Len(last.inverse) : next.inverse[i + 1] = last.inverse[i]
      BY <2>2, <3>1, ConsFacts
    <3>3. Len(last.inverse) \in Nat /\ DOMAIN next.inverse = 1..Len(last.inverse) + 1
          /\ DOMAIN last.inverse = 1..Len(last.inverse)
      BY <3>1, <3>2, SequenceFacts
    <3>4. \A i \in 1..Len(last.inverse) + 1 : i = 1 \/ i - 1 \in 1..Len(last.inverse)
      BY <3>3
    <3>5. ASSUME NEW i \in DOMAIN next.inverse
          PROVE  WellFormedEdit(next.inverse[i])
      <4>1. CASE i = 1
        BY <2>6, <3>2, <4>1
      <4>2. CASE i # 1
        <5>1. i - 1 \in 1..Len(last.inverse) /\ (i - 1) + 1 = i
          BY <3>3, <4>2
        <5>2. next.inverse[i] = last.inverse[i - 1]
          BY <3>2, <5>1
        <5> QED
          BY <2>3, <3>3, <5>1, <5>2 DEF WellFormedBatch
      <4> QED
        BY <4>1, <4>2
    <3> QED
      BY <3>2, <3>5 DEF WellFormedBatch
  <2>8. /\ Replay(next.doc, next.inverse).refusal = "Ok"
        /\ Replay(next.doc, next.inverse).doc = doc
    BY <2>2, <2>3, <2>6, ReplayCons DEF WellFormedBatch
  <2>9. ASSUME NEW b, AddressIn(b), Content(doc, b) # Content(next.doc, b)
        PROVE  \E i \in 1..k : ConflictsWith(b, Address(edits[i]))
    <3>1. CASE Content(last.doc, b) # Content(next.doc, b)
      BY <2>5, <2>9, <3>1 DEF DiffersOnlyAt
    <3>2. CASE Content(doc, b) # Content(last.doc, b)
      <4>1. PICK i \in 1..k - 1 : ConflictsWith(b, Address(edits[i]))
        BY <2>3, <2>9, <3>2
      <4> QED
        BY <1>1, <4>1
    <3> QED
      BY <2>9, <3>1, <3>2
  <2> QED
    BY <2>6, <2>7, <2>8, <2>9
<1> HIDE DEF S, Good
<1>5. \A k \in 0..N : k \in S
  BY <1>1, <1>3, <1>4, UpTo
<1>6. Good(run[N], N)
  BY <1>1, <1>2, <1>5 DEF S
<1> QED
  BY <1>1, <1>2, <1>6 DEF Good

-----------------------------------------------------------------------------
(* The inductive invariant: what the stacks and the log say of the line of  *)
(* contents.                                                                *)

(* Every content was reached through well-formed edits, the last is in      *)
(* force.                                                                   *)
VersionsInv ==
  /\ revision \in Nat
  /\ IsASequence(versions)
  /\ Len(versions) = revision + 1
  /\ \A r \in 0..revision : WellFormed(versions[r + 1])
  /\ versions[1] \in Documents
  /\ document = versions[revision + 1]

(* Report i of the log holds an address that covers whatever differs        *)
(* between the content of its revision and the content before it.           *)
LogInv ==
  /\ base \in 0..revision
  /\ IsASequence(log)
  /\ Len(log) = revision - base
  /\ \A i \in 1..revision - base :
       /\ log[i].from = base + i - 1
       /\ log[i].to = base + i
       /\ IsASequence(log[i].addresses)
       /\ log[i].targets = [k \in DOMAIN log[i].addresses |-> TargetOf(log[i].addresses[k])]
       /\ \A b : AddressIn(b) /\ Content(versions[base + i], b) # Content(versions[base + i + 1], b)
                   => \E k \in DOMAIN log[i].addresses : ConflictsWith(b, log[i].addresses[k])

(* A transaction leads from one content of a line to another, and its       *)
(* inverse is what replaying it generates.                                  *)
Leads(entry, line) ==
  LET run == Replay(line[entry.forward.expected + 1], entry.forward.edits)
  IN /\ entry.forward.expected \in 0..Len(line) - 2
     /\ entry.inverse.expected = entry.forward.expected + 1
     /\ WellFormedBatch(entry.forward.edits)
     /\ run.refusal = "Ok"
     /\ run.doc = line[entry.inverse.expected + 1]
     /\ run.inverse = entry.inverse.edits

Start(entry, line) == line[entry.forward.expected + 1]
End(entry, line) == line[entry.inverse.expected + 1]

(* Each committed transaction ends where the one above it on the undo stack *)
(* begins, each undone one begins where the one above it on the redo stack  *)
(* ends; the last of both meet at the content in force.                     *)
UndoStack(stack, line) ==
  /\ IsASequence(stack)
  /\ \A k \in DOMAIN stack :
       /\ Leads(stack[k], line)
       /\ k = Len(stack) => End(stack[k], line) = Last(line)
       /\ k # Len(stack) => End(stack[k], line) = Start(stack[k + 1], line)
RedoStack(stack, line) ==
  /\ IsASequence(stack)
  /\ \A k \in DOMAIN stack :
       /\ Leads(stack[k], line)
       /\ k = Len(stack) => Start(stack[k], line) = Last(line)
       /\ k # Len(stack) => Start(stack[k], line) = End(stack[k + 1], line)

StacksInv == UndoStack(undo, versions) /\ RedoStack(redo, versions)

HistoryInv == VersionsInv /\ LogInv /\ StacksInv


(* A sequence with one more element.                                        *)
LEMMA AppendFacts ==
  ASSUME NEW s, IsASequence(s), NEW e
  PROVE  /\ IsASequence(Append(s, e))
         /\ Len(Append(s, e)) = Len(s) + 1
         /\ DOMAIN Append(s, e) = 1..Len(s) + 1
         /\ \A i \in 1..Len(s) : Append(s, e)[i] = s[i]
         /\ Append(s, e)[Len(s) + 1] = e
         /\ Append(s, e) # <<>>
         /\ Last(Append(s, e)) = e
<1> DEFINE S == ToSet(s) \cup {e}
           t == Append(s, e)
<1>1. Len(s) \in Nat /\ s \in Seq(S) /\ e \in S
  BY SequenceFacts DEF IsASequence
<1> HIDE DEF S
<1>2. t \in Seq(S) /\ Len(t) = Len(s) + 1 /\ (\A i \in 1..Len(s) : t[i] = s[i])
      /\ t[Len(s) + 1] = e
  BY <1>1, AppendProperties
<1> HIDE DEF t
<1>3. t = [i \in 1..Len(s) + 1 |-> t[i]] /\ Len(s) + 1 \in Nat
  BY <1>1, <1>2, LenProperties
<1>4. IsASequence(t) /\ DOMAIN t = 1..Len(s) + 1
  BY <1>3, IntervalIsSequence
<1>5. t # <<>>
  BY <1>1, <1>2
<1>6. Last(t) = e
  BY <1>2 DEF Last
<1> QED
  BY <1>2, <1>4, <1>5, <1>6 DEF t

(* A non-empty sequence without its last element.                           *)
LEMMA FrontFacts ==
  ASSUME NEW s, IsASequence(s), s # <<>>
  PROVE  /\ Len(s) \in Nat /\ Len(s) >= 1 /\ Len(s) \in DOMAIN s /\ Last(s) = s[Len(s)]
         /\ IsASequence(Front(s))
         /\ Len(Front(s)) = Len(s) - 1
         /\ DOMAIN Front(s) = 1..Len(s) - 1
         /\ \A i \in 1..Len(s) - 1 : i \in DOMAIN s /\ Front(s)[i] = s[i]
<1> DEFINE S == ToSet(s)
           t == Front(s)
           n == Len(s)
<1>1. n \in Nat /\ n >= 1 /\ n \in 1..n /\ s \in Seq(S) /\ DOMAIN s = 1..n
  BY SequenceFacts DEF IsASequence
<1>2. t = SubSeq(s, 1, n - 1)
  BY DEF Front
<1> HIDE DEF S, t, n
<1>3. t \in Seq(S) /\ Len(t) = n - 1 /\ \A i \in 1..n - 1 : t[i] = s[i]
  BY <1>1, <1>2, SubSeqProperties DEF n
<1>4. t = [i \in 1..n - 1 |-> t[i]] /\ n - 1 \in Nat
  BY <1>1, <1>3, LenProperties
<1>5. IsASequence(t) /\ DOMAIN t = 1..n - 1
  BY <1>4, IntervalIsSequence
<1>6. \A i \in 1..n - 1 : i \in DOMAIN s
  BY <1>1
<1> QED
  BY <1>1, <1>3, <1>5, <1>6 DEF t, n, Last

(* A new revision extends the line and the log.                             *)
LEMMA ReplaceExtends ==
  ASSUME VersionsInv, LogInv, NEW edits, WellFormedBatch(edits),
         NEW run, run = Replay(document, edits), run.refusal = "Ok", Replace(edits, run)
  PROVE  /\ VersionsInv'
         /\ LogInv'
         /\ \A r \in 0..revision : versions'[r + 1] = versions[r + 1]
         /\ versions'[revision + 2] = run.doc
         /\ document' = run.doc
<1>1. /\ revision \in Nat /\ IsASequence(versions) /\ Len(versions) = revision + 1
      /\ document = versions[revision + 1] /\ WellFormed(document)
  BY DEF VersionsInv
<1>2. /\ document' = run.doc /\ revision' = revision + 1 /\ base' = base
      /\ versions' = Append(versions, run.doc)
  BY DEF Replace
<1>3. /\ WellFormed(run.doc)
      /\ \A b : AddressIn(b) /\ Content(document, b) # Content(run.doc, b) =>
           \E i \in DOMAIN edits : ConflictsWith(b, Address(edits[i]))
  BY <1>1, BatchIsReversible
<1>4. /\ IsASequence(versions') /\ Len(versions') = revision + 2
      /\ \A r \in 0..revision : versions'[r + 1] = versions[r + 1]
      /\ versions'[revision + 2] = run.doc
  <2>1. /\ IsASequence(versions') /\ Len(versions') = Len(versions) + 1
        /\ \A i \in 1..Len(versions) : versions'[i] = versions[i]
        /\ versions'[Len(versions) + 1] = run.doc
    BY <1>1, <1>2, AppendFacts
  <2> QED
    BY <1>1, <2>1
<1>5. VersionsInv'
  <2>1. \A r \in 0..revision' : WellFormed(versions'[r + 1])
    <3> TAKE r \in 0..revision'
    <3>1. CASE r \in 0..revision
      BY <1>4, <3>1 DEF VersionsInv
    <3>2. CASE r = revision + 1
      BY <1>1, <1>3, <1>4, <3>2
    <3> QED
      BY <1>1, <1>2, <3>1, <3>2
  <2>2. versions'[1] \in Documents
    BY <1>1, <1>4 DEF VersionsInv
  <2>3. document' = versions'[revision' + 1] /\ revision' \in Nat /\ Len(versions') = revision' + 1
    BY <1>1, <1>2, <1>4
  <2> QED
    BY <1>4, <2>1, <2>2, <2>3 DEF VersionsInv
<1>6. LogInv'
  <2> DEFINE report == [from |-> revision, to |-> revision + 1,
                        targets |-> Targets(edits), addresses |-> Addresses(edits)]
             n == revision - base
  <2>1. base \in 0..revision /\ n \in Nat /\ IsASequence(log) /\ Len(log) = n
    BY <1>1 DEF LogInv
  <2>2. log' = Append(log, report)
    BY DEF Replace
  <2>3. /\ IsASequence(log') /\ Len(log') = n + 1
        /\ \A i \in 1..n : log'[i] = log[i]
        /\ log'[n + 1] = report
    <3> HIDE DEF report
    <3> QED
      BY <2>1, <2>2, AppendFacts
  <2>4. base' \in 0..revision' /\ Len(log') = revision' - base' /\ revision' - base' = n + 1
    BY <1>1, <1>2, <2>1, <2>3
  <2>5. IsASequence(edits) /\ Len(edits) \in Nat /\ DOMAIN edits = 1..Len(edits)
    BY SequenceFacts DEF WellFormedBatch
  <2>6. /\ report.from = revision /\ report.to = revision + 1
        /\ IsASequence(report.addresses)
        /\ report.targets = [k \in DOMAIN report.addresses |-> TargetOf(report.addresses[k])]
        /\ \A b : AddressIn(b) /\ Content(document, b) # Content(run.doc, b) =>
             \E k \in DOMAIN report.addresses : ConflictsWith(b, report.addresses[k])
    <3>1. /\ report.addresses = [i \in 1..Len(edits) |-> Address(edits[i])]
          /\ report.targets = [i \in 1..Len(edits) |-> Target(edits[i])]
      BY <2>5 DEF Addresses, Targets
    <3>2. \A i \in 1..Len(edits) : TargetOf(Address(edits[i])) = Target(edits[i])
      BY DEF TargetOf, Address, Target
    <3>3. report.from = revision /\ report.to = revision + 1
      OBVIOUS
    <3> HIDE DEF report
    <3>4. /\ DOMAIN report.addresses = 1..Len(edits)
          /\ \A i \in 1..Len(edits) : report.addresses[i] = Address(edits[i])
          /\ report.addresses = [i \in 1..Len(edits) |-> report.addresses[i]]
      BY <3>1
    <3>5. IsASequence(report.addresses)
      BY <2>5, <3>4, IntervalIsSequence
    <3>6. report.targets = [k \in DOMAIN report.addresses |-> TargetOf(report.addresses[k])]
      BY <3>1, <3>2, <3>4
    <3> QED
      BY <1>3, <2>5, <3>3, <3>4, <3>5, <3>6
  <2> HIDE DEF report, n
  <2>7. ASSUME NEW i \in 1..n + 1
        PROVE  /\ log'[i].from = base + i - 1
               /\ log'[i].to = base + i
               /\ IsASequence(log'[i].addresses)
               /\ log'[i].targets
                    = [k \in DOMAIN log'[i].addresses |-> TargetOf(log'[i].addresses[k])]
               /\ \A b : AddressIn(b)
                         /\ Content(versions'[base + i], b) # Content(versions'[base + i + 1], b)
                           => \E k \in DOMAIN log'[i].addresses :
                                ConflictsWith(b, log'[i].addresses[k])
    <3>1. CASE i \in 1..n
      <4>1. log'[i] = log[i] /\ i \in 1..revision - base
        BY <2>3, <3>1 DEF n
      <4>2. versions'[base + i] = versions[base + i] /\ versions'[base + i + 1] = versions[base + i + 1]
        <5>1. /\ base + i - 1 \in 0..revision /\ (base + i - 1) + 1 = base + i
              /\ base + i \in 0..revision
          BY <1>1, <2>1, <3>1 DEF n
        <5> QED
          BY <1>4, <5>1
      <4> QED
        BY <4>1, <4>2 DEF LogInv
    <3>2. CASE i = n + 1
      <4>1. log'[i] = report /\ base + i = revision + 1 /\ base + i - 1 = revision
            /\ base + i + 1 = revision + 2
        BY <1>1, <2>1, <2>3, <3>2 DEF n
      <4>2. versions'[base + i] = document /\ versions'[base + i + 1] = run.doc
        BY <1>1, <1>4, <4>1
      <4> QED
        BY <2>6, <4>1, <4>2
    <3> QED
      BY <2>1, <3>1, <3>2
  <2> QED
    BY <1>2, <2>3, <2>4, <2>7 DEF LogInv
<1> QED
  BY <1>2, <1>4, <1>5, <1>6

-----------------------------------------------------------------------------
(* The stacks when the line grows by a content.                             *)

(* Old transactions lead where they led.                                    *)
LEMMA LeadsStays ==
  ASSUME NEW line, IsASequence(line), NEW d, NEW entry, Leads(entry, line)
  PROVE  /\ Leads(entry, Append(line, d))
         /\ Start(entry, Append(line, d)) = Start(entry, line)
         /\ End(entry, Append(line, d)) = End(entry, line)
<1> DEFINE n == Len(line)
           more == Append(line, d)
           f == entry.forward.expected
<1>1. n \in Nat /\ Len(more) = n + 1 /\ \A i \in 1..n : more[i] = line[i]
  BY AppendFacts, SequenceFacts
<1>2. f \in 0..n - 2 /\ f + 1 \in 1..n /\ f + 1 < n /\ entry.inverse.expected = f + 1
  BY <1>1 DEF Leads
<1>3. f + 1 + 1 \in 1..n
  BY <1>1, <1>2
<1> HIDE DEF more, n
<1>4. more[f + 1] = line[f + 1] /\ more[entry.inverse.expected + 1] = line[entry.inverse.expected + 1]
  BY <1>1, <1>2, <1>3
<1>5. f \in 0..Len(more) - 2
  BY <1>1, <1>2
<1>6. Leads(entry, more)
  BY <1>4, <1>5 DEF Leads
<1> QED
  BY <1>4, <1>6 DEF more, Start, End

(* A commit, and a redo, go on top of the undo stack.                       *)
LEMMA UndoPush ==
  ASSUME NEW line, IsASequence(line), NEW d, NEW stack, UndoStack(stack, line), NEW entry,
         Leads(entry, Append(line, d)),
         Start(entry, Append(line, d)) = Last(line), End(entry, Append(line, d)) = d
  PROVE  UndoStack(Append(stack, entry), Append(line, d))
<1> DEFINE n == Len(stack)
           more == Append(line, d)
           next == Append(stack, entry)
<1>1. IsASequence(stack) /\ n \in Nat /\ DOMAIN stack = 1..n
  BY SequenceFacts DEF UndoStack
<1>2. IsASequence(next) /\ Len(next) = n + 1 /\ DOMAIN next = 1..n + 1
      /\ (\A k \in 1..n : next[k] = stack[k]) /\ next[n + 1] = entry
  BY <1>1, AppendFacts
<1>3. Last(more) = d
  BY AppendFacts
<1> HIDE DEF n, next
<1>4. ASSUME NEW k \in 1..n + 1
      PROVE  /\ Leads(next[k], more)
             /\ k = n + 1 => End(next[k], more) = Last(more)
             /\ k # n + 1 => End(next[k], more) = Start(next[k + 1], more)
  <2>1. CASE k = n + 1
    BY <1>2, <1>3, <2>1
  <2>2. CASE k \in 1..n
    <3>1. next[k] = stack[k] /\ Leads(stack[k], line)
      BY <1>1, <1>2, <2>2 DEF UndoStack
    <3>2. Leads(next[k], more) /\ End(next[k], more) = End(stack[k], line)
      BY <3>1, LeadsStays
    <3>3. CASE k = n
      <4>1. End(stack[k], line) = Last(line)
        BY <1>1, <2>2, <3>3 DEF UndoStack, n
      <4> QED
        BY <1>1, <1>2, <3>2, <3>3, <4>1
    <3>4. CASE k # n
      <4>1. End(stack[k], line) = Start(stack[k + 1], line)
        BY <1>1, <2>2, <3>4 DEF UndoStack, n
      <4>2. k + 1 \in 1..n /\ next[k + 1] = stack[k + 1] /\ Leads(stack[k + 1], line)
        BY <1>1, <1>2, <2>2, <3>4 DEF UndoStack
      <4>3. Start(next[k + 1], more) = Start(stack[k + 1], line)
        BY <4>2, LeadsStays
      <4> QED
        BY <1>1, <2>2, <3>2, <4>1, <4>3
    <3> QED
      BY <3>3, <3>4
  <2> QED
    BY <1>1, <2>1, <2>2
<1> HIDE DEF more
<1>5. UndoStack(next, more)
  BY <1>2, <1>4 DEF UndoStack
<1> QED
  BY <1>5 DEF next, more

(* An undo takes the top of the undo stack and makes the content it began   *)
(* at the one in force.                                                     *)
LEMMA UndoPop ==
  ASSUME NEW line, IsASequence(line), NEW stack, UndoStack(stack, line), stack # <<>>,
         NEW d, d = Start(Last(stack), line)
  PROVE  UndoStack(Front(stack), Append(line, d))
<1> DEFINE n == Len(stack)
           more == Append(line, d)
           next == Front(stack)
<1>1. IsASequence(stack) /\ n \in Nat /\ DOMAIN stack = 1..n
  BY SequenceFacts DEF UndoStack
<1>2. /\ n >= 1 /\ Last(stack) = stack[n]
      /\ IsASequence(next) /\ Len(next) = n - 1 /\ DOMAIN next = 1..n - 1
      /\ \A k \in 1..n - 1 : next[k] = stack[k]
  BY <1>1, FrontFacts
<1>3. Last(more) = d
  BY AppendFacts
<1> HIDE DEF n, next
<1>4. ASSUME NEW k \in 1..n - 1
      PROVE  /\ Leads(next[k], more)
             /\ k = n - 1 => End(next[k], more) = Last(more)
             /\ k # n - 1 => End(next[k], more) = Start(next[k + 1], more)
  <2>1. /\ k \in 1..n /\ k # n /\ k + 1 \in 1..n /\ next[k] = stack[k]
        /\ k # n - 1 => next[k + 1] = stack[k + 1]
        /\ k = n - 1 => stack[k + 1] = Last(stack)
    BY <1>1, <1>2
  <2>2. /\ Leads(stack[k], line) /\ Leads(stack[k + 1], line)
        /\ End(stack[k], line) = Start(stack[k + 1], line)
    BY <1>1, <2>1 DEF UndoStack, n
  <2>3. Leads(next[k], more) /\ End(next[k], more) = End(stack[k], line)
    BY <2>1, <2>2, LeadsStays
  <2>4. Start(stack[k + 1], more) = Start(stack[k + 1], line)
    BY <2>2, LeadsStays
  <2> QED
    BY <1>3, <2>1, <2>2, <2>3, <2>4
<1> HIDE DEF more
<1>5. UndoStack(next, more)
  BY <1>2, <1>4 DEF UndoStack
<1> QED
  BY <1>5 DEF next, more

(* An undone transaction goes on top of the redo stack.                     *)
LEMMA RedoPush ==
  ASSUME NEW line, IsASequence(line), NEW stack, RedoStack(stack, line), NEW entry,
         Leads(entry, line), End(entry, line) = Last(line), NEW d, d = Start(entry, line)
  PROVE  RedoStack(Append(stack, entry), Append(line, d))
<1> DEFINE n == Len(stack)
           more == Append(line, d)
           next == Append(stack, entry)
<1>1. IsASequence(stack) /\ n \in Nat /\ DOMAIN stack = 1..n
  BY SequenceFacts DEF RedoStack
<1>2. IsASequence(next) /\ Len(next) = n + 1 /\ DOMAIN next = 1..n + 1
      /\ (\A k \in 1..n : next[k] = stack[k]) /\ next[n + 1] = entry
  BY <1>1, AppendFacts
<1>3. Last(more) = d
  BY AppendFacts
<1>4. Leads(entry, more) /\ Start(entry, more) = d /\ End(entry, more) = Last(line)
  BY LeadsStays
<1> HIDE DEF n, next
<1>5. ASSUME NEW k \in 1..n + 1
      PROVE  /\ Leads(next[k], more)
             /\ k = n + 1 => Start(next[k], more) = Last(more)
             /\ k # n + 1 => Start(next[k], more) = End(next[k + 1], more)
  <2>1. CASE k = n + 1
    BY <1>2, <1>3, <1>4, <2>1
  <2>2. CASE k \in 1..n
    <3>1. next[k] = stack[k] /\ Leads(stack[k], line)
      BY <1>1, <1>2, <2>2 DEF RedoStack
    <3>2. Leads(next[k], more) /\ Start(next[k], more) = Start(stack[k], line)
      BY <3>1, LeadsStays
    <3>3. CASE k = n
      <4>1. Start(stack[k], line) = Last(line)
        BY <1>1, <2>2, <3>3 DEF RedoStack, n
      <4> QED
        BY <1>1, <1>2, <1>4, <3>2, <3>3, <4>1
    <3>4. CASE k # n
      <4>1. Start(stack[k], line) = End(stack[k + 1], line)
        BY <1>1, <2>2, <3>4 DEF RedoStack, n
      <4>2. k + 1 \in 1..n /\ next[k + 1] = stack[k + 1] /\ Leads(stack[k + 1], line)
        BY <1>1, <1>2, <2>2, <3>4 DEF RedoStack
      <4>3. End(next[k + 1], more) = End(stack[k + 1], line)
        BY <4>2, LeadsStays
      <4> QED
        BY <1>1, <2>2, <3>2, <4>1, <4>3
    <3> QED
      BY <3>3, <3>4
  <2> QED
    BY <1>1, <2>1, <2>2
<1> HIDE DEF more
<1>6. RedoStack(next, more)
  BY <1>2, <1>5 DEF RedoStack
<1> QED
  BY <1>6 DEF next, more

(* A redo takes the top of the redo stack and makes the content it ends at  *)
(* the one in force.                                                        *)
LEMMA RedoPop ==
  ASSUME NEW line, IsASequence(line), NEW stack, RedoStack(stack, line), stack # <<>>,
         NEW d, d = End(Last(stack), line)
  PROVE  RedoStack(Front(stack), Append(line, d))
<1> DEFINE n == Len(stack)
           more == Append(line, d)
           next == Front(stack)
<1>1. IsASequence(stack) /\ n \in Nat /\ DOMAIN stack = 1..n
  BY SequenceFacts DEF RedoStack
<1>2. /\ n >= 1 /\ Last(stack) = stack[n]
      /\ IsASequence(next) /\ Len(next) = n - 1 /\ DOMAIN next = 1..n - 1
      /\ \A k \in 1..n - 1 : next[k] = stack[k]
  BY <1>1, FrontFacts
<1>3. Last(more) = d
  BY AppendFacts
<1> HIDE DEF n, next
<1>4. ASSUME NEW k \in 1..n - 1
      PROVE  /\ Leads(next[k], more)
             /\ k = n - 1 => Start(next[k], more) = Last(more)
             /\ k # n - 1 => Start(next[k], more) = End(next[k + 1], more)
  <2>1. /\ k \in 1..n /\ k # n /\ k + 1 \in 1..n /\ next[k] = stack[k]
        /\ k # n - 1 => next[k + 1] = stack[k + 1]
        /\ k = n - 1 => stack[k + 1] = Last(stack)
    BY <1>1, <1>2
  <2>2. /\ Leads(stack[k], line) /\ Leads(stack[k + 1], line)
        /\ Start(stack[k], line) = End(stack[k + 1], line)
    BY <1>1, <2>1 DEF RedoStack, n
  <2>3. Leads(next[k], more) /\ Start(next[k], more) = Start(stack[k], line)
    BY <2>1, <2>2, LeadsStays
  <2>4. End(stack[k + 1], more) = End(stack[k + 1], line)
    BY <2>2, LeadsStays
  <2> QED
    BY <1>3, <2>1, <2>2, <2>3, <2>4
<1> HIDE DEF more
<1>5. RedoStack(next, more)
  BY <1>2, <1>4 DEF RedoStack
<1> QED
  BY <1>5 DEF next, more

(* The inverse of the transaction on top of the undo stack leads back.      *)
LEMMA InverseLeadsBack ==
  ASSUME NEW line, NEW entry, Leads(entry, line), WellFormed(Start(entry, line))
  PROVE  /\ WellFormedBatch(entry.inverse.edits)
         /\ Replay(End(entry, line), entry.inverse.edits).refusal = "Ok"
         /\ Replay(End(entry, line), entry.inverse.edits).doc = Start(entry, line)
BY BatchIsReversible DEF Leads, Start, End

-----------------------------------------------------------------------------
(* The invariant holds and stays.                                          *)

(* A new history satisfies the invariant.                                   *)
LEMMA InitInv == Init => HistoryInv
<1> SUFFICES ASSUME Init
             PROVE  HistoryInv
  OBVIOUS
<1>1. document \in Documents /\ WellFormed(document) /\ versions = <<document>>
  BY HistoryAssumption DEF Init
<1>2. IsASequence(versions) /\ Len(versions) = 1 /\ versions[1] = document
  <2>1. versions = [i \in 1..1 |-> versions[i]] /\ versions[1] = document
    BY <1>1
  <2> QED
    BY <2>1, IntervalIsSequence
<1>3. VersionsInv
  <2>1. revision = 0
    BY DEF Init
  <2> QED
    BY <1>1, <1>2, <2>1 DEF VersionsInv
<1>4. \A s : s = <<>> => IsASequence(s) /\ Len(s) = 0 /\ DOMAIN s = {}
  BY DEF IsASequence
<1>5. LogInv
  BY <1>4 DEF LogInv, Init
<1>6. StacksInv
  BY <1>4 DEF StacksInv, UndoStack, RedoStack, Init
<1> QED
  BY <1>3, <1>5, <1>6 DEF HistoryInv

(* The line is a sequence whose contents are well-formed.                   *)
LEMMA LineFacts ==
  ASSUME VersionsInv
  PROVE  /\ IsASequence(versions) /\ Last(versions) = document
         /\ \A entry : Leads(entry, versions) => WellFormed(Start(entry, versions))
<1>1. revision \in Nat /\ Len(versions) = revision + 1 /\ document = versions[revision + 1]
  BY DEF VersionsInv
<1>2. ASSUME NEW entry, Leads(entry, versions)
      PROVE  WellFormed(Start(entry, versions))
  <2>1. entry.forward.expected + 1 \in 1..revision + 1
    BY <1>1, <1>2 DEF Leads
  <2> DEFINE i == entry.forward.expected + 1
  <2>2. i \in 1..revision + 1
    BY <2>1
  <2>3. Start(entry, versions) = versions[i]
    BY DEF Start
  <2> HIDE DEF i
  <2>4. i - 1 \in 0..revision /\ (i - 1) + 1 = i
    BY <1>1, <2>2
  <2>5. WellFormed(versions[i])
    BY <2>4 DEF VersionsInv
  <2> QED
    BY <2>3, <2>5
<1> QED
  BY <1>1, <1>2 DEF VersionsInv, Last

(* Commits, current or stale, keep the invariant.                           *)
LEMMA CommitKeepsInv ==
  ASSUME HistoryInv, NEW edits, WellFormedBatch(edits), NEW expected,
         CommitCurrent(edits, expected)
  PROVE  HistoryInv'
<1> DEFINE run == Replay(document, edits)
           new == [forward |-> Batch(edits, revision), inverse |-> Batch(run.inverse, revision + 1)]
<1>1. CASE UNCHANGED <<document, revision, base, log, undo, redo, authored, versions>>
  BY <1>1 DEF HistoryInv, VersionsInv, LogInv, StacksInv
<1>2. CASE /\ Result(edits, run) = "Ok"
           /\ Replace(edits, run)
           /\ undo' = Append(undo, new)
           /\ redo' = <<>>
  <2>1. run.refusal = "Ok"
    BY <1>2 DEF Result
  <2>2. VersionsInv /\ LogInv /\ StacksInv /\ revision \in Nat /\ Len(versions) = revision + 1
    BY DEF HistoryInv, VersionsInv
  <2>3. /\ VersionsInv' /\ LogInv'
        /\ \A r \in 0..revision : versions'[r + 1] = versions[r + 1]
        /\ versions'[revision + 2] = run.doc
    BY <1>2, <2>1, <2>2, ReplaceExtends
  <2>4. versions' = Append(versions, run.doc)
    BY <1>2 DEF Replace
  <2>5. IsASequence(versions) /\ Last(versions) = document
    BY <2>2, LineFacts
  <2>6. Start(new, versions') = document /\ End(new, versions') = run.doc /\ Leads(new, versions')
    <3>1. /\ new.forward.expected = revision /\ new.forward.edits = edits
          /\ new.inverse.expected = revision + 1 /\ new.inverse.edits = run.inverse
      BY DEF Batch
    <3> HIDE DEF new
    <3>2. versions'[new.forward.expected + 1] = document
      <4>1. revision \in 0..revision /\ versions'[revision + 1] = versions[revision + 1]
        BY <2>2, <2>3
      <4>2. versions[revision + 1] = document
        BY <2>2 DEF VersionsInv
      <4> QED
        BY <3>1, <4>1, <4>2
    <3>3. versions'[new.inverse.expected + 1] = run.doc
      <4>1. new.inverse.expected + 1 = revision + 2
        BY <2>2, <3>1
      <4> QED
        BY <2>3, <4>1
    <3>4. Len(versions') = revision + 2
      BY <2>2, <2>4, <2>5, AppendFacts
    <3>5. new.forward.expected \in 0..Len(versions') - 2
      BY <2>2, <3>1, <3>4
    <3> QED
      BY <2>1, <3>1, <3>2, <3>3, <3>5 DEF Leads, Start, End
  <2> HIDE DEF new, run
  <2>7. UndoStack(undo', versions')
    BY <1>2, <2>2, <2>4, <2>5, <2>6, UndoPush DEF StacksInv
  <2>8. RedoStack(redo', versions')
    BY <1>2 DEF RedoStack, IsASequence
  <2> QED
    BY <2>3, <2>7, <2>8 DEF HistoryInv, StacksInv
<1> QED
  BY <1>1, <1>2 DEF CommitCurrent

(* An undo makes the content before the newest transaction the one in       *)
(* force.                                                                   *)
LEMMA UndoFacts ==
  ASSUME HistoryInv, undo # <<>>
  PROVE  /\ Leads(Last(undo), versions)
         /\ End(Last(undo), versions) = document
         /\ WellFormedBatch(Last(undo).inverse.edits)
         /\ Replay(document, Last(undo).inverse.edits).refusal = "Ok"
         /\ Replay(document, Last(undo).inverse.edits).doc = Start(Last(undo), versions)
<1>1. VersionsInv /\ UndoStack(undo, versions) /\ IsASequence(undo)
  BY DEF HistoryInv, StacksInv, UndoStack
<1>2. Len(undo) \in DOMAIN undo /\ Last(undo) = undo[Len(undo)]
  BY <1>1, FrontFacts
<1>3. Leads(Last(undo), versions) /\ End(Last(undo), versions) = document
  BY <1>1, <1>2, LineFacts DEF UndoStack
<1>4. WellFormed(Start(Last(undo), versions))
  BY <1>1, <1>3, LineFacts
<1> QED
  BY <1>3, <1>4, InverseLeadsBack

(* An undo keeps the invariant.                                             *)
LEMMA UndoKeepsInv ==
  ASSUME HistoryInv, Undo
  PROVE  HistoryInv'
<1> DEFINE entry == Last(undo)
           inverse == entry.inverse.edits
           run == Replay(document, inverse)
<1>1. CASE UNCHANGED <<document, revision, base, log, undo, redo, authored, versions>>
  BY <1>1 DEF HistoryInv, VersionsInv, LogInv, StacksInv
<1>2. CASE /\ Replace(inverse, run)
           /\ undo' = Front(undo)
           /\ redo' = Append(redo, entry)
  <2>1. VersionsInv /\ LogInv /\ StacksInv
    BY DEF HistoryInv
  <2>2. /\ Leads(entry, versions) /\ End(entry, versions) = document
        /\ WellFormedBatch(inverse) /\ run.refusal = "Ok" /\ run.doc = Start(entry, versions)
    BY UndoFacts DEF Undo
  <2>3. versions' = Append(versions, run.doc)
    BY <1>2 DEF Replace
  <2>4. IsASequence(versions) /\ Last(versions) = document
    BY <2>1, LineFacts
  <2>5. undo # <<>> /\ UndoStack(undo, versions) /\ RedoStack(redo, versions)
    BY <2>1 DEF Undo, StacksInv
  <2>6. VersionsInv' /\ LogInv'
    BY <1>2, <2>1, <2>2, ReplaceExtends
  <2>7. UndoStack(undo', versions')
    <3> HIDE DEF run
    <3> QED
      BY <1>2, <2>2, <2>3, <2>4, <2>5, UndoPop
  <2>8. RedoStack(redo', versions')
    <3> HIDE DEF run, entry
    <3> QED
      BY <1>2, <2>2, <2>3, <2>4, <2>5, RedoPush
  <2> QED
    BY <2>6, <2>7, <2>8 DEF HistoryInv, StacksInv
<1> QED
  BY <1>1, <1>2 DEF Undo

(* A redo makes the content after the newest undone transaction the one in  *)
(* force.                                                                   *)
LEMMA RedoFacts ==
  ASSUME HistoryInv, redo # <<>>
  PROVE  /\ Leads(Last(redo), versions)
         /\ Start(Last(redo), versions) = document
         /\ WellFormedBatch(Last(redo).forward.edits)
         /\ Replay(document, Last(redo).forward.edits).refusal = "Ok"
         /\ Replay(document, Last(redo).forward.edits).doc = End(Last(redo), versions)
<1>1. VersionsInv /\ RedoStack(redo, versions) /\ IsASequence(redo)
  BY DEF HistoryInv, StacksInv, RedoStack
<1>2. Len(redo) \in DOMAIN redo /\ Last(redo) = redo[Len(redo)]
  BY <1>1, FrontFacts
<1>3. Leads(Last(redo), versions) /\ Start(Last(redo), versions) = document
  BY <1>1, <1>2, LineFacts DEF RedoStack
<1> QED
  BY <1>3 DEF Leads, Start, End

(* A redo keeps the invariant.                                              *)
LEMMA RedoKeepsInv ==
  ASSUME HistoryInv, Redo
  PROVE  HistoryInv'
<1> DEFINE entry == Last(redo)
           forward == entry.forward.edits
           run == Replay(document, forward)
<1>1. CASE UNCHANGED <<document, revision, base, log, undo, redo, authored, versions>>
  BY <1>1 DEF HistoryInv, VersionsInv, LogInv, StacksInv
<1>2. CASE /\ Replace(forward, run)
           /\ undo' = Append(undo, entry)
           /\ redo' = Front(redo)
  <2>1. VersionsInv /\ LogInv /\ StacksInv
    BY DEF HistoryInv
  <2>2. /\ Leads(entry, versions) /\ Start(entry, versions) = document
        /\ WellFormedBatch(forward) /\ run.refusal = "Ok" /\ run.doc = End(entry, versions)
    BY RedoFacts DEF Redo
  <2>3. versions' = Append(versions, run.doc)
    BY <1>2 DEF Replace
  <2>4. IsASequence(versions) /\ Last(versions) = document
    BY <2>1, LineFacts
  <2>5. redo # <<>> /\ UndoStack(undo, versions) /\ RedoStack(redo, versions)
    BY <2>1 DEF Redo, StacksInv
  <2>6. VersionsInv' /\ LogInv'
    BY <1>2, <2>1, <2>2, ReplaceExtends
  <2>7. RedoStack(redo', versions')
    <3> HIDE DEF run
    <3> QED
      BY <1>2, <2>2, <2>3, <2>4, <2>5, RedoPop
  <2>8. UndoStack(undo', versions')
    <3> HIDE DEF run, entry
    <3>1. /\ Leads(entry, Append(versions, run.doc))
          /\ Start(entry, Append(versions, run.doc)) = Last(versions)
          /\ End(entry, Append(versions, run.doc)) = run.doc
      BY <2>2, <2>4, LeadsStays
    <3> QED
      BY <1>2, <2>3, <2>4, <2>5, <3>1, UndoPush
  <2> QED
    BY <2>6, <2>7, <2>8 DEF HistoryInv, StacksInv
<1> QED
  BY <1>1, <1>2 DEF Redo

(* Compaction forgets revisions of the log below a floor and keeps the      *)
(* invariant.                                                               *)
LEMMA CompactKeepsInv ==
  ASSUME HistoryInv, Compact
  PROVE  HistoryInv'
<1>1. /\ UNCHANGED <<document, revision, versions, undo, redo>>
      /\ base' = revision /\ log' = <<>>
  BY DEF Compact
<1>2. VersionsInv' /\ StacksInv' /\ revision \in Nat
  BY <1>1 DEF HistoryInv, VersionsInv, StacksInv
<1>3. LogInv'
  <2>1. IsASequence(log') /\ Len(log') = 0
    BY <1>1 DEF IsASequence
  <2> QED
    BY <1>1, <1>2, <2>1 DEF LogInv
<1> QED
  BY <1>2, <1>3 DEF HistoryInv

(* Every step of a history keeps the invariant.                             *)
LEMMA StepInv == HistoryInv /\ [Next]_historyVars => HistoryInv'
<1> SUFFICES ASSUME HistoryInv, [Next]_historyVars
             PROVE  HistoryInv'
  OBVIOUS
<1>1. \A edits \in Batches[versions[1]] : WellFormedBatch(edits)
  BY HistoryAssumption DEF HistoryInv, VersionsInv
<1>2. ASSUME NEW edits \in Batches[versions[1]], Commit(edits)
      PROVE  HistoryInv'
  BY <1>1, <1>2, CommitKeepsInv DEF Commit
<1>3. ASSUME NEW edits \in Batches[versions[1]], NEW expected \in 0..MaxRevision,
             CommitConcurrent(edits, expected)
      PROVE  HistoryInv'
  BY <1>1, <1>3, CommitKeepsInv DEF CommitConcurrent
<1>4. CASE UNCHANGED historyVars
  BY <1>4 DEF historyVars, HistoryInv, VersionsInv, LogInv, StacksInv
<1> QED
  BY <1>2, <1>3, <1>4, UndoKeepsInv, RedoKeepsInv, CompactKeepsInv DEF Next

(* In every state of a history the stacks walk the line of its contents and *)
(* the log covers each step of it.                                          *)
THEOREM HistoryInvHolds == Spec => []HistoryInv
BY InitInv, StepInv, PTL DEF Spec

-----------------------------------------------------------------------------
(* What the log says.                                                      *)

(* A content that changed since a revision was changed by a report of the   *)
(* log.                                                                     *)
LEMMA ChangesAreLogged ==
  ASSUME VersionsInv, LogInv, NEW r \in base..revision, NEW a, AddressIn(a),
         Content(versions[r + 1], a) # Content(document, a)
  PROVE  \E b \in WrittenSince(r) : ConflictsWith(a, b)
<1> SUFFICES ASSUME \A b \in WrittenSince(r) : ~ConflictsWith(a, b)
             PROVE  Content(versions[r + 1], a) = Content(document, a)
  OBVIOUS
<1> DEFINE N == revision - r
           S == {k \in 0..N : Content(versions[r + k + 1], a) = Content(versions[r + 1], a)}
<1>1. /\ revision \in Nat /\ base \in 0..revision /\ r \in Nat /\ N \in Nat
      /\ IsASequence(log) /\ Len(log) = revision - base
  BY DEF VersionsInv, LogInv
<1>2. 0 \in S
  <2>1. r + 0 + 1 = r + 1
    BY <1>1
  <2> QED
    BY <1>1, <2>1
<1>3. ASSUME NEW k \in 1..N, k - 1 \in S
      PROVE  k \in S
  <2> DEFINE i == r + k - base
  <2>1. /\ i \in 1..revision - base /\ base + i = r + k /\ base + i > r
        /\ r + (k - 1) + 1 = base + i /\ r + k + 1 = base + i + 1
    BY <1>1
  <2> HIDE DEF i
  <2>2. i \in DOMAIN log
    BY <1>1, <2>1, SequenceFacts
  <2>3. /\ log[i].to > r
        /\ IsASequence(log[i].addresses)
        /\ Content(versions[base + i], a) # Content(versions[base + i + 1], a) =>
             \E j \in DOMAIN log[i].addresses : ConflictsWith(a, log[i].addresses[j])
    <3>1. log[i].to = base + i
      BY <2>1 DEF LogInv
    <3> QED
      BY <2>1, <3>1 DEF LogInv
  <2>4. \A j \in DOMAIN log[i].addresses : log[i].addresses[j] \in WrittenSince(r)
    <3> TAKE j \in DOMAIN log[i].addresses
    <3>1. log[i].addresses[j] \in ToSet(log[i].addresses)
      BY DEF ToSet
    <3>2. i \in {p \in DOMAIN log : log[p].to > r}
      BY <2>2, <2>3
    <3> QED
      BY <3>1, <3>2 DEF WrittenSince
  <2>5. Content(versions[base + i], a) = Content(versions[base + i + 1], a)
    BY <2>3, <2>4
  <2>6. Content(versions[r + (k - 1) + 1], a) = Content(versions[r + 1], a)
    BY <1>3
  <2>7. Content(versions[r + k + 1], a) = Content(versions[r + 1], a)
    BY <2>1, <2>5, <2>6
  <2> QED
    BY <2>7
<1> HIDE DEF S
<1>4. \A k \in 0..N : k \in S
  BY <1>1, <1>2, <1>3, UpTo
<1>5. N \in 0..N /\ r + N + 1 = revision + 1
  BY <1>1
<1>6. Content(versions[r + N + 1], a) = Content(versions[r + 1], a)
  BY <1>4, <1>5 DEF S
<1> QED
  BY <1>5, <1>6 DEF VersionsInv

(* Under the invariant the history passes its own validation on load.       *)
LEMMA InvLoads == HistoryInv => HistoryLoads
<1> SUFFICES ASSUME HistoryInv
             PROVE  HistoryLoads
  OBVIOUS
<1>1. /\ revision \in Nat /\ base \in 0..revision
      /\ IsASequence(log) /\ Len(log) = revision - base /\ DOMAIN log = 1..revision - base
  BY SequenceFacts DEF HistoryInv, VersionsInv, LogInv
<1>2. ASSUME NEW i \in DOMAIN log
      PROVE  /\ log[i].from = IF i = 1 THEN base ELSE log[i - 1].to
             /\ log[i].to = log[i].from + 1
             /\ log[i].targets = [k \in DOMAIN log[i].addresses |-> TargetOf(log[i].addresses[k])]
  <2>1. log[i].from = base + i - 1 /\ log[i].to = base + i
        /\ log[i].targets = [k \in DOMAIN log[i].addresses |-> TargetOf(log[i].addresses[k])]
    BY <1>1 DEF HistoryInv, LogInv
  <2>2. i # 1 => log[i - 1].to = base + (i - 1)
    <3>1. i # 1 => i - 1 \in 1..revision - base
      BY <1>1
    <3> QED
      BY <3>1 DEF HistoryInv, LogInv
  <2> QED
    BY <1>1, <2>1, <2>2
<1>3. revision = IF log = <<>> THEN base ELSE Last(log).to
  <2>1. CASE log = <<>>
    BY <1>1, <2>1
  <2>2. CASE log # <<>>
    <3>1. revision - base \in 1..revision - base /\ base + (revision - base) = revision
      BY <1>1, <2>2, FrontFacts
    <3>2. log[revision - base].to = base + (revision - base)
      BY <3>1 DEF HistoryInv, LogInv
    <3> QED
      BY <1>1, <2>2, <3>1, <3>2 DEF Last
  <2> QED
    BY <2>1, <2>2
<1> QED
  BY <1>2, <1>3 DEF HistoryLoads

(* Under the invariant every change is at an address the log holds.         *)
LEMMA InvCovers == HistoryInv => LogCoversChanges
<1> SUFFICES ASSUME HistoryInv, NEW r \in base..revision, NEW kind \in Kinds, NEW id,
                    NEW a \in AddressesOf(kind, id),
                    Content(versions[r + 1], a) # Content(document, a)
             PROVE  \E b \in WrittenSince(r) : ConflictsWith(a, b)
  BY InvLoads DEF LogCoversChanges
<1>1. AddressIn(a)
  BY DEF AddressIn
<1> QED
  BY <1>1, ChangesAreLogged DEF HistoryInv

(* The replay log is evidence of every change: it loads again, and wherever *)
(* a retained revision and the current document differ, a report after that *)
(* revision wrote an address that conflicts (edit.rs, the typed addresses   *)
(* of `SemanticEditReport`).                                                *)
THEOREM LogIsEvidence == Spec => []LogCoversChanges
BY HistoryInvHolds, InvCovers, PTL

-----------------------------------------------------------------------------
(* Stale batches.                                                          *)

(* The address of a well-formed edit is one of the addresses.               *)
LEMMA AddressOfEdit ==
  ASSUME NEW e, WellFormedEdit(e)
  PROVE  AddressIn(Address(e))
<1>1. e.kind \in Kinds /\ (e.part \in Parts[e.kind] \/ (e.part = "presence" /\ e.kind # "Circuit"))
  BY EditShapes DEF WellFormedInsertion
<1>2. Address(e) \in AddressesOf(e.kind, e.id)
  BY <1>1 DEF Address, AddressesOf
<1> QED
  BY <1>1, <1>2 DEF AddressIn

(* A batch with no conflict since the revision it was authored on finds     *)
(* what it writes as it was there.                                          *)
LEMMA RebaseIsSafe ==
  ASSUME HistoryInv, NEW edits, WellFormedBatch(edits), NEW expected \in base..revision,
         Conflicts(edits, expected) = {}, NEW a \in ToSet(Addresses(edits))
  PROVE  Content(versions[expected + 1], a) = Content(document, a)
<1>1. PICK i \in DOMAIN edits : a = Address(edits[i])
  BY DEF ToSet, Addresses
<1>2. AddressIn(a)
  BY <1>1, AddressOfEdit DEF WellFormedBatch
<1>3. ~\E b \in WrittenSince(expected) : ConflictsWith(a, b)
  BY DEF Conflicts
<1> QED
  BY <1>2, <1>3, ChangesAreLogged DEF HistoryInv

(* A step from a stale author writes only what nobody wrote since the       *)
(* author's revision.                                                       *)
LEMMA StepLosesNoUpdate ==
  ASSUME HistoryInv, [Next]_historyVars, revision' > revision, undo' # <<>>,
         Last(undo').forward.expected = revision, NEW a \in ToSet(Last(log').addresses)
  PROVE  Content(versions[authored' + 1], a) = Content(document, a)
<1>1. /\ revision \in Nat /\ document = versions[revision + 1] /\ base \in 0..revision
      /\ IsASequence(log) /\ IsASequence(undo) /\ IsASequence(redo)
      /\ \A edits \in Batches[versions[1]] : WellFormedBatch(edits)
  BY HistoryAssumption DEF HistoryInv, VersionsInv, LogInv, StacksInv, UndoStack, RedoStack
<1>2. ~(revision > revision)
  BY <1>1
<1>3. ASSUME NEW edits, NEW run, Replace(edits, run)
      PROVE  Last(log').addresses = Addresses(edits)
  <2> DEFINE report == [from |-> revision, to |-> revision + 1,
                        targets |-> Targets(edits), addresses |-> Addresses(edits)]
  <2>1. log' = Append(log, report)
    BY <1>3 DEF Replace
  <2>2. report.addresses = Addresses(edits)
    OBVIOUS
  <2> HIDE DEF report
  <2> QED
    BY <1>1, <2>1, <2>2, AppendFacts
<1>4. ASSUME NEW edits, NEW expected, CommitCurrent(edits, expected)
      PROVE  authored' = expected /\ Last(log').addresses = Addresses(edits)
  BY <1>2, <1>3, <1>4 DEF CommitCurrent
<1>5. ASSUME NEW edits \in Batches[versions[1]], Commit(edits)
      PROVE  Content(versions[authored' + 1], a) = Content(document, a)
  BY <1>1, <1>4, <1>5 DEF Commit
<1>6. ASSUME NEW edits \in Batches[versions[1]], NEW expected \in 0..MaxRevision,
             CommitConcurrent(edits, expected)
      PROVE  Content(versions[authored' + 1], a) = Content(document, a)
  <2>1. authored' = expected /\ Last(log').addresses = Addresses(edits)
    BY <1>4, <1>6 DEF CommitConcurrent
  <2>2. expected \in base..revision /\ Conflicts(edits, expected) = {} /\ WellFormedBatch(edits)
    BY <1>1, <1>6 DEF CommitConcurrent
  <2>3. a \in ToSet(Addresses(edits))
    BY <2>1
  <2> QED
    BY <2>1, <2>2, <2>3, RebaseIsSafe
<1>7. \A entry : Leads(entry, versions) => entry.forward.expected < revision
  <2>1. Len(versions) = revision + 1
    BY DEF HistoryInv, VersionsInv
  <2> SUFFICES ASSUME NEW entry, Leads(entry, versions)
               PROVE  entry.forward.expected < revision
    OBVIOUS
  <2>2. entry.forward.expected \in 0..(revision + 1) - 2
    BY <2>1 DEF Leads
  <2> QED
    BY <1>1, <2>2
<1>8. ~Undo
  <2> SUFFICES ASSUME Undo
               PROVE  FALSE
    OBVIOUS
  <2>1. undo' = Front(undo) /\ undo # <<>>
    BY <1>2 DEF Undo
  <2>2. /\ IsASequence(undo') /\ DOMAIN undo' = 1..Len(undo) - 1
        /\ \A i \in 1..Len(undo) - 1 : i \in DOMAIN undo /\ undo'[i] = undo[i]
    BY <1>1, <2>1, FrontFacts
  <2>3. Len(undo') \in DOMAIN undo' /\ Last(undo') = undo'[Len(undo')]
    BY <2>2, FrontFacts
  <2>4. Leads(Last(undo'), versions)
    BY <2>2, <2>3 DEF HistoryInv, StacksInv, UndoStack
  <2> QED
    BY <1>1, <1>7, <2>4
<1>9. ~Redo
  <2> SUFFICES ASSUME Redo
               PROVE  FALSE
    OBVIOUS
  <2>1. undo' = Append(undo, Last(redo)) /\ redo # <<>>
    BY <1>2 DEF Redo
  <2>2. Last(undo') = Last(redo)
    BY <1>1, <2>1, AppendFacts
  <2>3. Leads(Last(redo), versions)
    BY <2>1, RedoFacts
  <2> QED
    BY <1>1, <1>7, <2>2, <2>3
<1>10. ~Compact /\ ~UNCHANGED historyVars
  BY <1>2 DEF Compact, historyVars
<1> QED
  BY <1>5, <1>6, <1>8, <1>9, <1>10 DEF Next

(* A stale batch never overwrites what its author has not seen              *)
(* (commit_concurrent, edit.rs).                                            *)
THEOREM StaleBatchesLoseNoUpdate == Spec => NoLostUpdate
<1>1. HistoryInv /\ [Next]_historyVars =>
        [revision' > revision /\ undo' # <<>> /\ Last(undo').forward.expected = revision =>
           \A a \in ToSet(Last(log').addresses) :
             Content(versions[authored' + 1], a) = Content(document, a)]_historyVars
  BY StepLosesNoUpdate
<1> QED
  BY <1>1, HistoryInvHolds, PTL DEF Spec, NoLostUpdate

-----------------------------------------------------------------------------
(* The line of contents is a zipper.                                       *)

(* Sequences of equal length with equal elements are equal.                 *)
LEMMA SameSequence ==
  ASSUME NEW s, NEW t, IsASequence(s), IsASequence(t), Len(s) = Len(t),
         \A i \in 1..Len(s) : s[i] = t[i]
  PROVE  s = t
BY SequenceFacts

PastOf(stack, line) == [k \in DOMAIN stack |-> Start(stack[k], line)]
FutureOf(stack, line) == [k \in DOMAIN stack |-> End(stack[Len(stack) - k + 1], line)]

(* The past and the future a stack leads to, element by element.            *)
LEMMA PastFacts ==
  ASSUME NEW stack, IsASequence(stack), NEW line
  PROVE  /\ IsASequence(PastOf(stack, line)) /\ IsASequence(FutureOf(stack, line))
         /\ Len(PastOf(stack, line)) = Len(stack) /\ Len(FutureOf(stack, line)) = Len(stack)
         /\ \A k \in 1..Len(stack) :
              /\ PastOf(stack, line)[k] = Start(stack[k], line)
              /\ FutureOf(stack, line)[k] = End(stack[Len(stack) - k + 1], line)
<1> DEFINE past == PastOf(stack, line)
           future == FutureOf(stack, line)
           n == Len(stack)
<1>1. n \in Nat /\ DOMAIN stack = 1..n
  BY SequenceFacts
<1>2. past = [k \in 1..n |-> Start(stack[k], line)]
  BY <1>1 DEF PastOf
<1>3. future = [k \in 1..n |-> End(stack[n - k + 1], line)]
  BY <1>1 DEF FutureOf
<1> HIDE DEF past, future, n
<1>4. past = [k \in 1..n |-> past[k]] /\ future = [k \in 1..n |-> future[k]]
  BY <1>2, <1>3
<1>5. IsASequence(past) /\ Len(past) = n /\ IsASequence(future) /\ Len(future) = n
  BY <1>1, <1>4, IntervalIsSequence
<1>6. \A k \in 1..n : past[k] = Start(stack[k], line) /\ future[k] = End(stack[n - k + 1], line)
  BY <1>2, <1>3
<1> QED
  BY <1>5, <1>6 DEF past, future, n

(* A transaction on top of the undo stack puts its start at the end of the  *)
(* past.                                                                    *)
LEMMA PastPush ==
  ASSUME NEW line, IsASequence(line), NEW d, NEW stack, UndoStack(stack, line), NEW entry
  PROVE  PastOf(Append(stack, entry), Append(line, d))
           = Append(PastOf(stack, line), Start(entry, Append(line, d)))
<1> DEFINE n == Len(stack)
           more == Append(line, d)
           next == Append(stack, entry)
           s == PastOf(next, more)
           t == Append(PastOf(stack, line), Start(entry, more))
<1>1. IsASequence(stack) /\ n \in Nat /\ DOMAIN stack = 1..n
  BY SequenceFacts DEF UndoStack
<1>2. IsASequence(next) /\ Len(next) = n + 1 /\ (\A k \in 1..n : next[k] = stack[k])
      /\ next[n + 1] = entry
  BY <1>1, AppendFacts
<1>3. \A k \in 1..n : Start(next[k], more) = Start(stack[k], line)
  BY <1>1, <1>2, LeadsStays DEF UndoStack
<1> HIDE DEF next, more, n
<1>4. IsASequence(s) /\ Len(s) = n + 1 /\ \A k \in 1..n + 1 : s[k] = Start(next[k], more)
  BY <1>2, PastFacts
<1>5. /\ IsASequence(PastOf(stack, line)) /\ Len(PastOf(stack, line)) = n
      /\ \A k \in 1..n : PastOf(stack, line)[k] = Start(stack[k], line)
  BY <1>1, PastFacts DEF n
<1>6. IsASequence(t) /\ Len(t) = n + 1 /\ (\A k \in 1..n : t[k] = Start(stack[k], line))
      /\ t[n + 1] = Start(entry, more)
  BY <1>5, AppendFacts
<1> HIDE DEF s, t
<1>7. \A k \in 1..n + 1 : s[k] = t[k]
  <2> TAKE k \in 1..n + 1
  <2>1. CASE k \in 1..n
    BY <1>1, <1>3, <1>4, <1>6, <2>1
  <2>2. CASE k = n + 1
    BY <1>1, <1>2, <1>4, <1>6, <2>2
  <2> QED
    BY <1>1, <2>1, <2>2
<1>8. s = t
  BY <1>4, <1>6, <1>7, SameSequence
<1> QED
  BY <1>8 DEF s, t, next, more

(* Popping the undo stack takes the newest content off the past.            *)
LEMMA PastPop ==
  ASSUME NEW line, IsASequence(line), NEW d, NEW stack, UndoStack(stack, line), stack # <<>>
  PROVE  /\ PastOf(Front(stack), Append(line, d)) = Front(PastOf(stack, line))
         /\ Last(PastOf(stack, line)) = Start(Last(stack), line)
         /\ PastOf(stack, line) # <<>>
<1> DEFINE n == Len(stack)
           more == Append(line, d)
           next == Front(stack)
           past == PastOf(stack, line)
           s == PastOf(next, more)
           t == Front(past)
<1>1. IsASequence(stack) /\ n \in Nat /\ DOMAIN stack = 1..n
  BY SequenceFacts DEF UndoStack
<1>2. /\ n >= 1 /\ Last(stack) = stack[n]
      /\ IsASequence(next) /\ Len(next) = n - 1 /\ \A k \in 1..n - 1 : next[k] = stack[k]
  BY <1>1, FrontFacts
<1>3. \A k \in 1..n - 1 : Start(next[k], more) = Start(stack[k], line)
  <2> TAKE k \in 1..n - 1
  <2>1. k \in DOMAIN stack /\ next[k] = stack[k]
    BY <1>1, <1>2
  <2> QED
    BY <2>1, LeadsStays DEF UndoStack
<1> HIDE DEF next, more, n
<1>4. IsASequence(s) /\ Len(s) = n - 1 /\ \A k \in 1..n - 1 : s[k] = Start(next[k], more)
  BY <1>2, PastFacts
<1>5. /\ IsASequence(past) /\ Len(past) = n
      /\ \A k \in 1..n : past[k] = Start(stack[k], line)
  BY <1>1, PastFacts DEF n
<1> HIDE DEF past, s
<1>6. past # <<>>
  BY <1>2, <1>5
<1>7. /\ IsASequence(t) /\ Len(t) = n - 1 /\ (\A k \in 1..n - 1 : t[k] = past[k])
      /\ Last(past) = past[n]
  BY <1>5, <1>6, FrontFacts
<1> HIDE DEF t
<1>8. \A k \in 1..n - 1 : s[k] = t[k]
  <2> TAKE k \in 1..n - 1
  <2>1. k \in 1..n
    BY <1>1
  <2> QED
    BY <1>3, <1>4, <1>5, <1>7, <2>1
<1>9. s = t
  BY <1>4, <1>7, <1>8, SameSequence
<1>10. Last(past) = Start(Last(stack), line)
  BY <1>1, <1>2, <1>5, <1>7
<1> QED
  BY <1>6, <1>9, <1>10 DEF s, t, next, more, past

(* A transaction on top of the redo stack puts its end at the front of the  *)
(* future.                                                                  *)
LEMMA FuturePush ==
  ASSUME NEW line, IsASequence(line), NEW d, NEW stack, RedoStack(stack, line), NEW entry
  PROVE  FutureOf(Append(stack, entry), Append(line, d))
           = <<End(entry, Append(line, d))>> \o FutureOf(stack, line)
<1> DEFINE n == Len(stack)
           more == Append(line, d)
           next == Append(stack, entry)
           future == FutureOf(stack, line)
           first == End(entry, more)
           s == FutureOf(next, more)
           t == <<first>> \o future
<1>1. IsASequence(stack) /\ n \in Nat /\ DOMAIN stack = 1..n
  BY SequenceFacts DEF RedoStack
<1>2. IsASequence(next) /\ Len(next) = n + 1 /\ (\A k \in 1..n : next[k] = stack[k])
      /\ next[n + 1] = entry
  BY <1>1, AppendFacts
<1>3. \A k \in 1..n : End(next[k], more) = End(stack[k], line)
  BY <1>1, <1>2, LeadsStays DEF RedoStack
<1> HIDE DEF next, more, n
<1>4. IsASequence(s) /\ Len(s) = n + 1
      /\ \A k \in 1..n + 1 : s[k] = End(next[(n + 1) - k + 1], more)
  <2>1. IsASequence(s) /\ Len(s) = Len(next)
        /\ \A k \in 1..Len(next) : s[k] = End(next[Len(next) - k + 1], more)
    BY <1>2, PastFacts
  <2> QED
    BY <1>2, <2>1
<1>5. /\ IsASequence(future) /\ Len(future) = n
      /\ \A k \in 1..n : future[k] = End(stack[n - k + 1], line)
  BY <1>1, PastFacts DEF n
<1> HIDE DEF future, first, s
<1>6. /\ IsASequence(t) /\ Len(t) = n + 1 /\ t[1] = first
      /\ \A k \in 1..n : t[k + 1] = future[k]
  BY <1>5, ConsFacts
<1> HIDE DEF t
<1>7. \A k \in 1..n + 1 : s[k] = t[k]
  <2> TAKE k \in 1..n + 1
  <2>1. CASE k = 1
    <3>1. (n + 1) - k + 1 = n + 1
      BY <1>1, <2>1
    <3> QED
      BY <1>2, <1>4, <1>6, <2>1, <3>1 DEF first
  <2>2. CASE k # 1
    <3>1. /\ k - 1 \in 1..n /\ (k - 1) + 1 = k
          /\ (n + 1) - k + 1 \in 1..n /\ (n + 1) - k + 1 = n - (k - 1) + 1
      BY <1>1, <2>2
    <3>2. t[k] = future[k - 1]
      BY <1>6, <3>1
    <3>3. future[k - 1] = End(stack[(n + 1) - k + 1], line)
      BY <1>5, <3>1
    <3> QED
      BY <1>3, <1>4, <3>1, <3>2, <3>3
  <2> QED
    BY <2>1, <2>2
<1>8. s = t
  BY <1>4, <1>6, <1>7, SameSequence
<1> QED
  BY <1>8 DEF s, t, next, more, future, first

(* Popping the redo stack takes the first content off the future.           *)
LEMMA FuturePop ==
  ASSUME NEW line, IsASequence(line), NEW d, NEW stack, RedoStack(stack, line), stack # <<>>
  PROVE  /\ FutureOf(Front(stack), Append(line, d)) = Tail(FutureOf(stack, line))
         /\ Head(FutureOf(stack, line)) = End(Last(stack), line)
         /\ FutureOf(stack, line) # <<>>
<1> DEFINE n == Len(stack)
           more == Append(line, d)
           next == Front(stack)
           future == FutureOf(stack, line)
           s == FutureOf(next, more)
           t == Tail(future)
<1>1. IsASequence(stack) /\ n \in Nat /\ DOMAIN stack = 1..n
  BY SequenceFacts DEF RedoStack
<1>2. /\ n >= 1 /\ Last(stack) = stack[n]
      /\ IsASequence(next) /\ Len(next) = n - 1 /\ \A k \in 1..n - 1 : next[k] = stack[k]
  BY <1>1, FrontFacts
<1>3. \A k \in 1..n - 1 : End(next[k], more) = End(stack[k], line)
  <2> TAKE k \in 1..n - 1
  <2>1. k \in DOMAIN stack /\ next[k] = stack[k]
    BY <1>1, <1>2
  <2> QED
    BY <2>1, LeadsStays DEF RedoStack
<1> HIDE DEF next, more, n
<1>4. IsASequence(s) /\ Len(s) = n - 1
      /\ \A k \in 1..n - 1 : s[k] = End(next[(n - 1) - k + 1], more)
  <2>1. IsASequence(s) /\ Len(s) = Len(next)
        /\ \A k \in 1..Len(next) : s[k] = End(next[Len(next) - k + 1], more)
    BY <1>2, PastFacts
  <2> QED
    BY <1>2, <2>1
<1>5. /\ IsASequence(future) /\ Len(future) = n
      /\ \A k \in 1..n : future[k] = End(stack[n - k + 1], line)
  BY <1>1, PastFacts DEF n
<1> HIDE DEF future, s
<1>6. future # <<>>
  BY <1>2, <1>5
<1>7. t = [k \in 1..n - 1 |-> future[k + 1]] /\ Head(future) = future[1]
  <2>1. future \in Seq(ToSet(future))
    BY <1>5 DEF IsASequence
  <2>2. /\ t \in Seq(ToSet(future)) /\ Len(t) = Len(future) - 1
        /\ \A k \in 1..Len(t) : t[k] = future[k + 1]
    BY <1>6, <2>1, HeadTailProperties
  <2>3. t = [k \in 1..Len(t) |-> t[k]]
    BY <2>2, LenProperties
  <2> HIDE DEF t
  <2>4. t = [k \in 1..n - 1 |-> future[k + 1]]
    BY <1>5, <2>2, <2>3
  <2> QED
    BY <1>6, <2>1, <2>4
<1> HIDE DEF t
<1>8. n - 1 \in Nat /\ t = [k \in 1..n - 1 |-> t[k]] /\ \A k \in 1..n - 1 : t[k] = future[k + 1]
  BY <1>1, <1>2, <1>7
<1>9. IsASequence(t) /\ Len(t) = n - 1
  BY <1>8, IntervalIsSequence
<1>10. \A k \in 1..n - 1 : s[k] = t[k]
  <2> TAKE k \in 1..n - 1
  <2>1. /\ k + 1 \in 1..n /\ (n - 1) - k + 1 \in 1..n - 1 /\ (n - 1) - k + 1 = n - (k + 1) + 1
    BY <1>1
  <2>2. t[k] = End(stack[n - (k + 1) + 1], line)
    BY <1>5, <1>8, <2>1
  <2> QED
    BY <1>3, <1>4, <2>1, <2>2
<1>11. s = t
  BY <1>4, <1>9, <1>10, SameSequence
<1>12. Head(future) = End(Last(stack), line)
  <2>1. 1 \in 1..n /\ n - 1 + 1 = n
    BY <1>1, <1>2
  <2>2. future[1] = End(stack[n], line)
    BY <1>5, <2>1
  <2> QED
    BY <1>2, <1>7, <2>2
<1> QED
  BY <1>6, <1>11, <1>12 DEF s, t, next, more, future

(* A commit takes the place of everything after the content in force.       *)
LEMMA CommitIsCommit ==
  ASSUME HistoryInv, NEW edits, WellFormedBatch(edits), NEW expected,
         CommitCurrent(edits, expected)
  PROVE  Zipper!Commit \/ UNCHANGED Zipper!line
<1> DEFINE run == Replay(document, edits)
           new == [forward |-> Batch(edits, revision), inverse |-> Batch(run.inverse, revision + 1)]
<1>1. CASE UNCHANGED <<document, revision, base, log, undo, redo, authored, versions>>
  BY <1>1 DEF Zipper!line, Past, Future
<1>2. CASE /\ Result(edits, run) = "Ok"
           /\ Replace(edits, run)
           /\ undo' = Append(undo, new)
           /\ redo' = <<>>
  <2>1. /\ VersionsInv /\ LogInv /\ UndoStack(undo, versions)
        /\ IsASequence(versions) /\ Last(versions) = document
        /\ revision \in Nat /\ document = versions[revision + 1]
    BY LineFacts DEF HistoryInv, VersionsInv, StacksInv
  <2>2. run.refusal = "Ok" /\ versions' = Append(versions, run.doc)
    BY <1>2 DEF Result, Replace
  <2>3. Start(new, versions') = document
    <3>1. new.forward.expected = revision
      BY DEF Batch
    <3>2. versions'[revision + 1] = versions[revision + 1]
      <4>1. \A r \in 0..revision : versions'[r + 1] = versions[r + 1]
        BY <1>2, <2>1, <2>2, ReplaceExtends
      <4> QED
        BY <2>1, <4>1
    <3> HIDE DEF new
    <3> QED
      BY <2>1, <3>1, <3>2 DEF Start
  <2> HIDE DEF new, run
  <2>4. Past' = Append(Past, document)
    <3>1. PastOf(undo', versions') = Append(PastOf(undo, versions), document)
      BY <1>2, <2>1, <2>2, <2>3, PastPush
    <3> QED
      BY <3>1 DEF Past, PastOf, Start
  <2>5. Future' = <<>>
    BY <1>2 DEF Future
  <2> QED
    BY <2>4, <2>5 DEF Zipper!Commit
<1> QED
  BY <1>1, <1>2 DEF CommitCurrent

(* An undo of the code is an undo of the zipper.                            *)
LEMMA UndoIsUndo ==
  ASSUME HistoryInv, Undo
  PROVE  Zipper!Undo \/ UNCHANGED Zipper!line
<1> DEFINE entry == Last(undo)
           inverse == entry.inverse.edits
           run == Replay(document, inverse)
<1>1. CASE UNCHANGED <<document, revision, base, log, undo, redo, authored, versions>>
  BY <1>1 DEF Zipper!line, Past, Future
<1>2. CASE /\ Replace(inverse, run)
           /\ undo' = Front(undo)
           /\ redo' = Append(redo, entry)
  <2>1. /\ IsASequence(versions) /\ Last(versions) = document
        /\ undo # <<>> /\ UndoStack(undo, versions) /\ RedoStack(redo, versions)
    BY LineFacts DEF Undo, HistoryInv, StacksInv
  <2>2. /\ Leads(entry, versions) /\ End(entry, versions) = document
        /\ run.doc = Start(entry, versions)
    BY <2>1, UndoFacts
  <2>3. versions' = Append(versions, run.doc) /\ document' = run.doc
    BY <1>2 DEF Replace
  <2> HIDE DEF run, entry
  <2>4. /\ PastOf(undo', versions') = Front(PastOf(undo, versions))
        /\ Last(PastOf(undo, versions)) = Start(Last(undo), versions)
        /\ PastOf(undo, versions) # <<>>
    BY <1>2, <2>1, <2>3, PastPop
  <2>5. FutureOf(redo', versions') = <<document>> \o FutureOf(redo, versions)
    <3>1. End(entry, versions') = document
      BY <2>1, <2>2, <2>3, LeadsStays
    <3>2. FutureOf(Append(redo, entry), Append(versions, run.doc))
            = <<End(entry, Append(versions, run.doc))>> \o FutureOf(redo, versions)
      BY <2>1, FuturePush
    <3> QED
      BY <1>2, <2>3, <3>1, <3>2
  <2>6. /\ Past' = PastOf(undo', versions') /\ Future' = FutureOf(redo', versions')
        /\ Past = PastOf(undo, versions) /\ Future = FutureOf(redo, versions)
    BY DEF Past, PastOf, Start, Future, FutureOf, End
  <2>7. document' = Last(Past)
    BY <2>2, <2>3, <2>4, <2>6 DEF entry
  <2> QED
    BY <2>4, <2>5, <2>6, <2>7 DEF Zipper!Undo, Zipper!Last, Zipper!Front, Last, Front
<1> QED
  BY <1>1, <1>2 DEF Undo

(* A redo of the code is a redo of the zipper.                              *)
LEMMA RedoIsRedo ==
  ASSUME HistoryInv, Redo
  PROVE  Zipper!Redo \/ UNCHANGED Zipper!line
<1> DEFINE entry == Last(redo)
           forward == entry.forward.edits
           run == Replay(document, forward)
<1>1. CASE UNCHANGED <<document, revision, base, log, undo, redo, authored, versions>>
  BY <1>1 DEF Zipper!line, Past, Future
<1>2. CASE /\ Replace(forward, run)
           /\ undo' = Append(undo, entry)
           /\ redo' = Front(redo)
  <2>1. /\ IsASequence(versions) /\ Last(versions) = document
        /\ redo # <<>> /\ UndoStack(undo, versions) /\ RedoStack(redo, versions)
    BY LineFacts DEF Redo, HistoryInv, StacksInv
  <2>2. /\ Leads(entry, versions) /\ Start(entry, versions) = document
        /\ run.doc = End(entry, versions)
    BY <2>1, RedoFacts
  <2>3. versions' = Append(versions, run.doc) /\ document' = run.doc
    BY <1>2 DEF Replace
  <2> HIDE DEF run, entry
  <2>4. /\ FutureOf(redo', versions') = Tail(FutureOf(redo, versions))
        /\ Head(FutureOf(redo, versions)) = End(Last(redo), versions)
        /\ FutureOf(redo, versions) # <<>>
    BY <1>2, <2>1, <2>3, FuturePop
  <2>5. PastOf(undo', versions') = Append(PastOf(undo, versions), document)
    <3>1. Start(entry, versions') = document
      BY <2>1, <2>2, <2>3, LeadsStays
    <3>2. PastOf(Append(undo, entry), Append(versions, run.doc))
            = Append(PastOf(undo, versions), Start(entry, Append(versions, run.doc)))
      BY <2>1, PastPush
    <3> QED
      BY <1>2, <2>3, <3>1, <3>2
  <2>6. /\ Past' = PastOf(undo', versions') /\ Future' = FutureOf(redo', versions')
        /\ Past = PastOf(undo, versions) /\ Future = FutureOf(redo, versions)
    BY DEF Past, PastOf, Start, Future, FutureOf, End
  <2>7. document' = Head(Future)
    BY <2>2, <2>3, <2>4, <2>6 DEF entry
  <2> QED
    BY <2>4, <2>5, <2>6, <2>7 DEF Zipper!Redo
<1> QED
  BY <1>1, <1>2 DEF Redo

(* Undo and redo walk a line of contents, the order of every list included  *)
(* (`SemanticEditHistory::undo` and `redo`, edit.rs).                       *)
THEOREM UndoZipperIsImplemented == Spec => ImplementsUndoZipper
<1>1. Init => Zipper!Init
  BY DEF Init, Zipper!Init, Past, Future
<1>2. HistoryInv /\ [Next]_historyVars => [Zipper!Next]_(Zipper!line)
  <2> SUFFICES ASSUME HistoryInv, [Next]_historyVars
               PROVE  Zipper!Next \/ UNCHANGED Zipper!line
    OBVIOUS
  <2>1. \A edits \in Batches[versions[1]] : WellFormedBatch(edits)
    BY HistoryAssumption DEF HistoryInv, VersionsInv
  <2>2. ASSUME NEW edits \in Batches[versions[1]], Commit(edits)
        PROVE  Zipper!Next \/ UNCHANGED Zipper!line
    BY <2>1, <2>2, CommitIsCommit DEF Commit, Zipper!Next
  <2>3. ASSUME NEW edits \in Batches[versions[1]], NEW expected \in 0..MaxRevision,
               CommitConcurrent(edits, expected)
        PROVE  Zipper!Next \/ UNCHANGED Zipper!line
    BY <2>1, <2>3, CommitIsCommit DEF CommitConcurrent, Zipper!Next
  <2>4. CASE Undo
    BY <2>4, UndoIsUndo DEF Zipper!Next
  <2>5. CASE Redo
    BY <2>5, RedoIsRedo DEF Zipper!Next
  <2>6. CASE Compact \/ UNCHANGED historyVars
    BY <2>6 DEF Compact, historyVars, Zipper!line, Past, Future
  <2> QED
    BY <2>2, <2>3, <2>4, <2>5, <2>6 DEF Next
<1> QED
  BY <1>1, <1>2, HistoryInvHolds, PTL DEF Spec, ImplementsUndoZipper, Zipper!Spec
=============================================================================
