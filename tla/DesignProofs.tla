---------------------------- MODULE DesignProofs ----------------------------
(***************************************************************************)
(* Proofs about the calls that hand out a design.                          *)
(*                                                                         *)
(* DesignElaboration, for every set of libraries: what the search for      *)
(* recursive definitions finds, and what it lets through.  The search is a *)
(* walk in depth with a set of definitions it has left.  While it has      *)
(* found no cycle, the definitions it has left contain only one another,   *)
(* and any of them taken together have one that contains none of the       *)
(* others: this is what "finished" has to mean for the definitions that    *)
(* pass to be safe to expand.                                              *)
(*                                                                         *)
(* IntelligentExchange, for requests, answers, pipes and limits of any     *)
(* size and any behaviour of the adapter program, and Ipc2581Inspection,   *)
(* for documents of any length.  The invariant of an export says what a    *)
(* thread that has ended leaves behind: a reader that did not reach its    *)
(* limit has emptied a pipe that nobody can fill again, and a writer that  *)
(* is done has written all.  That of an inspection says what the pass      *)
(* remembers of the events so far.                                         *)
(***************************************************************************)
EXTENDS DesignElaboration, IntelligentExchange, Ipc2581Inspection, FoldFacts

-----------------------------------------------------------------------------
(* The invariant, about a list of circuits `cs`.                           *)

Inside(cs, id) == Definition(cs, id).subcircuits
Frames(cs) == [id : Names(cs), next : Nat \ {0}]

(* The walk is inside of definitions it has not left, each once, and each   *)
(* but the top one is at an instance of the next.                           *)
Stack(cs, act, fin) ==
  /\ act \in Seq(Frames(cs))
  /\ fin \subseteq Names(cs)
  /\ \A i \in 1 .. Len(act) : act[i].id \notin fin
  /\ \A i, j \in 1 .. Len(act) : act[i].id = act[j].id => i = j
  /\ \A i \in 1 .. Len(act) - 1 :
       /\ act[i].next - 1 \in 1 .. Len(Inside(cs, act[i].id))
       /\ Inside(cs, act[i].id)[act[i].next - 1].circuit = act[i + 1].id

(* What a definition contains that was left is left, what was passed on the *)
(* way is left or being walked, and of any definitions left one contains    *)
(* none of them.                                                            *)
Left(cs, act, fin) ==
  /\ \A i \in 1 .. Len(act) : \A k \in 1 .. Len(Inside(cs, act[i].id)) :
       LET child == Inside(cs, act[i].id)[k].circuit
       IN k < act[i].next /\ child \in Names(cs) =>
            child \in fin \/ (i < Len(act) /\ child = act[i + 1].id)
  /\ \A id \in fin : \A k \in 1 .. Len(Inside(cs, id)) :
       Inside(cs, id)[k].circuit \in Names(cs) => Inside(cs, id)[k].circuit \in fin
  /\ \A ids \in SUBSET fin : ids # {} =>
       \E id \in ids : \A k \in 1 .. Len(Inside(cs, id)) :
          Inside(cs, id)[k].circuit \notin ids

IsCycle(cs, cycle) ==
  /\ cycle[1] = cycle[Len(cycle)]
  /\ \A i \in 1 .. (Len(cycle) - 1) :
       \E sub \in Elements(Inside(cs, cycle[i])) : sub.circuit = cycle[i + 1]

SearchInv ==
  /\ Stack(circuits, active, finished)
  /\ cycles = {} => Left(circuits, active, finished)
  /\ \A cycle \in cycles : IsCycle(circuits, cycle)
  /\ pending \subseteq Names(circuits)
  /\ status = "cycles" =>
       \A id \in Names(circuits) :
          \/ id \in pending
          \/ id \in finished
          \/ \E i \in 1 .. Len(active) : active[i].id = id

(* Nothing is flat before the search has let the library through.           *)
Unsearched == {"intent", "definitions", "cycles",
               "InvalidDesignIntent", "Panicked", "InvalidLibrary"}
ResultInv ==
  /\ status \in Unsearched => flat = NoCircuit
  /\ status \notin Unsearched => ~Recursive

ElaborationInv == design \in Designs /\ SearchInv /\ ResultInv

-----------------------------------------------------------------------------
(* Lemmas on natural numbers, lists and stacks.                            *)

(* Every non-empty set of places up to a bound has a last one.              *)
LEMMA LastPlace ==
  ASSUME NEW n \in Nat, NEW T, T \subseteq 1 .. n, T # {}
  PROVE  \E x \in T : \A y \in T : y <= x
<1> DEFINE D == {n - y : y \in T}
<1>1. D \subseteq Nat /\ D # {}
  <2>1. PICK x \in T : TRUE
    OBVIOUS
  <2>2. \A y \in T : n - y \in Nat
    OBVIOUS
  <2>3. n - x \in D
    OBVIOUS
  <2> QED BY <2>2, <2>3
<1>2. PICK d \in D : \A e \in D : d <= e
  BY <1>1, LeastNatural
<1>3. PICK x \in T : d = n - x
  BY <1>2
<1>4. \A y \in T : n - x <= n - y
  BY <1>2, <1>3
<1> QED BY <1>3, <1>4

(* A list has a natural number of places.                                   *)
LEMMA ListPlaces ==
  ASSUME NEW list, IsList(list)
  PROVE  /\ Len(list) \in Nat
         /\ DOMAIN list = 1 .. Len(list)
  BY LenProperties DEF IsList

(* A function on the first places is a list.                                *)
LEMMA FunctionIsList ==
  ASSUME NEW S, NEW m \in Nat, NEW f \in [1 .. m -> S]
  PROVE  f \in Seq(S) /\ Len(f) = m
  OBVIOUS

(* A definition looked up by an identity that has one is an entry of the    *)
(* list with that identity.                                                 *)
LEMMA DefinitionOf ==
  ASSUME NEW cs, IsList(cs), NEW id \in Names(cs)
  PROVE  Definition(cs, id) \in Elements(cs)
<1> DEFINE places == {i \in DOMAIN cs : cs[i].id = id}
<1>1. Len(cs) \in Nat /\ DOMAIN cs = 1 .. Len(cs)
  BY ListPlaces
<1>2. places \subseteq 1 .. Len(cs) /\ places # {}
  BY <1>1 DEF Names, Elements
<1>3. \E i \in places : \A j \in places : j <= i
  BY <1>1, <1>2, LastPlace
<1>4. (CHOOSE i \in places : \A j \in places : j <= i) \in places
  BY <1>3
<1>5. Definition(cs, id) = cs[CHOOSE i \in places : \A j \in places : j <= i]
  BY <1>2, Zenon DEF Definition
<1> QED BY <1>4, <1>5 DEF Elements

(* The instances in a definition are a list.                                *)
LEMMA InstancesAreListed ==
  ASSUME NEW given \in Designs, NEW id \in Names(given.library.circuits)
  PROVE  /\ Len(Inside(given.library.circuits, id)) \in Nat
         /\ DOMAIN Inside(given.library.circuits, id)
              = 1 .. Len(Inside(given.library.circuits, id))
<1>1. Definition(given.library.circuits, id) \in Elements(given.library.circuits)
  BY DefinitionOf, DesignsAssumption
<1>2. IsList(Inside(given.library.circuits, id))
  BY <1>1, DesignsAssumption DEF Inside
<1> QED BY <1>2, ListPlaces

(* The first of some identities, in the order of the maps, is one of them.  *)
LEMMA FirstIsOne ==
  ASSUME NEW ids, ids # {}, ids \subseteq Elements(IdOrder)
  PROVE  FirstOf(ids) \in ids
<1> DEFINE places == {i \in DOMAIN IdOrder : IdOrder[i] \in ids}
           First(i) == /\ IdOrder[i] \in ids
                       /\ \A j \in DOMAIN IdOrder : IdOrder[j] \in ids => i <= j
<1>1. places \subseteq Nat /\ places # {}
  BY ListPlaces, DesignsAssumption DEF Elements
<1>2. PICK i \in places : \A j \in places : i <= j
  BY <1>1, LeastNatural
<1>3. i \in DOMAIN IdOrder /\ First(i)
  BY <1>2
<1>4. First(CHOOSE k \in DOMAIN IdOrder : First(k))
  BY <1>3
<1> QED BY <1>4, Zenon DEF FirstOf

(* Advancing moves the top of a stack and nothing else.                     *)
LEMMA AdvanceFacts ==
  ASSUME NEW I, NEW act \in Seq([id : I, next : Nat \ {0}]), act # << >>
  PROVE  /\ Len(act) \in Nat \ {0}
         /\ act[Len(act)] \in [id : I, next : Nat \ {0}]
         /\ Advance(act) \in Seq([id : I, next : Nat \ {0}])
         /\ Len(Advance(act)) = Len(act)
         /\ \A i \in 1 .. Len(act) : Advance(act)[i].id = act[i].id
         /\ \A i \in 1 .. Len(act) - 1 : Advance(act)[i].next = act[i].next
         /\ Advance(act)[Len(act)].next = act[Len(act)].next + 1
<1> DEFINE F == [id : I, next : Nat \ {0}]
<1>1. Len(act) \in Nat \ {0} /\ act \in [1 .. Len(act) -> F]
  BY LenProperties, EmptySeq
<1>2. PICK n \in Nat \ {0} : n = Len(act)
  BY <1>1
<1>3. Advance(act) = [act EXCEPT ![n] = [act[n] EXCEPT !.next = act[n].next + 1]]
  BY <1>1, <1>2 DEF Advance
<1>4. act[n] \in F
  BY <1>1, <1>2
<1>5. [act[n] EXCEPT !.next = act[n].next + 1] \in F
  BY <1>4
<1>6. Advance(act) \in [1 .. n -> F]
  BY <1>1, <1>2, <1>3, <1>5
<1>7. Advance(act) \in Seq(F) /\ Len(Advance(act)) = n
  BY <1>6
<1>8. \A i \in 1 .. n : i # n => Advance(act)[i] = act[i]
  BY <1>1, <1>2, <1>3
<1>9. Advance(act)[n] = [act[n] EXCEPT !.next = act[n].next + 1]
  BY <1>1, <1>2, <1>3, <1>6
<1>10. Advance(act)[n].id = act[n].id /\ Advance(act)[n].next = act[n].next + 1
  BY <1>4, <1>9
<1>11. \A i \in 1 .. n : Advance(act)[i].id = act[i].id
  BY <1>8, <1>10
<1>12. \A i \in 1 .. n - 1 : Advance(act)[i].next = act[i].next
  <2>1. \A i \in 1 .. n - 1 : i \in 1 .. n /\ i # n
    OBVIOUS
  <2> QED BY <1>8, <2>1
<1>13. Advance(act) \in Seq(F) /\ act[Len(act)] \in F
  BY <1>2, <1>4, <1>7
<1> HIDE DEF F
<1>14. /\ Len(Advance(act)) = Len(act)
       /\ Advance(act)[Len(act)].next = act[Len(act)].next + 1
  BY <1>2, <1>7, <1>10
<1>15. /\ \A i \in 1 .. Len(act) : Advance(act)[i].id = act[i].id
       /\ \A i \in 1 .. Len(act) - 1 : Advance(act)[i].next = act[i].next
  BY <1>2, <1>11, <1>12
<1> QED BY <1>1, <1>13, <1>14, <1>15 DEF F

(* Leaving takes the top off a stack.                                       *)
LEMMA BelowFacts ==
  ASSUME NEW F, NEW act \in Seq(F), act # << >>
  PROVE  /\ Len(act) \in Nat \ {0}
         /\ Below(act) \in Seq(F)
         /\ Len(Below(act)) = Len(act) - 1
         /\ \A i \in 1 .. Len(act) - 1 : Below(act)[i] = act[i]
<1>1. Len(act) \in Nat \ {0} /\ \A i \in 1 .. Len(act) : act[i] \in F
  BY LenProperties, ElementOfSeq, EmptySeq
<1>2. PICK n \in Nat \ {0} : n = Len(act)
  BY <1>1
<1>3. \A i \in 1 .. n - 1 : act[i] \in F
  BY <1>1, <1>2
<1>4. /\ SubSeq(act, 1, n - 1) \in Seq(F)
      /\ Len(SubSeq(act, 1, n - 1)) = n - 1
      /\ \A i \in 1 .. n - 1 : SubSeq(act, 1, n - 1)[i] = act[i]
  BY <1>2, <1>3, SubSeqProperties
<1> QED BY <1>2, <1>4 DEF Below

-----------------------------------------------------------------------------
(* The moves of the walk, about a list of circuits `cs`.                   *)

(* Passing an instance leaves the walk where it is, and keeps what was left *)
(* closed if the definition passed is already left or is not one.           *)
LEMMA PassingKeeps ==
  ASSUME NEW cs, NEW act, NEW fin, Stack(cs, act, fin), act # << >>
  PROVE  /\ Stack(cs, Advance(act), fin)
         /\ LET child == Inside(cs, act[Len(act)].id)[act[Len(act)].next].circuit
            IN Left(cs, act, fin) /\ (child \in Names(cs) => child \in fin)
                 => Left(cs, Advance(act), fin)
<1> DEFINE new == Advance(act)
<1>1. act \in Seq(Frames(cs))
  BY DEF Stack
<1>2. /\ Len(act) \in Nat \ {0}
      /\ act[Len(act)] \in Frames(cs)
      /\ new \in Seq(Frames(cs))
      /\ Len(new) = Len(act)
      /\ \A i \in 1 .. Len(act) : new[i].id = act[i].id
      /\ \A i \in 1 .. Len(act) - 1 : new[i].next = act[i].next
      /\ new[Len(act)].next = act[Len(act)].next + 1
  BY <1>1, AdvanceFacts DEF Frames
<1> HIDE DEF new
<1>3. PICK n \in Nat \ {0} : n = Len(act)
  BY <1>2
<1>4. \A i \in 1 .. n - 1 : i \in 1 .. n /\ i + 1 \in 1 .. n /\ i # n
  OBVIOUS
<1>5. Stack(cs, new, fin)
  <2>1. fin \subseteq Names(cs) /\ \A i \in 1 .. Len(new) : new[i].id \notin fin
    BY <1>2 DEF Stack
  <2>2. \A i, j \in 1 .. Len(new) : new[i].id = new[j].id => i = j
    BY <1>2 DEF Stack
  <2>3. ASSUME NEW i \in 1 .. Len(new) - 1
        PROVE  /\ new[i].next - 1 \in 1 .. Len(Inside(cs, new[i].id))
               /\ Inside(cs, new[i].id)[new[i].next - 1].circuit = new[i + 1].id
    <3>1. i \in 1 .. n - 1 /\ i \in 1 .. n /\ i + 1 \in 1 .. n
      BY <1>2, <1>3
    <3>2. new[i].id = act[i].id /\ new[i].next = act[i].next /\ new[i + 1].id = act[i + 1].id
      BY <1>2, <1>3, <3>1
    <3> QED BY <1>3, <3>1, <3>2 DEF Stack
  <2> QED BY <1>2, <2>1, <2>2, <2>3 DEF Stack
<1>6. ASSUME Left(cs, act, fin),
             LET child == Inside(cs, act[n].id)[act[n].next].circuit
             IN child \in Names(cs) => child \in fin
      PROVE  Left(cs, new, fin)
  <2>1. ASSUME NEW i \in 1 .. Len(new), NEW k \in 1 .. Len(Inside(cs, new[i].id)),
               k < new[i].next, Inside(cs, new[i].id)[k].circuit \in Names(cs)
        PROVE  \/ Inside(cs, new[i].id)[k].circuit \in fin
               \/ /\ i < Len(new)
                  /\ Inside(cs, new[i].id)[k].circuit = new[i + 1].id
    <3>1. i \in 1 .. n /\ new[i].id = act[i].id /\ act[n].next \in Nat
      BY <1>2, <1>3 DEF Frames
    <3>2. CASE i < n
      <4>1. i \in 1 .. n - 1 /\ i + 1 \in 1 .. n
        BY <3>1, <3>2
      <4>2. new[i].next = act[i].next /\ new[i + 1].id = act[i + 1].id
        BY <1>2, <1>3, <4>1
      <4> QED BY <1>2, <1>3, <1>6, <2>1, <3>1, <4>1, <4>2 DEF Left
    <3>3. CASE i = n /\ k < act[n].next
      BY <1>2, <1>3, <1>6, <2>1, <3>1, <3>3 DEF Left
    <3>4. CASE i = n /\ ~(k < act[n].next)
      <4>1. k = act[n].next
        <5>1. k < act[n].next + 1
          BY <1>2, <1>3, <2>1, <3>4
        <5>2. k \in Int
          OBVIOUS
        <5> QED BY <3>1, <3>4, <5>1, <5>2
      <4> QED BY <1>6, <2>1, <3>1, <3>4, <4>1
    <3> QED BY <3>1, <3>2, <3>3, <3>4
  <2> QED BY <1>6, <2>1 DEF Left
<1> QED BY <1>3, <1>5, <1>6 DEF new

(* Going into a definition that is neither left nor being walked makes it   *)
(* the top, and keeps what was left closed.                                 *)
LEMMA EnteringKeeps ==
  ASSUME NEW cs, NEW act, NEW fin, Stack(cs, act, fin), act # << >>,
         Len(Inside(cs, act[Len(act)].id)) \in Nat,
         act[Len(act)].next <= Len(Inside(cs, act[Len(act)].id)),
         NEW id \in Names(cs) \ fin,
         id = Inside(cs, act[Len(act)].id)[act[Len(act)].next].circuit,
         \A i \in 1 .. Len(act) : act[i].id # id
  PROVE  LET new == Append(Advance(act), [id |-> id, next |-> 1])
         IN /\ Stack(cs, new, fin)
            /\ Left(cs, act, fin) => Left(cs, new, fin)
            /\ Len(new) = Len(act) + 1
            /\ \A i \in 1 .. Len(act) : new[i].id = act[i].id
            /\ new[Len(act) + 1].id = id
<1> DEFINE moved == Advance(act)
           new == Append(moved, [id |-> id, next |-> 1])
<1>1. act \in Seq(Frames(cs))
  BY DEF Stack
<1>2. /\ Len(act) \in Nat \ {0}
      /\ act[Len(act)] \in Frames(cs)
      /\ moved \in Seq(Frames(cs))
      /\ Len(moved) = Len(act)
      /\ \A i \in 1 .. Len(act) : moved[i].id = act[i].id
      /\ \A i \in 1 .. Len(act) - 1 : moved[i].next = act[i].next
      /\ moved[Len(act)].next = act[Len(act)].next + 1
  BY <1>1, AdvanceFacts DEF Frames
<1> HIDE DEF moved
<1>3. PICK n \in Nat \ {0} : n = Len(act)
  BY <1>2
<1>4. [id |-> id, next |-> 1] \in Frames(cs)
  BY DEF Frames
<1>5. /\ new \in Seq(Frames(cs))
      /\ Len(new) = n + 1
      /\ \A i \in 1 .. n : new[i] = moved[i]
      /\ new[n + 1] = [id |-> id, next |-> 1]
  BY <1>2, <1>3, <1>4, AppendProperties
<1> HIDE DEF new
<1>6. act[n].next \in Nat \ {0}
  BY <1>2, <1>3 DEF Frames
<1>7. /\ \A i \in 1 .. n : new[i].id = act[i].id
      /\ new[n + 1].id = id /\ new[n + 1].next = 1
      /\ new[n].next = act[n].next + 1
  BY <1>2, <1>3, <1>5
<1>8. \A i \in 1 .. n - 1 : new[i].next = act[i].next
  BY <1>2, <1>3, <1>5
<1>9. Stack(cs, new, fin)
  <2>1. fin \subseteq Names(cs) /\ \A i \in 1 .. Len(new) : new[i].id \notin fin
    <3>1. \A i \in 1 .. n + 1 : i \in 1 .. n \/ i = n + 1
      OBVIOUS
    <3>2. \A i \in 1 .. n : new[i].id \notin fin
      BY <1>3, <1>7 DEF Stack
    <3>3. fin \subseteq Names(cs)
      BY DEF Stack
    <3> QED BY <1>5, <1>7, <3>1, <3>2, <3>3
  <2>2. ASSUME NEW i \in 1 .. Len(new), NEW j \in 1 .. Len(new), new[i].id = new[j].id
        PROVE  i = j
    <3>1. (i \in 1 .. n \/ i = n + 1) /\ (j \in 1 .. n \/ j = n + 1)
      BY <1>5
    <3>2. \A k \in 1 .. n : new[k].id # id
      BY <1>3, <1>7
    <3>3. CASE i \in 1 .. n /\ j \in 1 .. n
      <4>1. act[i].id = act[j].id /\ i \in 1 .. Len(act) /\ j \in 1 .. Len(act)
        BY <1>3, <1>7, <2>2, <3>3
      <4> QED BY <4>1 DEF Stack
    <3>4. CASE i = n + 1 \/ j = n + 1
      BY <1>7, <2>2, <3>1, <3>2, <3>4
    <3> QED BY <3>1, <3>3, <3>4
  <2>3. ASSUME NEW i \in 1 .. Len(new) - 1
        PROVE  /\ new[i].next - 1 \in 1 .. Len(Inside(cs, new[i].id))
               /\ Inside(cs, new[i].id)[new[i].next - 1].circuit = new[i + 1].id
    <3>1. i \in 1 .. n /\ (i = n \/ i \in 1 .. n - 1)
      BY <1>5
    <3>2. CASE i = n
      <4>1. new[i].next - 1 = act[n].next
        <5>1. PICK k \in Nat : k = act[n].next
          BY <1>6
        <5>2. new[i].next = k + 1 /\ k + 1 - 1 = k
          BY <1>7, <3>2, <5>1
        <5> QED BY <5>1, <5>2
      <4>2. new[i].id = act[n].id /\ new[i + 1].id = id
        BY <1>7, <3>1, <3>2
      <4>3. act[n].next \in 1 .. Len(Inside(cs, act[n].id))
        BY <1>3, <1>6
      <4> QED BY <1>3, <4>1, <4>2, <4>3
    <3>3. CASE i \in 1 .. n - 1
      <4>1. i + 1 \in 1 .. n
        BY <3>3
      <4>2. /\ new[i].id = act[i].id /\ new[i].next = act[i].next
            /\ new[i + 1].id = act[i + 1].id
        BY <1>7, <1>8, <3>1, <3>3, <4>1
      <4> QED BY <1>3, <3>3, <4>2 DEF Stack
    <3> QED BY <3>1, <3>2, <3>3
  <2> QED BY <1>5, <2>1, <2>2, <2>3 DEF Stack
<1>10. ASSUME Left(cs, act, fin)
       PROVE  Left(cs, new, fin)
  <2>1. ASSUME NEW i \in 1 .. Len(new), NEW k \in 1 .. Len(Inside(cs, new[i].id)),
               k < new[i].next, Inside(cs, new[i].id)[k].circuit \in Names(cs)
        PROVE  \/ Inside(cs, new[i].id)[k].circuit \in fin
               \/ /\ i < Len(new)
                  /\ Inside(cs, new[i].id)[k].circuit = new[i + 1].id
    <3>1. i \in 1 .. n - 1 \/ i = n \/ i = n + 1
      BY <1>5
    <3>2. CASE i \in 1 .. n - 1
      <4>1. i \in 1 .. n /\ i + 1 \in 1 .. n /\ i < n + 1
        BY <3>2
      <4>2. /\ new[i].id = act[i].id /\ new[i].next = act[i].next
            /\ new[i + 1].id = act[i + 1].id
        BY <1>7, <1>8, <3>2, <4>1
      <4> QED BY <1>3, <1>5, <1>10, <2>1, <4>1, <4>2 DEF Left
    <3>3. CASE i = n
      <4>1. new[i].id = act[n].id /\ new[i + 1].id = id /\ i < Len(new)
        BY <1>5, <1>7, <3>3
      <4>2. k < act[n].next \/ k = act[n].next
        <5>1. k < act[n].next + 1 /\ k \in Int
          BY <1>7, <2>1, <3>3
        <5> QED BY <1>6, <5>1
      <4>3. CASE k < act[n].next
        <5>1. Inside(cs, act[n].id)[k].circuit \in fin
          <6>1. n \in 1 .. Len(act) /\ ~(n < Len(act))
            BY <1>3
          <6> QED BY <1>10, <2>1, <4>1, <4>3, <6>1 DEF Left
        <5> QED BY <4>1, <5>1
      <4>4. CASE k = act[n].next
        BY <1>3, <4>1, <4>4
      <4> QED BY <4>2, <4>3, <4>4
    <3>4. CASE i = n + 1
      BY <1>7, <2>1, <3>4
    <3> QED BY <3>1, <3>2, <3>3, <3>4
  <2> QED BY <1>10, <2>1 DEF Left
<1> QED BY <1>3, <1>5, <1>7, <1>9, <1>10 DEF new, moved

(* Leaving a definition all of whose instances were passed keeps what was   *)
(* left closed, with the definition one more.                               *)
LEMMA LeavingKeeps ==
  ASSUME NEW cs, NEW act, NEW fin, Stack(cs, act, fin), act # << >>,
         Len(Inside(cs, act[Len(act)].id)) \in Nat,
         act[Len(act)].next > Len(Inside(cs, act[Len(act)].id))
  PROVE  LET more == fin \cup {act[Len(act)].id}
         IN /\ Stack(cs, Below(act), more)
            /\ Left(cs, act, fin) => Left(cs, Below(act), more)
            /\ \A i \in 1 .. Len(act) :
                 \/ act[i].id \in more
                 \/ \E j \in 1 .. Len(Below(act)) : Below(act)[j].id = act[i].id
<1> DEFINE new == Below(act)
<1>1. act \in Seq(Frames(cs))
  BY DEF Stack
<1>2. /\ Len(act) \in Nat \ {0}
      /\ new \in Seq(Frames(cs))
      /\ Len(new) = Len(act) - 1
      /\ \A i \in 1 .. Len(act) - 1 : new[i] = act[i]
  BY <1>1, BelowFacts
<1> HIDE DEF new
<1>3. PICK n \in Nat \ {0} : n = Len(act)
  BY <1>2
<1>4. Len(new) = n - 1 /\ \A i \in 1 .. n - 1 : new[i] = act[i]
  BY <1>2, <1>3
<1>5. n \in 1 .. n /\ \A i \in 1 .. n - 1 : i \in 1 .. n /\ i # n
  OBVIOUS
<1>6. act[n] \in Frames(cs)
  BY <1>1, <1>3, <1>5, ElementOfSeq
<1> DEFINE top == act[n].id
           more == fin \cup {top}
<1>7. top \in Names(cs) /\ top \notin fin /\ act[n].next \in Nat
  BY <1>3, <1>5, <1>6 DEF Stack, Frames
<1>8. Stack(cs, new, more)
  <2>1. more \subseteq Names(cs)
    BY <1>7 DEF Stack
  <2>2. \A i \in 1 .. Len(new) : new[i].id \notin more
    BY <1>3, <1>4, <1>5 DEF Stack
  <2>3. \A i, j \in 1 .. Len(new) : new[i].id = new[j].id => i = j
    BY <1>3, <1>4, <1>5 DEF Stack
  <2>4. ASSUME NEW i \in 1 .. Len(new) - 1
        PROVE  /\ new[i].next - 1 \in 1 .. Len(Inside(cs, new[i].id))
               /\ Inside(cs, new[i].id)[new[i].next - 1].circuit = new[i + 1].id
    <3>1. i \in 1 .. n - 1 /\ i + 1 \in 1 .. n - 1
      BY <1>4
    <3> QED BY <1>3, <1>4, <3>1 DEF Stack
  <2> QED BY <1>2, <2>1, <2>2, <2>3, <2>4 DEF Stack
<1>9. ASSUME Left(cs, act, fin)
      PROVE  Left(cs, new, more)
  <2>1. \A i \in 1 .. Len(new) : \A k \in 1 .. Len(Inside(cs, new[i].id)) :
          LET child == Inside(cs, new[i].id)[k].circuit
          IN k < new[i].next /\ child \in Names(cs) =>
               child \in more \/ (i < Len(new) /\ child = new[i + 1].id)
    <3> SUFFICES ASSUME NEW i \in 1 .. n - 1,
                        NEW k \in 1 .. Len(Inside(cs, act[i].id)),
                        k < act[i].next, Inside(cs, act[i].id)[k].circuit \in Names(cs)
                 PROVE  \/ Inside(cs, act[i].id)[k].circuit \in more
                        \/ /\ i < n - 1
                           /\ Inside(cs, act[i].id)[k].circuit = new[i + 1].id
      BY <1>4
    <3>1. \/ Inside(cs, act[i].id)[k].circuit \in fin
          \/ Inside(cs, act[i].id)[k].circuit = act[i + 1].id
      BY <1>3, <1>5, <1>9 DEF Left
    <3>2. (i < n - 1 /\ i + 1 \in 1 .. n - 1) \/ i + 1 = n
      OBVIOUS
    <3> QED BY <1>4, <3>1, <3>2
  <2>2. \A k \in 1 .. Len(Inside(cs, top)) :
          Inside(cs, top)[k].circuit \in Names(cs) => Inside(cs, top)[k].circuit \in fin
    <3>1. n \in 1 .. Len(act) /\ ~(n < Len(act))
      BY <1>3
    <3>2. \A k \in 1 .. Len(Inside(cs, top)) : k < act[n].next
      BY <1>3, <1>7
    <3> QED BY <1>9, <3>1, <3>2 DEF Left
  <2>3. \A id \in more : \A k \in 1 .. Len(Inside(cs, id)) :
          Inside(cs, id)[k].circuit \in Names(cs) => Inside(cs, id)[k].circuit \in fin
    BY <1>9, <2>2 DEF Left
  <2>4. ASSUME NEW ids \in SUBSET more, ids # {}
        PROVE  \E id \in ids : \A k \in 1 .. Len(Inside(cs, id)) :
                  Inside(cs, id)[k].circuit \notin ids
    <3>1. CASE ids \ {top} = {}
      <4>1. ids = {top}
        BY <2>4, <3>1
      <4> QED BY <1>7, <2>2, <4>1
    <3>2. CASE ids \ {top} # {}
      <4>1. ids \ {top} \in SUBSET fin
        OBVIOUS
      <4>2. PICK id \in ids \ {top} : \A k \in 1 .. Len(Inside(cs, id)) :
              Inside(cs, id)[k].circuit \notin ids \ {top}
        BY <1>9, <3>2, <4>1 DEF Left
      <4>3. \A k \in 1 .. Len(Inside(cs, id)) : Inside(cs, id)[k].circuit # top
        BY <1>7, <2>3, <4>2
      <4> QED BY <4>2, <4>3
    <3> QED BY <3>1, <3>2
  <2> QED BY <2>1, <2>3, <2>4 DEF Left
<1>10. ASSUME NEW i \in 1 .. Len(act)
       PROVE  act[i].id \in more \/ \E j \in 1 .. Len(new) : new[j].id = act[i].id
  <2>1. i = n \/ i \in 1 .. n - 1
    BY <1>3
  <2> QED BY <1>4, <2>1
<1> QED BY <1>3, <1>8, <1>9, <1>10 DEF new

(* The definitions from the place of one on the way to the top, which       *)
(* contains it, and that one once more are a cycle.                         *)
LEMMA CycleIsOne ==
  ASSUME NEW cs, NEW act, NEW fin, Stack(cs, act, fin), act # << >>,
         \A i \in 1 .. Len(act) :
            /\ Len(Inside(cs, act[i].id)) \in Nat
            /\ DOMAIN Inside(cs, act[i].id) = 1 .. Len(Inside(cs, act[i].id)),
         act[Len(act)].next <= Len(Inside(cs, act[Len(act)].id)),
         NEW id, id = Inside(cs, act[Len(act)].id)[act[Len(act)].next].circuit,
         NEW place \in 1 .. Len(act), act[place].id = id,
         NEW way, way = [i \in 1 .. Len(act) - place + 1 |-> act[place + i - 1].id]
  PROVE  IsCycle(cs, Append(way, id))
<1> DEFINE cycle == Append(way, id)
           N == Names(cs)
<1>1. act \in Seq(Frames(cs))
  BY DEF Stack
<1>2. Len(act) \in Nat /\ \A i \in 1 .. Len(act) : act[i] \in Frames(cs)
  BY <1>1, LenProperties, ElementOfSeq
<1>3. PICK n \in Nat : n = Len(act)
  BY <1>2
<1>4. PICK m \in Nat \ {0} : m = n - place + 1
  <2>1. n - place + 1 \in Nat \ {0}
    BY <1>3
  <2> QED BY <2>1
<1>5. \A i \in 1 .. m : place + i - 1 \in 1 .. n
  BY <1>3, <1>4
<1>6. way \in [1 .. m -> N]
  BY <1>2, <1>3, <1>4, <1>5 DEF Frames
<1> HIDE DEF N
<1>7. way \in Seq(N) /\ Len(way) = m
  <2>1. m \in Nat
    BY <1>4
  <2> QED BY <1>6, <2>1, FunctionIsList
<1>8. \A i \in 1 .. m : way[i] = act[place + i - 1].id
  BY <1>3, <1>4
<1>9. id \in N
  BY <1>2 DEF Frames, N
<1>10. /\ Len(cycle) = m + 1
       /\ \A i \in 1 .. m : cycle[i] = way[i]
       /\ cycle[m + 1] = id
  BY <1>7, <1>9, AppendProperties
<1> HIDE DEF cycle
<1>11. cycle[1] = cycle[Len(cycle)]
  <2>1. 1 \in 1 .. m /\ place + 1 - 1 = place
    BY <1>4
  <2> QED BY <1>8, <1>10, <2>1
<1>12. ASSUME NEW i \in 1 .. Len(cycle) - 1
       PROVE  \E sub \in Elements(Inside(cs, cycle[i])) : sub.circuit = cycle[i + 1]
  <2>1. i \in 1 .. m /\ cycle[i] = act[place + i - 1].id
    <3>1. i \in 1 .. m
      BY <1>4, <1>10
    <3> QED BY <1>8, <1>10, <3>1
  <2>2. PICK p \in 1 .. n : p = place + i - 1
    BY <1>5, <2>1
  <2>3. DOMAIN Inside(cs, act[p].id) = 1 .. Len(Inside(cs, act[p].id))
    BY <1>3
  <2>4. PICK k \in 1 .. Len(Inside(cs, act[p].id)) :
          Inside(cs, act[p].id)[k].circuit = cycle[i + 1]
    <3>1. CASE i = m
      <4>1. p = n /\ cycle[i + 1] = id
        BY <1>4, <1>10, <2>2, <3>1
      <4>2. act[n].next \in 1 .. Len(Inside(cs, act[n].id))
        <5>1. act[n].next \in Nat \ {0} /\ Len(Inside(cs, act[n].id)) \in Nat
          BY <1>2, <1>3, <4>1 DEF Frames
        <5> QED BY <1>3, <5>1
      <4> QED BY <1>3, <4>1, <4>2
    <3>2. CASE i # m
      <4>1. i + 1 \in 1 .. m /\ p \in 1 .. n - 1 /\ p + 1 = place + (i + 1) - 1
        <5>1. i + 1 \in 1 .. m
          BY <2>1, <3>2
        <5>2. p + 1 = place + (i + 1) - 1
          BY <2>1, <2>2
        <5>3. place + (i + 1) - 1 \in 1 .. n
          BY <1>5, <5>1
        <5>4. p + 1 \in 1 .. n
          BY <5>2, <5>3
        <5> QED BY <5>1, <5>2, <5>4
      <4>2. cycle[i + 1] = act[p + 1].id
        BY <1>8, <1>10, <4>1
      <4>3. /\ act[p].next - 1 \in 1 .. Len(Inside(cs, act[p].id))
            /\ Inside(cs, act[p].id)[act[p].next - 1].circuit = act[p + 1].id
        BY <1>3, <4>1 DEF Stack
      <4> QED BY <4>2, <4>3
    <3> QED BY <3>1, <3>2
  <2>5. Inside(cs, act[p].id)[k] \in Elements(Inside(cs, act[p].id))
    BY <2>3, <2>4 DEF Elements
  <2> QED BY <2>1, <2>2, <2>4, <2>5
<1> QED BY <1>11, <1>12 DEF IsCycle, cycle

-----------------------------------------------------------------------------
(* The invariant                                                           *)

LEMMA InitElaboration ==
  Init => ElaborationInv
<1> SUFFICES ASSUME Init PROVE ElaborationInv
  OBVIOUS
<1>1. active = << >> /\ finished = {} /\ cycles = {} /\ pending = {}
  BY DEF Init
<1>2. << >> \in Seq(Frames(circuits)) /\ Len(<< >>) = 0 /\ 1 .. 0 = {} /\ 0 - 1 = -1
      /\ 1 .. -1 = {}
  OBVIOUS
<1>3. Stack(circuits, active, finished)
  BY <1>1, <1>2 DEF Stack
<1>4. Left(circuits, active, finished)
  BY <1>1, <1>2 DEF Left
<1>5. SearchInv
  BY <1>1, <1>3, <1>4 DEF SearchInv, Init
<1>6. ResultInv
  BY DEF Init, ResultInv, Unsearched
<1> QED BY <1>5, <1>6 DEF Init, ElaborationInv

(* A step outside of the search leaves it alone.                            *)
LEMMA SearchIsKept ==
  ASSUME SearchInv, UNCHANGED <<design, searchVars>>, status' # "cycles"
  PROVE  SearchInv'
<1>1. UNCHANGED <<circuits, active, finished, cycles, pending>>
  BY DEF circuits, library, searchVars
<1>2. /\ Stack(circuits, active, finished)'
      /\ (cycles = {} => Left(circuits, active, finished))'
      /\ (\A cycle \in cycles : IsCycle(circuits, cycle))'
      /\ (pending \subseteq Names(circuits))'
  BY <1>1 DEF SearchInv
<1> QED BY <1>2 DEF SearchInv

(* The walk starts from the first definition it has not started from.       *)
LEMMA StartKeepsSearch ==
  ASSUME ElaborationInv, StartSearch
  PROVE  SearchInv'
<1> DEFINE id == FirstOf(pending)
<1>1. circuits' = circuits /\ finished' = finished /\ cycles' = cycles /\ status' = status
  BY DEF StartSearch, circuits, library
<1>2. id \in pending
  <2>1. pending # {} /\ pending \subseteq Elements(IdOrder)
    BY DesignsAssumption DEF StartSearch, ElaborationInv, SearchInv, circuits, library
  <2> QED BY <2>1, FirstIsOne
<1>3. id \in Names(circuits) /\ pending' = pending \ {id} /\ active = << >>
  BY <1>2 DEF StartSearch, ElaborationInv, SearchInv
<1> DEFINE frame == [id |-> id, next |-> 1]
<1>4. active' = IF id \in finished THEN << >> ELSE <<frame>>
  BY DEF StartSearch
<1> HIDE DEF id
<1>5. CASE id \in finished
  <2>1. active' = active
    BY <1>3, <1>4, <1>5
  <2>2. /\ Stack(circuits, active, finished)'
        /\ (cycles = {} => Left(circuits, active, finished))'
    BY <1>1, <2>1 DEF ElaborationInv, SearchInv
  <2>3. /\ (\A cycle \in cycles : IsCycle(circuits, cycle))'
        /\ (pending \subseteq Names(circuits))'
    BY <1>1, <1>3 DEF ElaborationInv, SearchInv
  <2>4. ASSUME status = "cycles", NEW other \in Names(circuits)
        PROVE  \/ other \in pending' \/ other \in finished
               \/ \E i \in 1 .. Len(active) : active[i].id = other
    BY <1>3, <1>5, <2>4 DEF ElaborationInv, SearchInv
  <2> QED BY <1>1, <2>1, <2>2, <2>3, <2>4 DEF SearchInv
<1>6. CASE id \notin finished
  <2>1. active' = <<frame>>
    BY <1>4, <1>6
  <2>2. frame \in Frames(circuits)
    BY <1>3 DEF Frames
  <2>3. /\ active' \in Seq(Frames(circuits)) /\ Len(active') = 1
        /\ active'[1] = frame /\ active'[1].id = id /\ active'[1].next = 1
    BY <2>1, <2>2
  <2>4. Stack(circuits, active', finished)
    <3>1. finished \subseteq Names(circuits)
      BY DEF ElaborationInv, SearchInv, Stack
    <3>2. \A i \in 1 .. Len(active') : i = 1
      BY <2>3
    <3>3. 1 .. Len(active') - 1 = {}
      BY <2>3
    <3> QED BY <1>6, <2>3, <3>1, <3>2, <3>3 DEF Stack
  <2>5. ASSUME cycles = {}
        PROVE  Left(circuits, active', finished)
    <3>1. Left(circuits, active, finished)
      BY <2>5 DEF ElaborationInv, SearchInv
    <3>2. \A i \in 1 .. Len(active') : \A k \in 1 .. Len(Inside(circuits, active'[i].id)) :
             ~(k < active'[i].next)
      BY <2>3
    <3> QED BY <3>1, <3>2 DEF Left
  <2>6. ASSUME status = "cycles", NEW other \in Names(circuits)
        PROVE  \/ other \in pending' \/ other \in finished
               \/ \E i \in 1 .. Len(active') : active'[i].id = other
    <3>1. CASE other = id
      BY <2>3, <3>1
    <3>2. CASE other # id
      <4>1. ~\E i \in 1 .. Len(active) : active[i].id = other
        BY <1>3
      <4> QED BY <1>3, <2>6, <3>2, <4>1 DEF ElaborationInv, SearchInv
    <3> QED BY <3>1, <3>2
  <2>7. /\ \A cycle \in cycles : IsCycle(circuits, cycle)
        /\ pending' \subseteq Names(circuits)
    BY <1>3 DEF ElaborationInv, SearchInv
  <2> QED BY <1>1, <2>4, <2>5, <2>6, <2>7 DEF SearchInv
<1> QED BY <1>5, <1>6

(* What the walk is inside of is a definition, its instances a list.        *)
LEMMA ActiveAreDefined ==
  ASSUME ElaborationInv
  PROVE  \A i \in 1 .. Len(active) :
            /\ active[i].id \in Names(circuits)
            /\ Len(Inside(circuits, active[i].id)) \in Nat
            /\ DOMAIN Inside(circuits, active[i].id)
                 = 1 .. Len(Inside(circuits, active[i].id))
<1> SUFFICES ASSUME NEW i \in 1 .. Len(active)
             PROVE  /\ active[i].id \in Names(circuits)
                    /\ Len(Inside(circuits, active[i].id)) \in Nat
                    /\ DOMAIN Inside(circuits, active[i].id)
                         = 1 .. Len(Inside(circuits, active[i].id))
  OBVIOUS
<1>1. active[i] \in Frames(circuits)
  BY ElementOfSeq DEF ElaborationInv, SearchInv, Stack
<1>2. active[i].id \in Names(circuits)
  BY <1>1 DEF Frames
<1> QED BY <1>2, InstancesAreListed DEF ElaborationInv, circuits, library

(* Visiting an instance passes it, finds a cycle or goes into it.           *)
LEMMA VisitKeepsSearch ==
  ASSUME ElaborationInv, VisitChild
  PROVE  SearchInv'
<1> DEFINE n == Len(active)
           id == Inside(circuits, active[n].id)[active[n].next].circuit
<1>1. /\ circuits' = circuits /\ pending' = pending /\ status' = status
      /\ status = "cycles" /\ active # << >>
  BY DEF VisitChild, circuits, library
<1>2. /\ Stack(circuits, active, finished)
      /\ cycles = {} => Left(circuits, active, finished)
      /\ \A cycle \in cycles : IsCycle(circuits, cycle)
      /\ pending \subseteq Names(circuits)
  BY DEF ElaborationInv, SearchInv
<1>3. \A other \in Names(circuits) :
        \/ other \in pending \/ other \in finished
        \/ \E i \in 1 .. n : active[i].id = other
  BY <1>1 DEF ElaborationInv, SearchInv
<1>4. /\ active \in Seq(Frames(circuits))
      /\ n \in Nat \ {0}
  <2>1. active \in Seq(Frames(circuits))
    BY <1>2 DEF Stack
  <2> QED BY <1>1, <2>1, EmptySeq, LenProperties
<1>5. /\ active[n].id \in Names(circuits)
      /\ Len(Inside(circuits, active[n].id)) \in Nat
      /\ DOMAIN Inside(circuits, active[n].id) = 1 .. Len(Inside(circuits, active[n].id))
  <2>1. n \in 1 .. n
    BY <1>4
  <2> QED BY <2>1, ActiveAreDefined
<1>6. active[n].next <= Len(Inside(circuits, active[n].id))
  BY DEF VisitChild, Top, Contained, Inside
<1>7. IF Defined(circuits, id) THEN Visit(id)
      ELSE active' = Advance(active) /\ UNCHANGED <<finished, cycles>>
  BY Zenon DEF VisitChild, Top, Contained, Inside
<1>8. Defined(circuits, id) <=> id \in Names(circuits)
  BY DEF Defined, Names
<1> HIDE DEF id
<1>9. /\ Len(Advance(active)) = n
      /\ \A i \in 1 .. n : Advance(active)[i].id = active[i].id
  BY <1>1, <1>4, AdvanceFacts DEF Frames
<1>10. Stack(circuits, Advance(active), finished)
  BY <1>1, <1>2, PassingKeeps
<1>11. Left(circuits, active, finished) /\ (id \in Names(circuits) => id \in finished)
         => Left(circuits, Advance(active), finished)
  BY <1>1, <1>2, PassingKeeps DEF id
<1>12. ASSUME active' = Advance(active), finished' = finished,
              cycles' = {} => /\ cycles = {}
                              /\ id \in Names(circuits) => id \in finished,
              \A cycle \in cycles' : IsCycle(circuits, cycle)
       PROVE  SearchInv'
  <2>1. Stack(circuits, active', finished')
    BY <1>10, <1>12
  <2>2. cycles' = {} => Left(circuits, active', finished')
    BY <1>2, <1>11, <1>12
  <2>3. \A other \in Names(circuits) :
          \/ other \in pending \/ other \in finished'
          \/ \E i \in 1 .. Len(active') : active'[i].id = other
    <3> SUFFICES ASSUME NEW other \in Names(circuits), NEW i \in 1 .. n,
                        active[i].id = other
                 PROVE  \E k \in 1 .. Len(active') : active'[k].id = other
      BY <1>3, <1>12
    <3> QED BY <1>9, <1>12
  <2> QED BY <1>1, <1>2, <1>12, <2>1, <2>2, <2>3 DEF SearchInv
<1>13. CASE ~Defined(circuits, id) \/ id \in finished
  <2>1. active' = Advance(active) /\ finished' = finished /\ cycles' = cycles
    BY <1>7, <1>13 DEF Visit
  <2> QED BY <1>2, <1>8, <1>12, <1>13, <2>1
<1>14. CASE Defined(circuits, id) /\ id \notin finished /\ Active(id) # {}
  <2> DEFINE place == CHOOSE i \in Active(id) : TRUE
  <2>1. /\ cycles' = cycles \cup {CycleFrom(place, id)}
        /\ active' = Advance(active) /\ finished' = finished
    BY <1>7, <1>14 DEF Visit
  <2>2. place \in Active(id)
    BY <1>14
  <2> HIDE DEF place
  <2>3. place \in 1 .. n /\ active[place].id = id
    BY <1>4, <2>2, LenProperties DEF Active
  <2>4. IsCycle(circuits, CycleFrom(place, id))
    <3>1. \A i \in 1 .. n :
            /\ Len(Inside(circuits, active[i].id)) \in Nat
            /\ DOMAIN Inside(circuits, active[i].id)
                 = 1 .. Len(Inside(circuits, active[i].id))
      BY ActiveAreDefined
    <3> DEFINE way == [i \in 1 .. Len(active) - place + 1 |-> active[place + i - 1].id]
    <3>2. CycleFrom(place, id) = Append(way, id)
      BY Zenon DEF CycleFrom
    <3>3. way = [i \in 1 .. Len(active) - place + 1 |-> active[place + i - 1].id]
      OBVIOUS
    <3> HIDE DEF way
    <3>4. IsCycle(circuits, Append(way, id))
      BY <1>1, <1>2, <1>6, <2>3, <3>1, <3>3, CycleIsOne DEF id
    <3> QED BY <3>2, <3>4
  <2>5. cycles' # {} /\ \A cycle \in cycles' : IsCycle(circuits, cycle)
    BY <1>2, <2>1, <2>4
  <2> QED BY <1>12, <2>1, <2>5
<1>15. CASE Defined(circuits, id) /\ id \notin finished /\ Active(id) = {}
  <2> DEFINE new == Append(Advance(active), [id |-> id, next |-> 1])
  <2>1. active' = new /\ finished' = finished /\ cycles' = cycles
    BY <1>7, <1>15 DEF Visit
  <2>2. \A i \in 1 .. n : active[i].id # id
    BY <1>4, <1>15, LenProperties DEF Active
  <2>3. id \in Names(circuits) \ finished
    BY <1>8, <1>15
  <2>4. /\ Stack(circuits, new, finished)
        /\ Left(circuits, active, finished) => Left(circuits, new, finished)
        /\ Len(new) = n + 1
        /\ \A i \in 1 .. n : new[i].id = active[i].id
    BY <1>1, <1>2, <1>5, <1>6, <2>2, <2>3, EnteringKeeps DEF id
  <2> HIDE DEF new
  <2>5. \A other \in Names(circuits) :
          \/ other \in pending \/ other \in finished
          \/ \E i \in 1 .. Len(new) : new[i].id = other
    <3> SUFFICES ASSUME NEW other \in Names(circuits), NEW i \in 1 .. n,
                        active[i].id = other
                 PROVE  \E k \in 1 .. Len(new) : new[k].id = other
      BY <1>3
    <3>1. i \in 1 .. Len(new)
      BY <1>4, <2>4
    <3> QED BY <2>4, <3>1
  <2> QED BY <1>1, <1>2, <2>1, <2>4, <2>5 DEF SearchInv
<1> QED BY <1>13, <1>14, <1>15

(* A definition is left when all its instances were visited.                *)
LEMMA LeaveKeepsSearch ==
  ASSUME ElaborationInv, LeaveDefinition
  PROVE  SearchInv'
<1> DEFINE n == Len(active)
           more == finished \cup {active[n].id}
<1>1. /\ circuits' = circuits /\ pending' = pending /\ status' = status
      /\ status = "cycles" /\ active # << >> /\ cycles' = cycles
      /\ active' = Below(active) /\ finished' = more
      /\ active[n].next > Len(Inside(circuits, active[n].id))
  BY DEF LeaveDefinition, circuits, library, Top, Contained, Inside
<1>2. /\ Stack(circuits, active, finished)
      /\ cycles = {} => Left(circuits, active, finished)
      /\ \A cycle \in cycles : IsCycle(circuits, cycle)
      /\ pending \subseteq Names(circuits)
      /\ \A other \in Names(circuits) :
           \/ other \in pending \/ other \in finished
           \/ \E i \in 1 .. n : active[i].id = other
  BY <1>1 DEF ElaborationInv, SearchInv
<1>3. Len(Inside(circuits, active[n].id)) \in Nat
  <2>1. active \in Seq(Frames(circuits))
    BY <1>2 DEF Stack
  <2>2. n \in 1 .. n
    BY <1>1, <2>1, EmptySeq, LenProperties
  <2> QED BY <2>2, ActiveAreDefined
<1>4. /\ Stack(circuits, active', more)
      /\ Left(circuits, active, finished) => Left(circuits, active', more)
      /\ \A i \in 1 .. n :
           \/ active[i].id \in more
           \/ \E j \in 1 .. Len(active') : active'[j].id = active[i].id
  BY <1>1, <1>2, <1>3, LeavingKeeps
<1>5. \A other \in Names(circuits) :
        \/ other \in pending \/ other \in more
        \/ \E i \in 1 .. Len(active') : active'[i].id = other
  BY <1>2, <1>4
<1> QED BY <1>1, <1>2, <1>4, <1>5 DEF SearchInv

(* Once the walk is over and has found no cycle, no definitions contain one *)
(* another without end.                                                     *)
LEMMA SearchedIsFinite ==
  ASSUME ElaborationInv, status = "cycles", active = << >>, pending = {}, cycles = {}
  PROVE  ~Recursive
<1> SUFFICES ASSUME NEW ids \in SUBSET Names(circuits), ids # {},
                    \A id \in ids : \E sub \in Elements(Inside(circuits, id)) :
                       sub.circuit \in ids
             PROVE  FALSE
  BY DEF Recursive, Contained, Inside
<1>1. Names(circuits) \subseteq finished
  BY DEF ElaborationInv, SearchInv
<1>2. Left(circuits, active, finished)
  BY DEF ElaborationInv, SearchInv
<1>3. PICK id \in ids : \A k \in 1 .. Len(Inside(circuits, id)) :
        Inside(circuits, id)[k].circuit \notin ids
  BY <1>1, <1>2 DEF Left
<1>4. DOMAIN Inside(circuits, id) = 1 .. Len(Inside(circuits, id))
  BY InstancesAreListed DEF ElaborationInv, circuits, library
<1> QED BY <1>3, <1>4 DEF Elements

LEMMA NextElaboration ==
  ElaborationInv /\ [Next]_vars => ElaborationInv'
<1> SUFFICES ASSUME ElaborationInv, [Next]_vars PROVE ElaborationInv'
  OBVIOUS
<1> DEFINE kept == design' = design
<1>1. design' = design /\ design \in Designs
  BY DEF Next, vars, CheckIntent, ValidateDefinitions, StartSearch, VisitChild,
         LeaveDefinition, Validated, ElaborateRoot, ExpandChild, LeaveScope, CheckFlat,
         CheckRules, Returned, ElaborationInv
<1>2. Recursive' = Recursive
  BY <1>1 DEF Recursive, circuits, library, Contained
<1>3. SearchInv /\ ResultInv
  BY DEF ElaborationInv
<1>4. ASSUME SearchInv', ResultInv'
      PROVE  ElaborationInv'
  BY <1>1, <1>4 DEF ElaborationInv
<1>5. CASE CheckIntent
  <2>1. SearchInv'
    BY <1>3, <1>5, SearchIsKept DEF CheckIntent
  <2>2. ResultInv'
    BY <1>2, <1>3, <1>5 DEF CheckIntent, ResultInv, Unsearched, flatVars
  <2> QED BY <1>4, <2>1, <2>2
<1>6. CASE ValidateDefinitions
  <2>1. SearchInv'
    <3>1. CASE status' = "Panicked" /\ UNCHANGED <<issues, pending>>
      BY <1>3, <1>6, <3>1, SearchIsKept DEF ValidateDefinitions, searchVars
    <3>2. CASE pending' = Names(circuits)
      <4>1. UNCHANGED <<circuits, active, finished, cycles>>
        BY <1>6 DEF ValidateDefinitions, circuits, library
      <4> QED BY <1>3, <3>2, <4>1 DEF SearchInv
    <3> QED BY <1>6, <3>1, <3>2 DEF ValidateDefinitions
  <2>2. ResultInv'
    BY <1>2, <1>3, <1>6 DEF ValidateDefinitions, ResultInv, Unsearched, flatVars
  <2> QED BY <1>4, <2>1, <2>2
<1>7. CASE StartSearch
  <2>1. ResultInv'
    BY <1>2, <1>3, <1>7 DEF StartSearch, ResultInv, flatVars
  <2> QED BY <1>4, <1>7, <2>1, StartKeepsSearch
<1>8. CASE VisitChild
  <2>1. ResultInv'
    BY <1>2, <1>3, <1>8 DEF VisitChild, ResultInv, flatVars
  <2> QED BY <1>4, <1>8, <2>1, VisitKeepsSearch
<1>9. CASE LeaveDefinition
  <2>1. ResultInv'
    BY <1>2, <1>3, <1>9 DEF LeaveDefinition, ResultInv, flatVars
  <2> QED BY <1>4, <1>9, <2>1, LeaveKeepsSearch
<1>10. CASE Validated
  <2>1. SearchInv'
    BY <1>3, <1>10, SearchIsKept DEF Validated
  <2>2. ResultInv'
    <3>1. cycles = {} => ~Recursive
      BY <1>10, SearchedIsFinite DEF Validated
    <3> QED BY <1>2, <1>3, <1>10, <3>1 DEF Validated, ResultInv, Unsearched, flatVars
  <2> QED BY <1>4, <2>1, <2>2
<1>11. ASSUME UNCHANGED <<design, searchVars>>, status \notin Unsearched,
              status' \notin Unsearched
       PROVE  ElaborationInv'
  <2>1. SearchInv'
    BY <1>3, <1>11, SearchIsKept DEF Unsearched
  <2>2. ResultInv'
    BY <1>2, <1>3, <1>11 DEF ResultInv
  <2> QED BY <1>4, <2>1, <2>2
<1>12. CASE ElaborateRoot
  BY <1>11, <1>12 DEF ElaborateRoot, Unsearched
<1>13. CASE ExpandChild
  BY <1>11, <1>13 DEF ExpandChild, Unsearched
<1>14. CASE LeaveScope
  BY <1>11, <1>14 DEF LeaveScope, Unsearched
<1>15. CASE CheckFlat
  BY <1>11, <1>15 DEF CheckFlat, Unsearched
<1>16. CASE CheckRules
  BY <1>11, <1>16 DEF CheckRules, Unsearched
<1>17. CASE UNCHANGED vars
  <2>1. UNCHANGED <<circuits, active, finished, cycles, pending, status, flat>>
    BY <1>17 DEF vars, searchVars, flatVars, circuits, library
  <2>2. SearchInv'
    BY <1>3, <2>1 DEF SearchInv
  <2>3. ResultInv'
    BY <1>2, <1>3, <2>1 DEF ResultInv
  <2> QED BY <1>4, <2>2, <2>3
<1> QED
  BY <1>5, <1>6, <1>7, <1>8, <1>9, <1>10, <1>12, <1>13, <1>14, <1>15, <1>16, <1>17
     DEF Next, Returned

-----------------------------------------------------------------------------
(* A library that gets through the search has no definition that contains   *)
(* itself, however deep, so that its expansion ends; and every cycle that   *)
(* is reported is one (`find_cycles`, `flatten_with_scopes_internal`).      *)
THEOREM RecursionIsAlwaysCaught ==
  Spec => []RecursionIsCaught
<1>1. ElaborationInv => RecursionIsCaught
  <2> SUFFICES ASSUME ElaborationInv PROVE RecursionIsCaught
    OBVIOUS
  <2>1. flat # NoCircuit \/ status = "root" => ~Recursive
    BY DEF ElaborationInv, ResultInv, Unsearched
  <2>2. \A cycle \in cycles :
          /\ cycle[1] = cycle[Len(cycle)]
          /\ \A i \in 1 .. (Len(cycle) - 1) :
               \E sub \in Elements(Contained(cycle[i])) : sub.circuit = cycle[i + 1]
    BY DEF ElaborationInv, SearchInv, IsCycle, Contained, Inside
  <2> QED BY <2>1, <2>2, Zenon DEF RecursionIsCaught
<1> QED BY <1>1, InitElaboration, NextElaboration, PTL DEF Spec

-----------------------------------------------------------------------------
(* First errors                                                            *)

\* Every set of places of a list has a first one: among the intervals that
\* end at its members there is a smallest, inclusion being well-founded.
LEMMA LeastExists ==
  ASSUME NEW n \in Nat, NEW S \in SUBSET (1..n), S # {}
  PROVE  \E i \in S : \A j \in S : i <= j
<1> DEFINE T == {1..i : i \in S}
           R == StrictSubsetOrdering(1..n)
<1>1. IsWellFoundedOn(R, FiniteSubsetsOf(1..n))
  BY FS_StrictSubsetOrderingWellFounded
<1>2. T \subseteq FiniteSubsetsOf(1..n) /\ T # {}
  <2>1. \A i \in S : 1..i \subseteq 1..n /\ IsFiniteSet(1..i)
    BY FS_Interval
  <2> QED BY <2>1 DEF FiniteSubsetsOf
<1>3. PICK t \in T : \A u \in T : ~(<<u, t>> \in R)
  <2> HIDE DEF T, R
  <2> QED BY <1>1, <1>2, WFMin
<1>4. PICK i \in S : t = 1..i
  BY <1>3
<1>5. ASSUME NEW j \in S, j < i PROVE FALSE
  <2>1. /\ 1..j \in T /\ 1..j \subseteq 1..i /\ 1..i \subseteq 1..n
        /\ i \notin 1..j /\ i \in 1..i
    BY <1>5
  <2>2. <<1..j, t>> \in R
    BY <2>1, <1>4 DEF StrictSubsetOrdering
  <2> QED BY <2>1, <2>2, <1>3
<1> QED BY <1>4, <1>5

\* The first error of a list is the first of its entries that is one, and
\* there is none if no entry is one.
LEMMA FirstErrorIsFirst ==
  ASSUME NEW n \in Nat, NEW errors, DOMAIN errors = 1..n
  PROVE  /\ FirstError(errors) = "None" <=> \A i \in 1..n : errors[i] = "None"
         /\ \/ FirstError(errors) = "None"
            \/ \E i \in 1..n : FirstError(errors) = errors[i]
         /\ \A i \in 1..n : errors[i] # "None" /\ (\A j \in 1..(i - 1) : errors[j] = "None")
              => FirstError(errors) = errors[i]
<1> DEFINE found == {i \in DOMAIN errors : errors[i] # "None"}
           least == CHOOSE i \in found : \A j \in found : i <= j
<1>1. CASE found = {}
  BY <1>1 DEF FirstError
<1>2. CASE found # {}
  <2>1. \E i \in found : \A j \in found : i <= j
    BY <1>2, LeastExists
  <2>2. least \in found /\ \A j \in found : least <= j
    <3> HIDE DEF found
    <3> QED BY <2>1
  <2>3. FirstError(errors) = errors[least]
    BY <1>2 DEF FirstError
  <2> HIDE DEF least
  <2>4. ASSUME NEW i \in 1..n, errors[i] # "None", \A j \in 1..(i - 1) : errors[j] = "None"
        PROVE  i = least
    <3>1. least <= i /\ least \in 1..n
      BY <2>2, <2>4
    <3>2. ~(least \in 1..(i - 1))
      BY <2>2, <2>4
    <3> QED BY <3>1, <3>2
  <2> QED BY <2>2, <2>3, <2>4
<1> QED BY <1>1, <1>2

\* Lists of three and of four checks.
LEMMA FirstOfThree ==
  ASSUME NEW a, NEW b, NEW c
  PROVE  /\ FirstError(<<a, b, c>>) \in {a, b, c, "None"}
         /\ FirstError(<<a, b, c>>) = "None" <=> a = "None" /\ b = "None" /\ c = "None"
<1> DEFINE errors == <<a, b, c>>
<1>1. DOMAIN errors = 1..3 /\ errors[1] = a /\ errors[2] = b /\ errors[3] = c
  OBVIOUS
<1>2. \A i \in 1..3 : i = 1 \/ i = 2 \/ i = 3
  OBVIOUS
<1> HIDE DEF errors
<1>3. FirstError(errors) = "None" <=> \A i \in 1..3 : errors[i] = "None"
  BY <1>1, FirstErrorIsFirst
<1>4. FirstError(errors) = "None" \/ \E i \in 1..3 : FirstError(errors) = errors[i]
  BY <1>1, FirstErrorIsFirst
<1>5. FirstError(errors) \in {a, b, c, "None"}
  BY <1>1, <1>2, <1>4
<1>6. FirstError(errors) = "None" <=> a = "None" /\ b = "None" /\ c = "None"
  BY <1>1, <1>2, <1>3
<1> QED BY <1>5, <1>6 DEF errors

LEMMA FirstOfFour ==
  ASSUME NEW a, NEW b, NEW c, NEW d
  PROVE  /\ FirstError(<<a, b, c, d>>) \in {a, b, c, d, "None"}
         /\ FirstError(<<a, b, c, d>>) = "None"
              <=> a = "None" /\ b = "None" /\ c = "None" /\ d = "None"
<1> DEFINE errors == <<a, b, c, d>>
<1>1. /\ DOMAIN errors = 1..4
      /\ errors[1] = a /\ errors[2] = b /\ errors[3] = c /\ errors[4] = d
  OBVIOUS
<1>2. \A i \in 1..4 : i = 1 \/ i = 2 \/ i = 3 \/ i = 4
  OBVIOUS
<1> HIDE DEF errors
<1>3. FirstError(errors) = "None" <=> \A i \in 1..4 : errors[i] = "None"
  BY <1>1, FirstErrorIsFirst
<1>4. FirstError(errors) = "None" \/ \E i \in 1..4 : FirstError(errors) = errors[i]
  BY <1>1, FirstErrorIsFirst
<1>5. FirstError(errors) \in {a, b, c, d, "None"}
  BY <1>1, <1>2, <1>4
<1>6. FirstError(errors) = "None"
        <=> a = "None" /\ b = "None" /\ c = "None" /\ d = "None"
  BY <1>1, <1>2, <1>3
<1> QED BY <1>5, <1>6 DEF errors

PackageErrors == {"None", "ProtocolVersion", "FormatMismatch", "DuplicateFile",
                  "MissingFile", "DigestMismatch", "UnexpectedFile"}

\* What a list of checks of a package says is an error of a package.
LEMMA FirstErrorOfPackage ==
  ASSUME NEW n \in Nat, NEW errors, DOMAIN errors = 1..n,
         \A i \in 1..n : errors[i] \in PackageErrors
  PROVE  FirstError(errors) \in PackageErrors
BY FirstErrorIsFirst DEF PackageErrors

LEMMA DescriptorErrorType ==
  ASSUME NEW package, NEW i
  PROVE  DescriptorError(package, i) \in PackageErrors
<1> DEFINE path == package.descriptors[i].path
           first == Unless(\A j \in 1..(i - 1) : package.descriptors[j].path # path,
                           "DuplicateFile")
           second == Unless(path \in DOMAIN package.files, "MissingFile")
           third == Unless(path \in DOMAIN package.files =>
                             package.files[path] = package.descriptors[i].content,
                           "DigestMismatch")
<1>1. {first, second, third} \subseteq PackageErrors
  BY DEF Unless, PackageErrors
<1>2. DescriptorError(package, i) = FirstError(<<first, second, third>>)
  BY DEF DescriptorError
<1> HIDE DEF first, second, third
<1>3. FirstError(<<first, second, third>>) \in {first, second, third, "None"}
  BY FirstOfThree
<1> QED BY <1>1, <1>2, <1>3 DEF PackageErrors

LEMMA VerifyType ==
  ASSUME NEW package, IsSequence(package.descriptors)
  PROVE  Verify(package) \in PackageErrors
<1> DEFINE each == [i \in DOMAIN package.descriptors |-> DescriptorError(package, i)]
           first == Unless(package.version = "current", "ProtocolVersion")
           second == Unless(package.adapter.format = package.format, "FormatMismatch")
           fourth == Unless(DOMAIN package.files \subseteq Listed(package), "UnexpectedFile")
<1>1. FirstError(each) \in PackageErrors
  BY FirstErrorOfPackage, DescriptorErrorType DEF IsSequence
<1>2. {first, second, fourth} \subseteq PackageErrors
  BY DEF Unless, PackageErrors
<1>3. Verify(package) = FirstError(<<first, second, FirstError(each), fourth>>)
  BY DEF Verify
<1> HIDE DEF each, first, second, fourth
<1>4. FirstError(<<first, second, FirstError(each), fourth>>)
        \in {first, second, FirstError(each), fourth, "None"}
  BY FirstOfFour
<1> QED BY <1>1, <1>2, <1>3, <1>4 DEF PackageErrors

\* A package that passes its verification is whole.
LEMMA VerifiedIsWhole ==
  ASSUME NEW package, IsSequence(package.descriptors), Verify(package) = "None"
  PROVE  Whole(package)
<1> DEFINE n == Len(package.descriptors)
           each == [i \in DOMAIN package.descriptors |-> DescriptorError(package, i)]
           first == Unless(package.version = "current", "ProtocolVersion")
           second == Unless(package.adapter.format = package.format, "FormatMismatch")
           fourth == Unless(DOMAIN package.files \subseteq Listed(package), "UnexpectedFile")
<1>1. FirstError(each) = "None" /\ fourth = "None"
  <2>1. Verify(package) = FirstError(<<first, second, FirstError(each), fourth>>)
    BY DEF Verify
  <2> HIDE DEF each, first, second, fourth
  <2> QED BY <2>1, FirstOfFour
<1>2. \A i \in 1..n : DescriptorError(package, i) = "None"
  BY <1>1, FirstErrorIsFirst DEF IsSequence
<1>3. ASSUME NEW i \in 1..n
      PROVE  /\ \A j \in 1..(i - 1) :
                  package.descriptors[j].path # package.descriptors[i].path
             /\ package.descriptors[i].path \in DOMAIN package.files
             /\ package.files[package.descriptors[i].path] = package.descriptors[i].content
  <2> DEFINE path == package.descriptors[i].path
             duplicate == Unless(\A j \in 1..(i - 1) : package.descriptors[j].path # path,
                                 "DuplicateFile")
             missing == Unless(path \in DOMAIN package.files, "MissingFile")
             other == Unless(path \in DOMAIN package.files =>
                               package.files[path] = package.descriptors[i].content,
                             "DigestMismatch")
  <2>1. DescriptorError(package, i) = FirstError(<<duplicate, missing, other>>)
    BY DEF DescriptorError
  <2>2. duplicate = "None" /\ missing = "None" /\ other = "None"
    <3> HIDE DEF duplicate, missing, other
    <3> QED BY <2>1, <1>2, FirstOfThree
  <2> QED BY <2>2 DEF Unless
<1>4. \A i, j \in 1..n :
        package.descriptors[i].path = package.descriptors[j].path => i = j
  <2> SUFFICES ASSUME NEW i \in 1..n, NEW j \in 1..n, i < j,
                      package.descriptors[i].path = package.descriptors[j].path
               PROVE  FALSE
    BY DEF IsSequence
  <2>1. i \in 1..(j - 1)
    OBVIOUS
  <2> QED BY <2>1, <1>3
<1>5. Listed(package) = DOMAIN package.files
  <2>1. DOMAIN package.files \subseteq Listed(package)
    BY <1>1 DEF Unless
  <2> QED BY <2>1, <1>3 DEF Listed, IsSequence
<1> QED BY <1>3, <1>4, <1>5 DEF Whole, IsSequence

-----------------------------------------------------------------------------
(* The verdict                                                             *)

\* A request that is refused is refused for an error.
LEMMA RequestErrorType ==
  ASSUME NEW r \in Requests
  PROVE  RequestError(r) \in PackageErrors
<1> DEFINE first == Unless(r.version = "current", "ProtocolVersion")
           third == Unless(r.format = Identity.format, "FormatMismatch")
<1>1. {first, third} \subseteq PackageErrors
  BY DEF Unless, PackageErrors
<1>2. Verify(r.source) \in PackageErrors
  BY VerifyType, ExchangeAssumption
<1>3. RequestError(r) = FirstError(<<first, Verify(r.source), third>>)
  BY DEF RequestError
<1> HIDE DEF first, third
<1>4. FirstError(<<first, Verify(r.source), third>>)
        \in {first, Verify(r.source), third, "None"}
  BY FirstOfThree
<1> QED BY <1>1, <1>2, <1>3, <1>4 DEF PackageErrors

Decoded(output) ==
  output.parses \in BOOLEAN /\ (output.parses => IsSequence(output.package.descriptors))

\* What no error means, and when the length is the error.
LEMMA VerdictIsFirst ==
  ASSUME NEW output, Decoded(output), collected["output"] \in Nat
  PROVE  /\ Verdict(output) = "None" =>
              /\ collected["output"] <= MaximumResponse
              /\ adapter = "succeeded" /\ writer = "done" /\ output.parses
              /\ Verify(output.package) = "None"
              /\ MismatchError(output.package, request) = "None"
         /\ Verdict(output) = "ResponseLimit" <=> collected["output"] > MaximumResponse
         /\ Verdict(output) # "Ok"
<1> DEFINE long == Unless(collected["output"] <= MaximumResponse, "ResponseLimit")
           crash == Unless(adapter = "succeeded", "Crashed")
           process == Unless(writer = "done", "Process")
           protocol == Unless(output.parses, "Protocol")
           package == Verify(output.package)
           mismatch == MismatchError(output.package, request)
           errors == <<long, crash, process, protocol, package, mismatch>>
<1>1. /\ long \in {"None", "ResponseLimit"} /\ crash \in {"None", "Crashed"}
      /\ process \in {"None", "Process"} /\ protocol \in {"None", "Protocol"}
      /\ mismatch \in {"None", "FormatMismatch"}
  BY DEF Unless, MismatchError
<1>2. output.parses => package \in PackageErrors
  BY VerifyType DEF Decoded
<1>3. Verdict(output) = FirstError(errors)
  BY DEF Verdict
<1>4. /\ long = "None" <=> collected["output"] <= MaximumResponse
      /\ crash = "None" <=> adapter = "succeeded"
      /\ process = "None" <=> writer = "done"
      /\ protocol = "None" <=> output.parses
  BY DEF Unless, Decoded
<1> HIDE DEF long, crash, process, protocol, package, mismatch
<1>5. /\ DOMAIN errors = 1..6
      /\ errors[1] = long /\ errors[2] = crash /\ errors[3] = process
      /\ errors[4] = protocol /\ errors[5] = package /\ errors[6] = mismatch
  OBVIOUS
<1>6. \A i \in 1..6 : i = 1 \/ i = 2 \/ i = 3 \/ i = 4 \/ i = 5 \/ i = 6
  OBVIOUS
<1> HIDE DEF errors
<1>D. DOMAIN errors = 1..6 /\ 6 \in Nat
  BY <1>5
<1>7. FirstError(errors) = "None" <=> \A i \in 1..6 : errors[i] = "None"
  BY <1>D, FirstErrorIsFirst
<1>8. FirstError(errors) = "None" \/ \E i \in 1..6 : FirstError(errors) = errors[i]
  BY <1>D, FirstErrorIsFirst
<1>9. \A i \in 1..6 : errors[i] # "None" /\ (\A j \in 1..(i - 1) : errors[j] = "None")
                       => FirstError(errors) = errors[i]
  BY <1>D, FirstErrorIsFirst, ZenonT(30)
<1>10. long # "None" => FirstError(errors) = long
  <2>1. \A j \in 1..(1 - 1) : errors[j] = "None"
    OBVIOUS
  <2>2. 1 \in 1..6
    OBVIOUS
  <2> QED BY <2>1, <2>2, <1>5, <1>9
<1>11. protocol # "None" /\ long = "None"
         => FirstError(errors) \in {"Crashed", "Process", "Protocol"}
  <2>1. SUFFICES ASSUME protocol # "None", long = "None"
                 PROVE  FirstError(errors) \in {"Crashed", "Process", "Protocol"}
    OBVIOUS
  <2>2. CASE crash # "None"
    <3>1. \A j \in 1..(2 - 1) : errors[j] = "None"
      BY <2>1, <1>5
    <3> QED BY <3>1, <2>2, <1>1, <1>5, <1>9
  <2>3. CASE crash = "None" /\ process # "None"
    <3>1. \A j \in 1..(3 - 1) : j = 1 \/ j = 2
      OBVIOUS
    <3>2. \A j \in 1..(3 - 1) : errors[j] = "None"
      BY <3>1, <2>1, <2>3, <1>5
    <3> QED BY <3>2, <2>3, <1>1, <1>5, <1>9
  <2>4. CASE crash = "None" /\ process = "None"
    <3>1. \A j \in 1..(4 - 1) : j = 1 \/ j = 2 \/ j = 3
      OBVIOUS
    <3>2. \A j \in 1..(4 - 1) : errors[j] = "None"
      BY <3>1, <2>1, <2>4, <1>5
    <3> QED BY <3>2, <2>1, <1>1, <1>5, <1>9
  <2> QED BY <2>2, <2>3, <2>4
<1>12. protocol = "None" /\ long = "None"
         => FirstError(errors) \in PackageErrors \cup {"Crashed", "Process"}
  <2>1. protocol = "None" => package \in PackageErrors
    BY <1>2, <1>4
  <2> QED BY <2>1, <1>1, <1>5, <1>6, <1>8 DEF PackageErrors
<1>13. FirstError(errors) = "None" =>
         /\ long = "None" /\ crash = "None" /\ process = "None" /\ protocol = "None"
         /\ package = "None" /\ mismatch = "None"
  BY <1>5, <1>6, <1>7
<1>14. /\ FirstError(errors) = "ResponseLimit" <=> long # "None"
       /\ FirstError(errors) # "Ok"
  BY <1>1, <1>10, <1>11, <1>12 DEF PackageErrors
<1>15. collected["output"] > MaximumResponse <=> ~(collected["output"] <= MaximumResponse)
  BY ExchangeAssumption
<1> QED BY <1>3, <1>4, <1>13, <1>14, <1>15 DEF package, mismatch

-----------------------------------------------------------------------------
(* The invariant                                                           *)

\* What a reading thread that has ended left behind.
Drained(s) == collected[s] = Limit[s] + 1 \/ (queued[s] = 0 /\ s \notin held)

Threads ==
  /\ writer = "done" => left = 0
  /\ adapter # "absent" => \A s \in Replies : s \notin open => Drained(s)

Caller ==
  /\ caller # "returned" => exported = "None"
  /\ adapter = "absent" => caller \in {"calling", "returned"}
  /\ caller = "calling" => adapter = "absent"
  /\ caller \in {"joining", "returned"} => adapter # "running"
  /\ exported = "Ok" => adapter # "absent"
  /\ caller = "returned" /\ adapter # "absent" /\ exported # "Timeout" => open = {}

ExchangeInv == ExchangeTypeOK /\ Threads /\ Caller /\ ResultIsTrue

LEMMA ExchangeInitInv == ExchangeInit => ExchangeInv
<1> SUFFICES ASSUME ExchangeInit PROVE ExchangeInv
  OBVIOUS
<1> USE DEF ExchangeInit, NothingStarted
<1>1. \A s \in Replies : Limit[s] \in Nat
  BY ExchangeAssumption DEF Limit, Replies
<1>2. ExchangeTypeOK
  <2>1. queued \in [Streams -> 0..PipeSize]
    BY ExchangeAssumption
  <2>2. collected \in [Replies -> Nat] /\ \A s \in Replies : collected[s] <= Limit[s] + 1
    BY <1>1
  <2>3. left \in 0..RequestSize
    BY ExchangeAssumption
  <2> QED BY <2>1, <2>2, <2>3 DEF ExchangeTypeOK
<1>3. Threads /\ Caller
  BY DEF Threads, Caller
<1>4. ResultIsTrue
  BY DEF ResultIsTrue, AcceptedIsWhole, LimitToldApart
<1> QED BY <1>2, <1>3, <1>4 DEF ExchangeInv

\* What was returned stays true while nothing is returned: the streams of a
\* call that has joined its threads can only lose holders.
LEMMA ResultStands ==
  ASSUME ExchangeInv,
         UNCHANGED <<request, decoded, exported>>,
         caller # "returned" => caller' # "returned",
         caller = "returned" => UNCHANGED <<caller, adapter>>,
         held' \subseteq held,
         left' \in 0..left,
         open = {} => /\ queued'["output"] = queued["output"]
                      /\ collected'["output"] = collected["output"]
  PROVE  ResultIsTrue'
<1>1. CASE caller # "returned"
  BY <1>1 DEF ExchangeInv, Caller, ResultIsTrue, AcceptedIsWhole, LimitToldApart
<1>2. CASE caller = "returned"
  <2>1. AcceptedIsWhole'
    <3> SUFFICES ASSUME exported = "Ok" PROVE AcceptedIsWhole'
      BY DEF AcceptedIsWhole
    <3>1. open = {} /\ left \in Nat
      BY <1>2, ExchangeAssumption DEF ExchangeInv, Caller, ExchangeTypeOK
    <3>2. left = 0 => left' = 0
      OBVIOUS
    <3> QED BY <1>2, <3>1, <3>2 DEF ExchangeInv, ResultIsTrue, AcceptedIsWhole
  <2>2. LimitToldApart'
    <3> SUFFICES ASSUME adapter # "absent", exported # "Timeout" PROVE LimitToldApart'
      BY <1>2 DEF LimitToldApart
    <3>1. open = {}
      BY <1>2 DEF ExchangeInv, Caller
    <3> QED BY <1>2, <3>1 DEF ExchangeInv, ResultIsTrue, LimitToldApart, Printed
  <2> QED BY <2>1, <2>2 DEF ResultIsTrue
<1> QED BY <1>1, <1>2

\* A call that is refused or given up returns no answer, and no length.
LEMMA RefusalIsTrue ==
  ASSUME exported' # "Ok", adapter' = "absent" \/ exported' = "Timeout"
  PROVE  ResultIsTrue'
BY DEF ResultIsTrue, AcceptedIsWhole, LimitToldApart

LEMMA EndProgramFrame ==
  ASSUME NEW ending, EndProgram(ending), held \subseteq Streams
  PROVE  adapter' = ending /\ held' \subseteq held
BY DEF EndProgram

LEMMA CallerStepInv ==
  ASSUME ExchangeInv, CallerStep
  PROVE  ExchangeInv'
<1> USE DEF ExchangeInv
<1>1. CASE RefuseRequest
  <2>1. RequestError(request) # "Ok"
    BY RequestErrorType DEF ExchangeTypeOK, PackageErrors
  <2> USE <1>1 DEF RefuseRequest, Exported
  <2>2. ExchangeTypeOK'
    BY DEF ExchangeTypeOK
  <2>3. Threads' /\ Caller'
    BY <2>1 DEF Threads, Drained, Caller
  <2>4. ResultIsTrue'
    BY <2>1, RefusalIsTrue DEF Caller
  <2> QED BY <2>2, <2>3, <2>4
<1>2. CASE SpawnFails
  <2> USE <1>2 DEF SpawnFails, Exported
  <2>1. ExchangeTypeOK'
    BY DEF ExchangeTypeOK
  <2>2. Threads' /\ Caller'
    BY DEF Threads, Drained, Caller
  <2>3. ResultIsTrue'
    BY RefusalIsTrue DEF Caller
  <2> QED BY <2>1, <2>2, <2>3
<1>3. CASE Spawn
  <2> USE <1>3 DEF Spawn
  <2>1. ExchangeTypeOK'
    BY DEF ExchangeTypeOK
  <2>2. Threads' /\ Caller'
    BY DEF Threads, Caller
  <2>3. ResultIsTrue'
    BY DEF Caller, ResultIsTrue, AcceptedIsWhole, LimitToldApart
  <2> QED BY <2>1, <2>2, <2>3
<1>4. CASE PollExit \/ PollAgain
  <2> USE <1>4 DEF PollExit, PollAgain
  <2>1. ExchangeTypeOK'
    BY DEF ExchangeTypeOK
  <2>2. Threads' /\ Caller'
    BY DEF Threads, Drained, Caller
  <2>3. ResultIsTrue'
    BY DEF Caller, ResultIsTrue, AcceptedIsWhole, LimitToldApart
  <2> QED BY <2>1, <2>2, <2>3
<1>5. CASE TimeOut
  <2>1. /\ held' \subseteq held
        /\ (adapter' = adapter /\ adapter # "running") \/ adapter' = "failed"
    BY <1>5, EndProgramFrame DEF TimeOut, Kill, ExchangeTypeOK
  <2>2. /\ caller = "timing" /\ caller' = "returned" /\ exported' = "Timeout"
        /\ UNCHANGED <<request, late, decoded, queued, writer, left, open, collected>>
    BY <1>5 DEF TimeOut, Exported
  <2>3. ExchangeTypeOK'
    BY <2>1, <2>2 DEF ExchangeTypeOK
  <2>4. Threads' /\ Caller'
    BY <2>1, <2>2 DEF Threads, Drained, Caller
  <2> QED BY <2>2, <2>3, <2>4, RefusalIsTrue
<1>6. CASE Judge
  <2>1. PICK output \in Outputs :
          /\ output.parses => collected["output"] > 0
          /\ decoded' = output
          /\ Exported(IF Verdict(output) = "None" THEN "Ok" ELSE Verdict(output))
    BY <1>6 DEF Judge
  <2>2. /\ caller = "joining" /\ open = {} /\ caller' = "returned"
        /\ exported' = IF Verdict(output) = "None" THEN "Ok" ELSE Verdict(output)
        /\ UNCHANGED <<request, late, adapter, held, queued, writer, left, open, collected>>
    BY <1>6, <2>1 DEF Judge, Exported
  <2>3. Decoded(output) /\ collected["output"] \in Nat /\ queued["output"] \in Nat
    BY ExchangeAssumption DEF Decoded, ExchangeTypeOK, Replies, Streams
  <2>4. /\ Verdict(output) = "None" =>
             /\ collected["output"] <= MaximumResponse
             /\ adapter = "succeeded" /\ writer = "done" /\ output.parses
             /\ Verify(output.package) = "None"
             /\ MismatchError(output.package, request) = "None"
        /\ Verdict(output) = "ResponseLimit" <=> collected["output"] > MaximumResponse
        /\ Verdict(output) # "Ok"
    BY <2>3, VerdictIsFirst
  <2>5. /\ adapter # "absent" /\ adapter # "running"
        /\ \/ collected["output"] = MaximumResponse + 1
           \/ queued["output"] = 0 /\ "output" \notin held
    BY <2>2 DEF Threads, Caller, Drained, Limit, Replies
  <2>6. ExchangeTypeOK'
    BY <2>1, <2>2 DEF ExchangeTypeOK
  <2>7. Threads' /\ Caller'
    BY <2>2, <2>5 DEF Threads, Drained, Caller
  <2>8. AcceptedIsWhole'
    <3> SUFFICES ASSUME Verdict(output) = "None" PROVE AcceptedIsWhole'
      BY <2>2, <2>4 DEF AcceptedIsWhole
    <3>1. queued["output"] = 0 /\ "output" \notin held
      BY <2>3, <2>4, <2>5, ExchangeAssumption
    <3>2. Whole(output.package)
      BY <2>3, <2>4, VerifiedIsWhole DEF Decoded
    <3>3. /\ output.package.format = request.format
          /\ output.package.adapter = Identity
          /\ output.package.source = request.source.source
      BY <2>4 DEF MismatchError, Unless
    <3> QED BY <2>1, <2>2, <2>4, <3>1, <3>2, <3>3 DEF AcceptedIsWhole, Threads
  <2>9. LimitToldApart'
    <3>1. collected["output"] > MaximumResponse
            <=> collected["output"] + queued["output"] > MaximumResponse
      BY <2>3, <2>5, ExchangeAssumption
    <3>2. exported' = "ResponseLimit" <=> Verdict(output) = "ResponseLimit"
      BY <2>2
    <3> QED BY <2>2, <2>4, <3>1, <3>2 DEF LimitToldApart, Printed
  <2> QED BY <2>6, <2>7, <2>8, <2>9 DEF ResultIsTrue
<1> QED BY <1>1, <1>2, <1>3, <1>4, <1>5, <1>6 DEF CallerStep

LEMMA ThreadStepInv ==
  ASSUME ExchangeInv,
         WriterStep \/ DeadlinePasses \/ \E s \in Replies : ReaderStep(s)
  PROVE  ExchangeInv'
<1> USE DEF ExchangeInv
<1>0. left \in Nat /\ PipeSize \in Nat /\ 0..RequestSize \subseteq Nat
  BY ExchangeAssumption DEF ExchangeTypeOK
<1>1. CASE Writes
  <2> USE <1>1 DEF Writes
  <2>1. /\ left' \in 0..left /\ queued' \in [Streams -> 0..PipeSize]
        /\ \A s \in Replies : queued'[s] = queued[s]
    BY <1>0 DEF ExchangeTypeOK, Replies, Streams
  <2>2. left' \in 0..RequestSize
    BY <1>0, ExchangeAssumption DEF ExchangeTypeOK
  <2>3. ExchangeTypeOK'
    BY <2>1, <2>2 DEF ExchangeTypeOK
  <2>4. Threads' /\ Caller'
    BY <2>1 DEF Threads, Drained, Caller
  <2> QED BY <2>1, <2>3, <2>4, ResultStands DEF Replies
<1>2. CASE WriterEnds
  <2>1. /\ writer' \in {"done", "failed"} /\ (writer' = "done" => left = 0)
        /\ UNCHANGED <<caller, request, exported, late, adapter, decoded, held, queued,
                       left, open, collected>>
    BY <1>2 DEF WriterEnds
  <2>2. left' \in 0..left
    BY <1>0, <2>1
  <2>3. ExchangeTypeOK' /\ Threads' /\ Caller'
    BY <2>1 DEF ExchangeTypeOK, Threads, Drained, Caller
  <2> QED BY <2>1, <2>2, <2>3, ResultStands
<1>3. CASE DeadlinePasses
  <2> USE <1>3 DEF DeadlinePasses
  <2>1. left' \in 0..left
    BY <1>0
  <2>2. ExchangeTypeOK' /\ Threads' /\ Caller'
    BY DEF ExchangeTypeOK, Threads, Drained, Caller
  <2> QED BY <2>1, <2>2, ResultStands
<1>4. ASSUME NEW s \in Replies, Reads(s) PROVE ExchangeInv'
  <2> USE <1>4 DEF Reads
  <2>1. queued[s] \in 0..PipeSize /\ collected[s] \in Nat /\ Limit[s] \in Nat
    BY ExchangeAssumption DEF ExchangeTypeOK, Limit, Replies, Streams
  <2>2. /\ queued' \in [Streams -> 0..PipeSize]
        /\ collected' \in [Replies -> Nat]
        /\ \A t \in Replies \ {s} : queued'[t] = queued[t] /\ collected'[t] = collected[t]
    BY <1>0, <2>1 DEF ExchangeTypeOK, Replies, Streams
  <2>3. collected'[s] <= Limit[s] + 1
    BY <2>1 DEF Take, ExchangeTypeOK
  <2>4. ExchangeTypeOK'
    BY <2>2, <2>3 DEF ExchangeTypeOK
  <2>5. Threads' /\ Caller'
    BY <2>2 DEF Threads, Drained, Caller
  <2>6. left' \in 0..left
    BY <1>0
  <2> QED BY <2>4, <2>5, <2>6, ResultStands
<1>5. ASSUME NEW s \in Replies, ReaderEnds(s) PROVE ExchangeInv'
  <2>1. /\ open' = open \ {s} /\ Drained(s) /\ s \in open
        /\ UNCHANGED <<caller, request, exported, late, adapter, decoded, held, queued,
                       writer, left, collected>>
    BY <1>5 DEF ReaderEnds, Drained, Take
  <2>2. left' \in 0..left
    BY <1>0, <2>1
  <2>3. ExchangeTypeOK' /\ Threads' /\ Caller'
    BY <2>1 DEF ExchangeTypeOK, Threads, Drained, Caller
  <2> QED BY <2>1, <2>2, <2>3, ResultStands
<1> QED BY <1>1, <1>2, <1>3, <1>4, <1>5 DEF WriterStep, ReaderStep

LEMMA AdapterStepInv ==
  ASSUME ExchangeInv, AdapterStep
  PROVE  ExchangeInv'
<1> USE DEF ExchangeInv
<1>0. left \in 0..left /\ PipeSize \in Nat
  BY ExchangeAssumption DEF ExchangeTypeOK
<1>1. CASE AdapterReads
  <2> USE <1>1 DEF AdapterReads
  <2>1. /\ queued' \in [Streams -> 0..PipeSize]
        /\ \A s \in Replies : queued'[s] = queued[s]
    BY <1>0 DEF ExchangeTypeOK, Replies, Streams
  <2>2. ExchangeTypeOK' /\ Threads' /\ Caller'
    BY <2>1 DEF ExchangeTypeOK, Threads, Drained, Caller
  <2> QED BY <1>0, <2>1, <2>2, ResultStands DEF Replies
<1>2. ASSUME NEW s \in Replies, AdapterWrites(s) PROVE ExchangeInv'
  <2> USE <1>2 DEF AdapterWrites
  <2>1. /\ queued' \in [Streams -> 0..PipeSize]
        /\ \A t \in Replies \ {s} : queued'[t] = queued[t]
    BY <1>0 DEF ExchangeTypeOK, Replies, Streams
  <2>2. ExchangeTypeOK' /\ Threads' /\ Caller'
    BY <2>1 DEF ExchangeTypeOK, Threads, Drained, Caller
  <2> QED BY <1>0, <2>2, ResultStands
<1>3. ASSUME NEW s \in Streams, AdapterCloses(s) PROVE ExchangeInv'
  <2> USE <1>3 DEF AdapterCloses
  <2>1. ExchangeTypeOK' /\ Threads' /\ Caller'
    BY DEF ExchangeTypeOK, Threads, Drained, Caller
  <2> QED BY <1>0, <2>1, ResultStands
<1>4. CASE AdapterExits
  <2>1. PICK ending \in {"succeeded", "failed"} : EndProgram(ending)
    BY <1>4 DEF AdapterExits
  <2>2. /\ adapter = "running" /\ adapter' = ending /\ held' \subseteq held
        /\ UNCHANGED <<caller, request, exported, late, decoded, queued, writer, left,
                       open, collected>>
    BY <1>4, <2>1, EndProgramFrame DEF AdapterExits, ExchangeTypeOK
  <2>3. ExchangeTypeOK' /\ Threads' /\ Caller'
    BY <2>2 DEF ExchangeTypeOK, Threads, Drained, Caller
  <2> QED BY <1>0, <2>2, <2>3, ResultStands DEF Caller
<1> QED BY <1>1, <1>2, <1>3, <1>4 DEF AdapterStep

LEMMA ExchangeInvariant == ExchangeSpec => []ExchangeInv
<1>1. ExchangeInv /\ [ExchangeNext]_exchangeVars => ExchangeInv'
  <2> SUFFICES ASSUME ExchangeInv, [ExchangeNext]_exchangeVars PROVE ExchangeInv'
    OBVIOUS
  <2>1. CASE ExchangeNext
    BY <2>1, CallerStepInv, ThreadStepInv, AdapterStepInv DEF ExchangeNext
  <2>2. CASE UNCHANGED exchangeVars
    BY <2>2 DEF exchangeVars, ExchangeInv, ExchangeTypeOK, Threads, Drained, Caller,
                ResultIsTrue, AcceptedIsWhole, LimitToldApart, Printed
  <2> QED BY <2>1, <2>2
<1> QED BY <1>1, ExchangeInitInv, PTL DEF ExchangeSpec

\* Every variable keeps its values, and no reading thread holds more than one
\* chunk past its limit: the memory a call takes is bounded whatever the
\* adapter prints (`take(maximum + 1)`).
THEOREM ExchangeTypeCorrect == ExchangeSpec => []ExchangeTypeOK
<1>1. ExchangeInv => ExchangeTypeOK
  BY DEF ExchangeInv
<1> QED BY <1>1, ExchangeInvariant, PTL

\* What `export` returns is true of the program it ran, whatever that program
\* does with its streams and whenever it ends, and whatever a descendant keeps:
\* "Ok" is one whole package, printed to its end by a program that succeeded
\* and was sent the whole request, for the release and format that were asked
\* for; and the response limit is reported exactly for an answer beyond it.
THEOREM ResultsAreTrue == ExchangeSpec => []ResultIsTrue
<1>1. ExchangeInv => ResultIsTrue
  BY DEF ExchangeInv
<1> QED BY <1>1, ExchangeInvariant, PTL

-----------------------------------------------------------------------------
(* Inspection of documents                                                 *)

Events == Openings \cup Others

\* The reference, of any document.
CountIn(s, k, i) == Cardinality({j \in 1..i : s[j].kind = k})
DepthIn(s, i) == CountIn(s, "start", i) - CountIn(s, "end", i)
RootsIn(s) == {i \in DOMAIN s : /\ s[i].kind \in {"start", "empty"}
                                /\ DepthIn(s, i - 1) = 0}
SoundAt(s, i) ==
  /\ s[i].kind \notin {"doctype", "entity", "broken"}
  /\ DepthIn(s, i) \in 0..MaximumDepth
  /\ s[i].kind = "empty" => DepthIn(s, i) < MaximumDepth
  /\ s[i].kind = "text" => DepthIn(s, i) > 0

\* What the pass knows of the events it has read without a complaint.
ReadSoFar(s, d, r, c) ==
  /\ Len(s) <= MaximumEvents
  /\ \A i \in DOMAIN s : SoundAt(s, i)
  /\ d \in Nat /\ d = DepthIn(s, Len(s))
  /\ r \in BOOLEAN /\ (r <=> RootsIn(s) # {})
  /\ \A i, j \in RootsIn(s) : i = j
  /\ \A i \in RootsIn(s) : s[i].expected
  /\ c \in BOOLEAN /\ (c <=> r /\ d = 0)
  /\ ~r => d = 0

SoundIn(s) ==
  /\ Len(s) <= MaximumEvents
  /\ \A i \in DOMAIN s : SoundAt(s, i)
  /\ \A i, j \in RootsIn(s) : i = j
  /\ \A i \in RootsIn(s) : s[i].expected
EndsIn(s) == s # <<>> /\ s[Len(s)].kind = "eof"
WholeIn(s) == EndsIn(s) /\ DepthIn(s, Len(s)) = 0 /\ RootsIn(s) # {}
ExactIn(s, v) ==
  /\ v = "accepted" => SoundIn(s) /\ WholeIn(s)
  /\ v \in {"Xml", "XmlLimit"} =>
       \/ s = <<>>
       \/ ~SoundIn(s)
       \/ EndsIn(s) /\ ~WholeIn(s)

InspectionInv ==
  /\ seen \in Seq(Events)
  /\ verdict = "reading" => ReadSoFar(seen, depth, rooted, closed)
  /\ ExactIn(seen, verdict)

\* One more place adds one to the count of its kind.
LEMMA CountNext ==
  ASSUME NEW s, NEW k, NEW i \in Nat
  PROVE  /\ CountIn(s, k, i) \in Nat
         /\ CountIn(s, k, 0) = 0
         /\ s[i + 1].kind = k => CountIn(s, k, i + 1) = CountIn(s, k, i) + 1
         /\ s[i + 1].kind # k => CountIn(s, k, i + 1) = CountIn(s, k, i)
<1> DEFINE S(n) == {j \in 1..n : s[j].kind = k}
<1>1. IsFiniteSet(S(i))
  <2>1. IsFiniteSet(1..i)
    BY FS_Interval
  <2> QED
    BY <2>1, FS_Subset
<1>2. S(0) = {}
  OBVIOUS
<1>3. i + 1 \notin S(i)
  OBVIOUS
<1>4. s[i + 1].kind = k => S(i + 1) = S(i) \cup {i + 1}
  OBVIOUS
<1>5. s[i + 1].kind # k => S(i + 1) = S(i)
  OBVIOUS
<1>6. Cardinality(S(i)) \in Nat
  BY <1>1, FS_CardinalityType
<1>7. Cardinality(S(i) \cup {i + 1}) = Cardinality(S(i)) + 1
  BY <1>1, <1>3, FS_AddElement
<1>8. Cardinality(S(0)) = 0
  BY <1>2, FS_EmptySet
<1> QED
  BY <1>4, <1>5, <1>6, <1>7, <1>8 DEF CountIn

\* What stands at the end does not change the count of what stands before.
LEMMA CountBefore ==
  ASSUME NEW s \in Seq(Events), NEW e \in Events, NEW k, NEW i \in 0..Len(s)
  PROVE  CountIn(Append(s, e), k, i) = CountIn(s, k, i)
<1>1. \A j \in 1..i : Append(s, e)[j] = s[j]
  OBVIOUS
<1>2. {j \in 1..i : Append(s, e)[j].kind = k} = {j \in 1..i : s[j].kind = k}
  BY <1>1
<1> QED
  BY <1>2 DEF CountIn

\* What one more event makes of depth, roots and soundness.
LEMMA OneMoreEvent ==
  ASSUME NEW s \in Seq(Events), NEW e \in Events, NEW t, t = Append(s, e)
  PROVE  /\ \A i \in 0..Len(s) : DepthIn(t, i) = DepthIn(s, i)
         /\ \A i \in 0..Len(s) : DepthIn(s, i) \in Int
         /\ e.kind = "start" => DepthIn(t, Len(t)) = DepthIn(s, Len(s)) + 1
         /\ e.kind = "end" => DepthIn(t, Len(t)) = DepthIn(s, Len(s)) - 1
         /\ e.kind \notin {"start", "end"} => DepthIn(t, Len(t)) = DepthIn(s, Len(s))
         /\ \A i \in DOMAIN s : SoundAt(t, i) <=> SoundAt(s, i)
         /\ e.kind \in {"start", "empty"} /\ DepthIn(s, Len(s)) = 0 =>
              RootsIn(t) = RootsIn(s) \cup {Len(s) + 1}
         /\ e.kind \notin {"start", "empty"} \/ DepthIn(s, Len(s)) # 0 =>
              RootsIn(t) = RootsIn(s)
<1>1. /\ t \in Seq(Events) /\ Len(t) = Len(s) + 1 /\ t[Len(s) + 1] = e
      /\ DOMAIN s = 1..Len(s) /\ DOMAIN t = 1..Len(s) + 1
      /\ \A i \in 1..Len(s) : t[i] = s[i]
      /\ Len(s) \in Nat
  OBVIOUS
<1>2. \A i \in 0..Len(s) : DepthIn(t, i) = DepthIn(s, i)
  BY CountBefore DEF DepthIn
<1>3. \A i \in 0..Len(s) : DepthIn(s, i) \in Int
  BY CountNext DEF DepthIn
<1>4. DepthIn(t, Len(s)) = DepthIn(s, Len(s)) /\ DepthIn(s, Len(s)) \in Int
  BY <1>1, <1>2, <1>3
<1>5. \A k : /\ CountIn(t, k, Len(s)) \in Nat
             /\ e.kind = k => CountIn(t, k, Len(s) + 1) = CountIn(t, k, Len(s)) + 1
             /\ e.kind # k => CountIn(t, k, Len(s) + 1) = CountIn(t, k, Len(s))
  <2>1. t[Len(s) + 1] = e /\ Len(s) \in Nat
    BY <1>1
  <2>2. \A k : \A i \in Nat :
          /\ CountIn(t, k, i) \in Nat
          /\ t[i + 1].kind = k => CountIn(t, k, i + 1) = CountIn(t, k, i) + 1
          /\ t[i + 1].kind # k => CountIn(t, k, i + 1) = CountIn(t, k, i)
    BY CountNext, Zenon
  <2>3. PICK n \in Nat : n = Len(s)
    BY <2>1
  <2>4. t[n + 1].kind = e.kind
    BY <2>1, <2>3
  <2>5. \A k : /\ CountIn(t, k, n) \in Nat
               /\ e.kind = k => CountIn(t, k, n + 1) = CountIn(t, k, n) + 1
               /\ e.kind # k => CountIn(t, k, n + 1) = CountIn(t, k, n)
    <3> TAKE k
    <3>1. /\ CountIn(t, k, n) \in Nat
          /\ t[n + 1].kind = k => CountIn(t, k, n + 1) = CountIn(t, k, n) + 1
          /\ t[n + 1].kind # k => CountIn(t, k, n + 1) = CountIn(t, k, n)
      BY <2>2, <2>3, Zenon
    <3> QED
      BY <2>4, <3>1
  <2> QED
    BY <2>3, <2>5, Zenon
<1>6. /\ CountIn(t, "start", Len(s)) \in Nat
      /\ e.kind = "start" => CountIn(t, "start", Len(s) + 1) = CountIn(t, "start", Len(s)) + 1
      /\ e.kind # "start" => CountIn(t, "start", Len(s) + 1) = CountIn(t, "start", Len(s))
      /\ CountIn(t, "end", Len(s)) \in Nat
      /\ e.kind = "end" => CountIn(t, "end", Len(s) + 1) = CountIn(t, "end", Len(s)) + 1
      /\ e.kind # "end" => CountIn(t, "end", Len(s) + 1) = CountIn(t, "end", Len(s))
  <2>2. /\ CountIn(t, "start", Len(s)) \in Nat
        /\ e.kind = "start" => CountIn(t, "start", Len(s) + 1) = CountIn(t, "start", Len(s)) + 1
        /\ e.kind # "start" => CountIn(t, "start", Len(s) + 1) = CountIn(t, "start", Len(s))
    BY <1>5, Zenon
  <2>3. /\ CountIn(t, "end", Len(s)) \in Nat
        /\ e.kind = "end" => CountIn(t, "end", Len(s) + 1) = CountIn(t, "end", Len(s)) + 1
        /\ e.kind # "end" => CountIn(t, "end", Len(s) + 1) = CountIn(t, "end", Len(s))
    BY <1>5, Zenon
  <2> QED
    BY <2>2, <2>3
<1>7. /\ e.kind = "start" => DepthIn(t, Len(t)) = DepthIn(s, Len(s)) + 1
      /\ e.kind = "end" => DepthIn(t, Len(t)) = DepthIn(s, Len(s)) - 1
      /\ e.kind \notin {"start", "end"} => DepthIn(t, Len(t)) = DepthIn(s, Len(s))
  <2>1. DepthIn(t, Len(t)) = CountIn(t, "start", Len(s) + 1) - CountIn(t, "end", Len(s) + 1)
    BY <1>1 DEF DepthIn
  <2>2. DepthIn(s, Len(s)) = CountIn(t, "start", Len(s)) - CountIn(t, "end", Len(s))
    BY <1>4 DEF DepthIn
  <2> QED
    BY <2>1, <2>2, <1>6
<1>8. \A i \in DOMAIN s : SoundAt(t, i) <=> SoundAt(s, i)
  BY <1>1, <1>2 DEF SoundAt
<1>9. \A i \in 1..Len(s) : i \in RootsIn(t) <=> i \in RootsIn(s)
  BY <1>1, <1>2 DEF RootsIn
<1>10. Len(s) + 1 \in RootsIn(t) <=> e.kind \in {"start", "empty"} /\ DepthIn(s, Len(s)) = 0
  BY <1>1, <1>4 DEF RootsIn
<1>11. RootsIn(t) \subseteq 1..Len(s) + 1 /\ RootsIn(s) \subseteq 1..Len(s)
  BY <1>1 DEF RootsIn
<1>12. /\ e.kind \in {"start", "empty"} /\ DepthIn(s, Len(s)) = 0 =>
            RootsIn(t) = RootsIn(s) \cup {Len(s) + 1}
       /\ e.kind \notin {"start", "empty"} \/ DepthIn(s, Len(s)) # 0 =>
            RootsIn(t) = RootsIn(s)
  <2>1. \A x : x \in 1..Len(s) + 1 <=> x \in 1..Len(s) \/ x = Len(s) + 1
    BY <1>1
  <2>2. Len(s) + 1 \notin 1..Len(s)
    BY <1>1
  <2> HIDE <1>1
  <2> QED
    BY <1>9, <1>10, <1>11, <2>1, <2>2, Zenon
<1> QED
  BY <1>2, <1>3, <1>7, <1>8, <1>12

\* The reference of the model is the one above, of the document read.
LEMMA ExactHere == InspectionIsExact <=> ExactIn(seen, verdict)
<1>1. \A i : DepthAfter(i) = DepthIn(seen, i)
  BY DEF DepthAfter, DepthIn, CountOf, CountIn
<1>2. RootsOpened = RootsIn(seen)
  BY <1>1 DEF RootsOpened, RootsIn
<1>3. SoundSoFar <=> SoundIn(seen)
  BY <1>1, <1>2 DEF SoundSoFar, SoundIn, SoundAt
<1>4. AtEnd <=> EndsIn(seen)
  BY DEF AtEnd, EndsIn
<1>5. WholeDocument <=> WholeIn(seen)
  BY <1>1, <1>2, <1>4 DEF WholeDocument, WholeIn
<1> QED
  BY <1>3, <1>4, <1>5 DEF InspectionIsExact, ExactIn

\* Nothing has been read at first.
LEMMA InspectionStarts == InspectionInit => InspectionInv
<1> SUFFICES ASSUME InspectionInit PROVE InspectionInv
  OBVIOUS
<1>1. seen = <<>> /\ depth = 0 /\ rooted = FALSE /\ closed = FALSE /\ verdict = "reading"
  BY DEF InspectionInit, NothingRead
<1>2. RootsIn(seen) = {} /\ Len(seen) = 0 /\ DOMAIN seen = {} /\ seen \in Seq(Events)
  BY <1>1 DEF RootsIn
<1>3. DepthIn(seen, 0) = 0
  BY CountNext DEF DepthIn
<1>4. ReadSoFar(<<>>, 0, FALSE, FALSE)
  BY <1>1, <1>2, <1>3, InspectionAssumption DEF ReadSoFar
<1>5. ExactIn(seen, verdict)
  BY <1>1 DEF ExactIn
<1> QED
  BY <1>1, <1>2, <1>4, <1>5 DEF InspectionInv

\* A refusal is of something no continuation mends.
LEMMA RefusalHolds ==
  ASSUME seen' \in Seq(Events), verdict' # "accepted", verdict' # "reading",
         seen' = <<>> \/ ~SoundIn(seen')
  PROVE  InspectionInv'
<1>1. ExactIn(seen', verdict')
  BY DEF ExactIn
<1> QED
  BY <1>1 DEF InspectionInv

\* An event that is read without complaint leaves what the pass knows true.
LEMMA ReadingGoesOn ==
  ASSUME seen' \in Seq(Events), verdict' = "reading",
         ReadSoFar(seen', depth', rooted', closed')
  PROVE  InspectionInv'
BY DEF InspectionInv, ExactIn

\* Every event leaves the invariant.
LEMMA InspectionKeeps == InspectionInv /\ [InspectionNext]_inspectionVars => InspectionInv'
<1> SUFFICES ASSUME InspectionInv, [InspectionNext]_inspectionVars PROVE InspectionInv'
  OBVIOUS
<1>0. CASE UNCHANGED inspectionVars
  <2>1. seen' = seen /\ depth' = depth /\ rooted' = rooted /\ closed' = closed /\ verdict' = verdict
    BY <1>0 DEF inspectionVars
  <2> QED
    BY <2>1 DEF InspectionInv
<1>1. CASE TooLong
  BY <1>1, RefusalHolds DEF TooLong, Refuse, InspectionInv
<1>2. ASSUME NEW e \in Openings \cup Others, verdict = "reading", seen' = Append(seen, e)
      PROVE  /\ e \in Events /\ seen \in Seq(Events) /\ seen' \in Seq(Events)
             /\ Len(seen) \in Nat /\ Len(seen') = Len(seen) + 1 /\ DOMAIN seen' = 1..Len(seen')
             /\ DOMAIN seen = 1..Len(seen) /\ seen'[Len(seen')] = e
             /\ \A i \in DOMAIN seen : seen'[i] = seen[i]
             /\ ReadSoFar(seen, depth, rooted, closed)
             /\ RootsIn(seen) \subseteq 1..Len(seen)
             /\ ~(Len(seen) + 1 \in 1..Len(seen))
             /\ Len(seen') \in DOMAIN seen'
  BY <1>2 DEF InspectionInv, Events, RootsIn
<1>3. ASSUME NEW e \in Openings \cup Others, ReaderFails(e) PROVE InspectionInv'
  <2>1. verdict = "reading" /\ seen' = Append(seen, e) /\ verdict' = "Xml" /\ e.kind = "broken"
    BY <1>3 DEF ReaderFails, Refuse
  <2>2. ~SoundAt(seen', Len(seen'))
    BY <1>2, <2>1 DEF SoundAt
  <2>3. ~SoundIn(seen')
    BY <1>2, <2>1, <2>2 DEF SoundIn
  <2> QED
    BY <1>2, <2>1, <2>3, RefusalHolds
<1>4. ASSUME NEW e \in Openings \cup Others, TooManyEvents(e) PROVE InspectionInv'
  <2>1. verdict = "reading" /\ seen' = Append(seen, e) /\ verdict' = "XmlLimit"
        /\ Len(seen) >= MaximumEvents
    BY <1>4 DEF TooManyEvents, Refuse
  <2>2. ~SoundIn(seen')
    BY <1>2, <2>1, InspectionAssumption DEF SoundIn
  <2> QED
    BY <1>2, <2>1, <2>2, RefusalHolds
<1>5. ASSUME NEW e \in Openings \cup Others, Forbidden(e) PROVE InspectionInv'
  <2>1. verdict = "reading" /\ seen' = Append(seen, e) /\ verdict' = "Xml"
        /\ e.kind \in {"doctype", "entity"}
    BY <1>5 DEF Forbidden, Refuse, Counted
  <2>3. ~SoundIn(seen')
    BY <1>2, <2>1 DEF SoundIn, SoundAt
  <2> QED
    BY <1>2, <2>1, <2>3, RefusalHolds
<1> DEFINE t == seen'
           n == Len(seen)
<1>6. ASSUME NEW e \in Openings \cup Others, Opens(e) PROVE InspectionInv'
  <2>1. verdict = "reading" /\ t = Append(seen, e) /\ Len(t) <= MaximumEvents
        /\ e.kind \in {"start", "empty"}
    BY <1>6 DEF Opens, Counted
  <2>2. /\ e \in Events /\ seen \in Seq(Events) /\ t \in Seq(Events)
        /\ n \in Nat /\ Len(t) = n + 1 /\ DOMAIN t = 1..(n + 1)
        /\ DOMAIN seen = 1..n /\ t[n + 1] = e
        /\ \A i \in 1..n : t[i] = seen[i]
        /\ ReadSoFar(seen, depth, rooted, closed)
        /\ RootsIn(seen) \subseteq 1..n
        /\ n + 1 \notin 1..n
    BY <1>2, <2>1
  <2>3. /\ depth \in Nat /\ depth = DepthIn(seen, n)
        /\ rooted \in BOOLEAN /\ (rooted <=> RootsIn(seen) # {})
        /\ closed \in BOOLEAN /\ (closed <=> rooted /\ depth = 0) /\ (~rooted => depth = 0)
        /\ \A i \in 1..n : SoundAt(seen, i)
        /\ \A i, j \in RootsIn(seen) : i = j
        /\ \A i \in RootsIn(seen) : seen[i].expected
    BY <2>2 DEF ReadSoFar
  <2>4. /\ e.kind = "start" => DepthIn(t, n + 1) = depth + 1
        /\ e.kind = "empty" => DepthIn(t, n + 1) = depth
        /\ \A i \in 1..n : SoundAt(t, i)
        /\ depth = 0 => RootsIn(t) = RootsIn(seen) \cup {n + 1}
        /\ depth # 0 => RootsIn(t) = RootsIn(seen)
    <3>1. /\ \A i \in 0..Len(seen) : DepthIn(t, i) = DepthIn(seen, i)
          /\ e.kind = "start" => DepthIn(t, Len(t)) = DepthIn(seen, Len(seen)) + 1
          /\ e.kind = "end" => DepthIn(t, Len(t)) = DepthIn(seen, Len(seen)) - 1
          /\ e.kind \notin {"start", "end"} => DepthIn(t, Len(t)) = DepthIn(seen, Len(seen))
          /\ \A i \in DOMAIN seen : SoundAt(t, i) <=> SoundAt(seen, i)
          /\ e.kind \in {"start", "empty"} /\ DepthIn(seen, Len(seen)) = 0 =>
               RootsIn(t) = RootsIn(seen) \cup {Len(seen) + 1}
          /\ e.kind \notin {"start", "empty"} \/ DepthIn(seen, Len(seen)) # 0 =>
               RootsIn(t) = RootsIn(seen)
      BY <2>1, <2>2, OneMoreEvent, Zenon
    <3> QED
      BY <2>1, <2>2, <2>3, <3>1
  <2>5. CASE BadRoot(e)
    <3>1. verdict' = "Xml"
      BY <1>6, <2>5 DEF Opens, Refuse
    <3>2. CASE rooted
      <4>1. depth = 0 /\ RootsIn(t) = RootsIn(seen) \cup {n + 1} /\ RootsIn(seen) # {}
        BY <2>3, <2>4, <2>5, <3>2 DEF BadRoot
      <4>2. PICK i \in RootsIn(seen) : TRUE
        BY <4>1
      <4>3. i # n + 1 /\ i \in RootsIn(t) /\ n + 1 \in RootsIn(t)
        BY <4>1, <4>2, <2>2
      <4>4. ~SoundIn(seen')
        BY <4>3 DEF SoundIn
      <4> QED
        BY <2>2, <3>1, <4>4, RefusalHolds
    <3>3. CASE ~rooted
      <4>1. n + 1 \in RootsIn(t) /\ ~t[n + 1].expected
        BY <2>2, <2>3, <2>4, <2>5, <3>3 DEF BadRoot
      <4>2. ~SoundIn(seen')
        BY <4>1 DEF SoundIn
      <4> QED
        BY <2>2, <3>1, <4>2, RefusalHolds
    <3> QED
      BY <2>3, <3>2, <3>3
  <2>6. CASE ~BadRoot(e)
    <3>1. /\ rooted' = TRUE
          /\ depth' = IF e.kind = "start" THEN depth + 1 ELSE depth
          /\ verdict' = IF depth + 1 > MaximumDepth THEN "XmlLimit" ELSE verdict
          /\ closed' = (closed \/ (/\ e.kind = "empty"
                                   /\ depth = 0
                                   /\ depth + 1 <= MaximumDepth))
      BY <1>6, <2>6 DEF Opens
    <3>2. (rooted => depth # 0) /\ (~rooted => e.expected /\ depth = 0)
      BY <2>3, <2>6 DEF BadRoot
    <3>3. CASE depth + 1 > MaximumDepth
      <4>1. ~SoundAt(t, n + 1)
        BY <2>1, <2>2, <2>3, <2>4, <3>3, InspectionAssumption DEF SoundAt
      <4>2. ~SoundIn(t)
        BY <2>2, <4>1 DEF SoundIn
      <4> QED
        BY <2>2, <3>1, <3>3, <4>2, RefusalHolds
    <3>4. CASE ~(depth + 1 > MaximumDepth)
      <4>1. SoundAt(t, n + 1)
        BY <2>1, <2>2, <2>3, <2>4, <3>4, InspectionAssumption DEF SoundAt
      <4>2. depth' \in Nat /\ depth' = DepthIn(t, n + 1)
        BY <2>1, <2>3, <2>4, <3>1
      <4>3. closed' \in BOOLEAN /\ (closed' <=> depth' = 0)
        <5>1. CASE e.kind = "start"
          <6>1. depth' = depth + 1 /\ closed' = closed /\ depth' # 0
            BY <2>3, <3>1, <5>1
          <6>2. ~closed
            BY <2>3, <3>2
          <6> QED
            BY <2>3, <6>1, <6>2
        <5>2. CASE e.kind = "empty"
          <6>1. depth' = depth /\ closed' = (closed \/ depth = 0)
            BY <2>3, <3>1, <3>4, <5>2, InspectionAssumption
          <6> QED
            BY <2>3, <6>1
        <5> QED
          BY <2>1, <5>1, <5>2
      <4>4. RootsIn(t) # {} /\ \A i, j \in RootsIn(t) : i = j
        BY <2>3, <2>4, <3>2, Zenon
      <4>5. \A i \in RootsIn(t) : t[i].expected
        <5>1. CASE rooted
          BY <2>2, <2>3, <2>4, <3>2, <5>1
        <5>2. CASE ~rooted
          BY <2>2, <2>3, <2>4, <3>2, <5>2
        <5> QED
          BY <5>1, <5>2
      <4>6. \A i \in DOMAIN t : SoundAt(t, i)
        <5>1. \A i \in 1..(n + 1) : i \in 1..n \/ i = n + 1
          BY <2>2
        <5> QED
          BY <2>2, <2>4, <4>1, <5>1
      <4>7. ReadSoFar(t, depth', rooted', closed')
        BY <2>1, <2>2, <3>1, <4>2, <4>3, <4>4, <4>5, <4>6 DEF ReadSoFar
      <4> QED
        BY <2>1, <2>2, <3>1, <3>4, <4>7, ReadingGoesOn
    <3> QED
      BY <3>3, <3>4
  <2> QED
    BY <2>5, <2>6
<1>7. ASSUME NEW e \in Openings \cup Others, Closes(e) \/ Text(e) \/ Skips(e) \/ Ends(e)
      PROVE  InspectionInv'
  <2>1. verdict = "reading" /\ t = Append(seen, e) /\ Len(t) <= MaximumEvents
        /\ e.kind \in {"end", "text", "other", "eof"}
    BY <1>7 DEF Closes, Text, Skips, Ends, Counted
  <2>2. /\ e \in Events /\ seen \in Seq(Events) /\ t \in Seq(Events)
        /\ n \in Nat /\ Len(t) = n + 1 /\ DOMAIN t = 1..(n + 1)
        /\ DOMAIN seen = 1..n /\ t[n + 1] = e
        /\ \A i \in 1..n : t[i] = seen[i]
        /\ ReadSoFar(seen, depth, rooted, closed)
        /\ RootsIn(seen) \subseteq 1..n
    BY <1>2, <2>1
  <2>3. /\ depth \in Nat /\ depth = DepthIn(seen, n)
        /\ rooted \in BOOLEAN /\ (rooted <=> RootsIn(seen) # {})
        /\ closed \in BOOLEAN /\ (closed <=> rooted /\ depth = 0) /\ (~rooted => depth = 0)
        /\ \A i \in 1..n : SoundAt(seen, i)
        /\ \A i, j \in RootsIn(seen) : i = j
        /\ \A i \in RootsIn(seen) : seen[i].expected
    BY <2>2 DEF ReadSoFar
  <2>4. /\ e.kind = "end" => DepthIn(t, n + 1) = depth - 1
        /\ e.kind # "end" => DepthIn(t, n + 1) = depth
        /\ \A i \in 1..n : SoundAt(t, i)
        /\ RootsIn(t) = RootsIn(seen)
    <3>1. /\ \A i \in 0..Len(seen) : DepthIn(t, i) = DepthIn(seen, i)
          /\ e.kind = "start" => DepthIn(t, Len(t)) = DepthIn(seen, Len(seen)) + 1
          /\ e.kind = "end" => DepthIn(t, Len(t)) = DepthIn(seen, Len(seen)) - 1
          /\ e.kind \notin {"start", "end"} => DepthIn(t, Len(t)) = DepthIn(seen, Len(seen))
          /\ \A i \in DOMAIN seen : SoundAt(t, i) <=> SoundAt(seen, i)
          /\ e.kind \in {"start", "empty"} /\ DepthIn(seen, Len(seen)) = 0 =>
               RootsIn(t) = RootsIn(seen) \cup {Len(seen) + 1}
          /\ e.kind \notin {"start", "empty"} \/ DepthIn(seen, Len(seen)) # 0 =>
               RootsIn(t) = RootsIn(seen)
      BY <2>1, <2>2, OneMoreEvent, ZenonT(60)
    <3> QED
      BY <2>1, <2>2, <2>3, <3>1
  <2>5. \A i \in 1..(n + 1) : i \in 1..n \/ i = n + 1
    BY <2>2
  <2>6. /\ \A i, j \in RootsIn(t) : i = j
        /\ \A i \in RootsIn(t) : t[i].expected
        /\ rooted <=> RootsIn(t) # {}
    BY <2>2, <2>3, <2>4
  <2>7. depth \in 0..MaximumDepth
    <3>1. CASE n = 0
      <4>1. DepthIn(seen, 0) = 0
        BY CountNext DEF DepthIn
      <4> QED
        BY <2>3, <3>1, <4>1, InspectionAssumption
    <3>2. CASE n # 0
      BY <2>2, <2>3, <3>2 DEF SoundAt
    <3> QED
      BY <3>1, <3>2
  <2>8. CASE Closes(e)
    <3>1. e.kind = "end"
      BY <2>8 DEF Closes
    <3>2. CASE depth = 0
      <4>1. verdict' = "Xml"
        BY <2>8, <3>2 DEF Closes, Refuse
      <4>2. ~SoundAt(t, n + 1)
        BY <2>3, <2>4, <3>1, <3>2, InspectionAssumption DEF SoundAt
      <4>3. ~SoundIn(t)
        BY <2>2, <4>2 DEF SoundIn
      <4> QED
        BY <2>2, <4>1, <4>3, RefusalHolds
    <3>3. CASE depth # 0
      <4>1. /\ depth' = depth - 1 /\ closed' = (closed \/ depth = 1)
            /\ rooted' = rooted /\ verdict' = verdict
        BY <2>8, <3>3 DEF Closes
      <4>2. SoundAt(t, n + 1)
        BY <2>2, <2>3, <2>4, <2>7, <3>1, <3>3, InspectionAssumption DEF SoundAt
      <4>3. ReadSoFar(t, depth', rooted', closed')
        <5>1. depth' \in Nat /\ depth' = DepthIn(t, n + 1) /\ rooted'
              /\ closed' \in BOOLEAN /\ (closed' <=> depth' = 0)
          BY <2>3, <2>4, <3>1, <3>3, <4>1
        <5>2. \A i \in DOMAIN t : SoundAt(t, i)
          BY <2>2, <2>4, <2>5, <4>2
        <5> QED
          BY <2>1, <2>2, <2>3, <2>6, <4>1, <5>1, <5>2 DEF ReadSoFar
      <4> QED
        BY <2>1, <2>2, <4>1, <4>3, ReadingGoesOn
    <3> QED
      BY <3>2, <3>3
  <2>9. ASSUME e.kind \in {"text", "other"}, e.kind = "text" => depth # 0,
               UNCHANGED <<depth, rooted, closed, verdict>>
        PROVE  InspectionInv'
    <3>1. SoundAt(t, n + 1)
      BY <2>2, <2>3, <2>4, <2>7, <2>9, InspectionAssumption DEF SoundAt
    <3>2. \A i \in DOMAIN t : SoundAt(t, i)
      BY <2>2, <2>4, <2>5, <3>1
    <3>3. ReadSoFar(t, depth', rooted', closed')
      BY <2>1, <2>2, <2>3, <2>4, <2>6, <2>9, <3>2 DEF ReadSoFar
    <3> QED
      BY <2>1, <2>2, <2>9, <3>3, ReadingGoesOn
  <2>10. CASE Text(e)
    <3>1. e.kind = "text"
      BY <2>10 DEF Text
    <3>2. CASE depth = 0
      <4>1. verdict' = "Xml"
        BY <2>10, <3>2 DEF Text, Refuse
      <4>2. ~SoundAt(t, n + 1)
        BY <2>2, <2>3, <2>4, <3>1, <3>2, InspectionAssumption DEF SoundAt
      <4>3. ~SoundIn(t)
        BY <2>2, <4>2 DEF SoundIn
      <4> QED
        BY <2>2, <4>1, <4>3, RefusalHolds
    <3>3. CASE depth # 0
      BY <2>9, <2>10, <3>1, <3>3 DEF Text
    <3> QED
      BY <3>2, <3>3
  <2>11. CASE Skips(e)
    BY <2>9, <2>11 DEF Skips
  <2>12. CASE Ends(e)
    <3>1. e.kind = "eof" /\ t # <<>>
          /\ verdict' = IF depth # 0 \/ ~closed \/ ~rooted THEN "Xml" ELSE "accepted"
      BY <2>2, <2>12 DEF Ends
    <3>2. EndsIn(t)
      BY <2>2, <3>1 DEF EndsIn
    <3>3. WholeIn(t) <=> depth = 0 /\ rooted
      BY <2>2, <2>4, <2>6, <3>1, <3>2 DEF WholeIn
    <3>4. SoundAt(t, n + 1)
      BY <2>2, <2>3, <2>4, <2>7, <3>1, InspectionAssumption DEF SoundAt
    <3>5. SoundIn(t)
      BY <2>1, <2>2, <2>4, <2>5, <2>6, <3>4 DEF SoundIn
    <3>6. ExactIn(t, verdict') /\ verdict' # "reading"
      BY <2>3, <3>1, <3>2, <3>3, <3>5 DEF ExactIn
    <3> QED
      BY <2>2, <3>6 DEF InspectionInv
  <2> QED
    BY <1>7, <2>8, <2>10, <2>11, <2>12
<1> HIDE DEF t, n
<1> QED
  BY <1>0, <1>1, <1>3, <1>4, <1>5, <1>6, <1>7 DEF InspectionNext

\* The pass over a document finds it well-formed exactly when it is, whatever
\* the limits and however long the document.
THEOREM InspectionsAreExact == InspectionSpec => []InspectionIsExact
<1>1. InspectionInv => InspectionIsExact
  BY ExactHere DEF InspectionInv
<1> QED
  BY <1>1, InspectionStarts, InspectionKeeps, PTL DEF InspectionSpec
=============================================================================
