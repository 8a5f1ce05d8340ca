---------------------------- MODULE BoardProofs ----------------------------
(***************************************************************************)
(* Proofs about the board.  CopperPour, for every set of boards: what is   *)
(* poured keeps clear of what it must, the stitching vias and their        *)
(* evidence are true of the board, and no copper is left loose where every *)
(* zone drops it: the islands of a region are its smallest parts closed    *)
(* under neighbourhood, and every closed part of a net's copper holds some *)
(* that is no zone's.  PlacementSolver, for every set of layouts: a layout *)
(* reported solved is legal, a legal one that nobody asks to improve is    *)
(* returned as it is, and no item leaves a place it could have kept for    *)
(* one that makes the whole layout worse.                                  *)
(***************************************************************************)
EXTENDS CopperPour, PlacementSolver, FoldFacts

-----------------------------------------------------------------------------
(* Pouring.  A zone is poured once, after all that precede it.             *)

IsFixed(f) == \A z : ~PourOfZone(z, f)
PourOrder ==
  /\ step \notin {"pouring", "done"} => copper = {}
  /\ toPour \subseteq Zones
  /\ \A f \in copper : IsFixed(f) \/ \E z \in Zones \ toPour : PourOfZone(z, f)
  /\ \A z \in Zones \ toPour, w \in toPour : ~Precedes(w, z)
ClearPour(z, pour) ==
  \A p \in pour.region :
    /\ p \in Filled(board.zones[z].boundary.outline)
    /\ \A keepout \in Range(board.keepouts) :
         Excludes(keepout, board.zones[z].layer) => p \notin Filled(keepout.box)
    /\ \A feature \in copper :
         KeptFrom(z, feature) =>
           \A q \in feature.region : p # q /\ ClearOf(Cell(p), Cell(q), board.zones[z].clearance)

(* The fill and the spokes of a zone lie within its outline.               *)
LEMMA BaseWithinOutline ==
  ASSUME NEW z, NEW p \in Base(z)
  PROVE  p \in Filled(board.zones[z].boundary.outline)
<1>1. \A q \in ClippedBoundary(z) : q \in Filled(board.zones[z].boundary.outline)
  BY DEF ClippedBoundary, CellsOf
<1>2. \A q \in Fill(z) : q \in ClippedBoundary(z)
  BY DEF Fill, Hatch
<1>3. \A land : \A q \in Spokes(z, land) : q \in Filled(board.zones[z].boundary.outline)
  BY <1>1 DEF Spokes, StaysInside
<1> QED
  BY <1>1, <1>2, <1>3 DEF Base

(* A pour keeps out of the keepouts and from the copper there is.          *)
LEMMA ComposedIsClear ==
  ASSUME NEW z, NEW p \in Composed(z)
  PROVE  /\ p \in Filled(board.zones[z].boundary.outline)
         /\ \A keepout \in Range(board.keepouts) :
              Excludes(keepout, board.zones[z].layer) => p \notin Filled(keepout.box)
         /\ \A f \in Foreign(z) : ~Near(p, f.region, board.zones[z].clearance)
         /\ board.zones[z].connection.kind = "Isolated" =>
              \A f \in Lands(z) : ~Near(p, f.region, board.zones[z].clearance)
<1>1. p \in Base(z) /\ ~HardCut(z, p)
  BY DEF Composed
<1>2. p \in Filled(board.zones[z].boundary.outline)
  BY <1>1, BaseWithinOutline
<1>3. ASSUME NEW keepout \in Range(board.keepouts), Excludes(keepout, board.zones[z].layer)
      PROVE  p \notin Filled(keepout.box)
  <2>1. PICK k \in DOMAIN board.keepouts : keepout = board.keepouts[k]
    BY DEF Range
  <2> QED
    BY <1>1, <1>3, <2>1 DEF HardCut, KeepoutsOf
<1>4. \A f \in Foreign(z) : ~Near(p, f.region, board.zones[z].clearance)
  BY <1>1 DEF HardCut
<1>5. board.zones[z].connection.kind = "Isolated" =>
        \A f \in Lands(z) : ~Near(p, f.region, board.zones[z].clearance)
  BY <1>1 DEF HardCut
<1> QED
  BY <1>2, <1>3, <1>4, <1>5

LEMMA PouredIsClear ==
  ASSUME NEW z \in Zones
  PROVE  ClearPour(z, ZoneFeature(z))
<1>1. ZoneFeature(z).region = Poured(z)
  BY DEF ZoneFeature, Feature
<1> SUFFICES ASSUME NEW p \in Poured(z), NEW f \in copper, KeptFrom(z, f), NEW q \in f.region
             PROVE  p # q /\ ClearOf(Cell(p), Cell(q), board.zones[z].clearance)
  <2>1. \A p \in Poured(z) : p \in Composed(z)
    BY DEF Poured
  <2> QED
    BY <1>1, <2>1, ComposedIsClear DEF ClearPour
<1>2. p \in Composed(z)
  BY DEF Poured
<1>3. f \in Foreign(z) \/ (board.zones[z].connection.kind = "Isolated" /\ f \in Lands(z))
  BY DEF KeptFrom, Foreign, Lands, OnLayerOf
<1>4. ~Near(p, f.region, board.zones[z].clearance)
  BY <1>2, <1>3, ComposedIsClear
<1> QED
  BY <1>4 DEF Near

(* No pad, artwork, route or via is a zone's.                              *)
LEMMA FixedFeaturesAreFixed == \A f \in FixedFeatures : IsFixed(f)
<1>1. \A z, i, p : <<"zone", z>> # <<"pad", i, p>> /\ <<"zone", z>> # <<"graphic", i, p>>
  <2> SUFFICES ASSUME NEW z, NEW i, NEW p
               PROVE <<"zone", z>> # <<"pad", i, p>> /\ <<"zone", z>> # <<"graphic", i, p>>
    OBVIOUS
  <2>1. <<"zone", z>>[1] = "zone" /\ <<"pad", i, p>>[1] = "pad" /\ <<"graphic", i, p>>[1] = "graphic"
    OBVIOUS
  <2> QED BY <2>1
<1>2. \A z, r : <<"zone", z>> # <<"route", r>> /\ <<"zone", z>> # <<"via", r>>
  OBVIOUS
<1>3. ASSUME NEW i, NEW f \in PadFeatures(i) PROVE IsFixed(f)
  <2>1. \E p : \E layer : f.source = <<"pad", i, p>>
    BY <1>3 DEF PadFeatures, Feature
  <2> QED BY <1>1, <2>1 DEF IsFixed, PourOfZone
<1>4. ASSUME NEW i, NEW f \in ArtworkFeatures(i) PROVE IsFixed(f)
  <2>1. \E g : f.source = <<"graphic", i, g>>
    BY <1>4 DEF ArtworkFeatures, Feature
  <2> QED BY <1>1, <2>1 DEF IsFixed, PourOfZone
<1>5. ASSUME NEW r PROVE IsFixed(RouteFeature(r))
  BY <1>2 DEF RouteFeature, Feature, IsFixed, PourOfZone
<1>6. ASSUME NEW via, NEW f \in ViaFeatures(via) PROVE IsFixed(f)
  <2>1. f.source = <<"via", via.id>>
    BY <1>6 DEF ViaFeatures, Feature
  <2> QED BY <1>2, <2>1 DEF IsFixed, PourOfZone
<1>7. ASSUME NEW f \in FixedFeatures PROVE IsFixed(f)
  <2>1. \/ \E i : f \in PadFeatures(i)
        \/ \E i : f \in ArtworkFeatures(i)
        \/ \E r : f = RouteFeature(r)
        \/ \E via : f \in ViaFeatures(via)
    BY <1>7 DEF FixedFeatures
  <2>2. (\E r : f = RouteFeature(r)) => IsFixed(f)
    BY <1>5
  <2>3. (\E i : f \in PadFeatures(i)) => IsFixed(f)
    BY <1>3
  <2>4. (\E i : f \in ArtworkFeatures(i)) => IsFixed(f)
    BY <1>4
  <2>5. (\E via : f \in ViaFeatures(via)) => IsFixed(f)
    BY <1>6
  <2> QED
    BY <2>1, <2>2, <2>3, <2>4, <2>5
<1> QED
  BY <1>7

(* A step that lays no copper changes nothing that matters here.           *)
LEMMA PourFrame ==
  ASSUME UNCHANGED <<board, toPour, copper>>, PourOrder, PoursKeepClear,
         step' \in {"pouring", "done"} \/ copper = {}
  PROVE  PourOrder' /\ PoursKeepClear'
<1>1. PourOrder'
  BY DEF PourOrder, Zones, Precedes, IsFixed, PourOfZone
<1>2. PoursKeepClear'
  BY DEF PoursKeepClear, Zones, PourOfZone, KeptFrom, Precedes, Excludes
<1> QED
  BY <1>1, <1>2

LEMMA PourNextKeeps ==
  ASSUME PourNext, PourOrder, PoursKeepClear
  PROVE  PourOrder' /\ PoursKeepClear'
<1>1. PICK z \in toPour : /\ \A other \in toPour : ~Precedes(other, z)
                          /\ copper' = copper \cup {ZoneFeature(z)}
                          /\ toPour' = toPour \ {z}
  BY DEF PourNext
<1>2. board' = board /\ step' = step /\ step = "pouring"
  BY DEF PourNext
<1>3. z \in Zones /\ Zones' = Zones /\ \A a, b : Precedes(a, b)' = Precedes(a, b)
  BY <1>2 DEF PourOrder, Zones, Precedes
<1>4. PourOfZone(z, ZoneFeature(z)) /\ \A w : PourOfZone(w, ZoneFeature(z)) => w = z
  BY DEF PourOfZone, ZoneFeature, Feature
<1>5. PourOrder'
  <2>1. \A f \in copper' : IsFixed(f) \/ \E w \in Zones' \ toPour' : PourOfZone(w, f)
    BY <1>1, <1>3, <1>4 DEF PourOrder
  <2>2. \A a \in Zones' \ toPour', w \in toPour' : ~Precedes(w, a)'
    BY <1>1, <1>3 DEF PourOrder
  <2> QED
    BY <1>1, <1>2, <1>3, <2>1, <2>2 DEF PourOrder, IsFixed, PourOfZone
<1>6. ASSUME NEW w, NEW f PROVE KeptFrom(w, f)' = KeptFrom(w, f)
  BY <1>2, <1>3 DEF KeptFrom, PourOfZone
<1>7. ~KeptFrom(z, ZoneFeature(z))
  BY DEF KeptFrom, ZoneFeature, Feature
<1>8. ASSUME NEW w \in Zones, NEW pour \in copper, PourOfZone(w, pour)
      PROVE  w \notin toPour /\ ~KeptFrom(w, ZoneFeature(z))
  <2>1. w \notin toPour
    BY <1>8 DEF PourOrder, IsFixed, PourOfZone
  <2>2. ~Precedes(z, w)
    BY <2>1 DEF PourOrder
  <2> QED
    BY <2>1, <2>2, <1>3, <1>4 DEF KeptFrom, ZoneFeature, Feature
<1>9. ASSUME NEW w \in Zones, NEW pour \in copper', PourOfZone(w, pour), NEW p \in pour.region
      PROVE  /\ p \in Filled(board.zones[w].boundary.outline)
             /\ \A keepout \in Range(board.keepouts) :
                  Excludes(keepout, board.zones[w].layer) => p \notin Filled(keepout.box)
             /\ \A f \in copper' : KeptFrom(w, f) => \A q \in f.region :
                  p # q /\ ClearOf(Cell(p), Cell(q), board.zones[w].clearance)
  <2>1. CASE pour \in copper
    BY <1>1, <1>8, <1>9, <2>1 DEF PoursKeepClear
  <2>2. CASE pour = ZoneFeature(z)
    <3>1. w = z
      BY <1>4, <1>9, <2>2
    <3>2. ClearPour(z, pour)
      BY <2>2, PouredIsClear, <1>3
    <3> QED
      BY <1>1, <1>7, <1>9, <2>2, <3>1, <3>2 DEF ClearPour
  <2> QED
    BY <1>1, <1>9, <2>1, <2>2
<1>10. PoursKeepClear'
  BY <1>2, <1>3, <1>6, <1>9 DEF PoursKeepClear, Excludes, PourOfZone
<1> QED
  BY <1>5, <1>10

LEMMA PourOrderHolds == PourSpec => [](PourOrder /\ PoursKeepClear)
<1>1. PourInit => PourOrder /\ PoursKeepClear
  BY DEF PourInit, PourOrder, PoursKeepClear
<1>2. ASSUME PourOrder, PoursKeepClear, [PourNextStep]_pourVars
      PROVE  PourOrder' /\ PoursKeepClear'
  <2>1. CASE PourNext
    BY <1>2, <2>1, PourNextKeeps
  <2>2. CASE LayCopper
    <3>1. board' = board /\ step' = "pouring" /\ copper' = FixedFeatures /\ toPour' = Zones
      BY <2>2 DEF LayCopper
    <3>2. PourOrder'
      BY <3>1, FixedFeaturesAreFixed DEF PourOrder, Zones, IsFixed, PourOfZone
    <3>3. PoursKeepClear'
      BY <3>1, FixedFeaturesAreFixed DEF PoursKeepClear, Zones, IsFixed, PourOfZone
    <3> QED
      BY <3>2, <3>3
  <2>3. CASE RefuseModel \/ BeginStitching \/ TryCandidate \/ EndZone
    <3>1. UNCHANGED <<board, toPour, copper>> /\ step \notin {"pouring", "done"}
      BY <2>3 DEF RefuseModel, BeginStitching, TryCandidate, EndZone
    <3> QED
      BY <1>2, <3>1, PourFrame DEF PourOrder
  <2>4. CASE Report \/ ReportStands \/ UNCHANGED pourVars
    <3>1. UNCHANGED <<board, toPour, copper>> /\ (step' = "done" \/ step' = step)
      BY <2>4 DEF Report, ReportStands, pourVars
    <3> QED
      BY <1>2, <3>1, PourFrame DEF PourOrder
  <2> QED
    BY <1>2, <2>1, <2>2, <2>3, <2>4 DEF PourNextStep
<1> QED
  BY <1>1, <1>2, PTL DEF PourSpec

(* What is poured stays within its zone, out of the keepouts and clear of  *)
(* the copper that was there before it and of the zones of other nets that *)
(* precede it, whatever the board.                                         *)
THEOREM PoursAreClear == PourSpec => []PoursKeepClear
BY PourOrderHolds, PTL

-----------------------------------------------------------------------------
(* Stitching.                                                              *)

Possible == {StitchVia(z, n) : z \in Zones, n \in Nat}
Entries == [candidates : Nat, accepted : Nat, rejected : [Hindrances -> Nat], truncated : BOOLEAN]
AcceptedAt(z, i) ==
  /\ Stitches(z) /\ i \in AcceptedOf(z) /\ StitchFits(z, stitched[i])
  /\ \A j \in 1..(i - 1) : /\ ClearVia(z, stitched[i].at, stitched[j])
                           /\ stitched[i].id # stitched[j].id
CountedTrue(z) ==
  /\ evidence[z].accepted = Cardinality(AcceptedOf(z))
  /\ evidence[z].candidates = evidence[z].accepted + Rejections(evidence[z].rejected)
Through(z) == z < zone => evidence[z].truncated \/ Examined(z) = 0..(Candidates(z) - 1)
NoneLeft(z) == \A n \in Examined(z) : Hindrance(z, n) # "None"

StitchType ==
  /\ board \in PourBoards
  /\ zone \in Nat \ {0}
  /\ stitched \in Seq(Possible)
  /\ evidence \in [Zones -> Entries]
  /\ step = "asked" => zone = 1 /\ stitched = << >> /\ evidence = [z \in Zones |-> NothingTried]
  /\ step \notin {"asked", "InvalidSourceModel"} => \A z \in Zones : ValidZone(z)
StitchInv ==
  /\ StitchType
  /\ \A i \in DOMAIN stitched : \E z \in Zones : AcceptedAt(z, i)
  /\ \A z \in Zones : Stitches(z) => CountedTrue(z) /\ NoneLeft(z) /\ Through(z)

LEMMA StitchInvIsTrue == ASSUME StitchInv PROVE StitchesAreTrue
BY DEF StitchInv, StitchesAreTrue, AcceptedAt, CountedTrue, NoneLeft, Through

(* A board's zones and policies are numbers.                               *)
LEMMA BoardIsTyped ==
  ASSUME StitchType
  PROVE  /\ Zones = 1..Len(board.zones) /\ Len(board.zones) \in Nat
         /\ \A z \in Zones : Stitches(z) =>
              /\ Policy(z).pitch \in Int /\ Policy(z).land \in Int /\ Policy(z).drill \in Int
              /\ Policy(z).edge \in Int /\ Policy(z).limit \in Nat
              /\ IsPoint(board.zones[z].boundary.outline.low)
              /\ IsPoint(board.zones[z].boundary.outline.high)
<1>1. IsPourBoard(board)
  BY PourBoardsAreBoards DEF StitchType
<1>2. Zones = 1..Len(board.zones) /\ Len(board.zones) \in Nat
  BY <1>1 DEF IsPourBoard, Zones
<1>3. ASSUME NEW z \in Zones, Stitches(z)
      PROVE  /\ Policy(z).pitch \in Int /\ Policy(z).land \in Int /\ Policy(z).drill \in Int
             /\ Policy(z).edge \in Int /\ Policy(z).limit \in Nat
             /\ IsPoint(board.zones[z].boundary.outline.low)
             /\ IsPoint(board.zones[z].boundary.outline.high)
  <2>1. IsStitching(Policy(z)) /\ IsBox(board.zones[z].boundary.outline)
    BY <1>1, <1>3 DEF IsPourBoard, Zones, Stitches, Policy
  <2> QED
    BY <2>1 DEF IsStitching, IsBox
<1> QED
  BY <1>2, <1>3

LEMMA PlacesAreNatural ==
  ASSUME StitchType, NEW z \in Zones, Stitches(z), ValidZone(z), NEW k \in {1, 2}
  PROVE  Places(z, k) \in Nat
<1> DEFINE outline == board.zones[z].boundary.outline
           room == outline.high[k] - outline.low[k] - 2 * Inset(z)
<1>1. room \in Int
  <2>1. outline.high[k] \in Int /\ outline.low[k] \in Int
    BY BoardIsTyped DEF IsPoint
  <2>2. Inset(z) \in Int
    BY BoardIsTyped DEF Inset
  <2> QED
    BY <2>1, <2>2
<1>2. Policy(z).pitch \in Nat \ {0}
  BY BoardIsTyped DEF ValidZone, ValidStitching
<1> HIDE DEF room
<1>3. room >= 0 => room \div Policy(z).pitch \in Nat
  BY <1>1, <1>2
<1>4. Places(z, k) = IF room < 0 THEN 0 ELSE room \div Policy(z).pitch + 1
  BY DEF Places, room
<1> QED
  BY <1>1, <1>3, <1>4

LEMMA DivisionIsNatural ==
  ASSUME NEW n \in Nat, NEW d \in Nat \ {0}
  PROVE  n \div d \in Nat /\ n % d \in Nat
OBVIOUS

(* A candidate's identity and place determine it.                          *)
LEMMA CandidatesDiffer ==
  ASSUME StitchType, NEW a \in Zones, NEW b \in Zones, ValidZone(a), ValidZone(b),
         NEW m \in Nat, NEW n \in Nat,
         Stitches(b), Places(b, 1) # 0, StitchVia(a, m) = StitchVia(b, n)
  PROVE  a = b /\ m = n
<1>1. StitchId(a, m) = StitchId(b, n)
  BY DEF StitchVia
<1>2. board.zones[a].id = board.zones[b].id /\ Row(a, m) = Row(b, n) /\ Column(a, m) = Column(b, n)
  BY <1>1 DEF StitchId
<1>3. a = b
  BY <1>2 DEF ValidZone
<1>4. Places(b, 1) \in Nat \ {0}
  BY PlacesAreNatural
<1>5. m = n
  BY <1>2, <1>3, <1>4 DEF Row, Column
<1> QED
  BY <1>3, <1>5

LEMMA MaxOfZero == ASSUME NEW s, s = {0} PROVE Max(s) = 0
BY DEF Max

(* A candidate's place is a point.                                         *)
LEMMA CentreIsPoint ==
  ASSUME StitchType, NEW z \in Zones, Stitches(z), ValidZone(z), Places(z, 1) # 0,
         NEW n \in Nat
  PROVE  IsPoint(Centre(z, n))
<1> DEFINE low == board.zones[z].boundary.outline.low
           rowStep == Row(z, n) * Policy(z).pitch
           columnStep == Column(z, n) * Policy(z).pitch
<1>1. n \div Places(z, 1) \in Nat /\ n % Places(z, 1) \in Nat
  BY PlacesAreNatural, DivisionIsNatural
<1>2. low[1] \in Int /\ low[2] \in Int /\ Inset(z) \in Int
  BY BoardIsTyped DEF IsPoint, Inset
<1>3. rowStep \in Int /\ columnStep \in Int
  BY <1>1, BoardIsTyped DEF Row, Column
<1>4. Centre(z, n) = <<low[1] + Inset(z) + columnStep, low[2] + Inset(z) + rowStep>>
  BY DEF Centre
<1> HIDE DEF low, rowStep, columnStep
<1> QED
  BY <1>2, <1>3, <1>4 DEF IsPoint

(* No via is clear of one at its own place.                                *)
LEMMA NotClearOfItself ==
  ASSUME StitchType, NEW z \in Zones, Stitches(z), ValidZone(z), Places(z, 1) # 0,
         NEW n \in Nat
  PROVE  ~ClearVia(z, Centre(z, n), StitchVia(z, n))
<1> DEFINE at == Centre(z, n)
           via == StitchVia(z, n)
<1>1. /\ Policy(z).land \in Int /\ Policy(z).edge \in Int
      /\ Policy(z).land > 0 /\ Policy(z).edge >= 0 /\ Policy(z).pitch \in Int
  BY BoardIsTyped DEF ValidZone, ValidStitching
<1>2. Places(z, 1) \in Nat
  BY PlacesAreNatural
<1>3. via.at = at /\ via.land = Policy(z).land
  BY DEF StitchVia
<1>4. GapSquared(Point(at), Point(at)) = 0
  <2> DEFINE gap(k) == Max({0, at[k] - at[k], at[k] - at[k]})
  <2>1. CASE at[1] \in Int /\ at[2] \in Int
    <3>1. gap(1) = 0 /\ gap(2) = 0
      <4>1. {0, at[1] - at[1], at[1] - at[1]} = {0} /\ {0, at[2] - at[2], at[2] - at[2]} = {0}
        BY <2>1
      <4> QED
        BY <4>1, MaxOfZero
    <3>2. GapSquared(Point(at), Point(at)) = gap(1) * gap(1) + gap(2) * gap(2)
      BY DEF GapSquared, Point
    <3> HIDE DEF gap
    <3> QED
      BY <3>1, <3>2
  <2>2. at[1] \in Int /\ at[2] \in Int
    BY CentreIsPoint DEF IsPoint
  <2> QED
    BY <2>1, <2>2
<1>5. ~ClearVia(z, at, via)
  <2>1. ClearVia(z, at, via) =
          (GapSquared(Point(at), Point(at)) >=
             (Policy(z).land + Policy(z).land + Policy(z).edge)
               * (Policy(z).land + Policy(z).land + Policy(z).edge))
    BY <1>3 DEF ClearVia, ClearOf
  <2> DEFINE d == Policy(z).land + Policy(z).land + Policy(z).edge
  <2>2. d \in Int /\ d > 0
    BY <1>1
  <2> HIDE DEF d
  <2>3. ~(0 >= d * d)
    BY <2>2
  <2> QED
    BY <1>4, <2>1, <2>3 DEF d
<1> QED
  BY <1>5

(* What no copper is laid for: the steps of a zone's grid.                  *)
LEMMA BeginsTrue == ASSUME PourInit PROVE StitchInv
<1>1. StitchType
  BY DEF PourInit, StitchType, Entries, NothingTried, Hindrances
<1>2. DOMAIN stitched = {} /\ \A z \in Zones : Examined(z) = {}
  BY DEF PourInit, Examined, NothingTried
<1>3. \A z \in Zones : Stitches(z) => CountedTrue(z)
  <2> SUFFICES ASSUME NEW z \in Zones PROVE CountedTrue(z)
    OBVIOUS
  <2>1. AcceptedOf(z) = {}
    BY <1>2 DEF AcceptedOf
  <2>2. Rejections(evidence[z].rejected) = 0
    BY DEF PourInit, NothingTried, Rejections, Hindrances
  <2> QED
    BY <2>1, <2>2, FS_EmptySet DEF CountedTrue, PourInit, NothingTried
<1>4. \A z \in Zones : NoneLeft(z) /\ Through(z)
  <2> SUFFICES ASSUME NEW z \in Zones PROVE NoneLeft(z) /\ Through(z)
    OBVIOUS
  <2>1. zone = 1 /\ z \in 1..Len(board.zones)
    BY <1>1, BoardIsTyped DEF PourInit
  <2> QED
    BY <1>2, <2>1, <1>1, BoardIsTyped DEF NoneLeft, Through
<1> QED
  BY <1>1, <1>2, <1>3, <1>4 DEF StitchInv

LEMMA BoardKeeps ==
  ASSUME board' = board
  PROVE  /\ Zones' = Zones
         /\ \A z : /\ Stitches(z)' = Stitches(z) /\ Policy(z)' = Policy(z) /\ Inset(z)' = Inset(z)
                   /\ ValidZone(z)' = ValidZone(z) /\ Candidates(z)' = Candidates(z)
                   /\ \A n : StitchVia(z, n)' = StitchVia(z, n) /\ Centre(z, n)' = Centre(z, n)
                             /\ StitchId(z, n)' = StitchId(z, n)
                   /\ \A via : StitchFits(z, via)' = StitchFits(z, via)
                   /\ \A at, via : ClearVia(z, at, via)' = ClearVia(z, at, via)
                   /\ Places(z, 1)' = Places(z, 1)
         /\ Possible' = Possible
<1>1. Zones' = Zones /\ \A z : Stitches(z)' = Stitches(z) /\ Policy(z)' = Policy(z)
  BY DEF Zones, Stitches, Policy
<1>2. \A z : Inset(z)' = Inset(z)
  BY <1>1 DEF Inset
<1>3. ASSUME NEW z PROVE ValidZone(z)' = ValidZone(z)
  <2>1. ValidStitching(z)' = ValidStitching(z)
    BY <1>1 DEF ValidStitching
  <2> QED
    BY <1>1, <2>1 DEF ValidZone, Relief
<1>4. \A z, k : Places(z, k)' = Places(z, k)
  BY <1>1, <1>2 DEF Places
<1>5. \A z : Candidates(z)' = Candidates(z)
  BY <1>4 DEF Candidates
<1>6. \A z, n : Row(z, n)' = Row(z, n) /\ Column(z, n)' = Column(z, n)
  BY <1>4 DEF Row, Column
<1>7. \A z, n : Centre(z, n)' = Centre(z, n) /\ StitchId(z, n)' = StitchId(z, n)
  BY <1>1, <1>2, <1>6 DEF Centre, StitchId
<1>8. \A z, n : StitchVia(z, n)' = StitchVia(z, n)
  BY <1>1, <1>7 DEF StitchVia
<1>9. \A z, at, via : ClearVia(z, at, via)' = ClearVia(z, at, via)
  BY <1>1 DEF ClearVia
<1>10. \A z, via : StitchFits(z, via)' = StitchFits(z, via)
  BY <1>2, <1>9 DEF StitchFits
<1>11. Possible' = Possible
  BY <1>1, <1>8 DEF Possible
<1> QED
  BY <1>1, <1>2, <1>3, <1>4, <1>5, <1>7, <1>8, <1>9, <1>10, <1>11

Free(z, n) ==
  /\ Fits(Centre(z, n), Inset(z), board.zones[z].boundary)
  /\ Fits(Centre(z, n), Inset(z), board)
  /\ \A keepout \in Range(board.keepouts) :
       ForVias(keepout) => ClearOf(Point(Centre(z, n)), keepout.box, Inset(z))
  /\ \A via \in Occupied : ClearVia(z, Centre(z, n), via)
  /\ \A via \in Occupied : via.id # StitchId(z, n)

LEMMA HindranceIsFree ==
  ASSUME NEW z, NEW n
  PROVE  /\ Hindrance(z, n) = "None" <=> Free(z, n)
         /\ Hindrance(z, n) \in Hindrances \cup {"None"}
<1>1. Hindrance(z, n) = "None" <=> Free(z, n)
  BY DEF Hindrance, Free
<1>2. Hindrance(z, n) \in Hindrances \cup {"None"}
  BY DEF Hindrance, Hindrances
<1> QED
  BY <1>1, <1>2

(* More vias leave no more room.                                           *)
LEMMA HindranceKeeps ==
  ASSUME board' = board, Range(stitched) \subseteq Range(stitched'), NEW z, NEW n,
         Hindrance(z, n) # "None"
  PROVE  Hindrance(z, n)' # "None"
<1>1. Free(z, n)' => Free(z, n)
  <2>1. Occupied \subseteq Occupied'
    BY DEF Occupied
  <2> QED
    BY <2>1, BoardKeeps DEF Free
<1>2. Hindrance(z, n)' = "None" <=> Free(z, n)'
  BY DEF Hindrance, Free
<1> QED
  BY <1>1, <1>2, HindranceIsFree

LEMMA TalliedIsEntry ==
  ASSUME NEW entry \in Entries, NEW h \in Hindrances \cup {"None"}
  PROVE  /\ Tallied(entry, h) \in Entries
         /\ Tallied(entry, h).candidates = entry.candidates + 1
         /\ Tallied(entry, h).accepted = entry.accepted + (IF h = "None" THEN 1 ELSE 0)
         /\ Tallied(entry, h).truncated = entry.truncated
         /\ Rejections(Tallied(entry, h).rejected) =
              Rejections(entry.rejected) + (IF h = "None" THEN 0 ELSE 1)
         /\ Rejections(entry.rejected) \in Nat
<1> DEFINE counts == [why \in Hindrances |-> entry.rejected[why] + (IF why = h THEN 1 ELSE 0)]
<1>1. entry.candidates \in Nat /\ entry.accepted \in Nat /\ entry.truncated \in BOOLEAN
      /\ entry.rejected \in [Hindrances -> Nat]
  BY DEF Entries
<1>2. counts \in [Hindrances -> Nat]
  BY <1>1
<1>3. /\ entry.rejected["OutsideZone"] \in Nat /\ entry.rejected["BoardOrCutout"] \in Nat
      /\ entry.rejected["Keepout"] \in Nat /\ entry.rejected["ViaCollision"] \in Nat
      /\ entry.rejected["IdCollision"] \in Nat
  BY <1>1 DEF Hindrances
<1>4. Rejections(entry.rejected) \in Nat
  BY <1>3 DEF Rejections
<1>5. Rejections(counts) = Rejections(entry.rejected) + (IF h = "None" THEN 0 ELSE 1)
  BY <1>3 DEF Rejections, Hindrances
<1>6. Tallied(entry, h).rejected = counts
  BY DEF Tallied
<1>7. Tallied(entry, h) \in Entries
  BY <1>1, <1>2 DEF Tallied, Entries
<1> HIDE DEF counts
<1>8. /\ Tallied(entry, h).candidates = entry.candidates + 1
      /\ Tallied(entry, h).accepted = entry.accepted + (IF h = "None" THEN 1 ELSE 0)
      /\ Tallied(entry, h).truncated = entry.truncated
  BY DEF Tallied
<1> QED
  BY <1>4, <1>5, <1>6, <1>7, <1>8

LEMMA TryCandidateKeeps ==
  ASSUME StitchInv, TryCandidate
  PROVE  StitchInv'
<1>0. \E c, m, g, v, l :
        /\ c = zone /\ m = evidence[zone].candidates /\ g = Hindrance(c, m)
        /\ v = StitchVia(c, m) /\ l = Len(stitched)
  OBVIOUS
<1>a. PICK here, n, h, via, L :
        /\ here = zone /\ n = evidence[zone].candidates /\ h = Hindrance(here, n)
        /\ via = StitchVia(here, n) /\ L = Len(stitched)
  BY <1>0
<1>1. /\ here \in Zones /\ Stitches(here) /\ n < Candidates(here) /\ step = "stitching"
      /\ stitched' = IF h = "None" THEN Append(stitched, via) ELSE stitched
      /\ evidence' = [evidence EXCEPT ![here] = Tallied(evidence[here], h)]
      /\ board' = board /\ zone' = zone /\ step' = step /\ here = zone
      /\ h = Hindrance(here, n) /\ via = StitchVia(here, n) /\ n = evidence[here].candidates
  BY <1>a DEF TryCandidate
<1>2. /\ StitchType /\ evidence \in [Zones -> Entries] /\ n \in Nat /\ L \in Nat /\ zone \in Nat \ {0}
      /\ stitched \in Seq(Possible) /\ \A z \in Zones : evidence[z].candidates \in Nat
  BY <1>a, <1>1 DEF StitchInv, StitchType, Entries
<1>3. \A z \in Zones : ValidZone(z)
  BY <1>1, <1>2 DEF StitchType
<1>4. Places(here, 1) # 0
  <2>1. Places(here, 1) \in Nat /\ Places(here, 2) \in Nat
    BY <1>1, <1>2, <1>3, PlacesAreNatural
  <2>2. Places(here, 1) = 0 => Candidates(here) = 0
    BY <2>1 DEF Candidates
  <2> QED
    BY <1>1, <1>2, <2>2
<1>5. h \in Hindrances \cup {"None"}
  BY <1>1, HindranceIsFree
<1>6. via \in Possible
  BY <1>1, <1>2 DEF Possible
<1>7. /\ \A i \in 1..L : i \in DOMAIN stitched' /\ stitched'[i] = stitched[i]
      /\ DOMAIN stitched = 1..L
      /\ h = "None" => DOMAIN stitched' = 1..(L + 1) /\ stitched'[L + 1] = via
      /\ h # "None" => stitched' = stitched
      /\ stitched' \in Seq(Possible)
  BY <1>a, <1>1, <1>2, <1>6
<1>8. /\ \A z \in Zones : z # here => evidence'[z] = evidence[z]
      /\ evidence'[here] = Tallied(evidence[here], h)
      /\ evidence' \in [Zones -> Entries]
  BY <1>1, <1>2, <1>5, TalliedIsEntry
<1>9. /\ \A z \in Zones : z # here => Examined(z)' = Examined(z)
      /\ Examined(here)' = Examined(here) \cup {n}
      /\ n \notin Examined(here) /\ n \in Examined(here)'
      /\ \A z \in Zones : \A m \in Examined(z) : m \in Nat /\ m \in Examined(z)'
  <2>1. \A z \in Zones : z # here => Examined(z)' = Examined(z)
    BY <1>8 DEF Examined
  <2>2. evidence'[here].candidates = n + 1
    BY <1>1, <1>2, <1>5, <1>8, TalliedIsEntry
  <2>3. Examined(here)' = Examined(here) \cup {n} /\ n \notin Examined(here)
    BY <1>1, <1>2, <2>2 DEF Examined
  <2>4. \A z \in Zones : \A m \in Examined(z) : m \in Nat
    BY <1>2 DEF Examined
  <2>5. ASSUME NEW z \in Zones, NEW m \in Examined(z) PROVE m \in Examined(z)'
    <3>1. CASE z = here
      BY <2>3, <2>5, <3>1
    <3>2. CASE z # here
      BY <2>1, <2>5, <3>2
    <3> QED
      BY <3>1, <3>2
  <2> QED
    BY <2>1, <2>3, <2>4, <2>5
<1>10. Zones' = Zones /\ Possible' = Possible
  BY <1>1, BoardKeeps
<1>11. StitchType'
  <2>1. \A z \in Zones' : ValidZone(z)'
    BY <1>1, <1>3, <1>10, BoardKeeps
  <2> QED
    BY <1>1, <1>2, <1>7, <1>8, <1>10, <2>1 DEF StitchType, Entries, Hindrances
<1>12. \A i \in 1..L : \E z \in Zones : AcceptedAt(z, i)
  BY <1>7 DEF StitchInv
<1>13. ASSUME NEW i \in 1..L
       PROVE  stitched[i] # via
  <2>1. PICK z \in Zones : AcceptedAt(z, i)
    BY <1>12
  <2>2. PICK m \in Examined(z) : stitched[i] = StitchVia(z, m)
    BY <2>1 DEF AcceptedAt, AcceptedOf
  <2>3. m \in Nat
    BY <1>9, <2>2
  <2>4. ASSUME stitched[i] = via PROVE z = here /\ m = n
    <3>1. StitchVia(z, m) = StitchVia(here, n)
      BY <1>1, <2>2, <2>4
    <3>2. StitchType /\ here \in Zones /\ ValidZone(z) /\ ValidZone(here) /\ n \in Nat
          /\ Stitches(here) /\ Places(here, 1) # 0
      BY <1>1, <1>2, <1>3, <1>4
    <3> QED
      BY <2>3, <3>1, <3>2, CandidatesDiffer
  <2>5. stitched[i] = via => n \in Examined(here)
    BY <2>2, <2>4
  <2> QED
    BY <1>9, <2>5
<1>14. ASSUME NEW z \in Zones, NEW i \in 1..L
       PROVE  i \in AcceptedOf(z)' <=> i \in AcceptedOf(z)
  <2>1. i \in AcceptedOf(z) <=> \E m \in Examined(z) : stitched[i] = StitchVia(z, m)
    BY <1>7 DEF AcceptedOf
  <2>2. i \in AcceptedOf(z)' <=> \E m \in Examined(z)' : stitched[i] = StitchVia(z, m)
    <3>1. \A m : StitchVia(z, m)' = StitchVia(z, m)
      BY <1>1, BoardKeeps
    <3>2. i \in DOMAIN stitched' /\ stitched'[i] = stitched[i]
      BY <1>7
    <3> QED
      BY <3>1, <3>2 DEF AcceptedOf
  <2>3. CASE z # here
    BY <1>9, <2>1, <2>2, <2>3
  <2>4. CASE z = here
    <3>1. Examined(z)' = Examined(z) \cup {n} /\ stitched[i] # StitchVia(z, n)
      BY <1>1, <1>9, <1>13, <2>4
    <3> QED
      BY <2>1, <2>2, <3>1
  <2> QED
    BY <2>3, <2>4
<1>15. ASSUME NEW z \in Zones, NEW i \in 1..L, AcceptedAt(z, i)
       PROVE  AcceptedAt(z, i)'
  <2>1. \A j \in 1..(i - 1) : j \in 1..L
    BY <1>2
  <2>2. i \in AcceptedOf(z)'
    BY <1>14, <1>15 DEF AcceptedAt
  <2>3. \A j \in 1..(i - 1) : /\ ClearVia(z, stitched[i].at, stitched[j])'
                              /\ stitched'[i].id # stitched'[j].id
    BY <1>1, <1>7, <1>15, <2>1 DEF AcceptedAt, ClearVia, Policy
  <2>4. Stitches(z)' /\ StitchFits(z, stitched[i])'
    BY <1>1, <1>7, <1>15 DEF AcceptedAt, StitchFits, ClearVia, Policy, Inset, Stitches
  <2> QED
    BY <2>2, <2>3, <2>4 DEF AcceptedAt
<1>16. ASSUME h = "None"
       PROVE  L + 1 \in AcceptedOf(here)' /\ AcceptedAt(here, L + 1)'
  <2>0. \E i : i = L + 1
    OBVIOUS
  <2>i. PICK i : i = L + 1
    BY <2>0
  <2>1. L + 1 \in AcceptedOf(here)'
    BY <1>1, <1>2, <1>7, <1>9, <1>16, BoardKeeps DEF AcceptedOf
  <2>2. Free(here, n) /\ via.at = Centre(here, n) /\ via.id = StitchId(here, n)
    BY <1>1, <1>16, HindranceIsFree DEF StitchVia
  <2>3. StitchFits(here, via)
    <3>1. \A other \in Range(board.vias) : other \in Occupied
      BY DEF Occupied
    <3> QED
      BY <2>2, <3>1 DEF StitchFits, Free
  <2>4. ASSUME NEW j \in 1..L
        PROVE  ClearVia(here, via.at, stitched[j]) /\ via.id # stitched[j].id
    <3>1. stitched[j] \in Occupied
      BY <1>7 DEF Occupied, Range
    <3> QED
      BY <2>2, <3>1 DEF Free
  <2>5. Stitches(here)' /\ StitchFits(here, stitched[i])'
    BY <1>1, <1>7, <1>16, <2>i, <2>3 DEF StitchFits, ClearVia, Policy, Inset, Stitches
  <2>6. \A j \in 1..(i - 1) : /\ ClearVia(here, stitched[i].at, stitched[j])'
                                  /\ stitched'[i].id # stitched'[j].id
    <3> SUFFICES ASSUME NEW j \in 1..L
                 PROVE  /\ ClearVia(here, stitched[i].at, stitched[j])'
                        /\ stitched'[i].id # stitched'[j].id
      BY <1>2, <2>i
    <3> QED
      BY <1>1, <1>7, <1>16, <2>i, <2>4 DEF ClearVia, Policy
  <2>7. AcceptedAt(here, i)'
    BY <2>1, <2>i, <2>5, <2>6 DEF AcceptedAt
  <2> QED
    BY <2>1, <2>i, <2>7
<1>17. \A i \in DOMAIN stitched' : \E z \in Zones : AcceptedAt(z, i)'
  <2>1. \A i \in DOMAIN stitched' : i \in 1..L \/ (h = "None" /\ i = L + 1)
    BY <1>2, <1>7
  <2> QED
    BY <1>1, <1>12, <1>15, <1>16, <2>1
<1>18. ASSUME NEW z \in Zones, Stitches(z)
       PROVE  CountedTrue(z)' /\ NoneLeft(z)' /\ Through(z)'
  <2>0. CountedTrue(z) /\ NoneLeft(z) /\ Through(z)
    BY <1>18 DEF StitchInv
  <2>1. AcceptedOf(z)' = IF z = here /\ h = "None" THEN AcceptedOf(z) \cup {L + 1} ELSE AcceptedOf(z)
    <3>1. AcceptedOf(z) \subseteq 1..L /\ AcceptedOf(z)' \subseteq 1..(L + 1)
      BY <1>2, <1>7 DEF AcceptedOf
    <3>2. h # "None" => AcceptedOf(z)' \subseteq 1..L
      BY <1>7 DEF AcceptedOf
    <3>3. ASSUME h = "None", z # here PROVE L + 1 \notin AcceptedOf(z)'
      <4>1. \A m \in Examined(z) : StitchVia(z, m) # via
        BY <1>1, <1>2, <1>3, <1>4, <1>9, <3>3, CandidatesDiffer
      <4>2. Examined(z)' = Examined(z) /\ \A m : StitchVia(z, m)' = StitchVia(z, m)
        BY <1>1, <1>9, <3>3, BoardKeeps
      <4> QED
        BY <1>7, <3>3, <4>1, <4>2 DEF AcceptedOf
    <3>4. \A i \in 1..(L + 1) : i \in 1..L \/ i = L + 1
      BY <1>2
    <3>5. L + 1 \notin 1..L
      BY <1>2
    <3> QED
      BY <1>14, <1>16, <3>1, <3>2, <3>3, <3>4, <3>5
  <2>2. CountedTrue(z)'
    <3>1. CASE z # here
      <4>1. AcceptedOf(z)' = AcceptedOf(z)
        BY <2>1, <3>1
      <4> QED
        BY <1>8, <2>0, <3>1, <4>1 DEF CountedTrue
    <3>2. CASE z = here
      <4>1. IsFiniteSet(AcceptedOf(z)) /\ L + 1 \notin AcceptedOf(z)
        <5>1. AcceptedOf(z) \subseteq 1..L
          BY <1>7 DEF AcceptedOf
        <5>2. L + 1 \notin 1..L /\ IsFiniteSet(1..L)
          BY <1>2, FS_Interval
        <5> QED
          BY <5>1, <5>2, FS_Subset
      <4>2. Cardinality(AcceptedOf(z)') = Cardinality(AcceptedOf(z)) + (IF h = "None" THEN 1 ELSE 0)
        <5>1. Cardinality(AcceptedOf(z)) \in Nat
          BY <4>1, FS_CardinalityType
        <5>2. CASE h = "None"
          <6>1. AcceptedOf(z)' = AcceptedOf(z) \cup {L + 1}
            BY <2>1, <3>2, <5>2
          <6>2. Cardinality(AcceptedOf(z) \cup {L + 1}) = Cardinality(AcceptedOf(z)) + 1
            BY <4>1, FS_AddElement
          <6> QED
            BY <5>2, <6>1, <6>2
        <5>3. CASE h # "None"
          BY <2>1, <5>1, <5>3
        <5> QED
          BY <5>2, <5>3
      <4>3. /\ evidence'[z].candidates = evidence[z].candidates + 1
            /\ evidence'[z].accepted = evidence[z].accepted + (IF h = "None" THEN 1 ELSE 0)
            /\ Rejections(evidence'[z].rejected) =
                 Rejections(evidence[z].rejected) + (IF h = "None" THEN 0 ELSE 1)
            /\ Rejections(evidence[z].rejected) \in Nat
        BY <1>1, <1>2, <1>5, <1>8, <3>2, TalliedIsEntry
      <4>4. evidence[z].accepted \in Nat
        BY <1>2 DEF Entries
      <4>5. evidence'[z].accepted = Cardinality(AcceptedOf(z)')
        BY <2>0, <4>2, <4>3 DEF CountedTrue
      <4>6. evidence'[z].candidates = evidence'[z].accepted + Rejections(evidence'[z].rejected)
        BY <2>0, <4>3, <4>4 DEF CountedTrue
      <4> QED
        BY <4>5, <4>6 DEF CountedTrue
    <3> QED
      BY <3>1, <3>2
  <2>3. NoneLeft(z)'
    <3>1. Range(stitched) \subseteq Range(stitched')
      BY <1>7 DEF Range
    <3>2. \A m \in Examined(z) : Hindrance(z, m)' # "None"
      BY <1>1, <2>0, <3>1, HindranceKeeps DEF NoneLeft
    <3>3. ASSUME z = here PROVE Hindrance(z, n)' # "None"
      <4>1. CASE h # "None"
        <5>1. Hindrance(z, n) # "None"
          BY <1>1, <3>3, <4>1
        <5> QED
          BY <1>1, <3>1, <5>1, HindranceKeeps
      <4>2. CASE h = "None"
        <5>1. via \in Range(stitched')
          BY <1>2, <1>7, <4>2 DEF Range
        <5>2. StitchVia(z, n)' \in Occupied'
          BY <1>1, <3>3, <5>1, BoardKeeps DEF Occupied
        <5>3. ~ClearVia(z, Centre(z, n), StitchVia(z, n))
          BY <1>1, <1>2, <1>3, <1>4, <3>3, NotClearOfItself
        <5>4. ~ClearVia(z, Centre(z, n), StitchVia(z, n))'
          BY <1>1, <5>3, BoardKeeps DEF ClearVia
        <5>5. ~Free(z, n)'
          BY <5>2, <5>4 DEF Free
        <5>6. Hindrance(z, n)' = "None" <=> Free(z, n)'
          BY DEF Hindrance, Free
        <5> QED
          BY <5>5, <5>6
      <4> QED
        BY <4>1, <4>2
    <3>4. \A m \in Examined(z)' : m \in Examined(z) \/ (z = here /\ m = n)
      BY <1>9
    <3> QED
      BY <3>2, <3>3, <3>4 DEF NoneLeft
  <2>4. Through(z)'
    <3> SUFFICES ASSUME z < zone PROVE evidence'[z].truncated \/ Examined(z)' = 0..(Candidates(z)' - 1)
      BY <1>1 DEF Through
    <3>1. z # here
      BY <1>1, <1>2, BoardIsTyped
    <3> QED
      BY <1>1, <1>8, <1>9, <2>0, <3>1, BoardKeeps DEF Through
  <2> QED
    BY <2>2, <2>3, <2>4
<1> QED
  BY <1>1, <1>10, <1>11, <1>17, <1>18, BoardKeeps DEF StitchInv

(* A step that tries no candidate: the evidence may say "truncated", and   *)
(* the zone may be left when its grid is through.                          *)
LEMMA NoTryKeeps ==
  ASSUME StitchInv, board' = board, stitched' = stitched,
         evidence' \in [Zones -> Entries],
         \A z \in Zones : /\ evidence'[z].candidates = evidence[z].candidates
                          /\ evidence'[z].accepted = evidence[z].accepted
                          /\ evidence'[z].rejected = evidence[z].rejected
                          /\ evidence[z].truncated => evidence'[z].truncated
                          /\ z < zone' => z < zone \/ evidence'[z].truncated
                               \/ (Stitches(z) => Examined(z) = 0..(Candidates(z) - 1)),
         zone' \in Nat \ {0},
         step' # "asked" \/ UNCHANGED <<step, zone, evidence>>,
         step' \notin {"asked", "InvalidSourceModel"} => \A z \in Zones : ValidZone(z)
  PROVE  StitchInv'
<1>1. Zones' = Zones /\ Possible' = Possible
  BY BoardKeeps
<1>2. StitchType'
  <2>1. step' \notin {"asked", "InvalidSourceModel"} => \A z \in Zones' : ValidZone(z)'
    BY <1>1, BoardKeeps
  <2>2. step' = "asked" => zone' = 1 /\ stitched' = << >>
                           /\ evidence' = [z \in Zones' |-> NothingTried]
    BY <1>1 DEF StitchInv, StitchType
  <2>3. board' \in PourBoards /\ stitched' \in Seq(Possible') /\ evidence' \in [Zones' -> Entries]
    BY <1>1 DEF StitchInv, StitchType
  <2> QED
    BY <2>1, <2>2, <2>3 DEF StitchType, Entries, Hindrances, NothingTried
<1>3. \A z \in Zones : Examined(z)' = Examined(z)
  BY DEF Examined
<1>4. ASSUME NEW z \in Zones PROVE AcceptedOf(z)' = AcceptedOf(z)
  <2>1. \A m : StitchVia(z, m)' = StitchVia(z, m)
    BY BoardKeeps
  <2> QED
    BY <1>3, <2>1 DEF AcceptedOf
<1>5. ASSUME NEW z \in Zones, NEW i, AcceptedAt(z, i) PROVE AcceptedAt(z, i)'
  <2>1. i \in AcceptedOf(z)'
    BY <1>4, <1>5 DEF AcceptedAt
  <2>2. \A j \in 1..(i - 1) : /\ ClearVia(z, stitched[i].at, stitched[j])'
                              /\ stitched'[i].id # stitched'[j].id
    BY <1>5 DEF AcceptedAt, ClearVia, Policy
  <2>3. Stitches(z)' /\ StitchFits(z, stitched[i])'
    BY <1>5 DEF AcceptedAt, StitchFits, ClearVia, Policy, Inset, Stitches
  <2> QED
    BY <2>1, <2>2, <2>3 DEF AcceptedAt
<1>6. \A i \in DOMAIN stitched' : \E z \in Zones' : AcceptedAt(z, i)'
  BY <1>1, <1>5 DEF StitchInv
<1>7. ASSUME NEW z \in Zones, Stitches(z)
      PROVE  CountedTrue(z)' /\ NoneLeft(z)' /\ Through(z)'
  <2>0. CountedTrue(z) /\ NoneLeft(z) /\ Through(z)
    BY <1>7 DEF StitchInv
  <2>1. CountedTrue(z)'
    BY <1>4, <2>0 DEF CountedTrue
  <2>2. NoneLeft(z)'
    BY <1>3, <2>0, HindranceKeeps DEF NoneLeft
  <2>3. Through(z)'
    <3>1. Candidates(z)' = Candidates(z)
      BY BoardKeeps
    <3> QED
      BY <1>3, <1>7, <2>0, <3>1 DEF Through
  <2> QED
    BY <2>1, <2>2, <2>3
<1>8. \A z \in Zones' : Stitches(z)' => CountedTrue(z)' /\ NoneLeft(z)' /\ Through(z)'
  BY <1>1, <1>7, BoardKeeps
<1> QED
  BY <1>2, <1>6, <1>8 DEF StitchInv

LEMMA EndZoneKeeps ==
  ASSUME StitchInv, EndZone
  PROVE  StitchInv'
<1>1. /\ zone \in Zones /\ zone' = zone + 1 /\ step = "stitching"
      /\ UNCHANGED <<board, step, stitched>>
      /\ StitchType /\ evidence \in [Zones -> Entries] /\ zone \in Nat \ {0}
  BY DEF EndZone, StitchInv, StitchType
<1>2. \A z \in Zones : z \in Nat /\ (z < zone' => z < zone \/ z = zone)
  BY <1>1, BoardIsTyped
<1>3. \A z \in Zones : ValidZone(z)
  BY <1>1 DEF StitchType
<1>4. CASE (Stitches(zone) => evidence[zone].candidates = Candidates(zone)) /\ UNCHANGED evidence
  <2>1. Stitches(zone) => Examined(zone) = 0..(Candidates(zone) - 1)
    BY <1>4 DEF Examined
  <2>2. ASSUME NEW z \in Zones
        PROVE  z < zone' => z < zone \/ evidence'[z].truncated
                              \/ (Stitches(z) => Examined(z) = 0..(Candidates(z) - 1))
    BY <1>2, <2>1
  <2> QED
    BY <1>1, <1>3, <1>4, <2>2, NoTryKeeps
<1>5. CASE evidence' = [evidence EXCEPT ![zone] = Truncated(evidence[zone])]
  <2>1. Truncated(evidence[zone]) \in Entries
    BY <1>1 DEF Truncated, Entries
  <2>2. ASSUME NEW z \in Zones
        PROVE  /\ evidence'[z].candidates = evidence[z].candidates
               /\ evidence'[z].accepted = evidence[z].accepted
               /\ evidence'[z].rejected = evidence[z].rejected
               /\ evidence[z].truncated => evidence'[z].truncated
               /\ z = zone => evidence'[z].truncated
    BY <1>1, <1>5 DEF Truncated
  <2>3. ASSUME NEW z \in Zones
        PROVE  z < zone' => z < zone \/ evidence'[z].truncated
                              \/ (Stitches(z) => Examined(z) = 0..(Candidates(z) - 1))
    BY <1>2, <2>2
  <2>4. evidence' \in [Zones -> Entries]
    BY <1>1, <1>5, <2>1
  <2> QED
    BY <1>1, <1>3, <2>2, <2>3, <2>4, NoTryKeeps
<1> QED
  BY <1>4, <1>5 DEF EndZone

(* The steps that leave vias, evidence and zone alone.                      *)
LEMMA StitchStutter ==
  ASSUME StitchInv, UNCHANGED <<board, zone, stitched, evidence>>,
         step' = step \/ step' = "InvalidSourceModel"
           \/ (step' # "asked" /\ \A z \in Zones : ValidZone(z))
  PROVE  StitchInv'
<1>1. /\ evidence' \in [Zones -> Entries] /\ zone' \in Nat \ {0} /\ zone' = zone
      /\ board' = board /\ stitched' = stitched /\ evidence' = evidence
  BY DEF StitchInv, StitchType
<1>2. step' # "asked" \/ UNCHANGED <<step, zone, evidence>>
  OBVIOUS
<1>3. step' \notin {"asked", "InvalidSourceModel"} => \A z \in Zones : ValidZone(z)
  BY DEF StitchInv, StitchType
<1> QED
  BY <1>1, <1>2, <1>3, NoTryKeeps

LEMMA StitchInvHolds == PourSpec => []StitchInv
<1>1. PourInit => StitchInv
  BY BeginsTrue
<1>2. ASSUME StitchInv, [PourNextStep]_pourVars PROVE StitchInv'
  <2>1. CASE TryCandidate
    BY <1>2, <2>1, TryCandidateKeeps
  <2>2. CASE EndZone
    BY <1>2, <2>2, EndZoneKeeps
  <2>3. CASE RefuseModel \/ BeginStitching
    BY <1>2, <2>3, StitchStutter DEF RefuseModel, BeginStitching
  <2>4. CASE LayCopper \/ PourNext \/ Report
    <3>1. step \notin {"asked", "InvalidSourceModel"} /\ step' \in {"pouring", "done"}
          /\ UNCHANGED <<board, zone, stitched, evidence>>
      BY <2>4 DEF LayCopper, PourNext, Report
    <3> QED
      BY <1>2, <3>1, StitchStutter DEF StitchInv, StitchType
  <2>5. CASE ReportStands \/ UNCHANGED pourVars
    BY <1>2, <2>5, StitchStutter DEF ReportStands, pourVars
  <2> QED
    BY <1>2, <2>1, <2>2, <2>3, <2>4, <2>5 DEF PourNextStep
<1> QED
  BY <1>1, <1>2, PTL DEF PourSpec

(* A stitching via has its clearances when it is put and keeps them, and   *)
(* the evidence of a zone is what became of its grid, whatever the board.  *)
THEOREM StitchesAreTrueAlways == PourSpec => []StitchesAreTrue
<1>1. StitchInv => StitchesAreTrue
  BY StitchInvIsTrue
<1> QED
  BY <1>1, StitchInvHolds, PTL

-----------------------------------------------------------------------------
(* Islands.  A region is closed in another if it takes what it touches.    *)
Grounds == Int \X Int
IsClosedIn(part, region) ==
  \A p \in part : \A q \in region : q \in Neighbours(p) => q \in part
(* Islands are the smallest parts of a region that are closed in it.       *)
Separate(region, islands) ==
  /\ \A island \in islands : island # {} /\ island \subseteq region /\ IsClosedIn(island, region)
  /\ \A p \in region : \E island \in islands : p \in island
  /\ \A a, b \in islands : a \cap b # {} => a = b
  /\ \A island \in islands : \A part \in SUBSET region :
       IsClosedIn(part, region) /\ part \cap island # {} => island \subseteq part

(* Cells are neighbours of each other.                                     *)
LEMMA NeighboursAreMutual ==
  ASSUME NEW p \in Grounds, NEW q \in Grounds, q \in Neighbours(p)
  PROVE  p \in Neighbours(q)
<1> DEFINE ways == {<<-1, 0>>, <<1, 0>>, <<0, -1>>, <<0, 1>>}
<1>1. PICK way \in ways : q = Moved(p, way)
  BY DEF Neighbours
<1>2. /\ p[1] \in Int /\ p[2] \in Int /\ p = <<p[1], p[2]>>
      /\ q[1] \in Int /\ q[2] \in Int /\ q = <<q[1], q[2]>>
  BY DEF Grounds
<1>3. q[1] = p[1] + way[1] /\ q[2] = p[2] + way[2]
  BY <1>1 DEF Moved
<1>4. PICK back \in ways : back[1] = 0 - way[1] /\ back[2] = 0 - way[2]
  <2>1. CASE way = <<-1, 0>>
    <3>1. <<1, 0>> \in ways /\ <<1, 0>>[1] = 0 - way[1] /\ <<1, 0>>[2] = 0 - way[2]
      BY <2>1
    <3> QED BY <3>1, Zenon
  <2>2. CASE way = <<1, 0>>
    <3>1. <<-1, 0>> \in ways /\ <<-1, 0>>[1] = 0 - way[1] /\ <<-1, 0>>[2] = 0 - way[2]
      BY <2>2
    <3> QED BY <3>1, Zenon
  <2>3. CASE way = <<0, -1>>
    <3>1. <<0, 1>> \in ways /\ <<0, 1>>[1] = 0 - way[1] /\ <<0, 1>>[2] = 0 - way[2]
      BY <2>3
    <3> QED BY <3>1, Zenon
  <2>4. CASE way = <<0, 1>>
    <3>1. <<0, -1>> \in ways /\ <<0, -1>>[1] = 0 - way[1] /\ <<0, -1>>[2] = 0 - way[2]
      BY <2>4
    <3> QED BY <3>1, Zenon
  <2> QED BY <1>1, <2>1, <2>2, <2>3, <2>4
<1>5. way[1] \in Int /\ way[2] \in Int
  BY <1>1
<1>6. p[1] = q[1] + back[1] /\ p[2] = q[2] + back[2]
  BY <1>2, <1>3, <1>4, <1>5
<1>7. Moved(q, back) = <<p[1], p[2]>>
  BY <1>6 DEF Moved
<1> QED
  BY <1>2, <1>4, <1>7, Zenon DEF Neighbours

(* One more cell: the islands it touches become one with it.               *)
LEMMA JoinedStaysSeparate ==
  ASSUME NEW s \in SUBSET Grounds, NEW p \in s, NEW islands, Separate(s \ {p}, islands)
  PROVE  Separate(s, Joined(p, islands))
<1> DEFINE rest == s \ {p}
           touched == {island \in islands : island \cap Neighbours(p) # {}}
           whole == (UNION touched) \cup {p}
<1>0. Joined(p, islands) = (islands \ touched) \cup {whole}
  BY Zenon DEF Joined
<1>1. /\ \A island \in islands : /\ island # {} /\ island \subseteq rest
                                 /\ IsClosedIn(island, rest)
      /\ \A q \in rest : \E island \in islands : q \in island
      /\ \A a, b \in islands : a \cap b # {} => a = b
      /\ \A island \in islands : \A part \in SUBSET rest :
           IsClosedIn(part, rest) /\ part \cap island # {} => island \subseteq part
  BY Zenon DEF Separate
<1>2. \A q \in s : p \in Neighbours(q) => q \in Neighbours(p)
  BY NeighboursAreMutual
<1>3. \A q \in s : q \in Neighbours(p) => p \in Neighbours(q)
  BY NeighboursAreMutual
<1>4. ASSUME NEW island \in islands \ touched
      PROVE  island # {} /\ island \subseteq s /\ IsClosedIn(island, s)
  <2>1. \A q \in island : p \notin Neighbours(q)
    BY <1>1, <1>2, <1>4
  <2> QED
    BY <1>1, <1>4, <2>1 DEF IsClosedIn
<1>5. whole # {} /\ whole \subseteq s
  BY <1>1
<1>6. IsClosedIn(whole, s)
  <2> SUFFICES ASSUME NEW x \in whole, NEW q \in s, q \in Neighbours(x), q # p
               PROVE  q \in whole
    BY DEF IsClosedIn
  <2>0. q \in rest
    OBVIOUS
  <2>1. CASE x = p
    <3>1. PICK island \in islands : q \in island
      BY <1>1, <2>0
    <3> QED BY <2>1, <3>1
  <2>2. CASE x # p
    <3>1. PICK island \in touched : x \in island
      BY <2>2
    <3>2. q \in island
      BY <1>1, <2>0, <3>1 DEF IsClosedIn
    <3> QED BY <3>1, <3>2
  <2> QED BY <2>1, <2>2
<1>7. \A q \in s : \E island \in (islands \ touched) \cup {whole} : q \in island
  <2> SUFFICES ASSUME NEW q \in s, q # p
               PROVE  \E island \in (islands \ touched) \cup {whole} : q \in island
    OBVIOUS
  <2>1. PICK island \in islands : q \in island
    BY <1>1
  <2> QED BY <2>1
<1>8. \A a \in islands \ touched : a \cap whole = {}
  <2> SUFFICES ASSUME NEW a \in islands \ touched, NEW q \in a, q \in whole
               PROVE  FALSE
    OBVIOUS
  <2>1. q # p
    BY <1>1
  <2>2. PICK b \in touched : q \in b
    BY <2>1
  <2>3. a \cap b # {} /\ b \in islands
    BY <2>2
  <2> QED BY <1>1, <2>2, <2>3, Zenon
<1>9. \A a, b \in (islands \ touched) \cup {whole} : a \cap b # {} => a = b
  <2> HIDE DEF whole, touched
  <2> QED BY <1>1, <1>8
<1>10. ASSUME NEW part \in SUBSET s, IsClosedIn(part, s)
       PROVE  /\ part \ {p} \in SUBSET rest
              /\ IsClosedIn(part \ {p}, rest)
  BY <1>10 DEF IsClosedIn
<1>11. ASSUME NEW part \in SUBSET s, IsClosedIn(part, s),
              NEW island \in islands, part \cap island # {}
       PROVE  island \subseteq part
  <2>1. (part \ {p}) \cap island # {}
    BY <1>1, <1>11
  <2>2. part \ {p} \in SUBSET rest /\ IsClosedIn(part \ {p}, rest)
    BY <1>10, <1>11
  <2>3. island \subseteq part \ {p}
    <3> DEFINE less == part \ {p}
    <3>1. less \in SUBSET rest /\ IsClosedIn(less, rest) /\ less \cap island # {}
      BY <2>1, <2>2, Zenon
    <3>2. \A k \in islands : \A q \in SUBSET rest :
            IsClosedIn(q, rest) /\ q \cap k # {} => k \subseteq q
      BY <1>1, Zenon
    <3> HIDE DEF less, rest
    <3>3. island \subseteq less
      BY <3>1, <3>2, Zenon
    <3> QED BY <3>3 DEF less
  <2> QED BY <2>3
<1>12. ASSUME NEW part \in SUBSET s, IsClosedIn(part, s), part \cap whole # {}
       PROVE  whole \subseteq part
  <2>1. p \in part
    <3> SUFFICES ASSUME p \notin part PROVE FALSE
      OBVIOUS
    <3>1. PICK q \in part : q \in whole
      BY <1>12
    <3>2. PICK island \in touched : q \in island
      BY <3>1
    <3>3. island \subseteq part
      BY <1>11, <1>12, <3>1, <3>2
    <3>4. PICK y \in island : y \in Neighbours(p)
      BY <3>2
    <3>5. y \in s /\ y \in part
      BY <3>3, <3>4
    <3>6. p \in Neighbours(y)
      BY <1>3, <3>4, <3>5
    <3> QED BY <1>12, <3>5, <3>6 DEF IsClosedIn
  <2>2. ASSUME NEW island \in touched PROVE island \subseteq part
    <3>1. PICK y \in island : y \in Neighbours(p)
      OBVIOUS
    <3>2. y \in s
      BY <1>1, <3>1
    <3>3. y \in part
      BY <1>12, <2>1, <3>1, <3>2 DEF IsClosedIn
    <3> QED BY <1>11, <1>12, <3>1, <3>3
  <2> QED BY <2>1, <2>2
<1>13. \A island \in (islands \ touched) \cup {whole} :
         /\ island # {} /\ island \subseteq s /\ IsClosedIn(island, s)
         /\ \A part \in SUBSET s :
              IsClosedIn(part, s) /\ part \cap island # {} => island \subseteq part
  <2> HIDE DEF whole, touched
  <2> QED BY <1>4, <1>5, <1>6, <1>11, <1>12, Zenon
<1> HIDE DEF whole, touched
<1>14. Separate(s, (islands \ touched) \cup {whole})
  BY <1>7, <1>9, <1>13, Zenon DEF Separate
<1> QED
  BY <1>0, <1>14

(* The islands of a region of finitely many cells.                         *)
LEMMA IslandsAreSeparate ==
  ASSUME NEW region \in SUBSET Grounds, IsFiniteSet(region)
  PROVE  Separate(region, Islands(region))
<1> DEFINE T == SUBSET (SUBSET region)
           pick == [s \in SUBSET region |-> CHOOSE x \in s : TRUE]
           op == [x \in region |-> [islands \in T |-> Joined(x, islands)]]
           Folds(it) == it = [s \in SUBSET region |-> IF s = {} THEN {}
                                ELSE Joined(CHOOSE x \in s : TRUE, it[s \ {CHOOSE x \in s : TRUE}])]
<1>1. \A s \in SUBSET region : s # {} => pick[s] \in s /\ pick[s] = CHOOSE x \in s : TRUE
  BY Zenon
<1>2. \A x \in region, islands \in T : Joined(x, islands) \in T
  BY DEF Joined
<1>3. op \in [region -> [T -> T]]
  BY <1>2
<1>4. \A x \in region, islands \in T : op[x][islands] = Joined(x, islands)
  BY Zenon
<1>5. PICK it \in [SUBSET region -> T] : IsFold(it, region, {}, pick, op)
  <2> HIDE DEF pick, op
  <2>1. \A s \in SUBSET region : s # {} => pick[s] \in s
    BY <1>1
  <2>2. {} \in T
    OBVIOUS
  <2>3. CanFold(region, T, {}, pick, op)
    BY <1>3, <2>1, <2>2, Zenon DEF CanFold
  <2> QED
    BY <2>3, FoldExists
<1>6. Folds(it)
  <2> SUFFICES ASSUME NEW s \in SUBSET region
               PROVE  it[s] = IF s = {} THEN {}
                              ELSE Joined(CHOOSE x \in s : TRUE, it[s \ {CHOOSE x \in s : TRUE}])
    BY <1>5, Zenon DEF IsFold
  <2>1. CASE s = {}
    BY <1>5, <2>1, Zenon DEF IsFold
  <2>2. CASE s # {}
    <3>1. it[s] = op[pick[s]][it[s \ {pick[s]}]]
      BY <1>5, <2>2, Zenon DEF IsFold
    <3>2. it[s \ {pick[s]}] \in T /\ pick[s] \in region
      <4> HIDE DEF pick, T
      <4>1. pick[s] \in region /\ s \ {pick[s]} \in SUBSET region
        BY <1>1, <2>2
      <4> QED
        BY <1>5, <4>1
    <3>3. it[s] = Joined(pick[s], it[s \ {pick[s]}])
      BY <3>1, <3>2, <1>4, Zenon
    <3> QED
      BY <3>3, <1>1, <2>2, Zenon
  <2> QED
    BY <2>1, <2>2
<1>7. Folds(CHOOSE f : Folds(f))
  <2> HIDE DEF Folds
  <2> QED
    BY <1>6, Zenon
<1> DEFINE chosen == CHOOSE f : Folds(f)
           good == [s \in SUBSET region |-> {islands \in T : Separate(s, islands)}]
<1>8. Folds(chosen)
  <2> HIDE DEF Folds
  <2> QED
    BY <1>7, Zenon
<1> HIDE DEF chosen
<1>9. chosen[{}] = {}
  BY <1>8, Zenon
<1>10. chosen[{}] \in good[{}]
  <2>1. {} \in T /\ {} \in SUBSET region /\ Separate({}, {})
    BY DEF Separate
  <2> QED
    BY <1>9, <2>1, Zenon
<1>11. ASSUME NEW s \in SUBSET region, s # {}, chosen[s \ {pick[s]}] \in good[s \ {pick[s]}]
       PROVE  chosen[s] \in good[s]
  <2> DEFINE x == CHOOSE y \in s : TRUE
             before == chosen[s \ {x}]
  <2>1. pick[s] = x /\ x \in s /\ x \in region /\ s \ {x} \in SUBSET region
    BY <1>1, <1>11, Zenon
  <2>2. chosen[s] = Joined(x, before)
    BY <1>8, <1>11, Zenon
  <2>3. good[s \ {x}] = {islands \in T : Separate(s \ {x}, islands)}
    BY <2>1, Zenon
  <2>4. before \in good[s \ {x}]
    BY <1>11, <2>1, Zenon
  <2> HIDE DEF pick, x, before, good
  <2>5. before \in T /\ Separate(s \ {x}, before)
    BY <2>3, <2>4, Zenon
  <2>6. Joined(x, before) \in T
    BY <1>2, <2>1, <2>5
  <2>7. s \in SUBSET Grounds
    OBVIOUS
  <2>8. Separate(s, Joined(x, before))
    BY <2>1, <2>5, <2>7, JoinedStaysSeparate, Zenon
  <2> QED
    BY <2>2, <2>6, <2>8, Zenon DEF good
<1>12. KeepsIn(chosen, region, good, pick)
  <2> HIDE DEF pick, good
  <2> QED
    BY <1>1, <1>10, <1>11, Zenon DEF KeepsIn
<1>13. chosen[region] \in good[region]
  <2> HIDE DEF pick, good
  <2> QED
    BY <1>12, FoldKeeps
<1>14. Islands(region) = chosen[region]
  BY Zenon DEF Islands, FoldSet, MapThenFoldSet, chosen
<1> QED
  BY <1>13, <1>14, Zenon

(* Finitely many finite sets have finitely many members.                   *)
LEMMA FamilyIsFinite ==
  ASSUME NEW S, IsFiniteSet(S), NEW F, \A x \in S : IsFiniteSet(F[x])
  PROVE  IsFiniteSet(UNION {F[x] : x \in S})
<1> DEFINE sets == {F[x] : x \in S}
<1>1. IsFiniteSet(sets)
  BY ImageIsFinite
<1>2. \A T \in sets : IsFiniteSet(T)
  OBVIOUS
<1> HIDE DEF sets
<1>3. IsFiniteSet(UNION sets)
  BY <1>1, <1>2, FS_UNION
<1> QED
  BY <1>3 DEF sets

(* The cells of a box, of a disc's way, of a placed box.                   *)
IsFiniteRegion(region) == region \in SUBSET Grounds /\ IsFiniteSet(region)

LEMMA FilledIsFinite ==
  ASSUME NEW box, IsBox(box)
  PROVE  IsFiniteRegion(Filled(box))
<1>1. PICK a \in Int, b \in Int, c \in Int, d \in Int :
        a = box.low[1] /\ b = box.high[1] - 1 /\ c = box.low[2] /\ d = box.high[2] - 1
  BY DEF IsBox, IsPoint
<1>2. IsFiniteSet(a..b) /\ IsFiniteSet(c..d)
  BY FS_Interval
<1>3. IsFiniteSet((a..b) \X (c..d)) /\ (a..b) \X (c..d) \subseteq Grounds
  BY <1>2, FS_Product DEF Grounds
<1> QED
  BY <1>1, <1>3 DEF Filled, IsFiniteRegion

LEMMA PartIsFinite ==
  ASSUME NEW region, IsFiniteRegion(region), NEW part, part \subseteq region
  PROVE  IsFiniteRegion(part)
BY FS_Subset DEF IsFiniteRegion

LEMMA SweptIsFinite ==
  ASSUME NEW line, IsBox(line), NEW radius \in Int
  PROVE  IsFiniteRegion(Swept(line, radius))
<1>1. IsBox(Grown(line, radius))
  BY DEF IsBox, IsPoint, Grown, Moved
<1> QED
  BY <1>1, FilledIsFinite, PartIsFinite DEF Swept

LEMMA AroundIsBox ==
  ASSUME NEW points \in SUBSET Grounds, points # {}, IsFiniteSet(points)
  PROVE  IsBox(Around(points))
<1> DEFINE S(k) == {p[k] : p \in points}
<1>1. ASSUME NEW k \in {1, 2} PROVE Min(S(k)) \in Int /\ Max(S(k)) \in Int
  <2>1. S(k) \subseteq Int /\ S(k) # {}
    BY <1>1 DEF Grounds
  <2>2. IsFiniteSet(S(k))
    <3> DEFINE f == [p \in points |-> p[k]]
    <3>1. S(k) = {f[p] : p \in points}
      OBVIOUS
    <3> HIDE DEF f, S
    <3>2. IsFiniteSet({f[p] : p \in points})
      BY ImageIsFinite
    <3> QED
      BY <3>1, <3>2
  <2> HIDE DEF S
  <2> QED
    BY <2>1, <2>2, MinMaxOfFinite
<1>2. Around(points) = [low |-> <<Min(S(1)), Min(S(2))>>, high |-> <<Max(S(1)), Max(S(2))>>]
  BY DEF Around
<1> HIDE DEF S
<1>3. Min(S(1)) \in Int /\ Max(S(1)) \in Int /\ Min(S(2)) \in Int /\ Max(S(2)) \in Int
  BY <1>1
<1> QED
  BY <1>2, <1>3 DEF IsBox, IsPoint

LEMMA OntoIsPoint ==
  ASSUME NEW place, IsPoint(place.at), place.turn \in 0..3, NEW p \in Grounds
  PROVE  Onto(place, p) \in Grounds
<1> DEFINE q == IF place.side = "Back" THEN <<-p[1], p[2]>> ELSE p
<1>1. q[1] \in Int /\ q[2] \in Int
  BY DEF Grounds
<1>2. Onto(place, p) = Moved(Turned(q, place.turn), place.at)
  BY DEF Onto
<1> HIDE DEF q
<1>3. Turned(q, place.turn)[1] \in Int /\ Turned(q, place.turn)[2] \in Int
  <2>1. \/ place.turn = 0 \/ place.turn = 1 \/ place.turn = 2 \/ place.turn = 3
    OBVIOUS
  <2> QED
    BY <1>1, <2>1 DEF Turned
<1>4. place.at[1] \in Int /\ place.at[2] \in Int
  BY DEF IsPoint
<1> QED
  BY <1>2, <1>3, <1>4 DEF Moved, Grounds

LEMMA PlacedBoxIsBox ==
  ASSUME NEW place, IsPoint(place.at), place.turn \in 0..3, NEW box, IsBox(box)
  PROVE  IsBox(PlacedBox(place, box))
<1> DEFINE onto == [p \in Corners(box) |-> Onto(place, p)]
           points == {onto[p] : p \in Corners(box)}
<1>1. Corners(box) \subseteq Grounds /\ <<box.low[1], box.low[2]>> \in Corners(box)
  BY DEF Corners, IsBox, IsPoint, Grounds
<1>2. IsFiniteSet(Corners(box))
  <2>1. \A a, b, c, d : IsFiniteSet({a, b, c, d})
    <3> SUFFICES ASSUME NEW a, NEW b, NEW c, NEW d
                 PROVE  IsFiniteSet({a, b, c, d})
      OBVIOUS
    <3>1. IsFiniteSet({a}) /\ IsFiniteSet({b}) /\ IsFiniteSet({c}) /\ IsFiniteSet({d})
      BY FS_Singleton
    <3>2. IsFiniteSet({a} \cup {b}) /\ IsFiniteSet({c} \cup {d})
      BY <3>1, FS_Union
    <3>3. IsFiniteSet(({a} \cup {b}) \cup ({c} \cup {d}))
      BY <3>2, FS_Union
    <3>4. ({a} \cup {b}) \cup ({c} \cup {d}) = {a, b, c, d}
      OBVIOUS
    <3> QED
      BY <3>3, <3>4
  <2> QED
    BY <2>1, Zenon DEF Corners
<1>3. points = {Onto(place, p) : p \in Corners(box)}
  BY Zenon
<1>4. points \subseteq Grounds /\ points # {}
  BY <1>1, <1>3, OntoIsPoint
<1>5. IsFiniteSet(points)
  <2> HIDE DEF onto
  <2> QED
    BY <1>2, ImageIsFinite
<1> HIDE DEF points
<1> QED
  BY <1>3, <1>4, <1>5, AroundIsBox DEF PlacedBox

(* What there is before the zones: finitely many features of finitely many *)
(* cells, none of them a zone.                                             *)
AreFixed(features) ==
  /\ IsFiniteSet(features)
  /\ \A f \in features : IsFiniteRegion(f.region) /\ f.kind # "Zone"

LEMMA ManyAreFixed ==
  ASSUME NEW S, IsFiniteSet(S), NEW F, \A x \in S : AreFixed(F[x])
  PROVE  AreFixed(UNION {F[x] : x \in S})
BY FamilyIsFinite DEF AreFixed

LEMMA PadsAreFixed ==
  ASSUME NEW i, IsPlacedItem(board.items[i])
  PROVE  AreFixed(PadFeatures(i))
<1> DEFINE item == board.items[i]
           pads == item.pads
           made(p, layer) ==
             Feature(<<"pad", i, p>>, pads[p].net, PlacedLayer(layer, item.place.side), "Pad",
                     Onto(item.place, pads[p].at), Filled(PlacedBox(item.place, PadShape(pads[p]))))
           on == [p \in DOMAIN pads |-> [layer \in pads[p].layers |-> made(p, layer)]]
           of == [p \in DOMAIN pads |-> {on[p][layer] : layer \in pads[p].layers}]
<1>1. /\ IsPoint(item.place.at) /\ item.place.turn \in 0..3 /\ pads \in Seq(Range(pads))
      /\ \A p \in DOMAIN pads : IsPoint(pads[p].at) /\ IsPoint(pads[p].half)
                               /\ IsFiniteSet(pads[p].layers)
  BY DEF IsPlacedItem, Range
<1>2. IsFiniteSet(DOMAIN pads)
  BY <1>1, PlacesAreFinite
<1>3. ASSUME NEW p \in DOMAIN pads
      PROVE  IsFiniteRegion(Filled(PlacedBox(item.place, PadShape(pads[p]))))
  <2>1. IsBox(PadShape(pads[p]))
    <3> DEFINE at == pads[p].at
               half == pads[p].half
    <3>1. at[1] \in Int /\ at[2] \in Int /\ half[1] \in Int /\ half[2] \in Int
      BY <1>1 DEF IsPoint
    <3>2. PadShape(pads[p]) = [low |-> <<at[1] + -half[1], at[2] + -half[2]>>,
                               high |-> <<at[1] + half[1], at[2] + half[2]>>]
      BY DEF PadShape, Moved
    <3> HIDE DEF at, half
    <3> QED
      BY <3>1, <3>2 DEF IsBox, IsPoint
  <2> QED
    BY <1>1, <2>1, PlacedBoxIsBox, FilledIsFinite
<1>4. ASSUME NEW p \in DOMAIN pads
      PROVE  of[p] = {made(p, layer) : layer \in pads[p].layers}
  BY Zenon
<1>5. ASSUME NEW p \in DOMAIN pads PROVE AreFixed(of[p])
  <2>1. IsFiniteSet(of[p])
    <3>1. of[p] = {on[p][layer] : layer \in pads[p].layers}
      BY Zenon
    <3>2. IsFiniteSet(pads[p].layers)
      BY <1>1
    <3> HIDE DEF on, of, pads
    <3>3. IsFiniteSet({on[p][layer] : layer \in pads[p].layers})
      BY <3>2, ImageIsFinite
    <3> QED
      BY <3>1, <3>3
  <2>2. \A f \in of[p] : /\ f.region = Filled(PlacedBox(item.place, PadShape(pads[p])))
                         /\ f.kind = "Pad"
    <3>1. \A layer : /\ made(p, layer).region = Filled(PlacedBox(item.place, PadShape(pads[p])))
                     /\ made(p, layer).kind = "Pad"
      BY DEF Feature
    <3> HIDE DEF made, of
    <3> QED
      BY <1>4, <3>1
  <2> HIDE DEF of, item
  <2> QED
    BY <1>3, <2>1, <2>2 DEF AreFixed
<1>6. PadFeatures(i) = UNION {of[p] : p \in DOMAIN pads}
  <2>1. PadFeatures(i) = UNION {{made(p, layer) : layer \in pads[p].layers} : p \in DOMAIN pads}
    BY Zenon DEF PadFeatures
  <2>2. {of[p] : p \in DOMAIN pads} = {{made(p, layer) : layer \in pads[p].layers} : p \in DOMAIN pads}
    <3> HIDE DEF of, made, pads
    <3> QED
      BY <1>4
  <2> QED
    BY <2>1, <2>2
<1> HIDE DEF of, pads
<1>7. AreFixed(UNION {of[p] : p \in DOMAIN pads})
  BY <1>2, <1>5, ManyAreFixed
<1> QED
  BY <1>6, <1>7

LEMMA ArtworkIsFixed ==
  ASSUME NEW i, IsPlacedItem(board.items[i])
  PROVE  AreFixed(ArtworkFeatures(i))
<1> DEFINE item == board.items[i]
           shapes == item.artwork
           made == [g \in DOMAIN shapes |->
                      Feature(<<"graphic", i, g>>, "None", PlacedLayer(shapes[g].layer, item.place.side),
                              "Artwork", item.place.at, Filled(PlacedBox(item.place, shapes[g].box)))]
<1>1. /\ IsPoint(item.place.at) /\ item.place.turn \in 0..3 /\ shapes \in Seq(Range(shapes))
      /\ \A g \in DOMAIN shapes : IsBox(shapes[g].box)
  BY DEF IsPlacedItem, Range
<1>2. IsFiniteSet(DOMAIN shapes)
  BY <1>1, PlacesAreFinite
<1>3. ASSUME NEW g \in DOMAIN shapes
      PROVE  made[g].kind # "Zone" /\ IsFiniteRegion(made[g].region)
  <2>1. made[g].kind = "Artwork" /\ made[g].region = Filled(PlacedBox(item.place, shapes[g].box))
    BY DEF Feature
  <2>2. IsFiniteRegion(Filled(PlacedBox(item.place, shapes[g].box)))
    BY <1>1, PlacedBoxIsBox, FilledIsFinite
  <2> QED
    BY <2>1, <2>2
<1>4. ArtworkFeatures(i) = {made[g] : g \in DOMAIN shapes}
  BY Zenon DEF ArtworkFeatures
<1> HIDE DEF made, shapes
<1>5. IsFiniteSet({made[g] : g \in DOMAIN shapes})
  BY <1>2, ImageIsFinite
<1> QED
  BY <1>3, <1>4, <1>5 DEF AreFixed

LEMMA RouteIsFixed ==
  ASSUME NEW r, IsTrack(board.routes[r])
  PROVE  RouteFeature(r).kind # "Zone" /\ IsFiniteRegion(RouteFeature(r).region)
<1> DEFINE route == board.routes[r]
           swept == [line \in Range(route.lines) |-> Swept(line, route.half)]
<1>1. /\ route.half \in Int /\ route.lines \in Seq(Range(route.lines))
      /\ \A line \in Range(route.lines) : IsBox(line)
  BY DEF IsTrack
<1>2. IsFiniteSet(Range(route.lines))
  BY <1>1, PlacesAreFinite
<1>3. \A line \in Range(route.lines) : IsFiniteRegion(swept[line])
  BY <1>1, SweptIsFinite
<1>4. RouteFeature(r).kind = "Route"
      /\ RouteFeature(r).region = UNION {Swept(line, route.half) : line \in Range(route.lines)}
  BY DEF RouteFeature, Feature
<1>5. {Swept(line, route.half) : line \in Range(route.lines)}
        = {swept[line] : line \in Range(route.lines)}
  BY Zenon
<1> HIDE DEF swept, route
<1>6. IsFiniteSet(UNION {swept[line] : line \in Range(route.lines)})
  BY <1>2, <1>3, FamilyIsFinite DEF IsFiniteRegion
<1>7. UNION {swept[line] : line \in Range(route.lines)} \subseteq Grounds
  BY <1>3 DEF IsFiniteRegion
<1> QED
  BY <1>4, <1>5, <1>6, <1>7 DEF IsFiniteRegion

LEMMA ViaIsFixed ==
  ASSUME NEW via, IsPourVia(via)
  PROVE  AreFixed(ViaFeatures(via))
<1> DEFINE made == [layer \in (via.first)..(via.last) |->
                      Feature(<<"via", via.id>>, via.net, layer, "Via", via.at,
                              Swept(Point(via.at), via.land))]
<1>1. IsPoint(via.at) /\ via.land \in Int /\ via.first \in Int /\ via.last \in Int
  BY DEF IsPourVia
<1>2. IsFiniteSet((via.first)..(via.last))
  BY <1>1, IntervalIsFinite
<1>3. IsFiniteRegion(Swept(Point(via.at), via.land))
  <2>1. IsBox(Point(via.at))
    BY <1>1 DEF IsBox, Point
  <2> QED
    BY <1>1, <2>1, SweptIsFinite
<1>4. ViaFeatures(via) = {made[layer] : layer \in (via.first)..(via.last)}
  BY Zenon DEF ViaFeatures
<1>5. \A f \in ViaFeatures(via) : f.kind = "Via" /\ f.region = Swept(Point(via.at), via.land)
  BY DEF ViaFeatures, Feature
<1> HIDE DEF made
<1>6. IsFiniteSet({made[layer] : layer \in (via.first)..(via.last)})
  BY <1>2, ImageIsFinite
<1> QED
  BY <1>3, <1>4, <1>5, <1>6 DEF AreFixed

LEMMA FixedFeaturesAreFinite ==
  ASSUME IsPourBoard(board), stitched \in Seq(Possible), \A via \in Range(stitched) : IsPourVia(via)
  PROVE  AreFixed(FixedFeatures)
<1> DEFINE ofItems == DOMAIN board.items
           ofRoutes == DOMAIN board.routes
           vias == Range(board.vias) \cup Range(stitched)
           onItem == [i \in ofItems |-> PadFeatures(i) \cup ArtworkFeatures(i)]
           ofRoute == [r \in ofRoutes |-> RouteFeature(r)]
           ofVia == [via \in vias |-> ViaFeatures(via)]
<1>1. /\ board.items \in Seq(Range(board.items)) /\ \A i \in ofItems : IsPlacedItem(board.items[i])
      /\ board.routes \in Seq(Range(board.routes)) /\ \A r \in ofRoutes : IsTrack(board.routes[r])
      /\ board.vias \in Seq(Range(board.vias)) /\ \A via \in vias : IsPourVia(via)
  BY DEF IsPourBoard, Range
<1>2. IsFiniteSet(ofItems) /\ IsFiniteSet(ofRoutes)
  BY <1>1, PlacesAreFinite
<1>3. IsFiniteSet(vias)
  <2>1. IsFiniteSet(Range(board.vias)) /\ IsFiniteSet(Range(stitched))
    BY <1>1, PlacesAreFinite
  <2> QED
    BY <2>1, FS_Union
<1>4. \A i \in ofItems : AreFixed(onItem[i])
  <2> SUFFICES ASSUME NEW i \in ofItems PROVE AreFixed(PadFeatures(i) \cup ArtworkFeatures(i))
    BY Zenon
  <2>1. AreFixed(PadFeatures(i)) /\ AreFixed(ArtworkFeatures(i))
    BY <1>1, PadsAreFixed, ArtworkIsFixed
  <2> QED
    BY <2>1, FS_Union DEF AreFixed
<1>5. \A via \in vias : AreFixed(ofVia[via])
  <2> SUFFICES ASSUME NEW via \in vias PROVE AreFixed(ViaFeatures(via))
    BY Zenon
  <2> HIDE DEF vias
  <2> QED
    BY <1>1, ViaIsFixed
<1>6. AreFixed({ofRoute[r] : r \in ofRoutes})
  <2>1. \A r \in ofRoutes : ofRoute[r].kind # "Zone" /\ IsFiniteRegion(ofRoute[r].region)
    BY <1>1, RouteIsFixed
  <2> HIDE DEF ofRoute, ofRoutes
  <2>2. IsFiniteSet({ofRoute[r] : r \in ofRoutes})
    BY <1>2, ImageIsFinite
  <2> QED
    BY <2>1, <2>2 DEF AreFixed
<1>7. FixedFeatures = (UNION {onItem[i] : i \in ofItems}) \cup {ofRoute[r] : r \in ofRoutes}
                        \cup (UNION {ofVia[via] : via \in vias})
  <2>1. {onItem[i] : i \in ofItems} = {PadFeatures(i) \cup ArtworkFeatures(i) : i \in ofItems}
    BY Zenon
  <2>2. {ofRoute[r] : r \in ofRoutes} = {RouteFeature(r) : r \in ofRoutes}
    BY Zenon
  <2>3. {ofVia[via] : via \in vias} = {ViaFeatures(via) : via \in vias}
    BY Zenon
  <2> HIDE DEF onItem, ofRoute, ofVia
  <2> QED
    BY <2>1, <2>2, <2>3, Zenon DEF FixedFeatures
<1> HIDE DEF ofItems, ofRoutes, vias, onItem, ofRoute, ofVia
<1>8. AreFixed(UNION {onItem[i] : i \in ofItems}) /\ AreFixed(UNION {ofVia[via] : via \in vias})
  BY <1>2, <1>3, <1>4, <1>5, ManyAreFixed
<1>9. \A a, b : AreFixed(a) /\ AreFixed(b) => AreFixed(a \cup b)
  BY FS_Union DEF AreFixed
<1> QED
  BY <1>6, <1>7, <1>8, <1>9, Zenon

-----------------------------------------------------------------------------
(* Every part of a net's copper on a layer that is closed in it holds some *)
(* that is no zone's.                                                      *)
CopperIn(features, net, layer) == {f \in features : f.net = net /\ f.layer = layer}
RegionIn(features, net, layer) == UNION {f.region : f \in CopperIn(features, net, layer)}
Anchored(features, net, layer) ==
  LET region == RegionIn(features, net, layer)
  IN \A part \in SUBSET region :
       part # {} /\ IsClosedIn(part, region) =>
         \E f \in CopperIn(features, net, layer) : f.kind # "Zone" /\ f.region \cap part # {}
DropsAll(b, net) ==
  \A z \in DOMAIN b.zones : b.zones[z].net = net =>
    b.zones[z].islands.remove /\ b.zones[z].islands.minimum = << >>
AnchorInv ==
  /\ \A via \in Range(stitched) : IsPourVia(via)
  /\ IsFiniteSet(copper) /\ \A f \in copper : IsFiniteRegion(f.region)
  /\ \A z \in DOMAIN board.zones : DropsAll(board, board.zones[z].net) =>
       Anchored(copper, board.zones[z].net, board.zones[z].layer)

LEMMA FixedAreAnchored ==
  ASSUME NEW features, AreFixed(features), NEW net, NEW layer
  PROVE  Anchored(features, net, layer)
BY DEF AreFixed, Anchored, RegionIn, CopperIn

(* A zone whose net keeps nothing loose hangs each of its pieces on what    *)
(* there was before.                                                       *)
LEMMA PourIsAnchored ==
  ASSUME NEW w \in Zones, IsFiniteRegion(Composed(w)),
         board.zones[w].islands.remove, board.zones[w].islands.minimum = << >>,
         Anchored(copper, board.zones[w].net, board.zones[w].layer)
  PROVE  Anchored(copper \cup {ZoneFeature(w)}, board.zones[w].net, board.zones[w].layer)
<1> DEFINE net == board.zones[w].net
           layer == board.zones[w].layer
           old == RegionIn(copper, net, layer)
           new == RegionIn(copper \cup {ZoneFeature(w)}, net, layer)
           islands == Islands(Composed(w))
<1>1. /\ ZoneFeature(w).region = Poured(w) /\ ZoneFeature(w).net = net
      /\ ZoneFeature(w).layer = layer
  BY DEF ZoneFeature, Feature
<1>2. CopperIn(copper \cup {ZoneFeature(w)}, net, layer)
        = CopperIn(copper, net, layer) \cup {ZoneFeature(w)}
  BY <1>1 DEF CopperIn
<1>3. new = old \cup Poured(w)
  BY <1>1, <1>2 DEF RegionIn
<1> SUFFICES ASSUME NEW part \in SUBSET new, part # {}, IsClosedIn(part, new)
             PROVE  \E f \in CopperIn(copper, net, layer) : f.kind # "Zone" /\ f.region \cap part # {}
  BY <1>2 DEF Anchored
<1>4. CASE part \cap old # {}
  <2> DEFINE rest == part \cap old
  <2>1. rest \in SUBSET old /\ rest # {} /\ IsClosedIn(rest, old)
    BY <1>3, <1>4 DEF IsClosedIn
  <2> HIDE DEF rest
  <2>2. \E f \in CopperIn(copper, net, layer) : f.kind # "Zone" /\ f.region \cap rest # {}
    BY <2>1, Zenon DEF Anchored
  <2> QED
    BY <2>2 DEF rest
<1>5. CASE part \cap old = {}
  <2>1. Separate(Composed(w), islands)
    BY IslandsAreSeparate DEF IsFiniteRegion
  <2>2. part \subseteq Poured(w) /\ Poured(w) \subseteq Composed(w)
    BY <1>3, <1>5 DEF Poured
  <2>3. ASSUME NEW p \in part
        PROVE  \E island \in islands : p \in island /\ ~Pruned(w, island)
    <3>1. p \in Composed(w) /\ p \notin UNION PrunedOf(w)
      BY <2>2 DEF Poured
    <3>2. PICK island \in islands : p \in island
      BY <2>1, <3>1 DEF Separate
    <3> QED
      BY <3>1, <3>2 DEF PrunedOf
  <2>4. IsClosedIn(part, Composed(w))
    <3> SUFFICES ASSUME NEW p \in part, NEW q \in Composed(w), q \in Neighbours(p)
                 PROVE  q \in part
      BY DEF IsClosedIn
    <3>1. PICK island \in islands : p \in island /\ ~Pruned(w, island)
      BY <2>3
    <3>2. q \in island
      BY <2>1, <3>1 DEF Separate, IsClosedIn
    <3>3. q \notin UNION PrunedOf(w)
      <4> SUFFICES ASSUME NEW loose \in PrunedOf(w), q \in loose PROVE FALSE
        OBVIOUS
      <4>1. loose \in islands /\ Pruned(w, loose)
        BY DEF PrunedOf
      <4>2. loose \cap island # {}
        BY <3>2
      <4>3. loose = island
        BY <2>1, <3>1, <4>1, <4>2, Zenon DEF Separate
      <4> QED
        BY <3>1, <4>1, <4>3
    <3>4. q \in new
      BY <1>3, <3>3 DEF Poured
    <3> QED
      BY <3>4 DEF IsClosedIn
  <2>5. PICK p \in part : TRUE
    OBVIOUS
  <2>6. PICK island \in islands : p \in island /\ ~Pruned(w, island)
    BY <2>3
  <2>7. island \subseteq part
    <3>1. part \in SUBSET Composed(w) /\ part \cap island # {}
      BY <2>2, <2>6
    <3> HIDE DEF islands
    <3> QED
      BY <2>1, <2>4, <3>1, Zenon DEF Separate
  <2>8. Connected(w, island)
    BY <2>6 DEF Pruned
  <2>9. PICK f \in copper : f.layer = layer /\ f.net = net /\ island \cap f.region # {}
    BY <2>8 DEF Connected, OnLayerOf
  <2>10. f \in CopperIn(copper, net, layer)
    BY <2>9 DEF CopperIn
  <2>11. f.region \subseteq old
    BY <2>10 DEF RegionIn
  <2> QED
    BY <1>5, <2>7, <2>9, <2>11
<1> QED
  BY <1>4, <1>5

(* The invariant is kept.                                                  *)
LEMMA BoardIsBoard == ASSUME StitchInv PROVE IsPourBoard(board)
BY PourBoardsAreBoards DEF StitchInv, StitchType

(* Steps that leave the copper as it is.                                   *)
LEMMA AnchorFrame ==
  ASSUME AnchorInv, UNCHANGED <<board, copper>>, \A via \in Range(stitched') : IsPourVia(via)
  PROVE  AnchorInv'
BY DEF AnchorInv

LEMMA StitchIsVia ==
  ASSUME StitchInv, AnchorInv, TryCandidate
  PROVE  \A via \in Range(stitched') : IsPourVia(via)
<1> DEFINE n == evidence[zone].candidates
           via == StitchVia(zone, n)
<1>1. /\ zone \in Zones /\ Stitches(zone) /\ n < Candidates(zone) /\ step = "stitching"
      /\ stitched' = stitched \/ stitched' = Append(stitched, via)
  BY DEF TryCandidate
<1>2. StitchType /\ n \in Nat /\ stitched \in Seq(Possible) /\ \A z \in Zones : ValidZone(z)
  BY <1>1 DEF StitchInv, StitchType, Entries
<1>3. Places(zone, 1) # 0
  <2>1. Places(zone, 1) \in Nat /\ Places(zone, 2) \in Nat
    BY <1>1, <1>2, PlacesAreNatural
  <2>2. Places(zone, 1) = 0 => Candidates(zone) = 0
    BY <2>1 DEF Candidates
  <2> QED
    BY <1>1, <1>2, <2>2
<1>4. IsPourVia(via)
  <2>1. via.at = Centre(zone, n) /\ via.land = Policy(zone).land
        /\ via.first = Policy(zone).first /\ via.last = Policy(zone).last
    BY DEF StitchVia
  <2>2. IsPoint(Centre(zone, n))
    BY <1>1, <1>2, <1>3, CentreIsPoint
  <2>3. IsStitching(Policy(zone))
    BY <1>1, BoardIsBoard DEF IsPourBoard, Zones, Stitches, Policy
  <2> HIDE DEF via, n
  <2> QED
    BY <2>1, <2>2, <2>3 DEF IsPourVia, IsStitching
<1>5. \A old \in Range(stitched) : IsPourVia(old)
  BY DEF AnchorInv
<1> HIDE DEF via, n
<1>6. \A new \in Range(Append(stitched, via)) : new = via \/ new \in Range(stitched)
  BY <1>2 DEF Range
<1> QED
  BY <1>1, <1>4, <1>5, <1>6

LEMMA LayCopperAnchors ==
  ASSUME StitchInv, AnchorInv, LayCopper
  PROVE  AnchorInv'
<1>1. copper' = FixedFeatures /\ stitched' = stitched /\ board' = board
  BY DEF LayCopper
<1>2. AreFixed(FixedFeatures)
  BY BoardIsBoard, FixedFeaturesAreFinite DEF AnchorInv, StitchInv, StitchType
<1>3. \A net, layer : Anchored(FixedFeatures, net, layer)
  BY <1>2, FixedAreAnchored
<1> QED
  BY <1>1, <1>2, <1>3 DEF AnchorInv, AreFixed

LEMMA PourNextAnchors ==
  ASSUME StitchInv, PourOrder, AnchorInv, PourNext
  PROVE  AnchorInv'
<1>1. PICK w \in toPour : copper' = copper \cup {ZoneFeature(w)}
  BY DEF PourNext
<1>2. stitched' = stitched /\ board' = board /\ w \in Zones
  BY DEF PourNext, PourOrder
<1>3. IsFiniteRegion(Composed(w))
  <2>1. IsBox(board.zones[w].boundary.outline)
    BY <1>2, BoardIsBoard DEF IsPourBoard, Zones
  <2>2. Composed(w) \subseteq Filled(board.zones[w].boundary.outline)
    BY BaseWithinOutline DEF Composed
  <2> QED
    BY <2>1, <2>2, FilledIsFinite, PartIsFinite
<1>4. IsFiniteRegion(ZoneFeature(w).region)
  <2>1. ZoneFeature(w).region \subseteq Composed(w)
    BY DEF ZoneFeature, Feature, Poured
  <2> QED
    BY <1>3, <2>1, PartIsFinite
<1>5. IsFiniteSet(copper \cup {ZoneFeature(w)})
  BY FS_AddElement DEF AnchorInv
<1> DEFINE net == board.zones[w].net
           layer == board.zones[w].layer
<1>6. ASSUME NEW z \in Zones, DropsAll(board, board.zones[z].net)
      PROVE  Anchored(copper \cup {ZoneFeature(w)}, board.zones[z].net, board.zones[z].layer)
  <2>1. Anchored(copper, board.zones[z].net, board.zones[z].layer)
    BY <1>6 DEF AnchorInv, Zones
  <2>2. CASE board.zones[z].net = net /\ board.zones[z].layer = layer
    <3>1. board.zones[w].islands.remove /\ board.zones[w].islands.minimum = << >>
      BY <1>2, <1>6, <2>2 DEF DropsAll, Zones
    <3> QED
      BY <1>2, <1>3, <2>1, <2>2, <3>1, PourIsAnchored
  <2>3. CASE ~(board.zones[z].net = net /\ board.zones[z].layer = layer)
    <3>1. ZoneFeature(w).net = net /\ ZoneFeature(w).layer = layer
      BY DEF ZoneFeature, Feature
    <3>2. CopperIn(copper \cup {ZoneFeature(w)}, board.zones[z].net, board.zones[z].layer)
            = CopperIn(copper, board.zones[z].net, board.zones[z].layer)
      BY <2>3, <3>1 DEF CopperIn
    <3> QED
      BY <2>1, <3>2, Zenon DEF Anchored, RegionIn
  <2> QED
    BY <2>2, <2>3
<1> QED
  BY <1>1, <1>2, <1>4, <1>5, <1>6 DEF AnchorInv, Zones

LEMMA AnchorInvIsAnchored ==
  ASSUME AnchorInv
  PROVE  PoursAreAnchored
<1> SUFFICES ASSUME NEW z \in Zones, DropsLoose(board.zones[z].net),
                    NEW island \in Islands(UNION {f.region :
                          f \in CopperOf(board.zones[z].net, board.zones[z].layer)})
             PROVE  \E f \in CopperOf(board.zones[z].net, board.zones[z].layer) :
                      f.kind # "Zone" /\ f.region \cap island # {}
  BY DEF PoursAreAnchored
<1> DEFINE net == board.zones[z].net
           layer == board.zones[z].layer
           region == RegionIn(copper, net, layer)
<1>1. CopperOf(net, layer) = CopperIn(copper, net, layer)
  BY DEF CopperOf, CopperIn
<1>2. island \in Islands(region)
  BY <1>1, Zenon DEF RegionIn
<1>3. IsFiniteRegion(region)
  <2> DEFINE part == CopperIn(copper, net, layer)
             cells == [f \in part |-> f.region]
  <2>1. IsFiniteSet(part) /\ \A f \in part : IsFiniteRegion(cells[f])
    BY FS_Subset DEF AnchorInv, CopperIn
  <2>2. region = UNION {cells[f] : f \in part}
    BY DEF RegionIn
  <2> HIDE DEF cells, part
  <2>3. IsFiniteSet(UNION {cells[f] : f \in part})
    BY <2>1, FamilyIsFinite DEF IsFiniteRegion
  <2>4. UNION {cells[f] : f \in part} \subseteq Grounds
    BY <2>1 DEF IsFiniteRegion
  <2> HIDE DEF region
  <2> QED
    BY <2>2, <2>3, <2>4 DEF IsFiniteRegion
<1>4. island # {} /\ island \subseteq region /\ IsClosedIn(island, region)
  <2> HIDE DEF region
  <2> QED
    BY <1>2, <1>3, IslandsAreSeparate DEF Separate, IsFiniteRegion
<1>5. Anchored(copper, net, layer)
  BY DEF AnchorInv, DropsAll, DropsLoose, Zones
<1> QED
  BY <1>1, <1>4, <1>5 DEF Anchored

(* Where every zone of a net drops what is loose, every island of the net's *)
(* copper on a layer holds a pad, a route or a via, whatever the board.    *)
THEOREM PoursAreAnchoredAlways == PourSpec => []PoursAreAnchored
<1>1. PourInit => AnchorInv
  <2>1. \A net, layer : Anchored({}, net, layer)
    BY DEF Anchored, RegionIn, CopperIn
  <2>2. Range(<< >>) = {}
    BY DEF Range
  <2> QED
    BY <2>1, <2>2, FS_EmptySet DEF PourInit, AnchorInv
<1>2. StitchInv /\ PourOrder /\ AnchorInv /\ [PourNextStep]_pourVars => AnchorInv'
  <2> SUFFICES ASSUME StitchInv, PourOrder, AnchorInv, [PourNextStep]_pourVars
               PROVE  AnchorInv'
    OBVIOUS
  <2>1. CASE TryCandidate
    <3>1. UNCHANGED <<board, copper>>
      BY <2>1 DEF TryCandidate
    <3> QED
      BY <2>1, <3>1, StitchIsVia, AnchorFrame
  <2>2. CASE LayCopper
    BY <2>2, LayCopperAnchors
  <2>3. CASE PourNext
    BY <2>3, PourNextAnchors
  <2>4. CASE RefuseModel \/ BeginStitching \/ EndZone \/ Report \/ ReportStands
              \/ UNCHANGED pourVars
    <3>1. UNCHANGED <<board, copper, stitched>>
      BY <2>4 DEF RefuseModel, BeginStitching, EndZone, Report, ReportStands, pourVars
    <3> QED
      BY <3>1, AnchorFrame DEF AnchorInv
  <2> QED
    BY <2>1, <2>2, <2>3, <2>4 DEF PourNextStep
<1>3. AnchorInv => PoursAreAnchored
  BY AnchorInvIsAnchored
<1> QED
  BY <1>1, <1>2, <1>3, StitchInvHolds, PourOrderHolds, PTL DEF PourSpec

-----------------------------------------------------------------------------
(* Placement.                                                              *)

(* A filtered sequence has the entries it was to have.                      *)
LEMMA AmongIsSeq ==
  ASSUME NEW V, NEW s \in Seq(V), NEW places, NEW W,
         \A n \in places \cap DOMAIN s : s[n] \in W
  PROVE  Among(s, places) \in Seq(W)
<1> DEFINE N == Len(s)
           atStep(f, n) == IF n = 0 THEN << >>
                         ELSE IF n \in places THEN Append(f[n - 1], s[n]) ELSE f[n - 1]
           Solves(f, m) == f = [n \in 0..m |-> atStep(f, n)]
           unsolved == {m \in Nat : ~\E f : Solves(f, m)}
<1>1. N \in Nat /\ DOMAIN s = 1..N
  OBVIOUS
<1>2. \E f : Solves(f, 0)
  <2>1. Solves([n \in 0..0 |-> << >>], 0)
    OBVIOUS
  <2> QED BY <2>1
<1>3. ASSUME NEW m \in Nat, NEW f, Solves(f, m)
      PROVE  \E g : Solves(g, m + 1)
  <2> DEFINE g == [n \in 0..(m + 1) |->
                     IF n = m + 1 THEN IF n \in places THEN Append(f[m], s[n]) ELSE f[m]
                     ELSE f[n]]
  <2>1. \A n \in 0..(m + 1) : g[n] = atStep(g, n)
    <3> SUFFICES ASSUME NEW n \in 0..(m + 1) PROVE g[n] = atStep(g, n)
      OBVIOUS
    <3>1. CASE n = m + 1
      <4>1. g[n - 1] = f[m]
        BY <3>1
      <4>2. g[n] = IF n \in places THEN Append(f[m], s[n]) ELSE f[m]
        BY <3>1
      <4> HIDE DEF g
      <4> QED BY <3>1, <4>1, <4>2
    <3>2. CASE n # m + 1
      <4>1. n \in 0..m /\ g[n] = f[n] /\ (n # 0 => n - 1 \in 0..m /\ g[n - 1] = f[n - 1])
        BY <3>2
      <4>2. f[n] = atStep(f, n)
        BY <1>3, <4>1
      <4> HIDE DEF g
      <4> QED BY <4>1, <4>2
    <3> QED BY <3>1, <3>2
  <2>2. g = [n \in 0..(m + 1) |-> g[n]]
    OBVIOUS
  <2> HIDE DEF g
  <2>3. Solves(g, m + 1)
    BY <2>1, <2>2
  <2> QED BY <2>3
<1>4. unsolved = {}
  <2> SUFFICES ASSUME unsolved # {} PROVE FALSE
    OBVIOUS
  <2>1. PICK m \in unsolved : \A k \in unsolved : m <= k
    BY LeastNatural
  <2> HIDE DEF Solves
  <2>2. m # 0 /\ m - 1 \in Nat /\ m - 1 \notin unsolved
    BY <1>2, <2>1
  <2>3. PICK f : Solves(f, m - 1)
    BY <2>2
  <2>4. \E g : Solves(g, (m - 1) + 1)
    BY <1>3, <2>2, <2>3
  <2> QED BY <2>1, <2>4
<1>5. PICK f : Solves(f, N)
  BY <1>1, <1>4
<1> DEFINE chosen == CHOOSE g : Solves(g, N)
           bad == {n \in 0..N : chosen[n] \notin Seq(W)}
<1>6. Solves(chosen, N)
  BY <1>5, Zenon
<1>7. bad = {}
  <2> SUFFICES ASSUME bad # {} PROVE FALSE
    OBVIOUS
  <2> HIDE DEF chosen, N
  <2>0. bad \subseteq Nat
    BY <1>1
  <2>1. PICK n \in bad : \A k \in bad : n <= k
    <3> HIDE DEF bad
    <3> QED BY <2>0, LeastNatural
  <2>2. chosen[n] = atStep(chosen, n)
    BY <1>6, <2>1
  <2>3. n # 0 /\ n - 1 \in 0..N /\ n - 1 \notin bad /\ n \in DOMAIN s
    <3>1. n # 0
      <4> SUFFICES ASSUME n = 0 PROVE FALSE
        OBVIOUS
      <4>1. chosen[n] = << >>
        BY <2>2
      <4>2. << >> \in Seq(W)
        BY EmptySeq
      <4> QED BY <2>1, <4>1, <4>2
    <3>2. n \in Nat /\ n <= N
      BY <1>1, <2>1
    <3>3. n - 1 \in 0..N /\ n \in 1..N
      BY <1>1, <3>1, <3>2
    <3>4. n - 1 \notin bad
      <4> HIDE DEF bad
      <4> QED BY <2>1, <3>2
    <3> QED BY <1>1, <3>1, <3>3, <3>4
  <2>4. chosen[n - 1] \in Seq(W) /\ (n \in places => s[n] \in W)
    BY <2>3
  <2>5. chosen[n] \in Seq(W)
    BY <2>2, <2>3, <2>4
  <2> QED BY <2>1, <2>5
<1>8. chosen[N] \in Seq(W)
  BY <1>1, <1>7
<1>9. Among(s, places) = chosen[N]
  BY Zenon DEF Among
<1> QED BY <1>8, <1>9

-----------------------------------------------------------------------------
(* Natural numbers up to a bound have a greatest one among them.           *)
LEMMA MaxUpTo ==
  ASSUME NEW K \in Nat, NEW T, T \subseteq 0..K, T # {}
  PROVE  Max(T) \in T /\ \A y \in T : y <= Max(T)
<1> DEFINE D == {K - x : x \in T}
<1>0. \A x \in T : x \in Nat /\ x <= K
  <2> SUFFICES ASSUME NEW x \in T PROVE x \in Nat /\ x <= K
    OBVIOUS
  <2>1. x \in 0..K
    OBVIOUS
  <2> QED BY <2>1
<1>1. D \subseteq Nat /\ D # {}
  <2>1. \A d \in D : d \in Nat
    BY <1>0
  <2>2. PICK x \in T : TRUE
    OBVIOUS
  <2>3. K - x \in D
    BY <2>2
  <2> QED BY <2>1, <2>3
<1>2. PICK d \in D : \A y \in D : d <= y
  BY <1>1, LeastNatural
<1>3. PICK x \in T : d = K - x
  BY <1>2
<1>4. \A y \in T : y <= x
  <2> SUFFICES ASSUME NEW y \in T PROVE y <= x
    OBVIOUS
  <2>1. K - y \in D
    OBVIOUS
  <2>2. d <= K - y
    BY <1>2, <2>1
  <2> QED BY <1>3, <2>2
<1>5. \A y \in T : x >= y
  BY <1>4
<1>6. Max(T) \in T /\ \A y \in T : Max(T) >= y
  BY <1>5, Zenon DEF Max
<1>7. \A y \in T : y \in Nat /\ Max(T) \in Nat
  BY <1>0, <1>6
<1> QED BY <1>6, <1>7

(* Scores are compared entry by entry: no two of them precede each other,   *)
(* and what precedes the one before precedes the other.                     *)
Scores(N) == [1..N -> Int]
LEMMA CheaperIsOrder ==
  ASSUME NEW N \in Nat, NEW a \in Scores(N), NEW b \in Scores(N), NEW c \in Scores(N)
  PROVE  /\ Cheaper(a, b) => ~Cheaper(b, a)
         /\ Cheaper(a, b) /\ Cheaper(b, c) => Cheaper(a, c)
<1>1. DOMAIN a = 1..N /\ DOMAIN b = 1..N
      /\ \A k \in 1..N : a[k] \in Int /\ b[k] \in Int /\ c[k] \in Int
  BY DEF Scores
<1>2. ASSUME Cheaper(a, b), Cheaper(b, a) PROVE FALSE
  <2>1. PICK k \in 1..N : a[k] < b[k] /\ \A l \in 1..(k - 1) : a[l] = b[l]
    BY <1>1, <1>2 DEF Cheaper
  <2>2. PICK m \in 1..N : b[m] < a[m] /\ \A l \in 1..(m - 1) : b[l] = a[l]
    BY <1>1, <1>2 DEF Cheaper
  <2>3. CASE k < m
    <3>1. k \in 1..(m - 1)
      BY <2>3
    <3> QED BY <1>1, <2>1, <2>2, <3>1
  <2>4. CASE m < k
    <3>1. m \in 1..(k - 1)
      BY <2>4
    <3> QED BY <1>1, <2>1, <2>2, <3>1
  <2>5. CASE k = m
    BY <1>1, <2>1, <2>2, <2>5
  <2> QED BY <2>3, <2>4, <2>5
<1>3. ASSUME Cheaper(a, b), Cheaper(b, c) PROVE Cheaper(a, c)
  <2>1. PICK k \in 1..N : a[k] < b[k] /\ \A l \in 1..(k - 1) : a[l] = b[l]
    BY <1>1, <1>3 DEF Cheaper
  <2>2. PICK m \in 1..N : b[m] < c[m] /\ \A l \in 1..(m - 1) : b[l] = c[l]
    BY <1>1, <1>3 DEF Cheaper
  <2>3. PICK n \in 1..N : n <= k /\ n <= m /\ (n = k \/ n = m)
    BY Z3
  <2>4. a[n] < c[n]
    <3>1. CASE n = k /\ n = m
      BY <1>1, <2>1, <2>2, <3>1
    <3>2. CASE n = k /\ n < m
      <4>1. n \in 1..(m - 1)
        BY <3>2
      <4> QED BY <1>1, <2>1, <2>2, <3>2, <4>1
    <3>3. CASE n < k /\ n = m
      <4>1. n \in 1..(k - 1)
        BY <3>3
      <4> QED BY <1>1, <2>1, <2>2, <3>3, <4>1
    <3> QED BY <2>3, <3>1, <3>2, <3>3
  <2>5. \A l \in 1..(n - 1) : a[l] = c[l]
    <3> TAKE l \in 1..(n - 1)
    <3>1. l \in 1..(k - 1) /\ l \in 1..(m - 1)
      BY <2>3
    <3> QED BY <2>1, <2>2, <3>1
  <2> QED BY <1>1, <2>4, <2>5 DEF Cheaper
<1> QED BY <1>2, <1>3

(* An allowed place with what it costs.                                     *)
ScoredAt(i, allowed, n) == [place |-> allowed[n], cost |-> CandidateScore(i, allowed[n])]
CostOf(i, allowed, n) == CandidateScore(i, allowed[n])

(* The cheapest is one of the places that are allowed, and none of them is  *)
(* cheaper.                                                                 *)
LEMMA CheapestOfAllowed ==
  ASSUME NEW i, NEW allowed, NEW K \in Nat, DOMAIN allowed \subseteq 0..K,
         DOMAIN allowed # {}
  PROVE  \E k \in DOMAIN allowed :
           /\ Cheapest(i, allowed) = {ScoredAt(i, allowed, k)}
           /\ (\A n \in DOMAIN allowed : CostOf(i, allowed, n) \in Scores(7))
                => \A n \in DOMAIN allowed : ~Cheaper(CostOf(i, allowed, n), CostOf(i, allowed, k))
<1> DEFINE scored(n) == ScoredAt(i, allowed, n)
           cost(n) == CostOf(i, allowed, n)
           M == Max(DOMAIN allowed)
           takes(n, before) == n \in DOMAIN allowed /\ \A b \in before : Cheaper(scored(n).cost, b.cost)
           atStep(f, n) == IF takes(n, IF n = 0 THEN {} ELSE f[n - 1]) THEN {scored(n)}
                         ELSE IF n = 0 THEN {} ELSE f[n - 1]
           Solves(f, m) == f = [n \in 0..m |-> atStep(f, n)]
           unsolved == {m \in Nat : ~\E f : Solves(f, m)}
<1>0. \A n : scored(n).cost = cost(n) /\ scored(n).place = allowed[n]
  BY DEF ScoredAt, CostOf
<1>1. M \in DOMAIN allowed /\ M \in Nat /\ \A n \in DOMAIN allowed : n <= M /\ n \in Nat
  BY MaxUpTo
<1> HIDE DEF scored, takes, M, cost
<1>2. \E f : Solves(f, 0)
  <2>1. Solves([n \in 0..0 |-> IF takes(0, {}) THEN {scored(0)} ELSE {}], 0)
    OBVIOUS
  <2> QED BY <2>1
<1>3. ASSUME NEW m \in Nat, NEW f, Solves(f, m)
      PROVE  \E g : Solves(g, m + 1)
  <2> DEFINE g == [n \in 0..(m + 1) |->
                     IF n = m + 1 THEN IF takes(n, f[m]) THEN {scored(n)} ELSE f[m]
                     ELSE f[n]]
  <2>1. \A n \in 0..(m + 1) : g[n] = atStep(g, n)
    <3> SUFFICES ASSUME NEW n \in 0..(m + 1) PROVE g[n] = atStep(g, n)
      OBVIOUS
    <3>1. CASE n = m + 1
      <4>1. g[n - 1] = f[m] /\ n # 0
        BY <3>1
      <4>2. g[n] = IF takes(n, f[m]) THEN {scored(n)} ELSE f[m]
        BY <3>1
      <4> HIDE DEF g
      <4> QED BY <3>1, <4>1, <4>2, Zenon
    <3>2. CASE n # m + 1
      <4>1. n \in 0..m /\ g[n] = f[n] /\ (n # 0 => n - 1 \in 0..m /\ g[n - 1] = f[n - 1])
        BY <3>2
      <4>2. f[n] = atStep(f, n)
        BY <1>3, <4>1
      <4> HIDE DEF g
      <4> QED BY <4>1, <4>2
    <3> QED BY <3>1, <3>2
  <2>2. g = [n \in 0..(m + 1) |-> g[n]]
    OBVIOUS
  <2> HIDE DEF g
  <2>3. Solves(g, m + 1)
    BY <2>1, <2>2
  <2> QED BY <2>3
<1>4. unsolved = {}
  <2> SUFFICES ASSUME unsolved # {} PROVE FALSE
    OBVIOUS
  <2>1. PICK m \in unsolved : \A k \in unsolved : m <= k
    BY LeastNatural
  <2> HIDE DEF Solves
  <2>2. m # 0 /\ m - 1 \in Nat /\ m - 1 \notin unsolved
    BY <1>2, <2>1
  <2>3. PICK f : Solves(f, m - 1)
    BY <2>2
  <2>4. \E g : Solves(g, (m - 1) + 1)
    BY <1>3, <2>2, <2>3
  <2> QED BY <2>1, <2>4
<1>5. PICK f : Solves(f, M)
  BY <1>1, <1>4
<1> DEFINE chosen == CHOOSE g : Solves(g, M)
           typed == \A n \in DOMAIN allowed : cost(n) \in Scores(7)
           beats(k, n) == \A m \in DOMAIN allowed : m <= n => ~Cheaper(cost(m), cost(k))
           found(n) == \E k \in DOMAIN allowed : chosen[n] = {scored(k)} /\ (typed => beats(k, n))
           none(n) == chosen[n] = {} /\ \A m \in DOMAIN allowed : ~(m <= n)
           bad == {n \in 0..M : ~(found(n) \/ none(n))}
<1>6. Solves(chosen, M)
  BY <1>5, Zenon
<1>7. bad = {}
  <2> SUFFICES ASSUME bad # {} PROVE FALSE
    OBVIOUS
  <2> HIDE DEF chosen
  <2>0. bad \subseteq Nat
    BY <1>1
  <2>1. PICK n \in bad : \A k \in bad : n <= k
    <3> HIDE DEF bad
    <3> QED BY <2>0, LeastNatural
  <2> DEFINE before == IF n = 0 THEN {} ELSE chosen[n - 1]
  <2>2. chosen[n] = IF takes(n, before) THEN {scored(n)} ELSE before
    <3>1. chosen[n] = atStep(chosen, n)
      BY <1>1, <1>6, <2>1
    <3> QED BY <3>1, Zenon
  <2>3. \/ /\ before = {}
           /\ \A m \in DOMAIN allowed : m <= n => m = n
        \/ \E k \in DOMAIN allowed :
              /\ before = {scored(k)}
              /\ typed => \A m \in DOMAIN allowed : m <= n /\ m # n => ~Cheaper(cost(m), cost(k))
    <3>1. CASE n = 0
      BY <1>1, <3>1
    <3>2. CASE n # 0
      <4>1. n - 1 \notin bad /\ n - 1 \in 0..M /\ before = chosen[n - 1]
        BY <1>1, <2>1, <3>2
      <4>2. found(n - 1) \/ none(n - 1)
        BY <4>1
      <4>3. \A m \in DOMAIN allowed : m <= n - 1 <=> m <= n /\ m # n
        BY <1>1, <2>1
      <4> HIDE DEF before, cost
      <4>4. CASE none(n - 1)
        BY <4>1, <4>3, <4>4
      <4>5. CASE found(n - 1)
        <5>1. PICK k \in DOMAIN allowed : chosen[n - 1] = {scored(k)} /\ (typed => beats(k, n - 1))
          BY <4>5
        <5> QED BY <4>1, <4>3, <5>1
      <4> QED BY <4>2, <4>4, <4>5
    <3> QED BY <3>1, <3>2
  <2> HIDE DEF before
  <2>4. CASE takes(n, before)
    <3>1. n \in DOMAIN allowed /\ chosen[n] = {scored(n)}
      BY <2>2, <2>4 DEF takes
    <3>2. ASSUME typed, NEW m \in DOMAIN allowed, m <= n, Cheaper(cost(m), cost(n)) PROVE FALSE
      <4>0. cost(m) \in Scores(7) /\ cost(n) \in Scores(7)
        BY <3>1, <3>2
      <4>1. m # n
        BY <3>2, <4>0, CheaperIsOrder
      <4>2. PICK k \in DOMAIN allowed :
              /\ before = {scored(k)}
              /\ typed => \A l \in DOMAIN allowed : l <= n /\ l # n => ~Cheaper(cost(l), cost(k))
        BY <2>3, <3>2, <4>1
      <4>3. Cheaper(cost(n), cost(k))
        <5>1. scored(k) \in before
          BY <4>2
        <5>2. Cheaper(scored(n).cost, scored(k).cost)
          BY <2>4, <5>1 DEF takes
        <5> QED BY <1>0, <5>2, Zenon
      <4>4. cost(k) \in Scores(7)
        BY <3>2
      <4>5. Cheaper(cost(m), cost(k))
        <5> HIDE DEF typed
        <5> QED BY <3>2, <4>0, <4>3, <4>4, CheaperIsOrder
      <4> QED BY <3>2, <4>1, <4>2, <4>5
    <3>3. found(n)
      BY <3>1, <3>2
    <3> QED BY <2>1, <3>3
  <2>5. CASE ~takes(n, before)
    <3>1. chosen[n] = before
      BY <2>2, <2>5
    <3>2. CASE before = {}
      <4>1. n \notin DOMAIN allowed
        BY <2>5, <3>2 DEF takes
      <4>2. none(n)
        BY <2>3, <3>1, <3>2, <4>1
      <4> QED BY <2>1, <4>2
    <3>3. CASE before # {}
      <4>1. PICK k \in DOMAIN allowed :
              /\ before = {scored(k)}
              /\ typed => \A m \in DOMAIN allowed : m <= n /\ m # n => ~Cheaper(cost(m), cost(k))
        BY <2>3, <3>3
      <4>2. n \in DOMAIN allowed => ~Cheaper(cost(n), cost(k))
        <5>1. n \in DOMAIN allowed => \E b \in before : ~Cheaper(scored(n).cost, b.cost)
          BY <2>5 DEF takes
        <5>2. n \in DOMAIN allowed => ~Cheaper(scored(n).cost, scored(k).cost)
          BY <4>1, <5>1
        <5> QED BY <1>0, <5>2, Zenon
      <4>3. typed => beats(k, n)
        BY <4>1, <4>2
      <4>4. found(n)
        BY <3>1, <4>1, <4>3
      <4> QED BY <2>1, <4>4
    <3> QED BY <3>2, <3>3
  <2> QED BY <2>4, <2>5
<1>8. found(M)
  <2>1. M \in 0..M
    BY <1>1
  <2>2. found(M) \/ none(M)
    BY <1>7, <2>1
  <2>3. ~none(M)
    BY <1>1
  <2> QED BY <2>2, <2>3
<1>9. Cheapest(i, allowed) = chosen[M]
  BY Zenon DEF Cheapest, scored, takes, M, ScoredAt
<1> HIDE DEF chosen
<1>10. PICK k \in DOMAIN allowed : chosen[M] = {scored(k)} /\ (typed => beats(k, M))
  BY <1>8
<1>11. typed => \A n \in DOMAIN allowed : ~Cheaper(cost(n), cost(k))
  BY <1>1, <1>10
<1>12. Cheapest(i, allowed) = {ScoredAt(i, allowed, k)}
  BY <1>9, <1>10, Zenon DEF scored
<1> QED BY <1>11, <1>12 DEF cost

(* What is accepted is one of the places that are allowed, and none of them *)
(* is cheaper when better places are asked for.                             *)
LEMMA AcceptedIsAllowed ==
  ASSUME NEW i, NEW allowed, NEW K \in Nat, DOMAIN allowed \subseteq 0..K,
         DOMAIN allowed # {}
  PROVE  \E k \in DOMAIN allowed :
           /\ Accepted(i, allowed) = allowed[k]
           /\ (placed[i] \in Range(allowed) => request.optimize)
                /\ (\A n \in DOMAIN allowed : CostOf(i, allowed, n) \in Scores(7))
                => \A n \in DOMAIN allowed : ~Cheaper(CostOf(i, allowed, n), CostOf(i, allowed, k))
<1>1. CASE placed[i] \in Range(allowed) /\ ~request.optimize
  <2>1. Accepted(i, allowed) = placed[i]
    BY <1>1, Zenon DEF Accepted
  <2>2. PICK k \in DOMAIN allowed : placed[i] = allowed[k]
    BY <1>1, Zenon DEF Range
  <2> QED BY <1>1, <2>1, <2>2
<1>2. CASE ~(placed[i] \in Range(allowed) /\ ~request.optimize)
  <2>1. PICK k \in DOMAIN allowed :
           /\ Cheapest(i, allowed) = {ScoredAt(i, allowed, k)}
           /\ (\A n \in DOMAIN allowed : CostOf(i, allowed, n) \in Scores(7))
                => \A n \in DOMAIN allowed : ~Cheaper(CostOf(i, allowed, n), CostOf(i, allowed, k))
    BY CheapestOfAllowed
  <2>2. (CHOOSE b \in Cheapest(i, allowed) : TRUE) = ScoredAt(i, allowed, k)
    <3>1. ScoredAt(i, allowed, k) \in Cheapest(i, allowed)
      BY <2>1
    <3>2. (CHOOSE b \in Cheapest(i, allowed) : TRUE) \in Cheapest(i, allowed)
      BY <3>1, Zenon
    <3> QED BY <2>1, <3>2
  <2>3. ScoredAt(i, allowed, k).place = allowed[k]
    BY DEF ScoredAt
  <2>4. Accepted(i, allowed) = allowed[k]
    BY <1>2, <2>2, <2>3, Zenon DEF Accepted
  <2> QED BY <2>1, <2>4
<1> QED BY <1>1, <1>2

-----------------------------------------------------------------------------
(* The model's operators on a layout given as an argument.                 *)

BoxAt(l, i, place) == Around({Onto(place, p) : p \in Corners(LocalEnvelope(l.items[i]))})
IsInside(l, box) ==
  /\ \A k \in {1, 2} : /\ l.outline.low[k] < box.low[k]
                       /\ box.high[k] < l.outline.high[k]
  /\ \A cutout \in l.cutouts :
       \E k \in {1, 2} : box.high[k] < cutout.low[k] \/ cutout.high[k] < box.low[k]
AreClear(l, i, a, j, b) ==
  a.side = b.side => Apart(BoxAt(l, i, a), BoxAt(l, j, b), l.policy.clearance)

IsDriven(l, i) == \E c \in Range(l.constraints) : Drives(c, i)
DriverOf(l, i) == CHOOSE c \in Range(l.constraints) : Drives(c, i)
IsFollower(l, i) == IsDriven(l, i) /\ DriverOf(l, i).kind = "Relative"
IsLocked(l, i) == \/ IsDriven(l, i)
                  \/ \E c \in Range(l.constraints) : c.kind = "Relative" /\ c.anchor = i
LayoutIsSound(l) ==
  /\ \A c \in Range(l.constraints) : ValidConstraint(c)
  /\ \A c, d \in DOMAIN l.constraints : \A i \in DOMAIN l.items :
       Drives(l.constraints[c], i) /\ Drives(l.constraints[d], i) => c = d

OriginStep(l, places, at, n) ==
  [i \in DOMAIN places |->
     IF ~IsDriven(l, i) \/ (n = 0 /\ IsFollower(l, i)) THEN places[i].at
     ELSE IF IsFollower(l, i) THEN Moved(at[n - 1][DriverOf(l, i).anchor], DriverOf(l, i).offset)
     ELSE DriverOf(l, i).at]
OriginsOf(l, places) ==
  LET at[n \in 0..Len(l.items)] == OriginStep(l, places, at, n) IN at[Len(l.items)]
LeadStep(l, leads, n) ==
  [i \in DOMAIN l.items |->
     IF n = 0 \/ ~IsFollower(l, i) THEN IsFollower(l, i) ELSE leads[n - 1][DriverOf(l, i).anchor]]
IsCyclic(l) ==
  LET leads[n \in 0..Len(l.items)] == LeadStep(l, leads, n)
  IN \E i \in DOMAIN l.items : leads[Len(l.items)][i]
Resolved(l, places) ==
  [i \in DOMAIN places |-> MovedTo(places[i], OriginsOf(l, places)[i])]
AsAuthored(l) == [i \in DOMAIN l.items |-> l.items[i].place]

PointOf(l, anchor, places) ==
  LET place == places[anchor.of]
      Sum(k) == MapThenSumSet(LAMBDA p : Onto(place, l.items[anchor.of].pads[p].at)[k], anchor.pads)
  IN IF anchor.pads = {} THEN place.at ELSE <<Sum(1), Sum(2)>>
IsInReach(l, c, places) ==
  LET s == Weight(c.subject)
      a == Weight(c.anchor)
      Difference(k) == PointOf(l, c.subject, places)[k] * a - PointOf(l, c.anchor, places)[k] * s
  IN Difference(1) * Difference(1) + Difference(2) * Difference(2)
       <= (c.maximum * s * a) * (c.maximum * s * a)
SatisfiedOn(l, c, places) ==
  /\ Aligns(c) =>
       \A n \in DOMAIN c.items :
         places[c.items[n]].at[Axis(c)] = places[c.items[1]].at[Axis(c)]
  /\ c.kind = "Within" => InRegion(c, places[c.of].at)
  /\ c.kind = "WithinDistance" => IsInReach(l, c, places)
  /\ c.kind = "AllowedRotations" => places[c.of].turn \in Range(c.turns)
  /\ c.kind = "AllowedSides" => places[c.of].side \in Range(c.sides)
DoesHold(l, c, places) ==
  /\ c.kind = "Fixed" => places[c.of].at = c.at
  /\ c.kind = "Relative" => places[c.of].at = Moved(places[c.anchor].at, c.offset)
  /\ SatisfiedOn(l, c, places)
IsLegal(l, places) ==
  /\ \A i \in DOMAIN l.items : HasEnvelope(l.items[i])
  /\ \A i \in DOMAIN l.items :
       /\ IsInside(l, BoxAt(l, i, places[i]))
       /\ \A j \in DOMAIN l.items \ {i} : AreClear(l, i, places[i], j, places[j])
  /\ \A c \in Range(l.constraints) : DoesHold(l, c, places)

(* They are the model's on the layout of the call.                         *)
LEMMA SameBounds ==
  /\ \A i, place : Bounds(i, place) = BoxAt(layout, i, place)
  /\ \A box : InsideBoard(box) <=> IsInside(layout, box)
BY Zenon DEF Bounds, BoxAt, items, InsideBoard, IsInside

LEMMA SameDrivers ==
  \A i : /\ Driven(i) <=> IsDriven(layout, i)
         /\ Driver(i) = DriverOf(layout, i)
         /\ Follows(i) <=> IsFollower(layout, i)
         /\ Locked(i) <=> IsLocked(layout, i)
BY Zenon DEF Driven, Driver, Follows, Locked, Constraints,
             IsDriven, DriverOf, IsFollower, IsLocked

LEMMA SameSoundness == ValidLayout <=> LayoutIsSound(layout)
BY Zenon DEF ValidLayout, LayoutIsSound, Constraints, items

LEMMA SameOrigins == \A places : Origins(places) = OriginsOf(layout, places)
<1> TAKE places
<1>1. \A at, n :
        [i \in DOMAIN places |->
           IF ~Driven(i) \/ (n = 0 /\ Follows(i)) THEN places[i].at
           ELSE IF Follows(i) THEN Moved(at[n - 1][Driver(i).anchor], Driver(i).offset)
           ELSE Driver(i).at] = OriginStep(layout, places, at, n)
  BY Zenon DEF OriginStep, Driven, Driver, Follows, Constraints, IsDriven, DriverOf, IsFollower
<1> QED
  BY Zenon DEF Origins, OriginsOf, OriginStep, items, Driven, Driver, Follows, Constraints,
               IsDriven, DriverOf, IsFollower

LEMMA SameCycles == Cyclic <=> IsCyclic(layout)
BY Zenon DEF Cyclic, IsCyclic, LeadStep, items, Driver, Follows, Driven, Constraints,
             DriverOf, IsFollower, IsDriven

LEMMA SameResolution ==
  /\ \A places : Resolution(places) = Resolved(layout, places)
  /\ Authored = AsAuthored(layout)
<1>1. \A places : Resolution(places) = Resolved(layout, places)
  BY SameOrigins, Zenon DEF Resolution, Resolved
<1>2. Authored = AsAuthored(layout)
  BY DEF Authored, AsAuthored, items
<1> QED BY <1>1, <1>2

LEMMA SamePoints == \A anchor, places : AnchorPoint(anchor, places) = PointOf(layout, anchor, places)
BY Zenon DEF AnchorPoint, PointOf, items

LEMMA SameVerdicts ==
  \A c, places : /\ WithinReach(c, places) <=> IsInReach(layout, c, places)
                 /\ Satisfied(c, places) <=> SatisfiedOn(layout, c, places)
                 /\ Holds(c, places) <=> DoesHold(layout, c, places)
<1> TAKE c, places
<1>1. WithinReach(c, places) <=> IsInReach(layout, c, places)
  BY SamePoints, Zenon DEF WithinReach, IsInReach
<1>2. Satisfied(c, places) <=> SatisfiedOn(layout, c, places)
  BY <1>1, Zenon DEF Satisfied, SatisfiedOn
<1>3. Holds(c, places) <=> DoesHold(layout, c, places)
  BY <1>2, Zenon DEF Holds, DoesHold
<1> QED BY <1>1, <1>2, <1>3

LEMMA SameLegality == \A places : LegalLayout(places) <=> IsLegal(layout, places)
<1> TAKE places
<1>1. \A i, j : (places[i].side = places[j].side
                  => Apart(Bounds(i, places[i]), Bounds(j, places[j]), request.clearance))
                <=> AreClear(layout, i, places[i], j, places[j])
  BY SameBounds, Zenon DEF AreClear, request
<1> QED BY <1>1, SameBounds, SameVerdicts, Zenon DEF LegalLayout, IsLegal, items, Constraints

-----------------------------------------------------------------------------
(* Resolving the constraints that give places.                             *)

(* The origins come from a function that unfolds as its definition says.   *)
LEMMA OriginsUnfold ==
  ASSUME NEW l, IsLayout(l), NEW places
  PROVE  \E f : /\ f = [n \in 0..Len(l.items) |-> OriginStep(l, places, f, n)]
                /\ OriginsOf(l, places) = f[Len(l.items)]
<1> DEFINE Solves(f, m) == f = [n \in 0..m |-> OriginStep(l, places, f, n)]
           N == Len(l.items)
           unsolved == {m \in Nat : ~\E f : Solves(f, m)}
<1>1. N \in Nat
  BY DEF IsLayout
<1>2. \E f : Solves(f, 0)
  <2>1. Solves([n \in 0..0 |-> OriginStep(l, places, << >>, n)], 0)
    BY DEF OriginStep
  <2> QED BY <2>1
<1>3. ASSUME NEW m \in Nat, NEW f, Solves(f, m)
      PROVE  \E g : Solves(g, m + 1)
  <2> DEFINE g == [n \in 0..(m + 1) |-> IF n = m + 1 THEN OriginStep(l, places, f, n) ELSE f[n]]
  <2>1. ASSUME NEW n \in 0..(m + 1) PROVE g[n] = OriginStep(l, places, g, n)
    <3>1. CASE n = 0
      <4>1. g[n] = f[n] /\ n \in 0..m
        BY <3>1
      <4>2. f[n] = OriginStep(l, places, f, n)
        BY <1>3, <4>1
      <4> HIDE DEF g
      <4>3. OriginStep(l, places, f, n) = OriginStep(l, places, g, n)
        BY <3>1 DEF OriginStep
      <4> QED BY <4>1, <4>2, <4>3
    <3>2. CASE n # 0
      <4>1. n - 1 \in 0..m /\ g[n - 1] = f[n - 1]
        BY <3>2
      <4>2. OriginStep(l, places, f, n) = OriginStep(l, places, g, n)
        <5> HIDE DEF g
        <5> QED BY <4>1, Zenon DEF OriginStep
      <4>3. CASE n = m + 1
        <5>1. g[n] = OriginStep(l, places, f, n)
          BY <4>3
        <5> QED BY <4>2, <5>1
      <4>4. CASE n # m + 1
        <5>1. n \in 0..m /\ g[n] = f[n]
          BY <4>4
        <5>2. f[n] = OriginStep(l, places, f, n)
          BY <1>3, <5>1
        <5> HIDE DEF g
        <5> QED BY <4>2, <5>1, <5>2
      <4> QED BY <4>3, <4>4
    <3> QED BY <3>1, <3>2
  <2>2. g = [n \in 0..(m + 1) |-> g[n]]
    OBVIOUS
  <2> HIDE DEF g
  <2>3. Solves(g, m + 1)
    BY <2>1, <2>2
  <2> QED BY <2>3
<1>4. unsolved = {}
  <2> SUFFICES ASSUME unsolved # {} PROVE FALSE
    OBVIOUS
  <2>0. unsolved \subseteq Nat
    OBVIOUS
  <2>1. PICK m \in unsolved : \A k \in unsolved : m <= k
    <3> HIDE DEF unsolved
    <3> QED BY <2>0, LeastNatural
  <2> HIDE DEF Solves
  <2>2. m # 0 /\ m - 1 \in Nat /\ m - 1 \notin unsolved
    BY <1>2, <2>1
  <2>3. PICK f : Solves(f, m - 1)
    BY <2>2
  <2>4. \E g : Solves(g, (m - 1) + 1)
    BY <1>3, <2>2, <2>3
  <2> QED BY <2>1, <2>4
<1>5. \E f : Solves(f, N)
  BY <1>1, <1>4
<1> DEFINE chosen == CHOOSE f : Solves(f, N)
<1>6. Solves(chosen, N)
  BY <1>5, Zenon
<1>7. OriginsOf(l, places) = chosen[N]
  BY Zenon DEF OriginsOf
<1> QED BY <1>6, <1>7, Zenon

(* So does what leads on to another relative constraint.                   *)
LEMMA LeadsUnfold ==
  ASSUME NEW l, IsLayout(l)
  PROVE  \E f : /\ f = [n \in 0..Len(l.items) |-> LeadStep(l, f, n)]
                /\ (IsCyclic(l) <=> \E i \in DOMAIN l.items : f[Len(l.items)][i])
<1> DEFINE Solves(f, m) == f = [n \in 0..m |-> LeadStep(l, f, n)]
           N == Len(l.items)
           unsolved == {m \in Nat : ~\E f : Solves(f, m)}
<1>1. N \in Nat
  BY DEF IsLayout
<1>2. \E f : Solves(f, 0)
  <2>1. Solves([n \in 0..0 |-> LeadStep(l, << >>, n)], 0)
    BY DEF LeadStep
  <2> QED BY <2>1
<1>3. ASSUME NEW m \in Nat, NEW f, Solves(f, m)
      PROVE  \E g : Solves(g, m + 1)
  <2> DEFINE g == [n \in 0..(m + 1) |-> IF n = m + 1 THEN LeadStep(l, f, n) ELSE f[n]]
  <2>1. ASSUME NEW n \in 0..(m + 1) PROVE g[n] = LeadStep(l, g, n)
    <3>1. CASE n = 0
      <4>1. g[n] = f[n] /\ n \in 0..m
        BY <3>1
      <4>2. f[n] = LeadStep(l, f, n)
        BY <1>3, <4>1
      <4> HIDE DEF g
      <4>3. LeadStep(l, f, n) = LeadStep(l, g, n)
        BY <3>1 DEF LeadStep
      <4> QED BY <4>1, <4>2, <4>3
    <3>2. CASE n # 0
      <4>1. n - 1 \in 0..m /\ g[n - 1] = f[n - 1]
        BY <3>2
      <4>2. LeadStep(l, f, n) = LeadStep(l, g, n)
        <5> HIDE DEF g
        <5> QED BY <4>1, Zenon DEF LeadStep
      <4>3. CASE n = m + 1
        <5>1. g[n] = LeadStep(l, f, n)
          BY <4>3
        <5> QED BY <4>2, <5>1
      <4>4. CASE n # m + 1
        <5>1. n \in 0..m /\ g[n] = f[n]
          BY <4>4
        <5>2. f[n] = LeadStep(l, f, n)
          BY <1>3, <5>1
        <5> HIDE DEF g
        <5> QED BY <4>2, <5>1, <5>2
      <4> QED BY <4>3, <4>4
    <3> QED BY <3>1, <3>2
  <2>2. g = [n \in 0..(m + 1) |-> g[n]]
    OBVIOUS
  <2> HIDE DEF g
  <2>3. Solves(g, m + 1)
    BY <2>1, <2>2
  <2> QED BY <2>3
<1>4. unsolved = {}
  <2> SUFFICES ASSUME unsolved # {} PROVE FALSE
    OBVIOUS
  <2>0. unsolved \subseteq Nat
    OBVIOUS
  <2>1. PICK m \in unsolved : \A k \in unsolved : m <= k
    <3> HIDE DEF unsolved
    <3> QED BY <2>0, LeastNatural
  <2> HIDE DEF Solves
  <2>2. m # 0 /\ m - 1 \in Nat /\ m - 1 \notin unsolved
    BY <1>2, <2>1
  <2>3. PICK f : Solves(f, m - 1)
    BY <2>2
  <2>4. \E g : Solves(g, (m - 1) + 1)
    BY <1>3, <2>2, <2>3
  <2> QED BY <2>1, <2>4
<1>5. \E f : Solves(f, N)
  BY <1>1, <1>4
<1> DEFINE chosen == CHOOSE f : Solves(f, N)
<1>6. Solves(chosen, N)
  BY <1>5, Zenon
<1>7. IsCyclic(l) <=> \E i \in DOMAIN l.items : chosen[N][i]
  BY Zenon DEF IsCyclic
<1> QED BY <1>6, <1>7, Zenon

(* Every item is where the constraint that drives it says.                 *)
StandsAsDriven(l, places) ==
  \A i \in DOMAIN l.items :
    /\ IsFollower(l, i) =>
         places[i].at = Moved(places[DriverOf(l, i).anchor].at, DriverOf(l, i).offset)
    /\ IsDriven(l, i) /\ ~IsFollower(l, i) => places[i].at = DriverOf(l, i).at

LEMMA DriverFacts ==
  ASSUME NEW l, IsLayout(l), NEW i \in DOMAIN l.items, IsDriven(l, i)
  PROVE  /\ DriverOf(l, i) \in Range(l.constraints)
         /\ Drives(DriverOf(l, i), i)
         /\ IsFollower(l, i) => DriverOf(l, i).anchor \in DOMAIN l.items
<1>1. DriverOf(l, i) \in Range(l.constraints) /\ Drives(DriverOf(l, i), i)
  BY Zenon DEF DriverOf, IsDriven
<1> QED BY <1>1, Zenon DEF IsFollower, IsLayout, IsConstraint

(* After as many steps as a chain has links, its origins no longer change. *)
LEMMA ResolvedStands ==
  ASSUME NEW l, IsLayout(l), ~IsCyclic(l), NEW places, DOMAIN places = DOMAIN l.items
  PROVE  StandsAsDriven(l, Resolved(l, places))
<1> DEFINE N == Len(l.items)
           D == DOMAIN l.items
<1>1. PICK at : /\ at = [n \in 0..N |-> OriginStep(l, places, at, n)]
                /\ OriginsOf(l, places) = at[N]
  BY OriginsUnfold
<1>2. PICK leads : /\ leads = [n \in 0..N |-> LeadStep(l, leads, n)]
                   /\ IsCyclic(l) <=> \E i \in D : leads[N][i]
  BY LeadsUnfold
<1>3. N \in Nat /\ D = 1..N
  BY DEF IsLayout
<1> HIDE DEF N, D
<1>4. \A n \in 0..N : at[n] = OriginStep(l, places, at, n)
  BY <1>1, Zenon
<1>5. \A n \in 0..N : leads[n] = LeadStep(l, leads, n)
  BY <1>2, Zenon
<1>6. \A i \in D : IsFollower(l, i) => DriverOf(l, i).anchor \in D
  BY DriverFacts DEF IsFollower, D
<1>7. ASSUME NEW n \in 0..N, NEW i \in D
      PROVE  at[n][i] = IF ~IsDriven(l, i) \/ (n = 0 /\ IsFollower(l, i)) THEN places[i].at
                        ELSE IF IsFollower(l, i)
                        THEN Moved(at[n - 1][DriverOf(l, i).anchor], DriverOf(l, i).offset)
                        ELSE DriverOf(l, i).at
  <2>1. at[n] = OriginStep(l, places, at, n)
    BY <1>4
  <2> QED BY <2>1, Zenon DEF OriginStep, D
<1>8. ASSUME NEW n \in 0..N, NEW i \in D
      PROVE  leads[n][i] = IF n = 0 \/ ~IsFollower(l, i) THEN IsFollower(l, i)
                           ELSE leads[n - 1][DriverOf(l, i).anchor]
  <2>1. leads[n] = LeadStep(l, leads, n)
    BY <1>5
  <2> QED BY <2>1, Zenon DEF LeadStep, D
<1> DEFINE steady(n) == \A i \in D : ~leads[n][i] => at[n][i] = at[n + 1][i]
           bad == {n \in 0..(N - 1) : ~steady(n)}
<1>9. bad = {}
  <2> SUFFICES ASSUME bad # {} PROVE FALSE
    OBVIOUS
  <2>0. bad \subseteq Nat
    BY <1>3
  <2>1. PICK n \in bad : \A k \in bad : n <= k
    <3> HIDE DEF bad
    <3> QED BY <2>0, LeastNatural
  <2>2. n \in Nat /\ n \in 0..N /\ n + 1 \in 0..N /\ n + 1 # 0 /\ (n + 1) - 1 = n
    BY <1>3, <2>1
  <2>3. PICK i \in D : ~leads[n][i] /\ at[n][i] # at[n + 1][i]
    BY <2>1
  <2>4. at[n + 1][i] = IF ~IsDriven(l, i) THEN places[i].at
                       ELSE IF IsFollower(l, i)
                       THEN Moved(at[n][DriverOf(l, i).anchor], DriverOf(l, i).offset)
                       ELSE DriverOf(l, i).at
    BY <1>7, <2>2
  <2>5. n # 0 /\ IsFollower(l, i)
    BY <1>7, <1>8, <2>2, <2>3, <2>4, Zenon DEF IsFollower
  <2>6. ~leads[n - 1][DriverOf(l, i).anchor]
    BY <1>8, <2>2, <2>3, <2>5, Zenon
  <2>7. n - 1 \in 0..(N - 1) /\ n - 1 \notin bad /\ (n - 1) + 1 = n
    <3>1. n - 1 \in 0..(N - 1) /\ (n - 1) + 1 = n /\ ~(n <= n - 1)
      BY <1>3, <2>2, <2>5
    <3> HIDE DEF bad
    <3> QED BY <2>1, <3>1
  <2>8. at[n - 1][DriverOf(l, i).anchor] = at[n][DriverOf(l, i).anchor]
    BY <1>6, <2>5, <2>6, <2>7
  <2>9. at[n][i] = Moved(at[n - 1][DriverOf(l, i).anchor], DriverOf(l, i).offset)
    BY <1>7, <2>2, <2>5, Zenon DEF IsFollower
  <2>10. at[n][i] = at[n + 1][i]
    BY <2>4, <2>5, <2>8, <2>9, Zenon DEF IsFollower
  <2> QED BY <2>3, <2>10
<1>10. ASSUME NEW i \in D
       PROVE  Resolved(l, places)[i].at = at[N][i]
  <2>1. Resolved(l, places)[i] = MovedTo(places[i], at[N][i])
    BY <1>1, Zenon DEF Resolved, D
  <2> QED BY <2>1 DEF MovedTo, Place
<1>11. ASSUME NEW i \in D, IsFollower(l, i)
       PROVE  at[N][i] = Moved(at[N][DriverOf(l, i).anchor], DriverOf(l, i).offset)
  <2>1. N # 0 /\ N \in 0..N /\ N - 1 \in 0..(N - 1) /\ (N - 1) + 1 = N
    BY <1>3
  <2>2. at[N][i] = Moved(at[N - 1][DriverOf(l, i).anchor], DriverOf(l, i).offset)
    BY <1>7, <1>11, <2>1, Zenon DEF IsFollower
  <2>3. ~leads[N][i]
    BY <1>2
  <2>4. ~leads[N - 1][DriverOf(l, i).anchor]
    BY <1>8, <1>11, <2>1, <2>3, Zenon
  <2>5. at[N - 1][DriverOf(l, i).anchor] = at[N][DriverOf(l, i).anchor]
    BY <1>6, <1>9, <1>11, <2>1, <2>4
  <2> QED BY <2>2, <2>5
<1>12. ASSUME NEW i \in D, IsDriven(l, i), ~IsFollower(l, i)
       PROVE  at[N][i] = DriverOf(l, i).at
  <2>1. N \in 0..N
    BY <1>3
  <2> QED BY <1>7, <1>12, <2>1
<1> QED BY <1>6, <1>10, <1>11, <1>12, Zenon DEF StandsAsDriven, D

(* Following constraints leads from points to points.                       *)
LEMMA OriginsArePoints ==
  ASSUME NEW l, IsLayout(l), NEW places, DOMAIN places = DOMAIN l.items,
         \A i \in DOMAIN l.items : IsPoint(places[i].at)
  PROVE  \A i \in DOMAIN l.items : IsPoint(OriginsOf(l, places)[i])
<1> DEFINE N == Len(l.items)
           D == DOMAIN l.items
<1>1. PICK at : /\ at = [n \in 0..N |-> OriginStep(l, places, at, n)]
                /\ OriginsOf(l, places) = at[N]
  BY OriginsUnfold
<1>2. N \in Nat /\ D = 1..N
  BY DEF IsLayout
<1> HIDE DEF N, D
<1>3. ASSUME NEW i \in D, IsDriven(l, i)
      PROVE  /\ IsFollower(l, i) => DriverOf(l, i).anchor \in D /\ IsPoint(DriverOf(l, i).offset)
             /\ ~IsFollower(l, i) => IsPoint(DriverOf(l, i).at)
  <2>1. DriverOf(l, i) \in Range(l.constraints) /\ Drives(DriverOf(l, i), i)
    BY <1>3, DriverFacts DEF D
  <2>2. IsConstraint(DriverOf(l, i), l)
    BY <2>1, Zenon DEF IsLayout
  <2>3. DriverOf(l, i).kind = "Fixed" \/ DriverOf(l, i).kind = "Relative"
    BY <2>1 DEF Drives
  <2> QED BY <1>3, <2>2, <2>3, Zenon DEF IsConstraint, IsFollower, D
<1>4. ASSUME NEW n \in 0..N, NEW i \in D
      PROVE  at[n][i] = IF ~IsDriven(l, i) \/ (n = 0 /\ IsFollower(l, i)) THEN places[i].at
                        ELSE IF IsFollower(l, i)
                        THEN Moved(at[n - 1][DriverOf(l, i).anchor], DriverOf(l, i).offset)
                        ELSE DriverOf(l, i).at
  <2>1. at[n] = OriginStep(l, places, at, n)
    BY <1>1, Zenon
  <2> QED BY <2>1, Zenon DEF OriginStep, D
<1> DEFINE bad == {n \in 0..N : ~\A i \in D : IsPoint(at[n][i])}
<1>5. bad = {}
  <2> SUFFICES ASSUME bad # {} PROVE FALSE
    OBVIOUS
  <2>0. bad \subseteq Nat
    BY <1>2
  <2>1. PICK n \in bad : \A k \in bad : n <= k
    <3> HIDE DEF bad
    <3> QED BY <2>0, LeastNatural
  <2>2. PICK i \in D : ~IsPoint(at[n][i])
    BY <2>1
  <2>3. n \in Nat /\ n \in 0..N
    BY <1>2, <2>1
  <2>4. n # 0 /\ IsFollower(l, i)
    BY <1>3, <1>4, <2>2, <2>3, Zenon DEF IsFollower, D
  <2>5. n - 1 \in 0..N /\ n - 1 \notin bad
    <3>1. n - 1 \in 0..N /\ ~(n <= n - 1)
      BY <1>2, <2>3, <2>4
    <3> HIDE DEF bad
    <3> QED BY <2>1, <3>1
  <2>6. DriverOf(l, i).anchor \in D /\ IsPoint(DriverOf(l, i).offset)
    BY <1>3, <2>4, Zenon DEF IsFollower
  <2>7. IsPoint(at[n - 1][DriverOf(l, i).anchor])
    BY <2>5, <2>6
  <2>8. at[n][i] = Moved(at[n - 1][DriverOf(l, i).anchor], DriverOf(l, i).offset)
    BY <1>4, <2>3, <2>4, Zenon DEF IsFollower
  <2>9. PICK p, q : p = at[n - 1][DriverOf(l, i).anchor] /\ q = DriverOf(l, i).offset
    OBVIOUS
  <2>10. IsPoint(Moved(p, q))
    BY <2>6, <2>7, <2>9 DEF IsPoint, Moved
  <2> QED BY <2>2, <2>8, <2>9, <2>10
<1>6. N \in 0..N
  BY <1>2
<1> QED BY <1>1, <1>5, <1>6 DEF D

(* Places that stand as driven are resolved to themselves.                  *)
IsPlaced(l, places) ==
  /\ places = [i \in DOMAIN l.items |-> places[i]]
  /\ \A i \in DOMAIN l.items : IsPlace(places[i])
LEMMA StandingIsResolved ==
  ASSUME NEW l, IsLayout(l), NEW places, IsPlaced(l, places), StandsAsDriven(l, places)
  PROVE  Resolved(l, places) = places
<1> DEFINE N == Len(l.items)
           D == DOMAIN l.items
<1>1. PICK at : /\ at = [n \in 0..N |-> OriginStep(l, places, at, n)]
                /\ OriginsOf(l, places) = at[N]
  BY OriginsUnfold
<1>3. N \in Nat /\ D = 1..N
  BY DEF IsLayout
<1>4. DOMAIN places = D
  BY Zenon DEF IsPlaced
<1> HIDE DEF N, D
<1>5. \A i \in D : IsFollower(l, i) => DriverOf(l, i).anchor \in D
  BY DriverFacts DEF IsFollower, D
<1>7. ASSUME NEW n \in 0..N, NEW i \in D
      PROVE  at[n][i] = IF ~IsDriven(l, i) \/ (n = 0 /\ IsFollower(l, i)) THEN places[i].at
                        ELSE IF IsFollower(l, i)
                        THEN Moved(at[n - 1][DriverOf(l, i).anchor], DriverOf(l, i).offset)
                        ELSE DriverOf(l, i).at
  <2>1. at[n] = OriginStep(l, places, at, n)
    BY <1>1, Zenon
  <2> QED BY <1>4, <2>1, Zenon DEF OriginStep
<1> DEFINE bad == {n \in 0..N : ~\A i \in D : at[n][i] = places[i].at}
<1>9. bad = {}
  <2> SUFFICES ASSUME bad # {} PROVE FALSE
    OBVIOUS
  <2>0. bad \subseteq Nat
    BY <1>3
  <2>1. PICK n \in bad : \A k \in bad : n <= k
    <3> HIDE DEF bad
    <3> QED BY <2>0, LeastNatural
  <2>2. PICK i \in D : at[n][i] # places[i].at
    BY <2>1
  <2>3. n \in Nat /\ n \in 0..N
    BY <1>3, <2>1
  <2>4. n # 0 /\ IsFollower(l, i)
    BY <1>7, <2>2, <2>3, Zenon DEF IsFollower, StandsAsDriven, D
  <2>5. n - 1 \in 0..N /\ n - 1 \notin bad
    <3>1. n - 1 \in 0..N /\ ~(n <= n - 1)
      BY <1>3, <2>3, <2>4
    <3> HIDE DEF bad
    <3> QED BY <2>1, <3>1
  <2>6. at[n - 1][DriverOf(l, i).anchor] = places[DriverOf(l, i).anchor].at
    BY <1>5, <2>4, <2>5
  <2>7. at[n][i] = places[i].at
    BY <1>7, <2>3, <2>4, <2>6, Zenon DEF IsFollower, StandsAsDriven, D
  <2> QED BY <2>2, <2>7
<1>10. N \in 0..N
  BY <1>3
<1>11. \A i \in D : MovedTo(places[i], OriginsOf(l, places)[i]) = places[i]
  <2> TAKE i \in D
  <2>1. OriginsOf(l, places)[i] = places[i].at
    BY <1>1, <1>9, <1>10
  <2>2. places[i] = Place(places[i].at, places[i].turn, places[i].side)
    BY Zenon DEF IsPlaced, IsPlace, D
  <2> QED BY <2>1, <2>2, Zenon DEF MovedTo
<1>12. places = [i \in D |-> places[i]]
  BY DEF IsPlaced, D
<1>13. Resolved(l, places) = [i \in D |-> MovedTo(places[i], OriginsOf(l, places)[i])]
  BY <1>4, Zenon DEF Resolved
<1> QED BY <1>11, <1>12, <1>13, Zenon

-----------------------------------------------------------------------------
(* The candidates of an item.                                              *)

(* The values every limit allows are a list.                                *)
LEMMA InEveryIsSeq ==
  ASSUME NEW V, NEW lists, NEW authored \in V, lists # << >> => lists[1] \in Seq(V)
  PROVE  InEvery(lists, authored) \in Seq(V)
<1>1. <<authored>> \in Seq(V)
  OBVIOUS
<1>2. CASE lists = << >>
  BY <1>1, <1>2 DEF InEvery
<1>3. CASE lists # << >>
  <2> DEFINE all == <<authored>> \o lists[1]
             chosen == {n \in DOMAIN all : /\ \A k \in DOMAIN lists : all[n] \in Range(lists[k])
                                           /\ \A m \in 1..(n - 1) : all[m] # all[n]}
  <2>1. all \in Seq(V)
    BY <1>1, <1>3
  <2>2. InEvery(lists, authored) = Among(all, chosen)
    BY <1>3, Zenon DEF InEvery
  <2> HIDE DEF all, chosen
  <2>3. \A n \in chosen \cap DOMAIN all : all[n] \in V
    BY <2>1
  <2> QED BY <2>1, <2>2, <2>3, AmongIsSeq
<1> QED BY <1>2, <1>3

LEMMA LimitsAreConstraints ==
  ASSUME layout \in Layouts, NEW i, NEW kind
  PROVE  Limits(i, kind) \in Seq({c \in Range(layout.constraints) : c.kind = kind})
<1> DEFINE s == layout.constraints
           W == {c \in Range(s) : c.kind = kind}
           chosen == {n \in DOMAIN s : s[n].kind = kind /\ s[n].of = i}
<1>1. s \in Seq(Range(s))
  BY LayoutsAssumption DEF IsLayout
<1>2. \A n \in chosen \cap DOMAIN s : s[n] \in W
  BY DEF Range
<1>3. Limits(i, kind) = Among(s, chosen)
  BY DEF Limits
<1> HIDE DEF s, chosen, W
<1>4. Among(s, chosen) \in Seq(W)
  BY <1>1, <1>2, AmongIsSeq
<1> QED BY <1>3, <1>4 DEF W, s

LEMMA TurnsAndSidesAreLists ==
  ASSUME layout \in Layouts, NEW i, IsPlace(placed[i])
  PROVE  AllowedRotations(i) \in Seq(0..3) /\ AllowedSides(i) \in Seq(Sides)
<1>1. AllowedRotations(i) \in Seq(0..3)
  <2> DEFINE limits == Limits(i, "AllowedRotations")
             W == {c \in Range(layout.constraints) : c.kind = "AllowedRotations"}
             lists == [n \in DOMAIN limits |-> limits[n].turns]
  <2>1. limits \in Seq(W)
    BY LimitsAreConstraints, Zenon
  <2>2. lists # << >> => lists[1] \in Seq(0..3)
    <3> SUFFICES ASSUME lists # << >> PROVE lists[1] \in Seq(0..3)
      OBVIOUS
    <3>1. limits # << >>
      OBVIOUS
    <3> HIDE DEF limits, W
    <3>2. 1 \in DOMAIN limits /\ limits[1] \in W
      BY <2>1, <3>1
    <3>3. lists[1] = limits[1].turns
      BY <3>2
    <3>4. limits[1].turns \in Seq(0..3)
      BY <3>2, LayoutsAssumption, Zenon DEF W, IsLayout, IsConstraint
    <3> QED BY <3>3, <3>4
  <2>3. AllowedRotations(i) = InEvery(lists, placed[i].turn)
    BY Zenon DEF AllowedRotations
  <2>4. placed[i].turn \in 0..3
    BY DEF IsPlace
  <2> HIDE DEF lists
  <2>5. InEvery(lists, placed[i].turn) \in Seq(0..3)
    BY <2>2, <2>4, InEveryIsSeq
  <2> QED BY <2>3, <2>5
<1>2. AllowedSides(i) \in Seq(Sides)
  <2> DEFINE limits == Limits(i, "AllowedSides")
             W == {c \in Range(layout.constraints) : c.kind = "AllowedSides"}
             lists == [n \in DOMAIN limits |-> limits[n].sides]
  <2>1. limits \in Seq(W)
    BY LimitsAreConstraints, Zenon
  <2>2. lists # << >> => lists[1] \in Seq(Sides)
    <3> SUFFICES ASSUME lists # << >> PROVE lists[1] \in Seq(Sides)
      OBVIOUS
    <3>1. limits # << >>
      OBVIOUS
    <3> HIDE DEF limits, W
    <3>2. 1 \in DOMAIN limits /\ limits[1] \in W
      BY <2>1, <3>1
    <3>3. lists[1] = limits[1].sides
      BY <3>2
    <3>4. limits[1].sides \in Seq(Sides)
      BY <3>2, LayoutsAssumption, Zenon DEF W, IsLayout, IsConstraint
    <3> QED BY <3>3, <3>4
  <2>3. AllowedSides(i) = InEvery(lists, placed[i].side)
    BY Zenon DEF AllowedSides
  <2>4. placed[i].side \in Sides
    BY DEF IsPlace
  <2> HIDE DEF lists
  <2>5. InEvery(lists, placed[i].side) \in Seq(Sides)
    BY <2>2, <2>4, InEveryIsSeq
  <2> QED BY <2>3, <2>5
<1> QED BY <1>1, <1>2

LEMMA DividedIsNatural ==
  ASSUME NEW a \in Nat, NEW p \in Nat, p > 0
  PROVE  a \div p \in Nat
OBVIOUS

LEMMA MultipliedInTurn ==
  \A x \in Nat, y \in Nat, z \in Nat : x * (y * z) = (x * y) * z
OBVIOUS

(* A place among rows of a length has a row and a place in it.              *)
LEMMA RowAndColumn ==
  ASSUME NEW a \in Nat, NEW b \in Nat, NEW n \in 1..(a * b)
  PROVE  (n - 1) \div b + 1 \in 1..a /\ ((n - 1) % b) + 1 \in 1..b /\ (n - 1) % b \in Nat
<1>1. b > 0
  <2> SUFFICES ASSUME b = 0 PROVE FALSE
    OBVIOUS
  <2>1. a * b = 0
    OBVIOUS
  <2> QED BY <2>1
<1>2. n \in Nat /\ n >= 1 /\ n <= a * b
  <2>1. a * b \in Nat
    OBVIOUS
  <2> QED BY <2>1
<1>3. PICK q, r : q = (n - 1) \div b /\ r = (n - 1) % b
  OBVIOUS
<1>4. q \in Nat /\ r \in 0..(b - 1) /\ n - 1 = b * q + r
  BY <1>1, <1>2, <1>3
<1>5. q < a
  <2> SUFFICES ASSUME q >= a PROVE FALSE
    BY <1>4
  <2>1. PICK d \in Nat : q = a + d
    BY <1>4
  <2>2. b * q = a * b + b * d /\ b * d \in Nat
    BY <2>1
  <2> QED BY <1>2, <1>4, <2>2
<1> QED BY <1>3, <1>4, <1>5

LEMMA GridIsFinite ==
  ASSUME layout \in Layouts, request.pitch > 0
  PROVE  Len(Grid) \in Nat /\ \A n \in 1..Len(Grid) : IsPoint(Grid[n])
<1>0. IsLayout(layout)
  BY LayoutsAssumption
<1>1. ASSUME NEW k \in {1, 2}
      PROVE  Len(Axial(k)) \in Nat /\ \A n \in 1..Len(Axial(k)) : Axial(k)[n] \in Int
  <2> DEFINE extent == layout.outline.high[k] - layout.outline.low[k]
             n == extent \div request.pitch + 1
  <2>1. extent \in Nat /\ request.pitch \in Nat
    <3>1. /\ layout.outline.low[k] \in Int /\ layout.outline.high[k] \in Int
          /\ layout.outline.low[k] <= layout.outline.high[k]
          /\ layout.policy.pitch \in Int
      BY <1>0, Zenon DEF IsLayout
    <3>2. request.pitch = layout.policy.pitch
      BY DEF request
    <3> QED BY <3>1, <3>2
  <2> HIDE DEF extent
  <2>2. n \in Nat
    BY <2>1, DividedIsNatural
  <2>3. Axial(k) = [m \in 1..n |-> layout.outline.low[k] + (m - 1) * request.pitch]
    BY DEF Axial, extent
  <2> HIDE DEF n
  <2>4. layout.outline.low[k] \in Int
    BY <1>0, Zenon DEF IsLayout
  <2>5. Len(Axial(k)) = n
    BY <2>2, <2>3
  <2>6. ASSUME NEW m \in 1..n PROVE Axial(k)[m] \in Int
    <3>1. Axial(k)[m] = layout.outline.low[k] + (m - 1) * request.pitch
      BY <2>3
    <3>2. PICK lift \in Int : lift = (m - 1) * request.pitch
      BY <2>1, <2>2
    <3> QED BY <2>4, <3>1, <3>2
  <2> QED BY <2>2, <2>5, <2>6
<1>2. Len(Axial(1)) * Len(Axial(2)) \in Nat
  BY <1>1
<1> DEFINE xs == Axial(1)
           ys == Axial(2)
           K == Len(xs) * Len(ys)
<1>3. Grid = [n \in 1..K |-> <<xs[((n - 1) % Len(xs)) + 1], ys[(n - 1) \div Len(xs) + 1]>>]
  BY DEF Grid
<1>4. K \in Nat
  BY <1>2
<1>5. ASSUME NEW n \in 1..K PROVE IsPoint(Grid[n])
  <2>1. PICK a, b : a = Len(xs) /\ b = Len(ys)
    OBVIOUS
  <2>2. a \in Nat /\ b \in Nat /\ a * b = b * a
    BY <1>1, <2>1
  <2>3. n \in 1..(b * a)
    BY <2>1, <2>2
  <2>4. (n - 1) \div a + 1 \in 1..b /\ ((n - 1) % a) + 1 \in 1..a
    BY <2>2, <2>3, RowAndColumn
  <2>5. Grid[n] = <<xs[((n - 1) % a) + 1], ys[(n - 1) \div a + 1]>>
    BY <1>3, <2>1
  <2>6. xs[((n - 1) % a) + 1] \in Int /\ ys[(n - 1) \div a + 1] \in Int
    BY <1>1, <2>1, <2>4
  <2> QED BY <2>5, <2>6 DEF IsPoint
<1> HIDE DEF K
<1>6. Len(Grid) = K
  BY <1>3, <1>4
<1> QED BY <1>4, <1>5, <1>6

(* Finitely many, its own place first; a locked item is not moved.          *)
LEMMA PlacesTriedArePlaces ==
  ASSUME layout \in Layouts, request.pitch > 0, NEW i, NEW own, placed[i] = own, IsPlace(own)
  PROVE  /\ \E K \in Nat : DOMAIN PlacesTried(i) \subseteq 0..K
         /\ 0 \in DOMAIN PlacesTried(i) /\ PlacesTried(i)[0] = own
         /\ \A n \in DOMAIN PlacesTried(i) :
              LET place == PlacesTried(i)[n]
              IN /\ IsPlace(place)
                 /\ Locked(i) => place.at = own.at
<1> DEFINE turns == AllowedRotations(i)
           sides == AllowedSides(i)
           each == Len(turns) * Len(sides)
           K == (IF Locked(i) THEN 1 ELSE Len(Grid)) * each
           all == Alternatives(i)
           at(n) == IF Locked(i) THEN own.at ELSE Grid[(n - 1) \div each + 1]
           turn(n) == turns[((n - 1) % each) \div Len(sides) + 1]
           side(n) == sides[((n - 1) % Len(sides)) + 1]
           others == Others(i)
           same == {n \in DOMAIN all : all[n] = placed[i]}
           kept == {n \in DOMAIN all \ same :
                      n - Cardinality({m \in same : m < n}) < request.limit}
<1>0. turns \in Seq(0..3) /\ sides \in Seq(Sides)
  BY TurnsAndSidesAreLists
<1>1. K \in Nat
  <2>1. Len(turns) \in Nat /\ Len(sides) \in Nat
    BY <1>0
  <2>2. Len(Grid) \in Nat
    BY GridIsFinite
  <2> HIDE DEF turns, sides
  <2>3. each \in Nat
    BY <2>1
  <2> HIDE DEF each
  <2> QED BY <2>2, <2>3
<1>2. all = [n \in 1..K |-> Place(at(n), turn(n), side(n))]
  BY Zenon DEF Alternatives
<1>12. ASSUME NEW n \in 1..K
       PROVE  IsPoint(at(n)) /\ turn(n) \in 0..3 /\ side(n) \in Sides
  <2>1. PICK a, b : a = Len(turns) /\ b = Len(sides)
    OBVIOUS
  <2>2. a \in Nat /\ b \in Nat /\ each = a * b /\ each \in Nat
    BY <1>0, <2>1
  <2>3. PICK g \in Nat : g = IF Locked(i) THEN 1 ELSE Len(Grid)
    BY GridIsFinite
  <2>4. K = g * each
    BY <2>3
  <2>5. PICK e \in Nat : e = each
    BY <2>2
  <2>6. (n - 1) \div e + 1 \in 1..g /\ ((n - 1) % e) + 1 \in 1..(a * b)
    BY <2>2, <2>4, <2>5, RowAndColumn
  <2>7. PICK m \in Nat : m = (n - 1) % e
    BY <2>4, <2>5, RowAndColumn
  <2>8. m \div b + 1 \in 1..a
    <3>1. (m + 1) - 1 = m /\ m + 1 \in 1..(a * b)
      BY <2>6, <2>7
    <3>2. ((m + 1) - 1) \div b + 1 \in 1..a
      BY <2>2, <3>1, RowAndColumn
    <3> QED BY <3>1, <3>2
  <2>9. ((n - 1) % b) + 1 \in 1..b
    <3>1. PICK c \in Nat : c = g * a
      BY <2>2
    <3> HIDE DEF K
    <3>3. g * (a * b) = (g * a) * b
      BY <2>2, MultipliedInTurn
    <3>2. K = c * b
      BY <2>2, <2>4, <3>1, <3>3, Zenon
    <3> QED BY <2>2, <3>1, <3>2, RowAndColumn
  <2>10. IsPoint(at(n))
    <3>1. CASE Locked(i)
      BY <3>1 DEF IsPlace
    <3>2. CASE ~Locked(i)
      <4>1. at(n) = Grid[(n - 1) \div e + 1] /\ g = Len(Grid)
        BY <2>3, <2>5, <3>2
      <4> QED BY <2>6, <4>1, GridIsFinite
    <3> QED BY <3>1, <3>2
  <2>11. turn(n) = turns[m \div b + 1] /\ side(n) = sides[((n - 1) % b) + 1]
    BY <2>1, <2>5, <2>7
  <2> HIDE DEF turn, side, turns, sides
  <2>12. turn(n) \in 0..3
    BY <1>0, <2>1, <2>8, <2>11
  <2>13. side(n) \in Sides
    BY <1>0, <2>1, <2>9, <2>11
  <2> QED BY <2>10, <2>12, <2>13
<1> HIDE DEF K, all, at, turn, side
<1>3. DOMAIN all = 1..K /\ \A n \in 1..K : all[n] = Place(at(n), turn(n), side(n))
  BY <1>2
<1>4. others = [n \in kept |-> all[n]]
  BY Zenon DEF Others, all, Restrict
<1>5. kept \subseteq 1..K
  BY <1>3
<1> HIDE DEF kept
<1>6. PlacesTried(i) = [n \in kept \cup {0} |-> IF n = 0 THEN own ELSE all[n]]
  <2>1. DOMAIN others = kept /\ \A n \in kept : others[n] = all[n]
    BY <1>4
  <2>2. PlacesTried(i) = [n \in DOMAIN others \cup {0} |-> IF n = 0 THEN placed[i] ELSE others[n]]
    BY Zenon DEF PlacesTried
  <2> HIDE DEF others
  <2>3. \A n \in kept \cup {0} : (IF n = 0 THEN placed[i] ELSE others[n])
                                 = (IF n = 0 THEN own ELSE all[n])
    BY <2>1
  <2> QED BY <2>1, <2>2, <2>3, Zenon
<1> HIDE DEF others
<1>7. ASSUME NEW n \in 1..K
      PROVE  /\ IsPlace(all[n])
             /\ Locked(i) => all[n].at = own.at
  <2>1. all[n] = Place(at(n), turn(n), side(n))
    BY <1>3
  <2>2. all[n].at = at(n) /\ all[n].turn = turn(n) /\ all[n].side = side(n)
    BY <2>1 DEF Place
  <2>3. Locked(i) => at(n) = own.at
    BY DEF at
  <2>4. IsPlace(all[n])
    BY <1>12, <2>1, <2>2, Zenon DEF IsPlace
  <2> QED BY <2>2, <2>3, <2>4
<1>8. DOMAIN PlacesTried(i) = kept \cup {0}
  BY <1>6
<1>9. DOMAIN PlacesTried(i) \subseteq 0..K
  <2>1. \A n \in kept : n \in 1..K /\ n \in 0..K
    BY <1>1, <1>5
  <2> QED BY <1>1, <1>8, <2>1
<1>10. PlacesTried(i)[0] = own
  BY <1>6
<1>11. ASSUME NEW n \in DOMAIN PlacesTried(i)
       PROVE  /\ IsPlace(PlacesTried(i)[n])
              /\ Locked(i) => PlacesTried(i)[n].at = own.at
  <2>1. CASE n = 0
    BY <1>10, <2>1, Zenon
  <2>2. CASE n # 0
    <3>1. n \in 1..K /\ PlacesTried(i)[n] = all[n]
      BY <1>5, <1>6, <1>8, <2>2
    <3> QED BY <1>7, <3>1, Zenon
  <2> QED BY <2>1, <2>2
<1> QED BY <1>1, <1>8, <1>9, <1>10, <1>11, Zenon

-----------------------------------------------------------------------------
(* What holds while items are settled: driven items stand as driven, the    *)
(* settled ones are inside the board and clear of each other, and unless    *)
(* something was found, every item has an envelope and is settled or waits. *)
PlacingHolds(l, places, done, left, found) ==
  /\ LayoutIsSound(l)
  /\ StandsAsDriven(l, places)
  /\ done \cap left = {}
  /\ \A i \in done :
       /\ IsInside(l, BoxAt(l, i, places[i]))
       /\ \A j \in done \ {i} : AreClear(l, i, places[i], j, places[j])
  /\ found = {} => /\ done \cup left = DOMAIN l.items
                   /\ \A i \in DOMAIN l.items : HasEnvelope(l.items[i])

SolverInv ==
  /\ layout \in Layouts
  /\ IsPlaced(layout, placed)
  /\ settled \cup waiting \subseteq DOMAIN layout.items
  /\ stage \in {"asked", "placing", "done"}
  /\ stage = "asked" => settled = {}
  /\ stage = "placing" =>
       layout.policy.pitch > 0 /\ PlacingHolds(layout, placed, settled, waiting, faults)
  /\ stage = "done" /\ faults = {} =>
       /\ PlacingHolds(layout, placed, settled, waiting, faults) /\ waiting = {}
       /\ \A c \in Range(layout.constraints) : SatisfiedOn(layout, c, placed)

LEMMA ClearBothWays ==
  \A l, i, a, j, b : AreClear(l, i, a, j, b) <=> AreClear(l, j, b, i, a)
<1>1. ASSUME NEW a, NEW b, NEW c, Apart(a, b, c) PROVE Apart(b, a, c)
  BY <1>1, Zenon DEF Apart
<1> QED BY <1>1, Zenon DEF AreClear

(* An item moved to a place that is inside, clear of the settled ones and,  *)
(* if it is locked, where it was.                                           *)
LEMMA SettlingKeeps ==
  ASSUME NEW l, IsLayout(l), NEW places, NEW done, NEW left, NEW found, NEW i \in left, NEW place,
         left \subseteq DOMAIN l.items, done \subseteq DOMAIN l.items,
         IsPlaced(l, places), PlacingHolds(l, places, done, left, found),
         IsPlace(place),
         IsLocked(l, i) => place.at = places[i].at,
         IsInside(l, BoxAt(l, i, place)),
         \A j \in done : AreClear(l, i, place, j, places[j])
  PROVE  LET moved == [places EXCEPT ![i] = place]
         IN /\ IsPlaced(l, moved)
            /\ PlacingHolds(l, moved, done \cup {i}, left \ {i}, found)
<1> DEFINE moved == [places EXCEPT ![i] = place]
           D == DOMAIN l.items
<1>1. DOMAIN places = D
  BY Zenon DEF IsPlaced
<1>2. /\ DOMAIN moved = D /\ moved[i] = place
      /\ \A k \in D : k # i => moved[k] = places[k]
      /\ moved = [k \in D |-> moved[k]]
  BY <1>1
<1> HIDE DEF moved, D
<1>3. i \in D /\ i \notin done
  BY DEF PlacingHolds, D
<1>4. IsPlaced(l, moved)
  <2>1. \A k \in D : IsPlace(places[k])
    BY Zenon DEF IsPlaced, D
  <2>2. \A k \in D : IsPlace(moved[k])
    BY <1>2, <2>1, Zenon
  <2> QED BY <1>2, <2>2, Zenon DEF IsPlaced, D
<1>5. \A k \in D : IsLocked(l, k) => moved[k].at = places[k].at
  BY <1>2, Zenon
<1>6. StandsAsDriven(l, moved)
  <2>1. ASSUME NEW k \in D, IsFollower(l, k)
        PROVE  moved[k].at = Moved(moved[DriverOf(l, k).anchor].at, DriverOf(l, k).offset)
    <3>1. IsDriven(l, k) /\ IsLocked(l, k)
      BY <2>1, Zenon DEF IsFollower, IsLocked
    <3>2. DriverOf(l, k) \in Range(l.constraints) /\ DriverOf(l, k).anchor \in D
      BY <2>1, <3>1, DriverFacts DEF D
    <3>3. IsLocked(l, DriverOf(l, k).anchor)
      BY <2>1, <3>2, Zenon DEF IsFollower, IsLocked
    <3>4. places[k].at = Moved(places[DriverOf(l, k).anchor].at, DriverOf(l, k).offset)
      BY <2>1, Zenon DEF PlacingHolds, StandsAsDriven, D
    <3> QED BY <1>5, <3>1, <3>2, <3>3, <3>4, Zenon
  <2>2. ASSUME NEW k \in D, IsDriven(l, k), ~IsFollower(l, k)
        PROVE  moved[k].at = DriverOf(l, k).at
    <3>1. IsLocked(l, k)
      BY <2>2, Zenon DEF IsLocked
    <3>2. places[k].at = DriverOf(l, k).at
      BY <2>2, Zenon DEF PlacingHolds, StandsAsDriven, D
    <3> QED BY <1>5, <3>1, <3>2, Zenon
  <2> QED BY <2>1, <2>2, Zenon DEF StandsAsDriven, D
<1>7. ASSUME NEW k \in done \cup {i}
      PROVE  /\ IsInside(l, BoxAt(l, k, moved[k]))
             /\ \A j \in (done \cup {i}) \ {k} : AreClear(l, k, moved[k], j, moved[j])
  <2>1. \A j \in done : moved[j] = places[j]
    BY <1>2, <1>3 DEF D
  <2>2. CASE k = i
    <3>1. IsInside(l, BoxAt(l, k, moved[k]))
      BY <1>2, <2>2, Zenon
    <3>2. \A j \in (done \cup {i}) \ {k} : AreClear(l, k, moved[k], j, moved[j])
      BY <1>2, <2>1, <2>2, Zenon
    <3> QED BY <3>1, <3>2
  <2>3. CASE k # i
    <3>0. k \in done
      BY <2>3
    <3>1. IsInside(l, BoxAt(l, k, moved[k]))
      BY <2>1, <3>0, Zenon DEF PlacingHolds
    <3>2. ASSUME NEW j \in (done \cup {i}) \ {k}
          PROVE  AreClear(l, k, moved[k], j, moved[j])
      <4>1. CASE j = i
        BY <1>2, <2>1, <3>0, <4>1, ClearBothWays, Zenon
      <4>2. CASE j # i
        <5>1. j \in done \ {k}
          BY <4>2
        <5> QED BY <2>1, <3>0, <5>1, Zenon DEF PlacingHolds
      <4> QED BY <4>1, <4>2
    <3> QED BY <3>1, <3>2
  <2> QED BY <2>2, <2>3
<1>8. (done \cup {i}) \cap (left \ {i}) = {}
  BY DEF PlacingHolds
<1>9. (done \cup {i}) \cup (left \ {i}) = done \cup left
  OBVIOUS
<1>10. PlacingHolds(l, moved, done \cup {i}, left \ {i}, found)
  BY <1>6, <1>7, <1>8, <1>9, Zenon DEF PlacingHolds
<1> QED BY <1>4, <1>10 DEF moved

-----------------------------------------------------------------------------
(* The steps.                                                              *)

LEMMA TurnWaits ==
  ASSUME layout \in Layouts, waiting \subseteq DOMAIN layout.items, waiting # {}
  PROVE  Turn \in waiting
<1>1. DOMAIN layout.items \subseteq Nat
  BY LayoutsAssumption DEF IsLayout
<1> DEFINE locked == {i \in waiting : Locked(i)}
<1>2. locked \subseteq Nat /\ waiting \subseteq Nat
  BY <1>1
<1>3. Turn = IF locked # {} THEN Min(locked) ELSE Min(waiting)
  BY Zenon DEF Turn
<1>4. locked \subseteq waiting
  OBVIOUS
<1> HIDE DEF locked
<1>5. locked # {} => Min(locked) \in locked
  BY <1>2, MinOfNaturals
<1>6. Min(waiting) \in waiting
  BY <1>2, MinOfNaturals
<1> QED BY <1>3, <1>4, <1>5, <1>6

(* What is allowed of the candidates of the item whose turn it is.          *)
Allowed(i) ==
  Restrict(PlacesTried(i), {n \in DOMAIN PlacesTried(i) : CandidateAllowed(i, PlacesTried(i)[n], Blockers(i))})

(* An item's own place, when it may be kept, is the first that is allowed.  *)
LEMMA OwnPlaceComesFirst ==
  ASSUME layout \in Layouts, NEW i, IsPlace(placed[i]), request.pitch > 0,
         CandidateAllowed(i, placed[i], Blockers(i))
  PROVE  0 \in DOMAIN Allowed(i) /\ Allowed(i)[0] = placed[i]
<1> DEFINE D == {n \in DOMAIN PlacesTried(i) : CandidateAllowed(i, PlacesTried(i)[n], Blockers(i))}
<1>1. 0 \in DOMAIN PlacesTried(i) /\ PlacesTried(i)[0] = placed[i]
  BY PlacesTriedArePlaces, Zenon
<1>2. Allowed(i) = [n \in D |-> PlacesTried(i)[n]]
  BY Zenon DEF Allowed, Restrict
<1>3. 0 \in D
  BY <1>1
<1> HIDE DEF D
<1> QED BY <1>1, <1>2, <1>3

LEMMA AllowedArePlaces ==
  ASSUME layout \in Layouts, NEW i, IsPlace(placed[i]), request.pitch > 0
  PROVE  /\ \E K \in Nat : DOMAIN Allowed(i) \subseteq 0..K
         /\ \A n \in DOMAIN Allowed(i) : IsPlace(Allowed(i)[n])
<1> DEFINE tried == PlacesTried(i)
           D == {n \in DOMAIN tried : CandidateAllowed(i, tried[n], Blockers(i))}
<1>1. Allowed(i) = [n \in D |-> tried[n]]
  BY Zenon DEF Allowed, Restrict
<1>2. \E K \in Nat : DOMAIN tried \subseteq 0..K
  BY PlacesTriedArePlaces, Zenon
<1>3. \A n \in DOMAIN tried : IsPlace(tried[n])
  BY PlacesTriedArePlaces, Zenon
<1>4. D \subseteq DOMAIN tried
  OBVIOUS
<1> HIDE DEF D, tried
<1>5. DOMAIN Allowed(i) = D /\ \A n \in D : Allowed(i)[n] = tried[n]
  BY <1>1
<1> QED BY <1>2, <1>3, <1>4, <1>5

LEMMA AllowedPlaces ==
  ASSUME SolverInv, stage = "placing", NEW i \in waiting, DOMAIN Allowed(i) # {}
  PROVE  LET place == Accepted(i, Allowed(i))
         IN /\ IsPlace(place)
            /\ IsLocked(layout, i) => place.at = placed[i].at
            /\ IsInside(layout, BoxAt(layout, i, place))
            /\ \A j \in settled : AreClear(layout, i, place, j, placed[j])
<1> DEFINE tried == PlacesTried(i)
           D == {n \in DOMAIN tried : CandidateAllowed(i, tried[n], Blockers(i))}
<1>1. Allowed(i) = [n \in D |-> tried[n]]
  BY Zenon DEF Allowed, Restrict
<1>2. /\ IsPlace(placed[i])
      /\ request.pitch > 0 /\ layout \in Layouts
  <2>1. i \in DOMAIN layout.items
    BY DEF SolverInv
  <2>2. IsPlace(placed[i])
    BY <2>1, Zenon DEF SolverInv, IsPlaced
  <2>3. layout.policy.pitch > 0 /\ layout \in Layouts
    BY Zenon DEF SolverInv
  <2>4. request.pitch > 0
    BY <2>3 DEF request
  <2> QED BY <2>2, <2>3, <2>4
<1>3. /\ \E K \in Nat : DOMAIN tried \subseteq 0..K
      /\ \A n \in DOMAIN tried :
           LET place == tried[n]
           IN /\ IsPlace(place)
              /\ Locked(i) => place.at = placed[i].at
  BY <1>2, PlacesTriedArePlaces, Zenon
<1> HIDE DEF tried
<1>4. PICK K \in Nat : DOMAIN tried \subseteq 0..K
  BY <1>3
<1>5. DOMAIN Allowed(i) = D /\ D \subseteq DOMAIN tried
  BY <1>1
<1>6. PICK k \in DOMAIN Allowed(i) : Accepted(i, Allowed(i)) = Allowed(i)[k]
  <2>1. DOMAIN Allowed(i) \subseteq 0..K
    BY <1>4, <1>5
  <2> HIDE DEF D
  <2> QED BY <2>1, AcceptedIsAllowed, Zenon
<1>7. PICK n \in D : Accepted(i, Allowed(i)) = tried[n]
  BY <1>1, <1>5, <1>6
<1> DEFINE place == tried[n]
<1>8. n \in DOMAIN tried /\ CandidateAllowed(i, place, Blockers(i))
  BY <1>7
<1>9. settled \subseteq Blockers(i)
  BY DEF Blockers
<1>10. IsPlace(place) /\ (IsLocked(layout, i) => place.at = placed[i].at)
  BY <1>3, <1>8, SameDrivers, Zenon
<1> HIDE DEF place
<1>11. IsInside(layout, BoxAt(layout, i, place))
  BY <1>8, SameBounds, Zenon DEF CandidateAllowed
<1>12. ASSUME NEW j \in settled PROVE AreClear(layout, i, place, j, placed[j])
  <2>1. placed[j].side = place.side
          => Apart(Bounds(i, place), Bounds(j, placed[j]), request.clearance)
    BY <1>8, <1>9, Zenon DEF CandidateAllowed
  <2> QED BY <2>1, SameBounds, Zenon DEF AreClear, request
<1>13. Accepted(i, Allowed(i)) = place
  BY <1>7 DEF place
<1> QED BY <1>10, <1>11, <1>12, <1>13, Zenon

LEMMA SolverBegins == ASSUME SolverInit PROVE SolverInv
<1>1. layout \in Layouts /\ IsLayout(layout)
  BY LayoutsAssumption DEF SolverInit
<1>2. placed = AsAuthored(layout)
  BY SameResolution DEF SolverInit
<1>3. \A i \in DOMAIN layout.items :
        IsPlace(layout.items[i].place)
  BY <1>1, Zenon DEF IsLayout, IsItem, Range
<1>4. IsPlaced(layout, placed)
  BY <1>2, <1>3, Zenon DEF IsPlaced, AsAuthored
<1>5. settled = {} /\ waiting = {} /\ stage = "asked"
  BY DEF SolverInit
<1> QED BY <1>1, <1>4, <1>5 DEF SolverInv

LEMMA RefuseKeeps == ASSUME SolverInv, RefuseCall PROVE SolverInv'
<1>1. faults' # {}
  <2>1. CASE ~ValidLayout /\ faults' = {"InvalidLayout"}
    BY <2>1
  <2>2. CASE ValidLayout /\ PolicyFaults # {} /\ faults' = PolicyFaults
    BY <2>2, Zenon
  <2>3. CASE ValidLayout /\ PolicyFaults = {} /\ Cyclic /\ faults' = {"RelativeCycle"}
    BY <2>3
  <2> QED BY <2>1, <2>2, <2>3, Zenon DEF RefuseCall
<1>2. stage' = "done" /\ layout' = layout /\ placed' = placed /\ settled' = settled /\ waiting' = waiting
  BY DEF RefuseCall
<1>3. layout' \in Layouts /\ IsPlaced(layout', placed') /\ settled' \cup waiting' \subseteq DOMAIN layout'.items
  BY <1>2 DEF SolverInv
<1> QED BY <1>1, <1>2, <1>3 DEF SolverInv

LEMMA ResolveKeeps == ASSUME SolverInv, Resolve PROVE SolverInv'
<1> DEFINE D == DOMAIN layout.items
<1>1. layout \in Layouts /\ IsLayout(layout) /\ IsPlaced(layout, placed)
  BY LayoutsAssumption DEF SolverInv
<1>2. ValidLayout /\ PolicyFaults = {} /\ ~Cyclic /\ stage = "asked"
  BY DEF Resolve
<1>3. LayoutIsSound(layout) /\ ~IsCyclic(layout)
  BY <1>2, SameSoundness, SameCycles
<1>4. placed' = Resolved(layout, placed)
  BY SameResolution, Zenon DEF Resolve
<1>5. DOMAIN placed = D
  BY <1>1, Zenon DEF IsPlaced
<1>6. StandsAsDriven(layout, placed')
  BY <1>1, <1>3, <1>4, <1>5, ResolvedStands
<1>7. IsPlaced(layout, placed')
  <2>1. placed' = [i \in D |-> MovedTo(placed[i], OriginsOf(layout, placed)[i])]
    BY <1>4, <1>5, Zenon DEF Resolved
  <2>2. \A i \in D : placed'[i] = Place(OriginsOf(layout, placed)[i], placed[i].turn, placed[i].side)
    BY <2>1, Zenon DEF MovedTo
  <2>3. \A i \in D : IsPlace(placed'[i])
    <3> SUFFICES ASSUME NEW i \in D PROVE IsPlace(placed'[i])
      OBVIOUS
    <3>0. \A k \in D : IsPlace(placed[k])
      BY <1>1, Zenon DEF IsPlaced
    <3>1. PICK at, turn, side : /\ placed'[i] = Place(at, turn, side)
                                /\ at = OriginsOf(layout, placed)[i]
                                /\ turn = placed[i].turn /\ side = placed[i].side
      BY <2>2, Zenon
    <3>2. Place(at, turn, side).at = at /\ Place(at, turn, side).turn = turn
          /\ Place(at, turn, side).side = side
      BY DEF Place
    <3>3. \A k \in D : IsPoint(placed[k].at)
      BY <3>0, Zenon DEF IsPlace
    <3>4. IsPoint(at)
      BY <1>1, <1>5, <3>1, <3>3, OriginsArePoints
    <3>5. turn \in 0..3 /\ side \in Sides
      BY <3>0, <3>1, Zenon DEF IsPlace
    <3> QED BY <3>1, <3>2, <3>4, <3>5, Zenon DEF IsPlace
  <2>4. placed' = [i \in D |-> placed'[i]]
    BY <2>1
  <2> QED BY <2>3, <2>4, Zenon DEF IsPlaced
<1>8. settled = {} /\ settled' = {} /\ layout' = layout /\ stage' = "placing"
  BY <1>2 DEF SolverInv, Resolve
<1>9. /\ waiting' = {i \in D : HasEnvelope(layout.items[i])}
      /\ faults' = IF \A i \in D : HasEnvelope(layout.items[i]) THEN {} ELSE {"MissingEnvelope"}
  BY Zenon DEF Resolve, items
<1>10. faults' = {} => \A i \in D : HasEnvelope(layout.items[i])
  BY <1>9
<1>11. PlacingHolds(layout, placed', {}, waiting', faults')
  <2>1. faults' = {} => waiting' = D
    BY <1>9, <1>10
  <2>2. {} \cap waiting' = {} /\ {} \cup waiting' = waiting'
    OBVIOUS
  <2> QED BY <1>3, <1>6, <1>10, <2>1, <2>2, Zenon DEF PlacingHolds
<1>12. layout.policy.pitch > 0
  <2>1. ~(request.pitch <= 0)
    <3> SUFFICES ASSUME request.pitch <= 0 PROVE "NonPositiveGridPitch" \in PolicyFaults
      BY <1>2
    <3> QED BY DEF PolicyFaults
  <2>2. layout.policy.pitch \in Int
    BY <1>1, Zenon DEF IsLayout
  <2> QED BY <2>1, <2>2 DEF request
<1>13. settled' \cup waiting' \subseteq DOMAIN layout.items
  BY <1>8, <1>9
<1> QED BY <1>1, <1>7, <1>8, <1>11, <1>12, <1>13 DEF SolverInv

LEMMA PlacingKeeps == ASSUME SolverInv, PlaceNext PROVE SolverInv'
<1> DEFINE i == Turn
           allowed == Allowed(i)
           place == Accepted(i, allowed)
<1>1. layout \in Layouts /\ IsLayout(layout) /\ IsPlaced(layout, placed)
      /\ settled \subseteq DOMAIN layout.items /\ waiting \subseteq DOMAIN layout.items
  BY LayoutsAssumption DEF SolverInv
<1>2. stage = "placing" /\ waiting # {} /\ layout' = layout /\ stage' = stage /\ waiting' = waiting \ {i}
  BY DEF PlaceNext
<1>3. i \in waiting
  BY <1>1, <1>2, TurnWaits
<1>4. layout.policy.pitch > 0 /\ PlacingHolds(layout, placed, settled, waiting, faults)
  BY <1>2 DEF SolverInv
<1>5. Settle(i, allowed) \/ GiveUp(i, allowed)
  BY Zenon DEF PlaceNext, Allowed
<1>6. CASE Settle(i, allowed)
  <2>1. DOMAIN allowed # {} /\ placed' = [placed EXCEPT ![i] = place]
        /\ settled' = settled \cup {i} /\ faults' = faults
    BY <1>6 DEF Settle
  <2>2. /\ IsPlace(place)
        /\ IsLocked(layout, i) => place.at = placed[i].at
        /\ IsInside(layout, BoxAt(layout, i, place))
        /\ \A j \in settled : AreClear(layout, i, place, j, placed[j])
    BY <1>2, <1>3, <2>1, AllowedPlaces, Zenon
  <2> HIDE DEF i, place, allowed
  <2>3. LET moved == [placed EXCEPT ![i] = place]
        IN /\ IsPlaced(layout, moved)
           /\ PlacingHolds(layout, moved, settled \cup {i}, waiting \ {i}, faults)
    BY <1>1, <1>3, <1>4, <2>2, SettlingKeeps
  <2>4. /\ IsPlaced(layout', placed')
        /\ PlacingHolds(layout', placed', settled', waiting', faults')
    BY <1>2, <2>1, <2>3
  <2>5. settled' \cup waiting' \subseteq DOMAIN layout'.items
    BY <1>1, <1>2, <1>3, <2>1
  <2> QED BY <1>1, <1>2, <1>4, <2>4, <2>5 DEF SolverInv
<1>7. CASE GiveUp(i, allowed)
  <2>1. placed' = placed /\ settled' = settled /\ faults' # {}
    BY <1>7 DEF GiveUp
  <2> HIDE DEF i, place, allowed
  <2>2. settled \cap (waiting \ {i}) = {}
    BY <1>4 DEF PlacingHolds
  <2>3. PlacingHolds(layout, placed, settled, waiting \ {i}, faults')
    BY <1>4, <2>1, <2>2, Zenon DEF PlacingHolds
  <2>4. settled' \cup waiting' \subseteq DOMAIN layout'.items
    BY <1>1, <1>2, <2>1
  <2> QED BY <1>1, <1>2, <1>4, <2>1, <2>3, <2>4 DEF SolverInv
<1> QED BY <1>5, <1>6, <1>7

LEMMA CertifyKeeps == ASSUME SolverInv, Certify PROVE SolverInv'
<1>1. layout \in Layouts /\ IsLayout(layout) /\ IsPlaced(layout, placed)
      /\ settled \cup waiting \subseteq DOMAIN layout.items
  BY LayoutsAssumption DEF SolverInv
<1>2. stage = "placing" /\ waiting = {} /\ stage' = "done"
      /\ layout' = layout /\ placed' = placed /\ settled' = settled /\ waiting' = waiting
  BY DEF Certify
<1>3. PlacingHolds(layout, placed, settled, waiting, faults)
  BY <1>2 DEF SolverInv
<1>4. Resolution(placed) = placed
  <2>1. StandsAsDriven(layout, placed)
    BY <1>3, Zenon DEF PlacingHolds
  <2>2. Resolved(layout, placed) = placed
    BY <1>1, <2>1, StandingIsResolved
  <2> QED BY <2>2, SameResolution
<1>5. ASSUME faults' = {}
      PROVE  faults = {} /\ \A c \in Range(layout.constraints) : SatisfiedOn(layout, c, placed)
  <2>1. faults' = faults \cup {c.kind : c \in {d \in Constraints : ~Satisfied(d, placed)}}
    BY <1>4, Zenon DEF Certify
  <2>2. ASSUME NEW c \in Constraints, ~Satisfied(c, placed) PROVE FALSE
    <3>1. c.kind \in faults'
      BY <2>1, <2>2, Zenon
    <3> QED BY <1>5, <3>1
  <2>3. \A c \in Range(layout.constraints) : SatisfiedOn(layout, c, placed)
    BY <2>2, SameVerdicts, Zenon DEF Constraints
  <2>4. faults = {}
    BY <1>5, <2>1
  <2> QED BY <2>3, <2>4
<1>6. faults' = {} => /\ PlacingHolds(layout, placed, settled, waiting, faults')
                      /\ \A c \in Range(layout.constraints) : SatisfiedOn(layout, c, placed)
  BY <1>3, <1>5
<1> QED BY <1>1, <1>2, <1>6 DEF SolverInv

LEMMA SolverStutters == ASSUME SolverInv, UNCHANGED solverVars PROVE SolverInv'
BY DEF SolverInv, solverVars

LEMMA SolverInvHolds == SolverSpec => []SolverInv
<1>1. SolverInit => SolverInv
  BY SolverBegins
<1>2. SolverInv /\ [SolverNext]_solverVars => SolverInv'
  BY RefuseKeeps, ResolveKeeps, PlacingKeeps, CertifyKeeps, SolverStutters, Zenon
     DEF SolverNext, Answered
<1> QED BY <1>1, <1>2, PTL DEF SolverSpec

(* A constraint that drives an item is the one it stands as driven by.      *)
LEMMA SolverInvIsLegal == ASSUME SolverInv PROVE SolvedIsLegal
<1> SUFFICES ASSUME stage = "done", faults = {} PROVE IsLegal(layout, placed)
  BY SameLegality DEF SolvedIsLegal
<1> DEFINE l == layout
<1>1. /\ IsLayout(l) /\ PlacingHolds(l, placed, settled, waiting, faults) /\ waiting = {}
      /\ \A c \in Range(l.constraints) : SatisfiedOn(l, c, placed)
  BY LayoutsAssumption DEF SolverInv
<1> HIDE DEF l
<1>2. settled = DOMAIN l.items /\ \A i \in DOMAIN l.items : HasEnvelope(l.items[i])
  <2>1. settled \cup waiting = DOMAIN l.items /\ \A i \in DOMAIN l.items : HasEnvelope(l.items[i])
    BY <1>1, Zenon DEF PlacingHolds
  <2> QED BY <1>1, <2>1
<1>3. \A i \in DOMAIN l.items :
        /\ IsInside(l, BoxAt(l, i, placed[i]))
        /\ \A j \in DOMAIN l.items \ {i} : AreClear(l, i, placed[i], j, placed[j])
  BY <1>1, <1>2, Zenon DEF PlacingHolds
<1>4. ASSUME NEW c \in Range(l.constraints), NEW i \in DOMAIN l.items, Drives(c, i)
      PROVE  IsDriven(l, i) /\ DriverOf(l, i) = c
  <2>1. IsDriven(l, i)
    BY <1>4, Zenon DEF IsDriven
  <2>2. DriverOf(l, i) \in Range(l.constraints) /\ Drives(DriverOf(l, i), i)
    BY <1>1, <2>1, DriverFacts
  <2>3. PICK m \in DOMAIN l.constraints : c = l.constraints[m]
    BY Zenon DEF Range
  <2>4. PICK n \in DOMAIN l.constraints : DriverOf(l, i) = l.constraints[n]
    BY <2>2, Zenon DEF Range
  <2>5. m = n
    BY <1>1, <1>4, <2>2, <2>3, <2>4, Zenon DEF PlacingHolds, LayoutIsSound
  <2> QED BY <2>1, <2>3, <2>4, <2>5
<1>5. ASSUME NEW c \in Range(l.constraints)
      PROVE  DoesHold(l, c, placed)
  <2>1. ASSUME c.kind = "Fixed" PROVE placed[c.of].at = c.at
    <3>1. c.of \in DOMAIN l.items /\ Drives(c, c.of)
      BY <1>1, <2>1, Zenon DEF IsLayout, IsConstraint, Drives
    <3>2. IsDriven(l, c.of) /\ DriverOf(l, c.of) = c
      BY <1>4, <3>1
    <3>3. ~IsFollower(l, c.of)
      BY <2>1, <3>2 DEF IsFollower
    <3> QED BY <1>1, <3>1, <3>2, <3>3, Zenon DEF PlacingHolds, StandsAsDriven
  <2>2. ASSUME c.kind = "Relative" PROVE placed[c.of].at = Moved(placed[c.anchor].at, c.offset)
    <3>1. c.of \in DOMAIN l.items /\ Drives(c, c.of)
      BY <1>1, <2>2, Zenon DEF IsLayout, IsConstraint, Drives
    <3>2. IsDriven(l, c.of) /\ DriverOf(l, c.of) = c
      BY <1>4, <3>1
    <3>3. IsFollower(l, c.of)
      BY <2>2, <3>2 DEF IsFollower
    <3> QED BY <1>1, <3>1, <3>2, <3>3, Zenon DEF PlacingHolds, StandsAsDriven
  <2> QED BY <1>1, <2>1, <2>2, Zenon DEF DoesHold
<1>6. IsLegal(l, placed)
  BY <1>2, <1>3, <1>5, Zenon DEF IsLegal
<1> QED BY <1>6 DEF l

(* A layout the solver reports as solved satisfies every constraint and     *)
(* every rule of the board, whatever was asked and in whatever order the   *)
(* components were settled.                                                *)
THEOREM SolutionsAreLegal == SolverSpec => []SolvedIsLegal
BY SolverInvHolds, SolverInvIsLegal, PTL

-----------------------------------------------------------------------------
(* A legal layout stays as it is.                                          *)

FaultsOf(l) ==
  {fault \in {"NonPositiveGridPitch", "NegativeClearance", "ZeroCandidateLimit",
              "NonPositiveDensityRadius", "NonPositivePinAccessProbeDistance",
              "NonPositivePinAccessTraceWidth", "NegativePinAccessClearance"} :
     /\ fault = "NonPositiveGridPitch" => l.policy.pitch <= 0
     /\ fault = "NegativeClearance" => l.policy.clearance < 0
     /\ fault = "ZeroCandidateLimit" => l.policy.limit = 0
     /\ fault = "NonPositiveDensityRadius" => l.policy.density < 0
     /\ fault = "NonPositivePinAccessProbeDistance" =>
          l.policy.access # << >> /\ l.policy.access[1].distance <= 0
     /\ fault = "NonPositivePinAccessTraceWidth" =>
          l.policy.access # << >> /\ l.policy.access[1].halfWidth <= 0
     /\ fault = "NegativePinAccessClearance" =>
          l.policy.access # << >> /\ l.policy.access[1].clearance < 0}
LEMMA SameFaults == PolicyFaults = FaultsOf(layout)
BY Zenon DEF PolicyFaults, FaultsOf, request

MayStay(l) ==
  /\ LayoutIsSound(l) /\ FaultsOf(l) = {} /\ ~IsCyclic(l) /\ ~l.policy.optimize
  /\ IsLegal(l, Resolved(l, AsAuthored(l)))
(* Until it is resolved the layout is the authored one; from then on it is  *)
(* what resolving it made, and nothing was found.                           *)
StayInv ==
  /\ stage = "asked" => placed = AsAuthored(layout)
  /\ MayStay(layout) /\ stage # "asked" =>
       placed = Resolved(layout, AsAuthored(layout)) /\ faults = {}

(* What resolving made keeps the authored sides and turns.                  *)
LEMMA OthersStandAsPlaced ==
  ASSUME layout \in Layouts, placed = Resolved(layout, AsAuthored(layout)),
         NEW i \in DOMAIN layout.items
  PROVE  Standing(i, placed[i]) = placed
<1> DEFINE D == DOMAIN layout.items
           origins == OriginsOf(layout, AsAuthored(layout))
<1>1. DOMAIN AsAuthored(layout) = D /\ \A j \in D : AsAuthored(layout)[j] = layout.items[j].place
  BY DEF AsAuthored
<1>2. placed = [j \in D |-> MovedTo(layout.items[j].place, origins[j])]
  <2>1. placed = [j \in D |-> MovedTo(AsAuthored(layout)[j], origins[j])]
    BY <1>1, Zenon DEF Resolved
  <2> QED BY <1>1, <2>1, Zenon
<1> HIDE DEF origins
<1>3. \A j \in D : placed[j] = MovedTo(layout.items[j].place, origins[j])
  BY <1>2, Zenon
<1>4. \A j \in D : placed[j].at = origins[j]
  <2>1. \A place, at : MovedTo(place, at).at = at
    BY DEF MovedTo, Place
  <2> TAKE j \in D
  <2>2. placed[j] = MovedTo(layout.items[j].place, origins[j])
    BY <1>3
  <2> QED BY <2>1, <2>2, Zenon
<1>5. \A j \in D : (IF j = i THEN placed[i] ELSE MovedTo(items[j].place, placed[j].at)) = placed[j]
  BY <1>3, <1>4, Zenon DEF items
<1>6. placed = [j \in D |-> placed[j]]
  BY <1>2, <1>3, Zenon
<1>7. Standing(i, placed[i])
        = [j \in D |-> IF j = i THEN placed[i] ELSE MovedTo(items[j].place, placed[j].at)]
  BY DEF Standing, items
<1> QED BY <1>5, <1>6, <1>7, Zenon

(* Where a layout is legal, each item's own place is a candidate that is    *)
(* allowed.                                                                 *)
LEMMA OwnPlaceIsAllowed ==
  ASSUME layout \in Layouts, placed = Resolved(layout, AsAuthored(layout)),
         IsLegal(layout, placed), NEW i \in DOMAIN layout.items,
         settled \subseteq DOMAIN layout.items, i \notin settled
  PROVE  CandidateAllowed(i, placed[i], Blockers(i))
<1> DEFINE D == DOMAIN layout.items
<1>1. IsLayout(layout) /\ D \subseteq Nat
  BY LayoutsAssumption DEF IsLayout
<1>2. ASSUME NEW j \in Blockers(i)
      PROVE  j \in D \ {i}
  <2>1. j \in settled \/ (j \in DOMAIN items /\ j > i)
    BY DEF Blockers
  <2>2. CASE j \in settled
    BY <2>2
  <2>3. CASE j \in DOMAIN items /\ j > i
    <3>1. j \in D /\ j > i
      BY <2>3 DEF items
    <3>2. j # i
      BY <1>1, <3>1
    <3> QED BY <3>1, <3>2
  <2> QED BY <2>1, <2>2, <2>3
<1>3. ASSUME NEW j \in Blockers(i), placed[j].side = placed[i].side
      PROVE  Apart(Bounds(i, placed[i]), Bounds(j, placed[j]), request.clearance)
  <2>1. AreClear(layout, i, placed[i], j, placed[j])
    BY <1>2, Zenon DEF IsLegal
  <2> QED BY <1>3, <2>1, SameBounds, Zenon DEF AreClear, request
<1>4. InsideBoard(Bounds(i, placed[i]))
  BY SameBounds, Zenon DEF IsLegal
<1>5. ASSUME NEW c \in Constraints
      PROVE  Admits(c, i, placed[i])
  <2>1. Satisfied(c, placed) /\ c \in Range(layout.constraints)
    BY SameVerdicts, Zenon DEF IsLegal, DoesHold, Constraints
  <2>2. ASSUME Aligns(c), i \in Range(c.items), NEW target \in AlignmentTarget(c, i)
        PROVE  placed[i].at[Axis(c)] = target
    <3>1. PICK m \in DOMAIN c.items : target = placed[c.items[m]].at[Axis(c)]
      BY Zenon DEF AlignmentTarget
    <3>2. PICK n \in DOMAIN c.items : i = c.items[n]
      BY <2>2, Zenon DEF Range
    <3> QED BY <2>1, <2>2, <3>1, <3>2, Zenon DEF Satisfied
  <2>3. ASSUME c.kind = "WithinDistance" PROVE WithinReach(c, Standing(i, placed[i]))
    BY <2>1, <2>3, OthersStandAsPlaced, Zenon DEF Satisfied
  <2> QED BY <2>1, <2>2, <2>3, Zenon DEF Admits, Satisfied
<1> QED BY <1>3, <1>4, <1>5, Zenon DEF CandidateAllowed

LEMMA StayBegins == ASSUME SolverInit PROVE StayInv
BY SameResolution DEF SolverInit, StayInv

LEMMA RefuseStays == ASSUME StayInv, RefuseCall PROVE StayInv'
<1>1. ~MayStay(layout)
  BY SameSoundness, SameFaults, SameCycles, Zenon DEF RefuseCall, MayStay
<1>2. layout' = layout /\ stage' = "done"
  BY DEF RefuseCall
<1>3. ~MayStay(layout')
  BY <1>1, <1>2
<1> QED BY <1>2, <1>3 DEF StayInv

LEMMA ResolveStays == ASSUME StayInv, Resolve PROVE StayInv'
<1>1. placed' = Resolved(layout, AsAuthored(layout))
  BY SameResolution, Zenon DEF Resolve, StayInv
<1>2. layout' = layout /\ stage' = "placing"
  BY DEF Resolve
<1>3. ASSUME MayStay(layout) PROVE faults' = {}
  <2>1. \A i \in DOMAIN items : HasEnvelope(items[i])
    BY <1>3, Zenon DEF MayStay, IsLegal, items
  <2> QED BY <2>1, Zenon DEF Resolve
<1>4. MayStay(layout') => placed' = Resolved(layout', AsAuthored(layout')) /\ faults' = {}
  BY <1>1, <1>2, <1>3
<1> QED BY <1>2, <1>4 DEF StayInv

LEMMA PlacingStays == ASSUME SolverInv, StayInv, PlaceNext PROVE StayInv'
<1> DEFINE i == Turn
<1>1. layout' = layout /\ stage = "placing" /\ stage' = "placing" /\ waiting # {}
  BY DEF PlaceNext
<1>2. ASSUME MayStay(layout)
      PROVE  placed' = placed /\ faults' = faults
  <2>1. layout \in Layouts /\ waiting \subseteq DOMAIN layout.items
        /\ settled \subseteq DOMAIN layout.items /\ IsPlaced(layout, placed)
        /\ layout.policy.pitch > 0 /\ settled \cap waiting = {}
    BY <1>1 DEF SolverInv, PlacingHolds
  <2>2. i \in waiting /\ i \in DOMAIN layout.items /\ i \notin settled
    BY <1>1, <2>1, TurnWaits
  <2>3. placed = Resolved(layout, AsAuthored(layout)) /\ IsLegal(layout, placed)
    BY <1>1, <1>2, Zenon DEF StayInv, MayStay
  <2>4. CandidateAllowed(i, placed[i], Blockers(i))
    BY <2>1, <2>2, <2>3, OwnPlaceIsAllowed
  <2>5. IsPlace(placed[i]) /\ request.pitch > 0
    <3>1. IsPlace(placed[i])
      BY <2>1, <2>2, Zenon DEF IsPlaced
    <3> QED BY <2>1, <3>1 DEF request
  <2>9. DOMAIN Allowed(i) # {} /\ placed[i] \in Range(Allowed(i))
    <3>1. 0 \in DOMAIN Allowed(i) /\ Allowed(i)[0] = placed[i]
      BY <2>1, <2>4, <2>5, OwnPlaceComesFirst
    <3> QED BY <3>1, Zenon DEF Range
  <2>10. Accepted(i, Allowed(i)) = placed[i]
    BY <1>2, <2>9, Zenon DEF Accepted, MayStay, request
  <2>11. Settle(i, Allowed(i))
    BY <2>9, Zenon DEF PlaceNext, Allowed, GiveUp
  <2>12. placed' = [placed EXCEPT ![i] = placed[i]] /\ faults' = faults
    BY <2>10, <2>11, Zenon DEF Settle
  <2>13. placed = [j \in DOMAIN layout.items |-> placed[j]]
    BY <2>1, Zenon DEF IsPlaced
  <2> HIDE DEF i
  <2>14. [placed EXCEPT ![i] = placed[i]] = placed
    BY <2>2, <2>13
  <2> QED BY <2>12, <2>14
<1>3. MayStay(layout') => placed' = Resolved(layout', AsAuthored(layout')) /\ faults' = {}
  BY <1>1, <1>2 DEF StayInv
<1> QED BY <1>1, <1>3 DEF StayInv

LEMMA CertifyStays == ASSUME SolverInv, StayInv, Certify PROVE StayInv'
<1>1. /\ layout' = layout /\ placed' = placed /\ stage = "placing" /\ stage' = "done"
      /\ faults' = faults \cup {c.kind : c \in {d \in Constraints : ~Satisfied(d, Resolution(placed))}}
  BY Zenon DEF Certify
<1>2. ASSUME MayStay(layout)
      PROVE  faults' = faults
  <2>1. placed = Resolved(layout, AsAuthored(layout)) /\ IsLegal(layout, placed)
    BY <1>1, <1>2, Zenon DEF StayInv, MayStay
  <2>2. IsLayout(layout) /\ IsPlaced(layout, placed) /\ StandsAsDriven(layout, placed)
    BY <1>1, LayoutsAssumption DEF SolverInv, PlacingHolds
  <2>3. Resolution(placed) = placed
    BY <2>2, StandingIsResolved, SameResolution, Zenon
  <2>4. \A d \in Constraints : Satisfied(d, placed)
    BY <2>1, SameVerdicts, Zenon DEF IsLegal, DoesHold, Constraints
  <2>5. {d \in Constraints : ~Satisfied(d, Resolution(placed))} = {}
    BY <2>3, <2>4, Zenon
  <2> QED BY <1>1, <2>5
<1>3. MayStay(layout') => placed' = Resolved(layout', AsAuthored(layout')) /\ faults' = {}
  BY <1>1, <1>2 DEF StayInv
<1> QED BY <1>1, <1>3 DEF StayInv

LEMMA StayStutters == ASSUME StayInv, UNCHANGED solverVars PROVE StayInv'
BY DEF StayInv, solverVars

LEMMA StayInvIsStay == ASSUME StayInv PROVE LegalStaysPut
<1> SUFFICES ASSUME stage = "done", ValidLayout, PolicyFaults = {}, ~Cyclic, ~request.optimize,
                    LegalLayout(Resolution(Authored))
             PROVE  placed = Resolution(Authored) /\ faults = {}
  BY DEF LegalStaysPut
<1>1. MayStay(layout)
  BY SameSoundness, SameFaults, SameCycles, SameLegality, SameResolution, Zenon DEF MayStay, request
<1> QED BY <1>1, SameResolution DEF StayInv

(* A legal layout that is not to be improved comes back as it was, and is   *)
(* reported as solved.                                                     *)
THEOREM LegalLayoutsStay == SolverSpec => []LegalStaysPut
<1>1. SolverInit => StayInv
  BY StayBegins
<1>2. SolverInv /\ StayInv /\ [SolverNext]_solverVars => StayInv'
  BY RefuseStays, ResolveStays, PlacingStays, CertifyStays, StayStutters, Zenon
     DEF SolverNext, Answered
<1>3. StayInv => LegalStaysPut
  BY StayInvIsStay
<1> QED BY <1>1, <1>2, <1>3, SolverInvHolds, PTL DEF SolverSpec

-----------------------------------------------------------------------------
(* What leaving a place does to the whole layout.                          *)

(* The greater of two integers.                                             *)
LEMMA MaxOfTwo ==
  ASSUME NEW a \in Int, NEW b \in Int
  PROVE  Max({a, b}) \in Int /\ a <= Max({a, b}) /\ b <= Max({a, b})
<1> DEFINE S == {a, b}
<1>1. IsFiniteSet(S) /\ S \subseteq Int /\ S # {} /\ a \in S /\ b \in S
  <2>1. IsFiniteSet({a}) /\ IsFiniteSet({b})
    BY FS_Singleton
  <2>2. IsFiniteSet({a} \cup {b})
    BY <2>1, FS_Union
  <2>3. {a} \cup {b} = S
    OBVIOUS
  <2> QED BY <2>2, <2>3
<1> HIDE DEF S
<1>2. Max(S) \in S /\ \A y \in S : y <= Max(S)
  BY <1>1, MinMaxOfFinite
<1>3. Max(S) \in Int /\ a <= Max(S) /\ b <= Max(S)
  BY <1>1, <1>2
<1> QED BY <1>3 DEF S

LEMMA MinOfTwo ==
  ASSUME NEW a \in Int, NEW b \in Int
  PROVE  Min({a, b}) \in Int
<1> DEFINE S == {a, b}
<1>1. IsFiniteSet(S) /\ S \subseteq Int /\ S # {}
  <2>1. IsFiniteSet({a}) /\ IsFiniteSet({b})
    BY FS_Singleton
  <2>2. IsFiniteSet({a} \cup {b})
    BY <2>1, FS_Union
  <2>3. {a} \cup {b} = S
    OBVIOUS
  <2> QED BY <2>2, <2>3
<1> HIDE DEF S
<1>2. Min(S) \in Int
  BY <1>1, MinMaxOfFinite
<1> QED BY <1>2 DEF S

(* Lengths are naturals, the same both ways.                                *)
LEMMA LengthsAreNatural ==
  ASSUME NEW p \in Grounds, NEW q \in Grounds
  PROVE  Manhattan(p, q) \in Nat /\ Manhattan(p, q) = Manhattan(q, p)
<1>1. p[1] \in Int /\ p[2] \in Int /\ q[1] \in Int /\ q[2] \in Int
  BY DEF Grounds
<1>2. ASSUME NEW a \in Int, NEW b \in Int
      PROVE  /\ Max({a - b, b - a}) \in Nat
             /\ Max({a - b, b - a}) = Max({b - a, a - b})
  <2>1. PICK c \in Int, d \in Int : c = a - b /\ d = b - a
    OBVIOUS
  <2>2. Max({c, d}) \in Int /\ c <= Max({c, d}) /\ d <= Max({c, d})
    BY MaxOfTwo
  <2>3. Max({c, d}) \in Nat
    BY <2>1, <2>2
  <2>4. {c, d} = {d, c}
    OBVIOUS
  <2>5. Max({c, d}) = Max({d, c})
    BY <2>4
  <2> QED BY <2>1, <2>3, <2>5
<1>3. PICK a \in Int, b \in Int, c \in Int, d \in Int : a = p[1] /\ b = q[1] /\ c = p[2] /\ d = q[2]
  BY <1>1
<1>4. Manhattan(p, q) = Max({a - b, b - a}) + Max({c - d, d - c})
  BY <1>3, Zenon DEF Manhattan
<1>5. Manhattan(q, p) = Max({b - a, a - b}) + Max({d - c, c - d})
  BY <1>3, Zenon DEF Manhattan
<1>6. Max({a - b, b - a}) \in Nat /\ Max({c - d, d - c}) \in Nat
  BY <1>2
<1>7. Max({a - b, b - a}) = Max({b - a, a - b}) /\ Max({c - d, d - c}) = Max({d - c, c - d})
  BY <1>2
<1> QED BY <1>4, <1>5, <1>6, <1>7

LEMMA PressureIsNatural ==
  ASSUME layout \in Layouts, NEW a, NEW b, IsPlace(a), IsPlace(b)
  PROVE  Pressure(a, b) \in Nat /\ Pressure(a, b) = Pressure(b, a)
<1>1. request.density \in Int
  BY LayoutsAssumption DEF IsLayout, request
<1>2. a.at \in Grounds /\ b.at \in Grounds
  BY DEF IsPlace, IsPoint, Grounds
<1>3. Manhattan(a.at, b.at) \in Nat /\ Manhattan(a.at, b.at) = Manhattan(b.at, a.at)
  BY <1>2, LengthsAreNatural
<1>4. PICK d \in Int : d = request.density - Manhattan(a.at, b.at)
  BY <1>1, <1>3
<1>5. PICK o \in Int : o = 0
  OBVIOUS
<1>6. Max({o, d}) \in Int /\ o <= Max({o, d})
  BY MaxOfTwo
<1>7. Pressure(a, b) = Max({o, d}) /\ Pressure(b, a) = Max({o, d})
  BY <1>3, <1>4, <1>5, Zenon DEF Pressure
<1> QED BY <1>5, <1>6, <1>7

(* The pads of an item that are on a net, at a place.                       *)
LEMMA EndpointsAreFinite ==
  ASSUME layout \in Layouts, NEW i \in DOMAIN layout.items, NEW place, IsPlace(place)
  PROVE  /\ IsFiniteSet(Endpoints(i, place))
         /\ \A e \in Endpoints(i, place) : e[2] \in Grounds /\ e[3][1] = i
<1>1. IsItem(layout.items[i])
  BY LayoutsAssumption, Zenon DEF IsLayout, Range
<1>2. IsFiniteSet(DOMAIN items[i].pads) /\ \A p \in DOMAIN items[i].pads : items[i].pads[p].at \in Grounds
  BY <1>1 DEF IsItem, items, IsPoint, Grounds
<1> DEFINE P == DOMAIN items[i].nets \cap DOMAIN items[i].pads
           f == [p \in P |-> <<items[i].nets[p], Onto(place, items[i].pads[p].at), <<i, p>>>>]
<1>3. IsFiniteSet(P) /\ P \subseteq DOMAIN items[i].pads
  BY <1>2, FS_Subset
<1>4. Endpoints(i, place) = {f[p] : p \in P}
  BY Zenon DEF Endpoints
<1>5. \A p \in P : f[p][2] \in Grounds /\ f[p][3][1] = i
  <2> TAKE p \in P
  <2>1. f[p] = <<items[i].nets[p], Onto(place, items[i].pads[p].at), <<i, p>>>>
    OBVIOUS
  <2>2. Onto(place, items[i].pads[p].at) \in Grounds
    BY <1>2, <1>3, OntoIsPoint DEF IsPlace
  <2> HIDE DEF f, P
  <2> QED BY <2>1, <2>2
<1> HIDE DEF f, P
<1>6. IsFiniteSet({f[p] : p \in P})
  BY <1>3, ImageIsFinite
<1> QED BY <1>4, <1>5, <1>6

(* What the places cost as a whole are naturals.                            *)
LEMMA AccessIsNatural ==
  ASSUME layout \in Layouts, NEW places
  PROVE  \E a \in Nat, b \in Nat : AccessScore(places) = <<a, b>>
<1> DEFINE D == DOMAIN items
           own == [i \in D |-> {i} \X DOMAIN items[i].pads]
           probes(t) == PadLayers(places[t[1]], items[t[1]].pads[t[2]]) \X Ways
           blocked(t) == {probe \in probes(t) : ~Accessible(t, probe[1], probe[2], places)}
           w == [t \in PadTerminals |-> Cardinality(blocked(t))]
           lost == {t \in PadTerminals : blocked(t) = probes(t)}
<1>1. IsFiniteSet(D) /\ \A i \in D : IsItem(items[i])
  <2>1. \A i \in D : IsItem(items[i])
    BY LayoutsAssumption, Zenon DEF IsLayout, Range, items
  <2>2. items \in Seq(Range(items))
    BY LayoutsAssumption, Zenon DEF IsLayout, items
  <2>3. IsFiniteSet(D)
    BY <2>2, PlacesAreFinite
  <2> QED BY <2>1, <2>3
<1>2. IsFiniteSet(PadTerminals)
  <2>1. ASSUME NEW i \in D PROVE IsFiniteSet(own[i])
    <3>1. IsFiniteSet(DOMAIN items[i].pads) /\ IsFiniteSet({i})
      BY <1>1, FS_Singleton DEF IsItem
    <3>2. IsFiniteSet({i} \X DOMAIN items[i].pads)
      BY <3>1, FS_Product
    <3> QED BY <3>2
  <2> DEFINE all == UNION {own[i] : i \in D}
  <2>2. PadTerminals \subseteq all
    BY DEF PadTerminals
  <2>3. IsFiniteSet(all)
    <3> HIDE DEF own, D
    <3> QED BY <1>1, <2>1, FamilyIsFinite
  <2> HIDE DEF all
  <2> QED BY <2>2, <2>3, FS_Subset
<1>3. ASSUME NEW t \in PadTerminals PROVE Cardinality(blocked(t)) \in Nat
  <2>1. t[1] \in D /\ t[2] \in DOMAIN items[t[1]].pads
    BY DEF PadTerminals
  <2> DEFINE pad == items[t[1]].pads[t[2]]
             turn == [l \in pad.layers |-> layout.lastLayer - l]
  <2>2. IsFiniteSet(pad.layers)
    BY <1>1, <2>1 DEF IsItem
  <2>3. IsFiniteSet({turn[l] : l \in pad.layers})
    <3> HIDE DEF turn
    <3> QED BY <2>2, ImageIsFinite
  <2>4. IsFiniteSet(PadLayers(places[t[1]], pad))
    <3>1. {turn[l] : l \in pad.layers} = {layout.lastLayer - l : l \in pad.layers}
      OBVIOUS
    <3> HIDE DEF pad, turn
    <3> QED BY <2>2, <2>3, <3>1, Zenon DEF PadLayers
  <2>5. IsFiniteSet(Ways)
    <3>1. \A x : IsFiniteSet({x})
      BY FS_Singleton
    <3>2. IsFiniteSet({<<-1, 0>>} \cup {<<1, 0>>}) /\ IsFiniteSet({<<0, -1>>} \cup {<<0, 1>>})
      BY <3>1, FS_Union
    <3>3. IsFiniteSet(({<<-1, 0>>} \cup {<<1, 0>>}) \cup ({<<0, -1>>} \cup {<<0, 1>>}))
      BY <3>2, FS_Union
    <3>4. Ways = ({<<-1, 0>>} \cup {<<1, 0>>}) \cup ({<<0, -1>>} \cup {<<0, 1>>})
      BY DEF Ways
    <3> QED BY <3>3, <3>4
  <2>6. IsFiniteSet(probes(t))
    BY <2>4, <2>5, FS_Product
  <2>7. IsFiniteSet(blocked(t))
    <3>1. blocked(t) \subseteq probes(t)
      OBVIOUS
    <3> HIDE DEF blocked, probes
    <3> QED BY <2>6, <3>1, FS_Subset
  <2> HIDE DEF blocked
  <2> QED BY <2>7, FS_CardinalityType
<1>4. Cardinality(lost) \in Nat
  <2>1. lost \subseteq PadTerminals
    OBVIOUS
  <2> HIDE DEF lost
  <2> QED BY <1>2, <2>1, FS_Subset, FS_CardinalityType
<1>5. SumFunction(w) \in Nat
  <2>1. w \in [PadTerminals -> Nat]
    BY <1>3
  <2> HIDE DEF w
  <2> QED BY <1>2, <2>1, SumIsNatural
<1>6. AccessScore(places) = IF request.access = << >> THEN <<0, 0>>
                            ELSE <<Cardinality(lost), SumFunction(w)>>
  BY Zenon DEF AccessScore
<1> HIDE DEF w, lost
<1>7. CASE request.access = << >>
  <2>1. AccessScore(places) = <<0, 0>>
    BY <1>6, <1>7
  <2> QED BY <2>1
<1>8. CASE request.access # << >>
  <2>1. AccessScore(places) = <<Cardinality(lost), SumFunction(w)>>
    BY <1>6, <1>8
  <2> QED BY <1>4, <1>5, <2>1
<1> QED BY <1>7, <1>8

LEMMA CrossingsAreNatural ==
  ASSUME layout \in Layouts, NEW places, \A i \in DOMAIN layout.items : IsPlace(places[i])
  PROVE  Crossings(places) \in Nat
<1> DEFINE D == DOMAIN items
           at == [i \in D |-> Endpoints(i, places[i])]
           endpoints == UNION {Endpoints(i, places[i]) : i \in D}
           of(net) == {e \in endpoints : e[1] = net}
           named == {e[1] : e \in endpoints}
           nets == {net \in named : Cardinality(of(net)) >= 2}
           box(net) == Around({e[2] : e \in of(net)})
           overlap(a, b, k) == Min({box(a).high[k], box(b).high[k]}) - Max({box(a).low[k], box(b).low[k]})
           pressure(pair) ==
             LET a == CHOOSE net \in pair : TRUE
                 b == CHOOSE net \in pair : net # a
             IN IF \A k \in {1, 2} : overlap(a, b, k) >= 0
                THEN overlap(a, b, 1) + overlap(a, b, 2) + 1 ELSE 0
           pairs == {two \in SUBSET nets : Cardinality(two) = 2}
           w == [pair \in pairs |-> pressure(pair)]
<1>1. Crossings(places) = SumFunction(w)
  BY Zenon DEF Crossings
<1>2. IsFiniteSet(D)
  <2>1. items \in Seq(Range(items))
    BY LayoutsAssumption, Zenon DEF IsLayout, items
  <2> QED BY <2>1, PlacesAreFinite
<1>3. IsFiniteSet(endpoints) /\ \A e \in endpoints : e[2] \in Grounds
  <2>1. \A i \in D : IsFiniteSet(at[i]) /\ \A e \in at[i] : e[2] \in Grounds
    BY EndpointsAreFinite DEF items
  <2>2. endpoints = UNION {at[i] : i \in D}
    OBVIOUS
  <2> HIDE DEF at, endpoints, D
  <2>3. IsFiniteSet(UNION {at[i] : i \in D})
    BY <1>2, <2>1, FamilyIsFinite
  <2> QED BY <2>1, <2>2, <2>3
<1>4. IsFiniteSet(pairs)
  <2>1. IsFiniteSet(named)
    <3> DEFINE f == [e \in endpoints |-> e[1]]
    <3>1. named = {f[e] : e \in endpoints}
      OBVIOUS
    <3> HIDE DEF f, endpoints, named
    <3>2. IsFiniteSet({f[e] : e \in endpoints})
      BY <1>3, ImageIsFinite
    <3> QED BY <3>1, <3>2
  <2>2. nets \subseteq named
    OBVIOUS
  <2> HIDE DEF nets, named
  <2>3. IsFiniteSet(nets)
    BY <2>1, <2>2, FS_Subset
  <2>4. IsFiniteSet(SUBSET nets)
    BY <2>3, FS_SUBSET
  <2>5. pairs \subseteq SUBSET nets
    OBVIOUS
  <2> HIDE DEF pairs
  <2> QED BY <2>4, <2>5, FS_Subset
<1>5. ASSUME NEW net \in nets PROVE IsBox(box(net))
  <2> DEFINE f == [e \in of(net) |-> e[2]]
             points == {f[e] : e \in of(net)}
  <2>1. of(net) # {}
    <3>1. PICK e \in endpoints : net = e[1]
      OBVIOUS
    <3> QED BY <3>1
  <2>2. IsFiniteSet(of(net))
    <3>1. of(net) \subseteq endpoints
      OBVIOUS
    <3> HIDE DEF endpoints
    <3> QED BY <1>3, <3>1, FS_Subset
  <2>3. points = {e[2] : e \in of(net)}
    OBVIOUS
  <2>4. points \in SUBSET Grounds /\ points # {}
    <3>1. \A e \in of(net) : e[2] \in Grounds
      BY <1>3
    <3> HIDE DEF of
    <3> QED BY <2>1, <2>3, <3>1
  <2>5. IsFiniteSet(points)
    <3> HIDE DEF f, of
    <3> QED BY <2>2, ImageIsFinite
  <2> HIDE DEF points
  <2> QED BY <2>3, <2>4, <2>5, AroundIsBox
<1> HIDE DEF box
<1>6. ASSUME NEW a \in nets, NEW b \in nets, NEW k \in {1, 2} PROVE overlap(a, b, k) \in Int
  <2>1. box(a).high[k] \in Int /\ box(b).high[k] \in Int /\ box(a).low[k] \in Int /\ box(b).low[k] \in Int
    BY <1>5, <1>6 DEF IsBox, IsPoint
  <2>2. PICK p \in Int, q \in Int, r \in Int, s \in Int :
           p = box(a).high[k] /\ q = box(b).high[k] /\ r = box(a).low[k] /\ s = box(b).low[k]
    BY <2>1
  <2>3. Max({r, s}) \in Int
    BY MaxOfTwo
  <2>4. Min({p, q}) \in Int
    BY MinOfTwo
  <2>5. overlap(a, b, k) = Min({p, q}) - Max({r, s})
    BY <2>2, Zenon
  <2> HIDE DEF overlap
  <2> QED BY <2>3, <2>4, <2>5
<1> HIDE DEF overlap, nets
<1>7. ASSUME NEW pair \in pairs PROVE pressure(pair) \in Nat
  <2> DEFINE a == CHOOSE net \in pair : TRUE
             b == CHOOSE net \in pair : net # a
  <2>1. pair \subseteq nets /\ Cardinality(pair) = 2
    OBVIOUS
  <2>2. pair # {}
    <3>1. Cardinality({}) = 0
      BY FS_EmptySet
    <3> QED BY <2>1, <3>1
  <2>3. a \in pair
    BY <2>2, Zenon
  <2>4. \E net \in pair : net # a
    <3> HIDE DEF a
    <3> SUFFICES ASSUME \A net \in pair : net = a PROVE FALSE
      OBVIOUS
    <3>1. pair = {a}
      BY <2>3
    <3>2. Cardinality({a}) = 1
      BY FS_Singleton
    <3> QED BY <2>1, <3>1, <3>2
  <2>5. b \in pair
    BY <2>4, Zenon
  <2>6. overlap(a, b, 1) \in Int /\ overlap(a, b, 2) \in Int
    <3>1. a \in nets /\ b \in nets
      BY <2>1, <2>3, <2>5, Zenon
    <3> QED BY <1>6, <3>1
  <2>7. pressure(pair) = IF \A k \in {1, 2} : overlap(a, b, k) >= 0
                         THEN overlap(a, b, 1) + overlap(a, b, 2) + 1 ELSE 0
    BY Zenon
  <2> HIDE DEF a, b, pressure
  <2> QED BY <2>6, <2>7
<1>8. w \in [pairs -> Nat]
  <2> HIDE DEF pressure, pairs
  <2> QED BY <1>7
<1>9. SumFunction(w) \in Nat
  <2> HIDE DEF w, pairs
  <2> QED BY <1>4, <1>8, SumIsNatural
<1> HIDE DEF w
<1> QED BY <1>1, <1>9

(* A sum over a part, and over what stands for the rest.                    *)
LEMMA SumInTwo ==
  ASSUME NEW S, IsFiniteSet(S), NEW w \in [S -> Nat], NEW B, B \subseteq S,
         NEW P, IsFiniteSet(P), NEW v \in [P -> Nat], NEW g,
         \A x \in P : g[x] \in S \ B, \A y \in S \ B : \E x \in P : y = g[x],
         \A x, y \in P : g[x] = g[y] => x = y,
         \A x \in P : w[g[x]] = v[x]
  PROVE  /\ SumFunction(v) \in Nat /\ SumFunction([x \in B |-> w[x]]) \in Nat
         /\ SumFunction(w) = SumFunction(v) + SumFunction([x \in B |-> w[x]])
<1> DEFINE A == S \ B
           inA == [x \in A |-> w[x]]
           inB == [x \in B |-> w[x]]
<1>1. SumFunction(w) = SumFunction(inA) + SumFunction(inB)
  <2>1. S = A \cup B /\ A \cap B = {}
    OBVIOUS
  <2> HIDE DEF A
  <2> QED BY <2>1, SumSplits
<1>2. SumFunction(v) = SumFunction(inA)
  <2>1. inA \in [A -> Nat]
    OBVIOUS
  <2>2. A = {g[x] : x \in P}
    OBVIOUS
  <2>3. \A x \in P : inA[g[x]] = v[x]
    OBVIOUS
  <2> HIDE DEF inA, A
  <2> QED BY <2>1, <2>2, <2>3, SumMoves
<1>3. SumFunction(v) \in Nat
  BY SumIsNatural
<1>4. SumFunction(inB) \in Nat
  <2>1. inB \in [B -> Nat] /\ IsFiniteSet(B)
    BY FS_Subset
  <2> HIDE DEF inB
  <2> QED BY <2>1, SumIsNatural
<1> QED BY <1>1, <1>2, <1>3, <1>4

(* The connections among endpoints, each once; those of an item's own       *)
(* endpoints with the others.                                               *)
Wires(all) == {pair \in all \X all : pair[1][3][1] < pair[2][3][1] /\ pair[1][1] = pair[2][1]}
WiresTo(own, rest) == {pair \in own \X rest : pair[1][1] = pair[2][1]}
WiresAdd(own, rest) ==
  /\ WireLengths(WiresTo(own, rest)) \in Nat /\ WireLengths(Wires(rest)) \in Nat
  /\ WireLengths(Wires(own \cup rest))
       = WireLengths(WiresTo(own, rest)) + WireLengths(Wires(rest))
LEMMA WiresSplit ==
  ASSUME NEW i \in Int, NEW own, NEW rest, IsFiniteSet(own), IsFiniteSet(rest),
         \A e \in own : e[2] \in Grounds /\ e[3][1] = i,
         \A e \in rest : e[2] \in Grounds /\ e[3][1] \in Int /\ e[3][1] # i
  PROVE  WiresAdd(own, rest)
<1> DEFINE all == own \cup rest
           S == Wires(all)
           B == Wires(rest)
           P == WiresTo(own, rest)
           size(pair) == Manhattan(pair[1][2], pair[2][2])
           w == [pair \in S |-> size(pair)]
           v == [pair \in P |-> size(pair)]
           u == [pair \in B |-> size(pair)]
           g == [pair \in P |-> IF i < pair[2][3][1] THEN pair ELSE <<pair[2], pair[1]>>]
<1>1. IsFiniteSet(S) /\ IsFiniteSet(P)
  <2>1. IsFiniteSet(all)
    BY FS_Union
  <2>2. IsFiniteSet(all \X all) /\ IsFiniteSet(own \X rest)
    BY <2>1, FS_Product
  <2>3. S \subseteq all \X all /\ P \subseteq own \X rest
    BY DEF Wires, WiresTo
  <2> HIDE DEF S, P, all
  <2> QED BY <2>2, <2>3, FS_Subset
<1>2. B \subseteq S
  BY DEF Wires
<1>3. \A a, b \in all : Manhattan(a[2], b[2]) \in Nat /\ Manhattan(a[2], b[2]) = Manhattan(b[2], a[2])
  BY LengthsAreNatural
<1>4. w \in [S -> Nat]
  <2>1. \A pair \in S : size(pair) \in Nat
    BY <1>3 DEF Wires
  <2> HIDE DEF S, size
  <2> QED BY <2>1
<1>5. v \in [P -> Nat]
  <2>1. \A pair \in P : size(pair) \in Nat
    BY <1>3 DEF WiresTo
  <2> HIDE DEF P, size
  <2> QED BY <2>1
<1>6. \A x \in P : \E a \in own, b \in rest :
         /\ x = <<a, b>> /\ a[1] = b[1]
         /\ g[x] = IF i < b[3][1] THEN <<a, b>> ELSE <<b, a>>
  <2> TAKE x \in P
  <2>1. PICK a \in own, b \in rest : x = <<a, b>> /\ a[1] = b[1]
    BY DEF WiresTo
  <2>2. x[1] = a /\ x[2] = b
    BY <2>1
  <2>3. g[x] = IF i < x[2][3][1] THEN x ELSE <<x[2], x[1]>>
    OBVIOUS
  <2> HIDE DEF g
  <2>4. g[x] = IF i < b[3][1] THEN <<a, b>> ELSE <<b, a>>
    BY <2>1, <2>2, <2>3, Zenon
  <2> QED BY <2>1, <2>4
<1>7. \A a, b : size(<<a, b>>) = Manhattan(a[2], b[2])
  OBVIOUS
<1>8. ASSUME NEW x \in P PROVE g[x] \in S \ B /\ w[g[x]] = v[x]
  <2>1. PICK a \in own, b \in rest :
         /\ x = <<a, b>> /\ a[1] = b[1]
         /\ g[x] = IF i < b[3][1] THEN <<a, b>> ELSE <<b, a>>
    BY <1>6
  <2> HIDE DEF g
  <2>2. v[x] = Manhattan(a[2], b[2])
    BY <1>7, <2>1
  <2>3. Manhattan(a[2], b[2]) = Manhattan(b[2], a[2])
    BY <1>3
  <2>4. a[3][1] = i /\ b[3][1] \in Int /\ b[3][1] # i
    OBVIOUS
  <2>5. CASE i < b[3][1]
    <3>1. g[x] = <<a, b>>
      BY <2>1, <2>5
    <3>2. <<a, b>> \in S
      BY <2>1, <2>4, <2>5 DEF Wires
    <3>3. <<a, b>> \notin B
      BY <2>4 DEF Wires
    <3>4. w[<<a, b>>] = Manhattan(a[2], b[2])
      BY <1>7, <3>2
    <3> QED BY <2>2, <3>1, <3>2, <3>3, <3>4
  <2>6. CASE ~(i < b[3][1])
    <3>1. g[x] = <<b, a>>
      BY <2>1, <2>6
    <3>2. <<b, a>> \in S
      BY <2>1, <2>4, <2>6 DEF Wires
    <3>3. <<b, a>> \notin B
      BY <2>4 DEF Wires
    <3>4. w[<<b, a>>] = Manhattan(b[2], a[2])
      BY <1>7, <3>2
    <3> QED BY <2>2, <2>3, <3>1, <3>2, <3>3, <3>4
  <2> QED BY <2>5, <2>6
<1>9. ASSUME NEW x \in P, NEW y \in P, g[x] = g[y] PROVE x = y
  <2>1. PICK a \in own, b \in rest :
         /\ x = <<a, b>> /\ a[1] = b[1]
         /\ g[x] = IF i < b[3][1] THEN <<a, b>> ELSE <<b, a>>
    BY <1>6
  <2>2. PICK c \in own, d \in rest :
         /\ y = <<c, d>> /\ c[1] = d[1]
         /\ g[y] = IF i < d[3][1] THEN <<c, d>> ELSE <<d, c>>
    BY <1>6
  <2> HIDE DEF g
  <2>3. a # d /\ b # c
    <3>1. a[3][1] = i /\ c[3][1] = i /\ b[3][1] # i /\ d[3][1] # i
      OBVIOUS
    <3> QED BY <3>1
  <2>4. \A p, q, r, s : <<p, q>> = <<r, s>> => p = r /\ q = s
    OBVIOUS
  <2>5. a = c /\ b = d
    <3>1. CASE i < b[3][1] /\ i < d[3][1]
      <4>1. <<a, b>> = <<c, d>>
        BY <1>9, <2>1, <2>2, <3>1, Zenon
      <4> QED BY <2>4, <4>1, Zenon
    <3>2. CASE i < b[3][1] /\ ~(i < d[3][1])
      <4>1. <<a, b>> = <<d, c>>
        BY <1>9, <2>1, <2>2, <3>2, Zenon
      <4> QED BY <2>3, <2>4, <4>1, Zenon
    <3>3. CASE ~(i < b[3][1]) /\ i < d[3][1]
      <4>1. <<b, a>> = <<c, d>>
        BY <1>9, <2>1, <2>2, <3>3, Zenon
      <4> QED BY <2>3, <2>4, <4>1, Zenon
    <3>4. CASE ~(i < b[3][1]) /\ ~(i < d[3][1])
      <4>1. <<b, a>> = <<d, c>>
        BY <1>9, <2>1, <2>2, <3>4, Zenon
      <4> QED BY <2>4, <4>1, Zenon
    <3> QED BY <3>1, <3>2, <3>3, <3>4
  <2> QED BY <2>1, <2>2, <2>5
<1>10. ASSUME NEW y \in S \ B PROVE \E x \in P : y = g[x]
  <2>1. PICK a \in all, b \in all : y = <<a, b>> /\ a[3][1] < b[3][1] /\ a[1] = b[1]
    BY DEF Wires
  <2>2. ~(a \in rest /\ b \in rest)
    BY <2>1 DEF Wires
  <2>3. ~(a \in own /\ b \in own)
    BY <2>1
  <2>4. CASE a \in own /\ b \in rest
    <3>1. <<a, b>> \in P
      BY <2>1, <2>4 DEF WiresTo
    <3>2. i < b[3][1]
      BY <2>1, <2>4
    <3>3. g[<<a, b>>] = <<a, b>>
      BY <3>1, <3>2
    <3> QED BY <2>1, <3>1, <3>3
  <2>5. CASE a \in rest /\ b \in own
    <3>1. <<b, a>> \in P
      BY <2>1, <2>5 DEF WiresTo
    <3>2. ~(i < a[3][1])
      BY <2>1, <2>5
    <3>3. g[<<b, a>>] = <<a, b>>
      BY <3>1, <3>2
    <3> QED BY <2>1, <3>1, <3>3
  <2> QED BY <2>2, <2>3, <2>4, <2>5
<1>11. [x \in B |-> w[x]] = u
  BY <1>2
<1>12. /\ SumFunction(v) \in Nat /\ SumFunction([x \in B |-> w[x]]) \in Nat
       /\ SumFunction(w) = SumFunction(v) + SumFunction([x \in B |-> w[x]])
  <2> HIDE DEF S, B, P, v, w, g, u
  <2> QED BY <1>1, <1>2, <1>4, <1>5, <1>8, <1>9, <1>10, SumInTwo
<1>13. WireLengths(S) = SumFunction(w) /\ WireLengths(P) = SumFunction(v) /\ WireLengths(B) = SumFunction(u)
  BY Zenon DEF WireLengths
<1> HIDE DEF w, v, u
<1> QED BY <1>11, <1>12, <1>13 DEF WiresAdd

(* What the other items cost among themselves.                              *)
OtherEnds(i) == UNION {Endpoints(j, placed[j]) : j \in DOMAIN items \ {i}}
OtherPairs(i) ==
  {jk \in (DOMAIN items \ {i}) \X (DOMAIN items \ {i}) :
     jk[1] < jk[2] /\ placed[jk[1]].side = placed[jk[2]].side}
OtherPressure(i) == SumFunction([jk \in OtherPairs(i) |-> Pressure(placed[jk[1]], placed[jk[2]])])
PressureOf(places) ==
  SumFunction([jk \in SidePairs(places) |-> Pressure(places[jk[1]], places[jk[2]])])

LEMMA ItemsAreFinite ==
  ASSUME layout \in Layouts
  PROVE  IsFiniteSet(DOMAIN items) /\ DOMAIN items \subseteq Nat
<1>1. items \in Seq(Range(items))
  BY LayoutsAssumption, Zenon DEF IsLayout, items
<1>2. IsFiniteSet(DOMAIN items) /\ DOMAIN items = 1..Len(items) /\ Len(items) \in Nat
  BY <1>1, PlacesAreFinite
<1> QED BY <1>2

LEMMA MovedItem ==
  ASSUME layout \in Layouts, IsPlaced(layout, placed), NEW i \in DOMAIN items, NEW place, IsPlace(place)
  PROVE  LET moved == [placed EXCEPT ![i] = place]
         IN /\ moved[i] = place
            /\ \A j \in DOMAIN items \ {i} : moved[j] = placed[j] /\ IsPlace(placed[j])
            /\ \A j \in DOMAIN items : IsPlace(moved[j])
<1>1. placed = [j \in DOMAIN items |-> placed[j]] /\ \A j \in DOMAIN items : IsPlace(placed[j])
  BY Zenon DEF IsPlaced, items
<1>2. DOMAIN placed = DOMAIN items
  BY <1>1
<1> DEFINE moved == [placed EXCEPT ![i] = place]
<1>3. moved[i] = place /\ \A j \in DOMAIN items \ {i} : moved[j] = placed[j]
  BY <1>2
<1> HIDE DEF moved
<1>4. \A j \in DOMAIN items : IsPlace(moved[j])
  BY <1>1, <1>3
<1> QED BY <1>1, <1>3, <1>4 DEF moved

LEMMA PressuresSplit ==
  ASSUME layout \in Layouts, IsPlaced(layout, placed), NEW i \in DOMAIN items, NEW place, IsPlace(place)
  PROVE  /\ Density(i, place) \in Nat /\ OtherPressure(i) \in Nat
         /\ PressureOf([placed EXCEPT ![i] = place]) = Density(i, place) + OtherPressure(i)
<1> DEFINE moved == [placed EXCEPT ![i] = place]
           S == SidePairs(moved)
           B == OtherPairs(i)
           P == {k \in DOMAIN items \ {i} : placed[k].side = place.side}
           w == [jk \in S |-> Pressure(moved[jk[1]], moved[jk[2]])]
           v == [j \in P |-> Pressure(place, placed[j])]
           u == [jk \in B |-> Pressure(placed[jk[1]], placed[jk[2]])]
           g == [k \in P |-> IF i < k THEN <<i, k>> ELSE <<k, i>>]
           D == DOMAIN items
<1>0. /\ moved[i] = place
      /\ \A j \in D \ {i} : moved[j] = placed[j] /\ IsPlace(placed[j])
      /\ \A j \in D : IsPlace(moved[j])
  BY MovedItem, Zenon
<1> HIDE DEF moved
<1>1. IsFiniteSet(D) /\ D \subseteq Nat
  BY ItemsAreFinite
<1>2. IsFiniteSet(S) /\ IsFiniteSet(P)
  <2>1. IsFiniteSet(D \X D)
    BY <1>1, FS_Product
  <2>2. S \subseteq D \X D /\ P \subseteq D
    BY DEF SidePairs
  <2> HIDE DEF S, P, D
  <2> QED BY <1>1, <2>1, <2>2, FS_Subset
<1>3. \A j, k \in D : Pressure(moved[j], moved[k]) \in Nat
                      /\ Pressure(moved[j], moved[k]) = Pressure(moved[k], moved[j])
  BY <1>0, PressureIsNatural
<1>4. \A jk \in S : jk[1] \in D /\ jk[2] \in D /\ jk = <<jk[1], jk[2]>>
  BY DEF SidePairs
<1>5. \A jk \in B : jk[1] \in D \ {i} /\ jk[2] \in D \ {i}
  BY DEF OtherPairs
<1>6. \A j, k : <<j, k>>[1] = j /\ <<j, k>>[2] = k
  OBVIOUS
<1>7. \A j \in D, k \in D : <<j, k>> \in S <=> j < k /\ moved[j].side = moved[k].side
  BY <1>6 DEF SidePairs
<1>8. \A j \in D, k \in D : <<j, k>> \in B <=> j # i /\ k # i /\ j < k /\ moved[j].side = moved[k].side
  BY <1>0, <1>6 DEF OtherPairs
<1>9. B \subseteq S
  <2> SUFFICES ASSUME NEW jk \in B PROVE jk \in S
    OBVIOUS
  <2>1. PICK j \in D, k \in D : jk = <<j, k>>
    BY DEF OtherPairs
  <2> HIDE DEF S, B
  <2> QED BY <1>7, <1>8, <2>1
<1>10. w \in [S -> Nat]
  BY <1>3, <1>4
<1>11. v \in [P -> Nat]
  <2>1. \A j \in P : Pressure(place, placed[j]) \in Nat
    BY <1>0, <1>3
  <2> QED BY <2>1
<1>12. [jk \in B |-> w[jk]] = u
  <2>1. \A jk \in B : w[jk] = u[jk]
    <3> TAKE jk \in B
    <3>1. moved[jk[1]] = placed[jk[1]] /\ moved[jk[2]] = placed[jk[2]]
      BY <1>0, <1>5
    <3>2. jk \in S
      BY <1>9
    <3>3. w[jk] = Pressure(moved[jk[1]], moved[jk[2]])
      BY <3>2
    <3>4. u[jk] = Pressure(placed[jk[1]], placed[jk[2]])
      OBVIOUS
    <3> QED BY <3>1, <3>3, <3>4
  <2>2. u = [jk \in B |-> u[jk]]
    OBVIOUS
  <2> HIDE DEF u, w
  <2> QED BY <2>1, <2>2
<1>13. \A k \in P : k \in D /\ k # i /\ k \in Nat /\ moved[k].side = moved[i].side
                    /\ moved[k] = placed[k] /\ i \in D
  BY <1>0, <1>1
<1>14. \A k \in P : g[k] = IF i < k THEN <<i, k>> ELSE <<k, i>>
  OBVIOUS
<1>15. \A j, k : <<j, k>> \in S => w[<<j, k>>] = Pressure(moved[j], moved[k])
  BY <1>6
<1>16. \A k \in P : v[k] = Pressure(place, placed[k])
  OBVIOUS
<1> HIDE DEF S, B, P, w, v, u, g, D
<1>17. ASSUME NEW k \in P PROVE g[k] \in S \ B /\ w[g[k]] = v[k]
  <2>0. i \in Nat /\ k \in Nat /\ k # i /\ i \in D /\ k \in D
    BY <1>1, <1>13
  <2>1. v[k] = Pressure(moved[i], moved[k]) /\ v[k] = Pressure(moved[k], moved[i])
    BY <1>0, <1>3, <1>13, <1>16, <2>0
  <2>2. CASE i < k
    <3>1. g[k] = <<i, k>>
      BY <1>14, <2>2
    <3>2. <<i, k>> \in S /\ <<i, k>> \notin B
      BY <1>7, <1>8, <1>13, <2>0, <2>2
    <3> QED BY <1>15, <2>1, <3>1, <3>2
  <2>3. CASE ~(i < k)
    <3>1. g[k] = <<k, i>>
      BY <1>14, <2>3
    <3>2. <<k, i>> \in S /\ <<k, i>> \notin B
      BY <1>7, <1>8, <1>13, <2>0, <2>3
    <3> QED BY <1>15, <2>1, <3>1, <3>2
  <2> QED BY <2>2, <2>3
<1>18. ASSUME NEW k \in P, NEW m \in P, g[k] = g[m] PROVE k = m
  <2>1. k # i /\ m # i
    BY <1>13
  <2>2. g[k] = <<i, k>> \/ g[k] = <<k, i>>
    BY <1>14
  <2>3. g[m] = <<i, m>> \/ g[m] = <<m, i>>
    BY <1>14
  <2>4. \A p, q, r, s : <<p, q>> = <<r, s>> => p = r /\ q = s
    OBVIOUS
  <2> QED BY <1>18, <2>1, <2>2, <2>3, <2>4, Zenon
<1>19. ASSUME NEW jk \in S \ B PROVE \E m \in P : jk = g[m]
  <2>1. PICK j \in D, k \in D : jk = <<j, k>>
    BY <1>4
  <2>2. j < k /\ moved[j].side = moved[k].side /\ (j = i \/ k = i)
    BY <1>7, <1>8, <2>1
  <2>3. j \in Nat /\ k \in Nat
    BY <1>1
  <2>4. CASE j = i
    <3>1. k \in P
      BY <1>0, <2>2, <2>3, <2>4 DEF P, D
    <3>2. g[k] = <<j, k>>
      BY <1>14, <2>2, <2>4, <3>1
    <3> QED BY <2>1, <3>1, <3>2
  <2>5. CASE k = i
    <3>1. j \in P
      BY <1>0, <2>2, <2>3, <2>5 DEF P, D
    <3>2. ~(i < j)
      BY <2>2, <2>3, <2>5
    <3>3. g[j] = <<j, k>>
      BY <1>14, <2>5, <3>1, <3>2
    <3> QED BY <2>1, <3>1, <3>3
  <2> QED BY <2>2, <2>4, <2>5
<1>20. /\ SumFunction(v) \in Nat /\ SumFunction([jk \in B |-> w[jk]]) \in Nat
       /\ SumFunction(w) = SumFunction(v) + SumFunction([jk \in B |-> w[jk]])
  BY <1>2, <1>9, <1>10, <1>11, <1>17, <1>18, <1>19, SumInTwo
<1>21. Density(i, place) = SumFunction(v) /\ OtherPressure(i) = SumFunction(u)
       /\ PressureOf(moved) = SumFunction(w)
  BY Zenon DEF Density, OtherPressure, PressureOf, v, u, w, P, B, S
<1> QED BY <1>12, <1>20, <1>21 DEF moved

LEMMA ConnectionsSplit ==
  ASSUME layout \in Layouts, IsPlaced(layout, placed), NEW i \in DOMAIN items, NEW place, IsPlace(place)
  PROVE  /\ Connectivity(i, place) \in Nat /\ WireLengths(Wires(OtherEnds(i))) \in Nat
         /\ WireLengths(Connections([placed EXCEPT ![i] = place]))
              = Connectivity(i, place) + WireLengths(Wires(OtherEnds(i)))
<1> DEFINE moved == [placed EXCEPT ![i] = place]
           D == DOMAIN items
           own == Endpoints(i, place)
           rest == OtherEnds(i)
           at == [j \in D \ {i} |-> Endpoints(j, placed[j])]
<1>0. /\ moved[i] = place
      /\ \A j \in D \ {i} : moved[j] = placed[j] /\ IsPlace(placed[j])
  BY MovedItem, Zenon
<1> HIDE DEF moved
<1>1. IsFiniteSet(D) /\ D \subseteq Nat
  BY ItemsAreFinite
<1>2. IsFiniteSet(own) /\ \A e \in own : e[2] \in Grounds /\ e[3][1] = i
  BY EndpointsAreFinite DEF items
<1>3. IsFiniteSet(rest) /\ \A e \in rest : e[2] \in Grounds /\ e[3][1] \in Int /\ e[3][1] # i
  <2>1. \A j \in D \ {i} : IsFiniteSet(at[j]) /\ \A e \in at[j] : e[2] \in Grounds /\ e[3][1] = j
    BY <1>0, EndpointsAreFinite DEF items
  <2>2. rest = UNION {at[j] : j \in D \ {i}}
    BY DEF OtherEnds
  <2>3. IsFiniteSet(D \ {i})
    BY <1>1, FS_Subset
  <2> HIDE DEF at, rest, D
  <2>4. IsFiniteSet(UNION {at[j] : j \in D \ {i}})
    BY <2>1, <2>3, FamilyIsFinite
  <2>5. ASSUME NEW e \in rest PROVE e[2] \in Grounds /\ e[3][1] \in Int /\ e[3][1] # i
    <3>1. PICK j \in D \ {i} : e \in at[j]
      BY <2>2
    <3>2. j \in Int
      BY <1>1
    <3> QED BY <2>1, <3>1, <3>2
  <2> QED BY <2>2, <2>4, <2>5
<1>4. UNION {Endpoints(j, moved[j]) : j \in D} = own \cup rest
  <2>1. \A j \in D \ {i} : Endpoints(j, moved[j]) = Endpoints(j, placed[j])
    BY <1>0
  <2>2. Endpoints(i, moved[i]) = own
    BY <1>0
  <2> QED BY <2>1, <2>2 DEF OtherEnds
<1>5. Connections(moved) = Wires(own \cup rest)
  <2> HIDE DEF own, rest
  <2> QED BY <1>4, Zenon DEF Connections, Wires
<1>6. Connectivity(i, place) = WireLengths(WiresTo(own, rest))
  BY Zenon DEF Connectivity, WiresTo, OtherEnds
<1>7. i \in Int
  BY <1>1
<1> HIDE DEF own, rest
<1>8. /\ WireLengths(WiresTo(own, rest)) \in Nat /\ WireLengths(Wires(rest)) \in Nat
      /\ WireLengths(Wires(own \cup rest)) = WireLengths(WiresTo(own, rest)) + WireLengths(Wires(rest))
  <2>1. \A e \in own : e[2] \in Grounds /\ e[3][1] = i
    BY <1>2
  <2>2. \A e \in rest : e[2] \in Grounds /\ e[3][1] \in Int /\ e[3][1] # i
    BY <1>3
  <2>3. WiresAdd(own, rest)
    BY <1>2, <1>3, <1>7, <2>1, <2>2, WiresSplit, Zenon
  <2> QED BY <2>3 DEF WiresAdd
<1> QED BY <1>5, <1>6, <1>8 DEF moved, rest

(* Two entries and more.                                                    *)
IsJoined(joined, a, b, q) ==
  /\ joined \in Scores(Len(q) + 2)
  /\ joined[1] = a /\ joined[2] = b
  /\ \A k \in 1..Len(q) : joined[k + 2] = q[k]
LEMMA JoinedIsScore ==
  ASSUME NEW a \in Int, NEW b \in Int, NEW q \in Seq(Int)
  PROVE  IsJoined(<<a, b>> \o q, a, b, q)
<1> DEFINE joined == <<a, b>> \o q
<1>1. PICK p \in Seq(Int) : p = <<a, b>>
  <2>1. <<a, b>> \in Seq(Int)
    OBVIOUS
  <2> QED BY <2>1
<1>2. Len(p) = 2 /\ p[1] = a /\ p[2] = b /\ joined = p \o q
  BY <1>1
<1>3. Len(q) \in Nat
  OBVIOUS
<1>4. joined \in Seq(Int)
  BY <1>2, ConcatProperties, Zenon
<1>5. Len(joined) = 2 + Len(q)
  <2>1. Len(p \o q) = Len(p) + Len(q)
    BY ConcatProperties, Zenon
  <2> QED BY <1>2, <2>1, Zenon
<1>6. \A k \in 1..(2 + Len(q)) : joined[k] = IF k <= 2 THEN p[k] ELSE q[k - 2]
  <2>1. \A k \in 1..(Len(p) + Len(q)) : (p \o q)[k] = IF k <= Len(p) THEN p[k] ELSE q[k - Len(p)]
    BY ConcatProperties, Zenon
  <2> QED BY <1>2, <2>1, Zenon
<1> HIDE DEF joined
<1>7. joined \in [1..(Len(q) + 2) -> Int]
  <2>1. joined \in [1..Len(joined) -> Int]
    BY <1>4
  <2>2. 2 + Len(q) = Len(q) + 2
    BY <1>3
  <2> QED BY <1>5, <2>1, <2>2
<1>8. joined[1] = a /\ joined[2] = b /\ \A k \in 1..Len(q) : joined[k + 2] = q[k]
  <2>0. 1 \in 1..(2 + Len(q)) /\ 2 \in 1..(2 + Len(q))
    BY <1>3
  <2>1. joined[1] = a /\ joined[2] = b
    <3>1. joined[1] = IF 1 <= 2 THEN p[1] ELSE q[1 - 2]
      BY <1>6, <2>0, Zenon
    <3>2. joined[2] = IF 2 <= 2 THEN p[2] ELSE q[2 - 2]
      BY <1>6, <2>0, Zenon
    <3>3. (1 <= 2) /\ (2 <= 2)
      OBVIOUS
    <3> QED BY <1>2, <3>1, <3>2, <3>3, Zenon
  <2>2. ASSUME NEW k \in 1..Len(q) PROVE joined[k + 2] = q[k]
    <3>1. k + 2 \in 1..(2 + Len(q)) /\ ~(k + 2 <= 2) /\ (k + 2) - 2 = k
      BY <1>3
    <3> QED BY <1>6, <3>1
  <2> QED BY <2>1, <2>2
<1>9. IsJoined(joined, a, b, q)
  BY <1>7, <1>8 DEF Scores, IsJoined
<1> QED BY <1>9 DEF joined

(* The score of a place is the cost of the layout with it, less what the    *)
(* other items cost among themselves.                                       *)
OtherCost(i) ==
  <<0, 0, 0, IF request.density > 0 THEN OtherPressure(i) ELSE 0, WireLengths(Wires(OtherEnds(i)))>>
CostsAdd(i, place, cost) ==
  /\ CandidateScore(i, place) \in Scores(7) /\ cost \in Scores(5) /\ OtherCost(i) \in Scores(5)
  /\ \A k \in 1..5 : cost[k] = CandidateScore(i, place)[k] + OtherCost(i)[k]
LEMMA CostsSplit ==
  ASSUME layout \in Layouts, IsPlaced(layout, placed), NEW i \in DOMAIN items, NEW place, IsPlace(place)
  PROVE  CostsAdd(i, place, LayoutCost([placed EXCEPT ![i] = place]))
<1> DEFINE after == [placed EXCEPT ![i] = place]
           shift(k) == place.at[k] - placed[i].at[k]
<1>1. PICK a \in Nat, b \in Nat : AccessScore(after) = <<a, b>>
  BY AccessIsNatural
<1>2. Crossings(after) \in Nat
  <2>1. \A j \in DOMAIN layout.items : IsPlace(after[j])
    BY MovedItem DEF items
  <2> HIDE DEF after
  <2> QED BY <2>1, CrossingsAreNatural
<1>3. PICK x \in Nat : x = IF request.congestion THEN Crossings(after) ELSE 0
  <2> HIDE DEF after
  <2> QED BY <1>2
<1>4. Density(i, place) \in Nat /\ OtherPressure(i) \in Nat
      /\ PressureOf(after) = Density(i, place) + OtherPressure(i)
  BY PressuresSplit
<1>5. Connectivity(i, place) \in Nat /\ WireLengths(Wires(OtherEnds(i))) \in Nat
      /\ WireLengths(Connections(after)) = Connectivity(i, place) + WireLengths(Wires(OtherEnds(i)))
  BY ConnectionsSplit
<1> HIDE DEF after
<1>6. PICK d \in Nat, e \in Nat, f \in Nat :
        /\ d = IF request.density > 0 THEN Density(i, place) ELSE 0
        /\ e = IF request.density > 0 THEN OtherPressure(i) ELSE 0
        /\ f = IF request.density > 0 THEN PressureOf(after) ELSE 0
        /\ f = d + e
  BY <1>4
<1>7. PICK c \in Nat, r \in Nat, s \in Nat :
        /\ c = Connectivity(i, place) /\ r = WireLengths(Wires(OtherEnds(i)))
        /\ s = WireLengths(Connections(after)) /\ s = c + r
  BY <1>5
<1>8. shift(1) * shift(1) + shift(2) * shift(2) \in Int
  <2>1. IsPoint(place.at) /\ IsPoint(placed[i].at)
    <3>1. IsPlace(placed[i])
      BY Zenon DEF IsPlaced, items
    <3> QED BY <3>1, Zenon DEF IsPlace
  <2>2. shift(1) \in Int /\ shift(2) \in Int
    BY <2>1 DEF IsPoint
  <2>3. PICK p \in Int, q \in Int : p = shift(1) /\ q = shift(2)
    BY <2>2
  <2>4. p * p + q * q \in Int
    OBVIOUS
  <2> QED BY <2>3, <2>4
<1>9. PICK g \in Int : g = shift(1) * shift(1) + shift(2) * shift(2)
  BY <1>8
<1>10. PICK h \in Int : h = (IF place.turn # placed[i].turn THEN 1 ELSE 0)
                            + (IF place.side # placed[i].side THEN 1 ELSE 0)
  OBVIOUS
<1>11. CandidateScore(i, place) = <<a, b>> \o <<x, d, c, g, h>>
  BY <1>1, <1>3, <1>6, <1>7, <1>9, <1>10, Zenon DEF CandidateScore, after
<1>12. LayoutCost(after) = <<a, b>> \o <<x, f, s>>
  BY <1>1, <1>3, <1>6, <1>7, Zenon DEF LayoutCost, PressureOf
<1>13. OtherCost(i) = <<0, 0, 0, e, r>>
  BY <1>6, <1>7, Zenon DEF OtherCost
<1>14. <<x, d, c, g, h>> \in Seq(Int) /\ <<x, f, s>> \in Seq(Int)
  OBVIOUS
<1>15. PICK q \in Seq(Int), t \in Seq(Int) : q = <<x, d, c, g, h>> /\ t = <<x, f, s>>
  BY <1>14
<1>16. /\ Len(q) = 5 /\ q[1] = x /\ q[2] = d /\ q[3] = c
       /\ Len(t) = 3 /\ t[1] = x /\ t[2] = f /\ t[3] = s
  BY <1>15
<1>17. PICK score, cost : score = CandidateScore(i, place) /\ cost = LayoutCost(after)
  OBVIOUS
<1>18. /\ score \in Scores(7) /\ score[1] = a /\ score[2] = b
       /\ score[3] = x /\ score[4] = d /\ score[5] = c
  <2>1. score = <<a, b>> \o q
    BY <1>11, <1>15, <1>17
  <2>2. IsJoined(<<a, b>> \o q, a, b, q)
    BY JoinedIsScore
  <2>3. IsJoined(score, a, b, q)
    BY <2>1, <2>2
  <2> QED BY <1>16, <2>3 DEF IsJoined
<1>19. /\ cost \in Scores(5) /\ cost[1] = a /\ cost[2] = b
       /\ cost[3] = x /\ cost[4] = f /\ cost[5] = s
  <2>1. cost = <<a, b>> \o t
    BY <1>12, <1>15, <1>17
  <2>2. IsJoined(<<a, b>> \o t, a, b, t)
    BY JoinedIsScore
  <2>3. IsJoined(cost, a, b, t)
    BY <2>1, <2>2
  <2> QED BY <1>16, <2>3 DEF IsJoined
<1>20. PICK o : o = <<0, 0, 0, e, r>>
  OBVIOUS
<1>21. o = OtherCost(i)
  BY <1>13, <1>20
<1>22. o \in Scores(5) /\ o[1] = 0 /\ o[2] = 0 /\ o[3] = 0 /\ o[4] = e /\ o[5] = r
  BY <1>20 DEF Scores
<1>23. ASSUME NEW k \in 1..5
       PROVE  cost[k] = score[k] + o[k]
  <2>1. k = 1 \/ k = 2 \/ k = 3 \/ k = 4 \/ k = 5
    OBVIOUS
  <2>2. a = a + 0 /\ b = b + 0 /\ x = x + 0
    OBVIOUS
  <2>3. CASE k = 1
    BY <1>18, <1>19, <1>22, <2>2, <2>3, Zenon
  <2>4. CASE k = 2
    BY <1>18, <1>19, <1>22, <2>2, <2>4, Zenon
  <2>5. CASE k = 3
    BY <1>18, <1>19, <1>22, <2>2, <2>5, Zenon
  <2>6. CASE k = 4
    BY <1>6, <1>18, <1>19, <1>22, <2>6, Zenon
  <2>7. CASE k = 5
    BY <1>7, <1>18, <1>19, <1>22, <2>7, Zenon
  <2> QED BY <2>1, <2>3, <2>4, <2>5, <2>6, <2>7, Zenon
<1> QED BY <1>17, <1>18, <1>19, <1>21, <1>22, <1>23, Zenon DEF CostsAdd, after

(* So a layout whose cost is lower has the lower score.                     *)
LEMMA LowerCostLowerScore ==
  ASSUME NEW i, NEW p, NEW q, NEW u, NEW v,
         CostsAdd(i, p, u), CostsAdd(i, q, v), Cheaper(u, v)
  PROVE  Cheaper(CandidateScore(i, p), CandidateScore(i, q))
<1>1. PICK a \in Scores(7), b \in Scores(7), r \in Scores(5) :
         a = CandidateScore(i, p) /\ b = CandidateScore(i, q) /\ r = OtherCost(i)
  BY DEF CostsAdd
<1>2. u \in Scores(5) /\ v \in Scores(5)
      /\ \A k \in 1..5 : u[k] = a[k] + r[k] /\ v[k] = b[k] + r[k]
  BY <1>1, Zenon DEF CostsAdd
<1>3. PICK k \in 1..5 : u[k] < v[k] /\ \A l \in 1..(k - 1) : u[l] = v[l]
  BY <1>2 DEF Cheaper, Scores
<1>4. \A l \in 1..5 : a[l] \in Int /\ b[l] \in Int /\ r[l] \in Int
  BY DEF Scores
<1>5. a[k] < b[k]
  BY <1>2, <1>3, <1>4
<1>6. \A l \in 1..(k - 1) : a[l] = b[l]
  <2> TAKE l \in 1..(k - 1)
  <2>1. l \in 1..5
    OBVIOUS
  <2> QED BY <1>2, <1>3, <1>4, <2>1
<1>7. DOMAIN a = 1..7
  BY DEF Scores
<1>8. Cheaper(a, b)
  BY <1>5, <1>6, <1>7 DEF Cheaper
<1> QED BY <1>1, <1>8

LEMMA PlacingIsNoWorse ==
  ASSUME SolverInv, PlaceNext, NEW i \in settled' \ settled, CandidateAllowed(i, placed[i], Blockers(i))
  PROVE  ~Cheaper(LayoutCost(placed), LayoutCost(placed'))
<1>1. stage = "placing" /\ waiting # {} /\ layout \in Layouts /\ IsPlaced(layout, placed)
      /\ waiting \subseteq DOMAIN layout.items /\ request.pitch > 0
  BY DEF PlaceNext, SolverInv, request
<1>2. Settle(Turn, Allowed(Turn)) \/ GiveUp(Turn, Allowed(Turn))
  BY Zenon DEF PlaceNext, Allowed
<1>3. i = Turn /\ Settle(i, Allowed(i))
  BY <1>2 DEF Settle, GiveUp
<1>4. i \in DOMAIN items
  BY <1>1, <1>3, TurnWaits DEF items
<1> DEFINE taken == Accepted(i, Allowed(i))
<1>5. placed' = [placed EXCEPT ![i] = taken]
  BY <1>3, Zenon DEF Settle
<1>6. placed = [placed EXCEPT ![i] = placed[i]] /\ IsPlace(placed[i])
  BY <1>1, <1>4 DEF IsPlaced, items
<1>7. 0 \in DOMAIN Allowed(i) /\ Allowed(i)[0] = placed[i]
  BY <1>1, <1>6, OwnPlaceComesFirst
<1>8. \A n \in DOMAIN Allowed(i) : IsPlace(Allowed(i)[n])
  BY <1>1, <1>6, AllowedArePlaces
<1>9. \A n \in DOMAIN Allowed(i) : CostOf(i, Allowed(i), n) \in Scores(7)
  BY <1>1, <1>4, <1>8, CostsSplit, Zenon DEF CostsAdd, CostOf
<1>10. PICK k \in DOMAIN Allowed(i) :
           /\ taken = Allowed(i)[k]
           /\ (placed[i] \in Range(Allowed(i)) => request.optimize)
                => \A n \in DOMAIN Allowed(i) : ~Cheaper(CostOf(i, Allowed(i), n), CostOf(i, Allowed(i), k))
  <2>1. PICK K \in Nat : DOMAIN Allowed(i) \subseteq 0..K
    BY <1>1, <1>6, AllowedArePlaces
  <2>2. DOMAIN Allowed(i) # {}
    BY <1>7
  <2> QED BY <1>9, <2>1, <2>2, AcceptedIsAllowed, Zenon
<1>11. CostsAdd(i, placed[i], LayoutCost(placed)) /\ CostsAdd(i, taken, LayoutCost(placed'))
  <2>1. IsPlace(taken)
    BY <1>8, <1>10
  <2>2. CostsAdd(i, placed[i], LayoutCost([placed EXCEPT ![i] = placed[i]]))
    BY <1>1, <1>4, <1>6, CostsSplit
  <2>3. CostsAdd(i, taken, LayoutCost([placed EXCEPT ![i] = taken]))
    <3> HIDE DEF taken
    <3> QED BY <1>1, <1>4, <2>1, CostsSplit
  <2> QED BY <1>5, <1>6, <2>2, <2>3, Zenon
<1>12. ~Cheaper(CandidateScore(i, placed[i]), CandidateScore(i, taken))
  <2>1. CASE request.optimize
    <3>1. ~Cheaper(CostOf(i, Allowed(i), 0), CostOf(i, Allowed(i), k))
      BY <1>7, <1>10, <2>1, Zenon
    <3> QED BY <1>7, <1>10, <3>1, Zenon DEF CostOf
  <2>2. CASE ~request.optimize
    <3>1. placed[i] \in Range(Allowed(i))
      BY <1>7, Zenon DEF Range
    <3>2. taken = placed[i]
      BY <2>2, <3>1, Zenon DEF Accepted
    <3>3. CandidateScore(i, placed[i]) \in Scores(7)
      BY <1>11, Zenon DEF CostsAdd
    <3>4. ~Cheaper(CandidateScore(i, placed[i]), CandidateScore(i, placed[i]))
      BY <3>3, CheaperIsOrder
    <3> QED BY <3>2, <3>4, Zenon
  <2> QED BY <2>1, <2>2
<1> HIDE DEF taken
<1>13. PICK u, v : u = LayoutCost(placed) /\ v = LayoutCost(placed')
  OBVIOUS
<1>14. CostsAdd(i, placed[i], u) /\ CostsAdd(i, taken, v)
  BY <1>11, <1>13, Zenon
<1>15. ~Cheaper(u, v)
  BY <1>12, <1>14, LowerCostLowerScore, Zenon
<1> QED BY <1>13, <1>15, Zenon

(* Whoever leaves a place it could have kept makes the layout no worse:     *)
(* the score by which a place is chosen, without what the move itself       *)
(* costs, differs from the cost of the whole layout by the same amount      *)
(* whatever the place.                                                      *)
THEOREM PlacementsAreNoWorse == SolverSpec => NoWorse
<1> DEFINE Kept == \A i \in settled' \ settled :
                     CandidateAllowed(i, placed[i], Blockers(i))
                       => ~Cheaper(LayoutCost(placed), LayoutCost(placed'))
<1>1. SolverInv /\ [SolverNext]_solverVars => [Kept]_solverVars
  <2> SUFFICES ASSUME SolverInv, SolverNext, settled' \ settled # {} PROVE Kept
    BY Zenon
  <2>1. ~(RefuseCall \/ Resolve \/ Certify \/ Answered)
    BY DEF RefuseCall, Resolve, Certify, Answered, solverVars
  <2>2. PlaceNext
    BY <2>1 DEF SolverNext
  <2> QED BY <2>2, PlacingIsNoWorse, Zenon
<1> QED BY <1>1, SolverInvHolds, PTL DEF SolverSpec, NoWorse

(* What every state is made of.                                             *)
THEOREM SolverTypeCorrect == SolverSpec => []SolverTypeOK
<1>1. SolverInv => SolverTypeOK
  <2> SUFFICES ASSUME SolverInv PROVE SolverTypeOK
    OBVIOUS
  <2>1. DOMAIN placed = DOMAIN items
    BY DEF SolverInv, IsPlaced, items
  <2>2. \A i \in DOMAIN placed : IsPlace(placed[i])
    BY <2>1, Zenon DEF SolverInv, IsPlaced, items
  <2>3. settled \cup waiting \subseteq DOMAIN items /\ stage \in {"asked", "placing", "done"}
    BY DEF SolverInv, items
  <2> QED BY <2>1, <2>2, <2>3, Zenon DEF SolverTypeOK
<1> QED BY <1>1, SolverInvHolds, PTL
=============================================================================
