----------------------------- MODULE CopperPour -----------------------------
(***************************************************************************)
(* The copper of a board: `PcbLayout::realize_stitching_vias`              *)
(* (src/stitching.rs) tries the grid of every zone for stitching vias, and *)
(* `PcbLayout::materialize` (src/materialize.rs) then lays pads, artwork,  *)
(* routes and vias and pours the zones into what is left, those of higher  *)
(* priority first.                                                         *)
(*                                                                         *)
(* Lengths are integers, rotations quarter turns.  Authored shapes are     *)
(* boxes, a zone's a box without the notches cut into its sides; copper is *)
(* the set of unit cells it covers, a cell being its lower left corner, and *)
(* a rounded shape covers the cells it overlaps.  Every predicate is then  *)
(* decided, so "indeterminate" and the exact geometry's failures are left  *)
(* out, as are drill hits, solder mask, paste, silkscreen, the images      *)
(* merged layer by layer and the counts reported of a pour.                *)
(***************************************************************************)
EXTENDS BoardGeometry

CONSTANTS
  PourBoards   \* boards to be materialized

IsBox(box) == IsPoint(box.low) /\ IsPoint(box.high)
IsPourVia(via) == IsPoint(via.at) /\ {via.land, via.first, via.last} \subseteq Int
IsPlacedItem(item) ==
  /\ IsPoint(item.place.at) /\ item.place.turn \in 0..3
  /\ item.pads \in Seq(Range(item.pads)) /\ item.artwork \in Seq(Range(item.artwork))
  /\ \A pad \in Range(item.pads) : IsPoint(pad.at) /\ IsPoint(pad.half) /\ IsFiniteSet(pad.layers)
  /\ \A shape \in Range(item.artwork) : IsBox(shape.box)
IsTrack(route) ==
  /\ route.half \in Int /\ route.lines \in Seq(Range(route.lines))
  /\ \A line \in Range(route.lines) : IsBox(line)
IsStitching(policy) ==
  /\ {policy.pitch, policy.land, policy.drill, policy.edge, policy.first, policy.last} \subseteq Int
  /\ policy.limit \in Nat
IsPourBoard(b) ==
  /\ b.items \in Seq(Range(b.items)) /\ \A item \in Range(b.items) : IsPlacedItem(item)
  /\ b.routes \in Seq(Range(b.routes)) /\ \A route \in Range(b.routes) : IsTrack(route)
  /\ b.vias \in Seq(Range(b.vias)) /\ \A v \in DOMAIN b.vias : IsPourVia(b.vias[v])
  /\ b.zones \in Seq(Range(b.zones))
  /\ \A z \in DOMAIN b.zones :
       /\ IsBox(b.zones[z].boundary.outline)
       /\ b.zones[z].stitching # << >> => IsStitching(b.zones[z].stitching[1])
ASSUME PourBoardsAreBoards == \A b \in PourBoards : IsPourBoard(b)

VARIABLES
  board,      \* outline, cutouts, keepouts, items, routes, vias and zones
  step,       \* "asked", "stitching", "pouring", "done" or "InvalidSourceModel"
  zone,       \* the zone whose grid is being tried
  stitched,   \* stitching vias accepted so far
  evidence,   \* of each zone, what became of its grid
  toPour,     \* zones still to be poured
  copper      \* features laid so far

pourVars == <<board, step, zone, stitched, evidence, toPour, copper>>

Zones == DOMAIN board.zones

-----------------------------------------------------------------------------
(* Cells.                                                                  *)

Point(p) == [low |-> p, high |-> p]
Cell(p) == [low |-> p, high |-> Moved(p, <<1, 1>>)]
Filled(box) == ((box.low[1])..(box.high[1] - 1)) \X ((box.low[2])..(box.high[2] - 1))
CellsOf(shape) == Filled(shape.outline) \ UNION {Filled(cutout) : cutout \in shape.cutouts}

(* What a disc moved along a line covers.                                  *)
Swept(line, radius) ==
  {p \in Filled(Grown(line, radius)) : ~ClearOf(Cell(p), line, radius)}
(* A cell of the region or of its offset by some distance.                 *)
Near(p, region, distance) ==
  \E q \in region : p = q \/ ~ClearOf(Cell(p), Cell(q), distance)

-----------------------------------------------------------------------------
(* Stitching: the candidates of a zone, row by row.                        *)

Stitches(z) == board.zones[z].stitching # << >>
Policy(z) == board.zones[z].stitching[1]
Inset(z) == Policy(z).land + Policy(z).edge

Places(z, k) ==
  LET outline == board.zones[z].boundary.outline
      room == outline.high[k] - outline.low[k] - 2 * Inset(z)
  IN IF room < 0 THEN 0 ELSE room \div Policy(z).pitch + 1
Candidates(z) == Places(z, 1) * Places(z, 2)
Row(z, n) == n \div Places(z, 1)
Column(z, n) == n % Places(z, 1)
Centre(z, n) ==
  LET low == board.zones[z].boundary.outline.low
  IN <<low[1] + Inset(z) + Column(z, n) * Policy(z).pitch,
       low[2] + Inset(z) + Row(z, n) * Policy(z).pitch>>

StitchId(z, n) == <<board.zones[z].id, Row(z, n), Column(z, n)>>
StitchVia(z, n) ==
  [id |-> StitchId(z, n), net |-> board.zones[z].net, first |-> Policy(z).first,
   last |-> Policy(z).last, at |-> Centre(z, n), land |-> Policy(z).land, drill |-> Policy(z).drill]

(* Not the code: stitching vias are kept clear of the authored ones only.  *)
OccupiedAuthored == Range(board.vias)
Occupied == Range(board.vias) \cup Range(stitched)

Fits(at, radius, shape) == OnBoardBy(shape, Point(at), radius)
ForVias(keepout) == keepout.scope \in {"All", "Vias"}
ClearVia(z, at, via) ==
  ClearOf(Point(at), Point(via.at), Policy(z).land + via.land + Policy(z).edge)

Hindrances == {"OutsideZone", "BoardOrCutout", "Keepout", "ViaCollision", "IdCollision"}
(* The first reason not to put a via there, or "None".                     *)
Hindrance(z, n) ==
  LET at == Centre(z, n)
  IN IF ~Fits(at, Inset(z), board.zones[z].boundary) THEN "OutsideZone"
     ELSE IF ~Fits(at, Inset(z), board) THEN "BoardOrCutout"
     ELSE IF \E keepout \in Range(board.keepouts) :
               ForVias(keepout) /\ ~ClearOf(Point(at), keepout.box, Inset(z)) THEN "Keepout"
     ELSE IF \E via \in Occupied : ~ClearVia(z, at, via) THEN "ViaCollision"
     ELSE IF \E via \in Occupied : via.id = StitchId(z, n) THEN "IdCollision"
     ELSE "None"

NothingTried ==
  [candidates |-> 0, accepted |-> 0, rejected |-> [why \in Hindrances |-> 0], truncated |-> FALSE]
Tallied(entry, hindrance) ==
  [candidates |-> entry.candidates + 1,
   accepted |-> entry.accepted + (IF hindrance = "None" THEN 1 ELSE 0),
   rejected |-> [why \in Hindrances |-> entry.rejected[why] + (IF why = hindrance THEN 1 ELSE 0)],
   truncated |-> entry.truncated]
Truncated(entry) ==
  [candidates |-> entry.candidates, accepted |-> entry.accepted,
   rejected |-> entry.rejected, truncated |-> TRUE]

-----------------------------------------------------------------------------
(* Copper that is there before the zones.                                  *)

Feature(source, net, layer, kind, anchor, region) ==
  [source |-> source, net |-> net, layer |-> layer, kind |-> kind, anchor |-> anchor,
   region |-> region]

PlacedLayer(layer, side) == IF side = "Front" THEN layer ELSE board.lastLayer - layer
PlacedBox(place, box) == Around({Onto(place, p) : p \in Corners(box)})
PadShape(pad) ==
  [low |-> Moved(pad.at, <<-pad.half[1], -pad.half[2]>>), high |-> Moved(pad.at, pad.half)]

PadFeatures(i) ==
  LET item == board.items[i]
      of(p) == LET pad == item.pads[p]
               IN {Feature(<<"pad", i, p>>, pad.net, PlacedLayer(layer, item.place.side), "Pad",
                           Onto(item.place, pad.at), Filled(PlacedBox(item.place, PadShape(pad)))) :
                     layer \in pad.layers}
  IN UNION {of(p) : p \in DOMAIN item.pads}
ArtworkFeatures(i) ==
  LET item == board.items[i]
  IN {Feature(<<"graphic", i, g>>, "None", PlacedLayer(item.artwork[g].layer, item.place.side),
              "Artwork", item.place.at, Filled(PlacedBox(item.place, item.artwork[g].box))) :
        g \in DOMAIN item.artwork}
RouteFeature(r) ==
  LET route == board.routes[r]
  IN Feature(<<"route", r>>, route.net, route.layer, "Route", route.lines[1].low,
             UNION {Swept(line, route.half) : line \in Range(route.lines)})
ViaFeatures(via) ==
  {Feature(<<"via", via.id>>, via.net, layer, "Via", via.at, Swept(Point(via.at), via.land)) :
     layer \in (via.first)..(via.last)}

FixedFeatures ==
  (UNION {PadFeatures(i) \cup ArtworkFeatures(i) : i \in DOMAIN board.items})
    \cup {RouteFeature(r) : r \in DOMAIN board.routes}
    \cup UNION {ViaFeatures(via) : via \in Range(board.vias) \cup Range(stitched)}

-----------------------------------------------------------------------------
(* A zone's copper.                                                        *)

Substrate == CellsOf(board)
ClippedBoundary(z) == CellsOf(board.zones[z].boundary) \cap Substrate

Middle(box) == <<(box.low[1] + box.high[1]) \div 2, (box.low[2] + box.high[2]) \div 2>>
Size(box, k) == box.high[k] - box.low[k]
(* `zone_center_extent`: long enough to reach across at any angle.         *)
Extent(z) == LET outline == board.zones[z].boundary.outline IN Size(outline, 1) + Size(outline, 2)

(* csgrs's rectangle has its corner, not its middle, at the origin.        *)
Rectangle(at, width, height) == [low |-> at, high |-> Moved(at, <<width, height>>)]
TurnedBox(box, turn) == Around({Turned(p, turn) : p \in Corners(box)})
MovedBox(box, by) == [low |-> Moved(box.low, by), high |-> Moved(box.high, by)]

(* Stripes as long as twice the extent, from one extent below the middle   *)
(* to one above.                                                           *)
Hatch(z) ==
  LET fill == board.zones[z].fill
      pitch == fill.width + fill.gap
      stripe(n) == MovedBox(TurnedBox(Rectangle(<<0, n * pitch - Extent(z)>>, 2 * Extent(z), fill.width),
                                      fill.turn),
                            Middle(board.zones[z].boundary.outline))
      stripes == {stripe(n) : n \in 0..((2 * Extent(z)) \div pitch)}
  IN {p \in ClippedBoundary(z) : \E s \in stripes : p \in Filled(s)}
Fill(z) == IF board.zones[z].fill.kind = "Hatched" THEN Hatch(z) ELSE ClippedBoundary(z)

OnLayerOf(z) == {feature \in copper : feature.layer = board.zones[z].layer}
Foreign(z) == {feature \in OnLayerOf(z) : feature.net # board.zones[z].net}
Lands(z) == {feature \in OnLayerOf(z) : /\ feature.net = board.zones[z].net
                                        /\ feature.kind \in {"Pad", "Via"}}
Relief(z) == board.zones[z].connection.kind = "Relief"

(* The spokes of a land: two bars or two rays, cut to the box around the   *)
(* land and its gap.                                                       *)
SpokeMask(z, land) ==
  LET how == board.zones[z].connection
      span == 2 * Extent(z)
      around == Grown(Around(UNION {Corners(Cell(p)) : p \in land.region}), how.gap)
      clip == Rectangle(Middle(around), Size(around, 1), Size(around, 2))
      spokes == IF how.count = 4
                THEN {Rectangle(land.anchor, span, how.width), Rectangle(land.anchor, how.width, span)}
                ELSE {MovedBox(TurnedBox(Rectangle(<<0, 0>>, span, how.width), turn), land.anchor) :
                        turn \in {0, 2}}
  IN {p \in Filled(clip) : \E spoke \in spokes : p \in Filled(spoke)}
(* They are cut to the zone and the board unless the zone is a rectangle   *)
(* they stay inside, and the hole of an authored via goes through them.    *)
Drilled(land) ==
  UNION {Swept(Point(via.at), via.drill) :
           via \in {v \in Range(board.vias) : land.source = <<"via", v.id>>}}
StaysInside(mask, boundary) == boundary.cutouts = {} /\ mask \subseteq Filled(boundary.outline)
Spokes(z, land) ==
  LET mask == SpokeMask(z, land)
  IN (IF StaysInside(mask, board.zones[z].boundary)
      THEN mask ELSE mask \cap ClippedBoundary(z)) \ Drilled(land)

Excludes(keepout, layer) ==
  keepout.scope = "All" \/ (keepout.scope = "Copper" /\ layer \in keepout.layers)
KeepoutsOf(z) == {k \in DOMAIN board.keepouts : Excludes(board.keepouts[k], board.zones[z].layer)}
(* What no copper of the zone may cover, its spokes included.              *)
HardCut(z, p) ==
  \/ \E k \in KeepoutsOf(z) : p \in Filled(board.keepouts[k].box)
  \/ \E feature \in Foreign(z) : Near(p, feature.region, board.zones[z].clearance)
  \/ /\ board.zones[z].connection.kind = "Isolated"
     /\ \E land \in Lands(z) : Near(p, land.region, board.zones[z].clearance)

(* Gaps cut the fill, spokes restore some of it, hard cuts come last.      *)
Base(z) ==
  IF Relief(z)
  THEN {p \in Fill(z) : \A land \in Lands(z) : ~Near(p, land.region, board.zones[z].connection.gap)}
         \cup UNION {Spokes(z, land) : land \in Lands(z)}
  ELSE Fill(z)
(* Not the code: the spokes come last.                                     *)
ComposedSpokesLast(z) ==
  {p \in Base(z) : \/ ~HardCut(z, p)
                   \/ \E land \in Lands(z) : Relief(z) /\ p \in Spokes(z, land)}
Composed(z) == {p \in Base(z) : ~HardCut(z, p)}

(* The pieces of a region: a cell joins those it has a side in common with. *)
Neighbours(p) == {Moved(p, way) : way \in {<<-1, 0>>, <<1, 0>>, <<0, -1>>, <<0, 1>>}}
Joined(p, islands) ==
  LET touched == {island \in islands : island \cap Neighbours(p) # {}}
  IN (islands \ touched) \cup {(UNION touched) \cup {p}}
Islands(region) == FoldSet(Joined, {}, region)

(* Not the code: copper of another layer connects an island.              *)
ConnectedAnywhere(z, island) ==
  \E feature \in copper : /\ feature.net = board.zones[z].net
                          /\ island \cap feature.region # {}
Connected(z, island) ==
  \E feature \in OnLayerOf(z) : /\ feature.net = board.zones[z].net
                                /\ island \cap feature.region # {}
Pruned(z, island) ==
  LET policy == board.zones[z].islands
  IN /\ policy.remove /\ ~Connected(z, island)
     /\ policy.minimum # << >> => Cardinality(island) < policy.minimum[1]

PrunedOf(z) == {island \in Islands(Composed(z)) : Pruned(z, island)}
Poured(z) == Composed(z) \ UNION PrunedOf(z)

-----------------------------------------------------------------------------
(* The call.                                                               *)

ValidStitching(z) ==
  LET policy == Policy(z)
  IN /\ policy.pitch > 0 /\ policy.edge >= 0 /\ policy.drill > 0 /\ policy.drill <= policy.land
     /\ policy.pitch >= 2 * policy.land + 2 * policy.edge
     /\ 0 <= policy.first /\ policy.first < policy.last /\ policy.last <= board.lastLayer
     /\ policy.first <= board.zones[z].layer /\ board.zones[z].layer <= policy.last
     /\ policy.limit # 0
ValidZone(z) ==
  LET it == board.zones[z]
  IN /\ \A other \in Zones \ {z} : board.zones[other].id # it.id
     /\ it.layer \in 0..board.lastLayer /\ it.clearance >= 0
     /\ it.fill.kind = "Hatched" => it.fill.width > 0 /\ it.fill.gap >= 0
     /\ Relief(z) => it.connection.gap >= 0 /\ it.connection.width > 0 /\ it.connection.count >= 2
     /\ it.islands.minimum # << >> => it.islands.remove /\ it.islands.minimum[1] >= 0
     /\ Stitches(z) => ValidStitching(z)

PourInit ==
  /\ board \in PourBoards
  /\ step = "asked" /\ zone = 1 /\ stitched = << >>
  /\ evidence = [z \in Zones |-> NothingTried]
  /\ toPour = {} /\ copper = {}

RefuseModel ==
  /\ step = "asked" /\ \E z \in Zones : ~ValidZone(z)
  /\ step' = "InvalidSourceModel"
  /\ UNCHANGED <<board, zone, stitched, evidence, toPour, copper>>

BeginStitching ==
  /\ step = "asked" /\ \A z \in Zones : ValidZone(z)
  /\ step' = "stitching"
  /\ UNCHANGED <<board, zone, stitched, evidence, toPour, copper>>

TryCandidate ==
  /\ step = "stitching"
  /\ zone \in Zones
  /\ Stitches(zone)
  /\ LET n == evidence[zone].candidates
         hindrance == Hindrance(zone, n)
     IN /\ n < Candidates(zone) /\ evidence[zone].accepted # Policy(zone).limit
        /\ stitched' = IF hindrance = "None" THEN Append(stitched, StitchVia(zone, n)) ELSE stitched
        /\ evidence' = [evidence EXCEPT ![zone] = Tallied(@, hindrance)]
  /\ UNCHANGED <<board, step, zone, toPour, copper>>

(* The grid is through, or there may be no more vias.                      *)
EndZone ==
  /\ step = "stitching" /\ zone \in Zones
  /\ \/ /\ Stitches(zone) => evidence[zone].candidates = Candidates(zone)
        /\ UNCHANGED evidence
     \/ /\ Stitches(zone) /\ evidence[zone].candidates < Candidates(zone)
        /\ evidence[zone].accepted = Policy(zone).limit
        /\ evidence' = [evidence EXCEPT ![zone] = Truncated(@)]
  /\ zone' = zone + 1
  /\ UNCHANGED <<board, step, stitched, toPour, copper>>

LayCopper ==
  /\ step = "stitching" /\ zone \notin Zones
  /\ copper' = FixedFeatures
  /\ toPour' = Zones
  /\ step' = "pouring"
  /\ UNCHANGED <<board, zone, stitched, evidence>>

Precedes(a, b) ==
  \/ board.zones[a].priority > board.zones[b].priority
  \/ /\ board.zones[a].priority = board.zones[b].priority
     /\ board.zones[a].id < board.zones[b].id
ZoneFeature(z) ==
  Feature(<<"zone", z>>, board.zones[z].net, board.zones[z].layer, "Zone",
          board.zones[z].boundary.outline.low, Poured(z))
PourNext ==
  /\ step = "pouring"
  /\ \E z \in toPour :
       /\ \A other \in toPour : ~Precedes(other, z)
       /\ copper' = copper \cup {ZoneFeature(z)}
       /\ toPour' = toPour \ {z}
  /\ UNCHANGED <<board, step, zone, stitched, evidence>>

Report ==
  /\ step = "pouring" /\ toPour = {}
  /\ step' = "done"
  /\ UNCHANGED <<board, zone, stitched, evidence, toPour, copper>>

ReportStands == step \in {"done", "InvalidSourceModel"} /\ UNCHANGED pourVars

PourNextStep ==
  RefuseModel \/ BeginStitching \/ TryCandidate \/ EndZone \/ LayCopper \/ PourNext \/ Report
    \/ ReportStands
PourSpec == PourInit /\ [][PourNextStep]_pourVars

-----------------------------------------------------------------------------
(* A stitching via has its clearance to the edge of its zone, to the board *)
(* and to what no via may enter, and whichever of two vias came later has  *)
(* its own to the other.  The evidence counts every candidate once, and no *)
(* candidate is left that could have had a via.                            *)
Rejections(count) ==
  count["OutsideZone"] + count["BoardOrCutout"] + count["Keepout"] + count["ViaCollision"]
    + count["IdCollision"]
Examined(z) == 0..(evidence[z].candidates - 1)
AcceptedOf(z) == {i \in DOMAIN stitched : stitched[i] \in {StitchVia(z, n) : n \in Examined(z)}}
StitchFits(z, via) ==
  /\ Fits(via.at, Inset(z), board.zones[z].boundary)
  /\ Fits(via.at, Inset(z), board)
  /\ \A keepout \in Range(board.keepouts) :
       ForVias(keepout) => ClearOf(Point(via.at), keepout.box, Inset(z))
  /\ \A other \in Range(board.vias) : ClearVia(z, via.at, other) /\ other.id # via.id
StitchesAreTrue ==
  /\ \A i \in DOMAIN stitched : \E z \in Zones :
       /\ Stitches(z) /\ i \in AcceptedOf(z) /\ StitchFits(z, stitched[i])
       /\ \A j \in 1..(i - 1) : /\ ClearVia(z, stitched[i].at, stitched[j])
                                /\ stitched[i].id # stitched[j].id
  /\ \A z \in Zones : Stitches(z) =>
       /\ evidence[z].accepted = Cardinality(AcceptedOf(z))
       /\ evidence[z].candidates =
            evidence[z].accepted + Rejections(evidence[z].rejected)
       /\ \A n \in Examined(z) : Hindrance(z, n) # "None"
       /\ z < zone => evidence[z].truncated \/ Examined(z) = 0..(Candidates(z) - 1)

(* The pour of a zone stays within its outline, out of the keepouts of its *)
(* layer, and clear of all copper of other nets that does not come after   *)
(* it: pads, artwork, routes, vias, the stitching vias included, and the   *)
(* zones before it.  An isolated zone keeps clear of its own lands too.    *)
PourOfZone(z, feature) == feature.source = <<"zone", z>>
KeptFrom(z, feature) ==
  /\ feature.layer = board.zones[z].layer
  /\ \/ /\ feature.net # board.zones[z].net
        /\ \A w \in Zones : PourOfZone(w, feature) => Precedes(w, z)
     \/ /\ board.zones[z].connection.kind = "Isolated"
        /\ feature.net = board.zones[z].net /\ feature.kind \in {"Pad", "Via"}
PoursKeepClear ==
  \A z \in Zones : \A pour \in {feature \in copper : PourOfZone(z, feature)} :
    \A p \in pour.region :
      /\ p \in Filled(board.zones[z].boundary.outline)
      /\ \A keepout \in Range(board.keepouts) :
           Excludes(keepout, board.zones[z].layer) => p \notin Filled(keepout.box)
      /\ \A feature \in copper :
           KeptFrom(z, feature) =>
             \A q \in feature.region : p # q /\ ClearOf(Cell(p), Cell(q), board.zones[z].clearance)

(* Where all zones of a net drop what is not connected, whatever its size, *)
(* every piece of the net's copper on a layer holds a pad, a route or a    *)
(* via: a piece of a zone may hang on another zone, but not on one that    *)
(* hangs on nothing.                                                       *)
CopperOf(net, layer) == {f \in copper : f.net = net /\ f.layer = layer}
DropsLoose(net) ==
  \A z \in Zones : board.zones[z].net = net =>
    board.zones[z].islands.remove /\ board.zones[z].islands.minimum = << >>
PoursAreAnchored ==
  step = "done" =>
    \A z \in Zones :
      LET net == board.zones[z].net
          layer == board.zones[z].layer
      IN DropsLoose(net) =>
           \A island \in Islands(UNION {f.region : f \in CopperOf(net, layer)}) :
             \E f \in CopperOf(net, layer) : f.kind # "Zone" /\ f.region \cap island # {}

(* layout.rs: "Parallel exact-width copper stripes clipped to the zone     *)
(* boundary": along a stripe the fill is interrupted by the boundary only. *)
StripesSpanTheZone ==
  \A z \in Zones : board.zones[z].fill.kind = "Hatched" /\ step = "pouring" =>
    \A p, q \in ClippedBoundary(z) :
      LET along == IF board.zones[z].fill.turn % 2 = 0 THEN 2 ELSE 1
      IN p[along] = q[along] => (p \in Fill(z) <=> q \in Fill(z))

=============================================================================
