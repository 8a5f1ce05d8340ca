--------------------------- MODULE PlacementSolver ---------------------------
(***************************************************************************)
(* `PcbLayout::solve_placement` (src/placement.rs): the placement          *)
(* constraints are resolved, then the components are settled one by one,   *)
(* those a fixed or relative constraint holds first, each at the cheapest  *)
(* place that keeps it clear of the settled ones, inside the board and     *)
(* within its constraints; the outcome is certified by resolving again.    *)
(*                                                                         *)
(* Lengths are integers, rotations quarter turns, outlines and shapes      *)
(* axis-aligned boxes [low, high]; every predicate is then decided, so the *)
(* answers "indeterminate" are left out.  A placement is its index: the    *)
(* layout holds one for each instance.  Net and region rules that widen a  *)
(* probe, region and escape directions, and the places returned along with *)
(* a relative cycle are not modelled.                                      *)
(***************************************************************************)
EXTENDS BoardGeometry

CONSTANTS
  Layouts   \* boards with the policy of the call

VARIABLES
  layout,    \* board, items with their authored places, constraints, policy
  placed,    \* the place of every item, as far as it is decided
  settled,   \* items that were given a place
  waiting,   \* items still to be settled
  stage,     \* "asked", "placing" or "done"
  faults     \* issues reported so far

solverVars == <<layout, placed, settled, waiting, stage, faults>>

items == layout.items
request == layout.policy
Constraints == Range(layout.constraints)

Sides == {"Front", "Back"}
Place(at, turn, side) == [at |-> at, turn |-> turn, side |-> side]
MovedTo(place, at) == Place(at, place.turn, place.side)

(* The entries of a sequence at some of its places, in order.              *)
Among(s, places) ==
  LET among[n \in 0..Len(s)] ==
        IF n = 0 THEN << >>
        ELSE LET before == among[n - 1]
             IN IF n \in places THEN Append(before, s[n]) ELSE before
  IN among[Len(s)]

-----------------------------------------------------------------------------
(* The room an item takes.                                                 *)

PadBox(pad) == [low |-> <<pad.at[1] - pad.half[1], pad.at[2] - pad.half[2]>>,
                high |-> Moved(pad.at, pad.half)]

(* Two boxes some clearance apart along one of the axes.                   *)
Apart(a, b, clearance) ==
  \E k \in {1, 2} : \/ a.high[k] + clearance <= b.low[k]
                    \/ b.high[k] + clearance <= a.low[k]

(* The courtyard with its widest stroke, else the body, else the pads.     *)
HasEnvelope(item) ==
  item.courtyard # {} \/ item.body # {} \/ DOMAIN item.pads # {}
LocalEnvelope(item) ==
  IF item.courtyard # {}
  THEN Grown(Around(UNION {Corners(box) : box \in item.courtyard}), item.stroke)
  ELSE IF item.body # {} THEN Around(item.body)
  ELSE Around(UNION {Corners(PadBox(item.pads[p])) : p \in DOMAIN item.pads})
Bounds(i, place) == Around({Onto(place, p) : p \in Corners(LocalEnvelope(items[i]))})

(* Strictly inside the outline, neither crossing nor enclosing a cutout.   *)
InsideBoard(box) ==
  /\ \A k \in {1, 2} : /\ layout.outline.low[k] < box.low[k]
                       /\ box.high[k] < layout.outline.high[k]
  /\ \A cutout \in layout.cutouts :
       \E k \in {1, 2} : box.high[k] < cutout.low[k] \/ cutout.high[k] < box.low[k]

-----------------------------------------------------------------------------
(* Placement constraints.                                                  *)

Drives(c, i) == c.kind \in {"Fixed", "Relative"} /\ c.of = i
Driven(i) == \E c \in Constraints : Drives(c, i)
Driver(i) == CHOOSE c \in Constraints : Drives(c, i)
Follows(i) == Driven(i) /\ Driver(i).kind = "Relative"

Aligns(c) == c.kind \in {"AlignX", "AlignY"}

ValidConstraint(c) ==
  /\ Aligns(c) => Len(c.items) >= 2
  /\ c.kind = "Relative" => c.of # c.anchor
  /\ c.kind = "Within" => c.min[1] <= c.max[1] /\ c.min[2] <= c.max[2]
  /\ c.kind = "WithinDistance" => c.maximum > 0
  /\ c.kind = "AllowedRotations" => c.turns # << >>
  /\ c.kind = "AllowedSides" => c.sides # << >>
ValidLayout ==
  /\ \A c \in Constraints : ValidConstraint(c)
  /\ \A c, d \in DOMAIN layout.constraints : \A i \in DOMAIN items :
       Drives(layout.constraints[c], i) /\ Drives(layout.constraints[d], i) => c = d

(* What is taken as given of a call: its fields are of their kinds,        *)
(* constraints name placements there are, and the board has an extent.     *)
IsPlace(place) ==
  /\ place = Place(place.at, place.turn, place.side)
  /\ IsPoint(place.at) /\ place.turn \in 0..3 /\ place.side \in Sides
IsItem(item) ==
  /\ IsPlace(item.place)
  /\ IsFiniteSet(DOMAIN item.pads)
  /\ \A p \in DOMAIN item.pads : IsPoint(item.pads[p].at) /\ IsFiniteSet(item.pads[p].layers)
IsConstraint(c, l) ==
  /\ c.kind \in {"Fixed", "Relative"} => c.of \in DOMAIN l.items
  /\ c.kind = "Fixed" => IsPoint(c.at)
  /\ c.kind = "Relative" => c.anchor \in DOMAIN l.items /\ IsPoint(c.offset)
  /\ Aligns(c) => c.items \in Seq(DOMAIN l.items)
  /\ c.kind = "AllowedRotations" => c.turns \in Seq(0..3)
  /\ c.kind = "AllowedSides" => c.sides \in Seq(Sides)
IsLayout(l) ==
  /\ l.items \in Seq(Range(l.items)) /\ l.constraints \in Seq(Range(l.constraints))
  /\ \A item \in Range(l.items) : IsItem(item)
  /\ \A c \in Range(l.constraints) : IsConstraint(c, l)
  /\ \A k \in {1, 2} : /\ l.outline.low[k] \in Int /\ l.outline.high[k] \in Int
                       /\ l.outline.low[k] <= l.outline.high[k]
  /\ l.policy.pitch \in Int /\ l.policy.limit \in Nat /\ l.policy.density \in Int

ASSUME LayoutsAssumption == \A l \in Layouts : IsLayout(l)

(* Origins after following at most n relative constraints, and the items   *)
(* that lead on to another one even then.                                  *)
Origins(places) ==
  LET at[n \in 0..Len(items)] ==
        [i \in DOMAIN places |->
           IF ~Driven(i) \/ (n = 0 /\ Follows(i)) THEN places[i].at
           ELSE IF Follows(i) THEN Moved(at[n - 1][Driver(i).anchor], Driver(i).offset)
           ELSE Driver(i).at]
  IN at[Len(items)]
Cyclic ==
  LET leads[n \in 0..Len(items)] ==
        [i \in DOMAIN items |->
           IF n = 0 \/ ~Follows(i) THEN Follows(i) ELSE leads[n - 1][Driver(i).anchor]]
  IN \E i \in DOMAIN items : leads[Len(items)][i]
Resolution(places) ==
  LET origins == Origins(places)
  IN [i \in DOMAIN places |-> MovedTo(places[i], origins[i])]

(* The point of an anchor, times the number of pads it is the centre of.   *)
Weight(anchor) == IF anchor.pads = {} THEN 1 ELSE Cardinality(anchor.pads)
AnchorPoint(anchor, places) ==
  LET place == places[anchor.of]
      Sum(k) == MapThenSumSet(LAMBDA p : Onto(place, items[anchor.of].pads[p].at)[k], anchor.pads)
  IN IF anchor.pads = {} THEN place.at ELSE <<Sum(1), Sum(2)>>
WithinReach(c, places) ==
  LET s == Weight(c.subject)
      a == Weight(c.anchor)
      Difference(k) == AnchorPoint(c.subject, places)[k] * a - AnchorPoint(c.anchor, places)[k] * s
  IN Difference(1) * Difference(1) + Difference(2) * Difference(2)
       <= (c.maximum * s * a) * (c.maximum * s * a)
InRegion(c, at) == \A k \in {1, 2} : c.min[k] <= at[k] /\ at[k] <= c.max[k]
Axis(c) == IF c.kind = "AlignX" THEN 1 ELSE 2

(* What resolving the placed layout reports of a constraint.               *)
Satisfied(c, places) ==
  /\ Aligns(c) =>
       \A n \in DOMAIN c.items :
         places[c.items[n]].at[Axis(c)] = places[c.items[1]].at[Axis(c)]
  /\ c.kind = "Within" => InRegion(c, places[c.of].at)
  /\ c.kind = "WithinDistance" => WithinReach(c, places)
  /\ c.kind = "AllowedRotations" => places[c.of].turn \in Range(c.turns)
  /\ c.kind = "AllowedSides" => places[c.of].side \in Range(c.sides)

(* What a candidate for item i must satisfy.  The others stand where they  *)
(* are now, turned as they were authored; an alignment is kept with the    *)
(* first of them.                                                          *)
Standing(i, place) ==
  [j \in DOMAIN items |-> IF j = i THEN place ELSE MovedTo(items[j].place, placed[j].at)]
AlignmentTarget(c, i) ==
  LET others == {n \in DOMAIN c.items : c.items[n] # i}
  IN {placed[c.items[n]].at[Axis(c)] : n \in {m \in others : \A l \in others : m <= l}}
Admits(c, i, place) ==
  /\ Aligns(c) /\ i \in Range(c.items) =>
       \A target \in AlignmentTarget(c, i) : place.at[Axis(c)] = target
  /\ c.kind = "Within" /\ c.of = i => InRegion(c, place.at)
  /\ c.kind = "WithinDistance" /\ i \in {c.subject.of, c.anchor.of} =>
       WithinReach(c, Standing(i, place))
  /\ c.kind = "AllowedRotations" /\ c.of = i => place.turn \in Range(c.turns)
  /\ c.kind = "AllowedSides" /\ c.of = i => place.side \in Range(c.sides)

CandidateAllowed(i, place, blockers) ==
  /\ \A j \in blockers :
       placed[j].side = place.side
         => Apart(Bounds(i, place), Bounds(j, placed[j]), request.clearance)
  /\ InsideBoard(Bounds(i, place))
  /\ \A c \in Constraints : Admits(c, i, place)

-----------------------------------------------------------------------------
(* Access to the pads: a probe leaves every connected pad, on each of its  *)
(* layers, along each axis.                                                *)

Ways == {<<-1, 0>>, <<1, 0>>, <<0, -1>>, <<0, 1>>}
PadLayers(place, pad) ==
  IF place.side = "Front" THEN pad.layers ELSE {layout.lastLayer - l : l \in pad.layers}
PadTerminals == {t \in UNION {{i} \X DOMAIN items[i].pads : i \in DOMAIN items} :
                   t[2] \in DOMAIN items[t[1]].nets}

(* Copper of the layout that is not of the net: pads, tracks and vias.     *)
PadCopper(i, p, places) ==
  [box |-> Around({Onto(places[i], c) : c \in Corners(PadBox(items[i].pads[p]))}), radius |-> 0,
   layers |-> PadLayers(places[i], items[i].pads[p]),
   net |-> IF p \in DOMAIN items[i].nets THEN items[i].nets[p] ELSE "None"]
FixedCopper(net, places) ==
  {copper \in layout.copper \cup UNION {{PadCopper(i, p, places) : p \in DOMAIN items[i].pads} :
                                          i \in DOMAIN items} : copper.net # net}

Accessible(terminal, layer, direction, places) ==
  LET probe == request.access[1]
      centre == Onto(places[terminal[1]], items[terminal[1]].pads[terminal[2]].at)
      track == Around({centre, Moved(centre, <<probe.distance * direction[1],
                                              probe.distance * direction[2]>>)})
      expanded == probe.halfWidth + probe.clearance
      net == items[terminal[1]].nets[terminal[2]]
  IN /\ OnBoardBy(layout, track, expanded)
     /\ \A keepout \in layout.keepouts : layer \in keepout.layers => ClearOf(track, keepout.box, expanded)
     /\ \A copper \in FixedCopper(net, places) :
          layer \in copper.layers => ClearOf(track, copper.box, expanded + copper.radius)

(* Pads no probe leaves, and probes that are blocked.                       *)
AccessScore(places) ==
  LET probes(t) == PadLayers(places[t[1]], items[t[1]].pads[t[2]]) \X Ways
      blocked(t) == {probe \in probes(t) : ~Accessible(t, probe[1], probe[2], places)}
  IN IF request.access = << >> THEN <<0, 0>>
     ELSE <<Cardinality({t \in PadTerminals : blocked(t) = probes(t)}),
            SumFunction([t \in PadTerminals |-> Cardinality(blocked(t))])>>

-----------------------------------------------------------------------------
(* What a place costs.                                                     *)

Endpoints(i, place) ==
  {<<items[i].nets[p], Onto(place, items[i].pads[p].at), <<i, p>>>> :
     p \in DOMAIN items[i].nets \cap DOMAIN items[i].pads}

(* The lengths of the connections of two pads.                             *)
WireLengths(pairs) == SumFunction([pair \in pairs |-> Manhattan(pair[1][2], pair[2][2])])
Connectivity(i, place) ==
  LET pairs == Endpoints(i, place)
                 \X UNION {Endpoints(j, placed[j]) : j \in DOMAIN items \ {i}}
  IN WireLengths({pair \in pairs : pair[1][1] = pair[2][1]})

Pressure(a, b) == Max({0, request.density - Manhattan(a.at, b.at)})
Density(i, place) ==
  SumFunction([j \in {k \in DOMAIN items \ {i} : placed[k].side = place.side} |->
                 Pressure(place, placed[j])])

(* Boxes of the nets with two pads at least that meet, two by two.         *)
Crossings(places) ==
  LET endpoints == UNION {Endpoints(i, places[i]) : i \in DOMAIN items}
      of(net) == {e \in endpoints : e[1] = net}
      nets == {net \in {e[1] : e \in endpoints} : Cardinality(of(net)) >= 2}
      box(net) == Around({e[2] : e \in of(net)})
      overlap(a, b, k) == Min({box(a).high[k], box(b).high[k]}) - Max({box(a).low[k], box(b).low[k]})
      pressure(pair) ==
        LET a == CHOOSE net \in pair : TRUE
            b == CHOOSE net \in pair : net # a
        IN IF \A k \in {1, 2} : overlap(a, b, k) >= 0
           THEN overlap(a, b, 1) + overlap(a, b, 2) + 1 ELSE 0
  IN SumFunction([pair \in {two \in SUBSET nets : Cardinality(two) = 2} |-> pressure(pair)])

(* Not the code: the wires count before the crossings.                    *)
WiresFirst(i, place) ==
  LET places == [placed EXCEPT ![i] = place]
  IN AccessScore(places)
     \o <<Connectivity(i, place), IF request.congestion THEN Crossings(places) ELSE 0,
          IF request.density > 0 THEN Density(i, place) ELSE 0>>

CandidateScore(i, place) ==
  LET places == [placed EXCEPT ![i] = place]
      moved(k) == place.at[k] - placed[i].at[k]
  IN AccessScore(places)
     \o <<IF request.congestion THEN Crossings(places) ELSE 0,
          IF request.density > 0 THEN Density(i, place) ELSE 0,
          Connectivity(i, place),
          moved(1) * moved(1) + moved(2) * moved(2),
          (IF place.turn # placed[i].turn THEN 1 ELSE 0)
            + (IF place.side # placed[i].side THEN 1 ELSE 0)>>
Cheaper(a, b) ==
  \E k \in DOMAIN a : a[k] < b[k] /\ \A l \in 1..(k - 1) : a[l] = b[l]

-----------------------------------------------------------------------------
(* The candidates of an item, in the order they are tried.                 *)

(* The values all the lists have, each once and the authored one first;    *)
(* only the authored one when nothing is listed.                           *)
InEvery(lists, authored) ==
  IF lists = << >> THEN <<authored>>
  ELSE LET all == <<authored>> \o lists[1]
       IN Among(all, {n \in DOMAIN all : /\ \A l \in DOMAIN lists : all[n] \in Range(lists[l])
                                        /\ \A m \in 1..(n - 1) : all[m] # all[n]})
Limits(i, kind) ==
  Among(layout.constraints, {n \in DOMAIN layout.constraints :
                               /\ layout.constraints[n].kind = kind
                               /\ layout.constraints[n].of = i})
AllowedRotations(i) ==
  LET limits == Limits(i, "AllowedRotations")
  IN InEvery([n \in DOMAIN limits |-> limits[n].turns], placed[i].turn)
AllowedSides(i) ==
  LET limits == Limits(i, "AllowedSides")
  IN InEvery([n \in DOMAIN limits |-> limits[n].sides], placed[i].side)

Locked(i) == \/ Driven(i)
             \/ \E c \in Constraints : c.kind = "Relative" /\ c.anchor = i

Axial(k) ==
  [n \in 1..((layout.outline.high[k] - layout.outline.low[k]) \div request.pitch + 1) |->
     layout.outline.low[k] + (n - 1) * request.pitch]
Grid ==
  LET xs == Axial(1)
      ys == Axial(2)
  IN [n \in 1..(Len(xs) * Len(ys)) |-> <<xs[((n - 1) % Len(xs)) + 1], ys[(n - 1) \div Len(xs) + 1]>>]

(* Where an item may be put, as a function of the order: a locked item is  *)
(* only turned, a free one goes to every grid point.                       *)
Alternatives(i) ==
  LET turns == AllowedRotations(i)
      sides == AllowedSides(i)
      each == Len(turns) * Len(sides)
      grid == Grid
  IN [n \in 1..((IF Locked(i) THEN 1 ELSE Len(grid)) * each) |->
        Place(IF Locked(i) THEN placed[i].at ELSE grid[(n - 1) \div each + 1],
              turns[((n - 1) % each) \div Len(sides) + 1],
              sides[((n - 1) % Len(sides)) + 1])]

(* As many of them as the policy admits, its own place left out.           *)
Others(i) ==
  LET all == Alternatives(i)
      same == {n \in DOMAIN all : all[n] = placed[i]}
  IN Restrict(all, {n \in DOMAIN all \ same :
                      n - Cardinality({m \in same : m < n}) < request.limit})

(* Not the code: the place an item has is not tried.                      *)
OthersOnly(i) == Others(i)

(* Its own place is tried first.                                           *)
PlacesTried(i) ==
  LET others == Others(i)
  IN [n \in DOMAIN others \cup {0} |-> IF n = 0 THEN placed[i] ELSE others[n]]

(* The first of the cheapest, once those up to the n-th have been scored.  *)
Cheapest(i, allowed) ==
  LET scored(n) == [place |-> allowed[n], cost |-> CandidateScore(i, allowed[n])]
      best[n \in 0..Max(DOMAIN allowed)] ==
        LET before == IF n = 0 THEN {} ELSE best[n - 1]
        IN IF n \in DOMAIN allowed /\ \A b \in before : Cheaper(scored(n).cost, b.cost)
           THEN {scored(n)} ELSE before
  IN best[Max(DOMAIN allowed)]

(* The authored place, when it may be kept; else the cheapest.             *)
Accepted(i, allowed) ==
  IF placed[i] \in Range(allowed) /\ ~request.optimize THEN placed[i]
  ELSE (CHOOSE b \in Cheapest(i, allowed) : TRUE).place

(* What the i-th item keeps clear of: the settled ones and, when it is     *)
(* free, the later ones that its own place does not already collide with.  *)
Blockers(i) ==
  settled \cup
  IF Locked(i) THEN {}
  ELSE {j \in DOMAIN items :
          /\ j > i /\ HasEnvelope(items[j])
          /\ \/ placed[j].side # placed[i].side
             \/ Apart(Bounds(i, placed[i]), Bounds(j, placed[j]), request.clearance)}

-----------------------------------------------------------------------------
(* The call.                                                               *)

PolicyFaults ==
  {fault \in {"NonPositiveGridPitch", "NegativeClearance", "ZeroCandidateLimit",
              "NonPositiveDensityRadius", "NonPositivePinAccessProbeDistance",
              "NonPositivePinAccessTraceWidth", "NegativePinAccessClearance"} :
     /\ fault = "NonPositiveGridPitch" => request.pitch <= 0
     /\ fault = "NegativeClearance" => request.clearance < 0
     /\ fault = "ZeroCandidateLimit" => request.limit = 0
     /\ fault = "NonPositiveDensityRadius" => request.density < 0
     /\ fault = "NonPositivePinAccessProbeDistance" =>
          request.access # << >> /\ request.access[1].distance <= 0
     /\ fault = "NonPositivePinAccessTraceWidth" =>
          request.access # << >> /\ request.access[1].halfWidth <= 0
     /\ fault = "NegativePinAccessClearance" =>
          request.access # << >> /\ request.access[1].clearance < 0}

Authored == [i \in DOMAIN items |-> items[i].place]

SolverInit ==
  /\ layout \in Layouts
  /\ placed = Authored
  /\ settled = {} /\ waiting = {} /\ faults = {}
  /\ stage = "asked"

RefuseCall ==
  /\ stage = "asked"
  /\ \/ ~ValidLayout /\ faults' = {"InvalidLayout"}
     \/ ValidLayout /\ PolicyFaults # {} /\ faults' = PolicyFaults
     \/ ValidLayout /\ PolicyFaults = {} /\ Cyclic /\ faults' = {"RelativeCycle"}
  /\ stage' = "done"
  /\ UNCHANGED <<layout, placed, settled, waiting>>

Resolve ==
  /\ stage = "asked"
  /\ ValidLayout /\ PolicyFaults = {} /\ ~Cyclic
  /\ placed' = Resolution(placed)
  /\ waiting' = {i \in DOMAIN items : HasEnvelope(items[i])}
  /\ faults' = IF \A i \in DOMAIN items : HasEnvelope(items[i]) THEN {} ELSE {"MissingEnvelope"}
  /\ stage' = "placing"
  /\ UNCHANGED <<layout, settled>>

(* Not the code: only the items a constraint holds are kept clear of.      *)
SettleLocked(i, allowed) ==
  /\ DOMAIN allowed # {}
  /\ placed' = [placed EXCEPT ![i] = Accepted(i, allowed)]
  /\ settled' = IF Locked(i) THEN settled \cup {i} ELSE settled
  /\ UNCHANGED faults

Settle(i, allowed) ==
  /\ DOMAIN allowed # {}
  /\ placed' = [placed EXCEPT ![i] = Accepted(i, allowed)]
  /\ settled' = settled \cup {i}
  /\ UNCHANGED faults

GiveUp(i, allowed) ==
  /\ DOMAIN allowed = {}
  /\ faults' = faults \cup
       {IF ~Locked(i) THEN "NoCandidate"
        ELSE IF ~InsideBoard(Bounds(i, placed[i])) THEN "LockedOutsideBoard"
        ELSE IF \E j \in settled : /\ placed[j].side = placed[i].side
                                   /\ ~Apart(Bounds(i, placed[i]), Bounds(j, placed[j]), request.clearance)
        THEN "LockedCollision" ELSE "NoCandidate"}
  /\ UNCHANGED <<placed, settled>>

(* The first of the locked items, or of all when none is locked.           *)
Turn == LET locked == {i \in waiting : Locked(i)}
        IN IF locked # {} THEN Min(locked) ELSE Min(waiting)
PlaceNext ==
  /\ stage = "placing" /\ waiting # {}
  /\ LET i == Turn
         tried == PlacesTried(i)
         blockers == Blockers(i)
         allowed == Restrict(tried, {n \in DOMAIN tried : CandidateAllowed(i, tried[n], blockers)})
     IN Settle(i, allowed) \/ GiveUp(i, allowed)
  /\ waiting' = waiting \ {Turn}
  /\ UNCHANGED <<layout, stage>>

(* The constraints the solved layout leaves unsatisfied are reported.      *)
Certify ==
  /\ stage = "placing" /\ waiting = {}
  /\ faults' = faults \cup
       {c.kind : c \in {d \in Constraints : ~Satisfied(d, Resolution(placed))}}
  /\ stage' = "done"
  /\ UNCHANGED <<layout, placed, settled, waiting>>

Answered == stage = "done" /\ UNCHANGED solverVars

SolverNext == RefuseCall \/ Resolve \/ PlaceNext \/ Certify \/ Answered
SolverSpec == SolverInit /\ [][SolverNext]_solverVars

-----------------------------------------------------------------------------
SolverTypeOK ==
  /\ DOMAIN placed = DOMAIN items
  /\ \A i \in DOMAIN placed : IsPlace(placed[i])
  /\ settled \cup waiting \subseteq DOMAIN items
  /\ stage \in {"asked", "placing", "done"}

Holds(c, places) ==
  /\ c.kind = "Fixed" => places[c.of].at = c.at
  /\ c.kind = "Relative" => places[c.of].at = Moved(places[c.anchor].at, c.offset)
  /\ Satisfied(c, places)

(* No two items of a side collide, all are inside and no constraint is     *)
(* broken.                                                                 *)
LegalLayout(places) ==
  /\ \A i \in DOMAIN items : HasEnvelope(items[i])
  /\ \A i \in DOMAIN items :
       /\ InsideBoard(Bounds(i, places[i]))
       /\ \A j \in DOMAIN items \ {i} :
            places[i].side = places[j].side
              => Apart(Bounds(i, places[i]), Bounds(j, places[j]), request.clearance)
  /\ \A c \in Constraints : Holds(c, places)

(* A proposal without issues is one the board can be built from: what each *)
(* item was checked against when it was settled still holds at the end.    *)
SolvedIsLegal == stage = "done" /\ faults = {} => LegalLayout(placed)

(* A layout whose resolved places are legal comes back as it is, unless    *)
(* the request asks for better ones.                                        *)
LegalStaysPut ==
  stage = "done" /\ ValidLayout /\ PolicyFaults = {} /\ ~Cyclic /\ ~request.optimize
    /\ LegalLayout(Resolution(Authored))
  => placed = Resolution(Authored) /\ faults = {}

(* What a layout costs as a whole: every connection and every two items of *)
(* a side are counted once.                                                *)
Connections(places) ==
  LET endpoints == UNION {Endpoints(i, places[i]) : i \in DOMAIN items}
  IN {pair \in endpoints \X endpoints : pair[1][3][1] < pair[2][3][1] /\ pair[1][1] = pair[2][1]}
SidePairs(places) ==
  {ij \in (DOMAIN items) \X (DOMAIN items) :
     ij[1] < ij[2] /\ places[ij[1]].side = places[ij[2]].side}
LayoutCost(places) ==
  AccessScore(places)
  \o <<IF request.congestion THEN Crossings(places) ELSE 0,
       IF request.density > 0
       THEN SumFunction([ij \in SidePairs(places) |-> Pressure(places[ij[1]], places[ij[2]])])
       ELSE 0,
       WireLengths(Connections(places))>>

(* An item that leaves a place it could have kept makes the whole layout   *)
(* no worse: its own score is the whole layout's.                          *)
NoWorse ==
  [][\A i \in settled' \ settled :
       CandidateAllowed(i, placed[i], Blockers(i))
         => ~Cheaper(LayoutCost(placed), LayoutCost(placed'))]_solverVars
=============================================================================
