------------------------------ MODULE LayoutRules ------------------------------
(***************************************************************************)
(* What `PcbLayout::validate` (src/layout.rs) reports of a layout: its     *)
(* entries by themselves, and against the circuit it is the board of.      *)
(*                                                                         *)
(* Vias, copper zones and keepouts are copper of three kinds, each with    *)
(* names of its own.  Shapes and sizes are not modelled.                   *)
(***************************************************************************)
EXTENDS CircuitModel

CONSTANTS LastLayer  \* every stackup has the conductors 0..LastLayer

Layers == 0..LastLayer
NoLayout ==
  [patterns |-> << >>, placements |-> << >>, routes |-> << >>, copper |-> << >>,
   classes |-> << >>, regions |-> << >>, tunings |-> << >>]

Segments(route) == Elements(route.segments)
UnknownNets(circuit, nets) == Elements(nets) \ Names(circuit.nets)

PlacementIssues(layout, circuit) ==
  LET placements == Elements(layout.placements)
      known == {p \in placements : /\ p.id \in Names(circuit.parts)
                                   /\ p.pattern \in Names(layout.patterns)}
      modelled == {p \in known : HasModel(circuit, Entry(circuit.parts, p.id))}
      bound(p) == BoundPins(Entry(circuit.parts, p.id))
      mapped(p) == {pad.pin : pad \in Elements(Entry(layout.patterns, p.pattern).pads)}
      pins(p) == {pin.pin : pin \in PinsOf(circuit, Entry(circuit.parts, p.id))}
  IN [DuplicateLandPattern |-> Each(Duplicates(Ids(layout.patterns))),
      DuplicatePlacement |-> Each(Duplicates(Ids(layout.placements))),
      UnknownPlacedInstance |-> Each(Names(layout.placements) \ Names(circuit.parts)),
      UnknownPlacementLandPattern |->
        Each({p.pattern : p \in placements} \ Names(layout.patterns)),
      MissingPlacedPinPad |->
        UNION {{<<p.id, pin>> : pin \in bound(p) \ mapped(p)} : p \in known},
      UnknownPlacedPatternPin |->
        UNION {{<<p.id, pin>> : pin \in mapped(p) \ pins(p)} : p \in modelled}]

RouteIssues(layout, circuit) ==
  LET routes == Elements(layout.routes)
      torn(r) == \E i \in 2..Len(r.segments) : r.segments[i].from # r.segments[i - 1].to
  IN [DuplicateRoute |-> Each(Duplicates(Ids(layout.routes))),
      UnknownRouteNet |->
        {<<r.id, r.net>> : r \in {s \in routes : s.net \notin Names(circuit.nets)}},
      UnknownRouteLayer |-> {<<r.id, r.layer>> : r \in {s \in routes : s.layer \notin Layers}},
      EmptyRoute |-> {<<r.id>> : r \in {s \in routes : s.segments = << >>}},
      DisconnectedRoute |-> {<<r.id>> : r \in {s \in routes : torn(s)}}]

\* Nobody looks at the layers of a keepout.
CopperIssues(layout, circuit) ==
  LET copper == layout.copper
      keys == [i \in DOMAIN copper |-> <<copper[i].id, copper[i].kind>>]
      misplaced == {c \in Elements(copper) : c.kind # "Keepout" /\ ~(c.layers \subseteq Layers)}
  IN [DuplicateCopper |-> Duplicates(keys),
      UnknownCopperNet |->
        UNION {{<<c.id, c.kind, net>> : net \in UnknownNets(circuit, c.nets)} :
                 c \in Elements(copper)},
      UnknownCopperLayer |-> {<<c.id, c.kind>> : c \in misplaced}]

ClassRules(layout, circuit) ==
  LET classes == layout.classes
  IN [DuplicateNetClass |-> Each(Duplicates(Ids(classes))),
      NetInMultipleClasses |->
        Each(Duplicates(FlattenSeq([i \in DOMAIN classes |-> classes[i].nets]))),
      UnknownNetClassNet |->
        UNION {{<<c.id, net>> : net \in UnknownNets(circuit, c.nets)} : c \in Elements(classes)}]

RegionRules(layout, circuit) ==
  LET regions == Elements(layout.regions)
      senseless(r) == \/ Duplicates(r.nets) # {} \/ r.directions = {}
                      \/ r.layers = {} \/ ~(r.layers \subseteq Layers)
  IN [DuplicateRouteConstraintRegion |-> Each(Duplicates(Ids(layout.regions))),
      UnknownRouteConstraintRegionNet |->
        UNION {{<<r.id, net>> : net \in UnknownNets(circuit, r.nets)} : r \in regions},
      InvalidRouteConstraintRegion |-> {<<r.id>> : r \in {s \in regions : senseless(s)}}]

\* A tuning has a net and, if it is tied to one, its route.
TuningRules(layout, circuit) ==
  LET stray(t) == \/ t.net \notin Names(circuit.nets)
                  \/ \E route \in t.routes : \/ route \notin Names(layout.routes)
                                             \/ Entry(layout.routes, route).net # t.net
  IN [DuplicateLengthTuningPattern |-> Each(Duplicates(Ids(layout.tunings))),
      InvalidLengthTuningTarget |->
        {<<t.id>> : t \in {u \in Elements(layout.tunings) : stray(u)}}]

LayoutIssues(layout, circuit) ==
  UNION {Reported(PlacementIssues(layout, circuit)), Reported(RouteIssues(layout, circuit)),
         Reported(CopperIssues(layout, circuit)), Reported(ClassRules(layout, circuit)),
         Reported(RegionRules(layout, circuit)), Reported(TuningRules(layout, circuit))}
=============================================================================
