---------------------------- MODULE DesignAuthoring ----------------------------
(***************************************************************************)
(* A design under construction (`Design`, src/authoring.rs): one call at a *)
(* time declares nets, parts, connections and rules of the board.  A call  *)
(* is checked when it is made and refused without a trace; what no single  *)
(* call can decide is left to `check` and `finish`.                        *)
(*                                                                         *)
(* A program is a set of calls, each made at most once and in any order.   *)
(* `at` is the place in the program's text a call and the values built for *)
(* it come from.  Every record keeps, as `by`, the place that declared it; *)
(* the code does not: it keeps `traces`, from targets to places, and looks *)
(* up in them whom a finding is about.  An identifier the code derives     *)
(* from a name, "R1.model", is the tuple of its parts.                     *)
(*                                                                         *)
(* Handles of another design are refused by every call before anything     *)
(* else and are not modelled, nor are sizes and shapes, drawn graphics and *)
(* the mutable access to the containers (`circuit_mut` and the others).    *)
(***************************************************************************)
EXTENDS BoardRules, SchematicRules, TLC

CONSTANTS Programs   \* sets of calls: what a program may ask for

VARIABLES
  circuit, schematic, layout,   \* the retained containers
  traces,                       \* <<target, place>>: who declared what
  made,                         \* the calls accepted so far
  program,                      \* the calls this program makes
  outcome                       \* "Building", then how `finish` ended

containers == <<circuit, schematic, layout>>
vars == <<circuit, schematic, layout, traces, made, program, outcome>>

DesignSite == 0      \* where the design itself was created
Container(kind) == <<kind>>

EmptyCircuit ==
  NoCircuit @@ [buses |-> << >>, slices |-> << >>, stimuli |-> << >>]
EmptyBoard ==
  NoLayout @@ [styles |-> << >>, pairs |-> << >>, groups |-> << >>, constraints |-> << >>]

Init == /\ program \in Programs
        /\ circuit = EmptyCircuit /\ schematic = NoSchematic /\ layout = EmptyBoard
        /\ traces = {<<Container(kind), DesignSite>> : kind \in {"Circuit", "Schematic", "Board"}}
        /\ made = {} /\ outcome = "Building"

\* An accepted call leaves its place in the source map of what it declared.
Accepted(call, targets) ==
  /\ traces' = traces \cup {<<target, call.at>> : target \in targets}
  /\ made' = made \cup {call}
  /\ UNCHANGED <<program, outcome>>

-----------------------------------------------------------------------------
(* Nets, buses and ports                                                   *)

\* `signal`, `ground` and `rail`.
DeclareNet(call) ==
  /\ call.call = "Net"
  /\ call.id \notin Names(circuit.nets)
  /\ circuit' = [circuit EXCEPT
       !.nets = Append(@, [id |-> call.id, ground |-> call.ground, by |-> call.at]),
       !.rails = @ \o (IF call.rail = "None" THEN << >>
                       ELSE <<[net |-> call.id, kind |-> call.rail, by |-> call.at]>>)]
  /\ Accepted(call, {<<"Net", call.id>>})
  /\ UNCHANGED <<schematic, layout>>

DeclareBus(call) ==
  /\ call.call = "Bus"
  /\ call.id \notin Names(circuit.buses)
  /\ call.nets # << >> /\ UnknownNets(circuit, call.nets) = {} /\ Duplicates(call.nets) = {}
  /\ circuit' = [circuit EXCEPT
       !.buses = Append(@, [id |-> call.id, nets |-> call.nets, by |-> call.at])]
  /\ Accepted(call, {<<"Bus", call.id>>})
  /\ UNCHANGED <<schematic, layout>>

\* `BusSlice::members` has something to resolve to.
InRange(slice, bus) == slice.width > 0 /\ slice.offset + slice.width <= Len(bus.nets)

DeclareSlice(call) ==
  /\ call.call = "BusSlice"
  /\ call.id \notin Names(circuit.slices)
  /\ call.bus \in Names(circuit.buses)
  /\ InRange(call, Entry(circuit.buses, call.bus))
  /\ circuit' = [circuit EXCEPT
       !.slices = Append(@, [id |-> call.id, bus |-> call.bus, offset |-> call.offset,
                             width |-> call.width, by |-> call.at])]
  /\ Accepted(call, {<<"BusSlice", call.id>>})
  /\ UNCHANGED <<schematic, layout>>

DeclarePort(call) ==
  /\ call.call = "Port"
  /\ call.net \in Names(circuit.nets)
  /\ call.id \notin Names(circuit.ports)
  /\ circuit' = [circuit EXCEPT
       !.ports = Append(@, [id |-> call.id, net |-> call.net, by |-> call.at]),
       !.types = IF call.type = DefaultSignal THEN @ ELSE @ @@ (call.id :> call.type)]
  /\ Accepted(call, {<<"Port", call.id>>})
  /\ UNCHANGED <<schematic, layout>>

-----------------------------------------------------------------------------
(* Parts                                                                   *)

NoFootprint == <<"none">>
HasFootprint(part) == part.pads # NoFootprint

Explicit(part) ==
  FlattenSeq([i \in DOMAIN part.pins |->
                [j \in DOMAIN part.pins[i].pads |->
                   [pin |-> part.pins[i].pin, pad |-> part.pins[i].pads[j]]]])

\* The pads of the pins: as written, else the pad of the pin's own name.
Mapped(part) ==
  LET byName == SelectSeq(part.pins, LAMBDA p : /\ p.pads = << >>
                                                /\ p.pin \in Elements(part.pads))
  IN IF HasFootprint(part)
     THEN Explicit(part) \o [i \in DOMAIN byName |->
                               [pin |-> byName[i].pin, pad |-> byName[i].pin]]
     ELSE << >>

PinNames(pins) == {p.pin : p \in Elements(pins)}
Required(part) == PinNames(SelectSeq(part.pins, LAMBDA p : ~p.optional))

WellFormed(part) ==
  LET units == Elements(part.units)
      numbers == {unit.unit : unit \in units}
      presented == UNION {Elements(unit.pins) : unit \in units}
  IN /\ Cardinality(PinNames(part.pins)) = Len(part.pins)
     /\ 0 \notin numbers /\ Cardinality(numbers) = Len(part.units)
     /\ \A unit \in units : Duplicates(unit.pins) = {}
     /\ presented \subseteq PinNames(part.pins)
     /\ units # {} => Required(part) \subseteq presented
     /\ IF HasFootprint(part)
        THEN /\ Duplicates(part.pads) = {}
             /\ \A m \in Elements(Mapped(part)) : m.pad \in Elements(part.pads)
        ELSE Explicit(part) = << >>

\* A package's part is held to more (`PortablePartDefinition::validate`).
Portable(part) ==
  /\ WellFormed(part)
  /\ HasFootprint(part) => /\ Duplicates(Mapped(part)) = {}
                           /\ Required(part) \subseteq PinNames(Mapped(part))

ModelOf(id, part, at) ==
  [id |-> id, source |-> part.source, parameters |-> << >>, by |-> at,
   pins |-> [i \in DOMAIN part.pins |->
               [pin |-> part.pins[i].pin, optional |-> part.pins[i].optional]]]
SymbolsOf(id, model, part, at) ==
  IF part.units = << >> THEN << >>
  ELSE <<[id |-> id, model |-> model, units |-> part.units, by |-> at]>>
PatternsOf(id, part, at) ==
  IF ~HasFootprint(part) THEN << >>
  ELSE <<[id |-> id, pads |-> Mapped(part), lands |-> part.pads, by |-> at]>>
PadTargets(id, part) ==
  {<<"Pad", id, pad>> : pad \in IF HasFootprint(part) THEN Elements(part.pads) ELSE {}}
Declared(kind, records) == {<<kind, id>> : id \in Names(records)}

Derived(name) == [model |-> <<name, "model">>, symbol |-> <<name, "symbol">>,
                  pattern |-> <<name, "footprint">>]

DeclarePart(call, ids, symbols, patterns) ==
  /\ circuit' = [circuit EXCEPT
                   !.models = Append(@, ModelOf(ids.model, call.part, call.at))]
  /\ schematic' = [schematic EXCEPT !.definitions = @ \o symbols]
  /\ layout' = [layout EXCEPT !.patterns = @ \o patterns]
  /\ Accepted(call, {<<"DeviceModel", ids.model>>}
                      \cup Declared("SymbolDefinition", symbols)
                      \cup Declared("LandPattern", patterns)
                      \cup PadTargets(ids.pattern, call.part))

\* A definition keeps all three names to itself, used or not.
DefinePart(call) ==
  LET ids == Derived(call.name)
  IN /\ call.call = "Define" /\ WellFormed(call.part)
     /\ ids.model \notin Names(circuit.models)
     /\ ids.symbol \notin Names(schematic.definitions)
     /\ ids.pattern \notin Names(layout.patterns)
     /\ DeclarePart(call, ids, SymbolsOf(ids.symbol, ids.model, call.part, call.at),
                    PatternsOf(ids.pattern, call.part, call.at))

\* What another design exported, under the names it had there.
ImportPart(call) ==
  LET ids == Derived(call.name)
      symbols == SymbolsOf(ids.symbol, ids.model, call.part, call.at)
      patterns == PatternsOf(ids.pattern, call.part, call.at)
  IN /\ call.call = "Import" /\ Portable(call.part)
     /\ ids.model \notin Names(circuit.models)
     /\ Names(symbols) \cap Names(schematic.definitions) = {}
     /\ Names(patterns) \cap Names(layout.patterns) = {}
     /\ DeclarePart(call, ids, symbols, patterns)

NoWave == "None"
CanDrive(call, model) == call.wave # NoWave => model.source

PartRecord(call, model) ==
  [id |-> call.ref, model |-> model, pins |-> << >>, parameters |-> << >>, by |-> call.at]
StimulusRecord(call) == [component |-> call.ref, wave |-> call.wave, by |-> call.at]
Stimuli(call) == IF call.wave = NoWave THEN << >> ELSE <<StimulusRecord(call)>>
Placements(call, pattern) ==
  IF call.placed THEN <<[id |-> call.ref, pattern |-> pattern, by |-> call.at]>> ELSE << >>

\* What is recorded of a part as such: the rest depends on how it came.
PartTargets(call, part) ==
  {<<"Instance", call.ref>>}
    \cup {<<"Pin", call.ref, pin>> : pin \in PinNames(part.pins)}
    \cup (IF call.placed THEN {<<"Placement", call.ref>>} ELSE {})
    \cup (IF call.wave = NoWave THEN {} ELSE {<<"Stimulus", call.ref>>})

SymbolRecord(call, unit, place, definition) ==
  [id |-> <<call.ref, place>>, instance |-> call.ref, definition |-> definition,
   unit |-> unit, by |-> call.at]

\* A definition's handle knows what was declared under it.
Instantiate(call, definition) ==
  LET ids == Derived(definition.name)
      symbols == [i \in DOMAIN call.units |->
                    SymbolRecord(call, call.units[i], call.units[i], ids.symbol)]
  IN /\ call.call = "Instantiate" /\ definition.call \in {"Define", "Import"}
     /\ call.of = definition.name
     /\ call.ref \notin Names(circuit.parts)
     /\ CanDrive(call, Entry(circuit.models, ids.model))
     /\ Duplicates(call.units) = {}
     /\ Elements(call.units) \subseteq UnitNumbers(definition.part)
     /\ call.placed = HasFootprint(definition.part)
     /\ circuit' = [circuit EXCEPT !.parts = Append(@, PartRecord(call, ids.model)),
                                   !.stimuli = @ \o Stimuli(call)]
     /\ schematic' = [schematic EXCEPT !.symbols = @ \o symbols]
     /\ layout' = [layout EXCEPT !.placements = @ \o Placements(call, ids.pattern)]
     /\ Accepted(call, PartTargets(call, definition.part) \cup Declared("Symbol", symbols))

\* `add` derives records of the part's own, and looks for no others of their
\* names.  Its drawing is one unit.
Addable(call) ==
  /\ call.call = "Add" /\ WellFormed(call.part)
  /\ call.ref \notin Names(circuit.parts)
  /\ CanDrive(call, call.part)
  /\ call.placed = HasFootprint(call.part)

AddedIds(ref) == [Derived(ref) EXCEPT !.symbol = <<ref, "model:symbol">>]

Add(call) ==
  LET ids == AddedIds(call.ref)
      definitions == SymbolsOf(ids.symbol, ids.model, call.part, call.at)
      symbols == [i \in DOMAIN definitions |-> SymbolRecord(call, 1, 0, ids.symbol)]
      patterns == PatternsOf(ids.pattern, call.part, call.at)
  IN /\ Addable(call)
     /\ circuit' = [circuit EXCEPT
                      !.models = Append(@, ModelOf(ids.model, call.part, call.at)),
                      !.parts = Append(@, PartRecord(call, ids.model)),
                      !.stimuli = @ \o Stimuli(call)]
     /\ schematic' = [schematic EXCEPT !.definitions = @ \o definitions,
                                       !.symbols = @ \o symbols]
     /\ layout' = [layout EXCEPT !.patterns = @ \o patterns,
                                 !.placements = @ \o Placements(call, ids.pattern)]
     /\ Accepted(call, {<<"DeviceModel", ids.model>>}
                         \cup PartTargets(call, call.part)
                         \cup Declared("Symbol", symbols)
                         \cup Declared("LandPattern", patterns)
                         \cup PadTargets(ids.pattern, call.part))

Stimulate(call) ==
  /\ call.call = "Stimulus"
  /\ call.ref \in Names(circuit.parts)
  /\ \A s \in Elements(circuit.stimuli) : s.component # call.ref
  /\ Entry(circuit.models, Entry(circuit.parts, call.ref).model).source
  /\ circuit' = [circuit EXCEPT !.stimuli = Append(@, StimulusRecord(call))]
  /\ Accepted(call, {<<"Stimulus", call.ref>>})
  /\ UNCHANGED <<schematic, layout>>

-----------------------------------------------------------------------------
(* Connections                                                             *)

\* The first symbol that draws the pin; 0: the pin is drawn nowhere.
SymbolOf(pin) ==
  SelectInSeq(schematic.symbols,
              LAMBDA s : s.instance = pin.part /\ Draws(schematic, s, pin.pin))
Visible(pins) == SelectSeq(pins, LAMBDA pin : SymbolOf(pin) # 0)
Ends(pins) ==
  LET drawn == Visible(pins)
  IN [i \in DOMAIN drawn |-> [symbol |-> schematic.symbols[SymbolOf(drawn[i])].id,
                              pin |-> drawn[i].pin]]

\* The pins bound to a net so far, in the order of the parts.
BoundTo(net) ==
  FlattenSeq([i \in DOMAIN circuit.parts |->
    LET bound == SelectSeq(circuit.parts[i].pins, LAMBDA b : b.net = net)
    IN [j \in DOMAIN bound |-> [part |-> circuit.parts[i].id, pin |-> bound[j].pin]]])

NewWiresFromFirst(call) ==
  LET bound == BoundTo(call.net)
      row == (IF bound = << >> THEN << >> ELSE Ends(<<Head(bound)>>)) \o Ends(call.pins)
      count == Len(schematic.wires)
  IN [i \in 1..(Len(row) - 1) |->
        [id |-> <<call.net, count + i - 1>>, net |-> call.net,
         from |-> row[i], to |-> row[i + 1], by |-> call.at]]

\* New pins are wired in a row, from the first drawn pin the net already has.
\* The number in a wire's name is never taken: names count the wires there are.
NewWires(call) ==
  LET there == Ends(BoundTo(call.net))
      row == (IF there = << >> THEN << >> ELSE <<Head(there)>>) \o Ends(call.pins)
      count == Len(schematic.wires)
  IN [i \in 1..(Len(row) - 1) |->
        [id |-> <<call.net, count + i - 1>>, net |-> call.net,
         from |-> row[i], to |-> row[i + 1], by |-> call.at]]

Connectable(pin) ==
  /\ pin.part \in Names(circuit.parts)
  /\ LET part == Entry(circuit.parts, pin.part)
     IN pin.pin \notin BoundPins(part) /\ pin.pin \in {p.pin : p \in PinsOf(circuit, part)}

Connect(call) ==
  LET bindings(part) ==
        LET pins == SelectSeq(call.pins, LAMBDA pin : pin.part = part.id)
        IN [i \in DOMAIN pins |-> [pin |-> pins[i].pin, net |-> call.net, by |-> call.at]]
      wires == NewWires(call)
  IN /\ call.call = "Connect"
     /\ call.net \in Names(circuit.nets)
     /\ Duplicates(call.pins) = {} /\ \A pin \in Elements(call.pins) : Connectable(pin)
     /\ circuit' = [circuit EXCEPT
                      !.parts = [i \in DOMAIN @ |-> [@[i] EXCEPT !.pins = @ \o bindings(circuit.parts[i])]]]
     /\ schematic' = [schematic EXCEPT !.wires = @ \o wires]
     /\ Accepted(call, {<<"Connection", pin.part, pin.pin>> : pin \in Elements(call.pins)}
                         \cup Declared("Wire", wires))
     /\ UNCHANGED layout

-----------------------------------------------------------------------------
(* The board                                                               *)

\* Each declaration tries its entry on the empty board, on one with the rules
\* declared so far or on the whole board, and is refused for these issues.
OnEmpty(list, refused) == [list |-> list, board |-> "Empty", refused |-> refused]
OnRules(list, refused) == [list |-> list, board |-> "Rules", refused |-> refused]
OnWhole(list, refused) == [list |-> list, board |-> "Whole", refused |-> refused]

ViaStyle == OnEmpty("styles", {"DuplicateViaStyle", "InvalidViaStyle"})
NetClass ==
  OnRules("classes", {"DuplicateNetClass", "UnknownNetClassParent", "UnknownNetClassNet",
                      "UnknownNetClassViaStyle", "NetInMultipleClasses"})
DifferentialPair ==
  OnEmpty("pairs", {"DuplicateDifferentialPair", "InvalidDifferentialPair"})
LengthTuning ==
  OnWhole("tunings", {"DuplicateLengthTuningPattern", "InvalidLengthTuningTarget"})
PhaseTuningGroup ==
  OnWhole("groups", {"DuplicatePhaseTuningGroup", "InvalidPhaseTuningTarget",
                     "InvalidPhaseTuningGroup"})
Constrain ==
  OnWhole("constraints", {"DuplicatePlacementConstraint", "InvalidPlacementConstraint",
                          "UnknownPlacementConstraintInstance", "MultiplePlacementDrivers"})
Route == OnEmpty("routes", {"DuplicateRoute", "UnknownRouteNet", "UnknownRouteLayer",
                            "EmptyRoute", "DisconnectedRoute"})
Via == OnEmpty("copper", {"DuplicateCopper", "UnknownCopperNet", "UnknownCopperLayer"})
Zone == OnEmpty("copper", {"DuplicateCopper", "UnknownCopperNet", "UnknownCopperLayer"})
Keepout == OnEmpty("copper", {"DuplicateCopper"})

BoardCalls ==
  [ViaStyle |-> ViaStyle, NetClass |-> NetClass, DifferentialPair |-> DifferentialPair,
   LengthTuningPattern |-> LengthTuning, PhaseTuningGroup |-> PhaseTuningGroup,
   PlacementConstraint |-> Constrain, Route |-> Route, Via |-> Via, Zone |-> Zone,
   Keepout |-> Keepout]

OnlyRules(board) ==
  [EmptyBoard EXCEPT !.styles = board.styles, !.classes = board.classes,
                     !.pairs = board.pairs, !.tunings = board.tunings,
                     !.groups = board.groups]

ProbeOfNew(board) == IF board = "Whole" THEN layout ELSE EmptyBoard

\* `empty_layout_probe`, or a copy of what is there.
ProbeOf(board) ==
  CASE board = "Empty" -> EmptyBoard
    [] board = "Rules" -> OnlyRules(layout)
    [] board = "Whole" -> layout

\* Vias, zones and keepouts have names of their own.
Taken(list, entry) ==
  \E other \in Elements(layout[list]) :
     other.id = entry.id /\ (list = "copper" => other.kind = entry.kind)

\* The call is refused only for what its own entry did.
About(issue, entry) ==
  LET subject == issue[2]
  IN CASE issue[1] = "NetInMultipleClasses" -> subject[1] \in Elements(entry.nets)
       [] issue[1] = "MultiplePlacementDrivers" -> subject[1] \in Driven(entry)
       [] OTHER -> subject[1] = entry.id

DeclareOnBoard(call) ==
  /\ call.call \in DOMAIN BoardCalls
  /\ LET how == BoardCalls[call.call]
         entry == call.entry @@ [by |-> call.at]
         probe == [ProbeOf(how.board) EXCEPT ![how.list] = Append(@, entry)]
     IN /\ ~Taken(how.list, entry)
        /\ \A issue \in BoardIssues(probe, circuit) :
              issue[1] \in how.refused => ~About(issue, entry)
        /\ layout' = [layout EXCEPT ![how.list] = Append(@, entry)]
  /\ Accepted(call, {<<call.call, call.entry.id>>})
  /\ UNCHANGED <<circuit, schematic>>

-----------------------------------------------------------------------------
(* Checking and finishing                                                  *)

BusProblems(c) ==
  LET buses == Elements(c.buses)
      slices == Elements(c.slices)
      known == {s \in slices : s.bus \in Names(c.buses)}
  IN [DuplicateBus |-> Each(Duplicates(Ids(c.buses))),
      EmptyBus |-> {<<b.id>> : b \in {d \in buses : d.nets = << >>}},
      UnknownBusNet |-> UNION {{<<b.id, net>> : net \in UnknownNets(c, b.nets)} : b \in buses},
      DuplicateBusNet |-> UNION {{<<b.id, net>> : net \in Duplicates(b.nets)} : b \in buses},
      DuplicateBusSlice |-> Each(Duplicates(Ids(c.slices))),
      UnknownBusSliceBus |-> {<<s.id, s.bus>> : s \in slices \ known},
      InvalidBusSliceRange |->
        {<<s.id>> : s \in {t \in known : ~InRange(t, Entry(c.buses, t.bus))}}]

\* A waveform by itself, of whatever shape, is looked at only here.
StimulusProblems(c) ==
  LET stimuli == Elements(c.stimuli)
      components == [i \in DOMAIN c.stimuli |-> c.stimuli[i].component]
      of(s) == Entry(c.parts, s.component)
      driven == {s \in stimuli : s.component \in Names(c.parts)}
      known == {s \in driven : HasModel(c, of(s))}
  IN [DuplicateSourceStimulus |-> Each(Duplicates(components)),
      InvalidSourceWaveform |->
        {<<s.component>> : s \in {t \in stimuli : t.wave = "Unsound"}},
      UnknownSourceStimulusComponent |-> {<<s.component>> : s \in stimuli \ driven},
      InvalidSourceStimulusTarget |->
        {<<s.component>> : s \in {t \in known : ~Entry(c.models, of(t).model).source}}]

\* `check`: all that is wrong with the three containers, and with each finding
\* the places of what the finding is about.
WrongCircuit(c) ==
  UNION {CircuitIssues(c), Reported(BusProblems(c)), Reported(StimulusProblems(c))}
IssuesOf(c, drawing, board) ==
  UNION {WrongCircuit(c), SchematicIssues(drawing, c), BoardIssues(board, c)}
Issues == IssuesOf(circuit, schematic, layout)

PinTargetsBound(part, pin) == {<<"Connection", part, pin>>}
PinTargets(part, pin) ==
  {<<"Instance", part>>, <<"Pin", part, pin>>, <<"Connection", part, pin>>}

\* `circuit_issue_sources`.  Port types that disagree are about nobody.
CircuitTargets(kind, s) ==
  CASE kind \in {"DuplicateNet", "DuplicateRailIntent", "UnknownRailNet",
                 "GroundRailMismatch"} -> {<<"Net", s[1]>>}
    [] kind \in {"DuplicateBus", "EmptyBus"} -> {<<"Bus", s[1]>>}
    [] kind \in {"UnknownBusNet", "DuplicateBusNet"} -> {<<"Bus", s[1]>>, <<"Net", s[2]>>}
    [] kind \in {"DuplicateBusSlice", "InvalidBusSliceRange"} -> {<<"BusSlice", s[1]>>}
    [] kind = "UnknownBusSliceBus" -> {<<"BusSlice", s[1]>>, <<"Bus", s[2]>>}
    [] kind = "DuplicatePort" -> {<<"Port", s[1]>>}
    [] kind = "UnknownPortNet" -> {<<"Port", s[1]>>, <<"Net", s[2]>>}
    [] kind = "MultipleGroundNets" ->
         {<<"Net", circuit.nets[i].id>> : i \in Grounds(circuit)}
    [] kind = "DuplicateDeviceModel" -> {<<"DeviceModel", s[1]>>}
    [] kind = "DuplicateDeviceModelPin" ->
         {<<"DeviceModel", s[1]>>}
           \cup {<<"Pin", p.id, s[2]>> : p \in {q \in Elements(circuit.parts) : q.model = s[1]}}
    [] kind \in {"DuplicateInstance", "UnknownInstanceModel"} -> {<<"Instance", s[1]>>}
    [] kind \in {"UnknownInstancePin", "MissingRequiredInstancePin",
                 "DuplicateInstancePin"} -> PinTargets(s[1], s[2])
    [] kind = "UnknownInstanceNet" -> PinTargets(s[1], s[2]) \cup {<<"Net", s[3]>>}
    [] kind \in DOMAIN StimulusProblems(circuit) ->
         {<<"Instance", part>> : part \in {s[1]} \cap Names(circuit.parts)}
           \cup {<<"Stimulus", s[1]>>}
    [] OTHER -> {}

\* `schematic_issue_sources`.
SchematicTargets(kind, s) ==
  CASE kind \in {"DuplicateSymbol", "SymbolDefinitionModelMismatch",
                 "UnknownSymbolDefinition", "UnknownPlacedSymbolUnit"} -> {<<"Symbol", s[1]>>}
    [] kind = "UnknownSymbolInstance" -> {<<"Instance", s[1]>>}
    [] kind \in DOMAIN DefinitionProblems(schematic, circuit) ->
         {<<"SymbolDefinition", s[1]>>}
           \cup {<<"Symbol", symbol.id>> : symbol \in {t \in Elements(schematic.symbols) :
                                                        t.definition = s[1]}}
    [] kind \in {"DuplicateWire", "UnknownWirePinEndpoint"} -> {<<"Wire", s[1]>>}
    [] kind \in {"UnknownWireNet", "WireEndpointNetMismatch"} ->
         {<<"Wire", s[1]>>, <<"Net", s[2]>>}

PlacementTargets(part) == {<<"Instance", part>>, <<"Placement", part>>}

\* `layout_issue_sources`.
LayoutTargets(kind, s) ==
  CASE kind \in {"DuplicateLandPattern", "UnknownPlacementLandPattern"} ->
         {<<"LandPattern", s[1]>>}
    [] kind \in {"DuplicatePad", "UnknownMappedPad", "DuplicatePinPadMapping"} ->
         {<<"LandPattern", s[1]>>, <<"Pad", s[1], s[Len(s)]>>}
    [] kind \in {"UnknownPlacedInstance", "DuplicatePlacement"} -> PlacementTargets(s[1])
    [] kind = "MultiplePlacementDrivers" ->
         PlacementTargets(s[1])
           \cup {<<"PlacementConstraint", k.id>> :
                   k \in {l \in Elements(layout.constraints) : Driven(l) = {s[1]}}}
    [] kind \in {"DuplicatePlacementConstraint", "InvalidPlacementConstraint",
                 "UnknownPlacementConstraintInstance"} -> {<<"PlacementConstraint", s[1]>>}
    [] kind \in {"MissingPlacedPinPad", "UnknownPlacedPatternPin"} ->
         PlacementTargets(s[1]) \cup PinTargets(s[1], s[2])
    [] kind = "UnknownRouteNet" -> {<<"Route", s[1]>>, <<"Net", s[2]>>}
    [] kind \in DOMAIN RouteIssues(layout, circuit) -> {<<"Route", s[1]>>}
    [] kind \in DOMAIN CopperIssues(layout, circuit) ->
         {<<s[2], s[1]>>} \cup (IF kind = "UnknownCopperNet" THEN {<<"Net", s[3]>>} ELSE {})
    [] kind \in DOMAIN StyleIssues(layout) -> {<<"ViaStyle", s[1]>>}
    [] kind = "DuplicateNetClass" -> {<<"NetClass", s[1]>>}
    [] kind = "UnknownNetClassParent" -> {<<"NetClass", s[1]>>, <<"NetClass", s[2]>>}
    [] kind = "UnknownNetClassNet" -> {<<"NetClass", s[1]>>, <<"Net", s[2]>>}
    [] kind = "UnknownNetClassViaStyle" -> {<<"NetClass", s[1]>>, <<"ViaStyle", s[2]>>}
    [] kind = "NetInMultipleClasses" ->
         {<<"Net", s[1]>>} \cup {<<"NetClass", c.id>> : c \in {d \in Elements(layout.classes) :
                                                               s[1] \in Elements(d.nets)}}
    [] kind \in DOMAIN PairIssues(layout, circuit) -> {<<"DifferentialPair", s[1]>>}
    [] kind \in DOMAIN TuningRules(layout, circuit) -> {<<"LengthTuningPattern", s[1]>>}
    [] kind \in DOMAIN GroupIssues(layout) -> {<<"PhaseTuningGroup", s[1]>>}
    [] kind = "UnknownRouteConstraintRegionNet" -> {<<"Net", s[2]>>}
    [] OTHER -> {}

\* `collect_diagnostic_sources`: the places that declared the targets; those of
\* the container when there are none.
PlacesOf(targets) == {trace[2] : trace \in {t \in traces : t[1] \in targets}}
Sources(targets, container) ==
  IF PlacesOf(targets) # {} THEN PlacesOf(targets) ELSE PlacesOf({Container(container)})

Diagnostics ==
  {[issue |-> i, sources |-> Sources(CircuitTargets(i[1], i[2]), "Circuit")] :
     i \in WrongCircuit(circuit)}
  \cup {[issue |-> i, sources |-> Sources(SchematicTargets(i[1], i[2]), "Schematic")] :
          i \in SchematicIssues(schematic, circuit)}
  \cup {[issue |-> i, sources |-> Sources(LayoutTargets(i[1], i[2]), "Board")] :
          i \in BoardIssues(layout, circuit)}

Finish ==
  /\ outcome = "Building"
  /\ outcome' = IF Issues = {} THEN "Checked" ELSE "InvalidDesign"
  /\ UNCHANGED <<containers, traces, made, program>>

Call(call) ==
  \/ DeclareNet(call) \/ DeclareBus(call) \/ DeclareSlice(call) \/ DeclarePort(call)
  \/ DefinePart(call) \/ ImportPart(call) \/ (\E definition \in made : Instantiate(call, definition))
  \/ Add(call) \/ Stimulate(call) \/ Connect(call) \/ DeclareOnBoard(call)

Next ==
  \/ outcome = "Building" /\ \E call \in program \ made : Call(call)
  \/ Finish

Spec == Init /\ [][Next]_vars

-----------------------------------------------------------------------------
(* Properties                                                              *)

\* The drawing says what the netlist says: the drawn pins of a net form one
\* piece by the wires of that net, however many connect calls bound them and
\* whichever came first, and a wire never joins pins of two nets.
\* (`connect`, the row of wires of a call is tied to what is there.)
Drawn(net) == Elements(Ends(BoundTo(net)))
WiresOf(net) == {w \in Elements(schematic.wires) : w.net = net}
IsPiece(ends, net) ==
  ends # {} /\ \A wire \in WiresOf(net) : wire.from \in ends <=> wire.to \in ends

WiringFollowsNets ==
  \A net \in Names(circuit.nets) :
     /\ \A wire \in WiresOf(net) : {wire.from, wire.to} \subseteq Drawn(net)
     /\ \A ends \in SUBSET Drawn(net) : IsPiece(ends, net) => ends = Drawn(net)

\* What a call accepted, no later call makes wrong: as long as no part is added
\* under the name of a definition, all that `check` can find is what only the
\* whole design shows, things left out and nets declared twice over.  And what
\* `finish` passes has every required pin of every part, as its author wrote
\* it, bound by some call.
Omissions == {"MissingRequiredInstancePin", "MissingPlacedPinPad", "MultipleGroundNets",
              "GroundRailMismatch", "IncompatiblePortSignalTypes",
              "DuplicatePinPadMapping", "InvalidSourceWaveform"}
\* The definition's records come first and stand for the added part's.
Shadowed == {"DuplicateDeviceModel", "DuplicateLandPattern", "UnknownPlacedPatternPin",
             "UnknownSymbolDefinitionPin", "InvalidSourceStimulusTarget"}
Calls(kinds) == {call \in made : call.call \in kinds}
NamesCollide ==
  \E definition \in Calls({"Define", "Import"}) : \E added \in Calls({"Add"}) :
     definition.name = added.ref

BoundByCalls(ref) ==
  {pin.pin : pin \in {p \in UNION {Elements(c.pins) : c \in Calls({"Connect"})} : p.part = ref}}
AuthoredParts ==
  {<<call.ref, call.part>> : call \in Calls({"Add"})}
    \cup UNION {{<<call.ref, d.part>> : d \in {e \in Calls({"Define", "Import"}) : e.name = call.of}} :
                  call \in Calls({"Instantiate"})}

AcceptedCallsHold ==
  /\ {issue[1] : issue \in Issues}
       \subseteq Omissions \cup (IF NamesCollide THEN Shadowed ELSE {})
  /\ outcome = "Checked" =>
       /\ \A part \in AuthoredParts : Required(part[2]) \subseteq BoundByCalls(part[1])
       /\ \A a, b \in Calls({"Net"}) : a.ground /\ b.ground => a = b
       /\ \A a, b \in Calls({"Port"}) : a.net = b.net => a.type = b.type

\* A finding names the calls to change: take back all that the named calls
\* declared, in the circuit, the drawing and on the board, and the finding is
\* gone.  Not so for port types that disagree, reported at the design itself.
Kept(entries, places) == SelectSeq(entries, LAMBDA entry : entry.by \notin places)
Without(container, places) ==
  [list \in DOMAIN container |->
     CASE list = "types" -> container.types
       [] list = "parts" -> LET parts == Kept(container.parts, places)
                            IN [i \in DOMAIN parts |->
                                  [parts[i] EXCEPT !.pins = Kept(@, places)]]
       [] OTHER -> Kept(container[list], places)]

DiagnosticsNameTheCalls ==
  \A finding \in Diagnostics :
     finding.issue[1] # "IncompatiblePortSignalTypes" =>
       finding.issue \notin IssuesOf(Without(circuit, finding.sources),
                                    Without(schematic, finding.sources),
                                    Without(layout, finding.sources))

\* What is accepted holds, and what is found says what to change.
DiagnosticsAreTrue == AcceptedCallsHold /\ DiagnosticsNameTheCalls
=============================================================================
