----------------------------- MODULE SchematicRules -----------------------------
(***************************************************************************)
(* What `SchematicLayout::validate` (src/schematic.rs) reports of a        *)
(* drawing: symbol definitions against the device models they present,     *)
(* placed symbols against definitions and instances, and wires against the *)
(* nets their pins are bound to.  Sheets, labels, drawn ports and graphics *)
(* are not modelled.                                                       *)
(***************************************************************************)
EXTENDS CircuitModel

NoSchematic == [definitions |-> << >>, symbols |-> << >>, wires |-> << >>]

UnitNumbers(definition) == {unit.unit : unit \in Elements(definition.units)}

\* The unit a placed symbol draws, of the first definition of that name.
IsDrawn(schematic, symbol) ==
  /\ symbol.definition \in Names(schematic.definitions)
  /\ symbol.unit \in UnitNumbers(Entry(schematic.definitions, symbol.definition))
DrawnPins(schematic, symbol) ==
  LET units == Entry(schematic.definitions, symbol.definition).units
  IN Elements(units[SelectInSeq(units, LAMBDA u : u.unit = symbol.unit)].pins)

Draws(schematic, symbol, pin) ==
  IsDrawn(schematic, symbol) /\ pin \in DrawnPins(schematic, symbol)

DefinitionProblems(schematic, c) ==
  LET definitions == Elements(schematic.definitions)
      units == UNION {{[of |-> d, unit |-> u] : u \in Elements(d.units)} : d \in definitions}
      pinsOf(d) == {pin.pin : pin \in Elements(Entry(c.models, d.model).pins)}
      presented == UNION {{<<u.of, u.unit.unit, pin>> : pin \in Elements(u.unit.pins)} :
                            u \in {v \in units : v.of.model \in Names(c.models)}}
      numbers(d) == [i \in DOMAIN d.units |-> d.units[i].unit]
  IN [DuplicateSymbolDefinition |-> Each(Duplicates(Ids(schematic.definitions))),
      UnknownSymbolDefinitionModel |->
        {<<d.id, d.model>> : d \in {e \in definitions : e.model \notin Names(c.models)}},
      InvalidSymbolUnit |-> {<<u.of.id, 0>> : u \in {v \in units : v.unit.unit = 0}},
      DuplicateSymbolUnit |->
        UNION {{<<d.id, unit>> : unit \in Duplicates(numbers(d))} : d \in definitions},
      DuplicateSymbolDefinitionPin |->
        UNION {{<<u.of.id, u.unit.unit, pin>> : pin \in Duplicates(u.unit.pins)} : u \in units},
      UnknownSymbolDefinitionPin |->
        {<<p[1].id, p[2], p[3]>> : p \in {q \in presented : q[3] \notin pinsOf(q[1])}}]

SymbolProblems(schematic, c) ==
  LET symbols == Elements(schematic.symbols)
      of == {s \in symbols : s.instance \in Names(c.parts)}
      known == {s \in of : s.definition \in Names(schematic.definitions)}
      model(s) == Entry(schematic.definitions, s.definition).model
  IN [DuplicateSymbol |-> Each(Duplicates(Ids(schematic.symbols))),
      UnknownSymbolInstance |-> {<<s.instance>> : s \in symbols \ of},
      UnknownSymbolDefinition |-> {<<s.id, s.definition>> : s \in of \ known},
      SymbolDefinitionModelMismatch |->
        {<<s.id>> : s \in {t \in known : model(t) # Entry(c.parts, t.instance).model}},
      UnknownPlacedSymbolUnit |->
        {<<s.id, s.definition, s.unit>> : s \in {t \in known : ~IsDrawn(schematic, t)}}]

\* A wire's end is a pin as some symbol draws it.
EndIsDrawn(schematic, end) ==
  /\ end.symbol \in Names(schematic.symbols)
  /\ Draws(schematic, Entry(schematic.symbols, end.symbol), end.pin)

\* The nets an end's pin is bound to: one, or none yet.
NetsAt(schematic, c, end) ==
  LET instance == Entry(schematic.symbols, end.symbol).instance
  IN {binding.net : binding \in
        {b \in UNION {Elements(p.pins) : p \in {q \in Elements(c.parts) : q.id = instance}} :
           b.pin = end.pin}}

WireProblems(schematic, c) ==
  LET wires == Elements(schematic.wires)
      ends(wire) == {wire.from, wire.to}
      loose(wire) == {end \in ends(wire) : ~EndIsDrawn(schematic, end)}
      strays(wire) == {end \in ends(wire) \ loose(wire) :
                         ~(NetsAt(schematic, c, end) \subseteq {wire.net})}
  IN [DuplicateWire |-> Each(Duplicates(Ids(schematic.wires))),
      UnknownWireNet |-> {<<w.id, w.net>> : w \in {v \in wires : v.net \notin Names(c.nets)}},
      UnknownWirePinEndpoint |-> {<<w.id>> : w \in {v \in wires : loose(v) # {}}},
      WireEndpointNetMismatch |-> {<<w.id, w.net>> : w \in {v \in wires : strays(v) # {}}}]

SchematicIssues(schematic, c) ==
  UNION {Reported(DefinitionProblems(schematic, c)), Reported(SymbolProblems(schematic, c)),
         Reported(WireProblems(schematic, c))}
=============================================================================
