--------------------------- MODULE MCDesignHistory ---------------------------
(* Documents and batches for model-checking DesignHistory: for each part of *)
(* a document the edits of its kinds, and batches of several edits.         *)
EXTENDS DesignHistory

Item(id, value) == [id |-> id, value |-> value]

(* Two items documents hold, and one that is inserted or lends its values.   *)
Samples ==
  [Net |-> <<Item("n1", [is_ground |-> TRUE]), Item("n2", [is_ground |-> FALSE]),
             Item("n3", [is_ground |-> FALSE])>>,
   Bus |-> <<Item("b1", [nets |-> {"n1", "n2"}]), Item("b2", [nets |-> {"n2"}]),
             Item("b3", [nets |-> {"n1"}])>>,
   BusSlice |->
     <<Item("l1", [bus |-> {"b1"}, offset |-> 1, width |-> 1, order |-> "up"]),
       Item("l2", [bus |-> {"b2"}, offset |-> 0, width |-> 1, order |-> "up"]),
       Item("l3", [bus |-> {"b1"}, offset |-> 0, width |-> 2, order |-> "down"])>>,
   CircuitPort |->
     <<Item("p1", [net |-> {"n2"}, direction |-> "in", optional |-> FALSE]),
       Item("p2", [net |-> {"n2"}, direction |-> "in", optional |-> FALSE]),
       Item("p3", [net |-> {"n1"}, direction |-> "out", optional |-> TRUE])>>,
   Rail |->
     <<Item("n1", [nominal_voltage |-> 0, max_current |-> 1, kind |-> "Ground"]),
       Item("n2", [nominal_voltage |-> 3, max_current |-> 1, kind |-> "Power"]),
       Item("n3", [nominal_voltage |-> 1, max_current |-> 2, kind |-> "Reference"])>>,
   DeviceModel |-> <<Item("m1", [kind |-> "Part"]), Item("m2", [kind |-> "Source"]),
                     Item("m3", [kind |-> "Generic"])>>,
   CircuitInstance |->
     <<Item("u1", [component |-> "U1", model |-> {"m1"}, pins |-> {"n2"}]),
       Item("u2", [component |-> "U2", model |-> {"m2"}, pins |-> {"n2"}]),
       Item("u3", [component |-> "U3", model |-> {"m2"}, pins |-> {"n1"}])>>,
   SourceStimulus |-> <<Item("U2", [waveform |-> 0]), Item("U1", [waveform |-> 1]),
                        Item("U3", [waveform |-> 1])>>,
   Subcircuit |->
     <<Item("x1", [circuit |-> "c", ports |-> {"n2"}, parameter_overrides |-> 0]),
       Item("x2", [circuit |-> "c", ports |-> {"n2"}, parameter_overrides |-> 0]),
       Item("x3", [circuit |-> "d", ports |-> {"n1"}, parameter_overrides |-> 1])>>,
   ModuleParameter |->
     <<Item("k1", [default |-> 0, unit |-> "ohm", source |-> "s", targets |-> {"u1"}]),
       Item("k2", [default |-> 0, unit |-> "ohm", source |-> "s", targets |-> {"x1"}]),
       Item("k3", [default |-> 1, unit |-> "volt", source |-> "t", targets |-> {"x1", "u1"}])>>,
   Circuit |->
     <<Item("circuit", [stamps |-> {}, transient_policy |-> 0, adapter_policy |-> 0]),
       Item("circuit", [stamps |-> {}, transient_policy |-> 0, adapter_policy |-> 0]),
       Item("circuit", [stamps |-> {"n1"}, transient_policy |-> 1, adapter_policy |-> 1])>>,
   SchematicSymbolLibrary |->
     <<Item("d1", [model |-> {"m1"}]), Item("d2", [model |-> {"m1"}]),
       Item("d3", [model |-> {"m2"}])>>,
   SchematicSymbol |->
     <<Item("g1", [instance |-> {"u1"}, definition |-> {"d1"}]),
       Item("g2", [instance |-> {"u1"}, definition |-> {"d1"}]),
       Item("g3", [instance |-> {"u2"}, definition |-> {"d3"}])>>,
   SchematicPortPlacement |-> <<Item("p1", [position |-> 0]), Item("p2", [position |-> 0]),
                                Item("p3", [position |-> 1])>>,
   SchematicWire |->
     <<Item("w1", [net |-> {"n2"}, ends |-> {"g1", "p1"}]),
       Item("w2", [net |-> {"n2"}, ends |-> {"g1"}]),
       Item("w3", [net |-> {"n2"}, ends |-> {"p1"}])>>,
   SchematicLabel |-> <<Item("t1", [net |-> {"n2"}]), Item("t2", [net |-> {"n2"}]),
                        Item("t3", [net |-> {"n1"}])>>,
   SchematicSheet |->
     <<Item("s1", [parent |-> {}, contents |-> {"t1"}]),
       Item("s2", [parent |-> {"s1"}, contents |-> {}]),
       Item("s3", [parent |-> {"s1"}, contents |-> {}])>>,
   SchematicSheetPort |->
     <<Item("q1", [sheet |-> {"s1"}, net |-> {"n2"}]),
       Item("q2", [sheet |-> {"s2"}, net |-> {"n2"}]),
       Item("q3", [sheet |-> {"s1"}, net |-> {"n1"}])>>,
   SchematicSheetLink |->
     <<Item("k1", [parent_port |-> {"q1"}, child_port |-> {"q2"}]),
       Item("k2", [parent_port |-> {"q1"}, child_port |-> {"q2"}]),
       Item("k3", [parent_port |-> {"q3"}, child_port |-> {"q2"}])>>,
   Schematic |-> <<Item("schematic", [sheets |-> 0])>>,
   Board |->
     <<Item("board", [outline |-> 0, stackup |-> {"top", "bottom"}, rules |-> {}]),
       Item("board", [outline |-> 0, stackup |-> {"top", "bottom"}, rules |-> {}]),
       Item("board", [outline |-> 1, stackup |-> {"bottom"}, rules |-> {"n2"}])>>,
   LandPattern |-> <<Item("f1", [pads |-> {"a"}]), Item("f2", [pads |-> {"a"}]),
                     Item("f3", [pads |-> {"b"}])>>,
   Keepout |-> <<Item("o1", [boundary |-> 0]), Item("o2", [boundary |-> 0]),
                 Item("o3", [boundary |-> 1])>>,
   Placement |->
     <<Item("u1", [position |-> 0, rotation_degrees |-> 0, side |-> "top",
                   land_pattern |-> {"f1"}]),
       Item("u2", [position |-> 1, rotation_degrees |-> 0, side |-> "top",
                   land_pattern |-> {"f1"}]),
       Item("u3", [position |-> 1, rotation_degrees |-> 90, side |-> "bottom",
                   land_pattern |-> {"f3"}])>>,
   PlacementConstraint |->
     <<Item("r1", [form |-> "Relative", instance |-> {"u2"}, anchor |-> {"u1"}, offset |-> 1]),
       Item("r2", [form |-> "AlignX", instance |-> {"u1"}, anchor |-> {"u2"}, offset |-> 0]),
       Item("r3", [form |-> "Fixed", instance |-> {"u1"}, anchor |-> {}, offset |-> 0])>>,
   Route |->
     <<Item("e1", [net |-> {"n2"}, layer |-> {"top"}, width |-> 1, segments |-> 0]),
       Item("e2", [net |-> {"n2"}, layer |-> {"top"}, width |-> 1, segments |-> 0]),
       Item("e3", [net |-> {"n1"}, layer |-> {"bottom"}, width |-> 2, segments |-> 1])>>,
   Via |-> <<Item("v1", [net |-> {"n2"}, layer |-> {"top"}, center |-> 0]),
             Item("v2", [net |-> {"n2"}, layer |-> {"top"}, center |-> 0]),
             Item("v3", [net |-> {"n1"}, layer |-> {"bottom"}, center |-> 1])>>,
   Zone |-> <<Item("z1", [net |-> {"n2"}, layer |-> {"top"}, boundary |-> 0]),
              Item("z2", [net |-> {"n2"}, layer |-> {"top"}, boundary |-> 0]),
              Item("z3", [net |-> {"n1"}, layer |-> {"bottom"}, boundary |-> 1])>>]

(* A document with the first items of some kinds.                           *)
WithFirst(counts) ==
  [kind \in Kinds |->
     IF kind \in DOMAIN counts THEN SubSeq(Samples[kind], 1, counts[kind])
     ELSE IF kind = "Circuit" THEN SubSeq(Samples[kind], 1, 1) ELSE <<>>]

First(kind) == Samples[kind][1].id
Other(kind) == Samples[kind][3].value

(* The edits of a kind: the first item's removal, a change of each part of  *)
(* it, and the insertion of another one.                                    *)
Sets(kind) == {SetEdit(kind, First(kind), part, Other(kind)) : part \in Parts[kind]}
Removal(kind) == RemoveEdit(kind, First(kind))
Insertion(kind) == InsertEdit(kind, Samples[kind][3].id, Other(kind))
EditsOf(kind) ==
  Sets(kind) \cup IF kind \in {"Circuit", "Board"} THEN {} ELSE {Removal(kind), Insertion(kind)}

EditsOn(kinds) == {<<e>> : e \in UNION {EditsOf(kind) : kind \in kinds}}

(* A container with the first items of some kinds it holds.                 *)
Attach(container, counts) ==
  InsertEdit(container, First(container),
             [kind \in Section(container) |-> WithFirst(counts)[kind]])
Detach(container) == RemoveEdit(container, First(container))

Moved(id, x) ==
  SetEdit("Placement", id, "transform", [position |-> x, rotation_degrees |-> 0, side |-> "top"])

Circuitry == [Net |-> 2, DeviceModel |-> 2, CircuitInstance |-> 2]
PlacedCircuitry ==
  Circuitry @@ [Board |-> 1, LandPattern |-> 1, Placement |-> 2, PlacementConstraint |-> 1]

(* The documents, each with the batches its authors submit.                 *)
Scenarios ==
  {<<WithFirst([Net |-> 2, Bus |-> 1, BusSlice |-> 1]),
     {<<>>} \cup EditsOn({"Net", "Bus", "BusSlice"})
       \cup {<<Removal("BusSlice"), Removal("Bus")>>}>>,
   <<WithFirst([Net |-> 2, CircuitPort |-> 1, Rail |-> 1]),
     EditsOn({"Net", "CircuitPort", "Rail"})
       \cup {<<SetEdit("Net", "n1", "ground", [is_ground |-> FALSE]), Removal("Rail")>>}>>,
   <<WithFirst(Circuitry @@ [SourceStimulus |-> 1]),
     EditsOn({"DeviceModel", "CircuitInstance", "SourceStimulus"})>>,
   <<WithFirst(Circuitry @@ [Subcircuit |-> 1, ModuleParameter |-> 1]),
     EditsOn({"Circuit", "Subcircuit", "ModuleParameter"})
       \cup {<<Removal("ModuleParameter"), Removal("CircuitInstance")>>,
             <<Removal("ModuleParameter"),
               SetEdit("Circuit", "circuit", "stamps", Other("Circuit"))>>}>>,
   <<WithFirst(Circuitry @@ [CircuitPort |-> 1, Schematic |-> 1, SchematicSymbol |-> 1,
                             SchematicSymbolLibrary |-> 1, SchematicPortPlacement |-> 1,
                             SchematicWire |-> 1]),
     EditsOn({"SchematicSymbol", "SchematicSymbolLibrary", "SchematicPortPlacement",
              "SchematicWire"})
       \cup {<<Removal("SchematicWire"), Removal("SchematicPortPlacement")>>,
             <<Insertion("CircuitPort"), Insertion("SchematicPortPlacement")>>,
             <<Detach("Schematic")>>, <<Attach("Schematic", [Schematic |-> 1])>>}>>,
   <<WithFirst([Net |-> 2, Schematic |-> 1, SchematicLabel |-> 1, SchematicSheet |-> 2,
                SchematicSheetPort |-> 2, SchematicSheetLink |-> 1]),
     EditsOn({"SchematicLabel", "SchematicSheet", "SchematicSheetPort", "SchematicSheetLink"})
       \cup {<<Insertion("SchematicLabel"),
               SetEdit("SchematicSheet", "s2", "definition",
                       [parent |-> {"s1"}, contents |-> {"t3"}])>>,
             <<Removal("SchematicSheetLink"), RemoveEdit("SchematicSheetPort", "q2"),
               RemoveEdit("SchematicSheet", "s2")>>,
             <<InsertEdit("SchematicSheetPort", "q3", Other("SchematicSheetPort")),
               SetEdit("SchematicSheetPort", "q2", "definition",
                       [sheet |-> {"s2"}, net |-> {"n1"}]),
               SetEdit("SchematicSheetLink", "k1", "definition",
                       Other("SchematicSheetLink"))>>}>>,
   <<WithFirst(PlacedCircuitry),
     EditsOn({"Board", "Placement", "PlacementConstraint", "LandPattern"})
       \cup {<<Moved("u1", 1), Moved("u2", 2)>>, <<Moved("u2", 2)>>,
             <<Removal("Placement"), Detach("Board")>>, <<Detach("Board")>>,
             <<Insertion("LandPattern"),
               SetEdit("Placement", "u1", "land_pattern", Other("Placement"))>>,
             <<Attach("Board", PlacedCircuitry)>>}>>,
   <<WithFirst(Circuitry),
     {<<Attach("Board", [Board |-> 1])>>, <<Detach("Board")>>, <<Insertion("LandPattern")>>,
      <<Attach("Board", [Board |-> 1, LandPattern |-> 1]),
        InsertEdit("Placement", "u1", Samples["Placement"][1].value)>>,
      <<Moved("u1", 1)>>, <<Removal("CircuitInstance")>>}>>,
   <<WithFirst([Net |-> 2, Board |-> 1, Route |-> 1]), EditsOn({"Net", "Route"})>>,
   <<WithFirst([Net |-> 2, Board |-> 1, Keepout |-> 1, Via |-> 1, Zone |-> 1]),
     EditsOn({"Keepout", "Via", "Zone"})
       \cup {<<Removal("Via"), SetEdit("Zone", "z1", "definition", Other("Zone")),
               SetEdit("Board", "board", "stackup", Other("Board"))>>}>>}

MCDocuments == {scenario[1] : scenario \in Scenarios}
MCBatches ==
  [doc \in MCDocuments |-> UNION {scenario[2] : scenario \in {s \in Scenarios : s[1] = doc}}]
=============================================================================
