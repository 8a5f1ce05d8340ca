----------------------------- MODULE DesignEdits -----------------------------
(***************************************************************************)
(* The semantic edits of src/edit.rs: what each of them writes, the edit   *)
(* that takes it back, the address it is logged under, and which addresses *)
(* conflict.                                                               *)
(*                                                                         *)
(* A document is a function from kinds to ordered lists of items, an item  *)
(* an identity and its fields.  A drawing and a board are containers: a    *)
(* list of at most one item of their own, and the lists they hold.  An     *)
(* edit inserts an item, removes one, or sets one part of it: a group of   *)
(* fields authors may write independently of the others.                   *)
(***************************************************************************)
EXTENDS Integers, Sequences, SequencesExt, FiniteSets, TLC

-----------------------------------------------------------------------------
(* Kinds of items, and the parts of each that edits set.                   *)

ConnectionParts ==
  [Net |-> {"ground"}, Bus |-> {"nets"}, BusSlice |-> {"definition"},
   CircuitPort |-> {"definition"}]
IntentParts ==
  [Rail |-> {"definition"}, ModuleParameter |-> {"definition"},
   SourceStimulus |-> {"waveform"}, Subcircuit |-> {"definition"},
   Circuit |-> {"stamps", "policy"}]
DrawingParts ==
  [kind \in {"Schematic", "SchematicSymbol", "SchematicSymbolLibrary",
             "SchematicPortPlacement", "SchematicWire", "SchematicLabel", "SchematicSheet",
             "SchematicSheetPort", "SchematicSheetLink"} |->
     IF kind = "Schematic" THEN {} ELSE {"definition"}]
DeviceParts ==
  [DeviceModel |-> {"definition"}, CircuitInstance |-> {"definition", "model", "pins"}]
BoardParts ==
  [Board |-> {"outline", "stackup", "rules"}, LandPattern |-> {"definition"},
   Keepout |-> {"definition"}, Placement |-> {"transform", "land_pattern"},
   PlacementConstraint |-> {"definition"}]
CopperParts ==
  [Route |-> {"width", "segments", "net", "definition"},
   Via |-> {"center", "net", "definition"}, Zone |-> {"boundary", "net", "definition"}]

Parts == ConnectionParts @@ IntentParts @@ DrawingParts @@ DeviceParts
           @@ BoardParts @@ CopperParts
Kinds == DOMAIN ConnectionParts \cup DOMAIN IntentParts \cup DOMAIN DrawingParts
           \cup DOMAIN DeviceParts \cup DOMAIN BoardParts \cup DOMAIN CopperParts

Containers == {"Schematic", "Board"}
Section(container) ==
  IF container = "Schematic" THEN DOMAIN DrawingParts
  ELSE DOMAIN BoardParts \cup DOMAIN CopperParts
ContainerOf(kind) == {c \in Containers : kind \in Section(c) \ {c}}
Missing(container) == IF container = "Schematic" THEN "MissingSchematic" ELSE "MissingPcb"

-----------------------------------------------------------------------------
(* The fields each edit writes, arm by arm.                                *)

ConnectionWrites ==
  [Net |-> [ground |-> {"is_ground"}], Bus |-> [nets |-> {"nets"}],
   BusSlice |-> [definition |-> {"bus", "offset", "width", "order"}]]
InterfaceWrites ==
  [CircuitPort |-> [definition |-> {"net", "direction", "optional"}],
   Rail |-> [definition |-> {"nominal_voltage", "max_current", "kind"}],
   ModuleParameter |-> [definition |-> {"default", "unit", "source", "targets"}]]
HierarchyWrites ==
  [SourceStimulus |-> [waveform |-> {"waveform"}],
   Subcircuit |-> [definition |-> {"circuit", "ports", "parameter_overrides"}],
   Circuit |-> [stamps |-> {"stamps"}, policy |-> {"transient_policy", "adapter_policy"}]]
DeviceWrites ==
  [DeviceModel |-> [definition |-> {"kind"}],
   CircuitInstance |-> [definition |-> {"component", "model", "pins"},
                        model |-> {"model"}, pins |-> {"pins"}]]
SymbolWrites ==
  [SchematicSymbol |-> [definition |-> {"instance", "definition"}],
   SchematicSymbolLibrary |-> [definition |-> {"model"}],
   SchematicPortPlacement |-> [definition |-> {"position"}],
   SchematicWire |-> [definition |-> {"net", "ends"}]]
SheetWrites ==
  [SchematicLabel |-> [definition |-> {"net"}],
   SchematicSheet |-> [definition |-> {"parent", "contents"}],
   SchematicSheetPort |-> [definition |-> {"sheet", "net"}],
   SchematicSheetLink |-> [definition |-> {"parent_port", "child_port"}]]
BoardWrites ==
  [Board |-> [outline |-> {"outline"}, stackup |-> {"stackup"}, rules |-> {"rules"}],
   LandPattern |-> [definition |-> {"pads"}], Keepout |-> [definition |-> {"boundary"}]]
PlacementWrites ==
  [Placement |-> [transform |-> {"position", "rotation_degrees", "side"},
                  land_pattern |-> {"land_pattern"}],
   PlacementConstraint |-> [definition |-> {"form", "instance", "anchor", "offset"}]]
CopperWrites ==
  [Route |-> [width |-> {"width"}, segments |-> {"segments"}, net |-> {"net"},
              definition |-> {"net", "layer", "width", "segments"}],
   Via |-> [center |-> {"center"}, net |-> {"net"},
            definition |-> {"net", "layer", "center"}],
   Zone |-> [boundary |-> {"boundary"}, net |-> {"net"},
             definition |-> {"net", "layer", "boundary"}]]

Writes == ConnectionWrites @@ InterfaceWrites @@ HierarchyWrites @@ DeviceWrites
            @@ SymbolWrites @@ SheetWrites @@ BoardWrites @@ PlacementWrites @@ CopperWrites

-----------------------------------------------------------------------------
(* The fields the inverse of each edit carries back, arm by arm: the code  *)
(* spells them a second time.                                              *)

ConnectionRestores ==
  [Net |-> [ground |-> {"is_ground"}], Bus |-> [nets |-> {"nets"}],
   BusSlice |-> [definition |-> {"bus", "offset", "width", "order"}]]
InterfaceRestores ==
  [CircuitPort |-> [definition |-> {"net", "direction", "optional"}],
   Rail |-> [definition |-> {"nominal_voltage", "max_current", "kind"}],
   ModuleParameter |-> [definition |-> {"default", "unit", "source", "targets"}]]
HierarchyRestores ==
  [SourceStimulus |-> [waveform |-> {"waveform"}],
   Subcircuit |-> [definition |-> {"circuit", "ports", "parameter_overrides"}],
   Circuit |-> [stamps |-> {"stamps"}, policy |-> {"transient_policy", "adapter_policy"}]]
DeviceRestores ==
  [DeviceModel |-> [definition |-> {"kind"}],
   CircuitInstance |-> [definition |-> {"component", "model", "pins"},
                        model |-> {"model"}, pins |-> {"pins"}]]
SymbolRestores ==
  [SchematicSymbol |-> [definition |-> {"instance", "definition"}],
   SchematicSymbolLibrary |-> [definition |-> {"model"}],
   SchematicPortPlacement |-> [definition |-> {"position"}],
   SchematicWire |-> [definition |-> {"net", "ends"}]]
SheetRestores ==
  [SchematicLabel |-> [definition |-> {"net"}],
   SchematicSheet |-> [definition |-> {"parent", "contents"}],
   SchematicSheetPort |-> [definition |-> {"sheet", "net"}],
   SchematicSheetLink |-> [definition |-> {"parent_port", "child_port"}]]
BoardRestores ==
  [Board |-> [outline |-> {"outline"}, stackup |-> {"stackup"}, rules |-> {"rules"}],
   LandPattern |-> [definition |-> {"pads"}], Keepout |-> [definition |-> {"boundary"}]]
PlacementRestores ==
  [Placement |-> [transform |-> {"position", "rotation_degrees", "side"},
                  land_pattern |-> {"land_pattern"}],
   PlacementConstraint |-> [definition |-> {"form", "instance", "anchor", "offset"}]]
CopperRestores ==
  [Route |-> [width |-> {"width"}, segments |-> {"segments"}, net |-> {"net"},
              definition |-> {"net", "layer", "width", "segments"}],
   Via |-> [center |-> {"center"}, net |-> {"net"},
            definition |-> {"net", "layer", "center"}],
   Zone |-> [boundary |-> {"boundary"}, net |-> {"net"},
             definition |-> {"net", "layer", "boundary"}]]

Restores == ConnectionRestores @@ InterfaceRestores @@ HierarchyRestores @@ DeviceRestores
              @@ SymbolRestores @@ SheetRestores @@ BoardRestores @@ PlacementRestores
              @@ CopperRestores

-----------------------------------------------------------------------------
(* Edits.                                                                  *)

AtEnd == -1

InsertEdit(kind, id, value) ==
  [op |-> "insert", kind |-> kind, id |-> id, part |-> "presence",
   value |-> value, index |-> AtEnd]
RemoveEdit(kind, id) ==
  [op |-> "remove", kind |-> kind, id |-> id, part |-> "presence",
   value |-> <<>>, index |-> AtEnd]
SetEdit(kind, id, part, value) ==
  [op |-> "set", kind |-> kind, id |-> id, part |-> part,
   value |-> [f \in Writes[kind][part] |-> value[f]], index |-> AtEnd]

(* What an edit writes, and the object that holds it.                       *)
Address(e) == [kind |-> e.kind, id |-> e.id, part |-> e.part]
Target(e) == [kind |-> e.kind, id |-> e.id]
TargetOf(address) == [kind |-> address.kind, id |-> address.id]

Items(doc, kind) == ToSet(doc[kind])
Ids(doc, kind) == {item.id : item \in Items(doc, kind)}
Holds(doc, kind, id) == id \in Ids(doc, kind)
Position(doc, kind, id) == CHOOSE i \in DOMAIN doc[kind] : doc[kind][i].id = id
Valued(doc, kind, id) == doc[kind][Position(doc, kind, id)].value

(* Why an edit cannot be applied to a document, "Ok" when it can be.        *)
Refusal(doc, e) ==
  LET held == Holds(doc, e.kind, e.id)
  IN IF \E c \in ContainerOf(e.kind) : doc[c] = <<>>
     THEN Missing(CHOOSE c \in ContainerOf(e.kind) : TRUE)
     ELSE CASE e.kind \in Containers /\ e.op = "insert" ->
                 IF doc[e.kind] = <<>> THEN "Ok" ELSE "ExistingTarget"
            [] e.kind \in Containers /\ e.op # "insert" ->
                 IF doc[e.kind] = <<>> THEN Missing(e.kind)
                 ELSE IF held THEN "Ok" ELSE "MissingTarget"
            [] e.kind \notin Containers /\ e.op = "insert" ->
                 IF held THEN "ExistingTarget"
                 ELSE IF e.index > Len(doc[e.kind]) THEN "InvalidInsertionIndex" ELSE "Ok"
            [] e.kind \notin Containers /\ e.op # "insert" ->
                 IF held THEN "Ok" ELSE "MissingTarget"

(* The index an edit records is not used.                                  *)
IndexAtEnd(doc, e) == Len(doc[e.kind])

InsertionIndex(doc, e) == IF e.index = AtEnd THEN Len(doc[e.kind]) ELSE e.index

(* A function that agrees with f where f is defined, with g elsewhere.      *)
Over(f, g) == [x \in DOMAIN f \cup DOMAIN g |-> IF x \in DOMAIN f THEN f[x] ELSE g[x]]

Inserted(doc, e) ==
  InsertAt(doc[e.kind], InsertionIndex(doc, e) + 1, [id |-> e.id, value |-> e.value])
Removed(doc, e) == RemoveAt(doc[e.kind], Position(doc, e.kind, e.id))
Updated(doc, e) ==
  [i \in DOMAIN doc[e.kind] |->
     IF i = Position(doc, e.kind, e.id)
     THEN [id |-> e.id, value |-> Over(e.value, doc[e.kind][i].value)] ELSE doc[e.kind][i]]

(* A container's value is all its lists, its own item among them.           *)
ApplyEdit(doc, e) ==
  CASE e.kind \in Containers /\ e.op = "insert" -> Over(e.value, doc)
    [] e.kind \in Containers /\ e.op = "remove" ->
         Over([kind \in Section(e.kind) |-> <<>>], doc)
    [] e.kind \notin Containers /\ e.op = "insert" -> [doc EXCEPT ![e.kind] = Inserted(doc, e)]
    [] e.kind \notin Containers /\ e.op = "remove" -> [doc EXCEPT ![e.kind] = Removed(doc, e)]
    [] e.op = "set" -> [doc EXCEPT ![e.kind] = Updated(doc, e)]

(* The edit that takes e back: a removed item returns to its position.      *)
InverseEdit(doc, e) ==
  CASE e.op = "insert" -> RemoveEdit(e.kind, e.id)
    [] e.op = "remove" /\ e.kind \in Containers ->
         InsertEdit(e.kind, e.id, [kind \in Section(e.kind) |-> doc[kind]])
    [] e.op = "remove" /\ e.kind \notin Containers ->
         [InsertEdit(e.kind, e.id, Valued(doc, e.kind, e.id))
            EXCEPT !.index = Position(doc, e.kind, e.id) - 1]
    [] e.op = "set" ->
         [e EXCEPT !.value = [f \in Restores[e.kind][e.part] |-> Valued(doc, e.kind, e.id)[f]]]

-----------------------------------------------------------------------------
(* Conflicts between addresses.                                            *)

(* Kinds whose whole definition conflicts with every other write of them.   *)
DefinedKinds ==
  {"DeviceModel", "CircuitInstance", "PlacementConstraint", "Route", "Via", "Zone"}

(* Definitions that conflict with nothing but themselves.                   *)
CoversByPresence(a, b) ==
  /\ a.part = "presence"
  /\ IF a.kind \in Containers THEN b.kind \in Section(a.kind) ELSE TargetOf(a) = TargetOf(b)

(* A write of address a covers address b as well: a container everything it *)
(* holds, an item or its definition every part of the item.                 *)
Covers(a, b) ==
  \/ a.part = "presence" /\ a.kind \in Containers /\ b.kind \in Section(a.kind)
  \/ /\ TargetOf(a) = TargetOf(b)
     /\ a.part = "presence" \/ (a.part = "definition" /\ a.kind \in DefinedKinds)

ConflictsWith(a, b) == a = b \/ Covers(a, b) \/ Covers(b, a)

(* What a document holds at an address: a container's lists, an item, the   *)
(* fields of one of its parts, or nothing.                                  *)
Content(doc, a) ==
  CASE ~Holds(doc, a.kind, a.id) -> <<>>
    [] Holds(doc, a.kind, a.id) /\ a.part # "presence" ->
         <<[f \in Writes[a.kind][a.part] |-> Valued(doc, a.kind, a.id)[f]]>>
    [] Holds(doc, a.kind, a.id) /\ a.part = "presence" ->
         IF a.kind \in Containers THEN <<[kind \in Section(a.kind) |-> doc[kind]]>>
         ELSE <<Valued(doc, a.kind, a.id)>>

(* The addresses of an item.  The circuit is always present.                *)
AddressesOf(kind, id) ==
  [kind : {kind}, id : {id},
   part : Parts[kind] \cup IF kind = "Circuit" THEN {} ELSE {"presence"}]

(* Every part an edit sets is written by its replay and restored by its     *)
(* inverse, and parts of an item that share a field conflict.               *)
ASSUME EveryPartIsReplayed ==
  \A kind \in Kinds : \A part \in Parts[kind] :
    /\ Restores[kind][part] = Writes[kind][part]
    /\ \A other \in Parts[kind] \ {part} :
         Writes[kind][part] \cap Writes[kind][other] # {} =>
           kind \in DefinedKinds /\ "definition" \in {part, other}

-----------------------------------------------------------------------------
(* Documents and edits the types of the program can hold.                  *)

IsASequence(list) == list \in Seq(ToSet(list))

WellFormedItem(kind, item) ==
  /\ item = [id |-> item.id, value |-> item.value]
  /\ item.value = [f \in DOMAIN item.value |-> item.value[f]]
  /\ \A part \in Parts[kind] : Writes[kind][part] \subseteq DOMAIN item.value

(* An identity names one item of a list.                                    *)
WellFormedList(kind, list) ==
  /\ IsASequence(list)
  /\ \A i \in DOMAIN list : WellFormedItem(kind, list[i])
  /\ \A i, j \in DOMAIN list : list[i].id = list[j].id => i = j

(* A container holds one item of its own, and lists only when it is there.  *)
WellFormed(doc) ==
  /\ doc = [kind \in Kinds |-> doc[kind]]
  /\ \A kind \in Kinds : WellFormedList(kind, doc[kind])
  /\ \A c \in Containers :
       /\ Len(doc[c]) <= 1
       /\ doc[c] = <<>> => \A kind \in Section(c) : doc[kind] = <<>>

(* A container is inserted with lists that name every item once.            *)
WellFormedInsertion(e) ==
  /\ e.op = "insert" /\ e.part = "presence" /\ e.index \in Nat \cup {AtEnd}
  /\ IF e.kind \in Containers
     THEN /\ e.value = [kind \in Section(e.kind) |-> e.value[kind]]
          /\ \A kind \in Section(e.kind) : WellFormedList(kind, e.value[kind])
          /\ Len(e.value[e.kind]) = 1 /\ e.value[e.kind][1].id = e.id
     ELSE WellFormedItem(e.kind, [id |-> e.id, value |-> e.value])

(* The circuit itself is neither inserted nor removed.                      *)
WellFormedEdit(e) ==
  /\ e = [op |-> e.op, kind |-> e.kind, id |-> e.id, part |-> e.part,
          value |-> e.value, index |-> e.index]
  /\ e.kind \in Kinds
  /\ \/ e.kind # "Circuit" /\ WellFormedInsertion(e)
     \/ e.kind # "Circuit" /\ e = RemoveEdit(e.kind, e.id)
     \/ /\ e.op = "set" /\ e.part \in Parts[e.kind]
        /\ e.value = [f \in Writes[e.kind][e.part] |-> e.value[f]]

WellFormedBatch(edits) ==
  IsASequence(edits) /\ \A i \in DOMAIN edits : WellFormedEdit(edits[i])
=============================================================================
