---------------------------- MODULE DocumentRules ----------------------------
(***************************************************************************)
(* What makes a semantic document valid: the gates of                      *)
(* `SemanticDocument::validate` (src/interchange.rs) over the lists that   *)
(* semantic edits change, which call `Circuit::validate` (src/model.rs),   *)
(* `SchematicLayout::validate` (src/schematic.rs) and                      *)
(* `PcbLayout::validate` (src/layout.rs); and where placement constraints  *)
(* put the parts of a board.                                               *)
(*                                                                         *)
(* A field that refers to other items holds the set of their identities; a *)
(* part has one pin, a drawing one unit of each symbol.  Names, units,     *)
(* waveforms and geometry beyond a placement's position are left out.      *)
(***************************************************************************)
EXTENDS DesignEdits

Values(doc, kind) == {item.value : item \in Items(doc, kind)}

-----------------------------------------------------------------------------
(* References: the items of a kind name, in a field, items of other kinds. *)

CircuitReferences ==
  {<<"Bus", "nets", {"Net"}>>, <<"BusSlice", "bus", {"Bus"}>>,
   <<"CircuitPort", "net", {"Net"}>>, <<"Rail", "id", {"Net"}>>,
   <<"CircuitInstance", "model", {"DeviceModel"}>>, <<"CircuitInstance", "pins", {"Net"}>>,
   <<"Subcircuit", "ports", {"Net"}>>, <<"Circuit", "stamps", {"Net"}>>,
   <<"ModuleParameter", "targets", {"CircuitInstance", "DeviceModel", "Subcircuit"}>>}
DrawingReferences ==
  {<<"SchematicSymbolLibrary", "model", {"DeviceModel"}>>,
   <<"SchematicSymbol", "instance", {"CircuitInstance"}>>,
   <<"SchematicSymbol", "definition", {"SchematicSymbolLibrary"}>>,
   <<"SchematicPortPlacement", "id", {"CircuitPort"}>>,
   <<"SchematicWire", "net", {"Net"}>>, <<"SchematicLabel", "net", {"Net"}>>,
   <<"SchematicWire", "ends",
     {"SchematicSymbol", "SchematicPortPlacement", "SchematicSheetPort"}>>}
SheetReferences ==
  {<<"SchematicSheet", "parent", {"SchematicSheet"}>>,
   <<"SchematicSheet", "contents",
     {"SchematicSymbol", "SchematicPortPlacement", "SchematicWire", "SchematicLabel"}>>,
   <<"SchematicSheetPort", "sheet", {"SchematicSheet"}>>,
   <<"SchematicSheetPort", "net", {"Net"}>>,
   <<"SchematicSheetLink", "parent_port", {"SchematicSheetPort"}>>,
   <<"SchematicSheetLink", "child_port", {"SchematicSheetPort"}>>}
BoardReferences ==
  {<<"Placement", "id", {"CircuitInstance"}>>, <<"Placement", "land_pattern", {"LandPattern"}>>,
   <<"PlacementConstraint", "instance", {"Placement"}>>,
   <<"PlacementConstraint", "anchor", {"Placement"}>>,
   <<"Board", "rules", {"Net"}>>, <<"Route", "net", {"Net"}>>, <<"Via", "net", {"Net"}>>,
   <<"Zone", "net", {"Net"}>>}

(* What an item names in a field: its own identity, or those the field holds. *)
Named(item, field) == IF field = "id" THEN {item.id} ELSE item.value[field]

Refers(doc, references) ==
  \A reference \in references : \A item \in Items(doc, reference[1]) :
    Named(item, reference[2]) \subseteq UNION {Ids(doc, kind) : kind \in reference[3]}

-----------------------------------------------------------------------------
(* The circuit.                                                            *)

GroundIsOne(doc) == Cardinality({net \in Items(doc, "Net") : net.value.is_ground}) <= 1

BusesHold(doc) ==
  /\ \A bus \in Values(doc, "Bus") : bus.nets # {}
  /\ \A slice \in Values(doc, "BusSlice") : \A bus \in slice.bus :
       /\ slice.width > 0
       /\ slice.offset + slice.width <= Cardinality(Valued(doc, "Bus", bus).nets)

(* The ground rail is the ground net's.                                     *)
RailsAgree(doc) ==
  \A rail \in Items(doc, "Rail") :
    (rail.value.kind = "Ground") <=> Valued(doc, "Net", rail.id).is_ground

(* No component twice, and only sources are driven by a stimulus.           *)
StimuliDriveSources(doc) ==
  /\ \A j, k \in Items(doc, "CircuitInstance") :
       j.value.component = k.value.component => j = k
  /\ \A stimulus \in Ids(doc, "SourceStimulus") :
       \E part \in Values(doc, "CircuitInstance") :
         /\ part.component = stimulus
         /\ \A model \in part.model : Valued(doc, "DeviceModel", model).kind = "Source"

(* A parameter sets something, nothing is set by two, and none may meet     *)
(* stamps written by hand.                                                  *)
ParametersHold(doc) ==
  LET parameters == Items(doc, "ModuleParameter")
  IN /\ \A p \in parameters : p.value.targets # {}
     /\ \A p, q \in parameters : p # q => p.value.targets \cap q.value.targets = {}
     /\ parameters # {} => \A circuit \in Values(doc, "Circuit") : circuit.stamps = {}

CircuitHolds(doc) ==
  /\ Refers(doc, CircuitReferences)
  /\ GroundIsOne(doc)
  /\ BusesHold(doc)
  /\ RailsAgree(doc)
  /\ StimuliDriveSources(doc)
  /\ ParametersHold(doc)

-----------------------------------------------------------------------------
(* The drawing.                                                            *)

SymbolsAgree(doc) ==
  \A symbol \in Values(doc, "SchematicSymbol") :
    \A instance \in symbol.instance, definition \in symbol.definition :
      Valued(doc, "SchematicSymbolLibrary", definition).model
        = Valued(doc, "CircuitInstance", instance).model

(* The nets a wire's end stands on: those of the pin a symbol draws, of a   *)
(* circuit port, or of a sheet port.                                        *)
EndNets(doc, end) ==
  CASE Holds(doc, "SchematicSymbol", end) ->
         UNION {Valued(doc, "CircuitInstance", instance).pins :
                  instance \in Valued(doc, "SchematicSymbol", end).instance}
    [] Holds(doc, "SchematicPortPlacement", end) -> Valued(doc, "CircuitPort", end).net
    [] OTHER -> Valued(doc, "SchematicSheetPort", end).net

WiresAgree(doc) ==
  \A wire \in Values(doc, "SchematicWire") : \A end \in wire.ends :
    EndNets(doc, end) \subseteq wire.net

(* Content is on one sheet, the sheets form a tree.                         *)
Drawn(doc) ==
  UNION {Ids(doc, kind) : kind \in {"SchematicSymbol", "SchematicPortPlacement",
                                    "SchematicWire", "SchematicLabel"}}
SheetsOf(doc, content) ==
  {sheet \in Ids(doc, "SchematicSheet") : content \in Valued(doc, "SchematicSheet", sheet).contents}
Parents(doc, sheet) == Valued(doc, "SchematicSheet", sheet).parent

SheetsFormATree(doc) ==
  LET sheets == Ids(doc, "SchematicSheet")
  IN /\ Cardinality({sheet \in sheets : Parents(doc, sheet) = {}}) = 1
     /\ \A cycle \in (SUBSET sheets) \ {{}} :
          \E sheet \in cycle : Parents(doc, sheet) \cap cycle = {}

(* A sheet port is drawn on its sheet.                                      *)
EndSheets(doc, end) ==
  IF Holds(doc, "SchematicSheetPort", end) THEN Valued(doc, "SchematicSheetPort", end).sheet
  ELSE SheetsOf(doc, end)

(* A link joins ports of one net on a sheet and on one directly below it,   *)
(* and a port has one link.                                                 *)
LinksJoin(doc) ==
  LET port(ids) == Valued(doc, "SchematicSheetPort", CHOOSE id \in ids : TRUE)
      ends(link) == link.value.parent_port \cup link.value.child_port
      links == Items(doc, "SchematicSheetLink")
  IN /\ \A link \in links :
          LET parent == port(link.value.parent_port)
              child == port(link.value.child_port)
          IN /\ \A sheet \in child.sheet : Parents(doc, sheet) = parent.sheet
             /\ parent.net = child.net
             /\ Cardinality(ends(link)) = 2
     /\ \A j, k \in links : j # k => ends(j) \cap ends(k) = {}

SheetsHold(doc) ==
  IF doc["SchematicSheet"] = <<>>
  THEN doc["SchematicSheetPort"] = <<>> /\ doc["SchematicSheetLink"] = <<>>
  ELSE /\ Refers(doc, SheetReferences)
       /\ SheetsFormATree(doc)
       /\ \A content \in Drawn(doc) : Cardinality(SheetsOf(doc, content)) = 1
       /\ \A wire \in Items(doc, "SchematicWire") : \A end \in wire.value.ends :
            EndSheets(doc, end) = SheetsOf(doc, wire.id)
       /\ LinksJoin(doc)

DrawingHolds(doc) ==
  /\ Refers(doc, DrawingReferences)
  /\ SymbolsAgree(doc)
  /\ WiresAgree(doc)
  /\ SheetsHold(doc)

-----------------------------------------------------------------------------
(* The board.                                                              *)

Placed(doc) == Ids(doc, "Placement")
Drives(constraint) == constraint.form \in {"Fixed", "Relative"}
Drivers(doc, i) == {c \in Values(doc, "PlacementConstraint") : Drives(c) /\ i \in c.instance}

(* A placed pin has a pad.                                                  *)
PadsHold(doc) ==
  \A placement \in Items(doc, "Placement") :
    Valued(doc, "CircuitInstance", placement.id).pins # {} =>
      \A pattern \in placement.value.land_pattern :
        Valued(doc, "LandPattern", pattern).pads # {}

(* At most one constraint drives a placement, and none from itself.         *)
ConstraintsHold(doc) ==
  LET constraints == Items(doc, "PlacementConstraint")
  IN /\ \A c \in constraints :
          /\ c.value.form = "Relative" => c.value.instance # c.value.anchor
          /\ c.value.form = "AlignX" => c.value.anchor # {}
     /\ \A j, k \in constraints :
          Drives(j.value) /\ Drives(k.value) /\ j.value.instance = k.value.instance => j = k

(* Copper is on layers the stackup has, and there is one.                   *)
CopperHolds(doc) ==
  \A board \in Values(doc, "Board") :
    /\ board.stackup # {}
    /\ \A kind \in DOMAIN CopperParts : \A copper \in Values(doc, kind) :
         copper.layer \subseteq board.stackup

BoardHolds(doc) ==
  /\ Refers(doc, BoardReferences)
  /\ PadsHold(doc)
  /\ ConstraintsHold(doc)
  /\ CopperHolds(doc)

Valid(doc) == CircuitHolds(doc) /\ DrawingHolds(doc) /\ BoardHolds(doc)

-----------------------------------------------------------------------------
(* Where the constraints put the placements.                               *)

(* Relative constraints whose anchors lead back to themselves.              *)
Cyclic(doc) ==
  \E S \in (SUBSET Placed(doc)) \ {{}} :
    \A i \in S : \E c \in Drivers(doc, i) : c.form = "Relative" /\ c.anchor \subseteq S

(* A driven placement is at its fixed position or at an offset from its     *)
(* anchor, any other one where it is.                                       *)
Resolved(doc) ==
  LET at[n \in 0..Cardinality(Placed(doc))] ==
        [i \in Placed(doc) |->
           IF Drivers(doc, i) = {} \/ n = 0
           THEN Valued(doc, "Placement", i).position
           ELSE LET c == CHOOSE c \in Drivers(doc, i) : TRUE
                IN IF c.form = "Fixed" THEN c.offset
                   ELSE at[n - 1][CHOOSE a \in c.anchor : TRUE] + c.offset]
  IN at[Cardinality(Placed(doc))]

Satisfied(doc) ==
  /\ ~Cyclic(doc)
  /\ \A c \in Values(doc, "PlacementConstraint") :
       c.form = "AlignX" =>
         \A i \in c.instance, a \in c.anchor : Resolved(doc)[i] = Resolved(doc)[a]
=============================================================================
