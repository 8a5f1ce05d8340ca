--------------------------- MODULE LayoutComposition ---------------------------
(***************************************************************************)
(* `LayoutAssembly::compose` (src/layout_module.rs): reusable pieces of    *)
(* board, each bound to a circuit definition, are validated against their  *)
(* definitions, carried to the scopes of the flattened hierarchy they are  *)
(* instantiated at, and joined with the root's board, which is validated   *)
(* against the flat circuit.                                               *)
(*                                                                         *)
(* A point is a pair of integers and a rotation a number of quarter turns. *)
(* Route constraint regions stand for every rule that lists nets, layers   *)
(* or directions, tuning patterns for every rule that names another entry  *)
(* of the layout.  Placement constraints are not modelled here.            *)
(***************************************************************************)
EXTENDS DesignElaboration, LayoutRules

VARIABLES
  assembly,   \* the assembly being composed: [board, modules, instances]
  composing,  \* the pass the composition is in, or how it ended
  placed,     \* instances composed so far
  board       \* the layout so far

compositionVars == <<assembly, composing, placed, board>>

NoAssembly == [board |-> NoLayout, modules |-> << >>, instances |-> << >>]

Refusals == {"Hierarchy", "DuplicateModule", "InvalidModule", "DuplicateHierarchyPath",
             "UnknownModule", "UnknownHierarchyPath", "ModuleCircuitMismatch",
             "InvalidComposedLayout"}

-----------------------------------------------------------------------------
(* Transforms                                                              *)

\* Quarter turns counter-clockwise about the origin.
Quarters(n, p) ==
  CASE n = 0 -> p
    [] n = 1 -> <<-p[2], p[1]>>
    [] n = 2 -> <<-p[1], -p[2]>>
    [] n = 3 -> <<p[2], -p[1]>>

Plus(p, q) == <<p[1] + q[1], p[2] + q[2]>>
Minus(p, q) == <<p[1] - q[1], p[2] - q[2]>>

\* A back side mirrors the local X before the rotation.
Moved(t, p) ==
  Plus(t.at, Quarters(t.turns, IF t.back THEN <<-p[1], p[2]>> ELSE p))

\* An orientation below a transform, the rotation of what a back side mirrors
\* taken in its own sense.
TurnedAsDrawn(t, turns, back) ==
  [turns |-> (t.turns + turns) % 4, back |-> t.back # back]
Turned(t, turns, back) ==
  [turns |-> (IF t.back THEN t.turns - turns ELSE t.turns + turns) % 4,
   back |-> t.back # back]

\* `LayoutTransform::compose`: the child's transform, seen from above.
Under(t, child) == [at |-> Moved(t, child.at)] @@ Turned(t, child.turns, child.back)

PlacementUnder(t, placement) ==
  LET turned == Turned(t, placement.turns, placement.back)
  IN [placement EXCEPT !.at = Moved(t, @), !.turns = turned.turns,
                       !.back = turned.back]

-----------------------------------------------------------------------------
(* Modules                                                                 *)

\* The members of a group move together, before the module does.
Grouped(module) ==
  LET group(p) == SelectInSeq(Reverse(module.groups),
                              LAMBDA g : p.id \in Elements(g.instances))
  IN [i \in DOMAIN module.layout.placements |->
        LET p == module.layout.placements[i]
        IN IF group(p) = 0 THEN p
           ELSE PlacementUnder(Reverse(module.groups)[group(p)].transform, p)]

GroupIssues(module) ==
  LET members == FlattenSeq([i \in DOMAIN module.groups |-> module.groups[i].instances])
  IN [DuplicatePlacementGroup |-> Repeats(module.groups),
      UnknownGroupedPlacement |-> ~(Elements(members) \subseteq Names(module.layout.placements)),
      PlacementInMultipleGroups |-> Duplicates(members) # {}]

InvalidModule(module) ==
  \/ ~Defined(circuits, module.circuit)
  \/ Found(GroupIssues(module)) # {}
  \/ LayoutIssues([module.layout EXCEPT !.placements = Grouped(module)],
                  Definition(circuits, module.circuit)) # {}

ModuleRefusal(i) ==
  LET module == assembly.modules[i]
  IN IF \E j \in 1..(i - 1) : assembly.modules[j].id = module.id THEN "DuplicateModule"
     ELSE IF InvalidModule(module) THEN "InvalidModule" ELSE "None"

CheckModules ==
  /\ composing = "modules"
  /\ LET refused == {i \in DOMAIN assembly.modules : ModuleRefusal(i) # "None"}
     IN composing' = IF refused = {} THEN "instances"
                     ELSE ModuleRefusal(CHOOSE i \in refused : \A j \in refused : i <= j)
  /\ UNCHANGED <<assembly, placed, board>>

-----------------------------------------------------------------------------
(* Carrying a module to its scope                                          *)

\* The families of directions a route may take in a region, and the one a
\* step goes in.
Axis(direction) ==
  CASE direction = "Horizontal" -> <<1, 0>>
    [] direction = "Vertical" -> <<0, 1>>
    [] direction = "DiagonalRising" -> <<1, 1>>
    [] direction = "DiagonalFalling" -> <<1, -1>>

Direction(step) ==
  IF step[2] = 0 THEN "Horizontal"
  ELSE IF step[1] = 0 THEN "Vertical"
  ELSE IF step[1] * step[2] > 0 THEN "DiagonalRising" ELSE "DiagonalFalling"

DirectionsUnder(t, directions) ==
  (directions \cap {"Arbitrary"})
    \cup {Direction(Minus(Moved(t, Axis(d)), Moved(t, <<0, 0>>))) :
            d \in directions \ {"Arbitrary"}}

\* A mirrored arc runs the other way round, and left of a mirrored route is
\* right of it.
MirroredSense(sense) ==
  CASE sense = "Ccw" -> "Cw" [] sense = "Cw" -> "Ccw" [] OTHER -> sense
MirroredSide(side) == IF side = "Left" THEN "Right" ELSE "Left"

SegmentUnder(t, s) ==
  [from |-> Moved(t, s.from), to |-> Moved(t, s.to), centre |-> Moved(t, s.centre),
   sense |-> IF t.back THEN MirroredSense(s.sense) ELSE s.sense]

Mapped(F(_), list) == [i \in DOMAIN list |-> F(list[i])]

\* A rule follows the entry it names.
CarriedTuning(tuning, path, nets, t) ==
  [tuning EXCEPT !.id = path \o @, !.net = nets[@], !.routes = {path \o r : r \in @},
                 !.side = IF t.back THEN MirroredSide(@) ELSE @]

\* A module's layout, its placements grouped, as it stands at a scope: names
\* under the path, nets those of the flat circuit, geometry transformed.
Carried(layout, path, nets, t) ==
  LET net(n) == nets[n]
      pattern(p) == [p EXCEPT !.id = path \o @]
      placement(p) == [PlacementUnder(t, p) EXCEPT !.id = path \o @, !.pattern = path \o @]
      route(r) == [r EXCEPT !.id = path \o @, !.net = nets[@],
                            !.segments = Mapped(LAMBDA s : SegmentUnder(t, s), @)]
      copper(c) == [c EXCEPT !.id = path \o @, !.nets = Mapped(net, @),
                             !.outline = Mapped(LAMBDA p : Moved(t, p), @)]
      class(c) == [c EXCEPT !.id = path \o @, !.nets = Mapped(net, @)]
      region(r) == [r EXCEPT !.id = path \o @, !.nets = Mapped(net, @),
                             !.directions = DirectionsUnder(t, @)]
      tuning(u) == CarriedTuning(u, path, nets, t)
  IN [patterns |-> Mapped(pattern, layout.patterns),
      placements |-> Mapped(placement, layout.placements),
      routes |-> Mapped(route, layout.routes), copper |-> Mapped(copper, layout.copper),
      classes |-> Mapped(class, layout.classes), regions |-> Mapped(region, layout.regions),
      tunings |-> Mapped(tuning, layout.tunings)]

Joined(first, second) == [part \in DOMAIN first |-> first[part] \o second[part]]

ModuleNamed(id) == Entry(assembly.modules, id)
\* The root has no scope of its own.
ScopeAt(path) == SelectInSeq(scopes, LAMBDA s : s.path = path)

InstanceRefusal(instance) ==
  IF \E i \in 1..placed : assembly.instances[i].path = instance.path
  THEN "DuplicateHierarchyPath"
  ELSE IF instance.module \notin Names(assembly.modules) THEN "UnknownModule"
  ELSE IF ScopeAt(instance.path) = 0 THEN "UnknownHierarchyPath"
  ELSE IF ModuleNamed(instance.module).circuit # scopes[ScopeAt(instance.path)].circuit
       THEN "ModuleCircuitMismatch" ELSE "None"

ComposeInstance ==
  /\ composing = "instances" /\ placed < Len(assembly.instances)
  /\ LET instance == assembly.instances[placed + 1]
         module == ModuleNamed(instance.module)
     IN \/ /\ InstanceRefusal(instance) = "None"
           /\ board' = Joined(board,
                        Carried([module.layout EXCEPT !.placements = Grouped(module)],
                                FlattenSeq(instance.path),
                                scopes[ScopeAt(instance.path)].nets, instance.transform))
           /\ placed' = placed + 1
           /\ UNCHANGED composing
        \/ /\ InstanceRefusal(instance) # "None"
           /\ composing' = InstanceRefusal(instance)
           /\ UNCHANGED <<placed, board>>
  /\ UNCHANGED assembly

CheckBoard ==
  /\ composing = "instances" /\ placed = Len(assembly.instances)
  /\ composing' = IF LayoutIssues(board, flat) = {} THEN "Composed"
                  ELSE "InvalidComposedLayout"
  /\ UNCHANGED <<assembly, placed, board>>

-----------------------------------------------------------------------------
(* The call                                                                *)

\* `compose` is called on an assembly and its library.
StartComposing(given, definitions) ==
  /\ design' = [library |-> definitions, intent |-> [nets |-> << >>, roles |-> << >>]]
  /\ status' = "definitions"
  /\ assembly' = given
  /\ composing' = "flatten"
  /\ board' = given.board
  /\ UNCHANGED <<issues, searchVars, flatVars, findings, placed>>

\* The hierarchy is flattened first.
FlatteningEnds == status \in ({"rules"} \cup Outcomes) \ {"Panicked"}

FlattenStep ==
  /\ composing = "flatten" /\ ~FlatteningEnds
  /\ Next
  /\ UNCHANGED compositionVars

Flattened ==
  /\ composing = "flatten" /\ FlatteningEnds
  /\ composing' = IF status = "rules" THEN "modules" ELSE "Hierarchy"
  /\ UNCHANGED <<assembly, placed, board, vars>>

ComposeNext ==
  \/ FlattenStep
  \/ Flattened
  \/ (CheckModules \/ ComposeInstance \/ CheckBoard) /\ UNCHANGED vars

Composing == composing \in {"flatten", "modules", "instances"}
=============================================================================
