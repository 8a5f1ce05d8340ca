----------------------------- MODULE ModularProject -----------------------------
(***************************************************************************)
(* `DesignModule` and its `compile` (src/project.rs): checked designs are  *)
(* instantiated in each other, each with a transform of its board, and the *)
(* tree below a root is compiled to a library and an assembly, which are   *)
(* flattened and composed to one circuit and one board.                    *)
(*                                                                         *)
(* An instance holds its child by value.  A draft that changes after it    *)
(* was instantiated leaves a copy behind, under the same identities.       *)
(* Schematics and source maps are not modelled.                            *)
(***************************************************************************)
EXTENDS LayoutComposition

CONSTANTS
  Drafts,           \* the modules an author works on, by the owner of their handles
  Checked,          \* the designs each draft may hold: [id, circuit, layout]
  Offers,           \* instantiations an author tries:
                    \* [parent, id, child, bindings, transform]
  Roots,            \* the drafts an author compiles
  Assemblies,       \* pairs of an assembly and a library written by hand
  MaxCalls          \* bound: calls an author makes before compiling

VARIABLES
  drafts,     \* the modules
  compiled,   \* the draft that has been compiled, if any
  calls       \* calls made so far

projectVars == <<drafts, compiled, calls>>
Nobody == "nobody"

DesignModule(checked) == [checked |-> checked, instances |-> << >>]

-----------------------------------------------------------------------------
(* instantiate                                                             *)

\* The handles belong to the two designs and are still found there, no port
\* is bound twice, the ports of one child net meet on one parent net, and
\* every required port is bound.
Fits(parent, child, bindings) ==
  LET of(port) == Entry(drafts[child].checked.circuit.ports, port)
  IN /\ \A b \in Elements(bindings) :
          /\ b.port.owner = child /\ b.net.owner = parent
          /\ b.port.id \in Names(drafts[child].checked.circuit.ports)
          /\ b.net.id \in Names(drafts[parent].checked.circuit.nets)
     /\ \A i, j \in DOMAIN bindings :
          /\ bindings[i].port.id = bindings[j].port.id => i = j
          /\ of(bindings[i].port.id).net = of(bindings[j].port.id).net
               => bindings[i].net.id = bindings[j].net.id
     /\ \A port \in Elements(drafts[child].checked.circuit.ports) :
          port.optional \/ \E b \in Elements(bindings) : b.port.id = port.id

\* A refused call leaves the parent as it was and is no step.
Instantiate(parent, id, child, bindings, transform) ==
  /\ composing = "authoring" /\ calls < MaxCalls
  /\ id \notin Names(drafts[parent].instances)
  /\ Fits(parent, child, bindings)
  /\ drafts' = [drafts EXCEPT ![parent].instances =
                  Append(@, [id |-> id, module |-> drafts[child],
                             ports |-> [i \in DOMAIN bindings |->
                                          [port |-> bindings[i].port.id,
                                           net |-> bindings[i].net.id]],
                             transform |-> transform])]
  /\ calls' = calls + 1
  /\ UNCHANGED <<compiled, vars, compositionVars>>

\* The fields of a design are public: its author goes on with it.
Revise(draft, checked) ==
  /\ composing = "authoring" /\ calls < MaxCalls
  /\ checked # drafts[draft].checked
  /\ drafts' = [drafts EXCEPT ![draft].checked = checked]
  /\ calls' = calls + 1
  /\ UNCHANGED <<compiled, vars, compositionVars>>

-----------------------------------------------------------------------------
(* compile                                                                 *)

InPlace == [at |-> <<0, 0>>, turns |-> 0, back |-> FALSE]

\* The modules of a tree, each parent before its children, with their paths
\* and the transforms collected on the way down.
RECURSIVE Tree(_, _, _)
Tree(module, path, transform) ==
  <<[path |-> path, module |-> module, transform |-> transform]>>
    \o FlattenSeq([i \in DOMAIN module.instances |->
         LET instance == module.instances[i]
         IN Tree(instance.module, Append(path, instance.id),
                 Under(transform, instance.transform))])

\* A circuit with its children as subcircuits.
WithChildren(module) ==
  [module.checked.circuit EXCEPT
     !.subcircuits = @ \o [i \in DOMAIN module.instances |->
       LET instance == module.instances[i]
       IN [id |-> instance.id, circuit |-> instance.module.checked.circuit.id,
           ports |-> instance.ports, overrides |-> << >>]]]

Circuits(tree) == [i \in DOMAIN tree |-> WithChildren(tree[i].module)]

\* Layouts are collected of all modules but the root.
Layouts(tree) ==
  [i \in DOMAIN tree |->
     [id |-> tree[i].module.checked.id, circuit |-> tree[i].module.checked.circuit.id,
      groups |-> << >>, layout |-> tree[i].module.checked.layout]]

\* Whether an entry differs from one collected before it under its name.
Conflicts(list, i, first) ==
  \E j \in first..(i - 1) : list[j].id = list[i].id /\ list[j] # list[i]

ConflictAt(tree, i) ==
  IF Conflicts(Circuits(tree), i, 1) THEN "ConflictingCircuitDefinition"
  ELSE IF Conflicts(Layouts(tree), i, 2) THEN "ConflictingLayoutDefinition" ELSE "None"

\* One of each name.
Collected(list) ==
  LET distinct(kept, entry) == IF entry.id \in Names(kept) THEN kept ELSE Append(kept, entry)
  IN FoldLeft(distinct, << >>, list)

Compile(draft) ==
  /\ composing = "authoring"
  /\ LET tree == Tree(drafts[draft], << >>, InPlace)
         conflicts == {i \in DOMAIN tree : ConflictAt(tree, i) # "None"}
     IN \/ /\ conflicts # {}
           /\ composing' = ConflictAt(tree, CHOOSE i \in conflicts :
                                              \A j \in conflicts : i <= j)
           /\ UNCHANGED <<vars, assembly, placed, board>>
        \/ /\ conflicts = {}
           /\ StartComposing(
                [board |-> drafts[draft].checked.layout,
                 modules |-> Collected(Tail(Layouts(tree))),
                 instances |-> [i \in 1..(Len(tree) - 1) |->
                                  [path |-> tree[i + 1].path,
                                   module |-> tree[i + 1].module.checked.id,
                                   transform |-> tree[i + 1].transform]]],
                [root |-> drafts[draft].checked.circuit.id,
                 circuits |-> Collected(Circuits(tree))])
  /\ compiled' = draft
  /\ UNCHANGED <<drafts, calls>>

\* `compose` is public, too, and assemblies are kept in files.
ComposeByHand(given) ==
  /\ composing = "authoring" /\ calls = 0
  /\ StartComposing(given.assembly, given.library)
  /\ UNCHANGED projectVars

-----------------------------------------------------------------------------
ProjectInit ==
  /\ drafts \in {d \in [Drafts -> {DesignModule(c) : c \in UNION {Checked[o] : o \in Drafts}}] :
                   \A o \in Drafts : d[o].checked \in Checked[o]}
  /\ compiled = Nobody
  /\ calls = 0
  /\ composing = "authoring"
  /\ assembly = NoAssembly /\ board = NoLayout /\ placed = 0

Author ==
  \/ \E o \in Offers : Instantiate(o.parent, o.id, o.child, o.bindings, o.transform)
  \/ \E draft \in Drafts : \E checked \in Checked[draft] : Revise(draft, checked)
  \/ \E draft \in Roots : Compile(draft)
  \/ \E given \in Assemblies : ComposeByHand(given)

ProjectReturned == composing \notin {"authoring"} /\ ~Composing
                   /\ UNCHANGED <<projectVars, vars, compositionVars>>

ProjectNext ==
  \/ Author
  \/ ComposeNext /\ UNCHANGED projectVars
  \/ ProjectReturned

-----------------------------------------------------------------------------
(* What compilation promises, told from the tree of modules itself         *)

Paths(tree) == {tree[i].path : i \in DOMAIN tree}
InstanceNamed(module, id) == Entry(module.instances, id)

RECURSIVE ModuleAt(_, _)
ModuleAt(module, path) ==
  IF path = << >> THEN module
  ELSE ModuleAt(InstanceNamed(module, Head(path)).module, Tail(path))

\* Where a point of the module at a path comes to lie: moved by the transform
\* of its instance, then by that of the instance this one is in, and so on.
RECURSIVE ImageAt(_, _, _)
ImageAt(module, path, p) ==
  IF path = << >> THEN p
  ELSE LET instance == InstanceNamed(module, Head(path))
       IN Moved(instance.transform, ImageAt(instance.module, Tail(path), p))

RECURSIVE MirroredAt(_, _)
MirroredAt(module, path) ==
  IF path = << >> THEN FALSE
  ELSE LET instance == InstanceNamed(module, Head(path))
       IN instance.transform.back # MirroredAt(instance.module, Tail(path))

\* The same of an instance of the assembly, which a project or a hand wrote.
LayoutOf(instance) ==
  IF compiled = Nobody THEN ModuleNamed(instance.module).layout
  ELSE ModuleAt(drafts[compiled], instance.path).checked.layout
Image(instance, p) ==
  IF compiled = Nobody THEN Moved(instance.transform, p)
  ELSE ImageAt(drafts[compiled], instance.path, p)
Mirrored(instance) ==
  IF compiled = Nobody THEN instance.transform.back
  ELSE MirroredAt(drafts[compiled], instance.path)
GroupOf(instance, placement) ==
  LET groups == ModuleNamed(instance.module).groups
      mine == SelectInSeq(groups, LAMBDA g : placement.id \in Elements(g.instances))
  IN IF mine = 0 THEN InPlace ELSE groups[mine].transform

PadAt(placement, pad) == Moved(placement, pad.at)
Pads(layout, placement) == Elements(Entry(layout.patterns, placement.pattern).pads)
On(list, instance, id) == Entry(list, FlattenSeq(instance.path) \o id)

PlacementsFollow(instance) ==
  LET layout == LayoutOf(instance)
  IN \A p \in Elements(layout.placements) :
       LET q == On(board.placements, instance, p.id)
           group == GroupOf(instance, p)
       IN /\ q.back = ((p.back # group.back) # Mirrored(instance))
          /\ Pads(board, q) = Pads(layout, p)
          /\ \A pad \in Pads(layout, p) :
               PadAt(q, pad) = Image(instance, Moved(group, PadAt(p, pad)))

\* Arcs are authored as quarter circles; one runs counter-clockwise if its end
\* is to the left of its start, seen from the centre.
Cross(p, q) == p[1] * q[2] - p[2] * q[1]
RunsLeft(s) == Cross(Minus(s.from, s.centre), Minus(s.to, s.centre)) > 0

\* A point beside the start of a route.
Beside(side, s) ==
  Plus(s.from, Quarters(IF side = "Left" THEN 1 ELSE 3, Minus(s.to, s.from)))

RoutesFollow(instance) ==
  LET layout == LayoutOf(instance)
      nets == scopes[ScopeAt(instance.path)].nets
  IN \A r \in Elements(layout.routes) :
       LET s == On(board.routes, instance, r.id)
           steps(route) == [i \in DOMAIN route.segments |->
                              Direction(Minus(route.segments[i].to, route.segments[i].from))]
           lines == {i \in DOMAIN r.segments : r.segments[i].sense = "Line"}
       IN /\ s.net = nets[r.net]
          /\ \A i \in DOMAIN r.segments :
               /\ s.segments[i].from = Image(instance, r.segments[i].from)
               /\ s.segments[i].to = Image(instance, r.segments[i].to)
               /\ i \notin lines =>
                    (s.segments[i].sense = "Ccw") = RunsLeft(s.segments[i])
          /\ \A g \in {g \in Elements(layout.regions) : r.net \in Elements(g.nets)} :
               LET h == On(board.regions, instance, g.id)
               IN /\ s.net \in Elements(h.nets)
                  /\ \A i \in lines : (steps(r)[i] \in g.directions)
                                        = (steps(s)[i] \in h.directions)
          /\ \A u \in {u \in Elements(layout.tunings) : u.routes = {r.id}} :
               LET v == On(board.tunings, instance, u.id)
               IN /\ v.routes = {s.id} /\ v.net = s.net
                  /\ Beside(v.side, s.segments[1])
                       = Image(instance, Beside(u.side, r.segments[1]))

CopperFollows(instance) ==
  \A c \in Elements(LayoutOf(instance).copper) :
     On(board.copper, instance, c.id).outline
       = [i \in DOMAIN c.outline |-> Image(instance, c.outline[i])]

\* A pad of a part on the back is on the layers counted from there
\* (`routing_terminals`, src/routing.rs).
PadLayers(placement, pad) ==
  IF placement.back THEN {LastLayer - l : l \in pad.layers} ELSE pad.layers

Touches(placement, pad, route) ==
  /\ route.layer \in PadLayers(placement, pad)
  /\ \E s \in Segments(route) : PadAt(placement, pad) \in {s.from, s.to}

TouchingStays(instance) ==
  LET layout == LayoutOf(instance)
  IN \A p \in Elements(layout.placements), r \in Elements(layout.routes) :
       \A pad \in Pads(layout, p) :
          Touches(PlacementUnder(GroupOf(instance, p), p), pad, r)
            = Touches(On(board.placements, instance, p.id), pad,
                      On(board.routes, instance, r.id))

Instances == Elements(assembly.instances)

\* The layouts that meet on the board, with the scopes their nets are of.
Meeting ==
  {[path |-> << >>, layout |-> assembly.board]}
    \cup {[path |-> i.path, layout |-> LayoutOf(i)] : i \in Instances}

Claims == UNION {UNION {{<<l.path, l.layout.classes[i].nets[j], i, j>> :
                           j \in DOMAIN l.layout.classes[i].nets} :
                         i \in DOMAIN l.layout.classes} : l \in Meeting}

\* Two claims of net classes, or two nets of a region, that the hierarchy has
\* made one net.
RulesMeet ==
  LET h == Hierarchy
      owner(path, net) == (CHOOSE s \in h : s.path = path).owner[net]
  IN \/ \E a, b \in Claims : a # b /\ owner(a[1], a[2]) = owner(b[1], b[2])
     \/ \E l \in Meeting : \E r \in Elements(l.layout.regions) :
          \E i, j \in DOMAIN r.nets :
             i # j /\ owner(l.path, r.nets[i]) = owner(l.path, r.nets[j])

-----------------------------------------------------------------------------
\* A composed board holds, besides the root's own layout, the layout of every
\* module of the tree and nothing else; pads, copper and routes lie where the
\* transforms of the instances around them take them one after the other,
\* arcs, tuning sides and allowed directions are those of what lies there,
\* and what touched in a module that is not mirrored still does.
ComposedAsPlaced ==
  composing = "Composed" =>
    /\ compiled # Nobody =>
         {i.path : i \in Instances} = Paths(Tree(drafts[compiled], << >>, InPlace)) \ {<< >>}
    /\ \A part \in DOMAIN board :
         Names(board[part]) = Names(assembly.board[part])
           \cup UNION {{FlattenSeq(i.path) \o id : id \in Names(LayoutOf(i)[part])} :
                         i \in Instances}
    /\ \A i \in Instances : /\ PlacementsFollow(i) /\ RoutesFollow(i) /\ CopperFollows(i)
                            /\ Mirrored(i) \/ TouchingStays(i)

\* What `instantiate` has accepted the hierarchy accepts; a project is refused
\* for copies that differ exactly if two modules of its tree do; and modules
\* that are valid by themselves are refused together exactly if the hierarchy
\* makes one net of two that a rule may list only once.
RefusedOnlyTogether ==
  /\ composing = "Hierarchy" /\ compiled # Nobody => status = "InvalidFlattenedCircuit"
  /\ composing # "authoring" /\ compiled # Nobody =>
       LET paths == Paths(Tree(drafts[compiled], << >>, InPlace))
           at(path) == ModuleAt(drafts[compiled], path)
           differ == \E p, q \in paths :
                       \/ /\ at(p).checked.circuit.id = at(q).checked.circuit.id
                          /\ WithChildren(at(p)) # WithChildren(at(q))
                       \/ /\ << >> \notin {p, q} /\ at(p).checked.id = at(q).checked.id
                          /\ at(p).checked # at(q).checked
       IN differ <=> composing \in {"ConflictingCircuitDefinition",
                                    "ConflictingLayoutDefinition"}
  /\ composing \in {"Composed", "InvalidComposedLayout"} /\ PlainNames =>
       (composing = "InvalidComposedLayout" <=>
          \/ RulesMeet
          \/ LayoutIssues(assembly.board, Definition(circuits, library.root)) # {})

\* Composing a project puts everything in its place or refuses it for what its
\* modules are together.
ComposedOrRefused == ComposedAsPlaced /\ RefusedOnlyTogether

\* Stable scope maps are documented to compose routes, vias and zones exactly,
\* front and back: what touches in a module touches on the board.
ConnectionsSurvive ==
  composing = "Composed" => \A i \in Instances : TouchingStays(i)
=============================================================================
