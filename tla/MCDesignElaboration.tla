------------------------- MODULE MCDesignElaboration -------------------------
(* Libraries of three definitions: T contains X (an M) and Y (an L), M      *)
(* contains A and B (each an L), L has one part between two ports.  Beside  *)
(* the elaboration of such libraries, modules of the same three circuits    *)
(* are put together to projects, packages are exchanged with a tool and its *)
(* documents inspected: one of the four is under way.                       *)
EXTENDS ModularProject, IntelligentExchange, Ipc2581Inspection

Net(id, ground) == [id |-> <<id>>, ground |-> ground]
Port(id, net, direction) ==
  [id |-> id, net |-> <<net>>, direction |-> direction, optional |-> FALSE]
Bind(port, net) == [port |-> port, net |-> <<net>>]
Sub(id, circuit, ports, overrides) ==
  [id |-> <<id>>, circuit |-> circuit, ports |-> ports, overrides |-> overrides]
Parameter(unit, value, targets) == [unit |-> unit, value |-> value, targets |-> targets]
Target(kind, owner, parameter) ==
  [kind |-> kind, owner |-> <<owner>>, parameter |-> parameter]
Empty(id) == [NoCircuit EXCEPT !.nets = << >>] @@ [id |-> id]

Model(kinds) ==
  [id |-> <<"dev">>, parameters |-> [k |-> [unit |-> "V", value |-> 0]],
   pins |-> <<[pin |-> 1, kind |-> kinds[1], optional |-> FALSE],
              [pin |-> 2, kind |-> kinds[2], optional |-> TRUE]>>]
Part(id, first, second) ==
  [id |-> <<id>>, model |-> <<"dev">>,
   pins |-> <<[pin |-> 1, net |-> <<first>>], [pin |-> 2, net |-> <<second>>]>>,
   parameters |-> [r |-> [unit |-> "R", value |-> 0]]]

Leaf(kinds, ground) ==
  [Empty("L") EXCEPT
     !.nets = <<Net("p", FALSE), Net("q", ground)>>,
     !.ports = <<Port("P", "p", "Passive"),
                 [Port("Q", "q", "Passive") EXCEPT !.optional = TRUE]>>,
     !.models = <<Model(kinds)>>, !.parts = <<Part("part", "p", "q")>>,
     !.parameters = [v |-> Parameter("R", 1, {Target("Instance", "part", "r")}),
                     w |-> Parameter("V", 2, {Target("Model", "dev", "k")})]]

Mid(first, second, targets) ==
  [Empty("M") EXCEPT
     !.nets = <<Net("p", FALSE), Net("n", FALSE)>>,
     !.ports = <<Port("P", "p", "Passive")>>,
     !.subcircuits = <<Sub("A", "L", first, [v |-> 4]), Sub("B", "L", second, << >>)>>,
     !.parameters = [m |-> Parameter("R", 3, targets)]]

Root(ground, first, second, overrides) ==
  [Empty("T") EXCEPT
     !.nets = <<Net("x", FALSE), Net("y", FALSE), Net("g", ground)>>,
     !.ports = <<Port("VIN", "x", "PowerInput")>>,
     !.models = <<Model(<<"PowerInput", "Output">>)>>, !.parts = <<Part("load", "x", "y")>>,
     !.subcircuits = <<Sub("X", "M", first, overrides), Sub("Y", "L", second, << >>)>>]

Design(root, mid, leaf, nets, roles) ==
  [library |-> [root |-> "T", circuits |-> <<root, mid, leaf>>],
   intent |-> [nets |-> nets, roles |-> roles]]
Declared(circuit, net, kind, key) ==
  [circuit |-> circuit, net |-> <<net>>, kind |-> kind, key |-> key, class |-> "c"]

PlainMid == Mid(<<Bind("P", "p"), Bind("Q", "n")>>, <<Bind("P", "n")>>,
                {Target("Subcircuit", "A", "v")})
PlainRoot == Root(FALSE, <<Bind("P", "y")>>, <<Bind("P", "x")>>, << >>)
PlainLeaf == Leaf(<<"Passive", "Passive">>, FALSE)

Bindings == {<< >>, <<Bind("P", "p")>>, <<Bind("P", "n"), Bind("Q", "n")>>,
             <<Bind("P", "p"), Bind("Q", "n")>>, <<Bind("Q", "p")>>}
RootBindings == {<<Bind("P", "x")>>, <<Bind("P", "y")>>, <<Bind("P", "x"), Bind("Q", "g")>>}
Globals == {
  << >>,
  <<Declared("L", "q", "Generic", "x"), Declared("M", "n", "Generic", "z")>>,
  <<Declared("T", "x", "PowerSupply", "s"), Declared("L", "q", "PowerSupply", "s")>>,
  <<Declared("M", "n", "Generic", "s"), Declared("L", "q", "Generic", "s")>>,
  <<Declared("T", "x", "Generic", "s"), Declared("T", "y", "Generic", "s"),
    Declared("M", "n", "Generic", "s")>>,
  <<Declared("T", "y", "Ground", "k"), Declared("L", "q", "Ground", "s"),
    Declared("M", "n", "Ground", "s")>>}

\* How the nets of the scopes may be connected.
Connected ==
  {Design(Root(ground, <<Bind("P", "y")>>, last, << >>),
          Mid(first, second, {Target("Subcircuit", "A", "v")}),
          Leaf(<<"Output", "Input">>, grounded), nets, << >>) :
     ground, grounded \in BOOLEAN, first, second \in Bindings,
     last \in RootBindings, nets \in Globals}

\* Which definitions contain which: up to two instances in two of them and one
\* in the third, perhaps of a definition that does not exist.
Containing(id, children) ==
  [Empty(id) EXCEPT !.subcircuits =
     [i \in DOMAIN children |-> Sub(IF i = 1 THEN "A" ELSE "B", children[i], << >>, << >>)]]
Contents == UNION {[1..n -> {"T", "M", "L"}] : n \in 0..2} \cup {<<"Z">>}
Recursions ==
  {Design(Containing("T", top), Containing("M", middle), Containing("L", leaf), << >>, << >>) :
     top, middle \in Contents, leaf \in {c \in Contents : Len(c) <= 1}}

\* Values that are overridden, forwarded, or both, through two levels.
Forwarding ==
  {Design([Root(FALSE, <<Bind("P", "y")>>, <<Bind("P", "x")>>, overrides) EXCEPT
             !.parameters = [t |-> Parameter(unit, 6, targets)]],
          Mid(<<Bind("P", "p")>>, <<Bind("P", "n")>>, below), PlainLeaf, << >>, << >>) :
     overrides \in {<< >>, [m |-> 5], [none |-> 5]}, unit \in {"R", "V"},
     targets \in {{Target("Subcircuit", "X", "m")}, {Target("Instance", "load", "r")},
                  {Target("Subcircuit", "Y", "v")}, {Target("Subcircuit", "X", "gone")},
                  {Target("Subcircuit", "gone", "m")}, {}},
     below \in {{Target("Subcircuit", "A", "v"), Target("Subcircuit", "B", "v")},
                {Target("Subcircuit", "B", "v")}, {Target("Model", "dev", "k")}}}

\* Drivers and sources of supply nets, and regulators among the blocks.
Output(circuit, net) == [name |-> "vout", circuit |-> circuit, net |-> <<net>>]
Role(role, kind, circuit, id, bindings) ==
  [role |-> role, target |-> [kind |-> kind, circuit |-> circuit, id |-> id],
   bindings |-> bindings]
Input(circuit, net) == [name |-> "in", circuit |-> circuit, net |-> <<net>>]
Return(circuit, net) == [name |-> "gnd", circuit |-> circuit, net |-> <<net>>]
Sources ==
  {Design([PlainRoot EXCEPT !.ports = ports, !.subcircuits[1].ports = binding],
          Mid(<<Bind("P", "p"), Bind("Q", "n")>>, second, {Target("Subcircuit", "A", "v")}),
          Leaf(kinds, FALSE), nets, roles) :
     ports \in {<< >>, PlainRoot.ports, <<Port("GND", "g", "Ground")>>},
     binding \in {<<Bind("P", "x")>>, <<Bind("P", "y")>>},
     second \in {<<Bind("P", "p")>>, <<Bind("P", "n")>>},
     kinds \in {<<"PowerOutput", "PowerInput">>, <<"Passive", "Output">>,
                <<"NotConnected", "Input">>},
     nets \in {<<Declared("T", "x", "PowerSupply", NoKey),
                 Declared("M", "n", "PowerSupply", NoKey),
                 Declared("T", "g", "Ground", NoKey)>>,
               <<Declared("L", "p", "PowerSupply", NoKey)>>},
     roles \in {<< >>,
                <<Role("LdoRegulator", "Circuit", "T", << >>,
                       <<Input("T", "y"), Output("T", "x"), Return("T", "g")>>)>>,
                <<Role("LdoRegulator", "Circuit", "L", << >>, <<Output("L", "p")>>)>>,
                <<Role("BuckRegulator", "Circuit", "M", << >>,
                       <<Output("M", "n"), Input("M", "p")>>),
                  Role("PullupResistor", "Instance", "L", <<"part">>, << >>)>>}}

\* Libraries and intents that are refused.
Twice(circuit) == Append(<<PlainRoot, PlainMid, PlainLeaf>>, circuit)
Library(definitions) ==
  [library |-> [root |-> "T", circuits |-> definitions],
   intent |-> [nets |-> << >>, roles |-> << >>]]
With(root, leaf) == Library(<<root, PlainMid, leaf>>)
Refused ==
  {Library(Twice(PlainLeaf)), Library(<<PlainMid, PlainLeaf>>),
   With([PlainRoot EXCEPT !.subcircuits[2].ports = <<Bind("Z", "x")>>], PlainLeaf),
   With([PlainRoot EXCEPT !.subcircuits[2].ports =
           <<Bind("P", "x"), Bind("R", "y")>>],
        [PlainLeaf EXCEPT !.ports = Append(@, Port("R", "p", "Passive"))]),
   With(PlainRoot, [PlainLeaf EXCEPT !.types = [P |-> "Logic"]]),
   With([PlainRoot EXCEPT !.subcircuits[2].ports = <<Bind("P", "y")>>],
        [PlainLeaf EXCEPT !.types = [P |-> "Logic", Q |-> "Real"]]),
   With([PlainRoot EXCEPT !.rails = <<[net |-> <<"x">>, kind |-> "Ground"]>>], PlainLeaf),
   With([PlainRoot EXCEPT !.parts[1].pins[1].net = <<"z">>], PlainLeaf)}
\* Rails: a child's on a net of its own, and on one bound to its parent's.
Railed ==
  {With([PlainRoot EXCEPT !.rails = mine],
        [PlainLeaf EXCEPT !.rails = <<[net |-> <<net>>, kind |-> kind]>>,
                          !.nets[2].ground = (kind = "Ground")]) :
     mine \in {<< >>, <<[net |-> <<"x">>, kind |-> "Power"]>>},
     net \in {"p", "q"}, kind \in {"Power", "Bias", "Ground"}}

MCDesigns == Connected \cup Recursions \cup Forwarding \cup Sources \cup Refused \cup Railed
MCIdOrder == <<"L", "M", "T">>

-----------------------------------------------------------------------------
(* Modules                                                                 *)

Pad(pin, x, y) == [pin |-> pin, at |-> <<x, y>>, layers |-> {0}]
Placement(id, x, y, turns, back) ==
  [id |-> <<id>>, pattern |-> <<"two">>, at |-> <<x, y>>, turns |-> turns, back |-> back]
Line(x, y, u, v) == [from |-> <<x, y>>, to |-> <<u, v>>, centre |-> <<x, y>>, sense |-> "Line"]
\* A quarter circle to the left about a centre.
Arc(x, y, u, v, cx, cy) ==
  [from |-> <<x, y>>, to |-> <<u, v>>, centre |-> <<cx, cy>>, sense |-> "Ccw"]
Route(net, layer, segments) ==
  [id |-> <<"w">>, net |-> <<net>>, layer |-> layer, segments |-> segments]
Class(nets) == [id |-> <<"c">>, nets |-> nets]
Region(nets, directions) ==
  [id |-> <<"g">>, nets |-> nets, layers |-> {0}, directions |-> directions]
Tuning(net) == [id |-> <<"u">>, net |-> <<net>>, routes |-> {<<"w">>}, side |-> "Left"]
Copper(net) == [id |-> <<"v">>, kind |-> "Zone", nets |-> <<<<net>>>>, layers |-> Layers,
                outline |-> <<<<4, 1>>>>]
Patterns == <<[id |-> <<"two">>, pads |-> <<Pad(1, 1, 0), Pad(2, 0, 2)>>]>>

\* A part with a route from one of its pads: on its side, and turned to the
\* back with the route there.
LeafLayout == [NoLayout EXCEPT
  !.patterns = Patterns, !.placements = <<Placement("part", 1, 1, 0, FALSE)>>,
  !.routes = <<Route("p", 0, <<Line(2, 1, 3, 1), Arc(3, 1, 4, 2, 3, 2), Line(4, 2, 5, 3)>>)>>,
  !.copper = <<Copper("p")>>, !.classes = <<Class(<<<<"p">>>>)>>,
  !.regions = <<Region(<<<<"p">>, <<"q">>>>, {"Horizontal", "DiagonalRising"})>>,
  !.tunings = <<Tuning("p")>>]
LeafOnBack == [LeafLayout EXCEPT
  !.placements = <<Placement("part", 2, 2, 3, TRUE)>>,
  !.routes = <<Route("p", 1, <<Line(2, 3, 2, 4)>>)>>,
  !.classes = << >>, !.regions = <<Region(<<<<"p">>>>, {"Vertical", "Arbitrary"})>>]
MidLayout == [NoLayout EXCEPT !.classes = <<Class(<<<<"n">>>>)>>]
RootLayout == [NoLayout EXCEPT
  !.patterns = Patterns, !.placements = <<Placement("load", 0, 5, 1, FALSE)>>,
  !.classes = <<Class(<<<<"y">>>>)>>]

ModuleLeaf == [PlainLeaf EXCEPT !.ports = Append(@, [Port("R", "p", "Passive") EXCEPT
                                                       !.optional = TRUE])]
ModuleMid == [PlainMid EXCEPT !.subcircuits = << >>, !.parameters = << >>]
ModuleRoot == [PlainRoot EXCEPT !.subcircuits = << >>]

Holding(id, circuit, layout) == [id |-> id, circuit |-> circuit, layout |-> layout]
MCDrafts == {"top", "middle", "leaf"}
MCChecked ==
  [top |-> {Holding("t", ModuleRoot, RootLayout)},
   middle |-> {Holding("m", ModuleMid, MidLayout)},
   leaf |-> {Holding("l", ModuleLeaf, LeafLayout), Holding("l", ModuleLeaf, LeafOnBack)}]

Handles(parent, child, pairs) ==
  [i \in DOMAIN pairs |-> [port |-> [owner |-> child, id |-> pairs[i][1]],
                           net |-> [owner |-> parent, id |-> <<pairs[i][2]>>]]]
Transform(x, y, turns, back) == [at |-> <<x, y>>, turns |-> turns, back |-> back]
Turned90 == Transform(3, 0, 1, FALSE)
Flipped == Transform(0, 2, 0, TRUE)
FlippedAndTurned == Transform(1, 4, 3, TRUE)

Offer(parent, id, child, pairs, transform) ==
  [parent |-> parent, id |-> <<id>>, child |-> child,
   bindings |-> Handles(parent, child, pairs), transform |-> transform]
MCRoots == {"top"}
MCOffers ==
  {Offer("top", "A", "middle", <<<<"P", "x">>>>, FlippedAndTurned)}
  \cup {Offer("top", "B", "leaf", pairs, FlippedAndTurned) :
          pairs \in {<<<<"P", "x">>>>, <<<<"P", "y">>>>, <<<<"P", "x">>, <<"Q", "x">>>>,
                     <<<<"P", "x">>, <<"R", "y">>>>}}
  \cup {Offer("top", "C", "leaf", <<<<"P", "g">>>>, Flipped)}
  \cup {Offer("middle", "A", "leaf", <<<<"P", "p">>>>, t) : t \in {Turned90, Flipped}}
  \cup {Offer("middle", "B", "leaf", pairs, Flipped) :
          pairs \in {<<<<"P", "n">>, <<"Q", "p">>, <<"R", "n">>>>, << >>}}
  \cup {Offer("middle", "B", "middle", <<<<"P", "n">>>>, Turned90),
        [Offer("middle", "B", "leaf", <<<<"P", "n">>>>, Flipped) EXCEPT
           !.bindings = Handles("top", "leaf", <<<<"P", "x">>>>)]}

\* Assemblies written by hand.
Module(circuit, layout, groups) ==
  [id |-> "l", circuit |-> circuit, layout |-> layout, groups |-> groups]
Group(instances) == [id |-> <<"h">>, instances |-> instances,
                     transform |-> Transform(5, 5, 1, TRUE)]
Under1(path, module, transform) == [path |-> path, module |-> module, transform |-> transform]
Assembly(modules, instances) ==
  [assembly |-> [board |-> RootLayout, modules |-> modules, instances |-> instances],
   library |-> [root |-> "T", circuits |-> <<PlainRoot, PlainMid, PlainLeaf>>]]
LeafModules == <<Module("L", LeafLayout, << >>)>>
Placing(modules, paths, module, transform) ==
  Assembly(modules, [i \in DOMAIN paths |-> Under1(paths[i], module, transform)])
MCAssemblies ==
  {Placing(modules, paths, "l", t) :
     modules \in {LeafModules,
                  <<Module("L", LeafLayout, <<Group(<<<<"part">>>>)>>)>>,
                  <<Module("L", LeafLayout, <<Group(<<<<"part">>, <<"part">>>>)>>)>>,
                  <<Module("L", LeafOnBack, << >>), Module("L", LeafLayout, << >>)>>,
                  <<Module("M", MidLayout, << >>)>>, <<Module("M", LeafLayout, << >>)>>},
     paths \in {<<<<<<"Y">>>>>>, <<<<<<"Y">>>>, <<<<"X">>, <<"A">>>>>>, <<<<<<"X">>>>>>},
     t \in {Turned90, FlippedAndTurned}}
  \cup {Placing(LeafModules, <<<<<<"Y">>>>, <<<<"Y">>>>>>, "l", Flipped),
        [Placing(LeafModules, <<<<<<"Y">>>>>>, "l", Flipped) EXCEPT
           !.library.circuits = <<PlainRoot, PlainLeaf>>],
        Placing(LeafModules, <<<<<<"Z">>>>>>, "l", Flipped),
        Placing(LeafModules, <<<<<<"Y">>>>>>, "k", Flipped)}

-----------------------------------------------------------------------------
(* Requests to a tool, and what it answers.                                *)

MCIdentity == [name |-> "tool", format |-> "odb"]
OtherIdentity == [name |-> "rival", format |-> "odb"]
OtherFormat == [name |-> "tool", format |-> "ipc"]

File(path, content) == [path |-> path, content |-> content]
Good == NewPackage(MCIdentity, "release",
                   <<File(2, "board"), File(1, "drill")>>)

\* Packages that differ from a good one in one respect each.
Faulty == {
  [Good EXCEPT !.version = "older"],
  [Good EXCEPT !.format = "ipc"],
  [Good EXCEPT !.descriptors = Append(@, File(1, "drill"))],
  [Good EXCEPT !.descriptors = Append(@, File(3, "mask"))],
  [Good EXCEPT !.files[1] = "board"],
  [Good EXCEPT !.descriptors = <<File(1, "drill")>>],
  [Good EXCEPT !.source = "draft"],
  NewPackage(OtherIdentity, "release", <<File(1, "drill")>>),
  NewPackage(OtherFormat, "release", <<File(1, "drill")>>)}

Ask(version, format, source) ==
  [version |-> version, format |-> format, source |-> source]

MCRequests == {Ask("current", "odb", Good), Ask("older", "odb", Good),
               Ask("current", "ipc", Good),
               Ask("current", "odb", [Good EXCEPT !.files[1] = "board"])}

MCOutputs == [parses : {FALSE, TRUE}, package : {Good}]
             \cup [parses : {TRUE}, package : Faulty]

-----------------------------------------------------------------------------
\* One call of the library is under way.
NoDesign == [library |-> [root |-> "T", circuits |-> << >>],
             intent |-> [nets |-> << >>, roles |-> << >>]]
NoElaboration ==
  /\ design = NoDesign /\ status = "unused"
  /\ issues = {} /\ cycles = {} /\ finished = {} /\ pending = {} /\ active = << >>
  /\ flat = NoCircuit /\ globals = << >> /\ scopes = << >> /\ frames = << >>
  /\ findings = NoFindings
NoProject ==
  /\ drafts = << >> /\ compiled = Nobody /\ calls = 0 /\ composing = "unused"
  /\ assembly = NoAssembly /\ board = NoLayout /\ placed = 0

NoRequest == [version |-> "none"]
NoExchange == caller = "returned" /\ NothingStarted /\ request = NoRequest
NoInspection == NothingRead /\ verdict = "idle"

MCInit ==
  \/ Init /\ NoProject /\ NoExchange /\ NoInspection
  \/ NoElaboration /\ ProjectInit /\ NoExchange /\ NoInspection
  \/ NoElaboration /\ NoProject /\ ExchangeInit /\ NoInspection
  \/ NoElaboration /\ NoProject /\ NoExchange /\ InspectionInit

\* What was asked of a tool or of the inspection has been returned.
Answered == /\ request # NoRequest \/ verdict # "idle"
            /\ caller = "returned" /\ verdict # "reading"

MCNext ==
  \/ /\ composing = "unused" /\ status # "unused" /\ Next
     /\ UNCHANGED <<projectVars, compositionVars, exchangeVars, inspectionVars>>
  \/ composing # "unused" /\ ProjectNext /\ UNCHANGED <<exchangeVars, inspectionVars>>
  \/ ExchangeNext /\ UNCHANGED <<vars, projectVars, compositionVars, inspectionVars>>
  \/ InspectionNext /\ UNCHANGED <<vars, projectVars, compositionVars, exchangeVars>>
  \/ /\ Answered
     /\ UNCHANGED <<vars, projectVars, compositionVars, exchangeVars, inspectionVars>>

MCSpec ==
  /\ MCInit
  /\ [][MCNext]_<<vars, projectVars, compositionVars, exchangeVars, inspectionVars>>
  /\ ExchangeFairness
==============================================================================
