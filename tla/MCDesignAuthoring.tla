-------------------------- MODULE MCDesignAuthoring --------------------------
(***************************************************************************)
(* Programs for DesignAuthoring: each is a set of calls that get in each   *)
(* other's way, and every order and every part of it is a program.  Beside *)
(* it the copper of finished boards is laid: one of the two is under way.  *)
(***************************************************************************)
EXTENDS DesignAuthoring, MCCopperPour

Net(at, id) == [call |-> "Net", at |-> at, id |-> id, ground |-> FALSE, rail |-> "None"]
Rail(at, id, kind) == [Net(at, id) EXCEPT !.rail = kind]
Ground(at, id) == [Net(at, id) EXCEPT !.ground = TRUE, !.rail = "Ground"]

Pin(pin) == [pin |-> pin, optional |-> FALSE, pads |-> << >>]
Optional(pin) == [Pin(pin) EXCEPT !.optional = TRUE]
OnPads(pin, pads) == [Pin(pin) EXCEPT !.pads = pads]
Unit(number, pins) == [unit |-> number, pins |-> pins]
Part(pins, units, pads) == [pins |-> pins, units |-> units, pads |-> pads, source |-> FALSE]
Source(part) == [part EXCEPT !.source = TRUE]

Define(at, name, part) == [call |-> "Define", at |-> at, name |-> name, part |-> part]
Import(at, name, part) == [Define(at, name, part) EXCEPT !.call = "Import"]
New(at, ref, of, units, placed) ==
  [call |-> "Instantiate", at |-> at, ref |-> ref, of |-> of, units |-> units,
   placed |-> placed, wave |-> NoWave]
Added(at, ref, part, placed, wave) ==
  [call |-> "Add", at |-> at, ref |-> ref, part |-> part, placed |-> placed, wave |-> wave]
Wave(at, ref, wave) == [call |-> "Stimulus", at |-> at, ref |-> ref, wave |-> wave]
To(at, net, pins) == [call |-> "Connect", at |-> at, net |-> net, pins |-> pins]
P(part, pin) == [part |-> part, pin |-> pin]
Board(at, call, entry) == [call |-> call, at |-> at, entry |-> entry]

-----------------------------------------------------------------------------
(* Wiring: two units that share a pin, an instance and a pin drawn nowhere *)
(* and parts connected over several calls that overlap.                    *)
TwoPins == Part(<<Pin("1"), Optional("2")>>, <<Unit(1, <<"1", "2">>)>>, NoFootprint)
OnePin == Part(<<Optional("2"), Pin("1")>>, <<Unit(1, <<"1">>)>>, NoFootprint)
Dual == Part(<<Pin("a"), Pin("b"), Optional("c")>>,
             <<Unit(1, <<"a", "b">>), Unit(2, <<"b", "c">>)>>, NoFootprint)
Wiring ==
  {Net(1, "A"), Net(2, "B"), Added(3, "R", TwoPins, FALSE, NoWave), Define(4, "Dual", Dual),
   Added(5, "T", OnePin, FALSE, NoWave),
   New(6, "U", "Dual", <<2, 1>>, FALSE), New(7, "V", "Dual", << >>, FALSE),
   To(8, "A", <<P("V", "a"), P("U", "a")>>), To(9, "A", <<P("R", "1"), P("U", "b")>>),
   To(10, "B", <<P("U", "c"), P("U", "b")>>), To(11, "A", <<P("T", "2"), P("R", "2"), P("T", "1"), P("U", "c")>>)}

(* A definition and an added part of one name, and imports of it.          *)
Placed == Part(<<Pin("1"), OnPads("2", <<"p">>), Pin("3")>>, << >>, <<"1", "p", "3">>)
Driver == Source(Part(<<Pin("1"), OnPads("2", <<"x", "x">>), Pin("4")>>,
                      <<Unit(1, <<"1", "2", "4">>)>>, <<"1", "x", "4">>))
Exported == [Driver EXCEPT !.pins = <<Pin("1"), OnPads("4", <<"x">>)>>,
                           !.units = <<Unit(1, <<"4", "1">>)>>]
Named ==
  {Net(1, "A"), Define(2, "R", Placed), Added(3, "R", Driver, TRUE, "Unsound"),
   Import(4, "R", Exported), Import(5, "Q", Driver), Import(6, "Q", Exported),
   Added(7, "Q", Driver, TRUE, NoWave), New(8, "X", "R", << >>, TRUE),
   New(9, "Y", "Q", <<1>>, TRUE),
   To(10, "A", <<P("R", "1"), P("X", "3")>>), To(11, "A", <<P("R", "4"), P("X", "1")>>),
   To(12, "A", <<P("Y", "4"), P("Q", "2")>>), To(13, "A", <<P("Y", "1"), P("X", "2")>>)}

(* The definition has no footprint of its own.                             *)
HalfNamed ==
  {Net(1, "A"), Define(2, "R", TwoPins), Added(3, "R", Driver, TRUE, "Sound"),
   New(4, "X", "R", <<1>>, FALSE), To(5, "A", <<P("R", "1"), P("X", "2")>>),
   To(6, "A", <<P("R", "4"), P("X", "1")>>)}

(* Net classes, via styles, copper.                                        *)
Class(at, id, nets, parent, style) ==
  Board(at, "NetClass", [id |-> id, nets |-> nets, parent |-> parent, style |-> style])
Line(from, to) == [from |-> from, to |-> to]
Track(at, id, net, layer, segments) ==
  Board(at, "Route", [id |-> id, net |-> net, layer |-> layer, segments |-> segments])
Copper(at, call, id, nets, layers) ==
  Board(at, call, [id |-> id, kind |-> call, nets |-> nets, layers |-> layers])
Classes ==
  {Net(1, "A"), Net(2, "B"), Class(3, "wide", <<"A">>, NoName, NoName),
   Class(4, "thin", <<"B", "A">>, NoName, NoName), Class(5, "thin", <<"B">>, "wide", "micro"),
   Board(6, "ViaStyle", [id |-> "micro", spans |-> {<<0, 1>>}]),
   Board(7, "ViaStyle", [id |-> "buried", spans |-> {<<1, 2>>}]),
   Copper(8, "Via", "v", <<"A">>, {0, 1}), Copper(9, "Zone", "z", <<"B">>, {2}),
   Copper(10, "Keepout", "k", << >>, {1}), Net(11, "C"),
   Class(12, "fine", <<"C">>, "thin", "micro"), Class(13, "all", <<"C", "A", "B">>, NoName, NoName),
   Copper(14, "Zone", "v", <<"C">>, {0})}

(* Routes, pairs, tunings and phase groups.                                *)
Tuning(at, id, net, routes) ==
  Board(at, "LengthTuningPattern", [id |-> id, net |-> net, routes |-> routes])
Group(at, id, tunings, pair) ==
  Board(at, "PhaseTuningGroup", [id |-> id, tunings |-> tunings, pair |-> pair])
Pair(at, id, positive, negative) ==
  Board(at, "DifferentialPair", [id |-> id, positive |-> positive, negative |-> negative])
Tunings ==
  {Net(1, "A"), Net(2, "B"), Track(3, "r", "A", 0, <<Line(0, 1), Line(1, 3)>>),
   Track(4, "s", "B", 0, <<Line(0, 1), Line(2, 3)>>), Track(5, "s", "B", 1, <<Line(2, 3)>>),
   Pair(6, "d", "A", "B"), Pair(7, "e", "A", "A"), Tuning(8, "t", "A", {"r"}),
   Tuning(9, "u", "B", {"s"}), Group(10, "g", <<"t", "u">>, "d"), Group(11, "h", <<"t">>, NoName)}

(* Placement constraints on parts that come, and are connected, in any     *)
(* order.                                                                  *)
Bound(at, id, kind, parts, anchors) ==
  Board(at, "PlacementConstraint", [id |-> id, kind |-> kind, parts |-> parts,
                                    anchors |-> anchors])
Anchor(is, part, at) == [is |-> is, part |-> part, at |-> at]
Chip == Part(<<Pin("1"), Optional("2")>>, << >>, <<"1">>)
Constraints ==
  {Net(1, "A"), Define(2, "chip", Chip), New(3, "U", "chip", << >>, TRUE),
   New(4, "V", "chip", << >>, TRUE), To(5, "A", <<P("U", "1"), P("V", "1")>>),
   Bound(6, "k", "Fixed", <<"U">>, << >>), Bound(7, "l", "Relative", <<"U", "V">>, << >>),
   Bound(8, "m", "Align", <<"U", "V">>, << >>),
   Bound(9, "n", "Distance", <<"U", "V">>, <<Anchor("Pin", "U", "1"), Anchor("Pad", "V", "1")>>),
   To(10, "A", <<P("V", "2")>>), New(11, "W", "chip", << >>, TRUE),
   Bound(12, "o", "Relative", <<"V", "V">>, << >>), Bound(13, "p", "Fixed", <<"W">>, << >>),
   Bound(14, "q", "Distance", <<"V", "W">>, <<Anchor("Pin", "V", "2"), Anchor("Pad", "W", "2")>>)}

(* Grounds, rails, buses, ports and waveforms.                             *)
PortOn(at, id, net, type) ==
  [call |-> "Port", at |-> at, id |-> id, net |-> net, type |-> type]
Supplies ==
  {Ground(1, "G"), Ground(2, "H"), Rail(3, "V", "Ground"), Rail(4, "V", "Power"),
   PortOn(5, "p", "V", "Real"), PortOn(6, "q", "V", "Logic"),
   [call |-> "Bus", at |-> 7, id |-> "b", nets |-> <<"V", "G">>],
   [call |-> "BusSlice", at |-> 8, id |-> "c", bus |-> "b", offset |-> 1, width |-> 1],
   [call |-> "BusSlice", at |-> 9, id |-> "d", bus |-> "b", offset |-> 1, width |-> 2],
   Added(10, "S", Source(TwoPins), FALSE, NoWave), Wave(11, "S", "Unsound"),
   To(12, "V", <<P("S", "1")>>)}

MCPrograms == {Wiring, Named, HalfNamed, Classes, Tunings, Constraints, Supplies}

-----------------------------------------------------------------------------
(* The part that is not under way.                                         *)
NoProgram ==
  /\ circuit = EmptyCircuit /\ schematic = NoSchematic /\ layout = EmptyBoard
  /\ traces = {} /\ made = {} /\ program = {} /\ outcome = "unused"

MCInit == \/ Init /\ NoPour
          \/ NoProgram /\ PourInit

MCNext ==
  \/ outcome # "unused" /\ Next /\ UNCHANGED pourVars
  \/ outcome = "unused" /\ PourNextStep /\ UNCHANGED vars

MCSpec == MCInit /\ [][MCNext]_<<vars, pourVars>>
=============================================================================
