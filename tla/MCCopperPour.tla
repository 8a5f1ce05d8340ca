---------------------------- MODULE MCCopperPour ----------------------------
(* Bounds for model-checking CopperPour: boards of twelve by twelve and two *)
(* layers, with zones of every fill, connection and island policy beside,   *)
(* over and under each other, and copper of their own and of other nets.    *)
EXTENDS CopperPour

At(x, y, w, h) == [low |-> <<x, y>>, high |-> <<x + w, y + h>>]
Area(x, y, w, h, cut) == [outline |-> At(x, y, w, h), cutouts |-> cut]
Everywhere == Area(0, 0, 12, 12, {})

Solid == [kind |-> "Solid"]
Isolated == [kind |-> "Isolated"]
Thermal(count) == [kind |-> "Relief", gap |-> 1, width |-> 1, count |-> count]
Hatched(turn) == [kind |-> "Hatched", width |-> 1, gap |-> 1, turn |-> turn]
KeepAll == [remove |-> FALSE, minimum |-> << >>]
DropLoose == [remove |-> TRUE, minimum |-> << >>]
DropSmall == [remove |-> TRUE, minimum |-> <<20>>]
Grid(edge, limit) ==
  <<[pitch |-> 4, land |-> 1, drill |-> 1, edge |-> edge, first |-> 0, last |-> 1, limit |-> limit]>>

PourZone(id, net, layer, boundary) ==
  [id |-> id, net |-> net, layer |-> layer, boundary |-> boundary, clearance |-> 1, fill |-> Solid,
   connection |-> Solid, islands |-> KeepAll, stitching |-> << >>, priority |-> 0]

Keep(x, y, w, h, scope) == [box |-> At(x, y, w, h), scope |-> scope, layers |-> {0}]
Hole(id, net, x, y) ==
  [id |-> <<0, 0, id>>, net |-> net, first |-> 0, last |-> 1, at |-> <<x, y>>, land |-> 1, drill |-> 1]
Lane(net, layer, lines) == [net |-> net, layer |-> layer, lines |-> lines, half |-> 1]
Component(x, y, turn, side) ==
  [place |-> [at |-> <<x, y>>, turn |-> turn, side |-> side],
   pads |-> <<[at |-> <<0, 0>>, half |-> <<1, 1>>, layers |-> {0}, net |-> "a"],
              [at |-> <<3, 0>>, half |-> <<1, 1>>, layers |-> {0, 1}, net |-> "b"]>>,
   artwork |-> <<[box |-> At(1, 2, 2, 1), layer |-> 0]>>]

FilledBoard(zones, items, routes, vias, keepouts, cutouts) ==
  [outline |-> At(0, 0, 12, 12), cutouts |-> cutouts, lastLayer |-> 1, items |-> items,
   routes |-> routes, vias |-> vias, keepouts |-> keepouts, zones |-> zones]

Across == At(0, 6, 12, 0)
Bent == <<At(3, 3, 5, 0), At(8, 3, 0, 6)>>

(* Two zones on one layer, one over the other, the same net or not.        *)
Overlaps ==
  {FilledBoard(<<[PourZone(1, "a", 0, Everywhere) EXCEPT !.connection = c, !.islands = i, !.fill = f],
           [PourZone(2, net, 0, Area(2, 2, 6, 8, {})) EXCEPT !.priority = p, !.islands = i]>>,
         items, <<Lane("b", 0, <<Across>>)>>, <<Hole(1, "a", 9, 9)>>, << >>, {}) :
     c \in {Solid, Thermal(4), Isolated}, i \in {KeepAll, DropLoose}, f \in {Solid, Hatched(1)},
     net \in {"a", "b"}, p \in {0, 1}, items \in {<< >>, <<Component(4, 3, 0, "Front")>>}}

(* Stitched zones on both layers, one with a notch in its side.            *)
StitchedBoards ==
  {FilledBoard(<<[PourZone(1, "a", 0, Area(0, 0, 12, 12, n)) EXCEPT !.stitching = Grid(e, m)],
           [PourZone(2, "b", 1, Area(1, 1, 10, 10, {})) EXCEPT !.stitching = Grid(1, 9),
              !.clearance = 2, !.islands = DropSmall]>>,
         << >>, << >>, v, k, c) :
     n \in {{}, {At(0, 4, 3, 4)}}, e \in {0, 1}, m \in {2, 9},
     v \in {<< >>, <<Hole(1, "b", 6, 2)>>, <<[Hole(1, "c", 11, 11) EXCEPT !.id = <<1, 1, 1>>]>>},
     k \in {<< >>, <<Keep(8, 8, 2, 2, "Vias"), Keep(0, 10, 2, 2, "All"), Keep(4, 0, 2, 2, "Copper")>>},
     c \in {{}, {At(5, 5, 2, 2)}}}

(* A zone of two layers' pads, on either side, relieved in two ways, with a *)
(* zone of the same net on the other layer.                                *)
Relieved ==
  {FilledBoard(<<[PourZone(2, "a", l, Area(0, 0, 10, 12, {At(8, 4, 2, 4)})) EXCEPT
              !.connection = Thermal(count), !.islands = DropLoose, !.fill = f],
           [PourZone(1, "a", 1 - l, Everywhere) EXCEPT !.islands = i, !.connection = Isolated]>>,
         <<Component(4, 4, t, s)>>, <<Lane("b", l, Bent)>>, << >>, <<Keep(0, 4, 12, 1, "Copper")>>,
         {At(10, 0, 2, 2)}) :
     l \in {0, 1}, count \in {2, 4}, f \in {Solid, Hatched(0)}, i \in {DropLoose, DropSmall},
     t \in {0, 1}, s \in {"Front", "Back"}}

Refused ==
  {FilledBoard(<<PourZone(1, "a", 2, Everywhere)>>, << >>, << >>, << >>, << >>, {}),
   FilledBoard(<<[PourZone(1, "a", 0, Everywhere) EXCEPT !.stitching = Grid(2, 9)]>>,
         << >>, << >>, << >>, << >>, {})}

MCPourBoards == Overlaps \cup StitchedBoards \cup Relieved \cup Refused

\* No pour is under way.
NoBoard == CHOOSE b \in Refused : TRUE
NoPour ==
  /\ board = NoBoard /\ step = "unused" /\ zone = 1 /\ stitched = << >>
  /\ evidence = [z \in Zones |-> NothingTried] /\ toPour = {} /\ copper = {}
=============================================================================
