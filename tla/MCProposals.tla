----------------------------- MODULE MCProposals -----------------------------
(* The tools that answer with a proposal for a layout, one of them at work: *)
(* the router, the placement solver and the phase tuner.                   *)
EXTENDS NegotiatedRouter, PlacementSolver, PhaseTuning

-----------------------------------------------------------------------------
(* Boards of three by three lines at most: two nets that cross, a net with *)
(* three terminals, differential pairs with and without a common offset,   *)
(* and adaptive calls on boards whose coarse grid is blocked.              *)


Terminal(x, y, layers) == [at |-> <<x, y>>, layers |-> layers]
Points(xs, ys, layers) == [x : xs, y : ys, layer : layers]

MCPolicy ==
  [nets |-> {}, topology |-> "Manhattan", presentPenalty |-> 3,
   viaPenalty |-> 2, bendPenalty |-> 1, historyIncrement |-> 2,
   maximumIterations |-> 3, maximumExpansions |-> 60, adaptive |-> FALSE,
   multiplier |-> 2, padding |-> 1, maximumRegions |-> 2,
   maximumRounds |-> 2]

MCProblem(width, height, layers, terminals) ==
  [board |-> [width |-> width, height |-> height, layers |-> layers],
   terminals |-> terminals, pairs |-> {}, rules |-> {},
   fixed |-> [n \in DOMAIN terminals |-> {}],
   spans |-> [n \in DOMAIN terminals |-> {}],
   policy |-> MCPolicy]

On(x, y) == Terminal(x, y, {1})
Through(x, y) == Terminal(x, y, {1, 2})

Crossing == <<<<On(0, 0), On(2, 2)>>, <<On(0, 2), On(2, 0)>>>>
Plus == <<<<On(0, 1), Through(2, 1)>>, <<Through(1, 0), On(1, 2)>>>>
Tee == <<<<On(0, 0), On(2, 0), On(1, 2)>>, <<On(0, 1), Through(2, 1)>>>>
Parallel == <<<<On(0, 1), On(2, 1)>>, <<On(0, 0), Through(2, 2)>>>>
Three == <<<<On(0, 0), On(2, 0)>>, <<On(0, 1), On(2, 1)>>,
           <<On(1, 0), Through(1, 2)>>>>

\* The search, passes and their penalties.
Plain ==
  {[MCProblem(2, 2, layers, terminals) EXCEPT
      !.policy.topology = topology, !.policy.historyIncrement = increment,
      !.policy.maximumExpansions = expansions] :
     layers \in {1, 2}, terminals \in {Crossing, Plus, Tee, Parallel, Three},
     topology \in {"Manhattan", "Octilinear"}, increment \in {2, 40},
     expansions \in {10, 60}}

\* Fixed copper, rules and via spans.
Band == [nets |-> {1}, area |-> Points({0, 1, 2}, {1}, {1}), layers |-> {1},
         directions |-> {"Horizontal"}, vias |-> FALSE]
Ruled ==
  {[MCProblem(2, 2, 2, terminals) EXCEPT
      !.fixed[1] = copper, !.rules = rules, !.spans[2] = spans] :
     terminals \in {Crossing, Plus}, copper \in {{}, Points({1}, {1}, {1, 2})},
     rules \in {{}, {Band}, {[Band EXCEPT !.nets = {}, !.vias = TRUE]}},
     spans \in {{}, {{1, 3}}}}

Pair(positive, negative, offsets) ==
  [id |-> positive, positive |-> positive, negative |-> negative,
   offsets |-> offsets]
PairTerminals == {
  <<<<On(0, 0), Through(2, 0)>>, <<On(0, 1), Through(2, 1)>>>>,
  <<<<On(0, 0), On(1, 1)>>, <<On(1, 2), On(0, 1)>>, <<On(2, 0), On(2, 2)>>>>,
  <<<<On(0, 0), Through(1, 1)>>, <<On(1, 0), Through(2, 1)>>,
    <<On(0, 1), Through(2, 2)>>>>,
  <<<<On(0, 0), On(1, 1)>>, <<On(1, 0), On(2, 2)>>>>}
Paired ==
  {[MCProblem(2, 2, layers, terminals) EXCEPT
      !.pairs = pairs, !.policy.nets = nets, !.policy.topology = topology] :
     layers \in {1, 2}, terminals \in PairTerminals,
     topology \in {"Manhattan", "Octilinear"}, nets \in {{}, {1}, {1, 2}},
     pairs \in {{Pair(1, 2, {<<0, 1>>, <<1, 0>>})}, {Pair(1, 2, {})},
                {Pair(1, 2, {<<0, 1>>}), Pair(2, 1, {<<0, -1>>})}}}
  \cup {[MCProblem(2, 2, 1, <<<<On(0, 0)>>, <<On(1, 1), On(2, 1)>>>>) EXCEPT
           !.policy.nets = {1, 2}]}

\* The coarse grid has lines 0, 2 and 4; copper between them blocks it.
Adaptive ==
  {[MCProblem(4, 4, 1, terminals) EXCEPT
      !.fixed[1] = copper, !.policy.adaptive = TRUE,
      !.policy.maximumIterations = 2, !.policy.topology = topology,
      !.policy.maximumRegions = most] :
     terminals \in {<<<<On(0, 2), On(4, 2)>>, <<On(0, 0), On(4, 0)>>>>,
                    <<<<On(0, 2), On(4, 2)>>, <<On(2, 0), On(2, 4)>>>>,
                    <<<<On(0, 0), On(1, 3)>>, <<On(0, 4), On(4, 4)>>>>},
     copper \in {{}, Points({1}, {0, 2, 4}, {1}),
                 Points({1}, {1, 2, 3, 4}, {1})},
     topology \in {"Manhattan", "Octilinear"}, most \in {1, 2}}

\* A pair on coarse lines, one beside them, and a net that must be refined; a
\* pair whose nets cross where only the positive has a node.
AdaptivePairs ==
  {[MCProblem(8, 4, 1, <<<<On(x, 0), On(x, 4)>>, <<On(x + 2, 0), On(x + 2, 4)>>,
                         <<On(6, 0), On(8, 0)>>>>)
      EXCEPT !.fixed[3] = Points({7}, {0, 2, 4}, {1}),
             !.policy.adaptive = TRUE, !.policy.maximumIterations = 1,
             !.pairs = {Pair(1, 2, {<<2, 0>>})}] : x \in {0, 1}}
  \cup {[MCProblem(8, 8, 1, <<<<On(0, 0), On(3, 4)>>, <<On(2, 2), On(5, 6)>>>>)
           EXCEPT !.policy.adaptive = TRUE,
                  !.pairs = {Pair(1, 2, {<<2, 2>>})}]}
  \cup {[MCProblem(4, 4, 1, <<<<On(0, 0), On(4, 0)>>, <<On(0, 2), On(4, 2)>>>>)
           EXCEPT !.fixed[1] = Points({2, 3}, {0}, {1}),
                  !.policy.adaptive = TRUE, !.policy.maximumIterations = 1,
                  !.pairs = {Pair(1, 2, {<<0, 2>>})}]}

\* A net that fails beside one whose terminals lie off the coarse lines.
AdaptiveOffGrid ==
  {[MCProblem(4, 4, 1, <<<<On(0, 0), On(2, 0)>>, <<On(3, 3), On(4, 4)>>>>)
      EXCEPT !.fixed[1] = Points({1}, 0..4, {1}), !.policy.adaptive = TRUE,
             !.policy.maximumIterations = 1, !.policy.maximumRegions = most,
             !.policy.maximumRounds = rounds] :
     most \in {1, 2}, rounds \in {0, 1, 2}}

\* Three failed nets, the last region of which joins the first two.
ChainOfRegions ==
  [MCProblem(8, 8, 1, <<<<On(0, 0), On(8, 0)>>, <<On(0, 4), On(2, 4)>>,
                        <<On(8, 2), On(8, 6)>>>>)
     EXCEPT !.fixed[1] = Points({1}, 0..8, {1}),
            !.fixed[2] = Points({1}, 0..8, {1}),
            !.fixed[3] = Points(0..8, {3}, {1}), !.policy.adaptive = TRUE,
            !.policy.maximumIterations = 1, !.policy.maximumRounds = 1]

\* A grid with more lines than a search may expand states.
TooFine == [MCProblem(4, 4, 1, <<<<On(0, 0), On(4, 0)>>>>)
              EXCEPT !.policy.maximumExpansions = 4]

\* Nets 1 and 2 need two regions, between which a fine edge of net 4 crosses
\* a coarse edge of net 3 where the grid has no node.
Beside(y) == Points({1}, {y}, {1, 2}) \cup Points({0, 2}, {2}, {1, 2})
CrossedBetween ==
  [MCProblem(4, 4, 2, <<<<On(0, 0), On(2, 0)>>, <<On(0, 4), On(2, 4)>>,
                        <<On(2, 2), On(4, 2)>>,
                        <<Through(3, 0), Through(3, 4)>>>>)
     EXCEPT !.fixed[1] = Beside(0), !.fixed[2] = Beside(4),
            !.policy.topology = "Octilinear", !.policy.adaptive = TRUE]

MCProblems == Plain \cup Ruled \cup Paired \cup Adaptive \cup AdaptivePairs
              \cup AdaptiveOffGrid
              \cup {TooFine, ChainOfRegions, CrossedBetween}

-----------------------------------------------------------------------------
(* Three components on a board of ten units: one of two pads, off its      *)
(* origin, and two of one pad, at places that collide, leave the board or  *)
(* may be kept, under each kind of constraint and several policies.        *)

Box(x, y, w, h) == [low |-> <<x, y>>, high |-> <<x + w, y + h>>]
Put(x, y) == [at |-> <<x, y>>, turn |-> 0, side |-> "Front"]
Back(place) == [place EXCEPT !.side = "Back"]
Rotated(place, turn) == [place EXCEPT !.turn = turn]
Pad(x, y) == [at |-> <<x, y>>, half |-> <<1, 1>>, layers |-> {0}]

\* A body two by four off its origin, with a pad at either end.
Body == {<<-1, -1>>, <<1, -1>>, <<1, 3>>, <<-1, 3>>}
Item(place, nets) ==
  [courtyard |-> {}, stroke |-> 0, body |-> Body,
   pads |-> (1 :> Pad(0, 0)) @@ (2 :> Pad(0, 2)), nets |-> nets, place |-> place]
Small(place, net) ==
  [courtyard |-> {Box(-1, -1, 2, 2)}, stroke |-> 0, body |-> {}, pads |-> (1 :> Pad(0, 0)),
   nets |-> (1 :> net), place |-> place]
Bare(place) == [Small(place, "a") EXCEPT !.courtyard = {}, !.pads = << >>, !.nets = << >>]
Two(a, b) == (1 :> a) @@ (2 :> b)

Repair == [pitch |-> 2, clearance |-> 1, limit |-> 100, optimize |-> FALSE,
           congestion |-> FALSE, density |-> 0, access |-> << >>]
Improve == [Repair EXCEPT !.optimize = TRUE, !.pitch = 3]
Probe == [distance |-> 2, halfWidth |-> 1, clearance |-> 0]

Layout(its, cons, pol) ==
  [outline |-> Box(0, 0, 10, 10), cutouts |-> {}, keepouts |-> {}, copper |-> {}, lastLayer |-> 1,
   items |-> its, constraints |-> cons, policy |-> pol]

Spots == {Put(2, 2), Put(3, 2), Put(6, 3), Back(Put(3, 3)), Rotated(Put(5, 5), 1)}
Pairs == {<<Item(a, Two("a", "b")), Small(b, "b"), Small(c, "a")>> :
            a \in Spots, b \in {Put(3, 3), Put(7, 7)}, c \in {Put(3, 5), Back(Put(8, 2))}}

Fixed(i, x, y) == [kind |-> "Fixed", of |-> i, at |-> <<x, y>>]
Relative(i, anchor, dx, dy) == [kind |-> "Relative", of |-> i, anchor |-> anchor, offset |-> <<dx, dy>>]
Align(kind, its) == [kind |-> kind, items |-> its]
Inside(i, x, y, w, h) == [kind |-> "Within", of |-> i, min |-> <<x, y>>, max |-> <<x + w, y + h>>]
Anchor(i, pads) == [of |-> i, pads |-> pads]
Near(s, a, m) == [kind |-> "WithinDistance", subject |-> s, anchor |-> a, maximum |-> m]
Turns(i, turns) == [kind |-> "AllowedRotations", of |-> i, turns |-> turns]
OnSides(i, sides) == [kind |-> "AllowedSides", of |-> i, sides |-> sides]

Rules == {<< >>, <<Fixed(1, 4, 4), Relative(2, 1, 3, 0)>>, <<Relative(2, 3, 0, 4), Align("AlignX", <<2, 1>>)>>,
  <<Turns(1, <<1, 2>>), OnSides(1, <<"Back", "Front">>), Fixed(1, 2, 2)>>,
  <<Near(Anchor(1, {1, 2}), Anchor(2, {}), 4), Turns(1, <<0, 1>>)>>,
  <<Inside(3, 6, 6, 2, 2), Align("AlignY", <<1, 3>>)>>,
  <<Relative(1, 2, 1, 1), Relative(2, 1, 1, 1)>>,
  <<Near(Anchor(1, {2}), Anchor(2, {1}), 3), Turns(2, <<1, 2>>), Fixed(2, 6, 6)>>,
  <<Relative(1, 2, 3, 0), Fixed(2, 2, 2), Relative(3, 1, 3, 0)>>,
  <<OnSides(2, <<"Back">>), Turns(1, <<3>>)>>}

\* The board's corner cut out, a keepout and a track that block probes.
Crowded(board) ==
  [board EXCEPT !.cutouts = {Box(7, 0, 3, 3)},
     !.keepouts = {[box |-> Box(4, 6, 1, 1), layers |-> {0}]},
     !.copper = {[box |-> Box(0, 8, 4, 0), radius |-> 1, layers |-> {0, 1}, net |-> "b"]}]

Placed == {Layout(p, c, pol) : p \in Pairs, c \in Rules,
             pol \in {Repair, Improve, [Improve EXCEPT !.congestion = TRUE, !.density = 4]}}
Probed == {Crowded(Layout(p, c, [pol EXCEPT !.access = <<Probe>>, !.pitch = 3])) :
             p \in Pairs, c \in {<< >>, <<Turns(1, <<0, 2>>), OnSides(2, <<"Back", "Front">>)>>},
             pol \in {Repair, Improve}}
Short == {Layout(p, c, [Repair EXCEPT !.limit = 20]) : p \in Pairs, c \in Rules}

\* Calls that are refused, and components known by their pads or not at all.
Odd ==
  LET p == <<Item(Put(2, 2), Two("a", "b")), Small(Put(7, 7), "b"), Bare(Put(5, 5))>>
  IN {Layout(p, c, Repair) : c \in {
        << >>, <<Align("AlignX", <<1>>)>>, <<Relative(1, 1, 1, 0)>>, <<Turns(1, << >>)>>,
        <<Fixed(1, 2, 2), Relative(1, 2, 0, 0)>>, <<Near(Anchor(1, {}), Anchor(2, {}), 0)>>}}
     \cup {Layout([p EXCEPT ![1].body = {}], << >>, pol) : pol \in {
             Improve, [Repair EXCEPT !.pitch = 0, !.clearance = -1],
             [Repair EXCEPT !.limit = 0, !.density = -1],
             [Repair EXCEPT !.access = <<[distance |-> 0, halfWidth |-> 0, clearance |-> -1]>>]}}

MCLayouts == Placed \cup Probed \cup Short \cup Odd

-----------------------------------------------------------------------------
(* Two nets side by side on a board of twelve by ten, one of which must    *)
(* grow, with a track, a pad, a zone or a cutout where the serpentines go; *)
(* pairs, groups of authored patterns, and calls that are refused.         *)

Area(x, y, w, h) == [low |-> <<x, y>>, high |-> <<x + w, y + h>>]
Track(net, points) == [net |-> net, layer |-> 1, half |-> 0, points |-> points]
Wide(track) == [track EXCEPT !.half = 1]

Ask == [nets |-> <<"A", "B">>, target |-> << >>, tolerance |-> 0, amplitude |-> 1, pitch |-> 1,
        cycles |-> 2, margin |-> 0, skew |-> 0, clearance |-> 1, limit |-> 9, pair |-> << >>]
Wiring(tracks, copper, ask) ==
  [outline |-> Area(0, 0, 12, 10), cutouts |-> {}, routes |-> tracks, copper |-> copper,
   authored |-> << >>, call |-> ask]

\* A has three lines to choose from, B two of the same length or one.
Bent == Track("A", <<<<2, 2>>, <<6, 2>>, <<6, 4>>, <<10, 4>>>>)
Straight(y) == Track("B", <<<<2, y>>, <<10, y>>>>)
Late(y) == Track("B", <<<<1, y>>, <<5, y>>, <<11, y>>>>)
Block(x, y, layers, clearance, radius) ==
  [net |-> "C", layers |-> layers, box |-> Area(x, y, 1, 0), radius |-> radius, clearance |-> clearance]

Boards == {<<a, b>> : a \in {Bent}, b \in {Straight(7), Straight(6), Late(8)}}
Blocks == {{}, {Block(3, 4, {1}, 0, 0)}, {Block(3, 4, {2}, 0, 1), Block(8, 6, {1}, 2, 0)},
              {Block(x, 5, {1}, 0, 1) : x \in {3, 8}}, {[Block(4, 8, {1}, 0, 0) EXCEPT !.net = "A"]}}
Asks == {Ask, [Ask EXCEPT !.target = <<12>>], [Ask EXCEPT !.target = <<12>>, !.margin = 2],
         [Ask EXCEPT !.target = <<14>>, !.clearance = 0], [Ask EXCEPT !.target = <<12>>, !.limit = 3],
         [Ask EXCEPT !.target = <<11>>, !.tolerance = 1, !.skew = 1],
         [Ask EXCEPT !.target = <<13>>, !.tolerance = 3]}
Fenced == {Wiring(Append(b, [Track("C", <<<<4, 0>>, <<8, 0>>>>) EXCEPT !.layer = l]), o, ask) :
             b \in Boards, o \in Blocks, ask \in Asks, l \in {1, 2}}

\* A pair one apart, tuned together or not at all.
Coupled ==
  {Wiring(<<Track("A", <<<<2, 3>>, <<8, 3>>>>), Track("B", <<<<2, 5>>, <<8, 5>>>>)>>, o,
          [Ask EXCEPT !.target = <<8>>, !.clearance = c,
                      !.pair = <<[positive |-> "A", negative |-> "B", spacing |-> s]>>]) :
     o \in Blocks, c \in {0, 1}, s \in {2, 3}}

Pattern(net, route, area, target) ==
  [net |-> net, route |-> route, side |-> "Left", region |-> area, target |-> target,
   tolerance |-> 0, amplitude |-> 1, pitch |-> 1, cycles |-> 2]
Grouped ==
  {[Wiring(<<Bent, Straight(7), Track("A", <<<<10, 4>>, <<10, 0>>>>)>>, o, [Ask EXCEPT !.skew = k]) EXCEPT
      !.authored = <<Pattern("A", r, area, 16), Pattern("B", 2, Area(0, 0, 12, 10), t)>>] :
     r \in {0, 1, 2, 3}, area \in {Area(0, 0, 12, 10), Area(6, 0, 6, 10), Area(0, 0, 1, 1)},
     t \in {4, 8, 12, 16}, o \in {{}, {Block(8, 6, {1}, 2, 0)}}, k \in {0, 4}}
  \cup {[Wiring(<<Bent, Straight(7)>>, {}, Ask) EXCEPT
           !.authored = <<Pattern("A", 1, Area(0, 0, 12, 10), 10), Pattern("A", 1, Area(0, 0, 12, 10), 10)>>]}

Refused ==
  {Wiring(<<Bent, Straight(7)>>, {}, ask) : ask \in {
     [Ask EXCEPT !.nets = <<"A">>], [Ask EXCEPT !.nets = <<"A", "A">>], [Ask EXCEPT !.nets = <<"A", "D">>],
     [Ask EXCEPT !.pitch = 0], [Ask EXCEPT !.target = <<4>>], [Ask EXCEPT !.target = <<16>>],
     [Ask EXCEPT !.target = <<12>>, !.pitch = 4],
     [Ask EXCEPT !.pair = <<[positive |-> "A", negative |-> "C", spacing |-> 1]>>]}}
  \cup {Wiring(<<Track("A", <<<<2, 2>>, <<6, 4>>>>), Straight(7)>>, {}, Ask)}

MCWirings == Fenced \cup Coupled \cup Grouped \cup Refused

-----------------------------------------------------------------------------
(* The tool at work takes steps, the others stand.                         *)
VARIABLE tool

NoLayout == CHOOSE l \in Odd : TRUE
NoWiring == CHOOSE w \in Refused : TRUE

MCInit ==
  \/ /\ tool = "router"
     /\ layout = NoLayout /\ SolverInit /\ wiring = NoWiring /\ TuningInit
     /\ RouterInit
  \/ /\ tool = "solver"
     /\ problem = TooFine /\ RouterInit /\ wiring = NoWiring /\ TuningInit
     /\ SolverInit
  \/ /\ tool = "tuner"
     /\ problem = TooFine /\ RouterInit /\ layout = NoLayout /\ SolverInit
     /\ TuningInit

MCNext ==
  \/ /\ tool = "router" /\ RouterNext
     /\ UNCHANGED <<solverVars, tuningVars, tool>>
  \/ /\ tool = "solver" /\ SolverNext
     /\ UNCHANGED <<routerVars, tuningVars, tool>>
  \/ /\ tool = "tuner" /\ TuningNext
     /\ UNCHANGED <<routerVars, solverVars, tool>>

MCSpec == MCInit /\ [][MCNext]_<<routerVars, solverVars, tuningVars, tool>>
=============================================================================
