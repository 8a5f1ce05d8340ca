--------------------------- MODULE NegotiatedRouter ---------------------------
(***************************************************************************)
(* `negotiated_autoroute` and `adaptive_negotiated_autoroute`              *)
(* (src/autoroute.rs): nets are routed one after the other by a best-first *)
(* search whose costs count who already uses a resource and who fought     *)
(* over it in earlier passes; a pass that leaves a resource shared is torn *)
(* up and done again.  The adaptive call repeats this on grids refined     *)
(* where the last one failed.                                              *)
(*                                                                         *)
(* The unit of routing is a bundle: one net, or the two nets of a          *)
(* differential pair moved together, the negative at a fixed offset from   *)
(* the positive.  A bundle's place is the node of its first net.           *)
(* Necked-down ends of a pair, any-angle edges and undecided predicates    *)
(* (a span longer than the expansion bound is one) are not modelled, nor   *)
(* is the lowering of a complete routing to copper.                        *)
(***************************************************************************)
EXTENDS RouteGrid

CONSTANTS
  Problems,   \* the routing problems a call may be given
  MaxCost     \* the largest cost, u64::MAX in the code: sums saturate there

\* What layout validation, the hand-off and `validate_policy` let through;
\* a net is its place in the order of names.
Terminals == [at : Nat \X Nat, layers : SUBSET Nat]
IsBoard(board) == {board.width, board.height, board.layers} \subseteq Nat
ArePairs(pairs, nets) ==
  /\ IsFiniteSet(pairs)
  /\ \A a \in pairs : /\ a.id \in Nat
                      /\ a.positive \in nets /\ a.negative \in nets \ {a.positive}
                      /\ \A b \in pairs : a.id = b.id => a = b
IsPolicy(p) ==
  /\ {p.presentPenalty, p.viaPenalty, p.bendPenalty, p.historyIncrement,
      p.maximumRounds} \subseteq Nat
  /\ {p.maximumIterations, p.maximumExpansions, p.multiplier, p.padding,
      p.maximumRegions} \subseteq Nat \ {0}

ASSUME RouterAssumption ==
  /\ MaxCost \in Nat
  /\ \A p \in Problems :
       /\ IsBoard(p.board) /\ IsPolicy(p.policy)
       /\ p.terminals \in Seq(Seq(Terminals))
       /\ ArePairs(p.pairs, DOMAIN p.terminals)

VARIABLES
  problem,    \* the board, its terminals, rules and the policy of the call
  status,     \* where the call stands, or how it ended
  round,      \* grids tried before this one
  regions,    \* regions refined in this round
  grid,       \* the grid of this round
  iteration,  \* passes made on this grid
  history,    \* cost each resource has gathered in earlier passes
  pending,    \* bundles this pass still has to route
  routes,     \* routes of this pass: [paths, resources] by net
  failures,   \* bundles this pass could not route: [bundle, why]
  tree,       \* places the bundle being routed has reached so far
  paths,      \* its paths so far, as places
  queue,      \* entries of the search: [estimate, cost, state]
  reached,    \* cost and predecessor of each state the search has found
  expanded    \* states expanded in this search

callVars == <<problem, round, regions, grid>>
passVars == <<iteration, history>>
bundleVars == <<tree, paths>>
searchVars == <<queue, reached, expanded>>
routerVars == <<status, callVars, passVars, pending, routes, failures,
                bundleVars, searchVars>>

Refusals == {"GridTooLarge", "UnroutableSelectedNet",
             "OverlappingDifferentialPairNet",
             "IncompleteSelectedDifferentialPair",
             "UnsupportedDifferentialPair"}
Outcomes == Refusals \cup {"Complete", "IterationLimit", "RegionLimit",
                           "NoProgress", "RefinementLimit"}

policy == problem.policy
\* What is new, over what was there.
Over(new, old) == [x \in DOMAIN new \cup DOMAIN old |->
                    IF x \in DOMAIN new THEN new[x] ELSE old[x]]

Sat(n) == IF n > MaxCost THEN MaxCost ELSE n

-----------------------------------------------------------------------------
(* The problem                                                             *)

TerminalNets == DOMAIN problem.terminals
PlacedTwice == {n \in TerminalNets : Len(problem.terminals[n]) >= 2}
Selected == IF policy.nets = {} THEN PlacedTwice ELSE policy.nets

Ends(pair) == {pair.positive, pair.negative}
SelectedPairs == {pair \in problem.pairs : Ends(pair) \subseteq Selected}
PairedNets == UNION {Ends(pair) : pair \in SelectedPairs}
ArePaired(m, n) == \E pair \in problem.pairs : Ends(pair) = {m, n}

Offset(a, b) == <<b.at[1] - a.at[1], b.at[2] - a.at[2]>>

\* The order in which the negative's terminals match the positive's.
PairOrder(pair) ==
  LET p == problem.terminals[pair.positive]
      n == problem.terminals[pair.negative]
  IN IF Len(p) # 2 \/ Len(n) # 2 THEN <<>>
     ELSE IF Offset(p[1], n[1]) = Offset(p[2], n[2]) THEN <<1, 2>>
     ELSE IF Offset(p[1], n[2]) = Offset(p[2], n[1]) THEN <<2, 1>>
     ELSE <<>>

\* Where the negative lies from the positive, of a pair that has an order.
PairOffset(pair) ==
  Offset(problem.terminals[pair.positive][1],
         problem.terminals[pair.negative][PairOrder(pair)[1]])

At(terminal, g) ==
  {n \in Nodes(g) : Planar(n) = terminal.at /\ n.layer \in terminal.layers}

\* Places of both ends of a pair: layers its two terminals share.
PairPlaces(pair, g) ==
  LET p == problem.terminals[pair.positive]
      n == problem.terminals[pair.negative]
      order == PairOrder(pair)
  IN [i \in 1..2 |-> {m \in At(p[i], g) :
                        m.layer \in {k.layer : k \in At(n[order[i]], g)}}]

PairBundle(pair, g) ==
  [nets |-> <<pair.positive, pair.negative>>,
   offset |-> PairOffset(pair),
   places |-> PairPlaces(pair, g)]

NetBundle(net, g) ==
  [nets |-> <<net>>, offset |-> <<0, 0>>,
   places |-> [i \in DOMAIN problem.terminals[net] |->
                 At(problem.terminals[net][i], g)]]

InOrder(S) ==
  [i \in 1..Cardinality(S) |->
     CHOOSE n \in S : Cardinality({m \in S : m < n}) = i - 1]
ById(pairs) ==
  LET ids == InOrder({pair.id : pair \in pairs}) IN
  [i \in DOMAIN ids |-> CHOOSE pair \in pairs : pair.id = ids[i]]

\* Pairs are routed first, in the order of their names, then the other nets.
PairsInOrder == ById(SelectedPairs)
NetsInOrder == InOrder(Selected \ PairedNets)

Bundles(g) ==
  [i \in DOMAIN PairsInOrder |-> PairBundle(PairsInOrder[i], g)]
  \o [i \in DOMAIN NetsInOrder |-> NetBundle(NetsInOrder[i], g)]

PairUnsupported(pair, g) ==
  \/ PairOrder(pair) = <<>>
  \/ PairOffset(pair) \notin pair.offsets
  \/ \E i \in 1..2 : PairPlaces(pair, g)[i] = {}

TooLarge(g) ==
  \/ Cardinality(g.xs) > policy.maximumExpansions
  \/ Cardinality(g.ys) > policy.maximumExpansions
  \/ Cardinality(g.active) * g.layers > 16 * policy.maximumExpansions

\* Pairs are examined in the order of the board; the first error is reported.
PairSelectionErrors ==
  {e \in {"OverlappingDifferentialPairNet",
          "IncompleteSelectedDifferentialPair"} :
     IF e = "OverlappingDifferentialPairNet"
     THEN \E a, b \in SelectedPairs : a # b /\ Ends(a) \cap Ends(b) # {}
     ELSE \E pair \in problem.pairs \ SelectedPairs :
            Ends(pair) \cap Selected # {}}

PreparationErrors(g) ==
  IF TooLarge(g) THEN {"GridTooLarge"}
  ELSE IF Selected \ PlacedTwice # {} THEN {"UnroutableSelectedNet"}
  ELSE IF PairSelectionErrors # {} THEN PairSelectionErrors
  ELSE IF \E pair \in SelectedPairs : PairUnsupported(pair, g)
       THEN {"UnsupportedDifferentialPair"}
  ELSE {}

-----------------------------------------------------------------------------
(* Costs and legality of a move                                            *)

\* The node of a bundle's i-th net when the bundle stands at a place.
Wire(bundle, i, place) ==
  IF i = 1 THEN place
  ELSE Node(<<place.x + bundle.offset[1], place.y + bundle.offset[2]>>,
            place.layer)

Allows(rule, a, b, direction) ==
  /\ {a.layer, b.layer} \subseteq rule.layers
  /\ IF direction = "Via" THEN rule.vias ELSE direction \in rule.directions

\* Fixed copper and the areas of rules are given by the points they cover.
PassesOver(a, b, points) ==
  \E p \in points : p.layer \in {a.layer, b.layer} /\ OnSegment(a, b, p)

Pads(net) ==
  UNION {[x : {t.at[1]}, y : {t.at[2]}, layer : t.layers] :
           t \in Range(problem.terminals[net])}

Obstacles(net) == problem.fixed[net]
                  \cup UNION {Pads(n) : n \in TerminalNets \ {net}}

\* A move is legal when it keeps off fixed copper and the board's edge, every
\* rule whose area it touches allows it, and the via style spans its layers.
Legal(net, a, b, direction) ==
  /\ ~PassesOver(a, b, Obstacles(net))
  /\ \A rule \in problem.rules :
       /\ rule.nets = {} \/ net \in rule.nets
       /\ \E p \in rule.area : OnSegment(a, b, p)
       => Allows(rule, a, b, direction)
  /\ direction = "Via" => \/ problem.spans[net] = {}
                          \/ {a.layer, b.layer} \in problem.spans[net]

BundleMoves(g, bundle, place) ==
  {m \in Moves(g, policy.topology, place) :
     \A i \in DOMAIN bundle.nets :
       /\ Planar(Wire(bundle, i, m.to)) \in g.active
       /\ Legal(bundle.nets[i], Wire(bundle, i, place),
                Wire(bundle, i, m.to), m.direction)}

Users(resource) == {n \in DOMAIN routes : resource \in routes[n].resources}

HistoryOf(resource) ==
  IF resource \in DOMAIN history THEN history[resource] ELSE 0

Congestion(g, net, a, b) ==
  SumFunction([r \in TransitionResources(g, a, b) \cup {NodeOf(b)} |->
                 Cardinality(Users(r) \ {net}) * policy.presentPenalty
                 + HistoryOf(r)])

Bends(from, direction) ==
  /\ from \notin {"None", "Via", direction}
  /\ direction # "Via"

StepCost(g, bundle, place, from, m) ==
  LET a(i) == Wire(bundle, i, place)
      b(i) == Wire(bundle, i, m.to)
  IN SumFunction([i \in DOMAIN bundle.nets |->
                    (IF m.direction = "Via" THEN policy.viaPenalty
                     ELSE Units(a(i), b(i)))
                    + Congestion(g, bundle.nets[i], a(i), b(i))])
     + IF Bends(from, m.direction) THEN policy.bendPenalty ELSE 0

\* What at least remains from a place to the nearest target.
Estimate(bundle, place, targets) ==
  Min({Cardinality(DOMAIN bundle.nets)
         * (Units(place, t)
            + Distance(place.layer, t.layer) * policy.viaPenalty) :
       t \in targets})

-----------------------------------------------------------------------------
(* One bundle: its terminals are joined one after the other to the tree    *)

Bundle == Head(pending)
Targets == Bundle.places[Len(paths) + 2]
State(place, direction) == [place |-> place, direction |-> direction]

\* Ties are broken by the order of states.
Directions == <<"None", "Horizontal", "Vertical", "DiagonalRising",
                "DiagonalFalling", "Via">>
Rank(s) == ((s.place.x * 100 + s.place.y) * 10 + s.place.layer) * 10
           + (CHOOSE i \in DOMAIN Directions : Directions[i] = s.direction)

Before(e, f) ==
  \/ e.estimate < f.estimate
  \/ e.estimate = f.estimate /\ e.cost < f.cost
  \/ /\ e.estimate = f.estimate /\ e.cost = f.cost
     /\ Rank(e.state) < Rank(f.state)

\* The entry of the queue the search takes next.
IsTop(top) == \A e \in queue : e = top \/ Before(top, e)

Entry(bundle, targets, cost, s) ==
  [estimate |-> Sat(cost + Estimate(bundle, s.place, targets)),
   cost |-> cost, state |-> s]

StartSearch(bundle, sources, targets) ==
  LET starts == {State(p, "None") : p \in sources} IN
  /\ queue' = {Entry(bundle, targets, 0, s) : s \in starts}
  /\ reached' = [s \in starts |-> [cost |-> 0, from |-> s]]
  /\ expanded' = 0

NoSearch ==
  /\ tree' = {}
  /\ paths' = <<>>
  /\ queue' = {}
  /\ reached' = <<>>
  /\ expanded' = 0

FailBundle(why) ==
  /\ failures' = failures \cup {[nets |-> Range(Bundle.nets), why |-> why]}
  /\ pending' = Tail(pending)
  /\ status' = "passing"
  /\ NoSearch
  /\ UNCHANGED <<callVars, passVars, routes>>

OffGrid ==
  /\ status = "passing" /\ pending # <<>>
  /\ \E i \in DOMAIN Bundle.places : Bundle.places[i] = {}
  /\ FailBundle("OffGridTerminal")

StartBundle ==
  /\ status = "passing" /\ pending # <<>>
  /\ \A i \in DOMAIN Bundle.places : Bundle.places[i] # {}
  /\ status' = "searching"
  /\ tree' = Bundle.places[1]
  /\ StartSearch(Bundle, Bundle.places[1], Bundle.places[2])
  /\ UNCHANGED <<callVars, passVars, pending, routes, failures, paths>>

NoPath ==
  /\ status = "searching" /\ queue = {}
  /\ FailBundle("NoPath")

Fresh(top) == top.cost = reached[top.state].cost

DropStale(top) ==
  /\ ~Fresh(top)
  /\ queue' = queue \ {top}
  /\ UNCHANGED <<status, callVars, passVars, pending, routes, failures,
                 bundleVars, reached, expanded>>

SearchTooLong(top) ==
  /\ Fresh(top)
  /\ expanded >= policy.maximumExpansions
  /\ FailBundle("ExpansionLimit")

Expandable(top) == Fresh(top) /\ expanded < policy.maximumExpansions

\* Not the code: a state once found is not improved.
FirstFound(top) ==
  {e \in {Entry(Bundle, Targets,
                Sat(top.cost + StepCost(grid, Bundle, top.state.place,
                                        top.state.direction, m)),
                State(m.to, m.direction)) :
             m \in BundleMoves(grid, Bundle, top.state.place)} :
     e.state \notin DOMAIN reached}

\* The moves of a state whose ends are found cheaper than they were so far.
Improving(top) ==
  {e \in {Entry(Bundle, Targets,
                Sat(top.cost + StepCost(grid, Bundle, top.state.place,
                                        top.state.direction, m)),
                State(m.to, m.direction)) :
             m \in BundleMoves(grid, Bundle, top.state.place)} :
     e.state \in DOMAIN reached => e.cost < reached[e.state].cost}

Expand(top) ==
  /\ Expandable(top)
  /\ top.state.place \notin Targets
  /\ \E better \in {Improving(top)} :
       /\ reached' = Over([s \in {e.state : e \in better} |->
                             [cost |-> (CHOOSE e \in better : e.state = s).cost,
                              from |-> top.state]], reached)
       /\ queue' = (queue \ {top}) \cup better
  /\ expanded' = expanded + 1
  /\ UNCHANGED <<status, callVars, passVars, pending, routes, failures,
                 bundleVars>>

\* The places from the tree to a state, along the predecessors.
PathTo(found, state) ==
  LET path[s \in DOMAIN found] ==
        IF found[s].from = s THEN <<s.place>>
        ELSE Append(path[found[s].from], s.place)
  IN path[state]

WirePaths(bundle, i, ps) ==
  [k \in DOMAIN ps |-> [j \in DOMAIN ps[k] |-> Wire(bundle, i, ps[k][j])]]

RouteOf(bundle, i, ps) ==
  LET wired == WirePaths(bundle, i, ps) IN
  [paths |-> wired,
   resources |-> UNION {PathResources(grid, wired[k]) : k \in DOMAIN wired}]

BundleRoutes(bundle, ps) ==
  [n \in Range(bundle.nets) |->
     RouteOf(bundle, CHOOSE i \in DOMAIN bundle.nets : bundle.nets[i] = n, ps)]

Arrived(top) == Expandable(top) /\ top.state.place \in Targets

Connect(top) ==
  /\ Arrived(top)
  /\ Len(paths) + 2 < Len(Bundle.places)
  /\ \E path \in {PathTo(reached, top.state)} :
       /\ paths' = Append(paths, path)
       /\ tree' = tree \cup Range(path)
       /\ StartSearch(Bundle, tree', Bundle.places[Len(paths) + 3])
  /\ UNCHANGED <<status, callVars, passVars, pending, routes, failures>>

FinishBundle(top) ==
  /\ Arrived(top)
  /\ Len(paths) + 2 = Len(Bundle.places)
  /\ \E path \in {PathTo(reached, top.state)} :
       routes' = Over(BundleRoutes(Bundle, Append(paths, path)), routes)
  /\ pending' = Tail(pending)
  /\ status' = "passing"
  /\ NoSearch
  /\ UNCHANGED <<callVars, passVars, failures>>

-----------------------------------------------------------------------------
(* One pass, and the call                                                  *)

PlanarEdges(n) ==
  {e \in UNION {PathEdges(routes[n].paths[k]) : k \in DOMAIN routes[n].paths} :
     e[1].layer = e[2].layer}

\* Not the code: only resources are compared, not distances.
SharedResources ==
  {r \in UNION {routes[n].resources : n \in DOMAIN routes} :
     Cardinality(Users(r)) > 1}

\* Edges of different nets, not a pair, that come too close to each other.
TooClose ==
  UNION {{p \in PlanarEdges(q[1]) \X PlanarEdges(q[2]) : Meet(p[1], p[2])} :
           q \in {q \in (DOMAIN routes) \X (DOMAIN routes) :
                    q[1] < q[2] /\ ~ArePaired(q[1], q[2])}}

Conflicts ==
  {r \in UNION {routes[n].resources : n \in DOMAIN routes} :
     Cardinality(Users(r)) > 1}
  \cup UNION {{Transition(p[1][1], p[1][2]), Transition(p[2][1], p[2][2])} :
                p \in TooClose}

PassEnds == status = "passing" /\ pending = <<>>

\* The cost that keeps later passes off a resource nets fought over.
Remember ==
  history' = Over([r \in Conflicts |->
                     Sat(HistoryOf(r) + policy.historyIncrement)], history)

StartPass(g) ==
  /\ status' = "passing"
  /\ pending' = Bundles(g)
  /\ routes' = <<>>
  /\ failures' = {}

\* Not the code: a pass that could not route every net does not count.
RepeatUncounted ==
  /\ PassEnds
  /\ Conflicts # {} \/ failures # {}
  /\ iteration + 1 < policy.maximumIterations
  /\ Remember
  /\ iteration' = IF failures = {} THEN iteration + 1 ELSE iteration
  /\ StartPass(grid)
  /\ UNCHANGED <<callVars, bundleVars, searchVars>>

Complete ==
  /\ PassEnds
  /\ Conflicts = {} /\ failures = {}
  /\ status' = "Complete"
  /\ UNCHANGED <<callVars, passVars, pending, routes, failures, bundleVars,
                 searchVars>>

Repeat ==
  /\ PassEnds
  /\ Conflicts # {} \/ failures # {}
  /\ iteration + 1 < policy.maximumIterations
  /\ Remember
  /\ iteration' = iteration + 1
  /\ StartPass(grid)
  /\ UNCHANGED <<callVars, bundleVars, searchVars>>

LastPassFails == /\ PassEnds
                 /\ Conflicts # {} \/ failures # {}
                 /\ iteration + 1 = policy.maximumIterations

IterationLimit ==
  /\ LastPassFails
  /\ ~policy.adaptive
  /\ status' = "IterationLimit"
  /\ UNCHANGED <<callVars, passVars, pending, routes, failures, bundleVars,
                 searchVars>>

Features == UNION {{t.at : t \in Range(problem.terminals[n])} :
                     n \in TerminalNets}

\* Offsets of the pairs of the board whose terminals match.
PairOffsets ==
  LET matched == {pair \in problem.pairs :
                    PairOrder(pair) # <<>> /\ PairOffset(pair) \in pair.offsets}
      inOrder == ById(matched)
  IN [i \in DOMAIN inOrder |-> PairOffset(inOrder[i])]

GridOf(r, refined) ==
  IF ~policy.adaptive THEN CoarseGrid(problem.board, 1, {}, <<>>)
  ELSE IF r = 0
       THEN CoarseGrid(problem.board, policy.multiplier, Features, PairOffsets)
  ELSE RefinedGrid(problem.board, policy.multiplier, refined)

\* What the last pass leaves: its conflicts, and the span of each failed net.
Hotspots ==
  {Hull({Planar(n) : n \in r.at}) : r \in Conflicts}
  \cup {Hull({t.at : t \in Range(problem.terminals[n])}) :
          n \in UNION {f.nets : f \in failures}}

Proposed ==
  Merge(regions \cup UNION {RegionsFor(problem.board, policy.multiplier,
                                       policy.padding, h) : h \in Hotspots})

AdaptiveStatus(proposed) ==
  IF Cardinality(proposed) > policy.maximumRegions THEN "RegionLimit"
  ELSE IF proposed = regions THEN "NoProgress"
  ELSE IF round = policy.maximumRounds THEN "RefinementLimit"
  ELSE "preparing"

NextRound ==
  /\ LastPassFails
  /\ policy.adaptive
  /\ \E proposed \in {Proposed} :
       /\ status' = AdaptiveStatus(proposed)
       /\ IF status' = "preparing"
          THEN regions' = proposed /\ round' = round + 1
          ELSE UNCHANGED <<regions, round>>
  /\ UNCHANGED <<problem, grid, passVars, pending, routes, failures,
                 bundleVars, searchVars>>

Refuse ==
  /\ status = "preparing"
  /\ status' \in PreparationErrors(GridOf(round, regions))
  /\ UNCHANGED <<callVars, passVars, pending, routes, failures, bundleVars,
                 searchVars>>

Prepare ==
  /\ status = "preparing"
  /\ PreparationErrors(GridOf(round, regions)) = {}
  /\ grid' = GridOf(round, regions)
  /\ iteration' = 0
  /\ history' = <<>>
  /\ StartPass(grid')
  /\ UNCHANGED <<problem, round, regions, bundleVars, searchVars>>

RouterInit ==
  /\ problem \in Problems
  /\ status = "preparing"
  /\ round = 0
  /\ regions = {}
  /\ grid = [xs |-> {}, ys |-> {}, active |-> {}, layers |-> 0]
  /\ iteration = 0
  /\ history = <<>>
  /\ pending = <<>>
  /\ routes = <<>>
  /\ failures = {}
  /\ tree = {}
  /\ paths = <<>>
  /\ queue = {}
  /\ reached = <<>>
  /\ expanded = 0

SearchStep ==
  \/ NoPath
  \/ /\ status = "searching"
     /\ \E top \in queue :
          /\ IsTop(top)
          /\ \/ DropStale(top)
             \/ SearchTooLong(top)
             \/ Expand(top)
             \/ Connect(top)
             \/ FinishBundle(top)

Returned == status \in Outcomes /\ UNCHANGED routerVars

RouterNext == \/ Refuse \/ Prepare \/ OffGrid \/ StartBundle \/ SearchStep
              \/ Complete \/ Repeat \/ IterationLimit \/ NextRound
              \/ Returned

RouterSpec == RouterInit /\ [][RouterNext]_routerVars

-----------------------------------------------------------------------------
(* Properties                                                              *)

States == [place : Nodes(grid), direction : Range(Directions)]

\* What the cheapest legal way to each state costs, for the states a bundle
\* can reach from its tree: all ways are extended until none gets shorter.
Relaxed(costs) ==
  LET moves == [p \in {s.place : s \in DOMAIN costs} |->
                  BundleMoves(grid, Bundle, p)]
      ways == UNION {{[to |-> State(m.to, m.direction),
                       cost |-> Sat(costs[s] + StepCost(grid, Bundle, s.place,
                                                        s.direction, m))] :
                        m \in moves[s.place]} : s \in DOMAIN costs}
      old == {[to |-> s, cost |-> costs[s]] : s \in DOMAIN costs}
  IN [s \in {w.to : w \in ways \cup old} |->
        Min({w.cost : w \in {w \in ways \cup old : w.to = s}})]

CheapestCosts ==
  LET start == [costs |-> [s \in {State(p, "None") : p \in tree} |-> 0],
                closed |-> FALSE]
      after[k \in 0..Cardinality(States)] ==
        IF k = 0 THEN start
        ELSE LET sofar == after[k - 1] IN
             IF sofar.closed THEN sofar
             ELSE LET next == Relaxed(sofar.costs) IN
                  [costs |-> next, closed |-> next = sofar.costs]
  IN after[Cardinality(States)].costs

\* A connection that is found is a cheapest one, the penalties for shared
\* resources, earlier conflicts, bends and vias counted; and a bundle is
\* reported to have no path only when no legal way leads to its terminal
\* (`search_connection`, `route_differential_pair`).
SearchIsCheapest ==
  status = "searching" =>
    /\ queue = {} => {s \in DOMAIN CheapestCosts : s.place \in Targets} = {}
    /\ \A top \in queue : IsTop(top) /\ Arrived(top) =>
         LET costs == CheapestCosts IN
         top.cost = Min({costs[s] : s \in {s \in DOMAIN costs :
                                            s.place \in Targets}})

Heading(a, b) ==
  IF a.layer # b.layer THEN "Via"
  ELSE IF a.y = b.y THEN "Horizontal"
  ELSE IF a.x = b.x THEN "Vertical"
  ELSE IF (b.x - a.x) * (b.y - a.y) > 0 THEN "DiagonalRising"
  ELSE "DiagonalFalling"

EdgesOf(n) == UNION {PathEdges(routes[n].paths[k]) :
                       k \in DOMAIN routes[n].paths}
NodesOf(n) == UNION {Range(routes[n].paths[k]) : k \in DOMAIN routes[n].paths}

\* No part of a net's copper keeps to itself: its pads join what meets them,
\* its edges the nodes at their ends.
PadsOf(n) == {At(terminal, grid) : terminal \in Range(problem.terminals[n])}
IsOnePiece(n) ==
  \A part \in (SUBSET NodesOf(n)) \ {{}} :
    /\ \A e \in EdgesOf(n) : e[1] \in part <=> e[2] \in part
    /\ \A pad \in PadsOf(n) :
         part \cap pad # {} => pad \cap NodesOf(n) \subseteq part
    => part = NodesOf(n)

\* A complete routing joins every terminal of every selected net by moves
\* that are legal for the net, no two nets share a node, and no two have edges
\* that meet unless they are a pair (`negotiated_autoroute` returns Complete).
CompleteIsRouted ==
  status = "Complete" =>
    /\ \A n \in Selected :
         /\ n \in DOMAIN routes
         /\ \A e \in EdgesOf(n) : Legal(n, e[1], e[2], Heading(e[1], e[2]))
         /\ \A pad \in PadsOf(n) : pad \cap NodesOf(n) # {}
         /\ IsOnePiece(n)
    /\ \A m, n \in Selected : m # n =>
         /\ NodesOf(m) \cap NodesOf(n) = {}
         /\ ~ArePaired(m, n) =>
              \A e \in PlanarEdges(m), f \in PlanarEdges(n) : ~Meet(e, f)

\* Whether a hotspot lies on the board, if the board has an area.
OnBoard(h) ==
  /\ problem.board.width > 0 /\ problem.board.height > 0
  /\ Overlap(h, [min |-> <<0, 0>>,
                 max |-> <<problem.board.width, problem.board.height>>])

\* The regions a round is given lie apart from each other, keep what earlier
\* rounds refined, and refine what the last pass left conflicted or
\* unrouted on the board (`merge_refinement_regions`,
\* `synthesize_refinement_regions`).
RegionsTile ==
  [][round' # round =>
       /\ \A r, s \in regions' : r = s \/ ~Overlap(r, s)
       /\ \A p \in (0..problem.board.width) \X (0..problem.board.height) :
            (\E r \in regions : Within(r, p)) =>
              \E r \in regions' : Within(r, p)
       /\ \A h \in Hotspots : OnBoard(h) =>
            \E r \in regions' : Overlap(h, r)]_routerVars

\* What is left to do at most: rounds, passes, bundles, connections of the
\* bundle and expansions of the search.
WorkLeft ==
  <<IF status \in Outcomes THEN 0 ELSE 1,
    policy.maximumRounds - round,
    IF status = "preparing" THEN 1 ELSE 0,
    policy.maximumIterations - iteration,
    Len(pending),
    IF status = "passing" THEN 1 ELSE 0,
    IF pending = <<>> THEN 0 ELSE Len(Bundle.places) - Len(paths),
    policy.maximumExpansions - expanded,
    Cardinality(queue)>>

LessWork(a, b) == \E i \in DOMAIN a : /\ a[i] < b[i]
                                     /\ \A j \in 1..(i - 1) : a[j] = b[j]

\* However the nets fight over the board, every step uses up one of the
\* bounds of the policy, in the order in which they nest, and none goes below
\* zero: a call that never gets stuck returns (`maximum_iterations`,
\* `maximum_expansions_per_connection`, `maximum_refinement_rounds`).
EveryStepShortens ==
  [][/\ LessWork(WorkLeft', WorkLeft)
     /\ \A i \in DOMAIN WorkLeft : WorkLeft'[i] >= 0]_routerVars
=============================================================================
