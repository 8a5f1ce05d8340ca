----------------------------- MODULE PhaseTuning -----------------------------
(***************************************************************************)
(* `PcbLayout::synthesize_phase_tuning` and `realize_phase_tuning`         *)
(* (src/route_constraints.rs): the routes of a group of nets are lengthened *)
(* by serpentines until their lengths agree.  A realization replaces one   *)
(* line of each net on a working copy and certifies the copy as a whole; a *)
(* synthesis tries the assemblies of one pattern for each net in turn,     *)
(* until one is certified, all are rejected or the limit is reached.       *)
(*                                                                         *)
(* Lengths are integers.  Lines that are tuned, or that tuned ones are     *)
(* kept clear of, run along the axes; all other copper is a box, with a    *)
(* radius where it is round.  Identities already taken, the realization    *)
(* with zones poured anew and undecided predicates are not modelled.       *)
(***************************************************************************)
EXTENDS BoardGeometry

CONSTANTS
  Wirings  \* a board with its routes, and what is asked of it

VARIABLES
  wiring,      \* board, routes, other copper and the call
  choices,     \* for each net the patterns to choose from
  chosen,      \* which of them the assembly at hand consists of
  considered,  \* assemblies begun
  working,     \* the routes of the working copy
  member,      \* the pattern to be realized next
  verdict      \* "asked", "tuning", or how the call ended

tuningVars == <<wiring, choices, chosen, considered, working, member, verdict>>

call == wiring.call
IsSynthesis == wiring.authored = << >>

-----------------------------------------------------------------------------
(* Lengths and serpentines.                                                *)

LinesOf(route) == 1..(Len(route.points) - 1)
LineBox(route, n) == Around({route.points[n], route.points[n + 1]})
LineLength(route, n) == Manhattan(route.points[n], route.points[n + 1])
IsStraight(route, n) == \E k \in {1, 2} : route.points[n][k] = route.points[n + 1][k]

RoutesOf(net, routes) == {r \in DOMAIN routes : routes[r].net = net}
NetLength(net, routes) ==
  LET length(r) == MapThenSumSet(LAMBDA n : LineLength(routes[r], n), LinesOf(routes[r]))
  IN MapThenSumSet(length, RoutesOf(net, routes))
Off(length, target) == Max({length - target, target - length})

(* The least number of cycles that takes a length to the target.           *)
CycleCounts(length, p) ==
  {c \in 1..p.cycles : Off(length + 2 * p.amplitude * c, p.target) <= p.tolerance}
Cycles(length, p) == Min(CycleCounts(length, p))

Sign(n) == IF n > 0 THEN 1 ELSE IF n < 0 THEN -1 ELSE 0

(* Each cycle goes on by a pitch, aside, on by a pitch, and back.          *)
Serpentine(from, to, count, p) ==
  LET forward == <<Sign(to[1] - from[1]), Sign(to[2] - from[2])>>
      left == IF p.side = "Left" THEN 1 ELSE -1
      across == <<-forward[2] * left, forward[1] * left>>
      at(on, aside) == <<from[1] + on * forward[1] + aside * across[1],
                         from[2] + on * forward[2] + aside * across[2]>>
      on(k) == p.pitch * (2 * (k \div 4) + <<0, 1, 1, 2>>[(k % 4) + 1])
      aside(k) == p.amplitude * <<0, 0, 1, 1>>[(k % 4) + 1]
      turns == [k \in 1..(4 * count + 1) |-> at(on(k - 1), aside(k - 1))]
  IN IF turns[Len(turns)] = to THEN turns ELSE Append(turns, to)
SerpentineOf(route, n, count, p) == Serpentine(route.points[n], route.points[n + 1], count, p)

HasRoom(route, n, count, p) == IsStraight(route, n) /\ LineLength(route, n) >= 2 * count * p.pitch
InsideRegion(points, region) ==
  \A n \in DOMAIN points : \A k \in {1, 2} :
    region.low[k] <= points[n][k] /\ points[n][k] <= region.high[k]

-----------------------------------------------------------------------------
(* The realization of a pattern on the working copy.                       *)

IsSatisfied(p, routes) == Off(NetLength(p.net, routes), p.target) <= p.tolerance

(* Lines of the pattern's route, or of any route of its net, that its      *)
(* serpentine may replace, and the first of them.                          *)
Spans(p, routes) ==
  LET length == NetLength(p.net, routes)
      lines == UNION {{r} \X LinesOf(routes[r]) :
                        r \in {q \in RoutesOf(p.net, routes) : p.route \in {0, q}}}
  IN IF length > p.target + p.tolerance \/ CycleCounts(length, p) = {} THEN {}
     ELSE {line \in lines :
             LET route == routes[line[1]]
                 count == Cycles(length, p)
             IN /\ HasRoom(route, line[2], count, p)
                /\ InsideRegion(SerpentineOf(route, line[2], count, p), p.region)}
FirstSpan(p, routes) ==
  CHOOSE span \in Spans(p, routes) : \A other \in Spans(p, routes) :
    span[1] < other[1] \/ (span[1] = other[1] /\ span[2] <= other[2])

(* Not the code: a member is tuned on the board, not on the working copy.  *)
TunedAlone(p, routes) ==
  LET r == FirstSpan(p, routes)[1]
      n == FirstSpan(p, routes)[2]
      points == routes[r].points
      detour == SerpentineOf(routes[r], n, Cycles(NetLength(p.net, routes), p), p)
  IN [wiring.routes EXCEPT ![r].points =
        SubSeq(points, 1, n - 1) \o detour \o SubSeq(points, n + 2, Len(points))]

Tuned(p, routes) ==
  LET r == FirstSpan(p, routes)[1]
      n == FirstSpan(p, routes)[2]
      points == routes[r].points
      detour == SerpentineOf(routes[r], n, Cycles(NetLength(p.net, routes), p), p)
  IN [routes EXCEPT ![r].points =
        SubSeq(points, 1, n - 1) \o detour \o SubSeq(points, n + 2, Len(points))]

-----------------------------------------------------------------------------
(* What the working copy must satisfy.                                     *)

TunedRoutes(routes) == {r \in DOMAIN routes : routes[r] # wiring.routes[r]}

(* Foreign tracks of the layer, vias, pads, zones and keepouts.            *)
CollidesWithRoute(r, q, routes) ==
  /\ routes[q].net # routes[r].net /\ routes[q].layer = routes[r].layer
  /\ \E n \in LinesOf(routes[r]), m \in LinesOf(routes[q]) :
       ~ClearOf(LineBox(routes[r], n), LineBox(routes[q], m),
                routes[r].half + routes[q].half + call.clearance)
CollidesWithCopper(r, copper, routes) ==
  /\ copper.net # routes[r].net /\ routes[r].layer \in copper.layers
  /\ \E n \in LinesOf(routes[r]) :
       ~ClearOf(LineBox(routes[r], n), copper.box,
                routes[r].half + copper.radius + Max({call.clearance, copper.clearance}))
Collides(routes) ==
  \E r \in TunedRoutes(routes) :
    \/ \E q \in DOMAIN routes \ {r} : CollidesWithRoute(r, q, routes)
    \/ \E copper \in wiring.copper : CollidesWithCopper(r, copper, routes)

(* The routes of a pair are one path at the pair's spacing.                *)
IsCoupled(assembly, routes) ==
  \A pair \in Range(call.pair) :
    \E p, q \in Range(assembly) :
      /\ p.net = pair.positive /\ q.net = pair.negative /\ 0 \notin {p.route, q.route}
      /\ LET a == routes[p.route]
             b == routes[q.route]
             apart(n, k) == b.points[n][k] - a.points[n][k]
             spacing == pair.spacing + a.half + b.half
         IN /\ a.layer = b.layer /\ Len(a.points) = Len(b.points)
            /\ apart(1, 1) * apart(1, 1) + apart(1, 2) * apart(1, 2) = spacing * spacing
            /\ \A n \in DOMAIN a.points, k \in {1, 2} : apart(n, k) = apart(1, k)

Skew(assembly, routes) ==
  LET lengths == {NetLength(p.net, routes) : p \in Range(assembly)}
  IN Max(lengths) - Min(lengths)

IsCertified(assembly, routes) ==
  /\ ~Collides(routes)
  /\ IsCoupled(assembly, routes)
  /\ Skew(assembly, routes) <= call.skew

-----------------------------------------------------------------------------
(* The patterns a synthesis chooses from.                                  *)

Target ==
  IF call.target # << >> THEN call.target[1]
  ELSE Max({NetLength(net, wiring.routes) : net \in Range(call.nets)})

PatternOf(net, route, side, region) ==
  [net |-> net, route |-> route, side |-> side, region |-> region, target |-> Target,
   tolerance |-> call.tolerance, amplitude |-> call.amplitude, pitch |-> call.pitch,
   cycles |-> call.cycles]

(* A net that needs no tuning has one pattern, around its first line.      *)
PlainPattern(net) ==
  LET r == Min(RoutesOf(net, wiring.routes))
  IN PatternOf(net, r, "Left", Grown(LineBox(wiring.routes[r], 1), call.amplitude + call.margin))

(* Any other has one for every line and side whose serpentine stays on the *)
(* board.                                                                  *)
StaysOnBoard(points, half) ==
  \A n \in 1..(Len(points) - 1) : OnBoardBy(wiring, Around({points[n], points[n + 1]}), half)
LinePatterns(net, r, n) ==
  LET route == wiring.routes[r]
      length == NetLength(net, wiring.routes)
      draft(side) == PatternOf(net, r, side, << >>)
      detour(side) == SerpentineOf(route, n, Cycles(length, draft(side)), draft(side))
      fits(side) == /\ HasRoom(route, n, Cycles(length, draft(side)), draft(side))
                    /\ StaysOnBoard(detour(side), route.half)
      pattern(side) == PatternOf(net, r, side, Grown(Around(Range(detour(side))), call.margin))
      sides == SelectSeq(<<"Left", "Right">>, fits)
  IN [k \in DOMAIN sides |-> pattern(sides[k])]
Patterns(net) ==
  IF IsSatisfied(PatternOf(net, 0, "Left", << >>), wiring.routes) THEN <<PlainPattern(net)>>
  ELSE IF CycleCounts(NetLength(net, wiring.routes), PatternOf(net, 0, "Left", << >>)) = {} THEN << >>
  ELSE FlattenSeq([r \in DOMAIN wiring.routes |->
         IF wiring.routes[r].net # net THEN << >>
         ELSE FlattenSeq([n \in LinesOf(wiring.routes[r]) |-> LinePatterns(net, r, n)])])

-----------------------------------------------------------------------------
(* The call.                                                               *)

PairFits(nets) ==
  \A pair \in Range(call.pair) : Len(nets) = 2 /\ Range(nets) = {pair.positive, pair.negative}
IsSound(nets) ==
  /\ Len(nets) >= 2 /\ IsInjective(nets) /\ PairFits(nets)
  /\ call.skew >= 0 /\ call.clearance >= 0
IsRequest ==
  /\ IsSound(call.nets)
  /\ call.amplitude > 0 /\ call.pitch > 0 /\ call.cycles > 0 /\ call.limit > 0
  /\ call.tolerance >= 0 /\ call.margin >= 0
  /\ \A target \in Range(call.target) : target > 0
IsPattern(p) ==
  /\ p.route # 0 => p.route \in RoutesOf(p.net, wiring.routes)
  /\ p.target > 0 /\ p.tolerance >= 0 /\ p.amplitude > 0 /\ p.pitch > 0 /\ p.cycles > 0

HasLength(net) ==
  \A r \in RoutesOf(net, wiring.routes) : \A n \in LinesOf(wiring.routes[r]) :
    IsStraight(wiring.routes[r], n)
IsMeasured(net) == RoutesOf(net, wiring.routes) # {} /\ HasLength(net)

TuningInit ==
  /\ wiring \in Wirings
  /\ choices = << >> /\ chosen = << >>
  /\ considered = 0 /\ member = 0
  /\ working = wiring.routes
  /\ verdict = "asked"

RefuseRequest ==
  /\ IsSynthesis
  /\ LET lost(net) == ~IsMeasured(net)
         poor(net) == Patterns(net) = << >>
         long(net) == NetLength(net, wiring.routes) > Target + call.tolerance
     IN \/ ~IsRequest /\ verdict' = "InvalidPolicy"
        \/ /\ IsRequest /\ \E net \in Range(call.nets) : lost(net)
           /\ verdict' = IF RoutesOf(SelectSeq(call.nets, lost)[1], wiring.routes) = {}
                         THEN "UnknownNet" ELSE "UnsupportedNetGeometry"
        \/ /\ IsRequest /\ \A net \in Range(call.nets) : ~lost(net)
           /\ \E net \in Range(call.nets) : long(net)
           /\ verdict' = "TargetBelowCurrent"
        \/ /\ IsRequest /\ \A net \in Range(call.nets) : ~lost(net) /\ ~long(net)
           /\ \E net \in Range(call.nets) : poor(net)
           /\ LET net == SelectSeq(call.nets, poor)[1]
              IN verdict' =
                   IF CycleCounts(NetLength(net, wiring.routes), PatternOf(net, 0, "Left", << >>)) = {}
                   THEN "UnreachableTarget" ELSE "NoEligibleSpan"

AuthoredNets == [m \in DOMAIN wiring.authored |-> wiring.authored[m].net]
RefuseGroup ==
  /\ ~IsSynthesis
  /\ ~(/\ IsSound(AuthoredNets)
       /\ \A p \in Range(wiring.authored) : IsPattern(p) /\ HasLength(p.net))
  /\ verdict' = "InvalidContract"

RefuseTuning ==
  /\ verdict = "asked"
  /\ RefuseRequest \/ RefuseGroup
  /\ UNCHANGED <<wiring, choices, chosen, considered, working, member>>

(* The first assembly takes the first pattern of each net.                 *)
Begin(patterns) ==
  /\ choices' = patterns
  /\ chosen' = [m \in DOMAIN patterns |-> 1]
  /\ considered' = 1 /\ member' = 1
  /\ verdict' = "tuning"
  /\ UNCHANGED <<wiring, working>>
BeginSynthesis ==
  /\ verdict = "asked" /\ IsSynthesis /\ IsRequest
  /\ \A net \in Range(call.nets) :
       /\ IsMeasured(net) /\ NetLength(net, wiring.routes) <= Target + call.tolerance
       /\ Patterns(net) # << >>
  /\ Begin([m \in DOMAIN call.nets |-> Patterns(call.nets[m])])
BeginGroup ==
  /\ verdict = "asked" /\ ~IsSynthesis /\ IsSound(AuthoredNets)
  /\ \A p \in Range(wiring.authored) : IsPattern(p) /\ HasLength(p.net)
  /\ Begin([m \in DOMAIN wiring.authored |-> <<wiring.authored[m]>>])

Assembly == [m \in DOMAIN choices |-> choices[m][chosen[m]]]

(* The groups that have a candidate left after the chosen one.             *)
Open == {m \in DOMAIN choices : chosen[m] < Len(choices[m])}

(* Not the code: the choices after the advanced one are left as they are.  *)
NextInPlace == [m \in DOMAIN choices |-> IF m = Max(Open) THEN chosen[m] + 1 ELSE chosen[m]]

(* The last choice that has a successor is advanced, those after it start  *)
(* again.                                                                  *)
NextChoice ==
  [m \in DOMAIN choices |->
     IF m < Max(Open) THEN chosen[m] ELSE IF m = Max(Open) THEN chosen[m] + 1 ELSE 1]

(* The next assembly starts from the routes as they are on the board.      *)
TryNext ==
  /\ chosen' = NextChoice
  /\ considered' = considered + 1
  /\ member' = 1
  /\ working' = wiring.routes
  /\ UNCHANGED verdict

Reject(why) ==
  /\ \/ /\ IsSynthesis /\ Open # {} /\ considered # call.limit
        /\ TryNext
     \/ /\ ~IsSynthesis \/ Open = {} \/ considered = call.limit
        /\ verdict' = IF ~IsSynthesis THEN why
                      ELSE IF Open = {} THEN "NoCertifiedAssembly" ELSE "CandidateLimitReached"
        /\ UNCHANGED <<chosen, considered, working, member>>
  /\ UNCHANGED <<wiring, choices>>

Realize ==
  /\ verdict = "tuning" /\ member \in DOMAIN choices
  /\ LET p == Assembly[member]
     IN \/ IsSatisfied(p, working) /\ UNCHANGED working
        \/ ~IsSatisfied(p, working) /\ Spans(p, working) # {} /\ working' = Tuned(p, working)
  /\ member' = member + 1
  /\ UNCHANGED <<wiring, choices, chosen, considered, verdict>>
RejectMember ==
  /\ verdict = "tuning" /\ member \in DOMAIN choices
  /\ ~IsSatisfied(Assembly[member], working) /\ Spans(Assembly[member], working) = {}
  /\ Reject("MemberRejected")

CertifyAssembly ==
  /\ verdict = "tuning" /\ member > Len(choices)
  /\ IsCertified(Assembly, working)
  /\ verdict' = IF TunedRoutes(working) = {} THEN "AlreadySatisfied" ELSE "Certified"
  /\ UNCHANGED <<wiring, choices, chosen, considered, working, member>>
RejectAssembly ==
  /\ verdict = "tuning" /\ member > Len(choices)
  /\ ~IsCertified(Assembly, working)
  /\ Reject(IF Collides(working) THEN "ClearanceViolation"
            ELSE IF ~IsCoupled(Assembly, working) THEN "DifferentialCouplingLost"
            ELSE "SkewExceeded")

TuningEnded == verdict \notin {"asked", "tuning"} /\ UNCHANGED tuningVars

TuningNext ==
  \/ RefuseTuning \/ BeginSynthesis \/ BeginGroup
  \/ Realize \/ RejectMember
  \/ CertifyAssembly \/ RejectAssembly
  \/ TuningEnded
TuningSpec == TuningInit /\ [][TuningNext]_tuningVars

-----------------------------------------------------------------------------
(* A tuning that is exposed meets its contract on the board as it then is:  *)
(* every net of the group has its length, all of them agree, tuned routes  *)
(* are clear of everything foreign, keep their ends, and no other route    *)
(* has changed.                                                            *)
TunedAsAsked ==
  verdict \in {"Certified", "AlreadySatisfied"} =>
    /\ \A p \in Range(Assembly) : IsSatisfied(p, working)
    /\ Skew(Assembly, working) <= call.skew
    /\ ~Collides(working)
    /\ \A r \in TunedRoutes(working) :
         LET old == wiring.routes[r]
             new == working[r]
         IN /\ \E p \in Range(Assembly) : p.net = new.net /\ p.route \in {0, r}
            /\ <<new.net, new.layer, new.half>> = <<old.net, old.layer, old.half>>
            /\ new.points[1] = old.points[1]
            /\ new.points[Len(new.points)] = old.points[Len(old.points)]
            /\ \A n \in LinesOf(new) : IsStraight(new, n)

(* What an assembly makes of the board: each net is tuned by itself.       *)
Outcome(assembly) ==
  [r \in DOMAIN wiring.routes |->
     LET own == {p \in Range(assembly) : p.net = wiring.routes[r].net
                                         /\ ~IsSatisfied(p, wiring.routes)}
     IN IF own = {} THEN wiring.routes[r]
        ELSE Tuned(CHOOSE p \in own : TRUE, wiring.routes)[r]]
Realizable(assembly) ==
  \A p \in Range(assembly) : IsSatisfied(p, wiring.routes) \/ Spans(p, wiring.routes) # {}

(* Choices in the order they are tried, and their number.                  *)
TriedBefore(a, b) == \E m \in DOMAIN a : a[m] < b[m] /\ \A l \in 1..(m - 1) : a[l] = b[l]
AllChoices == {c \in [DOMAIN choices -> 1..Max({Len(choices[m]) : m \in DOMAIN choices})] :
                 \A m \in DOMAIN choices : c[m] <= Len(choices[m])}

(* No assembly is left out: the one that is exposed is the first that can  *)
(* be certified, and none can when the call says so.                       *)
NoneLeftOut ==
  IsSynthesis /\ verdict \in {"Certified", "AlreadySatisfied", "NoCertifiedAssembly",
                              "CandidateLimitReached"} =>
    LET certifies(c) == LET assembly == [m \in DOMAIN choices |-> choices[m][c[m]]]
                        IN Realizable(assembly) /\ IsCertified(assembly, Outcome(assembly))
        earlier == {c \in AllChoices : TriedBefore(c, chosen)}
    IN /\ considered = Cardinality(earlier) + 1 /\ considered <= call.limit
       /\ \A c \in earlier : ~certifies(c)
       /\ certifies(chosen) <=> verdict \in {"Certified", "AlreadySatisfied"}
       /\ verdict = "NoCertifiedAssembly" => AllChoices = earlier \cup {chosen}
=============================================================================
