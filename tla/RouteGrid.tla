------------------------------ MODULE RouteGrid ------------------------------
(***************************************************************************)
(* The search grid of the negotiated router (src/autoroute.rs).  A grid is *)
(* a record [xs, ys, active, layers]: the coordinates of its lines, the    *)
(* planar points a route may pass, and the number of copper layers.        *)
(* Coordinates are whole multiples of the fine pitch, so that exact        *)
(* geometry is integer geometry; a node is named by its coordinates and    *)
(* not by the positions of its lines.                                      *)
(*                                                                         *)
(* Any-angle edges are not modelled.  The decision whether a segment is    *)
(* clear of the board's edge and of fixed copper is data of the problem.   *)
(***************************************************************************)
EXTENDS Integers, FiniteSets, SequencesExt

Node(p, l) == [x |-> p[1], y |-> p[2], layer |-> l]
Planar(n) == <<n.x, n.y>>
Nodes(g) == {Node(p, l) : p \in g.active, l \in 1..g.layers}

Distance(a, b) == IF a > b THEN a - b ELSE b - a

\* A span counted in pitches, rounded up.
Units(a, b) ==
  LET dx == Distance(a.x, b.x)
      dy == Distance(a.y, b.y)
  IN CHOOSE n \in 0..(dx + dy) :
       /\ n * n >= dx * dx + dy * dy
       /\ n = 0 \/ (n - 1) * (n - 1) < dx * dx + dy * dy

-----------------------------------------------------------------------------
(* Moves                                                                   *)

Ray(dx, dy, direction) == [step |-> <<dx, dy>>, direction |-> direction]
Orthogonal == {Ray(-1, 0, "Horizontal"), Ray(1, 0, "Horizontal"),
               Ray(0, -1, "Vertical"), Ray(0, 1, "Vertical")}
Diagonal == {Ray(-1, -1, "DiagonalRising"), Ray(1, 1, "DiagonalRising"),
             Ray(-1, 1, "DiagonalFalling"), Ray(1, -1, "DiagonalFalling")}
Rays(topology) ==
  IF topology = "Octilinear" THEN Orthogonal \cup Diagonal ELSE Orthogonal

\* How far the active points ahead of a node lie along a ray.
Ahead(g, n, step) ==
  LET spans == {Distance(a, b) : a, b \in g.xs \cup g.ys} \ {0} IN
  {k \in spans : <<n.x + k * step[1], n.y + k * step[2]>> \in g.active}

Nearest(g, n, step) ==
  LET k == Min(Ahead(g, n, step)) IN
  Node(<<n.x + k * step[1], n.y + k * step[2]>>, n.layer)

PlanarMoves(g, topology, n) ==
  {[to |-> Nearest(g, n, r.step), direction |-> r.direction] :
     r \in {r \in Rays(topology) : Ahead(g, n, r.step) # {}}}

ViaMoves(g, n) ==
  {[to |-> Node(Planar(n), l), direction |-> "Via"] :
     l \in {n.layer - 1, n.layer + 1} \cap 1..g.layers}

Moves(g, topology, n) == PlanarMoves(g, topology, n) \cup ViaMoves(g, n)

-----------------------------------------------------------------------------
(* Resources: what a route occupies and nets compete for                   *)

NodeOf(n) == [kind |-> "Node", at |-> {n}]
Transition(a, b) ==
  [kind |-> IF a.layer = b.layer THEN "Edge" ELSE "Via", at |-> {a, b}]

IsDiagonal(a, b) == /\ a.layer = b.layer
                    /\ a.x # b.x
                    /\ Distance(a.x, b.x) = Distance(a.y, b.y)

\* Crossings of a diagonal with the grid's lines, its ends included.
Breakpoints(g, a, b) ==
  {n \in [x : g.xs, y : g.ys, layer : {a.layer}] :
     /\ Distance(a.x, n.x) = Distance(a.y, n.y)
     /\ Distance(b.x, n.x) = Distance(b.y, n.y)
     /\ Distance(a.x, n.x) + Distance(n.x, b.x) = Distance(a.x, b.x)}

Cell(a, b) ==
  [kind |-> "DiagonalCell",
   at |-> {Node(<<Min({a.x, b.x}), Min({a.y, b.y})>>, a.layer),
           Node(<<Max({a.x, b.x}), Max({a.y, b.y})>>, a.layer)}]

CrossedCells(g, a, b) ==
  LET points == Breakpoints(g, a, b) IN
  {Cell(p[1], p[2]) : p \in
     {p \in points \X points :
        /\ p[1].x < p[2].x
        /\ ~\E q \in points : p[1].x < q.x /\ q.x < p[2].x}}

TransitionResources(g, a, b) ==
  {Transition(a, b)}
  \cup IF IsDiagonal(a, b)
       THEN CrossedCells(g, a, b)
            \cup {NodeOf(n) : n \in Breakpoints(g, a, b) \ {a, b}}
       ELSE {}

PathEdges(path) == {<<path[i], path[i + 1]>> : i \in 1..(Len(path) - 1)}

PathResources(g, path) ==
  {NodeOf(path[i]) : i \in DOMAIN path}
  \cup UNION {TransitionResources(g, e[1], e[2]) : e \in PathEdges(path)}

-----------------------------------------------------------------------------
(* Exact clearance between routed edges.  A policy whose width and         *)
(* clearance do not fit between two lines of the grid is refused before    *)
(* routing (`validate_selected_spacing`), so the edges that come too close *)
(* are those that meet.                                                    *)

Side(a, b, c) == (b.x - a.x) * (c.y - a.y) - (b.y - a.y) * (c.x - a.x)

OnSegment(a, b, c) == /\ Side(a, b, c) = 0
                      /\ c.x \in Min({a.x, b.x})..Max({a.x, b.x})
                      /\ c.y \in Min({a.y, b.y})..Max({a.y, b.y})

Meet(e, f) ==
  /\ e[1].layer = f[1].layer
  /\ \/ \E n \in {f[1], f[2]} : OnSegment(e[1], e[2], n)
     \/ \E n \in {e[1], e[2]} : OnSegment(f[1], f[2], n)
     \/ /\ Side(e[1], e[2], f[1]) * Side(e[1], e[2], f[2]) < 0
        /\ Side(f[1], f[2], e[1]) * Side(f[1], f[2], e[2]) < 0

-----------------------------------------------------------------------------
(* Grids                                                                   *)

\* Multiples of the pitch from the board's corner at 0 to its far side.
Lines(size, pitch) == {k * pitch : k \in 0..(size \div pitch)}

\* The lines, and those a pair's other net needs beside them.
Translated(lines, size, offset) ==
  lines \cup ({l + offset : l \in lines} \cap 0..size)

\* `FeatureAligned` with no halo: the coarse lines, those of the features and
\* their translations by the offsets of the differential pairs, in turn.
CoarseGrid(board, pitch, features, offsets) ==
  LET aligned(size, axis) ==
        FoldLeft(LAMBDA lines, offset : Translated(lines, size, offset[axis]),
                 Lines(size, pitch) \cup {size} \cup {f[axis] : f \in features},
                 offsets)
      xs == aligned(board.width, 1)
      ys == aligned(board.height, 2)
  IN [xs |-> xs, ys |-> ys, active |-> xs \X ys, layers |-> board.layers]

Within(region, p) == /\ p[1] \in region.min[1]..region.max[1]
                     /\ p[2] \in region.min[2]..region.max[2]

\* `LocallyRefined`: coarse crossings, and every fine point of a region.
RefinedGrid(board, pitch, regions) ==
  LET coarseXs == Lines(board.width, pitch)
      coarseYs == Lines(board.height, pitch)
      xs == coarseXs \cup UNION {r.min[1]..r.max[1] : r \in regions}
      ys == coarseYs \cup UNION {r.min[2]..r.max[2] : r \in regions}
  IN [xs |-> xs, ys |-> ys, layers |-> board.layers,
      active |-> {p \in xs \X ys : \/ p \in coarseXs \X coarseYs
                                   \/ \E r \in regions : Within(r, p)}]

-----------------------------------------------------------------------------
(* Refinement regions of the adaptive rounds                               *)

Hull(points) ==
  [min |-> <<Min({p[1] : p \in points}), Min({p[2] : p \in points})>>,
   max |-> <<Max({p[1] : p \in points}), Max({p[2] : p \in points})>>]

\* The coarse line nearest to a range no coarse line crosses, the first of
\* several; the range is stretched to it.
Stretch(low, high, lines) ==
  IF lines \cap low..high # {} THEN <<low, high>>
  ELSE LET gap(l) == Min({Distance(l, low), Distance(l, high)})
           best == Min({l \in lines : \A m \in lines : gap(l) <= gap(m)})
       IN <<Min({low, best}), Max({high, best})>>

PaddedRange(low, high, size, padding, lines) ==
  Stretch(Max({0, low - padding}), Min({size, high + padding}), lines)

\* The region refined for a hotspot, a set with none or one element.
RegionsFor(board, pitch, padding, hull) ==
  LET rx == PaddedRange(hull.min[1], hull.max[1], board.width, padding,
                        Lines(board.width, pitch))
      ry == PaddedRange(hull.min[2], hull.max[2], board.height, padding,
                        Lines(board.height, pitch))
  IN {r \in {[min |-> <<rx[1], ry[1]>>, max |-> <<rx[2], ry[2]>>]} :
        r.min[1] < r.max[1] /\ r.min[2] < r.max[2]}

Overlap(r, s) == /\ r.min[1] <= s.max[1] /\ s.min[1] <= r.max[1]
                 /\ r.min[2] <= s.max[2] /\ s.min[2] <= r.max[2]

\* Not the code: what the grown region overlaps is not looked for again.
InsertOnce(region, merged) ==
  LET met == {s \in merged : Overlap(s, region)} IN
  (merged \ met) \cup {Hull(UNION {{r.min, r.max} : r \in met \cup {region}})}

\* A region that is added absorbs what it overlaps, and what it overlaps then.
Insert(region, merged) ==
  LET grown[k \in 0..Cardinality(merged)] ==
        IF k = 0 THEN region
        ELSE LET sofar == grown[k - 1]
                 met == {s \in merged : Overlap(s, sofar)}
             IN Hull(UNION {{r.min, r.max} : r \in met \cup {sofar}})
      whole == grown[Cardinality(merged)]
  IN {s \in merged : ~Overlap(s, whole)} \cup {whole}

\* The code inserts the regions in their order; the result does not depend
\* on it.
Merge(regions) == FoldSet(Insert, {}, regions)
=============================================================================
