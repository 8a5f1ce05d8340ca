-------------------------- MODULE NegotiatedRouterProofs --------------------------
(***************************************************************************)
(* What holds of every call of the negotiated router, for every board,     *)
(* set of terminals, rules and policy: the theorems RouterInvHolds,        *)
(* StepsShorten, RoundsTile and RoutingIsComplete.                         *)
(*                                                                         *)
(* The lemmas go from the data up: grids; functions defined along          *)
(* predecessors; moves and the resources of a path; the bundles of a       *)
(* problem; costs, what a search has found and the paths that lead back    *)
(* from it; boxes and their merges; routes; then the invariant, one lemma  *)
(* per action, and the theorems.                                           *)
(***************************************************************************)
EXTENDS NegotiatedRouter, FoldFacts

-----------------------------------------------------------------------------
(* Grids                                                                    *)

IsGrid(g) ==
  /\ g.layers \in Nat
  /\ g.xs \subseteq Int /\ IsFiniteSet(g.xs)
  /\ g.ys \subseteq Int /\ IsFiniteSet(g.ys)
  /\ g.active \subseteq g.xs \X g.ys

Boxes == [min : Int \X Int, max : Int \X Int]
FinitelyMany == {s \in SUBSET Int : IsFiniteSet(s)}

(* The lines of a grid are finitely many whole coordinates (`Lines`).       *)
LEMMA LinesAreFinite ==
  ASSUME NEW size \in Nat, NEW pitch \in Nat \ {0}
  PROVE  /\ Lines(size, pitch) \in FinitelyMany
         /\ Lines(size, pitch) # {}
<1> DEFINE n == size \div pitch
           line == [k \in 0 .. n |-> k * pitch]
<1>1. n \in Nat
  OBVIOUS
<1>2. Lines(size, pitch) = {line[k] : k \in 0 .. n}
  BY DEF Lines
<1>3. IsFiniteSet(0 .. n)
  <2> HIDE DEF n
  <2>1. PICK zero \in Int : zero = 0
    OBVIOUS
  <2>2. IsFiniteSet(zero .. n)
    BY <1>1, FS_Interval
  <2> QED
    BY <2>1, <2>2
<1>4. Lines(size, pitch) \subseteq Int /\ Lines(size, pitch) # {}
  <2> HIDE DEF n
  <2>1. \A k \in 0 .. n : k * pitch \in Int
    BY <1>1
  <2>2. 0 \in 0 .. n
    BY <1>1
  <2> QED
    BY <2>1, <2>2 DEF Lines, n
<1>5. IsFiniteSet(Lines(size, pitch))
  <2> HIDE DEF n, line
  <2>1. \A S : IsFiniteSet(S) => IsFiniteSet({line[k] : k \in S})
    BY ImageIsFinite
  <2>2. IsFiniteSet({line[k] : k \in 0 .. n})
    BY <2>1, <1>3
  <2> QED
    BY <1>2, <2>2
<1> QED
  BY <1>4, <1>5 DEF FinitelyMany

(* Adding finitely many whole coordinates keeps them finitely many.         *)
LEMMA UnionIsFinite ==
  ASSUME NEW A \in FinitelyMany, NEW B \in FinitelyMany
  PROVE  A \cup B \in FinitelyMany
  BY FS_Union DEF FinitelyMany

(* The lines a pair's other net adds are finitely many.                     *)
LEMMA TranslatedIsFinite ==
  ASSUME NEW lines \in FinitelyMany, NEW size \in Nat, NEW offset \in Int
  PROVE  Translated(lines, size, offset) \in FinitelyMany
<1> DEFINE there == {l + offset : l \in lines} \cap 0 .. size
<1>1. PICK zero \in Int : zero = 0
  OBVIOUS
<1>2. IsFiniteSet(zero .. size)
  BY FS_Interval
<1>3. there \subseteq zero .. size
  BY <1>1
<1>4. there \in FinitelyMany
  <2>1. there \subseteq Int
    BY <1>1, <1>3
  <2>2. IsFiniteSet(there)
    BY <1>2, <1>3, FS_Subset
  <2> QED
    BY <2>1, <2>2 DEF FinitelyMany
<1> QED
  BY <1>4, UnionIsFinite DEF Translated

(* The lines of a coarse grid along one axis are finitely many.             *)
LEMMA AlignedIsFinite ==
  ASSUME NEW size \in Nat, NEW lines \in FinitelyMany, NEW offsets, NEW axis \in {1, 2},
         offsets \in Seq(Int \X Int)
  PROVE  FoldLeft(LAMBDA sofar, offset : Translated(sofar, size, offset[axis]), lines, offsets)
           \in FinitelyMany
<1> DEFINE S == DOMAIN offsets
           pick == [s \in SUBSET S |-> Max(s)]
           op == [i \in S |-> [sofar \in FinitelyMany |->
                                 Translated(sofar, size, offsets[i][axis])]]
           Solves(it) == it = [s \in SUBSET S |-> IF s = {} THEN lines
                                ELSE Translated(it[s \ {Max(s)}], size, offsets[Max(s)][axis])]
           chosen == CHOOSE it : Solves(it)
<1>1. IsFiniteSet(S) /\ S \subseteq Int
  BY PlacesAreFinite
<1>2. \A s \in SUBSET S : s # {} => Max(s) \in s
  <2> SUFFICES ASSUME NEW s \in SUBSET S, s # {}
               PROVE  Max(s) \in s
    OBVIOUS
  <2>1. IsFiniteSet(s) /\ s \subseteq Int
    BY <1>1, FS_Subset
  <2> QED
    BY <2>1, MinMaxOfFinite
<1>3. \A i \in S : offsets[i][axis] \in Int
  <2>1. \A i \in S : offsets[i] \in Int \X Int
    BY PlacesAreFinite
  <2> QED
    BY <2>1
<1>4. \A i \in S : \A sofar \in FinitelyMany :
        /\ Translated(sofar, size, offsets[i][axis]) \in FinitelyMany
        /\ op[i][sofar] = Translated(sofar, size, offsets[i][axis])
  BY <1>3, TranslatedIsFinite
<1>5. op \in [S -> [FinitelyMany -> FinitelyMany]]
  BY <1>4
<1>6. \A s \in SUBSET S : s # {} => pick[s] \in s /\ pick[s] = Max(s)
  BY <1>2
<1>7. PICK it \in [SUBSET S -> FinitelyMany] : IsFold(it, S, lines, pick, op)
  <2> HIDE DEF pick, op, S
  <2>1. \A s \in SUBSET S : s # {} => pick[s] \in s
    BY <1>6
  <2>2. IsFiniteSet(S) /\ lines \in FinitelyMany
    BY <1>1
  <2>3. CanFold(S, FinitelyMany, lines, pick, op)
    BY <2>2, <1>5, <2>1 DEF CanFold
  <2> QED
    BY <2>3, FoldExists, Zenon
<1>8. Solves(it)
  <2> SUFFICES ASSUME NEW s \in SUBSET S
               PROVE  it[s] = IF s = {} THEN lines
                              ELSE Translated(it[s \ {Max(s)}], size, offsets[Max(s)][axis])
    BY <1>7, Zenon DEF IsFold
  <2>1. CASE s = {}
    BY <1>7, <2>1, Zenon DEF IsFold
  <2>2. CASE s # {}
    <3>1. it[s] = op[pick[s]][it[s \ {pick[s]}]]
      BY <1>7, <2>2, Zenon DEF IsFold
    <3>2. it[s \ {pick[s]}] \in FinitelyMany /\ pick[s] \in S
      BY <1>6, <1>7, <2>2, Zenon
    <3>3. it[s] = Translated(it[s \ {pick[s]}], size, offsets[pick[s]][axis])
      BY <3>1, <3>2, <1>4, Zenon
    <3> QED
      BY <3>3, <1>6, <2>2, Zenon
  <2> QED
    BY <2>1, <2>2
<1>9. Solves(chosen)
  BY <1>8, Zenon
<1>10. chosen[S] \in FinitelyMany
  <2> HIDE DEF chosen
  <2>1. chosen[{}] = lines
    BY <1>9, Zenon
  <2>2. ASSUME NEW s \in SUBSET S, s # {}, chosen[s \ {pick[s]}] \in FinitelyMany
        PROVE  chosen[s] \in FinitelyMany
    <3>1. chosen[s] = Translated(chosen[s \ {Max(s)}], size, offsets[Max(s)][axis])
      BY <1>9, <2>2, Zenon
    <3>2. chosen[s] = Translated(chosen[s \ {pick[s]}], size, offsets[pick[s]][axis])
          /\ pick[s] \in S
      BY <3>1, <1>6, <2>2, Zenon
    <3> QED
      BY <3>2, <2>2, <1>4, Zenon
  <2>3. StaysIn(chosen, S, FinitelyMany, pick)
    BY <2>1, <2>2, <1>6, Zenon DEF StaysIn
  <2> HIDE DEF pick, S
  <2> QED
    BY <2>3, <1>1, FoldStays
<1> QED
  BY <1>10, Zenon DEF FoldLeft, MapThenFoldSet

(* The coarse grid of a board is a grid: finitely many points.              *)
LEMMA CoarseGridIsGrid ==
  ASSUME NEW board, IsBoard(board), NEW pitch \in Nat \ {0},
         NEW features, features \subseteq Int \X Int, IsFiniteSet(features),
         NEW offsets, offsets \in Seq(Int \X Int)
  PROVE  IsGrid(CoarseGrid(board, pitch, features, offsets))
<1>1. board.width \in Nat /\ board.height \in Nat /\ board.layers \in Nat
  BY DEF IsBoard
<1>2. \A axis \in {1, 2} : {f[axis] : f \in features} \in FinitelyMany
  <2> SUFFICES ASSUME NEW axis \in {1, 2}
               PROVE  {f[axis] : f \in features} \in FinitelyMany
    OBVIOUS
  <2> DEFINE along == [f \in features |-> f[axis]]
             got == {along[f] : f \in features}
  <2>1. \A f \in features : f[axis] \in Int
    OBVIOUS
  <2>2. IsFiniteSet(got)
    <3> HIDE DEF along
    <3>1. \A S : IsFiniteSet(S) => IsFiniteSet({along[f] : f \in S})
      BY ImageIsFinite
    <3> QED
      BY <3>1
  <2>3. got = {f[axis] : f \in features}
    OBVIOUS
  <2> QED
    BY <2>1, <2>2, <2>3 DEF FinitelyMany
<1>3. \A size \in Nat : {size} \in FinitelyMany
  BY FS_Singleton DEF FinitelyMany
<1>4. \A size \in Nat, axis \in {1, 2} :
        Lines(size, pitch) \cup {size} \cup {f[axis] : f \in features} \in FinitelyMany
  BY <1>2, <1>3, LinesAreFinite, UnionIsFinite
<1> DEFINE xs == FoldLeft(LAMBDA lines, offset : Translated(lines, board.width, offset[1]),
                   Lines(board.width, pitch) \cup {board.width} \cup {f[1] : f \in features},
                   offsets)
           ys == FoldLeft(LAMBDA lines, offset : Translated(lines, board.height, offset[2]),
                   Lines(board.height, pitch) \cup {board.height} \cup {f[2] : f \in features},
                   offsets)
<1>5. xs \in FinitelyMany
  BY <1>1, <1>4, AlignedIsFinite
<1>6. ys \in FinitelyMany
  BY <1>1, <1>4, AlignedIsFinite
<1>7. CoarseGrid(board, pitch, features, offsets)
        = [xs |-> xs, ys |-> ys, active |-> xs \X ys, layers |-> board.layers]
  BY Zenon DEF CoarseGrid
<1> HIDE DEF xs, ys
<1> QED
  BY <1>1, <1>5, <1>6, <1>7 DEF IsGrid, FinitelyMany

-----------------------------------------------------------------------------
(* Recursion along predecessors                                             *)

\* Whoever goes from predecessor to predecessor comes to a root.
IsRooted(D, prev) ==
  /\ prev \in [D -> D]
  /\ \A C \in SUBSET D : C # {} /\ (\A x \in C : prev[x] \in C) => \E x \in C : prev[x] = x

IsRecursion(f, D, prev, base, op) ==
  f = [x \in D |-> IF prev[x] = x THEN base[x] ELSE op[x][f[prev[x]]]]

(* A recursion along predecessors that lead to roots has a solution.        *)
LEMMA RecursionExists ==
  ASSUME NEW D, NEW T, NEW prev, IsRooted(D, prev),
         NEW base \in [D -> T], NEW op \in [D -> [T -> T]]
  PROVE  \E f \in [D -> T] : IsRecursion(f, D, prev, base, op)
<1> DEFINE Closed(C) == C \in SUBSET D /\ \A x \in C : prev[x] \in C
           Solves(f, C) == \A x \in C : f[x] = IF prev[x] = x THEN base[x] ELSE op[x][f[prev[x]]]
           solved == {C \in SUBSET D : Closed(C) /\ \E f \in [C -> T] : Solves(f, C)}
<1>1. ASSUME NEW A \in solved, NEW B \in solved,
             NEW f \in [A -> T], Solves(f, A), NEW g \in [B -> T], Solves(g, B),
             NEW x \in A \cap B
      PROVE  f[x] = g[x]
  <2> DEFINE differ == {y \in A \cap B : f[y] # g[y]}
  <2>1. differ \in SUBSET D /\ Closed(A) /\ Closed(B)
    OBVIOUS
  <2>2. \A y \in differ : prev[y] # y /\ prev[y] \in differ
    <3> SUFFICES ASSUME NEW y \in differ
                 PROVE  prev[y] # y /\ prev[y] \in differ
      OBVIOUS
    <3>1. y \in A /\ y \in B /\ prev[y] \in A /\ prev[y] \in B
      BY <2>1
    <3>2. f[y] = IF prev[y] = y THEN base[y] ELSE op[y][f[prev[y]]]
      BY <1>1, <3>1, Zenon
    <3>3. g[y] = IF prev[y] = y THEN base[y] ELSE op[y][g[prev[y]]]
      BY <1>1, <3>1, Zenon
    <3>4. f[y] # g[y]
      OBVIOUS
    <3>5. prev[y] # y /\ f[prev[y]] # g[prev[y]]
      BY <3>2, <3>3, <3>4, Zenon
    <3> QED
      BY <3>1, <3>5
  <2>3. differ = {}
    BY <2>1, <2>2, Zenon DEF IsRooted
  <2> QED
    BY <2>3
<1> DEFINE U == UNION solved
           F == [x \in U |-> (CHOOSE v : \E C \in solved : x \in C /\ \E f \in [C -> T] :
                                 Solves(f, C) /\ v = f[x])]
<1>2. ASSUME NEW C \in solved, NEW f \in [C -> T], Solves(f, C), NEW x \in C
      PROVE  F[x] = f[x]
  <2>1. x \in U
    OBVIOUS
  <2> DEFINE Is(v) == \E E \in solved : x \in E /\ \E h \in [E -> T] : Solves(h, E) /\ v = h[x]
  <2>2. Is(f[x])
    BY <1>2
  <2>3. Is(CHOOSE v : Is(v))
    BY <2>2, Zenon
  <2>4. F[x] = CHOOSE v : Is(v)
    BY <2>1, Zenon
  <2>5. PICK E \in solved : x \in E /\ \E h \in [E -> T] : Solves(h, E) /\ F[x] = h[x]
    BY <2>3, <2>4, Zenon
  <2>6. PICK h \in [E -> T] : Solves(h, E) /\ F[x] = h[x]
    BY <2>5, Zenon
  <2>7. f[x] = h[x]
    <3> HIDE DEF solved, Solves, F
    <3> QED
      BY <1>1, <1>2, <2>5, <2>6
  <2> QED
    BY <2>6, <2>7, Zenon
<1>3. \A x \in U : /\ F[x] \in T /\ prev[x] \in U
                   /\ F[x] = IF prev[x] = x THEN base[x] ELSE op[x][F[prev[x]]]
  <2> SUFFICES ASSUME NEW x \in U
               PROVE  /\ F[x] \in T /\ prev[x] \in U
                      /\ F[x] = IF prev[x] = x THEN base[x] ELSE op[x][F[prev[x]]]
    BY Zenon
  <2>1. PICK C \in solved : x \in C
    BY Zenon
  <2>2. PICK f \in [C -> T] : Solves(f, C)
    BY <2>1, Zenon
  <2>3. prev[x] \in C
    BY <2>1
  <2>4. F[x] = f[x] /\ F[prev[x]] = f[prev[x]]
    <3> HIDE DEF solved, Solves, F
    <3> QED
      BY <1>2, <2>1, <2>2, <2>3
  <2>5. f[x] = IF prev[x] = x THEN base[x] ELSE op[x][f[prev[x]]]
    BY <2>1, <2>2, Zenon
  <2>6. f[x] \in T
    BY <2>1, <2>2
  <2> HIDE DEF F, Solves
  <2> QED
    BY <2>1, <2>3, <2>4, <2>5, <2>6
<1>4. U = D
  <2> DEFINE rest == D \ U
  <2>0. U \subseteq D
    OBVIOUS
  <2>1. ASSUME NEW x \in rest, prev[x] = x \/ prev[x] \in U
        PROVE  FALSE
    <3> DEFINE C == U \cup {x}
               f == [y \in C |-> IF y \in U THEN F[y]
                                 ELSE IF prev[x] = x THEN base[x] ELSE op[x][F[prev[x]]]]
    <3> HIDE DEF U, F
    <3>1. x \in D /\ x \notin U
      OBVIOUS
    <3>2. Closed(C)
      BY <2>0, <2>1, <1>3, <3>1
    <3>3. \A y \in U : f[y] = F[y]
      OBVIOUS
    <3>4. f[x] = IF prev[x] = x THEN base[x] ELSE op[x][F[prev[x]]]
      BY <3>1
    <3>5. f \in [C -> T]
      <4>1. prev[x] # x => F[prev[x]] \in T
        BY <2>1, <1>3
      <4>2. (IF prev[x] = x THEN base[x] ELSE op[x][F[prev[x]]]) \in T
        BY <3>1, <4>1
      <4> QED
        BY <1>3, <4>2
    <3>6. Solves(f, C)
      <4> SUFFICES ASSUME NEW y \in C
                   PROVE  f[y] = IF prev[y] = y THEN base[y] ELSE op[y][f[prev[y]]]
        OBVIOUS
      <4> HIDE DEF f
      <4>1. CASE y \in U
        BY <4>1, <1>3, <3>3
      <4>2. CASE y = x
        BY <4>2, <2>1, <3>3, <3>4
      <4> QED
        BY <4>1, <4>2
    <3>7. C \in solved
      BY <3>2, <3>5, <3>6, Zenon
    <3> QED
      BY <3>1, <3>7 DEF U
  <2>2. \A x \in rest : prev[x] # x /\ prev[x] \in rest
    <3> HIDE DEF U
    <3> QED
      BY <2>1 DEF IsRooted
  <2>3. rest = {}
    <3> HIDE DEF U
    <3> QED
      BY <2>2, Zenon DEF IsRooted
  <2> QED
    BY <2>0, <2>3
<1>5. F \in [D -> T] /\ F = [x \in D |-> IF prev[x] = x THEN base[x] ELSE op[x][F[prev[x]]]]
  <2> DEFINE G == [x \in D |-> IF prev[x] = x THEN base[x] ELSE op[x][F[prev[x]]]]
  <2>1. F = [x \in U |-> F[x]] /\ DOMAIN F = U
    OBVIOUS
  <2> HIDE DEF F, U
  <2>2. F \in [D -> T]
    BY <2>1, <1>3, <1>4
  <2>3. G = F
    BY <2>2, <1>3, <1>4
  <2> QED
    BY <2>2, <2>3
<1> QED
  BY <1>5, Zenon DEF IsRecursion

-----------------------------------------------------------------------------
(* Nodes and moves                                                          *)

Points == [x : Int, y : Int, layer : Int]

(* The nodes of a grid are points with integer coordinates.                 *)
LEMMA NodesArePoints ==
  ASSUME NEW g, IsGrid(g)
  PROVE  /\ Nodes(g) \subseteq Points
         /\ \A n \in Points : n \in Nodes(g) <=> Planar(n) \in g.active /\ n.layer \in 1 .. g.layers
<1>1. \A p \in g.active : p \in Int \X Int /\ p = <<p[1], p[2]>>
  BY DEF IsGrid
<1>2. Nodes(g) \subseteq Points
  <2> SUFFICES ASSUME NEW p \in g.active, NEW l \in 1 .. g.layers
               PROVE  Node(p, l) \in Points
    BY DEF Nodes
  <2>1. p[1] \in Int /\ p[2] \in Int /\ l \in Int
    BY <1>1 DEF IsGrid
  <2> QED
    BY <2>1 DEF Node, Points
<1>3. ASSUME NEW n \in Points, n \in Nodes(g)
      PROVE  Planar(n) \in g.active /\ n.layer \in 1 .. g.layers
  <2>1. PICK p \in g.active, l \in 1 .. g.layers : n = Node(p, l)
    BY <1>3 DEF Nodes
  <2>2. n.x = p[1] /\ n.y = p[2] /\ n.layer = l
    BY <2>1 DEF Node
  <2> QED
    BY <1>1, <2>2 DEF Planar
<1>4. ASSUME NEW n \in Points, Planar(n) \in g.active, n.layer \in 1 .. g.layers
      PROVE  n \in Nodes(g)
  <2>1. n = [x |-> n.x, y |-> n.y, layer |-> n.layer]
    BY DEF Points
  <2>2. Planar(n)[1] = n.x /\ Planar(n)[2] = n.y
    BY DEF Planar
  <2>3. n = Node(Planar(n), n.layer)
    BY <2>1, <2>2, Zenon DEF Node
  <2>4. \A p \in g.active : \A l \in 1 .. g.layers : Node(p, l) \in Nodes(g)
    BY DEF Nodes
  <2> QED
    BY <1>4, <2>3, <2>4, Zenon
<1> QED
  BY <1>2, <1>3, <1>4

Steps == {0 - 1, 0, 1}

(* What a ray is: a direction and the step that goes there.                 *)
LEMMA RayFacts ==
  ASSUME NEW topology, NEW r \in Rays(topology)
  PROVE  /\ r.step[1] \in Steps /\ r.step[2] \in Steps
         /\ r.direction = IF r.step[2] = 0 THEN "Horizontal"
                          ELSE IF r.step[1] = 0 THEN "Vertical"
                          ELSE IF r.step[1] = r.step[2] THEN "DiagonalRising"
                          ELSE "DiagonalFalling"
         /\ r.step[1] # 0 \/ r.step[2] # 0
<1>1. r \in Orthogonal \cup Diagonal
  BY DEF Rays
<1>2. PICK s, t, d : r = [step |-> <<s, t>>, direction |-> d]
                     /\ \/ s \in {-1, 1} /\ t = 0 /\ d = "Horizontal"
                        \/ s = 0 /\ t \in {-1, 1} /\ d = "Vertical"
                        \/ s \in {-1, 1} /\ t = s /\ d = "DiagonalRising"
                        \/ s \in {-1, 1} /\ t = 0 - s /\ d = "DiagonalFalling"
  BY <1>1 DEF Orthogonal, Diagonal, Ray
<1>3. r.step[1] = s /\ r.step[2] = t /\ r.direction = d
  BY <1>2
<1> QED
  BY <1>2, <1>3 DEF Steps

(* There are finitely many directions to go in.                             *)
LEMMA RaysAreFinite ==
  ASSUME NEW topology
  PROVE  IsFiniteSet(Rays(topology))
<1>1. \A a, b, c, d : IsFiniteSet({a, b, c, d})
  <2>1. \A a, b : IsFiniteSet({a} \cup {b})
    BY FS_Singleton, FS_Union
  <2>2. \A a, b, c, d : IsFiniteSet(({a} \cup {b}) \cup ({c} \cup {d}))
    <3>1. \A A, B : IsFiniteSet(A) /\ IsFiniteSet(B) => IsFiniteSet(A \cup B)
      BY FS_Union
    <3> QED
      BY <2>1, <3>1, Zenon
  <2> TAKE a, b, c, d
  <2>3. {a, b, c, d} = ({a} \cup {b}) \cup ({c} \cup {d})
    OBVIOUS
  <2>4. IsFiniteSet(({a} \cup {b}) \cup ({c} \cup {d}))
    BY <2>2, Zenon
  <2> HIDE <2>2
  <2> QED
    BY <2>3, <2>4
<1>2. IsFiniteSet(Orthogonal) /\ IsFiniteSet(Diagonal)
  BY <1>1, Zenon DEF Orthogonal, Diagonal
<1>3. IsFiniteSet(Orthogonal \cup Diagonal)
  BY <1>2, FS_Union
<1> QED
  BY <1>2, <1>3, Zenon DEF Rays

(* A planar move goes to the nearest node along its ray.                    *)
LEMMA NearestFacts ==
  ASSUME NEW g, IsGrid(g), NEW n \in Nodes(g), NEW topology, NEW r \in Rays(topology),
         Ahead(g, n, r.step) # {}
  PROVE  \E k \in Nat \ {0} :
           /\ Nearest(g, n, r.step)
                = [x |-> n.x + k * r.step[1], y |-> n.y + k * r.step[2], layer |-> n.layer]
           /\ <<n.x + k * r.step[1], n.y + k * r.step[2]>> \in g.active
<1> DEFINE k == Min(Ahead(g, n, r.step))
<1>1. \A a, b \in g.xs \cup g.ys : Distance(a, b) \in Nat
  <2>1. \A a \in g.xs \cup g.ys : a \in Int
    BY DEF IsGrid
  <2> QED
    BY <2>1 DEF Distance
<1>2. Ahead(g, n, r.step) \subseteq Nat \ {0}
  BY <1>1 DEF Ahead
<1>3. k \in Ahead(g, n, r.step)
  BY <1>2, MinOfNaturals
<1> HIDE DEF k
<1>4. k \in Nat \ {0} /\ <<n.x + k * r.step[1], n.y + k * r.step[2]>> \in g.active
  BY <1>2, <1>3 DEF Ahead
<1>7. Nearest(g, n, r.step)
        = [x |-> n.x + k * r.step[1], y |-> n.y + k * r.step[2], layer |-> n.layer]
  BY DEF Nearest, Node, k
<1> QED
  BY <1>4, <1>7

(* Directions, as the moves have them.                                      *)
LEMMA HeadingOfStep ==
  ASSUME NEW a \in Points, NEW b \in Points, NEW k \in Nat \ {0}, NEW s \in Steps, NEW t \in Steps,
         b.x = a.x + k * s, b.y = a.y + k * t, b.layer = a.layer, s # 0 \/ t # 0
  PROVE  /\ Heading(a, b) = IF t = 0 THEN "Horizontal" ELSE IF s = 0 THEN "Vertical"
                            ELSE IF s = t THEN "DiagonalRising" ELSE "DiagonalFalling"
         /\ a # b
<1>0. a.x \in Int /\ a.y \in Int /\ a.layer \in Int /\ k * k > 0
  BY DEF Points
<1>1. a.y = b.y <=> t = 0
  BY <1>0 DEF Steps
<1>2. a.x = b.x <=> s = 0
  BY <1>0 DEF Steps
<1>3. s # 0 /\ t # 0 => ((b.x - a.x) * (b.y - a.y) > 0 <=> s = t)
  BY <1>0 DEF Steps
<1> QED
  BY <1>1, <1>2, <1>3, Zenon DEF Heading

(* A move goes to another node, in the direction it says.                   *)
LEMMA MoveFacts ==
  ASSUME NEW g, IsGrid(g), NEW n \in Nodes(g), NEW topology, NEW m \in Moves(g, topology, n)
  PROVE  m.to \in Nodes(g) /\ m.direction = Heading(n, m.to) /\ m.to # n
<1>0. n \in Points /\ n.layer \in 1 .. g.layers /\ Planar(n) \in g.active
  BY NodesArePoints
<1>1. CASE m \in PlanarMoves(g, topology, n)
  <2>1. PICK r \in Rays(topology) : /\ Ahead(g, n, r.step) # {}
                                    /\ m.to = Nearest(g, n, r.step)
                                    /\ m.direction = r.direction
    BY <1>1 DEF PlanarMoves
  <2>2. PICK k \in Nat \ {0} :
          /\ m.to = [x |-> n.x + k * r.step[1], y |-> n.y + k * r.step[2], layer |-> n.layer]
          /\ <<n.x + k * r.step[1], n.y + k * r.step[2]>> \in g.active
    BY <2>1, NearestFacts
  <2>3. r.step[1] \in Steps /\ r.step[2] \in Steps
    BY RayFacts
  <2>4. m.to \in Points
    BY <1>0, <2>2, <2>3 DEF Points, Steps
  <2>5. m.to \in Nodes(g)
    <3>1. Planar(m.to) \in g.active /\ m.to.layer = n.layer
      BY <2>2 DEF Planar
    <3> QED
      BY <1>0, <2>4, <3>1, NodesArePoints
  <2>6. m.to.x = n.x + k * r.step[1] /\ m.to.y = n.y + k * r.step[2] /\ m.to.layer = n.layer
    BY <2>2
  <2>7. m.direction = Heading(n, m.to) /\ n # m.to
    <3>1. r.step[1] # 0 \/ r.step[2] # 0
      BY RayFacts
    <3>2. r.direction = IF r.step[2] = 0 THEN "Horizontal"
                        ELSE IF r.step[1] = 0 THEN "Vertical"
                        ELSE IF r.step[1] = r.step[2] THEN "DiagonalRising"
                        ELSE "DiagonalFalling"
      BY RayFacts
    <3>3. PICK s \in Steps, t \in Steps : s = r.step[1] /\ t = r.step[2]
      BY <2>3
    <3>4. m.to.x = n.x + k * s /\ m.to.y = n.y + k * t /\ (s # 0 \/ t # 0)
      BY <2>6, <3>1, <3>3
    <3>5. /\ Heading(n, m.to) = IF t = 0 THEN "Horizontal" ELSE IF s = 0 THEN "Vertical"
                                ELSE IF s = t THEN "DiagonalRising" ELSE "DiagonalFalling"
          /\ n # m.to
      BY <1>0, <2>4, <2>6, <3>4, HeadingOfStep
    <3> QED
      BY <2>1, <3>2, <3>3, <3>5
  <2> QED
    BY <2>5, <2>7
<1>2. CASE m \in ViaMoves(g, n)
  <2>1. PICK l \in {n.layer - 1, n.layer + 1} \cap 1 .. g.layers :
          m.to = Node(Planar(n), l) /\ m.direction = "Via"
    BY <1>2 DEF ViaMoves
  <2>2. m.to = [x |-> n.x, y |-> n.y, layer |-> l] /\ n.layer \in Int
    BY <1>0, <2>1 DEF Points, Node, Planar
  <2>3. l # n.layer /\ l \in Int /\ l \in 1 .. g.layers
    BY <2>1, <2>2
  <2>4. m.to \in Points /\ m.to.layer = l /\ Planar(m.to) = Planar(n)
    BY <1>0, <2>2, <2>3 DEF Points, Planar
  <2>5. m.to \in Nodes(g)
    BY <1>0, <2>3, <2>4, NodesArePoints
  <2>6. Heading(n, m.to) = "Via"
    <3>1. n.layer # m.to.layer
      BY <2>3, <2>4
    <3> QED
      BY <3>1, Zenon DEF Heading
  <2> QED
    BY <2>1, <2>3, <2>4, <2>5, <2>6
<1> QED
  BY <1>1, <1>2 DEF Moves

(* A node has finitely many moves.                                          *)
LEMMA MovesAreFinite ==
  ASSUME NEW g, NEW n, NEW topology
  PROVE  IsFiniteSet(Moves(g, topology, n))
<1> DEFINE rays == {r \in Rays(topology) : Ahead(g, n, r.step) # {}}
           move == [r \in rays |-> [to |-> Nearest(g, n, r.step), direction |-> r.direction]]
           layers == {n.layer - 1, n.layer + 1} \cap 1 .. g.layers
           via == [l \in layers |-> [to |-> Node(Planar(n), l), direction |-> "Via"]]
<1>1. IsFiniteSet(rays)
  BY RaysAreFinite, FS_Subset
<1>2. IsFiniteSet(layers)
  <2>1. IsFiniteSet({n.layer - 1} \cup {n.layer + 1})
    BY FS_Singleton, FS_Union
  <2>2. layers \subseteq {n.layer - 1} \cup {n.layer + 1}
    OBVIOUS
  <2> QED
    BY <2>1, <2>2, FS_Subset
<1>3. PlanarMoves(g, topology, n) = {move[r] : r \in rays}
  BY DEF PlanarMoves
<1>4. ViaMoves(g, n) = {via[l] : l \in layers}
  BY DEF ViaMoves
<1> HIDE DEF rays, move, layers, via
<1>5. IsFiniteSet({move[r] : r \in rays})
  BY <1>1, ImageIsFinite
<1>6. IsFiniteSet({via[l] : l \in layers})
  BY <1>2, ImageIsFinite
<1> QED
  BY <1>3, <1>4, <1>5, <1>6, FS_Union DEF Moves

-----------------------------------------------------------------------------
(* Lengths and resources                                                    *)

\* The square of the distance of two points, their layers left out.
Span(a, b) == Distance(a.x, b.x) * Distance(a.x, b.x) + Distance(a.y, b.y) * Distance(a.y, b.y)

(* A rounded-up length is the least number whose square is at least that of *)
(* the length.                                                              *)
LEMMA UnitsFit ==
  ASSUME NEW a \in Points, NEW b \in Points
  PROVE  /\ Units(a, b) \in Nat /\ Span(a, b) \in Nat
         /\ Span(a, b) <= Units(a, b) * Units(a, b)
         /\ \A n \in Nat : Span(a, b) <= n * n => Units(a, b) <= n
<1> DEFINE dx == Distance(a.x, b.x)
           dy == Distance(a.y, b.y)
           Fits(n) == n * n >= dx * dx + dy * dy
                      /\ (n = 0 \/ (n - 1) * (n - 1) < dx * dx + dy * dy)
           T == {n \in 0 .. (dx + dy) : n * n >= dx * dx + dy * dy}
<1>1. dx \in Nat /\ dy \in Nat
  BY DEF Distance, Points
<1>0. Span(a, b) = dx * dx + dy * dy
  BY DEF Span
<1> HIDE DEF dx, dy
<1>2. dx + dy \in T
  <2>1. (dx + dy) * (dx + dy) = dx * dx + dy * dy + 2 * (dx * dy)
    BY <1>1
  <2>2. dx * dy >= 0
    BY <1>1
  <2>3. dx * dx \in Nat /\ dy * dy \in Nat /\ dx * dy \in Nat /\ dx + dy \in 0 .. (dx + dy)
    BY <1>1
  <2> QED
    BY <2>1, <2>2, <2>3
<1>3. PICK n \in T : \A m \in T : n <= m
  <2>0. PICK top \in Nat : top = dx + dy
    BY <1>1
  <2>1. T \subseteq Nat /\ T # {}
    <3>1. T = {n \in 0 .. top : n * n >= dx * dx + dy * dy}
      BY <2>0
    <3>2. T # {}
      BY <1>2, Zenon
    <3> HIDE DEF T
    <3> QED
      BY <3>1, <3>2
  <2> HIDE DEF T
  <2> QED
    BY <2>1, LeastNatural
<1>4. n \in 0 .. (dx + dy) /\ Fits(n)
  <2>1. n \in Nat /\ n \in 0 .. (dx + dy) /\ n * n >= dx * dx + dy * dy
    BY <1>1
  <2>2. CASE n # 0
    <3>1. n - 1 \in 0 .. (dx + dy) /\ ~(n <= n - 1)
      BY <2>1, <2>2, <1>1
    <3>2. n - 1 \notin T
      BY <1>3, <3>1, Zenon
    <3>3. ~((n - 1) * (n - 1) >= dx * dx + dy * dy)
      BY <3>1, <3>2
    <3>4. (n - 1) * (n - 1) \in Int /\ dx * dx + dy * dy \in Int
      BY <1>1, <2>1
    <3>5. \A u, v \in Int : ~(u >= v) => u < v
      OBVIOUS
    <3>6. (n - 1) * (n - 1) < dx * dx + dy * dy
      BY <3>3, <3>4, <3>5, Zenon
    <3> QED
      BY <2>1, <3>6, Zenon
  <2> QED
    BY <2>1, <2>2, Zenon
<1> DEFINE chosen == CHOOSE m \in 0 .. (dx + dy) : Fits(m)
<1>5. chosen \in 0 .. (dx + dy) /\ Fits(chosen)
  BY <1>4, Zenon
<1>6. Units(a, b) = chosen
  BY Zenon DEF Units, dx, dy
<1>7. PICK u : u = chosen
  OBVIOUS
<1>8. u \in Nat /\ Fits(u)
  <2>1. u \in 0 .. (dx + dy) /\ Fits(u)
    BY <1>5, <1>7, Zenon
  <2> QED
    BY <1>1, <2>1
<1> HIDE DEF chosen
<1>9. dx * dx \in Nat /\ dy * dy \in Nat
  BY <1>1
<1>10. ASSUME NEW k \in Nat, dx * dx + dy * dy <= k * k
       PROVE  u <= k
  <2> SUFFICES ASSUME k < u
               PROVE  FALSE
    BY <1>8
  <2>1. u # 0 /\ u - 1 \in Nat /\ k <= u - 1
    BY <1>8
  <2>2. (u - 1) * (u - 1) < dx * dx + dy * dy
    BY <1>8, <2>1, Zenon
  <2>3. PICK v \in Nat : v = u - 1
    BY <2>1
  <2>4. k * k <= v * v
    <3>1. PICK d \in Nat : v = k + d
      <4>1. v - k \in Nat /\ v = k + (v - k)
        BY <2>1, <2>3
      <4> QED
        BY <4>1
    <3>2. v * v = k * k + (2 * (k * d) + d * d) /\ k * d \in Nat /\ d * d \in Nat /\ k * k \in Nat
      BY <3>1
    <3> QED
      BY <3>2
  <2>5. v * v < dx * dx + dy * dy
    BY <2>2, <2>3
  <2>6. k * k \in Int /\ v * v \in Int
    OBVIOUS
  <2> QED
    BY <1>9, <1>10, <2>4, <2>5, <2>6
<1>11. dx * dx + dy * dy <= u * u
  <2>1. u * u \in Int
    BY <1>8
  <2> QED
    BY <1>8, <1>9, <2>1
<1>12. Units(a, b) = u
  BY <1>6, <1>7
<1> QED
  BY <1>0, <1>8, <1>9, <1>10, <1>11, <1>12

IsResource(r) == r.at \subseteq Points /\ r.at # {} /\ IsFiniteSet(r.at)

(* Occupying a node is a resource with finitely many points.                *)
LEMMA NodeIsResource ==
  ASSUME NEW n \in Points
  PROVE  IsResource(NodeOf(n))
<1>1. NodeOf(n).at = {n}
  BY DEF NodeOf
<1> QED
  BY <1>1, FS_Singleton DEF IsResource

(* Two things are finitely many.                                            *)
LEMMA TwoAreFinite ==
  ASSUME NEW a, NEW b
  PROVE  IsFiniteSet({a, b})
<1>1. IsFiniteSet({a} \cup {b})
  BY FS_Singleton, FS_Union
<1>2. {a, b} = {a} \cup {b}
  OBVIOUS
<1> QED
  BY <1>1, <1>2

(* A diagonal crosses finitely many lines, at points of the grid.           *)
LEMMA BreakpointsAreFinite ==
  ASSUME NEW g, IsGrid(g), NEW a \in Points, NEW b
  PROVE  Breakpoints(g, a, b) \subseteq Points /\ IsFiniteSet(Breakpoints(g, a, b))
<1> DEFINE at == [p \in g.xs \X g.ys |-> Node(p, a.layer)]
           all == [x : g.xs, y : g.ys, layer : {a.layer}]
<1>1. IsFiniteSet(g.xs \X g.ys) /\ g.xs \subseteq Int /\ g.ys \subseteq Int
  BY FS_Product DEF IsGrid
<1>2. a.layer \in Int
  BY DEF Points
<1>3. all \subseteq Points
  BY <1>1, <1>2 DEF Points
<1>4. all \subseteq {at[p] : p \in g.xs \X g.ys}
  <2> SUFFICES ASSUME NEW n \in all
               PROVE  \E p \in g.xs \X g.ys : n = at[p]
    OBVIOUS
  <2>1. n = [x |-> n.x, y |-> n.y, layer |-> a.layer] /\ n.x \in g.xs /\ n.y \in g.ys
    OBVIOUS
  <2>2. <<n.x, n.y>> \in g.xs \X g.ys /\ n = Node(<<n.x, n.y>>, a.layer)
    BY <2>1 DEF Node
  <2> QED
    BY <2>2
<1>5. IsFiniteSet({at[p] : p \in g.xs \X g.ys})
  <2> HIDE DEF at
  <2> QED
    BY <1>1, ImageIsFinite
<1>6. IsFiniteSet(all)
  BY <1>4, <1>5, FS_Subset
<1>7. Breakpoints(g, a, b) \subseteq all
  BY DEF Breakpoints
<1> QED
  BY <1>3, <1>6, <1>7, FS_Subset

(* A cell crossed by a diagonal is a resource.                              *)
LEMMA CellIsResource ==
  ASSUME NEW a \in Points, NEW b \in Points
  PROVE  IsResource(Cell(a, b))
<1>1. \A u, v \in Int : Min({u, v}) \in Int /\ Max({u, v}) \in Int
  <2> TAKE u, v \in Int
  <2>1. {u, v} \subseteq Int /\ {u, v} # {} /\ IsFiniteSet({u, v})
    BY TwoAreFinite
  <2>2. Min({u, v}) \in {u, v} /\ Max({u, v}) \in {u, v}
    BY <2>1, MinMaxOfFinite
  <2> QED
    BY <2>1, <2>2
<1>2. a.x \in Int /\ a.y \in Int /\ b.x \in Int /\ b.y \in Int /\ a.layer \in Int
  BY DEF Points
<1>3. \A u, v \in Int : Node(<<u, v>>, a.layer) \in Points
  BY <1>2 DEF Node, Points
<1> DEFINE low == Node(<<Min({a.x, b.x}), Min({a.y, b.y})>>, a.layer)
           high == Node(<<Max({a.x, b.x}), Max({a.y, b.y})>>, a.layer)
<1>4. low \in Points /\ high \in Points
  BY <1>1, <1>2, <1>3, Zenon
<1>5. Cell(a, b).at = {low, high}
  BY DEF Cell
<1> HIDE DEF low, high
<1> QED
  BY <1>4, <1>5, TwoAreFinite DEF IsResource

(* A diagonal crosses finitely many cells.                                  *)
LEMMA CrossedCellsAreFinite ==
  ASSUME NEW g, IsGrid(g), NEW a \in Points, NEW b \in Points
  PROVE  /\ IsFiniteSet(CrossedCells(g, a, b))
         /\ \A r \in CrossedCells(g, a, b) : IsResource(r)
<1> DEFINE points == Breakpoints(g, a, b)
           steps == {p \in points \X points :
                       /\ p[1].x < p[2].x
                       /\ ~\E q \in points : p[1].x < q.x /\ q.x < p[2].x}
           cell == [p \in steps |-> Cell(p[1], p[2])]
<1>1. points \subseteq Points /\ IsFiniteSet(points)
  BY BreakpointsAreFinite
<1>2. CrossedCells(g, a, b) = {cell[p] : p \in steps}
  BY DEF CrossedCells
<1>3. IsFiniteSet(steps)
  <2> HIDE DEF points
  <2>1. IsFiniteSet(points \X points)
    BY <1>1, FS_Product
  <2> QED
    BY <2>1, FS_Subset
<1>4. \A p \in steps : IsResource(cell[p])
  <2> HIDE DEF points
  <2>1. \A p \in steps : p[1] \in Points /\ p[2] \in Points /\ cell[p] = Cell(p[1], p[2])
    BY <1>1
  <2> HIDE DEF steps, cell
  <2> QED
    BY <2>1, CellIsResource
<1> HIDE DEF steps, cell
<1>5. IsFiniteSet({cell[p] : p \in steps})
  BY <1>3, ImageIsFinite
<1> QED
  BY <1>2, <1>4, <1>5

(* What a move occupies: finitely many resources, each at some points.      *)
LEMMA TransitionResourcesAreFinite ==
  ASSUME NEW g, IsGrid(g), NEW a \in Points, NEW b \in Points
  PROVE  /\ IsFiniteSet(TransitionResources(g, a, b))
         /\ \A r \in TransitionResources(g, a, b) : IsResource(r)
<1> DEFINE inner == Breakpoints(g, a, b) \ {a, b}
           node == [n \in inner |-> NodeOf(n)]
           inners == {node[n] : n \in inner}
           cells == CrossedCells(g, a, b)
<1>1. IsFiniteSet(inner) /\ inner \subseteq Points
  BY BreakpointsAreFinite, FS_Difference
<1>2. IsFiniteSet(inners)
  <2> HIDE DEF inner, node
  <2> QED
    BY <1>1, ImageIsFinite
<1>3. \A r \in inners : IsResource(r)
  BY <1>1, NodeIsResource
<1>4. inners = {NodeOf(n) : n \in inner}
  OBVIOUS
<1>5. IsFiniteSet(cells) /\ \A r \in cells : IsResource(r)
  BY CrossedCellsAreFinite
<1>6. IsResource(Transition(a, b))
  BY TwoAreFinite DEF Transition, IsResource
<1>7. TransitionResources(g, a, b) \subseteq {Transition(a, b)} \cup (cells \cup inners)
  BY <1>4 DEF TransitionResources
<1> HIDE DEF cells, inners
<1>8. IsFiniteSet({Transition(a, b)} \cup (cells \cup inners))
  BY <1>2, <1>5, FS_Union, FS_Singleton
<1> QED
  BY <1>3, <1>5, <1>6, <1>7, <1>8, FS_Subset

(* The edges of a path are its steps.                                       *)
LEMMA EdgesOfPath ==
  ASSUME NEW path
  PROVE  /\ \A e \in PathEdges(path) :
              \E i \in 1 .. (Len(path) - 1) : e[1] = path[i] /\ e[2] = path[i + 1]
         /\ \A i \in 1 .. (Len(path) - 1) :
              \E e \in PathEdges(path) : e[1] = path[i] /\ e[2] = path[i + 1]
<1>1. \A e \in PathEdges(path) :
        \E i \in 1 .. (Len(path) - 1) : e[1] = path[i] /\ e[2] = path[i + 1]
  BY DEF PathEdges
<1>2. ASSUME NEW i \in 1 .. (Len(path) - 1)
      PROVE  \E e \in PathEdges(path) : e[1] = path[i] /\ e[2] = path[i + 1]
  <2>1. <<path[i], path[i + 1]>> \in PathEdges(path)
    BY DEF PathEdges
  <2> QED
    BY <2>1
<1> QED
  BY <1>1, <1>2

(* What a path occupies.                                                    *)
LEMMA PathResourcesAreFinite ==
  ASSUME NEW g, IsGrid(g), NEW path \in Seq(Points)
  PROVE  /\ IsFiniteSet(PathResources(g, path))
         /\ \A r \in PathResources(g, path) : IsResource(r)
<1> DEFINE node == [i \in DOMAIN path |-> NodeOf(path[i])]
           nodes == {node[i] : i \in DOMAIN path}
           last == Len(path) - 1
           move == [i \in 1 .. last |-> TransitionResources(g, path[i], path[i + 1])]
           moves == {move[i] : i \in 1 .. last}
<1>0. Len(path) \in Nat /\ IsFiniteSet(DOMAIN path) /\ \A i \in DOMAIN path : path[i] \in Points
  BY PlacesAreFinite, ElementOfSeq
<1>1. \A i \in 1 .. last : i \in DOMAIN path /\ i + 1 \in DOMAIN path
  BY <1>0, PlacesAreFinite
<1>2. IsFiniteSet(nodes) /\ \A r \in nodes : IsResource(r)
  <2>1. \A r \in nodes : IsResource(r)
    BY <1>0, NodeIsResource
  <2> HIDE DEF node
  <2> QED
    BY <1>0, <2>1, ImageIsFinite
<1>3. \A S \in moves : IsFiniteSet(S) /\ \A r \in S : IsResource(r)
  BY <1>0, <1>1, TransitionResourcesAreFinite
<1>4. IsFiniteSet(moves)
  <2>1. PICK one \in Int : one = 1
    OBVIOUS
  <2>2. PICK n \in Int : n = last
    BY <1>0
  <2>3. IsFiniteSet(one .. n)
    BY FS_Interval
  <2>4. IsFiniteSet(1 .. last)
    BY <2>1, <2>2, <2>3
  <2> HIDE DEF move, last
  <2> QED
    BY <2>4, ImageIsFinite
<1>5. PathResources(g, path) = nodes \cup UNION moves
  <2>1. moves = {TransitionResources(g, e[1], e[2]) : e \in PathEdges(path)}
    <3> DEFINE taken == {TransitionResources(g, e[1], e[2]) : e \in PathEdges(path)}
    <3>1. \A S : S \in moves <=> \E i \in 1 .. last : S = TransitionResources(g, path[i], path[i + 1])
      OBVIOUS
    <3>2. \A S : S \in taken <=> \E i \in 1 .. last : S = TransitionResources(g, path[i], path[i + 1])
      <4>1. ASSUME NEW S \in taken
            PROVE  \E i \in 1 .. last : S = TransitionResources(g, path[i], path[i + 1])
        <5>1. PICK e \in PathEdges(path) : S = TransitionResources(g, e[1], e[2])
          BY Zenon
        <5>2. PICK i \in 1 .. last : e[1] = path[i] /\ e[2] = path[i + 1]
          BY EdgesOfPath, Zenon
        <5> QED
          BY <5>1, <5>2, Zenon
      <4>2. ASSUME NEW i \in 1 .. last
            PROVE  TransitionResources(g, path[i], path[i + 1]) \in taken
        <5>1. PICK e \in PathEdges(path) : e[1] = path[i] /\ e[2] = path[i + 1]
          BY EdgesOfPath, Zenon
        <5> QED
          BY <5>1, Zenon
      <4> QED
        BY <4>1, <4>2, Zenon
    <3> HIDE DEF moves, taken
    <3>3. moves = taken
      BY <3>1, <3>2, Zenon
    <3> QED
      BY <3>3, Zenon DEF taken
  <2>2. nodes = {NodeOf(path[i]) : i \in DOMAIN path}
    OBVIOUS
  <2> QED
    BY <2>1, <2>2, Zenon DEF PathResources
<1> HIDE DEF moves, nodes
<1>6. IsFiniteSet(UNION moves)
  BY <1>3, <1>4, FS_UNION
<1> QED
  BY <1>2, <1>3, <1>5, <1>6, FS_Union

-----------------------------------------------------------------------------
(* Bundles                                                                  *)

(* What the assumption says of the problem of a call.                       *)
LEMMA ProblemFacts ==
  ASSUME problem \in Problems
  PROVE  /\ IsBoard(problem.board) /\ IsPolicy(policy)
         /\ problem.terminals \in Seq(Seq(Terminals))
         /\ ArePairs(problem.pairs, TerminalNets)
         /\ TerminalNets = 1 .. Len(problem.terminals)
         /\ IsFiniteSet(TerminalNets) /\ TerminalNets \subseteq Nat
         /\ \A n \in TerminalNets : problem.terminals[n] \in Seq(Terminals)
<1>1. /\ IsBoard(problem.board) /\ IsPolicy(policy)
      /\ problem.terminals \in Seq(Seq(Terminals))
      /\ ArePairs(problem.pairs, TerminalNets)
  BY RouterAssumption DEF policy, TerminalNets
<1>2. TerminalNets = 1 .. Len(problem.terminals) /\ IsFiniteSet(TerminalNets)
  BY <1>1, PlacesAreFinite DEF TerminalNets
<1>3. \A n \in TerminalNets : problem.terminals[n] \in Seq(Terminals)
  BY <1>1, <1>2, ElementOfSeq
<1>4. TerminalNets \subseteq Nat
  <2>1. Len(problem.terminals) \in Nat
    BY <1>1, PlacesAreFinite
  <2> QED
    BY <1>2, <2>1
<1> QED
  BY <1>1, <1>2, <1>3, <1>4

(* Where a terminal meets the grid: finitely many nodes.                    *)
LEMMA AtIsFinite ==
  ASSUME NEW g, IsGrid(g), NEW t
  PROVE  At(t, g) \subseteq Nodes(g) /\ IsFiniteSet(At(t, g))
<1> DEFINE layers == 1 .. g.layers
           at == [l \in layers |-> [x |-> t.at[1], y |-> t.at[2], layer |-> l]]
<1>1. IsFiniteSet(layers)
  <2>1. PICK one \in Int : one = 1
    OBVIOUS
  <2>2. IsFiniteSet(one .. g.layers)
    BY FS_Interval DEF IsGrid
  <2> QED
    BY <2>1, <2>2
<1>2. At(t, g) \subseteq {at[l] : l \in layers}
  <2> SUFFICES ASSUME NEW n \in At(t, g)
               PROVE  \E l \in layers : n = at[l]
    OBVIOUS
  <2>1. n \in Points /\ n \in Nodes(g) /\ Planar(n) = t.at
    BY NodesArePoints DEF At
  <2>2. n.layer \in layers
    BY <2>1, NodesArePoints
  <2>3. n = [x |-> n.x, y |-> n.y, layer |-> n.layer]
    BY <2>1 DEF Points
  <2>4. t.at[1] = n.x /\ t.at[2] = n.y
    <3>1. Planar(n)[1] = n.x /\ Planar(n)[2] = n.y
      BY DEF Planar
    <3> QED
      BY <2>1, <3>1
  <2>5. n = at[n.layer]
    BY <2>2, <2>3, <2>4
  <2> QED
    BY <2>2, <2>5
<1>3. IsFiniteSet({at[l] : l \in layers})
  <2> HIDE DEF at, layers
  <2> QED
    BY <1>1, ImageIsFinite
<1>4. IsFiniteSet(At(t, g))
  BY <1>2, <1>3, FS_Subset
<1> QED
  BY <1>4 DEF At

(* A pair with an order has two terminals on each side, one offset apart.   *)
LEMMA PairOrderFacts ==
  ASSUME NEW pair, PairOrder(pair) # <<>>
  PROVE  /\ Len(problem.terminals[pair.positive]) = 2
         /\ Len(problem.terminals[pair.negative]) = 2
         /\ \E j \in {1, 2} :
              /\ PairOrder(pair) = <<j, 3 - j>>
              /\ Offset(problem.terminals[pair.positive][1],
                        problem.terminals[pair.negative][j]) = PairOffset(pair)
              /\ Offset(problem.terminals[pair.positive][2],
                        problem.terminals[pair.negative][3 - j]) = PairOffset(pair)
<1> DEFINE p == problem.terminals[pair.positive]
           n == problem.terminals[pair.negative]
<1>1. Len(p) = 2 /\ Len(n) = 2
  BY Zenon DEF PairOrder
<1>2. \/ Offset(p[1], n[1]) = Offset(p[2], n[2]) /\ PairOrder(pair) = <<1, 2>>
      \/ Offset(p[1], n[2]) = Offset(p[2], n[1]) /\ PairOrder(pair) = <<2, 1>>
  BY Zenon DEF PairOrder
<1>3. PairOffset(pair) = Offset(p[1], n[PairOrder(pair)[1]])
  BY Zenon DEF PairOffset
<1> HIDE DEF p, n
<1>4. \E j \in {1, 2} :
              /\ PairOrder(pair) = <<j, 3 - j>>
              /\ Offset(p[1], n[j]) = PairOffset(pair)
              /\ Offset(p[2], n[3 - j]) = PairOffset(pair)
  <2>1. CASE Offset(p[1], n[1]) = Offset(p[2], n[2]) /\ PairOrder(pair) = <<1, 2>>
    BY <1>3, <2>1
  <2>2. CASE Offset(p[1], n[2]) = Offset(p[2], n[1]) /\ PairOrder(pair) = <<2, 1>>
    BY <1>3, <2>2
  <2> QED
    BY <1>2, <2>1, <2>2
<1> QED
  BY <1>1, <1>4 DEF p, n

\* The bundle of a net, and that of a pair.
BundlesNet(b, g, n) == n \in PlacedTwice /\ b = NetBundle(n, g)
BundlesPair(b, g, pair) ==
  pair \in problem.pairs /\ PairOrder(pair) # <<>> /\ b = PairBundle(pair, g)
IsBundle(b, g) == \/ \E n \in PlacedTwice : BundlesNet(b, g, n)
                  \/ \E pair \in problem.pairs : BundlesPair(b, g, pair)

PlaceSets(g) == {S \in SUBSET Nodes(g) : IsFiniteSet(S)}

\* What holds of every bundle: its nets are different, where each net's
\* terminals are when the bundle is at its places.
IsSound(b, g) ==
  /\ DOMAIN b.nets = {1} \/ DOMAIN b.nets = {1, 2}
  /\ \A i \in DOMAIN b.nets : b.nets[i] \in TerminalNets
  /\ \A i, j \in DOMAIN b.nets : b.nets[i] = b.nets[j] => i = j
  /\ b.offset \in Int \X Int
  /\ b.places \in Seq(PlaceSets(g))
  /\ Len(b.places) >= 2
  /\ DOMAIN b.nets # {1} => Len(b.places) = 2
  /\ \A i \in DOMAIN b.nets : \A pad \in {At(t, g) : t \in Range(problem.terminals[b.nets[i]])} :
       \E k \in DOMAIN b.places : \A p \in b.places[k] : Wire(b, i, p) \in pad
  /\ \A i \in DOMAIN b.nets :
       \E pad \in {At(t, g) : t \in Range(problem.terminals[b.nets[i]])} :
         \A p \in b.places[1] : Wire(b, i, p) \in pad

(* A list given by its places.                                              *)
LEMMA FunctionIsList ==
  ASSUME NEW n \in Nat, NEW T, NEW f \in [1 .. n -> T]
  PROVE  f \in Seq(T) /\ Len(f) = n /\ DOMAIN f = 1 .. n
  OBVIOUS

(* A bundle of one net is sound: its places are nodes of the grid.          *)
LEMMA NetBundleIsSound ==
  ASSUME problem \in Problems, NEW g, IsGrid(g), NEW n \in PlacedTwice
  PROVE  IsSound(NetBundle(n, g), g)
<1> DEFINE ts == problem.terminals[n]
           places == [i \in DOMAIN ts |-> At(ts[i], g)]
           b == NetBundle(n, g)
<1>1. n \in TerminalNets /\ ts \in Seq(Terminals) /\ Len(ts) >= 2
  BY ProblemFacts DEF PlacedTwice
<1>2. b.nets = <<n>> /\ b.offset = <<0, 0>> /\ b.places = places
  BY DEF NetBundle
<1>3. DOMAIN b.nets = {1} /\ b.nets[1] = n
  BY <1>2
<1> HIDE DEF b
<1>4. places \in Seq(PlaceSets(g)) /\ Len(places) >= 2 /\ DOMAIN places = DOMAIN ts
  <2>1. \A i \in DOMAIN ts : At(ts[i], g) \in PlaceSets(g)
    BY AtIsFinite DEF PlaceSets
  <2>2. DOMAIN ts = 1 .. Len(ts) /\ Len(ts) \in Nat
    BY <1>1, PlacesAreFinite
  <2>3. places \in [1 .. Len(ts) -> PlaceSets(g)]
    BY <2>1, <2>2
  <2> HIDE DEF places
  <2>4. places \in Seq(PlaceSets(g)) /\ Len(places) = Len(ts) /\ DOMAIN places = 1 .. Len(ts)
    BY <2>2, <2>3, FunctionIsList
  <2> QED
    BY <1>1, <2>2, <2>4
<1>5. \A p : Wire(b, 1, p) = p
  BY DEF Wire
<1>6. ASSUME NEW pad \in {At(t, g) : t \in Range(ts)}
      PROVE  \E k \in DOMAIN b.places : \A p \in b.places[k] : Wire(b, 1, p) \in pad
  <2>1. PICK k \in DOMAIN ts : pad = At(ts[k], g)
    BY DEF Range
  <2>2. k \in DOMAIN places /\ places[k] = pad
    BY <2>1
  <2> QED
    BY <1>2, <1>5, <2>2
<1>7. \E pad \in {At(t, g) : t \in Range(ts)} : \A p \in b.places[1] : Wire(b, 1, p) \in pad
  <2>1. 1 \in DOMAIN ts
    BY <1>1, PlacesAreFinite
  <2>2. At(ts[1], g) \in {At(t, g) : t \in Range(ts)}
    BY <2>1 DEF Range
  <2>3. b.places[1] = At(ts[1], g)
    BY <1>2, <2>1
  <2> QED
    BY <1>5, <2>2, <2>3
<1>8. <<0, 0>> \in Int \X Int
  OBVIOUS
<1>9. \A i \in DOMAIN b.nets : i = 1 /\ b.nets[i] = n
  BY <1>3
<1> HIDE DEF places
<1> QED
  BY <1>1, <1>2, <1>3, <1>4, <1>6, <1>7, <1>8, <1>9, Zenon DEF IsSound, b

(* A bundle of a pair is sound: the negative's places are those of the      *)
(* positive, moved by the offset.                                           *)
LEMMA PairBundleIsSound ==
  ASSUME problem \in Problems, NEW g, IsGrid(g), NEW pair \in problem.pairs, PairOrder(pair) # <<>>
  PROVE  IsSound(PairBundle(pair, g), g)
<1> DEFINE ps == problem.terminals[pair.positive]
           ns == problem.terminals[pair.negative]
           b == PairBundle(pair, g)
           offset == PairOffset(pair)
<1>1. /\ pair.positive \in TerminalNets /\ pair.negative \in TerminalNets
      /\ pair.negative # pair.positive
  BY ProblemFacts DEF ArePairs
<1>2. ps \in Seq(Terminals) /\ ns \in Seq(Terminals) /\ Len(ps) = 2 /\ Len(ns) = 2
  BY <1>1, ProblemFacts, PairOrderFacts
<1>3. PICK j \in {1, 2} : /\ PairOrder(pair) = <<j, 3 - j>>
                          /\ Offset(ps[1], ns[j]) = offset
                          /\ Offset(ps[2], ns[3 - j]) = offset
  BY PairOrderFacts
<1> DEFINE order == PairOrder(pair)
<1>4. /\ \A i \in {1, 2} : order[i] \in {1, 2} /\ Offset(ps[i], ns[order[i]]) = offset
      /\ \A k \in {1, 2} : \E i \in {1, 2} : order[i] = k
  BY <1>3
<1> HIDE DEF order
<1>5. \A i \in {1, 2} : ps[i] \in Terminals /\ ns[i] \in Terminals
  BY <1>2
<1>6. \A t \in Terminals : t.at \in Int \X Int /\ t.at = <<t.at[1], t.at[2]>>
  BY DEF Terminals
<1>7. offset \in Int \X Int
  <2>1. offset = Offset(ps[1], ns[order[1]])
    BY <1>4
  <2>2. ps[1] \in Terminals /\ ns[order[1]] \in Terminals
    BY <1>4, <1>5
  <2> HIDE DEF ps, ns, offset
  <2> QED
    BY <2>1, <2>2, <1>6 DEF Offset
<1>8. b.nets = <<pair.positive, pair.negative>> /\ b.offset = offset /\ b.places = PairPlaces(pair, g)
  BY DEF PairBundle
<1> DEFINE place(i) == {m \in At(ps[i], g) : m.layer \in {k.layer : k \in At(ns[order[i]], g)}}
           places == [i \in 1 .. 2 |-> place(i)]
<1>9. b.places = places
  BY <1>8, Zenon DEF PairPlaces, order
<1> HIDE DEF b, ps, ns, offset
<1>10. \A i \in {1, 2} : place(i) \in PlaceSets(g)
  BY AtIsFinite, FS_Subset DEF PlaceSets
<1>11. places \in Seq(PlaceSets(g)) /\ Len(places) = 2 /\ DOMAIN places = 1 .. 2
  <2>1. places \in [1 .. 2 -> PlaceSets(g)]
    BY <1>10
  <2>2. PICK two \in Nat : two = 2
    OBVIOUS
  <2> HIDE DEF places
  <2> QED
    BY <2>1, <2>2, FunctionIsList
<1>12. \A p : Wire(b, 1, p) = p
  BY DEF Wire
<1>13. ASSUME NEW i \in {1, 2}, NEW p \in place(i)
       PROVE  p \in At(ps[i], g) /\ Wire(b, 2, p) \in At(ns[order[i]], g)
  <2>1. PICK k \in At(ns[order[i]], g) : k.layer = p.layer
    OBVIOUS
  <2>2. p \in At(ps[i], g)
    OBVIOUS
  <2>3. k \in Points /\ Planar(k) = ns[order[i]].at /\ p \in Points /\ Planar(p) = ps[i].at
    BY <2>1, <2>2, NodesArePoints DEF At
  <2>4. ns[order[i]] \in Terminals /\ ps[i] \in Terminals
    BY <1>4, <1>5
  <2>5. /\ k.x = ns[order[i]].at[1] /\ k.y = ns[order[i]].at[2]
        /\ p.x = ps[i].at[1] /\ p.y = ps[i].at[2]
    <3>1. Planar(k)[1] = k.x /\ Planar(k)[2] = k.y /\ Planar(p)[1] = p.x /\ Planar(p)[2] = p.y
      BY DEF Planar
    <3> QED
      BY <2>3, <3>1
  <2>6. offset[1] = k.x - p.x /\ offset[2] = k.y - p.y
    BY <1>4, <2>5 DEF Offset
  <2>7. p.x + offset[1] = k.x /\ p.y + offset[2] = k.y
    BY <2>3, <2>6 DEF Points
  <2>8. Wire(b, 2, p) = [x |-> k.x, y |-> k.y, layer |-> k.layer]
    <3>1. Wire(b, 2, p) = Node(<<p.x + offset[1], p.y + offset[2]>>, p.layer)
      BY <1>8 DEF Wire
    <3> QED
      BY <2>1, <2>7, <3>1 DEF Node
  <2>9. k = [x |-> k.x, y |-> k.y, layer |-> k.layer]
    BY <2>3 DEF Points
  <2> QED
    BY <2>1, <2>2, <2>8, <2>9
<1>14. DOMAIN b.nets = {1, 2} /\ b.nets[1] = pair.positive /\ b.nets[2] = pair.negative
  <2>1. Len(<<pair.positive, pair.negative>>) = 2
    OBVIOUS
  <2> QED
    BY <1>8, <2>1
<1>15. \A t \in Range(ps) : \E k \in {1, 2} : t = ps[k]
  BY <1>2 DEF Range
<1>16. \A t \in Range(ns) : \E k \in {1, 2} : t = ns[k]
  BY <1>2 DEF Range
<1>17. \A i \in {1, 2} : ps[i] \in Range(ps) /\ ns[i] \in Range(ns)
  BY <1>2 DEF Range
<1>18. ASSUME NEW pad \in {At(t, g) : t \in Range(ps)}
       PROVE  \E k \in DOMAIN b.places : \A p \in b.places[k] : Wire(b, 1, p) \in pad
  <2>1. PICK k \in {1, 2} : pad = At(ps[k], g)
    BY <1>15
  <2>2. k \in DOMAIN b.places /\ b.places[k] = place(k)
    BY <1>9, <1>11
  <2>3. \A p \in place(k) : Wire(b, 1, p) \in pad
    BY <1>12, <1>13, <2>1
  <2> HIDE DEF place
  <2> QED
    BY <2>2, <2>3, Zenon
<1>19. ASSUME NEW pad \in {At(t, g) : t \in Range(ns)}
       PROVE  \E k \in DOMAIN b.places : \A p \in b.places[k] : Wire(b, 2, p) \in pad
  <2>1. PICK l \in {1, 2} : pad = At(ns[l], g)
    BY <1>16
  <2>2. PICK k \in {1, 2} : order[k] = l
    BY <1>4
  <2>3. k \in DOMAIN b.places /\ b.places[k] = place(k)
    BY <1>9, <1>11
  <2>4. \A p \in place(k) : Wire(b, 2, p) \in pad
    BY <1>13, <2>1, <2>2
  <2> HIDE DEF place
  <2> QED
    BY <2>3, <2>4, Zenon
<1>20. \E pad \in {At(t, g) : t \in Range(ps)} : \A p \in b.places[1] : Wire(b, 1, p) \in pad
  <2>1. At(ps[1], g) \in {At(t, g) : t \in Range(ps)}
    BY <1>17
  <2>2. places[1] = place(1)
    BY <1>11
  <2> HIDE DEF place
  <2> QED
    BY <2>1, <2>2, <1>9, <1>12, <1>13
<1>21. \E pad \in {At(t, g) : t \in Range(ns)} : \A p \in b.places[1] : Wire(b, 2, p) \in pad
  <2>1. At(ns[order[1]], g) \in {At(t, g) : t \in Range(ns)}
    BY <1>4, <1>17
  <2>2. places[1] = place(1)
    BY <1>11
  <2> HIDE DEF place
  <2> QED
    BY <2>1, <2>2, <1>9, <1>13
<1> HIDE DEF places
<1>22. \A i \in DOMAIN b.nets : (i = 1 /\ b.nets[i] = pair.positive)
                               \/ (i = 2 /\ b.nets[i] = pair.negative)
  BY <1>14
<1>23. \A i \in DOMAIN b.nets : b.nets[i] \in TerminalNets
  BY <1>1, <1>22, Zenon
<1>24. \A i, k \in DOMAIN b.nets : b.nets[i] = b.nets[k] => i = k
  BY <1>1, <1>14
<1>25. b.offset \in Int \X Int /\ b.places \in Seq(PlaceSets(g)) /\ Len(b.places) = 2
  BY <1>7, <1>8, <1>9, <1>11
<1>26. Len(b.places) >= 2
  BY <1>25
<1>27. \A i \in DOMAIN b.nets : \A pad \in {At(t, g) : t \in Range(problem.terminals[b.nets[i]])} :
         \E k \in DOMAIN b.places : \A p \in b.places[k] : Wire(b, i, p) \in pad
  BY <1>18, <1>19, <1>22, Zenon DEF ps, ns
<1>28. \A i \in DOMAIN b.nets :
         \E pad \in {At(t, g) : t \in Range(problem.terminals[b.nets[i]])} :
           \A p \in b.places[1] : Wire(b, i, p) \in pad
  BY <1>20, <1>21, <1>22, Zenon DEF ps, ns
<1> QED
  BY <1>14, <1>23, <1>24, <1>25, <1>26, <1>27, <1>28, Zenon DEF IsSound, b

(* Every bundle is sound.                                                   *)
LEMMA BundlesAreSound ==
  ASSUME problem \in Problems, NEW g, IsGrid(g), NEW b, IsBundle(b, g)
  PROVE  IsSound(b, g)
<1>1. CASE \E n \in PlacedTwice : BundlesNet(b, g, n)
  BY <1>1, NetBundleIsSound DEF BundlesNet
<1>2. CASE \E pair \in problem.pairs : BundlesPair(b, g, pair)
  BY <1>2, PairBundleIsSound DEF BundlesPair
<1> QED
  BY <1>1, <1>2 DEF IsBundle

-----------------------------------------------------------------------------
(* The bundles of a pass                                                    *)

(* Each element of a finite set of numbers has its place in their order.    *)
LEMMA RanksAreTaken ==
  ASSUME NEW S, S \subseteq Nat, IsFiniteSet(S)
  PROVE  /\ \A n \in S : Cardinality({m \in S : m < n}) \in 0 .. (Cardinality(S) - 1)
         /\ \A n, l \in S : Cardinality({m \in S : m < n}) = Cardinality({m \in S : m < l}) => n = l
         /\ \A i \in 1 .. Cardinality(S) : \E n \in S : Cardinality({m \in S : m < n}) = i - 1
<1> DEFINE below(n) == {m \in S : m < n}
           size == Cardinality(S)
           rank == [n \in S |-> Cardinality(below(n))]
<1>1. size \in Nat
  BY FS_CardinalityType
<1>2. \A n \in S : IsFiniteSet(below(n)) /\ Cardinality(below(n)) \in Nat
  BY FS_Subset, FS_CardinalityType
<1>3. \A n \in S : Cardinality(below(n)) < size
  <2> SUFFICES ASSUME NEW n \in S
               PROVE  Cardinality(below(n)) < size
    OBVIOUS
  <2>1. below(n) \subseteq S /\ n \notin below(n)
    OBVIOUS
  <2>2. below(n) # S
    BY <2>1
  <2> HIDE DEF below
  <2> QED
    BY <2>1, <2>2, SmallerSubset
<1>4. \A n \in S : Cardinality(below(n)) \in 0 .. (size - 1)
  <2> HIDE DEF below, size
  <2> QED
    BY <1>1, <1>2, <1>3
<1>5. ASSUME NEW n \in S, NEW l \in S, n < l
      PROVE  Cardinality(below(n)) < Cardinality(below(l))
  <2>0. n \in Nat /\ l \in Nat /\ \A m \in S : m \in Nat
    OBVIOUS
  <2>1. below(n) \subseteq below(l) /\ n \in below(l) /\ n \notin below(n)
    <3>1. \A m \in S : m < n => m < l
      BY <2>0, <1>5
    <3>2. n \notin below(n)
      BY <2>0
    <3>3. n \in below(l)
      BY <1>5
    <3> QED
      BY <3>1, <3>2, <3>3, Zenon
  <2>2. IsFiniteSet(below(l)) /\ below(n) # below(l)
    BY <1>2, <2>1
  <2> HIDE DEF below
  <2> QED
    BY <2>1, <2>2, SmallerSubset
<1>6. \A n, l \in S : Cardinality(below(n)) = Cardinality(below(l)) => n = l
  <2> SUFFICES ASSUME NEW n \in S, NEW l \in S, Cardinality(below(n)) = Cardinality(below(l))
               PROVE  n = l
    BY Zenon
  <2>1. Cardinality(below(n)) \in Nat /\ n \in Nat /\ l \in Nat
    BY <1>2
  <2>2. ~(n < l) /\ ~(l < n)
    <3> HIDE DEF below
    <3> QED
      BY <1>5, <2>1
  <2> QED
    BY <2>1, <2>2
<1>7. rank \in Injection(S, 0 .. (size - 1))
  <2> HIDE DEF below, size
  <2> QED
    BY <1>4, <1>6 DEF Injection, IsInjective
<1>8. IsFiniteSet(0 .. (size - 1)) /\ Cardinality(0 .. (size - 1)) = size
  <2> HIDE DEF size
  <2>1. PICK zero \in Int : zero = 0
    OBVIOUS
  <2>2. PICK top \in Int : top = size - 1
    BY <1>1
  <2>3. IsFiniteSet(zero .. top) /\ Cardinality(zero .. top) = IF zero > top THEN 0 ELSE top - zero + 1
    BY FS_Interval
  <2> QED
    BY <1>1, <2>1, <2>2, <2>3
<1>9. rank \in Surjection(S, 0 .. (size - 1))
  <2> HIDE DEF rank
  <2>1. \A T : \A f \in Injection(S, T) : IsFiniteSet(T) /\ Cardinality(S) = Cardinality(T)
                                            => f \in Surjection(S, T)
    BY FS_Injection
  <2> QED
    BY <1>7, <1>8, <2>1
<1>10. \A i \in 1 .. size : \E n \in S : Cardinality(below(n)) = i - 1
  <2> HIDE DEF below, size
  <2>1. \A i \in 1 .. size : i - 1 \in 0 .. (size - 1)
    BY <1>1
  <2>2. \A t \in 0 .. (size - 1) : \E n \in S : rank[n] = t
    BY <1>9 DEF Surjection
  <2> QED
    BY <2>1, <2>2
<1> QED
  BY <1>4, <1>6, <1>10, Zenon

(* A finite set of numbers in their order: a list of all of them.           *)
LEMMA InOrderLists ==
  ASSUME NEW S, S \subseteq Nat, IsFiniteSet(S)
  PROVE  InOrder(S) \in Seq(S) /\ \A n \in S : \E i \in DOMAIN InOrder(S) : InOrder(S)[i] = n
<1> DEFINE rank(n) == Cardinality({m \in S : m < n})
           size == Cardinality(S)
           list == [i \in 1 .. size |-> CHOOSE n \in S : rank(n) = i - 1]
<1>1. /\ \A n \in S : rank(n) \in 0 .. (size - 1)
      /\ \A n, l \in S : rank(n) = rank(l) => n = l
      /\ \A i \in 1 .. size : \E n \in S : rank(n) = i - 1
  BY RanksAreTaken, Zenon
<1>2. size \in Nat
  BY FS_CardinalityType
<1>3. InOrder(S) = list
  BY Zenon DEF InOrder
<1> HIDE DEF rank, size
<1>4. \A i \in 1 .. size : list[i] \in S /\ rank(list[i]) = i - 1
  <2> SUFFICES ASSUME NEW i \in 1 .. size
               PROVE  list[i] \in S /\ rank(list[i]) = i - 1
    OBVIOUS
  <2>1. \E n \in S : rank(n) = i - 1
    BY <1>1
  <2>2. list[i] = CHOOSE n \in S : rank(n) = i - 1
    OBVIOUS
  <2> QED
    BY <2>1, <2>2, Zenon
<1>5. list \in [1 .. size -> S]
  BY <1>4
<1>6. ASSUME NEW n \in S
      PROVE  \E i \in 1 .. size : list[i] = n
  <2>1. PICK i \in 1 .. size : i = rank(n) + 1
    BY <1>1, <1>2
  <2>2. rank(list[i]) = rank(n)
    <3>1. rank(n) \in Int
      BY <1>1
    <3> HIDE DEF list
    <3> QED
      BY <2>1, <1>4, <3>1
  <2> HIDE DEF list
  <2> QED
    BY <2>2, <1>1, <1>4, Zenon
<1> HIDE DEF list
<1>7. list \in Seq(S) /\ DOMAIN list = 1 .. size
  BY <1>2, <1>5, FunctionIsList
<1> QED
  BY <1>3, <1>6, <1>7

(* Pairs in the order of their names: a list of all of them.                *)
LEMMA ByIdLists ==
  ASSUME NEW pairs, NEW nets, ArePairs(pairs, nets)
  PROVE  ById(pairs) \in Seq(pairs) /\ \A p \in pairs : \E i \in DOMAIN ById(pairs) : ById(pairs)[i] = p
<1> DEFINE name == [p \in pairs |-> p.id]
           names == {p.id : p \in pairs}
           ids == InOrder(names)
           list == [i \in DOMAIN ids |-> CHOOSE p \in pairs : p.id = ids[i]]
<1>1. names = {name[p] : p \in pairs}
  OBVIOUS
<1>2. ById(pairs) = list
  BY Zenon DEF ById
<1>3. names \subseteq Nat /\ \A n \in names : \E p \in pairs : p.id = n
  BY DEF ArePairs
<1>4. IsFiniteSet(names)
  <2> HIDE DEF name, names
  <2> QED
    BY <1>1, ImageIsFinite DEF ArePairs
<1>5. \A p \in pairs : p.id \in names
  OBVIOUS
<1> HIDE DEF names
<1>6. ids \in Seq(names) /\ \A n \in names : \E i \in DOMAIN ids : ids[i] = n
  BY <1>3, <1>4, InOrderLists
<1> HIDE DEF ids
<1>7. DOMAIN ids = 1 .. Len(ids) /\ Len(ids) \in Nat /\ \A i \in DOMAIN ids : ids[i] \in names
  BY <1>6, PlacesAreFinite, ElementOfSeq
<1>8. \A i \in DOMAIN ids : list[i] \in pairs /\ list[i].id = ids[i]
  <2> SUFFICES ASSUME NEW i \in DOMAIN ids
               PROVE  list[i] \in pairs /\ list[i].id = ids[i]
    OBVIOUS
  <2>1. \E p \in pairs : p.id = ids[i]
    BY <1>3, <1>7
  <2>2. list[i] = CHOOSE p \in pairs : p.id = ids[i]
    OBVIOUS
  <2> QED
    BY <2>1, <2>2, Zenon
<1>9. list \in [1 .. Len(ids) -> pairs]
  BY <1>7, <1>8
<1>10. ASSUME NEW p \in pairs
       PROVE  \E i \in DOMAIN ids : list[i] = p
  <2>1. PICK i \in DOMAIN ids : ids[i] = p.id
    BY <1>5, <1>6
  <2>2. list[i].id = p.id /\ list[i] \in pairs
    BY <1>8, <2>1
  <2>3. \A a, b \in pairs : a.id = b.id => a = b
    BY DEF ArePairs
  <2> QED
    BY <2>2, <2>3, Zenon
<1> HIDE DEF list
<1>11. list \in Seq(pairs) /\ DOMAIN list = 1 .. Len(ids)
  BY <1>7, <1>9, FunctionIsList
<1> QED
  BY <1>2, <1>7, <1>10, <1>11

(* When nothing speaks against a grid, every selected net has its bundle.   *)
LEMMA BundlesCover ==
  ASSUME problem \in Problems, NEW g, IsGrid(g), PreparationErrors(g) = {}
  PROVE  /\ Selected \subseteq TerminalNets
         /\ Bundles(g) \in Seq({b \in Range(Bundles(g)) : IsBundle(b, g)})
         /\ \A n \in Selected : \E b \in Range(Bundles(g)) : n \in Range(b.nets)
<1>1. /\ Selected \subseteq PlacedTwice
      /\ \A pair \in SelectedPairs : PairOrder(pair) # <<>>
  <2>1. ~TooLarge(g) /\ Selected \ PlacedTwice = {} /\ PairSelectionErrors = {}
        /\ ~\E pair \in SelectedPairs : PairUnsupported(pair, g)
    BY Zenon DEF PreparationErrors
  <2>2. \A pair \in SelectedPairs : PairOrder(pair) # <<>>
    BY <2>1 DEF PairUnsupported
  <2> QED
    BY <2>1, <2>2
<1>2. Selected \subseteq TerminalNets /\ Selected \subseteq Nat /\ IsFiniteSet(Selected)
  <2>1. PlacedTwice \subseteq TerminalNets
    BY DEF PlacedTwice
  <2> QED
    BY <1>1, <2>1, ProblemFacts, FS_Subset
<1> DEFINE ps == PairsInOrder
           ns == NetsInOrder
           S == Selected \ PairedNets
           first == [i \in DOMAIN ps |-> PairBundle(ps[i], g)]
           second == [i \in DOMAIN ns |-> NetBundle(ns[i], g)]
           T == {b \in Range(Bundles(g)) : IsBundle(b, g)}
           good == {PairBundle(p, g) : p \in SelectedPairs} \cup {NetBundle(n, g) : n \in S}
<1>3. ps \in Seq(SelectedPairs) /\ \A p \in SelectedPairs : \E i \in DOMAIN ps : ps[i] = p
  <2>1. SelectedPairs \subseteq problem.pairs
    BY DEF SelectedPairs
  <2>2. ArePairs(SelectedPairs, TerminalNets)
    BY <2>1, ProblemFacts, FS_Subset DEF ArePairs
  <2> QED
    BY <2>2, ByIdLists DEF PairsInOrder
<1>4. ns \in Seq(S) /\ \A n \in S : \E i \in DOMAIN ns : ns[i] = n
  <2>1. S \subseteq Nat /\ IsFiniteSet(S)
    BY <1>2, FS_Difference
  <2> HIDE DEF S
  <2>2. InOrder(S) \in Seq(S) /\ \A n \in S : \E i \in DOMAIN InOrder(S) : InOrder(S)[i] = n
    BY <2>1, InOrderLists
  <2>3. ns = InOrder(S)
    BY DEF NetsInOrder, S
  <2> QED
    BY <2>2, <2>3
<1> HIDE DEF ps, ns, S
<1>5. first \in Seq(good) /\ DOMAIN first = DOMAIN ps
  <2>1. DOMAIN ps = 1 .. Len(ps) /\ Len(ps) \in Nat /\ \A i \in DOMAIN ps : ps[i] \in SelectedPairs
    BY <1>3, PlacesAreFinite, ElementOfSeq
  <2>2. \A i \in DOMAIN ps : PairBundle(ps[i], g) \in good
    BY <2>1, Zenon
  <2> HIDE DEF good
  <2>3. first \in [1 .. Len(ps) -> good]
    BY <2>1, <2>2
  <2> HIDE DEF first
  <2> QED
    BY <2>1, <2>3, FunctionIsList
<1>6. second \in Seq(good) /\ DOMAIN second = DOMAIN ns
  <2>1. DOMAIN ns = 1 .. Len(ns) /\ Len(ns) \in Nat /\ \A i \in DOMAIN ns : ns[i] \in S
    BY <1>4, PlacesAreFinite, ElementOfSeq
  <2>2. \A i \in DOMAIN ns : NetBundle(ns[i], g) \in good
    BY <2>1, Zenon
  <2> HIDE DEF good
  <2>3. second \in [1 .. Len(ns) -> good]
    BY <2>1, <2>2
  <2> HIDE DEF second
  <2> QED
    BY <2>1, <2>3, FunctionIsList
<1>7. \A b \in good : IsBundle(b, g)
  <2>1. ASSUME NEW p \in SelectedPairs
        PROVE  IsBundle(PairBundle(p, g), g)
    BY <1>1 DEF IsBundle, BundlesPair, SelectedPairs
  <2>2. ASSUME NEW n \in S
        PROVE  IsBundle(NetBundle(n, g), g)
    BY <1>1 DEF IsBundle, BundlesNet, S
  <2> QED
    BY <2>1, <2>2
<1>8. Bundles(g) = first \o second
  BY Zenon DEF Bundles, ps, ns
<1> HIDE DEF first, second, good
<1>9. Bundles(g) \in Seq(good) /\ Range(Bundles(g)) = Range(first) \cup Range(second)
  BY <1>5, <1>6, <1>8, ConcatProperties, RangeConcatenation
<1>10. Bundles(g) \in Seq(T)
  <2>1. Bundles(g) \in Seq(Range(Bundles(g))) /\ Range(Bundles(g)) \subseteq good
    BY <1>9, SeqOfRange, RangeOfSeq
  <2>2. Range(Bundles(g)) \subseteq T
    BY <1>7, <2>1
  <2> HIDE DEF T
  <2> QED
    BY <2>1, <2>2, SeqMonotonic
<1>11. ASSUME NEW n \in Selected
       PROVE  \E b \in Range(Bundles(g)) : n \in Range(b.nets)
  <2>1. CASE n \in PairedNets
    <3>1. PICK p \in SelectedPairs : n \in Ends(p)
      BY <2>1 DEF PairedNets
    <3>2. PICK i \in DOMAIN ps : ps[i] = p
      BY <1>3
    <3>3. first[i] = PairBundle(p, g) /\ first[i] \in Range(first)
      BY <1>5, <3>2 DEF first, Range
    <3>4. n \in Range(PairBundle(p, g).nets)
      <4>1. PairBundle(p, g).nets = <<p.positive, p.negative>>
        BY DEF PairBundle
      <4>2. n = p.positive \/ n = p.negative
        BY <3>1 DEF Ends
      <4> QED
        BY <4>1, <4>2 DEF Range
    <3> QED
      BY <1>9, <3>3, <3>4
  <2>2. CASE n \notin PairedNets
    <3>1. PICK i \in DOMAIN ns : ns[i] = n
      BY <1>4, <2>2 DEF S
    <3>2. second[i] = NetBundle(n, g) /\ second[i] \in Range(second)
      BY <1>6, <3>1 DEF second, Range
    <3>3. n \in Range(NetBundle(n, g).nets)
      BY DEF NetBundle, Range
    <3> QED
      BY <1>9, <3>2, <3>3
  <2> QED
    BY <2>1, <2>2
<1> QED
  BY <1>2, <1>10, <1>11

-----------------------------------------------------------------------------
(* Costs                                                                    *)

(* The nodes of a bundle's nets are points, and move as the bundle does.    *)
LEMMA WireFacts ==
  ASSUME NEW b, b.offset \in Int \X Int, NEW i, NEW p \in Points
  PROVE  /\ Wire(b, i, p) \in Points
         /\ Wire(b, i, p).layer = p.layer
         /\ i = 1 => Wire(b, i, p) = p
         /\ i # 1 => /\ Wire(b, i, p).x = p.x + b.offset[1]
                     /\ Wire(b, i, p).y = p.y + b.offset[2]
<1>1. CASE i = 1
  BY <1>1 DEF Wire
<1>2. CASE i # 1
  <2>1. Wire(b, i, p) = [x |-> p.x + b.offset[1], y |-> p.y + b.offset[2], layer |-> p.layer]
    BY <1>2 DEF Wire, Node
  <2>2. /\ p.x + b.offset[1] \in Int /\ p.y + b.offset[2] \in Int /\ p.layer \in Int
    BY DEF Points
  <2> QED
    BY <1>2, <2>1, <2>2 DEF Points
<1> QED
  BY <1>1, <1>2

(* Both nets of a pair head the same way.                                   *)
LEMMA WireHeading ==
  ASSUME NEW b, b.offset \in Int \X Int, NEW i, NEW p \in Points, NEW q \in Points
  PROVE  /\ Heading(Wire(b, i, p), Wire(b, i, q)) = Heading(p, q)
         /\ Wire(b, i, p) = Wire(b, i, q) => p = q
<1>1. CASE i = 1
  BY <1>1, WireFacts
<1>2. CASE i # 1
  <2> DEFINE u == Wire(b, i, p)
             v == Wire(b, i, q)
  <2>1. /\ u.layer = p.layer /\ u.x = p.x + b.offset[1] /\ u.y = p.y + b.offset[2]
        /\ v.layer = q.layer /\ v.x = q.x + b.offset[1] /\ v.y = q.y + b.offset[2]
    BY <1>2, WireFacts
  <2>2. /\ p.x \in Int /\ p.y \in Int /\ q.x \in Int /\ q.y \in Int
        /\ b.offset[1] \in Int /\ b.offset[2] \in Int
    BY DEF Points
  <2> HIDE DEF u, v
  <2>3. /\ u.x = v.x <=> p.x = q.x
        /\ u.y = v.y <=> p.y = q.y
        /\ v.x - u.x = q.x - p.x /\ v.y - u.y = q.y - p.y
    <3>1. \A s, t, o \in Int : (s + o = t + o <=> s = t) /\ (t + o) - (s + o) = t - s
      OBVIOUS
    <3>2. /\ p.x + b.offset[1] = q.x + b.offset[1] <=> p.x = q.x
          /\ (q.x + b.offset[1]) - (p.x + b.offset[1]) = q.x - p.x
      BY <2>2, <3>1, Zenon
    <3>3. /\ p.y + b.offset[2] = q.y + b.offset[2] <=> p.y = q.y
          /\ (q.y + b.offset[2]) - (p.y + b.offset[2]) = q.y - p.y
      BY <2>2, <3>1, Zenon
    <3> QED
      BY <2>1, <3>2, <3>3, Zenon
  <2>4. Heading(u, v) = Heading(p, q)
    BY <2>1, <2>3, Zenon DEF Heading
  <2>5. u = v => p = q
    BY <2>1, <2>3 DEF Points
  <2> QED
    BY <2>4, <2>5 DEF u, v
<1> QED
  BY <1>1, <1>2

\* What the costs are counted from.
CostsCount ==
  /\ problem \in Problems
  /\ IsFiniteSet(DOMAIN routes)
  /\ \A r \in DOMAIN history : history[r] \in Nat

(* What others use and fought over costs a natural number.                  *)
LEMMA CongestionIsNatural ==
  ASSUME CostsCount, NEW g, IsGrid(g), NEW net, NEW a \in Points, NEW b \in Points
  PROVE  Congestion(g, net, a, b) \in Nat
<1> DEFINE S == TransitionResources(g, a, b) \cup {NodeOf(b)}
           w == [r \in S |-> Cardinality(Users(r) \ {net}) * policy.presentPenalty + HistoryOf(r)]
<1>1. IsFiniteSet(S)
  <2>1. IsFiniteSet(TransitionResources(g, a, b)) /\ IsFiniteSet({NodeOf(b)})
    BY TransitionResourcesAreFinite, FS_Singleton
  <2> QED
    BY <2>1, FS_Union
<1>2. \A r : Cardinality(Users(r) \ {net}) \in Nat
  <2> TAKE r
  <2>1. IsFiniteSet(Users(r))
    BY FS_Subset DEF Users, CostsCount
  <2>2. IsFiniteSet(Users(r) \ {net})
    BY <2>1, FS_Difference
  <2> QED
    BY <2>2, FS_CardinalityType
<1>3. policy.presentPenalty \in Nat
  BY ProblemFacts DEF CostsCount, IsPolicy
<1>4. \A r : HistoryOf(r) \in Nat
  BY DEF HistoryOf, CostsCount
<1>5. w \in [S -> Nat]
  <2> HIDE DEF S
  <2>1. \A c, d, e \in Nat : c * d + e \in Nat
    OBVIOUS
  <2>2. \A r \in S : Cardinality(Users(r) \ {net}) * policy.presentPenalty + HistoryOf(r) \in Nat
    BY <1>2, <1>3, <1>4, <2>1, Zenon
  <2> QED
    BY <2>2
<1>6. Congestion(g, net, a, b) = SumFunction(w)
  BY Zenon DEF Congestion
<1> HIDE DEF w, S
<1> QED
  BY <1>1, <1>5, <1>6, SumIsNatural

(* What a step of a bundle costs is a natural number.                       *)
LEMMA StepCostIsNatural ==
  ASSUME CostsCount, NEW g, IsGrid(g), NEW b, IsSound(b, g), NEW p \in Nodes(g), NEW from,
         NEW m, m.to \in Nodes(g)
  PROVE  StepCost(g, b, p, from, m) \in Nat
<1> DEFINE u(i) == Wire(b, i, p)
           v(i) == Wire(b, i, m.to)
           cost(i) == (IF m.direction = "Via" THEN policy.viaPenalty ELSE Units(u(i), v(i)))
                      + Congestion(g, b.nets[i], u(i), v(i))
           w == [i \in DOMAIN b.nets |-> cost(i)]
<1>1. b.offset \in Int \X Int /\ (DOMAIN b.nets = {1} \/ DOMAIN b.nets = {1, 2})
  BY DEF IsSound
<1>2. p \in Points /\ m.to \in Points
  BY NodesArePoints
<1>3. \A i : u(i) \in Points /\ v(i) \in Points
  BY <1>1, <1>2, WireFacts
<1>4. policy.viaPenalty \in Nat /\ policy.bendPenalty \in Nat
  BY ProblemFacts DEF CostsCount, IsPolicy
<1>5. \A i : cost(i) \in Nat
  <2> TAKE i
  <2>1. Units(u(i), v(i)) \in Nat /\ Congestion(g, b.nets[i], u(i), v(i)) \in Nat
    BY <1>3, UnitsFit, CongestionIsNatural
  <2> QED
    BY <1>4, <2>1
<1>6. IsFiniteSet(DOMAIN b.nets)
  <2>1. (\A x : IsFiniteSet({x})) /\ (\A x, y : IsFiniteSet({x, y}))
    BY TwoAreFinite, FS_Singleton
  <2> QED
    BY <1>1, <2>1, Zenon
<1>7. w \in [DOMAIN b.nets -> Nat]
  <2> HIDE DEF cost
  <2> QED
    BY <1>5
<1>8. StepCost(g, b, p, from, m) = SumFunction(w)
        + IF Bends(from, m.direction) THEN policy.bendPenalty ELSE 0
  BY Zenon DEF StepCost
<1> HIDE DEF w
<1>9. SumFunction(w) \in Nat
  BY <1>6, <1>7, SumIsNatural
<1> QED
  BY <1>4, <1>8, <1>9

\* A way a bundle may go on a grid: a move legal for all its nets.
IsStep(g, b, p, q, direction) ==
  /\ p \in Nodes(g) /\ q \in Nodes(g)
  /\ direction = Heading(p, q)
  /\ \A i \in DOMAIN b.nets : Legal(b.nets[i], Wire(b, i, p), Wire(b, i, q), direction)

(* A move of a bundle is a legal step of each of its nets, to another node. *)
LEMMA BundleMoveFacts ==
  ASSUME NEW g, IsGrid(g), NEW b, NEW p \in Nodes(g), NEW m \in BundleMoves(g, b, p)
  PROVE  IsStep(g, b, p, m.to, m.direction) /\ m.to # p
BY MoveFacts DEF BundleMoves, IsStep

(* A bundle has finitely many moves.                                        *)
LEMMA BundleMovesAreFinite ==
  ASSUME NEW g, NEW b, NEW p
  PROVE  IsFiniteSet(BundleMoves(g, b, p))
BY MovesAreFinite, FS_Subset DEF BundleMoves

(* The moves that improve a state: finitely many, none cheaper than it.     *)
LEMMA ImprovingFacts ==
  ASSUME CostsCount, IsGrid(grid), IsSound(Bundle, grid), NEW top,
         top.state.place \in Nodes(grid), top.cost \in 0 .. MaxCost
  PROVE  /\ IsFiniteSet(Improving(top))
         /\ \A e \in Improving(top) :
              /\ e.cost \in 0 .. MaxCost /\ top.cost <= e.cost
              /\ e.state \in DOMAIN reached => e.cost < reached[e.state].cost
              /\ e.state = State(e.state.place, e.state.direction)
              /\ IsStep(grid, Bundle, top.state.place, e.state.place, e.state.direction)
              /\ e.state.place # top.state.place
<1> DEFINE p == top.state.place
           cost(m) == Sat(top.cost + StepCost(grid, Bundle, p, top.state.direction, m))
           entry == [m \in BundleMoves(grid, Bundle, p) |->
                       Entry(Bundle, Targets, cost(m), State(m.to, m.direction))]
           all == {entry[m] : m \in BundleMoves(grid, Bundle, p)}
<1>1. Improving(top) = {e \in all : e.state \in DOMAIN reached => e.cost < reached[e.state].cost}
  <2>1. all = {Entry(Bundle, Targets, cost(m), State(m.to, m.direction)) :
                 m \in BundleMoves(grid, Bundle, p)}
    OBVIOUS
  <2> QED
    BY <2>1, Zenon DEF Improving
<1>2. IsFiniteSet(all)
  <2> HIDE DEF entry
  <2> QED
    BY BundleMovesAreFinite, ImageIsFinite
<1>3. ASSUME NEW m \in BundleMoves(grid, Bundle, p)
      PROVE  cost(m) \in 0 .. MaxCost /\ top.cost <= cost(m)
  <2>1. m.to \in Nodes(grid)
    BY BundleMoveFacts DEF IsStep
  <2>2. StepCost(grid, Bundle, p, top.state.direction, m) \in Nat
    BY <2>1, StepCostIsNatural
  <2>3. MaxCost \in Nat
    BY RouterAssumption
  <2> QED
    BY <2>2, <2>3 DEF Sat
<1>4. ASSUME NEW m \in BundleMoves(grid, Bundle, p)
      PROVE  /\ entry[m].cost = cost(m)
             /\ entry[m].state = State(m.to, m.direction)
             /\ entry[m].state.place = m.to
             /\ entry[m].state.direction = m.direction
  BY DEF Entry, State
<1>5. ASSUME NEW e \in all
      PROVE  /\ e.cost \in 0 .. MaxCost /\ top.cost <= e.cost
             /\ e.state = State(e.state.place, e.state.direction)
             /\ IsStep(grid, Bundle, p, e.state.place, e.state.direction)
             /\ e.state.place # p
  <2>1. PICK m \in BundleMoves(grid, Bundle, p) : e = entry[m]
    OBVIOUS
  <2>2. e.cost = cost(m) /\ e.state = State(m.to, m.direction)
        /\ e.state.place = m.to /\ e.state.direction = m.direction
    BY <1>4, <2>1, Zenon
  <2>3. cost(m) \in 0 .. MaxCost /\ top.cost <= cost(m)
    BY <1>3
  <2>4. IsStep(grid, Bundle, p, m.to, m.direction) /\ m.to # p
    BY BundleMoveFacts
  <2> HIDE DEF cost
  <2> QED
    BY <2>2, <2>3, <2>4, Zenon
<1>6. IsFiniteSet(Improving(top))
  BY <1>1, <1>2, FS_Subset
<1> HIDE DEF all
<1> QED
  BY <1>1, <1>5, <1>6

-----------------------------------------------------------------------------
(* What a search has found                                                  *)

Prev(found) == [s \in DOMAIN found |-> found[s].from]

\* Each state found is a source of the search or a legal step of the bundle
\* away from its predecessor, which is no dearer; predecessors lead to sources.
IsFound(found, g, b, sources) ==
  /\ \A s \in DOMAIN found :
       /\ s = State(s.place, s.direction) /\ s.place \in Nodes(g)
       /\ found[s].cost \in 0 .. MaxCost
       /\ found[s].from \in DOMAIN found
       /\ found[found[s].from].cost <= found[s].cost
       /\ found[s].from = s => s.place \in sources
       /\ found[s].from # s => IsStep(g, b, found[s].from.place, s.place, s.direction)
  /\ IsRooted(DOMAIN found, Prev(found))

(* A search starts from its sources.                                        *)
LEMMA StartIsFound ==
  ASSUME NEW g, NEW b, NEW sources, sources \subseteq Nodes(g),
         NEW starts, starts = {State(p, "None") : p \in sources},
         NEW found, found = [s \in starts |-> [cost |-> 0, from |-> s]]
  PROVE  IsFound(found, g, b, sources)
<1>1. DOMAIN found = starts /\ \A s \in starts : found[s].cost = 0 /\ found[s].from = s
  OBVIOUS
<1>2. ASSUME NEW s \in starts
      PROVE  s = State(s.place, s.direction) /\ s.place \in sources
  BY DEF State
<1>3. 0 \in 0 .. MaxCost /\ 0 <= 0
  BY RouterAssumption
<1>4. IsRooted(DOMAIN found, Prev(found))
  <2>1. Prev(found) = [s \in starts |-> s]
    BY <1>1 DEF Prev
  <2> QED
    BY <1>1, <2>1 DEF IsRooted
<1>5. ASSUME NEW s \in DOMAIN found
      PROVE  /\ s = State(s.place, s.direction) /\ s.place \in Nodes(g)
             /\ found[s].cost \in 0 .. MaxCost
             /\ found[s].from \in DOMAIN found
             /\ found[found[s].from].cost <= found[s].cost
             /\ found[s].from = s => s.place \in sources
             /\ found[s].from # s => IsStep(g, b, found[s].from.place, s.place, s.direction)
  <2>1. s \in starts
    BY <1>1
  <2>2. s = State(s.place, s.direction) /\ s.place \in sources
    BY <1>2, <2>1
  <2>3. found[s].cost = 0 /\ found[s].from = s
    BY <1>1, <2>1
  <2>4. found[s].cost \in 0 .. MaxCost
    BY <1>3, <2>3, Zenon
  <2>5. found[found[s].from].cost <= found[s].cost
    BY <2>3, <1>3, Zenon
  <2> QED
    BY <2>1, <2>2, <2>3, <2>4, <2>5, <1>1, Zenon
<1> QED
  BY <1>4, <1>5, Zenon DEF IsFound

\* What an expansion of a state adds to what is found.
IsExpansion(new, found, state, better) ==
  new = Over([s \in {e.state : e \in better} |->
                [cost |-> (CHOOSE e \in better : e.state = s).cost, from |-> state]], found)
IsImprovement(e, found, g, b, state) ==
  /\ e.cost \in 0 .. MaxCost /\ found[state].cost <= e.cost
  /\ e.state \in DOMAIN found => e.cost < found[e.state].cost
  /\ e.state = State(e.state.place, e.state.direction)
  /\ IsStep(g, b, state.place, e.state.place, e.state.direction)
  /\ e.state.place # state.place

(* Expanding a state keeps what is found in order: whoever has become       *)
(* cheaper costs more than the state, and so is none of its predecessors.   *)
LEMMA ExpansionIsFound ==
  ASSUME NEW g, NEW b, NEW sources, NEW found, IsFound(found, g, b, sources),
         NEW state \in DOMAIN found, NEW better,
         \A e \in better : IsImprovement(e, found, g, b, state),
         NEW new, IsExpansion(new, found, state, better)
  PROVE  /\ IsFound(new, g, b, sources)
         /\ DOMAIN found \subseteq DOMAIN new /\ \A e \in better : e.state \in DOMAIN new
<1> DEFINE improved == {e.state : e \in better}
           D == DOMAIN new
           limit == found[state].cost
<1>1. D = improved \cup DOMAIN found
  BY DEF IsExpansion, Over
<1>2. ASSUME NEW s \in improved
      PROVE  \E e \in better : e.state = s /\ new[s].cost = e.cost /\ new[s].from = state
  <2> DEFINE add == [t \in improved |->
                       [cost |-> (CHOOSE e \in better : e.state = t).cost, from |-> state]]
  <2>1. new[s] = add[s]
    BY DEF IsExpansion, Over
  <2>2. \E e \in better : e.state = s
    OBVIOUS
  <2>3. PICK e \in better : e.state = s /\ e = CHOOSE f \in better : f.state = s
    BY <2>2, Zenon
  <2>4. add[s] = [cost |-> e.cost, from |-> state]
    BY <2>3
  <2> HIDE DEF add
  <2>5. new[s].cost = e.cost /\ new[s].from = state
    BY <2>1, <2>4
  <2> QED
    BY <2>3, <2>5
<1>3. ASSUME NEW s \in D, s \notin improved
      PROVE  s \in DOMAIN found /\ new[s] = found[s]
  BY <1>1, <1>3 DEF IsExpansion, Over
<1>4. state \notin improved
  BY DEF IsImprovement
<1> HIDE DEF improved
<1>5. \A s \in DOMAIN found : found[s].cost \in Nat
  BY RouterAssumption DEF IsFound
<1>6. \A s \in improved : /\ new[s].cost \in 0 .. MaxCost /\ limit <= new[s].cost
                          /\ s \in DOMAIN found => new[s].cost < found[s].cost
                          /\ s = State(s.place, s.direction)
                          /\ IsStep(g, b, state.place, s.place, s.direction)
                          /\ new[s].from = state
  BY <1>2 DEF IsImprovement
<1>7. new[state] = found[state] /\ state \in D
  BY <1>1, <1>3, <1>4
<1>8. ASSUME NEW s \in D
      PROVE  /\ s = State(s.place, s.direction) /\ s.place \in Nodes(g)
             /\ new[s].cost \in 0 .. MaxCost
             /\ new[s].from \in D
             /\ new[new[s].from].cost <= new[s].cost
             /\ new[s].from = s => s.place \in sources
             /\ new[s].from # s => IsStep(g, b, new[s].from.place, s.place, s.direction)
  <2>1. CASE s \in improved
    <3>1. new[new[s].from].cost <= new[s].cost
      BY <1>6, <1>7, <2>1, Zenon
    <3>2. s.place \in Nodes(g)
      BY <1>6, <2>1, Zenon DEF IsStep
    <3> QED
      BY <1>4, <1>6, <1>7, <2>1, <3>1, <3>2, Zenon
  <2>2. CASE s \notin improved
    <3>1. s \in DOMAIN found /\ new[s] = found[s]
      BY <1>3, <2>2
    <3>2. /\ s = State(s.place, s.direction) /\ s.place \in Nodes(g)
          /\ found[s].cost \in 0 .. MaxCost
          /\ found[s].from \in DOMAIN found
          /\ found[found[s].from].cost <= found[s].cost
          /\ found[s].from = s => s.place \in sources
          /\ found[s].from # s => IsStep(g, b, found[s].from.place, s.place, s.direction)
      BY <3>1, Zenon DEF IsFound
    <3>3. found[s].from \in D
      BY <1>1, <3>2
    <3>4. new[found[s].from].cost <= found[s].cost
      <4>1. CASE found[s].from \in improved
        <5>1. PICK t \in DOMAIN found : t = found[s].from
          BY <3>2
        <5>2. new[t].cost < found[t].cost /\ new[t].cost \in Nat
          BY <1>6, <4>1, <5>1, RouterAssumption
        <5>3. found[t].cost \in Nat /\ found[s].cost \in Nat /\ found[t].cost <= found[s].cost
          BY <1>5, <3>1, <3>2, <5>1
        <5>4. \A x, y, z \in Nat : x < y /\ y <= z => x <= z
          OBVIOUS
        <5> QED
          BY <5>1, <5>2, <5>3, <5>4, Zenon
      <4>2. CASE found[s].from \notin improved
        BY <1>3, <3>2, <3>3, <4>2, Zenon
      <4> QED
        BY <4>1, <4>2
    <3> QED
      BY <3>1, <3>2, <3>3, <3>4, Zenon
  <2> QED
    BY <2>1, <2>2
<1>9. IsRooted(D, Prev(new))
  <2> DEFINE prev == Prev(new)
             old == Prev(found)
  <2>1. \A s \in D : prev[s] = new[s].from
    BY DEF Prev
  <2>2. \A s \in DOMAIN found : old[s] = found[s].from
    BY DEF Prev
  <2>3. prev \in [D -> D]
    BY <1>8 DEF Prev
  <2> HIDE DEF prev, old, D
  <2>4. ASSUME NEW C \in SUBSET D, C # {}, \A s \in C : prev[s] \in C
        PROVE  \E s \in C : prev[s] = s
    <3>1. CASE state \in C
      <4> DEFINE low == {s \in C : s \in DOMAIN found /\ s \notin improved /\ found[s].cost <= limit}
      <4>1. state \in low
        <5>1. limit <= limit
          BY <1>5
        <5> QED
          BY <3>1, <1>4, <5>1
      <4>2. \A s \in low : old[s] \in low /\ old[s] = prev[s]
        <5> SUFFICES ASSUME NEW s \in low
                     PROVE  old[s] \in low /\ old[s] = prev[s]
          OBVIOUS
        <5>1. s \in C /\ s \in D /\ s \in DOMAIN found /\ s \notin improved /\ found[s].cost <= limit
          OBVIOUS
        <5>2. new[s] = found[s]
          BY <1>3, <5>1 DEF D
        <5>3. old[s] = prev[s] /\ prev[s] \in C
          BY <2>1, <2>2, <2>4, <5>1, <5>2
        <5>4. PICK t \in DOMAIN found : t = old[s] /\ found[t].cost <= found[s].cost
          BY <2>2, <5>1 DEF IsFound
        <5>5. found[t].cost <= limit /\ found[t].cost \in Nat /\ limit \in Nat
          <6>1. \A x, y, z \in Nat : x <= y /\ y <= z => x <= z
            OBVIOUS
          <6> QED
            BY <5>1, <5>4, <6>1, <1>5, Zenon
        <5>6. t \notin improved
          <6>1. ASSUME t \in improved
                PROVE  FALSE
            <7>1. new[t].cost < found[t].cost /\ limit <= new[t].cost /\ new[t].cost \in Nat
              BY <1>6, <6>1, RouterAssumption
            <7>2. \A x, y, z \in Nat : ~(x < y /\ y <= z /\ z <= x)
              OBVIOUS
            <7> QED
              BY <7>1, <7>2, <5>5, Zenon
          <6> QED
            BY <6>1
        <5> QED
          BY <5>3, <5>4, <5>5, <5>6
      <4>3. low \in SUBSET DOMAIN found /\ low # {}
        BY <4>1
      <4> HIDE DEF low
      <4>4. PICK s \in low : old[s] = s
        BY <4>2, <4>3 DEF IsFound, IsRooted, old
      <4>5. low \subseteq C
        BY DEF low
      <4> QED
        BY <4>2, <4>4, <4>5
    <3>2. CASE state \notin C
      <4>1. \A s \in C : s \notin improved
        BY <1>6, <2>1, <2>4, <3>2
      <4>2. \A s \in C : s \in DOMAIN found /\ old[s] = prev[s]
        BY <1>3, <2>1, <2>2, <4>1 DEF D
      <4>3. PICK s \in C : old[s] = s
        BY <2>4, <4>2 DEF IsFound, IsRooted, old
      <4> QED
        BY <4>2, <4>3
    <3> QED
      BY <3>1, <3>2
  <2> QED
    BY <2>3, <2>4, Zenon DEF IsRooted, prev
<1>10. IsFound(new, g, b, sources)
  BY <1>8, <1>9, Zenon DEF IsFound
<1> QED
  BY <1>1, <1>10 DEF improved

-----------------------------------------------------------------------------
(* Paths                                                                    *)

\* A way of the bundle from one of the sources to a place.
IsWay(path, g, b, sources, place) ==
  /\ path \in Seq(Nodes(g)) /\ Len(path) >= 1
  /\ path[1] \in sources /\ path[Len(path)] = place
  /\ \A i \in 1 .. (Len(path) - 1) : IsStep(g, b, path[i], path[i + 1], Heading(path[i], path[i + 1]))

(* A source is a way to itself.                                             *)
LEMMA WayOfOne ==
  ASSUME NEW g, NEW b, NEW sources, NEW p \in Nodes(g), p \in sources
  PROVE  IsWay(<<p>>, g, b, sources, p)
<1>1. <<p>> \in Seq(Nodes(g)) /\ Len(<<p>>) = 1 /\ <<p>>[1] = p
  OBVIOUS
<1>2. 1 .. (Len(<<p>>) - 1) = {}
  BY <1>1
<1>3. Len(<<p>>) >= 1 /\ <<p>>[Len(<<p>>)] = p
  BY <1>1
<1> QED
  BY <1>1, <1>2, <1>3, Zenon DEF IsWay

(* A step after a way makes a longer way.                                   *)
LEMMA LongerWay ==
  ASSUME NEW g, NEW b, NEW sources, NEW path, NEW p, IsWay(path, g, b, sources, p),
         NEW q, NEW direction, IsStep(g, b, p, q, direction)
  PROVE  IsWay(Append(path, q), g, b, sources, q)
<1> DEFINE longer == Append(path, q)
           n == Len(path)
<1>1. path \in Seq(Nodes(g)) /\ q \in Nodes(g) /\ n \in Nat /\ n >= 1
  BY DEF IsWay, IsStep
<1>2. longer \in Seq(Nodes(g)) /\ Len(longer) = n + 1 /\ longer[n + 1] = q
      /\ \A i \in 1 .. n : longer[i] = path[i]
  BY <1>1
<1> HIDE DEF longer
<1>3. Len(longer) >= 1 /\ longer[1] \in sources /\ longer[Len(longer)] = q
  <2>1. 1 \in 1 .. n /\ path[1] \in sources
    BY <1>1 DEF IsWay
  <2> QED
    BY <1>1, <1>2, <2>1
<1>4. IsStep(g, b, p, q, Heading(p, q))
  BY DEF IsStep
<1>5. ASSUME NEW i \in 1 .. (Len(longer) - 1)
      PROVE  IsStep(g, b, longer[i], longer[i + 1], Heading(longer[i], longer[i + 1]))
  <2>1. CASE i = n
    <3>1. longer[i] = p
      BY <1>1, <1>2, <2>1 DEF IsWay
    <3>2. longer[i + 1] = q
      BY <1>2, <2>1
    <3> QED
      BY <1>4, <3>1, <3>2, Zenon
  <2>2. CASE i # n
    <3>1. i \in 1 .. (n - 1) /\ i \in 1 .. n /\ i + 1 \in 1 .. n
      BY <1>1, <1>2, <2>2
    <3>2. longer[i] = path[i] /\ longer[i + 1] = path[i + 1]
      BY <1>2, <3>1
    <3>3. IsStep(g, b, path[i], path[i + 1], Heading(path[i], path[i + 1]))
      BY <3>1 DEF IsWay
    <3> QED
      BY <3>2, <3>3, Zenon
  <2> QED
    BY <2>1, <2>2
<1>6. IsWay(longer, g, b, sources, q)
  BY <1>2, <1>3, <1>5, Zenon DEF IsWay
<1> QED
  BY <1>6 DEF longer

(* Following the predecessors from a state found yields a legal way to its  *)
(* place from a source of the search.                                       *)
LEMMA PathToIsWay ==
  ASSUME NEW g, NEW b, NEW sources, NEW found, IsFound(found, g, b, sources), NEW state \in DOMAIN found
  PROVE  IsWay(PathTo(found, state), g, b, sources, state.place)
<1> DEFINE D == DOMAIN found
           T == Seq(Nodes(g))
           prev == Prev(found)
           base == [s \in D |-> <<s.place>>]
           op == [s \in D |-> [q \in T |-> Append(q, s.place)]]
           Follows(f) == f = [s \in D |-> IF found[s].from = s THEN <<s.place>>
                                          ELSE Append(f[found[s].from], s.place)]
           path == CHOOSE f : Follows(f)
<1>1. \A s \in D : s.place \in Nodes(g) /\ found[s].from \in D /\ prev[s] = found[s].from
  BY DEF IsFound, Prev
<1>2. IsRooted(D, prev)
  BY DEF IsFound
<1>3. base \in [D -> T] /\ op \in [D -> [T -> T]]
  BY <1>1
<1>4. PICK f \in [D -> T] : IsRecursion(f, D, prev, base, op)
  <2> HIDE DEF base, op, T, prev, D
  <2> QED
    BY <1>2, <1>3, RecursionExists
<1>5. Follows(f)
  <2> SUFFICES ASSUME NEW s \in D
               PROVE  f[s] = IF found[s].from = s THEN <<s.place>>
                             ELSE Append(f[found[s].from], s.place)
    BY <1>4, Zenon
  <2>1. f[s] = IF prev[s] = s THEN base[s] ELSE op[s][f[prev[s]]]
    BY <1>4, Zenon DEF IsRecursion
  <2>2. f[prev[s]] \in T
    <3> HIDE DEF T, prev, D
    <3> QED
      BY <1>1, <1>4
  <2>3. base[s] = <<s.place>> /\ op[s][f[prev[s]]] = Append(f[prev[s]], s.place)
    <3> HIDE DEF prev
    <3> QED
      BY <2>2
  <2> QED
    BY <2>1, <2>3, <1>1, Zenon
<1>6. Follows(path)
  BY <1>5, Zenon
<1>7. PathTo(found, state) = path[state]
  BY Zenon DEF PathTo
<1> HIDE DEF path
<1> DEFINE bad == {s \in D : ~IsWay(path[s], g, b, sources, s.place)}
<1>8. ASSUME NEW s \in bad
      PROVE  prev[s] # s /\ prev[s] \in bad
  <2>1. s \in D /\ prev[s] \in D /\ s.place \in Nodes(g) /\ prev[s] = found[s].from
    BY <1>1
  <2>2. prev[s] # s
    <3>1. ASSUME prev[s] = s
          PROVE  FALSE
      <4>1. path[s] = <<s.place>> /\ s.place \in sources
        BY <1>6, <2>1, <3>1, Zenon DEF IsFound
      <4> QED
        BY <2>1, <4>1, WayOfOne
    <3> QED
      BY <3>1
  <2>3. ASSUME prev[s] \notin bad
        PROVE  FALSE
    <3>1. IsWay(path[prev[s]], g, b, sources, prev[s].place)
      BY <2>1, <2>3
    <3>2. IsStep(g, b, prev[s].place, s.place, s.direction)
      BY <2>1, <2>2 DEF IsFound
    <3>3. path[s] = Append(path[prev[s]], s.place)
      BY <1>6, <2>1, <2>2, Zenon
    <3>4. IsWay(Append(path[prev[s]], s.place), g, b, sources, s.place)
      <4> HIDE DEF prev, bad
      <4> QED
        BY <3>1, <3>2, LongerWay
    <3> HIDE DEF prev
    <3> QED
      BY <3>3, <3>4
  <2> QED
    BY <2>2, <2>3
<1>9. bad = {}
  <2> HIDE DEF prev, D
  <2>1. bad \in SUBSET D
    OBVIOUS
  <2> HIDE DEF bad
  <2> QED
    BY <1>2, <1>8, <2>1, Zenon DEF IsRooted
<1>10. IsWay(path[state], g, b, sources, state.place)
  BY <1>9
<1> QED
  BY <1>7, <1>10

-----------------------------------------------------------------------------
(* Refinement regions                                                       *)
Holds(r, s) == Within(r, s.min) /\ Within(r, s.max)
Areas == {r \in Boxes : Holds(r, r)}
BoxSets == {S \in SUBSET Areas : IsFiniteSet(S)}
Corners(S) == UNION {{r.min, r.max} : r \in S}

(* The hull of finitely many points is the least box around them.           *)
LEMMA HullFacts ==
  ASSUME NEW points, points \subseteq Int \X Int, IsFiniteSet(points), points # {}
  PROVE  /\ Hull(points) \in Areas
         /\ \A p \in points : Within(Hull(points), p)
         /\ \A r \in Boxes : (\A p \in points : Within(r, p)) => Holds(r, Hull(points))
<1> DEFINE first == [p \in points |-> p[1]]
           second == [p \in points |-> p[2]]
           X == {first[p] : p \in points}
           Y == {second[p] : p \in points}
<1>1. X = {p[1] : p \in points} /\ Y = {p[2] : p \in points}
  OBVIOUS
<1>2. X \subseteq Int /\ Y \subseteq Int /\ X # {} /\ Y # {}
  OBVIOUS
<1>3. IsFiniteSet(X) /\ IsFiniteSet(Y)
  <2> HIDE DEF first, second
  <2>1. \A f : IsFiniteSet({f[p] : p \in points})
    BY ImageIsFinite
  <2> QED
    BY <2>1
<1>4. /\ \A p \in points : p[1] \in X /\ p[2] \in Y
      /\ \A x \in X : \E p \in points : x = p[1]
      /\ \A y \in Y : \E p \in points : y = p[2]
  OBVIOUS
<1>5. Hull(points) = [min |-> <<Min(X), Min(Y)>>, max |-> <<Max(X), Max(Y)>>]
  BY <1>1, Zenon DEF Hull
<1> HIDE DEF X, Y
<1>6. /\ Min(X) \in X /\ (\A y \in X : Min(X) <= y)
      /\ Max(X) \in X /\ (\A y \in X : y <= Max(X))
  BY <1>2, <1>3, MinMaxOfFinite
<1>7. /\ Min(Y) \in Y /\ (\A y \in Y : Min(Y) <= y)
      /\ Max(Y) \in Y /\ (\A y \in Y : y <= Max(Y))
  BY <1>2, <1>3, MinMaxOfFinite
<1> HIDE DEF first, second
<1>8. PICK a \in Int, b \in Int, c \in Int, d \in Int :
        a = Min(X) /\ b = Min(Y) /\ c = Max(X) /\ d = Max(Y)
  BY <1>2, <1>6, <1>7
<1>9. Hull(points) = [min |-> <<a, b>>, max |-> <<c, d>>]
  BY <1>5, <1>8, Zenon
<1>10. Hull(points) \in Boxes
  BY <1>9 DEF Boxes
<1>11. ASSUME NEW p \in points
       PROVE  Within(Hull(points), p)
  <2>1. a <= p[1] /\ p[1] <= c /\ b <= p[2] /\ p[2] <= d
    BY <1>4, <1>6, <1>7, <1>8
  <2>2. p[1] \in Int /\ p[2] \in Int
    OBVIOUS
  <2>3. p[1] \in a .. c /\ p[2] \in b .. d
    BY <2>1, <2>2
  <2> QED
    BY <1>9, <2>3 DEF Within
<1>12. ASSUME NEW r \in Boxes, \A p \in points : Within(r, p)
       PROVE  Holds(r, Hull(points))
  <2>1. \A x \in X : x \in r.min[1] .. r.max[1]
    BY <1>4, <1>12, Zenon DEF Within
  <2>2. \A y \in Y : y \in r.min[2] .. r.max[2]
    BY <1>4, <1>12, Zenon DEF Within
  <2>3. a \in r.min[1] .. r.max[1] /\ c \in r.min[1] .. r.max[1]
    BY <2>1, <1>6, <1>8
  <2>4. b \in r.min[2] .. r.max[2] /\ d \in r.min[2] .. r.max[2]
    BY <2>2, <1>7, <1>8
  <2> QED
    BY <1>9, <2>3, <2>4 DEF Holds, Within
<1>13. Holds(Hull(points), Hull(points))
  <2>1. PICK p \in points : TRUE
    OBVIOUS
  <2>2. a <= p[1] /\ p[1] <= c /\ b <= p[2] /\ p[2] <= d
    BY <1>4, <1>6, <1>7, <1>8
  <2>3. p[1] \in Int /\ p[2] \in Int
    OBVIOUS
  <2>4. a \in a .. c /\ c \in a .. c /\ b \in b .. d /\ d \in b .. d
    BY <2>2, <2>3
  <2> QED
    BY <1>9, <2>4 DEF Holds, Within
<1> QED
  BY <1>10, <1>11, <1>12, <1>13 DEF Areas

(* What the corners of finitely many boxes are, and the hull around them.   *)
LEMMA HullOfBoxes ==
  ASSUME NEW S \in BoxSets, S # {}
  PROVE  /\ Hull(Corners(S)) \in Areas
         /\ \A s \in S : Holds(Hull(Corners(S)), s)
         /\ \A r \in Boxes : (\A s \in S : Holds(r, s)) => Holds(r, Hull(Corners(S)))
<1> DEFINE ends == [s \in S |-> {s.min, s.max}]
           E == {ends[s] : s \in S}
<1>1. IsFiniteSet(S) /\ S \subseteq Boxes
  BY DEF BoxSets, Areas
<1>2. IsFiniteSet(E)
  <2> HIDE DEF ends
  <2> QED
    BY <1>1, ImageIsFinite
<1>3. \A e \in E : IsFiniteSet(e)
  BY TwoAreFinite, Zenon
<1>4. Corners(S) = UNION E
  BY DEF Corners
<1>5. IsFiniteSet(Corners(S))
  <2> HIDE DEF E
  <2> QED
    BY <1>2, <1>3, <1>4, FS_UNION
<1>6. /\ \A s \in S : s.min \in Corners(S) /\ s.max \in Corners(S)
      /\ \A p \in Corners(S) : \E s \in S : p = s.min \/ p = s.max
  BY <1>4
<1>7. Corners(S) \subseteq Int \X Int
  BY <1>1, <1>6 DEF Boxes
<1>8. Corners(S) # {}
  BY <1>6, Zenon
<1>9. /\ Hull(Corners(S)) \in Areas
      /\ \A p \in Corners(S) : Within(Hull(Corners(S)), p)
      /\ \A r \in Boxes : (\A p \in Corners(S) : Within(r, p)) => Holds(r, Hull(Corners(S)))
  BY <1>5, <1>7, <1>8, HullFacts
<1> HIDE DEF ends, E
<1>10. \A s \in S : Holds(Hull(Corners(S)), s)
  BY <1>6, <1>9, Zenon DEF Holds
<1>11. ASSUME NEW r \in Boxes, \A s \in S : Holds(r, s)
       PROVE  Holds(r, Hull(Corners(S)))
  <2>1. \A p \in Corners(S) : Within(r, p)
    BY <1>6, <1>11, Zenon DEF Holds
  <2> QED
    BY <1>9, <2>1, Zenon
<1> QED
  BY <1>9, <1>10, <1>11

(* Holding and overlapping.                                                 *)
LEMMA HoldsFacts ==
  ASSUME NEW a \in Boxes, NEW b \in Boxes
  PROVE  /\ Overlap(a, b) <=> Overlap(b, a)
         /\ \A c \in Boxes : Holds(a, b) /\ Holds(b, c) => Holds(a, c)
         /\ \A s \in Boxes : Holds(a, b) /\ Overlap(s, b) => Overlap(s, a)
<1>1. a.min \in Int \X Int /\ a.max \in Int \X Int /\ b.min \in Int \X Int /\ b.max \in Int \X Int
  BY DEF Boxes
<1>2. Overlap(a, b) <=> Overlap(b, a)
  BY DEF Overlap
<1>3. ASSUME NEW c \in Boxes, Holds(a, b), Holds(b, c)
      PROVE  Holds(a, c)
  <2>1. c.min \in Int \X Int /\ c.max \in Int \X Int
    BY DEF Boxes
  <2> QED
    BY <1>1, <1>3, <2>1 DEF Holds, Within
<1>4. ASSUME NEW s \in Boxes, Holds(a, b), Overlap(s, b)
      PROVE  Overlap(s, a)
  <2>1. s.min \in Int \X Int /\ s.max \in Int \X Int
    BY DEF Boxes
  <2> QED
    BY <1>1, <1>4, <2>1 DEF Holds, Within, Overlap
<1> QED
  BY <1>2, <1>3, <1>4

\* What a region of `merged` overlaps with, and the box that grows over it.
MetBy(merged, box) == {s \in merged : Overlap(s, box)}
GrowsOver(grown, region, merged) ==
  grown = [k \in 0 .. Cardinality(merged) |->
             IF k = 0 THEN region
             ELSE Hull(Corners(MetBy(merged, grown[k - 1]) \cup {grown[k - 1]}))]

(* What grows over the regions it overlaps holds, once there have been as   *)
(* many steps as there are regions, all that it overlaps.                   *)
LEMMA GrownHolds ==
  ASSUME NEW region \in Areas, NEW merged \in BoxSets, NEW grown \in [0 .. Cardinality(merged) -> Areas],
         GrowsOver(grown, region, merged)
  PROVE  /\ Holds(grown[Cardinality(merged)], region)
         /\ \A s \in merged : Overlap(s, grown[Cardinality(merged)])
                               => Holds(grown[Cardinality(merged)], s)
<1>1. IsFiniteSet(merged) /\ merged \subseteq Areas
  BY DEF BoxSets
<1>2. PICK n \in Nat : n = Cardinality(merged)
  BY <1>1, FS_CardinalityType
<1> DEFINE met(k) == MetBy(merged, grown[k])
           Closed(k) == \A s \in met(k) : Holds(grown[k], s)
           Good(k) == /\ Holds(grown[k], region)
                      /\ Closed(k) \/ Cardinality(met(k)) >= k + 1
<1>3. \A k \in 0 .. n : /\ grown[k] \in Areas
                        /\ IsFiniteSet(met(k)) /\ Cardinality(met(k)) \in Nat
                        /\ met(k) \subseteq merged
  <2>1. \A k \in 0 .. n : grown[k] \in Areas
    BY <1>2
  <2>2. \A k \in 0 .. n : met(k) \subseteq merged
    BY DEF MetBy
  <2>3. \A k \in 0 .. n : IsFiniteSet(met(k)) /\ Cardinality(met(k)) \in Nat
    BY <2>2, <1>1, FS_Subset, FS_CardinalityType
  <2> QED
    BY <2>1, <2>2, <2>3
<1>4. \A r \in Areas : r \in Boxes /\ Holds(r, r)
  BY DEF Areas
<1>5. Good(0)
  <2>1. 0 \in 0 .. n
    OBVIOUS
  <2>2. grown[0] = region
    BY <1>2, <2>1, Zenon DEF GrowsOver
  <2>3. Holds(grown[0], region)
    BY <2>2, <1>4
  <2>4. ASSUME met(0) # {}
        PROVE  Cardinality(met(0)) >= 0 + 1
    <3>1. Cardinality(met(0)) # 0
      BY <1>3, <2>1, <2>4, FS_EmptySet, Zenon
    <3> HIDE DEF met
    <3> QED
      BY <3>1, <1>3, <2>1
  <2>5. met(0) = {} => Closed(0)
    BY Zenon
  <2> HIDE DEF met
  <2> QED
    BY <2>3, <2>4, <2>5, Zenon
<1>6. ASSUME NEW k \in 1 .. n
      PROVE  /\ k - 1 \in 0 .. n /\ k \in 0 .. n
             /\ Holds(grown[k], grown[k - 1])
             /\ \A s \in met(k - 1) : Holds(grown[k], s)
             /\ \A r \in Boxes : Holds(r, grown[k - 1]) /\ (\A s \in met(k - 1) : Holds(r, s)) => Holds(r, grown[k])
  <2>1. k - 1 \in 0 .. n /\ k \in 0 .. n /\ k # 0
    OBVIOUS
  <2> DEFINE together == met(k - 1) \cup {grown[k - 1]}
  <2>2. grown[k] = Hull(Corners(together))
    BY <1>2, <2>1, Zenon DEF GrowsOver
  <2>3. together \in BoxSets /\ together # {}
    <3>1. IsFiniteSet(met(k - 1) \cup {grown[k - 1]})
      BY <1>3, <2>1, FS_Singleton, FS_Union
    <3>2. together \subseteq Areas
      BY <1>1, <1>3, <2>1
    <3> QED
      BY <3>1, <3>2 DEF BoxSets
  <2> HIDE DEF together
  <2>4. /\ \A s \in together : Holds(grown[k], s)
        /\ \A r \in Boxes : (\A s \in together : Holds(r, s)) => Holds(r, grown[k])
    BY <2>2, <2>3, HullOfBoxes
  <2> USE DEF together
  <2> HIDE DEF met
  <2> QED
    BY <2>1, <2>4
<1>7. ASSUME NEW k \in 1 .. n, Good(k - 1)
      PROVE  Good(k)
  <2>1. k - 1 \in 0 .. n /\ k \in 0 .. n
    OBVIOUS
  <2>2. grown[k] \in Boxes /\ grown[k - 1] \in Boxes /\ region \in Boxes
    BY <1>3, <1>4, <2>1
  <2>3. Holds(grown[k], region)
    BY <1>6, <1>7, <2>2, HoldsFacts
  <2>4. met(k - 1) \subseteq met(k)
    <3> SUFFICES ASSUME NEW s \in met(k - 1)
                 PROVE  s \in met(k)
      OBVIOUS
    <3>1. s \in merged /\ Overlap(s, grown[k - 1]) /\ s \in Boxes
      BY <1>1, <1>4 DEF MetBy
    <3>2. Overlap(s, grown[k])
      BY <3>1, <1>6, <2>2, HoldsFacts
    <3> QED
      BY <3>1, <3>2 DEF MetBy
  <2>5. CASE Closed(k - 1)
    <3>1. Holds(grown[k - 1], grown[k])
      BY <1>3, <1>4, <1>6, <2>1, <2>2, <2>5, Zenon
    <3>2. met(k) \subseteq met(k - 1)
      <4> SUFFICES ASSUME NEW s \in met(k)
                   PROVE  s \in met(k - 1)
        OBVIOUS
      <4>1. s \in merged /\ Overlap(s, grown[k]) /\ s \in Boxes
        BY <1>1, <1>4 DEF MetBy
      <4>2. Overlap(s, grown[k - 1])
        BY <4>1, <3>1, <2>2, HoldsFacts
      <4> QED
        BY <4>1, <4>2 DEF MetBy
    <3> HIDE DEF met
    <3> QED
      BY <3>2, <1>6, <2>3, Zenon
  <2>6. CASE Cardinality(met(k - 1)) >= k
    <3>1. CASE met(k) = met(k - 1)
      <4> HIDE DEF met
      <4> QED
        BY <3>1, <1>6, <2>3, Zenon
    <3>2. CASE met(k) # met(k - 1)
      <4>1. Cardinality(met(k - 1)) < Cardinality(met(k))
        BY <1>3, <2>1, <2>4, <3>2, SmallerSubset
      <4>2. PICK a \in Nat, b \in Nat : a = Cardinality(met(k - 1)) /\ b = Cardinality(met(k))
        BY <1>3, <2>1
      <4>3. b >= k + 1
        BY <4>1, <4>2, <2>6
      <4> QED
        BY <4>2, <4>3, <2>3, Zenon
    <3> QED
      BY <3>1, <3>2
  <2>7. Closed(k - 1) \/ Cardinality(met(k - 1)) >= k
    <3>1. k - 1 + 1 = k
      OBVIOUS
    <3> QED
      BY <3>1, <1>7, Zenon
  <2> QED
    BY <2>5, <2>6, <2>7
<1> DEFINE bad == {k \in 0 .. n : ~Good(k)}
<1>8. bad = {}
  <2> SUFFICES ASSUME bad # {}
               PROVE  FALSE
    OBVIOUS
  <2>1. bad \subseteq Nat
    OBVIOUS
  <2> HIDE DEF Good
  <2>2. PICK k \in bad : \A j \in bad : k <= j
    <3> HIDE DEF bad
    <3> QED
      BY <2>1, LeastNatural
  <2>3. k \in 0 .. n /\ ~Good(k) /\ k # 0
    BY <1>5
  <2>4. k \in 1 .. n /\ k - 1 \in 0 .. n /\ k - 1 < k
    BY <2>3
  <2>5. Good(k - 1)
    BY <2>2, <2>4
  <2> QED
    BY <2>3, <2>4, <2>5, <1>7, Zenon
<1>9. Good(n) /\ n \in 0 .. n
  <2> HIDE DEF Good
  <2> QED
    BY <1>8
<1>10. ~(Cardinality(met(n)) >= n + 1)
  <2>1. Cardinality(met(n)) <= Cardinality(merged)
    BY <1>1, <1>3, <1>9, FS_Subset
  <2>2. PICK a \in Nat : a = Cardinality(met(n))
    BY <1>3, <1>9
  <2> HIDE DEF met
  <2> QED
    BY <2>1, <2>2, <1>2
<1>11. Closed(n) /\ Holds(grown[n], region)
  BY <1>9, <1>10, Zenon
<1> QED
  BY <1>2, <1>11 DEF MetBy

(* A region that is inserted ends up in one that holds it and all the       *)
(* regions this one overlaps.                                               *)
LEMMA InsertFacts ==
  ASSUME NEW region \in Areas, NEW merged \in BoxSets
  PROVE  \E whole \in Areas :
           /\ Insert(region, merged) = {s \in merged : ~Overlap(s, whole)} \cup {whole}
           /\ Holds(whole, region)
           /\ \A s \in merged : Overlap(s, whole) => Holds(whole, s)
<1>1. IsFiniteSet(merged) /\ merged \subseteq Areas
  BY DEF BoxSets
<1>2. PICK n \in Nat : n = Cardinality(merged)
  BY <1>1, FS_CardinalityType
<1> DEFINE D == 0 .. n
           prev == [k \in D |-> IF k = 0 THEN 0 ELSE k - 1]
           base == [k \in D |-> region]
           around(box) == Hull(Corners(MetBy(merged, box) \cup {box}))
           op == [k \in D |-> [box \in Areas |-> around(box)]]
<1>3. IsRooted(D, prev)
  <2>1. prev \in [D -> D]
    OBVIOUS
  <2>2. ASSUME NEW C \in SUBSET D, C # {}, \A x \in C : prev[x] \in C
        PROVE  \E x \in C : prev[x] = x
    <3>1. PICK k \in C : \A j \in C : k <= j
      <4>1. C \subseteq Nat
        OBVIOUS
      <4> QED
        BY <4>1, <2>2, LeastNatural
    <3>2. k \in D /\ prev[k] = (IF k = 0 THEN 0 ELSE k - 1)
      OBVIOUS
    <3>3. k = 0
      <4>1. prev[k] \in C
        BY <2>2, <3>1, Zenon
      <4>2. k <= prev[k] /\ k \in Nat
        BY <3>1, <4>1
      <4> QED
        BY <3>2, <4>2
    <3> QED
      BY <3>2, <3>3
  <2> HIDE DEF prev, D
  <2> QED
    BY <2>1, <2>2, Zenon DEF IsRooted
<1>4. ASSUME NEW box \in Areas
      PROVE  around(box) \in Areas
  <2> DEFINE together == MetBy(merged, box) \cup {box}
  <2>1. MetBy(merged, box) \subseteq merged
    BY DEF MetBy
  <2>2. IsFiniteSet(together)
    BY <2>1, <1>1, FS_Subset, FS_Singleton, FS_Union
  <2>3. together \in BoxSets /\ together # {}
    BY <2>1, <2>2, <1>1 DEF BoxSets
  <2> HIDE DEF together
  <2>4. Hull(Corners(together)) \in Areas
    BY <2>3, HullOfBoxes
  <2> QED
    BY <2>4 DEF together
<1>5. base \in [D -> Areas] /\ op \in [D -> [Areas -> Areas]]
  <2> HIDE DEF around
  <2> QED
    BY <1>4
<1>6. \A k \in D, box \in Areas : op[k][box] = around(box)
  BY Zenon
<1>7. PICK f \in [D -> Areas] : IsRecursion(f, D, prev, base, op)
  <2> HIDE DEF D, prev, base, op
  <2> QED
    BY <1>3, <1>5, RecursionExists
<1> DEFINE Grows(g) == GrowsOver(g, region, merged)
<1>8. Grows(f)
  <2>1. ASSUME NEW k \in D
        PROVE  f[k] = IF k = 0 THEN region ELSE around(f[k - 1])
    <3>1. f[k] = IF prev[k] = k THEN base[k] ELSE op[k][f[prev[k]]]
      BY <1>7, Zenon DEF IsRecursion
    <3>2. CASE k = 0
      <4>1. prev[k] = k /\ base[k] = region
        BY <3>2
      <4> QED
        BY <3>1, <3>2, <4>1, Zenon
    <3>3. CASE k # 0
      <4>1. prev[k] = k - 1 /\ prev[k] # k /\ k - 1 \in D
        BY <3>3
      <4>2. f[k - 1] \in Areas
        BY <4>1
      <4> HIDE DEF prev, base, op, around, D
      <4> QED
        BY <3>1, <3>3, <4>1, <4>2, <1>6, Zenon
    <3> QED
      BY <3>2, <3>3
  <2>2. f = [k \in D |-> f[k]]
    OBVIOUS
  <2>3. f = [k \in D |-> IF k = 0 THEN region ELSE around(f[k - 1])]
    <3> HIDE DEF D, around
    <3> QED
      BY <2>1, <2>2
  <2> QED
    BY <2>3, <1>2, Zenon DEF GrowsOver
<1> DEFINE grown == CHOOSE g : Grows(g)
<1>9. Grows(grown)
  BY <1>8, Zenon
<1>10. \A g : Grows(g) => g = f
  <2> SUFFICES ASSUME NEW g, Grows(g)
               PROVE  g = f
    OBVIOUS
  <2>1. /\ g = [k \in D |-> g[k]]
        /\ \A k \in D : g[k] = IF k = 0 THEN region ELSE around(g[k - 1])
    BY <1>2, Zenon DEF GrowsOver
  <2>2. /\ f = [k \in D |-> f[k]]
        /\ \A k \in D : f[k] = IF k = 0 THEN region ELSE around(f[k - 1])
    BY <1>2, <1>8, Zenon DEF GrowsOver
  <2> DEFINE differ == {k \in D : g[k] # f[k]}
  <2>3. differ = {}
    <3> SUFFICES ASSUME differ # {}
                 PROVE  FALSE
      OBVIOUS
    <3>1. differ \subseteq Nat
      OBVIOUS
    <3> HIDE DEF around
    <3>2. PICK k \in differ : \A j \in differ : k <= j
      <4> HIDE DEF differ
      <4> QED
        BY <3>1, LeastNatural
    <3>3. k \in D /\ g[k] # f[k]
      OBVIOUS
    <3>4. k # 0
      BY <2>1, <2>2, <3>3
    <3>5. k - 1 \in D /\ k - 1 < k
      BY <3>3, <3>4
    <3>6. g[k - 1] = f[k - 1]
      BY <3>2, <3>5
    <3>7. g[k] = around(g[k - 1]) /\ f[k] = around(f[k - 1])
      BY <2>1, <2>2, <3>3, <3>4
    <3> QED
      BY <3>3, <3>6, <3>7, Zenon
  <2>4. \A k \in D : g[k] = f[k]
    BY <2>3
  <2> HIDE DEF D, around, differ
  <2>5. g = [k \in D |-> g[k]] /\ f = [k \in D |-> f[k]]
    BY <2>1, <2>2, Zenon
  <2> QED
    BY <2>4, <2>5
<1>11. grown \in [0 .. Cardinality(merged) -> Areas]
  BY <1>2, <1>9, <1>10, Zenon
<1> DEFINE whole == grown[Cardinality(merged)]
<1>12. Insert(region, merged) = {s \in merged : ~Overlap(s, whole)} \cup {whole}
  BY Zenon DEF Insert, GrowsOver, MetBy, Corners
<1> HIDE DEF grown
<1>13. whole \in Areas
  BY <1>11, <1>2
<1>14. /\ Holds(whole, region)
       /\ \A s \in merged : Overlap(s, whole) => Holds(whole, s)
  BY <1>9, <1>11, GrownHolds
<1> HIDE DEF whole
<1> QED
  BY <1>12, <1>13, <1>14, Zenon

(* The smaller and the larger of two numbers.                               *)
LEMMA OfTwo ==
  ASSUME NEW a \in Int, NEW b \in Int
  PROVE  /\ Min({a, b}) \in Int /\ Min({a, b}) <= a /\ Min({a, b}) <= b
         /\ Max({a, b}) \in Int /\ a <= Max({a, b}) /\ b <= Max({a, b})
         /\ Min({a, b}) = a \/ Min({a, b}) = b
         /\ Max({a, b}) = a \/ Max({a, b}) = b
<1> DEFINE two == {a, b}
<1>1. two \subseteq Int /\ two # {} /\ IsFiniteSet(two)
  BY TwoAreFinite
<1>2. a \in two /\ b \in two /\ \A c \in two : c = a \/ c = b
  OBVIOUS
<1> HIDE DEF two
<1>3. /\ Min(two) \in two /\ \A y \in two : Min(two) <= y
      /\ Max(two) \in two /\ \A y \in two : y <= Max(two)
  BY <1>1, MinMaxOfFinite
<1>4. /\ Min(two) \in Int /\ Min(two) <= a /\ Min(two) <= b
      /\ Max(two) \in Int /\ a <= Max(two) /\ b <= Max(two)
      /\ Min(two) = a \/ Min(two) = b
      /\ Max(two) = a \/ Max(two) = b
  BY <1>1, <1>2, <1>3
<1> QED
  BY <1>4 DEF two

(* A range that is stretched stays one of integers, and loses nothing.      *)
LEMMA StretchFacts ==
  ASSUME NEW low \in Int, NEW high \in Int, NEW lines \in FinitelyMany, lines # {}
  PROVE  \E a, b \in Int : Stretch(low, high, lines) = <<a, b>> /\ a <= low /\ high <= b
<1>1. CASE lines \cap low .. high # {}
  BY <1>1 DEF Stretch
<1>2. CASE lines \cap low .. high = {}
  <2>1. lines \subseteq Int /\ IsFiniteSet(lines)
    BY DEF FinitelyMany
  <2> DEFINE gap(l) == Min({Distance(l, low), Distance(l, high)})
             gaps == {gap(l) : l \in lines}
             nearest == {l \in lines : \A m \in lines : gap(l) <= gap(m)}
  <2>2. \A l \in lines : gap(l) \in Nat
    <3> SUFFICES ASSUME NEW l \in lines
                 PROVE  gap(l) \in Nat
      OBVIOUS
    <3>1. Distance(l, low) \in Nat /\ Distance(l, high) \in Nat
      BY <2>1 DEF Distance
    <3>2. gap(l) = Distance(l, low) \/ gap(l) = Distance(l, high)
      BY <3>1, OfTwo
    <3> HIDE DEF gap
    <3> QED
      BY <3>1, <3>2
  <2> HIDE DEF gap
  <2>3. gaps \subseteq Nat /\ gaps # {}
    BY <2>2
  <2>4. PICK g \in gaps : \A y \in gaps : g <= y
    <3> HIDE DEF gaps
    <3> QED
      BY <2>3, LeastNatural
  <2>5. nearest # {}
    BY <2>4
  <2>6. nearest \subseteq Int /\ IsFiniteSet(nearest)
    BY <2>1, FS_Subset
  <2> HIDE DEF nearest
  <2>7. Min(nearest) \in Int
    BY <2>5, <2>6, MinMaxOfFinite
  <2>8. Stretch(low, high, lines) = <<Min({low, Min(nearest)}), Max({high, Min(nearest)})>>
    BY <1>2, Zenon DEF Stretch, gap, nearest
  <2>9. /\ Min({low, Min(nearest)}) \in Int /\ Min({low, Min(nearest)}) <= low
        /\ Max({high, Min(nearest)}) \in Int /\ high <= Max({high, Min(nearest)})
    BY <2>7, OfTwo
  <2> QED
    BY <2>8, <2>9, Zenon
<1> QED
  BY <1>1, <1>2

(* A range that is padded keeps meeting what it met on the board.           *)
LEMMA PaddedRangeFacts ==
  ASSUME NEW low \in Int, NEW high \in Int, NEW size \in Nat, NEW padding \in Nat \ {0},
         NEW lines \in FinitelyMany, lines # {}
  PROVE  \E a, b \in Int :
           /\ PaddedRange(low, high, size, padding, lines) = <<a, b>>
           /\ low <= high /\ low <= size /\ 0 <= high /\ size > 0 => a < b /\ a <= high /\ low <= b
<1>1. low - padding \in Int /\ high + padding \in Int /\ 0 \in Int /\ size \in Int
  OBVIOUS
<1> DEFINE from == Max({0, low - padding})
           to == Min({size, high + padding})
<1>2. /\ from \in Int /\ (from = 0 \/ from = low - padding)
      /\ to \in Int /\ (to = size \/ to = high + padding)
  BY <1>1, OfTwo
<1>3. PaddedRange(low, high, size, padding, lines) = Stretch(from, to, lines)
  BY Zenon DEF PaddedRange
<1> HIDE DEF from, to
<1>4. PICK a \in Int, b \in Int : Stretch(from, to, lines) = <<a, b>> /\ a <= from /\ to <= b
  BY <1>2, StretchFacts, Zenon
<1>5. low <= high /\ low <= size /\ 0 <= high /\ size > 0 => a < b /\ a <= high /\ low <= b
  BY <1>2, <1>4
<1> QED
  BY <1>3, <1>4, <1>5, Zenon

\* The board, as a box.
BoardBox(board) == [min |-> <<0, 0>>, max |-> <<board.width, board.height>>]

(* What is refined for a hotspot: at most one region, which meets a hotspot *)
(* that lies on the board.                                                  *)
LEMMA RegionsForFacts ==
  ASSUME NEW board, IsBoard(board), NEW pitch \in Nat \ {0}, NEW padding \in Nat \ {0},
         NEW hull \in Areas
  PROVE  /\ RegionsFor(board, pitch, padding, hull) \in BoxSets
         /\ board.width > 0 /\ board.height > 0 /\ Overlap(hull, BoardBox(board))
              => \E r \in RegionsFor(board, pitch, padding, hull) : Overlap(hull, r)
<1>1. board.width \in Nat /\ board.height \in Nat
  BY DEF IsBoard
<1>2. /\ hull.min[1] \in Int /\ hull.min[2] \in Int /\ hull.max[1] \in Int /\ hull.max[2] \in Int
      /\ hull.min[1] <= hull.max[1] /\ hull.min[2] <= hull.max[2]
  BY DEF Areas, Boxes, Holds, Within
<1>3. /\ Lines(board.width, pitch) \in FinitelyMany /\ Lines(board.width, pitch) # {}
      /\ Lines(board.height, pitch) \in FinitelyMany /\ Lines(board.height, pitch) # {}
  BY <1>1, LinesAreFinite
<1> DEFINE width == Lines(board.width, pitch)
           height == Lines(board.height, pitch)
<1>20. width \in FinitelyMany /\ width # {} /\ hull.min[1] \in Int /\ hull.max[1] \in Int /\ board.width \in Nat
  BY <1>1, <1>2, <1>3
<1>21. height \in FinitelyMany /\ height # {} /\ hull.min[2] \in Int /\ hull.max[2] \in Int /\ board.height \in Nat
  BY <1>1, <1>2, <1>3
<1> DEFINE rx == PaddedRange(hull.min[1], hull.max[1], board.width, padding, Lines(board.width, pitch))
           ry == PaddedRange(hull.min[2], hull.max[2], board.height, padding, Lines(board.height, pitch))
<1>22. \E u, v \in Int :
         /\ ry = <<u, v>>
         /\ hull.min[2] <= hull.max[2] /\ hull.min[2] <= board.height /\ 0 <= hull.max[2] /\ board.height > 0
              => u < v /\ u <= hull.max[2] /\ hull.min[2] <= v
  BY <1>21, PaddedRangeFacts, Zenon
<1>4. PICK a \in Int, b \in Int :
        /\ rx = <<a, b>>
        /\ hull.min[1] <= hull.max[1] /\ hull.min[1] <= board.width /\ 0 <= hull.max[1] /\ board.width > 0
             => a < b /\ a <= hull.max[1] /\ hull.min[1] <= b
  BY <1>1, <1>2, <1>3, PaddedRangeFacts, Zenon
<1>5. PICK c \in Int, d \in Int :
        /\ ry = <<c, d>>
        /\ hull.min[2] <= hull.max[2] /\ hull.min[2] <= board.height /\ 0 <= hull.max[2] /\ board.height > 0
             => c < d /\ c <= hull.max[2] /\ hull.min[2] <= d
  BY <1>22, Zenon
<1>6. RegionsFor(board, pitch, padding, hull)
        = {r \in {[min |-> <<rx[1], ry[1]>>, max |-> <<rx[2], ry[2]>>]} :
             r.min[1] < r.max[1] /\ r.min[2] < r.max[2]}
  BY Zenon DEF RegionsFor
<1> HIDE DEF rx, ry
<1> DEFINE region == [min |-> <<a, c>>, max |-> <<b, d>>]
<1>7. RegionsFor(board, pitch, padding, hull) = {r \in {region} : r.min[1] < r.max[1] /\ r.min[2] < r.max[2]}
  BY <1>4, <1>5, <1>6
<1>8. region \in Boxes /\ region.min[1] = a /\ region.min[2] = c /\ region.max[1] = b /\ region.max[2] = d
  BY DEF Boxes
<1>9. a < b /\ c < d => region \in Areas
  <2> SUFFICES ASSUME a < b, c < d
               PROVE  region \in Areas
    OBVIOUS
  <2>1. a \in a .. b /\ b \in a .. b /\ c \in c .. d /\ d \in c .. d
    OBVIOUS
  <2> QED
    BY <1>8, <2>1 DEF Areas, Holds, Within
<1> HIDE DEF region
<1>10. RegionsFor(board, pitch, padding, hull) \in BoxSets
  <2>1. RegionsFor(board, pitch, padding, hull) \subseteq {region}
    BY <1>7
  <2>2. IsFiniteSet(RegionsFor(board, pitch, padding, hull))
    BY <2>1, FS_Singleton, FS_Subset
  <2>3. RegionsFor(board, pitch, padding, hull) \subseteq Areas
    BY <1>7, <1>8, <1>9
  <2> QED
    BY <2>2, <2>3 DEF BoxSets
<1>11. ASSUME board.width > 0, board.height > 0, Overlap(hull, BoardBox(board))
       PROVE  \E r \in RegionsFor(board, pitch, padding, hull) : Overlap(hull, r)
  <2>1. /\ hull.min[1] <= board.width /\ 0 <= hull.max[1]
        /\ hull.min[2] <= board.height /\ 0 <= hull.max[2]
    BY <1>11 DEF Overlap, BoardBox
  <2>2. /\ a < b /\ a <= hull.max[1] /\ hull.min[1] <= b
        /\ c < d /\ c <= hull.max[2] /\ hull.min[2] <= d
    BY <1>2, <1>4, <1>5, <1>11, <2>1
  <2>3. region \in RegionsFor(board, pitch, padding, hull)
    BY <1>7, <1>8, <2>2
  <2>4. Overlap(hull, region)
    BY <1>8, <2>2 DEF Overlap
  <2> QED
    BY <2>3, <2>4
<1> QED
  BY <1>10, <1>11

\* Regions that lie apart.
Tidy(areas) == \A r, s \in areas : r = s \/ ~Overlap(r, s)
\* A merge of some regions: they lie apart, and each is held by one of them.
IsMerge(merged, areas) ==
  /\ merged \in BoxSets /\ Tidy(merged)
  /\ \A r \in areas : \E m \in merged : Holds(m, r)

(* Inserting a region into a merge of others makes a merge with it.         *)
LEMMA InsertMerges ==
  ASSUME NEW region \in Areas, NEW merged, NEW others, others \subseteq Areas, IsMerge(merged, others)
  PROVE  IsMerge(Insert(region, merged), others \cup {region})
<1>1. merged \in BoxSets /\ IsFiniteSet(merged) /\ merged \subseteq Areas
  BY DEF IsMerge, BoxSets
<1>2. PICK whole \in Areas :
        /\ Insert(region, merged) = {s \in merged : ~Overlap(s, whole)} \cup {whole}
        /\ Holds(whole, region)
        /\ \A s \in merged : Overlap(s, whole) => Holds(whole, s)
  BY <1>1, InsertFacts
<1> DEFINE kept == {s \in merged : ~Overlap(s, whole)}
<1>3. kept \cup {whole} \in BoxSets
  <2>1. IsFiniteSet(kept \cup {whole})
    BY <1>1, FS_Subset, FS_Singleton, FS_Union
  <2> QED
    BY <1>1, <2>1 DEF BoxSets
<1>4. Tidy(kept \cup {whole})
  <2> SUFFICES ASSUME NEW r \in kept \cup {whole}, NEW s \in kept \cup {whole}, r # s
               PROVE  ~Overlap(r, s)
    BY DEF Tidy
  <2>1. whole \in Boxes /\ \A m \in merged : m \in Boxes
    BY <1>1 DEF Areas
  <2>2. CASE r = whole
    BY <2>1, <2>2, HoldsFacts
  <2>3. CASE s = whole
    BY <2>3
  <2>4. CASE r # whole /\ s # whole
    BY <2>4 DEF IsMerge, Tidy
  <2> QED
    BY <2>2, <2>3, <2>4
<1>5. ASSUME NEW r \in others \cup {region}
      PROVE  \E m \in kept \cup {whole} : Holds(m, r)
  <2>1. CASE r = region
    BY <1>2, <2>1
  <2>2. CASE r \in others
    <3>1. PICK m \in merged : Holds(m, r)
      BY <2>2 DEF IsMerge
    <3>2. CASE Overlap(m, whole)
      <4>1. Holds(whole, m)
        BY <1>2, <3>2
      <4>2. whole \in Boxes /\ m \in Boxes /\ r \in Boxes
        BY <1>1, <2>2 DEF Areas
      <4>3. Holds(whole, r)
        BY <3>1, <4>1, <4>2, HoldsFacts
      <4> QED
        BY <4>3
    <3>3. CASE ~Overlap(m, whole)
      BY <3>1, <3>3
    <3> QED
      BY <3>2, <3>3
  <2> QED
    BY <2>1, <2>2
<1> HIDE DEF kept
<1>6. IsMerge(kept \cup {whole}, others \cup {region})
  BY <1>3, <1>4, <1>5 DEF IsMerge
<1> QED
  BY <1>2, <1>6, Zenon DEF kept

(* Merging the regions proposed for a round yields a merge of them.         *)
LEMMA MergeMerges ==
  ASSUME NEW areas \in BoxSets
  PROVE  IsMerge(Merge(areas), areas)
<1> DEFINE S == areas
           pick == [s \in SUBSET S |-> CHOOSE x \in s : TRUE]
           op == [x \in S |-> [m \in BoxSets |-> Insert(x, m)]]
           Folds(it) == it = [s \in SUBSET S |-> IF s = {} THEN {}
                                ELSE Insert(CHOOSE x \in s : TRUE, it[s \ {CHOOSE x \in s : TRUE}])]
<1>1. IsFiniteSet(S) /\ S \subseteq Areas
  BY DEF BoxSets
<1>2. \A s \in SUBSET S : s # {} => pick[s] \in s /\ pick[s] = CHOOSE x \in s : TRUE
  BY Zenon
<1>3. \A x \in S, m \in BoxSets : Insert(x, m) \in BoxSets
  <2> SUFFICES ASSUME NEW x \in S, NEW m \in BoxSets
               PROVE  Insert(x, m) \in BoxSets
    OBVIOUS
  <2>1. PICK whole \in Areas : Insert(x, m) = {s \in m : ~Overlap(s, whole)} \cup {whole}
    BY <1>1, InsertFacts
  <2>2. IsFiniteSet({s \in m : ~Overlap(s, whole)} \cup {whole})
    BY FS_Subset, FS_Singleton, FS_Union DEF BoxSets
  <2> QED
    BY <2>1, <2>2 DEF BoxSets
<1>4. op \in [S -> [BoxSets -> BoxSets]]
  BY <1>3
<1>5. \A x \in S, m \in BoxSets : op[x][m] = Insert(x, m)
  BY Zenon
<1>6. {} \in BoxSets
  BY FS_EmptySet DEF BoxSets
<1>7. PICK it \in [SUBSET S -> BoxSets] : IsFold(it, S, {}, pick, op)
  <2> HIDE DEF pick, op
  <2>1. \A s \in SUBSET S : s # {} => pick[s] \in s
    BY <1>2
  <2>2. CanFold(S, BoxSets, {}, pick, op)
    BY <1>1, <1>4, <1>6, <2>1, Zenon DEF CanFold
  <2> QED
    BY <2>2, FoldExists
<1>8. Folds(it)
  <2> SUFFICES ASSUME NEW s \in SUBSET S
               PROVE  it[s] = IF s = {} THEN {}
                              ELSE Insert(CHOOSE x \in s : TRUE, it[s \ {CHOOSE x \in s : TRUE}])
    BY <1>7, Zenon DEF IsFold
  <2>1. CASE s = {}
    BY <1>7, <2>1, Zenon DEF IsFold
  <2>2. CASE s # {}
    <3>1. it[s] = op[pick[s]][it[s \ {pick[s]}]]
      BY <1>7, <2>2, Zenon DEF IsFold
    <3>2. it[s \ {pick[s]}] \in BoxSets /\ pick[s] \in S
      BY <1>2, <1>7, <2>2, Zenon
    <3>3. it[s] = Insert(pick[s], it[s \ {pick[s]}])
      BY <3>1, <3>2, <1>5, Zenon
    <3> QED
      BY <3>3, <1>2, <2>2, Zenon
  <2> QED
    BY <2>1, <2>2
<1>9. Folds(CHOOSE f : Folds(f))
  <2> HIDE DEF Folds
  <2> QED
    BY <1>8, Zenon
<1> DEFINE chosen == CHOOSE f : Folds(f)
<1>10. IsMerge(chosen[S], S)
  <2> HIDE DEF chosen
  <2>1. Folds(chosen)
    BY <1>9 DEF chosen
  <2>2. chosen[{}] = {}
    BY <2>1, Zenon
  <2> DEFINE T == {p \in (SUBSET S) \X BoxSets : IsMerge(p[2], p[1])}
             both == [s \in SUBSET S |-> <<s, chosen[s]>>]
  <2>3. ASSUME NEW s \in SUBSET S, s # {}, both[s \ {pick[s]}] \in T
        PROVE  both[s] \in T
    <3>1. pick[s] \in s /\ pick[s] = (CHOOSE x \in s : TRUE) /\ pick[s] \in S
      BY <1>2, <2>3, Zenon
    <3> DEFINE x == pick[s]
               rest == s \ {x}
    <3>2. chosen[s] = Insert(x, chosen[rest])
      BY <2>1, <2>3, <3>1, Zenon
    <3> HIDE DEF pick
    <3>3. rest \in SUBSET S /\ rest \cup {x} = s /\ x \in Areas
      BY <1>1, <3>1
    <3>4. both[rest] = <<rest, chosen[rest]>> /\ both[s] = <<s, chosen[s]>>
      BY <3>3
    <3>5. IsMerge(chosen[rest], rest)
      BY <2>3, <3>4
    <3> HIDE DEF both, x, rest
    <3>6. IsMerge(Insert(x, chosen[rest]), rest \cup {x})
      BY <3>3, <3>5, <1>1, InsertMerges
    <3>7. IsMerge(chosen[s], s)
      BY <3>2, <3>3, <3>6, Zenon
    <3>8. chosen[s] \in BoxSets
      BY <3>7 DEF IsMerge
    <3> QED
      BY <3>4, <3>7, <3>8
  <2>4. both[{}] \in T
    <3>1. IsMerge({}, {})
      BY <1>6 DEF IsMerge, Tidy
    <3>2. both[{}] = <<{}, {}>>
      BY <2>2
    <3> HIDE DEF both
    <3>3. PICK none \in BoxSets : none = {}
      BY <1>6
    <3>4. none \in SUBSET S /\ IsMerge(none, none) /\ both[{}] = <<none, none>>
      BY <3>1, <3>2, <3>3, Zenon
    <3> QED
      BY <3>4
  <2>5. \A s \in SUBSET S : s # {} => pick[s] \in s
    BY <1>2, Zenon
  <2> HIDE DEF pick
  <2>6. StaysIn(both, S, T, pick)
    <3> HIDE DEF both, T
    <3> QED
      BY <2>3, <2>4, <2>5, Zenon DEF StaysIn
  <2>7. both[S] \in T
    <3> HIDE DEF both, T
    <3> QED
      BY <2>6, <1>1, FoldStays
  <2>8. both[S] = <<S, chosen[S]>>
    OBVIOUS
  <2> HIDE DEF both
  <2> QED
    BY <2>7, <2>8
<1>11. Merge(S) = chosen[S]
  BY Zenon DEF Merge, FoldSet, MapThenFoldSet
<1> QED
  BY <1>10, <1>11

(* A grid refined in finitely many regions is a grid.                       *)
LEMMA RefinedGridIsGrid ==
  ASSUME NEW board, IsBoard(board), NEW pitch \in Nat \ {0}, NEW boxes \in BoxSets
  PROVE  IsGrid(RefinedGrid(board, pitch, boxes))
<1>1. board.width \in Nat /\ board.height \in Nat /\ board.layers \in Nat
  BY DEF IsBoard
<1>2. IsFiniteSet(boxes) /\ \A r \in boxes : /\ r.min[1] \in Int /\ r.max[1] \in Int
                                             /\ r.min[2] \in Int /\ r.max[2] \in Int
  BY DEF BoxSets, Areas, Boxes
<1> DEFINE across == [r \in boxes |-> r.min[1] .. r.max[1]]
           along == [r \in boxes |-> r.min[2] .. r.max[2]]
           As == {across[r] : r \in boxes}
           Bs == {along[r] : r \in boxes}
<1>3. (\A a \in As : a \in FinitelyMany) /\ (\A b \in Bs : b \in FinitelyMany)
  <2>1. \A r \in boxes : across[r] \in FinitelyMany /\ along[r] \in FinitelyMany
    <3> SUFFICES ASSUME NEW r \in boxes
                 PROVE  across[r] \in FinitelyMany /\ along[r] \in FinitelyMany
      OBVIOUS
    <3>1. IsFiniteSet(r.min[1] .. r.max[1]) /\ IsFiniteSet(r.min[2] .. r.max[2])
      BY <1>2, IntervalIsFinite
    <3> QED
      BY <3>1 DEF FinitelyMany
  <2> HIDE DEF across, along
  <2> QED
    BY <2>1
<1>4. IsFiniteSet(As) /\ IsFiniteSet(Bs)
  <2> HIDE DEF across, along
  <2>1. \A f : IsFiniteSet({f[r] : r \in boxes})
    BY <1>2, ImageIsFinite
  <2> QED
    BY <2>1
<1>5. UNION As \in FinitelyMany /\ UNION Bs \in FinitelyMany
  <2> HIDE DEF As, Bs
  <2>1. IsFiniteSet(UNION As) /\ IsFiniteSet(UNION Bs)
    <3>1. (\A a \in As : IsFiniteSet(a)) /\ (\A b \in Bs : IsFiniteSet(b))
      BY <1>3 DEF FinitelyMany
    <3> QED
      BY <1>4, <3>1, FS_UNION
  <2> QED
    BY <1>3, <2>1 DEF FinitelyMany
<1>6. /\ UNION {r.min[1] .. r.max[1] : r \in boxes} = UNION As
      /\ UNION {r.min[2] .. r.max[2] : r \in boxes} = UNION Bs
  OBVIOUS
<1> HIDE DEF As, Bs, across, along
<1> DEFINE xs == Lines(board.width, pitch) \cup UNION As
           ys == Lines(board.height, pitch) \cup UNION Bs
           active == {p \in xs \X ys : \/ p \in Lines(board.width, pitch) \X Lines(board.height, pitch)
                                       \/ \E r \in boxes : Within(r, p)}
<1>7. xs \in FinitelyMany /\ ys \in FinitelyMany
  BY <1>1, <1>5, LinesAreFinite, UnionIsFinite
<1>8. RefinedGrid(board, pitch, boxes) = [xs |-> xs, ys |-> ys, layers |-> board.layers, active |-> active]
  BY <1>6, Zenon DEF RefinedGrid
<1>9. active \subseteq xs \X ys
  OBVIOUS
<1> HIDE DEF xs, ys, active
<1> QED
  BY <1>1, <1>7, <1>8, <1>9 DEF IsGrid, FinitelyMany

(* Where the terminals are: finitely many planar points of each net.        *)
LEMMA PadPointsAreFinite ==
  ASSUME problem \in Problems, NEW n \in TerminalNets
  PROVE  /\ {t.at : t \in Range(problem.terminals[n])} \subseteq Int \X Int
         /\ IsFiniteSet({t.at : t \in Range(problem.terminals[n])})
<1> DEFINE R == Range(problem.terminals[n])
           where == [t \in R |-> t.at]
<1>1. problem.terminals[n] \in Seq(Terminals)
  BY ProblemFacts
<1>2. R \subseteq Terminals /\ IsFiniteSet(R)
  BY <1>1, PlacesAreFinite
<1>3. {t.at : t \in R} = {where[t] : t \in R}
  OBVIOUS
<1>4. IsFiniteSet({where[t] : t \in R})
  <2> HIDE DEF R, where
  <2> QED
    BY <1>2, ImageIsFinite
<1>5. {t.at : t \in R} \subseteq Int \X Int
  <2> HIDE DEF R
  <2> QED
    BY <1>2 DEF Terminals
<1> QED
  BY <1>3, <1>4, <1>5

(* All features, finitely many.                                             *)
LEMMA FeaturesAreFinite ==
  ASSUME problem \in Problems
  PROVE  Features \subseteq Int \X Int /\ IsFiniteSet(Features)
<1> DEFINE at == [n \in TerminalNets |-> {t.at : t \in Range(problem.terminals[n])}]
           all == {at[n] : n \in TerminalNets}
<1>1. IsFiniteSet(TerminalNets)
  BY ProblemFacts
<1>2. \A n \in TerminalNets : at[n] \subseteq Int \X Int /\ IsFiniteSet(at[n])
  BY PadPointsAreFinite
<1>3. Features = UNION all
  BY Zenon DEF Features
<1> HIDE DEF at
<1>4. IsFiniteSet(all)
  BY <1>1, ImageIsFinite
<1>5. \A a \in all : a \subseteq Int \X Int /\ IsFiniteSet(a)
  BY <1>2
<1> HIDE DEF all
<1>6. IsFiniteSet(UNION all)
  BY <1>4, <1>5, FS_UNION
<1>7. UNION all \subseteq Int \X Int
  BY <1>5
<1> QED
  BY <1>3, <1>6, <1>7

(* Where the negative lies from the positive, of the pairs that match.      *)
LEMMA PairOffsetsAreOffsets ==
  ASSUME problem \in Problems
  PROVE  PairOffsets \in Seq(Int \X Int)
<1> DEFINE matched == {pair \in problem.pairs : PairOrder(pair) # <<>> /\ PairOffset(pair) \in pair.offsets}
<1>1. ArePairs(problem.pairs, TerminalNets)
  BY ProblemFacts
<1>2. ArePairs(matched, TerminalNets)
  <2>1. IsFiniteSet(matched)
    BY <1>1, FS_Subset DEF ArePairs
  <2> QED
    BY <1>1, <2>1 DEF ArePairs
<1>3. ById(matched) \in Seq(matched)
  <2> HIDE DEF matched
  <2> QED
    BY <1>2, ByIdLists
<1>4. ASSUME NEW pair \in matched
      PROVE  PairOffset(pair) \in Int \X Int
  <2>1. pair \in problem.pairs /\ PairOrder(pair) # <<>>
    OBVIOUS
  <2>2. pair.positive \in TerminalNets /\ pair.negative \in TerminalNets
    BY <1>1, <2>1 DEF ArePairs
  <2> DEFINE p == problem.terminals[pair.positive]
             n == problem.terminals[pair.negative]
  <2>3. p \in Seq(Terminals) /\ n \in Seq(Terminals)
    BY <2>2, ProblemFacts
  <2>4. /\ Len(p) = 2 /\ Len(n) = 2
        /\ \E j \in {1, 2} : Offset(p[1], n[j]) = PairOffset(pair)
    BY <2>1, PairOrderFacts
  <2> HIDE DEF p, n
  <2>5. PICK j \in {1, 2} : Offset(p[1], n[j]) = PairOffset(pair)
    BY <2>4
  <2>6. p[1] \in Terminals /\ n[j] \in Terminals
    <3>1. 1 \in 1 .. Len(p) /\ j \in 1 .. Len(n)
      BY <2>4
    <3> QED
      BY <2>3, <3>1, ElementOfSeq
  <2>7. Offset(p[1], n[j]) \in Int \X Int
    BY <2>6 DEF Offset, Terminals
  <2> QED
    BY <2>5, <2>7
<1> DEFINE order == ById(matched)
           offsets == [i \in DOMAIN order |-> PairOffset(order[i])]
<1>5. PairOffsets = offsets
  BY Zenon DEF PairOffsets
<1>6. PICK n \in Nat : n = Len(order) /\ DOMAIN order = 1 .. n /\ \A i \in 1 .. n : order[i] \in matched
  <2> HIDE DEF order, matched
  <2>1. order \in Seq(matched)
    BY <1>3 DEF order
  <2>2. Len(order) \in Nat /\ DOMAIN order = 1 .. Len(order)
    BY <2>1, PlacesAreFinite
  <2> QED
    BY <2>1, <2>2, ElementOfSeq
<1> HIDE DEF order, matched
<1>7. offsets \in [1 .. n -> Int \X Int]
  BY <1>4, <1>6
<1> HIDE DEF offsets
<1>8. offsets \in Seq(Int \X Int)
  BY <1>7, FunctionIsList
<1> QED
  BY <1>5, <1>8

(* The grid of every round is one.                                          *)
LEMMA GridOfIsGrid ==
  ASSUME problem \in Problems, NEW r, NEW refined \in BoxSets
  PROVE  IsGrid(GridOf(r, refined))
<1>1. IsBoard(problem.board) /\ policy.multiplier \in Nat \ {0}
  BY ProblemFacts DEF IsPolicy
<1>2. IsGrid(CoarseGrid(problem.board, 1, {}, <<>>))
  <2>1. {} \subseteq Int \X Int /\ IsFiniteSet({}) /\ <<>> \in Seq(Int \X Int)
    BY FS_EmptySet
  <2>2. PICK none : none = {} /\ none \subseteq Int \X Int /\ IsFiniteSet(none)
    BY <2>1
  <2>3. PICK empty \in Seq(Int \X Int) : empty = <<>>
    BY <2>1
  <2>4. PICK one \in Nat \ {0} : one = 1
    OBVIOUS
  <2>5. IsGrid(CoarseGrid(problem.board, one, none, empty))
    BY <1>1, <2>2, CoarseGridIsGrid
  <2> QED
    BY <2>2, <2>3, <2>4, <2>5, Zenon
<1>3. IsGrid(CoarseGrid(problem.board, policy.multiplier, Features, PairOffsets))
  BY <1>1, FeaturesAreFinite, PairOffsetsAreOffsets, CoarseGridIsGrid, Zenon
<1>4. IsGrid(RefinedGrid(problem.board, policy.multiplier, refined))
  BY <1>1, RefinedGridIsGrid
<1> QED
  BY <1>2, <1>3, <1>4, Zenon DEF GridOf

-----------------------------------------------------------------------------
(* Routes                                                                   *)

\* What a bundle has reached before its k-th path, and paths that continue
\* one another from place to place.
TreeOf(b, ps, k) == b.places[1] \cup UNION {Range(ps[j]) : j \in 1 .. (k - 1)}
EndsAt(path, g, b, ps, k) == \E p \in b.places[k + 1] : IsWay(path, g, b, TreeOf(b, ps, k), p)
AreWays(ps, g, b) ==
  /\ ps \in Seq(Seq(Nodes(g))) /\ Len(ps) < Len(b.places)
  /\ \A k \in 1 .. Len(ps) : EndsAt(ps[k], g, b, ps, k)

(* One more path, from what the others have reached to the next place,      *)
(* continues them.                                                          *)
LEMMA MoreWays ==
  ASSUME NEW g, NEW b, NEW ps, AreWays(ps, g, b), Len(b.places) \in Nat, Len(ps) + 1 < Len(b.places),
         NEW path, EndsAt(path, g, b, ps, Len(ps) + 1)
  PROVE  /\ AreWays(Append(ps, path), g, b)
         /\ Len(Append(ps, path)) = Len(ps) + 1
         /\ TreeOf(b, Append(ps, path), Len(ps) + 2) = TreeOf(b, ps, Len(ps) + 1) \cup Range(path)
<1>1. ps \in Seq(Seq(Nodes(g)))
  BY DEF AreWays
<1>2. PICK n \in Nat : n = Len(ps)
  BY <1>1
<1>3. path \in Seq(Nodes(g))
  BY DEF EndsAt, IsWay
<1> DEFINE more == Append(ps, path)
<1>4. /\ more \in Seq(Seq(Nodes(g))) /\ Len(more) = n + 1
      /\ \A j \in 1 .. n : more[j] = ps[j]
      /\ more[n + 1] = path
  BY <1>1, <1>2, <1>3
<1> HIDE DEF more
<1>5. ASSUME NEW k \in 1 .. (n + 1)
      PROVE  TreeOf(b, more, k) = TreeOf(b, ps, k)
  <2>1. \A j \in 1 .. (k - 1) : more[j] = ps[j]
    BY <1>4
  <2>2. {Range(more[j]) : j \in 1 .. (k - 1)} = {Range(ps[j]) : j \in 1 .. (k - 1)}
    BY <2>1
  <2> QED
    BY <2>2, Zenon DEF TreeOf
<1>6. ASSUME NEW k \in 1 .. (n + 1)
      PROVE  EndsAt(more[k], g, b, more, k)
  <2>1. CASE k = n + 1
    <3>1. EndsAt(path, g, b, ps, n + 1)
      BY <1>2, Zenon
    <3> QED
      BY <3>1, <2>1, <1>4, <1>5, Zenon DEF EndsAt
  <2>2. CASE k # n + 1
    <3>1. k \in 1 .. n
      BY <2>2
    <3>2. EndsAt(ps[k], g, b, ps, k)
      BY <3>1, <1>2, Zenon DEF AreWays
    <3> QED
      BY <3>1, <3>2, <1>4, <1>5, Zenon DEF EndsAt
  <2> QED
    BY <2>1, <2>2
<1>7. AreWays(more, g, b)
  <2>1. Len(more) < Len(b.places) /\ 1 .. Len(more) = 1 .. (n + 1)
    BY <1>2, <1>4
  <2> QED
    BY <2>1, <1>4, <1>6, Zenon DEF AreWays
<1>8. TreeOf(b, more, n + 2) = TreeOf(b, ps, n + 1) \cup Range(path)
  <2>1. n + 2 - 1 = n + 1 /\ n + 1 - 1 = n /\ 1 .. (n + 1) = 1 .. n \cup {n + 1}
    OBVIOUS
  <2>2. UNION {Range(more[j]) : j \in 1 .. (n + 1)} = (UNION {Range(ps[j]) : j \in 1 .. n}) \cup Range(path)
    BY <2>1, <1>4
  <2>3. TreeOf(b, more, n + 2) = b.places[1] \cup UNION {Range(more[j]) : j \in 1 .. (n + 1)}
    BY <2>1 DEF TreeOf
  <2>4. TreeOf(b, ps, n + 1) = b.places[1] \cup UNION {Range(ps[j]) : j \in 1 .. n}
    BY <2>1 DEF TreeOf
  <2> DEFINE A == UNION {Range(more[j]) : j \in 1 .. (n + 1)}
             B == UNION {Range(ps[j]) : j \in 1 .. n}
  <2>5. A = B \cup Range(path) /\ TreeOf(b, more, n + 2) = b.places[1] \cup A /\ TreeOf(b, ps, n + 1) = b.places[1] \cup B
    BY <2>2, <2>3, <2>4, Zenon
  <2> HIDE DEF A, B
  <2> QED
    BY <2>5
<1> QED
  BY <1>2, <1>4, <1>7, <1>8 DEF more

\* What holds of every route of a pass: legal edges between points, every
\* pad met, each path from the first pad or an earlier path.
PadsAt(n, g) == {At(t, g) : t \in Range(problem.terminals[n])}
OnPath(p, path) == \E i \in 1 .. Len(path) : p = path[i]
LegalPath(path, n) ==
  /\ path \in Seq(Points) /\ Len(path) >= 1
  /\ \A i \in 1 .. (Len(path) - 1) : Legal(n, path[i], path[i + 1], Heading(path[i], path[i + 1]))
MeetsPad(ps, pad) == \E k \in 1 .. Len(ps) : \E p \in pad : OnPath(p, ps[k])
Grows(ps, pad) ==
  \A k \in 1 .. Len(ps) : \/ ps[k][1] \in pad
                          \/ \E j \in 1 .. (k - 1) : OnPath(ps[k][1], ps[j])
Occupies(route) ==
  /\ IsFiniteSet(route.resources) /\ \A r \in route.resources : IsResource(r)
  /\ \A k \in 1 .. Len(route.paths) : \A p : OnPath(p, route.paths[k]) => NodeOf(p) \in route.resources
GoodRoute(route, n, g) ==
  /\ route.paths \in Seq(Seq(Points))
  /\ \A k \in 1 .. Len(route.paths) : LegalPath(route.paths[k], n)
  /\ \A pad \in PadsAt(n, g) : MeetsPad(route.paths, pad)
  /\ \E pad \in PadsAt(n, g) : Grows(route.paths, pad)
  /\ Occupies(route)

(* What a net occupies with paths between points.                           *)
LEMMA RouteOccupies ==
  ASSUME NEW g, IsGrid(g), NEW ps \in Seq(Seq(Points)), NEW route,
         route.paths = ps,
         route.resources = UNION {PathResources(g, ps[k]) : k \in DOMAIN ps}
  PROVE  Occupies(route)
<1> DEFINE of == [k \in DOMAIN ps |-> PathResources(g, ps[k])]
           all == {of[k] : k \in DOMAIN ps}
<1>1. DOMAIN ps = 1 .. Len(ps) /\ IsFiniteSet(DOMAIN ps)
  BY PlacesAreFinite
<1>2. \A k \in DOMAIN ps : ps[k] \in Seq(Points)
  BY <1>1, ElementOfSeq
<1>3. \A k \in DOMAIN ps : IsFiniteSet(of[k]) /\ \A r \in of[k] : IsResource(r)
  BY <1>2, PathResourcesAreFinite
<1>4. route.resources = UNION all
  BY Zenon
<1>5. \A k \in DOMAIN ps : of[k] \subseteq route.resources /\ of[k] = PathResources(g, ps[k])
  BY <1>4
<1> HIDE DEF of
<1>6. IsFiniteSet(all)
  <2>1. \A S : IsFiniteSet(S) => IsFiniteSet({of[k] : k \in S})
    BY ImageIsFinite
  <2> QED
    BY <1>1, <2>1, Zenon
<1>7. \A a \in all : IsFiniteSet(a) /\ \A r \in a : IsResource(r)
  BY <1>3
<1> HIDE DEF all
<1>8. IsFiniteSet(UNION all) /\ \A r \in UNION all : IsResource(r)
  BY <1>6, <1>7, FS_UNION
<1>9. ASSUME NEW k \in 1 .. Len(ps), NEW p, OnPath(p, ps[k])
      PROVE  NodeOf(p) \in route.resources
  <2>1. PICK i \in 1 .. Len(ps[k]) : p = ps[k][i]
    BY <1>9 DEF OnPath
  <2>2. k \in DOMAIN ps /\ ps[k] \in Seq(Points)
    BY <1>1, <1>2
  <2>3. i \in DOMAIN ps[k]
    BY <2>2, PlacesAreFinite
  <2>4. NodeOf(ps[k][i]) \in PathResources(g, ps[k])
    BY <2>3, Zenon DEF PathResources
  <2> QED
    BY <2>1, <2>2, <2>4, <1>5
<1> QED
  BY <1>4, <1>8, <1>9, Zenon DEF Occupies

(* The i-th net's paths of a bundle that has gone from place to place.      *)
LEMMA WiredPaths ==
  ASSUME problem \in Problems, NEW g, IsGrid(g), NEW b, IsSound(b, g), NEW ps, AreWays(ps, g, b),
         NEW i \in DOMAIN b.nets, NEW wired, wired = WirePaths(b, i, ps)
  PROVE  /\ wired \in Seq(Seq(Points)) /\ Len(wired) = Len(ps)
         /\ \A k \in 1 .. Len(ps) :
              /\ LegalPath(wired[k], b.nets[i])
              /\ Len(wired[k]) = Len(ps[k])
              /\ ps[k] \in Seq(Nodes(g)) /\ Len(ps[k]) >= 1
              /\ \A j \in 1 .. Len(ps[k]) : wired[k][j] = Wire(b, i, ps[k][j])
<1>1. ps \in Seq(Seq(Nodes(g)))
  BY DEF AreWays
<1>2. PICK n \in Nat : n = Len(ps)
  BY <1>1
<1>3. DOMAIN ps = 1 .. n
  BY <1>1, <1>2
<1>4. b.offset \in Int \X Int
  BY DEF IsSound
<1>5. ASSUME NEW k \in 1 .. n
      PROVE  /\ wired[k] \in Seq(Points)
             /\ LegalPath(wired[k], b.nets[i])
             /\ Len(wired[k]) = Len(ps[k])
             /\ ps[k] \in Seq(Nodes(g)) /\ Len(ps[k]) >= 1
             /\ \A j \in 1 .. Len(ps[k]) : wired[k][j] = Wire(b, i, ps[k][j])
  <2> DEFINE path == ps[k]
             w == [j \in DOMAIN path |-> Wire(b, i, path[j])]
  <2>1. wired[k] = w
    BY <1>3, Zenon DEF WirePaths
  <2>2. EndsAt(path, g, b, ps, k)
    BY <1>2, Zenon DEF AreWays
  <2>3. PICK p \in b.places[k + 1] : IsWay(path, g, b, TreeOf(b, ps, k), p)
    BY <2>2, Zenon DEF EndsAt
  <2>4. /\ path \in Seq(Nodes(g)) /\ Len(path) >= 1
        /\ \A j \in 1 .. (Len(path) - 1) : IsStep(g, b, path[j], path[j + 1], Heading(path[j], path[j + 1]))
    BY <2>3, Zenon DEF IsWay
  <2> HIDE DEF path
  <2>5. PICK m \in Nat : m = Len(path) /\ m >= 1
    BY <2>4
  <2>6. DOMAIN path = 1 .. m /\ \A j \in 1 .. m : path[j] \in Points
    <3>1. \A j \in 1 .. m : path[j] \in Nodes(g)
      BY <2>4, <2>5, ElementOfSeq
    <3> QED
      BY <2>4, <2>5, <3>1, NodesArePoints
  <2>7. \A j \in 1 .. m : Wire(b, i, path[j]) \in Points
    BY <2>6, <1>4, WireFacts
  <2>8. w \in [1 .. m -> Points] /\ \A j \in 1 .. m : w[j] = Wire(b, i, path[j])
    <3>1. w = [j \in 1 .. m |-> Wire(b, i, path[j])]
      BY <2>6, Zenon
    <3> HIDE DEF w
    <3> QED
      BY <2>7, <3>1
  <2> HIDE DEF w
  <2>9. w \in Seq(Points) /\ Len(w) = m
    BY <2>8, FunctionIsList
  <2>10. ASSUME NEW j \in 1 .. (m - 1)
         PROVE  Legal(b.nets[i], w[j], w[j + 1], Heading(w[j], w[j + 1]))
    <3>1. j \in 1 .. m /\ j + 1 \in 1 .. m /\ j \in 1 .. (Len(path) - 1)
      BY <2>5
    <3>2. IsStep(g, b, path[j], path[j + 1], Heading(path[j], path[j + 1]))
      BY <2>4, <3>1, Zenon
    <3>3. Legal(b.nets[i], Wire(b, i, path[j]), Wire(b, i, path[j + 1]), Heading(path[j], path[j + 1]))
      BY <3>2, Zenon DEF IsStep
    <3>4. path[j] \in Points /\ path[j + 1] \in Points
      BY <2>6, <3>1
    <3>5. Heading(Wire(b, i, path[j]), Wire(b, i, path[j + 1])) = Heading(path[j], path[j + 1])
      BY <1>4, <3>4, WireHeading
    <3> QED
      BY <3>1, <3>3, <3>5, <2>8, Zenon
  <2>11. LegalPath(w, b.nets[i])
    BY <2>5, <2>9, <2>10 DEF LegalPath
  <2>12. /\ w \in Seq(Points) /\ Len(w) = Len(path)
         /\ \A j \in 1 .. Len(path) : w[j] = Wire(b, i, path[j])
    BY <2>5, <2>8, <2>9
  <2> USE DEF path
  <2> QED
    BY <2>1, <2>4, <2>11, <2>12, Zenon
<1>6. wired \in [1 .. n -> Seq(Points)]
  <2>1. wired = [k \in 1 .. n |-> wired[k]]
    BY <1>3 DEF WirePaths
  <2> QED
    BY <2>1, <1>5
<1>7. wired \in Seq(Seq(Points)) /\ Len(wired) = n
  BY <1>6, FunctionIsList
<1> QED
  BY <1>2, <1>5, <1>7

(* The route of each net of a bundle that has come to all its places is     *)
(* good.                                                                    *)
LEMMA RouteIsGood ==
  ASSUME problem \in Problems, IsGrid(grid), NEW b, IsSound(b, grid), NEW ps, AreWays(ps, grid, b),
         Len(ps) + 1 = Len(b.places), NEW i \in DOMAIN b.nets
  PROVE  GoodRoute(RouteOf(b, i, ps), b.nets[i], grid)
<1> DEFINE wired == WirePaths(b, i, ps)
           net == b.nets[i]
           route == RouteOf(b, i, ps)
<1>1. route = [paths |-> wired, resources |-> UNION {PathResources(grid, wired[k]) : k \in DOMAIN wired}]
  BY Zenon DEF RouteOf
<1>2. /\ route.paths = wired
      /\ route.resources = UNION {PathResources(grid, wired[k]) : k \in DOMAIN wired}
  <2> DEFINE all == UNION {PathResources(grid, wired[k]) : k \in DOMAIN wired}
  <2>1. route = [paths |-> wired, resources |-> all]
    BY <1>1
  <2> HIDE DEF all, route, wired
  <2>2. route.paths = wired /\ route.resources = all
    BY <2>1
  <2> QED
    BY <2>2 DEF all
<1> HIDE DEF wired, route
<1>3. /\ wired \in Seq(Seq(Points)) /\ Len(wired) = Len(ps)
      /\ \A k \in 1 .. Len(ps) :
              /\ LegalPath(wired[k], net)
              /\ Len(wired[k]) = Len(ps[k])
              /\ ps[k] \in Seq(Nodes(grid)) /\ Len(ps[k]) >= 1
              /\ \A j \in 1 .. Len(ps[k]) : wired[k][j] = Wire(b, i, ps[k][j])
  BY WiredPaths DEF wired
<1>4. Occupies(route)
  BY <1>2, <1>3, RouteOccupies
<1>5. PICK n \in Nat : n = Len(ps)
  BY DEF AreWays
<1>6. Len(b.places) = n + 1 /\ n >= 1 /\ DOMAIN b.places = 1 .. (n + 1)
  <2>1. b.places \in Seq(PlaceSets(grid)) /\ Len(b.places) >= 2
    BY DEF IsSound
  <2>2. Len(b.places) = n + 1
    BY <1>5
  <2> QED
    BY <2>1, <2>2, <1>5
<1>7. ASSUME NEW k \in 1 .. n
      PROVE  \E p \in b.places[k + 1] : /\ ps[k][1] \in TreeOf(b, ps, k)
                                        /\ ps[k][Len(ps[k])] = p
                                        /\ 1 \in 1 .. Len(ps[k]) /\ Len(ps[k]) \in 1 .. Len(ps[k])
  <2>1. EndsAt(ps[k], grid, b, ps, k)
    BY <1>5, Zenon DEF AreWays
  <2>2. PICK p \in b.places[k + 1] : IsWay(ps[k], grid, b, TreeOf(b, ps, k), p)
    BY <2>1, Zenon DEF EndsAt
  <2>3. ps[k] \in Seq(Nodes(grid)) /\ Len(ps[k]) >= 1 /\ ps[k][1] \in TreeOf(b, ps, k) /\ ps[k][Len(ps[k])] = p
    BY <2>2, Zenon DEF IsWay
  <2>4. 1 \in 1 .. Len(ps[k]) /\ Len(ps[k]) \in 1 .. Len(ps[k])
    BY <2>3
  <2> QED
    BY <2>3, <2>4, Zenon
<1>8. \A k \in 1 .. n : \A j \in 1 .. Len(ps[k]) : OnPath(Wire(b, i, ps[k][j]), wired[k])
  <2> SUFFICES ASSUME NEW k \in 1 .. n, NEW j \in 1 .. Len(ps[k])
               PROVE  OnPath(Wire(b, i, ps[k][j]), wired[k])
    BY Zenon
  <2>1. wired[k][j] = Wire(b, i, ps[k][j]) /\ Len(wired[k]) = Len(ps[k])
    BY <1>3, <1>5, Zenon
  <2> QED
    BY <2>1, Zenon DEF OnPath
<1>9. \A k \in 1 .. n : wired[k][1] = Wire(b, i, ps[k][1])
  BY <1>3, <1>5, <1>7, Zenon
<1>10. ASSUME NEW pad \in PadsAt(net, grid)
       PROVE  MeetsPad(wired, pad)
  <2>1. PICK k \in 1 .. (n + 1) : \A p \in b.places[k] : Wire(b, i, p) \in pad
    BY <1>6, Zenon DEF IsSound, PadsAt
  <2>2. CASE k = 1
    <3>1. 1 \in 1 .. n /\ 1 .. (1 - 1) = {}
      BY <1>6
    <3>2. ps[1][1] \in TreeOf(b, ps, 1) /\ 1 \in 1 .. Len(ps[1])
      BY <3>1, <1>7, Zenon
    <3>3. TreeOf(b, ps, 1) = b.places[1]
      BY <3>1 DEF TreeOf
    <3>4. Wire(b, i, ps[1][1]) \in pad
      BY <2>1, <2>2, <3>2, <3>3, Zenon
    <3>5. OnPath(Wire(b, i, ps[1][1]), wired[1])
      BY <1>8, <3>1, <3>2, Zenon
    <3> QED
      BY <3>1, <3>4, <3>5, <1>3, <1>5, Zenon DEF MeetsPad
  <2>3. CASE k # 1
    <3>1. PICK l \in 1 .. n : k = l + 1
      <4>1. k - 1 \in 1 .. n /\ k = (k - 1) + 1
        BY <2>3
      <4> QED
        BY <4>1, Zenon
    <3>2. PICK p \in b.places[l + 1] : ps[l][Len(ps[l])] = p /\ Len(ps[l]) \in 1 .. Len(ps[l])
      BY <1>7, Zenon
    <3>3. Wire(b, i, p) \in pad
      BY <2>1, <3>1, <3>2, Zenon
    <3>4. OnPath(Wire(b, i, p), wired[l])
      BY <1>8, <3>2, Zenon
    <3> QED
      BY <3>3, <3>4, <1>3, <1>5, Zenon DEF MeetsPad
  <2> QED
    BY <2>2, <2>3
<1>11. \E pad \in PadsAt(net, grid) : Grows(wired, pad)
  <2>1. PICK pad \in PadsAt(net, grid) : \A p \in b.places[1] : Wire(b, i, p) \in pad
    BY Zenon DEF IsSound, PadsAt
  <2>2. ASSUME NEW k \in 1 .. n
        PROVE  wired[k][1] \in pad \/ \E j \in 1 .. (k - 1) : OnPath(wired[k][1], wired[j])
    <3>1. ps[k][1] \in TreeOf(b, ps, k)
      BY <1>7, Zenon
    <3>2. CASE ps[k][1] \in b.places[1]
      BY <3>2, <2>1, <1>9, Zenon
    <3>3. CASE ps[k][1] \in UNION {Range(ps[j]) : j \in 1 .. (k - 1)}
      <4>1. PICK j \in 1 .. (k - 1) : ps[k][1] \in Range(ps[j])
        BY <3>3, Zenon
      <4>2. j \in 1 .. n
        OBVIOUS
      <4>3. ps[j] \in Seq(Nodes(grid))
        BY <4>2, <1>3, <1>5, Zenon
      <4>4. PICK m \in DOMAIN ps[j] : ps[k][1] = ps[j][m]
        BY <4>1, Zenon DEF Range
      <4>5. m \in 1 .. Len(ps[j])
        BY <4>3, <4>4
      <4>6. OnPath(Wire(b, i, ps[j][m]), wired[j])
        BY <1>8, <4>2, <4>5, Zenon
      <4> QED
        BY <4>4, <4>6, <1>9, Zenon
    <3> QED
      BY <3>1, <3>2, <3>3, Zenon DEF TreeOf
  <2> QED
    BY <2>2, <1>3, <1>5, Zenon DEF Grows
<1>12. \A k \in 1 .. Len(wired) : LegalPath(wired[k], net)
  BY <1>3, Zenon
<1> QED
  BY <1>2, <1>3, <1>4, <1>10, <1>11, <1>12, Zenon DEF GoodRoute, route

(* What the routes of a bundle are.                                         *)
LEMMA BundleRoutesAreGood ==
  ASSUME problem \in Problems, IsGrid(grid), NEW b, IsSound(b, grid), NEW ps, AreWays(ps, grid, b),
         Len(ps) + 1 = Len(b.places)
  PROVE  /\ DOMAIN BundleRoutes(b, ps) = Range(b.nets)
         /\ \A n \in Range(b.nets) : GoodRoute(BundleRoutes(b, ps)[n], n, grid)
         /\ Range(b.nets) \subseteq TerminalNets /\ IsFiniteSet(Range(b.nets))
<1>1. DOMAIN BundleRoutes(b, ps) = Range(b.nets)
  BY DEF BundleRoutes
<1>2. ASSUME NEW n \in Range(b.nets)
      PROVE  GoodRoute(BundleRoutes(b, ps)[n], n, grid)
  <2> DEFINE i == CHOOSE i \in DOMAIN b.nets : b.nets[i] = n
  <2>1. \E j \in DOMAIN b.nets : b.nets[j] = n
    BY Zenon DEF Range
  <2>2. i \in DOMAIN b.nets /\ b.nets[i] = n
    BY <2>1, Zenon
  <2>3. BundleRoutes(b, ps)[n] = RouteOf(b, i, ps)
    BY Zenon DEF BundleRoutes
  <2> HIDE DEF i
  <2>4. GoodRoute(RouteOf(b, i, ps), b.nets[i], grid)
    BY <2>2, RouteIsGood
  <2> QED
    BY <2>2, <2>3, <2>4, Zenon
<1>3. Range(b.nets) \subseteq TerminalNets
  BY Zenon DEF Range, IsSound
<1>4. IsFiniteSet(Range(b.nets))
  <2>1. IsFiniteSet(TerminalNets)
    BY ProblemFacts
  <2> QED
    BY <1>3, <2>1, FS_Subset
<1> QED
  BY <1>1, <1>2, <1>3, <1>4

-----------------------------------------------------------------------------
(* Conflicts, and what they propose to refine                               *)

RoutesAreGood(g) == /\ DOMAIN routes \subseteq TerminalNets /\ IsFiniteSet(DOMAIN routes)
                    /\ \A n \in DOMAIN routes : GoodRoute(routes[n], n, g)

(* The edges a net has: finitely many, between points.                      *)
LEMMA PlanarEdgesAreFinite ==
  ASSUME NEW g, RoutesAreGood(g), NEW n \in DOMAIN routes
  PROVE  IsFiniteSet(PlanarEdges(n)) /\ PlanarEdges(n) \subseteq Points \X Points
<1> DEFINE ps == routes[n].paths
           of == [k \in DOMAIN ps |-> PathEdges(ps[k])]
           all == {of[k] : k \in DOMAIN ps}
<1>1. GoodRoute(routes[n], n, g)
  BY DEF RoutesAreGood
<1>2. ps \in Seq(Seq(Points))
  BY <1>1 DEF GoodRoute
<1> HIDE DEF ps
<1>3. DOMAIN ps = 1 .. Len(ps) /\ IsFiniteSet(DOMAIN ps)
  BY <1>2, PlacesAreFinite
<1>4. ASSUME NEW k \in DOMAIN ps
      PROVE  IsFiniteSet(of[k]) /\ of[k] \subseteq Points \X Points
  <2> DEFINE path == ps[k]
  <2>1. path \in Seq(Points)
    BY <1>2, <1>3, ElementOfSeq
  <2> HIDE DEF path
  <2>2. PICK m \in Nat : m = Len(path)
    BY <2>1
  <2> DEFINE edge == [i \in 1 .. (m - 1) |-> <<path[i], path[i + 1]>>]
  <2>3. PathEdges(path) = {edge[i] : i \in 1 .. (m - 1)}
    BY <2>2 DEF PathEdges
  <2>4. \A i \in 1 .. (m - 1) : edge[i] \in Points \X Points
    <3> SUFFICES ASSUME NEW i \in 1 .. (m - 1)
                 PROVE  edge[i] \in Points \X Points
      OBVIOUS
    <3>1. i \in 1 .. Len(path) /\ i + 1 \in 1 .. Len(path)
      BY <2>2
    <3>2. path[i] \in Points /\ path[i + 1] \in Points
      BY <2>1, <3>1, ElementOfSeq
    <3> QED
      BY <3>2
  <2> HIDE DEF edge
  <2>5. IsFiniteSet(1 .. (m - 1))
    <3>1. PICK one \in Int : one = 1
      OBVIOUS
    <3>2. IsFiniteSet(one .. (m - 1))
      BY IntervalIsFinite
    <3> QED
      BY <3>1, <3>2
  <2>6. IsFiniteSet({edge[i] : i \in 1 .. (m - 1)})
    BY <2>5, ImageIsFinite
  <2>7. of[k] = PathEdges(path)
    BY DEF path
  <2> QED
    BY <2>3, <2>4, <2>6, <2>7
<1>5. PlanarEdges(n) \subseteq UNION all
  BY DEF PlanarEdges, ps
<1> HIDE DEF of
<1>6. IsFiniteSet(all)
  <2>1. \A S : IsFiniteSet(S) => IsFiniteSet({of[k] : k \in S})
    BY ImageIsFinite
  <2> QED
    BY <1>3, <2>1, Zenon
<1>7. \A a \in all : IsFiniteSet(a) /\ a \subseteq Points \X Points
  BY <1>4
<1> HIDE DEF all
<1>8. IsFiniteSet(UNION all) /\ UNION all \subseteq Points \X Points
  BY <1>6, <1>7, FS_UNION
<1> QED
  BY <1>5, <1>8, FS_Subset

(* What several nets use or come too close at: finitely many resources.     *)
LEMMA ConflictsAreFinite ==
  ASSUME NEW g, RoutesAreGood(g)
  PROVE  IsFiniteSet(Conflicts) /\ \A r \in Conflicts : IsResource(r)
<1> DEFINE D == DOMAIN routes
           res == [n \in D |-> routes[n].resources]
           all == {res[n] : n \in D}
           shared == {r \in UNION {routes[n].resources : n \in DOMAIN routes} : Cardinality(Users(r)) > 1}
<1>1. IsFiniteSet(D)
  BY DEF RoutesAreGood
<1>2. \A n \in D : IsFiniteSet(res[n]) /\ \A r \in res[n] : IsResource(r)
  BY DEF RoutesAreGood, GoodRoute, Occupies
<1>3. shared \subseteq UNION all
  OBVIOUS
<1> HIDE DEF res
<1>4. IsFiniteSet(all)
  <2> HIDE DEF D
  <2> QED
    BY <1>1, ImageIsFinite
<1>5. \A a \in all : IsFiniteSet(a) /\ \A r \in a : IsResource(r)
  BY <1>2
<1> HIDE DEF all, shared
<1>6. IsFiniteSet(UNION all) /\ \A r \in UNION all : IsResource(r)
  BY <1>4, <1>5, FS_UNION
<1>7. IsFiniteSet(shared) /\ \A r \in shared : IsResource(r)
  BY <1>3, <1>6, FS_Subset
<1> DEFINE twos == {q \in D \X D : q[1] < q[2] /\ ~ArePaired(q[1], q[2])}
           near == [q \in twos |-> {p \in PlanarEdges(q[1]) \X PlanarEdges(q[2]) : Meet(p[1], p[2])}]
           nears == {near[q] : q \in twos}
<1>8. TooClose = UNION nears
  BY Zenon DEF TooClose
<1>9. ASSUME NEW q \in twos
      PROVE  IsFiniteSet(near[q]) /\ near[q] \subseteq (Points \X Points) \X (Points \X Points)
  <2>1. q[1] \in D /\ q[2] \in D
    OBVIOUS
  <2> DEFINE A == PlanarEdges(q[1])
             B == PlanarEdges(q[2])
  <2>2. IsFiniteSet(A) /\ IsFiniteSet(B) /\ A \subseteq Points \X Points /\ B \subseteq Points \X Points
    BY <2>1, PlanarEdgesAreFinite
  <2>3. near[q] \subseteq A \X B
    OBVIOUS
  <2> HIDE DEF A, B, near
  <2>4. IsFiniteSet(A \X B)
    BY <2>2, FS_Product
  <2>5. A \X B \subseteq (Points \X Points) \X (Points \X Points)
    BY <2>2
  <2> QED
    BY <2>3, <2>4, <2>5, FS_Subset
<1> HIDE DEF near
<1>10. IsFiniteSet(twos)
  <2>1. IsFiniteSet(D \X D)
    BY <1>1, FS_Product
  <2>2. twos \subseteq D \X D
    OBVIOUS
  <2> QED
    BY <2>1, <2>2, FS_Subset
<1> HIDE DEF twos
<1>11. IsFiniteSet(nears)
  BY <1>10, ImageIsFinite
<1>12. \A a \in nears : IsFiniteSet(a) /\ a \subseteq (Points \X Points) \X (Points \X Points)
  BY <1>9
<1> HIDE DEF nears
<1>13. IsFiniteSet(TooClose) /\ TooClose \subseteq (Points \X Points) \X (Points \X Points)
  BY <1>8, <1>11, <1>12, FS_UNION
<1> DEFINE met == [p \in TooClose |-> {Transition(p[1][1], p[1][2]), Transition(p[2][1], p[2][2])}]
           mets == {met[p] : p \in TooClose}
<1>14. Conflicts = shared \cup UNION mets
  BY Zenon DEF Conflicts, shared
<1>15. ASSUME NEW a \in Points, NEW b \in Points
       PROVE  IsResource(Transition(a, b))
  BY TwoAreFinite DEF IsResource, Transition
<1>16. ASSUME NEW p \in TooClose
       PROVE  IsFiniteSet(met[p]) /\ \A r \in met[p] : IsResource(r)
  <2>1. p[1][1] \in Points /\ p[1][2] \in Points /\ p[2][1] \in Points /\ p[2][2] \in Points
    BY <1>13
  <2>2. IsResource(Transition(p[1][1], p[1][2])) /\ IsResource(Transition(p[2][1], p[2][2]))
    BY <1>15, <2>1
  <2>3. met[p] = {Transition(p[1][1], p[1][2]), Transition(p[2][1], p[2][2])}
    BY Zenon
  <2> HIDE DEF met
  <2> QED
    BY <2>2, <2>3, TwoAreFinite, Zenon
<1> HIDE DEF met
<1>17. IsFiniteSet(mets)
  BY <1>13, ImageIsFinite
<1>18. \A a \in mets : IsFiniteSet(a) /\ \A r \in a : IsResource(r)
  BY <1>16
<1> HIDE DEF mets
<1>19. IsFiniteSet(UNION mets) /\ \A r \in UNION mets : IsResource(r)
  BY <1>17, <1>18, FS_UNION
<1> QED
  BY <1>7, <1>14, <1>19, FS_Union

\* What failed: finitely many bundles of nets with two terminals and more.
FailuresAreFinite == /\ IsFiniteSet(failures)
                     /\ \A f \in failures : IsFiniteSet(f.nets) /\ f.nets \subseteq PlacedTwice

(* The hotspots of a pass are boxes, finitely many.                         *)
LEMMA HotspotsAreAreas ==
  ASSUME problem \in Problems, NEW g, RoutesAreGood(g), FailuresAreFinite
  PROVE  Hotspots \in BoxSets
<1> DEFINE box == [r \in Conflicts |-> Hull({Planar(n) : n \in r.at})]
           boxes == {box[r] : r \in Conflicts}
           failed == UNION {f.nets : f \in failures}
           span == [n \in failed |-> Hull({t.at : t \in Range(problem.terminals[n])})]
           spans == {span[n] : n \in failed}
<1>1. Hotspots = boxes \cup spans
  BY Zenon DEF Hotspots
<1>2. IsFiniteSet(Conflicts) /\ \A r \in Conflicts : IsResource(r)
  BY ConflictsAreFinite
<1>3. ASSUME NEW r \in Conflicts
      PROVE  box[r] \in Areas
  <2> DEFINE flat == [n \in r.at |-> Planar(n)]
             points == {flat[n] : n \in r.at}
  <2>1. r.at \subseteq Points /\ r.at # {} /\ IsFiniteSet(r.at)
    BY <1>2 DEF IsResource
  <2>2. points \subseteq Int \X Int /\ points # {}
    <3>1. \A n \in r.at : flat[n] \in Int \X Int
      BY <2>1 DEF Points, Planar
    <3> HIDE DEF flat
    <3> QED
      BY <2>1, <3>1
  <2>3. box[r] = Hull(points)
    <3>1. points = {Planar(n) : n \in r.at}
      OBVIOUS
    <3> HIDE DEF points
    <3> QED
      BY <3>1, Zenon
  <2> HIDE DEF flat, box
  <2>4. IsFiniteSet(points)
    BY <2>1, ImageIsFinite
  <2> HIDE DEF points
  <2> QED
    BY <2>2, <2>3, <2>4, HullFacts
<1>4. IsFiniteSet(failed) /\ failed \subseteq PlacedTwice
  <2> DEFINE nets == [f \in failures |-> f.nets]
             lists == {nets[f] : f \in failures}
  <2>1. failed = UNION lists
    OBVIOUS
  <2>2. \A f \in failures : IsFiniteSet(nets[f]) /\ nets[f] \subseteq PlacedTwice
    BY DEF FailuresAreFinite
  <2> HIDE DEF nets, failed
  <2>3. IsFiniteSet(lists)
    BY ImageIsFinite DEF FailuresAreFinite
  <2>4. \A a \in lists : IsFiniteSet(a) /\ a \subseteq PlacedTwice
    BY <2>2
  <2> HIDE DEF lists
  <2> QED
    BY <2>1, <2>3, <2>4, FS_UNION
<1>5. ASSUME NEW n \in failed
      PROVE  span[n] \in Areas
  <2> DEFINE points == {t.at : t \in Range(problem.terminals[n])}
  <2>1. n \in TerminalNets /\ Len(problem.terminals[n]) >= 2
    BY <1>4 DEF PlacedTwice
  <2>2. points \subseteq Int \X Int /\ IsFiniteSet(points)
    BY <2>1, PadPointsAreFinite
  <2>3. points # {}
    <3>1. problem.terminals[n] \in Seq(Terminals)
      BY <2>1, ProblemFacts
    <3>2. 1 \in DOMAIN problem.terminals[n]
      BY <2>1, <3>1
    <3>3. problem.terminals[n][1].at \in points
      BY <3>2, Zenon DEF Range
    <3> QED
      BY <3>3, Zenon
  <2>4. span[n] = Hull(points)
    BY Zenon
  <2> HIDE DEF points, span
  <2> QED
    BY <2>2, <2>3, <2>4, HullFacts
<1> HIDE DEF box, span, failed
<1>6. IsFiniteSet(boxes) /\ IsFiniteSet(spans)
  BY <1>2, <1>4, ImageIsFinite
<1>7. boxes \subseteq Areas /\ spans \subseteq Areas
  BY <1>3, <1>5
<1> HIDE DEF boxes, spans
<1> QED
  BY <1>1, <1>6, <1>7, FS_Union DEF BoxSets

(* The regions proposed for the next round are a merge of the last round's  *)
(* and of those its hotspots call for.                                      *)
LEMMA ProposedIsMerge ==
  ASSUME problem \in Problems, NEW g, RoutesAreGood(g), FailuresAreFinite, regions \in BoxSets
  PROVE  \E called \in BoxSets :
           /\ \A h \in Hotspots : RegionsFor(problem.board, policy.multiplier, policy.padding, h) \subseteq called
           /\ IsMerge(Proposed, regions \cup called)
<1> DEFINE for == [h \in Hotspots |-> RegionsFor(problem.board, policy.multiplier, policy.padding, h)]
           all == {for[h] : h \in Hotspots}
           called == UNION all
<1>1. Proposed = Merge(regions \cup called)
  BY Zenon DEF Proposed
<1>2. Hotspots \in BoxSets /\ IsFiniteSet(Hotspots) /\ Hotspots \subseteq Areas
  BY HotspotsAreAreas DEF BoxSets
<1>3. IsBoard(problem.board) /\ policy.multiplier \in Nat \ {0} /\ policy.padding \in Nat \ {0}
  BY ProblemFacts DEF IsPolicy
<1>4. \A h \in Hotspots : for[h] \in BoxSets
  <2> SUFFICES ASSUME NEW h \in Hotspots
               PROVE  for[h] \in BoxSets
    OBVIOUS
  <2>1. h \in Areas
    BY <1>2
  <2>2. RegionsFor(problem.board, policy.multiplier, policy.padding, h) \in BoxSets
    BY <1>3, <2>1, RegionsForFacts
  <2> QED
    BY <2>2
<1>5. \A h \in Hotspots : RegionsFor(problem.board, policy.multiplier, policy.padding, h) \subseteq called
  OBVIOUS
<1> HIDE DEF for
<1>6. IsFiniteSet(all)
  BY <1>2, ImageIsFinite
<1>7. \A a \in all : IsFiniteSet(a) /\ a \subseteq Areas
  BY <1>4 DEF BoxSets
<1> HIDE DEF all
<1>8. called \in BoxSets
  BY <1>6, <1>7, FS_UNION DEF BoxSets
<1> HIDE DEF called
<1>9. regions \cup called \in BoxSets
  BY <1>8, FS_Union DEF BoxSets
<1>10. IsMerge(Merge(regions \cup called), regions \cup called)
  BY <1>9, MergeMerges
<1> QED
  BY <1>1, <1>5, <1>8, <1>10, Zenon

-----------------------------------------------------------------------------
(* The invariant                                                            *)

BundleSet(g) ==
  {NetBundle(n, g) : n \in PlacedTwice}
  \cup {PairBundle(p, g) : p \in {p \in problem.pairs : PairOrder(p) # <<>>}}
\* A net is served: it waits for its bundle's turn, is routed, or has failed.
ServedBy(n, waiting, routed, failed) ==
  \/ \E i \in 1 .. Len(waiting) : n \in Range(waiting[i].nets)
  \/ n \in DOMAIN routed
  \/ \E f \in failed : n \in f.nets

CallInv ==
  /\ problem \in Problems
  /\ status \in {"preparing", "passing", "searching"} \cup Outcomes
  /\ round \in 0 .. policy.maximumRounds
  /\ regions \in BoxSets
  /\ IsGrid(grid)
PassInv ==
  /\ \A r \in DOMAIN history : history[r] \in Nat
  /\ iteration \in 0 .. (policy.maximumIterations - 1)
  /\ pending \in Seq(BundleSet(grid))
  /\ RoutesAreGood(grid)
  /\ FailuresAreFinite
Served ==
  status \in {"passing", "searching", "Complete"} =>
    /\ PreparationErrors(grid) = {}
    /\ \A n \in Selected : n \in TerminalNets /\ ServedBy(n, pending, routes, failures)
Settled ==
  status = "Complete" => pending = <<>> /\ failures = {} /\ Conflicts = {}
Searching ==
  /\ pending # <<>>
  /\ AreWays(paths, grid, Bundle) /\ Len(paths) + 2 <= Len(Bundle.places)
  /\ tree = TreeOf(Bundle, paths, Len(paths) + 1) /\ IsFiniteSet(tree) /\ tree \subseteq Nodes(grid)
  /\ IsFound(reached, grid, Bundle, tree)
  /\ IsFiniteSet(queue)
  /\ \A e \in queue : e.state \in DOMAIN reached /\ e.cost \in 0 .. MaxCost
  /\ expanded \in 0 .. policy.maximumExpansions
Idle == paths = <<>> /\ queue = {} /\ expanded = 0
SearchInv == (status = "searching" => Searching) /\ (status # "searching" => Idle)

RouterInv == CallInv /\ PassInv /\ Served /\ Settled /\ SearchInv

(* The bundles that may be pending are those of nets and of pairs.          *)
LEMMA BundleSetIsBundles ==
  ASSUME NEW g
  PROVE  \A b : b \in BundleSet(g) <=> IsBundle(b, g)
BY Zenon DEF BundleSet, IsBundle, BundlesNet, BundlesPair

-----------------------------------------------------------------------------
(* What depends on the problem alone stays as it is                         *)

LEMMA LegalStays ==
  ASSUME problem' = problem
  PROVE  \A n, a, b, d : Legal(n, a, b, d)' = Legal(n, a, b, d)
<1>1. \A m : Pads(m)' = Pads(m)
  BY DEF Pads
<1>2. \A n : Obstacles(n)' = Obstacles(n)
  BY <1>1 DEF Obstacles, TerminalNets
<1> QED
  BY <1>2 DEF Legal

(* Whether a route is good depends on the problem alone.                    *)
LEMMA RoutesStay ==
  ASSUME problem' = problem
  PROVE  \A r, n, g : GoodRoute(r, n, g)' = GoodRoute(r, n, g)
<1>1. \A n, g : PadsAt(n, g)' = PadsAt(n, g)
  BY DEF PadsAt
<1> QED
  BY <1>1, LegalStays DEF GoodRoute, LegalPath, Grows, MeetsPad

(* The bundles of a grid depend on the problem alone.                       *)
LEMMA BundlesStay ==
  ASSUME problem' = problem
  PROVE  \A g : BundleSet(g)' = BundleSet(g)
<1>1. \A p : PairOrder(p)' = PairOrder(p)
  BY DEF PairOrder
<1>2. \A p, g : PairPlaces(p, g)' = PairPlaces(p, g)
  BY <1>1 DEF PairPlaces
<1>3. \A p, g : PairBundle(p, g)' = PairBundle(p, g)
  BY <1>1, <1>2 DEF PairBundle, PairOffset
<1>4. \A n, g : NetBundle(n, g)' = NetBundle(n, g)
  BY DEF NetBundle
<1>5. PlacedTwice' = PlacedTwice
  BY DEF PlacedTwice, TerminalNets
<1>6. {p \in problem'.pairs : PairOrder(p)' # <<>>} = {p \in problem.pairs : PairOrder(p) # <<>>}
  BY <1>1
<1> QED
  BY <1>3, <1>4, <1>5, <1>6 DEF BundleSet

(* What a grid is refused for depends on the problem alone.                 *)
LEMMA PreparationStays ==
  ASSUME problem' = problem
  PROVE  \A g : PreparationErrors(g)' = PreparationErrors(g)
<1>1. \A p : PairOrder(p)' = PairOrder(p)
  BY DEF PairOrder
<1>2. \A p, g : PairPlaces(p, g)' = PairPlaces(p, g)
  BY <1>1 DEF PairPlaces
<1>3. \A p : PairOffset(p)' = PairOffset(p)
  BY <1>1 DEF PairOffset
<1>4. \A p, g : PairUnsupported(p, g)' = PairUnsupported(p, g)
  BY <1>1, <1>2, <1>3 DEF PairUnsupported
<1>5. policy' = policy /\ PlacedTwice' = PlacedTwice
  BY DEF policy, PlacedTwice, TerminalNets
<1>6. Selected' = Selected
  BY <1>5 DEF Selected
<1>7. SelectedPairs' = SelectedPairs
  BY <1>6 DEF SelectedPairs
<1>8. PairSelectionErrors' = PairSelectionErrors
  BY <1>6, <1>7 DEF PairSelectionErrors
<1>9. \A g : TooLarge(g)' = TooLarge(g)
  BY <1>5 DEF TooLarge
<1> QED
  BY <1>4, <1>5, <1>6, <1>7, <1>8, <1>9 DEF PreparationErrors

(* Whether states are found rightly and paths are ways depends on the       *)
(* problem alone.                                                           *)
LEMMA SearchStays ==
  ASSUME problem' = problem
  PROVE  /\ \A f, g, b, s : IsFound(f, g, b, s)' = IsFound(f, g, b, s)
         /\ \A ps, g, b : AreWays(ps, g, b)' = AreWays(ps, g, b)
<1>1. \A g, b, p, q, d : IsStep(g, b, p, q, d)' = IsStep(g, b, p, q, d)
  BY LegalStays DEF IsStep
<1>2. \A path, g, b, s, p : IsWay(path, g, b, s, p)' = IsWay(path, g, b, s, p)
  BY <1>1 DEF IsWay
<1>3. \A f, g, b, s : IsFound(f, g, b, s)' = IsFound(f, g, b, s)
  BY <1>1 DEF IsFound, Prev
<1>4. \A path, g, b, ps, k : EndsAt(path, g, b, ps, k)' = EndsAt(path, g, b, ps, k)
  BY <1>2 DEF EndsAt
<1>5. \A ps, g, b : AreWays(ps, g, b)' = AreWays(ps, g, b)
  BY <1>4 DEF AreWays
<1> QED
  BY <1>3, <1>5

(* The policy and the nets of a call depend on the problem alone.           *)
LEMMA CallStays ==
  ASSUME problem' = problem
  PROVE  /\ policy' = policy /\ PlacedTwice' = PlacedTwice
         /\ TerminalNets' = TerminalNets /\ Selected' = Selected
BY DEF policy, PlacedTwice, TerminalNets, Selected

(* The conflicts of a pass are those of its routes.                         *)
LEMMA ConflictsStay ==
  ASSUME problem' = problem, routes' = routes
  PROVE  Conflicts' = Conflicts
<1>1. \A r : Users(r)' = Users(r)
  BY DEF Users
<1>2. \A n : PlanarEdges(n)' = PlanarEdges(n)
  BY DEF PlanarEdges
<1>3. \A m, n : ArePaired(m, n)' = ArePaired(m, n)
  BY DEF ArePaired
<1>4. TooClose' = TooClose
  BY <1>2, <1>3 DEF TooClose
<1> QED
  BY <1>1, <1>4 DEF Conflicts

(* A call begins within the invariant.                                      *)
LEMMA InvInit == RouterInit => RouterInv
<1> SUFFICES ASSUME RouterInit
             PROVE  RouterInv
  OBVIOUS
<1> USE DEF RouterInit
<1>1. CallInv
  <2>1. {} \in BoxSets
    BY FS_EmptySet DEF BoxSets
  <2>2. IsGrid(grid)
    BY FS_EmptySet DEF IsGrid
  <2>3. 0 \in 0 .. policy.maximumRounds
    BY ProblemFacts DEF IsPolicy
  <2> QED
    BY <2>1, <2>2, <2>3 DEF CallInv
<1>2. PassInv
  <2>1. 0 \in 0 .. (policy.maximumIterations - 1)
    BY ProblemFacts DEF IsPolicy
  <2>2. RoutesAreGood(grid)
    <3>1. DOMAIN routes = {}
      OBVIOUS
    <3> QED
      BY <3>1, FS_EmptySet DEF RoutesAreGood
  <2>3. FailuresAreFinite
    BY FS_EmptySet DEF FailuresAreFinite
  <2>4. DOMAIN history = {}
    OBVIOUS
  <2>5. pending \in Seq(BundleSet(grid))
    OBVIOUS
  <2> QED
    BY <2>1, <2>2, <2>3, <2>4, <2>5 DEF PassInv
<1>3. Served /\ Settled /\ SearchInv
  BY DEF Served, Settled, SearchInv, Idle, Outcomes, Refusals
<1> QED
  BY <1>1, <1>2, <1>3 DEF RouterInv

(* A step that leaves the problem, the grid and the passes alone keeps what *)
(* is said of them.                                                         *)
LEMMA CallKept ==
  ASSUME RouterInv, problem' = problem, round' = round, regions' = regions, grid' = grid,
         status' \in {"preparing", "passing", "searching"} \cup Outcomes
  PROVE  CallInv'
BY CallStays DEF RouterInv, CallInv

(* A step that keeps the routes and failures of a pass and takes no bundle  *)
(* from elsewhere keeps what is said of the pass.                           *)
LEMMA PassKept ==
  ASSUME RouterInv, problem' = problem, grid' = grid, history' = history, iteration' = iteration,
         routes' = routes, failures' = failures, pending' \in Seq(BundleSet(grid))
  PROVE  PassInv'
<1>1. pending' \in Seq(BundleSet(grid)')
  BY BundlesStay
<1>2. RoutesAreGood(grid)'
  BY CallStays, RoutesStay DEF RoutesAreGood, RouterInv, PassInv
<1>3. FailuresAreFinite'
  BY CallStays DEF FailuresAreFinite, RouterInv, PassInv
<1>4. iteration' \in 0 .. (policy'.maximumIterations - 1)
  BY CallStays DEF RouterInv, PassInv
<1>5. \A r \in DOMAIN history' : history'[r] \in Nat
  BY DEF RouterInv, PassInv
<1> QED
  BY <1>1, <1>2, <1>3, <1>4, <1>5 DEF PassInv

\* The variables a step that only ends or goes on leaves alone.
PassUnchanged == UNCHANGED <<problem, round, regions, grid, iteration, history, pending, routes, failures>>
Unmoved == UNCHANGED <<tree, paths, queue, reached, expanded>>

(* Refusing a call keeps the invariant.                                     *)
LEMMA RefuseKeeps == RouterInv /\ Refuse => RouterInv'
<1> SUFFICES ASSUME RouterInv, Refuse
             PROVE  RouterInv'
  OBVIOUS
<1>1. /\ status = "preparing" /\ status' \in PreparationErrors(GridOf(round, regions))
      /\ PassUnchanged /\ Unmoved
  BY DEF Refuse, PassUnchanged, Unmoved, callVars, passVars, bundleVars, searchVars
<1>2. status' \in Refusals
  BY <1>1 DEF PreparationErrors, PairSelectionErrors, Refusals
<1>3. status' \notin {"preparing", "passing", "searching", "Complete"} /\ status' \in Outcomes
  BY <1>2 DEF Refusals, Outcomes
<1>4. CallInv'
  BY <1>1, <1>3, CallKept DEF PassUnchanged
<1>5. PassInv'
  BY <1>1, PassKept DEF PassUnchanged, RouterInv, PassInv
<1>6. Served' /\ Settled'
  BY <1>3 DEF Served, Settled
<1>7. SearchInv'
  BY <1>1, <1>3 DEF SearchInv, Idle, RouterInv, Unmoved
<1> QED
  BY <1>4, <1>5, <1>6, <1>7 DEF RouterInv

(* Ending a call without conflicts and failures keeps the invariant.        *)
LEMMA CompleteKeeps == RouterInv /\ Complete => RouterInv'
<1> SUFFICES ASSUME RouterInv, Complete
             PROVE  RouterInv'
  OBVIOUS
<1>1. /\ status = "passing" /\ pending = <<>> /\ Conflicts = {} /\ failures = {} /\ status' = "Complete"
      /\ PassUnchanged /\ Unmoved
  BY DEF Complete, PassEnds, PassUnchanged, Unmoved, callVars, passVars, bundleVars, searchVars
<1>2. CallInv'
  BY <1>1, CallKept DEF PassUnchanged, Outcomes
<1>3. PassInv'
  BY <1>1, PassKept DEF PassUnchanged, RouterInv, PassInv
<1>4. Served'
  BY <1>1, CallStays, PreparationStays DEF Served, RouterInv, PassUnchanged
<1>5. Settled'
  BY <1>1, ConflictsStay DEF Settled, PassUnchanged
<1>6. SearchInv'
  BY <1>1 DEF SearchInv, Idle, RouterInv, Unmoved
<1> QED
  BY <1>2, <1>3, <1>4, <1>5, <1>6 DEF RouterInv

(* Ending a call after its last pass keeps the invariant.                   *)
LEMMA IterationLimitKeeps == RouterInv /\ IterationLimit => RouterInv'
<1> SUFFICES ASSUME RouterInv, IterationLimit
             PROVE  RouterInv'
  OBVIOUS
<1>1. /\ status = "passing" /\ status' = "IterationLimit"
      /\ PassUnchanged /\ Unmoved
  BY DEF IterationLimit, LastPassFails, PassEnds, PassUnchanged, Unmoved, callVars, passVars, bundleVars, searchVars
<1>2. CallInv'
  BY <1>1, CallKept DEF PassUnchanged, Outcomes
<1>3. PassInv'
  BY <1>1, PassKept DEF PassUnchanged, RouterInv, PassInv
<1>4. Served' /\ Settled' /\ SearchInv'
  BY <1>1 DEF Served, Settled, SearchInv, Idle, RouterInv, Unmoved
<1> QED
  BY <1>2, <1>3, <1>4 DEF RouterInv

(* Going on to a finer grid, or giving up, keeps the invariant.             *)
LEMMA NextRoundKeeps == RouterInv /\ NextRound => RouterInv'
<1> SUFFICES ASSUME RouterInv, NextRound
             PROVE  RouterInv'
  OBVIOUS
<1>1. PICK proposed \in {Proposed} :
        /\ status' = AdaptiveStatus(proposed)
        /\ IF status' = "preparing"
           THEN regions' = proposed /\ round' = round + 1
           ELSE UNCHANGED <<regions, round>>
  BY Zenon DEF NextRound
<1>2. /\ status = "passing"
      /\ UNCHANGED <<problem, grid, iteration, history, pending, routes, failures>> /\ Unmoved
  BY DEF NextRound, LastPassFails, PassEnds, Unmoved, passVars, bundleVars, searchVars
<1>3. status' \in {"RegionLimit", "NoProgress", "RefinementLimit", "preparing"}
  BY <1>1 DEF AdaptiveStatus
<1>4. proposed \in BoxSets
  <2>1. IsMerge(Proposed, regions) \/ \E called : IsMerge(Proposed, regions \cup called)
    BY ProposedIsMerge DEF RouterInv, CallInv, PassInv
  <2> QED
    BY <1>1, <2>1 DEF IsMerge
<1>5. CallInv'
  <2>1. regions' \in BoxSets
    BY <1>1, <1>4 DEF RouterInv, CallInv
  <2>2. round' \in 0 .. policy.maximumRounds
    <3>1. round \in 0 .. policy.maximumRounds /\ policy.maximumRounds \in Nat
      BY ProblemFacts DEF RouterInv, CallInv, IsPolicy
    <3>2. status' = "preparing" => round # policy.maximumRounds
      BY <1>1 DEF AdaptiveStatus
    <3> QED
      BY <1>1, <3>1, <3>2
  <2>3. status' \in {"preparing", "passing", "searching"} \cup Outcomes
    BY <1>3 DEF Outcomes
  <2> QED
    BY <1>2, <2>1, <2>2, <2>3, CallStays DEF RouterInv, CallInv
<1>6. PassInv'
  BY <1>2, PassKept DEF RouterInv, PassInv
<1>7. Served' /\ Settled' /\ SearchInv'
  BY <1>2, <1>3 DEF Served, Settled, SearchInv, Idle, RouterInv, Unmoved
<1> QED
  BY <1>5, <1>6, <1>7 DEF RouterInv

(* The nets of a bundle have two terminals and more.                        *)
LEMMA BundleNetsArePlaced ==
  ASSUME problem \in Problems, NEW g, IsGrid(g), NEW b \in BundleSet(g)
  PROVE  IsSound(b, g) /\ Range(b.nets) \subseteq PlacedTwice /\ IsFiniteSet(Range(b.nets))
<1>1. IsBundle(b, g)
  BY BundleSetIsBundles, Zenon
<1>2. IsSound(b, g)
  BY <1>1, BundlesAreSound
<1>3. Range(b.nets) \subseteq PlacedTwice
  <2>1. ASSUME NEW n \in PlacedTwice, BundlesNet(b, g, n)
        PROVE  Range(b.nets) \subseteq PlacedTwice
    <3>1. b.nets = <<n>>
      BY <2>1 DEF BundlesNet, NetBundle
    <3> QED
      BY <2>1, <3>1 DEF Range
  <2>2. ASSUME NEW pair \in problem.pairs, BundlesPair(b, g, pair)
        PROVE  Range(b.nets) \subseteq PlacedTwice
    <3>1. b.nets = <<pair.positive, pair.negative>> /\ PairOrder(pair) # <<>>
      BY <2>2 DEF BundlesPair, PairBundle
    <3>2. pair.positive \in TerminalNets /\ pair.negative \in TerminalNets
      BY ProblemFacts DEF ArePairs
    <3>3. pair.positive \in PlacedTwice /\ pair.negative \in PlacedTwice
      BY <3>1, <3>2, PairOrderFacts DEF PlacedTwice
    <3> QED
      BY <3>1, <3>3 DEF Range
  <2> QED
    BY <1>1, <2>1, <2>2 DEF IsBundle
<1>4. IsFiniteSet(PlacedTwice)
  <2>1. PlacedTwice \subseteq TerminalNets
    BY DEF PlacedTwice
  <2> QED
    BY <2>1, ProblemFacts, FS_Subset
<1> QED
  BY <1>2, <1>3, <1>4, FS_Subset

(* The bundle whose turn it is, and those that wait after it.               *)
LEMMA BundleFacts ==
  ASSUME RouterInv, pending # <<>>
  PROVE  /\ Bundle \in BundleSet(grid) /\ IsSound(Bundle, grid)
         /\ Range(Bundle.nets) \subseteq PlacedTwice /\ IsFiniteSet(Range(Bundle.nets))
         /\ Tail(pending) \in Seq(BundleSet(grid)) /\ Len(Tail(pending)) = Len(pending) - 1
         /\ Len(pending) \in Nat /\ Len(pending) >= 1
         /\ \A n : \A rts, fls : ServedBy(n, pending, rts, fls)
              => n \in Range(Bundle.nets) \/ ServedBy(n, Tail(pending), rts, fls)
<1>1. pending \in Seq(BundleSet(grid)) /\ problem \in Problems /\ IsGrid(grid)
  BY DEF RouterInv, CallInv, PassInv
<1> DEFINE S == BundleSet(grid)
<1> HIDE DEF S
<1>2. pending \in Seq(S)
  BY <1>1 DEF S
<1>3. PICK n \in Nat : n = Len(pending) /\ n >= 1
  BY <1>2
<1>4. Bundle \in S /\ Bundle = pending[1]
  BY <1>2, <1>3 DEF Bundle
<1>5. Tail(pending) \in Seq(S) /\ Len(Tail(pending)) = n - 1
  BY <1>2, <1>3
<1>6. \A i \in 1 .. n : i # 1 => i - 1 \in 1 .. (n - 1) /\ pending[i] = Tail(pending)[i - 1]
  BY <1>2, <1>3
<1>7. ASSUME NEW m, NEW rts, NEW fls, ServedBy(m, pending, rts, fls), m \notin Range(Bundle.nets)
      PROVE  ServedBy(m, Tail(pending), rts, fls)
  <2>1. CASE \E i \in 1 .. Len(pending) : m \in Range(pending[i].nets)
    <3>1. PICK i \in 1 .. n : m \in Range(pending[i].nets)
      BY <2>1, <1>3
    <3>2. i # 1
      BY <3>1, <1>4, <1>7, Zenon
    <3>3. i - 1 \in 1 .. Len(Tail(pending)) /\ m \in Range(Tail(pending)[i - 1].nets)
      BY <3>1, <3>2, <1>5, <1>6
    <3> QED
      BY <3>3, Zenon DEF ServedBy
  <2> QED
    BY <2>1, <1>7, Zenon DEF ServedBy
<1>8. IsSound(Bundle, grid) /\ Range(Bundle.nets) \subseteq PlacedTwice /\ IsFiniteSet(Range(Bundle.nets))
  BY <1>1, <1>4, BundleNetsArePlaced DEF S
<1> QED
  BY <1>3, <1>4, <1>5, <1>7, <1>8 DEF S

\* A bundle fails: what it leaves.
Fails == /\ \E why : failures' = failures \cup {[nets |-> Range(Bundle.nets), why |-> why]}
         /\ pending' = Tail(pending) /\ status' = "passing"
         /\ paths' = <<>> /\ queue' = {} /\ expanded' = 0
         /\ UNCHANGED <<problem, round, regions, grid, iteration, history, routes>>

(* A bundle that fails is recorded with all its nets: the invariant is      *)
(* kept.                                                                    *)
LEMMA FailKeeps ==
  ASSUME RouterInv, status \in {"passing", "searching"}, pending # <<>>, Fails
  PROVE  RouterInv'
<1>1. PICK why : failures' = failures \cup {[nets |-> Range(Bundle.nets), why |-> why]}
  BY DEF Fails
<1>2. /\ pending' = Tail(pending) /\ status' = "passing"
      /\ paths' = <<>> /\ queue' = {} /\ expanded' = 0
      /\ UNCHANGED <<problem, round, regions, grid, iteration, history, routes>>
  BY DEF Fails
<1>3. CallInv'
  BY <1>2, CallKept
<1>4. FailuresAreFinite'
  <2>1. IsFiniteSet(failures')
    BY <1>1, FS_Singleton, FS_Union DEF RouterInv, PassInv, FailuresAreFinite
  <2> DEFINE new == [nets |-> Range(Bundle.nets), why |-> why]
  <2>2. new.nets = Range(Bundle.nets)
    OBVIOUS
  <2>3. failures' = failures \cup {new}
    BY <1>1
  <2> HIDE DEF new
  <2>4. \A f \in failures' : IsFiniteSet(f.nets) /\ f.nets \subseteq PlacedTwice
    BY <2>2, <2>3, BundleFacts DEF RouterInv, PassInv, FailuresAreFinite
  <2>5. PlacedTwice' = PlacedTwice
    BY <1>2, CallStays
  <2> QED
    BY <2>1, <2>4, <2>5 DEF FailuresAreFinite
<1>5. PassInv'
  <2>1. pending' \in Seq(BundleSet(grid)')
    BY <1>2, BundleFacts, BundlesStay
  <2>2. RoutesAreGood(grid)'
    BY <1>2, CallStays, RoutesStay DEF RoutesAreGood, RouterInv, PassInv
  <2>3. iteration' \in 0 .. (policy'.maximumIterations - 1)
    BY <1>2, CallStays DEF RouterInv, PassInv
  <2>4. \A r \in DOMAIN history' : history'[r] \in Nat
    BY <1>2 DEF RouterInv, PassInv
  <2> QED
    BY <1>4, <2>1, <2>2, <2>3, <2>4 DEF PassInv
<1>6. Served'
  <2>1. Selected' = Selected /\ TerminalNets' = TerminalNets
    BY <1>2, CallStays
  <2>2. PreparationErrors(grid)' = {}
    BY <1>2, PreparationStays DEF RouterInv, Served
  <2>3. ASSUME NEW n \in Selected
        PROVE  n \in TerminalNets /\ ServedBy(n, pending', routes', failures')
    <3>1. n \in TerminalNets /\ ServedBy(n, pending, routes, failures)
      BY DEF RouterInv, Served
    <3>2. CASE n \in Range(Bundle.nets)
      <4>1. \E f \in failures' : n \in f.nets
        <5> DEFINE new == [nets |-> Range(Bundle.nets), why |-> why]
        <5>1. new.nets = Range(Bundle.nets) /\ new \in failures'
          BY <1>1
        <5> HIDE DEF new
        <5> QED
          BY <5>1, <3>2
      <4> QED
        BY <3>1, <4>1, Zenon DEF ServedBy
    <3>3. CASE ServedBy(n, Tail(pending), routes, failures)
      <4>1. failures \subseteq failures'
        BY <1>1
      <4> QED
        BY <3>1, <3>3, <4>1, <1>2, Zenon DEF ServedBy
    <3> QED
      BY <3>1, <3>2, <3>3, BundleFacts, Zenon
  <2> QED
    BY <2>1, <2>2, <2>3 DEF Served
<1>7. Settled' /\ SearchInv'
  BY <1>2 DEF Settled, SearchInv, Idle
<1> QED
  BY <1>3, <1>5, <1>6, <1>7 DEF RouterInv

(* Failing a bundle with a terminal off the grid keeps the invariant.       *)
LEMMA OffGridKeeps == RouterInv /\ OffGrid => RouterInv' /\ Fails /\ pending # <<>> /\ status = "passing"
<1> SUFFICES ASSUME RouterInv, OffGrid
             PROVE  RouterInv' /\ Fails /\ pending # <<>> /\ status = "passing"
  OBVIOUS
<1>1. status = "passing" /\ pending # <<>> /\ FailBundle("OffGridTerminal")
  BY DEF OffGrid
<1>2. Fails
  BY <1>1, Zenon DEF Fails, FailBundle, NoSearch, callVars, passVars
<1> QED
  BY <1>1, <1>2, FailKeeps

(* Failing a bundle without a path keeps the invariant.                     *)
LEMMA NoPathKeeps == RouterInv /\ NoPath => RouterInv' /\ Fails /\ pending # <<>> /\ status = "searching"
<1> SUFFICES ASSUME RouterInv, NoPath
             PROVE  RouterInv' /\ Fails /\ pending # <<>> /\ status = "searching"
  OBVIOUS
<1>1. status = "searching" /\ FailBundle("NoPath")
  BY DEF NoPath
<1>2. Fails
  BY <1>1, Zenon DEF Fails, FailBundle, NoSearch, callVars, passVars
<1>3. pending # <<>>
  BY <1>1 DEF RouterInv, SearchInv, Searching
<1> QED
  BY <1>1, <1>2, <1>3, FailKeeps

(* Failing a bundle whose search is too long keeps the invariant.           *)
LEMMA SearchTooLongKeeps ==
  ASSUME RouterInv, status = "searching", NEW top, SearchTooLong(top)
  PROVE  RouterInv' /\ Fails /\ pending # <<>>
<1>1. FailBundle("ExpansionLimit")
  BY DEF SearchTooLong
<1>2. Fails
  BY <1>1, Zenon DEF Fails, FailBundle, NoSearch, callVars, passVars
<1>3. pending # <<>>
  BY DEF RouterInv, SearchInv, Searching
<1> QED
  BY <1>2, <1>3, FailKeeps

\* A pass starts on a grid.
PassStarts(g) == /\ status' = "passing" /\ pending' = Bundles(g) /\ routes' = <<>> /\ failures' = {}
                 /\ problem' = problem /\ grid' = g
                 /\ IsGrid(g) /\ PreparationErrors(g) = {}

(* A pass that starts has every selected net among its bundles.             *)
LEMMA StartKeeps ==
  ASSUME problem \in Problems, NEW g, PassStarts(g)
  PROVE  /\ pending' \in Seq(BundleSet(grid)') /\ RoutesAreGood(grid)' /\ FailuresAreFinite'
         /\ Served' /\ Settled'
<1>1. /\ Selected \subseteq TerminalNets
      /\ Bundles(g) \in Seq({b \in Range(Bundles(g)) : IsBundle(b, g)})
      /\ \A n \in Selected : \E b \in Range(Bundles(g)) : n \in Range(b.nets)
  BY BundlesCover DEF PassStarts
<1>2. Bundles(g) \in Seq(BundleSet(g))
  <2> DEFINE S == {b \in Range(Bundles(g)) : IsBundle(b, g)}
             s == Bundles(g)
  <2>1. S \subseteq BundleSet(g)
    BY BundleSetIsBundles
  <2>2. s \in Seq(S)
    BY <1>1
  <2> HIDE DEF S, s
  <2>3. s \in Seq(BundleSet(g))
    BY <2>1, <2>2
  <2> QED
    BY <2>3 DEF s
<1>3. pending' \in Seq(BundleSet(grid)')
  BY <1>2, BundlesStay DEF PassStarts
<1>4. RoutesAreGood(grid)' /\ FailuresAreFinite'
  <2>1. routes' = <<>> /\ failures' = {}
    BY DEF PassStarts
  <2>2. DOMAIN routes' = {}
    BY <2>1
  <2> QED
    BY <2>1, <2>2, FS_EmptySet DEF RoutesAreGood, FailuresAreFinite
<1>5. Served'
  <2>1. Selected' = Selected /\ TerminalNets' = TerminalNets
    BY CallStays DEF PassStarts
  <2>2. PreparationErrors(grid)' = {}
    BY PreparationStays DEF PassStarts
  <2>3. ASSUME NEW n \in Selected
        PROVE  n \in TerminalNets /\ ServedBy(n, pending', routes', failures')
    <3>1. PICK b \in Range(Bundles(g)) : n \in Range(b.nets)
      BY <1>1
    <3>2. PICK i \in DOMAIN Bundles(g) : Bundles(g)[i] = b
      BY DEF Range
    <3>3. DOMAIN Bundles(g) = 1 .. Len(Bundles(g))
      BY <1>2, PlacesAreFinite
    <3>4. pending' = Bundles(g)
      BY DEF PassStarts
    <3> QED
      BY <1>1, <3>1, <3>2, <3>3, <3>4, Zenon DEF ServedBy
  <2> QED
    BY <2>1, <2>2, <2>3 DEF Served
<1>6. Settled'
  BY DEF PassStarts, Settled
<1> QED
  BY <1>3, <1>4, <1>5, <1>6

(* Preparing a round keeps the invariant.                                   *)
LEMMA PrepareKeeps ==
  RouterInv /\ Prepare => /\ RouterInv' /\ status = "preparing" /\ status' = "passing"
                          /\ UNCHANGED <<problem, round>>
<1> SUFFICES ASSUME RouterInv, Prepare
             PROVE  /\ RouterInv' /\ status = "preparing" /\ status' = "passing"
                    /\ UNCHANGED <<problem, round>>
  OBVIOUS
<1>1. /\ status = "preparing" /\ status' = "passing"
      /\ UNCHANGED <<problem, round, regions>> /\ Unmoved
      /\ iteration' = 0 /\ history' = <<>>
  BY DEF Prepare, StartPass, Unmoved, bundleVars, searchVars
<1> DEFINE g == GridOf(round, regions)
<1>2. PassStarts(g)
  <2>1. IsGrid(g)
    BY GridOfIsGrid DEF RouterInv, CallInv
  <2>2. grid' = g /\ PreparationErrors(g) = {} /\ StartPass(grid')
    BY Zenon DEF Prepare
  <2>3. pending' = Bundles(g) /\ routes' = <<>> /\ failures' = {}
    BY <2>2, Zenon DEF StartPass
  <2> QED
    BY <1>1, <2>1, <2>2, <2>3, Zenon DEF PassStarts
<1>3. /\ pending' \in Seq(BundleSet(grid)') /\ RoutesAreGood(grid)' /\ FailuresAreFinite'
      /\ Served' /\ Settled'
  BY <1>2, StartKeeps DEF RouterInv, CallInv
<1>4. policy' = policy
  BY <1>1, CallStays
<1>5. CallInv'
  <2>1. IsGrid(grid)'
    BY <1>2 DEF PassStarts
  <2> QED
    BY <1>1, <1>4, <2>1 DEF RouterInv, CallInv
<1>6. PassInv'
  <2>1. 0 \in 0 .. (policy.maximumIterations - 1)
    BY ProblemFacts DEF IsPolicy, RouterInv, CallInv
  <2>2. DOMAIN history' = {}
    BY <1>1
  <2> QED
    BY <1>1, <1>3, <1>4, <2>1, <2>2 DEF PassInv
<1>7. SearchInv'
  BY <1>1 DEF SearchInv, Idle, RouterInv, Unmoved
<1> QED
  BY <1>1, <1>3, <1>5, <1>6, <1>7 DEF RouterInv

(* Tearing up a pass and doing it again keeps the invariant.                *)
LEMMA RepeatKeeps ==
  RouterInv /\ Repeat => /\ RouterInv' /\ status = "passing" /\ status' = "passing"
                         /\ UNCHANGED <<problem, round>> /\ iteration' = iteration + 1
<1> SUFFICES ASSUME RouterInv, Repeat
             PROVE  /\ RouterInv' /\ status = "passing" /\ status' = "passing"
                    /\ UNCHANGED <<problem, round>> /\ iteration' = iteration + 1
  OBVIOUS
<1>1. /\ status = "passing" /\ status' = "passing"
      /\ UNCHANGED <<problem, round, regions, grid>> /\ Unmoved
      /\ iteration' = iteration + 1 /\ iteration + 1 < policy.maximumIterations
      /\ Remember
  BY DEF Repeat, PassEnds, StartPass, Unmoved, callVars, bundleVars, searchVars
<1>2. PassStarts(grid)
  BY <1>1, Zenon DEF PassStarts, Repeat, StartPass, RouterInv, CallInv, Served
<1>3. /\ pending' \in Seq(BundleSet(grid)') /\ RoutesAreGood(grid)' /\ FailuresAreFinite'
      /\ Served' /\ Settled'
  BY <1>2, StartKeeps DEF RouterInv, CallInv
<1>4. policy' = policy
  BY <1>1, CallStays
<1>5. CallInv'
  BY <1>1, <1>4 DEF RouterInv, CallInv
<1>6. PassInv'
  <2>1. iteration' \in 0 .. (policy.maximumIterations - 1)
    <3>1. policy.maximumIterations \in Nat /\ iteration \in 0 .. (policy.maximumIterations - 1)
      BY ProblemFacts DEF IsPolicy, RouterInv, CallInv, PassInv
    <3> QED
      BY <1>1, <3>1
  <2>2. ASSUME NEW r \in DOMAIN history'
        PROVE  history'[r] \in Nat
    <3> DEFINE new == [c \in Conflicts |-> Sat(HistoryOf(c) + policy.historyIncrement)]
    <3>1. history' = Over(new, history)
      BY <1>1 DEF Remember
    <3>2. r \in DOMAIN new \cup DOMAIN history /\ history'[r] = IF r \in DOMAIN new THEN new[r] ELSE history[r]
      <4> HIDE DEF new
      <4> QED
        BY <3>1 DEF Over
    <3>3. \A c \in DOMAIN history : history[c] \in Nat
      BY DEF RouterInv, PassInv
    <3>4. \A c : HistoryOf(c) \in Nat
      BY <3>3 DEF HistoryOf
    <3>5. policy.historyIncrement \in Nat /\ MaxCost \in Nat
      BY ProblemFacts, RouterAssumption DEF IsPolicy, RouterInv, CallInv
    <3>6. \A c \in Conflicts : new[c] \in Nat
      BY <3>4, <3>5 DEF Sat
    <3>7. DOMAIN new = Conflicts
      OBVIOUS
    <3> HIDE DEF new
    <3> QED
      BY <3>2, <3>3, <3>6, <3>7
  <2> QED
    BY <1>3, <1>4, <2>1, <2>2 DEF PassInv
<1>7. SearchInv'
  BY <1>1 DEF SearchInv, Idle, RouterInv, Unmoved
<1> QED
  BY <1>1, <1>3, <1>5, <1>6, <1>7 DEF RouterInv

(* A search that starts, and one that goes on.                              *)
LEMMA SearchStarts ==
  ASSUME NEW b, NEW sources, NEW targets, StartSearch(b, sources, targets),
         IsFiniteSet(sources), sources \subseteq Nodes(grid)
  PROVE  /\ IsFound(reached', grid, b, sources)
         /\ IsFiniteSet(queue')
         /\ \A e \in queue' : e.state \in DOMAIN reached' /\ e.cost \in 0 .. MaxCost
         /\ expanded' = 0
<1> DEFINE state == [p \in sources |-> State(p, "None")]
           starts == {state[p] : p \in sources}
           entry == [s \in starts |-> Entry(b, targets, 0, s)]
<1>1. starts = {State(p, "None") : p \in sources}
  OBVIOUS
<1>2. /\ queue' = {entry[s] : s \in starts}
      /\ reached' = [s \in starts |-> [cost |-> 0, from |-> s]]
      /\ expanded' = 0
  <2> HIDE DEF state
  <2> QED
    BY <1>1 DEF StartSearch
<1>3. IsFiniteSet(starts)
  <2> HIDE DEF state
  <2> QED
    BY ImageIsFinite
<1>4. IsFound(reached', grid, b, sources)
  <2> HIDE DEF starts
  <2> QED
    BY <1>1, <1>2, StartIsFound
<1>5. \A s \in starts : entry[s].state = s /\ entry[s].cost = 0
  BY DEF Entry
<1> HIDE DEF entry, starts
<1>6. IsFiniteSet(queue')
  BY <1>2, <1>3, ImageIsFinite
<1>7. \A e \in queue' : e.state \in DOMAIN reached' /\ e.cost \in 0 .. MaxCost
  <2>1. 0 \in 0 .. MaxCost
    BY RouterAssumption
  <2> QED
    BY <1>2, <1>5, <2>1
<1> QED
  BY <1>2, <1>4, <1>6, <1>7

(* A step that leaves the search in order keeps what is said of it.         *)
LEMMA SearchKept ==
  ASSUME RouterInv, problem' = problem, grid' = grid, pending' = pending, pending # <<>>, status' = "searching",
         AreWays(paths', grid, Bundle), Len(paths') + 2 <= Len(Bundle.places),
         tree' = TreeOf(Bundle, paths', Len(paths') + 1), IsFiniteSet(tree'), tree' \subseteq Nodes(grid),
         IsFound(reached', grid, Bundle, tree'), IsFiniteSet(queue'),
         \A e \in queue' : e.state \in DOMAIN reached' /\ e.cost \in 0 .. MaxCost,
         expanded' \in 0 .. policy.maximumExpansions
  PROVE  SearchInv'
<1>1. Bundle' = Bundle /\ policy' = policy
  BY CallStays DEF Bundle
<1>2. IsFound(reached, grid, Bundle, tree)' /\ AreWays(paths, grid, Bundle)'
  BY <1>1, SearchStays
<1>3. Searching'
  BY <1>1, <1>2 DEF Searching
<1> QED
  BY <1>3 DEF SearchInv

\* What a step of a search leaves alone.
PassGoesOn ==
  UNCHANGED <<problem, round, regions, grid, iteration, history, pending, routes, failures>>

(* A step within a search keeps what is said of the call and of the pass.   *)
LEMMA PassGoesOnKept ==
  ASSUME RouterInv, PassGoesOn, status \in {"passing", "searching"}, status' = "searching"
  PROVE  CallInv' /\ PassInv' /\ Served' /\ Settled'
<1>1. CallInv'
  BY CallKept DEF PassGoesOn
<1>2. PassInv'
  BY PassKept DEF PassGoesOn, RouterInv, PassInv
<1>3. Served'
  BY CallStays, PreparationStays DEF Served, RouterInv, PassGoesOn
<1>4. Settled'
  BY DEF Settled
<1> QED
  BY <1>1, <1>2, <1>3, <1>4

(* How many places a bundle has, and where the search is among them.        *)
LEMMA PlacesFacts ==
  ASSUME RouterInv, pending # <<>>
  PROVE  /\ Len(Bundle.places) \in Nat /\ Len(Bundle.places) >= 2
         /\ \A k \in 1 .. Len(Bundle.places) : /\ Bundle.places[k] \subseteq Nodes(grid)
                                               /\ IsFiniteSet(Bundle.places[k])
<1>1. Bundle.places \in Seq(PlaceSets(grid)) /\ Len(Bundle.places) >= 2
  BY BundleFacts DEF IsSound
<1>2. Len(Bundle.places) \in Nat
  BY <1>1
<1>3. \A k \in 1 .. Len(Bundle.places) : Bundle.places[k] \in PlaceSets(grid)
  BY <1>1, ElementOfSeq
<1> QED
  BY <1>1, <1>2, <1>3 DEF PlaceSets

(* Starting the search for a bundle keeps the invariant.                    *)
LEMMA StartBundleKeeps ==
  RouterInv /\ StartBundle =>
    /\ RouterInv' /\ PassGoesOn /\ pending # <<>>
    /\ status = "passing" /\ status' = "searching" /\ paths' = paths /\ paths = <<>>
<1> SUFFICES ASSUME RouterInv, StartBundle
             PROVE  /\ RouterInv' /\ PassGoesOn /\ pending # <<>>
                    /\ status = "passing" /\ status' = "searching" /\ paths' = paths /\ paths = <<>>
  OBVIOUS
<1>1. /\ status = "passing" /\ pending # <<>> /\ status' = "searching"
      /\ tree' = Bundle.places[1] /\ PassGoesOn /\ paths' = paths
  BY DEF StartBundle, PassGoesOn, callVars, passVars
<1>2. paths = <<>>
  BY <1>1 DEF RouterInv, SearchInv, Idle
<1> DEFINE sources == Bundle.places[1]
<1>3. sources \subseteq Nodes(grid) /\ IsFiniteSet(sources) /\ Len(Bundle.places) \in Nat /\ Len(Bundle.places) >= 2
  <2>1. 1 \in 1 .. Len(Bundle.places)
    BY <1>1, PlacesFacts
  <2> QED
    BY <1>1, <2>1, PlacesFacts
<1>4. StartSearch(Bundle, sources, Bundle.places[2])
  BY Zenon DEF StartBundle
<1>5. /\ IsFound(reached', grid, Bundle, sources)
      /\ IsFiniteSet(queue')
      /\ \A e \in queue' : e.state \in DOMAIN reached' /\ e.cost \in 0 .. MaxCost
      /\ expanded' = 0
  <2> HIDE DEF sources
  <2> QED
    BY <1>3, <1>4, SearchStarts
<1>6. AreWays(paths', grid, Bundle) /\ Len(paths') = 0 /\ Len(paths') + 2 <= Len(Bundle.places)
  <2>1. paths' = <<>> /\ <<>> \in Seq(Seq(Nodes(grid))) /\ Len(<<>>) = 0
    BY <1>1, <1>2
  <2>2. 0 < Len(Bundle.places) /\ 0 + 2 <= Len(Bundle.places)
    BY <1>3
  <2>3. \A k \in 1 .. 0 : EndsAt(paths'[k], grid, Bundle, paths', k)
    OBVIOUS
  <2>4. Len(paths') = 0
    BY <2>1
  <2> QED
    BY <2>1, <2>2, <2>3, <2>4 DEF AreWays
<1>7. tree' = TreeOf(Bundle, paths', Len(paths') + 1)
  <2>1. 1 .. (0 + 1 - 1) = {}
    OBVIOUS
  <2>2. TreeOf(Bundle, paths', 0 + 1) = Bundle.places[1]
    BY <2>1 DEF TreeOf
  <2> QED
    BY <1>1, <1>6, <2>2
<1>8. expanded' \in 0 .. policy.maximumExpansions
  BY <1>5, ProblemFacts DEF IsPolicy, RouterInv, CallInv
<1>9. SearchInv'
  BY <1>1, <1>3, <1>5, <1>6, <1>7, <1>8, SearchKept DEF PassGoesOn
<1> QED
  BY <1>1, <1>2, <1>9, PassGoesOnKept DEF RouterInv

(* Dropping an outdated entry keeps the invariant.                          *)
LEMMA DropStaleKeeps ==
  ASSUME RouterInv, status = "searching", NEW top \in queue, DropStale(top)
  PROVE  /\ RouterInv' /\ PassGoesOn /\ status' = "searching" /\ paths' = paths /\ expanded' = expanded
         /\ queue' = queue \ {top}
<1>1. /\ status' = "searching" /\ PassGoesOn /\ queue' = queue \ {top}
      /\ UNCHANGED <<tree, paths, reached, expanded>>
  BY DEF DropStale, PassGoesOn, callVars, passVars, bundleVars
<1>2. Searching
  BY DEF RouterInv, SearchInv
<1>3. IsFiniteSet(queue') /\ \A e \in queue' : e.state \in DOMAIN reached' /\ e.cost \in 0 .. MaxCost
  BY <1>1, <1>2, FS_Subset DEF Searching
<1>4. SearchInv'
  BY <1>1, <1>2, <1>3, SearchKept DEF PassGoesOn, Searching
<1> QED
  BY <1>1, <1>4, PassGoesOnKept DEF RouterInv

(* What the entry a search takes next stands for.                           *)
LEMMA TopFacts ==
  ASSUME RouterInv, status = "searching", NEW top \in queue, Fresh(top)
  PROVE  /\ top.state \in DOMAIN reached /\ top.cost = reached[top.state].cost
         /\ top.state.place \in Nodes(grid) /\ top.cost \in 0 .. MaxCost
<1>1. Searching
  BY DEF RouterInv, SearchInv
<1>2. top.state \in DOMAIN reached /\ top.cost \in 0 .. MaxCost
  BY <1>1 DEF Searching
<1>3. top.state.place \in Nodes(grid)
  BY <1>1, <1>2 DEF Searching, IsFound
<1> QED
  BY <1>2, <1>3 DEF Fresh

(* Expanding a state keeps the invariant.                                   *)
LEMMA ExpandKeeps ==
  ASSUME RouterInv, status = "searching", NEW top \in queue, Expand(top)
  PROVE  /\ RouterInv' /\ PassGoesOn /\ status' = "searching" /\ paths' = paths
         /\ expanded' = expanded + 1 /\ expanded < policy.maximumExpansions
<1>1. /\ status' = "searching" /\ PassGoesOn /\ UNCHANGED <<tree, paths>>
      /\ expanded' = expanded + 1 /\ expanded < policy.maximumExpansions /\ Fresh(top)
  BY DEF Expand, Expandable, PassGoesOn, callVars, passVars, bundleVars
<1>2. Searching
  BY DEF RouterInv, SearchInv
<1>3. PICK better \in {Improving(top)} :
        /\ reached' = Over([s \in {e.state : e \in better} |->
                             [cost |-> (CHOOSE e \in better : e.state = s).cost,
                              from |-> top.state]], reached)
        /\ queue' = (queue \ {top}) \cup better
  BY Zenon DEF Expand
<1>4. better = Improving(top)
  BY <1>3
<1>5. CostsCount
  BY DEF CostsCount, RouterInv, CallInv, PassInv, RoutesAreGood
<1>6. IsGrid(grid) /\ IsSound(Bundle, grid) /\ pending # <<>>
  BY <1>2, BundleFacts DEF RouterInv, CallInv, Searching
<1>7. /\ IsFiniteSet(better)
      /\ \A e \in better :
              /\ e.cost \in 0 .. MaxCost /\ top.cost <= e.cost
              /\ e.state \in DOMAIN reached => e.cost < reached[e.state].cost
              /\ e.state = State(e.state.place, e.state.direction)
              /\ IsStep(grid, Bundle, top.state.place, e.state.place, e.state.direction)
              /\ e.state.place # top.state.place
  <2>1. top.state.place \in Nodes(grid) /\ top.cost \in 0 .. MaxCost
    BY <1>1, TopFacts
  <2> QED
    BY <1>4, <1>5, <1>6, <2>1, ImprovingFacts
<1>8. \A e \in better : IsImprovement(e, reached, grid, Bundle, top.state)
  <2>1. top.cost = reached[top.state].cost
    BY <1>1, TopFacts
  <2> QED
    BY <1>7, <2>1 DEF IsImprovement
<1>9. /\ IsFound(reached', grid, Bundle, tree)
      /\ DOMAIN reached \subseteq DOMAIN reached' /\ \A e \in better : e.state \in DOMAIN reached'
  <2>1. IsFound(reached, grid, Bundle, tree)
    BY <1>2 DEF Searching
  <2>2. top.state \in DOMAIN reached
    BY <1>1, TopFacts
  <2>3. IsExpansion(reached', reached, top.state, better)
    BY <1>3, Zenon DEF IsExpansion
  <2>4. IsFound(reached', grid, Bundle, tree)
    BY <1>8, <2>1, <2>2, <2>3, ExpansionIsFound
  <2>5. DOMAIN reached \subseteq DOMAIN reached'
    BY <1>8, <2>1, <2>2, <2>3, ExpansionIsFound
  <2>6. \A e \in better : e.state \in DOMAIN reached'
    BY <1>8, <2>1, <2>2, <2>3, ExpansionIsFound
  <2> QED
    BY <2>4, <2>5, <2>6
<1>10. IsFiniteSet(queue')
  <2>1. IsFiniteSet(queue \ {top})
    BY <1>2, FS_Subset DEF Searching
  <2> QED
    BY <1>3, <1>7, <2>1, FS_Union
<1>11. \A e \in queue' : e.state \in DOMAIN reached' /\ e.cost \in 0 .. MaxCost
  BY <1>2, <1>3, <1>7, <1>9 DEF Searching
<1>14. IsFound(reached', grid, Bundle, tree')
  BY <1>1, <1>9
<1>12. expanded' \in 0 .. policy.maximumExpansions
  <2>1. expanded \in 0 .. policy.maximumExpansions
    BY <1>2 DEF Searching
  <2>2. policy.maximumExpansions \in Nat
    BY ProblemFacts DEF IsPolicy, RouterInv, CallInv
  <2> QED
    BY <1>1, <2>1, <2>2
<1>13. SearchInv'
  <2>1. /\ AreWays(paths', grid, Bundle) /\ Len(paths') + 2 <= Len(Bundle.places)
        /\ tree' = TreeOf(Bundle, paths', Len(paths') + 1) /\ IsFiniteSet(tree') /\ tree' \subseteq Nodes(grid)
    BY <1>1, <1>2 DEF Searching
  <2>2. problem' = problem /\ grid' = grid /\ pending' = pending
    BY <1>1 DEF PassGoesOn
  <2> QED
    BY <1>1, <1>6, <1>10, <1>11, <1>12, <1>14, <2>1, <2>2, SearchKept
<1> QED
  BY <1>1, <1>13, PassGoesOnKept DEF RouterInv

(* The path that arrives at the next place continues the others.            *)
LEMMA ArrivedFacts ==
  ASSUME RouterInv, status = "searching", NEW top \in queue, Arrived(top)
  PROVE  /\ AreWays(Append(paths, PathTo(reached, top.state)), grid, Bundle)
         /\ Len(Append(paths, PathTo(reached, top.state))) = Len(paths) + 1
         /\ TreeOf(Bundle, Append(paths, PathTo(reached, top.state)), Len(paths) + 2)
              = tree \cup Range(PathTo(reached, top.state))
         /\ IsFiniteSet(tree \cup Range(PathTo(reached, top.state)))
         /\ tree \cup Range(PathTo(reached, top.state)) \subseteq Nodes(grid)
<1> DEFINE path == PathTo(reached, top.state)
<1>1. Searching /\ Fresh(top) /\ top.state.place \in Targets
  BY DEF RouterInv, SearchInv, Arrived, Expandable
<1>2. IsWay(path, grid, Bundle, tree, top.state.place)
  BY <1>1, TopFacts, PathToIsWay DEF Searching
<1> HIDE DEF path
<1>3. pending # <<>> /\ AreWays(paths, grid, Bundle) /\ Len(paths) + 2 <= Len(Bundle.places)
      /\ tree = TreeOf(Bundle, paths, Len(paths) + 1) /\ IsFiniteSet(tree) /\ tree \subseteq Nodes(grid)
  BY <1>1 DEF Searching
<1>4. Len(Bundle.places) \in Nat
  BY <1>3, PlacesFacts
<1>5. PICK n \in Nat : n = Len(paths)
  BY <1>3 DEF AreWays
<1>6. EndsAt(path, grid, Bundle, paths, Len(paths) + 1)
  <2>1. Targets = Bundle.places[n + 1 + 1]
    <3>1. n + 2 = n + 1 + 1
      OBVIOUS
    <3> QED
      BY <1>5, <3>1, Zenon DEF Targets
  <2>2. top.state.place \in Bundle.places[n + 1 + 1] /\ IsWay(path, grid, Bundle, TreeOf(Bundle, paths, n + 1), top.state.place)
    BY <1>1, <1>2, <1>3, <1>5, <2>1
  <2> QED
    BY <1>5, <2>2, Zenon DEF EndsAt
<1>7. Len(paths) + 1 < Len(Bundle.places)
  BY <1>3, <1>4, <1>5
<1>8. /\ AreWays(Append(paths, path), grid, Bundle)
      /\ Len(Append(paths, path)) = Len(paths) + 1
      /\ TreeOf(Bundle, Append(paths, path), Len(paths) + 2) = TreeOf(Bundle, paths, Len(paths) + 1) \cup Range(path)
  BY <1>3, <1>4, <1>6, <1>7, MoreWays
<1>9. IsFiniteSet(Range(path)) /\ Range(path) \subseteq Nodes(grid)
  <2>1. path \in Seq(Nodes(grid))
    BY <1>2 DEF IsWay
  <2> QED
    BY <2>1, PlacesAreFinite
<1>10. IsFiniteSet(tree \cup Range(path))
  BY <1>3, <1>9, FS_Union
<1> QED
  BY <1>3, <1>8, <1>9, <1>10 DEF path

(* Arriving at a place that is not the last keeps the invariant.            *)
LEMMA ConnectKeeps ==
  ASSUME RouterInv, status = "searching", NEW top \in queue, Connect(top)
  PROVE  /\ RouterInv' /\ PassGoesOn /\ status' = "searching" /\ Len(paths') = Len(paths) + 1
<1>1. /\ status' = "searching" /\ PassGoesOn /\ Arrived(top) /\ Len(paths) + 2 < Len(Bundle.places)
  BY DEF Connect, PassGoesOn, callVars, passVars
<1> DEFINE path == PathTo(reached, top.state)
<1>2. /\ paths' = Append(paths, path)
      /\ tree' = tree \cup Range(path)
      /\ StartSearch(Bundle, tree', Bundle.places[Len(paths) + 3])
  BY Zenon DEF Connect
<1>3. /\ AreWays(paths', grid, Bundle) /\ Len(paths') = Len(paths) + 1
      /\ tree' = TreeOf(Bundle, paths', Len(paths) + 2)
      /\ IsFiniteSet(tree') /\ tree' \subseteq Nodes(grid)
  <2> HIDE DEF path
  <2>1. /\ AreWays(Append(paths, path), grid, Bundle)
        /\ Len(Append(paths, path)) = Len(paths) + 1
        /\ TreeOf(Bundle, Append(paths, path), Len(paths) + 2) = tree \cup Range(path)
        /\ IsFiniteSet(tree \cup Range(path)) /\ tree \cup Range(path) \subseteq Nodes(grid)
    BY <1>1, ArrivedFacts DEF path
  <2> QED
    BY <1>2, <2>1, Zenon
<1> HIDE DEF path
<1>4. PICK sources : sources = tree'
  OBVIOUS
<1>5. /\ IsFound(reached', grid, Bundle, sources)
      /\ IsFiniteSet(queue')
      /\ \A e \in queue' : e.state \in DOMAIN reached' /\ e.cost \in 0 .. MaxCost
      /\ expanded' = 0
  <2>1. StartSearch(Bundle, sources, Bundle.places[Len(paths) + 3])
    BY <1>2, <1>4, Zenon
  <2>2. IsFiniteSet(sources) /\ sources \subseteq Nodes(grid)
    BY <1>3, <1>4
  <2> QED
    BY <2>1, <2>2, SearchStarts
<1>6. pending # <<>> /\ problem' = problem /\ grid' = grid /\ pending' = pending
  BY <1>1 DEF PassGoesOn, RouterInv, SearchInv, Searching
<1>7. PICK n \in Nat : n = Len(paths)
  BY DEF RouterInv, SearchInv, Searching, AreWays
<1>8. Len(paths') + 2 <= Len(Bundle.places) /\ Len(paths') + 1 = Len(paths) + 2
  BY <1>1, <1>3, <1>6, <1>7, PlacesFacts
<1>9. expanded' \in 0 .. policy.maximumExpansions
  BY <1>5, ProblemFacts DEF IsPolicy, RouterInv, CallInv
<1>10. SearchInv'
  <2>1. IsFound(reached', grid, Bundle, tree')
    BY <1>4, <1>5
  <2>2. tree' = TreeOf(Bundle, paths', Len(paths') + 1)
    BY <1>3, <1>8
  <2> QED
    BY <1>1, <1>3, <1>5, <1>6, <1>8, <1>9, <2>1, <2>2, SearchKept
<1> QED
  BY <1>1, <1>3, <1>10, PassGoesOnKept DEF RouterInv

\* A bundle is routed: what it leaves.
Finishes == /\ pending' = Tail(pending) /\ status' = "passing"
            /\ paths' = <<>> /\ queue' = {} /\ expanded' = 0
            /\ UNCHANGED <<problem, round, regions, grid, iteration, history, failures>>

(* Arriving at the last place makes good routes of the bundle's nets, which *)
(* are served: the invariant is kept.                                       *)
LEMMA FinishBundleKeeps ==
  ASSUME RouterInv, status = "searching", NEW top \in queue, FinishBundle(top)
  PROVE  RouterInv' /\ Finishes /\ pending # <<>>
<1>1. Arrived(top) /\ Len(paths) + 2 = Len(Bundle.places) /\ Finishes
  BY Zenon DEF FinishBundle, Finishes, NoSearch, callVars, passVars
<1> DEFINE ps == Append(paths, PathTo(reached, top.state))
           new == BundleRoutes(Bundle, ps)
<1>2. routes' = Over(new, routes)
  BY Zenon DEF FinishBundle
<1>3. pending # <<>> /\ AreWays(ps, grid, Bundle) /\ Len(ps) = Len(paths) + 1
  BY <1>1, ArrivedFacts DEF RouterInv, SearchInv, Searching
<1> HIDE DEF ps
<1>4. Len(ps) + 1 = Len(Bundle.places)
  <2>1. PICK n \in Nat : n = Len(paths)
    BY DEF RouterInv, SearchInv, Searching, AreWays
  <2> QED
    BY <1>1, <1>3, <2>1
<1>5. /\ DOMAIN new = Range(Bundle.nets)
      /\ \A n \in Range(Bundle.nets) : GoodRoute(new[n], n, grid)
      /\ Range(Bundle.nets) \subseteq TerminalNets /\ IsFiniteSet(Range(Bundle.nets))
  BY <1>3, <1>4, BundleFacts, BundleRoutesAreGood DEF RouterInv, CallInv
<1> HIDE DEF new
<1>6. /\ DOMAIN routes' = Range(Bundle.nets) \cup DOMAIN routes
      /\ \A n \in Range(Bundle.nets) : routes'[n] = new[n]
      /\ \A n \in DOMAIN routes \ Range(Bundle.nets) : routes'[n] = routes[n]
  BY <1>2, <1>5 DEF Over
<1>7. CallInv'
  BY <1>1, CallKept DEF Finishes
<1>8. RoutesAreGood(grid)'
  <2>1. IsFiniteSet(DOMAIN routes') /\ DOMAIN routes' \subseteq TerminalNets
    BY <1>5, <1>6, FS_Union DEF RouterInv, PassInv, RoutesAreGood
  <2>2. \A n \in DOMAIN routes' : GoodRoute(routes'[n], n, grid)
    BY <1>5, <1>6 DEF RouterInv, PassInv, RoutesAreGood
  <2>3. problem' = problem /\ grid' = grid
    BY <1>1 DEF Finishes
  <2> QED
    BY <2>1, <2>2, <2>3, CallStays, RoutesStay DEF RoutesAreGood
<1>9. PassInv'
  <2>1. pending' \in Seq(BundleSet(grid)')
    BY <1>1, <1>3, BundleFacts, BundlesStay DEF Finishes
  <2>2. FailuresAreFinite'
    BY <1>1, CallStays DEF Finishes, FailuresAreFinite, RouterInv, PassInv
  <2>3. iteration' \in 0 .. (policy'.maximumIterations - 1)
    BY <1>1, CallStays DEF RouterInv, PassInv, Finishes
  <2>4. \A r \in DOMAIN history' : history'[r] \in Nat
    BY <1>1 DEF RouterInv, PassInv, Finishes
  <2> QED
    BY <1>8, <2>1, <2>2, <2>3, <2>4 DEF PassInv
<1>10. Served'
  <2>1. Selected' = Selected /\ TerminalNets' = TerminalNets
    BY <1>1, CallStays DEF Finishes
  <2>2. PreparationErrors(grid)' = {}
    BY <1>1, PreparationStays DEF RouterInv, Served, Finishes
  <2>3. ASSUME NEW n \in Selected
        PROVE  n \in TerminalNets /\ ServedBy(n, pending', routes', failures')
    <3>1. n \in TerminalNets /\ ServedBy(n, pending, routes, failures)
      BY DEF RouterInv, Served
    <3>2. CASE n \in Range(Bundle.nets)
      BY <1>6, <3>1, <3>2, Zenon DEF ServedBy
    <3>3. CASE ServedBy(n, Tail(pending), routes, failures)
      <4>1. DOMAIN routes \subseteq DOMAIN routes' /\ pending' = Tail(pending) /\ failures' = failures
        BY <1>1, <1>6 DEF Finishes
      <4> QED
        BY <3>1, <3>3, <4>1, Zenon DEF ServedBy
    <3> QED
      BY <1>3, <3>1, <3>2, <3>3, BundleFacts, Zenon
  <2> QED
    BY <2>1, <2>2, <2>3 DEF Served
<1>11. Settled' /\ SearchInv'
  BY <1>1 DEF Settled, SearchInv, Idle, Finishes
<1> QED
  BY <1>1, <1>3, <1>7, <1>9, <1>10, <1>11 DEF RouterInv

(* A step that changes nothing keeps the invariant.                         *)
LEMMA StutterKeeps == RouterInv /\ UNCHANGED routerVars /\ UNCHANGED problem => RouterInv'
<1> SUFFICES ASSUME RouterInv, UNCHANGED routerVars
             PROVE  RouterInv'
  OBVIOUS
<1>1. PassUnchanged /\ Unmoved /\ status' = status
  BY DEF routerVars, callVars, passVars, bundleVars, searchVars, PassUnchanged, Unmoved
<1>2. CallInv'
  BY <1>1, CallKept DEF PassUnchanged, RouterInv, CallInv
<1>3. PassInv'
  BY <1>1, PassKept DEF PassUnchanged, RouterInv, PassInv
<1>4. Served'
  BY <1>1, CallStays, PreparationStays DEF Served, RouterInv, PassUnchanged
<1>5. Settled'
  BY <1>1, ConflictsStay DEF Settled, PassUnchanged, RouterInv
<1>6. SearchInv'
  <2>1. CASE status = "searching"
    <3>1. Searching
      BY <2>1 DEF RouterInv, SearchInv
    <3> QED
      BY <1>1, <2>1, <3>1, SearchKept DEF Searching, PassUnchanged, Unmoved
  <2>2. CASE status # "searching"
    BY <1>1, <2>2 DEF RouterInv, SearchInv, Idle, Unmoved
  <2> QED
    BY <2>1, <2>2
<1> QED
  BY <1>2, <1>3, <1>4, <1>5, <1>6 DEF RouterInv

(* Every call of the router, on every board and under every policy, keeps   *)
(* its invariant: the routes of a pass are legal and meet their pads, each  *)
(* selected net waits, is routed or has failed, the states a search has     *)
(* found lead back to the bundle's tree, and a call that is complete has    *)
(* nothing pending, failed or in conflict.                                  *)
THEOREM RouterInvHolds == RouterSpec => []RouterInv
<1>1. RouterInit => RouterInv
  BY InvInit
<1>2. RouterInv /\ [RouterNext]_routerVars => RouterInv'
  <2> SUFFICES ASSUME RouterInv, [RouterNext]_routerVars
               PROVE  RouterInv'
    OBVIOUS
  <2>1. CASE Refuse
    BY <2>1, RefuseKeeps
  <2>2. CASE Prepare
    BY <2>2, PrepareKeeps
  <2>3. CASE OffGrid
    BY <2>3, OffGridKeeps
  <2>4. CASE StartBundle
    BY <2>4, StartBundleKeeps
  <2>5. CASE SearchStep
    <3>1. CASE NoPath
      BY <3>1, NoPathKeeps
    <3>2. ASSUME status = "searching", NEW top \in queue,
                 \/ DropStale(top) \/ SearchTooLong(top) \/ Expand(top) \/ Connect(top) \/ FinishBundle(top)
          PROVE  RouterInv'
      BY <3>2, DropStaleKeeps, SearchTooLongKeeps, ExpandKeeps, ConnectKeeps, FinishBundleKeeps
    <3> QED
      BY <2>5, <3>1, <3>2 DEF SearchStep
  <2>6. CASE Complete
    BY <2>6, CompleteKeeps
  <2>7. CASE Repeat
    BY <2>7, RepeatKeeps
  <2>8. CASE IterationLimit
    BY <2>8, IterationLimitKeeps
  <2>9. CASE NextRound
    BY <2>9, NextRoundKeeps
  <2>10. CASE UNCHANGED routerVars
    BY <2>10, StutterKeeps DEF routerVars, callVars
  <2>11. CASE Returned
    BY <2>10, <2>11 DEF Returned
  <2> QED
    BY <2>1, <2>2, <2>3, <2>4, <2>5, <2>6, <2>7, <2>8, <2>9, <2>10, <2>11 DEF RouterNext
<1> QED
  BY <1>1, <1>2, PTL DEF RouterSpec

-----------------------------------------------------------------------------
(* Every step shortens what is left to do                                   *)

\* The bounds that nest, as a list of natural numbers.
WorkIsNatural == WorkLeft \in [1 .. 9 -> Nat]

(* What is left to do is counted by natural numbers.                        *)
LEMMA WorkCounts == RouterInv => WorkIsNatural
<1> SUFFICES ASSUME RouterInv
             PROVE  WorkIsNatural
  OBVIOUS
<1>1. /\ policy.maximumRounds \in Nat /\ policy.maximumIterations \in Nat /\ policy.maximumExpansions \in Nat
  BY ProblemFacts DEF IsPolicy, RouterInv, CallInv
<1>2. policy.maximumRounds - round \in Nat /\ policy.maximumIterations - iteration \in Nat
  BY <1>1 DEF RouterInv, CallInv, PassInv
<1>3. Len(pending) \in Nat
  BY DEF RouterInv, PassInv
<1>4. (IF pending = <<>> THEN 0 ELSE Len(Bundle.places) - Len(paths)) \in Nat
  <2>1. CASE pending = <<>>
    BY <2>1
  <2>2. CASE pending # <<>>
    <3>1. Len(Bundle.places) \in Nat /\ Len(Bundle.places) >= 2
      BY <2>2, PlacesFacts
    <3>2. Len(paths) \in Nat /\ Len(paths) + 2 <= Len(Bundle.places)
      <4>1. CASE status = "searching"
        BY <4>1 DEF RouterInv, SearchInv, Searching, AreWays
      <4>2. CASE status # "searching"
        BY <3>1, <4>2 DEF RouterInv, SearchInv, Idle
      <4> QED
        BY <4>1, <4>2
    <3>3. Len(Bundle.places) - Len(paths) \in Nat
      BY <3>1, <3>2
    <3> QED
      BY <2>2, <3>3
  <2> QED
    BY <2>1, <2>2
<1>5. policy.maximumExpansions - expanded \in Nat
  <2>1. expanded \in 0 .. policy.maximumExpansions
    BY <1>1 DEF RouterInv, SearchInv, Searching, Idle
  <2> QED
    BY <1>1, <2>1
<1>6. Cardinality(queue) \in Nat
  <2>1. IsFiniteSet(queue)
    BY FS_EmptySet DEF RouterInv, SearchInv, Searching, Idle
  <2> QED
    BY <2>1, FS_CardinalityType
<1> QED
  BY <1>2, <1>3, <1>4, <1>5, <1>6 DEF WorkLeft, WorkIsNatural

\* What EveryStepShortens says of a step.
Shortens == /\ LessWork(WorkLeft', WorkLeft)
            /\ \A i \in DOMAIN WorkLeft : WorkLeft'[i] >= 0

(* A step is shorter when one bound decreases and the outer ones stay.      *)
LEMMA ShorterAt ==
  ASSUME WorkIsNatural, WorkIsNatural', NEW k \in 1 .. 9, WorkLeft'[k] < WorkLeft[k],
         \A j \in 1 .. (k - 1) : WorkLeft'[j] = WorkLeft[j]
  PROVE  Shortens
<1>1. DOMAIN WorkLeft = 1 .. 9 /\ DOMAIN WorkLeft' = 1 .. 9 /\ \A i \in 1 .. 9 : WorkLeft'[i] \in Nat
  BY DEF WorkIsNatural
<1>2. \A i \in DOMAIN WorkLeft : WorkLeft'[i] >= 0
  BY <1>1
<1>3. LessWork(WorkLeft', WorkLeft)
  BY <1>1 DEF LessWork
<1> QED
  BY <1>2, <1>3 DEF Shortens

\* The call goes on: its rounds and its policy are the same.
GoesOn == /\ problem' = problem /\ round' = round
          /\ status \notin Outcomes /\ status' \notin Outcomes

(* A call that ends.                                                        *)
LEMMA EndShortens ==
  ASSUME WorkIsNatural, WorkIsNatural', status \notin Outcomes, status' \in Outcomes
  PROVE  Shortens
<1>1. WorkLeft'[1] < WorkLeft[1]
  BY DEF WorkLeft
<1> QED
  BY <1>1, ShorterAt

(* Refusing ends the call.                                                  *)
LEMMA RefuseShortens == RouterInv /\ Refuse /\ WorkIsNatural /\ WorkIsNatural' => Shortens
<1> SUFFICES ASSUME RouterInv, Refuse, WorkIsNatural, WorkIsNatural'
             PROVE  Shortens
  OBVIOUS
<1>1. status = "preparing" /\ status' \in PreparationErrors(GridOf(round, regions))
  BY DEF Refuse
<1>2. status \notin Outcomes /\ status' \in Outcomes
  BY <1>1 DEF PreparationErrors, PairSelectionErrors, Outcomes, Refusals
<1> QED
  BY <1>2, EndShortens

(* Completing ends the call.                                                *)
LEMMA CompleteShortens == RouterInv /\ Complete /\ WorkIsNatural /\ WorkIsNatural' => Shortens
<1> SUFFICES ASSUME RouterInv, Complete, WorkIsNatural, WorkIsNatural'
             PROVE  Shortens
  OBVIOUS
<1>1. status \notin Outcomes /\ status' \in Outcomes
  BY DEF Complete, PassEnds, Outcomes, Refusals
<1> QED
  BY <1>1, EndShortens

(* Giving up after the last pass ends the call.                             *)
LEMMA IterationLimitShortens == RouterInv /\ IterationLimit /\ WorkIsNatural /\ WorkIsNatural' => Shortens
<1> SUFFICES ASSUME RouterInv, IterationLimit, WorkIsNatural, WorkIsNatural'
             PROVE  Shortens
  OBVIOUS
<1>1. status \notin Outcomes /\ status' \in Outcomes
  BY DEF IterationLimit, LastPassFails, PassEnds, Outcomes, Refusals
<1> QED
  BY <1>1, EndShortens

(* Going on to a finer grid uses up a round, or the call ends.              *)
LEMMA NextRoundShortens == RouterInv /\ NextRound /\ WorkIsNatural /\ WorkIsNatural' => Shortens
<1> SUFFICES ASSUME RouterInv, NextRound, WorkIsNatural, WorkIsNatural'
             PROVE  Shortens
  OBVIOUS
<1>1. PICK proposed \in {Proposed} :
        /\ status' = AdaptiveStatus(proposed)
        /\ IF status' = "preparing"
           THEN regions' = proposed /\ round' = round + 1
           ELSE UNCHANGED <<regions, round>>
  BY Zenon DEF NextRound
<1>2. status = "passing" /\ problem' = problem
  BY DEF NextRound, LastPassFails, PassEnds
<1>3. status \notin Outcomes
  BY <1>2 DEF Outcomes, Refusals
<1>4. status' \in {"RegionLimit", "NoProgress", "RefinementLimit", "preparing"}
  BY <1>1 DEF AdaptiveStatus
<1>5. CASE status' # "preparing"
  <2>1. status' \in Outcomes
    BY <1>4, <1>5 DEF Outcomes
  <2> QED
    BY <1>3, <2>1, EndShortens
<1>6. CASE status' = "preparing"
  <2>1. round' = round + 1 /\ policy' = policy /\ status' \notin Outcomes
    BY <1>1, <1>2, <1>6, CallStays DEF Outcomes, Refusals
  <2>2. WorkLeft'[1] = WorkLeft[1]
    BY <1>3, <2>1 DEF WorkLeft
  <2>3. round \in Nat /\ policy.maximumRounds \in Nat
    BY ProblemFacts DEF IsPolicy, RouterInv, CallInv
  <2>4. WorkLeft'[2] < WorkLeft[2]
    <3>1. WorkLeft[2] = policy.maximumRounds - round /\ WorkLeft'[2] = policy'.maximumRounds - round'
      BY DEF WorkLeft
    <3> QED
      BY <2>1, <2>3, <3>1
  <2>5. \A j \in 1 .. (2 - 1) : j = 1
    OBVIOUS
  <2> QED
    BY <2>2, <2>4, <2>5, ShorterAt
<1> QED
  BY <1>5, <1>6

(* Preparing a round is done once in it.                                    *)
LEMMA PrepareShortens == RouterInv /\ Prepare /\ WorkIsNatural /\ WorkIsNatural' => Shortens
<1> SUFFICES ASSUME RouterInv, Prepare, WorkIsNatural, WorkIsNatural'
             PROVE  Shortens
  OBVIOUS
<1>1. status = "preparing" /\ status' = "passing" /\ policy' = policy /\ round' = round
  BY PrepareKeeps, CallStays
<1>2. WorkLeft'[1] = WorkLeft[1] /\ WorkLeft'[2] = WorkLeft[2] /\ WorkLeft'[3] < WorkLeft[3]
  BY <1>1 DEF WorkLeft, Outcomes, Refusals
<1>3. \A j \in 1 .. (3 - 1) : j = 1 \/ j = 2
  OBVIOUS
<1> QED
  BY <1>2, <1>3, ShorterAt

(* The outer bounds stay while a round's passes go on.                      *)
LEMMA RoundStays ==
  ASSUME problem' = problem, round' = round,
         status \in {"passing", "searching"}, status' \in {"passing", "searching"}
  PROVE  /\ policy' = policy
         /\ WorkLeft'[1] = WorkLeft[1] /\ WorkLeft'[2] = WorkLeft[2] /\ WorkLeft'[3] = WorkLeft[3]
<1>1. policy' = policy
  BY CallStays
<1>2. status \notin Outcomes /\ status' \notin Outcomes
  BY DEF Outcomes, Refusals
<1> QED
  BY <1>1, <1>2 DEF WorkLeft

(* Repeating a pass uses up an iteration.                                   *)
LEMMA RepeatShortens == RouterInv /\ Repeat /\ WorkIsNatural /\ WorkIsNatural' => Shortens
<1> SUFFICES ASSUME RouterInv, Repeat, WorkIsNatural, WorkIsNatural'
             PROVE  Shortens
  OBVIOUS
<1>1. /\ status = "passing" /\ status' = "passing" /\ UNCHANGED <<problem, round>>
      /\ iteration' = iteration + 1
  BY RepeatKeeps
<1>2. /\ policy' = policy
      /\ WorkLeft'[1] = WorkLeft[1] /\ WorkLeft'[2] = WorkLeft[2] /\ WorkLeft'[3] = WorkLeft[3]
  BY <1>1, RoundStays
<1>3. iteration \in Nat /\ policy.maximumIterations \in Nat
  BY ProblemFacts DEF IsPolicy, RouterInv, CallInv, PassInv
<1>4. WorkLeft'[4] < WorkLeft[4]
  <2>1. WorkLeft[4] = policy.maximumIterations - iteration /\ WorkLeft'[4] = policy'.maximumIterations - iteration'
    BY DEF WorkLeft
  <2> QED
    BY <1>1, <1>2, <1>3, <2>1
<1>5. \A j \in 1 .. (4 - 1) : j = 1 \/ j = 2 \/ j = 3
  OBVIOUS
<1> QED
  BY <1>2, <1>4, <1>5, ShorterAt

(* A bundle is done with: one fewer is pending.                             *)
LEMMA BundleShortens ==
  ASSUME RouterInv, WorkIsNatural, WorkIsNatural', status \in {"passing", "searching"}, pending # <<>>,
         pending' = Tail(pending), status' = "passing", UNCHANGED <<problem, round, iteration>>
  PROVE  Shortens
<1>1. /\ policy' = policy
      /\ WorkLeft'[1] = WorkLeft[1] /\ WorkLeft'[2] = WorkLeft[2] /\ WorkLeft'[3] = WorkLeft[3]
  BY RoundStays
<1>2. WorkLeft'[4] = WorkLeft[4]
  BY <1>1 DEF WorkLeft
<1>3. WorkLeft'[5] < WorkLeft[5]
  <2>1. WorkLeft[5] = Len(pending) /\ WorkLeft'[5] = Len(pending')
    BY DEF WorkLeft
  <2>2. Len(Tail(pending)) = Len(pending) - 1 /\ Len(pending) \in Nat
    BY BundleFacts
  <2> QED
    BY <2>1, <2>2
<1>4. \A j \in 1 .. (5 - 1) : j = 1 \/ j = 2 \/ j = 3 \/ j = 4
  OBVIOUS
<1> QED
  BY <1>1, <1>2, <1>3, <1>4, ShorterAt

(* While a bundle's search goes on, the bounds of the pass stay.            *)
LEMMA PassStays ==
  ASSUME PassGoesOn, status \in {"passing", "searching"}, status' \in {"passing", "searching"}
  PROVE  /\ policy' = policy /\ pending' = pending /\ Bundle' = Bundle
         /\ \A j \in 1 .. 5 : WorkLeft'[j] = WorkLeft[j]
<1>1. /\ policy' = policy
      /\ WorkLeft'[1] = WorkLeft[1] /\ WorkLeft'[2] = WorkLeft[2] /\ WorkLeft'[3] = WorkLeft[3]
  BY RoundStays DEF PassGoesOn
<1>2. WorkLeft'[4] = WorkLeft[4] /\ WorkLeft'[5] = WorkLeft[5]
  BY <1>1 DEF WorkLeft, PassGoesOn
<1>3. \A j \in 1 .. 5 : j = 1 \/ j = 2 \/ j = 3 \/ j = 4 \/ j = 5
  OBVIOUS
<1> QED
  BY <1>1, <1>2, <1>3 DEF PassGoesOn, Bundle

(* Starting a bundle's search leaves the bundle started.                    *)
LEMMA StartBundleShortens == RouterInv /\ StartBundle /\ WorkIsNatural /\ WorkIsNatural' => Shortens
<1> SUFFICES ASSUME RouterInv, StartBundle, WorkIsNatural, WorkIsNatural'
             PROVE  Shortens
  OBVIOUS
<1>1. PassGoesOn /\ status = "passing" /\ status' = "searching"
  BY StartBundleKeeps
<1>2. \A j \in 1 .. 5 : WorkLeft'[j] = WorkLeft[j]
  BY <1>1, PassStays
<1>3. WorkLeft'[6] < WorkLeft[6]
  BY <1>1 DEF WorkLeft
<1> QED
  BY <1>2, <1>3, ShorterAt

(* Arriving leaves one place fewer to reach.                                *)
LEMMA ConnectShortens ==
  ASSUME RouterInv, WorkIsNatural, WorkIsNatural', status = "searching", NEW top \in queue, Connect(top)
  PROVE  Shortens
<1>1. PassGoesOn /\ status' = "searching" /\ Len(paths') = Len(paths) + 1
  BY ConnectKeeps
<1>2. pending' = pending /\ Bundle' = Bundle /\ \A j \in 1 .. 5 : WorkLeft'[j] = WorkLeft[j]
  BY <1>1, PassStays
<1>3. WorkLeft'[6] = WorkLeft[6]
  BY <1>1 DEF WorkLeft
<1>4. pending # <<>> /\ Len(paths) \in Nat
  BY DEF RouterInv, SearchInv, Searching, AreWays
<1>5. WorkLeft'[7] < WorkLeft[7]
  <2>1. WorkLeft[7] = Len(Bundle.places) - Len(paths) /\ WorkLeft'[7] = Len(Bundle'.places) - Len(paths')
    BY <1>2, <1>4 DEF WorkLeft
  <2>2. Len(Bundle.places) \in Nat
    BY <1>4, PlacesFacts
  <2> QED
    BY <1>1, <1>2, <1>4, <2>1, <2>2
<1>6. \A j \in 1 .. (7 - 1) : j \in 1 .. 5 \/ j = 6
  OBVIOUS
<1> QED
  BY <1>2, <1>3, <1>5, <1>6, ShorterAt

(* While a search goes on, so do the places still to reach.                 *)
LEMMA PlacesStay ==
  ASSUME PassGoesOn, status = "searching", status' = "searching", paths' = paths
  PROVE  \A j \in 1 .. 7 : WorkLeft'[j] = WorkLeft[j]
<1>1. pending' = pending /\ Bundle' = Bundle /\ \A j \in 1 .. 5 : WorkLeft'[j] = WorkLeft[j]
  BY PassStays
<1>2. WorkLeft'[6] = WorkLeft[6]
  BY DEF WorkLeft
<1>3. WorkLeft'[7] = WorkLeft[7]
  BY <1>1 DEF WorkLeft
<1>4. \A j \in 1 .. 7 : j \in 1 .. 5 \/ j = 6 \/ j = 7
  OBVIOUS
<1> QED
  BY <1>1, <1>2, <1>3, <1>4

(* Expanding a state uses up an expansion.                                  *)
LEMMA ExpandShortens ==
  ASSUME RouterInv, WorkIsNatural, WorkIsNatural', status = "searching", NEW top \in queue, Expand(top)
  PROVE  Shortens
<1>1. PassGoesOn /\ status' = "searching" /\ paths' = paths /\ expanded' = expanded + 1
  BY ExpandKeeps
<1>2. policy' = policy /\ \A j \in 1 .. 7 : WorkLeft'[j] = WorkLeft[j]
  BY <1>1, PassStays, PlacesStay
<1>3. WorkLeft'[8] < WorkLeft[8]
  <2>1. WorkLeft[8] = policy.maximumExpansions - expanded /\ WorkLeft'[8] = policy'.maximumExpansions - expanded'
    BY DEF WorkLeft
  <2>2. expanded \in Nat /\ policy.maximumExpansions \in Nat
    BY ProblemFacts DEF IsPolicy, RouterInv, CallInv, SearchInv, Searching
  <2> QED
    BY <1>1, <1>2, <2>1, <2>2
<1> QED
  BY <1>2, <1>3, ShorterAt

(* Dropping an entry leaves one fewer in the queue.                         *)
LEMMA DropStaleShortens ==
  ASSUME RouterInv, WorkIsNatural, WorkIsNatural', status = "searching", NEW top \in queue, DropStale(top)
  PROVE  Shortens
<1>1. PassGoesOn /\ status' = "searching" /\ paths' = paths /\ expanded' = expanded /\ queue' = queue \ {top}
  BY DropStaleKeeps
<1>2. policy' = policy /\ \A j \in 1 .. 7 : WorkLeft'[j] = WorkLeft[j]
  BY <1>1, PassStays, PlacesStay
<1>3. WorkLeft'[8] = WorkLeft[8]
  BY <1>1, <1>2 DEF WorkLeft
<1>4. WorkLeft'[9] < WorkLeft[9]
  <2>1. WorkLeft[9] = Cardinality(queue) /\ WorkLeft'[9] = Cardinality(queue')
    BY DEF WorkLeft
  <2>2. IsFiniteSet(queue)
    BY DEF RouterInv, SearchInv, Searching
  <2>3. Cardinality(queue \ {top}) = Cardinality(queue) - 1 /\ Cardinality(queue) \in Nat
    BY <2>2, FS_RemoveElement, FS_CardinalityType
  <2> QED
    BY <1>1, <2>1, <2>3
<1>5. \A j \in 1 .. (9 - 1) : j \in 1 .. 7 \/ j = 8
  OBVIOUS
<1> QED
  BY <1>2, <1>3, <1>4, <1>5, ShorterAt

(* However the nets fight over the board, every step of a call uses up one  *)
(* of the bounds of the policy, in the order in which they nest, and none   *)
(* goes below zero.                                                         *)
THEOREM StepsShorten == RouterSpec => EveryStepShortens
<1>1. RouterSpec => []RouterInv
  BY RouterInvHolds
<1>2. RouterInv => WorkIsNatural
  BY WorkCounts
<1>3. RouterInv /\ WorkIsNatural /\ WorkIsNatural' /\ [RouterNext]_routerVars => [Shortens]_routerVars
  <2> SUFFICES ASSUME RouterInv, WorkIsNatural, WorkIsNatural', RouterNext
               PROVE  Shortens \/ UNCHANGED routerVars
    OBVIOUS
  <2>1. CASE Refuse
    BY <2>1, RefuseShortens
  <2>2. CASE Prepare
    BY <2>2, PrepareShortens
  <2>3. CASE OffGrid
    BY <2>3, OffGridKeeps, BundleShortens DEF Fails
  <2>4. CASE StartBundle
    BY <2>4, StartBundleShortens
  <2>5. CASE SearchStep
    <3>1. CASE NoPath
      BY <3>1, NoPathKeeps, BundleShortens DEF Fails
    <3>2. ASSUME status = "searching", NEW top \in queue, SearchTooLong(top)
          PROVE  Shortens
      BY <3>2, SearchTooLongKeeps, BundleShortens DEF Fails
    <3>3. ASSUME status = "searching", NEW top \in queue, FinishBundle(top)
          PROVE  Shortens
      BY <3>3, FinishBundleKeeps, BundleShortens DEF Finishes
    <3> QED
      BY <2>5, <3>1, <3>2, <3>3, DropStaleShortens, ExpandShortens, ConnectShortens DEF SearchStep
  <2>6. CASE Complete
    BY <2>6, CompleteShortens
  <2>7. CASE Repeat
    BY <2>7, RepeatShortens
  <2>8. CASE IterationLimit
    BY <2>8, IterationLimitShortens
  <2>9. CASE NextRound
    BY <2>9, NextRoundShortens
  <2>10. CASE Returned
    BY <2>10 DEF Returned
  <2> QED
    BY <2>1, <2>2, <2>3, <2>4, <2>5, <2>6, <2>7, <2>8, <2>9, <2>10 DEF RouterNext
<1>4. [Shortens]_routerVars
        => [/\ LessWork(WorkLeft', WorkLeft)
            /\ \A i \in DOMAIN WorkLeft : WorkLeft'[i] >= 0]_routerVars
  BY Zenon DEF Shortens
<1> QED
  BY <1>1, <1>2, <1>3, <1>4, PTL DEF RouterSpec, EveryStepShortens

-----------------------------------------------------------------------------
(* The regions of the rounds                                                *)

\* What RegionsTile says of a step.
Tiles ==
  round' # round =>
    /\ \A r, s \in regions' : r = s \/ ~Overlap(r, s)
    /\ \A p \in (0..problem.board.width) \X (0..problem.board.height) :
         (\E r \in regions : Within(r, p)) => \E r \in regions' : Within(r, p)
    /\ \A h \in Hotspots : OnBoard(h) => \E r \in regions' : Overlap(h, r)

(* The regions proposed for the next round tile what they have to.          *)
LEMMA ProposedTiles ==
  ASSUME RouterInv
  PROVE  /\ \A r, s \in Proposed : r = s \/ ~Overlap(r, s)
         /\ \A p \in (0..problem.board.width) \X (0..problem.board.height) :
              (\E r \in regions : Within(r, p)) => \E r \in Proposed : Within(r, p)
         /\ \A h \in Hotspots : OnBoard(h) => \E r \in Proposed : Overlap(h, r)
<1>1. problem \in Problems /\ RoutesAreGood(grid) /\ FailuresAreFinite /\ regions \in BoxSets
  BY DEF RouterInv, CallInv, PassInv
<1>2. PICK called \in BoxSets :
        /\ \A h \in Hotspots : RegionsFor(problem.board, policy.multiplier, policy.padding, h) \subseteq called
        /\ IsMerge(Proposed, regions \cup called)
  BY <1>1, ProposedIsMerge
<1>3. \A r, s \in Proposed : r = s \/ ~Overlap(r, s)
  BY <1>2 DEF IsMerge, Tidy
<1>4. Proposed \in SUBSET Areas /\ regions \in SUBSET Areas /\ called \in SUBSET Areas
  BY <1>1, <1>2 DEF IsMerge, BoxSets
<1>5. ASSUME NEW p \in (0..problem.board.width) \X (0..problem.board.height),
             NEW r \in regions, Within(r, p)
      PROVE  \E m \in Proposed : Within(m, p)
  <2>1. PICK m \in Proposed : Holds(m, r)
    BY <1>2 DEF IsMerge
  <2>2. p \in Int \X Int
    BY <1>1, ProblemFacts DEF IsBoard
  <2>3. m \in Areas /\ r \in Areas
    BY <1>4
  <2>4. Within(m, p)
    BY <1>5, <2>1, <2>2, <2>3 DEF Holds, Within, Areas, Boxes
  <2> QED
    BY <2>4
<1>6. ASSUME NEW h \in Hotspots, OnBoard(h)
      PROVE  \E m \in Proposed : Overlap(h, m)
  <2>1. h \in Areas
    BY <1>1, HotspotsAreAreas DEF BoxSets
  <2>2. IsBoard(problem.board) /\ policy.multiplier \in Nat \ {0} /\ policy.padding \in Nat \ {0}
    BY <1>1, ProblemFacts DEF IsPolicy
  <2>3. problem.board.width > 0 /\ problem.board.height > 0 /\ Overlap(h, BoardBox(problem.board))
    BY <1>6 DEF OnBoard, BoardBox
  <2>4. PICK r \in RegionsFor(problem.board, policy.multiplier, policy.padding, h) : Overlap(h, r)
    BY <2>1, <2>2, <2>3, RegionsForFacts
  <2>5. r \in called
    BY <1>2, <2>4
  <2>6. PICK m \in Proposed : Holds(m, r)
    BY <1>2, <2>5 DEF IsMerge
  <2>7. m \in Areas /\ r \in Areas
    BY <1>4, <2>5
  <2>8. Overlap(h, m)
    BY <2>1, <2>4, <2>6, <2>7 DEF Holds, Within, Overlap, Areas, Boxes
  <2> QED
    BY <2>8
<1> QED
  BY <1>3, <1>5, <1>6

(* The regions a round is given lie apart from each other, keep what        *)
(* earlier rounds refined, and refine what the last pass left conflicted or *)
(* unrouted on the board.                                                   *)
THEOREM RoundsTile == RouterSpec => RegionsTile
<1>1. RouterSpec => []RouterInv
  BY RouterInvHolds
<1>2. RouterInv /\ [RouterNext]_routerVars => [Tiles]_routerVars
  <2> SUFFICES ASSUME RouterInv, RouterNext, round' # round
               PROVE  Tiles
    BY DEF Tiles, routerVars, callVars
  <2>1. NextRound
    BY DEF RouterNext, Refuse, Prepare, OffGrid, StartBundle, SearchStep, NoPath, FailBundle, DropStale,
           SearchTooLong, Expand, Connect, FinishBundle, Complete, Repeat, IterationLimit, Returned,
           callVars, routerVars
  <2>2. regions' = Proposed
    BY <2>1, Zenon DEF NextRound
  <2> QED
    BY <2>2, ProposedTiles DEF Tiles
<1>3. [Tiles]_routerVars
        => [round' # round =>
              /\ \A r, s \in regions' : r = s \/ ~Overlap(r, s)
              /\ \A p \in (0..problem.board.width) \X (0..problem.board.height) :
                   (\E r \in regions : Within(r, p)) =>
                     \E r \in regions' : Within(r, p)
              /\ \A h \in Hotspots : OnBoard(h) =>
                   \E r \in regions' : Overlap(h, r)]_routerVars
  BY Zenon DEF Tiles
<1> QED
  BY <1>1, <1>2, <1>3, PTL DEF RouterSpec, RegionsTile

-----------------------------------------------------------------------------
(* A complete routing                                                       *)

\* An edge of one of some paths.
AlongPaths(e, ps) == \E k \in 1 .. Len(ps) : \E i \in 1 .. (Len(ps[k]) - 1) : e = <<ps[k][i], ps[k][i + 1]>>

(* The nodes and the edges of a route, and those along its paths.           *)
LEMMA RouteParts ==
  ASSUME NEW g, NEW n, GoodRoute(routes[n], n, g)
  PROVE  /\ Len(routes[n].paths) \in Nat
         /\ \A k \in 1 .. Len(routes[n].paths) : LegalPath(routes[n].paths[k], n)
         /\ \A p : p \in NodesOf(n) <=> \E k \in 1 .. Len(routes[n].paths) : OnPath(p, routes[n].paths[k])
         /\ \A e : e \in EdgesOf(n) <=> AlongPaths(e, routes[n].paths)
<1> DEFINE ps == routes[n].paths
<1>1. ps \in Seq(Seq(Points)) /\ \A k \in 1 .. Len(ps) : LegalPath(ps[k], n)
  BY DEF GoodRoute
<1>2. NodesOf(n) = UNION {Range(ps[k]) : k \in DOMAIN ps} /\ EdgesOf(n) = UNION {PathEdges(ps[k]) : k \in DOMAIN ps}
  BY DEF NodesOf, EdgesOf
<1> HIDE DEF ps
<1>3. DOMAIN ps = 1 .. Len(ps) /\ Len(ps) \in Nat
  BY <1>1
<1>4. ASSUME NEW k \in 1 .. Len(ps)
      PROVE  \A p : p \in Range(ps[k]) <=> OnPath(p, ps[k])
  <2>1. ps[k] \in Seq(Points)
    BY <1>1 DEF LegalPath
  <2>2. DOMAIN ps[k] = 1 .. Len(ps[k])
    BY <2>1
  <2> QED
    BY <2>2 DEF Range, OnPath
<1>5. \A p : p \in NodesOf(n) <=> \E k \in 1 .. Len(ps) : OnPath(p, ps[k])
  BY <1>2, <1>3, <1>4
<1>6. \A e : e \in EdgesOf(n) <=> AlongPaths(e, ps)
  BY <1>2, <1>3 DEF PathEdges, AlongPaths
<1> QED
  BY <1>1, <1>3, <1>5, <1>6 DEF ps

(* A part of a net's nodes that its edges join has all of a path or none.   *)
LEMMA PathInPart ==
  ASSUME NEW path, NEW S, path \in Seq(S), NEW part,
         \A i \in 1 .. (Len(path) - 1) : path[i] \in part <=> path[i + 1] \in part,
         NEW p, OnPath(p, path), p \in part
  PROVE  \A q : OnPath(q, path) => q \in part
<1> DEFINE odd == {i \in 1 .. Len(path) : ~(path[i] \in part <=> path[1] \in part)}
<1>1. Len(path) \in Nat
  OBVIOUS
<1>2. odd = {}
  <2> SUFFICES ASSUME odd # {}
               PROVE  FALSE
    OBVIOUS
  <2>1. odd \subseteq Nat
    OBVIOUS
  <2>2. PICK i \in odd : \A j \in odd : i <= j
    BY <2>1, LeastNatural
  <2>3. i \in Nat /\ i >= 1 /\ i <= Len(path) /\ i # 1
    BY <1>1, <2>2
  <2>4. PICK k \in Nat : k + 1 = i
    <3>1. i - 1 \in Nat /\ (i - 1) + 1 = i
      BY <2>3
    <3> QED
      BY <3>1
  <2>5. k \in 1 .. (Len(path) - 1) /\ k < i
    BY <1>1, <2>3, <2>4
  <2>6. k \notin odd
    BY <2>2, <2>4, <2>5
  <2>7. path[k] \in part <=> path[1] \in part
    BY <2>5, <2>6, <1>1
  <2>8. path[k] \in part <=> path[i] \in part
    BY <2>4, <2>5
  <2> QED
    BY <2>2, <2>7, <2>8
<1> QED
  BY <1>2 DEF OnPath

(* A route joins every pad of its net in one piece, by legal edges.         *)
LEMMA RouteJoins ==
  ASSUME NEW n, GoodRoute(routes[n], n, grid)
  PROVE  /\ \A e \in EdgesOf(n) : Legal(n, e[1], e[2], Heading(e[1], e[2]))
         /\ \A pad \in PadsOf(n) : pad \cap NodesOf(n) # {}
         /\ IsOnePiece(n)
<1> DEFINE ps == routes[n].paths
<1>1. /\ Len(ps) \in Nat
      /\ \A k \in 1 .. Len(ps) : LegalPath(ps[k], n)
      /\ \A p : p \in NodesOf(n) <=> \E k \in 1 .. Len(ps) : OnPath(p, ps[k])
      /\ \A e : e \in EdgesOf(n) <=> AlongPaths(e, ps)
  BY RouteParts
<1>2. PadsOf(n) = PadsAt(n, grid)
  BY DEF PadsOf, PadsAt
<1>3. /\ \A pad \in PadsOf(n) : MeetsPad(ps, pad)
      /\ \E pad \in PadsOf(n) : Grows(ps, pad)
  BY <1>2 DEF GoodRoute
<1> HIDE DEF ps
<1>4. ASSUME NEW e \in EdgesOf(n)
      PROVE  Legal(n, e[1], e[2], Heading(e[1], e[2]))
  <2>1. PICK k \in 1 .. Len(ps) : \E i \in 1 .. (Len(ps[k]) - 1) : e = <<ps[k][i], ps[k][i + 1]>>
    BY <1>1 DEF AlongPaths
  <2>2. PICK i \in 1 .. (Len(ps[k]) - 1) : e = <<ps[k][i], ps[k][i + 1]>>
    BY <2>1
  <2>3. Legal(n, ps[k][i], ps[k][i + 1], Heading(ps[k][i], ps[k][i + 1]))
    BY <1>1, <2>2 DEF LegalPath
  <2>4. e[1] = ps[k][i] /\ e[2] = ps[k][i + 1]
    BY <2>2
  <2> QED
    BY <2>3, <2>4
<1>5. \A pad \in PadsOf(n) : pad \cap NodesOf(n) # {}
  BY <1>1, <1>3 DEF MeetsPad
<1>6. ASSUME NEW part \in (SUBSET NodesOf(n)) \ {{}},
             \A e \in EdgesOf(n) : e[1] \in part <=> e[2] \in part,
             \A pad \in PadsOf(n) : part \cap pad # {} => pad \cap NodesOf(n) \subseteq part
      PROVE  part = NodesOf(n)
  <2>1. ASSUME NEW k \in 1 .. Len(ps), NEW p \in part, OnPath(p, ps[k])
        PROVE  \A q : OnPath(q, ps[k]) => q \in part
    <3>1. ps[k] \in Seq(Points)
      BY <1>1 DEF LegalPath
    <3>2. ASSUME NEW i \in 1 .. (Len(ps[k]) - 1)
          PROVE  ps[k][i] \in part <=> ps[k][i + 1] \in part
      <4> DEFINE e == <<ps[k][i], ps[k][i + 1]>>
      <4>1. e \in EdgesOf(n) /\ e[1] = ps[k][i] /\ e[2] = ps[k][i + 1]
        BY <1>1 DEF AlongPaths
      <4> HIDE DEF e
      <4> QED
        BY <1>6, <4>1
    <3> QED
      BY <2>1, <3>1, <3>2, PathInPart
  <2>2. PICK pad \in PadsOf(n) : Grows(ps, pad)
    BY <1>3
  <2>3. \A k \in 1 .. Len(ps) : OnPath(ps[k][1], ps[k])
    <3>1. \A k \in 1 .. Len(ps) : Len(ps[k]) \in Nat /\ Len(ps[k]) >= 1
      BY <1>1 DEF LegalPath
    <3> QED
      BY <3>1 DEF OnPath
  <2> DEFINE met == {k \in 1 .. Len(ps) : \E p \in part : OnPath(p, ps[k])}
  <2>4. PICK k \in met : \A j \in met : k <= j
    <3>1. met \subseteq Nat
      BY <1>1
    <3>2. met # {}
      BY <1>1, <1>6
    <3> QED
      BY <3>1, <3>2, LeastNatural
  <2>5. k \in 1 .. Len(ps) /\ ps[k][1] \in part
    BY <2>1, <2>3, <2>4
  <2>6. ps[k][1] \in pad
    <3>1. ASSUME NEW j \in 1 .. (k - 1), OnPath(ps[k][1], ps[j])
          PROVE  FALSE
      <4>1. j \in met
        BY <1>1, <2>5, <3>1
      <4> QED
        BY <2>4, <2>5, <3>1, <4>1, <1>1
    <3> QED
      BY <2>2, <2>5, <3>1 DEF Grows
  <2>7. pad \cap NodesOf(n) \subseteq part
    BY <1>6, <2>2, <2>5, <2>6
  <2> DEFINE out == {j \in 1 .. Len(ps) : ps[j][1] \notin part}
  <2>8. out = {}
    <3> SUFFICES ASSUME out # {}
                 PROVE  FALSE
      OBVIOUS
    <3>1. out \subseteq Nat
      BY <1>1
    <3>2. PICK j \in out : \A i \in out : j <= i
      BY <3>1, LeastNatural
    <3>3. j \in 1 .. Len(ps) /\ ps[j][1] \notin part
      BY <3>2
    <3>4. ps[j][1] \in NodesOf(n)
      BY <1>1, <2>3, <3>3
    <3>5. ps[j][1] \notin pad
      BY <2>7, <3>3, <3>4
    <3>6. PICK i \in 1 .. (j - 1) : OnPath(ps[j][1], ps[i])
      BY <2>2, <3>3, <3>5 DEF Grows
    <3>7. i \in 1 .. Len(ps) /\ i < j
      BY <1>1, <3>3, <3>6
    <3>8. ps[i][1] \in part
      BY <3>2, <3>7
    <3> QED
      BY <2>1, <2>3, <3>3, <3>6, <3>7, <3>8
  <2>9. \A j \in 1 .. Len(ps) : \A q : OnPath(q, ps[j]) => q \in part
    BY <2>1, <2>3, <2>8
  <2> QED
    BY <1>1, <1>6, <2>9
<1>7. IsOnePiece(n)
  BY <1>6, Zenon DEF IsOnePiece
<1> QED
  BY <1>4, <1>5, <1>7

(* Edges meet each other.                                                   *)
LEMMA MeetEachOther ==
  ASSUME NEW e, NEW f, Meet(e, f)
  PROVE  Meet(f, e)
BY Zenon DEF Meet

(* Without a conflict no node is shared, and no edges of nets that are not  *)
(* a pair meet.                                                             *)
LEMMA NoConflict ==
  ASSUME RoutesAreGood(grid), problem \in Problems, Conflicts = {},
         NEW m \in DOMAIN routes, NEW n \in DOMAIN routes, m # n
  PROVE  /\ NodesOf(m) \cap NodesOf(n) = {}
         /\ ~ArePaired(m, n) => \A e \in PlanarEdges(m), f \in PlanarEdges(n) : ~Meet(e, f)
<1>1. GoodRoute(routes[m], m, grid) /\ GoodRoute(routes[n], n, grid) /\ IsFiniteSet(DOMAIN routes)
  BY DEF RoutesAreGood
<1>2. ASSUME NEW p \in NodesOf(m), p \in NodesOf(n)
      PROVE  FALSE
  <2>1. NodeOf(p) \in routes[m].resources /\ NodeOf(p) \in routes[n].resources
    BY <1>1, <1>2, RouteParts DEF GoodRoute, Occupies
  <2> DEFINE S == Users(NodeOf(p))
  <2>2. m \in S /\ n \in S /\ S \subseteq DOMAIN routes
    BY <2>1 DEF Users
  <2>3. NodeOf(p) \in UNION {routes[k].resources : k \in DOMAIN routes}
    BY <2>1
  <2> HIDE DEF S
  <2>4. IsFiniteSet(S)
    BY <1>1, <2>2, FS_Subset
  <2>5. Cardinality(S) > 1
    <3>1. Cardinality({m, n}) = 2
      <4>1. IsFiniteSet({m}) /\ Cardinality({m}) = 1
        BY FS_Singleton
      <4>2. Cardinality({m} \cup {n}) = Cardinality({m}) + 1
        BY <4>1, FS_AddElement
      <4>3. {m} \cup {n} = {m, n}
        OBVIOUS
      <4> QED
        BY <4>1, <4>2, <4>3
    <3>2. Cardinality({m, n}) <= Cardinality(S)
      BY <2>2, <2>4, FS_Subset
    <3>3. Cardinality(S) \in Nat
      BY <2>4, FS_CardinalityType
    <3> QED
      BY <3>1, <3>2, <3>3
  <2> QED
    BY <2>3, <2>5 DEF Conflicts, S
<1>3. ASSUME NEW i \in DOMAIN routes, NEW j \in DOMAIN routes, i < j, ~ArePaired(i, j),
             NEW e \in PlanarEdges(i), NEW f \in PlanarEdges(j), Meet(e, f)
      PROVE  FALSE
  <2> DEFINE near(q) == {p \in PlanarEdges(q[1]) \X PlanarEdges(q[2]) : Meet(p[1], p[2])}
             twos == {q \in (DOMAIN routes) \X (DOMAIN routes) : q[1] < q[2] /\ ~ArePaired(q[1], q[2])}
             one == <<i, j>>
             both == <<e, f>>
  <2>1. one \in twos /\ both \in near(one)
    BY <1>3
  <2>2. TooClose = UNION {near(q) : q \in twos}
    BY DEF TooClose
  <2> HIDE DEF near, twos, one
  <2>3. both \in TooClose
    BY <2>1, <2>2
  <2> HIDE DEF both
  <2>4. Transition(both[1][1], both[1][2]) \in Conflicts
    BY <2>3 DEF Conflicts
  <2> QED
    BY <2>4
<1>4. m \in Nat /\ n \in Nat
  <2>1. m \in TerminalNets /\ n \in TerminalNets
    BY DEF RoutesAreGood
  <2>2. \A k \in TerminalNets : k \in Nat
    BY ProblemFacts DEF TerminalNets
  <2> QED
    BY <2>1, <2>2
<1>5. ASSUME ~ArePaired(m, n), NEW e \in PlanarEdges(m), NEW f \in PlanarEdges(n), Meet(e, f)
      PROVE  FALSE
  <2>1. CASE m < n
    BY <1>3, <1>5, <2>1
  <2>2. CASE n < m
    <3>1. ~ArePaired(n, m)
      <4>1. {n, m} = {m, n}
        OBVIOUS
      <4> QED
        BY <1>5, <4>1 DEF ArePaired
    <3> QED
      BY <1>3, <1>5, <2>2, <3>1, MeetEachOther
  <2> QED
    BY <1>4, <2>1, <2>2
<1> QED
  BY <1>2, <1>5

(* A complete routing joins every terminal of every selected net by moves   *)
(* that are legal for the net, no two nets share a node, and no two have    *)
(* edges that meet unless they are a pair.                                  *)
THEOREM RoutingIsComplete == RouterSpec => []CompleteIsRouted
<1>1. RouterInv => CompleteIsRouted
  <2> SUFFICES ASSUME RouterInv, status = "Complete"
               PROVE  /\ \A n \in Selected :
                         /\ n \in DOMAIN routes
                         /\ \A e \in EdgesOf(n) : Legal(n, e[1], e[2], Heading(e[1], e[2]))
                         /\ \A pad \in PadsOf(n) : pad \cap NodesOf(n) # {}
                         /\ IsOnePiece(n)
                      /\ \A m, n \in Selected : m # n =>
                           /\ NodesOf(m) \cap NodesOf(n) = {}
                           /\ ~ArePaired(m, n) =>
                                \A e \in PlanarEdges(m), f \in PlanarEdges(n) : ~Meet(e, f)
    BY Zenon DEF CompleteIsRouted
  <2>1. pending = <<>> /\ failures = {} /\ Conflicts = {}
    BY DEF RouterInv, Settled
  <2>2. \A n \in Selected : n \in DOMAIN routes
    <3>1. \A n \in Selected : ServedBy(n, pending, routes, failures)
      BY DEF RouterInv, Served
    <3>2. 1 .. Len(pending) = {}
      BY <2>1
    <3> QED
      BY <2>1, <3>1, <3>2 DEF ServedBy
  <2>3. RoutesAreGood(grid) /\ problem \in Problems
    BY DEF RouterInv, CallInv, PassInv
  <2>4. ASSUME NEW n \in Selected
        PROVE  /\ n \in DOMAIN routes
               /\ \A e \in EdgesOf(n) : Legal(n, e[1], e[2], Heading(e[1], e[2]))
               /\ \A pad \in PadsOf(n) : pad \cap NodesOf(n) # {}
               /\ IsOnePiece(n)
    BY <2>2, <2>3, RouteJoins DEF RoutesAreGood
  <2>5. ASSUME NEW m \in Selected, NEW n \in Selected, m # n
        PROVE  /\ NodesOf(m) \cap NodesOf(n) = {}
               /\ ~ArePaired(m, n) =>
                    \A e \in PlanarEdges(m), f \in PlanarEdges(n) : ~Meet(e, f)
    BY <2>1, <2>2, <2>3, <2>5, NoConflict, Zenon
  <2> QED
    BY <2>4, <2>5
<1> QED
  BY <1>1, RouterInvHolds, PTL

-----------------------------------------------------------------------------
(* No step costs less than it brings a bundle nearer                        *)

(* Products of what bounds two lengths bound their scalar product.          *)
LEMMA ScalarProduct ==
  ASSUME NEW p \in Nat, NEW q \in Nat, NEW r \in Nat, NEW s \in Nat, NEW n \in Nat, NEW m \in Nat,
         p * p + q * q <= n * n, r * r + s * s <= m * m
  PROVE  p * r + q * s <= n * m
<1> DEFINE big == (p * p + q * q) * (r * r + s * s)
           dot == p * r + q * s
           cross == p * s - q * r
<1>1. big = dot * dot + cross * cross
  OBVIOUS
<1>2. \A a, b, c, d \in Nat : a <= b /\ c <= d => a * c <= b * d
  <2> SUFFICES ASSUME NEW a \in Nat, NEW b \in Nat, NEW c \in Nat, NEW d \in Nat, a <= b, c <= d
               PROVE  a * c <= b * d
    OBVIOUS
  <2>1. PICK e \in Nat : b = a + e
    <3>1. b - a \in Nat /\ b = a + (b - a)
      OBVIOUS
    <3> QED BY <3>1
  <2>2. PICK f \in Nat : d = c + f
    <3>1. d - c \in Nat /\ d = c + (d - c)
      OBVIOUS
    <3> QED BY <3>1
  <2>3. b * d = a * c + (a * f + e * c + e * f)
    BY <2>1, <2>2
  <2>4. a * c \in Nat /\ a * f \in Nat /\ e * c \in Nat /\ e * f \in Nat
    OBVIOUS
  <2> QED BY <2>3, <2>4
<1>3. p * p + q * q \in Nat /\ r * r + s * s \in Nat /\ n * n \in Nat /\ m * m \in Nat
  OBVIOUS
<1>4. big <= (n * n) * (m * m)
  BY <1>2, <1>3, Zenon
<1>5. (n * n) * (m * m) = (n * m) * (n * m)
  OBVIOUS
<1>6. dot \in Nat /\ cross \in Int /\ n * m \in Nat
  <2>1. p * r \in Nat /\ q * s \in Nat /\ p * s \in Nat /\ q * r \in Nat /\ n * m \in Nat
    OBVIOUS
  <2> QED BY <2>1
<1>7. PICK x \in Nat : x = dot
  BY <1>6
<1>8. PICK z \in Int : z = cross
  BY <1>6
<1>9. PICK y \in Nat : y = n * m
  BY <1>6
<1>10. x * x + z * z <= y * y
  BY <1>1, <1>4, <1>5, <1>7, <1>8, <1>9
<1>11. z * z >= 0
  OBVIOUS
<1>12. x <= y
  <2> SUFFICES ASSUME y < x
               PROVE  FALSE
    OBVIOUS
  <2>1. PICK d \in Nat \ {0} : x = y + d
    <3>1. x - y \in Nat \ {0} /\ x = y + (x - y)
      OBVIOUS
    <3> QED BY <3>1
  <2>2. x * x = y * y + (2 * (y * d) + d * d)
    BY <2>1
  <2>3. y * d \in Nat /\ d * d \in Nat /\ d * d # 0 /\ y * y \in Nat /\ z * z \in Int
    OBVIOUS
  <2> QED
    BY <1>10, <1>11, <2>2, <2>3
<1> QED
  BY <1>7, <1>9, <1>12

(* A detour is no shorter.                                                  *)
LEMMA UnitsOfDetour ==
  ASSUME NEW a \in Points, NEW b \in Points, NEW c \in Points
  PROVE  Units(a, c) <= Units(a, b) + Units(b, c)
<1>1. \A u, v, w \in Int : /\ Distance(u, v) \in Nat
                           /\ Distance(u, w) <= Distance(u, v) + Distance(v, w)
  BY DEF Distance
<1>2. \A u \in Points : u.x \in Int /\ u.y \in Int
  BY DEF Points
<1>3. PICK p \in Nat, q \in Nat, r \in Nat, s \in Nat, t \in Nat, w \in Nat :
        /\ p = Distance(a.x, b.x) /\ q = Distance(a.y, b.y)
        /\ r = Distance(b.x, c.x) /\ s = Distance(b.y, c.y)
        /\ t = Distance(a.x, c.x) /\ w = Distance(a.y, c.y)
  BY <1>1, <1>2
<1>4. t <= p + r /\ w <= q + s
  BY <1>1, <1>2, <1>3
<1>5. PICK n \in Nat, m \in Nat : n = Units(a, b) /\ m = Units(b, c)
  BY UnitsFit
<1>6. p * p + q * q <= n * n /\ r * r + s * s <= m * m
  BY <1>3, <1>5, UnitsFit DEF Span
<1>7. p * r + q * s <= n * m
  BY <1>6, ScalarProduct
<1>8. \A e, f \in Nat : e <= f => e * e <= f * f
  <2> SUFFICES ASSUME NEW e \in Nat, NEW f \in Nat, e <= f
               PROVE  e * e <= f * f
    OBVIOUS
  <2>1. PICK d \in Nat : f = e + d
    <3>1. f - e \in Nat /\ f = e + (f - e)
      OBVIOUS
    <3> QED BY <3>1
  <2>2. f * f = e * e + (2 * (e * d) + d * d) /\ e * d \in Nat /\ d * d \in Nat /\ e * e \in Nat
    BY <2>1
  <2> QED BY <2>2
<1>9. t * t <= (p + r) * (p + r) /\ w * w <= (q + s) * (q + s)
  <2>1. p + r \in Nat /\ q + s \in Nat
    OBVIOUS
  <2> QED BY <1>4, <1>8, <2>1
<1>10. /\ (p + r) * (p + r) = p * p + r * r + 2 * (p * r)
       /\ (q + s) * (q + s) = q * q + s * s + 2 * (q * s)
       /\ (n + m) * (n + m) = n * n + m * m + 2 * (n * m)
  OBVIOUS
<1>11. t * t + w * w <= (n + m) * (n + m)
  <2>1. /\ p * p \in Int /\ q * q \in Int /\ r * r \in Int /\ s * s \in Int /\ p * r \in Int /\ q * s \in Int
        /\ n * n \in Int /\ m * m \in Int /\ n * m \in Int /\ t * t \in Int /\ w * w \in Int
    OBVIOUS
  <2>2. /\ t * t <= p * p + r * r + 2 * (p * r) /\ w * w <= q * q + s * s + 2 * (q * s)
    BY <1>9, <1>10
  <2>3. \A a1, a2, b1, b2, d1, d2, e1, e2, f1, k1, k2 \in Int :
          /\ k1 <= a1 + b1 + 2 * d1 /\ k2 <= a2 + b2 + 2 * d2
          /\ a1 + a2 <= e1 /\ b1 + b2 <= e2 /\ d1 + d2 <= f1
          => k1 + k2 <= e1 + e2 + 2 * f1
    OBVIOUS
  <2>4. t * t + w * w <= n * n + m * m + 2 * (n * m)
    BY <1>6, <1>7, <2>1, <2>2, <2>3, Zenon
  <2> QED BY <1>10, <2>4
<1>12. Span(a, c) <= (n + m) * (n + m) /\ n + m \in Nat
  BY <1>3, <1>11 DEF Span
<1> QED
  BY <1>5, <1>12, UnitsFit

-----------------------------------------------------------------------------
(* What a step costs at least, and what is estimated to remain              *)

\* What a step costs a net of a bundle where nobody else wants to pass.
BaseCost(p, m) == IF m.direction = "Via" THEN policy.viaPenalty ELSE Units(p, m.to)

(* A step of a bundle costs at least what it costs each of its nets.        *)
LEMMA StepCostIsAtLeast ==
  ASSUME CostsCount, NEW g, IsGrid(g), NEW b, IsSound(b, g), NEW p \in Nodes(g), NEW from,
         NEW m, m.to \in Nodes(g)
  PROVE  /\ StepCost(g, b, p, from, m) \in Nat /\ BaseCost(p, m) \in Nat
         /\ Cardinality(DOMAIN b.nets) \in Nat
         /\ Cardinality(DOMAIN b.nets) * BaseCost(p, m) <= StepCost(g, b, p, from, m)
<1> DEFINE u(i) == Wire(b, i, p)
           v(i) == Wire(b, i, m.to)
           cost(i) == (IF m.direction = "Via" THEN policy.viaPenalty ELSE Units(u(i), v(i)))
                      + Congestion(g, b.nets[i], u(i), v(i))
           w == [i \in DOMAIN b.nets |-> cost(i)]
<1>1. b.offset \in Int \X Int /\ (DOMAIN b.nets = {1} \/ DOMAIN b.nets = {1, 2})
  BY DEF IsSound
<1>2. p \in Points /\ m.to \in Points
  BY NodesArePoints
<1>3. \A i : u(i) \in Points /\ v(i) \in Points
  BY <1>1, <1>2, WireFacts
<1>4. policy.viaPenalty \in Nat /\ policy.bendPenalty \in Nat
  BY ProblemFacts DEF CostsCount, IsPolicy
<1>5. \A i : Units(u(i), v(i)) = Units(p, m.to)
  <2> TAKE i
  <2>1. CASE i = 1
    BY <1>1, <1>2, <2>1, WireFacts
  <2>2. CASE i # 1
    <3>1. /\ u(i).x = p.x + b.offset[1] /\ u(i).y = p.y + b.offset[2]
          /\ v(i).x = m.to.x + b.offset[1] /\ v(i).y = m.to.y + b.offset[2]
      BY <1>1, <1>2, <2>2, WireFacts
    <3>2. \A s, t, o \in Int : Distance(s + o, t + o) = Distance(s, t)
      BY DEF Distance
    <3>3. /\ p.x \in Int /\ p.y \in Int /\ m.to.x \in Int /\ m.to.y \in Int
          /\ b.offset[1] \in Int /\ b.offset[2] \in Int
      BY <1>1, <1>2 DEF Points
    <3>4. Distance(u(i).x, v(i).x) = Distance(p.x, m.to.x) /\ Distance(u(i).y, v(i).y) = Distance(p.y, m.to.y)
      BY <3>1, <3>2, <3>3
    <3> QED
      BY <3>4, Zenon DEF Units
  <2> QED
    BY <2>1, <2>2
<1>6. BaseCost(p, m) \in Nat
  BY <1>2, <1>4, UnitsFit DEF BaseCost
<1>7. \A i : cost(i) \in Nat /\ BaseCost(p, m) <= cost(i)
  <2> TAKE i
  <2>1. Congestion(g, b.nets[i], u(i), v(i)) \in Nat
    BY <1>3, CongestionIsNatural
  <2>2. (IF m.direction = "Via" THEN policy.viaPenalty ELSE Units(u(i), v(i))) = BaseCost(p, m)
    BY <1>5 DEF BaseCost
  <2> QED
    BY <1>6, <2>1, <2>2
<1>8. IsFiniteSet(DOMAIN b.nets)
  <2>1. (\A x : IsFiniteSet({x})) /\ (\A x, y : IsFiniteSet({x, y}))
    BY TwoAreFinite, FS_Singleton
  <2> QED
    BY <1>1, <2>1, Zenon
<1>9. w \in [DOMAIN b.nets -> Nat] /\ \A i \in DOMAIN b.nets : BaseCost(p, m) <= w[i]
  <2> HIDE DEF cost
  <2> QED
    BY <1>7
<1>10. StepCost(g, b, p, from, m) = SumFunction(w)
         + IF Bends(from, m.direction) THEN policy.bendPenalty ELSE 0
  BY Zenon DEF StepCost
<1> HIDE DEF w
<1>11. SumFunction(w) \in Nat /\ Cardinality(DOMAIN b.nets) * BaseCost(p, m) <= SumFunction(w)
  BY <1>6, <1>8, <1>9, SumIsAtLeast
<1>12. PICK c \in Nat : c = Cardinality(DOMAIN b.nets)
  BY <1>8, FS_CardinalityType
<1>13. c * BaseCost(p, m) \in Nat
  BY <1>6
<1> QED
  BY <1>4, <1>6, <1>10, <1>11, <1>12, <1>13

\* What is estimated to remain from a place to a target.
Remains(b, p, t) ==
  Cardinality(DOMAIN b.nets) * (Units(p, t) + Distance(p.layer, t.layer) * policy.viaPenalty)
Aims(b, g, targets) ==
  /\ problem \in Problems /\ IsGrid(g) /\ IsSound(b, g)
  /\ targets \subseteq Nodes(g) /\ targets # {}

(* An estimate is that of the nearest target, and nothing at a target.      *)
LEMMA EstimateFacts ==
  ASSUME NEW b, NEW g, NEW targets, Aims(b, g, targets), NEW p \in Nodes(g)
  PROVE  /\ Estimate(b, p, targets) \in Nat
         /\ \A t \in targets : Estimate(b, p, targets) <= Remains(b, p, t)
         /\ \E t \in targets : Estimate(b, p, targets) = Remains(b, p, t)
         /\ p \in targets => Estimate(b, p, targets) = 0
<1> DEFINE S == {Remains(b, p, t) : t \in targets}
<1>1. Estimate(b, p, targets) = Min(S)
  BY Zenon DEF Estimate, Remains
<1>2. policy.viaPenalty \in Nat
  BY ProblemFacts DEF Aims, IsPolicy
<1>3. Cardinality(DOMAIN b.nets) \in Nat
  <2>1. (\A x : IsFiniteSet({x})) /\ (\A x, y : IsFiniteSet({x, y}))
    BY TwoAreFinite, FS_Singleton
  <2>2. IsSound(b, g)
    BY DEF Aims
  <2>3. DOMAIN b.nets = {1} \/ DOMAIN b.nets = {1, 2}
    BY <2>2 DEF IsSound
  <2>4. IsFiniteSet(DOMAIN b.nets)
    BY <2>1, <2>3, Zenon
  <2> QED
    BY <2>4, FS_CardinalityType
<1>4. p \in Points /\ \A t \in targets : t \in Points
  BY NodesArePoints DEF Aims
<1>5. \A t \in targets : Remains(b, p, t) \in Nat
  <2> TAKE t \in targets
  <2>1. Units(p, t) \in Nat /\ Distance(p.layer, t.layer) \in Nat
    BY <1>4, UnitsFit DEF Distance, Points
  <2>2. \A c, d, e, f \in Nat : c * (d + e * f) \in Nat
    OBVIOUS
  <2> QED
    BY <1>2, <1>3, <2>1, <2>2, Zenon DEF Remains
<1>6. S \subseteq Nat /\ S # {}
  BY <1>5 DEF Aims
<1>7. Min(S) \in S /\ \A y \in S : Min(S) <= y
  <2> HIDE DEF S
  <2> QED
    BY <1>6, MinOfNaturals
<1>8. \A t \in targets : Estimate(b, p, targets) <= Remains(b, p, t)
  BY <1>1, <1>7, Zenon
<1>9. ASSUME p \in targets
      PROVE  Estimate(b, p, targets) = 0
  <2>1. Distance(p.x, p.x) = 0 /\ Distance(p.y, p.y) = 0 /\ Distance(p.layer, p.layer) = 0
    BY <1>4 DEF Distance, Points
  <2>2. Span(p, p) <= 0 * 0
    BY <2>1 DEF Span
  <2>3. Units(p, p) <= 0 /\ Units(p, p) \in Nat
    BY <1>4, <2>2, UnitsFit
  <2>4. Units(p, p) + Distance(p.layer, p.layer) * policy.viaPenalty = 0
    BY <1>2, <2>1, <2>3
  <2>5. Remains(b, p, p) = 0
    BY <1>3, <2>4 DEF Remains
  <2>6. Estimate(b, p, targets) <= 0 /\ Estimate(b, p, targets) \in Nat
    BY <1>1, <1>6, <1>7, <1>8, <1>9, <2>5
  <2> QED
    BY <2>6
<1> QED
  BY <1>1, <1>6, <1>7, <1>8, <1>9

(* No step costs less than it brings a bundle nearer to its targets.        *)
LEMMA EstimateIsConsistent ==
  ASSUME CostsCount, NEW b, NEW g, NEW targets, Aims(b, g, targets), NEW p \in Nodes(g), NEW from,
         NEW m \in BundleMoves(g, b, p)
  PROVE  Estimate(b, p, targets) <= StepCost(g, b, p, from, m) + Estimate(b, m.to, targets)
<1>1. m.to \in Nodes(g) /\ p \in Points /\ m.to \in Points /\ m \in Moves(g, policy.topology, p)
      /\ IsGrid(g) /\ IsSound(b, g)
  BY BundleMoveFacts, NodesArePoints DEF Aims, IsStep, BundleMoves
<1>2. PICK t \in targets : Estimate(b, m.to, targets) = Remains(b, m.to, t)
  BY <1>1, EstimateFacts
<1>3. t \in Points /\ Estimate(b, p, targets) <= Remains(b, p, t) /\ Estimate(b, p, targets) \in Nat
  BY <1>1, EstimateFacts, NodesArePoints DEF Aims
<1>4. PICK n \in Nat, via \in Nat, cost \in Nat, base \in Nat :
        /\ n = Cardinality(DOMAIN b.nets) /\ via = policy.viaPenalty
        /\ cost = StepCost(g, b, p, from, m) /\ base = BaseCost(p, m) /\ n * base <= cost
  BY <1>1, StepCostIsAtLeast, ProblemFacts DEF Aims, IsPolicy
<1>5. PICK u \in Nat, v \in Nat, d \in Nat, e \in Nat :
        /\ u = Units(p, t) /\ v = Units(m.to, t)
        /\ d = Distance(p.layer, t.layer) /\ e = Distance(m.to.layer, t.layer)
  BY <1>1, <1>3, UnitsFit DEF Distance, Points
<1>6. u + d * via <= base + (v + e * via)
  <2>1. CASE m \in PlanarMoves(g, policy.topology, p)
    <3>1. PICK r \in Rays(policy.topology) : /\ Ahead(g, p, r.step) # {}
                                             /\ m.to = Nearest(g, p, r.step)
                                             /\ m.direction = r.direction
      BY <2>1 DEF PlanarMoves
    <3>2. m.to.layer = p.layer
      BY <3>1 DEF Nearest, Node
    <3>3. m.direction # "Via"
      <4>1. r.direction \in {"Horizontal", "Vertical", "DiagonalRising", "DiagonalFalling"}
        BY RayFacts
      <4> QED
        BY <3>1, <4>1
    <3>4. base = Units(p, m.to)
      BY <1>4, <3>3 DEF BaseCost
    <3>5. u <= base + v
      BY <1>1, <1>3, <1>5, <3>4, UnitsOfDetour
    <3>6. d = e
      BY <1>5, <3>2
    <3>7. d * via \in Nat
      OBVIOUS
    <3> QED
      BY <3>5, <3>6, <3>7
  <2>2. CASE m \in ViaMoves(g, p)
    <3>1. PICK l \in {p.layer - 1, p.layer + 1} \cap 1 .. g.layers :
            m.to = Node(Planar(p), l) /\ m.direction = "Via"
      BY <2>2 DEF ViaMoves
    <3>2. m.to.x = p.x /\ m.to.y = p.y /\ m.to.layer = l
      BY <3>1 DEF Node, Planar
    <3>3. u = v
      BY <1>5, <3>2, Zenon DEF Units
    <3>4. base = via
      BY <1>4, <3>1 DEF BaseCost
    <3>5. d <= e + 1
      <4>1. p.layer \in Int /\ l \in Int /\ t.layer \in Int
        BY <1>1, <1>3, <3>1 DEF Points
      <4> QED
        BY <1>5, <3>1, <3>2, <4>1 DEF Distance
    <3>6. d * via <= (e + 1) * via
      <4>1. PICK k \in Nat : e + 1 = d + k
        <5>1. e + 1 - d \in Nat /\ e + 1 = d + (e + 1 - d)
          BY <3>5
        <5> QED BY <5>1
      <4>2. (d + k) * via = d * via + k * via /\ k * via \in Nat /\ d * via \in Nat
        OBVIOUS
      <4> QED
        BY <4>1, <4>2
    <3>7. (e + 1) * via = e * via + via /\ e * via \in Nat /\ d * via \in Nat
      OBVIOUS
    <3> QED
      BY <3>3, <3>4, <3>6, <3>7
  <2> QED
    BY <1>1, <2>1, <2>2 DEF Moves
<1>7. PICK x \in Nat, y \in Nat : x = u + d * via /\ y = v + e * via
  <2>1. u + d * via \in Nat /\ v + e * via \in Nat
    OBVIOUS
  <2> QED BY <2>1
<1>8. n * x <= n * base + n * y
  <2>1. x <= base + y
    BY <1>6, <1>7
  <2>2. PICK k \in Nat : base + y = x + k
    <3>1. base + y - x \in Nat /\ base + y = x + (base + y - x)
      BY <2>1
    <3> QED BY <3>1
  <2>3. n * (x + k) = n * x + n * k /\ n * k \in Nat /\ n * x \in Nat /\ n * (base + y) = n * base + n * y
    OBVIOUS
  <2> QED
    BY <2>2, <2>3
<1>9. Remains(b, p, t) = n * x /\ Remains(b, m.to, t) = n * y
  BY <1>4, <1>5, <1>7 DEF Remains
<1>10. n * x \in Nat /\ n * y \in Nat /\ n * base \in Nat
  OBVIOUS
<1> QED
  BY <1>2, <1>3, <1>4, <1>8, <1>9, <1>10

-----------------------------------------------------------------------------
(* What a search knows of the cheapest ways                                 *)

(* A cost that counts no further keeps its order.                           *)
LEMMA SatFacts ==
  /\ \A x \in Nat : Sat(x) \in 0 .. MaxCost /\ Sat(x) \in Nat /\ Sat(x) <= x /\ Sat(x) <= MaxCost
  /\ \A x \in 0 .. MaxCost : Sat(x) = x
  /\ \A x, y \in Nat : x <= y => Sat(x) <= Sat(y)
  /\ \A x, y \in Nat : Sat(Sat(x) + y) = Sat(x + y)
BY RouterAssumption DEF Sat

(* A move is known by where it goes and how.                                *)
LEMMA MovesByEnds ==
  ASSUME NEW g, NEW b, NEW p, NEW m \in BundleMoves(g, b, p), NEW n \in BundleMoves(g, b, p),
         State(m.to, m.direction) = State(n.to, n.direction)
  PROVE  m = n
<1>1. ASSUME NEW k \in BundleMoves(g, b, p)
      PROVE  k = [to |-> k.to, direction |-> k.direction]
  <2>1. k \in Moves(g, policy.topology, p)
    BY DEF BundleMoves
  <2>2. CASE k \in PlanarMoves(g, policy.topology, p)
    BY <2>2 DEF PlanarMoves
  <2>3. CASE k \in ViaMoves(g, p)
    BY <2>3 DEF ViaMoves
  <2> QED
    BY <2>1, <2>2, <2>3 DEF Moves
<1>2. m.to = n.to /\ m.direction = n.direction
  BY DEF State
<1> QED
  BY <1>1, <1>2, Zenon

(* Where a move goes a state names.                                         *)
LEMMA StateParts ==
  \A p, d : State(p, d).place = p /\ State(p, d).direction = d
BY DEF State

\* A state whose ways on have all been taken.
IsClosed(s, found, g, b, targets) ==
  /\ s.place \notin targets
  /\ \A m \in BundleMoves(g, b, s.place) :
       /\ State(m.to, m.direction) \in DOMAIN found
       /\ found[State(m.to, m.direction)].cost
            <= Sat(found[s].cost + StepCost(g, b, s.place, s.direction, m))
\* A state costs at least what a step costs from where it was found.
IsPriced(s, found, g, b) ==
  \/ found[s].from = s
  \/ \E m \in BundleMoves(g, b, found[s].from.place) :
       /\ s = State(m.to, m.direction)
       /\ Sat(found[found[s].from].cost
              + StepCost(g, b, found[s].from.place, found[s].from.direction, m)) <= found[s].cost
\* Each state found waits in the queue at its cost or has been closed, costs
\* what its ways from the sources cost, and the sources cost nothing.
IsSearched(found, q, g, b, targets, sources) ==
  /\ targets # {}
  /\ \A e \in q : e = Entry(b, targets, e.cost, e.state)
  /\ \A s \in DOMAIN found : \/ Entry(b, targets, found[s].cost, s) \in q
                             \/ IsClosed(s, found, g, b, targets)
  /\ \A s \in DOMAIN found : found[s].from = s => s \in {State(p, "None") : p \in sources}
  /\ \A p \in sources : State(p, "None") \in DOMAIN found /\ found[State(p, "None")].cost = 0
  /\ \A s \in DOMAIN found : IsPriced(s, found, g, b)
FrontInv ==
  status = "searching" =>
    /\ \A i \in DOMAIN Bundle.places : Bundle.places[i] # {}
    /\ IsSearched(reached, queue, grid, Bundle, Targets, tree)

(* What steps and entries cost depends on the problem and on the pass.      *)
LEMMA CostsStay ==
  ASSUME problem' = problem, routes' = routes, history' = history
  PROVE  /\ \A g, b, p : BundleMoves(g, b, p)' = BundleMoves(g, b, p)
         /\ \A g, b, p, from, m : StepCost(g, b, p, from, m)' = StepCost(g, b, p, from, m)
         /\ \A b, targets, cost, s : Entry(b, targets, cost, s)' = Entry(b, targets, cost, s)
<1>1. policy' = policy
  BY DEF policy
<1>2. \A g, b, p : BundleMoves(g, b, p)' = BundleMoves(g, b, p)
  BY <1>1, LegalStays DEF BundleMoves
<1>3. \A r : Users(r)' = Users(r) /\ HistoryOf(r)' = HistoryOf(r)
  BY DEF Users, HistoryOf
<1>4. \A g, net, u, v : Congestion(g, net, u, v)' = Congestion(g, net, u, v)
  BY <1>1, <1>3 DEF Congestion
<1>5. \A g, b, p, from, m : StepCost(g, b, p, from, m)' = StepCost(g, b, p, from, m)
  BY <1>1, <1>4 DEF StepCost
<1>6. \A b, p, targets : Estimate(b, p, targets)' = Estimate(b, p, targets)
  BY <1>1 DEF Estimate
<1>7. \A b, targets, cost, s : Entry(b, targets, cost, s)' = Entry(b, targets, cost, s)
  BY <1>6 DEF Entry
<1> QED
  BY <1>2, <1>5, <1>7

(* What a search knows depends on the problem and on the pass.              *)
LEMMA SearchedStays ==
  ASSUME problem' = problem, routes' = routes, history' = history
  PROVE  \A f, q, g, b, t, src : IsSearched(f, q, g, b, t, src)' = IsSearched(f, q, g, b, t, src)
<1>1. \A s, f, g, b, t : IsClosed(s, f, g, b, t)' = IsClosed(s, f, g, b, t)
  BY CostsStay DEF IsClosed
<1>2. \A s, f, g, b : IsPriced(s, f, g, b)' = IsPriced(s, f, g, b)
  BY CostsStay DEF IsPriced
<1> QED
  BY <1>1, <1>2, CostsStay DEF IsSearched

(* A search that starts knows its sources.                                  *)
LEMMA StartIsSearched ==
  ASSUME NEW b, NEW g, NEW sources, NEW targets, targets # {},
         StartSearch(b, sources, targets)
  PROVE  IsSearched(reached', queue', g, b, targets, sources)
<1> DEFINE starts == {State(p, "None") : p \in sources}
<1>1. /\ queue' = {Entry(b, targets, 0, s) : s \in starts}
      /\ reached' = [s \in starts |-> [cost |-> 0, from |-> s]]
  BY DEF StartSearch
<1>2. DOMAIN reached' = starts /\ \A s \in starts : reached'[s].cost = 0 /\ reached'[s].from = s
  BY <1>1
<1>3. \A p \in sources : State(p, "None") \in starts
  OBVIOUS
<1>4. \A s \in DOMAIN reached' : s \in {State(p, "None") : p \in sources}
  BY <1>2
<1> HIDE DEF starts
<1>5. \A e \in queue' : e = Entry(b, targets, e.cost, e.state)
  <2> TAKE e \in queue'
  <2>1. PICK s \in starts : e = Entry(b, targets, 0, s)
    BY <1>1
  <2>2. e.cost = 0 /\ e.state = s
    BY <2>1 DEF Entry
  <2> QED
    BY <2>1, <2>2
<1>6. \A s \in DOMAIN reached' : Entry(b, targets, reached'[s].cost, s) \in queue' /\ IsPriced(s, reached', g, b)
  BY <1>1, <1>2, Zenon DEF IsPriced
<1>7. \A p \in sources : State(p, "None") \in DOMAIN reached' /\ reached'[State(p, "None")].cost = 0
  BY <1>2, <1>3
<1> QED
  BY <1>4, <1>5, <1>6, <1>7, Zenon DEF IsSearched

\* What an expansion leaves found.
IsImproved(new, found, state, better, improved) ==
  /\ DOMAIN new = improved \cup DOMAIN found
  /\ \A s \in improved :
       \E e \in better : e.state = s /\ new[s].cost = e.cost /\ new[s].from = state
  /\ \A s \in DOMAIN new \ improved : s \in DOMAIN found /\ new[s] = found[s]
  /\ state \notin improved /\ new[state] = found[state]
  /\ \A s \in DOMAIN found : /\ found[s].cost \in Nat /\ new[s].cost \in Nat
                             /\ new[s].cost <= found[s].cost
  /\ \A e \in better : e.cost \in Nat

(* What an expansion leaves found: what improved costs what was found, the  *)
(* rest as much as before, and none more.                                   *)
LEMMA ExpansionFacts ==
  ASSUME NEW g, NEW b, NEW sources, NEW found, IsFound(found, g, b, sources),
         NEW state \in DOMAIN found, NEW better,
         \A e \in better : IsImprovement(e, found, g, b, state),
         NEW new, IsExpansion(new, found, state, better)
  PROVE  IsImproved(new, found, state, better, {e.state : e \in better})
<1> DEFINE improved == {e.state : e \in better}
<1>1. DOMAIN new = improved \cup DOMAIN found
  BY DEF IsExpansion, Over
<1>2. ASSUME NEW s \in improved
      PROVE  \E e \in better : e.state = s /\ new[s].cost = e.cost /\ new[s].from = state
  <2> DEFINE add == [t \in improved |->
                       [cost |-> (CHOOSE e \in better : e.state = t).cost, from |-> state]]
  <2>1. new[s] = add[s]
    BY DEF IsExpansion, Over
  <2>2. \E e \in better : e.state = s
    OBVIOUS
  <2>3. PICK e \in better : e.state = s /\ e = CHOOSE f \in better : f.state = s
    BY <2>2, Zenon
  <2>4. add[s] = [cost |-> e.cost, from |-> state]
    BY <2>3
  <2> HIDE DEF add
  <2>5. new[s].cost = e.cost /\ new[s].from = state
    BY <2>1, <2>4
  <2> QED
    BY <2>3, <2>5
<1>3. ASSUME NEW s \in DOMAIN new \ improved
      PROVE  s \in DOMAIN found /\ new[s] = found[s]
  BY <1>1 DEF IsExpansion, Over
<1>4. state \notin improved
  BY DEF IsImprovement
<1>5. \A e \in better : e.cost \in Nat
  BY RouterAssumption DEF IsImprovement
<1>6. \A s \in improved : s \in DOMAIN found => new[s].cost < found[s].cost
  BY <1>2 DEF IsImprovement
<1>7. \A s \in improved : new[s].cost \in Nat
  BY <1>2, <1>5
<1> HIDE DEF improved
<1>8. \A s \in DOMAIN found : found[s].cost \in Nat
  BY RouterAssumption DEF IsFound
<1>9. ASSUME NEW s \in DOMAIN found
      PROVE  new[s].cost \in Nat /\ new[s].cost <= found[s].cost
  <2>1. CASE s \in improved
    BY <1>6, <1>7, <1>8, <2>1
  <2>2. CASE s \notin improved
    BY <1>1, <1>3, <1>8, <2>2
  <2> QED
    BY <2>1, <2>2
<1>10. new[state] = found[state]
  BY <1>1, <1>3, <1>4
<1>11. IsImproved(new, found, state, better, improved)
  BY <1>1, <1>2, <1>3, <1>4, <1>5, <1>8, <1>9, <1>10 DEF IsImproved
<1> QED
  BY <1>11 DEF improved

(* Expanding a state closes it and leaves what is known of the others.      *)
LEMMA ExpandIsSearched ==
  ASSUME RouterInv, FrontInv, status = "searching", NEW top \in queue, Expand(top)
  PROVE  IsSearched(reached', queue', grid, Bundle, Targets, tree)
<1>1. Fresh(top) /\ top.state.place \notin Targets
  BY DEF Expand, Expandable
<1>2. Searching /\ IsSearched(reached, queue, grid, Bundle, Targets, tree)
  BY DEF RouterInv, SearchInv, FrontInv
<1>3. /\ IsExpansion(reached', reached, top.state, Improving(top))
      /\ queue' = (queue \ {top}) \cup Improving(top)
  BY Zenon DEF Expand, IsExpansion
<1>4. CostsCount
  BY DEF CostsCount, RouterInv, CallInv, PassInv, RoutesAreGood
<1>5. IsGrid(grid) /\ IsSound(Bundle, grid) /\ pending # <<>> /\ IsFound(reached, grid, Bundle, tree)
  BY <1>2, BundleFacts DEF RouterInv, CallInv, Searching
<1>6. /\ top.state \in DOMAIN reached /\ top.cost = reached[top.state].cost
      /\ top.state.place \in Nodes(grid) /\ top.cost \in 0 .. MaxCost
  BY <1>1, TopFacts
<1> DEFINE better == Improving(top)
           improved == {e.state : e \in better}
           p == top.state.place
           step(m) == StepCost(grid, Bundle, p, top.state.direction, m)
           entry(m) == Entry(Bundle, Targets, Sat(top.cost + step(m)), State(m.to, m.direction))
<1>7. \A e \in better : IsImprovement(e, reached, grid, Bundle, top.state)
  BY <1>4, <1>5, <1>6, ImprovingFacts, Zenon DEF IsImprovement
<1>8. \A e : e \in better <=> /\ \E m \in BundleMoves(grid, Bundle, p) : e = entry(m)
                              /\ e.state \in DOMAIN reached => e.cost < reached[e.state].cost
  BY Zenon DEF Improving
<1>9. \A m : entry(m).cost = Sat(top.cost + step(m)) /\ entry(m).state = State(m.to, m.direction)
  BY DEF Entry
<1>10. \A m \in BundleMoves(grid, Bundle, p) : step(m) \in Nat /\ Sat(top.cost + step(m)) \in Nat
  <2> TAKE m \in BundleMoves(grid, Bundle, p)
  <2>1. step(m) \in Nat
    BY <1>4, <1>5, <1>6, BundleMoveFacts, StepCostIsNatural, Zenon DEF IsStep
  <2>2. top.cost + step(m) \in Nat
    <3> HIDE DEF step
    <3> QED
      BY <1>6, <2>1, RouterAssumption
  <2> QED
    BY <2>1, <2>2, SatFacts
<1>11. /\ DOMAIN reached' = improved \cup DOMAIN reached
       /\ \A s \in improved :
            \E e \in better : e.state = s /\ reached'[s].cost = e.cost /\ reached'[s].from = top.state
       /\ \A s \in DOMAIN reached' \ improved : s \in DOMAIN reached /\ reached'[s] = reached[s]
       /\ top.state \notin improved /\ reached'[top.state] = reached[top.state]
       /\ \A s \in DOMAIN reached : /\ reached[s].cost \in Nat /\ reached'[s].cost \in Nat
                                    /\ reached'[s].cost <= reached[s].cost
       /\ \A e \in better : e.cost \in Nat
  <2> HIDE DEF better, improved
  <2>1. improved = {e.state : e \in better}
    BY DEF improved
  <2>2. PICK new, found : new = reached' /\ found = reached
    OBVIOUS
  <2>3. /\ IsExpansion(new, found, top.state, better) /\ IsFound(found, grid, Bundle, tree)
        /\ top.state \in DOMAIN found
        /\ \A e \in better : IsImprovement(e, found, grid, Bundle, top.state)
    BY <1>3, <1>5, <1>6, <1>7, <2>2 DEF better
  <2>4. IsImproved(new, found, top.state, better, {e.state : e \in better})
    BY <2>3, ExpansionFacts, Zenon
  <2> QED
    BY <2>1, <2>2, <2>4, Zenon DEF IsImproved
<1> HIDE DEF better, improved
<1>12. \A e \in queue' : e = Entry(Bundle, Targets, e.cost, e.state)
  <2>1. \A e \in better : e = Entry(Bundle, Targets, e.cost, e.state)
    <3> TAKE e \in better
    <3>1. PICK m \in BundleMoves(grid, Bundle, p) : e = entry(m)
      BY <1>8
    <3>2. e.cost = Sat(top.cost + step(m)) /\ e.state = State(m.to, m.direction)
      BY <1>9, <3>1, Zenon
    <3>3. e = Entry(Bundle, Targets, Sat(top.cost + step(m)), State(m.to, m.direction))
      BY <3>1
    <3> HIDE DEF step, entry
    <3> QED
      BY <3>2, <3>3
  <2>2. \A e \in queue : e = Entry(Bundle, Targets, e.cost, e.state)
    BY <1>2 DEF IsSearched
  <2> QED
    BY <1>3, <2>1, <2>2 DEF better
<1>13. ASSUME NEW s \in DOMAIN reached, IsClosed(s, reached, grid, Bundle, Targets), s \notin improved
       PROVE  IsClosed(s, reached', grid, Bundle, Targets)
  <2>1. reached'[s] = reached[s]
    BY <1>11, <1>13
  <2>2. ASSUME NEW m \in BundleMoves(grid, Bundle, s.place)
        PROVE  /\ State(m.to, m.direction) \in DOMAIN reached'
               /\ reached'[State(m.to, m.direction)].cost
                    <= Sat(reached'[s].cost + StepCost(grid, Bundle, s.place, s.direction, m))
    <3>1. PICK t \in DOMAIN reached : /\ t = State(m.to, m.direction)
                                      /\ reached[t].cost <= Sat(reached[s].cost + StepCost(grid, Bundle, s.place, s.direction, m))
      BY <1>13 DEF IsClosed
    <3>2. s.place \in Nodes(grid) /\ reached[s].cost \in Nat
      BY <1>5, <1>11 DEF IsFound
    <3>3. StepCost(grid, Bundle, s.place, s.direction, m) \in Nat
      BY <1>4, <1>5, <3>2, BundleMoveFacts, StepCostIsNatural, Zenon DEF IsStep
    <3>4. Sat(reached[s].cost + StepCost(grid, Bundle, s.place, s.direction, m)) \in Nat
      <4>1. reached[s].cost + StepCost(grid, Bundle, s.place, s.direction, m) \in Nat
        BY <3>2, <3>3
      <4> QED
        BY <4>1, SatFacts
    <3>5. reached'[t].cost <= reached[t].cost /\ reached'[t].cost \in Nat /\ reached[t].cost \in Nat
      BY <1>11
    <3>6. \A x, y, z \in Nat : x <= y /\ y <= z => x <= z
      OBVIOUS
    <3>7. reached'[t].cost <= Sat(reached[s].cost + StepCost(grid, Bundle, s.place, s.direction, m))
      BY <3>1, <3>4, <3>5, <3>6
    <3>8. t \in DOMAIN reached'
      BY <1>11
    <3> QED
      BY <2>1, <3>1, <3>7, <3>8
  <2> QED
    BY <1>13, <2>2 DEF IsClosed
<1>14. IsClosed(top.state, reached', grid, Bundle, Targets)
  <2>1. ASSUME NEW m \in BundleMoves(grid, Bundle, p)
        PROVE  /\ State(m.to, m.direction) \in DOMAIN reached'
               /\ reached'[State(m.to, m.direction)].cost <= Sat(top.cost + step(m))
    <3> DEFINE t == State(m.to, m.direction)
    <3>1. Sat(top.cost + step(m)) \in Nat
      BY <1>10
    <3>2. CASE entry(m) \in better
      <4>1. t \in improved
        BY <1>9, <3>2, Zenon DEF improved
      <4>2. PICK e \in better : e.state = t /\ reached'[t].cost = e.cost
        BY <1>11, <4>1
      <4>3. PICK n \in BundleMoves(grid, Bundle, p) : e = entry(n)
        BY <1>8
      <4>4. State(n.to, n.direction) = t
        BY <1>9, <4>2, <4>3, Zenon
      <4>5. n = m
        BY <4>4, MovesByEnds
      <4>6. e.cost = Sat(top.cost + step(m))
        BY <1>9, <4>3, <4>5, Zenon
      <4>7. reached'[t].cost <= Sat(top.cost + step(m))
        <5> HIDE DEF step, t
        <5> QED
          BY <3>1, <4>2, <4>6
      <4> QED
        BY <1>11, <4>1, <4>7
    <3>3. CASE entry(m) \notin better
      <4>1. t \in DOMAIN reached /\ ~(Sat(top.cost + step(m)) < reached[t].cost)
        BY <1>8, <1>9, <3>3, Zenon
      <4> HIDE DEF step, t, entry
      <4>2. reached'[t].cost <= Sat(top.cost + step(m))
        BY <1>11, <3>1, <4>1
      <4>3. t \in DOMAIN reached'
        BY <1>11, <4>1
      <4> QED
        BY <4>2, <4>3 DEF t
    <3> QED
      BY <3>2, <3>3
  <2>2. reached'[top.state].cost = top.cost
    BY <1>6, <1>11
  <2> QED
    BY <1>1, <2>1, <2>2, Zenon DEF IsClosed
<1>15. ASSUME NEW s \in DOMAIN reached'
       PROVE  \/ Entry(Bundle, Targets, reached'[s].cost, s) \in queue'
              \/ IsClosed(s, reached', grid, Bundle, Targets)
  <2>1. CASE s \in improved
    <3>1. PICK e \in better : e.state = s /\ reached'[s].cost = e.cost
      BY <1>11, <2>1
    <3>2. e \in queue'
      BY <1>3 DEF better
    <3>3. e = Entry(Bundle, Targets, reached'[s].cost, s)
      BY <1>12, <3>1, <3>2
    <3> QED
      BY <3>2, <3>3
  <2>2. CASE s \notin improved /\ s # top.state
    <3>1. s \in DOMAIN reached /\ reached'[s] = reached[s]
      BY <1>11, <2>2
    <3>2. CASE Entry(Bundle, Targets, reached[s].cost, s) \in queue
      <4>1. Entry(Bundle, Targets, reached[s].cost, s) # top
        BY <2>2 DEF Entry
      <4> QED
        BY <1>3, <3>1, <3>2, <4>1
    <3>3. CASE IsClosed(s, reached, grid, Bundle, Targets)
      BY <1>13, <2>2, <3>1, <3>3
    <3> QED
      BY <1>2, <3>1, <3>2, <3>3 DEF IsSearched
  <2> QED
    BY <1>14, <2>1, <2>2
<1>16. ASSUME NEW s \in DOMAIN reached', reached'[s].from = s
       PROVE  s \in {State(q, "None") : q \in tree}
  <2>1. s \notin improved
    BY <1>11, <1>16
  <2>2. s \in DOMAIN reached /\ reached[s].from = s
    BY <1>11, <1>16, <2>1
  <2> QED
    BY <1>2, <2>2 DEF IsSearched
<1>17. ASSUME NEW q \in tree
       PROVE  State(q, "None") \in DOMAIN reached' /\ reached'[State(q, "None")].cost = 0
  <2>1. PICK s \in DOMAIN reached : s = State(q, "None") /\ reached[s].cost = 0
    BY <1>2 DEF IsSearched
  <2>2. s \in DOMAIN reached' /\ reached'[s].cost \in Nat /\ reached'[s].cost <= 0
    BY <1>11, <2>1
  <2> QED
    BY <2>1, <2>2
<1>18. ASSUME NEW s \in DOMAIN reached'
       PROVE  IsPriced(s, reached', grid, Bundle)
  <2>1. CASE s \in improved
    <3>1. PICK e \in better : e.state = s /\ reached'[s].cost = e.cost /\ reached'[s].from = top.state
      BY <1>11, <2>1
    <3>2. PICK m \in BundleMoves(grid, Bundle, p) : e = entry(m)
      BY <1>8
    <3>3. s = State(m.to, m.direction) /\ reached'[s].cost = Sat(top.cost + step(m))
      BY <1>9, <3>1, <3>2, Zenon
    <3>4. reached'[reached'[s].from].cost = top.cost
      BY <1>6, <1>11, <3>1
    <3>5. Sat(top.cost + step(m)) <= reached'[s].cost
      <4>1. Sat(top.cost + step(m)) \in Nat
        BY <1>10
      <4> HIDE DEF step
      <4> QED
        BY <3>3, <4>1
    <3> QED
      BY <3>1, <3>3, <3>4, <3>5, Zenon DEF IsPriced
  <2>2. CASE s \notin improved
    <3>1. s \in DOMAIN reached /\ reached'[s] = reached[s]
      BY <1>11, <2>2
    <3>2. CASE reached[s].from = s
      BY <3>1, <3>2 DEF IsPriced
    <3>3. CASE reached[s].from # s
      <4>1. PICK t \in DOMAIN reached : t = reached[s].from /\ t.place \in Nodes(grid)
        BY <1>5, <3>1 DEF IsFound
      <4>2. PICK m \in BundleMoves(grid, Bundle, t.place) :
              /\ s = State(m.to, m.direction)
              /\ Sat(reached[t].cost + StepCost(grid, Bundle, t.place, t.direction, m)) <= reached[s].cost
        BY <1>2, <3>1, <3>3, <4>1, Zenon DEF IsSearched, IsPriced
      <4>3. PICK c \in Nat : c = StepCost(grid, Bundle, t.place, t.direction, m)
        BY <1>4, <1>5, <4>1, BundleMoveFacts, StepCostIsNatural, Zenon DEF IsStep
      <4>4. PICK x \in Nat, y \in Nat, z \in Nat :
               x = reached'[t].cost /\ y = reached[t].cost /\ z = reached[s].cost /\ x <= y
        BY <1>11, <3>1
      <4>5. Sat(x + c) <= Sat(y + c) /\ Sat(x + c) \in Nat /\ Sat(y + c) \in Nat
        <5>1. x + c \in Nat /\ y + c \in Nat /\ x + c <= y + c
          BY <4>4
        <5> QED
          BY <5>1, SatFacts
      <4>6. Sat(y + c) <= z
        BY <4>2, <4>3, <4>4
      <4>7. Sat(x + c) <= z
        BY <4>5, <4>6
      <4>8. Sat(reached'[t].cost + StepCost(grid, Bundle, t.place, t.direction, m)) <= reached'[s].cost
        BY <3>1, <4>3, <4>4, <4>7, Zenon
      <4> QED
        BY <3>1, <4>1, <4>2, <4>8, Zenon DEF IsPriced
    <3> QED
      BY <3>2, <3>3
  <2> QED
    BY <2>1, <2>2
<1>19. Targets # {}
  BY <1>2 DEF IsSearched
<1> QED
  BY <1>12, <1>15, <1>16, <1>17, <1>18, <1>19, Zenon DEF IsSearched

(* A step that starts or goes on with a search keeps what is known of it.   *)
LEMMA FrontKept ==
  ASSUME RouterInv, PassGoesOn, NEW targets, NEW sources,
         \A i \in DOMAIN Bundle.places : Bundle.places[i] # {},
         targets = Bundle.places[Len(paths') + 2], sources = tree',
         IsSearched(reached', queue', grid, Bundle, targets, sources)
  PROVE  FrontInv'
<1>1. Bundle' = Bundle /\ grid' = grid
  BY DEF Bundle, PassGoesOn
<1>2. Targets' = targets
  BY <1>1 DEF Targets
<1>3. IsSearched(reached, queue, grid, Bundle, Targets, tree)'
  BY <1>1, <1>2, SearchedStays DEF PassGoesOn
<1> QED
  BY <1>1, <1>3 DEF FrontInv

(* No step leaves the search without what is known of it.                   *)
LEMMA FrontStays == RouterInv /\ FrontInv /\ [RouterNext]_routerVars => FrontInv'
<1> SUFFICES ASSUME RouterInv, FrontInv, [RouterNext]_routerVars, status' = "searching"
             PROVE  FrontInv'
  BY DEF FrontInv
<1>1. CASE StartBundle
  <2>1. /\ PassGoesOn /\ paths' = <<>> /\ tree' = Bundle.places[1] /\ pending # <<>>
        /\ StartSearch(Bundle, Bundle.places[1], Bundle.places[2])
        /\ \A i \in DOMAIN Bundle.places : Bundle.places[i] # {}
    BY <1>1, StartBundleKeeps DEF StartBundle
  <2>2. Bundle.places[2] # {}
    <3>1. Bundle.places \in Seq(PlaceSets(grid)) /\ Len(Bundle.places) >= 2
      BY <2>1, BundleFacts DEF IsSound
    <3>2. 2 \in DOMAIN Bundle.places
      BY <3>1
    <3> QED
      BY <2>1, <3>2
  <2>3. IsSearched(reached', queue', grid, Bundle, Bundle.places[2], Bundle.places[1])
    BY <2>1, <2>2, StartIsSearched
  <2>4. Len(paths') + 2 = 2
    BY <2>1
  <2>5. Bundle.places[2] = Bundle.places[Len(paths') + 2]
    BY <2>4
  <2> QED
    BY <2>1, <2>3, <2>5, FrontKept
<1>2. ASSUME status = "searching"
      PROVE  /\ \A i \in DOMAIN Bundle.places : Bundle.places[i] # {}
             /\ IsSearched(reached, queue, grid, Bundle, Targets, tree)
  BY <1>2 DEF FrontInv
<1>3. ASSUME status = "searching", NEW top \in queue, DropStale(top)
      PROVE  FrontInv'
  <2>1. /\ PassGoesOn /\ paths' = paths /\ queue' = queue \ {top} /\ reached' = reached /\ tree' = tree
        /\ top.cost # reached[top.state].cost
    BY <1>3, DropStaleKeeps DEF DropStale, Fresh, bundleVars
  <2>2. \A s : Entry(Bundle, Targets, reached[s].cost, s) # top
    BY <2>1 DEF Entry
  <2>3. IsSearched(reached, queue', grid, Bundle, Targets, tree)
    BY <1>2, <1>3, <2>1, <2>2 DEF IsSearched
  <2>4. Targets = Bundle.places[Len(paths') + 2]
    BY <2>1 DEF Targets
  <2>5. IsSearched(reached', queue', grid, Bundle, Targets, tree)
    BY <2>1, <2>3
  <2> QED
    BY <1>2, <1>3, <2>1, <2>4, <2>5, FrontKept
<1>4. ASSUME status = "searching", NEW top \in queue, Expand(top)
      PROVE  FrontInv'
  <2>1. PassGoesOn /\ paths' = paths /\ tree' = tree
    BY <1>4, ExpandKeeps DEF Expand, bundleVars
  <2>2. IsSearched(reached', queue', grid, Bundle, Targets, tree)
    BY <1>4, ExpandIsSearched
  <2>3. Targets = Bundle.places[Len(paths') + 2]
    BY <2>1 DEF Targets
  <2> QED
    BY <1>2, <1>4, <2>1, <2>2, <2>3, FrontKept
<1>5. ASSUME status = "searching", NEW top \in queue, Connect(top)
      PROVE  FrontInv'
  <2>1. PassGoesOn /\ Len(paths') = Len(paths) + 1
    BY <1>5, ConnectKeeps
  <2>2. /\ StartSearch(Bundle, tree', Bundle.places[Len(paths) + 3])
        /\ Len(paths) + 2 < Len(Bundle.places) /\ pending # <<>>
    BY <1>5, Zenon DEF Connect, RouterInv, SearchInv, Searching
  <2>3. PICK n \in Nat : n = Len(paths)
    BY <1>5 DEF RouterInv, SearchInv, Searching, AreWays
  <2>4. Bundle.places[n + 3] # {}
    <3>1. Bundle.places \in Seq(PlaceSets(grid))
      BY <2>2, BundleFacts DEF IsSound
    <3>2. n + 3 \in DOMAIN Bundle.places
      BY <2>2, <2>3, <3>1
    <3> QED
      BY <1>2, <1>5, <3>2
  <2>5. PICK sources : sources = tree'
    OBVIOUS
  <2>6. StartSearch(Bundle, sources, Bundle.places[n + 3])
    BY <2>2, <2>3, <2>5
  <2>7. IsSearched(reached', queue', grid, Bundle, Bundle.places[n + 3], sources)
    BY <2>4, <2>6, StartIsSearched
  <2>8. Len(paths') + 2 = n + 3
    BY <2>1, <2>3
  <2>9. Bundle.places[n + 3] = Bundle.places[Len(paths') + 2]
    BY <2>8
  <2> QED
    BY <1>2, <1>5, <2>1, <2>5, <2>7, <2>9, FrontKept
<1>6. CASE UNCHANGED routerVars
  <2>1. /\ PassGoesOn /\ status' = status
        /\ UNCHANGED <<paths, tree, reached, queue>>
    BY <1>6 DEF routerVars, callVars, passVars, bundleVars, searchVars, PassGoesOn
  <2>2. Targets = Bundle.places[Len(paths') + 2]
    BY <2>1 DEF Targets
  <2>3. IsSearched(reached', queue', grid, Bundle, Targets, tree)
    BY <1>2, <2>1
  <2> QED
    BY <1>2, <2>1, <2>2, <2>3, FrontKept
<1>7. CASE SearchStep
  <2>1. CASE NoPath
    BY <2>1 DEF NoPath, FailBundle
  <2>2. ASSUME NEW top \in queue, SearchTooLong(top) \/ FinishBundle(top)
        PROVE  FALSE
    BY <2>2, Zenon DEF SearchTooLong, FailBundle, FinishBundle
  <2> QED
    BY <1>3, <1>4, <1>5, <1>7, <2>1, <2>2 DEF SearchStep
<1>8. ~Refuse /\ ~Prepare /\ ~OffGrid /\ ~Complete /\ ~Repeat /\ ~IterationLimit /\ ~NextRound
  <2>1. ~Prepare /\ ~Repeat
    BY Zenon DEF Prepare, Repeat, StartPass
  <2>2. ~OffGrid
    BY DEF OffGrid, FailBundle
  <2>3. ~Complete /\ ~IterationLimit
    BY DEF Complete, IterationLimit
  <2>4. ~Refuse
    BY DEF Refuse, PreparationErrors, PairSelectionErrors
  <2>5. ~NextRound
    BY DEF NextRound, AdaptiveStatus
  <2> QED
    BY <2>1, <2>2, <2>3, <2>4, <2>5
<1>9. Returned => UNCHANGED routerVars
  BY DEF Returned
<1> QED
  BY <1>1, <1>6, <1>7, <1>8, <1>9 DEF RouterNext

-----------------------------------------------------------------------------
(* The costs of the cheapest ways                                           *)

\* Costs of states of the grid.
AreCosts(costs) == \A s \in DOMAIN costs : /\ s = State(s.place, s.direction)
                                           /\ s.place \in Nodes(grid)
                                           /\ costs[s] \in 0 .. MaxCost
\* The costs once all ways are a step longer.
IsExtended(costs, new) ==
  /\ AreCosts(new)
  /\ \A s \in DOMAIN costs : s \in DOMAIN new /\ new[s] <= costs[s]
  /\ \A s \in DOMAIN costs : \A m \in BundleMoves(grid, Bundle, s.place) :
       /\ State(m.to, m.direction) \in DOMAIN new
       /\ new[State(m.to, m.direction)]
            <= Sat(costs[s] + StepCost(grid, Bundle, s.place, s.direction, m))
  /\ \A s \in DOMAIN new :
       \/ s \in DOMAIN costs /\ new[s] = costs[s]
       \/ \E t \in DOMAIN costs : \E m \in BundleMoves(grid, Bundle, t.place) :
            /\ s = State(m.to, m.direction)
            /\ new[s] = Sat(costs[t] + StepCost(grid, Bundle, t.place, t.direction, m))

(* Extending all ways by a step: no state gets dearer, each step counts,    *)
(* and nothing else does.                                                   *)
LEMMA RelaxedFacts ==
  ASSUME CostsCount, IsGrid(grid), IsSound(Bundle, grid), NEW costs, AreCosts(costs)
  PROVE  IsExtended(costs, Relaxed(costs))
<1> DEFINE price(s, m) == Sat(costs[s] + StepCost(grid, Bundle, s.place, s.direction, m))
           moves == [p \in {s.place : s \in DOMAIN costs} |-> BundleMoves(grid, Bundle, p)]
           ways == UNION {{[to |-> State(m.to, m.direction), cost |-> price(s, m)] :
                             m \in moves[s.place]} : s \in DOMAIN costs}
           old == {[to |-> s, cost |-> costs[s]] : s \in DOMAIN costs}
           all == ways \cup old
           at(s) == {w.cost : w \in {w \in all : w.to = s}}
<1>1. Relaxed(costs) = [s \in {w.to : w \in all} |-> Min(at(s))]
  BY Zenon DEF Relaxed
<1>2. \A w : w \in ways <=> \E s \in DOMAIN costs : \E m \in BundleMoves(grid, Bundle, s.place) :
                               w = [to |-> State(m.to, m.direction), cost |-> price(s, m)]
  <2>1. \A s \in DOMAIN costs : moves[s.place] = BundleMoves(grid, Bundle, s.place)
    OBVIOUS
  <2> HIDE DEF moves, price
  <2> QED
    BY <2>1
<1>3. \A s \in DOMAIN costs : \A m \in BundleMoves(grid, Bundle, s.place) :
        price(s, m) \in 0 .. MaxCost /\ m.to \in Nodes(grid)
  <2> TAKE s \in DOMAIN costs
  <2> TAKE m \in BundleMoves(grid, Bundle, s.place)
  <2>1. s.place \in Nodes(grid) /\ costs[s] \in Nat
    BY RouterAssumption DEF AreCosts
  <2>2. m.to \in Nodes(grid)
    BY <2>1, BundleMoveFacts DEF IsStep
  <2>3. StepCost(grid, Bundle, s.place, s.direction, m) \in Nat
    BY <2>1, <2>2, StepCostIsNatural
  <2>4. costs[s] + StepCost(grid, Bundle, s.place, s.direction, m) \in Nat
    BY <2>1, <2>3
  <2> QED
    BY <2>2, <2>4, SatFacts
<1> HIDE DEF price, moves
<1>4. \A w \in all : w.cost \in 0 .. MaxCost /\ w.to = State(w.to.place, w.to.direction) /\ w.to.place \in Nodes(grid)
  <2> TAKE w \in all
  <2>1. CASE w \in ways
    <3> HIDE DEF ways
    <3>0. PICK s \in DOMAIN costs : \E m \in BundleMoves(grid, Bundle, s.place) :
             w = [to |-> State(m.to, m.direction), cost |-> price(s, m)]
      BY <1>2, <2>1
    <3>1. PICK m \in BundleMoves(grid, Bundle, s.place) :
             w = [to |-> State(m.to, m.direction), cost |-> price(s, m)]
      BY <3>0
    <3>2. w.cost = price(s, m) /\ w.to = State(m.to, m.direction)
      BY <3>1
    <3>3. State(m.to, m.direction).place = m.to /\ State(m.to, m.direction).direction = m.direction
      BY StateParts, Zenon
    <3>4. w.to.place = m.to /\ w.to.direction = m.direction
      BY <3>2, <3>3, Zenon
    <3> QED
      BY <1>3, <3>2, <3>4, Zenon
  <2>2. CASE w \in old
    <3>1. PICK s \in DOMAIN costs : w.to = s /\ w.cost = costs[s]
      BY <2>2
    <3> QED
      BY <3>1, Zenon DEF AreCosts
  <2> QED
    BY <2>1, <2>2
<1>5. \A s \in DOMAIN costs : \E w \in all : w.to = s /\ w.cost = costs[s]
  <2> TAKE s \in DOMAIN costs
  <2> WITNESS [to |-> s, cost |-> costs[s]] \in all
  <2> QED
    OBVIOUS
<1>6. \A s \in DOMAIN costs : \A m \in BundleMoves(grid, Bundle, s.place) :
        \E w \in all : w.to = State(m.to, m.direction) /\ w.cost = price(s, m)
  <2> TAKE s \in DOMAIN costs
  <2> TAKE m \in BundleMoves(grid, Bundle, s.place)
  <2>1. [to |-> State(m.to, m.direction), cost |-> price(s, m)] \in ways
    <3> HIDE DEF ways
    <3> QED
      BY <1>2
  <2> HIDE DEF ways
  <2>2. [to |-> State(m.to, m.direction), cost |-> price(s, m)] \in all
    BY <2>1
  <2> QED
    BY <2>2
<1>7. \A w \in all :
        \/ w.to \in DOMAIN costs /\ w.cost = costs[w.to]
        \/ \E t \in DOMAIN costs : \E m \in BundleMoves(grid, Bundle, t.place) :
             w.to = State(m.to, m.direction) /\ w.cost = price(t, m)
  <2> TAKE w \in all
  <2>1. CASE w \in ways
    <3> HIDE DEF ways
    <3>0. PICK s \in DOMAIN costs : \E m \in BundleMoves(grid, Bundle, s.place) :
             w = [to |-> State(m.to, m.direction), cost |-> price(s, m)]
      BY <1>2, <2>1
    <3>1. PICK m \in BundleMoves(grid, Bundle, s.place) :
             w = [to |-> State(m.to, m.direction), cost |-> price(s, m)]
      BY <3>0
    <3>2. w.cost = price(s, m) /\ w.to = State(m.to, m.direction)
      BY <3>1
    <3> QED
      BY <3>2
  <2>2. CASE w \in old
    BY <2>2
  <2> QED
    BY <2>1, <2>2
<1> HIDE DEF ways, old, all
<1>8. PICK new : new = Relaxed(costs)
  OBVIOUS
<1>9. DOMAIN new = {w.to : w \in all} /\ \A s \in DOMAIN new : new[s] = Min(at(s))
  BY <1>1, <1>8
<1>10. \A s : at(s) \subseteq Nat
  <2> TAKE s
  <2>1. \A w \in all : w.cost \in Nat
    BY <1>4, RouterAssumption
  <2> QED
    BY <2>1
<1>11. \A w \in all : w.to \in DOMAIN new /\ w.cost \in at(w.to)
  BY <1>9
<1>12. ASSUME NEW s \in DOMAIN new
       PROVE  /\ \E w \in all : w.to = s /\ w.cost = new[s]
              /\ \A w \in all : w.to = s => new[s] <= w.cost
  <2>1. PICK v \in all : v.to = s
    BY <1>9
  <2>2. at(s) # {}
    BY <1>11, <2>1
  <2>3. new[s] \in at(s) /\ \A y \in at(s) : new[s] <= y
    <3> HIDE DEF at
    <3> QED
      BY <1>9, <1>10, <2>2, MinOfNaturals
  <2> QED
    BY <1>11, <2>3
<1> HIDE DEF at
<1>13. AreCosts(new)
  <2>1. \A s \in DOMAIN new : s = State(s.place, s.direction) /\ s.place \in Nodes(grid) /\ new[s] \in 0 .. MaxCost
    BY <1>4, <1>12
  <2> QED
    BY <2>1 DEF AreCosts
<1>14. \A s \in DOMAIN costs : s \in DOMAIN new /\ new[s] <= costs[s]
  BY <1>5, <1>11, <1>12
<1>15. \A s \in DOMAIN costs : \A m \in BundleMoves(grid, Bundle, s.place) :
         /\ State(m.to, m.direction) \in DOMAIN new
         /\ new[State(m.to, m.direction)] <= price(s, m)
  <2> TAKE s \in DOMAIN costs
  <2> TAKE m \in BundleMoves(grid, Bundle, s.place)
  <2>1. PICK w \in all : w.to = State(m.to, m.direction) /\ w.cost = price(s, m)
    BY <1>6
  <2> QED
    BY <1>11, <1>12, <2>1
<1>16. \A s \in DOMAIN new :
         \/ s \in DOMAIN costs /\ new[s] = costs[s]
         \/ \E t \in DOMAIN costs : \E m \in BundleMoves(grid, Bundle, t.place) :
              s = State(m.to, m.direction) /\ new[s] = price(t, m)
  <2> TAKE s \in DOMAIN new
  <2>1. PICK w \in all : w.to = s /\ w.cost = new[s]
    BY <1>12
  <2> QED
    BY <1>7, <2>1, Zenon
<1> QED
  BY <1>8, <1>13, <1>14, <1>15, <1>16, Zenon DEF IsExtended, price

\* How the costs come about: step by step until none gets cheaper.
StartCosts == [costs |-> [s \in {State(p, "None") : p \in tree} |-> 0], closed |-> FALSE]
CostsStep(after, k) ==
  IF k = 0 THEN StartCosts
  ELSE LET sofar == after[k - 1] IN
       IF sofar.closed THEN sofar
       ELSE LET next == Relaxed(sofar.costs) IN
            [costs |-> next, closed |-> next = sofar.costs]

(* The costs come from a function that unfolds as its definition says.      *)
LEMMA CostsUnfold ==
  ASSUME Cardinality(States) \in Nat
  PROVE  \E f : /\ f = [k \in 0 .. Cardinality(States) |-> CostsStep(f, k)]
                /\ CheapestCosts = f[Cardinality(States)].costs
<1> DEFINE N == Cardinality(States)
           Solves(f, n) == f = [k \in 0 .. n |-> CostsStep(f, k)]
           unsolved == {n \in Nat : ~\E f : Solves(f, n)}
<1>2. \E f : Solves(f, 0)
  <2>1. Solves([k \in 0 .. 0 |-> CostsStep(<<>>, k)], 0)
    BY DEF CostsStep
  <2> QED
    BY <2>1
<1>3. ASSUME NEW n \in Nat, NEW f, Solves(f, n)
      PROVE  \E g : Solves(g, n + 1)
  <2> DEFINE g == [k \in 0 .. (n + 1) |-> IF k = n + 1 THEN CostsStep(f, k) ELSE f[k]]
  <2>1. ASSUME NEW k \in 0 .. (n + 1)
        PROVE  g[k] = CostsStep(g, k)
    <3>1. CostsStep(f, k) = CostsStep(g, k)
      <4>1. CASE k = 0
        <5> HIDE DEF g
        <5> QED
          BY <4>1 DEF CostsStep
      <4>2. CASE k # 0
        <5>1. g[k - 1] = f[k - 1]
          BY <4>2
        <5> HIDE DEF g
        <5> QED
          BY <5>1, Zenon DEF CostsStep
      <4> QED
        BY <4>1, <4>2
    <3>2. CASE k = n + 1
      <4>1. g[k] = CostsStep(f, k)
        BY <3>2
      <4> QED
        BY <3>1, <4>1
    <3>3. CASE k # n + 1
      <4>1. k \in 0 .. n /\ g[k] = f[k]
        BY <3>3
      <4>2. f[k] = CostsStep(f, k)
        BY <1>3, <4>1
      <4> HIDE DEF g
      <4> QED
        BY <3>1, <4>1, <4>2
    <3> QED
      BY <3>2, <3>3
  <2>2. g = [k \in 0 .. (n + 1) |-> g[k]]
    OBVIOUS
  <2> HIDE DEF g
  <2>3. Solves(g, n + 1)
    BY <2>1, <2>2
  <2> QED
    BY <2>3
<1>4. unsolved = {}
  <2> SUFFICES ASSUME unsolved # {}
               PROVE  FALSE
    OBVIOUS
  <2>0. unsolved \subseteq Nat
    OBVIOUS
  <2>1. PICK n \in unsolved : \A k \in unsolved : n <= k
    <3> HIDE DEF unsolved
    <3> QED
      BY <2>0, LeastNatural
  <2> HIDE DEF Solves
  <2>2. n # 0 /\ n - 1 \in Nat /\ n - 1 \notin unsolved
    BY <1>2, <2>1
  <2>3. PICK f : Solves(f, n - 1)
    BY <2>2
  <2>4. \E g : Solves(g, (n - 1) + 1)
    BY <1>3, <2>2, <2>3
  <2> QED
    BY <2>1, <2>4
<1>5. \E f : Solves(f, N)
  BY <1>4
<1> DEFINE chosen == CHOOSE f : Solves(f, N)
<1>6. Solves(chosen, N)
  BY <1>5, Zenon
<1>7. CheapestCosts = chosen[N].costs
  BY Zenon DEF CheapestCosts, CostsStep, StartCosts
<1> QED
  BY <1>6, <1>7, Zenon

(* The states of a finite grid are finitely many.                           *)
LEMMA StatesAreFinite ==
  ASSUME IsGrid(grid)
  PROVE  IsFiniteSet(States) /\ Cardinality(States) \in Nat
<1> DEFINE spots == grid.active \X (1 .. grid.layers)
           nodes == [w \in spots |-> Node(w[1], w[2])]
           headed == Nodes(grid) \X Range(Directions)
           states == [w \in headed |-> [place |-> w[1], direction |-> w[2]]]
<1>1. IsFiniteSet(spots)
  <2>1. IsFiniteSet(grid.xs \X grid.ys)
    BY FS_Product DEF IsGrid
  <2>2. IsFiniteSet(grid.active)
    BY <2>1, FS_Subset DEF IsGrid
  <2>3. IsFiniteSet(1 .. grid.layers)
    BY FS_Interval DEF IsGrid
  <2> QED
    BY <2>2, <2>3, FS_Product
<1>2. IsFiniteSet({nodes[w] : w \in spots})
  <2> HIDE DEF nodes, spots
  <2> QED
    BY <1>1, ImageIsFinite
<1>3. IsFiniteSet(Nodes(grid))
  <2>1. ASSUME NEW n \in Nodes(grid)
        PROVE  n \in {nodes[w] : w \in spots}
    <3>1. PICK p \in grid.active, l \in 1 .. grid.layers : n = Node(p, l)
      BY DEF Nodes
    <3>2. <<p, l>> \in spots /\ nodes[<<p, l>>] = n
      BY <3>1
    <3> HIDE DEF nodes, spots
    <3> QED
      BY <3>2
  <2> HIDE DEF nodes, spots
  <2> QED
    BY <1>2, <2>1, FS_Subset
<1>4. IsFiniteSet(Range(Directions))
  <2>1. Range(Directions) \subseteq {"None", "Horizontal", "Vertical"} \cup {"DiagonalRising", "DiagonalFalling", "Via"}
    BY DEF Range, Directions
  <2>2. IsFiniteSet({"None", "Horizontal"} \cup {"Vertical"}) /\ IsFiniteSet({"DiagonalRising", "DiagonalFalling"} \cup {"Via"})
    BY TwoAreFinite, FS_Singleton, FS_Union
  <2>3. {"None", "Horizontal"} \cup {"Vertical"} = {"None", "Horizontal", "Vertical"}
        /\ {"DiagonalRising", "DiagonalFalling"} \cup {"Via"} = {"DiagonalRising", "DiagonalFalling", "Via"}
    OBVIOUS
  <2>4. IsFiniteSet({"None", "Horizontal", "Vertical"} \cup {"DiagonalRising", "DiagonalFalling", "Via"})
    BY <2>2, <2>3, FS_Union
  <2> QED
    BY <2>1, <2>4, FS_Subset
<1>5. IsFiniteSet(headed)
  BY <1>3, <1>4, FS_Product
<1>6. IsFiniteSet({states[w] : w \in headed})
  <2> HIDE DEF states, headed
  <2> QED
    BY <1>5, ImageIsFinite
<1>7. States \subseteq {states[w] : w \in headed}
  <2> SUFFICES ASSUME NEW s \in States
               PROVE  s \in {states[w] : w \in headed}
    OBVIOUS
  <2>1. <<s.place, s.direction>> \in headed
    BY DEF States
  <2>2. states[<<s.place, s.direction>>] = [place |-> s.place, direction |-> s.direction]
    BY <2>1
  <2>3. s = [place |-> s.place, direction |-> s.direction]
    BY DEF States
  <2> HIDE DEF states, headed
  <2> QED
    BY <2>1, <2>2, <2>3
<1> QED
  BY <1>6, <1>7, FS_Subset, FS_CardinalityType

(* Every state found is one of them.                                        *)
LEMMA FoundAreStates ==
  ASSUME IsGrid(grid), IsFound(reached, grid, Bundle, tree),
         IsSearched(reached, queue, grid, Bundle, Targets, tree)
  PROVE  DOMAIN reached \subseteq States
<1> SUFFICES ASSUME NEW s \in DOMAIN reached
             PROVE  s \in States
  OBVIOUS
<1>1. s = State(s.place, s.direction) /\ s.place \in Nodes(grid)
  BY DEF IsFound
<1>2. Range(Directions) = {"None", "Horizontal", "Vertical", "DiagonalRising", "DiagonalFalling", "Via"}
  BY DEF Range, Directions
<1>3. s.direction \in Range(Directions)
  <2>1. CASE reached[s].from = s
    <3>1. PICK p \in tree : s = State(p, "None")
      BY <2>1 DEF IsSearched
    <3> QED
      BY <1>2, <3>1, StateParts
  <2>2. CASE reached[s].from # s
    <3>1. PICK m \in BundleMoves(grid, Bundle, reached[s].from.place) : s = State(m.to, m.direction)
      BY <2>2 DEF IsSearched, IsPriced
    <3>2. s.direction = m.direction
      BY <3>1, StateParts
    <3>3. reached[s].from.place \in Nodes(grid)
      BY DEF IsFound
    <3>4. m.direction \in {"Via", "Horizontal", "Vertical", "DiagonalRising", "DiagonalFalling"}
      BY <3>3, BundleMoveFacts DEF IsStep, Heading
    <3> QED
      BY <1>2, <3>2, <3>4
  <2> QED
    BY <2>1, <2>2
<1> QED
  BY <1>1, <1>3, Zenon DEF States, State

\* What the search is known to be when the costs of ways are compared with it.
Compared ==
  /\ CostsCount /\ IsGrid(grid) /\ IsSound(Bundle, grid) /\ tree \subseteq Nodes(grid)
  /\ Targets \subseteq Nodes(grid)
  /\ IsFound(reached, grid, Bundle, tree)
  /\ IsSearched(reached, queue, grid, Bundle, Targets, tree)
\* The costs of ways of ever more steps.
AreRelaxed(at, n) ==
  /\ at[0] = [s \in {State(p, "None") : p \in tree} |-> 0]
  /\ \A k \in 0 .. n : AreCosts(at[k])
  /\ \A k \in 0 .. (n - 1) : IsExtended(at[k], at[k + 1])

(* The cheapest costs are those of ways of as many steps as there are       *)
(* states.                                                                  *)
LEMMA CostsAreRelaxed ==
  ASSUME Compared
  PROVE  \E at : AreRelaxed(at, Cardinality(States)) /\ CheapestCosts = at[Cardinality(States)]
<1>1. PICK N \in Nat : N = Cardinality(States)
  BY StatesAreFinite DEF Compared
<1>2. PICK f : f = [k \in 0 .. N |-> CostsStep(f, k)] /\ CheapestCosts = f[N].costs
  BY <1>1, CostsUnfold
<1> DEFINE at == [k \in 0 .. N |-> f[k].costs]
           Good(k) == /\ AreCosts(f[k].costs)
                      /\ f[k].closed \in BOOLEAN
                      /\ f[k].closed => Relaxed(f[k].costs) = f[k].costs
           bad == {k \in 0 .. N : ~Good(k)}
<1>3. \A k \in 0 .. N : f[k] = CostsStep(f, k)
  BY <1>2
<1>4. f[0] = StartCosts
  <2>1. f[0] = CostsStep(f, 0)
    BY <1>3
  <2> QED
    BY <2>1, Zenon DEF CostsStep
<1>5. f[0].costs = [s \in {State(p, "None") : p \in tree} |-> 0] /\ f[0].closed = FALSE
  BY <1>4 DEF StartCosts
<1>6. \A k \in 0 .. N : k # 0 =>
        f[k] = IF f[k - 1].closed THEN f[k - 1]
               ELSE [costs |-> Relaxed(f[k - 1].costs),
                     closed |-> Relaxed(f[k - 1].costs) = f[k - 1].costs]
  BY <1>3, Zenon DEF CostsStep
<1>7. Good(0)
  <2>1. \A s \in {State(p, "None") : p \in tree} : s = State(s.place, s.direction) /\ s.place \in Nodes(grid)
    BY DEF State, Compared
  <2>2. 0 \in 0 .. MaxCost
    BY RouterAssumption
  <2>3. AreCosts(f[0].costs)
    BY <1>5, <2>1, <2>2 DEF AreCosts
  <2> QED
    BY <1>5, <2>3
<1>8. ASSUME NEW k \in 0 .. N, k # 0, Good(k - 1)
      PROVE  Good(k) /\ IsExtended(f[k - 1].costs, f[k].costs)
  <2>1. PICK old : old = f[k - 1]
    OBVIOUS
  <2>2. PICK new : new = f[k]
    OBVIOUS
  <2>3. IsExtended(old.costs, Relaxed(old.costs))
    BY <1>8, <2>1, RelaxedFacts DEF Compared
  <2>4. new = IF old.closed THEN old
              ELSE [costs |-> Relaxed(old.costs), closed |-> Relaxed(old.costs) = old.costs]
    BY <1>6, <1>8, <2>1, <2>2, Zenon
  <2>5. CASE old.closed
    <3>1. new = old /\ Relaxed(old.costs) = old.costs
      BY <1>8, <2>1, <2>4, <2>5
    <3> QED
      BY <1>8, <2>1, <2>2, <2>3, <3>1
  <2>6. CASE ~old.closed
    <3>1. new.costs = Relaxed(old.costs) /\ new.closed = (Relaxed(old.costs) = old.costs)
      BY <2>4, <2>6
    <3>2. AreCosts(new.costs) /\ IsExtended(old.costs, new.costs)
      BY <2>3, <3>1 DEF IsExtended
    <3>3. new.closed => Relaxed(new.costs) = new.costs
      BY <3>1
    <3>4. new.closed \in BOOLEAN
      BY <3>1
    <3> QED
      BY <2>1, <2>2, <3>2, <3>3, <3>4
  <2> QED
    BY <2>5, <2>6
<1> HIDE DEF Good
<1>9. bad = {}
  <2> SUFFICES ASSUME bad # {}
               PROVE  FALSE
    OBVIOUS
  <2>0. bad \subseteq Nat
    OBVIOUS
  <2>1. PICK k \in bad : \A j \in bad : k <= j
    <3> HIDE DEF bad
    <3> QED
      BY <2>0, LeastNatural
  <2>2. k \in 0 .. N /\ k # 0 /\ k - 1 \in 0 .. N /\ k - 1 \notin bad
    BY <1>7, <2>1
  <2> QED
    BY <1>8, <2>1, <2>2
<1>10. \A k \in 0 .. N : Good(k)
  BY <1>9
<1>11. \A k \in 0 .. N : AreCosts(at[k])
  BY <1>10 DEF Good
<1>12. \A k \in 0 .. (N - 1) : IsExtended(at[k], at[k + 1])
  <2> TAKE k \in 0 .. (N - 1)
  <2>1. k + 1 \in 0 .. N /\ k + 1 # 0 /\ (k + 1) - 1 = k /\ k \in 0 .. N
    OBVIOUS
  <2>2. Good((k + 1) - 1)
    BY <1>10, <2>1
  <2>3. IsExtended(f[(k + 1) - 1].costs, f[k + 1].costs)
    BY <1>8, <2>1, <2>2
  <2> QED
    BY <2>1, <2>3
<1>13. at[0] = f[0].costs /\ at[N] = f[N].costs
  OBVIOUS
<1> HIDE DEF at
<1>14. AreRelaxed(at, N)
  BY <1>5, <1>11, <1>12, <1>13, Zenon DEF AreRelaxed
<1> QED
  BY <1>1, <1>2, <1>13, <1>14

(* The search has found each state, no cheaper than its cheapest way.       *)
LEMMA FoundIsNoCheaper ==
  ASSUME Compared, NEW N \in Nat, N = Cardinality(States), NEW at, AreRelaxed(at, N)
  PROVE  \A s \in DOMAIN reached : s \in DOMAIN at[N] /\ at[N][s] <= reached[s].cost
<1> DEFINE D == DOMAIN reached
           prev == Prev(reached)
           within == [k \in 0 .. N |-> {s \in D : s \in DOMAIN at[k] /\ at[k][s] <= reached[s].cost}]
           bad == {k \in 0 .. N : ~(within[k] = D \/ k <= Cardinality(within[k]))}
<1>1. /\ IsFiniteSet(States) /\ D \subseteq States /\ IsRooted(D, prev)
      /\ \A s \in D : prev[s] = reached[s].from /\ prev[s] \in D /\ reached[s].cost \in Nat
  BY StatesAreFinite, FoundAreStates, RouterAssumption DEF Compared, IsFound, Prev
<1>2. IsFiniteSet(D) /\ Cardinality(D) <= N /\ Cardinality(D) \in Nat
  BY <1>1, FS_Subset, FS_CardinalityType
<1>3. \A k \in 0 .. N : within[k] \subseteq D
  OBVIOUS
<1>4. \A k \in 0 .. N : IsFiniteSet(within[k]) /\ Cardinality(within[k]) \in Nat
  BY <1>2, <1>3, FS_Subset, FS_CardinalityType
<1>5. \A k \in 0 .. N : \A s : s \in within[k] <=> s \in D /\ s \in DOMAIN at[k] /\ at[k][s] <= reached[s].cost
  OBVIOUS
<1>6. \A k \in 0 .. N : \A s \in DOMAIN at[k] : at[k][s] \in Nat
  BY RouterAssumption DEF AreRelaxed, AreCosts
<1>7. \A s \in D : reached[s].from = s => s \in within[0]
  <2> TAKE s \in D
  <2> HAVE reached[s].from = s
  <2>1. s \in {State(p, "None") : p \in tree}
    BY DEF Compared, IsSearched
  <2>2. s \in DOMAIN at[0] /\ at[0][s] = 0
    BY <2>1 DEF AreRelaxed
  <2> HIDE DEF D, within
  <2> QED
    BY <1>1, <1>5, <2>2
<1>8. \A k \in 0 .. (N - 1) : within[k] \subseteq within[k + 1]
  <2> TAKE k \in 0 .. (N - 1)
  <2> SUFFICES ASSUME NEW s \in within[k]
               PROVE  s \in within[k + 1]
    OBVIOUS
  <2>1. k \in 0 .. N /\ k + 1 \in 0 .. N
    OBVIOUS
  <2> HIDE DEF within, D
  <2>2. s \in D /\ s \in DOMAIN at[k] /\ at[k][s] <= reached[s].cost
    BY <1>5, <2>1
  <2>3. s \in DOMAIN at[k + 1] /\ at[k + 1][s] <= at[k][s]
    BY <2>2 DEF AreRelaxed, IsExtended
  <2>4. at[k + 1][s] <= reached[s].cost
    BY <1>1, <1>6, <2>1, <2>2, <2>3
  <2> QED
    BY <1>5, <2>1, <2>2, <2>3, <2>4
<1>9. ASSUME NEW k \in 0 .. (N - 1), within[k] # D, \A s \in D : reached[s].from = s => s \in within[k]
      PROVE  \E s \in within[k + 1] : s \notin within[k]
  <2>1. k \in 0 .. N /\ k + 1 \in 0 .. N
    OBVIOUS
  <2>2. PICK s \in D : s \notin within[k] /\ prev[s] \in within[k]
    <3> DEFINE C == D \ within[k]
    <3>1. C \in SUBSET D /\ C # {}
      BY <1>3, <1>9, <2>1
    <3> HIDE DEF within, D, prev
    <3>2. ~\A s \in C : prev[s] \in C
      <4> SUFFICES ASSUME \A s \in C : prev[s] \in C
                   PROVE  FALSE
        OBVIOUS
      <4>1. \E s \in C : prev[s] = s
        <5> HIDE DEF C
        <5> QED
          BY <1>1, <3>1, Zenon DEF IsRooted
      <4> QED
        BY <1>1, <1>9, <4>1
    <3> QED
      BY <1>1, <3>2
  <2> HIDE DEF within, D, prev
  <2>3. reached[s].from # s
    BY <1>9, <2>2
  <2>4. PICK t \in D : t = reached[s].from /\ t \in DOMAIN at[k] /\ at[k][t] <= reached[t].cost
    BY <1>1, <1>5, <2>1, <2>2
  <2>5. PICK m \in BundleMoves(grid, Bundle, t.place) :
          /\ s = State(m.to, m.direction)
          /\ Sat(reached[t].cost + StepCost(grid, Bundle, t.place, t.direction, m)) <= reached[s].cost
    <3>1. IsPriced(s, reached, grid, Bundle)
      BY <2>2 DEF Compared, IsSearched, D
    <3> QED
      BY <2>3, <2>4, <3>1, Zenon DEF IsPriced
  <2>6. PICK c \in Nat : c = StepCost(grid, Bundle, t.place, t.direction, m)
    <3>1. t.place \in Nodes(grid)
      BY <2>4 DEF Compared, IsFound, D
    <3>2. m.to \in Nodes(grid)
      BY <3>1, BundleMoveFacts DEF IsStep, Compared
    <3> QED
      BY <3>1, <3>2, StepCostIsNatural DEF Compared
  <2>7. s \in DOMAIN at[k + 1] /\ at[k + 1][s] <= Sat(at[k][t] + c)
    <3>1. IsExtended(at[k], at[k + 1])
      BY DEF AreRelaxed
    <3> QED
      BY <2>4, <2>5, <2>6, <3>1, Zenon DEF IsExtended
  <2>8. PICK x \in Nat, y \in Nat : x = at[k][t] /\ y = reached[t].cost /\ x <= y
    BY <1>1, <1>6, <2>1, <2>4
  <2>9. Sat(x + c) <= Sat(y + c) /\ Sat(x + c) \in Nat /\ Sat(y + c) \in Nat
    <3>1. x + c \in Nat /\ y + c \in Nat /\ x + c <= y + c
      BY <2>8
    <3> QED
      BY <3>1, SatFacts
  <2>10. at[k + 1][s] <= Sat(x + c) /\ Sat(y + c) <= reached[s].cost
    BY <2>5, <2>6, <2>7, <2>8
  <2>11. at[k + 1][s] \in Nat /\ reached[s].cost \in Nat
    BY <1>1, <1>6, <2>1, <2>2, <2>7
  <2>12. at[k + 1][s] <= reached[s].cost
    BY <2>9, <2>10, <2>11
  <2>13. s \in within[k + 1]
    BY <1>5, <2>1, <2>2, <2>7, <2>12
  <2> QED
    BY <2>2, <2>13
<1> DEFINE rootless == {k \in 0 .. N : ~\A s \in D : reached[s].from = s => s \in within[k]}
<1> HIDE DEF within, D, prev
<1>10. rootless = {}
  <2> SUFFICES ASSUME rootless # {}
               PROVE  FALSE
    OBVIOUS
  <2>0. rootless \subseteq Nat
    OBVIOUS
  <2>1. PICK k \in rootless : \A j \in rootless : k <= j
    <3> HIDE DEF rootless
    <3> QED
      BY <2>0, LeastNatural
  <2>2. k \in 0 .. N /\ k # 0 /\ k - 1 \in 0 .. (N - 1) /\ k - 1 \notin rootless /\ (k - 1) + 1 = k
    BY <1>7, <2>1
  <2>3. \A s \in D : reached[s].from = s => s \in within[k - 1]
    BY <2>2
  <2>4. within[k - 1] \subseteq within[k]
    BY <1>8, <2>2
  <2> QED
    BY <2>1, <2>3, <2>4
<1>11. bad = {}
  <2> SUFFICES ASSUME bad # {}
               PROVE  FALSE
    OBVIOUS
  <2>0. bad \subseteq Nat
    OBVIOUS
  <2>1. PICK k \in bad : \A j \in bad : k <= j
    <3> HIDE DEF bad
    <3> QED
      BY <2>0, LeastNatural
  <2>2. k \in 0 .. N /\ within[k] # D /\ ~(k <= Cardinality(within[k]))
    BY <2>1
  <2>3. k # 0
    BY <1>4, <2>2
  <2>4. PICK j \in 0 .. (N - 1) : j + 1 = k /\ j \notin bad
    <3>1. k - 1 \in 0 .. (N - 1) /\ (k - 1) + 1 = k /\ k - 1 \notin bad
      BY <2>1, <2>2, <2>3
    <3> QED
      BY <3>1
  <2>5. within[j] \subseteq within[k] /\ j \in 0 .. N
    BY <1>8, <2>4
  <2>6. within[j] # D
    BY <1>3, <2>2, <2>5
  <2>7. j <= Cardinality(within[j])
    BY <2>4, <2>5, <2>6
  <2>8. within[j] # within[k]
    BY <1>9, <1>10, <2>4, <2>5, <2>6
  <2>9. Cardinality(within[j]) < Cardinality(within[k])
    BY <1>4, <2>2, <2>5, <2>8, SmallerSubset
  <2> QED
    BY <1>4, <2>2, <2>4, <2>5, <2>7, <2>9
<1>12. within[N] = D \/ N <= Cardinality(within[N])
  BY <1>11
<1>13. within[N] = D
  <2>1. ASSUME N <= Cardinality(within[N])
        PROVE  within[N] = D
    <3>1. within[N] \in SUBSET D /\ N \in 0 .. N
      BY <1>3
    <3>2. Cardinality(within[N]) <= Cardinality(D)
      BY <1>2, <3>1, FS_Subset
    <3>3. Cardinality(within[N]) = Cardinality(D)
      BY <1>2, <1>4, <2>1, <3>1, <3>2
    <3> QED
      BY <1>2, <3>1, <3>3, FS_Subset
  <2> QED
    BY <1>12, <2>1
<1> QED
  BY <1>5, <1>13 DEF D

(* What no entry of the queue promises to beat, no open way beats.          *)
LEMMA NoWayIsCheaper ==
  ASSUME Compared, NEW N \in Nat, NEW at, AreRelaxed(at, N),
         NEW c \in Nat, \A e \in queue : c <= e.estimate
  PROVE  \A s \in DOMAIN at[N] :
           \/ c <= Sat(at[N][s] + Estimate(Bundle, s.place, Targets))
           \/ s.place \notin Targets
<1> DEFINE Left(s, v) == \/ c <= Sat(v + Estimate(Bundle, s.place, Targets))
                         \/ /\ s \in DOMAIN reached /\ reached[s].cost <= v
                            /\ IsClosed(s, reached, grid, Bundle, Targets)
           bad == {k \in 0 .. N : ~\A s \in DOMAIN at[k] : Left(s, at[k][s])}
<1>1. Aims(Bundle, grid, Targets)
  BY DEF Compared, IsSearched, Aims, CostsCount
<1>2. \A s \in DOMAIN reached : reached[s].cost \in Nat /\ s.place \in Nodes(grid)
  BY RouterAssumption DEF Compared, IsFound
<1>3. \A k \in 0 .. N : \A s \in DOMAIN at[k] : at[k][s] \in Nat /\ s.place \in Nodes(grid)
  BY RouterAssumption DEF AreRelaxed, AreCosts
<1>4. ASSUME NEW s \in DOMAIN reached, NEW v \in Nat, reached[s].cost <= v
      PROVE  Left(s, v)
  <2>1. CASE IsClosed(s, reached, grid, Bundle, Targets)
    BY <1>4, <2>1
  <2>2. CASE Entry(Bundle, Targets, reached[s].cost, s) \in queue
    <3>1. PICK h \in Nat : h = Estimate(Bundle, s.place, Targets)
      BY <1>1, <1>2, EstimateFacts
    <3>2. PICK r \in Nat : r = reached[s].cost
      BY <1>2
    <3>3. c <= Sat(r + h)
      BY <2>2, <3>1, <3>2 DEF Entry
    <3>4. Sat(r + h) <= Sat(v + h) /\ Sat(r + h) \in Nat /\ Sat(v + h) \in Nat
      <4>1. r + h \in Nat /\ v + h \in Nat /\ r + h <= v + h
        BY <1>4, <3>2
      <4> QED
        BY <4>1, SatFacts
    <3>5. c <= Sat(v + h)
      BY <3>3, <3>4
    <3> QED
      BY <3>1, <3>5
  <2> QED
    BY <2>1, <2>2 DEF Compared, IsSearched
<1>5. \A s \in DOMAIN at[0] : Left(s, at[0][s])
  <2> TAKE s \in DOMAIN at[0]
  <2>1. PICK p \in tree : s = State(p, "None") /\ at[0][s] = 0
    BY DEF AreRelaxed
  <2>2. s \in DOMAIN reached /\ reached[s].cost = 0
    BY <2>1, Zenon DEF Compared, IsSearched
  <2>3. Left(s, 0)
    <3> HIDE DEF Left
    <3> QED
      BY <1>4, <2>2
  <2> QED
    BY <2>1, <2>3
<1>6. ASSUME NEW k \in 0 .. (N - 1), \A s \in DOMAIN at[k] : Left(s, at[k][s]), NEW s \in DOMAIN at[k + 1]
      PROVE  Left(s, at[k + 1][s])
  <2>1. IsExtended(at[k], at[k + 1]) /\ k \in 0 .. N /\ k + 1 \in 0 .. N
    BY DEF AreRelaxed
  <2>2. CASE s \in DOMAIN at[k] /\ at[k + 1][s] = at[k][s]
    BY <1>6, <2>2
  <2>3. ASSUME NEW t \in DOMAIN at[k], NEW m \in BundleMoves(grid, Bundle, t.place),
               s = State(m.to, m.direction),
               at[k + 1][s] = Sat(at[k][t] + StepCost(grid, Bundle, t.place, t.direction, m))
        PROVE  Left(s, at[k + 1][s])
    <3>1. t.place \in Nodes(grid) /\ s.place = m.to /\ m.to \in Nodes(grid)
      BY <1>1, <1>3, <2>1, <2>3, StateParts, BundleMoveFacts DEF IsStep, Aims
    <3>2. PICK x \in Nat, d \in Nat, h \in Nat, g \in Nat :
            /\ x = at[k][t] /\ d = StepCost(grid, Bundle, t.place, t.direction, m)
            /\ h = Estimate(Bundle, t.place, Targets) /\ g = Estimate(Bundle, s.place, Targets)
            /\ h <= d + g
      <4>1. StepCost(grid, Bundle, t.place, t.direction, m) \in Nat
        BY <1>1, <3>1, StepCostIsNatural DEF Compared
      <4>2. Estimate(Bundle, t.place, Targets) \in Nat /\ Estimate(Bundle, s.place, Targets) \in Nat
        BY <1>1, <3>1, EstimateFacts
      <4>3. Estimate(Bundle, t.place, Targets)
              <= StepCost(grid, Bundle, t.place, t.direction, m) + Estimate(Bundle, m.to, Targets)
        BY <1>1, <3>1, EstimateIsConsistent DEF Compared
      <4> QED
        BY <1>3, <2>1, <3>1, <4>1, <4>2, <4>3
    <3>3. at[k + 1][s] = Sat(x + d) /\ Sat(x + d) \in Nat
      <4>1. x + d \in Nat
        OBVIOUS
      <4> QED
        BY <2>3, <3>2, <4>1, SatFacts
    <3>4. CASE c <= Sat(x + h)
      <4>1. x + h \in Nat /\ x + (d + g) \in Nat /\ x + h <= x + (d + g) /\ x + (d + g) = (x + d) + g /\ x + d \in Nat
        BY <3>2
      <4>2. Sat(x + h) <= Sat((x + d) + g) /\ Sat(x + h) \in Nat /\ Sat((x + d) + g) \in Nat
        BY <4>1, SatFacts
      <4>3. Sat((x + d) + g) = Sat(Sat(x + d) + g)
        BY <4>1, SatFacts
      <4>4. c <= Sat(Sat(x + d) + g)
        BY <3>4, <4>2, <4>3
      <4> QED
        BY <3>2, <3>3, <4>4
    <3>5. CASE t \in DOMAIN reached /\ reached[t].cost <= x /\ IsClosed(t, reached, grid, Bundle, Targets)
      <4>1. PICK y \in Nat : y = reached[t].cost /\ y <= x
        BY <1>2, <3>5
      <4>2. s \in DOMAIN reached /\ reached[s].cost <= Sat(y + d)
        BY <2>3, <3>2, <3>5, <4>1 DEF IsClosed
      <4>3. Sat(y + d) <= Sat(x + d) /\ Sat(y + d) \in Nat
        <5>1. x + d \in Nat /\ y + d \in Nat /\ y + d <= x + d
          BY <4>1
        <5> QED
          BY <5>1, SatFacts
      <4>4. reached[s].cost <= Sat(x + d)
        BY <1>2, <3>3, <4>2, <4>3
      <4>5. Left(s, Sat(x + d))
        <5> HIDE DEF Left
        <5> QED
          BY <1>4, <3>3, <4>2, <4>4
      <4> QED
        BY <3>3, <4>5
    <3> QED
      BY <1>6, <3>2, <3>4, <3>5
  <2>4. \/ s \in DOMAIN at[k] /\ at[k + 1][s] = at[k][s]
        \/ \E t \in DOMAIN at[k] : \E m \in BundleMoves(grid, Bundle, t.place) :
             /\ s = State(m.to, m.direction)
             /\ at[k + 1][s] = Sat(at[k][t] + StepCost(grid, Bundle, t.place, t.direction, m))
    BY <2>1, Zenon DEF IsExtended
  <2> HIDE DEF Left
  <2> QED
    BY <2>2, <2>3, <2>4
<1>7. bad = {}
  <2> SUFFICES ASSUME bad # {}
               PROVE  FALSE
    OBVIOUS
  <2> HIDE DEF Left
  <2>0. bad \subseteq Nat
    OBVIOUS
  <2>1. PICK k \in bad : \A j \in bad : k <= j
    <3> HIDE DEF bad
    <3> QED
      BY <2>0, LeastNatural
  <2>2. PICK j \in 0 .. (N - 1) : j + 1 = k /\ j \notin bad
    <3>1. k # 0
      BY <1>5, <2>1
    <3>2. k - 1 \in 0 .. (N - 1) /\ (k - 1) + 1 = k /\ k - 1 \notin bad
      BY <2>1, <3>1
    <3> QED
      BY <3>2
  <2>3. \A s \in DOMAIN at[j] : Left(s, at[j][s])
    BY <2>2
  <2>4. \A s \in DOMAIN at[j + 1] : Left(s, at[j + 1][s])
    BY <1>6, <2>3
  <2> QED
    BY <2>1, <2>2, <2>4
<1>8. \A s \in DOMAIN at[N] : Left(s, at[N][s])
  BY <1>7
<1> QED
  BY <1>8 DEF IsClosed

(* Whatever the penalties, the board and its rules: a search that arrives   *)
(* arrives on a cheapest legal way, and one that gives up misses none.      *)
LEMMA FoundIsCheapest ==
  ASSUME RouterInv, FrontInv
  PROVE  SearchIsCheapest
<1> SUFFICES ASSUME status = "searching"
             PROVE  /\ queue = {} => {s \in DOMAIN CheapestCosts : s.place \in Targets} = {}
                    /\ \A top \in queue : IsTop(top) /\ Arrived(top) =>
                         top.cost = Min({CheapestCosts[s] : s \in {s \in DOMAIN CheapestCosts : s.place \in Targets}})
  BY Zenon DEF SearchIsCheapest
<1>1. Searching /\ IsSearched(reached, queue, grid, Bundle, Targets, tree)
  BY DEF RouterInv, SearchInv, FrontInv
<1>2. Compared
  <2>1. CostsCount
    BY DEF CostsCount, RouterInv, CallInv, PassInv, RoutesAreGood
  <2>2. IsGrid(grid) /\ IsSound(Bundle, grid) /\ tree \subseteq Nodes(grid) /\ IsFound(reached, grid, Bundle, tree)
    BY <1>1, BundleFacts DEF RouterInv, CallInv, Searching
  <2>3. Targets \subseteq Nodes(grid)
    <3>1. Len(paths) \in Nat /\ Len(paths) + 2 <= Len(Bundle.places) /\ pending # <<>>
      BY <1>1 DEF Searching, AreWays
    <3>2. Len(paths) + 2 \in 1 .. Len(Bundle.places)
      BY <3>1, PlacesFacts
    <3> QED
      BY <3>1, <3>2, PlacesFacts DEF Targets
  <2> QED
    BY <1>1, <2>1, <2>2, <2>3 DEF Compared
<1>3. PICK N \in Nat : N = Cardinality(States)
  BY <1>2, StatesAreFinite DEF Compared
<1>4. PICK at : AreRelaxed(at, N) /\ CheapestCosts = at[N]
  BY <1>2, <1>3, CostsAreRelaxed
<1>5. PICK costs : costs = CheapestCosts
  OBVIOUS
<1>6. \A s \in DOMAIN costs : costs[s] \in 0 .. MaxCost /\ costs[s] \in Nat /\ s.place \in Nodes(grid)
  BY <1>4, <1>5, RouterAssumption DEF AreRelaxed, AreCosts
<1>7. Aims(Bundle, grid, Targets)
  BY <1>2 DEF Compared, IsSearched, Aims, CostsCount
<1>8. \A s \in DOMAIN costs : s.place \in Targets => Sat(costs[s] + Estimate(Bundle, s.place, Targets)) = costs[s]
  <2> TAKE s \in DOMAIN costs
  <2> HAVE s.place \in Targets
  <2>1. Estimate(Bundle, s.place, Targets) = 0
    BY <1>6, <1>7, EstimateFacts
  <2>2. costs[s] + Estimate(Bundle, s.place, Targets) = costs[s]
    BY <1>6, <2>1
  <2> QED
    BY <1>6, <2>2, SatFacts
<1>9. ASSUME NEW c \in Nat, \A e \in queue : c <= e.estimate, NEW s \in DOMAIN costs, s.place \in Targets
      PROVE  c <= costs[s]
  BY <1>2, <1>4, <1>5, <1>8, <1>9, NoWayIsCheaper
<1>10. ASSUME queue = {}
       PROVE  {s \in DOMAIN costs : s.place \in Targets} = {}
  <2>1. MaxCost + 1 \in Nat
    BY RouterAssumption
  <2>2. ASSUME NEW s \in DOMAIN costs, s.place \in Targets
        PROVE  FALSE
    <3>1. MaxCost + 1 <= costs[s]
      BY <1>9, <1>10, <2>1, <2>2
    <3> QED
      BY <1>6, <3>1, RouterAssumption
  <2> QED
    BY <2>2
<1>11. ASSUME NEW top \in queue, IsTop(top), Arrived(top)
       PROVE  top.cost = Min({costs[s] : s \in {s \in DOMAIN costs : s.place \in Targets}})
  <2> DEFINE arrived == {s \in DOMAIN costs : s.place \in Targets}
             all == {costs[s] : s \in arrived}
  <2>1. /\ top.state \in DOMAIN reached /\ top.cost = reached[top.state].cost /\ top.cost \in 0 .. MaxCost
        /\ top.state.place \in Nodes(grid) /\ top.state.place \in Targets
    BY <1>11, TopFacts DEF Arrived, Expandable
  <2>2. top.cost \in Nat
    BY <2>1, RouterAssumption
  <2>3. \A e \in queue : e.estimate \in Nat /\ e.estimate = Sat(e.cost + Estimate(Bundle, e.state.place, Targets))
    <3> TAKE e \in queue
    <3>1. e = Entry(Bundle, Targets, e.cost, e.state)
      BY <1>1 DEF IsSearched
    <3>2. e.estimate = Sat(e.cost + Estimate(Bundle, e.state.place, Targets))
      BY <3>1 DEF Entry
    <3>3. e.state.place \in Nodes(grid) /\ e.cost \in Nat
      BY <1>1, RouterAssumption DEF Searching, IsFound
    <3>4. e.cost + Estimate(Bundle, e.state.place, Targets) \in Nat
      BY <1>7, <3>3, EstimateFacts
    <3> QED
      BY <3>2, <3>4, SatFacts
  <2>4. top.estimate = top.cost
    <3>1. Estimate(Bundle, top.state.place, Targets) = 0
      BY <1>7, <2>1, EstimateFacts
    <3>2. top.estimate = Sat(top.cost + 0)
      BY <2>3, <3>1
    <3>3. top.cost + 0 = top.cost
      BY <2>2
    <3> QED
      BY <2>1, <3>2, <3>3, SatFacts
  <2>5. \A e \in queue : top.cost <= e.estimate
    <3> TAKE e \in queue
    <3>1. e = top \/ top.estimate < e.estimate \/ top.estimate = e.estimate
      BY <1>11 DEF IsTop, Before
    <3> QED
      BY <2>2, <2>3, <2>4, <3>1
  <2>6. top.state \in arrived /\ costs[top.state] <= top.cost
    BY <1>2, <1>3, <1>4, <1>5, <2>1, FoundIsNoCheaper
  <2>7. \A s \in arrived : top.cost <= costs[s]
    BY <1>9, <2>2, <2>5
  <2>8. all \subseteq Nat /\ costs[top.state] \in all
    BY <1>6, <2>6
  <2>9. Min(all) \in all /\ \A y \in all : Min(all) <= y
    <3> HIDE DEF all
    <3> QED
      BY <2>8, MinOfNaturals
  <2>10. PICK s \in arrived : Min(all) = costs[s]
    BY <2>9
  <2>11. top.cost <= Min(all) /\ Min(all) <= costs[top.state]
    BY <2>7, <2>8, <2>9, <2>10
  <2>12. Min(all) \in Nat /\ costs[top.state] \in Nat
    BY <2>8, <2>9
  <2> HIDE DEF all, arrived
  <2>13. top.cost = Min(all)
    BY <2>2, <2>6, <2>11, <2>12
  <2> QED
    BY <2>13 DEF all, arrived
<1> QED
  BY <1>5, <1>10, <1>11, Zenon

(* Every connection the router finds is a cheapest one, the penalties for   *)
(* shared resources, earlier conflicts, bends and vias counted, and it      *)
(* reports that there is no path only when no legal way leads to the        *)
(* terminal (`search_connection`, `route_differential_pair`): on every      *)
(* board, under every policy.                                               *)
THEOREM SearchesAreCheapest == RouterSpec => []SearchIsCheapest
<1>1. RouterInit => FrontInv
  BY DEF RouterInit, FrontInv
<1>2. RouterInv /\ FrontInv /\ [RouterNext]_routerVars => FrontInv'
  BY FrontStays
<1>3. RouterInv /\ FrontInv => SearchIsCheapest
  BY FoundIsCheapest
<1> QED
  BY <1>1, <1>2, <1>3, RouterInvHolds, PTL DEF RouterSpec
=============================================================================
