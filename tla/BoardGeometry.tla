---------------------------- MODULE BoardGeometry ----------------------------
(***************************************************************************)
(* Points, axis-aligned boxes and the distances between them, on integers: *)
(* a point is <<x, y>>, a box [low, high], a straight line along an axis   *)
(* the box of its ends.                                                    *)
(***************************************************************************)
EXTENDS Integers, Sequences, FiniteSets, SequencesExt

IsPoint(p) == p \in Int \X Int
Moved(p, q) == <<p[1] + q[1], p[2] + q[2]>>
Turned(p, turn) ==
  CASE turn = 0 -> p
    [] turn = 1 -> <<-p[2], p[1]>>
    [] turn = 2 -> <<-p[1], -p[2]>>
    [] turn = 3 -> <<p[2], -p[1]>>

(* The transform of a placement: its side, its turn, its place.            *)
Onto(place, p) ==
  Moved(Turned(IF place.side = "Back" THEN <<-p[1], p[2]>> ELSE p, place.turn), place.at)

Around(points) ==
  [low |-> <<Min({p[1] : p \in points}), Min({p[2] : p \in points})>>,
   high |-> <<Max({p[1] : p \in points}), Max({p[2] : p \in points})>>]
Corners(box) == {<<box.low[1], box.low[2]>>, <<box.low[1], box.high[2]>>,
                 <<box.high[1], box.low[2]>>, <<box.high[1], box.high[2]>>}
Grown(box, by) == [low |-> Moved(box.low, <<-by, -by>>), high |-> Moved(box.high, <<by, by>>)]

Manhattan(p, q) ==
  Max({p[1] - q[1], q[1] - p[1]}) + Max({p[2] - q[2], q[2] - p[2]})

(* The square of the distance between two boxes.                           *)
GapSquared(a, b) ==
  LET gap(k) == Max({0, a.low[k] - b.high[k], b.low[k] - a.high[k]})
  IN gap(1) * gap(1) + gap(2) * gap(2)
ClearOf(a, b, distance) == GapSquared(a, b) >= distance * distance

(* A line as wide as twice the radius stays on a board with an outline and *)
(* cutouts.                                                                *)
OnBoardBy(board, line, radius) ==
  /\ \A k \in {1, 2} : /\ board.outline.low[k] + radius <= line.low[k]
                       /\ line.high[k] + radius <= board.outline.high[k]
  /\ \A cutout \in board.cutouts : ClearOf(line, cutout, radius)
=============================================================================
