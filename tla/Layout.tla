-------------------------------- MODULE Layout --------------------------------
(***************************************************************************)
(* Where a box stands on a camera's picture: EntranceLine and FloorRegion  *)
(* (contracts/zones.py), the foot point of a BBox (contracts/events.py)    *)
(* and the size gate (detector/app/gating.py).  A box is its two corners,  *)
(* as ByteTrack gives it; pixels are whole, and so are foot points.        *)
(***************************************************************************)
EXTENDS Integers, Sequences, FiniteSets

CONSTANT MinBoxFrac  \* min_detection_box_frac, in parts per 10000

\* bottom centre
Foot(b) == [x |-> (b.x1 + b.x2) \div 2, y |-> b.y2]

\* Which side of the directed line from a to c the point p is on.
Cross(a, c, p) == (c.x - a.x) * (p.y - a.y) - (c.y - a.y) * (p.x - a.x)
Sign(n) == IF n > 0 THEN 1 ELSE IF n < 0 THEN -1 ELSE 0

SideOf(line, p) == Sign(Cross(line.from, line.to, p))

IsInside(line, p, insideSign) == SideOf(line, p) = insideSign

\* The ray to the right of p meets the edge from c to a: its lower end belongs
\* to the edge and its upper end does not.  The division of the code is
\* multiplied out.
Intersects(a, c, p) ==
  LET lhs == (p.x - a.x) * (c.y - a.y)
      rhs == (c.x - a.x) * (p.y - a.y)
  IN /\ (a.y > p.y) # (c.y > p.y)
     /\ IF c.y > a.y THEN lhs < rhs ELSE lhs > rhs

Before(floor, i) == floor[IF i = 1 THEN Len(floor) ELSE i - 1]

\* Odd crossings are inside; fewer than three vertices, or none given, constrain
\* nothing.
ContainsPoint(floor, p) ==
  \/ Len(floor) < 3
  \/ Cardinality({i \in 1..Len(floor) : Intersects(floor[i], Before(floor, i), p)}) % 2 = 1

PassesSizeGate(b, frame) ==
  \/ MinBoxFrac <= 0
  \/ (b.x2 - b.x1) * (b.y2 - b.y1) * 10000 >= MinBoxFrac * frame.w * frame.h

===============================================================================
