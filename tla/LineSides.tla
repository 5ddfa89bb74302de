------------------------------ MODULE LineSides ------------------------------
(***************************************************************************)
(* What CrossingDetector (detector/app/crossing.py) keeps of one track and *)
(* how a sample changes it: pure functions.                                *)
(***************************************************************************)
EXTENDS Integers

CONSTANTS
  ConfirmFrames,  \* crossing_confirm_frames
  InsideSign      \* EntranceLine.inside_sign

ASSUME LineSidesAssumption ==
  /\ ConfirmFrames \in Nat \ {0}
  /\ InsideSign \in {-1, 1}

\* The committed side, and the candidate side with its count; 0 is none.
SideState == [committed : {-1, 0, 1}, candidate : {-1, 0, 1}, count : Nat]
Settled(side) == [committed |-> side, candidate |-> 0, count |-> 0]

\* How often in a row the side has been sampled against the committed one.
CountOf(c, side) == (IF c.candidate = side THEN c.count ELSE 0) + 1

Crosses(c, side) == side # 0 /\ c.committed = -side /\ CountOf(c, side) >= ConfirmFrames

\* Mutant: a sample on the committed side does not cancel the pending flip.
Sampled_NoCancel(c, side) ==
  IF side = 0 THEN c
  ELSE IF c.committed = 0 \/ Crosses(c, side) THEN Settled(side)
  ELSE IF c.committed = side THEN c
  ELSE [c EXCEPT !.candidate = side, !.count = CountOf(c, side)]

\* Mutant: the flip is reported but not committed.
Sampled_NoCommit(c, side) ==
  IF side = 0 THEN c
  ELSE IF c.committed \in {0, side} THEN Settled(side)
  ELSE IF Crosses(c, side) THEN Settled(c.committed)
  ELSE [c EXCEPT !.candidate = side, !.count = CountOf(c, side)]

Sampled(c, side) ==
  IF side = 0 THEN c
  ELSE IF c.committed \in {0, side} \/ Crosses(c, side) THEN Settled(side)
  ELSE [c EXCEPT !.candidate = side, !.count = CountOf(c, side)]

TypeOfCrossing(side) == IF side = InsideSign THEN "ENTRY" ELSE "EXIT"

===============================================================================
