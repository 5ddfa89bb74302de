------------------------------- MODULE Crossing -------------------------------
(***************************************************************************)
(* CrossingDetector (detector/app/crossing.py): the side of the entrance   *)
(* line on which each track is sampled becomes ENTRY and EXIT.  A new side *)
(* counts when it was sampled confirm_frames times in a row; a sample on   *)
(* the line is ignored.                                                    *)
(***************************************************************************)
EXTENDS LineSides, FiniteSets, Sequences

CONSTANT Tracks  \* local ids of the entrance camera

VARIABLES
  sides,    \* _committed_side and _pending of each track
  log,      \* history: its crossings
  samples   \* history: the sides on which it was sampled and when, on the line left out

vars == <<sides, log, samples>>

CrossingEvent == [type : {"ENTRY", "EXIT"}, ts : Nat, at : Nat]
Sample == [side : {-1, 1}, ts : Nat]

-------------------------------------------------------------------------------

Init ==
  /\ sides = [t \in Tracks |-> Settled(0)]
  /\ log = [t \in Tracks |-> <<>>]
  /\ samples = [t \in Tracks |-> <<>>]

\* The foot point of a track in one frame.
Update(t, side, ts) ==
  /\ sides' = [sides EXCEPT ![t] = Sampled(@, side)]
  /\ samples' = [samples EXCEPT ![t] =
       IF side = 0 THEN @ ELSE Append(@, [side |-> side, ts |-> ts])]
  /\ log' = [log EXCEPT ![t] =
       IF Crosses(sides[t], side)
       THEN Append(@, [type |-> TypeOfCrossing(side), ts |-> ts, at |-> Len(samples[t]) + 1])
       ELSE @]

Next == \E t \in Tracks, side \in {-1, 0, 1}, ts \in Nat : Update(t, side, ts)

Spec == Init /\ [][Next]_vars

-------------------------------------------------------------------------------
(* Properties *)

\* The candidate is never the committed side, and is counted while it is there.
TypeOK ==
  /\ sides \in [Tracks -> SideState]
  /\ log \in [Tracks -> Seq(CrossingEvent)]
  /\ samples \in [Tracks -> Seq(Sample)]
  /\ \A t \in Tracks :
       /\ sides[t].candidate \in {0, -sides[t].committed}
       /\ sides[t].count \in (IF sides[t].candidate = 0 THEN {0} ELSE 1..(ConfirmFrames - 1))

\* The crossings of a track, defined from its samples: the ends of runs of
\* ConfirmFrames equal samples on the other side than the last such run, or
\* than the first sample.
RunEnds(h) ==
  {k \in ConfirmFrames..Len(h) : \A i \in (k - ConfirmFrames + 1)..k : h[i].side = h[k].side}
SideBefore(h, k) ==
  LET earlier == {j \in RunEnds(h) : j < k}
  IN h[IF earlier = {} THEN 1 ELSE CHOOSE j \in earlier : \A i \in earlier : i <= j].side
CrossingPoints(h) == {k \in RunEnds(h) : SideBefore(h, k) # h[k].side}

\* Every flip that persists is reported, in order and once, and flicker near the
\* line is not ("a new side must persist for confirm_frames consecutive
\* samples", crossing.py).
CrossingsAreRuns ==
  /\ TypeOK
  /\ \A t \in Tracks :
      LET h == samples[t]
          es == log[t]
      IN
      /\ Len(es) = Cardinality(CrossingPoints(h))
      /\ \A i \in 1..Len(es) :
           /\ es[i].at \in CrossingPoints(h)
           /\ es[i].type = TypeOfCrossing(h[es[i].at].side) /\ es[i].ts = h[es[i].at].ts
           /\ i > 1 => es[i - 1].at < es[i].at

\* A track does not leave twice without coming in, nor come in twice without
\* leaving; and it came in last exactly when it is now taken to be inside.
CrossingsAlternate ==
  \A t \in Tracks :
    /\ \A i \in 2..Len(log[t]) : log[t][i].type # log[t][i - 1].type
    /\ log[t] # <<>> =>
         log[t][Len(log[t])].type = TypeOfCrossing(sides[t].committed)

===============================================================================
