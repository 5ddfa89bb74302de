----------------------------- MODULE ZonePresence -----------------------------
(***************************************************************************)
(* What ZoneTracker (detector/app/zone_tracker.py) keeps of one track, and *)
(* the events that it makes of it: pure functions of the presence and of   *)
(* the media time.                                                         *)
(***************************************************************************)
EXTENDS Integers, Sequences

CONSTANTS
  MinZoneDwell,   \* min_zone_dwell_ms
  DwellInterval,  \* zone_dwell_interval_ms
  ExitGrace       \* zone_exit_grace_ms

ASSUME ZonePresenceAssumption ==
  /\ DwellInterval \in Nat \ {0}
  /\ {MinZoneDwell, ExitGrace} \subseteq Nat

Presence == [first : Nat, last : Nat, entered : BOOLEAN, ticks : Nat]
ZoneEvent == [type : {"ZONE_ENTER", "ZONE_DWELL", "ZONE_EXIT"}, ts : Nat, dwell : Nat]

Event(type, ts, dwell) == [type |-> type, ts |-> ts, dwell |-> dwell]

FirstSeen(ts) == [first |-> ts, last |-> ts, entered |-> FALSE, ticks |-> 0]

\* Mutant: a visit is entered before it lasted long enough, when the track is
\* seen again.
SeenAgain_NoMinimum(p, ts) ==
  LET due == (ts - p.first) \div DwellInterval
  IN [p EXCEPT !.last = ts, !.entered = TRUE, !.ticks = IF due > @ THEN due ELSE @]

\* Mutant: one dwell event per sighting, however many are due.
SeenAgain_OneTick(p, ts) ==
  LET present == ts - p.first
      entered == p.entered \/ present >= MinZoneDwell
      due     == present \div DwellInterval
  IN [p EXCEPT !.last = ts, !.entered = entered,
               !.ticks = IF entered /\ due > @ THEN @ + 1 ELSE @]

\* A known track is present at ts; ticks counts the whole dwell intervals that
\* have been reported, from the moment the zone is entered.
SeenAgain(p, ts) ==
  LET present == ts - p.first
      entered == p.entered \/ present >= MinZoneDwell
      due     == present \div DwellInterval
  IN [p EXCEPT !.last = ts, !.entered = entered,
               !.ticks = IF entered /\ due > @ THEN due ELSE @]

\* What observe returns for it.
EventsOfSeenAgain(p, ts) ==
  LET q == SeenAgain(p, ts)
  IN (IF q.entered /\ ~p.entered THEN <<Event("ZONE_ENTER", ts, 0)>> ELSE <<>>)
       \o [i \in 1..(q.ticks - p.ticks) |-> Event("ZONE_DWELL", ts, ts - p.first)]

\* An entered visit ends when the track was last seen.
EventsOfEnd(p) ==
  IF p.entered THEN <<Event("ZONE_EXIT", p.last, p.last - p.first)>> ELSE <<>>

Absent(p, ts) == ts - p.last > ExitGrace

===============================================================================
