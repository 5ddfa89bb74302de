----------------------------- MODULE ZoneTracker -----------------------------
(***************************************************************************)
(* ZoneTracker (detector/app/zone_tracker.py) and the frame loop that      *)
(* feeds it (process_camera, detector/app/main.py): the presence of the    *)
(* tracks of one camera becomes ZONE_ENTER, ZONE_DWELL and ZONE_EXIT.      *)
(* Every frame observes the tracks that are inside, then sweeps; the end   *)
(* of the clip flushes.                                                    *)
(***************************************************************************)
EXTENDS ZonePresence, FiniteSets, SequencesExt

CONSTANTS
  Tracks,         \* local ids of the camera
  FrameInterval,  \* ms between two sampled frames
  MaxFrames       \* bound: sampled frames of the clip (detector_max_frames)

ASSUME ZoneTrackerAssumption ==
  {FrameInterval, MaxFrames} \subseteq Nat \ {0}

VARIABLES
  now,        \* media time of the frame
  phase,      \* "frame", "swept" when the frame is done, "closed" after the clip
  state,      \* _state: the presence of the tracks it knows
  log,        \* history: the events emitted for each track
  sightings   \* history: when each track was observed

vars == <<now, phase, state, log, sightings>>

-------------------------------------------------------------------------------

Init ==
  /\ now = 0 /\ phase = "frame"
  /\ state = <<>>
  /\ log = [t \in Tracks |-> <<>>]
  /\ sightings = [t \in Tracks |-> {}]

Observed(t, p) == state' = [u \in DOMAIN state \cup {t} |-> IF u = t THEN p ELSE state[u]]

\* A track inside the zone; two boxes that share a local id observe it twice.
Observe(t) ==
  /\ phase = "frame"
  /\ sightings' = [sightings EXCEPT ![t] = @ \cup {now}]
  /\ \/ t \notin DOMAIN state /\ Observed(t, FirstSeen(now)) /\ UNCHANGED log
     \/ /\ t \in DOMAIN state
        /\ Observed(t, SeenAgain(state[t], now))
        /\ log' = [log EXCEPT ![t] = @ \o EventsOfSeenAgain(state[t], now)]
  /\ UNCHANGED <<now, phase>>

\* The visits of the tracks in gone end, the others go on.
End(gone) ==
  /\ state' = [t \in DOMAIN state \ gone |-> state[t]]
  /\ log' = [t \in Tracks |-> IF t \in gone THEN log[t] \o EventsOfEnd(state[t]) ELSE log[t]]

Sweep ==
  /\ phase = "frame"
  /\ phase' = "swept"
  /\ End({t \in DOMAIN state : Absent(state[t], now)})
  /\ UNCHANGED <<now, sightings>>

NextFrame ==
  /\ phase = "swept" /\ now < (MaxFrames - 1) * FrameInterval
  /\ phase' = "frame" /\ now' = now + FrameInterval
  /\ UNCHANGED <<state, log, sightings>>

\* Mutant: the tracks still present at the end of the clip are forgotten.
Flush_Forget ==
  /\ phase = "swept"
  /\ phase' = "closed"
  /\ state' = <<>>
  /\ UNCHANGED <<now, log, sightings>>

\* The clip ends after any frame.
Flush ==
  /\ phase = "swept"
  /\ phase' = "closed"
  /\ End(DOMAIN state)
  /\ UNCHANGED <<now, sightings>>

Next == (\E t \in Tracks : Observe(t)) \/ Sweep \/ NextFrame \/ Flush

Spec == Init /\ [][Next]_vars

-------------------------------------------------------------------------------
(* Properties *)

TypeOK ==
  /\ now \in Nat /\ phase \in {"frame", "swept", "closed"}
  /\ DOMAIN state \subseteq Tracks
  /\ state \in [DOMAIN state -> Presence]
  /\ log \in [Tracks -> Seq(ZoneEvent)]
  /\ sightings \in [Tracks -> SUBSET Nat]

\* What the tracker knows of a track agrees with what was reported of it: a
\* visit is entered exactly once it lasted long enough, every whole interval of
\* an entered visit has been reported, and a track that the sweep leaves in the
\* state has not been absent for longer than the grace.
PresenceInv ==
  /\ TypeOK
  /\ \A t \in DOMAIN state :
      LET p == state[t] IN
      /\ p.first <= p.last /\ p.last <= now
      /\ p.entered => p.last - p.first >= MinZoneDwell
      /\ p.first < p.last /\ ~p.entered => p.last - p.first < MinZoneDwell
      /\ ~p.entered => p.ticks = 0
      /\ p.entered => /\ p.ticks * DwellInterval <= p.last - p.first
                      /\ p.last - p.first < (p.ticks + 1) * DwellInterval
      /\ phase = "swept" => now - p.last <= ExitGrace

\* The reports of a track are visits one after the other: entered, with any
\* dwells of rising length, left; and one is open exactly when the tracker is in it.
WellBracketed ==
  \A t \in Tracks :
    LET es == log[t] IN
    /\ \A i \in 1..Len(es) :
         es[i].type = "ZONE_ENTER" <=> (i = 1 \/ es[i - 1].type = "ZONE_EXIT")
    /\ \A i, j \in 1..Len(es) : i < j => es[i].ts <= es[j].ts
    /\ (es # <<>> /\ Last(es).type # "ZONE_EXIT") <=> (t \in DOMAIN state /\ state[t].entered)

\* The visits that a set S of sightings shows: a visit starts at a sighting
\* unless no frame since the sighting before it came after the grace.
Frames == {i * FrameInterval : i \in 0..(MaxFrames - 1)}
StartsVisit(S, s) ==
  \A x \in S : x < s =>
    \/ \E y \in S : x < y /\ y < s
    \/ \E f \in Frames : x < f /\ f < s /\ f - x > ExitGrace
Visit(S, s) == {x \in S : s <= x /\ \A y \in S : s < y /\ y <= x => ~StartsVisit(S, y)}
Visits(S) == {Visit(S, s) : s \in {x \in S : StartsVisit(S, x)}}

First(S) == CHOOSE x \in S : \A y \in S : x <= y
Final(S) == CHOOSE x \in S : \A y \in S : y <= x

\* The sightings of a visit at which it counts as entered, its whole intervals,
\* and the sightings at which the k-th of them is over.
Entered(v) == {x \in v : x > First(v) /\ x - First(v) >= MinZoneDwell}
Intervals(v) == 1..((Final(v) - First(v)) \div DwellInterval)
Ticked(v, k) == {x \in Entered(v) : x - First(v) >= k * DwellInterval}

\* The reports of a visit.
EnterOf(v) == Event("ZONE_ENTER", First(Entered(v)), 0)
ExitOf(v) == Event("ZONE_EXIT", Final(v), Final(v) - First(v))
DwellAt(v, x) == Event("ZONE_DWELL", x, x - First(v))

Reported(es, e) == Cardinality({i \in 1..Len(es) : es[i] = e})

\* After the clip the reports are exactly the visits that the sightings show:
\* one enter and one exit for each visit that lasts, one dwell for each of its
\* whole intervals, and nothing else.
ReportsAreTheVisits ==
  phase = "closed" =>
    \A t \in Tracks :
      LET es == log[t]
          real == {v \in Visits(sightings[t]) : Entered(v) # {}}
      IN
      /\ \A v \in real :
           /\ Reported(es, EnterOf(v)) = 1
           /\ Reported(es, ExitOf(v)) = 1
           /\ \A x \in Entered(v) :
                Reported(es, DwellAt(v, x)) = Cardinality({k \in Intervals(v) : First(Ticked(v, k)) = x})
      /\ \A i \in 1..Len(es) : \E v \in real :
           es[i] \in {EnterOf(v), ExitOf(v)} \cup {DwellAt(v, x) : x \in Entered(v)}

===============================================================================
