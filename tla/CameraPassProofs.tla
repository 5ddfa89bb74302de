--------------------------- MODULE CameraPassProofs ---------------------------
(***************************************************************************)
(* Proofs about the frame loop of one camera, for any set of tracks, any   *)
(* clip, floor, line, boxes and thresholds: what the zone tracker knows of *)
(* a track, that its reports are visits one after the other, and exactly   *)
(* those that its sightings show; that the crossings of a track are the    *)
(* flips that persist, and alternate; that with the gates in front of them *)
(* tracker and detector take only steps of their own specifications, so    *)
(* that what is proved of each holds of the camera; and who counts.        *)
(***************************************************************************)
EXTENDS CameraPass, FiniteSetTheorems, SequenceTheorems, WellFoundedInduction, TLAPS

-------------------------------------------------------------------------------
(* The zone tracker *)

\* PresenceInv of one track, at the time ts.
Known(p, ts) ==
  /\ p.first <= p.last /\ p.last <= ts
  /\ p.entered => p.last - p.first >= MinZoneDwell
  /\ p.first < p.last /\ ~p.entered => p.last - p.first < MinZoneDwell
  /\ ~p.entered => p.ticks = 0
  /\ p.entered => /\ p.ticks * DwellInterval <= p.last - p.first
                  /\ p.last - p.first < (p.ticks + 1) * DwellInterval

-------------------------------------------------------------------------------

\* The whole intervals in a duration.
LEMMA WholeIntervals ==
  ASSUME NEW a \in Nat
  PROVE  /\ a \div DwellInterval \in Nat
         /\ (a \div DwellInterval) * DwellInterval <= a
         /\ a < (a \div DwellInterval + 1) * DwellInterval
<1>1. DwellInterval \in Nat /\ DwellInterval > 0
  BY ZonePresenceAssumption
<1>2. /\ a \div DwellInterval \in Int /\ a % DwellInterval \in 0..(DwellInterval - 1)
      /\ a = DwellInterval * (a \div DwellInterval) + (a % DwellInterval)
  BY <1>1, SMTT(30)
<1> DEFINE q == a \div DwellInterval
<1>3. /\ q \in Int /\ q * DwellInterval <= a /\ a < q * DwellInterval + DwellInterval
  BY <1>1, <1>2, SMTT(30)
<1>4. q * DwellInterval + DwellInterval = (q + 1) * DwellInterval
  BY <1>1, <1>3, SMTT(30)
<1>5. q >= 0
  <2> SUFFICES ASSUME q <= -1 PROVE FALSE
    BY <1>3
  <2>1. (q + 1) * DwellInterval <= 0
    BY <1>1, <1>3, SMTT(30)
  <2> QED
    BY <2>1, <1>1, <1>3, <1>4
<1> QED
  BY <1>3, <1>4, <1>5

\* The count of intervals is determined by the duration.
LEMMA IntervalsAreUnique ==
  ASSUME NEW a \in Nat, NEW k \in Nat, k * DwellInterval <= a, k >= a \div DwellInterval
  PROVE  k = a \div DwellInterval
<1> DEFINE q == a \div DwellInterval
<1>1. DwellInterval \in Nat /\ DwellInterval > 0
  BY ZonePresenceAssumption
<1>2. q \in Nat /\ a < (q + 1) * DwellInterval
  BY WholeIntervals
<1> HIDE DEF q
<1>3. ASSUME k >= q + 1 PROVE FALSE
  <2>1. k * DwellInterval >= (q + 1) * DwellInterval
    BY <1>1, <1>2, <1>3, SMTT(30)
  <2>2. k * DwellInterval \in Int /\ (q + 1) * DwellInterval \in Int
    BY <1>1, <1>2
  <2> QED
    BY <2>1, <2>2, <1>2
<1> QED
  BY <1>2, <1>3 DEF q

-------------------------------------------------------------------------------

\* A sighting keeps what is known of a track.
LEMMA SightingKeepsKnown ==
  ASSUME now \in Nat, NEW p \in Presence, Known(p, now)
  PROVE  LET q == SeenAgain(p, now) IN
         /\ q \in Presence /\ Known(q, now)
         /\ q.last = now /\ q.first = p.first
         /\ p.entered => q.entered
         /\ q.ticks >= p.ticks /\ (~q.entered => q.ticks = p.ticks)
<1> DEFINE present == now - p.first
           entered == p.entered \/ present >= MinZoneDwell
           due == present \div DwellInterval
           q == SeenAgain(p, now)
<1>1. /\ p.first \in Nat /\ p.last \in Nat /\ p.ticks \in Nat /\ p.entered \in BOOLEAN
      /\ MinZoneDwell \in Nat
  BY ZonePresenceAssumption DEF Presence
<1>2. present \in Nat /\ p.last - p.first <= present
  BY <1>1 DEF Known
<1>3. due \in Nat /\ due * DwellInterval <= present /\ present < (due + 1) * DwellInterval
  BY <1>2, WholeIntervals
<1>4. q = [first |-> p.first, last |-> now, entered |-> entered,
           ticks |-> IF entered /\ due > p.ticks THEN due ELSE p.ticks]
  <2>1. q = [p EXCEPT !.last = now, !.entered = entered,
                      !.ticks = IF entered /\ due > p.ticks THEN due ELSE p.ticks]
    BY Zenon DEF SeenAgain
  <2> HIDE DEF entered, due, q
  <2> QED
    BY <2>1 DEF Presence
<1> HIDE DEF q
<1>5. q \in Presence
  BY <1>1, <1>3, <1>4 DEF Presence
<1>6. entered => q.ticks = due
  <2> SUFFICES ASSUME entered PROVE q.ticks = due
    OBVIOUS
  <2>1. CASE due > p.ticks
    BY <2>1, <1>4
  <2>2. CASE p.ticks >= due /\ p.entered
    <3>1. p.ticks * DwellInterval <= p.last - p.first
      BY <2>2 DEF Known
    <3>2. p.ticks * DwellInterval \in Int
      BY <1>1, ZonePresenceAssumption
    <3>3. p.ticks * DwellInterval <= present
      BY <3>1, <3>2, <1>1, <1>2
    <3>4. p.ticks = due
      BY <3>3, <2>2, <1>1, <1>2, IntervalsAreUnique
    <3> QED
      BY <3>4, <2>2, <1>4
  <2>3. CASE p.ticks >= due /\ ~p.entered
    <3>1. p.ticks = 0
      BY <2>3 DEF Known
    <3> QED
      BY <3>1, <2>3, <1>3, <1>4
  <2> QED
    BY <2>1, <2>2, <2>3, <1>1, <1>3
<1>7. /\ q.first = p.first /\ q.last = now /\ q.entered = entered
      /\ ~entered => q.ticks = p.ticks
  BY <1>4
<1>8. q.entered => q.ticks * DwellInterval <= q.last - q.first
                     /\ q.last - q.first < (q.ticks + 1) * DwellInterval
  BY <1>3, <1>6, <1>7
<1>9. Known(q, now)
  <2>1. q.first <= q.last /\ q.last <= now
    BY <1>1, <1>2, <1>7
  <2>2. q.entered => q.last - q.first >= MinZoneDwell
    BY <1>1, <1>2, <1>7 DEF Known
  <2>3. q.first < q.last /\ ~q.entered => q.last - q.first < MinZoneDwell
    <3>1. ~q.entered => ~(present >= MinZoneDwell)
      BY <1>7, Zenon
    <3> QED
      BY <3>1, <1>1, <1>2, <1>7
  <2>4. ~q.entered => q.ticks = 0
    BY <1>7 DEF Known
  <2> QED
    BY <2>1, <2>2, <2>3, <2>4, <1>8 DEF Known
<1>10. q.ticks >= p.ticks
  BY <1>1, <1>3, <1>4
<1> QED
  BY <1>5, <1>7, <1>9, <1>10 DEF q

-------------------------------------------------------------------------------
(* What the tracker knows *)

\* What a sighting reports are events.
LEMMA SightingReports ==
  ASSUME now \in Nat, NEW p \in Presence, Known(p, now)
  PROVE  EventsOfSeenAgain(p, now) \in Seq(ZoneEvent)
<1> DEFINE q == SeenAgain(p, now)
           enter == IF q.entered /\ ~p.entered THEN <<Event("ZONE_ENTER", now, 0)>> ELSE <<>>
           n == q.ticks - p.ticks
           dwells == [i \in 1..n |-> Event("ZONE_DWELL", now, now - p.first)]
<1>1. n \in Nat /\ now - p.first \in Nat
  BY SightingKeepsKnown DEF Known, Presence
<1> HIDE DEF q, n
<1>2. Event("ZONE_DWELL", now, now - p.first) \in ZoneEvent /\ Event("ZONE_ENTER", now, 0) \in ZoneEvent
  BY <1>1 DEF Event, ZoneEvent
<1>3. enter \in Seq(ZoneEvent)
  BY <1>2
<1>4. dwells \in Seq(ZoneEvent)
  BY <1>1, <1>2
<1> HIDE DEF enter, dwells
<1>5. EventsOfSeenAgain(p, now) = enter \o dwells
  BY DEF EventsOfSeenAgain, enter, dwells, q, n
<1> QED
  BY <1>3, <1>4, <1>5

\* So is what the end of a visit reports.
LEMMA EndReports ==
  ASSUME NEW p \in Presence, p.first <= p.last
  PROVE  EventsOfEnd(p) \in Seq(ZoneEvent)
<1>1. p.last \in Nat /\ p.last - p.first \in Nat
  BY DEF Presence
<1>2. Event("ZONE_EXIT", p.last, p.last - p.first) \in ZoneEvent
  BY <1>1 DEF Event, ZoneEvent
<1> QED
  BY <1>2 DEF EventsOfEnd

\* The states of some tracks end, and the clock may go on.
LEMMA EndKeepsPresence ==
  ASSUME PresenceInv, NEW gone \in SUBSET (DOMAIN state), End(gone), now' = now
  PROVE  /\ DOMAIN state' \subseteq Tracks /\ state' \in [DOMAIN state' -> Presence]
         /\ log' \in [Tracks -> Seq(ZoneEvent)]
         /\ \A t \in DOMAIN state' : t \in DOMAIN state \ gone /\ state'[t] = state[t] /\ Known(state'[t], now')
<1>1. /\ DOMAIN state \subseteq Tracks /\ state \in [DOMAIN state -> Presence]
      /\ log \in [Tracks -> Seq(ZoneEvent)]
  BY DEF PresenceInv, TypeOK
<1>2. \A t \in DOMAIN state : Known(state[t], now)
  BY DEF PresenceInv, Known
<1>3. /\ state' = [t \in DOMAIN state \ gone |-> state[t]]
      /\ log' = [t \in Tracks |-> IF t \in gone THEN log[t] \o EventsOfEnd(state[t]) ELSE log[t]]
  BY DEF End
<1>4. \A t \in gone : EventsOfEnd(state[t]) \in Seq(ZoneEvent)
  <2> SUFFICES ASSUME NEW t \in gone PROVE EventsOfEnd(state[t]) \in Seq(ZoneEvent)
    OBVIOUS
  <2>1. state[t] \in Presence /\ state[t].first <= state[t].last
    BY <1>1, <1>2 DEF Known
  <2> QED
    BY <2>1, EndReports
<1>5. log' \in [Tracks -> Seq(ZoneEvent)]
  <2> SUFFICES ASSUME NEW t \in Tracks PROVE log'[t] \in Seq(ZoneEvent)
    BY <1>3
  <2> QED
    BY <1>1, <1>3, <1>4
<1>6. /\ DOMAIN state' = DOMAIN state \ gone
      /\ \A t \in DOMAIN state' : state'[t] = state[t]
  BY <1>3
<1>7. \A t \in DOMAIN state' : Known(state'[t], now')
  BY <1>2, <1>6 DEF Known
<1> QED
  BY <1>1, <1>3, <1>5, <1>6, <1>7

\* Every step keeps what is known of the tracks.
LEMMA PresenceStep == PresenceInv /\ [Next]_vars => PresenceInv'
<1> SUFFICES ASSUME PresenceInv, [Next]_vars PROVE PresenceInv'
  OBVIOUS
<1>1. /\ now \in Nat /\ phase \in {"frame", "swept", "closed"}
      /\ DOMAIN state \subseteq Tracks /\ state \in [DOMAIN state -> Presence]
      /\ log \in [Tracks -> Seq(ZoneEvent)] /\ sightings \in [Tracks -> SUBSET Nat]
  BY DEF PresenceInv, TypeOK
<1>2. \A t \in DOMAIN state : Known(state[t], now)
  BY DEF PresenceInv, Known
<1> DEFINE Fresh == phase = "swept" => \A t \in DOMAIN state : now - state[t].last <= ExitGrace
<1>3. Fresh
  BY DEF PresenceInv
<1>4. SUFFICES /\ TypeOK'
               /\ \A t \in DOMAIN state' : Known(state'[t], now')
               /\ Fresh'
  BY DEF PresenceInv, Known
<1>5. ASSUME NEW t \in Tracks, Observe(t)
      PROVE  TypeOK' /\ (\A u \in DOMAIN state' : Known(state'[u], now')) /\ Fresh'
  <2>1. /\ phase = "frame" /\ now' = now /\ phase' = phase
        /\ sightings' = [sightings EXCEPT ![t] = @ \cup {now}]
    BY <1>5 DEF Observe
  <2>2. sightings' \in [Tracks -> SUBSET Nat]
    BY <2>1, <1>1
  <2>3. ASSUME NEW p \in Presence, Observed(t, p), Known(p, now)
        PROVE  /\ DOMAIN state' \subseteq Tracks /\ state' \in [DOMAIN state' -> Presence]
               /\ \A u \in DOMAIN state' : Known(state'[u], now')
    <3>1. state' = [u \in DOMAIN state \cup {t} |-> IF u = t THEN p ELSE state[u]]
      BY <2>3 DEF Observed
    <3>2. \A u \in DOMAIN state' : state'[u] \in Presence /\ Known(state'[u], now)
      BY <3>1, <2>3, <1>1, <1>2
    <3> QED
      BY <3>1, <3>2, <2>1, <1>1 DEF Known
  <2>4. CASE t \notin DOMAIN state
    <3>1. Observed(t, FirstSeen(now)) /\ log' = log
      BY <1>5, <2>4 DEF Observe
    <3>2. FirstSeen(now) \in Presence /\ Known(FirstSeen(now), now)
      BY <1>1 DEF FirstSeen, Presence, Known
    <3> QED
      BY <3>1, <3>2, <2>1, <2>2, <2>3, <1>1 DEF TypeOK
  <2>5. CASE t \in DOMAIN state
    <3>1. /\ Observed(t, SeenAgain(state[t], now))
          /\ log' = [log EXCEPT ![t] = @ \o EventsOfSeenAgain(state[t], now)]
      BY <1>5, <2>5 DEF Observe
    <3>2. state[t] \in Presence /\ Known(state[t], now)
      BY <1>1, <1>2, <2>5
    <3>3. SeenAgain(state[t], now) \in Presence /\ Known(SeenAgain(state[t], now), now)
      BY <3>2, <1>1, SightingKeepsKnown
    <3>4. EventsOfSeenAgain(state[t], now) \in Seq(ZoneEvent)
      BY <3>2, <1>1, SightingReports
    <3>5. log' \in [Tracks -> Seq(ZoneEvent)]
      BY <3>1, <3>4, <1>1
    <3> QED
      BY <3>1, <3>3, <3>5, <2>1, <2>2, <2>3, <1>1 DEF TypeOK
  <2> QED
    BY <2>4, <2>5
<1>6. CASE Sweep
  <2> DEFINE gone == {t \in DOMAIN state : Absent(state[t], now)}
  <2>1. End(gone) /\ now' = now /\ phase' = "swept" /\ sightings' = sightings
    BY <1>6 DEF Sweep
  <2>2. /\ DOMAIN state' \subseteq Tracks /\ state' \in [DOMAIN state' -> Presence]
        /\ log' \in [Tracks -> Seq(ZoneEvent)]
        /\ \A t \in DOMAIN state' : t \in DOMAIN state \ gone /\ state'[t] = state[t] /\ Known(state'[t], now')
    BY <2>1, EndKeepsPresence
  <2>3. \A t \in DOMAIN state' : now' - state'[t].last <= ExitGrace
    BY <2>1, <2>2, <1>1, ZonePresenceAssumption DEF Absent, Presence
  <2> QED
    BY <2>1, <2>2, <2>3, <1>1 DEF TypeOK
<1>7. CASE NextFrame
  <2>1. /\ phase' = "frame" /\ now' = now + FrameInterval
        /\ state' = state /\ log' = log /\ sightings' = sightings
    BY <1>7 DEF NextFrame
  <2>2. now' \in Nat /\ now <= now'
    BY <2>1, <1>1, ZoneTrackerAssumption
  <2>3. \A t \in DOMAIN state : Known(state[t], now')
    BY <2>1, <2>2, <1>1, <1>2 DEF Known, Presence
  <2> QED
    BY <2>1, <2>2, <2>3, <1>1 DEF TypeOK
<1>8. CASE Flush
  <2>1. End(DOMAIN state) /\ now' = now /\ phase' = "closed" /\ sightings' = sightings
    BY <1>8 DEF Flush
  <2>2. /\ DOMAIN state' \subseteq Tracks /\ state' \in [DOMAIN state' -> Presence]
        /\ log' \in [Tracks -> Seq(ZoneEvent)]
        /\ \A t \in DOMAIN state' : Known(state'[t], now')
    BY <2>1, EndKeepsPresence
  <2> QED
    BY <2>1, <2>2, <1>1 DEF TypeOK
<1>9. CASE UNCHANGED vars
  BY <1>9, <1>1, <1>2, <1>3 DEF vars, TypeOK, Known
<1> QED
  BY <1>5, <1>6, <1>7, <1>8, <1>9 DEF Next

\* What the tracker knows of a track agrees with what was seen and reported of
\* it, whatever the thresholds and however long the clip.
THEOREM PresenceIsKnown == Spec => []PresenceInv
<1>1. Init => PresenceInv
  BY DEF Init, PresenceInv, TypeOK
<1> QED
  BY <1>1, PresenceStep, PTL DEF Spec

-------------------------------------------------------------------------------
(* What it reports *)

\* The parts of WellBracketed for one track, and whether a visit is open.
Alternates(es) ==
  \A i \in 1..Len(es) :
    es[i].type = "ZONE_ENTER" <=> (i = 1 \/ es[i - 1].type = "ZONE_EXIT")
Ordered(es) == \A i, j \in 1..Len(es) : i < j => es[i].ts <= es[j].ts
Open(es) == es # <<>> /\ es[Len(es)].type # "ZONE_EXIT"

\* What may come next: events of one time, the first of which enters exactly if no
\* visit is open and the last of which alone may leave.
Continues(es, new, ts) ==
  \A i \in 1..Len(new) :
    /\ new[i].ts = ts
    /\ new[i].type = "ZONE_ENTER" <=> (i = 1 /\ ~Open(es))
    /\ new[i].type = "ZONE_EXIT" => i = Len(new)

\* No report is later than the clock, nor, in a visit, than its last sighting.
InTime(es, ts) == \A i \in 1..Len(es) : es[i].ts <= ts

InTimeInv ==
  \A t \in Tracks :
    /\ InTime(log[t], now)
    /\ t \in DOMAIN state /\ state[t].entered => InTime(log[t], state[t].last)

\* Reports that are in time stay in time as the clock goes on.
LEMMA LaterInTime ==
  ASSUME NEW es \in Seq(ZoneEvent), NEW ts \in Nat, NEW later \in Nat, ts <= later, InTime(es, ts)
  PROVE  InTime(es, later)
<1>1. \A i \in 1..Len(es) : es[i] \in ZoneEvent
  OBVIOUS
<1> QED
  BY <1>1 DEF InTime, ZoneEvent

\* Reports that are continued stay visits one after the other.
LEMMA ContinuedReports ==
  ASSUME NEW es \in Seq(ZoneEvent), NEW new \in Seq(ZoneEvent), NEW ts \in Nat,
         Alternates(es), Ordered(es), InTime(es, ts), Continues(es, new, ts)
  PROVE  /\ Alternates(es \o new) /\ Ordered(es \o new) /\ InTime(es \o new, ts)
         /\ Open(es \o new) <=> IF new = <<>> THEN Open(es) ELSE new[Len(new)].type # "ZONE_EXIT"
<1> DEFINE m == Len(es)
           n == Len(new)
           all == es \o new
<1>1. /\ m \in Nat /\ n \in Nat /\ all \in Seq(ZoneEvent) /\ Len(all) = m + n
      /\ \A i \in 1..m : all[i] = es[i] /\ es[i] \in ZoneEvent
      /\ \A i \in (m + 1)..(m + n) : all[i] = new[i - m] /\ i - m \in 1..n
      /\ m = 0 <=> es = <<>>
      /\ n = 0 <=> new = <<>>
  OBVIOUS
<1> HIDE DEF m, n, all
<1>2. \A i \in 1..Len(all) : i \in 1..m \/ i \in (m + 1)..(m + n)
  BY <1>1
<1>3. \A i \in 1..m : all[i].ts <= ts
  BY <1>1 DEF InTime, m
<1>4. \A i \in (m + 1)..(m + n) : all[i].ts = ts
  BY <1>1 DEF Continues, n
<1>5. Ordered(all)
  <2> SUFFICES ASSUME NEW i \in 1..Len(all), NEW j \in 1..Len(all), i < j
               PROVE  all[i].ts <= all[j].ts
    BY DEF Ordered
  <2>1. CASE j \in 1..m
    <3>1. i \in 1..m
      BY <2>1, <1>1
    <3> QED
      BY <3>1, <2>1, <1>1 DEF Ordered, m
  <2>2. CASE j \in (m + 1)..(m + n)
    BY <2>2, <1>2, <1>3, <1>4
  <2> QED
    BY <2>1, <2>2, <1>2
<1>6. InTime(all, ts)
  BY <1>2, <1>3, <1>4 DEF InTime
<1>7. Alternates(all)
  <2> SUFFICES ASSUME NEW i \in 1..Len(all)
               PROVE  all[i].type = "ZONE_ENTER" <=> (i = 1 \/ all[i - 1].type = "ZONE_EXIT")
    BY DEF Alternates
  <2>1. CASE i \in 1..m
    <3>1. all[i].type = "ZONE_ENTER" <=> (i = 1 \/ es[i - 1].type = "ZONE_EXIT")
      BY <2>1, <1>1 DEF Alternates, m
    <3>2. i # 1 => all[i - 1] = es[i - 1]
      BY <2>1, <1>1
    <3> QED
      BY <3>1, <3>2
  <2>2. CASE i = m + 1 /\ n > 0
    <3>1. all[i] = new[1] /\ 1 \in 1..n
      BY <2>2, <1>1
    <3>2. new[1].type = "ZONE_ENTER" <=> ~Open(es)
      BY <3>1 DEF Continues, n
    <3>3. m # 0 => all[i - 1] = es[m]
      BY <2>2, <1>1
    <3>4. Open(es) <=> m # 0 /\ es[m].type # "ZONE_EXIT"
      BY <1>1 DEF Open, m
    <3>5. i = 1 <=> m = 0
      BY <2>2, <1>1
    <3> QED
      BY <3>1, <3>2, <3>3, <3>4, <3>5
  <2>3. CASE i \in (m + 2)..(m + n)
    <3>1. /\ i # 1 /\ i - m \in 1..n /\ i - m # 1 /\ (i - 1) - m \in 1..n /\ (i - 1) - m # n
          /\ all[i] = new[i - m] /\ all[i - 1] = new[(i - 1) - m]
      <4>1. i \in (m + 1)..(m + n) /\ i - 1 \in (m + 1)..(m + n)
        BY <2>3, <1>1
      <4>2. i # 1 /\ i - m # 1 /\ (i - 1) - m # n
        BY <2>3, <1>1
      <4> QED
        BY <4>1, <4>2, <1>1
    <3>2. new[i - m].type # "ZONE_ENTER" /\ new[(i - 1) - m].type # "ZONE_EXIT"
      BY <3>1 DEF Continues, n
    <3> QED
      BY <3>1, <3>2
  <2> QED
    BY <2>1, <2>2, <2>3, <1>1, <1>2
<1>8. Open(all) <=> IF new = <<>> THEN Open(es) ELSE new[n].type # "ZONE_EXIT"
  <2>1. CASE n = 0
    <3>1. all = es
      BY <2>1, <1>1 DEF all
    <3> QED
      BY <3>1, <2>1, <1>1
  <2>2. CASE n # 0
    <3>1. all # <<>> /\ all[Len(all)] = new[n] /\ new # <<>>
      BY <2>2, <1>1
    <3> QED
      BY <3>1 DEF Open
  <2> QED
    BY <2>1, <2>2
<1> QED
  BY <1>5, <1>6, <1>7, <1>8 DEF all, n

\* A sighting continues the reports of the track: they enter when the visit now
\* lasts long enough, and leave never.
LEMMA SightingContinues ==
  ASSUME now \in Nat, NEW p \in Presence, Known(p, now), NEW es, Open(es) <=> p.entered
  PROVE  LET new == EventsOfSeenAgain(p, now) IN
         /\ Continues(es, new, now)
         /\ \A i \in 1..Len(new) : new[i].type # "ZONE_EXIT"
         /\ SeenAgain(p, now).entered <=> Open(es) \/ new # <<>>
<1> DEFINE q == SeenAgain(p, now)
           n == q.ticks - p.ticks
           dwell == Event("ZONE_DWELL", now, now - p.first)
           dwells == [i \in 1..n |-> dwell]
           enter == Event("ZONE_ENTER", now, 0)
           new == EventsOfSeenAgain(p, now)
<1>1. /\ n \in Nat /\ (~q.entered => n = 0) /\ (p.entered => q.entered)
      /\ q.entered \in BOOLEAN /\ p.entered \in BOOLEAN
  BY SightingKeepsKnown DEF Presence
<1>2. /\ dwell.ts = now /\ dwell.type = "ZONE_DWELL"
      /\ enter.ts = now /\ enter.type = "ZONE_ENTER"
  BY DEF Event
<1>3. new = (IF q.entered /\ ~p.entered THEN <<enter>> ELSE <<>>) \o dwells
  BY DEF EventsOfSeenAgain
<1> HIDE DEF q, n, dwell, enter, new
<1>4. dwells \in Seq({dwell}) /\ Len(dwells) = n /\ \A i \in 1..n : dwells[i] = dwell
  BY <1>1
<1> HIDE DEF dwells
<1>5. CASE q.entered /\ ~p.entered
  <2>1. /\ Len(new) = 1 + n /\ new[1] = enter
        /\ \A i \in 2..(1 + n) : new[i] = dwell
    BY <1>1, <1>3, <1>4, <1>5
  <2> QED
    BY <2>1, <1>1, <1>2, <1>5 DEF Continues, q, new
<1>6. CASE ~(q.entered /\ ~p.entered)
  <2>1. new = dwells
    BY <1>3, <1>4, <1>6
  <2>2. Len(new) = n /\ \A i \in 1..n : new[i] = dwell
    BY <2>1, <1>4
  <2>3. n # 0 => Open(es)
    BY <1>1, <1>6
  <2>4. Continues(es, new, now) /\ \A i \in 1..Len(new) : new[i].type # "ZONE_EXIT"
    BY <2>2, <2>3, <1>1, <1>2 DEF Continues
  <2>5. new # <<>> => n # 0
    BY <2>1, <1>1, <1>4
  <2>6. q.entered <=> Open(es) \/ new # <<>>
    BY <2>3, <2>5, <1>1, <1>6
  <2> QED
    BY <2>4, <2>6 DEF q, new
<1> QED
  BY <1>5, <1>6

BracketInv == PresenceInv /\ WellBracketed /\ InTimeInv

\* WellBracketed and InTimeInv of one track.
Reports(t) ==
  /\ Alternates(log[t]) /\ Ordered(log[t]) /\ InTime(log[t], now)
  /\ Open(log[t]) <=> (t \in DOMAIN state /\ state[t].entered)
  /\ t \in DOMAIN state /\ state[t].entered => InTime(log[t], state[t].last)

\* The invariant, track by track.
LEMMA BracketsAreReports == WellBracketed /\ InTimeInv <=> \A t \in Tracks : Reports(t)
BY DEF WellBracketed, InTimeInv, Reports, Alternates, Ordered, Open, Last

\* The facts of PresenceInv that the reports rest on.
LEMMA PartsOfPresence ==
  ASSUME PresenceInv
  PROVE  /\ now \in Nat /\ DOMAIN state \subseteq Tracks /\ state \in [DOMAIN state -> Presence]
         /\ log \in [Tracks -> Seq(ZoneEvent)]
         /\ \A t \in DOMAIN state : Known(state[t], now)
BY DEF PresenceInv, TypeOK, Known

\* The end of some visits leaves none of those tracks inside.
LEMMA EndKeepsReports ==
  ASSUME BracketInv, NEW gone \in SUBSET (DOMAIN state), End(gone), now' = now
  PROVE  \A t \in Tracks : Reports(t)'
<1> SUFFICES ASSUME NEW t \in Tracks PROVE Reports(t)'
  OBVIOUS
<1>1. /\ now \in Nat /\ DOMAIN state \subseteq Tracks /\ state \in [DOMAIN state -> Presence]
      /\ log \in [Tracks -> Seq(ZoneEvent)]
      /\ \A u \in DOMAIN state : Known(state[u], now)
  BY PartsOfPresence DEF BracketInv
<1>2. Reports(t)
  BY BracketsAreReports DEF BracketInv
<1>3. /\ state' = [u \in DOMAIN state \ gone |-> state[u]]
      /\ log' = [u \in Tracks |-> IF u \in gone THEN log[u] \o EventsOfEnd(state[u]) ELSE log[u]]
  BY DEF End
<1>4. CASE t \notin gone
  <2>1. /\ log'[t] = log[t]
        /\ t \in DOMAIN state' <=> t \in DOMAIN state
        /\ t \in DOMAIN state => state'[t] = state[t]
    BY <1>3, <1>4
  <2> QED
    BY <2>1, <1>2 DEF Reports
<1>5. CASE t \in gone
  <2> DEFINE p == state[t]
             es == log[t]
  <2>1. /\ log'[t] = es \o EventsOfEnd(p) /\ t \notin DOMAIN state' /\ es \in Seq(ZoneEvent)
        /\ p \in Presence /\ Known(p, now) /\ t \in DOMAIN state
    BY <1>1, <1>3, <1>5
  <2>2. CASE ~p.entered
    <3>1. log'[t] = es /\ ~Open(es)
      BY <2>1, <2>2, <1>2 DEF EventsOfEnd, Reports
    <3> QED
      BY <3>1, <2>1, <1>2 DEF Reports
  <2>3. CASE p.entered
    <3> DEFINE new == <<Event("ZONE_EXIT", p.last, p.last - p.first)>>
    <3>1. new = EventsOfEnd(p) /\ new \in Seq(ZoneEvent)
      BY <2>1, <2>3, EndReports DEF EventsOfEnd, Known
    <3>2. Len(new) = 1 /\ new[1].type = "ZONE_EXIT" /\ new[1].ts = p.last /\ new # <<>>
      BY DEF Event
    <3> HIDE DEF new
    <3>3. Open(es) /\ InTime(es, p.last) /\ Alternates(es) /\ Ordered(es)
      BY <1>2, <2>1, <2>3 DEF Reports
    <3>4. Continues(es, new, p.last)
      BY <3>2, <3>3 DEF Continues
    <3>5. p.last \in Nat /\ p.last <= now
      BY <2>1 DEF Presence, Known
    <3>6. /\ Alternates(es \o new) /\ Ordered(es \o new) /\ InTime(es \o new, p.last)
          /\ Open(es \o new) <=> IF new = <<>> THEN Open(es) ELSE new[Len(new)].type # "ZONE_EXIT"
      BY <2>1, <3>1, <3>3, <3>4, <3>5, ContinuedReports
    <3>7. ~Open(es \o new)
      BY <3>2, <3>6
    <3>8. InTime(es \o new, now)
      <4>1. es \o new \in Seq(ZoneEvent)
        BY <2>1, <3>1
      <4> QED
        BY <4>1, <3>5, <3>6, <1>1, LaterInTime
    <3> QED
      BY <2>1, <3>1, <3>6, <3>7, <3>8 DEF Reports
  <2> QED
    BY <2>2, <2>3
<1> QED
  BY <1>4, <1>5

\* Every step keeps the reports visits one after the other.
LEMMA BracketStep == BracketInv /\ [Next]_vars => BracketInv'
<1> SUFFICES ASSUME BracketInv, [Next]_vars PROVE BracketInv'
  OBVIOUS
<1>1. /\ now \in Nat /\ DOMAIN state \subseteq Tracks /\ state \in [DOMAIN state -> Presence]
      /\ log \in [Tracks -> Seq(ZoneEvent)]
      /\ \A u \in DOMAIN state : Known(state[u], now)
  BY PartsOfPresence DEF BracketInv
<1>2. \A u \in Tracks : Reports(u)
  BY BracketsAreReports DEF BracketInv
<1>3. PresenceInv'
  BY PresenceStep DEF BracketInv
<1>4. SUFFICES \A u \in Tracks : Reports(u)'
  <2>1. (WellBracketed /\ InTimeInv)' <=> \A u \in Tracks : Reports(u)'
    BY DEF WellBracketed, InTimeInv, Reports, Alternates, Ordered, Open, Last
  <2> QED
    BY <2>1, <1>3, <1>4 DEF BracketInv
<1>5. ASSUME NEW t \in Tracks, Observe(t) PROVE \A u \in Tracks : Reports(u)'
  <2> SUFFICES ASSUME NEW u \in Tracks PROVE Reports(u)'
    OBVIOUS
  <2>1. now' = now
    BY <1>5 DEF Observe
  <2>2. CASE t \notin DOMAIN state
    <3>1. Observed(t, FirstSeen(now)) /\ log' = log
      BY <1>5, <2>2 DEF Observe
    <3>2. /\ u \in DOMAIN state' <=> u \in DOMAIN state \/ u = t
          /\ u \in DOMAIN state => state'[u] = state[u]
          /\ state'[t].entered = FALSE
      BY <3>1, <2>2 DEF Observed, FirstSeen
    <3> QED
      BY <3>1, <3>2, <2>1, <2>2, <1>2 DEF Reports
  <2>3. CASE t \in DOMAIN state
    <3> DEFINE p == state[t]
               q == SeenAgain(p, now)
               es == log[t]
               new == EventsOfSeenAgain(p, now)
    <3>1. Observed(t, q) /\ log' = [log EXCEPT ![t] = es \o new]
      BY <1>5, <2>3 DEF Observe
    <3>2. DOMAIN state' = DOMAIN state /\ state'[t] = q /\ \A v \in DOMAIN state : v # t => state'[v] = state[v]
      BY <3>1, <2>3 DEF Observed
    <3>3. CASE u # t
      BY <3>1, <3>2, <3>3, <2>1, <1>1, <1>2 DEF Reports
    <3>4. CASE u = t
      <4>1. p \in Presence /\ Known(p, now) /\ es \in Seq(ZoneEvent) /\ log'[t] = es \o new
        BY <3>1, <2>3, <1>1
      <4>2. Alternates(es) /\ Ordered(es) /\ InTime(es, now) /\ (Open(es) <=> p.entered)
        BY <1>2, <2>3 DEF Reports
      <4>3. q.last = now /\ new \in Seq(ZoneEvent)
        BY <4>1, <1>1, SightingKeepsKnown, SightingReports
      <4>4. /\ Continues(es, new, now)
            /\ \A i \in 1..Len(new) : new[i].type # "ZONE_EXIT"
            /\ q.entered <=> Open(es) \/ new # <<>>
        BY <4>1, <4>2, <1>1, SightingContinues
      <4> HIDE DEF p, q, es, new
      <4>5. /\ Alternates(es \o new) /\ Ordered(es \o new) /\ InTime(es \o new, now)
            /\ Open(es \o new) <=> IF new = <<>> THEN Open(es) ELSE new[Len(new)].type # "ZONE_EXIT"
        BY <4>1, <4>2, <4>3, <4>4, <1>1, ContinuedReports
      <4>6. new # <<>> => Len(new) \in 1..Len(new)
        BY <4>3
      <4>7. Open(es \o new) <=> q.entered
        BY <4>4, <4>5, <4>6
      <4> QED
        BY <3>2, <3>4, <4>1, <4>3, <4>5, <4>7, <2>1, <2>3 DEF Reports
    <3> QED
      BY <3>3, <3>4
  <2> QED
    BY <2>2, <2>3
<1>6. CASE Sweep
  BY <1>6, EndKeepsReports DEF Sweep
<1>7. CASE NextFrame
  <2>1. now' = now + FrameInterval /\ state' = state /\ log' = log
    BY <1>7 DEF NextFrame
  <2>2. now' \in Nat /\ now <= now'
    BY <2>1, <1>1, ZoneTrackerAssumption
  <2>3. ASSUME NEW u \in Tracks PROVE InTime(log[u], now')
    BY <2>2, <2>3, <1>1, <1>2, LaterInTime DEF Reports
  <2> QED
    BY <2>1, <2>3, <1>2 DEF Reports
<1>8. CASE Flush
  BY <1>8, EndKeepsReports DEF Flush
<1>9. CASE UNCHANGED vars
  BY <1>9, <1>2 DEF vars, Reports
<1> QED
  BY <1>5, <1>6, <1>7, <1>8, <1>9 DEF Next

\* The reports of a track are visits one after the other, in the order of their
\* times, and one is open exactly while the tracker has the track in the zone.
THEOREM ReportsAreBracketed == Spec => []WellBracketed
<1>1. Init => BracketInv
  BY DEF Init, BracketInv, PresenceInv, TypeOK, WellBracketed, InTimeInv, InTime
<1>2. BracketInv => WellBracketed
  BY DEF BracketInv
<1> QED
  BY <1>1, <1>2, BracketStep, PTL DEF Spec

-------------------------------------------------------------------------------
(* The crossing detector of the camera *)

\* What is kept of one track: the candidate is never the committed side, is
\* counted while it is there, and no crossing comes before a side is committed.
Kept(c) ==
  /\ c \in Line!SideState
  /\ c.candidate \in {0, -c.committed}
  /\ c.count \in (IF c.candidate = 0 THEN {0} ELSE 1..(ConfirmFrames - 1))

AlternateInv ==
  /\ Line!TypeOK /\ Line!CrossingsAlternate
  /\ \A t \in Tracks : sides[t].committed = 0 => crossings[t] = <<>>

-------------------------------------------------------------------------------

\* A sample keeps what is kept of a track, and commits the side exactly when it crosses.
LEMMA SampleKeeps ==
  ASSUME NEW c, Kept(c), NEW side \in {-1, 0, 1}
  PROVE  /\ Kept(Line!Sampled(c, side))
         /\ Line!Crosses(c, side) => /\ c.committed = -side /\ side # 0
                                /\ Line!Sampled(c, side).committed = side
         /\ ~Line!Crosses(c, side) => Line!Sampled(c, side).committed \in {c.committed}
                                   \/ c.committed = 0
         /\ Line!Sampled(c, side).committed = 0 => c.committed = 0
<1>1. /\ ConfirmFrames \in Nat \ {0} /\ c.committed \in {-1, 0, 1} /\ c.candidate \in {-1, 0, 1}
      /\ c.count \in Nat
      /\ c = [committed |-> c.committed, candidate |-> c.candidate, count |-> c.count]
  BY CameraPassAssumption DEF Kept, Line!SideState
<1>2. CASE side = 0
  BY <1>2, <1>1 DEF Line!Sampled, Line!Crosses
<1>3. CASE side # 0 /\ (c.committed \in {0, side} \/ Line!Crosses(c, side))
  <2>1. Line!Sampled(c, side) = Line!Settled(side)
    BY <1>3 DEF Line!Sampled
  <2>2. Kept(Line!Settled(side))
    BY DEF Kept, Line!Settled, Line!SideState
  <2>3. Line!Settled(side).committed = side
    BY DEF Line!Settled
  <2> QED
    BY <2>1, <2>2, <2>3, <1>1, <1>3 DEF Line!Crosses
<1>4. CASE side # 0 /\ c.committed \notin {0, side} /\ ~Line!Crosses(c, side)
  <2> DEFINE d == [committed |-> c.committed, candidate |-> side, count |-> Line!CountOf(c, side)]
  <2>1. Line!Sampled(c, side) = d
    <3>1. Line!Sampled(c, side) = [c EXCEPT !.candidate = side, !.count = Line!CountOf(c, side)]
      BY <1>4 DEF Line!Sampled
    <3> QED
      BY <3>1, <1>1
  <2>2. c.committed = -side
    BY <1>1, <1>4
  <2>3. Line!CountOf(c, side) \in Nat \ {0} /\ Line!CountOf(c, side) < ConfirmFrames
    BY <2>2, <1>1, <1>4 DEF Line!CountOf, Line!Crosses
  <2>4. Kept(d)
    BY <2>2, <2>3, <1>1, <1>4 DEF Kept, Line!SideState
  <2> QED
    BY <2>1, <2>2, <2>4, <1>4
<1> QED
  BY <1>2, <1>3, <1>4

\* Crossings to opposite sides have different types.
LEMMA OtherSideOtherType ==
  ASSUME NEW side \in {-1, 1}
  PROVE  /\ Line!TypeOfCrossing(side) # Line!TypeOfCrossing(-side)
         /\ Line!TypeOfCrossing(side) \in {"ENTRY", "EXIT"}
BY CameraPassAssumption DEF Line!TypeOfCrossing

\* Every sample keeps the invariant: only the crossing it may append matters.
LEMMA AlternateStep == AlternateInv /\ [Line!Next]_(Line!vars) => AlternateInv'
<1> SUFFICES ASSUME AlternateInv, [Line!Next]_(Line!vars) PROVE AlternateInv'
  OBVIOUS
<1>1. /\ sides \in [Tracks -> Line!SideState] /\ crossings \in [Tracks -> Seq(Line!CrossingEvent)]
      /\ samples \in [Tracks -> Seq(Line!Sample)]
      /\ \A t \in Tracks : Kept(sides[t])
  BY DEF AlternateInv, Line!TypeOK, Kept
<1>2. ASSUME NEW t \in Tracks, NEW side \in {-1, 0, 1}, NEW ts \in Nat, Line!Update(t, side, ts)
      PROVE  AlternateInv'
  <2> DEFINE new == [type |-> Line!TypeOfCrossing(side), ts |-> ts, at |-> Len(samples[t]) + 1]
             crosses == Line!Crosses(sides[t], side)
  <2>1. /\ sides' = [sides EXCEPT ![t] = Line!Sampled(@, side)]
        /\ samples' = [samples EXCEPT ![t] =
             IF side = 0 THEN @ ELSE Append(@, [side |-> side, ts |-> ts])]
        /\ crossings' = [crossings EXCEPT ![t] = IF crosses THEN Append(@, new) ELSE @]
    BY <1>2 DEF Line!Update
  <2>2. /\ Kept(sides'[t]) /\ sides'[t] = Line!Sampled(sides[t], side)
        /\ \A u \in Tracks : u # t => sides'[u] = sides[u] /\ crossings'[u] = crossings[u]
    BY <2>1, <1>1, SampleKeeps
  <2>3. samples' \in [Tracks -> Seq(Line!Sample)]
    <3>1. side # 0 => [side |-> side, ts |-> ts] \in Line!Sample
      BY DEF Line!Sample
    <3> QED
      BY <3>1, <2>1, <1>1
  <2>4. crosses => new \in Line!CrossingEvent
    <3>1. crosses => side \in {-1, 1}
      BY DEF Line!Crosses
    <3> QED
      BY <3>1, <1>1, OtherSideOtherType DEF Line!CrossingEvent
  <2>5. crossings' \in [Tracks -> Seq(Line!CrossingEvent)]
    BY <2>1, <2>4, <1>1
  <2>6. \A u \in Tracks : Kept(sides'[u])
    BY <2>2, <1>1
  <2>7. Line!TypeOK'
    <3>1. sides' \in [Tracks -> Line!SideState]
      BY <2>1, <2>6, <1>1 DEF Kept
    <3> QED
      BY <3>1, <2>3, <2>5, <2>6 DEF Line!TypeOK, Kept
  <2> DEFINE Good(c, es) ==
               /\ \A i \in 2..Len(es) : es[i].type # es[i - 1].type
               /\ es # <<>> => es[Len(es)].type = Line!TypeOfCrossing(c.committed)
               /\ c.committed = 0 => es = <<>>
  <2>8. \A u \in Tracks : Good(sides[u], crossings[u])
    BY DEF AlternateInv, Line!CrossingsAlternate
  <2>9. Good(sides'[t], crossings'[t])
    <3>1. CASE crosses
      <4> DEFINE es == crossings[t]
                 c == sides[t]
      <4>1. /\ c.committed = -side /\ side \in {-1, 1} /\ sides'[t].committed = side
        BY <3>1, <2>2, <1>1, SampleKeeps DEF Line!Crosses
      <4>2. crossings'[t] = Append(es, new) /\ es \in Seq(Line!CrossingEvent)
        BY <3>1, <2>1, <1>1
      <4>3. /\ Len(crossings'[t]) = Len(es) + 1 /\ crossings'[t][Len(es) + 1] = new
            /\ \A i \in 1..Len(es) : crossings'[t][i] = es[i]
            /\ Len(es) \in Nat
            /\ es # <<>> <=> Len(es) > 0
        BY <4>2
      <4>4. Good(c, es)
        BY <2>8
      <4>5. es # <<>> => es[Len(es)].type # new.type
        BY <4>1, <4>4, OtherSideOtherType
      <4>6. \A i \in 2..Len(crossings'[t]) : crossings'[t][i].type # crossings'[t][i - 1].type
        <5> SUFFICES ASSUME NEW i \in 2..Len(crossings'[t])
                     PROVE  crossings'[t][i].type # crossings'[t][i - 1].type
          OBVIOUS
        <5>1. CASE i \in 2..Len(es)
          <6>1. es[i].type # es[i - 1].type
            BY <5>1, <4>4
          <6>2. crossings'[t][i] = es[i] /\ crossings'[t][i - 1] = es[i - 1]
            <7>1. i \in 1..Len(es) /\ i - 1 \in 1..Len(es)
              BY <5>1, <4>3
            <7> HIDE DEF es
            <7> QED
              BY <7>1, <4>3
          <6> QED
            BY <6>1, <6>2
        <5>2. CASE i = Len(es) + 1
          BY <5>2, <4>3, <4>5
        <5> QED
          BY <5>1, <5>2, <4>3
      <4>7. crossings'[t][Len(crossings'[t])].type = Line!TypeOfCrossing(sides'[t].committed)
        BY <4>1, <4>3
      <4> QED
        BY <4>1, <4>6, <4>7
    <3>2. CASE ~crosses
      <4>1. crossings'[t] = crossings[t]
        BY <3>2, <2>1, <1>1
      <4>2. sides'[t].committed = sides[t].committed \/ sides[t].committed = 0
        BY <3>2, <2>2, <1>1, SampleKeeps
      <4>3. sides[t].committed = 0 => crossings[t] = <<>>
        BY <2>8
      <4> QED
        BY <4>1, <4>2, <4>3, <2>8
    <3> QED
      BY <3>1, <3>2
  <2>10. \A u \in Tracks : Good(sides'[u], crossings'[u])
    BY <2>2, <2>8, <2>9
  <2> QED
    BY <2>7, <2>10 DEF AlternateInv, Line!CrossingsAlternate
<1>3. CASE UNCHANGED Line!vars
  BY <1>3 DEF Line!vars, AlternateInv, Line!TypeOK, Line!CrossingsAlternate
<1> QED
  BY <1>2, <1>3 DEF Line!Next

\* No track has a side yet.
LEMMA AlternateInit == Line!Init => AlternateInv
<1> SUFFICES ASSUME Line!Init PROVE AlternateInv
  OBVIOUS
<1>1. Line!Settled(0) \in Line!SideState /\ Line!Settled(0).candidate = 0 /\ Line!Settled(0).count = 0
  BY DEF Line!Settled, Line!SideState
<1> QED
  BY <1>1 DEF Line!Init, AlternateInv, Line!TypeOK, Line!CrossingsAlternate

\* No track comes in twice without leaving or leaves twice without coming in, and
\* its last crossing says on which side it is now taken to be.
THEOREM EntriesAndExitsAlternate == Line!Spec => []Line!CrossingsAlternate
<1>1. AlternateInv => Line!CrossingsAlternate
  BY DEF AlternateInv
<1> QED
  BY <1>1, AlternateInit, AlternateStep, PTL DEF Line!Spec

-------------------------------------------------------------------------------
(* Crossings are runs of samples *)

\* A set of numbers that has a bound has a greatest member.
LEMMA BoundedHasGreatest ==
  ASSUME NEW S \in SUBSET Nat, S # {}, NEW n \in Nat, \A x \in S : x <= n
  PROVE  \E j \in S : \A i \in S : i <= j
<1> DEFINE Bounds == {b \in Nat : \A x \in S : x <= b}
<1>1. Bounds \subseteq Nat /\ Bounds # {}
  BY DEF Bounds
<1>2. PICK b \in Bounds : \A a \in Bounds : ~(<<a, b>> \in OpToRel(<, Nat))
  BY <1>1, NatLessThanWellFounded, WFMin
<1>3. b \in Nat /\ \A x \in S : x <= b
  OBVIOUS
<1>4. b \in S
  <2> SUFFICES ASSUME b \notin S PROVE FALSE
    OBVIOUS
  <2> DEFINE a == b - 1
  <2>1. (\A x \in S : x <= a) /\ a \in Nat /\ a < b
    <3>1. PICK y \in S : TRUE
      OBVIOUS
    <3>2. \A x \in S : x \in Nat /\ x <= b /\ x # b
      BY <1>3
    <3> HIDE DEF Bounds
    <3>3. \A x \in S : x <= a /\ 0 <= a
      BY <3>2, <1>3
    <3> QED
      BY <3>1, <3>3, <1>3
  <2> HIDE DEF a
  <2>2. a \in Bounds
    BY <2>1
  <2>3. <<a, b>> \in OpToRel(<, Nat)
    BY <2>1, <1>3 DEF OpToRel
  <2> QED
    BY <2>2, <2>3, <1>2
<1> QED
  BY <1>3, <1>4

\* The side before the sample k is that of the last run that ended before, or of
\* the first sample.
IsSideBefore(h, k, v) ==
  \/ (\A j \in Line!RunEnds(h) : j >= k) /\ v = h[1].side
  \/ \E j \in Line!RunEnds(h) :
       j < k /\ v = h[j].side /\ (\A i \in Line!RunEnds(h) : i < k => i <= j)

\* A run ends at one of the samples.
LEMMA RunEndsAreSamples ==
  ASSUME NEW h \in Seq(Line!Sample)
  PROVE  Line!RunEnds(h) \subseteq 1..Len(h) /\ Len(h) \in Nat
BY CameraPassAssumption DEF Line!RunEnds

\* That relation gives what SideBefore chooses.
LEMMA SideBeforeIs ==
  ASSUME NEW h \in Seq(Line!Sample), NEW k \in Nat, NEW v, IsSideBefore(h, k, v)
  PROVE  Line!SideBefore(h, k) = v
<1> DEFINE earlier == {j \in Line!RunEnds(h) : j < k}
<1>1. Line!RunEnds(h) \subseteq Nat
  BY RunEndsAreSamples
<1>2. CASE \A j \in Line!RunEnds(h) : j >= k
  <2>1. earlier = {}
    BY <1>1, <1>2
  <2>2. v = h[1].side
    BY <1>1, <1>2 DEF IsSideBefore
  <2> QED
    BY <2>1, <2>2 DEF Line!SideBefore
<1>3. CASE ~(\A j \in Line!RunEnds(h) : j >= k)
  <2>1. PICK j \in earlier : v = h[j].side /\ \A i \in earlier : i <= j
    BY <1>3 DEF IsSideBefore
  <2> DEFINE last == CHOOSE m \in earlier : \A i \in earlier : i <= m
  <2>2. last \in earlier /\ \A i \in earlier : i <= last
    BY <2>1
  <2>3. last = j
    BY <2>1, <2>2, <1>1
  <2>4. Line!SideBefore(h, k) = h[last].side
    BY <2>1 DEF Line!SideBefore
  <2> QED
    BY <2>1, <2>3, <2>4
<1> QED
  BY <1>2, <1>3

\* There always is one.
LEMMA SomeSideBefore ==
  ASSUME NEW h \in Seq(Line!Sample), NEW k \in Nat
  PROVE  IsSideBefore(h, k, Line!SideBefore(h, k))
<1> DEFINE earlier == {j \in Line!RunEnds(h) : j < k}
<1>1. Line!RunEnds(h) \subseteq Nat
  BY RunEndsAreSamples
<1>2. \E v : IsSideBefore(h, k, v)
  <2>1. CASE earlier = {}
    <3>1. \A j \in Line!RunEnds(h) : j >= k
      BY <2>1, <1>1
    <3> QED
      BY <3>1 DEF IsSideBefore
  <2>2. CASE earlier # {}
    <3>1. earlier \in SUBSET Nat /\ \A x \in earlier : x <= k
      BY <1>1
    <3>2. PICK j \in earlier : \A i \in earlier : i <= j
      <4> HIDE DEF earlier
      <4> QED
        BY <2>2, <3>1, BoundedHasGreatest
    <3> QED
      BY <3>2 DEF IsSideBefore
  <2> QED
    BY <2>1, <2>2
<1> QED
  BY <1>2, SideBeforeIs

\* A sample ends a run when it and the ones before it are on its side; what the
\* earlier ones end, and on which side they came, it does not change.
LEMMA SampleEndsRun ==
  ASSUME NEW h \in Seq(Line!Sample), NEW s \in Line!Sample
  PROVE  LET g == Append(h, s)
             n == Len(h) + 1
         IN /\ g \in Seq(Line!Sample) /\ Len(g) = n /\ g[n] = s
            /\ \A i \in 1..Len(h) : g[i] = h[i]
            /\ \A k \in 1..Len(h) : k \in Line!RunEnds(g) <=> k \in Line!RunEnds(h)
            /\ n \in Line!RunEnds(g) <=>
                 /\ n >= ConfirmFrames
                 /\ \A i \in (n - ConfirmFrames + 1)..Len(h) : h[i].side = s.side
<1> DEFINE g == Append(h, s)
           n == Len(h) + 1
<1>1. /\ g \in Seq(Line!Sample) /\ Len(g) = n /\ g[n] = s
      /\ \A i \in 1..Len(h) : g[i] = h[i]
      /\ Len(h) \in Nat /\ n \in Nat
  OBVIOUS
<1>2. ConfirmFrames \in Nat \ {0}
  BY CameraPassAssumption
<1>3. /\ Line!RunEnds(h) = {k \in ConfirmFrames..Len(h) :
                              \A i \in (k - ConfirmFrames + 1)..k : h[i].side = h[k].side}
      /\ Line!RunEnds(g) = {k \in ConfirmFrames..n :
                              \A i \in (k - ConfirmFrames + 1)..k : g[i].side = g[k].side}
  BY <1>1 DEF Line!RunEnds
<1> HIDE DEF g
<1>4. ASSUME NEW k \in 1..Len(h)
      PROVE  k \in Line!RunEnds(g) <=> k \in Line!RunEnds(h)
  <2>1. k \in ConfirmFrames..n <=> k \in ConfirmFrames..Len(h)
    BY <1>1, <1>2
  <2>2. k >= ConfirmFrames => \A i \in (k - ConfirmFrames + 1)..k : i \in 1..Len(h)
    BY <1>1, <1>2
  <2>3. k >= ConfirmFrames =>
          (\A i \in (k - ConfirmFrames + 1)..k : g[i].side = g[k].side)
            <=> (\A i \in (k - ConfirmFrames + 1)..k : h[i].side = h[k].side)
    BY <2>2, <1>1
  <2> QED
    BY <2>1, <2>3, <1>2, <1>3
<1>5. n \in Line!RunEnds(g) <=>
        /\ n >= ConfirmFrames
        /\ \A i \in (n - ConfirmFrames + 1)..Len(h) : h[i].side = s.side
  <2>1. n \in Line!RunEnds(g) <=>
          /\ n >= ConfirmFrames
          /\ \A i \in (n - ConfirmFrames + 1)..n : g[i].side = s.side
    BY <1>1, <1>2, <1>3
  <2>2. n >= ConfirmFrames =>
          (n - ConfirmFrames + 1)..n = ((n - ConfirmFrames + 1)..Len(h)) \cup {n}
    BY <1>1, <1>2
  <2>3. n >= ConfirmFrames => (n - ConfirmFrames + 1)..Len(h) \subseteq 1..Len(h)
    BY <1>1, <1>2
  <2>4. n >= ConfirmFrames =>
          ((\A i \in (n - ConfirmFrames + 1)..n : g[i].side = s.side)
             <=> (\A i \in (n - ConfirmFrames + 1)..Len(h) : h[i].side = s.side))
    BY <2>2, <2>3, <1>1
  <2> QED
    BY <2>1, <2>4
<1> QED
  BY <1>1, <1>4, <1>5 DEF g

\* A further sample does not change the side before the earlier ones.
LEMMA SampleKeepsSides ==
  ASSUME NEW h \in Seq(Line!Sample), NEW s \in Line!Sample, NEW k \in 1..(Len(h) + 1), h # <<>>
  PROVE  Line!SideBefore(Append(h, s), k) = Line!SideBefore(h, k)
<1> DEFINE g == Append(h, s)
           v == Line!SideBefore(h, k)
<1>1. IsSideBefore(h, k, v)
  BY SomeSideBefore
<1>2. Len(h) \in Nat \ {0}
  OBVIOUS
<1>3. /\ Line!RunEnds(h) \subseteq 1..Len(h) /\ Line!RunEnds(g) \subseteq 1..(Len(h) + 1)
      /\ g \in Seq(Line!Sample)
  BY RunEndsAreSamples, SampleEndsRun
<1>4. /\ \A i \in 1..Len(h) : g[i] = h[i]
      /\ \A i \in 1..Len(h) : i \in Line!RunEnds(g) <=> i \in Line!RunEnds(h)
  BY SampleEndsRun
<1> HIDE DEF g, v
<1>5. IsSideBefore(g, k, v)
  <2>1. CASE (\A j \in Line!RunEnds(h) : j >= k) /\ v = h[1].side
    <3>1. \A j \in Line!RunEnds(g) : j >= k
      BY <2>1, <1>2, <1>3, <1>4
    <3>2. g[1] = h[1]
      BY <1>2, <1>4
    <3> QED
      BY <2>1, <3>1, <3>2 DEF IsSideBefore
  <2>2. ASSUME NEW j \in Line!RunEnds(h), j < k, v = h[j].side,
               \A i \in Line!RunEnds(h) : i < k => i <= j
        PROVE  IsSideBefore(g, k, v)
    <3>1. j \in Line!RunEnds(g) /\ v = g[j].side
      BY <2>2, <1>3, <1>4
    <3>2. \A i \in Line!RunEnds(g) : i < k => i <= j
      BY <2>2, <1>2, <1>3, <1>4
    <3> QED
      BY <2>2, <3>1, <3>2 DEF IsSideBefore
  <2> QED
    BY <2>1, <2>2, <1>1 DEF IsSideBefore
<1>6. k \in Nat
  BY <1>2
<1> QED
  BY <1>3, <1>5, <1>6, SideBeforeIs DEF g, v

\* A sample adds itself to the crossing points, when it ends a run on the other
\* side, and changes none of the others.
LEMMA SampleAddsPoint ==
  ASSUME NEW h \in Seq(Line!Sample), NEW s \in Line!Sample, h # <<>>
  PROVE  LET n == Len(h) + 1
             ends == n \in Line!RunEnds(Append(h, s))
         IN Line!CrossingPoints(Append(h, s))
              = Line!CrossingPoints(h)
                  \cup (IF ends /\ Line!SideBefore(h, n) # s.side THEN {n} ELSE {})
<1> DEFINE g == Append(h, s)
           n == Len(h) + 1
<1>1. /\ Line!RunEnds(h) \subseteq 1..Len(h) /\ Line!RunEnds(g) \subseteq 1..n
      /\ Len(h) \in Nat /\ n \in 1..n /\ n \notin 1..Len(h) /\ 1..n = (1..Len(h)) \cup {n}
  <2>1. g \in Seq(Line!Sample) /\ Len(g) = n
    BY SampleEndsRun
  <2>2. /\ Line!RunEnds(h) \subseteq 1..Len(h) /\ Len(h) \in Nat
        /\ Line!RunEnds(g) \subseteq 1..Len(g)
    BY <2>1, RunEndsAreSamples
  <2> HIDE DEF g
  <2> QED
    BY <2>1, <2>2
<1>2. /\ \A i \in 1..Len(h) : g[i] = h[i]
      /\ \A i \in 1..Len(h) : i \in Line!RunEnds(g) <=> i \in Line!RunEnds(h)
      /\ g[n] = s
  BY SampleEndsRun
<1>3. \A k \in 1..n : Line!SideBefore(g, k) = Line!SideBefore(h, k)
  BY SampleKeepsSides
<1>4. /\ Line!CrossingPoints(g) = {k \in Line!RunEnds(g) : Line!SideBefore(g, k) # g[k].side}
      /\ Line!CrossingPoints(h) = {k \in Line!RunEnds(h) : Line!SideBefore(h, k) # h[k].side}
  BY DEF Line!CrossingPoints
<1> HIDE DEF g, n
<1>5. \A k \in 1..Len(h) : k \in Line!CrossingPoints(g) <=> k \in Line!CrossingPoints(h)
  BY <1>1, <1>2, <1>3, <1>4
<1>6. n \in Line!CrossingPoints(g) <=> n \in Line!RunEnds(g) /\ Line!SideBefore(h, n) # s.side
  BY <1>1, <1>2, <1>3, <1>4
<1>7. Line!CrossingPoints(g) \subseteq (1..Len(h)) \cup {n} /\ Line!CrossingPoints(h) \subseteq 1..Len(h)
  BY <1>1, <1>4
<1> QED
  BY <1>1, <1>5, <1>6, <1>7 DEF g, n

-------------------------------------------------------------------------------

\* What the detector keeps of a track is of its samples h: the committed side is
\* that of the last run, and the candidate has been counted since the last
\* sample on that side.
SidesAreOf(h, c) ==
  /\ h = <<>> => c.committed = 0
  /\ h # <<>> => /\ c.committed # 0
                 /\ IsSideBefore(h, Len(h) + 1, c.committed)
                 /\ c.candidate = 0 => h[Len(h)].side = c.committed
  /\ c.candidate # 0 =>
       /\ c.count < Len(h) /\ h[Len(h) - c.count].side = c.committed
       /\ \A i \in (Len(h) - c.count + 1)..Len(h) : h[i].side = c.candidate

\* The crossings es that were reported are those of the samples h.
LogIsOf(h, es) ==
  /\ IsFiniteSet(Line!CrossingPoints(h))
  /\ Len(es) = Cardinality(Line!CrossingPoints(h))
  /\ \A i \in 1..Len(es) :
       /\ es[i].at \in Line!CrossingPoints(h)
       /\ es[i].type = Line!TypeOfCrossing(h[es[i].at].side) /\ es[i].ts = h[es[i].at].ts
       /\ i > 1 => es[i - 1].at < es[i].at

\* A crossing is reported exactly when the sample ends a run on the other side.
LEMMA CrossesWhenRunEnds ==
  ASSUME NEW h \in Seq(Line!Sample), NEW s \in Line!Sample, NEW c, Kept(c), SidesAreOf(h, c),
         h # <<>>
  PROVE  Line!Crosses(c, s.side) <=>
           /\ Len(h) + 1 \in Line!RunEnds(Append(h, s))
           /\ c.committed # s.side
<1> DEFINE n == Len(h)
           side == s.side
           m == c.count
           C == ConfirmFrames
<1>1. /\ C \in Nat \ {0} /\ n \in Nat \ {0} /\ side \in {-1, 1}
      /\ c.committed \in {-1, 1} /\ c.candidate \in {0, -c.committed} /\ m \in Nat
      /\ c.candidate = 0 => m = 0
      /\ c.candidate # 0 => m \in 1..(C - 1)
  <2>1. c.committed \in {-1, 0, 1} /\ c.committed # 0 /\ m \in Nat
    BY DEF Kept, SidesAreOf, Line!SideState
  <2>2. C \in Nat \ {0} /\ n \in Nat \ {0} /\ side \in {-1, 1}
    BY CameraPassAssumption DEF Line!Sample
  <2> QED
    BY <2>1, <2>2 DEF Kept
<1>2. n + 1 \in Line!RunEnds(Append(h, s)) <=>
        /\ n + 1 >= C
        /\ \A i \in (n + 1 - C + 1)..n : h[i].side = side
  <2> HIDE DEF n, C, side
  <2>1. /\ n = Len(h) /\ C = ConfirmFrames /\ side = s.side
        /\ LET g == Append(h, s)
               k == Len(h) + 1
           IN k \in Line!RunEnds(g) <=>
                /\ k >= ConfirmFrames
                /\ \A i \in (k - ConfirmFrames + 1)..Len(h) : h[i].side = s.side
    BY SampleEndsRun DEF n, C, side
  <2> QED
    BY <2>1, <1>1
<1>3. Line!Crosses(c, side) <=>
        c.committed = -side /\ (IF c.candidate = side THEN m ELSE 0) + 1 >= C
  BY <1>1 DEF Line!Crosses, Line!CountOf
<1>4. /\ c.candidate = 0 => h[n].side = c.committed
      /\ c.candidate # 0 =>
           /\ m < n /\ h[n - m].side = c.committed
           /\ \A i \in (n - m + 1)..n : h[i].side = c.candidate
  BY DEF SidesAreOf
<1> HIDE DEF n, side, m, C
<1>5. ASSUME Line!Crosses(c, side)
      PROVE  n + 1 \in Line!RunEnds(Append(h, s)) /\ c.committed # side
  <2>1. c.committed = -side
    BY <1>3, <1>5
  <2>2. CASE c.candidate = side
    <3>1. m = C - 1 /\ m < n
      BY <1>1, <1>3, <1>4, <1>5, <2>2
    <3>2. n + 1 >= C /\ n + 1 - C + 1 = n - m + 1
      BY <3>1, <1>1
    <3> QED
      BY <3>2, <2>1, <2>2, <1>1, <1>2, <1>4
  <2>3. CASE c.candidate # side
    <3>1. C = 1
      BY <1>1, <1>3, <1>5, <2>3
    <3> QED
      BY <3>1, <2>1, <1>1, <1>2
  <2> QED
    BY <2>2, <2>3
<1>6. ASSUME n + 1 \in Line!RunEnds(Append(h, s)), c.committed # side
      PROVE  Line!Crosses(c, side)
  <2>1. c.committed = -side
    BY <1>1, <1>6
  <2>2. n + 1 >= C /\ \A i \in (n + 1 - C + 1)..n : h[i].side = side
    BY <1>2, <1>6
  <2>3. CASE C = 1
    BY <2>1, <2>3, <1>1, <1>3
  <2>4. CASE C > 1
    <3>1. h[n].side = side
      BY <2>2, <2>4, <1>1
    <3>2. c.candidate = side
      BY <3>1, <2>1, <1>1, <1>4, <1>6
    <3>3. h[n - m].side # side /\ m < n
      BY <3>2, <1>1, <1>4, <1>6
    <3>4. ~(n - m \in (n + 1 - C + 1)..n)
      BY <3>3, <2>2
    <3>5. m >= C - 1
      BY <3>4, <1>1
    <3> QED
      BY <3>2, <3>5, <2>1, <1>1, <1>3
  <2> QED
    BY <2>3, <2>4, <1>1
<1> QED
  BY <1>5, <1>6 DEF n, side

\* What the detector keeps is of the samples after one more.
LEMMA SampleKeepsSidesOf ==
  ASSUME NEW h \in Seq(Line!Sample), NEW s \in Line!Sample, NEW c, Kept(c), SidesAreOf(h, c)
  PROVE  SidesAreOf(Append(h, s), Line!Sampled(c, s.side))
<1> DEFINE g == Append(h, s)
           n == Len(h)
           side == s.side
           d == Line!Sampled(c, side)
<1> SUFFICES SidesAreOf(g, d)
  OBVIOUS
<1>1. /\ ConfirmFrames \in Nat \ {0} /\ n \in Nat /\ side \in {-1, 1}
      /\ c.committed \in {-1, 0, 1} /\ c.candidate \in {-1, 0, 1} /\ c.count \in Nat
      /\ c = [committed |-> c.committed, candidate |-> c.candidate, count |-> c.count]
      /\ c.candidate \in {0, -c.committed}
  BY CameraPassAssumption DEF Line!Sample, Kept, Line!SideState
<1>2. /\ g \in Seq(Line!Sample) /\ Len(g) = n + 1 /\ g[n + 1] = s /\ g # <<>>
      /\ \A i \in 1..n : g[i] = h[i]
      /\ \A k \in 1..n : k \in Line!RunEnds(g) <=> k \in Line!RunEnds(h)
  BY SampleEndsRun
<1>3. Line!RunEnds(h) \subseteq 1..n /\ Line!RunEnds(g) \subseteq 1..(n + 1)
  BY <1>2, RunEndsAreSamples
<1>4. n + 1 \in Line!RunEnds(g) => IsSideBefore(g, n + 2, side)
  <2> SUFFICES ASSUME n + 1 \in Line!RunEnds(g) PROVE IsSideBefore(g, n + 2, side)
    OBVIOUS
  <2> HIDE DEF g, n, d
  <2>1. n + 1 < n + 2 /\ \A i \in Line!RunEnds(g) : i < n + 2 => i <= n + 1
    BY <1>1, <1>3
  <2>2. g[n + 1].side = side
    BY <1>2
  <2> QED
    BY <2>1, <2>2 DEF IsSideBefore
<1>5. ASSUME n + 1 \notin Line!RunEnds(g), n # 0, IsSideBefore(h, n + 1, c.committed)
      PROVE  IsSideBefore(g, n + 2, c.committed)
  <2> HIDE DEF g, n, d
  <2>1. \A j \in Nat : j \in Line!RunEnds(g) <=> j \in Line!RunEnds(h)
    BY <1>1, <1>2, <1>3, <1>5
  <2>2. CASE (\A j \in Line!RunEnds(h) : j >= n + 1) /\ c.committed = h[1].side
    <3>1. Line!RunEnds(h) = {}
      BY <2>2, <1>1, <1>3
    <3>2. Line!RunEnds(g) = {}
      BY <3>1, <2>1, <1>3
    <3>3. g[1] = h[1]
      BY <1>1, <1>2, <1>5
    <3> QED
      BY <2>2, <3>2, <3>3 DEF IsSideBefore
  <2>3. ASSUME NEW j \in Line!RunEnds(h), j < n + 1, c.committed = h[j].side,
               \A i \in Line!RunEnds(h) : i < n + 1 => i <= j
        PROVE  IsSideBefore(g, n + 2, c.committed)
    <3>1. j \in Line!RunEnds(g) /\ c.committed = g[j].side /\ j < n + 2
      BY <2>3, <1>1, <1>2, <1>3
    <3>2. \A i \in Line!RunEnds(g) : i < n + 2 => i <= j
      BY <2>1, <2>3, <1>1, <1>3
    <3> QED
      BY <3>1, <3>2 DEF IsSideBefore
  <2> QED
    BY <2>2, <2>3, <1>5 DEF IsSideBefore
<1>6. CASE h = <<>>
  <2>1. n = 0 /\ c.committed = 0 /\ d = Line!Settled(side)
    BY <1>6, <1>1 DEF SidesAreOf, Line!Sampled
  <2>2. d.committed = side /\ d.candidate = 0
    BY <2>1 DEF Line!Settled
  <2>3. IsSideBefore(g, n + 2, side)
    <3>1. CASE n + 1 \notin Line!RunEnds(g)
      <4> HIDE DEF g
      <4>1. Line!RunEnds(g) = {}
        BY <3>1, <2>1, <1>3
      <4>2. g[1].side = side
        BY <2>1, <1>2
      <4> QED
        BY <4>1, <4>2 DEF IsSideBefore
    <3> QED
      BY <3>1, <1>4
  <2>4. Len(g) + 1 = n + 2 /\ g[Len(g)].side = side
    BY <1>1, <1>2
  <2> HIDE DEF g, d
  <2>5. /\ d.committed # 0 /\ g[Len(g)].side = d.committed
        /\ IsSideBefore(g, Len(g) + 1, d.committed)
    BY <2>2, <2>3, <2>4, <1>1
  <2> QED
    BY <2>2, <2>5, <1>2 DEF SidesAreOf
<1>7. CASE h # <<>>
  <2>1. /\ c.committed \in {-1, 1} /\ n # 0 /\ IsSideBefore(h, n + 1, c.committed)
        /\ c.candidate = 0 => h[n].side = c.committed
        /\ c.candidate # 0 =>
             /\ c.count < n /\ h[n - c.count].side = c.committed
             /\ \A i \in (n - c.count + 1)..n : h[i].side = c.candidate
    BY <1>7, <1>1 DEF SidesAreOf
  <2>2. Line!Crosses(c, side) <=> n + 1 \in Line!RunEnds(g) /\ c.committed # side
    BY <1>7, CrossesWhenRunEnds
  <2>3. Len(g) + 1 = n + 2 /\ g[Len(g)].side = side
    BY <1>1, <1>2
  <2>4. CASE c.committed = side \/ Line!Crosses(c, side)
    <3>1. d = Line!Settled(side)
      BY <2>4, <1>1 DEF Line!Sampled
    <3>2. d.committed = side /\ d.candidate = 0
      BY <3>1 DEF Line!Settled
    <3>3. IsSideBefore(g, n + 2, side)
      <4> HIDE DEF g, d
      <4>1. CASE n + 1 \in Line!RunEnds(g)
        BY <4>1, <1>4
      <4>2. CASE n + 1 \notin Line!RunEnds(g)
        <5>1. c.committed = side
          BY <4>2, <2>2, <2>4
        <5>2. IsSideBefore(g, n + 2, c.committed)
          BY <4>2, <2>1, <1>5
        <5> QED
          BY <5>1, <5>2
      <4> QED
        BY <4>1, <4>2
    <3> HIDE DEF g, d
    <3>4. /\ d.committed # 0 /\ g[Len(g)].side = d.committed
          /\ IsSideBefore(g, Len(g) + 1, d.committed)
      BY <3>2, <3>3, <2>3, <1>1
    <3> QED
      BY <3>2, <3>4, <1>2 DEF SidesAreOf
  <2>5. CASE c.committed # side /\ ~Line!Crosses(c, side)
    <3>1. c.committed = -side
      BY <2>1, <2>5, <1>1
    <3> DEFINE m == Line!CountOf(c, side)
    <3>2. d.committed = c.committed /\ d.candidate = side /\ d.count = m
      <4>1. d = [c EXCEPT !.candidate = side, !.count = m]
        BY <2>1, <2>5, <1>1 DEF Line!Sampled
      <4> HIDE DEF d, m
      <4> QED
        BY <4>1, <1>1
    <3>3. IsSideBefore(g, n + 2, c.committed)
      BY <2>1, <2>2, <2>5, <1>5
    <3>4. m = IF c.candidate = side THEN c.count + 1 ELSE 1
      BY <1>1 DEF Line!CountOf
    <3> HIDE DEF g, d, m, n, side
    <3>5. /\ m \in Nat \ {0} /\ m < n + 1 /\ g[n + 1 - m].side = c.committed
          /\ \A i \in (n + 1 - m + 1)..(n + 1) : g[i].side = side
      <4>1. CASE c.candidate = side
        <5>1. m = c.count + 1 /\ c.candidate # 0 /\ c.count < n /\ n + 1 - m = n - c.count
          <6>1. c.candidate # 0
            BY <4>1, <1>1
          <6> QED
            BY <6>1, <4>1, <3>4, <2>1, <1>1
        <5>2. n - c.count \in 1..n
          BY <5>1, <1>1
        <5>3. g[n + 1 - m].side = c.committed
          BY <5>1, <5>2, <2>1, <1>2
        <5>4. ASSUME NEW i \in (n + 1 - m + 1)..(n + 1) PROVE g[i].side = side
          <6>1. CASE i = n + 1
            BY <6>1, <1>2 DEF side
          <6>2. CASE i # n + 1
            <7>1. i \in (n - c.count + 1)..n /\ i \in 1..n
              BY <6>2, <5>1, <5>2, <1>1
            <7> QED
              BY <7>1, <5>1, <4>1, <2>1, <1>2
          <6> QED
            BY <6>1, <6>2
        <5> QED
          BY <5>1, <5>3, <5>4, <1>1
      <4>2. CASE c.candidate # side
        <5>1. m = 1 /\ c.candidate = 0
          BY <4>2, <3>1, <3>4, <1>1
        <5>2. n \in 1..n /\ n + 1 - m = n
          BY <5>1, <2>1, <1>1
        <5>3. g[n + 1 - m].side = c.committed
          BY <5>1, <5>2, <2>1, <1>2
        <5>4. ASSUME NEW i \in (n + 1 - m + 1)..(n + 1) PROVE g[i].side = side
          <6>1. i = n + 1
            BY <5>1, <1>1
          <6> QED
            BY <6>1, <1>2 DEF side
        <5> QED
          BY <5>1, <5>2, <5>3, <5>4, <1>1
      <4> QED
        BY <4>1, <4>2
    <3>6. /\ d.committed # 0 /\ d.candidate # 0
          /\ IsSideBefore(g, Len(g) + 1, d.committed)
      BY <3>2, <3>3, <2>1, <2>3, <1>1
    <3>7. /\ d.count < Len(g) /\ g[Len(g) - d.count].side = d.committed
          /\ \A i \in (Len(g) - d.count + 1)..Len(g) : g[i].side = d.candidate
      <4>1. Len(g) = n + 1
        BY <1>2
      <4> QED
        BY <4>1, <3>2, <3>5, <1>1
    <3> QED
      BY <3>6, <3>7, <1>2 DEF SidesAreOf
  <2> QED
    BY <2>4, <2>5
<1> QED
  BY <1>6, <1>7

\* The crossing that is reported at a sample is the one that the sample adds.
LEMMA SampleKeepsLogOf ==
  ASSUME NEW h \in Seq(Line!Sample), NEW s \in Line!Sample, NEW c, Kept(c), SidesAreOf(h, c),
         NEW es \in Seq(Line!CrossingEvent), LogIsOf(h, es),
         NEW ds, ds = IF Line!Crosses(c, s.side)
                      THEN Append(es, [type |-> Line!TypeOfCrossing(s.side), ts |-> s.ts,
                                       at |-> Len(h) + 1])
                      ELSE es
  PROVE  LogIsOf(Append(h, s), ds)
<1> DEFINE g == Append(h, s)
           n == Len(h)
           crosses == Line!Crosses(c, s.side)
           P == Line!CrossingPoints(h)
           Q == Line!CrossingPoints(g)
           new == [type |-> Line!TypeOfCrossing(s.side), ts |-> s.ts, at |-> n + 1]
<1>1. /\ n \in Nat /\ g[n + 1] = s /\ Len(g) = n + 1
      /\ \A i \in 1..n : g[i] = h[i]
      /\ g \in Seq(Line!Sample)
  BY SampleEndsRun
<1>2. P \subseteq 1..n
  BY RunEndsAreSamples DEF Line!CrossingPoints
<1>3. Q = P \cup (IF crosses THEN {n + 1} ELSE {})
  <2>1. CASE h # <<>>
    <3>1. Line!SideBefore(h, n + 1) = c.committed
      <4>1. IsSideBefore(h, n + 1, c.committed) /\ n + 1 \in Nat
        BY <2>1, <1>1 DEF SidesAreOf
      <4> QED
        BY <4>1, SideBeforeIs
    <3>2. crosses <=> n + 1 \in Line!RunEnds(g) /\ c.committed # s.side
      BY <2>1, CrossesWhenRunEnds
    <3>3. Q = P \cup (IF n + 1 \in Line!RunEnds(g) /\ Line!SideBefore(h, n + 1) # s.side
                      THEN {n + 1} ELSE {})
      BY <2>1, SampleAddsPoint
    <3> HIDE DEF g, n, P, Q, crosses
    <3> QED
      BY <3>1, <3>2, <3>3
  <2>2. CASE h = <<>>
    <3>1. n = 0 /\ c.committed = 0 /\ s.side \in {-1, 1}
      BY <2>2 DEF SidesAreOf, Line!Sample
    <3>2. ~crosses
      BY <3>1 DEF Line!Crosses
    <3>3. P = {}
      BY <3>1, <1>2
    <3>4. Line!RunEnds(g) \subseteq 1..1
      <4>1. Line!RunEnds(g) \subseteq 1..Len(g)
        BY <1>1, RunEndsAreSamples
      <4> HIDE DEF g
      <4> QED
        BY <4>1, <3>1, <1>1
    <3>5. ASSUME NEW k \in Line!RunEnds(g) PROVE Line!SideBefore(g, k) = g[k].side
      <4> HIDE DEF g
      <4>1. k = 1
        BY <3>4
      <4>2. \A j \in Line!RunEnds(g) : j >= k
        BY <3>4, <4>1
      <4>3. IsSideBefore(g, k, g[1].side)
        BY <4>2 DEF IsSideBefore
      <4>4. Line!SideBefore(g, k) = g[1].side
        BY <4>1, <4>3, <1>1, SideBeforeIs
      <4> QED
        BY <4>1, <4>4
    <3>6. Q = {}
      BY <3>5 DEF Line!CrossingPoints
    <3> QED
      BY <3>2, <3>3, <3>6
  <2> QED
    BY <2>1, <2>2
<1>4. /\ IsFiniteSet(P) /\ Len(es) = Cardinality(P)
      /\ \A i \in 1..Len(es) :
           /\ es[i].at \in P
           /\ es[i].type = Line!TypeOfCrossing(h[es[i].at].side) /\ es[i].ts = h[es[i].at].ts
           /\ i > 1 => es[i - 1].at < es[i].at
  BY DEF LogIsOf
<1> HIDE DEF g, P, Q, crosses
<1>5. \A i \in 1..Len(es) :
        es[i].type = Line!TypeOfCrossing(g[es[i].at].side) /\ es[i].ts = g[es[i].at].ts
  BY <1>1, <1>2, <1>4
<1>6. CASE ~crosses
  <2>1. Q = P /\ ds = es
    BY <1>3, <1>6 DEF crosses
  <2> QED
    BY <2>1, <1>4, <1>5 DEF LogIsOf, Q, g
<1>7. CASE crosses
  <2>1. Q = P \cup {n + 1} /\ n + 1 \notin P
    BY <1>1, <1>2, <1>3, <1>7
  <2>2. IsFiniteSet(Q) /\ Cardinality(Q) = Cardinality(P) + 1
    BY <2>1, <1>4, FS_AddElement
  <2>3. ds = Append(es, new)
    BY <1>7 DEF crosses
  <2>4. /\ Len(ds) = Len(es) + 1 /\ ds[Len(es) + 1] = new /\ Len(es) \in Nat
        /\ \A i \in 1..Len(es) : ds[i] = es[i]
    BY <2>3
  <2>5. ASSUME NEW i \in 1..Len(ds)
        PROVE  /\ ds[i].at \in Q
               /\ ds[i].type = Line!TypeOfCrossing(g[ds[i].at].side) /\ ds[i].ts = g[ds[i].at].ts
               /\ i > 1 => ds[i - 1].at < ds[i].at
    <3>1. CASE i \in 1..Len(es)
      <4>1. ds[i] = es[i] /\ (i > 1 => ds[i - 1] = es[i - 1])
        BY <3>1, <2>4
      <4> QED
        BY <4>1, <3>1, <2>1, <1>4, <1>5
    <3>2. CASE i = Len(es) + 1
      <4>1. ds[i] = new /\ new.at = n + 1
        BY <3>2, <2>4
      <4>2. i > 1 => ds[i - 1].at < n + 1
        <5>1. i > 1 => i - 1 \in 1..Len(es) /\ ds[i - 1] = es[i - 1]
          BY <3>2, <2>4
        <5>2. \A k \in P : k < n + 1
          BY <1>1, <1>2
        <5> QED
          BY <5>1, <5>2, <1>4
      <4> QED
        BY <4>1, <4>2, <2>1, <1>1
    <3> QED
      BY <3>1, <3>2, <2>4
  <2> QED
    BY <2>2, <2>4, <2>5, <1>4 DEF LogIsOf, Q, g
<1> QED
  BY <1>6, <1>7

\* Every flip that persists is reported, in order and once, and flicker is not.
RunsInv ==
  /\ AlternateInv
  /\ \A t \in Tracks : SidesAreOf(samples[t], sides[t]) /\ LogIsOf(samples[t], crossings[t])

\* The samples of a track decide on what is kept of it and on its crossings.
LEMMA RunsStep == RunsInv /\ [Line!Next]_(Line!vars) => RunsInv'
<1> SUFFICES ASSUME RunsInv, [Line!Next]_(Line!vars) PROVE RunsInv'
  OBVIOUS
<1>1. AlternateInv'
  BY AlternateStep DEF RunsInv
<1>2. /\ sides \in [Tracks -> Line!SideState] /\ crossings \in [Tracks -> Seq(Line!CrossingEvent)]
      /\ samples \in [Tracks -> Seq(Line!Sample)]
      /\ \A t \in Tracks : Kept(sides[t])
      /\ \A t \in Tracks : SidesAreOf(samples[t], sides[t]) /\ LogIsOf(samples[t], crossings[t])
  BY DEF RunsInv, AlternateInv, Line!TypeOK, Kept
<1>3. ASSUME NEW t \in Tracks, NEW side \in {-1, 0, 1}, NEW ts \in Nat, Line!Update(t, side, ts)
      PROVE  \A u \in Tracks : SidesAreOf(samples'[u], sides'[u]) /\ LogIsOf(samples'[u], crossings'[u])
  <2> DEFINE h == samples[t]
             c == sides[t]
             es == crossings[t]
             s == [side |-> side, ts |-> ts]
             new == [type |-> Line!TypeOfCrossing(side), ts |-> ts, at |-> Len(h) + 1]
  <2>1. /\ sides' = [sides EXCEPT ![t] = Line!Sampled(@, side)]
        /\ samples' = [samples EXCEPT ![t] = IF side = 0 THEN @ ELSE Append(@, s)]
        /\ crossings' = [crossings EXCEPT ![t] =
             IF Line!Crosses(c, side) THEN Append(@, new) ELSE @]
    BY <1>3 DEF Line!Update
  <2>2. /\ sides'[t] = Line!Sampled(c, side)
        /\ samples'[t] = IF side = 0 THEN h ELSE Append(h, s)
        /\ crossings'[t] = IF Line!Crosses(c, side) THEN Append(es, new) ELSE es
        /\ \A u \in Tracks : u # t => /\ sides'[u] = sides[u] /\ samples'[u] = samples[u]
                                      /\ crossings'[u] = crossings[u]
    BY <2>1, <1>2
  <2>3. SidesAreOf(samples'[t], sides'[t]) /\ LogIsOf(samples'[t], crossings'[t])
    <3>1. CASE side = 0
      <4>1. Line!Sampled(c, side) = c /\ ~Line!Crosses(c, side)
        BY <3>1 DEF Line!Sampled, Line!Crosses
      <4> QED
        BY <3>1, <4>1, <2>2, <1>2
    <3>2. CASE side # 0
      <4>1. s \in Line!Sample /\ s.side = side /\ s.ts = ts
        BY <3>2 DEF Line!Sample
      <4>2. /\ h \in Seq(Line!Sample) /\ es \in Seq(Line!CrossingEvent)
            /\ Kept(c) /\ SidesAreOf(h, c) /\ LogIsOf(h, es)
        BY <1>2
      <4>3. samples'[t] = Append(h, s)
        BY <3>2, <2>2
      <4> HIDE DEF h, c, es, s
      <4>4. SidesAreOf(Append(h, s), Line!Sampled(c, side))
        BY <4>1, <4>2, SampleKeepsSidesOf
      <4>5. LogIsOf(Append(h, s), crossings'[t])
        <5> DEFINE ds == crossings'[t]
        <5>1. ds = IF Line!Crosses(c, s.side)
                   THEN Append(es, [type |-> Line!TypeOfCrossing(s.side), ts |-> s.ts,
                                    at |-> Len(h) + 1])
                   ELSE es
          BY <2>2, <4>1
        <5> HIDE DEF ds
        <5>2. LogIsOf(Append(h, s), ds)
          BY <4>1, <4>2, <5>1, SampleKeepsLogOf
        <5> QED
          BY <5>2 DEF ds
      <4> QED
        BY <4>3, <4>4, <4>5, <2>2
    <3> QED
      BY <3>1, <3>2
  <2> QED
    BY <2>2, <2>3, <1>2
<1>4. CASE UNCHANGED Line!vars
  BY <1>4, <1>1, <1>2 DEF Line!vars, RunsInv
<1> QED
  BY <1>1, <1>3, <1>4 DEF Line!Next, RunsInv

\* There is no sample yet.
LEMMA RunsInit == Line!Init => RunsInv
<1> SUFFICES ASSUME Line!Init PROVE RunsInv
  OBVIOUS
<1>1. /\ \A t \in Tracks : samples[t] = <<>> /\ crossings[t] = <<>> /\ sides[t] = Line!Settled(0)
      /\ AlternateInv
  BY AlternateInit DEF Line!Init
<1>2. SidesAreOf(<<>>, Line!Settled(0))
  BY DEF SidesAreOf, Line!Settled
<1>3. Line!CrossingPoints(<<>>) = {}
  <2>1. Line!RunEnds(<<>>) \subseteq 1..Len(<<>>)
    <3>1. <<>> \in Seq(Line!Sample)
      OBVIOUS
    <3> QED
      BY <3>1, RunEndsAreSamples
  <2> QED
    BY <2>1 DEF Line!CrossingPoints
<1>4. LogIsOf(<<>>, <<>>)
  BY <1>3, FS_EmptySet DEF LogIsOf
<1> QED
  BY <1>1, <1>2, <1>4 DEF RunsInv

\* The crossings of a track are those of its samples, for any number of
\* confirming frames: every flip that persists, in order and once, no flicker.
THEOREM FlipsAreReportedOnce == Line!Spec => []Line!CrossingsAreRuns
<1>1. RunsInv => Line!CrossingsAreRuns
  <2> SUFFICES ASSUME RunsInv PROVE Line!CrossingsAreRuns
    OBVIOUS
  <2>1. Line!TypeOK /\ \A t \in Tracks : LogIsOf(samples[t], crossings[t])
    BY DEF RunsInv, AlternateInv
  <2>2. \A S : Line!Cardinality(S) = Cardinality(S)
    BY DEF Line!Cardinality, Cardinality
  <2> QED
    BY <2>1, <2>2, Zenon DEF LogIsOf, Line!CrossingsAreRuns
<1> QED
  BY <1>1, RunsInit, RunsStep, PTL DEF Line!Spec

-------------------------------------------------------------------------------
(* The reports are the visits *)

\* The reports of a visit that may still be open.
ReportsOf(v, open) ==
  {EnterOf(v)} \cup {DwellAt(v, x) : x \in Entered(v)} \cup (IF v = open THEN {} ELSE {ExitOf(v)})

\* The reports es are those of the visits that the sightings S show, of which
\* one may be open and has no exit yet.
AreReportsOf(es, S, open) ==
  /\ \A v \in Visits(S) : Entered(v) # {} =>
       /\ Reported(es, EnterOf(v)) = 1
       /\ v # open => Reported(es, ExitOf(v)) = 1
       /\ \A x \in Entered(v) :
            Reported(es, DwellAt(v, x)) = Cardinality({k \in Intervals(v) : First(Ticked(v, k)) = x})
  /\ \A i \in 1..Len(es) : \E v \in Visits(S) : Entered(v) # {} /\ es[i] \in ReportsOf(v, open)

\* A frame that the tracker has swept.
Swept(f) == f \in Frames /\ (f < now \/ (phase # "frame" /\ f = now))

\* The sightings from which a visit goes on.
Since(S, s) == {x \in S : s <= x}
OpenVisit(t) == IF t \in DOMAIN state THEN Since(sightings[t], state[t].first) ELSE {}

\* A track that the tracker knows is in the last visit of its sightings; the
\* visits of any other were left at a sweep.
VisitInv(t) ==
  LET S == sightings[t]
      p == state[t]
  IN
  /\ S \subseteq Frames /\ \A x \in S : x <= now
  /\ t \in DOMAIN state =>
       /\ phase # "closed"
       /\ p.first \in S /\ StartsVisit(S, p.first)
       /\ \A y \in S : p.first < y => ~StartsVisit(S, y)
       /\ p.last \in S /\ \A x \in S : x <= p.last
       /\ \A f \in Frames : Swept(f) => f - p.last <= ExitGrace
  /\ t \notin DOMAIN state /\ phase # "closed" =>
       \A x \in S : (\A y \in S : y <= x) =>
         \E f \in Frames : Swept(f) /\ x < f /\ f - x > ExitGrace
  /\ AreReportsOf(log[t], S, OpenVisit(t))

VisitsInv == now \in Frames /\ \A t \in Tracks : VisitInv(t)

-------------------------------------------------------------------------------

\* A set of numbers has a least member.
LEMMA LeastIn ==
  ASSUME NEW S \in SUBSET Nat, S # {}
  PROVE  First(S) \in S /\ \A y \in S : First(S) <= y
<1>1. PICK x \in S : \A y \in S : ~(<<y, x>> \in OpToRel(<, Nat))
  BY NatLessThanWellFounded, WFMin
<1>2. x \in S /\ \A y \in S : x <= y
  <2> SUFFICES ASSUME NEW y \in S PROVE x <= y
    OBVIOUS
  <2>1. x \in Nat /\ y \in Nat
    OBVIOUS
  <2>2. ~(y < x)
    BY <1>1, <2>1 DEF OpToRel
  <2> QED
    BY <2>1, <2>2
<1> QED
  BY <1>2, Zenon DEF First

LEMMA LeastIs ==
  ASSUME NEW S \in SUBSET Nat, NEW x \in S, \A y \in S : x <= y
  PROVE  First(S) = x
<1>1. First(S) \in S /\ First(S) <= x
  BY LeastIn
<1>2. x <= First(S) /\ x \in Nat /\ First(S) \in Nat
  BY <1>1
<1> QED
  BY <1>1, <1>2

\* And a greatest one, when it has a bound.
LEMMA GreatestIs ==
  ASSUME NEW S \in SUBSET Nat, NEW x \in S, \A y \in S : y <= x
  PROVE  Final(S) = x
<1>1. Final(S) \in S /\ \A y \in S : y <= Final(S)
  BY Zenon DEF Final
<1>2. x <= Final(S) /\ Final(S) <= x /\ x \in Nat /\ Final(S) \in Nat
  BY <1>1
<1> QED
  BY <1>2

LEMMA GreatestIn ==
  ASSUME NEW S \in SUBSET Nat, S # {}, NEW n \in Nat, \A x \in S : x <= n
  PROVE  Final(S) \in S /\ \A y \in S : y <= Final(S)
<1>1. PICK j \in S : \A i \in S : i <= j
  BY BoundedHasGreatest
<1> QED
  BY <1>1, Zenon DEF Final

-------------------------------------------------------------------------------

\* A visit starts at its first sighting.
LEMMA VisitsStart ==
  ASSUME NEW S \in SUBSET Nat, NEW v \in Visits(S)
  PROVE  /\ v \subseteq S /\ v # {}
         /\ First(v) \in S /\ StartsVisit(S, First(v)) /\ v = Visit(S, First(v))
         /\ \A x \in v : First(v) <= x
<1>1. PICK s \in S : StartsVisit(S, s) /\ v = Visit(S, s)
  BY DEF Visits
<1>2. s \in v /\ v \subseteq S /\ \A x \in v : s <= x
  BY <1>1 DEF Visit
<1>3. First(v) = s
  BY <1>2, LeastIs
<1> QED
  BY <1>1, <1>2, <1>3

\* No two visits share a sighting.
LEMMA VisitsAreDisjoint ==
  ASSUME NEW S \in SUBSET Nat, NEW v \in Visits(S), NEW w \in Visits(S), NEW x \in v, x \in w
  PROVE  v = w
<1>1. ASSUME NEW a \in Visits(S), NEW b \in Visits(S), x \in a, x \in b, First(a) < First(b)
      PROVE  FALSE
  <2>1. First(b) \in S /\ StartsVisit(S, First(b)) /\ First(b) <= x
    BY <1>1, VisitsStart
  <2>2. a = Visit(S, First(a))
    BY <1>1, VisitsStart
  <2> QED
    BY <1>1, <2>1, <2>2 DEF Visit
<1>2. First(v) \in Nat /\ First(w) \in Nat
  BY VisitsStart
<1>3. First(v) = First(w)
  BY <1>1, <1>2
<1> QED
  BY <1>3, VisitsStart

\* Whether a visit starts at a sighting does not depend on later ones.
LEMMA LaterKeepsStart ==
  ASSUME NEW S \in SUBSET Nat, NEW n \in Nat, NEW s \in Nat, s <= n
  PROVE  StartsVisit(S \cup {n}, s) <=> StartsVisit(S, s)
<1>1. \A x : x \in S \cup {n} /\ x < s <=> x \in S /\ x < s
  OBVIOUS
<1>2. ASSUME NEW x \in S, x < s
      PROVE  (\E y \in S \cup {n} : x < y /\ y < s) <=> (\E y \in S : x < y /\ y < s)
  BY <1>1
<1> QED
  BY <1>1, <1>2 DEF StartsVisit

\* A later sighting that starts a visit leaves the earlier visits as they are.
LEMMA NextVisit ==
  ASSUME NEW S \in SUBSET Nat, NEW n \in Nat, \A x \in S : x < n, StartsVisit(S \cup {n}, n)
  PROVE  Visits(S \cup {n}) = Visits(S) \cup {{n}}
<1> DEFINE T == S \cup {n}
<1>1. \A s \in S : s \in Nat /\ s < n /\ (StartsVisit(T, s) <=> StartsVisit(S, s))
  BY LaterKeepsStart
<1>2. \A s \in S : Visit(T, s) = Visit(S, s)
  <2> SUFFICES ASSUME NEW s \in S, NEW x PROVE x \in Visit(T, s) <=> x \in Visit(S, s)
    OBVIOUS
  <2>1. n \notin Visit(T, s)
    BY <1>1 DEF Visit
  <2>2. ASSUME NEW z \in S PROVE z \in Visit(T, s) <=> z \in Visit(S, s)
    BY <1>1 DEF Visit
  <2> QED
    BY <2>1, <2>2, <1>1 DEF Visit
<1>3. Visit(T, n) = {n}
  <2>1. \A x \in T : n <= x <=> x = n
    BY <1>1
  <2>2. \A y \in T : ~(n < y)
    BY <1>1
  <2>3. \A x : x \in Visit(T, n) <=> x \in T /\ n <= x
    BY <2>2 DEF Visit
  <2> QED
    BY <2>1, <2>3
<1> HIDE DEF T
<1>4. \A v : v \in Visits(T) <=> v \in Visits(S) \cup {{n}}
  <2>1. \A v : v \in Visits(T) <=> \E s \in T : StartsVisit(T, s) /\ v = Visit(T, s)
    BY DEF Visits
  <2>2. \A v : v \in Visits(S) <=> \E s \in S : StartsVisit(S, s) /\ v = Visit(S, s)
    BY DEF Visits
  <2>3. \A s : s \in T <=> s \in S \/ s = n
    BY DEF T
  <2> QED
    BY <2>1, <2>2, <2>3, <1>1, <1>2, <1>3 DEF T
<1> QED
  BY <1>4 DEF T

\* One that starts none belongs to the last visit.
LEMMA LongerVisit ==
  ASSUME NEW S \in SUBSET Nat, NEW n \in Nat, \A x \in S : x < n, ~StartsVisit(S \cup {n}, n),
         NEW s \in S, StartsVisit(S, s), \A y \in S : s < y => ~StartsVisit(S, y)
  PROVE  /\ Visits(S \cup {n}) = (Visits(S) \ {Since(S, s)}) \cup {Since(S, s) \cup {n}}
         /\ Since(S, s) \in Visits(S)
<1> DEFINE T == S \cup {n}
<1>1. \A r \in S : r \in Nat /\ r < n /\ (StartsVisit(T, r) <=> StartsVisit(S, r))
  BY LaterKeepsStart
<1>2. Visit(S, s) = Since(S, s)
  BY DEF Visit, Since
<1>3. Visit(T, s) = Since(S, s) \cup {n}
  <2>1. \A y \in T : s < y => ~StartsVisit(T, y)
    BY <1>1
  <2> QED
    BY <2>1, <1>1 DEF Visit, Since
<1>4. ASSUME NEW r \in S, StartsVisit(S, r), r # s
      PROVE  Visit(T, r) = Visit(S, r) /\ Visit(S, r) # Since(S, s)
  <2>1. r < s
    BY <1>1, <1>4
  <2>2. n \notin Visit(T, r)
    BY <2>1, <1>1 DEF Visit
  <2>3. ASSUME NEW z \in S PROVE z \in Visit(T, r) <=> z \in Visit(S, r)
    BY <1>1 DEF Visit
  <2>4. r \in Visit(S, r)
    BY <1>1 DEF Visit
  <2>5. r \notin Since(S, s)
    BY <2>1, <1>1 DEF Since
  <2>6. Visit(T, r) \subseteq T /\ Visit(S, r) \subseteq S
    BY DEF Visit
  <2>7. Visit(T, r) = Visit(S, r)
    BY <2>2, <2>3, <2>6
  <2> QED
    BY <2>4, <2>5, <2>7
<1> HIDE DEF T
<1>5. \A v : v \in Visits(T) <=> v \in (Visits(S) \ {Since(S, s)}) \cup {Since(S, s) \cup {n}}
  <2>1. \A v : v \in Visits(T) <=> \E r \in T : StartsVisit(T, r) /\ v = Visit(T, r)
    BY DEF Visits
  <2>2. \A v : v \in Visits(S) <=> \E r \in S : StartsVisit(S, r) /\ v = Visit(S, r)
    BY DEF Visits
  <2>3. \A r : r \in T /\ StartsVisit(T, r) <=> r \in S /\ StartsVisit(S, r)
    BY <1>1 DEF T
  <2>4. \A v : v \in Visits(T) <=> v = Visit(T, s) \/ \E r \in S : r # s /\ StartsVisit(S, r) /\ v = Visit(T, r)
    BY <2>1, <2>3
  <2>5. \A v : v \in Visits(S) /\ v # Since(S, s) <=> \E r \in S : r # s /\ StartsVisit(S, r) /\ v = Visit(S, r)
    BY <2>2, <1>2, <1>4
  <2>6. \A v : (\E r \in S : r # s /\ StartsVisit(S, r) /\ v = Visit(T, r))
                 <=> (\E r \in S : r # s /\ StartsVisit(S, r) /\ v = Visit(S, r))
    BY <1>4
  <2> QED
    BY <2>4, <2>5, <2>6, <1>3
<1>6. Since(S, s) \in Visits(S)
  BY <1>2 DEF Visits
<1> QED
  BY <1>5, <1>6 DEF T

-------------------------------------------------------------------------------

\* How often something was reported.
LEMMA ReportedIs ==
  ASSUME NEW es \in Seq(ZoneEvent), NEW e
  PROVE  /\ Reported(es, e) \in Nat
         /\ (\A i \in 1..Len(es) : es[i] # e) => Reported(es, e) = 0
<1> DEFINE s == {i \in 1..Len(es) : es[i] = e}
<1>1. IsFiniteSet(1..Len(es))
  BY FS_Interval
<1>2. IsFiniteSet(s)
  BY <1>1, FS_Subset
<1>3. Cardinality(s) \in Nat
  BY <1>2, FS_CardinalityType
<1>4. (\A i \in 1..Len(es) : es[i] # e) => s = {}
  OBVIOUS
<1> HIDE DEF s
<1>5. Reported(es, e) = Cardinality(s)
  BY DEF Reported, s
<1> QED
  BY <1>3, <1>4, <1>5, FS_EmptySet

LEMMA ReportedMore ==
  ASSUME NEW es \in Seq(ZoneEvent), NEW new \in Seq(ZoneEvent), NEW e
  PROVE  Reported(es \o new, e) = Reported(es, e) + Reported(new, e)
<1> DEFINE m == Len(es)
           n == Len(new)
           all == es \o new
           a == {i \in 1..m : es[i] = e}
           b == {i \in 1..n : new[i] = e}
           c == {i \in (m + 1)..(m + n) : all[i] = e}
<1>1. /\ m \in Nat /\ n \in Nat /\ Len(all) = m + n
      /\ \A i \in 1..m : all[i] = es[i]
      /\ \A i \in (m + 1)..(m + n) : all[i] = new[i - m]
  OBVIOUS
<1> HIDE DEF m, n, all
<1>2. {i \in 1..Len(all) : all[i] = e} = a \cup c
  BY <1>1
<1>3. a \cap c = {}
  BY <1>1
<1>4. IsFiniteSet(1..m) /\ IsFiniteSet(1..n) /\ IsFiniteSet((m + 1)..(m + n))
  BY <1>1, FS_Interval
<1>5. IsFiniteSet(a) /\ IsFiniteSet(b) /\ IsFiniteSet(c)
  BY <1>4, FS_Subset
<1>6. Cardinality(c) = Cardinality(b)
  <2> DEFINE f == [i \in b |-> i + m]
  <2>1. \A i \in b : i + m \in c
    <3> SUFFICES ASSUME NEW i \in b PROVE i + m \in c
      OBVIOUS
    <3>1. i \in 1..n /\ new[i] = e
      OBVIOUS
    <3>2. i + m \in (m + 1)..(m + n) /\ (i + m) - m = i
      BY <3>1, <1>1
    <3> QED
      BY <3>1, <3>2, <1>1
  <2>2. \A j \in c : j - m \in b /\ (j - m) + m = j
    <3> SUFFICES ASSUME NEW j \in c PROVE j - m \in b /\ (j - m) + m = j
      OBVIOUS
    <3>1. j \in (m + 1)..(m + n) /\ all[j] = e
      OBVIOUS
    <3>2. j - m \in 1..n /\ (j - m) + m = j
      BY <3>1, <1>1
    <3> QED
      BY <3>1, <3>2, <1>1
  <2>3. \A i, j \in b : i + m = j + m => i = j
    BY <1>1
  <2> HIDE DEF b, c
  <2>4. f \in [b -> c]
    BY <2>1
  <2>5. f \in Injection(b, c)
    BY <2>3, <2>4 DEF Injection, IsInjective
  <2>6. f \in Surjection(b, c)
    BY <2>2, <2>4 DEF Surjection
  <2>7. Cardinality(b) = Cardinality(c) <=> f \in Surjection(b, c)
    BY <2>5, <1>5, FS_Injection
  <2> QED
    BY <2>6, <2>7
<1> HIDE DEF a, b, c
<1>7. Cardinality(a \cup c) = Cardinality(a) + Cardinality(c)
  <2>1. Cardinality(a) \in Nat /\ Cardinality(c) \in Nat
    BY <1>5, FS_CardinalityType
  <2>2. Cardinality(a \cap c) = 0
    BY <1>3, FS_EmptySet
  <2>3. Cardinality(a \cup c) = Cardinality(a) + Cardinality(c) - Cardinality(a \cap c)
    BY <1>5, FS_Union
  <2> QED
    BY <2>1, <2>2, <2>3
<1> QED
  BY <1>2, <1>6, <1>7 DEF Reported, a, b, m, n, all

LEMMA ReportedTimes ==
  ASSUME NEW e \in ZoneEvent, NEW n \in Nat
  PROVE  /\ [i \in 1..n |-> e] \in Seq(ZoneEvent)
         /\ Reported([i \in 1..n |-> e], e) = n
<1> DEFINE es == [i \in 1..n |-> e]
<1>1. es \in Seq(ZoneEvent) /\ Len(es) = n
  OBVIOUS
<1>2. {i \in 1..Len(es) : es[i] = e} = 1..n
  BY <1>1
<1>3. Cardinality(1..n) = n
  <2>1. Cardinality(1..n) = IF 1 > n THEN 0 ELSE n - 1 + 1
    BY FS_Interval
  <2> QED
    BY <2>1
<1> HIDE DEF es
<1>4. Reported(es, e) = n
  BY <1>2, <1>3 DEF Reported
<1> QED
  BY <1>1, <1>4 DEF es

\* What a sighting reports, event by event.
LEMMA SightingReportsOnce ==
  ASSUME now \in Nat, NEW p \in Presence, Known(p, now)
  PROVE  LET q == SeenAgain(p, now)
             new == EventsOfSeenAgain(p, now)
             enter == Event("ZONE_ENTER", now, 0)
             dwell == Event("ZONE_DWELL", now, now - p.first)
         IN
         /\ Reported(new, enter) = IF q.entered /\ ~p.entered THEN 1 ELSE 0
         /\ Reported(new, dwell) = q.ticks - p.ticks
         /\ \A e : e # enter /\ e # dwell => Reported(new, e) = 0
         /\ \A i \in 1..Len(new) : (new[i] = enter /\ q.entered /\ ~p.entered) \/ (new[i] = dwell /\ q.entered)
<1> DEFINE q == SeenAgain(p, now)
           enter == Event("ZONE_ENTER", now, 0)
           dwell == Event("ZONE_DWELL", now, now - p.first)
           n == q.ticks - p.ticks
           first == IF q.entered /\ ~p.entered THEN <<enter>> ELSE <<>>
           dwells == [i \in 1..n |-> dwell]
           new == EventsOfSeenAgain(p, now)
<1>1. n \in Nat /\ now - p.first \in Nat /\ (~q.entered => n = 0)
  BY SightingKeepsKnown DEF Known, Presence
<1>2. enter \in ZoneEvent /\ dwell \in ZoneEvent /\ enter # dwell
  BY <1>1 DEF Event, ZoneEvent
<1>3. new = first \o dwells
  BY DEF EventsOfSeenAgain
<1> HIDE DEF q, n, enter, dwell, new
<1>4. first \in Seq(ZoneEvent) /\ Len(first) = (IF q.entered /\ ~p.entered THEN 1 ELSE 0)
      /\ \A i \in 1..Len(first) : first[i] = enter
  BY <1>2
<1>5. first = [i \in 1..Len(first) |-> enter]
  BY <1>4
<1>6. Reported(first, enter) = IF q.entered /\ ~p.entered THEN 1 ELSE 0
  BY <1>2, <1>4, <1>5, ReportedTimes
<1>7. dwells \in Seq(ZoneEvent) /\ Reported(dwells, dwell) = n
  BY <1>1, <1>2, ReportedTimes
<1>8. Len(dwells) = n /\ \A i \in 1..n : dwells[i] = dwell
  BY <1>1
<1> HIDE DEF first, dwells
<1>9. /\ \A e : e # enter => Reported(first, e) = 0
      /\ \A e : e # dwell => Reported(dwells, e) = 0
  BY <1>4, <1>7, <1>8, ReportedIs
<1>10. \A e : Reported(new, e) = Reported(first, e) + Reported(dwells, e)
  BY <1>3, <1>4, <1>7, ReportedMore
<1>11. \A i \in 1..Len(new) : (new[i] = enter /\ q.entered /\ ~p.entered) \/ (new[i] = dwell /\ q.entered)
  <2> SUFFICES ASSUME NEW i \in 1..Len(new)
               PROVE  (new[i] = enter /\ q.entered /\ ~p.entered) \/ (new[i] = dwell /\ q.entered)
    OBVIOUS
  <2> DEFINE m == Len(first)
  <2>1. m \in Nat /\ Len(new) = m + n
    <3>1. m \in Nat /\ Len(dwells) = n
      BY <1>4, <1>8
    <3>2. first \in Seq(ZoneEvent) /\ dwells \in Seq(ZoneEvent)
      BY <1>4, <1>7
    <3>3. Len(first \o dwells) = Len(first) + Len(dwells)
      BY <3>2
    <3> QED
      BY <3>1, <3>3, <1>3
  <2>2. CASE i \in 1..m
    <3>1. new[i] = first[i]
      BY <2>2, <1>3, <1>4, <1>7
    <3>2. q.entered /\ ~p.entered
      BY <2>2, <1>4
    <3> QED
      BY <3>1, <3>2, <2>2, <1>4
  <2>3. CASE i \in (m + 1)..(m + n)
    <3>1. new[i] = dwells[i - m] /\ i - m \in 1..n
      BY <2>1, <2>3, <1>1, <1>3, <1>4, <1>7, <1>8
    <3>2. n # 0
      BY <2>1, <2>3, <1>1
    <3> QED
      BY <3>1, <3>2, <1>1, <1>8
  <2> QED
    BY <2>1, <2>2, <2>3, <1>1
<1>12. Reported(new, enter) = IF q.entered /\ ~p.entered THEN 1 ELSE 0
  BY <1>2, <1>6, <1>9, <1>10
<1>13. Reported(new, dwell) = n
  BY <1>1, <1>2, <1>7, <1>9, <1>10
<1>14. \A e : e # enter /\ e # dwell => Reported(new, e) = 0
  BY <1>9, <1>10
<1> QED
  BY <1>11, <1>12, <1>13, <1>14 DEF q, n, enter, dwell, new

-------------------------------------------------------------------------------

\* Intervals that are over take longer the more they are.
LEMMA MoreIntervals ==
  ASSUME NEW j \in Nat, NEW k \in Nat, j <= k
  PROVE  j * DwellInterval \in Nat /\ k * DwellInterval \in Nat /\ j * DwellInterval <= k * DwellInterval
<1>1. DwellInterval \in Nat
  BY ZonePresenceAssumption
<1> QED
  BY <1>1, SMTT(30)

\* What the tracker knows of a track is what there is to say of its last visit.
LEMMA VisitIsKnown ==
  ASSUME MinZoneDwell > 0, NEW S \in SUBSET Nat, NEW p \in Presence, NEW ts \in Nat, Known(p, ts),
         p.first \in S, p.last \in S, \A x \in S : x <= p.last
  PROVE  LET v == Since(S, p.first) IN
         /\ First(v) = p.first /\ Final(v) = p.last /\ p.last \in v
         /\ Entered(v) # {} <=> p.entered
         /\ p.entered => p.last \in Entered(v)
         /\ p.entered => Intervals(v) = 1..p.ticks
         /\ \A k \in 1..p.ticks : p.last \in Ticked(v, k)
         /\ \A k \in Nat : k > p.ticks => Ticked(v, k) = {}
<1> DEFINE v == Since(S, p.first)
           F == p.first
           L == p.last
<1>1. F \in Nat /\ L \in Nat /\ p.ticks \in Nat /\ p.entered \in BOOLEAN /\ MinZoneDwell \in Nat
  BY ZonePresenceAssumption DEF Presence
<1>2. F <= L
  BY DEF Known
<1>3. v \in SUBSET Nat /\ F \in v /\ L \in v /\ \A x \in v : F <= x /\ x <= L
  <2>1. \A x : x \in v <=> x \in S /\ F <= x
    BY DEF Since
  <2>2. F \in S /\ L \in S /\ \A x \in S : x <= L
    OBVIOUS
  <2> HIDE DEF v, F, L
  <2>3. v \subseteq S
    BY <2>1
  <2>4. F \in v /\ L \in v
    BY <2>1, <2>2, <1>1, <1>2
  <2>5. \A x \in v : F <= x /\ x <= L
    BY <2>1, <2>2
  <2> QED
    BY <2>3, <2>4, <2>5
<1>4. First(v) = F /\ Final(v) = L
  BY <1>3, LeastIs, GreatestIs
<1> HIDE DEF v
<1>5. p.entered => L \in Entered(v)
  <2> SUFFICES ASSUME p.entered PROVE L \in Entered(v)
    OBVIOUS
  <2>1. L - F >= MinZoneDwell
    BY DEF Known
  <2>2. L > F
    BY <2>1, <1>1
  <2> QED
    BY <2>1, <2>2, <1>3, <1>4 DEF Entered
<1>6. ~p.entered => Entered(v) = {}
  <2> SUFFICES ASSUME ~p.entered, NEW x \in Entered(v) PROVE FALSE
    OBVIOUS
  <2>1. x \in v /\ x > F /\ x - F >= MinZoneDwell
    BY <1>4 DEF Entered
  <2>2. x \in Nat /\ x <= L
    BY <2>1, <1>3
  <2>3. F < L
    BY <2>1, <2>2, <1>1
  <2>4. L - F < MinZoneDwell
    BY <2>3 DEF Known
  <2> QED
    BY <2>1, <2>2, <2>4, <1>1
<1> DEFINE a == L - F
<1>7. a \in Nat
  BY <1>1, <1>2
<1>8. p.entered => p.ticks * DwellInterval <= a /\ a < (p.ticks + 1) * DwellInterval
  BY DEF Known
<1>9. p.entered => Intervals(v) = 1..p.ticks
  <2> SUFFICES ASSUME p.entered PROVE Intervals(v) = 1..p.ticks
    OBVIOUS
  <2> DEFINE d == a \div DwellInterval
  <2>1. d \in Nat /\ d * DwellInterval <= a
    BY <1>7, WholeIntervals
  <2>2. Intervals(v) = 1..d
    BY <1>4 DEF Intervals
  <2> HIDE DEF a, d
  <2>3. p.ticks >= d
    <3> SUFFICES ASSUME p.ticks + 1 <= d PROVE FALSE
      BY <2>1, <1>1
    <3>1. (p.ticks + 1) * DwellInterval <= d * DwellInterval
          /\ (p.ticks + 1) * DwellInterval \in Nat /\ d * DwellInterval \in Nat
      BY <2>1, <1>1, MoreIntervals
    <3> QED
      BY <3>1, <2>1, <1>7, <1>8
  <2>4. p.ticks = d
    BY <2>3, <1>1, <1>7, <1>8, IntervalsAreUnique DEF d
  <2> QED
    BY <2>2, <2>4
<1>10. ASSUME NEW k \in 1..p.ticks PROVE L \in Ticked(v, k)
  <2>1. p.entered
    BY <1>1, <1>10 DEF Known
  <2>2. k * DwellInterval <= p.ticks * DwellInterval /\ k * DwellInterval \in Nat /\ p.ticks * DwellInterval \in Nat
    BY <1>1, MoreIntervals
  <2>3. k * DwellInterval <= L - F
    BY <2>1, <2>2, <1>7, <1>8
  <2> QED
    BY <2>1, <2>3, <1>4, <1>5, <1>7 DEF Ticked
<1>11. ASSUME NEW k \in Nat, k > p.ticks, NEW x \in Ticked(v, k) PROVE FALSE
  <2>1. x \in Entered(v) /\ x - F >= k * DwellInterval
    BY <1>4, <1>11 DEF Ticked
  <2>2. p.entered
    BY <2>1, <1>6
  <2>3. (p.ticks + 1) * DwellInterval <= k * DwellInterval
        /\ (p.ticks + 1) * DwellInterval \in Nat /\ k * DwellInterval \in Nat
    BY <1>1, <1>11, MoreIntervals
  <2>4. x \in v /\ x \in Nat /\ x <= L
    BY <2>1, <1>3 DEF Entered
  <2>5. x - F <= a /\ x - F \in Int
    BY <2>4, <1>1
  <2> HIDE DEF a
  <2> QED
    BY <2>1, <2>2, <2>3, <2>5, <1>7, <1>8
<1>12. \A k \in Nat : k > p.ticks => Ticked(v, k) = {}
  BY <1>11
<1> QED
  BY <1>3, <1>4, <1>5, <1>6, <1>9, <1>10, <1>12 DEF v

\* A visit that goes on keeps its start, its earlier intervals end where they did, and
\* those that have passed since end now.
LEMMA SightingLengthens ==
  ASSUME MinZoneDwell > 0, now \in Nat, NEW S \in SUBSET Nat, NEW p \in Presence, Known(p, now),
         p.first \in S, p.last \in S, \A x \in S : x <= p.last, p.last < now
  PROVE  LET v == Since(S, p.first)
             w == v \cup {now}
             q == SeenAgain(p, now)
             at(u, x) == {k \in Intervals(u) : First(Ticked(u, k)) = x}
         IN
         /\ First(w) = p.first /\ Final(w) = now
         /\ Entered(w) = Entered(v) \cup (IF q.entered THEN {now} ELSE {})
         /\ \A x \in Entered(v) : at(w, x) = at(v, x)
         /\ q.entered => Cardinality(at(w, now)) = q.ticks - p.ticks
<1> DEFINE v == Since(S, p.first)
           T == S \cup {now}
           w == v \cup {now}
           q == SeenAgain(p, now)
           at(u, x) == {k \in Intervals(u) : First(Ticked(u, k)) = x}
<1>1. /\ q \in Presence /\ Known(q, now) /\ q.last = now /\ q.first = p.first
      /\ p.entered => q.entered
      /\ q.ticks >= p.ticks /\ (~q.entered => q.ticks = p.ticks)
  BY SightingKeepsKnown
<1>2. p.first \in Nat /\ p.last \in Nat /\ p.first <= p.last /\ p.ticks \in Nat /\ q.ticks \in Nat
  BY <1>1 DEF Presence, Known
<1>3. w = Since(T, p.first)
  BY <1>2 DEF Since
<1>4. /\ First(v) = p.first /\ Final(v) = p.last
      /\ Entered(v) # {} <=> p.entered
      /\ p.entered => Intervals(v) = 1..p.ticks
      /\ \A k \in 1..p.ticks : p.last \in Ticked(v, k)
      /\ \A k \in Nat : k > p.ticks => Ticked(v, k) = {}
  BY VisitIsKnown
<1>5. T \in SUBSET Nat /\ p.first \in T /\ now \in T /\ \A x \in T : x <= now
  BY <1>2
<1> HIDE DEF q, T
<1>6. /\ First(w) = p.first /\ Final(w) = now
      /\ q.entered => now \in Entered(w)
      /\ Entered(w) # {} <=> q.entered
      /\ q.entered => Intervals(w) = 1..q.ticks
      /\ \A k \in 1..q.ticks : now \in Ticked(w, k)
  <2>1. First(Since(T, q.first)) = q.first /\ Final(Since(T, q.first)) = q.last
        /\ (Entered(Since(T, q.first)) # {} <=> q.entered)
        /\ (q.entered => q.last \in Entered(Since(T, q.first)))
        /\ (q.entered => Intervals(Since(T, q.first)) = 1..q.ticks)
        /\ \A k \in 1..q.ticks : q.last \in Ticked(Since(T, q.first), k)
    BY <1>1, <1>5, VisitIsKnown
  <2> QED
    BY <2>1, <1>1, <1>3
<1>7. v \subseteq S /\ v \subseteq Nat /\ now \notin v /\ \A x \in S : x \in Nat /\ x < now
  <2>1. v \subseteq S
    BY DEF Since
  <2>2. \A x \in S : x \in Nat /\ x < now
    BY <1>2
  <2> HIDE DEF v
  <2> QED
    BY <2>1, <2>2
<1> HIDE DEF v
<1>8. Entered(w) = Entered(v) \cup (IF q.entered THEN {now} ELSE {})
  <2>1. ASSUME NEW x \in v PROVE x \in Entered(w) <=> x \in Entered(v)
    BY <1>4, <1>6 DEF Entered
  <2>2. now \in Entered(w) <=> q.entered
    BY <1>6
  <2>3. Entered(w) \subseteq w /\ Entered(v) \subseteq v
    BY DEF Entered
  <2> QED
    BY <2>1, <2>2, <2>3
<1>9. \A k : \A x \in Entered(v) : x \in Ticked(w, k) <=> x \in Ticked(v, k)
  BY <1>4, <1>6, <1>8 DEF Ticked
<1>10. /\ \A k : Ticked(v, k) \subseteq Entered(v) /\ Ticked(w, k) \subseteq Entered(w)
       /\ Entered(v) \subseteq S /\ now \notin Entered(v) /\ Entered(w) \subseteq Entered(v) \cup {now}
  BY <1>7, <1>8 DEF Ticked, Entered
<1>11. ASSUME NEW k \in 1..p.ticks
       PROVE  First(Ticked(w, k)) = First(Ticked(v, k)) /\ First(Ticked(v, k)) \in Entered(v)
  <2>1. Ticked(v, k) # {} /\ Ticked(v, k) \in SUBSET Nat
    BY <1>4, <1>7, <1>10
  <2>2. First(Ticked(v, k)) \in Ticked(v, k) /\ \A y \in Ticked(v, k) : First(Ticked(v, k)) <= y
    BY <2>1, LeastIn
  <2>3. First(Ticked(v, k)) \in Ticked(w, k) /\ First(Ticked(v, k)) < now
    BY <2>2, <1>7, <1>9, <1>10
  <2>4. Ticked(w, k) \in SUBSET Nat
    BY <1>7, <1>10
  <2>5. ASSUME NEW y \in Ticked(w, k) PROVE First(Ticked(v, k)) <= y
    <3>1. y \in Ticked(v, k) \/ y = now
      BY <1>9, <1>10
    <3>2. First(Ticked(v, k)) \in Nat
      BY <2>1, <2>2
    <3> QED
      BY <3>1, <3>2, <2>2, <2>3
  <2>6. First(Ticked(w, k)) = First(Ticked(v, k))
    BY <2>3, <2>4, <2>5, LeastIs
  <2> QED
    BY <2>2, <2>6, <1>10
<1>12. ASSUME NEW k \in (p.ticks + 1)..q.ticks
       PROVE  First(Ticked(w, k)) = now
  <2>1. k \in 1..q.ticks /\ k \in Nat /\ k > p.ticks
    BY <1>2
  <2>2. now \in Ticked(w, k) /\ Ticked(v, k) = {}
    BY <2>1, <1>4, <1>6
  <2>3. Ticked(w, k) = {now}
    BY <2>2, <1>9, <1>10
  <2> QED
    BY <2>3, LeastIs
<1>13. ASSUME NEW x \in Entered(v) PROVE at(w, x) = at(v, x)
  <2>1. p.entered /\ q.entered /\ x # now
    BY <1>1, <1>4, <1>10
  <2>2. Intervals(v) = 1..p.ticks /\ Intervals(w) = 1..q.ticks
    BY <2>1, <1>4, <1>6
  <2>3. \A k \in 1..q.ticks : k \in 1..p.ticks \/ k \in (p.ticks + 1)..q.ticks
    BY <1>2
  <2>4. 1..p.ticks \subseteq 1..q.ticks
    BY <1>1, <1>2
  <2>5. \A k : k \in at(w, x) <=> k \in at(v, x)
    BY <2>1, <2>2, <2>3, <2>4, <1>11, <1>12
  <2> QED
    BY <2>5
<1>14. ASSUME q.entered PROVE Cardinality(at(w, now)) = q.ticks - p.ticks
  <2>1. Intervals(w) = 1..q.ticks
    BY <1>6, <1>14
  <2>2. \A k \in 1..q.ticks : k \in 1..p.ticks \/ k \in (p.ticks + 1)..q.ticks
    BY <1>2
  <2>3. (p.ticks + 1)..q.ticks \subseteq 1..q.ticks
    BY <1>2
  <2>4. at(w, now) = (p.ticks + 1)..q.ticks
    BY <2>1, <2>2, <2>3, <1>10, <1>11, <1>12
  <2>5. Cardinality((p.ticks + 1)..q.ticks) = q.ticks - p.ticks
    <3>1. Cardinality((p.ticks + 1)..q.ticks)
            = IF p.ticks + 1 > q.ticks THEN 0 ELSE q.ticks - (p.ticks + 1) + 1
      <4>1. p.ticks + 1 \in Int /\ q.ticks \in Int
        BY <1>2
      <4> QED
        BY <4>1, FS_Interval
    <3> QED
      BY <3>1, <1>1, <1>2
  <2> QED
    BY <2>4, <2>5
<1> QED
  BY <1>6, <1>8, <1>13, <1>14 DEF q, v

-------------------------------------------------------------------------------

\* The times of the reports of a visit that lasts are among its sightings.
LEMMA ReportsAreDated ==
  ASSUME NEW S \in SUBSET Nat, NEW b \in Nat, \A x \in S : x <= b, NEW v \in Visits(S), Entered(v) # {}
  PROVE  /\ First(Entered(v)) \in Entered(v) /\ Final(v) \in v /\ First(v) \in v /\ First(v) <= Final(v)
         /\ Entered(v) \subseteq v /\ v \subseteq S
         /\ EnterOf(v).ts \in v /\ ExitOf(v).ts \in v /\ \A x : DwellAt(v, x).ts = x
<1>1. v \subseteq S /\ v # {} /\ v \in SUBSET Nat
  BY VisitsStart
<1>2. Entered(v) \subseteq v /\ Entered(v) \in SUBSET Nat
  BY <1>1 DEF Entered
<1>3. First(Entered(v)) \in Entered(v)
  BY <1>2, LeastIn
<1>4. Final(v) \in v
  BY <1>1, GreatestIn
<1>5. First(v) \in v /\ First(v) <= Final(v)
  BY <1>1, <1>4, LeastIn
<1> QED
  BY <1>1, <1>2, <1>3, <1>4, <1>5 DEF EnterOf, ExitOf, DwellAt, Event

\* Reports are of the past.
LEMMA ReportsArePast ==
  ASSUME NEW S \in SUBSET Nat, NEW b \in Nat, \A x \in S : x <= b, NEW es, NEW open,
         AreReportsOf(es, S, open)
  PROVE  \A i \in 1..Len(es) : es[i].ts \in S
<1> SUFFICES ASSUME NEW i \in 1..Len(es) PROVE es[i].ts \in S
  OBVIOUS
<1>1. PICK v \in Visits(S) : Entered(v) # {} /\ es[i] \in ReportsOf(v, open)
  BY DEF AreReportsOf
<1>2. es[i] = EnterOf(v) \/ es[i] = ExitOf(v) \/ \E x \in Entered(v) : es[i] = DwellAt(v, x)
  BY <1>1 DEF ReportsOf
<1>3. /\ Entered(v) \subseteq v /\ v \subseteq S
      /\ EnterOf(v).ts \in v /\ ExitOf(v).ts \in v /\ \A x : DwellAt(v, x).ts = x
  BY <1>1, ReportsAreDated
<1> QED
  BY <1>2, <1>3

\* A first sighting reports nothing.
LEMMA NextVisitReports ==
  ASSUME NEW S \in SUBSET Nat, NEW n \in Nat, \A x \in S : x < n, StartsVisit(S \cup {n}, n),
         NEW es, AreReportsOf(es, S, {})
  PROVE  AreReportsOf(es, S \cup {n}, {n})
<1>1. Visits(S \cup {n}) = Visits(S) \cup {{n}}
  BY NextVisit
<1>2. Entered({n}) = {}
  <2>1. First({n}) = n
    BY LeastIs
  <2> QED
    BY <2>1 DEF Entered
<1>3. Entered({}) = {}
  BY DEF Entered
<1>4. \A v : Entered(v) # {} => v # {} /\ v # {n} /\ ReportsOf(v, {n}) = ReportsOf(v, {})
  BY <1>2, <1>3 DEF ReportsOf
<1>5. \A v \in Visits(S \cup {n}) : Entered(v) # {} => v \in Visits(S)
  BY <1>1, <1>2
<1> QED
  BY <1>1, <1>4, <1>5 DEF AreReportsOf

\* A further sighting reports what it adds to the visit.
LEMMA SightingReportsVisit ==
  ASSUME MinZoneDwell > 0, now \in Nat, NEW S \in SUBSET Nat, NEW p \in Presence, Known(p, now),
         p.first \in S, p.last \in S, \A x \in S : x <= p.last, p.last < now,
         StartsVisit(S, p.first), \A y \in S : p.first < y => ~StartsVisit(S, y),
         ~StartsVisit(S \cup {now}, now),
         NEW es \in Seq(ZoneEvent), AreReportsOf(es, S, Since(S, p.first))
  PROVE  AreReportsOf(es \o EventsOfSeenAgain(p, now), S \cup {now}, Since(S, p.first) \cup {now})
<1> DEFINE v == Since(S, p.first)
           T == S \cup {now}
           w == v \cup {now}
           q == SeenAgain(p, now)
           new == EventsOfSeenAgain(p, now)
           enter == Event("ZONE_ENTER", now, 0)
           dwell == Event("ZONE_DWELL", now, now - p.first)
           at(u, x) == {k \in Intervals(u) : First(Ticked(u, k)) = x}
<1>1. /\ p.last \in Nat /\ \A x \in S : x \in Nat /\ x < now
      /\ p.entered \in BOOLEAN /\ q.entered \in BOOLEAN /\ (p.entered => q.entered)
      /\ p.ticks \in Nat /\ q.ticks \in Nat /\ q.ticks >= p.ticks
  BY SightingKeepsKnown DEF Presence
<1>2. new \in Seq(ZoneEvent)
  BY SightingReports
<1>3. /\ First(w) = p.first /\ First(v) = p.first
      /\ Entered(w) = Entered(v) \cup (IF q.entered THEN {now} ELSE {})
      /\ Entered(v) # {} <=> p.entered
      /\ \A x \in Entered(v) : at(w, x) = at(v, x)
      /\ q.entered => Cardinality(at(w, now)) = q.ticks - p.ticks
  <2>1. /\ First(w) = p.first
        /\ Entered(w) = Entered(v) \cup (IF q.entered THEN {now} ELSE {})
        /\ \A x \in Entered(v) : at(w, x) = at(v, x)
        /\ q.entered => Cardinality(at(w, now)) = q.ticks - p.ticks
    BY SightingLengthens
  <2>2. First(v) = p.first /\ (Entered(v) # {} <=> p.entered)
    BY VisitIsKnown
  <2> QED
    BY <2>1, <2>2, Zenon
<1>4. Visits(T) = (Visits(S) \ {v}) \cup {w} /\ v \in Visits(S)
  BY <1>1, LongerVisit
<1>5. /\ Reported(new, enter) = IF q.entered /\ ~p.entered THEN 1 ELSE 0
      /\ Reported(new, dwell) = q.ticks - p.ticks
      /\ \A e : e # enter /\ e # dwell => Reported(new, e) = 0
      /\ \A i \in 1..Len(new) : (new[i] = enter /\ q.entered /\ ~p.entered) \/ (new[i] = dwell /\ q.entered)
  BY SightingReportsOnce
<1>6. enter.ts = now /\ dwell.ts = now
  BY DEF Event
<1>7. /\ DwellAt(w, now) = dwell
      /\ \A x : DwellAt(w, x) = DwellAt(v, x)
  BY <1>3 DEF DwellAt
<1>8. v \subseteq S
  BY DEF Since
<1> HIDE DEF v, T, q, new, enter, dwell, at
<1>9. now \in w /\ now \notin S
  BY <1>1
<1>10. \A e : Reported(es \o new, e) = Reported(es, e) + Reported(new, e)
             /\ Reported(es, e) \in Nat /\ Reported(new, e) \in Nat
  BY <1>2, ReportedMore, ReportedIs
<1>11. \A e : e.ts = now => Reported(es, e) = 0
  <2>1. \A i \in 1..Len(es) : es[i].ts \in S
    <3>1. AreReportsOf(es, S, v)
      BY DEF v
    <3> QED
      BY <3>1, <1>1, ReportsArePast
  <2> SUFFICES ASSUME NEW e, e.ts = now PROVE Reported(es, e) = 0
    OBVIOUS
  <2>2. \A i \in 1..Len(es) : es[i] # e
    BY <2>1, <1>9
  <2> QED
    BY <2>2, ReportedIs
<1>12. \A e : e.ts \in S => Reported(es \o new, e) = Reported(es, e)
  BY <1>5, <1>6, <1>9, <1>10
<1>13. AreReportsOf(es, S, v)
  BY DEF v
<1>14. ASSUME NEW u \in Visits(S), Entered(u) # {}
       PROVE  /\ EnterOf(u).ts \in S /\ ExitOf(u).ts \in S
              /\ \A x \in Entered(u) : DwellAt(u, x).ts \in S
              /\ Entered(u) \subseteq S /\ u \subseteq S /\ First(Entered(u)) \in Entered(u)
  <2>1. /\ First(Entered(u)) \in Entered(u) /\ Entered(u) \subseteq u /\ u \subseteq S
        /\ EnterOf(u).ts \in u /\ ExitOf(u).ts \in u /\ \A x : DwellAt(u, x).ts = x
    BY <1>1, <1>14, ReportsAreDated
  <2> QED
    BY <2>1
<1>15. p.entered => EnterOf(w) = EnterOf(v)
  <2> SUFFICES ASSUME p.entered PROVE First(Entered(w)) = First(Entered(v))
    BY DEF EnterOf
  <2>1. Entered(v) # {} /\ Entered(v) \subseteq S /\ Entered(v) \in SUBSET Nat
    BY <1>3, <1>4, <1>14
  <2>2. First(Entered(v)) \in Entered(v) /\ \A y \in Entered(v) : First(Entered(v)) <= y
    BY <2>1, LeastIn
  <2>3. \A y \in Entered(w) : First(Entered(v)) <= y
    <3> SUFFICES ASSUME NEW y \in Entered(w) PROVE First(Entered(v)) <= y
      OBVIOUS
    <3>1. y \in Entered(v) \/ y = now
      BY <1>3
    <3>2. First(Entered(v)) \in Nat /\ First(Entered(v)) < now
      BY <2>1, <2>2, <1>1
    <3> QED
      BY <3>1, <3>2, <2>2
  <2>4. Entered(w) \in SUBSET Nat /\ First(Entered(v)) \in Entered(w)
    BY <2>1, <2>2, <1>3
  <2> QED
    BY <2>3, <2>4, LeastIs
<1>16. ~p.entered /\ q.entered => EnterOf(w) = enter
  <2> SUFFICES ASSUME ~p.entered, q.entered PROVE First(Entered(w)) = now
    BY DEF EnterOf, enter
  <2>1. Entered(w) = {now}
    BY <1>3
  <2>2. First({now}) = now
    BY LeastIs
  <2> QED
    BY <2>1, <2>2
<1>17. ASSUME NEW u \in Visits(T), Entered(u) # {}
       PROVE  /\ Reported(es \o new, EnterOf(u)) = 1
              /\ u # w => Reported(es \o new, ExitOf(u)) = 1
              /\ \A x \in Entered(u) : Reported(es \o new, DwellAt(u, x)) = Cardinality(at(u, x))
  <2>1. CASE u # w
    <3>1. u \in Visits(S) /\ u # v
      BY <2>1, <1>4
    <3>2. /\ Reported(es, EnterOf(u)) = 1 /\ Reported(es, ExitOf(u)) = 1
          /\ \A x \in Entered(u) : Reported(es, DwellAt(u, x)) = Cardinality(at(u, x))
      BY <3>1, <1>13, <1>17 DEF AreReportsOf, at
    <3> QED
      BY <3>1, <3>2, <1>12, <1>14, <1>17
  <2>2. CASE u = w
    <3>1. q.entered
      BY <2>2, <1>1, <1>3, <1>17
    <3>2. Reported(es \o new, EnterOf(w)) = 1
      <4>1. CASE p.entered
        <5>1. Reported(es, EnterOf(v)) = 1 /\ EnterOf(v).ts \in S
          BY <4>1, <1>3, <1>4, <1>13, <1>14 DEF AreReportsOf
        <5> QED
          BY <5>1, <4>1, <1>12, <1>15
      <4>2. CASE ~p.entered
        <5>1. Reported(es, enter) = 0 /\ Reported(new, enter) = 1
          BY <4>2, <3>1, <1>5, <1>6, <1>11
        <5> QED
          BY <5>1, <4>2, <3>1, <1>10, <1>16
      <4> QED
        BY <4>1, <4>2
    <3>3. ASSUME NEW x \in Entered(w) PROVE Reported(es \o new, DwellAt(w, x)) = Cardinality(at(w, x))
      <4>1. CASE x \in Entered(v)
        <5>1. Reported(es, DwellAt(v, x)) = Cardinality(at(v, x)) /\ DwellAt(v, x).ts \in S
          BY <4>1, <1>4, <1>13, <1>14 DEF AreReportsOf, at
        <5> QED
          BY <5>1, <4>1, <1>3, <1>7, <1>12
      <4>2. CASE x = now
        <5>1. Reported(es, dwell) = 0 /\ Reported(new, dwell) = q.ticks - p.ticks
          BY <1>5, <1>6, <1>11
        <5>2. Reported(es \o new, dwell) = q.ticks - p.ticks
          BY <5>1, <1>1, <1>10
        <5> QED
          BY <5>2, <4>2, <3>1, <1>3, <1>7
      <4> QED
        BY <4>1, <4>2, <3>3, <1>3
    <3> QED
      BY <3>2, <3>3, <2>2
  <2> QED
    BY <2>1, <2>2
<1>18. ASSUME NEW i \in 1..Len(es \o new)
       PROVE  \E u \in Visits(T) : Entered(u) # {} /\ (es \o new)[i] \in ReportsOf(u, w)
  <2>1. CASE i \in 1..Len(es)
    <3>1. (es \o new)[i] = es[i]
      BY <2>1, <1>2
    <3>2. PICK u \in Visits(S) : Entered(u) # {} /\ es[i] \in ReportsOf(u, v)
      BY <2>1, <1>13 DEF AreReportsOf
    <3>3. CASE u # v
      <4>1. u \in Visits(T) /\ u # w
        BY <3>2, <3>3, <1>4, <1>9, <1>14
      <4>2. es[i] \in ReportsOf(u, w)
        BY <3>2, <3>3, <4>1 DEF ReportsOf
      <4> QED
        BY <3>1, <3>2, <4>1, <4>2
    <3>4. CASE u = v
      <4>1. p.entered /\ Entered(w) # {} /\ w \in Visits(T)
        BY <3>2, <3>4, <1>3, <1>4
      <4>2. es[i] \in {EnterOf(v)} \cup {DwellAt(v, x) : x \in Entered(v)}
        BY <3>2, <3>4 DEF ReportsOf
      <4>3. es[i] \in {EnterOf(w)} \cup {DwellAt(w, x) : x \in Entered(w)}
        BY <4>1, <4>2, <1>3, <1>7, <1>15
      <4> QED
        BY <4>1, <4>3, <3>1 DEF ReportsOf
    <3> QED
      BY <3>3, <3>4
  <2>2. CASE i \in (Len(es) + 1)..(Len(es) + Len(new))
    <3> DEFINE j == i - Len(es)
    <3>1. (es \o new)[i] = new[j] /\ j \in 1..Len(new)
      BY <2>2, <1>2
    <3>2. (new[j] = enter /\ q.entered /\ ~p.entered) \/ (new[j] = dwell /\ q.entered)
      BY <3>1, <1>5
    <3>3. q.entered /\ now \in Entered(w) /\ w \in Visits(T)
      BY <3>2, <1>3, <1>4
    <3>4. new[j] = EnterOf(w) \/ new[j] = DwellAt(w, now)
      BY <3>2, <1>7, <1>16
    <3>5. new[j] \in ReportsOf(w, w)
      BY <3>3, <3>4 DEF ReportsOf
    <3> QED
      BY <3>1, <3>3, <3>5
  <2>3. i \in 1..Len(es) \/ i \in (Len(es) + 1)..(Len(es) + Len(new))
    <3>1. Len(es) \in Nat /\ Len(new) \in Nat /\ Len(es \o new) = Len(es) + Len(new)
      BY <1>2
    <3> QED
      BY <3>1
  <2> QED
    BY <2>1, <2>2, <2>3
<1>19. AreReportsOf(es \o new, T, w)
  BY <1>17, <1>18 DEF AreReportsOf, at
<1> QED
  BY <1>19 DEF v, T, new

\* The end of a visit reports its exit, if it was entered.
LEMMA EndReportsVisit ==
  ASSUME MinZoneDwell > 0, now \in Nat, NEW S \in SUBSET Nat, NEW p \in Presence, Known(p, now),
         p.first \in S, p.last \in S, \A x \in S : x <= p.last,
         Since(S, p.first) \in Visits(S),
         NEW es \in Seq(ZoneEvent), AreReportsOf(es, S, Since(S, p.first))
  PROVE  AreReportsOf(es \o EventsOfEnd(p), S, {})
<1> DEFINE v == Since(S, p.first)
           new == EventsOfEnd(p)
           exit == Event("ZONE_EXIT", p.last, p.last - p.first)
<1>1. /\ First(v) = p.first /\ Final(v) = p.last
      /\ Entered(v) # {} <=> p.entered
      /\ p.last \in Nat /\ p.first \in Nat /\ p.first <= p.last /\ p.entered \in BOOLEAN
  BY VisitIsKnown DEF Known, Presence
<1>2. AreReportsOf(es, S, v) /\ v \in Visits(S)
  OBVIOUS
<1>3. Entered({}) = {}
  BY DEF Entered
<1> HIDE DEF v
<1>4. CASE ~p.entered
  <2>1. es \o new = es
    BY <1>4 DEF EventsOfEnd
  <2>2. \A u : Entered(u) # {} => u # {} /\ u # v /\ ReportsOf(u, {}) = ReportsOf(u, v)
    BY <1>1, <1>3, <1>4 DEF ReportsOf
  <2> HIDE DEF new
  <2>3. AreReportsOf(es, S, {})
    BY <2>2, <1>2 DEF AreReportsOf
  <2> QED
    BY <2>1, <2>3 DEF new
<1>5. CASE p.entered
  <2>1. new = <<exit>> /\ exit = ExitOf(v)
    BY <1>1, <1>5 DEF EventsOfEnd, ExitOf
  <2>2. exit \in ZoneEvent /\ exit.type = "ZONE_EXIT"
    BY <1>1 DEF Event, ZoneEvent
  <2> HIDE DEF new, exit
  <2>3. new \in Seq(ZoneEvent) /\ Len(new) = 1 /\ new[1] = exit
    BY <2>1, <2>2
  <2>4. Reported(new, exit) = 1
    <3>1. new = [i \in 1..1 |-> exit]
      BY <2>3
    <3> QED
      BY <3>1, <2>2, ReportedTimes
  <2>5. \A e : e # exit => Reported(new, e) = 0
    BY <2>3, ReportedIs
  <2>6. \A e : Reported(es \o new, e) = Reported(es, e) + Reported(new, e) /\ Reported(es, e) \in Nat
    BY <2>3, ReportedMore, ReportedIs
  <2>7. \A e : e # exit => Reported(es \o new, e) = Reported(es, e)
    BY <2>5, <2>6
  <2>8. ASSUME NEW u \in Visits(S), Entered(u) # {}
        PROVE  /\ EnterOf(u) # exit /\ \A x : DwellAt(u, x) # exit
               /\ u # v => ExitOf(u) # exit
    <3>1. EnterOf(u) # exit /\ \A x : DwellAt(u, x) # exit
      BY <2>2 DEF EnterOf, DwellAt, Event
    <3>2. ASSUME ExitOf(u) = exit PROVE u = v
      <4>1. Final(u) = Final(v)
        BY <3>2, <2>1 DEF ExitOf, Event
      <4>2. Final(u) \in u /\ Final(v) \in v
        BY <2>8, <1>1, <1>2, <1>5, ReportsAreDated
      <4> QED
        BY <4>1, <4>2, <1>2, VisitsAreDisjoint
    <3> QED
      BY <3>1, <3>2
  <2>9. Reported(es, exit) = 0
    <3> SUFFICES ASSUME NEW i \in 1..Len(es), es[i] = exit PROVE FALSE
      BY ReportedIs
    <3>1. PICK u \in Visits(S) : Entered(u) # {} /\ es[i] \in ReportsOf(u, v)
      BY <1>2 DEF AreReportsOf
    <3>2. exit = EnterOf(u) \/ (\E x : exit = DwellAt(u, x)) \/ (u # v /\ exit = ExitOf(u))
      BY <3>1 DEF ReportsOf
    <3> QED
      BY <3>1, <3>2, <2>8
  <2>10. ASSUME NEW u \in Visits(S), Entered(u) # {}
         PROVE  /\ Reported(es \o new, EnterOf(u)) = 1
                /\ Reported(es \o new, ExitOf(u)) = 1
                /\ \A x \in Entered(u) : Reported(es \o new, DwellAt(u, x))
                                           = Cardinality({k \in Intervals(u) : First(Ticked(u, k)) = x})
    <3>1. /\ Reported(es, EnterOf(u)) = 1
          /\ u # v => Reported(es, ExitOf(u)) = 1
          /\ \A x \in Entered(u) : Reported(es, DwellAt(u, x))
                                     = Cardinality({k \in Intervals(u) : First(Ticked(u, k)) = x})
      BY <2>10, <1>2 DEF AreReportsOf
    <3>2. Reported(es \o new, ExitOf(u)) = 1
      <4>1. CASE u = v
        <5>1. Reported(es \o new, exit) = 0 + 1
          BY <2>4, <2>6, <2>9
        <5> QED
          BY <5>1, <4>1, <2>1
      <4>2. CASE u # v
        BY <4>2, <3>1, <2>7, <2>8, <2>10
      <4> QED
        BY <4>1, <4>2
    <3> QED
      BY <3>1, <3>2, <2>7, <2>8, <2>10
  <2>11. ASSUME NEW i \in 1..Len(es \o new)
         PROVE  \E u \in Visits(S) : Entered(u) # {} /\ (es \o new)[i] \in ReportsOf(u, {})
    <3>1. Len(es) \in Nat /\ Len(es \o new) = Len(es) + 1
      <4>1. new \in Seq(ZoneEvent)
        BY <2>3
      <4>2. Len(es \o new) = Len(es) + Len(new)
        BY <4>1
      <4>3. Len(es) \in Nat
        OBVIOUS
      <4> QED
        BY <4>2, <4>3, <2>3
    <3>2. CASE i \in 1..Len(es)
      <4>1. PICK u \in Visits(S) : Entered(u) # {} /\ es[i] \in ReportsOf(u, v)
        BY <3>2, <1>2 DEF AreReportsOf
      <4>2. es[i] \in ReportsOf(u, {})
        BY <4>1, <1>3 DEF ReportsOf
      <4>3. (es \o new)[i] = es[i]
        BY <3>2, <2>3
      <4> QED
        BY <4>1, <4>2, <4>3
    <3>3. CASE i = Len(es) + 1
      <4>1. (es \o new)[i] = exit
        BY <3>1, <3>3, <2>3
      <4>2. exit \in ReportsOf(v, {})
        BY <2>1, <1>1, <1>3, <1>5 DEF ReportsOf
      <4> QED
        BY <4>1, <4>2, <1>1, <1>2, <1>5
    <3> QED
      BY <3>1, <3>2, <3>3
  <2>12. AreReportsOf(es \o new, S, {})
    BY <2>10, <2>11 DEF AreReportsOf
  <2> QED
    BY <2>12 DEF new
<1> QED
  BY <1>1, <1>4, <1>5

-------------------------------------------------------------------------------

\* The frames follow each other at the frame interval.
LEMMA FramesFollow ==
  /\ Frames \in SUBSET Nat /\ 0 \in Frames
  /\ \A f, g \in Frames : f < g + FrameInterval => f <= g
  /\ \A f \in Frames : f < (MaxFrames - 1) * FrameInterval => f + FrameInterval \in Frames
<1>1. FrameInterval \in Nat /\ FrameInterval > 0 /\ MaxFrames \in Nat /\ MaxFrames > 0
  BY ZoneTrackerAssumption
<1>2. Frames \in SUBSET Nat
  <2> SUFFICES ASSUME NEW f \in Frames PROVE f \in Nat
    OBVIOUS
  <2>1. PICK i \in 0..(MaxFrames - 1) : f = i * FrameInterval
    BY DEF Frames
  <2>2. i \in Nat
    BY <1>1
  <2> QED
    BY <2>1, <2>2, <1>1, SMTT(30)
<1>3. 0 \in Frames
  <2>1. 0 \in 0..(MaxFrames - 1) /\ 0 = 0 * FrameInterval
    BY <1>1
  <2> QED
    BY <2>1 DEF Frames
<1>4. ASSUME NEW i \in Nat, NEW j \in Nat, i <= j
      PROVE  i * FrameInterval <= j * FrameInterval
  BY <1>1, <1>4, SMTT(30)
<1>5. \A i \in Nat : i * FrameInterval \in Nat /\ (i + 1) * FrameInterval = i * FrameInterval + FrameInterval
  BY <1>1, SMTT(30)
<1>6. ASSUME NEW f \in Frames, NEW g \in Frames, f < g + FrameInterval PROVE f <= g
  <2>1. PICK i \in 0..(MaxFrames - 1) : f = i * FrameInterval
    BY DEF Frames
  <2>2. PICK j \in 0..(MaxFrames - 1) : g = j * FrameInterval
    BY DEF Frames
  <2>3. i \in Nat /\ j \in Nat
    BY <1>1
  <2>4. i <= j
    <3> SUFFICES ASSUME j + 1 <= i PROVE FALSE
      BY <2>3
    <3>1. (j + 1) * FrameInterval <= i * FrameInterval
      BY <2>3, <1>4
    <3> QED
      BY <3>1, <2>1, <2>2, <2>3, <1>1, <1>2, <1>5, <1>6
  <2> QED
    BY <2>1, <2>2, <2>3, <2>4, <1>4
<1>7. ASSUME NEW f \in Frames, f < (MaxFrames - 1) * FrameInterval PROVE f + FrameInterval \in Frames
  <2>1. PICK i \in 0..(MaxFrames - 1) : f = i * FrameInterval
    BY DEF Frames
  <2> DEFINE m == MaxFrames - 1
  <2>2. i \in Nat /\ m \in Nat /\ i <= m
    BY <1>1
  <2> HIDE DEF m
  <2>3. i # m
    <3>1. f < m * FrameInterval /\ f \in Nat /\ m * FrameInterval \in Nat
      BY <2>2, <1>2, <1>5, <1>7 DEF m
    <3> QED
      BY <3>1, <2>1
  <2>4. i + 1 \in 0..m
    BY <2>2, <2>3
  <2>5. f + FrameInterval = (i + 1) * FrameInterval
    BY <2>1, <2>2, <1>5
  <2> QED
    BY <2>4, <2>5 DEF Frames, m
<1> QED
  BY <1>2, <1>3, <1>6, <1>7

\* A second box of the track in one frame reports nothing.
LEMMA SeenTwice ==
  ASSUME MinZoneDwell > 0, now \in Nat, NEW p \in Presence, Known(p, now), p.last = now
  PROVE  EventsOfSeenAgain(p, now) = <<>>
<1> DEFINE q == SeenAgain(p, now)
<1>1. /\ q \in Presence /\ Known(q, now) /\ q.last = now /\ q.first = p.first
      /\ p.entered => q.entered
      /\ q.ticks >= p.ticks /\ (~q.entered => q.ticks = p.ticks)
  BY SightingKeepsKnown
<1>2. /\ p.first \in Nat /\ p.ticks \in Nat /\ q.ticks \in Nat /\ MinZoneDwell \in Nat /\ p.first <= now
      /\ p.entered \in BOOLEAN /\ q.entered \in BOOLEAN
  BY <1>1, ZonePresenceAssumption DEF Presence, Known
<1> HIDE DEF q
<1>3. q.entered => p.entered
  <2> SUFFICES ASSUME q.entered, ~p.entered PROVE FALSE
    BY <1>2
  <2>1. now - p.first >= MinZoneDwell
    BY <1>1 DEF Known
  <2>2. p.first < now
    BY <2>1, <1>2
  <2>3. now - p.first < MinZoneDwell
    BY <2>2 DEF Known
  <2> QED
    BY <2>1, <2>3, <1>2
<1>4. q.ticks = p.ticks
  <2>1. CASE ~q.entered
    BY <2>1, <1>1
  <2>2. CASE q.entered
    <3> SUFFICES ASSUME p.ticks + 1 <= q.ticks PROVE FALSE
      BY <1>1, <1>2
    <3>1. (p.ticks + 1) * DwellInterval <= q.ticks * DwellInterval
          /\ (p.ticks + 1) * DwellInterval \in Nat /\ q.ticks * DwellInterval \in Nat
      BY <1>2, MoreIntervals
    <3>2. q.ticks * DwellInterval <= now - p.first
      BY <2>2, <1>1 DEF Known
    <3>3. now - p.first < (p.ticks + 1) * DwellInterval
      BY <2>2, <1>3 DEF Known
    <3> QED
      BY <3>1, <3>2, <3>3, <1>2
  <2> QED
    BY <2>1, <2>2, <1>2
<1>5. q.ticks - p.ticks = 0
  BY <1>2, <1>4
<1>6. EventsOfSeenAgain(p, now) = <<>> \o [i \in 1..0 |-> Event("ZONE_DWELL", now, now - p.first)]
  <2>1. ~(q.entered /\ ~p.entered)
    BY <1>3
  <2> QED
    BY <2>1, <1>5 DEF EventsOfSeenAgain, q
<1> QED
  BY <1>6

\* The facts of PresenceInv and VisitsInv about one track.
LEMMA PartsOfVisit ==
  ASSUME PresenceInv, VisitsInv, NEW t \in Tracks
  PROVE  /\ now \in Nat /\ now \in Frames /\ sightings[t] \in SUBSET Nat /\ log[t] \in Seq(ZoneEvent)
         /\ VisitInv(t)
         /\ t \in DOMAIN state =>
              /\ state[t] \in Presence /\ Known(state[t], now)
              /\ state[t].first \in Nat /\ state[t].last \in Nat /\ state[t].first <= state[t].last
              /\ state[t].last <= now
<1>1. t \in DOMAIN state => state[t] \in Presence /\ Known(state[t], now)
  BY PartsOfPresence
<1>2. now \in Nat /\ log[t] \in Seq(ZoneEvent) /\ sightings[t] \in SUBSET Nat
  BY DEF PresenceInv, TypeOK
<1> QED
  BY <1>1, <1>2 DEF VisitsInv, Presence, Known

\* A track that is not known starts a visit.
LEMMA UnknownStarts ==
  ASSUME PresenceInv, VisitsInv, NEW t \in Tracks, t \notin DOMAIN state, phase = "frame"
  PROVE  /\ \A x \in sightings[t] : x < now
         /\ StartsVisit(sightings[t] \cup {now}, now)
<1> DEFINE S == sightings[t]
<1>1. /\ now \in Nat /\ S \in SUBSET Nat /\ Frames \in SUBSET Nat
      /\ \A x \in S : x <= now
      /\ \A x \in S : (\A y \in S : y <= x) =>
           \E f \in Frames : Swept(f) /\ x < f /\ f - x > ExitGrace
  BY PartsOfVisit, FramesFollow DEF VisitInv
<1> HIDE DEF S
<1>2. CASE S = {}
  BY <1>1, <1>2 DEF S, StartsVisit
<1>3. CASE S # {}
  <2>1. PICK m \in S : \A y \in S : y <= m
    BY <1>1, <1>3, GreatestIn
  <2>2. PICK f \in Frames : Swept(f) /\ m < f /\ f - m > ExitGrace
    BY <2>1, <1>1
  <2>3. f < now
    BY <2>2 DEF Swept
  <2>4. m \in Nat /\ f \in Nat /\ m < now
    BY <2>2, <2>3, <1>1
  <2>5. \A x \in S : x \in Nat /\ x < now /\ (x = m \/ x < m)
    BY <2>1, <2>4, <1>1
  <2>6. StartsVisit(S \cup {now}, now)
    <3> SUFFICES ASSUME NEW x \in S \cup {now}, x < now
                 PROVE  \/ \E y \in S \cup {now} : x < y /\ y < now
                        \/ \E g \in Frames : x < g /\ g < now /\ g - x > ExitGrace
      BY DEF StartsVisit
    <3>1. x \in S
      BY <1>1
    <3>2. CASE x = m
      BY <3>2, <2>2, <2>3
    <3>3. CASE x < m
      BY <3>3, <2>4
    <3> QED
      BY <3>1, <3>2, <3>3, <2>5
  <2> QED
    BY <2>5, <2>6 DEF S
<1> QED
  BY <1>2, <1>3

\* A known track goes on.
LEMMA KnownGoesOn ==
  ASSUME PresenceInv, VisitsInv, NEW t \in Tracks, t \in DOMAIN state, phase = "frame", state[t].last < now
  PROVE  ~StartsVisit(sightings[t] \cup {now}, now)
<1> DEFINE S == sightings[t]
           l == state[t].last
<1>1. /\ now \in Nat /\ S \in SUBSET Nat /\ Frames \in SUBSET Nat /\ ExitGrace \in Nat
      /\ l \in S /\ \A x \in S : x <= l
      /\ \A f \in Frames : Swept(f) => f - l <= ExitGrace
  BY PartsOfVisit, FramesFollow, ZonePresenceAssumption DEF VisitInv
<1>2. l < now
  OBVIOUS
<1> HIDE DEF S, l
<1>3. ~ \E y \in S \cup {now} : l < y /\ y < now
  BY <1>1
<1>4. ~ \E f \in Frames : l < f /\ f < now /\ f - l > ExitGrace
  <2> SUFFICES ASSUME NEW f \in Frames, f < now, f - l > ExitGrace PROVE FALSE
    OBVIOUS
  <2>1. Swept(f)
    BY DEF Swept
  <2> QED
    BY <2>1, <1>1
<1> QED
  BY <1>1, <1>2, <1>3, <1>4 DEF StartsVisit, S

\* The end of some visits, at a sweep for those whose absence has lasted.
LEMMA EndKeepsVisits ==
  ASSUME MinZoneDwell > 0, PresenceInv, VisitsInv, NEW gone \in SUBSET (DOMAIN state), End(gone),
         UNCHANGED <<now, sightings>>,
         \/ phase = "frame" /\ phase' = "swept" /\ gone = {t \in DOMAIN state : Absent(state[t], now)}
         \/ phase' = "closed" /\ gone = DOMAIN state
  PROVE  VisitsInv'
<1>1. now' \in Frames
  BY DEF VisitsInv
<1>2. SUFFICES ASSUME NEW t \in Tracks PROVE VisitInv(t)'
  BY <1>1 DEF VisitsInv
<1> DEFINE S == sightings[t]
           p == state[t]
           es == log[t]
<1>3. /\ now \in Nat /\ now \in Frames /\ S \in SUBSET Nat /\ es \in Seq(ZoneEvent)
      /\ VisitInv(t)
      /\ t \in DOMAIN state =>
           /\ p \in Presence /\ Known(p, now) /\ p.first \in Nat /\ p.last \in Nat /\ p.first <= p.last
           /\ p.last <= now
  BY PartsOfVisit
<1>4. /\ S \subseteq Frames /\ \A x \in S : x <= now
      /\ t \in DOMAIN state =>
           /\ p.first \in S /\ StartsVisit(S, p.first)
           /\ \A y \in S : p.first < y => ~StartsVisit(S, y)
           /\ p.last \in S /\ \A x \in S : x <= p.last
           /\ \A f \in Frames : Swept(f) => f - p.last <= ExitGrace
      /\ t \notin DOMAIN state /\ phase # "closed" =>
           \A x \in S : (\A y \in S : y <= x) =>
             \E f \in Frames : Swept(f) /\ x < f /\ f - x > ExitGrace
      /\ AreReportsOf(es, S, OpenVisit(t))
  BY <1>3 DEF VisitInv
<1>5. /\ sightings' = sightings /\ now' = now
      /\ DOMAIN state' = DOMAIN state \ gone
      /\ t \in DOMAIN state' => state'[t] = p
      /\ log'[t] = IF t \in gone THEN es \o EventsOfEnd(p) ELSE es
  BY DEF End
<1>6. \A f \in Frames : f \in Nat /\ (Swept(f)' <=> f < now \/ (phase' # "frame" /\ f = now))
  BY <1>5, FramesFollow DEF Swept
<1>7. \A f \in Frames : Swept(f) => Swept(f)'
  BY <1>6 DEF Swept
<1>8. CASE t \in gone
  <2>1. t \in DOMAIN state /\ t \notin DOMAIN state'
    BY <1>5, <1>8
  <2>2. Since(S, p.first) \in Visits(S)
    <3>1. Since(S, p.first) = Visit(S, p.first)
      BY <2>1, <1>4 DEF Since, Visit
    <3> QED
      BY <3>1, <2>1, <1>4 DEF Visits
  <2>3. AreReportsOf(es, S, Since(S, p.first))
    BY <2>1, <1>4 DEF OpenVisit
  <2>4. AreReportsOf(es \o EventsOfEnd(p), S, {})
    BY <2>1, <2>2, <2>3, <1>3, <1>4, EndReportsVisit
  <2>5. OpenVisit(t)' = {}
    BY <2>1 DEF OpenVisit
  <2>6. ASSUME phase' # "closed", NEW x \in S, \A y \in S : y <= x
        PROVE  \E f \in Frames : Swept(f)' /\ x < f /\ f - x > ExitGrace
    <3>1. x = p.last
      BY <2>1, <2>6, <1>3, <1>4
    <3>2. now - p.last > ExitGrace /\ phase' # "frame"
      BY <2>6, <1>8 DEF Absent
    <3>3. ExitGrace \in Nat
      BY ZonePresenceAssumption
    <3>4. p.last < now
      BY <3>2, <3>3, <2>1, <1>3
    <3> QED
      BY <3>1, <3>2, <3>4, <1>3, <1>6
  <2> HIDE DEF S, es, p
  <2>7. sightings'[t] = S /\ log'[t] = es \o EventsOfEnd(p)
    BY <1>5, <1>8 DEF S
  <2> QED
    BY <2>1, <2>4, <2>5, <2>6, <2>7, <1>4, <1>5 DEF VisitInv
<1>9. CASE t \notin gone /\ t \in DOMAIN state
  <2>1. /\ t \in DOMAIN state' /\ phase' = "swept" /\ phase = "frame" /\ ~Absent(p, now)
        /\ log'[t] = es /\ state'[t] = p
    BY <1>5, <1>9
  <2>2. \A f \in Frames : Swept(f)' => f - p.last <= ExitGrace
    <3> SUFFICES ASSUME NEW f \in Frames, Swept(f)' PROVE f - p.last <= ExitGrace
      OBVIOUS
    <3>1. CASE f < now
      BY <3>1, <1>4, <1>9 DEF Swept
    <3>2. CASE f = now
      <4>1. ~(now - p.last > ExitGrace) /\ ExitGrace \in Nat
        BY <2>1, ZonePresenceAssumption DEF Absent
      <4> QED
        BY <4>1, <3>2, <1>3, <1>9
    <3> QED
      BY <3>1, <3>2, <1>6
  <2>3. OpenVisit(t)' = OpenVisit(t)
    BY <2>1, <1>5, <1>9 DEF OpenVisit
  <2> HIDE DEF S, es, p
  <2>4. sightings'[t] = S
    BY <1>5 DEF S
  <2> QED
    BY <2>1, <2>2, <2>3, <2>4, <1>4, <1>5, <1>9 DEF VisitInv
<1>10. CASE t \notin DOMAIN state
  <2>1. t \notin DOMAIN state' /\ log'[t] = es
    BY <1>5, <1>10
  <2>2. OpenVisit(t)' = OpenVisit(t)
    BY <2>1, <1>10 DEF OpenVisit
  <2>3. phase' # "closed" => phase # "closed"
    OBVIOUS
  <2> HIDE DEF S, es, p
  <2>4. sightings'[t] = S
    BY <1>5 DEF S
  <2> QED
    BY <2>1, <2>2, <2>3, <2>4, <1>4, <1>5, <1>7, <1>10 DEF VisitInv
<1> QED
  BY <1>8, <1>9, <1>10

\* A sighting keeps the reports of every track those of its visits.
LEMMA ObserveKeepsVisits ==
  ASSUME MinZoneDwell > 0, PresenceInv, VisitsInv, NEW o \in Tracks, Observe(o)
  PROVE  VisitsInv'
<1>1. /\ now' = now /\ phase' = phase /\ phase = "frame"
      /\ sightings' = [sightings EXCEPT ![o] = @ \cup {now}]
      /\ sightings \in [Tracks -> SUBSET Nat] /\ log \in [Tracks -> Seq(ZoneEvent)]
  BY DEF Observe, PresenceInv, TypeOK
<1>2. now' \in Frames
  BY <1>1 DEF VisitsInv
<1>3. SUFFICES ASSUME NEW t \in Tracks PROVE VisitInv(t)'
  BY <1>2 DEF VisitsInv
<1>4. \A f : Swept(f)' <=> Swept(f)
  BY <1>1 DEF Swept
<1>5. CASE t # o
  <2>1. sightings'[t] = sightings[t]
    BY <1>1, <1>5
  <2>2. /\ log'[t] = log[t] /\ (t \in DOMAIN state' <=> t \in DOMAIN state)
        /\ t \in DOMAIN state => state'[t] = state[t]
    BY <1>1, <1>5 DEF Observe, Observed
  <2>3. OpenVisit(t)' = OpenVisit(t)
    BY <2>1, <2>2 DEF OpenVisit
  <2>4. VisitInv(t)
    BY PartsOfVisit
  <2> QED
    BY <2>1, <2>2, <2>3, <2>4, <1>1, <1>4 DEF VisitInv
<1> DEFINE S == sightings[t]
           T == S \cup {now}
           p == state[t]
           es == log[t]
<1>6. /\ now \in Nat /\ now \in Frames /\ S \in SUBSET Nat /\ es \in Seq(ZoneEvent)
      /\ VisitInv(t)
      /\ t \in DOMAIN state =>
           /\ p \in Presence /\ Known(p, now) /\ p.first \in Nat /\ p.last \in Nat /\ p.first <= p.last
           /\ p.last <= now
  BY PartsOfVisit
<1>7. /\ S \subseteq Frames /\ \A x \in S : x <= now
      /\ t \in DOMAIN state =>
           /\ p.first \in S /\ StartsVisit(S, p.first)
           /\ \A y \in S : p.first < y => ~StartsVisit(S, y)
           /\ p.last \in S /\ \A x \in S : x <= p.last
           /\ \A f \in Frames : Swept(f) => f - p.last <= ExitGrace
      /\ AreReportsOf(es, S, OpenVisit(t))
  BY <1>6 DEF VisitInv
<1>8. T \subseteq Frames /\ T \in SUBSET Nat /\ now \in T /\ \A x \in T : x <= now
  BY <1>6, <1>7
<1>9. ExitGrace \in Nat /\ Frames \in SUBSET Nat
  BY ZonePresenceAssumption, FramesFollow
<1>10. \A f \in Frames : Swept(f) => f - now <= ExitGrace
  <2> SUFFICES ASSUME NEW f \in Frames, Swept(f) PROVE f - now <= ExitGrace
    OBVIOUS
  <2>1. f \in Nat /\ f <= now
    BY <1>6, <1>9 DEF Swept
  <2> QED
    BY <2>1, <1>6, <1>9
<1>11. CASE t = o /\ t \notin DOMAIN state
  <2>1. /\ state' = [u \in DOMAIN state \cup {t} |-> IF u = t THEN FirstSeen(now) ELSE state[u]]
        /\ log' = log
    BY <1>11 DEF Observe, Observed
  <2>2. /\ t \in DOMAIN state' /\ state'[t].first = now /\ state'[t].last = now
        /\ log'[t] = es /\ sightings'[t] = T
    BY <2>1, <1>1, <1>11 DEF FirstSeen
  <2>3. (\A x \in S : x < now) /\ StartsVisit(T, now)
    BY <1>1, <1>11, UnknownStarts
  <2>4. AreReportsOf(es, S, {})
    BY <1>7, <1>11 DEF OpenVisit
  <2>5. AreReportsOf(es, T, {now})
    BY <2>3, <2>4, <1>6, NextVisitReports
  <2>6. \A x \in T : now <= x <=> x = now
    BY <1>6, <1>8
  <2>7. OpenVisit(t)' = {now}
    BY <2>2, <2>6, <1>8 DEF OpenVisit, Since
  <2>8. \A y \in T : ~(now < y)
    BY <1>6, <1>8
  <2> HIDE DEF T, es
  <2> QED
    BY <2>2, <2>3, <2>5, <2>7, <2>8, <1>1, <1>4, <1>8, <1>10 DEF VisitInv
<1>12. CASE t = o /\ t \in DOMAIN state
  <2> DEFINE q == SeenAgain(p, now)
             new == EventsOfSeenAgain(p, now)
  <2>1. q.last = now /\ q.first = p.first
    BY <1>6, <1>12, SightingKeepsKnown
  <2>2. /\ t \in DOMAIN state' /\ state'[t] = q
        /\ log'[t] = es \o new /\ sightings'[t] = T
    BY <1>1, <1>12 DEF Observe, Observed
  <2>3. AreReportsOf(es, S, Since(S, p.first))
    BY <1>7, <1>12 DEF OpenVisit
  <2>4. OpenVisit(t)' = Since(T, p.first)
    BY <2>1, <2>2 DEF OpenVisit
  <2>5. CASE p.last = now
    <3>1. T = S
      BY <2>5, <1>7, <1>12
    <3>2. es \o new = es
      <4>1. new = <<>>
        BY <2>5, <1>6, <1>12, SeenTwice
      <4> QED
        BY <4>1, <1>6
    <3>3. AreReportsOf(es \o new, T, Since(T, p.first))
      BY <3>1, <3>2, <2>3
    <3>4. p.first \in T /\ StartsVisit(T, p.first) /\ \A y \in T : p.first < y => ~StartsVisit(T, y)
      BY <3>1, <1>7, <1>12
    <3> HIDE DEF T, es, q, new, p
    <3> QED
      BY <3>3, <3>4, <2>1, <2>2, <2>4, <1>1, <1>4, <1>8, <1>10 DEF VisitInv
  <2>6. CASE p.last < now
    <3>1. ~StartsVisit(T, now)
      BY <2>6, <1>1, <1>12, KnownGoesOn
    <3>2. AreReportsOf(es \o new, T, Since(S, p.first) \cup {now})
      BY <3>1, <2>3, <2>6, <1>6, <1>7, <1>12, SightingReportsVisit
    <3>3. Since(T, p.first) = Since(S, p.first) \cup {now}
      BY <1>6, <1>12 DEF Since
    <3>4. \A x \in S : x \in Nat /\ x <= now /\ (StartsVisit(T, x) <=> StartsVisit(S, x))
      BY <1>6, <1>7, LaterKeepsStart
    <3>5. p.first \in T /\ StartsVisit(T, p.first)
      BY <3>4, <1>7, <1>12
    <3>6. \A y \in T : p.first < y => ~StartsVisit(T, y)
      BY <3>1, <3>4, <1>7, <1>12
    <3> HIDE DEF T, es, q, new, p
    <3> QED
      BY <3>2, <3>3, <3>5, <3>6, <2>1, <2>2, <2>4, <1>1, <1>4, <1>8, <1>10 DEF VisitInv
  <2> QED
    BY <2>5, <2>6, <1>6, <1>12
<1> QED
  BY <1>5, <1>11, <1>12

\* Every step keeps the reports those of the visits.
LEMMA VisitsStep ==
  ASSUME MinZoneDwell > 0
  PROVE  PresenceInv /\ VisitsInv /\ [Next]_vars => VisitsInv'
<1> SUFFICES ASSUME PresenceInv, VisitsInv, [Next]_vars PROVE VisitsInv'
  OBVIOUS
<1>1. ASSUME NEW t \in Tracks, Observe(t) PROVE VisitsInv'
  BY <1>1, ObserveKeepsVisits
<1>2. CASE Sweep
  BY <1>2, EndKeepsVisits DEF Sweep
<1>3. CASE Flush
  BY <1>3, EndKeepsVisits DEF Flush
<1>4. CASE NextFrame
  <2>1. /\ phase = "swept" /\ phase' = "frame" /\ now' = now + FrameInterval
        /\ now < (MaxFrames - 1) * FrameInterval
        /\ state' = state /\ log' = log /\ sightings' = sightings
    BY <1>4 DEF NextFrame
  <2>2. now \in Frames /\ now' \in Frames /\ now \in Nat /\ now' \in Nat /\ now < now'
    <3>1. now \in Frames
      BY DEF VisitsInv
    <3> QED
      BY <3>1, <2>1, FramesFollow, ZoneTrackerAssumption
  <2>3. \A f \in Frames : f \in Nat /\ (f < now' => f <= now)
    BY <2>1, <2>2, FramesFollow
  <2>4. \A f \in Frames : Swept(f)' <=> Swept(f)
    BY <2>1, <2>2, <2>3 DEF Swept
  <2>5. ASSUME NEW t \in Tracks PROVE VisitInv(t)'
    <3>1. VisitInv(t)
      BY PartsOfVisit
    <3>2. OpenVisit(t)' = OpenVisit(t)
      BY <2>1 DEF OpenVisit
    <3>3. sightings[t] \subseteq Frames /\ \A x \in sightings[t] : x <= now'
      <4>1. sightings[t] \subseteq Frames /\ \A x \in sightings[t] : x <= now
        BY <3>1 DEF VisitInv
      <4>2. ASSUME NEW x \in sightings[t] PROVE x <= now'
        <5>1. x \in Nat /\ x <= now
          BY <4>1, <2>3
        <5> QED
          BY <5>1, <2>2
      <4> QED
        BY <4>1, <4>2
    <3> QED
      BY <3>1, <3>2, <3>3, <2>1, <2>4 DEF VisitInv
  <2> QED
    BY <2>2, <2>5 DEF VisitsInv
<1>5. CASE UNCHANGED vars
  BY <1>5 DEF vars, VisitsInv, VisitInv, OpenVisit, Swept
<1> QED
  BY <1>1, <1>2, <1>3, <1>4, <1>5 DEF Next

\* The reports of a closed clip are those of all its visits.
LEMMA ClosedReports ==
  ASSUME VisitsInv
  PROVE  ReportsAreTheVisits
<1> SUFFICES ASSUME phase = "closed", NEW t \in Tracks
             PROVE  LET es == log[t]
                        real == {v \in Visits(sightings[t]) : Entered(v) # {}}
                    IN
                    /\ \A v \in real :
                         /\ Reported(es, EnterOf(v)) = 1
                         /\ Reported(es, ExitOf(v)) = 1
                         /\ \A x \in Entered(v) :
                              Reported(es, DwellAt(v, x)) = Cardinality({k \in Intervals(v) : First(Ticked(v, k)) = x})
                    /\ \A i \in 1..Len(es) : \E v \in real :
                         es[i] \in {EnterOf(v), ExitOf(v)} \cup {DwellAt(v, x) : x \in Entered(v)}
  BY DEF ReportsAreTheVisits
<1>1. AreReportsOf(log[t], sightings[t], {})
  BY DEF VisitsInv, VisitInv, OpenVisit
<1>2. \A v : Entered(v) # {} => v # {}
  BY DEF Entered
<1>3. \A v : ReportsOf(v, {}) \subseteq {EnterOf(v), ExitOf(v)} \cup {DwellAt(v, x) : x \in Entered(v)}
  BY DEF ReportsOf
<1> QED
  BY <1>1, <1>2, <1>3 DEF AreReportsOf

\* At the end of the clip the reports are exactly the visits that the sightings
\* show, each with one dwell for each of its whole intervals, for any sightings,
\* as long as a visit has to last at all to be entered.
THEOREM ReportsAreVisits ==
  ASSUME MinZoneDwell > 0
  PROVE  Spec => []ReportsAreTheVisits
<1>1. Init => PresenceInv /\ VisitsInv
  <2> SUFFICES ASSUME Init PROVE PresenceInv /\ VisitsInv
    OBVIOUS
  <2>1. PresenceInv
    BY DEF Init, PresenceInv, TypeOK
  <2>2. ASSUME NEW t \in Tracks PROVE VisitInv(t)
    BY <2>2 DEF Init, VisitInv, OpenVisit, AreReportsOf, Visits
  <2> QED
    BY <2>1, <2>2, FramesFollow DEF Init, VisitsInv
<1>2. PresenceInv /\ VisitsInv /\ [Next]_vars => (PresenceInv /\ VisitsInv)'
  BY PresenceStep, VisitsStep
<1>3. PresenceInv /\ VisitsInv => ReportsAreTheVisits
  BY ClosedReports
<1> QED
  BY <1>1, <1>2, <1>3, PTL DEF Spec

-------------------------------------------------------------------------------
(* The frame loop *)

\* A frame loop step is a step of the zone tracker or leaves it alone.
LEMMA LoopFeedsTracker == [CameraNext]_cameraVars => [Next]_vars
<1> SUFFICES ASSUME [CameraNext]_cameraVars PROVE [Next]_vars
  OBVIOUS
<1>1. ASSUME NEW t \in Tracks, Drop(t) PROVE UNCHANGED vars
  BY <1>1 DEF Drop
<1>2. ASSUME NEW t \in Tracks, Look(t) PROVE [Next]_vars
  <2>1. CASE InsideOk(boxes[t])
    BY <1>2, <2>1 DEF Look, Next
  <2>2. CASE ~InsideOk(boxes[t])
    BY <1>2, <2>2 DEF Look
  <2> QED
    BY <2>1, <2>2
<1>3. ASSUME EndFrame PROVE Next
  BY <1>3 DEF EndFrame, Next
<1>4. ASSUME ReadFrame PROVE Next
  BY <1>4 DEF ReadFrame, Next
<1>5. ASSUME EndClip PROVE Next
  BY <1>5 DEF EndClip, Next
<1>6. ASSUME UNCHANGED cameraVars PROVE UNCHANGED vars
  BY <1>6 DEF cameraVars
<1> QED
  BY <1>1, <1>2, <1>3, <1>4, <1>5, <1>6 DEF CameraNext

\* The side of a line is one of three, wherever its ends and the point are.
LEMMA ThreeSides == \A line, p : SideOf(line, p) \in {-1, 0, 1}
BY DEF SideOf, Sign

\* It is a step of the crossing detector, at the time of the frame, or leaves
\* that alone.
LEMMA LoopFeedsLine == PresenceInv /\ [CameraNext]_cameraVars => [Line!Next]_(Line!vars)
<1> SUFFICES ASSUME PresenceInv, [CameraNext]_cameraVars PROVE [Line!Next]_(Line!vars)
  OBVIOUS
<1>1. now \in Nat
  BY DEF PresenceInv, TypeOK
<1>2. ASSUME NEW t \in Tracks, Look(t) PROVE [Line!Next]_(Line!vars)
  <2>1. CASE camera.line # NoLine
    <3> DEFINE side == SideOf(camera.line, Foot(boxes[t]))
    <3>1. Line!Update(t, side, now)
      BY <1>2, <2>1 DEF Look
    <3>2. side \in {-1, 0, 1}
      BY ThreeSides
    <3> HIDE DEF side
    <3> QED
      BY <3>1, <3>2, <1>1 DEF Line!Next
  <2>2. CASE camera.line = NoLine
    BY <1>2, <2>2 DEF Look, lineVars, Line!vars
  <2> QED
    BY <2>1, <2>2
<1>3. ASSUME UNCHANGED lineVars PROVE UNCHANGED Line!vars
  BY <1>3 DEF lineVars, Line!vars
<1>4. ASSUME NEW t \in Tracks, Drop(t) PROVE UNCHANGED lineVars
  BY <1>4 DEF Drop
<1>5. ASSUME EndFrame \/ ReadFrame \/ EndClip \/ UNCHANGED cameraVars PROVE UNCHANGED lineVars
  BY <1>5 DEF EndFrame, ReadFrame, EndClip, cameraVars
<1> QED
  BY <1>2, <1>3, <1>4, <1>5 DEF CameraNext

-------------------------------------------------------------------------------

\* The frame loop implements the zone tracker, whatever the gates let through.
THEOREM CameraIsAZoneTracker == CameraSpec => Spec
<1>1. CameraInit => Init
  BY DEF CameraInit
<1> QED
  BY <1>1, LoopFeedsTracker, PTL DEF CameraSpec, Spec

\* On every camera, what the tracker knows agrees with what was reported.
THEOREM CameraKnowsPresence == CameraSpec => []PresenceInv
BY CameraIsAZoneTracker, PresenceIsKnown, PTL

\* On every camera, the reports of a track are visits one after the other.
THEOREM CameraReportsAreBracketed == CameraSpec => []WellBracketed
BY CameraIsAZoneTracker, ReportsAreBracketed, PTL

\* ... at the end of the clip, those of the visits its sightings show.
THEOREM CameraReportsAreVisits ==
  ASSUME MinZoneDwell > 0
  PROVE  CameraSpec => []ReportsAreTheVisits
BY CameraIsAZoneTracker, ReportsAreVisits

\* The frame loop implements the crossing detector.
THEOREM CameraIsACrossingDetector == CameraSpec => Line!Spec
<1>1. CameraInit => Line!Init
  BY DEF CameraInit
<1> QED
  BY <1>1, LoopFeedsLine, CameraKnowsPresence, PTL DEF CameraSpec, Line!Spec

\* On every camera with a line, no track comes in or leaves twice in a row.
THEOREM CameraCrossingsAlternate == CameraSpec => []CrossingsAlternate
<1>1. Line!CrossingsAlternate => CrossingsAlternate
  BY DEF CrossingsAlternate
<1> QED
  BY <1>1, CameraIsACrossingDetector, EntriesAndExitsAlternate, PTL

\* On every camera with a line, the crossings are the flips that persist.
THEOREM CameraFlipsAreReportedOnce == CameraSpec => []CrossingsAreRuns
<1>1. Line!CrossingsAreRuns => CrossingsAreRuns
  BY DEF CrossingsAreRuns
<1> QED
  BY <1>1, CameraIsACrossingDetector, FlipsAreReportedOnce, PTL

-------------------------------------------------------------------------------
(* Who counts *)

Across(b) == camera.line # NoLine /\ SideOf(camera.line, Foot(b)) # 0
InsideSamples(h) == {h[i].ts : i \in {j \in 1..Len(h) : h[j].side = InsideSign}}

\* In the frame a track has been seen and sampled as the gates say of its box,
\* if that has been processed, and not yet if it has not; no record is of a later frame.
SeenInv(t) ==
  /\ samples[t] \in Seq(Line!Sample)
  /\ \A x \in sightings[t] \cup SampledAt(t) : x <= now
  /\ t \in DOMAIN boxes \ todo =>
       /\ now \in sightings[t] <=> Counts(boxes[t]) /\ InsideOk(boxes[t])
       /\ now \in SampledAt(t) <=> Counts(boxes[t]) /\ Across(boxes[t])
  /\ t \notin DOMAIN boxes \ todo => now \notin sightings[t] /\ now \notin SampledAt(t)
  /\ camera.line # NoLine => sightings[t] = InsideSamples(samples[t])

FrameInv ==
  /\ camera \in Cameras /\ boxes \in FramesOf(camera) /\ todo \subseteq DOMAIN boxes
  /\ phase # "frame" => todo = {}
  /\ samples \in [Tracks -> Seq(Line!Sample)]
GatesInv == FrameInv /\ \A t \in Tracks : SeenInv(t)

-------------------------------------------------------------------------------

\* The boxes of a frame are of the tracks of the camera, each where that track may be.
LEMMA FramesAre ==
  ASSUME NEW cam, NEW f \in FramesOf(cam)
  PROVE  DOMAIN f \subseteq Tracks /\ \A t \in DOMAIN f : f[t] \in cam.boxes[t]
BY DEF FramesOf

\* What a further sample adds to the times at which a track was sampled.
LEMMA SampleAdds ==
  ASSUME NEW h \in Seq(Line!Sample), NEW s \in Line!Sample
  PROVE  LET g == Append(h, s) IN
         /\ g \in Seq(Line!Sample)
         /\ {g[i].ts : i \in 1..Len(g)} = {h[i].ts : i \in 1..Len(h)} \cup {s.ts}
         /\ InsideSamples(g) = InsideSamples(h) \cup (IF s.side = InsideSign THEN {s.ts} ELSE {})
<1> DEFINE g == Append(h, s)
           n == Len(h)
<1>1. /\ g \in Seq(Line!Sample) /\ n \in Nat /\ Len(g) = n + 1 /\ g[n + 1] = s
      /\ \A i \in 1..n : g[i] = h[i]
  OBVIOUS
<1> HIDE DEF g, n
<1>2. \A i : i \in 1..(n + 1) <=> i \in 1..n \/ i = n + 1
  BY <1>1
<1>3. {g[i].ts : i \in 1..(n + 1)} = {h[i].ts : i \in 1..n} \cup {s.ts}
  BY <1>1, <1>2
<1>4. ASSUME NEW x PROVE x \in InsideSamples(g) <=> x \in InsideSamples(h) \/ (s.side = InsideSign /\ x = s.ts)
  <2>1. x \in InsideSamples(g) <=> \E i \in 1..(n + 1) : g[i].side = InsideSign /\ x = g[i].ts
    BY <1>1 DEF InsideSamples
  <2>2. x \in InsideSamples(h) <=> \E i \in 1..n : h[i].side = InsideSign /\ x = h[i].ts
    BY DEF InsideSamples, n
  <2> QED
    BY <2>1, <2>2, <1>1, <1>2
<1> QED
  BY <1>1, <1>3, <1>4 DEF g, n

\* A box that is dropped leaves no record.
LEMMA DropKeeps ==
  ASSUME PresenceInv, GatesInv, NEW d \in Tracks, Drop(d)
  PROVE  GatesInv'
<1>1. /\ d \in todo /\ ~Counts(boxes[d]) /\ todo' = todo \ {d}
      /\ UNCHANGED <<now, phase, sightings, samples, camera, boxes>>
  BY DEF Drop, vars, lineVars
<1>2. FrameInv'
  BY <1>1 DEF GatesInv, FrameInv, FramesOf
<1>3. ASSUME NEW t \in Tracks PROVE SeenInv(t)'
  <2>1. SeenInv(t) /\ todo \subseteq DOMAIN boxes
    BY DEF GatesInv, FrameInv
  <2>2. SampledAt(t)' = SampledAt(t) /\ (Across(boxes[t])' <=> Across(boxes[t]))
        /\ (Counts(boxes[t])' <=> Counts(boxes[t])) /\ (InsideOk(boxes[t])' <=> InsideOk(boxes[t]))
    BY <1>1 DEF SampledAt, Across, Counts, InsideOk
  <2>3. CASE t = d
    <3>1. now \notin sightings[t] /\ now \notin SampledAt(t)
      BY <2>1, <2>3, <1>1 DEF SeenInv
    <3> QED
      BY <3>1, <2>1, <2>2, <2>3, <1>1 DEF SeenInv
  <2>4. CASE t # d
    <3>1. t \in DOMAIN boxes' \ todo' <=> t \in DOMAIN boxes \ todo
      BY <2>4, <1>1
    <3> QED
      BY <3>1, <2>1, <2>2, <1>1 DEF SeenInv
  <2> QED
    BY <2>3, <2>4
<1> QED
  BY <1>2, <1>3 DEF GatesInv

\* A box that is looked at is recorded at the time of the frame, as the line says.
LEMMA LookKeeps ==
  ASSUME PresenceInv, GatesInv, NEW d \in Tracks, Look(d)
  PROVE  GatesInv'
<1> DEFINE b == boxes[d]
           side == SideOf(camera.line, Foot(b))
           s == [side |-> side, ts |-> now]
<1>1. /\ d \in todo /\ Counts(b) /\ todo' = todo \ {d}
      /\ UNCHANGED <<camera, boxes>>
      /\ now \in Nat /\ sightings \in [Tracks -> SUBSET Nat]
      /\ FrameInv
  BY DEF Look, PresenceInv, TypeOK, GatesInv
<1>2. /\ now' = now /\ phase' = phase
      /\ sightings' = IF InsideOk(b) THEN [sightings EXCEPT ![d] = @ \cup {now}] ELSE sightings
  BY DEF Look, Observe, vars
<1>3. samples' = IF camera.line # NoLine /\ side # 0
                 THEN [samples EXCEPT ![d] = Append(@, s)] ELSE samples
  <2>1. CASE camera.line # NoLine
    <3>1. samples' = [samples EXCEPT ![d] = IF side = 0 THEN @ ELSE Append(@, s)]
      BY <2>1 DEF Look, Line!Update
    <3> HIDE DEF side, s
    <3> QED
      BY <3>1, <2>1, <1>1 DEF FrameInv
  <2>2. CASE camera.line = NoLine
    BY <2>2 DEF Look, lineVars
  <2> QED
    BY <2>1, <2>2
<1>4. side \in {-1, 0, 1}
  BY ThreeSides
<1>5. Across(b) <=> camera.line # NoLine /\ side # 0
  BY DEF Across
<1>6. camera.line # NoLine => (InsideOk(b) <=> side = InsideSign)
  BY DEF InsideOk, IsInside
<1>7. InsideSign # 0
  BY CameraPassAssumption
<1>8. side # 0 => s \in Line!Sample /\ s.ts = now /\ s.side = side
  BY <1>1, <1>4 DEF Line!Sample
<1> HIDE DEF side, s, b
<1>9. samples' \in [Tracks -> Seq(Line!Sample)]
  BY <1>1, <1>3, <1>8 DEF FrameInv
<1>10. FrameInv'
  <2>1. FramesOf(camera)' = FramesOf(camera)
    BY <1>1 DEF FramesOf
  <2> QED
    BY <2>1, <1>1, <1>2, <1>9 DEF FrameInv
<1>11. ASSUME NEW t \in Tracks, t # d PROVE SeenInv(t)'
  <2>1. SeenInv(t)
    BY DEF GatesInv
  <2>2. samples'[t] = samples[t] /\ sightings'[t] = sightings[t]
    BY <1>1, <1>2, <1>3, <1>11 DEF FrameInv
  <2>3. SampledAt(t)' = SampledAt(t) /\ (Across(boxes[t])' <=> Across(boxes[t]))
        /\ (Counts(boxes[t])' <=> Counts(boxes[t])) /\ (InsideOk(boxes[t])' <=> InsideOk(boxes[t]))
    BY <2>2, <1>1 DEF SampledAt, Across, Counts, InsideOk
  <2>4. t \in DOMAIN boxes' \ todo' <=> t \in DOMAIN boxes \ todo
    BY <1>1, <1>11
  <2> QED
    BY <2>1, <2>2, <2>3, <2>4, <1>1, <1>2 DEF SeenInv
<1>12. SeenInv(d)'
  <2>1. /\ samples[d] \in Seq(Line!Sample)
        /\ \A x \in sightings[d] \cup SampledAt(d) : x <= now
        /\ now \notin sightings[d] /\ now \notin SampledAt(d)
        /\ camera.line # NoLine => sightings[d] = InsideSamples(samples[d])
    BY <1>1 DEF GatesInv, SeenInv
  <2>2. sightings'[d] = sightings[d] \cup (IF InsideOk(b) THEN {now} ELSE {})
    BY <1>1, <1>2
  <2>3. samples'[d] = IF Across(b) THEN Append(samples[d], s) ELSE samples[d]
    BY <1>1, <1>3, <1>5 DEF FrameInv
  <2>4. /\ SampledAt(d)' = SampledAt(d) \cup (IF Across(b) THEN {now} ELSE {})
        /\ InsideSamples(samples'[d])
             = InsideSamples(samples[d]) \cup (IF Across(b) /\ side = InsideSign THEN {now} ELSE {})
    <3>1. CASE Across(b)
      <4>1. s \in Line!Sample /\ s.ts = now /\ s.side = side
        BY <3>1, <1>5, <1>8
      <4> QED
        BY <4>1, <3>1, <2>1, <2>3, SampleAdds DEF SampledAt
    <3>2. CASE ~Across(b)
      BY <3>2, <2>3 DEF SampledAt
    <3> QED
      BY <3>1, <3>2
  <2>5. d \in DOMAIN boxes' \ todo'
    BY <1>1 DEF FrameInv
  <2>6. (Across(boxes[d])' <=> Across(b)) /\ (Counts(boxes[d])' <=> TRUE)
        /\ (InsideOk(boxes[d])' <=> InsideOk(b))
    BY <1>1 DEF Across, Counts, InsideOk, b
  <2>7. camera.line # NoLine => (InsideOk(b) <=> Across(b) /\ side = InsideSign)
    BY <1>5, <1>6, <1>7
  <2>8. camera.line # NoLine => sightings'[d] = InsideSamples(samples'[d])
    BY <2>1, <2>2, <2>4, <2>7
  <2>9. \A x \in sightings'[d] \cup SampledAt(d)' : x <= now
    <3> SUFFICES ASSUME NEW x \in sightings'[d] \cup SampledAt(d)' PROVE x <= now
      OBVIOUS
    <3>1. x \in sightings[d] \cup SampledAt(d) \/ x = now
      BY <2>2, <2>4
    <3>2. now <= now
      BY <1>1
    <3> QED
      BY <3>1, <3>2, <2>1
  <2>10. (now \in sightings'[d] <=> InsideOk(b)) /\ (now \in SampledAt(d)' <=> Across(b))
    BY <2>1, <2>2, <2>4
  <2> QED
    BY <2>5, <2>6, <2>8, <2>9, <2>10, <1>1, <1>2, <1>9 DEF SeenInv
<1> QED
  BY <1>10, <1>11, <1>12 DEF GatesInv

\* The next frame is later than every record.
LEMMA ReadKeeps ==
  ASSUME PresenceInv, GatesInv, ReadFrame
  PROVE  GatesInv'
<1>1. /\ now \in Nat /\ now' = now + FrameInterval /\ phase' = "frame" /\ sightings' = sightings
      /\ samples' = samples /\ camera' = camera
      /\ boxes' \in FramesOf(camera) /\ todo' = DOMAIN boxes'
      /\ sightings \in [Tracks -> SUBSET Nat]
  BY DEF ReadFrame, NextFrame, lineVars, PresenceInv, TypeOK
<1>2. now' \in Nat /\ now < now'
  BY <1>1, ZoneTrackerAssumption
<1>3. FrameInv'
  <2>1. FramesOf(camera)' = FramesOf(camera)
    BY <1>1 DEF FramesOf
  <2> QED
    BY <2>1, <1>1 DEF GatesInv, FrameInv
<1>4. ASSUME NEW t \in Tracks PROVE SeenInv(t)'
  <2>1. SeenInv(t)
    BY DEF GatesInv
  <2>2. SampledAt(t)' = SampledAt(t)
    BY <1>1 DEF SampledAt
  <2>3. sightings[t] \subseteq Nat /\ SampledAt(t) \subseteq Nat
    <3>1. samples[t] \in Seq(Line!Sample)
      BY <2>1 DEF SeenInv
    <3>2. \A i \in 1..Len(samples[t]) : samples[t][i].ts \in Nat
      <4>1. \A i \in 1..Len(samples[t]) : samples[t][i] \in Line!Sample
        BY <3>1
      <4> QED
        BY <4>1 DEF Line!Sample
    <3> QED
      BY <3>2, <1>1 DEF SampledAt
  <2>4. \A x \in sightings[t] \cup SampledAt(t) : x <= now' /\ x # now'
    <3> SUFFICES ASSUME NEW x \in sightings[t] \cup SampledAt(t) PROVE x <= now' /\ x # now'
      OBVIOUS
    <3>1. x \in Nat /\ x <= now
      BY <2>1, <2>3 DEF SeenInv
    <3> QED
      BY <3>1, <1>1, <1>2
  <2>5. t \notin DOMAIN boxes' \ todo'
    BY <1>1
  <2> QED
    BY <2>1, <2>2, <2>4, <2>5, <1>1 DEF SeenInv
<1> QED
  BY <1>3, <1>4 DEF GatesInv

\* Every step of the frame loop keeps the records those of the gates.
LEMMA GatesStep == PresenceInv /\ GatesInv /\ [CameraNext]_cameraVars => GatesInv'
<1> SUFFICES ASSUME PresenceInv, GatesInv, [CameraNext]_cameraVars PROVE GatesInv'
  OBVIOUS
<1>1. ASSUME UNCHANGED <<now, sightings, samples, camera, boxes, todo>>, phase' # "frame" => phase # "frame" \/ todo = {}
      PROVE  GatesInv'
  <2>1. FrameInv'
    BY <1>1 DEF GatesInv, FrameInv, FramesOf
  <2>2. ASSUME NEW t \in Tracks PROVE SeenInv(t)'
    <3>1. SeenInv(t)
      BY DEF GatesInv
    <3>2. SampledAt(t)' = SampledAt(t) /\ (Across(boxes[t])' <=> Across(boxes[t]))
          /\ (Counts(boxes[t])' <=> Counts(boxes[t])) /\ (InsideOk(boxes[t])' <=> InsideOk(boxes[t]))
      BY <1>1 DEF SampledAt, Across, Counts, InsideOk
    <3> QED
      BY <3>1, <3>2, <1>1 DEF SeenInv
  <2> QED
    BY <2>1, <2>2 DEF GatesInv
<1>2. ASSUME NEW t \in Tracks, Drop(t) \/ Look(t) PROVE GatesInv'
  BY <1>2, DropKeeps, LookKeeps
<1>3. CASE EndFrame
  <2>1. todo = {} /\ UNCHANGED <<now, sightings, samples, camera, boxes, todo>>
    BY <1>3 DEF EndFrame, Sweep, gateVars, lineVars
  <2> QED
    BY <2>1, <1>1
<1>4. CASE ReadFrame
  BY <1>4, ReadKeeps
<1>5. CASE EndClip
  <2>1. phase = "swept" /\ UNCHANGED <<now, sightings, samples, camera, boxes, todo>>
    BY <1>5 DEF EndClip, Flush, gateVars, lineVars
  <2> QED
    BY <2>1, <1>1
<1>6. CASE UNCHANGED cameraVars
  <2>1. UNCHANGED <<now, phase, sightings, samples, camera, boxes, todo>>
    BY <1>6 DEF cameraVars, vars, gateVars, lineVars
  <2> QED
    BY <2>1, <1>1
<1> QED
  BY <1>2, <1>3, <1>4, <1>5, <1>6 DEF CameraNext

\* What the gates say is what a person's place says.
LEMMA GatesTell ==
  ASSUME FloorsAreClear, MinBoxFrac > 0, MinBoxFrac \in Int, GatesInv
  PROVE  OnlyShoppersCount
<1>1. SUFFICES ASSUME NEW t \in DOMAIN boxes \ todo
      PROVE  LET b == boxes[t]
                 p == Foot(b)
                 line == camera.line
                 inside == line = NoLine \/ Sign(Cross(line.from, line.to, p)) = InsideSign
                 across == line # NoLine /\ Sign(Cross(line.from, line.to, p)) # 0
             IN
             /\ LargeEnough(b) /\ OnFloor(camera.floor, p) =>
                  (now \in sightings[t] <=> inside) /\ (now \in SampledAt(t) <=> across)
             /\ ~LargeEnough(b) \/ (camera.floor # <<>> /\ OffFloor(camera.floor, p)) =>
                  now \notin sightings[t] /\ now \notin SampledAt(t)
             /\ line # NoLine =>
                  sightings[t] = {samples[t][i].ts : i \in {j \in 1..Len(samples[t]) :
                                                              samples[t][j].side = InsideSign}}
  BY Zenon DEF OnlyShoppersCount
<1> DEFINE b == boxes[t]
<1>2. t \in Tracks /\ b \in camera.boxes[t] /\ camera \in Cameras
  BY FramesAre DEF GatesInv, FrameInv
<1>3. SeenInv(t)
  BY <1>2 DEF GatesInv
<1>4. /\ OnFloor(camera.floor, Foot(b)) => ContainsPoint(camera.floor, Foot(b))
      /\ camera.floor # <<>> /\ OffFloor(camera.floor, Foot(b)) => ~ContainsPoint(camera.floor, Foot(b))
  BY <1>2 DEF FloorsAreClear, TellsFloor
<1>5. PassesSizeGate(b, camera.frame) <=> LargeEnough(b)
  BY DEF PassesSizeGate, LargeEnough
<1>6. Counts(b) <=> LargeEnough(b) /\ ContainsPoint(camera.floor, Foot(b))
  BY <1>5 DEF Counts
<1>7. (now \in sightings[t] <=> Counts(b) /\ InsideOk(b)) /\ (now \in SampledAt(t) <=> Counts(b) /\ Across(b))
      /\ (camera.line # NoLine => sightings[t] = InsideSamples(samples[t]))
  BY <1>3 DEF SeenInv
<1> QED
  BY <1>4, <1>6, <1>7, Zenon DEF InsideOk, Across, IsInside, SideOf, InsideSamples, b

\* Where the ray cast tells the floor from the rest, a person counts in the zone in
\* exactly the frames in which they stand on the floor and inside, large enough, and the
\* line is told of everybody on the floor: whatever the boxes and the order.
THEOREM OnlyThoseOnTheFloorCount ==
  ASSUME FloorsAreClear, MinBoxFrac \in Nat \ {0}
  PROVE  CameraSpec => []OnlyShoppersCount
<1>1. CameraInit => PresenceInv /\ GatesInv
  <2> SUFFICES ASSUME CameraInit PROVE PresenceInv /\ GatesInv
    OBVIOUS
  <2>1. PresenceInv
    BY DEF CameraInit, Init, PresenceInv, TypeOK
  <2>2. FrameInv
    BY DEF CameraInit, Init, Line!Init, FrameInv
  <2>3. ASSUME NEW t \in Tracks PROVE SeenInv(t)
    <3>1. samples[t] = <<>> /\ sightings[t] = {} /\ todo = DOMAIN boxes
      BY DEF CameraInit, Init, Line!Init
    <3>2. SampledAt(t) = {} /\ InsideSamples(samples[t]) = {}
      BY <3>1 DEF SampledAt, InsideSamples
    <3> QED
      BY <3>1, <3>2 DEF SeenInv
  <2> QED
    BY <2>1, <2>2, <2>3 DEF GatesInv
<1>2. PresenceInv /\ GatesInv /\ [CameraNext]_cameraVars => (PresenceInv /\ GatesInv)'
  BY LoopFeedsTracker, PresenceStep, GatesStep
<1>3. PresenceInv /\ GatesInv => OnlyShoppersCount
  BY GatesTell
<1> QED
  BY <1>1, <1>2, <1>3, PTL DEF CameraSpec

===============================================================================
