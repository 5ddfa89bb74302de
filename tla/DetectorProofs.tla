---------------------------- MODULE DetectorProofs ----------------------------
(***************************************************************************)
(* Proofs about the detection pass, for any cameras and tracks, any        *)
(* gallery and any thresholds: the identity of a track, the visits that    *)
(* are reported of it, the queue of the checkout camera, and re-entries.   *)
(***************************************************************************)
EXTENDS Detector, FiniteSetTheorems, FunctionTheorems, SequenceTheorems, TLAPS

\* What the outbox and the log hold, and what the gallery keeps of a visitor.
TrackEvents == [track : Tracks, type : Types \ {"REENTRY"}, ts : Nat, depth : Nat]
LogEvents == [camera : 1..Len(Cameras), visitor : Nat, track : Tracks, type : Types, ts : Nat,
              depth : Nat]
Sightings == [person : {Person[key] : key \in Keys}, last : Nat]

TypeInv ==
  /\ camera \in 1..Len(Cameras) /\ phase \in {"frame", "swept", "flushed"}
  /\ now \in Nat /\ seen \subseteq Tracks
  /\ IsFiniteSet(DOMAIN zone) /\ DOMAIN zone \subseteq Tracks
  /\ zone \in [DOMAIN zone -> Presence]
  /\ sides \in [Tracks -> SideState]
  /\ IsFiniteSet(occupants) /\ occupants \subseteq Tracks
  /\ outbox \in Seq(TrackEvents)
  /\ ids \in [Keys -> Visitors \cup {0}]
  /\ gallery \in Seq(Sightings)
  /\ exited \subseteq Visitors
  /\ log \in Seq(LogEvents) /\ \A i \in 1..Len(log) : log[i].visitor \in Visitors

\* A track that is about to be reported as entered, or as joining, is in the
\* zone; only the checkout camera has a queue.
ZoneInv ==
  /\ \A i \in 1..Len(outbox) :
       outbox[i].type \in {"ZONE_ENTER", "BILLING_QUEUE_JOIN"} =>
         outbox[i].track \in DOMAIN zone /\ zone[outbox[i].track].entered
  /\ ~Cameras[camera].checkout => occupants = {}

QueueInv == TypeInv /\ ZoneInv /\ QueueIsInZone

\* The identity under which an event was written is that of its track.
IdentityInv ==
  TypeInv /\ \A i \in 1..Len(log) : log[i].visitor = ids[<<log[i].camera, log[i].track>>]

\* Visitor v left at the position j of the log, and has not re-entered up to n.
LeftAt(lg, v, j, n) ==
  /\ lg[j].visitor = v /\ lg[j].type = "EXIT"
  /\ \A k \in j..n : ~(lg[k].visitor = v /\ lg[k].type = "REENTRY")

ReentryInv ==
  /\ TypeInv /\ ReentryNeedsExit
  /\ \A v \in exited : \E j \in 1..Len(log) : LeftAt(log, v, j, Len(log))

\* An open visit of track t, and an event of it that is still to be emitted.
Open(t) == IF t \in DOMAIN zone /\ zone[t].entered THEN 1 ELSE 0
Pending(t, type) ==
  IF \E i \in 1..Len(outbox) : outbox[i].track = t /\ outbox[i].type = type THEN 1 ELSE 0

Logged(c, t, type) == Cardinality(EventsOf(c, t, type))

\* The outbox reports of a track at most one entry into the zone and one exit.
PendingOnce ==
  \A i, j \in 1..Len(outbox) :
    /\ outbox[i].type \in {"ZONE_ENTER", "ZONE_EXIT"}
    /\ outbox[i].type = outbox[j].type
    /\ outbox[i].track = outbox[j].track
    => i = j

\* The reports of a track are balanced by its open visit and its events in the outbox.
BalanceInv ==
  /\ QueueInv /\ PendingOnce
  /\ phase = "flushed" => DOMAIN zone = {}
  /\ \A t \in Tracks :
       /\ Logged(camera, t, "ZONE_ENTER") + Pending(t, "ZONE_ENTER")
            = Logged(camera, t, "ZONE_EXIT") + Pending(t, "ZONE_EXIT") + Open(t)
       /\ \A c \in 1..Len(Cameras) \ {camera} :
            Logged(c, t, "ZONE_ENTER") = Logged(c, t, "ZONE_EXIT")

\* The tracks of camera c that have joined the queue up to position n of the log
\* and not left.
Queued(lg, c, n) ==
  {t \in Tracks : \E j \in 1..n :
     /\ lg[j].type = "BILLING_QUEUE_JOIN" /\ lg[j].track = t /\ lg[j].camera = c
     /\ \A k \in j..n : ~(lg[k].type = "ZONE_EXIT" /\ lg[k].track = t /\ lg[k].camera = c)}

\* The track whose place in the queue is about to be reported.
Joining ==
  {t \in Tracks : /\ outbox # <<>> 
                  /\ outbox[1].type = "BILLING_QUEUE_JOIN" /\ outbox[1].track = t}

\* The queue is what the log says, but for the joiner that is reported next.
DepthInv ==
  /\ QueueInv /\ QueueDepthIsCount
  /\ \A i \in 1..Len(log) : log[i].camera <= camera
  /\ \A i \in 2..Len(outbox) : outbox[i].type # "BILLING_QUEUE_JOIN"
  /\ Joining # {} => outbox[1].depth = Cardinality(occupants)
  /\ occupants = Queued(log, camera, Len(log)) \cup Joining

\* What an emission writes before the event itself.
Reentering(r) == r.again /\ r.visitor \in exited
Reentry(r, e) == Written(r.visitor, [e EXCEPT !.type = "REENTRY", !.depth = 0])

\* What a frame may report of track t: at most one entry into the zone, first,
\* and that exactly when enters holds.
Reports(es, t, enters) ==
  /\ es \in Seq(TrackEvents)
  /\ \A i \in 1..Len(es) :
       /\ es[i].track = t
       /\ es[i].type \in {"ZONE_ENTER", "ZONE_DWELL", "ENTRY", "EXIT"}
       /\ es[i].type = "ZONE_ENTER" => i = 1
  /\ enters <=> es # <<>> /\ es[1].type = "ZONE_ENTER"

-------------------------------------------------------------------------------
(* What one track reports *)

\* A duration has a whole number of dwell intervals.
LEMMA WholeIntervals == \A a \in Int : a \div DwellInterval \in Int
BY ZonePresenceAssumption

\* A sighting keeps the presence a presence, and an entered visit entered.
LEMMA SeenAgainKeeps ==
  ASSUME NEW p \in Presence, NEW ts \in Nat
  PROVE  /\ SeenAgain(p, ts) \in Presence
         /\ p.entered => SeenAgain(p, ts).entered
         /\ SeenAgain(p, ts).ticks - p.ticks \in Nat
<1> DEFINE present == ts - p.first
           entered == p.entered \/ present >= MinZoneDwell
           due     == present \div DwellInterval
           ticks   == IF entered /\ due > p.ticks THEN due ELSE p.ticks
<1>1. p.first \in Nat /\ p.last \in Nat /\ p.entered \in BOOLEAN /\ p.ticks \in Nat
  BY DEF Presence
<1>2. present \in Int /\ due \in Int
  BY <1>1, WholeIntervals
<1>3. SeenAgain(p, ts) = [p EXCEPT !.last = ts, !.entered = entered, !.ticks = ticks]
  BY DEF SeenAgain
<1>4. ticks \in Nat /\ ticks - p.ticks \in Nat
  <2> HIDE DEF due, entered
  <2> QED
    BY <1>1, <1>2
<1>5. entered \in BOOLEAN
  BY <1>1
<1> HIDE DEF ticks, entered
<1>6. SeenAgain(p, ts) = [first |-> p.first, last |-> ts, entered |-> entered, ticks |-> ticks]
  BY <1>3 DEF Presence
<1>7. p.entered => entered
  BY DEF entered
<1> QED
  BY <1>1, <1>4, <1>5, <1>6, <1>7 DEF Presence

\* A sighting reports the entry, when it is one, before the dwell events.
LEMMA SeenAgainReports ==
  ASSUME NEW p \in Presence, NEW ts \in Nat, NEW t \in Tracks
  PROVE  Reports(OfTrack(t, EventsOfSeenAgain(p, ts)), t, SeenAgain(p, ts).entered /\ ~p.entered)
<1> DEFINE q == SeenAgain(p, ts)
           enters == q.entered /\ ~p.entered
           n == q.ticks - p.ticks
           first == IF enters THEN <<Event("ZONE_ENTER", ts, 0)>> ELSE <<>>
           dwells == [i \in 1..n |-> Event("ZONE_DWELL", ts, ts - p.first)]
           T == [type : {"ZONE_ENTER", "ZONE_DWELL"}, ts : Nat, dwell : Int]
<1>1. n \in Nat /\ p.first \in Nat
  BY SeenAgainKeeps DEF Presence
<1>2. EventsOfSeenAgain(p, ts) = first \o dwells
  BY DEF EventsOfSeenAgain
<1>0. enters \in BOOLEAN
  BY SeenAgainKeeps DEF Presence
<1> HIDE DEF n, enters
<1>3. /\ Event("ZONE_ENTER", ts, 0) \in T
      /\ Event("ZONE_DWELL", ts, ts - p.first) \in T
  BY <1>1 DEF Event
<1> HIDE DEF T
<1>4. first \in Seq(T) /\ dwells \in Seq(T) /\ Len(dwells) = n
  BY <1>1, <1>3
<1> DEFINE es == first \o dwells
<1>5. /\ es \in Seq(T) /\ Len(es) = Len(first) + n
      /\ \A i \in 1..Len(es) : es[i] = IF i <= Len(first) THEN first[i] ELSE dwells[i - Len(first)]
  <2> HIDE DEF first, dwells
  <2> QED
    BY <1>1, <1>4, ConcatProperties
<1>6. \A i \in 1..n : dwells[i].type = "ZONE_DWELL"
  BY DEF Event
<1>7. /\ enters => Len(first) = 1 /\ first[1].type = "ZONE_ENTER"
      /\ ~enters => Len(first) = 0
  BY DEF Event
<1> HIDE DEF first, dwells
<1>8. \A i \in 1..Len(es) : es[i].type = "ZONE_ENTER" <=> enters /\ i = 1
  <2> HIDE DEF first, dwells
  <2> TAKE i \in 1..Len(es)
  <2> HIDE DEF es
  <2>1. i \in Nat /\ i >= 1 /\ i <= Len(first) + n /\ Len(first) \in 0..1
    BY <1>1, <1>5, <1>7
  <2>2. CASE i <= Len(first)
    <3>1. i = 1 /\ Len(first) = 1 /\ es[1] = first[1]
      BY <2>1, <2>2, <1>5
    <3>2. Len(first) # 0
      BY <3>1
    <3>3. enters
      BY <3>2, <1>7
    <3> QED
      BY <3>1, <3>3, <1>7
  <2>3. CASE i > Len(first)
    <3>1. es[i] = dwells[i - Len(first)] /\ i - Len(first) \in 1..n
      BY <2>1, <2>3, <1>1, <1>5
    <3>2. Len(first) = 1 => i # 1
      BY <2>1, <2>3
    <3>3. es[i].type # "ZONE_ENTER"
      BY <3>1, <1>6
    <3> QED
      BY <3>2, <3>3, <1>7
  <2> QED
    BY <2>1, <2>2, <2>3, <1>0
<1>9. enters => Len(es) >= 1
  <2> HIDE DEF first, dwells
  <2>1. Len(first) = 1 => Len(es) >= 1
    BY <1>1, <1>5
  <2> QED
    BY <2>1, <1>7
<1> HIDE DEF es
<1> DEFINE out == OfTrack(t, es)
<1>10. /\ Len(out) = Len(es) /\ Len(es) \in Nat
       /\ \A i \in 1..Len(es) : out[i] = TrackEvent(t, es[i].type, es[i].ts, 0)
  BY <1>5 DEF OfTrack
<1>11. \A i \in 1..Len(es) : out[i] \in TrackEvents /\ out[i].track = t /\ out[i].type = es[i].type
                              /\ es[i].type \in {"ZONE_ENTER", "ZONE_DWELL"}
  <2> TAKE i \in 1..Len(es)
  <2>1. es[i] \in T
    BY <1>5
  <2>2. es[i].type \in {"ZONE_ENTER", "ZONE_DWELL"} /\ es[i].ts \in Nat
    BY <2>1 DEF T
  <2>3. TrackEvent(t, es[i].type, es[i].ts, 0) \in TrackEvents
    BY <2>2 DEF TrackEvent, TrackEvents, Types
  <2> QED
    BY <2>2, <2>3, <1>10 DEF TrackEvent
<1>12. out \in Seq(TrackEvents)
  BY <1>10, <1>11 DEF OfTrack
<1> HIDE DEF out
<1>13. enters <=> out # <<>> /\ out[1].type = "ZONE_ENTER"
  <2>1. out # <<>> <=> Len(es) >= 1
    BY <1>10, <1>12
  <2> QED
    BY <2>1, <1>8, <1>9, <1>11
<1>14. Reports(out, t, enters)
  BY <1>8, <1>10, <1>11, <1>12, <1>13 DEF Reports
<1> QED
  BY <1>14, <1>2 DEF out, es, enters

\* A crossing behind the reports of the zone leaves them as they are.
LEMMA CrossingBehind ==
  ASSUME NEW t \in Tracks, NEW a, NEW enters, Reports(a, t, enters), NEW ts \in Nat,
         NEW side, NEW crosses \in BOOLEAN
  PROVE  Reports(a \o (IF crosses THEN <<TrackEvent(t, TypeOfCrossing(side), ts, 0)>> ELSE <<>>),
                 t, enters)
<1> DEFINE e == TrackEvent(t, TypeOfCrossing(side), ts, 0)
           b == IF crosses THEN <<e>> ELSE <<>>
<1>1. e \in TrackEvents /\ e.track = t /\ e.type \in {"ENTRY", "EXIT"}
  BY DEF TrackEvent, TrackEvents, Types, TypeOfCrossing
<1> HIDE DEF e
<1>2. b \in Seq(TrackEvents) /\ Len(b) \in 0..1
  BY <1>1
<1>3. \A i \in 1..Len(b) : b[i] = e
  OBVIOUS
<1> HIDE DEF b
<1>4. a \in Seq(TrackEvents)
  BY DEF Reports
<1>5. /\ a \o b \in Seq(TrackEvents) /\ Len(a \o b) = Len(a) + Len(b)
      /\ \A i \in 1..Len(a \o b) : (a \o b)[i] = IF i <= Len(a) THEN a[i] ELSE b[i - Len(a)]
  BY <1>2, <1>4, ConcatProperties
<1>6. Len(a) \in Nat
  BY <1>4
<1>7. \A i \in 1..Len(a \o b) : IF i <= Len(a) THEN (a \o b)[i] = a[i] ELSE (a \o b)[i] = e
  BY <1>2, <1>3, <1>5, <1>6
<1>8. /\ a # <<>> <=> Len(a) >= 1
      /\ a \o b # <<>> <=> Len(a \o b) >= 1
  BY <1>4, <1>5
<1>9. enters <=> a \o b # <<>> /\ (a \o b)[1].type = "ZONE_ENTER"
  BY <1>1, <1>2, <1>5, <1>6, <1>7, <1>8 DEF Reports
<1>10. \A i \in 1..Len(a \o b) :
         /\ (a \o b)[i].track = t
         /\ (a \o b)[i].type \in {"ZONE_ENTER", "ZONE_DWELL", "ENTRY", "EXIT"}
         /\ (a \o b)[i].type = "ZONE_ENTER" => i = 1
  BY <1>1, <1>6, <1>7 DEF Reports
<1> QED
  BY <1>5, <1>9, <1>10 DEF Reports, b, e

-------------------------------------------------------------------------------
(* What the steps of the frame loop do *)

\* A sample leaves a track with a side.
LEMMA SampledKeeps ==
  ASSUME NEW c \in SideState, NEW side \in {-1, 0, 1}
  PROVE  Sampled(c, side) \in SideState
<1>1. c.committed \in {-1, 0, 1} /\ c.candidate \in {-1, 0, 1} /\ c.count \in Nat
  BY DEF SideState
<1>2. CountOf(c, side) \in Nat
  BY <1>1 DEF CountOf
<1>3. [c EXCEPT !.candidate = side, !.count = CountOf(c, side)] \in SideState
  BY <1>2 DEF SideState
<1> QED
  BY <1>3 DEF Sampled, Settled, SideState

\* A track of the frame: only its own presence changes, an entered visit stays
\* entered, and what is reported is about it.
LEMMA DetectKeeps ==
  ASSUME TypeInv, NEW t \in Tracks, NEW side \in {-1, 0, 1}, Detect(t, side)
  PROVE  /\ outbox = <<>> /\ phase = "frame"
         /\ IsFiniteSet(DOMAIN zone') /\ DOMAIN zone' \subseteq Tracks
         /\ zone' \in [DOMAIN zone' -> Presence]
         /\ \A u \in DOMAIN zone :
              u \in DOMAIN zone' /\ (zone[u].entered => zone'[u].entered)
         /\ \A u \in Tracks : u # t => Open(u)' = Open(u)
         /\ sides' \in [Tracks -> SideState]
         /\ \E enters \in BOOLEAN :
              /\ Reports(outbox', t, enters)
              /\ Open(t)' = IF enters THEN 1 ELSE Open(t)
              /\ enters => Open(t) = 0 /\ t \in DOMAIN zone' /\ zone'[t].entered
<1> DEFINE line == Cameras[camera].line
           inside == ~line \/ side = InsideSign
           again == inside /\ t \in DOMAIN zone
           seenAgain == SeenAgain(zone[t], now)
           reports == IF again THEN OfTrack(t, EventsOfSeenAgain(zone[t], now)) ELSE <<>>
           crosses == line /\ Crosses(sides[t], side)
           enters == again /\ seenAgain.entered /\ ~zone[t].entered
<1>1. /\ outbox = <<>> /\ phase = "frame"
      /\ zone' = IF ~inside THEN zone
                 ELSE [u \in DOMAIN zone \cup {t} |->
                        IF u # t THEN zone[u]
                        ELSE IF t \in DOMAIN zone THEN seenAgain ELSE FirstSeen(now)]
      /\ sides' = IF line THEN [sides EXCEPT ![t] = Sampled(@, side)] ELSE sides
      /\ outbox' = reports \o (IF crosses THEN <<TrackEvent(t, TypeOfCrossing(side), now, 0)>>
                               ELSE <<>>)
  BY DEF Detect
<1>2. /\ DOMAIN zone \subseteq Tracks /\ IsFiniteSet(DOMAIN zone) /\ zone \in [DOMAIN zone -> Presence]
      /\ now \in Nat /\ sides \in [Tracks -> SideState]
  BY DEF TypeInv
<1>3. t \in DOMAIN zone =>
        /\ zone[t] \in Presence /\ seenAgain \in Presence
        /\ zone[t].entered => seenAgain.entered
  BY <1>2, SeenAgainKeeps
<1>4. FirstSeen(now) \in Presence /\ FirstSeen(now).entered = FALSE
  BY <1>2 DEF FirstSeen, Presence
<1>5. sides' \in [Tracks -> SideState]
  BY <1>1, <1>2, SampledKeeps
<1>6. Reports(reports, t, enters)
  <2>1. CASE again
    <3>1. Reports(OfTrack(t, EventsOfSeenAgain(zone[t], now)), t, seenAgain.entered /\ ~zone[t].entered)
      BY <2>1, <1>2, <1>3, SeenAgainReports
    <3> QED
      BY <3>1, <2>1
  <2>2. CASE ~again
    <3>1. reports = <<>> /\ ~enters
      BY <2>2
    <3> HIDE DEF reports, enters
    <3> QED
      BY <3>1 DEF Reports
  <2> QED
    BY <2>1, <2>2
<1>7. Reports(outbox', t, enters)
  <2>1. crosses \in BOOLEAN
    BY DEF Crosses
  <2> HIDE DEF reports, enters, crosses
  <2> QED
    BY <2>1, <1>1, <1>2, <1>6, CrossingBehind
<1> DEFINE new == IF t \in DOMAIN zone THEN seenAgain ELSE FirstSeen(now)
<1>8. /\ ~inside => zone' = zone
      /\ inside => /\ DOMAIN zone' = DOMAIN zone \cup {t} /\ zone'[t] = new
                   /\ \A u \in DOMAIN zone \ {t} : zone'[u] = zone[u]
                   /\ zone' = [u \in DOMAIN zone \cup {t} |-> IF u # t THEN zone[u] ELSE new]
  BY <1>1
<1>9. /\ IsFiniteSet(DOMAIN zone') /\ DOMAIN zone' \subseteq Tracks
      /\ zone' \in [DOMAIN zone' -> Presence]
  <2>1. new \in Presence
    <3> HIDE DEF seenAgain
    <3> QED
      BY <1>3, <1>4
  <2> HIDE DEF new, inside
  <2>2. IsFiniteSet(DOMAIN zone \cup {t})
    BY <1>2, FS_AddElement
  <2>3. CASE inside
    <3> DEFINE f == [u \in DOMAIN zone \cup {t} |-> IF u # t THEN zone[u] ELSE new]
    <3>1. f \in [DOMAIN zone \cup {t} -> Presence]
      BY <2>1, <1>2
    <3>2. zone' = f /\ DOMAIN zone' = DOMAIN zone \cup {t}
      BY <2>3, <1>8
    <3> QED
      BY <3>1, <3>2, <2>2, <1>2
  <2> QED
    BY <2>3, <1>2, <1>8
<1>10. \A u \in DOMAIN zone : u \in DOMAIN zone' /\ (zone[u].entered => zone'[u].entered)
  BY <1>3, <1>8
<1>11. \A u \in Tracks : u # t => Open(u)' = Open(u)
  BY <1>8 DEF Open
<1>12. /\ Open(t)' = IF enters THEN 1 ELSE Open(t)
       /\ enters => Open(t) = 0 /\ t \in DOMAIN zone' /\ zone'[t].entered
  <2>1. CASE ~inside
    BY <2>1, <1>8 DEF Open
  <2>2. CASE inside /\ t \notin DOMAIN zone
    BY <2>2, <1>4, <1>8 DEF Open
  <2>3. CASE inside /\ t \in DOMAIN zone
    <3>1. t \in DOMAIN zone' /\ zone'[t] = seenAgain
      BY <2>3, <1>8
    <3>2. zone[t].entered => seenAgain.entered
      BY <2>3, <1>3
    <3>3. enters <=> seenAgain.entered /\ ~zone[t].entered
      BY <2>3
    <3> HIDE DEF seenAgain, enters, inside
    <3> QED
      BY <3>1, <3>2, <3>3, <2>3 DEF Open
  <2> QED
    BY <2>1, <2>2, <2>3
<1>13. enters \in BOOLEAN
  <2>1. \A p \in Presence : p.entered \in BOOLEAN
    BY DEF Presence
  <2> QED
    BY <2>1, <1>3
<1> HIDE DEF enters
<1> QED
  BY <1>1, <1>5, <1>7, <1>9, <1>10, <1>11, <1>12, <1>13

\* An order of a finite set names each of its elements once.
LEMMA OrderNamesEach ==
  ASSUME NEW S, IsFiniteSet(S), NEW order \in SetToSeqs(S)
  PROVE  /\ order \in Seq(S)
         /\ \A i, j \in 1..Len(order) : order[i] = order[j] => i = j
         /\ \A x \in S : \E i \in 1..Len(order) : order[i] = x
<1> DEFINE n == Cardinality(S)
<1>1. n \in Nat
  BY FS_CardinalityType
<1>2. order \in [1..n -> S] /\ \A i, j \in 1..n : i # j => order[i] # order[j]
  BY DEF SetToSeqs
<1>3. IsFiniteSet(1..n) /\ Cardinality(1..n) = n
  <2> HIDE DEF n
  <2>1. IsFiniteSet(1..n) /\ Cardinality(1..n) = IF 1 > n THEN 0 ELSE n - 1 + 1
    BY <1>1, FS_Interval
  <2> QED
    BY <2>1, <1>1
<1>4. order \in Injection(1..n, S)
  BY <1>2 DEF Injection, IsInjective
<1>5. order \in Surjection(1..n, S)
  BY <1>3, <1>4, FS_Injection
<1>6. \A x \in S : \E i \in 1..n : order[i] = x
  BY <1>5 DEF Surjection
<1> HIDE DEF n
<1> QED
  BY <1>1, <1>2, <1>6

\* The visits of the tracks in gone end: those that were entered are reported,
\* each once, and the other tracks are left alone.
LEMMA EndKeeps ==
  ASSUME TypeInv, NEW gone \in SUBSET DOMAIN zone, End(gone)
  PROVE  /\ DOMAIN zone' = DOMAIN zone \ gone
         /\ IsFiniteSet(DOMAIN zone') /\ zone' \in [DOMAIN zone' -> Presence]
         /\ \A u \in DOMAIN zone' : zone'[u] = zone[u]
         /\ outbox' \in Seq(TrackEvents)
         /\ \A i \in 1..Len(outbox') :
              /\ outbox'[i].type = "ZONE_EXIT"
              /\ outbox'[i].track \in gone /\ zone[outbox'[i].track].entered
         /\ \A i, j \in 1..Len(outbox') : outbox'[i].track = outbox'[j].track => i = j
         /\ \A u \in gone : zone[u].entered => \E i \in 1..Len(outbox') : outbox'[i].track = u
<1> DEFINE S == {u \in gone : zone[u].entered}
           Exit(u) == TrackEvent(u, "ZONE_EXIT", zone[u].last, 0)
<1>1. /\ DOMAIN zone \subseteq Tracks /\ IsFiniteSet(DOMAIN zone) /\ zone \in [DOMAIN zone -> Presence]
  BY DEF TypeInv
<1>2. /\ DOMAIN zone' = DOMAIN zone \ gone
      /\ \A u \in DOMAIN zone' : zone'[u] = zone[u]
      /\ zone' \in [DOMAIN zone' -> Presence]
  BY <1>1 DEF End
<1>3. IsFiniteSet(DOMAIN zone') /\ IsFiniteSet(S)
  BY <1>1, <1>2, FS_Subset
<1>4. \A u \in S : /\ OfTrack(u, EventsOfEnd(zone[u]))[1] = Exit(u)
                   /\ Exit(u) \in TrackEvents /\ Exit(u).type = "ZONE_EXIT" /\ Exit(u).track = u
  <2> TAKE u \in S
  <2>1. u \in Tracks /\ zone[u] \in Presence /\ zone[u].last \in Nat
    BY <1>1 DEF Presence
  <2>2. EventsOfEnd(zone[u]) = <<Event("ZONE_EXIT", zone[u].last, zone[u].last - zone[u].first)>>
    BY DEF EventsOfEnd
  <2>3. OfTrack(u, EventsOfEnd(zone[u]))[1] = Exit(u)
    BY <2>2 DEF OfTrack, Event
  <2> QED
    BY <2>1, <2>3 DEF TrackEvent, TrackEvents, Types
<1>5. PICK order \in SetToSeqs(S) :
        outbox' = [i \in 1..Len(order) |-> OfTrack(order[i], EventsOfEnd(zone[order[i]]))[1]]
  BY DEF End
<1>6. /\ order \in Seq(S)
      /\ \A i, j \in 1..Len(order) : order[i] = order[j] => i = j
      /\ \A x \in S : \E i \in 1..Len(order) : order[i] = x
  <2> HIDE DEF S
  <2> QED
    BY <1>3, <1>5, OrderNamesEach
<1>7. \A i \in 1..Len(order) : order[i] \in S
  BY <1>6
<1>8. /\ outbox' = [i \in 1..Len(order) |-> Exit(order[i])]
      /\ outbox' \in Seq(TrackEvents) /\ Len(outbox') = Len(order)
  <2> DEFINE f == [i \in 1..Len(order) |-> Exit(order[i])]
  <2>1. f \in [1..Len(order) -> TrackEvents]
    BY <1>4, <1>7
  <2>2. outbox' = f
    BY <1>4, <1>5, <1>7, Zenon
  <2>3. Len(order) \in Nat
    BY <1>6
  <2> HIDE DEF f
  <2>4. f \in Seq(TrackEvents) /\ Len(f) = Len(order)
    BY <2>1, <2>3
  <2> QED
    BY <2>2, <2>4 DEF f
<1>9. \A i \in 1..Len(outbox') :
        outbox'[i].type = "ZONE_EXIT" /\ outbox'[i].track = order[i] /\ order[i] \in S
  <2> HIDE DEF Exit, S
  <2> QED
    BY <1>4, <1>7, <1>8
<1>10. \A i, j \in 1..Len(outbox') : outbox'[i].track = outbox'[j].track => i = j
  <2>1. Len(outbox') = Len(order)
    BY <1>8
  <2> QED
    BY <2>1, <1>6, <1>9
<1>11. \A u \in S : \E i \in 1..Len(outbox') : outbox'[i].track = u
  <2> TAKE u \in S
  <2>1. PICK i \in 1..Len(order) : order[i] = u
    BY <1>6
  <2>2. i \in 1..Len(outbox')
    BY <1>8
  <2> QED
    BY <2>1, <2>2, <1>9
<1>12. \A i \in 1..Len(outbox') : outbox'[i].track \in gone /\ zone[outbox'[i].track].entered
  BY <1>9
<1> QED
  BY <1>2, <1>3, <1>8, <1>9, <1>10, <1>11, <1>12

-------------------------------------------------------------------------------
(* What an emission does *)

\* A resolution names a visitor of the gallery it leaves behind, that of the
\* track once the track has one, and nobody is forgotten.
LEMMA ResolutionsAreKnown ==
  ASSUME TypeInv, NEW key \in Keys, NEW ts \in Nat, NEW r \in Resolutions(key, ts)
  PROVE  /\ r.gallery \in Seq(Sightings) /\ Len(r.gallery) >= Len(gallery)
         /\ r.visitor \in 1..Len(r.gallery)
         /\ ids[key] # 0 => r.visitor = ids[key]
<1>1. /\ gallery \in Seq(Sightings) /\ ids \in [Keys -> Visitors \cup {0}]
      /\ Len(gallery) \in Nat
  BY DEF TypeInv
<1>2. CASE ids[key] # 0
  BY <1>1, <1>2 DEF Resolutions, Visitors
<1>3. CASE ids[key] = 0 /\ r \in Known(key, ts)
  <2>1. PICK v \in 1..Len(gallery) :
          r = [visitor |-> v, again |-> ts - gallery[v].last > ReentryGap,
               gallery |-> [gallery EXCEPT ![v].last = IF ts > @ THEN ts ELSE @]]
    BY <1>3 DEF Known, Matches
  <2>2. gallery[v] \in Sightings
    BY <1>1
  <2> DEFINE last == IF ts > gallery[v].last THEN ts ELSE gallery[v].last
  <2>3. [gallery[v] EXCEPT !.last = last] \in Sightings
    BY <2>2 DEF Sightings
  <2>4. r.visitor = v /\ r.gallery = [gallery EXCEPT ![v] = [gallery[v] EXCEPT !.last = last]]
    BY <2>1, <1>1
  <2> HIDE DEF last
  <2>5. r.gallery \in Seq(Sightings) /\ Len(r.gallery) = Len(gallery)
    BY <2>3, <2>4, <1>1
  <2> QED
    BY <2>4, <2>5, <1>1, <1>3
<1>4. CASE ids[key] = 0 /\ r \in Unknown(key, ts)
  <2>1. r = [visitor |-> Len(gallery) + 1, again |-> FALSE,
             gallery |-> Append(gallery, [person |-> Person[key], last |-> ts])]
    BY <1>4 DEF Unknown
  <2>2. [person |-> Person[key], last |-> ts] \in Sightings
    BY DEF Sightings
  <2> QED
    BY <2>1, <2>2, <1>1, <1>4
<1> QED
  BY <1>2, <1>3, <1>4 DEF Resolutions

\* The event is written last, and a re-entry before it when there is one.
LEMMA EmitWrites ==
  ASSUME TypeInv, NEW e \in TrackEvents,
         NEW r \in Resolutions(<<camera, e.track>>, e.ts), EmitAs(r, e)
  PROVE  /\ Written(r.visitor, e) \in LogEvents /\ Reentry(r, e) \in LogEvents
         /\ log' \in Seq(LogEvents)
         /\ \A i \in 1..Len(log) : log'[i] = log[i]
         /\ log'[Len(log')] = Written(r.visitor, e)
         /\ Reentering(r) => Len(log') = Len(log) + 2 /\ log'[Len(log) + 1] = Reentry(r, e)
         /\ ~Reentering(r) => Len(log') = Len(log) + 1
<1> DEFINE key == <<camera, e.track>>
           w == Written(r.visitor, e)
           b == Reentry(r, e)
           new == IF Reentering(r) THEN <<b, w>> ELSE <<w>>
<1>1. /\ camera \in 1..Len(Cameras) /\ log \in Seq(LogEvents) /\ gallery \in Seq(Sightings)
      /\ e.track \in Tracks /\ e.type \in Types /\ e.ts \in Nat /\ e.depth \in Nat
      /\ e = [track |-> e.track, type |-> e.type, ts |-> e.ts, depth |-> e.depth]
  BY DEF TypeInv, TrackEvents
<1>2. key \in Keys
  BY <1>1 DEF Keys
<1>3. r.visitor \in Nat
  <2> HIDE DEF key
  <2>1. r.gallery \in Seq(Sightings) /\ r.visitor \in 1..Len(r.gallery)
    BY <1>1, <1>2, ResolutionsAreKnown DEF key
  <2> QED
    BY <2>1
<1>4. w \in LogEvents
  BY <1>1, <1>3 DEF Written, LogEvents
<1>5. b \in LogEvents
  <2> DEFINE x == [e EXCEPT !.type = "REENTRY", !.depth = 0]
  <2>1. x.track = e.track /\ x.type = "REENTRY" /\ x.ts = e.ts /\ x.depth = 0
    BY <1>1
  <2>2. b = Written(r.visitor, x)
    BY DEF Reentry
  <2> HIDE DEF x, b
  <2>3. b = [camera |-> camera, visitor |-> r.visitor, track |-> e.track, type |-> "REENTRY",
             ts |-> e.ts, depth |-> 0]
    BY <2>1, <2>2 DEF Written
  <2> QED
    BY <2>3, <1>1, <1>3 DEF LogEvents, Types
<1>6. log' = log \o (IF Reentering(r) THEN <<b>> ELSE <<>>) \o <<w>>
  BY DEF EmitAs, Reentering, Reentry
<1> HIDE DEF b, w
<1>7. CASE Reentering(r)
  <2>1. log' = (log \o <<b>>) \o <<w>>
    BY <1>6, <1>7
  <2>2. Append(log, b) = log \o <<b>> /\ Append(log, b) \in Seq(LogEvents)
    BY <1>1, <1>5, AppendIsConcat
  <2>3. log' = Append(Append(log, b), w)
    BY <2>1, <2>2, <1>4, AppendIsConcat
  <2> QED
    BY <2>3, <1>1, <1>4, <1>5, <1>7 DEF b, w
<1>8. CASE ~Reentering(r)
  <2>1. log' = (log \o <<>>) \o <<w>>
    BY <1>6, <1>8
  <2>2. log' = Append(log, w)
    BY <2>1, <1>1, <1>4
  <2> QED
    BY <2>2, <1>1, <1>4, <1>5, <1>8 DEF b, w
<1> QED
  BY <1>7, <1>8

\* The event that is emitted leaves the outbox, and a joiner's report takes its place.
LEMMA BillingKeeps ==
  ASSUME TypeInv, outbox # <<>>, Billing(Head(outbox), Tail(outbox))
  PROVE  /\ outbox[1] \in TrackEvents /\ Head(outbox) = outbox[1]
         /\ outbox' \in Seq(TrackEvents) /\ occupants' \subseteq Tracks /\ IsFiniteSet(occupants')
         /\ \/ /\ ~Cameras[camera].checkout \/ outbox[1].type # "ZONE_EXIT"
               /\ Len(outbox') = Len(outbox) - 1
               /\ \A i \in 1..Len(outbox') : outbox'[i] = outbox[i + 1]
               /\ occupants' = occupants
            \/ /\ Cameras[camera].checkout /\ outbox[1].type = "ZONE_ENTER"
               /\ outbox[1].track \notin occupants
               /\ occupants' = occupants \cup {outbox[1].track}
               /\ Len(outbox') = Len(outbox)
               /\ outbox'[1] = TrackEvent(outbox[1].track, "BILLING_QUEUE_JOIN", outbox[1].ts,
                                          Cardinality(occupants'))
               /\ \A i \in 2..Len(outbox') : outbox'[i] = outbox[i]
            \/ /\ Cameras[camera].checkout /\ outbox[1].type = "ZONE_EXIT"
               /\ occupants' = occupants \ {outbox[1].track}
               /\ Len(outbox') = Len(outbox) - 1
               /\ \A i \in 1..Len(outbox') : outbox'[i] = outbox[i + 1]
<1> DEFINE e == outbox[1]
           rest == Tail(outbox)
           join == TrackEvent(e.track, "BILLING_QUEUE_JOIN", e.ts, Cardinality(occupants) + 1)
<1>1. outbox \in Seq(TrackEvents) /\ occupants \subseteq Tracks /\ IsFiniteSet(occupants)
  BY DEF TypeInv
<1>2. /\ Len(outbox) \in Nat /\ Len(outbox) >= 1 /\ e \in TrackEvents /\ Head(outbox) = e
      /\ rest \in Seq(TrackEvents) /\ Len(rest) = Len(outbox) - 1
      /\ \A i \in 1..Len(rest) : rest[i] = outbox[i + 1]
  BY <1>1
<1>3. e.track \in Tracks /\ e.ts \in Nat
  BY <1>2 DEF TrackEvents
<1>4. Cardinality(occupants) \in Nat
  BY <1>1, FS_CardinalityType
<1>5. join \in TrackEvents
  BY <1>3, <1>4 DEF TrackEvent, TrackEvents, Types
<1> HIDE DEF join
<1>6. \/ /\ ~Cameras[camera].checkout \/ e.type # "ZONE_EXIT"
         /\ outbox' = rest /\ occupants' = occupants
      \/ /\ Cameras[camera].checkout /\ e.type = "ZONE_ENTER" /\ e.track \notin occupants
         /\ occupants' = occupants \cup {e.track} /\ outbox' = <<join>> \o rest
      \/ /\ Cameras[camera].checkout /\ e.type = "ZONE_EXIT"
         /\ occupants' = occupants \ {e.track} /\ outbox' = rest
  BY <1>2 DEF Billing, join
<1> HIDE DEF e, rest
<1>7. /\ IsFiniteSet(occupants \cup {e.track}) /\ IsFiniteSet(occupants \ {e.track})
      /\ e.track \notin occupants => Cardinality(occupants \cup {e.track}) = Cardinality(occupants) + 1
  BY <1>1, FS_AddElement, FS_RemoveElement
<1>8. /\ <<join>> \o rest \in Seq(TrackEvents) /\ Len(<<join>> \o rest) = Len(outbox)
      /\ (<<join>> \o rest)[1] = join
      /\ \A i \in 2..Len(outbox) : (<<join>> \o rest)[i] = outbox[i]
  <2>1. <<join>> \in Seq(TrackEvents) /\ Len(<<join>>) = 1 /\ <<join>>[1] = join
    BY <1>5
  <2>2. /\ <<join>> \o rest \in Seq(TrackEvents) /\ Len(<<join>> \o rest) = Len(<<join>>) + Len(rest)
        /\ \A i \in 1..Len(<<join>>) + Len(rest) :
             (<<join>> \o rest)[i] = IF i <= Len(<<join>>) THEN <<join>>[i] ELSE rest[i - Len(<<join>>)]
    BY <2>1, <1>2, ConcatProperties
  <2>3. \A i \in 2..Len(outbox) : (<<join>> \o rest)[i] = rest[i - 1] /\ rest[i - 1] = outbox[(i - 1) + 1]
    BY <2>1, <2>2, <1>2
  <2> QED
    BY <2>1, <2>2, <2>3, <1>2
<1>9. CASE /\ ~Cameras[camera].checkout \/ e.type # "ZONE_EXIT"
           /\ outbox' = rest /\ occupants' = occupants
  BY <1>9, <1>1, <1>2, Zenon DEF e
<1>10. CASE /\ Cameras[camera].checkout /\ e.type = "ZONE_ENTER" /\ e.track \notin occupants
            /\ occupants' = occupants \cup {e.track} /\ outbox' = <<join>> \o rest
  <2>1. Cardinality(occupants') = Cardinality(occupants) + 1 /\ IsFiniteSet(occupants')
    BY <1>10, <1>7
  <2>2. join = TrackEvent(e.track, "BILLING_QUEUE_JOIN", e.ts, Cardinality(occupants'))
    BY <2>1 DEF join
  <2>3. occupants' \subseteq Tracks
    BY <1>1, <1>3, <1>10
  <2> QED
    BY <2>1, <2>2, <2>3, <1>2, <1>8, <1>10, Zenon DEF e
<1>11. CASE /\ Cameras[camera].checkout /\ e.type = "ZONE_EXIT"
            /\ occupants' = occupants \ {e.track} /\ outbox' = rest
  <2>1. occupants' \subseteq Tracks /\ IsFiniteSet(occupants')
    BY <1>1, <1>7, <1>11
  <2> QED
    BY <2>1, <1>11, <1>2, Zenon DEF e
<1> QED
  BY <1>6, <1>9, <1>10, <1>11

\* An emission takes the head of the outbox, under a resolution of its track.
LEMMA EmitTakesHead ==
  ASSUME TypeInv, Emit
  PROVE  /\ UNCHANGED input /\ outbox # <<>>
         /\ outbox[1] \in TrackEvents /\ Len(outbox) \in Nat /\ Len(outbox) >= 1
         /\ Billing(Head(outbox), Tail(outbox))
         /\ <<camera, outbox[1].track>> \in Keys
         /\ \E r \in Resolutions(<<camera, outbox[1].track>>, outbox[1].ts) : EmitAs(r, outbox[1])
<1>1. outbox \in Seq(TrackEvents) /\ outbox # <<>> /\ camera \in 1..Len(Cameras)
  BY DEF TypeInv, Emit
<1>2. Head(outbox) = outbox[1] /\ outbox[1] \in TrackEvents /\ Len(outbox) \in Nat /\ Len(outbox) >= 1
  BY <1>1
<1>3. <<camera, outbox[1].track>> \in Keys
  BY <1>1, <1>2 DEF Keys, TrackEvents
<1> QED
  BY <1>1, <1>2, <1>3 DEF Emit

-------------------------------------------------------------------------------
(* Types *)

\* Nobody has been seen.
LEMMA TypeInit == Init => TypeInv
<1> SUFFICES ASSUME Init PROVE TypeInv
  OBVIOUS
<1>1. Len(Cameras) \in Nat /\ Len(Cameras) >= 1
  BY DetectorAssumption
<1>2. Settled(0) \in SideState
  BY DEF Settled, SideState
<1>3. /\ IsFiniteSet({}) /\ DOMAIN <<>> = {} /\ <<>> \in [{} -> Presence]
      /\ Len(<<>>) = 0 /\ <<>> \in Seq(TrackEvents) /\ <<>> \in Seq(Sightings) /\ <<>> \in Seq(LogEvents)
  BY FS_EmptySet
<1> QED
  BY <1>1, <1>2, <1>3 DEF Init, TypeInv, Visitors

\* The types survive an emission: who is named is in the gallery that is left.
LEMMA TypeOfEmit == TypeInv /\ Emit => TypeInv'
<1> SUFFICES ASSUME TypeInv, Emit PROVE TypeInv'
  OBVIOUS
<1> DEFINE e == outbox[1]
           key == <<camera, e.track>>
<1>1. /\ UNCHANGED input /\ outbox # <<>> /\ e \in TrackEvents
      /\ Billing(Head(outbox), Tail(outbox)) /\ key \in Keys
  BY EmitTakesHead
<1>2. PICK r \in Resolutions(key, e.ts) : EmitAs(r, e)
  BY EmitTakesHead
<1>3. outbox' \in Seq(TrackEvents) /\ occupants' \subseteq Tracks /\ IsFiniteSet(occupants')
  BY <1>1, BillingKeeps
<1>4. e.ts \in Nat
  BY <1>1 DEF TrackEvents
<1> HIDE DEF e
<1>5. /\ log' \in Seq(LogEvents) /\ \A i \in 1..Len(log) : log'[i] = log[i]
      /\ log'[Len(log')] = Written(r.visitor, e)
      /\ Reentering(r) => Len(log') = Len(log) + 2 /\ log'[Len(log) + 1] = Reentry(r, e)
      /\ ~Reentering(r) => Len(log') = Len(log) + 1
  BY <1>1, <1>2, EmitWrites
<1>6. /\ r.gallery \in Seq(Sightings) /\ Len(r.gallery) >= Len(gallery)
      /\ r.visitor \in 1..Len(r.gallery)
  BY <1>1, <1>2, <1>4, ResolutionsAreKnown
<1>7. /\ gallery' = r.gallery /\ ids' = [ids EXCEPT ![key] = r.visitor]
      /\ exited' \subseteq exited \cup {r.visitor}
  BY <1>2 DEF EmitAs
<1>8. /\ ids \in [Keys -> Visitors \cup {0}] /\ exited \subseteq Visitors
      /\ log \in Seq(LogEvents) /\ \A i \in 1..Len(log) : log[i].visitor \in Visitors
      /\ gallery \in Seq(Sightings)
  BY DEF TypeInv
<1>9. Visitors \subseteq Visitors' /\ r.visitor \in Visitors'
  BY <1>6, <1>7, <1>8 DEF Visitors
<1>10. Written(r.visitor, e).visitor = r.visitor /\ Reentry(r, e).visitor = r.visitor
  BY DEF Written, Reentry
<1>11. \A i \in 1..Len(log') : log'[i].visitor \in Visitors'
  <2> TAKE i \in 1..Len(log')
  <2>1. Len(log) \in Nat /\ Len(log') \in Nat
    BY <1>5, <1>8
  <2>2. CASE i \in 1..Len(log)
    BY <2>2, <1>5, <1>8, <1>9
  <2>3. CASE i = Len(log')
    BY <2>3, <1>5, <1>9, <1>10
  <2>4. CASE Reentering(r) /\ i = Len(log) + 1
    BY <2>4, <1>5, <1>9, <1>10
  <2> QED
    BY <2>1, <2>2, <2>3, <2>4, <1>5
<1>12. ids' \in [Keys -> Visitors' \cup {0}]
  BY <1>7, <1>8, <1>9
<1>13. gallery' \in Seq(Sightings) /\ exited' \subseteq Visitors'
  BY <1>6, <1>7, <1>8, <1>9
<1>14. /\ camera' = camera /\ phase' = phase /\ now' = now /\ seen' = seen /\ zone' = zone
       /\ sides' = sides
  BY <1>1 DEF input
<1> QED
  BY <1>3, <1>5, <1>11, <1>12, <1>13, <1>14 DEF TypeInv

\* Every step keeps the types.
LEMMA TypeStep == TypeInv /\ [Next]_vars => TypeInv'
<1> SUFFICES ASSUME TypeInv, [Next]_vars PROVE TypeInv'
  OBVIOUS
<1> USE DEF Visitors
<1>1. ASSUME NEW t \in Tracks, NEW side \in {-1, 0, 1}, Detect(t, side) PROVE TypeInv'
  <2>1. /\ IsFiniteSet(DOMAIN zone') /\ DOMAIN zone' \subseteq Tracks
        /\ zone' \in [DOMAIN zone' -> Presence] /\ sides' \in [Tracks -> SideState]
        /\ outbox' \in Seq(TrackEvents)
    BY <1>1, DetectKeeps DEF Reports
  <2> QED
    BY <2>1, <1>1 DEF TypeInv, Detect, identity
<1>2. CASE Sweep
  <2>1. PICK gone \in SUBSET DOMAIN zone : End(gone)
    BY <1>2 DEF Sweep
  <2>2. /\ IsFiniteSet(DOMAIN zone') /\ DOMAIN zone' \subseteq DOMAIN zone
        /\ zone' \in [DOMAIN zone' -> Presence] /\ outbox' \in Seq(TrackEvents)
    BY <2>1, EndKeeps
  <2> QED
    BY <2>2, <1>2 DEF TypeInv, Sweep, identity
<1>3. CASE NextFrame
  <2>1. now' \in Nat
    BY <1>3, DetectorAssumption DEF TypeInv, NextFrame
  <2> QED
    BY <2>1, <1>3 DEF TypeInv, NextFrame, identity
<1>4. CASE Flush
  <2>1. End(DOMAIN zone)
    BY <1>4 DEF Flush
  <2>2. /\ IsFiniteSet(DOMAIN zone') /\ DOMAIN zone' \subseteq DOMAIN zone
        /\ zone' \in [DOMAIN zone' -> Presence] /\ outbox' \in Seq(TrackEvents)
    BY <2>1, EndKeeps
  <2> QED
    BY <2>2, <1>4 DEF TypeInv, Flush, identity
<1>5. CASE NextCamera
  <2>1. Settled(0) \in SideState /\ IsFiniteSet({}) /\ DOMAIN <<>> = {} /\ <<>> \in [{} -> Presence]
    BY FS_EmptySet DEF Settled, SideState
  <2>2. camera' \in 1..Len(Cameras)
    BY <1>5, DetectorAssumption DEF TypeInv, NextCamera
  <2> QED
    BY <2>1, <2>2, <1>5 DEF TypeInv, NextCamera, OpenCamera, identity
<1>6. CASE Emit
  BY <1>6, TypeOfEmit
<1>7. CASE UNCHANGED vars
  BY <1>7 DEF TypeInv, vars, input, identity
<1> QED
  BY <1>1, <1>2, <1>3, <1>4, <1>5, <1>6, <1>7 DEF Next

\* The types say what TypeOK says.
LEMMA TypeInvImplies == TypeInv => TypeOK
<1> SUFFICES ASSUME TypeInv PROVE TypeOK
  OBVIOUS
<1>1. \A i \in 1..Len(outbox) :
        outbox[i].track \in Tracks /\ outbox[i].type \in Types /\ outbox[i].ts \in Nat
  <2> TAKE i \in 1..Len(outbox)
  <2>1. outbox[i] \in TrackEvents
    BY DEF TypeInv
  <2> QED
    BY <2>1 DEF TrackEvents
<1>2. \A v \in Visitors : gallery[v].last \in Nat
  <2> TAKE v \in Visitors
  <2>1. gallery[v] \in Sightings
    BY DEF TypeInv, Visitors
  <2> QED
    BY <2>1 DEF Sightings
<1>3. \A i \in 1..Len(log) : log[i].type \in Types
  <2> TAKE i \in 1..Len(log)
  <2>1. log[i] \in LogEvents
    BY DEF TypeInv
  <2> QED
    BY <2>1 DEF LogEvents
<1> QED
  BY <1>1, <1>2, <1>3 DEF TypeInv, TypeOK

-------------------------------------------------------------------------------
(* The queue *)

\* Nothing is in the zone, in the queue or in the outbox.
LEMMA QueueInit == Init => QueueInv
<1> SUFFICES ASSUME Init PROVE QueueInv
  OBVIOUS
<1>1. outbox = <<>> /\ occupants = {}
  BY DEF Init
<1> QED
  BY <1>1, TypeInit DEF QueueInv, ZoneInv, QueueIsInZone

\* A track keeps its place until its exit has been emitted.
LEMMA QueueStep == QueueInv /\ [Next]_vars => QueueInv'
<1> SUFFICES ASSUME QueueInv, [Next]_vars PROVE QueueInv'
  OBVIOUS
<1>1. TypeInv /\ ZoneInv /\ QueueIsInZone /\ TypeInv'
  BY TypeStep DEF QueueInv
<1> SUFFICES ZoneInv' /\ QueueIsInZone'
  BY <1>1 DEF QueueInv
<1>2. outbox = <<>> => \A t \in occupants : t \in DOMAIN zone /\ zone[t].entered
  BY <1>1 DEF QueueIsInZone
<1>3. ASSUME NEW t \in Tracks, NEW side \in {-1, 0, 1}, Detect(t, side)
      PROVE  ZoneInv' /\ QueueIsInZone'
  <2>1. /\ outbox = <<>> /\ camera' = camera /\ occupants' = occupants
        /\ \A u \in DOMAIN zone : u \in DOMAIN zone' /\ (zone[u].entered => zone'[u].entered)
    BY <1>1, <1>3, DetectKeeps DEF Detect
  <2>2. PICK enters \in BOOLEAN :
          /\ Reports(outbox', t, enters)
          /\ enters => t \in DOMAIN zone' /\ zone'[t].entered
    BY <1>1, <1>3, DetectKeeps
  <2>3. \A i \in 1..Len(outbox') :
          /\ outbox'[i].track = t /\ outbox'[i].type # "BILLING_QUEUE_JOIN"
          /\ outbox'[i].type = "ZONE_ENTER" => enters
    BY <2>2 DEF Reports
  <2>4. QueueIsInZone'
    BY <2>1, <1>2 DEF QueueIsInZone
  <2> QED
    BY <2>1, <2>2, <2>3, <2>4, <1>1 DEF ZoneInv
<1>4. ASSUME NEW gone \in SUBSET DOMAIN zone, End(gone), outbox = <<>>, UNCHANGED <<camera, occupants>>
      PROVE  ZoneInv' /\ QueueIsInZone'
  <2>1. /\ DOMAIN zone' = DOMAIN zone \ gone /\ \A u \in DOMAIN zone' : zone'[u] = zone[u]
        /\ \A i \in 1..Len(outbox') : outbox'[i].type = "ZONE_EXIT"
        /\ \A u \in gone : zone[u].entered => \E i \in 1..Len(outbox') : outbox'[i].track = u
    BY <1>1, <1>4, EndKeeps
  <2>2. QueueIsInZone'
    BY <2>1, <1>2, <1>4 DEF QueueIsInZone
  <2> QED
    BY <2>1, <2>2, <1>1, <1>4 DEF ZoneInv
<1>5. CASE Sweep
  <2>1. \E gone \in SUBSET DOMAIN zone : End(gone)
    BY <1>5 DEF Sweep
  <2> QED
    BY <2>1, <1>4, <1>5 DEF Sweep
<1>6. CASE Flush
  <2>1. End(DOMAIN zone)
    BY <1>6 DEF Flush
  <2> QED
    BY <2>1, <1>4, <1>6 DEF Flush
<1>7. CASE NextCamera
  <2>1. occupants' = {} /\ outbox' = <<>>
    BY <1>7 DEF NextCamera, OpenCamera
  <2> QED
    BY <2>1 DEF ZoneInv, QueueIsInZone
<1>8. CASE Emit
  <2> DEFINE e == outbox[1]
             Leave == \A i \in 1..Len(outbox') : outbox'[i] = outbox[i + 1]
  <2>1. zone' = zone /\ camera' = camera
    BY <1>8 DEF Emit, input
  <2>2. /\ Len(outbox) \in Nat /\ Len(outbox) >= 1
        /\ outbox # <<>> /\ Billing(Head(outbox), Tail(outbox))
    BY <1>1, <1>8, EmitTakesHead
  <2>3. CASE /\ ~Cameras[camera].checkout \/ outbox[1].type # "ZONE_EXIT"
             /\ Len(outbox') = Len(outbox) - 1 /\ Leave
             /\ occupants' = occupants
    <3>1. ZoneInv'
      BY <2>1, <2>2, <2>3, <1>1 DEF ZoneInv
    <3>2. ASSUME NEW t \in occupants, t \notin DOMAIN zone \/ ~zone[t].entered
          PROVE  \E i \in 1..Len(outbox') : outbox'[i].track = t /\ outbox'[i].type = "ZONE_EXIT"
      <4>1. PICK i \in 1..Len(outbox) : outbox[i].track = t /\ outbox[i].type = "ZONE_EXIT"
        BY <3>2, <1>1 DEF QueueIsInZone
      <4>2. Cameras[camera].checkout
        BY <3>2, <1>1 DEF ZoneInv
      <4>3. i - 1 \in 1..Len(outbox') /\ outbox'[i - 1] = outbox[i]
        BY <4>1, <4>2, <2>2, <2>3
      <4> QED
        BY <4>1, <4>3
    <3>3. QueueIsInZone'
      BY <3>2, <2>1, <2>3 DEF QueueIsInZone
    <3> QED
      BY <3>1, <3>3
  <2>4. CASE /\ Cameras[camera].checkout /\ outbox[1].type = "ZONE_ENTER"
             /\ occupants' = occupants \cup {outbox[1].track}
             /\ Len(outbox') = Len(outbox)
             /\ outbox'[1] = TrackEvent(outbox[1].track, "BILLING_QUEUE_JOIN", outbox[1].ts,
                                        Cardinality(occupants'))
             /\ \A i \in 2..Len(outbox') : outbox'[i] = outbox[i]
    <3>1. outbox'[1].track = outbox[1].track
      BY <2>4 DEF TrackEvent
    <3>2. outbox[1].track \in DOMAIN zone /\ zone[outbox[1].track].entered
      BY <2>2, <2>4, <1>1 DEF ZoneInv
    <3>3. ZoneInv'
      BY <3>1, <3>2, <2>1, <2>2, <2>4, <1>1 DEF ZoneInv
    <3>4. ASSUME NEW t \in occupants, t \notin DOMAIN zone \/ ~zone[t].entered
          PROVE  \E i \in 1..Len(outbox') : outbox'[i].track = t /\ outbox'[i].type = "ZONE_EXIT"
      <4>1. PICK i \in 1..Len(outbox) : outbox[i].track = t /\ outbox[i].type = "ZONE_EXIT"
        BY <3>4, <1>1 DEF QueueIsInZone
      <4>2. i \in 2..Len(outbox')
        BY <4>1, <2>2, <2>4
      <4> QED
        BY <4>1, <4>2, <2>2, <2>4
    <3>5. QueueIsInZone'
      BY <3>2, <3>4, <2>1, <2>4 DEF QueueIsInZone
    <3> QED
      BY <3>3, <3>5
  <2>5. CASE /\ Cameras[camera].checkout /\ outbox[1].type = "ZONE_EXIT"
             /\ occupants' = occupants \ {outbox[1].track}
             /\ Len(outbox') = Len(outbox) - 1 /\ Leave
    <3>1. ZoneInv'
      BY <2>1, <2>2, <2>5, <1>1 DEF ZoneInv
    <3>2. ASSUME NEW t \in occupants, t # outbox[1].track, t \notin DOMAIN zone \/ ~zone[t].entered
          PROVE  \E i \in 1..Len(outbox') : outbox'[i].track = t /\ outbox'[i].type = "ZONE_EXIT"
      <4>1. PICK i \in 1..Len(outbox) : outbox[i].track = t /\ outbox[i].type = "ZONE_EXIT"
        BY <3>2, <1>1 DEF QueueIsInZone
      <4>2. i - 1 \in 1..Len(outbox') /\ outbox'[i - 1] = outbox[i]
        BY <3>2, <4>1, <2>2, <2>5
      <4> QED
        BY <4>1, <4>2
    <3>3. QueueIsInZone'
      BY <3>2, <2>1, <2>5 DEF QueueIsInZone
    <3> QED
      BY <3>1, <3>3
  <2> QED
    BY <2>2, <2>3, <2>4, <2>5, <1>1, BillingKeeps
<1>9. CASE UNCHANGED <<camera, zone, occupants, outbox>>
  BY <1>1, <1>9 DEF ZoneInv, QueueIsInZone
<1> QED
  BY <1>3, <1>5, <1>6, <1>7, <1>8, <1>9 DEF Next, NextFrame, vars, input

-------------------------------------------------------------------------------
(* Identity and re-entry *)

\* A step that is not an emission writes nothing and names nobody.
LEMMA OnlyEmitWrites == [Next]_vars /\ ~Emit => UNCHANGED <<identity, log>>
BY DEF Next, Detect, Sweep, NextFrame, Flush, NextCamera, vars

\* What an emission appends, in the terms of the invariants below.
LEMMA EmitAppends ==
  ASSUME TypeInv, Emit
  PROVE  \E r \in Resolutions(<<camera, outbox[1].track>>, outbox[1].ts) :
           /\ EmitAs(r, outbox[1])
           /\ r.visitor # 0
           /\ ids[<<camera, outbox[1].track>>] # 0 => r.visitor = ids[<<camera, outbox[1].track>>]
           /\ Len(log) \in Nat /\ Len(log') \in {Len(log) + 1, Len(log) + 2}
           /\ Len(log') = Len(log) + 2 <=> Reentering(r)
           /\ \A i \in 1..Len(log) : log'[i] = log[i]
           /\ \A i \in (Len(log) + 1)..Len(log') :
                /\ log'[i].camera = camera /\ log'[i].visitor = r.visitor
                /\ log'[i].track = outbox[1].track
                /\ log'[i].type = (IF i = Len(log') THEN outbox[1].type ELSE "REENTRY")
                /\ i = Len(log') => log'[i].depth = outbox[1].depth
<1> DEFINE e == outbox[1]
           key == <<camera, e.track>>
<1>1. e \in TrackEvents /\ key \in Keys
  BY EmitTakesHead
<1>2. PICK r \in Resolutions(key, e.ts) : EmitAs(r, e)
  BY EmitTakesHead
<1>3. e.ts \in Nat /\ Len(log) \in Nat
  BY <1>1 DEF TrackEvents, TypeInv
<1> HIDE DEF e, key
<1>4. /\ log' \in Seq(LogEvents) /\ \A i \in 1..Len(log) : log'[i] = log[i]
      /\ log'[Len(log')] = Written(r.visitor, e)
      /\ Reentering(r) => Len(log') = Len(log) + 2 /\ log'[Len(log) + 1] = Reentry(r, e)
      /\ ~Reentering(r) => Len(log') = Len(log) + 1
  BY <1>1, <1>2, EmitWrites DEF key
<1>5. /\ r.visitor \in 1..Len(r.gallery)
      /\ ids[key] # 0 => r.visitor = ids[key]
  BY <1>1, <1>2, <1>3, ResolutionsAreKnown
<1> DEFINE w == Written(r.visitor, e)
           b == Reentry(r, e)
<1>6. /\ w.camera = camera /\ w.visitor = r.visitor /\ w.track = e.track /\ w.type = e.type
      /\ w.depth = e.depth
  BY DEF Written
<1>7. b.camera = camera /\ b.visitor = r.visitor /\ b.track = e.track /\ b.type = "REENTRY"
  <2> DEFINE x == [e EXCEPT !.type = "REENTRY", !.depth = 0]
  <2>1. x.track = e.track /\ x.type = "REENTRY"
    BY <1>1 DEF TrackEvents
  <2>2. b = Written(r.visitor, x)
    BY DEF Reentry
  <2> HIDE DEF x, b
  <2> QED
    BY <2>1, <2>2 DEF Written
<1> HIDE DEF w, b
<1>8. Len(log') \in {Len(log) + 1, Len(log) + 2} /\ (Len(log') = Len(log) + 2 <=> Reentering(r))
  BY <1>3, <1>4
<1>9. ASSUME NEW i \in (Len(log) + 1)..Len(log')
      PROVE  /\ log'[i].camera = camera /\ log'[i].visitor = r.visitor /\ log'[i].track = e.track
             /\ log'[i].type = (IF i = Len(log') THEN e.type ELSE "REENTRY")
             /\ i = Len(log') => log'[i].depth = e.depth
  <2>1. CASE i = Len(log')
    BY <2>1, <1>4, <1>6 DEF w
  <2>2. CASE i # Len(log')
    <3>1. Reentering(r) /\ i = Len(log) + 1
      BY <2>2, <1>3, <1>8
    <3>2. log'[i] = b
      BY <3>1, <1>4 DEF b
    <3> QED
      BY <3>2, <2>2, <1>7
  <2> QED
    BY <2>1, <2>2
<1>10. r.visitor # 0
  BY <1>5
<1> QED
  BY <1>2, <1>3, <1>4, <1>5, <1>8, <1>9, <1>10 DEF e, key

\* Nothing has been written.
LEMMA IdentityInit == Init => IdentityInv
BY TypeInit DEF Init, IdentityInv

\* A track that has a visitor keeps it, and one that has none has no events.
LEMMA IdentityStep == IdentityInv /\ [Next]_vars => IdentityInv'
<1> SUFFICES ASSUME IdentityInv, [Next]_vars PROVE IdentityInv'
  OBVIOUS
<1>1. TypeInv /\ TypeInv' /\ \A i \in 1..Len(log) : log[i].visitor = ids[<<log[i].camera, log[i].track>>]
  BY TypeStep DEF IdentityInv
<1>2. CASE Emit
  <2> DEFINE key == <<camera, outbox[1].track>>
  <2>1. PICK r \in Resolutions(key, outbox[1].ts) :
          /\ EmitAs(r, outbox[1])
          /\ ids[key] # 0 => r.visitor = ids[key]
          /\ Len(log) \in Nat /\ Len(log') \in {Len(log) + 1, Len(log) + 2}
          /\ \A i \in 1..Len(log) : log'[i] = log[i]
          /\ \A i \in (Len(log) + 1)..Len(log') :
               /\ log'[i].camera = camera /\ log'[i].visitor = r.visitor
               /\ log'[i].track = outbox[1].track
    BY <1>1, <1>2, EmitAppends
  <2>2. ids' = [ids EXCEPT ![key] = r.visitor] /\ key \in Keys /\ ids \in [Keys -> Visitors \cup {0}]
    BY <2>1, <1>1, <1>2, EmitTakesHead DEF EmitAs, TypeInv
  <2> HIDE DEF key
  <2>3. ASSUME NEW i \in 1..Len(log) PROVE log'[i].visitor = ids'[<<log'[i].camera, log'[i].track>>]
    <3> DEFINE own == <<log[i].camera, log[i].track>>
    <3>1. log[i] \in LogEvents /\ log[i].visitor \in Visitors
      BY <1>1 DEF TypeInv
    <3>2. own \in Keys
      BY <3>1 DEF LogEvents, Keys
    <3>3. log[i].visitor = ids[own] /\ ids[own] # 0
      BY <3>1, <1>1 DEF Visitors
    <3> HIDE DEF own
    <3>4. ids'[own] = ids[own]
      BY <3>2, <3>3, <2>1, <2>2
    <3> QED
      BY <3>3, <3>4, <2>1 DEF own
  <2>4. ASSUME NEW i \in (Len(log) + 1)..Len(log')
        PROVE  log'[i].visitor = ids'[<<log'[i].camera, log'[i].track>>]
    BY <2>1, <2>2 DEF key
  <2>5. \A i \in 1..Len(log') : i \in 1..Len(log) \/ i \in (Len(log) + 1)..Len(log')
    BY <2>1
  <2> QED
    BY <2>3, <2>4, <2>5, <1>1 DEF IdentityInv
<1>3. CASE ~Emit
  BY <1>1, <1>3, OnlyEmitWrites DEF IdentityInv, identity
<1> QED
  BY <1>2, <1>3

\* Nobody has left.
LEMMA ReentryInit == Init => ReentryInv
BY TypeInit DEF Init, ReentryInv, ReentryNeedsExit

\* A re-entry uses up the exit before it, and an exit that is written arms the next.
LEMMA ReentryStep == ReentryInv /\ [Next]_vars => ReentryInv'
<1> SUFFICES ASSUME ReentryInv, [Next]_vars PROVE ReentryInv'
  OBVIOUS
<1>1. /\ TypeInv /\ TypeInv' /\ ReentryNeedsExit
      /\ \A v \in exited : \E j \in 1..Len(log) : LeftAt(log, v, j, Len(log))
  BY TypeStep DEF ReentryInv
<1>2. CASE Emit
  <2> DEFINE e == outbox[1]
             n == Len(log)
             m == Len(log')
  <2>1. PICK r \in Resolutions(<<camera, e.track>>, e.ts) :
          /\ EmitAs(r, e)
          /\ n \in Nat /\ m \in {n + 1, n + 2}
          /\ m = n + 2 <=> Reentering(r)
          /\ \A i \in 1..n : log'[i] = log[i]
          /\ \A i \in (n + 1)..m :
               /\ log'[i].visitor = r.visitor
               /\ log'[i].type = (IF i = m THEN e.type ELSE "REENTRY")
    BY <1>1, <1>2, EmitAppends
  <2>2. e \in TrackEvents
    BY <1>1, <1>2, EmitTakesHead
  <2>3. e.type # "REENTRY"
    BY <2>2 DEF TrackEvents
  <2>4. exited' = (IF Reentering(r) THEN exited \ {r.visitor} ELSE exited)
                    \cup (IF e.type = "EXIT" THEN {r.visitor} ELSE {})
    BY <2>1 DEF EmitAs, Reentering
  <2>5. Reentering(r) => r.visitor \in exited
    BY DEF Reentering
  <2> HIDE DEF e, n, m
  <2>6. ASSUME NEW v, NEW j \in 1..n, LeftAt(log, v, j, n)
        PROVE  LeftAt(log', v, j, n)
    BY <2>1, <2>6 DEF LeftAt
  <2>7. ReentryNeedsExit'
    <3> SUFFICES ASSUME NEW i \in 1..m, log'[i].type = "REENTRY"
                 PROVE  \E j \in 1..(i - 1) : LeftAt(log', log'[i].visitor, j, i - 1)
      BY DEF ReentryNeedsExit, LeftAt, m
    <3>1. CASE i \in 1..n
      <4>1. log[i].type = "REENTRY" /\ log'[i] = log[i]
        BY <3>1, <2>1
      <4>2. PICK j \in 1..(i - 1) : LeftAt(log, log[i].visitor, j, i - 1)
        BY <4>1, <3>1, <1>1 DEF ReentryNeedsExit, LeftAt, n
      <4>3. \A k \in 1..(i - 1) : log'[k] = log[k]
        BY <3>1, <2>1
      <4>4. LeftAt(log', log[i].visitor, j, i - 1)
        BY <4>2, <4>3 DEF LeftAt
      <4> QED
        BY <4>1, <4>4
    <3>2. CASE i \notin 1..n
      <4>1. i = n + 1 /\ m = n + 2 /\ log'[i].visitor = r.visitor
        BY <3>2, <2>1, <2>3
      <4>2. r.visitor \in exited
        BY <4>1, <2>1, <2>5
      <4>3. PICK j \in 1..n : LeftAt(log, r.visitor, j, n)
        BY <4>2, <1>1 DEF n
      <4>4. i - 1 = n
        BY <4>1, <2>1
      <4> QED
        BY <4>1, <4>3, <4>4, <2>6
    <3> QED
      BY <3>1, <3>2
  <2>8. ASSUME NEW v \in exited' PROVE \E j \in 1..m : LeftAt(log', v, j, m)
    <3>1. CASE v = r.visitor /\ e.type = "EXIT"
      <4>1. m \in 1..m /\ m \in (n + 1)..m /\ m..m = {m}
        BY <2>1
      <4>2. log'[m].visitor = v /\ log'[m].type = "EXIT"
        BY <4>1, <3>1, <2>1
      <4>3. LeftAt(log', v, m, m)
        BY <4>1, <4>2 DEF LeftAt
      <4> QED
        BY <4>1, <4>3
    <3>2. CASE v \in exited /\ (Reentering(r) => v # r.visitor)
      <4>1. PICK j \in 1..n : LeftAt(log, v, j, n)
        BY <3>2, <1>1 DEF n
      <4>2. LeftAt(log', v, j, n)
        BY <4>1, <2>6
      <4>3. \A k \in (n + 1)..m : ~(log'[k].visitor = v /\ log'[k].type = "REENTRY")
        <5> TAKE k \in (n + 1)..m
        <5>1. CASE k = m
          BY <5>1, <2>1, <2>3
        <5>2. CASE k # m
          <6>1. m = n + 2
            BY <5>2, <2>1
          <6> QED
            BY <6>1, <3>2, <2>1
        <5> QED
          BY <5>1, <5>2
      <4>4. \A k \in j..m : k \in j..n \/ k \in (n + 1)..m
        BY <2>1
      <4>5. j \in 1..m
        BY <2>1
      <4> QED
        BY <4>2, <4>3, <4>4, <4>5 DEF LeftAt
    <3> QED
      BY <3>1, <3>2, <2>4
  <2> QED
    BY <2>7, <2>8, <1>1 DEF ReentryInv, m
<1>3. CASE ~Emit
  BY <1>1, <1>3, OnlyEmitWrites DEF ReentryInv, ReentryNeedsExit, identity
<1> QED
  BY <1>2, <1>3

-------------------------------------------------------------------------------
(* The depth of the queue *)

\* The queue that the log tells of is the same in a longer log.
LEMMA QueuedOfPrefix ==
  ASSUME NEW lg, NEW lg2, NEW c, NEW i \in Nat, \A k \in 1..i : lg2[k] = lg[k]
  PROVE  Queued(lg2, c, i) = Queued(lg, c, i)
<1>1. ASSUME NEW j \in 1..i PROVE \A k \in j..i : lg2[k] = lg[k] /\ lg2[j] = lg[j]
  OBVIOUS
<1> QED
  BY <1>1 DEF Queued

\* lg2 has, beyond the n positions of lg, one report of track t on camera c up to
\* m, or a re-entry and that report.
Extends(lg2, m, lg, n, c, t, type) ==
  /\ n \in Nat /\ m \in {n + 1, n + 2}
  /\ \A i \in 1..n : lg2[i] = lg[i]
  /\ \A i \in (n + 1)..m :
       /\ lg2[i].camera = c /\ lg2[i].track = t
       /\ lg2[i].type = (IF i = m THEN type ELSE "REENTRY")

\* A report, behind a re-entry or not, changes the queue that the log tells of
\* only when somebody joins or leaves the zone.
LEMMA QueuedOfReport ==
  ASSUME NEW lg, NEW lg2, NEW c, NEW t \in Tracks, NEW type,
         NEW n, NEW m, Extends(lg2, m, lg, n, c, t, type)
  PROVE  /\ type = "BILLING_QUEUE_JOIN" => Queued(lg2, c, m) = Queued(lg, c, n) \cup {t}
         /\ type = "ZONE_EXIT" => Queued(lg2, c, m) = Queued(lg, c, n) \ {t}
         /\ type \notin {"BILLING_QUEUE_JOIN", "ZONE_EXIT"} => Queued(lg2, c, m) = Queued(lg, c, n)
<1> DEFINE Joins(l, j, u) == l[j].type = "BILLING_QUEUE_JOIN" /\ l[j].track = u /\ l[j].camera = c
           Leaves(l, k, u) == l[k].type = "ZONE_EXIT" /\ l[k].track = u /\ l[k].camera = c
<1>0. /\ n \in Nat /\ m \in {n + 1, n + 2}
      /\ \A i \in 1..n : lg2[i] = lg[i]
      /\ \A i \in (n + 1)..m :
           /\ lg2[i].camera = c /\ lg2[i].track = t
           /\ lg2[i].type = (IF i = m THEN type ELSE "REENTRY")
  BY DEF Extends
<1>1. /\ \A u \in Tracks : u \in Queued(lg, c, n) <=>
           \E j \in 1..n : Joins(lg, j, u) /\ \A k \in j..n : ~Leaves(lg, k, u)
      /\ \A u \in Tracks : u \in Queued(lg2, c, m) <=>
           \E j \in 1..m : Joins(lg2, j, u) /\ \A k \in j..m : ~Leaves(lg2, k, u)
      /\ Queued(lg, c, n) \subseteq Tracks /\ Queued(lg2, c, m) \subseteq Tracks
  BY DEF Queued
<1>2. \A i \in (n + 1)..m, u \in Tracks :
        /\ Joins(lg2, i, u) <=> i = m /\ u = t /\ type = "BILLING_QUEUE_JOIN"
        /\ Leaves(lg2, i, u) <=> i = m /\ u = t /\ type = "ZONE_EXIT"
  BY <1>0
<1>3. \A i \in 1..n, u \in Tracks :
        (Joins(lg2, i, u) <=> Joins(lg, i, u)) /\ (Leaves(lg2, i, u) <=> Leaves(lg, i, u))
  BY <1>0
<1> HIDE DEF Joins, Leaves
<1>4. /\ m \in (n + 1)..m /\ m \in 1..m /\ m..m = {m}
      /\ \A i \in 1..m : i \in 1..n \/ i \in (n + 1)..m
      /\ 1..n \subseteq 1..m
      /\ \A j \in 1..n : m \in j..m
      /\ \A j \in 1..n : \A k \in j..m : k \in j..n \/ k \in (n + 1)..m
      /\ \A j \in 1..n : \A k \in j..n : k \in 1..n /\ k \in j..m
  BY <1>0
<1>5. ASSUME NEW u \in Tracks
      PROVE  u \in Queued(lg2, c, m) <=>
               \/ u = t /\ type = "BILLING_QUEUE_JOIN"
               \/ u \in Queued(lg, c, n) /\ ~(u = t /\ type = "ZONE_EXIT")
  <2>1. CASE u = t /\ type = "BILLING_QUEUE_JOIN"
    <3>1. Joins(lg2, m, u) /\ \A k \in m..m : ~Leaves(lg2, k, u)
      BY <2>1, <1>2, <1>4
    <3> QED
      BY <3>1, <2>1, <1>1, <1>4
  <2>2. CASE ~(u = t /\ type = "BILLING_QUEUE_JOIN")
    <3>1. ASSUME NEW j \in 1..m, Joins(lg2, j, u), \A k \in j..m : ~Leaves(lg2, k, u)
          PROVE  u \in Queued(lg, c, n) /\ ~(u = t /\ type = "ZONE_EXIT")
      <4>1. j \in 1..n /\ Joins(lg, j, u)
        BY <3>1, <2>2, <1>2, <1>3, <1>4
      <4>2. \A k \in j..n : ~Leaves(lg, k, u)
        BY <4>1, <3>1, <1>3, <1>4
      <4>3. ~Leaves(lg2, m, u)
        BY <4>1, <3>1, <1>4
      <4> QED
        BY <4>1, <4>2, <4>3, <1>1, <1>2, <1>4
    <3>2. ASSUME u \in Queued(lg, c, n), ~(u = t /\ type = "ZONE_EXIT")
          PROVE  u \in Queued(lg2, c, m)
      <4>1. PICK j \in 1..n : Joins(lg, j, u) /\ \A k \in j..n : ~Leaves(lg, k, u)
        BY <3>2, <1>1
      <4>2. j \in 1..m /\ Joins(lg2, j, u)
        BY <4>1, <1>3, <1>4
      <4>3. \A k \in j..m : ~Leaves(lg2, k, u)
        BY <4>1, <3>2, <1>2, <1>3, <1>4
      <4> QED
        BY <4>2, <4>3, <1>1
    <3> QED
      BY <3>1, <3>2, <2>2, <1>1
  <2> QED
    BY <2>1, <2>2
<1> QED
  BY <1>1, <1>5

\* Nobody is in the queue, and nothing has been reported.
LEMMA DepthInit == Init => DepthInv
<1> SUFFICES ASSUME Init PROVE DepthInv
  OBVIOUS
<1>1. log = <<>> /\ outbox = <<>> /\ occupants = {}
  BY DEF Init
<1>2. Queued(log, camera, Len(log)) = {}
  BY <1>1 DEF Queued
<1>3. Joining = {}
  BY <1>1 DEF Joining
<1> QED
  BY <1>1, <1>2, <1>3, QueueInit DEF DepthInv, QueueDepthIsCount

\* Without an emission nobody joins or leaves.
LEMMA DepthOutsideEmit ==
  ASSUME DepthInv, outbox = <<>>, UNCHANGED <<camera, occupants, log>>,
         \A i \in 1..Len(outbox') : outbox'[i].type # "BILLING_QUEUE_JOIN",
         outbox' # <<>> => Len(outbox') >= 1 /\ Len(outbox') \in Nat,
         QueueInv'
  PROVE  DepthInv'
<1>1. Joining = {}
  BY DEF Joining
<1>2. Joining' = {}
  <2>1. outbox' # <<>> => outbox'[1].type # "BILLING_QUEUE_JOIN"
    OBVIOUS
  <2> QED
    BY <2>1 DEF Joining
<1>3. occupants' = Queued(log, camera, Len(log))' \cup Joining'
  BY <1>1, <1>2 DEF DepthInv
<1>4. QueueDepthIsCount'
  BY DEF DepthInv, QueueDepthIsCount, InQueue
<1>5. \A i \in 2..Len(outbox') : outbox'[i].type # "BILLING_QUEUE_JOIN"
  OBVIOUS
<1> QED
  BY <1>2, <1>3, <1>4, <1>5 DEF DepthInv

\* An emission reports the joiner whose place was counted, or changes the queue
\* and the log alike.
LEMMA DepthOfEmit ==
  ASSUME DepthInv, Emit, QueueInv'
  PROVE  DepthInv'
<1> DEFINE e == outbox[1]
           t == outbox[1].track
           n == Len(log)
           m == Len(log')
           Q == Queued(log, camera, n)
           Q2 == Queued(log', camera, m)
<1>1. /\ TypeInv /\ ZoneInv /\ QueueDepthIsCount
      /\ \A i \in 1..n : log[i].camera <= camera
      /\ \A i \in 2..Len(outbox) : outbox[i].type # "BILLING_QUEUE_JOIN"
      /\ Joining # {} => e.depth = Cardinality(occupants)
      /\ occupants = Q \cup Joining
  BY DEF DepthInv, QueueInv
<1>2. /\ outbox # <<>> /\ e \in TrackEvents /\ t \in Tracks /\ camera' = camera /\ camera \in Int
      /\ Len(outbox) \in Nat /\ Len(outbox) >= 1
      /\ Billing(Head(outbox), Tail(outbox))
  BY <1>1, EmitTakesHead DEF input, TrackEvents, TypeInv
<1>3. PICK r :
        /\ n \in Nat /\ m \in {n + 1, n + 2}
        /\ \A i \in 1..n : log'[i] = log[i]
        /\ \A i \in (n + 1)..m :
             /\ log'[i].camera = camera /\ log'[i].track = t
             /\ log'[i].type = (IF i = m THEN e.type ELSE "REENTRY")
             /\ i = m => log'[i].depth = e.depth
  BY <1>1, EmitAppends
<1>4. Joining = IF e.type = "BILLING_QUEUE_JOIN" THEN {t} ELSE {}
  BY <1>2 DEF Joining
<1> HIDE DEF n, m
<1>5. /\ e.type = "BILLING_QUEUE_JOIN" => Q2 = Q \cup {t}
      /\ e.type = "ZONE_EXIT" => Q2 = Q \ {t}
      /\ e.type \notin {"BILLING_QUEUE_JOIN", "ZONE_EXIT"} => Q2 = Q
  <2> DEFINE lg == log
             lg2 == log'
             c == camera
             type == e.type
  <2>1. Extends(lg2, m, lg, n, c, t, type)
    BY <1>3 DEF Extends
  <2>2. t \in Tracks
    BY <1>2
  <2> HIDE DEF lg, lg2, c, type, t
  <2>3. /\ type = "BILLING_QUEUE_JOIN" => Queued(lg2, c, m) = Queued(lg, c, n) \cup {t}
        /\ type = "ZONE_EXIT" => Queued(lg2, c, m) = Queued(lg, c, n) \ {t}
        /\ type \notin {"BILLING_QUEUE_JOIN", "ZONE_EXIT"} => Queued(lg2, c, m) = Queued(lg, c, n)
    BY <2>1, <2>2, QueuedOfReport
  <2> QED
    BY <2>3 DEF lg, lg2, c, type
<1>6. QueueDepthIsCount'
  <2> SUFFICES ASSUME NEW i \in 1..m, log'[i].type = "BILLING_QUEUE_JOIN"
               PROVE  log'[i].depth = Cardinality(Queued(log', log'[i].camera, i))
    BY DEF QueueDepthIsCount, InQueue, Queued, m
  <2>1. CASE i \in 1..n
    <3>1. log'[i] = log[i] /\ \A k \in 1..i : log'[k] = log[k]
      BY <2>1, <1>3
    <3>2. Queued(log', log[i].camera, i) = Queued(log, log[i].camera, i)
      <4> DEFINE lg2 == log'
                 c == log[i].camera
      <4>1. i \in Nat /\ \A k \in 1..i : lg2[k] = log[k]
        BY <3>1
      <4> HIDE DEF lg2, c
      <4>2. Queued(lg2, c, i) = Queued(log, c, i)
        BY <4>1, QueuedOfPrefix
      <4> QED
        BY <4>2 DEF lg2, c
    <3>3. log[i].depth = Cardinality(Queued(log, log[i].camera, i))
      <4>1. log[i].depth = Cardinality(InQueue(i))
        BY <2>1, <3>1, <1>1 DEF QueueDepthIsCount, n
      <4>2. InQueue(i) = Queued(log, log[i].camera, i)
        BY DEF InQueue, Queued
      <4> QED
        BY <4>1, <4>2
    <3> QED
      BY <3>1, <3>2, <3>3
  <2>2. CASE i \notin 1..n
    <3>1. i \in (n + 1)..m
      BY <2>2, <1>3
    <3>2. i = m /\ e.type = "BILLING_QUEUE_JOIN" /\ log'[i].depth = e.depth /\ log'[i].camera = camera
      BY <3>1, <1>3
    <3>3. Q2 = occupants /\ e.depth = Cardinality(occupants)
      BY <3>2, <1>1, <1>4, <1>5
    <3> QED
      BY <3>2, <3>3
  <2> QED
    BY <2>1, <2>2
<1>7. \A i \in 1..m : log'[i].camera <= camera'
  <2> TAKE i \in 1..m
  <2>1. i \in 1..n \/ i \in (n + 1)..m
    BY <1>3
  <2> QED
    BY <2>1, <1>1, <1>2, <1>3
<1> DEFINE Rest == /\ \A i \in 2..Len(outbox') : outbox'[i].type # "BILLING_QUEUE_JOIN"
                   /\ Joining' # {} => outbox'[1].depth = Cardinality(occupants')
                   /\ occupants' = Q2 \cup Joining'
<1>8. ASSUME Len(outbox') = Len(outbox) - 1, \A i \in 1..Len(outbox') : outbox'[i] = outbox[i + 1]
      PROVE  /\ \A i \in 2..Len(outbox') : outbox'[i].type # "BILLING_QUEUE_JOIN"
             /\ Joining' = {}
  <2>1. \A i \in 1..Len(outbox') : outbox'[i].type # "BILLING_QUEUE_JOIN"
    BY <1>1, <1>2, <1>8
  <2>2. outbox' \in Seq(TrackEvents)
    BY <1>1, <1>2, BillingKeeps
  <2>3. outbox' # <<>> => 1 \in 1..Len(outbox')
    BY <2>2
  <2>4. Joining' = {}
    BY <2>1, <2>3 DEF Joining
  <2> QED
    BY <2>1, <2>4
<1>9. ASSUME ~Cameras[camera].checkout \/ e.type # "ZONE_EXIT",
             Len(outbox') = Len(outbox) - 1,
             \A i \in 1..Len(outbox') : outbox'[i] = outbox[i + 1],
             occupants' = occupants
      PROVE  Rest
  <2>1. occupants = Q2
    <3>1. CASE e.type = "BILLING_QUEUE_JOIN"
      BY <3>1, <1>1, <1>4, <1>5
    <3>2. CASE e.type = "ZONE_EXIT"
      <4>1. occupants = {} /\ Q = {}
        BY <3>2, <1>1, <1>9 DEF ZoneInv
      <4> QED
        BY <4>1, <3>2, <1>5
    <3>3. CASE e.type \notin {"BILLING_QUEUE_JOIN", "ZONE_EXIT"}
      <4>1. Joining = {}
        BY <3>3, <1>4
      <4> QED
        BY <4>1, <3>3, <1>1, <1>5
    <3> QED
      BY <3>1, <3>2, <3>3
  <2> HIDE DEF Q2
  <2> QED
    BY <2>1, <1>8, <1>9
<1>10. ASSUME e.type = "ZONE_ENTER",
              occupants' = occupants \cup {t},
              Len(outbox') = Len(outbox),
              outbox'[1] = TrackEvent(t, "BILLING_QUEUE_JOIN", e.ts, Cardinality(occupants')),
              \A i \in 2..Len(outbox') : outbox'[i] = outbox[i]
       PROVE  Rest
  <2>1. occupants = Q2
    <3>1. Joining = {} /\ Q2 = Q
      BY <1>10, <1>4, <1>5
    <3> QED
      BY <3>1, <1>1
  <2>2. /\ outbox'[1].type = "BILLING_QUEUE_JOIN" /\ outbox'[1].track = t
        /\ outbox'[1].depth = Cardinality(occupants')
    <3> DEFINE k == Cardinality(occupants')
    <3>1. outbox'[1] = TrackEvent(t, "BILLING_QUEUE_JOIN", e.ts, k)
      BY <1>10
    <3> HIDE DEF k
    <3>2. /\ outbox'[1].type = "BILLING_QUEUE_JOIN" /\ outbox'[1].track = t /\ outbox'[1].depth = k
      BY <3>1 DEF TrackEvent
    <3> QED
      BY <3>2 DEF k
  <2>3. outbox' # <<>>
    BY <1>2, <1>10
  <2>4. Joining' = {t}
    BY <2>2, <2>3, <1>2 DEF Joining
  <2>5. \A i \in 2..Len(outbox') : outbox'[i].type # "BILLING_QUEUE_JOIN"
    BY <1>1, <1>10
  <2>6. occupants' = Q2 \cup Joining'
    BY <2>1, <2>4, <1>10
  <2> HIDE DEF Q2
  <2> QED
    BY <2>2, <2>5, <2>6
<1>11. ASSUME e.type = "ZONE_EXIT",
              occupants' = occupants \ {t},
              Len(outbox') = Len(outbox) - 1,
              \A i \in 1..Len(outbox') : outbox'[i] = outbox[i + 1]
       PROVE  Rest
  <2>1. occupants' = Q2
    <3>1. Joining = {} /\ Q2 = Q \ {t}
      BY <1>11, <1>4, <1>5
    <3> QED
      BY <3>1, <1>1, <1>11
  <2> HIDE DEF Q2
  <2> QED
    BY <2>1, <1>8, <1>11
<1>12. Rest
  <2> HIDE DEF Rest
  <2> QED
    BY <1>1, <1>2, <1>9, <1>10, <1>11, BillingKeeps
<1> QED
  BY <1>2, <1>6, <1>7, <1>12 DEF DepthInv, m

\* Every step keeps the depth and the count together.
LEMMA DepthStep == DepthInv /\ [Next]_vars => DepthInv'
<1> SUFFICES ASSUME DepthInv, [Next]_vars PROVE DepthInv'
  OBVIOUS
<1>1. QueueInv /\ TypeInv /\ QueueInv'
  BY QueueStep DEF DepthInv, QueueInv
<1>2. ASSUME NEW t \in Tracks, NEW side \in {-1, 0, 1}, Detect(t, side) PROVE DepthInv'
  <2>1. /\ outbox = <<>> /\ UNCHANGED <<camera, occupants, log>>
    BY <1>1, <1>2, DetectKeeps DEF Detect
  <2>2. PICK enters : Reports(outbox', t, enters)
    BY <1>1, <1>2, DetectKeeps
  <2>3. /\ \A i \in 1..Len(outbox') : outbox'[i].type # "BILLING_QUEUE_JOIN"
        /\ outbox' \in Seq(TrackEvents)
    BY <2>2 DEF Reports
  <2> QED
    BY <2>1, <2>3, <1>1, DepthOutsideEmit
<1>3. ASSUME NEW gone \in SUBSET DOMAIN zone, End(gone), outbox = <<>>,
             UNCHANGED <<camera, occupants, log>>
      PROVE  DepthInv'
  <2>1. /\ \A i \in 1..Len(outbox') : outbox'[i].type # "BILLING_QUEUE_JOIN"
        /\ outbox' \in Seq(TrackEvents)
    BY <1>1, <1>3, EndKeeps
  <2> QED
    BY <2>1, <1>1, <1>3, DepthOutsideEmit
<1>4. CASE Sweep
  <2>1. \E gone \in SUBSET DOMAIN zone : End(gone)
    BY <1>4 DEF Sweep
  <2> QED
    BY <2>1, <1>3, <1>4 DEF Sweep
<1>5. CASE Flush
  BY <1>3, <1>5 DEF Flush
<1>6. CASE NextFrame
  BY <1>1, <1>6, DepthOutsideEmit DEF NextFrame
<1>7. CASE NextCamera
  <2>1. outbox' = <<>> /\ occupants' = {} /\ log' = log /\ camera' \in (camera + 1)..Len(Cameras)
    BY <1>7 DEF NextCamera, OpenCamera
  <2>2. camera \in Int
    BY <1>1 DEF TypeInv
  <2>3. \A i \in 1..Len(log) : log[i].camera < camera'
    <3> TAKE i \in 1..Len(log)
    <3>1. log[i] \in LogEvents /\ log[i].camera <= camera
      BY <1>1 DEF TypeInv, DepthInv
    <3> QED
      BY <3>1, <2>1, <2>2 DEF LogEvents
  <2>4. \A i \in 1..Len(log) : log[i].camera \in Int
    <3> TAKE i \in 1..Len(log)
    <3>1. log[i] \in LogEvents
      BY <1>1 DEF TypeInv
    <3> QED
      BY <3>1 DEF LogEvents
  <2>5. Queued(log, camera', Len(log)) = {}
    BY <2>1, <2>2, <2>3, <2>4 DEF Queued
  <2>6. Joining' = {}
    BY <2>1 DEF Joining
  <2>7. QueueDepthIsCount'
    BY <2>1 DEF DepthInv, QueueDepthIsCount, InQueue
  <2>8. \A i \in 1..Len(log) : log[i].camera <= camera'
    BY <2>1, <2>2, <2>3, <2>4
  <2>9. occupants' = Queued(log', camera', Len(log')) \cup Joining'
    BY <2>1, <2>5, <2>6
  <2> QED
    BY <2>1, <2>6, <2>7, <2>8, <2>9, <1>1 DEF DepthInv
<1>8. CASE Emit
  BY <1>1, <1>8, DepthOfEmit
<1>9. CASE UNCHANGED vars
  <2>1. UNCHANGED <<camera, occupants, outbox, log>>
    BY <1>9 DEF vars, input
  <2> QED
    BY <2>1, <1>1 DEF DepthInv, QueueDepthIsCount, InQueue, Queued, Joining
<1> QED
  BY <1>2, <1>4, <1>5, <1>6, <1>7, <1>8, <1>9 DEF Next

-------------------------------------------------------------------------------
(* The balance of the visits *)

\* The reports of track t on camera c among the first n of the log.
ReportedIn(lg, n, c, t, type) ==
  {i \in 1..n : lg[i].camera = c /\ lg[i].track = t /\ lg[i].type = type}

\* A report, behind a re-entry or not, counts once, for its camera, track and type.
LEMMA CountOfReport ==
  ASSUME NEW lg, NEW lg2, NEW n, NEW m, NEW c, NEW t, NEW type,
         Extends(lg2, m, lg, n, c, t, type), NEW c2, NEW u, NEW type2, type2 # "REENTRY"
  PROVE  /\ Cardinality(ReportedIn(lg, n, c2, u, type2)) \in Nat
         /\ Cardinality(ReportedIn(lg2, m, c2, u, type2))
              = Cardinality(ReportedIn(lg, n, c2, u, type2))
                  + (IF c2 = c /\ u = t /\ type2 = type THEN 1 ELSE 0)
<1> DEFINE R == ReportedIn(lg, n, c2, u, type2)
           R2 == ReportedIn(lg2, m, c2, u, type2)
           counts == c2 = c /\ u = t /\ type2 = type
<1>1. /\ n \in Nat /\ m \in {n + 1, n + 2}
      /\ \A i \in 1..n : lg2[i] = lg[i]
      /\ \A i \in (n + 1)..m :
           /\ lg2[i].camera = c /\ lg2[i].track = t
           /\ lg2[i].type = (IF i = m THEN type ELSE "REENTRY")
  BY DEF Extends
<1>2. IsFiniteSet(1..n) /\ R \in SUBSET (1..n)
  BY <1>1, FS_Interval DEF ReportedIn
<1>3. IsFiniteSet(R) /\ Cardinality(R) \in Nat
  BY <1>2, FS_Subset, FS_CardinalityType
<1>4. \A i \in 1..m : i \in 1..n \/ i \in (n + 1)..m
  BY <1>1
<1>5. \A i \in (n + 1)..m : i \in R2 <=> i = m /\ counts
  <2> TAKE i \in (n + 1)..m
  <2>1. i \in 1..m
    BY <1>1
  <2>2. i # m => lg2[i].type # type2
    BY <1>1
  <2> QED
    BY <2>1, <2>2, <1>1 DEF ReportedIn
<1>6. \A i \in 1..n : i \in R2 <=> i \in R
  BY <1>1 DEF ReportedIn
<1>7. R2 \subseteq 1..m /\ R \subseteq 1..n /\ m \in (n + 1)..m /\ m \notin 1..n
  BY <1>1 DEF ReportedIn
<1> HIDE DEF R, R2
<1>8. CASE counts
  <2>1. R2 = R \cup {m} /\ m \notin R
    BY <1>8, <1>4, <1>5, <1>6, <1>7
  <2>2. Cardinality(R2) = Cardinality(R) + 1
    BY <2>1, <1>3, FS_AddElement
  <2> QED
    BY <2>2, <1>3, <1>8 DEF R, R2
<1>9. CASE ~counts
  <2>1. R2 = R
    BY <1>9, <1>4, <1>5, <1>6, <1>7
  <2> QED
    BY <2>1, <1>3, <1>9 DEF R, R2
<1> QED
  BY <1>8, <1>9

\* The event that is emitted is no longer pending, and the other entries and exits are.
LEMMA PendingOfEmit ==
  ASSUME TypeInv, PendingOnce, Emit
  PROVE  /\ PendingOnce'
         /\ \A u \in Tracks, type \in {"ZONE_ENTER", "ZONE_EXIT"} :
              Pending(u, type)' = Pending(u, type)
                - (IF u = outbox[1].track /\ type = outbox[1].type THEN 1 ELSE 0)
<1> DEFINE e == outbox[1]
           Visit(i) == outbox[i].type \in {"ZONE_ENTER", "ZONE_EXIT"}
           Visit2(i) == outbox'[i].type \in {"ZONE_ENTER", "ZONE_EXIT"}
<1>1. Len(outbox) \in Nat /\ Len(outbox) >= 1 /\ outbox # <<>> /\ Billing(Head(outbox), Tail(outbox))
  BY EmitTakesHead
<1>2. /\ outbox' \in Seq(TrackEvents)
      /\ \/ /\ Len(outbox') = Len(outbox) - 1
            /\ \A i \in 1..Len(outbox') : outbox'[i] = outbox[i + 1]
         \/ /\ Len(outbox') = Len(outbox)
            /\ outbox'[1].type = "BILLING_QUEUE_JOIN"
            /\ \A i \in 2..Len(outbox') : outbox'[i] = outbox[i]
  BY <1>1, BillingKeeps DEF TrackEvent
<1>3. \A i \in 1..Len(outbox') : Visit2(i) =>
        \E j \in 2..Len(outbox) : outbox[j] = outbox'[i] /\ (j = i \/ j = i + 1)
  <2>1. CASE /\ Len(outbox') = Len(outbox) - 1
             /\ \A i \in 1..Len(outbox') : outbox'[i] = outbox[i + 1]
    <3> TAKE i \in 1..Len(outbox')
    <3>1. i + 1 \in 2..Len(outbox) /\ outbox'[i] = outbox[i + 1]
      BY <2>1, <1>1
    <3> QED
      BY <3>1
  <2>2. CASE /\ Len(outbox') = Len(outbox)
             /\ outbox'[1].type = "BILLING_QUEUE_JOIN"
             /\ \A i \in 2..Len(outbox') : outbox'[i] = outbox[i]
    <3> TAKE i \in 1..Len(outbox')
    <3>1. i = 1 \/ i \in 2..Len(outbox)
      BY <2>2, <1>1
    <3> QED
      BY <3>1, <2>2
  <2> QED
    BY <2>1, <2>2, <1>2
<1>4. \A j \in 2..Len(outbox) : \E i \in 1..Len(outbox') : outbox'[i] = outbox[j]
  <2>1. CASE /\ Len(outbox') = Len(outbox) - 1
             /\ \A i \in 1..Len(outbox') : outbox'[i] = outbox[i + 1]
    <3> TAKE j \in 2..Len(outbox)
    <3>1. j - 1 \in 1..Len(outbox') /\ (j - 1) + 1 = j
      BY <2>1, <1>1
    <3> QED
      BY <3>1, <2>1
  <2>2. CASE /\ Len(outbox') = Len(outbox)
             /\ \A i \in 2..Len(outbox') : outbox'[i] = outbox[i]
    BY <2>2, <1>1
  <2> QED
    BY <2>1, <2>2, <1>2
<1>5. PendingOnce'
  <2> SUFFICES ASSUME NEW i \in 1..Len(outbox'), NEW j \in 1..Len(outbox'), Visit2(i),
                      outbox'[i].type = outbox'[j].type, outbox'[i].track = outbox'[j].track
               PROVE  i = j
    BY DEF PendingOnce
  <2>1. CASE /\ Len(outbox') = Len(outbox) - 1
             /\ \A k \in 1..Len(outbox') : outbox'[k] = outbox[k + 1]
    <3>1. i + 1 \in 1..Len(outbox) /\ j + 1 \in 1..Len(outbox)
      BY <2>1, <1>1
    <3>2. i + 1 = j + 1
      BY <3>1, <2>1 DEF PendingOnce
    <3> QED
      BY <3>2
  <2>2. CASE /\ Len(outbox') = Len(outbox)
             /\ outbox'[1].type = "BILLING_QUEUE_JOIN"
             /\ \A k \in 2..Len(outbox') : outbox'[k] = outbox[k]
    <3>1. i \in 2..Len(outbox) /\ j \in 2..Len(outbox)
      BY <2>2, <1>1
    <3> QED
      BY <3>1, <2>2 DEF PendingOnce
  <2> QED
    BY <2>1, <2>2, <1>2
<1>6. ASSUME NEW u \in Tracks, NEW type \in {"ZONE_ENTER", "ZONE_EXIT"}
      PROVE  Pending(u, type)' = Pending(u, type) - (IF u = e.track /\ type = e.type THEN 1 ELSE 0)
  <2> DEFINE P == \E i \in 1..Len(outbox) : outbox[i].track = u /\ outbox[i].type = type
             P2 == \E i \in 1..Len(outbox') : outbox'[i].track = u /\ outbox'[i].type = type
  <2>1. CASE u = e.track /\ type = e.type
    <3>1. P
      BY <2>1, <1>1
    <3>2. ASSUME NEW i \in 1..Len(outbox'), outbox'[i].track = u, outbox'[i].type = type PROVE FALSE
      <4>1. PICK j \in 2..Len(outbox) : outbox[j] = outbox'[i]
        BY <3>2, <1>3
      <4>2. j \in 1..Len(outbox) /\ 1 \in 1..Len(outbox) /\ j # 1
        BY <1>1
      <4> QED
        BY <4>1, <4>2, <3>2, <2>1 DEF PendingOnce
    <3> QED
      BY <3>1, <3>2, <2>1 DEF Pending
  <2>2. CASE ~(u = e.track /\ type = e.type)
    <3>1. P => P2
      <4> SUFFICES ASSUME NEW i \in 1..Len(outbox), outbox[i].track = u, outbox[i].type = type PROVE P2
        OBVIOUS
      <4>1. i \in 2..Len(outbox)
        BY <2>2
      <4> QED
        BY <4>1, <1>4
    <3>2. P2 => P
      <4> SUFFICES ASSUME NEW i \in 1..Len(outbox'), outbox'[i].track = u, outbox'[i].type = type PROVE P
        OBVIOUS
      <4>1. PICK j \in 2..Len(outbox) : outbox[j] = outbox'[i]
        BY <1>3
      <4> QED
        BY <4>1
    <3>3. Pending(u, type)' = Pending(u, type) /\ Pending(u, type) \in Nat
      BY <3>1, <3>2 DEF Pending
    <3> QED
      BY <3>3, <2>2
  <2> QED
    BY <2>1, <2>2
<1> QED
  BY <1>5, <1>6

\* Track t is balanced on the camera that is processed, and was on the others.
Balanced(t) ==
  /\ Logged(camera, t, "ZONE_ENTER") + Pending(t, "ZONE_ENTER")
       = Logged(camera, t, "ZONE_EXIT") + Pending(t, "ZONE_EXIT") + Open(t)
  /\ \A c \in 1..Len(Cameras) \ {camera} :
       Logged(c, t, "ZONE_ENTER") = Logged(c, t, "ZONE_EXIT")

\* The reports of a track are finitely many.
LEMMA LoggedIsCount ==
  ASSUME TypeInv, NEW c, NEW t, NEW type
  PROVE  Logged(c, t, type) \in Nat
<1>1. Len(log) \in Nat
  BY DEF TypeInv
<1>2. IsFiniteSet(1..Len(log)) /\ EventsOf(c, t, type) \in SUBSET (1..Len(log))
  BY <1>1, FS_Interval DEF EventsOf
<1>3. IsFiniteSet(EventsOf(c, t, type))
  BY <1>2, FS_Subset
<1> QED
  BY <1>3, FS_CardinalityType DEF Logged

\* Nothing was reported and nobody is in the zone.
LEMMA BalanceInit == Init => BalanceInv
<1> SUFFICES ASSUME Init PROVE BalanceInv
  OBVIOUS
<1>1. log = <<>> /\ outbox = <<>> /\ zone = <<>> /\ phase = "frame"
  BY DEF Init
<1>2. \A c, t, type : Logged(c, t, type) = 0
  <2> TAKE c, t, type
  <2>1. EventsOf(c, t, type) = {}
    BY <1>1 DEF EventsOf
  <2> QED
    BY <2>1, FS_EmptySet DEF Logged
<1>3. \A t, type : Pending(t, type) = 0 /\ Open(t) = 0
  BY <1>1 DEF Pending, Open
<1>4. PendingOnce
  BY <1>1 DEF PendingOnce
<1> QED
  BY <1>1, <1>2, <1>3, <1>4, QueueInit DEF BalanceInv

\* Without an emission a visit begins with its entry pending, and ends with its
\* exit pending.
LEMMA BalanceOutsideEmit ==
  ASSUME BalanceInv, outbox = <<>>, UNCHANGED <<camera, log>>, NEW t \in Tracks,
         Open(t)' + Pending(t, "ZONE_EXIT")' = Open(t) + Pending(t, "ZONE_ENTER")'
  PROVE  Balanced(t)'
<1>1. Balanced(t) /\ TypeInv
  BY DEF BalanceInv, Balanced, QueueInv
<1>2. \A c, type : Logged(c, t, type)' = Logged(c, t, type)
  BY DEF Logged, EventsOf
<1>3. Pending(t, "ZONE_ENTER") = 0 /\ Pending(t, "ZONE_EXIT") = 0
  BY DEF Pending
<1>4. /\ Logged(camera, t, "ZONE_ENTER") \in Nat /\ Logged(camera, t, "ZONE_EXIT") \in Nat
  BY <1>1, LoggedIsCount
<1>5. /\ Open(t) \in Nat /\ Open(t)' \in Nat
      /\ Pending(t, "ZONE_ENTER")' \in Nat /\ Pending(t, "ZONE_EXIT")' \in Nat
  BY DEF Open, Pending
<1>6. /\ Logged(camera, t, "ZONE_ENTER") = Logged(camera, t, "ZONE_EXIT") + Open(t)
      /\ \A c \in 1..Len(Cameras) \ {camera} :
           Logged(c, t, "ZONE_ENTER") = Logged(c, t, "ZONE_EXIT")
  BY <1>1, <1>3, <1>4, <1>5 DEF Balanced
<1>7. camera' = camera
  OBVIOUS
<1>8. /\ Logged(camera, t, "ZONE_ENTER")' = Logged(camera, t, "ZONE_ENTER")
      /\ Logged(camera, t, "ZONE_EXIT")' = Logged(camera, t, "ZONE_EXIT")
  BY <1>2
<1> QED
  BY <1>2, <1>4, <1>5, <1>6, <1>7, <1>8 DEF Balanced

\* A report that is emitted is counted in the log instead of the outbox.
LEMMA BalanceOfEmit ==
  ASSUME BalanceInv, Emit, NEW t \in Tracks
  PROVE  Balanced(t)'
<1> DEFINE e == outbox[1]
           One(type) == IF t = e.track /\ type = e.type THEN 1 ELSE 0
<1>1. Balanced(t) /\ TypeInv /\ PendingOnce
  BY DEF BalanceInv, Balanced, QueueInv
<1>2. camera' = camera /\ zone' = zone
  BY DEF Emit, input
<1>3. Extends(log', Len(log'), log, Len(log), camera, e.track, e.type)
  BY <1>1, EmitAppends DEF Extends
<1>4. ASSUME NEW c, NEW type \in {"ZONE_ENTER", "ZONE_EXIT"}
      PROVE  Logged(c, t, type)' = Logged(c, t, type) + (IF c = camera THEN One(type) ELSE 0)
  <2> DEFINE lg == log
             lg2 == log'
             n == Len(log)
             m == Len(log')
             own == camera
             u == e.track
             kind == e.type
  <2>1. Extends(lg2, m, lg, n, own, u, kind)
    BY <1>3
  <2> HIDE DEF lg, lg2, n, m, own, u, kind
  <2>2. Cardinality(ReportedIn(lg2, m, c, t, type))
          = Cardinality(ReportedIn(lg, n, c, t, type))
              + (IF c = own /\ t = u /\ type = kind THEN 1 ELSE 0)
    BY <2>1, CountOfReport
  <2>3. /\ Logged(c, t, type)' = Cardinality(ReportedIn(lg2, m, c, t, type))
        /\ Logged(c, t, type) = Cardinality(ReportedIn(lg, n, c, t, type))
    BY DEF Logged, EventsOf, ReportedIn, lg, lg2, n, m
  <2>4. (IF c = own /\ t = u /\ type = kind THEN 1 ELSE 0) = IF c = camera THEN One(type) ELSE 0
    BY DEF own, u, kind
  <2> QED
    BY <2>2, <2>3, <2>4
<1>5. \A type \in {"ZONE_ENTER", "ZONE_EXIT"} : Pending(t, type)' = Pending(t, type) - One(type)
  BY <1>1, PendingOfEmit
<1>6. Open(t)' = Open(t) /\ Open(t) \in Nat
  BY <1>2 DEF Open
<1>7. \A c, type : Logged(c, t, type) \in Nat
  BY <1>1, LoggedIsCount
<1>8. \A type : Pending(t, type) \in Nat /\ One(type) \in Nat
  BY DEF Pending
<1> HIDE DEF One
<1>9. /\ Logged(camera, t, "ZONE_ENTER")' = Logged(camera, t, "ZONE_ENTER") + One("ZONE_ENTER")
      /\ Logged(camera, t, "ZONE_EXIT")' = Logged(camera, t, "ZONE_EXIT") + One("ZONE_EXIT")
  <2> DEFINE c == camera
  <2>1. c' = camera
    BY <1>2
  <2>2. /\ Logged(c, t, "ZONE_ENTER")' = Logged(c, t, "ZONE_ENTER") + One("ZONE_ENTER")
        /\ Logged(c, t, "ZONE_EXIT")' = Logged(c, t, "ZONE_EXIT") + One("ZONE_EXIT")
    BY <1>2, <1>4
  <2> QED
    BY <2>2
<1>10. \A c \in 1..Len(Cameras) \ {camera} :
         /\ Logged(c, t, "ZONE_ENTER")' = Logged(c, t, "ZONE_ENTER")
         /\ Logged(c, t, "ZONE_EXIT")' = Logged(c, t, "ZONE_EXIT")
  BY <1>4, <1>7
<1>11. /\ Logged(camera, t, "ZONE_ENTER")' + Pending(t, "ZONE_ENTER")'
            = Logged(camera, t, "ZONE_EXIT")' + Pending(t, "ZONE_EXIT")' + Open(t)'
  BY <1>1, <1>5, <1>6, <1>7, <1>8, <1>9 DEF Balanced
<1>12. \A c \in 1..Len(Cameras) \ {camera'} :
         Logged(c, t, "ZONE_ENTER")' = Logged(c, t, "ZONE_EXIT")'
  BY <1>1, <1>2, <1>10 DEF Balanced
<1> QED
  BY <1>11, <1>12 DEF Balanced

\* Every step keeps the balance of every track.
LEMMA BalanceStep == BalanceInv /\ [Next]_vars => BalanceInv'
<1> SUFFICES ASSUME BalanceInv, [Next]_vars PROVE BalanceInv'
  OBVIOUS
<1>1. /\ QueueInv /\ TypeInv /\ QueueInv' /\ PendingOnce /\ \A t \in Tracks : Balanced(t)
      /\ phase = "flushed" => DOMAIN zone = {}
  BY QueueStep DEF BalanceInv, QueueInv, Balanced
<1> DEFINE Kept == /\ PendingOnce' /\ \A t \in Tracks : Balanced(t)'
                   /\ phase' = "flushed" => DOMAIN zone' = {}
<1> SUFFICES Kept
  BY <1>1 DEF BalanceInv, Balanced
<1>2. ASSUME NEW t \in Tracks, NEW side \in {-1, 0, 1}, Detect(t, side) PROVE Kept
  <2>1. /\ outbox = <<>> /\ phase = "frame" /\ UNCHANGED <<camera, log, phase>>
        /\ \A u \in Tracks : u # t => Open(u)' = Open(u)
    BY <1>1, <1>2, DetectKeeps DEF Detect
  <2>2. PICK enters \in BOOLEAN :
          /\ Reports(outbox', t, enters)
          /\ Open(t)' = IF enters THEN 1 ELSE Open(t)
          /\ enters => Open(t) = 0
    BY <1>1, <1>2, DetectKeeps
  <2>3. /\ \A i \in 1..Len(outbox') :
             /\ outbox'[i].track = t /\ outbox'[i].type # "ZONE_EXIT"
             /\ outbox'[i].type = "ZONE_ENTER" => i = 1
        /\ enters <=> outbox' # <<>> /\ outbox'[1].type = "ZONE_ENTER"
        /\ outbox' # <<>> => 1 \in 1..Len(outbox')
    BY <2>2 DEF Reports
  <2>4. PendingOnce'
    BY <2>3 DEF PendingOnce
  <2>5. ASSUME NEW u \in Tracks
        PROVE  /\ Pending(u, "ZONE_EXIT")' = 0
               /\ Pending(u, "ZONE_ENTER")' = IF u = t /\ enters THEN 1 ELSE 0
    <3>1. Pending(u, "ZONE_EXIT")' = 0
      BY <2>3 DEF Pending
    <3>2. CASE u = t /\ enters
      <4>1. 1 \in 1..Len(outbox') /\ outbox'[1].track = u /\ outbox'[1].type = "ZONE_ENTER"
        BY <3>2, <2>3
      <4> QED
        BY <4>1, <3>1, <3>2 DEF Pending
    <3>3. CASE ~(u = t /\ enters)
      <4>1. ~\E i \in 1..Len(outbox') : outbox'[i].track = u /\ outbox'[i].type = "ZONE_ENTER"
        <5> SUFFICES ASSUME NEW i \in 1..Len(outbox'), outbox'[i].track = u,
                            outbox'[i].type = "ZONE_ENTER"
                     PROVE  u = t /\ enters
          BY <3>3
        <5>1. u = t /\ i = 1
          BY <2>3
        <5>2. Len(outbox') # 0
          BY <5>1
        <5>3. outbox' # <<>>
          BY <5>2
        <5> QED
          BY <5>1, <5>3, <2>3
      <4>2. Pending(u, "ZONE_ENTER")' = 0
        BY <4>1 DEF Pending
      <4> QED
        BY <4>2, <3>1, <3>3
    <3> QED
      BY <3>2, <3>3
  <2>6. ASSUME NEW u \in Tracks
        PROVE  Open(u)' + Pending(u, "ZONE_EXIT")' = Open(u) + Pending(u, "ZONE_ENTER")'
    <3>1. Open(u) \in Nat /\ Open(u)' \in Nat
      BY DEF Open
    <3>2. CASE enters
      BY <3>1, <3>2, <2>1, <2>2, <2>5
    <3>3. CASE ~enters
      BY <3>1, <3>3, <2>1, <2>2, <2>5
    <3> QED
      BY <3>2, <3>3
  <2>7. \A u \in Tracks : Balanced(u)'
    BY <2>1, <2>6, BalanceOutsideEmit
  <2> QED
    BY <2>1, <2>4, <2>7
<1>3. ASSUME NEW gone \in SUBSET DOMAIN zone, End(gone), outbox = <<>>, UNCHANGED <<camera, log>>,
             phase' = "flushed" => gone = DOMAIN zone
      PROVE  Kept
  <2>1. /\ DOMAIN zone' = DOMAIN zone \ gone /\ \A u \in DOMAIN zone' : zone'[u] = zone[u]
        /\ \A i \in 1..Len(outbox') :
             /\ outbox'[i].type = "ZONE_EXIT"
             /\ outbox'[i].track \in gone /\ zone[outbox'[i].track].entered
        /\ \A i, j \in 1..Len(outbox') : outbox'[i].track = outbox'[j].track => i = j
        /\ \A u \in gone : zone[u].entered => \E i \in 1..Len(outbox') : outbox'[i].track = u
    BY <1>1, <1>3, EndKeeps
  <2>2. PendingOnce'
    BY <2>1 DEF PendingOnce
  <2>3. ASSUME NEW u \in Tracks
        PROVE  Open(u)' + Pending(u, "ZONE_EXIT")' = Open(u) + Pending(u, "ZONE_ENTER")'
    <3>1. Pending(u, "ZONE_ENTER")' = 0
      BY <2>1 DEF Pending
    <3>2. CASE u \in gone /\ zone[u].entered
      <4>1. Pending(u, "ZONE_EXIT")' = 1
        BY <3>2, <2>1 DEF Pending
      <4>2. Open(u) = 1 /\ Open(u)' = 0
        BY <3>2, <2>1 DEF Open
      <4> QED
        BY <3>1, <4>1, <4>2
    <3>3. CASE ~(u \in gone /\ zone[u].entered)
      <4>1. Pending(u, "ZONE_EXIT")' = 0
        BY <3>3, <2>1 DEF Pending
      <4>2. Open(u)' = Open(u) /\ Open(u) \in Nat
        BY <3>3, <2>1 DEF Open
      <4> QED
        BY <3>1, <4>1, <4>2
    <3> QED
      BY <3>2, <3>3
  <2>4. \A u \in Tracks : Balanced(u)'
    BY <2>3, <1>3, BalanceOutsideEmit
  <2> QED
    BY <2>1, <2>2, <2>4, <1>3
<1>4. CASE Sweep
  <2>1. \E gone \in SUBSET DOMAIN zone : End(gone)
    BY <1>4 DEF Sweep
  <2> QED
    BY <2>1, <1>3, <1>4 DEF Sweep
<1>5. CASE Flush
  BY <1>3, <1>5 DEF Flush
<1>6. CASE NextCamera
  <2>1. /\ outbox = <<>> /\ phase = "flushed" /\ outbox' = <<>> /\ zone' = <<>> /\ log' = log
        /\ phase' = "frame" /\ camera' \in (camera + 1)..Len(Cameras)
    BY <1>6 DEF NextCamera, OpenCamera
  <2>2. camera' \in 1..Len(Cameras) \ {camera} /\ camera \in 1..Len(Cameras)
    BY <2>1, <1>1, DetectorAssumption DEF TypeInv
  <2>3. PendingOnce'
    BY <2>1 DEF PendingOnce
  <2>4. ASSUME NEW t \in Tracks PROVE Balanced(t)'
    <3>1. /\ \A c, type : Logged(c, t, type)' = Logged(c, t, type)
          /\ \A c, type : Logged(c, t, type) \in Nat
      <4>1. \A c, type : Logged(c, t, type)' = Logged(c, t, type)
        BY <2>1 DEF Logged, EventsOf
      <4> QED
        BY <4>1, <1>1, LoggedIsCount
    <3>2. /\ Pending(t, "ZONE_ENTER") = 0 /\ Pending(t, "ZONE_EXIT") = 0 /\ Open(t) = 0
          /\ Pending(t, "ZONE_ENTER")' = 0 /\ Pending(t, "ZONE_EXIT")' = 0 /\ Open(t)' = 0
      BY <2>1, <1>1 DEF Pending, Open
    <3>3. \A c \in 1..Len(Cameras) : Logged(c, t, "ZONE_ENTER") = Logged(c, t, "ZONE_EXIT")
      BY <2>2, <3>1, <3>2, <1>1 DEF Balanced
    <3>4. /\ Logged(camera', t, "ZONE_ENTER") = Logged(camera', t, "ZONE_EXIT")
          /\ Logged(camera', t, "ZONE_ENTER") \in Nat
      BY <2>2, <3>1, <3>3
    <3>5. /\ Logged(camera, t, "ZONE_ENTER")' = Logged(camera', t, "ZONE_ENTER")
          /\ Logged(camera, t, "ZONE_EXIT")' = Logged(camera', t, "ZONE_EXIT")
      BY <2>1 DEF Logged, EventsOf
    <3> QED
      BY <3>1, <3>2, <3>3, <3>4, <3>5 DEF Balanced
  <2> QED
    BY <2>1, <2>3, <2>4
<1>7. CASE Emit
  <2>1. phase' = phase /\ zone' = zone
    BY <1>7 DEF Emit, input
  <2> QED
    BY <2>1, <1>1, <1>7, PendingOfEmit, BalanceOfEmit
<1>8. CASE NextFrame \/ UNCHANGED vars
  <2>1. /\ UNCHANGED <<camera, zone, outbox, log>>
        /\ phase' = "flushed" => phase = "flushed"
    BY <1>8 DEF NextFrame, vars, input
  <2>2. \A t \in Tracks : Balanced(t)'
    BY <2>1, <1>1 DEF Balanced, Logged, EventsOf, Pending, Open
  <2> QED
    BY <2>1, <2>2, <1>1 DEF PendingOnce
<1> QED
  BY <1>2, <1>4, <1>5, <1>6, <1>7, <1>8 DEF Next

\* A flushed clip has no open visit and nothing pending.
LEMMA BalanceInvImplies == BalanceInv => VisitsClose
<1> SUFFICES ASSUME BalanceInv, phase = "flushed", outbox = <<>>
             PROVE  /\ \A key \in Keys : Logged(key[1], key[2], "ZONE_ENTER")
                                            = Logged(key[1], key[2], "ZONE_EXIT")
                    /\ occupants = {}
  BY DEF VisitsClose, Logged
<1>1. TypeInv /\ QueueIsInZone /\ DOMAIN zone = {}
  BY DEF BalanceInv, QueueInv
<1>2. occupants = {}
  BY <1>1 DEF QueueIsInZone
<1>3. \A t : Pending(t, "ZONE_ENTER") = 0 /\ Pending(t, "ZONE_EXIT") = 0 /\ Open(t) = 0
  BY <1>1 DEF Pending, Open
<1>4. \A c, t, type : Logged(c, t, type) \in Nat
  BY <1>1, LoggedIsCount
<1>5. ASSUME NEW c \in 1..Len(Cameras), NEW t \in Tracks
      PROVE  Logged(c, t, "ZONE_ENTER") = Logged(c, t, "ZONE_EXIT")
  BY <1>3, <1>4 DEF BalanceInv
<1>6. \A key \in Keys : key[1] \in 1..Len(Cameras) /\ key[2] \in Tracks
  BY DEF Keys
<1> QED
  BY <1>2, <1>5, <1>6

-------------------------------------------------------------------------------
(* Theorems *)

\* Every visitor that an event, a track or an exit names is in the gallery, and
\* everything else has its type.
THEOREM TypeCorrect == Spec => []TypeOK
BY TypeInit, TypeStep, TypeInvImplies, PTL DEF Spec

\* Nobody stands in the queue who has left the checkout zone and been reported.
THEOREM TheQueueStandsInTheZone == Spec => []QueueIsInZone
<1>1. QueueInv => QueueIsInZone
  BY DEF QueueInv
<1> QED
  BY <1>1, QueueInit, QueueStep, PTL DEF Spec

\* The depth that a joiner's event carries is the number of tracks that the events
\* before it and itself put into the queue.
THEOREM DepthsAreCounts == Spec => []QueueDepthIsCount
<1>1. DepthInv => QueueDepthIsCount
  BY DEF DepthInv
<1> QED
  BY <1>1, DepthInit, DepthStep, PTL DEF Spec

\* After a clip the zone events of every track pair up, and the queue is empty.
THEOREM VisitsAreClosed == Spec => []VisitsClose
BY BalanceInit, BalanceStep, BalanceInvImplies, PTL DEF Spec

\* All events of a track carry one visitor, however appearance matches.
THEOREM TracksKeepTheirVisitor == Spec => []OneVisitorPerTrack
<1>1. IdentityInv => OneVisitorPerTrack
  BY TypeInvImplies DEF IdentityInv, OneVisitorPerTrack
<1> QED
  BY <1>1, IdentityInit, IdentityStep, PTL DEF Spec

\* Every re-entry has an exit of its own before it.
THEOREM ReentriesFollowExits == Spec => []ReentryNeedsExit
<1>1. ReentryInv => ReentryNeedsExit
  BY DEF ReentryInv
<1> QED
  BY <1>1, ReentryInit, ReentryStep, PTL DEF Spec

===============================================================================
