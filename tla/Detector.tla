------------------------------- MODULE Detector -------------------------------
(***************************************************************************)
(* The detection pass over one store (process_store and process_camera,    *)
(* detector/app/main.py): the cameras are processed one after the other,   *)
(* each from media time 0, and their tracks become events of visitors.     *)
(* Presence and line sides are those of ZonePresence and LineSides; this   *)
(* module adds what joins them: the identity of a track (VisitorRegistry   *)
(* and ReIDGallery), the queue of the checkout camera (BillingTracker),    *)
(* and the REENTRY of a visitor who had left.                              *)
(*                                                                         *)
(* The loops over returned events are an outbox that is emitted before     *)
(* anything else happens.  Appearance is left open: a track matches any    *)
(* visitor of the gallery or none, unless PerfectReid makes the gallery    *)
(* know every person.                                                      *)
(***************************************************************************)
EXTENDS ZonePresence, LineSides, FiniteSets, SequencesExt

CONSTANTS
  Cameras,        \* the cameras in order: line, checkout, and the tracks it may have
  Tracks,         \* local ids of a camera
  Person,         \* who the track of a camera is
  PerfectReid,    \* the gallery matches a track to its person
  FrameInterval,  \* ms between two sampled frames
  ReentryGap,     \* reid_reentry_min_gap_ms
  MaxFrames       \* bound: sampled frames of a clip

Keys == (1..Len(Cameras)) \X Tracks

ASSUME DetectorAssumption ==
  /\ Cameras \in Seq([line : BOOLEAN, checkout : BOOLEAN, tracks : SUBSET Tracks])
  /\ Cameras # <<>>
  /\ DOMAIN Person = Keys
  /\ PerfectReid \in BOOLEAN
  /\ {FrameInterval, MaxFrames} \subseteq Nat \ {0}
  /\ ReentryGap \in Nat

VARIABLES
  camera,     \* the camera being processed
  phase,      \* "frame", "swept" when a frame is done, "flushed" after the clip
  now,        \* media time of the frame
  seen,       \* the tracks already processed in this frame
  zone,       \* ZoneTracker._state
  sides,      \* CrossingDetector._committed_side and ._pending
  occupants,  \* BillingTracker._occupants
  outbox,     \* events of tracks that are still to be emitted
  ids,        \* VisitorRegistry._ids, or 0
  gallery,    \* ReIDGallery._visitors, in order of discovery
  exited,     \* exited_visitors
  log         \* the events written to the sink

input    == <<camera, phase, now, seen, zone, sides>>
identity == <<ids, gallery, exited>>
vars     == <<input, occupants, outbox, identity, log>>

Types == {"ZONE_ENTER", "ZONE_DWELL", "ZONE_EXIT", "ENTRY", "EXIT", "REENTRY",
          "BILLING_QUEUE_JOIN"}

TrackEvent(t, type, ts, depth) == [track |-> t, type |-> type, ts |-> ts, depth |-> depth]
OfTrack(t, es) == [i \in 1..Len(es) |-> TrackEvent(t, es[i].type, es[i].ts, 0)]

Init ==
  /\ camera = 1 /\ phase = "frame" /\ now = 0 /\ seen = {}
  /\ zone = <<>> /\ sides = [t \in Tracks |-> Settled(0)]
  /\ occupants = {} /\ outbox = <<>>
  /\ ids = [k \in Keys |-> 0] /\ gallery = <<>> /\ exited = {}
  /\ log = <<>>

-------------------------------------------------------------------------------
(* The frame loop *)

\* One track of the frame: the zone tracker sees it when it is inside, the
\* crossing detector always.
Detect(t, side) ==
  LET line   == Cameras[camera].line
      inside == ~line \/ side = InsideSign
  IN
  /\ phase = "frame" /\ outbox = <<>> /\ t \in Cameras[camera].tracks \ seen
  /\ seen' = seen \cup {t}
  /\ zone' = IF ~inside THEN zone
             ELSE [u \in DOMAIN zone \cup {t} |->
                    IF u # t THEN zone[u]
                    ELSE IF t \in DOMAIN zone THEN SeenAgain(zone[t], now)
                    ELSE FirstSeen(now)]
  /\ sides' = IF line THEN [sides EXCEPT ![t] = Sampled(@, side)] ELSE sides
  /\ outbox' = (IF inside /\ t \in DOMAIN zone
                THEN OfTrack(t, EventsOfSeenAgain(zone[t], now)) ELSE <<>>)
               \o (IF line /\ Crosses(sides[t], side)
                   THEN <<TrackEvent(t, TypeOfCrossing(side), now, 0)>> ELSE <<>>)
  /\ UNCHANGED <<camera, phase, now, occupants, identity, log>>

\* The visits of the tracks in gone end: those that were entered are reported,
\* in some order.
End(gone) ==
  /\ zone' = [t \in DOMAIN zone \ gone |-> zone[t]]
  /\ \E order \in SetToSeqs({t \in gone : zone[t].entered}) :
       outbox' = [i \in 1..Len(order) |-> OfTrack(order[i], EventsOfEnd(zone[order[i]]))[1]]

Sweep ==
  /\ phase = "frame" /\ outbox = <<>>
  /\ phase' = "swept"
  /\ End({t \in DOMAIN zone : Absent(zone[t], now)})
  /\ UNCHANGED <<camera, now, seen, sides, occupants, identity, log>>

NextFrame ==
  /\ phase = "swept" /\ outbox = <<>> /\ now < (MaxFrames - 1) * FrameInterval
  /\ phase' = "frame" /\ now' = now + FrameInterval /\ seen' = {}
  /\ UNCHANGED <<camera, zone, sides, occupants, outbox, identity, log>>

\* Mutant: the end of the clip is not flushed.
Flush_Drop ==
  /\ phase = "swept" /\ outbox = <<>>
  /\ phase' = "flushed"
  /\ zone' = <<>>
  /\ UNCHANGED <<camera, now, seen, sides, occupants, outbox, identity, log>>

Flush ==
  /\ phase = "swept" /\ outbox = <<>>
  /\ phase' = "flushed"
  /\ End(DOMAIN zone)
  /\ UNCHANGED <<camera, now, seen, sides, occupants, identity, log>>

\* process_camera begins: the trackers of the camera are new.
OpenCamera ==
  /\ zone' = <<>> /\ sides' = [t \in Tracks |-> Settled(0)] /\ occupants' = {}
  /\ phase' = "frame" /\ now' = 0 /\ seen' = {}

\* The next camera whose clip is there: media time starts again, and the
\* identities of the store stay.
NextCamera ==
  /\ phase = "flushed" /\ outbox = <<>>
  /\ camera' \in (camera + 1)..Len(Cameras)
  /\ OpenCamera
  /\ UNCHANGED <<outbox, identity, log>>

-------------------------------------------------------------------------------
(* emit and emit_zone *)

Matches(key) == {v \in 1..Len(gallery) : PerfectReid => gallery[v].person = Person[key]}

\* The visitors that the gallery may name for a track it has not seen, each with
\* the gallery that remembers the sighting.  A visitor is seen again when the
\* last sighting of a track of theirs lies back further than the gap.
Known(key, ts) ==
  {[visitor |-> v, again |-> ts - gallery[v].last > ReentryGap,
    gallery |-> [gallery EXCEPT ![v].last = IF ts > @ THEN ts ELSE @]] : v \in Matches(key)}

Unknown(key, ts) ==
  IF PerfectReid /\ Matches(key) # {} THEN {}
  ELSE {[visitor |-> Len(gallery) + 1, again |-> FALSE,
         gallery |-> Append(gallery, [person |-> Person[key], last |-> ts])]}

\* Mutant: the registry does not remember the identity of a track.
Resolutions_Uncached(key, ts) == Known(key, ts) \cup Unknown(key, ts)

\* VisitorRegistry.resolve: the cached identity, else that of the gallery.
Resolutions(key, ts) ==
  IF ids[key] # 0
  THEN {[visitor |-> ids[key], again |-> FALSE, gallery |-> gallery]}
  ELSE Known(key, ts) \cup Unknown(key, ts)

Written(v, e) ==
  [camera |-> camera, visitor |-> v, track |-> e.track, type |-> e.type, ts |-> e.ts,
   depth |-> e.depth]

\* Mutant: a visitor who came back stays in the set of those who left.
EmitAs_StaysExited(r, e) ==
  LET back == r.again /\ r.visitor \in exited
  IN
  /\ ids' = [ids EXCEPT ![<<camera, e.track>>] = r.visitor]
  /\ gallery' = r.gallery
  /\ exited' = exited \cup (IF e.type = "EXIT" THEN {r.visitor} ELSE {})
  /\ log' = log \o (IF back THEN <<Written(r.visitor, [e EXCEPT !.type = "REENTRY", !.depth = 0])>>
                    ELSE <<>>)
                \o <<Written(r.visitor, e)>>

\* A visitor who left and is matched again re-enters first, then the event is
\* written, and an exit arms the next re-entry.
EmitAs(r, e) ==
  LET back == r.again /\ r.visitor \in exited
  IN
  /\ ids' = [ids EXCEPT ![<<camera, e.track>>] = r.visitor]
  /\ gallery' = r.gallery
  /\ exited' = (IF back THEN exited \ {r.visitor} ELSE exited)
                 \cup (IF e.type = "EXIT" THEN {r.visitor} ELSE {})
  /\ log' = log \o (IF back THEN <<Written(r.visitor, [e EXCEPT !.type = "REENTRY", !.depth = 0])>>
                    ELSE <<>>)
                \o <<Written(r.visitor, e)>>

\* Mutant: who leaves the checkout zone keeps the place in the queue.
Billing_NoLeave(e, rest) ==
  \/ /\ outbox' = rest
     /\ UNCHANGED occupants
  \/ /\ Cameras[camera].checkout /\ e.type = "ZONE_ENTER" /\ e.track \notin occupants
     /\ occupants' = occupants \cup {e.track}
     /\ outbox' = <<TrackEvent(e.track, "BILLING_QUEUE_JOIN", e.ts,
                               Cardinality(occupants) + 1)>> \o rest

\* Mutant: the depth leaves the joiner out.
Billing_DepthBefore(e, rest) ==
  \/ /\ ~Cameras[camera].checkout \/ e.type # "ZONE_EXIT"
     /\ outbox' = rest
     /\ UNCHANGED occupants
  \/ /\ Cameras[camera].checkout /\ e.type = "ZONE_ENTER" /\ e.track \notin occupants
     /\ occupants' = occupants \cup {e.track}
     /\ outbox' = <<TrackEvent(e.track, "BILLING_QUEUE_JOIN", e.ts,
                               Cardinality(occupants))>> \o rest
  \/ /\ Cameras[camera].checkout /\ e.type = "ZONE_EXIT"
     /\ occupants' = occupants \ {e.track}
     /\ outbox' = rest

\* On the checkout camera a customer who enters the zone joins the queue, which
\* is emitted next, and whoever leaves the zone leaves it.  Staff do not join;
\* the heuristic that tells them may hold of anybody.
Billing(e, rest) ==
  \/ /\ ~Cameras[camera].checkout \/ e.type # "ZONE_EXIT"
     /\ outbox' = rest
     /\ UNCHANGED occupants
  \/ /\ Cameras[camera].checkout /\ e.type = "ZONE_ENTER" /\ e.track \notin occupants
     /\ occupants' = occupants \cup {e.track}
     /\ outbox' = <<TrackEvent(e.track, "BILLING_QUEUE_JOIN", e.ts,
                               Cardinality(occupants) + 1)>> \o rest
  \/ /\ Cameras[camera].checkout /\ e.type = "ZONE_EXIT"
     /\ occupants' = occupants \ {e.track}
     /\ outbox' = rest

Emit ==
  /\ outbox # <<>>
  /\ LET e == Head(outbox) IN
       /\ \E r \in Resolutions(<<camera, e.track>>, e.ts) : EmitAs(r, e)
       /\ Billing(e, Tail(outbox))
  /\ UNCHANGED input

Next ==
  \/ \E t \in Tracks, side \in {-1, 0, 1} : Detect(t, side)
  \/ Sweep
  \/ NextFrame
  \/ Flush
  \/ NextCamera
  \/ Emit

Spec == Init /\ [][Next]_vars

-------------------------------------------------------------------------------
(* Properties *)

Visitors == 1..Len(gallery)

TypeOK ==
  /\ camera \in 1..Len(Cameras) /\ phase \in {"frame", "swept", "flushed"}
  /\ now \in Nat /\ seen \subseteq Tracks
  /\ DOMAIN zone \subseteq Tracks /\ zone \in [DOMAIN zone -> Presence]
  /\ sides \in [Tracks -> SideState]
  /\ occupants \subseteq Tracks
  /\ \A i \in 1..Len(outbox) :
       outbox[i].track \in Tracks /\ outbox[i].type \in Types /\ outbox[i].ts \in Nat
  /\ ids \in [Keys -> Visitors \cup {0}]
  /\ \A v \in Visitors : gallery[v].last \in Nat
  /\ exited \subseteq Visitors
  /\ \A i \in 1..Len(log) : log[i].visitor \in Visitors /\ log[i].type \in Types

\* Nobody stands in the queue who is not in the checkout zone, or whose exit is
\* about to be emitted: the queue cannot fill up with people who have left.
QueueIsInZone ==
  \A t \in occupants :
    \/ t \in DOMAIN zone /\ zone[t].entered
    \/ \E i \in 1..Len(outbox) : outbox[i].track = t /\ outbox[i].type = "ZONE_EXIT"

\* The tracks of log[i]'s camera that have joined the queue up to i and not left.
InQueue(i) ==
  {t \in Tracks : \E j \in 1..i :
     /\ log[j].type = "BILLING_QUEUE_JOIN" /\ log[j].track = t /\ log[j].camera = log[i].camera
     /\ \A k \in j..i : ~(log[k].type = "ZONE_EXIT" /\ log[k].track = t
                            /\ log[k].camera = log[i].camera)}

\* queue_depth is "number of customers in the billing zone, including this
\* joiner" (BillingEvent), as a reader of the events would count the tracks.
QueueDepthIsCount ==
  \A i \in 1..Len(log) :
    log[i].type = "BILLING_QUEUE_JOIN" => log[i].depth = Cardinality(InQueue(i))

EventsOf(c, t, type) ==
  {i \in 1..Len(log) : log[i].camera = c /\ log[i].track = t /\ log[i].type = type}

\* After a clip every zone visit that was reported as entered is reported as
\* left, and the queue is empty.
VisitsClose ==
  phase = "flushed" /\ outbox = <<>> =>
    /\ \A key \in Keys : Cardinality(EventsOf(key[1], key[2], "ZONE_ENTER"))
                           = Cardinality(EventsOf(key[1], key[2], "ZONE_EXIT"))
    /\ occupants = {}

\* All events of one track are events of one visitor, although the gallery that
\* named the visitor changes from one event to the next.
OneVisitorPerTrack ==
  /\ TypeOK
  /\ \A i, j \in 1..Len(log) :
       log[i].camera = log[j].camera /\ log[i].track = log[j].track
         => log[i].visitor = log[j].visitor

\* "one re-entry per prior exit" (emit): in the order of processing a visitor
\* re-enters only after an exit, and once for it.
ReentryNeedsExit ==
  \A i \in 1..Len(log) :
    log[i].type = "REENTRY" =>
      \E j \in 1..(i - 1) :
        /\ log[j].visitor = log[i].visitor /\ log[j].type = "EXIT"
        /\ \A k \in j..(i - 1) : ~(log[k].visitor = log[i].visitor /\ log[k].type = "REENTRY")

\* A returning visitor emits "REENTRY, never a second ENTRY" (BUSINESS_RULES.md).
NoSecondEntry ==
  \A i, j \in 1..Len(log) :
    log[i].type = "ENTRY" /\ log[j].type = "ENTRY" /\ log[i].visitor = log[j].visitor => i = j

===============================================================================
