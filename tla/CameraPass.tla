------------------------------ MODULE CameraPass ------------------------------
(***************************************************************************)
(* The frame loop of one camera (process_camera, detector/app/main.py):    *)
(* every box of a frame passes the size gate and the walkable floor or is  *)
(* dropped; one that stands inside is seen by the zone tracker, and the    *)
(* crossing detector is told of its foot point on either side.  Composes   *)
(* ZoneTracker, Crossing and Layout; a track is its own local id.          *)
(***************************************************************************)
EXTENDS ZoneTracker, Layout

CONSTANTS
  Cameras,        \* CameraConfigs: frame size, line or none, floor or none, where each track may be seen
  NoLine,         \* entrance_line is None
  ConfirmFrames,  \* crossing_confirm_frames
  InsideSign      \* inside_sign of the entrance lines

ASSUME CameraPassAssumption ==
  /\ ConfirmFrames \in Nat \ {0}
  /\ InsideSign \in {-1, 1}

VARIABLES
  camera,     \* the CameraConfig of the clip
  boxes,      \* the tracks of the frame and where they are
  todo,       \* those that are still to be processed
  sides, crossings, samples  \* CrossingDetector of the camera

gateVars   == <<camera, boxes, todo>>
lineVars   == <<sides, crossings, samples>>
cameraVars == <<vars, gateVars, lineVars>>

Line == INSTANCE Crossing WITH log <- crossings

-------------------------------------------------------------------------------

\* What PersonTracker.update may return: person boxes that have a track id and
\* enough confidence.
FramesOf(cam) ==
  UNION {{f \in [shown -> UNION Range(cam.boxes)] : \A t \in shown : f[t] \in cam.boxes[t]} :
           shown \in SUBSET Tracks}

CameraInit ==
  /\ Init /\ Line!Init
  /\ camera \in Cameras
  /\ boxes \in FramesOf(camera) /\ todo = DOMAIN boxes

\* Mutant: the middle of a box has to be on the floor, not its foot.
Counts_Middle(b) ==
  /\ PassesSizeGate(b, camera.frame)
  /\ ContainsPoint(camera.floor, [x |-> (b.x1 + b.x2) \div 2, y |-> (b.y1 + b.y2) \div 2])

Counts(b) == PassesSizeGate(b, camera.frame) /\ ContainsPoint(camera.floor, Foot(b))

\* too_small and off_floor
Drop(t) ==
  /\ t \in todo /\ ~Counts(boxes[t])
  /\ todo' = todo \ {t}
  /\ UNCHANGED <<vars, lineVars, camera, boxes>>

InsideOk(b) == camera.line = NoLine \/ IsInside(camera.line, Foot(b), InsideSign)

Look(t) ==
  /\ t \in todo /\ Counts(boxes[t])
  /\ todo' = todo \ {t}
  /\ IF InsideOk(boxes[t]) THEN Observe(t) ELSE UNCHANGED vars
  /\ IF camera.line # NoLine
     THEN Line!Update(t, SideOf(camera.line, Foot(boxes[t])), now)
     ELSE UNCHANGED lineVars
  /\ UNCHANGED <<camera, boxes>>

EndFrame == todo = {} /\ Sweep /\ UNCHANGED <<gateVars, lineVars>>

ReadFrame ==
  /\ NextFrame
  /\ boxes' \in FramesOf(camera) /\ todo' = DOMAIN boxes'
  /\ UNCHANGED <<camera, lineVars>>

EndClip == Flush /\ UNCHANGED <<gateVars, lineVars>>

CameraNext == (\E t \in Tracks : Drop(t) \/ Look(t)) \/ EndFrame \/ ReadFrame \/ EndClip

CameraSpec == CameraInit /\ [][CameraNext]_cameraVars

-------------------------------------------------------------------------------
(* Properties *)

CrossingsAreRuns == Line!CrossingsAreRuns
CrossingsAlternate == Line!CrossingsAlternate

\* Strictly within, strictly outside a convex floor, by the sides of its edges.
Edges(floor) == {<<Before(floor, i), floor[i]>> : i \in 1..Len(floor)}
OnFloor(floor, p) ==
  \/ floor = <<>>
  \/ \E s \in {-1, 1} : \A e \in Edges(floor) : Sign(Cross(e[1], e[2], p)) = s
OffFloor(floor, p) ==
  \A s \in {-1, 1} : \E e \in Edges(floor) : Sign(Cross(e[1], e[2], p)) = -s

\* The ray cast keeps who is strictly within a floor and drops who is strictly
\* outside; and does so wherever the tracks may be seen.
TellsFloor(floor, p) ==
  /\ OnFloor(floor, p) => ContainsPoint(floor, p)
  /\ floor # <<>> /\ OffFloor(floor, p) => ~ContainsPoint(floor, p)
FloorsAreClear ==
  \A cam \in Cameras, t \in Tracks : \A b \in cam.boxes[t] : TellsFloor(cam.floor, Foot(b))

LargeEnough(b) ==
  LET w == b.x2 - b.x1
      h == b.y2 - b.y1
  IN w * h * 10000 >= MinBoxFrac * camera.frame.w * camera.frame.h

SampledAt(t) == {samples[t][i].ts : i \in 1..Len(samples[t])}

\* A person counts in the zone in exactly the frames in which they stand on the
\* floor and inside, large enough; passers-by, reflections and far blobs are in
\* no zone ("a general mask", "mall corridor traffic stays out of the zone
\* count"), wherever on the height of a vertex they stand.  The line is told of
\* everybody on the floor, and takes as inside those whom the zone counts.
OnlyShoppersCount ==
  \A t \in DOMAIN boxes \ todo :
    LET b == boxes[t]
        p == Foot(b)
        line == camera.line
        inside == line = NoLine \/ Sign(Cross(line.from, line.to, p)) = InsideSign
        across == line # NoLine /\ Sign(Cross(line.from, line.to, p)) # 0
    IN
    /\ LargeEnough(b) /\ OnFloor(camera.floor, p) =>
         (now \in sightings[t] <=> inside) /\ (now \in SampledAt(t) <=> across)
    /\ ~LargeEnough(b) \/ (camera.floor # <<>> /\ OffFloor(camera.floor, p)) =>
         now \notin sightings[t] /\ now \notin SampledAt(t)
    /\ line # NoLine =>
         sightings[t] = {samples[t][i].ts : i \in {j \in 1..Len(samples[t]) :
                                                     samples[t][j].side = InsideSign}}

===============================================================================
