------------------------------ MODULE GroupSplit ------------------------------
(***************************************************************************)
(* PoseGroupSplitter (detector/app/group_split.py) before the associator:  *)
(* a wide box in which the pose model finds several people is replaced by  *)
(* one sub-track for each, numbered from left to right.  The gates may     *)
(* drop any of the tracks; the others are assigned as in Association.      *)
(*                                                                         *)
(* A scene is what YOLO and the pose model see in one frame.  Lengths are  *)
(* whole numbers.                                                          *)
(***************************************************************************)
EXTENDS Association, FiniteSets

CONSTANTS
  Scenes,     \* frames: boxes, and the pose model's people in its order
  SubStride,  \* SUB_STRIDE
  MinAspect,  \* group_split_min_aspect, in parts per 100
  MinPeople   \* group_split_min_people

\* What the pose model says of a person: the middle of the box and the foot.
Pose == [cx : Int, cy : Int, footX : Int]

\* "ByteTrack ids are small ints; <SUB_STRIDE tracks and <SUB_STRIDE slots"
ASSUME GroupSplitAssumption ==
  /\ {SubStride, MinAspect, MinPeople} \subseteq Nat \ {0}
  /\ \A s \in Scenes :
       /\ \A b \in s.boxes : b.id \in 1..(SubStride - 1)
       /\ \A b, c \in s.boxes : b.id = c.id => b = c
       /\ s.people \in Seq(Pose) /\ Len(s.people) < SubStride

VARIABLE scene  \* the frame

groupVars == <<vars, scene>>

-------------------------------------------------------------------------------

IsCandidate(b) == b.h > 0 /\ b.w * 100 >= MinAspect * b.h

Within(p, b) == b.x <= p.cx /\ p.cx <= b.x + b.w /\ b.y <= p.cy /\ p.cy <= b.y + b.h

\* The people in the box, as indices of the pose model's list.
Inside(b, people) == {i \in 1..Len(people) : Within(people[i], b)}

\* Mutant: the people are numbered in the order of the pose model.
Slot_Unsorted(b, people, i) == Cardinality({j \in Inside(b, people) : j < i})

\* Where they stand from the left; the sort is stable.
Slot(b, people, i) ==
  Cardinality({j \in Inside(b, people) :
    \/ people[j].footX < people[i].footX
    \/ people[j].footX = people[i].footX /\ j < i})

IsSplit(b, people) == IsCandidate(b) /\ Cardinality(Inside(b, people)) >= MinPeople

\* A sub-track is a slice of the box around a person's foot, so it stands at
\* that foot from the left, and at the bottom of the box.
SplitTrack(b, people) ==
  IF IsSplit(b, people)
  THEN {[id |-> b.id * SubStride + Slot(b, people, i), footX |-> people[i].footX] :
          i \in Inside(b, people)}
  ELSE {[id |-> b.id, footX |-> b.x + b.w \div 2]}

\* Without a candidate in the frame the pose model is not asked.
SplitTracks(s) == UNION {SplitTrack(b, s.people) : b \in s.boxes}
Ids(tracks) == {t.id : t \in tracks}

\* A frame, and the tracks of it that the gates let through.
Shows(s, tracks) == s \in Scenes /\ tracks \in SUBSET (Ids(SplitTracks(s)) \cap Tracks)

GroupInit ==
  /\ Init
  /\ scene \in Scenes /\ Shows(scene, todo)

ReadFrame ==
  /\ NextFrame
  /\ scene' \in Scenes /\ Shows(scene', todo')

Assign == (Advance \/ Stitch \/ Mint) /\ UNCHANGED scene

GroupNext == ReadFrame \/ Assign

GroupSpec == GroupInit /\ [][GroupNext]_groupVars

-------------------------------------------------------------------------------
(* Properties *)

\* "Sub-tracks are ordered left-to-right by foot x, get deterministic ids":
\* whatever order the pose model lists people in, the tracks of a split box are
\* one for each person inside it, their numbers rise from the left without a
\* gap, and no two tracks of a frame have the same number, whatever boxes it
\* shows.
SplitSeatsEveryone ==
  \A b \in scene.boxes :
    LET subs  == SplitTrack(b, scene.people)
        feet  == {scene.people[i].footX : i \in Inside(b, scene.people)}
        group == IsSplit(b, scene.people)
    IN
    /\ group => /\ Cardinality(subs) = Cardinality(Inside(b, scene.people))
                /\ {t.footX : t \in subs} = feet
                /\ Ids(subs) = {b.id * SubStride + k : k \in 0..(Cardinality(subs) - 1)}
                /\ \A t, u \in subs : t.id < u.id => t.footX <= u.footX
    /\ ~group => Ids(subs) = {b.id}
    /\ \A c \in scene.boxes \ {b} : Ids(subs) \cap Ids(SplitTrack(c, scene.people)) = {}

===============================================================================
