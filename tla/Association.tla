----------------------------- MODULE Association -----------------------------
(***************************************************************************)
(* MotionTrackAssociator (detector/app/association.py): the tracks that    *)
(* ByteTrack numbers on one camera are bound to local ids, and a new track *)
(* continues a local that was lost a short while ago near by.              *)
(*                                                                         *)
(* Every frame gives the tracks that passed the gates, and the detector    *)
(* assigns them one after the other.  Two tracks of one frame are two      *)
(* people.  Where they stand and how fast they move is left open: any      *)
(* lost local in the time window may be near the new track, and the        *)
(* nearest of them may be any.                                             *)
(***************************************************************************)
EXTENDS Integers, Sequences

CONSTANTS
  Tracks,          \* ids of ByteTrack
  SourceInterval,  \* ms between two frames of the clip
  SampleInterval,  \* ms between two samples at tracker_sample_fps
  StitchMinGap,    \* stitch_min_gap_ms
  MaxGap,          \* stitch_max_gap_ms
  MaxFrames        \* bound: sampled frames of the clip

ASSUME AssociationAssumption ==
  /\ {SourceInterval, SampleInterval, StitchMinGap, MaxGap} \subseteq Nat \ {0}
  /\ MaxFrames \in Nat

VARIABLES
  now,      \* media time of the frame
  todo,     \* the tracks of the frame that are not yet assigned
  binding,  \* _raw_to_local, or 0
  lastTs,   \* _locals[l].last_ts of the locals 1 .. _next_local
  seenAt,   \* history: when each track was last assigned, or Never
  revived   \* history: the tracks that were missed in a frame and then seen again

vars == <<now, todo, binding, lastTs, seenAt, revived>>

\* round(source_fps / target_fps), at least 1; Python rounds halves to even.
Stride ==
  LET whole == SampleInterval \div SourceInterval
      rest  == 2 * (SampleInterval % SourceInterval)
      nearest == IF rest > SourceInterval \/ (rest = SourceInterval /\ whole % 2 = 1)
                 THEN whole + 1 ELSE whole
  IN IF nearest > 1 THEN nearest ELSE 1

FrameInterval == Stride * SourceInterval

\* min_gap_ms: "lifted above one sampled frame interval".
MinGap ==
  LET lifted == (3 * SampleInterval) \div 2
  IN IF StitchMinGap > lifted THEN StitchMinGap ELSE lifted

Never == -1

Init ==
  /\ now = 0 /\ todo \in SUBSET Tracks
  /\ binding = [t \in Tracks |-> 0] /\ lastTs = <<>>
  /\ seenAt = [t \in Tracks |-> Never] /\ revived = {}

\* The next sampled frame, and the tracks that ByteTrack and the gates let
\* through.  ByteTrack keeps a missed track for track_buffer frames, and a
\* track that a gate drops lives on in ByteTrack: both are seen again.
NextFrame ==
  /\ todo = {} /\ now < MaxFrames * FrameInterval
  /\ now' = now + FrameInterval
  /\ todo' \in SUBSET Tracks
  /\ UNCHANGED <<binding, lastTs, seenAt, revived>>

\* Mutant: no lower bound on the absence.
Candidates_NoMinGap(ts) ==
  {l \in 1..Len(lastTs) : ts - lastTs[l] <= MaxGap}

\* The locals that _best_candidate does not rule out by time.
Candidates(ts) ==
  {l \in 1..Len(lastTs) : ts - lastTs[l] > MinGap /\ ts - lastTs[l] <= MaxGap}

\* The track was seen, but not in the frame before this one.
Missed(t) == seenAt[t] # Never /\ now - seenAt[t] > FrameInterval

\* Mutant: a stitched track does not refresh its local.
AssignTo_NoAdvance(t, l) ==
  /\ t \in todo
  /\ todo' = todo \ {t}
  /\ binding' = [binding EXCEPT ![t] = l]
  /\ lastTs' = IF l > Len(lastTs) THEN Append(lastTs, now) ELSE lastTs
  /\ seenAt' = [seenAt EXCEPT ![t] = now]
  /\ revived' = IF Missed(t) THEN revived \cup {t} ELSE revived
  /\ UNCHANGED now

\* Track t is bound to local l, new or old, whose motion state advances.
AssignTo(t, l) ==
  /\ t \in todo
  /\ todo' = todo \ {t}
  /\ binding' = [binding EXCEPT ![t] = l]
  /\ lastTs' = IF l > Len(lastTs) THEN Append(lastTs, now) ELSE [lastTs EXCEPT ![l] = now]
  /\ seenAt' = [seenAt EXCEPT ![t] = now]
  /\ revived' = IF Missed(t) THEN revived \cup {t} ELSE revived
  /\ UNCHANGED now

Advance == \E t \in todo : binding[t] # 0 /\ AssignTo(t, binding[t])
Stitch  == \E t \in todo : binding[t] = 0 /\ \E l \in Candidates(now) : AssignTo(t, l)

Mint == \E t \in todo : binding[t] = 0 /\ AssignTo(t, Len(lastTs) + 1)

Next == NextFrame \/ Advance \/ Stitch \/ Mint

Spec == Init /\ [][Next]_vars

-------------------------------------------------------------------------------
(* Properties *)

TypeOK ==
  /\ now \in Nat
  /\ todo \subseteq Tracks
  /\ lastTs \in Seq(Nat)
  /\ binding \in [Tracks -> 0..Len(lastTs)]
  /\ seenAt \in [Tracks -> Nat \cup {Never}]
  /\ revived \subseteq Tracks

\* The state is of its type (a track is bound to a local that exists), and a
\* local was seen when the last of its tracks was, so that the time window is
\* measured from the right moment whichever track the local continues.
LocalsFollowTracks ==
  /\ TypeOK
  /\ \A l \in 1..Len(lastTs) :
       /\ \E t \in Tracks : binding[t] = l /\ seenAt[t] = lastTs[l]
       /\ \A t \in Tracks : binding[t] = l => seenAt[t] <= lastTs[l]

\* "two people coexisting on screen can never be merged into one id"
\* (MotionTrackAssociator): two tracks of one frame have different locals.
CoexistingDistinct ==
  \A t, u \in Tracks :
    t # u /\ seenAt[t] = now /\ seenAt[u] = now => binding[t] # binding[u]

\* Two tracks of one frame come to share a local only when one of them had been
\* missed, another track was stitched to its local meanwhile, and it came back.
OnlyRevivalsMerge ==
  \A t, u \in Tracks :
    /\ t # u /\ seenAt[t] = now /\ seenAt[u] = now
    /\ binding[t] = binding[u]
    => t \in revived \/ u \in revived

\* "a track merely not-yet-processed this frame can never be mistaken for lost"
\* (build_associator): a new track never takes the local of a track that was
\* assigned in this frame, or that was in the last frame and waits for its turn
\* in this one.
Live(t) == seenAt[t] = now \/ (t \in todo /\ now - seenAt[t] <= FrameInterval)

LiveNeverStolen ==
  [][\A t, u \in Tracks :
       /\ t # u
       /\ binding[t] = 0 /\ binding'[t] # 0
       /\ binding[u] = binding'[t]
       => ~Live(u)]_vars

===============================================================================
