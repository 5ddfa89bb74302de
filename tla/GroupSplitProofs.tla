--------------------------- MODULE GroupSplitProofs ---------------------------
(***************************************************************************)
(* Proofs about the tracklet stitching, for any set of tracks and any      *)
(* intervals: what the lower bound of the time window protects, and when   *)
(* two people of one frame can come to share a local id.  And about split  *)
(* boxes, for any scenes: the people of a split box get the numbers 0, 1,  *)
(* ... from the left, whatever order they are found in, and the tracks of  *)
(* a frame stay apart; so all of this holds behind the splitter too.       *)
(***************************************************************************)
EXTENDS GroupSplit, SequenceTheorems, FiniteSetTheorems, FunctionTheorems, TLAPS

-------------------------------------------------------------------------------
(* Tracklet stitching *)

\* What the time window rests on: a track has a local once it was seen, waits
\* only for frames it was not yet seen in, and its local was seen no earlier.
Followed ==
  \A t \in Tracks :
    /\ seenAt[t] <= now
    /\ t \in todo => seenAt[t] # now
    /\ binding[t] = 0 <=> seenAt[t] = Never
    /\ binding[t] # 0 => seenAt[t] <= lastTs[binding[t]]

WindowInv == TypeOK /\ Followed

\* A track that will count as revived when it is seen again, or did already.
Lapsed(t) == t \in revived \/ Missed(t)

\* Of two tracks with one local, one has lapsed.
OneLapsed ==
  \A t, u \in Tracks :
    t # u /\ binding[t] = binding[u] /\ binding[t] # 0 => Lapsed(t) \/ Lapsed(u)

LapseInv == WindowInv /\ OneLapsed

-------------------------------------------------------------------------------

\* The derived intervals are numbers, and frames are apart.
LEMMA IntervalsAreNumbers ==
  /\ FrameInterval \in Nat \ {0}
  /\ MinGap \in Nat
<1>1. /\ SampleInterval \div SourceInterval \in Int
      /\ SampleInterval % SourceInterval \in Int
  BY AssociationAssumption
<1>2. Stride \in Nat \ {0}
  BY <1>1, AssociationAssumption DEF Stride
<1>3. \A a, b \in Nat \ {0} : a * b \in Nat \ {0}
  OBVIOUS
<1>4. FrameInterval \in Nat \ {0}
  BY <1>2, <1>3, AssociationAssumption DEF FrameInterval
<1>5. (3 * SampleInterval) \div 2 \in Int
  BY AssociationAssumption
<1>6. MinGap \in Nat
  BY <1>5, AssociationAssumption DEF MinGap
<1> QED
  BY <1>4, <1>6

\* The locals after a new one is stored, or an old one advances.
LEMMA LocalsGrow ==
  ASSUME TypeOK, NEW l \in 1..(Len(lastTs) + 1),
         lastTs' = IF l > Len(lastTs) THEN Append(lastTs, now) ELSE [lastTs EXCEPT ![l] = now]
  PROVE  /\ lastTs' \in Seq(Nat)
         /\ Len(lastTs') = IF l > Len(lastTs) THEN Len(lastTs) + 1 ELSE Len(lastTs)
         /\ Len(lastTs) <= Len(lastTs')
         /\ l <= Len(lastTs')
         /\ lastTs'[l] = now
         /\ \A k \in 1..Len(lastTs) : k # l => lastTs'[k] = lastTs[k]
<1>1. lastTs \in Seq(Nat) /\ now \in Nat /\ Len(lastTs) \in Nat
  BY DEF TypeOK
<1>2. CASE l > Len(lastTs)
  BY <1>1, <1>2
<1>3. CASE ~(l > Len(lastTs))
  BY <1>1, <1>3
<1> QED
  BY <1>2, <1>3

\* Assigning a track to a local that was seen no later than now keeps the
\* window invariant.
LEMMA AssignKeepsWindow ==
  ASSUME WindowInv, NEW t \in todo, NEW l \in 1..(Len(lastTs) + 1), AssignTo(t, l)
  PROVE  WindowInv'
<1>1. /\ now \in Nat /\ now' = now /\ todo' = todo \ {t} /\ todo \subseteq Tracks
      /\ lastTs \in Seq(Nat) /\ Len(lastTs) \in Nat
      /\ binding \in [Tracks -> 0..Len(lastTs)]
      /\ seenAt \in [Tracks -> Nat \cup {Never}]
      /\ binding' = [binding EXCEPT ![t] = l]
      /\ seenAt' = [seenAt EXCEPT ![t] = now]
      /\ revived' \subseteq Tracks
  BY DEF WindowInv, TypeOK, AssignTo
<1>2. /\ lastTs' \in Seq(Nat)
      /\ Len(lastTs') \in Nat
      /\ Len(lastTs) <= Len(lastTs')
      /\ l <= Len(lastTs')
      /\ lastTs'[l] = now
      /\ \A k \in 1..Len(lastTs) : k # l => lastTs'[k] = lastTs[k]
  <2>1. lastTs' = IF l > Len(lastTs) THEN Append(lastTs, now) ELSE [lastTs EXCEPT ![l] = now]
    BY DEF AssignTo
  <2> QED
    BY <1>1, <2>1, LocalsGrow DEF WindowInv
<1>3. \A u \in Tracks : binding'[u] \in 0..Len(lastTs')
  BY <1>1, <1>2
<1>4. binding' \in [Tracks -> 0..Len(lastTs')]
  BY <1>1, <1>3
<1>5. TypeOK'
  BY <1>1, <1>2, <1>4 DEF TypeOK
<1>6. ASSUME NEW u \in Tracks
      PROVE  /\ seenAt'[u] <= now'
             /\ u \in todo' => seenAt'[u] # now'
             /\ binding'[u] = 0 <=> seenAt'[u] = Never
             /\ binding'[u] # 0 => seenAt'[u] <= lastTs'[binding'[u]]
  <2>1. CASE u = t
    BY <1>1, <1>2, <2>1 DEF Never
  <2>2. CASE u # t
    <3>1. /\ seenAt'[u] = seenAt[u] /\ binding'[u] = binding[u]
          /\ binding[u] \in 0..Len(lastTs)
      BY <1>1, <2>2
    <3>2. /\ seenAt[u] <= now
          /\ u \in todo => seenAt[u] # now
          /\ binding[u] = 0 <=> seenAt[u] = Never
          /\ binding[u] # 0 => seenAt[u] <= lastTs[binding[u]]
      BY DEF WindowInv, Followed
    <3>3. binding[u] # 0 => seenAt[u] <= lastTs'[binding[u]]
      BY <1>1, <1>2, <3>1, <3>2
    <3> QED
      BY <1>1, <3>1, <3>2, <3>3
  <2> QED
    BY <2>1, <2>2
<1>7. Followed'
  BY <1>6 DEF Followed
<1> QED
  BY <1>5, <1>7 DEF WindowInv

\* What the three ways to assign a track have in common.
LEMMA AssignCases ==
  ASSUME WindowInv, Advance \/ Stitch \/ Mint
  PROVE  \E t \in todo : \E l \in 1..(Len(lastTs) + 1) :
           /\ AssignTo(t, l)
           /\ \/ binding[t] = l
              \/ binding[t] = 0 /\ (l = Len(lastTs) + 1 \/ now - lastTs[l] > MinGap)
<1>1. /\ Len(lastTs) \in Nat /\ todo \subseteq Tracks
      /\ binding \in [Tracks -> 0..Len(lastTs)]
  BY DEF WindowInv, TypeOK
<1>2. CASE Advance
  BY <1>1, <1>2 DEF Advance
<1>3. CASE Stitch
  BY <1>1, <1>3 DEF Stitch, Candidates
<1>4. CASE Mint
  BY <1>1, <1>4 DEF Mint
<1> QED
  BY <1>2, <1>3, <1>4

\* No track has a local yet.
LEMMA WindowInit == Init => WindowInv
<1> SUFFICES ASSUME Init PROVE WindowInv
  OBVIOUS
<1>1. TypeOK
  BY DEF Init, TypeOK
<1>2. now = 0 /\ \A t \in Tracks : binding[t] = 0 /\ seenAt[t] = -1
  BY DEF Init, Never
<1>3. ASSUME NEW t \in Tracks
      PROVE  /\ seenAt[t] <= now
             /\ t \in todo => seenAt[t] # now
             /\ binding[t] = 0 <=> seenAt[t] = Never
             /\ binding[t] # 0 => seenAt[t] <= lastTs[binding[t]]
  <2>1. now = 0 /\ binding[t] = 0 /\ seenAt[t] = -1
    BY <1>2
  <2>2. seenAt[t] <= now /\ seenAt[t] # now
    BY <2>1
  <2> QED
    BY <2>1, <2>2 DEF Never
<1>4. Followed
  BY <1>3 DEF Followed
<1> QED
  BY <1>1, <1>4 DEF WindowInv

\* A new frame is later than everything seen.
LEMMA FrameKeepsWindow == WindowInv /\ NextFrame => WindowInv'
<1> SUFFICES ASSUME WindowInv, NextFrame PROVE WindowInv'
  OBVIOUS
<1>1. /\ now' \in Nat /\ now < now' /\ todo' \subseteq Tracks
      /\ UNCHANGED <<binding, lastTs, seenAt, revived>>
  BY IntervalsAreNumbers DEF WindowInv, TypeOK, NextFrame
<1>2. TypeOK'
  BY <1>1 DEF WindowInv, TypeOK
<1>3. seenAt \in [Tracks -> Nat \cup {Never}] /\ now \in Nat
  BY DEF WindowInv, TypeOK
<1>4. Followed'
  BY <1>1, <1>3 DEF WindowInv, Followed, Never
<1> QED
  BY <1>2, <1>4 DEF WindowInv

\* Every step keeps the window invariant.
LEMMA WindowStep == WindowInv /\ [Next]_vars => WindowInv'
<1> SUFFICES ASSUME WindowInv, [Next]_vars PROVE WindowInv'
  OBVIOUS
<1>1. CASE NextFrame
  BY <1>1, FrameKeepsWindow
<1>2. CASE Advance \/ Stitch \/ Mint
  BY <1>2, AssignCases, AssignKeepsWindow
<1>3. CASE UNCHANGED vars
  BY <1>3 DEF vars, WindowInv, TypeOK, Followed
<1> QED
  BY <1>1, <1>2, <1>3 DEF Next

\* Every variable of MotionTrackAssociator keeps its type: a track is bound to a
\* local that exists.
THEOREM TypeCorrect == Spec => []TypeOK
<1>1. WindowInv => TypeOK
  BY DEF WindowInv
<1> QED
  BY <1>1, WindowInit, WindowStep, PTL DEF Spec

\* A local was seen when the last of its tracks was.
LatestKnown == \A l \in 1..Len(lastTs) : \E t \in Tracks : binding[t] = l /\ seenAt[t] = lastTs[l]

\* An assignment moves no track from its local, so the other locals keep the
\* track that was last seen in them.
LEMMA AssignKeepsLatest ==
  ASSUME WindowInv, LatestKnown, Advance \/ Stitch \/ Mint
  PROVE  LatestKnown'
<1>1. PICK t \in todo, l \in 1..(Len(lastTs) + 1) :
         AssignTo(t, l) /\ (binding[t] = l \/ binding[t] = 0)
  BY AssignCases
<1>2. /\ t \in Tracks /\ Len(lastTs) \in Nat
      /\ binding' = [binding EXCEPT ![t] = l] /\ seenAt' = [seenAt EXCEPT ![t] = now]
      /\ binding \in [Tracks -> 0..Len(lastTs)] /\ seenAt \in [Tracks -> Nat \cup {Never}]
  BY <1>1 DEF WindowInv, TypeOK, AssignTo
<1>3. /\ Len(lastTs') = IF l > Len(lastTs) THEN Len(lastTs) + 1 ELSE Len(lastTs)
      /\ lastTs'[l] = now
      /\ \A k \in 1..Len(lastTs) : k # l => lastTs'[k] = lastTs[k]
  <2>1. lastTs' = IF l > Len(lastTs) THEN Append(lastTs, now) ELSE [lastTs EXCEPT ![l] = now]
    BY <1>1 DEF AssignTo
  <2> QED
    BY <2>1, LocalsGrow DEF WindowInv
<1>4. ASSUME NEW k \in 1..Len(lastTs')
      PROVE  \E u \in Tracks : binding'[u] = k /\ seenAt'[u] = lastTs'[k]
  <2>1. CASE k = l
    BY <2>1, <1>2, <1>3
  <2>2. CASE k # l
    <3>1. k \in 1..Len(lastTs)
      BY <2>2, <1>2, <1>3
    <3>2. PICK u \in Tracks : binding[u] = k /\ seenAt[u] = lastTs[k]
      BY <3>1 DEF LatestKnown
    <3>3. u # t
      BY <3>1, <3>2, <2>2, <1>1
    <3> QED
      BY <3>1, <3>2, <3>3, <2>2, <1>2, <1>3
  <2> QED
    BY <2>1, <2>2
<1> QED
  BY <1>4 DEF LatestKnown

\* The time window is measured from the moment the local was last seen, whichever
\* of its tracks that was: the motion state follows the tracks.
THEOREM LocalsFollow == Spec => []LocalsFollowTracks
<1> DEFINE LocalsInv == WindowInv /\ LatestKnown
<1>1. Init => LocalsInv
  <2>1. Init => Len(lastTs) = 0
    BY DEF Init
  <2> QED
    BY <2>1, WindowInit DEF LatestKnown
<1>2. LocalsInv /\ [Next]_vars => LocalsInv'
  <2> SUFFICES ASSUME LocalsInv, [Next]_vars PROVE LocalsInv'
    OBVIOUS
  <2>1. WindowInv'
    BY WindowStep
  <2>2. CASE Advance \/ Stitch \/ Mint
    BY <2>1, <2>2, AssignKeepsLatest
  <2>3. CASE NextFrame \/ UNCHANGED vars
    <3>1. UNCHANGED <<binding, lastTs, seenAt>>
      BY <2>3 DEF NextFrame, vars
    <3> QED
      BY <2>1, <3>1 DEF LatestKnown
  <2> QED
    BY <2>2, <2>3 DEF Next
<1>3. LocalsInv => LocalsFollowTracks
  <2> SUFFICES ASSUME LocalsInv, NEW l \in 1..Len(lastTs), NEW t \in Tracks, binding[t] = l
               PROVE  seenAt[t] <= lastTs[l]
    BY DEF LocalsFollowTracks, LatestKnown, WindowInv
  <2>1. binding[t] # 0
    OBVIOUS
  <2> QED
    BY <2>1 DEF WindowInv, Followed
<1> QED
  BY <1>1, <1>2, <1>3, PTL DEF Spec

\* _best_candidate never hands out the local of a track that is on screen, as
\* long as the sampled frames are no further apart than the lower bound of the
\* window, and even when tracks are revived.
THEOREM LiveLocalsAreNotStolen ==
  ASSUME FrameInterval <= MinGap
  PROVE  Spec => LiveNeverStolen
<1> DEFINE Stolen(t, u) == /\ t # u
                           /\ binding[t] = 0 /\ binding'[t] # 0
                           /\ binding[u] = binding'[t]
           Safe == \A t, u \in Tracks : Stolen(t, u) => ~Live(u)
<1>1. ASSUME WindowInv, Next, NEW t \in Tracks, NEW u \in Tracks, Stolen(t, u)
      PROVE  ~Live(u)
  <2>0. CASE NextFrame
    BY <1>1, <2>0 DEF NextFrame
  <2>1. CASE Advance \/ Stitch \/ Mint
    <3>1. PICK s \in todo, l \in 1..(Len(lastTs) + 1) :
            /\ AssignTo(s, l)
            /\ \/ binding[s] = l
               \/ binding[s] = 0 /\ (l = Len(lastTs) + 1 \/ now - lastTs[l] > MinGap)
      BY <1>1, <2>1, AssignCases
    <3>2. /\ now \in Nat /\ todo \subseteq Tracks /\ Len(lastTs) \in Nat
          /\ lastTs \in Seq(Nat)
          /\ binding \in [Tracks -> 0..Len(lastTs)]
          /\ seenAt \in [Tracks -> Nat \cup {Never}]
          /\ binding' = [binding EXCEPT ![s] = l]
      BY <1>1, <3>1 DEF WindowInv, TypeOK, AssignTo
    <3>3. s = t /\ binding'[t] = l /\ binding[u] = l
      BY <1>1, <3>1, <3>2
    <3>4. l \in 1..Len(lastTs) /\ now - lastTs[l] > MinGap
      BY <1>1, <3>1, <3>2, <3>3
    <3>5. seenAt[u] <= lastTs[l] /\ lastTs[l] \in Nat /\ seenAt[u] \in Int
      BY <1>1, <3>2, <3>3, <3>4 DEF WindowInv, Followed, Never
    <3>6. now - seenAt[u] > FrameInterval /\ seenAt[u] # now
      BY <3>2, <3>4, <3>5, IntervalsAreNumbers
    <3> QED
      BY <3>2, <3>5, <3>6, IntervalsAreNumbers DEF Live
  <2> QED
    BY <1>1, <2>0, <2>1 DEF Next
<1>2. WindowInv /\ [Next]_vars => [Safe]_vars
  BY <1>1
<1> QED
  BY <1>2, WindowInit, WindowStep, PTL DEF Spec, LiveNeverStolen

-------------------------------------------------------------------------------

\* Time passes, and only a track that has lapsed can come back: once lapsed, a
\* track stays lapsed.
LEMMA LapsedStays ==
  ASSUME WindowInv, NEW t \in Tracks, Lapsed(t), [Next]_vars
  PROVE  Lapsed(t)'
<1>1. /\ now \in Nat /\ FrameInterval \in Nat \ {0}
      /\ seenAt \in [Tracks -> Nat \cup {Never}] /\ todo \subseteq Tracks
  BY IntervalsAreNumbers DEF WindowInv, TypeOK
<1>2. CASE NextFrame
  <2>1. now' = now + FrameInterval /\ seenAt' = seenAt /\ revived' = revived
    BY <1>2 DEF NextFrame
  <2>2. CASE t \in revived
    BY <2>1, <2>2 DEF Lapsed
  <2>3. CASE Missed(t)
    <3>1. seenAt[t] # Never /\ seenAt[t] \in Nat /\ now - seenAt[t] > FrameInterval
      BY <1>1, <2>3 DEF Missed
    <3>2. now' - seenAt'[t] > FrameInterval
      BY <1>1, <2>1, <3>1
    <3> QED
      BY <2>1, <3>1, <3>2 DEF Lapsed, Missed
  <2> QED
    BY <2>2, <2>3 DEF Lapsed
<1>3. CASE Advance \/ Stitch \/ Mint
  <2>1. PICK s \in todo : \E l \in 1..(Len(lastTs) + 1) : AssignTo(s, l)
    BY <1>3, AssignCases
  <2>2. /\ now' = now
        /\ seenAt' = [seenAt EXCEPT ![s] = now]
        /\ revived' = IF Missed(s) THEN revived \cup {s} ELSE revived
    BY <2>1 DEF AssignTo
  <2>3. CASE t \in revived'
    BY <2>3 DEF Lapsed
  <2>4. CASE t \notin revived'
    <3>1. Missed(t) /\ t # s
      BY <2>2, <2>4 DEF Lapsed
    <3>2. seenAt'[t] = seenAt[t]
      BY <1>1, <2>2, <3>1
    <3> QED
      BY <2>2, <3>1, <3>2 DEF Lapsed, Missed
  <2> QED
    BY <2>3, <2>4
<1>4. CASE UNCHANGED vars
  BY <1>4 DEF vars, Lapsed, Missed
<1> QED
  BY <1>2, <1>3, <1>4 DEF Next

\* A track only joins a local whose other tracks have lapsed.
LEMMA AssignKeepsLapse ==
  ASSUME FrameInterval <= MinGap, LapseInv, Advance \/ Stitch \/ Mint
  PROVE  OneLapsed'
<1>0. WindowInv /\ OneLapsed
  BY DEF LapseInv
<1>1. PICK s \in todo, l \in 1..(Len(lastTs) + 1) :
        /\ AssignTo(s, l)
        /\ \/ binding[s] = l
           \/ binding[s] = 0 /\ (l = Len(lastTs) + 1 \/ now - lastTs[l] > MinGap)
  BY <1>0, AssignCases
<1>2. /\ now \in Nat /\ todo \subseteq Tracks
      /\ lastTs \in Seq(Nat) /\ Len(lastTs) \in Nat
      /\ binding \in [Tracks -> 0..Len(lastTs)]
      /\ seenAt \in [Tracks -> Nat \cup {Never}]
      /\ binding' = [binding EXCEPT ![s] = l]
  BY <1>0, <1>1 DEF WindowInv, TypeOK, AssignTo
<1>3. \A t \in Tracks : Lapsed(t) => Lapsed(t)'
  BY <1>0, LapsedStays DEF Next
\* The tracks of a local that track s newly joins have lapsed.
<1>4. ASSUME NEW u \in Tracks, binding[s] = 0, binding[u] = l
      PROVE  Lapsed(u)
  <2>1. l \in 1..Len(lastTs) /\ now - lastTs[l] > MinGap
    BY <1>1, <1>2, <1>4
  <2>2. /\ seenAt[u] <= lastTs[l] /\ lastTs[l] \in Nat /\ seenAt[u] # Never
        /\ seenAt[u] \in Nat
    BY <1>0, <1>2, <1>4, <2>1 DEF WindowInv, Followed
  <2>3. now - seenAt[u] > FrameInterval
    BY <1>2, <2>1, <2>2, IntervalsAreNumbers
  <2> QED
    BY <2>2, <2>3 DEF Lapsed, Missed
<1>5. ASSUME NEW t \in Tracks, NEW u \in Tracks, t # u,
             binding'[t] = binding'[u], binding'[t] # 0
      PROVE  Lapsed(t) \/ Lapsed(u)
  <2>1. CASE (t # s /\ u # s) \/ binding[s] = l
    BY <1>0, <1>1, <1>2, <1>5, <2>1 DEF OneLapsed
  <2>2. CASE t = s /\ binding[s] = 0
    BY <1>2, <1>4, <1>5, <2>2
  <2>3. CASE u = s /\ binding[s] = 0
    BY <1>2, <1>4, <1>5, <2>3
  <2> QED
    BY <1>1, <2>1, <2>2, <2>3
<1> QED
  BY <1>3, <1>5 DEF OneLapsed

\* Two people of one frame have two local ids unless one of them had been missed
\* and came back, on a clip whose sampled frames are no further apart than the
\* lower bound of the window: how far the promise of MotionTrackAssociator holds.
THEOREM OnlyRevivedTracksMerge ==
  ASSUME FrameInterval <= MinGap
  PROVE  Spec => []OnlyRevivalsMerge
<1>1. Init => LapseInv
  BY WindowInit DEF Init, LapseInv, OneLapsed
<1>2. LapseInv /\ [Next]_vars => LapseInv'
  <2> SUFFICES ASSUME LapseInv, [Next]_vars PROVE LapseInv'
    OBVIOUS
  <2>0. WindowInv /\ WindowInv'
    BY WindowStep DEF LapseInv
  <2>1. CASE NextFrame \/ UNCHANGED vars
    <3>1. binding' = binding
      BY <2>1 DEF NextFrame, vars
    <3>2. \A t \in Tracks : Lapsed(t) => Lapsed(t)'
      BY <2>0, LapsedStays
    <3> QED
      BY <2>0, <3>1, <3>2 DEF LapseInv, OneLapsed
  <2>2. CASE Advance \/ Stitch \/ Mint
    BY <2>0, <2>2, AssignKeepsLapse DEF LapseInv
  <2> QED
    BY <2>1, <2>2 DEF Next
<1>3. LapseInv => OnlyRevivalsMerge
  <2> SUFFICES ASSUME LapseInv, NEW t \in Tracks, NEW u \in Tracks,
                      t # u, seenAt[t] = now, seenAt[u] = now, binding[t] = binding[u]
               PROVE  t \in revived \/ u \in revived
    BY DEF OnlyRevivalsMerge
  <2>1. now \in Nat /\ binding[t] # 0 /\ FrameInterval \in Nat \ {0}
    BY IntervalsAreNumbers DEF LapseInv, WindowInv, TypeOK, Followed, Never
  <2>2. ~Missed(t) /\ ~Missed(u)
    BY <2>1 DEF Missed
  <2> QED
    BY <2>1, <2>2 DEF LapseInv, OneLapsed, Lapsed
<1> QED
  BY <1>1, <1>2, <1>3, PTL DEF Spec

-------------------------------------------------------------------------------
(* Split boxes *)

\* People i and j of the pose model's list: i stands left of j.
LeftOf(people, i, j) ==
  \/ people[i].footX < people[j].footX
  \/ people[i].footX = people[j].footX /\ i < j

-------------------------------------------------------------------------------

\* There are finitely many people in a box, fewer than SubStride.
LEMMA FewInside ==
  ASSUME NEW s \in Scenes, NEW b
  PROVE  /\ Inside(b, s.people) \subseteq 1..Len(s.people)
         /\ \A i \in Inside(b, s.people) : i \in Nat /\ s.people[i].footX \in Int
         /\ \A T \in SUBSET Inside(b, s.people) :
              /\ IsFiniteSet(T) /\ Cardinality(T) \in 0..(SubStride - 1)
              /\ Cardinality(T) <= Cardinality(Inside(b, s.people))
<1> DEFINE S == 1..Len(s.people)
           I == Inside(b, s.people)
<1>1. s.people \in Seq(Pose) /\ Len(s.people) \in Nat /\ Len(s.people) < SubStride /\ SubStride \in Nat
  BY GroupSplitAssumption
<1>2. I \subseteq S
  BY DEF Inside
<1>3. ASSUME NEW i \in I PROVE i \in Nat /\ s.people[i].footX \in Int
  <2>1. i \in 1..Len(s.people)
    BY <1>2
  <2>2. i \in Nat /\ s.people[i] \in Pose
    BY <2>1, <1>1
  <2> QED
    BY <2>2 DEF Pose
<1>4. IsFiniteSet(S) /\ Cardinality(S) = Len(s.people)
  <2> DEFINE m == Len(s.people)
  <2>1. m \in Nat
    BY <1>1
  <2> HIDE DEF m
  <2>2. IsFiniteSet(1..m) /\ Cardinality(1..m) = IF 1 > m THEN 0 ELSE m - 1 + 1
    BY <2>1, FS_Interval
  <2> QED
    BY <2>1, <2>2 DEF m
<1>5. IsFiniteSet(I)
  BY <1>2, <1>4, FS_Subset
<1> HIDE DEF I, S
<1>6. ASSUME NEW T \in SUBSET I
      PROVE  /\ IsFiniteSet(T) /\ Cardinality(T) \in 0..(SubStride - 1)
             /\ Cardinality(T) <= Cardinality(I)
  <2>1. IsFiniteSet(T) /\ Cardinality(T) <= Cardinality(I)
    BY <1>5, FS_Subset
  <2>2. T \in SUBSET S
    BY <1>2
  <2>3. Cardinality(T) <= Cardinality(S)
    BY <2>2, <1>4, FS_Subset
  <2>4. Cardinality(T) \in Nat
    BY <2>1, FS_CardinalityType
  <2> QED
    BY <2>1, <2>3, <2>4, <1>1, <1>4
<1> QED
  BY <1>2, <1>3, <1>6 DEF I, S

\* Who stands further left has the lower slot.
LEMMA SlotsFollowFeet ==
  ASSUME NEW s \in Scenes, NEW b,
         NEW i \in Inside(b, s.people), NEW j \in Inside(b, s.people),
         LeftOf(s.people, i, j)
  PROVE  Slot(b, s.people, i) < Slot(b, s.people, j)
<1> DEFINE I == Inside(b, s.people)
           Before1(k) == {m \in I : LeftOf(s.people, m, k)}
<1>1. Slot(b, s.people, i) = Cardinality(Before1(i)) /\ Slot(b, s.people, j) = Cardinality(Before1(j))
  BY DEF Slot, LeftOf
<1>2. \A k \in I : k \in Nat /\ s.people[k].footX \in Int
  BY FewInside
<1>3. i \notin Before1(i) /\ i \in Before1(j) /\ Before1(i) \subseteq Before1(j)
  BY <1>2 DEF LeftOf
<1>4. /\ Before1(i) \in SUBSET I /\ Before1(j) \in SUBSET I
  OBVIOUS
<1> HIDE DEF I
<1>5. /\ IsFiniteSet(Before1(i)) /\ IsFiniteSet(Before1(j))
      /\ Cardinality(Before1(i)) \in Nat /\ Cardinality(Before1(j)) \in Nat
  BY <1>4, FewInside, FS_CardinalityType DEF I
<1> HIDE DEF Before1
<1>6. Before1(i) # Before1(j)
  BY <1>3
<1>7. /\ Cardinality(Before1(i)) <= Cardinality(Before1(j))
      /\ Cardinality(Before1(i)) # Cardinality(Before1(j))
  BY <1>3, <1>5, <1>6, FS_Subset
<1> QED
  BY <1>1, <1>5, <1>7

\* The slots of the people in a box are 0, 1, ..., one each.
LEMMA SlotsAreRanks ==
  ASSUME NEW s \in Scenes, NEW b
  PROVE  LET I == Inside(b, s.people)
             n == Cardinality(I)
         IN /\ n \in 0..(SubStride - 1)
            /\ \A i, j \in I : Slot(b, s.people, i) = Slot(b, s.people, j) => i = j
            /\ {Slot(b, s.people, i) : i \in I} = 0..(n - 1)
<1> DEFINE I == Inside(b, s.people)
           n == Cardinality(I)
           slot == [i \in I |-> Slot(b, s.people, i)]
<1>1. n \in 0..(SubStride - 1) /\ n \in Nat /\ IsFiniteSet(I)
  BY FewInside, FS_CardinalityType
<1>2. ASSUME NEW i \in I, NEW j \in I, i # j
      PROVE  Slot(b, s.people, i) # Slot(b, s.people, j)
  <2>1. /\ i \in Nat /\ j \in Nat /\ s.people[i].footX \in Int /\ s.people[j].footX \in Int
    BY FewInside
  <2>2. LeftOf(s.people, i, j) \/ LeftOf(s.people, j, i)
    BY <2>1, <1>2 DEF LeftOf
  <2>3. Slot(b, s.people, i) < Slot(b, s.people, j) \/ Slot(b, s.people, j) < Slot(b, s.people, i)
    BY <2>2, SlotsFollowFeet
  <2>4. Slot(b, s.people, i) \in Nat /\ Slot(b, s.people, j) \in Nat
    <3>1. \A k \in I : Slot(b, s.people, k) \in 0..(SubStride - 1)
      BY FewInside DEF Slot
    <3> QED
      BY <3>1
  <2> QED
    BY <2>3, <2>4
<1>3. ASSUME NEW i \in I PROVE Slot(b, s.people, i) \in 0..(n - 1)
  <2> DEFINE left == {m \in I : LeftOf(s.people, m, i)}
  <2>1. Slot(b, s.people, i) = Cardinality(left)
    BY DEF Slot, LeftOf
  <2>2. i \notin left
    <3>1. i \in Nat /\ s.people[i].footX \in Int
      BY FewInside
    <3> QED
      BY <3>1 DEF LeftOf
  <2>3. left \in SUBSET I /\ left # I
    BY <2>2
  <2> HIDE DEF left, I
  <2>4. Cardinality(left) \in Nat /\ Cardinality(left) <= n /\ Cardinality(left) # n
    BY <2>3, <1>1, FS_Subset, FS_CardinalityType
  <2> QED
    BY <2>1, <2>4, <1>1
<1>4. IsFiniteSet(0..(n - 1)) /\ Cardinality(0..(n - 1)) = n
  <2>1. 0 \in Int /\ n - 1 \in Int
    BY <1>1
  <2> HIDE DEF n
  <2>2. Cardinality(0..(n - 1)) = IF 0 > n - 1 THEN 0 ELSE (n - 1) - 0 + 1
    BY <2>1, FS_Interval
  <2> QED
    BY <2>1, <2>2, <1>1, FS_Interval
<1>5. slot \in Injection(I, 0..(n - 1))
  BY <1>2, <1>3 DEF Injection, IsInjective
<1>6. slot \in Surjection(I, 0..(n - 1))
  <2> HIDE DEF slot, I, n
  <2> QED
    BY <1>1, <1>4, <1>5, FS_Injection DEF n
<1>7. \A k \in 0..(n - 1) : \E i \in I : slot[i] = k
  BY <1>6 DEF Surjection
<1> QED
  BY <1>1, <1>2, <1>3, <1>7

\* The numbers of sub-tracks rise with their slots, and tell the boxes apart:
\* they are above those of whole tracks.
LEMMA NumbersTellApart ==
  ASSUME NEW p \in 1..(SubStride - 1), NEW q \in 1..(SubStride - 1),
         NEW k \in 0..(SubStride - 1), NEW l \in 0..(SubStride - 1)
  PROVE  /\ p * SubStride + k = q * SubStride + l => p = q
         /\ p * SubStride + k # q
         /\ p * SubStride + k < p * SubStride + l <=> k < l
<1>1. SubStride \in Nat /\ SubStride > 0 /\ p * SubStride \in Int /\ q * SubStride \in Int
  BY GroupSplitAssumption
<1>2. ASSUME NEW x \in Nat, NEW y \in Nat, x < y PROVE x * SubStride + SubStride <= y * SubStride
  <2>1. y = x + 1 + (y - x - 1) /\ y - x - 1 \in Nat
    BY <1>2
  <2>2. \A a, d \in Nat : (a + 1 + d) * SubStride >= a * SubStride + SubStride
    BY <1>1, SMTT(30)
  <2> QED
    BY <2>1, <2>2
<1>3. p < q => p * SubStride + SubStride <= q * SubStride
  BY <1>2
<1>4. q < p => q * SubStride + SubStride <= p * SubStride
  BY <1>2
<1>5. 0 * SubStride + SubStride <= p * SubStride
  BY <1>2
<1>6. SubStride <= p * SubStride
  BY <1>1, <1>5
<1> QED
  BY <1>1, <1>3, <1>4, <1>6

\* A track of the box b is the whole of it, or one of its slots.
LEMMA NumberOfTrack ==
  ASSUME NEW s \in Scenes, NEW b \in s.boxes, NEW x \in Ids(SplitTrack(b, s.people))
  PROVE  /\ b.id \in 1..(SubStride - 1)
         /\ x = b.id \/ \E k \in 0..(SubStride - 1) : x = b.id * SubStride + k
<1>1. b.id \in 1..(SubStride - 1)
  BY GroupSplitAssumption
<1>2. CASE IsSplit(b, s.people)
  <2>1. PICK i \in Inside(b, s.people) : x = b.id * SubStride + Slot(b, s.people, i)
    BY <1>2 DEF Ids, SplitTrack
  <2>2. Slot(b, s.people, i) \in 0..(SubStride - 1)
    BY FewInside DEF Slot
  <2> QED
    BY <2>1, <2>2, <1>1
<1>3. CASE ~IsSplit(b, s.people)
  BY <1>1, <1>3 DEF Ids, SplitTrack
<1> QED
  BY <1>2, <1>3

\* What SplitSeatsEveryone says of one frame.
LEMMA SceneIsSeated ==
  ASSUME scene \in Scenes
  PROVE  SplitSeatsEveryone
<1> SUFFICES ASSUME NEW b \in scene.boxes
    PROVE  LET subs  == SplitTrack(b, scene.people)
               feet  == {scene.people[i].footX : i \in Inside(b, scene.people)}
               group == IsSplit(b, scene.people)
           IN
           /\ group => /\ Cardinality(subs) = Cardinality(Inside(b, scene.people))
                       /\ {t.footX : t \in subs} = feet
                       /\ Ids(subs) = {b.id * SubStride + k : k \in 0..(Cardinality(subs) - 1)}
                       /\ \A t, u \in subs : t.id < u.id => t.footX <= u.footX
           /\ ~group => Ids(subs) = {b.id}
           /\ \A c \in scene.boxes \ {b} : Ids(subs) \cap Ids(SplitTrack(c, scene.people)) = {}
  BY DEF SplitSeatsEveryone
<1> DEFINE people == scene.people
           I      == Inside(b, people)
           subs   == SplitTrack(b, people)
           track(i) == [id |-> b.id * SubStride + Slot(b, people, i), footX |-> people[i].footX]
<1>1. b.id \in 1..(SubStride - 1) /\ SubStride \in Nat /\ b.id * SubStride \in Int
  BY GroupSplitAssumption
<1>2. ~IsSplit(b, people) => Ids(subs) = {b.id}
  BY DEF Ids, SplitTrack
<1>3. ASSUME IsSplit(b, people)
      PROVE  /\ Cardinality(subs) = Cardinality(I)
             /\ {t.footX : t \in subs} = {people[i].footX : i \in I}
             /\ Ids(subs) = {b.id * SubStride + k : k \in 0..(Cardinality(subs) - 1)}
             /\ \A t, u \in subs : t.id < u.id => t.footX <= u.footX
  <2>1. subs = {track(i) : i \in I}
    BY <1>3 DEF SplitTrack
  <2>2. /\ \A i \in I : Slot(b, people, i) \in 0..(SubStride - 1)
        /\ IsFiniteSet(I)
    BY FewInside DEF Slot
  <2>3. /\ \A i, j \in I : Slot(b, people, i) = Slot(b, people, j) => i = j
        /\ {Slot(b, people, i) : i \in I} = 0..(Cardinality(I) - 1)
    BY SlotsAreRanks
  <2>4. Cardinality(subs) = Cardinality(I)
    <3> DEFINE f == [i \in I |-> track(i)]
    <3>1. \A i, j \in I : track(i) = track(j) => i = j
      <4> SUFFICES ASSUME NEW i \in I, NEW j \in I, track(i) = track(j) PROVE i = j
        OBVIOUS
      <4>1. b.id * SubStride + Slot(b, people, i) = b.id * SubStride + Slot(b, people, j)
        OBVIOUS
      <4>2. Slot(b, people, i) \in Int /\ Slot(b, people, j) \in Int
        BY <2>2
      <4>3. Slot(b, people, i) = Slot(b, people, j)
        BY <4>1, <4>2, <1>1
      <4> QED
        BY <4>3, <2>3
    <3>2. f \in Bijection(I, subs)
      BY <2>1, <3>1 DEF Bijection, Injection, Surjection, IsInjective
    <3>3. ExistsBijection(I, subs)
      BY <3>2 DEF ExistsBijection
    <3> QED
      BY <2>2, <3>3, FS_Bijection
  <2>9. \A i : track(i).id = b.id * SubStride + Slot(b, people, i) /\ track(i).footX = people[i].footX
    OBVIOUS
  <2>5. Ids(subs) = {b.id * SubStride + k : k \in {Slot(b, people, i) : i \in I}}
    <3> HIDE DEF track, subs, I, people
    <3>1. Ids(subs) = {track(i).id : i \in I}
      BY <2>1, Zenon DEF Ids
    <3>2. {track(i).id : i \in I} = {b.id * SubStride + Slot(b, people, i) : i \in I}
      BY <2>9
    <3> QED
      BY <3>1, <3>2, Zenon
  <2>6. {t.footX : t \in subs} = {people[i].footX : i \in I}
    <3> HIDE DEF track, subs, I, people
    <3>1. {t.footX : t \in subs} = {track(i).footX : i \in I}
      BY <2>1, Zenon
    <3> QED
      BY <3>1, <2>9
  <2>7. ASSUME NEW i \in I, NEW j \in I, track(i).id < track(j).id
        PROVE  people[i].footX <= people[j].footX
    <3>1. /\ Slot(b, people, i) \in 0..(SubStride - 1) /\ Slot(b, people, j) \in 0..(SubStride - 1)
          /\ people[i].footX \in Int /\ people[j].footX \in Int
      BY <2>2, FewInside
    <3>2. Slot(b, people, i) < Slot(b, people, j)
      BY <3>1, <2>7, <1>1
    <3>3. LeftOf(people, j, i) => Slot(b, people, j) < Slot(b, people, i)
      BY SlotsFollowFeet
    <3>4. ~LeftOf(people, j, i)
      BY <3>1, <3>2, <3>3
    <3> QED
      BY <3>1, <3>4 DEF LeftOf
  <2>8. \A t, u \in subs : t.id < u.id => t.footX <= u.footX
    BY <2>1, <2>7
  <2> QED
    BY <2>3, <2>4, <2>5, <2>6, <2>8
<1>4. ASSUME NEW c \in scene.boxes \ {b}
      PROVE  Ids(subs) \cap Ids(SplitTrack(c, people)) = {}
  <2> SUFFICES ASSUME NEW x \in Ids(subs), x \in Ids(SplitTrack(c, people)) PROVE FALSE
    OBVIOUS
  <2>1. b.id # c.id
    BY GroupSplitAssumption
  <2>2. /\ b.id \in 1..(SubStride - 1)
        /\ x = b.id \/ \E k \in 0..(SubStride - 1) : x = b.id * SubStride + k
    BY NumberOfTrack
  <2>3. /\ c.id \in 1..(SubStride - 1)
        /\ x = c.id \/ \E k \in 0..(SubStride - 1) : x = c.id * SubStride + k
    BY NumberOfTrack
  <2> QED
    BY <2>1, <2>2, <2>3, NumbersTellApart
<1> QED
  BY <1>2, <1>3, <1>4

-------------------------------------------------------------------------------

\* The people of a split box get a track each, numbered from the left without a
\* gap, and no two tracks of a frame have one number: whatever the scenes.
THEOREM EveryoneIsSeated == GroupSpec => []SplitSeatsEveryone
<1>1. GroupInit => scene \in Scenes
  BY DEF GroupInit
<1>2. scene \in Scenes /\ [GroupNext]_groupVars => (scene \in Scenes)'
  BY DEF GroupNext, ReadFrame, Assign, groupVars
<1>3. scene \in Scenes => SplitSeatsEveryone
  BY SceneIsSeated
<1> QED
  BY <1>1, <1>2, <1>3, PTL DEF GroupSpec

\* Behind the splitter the associator is the associator of its own module.
THEOREM SplitImplementsAssociation == GroupSpec => Spec
<1>1. GroupInit => Init
  BY DEF GroupInit
<1>2. [GroupNext]_groupVars => [Next]_vars
  BY DEF GroupNext, ReadFrame, Assign, groupVars, Next
<1> QED
  BY <1>1, <1>2, PTL DEF GroupSpec, Spec

\* So the motion state of the locals follows the sub-tracks, ...
THEOREM LocalsFollowSubTracks == GroupSpec => []LocalsFollowTracks
<1>1. Spec => []LocalsFollowTracks
  BY LocalsFollow
<1> QED
  BY <1>1, SplitImplementsAssociation, PTL

\* ... no new sub-track takes the local of a track on screen ...
THEOREM SubTracksStealNothing ==
  ASSUME FrameInterval <= MinGap
  PROVE  GroupSpec => LiveNeverStolen
BY SplitImplementsAssociation, LiveLocalsAreNotStolen

\* ... and of two sub-tracks of one frame with one local, one had been missed.
THEOREM OnlyRevivedSubTracksMerge ==
  ASSUME FrameInterval <= MinGap
  PROVE  GroupSpec => []OnlyRevivalsMerge
<1>1. Spec => []OnlyRevivalsMerge
  BY OnlyRevivedTracksMerge
<1> QED
  BY <1>1, SplitImplementsAssociation, PTL

===============================================================================
