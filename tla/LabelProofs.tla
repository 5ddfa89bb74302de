------------------------------ MODULE LabelProofs ------------------------------
(***************************************************************************)
(* Proofs about what the events are labelled with.  Of the staff decision  *)
(* and the harvest, for any tracks and visitors and any number of crashes: *)
(* what is asked and paid for, that the flag of a track does not change    *)
(* within a pass, and what a crash can take from the sidecar.  Of the      *)
(* script that labels the events file, for any passes, sidecars and        *)
(* crashes: that the events survive it, that the labels are of its last    *)
(* run, and that its groups are the arrivals linked within the window.     *)
(***************************************************************************)
EXTENDS Staff, Enrich, FiniteSetTheorems, SequenceTheorems, WellFoundedInduction, TLAPS

\* The call about visitor v was answered, and the answer is not kept yet.
Pending(v) == answer # NoVerdict /\ Visitor[answer.track] = v

\* The values of the variables.
TypeInv ==
  /\ colour \in [Tracks -> {"below", "above", "decisive"}]
  /\ early \subseteq crops /\ crops \subseteq Tracks
  /\ verdicts \in [DOMAIN verdicts -> Verdicts] /\ cache \in [DOMAIN cache -> Verdicts]
  /\ failed \subseteq Visitors
  /\ answer \in Answers \cup {NoVerdict}
  /\ flags \in [Tracks -> SUBSET BOOLEAN]
  /\ {asked, paid, lost} \subseteq [Visitors -> Nat]

\* A call leaves a trace that keeps the pass from another one: it failed, it has
\* a verdict, or its answer is under way; and a visitor under way has no other trace.
AskedInv ==
  /\ failed \cap DOMAIN verdicts = {}
  /\ answer # NoVerdict => /\ Visitor[answer.track] \notin failed \cup DOMAIN verdicts \cup DOMAIN cache
                           /\ colour[answer.track] # "decisive"
  /\ \A v \in Visitors :
       /\ asked[v] <= 1
       /\ asked[v] = 1 => v \in failed \/ v \in DOMAIN verdicts \/ Pending(v)

\* Every answer that was paid for is on disk, under way or lost (unreadable, or
\* taken by a crash).
PaidInv ==
  \A v \in Visitors :
    paid[v] <= lost[v] + (IF v \in DOMAIN cache \/ Pending(v) THEN 1 ELSE 0)

StaffInv == TypeInv /\ AskedInv /\ PaidInv

\* Where the presence fallback is off, a track has one flag to carry once it is
\* decided: by its colour, by a failed call, or by the verdict on its visitor.
Decided(t) == colour[t] = "decisive" \/ Visitor[t] \in failed \cup DOMAIN verdicts
FlagBy(t, verdict) == IF verdict.sure THEN verdict.staff ELSE colour[t] # "below"
FlagNow(t) ==
  IF colour[t] = "decisive" THEN TRUE
  ELSE IF Visitor[t] \in failed THEN colour[t] # "below"
  ELSE FlagBy(t, verdicts[Visitor[t]])

FlagInv ==
  \A t \in early : flags[t] \subseteq (IF Decided(t) THEN {FlagNow(t)} ELSE {})

-------------------------------------------------------------------------------

\* What an entry more makes of the verdicts, of a pass or on disk.
LEMMA WithEntry ==
  ASSUME NEW D, NEW f \in [D -> Verdicts], NEW v, NEW x \in Verdicts
  PROVE  /\ With(f, v, x) \in [D \cup {v} -> Verdicts]
         /\ With(f, v, x)[v] = x
         /\ \A w \in D : w # v => With(f, v, x)[w] = f[w]
BY DEF With

\* No pass has begun.
LEMMA StaffInit == Init => StaffInv
<1> SUFFICES ASSUME Init PROVE StaffInv
  OBVIOUS
<1>1. DOMAIN verdicts = {} /\ DOMAIN cache = {}
  BY DEF Init
<1>2. verdicts \in [DOMAIN verdicts -> Verdicts] /\ cache \in [DOMAIN cache -> Verdicts]
  BY DEF Init
<1>3. TypeInv
  BY <1>2 DEF Init, TypeInv
<1> QED
  BY <1>1, <1>3 DEF Init, StaffInv, AskedInv, PaidInv, Pending

\* An event that is flagged without a call: a crop, the colour, a verdict that is
\* there, or the fallback.
LEMMA FlagKeeps ==
  ASSUME StaffInv, NEW t \in Tracks, NEW long \in BOOLEAN,
         GainCrop(t) \/ Override(t) \/ UseVerdict(t, long) \/ FallBack(t, long)
  PROVE  StaffInv'
<1>1. TypeInv /\ AskedInv /\ PaidInv
  BY DEF StaffInv
<1>2. \A staff \in BOOLEAN : Flag(t, staff) => flags' \in [Tracks -> SUBSET BOOLEAN]
  BY <1>1 DEF TypeInv, Flag
<1>3. ByHeuristic(t, long) \in BOOLEAN
  BY DEF ByHeuristic
<1>4. \A x \in Verdicts : ByVerdict(t, long, x) => flags' \in [Tracks -> SUBSET BOOLEAN]
  BY <1>2, <1>3 DEF ByVerdict, Verdicts
<1>5. /\ flags' \in [Tracks -> SUBSET BOOLEAN]
      /\ early' = early /\ colour' = colour /\ crops \subseteq crops' /\ crops' \subseteq Tracks
      /\ UNCHANGED <<failed, cache, answer, asked, paid, lost>>
  <2>1. CASE GainCrop(t)
    BY <2>1, <1>1 DEF GainCrop, TypeInv
  <2>2. CASE Override(t)
    BY <2>2, <1>1, <1>2 DEF Override, TypeInv, people
  <2>3. CASE FallBack(t, long)
    BY <2>3, <1>1, <1>2, <1>3 DEF FallBack, TypeInv, people
  <2>4. CASE UseVerdict(t, long)
    <3>1. \/ Visitor[t] \in DOMAIN verdicts /\ ByVerdict(t, long, verdicts[Visitor[t]])
          \/ Visitor[t] \in DOMAIN cache /\ ByVerdict(t, long, cache[Visitor[t]])
      BY <2>4 DEF UseVerdict
    <3>2. flags' \in [Tracks -> SUBSET BOOLEAN]
      BY <3>1, <1>1, <1>4 DEF TypeInv
    <3> QED
      BY <2>4, <3>2, <1>1 DEF UseVerdict, TypeInv, people
  <2> QED
    BY <2>1, <2>2, <2>3, <2>4
<1>6. /\ verdicts' \in [DOMAIN verdicts' -> Verdicts]
      /\ DOMAIN verdicts \subseteq DOMAIN verdicts'
      /\ verdicts' # verdicts =>
           answer = NoVerdict /\ DOMAIN verdicts' = DOMAIN verdicts \cup {Visitor[t]} /\ Visitor[t] \notin failed
  <2>1. CASE UNCHANGED verdicts
    BY <2>1, <1>1 DEF TypeInv
  <2>2. CASE verdicts' # verdicts
    <3>1. UseVerdict(t, long)
      BY <2>2 DEF GainCrop, Override, FallBack
    <3>2. /\ Visitor[t] \in DOMAIN cache /\ verdicts' = With(verdicts, Visitor[t], cache[Visitor[t]])
          /\ answer = NoVerdict /\ Visitor[t] \notin failed
      BY <2>2, <3>1 DEF UseVerdict, Free
    <3>3. cache[Visitor[t]] \in Verdicts /\ verdicts \in [DOMAIN verdicts -> Verdicts]
      BY <3>2, <1>1 DEF TypeInv
    <3>4. verdicts' \in [DOMAIN verdicts \cup {Visitor[t]} -> Verdicts]
      BY <3>2, <3>3, WithEntry
    <3> QED
      BY <3>2, <3>4
  <2> QED
    BY <2>1, <2>2
<1>7. TypeInv'
  BY <1>1, <1>5, <1>6 DEF TypeInv
<1>8. AskedInv'
  BY <1>1, <1>5, <1>6 DEF AskedInv, Pending
<1>9. PaidInv'
  BY <1>1, <1>5 DEF PaidInv, Pending
<1> QED
  BY <1>7, <1>8, <1>9 DEF StaffInv

\* A call: nothing says yet that the visitor was asked about.
LEMMA CallKeeps ==
  ASSUME StaffInv, NEW t \in Tracks, NEW long \in BOOLEAN,
         NoAnswer(t, long) \/ Unreadable(t, long) \/ \E verdict \in Verdicts : Ask(t, verdict)
  PROVE  StaffInv'
<1> DEFINE v == Visitor[t]
<1>1. TypeInv /\ AskedInv /\ PaidInv
  BY DEF StaffInv
<1>2. /\ v \in Visitors /\ answer = NoVerdict /\ colour[t] # "decisive"
      /\ v \notin failed \cup DOMAIN verdicts \cup DOMAIN cache
  BY DEF MayAsk, Free, NoAnswer, Unreadable, AskFails, Ask, Visitors
<1>3. asked[v] = 0 /\ paid[v] <= lost[v]
  BY <1>1, <1>2 DEF TypeInv, AskedInv, PaidInv, Pending
<1>4. asked' = [asked EXCEPT ![v] = @ + 1] /\ asked' \in [Visitors -> Nat]
  BY <1>1, <1>2 DEF NoAnswer, Unreadable, AskFails, Ask, TypeInv
<1>5. CASE NoAnswer(t, long) \/ Unreadable(t, long)
  <2>0. AskFails(t, long)
    BY <1>5 DEF NoAnswer, Unreadable
  <2>1. ByHeuristic(t, long) \in BOOLEAN
    BY DEF ByHeuristic
  <2>2. flags' \in [Tracks -> SUBSET BOOLEAN]
    BY <2>0, <2>1, <1>1 DEF AskFails, Flag, TypeInv
  <2>3. failed' = failed \cup {v} /\ UNCHANGED <<people, verdicts, cache, answer>>
    BY <2>0 DEF AskFails
  <2>7. /\ {paid', lost'} \subseteq [Visitors -> Nat]
        /\ \A w \in Visitors : \E n \in {0, 1} : paid'[w] = paid[w] + n /\ lost'[w] = lost[w] + n
    <3>1. {paid, lost} \subseteq [Visitors -> Nat]
      BY <1>1 DEF TypeInv
    <3>2. CASE NoAnswer(t, long)
      BY <3>1, <3>2 DEF NoAnswer
    <3>3. CASE Unreadable(t, long)
      <4>1. paid' = [paid EXCEPT ![v] = @ + 1] /\ lost' = [lost EXCEPT ![v] = @ + 1]
        BY <3>3 DEF Unreadable
      <4> QED
        BY <4>1, <3>1, <1>2
    <3> QED
      BY <1>5, <3>2, <3>3
  <2>4. TypeInv'
    BY <2>2, <2>3, <2>7, <1>1, <1>2, <1>4 DEF TypeInv, people
  <2>5. AskedInv'
    BY <2>3, <1>1, <1>2, <1>3, <1>4 DEF AskedInv, Pending, TypeInv
  <2>6. PaidInv'
    BY <2>3, <2>7, <1>1 DEF PaidInv, Pending, TypeInv
  <2> QED
    BY <2>4, <2>5, <2>6 DEF StaffInv
<1>6. ASSUME NEW verdict \in Verdicts, Ask(t, verdict)
      PROVE  StaffInv'
  <2>1. /\ answer' = [track |-> t, verdict |-> verdict]
        /\ paid' = [paid EXCEPT ![v] = @ + 1]
        /\ UNCHANGED <<people, verdicts, failed, cache, flags, lost>>
    BY <1>6 DEF Ask
  <2>2. answer' \in Answers /\ answer'.track = t
    BY <2>1 DEF Answers
  <2>3. answer' # NoVerdict
    BY <2>2, StaffAssumption
  <2>4. TypeInv'
    BY <2>1, <2>2, <1>1, <1>2, <1>4 DEF TypeInv, people
  <2>5. \A w \in Visitors : Pending(w)' <=> w = v
    BY <2>2, <2>3 DEF Pending
  <2>6. AskedInv'
    BY <2>1, <2>2, <2>5, <1>1, <1>2, <1>3, <1>4 DEF AskedInv, Pending, TypeInv, people
  <2>7. PaidInv'
    BY <2>1, <2>5, <1>1, <1>2, <1>3 DEF PaidInv, Pending, TypeInv
  <2> QED
    BY <2>4, <2>6, <2>7 DEF StaffInv
<1> QED
  BY <1>5, <1>6

\* The answer is kept: from under way it comes to disk.
LEMMA KeepKeeps ==
  ASSUME StaffInv, NEW long \in BOOLEAN, Keep(long)
  PROVE  StaffInv'
<1> DEFINE v == Visitor[answer.track]
<1>1. TypeInv /\ AskedInv /\ PaidInv
  BY DEF StaffInv
<1>2. /\ answer \in Answers /\ answer # NoVerdict /\ answer.track \in Tracks
      /\ answer.verdict \in Verdicts
  BY <1>1 DEF Keep, TypeInv, Answers
<1>3. /\ verdicts' = With(verdicts, v, answer.verdict) /\ cache' = With(cache, v, answer.verdict)
      /\ answer' = NoVerdict /\ UNCHANGED <<people, failed, asked, paid, lost>>
  BY DEF Keep
<1>4. /\ verdicts' \in [DOMAIN verdicts' -> Verdicts] /\ cache' \in [DOMAIN cache' -> Verdicts]
      /\ DOMAIN verdicts' = DOMAIN verdicts \cup {v} /\ DOMAIN cache' = DOMAIN cache \cup {v}
  <2> HIDE DEF v
  <2>1. verdicts \in [DOMAIN verdicts -> Verdicts] /\ cache \in [DOMAIN cache -> Verdicts]
    BY <1>1 DEF TypeInv
  <2>2. verdicts' \in [DOMAIN verdicts \cup {v} -> Verdicts]
    BY <2>1, <1>2, <1>3, WithEntry
  <2>3. cache' \in [DOMAIN cache \cup {v} -> Verdicts]
    BY <2>1, <1>2, <1>3, WithEntry
  <2> QED
    BY <2>2, <2>3
<1>5. flags' \in [Tracks -> SUBSET BOOLEAN]
  <2>1. ByHeuristic(answer.track, long) \in BOOLEAN
    BY DEF ByHeuristic
  <2>2. ByVerdict(answer.track, long, answer.verdict)
    BY DEF Keep
  <2> QED
    BY <2>1, <2>2, <1>1, <1>2 DEF ByVerdict, Flag, Verdicts, TypeInv
<1>6. TypeInv'
  BY <1>1, <1>3, <1>4, <1>5 DEF TypeInv, people
<1>7. \A w \in Visitors : ~Pending(w)' /\ (Pending(w) => w = v)
  BY <1>3 DEF Pending
<1>8. AskedInv'
  <2>1. v \notin failed \cup DOMAIN verdicts \cup DOMAIN cache
    BY <1>1, <1>2 DEF AskedInv
  <2>2. failed' \cap DOMAIN verdicts' = {}
    BY <2>1, <1>1, <1>3, <1>4 DEF AskedInv
  <2>3. ASSUME NEW w \in Visitors
        PROVE  asked'[w] <= 1 /\ (asked'[w] = 1 => w \in failed' \/ w \in DOMAIN verdicts')
    BY <1>1, <1>3, <1>4, <1>7 DEF AskedInv
  <2> HIDE DEF v
  <2> QED
    BY <2>2, <2>3, <1>3 DEF AskedInv
<1>9. PaidInv'
  <2> HIDE DEF v
  <2>1. \A w \in Visitors : w \in DOMAIN cache \/ Pending(w) => w \in DOMAIN cache'
    BY <1>4, <1>7
  <2>2. paid' = paid /\ lost' = lost /\ {paid, lost} \subseteq [Visitors -> Nat]
    BY <1>1, <1>3 DEF TypeInv
  <2> QED
    BY <2>1, <2>2, <1>1 DEF PaidInv
<1> QED
  BY <1>6, <1>8, <1>9 DEF StaffInv

\* A pass ends: what it kept in memory goes, and an answer under way is lost.
LEMMA PassEndKeeps == StaffInv /\ (EndPass \/ Restart) => StaffInv'
<1> SUFFICES ASSUME StaffInv, EndPass \/ Restart PROVE StaffInv'
  OBVIOUS
<1>1. TypeInv /\ AskedInv /\ PaidInv
  BY DEF StaffInv
<1>2. /\ verdicts' = <<>> /\ failed' = {} /\ answer' = NoVerdict
      /\ flags' = [t \in Tracks |-> {}] /\ asked' = [v \in Visitors |-> 0]
      /\ early' = early /\ colour' = colour /\ crops' \in {early, crops}
      /\ UNCHANGED <<cache, paid>>
  BY DEF EndPass, Restart, Forget, people
<1>3. /\ lost' \in [Visitors -> Nat]
      /\ \A v \in Visitors : lost'[v] = lost[v] + (IF Pending(v) THEN 1 ELSE 0)
  <2>1. CASE EndPass
    BY <2>1, <1>1 DEF EndPass, Free, Pending, TypeInv
  <2>2. CASE Restart /\ answer = NoVerdict
    BY <2>2, <1>1 DEF Restart, Pending, TypeInv
  <2>3. CASE Restart /\ answer # NoVerdict
    <3>1. Visitor[answer.track] \in Visitors
      BY <2>3, <1>1 DEF TypeInv, Answers, Visitors
    <3>2. lost' = [lost EXCEPT ![Visitor[answer.track]] = @ + 1]
      BY <2>3 DEF Restart
    <3> QED
      BY <2>3, <3>1, <3>2, <1>1 DEF Pending, TypeInv
  <2> QED
    BY <2>1, <2>2, <2>3
<1>4. DOMAIN verdicts' = {} /\ verdicts' \in [DOMAIN verdicts' -> Verdicts]
  BY <1>2
<1>5. TypeInv'
  BY <1>1, <1>2, <1>3, <1>4 DEF TypeInv
<1>6. \A v \in Visitors : ~Pending(v)'
  BY <1>2 DEF Pending
<1>7. AskedInv'
  BY <1>2, <1>4, <1>6 DEF AskedInv
<1>8. PaidInv'
  <2> SUFFICES ASSUME NEW v \in Visitors
               PROVE  paid'[v] <= lost'[v] + (IF v \in DOMAIN cache' THEN 1 ELSE 0)
    BY <1>6 DEF PaidInv
  <2>1. paid[v] <= lost[v] + (IF v \in DOMAIN cache \/ Pending(v) THEN 1 ELSE 0)
    BY <1>1 DEF PaidInv
  <2>2. paid[v] \in Nat /\ lost[v] \in Nat
    BY <1>1 DEF TypeInv
  <2> QED
    BY <2>1, <2>2, <1>2, <1>3
<1> QED
  BY <1>5, <1>7, <1>8 DEF StaffInv

\* The steps of the harvest leave the decision alone.
HarvestStep ==
  \/ \E v \in Visitors : Label(v) \/ LabelFails(v)
  \/ Merge \/ Written \/ NoHarvest

\* What the staff decision keeps is as it was after them.
LEMMA HarvestLeaves ==
  ASSUME HarvestStep \/ UNCHANGED vars
  PROVE  UNCHANGED <<colour, early, crops, verdicts, failed, cache, answer, flags, asked, paid, lost>>
BY DEF HarvestStep, Label, LabelFails, Merge, Written, NoHarvest, vars, people

\* The steps, by what they do to the decision.
LEMMA StepKinds ==
  ASSUME [Next]_vars
  PROVE  \/ \E t \in Tracks, long \in BOOLEAN :
              GainCrop(t) \/ Override(t) \/ UseVerdict(t, long) \/ FallBack(t, long)
         \/ \E t \in Tracks, long \in BOOLEAN :
              NoAnswer(t, long) \/ Unreadable(t, long) \/ \E verdict \in Verdicts : Ask(t, verdict)
         \/ \E long \in BOOLEAN : Keep(long)
         \/ EndPass \/ Restart
         \/ HarvestStep \/ UNCHANGED vars
BY DEF Next, HarvestStep

\* Every step keeps the invariant.
LEMMA StaffStep == StaffInv /\ [Next]_vars => StaffInv'
<1> SUFFICES ASSUME StaffInv, [Next]_vars PROVE StaffInv'
  OBVIOUS
<1>1. CASE HarvestStep \/ UNCHANGED vars
  BY <1>1, HarvestLeaves DEF StaffInv, TypeInv, AskedInv, PaidInv, Pending
<1> QED
  BY <1>1, StepKinds, FlagKeeps, CallKeeps, KeepKeeps, PassEndKeeps

\* A pass asks at most once about a visitor, and no answer is paid for twice
\* unless the first could not be read or a crash took it: "ONE VLM call", "re-runs make no API calls".
THEOREM VerdictsArePaidOnce == Spec => []PaidOnce
<1>1. StaffInv => PaidOnce
  <2> SUFFICES ASSUME StaffInv, NEW v \in Visitors
               PROVE  asked[v] <= 1 /\ paid[v] <= 1 + lost[v]
    BY DEF PaidOnce
  <2>1. paid[v] \in Nat /\ lost[v] \in Nat
    BY DEF StaffInv, TypeInv
  <2> QED
    BY <2>1 DEF StaffInv, AskedInv, PaidInv
<1> QED
  BY <1>1, StaffInit, StaffStep, PTL DEF Spec

-------------------------------------------------------------------------------

\* Adding one value to the flags of a track.
LEMMA OneFlagMore ==
  ASSUME TypeInv, NEW t \in Tracks, NEW staff, Flag(t, staff)
  PROVE  /\ flags'[t] = flags[t] \cup {staff}
         /\ \A u \in Tracks : u # t => flags'[u] = flags[u]
BY DEF Flag, TypeInv

\* An event carries what is decided of its track, once it is.
LEMMA FlagStep ==
  ASSUME ~PresenceFallback, StaffInv, FlagInv, [Next]_vars
  PROVE  FlagInv'
<1>1. TypeInv /\ AskedInv /\ early \subseteq Tracks
  BY DEF StaffInv, TypeInv
<1>2. \A t, long : ByHeuristic(t, long) <=> colour[t] # "below"
  BY DEF ByHeuristic
<1>3. CASE HarvestStep \/ UNCHANGED vars
  BY <1>3, HarvestLeaves DEF FlagInv, Decided, FlagNow, FlagBy
<1>4. CASE EndPass \/ Restart
  <2>1. flags' = [t \in Tracks |-> {}] /\ early' = early
    BY <1>4 DEF EndPass, Restart, Forget, people
  <2>2. \A t \in early' : flags'[t] = {}
    BY <2>1, <1>1
  <2> QED
    BY <2>2 DEF FlagInv
\* A step that flags track s and decides no other visitor than the one of s.
<1>5. ASSUME NEW s \in Tracks, NEW staff \in BOOLEAN,
             flags' = flags \/ Flag(s, staff), UNCHANGED <<colour, early>>,
             failed' \in {failed, failed \cup {Visitor[s]}},
             Visitor[s] \in failed' => Visitor[s] \notin DOMAIN verdicts',
             \A w \in DOMAIN verdicts : w \in DOMAIN verdicts' /\ verdicts'[w] = verdicts[w],
             DOMAIN verdicts' \subseteq DOMAIN verdicts \cup {Visitor[s]},
             s \in early /\ flags' # flags => Decided(s)' /\ staff = FlagNow(s)'
      PROVE  FlagInv'
  <2> SUFFICES ASSUME NEW t \in early
               PROVE  flags'[t] \subseteq (IF Decided(t)' THEN {FlagNow(t)'} ELSE {})
    BY <1>5 DEF FlagInv
  <2>1. flags[t] \subseteq (IF Decided(t) THEN {FlagNow(t)} ELSE {})
    BY DEF FlagInv
  <2>2. Decided(t) => Decided(t)'
    BY <1>5 DEF Decided
  <2>3. Decided(t) => FlagNow(t)' = FlagNow(t)
    <3>1. colour' = colour /\ failed \cap DOMAIN verdicts = {}
      BY <1>1, <1>5 DEF AskedInv
    <3>2. CASE colour[t] = "decisive"
      BY <3>1, <3>2 DEF FlagNow
    <3>3. CASE colour[t] # "decisive" /\ Visitor[t] \in failed
      BY <3>1, <3>3, <1>5 DEF FlagNow
    <3>4. CASE colour[t] # "decisive" /\ Visitor[t] \in DOMAIN verdicts
      <4>1. Visitor[t] \notin failed /\ Visitor[t] \notin failed'
        BY <3>1, <3>4, <1>5
      <4>2. verdicts'[Visitor[t]] = verdicts[Visitor[t]]
        BY <3>4, <1>5
      <4> QED
        BY <4>1, <4>2, <3>1, <3>4 DEF FlagNow, FlagBy
    <3> QED
      BY <3>2, <3>3, <3>4 DEF Decided
  <2>4. flags[t] \subseteq (IF Decided(t)' THEN {FlagNow(t)'} ELSE {})
    BY <2>1, <2>2, <2>3
  <2>5. CASE t # s \/ flags' = flags
    BY <2>4, <2>5, <1>1, <1>5, OneFlagMore
  <2>6. CASE t = s /\ flags' # flags
    <3>1. flags'[t] = flags[t] \cup {staff}
      BY <2>6, <1>1, <1>5, OneFlagMore
    <3> QED
      BY <3>1, <2>4, <2>6, <1>5
  <2> QED
    BY <2>5, <2>6
<1>6. ASSUME NEW t \in Tracks, GainCrop(t) PROVE FlagInv'
  BY <1>6 DEF GainCrop, FlagInv, Decided, FlagNow, FlagBy
<1>7. ASSUME NEW t \in Tracks, Override(t) PROVE FlagInv'
  <2>1. Decided(t)' /\ FlagNow(t)' = TRUE
    BY <1>7 DEF Override, people, Decided, FlagNow
  <2>2. /\ Flag(t, TRUE) /\ UNCHANGED <<colour, early, failed, verdicts>>
    BY <1>7 DEF Override, people
  <2>3. failed \cap DOMAIN verdicts = {}
    BY <1>1 DEF AskedInv
  <2> QED
    BY <2>1, <2>2, <2>3, <1>5
<1>8. ASSUME NEW t \in Tracks, NEW long \in BOOLEAN, FallBack(t, long) PROVE FlagInv'
  <2>1. /\ Flag(t, ByHeuristic(t, long)) /\ UNCHANGED <<colour, early, failed, verdicts>>
        /\ colour[t] # "decisive" /\ (t \in crops => Visitor[t] \in failed)
    BY <1>8 DEF FallBack, people
  <2>2. t \in early => Decided(t)' /\ FlagNow(t)' = (colour[t] # "below")
    BY <2>1, <1>1 DEF TypeInv, Decided, FlagNow
  <2>3. failed \cap DOMAIN verdicts = {}
    BY <1>1 DEF AskedInv
  <2>4. Flag(t, colour[t] # "below") /\ (colour[t] # "below") \in BOOLEAN
    BY <2>1, <1>2 DEF ByHeuristic
  <2> QED
    BY <2>1, <2>2, <2>3, <2>4, <1>5
<1>9. ASSUME NEW t \in Tracks, NEW long \in BOOLEAN, NoAnswer(t, long) \/ Unreadable(t, long)
      PROVE  FlagInv'
  <2>1. /\ Flag(t, ByHeuristic(t, long)) /\ UNCHANGED <<colour, early, verdicts>>
        /\ failed' = failed \cup {Visitor[t]} /\ Visitor[t] \notin DOMAIN verdicts
        /\ colour[t] # "decisive"
    BY <1>9 DEF NoAnswer, Unreadable, AskFails, MayAsk, people
  <2>2. Decided(t)' /\ FlagNow(t)' = (colour[t] # "below")
    BY <2>1 DEF Decided, FlagNow
  <2>3. Flag(t, colour[t] # "below") /\ (colour[t] # "below") \in BOOLEAN
    BY <2>1, <1>2 DEF ByHeuristic
  <2> QED
    BY <2>1, <2>2, <2>3, <1>5
<1>10. ASSUME NEW t \in Tracks, NEW verdict \in Verdicts, Ask(t, verdict)
       PROVE  FlagInv'
  BY <1>10 DEF Ask, people, FlagInv, Decided, FlagNow, FlagBy
\* A verdict on the visitor of track s comes to be, or is used.
<1>11. ASSUME NEW s \in Tracks, NEW long, NEW x \in Verdicts, ByVerdict(s, long, x),
              UNCHANGED <<colour, early, failed>>, colour[s] # "decisive", Visitor[s] \notin failed,
              \/ Visitor[s] \in DOMAIN verdicts /\ x = verdicts[Visitor[s]] /\ UNCHANGED verdicts
              \/ Visitor[s] \notin DOMAIN verdicts /\ verdicts' = With(verdicts, Visitor[s], x)
       PROVE  FlagInv'
  <2>1. Flag(s, FlagBy(s, x)) /\ FlagBy(s, x) \in BOOLEAN
    BY <1>11, <1>2 DEF ByVerdict, FlagBy, ByHeuristic, Verdicts
  <2>2. /\ Visitor[s] \in DOMAIN verdicts' /\ verdicts'[Visitor[s]] = x
        /\ \A w \in DOMAIN verdicts : w \in DOMAIN verdicts' /\ verdicts'[w] = verdicts[w]
        /\ DOMAIN verdicts' \subseteq DOMAIN verdicts \cup {Visitor[s]}
    BY <1>11 DEF With
  <2>3. Decided(s)' /\ FlagNow(s)' = FlagBy(s, x)
    BY <2>2, <1>11 DEF Decided, FlagNow, FlagBy
  <2> QED
    BY <2>1, <2>2, <2>3, <1>5, <1>11
<1>12. ASSUME NEW t \in Tracks, NEW long \in BOOLEAN, UseVerdict(t, long) PROVE FlagInv'
  <2>1. UNCHANGED <<colour, early, failed>> /\ colour[t] # "decisive" /\ Visitor[t] \notin failed
    BY <1>12 DEF UseVerdict, people
  <2>2. CASE Visitor[t] \in DOMAIN verdicts
    <3>1. ByVerdict(t, long, verdicts[Visitor[t]]) /\ UNCHANGED verdicts
      BY <1>12, <2>2 DEF UseVerdict
    <3>2. verdicts[Visitor[t]] \in Verdicts
      BY <2>2, <1>1 DEF TypeInv
    <3> QED
      BY <3>1, <3>2, <2>1, <2>2, <1>11
  <2>3. CASE Visitor[t] \notin DOMAIN verdicts
    <3>1. /\ Visitor[t] \in DOMAIN cache /\ ByVerdict(t, long, cache[Visitor[t]])
          /\ verdicts' = With(verdicts, Visitor[t], cache[Visitor[t]])
      BY <1>12, <2>3 DEF UseVerdict
    <3>2. cache[Visitor[t]] \in Verdicts
      BY <3>1, <1>1 DEF TypeInv
    <3> QED
      BY <3>1, <3>2, <2>1, <2>3, <1>11
  <2> QED
    BY <2>2, <2>3
<1>13. ASSUME NEW long \in BOOLEAN, Keep(long) PROVE FlagInv'
  <2> DEFINE s == answer.track
             x == answer.verdict
  <2>1. answer \in Answers /\ s \in Tracks /\ x \in Verdicts /\ answer # NoVerdict
    BY <1>13, <1>1 DEF Keep, TypeInv, Answers
  <2>2. /\ ByVerdict(s, long, x) /\ UNCHANGED <<colour, early, failed>>
        /\ verdicts' = With(verdicts, Visitor[s], x)
    BY <1>13 DEF Keep, people
  <2>3. colour[s] # "decisive" /\ Visitor[s] \notin failed /\ Visitor[s] \notin DOMAIN verdicts
    BY <2>1, <1>1 DEF AskedInv
  <2> HIDE DEF s, x
  <2> QED
    BY <2>1, <2>2, <2>3, <1>11
<1> QED
  BY <1>3, <1>4, <1>6, <1>7, <1>8, <1>9, <1>10, <1>12, <1>13, StepKinds

\* While the pass lasts, all events of a track with an early crop carry the same
\* is_staff, whatever else was asked in between.
THEOREM FlagsDoNotChange == Spec => []TracksKeepTheirFlag
<1>1. CASE PresenceFallback
  <2>1. TracksKeepTheirFlag
    BY <1>1 DEF TracksKeepTheirFlag
  <2> QED
    BY <2>1, PTL
<1>2. CASE ~PresenceFallback
  <2>1. Init => FlagInv
    BY DEF Init, FlagInv
  <2>2. StaffInv /\ FlagInv /\ [Next]_vars => FlagInv'
    BY <1>2, FlagStep
  <2>3. StaffInv /\ FlagInv => TracksKeepTheirFlag
    <3> SUFFICES ASSUME FlagInv, NEW t \in early PROVE Cardinality(flags[t]) <= 1
      BY DEF TracksKeepTheirFlag
    <3>1. flags[t] \in SUBSET {FlagNow(t)}
      BY DEF FlagInv
    <3>2. IsFiniteSet({FlagNow(t)}) /\ Cardinality({FlagNow(t)}) = 1
      BY FS_Singleton
    <3>3. Cardinality(flags[t]) <= Cardinality({FlagNow(t)})
      BY <3>1, <3>2, FS_Subset
    <3> QED
      BY <3>2, <3>3
  <2> QED
    BY <2>1, <2>2, <2>3, StaffInit, StaffStep, PTL DEF Spec
<1> QED
  BY <1>1, <1>2

-------------------------------------------------------------------------------

\* What is being written has the labels of the pass and, until a write is cut
\* short, what the file had; and the file is torn only while it is written.
SidecarInv ==
  /\ todo \cup labels \subseteq Visitors /\ merged \subseteq Visitors \cup {Others}
  /\ sidecar = Torn \/ sidecar \subseteq Visitors \cup {Others}
  /\ phase \in {"frames", "harvest", "writing", "done"}
  /\ phase = "writing" => labels \subseteq merged /\ (~torn => Others \in merged)
  /\ phase # "writing" /\ ~torn => sidecar # Torn /\ Others \in sidecar
  /\ phase = "done" /\ labels # {} => labels \subseteq sidecar

\* Every step keeps it.
LEMMA SidecarStep == TypeInv /\ SidecarInv /\ [Next]_vars => SidecarInv'
<1> SUFFICES ASSUME TypeInv, SidecarInv, [Next]_vars PROVE SidecarInv'
  OBVIOUS
<1>1. \A entries \in SUBSET (Visitors \cup {Others}) : Torn # entries
  BY StaffAssumption
<1>2. CASE UNCHANGED harvest
  BY <1>2 DEF SidecarInv, harvest
<1>3. CASE EndPass
  <2>1. todo' \subseteq Visitors
    BY <1>3 DEF EndPass, TypeInv, Visitors
  <2>2. UNCHANGED <<labels, sidecar, merged, torn>> /\ phase' = "harvest" /\ phase = "frames"
    BY <1>3 DEF EndPass, Free
  <2> QED
    BY <2>1, <2>2 DEF SidecarInv
<1>4. ASSUME NEW v \in Visitors, Label(v) \/ LabelFails(v) PROVE SidecarInv'
  BY <1>4 DEF Label, LabelFails, SidecarInv
<1>5. CASE Merge
  <2>1. /\ phase = "harvest" /\ phase' = "writing" /\ UNCHANGED <<todo, labels, torn>>
        /\ merged' = labels \cup (IF sidecar = Torn THEN {} ELSE sidecar)
        /\ sidecar' = Torn
    BY <1>5 DEF Merge
  <2> QED
    BY <2>1 DEF SidecarInv
<1>6. CASE Written
  <2>1. /\ phase = "writing" /\ phase' = "done" /\ sidecar' = merged /\ merged' = {}
        /\ UNCHANGED <<todo, labels, torn>>
    BY <1>6 DEF Written
  <2>2. merged # Torn
    BY <1>1 DEF SidecarInv
  <2> QED
    BY <2>1, <2>2 DEF SidecarInv
<1>7. CASE NoHarvest
  BY <1>7 DEF NoHarvest, SidecarInv
<1>8. CASE Restart
  BY <1>8 DEF Restart, SidecarInv
<1>9. [Next]_vars => \/ UNCHANGED harvest \/ EndPass \/ Merge \/ Written \/ NoHarvest \/ Restart
                    \/ \E v \in Visitors : Label(v) \/ LabelFails(v)
  BY DEF Next, vars, GainCrop, Override, UseVerdict, FallBack, NoAnswer, Unreadable, AskFails, Ask, Keep
<1> QED
  BY <1>2, <1>3, <1>4, <1>5, <1>6, <1>7, <1>8, <1>9

\* The entries of other stores stay in the sidecar until a crash cuts a write
\* short, and a pass that ends has its own labels in it even then.
THEOREM OtherEntriesAreKept == Spec => []SidecarKeepsEntries
<1>1. Init => SidecarInv
  BY StaffAssumption DEF Init, SidecarInv
<1>2. SidecarInv => SidecarKeepsEntries
  BY DEF SidecarInv, SidecarKeepsEntries
<1>3. StaffInv => TypeInv
  BY DEF StaffInv
<1> QED
  BY <1>1, <1>2, <1>3, SidecarStep, StaffInit, StaffStep, PTL DEF Spec

-------------------------------------------------------------------------------
(* The labels of the events file: scripts/enrich_events_schema.py *)

\* The event e with the labels l.
Relabelled(e, l) == [e EXCEPT !.labels = l]

\* Nothing but the labels is new of the events f of the pass p, which come first in it.
OfPass(f, p) ==
  /\ Len(f) \in 0..Len(p) /\ f = [i \in 1..Len(f) |-> f[i]]
  /\ \A i \in 1..Len(f) : DOMAIN f[i] = Fields /\ Relabelled(f[i], NoLabels) = p[i]

\* What the script has in hand, or in the file when it is idle.
InHand == IF pc = "idle" THEN file ELSE out

\* The file is the pass, unless it is truncated or a write was cut short, and
\* what is in hand has the labels of the sidecar that was read.
ScriptInv ==
  /\ pass \in Passes /\ pc \in {"idle", "read", "truncated"}
  /\ OfPass(file, pass) /\ OfPass(out, pass)
  /\ ~cut /\ pc # "truncated" => Len(file) = Len(pass)
  /\ ~cut => Len(InHand) = Len(pass)
  /\ ~cut => \A known \in used : InHand = Enriched(pass, known)

-------------------------------------------------------------------------------

\* Other labels change no other field, and replace the ones there were.
LEMMA LabelsAreOneField ==
  ASSUME NEW e, DOMAIN e = Fields, NEW l
  PROVE  /\ DOMAIN Relabelled(e, l) = Fields
         /\ Relabelled(e, l).store = e.store /\ Relabelled(e, l).visitor = e.visitor
         /\ Relabelled(e, l).type = e.type /\ Relabelled(e, l).ts = e.ts
         /\ Relabelled(e, l).zone = e.zone /\ Relabelled(e, l).dwell = e.dwell
         /\ \A m : Relabelled(Relabelled(e, l), m) = Relabelled(e, m)
<1>1. Relabelled(e, l) = [x \in Fields |-> IF x = "labels" THEN l ELSE e[x]]
  BY DEF Relabelled
<1>2. \A m : Relabelled(e, m) = [x \in Fields |-> IF x = "labels" THEN m ELSE e[x]]
  BY DEF Relabelled
<1> DEFINE r == Relabelled(e, l)
<1>3. DOMAIN r = Fields
  BY <1>1
<1>4. \A x \in Fields : x # "labels" => r[x] = e[x]
  BY <1>1
<1> HIDE DEF r
<1>5. ASSUME NEW m PROVE Relabelled(r, m) = Relabelled(e, m)
  <2>1. Relabelled(r, m) = [x \in Fields |-> IF x = "labels" THEN m ELSE r[x]]
    BY <1>3 DEF Relabelled
  <2>2. [x \in Fields |-> IF x = "labels" THEN m ELSE r[x]]
          = [x \in Fields |-> IF x = "labels" THEN m ELSE e[x]]
    BY <1>4
  <2> QED
    BY <2>1, <2>2, <1>2
<1>6. /\ r.store = e.store /\ r.visitor = e.visitor /\ r.type = e.type
      /\ r.ts = e.ts /\ r.zone = e.zone /\ r.dwell = e.dwell
  BY <1>4 DEF Fields
<1> QED
  BY <1>3, <1>5, <1>6 DEF r

\* Events that differ in their labels only.
LEMMA SameButLabels ==
  ASSUME NEW d, DOMAIN d = Fields, NEW e, DOMAIN e = Fields,
         NEW l, Relabelled(d, l) = Relabelled(e, l)
  PROVE  /\ d.store = e.store /\ d.visitor = e.visitor /\ d.type = e.type
         /\ d.ts = e.ts /\ d.zone = e.zone /\ d.dwell = e.dwell
         /\ \A m : Relabelled(d, m) = Relabelled(e, m)
<1>1. /\ Relabelled(d, l).store = d.store /\ Relabelled(d, l).visitor = d.visitor
      /\ Relabelled(d, l).type = d.type /\ Relabelled(d, l).ts = d.ts
      /\ Relabelled(d, l).zone = d.zone /\ Relabelled(d, l).dwell = d.dwell
      /\ \A m : Relabelled(Relabelled(d, l), m) = Relabelled(d, m)
  BY LabelsAreOneField
<1>2. /\ Relabelled(e, l).store = e.store /\ Relabelled(e, l).visitor = e.visitor
      /\ Relabelled(e, l).type = e.type /\ Relabelled(e, l).ts = e.ts
      /\ Relabelled(e, l).zone = e.zone /\ Relabelled(e, l).dwell = e.dwell
      /\ \A m : Relabelled(Relabelled(e, l), m) = Relabelled(e, m)
  BY LabelsAreOneField
<1> QED
  BY <1>1, <1>2

\* Two logs of the same events, whatever labels they have.
SameEvents(f, g) ==
  /\ DOMAIN f = DOMAIN g
  /\ \A i \in DOMAIN f :
       /\ DOMAIN f[i] = Fields /\ DOMAIN g[i] = Fields
       /\ Relabelled(f[i], NoLabels) = Relabelled(g[i], NoLabels)

\* The labels of an event come from what other events say, not from their labels.
LEMMA LabelsIgnoreLabels ==
  ASSUME NEW f, NEW g, SameEvents(f, g), NEW known, NEW i \in DOMAIN f
  PROVE  LabelsOf(f, known, f[i]) = LabelsOf(g, known, g[i])
<1>1. \A j \in DOMAIN f :
        /\ f[j].store = g[j].store /\ f[j].visitor = g[j].visitor /\ f[j].type = g[j].type
        /\ f[j].ts = g[j].ts /\ f[j].zone = g[j].zone /\ f[j].dwell = g[j].dwell
  BY SameButLabels DEF SameEvents
<1>2. DOMAIN f = DOMAIN g
  BY DEF SameEvents
<1>3. ASSUME NEW store PROVE Entries(f, store) = Entries(g, store)
  <2>1. Entries(f, store)
          = {[ts |-> f[j].ts, visitor |-> f[j].visitor] :
               j \in {k \in DOMAIN f : f[k].type = "ENTRY" /\ f[k].store = store}}
    BY DEF Entries, ToSet
  <2>2. Entries(g, store)
          = {[ts |-> g[j].ts, visitor |-> g[j].visitor] :
               j \in {k \in DOMAIN g : g[k].type = "ENTRY" /\ g[k].store = store}}
    BY DEF Entries, ToSet
  <2> QED
    BY <2>1, <2>2, <1>1, <1>2
<1>4. \A j \in DOMAIN f : Key(f[j]) = Key(g[j])
  BY <1>1 DEF Key
<1>5. ASSUME NEW key PROVE CheckoutDwells(f, key) = CheckoutDwells(g, key)
  <2>1. CheckoutDwells(f, key)
          = {f[j].dwell : j \in {k \in DOMAIN f : Key(f[k]) = key /\ f[k].zone = "checkout"}}
              \cup {0}
    BY DEF CheckoutDwells, ToSet
  <2>2. CheckoutDwells(g, key)
          = {g[j].dwell : j \in {k \in DOMAIN g : Key(g[k]) = key /\ g[k].zone = "checkout"}}
              \cup {0}
    BY DEF CheckoutDwells, ToSet
  <2> QED
    BY <2>1, <2>2, <1>1, <1>2, <1>4
<1>6. GroupOf(f, f[i].store, f[i].visitor) = GroupOf(g, g[i].store, g[i].visitor)
  <2>1. ASSUME NEW store, NEW visitor
        PROVE  GroupOf(f, store, visitor) = GroupOf(g, store, visitor)
    <3>1. Entries(f, store) = Entries(g, store)
      BY <1>3
    <3> DEFINE Group(es) ==
                 LET mine == {a \in GroupStarts(es) : visitor \in Members(es, a)}
                     last == CHOOSE a \in mine : \A b \in mine : b = a \/ Earlier(b, a)
                 IN IF mine = {} THEN <<>>
                    ELSE <<store, GroupNumber(es, last),
                           Cardinality(Members(es, last))>>
    <3>2. \A log : GroupOf(log, store, visitor) = Group(Entries(log, store))
      BY DEF GroupOf
    <3> HIDE DEF Group
    <3> QED
      BY <3>1, <3>2
  <2> QED
    BY <2>1, <1>1
<1> QED
  BY <1>1, <1>4, <1>5, <1>6 DEF LabelsOf

\* Labelling the events again gives what labelling the pass gives.
LEMMA EnrichedIsOfPass ==
  ASSUME PassesAreBare, NEW p \in Passes, NEW f, OfPass(f, p), NEW known
  PROVE  /\ OfPass(Enriched(f, known), p)
         /\ Len(Enriched(f, known)) = Len(f)
         /\ Len(f) = Len(p) => Enriched(f, known) = Enriched(p, known)
<1>1. /\ Len(p) \in Nat /\ DOMAIN p = 1..Len(p)
      /\ \A i \in 1..Len(p) : DOMAIN p[i] = Fields /\ Relabelled(p[i], NoLabels) = p[i]
  <2>1. p \in Seq(ToSet(p)) /\ Bare(p) = p
    BY DEF PassesAreBare
  <2>2. Len(p) \in Nat /\ DOMAIN p = 1..Len(p)
    BY <2>1, LenProperties
  <2>3. \A i \in 1..Len(p) : p[i] \in ToSet(p)
    BY <2>2 DEF ToSet
  <2>4. \A i \in 1..Len(p) : Bare(p)[i] = Relabelled(p[i], NoLabels)
    BY DEF Bare, Relabelled
  <2> QED
    BY <2>1, <2>2, <2>3, <2>4 DEF PassesAreBare
<1>2. /\ Len(f) \in 0..Len(p) /\ DOMAIN f = 1..Len(f)
      /\ \A i \in 1..Len(f) : DOMAIN f[i] = Fields /\ Relabelled(f[i], NoLabels) = p[i]
  BY DEF OfPass
<1> DEFINE n == Len(f)
           L(i) == LabelsOf(f, known, f[i])
           g == [i \in 1..n |-> Relabelled(f[i], L(i))]
<1>3. Enriched(f, known) = g
  BY DEF Enriched, Relabelled
<1>4. n \in Nat
  BY <1>1, <1>2
<1>5. Len(g) = n /\ DOMAIN g = 1..n
  <2> DEFINE T == {g[i] : i \in 1..n}
  <2>1. g \in [1..n -> T]
    OBVIOUS
  <2> HIDE DEF g, T
  <2>2. g \in Seq(T)
    BY <2>1, <1>4, SeqDef
  <2> QED
    BY <2>1, <2>2, <1>4, LenProperties
<1>6. OfPass(g, p)
  <2>1. \A i \in 1..n : g[i] = Relabelled(f[i], L(i))
    OBVIOUS
  <2>2. g = [i \in 1..n |-> g[i]]
    BY <2>1
  <2> HIDE DEF g, L
  <2>3. \A i \in 1..n : DOMAIN g[i] = Fields /\ Relabelled(g[i], NoLabels) = p[i]
    BY <2>1, <1>2, LabelsAreOneField
  <2> QED
    BY <2>2, <2>3, <1>2, <1>5 DEF OfPass
<1>7. ASSUME n = Len(p) PROVE g = Enriched(p, known)
  <2>1. SameEvents(f, p)
    BY <1>1, <1>2, <1>7 DEF SameEvents
  <2>2. \A i \in 1..n : L(i) = LabelsOf(p, known, p[i])
    BY <2>1, <1>2, LabelsIgnoreLabels
  <2>3. \A i \in 1..n : \A l : Relabelled(f[i], l) = Relabelled(p[i], l)
    <3> SUFFICES ASSUME NEW i \in 1..n, NEW l PROVE Relabelled(f[i], l) = Relabelled(p[i], l)
      OBVIOUS
    <3>1. /\ DOMAIN f[i] = Fields /\ DOMAIN p[i] = Fields
          /\ Relabelled(f[i], NoLabels) = Relabelled(p[i], NoLabels)
      BY <1>1, <1>2, <1>7
    <3> QED
      BY <3>1, SameButLabels
  <2>4. Enriched(p, known) = [i \in 1..n |-> Relabelled(p[i], LabelsOf(p, known, p[i]))]
    BY <1>7 DEF Enriched, Relabelled
  <2> HIDE DEF L
  <2> QED
    BY <2>2, <2>3, <2>4
<1> QED
  BY <1>3, <1>5, <1>6, <1>7

\* What a pass writes is of the pass.
LEMMA PassIsOfPass ==
  ASSUME PassesAreBare, NEW p \in Passes
  PROVE  OfPass(p, p) /\ OfPass(<<>>, p) /\ p \in Seq(ToSet(p)) /\ Len(p) \in Nat
<1>1. p \in Seq(ToSet(p)) /\ Bare(p) = p
  BY DEF PassesAreBare
<1>2. Len(p) \in Nat /\ DOMAIN p = 1..Len(p) /\ p = [i \in 1..Len(p) |-> p[i]]
  BY <1>1
<1>3. \A i \in 1..Len(p) : DOMAIN p[i] = Fields /\ Relabelled(p[i], NoLabels) = p[i]
  <2>1. \A i \in 1..Len(p) : p[i] \in ToSet(p)
    BY <1>2 DEF ToSet
  <2>2. \A i \in 1..Len(p) : Bare(p)[i] = Relabelled(p[i], NoLabels)
    BY DEF Bare, Relabelled
  <2> QED
    BY <1>1, <2>1, <2>2 DEF PassesAreBare
<1>4. OfPass(p, p)
  BY <1>2, <1>3 DEF OfPass
<1>5. OfPass(<<>>, p)
  <2>1. Len(<<>>) = 0 /\ <<>> = [i \in 1..0 |-> <<>>[i]]
    OBVIOUS
  <2>2. 1..Len(<<>>) = {}
    BY <2>1
  <2> QED
    BY <2>1, <2>2, <1>2 DEF OfPass
<1> QED
  BY <1>1, <1>2, <1>4, <1>5

\* A write that is cut short leaves a part.
LEMMA PartIsOfPass ==
  ASSUME NEW p, Len(p) \in Nat, NEW f, OfPass(f, p), NEW n \in 0..(Len(f) - 1)
  PROVE  OfPass(SubSeq(f, 1, n), p)
<1> DEFINE T == {f[i] : i \in 1..Len(f)}
           g == SubSeq(f, 1, n)
<1>1. Len(f) \in Nat /\ Len(f) <= Len(p) /\ n \in Nat /\ n <= Len(f) /\ 1..n \subseteq 1..Len(f)
  BY DEF OfPass
<1>2. \A i \in 1..n : f[i] \in T
  BY <1>1
<1> HIDE DEF T
<1>3. g \in Seq(T) /\ Len(g) = n /\ \A i \in 1..n : g[i] = f[i]
  <2>1. /\ g \in Seq(T) /\ Len(g) = (IF 1 <= n THEN n - 1 + 1 ELSE 0)
        /\ \A i \in 1..(n - 1 + 1) : g[i] = f[1 + i - 1]
    BY <1>1, <1>2, SubSeqProperties
  <2> HIDE DEF g
  <2> QED
    BY <2>1, <1>1
<1> HIDE DEF g
<1>4. g = [i \in 1..Len(g) |-> g[i]]
  BY <1>3
<1>5. \A i \in 1..Len(g) : DOMAIN g[i] = Fields /\ Relabelled(g[i], NoLabels) = p[i]
  BY <1>1, <1>3 DEF OfPass
<1>6. Len(g) \in 0..Len(p)
  BY <1>1, <1>3
<1> QED
  BY <1>4, <1>5, <1>6 DEF OfPass, g

-------------------------------------------------------------------------------

\* The pass has written its file, and nothing was read.
LEMMA ScriptInit == PassesAreBare /\ EnrichInit => ScriptInv
<1> SUFFICES ASSUME PassesAreBare, EnrichInit PROVE ScriptInv
  OBVIOUS
<1>1. /\ pass \in Passes /\ file = pass /\ out = <<>> /\ pc = "idle" /\ used = {}
  BY DEF EnrichInit
<1> QED
  BY <1>1, PassIsOfPass DEF ScriptInv, InHand

\* Labels are added to the events of the pass, and its events are written.
LEMMA ScriptStep ==
  ASSUME PassesAreBare, ScriptInv, [EnrichNext]_(enrichVars)
  PROVE  ScriptInv'
<1>1. /\ pass \in Passes /\ pc \in {"idle", "read", "truncated"}
      /\ OfPass(file, pass) /\ OfPass(out, pass)
      /\ ~cut /\ pc # "truncated" => Len(file) = Len(pass)
      /\ ~cut => Len(InHand) = Len(pass)
      /\ ~cut => \A known \in used : InHand = Enriched(pass, known)
  BY DEF ScriptInv
<1>2. OfPass(pass, pass) /\ OfPass(<<>>, pass) /\ Len(pass) \in Nat
  BY <1>1, PassIsOfPass
<1>3. CASE Read
  <2>1. /\ pc = "idle" /\ pc' = "read" /\ out' = Enriched(file, demographics)
        /\ used' = {demographics} /\ UNCHANGED <<pass, file, cut>>
    BY <1>3 DEF Read
  <2>2. /\ OfPass(out', pass) /\ Len(out') = Len(file)
        /\ Len(file) = Len(pass) => out' = Enriched(pass, demographics)
    BY <2>1, <1>1, EnrichedIsOfPass
  <2> QED
    BY <2>1, <2>2, <1>1 DEF ScriptInv, InHand
<1>4. CASE Truncate
  <2>1. /\ pc = "read" /\ pc' = "truncated" /\ file' = <<>>
        /\ UNCHANGED <<pass, out, cut, used>>
    BY <1>4 DEF Truncate
  <2> QED
    BY <2>1, <1>1, <1>2 DEF ScriptInv, InHand
<1>5. CASE Complete
  <2>1. /\ pc = "truncated" /\ pc' = "idle" /\ file' = out /\ out' = <<>>
        /\ UNCHANGED <<pass, cut, used>>
    BY <1>5 DEF Complete
  <2> QED
    BY <2>1, <1>1, <1>2 DEF ScriptInv, InHand
<1>6. CASE Die
  <2>1. pc' = "idle" /\ out' = <<>> /\ used' = {} /\ pass' = pass
    BY <1>6 DEF Die
  <2>2. CASE pc = "read" /\ UNCHANGED <<file, cut>>
    BY <2>1, <2>2, <1>1, <1>2 DEF ScriptInv, InHand
  <2>3. CASE cut' = TRUE /\ \E n \in 0..(Len(out) - 1) : file' = SubSeq(out, 1, n)
    <3>1. OfPass(file', pass)
      BY <2>3, <1>1, <1>2, PartIsOfPass
    <3> QED
      BY <3>1, <2>1, <2>3, <1>1, <1>2 DEF ScriptInv, InHand
  <2> QED
    BY <2>2, <2>3, <1>6 DEF Die
<1>7. CASE SidecarSaved
  BY <1>7, <1>1 DEF SidecarSaved, ScriptInv, InHand
<1>8. CASE Detect
  <2>1. /\ pc = "idle" /\ file' = pass /\ cut' = FALSE /\ used' = {}
        /\ UNCHANGED <<pass, pc, out>>
    BY <1>8 DEF Detect
  <2> QED
    BY <2>1, <1>1, <1>2 DEF ScriptInv, InHand
<1>9. CASE UNCHANGED enrichVars
  BY <1>9, <1>1 DEF enrichVars, ScriptInv, InHand
<1> QED
  BY <1>3, <1>4, <1>5, <1>6, <1>7, <1>8, <1>9 DEF EnrichNext

\* The events of a file of the pass are the first ones of the pass.
LEMMA FirstOfPass ==
  ASSUME PassesAreBare, NEW p \in Passes, NEW f, OfPass(f, p)
  PROVE  IsPrefix(Bare(f), p) /\ (Len(f) = Len(p) => Bare(f) = p)
<1>1. p \in Seq(ToSet(p)) /\ Len(p) \in Nat /\ p = [i \in 1..Len(p) |-> p[i]]
  BY PassIsOfPass DEF OfPass
<1> DEFINE n == Len(f)
           g == Bare(f)
           T == ToSet(p)
<1>2. n \in Nat /\ n <= Len(p) /\ g = [i \in 1..n |-> p[i]]
  BY <1>1 DEF OfPass, Bare, Relabelled
<1> HIDE DEF n, g, T
<1>3. g \in [1..n -> T]
  <2>1. \A i \in 1..n : p[i] \in T
    BY <1>1, <1>2 DEF T
  <2> QED
    BY <2>1, <1>2
<1>4. g \in Seq(T) /\ Len(g) = n
  BY <1>2, <1>3, SeqDef
<1>5. SubSeq(g, 1, n) = g
  BY <1>4, SubSeqFull
<1>6. SubSeq(p, 1, n) = g
  <2> DEFINE q == SubSeq(p, 1, n)
  <2>1. q \in Seq(T) /\ Len(q) = n /\ \A i \in 1..n : q[i] = p[i]
    BY <1>1, <1>2 DEF T
  <2>2. \A i \in 1..n : g[i] = p[i]
    BY <1>2
  <2> HIDE DEF q
  <2>3. q = g
    BY <2>1, <2>2, <1>4, SeqEqual
  <2> QED
    BY <2>3 DEF q
<1>7. IsPrefix(g, p)
  BY <1>2, <1>4, <1>5, <1>6 DEF IsPrefix
<1>8. n = Len(p) => g = p
  BY <1>1, <1>2
<1> QED
  BY <1>7, <1>8 DEF g, n

\* Whatever runs, deaths and passes there were, the file holds events of the last
\* pass in order, and all of them unless a write was cut short.
THEOREM EventsAreKept == EnrichSpec => []EventsSurvive
<1>1. EnrichInit => ScriptInv
  BY ScriptInit, EnrichAssumption
<1>2. ScriptInv /\ [EnrichNext]_(enrichVars) => ScriptInv'
  BY ScriptStep, EnrichAssumption
<1>3. ScriptInv => EventsSurvive
  <2> SUFFICES ASSUME ScriptInv PROVE EventsSurvive
    OBVIOUS
  <2>1. pass \in Passes /\ OfPass(file, pass)
    BY DEF ScriptInv
  <2>2. /\ IsPrefix(Bare(file), pass)
        /\ Len(file) = Len(pass) => Bare(file) = pass
    BY <2>1, FirstOfPass, EnrichAssumption
  <2> QED
    BY <2>2 DEF ScriptInv, EventsSurvive
<1> QED
  BY <1>1, <1>2, <1>3, PTL DEF EnrichSpec

\* The labels of the file are those of the sidecar that the last run read,
\* whatever earlier runs had put in.
THEOREM LabelsAreMadeAnew == EnrichSpec => []LabelsAreOfLastRun
<1>1. EnrichInit => ScriptInv
  BY ScriptInit, EnrichAssumption
<1>2. ScriptInv /\ [EnrichNext]_(enrichVars) => ScriptInv'
  BY ScriptStep, EnrichAssumption
<1>3. ScriptInv => LabelsAreOfLastRun
  BY DEF ScriptInv, InHand, LabelsAreOfLastRun
<1> QED
  BY <1>1, <1>2, <1>3, PTL DEF EnrichSpec

-------------------------------------------------------------------------------
(* Who arrives together *)

\* An entry of a store; a cluster holds what comes from its start on, before the
\* next start.
Arrival == [ts : Nat, visitor : Nat]

Cluster(es, a) ==
  {x \in es : /\ x = a \/ Earlier(a, x)
              /\ \A c \in es : Starts(es, c) /\ Earlier(a, c) => Earlier(x, c)}

\* The arrivals x and y are linked directly.
Near(x, y) == x.ts - y.ts \in -GroupWindow..GroupWindow

\* The sort of the arrivals: by time, then by visitor, is a strict order.
LEMMA EarlierIsAnOrder ==
  ASSUME NEW a \in Arrival, NEW b \in Arrival, NEW c \in Arrival
  PROVE  /\ ~Earlier(a, a)
         /\ a = b \/ Earlier(a, b) \/ Earlier(b, a)
         /\ Earlier(a, b) => ~Earlier(b, a) /\ a.ts <= b.ts
         /\ Earlier(a, b) /\ Earlier(b, c) => Earlier(a, c)
<1>1. /\ {a.ts, b.ts, c.ts, a.visitor, b.visitor, c.visitor} \subseteq Nat
      /\ a = [ts |-> a.ts, visitor |-> a.visitor]
      /\ b = [ts |-> b.ts, visitor |-> b.visitor]
  BY DEF Arrival
<1>2. a.ts = b.ts /\ a.visitor = b.visitor => a = b
  BY <1>1
<1> QED
  BY <1>1, <1>2 DEF Earlier

\* A set of numbers has a least one.
LEMMA LeastOf ==
  ASSUME NEW N \in SUBSET Nat, N # {}
  PROVE  \E n \in N : \A m \in N : n <= m
<1>1. PICK n \in N : \A m \in N : ~(<<m, n>> \in OpToRel(<, Nat))
  BY NatLessThanWellFounded, WFMin
<1>2. ASSUME NEW m \in N PROVE n <= m
  <2> SUFFICES ASSUME m < n PROVE FALSE
    OBVIOUS
  <2>1. <<m, n>> \in OpToRel(<, Nat)
    BY <1>2 DEF OpToRel
  <2> QED
    BY <2>1, <1>1
<1> QED
  BY <1>2

\* Among arrivals there is a first one.
LEMMA FirstOf ==
  ASSUME NEW S, S \subseteq Arrival, S # {}
  PROVE  \E a \in S : \A b \in S : b = a \/ Earlier(a, b)
<1> DEFINE Times == {x.ts : x \in S}
<1>1. Times \in SUBSET Nat /\ Times # {}
  BY DEF Arrival
<1>2. PICK t \in Times : \A u \in Times : t <= u
  <2> HIDE DEF Times
  <2> QED
    BY <1>1, LeastOf
<1> DEFINE Ids == {x.visitor : x \in {y \in S : y.ts = t}}
<1>3. Ids \in SUBSET Nat /\ Ids # {}
  BY DEF Arrival
<1>4. PICK v \in Ids : \A w \in Ids : v <= w
  <2> HIDE DEF Ids
  <2> QED
    BY <1>3, LeastOf
<1>5. PICK a \in S : a.ts = t /\ a.visitor = v
  BY <1>4
<1>6. ASSUME NEW b \in S PROVE b = a \/ Earlier(a, b)
  <2>1. a.ts <= b.ts /\ (b.ts = a.ts => a.visitor <= b.visitor)
    BY <1>2, <1>4, <1>5
  <2>2. {a.ts, b.ts, a.visitor, b.visitor} \subseteq Nat /\ a \in Arrival /\ b \in Arrival
    BY DEF Arrival
  <2>3. ~Earlier(b, a)
    BY <2>1, <2>2 DEF Earlier
  <2> QED
    BY <2>2, <2>3, EarlierIsAnOrder
<1> QED
  BY <1>6

\* Everybody arrives in a cluster, and in only one.
LEMMA SomeCluster ==
  ASSUME GroupWindow \in Nat, NEW es, es \subseteq Arrival, NEW x \in es
  PROVE  \E a \in es : Starts(es, a) /\ x \in Cluster(es, a)
<1> DEFINE Before == {c \in es : Starts(es, c) /\ (c = x \/ Earlier(c, x))}
           Gaps == {x.ts - c.ts : c \in Before}
<1>1. Before # {}
  <2>1. PICK a \in es : \A b \in es : b = a \/ Earlier(a, b)
    BY FirstOf
  <2>2. Starts(es, a)
    <3>1. \A b \in es : ~Earlier(b, a)
      BY <2>1, EarlierIsAnOrder
    <3> QED
      BY <3>1 DEF Starts
  <2>3. a \in Before
    BY <2>1, <2>2
  <2> QED
    BY <2>3
<1>2. \A c \in Before : c.ts <= x.ts /\ c.ts \in Nat /\ x.ts \in Nat
  BY EarlierIsAnOrder DEF Arrival
<1>3. Gaps \in SUBSET Nat /\ Gaps # {}
  BY <1>1, <1>2
<1>4. PICK d \in Gaps : \A e \in Gaps : d <= e
  <2> HIDE DEF Gaps
  <2> QED
    BY <1>3, LeastOf
<1>5. PICK a \in Before : d = x.ts - a.ts
  BY <1>4
<1>6. ASSUME NEW c \in es, Starts(es, c), Earlier(a, c)
      PROVE  Earlier(x, c)
  <2> SUFFICES ASSUME ~Earlier(x, c) PROVE FALSE
    OBVIOUS
  <2>1. c = x \/ Earlier(c, x)
    BY EarlierIsAnOrder
  <2>2. c \in Before
    BY <2>1, <1>6
  <2>3. x.ts - a.ts <= x.ts - c.ts
    BY <2>2, <1>4, <1>5
  <2>4. c.ts - a.ts > GroupWindow
    BY <1>6 DEF Starts
  <2> QED
    BY <2>2, <2>3, <2>4, <1>2
<1> QED
  BY <1>5, <1>6 DEF Cluster

\* No arrival is in the clusters of two starts.
LEMMA OneCluster ==
  ASSUME NEW es, es \subseteq Arrival, NEW a \in es, NEW c \in es,
         Starts(es, a), Starts(es, c),
         NEW x \in es, x \in Cluster(es, a), x \in Cluster(es, c)
  PROVE  a = c
<1>1. \A d, e \in es : Starts(es, d) /\ Starts(es, e)
                         /\ x \in Cluster(es, d) /\ x \in Cluster(es, e) => ~Earlier(d, e)
  <2> SUFFICES ASSUME NEW d \in es, NEW e \in es, Starts(es, e),
                      x \in Cluster(es, d), x \in Cluster(es, e), Earlier(d, e)
               PROVE  FALSE
    OBVIOUS
  <2>1. Earlier(x, e) /\ (x = e \/ Earlier(e, x))
    BY DEF Cluster
  <2> QED
    BY <2>1, EarlierIsAnOrder
<1> QED
  BY <1>1, EarlierIsAnOrder

\* Who is linked to a member of a cluster is one.
LEMMA ClusterIsClosed ==
  ASSUME GroupWindow \in Nat, NEW es, es \subseteq Arrival, NEW a \in es, Starts(es, a),
         NEW x \in Cluster(es, a), NEW y \in es, Near(x, y)
  PROVE  y \in Cluster(es, a)
<1>1. /\ x = a \/ Earlier(a, x)
      /\ \A c \in es : Starts(es, c) /\ Earlier(a, c) => Earlier(x, c)
  BY DEF Cluster
<1>2. {x.ts, y.ts, a.ts} \subseteq Nat /\ x.ts - y.ts <= GroupWindow /\ y.ts - x.ts <= GroupWindow
      /\ x \in es
  BY DEF Arrival, Near, Cluster
<1>3. ASSUME Earlier(y, a) PROVE FALSE
  <2>1. a.ts - y.ts > GroupWindow
    BY <1>3 DEF Starts
  <2>2. a.ts <= x.ts
    BY <1>1, <1>2, EarlierIsAnOrder
  <2> QED
    BY <2>1, <2>2, <1>2
<1>4. ASSUME NEW c \in es, Starts(es, c), Earlier(a, c), ~Earlier(y, c)
      PROVE  FALSE
  <2>1. c.ts - x.ts > GroupWindow
    BY <1>1, <1>2, <1>4 DEF Starts
  <2>2. c.ts <= y.ts /\ c.ts \in Nat
    <3>1. c = y \/ Earlier(c, y)
      BY <1>4, EarlierIsAnOrder
    <3>2. c.ts \in Nat
      BY DEF Arrival
    <3> QED
      BY <3>1, <3>2, EarlierIsAnOrder
  <2> QED
    BY <2>1, <2>2, <1>2
<1>5. y = a \/ Earlier(a, y)
  BY <1>3, EarlierIsAnOrder
<1> QED
  BY <1>4, <1>5 DEF Cluster

\* Who is not the first of a cluster came shortly after another one of it.
LEMMA LinkedToEarlier ==
  ASSUME GroupWindow \in Nat, NEW es, es \subseteq Arrival, NEW a \in es, Starts(es, a),
         NEW x \in Cluster(es, a), x # a
  PROVE  \E y \in Cluster(es, a) : Earlier(y, x) /\ Near(x, y) /\ Near(y, x)
<1>1. x \in es /\ Earlier(a, x)
  BY DEF Cluster
<1>2. ~Starts(es, x)
  <2> SUFFICES ASSUME Starts(es, x) PROVE FALSE
    OBVIOUS
  <2>1. Earlier(x, x)
    BY <1>1 DEF Cluster
  <2> QED
    BY <2>1, <1>1, EarlierIsAnOrder
<1>3. PICK y \in es : Earlier(y, x) /\ ~(x.ts - y.ts > GroupWindow)
  BY <1>2 DEF Starts
<1>4. y.ts <= x.ts /\ {x.ts, y.ts} \subseteq Nat
  <2>1. {x.ts, y.ts} \subseteq Nat
    BY <1>1 DEF Arrival
  <2> QED
    BY <2>1, <1>1, <1>3, EarlierIsAnOrder
<1>5. Near(x, y) /\ Near(y, x)
  BY <1>3, <1>4 DEF Near
<1>6. y \in Cluster(es, a)
  BY <1>5, ClusterIsClosed
<1> QED
  BY <1>3, <1>5, <1>6

\* A set that is closed under the links has all of a cluster or nothing.
LEMMA ClosedHoldsCluster ==
  ASSUME GroupWindow \in Nat, NEW es, es \subseteq Arrival, NEW a \in es, Starts(es, a),
         NEW T \in SUBSET es, \A u \in T : \A y \in es : Near(u, y) => y \in T,
         NEW x \in T, x \in Cluster(es, a)
  PROVE  Cluster(es, a) \subseteq T
<1>0. Cluster(es, a) \subseteq es
  BY DEF Cluster
<1>1. a \in T
  <2>1. PICK m \in T \cap Cluster(es, a) : \A b \in T \cap Cluster(es, a) : b = m \/ Earlier(m, b)
    <3>1. T \cap Cluster(es, a) # {} /\ T \cap Cluster(es, a) \subseteq Arrival
      BY <1>0
    <3> QED
      BY <3>1, FirstOf
  <2> SUFFICES ASSUME m # a PROVE FALSE
    BY <2>1
  <2>2. PICK y \in Cluster(es, a) : Earlier(y, m) /\ Near(m, y)
    BY LinkedToEarlier
  <2>3. y \in T
    BY <2>2, <1>0
  <2>4. y = m \/ Earlier(m, y)
    BY <2>1, <2>2, <2>3
  <2> QED
    BY <2>2, <2>4, <1>0, EarlierIsAnOrder
<1>2. ASSUME Cluster(es, a) \ T # {} PROVE FALSE
  <2>1. PICK z \in Cluster(es, a) \ T : \A b \in Cluster(es, a) \ T : b = z \/ Earlier(z, b)
    <3>1. Cluster(es, a) \ T \subseteq Arrival
      BY <1>0
    <3> QED
      BY <3>1, <1>2, FirstOf
  <2>2. PICK y \in Cluster(es, a) : Earlier(y, z) /\ Near(y, z)
    BY <1>1, LinkedToEarlier
  <2>3. y \in T
    <3> SUFFICES ASSUME y \notin T PROVE FALSE
      OBVIOUS
    <3>1. y = z \/ Earlier(z, y)
      BY <2>1
    <3> QED
      BY <3>1, <2>2, <1>0, EarlierIsAnOrder
  <2> QED
    BY <2>1, <2>2, <2>3, <1>0
<1> QED
  BY <1>2

-------------------------------------------------------------------------------

\* A log of events in which nobody enters a store twice.
EntersOnce(f) ==
  /\ Len(f) \in Nat /\ DOMAIN f = 1..Len(f)
  /\ \A i \in DOMAIN f : {f[i].ts, f[i].visitor} \subseteq Nat
  /\ \A i, j \in DOMAIN f :
       f[i].type = "ENTRY" /\ f[j].type = "ENTRY" /\ Key(f[i]) = Key(f[j]) => i = j

\* The arrival at index i of the log f starts, or comes in, the cluster of a.
ArrivalAt(f, i) == [ts |-> f[i].ts, visitor |-> f[i].visitor]
ArrivesWith(f, i, a) ==
  LET es == Entries(f, f[i].store)
  IN a \in es /\ Starts(es, a) /\ ArrivalAt(f, i) \in Cluster(es, a)

\* The entries of a store in such a log.
LEMMA EntriesAre ==
  ASSUME NEW f, EntersOnce(f), NEW store
  PROVE  LET es == Entries(f, store) IN
         /\ es = {ArrivalAt(f, i) : i \in {j \in DOMAIN f : f[j].type = "ENTRY" /\ f[j].store = store}}
         /\ es \subseteq Arrival /\ IsFiniteSet(es)
         /\ \A x, y \in es : x.visitor = y.visitor => x = y
<1> DEFINE es == Entries(f, store)
           I == {j \in DOMAIN f : f[j].type = "ENTRY" /\ f[j].store = store}
<1>1. es = {ArrivalAt(f, i) : i \in I}
  BY DEF Entries, ToSet, ArrivalAt
<1>2. I \subseteq 1..Len(f) /\ Len(f) \in Nat
  BY DEF EntersOnce
<1>3. \A i \in I : ArrivalAt(f, i) \in Arrival
  BY DEF EntersOnce, ArrivalAt, Arrival
<1>4. \A i, j \in I : ArrivalAt(f, i).visitor = ArrivalAt(f, j).visitor => i = j
  <2>1. \A i \in I : Key(f[i]) = <<store, ArrivalAt(f, i).visitor>>
    BY DEF ArrivalAt, Key
  <2> QED
    BY <2>1 DEF EntersOnce
<1> HIDE DEF es, I
<1>5. IsFiniteSet(es)
  <2>1. IsFiniteSet(I)
    <3>1. IsFiniteSet(1..Len(f))
      BY <1>2, FS_Interval
    <3> QED
      BY <3>1, <1>2, FS_Subset
  <2> DEFINE g == [i \in I |-> ArrivalAt(f, i)]
  <2>2. g \in Surjection(I, es)
    <3>1. g \in [I -> es] /\ \A x \in es : \E i \in I : g[i] = x
      BY <1>1
    <3> QED
      BY <3>1 DEF Surjection
  <2> QED
    BY <2>1, <2>2, FS_Surjection
<1> QED
  BY <1>1, <1>3, <1>4, <1>5 DEF es, I

\* Who is linked to an arrival is its cluster.
LEMMA LinkedIsCluster ==
  ASSUME GroupWindow \in Nat, NEW f, EntersOnce(f), NEW i \in DOMAIN f, f[i].type = "ENTRY",
         NEW a, ArrivesWith(f, i, a)
  PROVE  Linked(f, f[i].store, f[i].visitor)
           = Cluster(Entries(f, f[i].store), a)
<1> DEFINE es == Entries(f, f[i].store)
           x == ArrivalAt(f, i)
           C == Cluster(es, a)
<1>1. /\ es \subseteq Arrival /\ x \in es /\ x \in C /\ a \in es /\ Starts(es, a)
      /\ \A y \in es : y.visitor = f[i].visitor <=> y = x
      /\ C \in SUBSET es
  <2>1. x \in es
    BY EntriesAre
  <2>2. x.visitor = f[i].visitor
    BY DEF ArrivalAt
  <2> QED
    BY <2>1, <2>2, EntriesAre DEF ArrivesWith, Cluster
<1> DEFINE closed(S) == x \in S /\ \A u \in S : \A y \in es : Near(u, y) => y \in S
           least(S) == closed(S) /\ \A T \in SUBSET es : closed(T) => S \subseteq T
<1>2. Linked(f, f[i].store, f[i].visitor)
        = CHOOSE S \in SUBSET es : least(S)
  <2> DEFINE closed0(S) == /\ \A y \in es : y.visitor = f[i].visitor => y \in S
                           /\ \A u \in S : \A y \in es :
                                u.ts - y.ts \in -GroupWindow..GroupWindow => y \in S
             least0(S) == closed0(S) /\ \A T \in SUBSET es : closed0(T) => S \subseteq T
  <2>1. Linked(f, f[i].store, f[i].visitor) = CHOOSE S \in SUBSET es : least0(S)
    BY DEF Linked
  <2> HIDE DEF es, x, C
  <2>2. \A S : closed0(S) <=> closed(S)
    BY <1>1 DEF Near
  <2> HIDE DEF closed0, closed
  <2>3. \A S \in SUBSET es : least0(S) <=> least(S)
    BY <2>2
  <2> HIDE DEF least0, least
  <2>4. (CHOOSE S \in SUBSET es : least0(S)) = CHOOSE S \in SUBSET es : least(S)
    BY <2>3
  <2> QED
    BY <2>1, <2>4
<1> HIDE DEF es, x
<1>3. closed(C)
  BY <1>1, ClusterIsClosed
<1>4. \A T \in SUBSET es : closed(T) => C \subseteq T
  BY <1>1, ClosedHoldsCluster
<1>5. least(C) /\ C \in SUBSET es /\ \A S \in SUBSET es : least(S) => S = C
  <2>1. least(C)
    BY <1>3, <1>4
  <2> HIDE DEF C, closed
  <2> QED
    BY <2>1, <1>1
<1> HIDE DEF C, least
<1>6. (CHOOSE S \in SUBSET es : least(S)) = C
  BY <1>5
<1> QED
  BY <1>2, <1>6 DEF C, es

\* The members of a cluster are a group when they are two.
LEMMA GroupOfCluster ==
  ASSUME GroupWindow \in Nat, NEW f, EntersOnce(f), NEW i \in DOMAIN f, f[i].type = "ENTRY",
         NEW a, ArrivesWith(f, i, a)
  PROVE  LET es == Entries(f, f[i].store)
             size == Cardinality(Members(es, a))
         IN GroupOf(f, f[i].store, f[i].visitor)
              = IF size >= 2 THEN <<f[i].store, GroupNumber(es, a), size>> ELSE <<>>
<1> DEFINE es == Entries(f, f[i].store)
           v == f[i].visitor
           size(c) == Cardinality(Members(es, c))
           mine == {c \in GroupStarts(es) : v \in Members(es, c)}
           last == CHOOSE c \in mine : \A b \in mine : b = c \/ Earlier(b, c)
<1>1. GroupOf(f, f[i].store, v)
        = IF mine = {} THEN <<>> ELSE <<f[i].store, GroupNumber(es, last), size(last)>>
  BY DEF GroupOf
<1>2. /\ es \subseteq Arrival /\ ArrivalAt(f, i) \in Cluster(es, a) /\ a \in es
      /\ Starts(es, a) /\ ArrivalAt(f, i) \in es /\ ArrivalAt(f, i).visitor = v
      /\ \A x, y \in es : x.visitor = y.visitor => x = y
  <2>1. ArrivalAt(f, i).visitor = v
    BY DEF ArrivalAt
  <2> QED
    BY <2>1, EntriesAre DEF ArrivesWith
<1>3. \A c : Members(es, c) = {b.visitor : b \in Cluster(es, c)}
  BY DEF Members, Cluster
<1>4. \A c : c \in GroupStarts(es) <=> c \in es /\ Starts(es, c) /\ size(c) >= 2
  BY DEF GroupStarts
<1> HIDE DEF es, v, size
<1>5. \A c \in mine : c = a
  <2> SUFFICES ASSUME NEW c \in mine PROVE c = a
    OBVIOUS
  <2>1. PICK b \in Cluster(es, c) : b.visitor = v
    BY <1>3
  <2>2. b = ArrivalAt(f, i) /\ b \in es
    BY <2>1, <1>2 DEF Cluster
  <2>3. c \in es /\ Starts(es, c)
    BY <1>4
  <2> QED
    BY <2>1, <2>2, <2>3, <1>2, OneCluster
<1>6. a \in mine <=> size(a) >= 2
  BY <1>2, <1>3, <1>4
<1>7. CASE size(a) >= 2
  <2>1. mine = {a}
    BY <1>5, <1>6, <1>7
  <2> HIDE DEF mine
  <2>2. last = a
    BY <2>1
  <2> HIDE DEF last
  <2> QED
    BY <2>1, <2>2, <1>1, <1>7 DEF es, v, size
<1>8. CASE ~(size(a) >= 2)
  <2>1. mine = {}
    BY <1>5, <1>6, <1>8
  <2> HIDE DEF mine
  <2> QED
    BY <2>1, <1>1, <1>8 DEF es, v, size
<1> QED
  BY <1>7, <1>8

\* Two groups have different numbers.
LEMMA NumbersDiffer ==
  ASSUME NEW es, es \subseteq Arrival, IsFiniteSet(es),
         NEW a \in GroupStarts(es), NEW c \in GroupStarts(es),
         GroupNumber(es, a) = GroupNumber(es, c)
  PROVE  a = c
<1> DEFINE Below(x) == {b \in GroupStarts(es) : Earlier(b, x)}
<1>1. /\ GroupStarts(es) \subseteq Arrival /\ IsFiniteSet(GroupStarts(es))
  <2>1. GroupStarts(es) \subseteq es
    BY DEF GroupStarts
  <2> QED
    BY <2>1, FS_Subset
<1>2. \A x : IsFiniteSet(Below(x)) /\ Cardinality(Below(x)) \in Nat
  BY <1>1, FS_Subset, FS_CardinalityType
<1>3. \A x : GroupNumber(es, x) = Cardinality(Below(x)) + 1
  BY DEF GroupNumber
<1>4. ASSUME NEW x \in GroupStarts(es), NEW y \in GroupStarts(es),
             Earlier(x, y)
      PROVE  Cardinality(Below(x)) # Cardinality(Below(y))
  <2>1. Below(x) \in SUBSET Below(y) /\ x \in Below(y) /\ x \notin Below(x)
    BY <1>1, <1>4, EarlierIsAnOrder
  <2> HIDE DEF Below
  <2> QED
    BY <2>1, <1>2, FS_Subset
<1> HIDE DEF Below
<1>5. Cardinality(Below(a)) = Cardinality(Below(c))
  BY <1>2, <1>3
<1> QED
  BY <1>1, <1>4, <1>5, EarlierIsAnOrder

\* In a log in which nobody enters twice and every entry has its group, a group is
\* who is linked by entries in the window.
LEMMA GroupsAreTheLinked ==
  ASSUME GroupWindow \in Nat, NEW f, EntersOnce(f),
         \A j \in DOMAIN f : f[j].type = "ENTRY" =>
           f[j].labels.group = GroupOf(f, f[j].store, f[j].visitor),
         NEW i \in DOMAIN f, f[i].type = "ENTRY"
  PROVE  LET peers == {a.visitor : a \in Linked(f, f[i].store, f[i].visitor)}
             bearers == {Key(f[j]) : j \in {k \in DOMAIN f :
                           f[k].type = "ENTRY" /\ f[k].labels.group = f[i].labels.group}}
         IN IF Cardinality(peers) = 1 THEN f[i].labels.group = <<>>
            ELSE /\ bearers = {f[i].store} \X peers
                 /\ f[i].labels.group[3] = Cardinality(peers)
<1> DEFINE es(s) == Entries(f, s)
           size(s, a) == Cardinality(Members(es(s), a))
           number(s, a) == GroupNumber(es(s), a)
           group(j) == f[j].labels.group
           peers == {a.visitor : a \in Linked(f, f[i].store, f[i].visitor)}
           bearers == {Key(f[j]) : j \in {k \in DOMAIN f :
                         f[k].type = "ENTRY" /\ group(k) = group(i)}}
<1>1. ASSUME NEW j \in DOMAIN f, f[j].type = "ENTRY"
      PROVE  \E a : ArrivesWith(f, j, a)
  <2> DEFINE E == Entries(f, f[j].store)
             x == ArrivalAt(f, j)
  <2>1. E \subseteq Arrival /\ x \in E
    BY <1>1, EntriesAre
  <2> HIDE DEF E, x
  <2>2. PICK a \in E : Starts(E, a) /\ x \in Cluster(E, a)
    BY <2>1, SomeCluster
  <2>3. ArrivesWith(f, j, a)
    BY <2>2 DEF ArrivesWith, E, x
  <2> QED
    BY <2>3
<1>2. \A j \in DOMAIN f : \A a : f[j].type = "ENTRY" /\ ArrivesWith(f, j, a) =>
        group(j) = IF size(f[j].store, a) >= 2
                   THEN <<f[j].store, number(f[j].store, a), size(f[j].store, a)>> ELSE <<>>
  BY GroupOfCluster
<1>3. PICK a : ArrivesWith(f, i, a)
  BY <1>1
<1> DEFINE s == f[i].store
           C == Cluster(es(s), a)
<1>4. peers = {b.visitor : b \in C} /\ peers = Members(es(s), a)
  <2>1. peers = {b.visitor : b \in C}
    BY <1>3, LinkedIsCluster
  <2>2. Members(es(s), a) = {b.visitor : b \in C}
    BY DEF Members, Cluster
  <2> QED
    BY <2>1, <2>2
<1>5. /\ es(s) \subseteq Arrival /\ IsFiniteSet(es(s)) /\ a \in es(s) /\ Starts(es(s), a)
      /\ C \subseteq es(s) /\ ArrivalAt(f, i) \in C
  BY <1>3, EntriesAre DEF ArrivesWith, Cluster
<1> HIDE DEF peers
<1>6. IsFiniteSet(peers) /\ Cardinality(peers) \in Nat /\ peers # {}
  <2>1. IsFiniteSet(C)
    BY <1>5, FS_Subset
  <2> DEFINE g == [b \in C |-> b.visitor]
  <2> HIDE DEF C
  <2>2. g \in Surjection(C, peers)
    <3>1. g \in [C -> peers] /\ \A v \in peers : \E b \in C : g[b] = v
      BY <1>4
    <3> QED
      BY <3>1 DEF Surjection
  <2>3. IsFiniteSet(peers)
    BY <2>1, <2>2, FS_Surjection
  <2> QED
    BY <2>3, <1>4, <1>5, FS_CardinalityType
<1>7. Cardinality(peers) # 0
  BY <1>6, FS_EmptySet
<1>8. size(s, a) = Cardinality(peers)
  BY <1>4
<1> HIDE DEF es, size, number, group, C
<1>9. CASE Cardinality(peers) = 1
  <2>1. group(i) = <<>>
    BY <1>2, <1>3, <1>8, <1>9
  <2> QED
    BY <2>1, <1>9 DEF group, peers
<1>10. CASE Cardinality(peers) # 1
  <2>1. size(s, a) >= 2
    BY <1>6, <1>7, <1>8, <1>10
  <2>2. group(i) = <<s, number(s, a), size(s, a)>>
    BY <2>1, <1>2, <1>3
  <2>3. a \in GroupStarts(es(s))
    BY <2>1, <1>5 DEF GroupStarts, size
  <2>4. ASSUME NEW j \in DOMAIN f, f[j].type = "ENTRY", group(j) = group(i)
        PROVE  Key(f[j]) \in {s} \X peers
    <3>1. PICK c : ArrivesWith(f, j, c)
      BY <2>4, <1>1
    <3>2. group(j) = IF size(f[j].store, c) >= 2
                     THEN <<f[j].store, number(f[j].store, c), size(f[j].store, c)>> ELSE <<>>
      BY <2>4, <3>1, <1>2
    <3>3. /\ size(f[j].store, c) >= 2 /\ f[j].store = s
          /\ number(f[j].store, c) = number(s, a)
      <4>1. group(j) # <<>>
        BY <2>2, <2>4
      <4>2. size(f[j].store, c) >= 2
        BY <3>2, <4>1
      <4>3. <<f[j].store, number(f[j].store, c), size(f[j].store, c)>>
              = <<s, number(s, a), size(s, a)>>
        BY <2>2, <2>4, <3>2, <4>2
      <4> QED
        BY <4>2, <4>3
    <3>4. c \in GroupStarts(es(s))
      BY <3>1, <3>3 DEF ArrivesWith, GroupStarts, size, es
    <3>5. c = a
      BY <2>3, <3>3, <3>4, <1>5, NumbersDiffer DEF number
    <3>6. ArrivalAt(f, j) \in C
      BY <3>1, <3>3, <3>5 DEF ArrivesWith, C, es
    <3>7. f[j].visitor \in peers
      BY <3>6, <1>4 DEF ArrivalAt
    <3> QED
      BY <3>3, <3>7 DEF Key
  <2>5. ASSUME NEW v \in peers
        PROVE  \E j \in DOMAIN f : /\ f[j].type = "ENTRY" /\ group(j) = group(i)
                                   /\ Key(f[j]) = <<s, v>>
    <3>1. PICK b \in C : b.visitor = v
      BY <1>4
    <3>2. PICK j \in DOMAIN f : f[j].type = "ENTRY" /\ f[j].store = s /\ b = ArrivalAt(f, j)
      BY <1>5, EntriesAre DEF es
    <3>3. PICK c : ArrivesWith(f, j, c)
      BY <3>2, <1>1
    <3>4. c = a
      <4>1. c \in es(s) /\ Starts(es(s), c) /\ b \in Cluster(es(s), c)
        BY <3>2, <3>3 DEF ArrivesWith, es
      <4> QED
        BY <4>1, <1>5, OneCluster DEF C
    <3>5. group(j) = group(i)
      BY <2>1, <2>2, <3>2, <3>3, <3>4, <1>2
    <3>6. Key(f[j]) = <<s, v>>
      BY <3>1, <3>2 DEF Key, ArrivalAt
    <3> QED
      BY <3>2, <3>5, <3>6
  <2>6. bearers = {s} \X peers
    <3>1. bearers \subseteq {s} \X peers
      BY <2>4
    <3>2. ASSUME NEW p \in {s} \X peers PROVE p \in bearers
      <4>1. PICK v \in peers : p = <<s, v>>
        OBVIOUS
      <4> QED
        BY <4>1, <2>5
    <3> QED
      BY <3>1, <3>2
  <2>7. group(i)[3] = Cardinality(peers)
    BY <2>2, <1>8
  <2> QED
    BY <2>6, <2>7, <1>10 DEF group, peers
<1> QED
  BY <1>9, <1>10

\* Times and visitors of the events in hand are those of the pass.
LEMMA PassTimes ==
  ASSUME PassesAreBare, NEW p \in Passes, NEW f, OfPass(f, p)
  PROVE  /\ DOMAIN f = 1..Len(f) /\ Len(f) \in Nat
         /\ \A j \in DOMAIN f : {f[j].ts, f[j].visitor} \subseteq Nat
<1>1. /\ p \in Seq(ToSet(p)) /\ Len(p) \in Nat /\ OfPass(p, p)
  BY PassIsOfPass
<1>2. /\ Len(f) \in 0..Len(p) /\ DOMAIN f = 1..Len(f)
      /\ \A i \in 1..Len(f) : DOMAIN f[i] = Fields /\ Relabelled(f[i], NoLabels) = p[i]
  BY DEF OfPass
<1>3. ASSUME NEW j \in DOMAIN f PROVE {f[j].ts, f[j].visitor} \subseteq Nat
  <2>1. j \in 1..Len(p) /\ p[j] \in ToSet(p)
    <3>1. j \in 1..Len(p)
      BY <1>1, <1>2
    <3> QED
      BY <3>1, <1>1 DEF ToSet
  <2>2. {p[j].ts, p[j].visitor} \subseteq Nat
    BY <2>1 DEF PassesAreBare
  <2>3. DOMAIN f[j] = Fields /\ Relabelled(f[j], NoLabels) = p[j]
    BY <1>2
  <2>4. p[j].ts = f[j].ts /\ p[j].visitor = f[j].visitor
    BY <2>3, LabelsAreOneField
  <2> QED
    BY <2>2, <2>4
<1> QED
  BY <1>1, <1>2, <1>3

\* One entry for each visitor of a store.
LEMMA NobodyTwice ==
  ASSUME NEW f, DOMAIN f = 1..Len(f), Len(f) \in Nat,
         \A e \in ToSet(f) : Cardinality(Enters(f, Key(e))) <= 1,
         NEW j \in DOMAIN f, NEW k \in DOMAIN f,
         f[j].type = "ENTRY", f[k].type = "ENTRY", Key(f[j]) = Key(f[k])
  PROVE  j = k
<1> DEFINE I == Enters(f, Key(f[j]))
<1>1. Cardinality(I) <= 1
  <2>1. f[j] \in ToSet(f)
    BY DEF ToSet
  <2>2. \A S : Cardinality(S) = Cardinality(S)
    OBVIOUS
  <2> QED
    BY <2>1, <2>2
<1>2. I \subseteq 1..Len(f) /\ j \in I /\ k \in I
  BY DEF Enters
<1> HIDE DEF I
<1>3. IsFiniteSet(I) /\ Cardinality(I) \in Nat
  <2>1. IsFiniteSet(1..Len(f))
    BY FS_Interval
  <2>2. IsFiniteSet(I)
    BY <2>1, <1>2, FS_Subset
  <2> QED
    BY <2>2, FS_CardinalityType
<1>4. {j} \in SUBSET I /\ Cardinality({j}) = 1
  BY <1>2, FS_Singleton
<1>5. Cardinality({j}) <= Cardinality(I) /\ (Cardinality(I) = Cardinality({j}) => I = {j})
  BY <1>3, <1>4, FS_Subset
<1>6. I = {j}
  BY <1>1, <1>3, <1>4, <1>5
<1> QED
  BY <1>2, <1>6

\* The labels in hand are of the events in hand.
LEMMA LabelsInHand ==
  ASSUME PassesAreBare, NEW p \in Passes, NEW f, OfPass(f, p), NEW known,
         NEW g, g = Enriched(f, known),
         NEW j \in DOMAIN g, g[j].type = "ENTRY"
  PROVE  g[j].labels.group = GroupOf(g, g[j].store, g[j].visitor)
<1>1. OfPass(g, p) /\ Len(g) = Len(f)
  BY EnrichedIsOfPass
<1>2. /\ DOMAIN g = 1..Len(f) /\ DOMAIN f = 1..Len(f) /\ j \in DOMAIN f
      /\ \A i \in DOMAIN f : /\ DOMAIN f[i] = Fields /\ DOMAIN g[i] = Fields
                             /\ Relabelled(f[i], NoLabels) = p[i]
                             /\ Relabelled(g[i], NoLabels) = p[i]
  BY <1>1 DEF OfPass
<1>3. SameEvents(f, g)
  BY <1>2 DEF SameEvents
<1>4. LabelsOf(f, known, f[j]) = LabelsOf(g, known, g[j])
  BY <1>2, <1>3, LabelsIgnoreLabels
<1>5. g[j].labels = LabelsOf(f, known, f[j])
  <2>1. g[j] = Relabelled(f[j], LabelsOf(f, known, f[j]))
    BY <1>2 DEF Enriched, Relabelled
  <2>2. DOMAIN f[j] = Fields
    BY <1>2
  <2> DEFINE l == LabelsOf(f, known, f[j])
  <2> HIDE DEF l
  <2>3. Relabelled(f[j], l).labels = l
    BY <2>2 DEF Relabelled, Fields
  <2> QED
    BY <2>1, <2>3 DEF l
<1>6. LabelsOf(g, known, g[j]).group = GroupOf(g, g[j].store, g[j].visitor)
  BY DEF LabelsOf
<1> QED
  BY <1>4, <1>5, <1>6

\* What is in hand when the file was read is the file with its labels.
ReadInv == pc = "read" => \E known : out = Enriched(file, known)

\* The people of a group are those who arrived together, and the stores do not mix.
THEOREM GroupsAreArrivals == EnrichSpec => []GroupsArriveTogether
<1> DEFINE Inv == ScriptInv /\ ReadInv
<1>1. EnrichInit => Inv
  BY ScriptInit, EnrichAssumption DEF EnrichInit, ReadInv
<1>2. Inv /\ [EnrichNext]_(enrichVars) => Inv'
  <2> SUFFICES ASSUME Inv, [EnrichNext]_(enrichVars) PROVE ScriptInv' /\ ReadInv'
    OBVIOUS
  <2>1. ScriptInv'
    BY ScriptStep, EnrichAssumption
  <2>2. ReadInv'
    BY DEF ReadInv, EnrichNext, Read, Truncate, Complete, Die,
           SidecarSaved, Detect, enrichVars
  <2> QED
    BY <2>1, <2>2
<1>3. Inv => GroupsArriveTogether
  <2> SUFFICES ASSUME ScriptInv, ReadInv, pc = "read",
                      \A e \in ToSet(out) :
                        Cardinality(Enters(out, Key(e))) <= 1,
                      NEW e \in ToSet(out), e.type = "ENTRY"
               PROVE  LET peers == {a.visitor : a \in Linked(out, e.store, e.visitor)}
                          bearers == {Key(f) : f \in {x \in ToSet(out) :
                                        x.type = "ENTRY" /\ x.labels.group = e.labels.group}}
                      IN IF Cardinality(peers) = 1 THEN e.labels.group = <<>>
                         ELSE /\ bearers = {e.store} \X peers
                              /\ e.labels.group[3] = Cardinality(peers)
    BY DEF GroupsArriveTogether
  <2>1. PICK i \in DOMAIN out : e = out[i]
    BY DEF ToSet
  <2>2. /\ pass \in Passes /\ OfPass(file, pass) /\ OfPass(out, pass)
    BY DEF ScriptInv
  <2>3. PICK known : out = Enriched(file, known)
    BY DEF ReadInv
  <2>4. /\ DOMAIN out = 1..Len(out) /\ Len(out) \in Nat
        /\ \A j \in DOMAIN out : {out[j].ts, out[j].visitor} \subseteq Nat
    BY <2>2, PassTimes, EnrichAssumption
  <2>5. \A j, k \in DOMAIN out :
          out[j].type = "ENTRY" /\ out[k].type = "ENTRY"
            /\ Key(out[j]) = Key(out[k]) => j = k
    BY <2>4, NobodyTwice
  <2>6. EntersOnce(out)
    BY <2>4, <2>5 DEF EntersOnce
  <2>7. \A j \in DOMAIN out : out[j].type = "ENTRY" =>
          out[j].labels.group = GroupOf(out, out[j].store, out[j].visitor)
    BY <2>2, <2>3, LabelsInHand, EnrichAssumption
  <2> DEFINE peers == {a.visitor : a \in Linked(out, e.store, e.visitor)}
             bearers == {Key(out[j]) : j \in {k \in DOMAIN out :
                           out[k].type = "ENTRY" /\ out[k].labels.group = e.labels.group}}
  <2>8. IF Cardinality(peers) = 1 THEN e.labels.group = <<>>
        ELSE /\ bearers = {e.store} \X peers
             /\ e.labels.group[3] = Cardinality(peers)
    <3>1. GroupWindow \in Nat
      BY EnrichAssumption
    <3> QED
      BY <3>1, <2>1, <2>6, <2>7, GroupsAreTheLinked
  <2>9. bearers = {Key(f) : f \in {x \in ToSet(out) :
                     x.type = "ENTRY" /\ x.labels.group = e.labels.group}}
    BY DEF ToSet
  <2> HIDE DEF bearers
  <2> QED
    BY <2>8, <2>9
<1> QED
  BY <1>1, <1>2, <1>3, PTL DEF EnrichSpec

===============================================================================
