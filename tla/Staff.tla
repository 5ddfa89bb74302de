--------------------------------- MODULE Staff ---------------------------------
(***************************************************************************)
(* Staff or customer: StaffDecider (detector/app/staff_decider.py) prefers *)
(* the verdict of a VLM on the visitor and falls back on the uniform       *)
(* colour of the track (staff.py).  Verdicts are kept on disk by           *)
(* JsonFileCache (vlm.py), for the passes of a detector that may crash.    *)
(* Here a VLM is configured and asked about staff.                         *)
(*                                                                         *)
(* When the clips are over, the pass harvests demographics of the visitors *)
(* it asked about (demographics_by_visitor) and merges them into a sidecar *)
(* file that it shares with the passes over other stores.                  *)
(*                                                                         *)
(* By the time a track is asked about, its visitor is resolved and its     *)
(* mean colour no longer changes (accumulate_signature, main.py), and a    *)
(* new pass over the same clips sees the same people.                      *)
(***************************************************************************)
EXTENDS Integers, FiniteSets

CONSTANTS
  Tracks,            \* (camera, local id) pairs
  Visitor,           \* [Tracks -> visitors]: what the registry resolves them to
  PresenceFallback,  \* staff_presence_fallback
  NoVerdict,
  Others,            \* the entries of other stores in the sidecar
  Torn,              \* a file whose write has begun and not ended
  MaxCrashes         \* bound on the passes

Visitors == {Visitor[t] : t \in Tracks}
Verdicts == [staff : BOOLEAN, sure : BOOLEAN]
Answers  == [track : Tracks, verdict : Verdicts]

ASSUME StaffAssumption ==
  /\ PresenceFallback \in BOOLEAN /\ MaxCrashes \in Nat
  /\ NoVerdict \notin Answers
  /\ Others \notin Visitors
  /\ \A entries \in SUBSET (Visitors \cup {Others}) : Torn # entries

VARIABLES
  colour,     \* the mean uniform colour: below the threshold, above, or decisive
  early,      \* the tracks of which there is a crop before their first event
  crops,      \* the tracks of which there is a crop to show
  verdicts,   \* StaffDecider._verdicts: [visitor -> verdict]
  failed,     \* StaffDecider._failed
  cache,      \* vlm_cache.json: [visitor -> verdict]
  answer,     \* the VLM's answer that is not kept yet, or NoVerdict
  flags,      \* the values of is_staff on the events of each track, in this pass
  asked,      \* calls per visitor in this pass
  paid,       \* calls per visitor that were answered, in all passes
  lost,       \* answers that could not be read, or that a crash took before they were kept
  crashes,
  phase,      \* "frames", "harvest", "writing", "done"
  todo,       \* the visitors that are still to be labelled
  labels,     \* the visitors of whom this harvest has demographics
  labelled,   \* the demographics in vlm_cache.json
  sidecar,    \* whose entries demographics.json has, or Torn
  merged,     \* what is being written to it
  torn        \* history: a crash cut a write short

people  == <<colour, early, crops>>
harvest == <<phase, todo, labels, labelled, sidecar, merged, torn>>
vars == <<people, verdicts, failed, cache, answer, flags, asked, paid, lost, crashes, harvest>>

With(f, v, x) == [w \in DOMAIN f \cup {v} |-> IF w = v THEN x ELSE f[w]]

\* What the decider of a pass keeps in memory, and which ends with it.
Forget ==
  /\ verdicts' = <<>> /\ failed' = {} /\ answer' = NoVerdict
  /\ flags' = [t \in Tracks |-> {}]
  /\ asked' = [v \in Visitors |-> 0]

Init ==
  /\ colour \in [Tracks -> {"below", "above", "decisive"}]
  /\ early \in SUBSET Tracks /\ crops = early
  /\ verdicts = <<>> /\ failed = {} /\ cache = <<>> /\ answer = NoVerdict
  /\ flags = [t \in Tracks |-> {}]
  /\ asked = [v \in Visitors |-> 0]
  /\ paid = [v \in Visitors |-> 0] /\ lost = [v \in Visitors |-> 0]
  /\ crashes = 0
  /\ phase = "frames" /\ todo = {} /\ labels = {} /\ labelled = {}
  /\ sidecar = {Others} /\ merged = {} /\ torn = FALSE

\* No event is asked about while an answer is awaited.
Free == phase = "frames" /\ answer = NoVerdict

\* observe_crop: a track that had always been outside the image comes into it.
GainCrop(t) ==
  /\ Free /\ t \notin crops
  /\ crops' = crops \cup {t}
  /\ UNCHANGED <<colour, early, verdicts, failed, cache, answer, flags, asked, paid, lost, crashes, harvest>>

-------------------------------------------------------------------------------
(* is_staff on one event of a track *)

\* StaffClassifier.is_staff: the colour, or a long dwell where that counts.
ByHeuristic(t, long) == colour[t] # "below" \/ (PresenceFallback /\ long)

\* The event is written with the flag.
Flag(t, staff) == flags' = [flags EXCEPT ![t] = @ \cup {staff}]

ByVerdict(t, long, verdict) ==
  Flag(t, IF verdict.sure THEN verdict.staff ELSE ByHeuristic(t, long))

\* A decisive colour overrides the VLM, which is not asked.
Override(t) ==
  /\ Free /\ colour[t] = "decisive"
  /\ Flag(t, TRUE)
  /\ UNCHANGED <<people, verdicts, failed, cache, answer, asked, paid, lost, crashes, harvest>>

\* The verdict of this pass, or else the one on disk.
UseVerdict(t, long) ==
  LET v == Visitor[t] IN
  /\ Free /\ colour[t] # "decisive" /\ v \notin failed
  /\ \/ /\ v \in DOMAIN verdicts
        /\ ByVerdict(t, long, verdicts[v])
        /\ UNCHANGED verdicts
     \/ /\ v \notin DOMAIN verdicts /\ v \in DOMAIN cache
        /\ verdicts' = With(verdicts, v, cache[v])
        /\ ByVerdict(t, long, cache[v])
  /\ UNCHANGED <<people, failed, cache, answer, asked, paid, lost, crashes, harvest>>

\* Nothing to show, or the call failed before.
FallBack(t, long) ==
  LET v == Visitor[t] IN
  /\ Free /\ colour[t] # "decisive"
  /\ v \in failed \/ (v \notin DOMAIN verdicts \cup DOMAIN cache /\ t \notin crops)
  /\ Flag(t, ByHeuristic(t, long))
  /\ UNCHANGED <<people, verdicts, failed, cache, answer, asked, paid, lost, crashes, harvest>>

\* The VLM has not been asked about the visitor, and can be shown this track.
MayAsk(t) ==
  LET v == Visitor[t] IN
  /\ Free /\ colour[t] # "decisive" /\ t \in crops
  /\ v \notin failed \cup DOMAIN verdicts \cup DOMAIN cache

\* Mutant: a failed call is not remembered.
AskFails_Forgets(t, long) ==
  /\ MayAsk(t)
  /\ asked' = [asked EXCEPT ![Visitor[t]] = IF @ < 2 THEN @ + 1 ELSE @]
  /\ Flag(t, ByHeuristic(t, long))
  /\ UNCHANGED <<people, verdicts, failed, cache, answer, crashes, harvest>>

\* classify_staff raises, after the retries of the client or in the parser.
AskFails(t, long) ==
  /\ MayAsk(t)
  /\ asked' = [asked EXCEPT ![Visitor[t]] = @ + 1]
  /\ failed' = failed \cup {Visitor[t]}
  /\ Flag(t, ByHeuristic(t, long))
  /\ UNCHANGED <<people, verdicts, cache, answer, crashes, harvest>>

\* There is no answer ...
NoAnswer(t, long) ==
  /\ AskFails(t, long)
  /\ UNCHANGED <<paid, lost>>

\* ... or there is one, which was paid for and is not the JSON that was asked for.
Unreadable(t, long) ==
  /\ AskFails(t, long)
  /\ paid' = [paid EXCEPT ![Visitor[t]] = @ + 1]
  /\ lost' = [lost EXCEPT ![Visitor[t]] = @ + 1]

\* The VLM answers ...
Ask(t, verdict) ==
  /\ MayAsk(t)
  /\ asked' = [asked EXCEPT ![Visitor[t]] = @ + 1]
  /\ paid' = [paid EXCEPT ![Visitor[t]] = @ + 1]
  /\ answer' = [track |-> t, verdict |-> verdict]
  /\ UNCHANGED <<people, verdicts, failed, cache, flags, lost, crashes, harvest>>

\* Mutant: the verdict is kept for this pass only.
Keep_InMemory(long) ==
  /\ answer # NoVerdict
  /\ verdicts' = With(verdicts, Visitor[answer.track], answer.verdict)
  /\ ByVerdict(answer.track, long, answer.verdict)
  /\ answer' = NoVerdict
  /\ UNCHANGED <<people, failed, cache, asked, paid, lost, crashes, harvest>>

\* ... and the answer is kept, on disk too (the file is replaced as a whole); the
\* dwell is that of the event that waited for it.
Keep(long) ==
  /\ answer # NoVerdict
  /\ verdicts' = With(verdicts, Visitor[answer.track], answer.verdict)
  /\ cache' = With(cache, Visitor[answer.track], answer.verdict)
  /\ ByVerdict(answer.track, long, answer.verdict)
  /\ answer' = NoVerdict
  /\ UNCHANGED <<people, failed, asked, paid, lost, crashes, harvest>>

-------------------------------------------------------------------------------
(* The harvest *)

\* The clips are over: who had an event, and has a crop, is to be labelled.
EndPass ==
  /\ Free
  /\ phase' = "harvest"
  /\ todo' = {Visitor[t] : t \in {u \in crops : flags[u] # {}}}
  /\ Forget
  /\ UNCHANGED <<people, cache, paid, lost, crashes, labels, labelled, sidecar, merged, torn>>

\* The label on disk, or else the one that the VLM gives, which is then kept.
Label(v) ==
  /\ phase = "harvest" /\ v \in todo
  /\ todo' = todo \ {v}
  /\ labels' = labels \cup {v}
  /\ labelled' = labelled \cup {v}
  /\ UNCHANGED <<people, verdicts, failed, cache, answer, flags, asked, paid, lost, crashes,
                 phase, sidecar, merged, torn>>

\* The call fails: the visitor is left out.
LabelFails(v) ==
  /\ phase = "harvest" /\ v \in todo \ labelled
  /\ todo' = todo \ {v}
  /\ UNCHANGED <<people, verdicts, failed, cache, answer, flags, asked, paid, lost, crashes,
                 phase, labels, labelled, sidecar, merged, torn>>

\* Mutant: the file of the pass replaces the one that is there.
Merge_Replaces ==
  /\ phase = "harvest" /\ todo = {} /\ labels # {}
  /\ phase' = "writing"
  /\ merged' = labels
  /\ sidecar' = Torn
  /\ UNCHANGED <<people, verdicts, failed, cache, answer, flags, asked, paid, lost, crashes,
                 todo, labels, labelled, torn>>

\* _harvest_demographics reads the file, if it can be read, and begins to write it.
Merge ==
  /\ phase = "harvest" /\ todo = {} /\ labels # {}
  /\ phase' = "writing"
  /\ merged' = labels \cup (IF sidecar = Torn THEN {} ELSE sidecar)
  /\ sidecar' = Torn
  /\ UNCHANGED <<people, verdicts, failed, cache, answer, flags, asked, paid, lost, crashes,
                 todo, labels, labelled, torn>>

Written ==
  /\ phase = "writing"
  /\ phase' = "done"
  /\ sidecar' = merged /\ merged' = {}
  /\ UNCHANGED <<people, verdicts, failed, cache, answer, flags, asked, paid, lost, crashes,
                 todo, labels, labelled, torn>>

\* There is nothing to write.
NoHarvest ==
  /\ phase = "harvest" /\ todo = {} /\ labels = {}
  /\ phase' = "done"
  /\ UNCHANGED <<people, verdicts, failed, cache, answer, flags, asked, paid, lost, crashes,
                 todo, labels, labelled, sidecar, merged, torn>>

\* The detector crashes, or is run once more: a new pass.
Restart ==
  /\ crashes < MaxCrashes
  /\ crashes' = crashes + 1
  /\ Forget
  /\ crops' = early
  /\ lost' = IF answer = NoVerdict THEN lost
             ELSE [lost EXCEPT ![Visitor[answer.track]] = @ + 1]
  /\ phase' = "frames" /\ todo' = {} /\ labels' = {} /\ merged' = {}
  /\ torn' = (torn \/ phase = "writing")
  /\ UNCHANGED <<colour, early, cache, paid, labelled, sidecar>>

Next ==
  \/ \E t \in Tracks : GainCrop(t) \/ Override(t) \/ \E verdict \in Verdicts : Ask(t, verdict)
  \/ \E t \in Tracks, long \in BOOLEAN :
       \/ UseVerdict(t, long)
       \/ FallBack(t, long)
       \/ NoAnswer(t, long)
       \/ Unreadable(t, long)
  \/ \E long \in BOOLEAN : Keep(long)
  \/ EndPass
  \/ \E v \in Visitors : Label(v) \/ LabelFails(v)
  \/ Merge
  \/ Written
  \/ NoHarvest
  \/ Restart

Spec == Init /\ [][Next]_vars

-------------------------------------------------------------------------------
(* Properties *)

\* "ONE VLM call (cached by visitor_id)" and "re-runs make no API calls": a pass
\* asks at most once about a visitor, on whichever cameras it is seen and also
\* when the call fails, and over all passes an answer is paid for a second time
\* only if the first could not be read, or a crash came before it could be kept.
PaidOnce ==
  \A v \in Visitors : asked[v] <= 1 /\ paid[v] <= 1 + lost[v]

\* While the pass lasts, all events of a track that could be shown to the VLM
\* carry the same is_staff, whatever happened to the other tracks of its visitor
\* in between; a track that had no crop at first may change with a later verdict.
TracksKeepTheirFlag ==
  ~PresenceFallback => \A t \in early : Cardinality(flags[t]) <= 1

\* "Merges into any existing sidecar (other stores' entries are preserved)"
\* (_harvest_demographics), unless a crash cut a write short: then the file is
\* unreadable, and the next harvest starts from nothing.  A pass that ends has
\* its labels in the file in any case.
SidecarKeepsEntries ==
  /\ phase # "writing" /\ ~torn => Others \in sidecar
  /\ phase = "done" /\ labels # {} => labels \subseteq sidecar

===============================================================================
