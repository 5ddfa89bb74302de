-------------------------------- MODULE Enrich --------------------------------
(***************************************************************************)
(* scripts/enrich_events_schema.py: the events file of a detection pass is *)
(* read, the metadata of every event is built anew (who arrived together,  *)
(* how long a visitor stood at the checkout, the demographics sidecar),    *)
(* and the file is written in place, which truncates it first.  It may be  *)
(* run again at any time, over its own output or that of a new pass.       *)
(***************************************************************************)
EXTENDS Integers, FiniteSets, FiniteSetsExt, Sequences, SequencesExt

CONSTANTS
  Passes,      \* what a detection pass may write: events without labels
  Sidecars,    \* the visitors a demographics sidecar may know
  GroupWindow  \* GROUP_WINDOW_MS

VARIABLES
  pass,          \* history: the events of the last detection pass
  file,          \* the events in behavior.jsonl
  broken,        \* it ends within a line
  demographics,  \* the visitors that demographics.json knows
  pc,            \* "idle", "read" when the labels are made, "truncated" in the write
  out,           \* the events to be written
  cut,           \* history: a write was cut short since the pass
  used           \* history: the sidecar that the last run read, if it was not cut short

enrichVars == <<pass, file, broken, demographics, pc, out, cut, used>>

None == "none"

-------------------------------------------------------------------------------
(* The labels *)

Key(e) == <<e.store, e.visitor>>
NoLabels == [wait |-> 0, group |-> <<>>, demo |-> FALSE, hotspot |-> FALSE]
Fields == {"store", "visitor", "type", "ts", "zone", "dwell", "labels"}

\* The events without their labels.
Bare(events) == [i \in 1..Len(events) |-> [events[i] EXCEPT !.labels = NoLabels]]

\* A detection pass writes events that have every field, and no labels yet;
\* visitors are numbered in the order of their ids.
PassesAreBare ==
  \A p \in Passes : /\ p \in Seq(ToSet(p)) /\ Bare(p) = p
                    /\ \A e \in ToSet(p) : DOMAIN e = Fields /\ {e.ts, e.visitor} \subseteq Nat

ASSUME EnrichAssumption == PassesAreBare /\ GroupWindow \in Nat

\* The entries of a store in the order of arrival, ties by visitor.
Entries(events, store) ==
  {[ts |-> e.ts, visitor |-> e.visitor] :
     e \in {x \in ToSet(events) : x.type = "ENTRY" /\ x.store = store}}
Earlier(a, b) == a.ts < b.ts \/ (a.ts = b.ts /\ a.visitor < b.visitor)

\* Mutant: a group must arrive within the window of its first member.
Starts_FromFirst(es, a) ==
  \A b \in es : Earlier(b, a) => a.ts - Min({x.ts : x \in es}) > GroupWindow

\* An arrival starts a cluster unless another one came shortly before.
Starts(es, a) == \A b \in es : Earlier(b, a) => a.ts - b.ts > GroupWindow

\* The cluster that a starts: what comes before the next start.
Members(es, a) ==
  {b.visitor : b \in {x \in es :
     /\ x = a \/ Earlier(a, x)
     /\ \A c \in es : Starts(es, c) /\ Earlier(a, c) => Earlier(x, c)}}

\* Clusters of one visitor are no group; the others are numbered in order.
GroupStarts(es) == {a \in es : Starts(es, a) /\ Cardinality(Members(es, a)) >= 2}
GroupNumber(es, a) == Cardinality({b \in GroupStarts(es) : Earlier(b, a)}) + 1

\* The group of a visitor is the last one that they arrived in, or none.
GroupOf(events, store, visitor) ==
  LET es == Entries(events, store)
      mine == {a \in GroupStarts(es) : visitor \in Members(es, a)}
      last == CHOOSE a \in mine : \A b \in mine : b = a \/ Earlier(b, a)
  IN IF mine = {} THEN <<>>
     ELSE <<store, GroupNumber(es, last), Cardinality(Members(es, last))>>

\* round(ms / 1000), halves to even
Seconds(ms) ==
  LET whole == ms \div 1000
      rest  == ms % 1000
  IN IF rest > 500 \/ (rest = 500 /\ whole % 2 = 1) THEN whole + 1 ELSE whole

CheckoutDwells(events, key) ==
  {e.dwell : e \in {x \in ToSet(events) : Key(x) = key /\ x.zone = "checkout"}} \cup {0}

BillingTypes == {"BILLING_QUEUE_JOIN", "BILLING_QUEUE_ABANDON"}

\* Mutant: demographics that an earlier run put in stay.
LabelsOf_Keep(events, known, e) ==
  [wait |-> IF e.type \in BillingTypes THEN Seconds(Max(CheckoutDwells(events, Key(e)))) ELSE 0,
   group |-> IF e.type \in {"ENTRY", "EXIT", "REENTRY"}
             THEN GroupOf(events, e.store, e.visitor) ELSE <<>>,
   demo |-> Key(e) \in known \/ e.labels.demo,
   hotspot |-> (Key(e) \in known \/ e.labels.demo) /\ e.zone # None]

\* Built anew for every event, whatever labels it has.
LabelsOf(events, known, e) ==
  [wait |-> IF e.type \in BillingTypes THEN Seconds(Max(CheckoutDwells(events, Key(e)))) ELSE 0,
   group |-> IF e.type \in {"ENTRY", "EXIT", "REENTRY"}
             THEN GroupOf(events, e.store, e.visitor) ELSE <<>>,
   demo |-> Key(e) \in known,
   hotspot |-> Key(e) \in known /\ e.zone # None]

\* Mutant: the events are written in the order of arrival.
Enriched_Sorted(events, known) ==
  LET sorted == SortSeq(events, LAMBDA a, b : a.ts < b.ts)
  IN [i \in 1..Len(events) |->
       [sorted[i] EXCEPT !.labels = LabelsOf(events, known, sorted[i])]]

Enriched(events, known) ==
  [i \in 1..Len(events) |-> [events[i] EXCEPT !.labels = LabelsOf(events, known, events[i])]]

-------------------------------------------------------------------------------
(* The script and its surroundings *)

EnrichInit ==
  /\ pass \in Passes /\ file = pass /\ broken = FALSE
  /\ demographics \in Sidecars
  /\ pc = "idle" /\ out = <<>> /\ cut = FALSE /\ used = {}

\* A torn or missing sidecar knows nobody, and does not stop the script.  A
\* broken line does: the file stays as it is.
Read ==
  /\ pc = "idle" /\ ~broken
  /\ out' = Enriched(file, demographics)
  /\ used' = {demographics}
  /\ pc' = "read"
  /\ UNCHANGED <<pass, file, broken, demographics, cut>>

Truncate ==
  /\ pc = "read"
  /\ pc' = "truncated" /\ file' = <<>>
  /\ UNCHANGED <<pass, broken, demographics, out, cut, used>>

Complete ==
  /\ pc = "truncated"
  /\ pc' = "idle" /\ file' = out /\ out' = <<>>
  /\ UNCHANGED <<pass, broken, demographics, cut, used>>

\* The script dies: before the write nothing has happened, in the write a part
\* of the file is there, which may end within a line.
Die ==
  /\ \/ pc = "read" /\ UNCHANGED <<file, broken, cut>>
     \/ /\ pc = "truncated"
        /\ \E n \in 0..(Len(out) - 1) : file' = SubSeq(out, 1, n)
        /\ broken' \in BOOLEAN /\ cut' = TRUE
  /\ pc' = "idle" /\ out' = <<>> /\ used' = {}
  /\ UNCHANGED <<pass, demographics>>

\* The demographics pass writes its sidecar, or leaves it torn.
SidecarSaved ==
  /\ demographics' \in Sidecars
  /\ UNCHANGED <<pass, file, broken, pc, out, cut, used>>

\* A detection pass over the same clips writes the file anew.
Detect ==
  /\ pc = "idle"
  /\ file' = pass /\ broken' = FALSE /\ cut' = FALSE /\ used' = {}
  /\ UNCHANGED <<pass, demographics, pc, out>>

EnrichNext == Read \/ Truncate \/ Complete \/ Die \/ SidecarSaved \/ Detect

EnrichSpec == EnrichInit /\ [][EnrichNext]_enrichVars

-------------------------------------------------------------------------------
(* Properties *)

\* "preserve event_id + top-level fields", "same order/count": whatever runs,
\* deaths and passes there were, the file holds events of the pass in order; and
\* all of them, unless a write was cut short.
EventsSurvive ==
  /\ IsPrefix(Bare(file), pass)
  /\ ~cut /\ pc # "truncated" => Bare(file) = pass

\* "Deterministic + idempotent": the labels are a function of the pass and of
\* the sidecar that the last run read, whatever earlier runs had put in.
LabelsAreOfLastRun ==
  pc = "idle" /\ ~cut => \A known \in used : file = Enriched(pass, known)

\* The arrivals of the store that are linked to this visitor's by steps no
\* longer than the window: the least set closed under them.
Linked(events, store, visitor) ==
  LET es == Entries(events, store)
      closed(S) == /\ \A a \in es : a.visitor = visitor => a \in S
                   /\ \A a \in S : \A b \in es :
                        a.ts - b.ts \in -GroupWindow..GroupWindow => b \in S
  IN CHOOSE S \in SUBSET es : closed(S) /\ \A T \in SUBSET es : closed(T) => S \subseteq T

Enters(events, key) == {i \in 1..Len(events) : events[i].type = "ENTRY" /\ Key(events[i]) = key}

\* "people arriving together": if nobody entered twice, then the group of a
\* visitor is exactly those linked to them by entries in the window, everybody
\* bears the same id, two groups bear different ones, the size is the number
\* of those who bear it, and who came alone has none; the two stores do not mix.
GroupsArriveTogether ==
  pc = "read" /\ (\A e \in ToSet(out) : Cardinality(Enters(out, Key(e))) <= 1) =>
    \A e \in ToSet(out) :
      e.type = "ENTRY" =>
        LET peers == {a.visitor : a \in Linked(out, e.store, e.visitor)}
            bearers == {Key(f) : f \in {x \in ToSet(out) : x.type = "ENTRY"
                                                            /\ x.labels.group = e.labels.group}}
        IN IF Cardinality(peers) = 1 THEN e.labels.group = <<>>
           ELSE /\ bearers = {e.store} \X peers
                /\ e.labels.group[3] = Cardinality(peers)

===============================================================================
