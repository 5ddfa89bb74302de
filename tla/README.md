# ShelfSense, specified

A TLA+ development of [ShelfSense](../src/README.md): the program that turns the
CCTV clips of a shop into events, stores them, and serves conversion figures and
a dashboard. The modules are translated from the Python and TypeScript sources;
TLC checks them on small instances, and TLAPS proves the central results for
every instance.

Paths below are relative to `src/`; *common* is
`services/common/shelfsense_common`, *detector* is `services/detector/app`, *api*
is `services/api/shelfsense_api`.

## 1. The system

```
 clip ─► detector ─────────────────► events ─► JSONL file ──► replayer ─┐
         boxes ► group split ► gates   └────► HTTP sink ─► POST /events/ingest
         ► tracks ► visitors ► zones                          │
         staff flag (VLM, cache)       JSONL file ◄─► enrich script (labels, groups)
                                             sales file ─► tables (Postgres)
                                                              │
                            dashboard ◄─ poll ─ GET /stores/{id}/… (analytics)
```

| component | source | state it keeps | operations | what makes it correct | hard because of |
|---|---|---|---|---|---|
| Ingest | api `routers/events.py`, `repository.py` | table `behavior_events` | `POST /events/ingest`: select, insert all, fall back row by row | an answer is exact; a row is stored once and never changed; the handler is an atomic event store | concurrent requests on separate sessions; the database failing between commits |
| Event delivery | common `sinks.py`, `worker.py`, detector `main.py`, `scripts/ingest_events.py`, detector `zone_resolver.py`, api `main.py`, `db.py` | JSONL file, buffer, zone cache; the API up, its database reachable, its tables there | write, flush, retry, drop, replay; start and stop of detector and API | nothing is lost silently; the file is one pass; a replay restores; the counts are exact; a pass ends | crashes and restarts, lost answers, an API that comes and goes, and one that serves without its tables |
| Group split | detector `group_split.py` | none (a function of a frame) | `split` | everybody in a split box gets a number of their own, from the left | overlapping boxes, people in the pose model's order |
| Track association | detector `association.py`, `frames.py` | track → local id, last time of each local | `assign` | people who are on screen together keep distinct ids | missed and revived tracks, boxes that are split in one frame and not in the next, rounding of the sample rate |
| Detection gates | detector `gating.py`, common `contracts/zones.py`, `contracts/events.py` | none (functions of a box and the calibrated coordinates) | size gate, walkable floor, inner side of the line | only who stands on the floor and inside counts | foot points at the height of a vertex, on an edge, on the line |
| Zone tracker | detector `zone_tracker.py` | presence per track | `observe`, `sweep`, `flush` | events are exactly the visits | gaps, several dwells due at once, visits noticed late |
| Entrance crossing | detector `crossing.py` | side and candidate side per track | `update` | crossings alternate and are the flips that persist | flicker on the line |
| Visitor identity | detector `visits.py`, `reid.py` | track → visitor, gallery | `resolve` | one visitor per track; a re-entry has an exit | several tracks of one person, stale times |
| Billing queue | detector `billing.py` | tracks in the queue | `join`, `leave` | the published depth is the number of people in the queue | order of events within a frame, end of the clip |
| Detection pass | detector `main.py` | all of the above, `exited` | frame loop, emission, cameras in turn | as above, for the composition | order of events and cameras |
| Staff decision | detector `staff_decider.py`, `staff.py`, `vlm.py` | verdicts, failed set, cache file | `is_staff` | one call per visitor; a track keeps its flag | failing calls, crashes |
| Analytics | common `analytics.py`, `conversion.py` | none (functions of the tables) | funnel, metrics, heatmap, anomalies | the endpoints agree; staff never show; no visitor is taken back | events and sales in any order, late staff flags |
| POS sales | common `pos_loader.py`, api `pos_ingest.py` | table `transactions` | load at startup, group to baskets, upsert | a file counts once | restarts, replaced files, failed loads |
| Dashboard | frontend `usePolling.ts`, `client.ts`, `App.tsx` | store, polls in flight, snapshot | select, poll, show | own store only; one poll's snapshot; it settles | overlapping polls, answers out of order, aborts |
| Health, gauges | api `routers/health.py`, `metrics.py` | gauges | read | — | not modelled (section 6) |
| Detection and tracking | detector `detect.py`, `track.py`, `embedding.py` | models | `boxes_to_tracks`, frame times | — | what the models return is an input |
| Stream | common `stream.py` | — | — | — | used by nothing that runs today |
| Demographics | detector `main.py`, `staff_decider.py`, `scripts/enrich_events_schema.py` | sidecar file, shared by the stores; the labels in the JSONL file | harvest at the end of a pass; read, label, rewrite the file | no event is lost; labels are of the last run; groups are those who arrive together; no entry of another store is lost | a crash in a write, a script that reads its own output |

How they interact: the detector is one process that calls its parts in the frame
loop, one track after the other, and writes each event to the file and to the HTTP
sink. The API serves each request on a thread with a session of its own; what
relates them is the tables. The dashboard and the replayer are clients.

## 2. The modules

| module | models | abstract or detailed | composes |
|---|---|---|---|
| `EventStore` | what the ingest endpoint promises: each id is stored once, by one request, which is credited with it | abstract | |
| `Ingest` | `ingest_events` and `insert_events_dedup`, one action per statement that touches the database | implements `EventStore` | `EventStore` |
| `Delivery` | `run_once`, the sinks, the restarts and the idle worker, the start and stop of the API and of its database, the replayer | takes the API as the atomic store that `Ingest` implements | |
| `Association` | `MotionTrackAssociator` and the loop that feeds it | | |
| `GroupSplit` | `PoseGroupSplitter` before the associator | implements `Association` | `Association` |
| `ZonePresence` | the presence of one track in one zone (functions) | | |
| `ZoneTracker` | `ZoneTracker` over the frames of a clip | | `ZonePresence` |
| `LineSides` | the side of the line of one track (functions) | | |
| `Crossing` | `CrossingDetector` over samples | | `LineSides` |
| `Layout` | foot point, size gate, entrance line and walkable floor (functions) | | |
| `CameraPass` | the frame loop of one camera with its gates, on boxes and coordinates | implements `ZoneTracker` and `Crossing` | `ZoneTracker`, `Crossing`, `Layout` |
| `Detector` | `process_store` and `process_camera`: cameras, frames, emission; `VisitorRegistry`, `ReIDGallery`, `BillingTracker` | | `ZonePresence`, `LineSides` |
| `Staff` | `StaffDecider`, the VLM and its cache over passes; the harvest of demographics into the sidecar | | |
| `Enrich` | `enrich_events_schema.py` on the file of a pass, run after run | | |
| `Analytics` | what the read endpoints compute (functions) | | |
| `StoreFigures` | the tables as events arrive and sales files are loaded | | `Analytics` |
| `Dashboard` | `usePolling` and the fetcher | takes the tables as versions | |
| `IngestProofs`, `DeliveryProofs`, `DetectorProofs`, `DashboardProofs` | theorems | | the module they are of |
| `GroupSplitProofs` | theorems | | `GroupSplit`, `Association` |
| `CameraPassProofs` | theorems | | `CameraPass`, `ZoneTracker`, `Crossing` |
| `LabelProofs` | theorems | | `Staff`, `Enrich` |
| `FiguresProofs` | theorems | | `StoreFigures`, `Analytics` |

`MC*` modules give constants their values; a `.cfg` of the same name runs them.
`X_Y` (for instance `Commit_Merge`) is a plausible mistake in `X`; the property
that it breaks is named in `PROJECT.json`. No action uses it.

Correspondence. An action is one handler, or, where two threads or processes can
get in between, one atomic step of it.

* `Ingest`: `pc[r]` is the place in `insert_events_dedup`; `todo[r]` the indices of
  the payload still to be inserted; `rows` the table. `SelectExisting`, `InsertAll`
  (or `InsertAllConflict`, the `IntegrityError` and rollback), then per row `GetRow`
  and `AddRow`, then `Respond`; `Abort` is the exception handler for the database at
  any of them. A commit is atomic and fails exactly when one of its ids is there.
* `Delivery`: `pc` is the place in the pass. `Boot` opens (and truncates) the file;
  for each event `WriteJsonl`, then `WriteHttp`; `Flush`, `CameraEnd`; `PostOk` and
  `PostFailed` end an attempt. `FailedPost` is a request that timed out or failed:
  the API may have stored all or some of it, or may store it later (`LateArrival`). `api` is
  what a post depends on: the process is up, the database answers, the tables are there.
  `ApiStart` is `lifespan`, which creates the tables when the database answers and goes on when
  it does not; nothing creates them later. `Exit` leaves the sinks, at the end of a pass
  (then the process is `idle`) or by an exception; a signal ends it when idle (`Stop`) and is a
  `Crash` before.
* `Association`: `binding` is `_raw_to_local`, `lastTs` the last time of each local.
  Positions are left open: any lost local in the time window may be near.
* `GroupSplit`: `scene` is what the detector and the pose model see in a frame; `Slot` is the place
  in the list sorted by `foot_x`, `SplitTrack` the box or its sub-tracks `id * SUB_STRIDE + slot`.
  The gates may drop any of the tracks, the others wait in `todo`.
* `CameraPass`: `boxes` are the tracks of the frame and where they stand, in pixels, `todo` those still to be
  processed. `Drop` is a box that is too small or off the floor, `Look` one that is not: `observe` if
  it stands inside, and a sample for the crossing detector if the camera has a line. `EndFrame` is `sweep`,
  `ReadFrame` the next frame, `EndClip` the flush. A track is its own local id here.
* `ZoneTracker`: `End` is the exit part of `sweep` and of `flush`.
* `Crossing`: an action is one sample, with the side that `Layout` computes from the foot point; a sample
  on the line (side 0) leaves the state alone.
* `Detector`: the events that `observe`, `sweep` or `update` return go through `outbox` and
  are emitted, one after the other, before the next track is looked at. `Resolutions`
  is `VisitorRegistry.resolve`: the cached visitor, or a match of the gallery, or a new one.
* `Staff`: an event of a track asks for its flag by one of `Override` (decisive colour),
  `UseVerdict`, `FallBack`, `NoAnswer`, `Unreadable`, or `Ask` and `Keep`. An answer that does not parse
  (`Unreadable`) raises like a call that fails, but was paid for: it counts as `paid` and as `lost`. A call is one of
  `classify_staff`; the retries of the client are inside it. Between `Ask` and `Keep` the
  process can crash with the answer in its hands. `EndPass` begins the harvest, `Label` and
  `LabelFails` are `_demographics_verdict` for one visitor, `Merge` reads the sidecar and begins to
  write it, `Written` ends the write. The file is not replaced but written in place, so that a crash
  between the two leaves it `Torn`, which the next `Merge` takes as empty.
* `Enrich`: `pass` is what the detector wrote, `file` what is on disk, `out` what a run has in memory. `Read`
  parses file and sidecar and computes all labels (`Enriched`); `Truncate` opens the file for writing and `Complete`
  has written it, so that `Die` in between leaves a prefix. `SidecarSaved` and `Detect` are what a new
  pass does to the two files between runs.
* `StoreFigures`: every endpoint computes from the tables, so each figure is a function of
  the state. `Start` is `load_pos_into_db`; `StartWithoutSales` the case that no file is
  there or that the load fails and is rolled back.
* `Dashboard`: `Select` is a render with another store, `RunEffect` the cleanup and the
  effect that come after it (`pending` in between), `Tick` the interval, `Resolve` the
  `setState` of a poll all of whose requests have answered.

## 3. The runs

| run | question | properties | bounds | result |
|---|---|---|---|---|
| `ingest` | Do races and failures keep answers exact? | `IInv` (inductive, with the type invariant), `AnsweredIsStored`, `NeverDoubleCounted`, `FirstOfBatchWins`, `ImplementsEventStore`, `EveryRequestEnds` | three requests, two ids in two versions; payloads that overlap, repeat an id, are invalid, empty, too long | holds |
| `delivery` | What survives crashes, dropped batches, an API without tables, and replays? | `FileIsOnePass` (with the type invariant), `NothingLostSilently`, `PostedIsStored`, `ReplayRestores`, `PassEnds` | three events of two cameras, batches of two, two attempts, two crashes or fresh starts, one replay; the API and its database stop and start at will | holds |
| `delivery_vlm_rerun` | The same with VLM zone labels | `NeverDoubleCounts` | one crash | **violated** (finding 1) |
| `association` | Which tracks can share an id? | `LocalsFollowTracks` (with the type invariant), `OnlyRevivalsMerge`, `LiveNeverStolen`, `SplitSeatsEveryone` | two boxes, the wide one with two people, one of whom may stand in both, in eight scenes; four frames, a window of two to three frames | holds |
| `association_merge` | May two people of one frame share an id? | `CoexistingDistinct` | four tracks, six frames, the same window | **violated** (finding 2) |
| `entrance` | Does a camera report exactly the people who count? | `PresenceInv` (with the type invariant), `WellBracketed`, `ReportsAreTheVisits`, `CrossingsAreRuns`, `CrossingsAlternate`, `OnlyShoppersCount` | one track on each of the calibrated cameras of store ST1008 (entrance, checkout) at every kind of place the gates tell apart, two tracks on the checkout of ST1009, which has no mask; eight frames | holds |
| `detector` | Is the composition right? | `QueueIsInZone`, `QueueDepthIsCount`, `VisitsClose`, `OneVisitorPerTrack`, `ReentryNeedsExit` | an entrance, then a checkout with two tracks, four frames each, any match | holds |
| `detector_second_entry` | Does a visitor ever enter twice? | `NoSecondEntry` | perfect re-identification, eight frames | **violated** (finding 3) |
| `store_figures` | Do the endpoints agree, in any order of arrival? | `FiguresAgree`, `StaffLeaveNoTrace`, `TakingsCountOnce`, `OnlyStaffFlagsTakeBack`, `AlarmsHaveACause` | ten events of four people, of whom one is flagged late; two sales files, any number of restarts | holds |
| `dashboard` | What is on the screen? | `OwnStoreOnly`, `SnapshotOfOnePoll`, `SettlesOnTheTables` | two stores, one switch, two polls in flight of two requests each, two changes per store, one failure | holds |
| `staff` | What is paid for, does a flag change, and what does the sidecar lose? | `PaidOnce`, `TracksKeepTheirFlag`, `SidecarKeepsEntries` | three tracks of two visitors, all colours, two passes | holds |
| `enrich` | Does the script keep the events, and are labels and groups right? | `EventsSurvive`, `LabelsAreOfLastRun`, `GroupsArriveTogether` | three visitors of two stores who enter at any of six moments, with or without a second entry or a visit to the checkout; two sidecars; any number of runs that may die | holds |

Why the bounds are enough. `ingest`: a race needs two requests, and three show that the
fallback of one can meet the commits of two others; two ids are the least with which a batch
is partly lost, and the repeated id with another version tells which one won.
`delivery`: with three events and batches of two there is a full batch, a partial one at the
end of a camera, and one in flight; two crashes let a pass be cut short, rerun and cut short
again; the API may be away, or up without its tables, for any part of it. `association`: the window is open for two frames; a track that is lost, replaced and revived
takes three, and four leave one more for the number of a split box to appear or go. `association_merge`
has six frames and four tracks without boxes. `entrance`: eight frames hold two visits with a gap longer than the grace, or one
with a gap that is not, and several dwells due at once, and up to three confirmed crossings (two samples for the
first side and two for each flip) or any flicker between fewer; the places are on the line and on either side of it, on and off the floor, at the height of a
vertex from within and from either side without, on the lower edge, and boxes below the size gate.
`enrich`: the window is two, so that six moments hold groups that are linked through a third person,
arrivals exactly at the window and beyond it. `detector`: `ExitGrace` is 0 so that exits happen within four frames; the grace itself is the
subject of `entrance`. `store_figures`: 10 events give every set of arrived events,
which covers every order since each figure depends on the set only. `dashboard`: two polls in flight
are the least that can overtake each other. `staff`: two of the three tracks are of one visitor (and
interchangeable, hence the symmetry), the third is of another; one restart puts a crash at any step before a second
pass, among them the write of the sidecar.

Fairness. `Ingest`: weak fairness of each request's own thread, which is scheduled by the
server's thread pool; nothing is assumed of arrivals or failures. `Delivery`: weak fairness of
the detector process; the number of crashes is bounded, so `PassEnds` says: if the
process is not killed for ever, it ends up idle or stopped. Nothing is assumed of the API: it may stay
down, or serve without its tables.
`Dashboard`: the effect after a render (React), the interval (the browser's timer), and that a
request is answered in the end; failures and changes of the tables are bounded, so
`SettlesOnTheTables` says: once they stop. All other specifications are safety only.

`CHECK_DEADLOCK FALSE` stands where the system stops: after all requests (`Ingest.cfg`), at the
end of a clip or of its bounded frames (`CameraPass.cfg`, `Detector.cfg`, `Detector_entry.cfg`, `Association.cfg`,
`Association_merge.cfg`), and after the last pass (`Staff.cfg`). The other runs are checked for deadlock.

## 4. The proofs

All are proved by TLAPS for every value of the constants that satisfies the named
assumptions, without bounds on requests, tracks, events or files.

* **`IngestProofs`** (assumption: batches are sequences of events or `Invalid`). The properties
  are not inductive: that an answered request is stored needs to know, while it is running, where
  each id of the payload is. `IInv` is `TypeOK` with `TodoUnique` (what is still to be inserted
  is a first occurrence), `NoneLost` (a first occurrence is stored or still to be
  inserted), `OwnerStored` and `OwnerStarted` (who owns rows has committed), `Counted` (the
  count is the number of rows owned) and `FirstOfBatchWins`. One lemma per action shows that
  it is preserved (`IInvStep`); `CommitKeeps` is the common part of the two commits.
  From it: `TypeCorrect`, `AnsweredEventsAreStored`, `AcceptedIsExact`,
  `RowsComeFromTheirOwner`, `StoredRowsStay`. `IngestImplementsEventStore` maps `pc` to
  none, open, answered or failed, a commit to the abstract store step, and every other step to a
  stutter or to a change of status.
* **`DeliveryProofs`** (assumption `DeliveryAssumption`: positive sizes, the last event ends a camera). What the properties say
  of the end of a pass depends on every step of it, so `IInv` is an accounting: the events of the pass, in order,
  are those that are handled (`Handled` of them, each stored or dropped, `Accounted`), those of the batch, those of the
  buffer (`Pending`), and the one in hand; `posted` and the dropped ones add up to the handled ones. A step
  of the detector moves events from one part to the next, and everything else only adds to the store. With a counting lemma
  (`AccountedIsStored`) `posted` is at most what is stored. `ReplayInv` says that what the replayer has read is
  stored or left. From it: `FileHoldsOnePass`, `NothingIsLost`, `PostedCounts`, `ReplayRestoresAll`, for any
  number of events, batches, attempts, crashes and replays, and any behaviour of the API.
* **`GroupSplitProofs`**, first of the associator (`AssociationAssumption`: positive intervals). `WindowInv` (with the type
  invariant): a track that waits for its turn was not seen in this frame, and a local was seen no earlier than the tracks
  bound to it. `LocalsFollow` adds that some track of a local was seen when the local was (`LatestKnown`).
  `LiveLocalsAreNotStolen`: if the frame interval is at most the lower end of the stitch window, a new track cannot take a
  local that is on screen. `OnlyRevivedTracksMerge` adds `LapseInv`: of two tracks with one local one has been missed, or
  was missed and came back. Then of the splitter before it (`GroupSplitAssumption`: box ids are below `SUB_STRIDE` and
  distinct in a frame, and so few people; the code's own comment says so). `EveryoneIsSeated`: the slots of a box are
  0, 1, … without gaps, by counting those to the left of each person, and no two tracks of a frame have one id.
  `SplitImplementsAssociation` is a refinement, so that what is proved of the associator holds behind the splitter
  (`LocalsFollowSubTracks`, `SubTracksStealNothing`, `OnlyRevivedSubTracksMerge`).
* **`CameraPassProofs`**. Of the zone tracker (positive frame and dwell interval, other thresholds not negative):
  `PresenceIsKnown`, what `_state` knows of a track is what its reports say; `Known` adds the order of first and last sighting.
  `ReportsAreBracketed`: `BracketInv` adds `InTimeInv`, that no report is later than the frame, because an exit is
  dated at the last sighting and must not come before a dwell reported already. Of the crossing detector (one sample or more
  to confirm, a side that is +1 or -1): `EntriesAndExitsAlternate` with `AlternateInv`, the committed side is the one the
  last crossing led to. `FlipsAreReportedOnce` relates the state to the samples themselves: `RunsInv` says for each track that the
  committed side is that of the last run of samples long enough to persist, the candidate and its count are the
  run that is still open (`SidesAreOf`), and the log holds the flips among the runs so far (`LogIsOf`). A sample either
  ends a run or does not, and changes nothing about the earlier ones (`SampleEndsRun`, `SampleKeepsSides`), so no induction over
  the samples is needed but the one over the steps. `ReportsAreVisits` (a visit has to last at all to be entered: with a threshold of 0 the
  second box of a track in its first frame would enter it) relates the whole log to visits that are defined from the sightings: `VisitInv`, a
  track that the tracker knows is in the last visit of its sightings and has been missed at no swept frame for longer than the
  grace, any other was; and the log has the reports of each visit, but for the exit of the one still open (`AreReportsOf`). A sighting
  that starts a visit leaves the others as they are (`NextVisit`), one that starts none lengthens the last (`LongerVisit`), and what it reports is what it
  adds: the intervals that ended earlier keep the sighting at which they did (`SightingLengthens`). The frame loop refines `ZoneTracker` and `Crossing` under any layout and
  any boxes (`CameraIsAZoneTracker`, `CameraIsACrossingDetector`), so these hold of a camera (`CameraKnowsPresence`,
  `CameraReportsAreBracketed`, `CameraReportsAreVisits`, `CameraCrossingsAlternate`, `CameraFlipsAreReportedOnce`).
  `OnlyThoseOnTheFloorCount` is about the gates: `GatesInv`, in each frame a track has been seen and sampled as the gates say of its
  box once that was processed, and not before, and no record is of a later frame. It assumes that the size gate is on, and of the
  geometry only `FloorsAreClear`, that the ray cast keeps who is strictly within a floor and drops who is strictly
  outside, where the tracks may be seen; TLC evaluates this on the places of the `entrance` run and on
  every tenth pixel of the masked checkout (`MCCameraPass`).
* **`DetectorProofs`** (assumptions: at least one camera, a person for each track, positive frame interval). Every event goes
  through the outbox, so each invariant speaks of what is in there too. `QueueInv`: a track that is about to be reported as entered
  is in the zone, and only the checkout has a queue; from it `TheQueueStandsInTheZone`. `BalanceInv`: the zone
  entries of a track, in the log and in the outbox, are its exits and its open visit; from it `VisitsAreClosed`. `DepthInv`: the queue
  is the tracks that the log shows as joined and not left, and the one whose join is next; from it `DepthsAreCounts`.
  `IdentityInv`: an event was written under the visitor that the registry still has for its track (`TracksKeepTheirVisitor`);
  `ReentryInv`: whoever is in `exited` has an exit in the log and no re-entry since (`ReentriesFollowExits`).
* **`LabelProofs`**. Of the staff decision (`StaffAssumption`: the markers for no answer, for an unreadable file and for the
  other stores' entries are not values): `StaffInv` follows each call, which leaves a trace (it failed, has a verdict, or is under way)
  that keeps the pass from asking again, and each answer paid for, which is on disk, under way or lost,
  because it could not be read or with a crash (`VerdictsArePaidOnce`). `FlagInv` says which flag a track has to carry once it is decided
  (`FlagsDoNotChange`), `SidecarInv` what a write in progress has in hand (`OtherEntriesAreKept`). Of the script that labels the
  events (`EnrichAssumption`: a pass writes events with every field and no labels yet): `ScriptInv`, the file and
  what a run has in memory are the pass but for the labels, and these are computed from the last sidecar;
  from it `EventsAreKept` and `LabelsAreMadeAnew`. For `GroupsAreArrivals` the arrivals of a store are cut into clusters, each
  from one start to the next; a cluster is closed under steps within the window and linked by them, so
  it is the set of those linked to any of its members, and clusters of different starts get different numbers.
* **`DashboardProofs`** (assumption: an empty screen is not a snapshot). `PollsInv`: a poll is about one store and each answer is of a
  moment since it began, which stays true as the tables grow; `OwnInv`: once the effect has run, every poll in
  flight is of the selected store, which is what makes a late answer harmless. From them `OnlyTheSelectedStore` and `OnePollAtATime`.
* **`FiguresProofs`** (settings, times and queue depths are not negative). `StaffNeverShow`: the events without those of the
  staff have the same customers, so every figure is the same. `StagesAreKept`: `TableInv` (a basket keeps its time, because
  the time is part of its id) makes a sale stay at its time through every reload, and each stage of the
  funnel is monotone in events and sales as long as customers stay customers.
  `EndpointsAgree`: two requests on one state count the same people in each stage. `FiguresFitTogether` adds
  the arithmetic: shares of a whole, rounded half to even, lie between 0 and the whole. `AlarmsAreCaused` is an action property: rounding is
  monotone (`RoundedGrows`), the deepest queue changes only with a joiner (`OnlyJoinsDeepen`), the conversion
  rate does not fall while no visitor and no staff flag is new (`RateGrows`), and a zone falls silent only as others move on.
  `EachSaleCountsOnce`: `LoadedInv`, with one file loaded the baskets are those of that file, each with the sum of its own line
  items, and the sum over the baskets is that over the items. What a fold over a finite set adds up to does not depend on
  the order, and a sum by groups is the sum; no induction theorem can be used for that, so each proof takes a smallest set for which it fails
  (`SmallestSet`). A sales file is a finite sequence of line items with whole amounts (`FilesAssumption`).

What stays with TLC, and why:

* liveness (`EveryRequestEnds`, `PassEnds`, `SettlesOnTheTables`): the provers do not do fairness and `ENABLED`;
* the geometry under `OnlyShoppersCount` (`FloorsAreClear`). It does not hold of every polygon (a ray
  cast counts a point in the notch of a star as outside), so a proof needs convexity and an induction over the edges;
* the three runs that expect a violation, which are counterexamples.

## 5. Findings

1. **A restart can count twice when the VLM labels zones** (`delivery_vlm_rerun`). When the VLM
   call fails `resolve_zones` uses the static zone and caches nothing, when it succeeds it uses
   and caches another label; the zone is part of the event id. A pass restarted after
   a failed call stores the visits of that camera under new ids. `common/sinks.py:112`: "a
   re-run/restart never double-counts".
2. **Two people of one frame can share an id** (`association_merge`). A bound track only advances its
   local, also when another track was stitched to that local while it was missed.
   `detector/association.py:66`: "two people coexisting on screen can never be merged into one id".
3. **A visitor can enter twice** (`detector_second_entry`). A cached track never counts as a re-entry, and
   `emit` writes ENTRY after REENTRY. `docs/wiki/BUSINESS_RULES.md:64`: "never a second ENTRY".

Met while modelling, sequential or outside the models' reach, and so without a run:

* api `metrics.py:46` calls `fetch_transactions` without the store id; the `TypeError` is
  swallowed by the handler around it, so no gauge is ever set.
* The comment at `usePolling.ts:10-12` says that an interval aborts the request in flight; it does
  not. An older answer may replace a newer one for a while; `SettlesOnTheTables` shows that this
  does not last.
* Between the render of another store and its effect the old numbers stand under the new
  header; `OwnStoreOnly` holds from the effect on.
* `repository.py:157` selects a store's baskets with `LIKE '<store>_%'`, in which `_` is any character:
  a store whose id is one character longer would match. The two stores configured do not.
* A sales file that is corrected leaves the baskets that the correction took out.
* The cameras of a store are processed in turn over one span of time, so a re-entry may be dated
  before its exit (detector `main.py:205`); `ReentryNeedsExit` is about the order of processing.
* The absence that makes a re-entry is counted from the last time a track of the visitor was first resolved (detector `reid.py:105`), and
  not from the last sighting, since a cached track does not reach the gallery: who leaves and is matched again at once can count as
  re-entered, although `common/config.py:106` says "absence before a re-matched visitor counts as REENTRY". `Detector` has this
  time (`gallery`), and no property is about the gap.
* When the database is away while the API starts, no table is created until the API is started again.
  api `main.py:41` logs that "readiness will report not-ready", but `/readyz` only pings the
  database and reports ready once it is back, while every ingest request fails. `CanStore` has the tables as a condition of its own.
* The lower edge of CAM5's floor is the lower edge of the picture, and the ray casting leaves that edge out: a box that is
  cut off by the picture is dropped as off the floor. `OnlyShoppersCount` leaves the edges themselves open.
* The sub-tracks of a split box share the bottom of the box, although the pose model knows each person's feet; a person in two
  overlapping wide boxes becomes two tracks; and a box that is split in one frame and whole in the next takes
  another local id each time. None of this contradicts a promise of the code.
* A visitor who enters twice belongs to the group of the last entry, but the group of the first one keeps the size with
  that visitor in it (`scripts/enrich_events_schema.py`); `GroupsArriveTogether` is about passes without second entries.
* A capture without a frame rate gives every frame the time 0 (detector `frames.py:82`), so that no gap or dwell ever elapses.
* On a clip whose rate is below two thirds of the sample rate the real frame interval exceeds the minimum
  gap derived from the nominal one (`association.py:125-142`), unless `stitch_min_gap_ms` is larger; the theorem's condition is
  what is then missing. At a higher rate the rounded stride keeps the interval within 4/3 of the nominal one.
* A `zone_dwell_interval_ms` of 0 is accepted (`common/config.py:91`) and makes the catch-up loop endless.

## 6. What is not modelled

Pixels, keypoints, embeddings, colour scores and VLM replies are inputs. Boxes have coordinates in `CameraPass` and
`GroupSplit`, where gates and splitter read them; `Detector` takes what is left of them, seen or not, inside or outside. Positions in
association and distances in re-identification are left open: any candidate may match, so what
holds here holds for every geometry, but no property says that the match is the right one. Times are small
integers in place of milliseconds. `is_staff` and the confidence of the events in `Detector` are left out; `Staff` models
how the flag is decided for given tracks, with the visitor of a track the same person in every pass.

* The health view (`routers/health.py`) and the metadata of `/stores` read the latest time of an event and compare it with the clock; they
  change nothing, and all there is to say of them is what the comparison says. The gauges are never set
  (section 5).
* The labels of the POS summary (brand, department, peak hour) and the view of the demographics are sums over rows.
* The Kafka producer in `stream.py` is used by nothing that runs; `GracefulRunner` runs as part of `Delivery`.
* The detection and embedding networks, the video reader, and what the pose model sees.
* The scripts that calibrate cameras or draw a demonstration read a clip and print; they share no state with the system.
* Deployment: its restart policies are the crashes and restarts of `Delivery`, `Staff` and `StoreFigures`.

## 7. The plan

Order of the work, the most important first; what is done is marked.

1. (done) Ingest with its abstract store, races and failures; proofs of all its safety.
2. (done) Delivery: crash, restart, retry, replay, the start and stop of the API; proofs of all its safety.
3. (done) Detector parts, one by one, then composed: association, zones, crossing, identity, queue; the group split and the gates
   before them, and the frame loop of a camera as a refinement; proofs about tracker, crossing, camera, splitter and associator.
4. (done) Analytics, sales, dashboard, staff, the script that labels the events.
5. (done) Proofs about the detector: queue, visits, identity, re-entries.
6. (done) Proofs about the dashboard, the staff decision, the enrichment script and the figures and alarms.
7. `CameraPass` with `GroupSplit` and `Association` in front of it, in place of "a track is its own local id".
8. Ingest and delivery composed, so that the atomic store that `Delivery` assumes is replaced by
   the abstract `EventStore` which `Ingest` is proved to implement.
