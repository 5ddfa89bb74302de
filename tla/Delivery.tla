------------------------------- MODULE Delivery -------------------------------
(***************************************************************************)
(* How the events of a detection pass reach the database: run_once         *)
(* (detector/app/main.py) writes each event to a FanOutSink of a           *)
(* JsonlEventSink and an HttpEventSink (common/sinks.py); the second       *)
(* buffers, posts in batches, retries and finally drops a batch.  The      *)
(* container restarts the process after a crash ("restart: unless-         *)
(* stopped"), and the new pass truncates the file.  After a pass the       *)
(* process idles (GracefulRunner, common/worker.py) until it is stopped.   *)
(* The replayer (scripts/ingest_events.py) posts the file once more.       *)
(*                                                                         *)
(* The API is the atomic store that Ingest.tla implements: a post that     *)
(* succeeds has stored its batch, one that fails has stored any part.  It  *)
(* creates the tables when it starts (lifespan, shelfsense_api/main.py),   *)
(* and serves without them when the database was away then.                *)
(***************************************************************************)
EXTENDS Integers, FiniteSets, Sequences, SequencesExt

CONSTANTS
  N,            \* the number of events of a pass
  CameraEnds,   \* the events after which a camera ends, and the sink is flushed
  BatchSize,    \* ingest_batch_size, of the sink and of the replayer
  MaxRetries,   \* ingest_max_retries
  VlmEnabled,   \* zones of product cameras are labelled by a VLM
  MaxCrashes,   \* bound: crashes, failed passes and fresh starts of the detector
  MaxReplays    \* bound: starts of the replayer

ASSUME DeliveryAssumption ==
  /\ {N, BatchSize, MaxRetries} \subseteq Nat \ {0}
  /\ CameraEnds \subseteq 1..N /\ N \in CameraEnds
  /\ VlmEnabled \in BOOLEAN
  /\ {MaxCrashes, MaxReplays} \subseteq Nat

VARIABLES
  pc,           \* what the detector does next
  next,         \* the next event of the pass
  label,        \* the zone label that this pass uses
  zoneCache,    \* the VLM verdict kept on disk, or "none"
  jsonl,        \* behavior.jsonl
  buffer,       \* HttpEventSink._buffer
  batch,        \* the batch being posted
  attempt,      \* the attempt of _post_with_retry
  after,        \* where the detector goes on after the post
  posted,       \* HttpEventSink.posted
  dropped,      \* the events of batches dropped in this pass
  api,          \* the service: process up, database reachable, tables there
  db,           \* the ids stored in behavior_events
  late,         \* posts that timed out but may still reach the API
  crashes,      \* crashes so far
  replay        \* the replayer: its state, what it has read and still has to post

poster      == <<buffer, batch, attempt, after, posted, dropped>>
environment == <<api, late, crashes>>
vars == <<pc, next, label, zoneCache, jsonl, poster, environment, db, replay>>

\* event_id is a hash of the event, its zone_id included, and so tells two
\* labels of one visit apart (deterministic_event_id).
Ids == [visit : 1..N, zone : {"static", "vlm"}]
Event(i) == [visit |-> i, zone |-> label]

Init ==
  /\ pc = "down" /\ next = 1 /\ label = "static" /\ zoneCache = "none"
  /\ jsonl = <<>> /\ buffer = <<>> /\ batch = <<>>
  /\ attempt = 1 /\ after = "emit"
  /\ posted = 0 /\ dropped = {}
  /\ api = [up |-> FALSE, reachable |-> FALSE, tables |-> FALSE] /\ db = {} /\ late = {} /\ crashes = 0
  /\ replay = [state |-> "off", read |-> {}, left |-> <<>>, starts |-> 0]

\* /events/ingest can store: without the process, the database or the tables a
\* post fails.
CanStore == api.up /\ api.reachable /\ api.tables

-------------------------------------------------------------------------------
(* The detector *)

\* Mutant: the file is opened for appending.
Boot_Append ==
  /\ pc = "down"
  /\ pc' = "ready" /\ next' = 1
  /\ buffer' = <<>> /\ batch' = <<>> /\ posted' = 0 /\ dropped' = {}
  /\ UNCHANGED <<jsonl, label, attempt, after, zoneCache, environment, db, replay>>

\* A new process enters the sinks: the file is truncated first.
Boot ==
  /\ pc = "down"
  /\ pc' = "ready" /\ next' = 1
  /\ jsonl' = <<>> /\ buffer' = <<>> /\ batch' = <<>> /\ posted' = 0 /\ dropped' = {}
  /\ UNCHANGED <<label, attempt, after, zoneCache, environment, db, replay>>

\* The zone that a reply stands for: a label outside the candidates, or an unsure
\* one, is as good as the static zone.
Reply == {"static", "vlm"}

\* A cached verdict is used, a new one is cached, and a failed call leaves the
\* static label and caches nothing.
ResolveZones ==
  \/ /\ ~VlmEnabled
     /\ label' = "static"
     /\ UNCHANGED zoneCache
  \/ /\ VlmEnabled /\ zoneCache # "none"
     /\ label' = zoneCache
     /\ UNCHANGED zoneCache
  \/ /\ VlmEnabled /\ zoneCache = "none"
     /\ label' \in Reply
     /\ \/ zoneCache' = label'
        \/ label' = "static" /\ UNCHANGED zoneCache

\* The HTTP sink has waited until the API is ready or wait_s has passed, and
\* proceeds either way.
StartPass ==
  /\ pc = "ready"
  /\ pc' = "emit"
  /\ ResolveZones
  /\ UNCHANGED <<next, jsonl, poster, environment, db, replay>>

\* FanOutSink.write: the JSONL sink first, flushed to disk ...
WriteJsonl ==
  /\ pc = "emit" /\ next <= N
  /\ jsonl' = Append(jsonl, Event(next))
  /\ pc' = "buffer"
  /\ UNCHANGED <<next, label, zoneCache, poster, environment, db, replay>>

\* HttpEventSink.flush of what is buffered, after which the detector is at resume.
Flush(buffered, resume) ==
  \/ /\ buffered = <<>>
     /\ pc' = resume
     /\ UNCHANGED <<buffer, batch, attempt, after>>
  \/ /\ buffered # <<>>
     /\ pc' = "post"
     /\ batch' = buffered /\ buffer' = <<>>
     /\ attempt' = 1 /\ after' = resume

\* ... then the HTTP sink, which blocks the detector while it posts.
WriteHttp ==
  LET buffered == Append(buffer, Event(next))
      resume   == IF next \in CameraEnds THEN "cameraEnd" ELSE "emit"
  IN
  /\ pc = "buffer"
  /\ next' = next + 1
  /\ IF Len(buffered) >= BatchSize
     THEN Flush(buffered, resume)
     ELSE buffer' = buffered /\ pc' = resume /\ UNCHANGED <<batch, attempt, after>>
  /\ UNCHANGED <<label, zoneCache, jsonl, posted, dropped, environment, db, replay>>

CameraEnd ==
  /\ pc = "cameraEnd"
  /\ Flush(buffer, "emit")
  /\ UNCHANGED <<next, label, zoneCache, jsonl, posted, dropped, environment, db, replay>>

\* The sinks are left, after the last camera or by an exception, and flush what
\* is buffered.  main goes idle after a pass and dies of an exception.
Exit ==
  /\ pc = "emit"
  /\ \/ next > N /\ Flush(buffer, "idle") /\ UNCHANGED crashes
     \/ /\ next <= N /\ crashes < MaxCrashes /\ Flush(buffer, "down")
        /\ crashes' = crashes + 1
  /\ UNCHANGED <<next, label, zoneCache, jsonl, posted, dropped, api, late, db, replay>>

-------------------------------------------------------------------------------
(* _post_with_retry *)

PostOk ==
  /\ pc = "post" /\ CanStore
  /\ db' = db \cup ToSet(batch)
  /\ posted' = posted + Len(batch)
  /\ batch' = <<>>
  /\ pc' = after
  /\ UNCHANGED <<next, label, zoneCache, jsonl, buffer, attempt, after, dropped,
                 environment, replay>>

\* A failed post has stored nothing, a part (a 503 between two commits) or all
\* of its events (the response is lost), or is still under way when the client
\* gives up waiting.
FailedPost(events) ==
  \/ UNCHANGED <<db, late>>
  \/ CanStore /\ db' \in {db \cup stored : stored \in SUBSET events} /\ UNCHANGED late
  \/ late' = late \cup {events} /\ UNCHANGED db

\* Mutant: no bound on the attempts.
PostFailed_Forever ==
  /\ pc = "post"
  /\ FailedPost(ToSet(batch))
  /\ attempt' = IF attempt >= MaxRetries THEN attempt ELSE attempt + 1
  /\ UNCHANGED <<pc, next, label, zoneCache, jsonl, buffer, batch, after, posted,
                 dropped, api, crashes, replay>>

\* Mutant: the events are counted as posted when they are handed to the transport.
PostFailed_CountFirst ==
  /\ pc = "post"
  /\ FailedPost(ToSet(batch))
  /\ posted' = posted + Len(batch)
  /\ \/ /\ attempt < MaxRetries
        /\ attempt' = attempt + 1
        /\ UNCHANGED <<pc, batch, dropped>>
     \/ /\ attempt >= MaxRetries
        /\ dropped' = dropped \cup ToSet(batch)
        /\ batch' = <<>> /\ pc' = after
        /\ UNCHANGED attempt
  /\ UNCHANGED <<next, label, zoneCache, jsonl, buffer, after, api, crashes, replay>>

\* Mutant: the sink returns before it has warned of the events it gives up.
PostFailed_NoWarning ==
  /\ pc = "post"
  /\ FailedPost(ToSet(batch))
  /\ \/ /\ attempt < MaxRetries
        /\ attempt' = attempt + 1
        /\ UNCHANGED <<pc, batch>>
     \/ /\ attempt >= MaxRetries
        /\ batch' = <<>> /\ pc' = after
        /\ UNCHANGED attempt
  /\ UNCHANGED <<next, label, zoneCache, jsonl, buffer, after, posted, dropped,
                 api, crashes, replay>>

\* The last failed attempt drops the batch with a warning.
PostFailed ==
  /\ pc = "post"
  /\ FailedPost(ToSet(batch))
  /\ \/ /\ attempt < MaxRetries
        /\ attempt' = attempt + 1
        /\ UNCHANGED <<pc, batch, dropped>>
     \/ /\ attempt >= MaxRetries
        /\ dropped' = dropped \cup ToSet(batch)
        /\ batch' = <<>> /\ pc' = after
        /\ UNCHANGED attempt
  /\ UNCHANGED <<next, label, zoneCache, jsonl, buffer, after, posted, api,
                 crashes, replay>>

-------------------------------------------------------------------------------
(* The surroundings *)

\* The process is killed: what it had in memory is gone, the files stay, and
\* a post under way may still arrive.
Crash ==
  /\ pc \notin {"down", "stopped"} /\ crashes < MaxCrashes
  /\ pc' = "down" /\ crashes' = crashes + 1
  /\ buffer' = <<>> /\ batch' = <<>>
  /\ \/ UNCHANGED late
     \/ pc = "post" /\ late' = late \cup {ToSet(batch)}
  /\ UNCHANGED <<next, label, zoneCache, jsonl, attempt, after, posted, dropped,
                 api, db, replay>>

\* lifespan: create_all when the database answers; a failure is logged, and
\* the API serves all the same.
ApiStart ==
  /\ ~api.up
  /\ api' = [api EXCEPT !.up = TRUE, !.tables = @ \/ api.reachable]
  /\ UNCHANGED <<pc, next, label, zoneCache, jsonl, poster, late, crashes, db, replay>>

ApiStop ==
  /\ api.up
  /\ api' = [api EXCEPT !.up = FALSE]
  /\ UNCHANGED <<pc, next, label, zoneCache, jsonl, poster, late, crashes, db, replay>>

DbToggles ==
  /\ api' = [api EXCEPT !.reachable = ~@]
  /\ UNCHANGED <<pc, next, label, zoneCache, jsonl, poster, late, crashes, db, replay>>

\* A signal ends the idle process, which exits in good order; before, during the
\* pass, no handler is installed, and a stop is a Crash.
Stop ==
  /\ pc = "idle"
  /\ pc' = "stopped"
  /\ UNCHANGED <<next, label, zoneCache, jsonl, poster, environment, db, replay>>

\* The stopped container is started again.
Restart ==
  /\ pc = "stopped" /\ crashes < MaxCrashes
  /\ pc' = "down" /\ crashes' = crashes + 1
  /\ UNCHANGED <<next, label, zoneCache, jsonl, poster, api, late, db, replay>>

LateArrival ==
  /\ \E events \in late :
       /\ late' = late \ {events}
       /\ \/ CanStore /\ db' = db \cup events
          \/ UNCHANGED db
  /\ UNCHANGED <<pc, next, label, zoneCache, jsonl, poster, api, crashes, replay>>

\* The replayer reads the whole file, then posts it in batches; it does not
\* retry, and an error ends it.
ReplayStart ==
  /\ replay.state # "post" /\ replay.starts < MaxReplays
  /\ replay' = [state |-> "post", read |-> ToSet(jsonl), left |-> jsonl,
                starts |-> replay.starts + 1]
  /\ UNCHANGED <<pc, next, label, zoneCache, jsonl, poster, environment, db>>

\* Mutant: an error skips the batch instead of ending the replay.
ReplayPost_Skip ==
  LET size   == IF Len(replay.left) < BatchSize THEN Len(replay.left) ELSE BatchSize
      events == ToSet(SubSeq(replay.left, 1, size))
  IN
  /\ replay.state = "post" /\ replay.left # <<>>
  /\ replay' = [replay EXCEPT !.left = SubSeq(@, size + 1, Len(@))]
  /\ \/ CanStore /\ db' = db \cup events /\ UNCHANGED late
     \/ FailedPost(events)
  /\ UNCHANGED <<pc, next, label, zoneCache, jsonl, poster, api, crashes>>

ReplayPost ==
  LET size   == IF Len(replay.left) < BatchSize THEN Len(replay.left) ELSE BatchSize
      events == ToSet(SubSeq(replay.left, 1, size))
  IN
  /\ replay.state = "post" /\ replay.left # <<>>
  /\ \/ /\ CanStore /\ db' = db \cup events
        /\ replay' = [replay EXCEPT !.left = SubSeq(@, size + 1, Len(@))]
        /\ UNCHANGED late
     \/ /\ FailedPost(events)
        /\ replay' = [replay EXCEPT !.state = "failed"]
  /\ UNCHANGED <<pc, next, label, zoneCache, jsonl, poster, api, crashes>>

ReplayDone ==
  /\ replay.state = "post" /\ replay.left = <<>>
  /\ replay' = [replay EXCEPT !.state = "done"]
  /\ UNCHANGED <<pc, next, label, zoneCache, jsonl, poster, environment, db>>

Detector ==
  \/ Boot
  \/ StartPass
  \/ WriteJsonl
  \/ WriteHttp
  \/ CameraEnd
  \/ Exit
  \/ PostOk
  \/ PostFailed

Replayer == ReplayStart \/ ReplayPost \/ ReplayDone

Service == ApiStart \/ ApiStop \/ DbToggles

Next == Detector \/ Stop \/ Restart \/ Crash \/ Service \/ LateArrival \/ Replayer

\* The process runs and is restarted; nothing is assumed of the API.
Spec == Init /\ [][Next]_vars /\ WF_vars(Detector)

-------------------------------------------------------------------------------
(* Properties *)

TypeOK ==
  /\ pc \in {"down", "ready", "emit", "buffer", "cameraEnd", "post", "idle", "stopped"}
  /\ next \in 1..(N + 1)
  /\ label \in {"static", "vlm"} /\ zoneCache \in {"none", "static", "vlm"}
  /\ jsonl \in Seq(Ids) /\ buffer \in Seq(Ids) /\ batch \in Seq(Ids)
  /\ Len(buffer) < BatchSize /\ Len(batch) <= BatchSize
  /\ attempt \in 1..MaxRetries /\ after \in {"emit", "cameraEnd", "idle", "down"}
  /\ posted \in 0..N /\ dropped \subseteq Ids
  /\ api \in [up : BOOLEAN, reachable : BOOLEAN, tables : BOOLEAN] /\ db \subseteq Ids /\ late \subseteq SUBSET Ids
  /\ crashes \in 0..MaxCrashes
  /\ replay.state \in {"off", "post", "done", "failed"}
  /\ replay.read \subseteq Ids /\ replay.left \in Seq(Ids)

\* The file holds the events of one pass, each once and in order, whatever
\* passes were cut short before ("a re-run re-exports rather than
\* accumulating", JsonlEventSink).
FileIsOnePass ==
  /\ TypeOK
  /\ pc \notin {"down", "ready"} =>
      jsonl = [i \in 1..(IF pc = "buffer" THEN next ELSE next - 1) |-> Event(i)]

\* While the process lives, an event in the file is stored, on its way, or in
\* a batch that was dropped with a warning: nothing is lost silently.  And what
\* is on its way or dropped is in the file, so that a replay can make up for it
\* ("the JSONL sink still keeps it for replay", HttpEventSink).
OnTheWay == ToSet(buffer) \cup ToSet(batch)
                \cup (IF pc = "buffer" THEN {Event(next)} ELSE {})

NothingLostSilently ==
  pc # "down" => /\ ToSet(jsonl) \subseteq db \cup OnTheWay \cup dropped
                 /\ OnTheWay \cup dropped \subseteq ToSet(jsonl)

\* posted_to_api of the log line of a complete pass: what is not counted was
\* dropped with a warning, and what is counted is stored.
PostedIsStored ==
  /\ posted <= Cardinality(db)
  /\ pc \in {"idle", "stopped"} => posted + Cardinality(dropped) = N

\* A replay that reports its totals has stored every event that it read.
ReplayRestores == replay.state = "done" => replay.read \subseteq db

\* A pass ends, however the API behaves, when the process is not killed again:
\* "the detector never crashes because the API is slow/down".
PassEnds == <>[](pc \in {"idle", "stopped"})

\* "a re-run/restart never double-counts" (HttpEventSink): no visit is stored
\* under two ids.
NeverDoubleCounts ==
  \A e, f \in db : e.visit = f.visit => e = f

===============================================================================
