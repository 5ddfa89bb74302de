---------------------------- MODULE DeliveryProofs ----------------------------
(***************************************************************************)
(* Proofs about delivery, for any number of events, cameras, batches,      *)
(* attempts, crashes and replays: an accounting of every event of a pass.  *)
(***************************************************************************)
EXTENDS Delivery, FiniteSetTheorems, FunctionTheorems, SequenceTheorems, TLAPS

\* The first events of the pass are handled: stored or dropped.  Then come those
\* of the batch, then those of the buffer, then the next one.
Handled == next - 1 - Len(buffer) - Len(batch)

Accounted(h) ==
  /\ h \in Nat
  /\ \A e \in dropped : \E i \in 1..h : e = Event(i)
  /\ \A i \in 1..h : Event(i) \in db \cup dropped
  /\ posted + Cardinality(dropped) = h

Pending(s, h) == \A i \in 1..Len(s) : s[i] = Event(h + i)

\* Where the events are that the living process has made so far.
Live ==
  /\ Accounted(Handled)
  /\ Pending(batch, Handled) /\ Pending(buffer, Handled + Len(batch))
  /\ jsonl = [i \in 1..(IF pc = "buffer" THEN next ELSE next - 1) |-> Event(i)]
  /\ pc = "ready" => next = 1
  /\ pc = "buffer" => next <= N
  /\ pc # "post" => batch = <<>>
  /\ pc = "post" => buffer = <<>> /\ (after = "idle" => next = N + 1)
  /\ pc \in {"idle", "stopped"} => next = N + 1 /\ buffer = <<>>

\* The type invariant without the replayer and without the bound of posted, which
\* the accounting gives.
DeliveryTypes ==
  /\ pc \in {"down", "ready", "emit", "buffer", "cameraEnd", "post", "idle", "stopped"}
  /\ next \in 1..(N + 1)
  /\ label \in {"static", "vlm"} /\ zoneCache \in {"none", "static", "vlm"}
  /\ jsonl \in Seq(Ids) /\ buffer \in Seq(Ids) /\ batch \in Seq(Ids)
  /\ Len(buffer) < BatchSize /\ Len(batch) <= BatchSize
  /\ attempt \in 1..MaxRetries /\ after \in {"emit", "cameraEnd", "idle", "down"}
  /\ dropped \subseteq Ids
  /\ api \in [up : BOOLEAN, reachable : BOOLEAN, tables : BOOLEAN]
  /\ db \subseteq Ids /\ late \subseteq SUBSET Ids
  /\ crashes \in 0..MaxCrashes

PassTypes == DeliveryTypes /\ posted \in 0..N

PassInv == PassTypes /\ posted <= Cardinality(db) /\ (pc # "down" => Live)

\* What the replayer has read is stored or still to be posted.
ReplayInv ==
  /\ replay \in [state : {"off", "post", "done", "failed"}, read : SUBSET Ids,
                 left : Seq(Ids), starts : Nat]
  /\ replay.state = "post" => replay.read \subseteq db \cup ToSet(replay.left)
  /\ replay.state = "done" => replay.read \subseteq db

IInv == PassInv /\ ReplayInv

-------------------------------------------------------------------------------

\* There are finitely many ids.
LEMMA FewIds == IsFiniteSet(Ids)
<1> DEFINE pairs == (1..N) \X {"static", "vlm"}
           id == [p \in pairs |-> [visit |-> p[1], zone |-> p[2]]]
<1>1. IsFiniteSet(1..N)
  BY FS_Interval, DeliveryAssumption
<1>2. IsFiniteSet({"static", "vlm"})
  <2>1. {"static", "vlm"} = {"static"} \cup {"vlm"}
    OBVIOUS
  <2>2. IsFiniteSet({"static"})
    BY FS_Singleton
  <2> QED
    BY <2>1, <2>2, FS_AddElement
<1>3. IsFiniteSet(pairs)
  BY <1>1, <1>2, FS_Product
<1>4. id \in Surjection(pairs, Ids)
  <2>1. \A p \in pairs : id[p] \in Ids
    BY DEF Ids
  <2>2. \A e \in Ids : \E p \in pairs : id[p] = e
    <3> SUFFICES ASSUME NEW e \in Ids PROVE \E p \in pairs : id[p] = e
      OBVIOUS
    <3>1. <<e.visit, e.zone>> \in pairs /\ id[<<e.visit, e.zone>>] = e
      BY DEF Ids
    <3> QED
      BY <3>1
  <2> QED
    BY <2>1, <2>2 DEF Surjection
<1> QED
  BY <1>3, <1>4, FS_Surjection

\* What is stored stays, so its number does not fall.
LEMMA StoreGrows ==
  ASSUME NEW S \in SUBSET Ids, NEW T \in SUBSET Ids, S \subseteq T
  PROVE  /\ IsFiniteSet(S) /\ Cardinality(S) \in Nat /\ Cardinality(T) \in Nat
         /\ Cardinality(S) <= Cardinality(T)
<1>1. IsFiniteSet(S) /\ IsFiniteSet(T)
  BY FewIds, FS_Subset
<1> QED
  BY <1>1, FS_Subset, FS_CardinalityType

\* The ids of the first events of a pass, with the label z: that many.
LEMMA FirstEvents ==
  ASSUME NEW h \in Nat, h <= N, NEW z \in {"static", "vlm"}
  PROVE  LET S == {[visit |-> i, zone |-> z] : i \in 1..h}
         IN S \in SUBSET Ids /\ Cardinality(S) = h
<1> DEFINE id(i) == [visit |-> i, zone |-> z]
           S == {id(i) : i \in 1..h}
           f == [i \in 1..h |-> id(i)]
<1>1. \A i \in 1..h : id(i) \in Ids
  BY DeliveryAssumption DEF Ids
<1>2. \A i, j \in 1..h : id(i) = id(j) => i = j
  OBVIOUS
<1>3. f \in Bijection(1..h, S)
  BY <1>2 DEF Bijection, Injection, Surjection, IsInjective
<1>4. IsFiniteSet(1..h) /\ Cardinality(1..h) = h
  BY FS_Interval
<1>5. ExistsBijection(1..h, S)
  BY <1>3 DEF ExistsBijection
<1>6. Cardinality(S) = h
  BY <1>4, <1>5, FS_Bijection
<1> QED
  BY <1>1, <1>6

\* Of the first h events all but those in gone are in the store, and p is
\* their number: then the store has so many.
LEMMA AccountedIsStored ==
  ASSUME NEW h \in Nat, h <= N, NEW z \in {"static", "vlm"}, NEW store \in SUBSET Ids,
         NEW gone \in SUBSET Ids, NEW p \in Nat, p + Cardinality(gone) = h,
         \A e \in gone : \E i \in 1..h : e = [visit |-> i, zone |-> z],
         \A i \in 1..h : [visit |-> i, zone |-> z] \in store \cup gone
  PROVE  p <= Cardinality(store) /\ p \in 0..N
<1> DEFINE S == {[visit |-> i, zone |-> z] : i \in 1..h}
<1>1. S \in SUBSET Ids /\ Cardinality(S) = h
  BY FirstEvents
<1>2. gone \subseteq S /\ S \ gone \subseteq store
  OBVIOUS
<1>3. S \cap gone = gone
  BY <1>2
<1> HIDE DEF S
<1>4. IsFiniteSet(S) /\ Cardinality(gone) \in Nat
  BY <1>1, StoreGrows
<1>5. Cardinality(S \ gone) = Cardinality(S) - Cardinality(gone)
  BY <1>3, <1>4, FS_Difference
<1>6. /\ Cardinality(S \ gone) <= Cardinality(store)
      /\ Cardinality(store) \in Nat /\ Cardinality(S \ gone) \in Nat
  <2>1. S \ gone \in SUBSET Ids
    BY <1>1
  <2> QED
    BY <2>1, <1>2, StoreGrows
<1> QED
  BY <1>1, <1>4, <1>5, <1>6, DeliveryAssumption

\* The accounting stands while nothing is handled and the store only grows.
LEMMA AccountedStays ==
  ASSUME NEW h, Accounted(h), UNCHANGED <<label, dropped, posted>>, db \subseteq db'
  PROVE  Accounted(h)'
BY DEF Accounted, Event

-------------------------------------------------------------------------------

\* The rest of the pass invariant follows from its types and from the accounting.
LEMMA PassFrom ==
  ASSUME DeliveryTypes', posted' \in Nat, Live'
  PROVE  PassInv'
<1>1. /\ Handled' \in Nat /\ posted' + Cardinality(dropped') = Handled'
      /\ \A e \in dropped' : \E i \in 1..Handled' : e = [visit |-> i, zone |-> label']
      /\ \A i \in 1..Handled' : [visit |-> i, zone |-> label'] \in db' \cup dropped'
  BY DEF Live, Accounted, Event
<1>2. Handled' <= N
  <2>1. Handled' = next' - 1 - Len(buffer') - Len(batch')
    BY DEF Handled
  <2>2. next' \in 1..(N + 1) /\ Len(buffer') \in Nat /\ Len(batch') \in Nat /\ N \in Nat
    BY DeliveryAssumption DEF DeliveryTypes
  <2> QED
    BY <2>1, <2>2
<1>3. label' \in {"static", "vlm"} /\ db' \in SUBSET Ids /\ dropped' \in SUBSET Ids
  BY DEF DeliveryTypes
<1> DEFINE h == Handled'
<1> HIDE DEF h
<1>4. posted' <= Cardinality(db') /\ posted' \in 0..N
  BY <1>1, <1>2, <1>3, AccountedIsStored
<1> QED
  BY <1>4 DEF PassInv, PassTypes

\* The parts of the invariant that one step reads.
LEMMA LiveParts ==
  ASSUME PassInv, pc # "down"
  PROVE  /\ DeliveryTypes /\ posted \in Nat
         /\ Len(buffer) \in Nat /\ Len(batch) \in Nat /\ next \in Nat
         /\ Handled \in Nat /\ Accounted(Handled)
         /\ Pending(batch, Handled) /\ Pending(buffer, Handled + Len(batch))
BY DeliveryAssumption DEF PassInv, PassTypes, DeliveryTypes, Live, Accounted

\* What happens around the detector touches the store only to add to it.
LEMMA AroundKeepsPass ==
  ASSUME PassInv, UNCHANGED <<pc, next, label, zoneCache, jsonl, poster>>,
         db \subseteq db', db' \subseteq Ids, late' \subseteq SUBSET Ids, crashes' = crashes,
         api' \in [up : BOOLEAN, reachable : BOOLEAN, tables : BOOLEAN]
  PROVE  PassInv'
<1>1. UNCHANGED <<pc, next, label, zoneCache, jsonl, buffer, batch, attempt, after, posted, dropped>>
  BY DEF poster
<1>2. PassTypes'
  BY <1>1 DEF PassInv, PassTypes, DeliveryTypes
<1>3. posted' <= Cardinality(db')
  <2>1. Cardinality(db) <= Cardinality(db') /\ Cardinality(db) \in Nat /\ Cardinality(db') \in Nat
    BY StoreGrows DEF PassInv, PassTypes, DeliveryTypes
  <2> QED
    BY <2>1, <1>1 DEF PassInv, PassTypes, DeliveryTypes
<1>4. ASSUME pc' # "down" PROVE Live'
  <2>1. Live
    BY <1>1, <1>4 DEF PassInv
  <2>2. Handled' = Handled
    BY <1>1 DEF Handled
  <2> DEFINE h == Handled
  <2>3. Accounted(h)
    BY <2>1 DEF Live
  <2> HIDE DEF h
  <2>4. h' = h
    BY <2>2 DEF h
  <2>5. Accounted(h)'
    BY <2>3, <2>4, <1>1, AccountedStays DEF Accounted, Event
  <2> QED
    BY <2>1, <2>2, <2>5, <1>1 DEF Live, Pending, Event, h
<1> QED
  BY <1>2, <1>3, <1>4 DEF PassInv

-------------------------------------------------------------------------------

\* A new process has made nothing, and the file is empty.
LEMMA BootKeeps == PassInv /\ Boot => PassInv'
<1> SUFFICES ASSUME PassInv, Boot PROVE PassInv'
  OBVIOUS
<1>1. /\ pc' = "ready" /\ next' = 1 /\ jsonl' = <<>> /\ buffer' = <<>> /\ batch' = <<>>
      /\ posted' = 0 /\ dropped' = {}
      /\ UNCHANGED <<label, attempt, after, zoneCache, api, late, crashes, db>>
  BY DEF Boot, environment
<1>2. DeliveryTypes'
  BY <1>1, DeliveryAssumption DEF PassInv, PassTypes, DeliveryTypes
<1>3. Handled' = 0
  <2>1. Len(buffer') = 0 /\ Len(batch') = 0
    BY <1>1
  <2> QED
    BY <2>1, <1>1 DEF Handled
<1>4. Accounted(Handled)'
  BY <1>1, <1>3, FS_EmptySet DEF Accounted
<1>5. jsonl' = [i \in 1..(IF pc' = "buffer" THEN next' ELSE next' - 1) |-> Event(i)']
  BY <1>1
<1>6. Live'
  BY <1>1, <1>4, <1>5 DEF Live, Pending
<1> QED
  BY <1>1, <1>2, <1>6, PassFrom

\* Before the pass nothing is there that the label could be wrong of.
LEMMA StartKeeps == PassInv /\ StartPass => PassInv'
<1> SUFFICES ASSUME PassInv, StartPass PROVE PassInv'
  OBVIOUS
<1>1. /\ pc = "ready" /\ pc' = "emit"
      /\ UNCHANGED <<next, jsonl, buffer, batch, attempt, after, posted, dropped,
                     api, late, crashes, db>>
      /\ label' \in {"static", "vlm"} /\ zoneCache' \in {"none", "static", "vlm"}
  BY DEF StartPass, ResolveZones, Reply, poster, environment, PassInv, PassTypes, DeliveryTypes
<1>2. /\ DeliveryTypes /\ posted \in Nat /\ Len(buffer) \in Nat /\ Len(batch) \in Nat
      /\ Handled \in Nat /\ Accounted(Handled)
  BY <1>1, LiveParts
<1>3. next = 1 /\ jsonl = [i \in 1..(next - 1) |-> Event(i)]
  BY <1>1 DEF PassInv, Live
<1>4. Len(buffer) = 0 /\ Len(batch) = 0 /\ Handled = 0 /\ Handled' = 0
  BY <1>1, <1>2, <1>3 DEF Handled
<1>5. buffer = <<>> /\ batch = <<>>
  BY <1>2, <1>4 DEF DeliveryTypes
<1>6. dropped = {} /\ posted + Cardinality(dropped) = 0
  BY <1>2, <1>4 DEF Accounted
<1>7. Accounted(Handled)'
  BY <1>1, <1>4, <1>6 DEF Accounted
<1>8. jsonl' = [i \in 1..(next' - 1) |-> Event(i)']
  BY <1>1, <1>3
<1>9. Live'
  BY <1>1, <1>3, <1>5, <1>7, <1>8 DEF Live, Pending
<1>10. DeliveryTypes' /\ posted' \in Nat
  BY <1>1, <1>2 DEF DeliveryTypes
<1> QED
  BY <1>9, <1>10, PassFrom

\* What a step leaves alone that handles nothing and keeps the label.
LEMMA NothingHandled ==
  ASSUME PassInv, pc # "down", Handled' = Handled, UNCHANGED <<label, dropped, posted>>,
         db \subseteq db'
  PROVE  Accounted(Handled)' /\ \A i : Event(i)' = Event(i)
BY LiveParts DEF Accounted, Event

\* The file grows by the next event.
LEMMA FileKeeps == PassInv /\ WriteJsonl => PassInv'
<1> SUFFICES ASSUME PassInv, WriteJsonl PROVE PassInv'
  OBVIOUS
<1>1. /\ pc = "emit" /\ next <= N /\ pc' = "buffer" /\ jsonl' = Append(jsonl, Event(next))
      /\ UNCHANGED <<next, label, zoneCache, buffer, batch, attempt, after, posted, dropped,
                     api, late, crashes, db>>
  BY DEF WriteJsonl, poster, environment
<1>2. DeliveryTypes /\ posted \in Nat /\ next \in Nat
  BY <1>1, LiveParts
<1>3. Handled' = Handled
  BY <1>1 DEF Handled
<1>4. Accounted(Handled)' /\ \A i : Event(i)' = Event(i)
  BY <1>1, <1>3, NothingHandled
<1>5. jsonl = [i \in 1..(next - 1) |-> Event(i)] /\ Live
  BY <1>1 DEF PassInv, Live
<1>6. Event(next) \in Ids
  BY <1>1, <1>2 DEF Event, Ids, DeliveryTypes
<1>7. jsonl' \in Seq(Ids) /\ jsonl' = [i \in 1..next |-> Event(i)]
  <2>1. jsonl' \in Seq(Ids) /\ Len(jsonl) = next - 1 /\ Len(jsonl') = next
    BY <1>1, <1>2, <1>5, <1>6 DEF DeliveryTypes
  <2>2. \A i \in 1..next : jsonl'[i] = Event(i)
    BY <1>1, <1>2, <1>5, <2>1
  <2> HIDE DEF Event
  <2>3. jsonl' = [i \in 1..Len(jsonl') |-> jsonl'[i]]
    BY <2>1
  <2> QED
    BY <2>1, <2>2, <2>3
<1>8. jsonl' = [i \in 1..(IF pc' = "buffer" THEN next' ELSE next' - 1) |-> Event(i)']
  BY <1>1, <1>4, <1>7
<1>9. Live'
  BY <1>1, <1>3, <1>4, <1>5, <1>8 DEF Live, Pending
<1>10. DeliveryTypes' /\ posted' \in Nat
  BY <1>1, <1>2, <1>7 DEF DeliveryTypes
<1> QED
  BY <1>9, <1>10, PassFrom

\* A flush puts what is buffered into the batch, or there is nothing to put.
LEMMA FlushMoves ==
  ASSUME NEW s, NEW resume, Flush(s, resume), batch = <<>>, s = <<>> => buffer = <<>>
  PROVE  /\ buffer' = <<>> /\ batch' = s
         /\ pc' = IF s = <<>> THEN resume ELSE "post"
         /\ s = <<>> => UNCHANGED <<attempt, after>>
         /\ s # <<>> => attempt' = 1 /\ after' = resume
BY DEF Flush

\* The event in hand joins the buffer, and with a full buffer the batch.
LEMMA BufferKeeps == PassInv /\ WriteHttp => PassInv'
<1> SUFFICES ASSUME PassInv, WriteHttp PROVE PassInv'
  OBVIOUS
<1> DEFINE s == Append(buffer, Event(next))
           resume == IF next \in CameraEnds THEN "cameraEnd" ELSE "emit"
<1>1. /\ pc = "buffer" /\ next' = next + 1
      /\ IF Len(s) >= BatchSize THEN Flush(s, resume)
         ELSE buffer' = s /\ pc' = resume /\ UNCHANGED <<batch, attempt, after>>
      /\ UNCHANGED <<label, zoneCache, jsonl, posted, dropped, api, late, crashes, db>>
  BY DEF WriteHttp, environment
<1>2. /\ DeliveryTypes /\ posted \in Nat /\ Len(buffer) \in Nat /\ next \in Nat
      /\ Handled \in Nat /\ Pending(buffer, Handled + Len(batch))
  BY <1>1, LiveParts
<1>3. Live /\ batch = <<>> /\ next <= N
  BY <1>1 DEF PassInv, Live
<1>4. Len(batch) = 0 /\ next = Handled + Len(buffer) + 1
  BY <1>2, <1>3 DEF Handled
<1>5. Event(next) \in Ids
  BY <1>2, <1>3 DEF Event, Ids, DeliveryTypes
<1>6. s \in Seq(Ids) /\ Len(s) = Len(buffer) + 1 /\ Len(s) <= BatchSize /\ s # <<>>
  <2>1. buffer \in Seq(Ids) /\ Len(buffer) < BatchSize /\ BatchSize \in Nat
    BY <1>2, DeliveryAssumption DEF DeliveryTypes
  <2>2. s \in Seq(Ids) /\ Len(s) = Len(buffer) + 1
    BY <2>1, <1>5
  <2> HIDE DEF s
  <2>3. s # <<>>
    BY <2>2, <1>2
  <2> QED
    BY <2>1, <2>2, <2>3, <1>2
<1>7. \A i \in 1..Len(s) : s[i] = Event(Handled + i)
  <2>1. ASSUME NEW i \in 1..Len(buffer) PROVE s[i] = Event(Handled + i)
    <3>1. buffer[i] = Event(Handled + i)
      BY <1>2, <1>4 DEF Pending
    <3>2. s[i] = buffer[i]
      BY <1>2 DEF DeliveryTypes
    <3> QED
      BY <3>1, <3>2
  <2>2. s[Len(buffer) + 1] = Event(Handled + Len(buffer) + 1)
    <3>1. s[Len(buffer) + 1] = Event(next)
      BY <1>2 DEF DeliveryTypes
    <3>2. Handled + (Len(buffer) + 1) = next
      BY <1>2, <1>4
    <3> QED
      BY <3>1, <3>2, <1>2, <1>4
  <2> HIDE DEF s
  <2> QED
    BY <2>1, <2>2, <1>2, <1>6
<1> HIDE DEF s, resume
<1>8. \/ buffer' = <<>> /\ batch' = s /\ pc' = "post" /\ attempt' = 1 /\ after' = resume
      \/ buffer' = s /\ batch' = <<>> /\ pc' = resume /\ UNCHANGED <<attempt, after>>
          /\ Len(s) < BatchSize
  <2>1. CASE Len(s) >= BatchSize
    BY <2>1, <1>1, <1>3, <1>6, FlushMoves
  <2>2. CASE ~(Len(s) >= BatchSize)
    BY <2>2, <1>1, <1>3, <1>6, DeliveryAssumption
  <2> QED
    BY <2>1, <2>2
<1>9. Len(batch') + Len(buffer') = Len(s) /\ Len(batch') \in Nat /\ Len(buffer') \in Nat
  <2>1. Len(<<>>) = 0 /\ Len(s) \in Nat
    BY <1>2, <1>6
  <2> QED
    BY <2>1, <1>8
<1>10. Handled' = Handled
  <2>1. Handled' = next' - 1 - Len(buffer') - Len(batch')
    BY DEF Handled
  <2> QED
    BY <2>1, <1>1, <1>2, <1>4, <1>6, <1>9
<1>11. Accounted(Handled)' /\ \A i : Event(i)' = Event(i)
  BY <1>1, <1>10, NothingHandled
<1>12. Pending(batch, Handled)' /\ Pending(buffer, Handled + Len(batch))'
  <2>1. CASE batch' = <<>> /\ buffer' = s
    <3>1. Len(batch') = 0 /\ Handled + 0 = Handled
      BY <2>1, <1>2
    <3> QED
      BY <2>1, <3>1, <1>7, <1>10, <1>11 DEF Pending
  <2>2. CASE batch' = s /\ buffer' = <<>>
    BY <2>2, <1>7, <1>10, <1>11 DEF Pending
  <2> QED
    BY <2>1, <2>2, <1>8
<1>13. resume \in {"emit", "cameraEnd"} /\ pc' \in {"emit", "cameraEnd", "post"}
  BY <1>8 DEF resume
<1>14. jsonl' = [i \in 1..(IF pc' = "buffer" THEN next' ELSE next' - 1) |-> Event(i)']
  <2>1. jsonl = [i \in 1..next |-> Event(i)]
    BY <1>1, <1>3 DEF Live
  <2>2. (IF pc' = "buffer" THEN next' ELSE next' - 1) = next
    BY <1>1, <1>2, <1>13
  <2> QED
    BY <2>1, <2>2, <1>1, <1>11
<1>15. Live'
  BY <1>1, <1>8, <1>11, <1>12, <1>13, <1>14 DEF Live
<1>16. DeliveryTypes' /\ posted' \in Nat
  <2>1. buffer' \in Seq(Ids) /\ batch' \in Seq(Ids) /\ Len(buffer') < BatchSize /\ Len(batch') <= BatchSize
    <3>1. Len(<<>>) = 0 /\ <<>> \in Seq(Ids) /\ BatchSize \in Nat /\ 0 < BatchSize
      BY DeliveryAssumption
    <3>2. CASE buffer' = <<>> /\ batch' = s
      BY <3>1, <3>2, <1>6
    <3>3. CASE buffer' = s /\ batch' = <<>> /\ Len(s) < BatchSize
      BY <3>1, <3>3, <1>6
    <3> QED
      BY <3>2, <3>3, <1>8
  <2>2. attempt' \in 1..MaxRetries /\ after' \in {"emit", "cameraEnd", "idle", "down"}
    BY <1>2, <1>8, <1>13, DeliveryAssumption DEF DeliveryTypes
  <2>3. next' \in 1..(N + 1)
    BY <1>1, <1>2, <1>3, DeliveryAssumption
  <2> QED
    BY <2>1, <2>2, <2>3, <1>1, <1>2, <1>13 DEF DeliveryTypes
<1> QED
  BY <1>15, <1>16, PassFrom

\* What is buffered is posted at the end of a camera and of the pass, and when
\* an exception leaves the sinks.
LEMMA FlushKeeps ==
  ASSUME PassInv, pc \in {"cameraEnd", "emit"}, NEW resume \in {"emit", "idle", "down"},
         Flush(buffer, resume), resume = "idle" => next > N,
         UNCHANGED <<next, label, zoneCache, jsonl, posted, dropped, api, late, db>>,
         crashes' \in 0..MaxCrashes
  PROVE  PassInv'
<1>1. /\ DeliveryTypes /\ posted \in Nat /\ Len(buffer) \in Nat /\ next \in Nat
      /\ Handled \in Nat /\ Pending(buffer, Handled + Len(batch))
  BY LiveParts
<1>2. Live /\ batch = <<>> /\ Len(batch) = 0
  BY DEF PassInv, Live
<1>3. /\ buffer' = <<>> /\ batch' = buffer
      /\ pc' = IF buffer = <<>> THEN resume ELSE "post"
      /\ buffer = <<>> => UNCHANGED <<attempt, after>>
      /\ buffer # <<>> => attempt' = 1 /\ after' = resume
  BY <1>2, FlushMoves
<1>4. Len(buffer') = 0 /\ Len(batch') = Len(buffer)
  BY <1>3
<1>5. Handled' = Handled
  <2>1. Handled' = next' - 1 - Len(buffer') - Len(batch')
    BY DEF Handled
  <2> QED
    BY <2>1, <1>1, <1>2, <1>4 DEF Handled
<1>6. Accounted(Handled)' /\ \A i : Event(i)' = Event(i)
  BY <1>5, NothingHandled
<1>7. Pending(batch, Handled)' /\ Pending(buffer, Handled + Len(batch))'
  <2>1. Handled + Len(batch) = Handled
    BY <1>1, <1>2
  <2>2. \A i \in 1..Len(buffer) : buffer[i] = Event(Handled + i)
    BY <2>1, <1>1 DEF Pending
  <2> QED
    BY <2>2, <1>3, <1>4, <1>5, <1>6 DEF Pending
<1>8. DeliveryTypes' /\ posted' \in Nat
  <2>1. Len(buffer) <= BatchSize /\ 0 < BatchSize
    BY <1>1, DeliveryAssumption DEF DeliveryTypes
  <2>2. attempt' \in 1..MaxRetries /\ after' \in {"emit", "cameraEnd", "idle", "down"}
    BY <1>1, <1>3, DeliveryAssumption DEF DeliveryTypes
  <2>3. buffer' \in Seq(Ids) /\ batch' \in Seq(Ids)
    BY <1>1, <1>3 DEF DeliveryTypes
  <2> QED
    BY <2>1, <2>2, <2>3, <1>1, <1>3, <1>4 DEF DeliveryTypes
<1>9. CASE pc' = "down"
  BY <1>8, <1>9 DEF PassInv, PassTypes
<1>10. CASE pc' # "down"
  <2>1. pc' \in {"emit", "idle", "post"}
    BY <1>3, <1>10
  <2>2. next > N => next = N + 1
    BY <1>1, DeliveryAssumption DEF DeliveryTypes
  <2>3. jsonl' = [i \in 1..(IF pc' = "buffer" THEN next' ELSE next' - 1) |-> Event(i)']
    BY <2>1, <1>2, <1>6 DEF Live
  <2>4. Live'
    BY <2>1, <2>2, <2>3, <1>2, <1>3, <1>6, <1>7 DEF Live
  <2> QED
    BY <2>4, <1>8, PassFrom
<1> QED
  BY <1>9, <1>10

\* At the end of a camera the sink is flushed.
LEMMA CameraEndKeeps == PassInv /\ CameraEnd => PassInv'
<1> SUFFICES ASSUME PassInv, CameraEnd PROVE PassInv'
  OBVIOUS
<1>1. /\ pc = "cameraEnd" /\ Flush(buffer, "emit") /\ crashes' \in 0..MaxCrashes
      /\ UNCHANGED <<next, label, zoneCache, jsonl, posted, dropped, api, late, db>>
  BY DEF CameraEnd, environment, PassInv, PassTypes, DeliveryTypes
<1> QED
  BY <1>1, FlushKeeps

\* Leaving the sinks flushes them, after the pass and after an exception.
LEMMA ExitKeeps == PassInv /\ Exit => PassInv'
<1> SUFFICES ASSUME PassInv, Exit PROVE PassInv'
  OBVIOUS
<1>1. /\ pc = "emit" /\ crashes \in 0..MaxCrashes
      /\ UNCHANGED <<next, label, zoneCache, jsonl, posted, dropped, api, late, db>>
  BY DEF Exit, PassInv, PassTypes, DeliveryTypes
<1>2. CASE next > N /\ Flush(buffer, "idle") /\ UNCHANGED crashes
  BY <1>1, <1>2, FlushKeeps
<1>3. CASE crashes < MaxCrashes /\ Flush(buffer, "down") /\ crashes' = crashes + 1
  <2>1. crashes' \in 0..MaxCrashes
    BY <1>1, <1>3, DeliveryAssumption
  <2> QED
    BY <2>1, <1>1, <1>3, FlushKeeps
<1> QED
  BY <1>2, <1>3 DEF Exit

\* The batch is stored and counted, and its events are handled.
LEMMA PostOkKeeps == PassInv /\ PostOk => PassInv'
<1> SUFFICES ASSUME PassInv, PostOk PROVE PassInv'
  OBVIOUS
<1>1. /\ pc = "post" /\ db' = db \cup ToSet(batch) /\ posted' = posted + Len(batch)
      /\ batch' = <<>> /\ pc' = after
      /\ UNCHANGED <<next, label, zoneCache, jsonl, buffer, attempt, after, dropped,
                     api, late, crashes>>
  BY DEF PostOk, environment
<1>2. /\ DeliveryTypes /\ posted \in Nat /\ Len(batch) \in Nat /\ next \in Nat
      /\ Handled \in Nat /\ Accounted(Handled) /\ Pending(batch, Handled)
  BY <1>1, LiveParts
<1>3. Live /\ buffer = <<>> /\ Len(buffer) = 0
  BY <1>1 DEF PassInv, Live
<1>4. ToSet(batch) = {batch[i] : i \in 1..Len(batch)} /\ ToSet(batch) \subseteq Ids
  BY <1>2 DEF ToSet, DeliveryTypes
<1>5. Handled' = Handled + Len(batch)
  <2>1. Handled' = next' - 1 - Len(buffer') - Len(batch')
    BY DEF Handled
  <2>2. Len(batch') = 0
    BY <1>1
  <2> QED
    BY <2>1, <2>2, <1>1, <1>2, <1>3 DEF Handled
<1>6. \A i : Event(i)' = Event(i)
  BY <1>1 DEF Event
<1>7. Accounted(Handled)'
  <2>1. Handled' \in Nat /\ posted' + Cardinality(dropped') = Handled'
    <3>1. Cardinality(dropped) \in Nat /\ posted + Cardinality(dropped) = Handled
      BY <1>2, StoreGrows DEF DeliveryTypes, Accounted
    <3> QED
      BY <3>1, <1>1, <1>2, <1>5
  <2>2. \A e \in dropped' : \E i \in 1..Handled' : e = Event(i)'
    <3>1. 1..Handled \subseteq 1..Handled'
      BY <1>2, <1>5
    <3> QED
      BY <3>1, <1>1, <1>2, <1>6 DEF Accounted
  <2>3. ASSUME NEW i \in 1..Handled' PROVE Event(i)' \in db' \cup dropped'
    <3>1. CASE i \in 1..Handled
      BY <3>1, <1>1, <1>2, <1>6 DEF Accounted
    <3>2. CASE i > Handled
      <4>1. i - Handled \in 1..Len(batch) /\ Handled + (i - Handled) = i
        BY <3>2, <2>3, <1>2, <1>5
      <4>2. Event(i) \in ToSet(batch)
        BY <4>1, <1>2, <1>4 DEF Pending
      <4> QED
        BY <4>2, <1>1, <1>6
    <3> QED
      BY <3>1, <3>2, <1>2, <1>5
  <2> QED
    BY <2>1, <2>2, <2>3 DEF Accounted
<1>8. pc' \in {"emit", "cameraEnd", "idle", "down"}
  BY <1>1, <1>2 DEF DeliveryTypes
<1>9. jsonl' = [i \in 1..(IF pc' = "buffer" THEN next' ELSE next' - 1) |-> Event(i)']
  BY <1>1, <1>3, <1>6, <1>8 DEF Live
<1>10. Live'
  BY <1>1, <1>3, <1>7, <1>8, <1>9 DEF Live, Pending
<1>11. DeliveryTypes' /\ posted' \in Nat
  BY <1>1, <1>2, <1>4, <1>8, DeliveryAssumption DEF DeliveryTypes
<1> QED
  BY <1>10, <1>11, PassFrom

\* A failed post stores events of the batch, now or later, or none.
LEMMA FailureStores ==
  ASSUME NEW events \in SUBSET Ids, FailedPost(events), db \subseteq Ids, late \subseteq SUBSET Ids
  PROVE  db \subseteq db' /\ db' \subseteq Ids /\ late' \subseteq SUBSET Ids
BY DEF FailedPost

\* A set grows by what a larger one has more: by that number.
LEMMA NewOnesCount ==
  ASSUME NEW S \in SUBSET Ids, NEW T \in SUBSET Ids, T \subseteq S,
         NEW D \in SUBSET Ids, D \subseteq T, NEW B, B = S \ T
  PROVE  /\ Cardinality(B) = Cardinality(S) - Cardinality(T)
         /\ Cardinality(D \cup B) = Cardinality(D) + Cardinality(B)
         /\ Cardinality(D) \in Nat
<1>1. B \in SUBSET Ids /\ S \cap T = T /\ D \cap B = {}
  OBVIOUS
<1>2. /\ IsFiniteSet(S) /\ IsFiniteSet(D) /\ IsFiniteSet(B)
      /\ Cardinality(D) \in Nat /\ Cardinality(B) \in Nat
  BY <1>1, StoreGrows
<1>3. Cardinality(S \ T) = Cardinality(S) - Cardinality(S \cap T)
  BY <1>2, FS_Difference
<1>4. Cardinality(D \cup B) = Cardinality(D) + Cardinality(B) - Cardinality(D \cap B)
  BY <1>2, FS_Union
<1>5. Cardinality({}) = 0
  BY FS_EmptySet
<1>6. Cardinality(B) = Cardinality(S) - Cardinality(T)
  BY <1>1, <1>3
<1>7. Cardinality(D \cup B) = Cardinality(D) + Cardinality(B)
  <2>1. Cardinality(D \cap B) = 0
    BY <1>1, <1>5
  <2> QED
    BY <2>1, <1>2, <1>4
<1> QED
  BY <1>2, <1>6, <1>7

\* The events of the batch are as many as it is long, and none was dropped before.
LEMMA BatchIsNew ==
  ASSUME PassInv, pc = "post"
  PROVE  /\ ToSet(batch) \subseteq Ids
         /\ Cardinality(dropped \cup ToSet(batch)) = Cardinality(dropped) + Len(batch)
         /\ Cardinality(dropped) \in Nat
<1> DEFINE first(h) == {[visit |-> i, zone |-> label] : i \in 1..h}
           n == Len(batch)
           B == ToSet(batch)
<1>1. /\ DeliveryTypes /\ n \in Nat /\ next \in Nat /\ Len(buffer) \in Nat
      /\ Handled \in Nat /\ Accounted(Handled) /\ Pending(batch, Handled)
  BY LiveParts
<1>2. B = {batch[i] : i \in 1..n} /\ B \subseteq Ids
  <2>1. batch \in Seq(Ids)
    BY <1>1 DEF DeliveryTypes
  <2> HIDE DEF first
  <2>2. DOMAIN batch = 1..n /\ \A i \in 1..n : batch[i] \in Ids
    BY <2>1
  <2>3. B = {batch[i] : i \in DOMAIN batch}
    BY Zenon DEF ToSet
  <2> QED
    BY <2>2, <2>3
<1>3. Handled + n \in Nat /\ Handled <= N /\ Handled + n <= N
  <2>1. Handled = next - 1 - Len(buffer) - n /\ next \in 1..(N + 1) /\ N \in Nat
    BY <1>1, DeliveryAssumption DEF Handled, DeliveryTypes
  <2> QED
    BY <2>1, <1>1
<1> HIDE DEF n
<1>4. B = first(Handled + n) \ first(Handled)
  <2>1. \A i \in 1..n : batch[i] = [visit |-> Handled + i, zone |-> label]
    BY <1>1 DEF Pending, Event, n
  <2>2. ASSUME NEW e \in B PROVE e \in first(Handled + n) \ first(Handled)
    <3>1. PICK i \in 1..n : e = [visit |-> Handled + i, zone |-> label]
      BY <2>1, <1>2
    <3>2. Handled + i \in 1..(Handled + n) /\ Handled + i \notin 1..Handled
      BY <1>1
    <3>3. e \in first(Handled + n)
      BY <3>1, <3>2
    <3>4. \A j \in 1..Handled : e # [visit |-> j, zone |-> label]
      <4> SUFFICES ASSUME NEW j \in 1..Handled, e = [visit |-> j, zone |-> label] PROVE FALSE
        OBVIOUS
      <4>1. e.visit = j /\ e.visit = Handled + i
        BY <3>1
      <4> QED
        BY <4>1, <3>2
    <3> QED
      BY <3>3, <3>4
  <2>3. ASSUME NEW e \in first(Handled + n) \ first(Handled) PROVE e \in B
    <3>1. PICK j \in 1..(Handled + n) : e = [visit |-> j, zone |-> label]
      OBVIOUS
    <3>2. j \notin 1..Handled
      BY <3>1, <2>3
    <3>3. j - Handled \in 1..n /\ Handled + (j - Handled) = j
      BY <3>2, <1>1
    <3>4. batch[j - Handled] = e
      BY <3>1, <3>3, <2>1
    <3> QED
      BY <3>3, <3>4, <1>2
  <2> QED
    BY <2>2, <2>3
<1>5. label \in {"static", "vlm"} /\ dropped \in SUBSET Ids
  BY <1>1 DEF DeliveryTypes
<1>6. /\ first(Handled) \in SUBSET Ids /\ Cardinality(first(Handled)) = Handled
      /\ first(Handled + n) \in SUBSET Ids /\ Cardinality(first(Handled + n)) = Handled + n
  <2> DEFINE k == Handled
             m == Handled + n
  <2>1. k \in Nat /\ k <= N /\ m \in Nat /\ m <= N
    BY <1>1, <1>3
  <2> HIDE DEF k, m
  <2>2. /\ first(k) \in SUBSET Ids /\ Cardinality(first(k)) = k
        /\ first(m) \in SUBSET Ids /\ Cardinality(first(m)) = m
    BY <2>1, <1>5, FirstEvents
  <2> QED
    BY <2>2 DEF k, m
<1>7. first(Handled + n) \cap first(Handled) = first(Handled)
  BY <1>1
<1>8. dropped \subseteq first(Handled)
  BY <1>1 DEF Accounted, Event
<1> DEFINE S == first(Handled + n)
           T == first(Handled)
<1>9. /\ S \in SUBSET Ids /\ T \in SUBSET Ids /\ T \subseteq S
      /\ dropped \subseteq T /\ B = S \ T
      /\ Cardinality(S) = Handled + n /\ Cardinality(T) = Handled
  BY <1>4, <1>6, <1>7, <1>8
<1> HIDE DEF S, T, B
<1>10. /\ Cardinality(B) = Cardinality(S) - Cardinality(T)
       /\ Cardinality(dropped \cup B) = Cardinality(dropped) + Cardinality(B)
       /\ Cardinality(dropped) \in Nat
  BY <1>9, <1>5, NewOnesCount
<1>11. Cardinality(B) = n
  BY <1>1, <1>9, <1>10
<1>12. Cardinality(dropped \cup B) = Cardinality(dropped) + n /\ B \subseteq Ids
  BY <1>2, <1>10, <1>11
<1> QED
  BY <1>10, <1>12 DEF B, n

\* The post is tried again, or its batch is dropped and so handled.
LEMMA PostFailedKeeps == PassInv /\ PostFailed => PassInv'
<1> SUFFICES ASSUME PassInv, PostFailed PROVE PassInv'
  OBVIOUS
<1>1. /\ pc = "post" /\ FailedPost(ToSet(batch))
      /\ UNCHANGED <<next, label, zoneCache, jsonl, buffer, after, posted, api, crashes>>
  BY DEF PostFailed
<1>2. /\ DeliveryTypes /\ posted \in Nat /\ Len(batch) \in Nat /\ next \in Nat
      /\ Len(buffer) \in Nat
      /\ Handled \in Nat /\ Accounted(Handled) /\ Pending(batch, Handled)
  BY <1>1, LiveParts
<1>3. Live
  BY <1>1 DEF PassInv
<1>4. /\ ToSet(batch) \subseteq Ids
      /\ Cardinality(dropped \cup ToSet(batch)) = Cardinality(dropped) + Len(batch)
      /\ Cardinality(dropped) \in Nat
  BY <1>1, BatchIsNew
<1>5. db \subseteq db' /\ db' \subseteq Ids /\ late' \subseteq SUBSET Ids
  BY <1>1, <1>2, <1>4, FailureStores DEF DeliveryTypes
<1>6. \A i : Event(i)' = Event(i)
  BY <1>1 DEF Event
<1>7. CASE attempt < MaxRetries /\ attempt' = attempt + 1 /\ UNCHANGED <<pc, batch, dropped>>
  <2>1. Handled' = Handled
    BY <1>1, <1>7 DEF Handled
  <2>2. Accounted(Handled)'
    BY <2>1, <1>1, <1>5, <1>7, NothingHandled
  <2>3. Live'
    BY <2>1, <2>2, <1>1, <1>3, <1>6, <1>7 DEF Live, Pending
  <2>4. DeliveryTypes' /\ posted' \in Nat
    BY <1>1, <1>2, <1>5, <1>7, DeliveryAssumption DEF DeliveryTypes
  <2> QED
    BY <2>3, <2>4, PassFrom
<1>8. CASE /\ dropped' = dropped \cup ToSet(batch)
           /\ batch' = <<>> /\ pc' = after /\ UNCHANGED attempt
  <2>1. Handled' = Handled + Len(batch)
    <3>1. Handled' = next' - 1 - Len(buffer') - Len(batch')
      BY DEF Handled
    <3>2. Len(batch') = 0
      BY <1>8
    <3> QED
      BY <3>1, <3>2, <1>1, <1>2 DEF Handled
  <2>2. ToSet(batch) = {batch[i] : i \in 1..Len(batch)}
    BY <1>2 DEF ToSet, DeliveryTypes
  <2>3. Accounted(Handled)'
    <3>1. Handled' \in Nat /\ posted' + Cardinality(dropped') = Handled'
      BY <2>1, <1>1, <1>2, <1>4, <1>8 DEF Accounted
    <3>2. ASSUME NEW e \in dropped' PROVE \E i \in 1..Handled' : e = Event(i)'
      <4>1. CASE e \in dropped
        <5>1. 1..Handled \subseteq 1..Handled'
          BY <2>1, <1>2
        <5> QED
          BY <4>1, <5>1, <1>2, <1>6 DEF Accounted
      <4>2. CASE e \in ToSet(batch)
        <5>1. PICK i \in 1..Len(batch) : e = Event(Handled + i)
          BY <4>2, <2>2, <1>2 DEF Pending
        <5>2. Handled + i \in 1..Handled'
          BY <2>1, <1>2
        <5> QED
          BY <5>1, <5>2, <1>6
      <4> QED
        BY <4>1, <4>2, <1>8
    <3>3. ASSUME NEW i \in 1..Handled' PROVE Event(i)' \in db' \cup dropped'
      <4>1. CASE i \in 1..Handled
        BY <4>1, <1>2, <1>5, <1>6, <1>8 DEF Accounted
      <4>2. CASE i > Handled
        <5>1. i - Handled \in 1..Len(batch) /\ Handled + (i - Handled) = i
          BY <4>2, <3>3, <2>1, <1>2
        <5>2. Event(i) \in ToSet(batch)
          BY <5>1, <2>2, <1>2 DEF Pending
        <5> QED
          BY <5>2, <1>6, <1>8
      <4> QED
        BY <4>1, <4>2, <2>1, <1>2
    <3> QED
      BY <3>1, <3>2, <3>3 DEF Accounted
  <2>4. pc' \in {"emit", "cameraEnd", "idle", "down"}
    BY <1>2, <1>8 DEF DeliveryTypes
  <2>5. jsonl' = [i \in 1..(IF pc' = "buffer" THEN next' ELSE next' - 1) |-> Event(i)']
    BY <2>4, <1>1, <1>3, <1>6 DEF Live
  <2>6. Live'
    BY <2>3, <2>4, <2>5, <1>1, <1>3, <1>8 DEF Live, Pending
  <2>7. DeliveryTypes' /\ posted' \in Nat
    BY <2>4, <1>1, <1>2, <1>4, <1>5, <1>8, DeliveryAssumption DEF DeliveryTypes
  <2> QED
    BY <2>6, <2>7, PassFrom
<1> QED
  BY <1>7, <1>8 DEF PostFailed

\* A process that is gone has nothing to account for.
LEMMA CrashKeeps == PassInv /\ Crash => PassInv'
<1> SUFFICES ASSUME PassInv, Crash PROVE PassInv'
  OBVIOUS
<1>1. /\ pc' = "down" /\ crashes < MaxCrashes /\ crashes' = crashes + 1
      /\ buffer' = <<>> /\ batch' = <<>>
      /\ UNCHANGED <<next, label, zoneCache, jsonl, attempt, after, posted, dropped, api, db>>
      /\ late' = late \/ late' = late \cup {ToSet(batch)}
  BY DEF Crash
<1>2. PassTypes /\ posted <= Cardinality(db)
  BY DEF PassInv
<1>3. ToSet(batch) \in SUBSET Ids
  BY <1>2 DEF PassTypes, DeliveryTypes, ToSet
<1>4. PassTypes'
  BY <1>1, <1>2, <1>3, DeliveryAssumption DEF PassTypes, DeliveryTypes
<1> QED
  BY <1>1, <1>2, <1>4 DEF PassInv

\* The idle process is stopped, and the stopped one is started again.
LEMMA StopKeeps == PassInv /\ (Stop \/ Restart) => PassInv'
<1> SUFFICES ASSUME PassInv, Stop \/ Restart PROVE PassInv'
  OBVIOUS
<1>1. UNCHANGED <<next, label, zoneCache, jsonl, buffer, batch, attempt, after, posted, dropped,
                  api, late, db>>
  BY DEF Stop, Restart, poster, environment
<1>2. CASE Stop
  <2>1. pc = "idle" /\ pc' = "stopped" /\ crashes' = crashes
    BY <1>2 DEF Stop, environment
  <2>2. Live /\ PassTypes /\ posted <= Cardinality(db)
    BY <2>1 DEF PassInv
  <2>3. Handled' = Handled
    BY <1>1 DEF Handled
  <2>4. Accounted(Handled)' /\ \A i : Event(i)' = Event(i)
    BY <2>1, <2>3, <1>1, NothingHandled
  <2>5. Live'
    BY <2>1, <2>2, <2>3, <2>4, <1>1 DEF Live, Pending
  <2> QED
    BY <2>1, <2>2, <2>5, <1>1 DEF PassInv, PassTypes, DeliveryTypes
<1>3. CASE Restart
  <2>1. pc' = "down" /\ crashes < MaxCrashes /\ crashes' = crashes + 1
    BY <1>3 DEF Restart
  <2> QED
    BY <2>1, <1>1, DeliveryAssumption DEF PassInv, PassTypes, DeliveryTypes
<1> QED
  BY <1>2, <1>3

-------------------------------------------------------------------------------
(* The replayer *)

\* The first events of a sequence and the rest are all that it holds.
LEMMA TakenOrLeft ==
  ASSUME NEW s \in Seq(Ids), NEW k \in 1..Len(s)
  PROVE  /\ ToSet(s) \subseteq ToSet(SubSeq(s, 1, k)) \cup ToSet(SubSeq(s, k + 1, Len(s)))
         /\ ToSet(SubSeq(s, 1, k)) \subseteq Ids
         /\ SubSeq(s, k + 1, Len(s)) \in Seq(Ids)
<1> DEFINE first == SubSeq(s, 1, k)
           rest == SubSeq(s, k + 1, Len(s))
<1>1. /\ first \in Seq(Ids) /\ Len(first) = k
      /\ \A i \in 1..k : first[i] = s[i]
  OBVIOUS
<1>2. /\ rest \in Seq(Ids) /\ Len(rest) = Len(s) - k
      /\ \A i \in 1..(Len(s) - k) : rest[i] = s[k + i]
  OBVIOUS
<1> HIDE DEF first, rest
<1>3. ASSUME NEW i \in 1..Len(s) PROVE s[i] \in ToSet(first) \cup ToSet(rest)
  <2>1. CASE i <= k
    BY <2>1, <1>1 DEF ToSet
  <2>2. CASE i > k
    <3>1. i - k \in 1..(Len(s) - k) /\ k + (i - k) = i
      BY <2>2
    <3>2. i - k \in DOMAIN rest /\ rest[i - k] = s[i]
      BY <3>1, <1>2
    <3> QED
      BY <3>2 DEF ToSet
  <2> QED
    BY <2>1, <2>2
<1>4. ToSet(s) \subseteq ToSet(first) \cup ToSet(rest)
  BY <1>3 DEF ToSet
<1>5. ToSet(first) \subseteq Ids
  BY <1>1 DEF ToSet
<1> QED
  BY <1>2, <1>4, <1>5 DEF first, rest

\* What is stored meanwhile takes nothing from the replay.
LEMMA AroundKeepsReplay ==
  ASSUME ReplayInv, replay' = replay, db \subseteq db'
  PROVE  ReplayInv'
BY DEF ReplayInv

\* The replayer reads the whole file, posts it in order, and stops at an error.
LEMMA ReplayerKeeps == IInv /\ Replayer => IInv'
<1> SUFFICES ASSUME IInv, Replayer PROVE IInv'
  OBVIOUS
<1>1. PassInv /\ ReplayInv /\ DeliveryTypes
  BY DEF IInv, PassInv, PassTypes
<1>2. CASE ReplayStart
  <2>1. /\ replay' = [state |-> "post", read |-> ToSet(jsonl), left |-> jsonl,
                      starts |-> replay.starts + 1]
        /\ UNCHANGED <<pc, next, label, zoneCache, jsonl, poster, api, late, crashes, db>>
    BY <1>2 DEF ReplayStart, environment
  <2>2. jsonl \in Seq(Ids) /\ ToSet(jsonl) \subseteq Ids
    BY <1>1 DEF DeliveryTypes, ToSet
  <2>3. ReplayInv'
    BY <2>1, <2>2, <1>1 DEF ReplayInv
  <2>4. PassInv'
    BY <2>1, <1>1, AroundKeepsPass DEF DeliveryTypes
  <2> QED
    BY <2>3, <2>4 DEF IInv
<1>3. CASE ReplayPost
  <2> DEFINE size == IF Len(replay.left) < BatchSize THEN Len(replay.left) ELSE BatchSize
             events == ToSet(SubSeq(replay.left, 1, size))
             rest == SubSeq(replay.left, size + 1, Len(replay.left))
  <2>1. /\ replay.state = "post" /\ replay.left # <<>>
        /\ \/ /\ CanStore /\ db' = db \cup events
              /\ replay' = [replay EXCEPT !.left = rest]
              /\ UNCHANGED late
           \/ /\ FailedPost(events)
              /\ replay' = [replay EXCEPT !.state = "failed"]
        /\ UNCHANGED <<pc, next, label, zoneCache, jsonl, poster, api, crashes>>
    BY <1>3 DEF ReplayPost
  <2>2. replay.left \in Seq(Ids) /\ Len(replay.left) \in Nat \ {0}
    <3>1. replay.left \in Seq(Ids)
      BY <1>1 DEF ReplayInv
    <3> QED
      BY <3>1, <2>1
  <2>3. size \in 1..Len(replay.left)
    BY <2>2, DeliveryAssumption
  <2>4. /\ ToSet(replay.left) \subseteq events \cup ToSet(rest)
        /\ events \subseteq Ids /\ rest \in Seq(Ids)
    <3> DEFINE k == size
    <3> HIDE DEF k, size
    <3>1. \A s \in Seq(Ids) : \A j \in 1..Len(s) :
             /\ ToSet(s) \subseteq ToSet(SubSeq(s, 1, j)) \cup ToSet(SubSeq(s, j + 1, Len(s)))
             /\ ToSet(SubSeq(s, 1, j)) \subseteq Ids
             /\ SubSeq(s, j + 1, Len(s)) \in Seq(Ids)
      BY TakenOrLeft
    <3> QED
      BY <3>1, <2>2, <2>3
  <2> HIDE DEF size, events, rest
  <2>5. CASE /\ CanStore /\ db' = db \cup events
             /\ replay' = [replay EXCEPT !.left = rest]
             /\ UNCHANGED late
    <3>1. ReplayInv'
      BY <2>1, <2>4, <2>5, <1>1 DEF ReplayInv
    <3>2. PassInv'
      BY <2>1, <2>4, <2>5, <1>1, AroundKeepsPass DEF DeliveryTypes
    <3> QED
      BY <3>1, <3>2 DEF IInv
  <2>6. CASE /\ FailedPost(events)
             /\ replay' = [replay EXCEPT !.state = "failed"]
    <3>1. db \subseteq db' /\ db' \subseteq Ids /\ late' \subseteq SUBSET Ids
      BY <2>4, <2>6, <1>1, FailureStores DEF DeliveryTypes
    <3>2. ReplayInv'
      BY <2>1, <2>6, <1>1 DEF ReplayInv
    <3>3. PassInv'
      BY <2>1, <3>1, <1>1, AroundKeepsPass DEF DeliveryTypes
    <3> QED
      BY <3>2, <3>3 DEF IInv
  <2> QED
    BY <2>1, <2>5, <2>6
<1>4. CASE ReplayDone
  <2>1. /\ replay.state = "post" /\ replay.left = <<>>
        /\ replay' = [replay EXCEPT !.state = "done"]
        /\ UNCHANGED <<pc, next, label, zoneCache, jsonl, poster, api, late, crashes, db>>
    BY <1>4 DEF ReplayDone, environment
  <2>2. ToSet(replay.left) = {}
    BY <2>1 DEF ToSet
  <2>3. ReplayInv'
    BY <2>1, <2>2, <1>1 DEF ReplayInv
  <2>4. PassInv'
    BY <2>1, <1>1, AroundKeepsPass DEF DeliveryTypes
  <2> QED
    BY <2>3, <2>4 DEF IInv
<1> QED
  BY <1>2, <1>3, <1>4 DEF Replayer

\* The API comes and goes with its database, and a post arrives after the client
\* has given it up.
LEMMA SurroundingsKeep == IInv /\ (Service \/ LateArrival) => IInv'
<1> SUFFICES ASSUME IInv, Service \/ LateArrival PROVE IInv'
  OBVIOUS
<1>1. PassInv /\ ReplayInv /\ DeliveryTypes
  BY DEF IInv, PassInv, PassTypes
<1>2. UNCHANGED <<pc, next, label, zoneCache, jsonl, poster, crashes, replay>>
  BY DEF Service, ApiStart, ApiStop, DbToggles, LateArrival
<1>3. CASE Service
  <2>1. db' = db /\ late' = late
    BY <1>3 DEF Service, ApiStart, ApiStop, DbToggles
  <2>2. api' \in [up : BOOLEAN, reachable : BOOLEAN, tables : BOOLEAN]
    <3>1. api \in [up : BOOLEAN, reachable : BOOLEAN, tables : BOOLEAN]
      BY <1>1 DEF DeliveryTypes
    <3>2. CASE ApiStart
      BY <3>1, <3>2, Zenon DEF ApiStart
    <3>3. CASE ApiStop
      BY <3>1, <3>3 DEF ApiStop
    <3>4. CASE DbToggles
      BY <3>1, <3>4 DEF DbToggles
    <3> QED
      BY <1>3, <3>2, <3>3, <3>4 DEF Service
  <2>3. PassInv'
    BY <2>1, <2>2, <1>1, <1>2, AroundKeepsPass DEF DeliveryTypes
  <2> QED
    BY <2>1, <2>3, <1>1, <1>2, AroundKeepsReplay DEF IInv
<1>4. CASE LateArrival
  <2>1. PICK events \in late : /\ late' = late \ {events}
                               /\ db' = db \cup events \/ db' = db
    BY <1>4 DEF LateArrival
  <2>2. db \subseteq db' /\ db' \subseteq Ids /\ late' \subseteq SUBSET Ids
    BY <2>1, <1>1 DEF DeliveryTypes
  <2>3. api' = api
    BY <1>4 DEF LateArrival
  <2>4. PassInv'
    BY <2>2, <2>3, <1>1, <1>2, AroundKeepsPass DEF DeliveryTypes
  <2> QED
    BY <2>2, <2>4, <1>1, <1>2, AroundKeepsReplay DEF IInv
<1> QED
  BY <1>3, <1>4

-------------------------------------------------------------------------------

\* At first nothing is made, and the replayer is off.
LEMMA InitHolds == Init => IInv
<1> SUFFICES ASSUME Init PROVE IInv
  OBVIOUS
<1>1. DeliveryTypes
  BY DeliveryAssumption DEF Init, DeliveryTypes
<1>2. posted \in 0..N /\ posted <= Cardinality(db)
  BY DeliveryAssumption, FS_EmptySet DEF Init
<1>3. ReplayInv
  BY DEF Init, ReplayInv
<1> QED
  BY <1>1, <1>2, <1>3 DEF Init, IInv, PassInv, PassTypes

\* The accounting says of each event where it is, and so that none is lost.
LEMMA LiveIsNotLost == PassInv => NothingLostSilently
<1> SUFFICES ASSUME PassInv, pc # "down"
             PROVE  /\ ToSet(jsonl) \subseteq db \cup OnTheWay \cup dropped
                    /\ OnTheWay \cup dropped \subseteq ToSet(jsonl)
  BY DEF NothingLostSilently
<1> DEFINE made == IF pc = "buffer" THEN next ELSE next - 1
           b == Len(batch)
           q == Len(buffer)
<1>1. /\ DeliveryTypes /\ b \in Nat /\ q \in Nat /\ next \in Nat \ {0}
      /\ Handled \in Nat /\ Accounted(Handled)
      /\ Pending(batch, Handled) /\ Pending(buffer, Handled + b)
  BY LiveParts DEF DeliveryTypes
<1>2. jsonl = [i \in 1..made |-> Event(i)] /\ made \in Nat
  BY <1>1 DEF PassInv, Live
<1>3. next - 1 = Handled + b + q
  BY <1>1 DEF Handled
<1>4. ToSet(jsonl) = {Event(i) : i \in 1..made}
  BY <1>2 DEF ToSet
<1>5. /\ ToSet(batch) = {batch[i] : i \in 1..b}
      /\ ToSet(buffer) = {buffer[i] : i \in 1..q}
  <2>1. batch \in Seq(Ids) /\ buffer \in Seq(Ids)
    BY <1>1 DEF DeliveryTypes
  <2>2. DOMAIN batch = 1..b /\ DOMAIN buffer = 1..q
    BY <2>1
  <2> QED
    BY <2>2 DEF ToSet
<1>6. /\ \A i \in 1..b : batch[i] = Event(Handled + i)
      /\ \A i \in 1..q : buffer[i] = Event(Handled + b + i)
  BY <1>1 DEF Pending
<1> HIDE DEF b, q, made
<1>7. ASSUME NEW i \in 1..made PROVE Event(i) \in db \cup OnTheWay \cup dropped
  <2>1. CASE i \in 1..Handled
    BY <2>1, <1>1 DEF Accounted
  <2>2. CASE i > Handled /\ i <= Handled + b
    <3>1. i - Handled \in 1..b /\ Handled + (i - Handled) = i
      BY <2>2, <1>1
    <3>2. Event(i) \in ToSet(batch)
      BY <3>1, <1>5, <1>6
    <3> QED
      BY <3>2 DEF OnTheWay
  <2>3. CASE i > Handled + b /\ i <= next - 1
    <3>1. i - (Handled + b) \in 1..q /\ (Handled + b) + (i - (Handled + b)) = i
      BY <2>3, <1>1, <1>3
    <3>2. Event(i) \in ToSet(buffer)
      BY <3>1, <1>5, <1>6
    <3> QED
      BY <3>2 DEF OnTheWay
  <2>4. CASE i > next - 1
    <3>1. pc = "buffer" /\ i = next
      BY <2>4, <1>1 DEF made
    <3> QED
      BY <3>1 DEF OnTheWay
  <2> QED
    BY <2>1, <2>2, <2>3, <2>4, <1>1, <1>2
<1>8. ASSUME NEW i \in 1..(next - 1) PROVE Event(i) \in ToSet(jsonl)
  <2>1. i \in 1..made
    BY <1>1 DEF made
  <2> QED
    BY <2>1, <1>4
<1>9. ToSet(batch) \cup ToSet(buffer) \cup dropped \subseteq ToSet(jsonl)
  <2>1. ASSUME NEW e \in ToSet(batch) PROVE e \in ToSet(jsonl)
    <3>1. PICK i \in 1..b : e = Event(Handled + i)
      BY <1>5, <1>6
    <3>2. Handled + i \in 1..(next - 1)
      BY <1>1, <1>3
    <3> QED
      BY <3>1, <3>2, <1>8
  <2>2. ASSUME NEW e \in ToSet(buffer) PROVE e \in ToSet(jsonl)
    <3>1. PICK i \in 1..q : e = Event(Handled + b + i)
      BY <1>5, <1>6
    <3>2. Handled + b + i \in 1..(next - 1)
      BY <1>1, <1>3
    <3> QED
      BY <3>1, <3>2, <1>8
  <2>3. ASSUME NEW e \in dropped PROVE e \in ToSet(jsonl)
    <3>1. PICK i \in 1..Handled : e = Event(i)
      BY <1>1 DEF Accounted
    <3>2. i \in 1..(next - 1)
      BY <1>1, <1>3
    <3> QED
      BY <3>1, <3>2, <1>8
  <2> QED
    BY <2>1, <2>2, <2>3
<1>10. pc = "buffer" => Event(next) \in ToSet(jsonl)
  BY <1>1, <1>4 DEF made
<1>11. ToSet(jsonl) \subseteq db \cup OnTheWay \cup dropped
  BY <1>4, <1>7
<1>12. OnTheWay \cup dropped \subseteq ToSet(jsonl)
  BY <1>9, <1>10 DEF OnTheWay
<1> QED
  BY <1>11, <1>12

\* The detector's own steps do not touch the replay, and take nothing from the store.
LEMMA DetectorKeepsReplay ==
  PassInv /\ ReplayInv /\ (Detector \/ Stop \/ Restart \/ Crash) => ReplayInv'
<1> SUFFICES ASSUME PassInv, ReplayInv, Detector \/ Stop \/ Restart \/ Crash PROVE ReplayInv'
  OBVIOUS
<1>1. replay' = replay
  BY DEF Detector, Boot, StartPass, WriteJsonl, WriteHttp, CameraEnd, Exit, PostOk, PostFailed,
         Stop, Restart, Crash
<1>2. db \subseteq db'
  BY DEF Detector, Boot, StartPass, WriteJsonl, WriteHttp, CameraEnd, Exit, PostOk, PostFailed,
         FailedPost, Stop, Restart, Crash
<1> QED
  BY <1>1, <1>2, AroundKeepsReplay

\* Every step keeps the invariant.
LEMMA StepKeeps == IInv /\ [Next]_vars => IInv'
<1> SUFFICES ASSUME IInv, [Next]_vars PROVE IInv'
  OBVIOUS
<1>1. PassInv /\ ReplayInv
  BY DEF IInv
<1>2. CASE Detector
  BY <1>1, <1>2, BootKeeps, StartKeeps, FileKeeps, BufferKeeps, CameraEndKeeps, ExitKeeps,
     PostOkKeeps, PostFailedKeeps, DetectorKeepsReplay DEF Detector, IInv
<1>3. CASE Stop \/ Restart \/ Crash
  BY <1>1, <1>3, StopKeeps, CrashKeeps, DetectorKeepsReplay DEF IInv
<1>4. CASE Service \/ LateArrival
  BY <1>4, SurroundingsKeep
<1>5. CASE Replayer
  BY <1>5, ReplayerKeeps
<1>6. CASE UNCHANGED vars
  <2>1. UNCHANGED <<pc, next, label, zoneCache, jsonl, poster, api, late, crashes, db, replay>>
    BY <1>6 DEF vars, environment
  <2>2. PassInv'
    BY <2>1, <1>1, AroundKeepsPass DEF PassInv, PassTypes, DeliveryTypes
  <2> QED
    BY <2>1, <2>2, <1>1, AroundKeepsReplay DEF IInv
<1> QED
  BY <1>2, <1>3, <1>4, <1>5, <1>6 DEF Next

\* The accounting holds at every moment: see IInv.
THEOREM EveryEventIsAccounted == Spec => []IInv
<1> QED
  BY InitHolds, StepKeeps, PTL DEF Spec

-------------------------------------------------------------------------------

\* behavior.jsonl holds the events of one pass, each once and in order, whatever
\* passes were cut short before; and the type invariant.
THEOREM FileHoldsOnePass == Spec => []FileIsOnePass
<1>1. IInv => FileIsOnePass
  <2> SUFFICES ASSUME IInv PROVE FileIsOnePass
    OBVIOUS
  <2>1. TypeOK
    BY DEF IInv, PassInv, PassTypes, DeliveryTypes, ReplayInv, TypeOK
  <2>2. ASSUME pc \notin {"down", "ready"}
        PROVE  jsonl = [i \in 1..(IF pc = "buffer" THEN next ELSE next - 1) |-> Event(i)]
    BY <2>2 DEF IInv, PassInv, Live
  <2> QED
    BY <2>1, <2>2 DEF FileIsOnePass
<1> QED
  BY <1>1, EveryEventIsAccounted, PTL

\* While the process lives, an event in the file is stored, on its way or dropped
\* with a warning, and what is on its way or dropped is in the file.
THEOREM NothingIsLost == Spec => []NothingLostSilently
<1>1. IInv => NothingLostSilently
  BY LiveIsNotLost DEF IInv
<1> QED
  BY <1>1, EveryEventIsAccounted, PTL

\* The number of posted events never exceeds what is stored, and with the dropped
\* ones it is all of a complete pass.
THEOREM PostedCounts == Spec => []PostedIsStored
<1>1. IInv => PostedIsStored
  <2> SUFFICES ASSUME IInv PROVE PostedIsStored
    OBVIOUS
  <2>1. ASSUME pc \in {"idle", "stopped"} PROVE posted + Cardinality(dropped) = N
    <3>1. Live /\ DeliveryTypes
      BY <2>1 DEF IInv, PassInv, PassTypes
    <3>2. next = N + 1 /\ Len(buffer) = 0 /\ Len(batch) = 0
      BY <2>1, <3>1 DEF Live
    <3>3. Handled = N
      BY <3>2, DeliveryAssumption DEF Handled
    <3> QED
      BY <3>1, <3>3 DEF Live, Accounted
  <2> QED
    BY <2>1 DEF IInv, PassInv, PostedIsStored
<1> QED
  BY <1>1, EveryEventIsAccounted, PTL

\* A replay that reports its totals has stored every event that it read.
THEOREM ReplayRestoresAll == Spec => []ReplayRestores
<1>1. IInv => ReplayRestores
  BY DEF IInv, ReplayInv, ReplayRestores
<1> QED
  BY <1>1, EveryEventIsAccounted, PTL

===============================================================================
