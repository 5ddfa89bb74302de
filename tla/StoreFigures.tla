----------------------------- MODULE StoreFigures -----------------------------
(***************************************************************************)
(* The figures that the API serves of one store, while events arrive in    *)
(* any order and the API is restarted over sales files that operators      *)
(* replace.  Every request computes from the tables (routers/stores.py     *)
(* _load), so the figures are functions of the state.                      *)
(*                                                                         *)
(* An event is [visitor, type, ts, zone, dwell, depth, staff].  A sales    *)
(* file is a sequence of line items [store, time, amount]; the time is the *)
(* text of the date and time columns.                                      *)
(***************************************************************************)
EXTENDS Analytics, Sequences

CONSTANTS
  Log,             \* the events that the detector may deliver of this store
  Files,           \* the contents that the sales file takes
  NoFile,          \* there is no sales file
  MatchingStores,  \* the store ids that the LIKE pattern of this store's id matches
  ParsedTime       \* [text of a time -> minutes], parse_pos_timestamp

ASSUME NoFileAssumption == NoFile \notin Files
\* A sales file is a sequence of line items; their amounts are in whole rupees.
ASSUME FilesAssumption ==
  \A f \in Files : /\ f \in Seq({f[i] : i \in DOMAIN f})
                   /\ \A i \in DOMAIN f : f[i].amount \in Int
\* Times and the depths of the queue are numbers, as the detector writes them.
ASSUME LogAssumption == \A e \in Log : {e.ts, e.depth} \subseteq Nat

VARIABLES
  events,   \* rows of behavior_events of this store
  file,     \* the sales file on disk
  table,    \* rows of the transactions table: [basket id -> [ts, amount, items]]
  up,       \* the API is serving
  loaded    \* history: the files that were loaded

vars == <<events, file, table, up, loaded>>

-------------------------------------------------------------------------------
(* The sales file *)

\* A line item whose date and time cannot be parsed is skipped.
Readable(f) == {i \in DOMAIN f : f[i].time \in DOMAIN ParsedTime}

\* The basket of a line item; order ids are of line items, not of baskets.
BasketId(item) == <<item.store, item.time>>

\* load_transactions: one basket for each store and time.
Baskets(f) ==
  [id \in {BasketId(f[i]) : i \in Readable(f)} |->
    LET items == {i \in Readable(f) : BasketId(f[i]) = id}
    IN [ts     |-> ParsedTime[id[2]],
        amount |-> SumFunction([i \in items |-> f[i].amount]),
        items  |-> Cardinality(items)]]

\* Mutant: a basket that is there is added to.
Upserted_Adds(rows) ==
  [id \in DOMAIN table \cup DOMAIN rows |->
    IF id \notin DOMAIN rows THEN table[id]
    ELSE IF id \notin DOMAIN table THEN rows[id]
    ELSE [rows[id] EXCEPT !.amount = @ + table[id].amount]]

\* upsert_transactions: the table after it; no row is ever deleted.
Upserted(rows) ==
  [id \in DOMAIN table \cup DOMAIN rows |->
    IF id \in DOMAIN rows THEN rows[id] ELSE table[id]]

\* fetch_transactions of the store.
Sales ==
  {[id |-> id, ts |-> table[id].ts, amount |-> table[id].amount] :
     id \in {b \in DOMAIN table : b[1] \in MatchingStores}}

-------------------------------------------------------------------------------

Init ==
  /\ events = {} /\ table = <<>> /\ up = FALSE /\ loaded = {}
  /\ file \in Files \cup {NoFile}

\* POST /events/ingest stores an event it did not have.
Deliver(e) ==
  /\ up /\ e \notin events
  /\ events' = events \cup {e}
  /\ UNCHANGED <<file, table, up, loaded>>

\* Operators put another sales file in place, or take it away.
Replace(f) ==
  /\ f # file
  /\ file' = f
  /\ UNCHANGED <<events, table, up, loaded>>

\* load_pos_into_db at startup, which then serves in any case.
Start ==
  /\ ~up /\ file # NoFile
  /\ up' = TRUE
  /\ table' = Upserted(Baskets(file))
  /\ loaded' = loaded \cup {file}
  /\ UNCHANGED <<events, file>>

\* There is no file, or the load failed and was rolled back.
StartWithoutSales ==
  /\ ~up
  /\ up' = TRUE
  /\ UNCHANGED <<events, file, table, loaded>>

Stop ==
  /\ up
  /\ up' = FALSE
  /\ UNCHANGED <<events, file, table, loaded>>

Next ==
  \/ \E e \in Log : Deliver(e)
  \/ \E f \in Files \cup {NoFile} : Replace(f)
  \/ Start
  \/ StartWithoutSales
  \/ Stop

Spec == Init /\ [][Next]_vars

-------------------------------------------------------------------------------
(* Properties *)

\* The figures of the endpoints fit together, whatever has arrived: the stages of
\* the funnel lie in each other and none drops below zero, the funnel and the
\* metrics count the same visitors, who was in the queue either converted or
\* abandoned, and no zone of the heatmap has more customers than the funnel has
\* zone visitors ("enforce the subset chain so the funnel is monotonic
\* regardless of event ordering/gaps", _stage_sets).
FiguresAgree ==
  LET stages  == StageSets(events, Sales)
      funnel  == Funnel(events, Sales)
      metrics == Metrics(events, Sales)
      heatmap == Heatmap(events)
  IN
  /\ \A i \in 2..4 : stages[i] \subseteq stages[i - 1] /\ funnel.drops[i] \in 0..1000
  /\ funnel.visitors[1] = metrics.unique
  /\ funnel.visitors[3] = metrics.converted + metrics.abandoned
  /\ funnel.visitors[4] = metrics.converted
  /\ funnel.rate = metrics.rate /\ metrics.rate <= 10000
  /\ DOMAIN metrics.dwell \subseteq DOMAIN heatmap
  /\ \A z \in DOMAIN heatmap :
       heatmap[z].visits <= funnel.visitors[2] /\ heatmap[z].score \in 0..1000
  /\ heatmap # <<>> => \E z \in DOMAIN heatmap : heatmap[z].score = 1000

\* "Staff movement: classify is_staff=true and exclude from customer metrics"
\* (EDGE_CASES.md): once one of its events is flagged, nothing that a visitor
\* ever did, before or after, shows in the funnel, the metrics or the heatmap.
StaffLeaveNoTrace ==
  LET others == {e \in events : e.visitor \notin StaffIds(events)}
  IN /\ Funnel(events, Sales) = Funnel(others, Sales)
     /\ Metrics(events, Sales) = Metrics(others, Sales)
     /\ Heatmap(events) = Heatmap(others)

\* A visitor who reached a stage of the funnel is not taken out of it by later
\* events, by sales that are loaded later, or by a restart, but only when it
\* turns out to be staff.
OnlyStaffFlagsTakeBack ==
  [][\A i \in 1..4 :
       StageSets(events, Sales)[i] \ StageSets(events, Sales)'[i]
         \subseteq StaffIds(events' \ events)]_vars

Alarms == {a \in Anomalies(events, Sales) : a.severity # "INFO"}

\* An alarm that was not there, and is not a lowered one.
Raised(a) ==
  /\ a \in Alarms' \ Alarms
  /\ ~\E b \in Alarms : b.type = a.type /\ b.zone = a.zone /\ b.severity = "CRITICAL"

\* An alarm is raised by what it tells of: a queue alarm by a customer who joins
\* the queue, a conversion alarm by a new visitor or one who turns out to be
\* staff, never by sales that are loaded, and a dead-zone alarm by an event, but
\* never by a customer who is in that zone now.
AlarmsHaveACause ==
  [][LET new == events' \ events IN
     \A a \in Alarms' :
       Raised(a) =>
         CASE a.type = "QUEUE_SPIKE" ->
                VisitorsOf({e \in new : e.type = "BILLING_QUEUE_JOIN"})
                  \cap Customers(events') # {}
           [] a.type = "CONVERSION_DROP" ->
                \E e \in new : e.staff \/ e.visitor \notin VisitorsOf(events)
           [] a.type = "DEAD_ZONE" ->
                /\ new # {}
                /\ \A e \in new : ~(e.zone = a.zone /\ e.ts = Latest(events')
                                      /\ e \in Placed(ZoneEvents(events')))]_vars

\* Whatever number of restarts load it, and with how many failures between, a
\* sales file counts once ("idempotent, upsert by order id", pos_ingest.py): the
\* takings are the sum of its readable line items.
TakingsCountOnce ==
  \A f \in Files :
    loaded = {f} =>
      LET mine == {i \in Readable(f) : f[i].store \in MatchingStores}
      IN /\ Metrics(events, Sales).day.gmv = SumFunction([i \in mine |-> f[i].amount])
         /\ Metrics(events, Sales).day.transactions
              = Cardinality({<<f[i].store, f[i].time>> : i \in mine})

===============================================================================
