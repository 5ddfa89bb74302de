------------------------------ MODULE Analytics ------------------------------
(***************************************************************************)
(* What the API computes from the stored events and baskets of one store   *)
(* (common/analytics.py, common/conversion.py): pure functions of a set E  *)
(* of events and a set T of baskets.  A ratio is a whole number of the     *)
(* last digit that the code rounds it to.  Times and durations are in      *)
(* minutes, times from some midnight of the store.                         *)
(***************************************************************************)
EXTENDS Integers, FiniteSets, FiniteSetsExt, Functions

CONSTANTS
  Window,          \* pos_correlation_window_ms
  LowSample,       \* conversion_low_sample_threshold
  QueueWarn,       \* anomaly_queue_depth_warn
  QueueCritical,   \* anomaly_queue_depth_critical
  DropThreshold,   \* anomaly_conversion_baseline * (1 - drop_pct), in 1/10000
  Horizon,         \* anomaly_dead_zone_minutes
  OpenHour,        \* store_open_hour
  CloseHour,       \* store_close_hour
  StoreCameras,    \* the cameras of the store: [zone, customerArea, entrance]
  NoZone           \* the zone of an event without one

ASSUME AnalyticsAssumption ==
  {Window, LowSample, QueueWarn, QueueCritical, DropThreshold, Horizon, OpenHour, CloseHour}
    \subseteq Nat

ZoneTypes == {"ZONE_ENTER", "ZONE_DWELL", "ZONE_EXIT"}

\* round(n / d): the nearest whole number, the even one of two.
Rounded(n, d) ==
  LET whole == n \div d
      rest  == 2 * (n % d)
  IN IF rest > d \/ (rest = d /\ whole % 2 = 1) THEN whole + 1 ELSE whole

-------------------------------------------------------------------------------
(* Who counts *)

VisitorsOf(E) == {e.visitor : e \in E}

\* One flagged event makes a visitor staff.
StaffIds(E) == VisitorsOf({e \in E : e.staff})

Customers(E) == VisitorsOf(E) \ StaffIds(E)

\* Mutant: staff who stand at the checkout are in the queue.
Presences_AnyVisitor(E) == {e \in E : e.type = "BILLING_QUEUE_JOIN"}

Presences(E) == {e \in E : e.type = "BILLING_QUEUE_JOIN" /\ e.visitor \in Customers(E)}

ZoneEvents(E) == {e \in E : e.type \in ZoneTypes /\ e.visitor \in Customers(E)}

-------------------------------------------------------------------------------
(* Conversion: of the customers C with the presences P *)

\* Mutant: only the latest sale of the store is looked at.
Converted_LastSale(P, T) ==
  VisitorsOf({p \in P : \E t \in T : /\ t.ts >= p.ts /\ t.ts - p.ts <= Window
                                   /\ \A u \in T : u.ts <= t.ts})

\* Who was at the checkout at most the window before a sale.
Converted(P, T) == VisitorsOf({p \in P : \E t \in T : t.ts >= p.ts /\ t.ts - p.ts <= Window})

Abandoned(P, T) == VisitorsOf(P) \ Converted(P, T)

ConversionRate(C, P, T) ==
  IF C = {} THEN 0 ELSE Rounded(10000 * Cardinality(Converted(P, T)), Cardinality(C))

Confidence(C) == IF Cardinality(C) < LowSample THEN "low" ELSE "ok"

-------------------------------------------------------------------------------
(* GET /stores/{id}/funnel: V are the zone events of the customers *)

\* Entry, zone visit, billing queue, purchase: each joined to the later ones.
StagesOf(C, V, P, T) ==
  LET purchase == Converted(P, T)
      billing  == VisitorsOf(P) \cup purchase
      zone     == VisitorsOf(V) \cup billing
      entry    == C \cup zone
  IN <<entry, zone, billing, purchase>>

StageSets(E, T) == StagesOf(Customers(E), ZoneEvents(E), Presences(E), T)

\* The drop from the stage before, in tenths of a per cent.
DropOff(prev, count) == IF prev > 0 THEN Rounded(1000 * (prev - count), prev) ELSE 0

FunnelOf(C, V, P, T) ==
  LET count == [i \in 1..4 |-> Cardinality(StagesOf(C, V, P, T)[i])]
  IN [visitors   |-> count,
      drops      |-> [i \in 2..4 |-> DropOff(count[i - 1], count[i])],
      rate       |-> ConversionRate(C, P, T),
      confidence |-> Confidence(C)]

Funnel(E, T) == FunnelOf(Customers(E), ZoneEvents(E), Presences(E), T)

-------------------------------------------------------------------------------
(* GET /stores/{id}/metrics *)

\* _is_customer_zone_event: the ones that name a zone.
Placed(V) == {e \in V : e.zone # NoZone}

ZoneExits(V) == {e \in Placed(V) : e.type = "ZONE_EXIT"}

\* The mean of the visits to each zone, in tenths.
AvgDwell(V) ==
  [z \in {e.zone : e \in ZoneExits(V)} |->
    LET exits == {e \in ZoneExits(V) : e.zone = z}
    IN Rounded(10 * SumFunction([e \in exits |-> e.dwell]), Cardinality(exits))]

\* Mutant: the depth that staff found at the checkout counts.
MaxQueueDepth_AnyVisitor(E) ==
  Max({0} \cup {e.depth : e \in {f \in E : f.type = "BILLING_QUEUE_JOIN"}})

\* A join without a depth has depth 0 here.
MaxQueueDepth(E) == Max({0} \cup {p.depth : p \in Presences(E)})

\* pos_day_metrics without its labels: the takings of the store.
DayFigures(T) ==
  [transactions |-> Cardinality(T), gmv |-> SumFunction([t \in T |-> t.amount])]

\* compute_store_metrics.
MetricsOf(C, V, P, queue, T) ==
  [unique       |-> Cardinality(C),
   rate         |-> ConversionRate(C, P, T),
   confidence   |-> Confidence(C),
   converted    |-> Cardinality(Converted(P, T)),
   abandoned    |-> Cardinality(Abandoned(P, T)),
   abandonment  |-> IF P = {} THEN 0
                    ELSE Rounded(10000 * Cardinality(Abandoned(P, T)), Cardinality(VisitorsOf(P))),
   dwell        |-> AvgDwell(V),
   queue        |-> queue,
   day          |-> DayFigures(T)]

Metrics(E, T) ==
  MetricsOf(Customers(E), ZoneEvents(E), Presences(E), MaxQueueDepth(E), T)

-------------------------------------------------------------------------------
(* GET /stores/{id}/heatmap *)

HeatmapOf(V) ==
  LET zones   == {e.zone : e \in Placed(V)}
      visits  == [z \in zones |-> Cardinality(VisitorsOf({e \in Placed(V) : e.zone = z}))]
      busiest == Max({0} \cup {visits[z] : z \in zones})
      dwell   == AvgDwell(V)
  IN [z \in zones |->
       [visits |-> visits[z],
        dwell  |-> IF z \in DOMAIN dwell THEN dwell[z] ELSE 0,
        score  |-> Rounded(1000 * visits[z], busiest)]]

Heatmap(E) == HeatmapOf(ZoneEvents(E))

-------------------------------------------------------------------------------
(* GET /stores/{id}/anomalies *)

Alert(type, severity, zone) == [type |-> type, severity |-> severity, zone |-> zone]

QueueAlerts(E) ==
  IF MaxQueueDepth(E) >= QueueCritical THEN {Alert("QUEUE_SPIKE", "CRITICAL", NoZone)}
  ELSE IF MaxQueueDepth(E) >= QueueWarn THEN {Alert("QUEUE_SPIKE", "WARN", NoZone)}
  ELSE {}

ConversionAlerts(E, T) ==
  LET rate == ConversionRate(Customers(E), Presences(E), T) IN
  IF Confidence(Customers(E)) = "low" THEN {Alert("CONVERSION_DROP", "INFO", NoZone)}
  ELSE IF rate > DropThreshold THEN {}
  ELSE IF rate = 0 THEN {Alert("CONVERSION_DROP", "CRITICAL", NoZone)}
  ELSE {Alert("CONVERSION_DROP", "WARN", NoZone)}

Times(E)  == {e.ts : e \in E}
Latest(E) == Max(Times(E))
Span(E)   == Latest(E) - Min(Times(E))

OpenAt(ts) == LET hour == (ts \div 60) % 24 IN OpenHour <= hour /\ hour < CloseHour

\* The zones that a camera watches, but not the entrance and the stockroom.
Monitored == {c.zone : c \in {d \in StoreCameras : d.customerArea /\ ~d.entrance}}

\* Mutant: a customer is in a zone only at the moment of entering it.
LastVisits_Entered(E, z) ==
  {e.ts : e \in {f \in Placed(ZoneEvents(E)) : f.zone = z /\ f.type = "ZONE_ENTER"}}

LastVisits(E, z) == {e.ts : e \in {f \in Placed(ZoneEvents(E)) : f.zone = z}}

\* A monitored zone without a customer for longer than the horizon, as seen from
\* the latest event, which may be anybody's.
DeadZones(E) == {z \in Monitored : \A ts \in LastVisits(E, z) : Latest(E) - ts > Horizon}

DeadZoneAlerts(E) ==
  IF E = {} THEN {}
  ELSE IF Span(E) < Horizon THEN {Alert("DEAD_ZONE", "INFO", NoZone)}
  ELSE IF OpenAt(Latest(E)) THEN {Alert("DEAD_ZONE", "WARN", z) : z \in DeadZones(E)}
  ELSE {}

Anomalies(E, T) == QueueAlerts(E) \cup ConversionAlerts(E, T) \cup DeadZoneAlerts(E)

===============================================================================
