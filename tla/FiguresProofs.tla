----------------------------- MODULE FiguresProofs -----------------------------
(***************************************************************************)
(* Proofs about the figures of a store, for any events, sales files and    *)
(* settings.                                                               *)
(***************************************************************************)
EXTENDS StoreFigures, FiniteSetTheorems, FunctionTheorems, SequenceTheorems,
        WellFoundedInduction, TLAPS

-------------------------------------------------------------------------------
(* The customers of a log *)

Others(E) == {e \in E : e.visitor \notin StaffIds(E)}

\* Without the events of staff there is no staff, and the customers, their zone
\* visits and their time at the checkout are what they were.
LEMMA OthersAreCustomers ==
  ASSUME NEW E
  PROVE  /\ Customers(Others(E)) = Customers(E)
         /\ ZoneEvents(Others(E)) = ZoneEvents(E)
         /\ Presences(Others(E)) = Presences(E)
<1>1. StaffIds(Others(E)) = {}
  BY DEF Others, StaffIds, VisitorsOf
<1>2. Customers(Others(E)) = Customers(E)
  BY <1>1 DEF Customers, Others, VisitorsOf
<1>3. \A e \in E : e.visitor \in Customers(E) <=> e \in Others(E)
  BY DEF Customers, Others, VisitorsOf
<1>4. Others(E) \subseteq E
  BY DEF Others
<1> QED
  BY <1>2, <1>3, <1>4 DEF ZoneEvents, Presences

\* StaffLeaveNoTrace holds of every set of events and sales, and so in every
\* state: what staff do changes no figure of the funnel, metrics or heatmap.
THEOREM StaffNeverShow == Spec => []StaffLeaveNoTrace
<1>1. StaffLeaveNoTrace
  <2>1. {e \in events : e.visitor \notin StaffIds(events)} = Others(events)
    BY DEF Others
  <2>2. MaxQueueDepth(Others(events)) = MaxQueueDepth(events)
    BY OthersAreCustomers DEF MaxQueueDepth
  <2>3. Funnel(events, Sales) = Funnel(Others(events), Sales)
    BY OthersAreCustomers DEF Funnel
  <2>4. Metrics(events, Sales) = Metrics(Others(events), Sales)
    BY OthersAreCustomers, <2>2 DEF Metrics
  <2>5. Heatmap(events) = Heatmap(Others(events))
    BY OthersAreCustomers DEF Heatmap
  <2> QED
    BY <2>1, <2>3, <2>4, <2>5 DEF StaffLeaveNoTrace
<1> QED
  BY <1>1, PTL

-------------------------------------------------------------------------------
(* What is not taken back *)

\* The time of a basket is the one that its id names, so that loading another
\* file does not move it.
TableInv == \A id \in DOMAIN table : table[id].ts = ParsedTime[id[2]]

\* A basket of a file has the time of its id.
LEMMA BasketTimes ==
  ASSUME NEW f, NEW id \in DOMAIN Baskets(f)
  PROVE  Baskets(f)[id].ts = ParsedTime[id[2]]
  BY DEF Baskets

\* TableInv is inductive: rows are replaced by rows of the same time.
LEMMA TableStep ==
  ASSUME TableInv, [Next]_vars
  PROVE  TableInv'
<1>1. CASE Start
  <2>1. table' = Upserted(Baskets(file))
    BY <1>1 DEF Start
  <2>2. ASSUME NEW id \in DOMAIN table' PROVE table'[id].ts = ParsedTime[id[2]]
    <3>1. CASE id \in DOMAIN Baskets(file)
      BY <2>1, <2>2, <3>1, BasketTimes DEF Upserted
    <3>2. CASE id \notin DOMAIN Baskets(file)
      BY <2>1, <2>2, <3>2 DEF Upserted, TableInv
    <3> QED
      BY <3>1, <3>2
  <2> QED
    BY <2>2 DEF TableInv
<1>2. CASE UNCHANGED table
  BY <1>2 DEF TableInv
<1> QED
  BY <1>1, <1>2 DEF Next, Deliver, Replace, StartWithoutSales, Stop, vars

\* Sales are only added, as far as their times go.
LEMMA SalesStay ==
  ASSUME TableInv, [Next]_vars, NEW t \in Sales
  PROVE  \E u \in Sales' : u.ts = t.ts
<1>1. PICK id \in DOMAIN table : id[1] \in MatchingStores /\ t.ts = table[id].ts
  BY DEF Sales
<1>2. id \in DOMAIN table'
  BY <1>1 DEF Next, Deliver, Replace, Start, StartWithoutSales, Stop, vars, Upserted
<1>3. table'[id].ts = table[id].ts
  BY <1>1, <1>2, TableStep DEF TableInv
<1> DEFINE u == [id |-> id, ts |-> table'[id].ts, amount |-> table'[id].amount]
<1>4. u \in Sales'
  BY <1>1, <1>2 DEF Sales
<1> QED
  BY <1>1, <1>3, <1>4

\* No step takes an event away.
LEMMA EventsStay ==
  ASSUME [Next]_vars
  PROVE  events \subseteq events'
  BY DEF Next, Deliver, Replace, Start, StartWithoutSales, Stop, vars

\* The customers of a longer log, but for the visitors that the new events flag.
LEMMA CustomersStay ==
  ASSUME NEW E, NEW F, E \subseteq F, NEW v \in Customers(E), v \notin StaffIds(F \ E)
  PROVE  v \in Customers(F)
  BY DEF Customers, StaffIds, VisitorsOf

\* More events and more sales take a visitor out of a stage only as staff.
LEMMA StagesGrow ==
  ASSUME NEW E, NEW F, E \subseteq F,
         NEW T, NEW U, \A t \in T : \E u \in U : u.ts = t.ts,
         NEW i \in 1..4
  PROVE  StageSets(E, T)[i] \ StageSets(F, U)[i] \subseteq StaffIds(F \ E)
<1> SUFFICES ASSUME NEW v, v \notin StaffIds(F \ E), v \in StageSets(E, T)[i]
             PROVE  v \in StageSets(F, U)[i]
  OBVIOUS
<1>1. v \in VisitorsOf(ZoneEvents(E)) => v \in VisitorsOf(ZoneEvents(F))
  BY CustomersStay DEF ZoneEvents, VisitorsOf
<1>2. \A p \in Presences(E) : p.visitor = v => p \in Presences(F)
  BY CustomersStay DEF Presences
<1>3. v \in VisitorsOf(Presences(E)) => v \in VisitorsOf(Presences(F))
  BY <1>2 DEF VisitorsOf
<1>4. v \in Converted(Presences(E), T) => v \in Converted(Presences(F), U)
  BY <1>2 DEF Converted, VisitorsOf
<1>5. v \in Customers(E) => v \in Customers(F)
  BY CustomersStay
<1>6. CASE i = 1
  BY <1>1, <1>3, <1>4, <1>5, <1>6 DEF StageSets, StagesOf
<1>7. CASE i = 2
  BY <1>1, <1>3, <1>4, <1>7 DEF StageSets, StagesOf
<1>8. CASE i = 3
  BY <1>3, <1>4, <1>8 DEF StageSets, StagesOf
<1>9. CASE i = 4
  BY <1>4, <1>9 DEF StageSets, StagesOf
<1> QED
  BY <1>6, <1>7, <1>8, <1>9

\* OnlyStaffFlagsTakeBack: whoever is counted in a stage of the funnel stays
\* counted, through new events, other sales files and restarts, unless an event
\* flags the visitor as staff.
THEOREM StagesAreKept == Spec => OnlyStaffFlagsTakeBack
<1>1. Init => TableInv
  BY DEF Init, TableInv
<1>2. TableInv /\ [Next]_vars => TableInv'
  BY TableStep
<1>3. TableInv /\ [Next]_vars =>
        \A i \in 1..4 :
          StageSets(events, Sales)[i] \ StageSets(events, Sales)'[i]
            \subseteq StaffIds(events' \ events)
  <2> SUFFICES ASSUME TableInv, [Next]_vars, NEW i \in 1..4
               PROVE  StageSets(events, Sales)[i] \ StageSets(events', Sales')[i]
                        \subseteq StaffIds(events' \ events)
    OBVIOUS
  <2> QED
    BY EventsStay, SalesStay, StagesGrow
<1> QED
  BY <1>1, <1>2, <1>3, PTL DEF Spec, OnlyStaffFlagsTakeBack

-------------------------------------------------------------------------------
(* The endpoints agree *)

\* The funnel narrows, it starts with the unique visitors of the metrics and ends
\* with the converted ones, and its queue is the converted and the abandoned:
\* what FiguresAgree says of the people, for any events and sales.
FunnelIsOfTheMetrics ==
  LET stages  == StageSets(events, Sales)
      funnel  == Funnel(events, Sales)
      metrics == Metrics(events, Sales)
      queue   == Presences(events)
  IN
  /\ \A i \in 2..4 : stages[i] \subseteq stages[i - 1]
  /\ funnel.visitors[1] = metrics.unique
  /\ stages[3] = Converted(queue, Sales) \cup Abandoned(queue, Sales)
  /\ funnel.visitors[4] = metrics.converted
  /\ funnel.rate = metrics.rate /\ funnel.confidence = metrics.confidence

\* Zone visits and presences are of customers, and only they convert.
LEMMA OnlyCustomersCount ==
  ASSUME NEW E, NEW T
  PROVE  /\ VisitorsOf(ZoneEvents(E)) \subseteq Customers(E)
         /\ VisitorsOf(Presences(E)) \subseteq Customers(E)
         /\ Converted(Presences(E), T) \subseteq VisitorsOf(Presences(E))
  BY DEF VisitorsOf, ZoneEvents, Presences, Converted

\* The funnel and the metrics of one moment are of the same people.
THEOREM EndpointsAgree == Spec => []FunnelIsOfTheMetrics
<1>1. FunnelIsOfTheMetrics
  <2> DEFINE stages == StageSets(events, Sales)
  <2> DEFINE queue == Presences(events)
  <2>1. \A i \in 2..4 : stages[i] \subseteq stages[i - 1]
    <3> SUFFICES ASSUME NEW i \in 2..4 PROVE stages[i] \subseteq stages[i - 1]
      OBVIOUS
    <3>1. i = 2 \/ i = 3 \/ i = 4
      OBVIOUS
    <3> QED
      BY <3>1 DEF StageSets, StagesOf
  <2>2. stages[1] = Customers(events)
    BY OnlyCustomersCount DEF StageSets, StagesOf
  <2>3. stages[3] = Converted(queue, Sales) \cup Abandoned(queue, Sales)
    BY OnlyCustomersCount DEF StageSets, StagesOf, Abandoned
  <2>4. stages[4] = Converted(queue, Sales)
    BY DEF StageSets, StagesOf
  <2>5. \A i \in 1..4 : Funnel(events, Sales).visitors[i] = Cardinality(stages[i])
    BY DEF Funnel, FunnelOf, StageSets
  <2>6. /\ Metrics(events, Sales).unique = Cardinality(Customers(events))
        /\ Metrics(events, Sales).converted = Cardinality(Converted(queue, Sales))
    BY DEF Metrics, MetricsOf
  <2>7. /\ Funnel(events, Sales).rate = Metrics(events, Sales).rate
        /\ Funnel(events, Sales).confidence = Metrics(events, Sales).confidence
    BY DEF Funnel, FunnelOf, Metrics, MetricsOf
  <2> QED
    BY <2>1, <2>2, <2>3, <2>4, <2>5, <2>6, <2>7 DEF FunnelIsOfTheMetrics
<1> QED
  BY <1>1, PTL

-------------------------------------------------------------------------------
(* Numbers *)

\* n is at most k times d.
AtMost(n, d, k) == n <= k * d

\* A rounded ratio is no larger than a whole number that the ratio does not exceed.
LEMMA RoundedBelow ==
  ASSUME NEW n \in Nat, NEW d \in Nat \ {0}, NEW k \in Nat, AtMost(n, d, k)
  PROVE  Rounded(n, d) \in 0..k
<1> DEFINE whole == n \div d
           rest == n % d
<1>0. n <= k * d
  BY DEF AtMost
<1>1. /\ whole \in Int /\ rest \in 0..(d - 1) /\ n = d * whole + rest
  BY SMTT(30)
<1>2. Rounded(n, d) = IF 2 * rest > d \/ (2 * rest = d /\ whole % 2 = 1) THEN whole + 1 ELSE whole
  BY DEF Rounded
<1> HIDE DEF whole, rest
<1>3. whole >= 0
  <2> SUFFICES ASSUME whole <= -1 PROVE FALSE
    BY <1>1
  <2>1. d * whole <= d * (-1)
    BY <1>1, SMTT(30)
  <2> QED
    BY <2>1, <1>1, SMTT(30)
<1>4. CASE whole <= k - 1
  BY <1>1, <1>2, <1>3, <1>4
<1>5. CASE whole >= k
  <2>1. d * whole >= d * k /\ d * k = k * d
    BY <1>1, <1>5, SMTT(30)
  <2>2. d * whole \in Int /\ d * k \in Int
    BY <1>1
  <2>3. rest = 0 /\ d * whole = d * k
    BY <1>0, <1>1, <2>1, <2>2
  <2>4. whole = k
    BY <2>3, <1>1, SMTT(30)
  <2> QED
    BY <2>3, <2>4, <1>2, <1>3
<1> QED
  BY <1>1, <1>4, <1>5

\* A part that is the whole is rounded to the whole.
LEMMA RoundedWhole ==
  ASSUME NEW d \in Nat \ {0}, NEW k \in Nat
  PROVE  Rounded(k * d, d) = k
<1> DEFINE n == k * d
           whole == n \div d
           rest == n % d
<1>1. n \in Nat
  BY SMTT(30)
<1>2. whole \in Int /\ rest \in 0..(d - 1) /\ n = d * whole + rest
  BY <1>1, SMTT(30)
<1>3. Rounded(n, d) = IF 2 * rest > d \/ (2 * rest = d /\ whole % 2 = 1) THEN whole + 1 ELSE whole
  BY DEF Rounded
<1> HIDE DEF whole, rest
<1>4. k * d = d * whole + rest
  BY <1>2
<1>5. whole = k
  <2>1. ASSUME whole <= k - 1 PROVE FALSE
    <3>1. d * whole <= d * (k - 1) /\ d * (k - 1) = d * k - d /\ d * k = k * d
      BY <2>1, <1>2, SMTT(30)
    <3>2. d * whole \in Int /\ d * (k - 1) \in Int /\ d * k \in Int
      BY <1>2
    <3> QED
      BY <3>1, <3>2, <1>2, <1>4
  <2>2. ASSUME whole >= k + 1 PROVE FALSE
    <3>1. d * whole >= d * (k + 1) /\ d * (k + 1) = d * k + d /\ d * k = k * d
      BY <2>2, <1>2, SMTT(30)
    <3>2. d * whole \in Int /\ d * (k + 1) \in Int /\ d * k \in Int
      BY <1>2
    <3> QED
      BY <3>1, <3>2, <1>2, <1>4
  <2> QED
    BY <2>1, <2>2, <1>2
<1>6. rest = 0
  BY <1>2, <1>4, <1>5, SMTT(30)
<1> QED
  BY <1>3, <1>5, <1>6

\* A finite set of numbers has a greatest one: a member with the fewest above it.
LEMMA GreatestIn ==
  ASSUME NEW S \in SUBSET Nat, IsFiniteSet(S), S # {}
  PROVE  Max(S) \in S /\ \A y \in S : Max(S) >= y
<1> DEFINE Above(x) == {y \in S : y > x}
           Counts == {Cardinality(Above(x)) : x \in S}
<1>1. ASSUME NEW x \in S
      PROVE  IsFiniteSet(Above(x)) /\ Cardinality(Above(x)) \in Nat
  <2>1. IsFiniteSet(Above(x))
    BY FS_Subset
  <2> QED
    BY <2>1, FS_CardinalityType
<1>2. Counts \subseteq Nat /\ Counts # {}
  BY <1>1
<1>3. PICK c \in Counts : \A b \in Counts : ~(<<b, c>> \in OpToRel(<, Nat))
  BY <1>2, NatLessThanWellFounded, WFMin
<1>4. PICK x \in S : c = Cardinality(Above(x))
  BY <1>3
<1>5. ASSUME NEW y \in S PROVE x >= y
  <2> SUFFICES ASSUME y > x PROVE FALSE
    OBVIOUS
  <2>0. (\A z \in S : z > y => z > x) /\ ~(y > y)
    OBVIOUS
  <2>1. Above(y) \in SUBSET Above(x) /\ y \in Above(x) /\ y \notin Above(y)
    <3>1. Above(y) \in SUBSET Above(x)
      BY <2>0
    <3>2. y \in Above(x)
      OBVIOUS
    <3>3. y \notin Above(y)
      BY <2>0
    <3> QED
      BY <3>1, <3>2, <3>3
  <2>2. Cardinality(Above(y)) <= Cardinality(Above(x)) /\ Cardinality(Above(y)) # Cardinality(Above(x))
    <3> HIDE DEF Above
    <3> QED
      BY <2>1, <1>1, FS_Subset
  <2> DEFINE b == Cardinality(Above(y))
  <2>3. b \in Counts
    OBVIOUS
  <2>4. b \in Nat /\ c \in Nat /\ b < c
    <3> HIDE DEF Above
    <3> QED
      BY <2>2, <1>1, <1>4
  <2> HIDE DEF b
  <2>5. <<b, c>> \in OpToRel(<, Nat)
    BY <2>4 DEF OpToRel
  <2> QED
    BY <2>3, <2>5, <1>3
<1> QED
  BY <1>5 DEF Max

\* The image of a finite set.
LEMMA FiniteImage ==
  ASSUME NEW S, IsFiniteSet(S), NEW f, DOMAIN f = S, f = [x \in S |-> f[x]]
  PROVE  /\ IsFiniteSet({f[x] : x \in S})
         /\ Cardinality({f[x] : x \in S}) \in Nat
<1> DEFINE T == {f[x] : x \in S}
<1>1. f \in Surjection(S, T)
  <2>1. f \in [S -> T]
    OBVIOUS
  <2>2. \A y \in T : \E x \in S : f[x] = y
    OBVIOUS
  <2> QED
    BY <2>1, <2>2, Fun_IsSurj
<1> HIDE DEF T
<1>2. IsFiniteSet(T)
  BY <1>1, FS_Surjection
<1> QED
  BY <1>2, FS_CardinalityType DEF T

-------------------------------------------------------------------------------
(* The figures agree *)

\* The visitors of finitely many events.
LEMMA FewVisitors ==
  ASSUME NEW E, IsFiniteSet(E), NEW F \in SUBSET E
  PROVE  /\ IsFiniteSet(VisitorsOf(F)) /\ Cardinality(VisitorsOf(F)) \in Nat
         /\ VisitorsOf(F) \subseteq VisitorsOf(E)
<1>1. IsFiniteSet(F)
  BY FS_Subset
<1> DEFINE f == [e \in F |-> e.visitor]
<1>2. DOMAIN f = F /\ f = [e \in F |-> f[e]] /\ VisitorsOf(F) = {f[e] : e \in F}
  BY DEF VisitorsOf
<1> HIDE DEF f
<1>3. IsFiniteSet(VisitorsOf(F)) /\ Cardinality(VisitorsOf(F)) \in Nat
  BY <1>1, <1>2, FiniteImage
<1> QED
  BY <1>3 DEF VisitorsOf

\* A part of a finite set is no larger.
LEMMA FewerInPart ==
  ASSUME NEW S, IsFiniteSet(S), NEW T, T \subseteq S
  PROVE  IsFiniteSet(T) /\ Cardinality(T) \in Nat /\ Cardinality(S) \in Nat /\ Cardinality(T) <= Cardinality(S)
<1>1. T \in SUBSET S
  OBVIOUS
<1>2. IsFiniteSet(T) /\ Cardinality(T) <= Cardinality(S)
  BY <1>1, FS_Subset
<1> QED
  BY <1>2, FS_CardinalityType

\* The stages of the funnel, finite and each in the one before.
LEMMA StagesAre ==
  ASSUME NEW E, IsFiniteSet(E), NEW T
  PROVE  LET stages == StageSets(E, T) IN
         /\ stages[1] = Customers(E)
         /\ stages[2] = VisitorsOf(ZoneEvents(E)) \cup VisitorsOf(Presences(E))
         /\ stages[3] = VisitorsOf(Presences(E))
         /\ stages[4] = Converted(Presences(E), T)
         /\ \A i \in 2..4 : stages[i] \subseteq stages[i - 1]
         /\ \A i \in 1..4 : IsFiniteSet(stages[i]) /\ Cardinality(stages[i]) \in Nat
<1> DEFINE stages == StageSets(E, T)
<1>1. /\ stages[1] = Customers(E)
      /\ stages[2] = VisitorsOf(ZoneEvents(E)) \cup VisitorsOf(Presences(E))
      /\ stages[3] = VisitorsOf(Presences(E))
      /\ stages[4] = Converted(Presences(E), T)
  BY OnlyCustomersCount DEF StageSets, StagesOf
<1>2. \A i \in 1..4 : stages[i] \subseteq Customers(E)
  <2> SUFFICES ASSUME NEW i \in 1..4 PROVE stages[i] \subseteq Customers(E)
    OBVIOUS
  <2>1. i = 1 \/ i = 2 \/ i = 3 \/ i = 4
    OBVIOUS
  <2> HIDE DEF stages
  <2> QED
    BY <2>1, <1>1, OnlyCustomersCount
<1>3. \A i \in 2..4 : stages[i] \subseteq stages[i - 1]
  <2> SUFFICES ASSUME NEW i \in 2..4 PROVE stages[i] \subseteq stages[i - 1]
    OBVIOUS
  <2>1. i = 2 \/ i = 3 \/ i = 4
    OBVIOUS
  <2> HIDE DEF stages
  <2> QED
    BY <2>1, <1>1, OnlyCustomersCount
<1>4. IsFiniteSet(Customers(E))
  <2>1. IsFiniteSet(VisitorsOf(E)) /\ Customers(E) \subseteq VisitorsOf(E)
    BY FewVisitors DEF Customers
  <2> QED
    BY <2>1, FewerInPart
<1> HIDE DEF stages
<1>5. \A i \in 1..4 : IsFiniteSet(stages[i]) /\ Cardinality(stages[i]) \in Nat
  BY <1>2, <1>4, FewerInPart
<1> QED
  BY <1>1, <1>3, <1>5 DEF stages

\* A stage loses at most all of the one before.
LEMMA DropsAreShares ==
  ASSUME NEW prev \in Nat, NEW count \in Nat, count <= prev
  PROVE  DropOff(prev, count) \in 0..1000
<1>1. CASE prev = 0
  BY <1>1 DEF DropOff
<1>2. CASE prev > 0
  <2>1. prev - count \in Nat /\ prev \in Nat \ {0} /\ prev - count <= prev
    BY <1>2
  <2> DEFINE lost == 1000 * (prev - count)
  <2>2. AtMost(lost, prev, 1000) /\ lost \in Nat
    BY <2>1 DEF AtMost
  <2>3. DropOff(prev, count) = Rounded(lost, prev)
    BY <1>2 DEF DropOff
  <2> HIDE DEF lost
  <2>4. Rounded(lost, prev) \in 0..1000
    <3> DEFINE k == 1000
    <3>1. k \in Nat /\ AtMost(lost, prev, k)
      BY <2>2
    <3> HIDE DEF k
    <3>2. Rounded(lost, prev) \in 0..k
      BY <3>1, <2>1, <2>2, RoundedBelow
    <3> QED
      BY <3>2 DEF k
  <2> QED
    BY <2>3, <2>4
<1> QED
  BY <1>1, <1>2

\* At most all customers convert.
LEMMA RateIsShare ==
  ASSUME NEW C, IsFiniteSet(C), NEW P, NEW T, Converted(P, T) \subseteq C
  PROVE  ConversionRate(C, P, T) <= 10000
<1>1. CASE C = {}
  BY <1>1 DEF ConversionRate
<1>2. CASE C # {}
  <2> DEFINE n == Cardinality(Converted(P, T))
             d == Cardinality(C)
             scaled == 10000 * n
  <2>1. n \in Nat /\ d \in Nat /\ n <= d
    BY FewerInPart
  <2>2. d # 0
    BY <1>2, FS_EmptySet
  <2> HIDE DEF n, d
  <2>3. AtMost(scaled, d, 10000) /\ scaled \in Nat
    BY <2>1 DEF AtMost
  <2>4. ConversionRate(C, P, T) = Rounded(scaled, d)
    BY <1>2 DEF ConversionRate, n, d
  <2> HIDE DEF scaled
  <2>5. Rounded(scaled, d) \in 0..10000
    <3> DEFINE k == 10000
    <3>1. k \in Nat /\ AtMost(scaled, d, k)
      BY <2>3
    <3> HIDE DEF k
    <3>2. Rounded(scaled, d) \in 0..k
      BY <3>1, <2>1, <2>2, <2>3, RoundedBelow
    <3> QED
      BY <3>2 DEF k
  <2> QED
    <3> DEFINE r == Rounded(scaled, d)
    <3>1. r \in 0..10000 /\ ConversionRate(C, P, T) = r
      BY <2>4, <2>5
    <3> HIDE DEF r
    <3> QED
      BY <3>1
<1> QED
  BY <1>1, <1>2

\* Of the finitely many zone events V of some customers: every zone of the
\* heatmap has some of them, and the busiest one has the full score.
LEMMA HeatmapIsOf ==
  ASSUME NEW V, IsFiniteSet(V)
  PROVE  LET heatmap == HeatmapOf(V) IN
         /\ DOMAIN AvgDwell(V) \subseteq DOMAIN heatmap
         /\ \A z \in DOMAIN heatmap :
              /\ heatmap[z].visits \in 0..Cardinality(VisitorsOf(V))
              /\ heatmap[z].score \in 0..1000
         /\ DOMAIN heatmap # {} => \E z \in DOMAIN heatmap : heatmap[z].score = 1000
<1> DEFINE zones   == {e.zone : e \in Placed(V)}
           At(z)   == {e \in Placed(V) : e.zone = z}
           visits  == [z \in zones |-> Cardinality(VisitorsOf(At(z)))]
           counts  == {visits[z] : z \in zones}
           busiest == Max({0} \cup counts)
           heatmap == HeatmapOf(V)
<1>1. DOMAIN heatmap = zones
  BY DEF HeatmapOf
<1>2. \A z \in zones : heatmap[z].visits = visits[z] /\ heatmap[z].score = Rounded(1000 * visits[z], busiest)
  BY DEF HeatmapOf
<1>3. ASSUME NEW z \in zones
      PROVE  visits[z] \in Nat \ {0} /\ visits[z] <= Cardinality(VisitorsOf(V))
  <2>1. At(z) \in SUBSET V /\ At(z) # {}
    BY DEF Placed
  <2> HIDE DEF At
  <2>2. IsFiniteSet(VisitorsOf(At(z))) /\ VisitorsOf(At(z)) \subseteq VisitorsOf(V)
    BY <2>1, FewVisitors
  <2>3. IsFiniteSet(VisitorsOf(V))
    BY FewVisitors
  <2>4. VisitorsOf(At(z)) # {}
    BY <2>1 DEF VisitorsOf
  <2>5. Cardinality(VisitorsOf(At(z))) # 0
    BY <2>2, <2>4, FS_EmptySet
  <2>6. Cardinality(VisitorsOf(At(z))) \in Nat /\ Cardinality(VisitorsOf(At(z))) <= Cardinality(VisitorsOf(V))
    BY <2>2, <2>3, FewerInPart
  <2> QED
    BY <2>5, <2>6
<1>4. IsFiniteSet(zones)
  <2>1. IsFiniteSet(Placed(V)) 
    BY FewerInPart DEF Placed
  <2> DEFINE f == [e \in Placed(V) |-> e.zone]
  <2>2. DOMAIN f = Placed(V) /\ f = [e \in Placed(V) |-> f[e]] /\ zones = {f[e] : e \in Placed(V)}
    OBVIOUS
  <2> HIDE DEF f, zones
  <2> QED
    BY <2>1, <2>2, FiniteImage
<1>5. IsFiniteSet(counts)
  <2>1. DOMAIN visits = zones /\ visits = [z \in zones |-> visits[z]]
    OBVIOUS
  <2> HIDE DEF visits, zones
  <2> QED
    BY <2>1, <1>4, FiniteImage
<1>6. /\ {0} \cup counts \in SUBSET Nat /\ IsFiniteSet({0} \cup counts) /\ {0} \cup counts # {}
  <2>1. counts \subseteq Nat
    BY <1>3
  <2>2. IsFiniteSet({0} \cup counts)
    <3> HIDE DEF counts
    <3>1. IsFiniteSet({0})
      BY FS_Singleton
    <3> QED
      BY <3>1, <1>5, FS_Union
  <2> HIDE DEF counts
  <2> QED
    BY <2>1, <2>2
<1>7. busiest \in {0} \cup counts /\ \A n \in {0} \cup counts : busiest >= n
  <2> HIDE DEF counts
  <2> QED
    BY <1>6, GreatestIn
<1>8. busiest \in Nat /\ \A z \in zones : visits[z] \in counts /\ visits[z] <= busiest
  <2>1. busiest \in Nat
    BY <1>6, <1>7
  <2>2. \A z \in zones : visits[z] \in counts
    OBVIOUS
  <2> HIDE DEF counts, busiest, visits, zones
  <2>3. \A z \in zones : busiest >= visits[z]
    BY <2>2, <1>7
  <2> QED
    BY <2>1, <2>2, <2>3, <1>3
<1>9. DOMAIN AvgDwell(V) \subseteq zones
  BY DEF AvgDwell, ZoneExits
<1> HIDE DEF visits, zones, busiest, heatmap
<1>10. ASSUME NEW z \in zones PROVE heatmap[z].score \in 0..1000
  <2>1. visits[z] \in Nat /\ busiest \in Nat \ {0} /\ visits[z] <= busiest
    BY <1>3, <1>8
  <2> DEFINE scaled == 1000 * visits[z]
  <2>2. AtMost(scaled, busiest, 1000) /\ scaled \in Nat
    BY <2>1 DEF AtMost
  <2>3. heatmap[z].score = Rounded(scaled, busiest)
    BY <1>2
  <2> HIDE DEF scaled
  <2>4. Rounded(scaled, busiest) \in 0..1000
    <3> DEFINE k == 1000
    <3>1. k \in Nat /\ AtMost(scaled, busiest, k)
      BY <2>2
    <3> HIDE DEF k
    <3>2. Rounded(scaled, busiest) \in 0..k
      BY <3>1, <2>1, <2>2, RoundedBelow
    <3> QED
      BY <3>2 DEF k
  <2> QED
    BY <2>3, <2>4
<1>11. ASSUME NEW z \in zones PROVE \E y \in zones : heatmap[y].score = 1000
  <2>1. busiest # 0
    BY <1>3, <1>8
  <2>2. PICK y \in zones : busiest = visits[y]
    BY <2>1, <1>7
  <2>3. busiest \in Nat \ {0}
    BY <2>1, <1>8
  <2> QED
    BY <2>2, <2>3, <1>2, RoundedWhole
<1> QED
  BY <1>1, <1>2, <1>3, <1>9, <1>10, <1>11 DEF heatmap

\* FiguresAgree holds of finitely many events and of any sales.
LEMMA AgreeOnFewEvents == IsFiniteSet(events) => FiguresAgree
<1> SUFFICES ASSUME IsFiniteSet(events) PROVE FiguresAgree
  OBVIOUS
<1> DEFINE stages  == StageSets(events, Sales)
           funnel  == Funnel(events, Sales)
           metrics == Metrics(events, Sales)
           heatmap == Heatmap(events)
           queue   == Presences(events)
           V       == ZoneEvents(events)
<1>1. /\ stages[1] = Customers(events)
      /\ stages[2] = VisitorsOf(V) \cup VisitorsOf(queue)
      /\ stages[3] = VisitorsOf(queue)
      /\ stages[4] = Converted(queue, Sales)
      /\ \A i \in 2..4 : stages[i] \subseteq stages[i - 1]
      /\ \A i \in 1..4 : IsFiniteSet(stages[i]) /\ Cardinality(stages[i]) \in Nat
  BY StagesAre
<1>2. /\ \A i \in 1..4 : funnel.visitors[i] = Cardinality(stages[i])
      /\ \A i \in 2..4 : funnel.drops[i] = DropOff(Cardinality(stages[i - 1]), Cardinality(stages[i]))
      /\ funnel.rate = ConversionRate(Customers(events), queue, Sales)
  BY DEF Funnel, FunnelOf, StageSets
<1>3. /\ metrics.unique = Cardinality(Customers(events))
      /\ metrics.converted = Cardinality(Converted(queue, Sales))
      /\ metrics.abandoned = Cardinality(Abandoned(queue, Sales))
      /\ metrics.rate = ConversionRate(Customers(events), queue, Sales)
      /\ metrics.dwell = AvgDwell(V)
  BY DEF Metrics, MetricsOf
<1>4. V \subseteq events /\ IsFiniteSet(V)
  <2>1. V \subseteq events
    BY DEF ZoneEvents
  <2> QED
    BY <2>1, FewerInPart
<1>5. heatmap = HeatmapOf(V)
  BY DEF Heatmap
<1> HIDE DEF stages, funnel, metrics, heatmap, V
<1>6. \A i \in 2..4 : funnel.drops[i] \in 0..1000
  <2> SUFFICES ASSUME NEW i \in 2..4 PROVE funnel.drops[i] \in 0..1000
    OBVIOUS
  <2>1. i - 1 \in 1..4 /\ i \in 1..4
    OBVIOUS
  <2>2. Cardinality(stages[i]) <= Cardinality(stages[i - 1])
    BY <2>1, <1>1, FewerInPart
  <2>3. funnel.drops[i] = DropOff(Cardinality(stages[i - 1]), Cardinality(stages[i]))
    BY <1>2
  <2>4. Cardinality(stages[i]) \in Nat /\ Cardinality(stages[i - 1]) \in Nat
    BY <2>1, <1>1
  <2>5. DropOff(Cardinality(stages[i - 1]), Cardinality(stages[i])) \in 0..1000
    BY <2>2, <2>4, DropsAreShares
  <2> QED
    BY <2>3, <2>5
<1>7. funnel.visitors[3] = metrics.converted + metrics.abandoned
  <2> DEFINE P == VisitorsOf(queue)
             C == Converted(queue, Sales)
  <2>1. C \subseteq P /\ Abandoned(queue, Sales) = P \ C
    BY OnlyCustomersCount DEF Abandoned
  <2>2. IsFiniteSet(P) /\ Cardinality(P) \in Nat /\ Cardinality(C) \in Nat
    BY <1>1
  <2> HIDE DEF P, C
  <2>3. P \cap C = C
    BY <2>1
  <2>4. Cardinality(P \ C) = Cardinality(P) - Cardinality(C)
    BY <2>2, <2>3, FS_Difference
  <2> QED
    BY <2>1, <2>2, <2>4, <1>1, <1>2, <1>3 DEF P, C
<1>8. metrics.rate <= 10000
  <2>1. Converted(queue, Sales) \subseteq Customers(events)
    BY OnlyCustomersCount
  <2> QED
    BY <2>1, <1>1, <1>3, RateIsShare
<1>9. \A z \in DOMAIN heatmap : heatmap[z].visits <= funnel.visitors[2]
  <2>1. Cardinality(VisitorsOf(V)) <= Cardinality(stages[2]) /\ Cardinality(VisitorsOf(V)) \in Nat
    BY <1>1, FewerInPart
  <2>2. \A z \in DOMAIN HeatmapOf(V) : HeatmapOf(V)[z].visits \in 0..Cardinality(VisitorsOf(V))
    BY <1>4, HeatmapIsOf
  <2>3. funnel.visitors[2] = Cardinality(stages[2]) /\ Cardinality(stages[2]) \in Nat
    <3>1. 2 \in 1..4
      OBVIOUS
    <3> QED
      BY <3>1, <1>1, <1>2
  <2>4. ASSUME NEW z \in DOMAIN heatmap PROVE heatmap[z].visits <= funnel.visitors[2]
    BY <2>1, <2>2, <2>3, <1>5
  <2> QED
    BY <2>4
<1>10. heatmap # <<>> => DOMAIN heatmap # {}
  <2> SUFFICES ASSUME DOMAIN heatmap = {} PROVE heatmap = <<>>
    OBVIOUS
  <2>1. heatmap \in [1..0 -> {}]
    <3>1. heatmap = [z \in DOMAIN heatmap |-> heatmap[z]]
      BY <1>5 DEF HeatmapOf
    <3> QED
      BY <3>1
  <2>2. heatmap \in Seq({}) /\ Len(heatmap) = 0
    BY <2>1
  <2> QED
    BY <2>2, EmptySeq
<1>11. /\ DOMAIN metrics.dwell \subseteq DOMAIN heatmap
       /\ \A z \in DOMAIN heatmap : heatmap[z].score \in 0..1000
       /\ DOMAIN heatmap # {} => \E z \in DOMAIN heatmap : heatmap[z].score = 1000
  BY <1>3, <1>4, <1>5, HeatmapIsOf
<1>12. \A i \in 2..4 : stages[i] \subseteq stages[i - 1] /\ funnel.drops[i] \in 0..1000
  BY <1>1, <1>6
<1>13. funnel.visitors[1] = metrics.unique /\ funnel.visitors[4] = metrics.converted
  <2>1. 1 \in 1..4 /\ 4 \in 1..4
    OBVIOUS
  <2> QED
    BY <2>1, <1>1, <1>2, <1>3
<1>14. funnel.rate = metrics.rate
  BY <1>2, <1>3
<1>15. \A z \in DOMAIN heatmap : heatmap[z].visits <= funnel.visitors[2] /\ heatmap[z].score \in 0..1000
  BY <1>9, <1>11
<1>16. heatmap # <<>> => \E z \in DOMAIN heatmap : heatmap[z].score = 1000
  BY <1>10, <1>11
<1> QED
  BY <1>7, <1>8, <1>11, <1>12, <1>13, <1>14, <1>15, <1>16, SMTT(30)
     DEF FiguresAgree, stages, funnel, metrics, heatmap

\* The figures of the endpoints fit together whatever has arrived: no drop is
\* below zero, the queue is the converted and the abandoned, no zone has more
\* customers than the funnel has zone visitors, and the busiest scores in full.
THEOREM FiguresFitTogether == Spec => []FiguresAgree
<1>1. Init => IsFiniteSet(events)
  BY FS_EmptySet DEF Init
<1>2. IsFiniteSet(events) /\ [Next]_vars => IsFiniteSet(events)'
  <2> SUFFICES ASSUME IsFiniteSet(events), [Next]_vars PROVE IsFiniteSet(events')
    OBVIOUS
  <2>1. events' = events \/ \E e \in Log : events' = events \cup {e}
    BY DEF Next, Deliver, Replace, Start, StartWithoutSales, Stop, vars
  <2> QED
    BY <2>1, FS_AddElement
<1> QED
  BY <1>1, <1>2, AgreeOnFewEvents, PTL DEF Spec

-------------------------------------------------------------------------------
(* What raises an alarm *)

\* A larger part is rounded to no less.
LEMMA RoundedGrows ==
  ASSUME NEW n \in Nat, NEW m \in Nat, NEW d \in Nat \ {0}, n <= m
  PROVE  Rounded(n, d) <= Rounded(m, d)
<1> DEFINE v == n \div d
           w == m \div d
           q == n % d
           r == m % d
<1>1. /\ v \in Int /\ q \in 0..(d - 1) /\ n = d * v + q
      /\ w \in Int /\ r \in 0..(d - 1) /\ m = d * w + r
  BY SMTT(30)
<1>2. /\ Rounded(n, d) = IF 2 * q > d \/ (2 * q = d /\ v % 2 = 1) THEN v + 1 ELSE v
      /\ Rounded(m, d) = IF 2 * r > d \/ (2 * r = d /\ w % 2 = 1) THEN w + 1 ELSE w
  BY DEF Rounded
<1> HIDE DEF v, w, q, r
<1>3. ASSUME v >= w + 1 PROVE FALSE
  <2>1. d * v >= d * (w + 1) /\ d * (w + 1) = d * w + d
    BY <1>1, <1>3, SMTT(30)
  <2>2. d * v \in Int /\ d * w \in Int
    BY <1>1
  <2> QED
    BY <2>1, <2>2, <1>1
<1>4. CASE v = w
  <2>1. q <= r
    BY <1>1, <1>4
  <2>2. CASE 2 * q > d
    BY <2>1, <2>2, <1>1, <1>2, <1>4
  <2>3. CASE 2 * q = d /\ v % 2 = 1
    BY <2>1, <2>3, <1>1, <1>2, <1>4
  <2>4. CASE ~(2 * q > d \/ (2 * q = d /\ v % 2 = 1))
    BY <2>4, <1>1, <1>2, <1>4
  <2> QED
    BY <2>2, <2>3, <2>4
<1>5. CASE v <= w - 1
  BY <1>1, <1>2, <1>5
<1> QED
  BY <1>1, <1>3, <1>4, <1>5

\* What the log of the store may be.
LogOf(E) == E \subseteq Log /\ IsFiniteSet(E)

\* The deepest queue that a customer found is a number, and the others are not above it.
LEMMA DeepestQueue ==
  ASSUME NEW E, LogOf(E)
  PROVE  /\ MaxQueueDepth(E) \in Nat
         /\ MaxQueueDepth(E) \in {0} \cup {p.depth : p \in Presences(E)}
         /\ \A n \in {0} \cup {p.depth : p \in Presences(E)} : MaxQueueDepth(E) >= n
<1> DEFINE P == Presences(E)
           depths == {p.depth : p \in P}
<1>1. P \subseteq E /\ P \subseteq Log /\ IsFiniteSet(E)
  BY DEF LogOf, Presences
<1>2. IsFiniteSet(P)
  BY <1>1, FewerInPart
<1> DEFINE g == [p \in P |-> p.depth]
<1>3. DOMAIN g = P /\ g = [p \in P |-> g[p]] /\ depths = {g[p] : p \in P}
  OBVIOUS
<1>4. depths \subseteq Nat
  BY <1>1, LogAssumption
<1>5. MaxQueueDepth(E) = Max({0} \cup depths)
  BY DEF MaxQueueDepth
<1> HIDE DEF P, depths, g
<1>6. IsFiniteSet(depths)
  BY <1>2, <1>3, FiniteImage
<1>7. IsFiniteSet({0})
  BY FS_Singleton
<1>8. /\ {0} \cup depths \in SUBSET Nat
      /\ IsFiniteSet({0} \cup depths)
      /\ {0} \cup depths # {}
  <2>1. {0} \cup depths \in SUBSET Nat
    BY <1>4
  <2>2. IsFiniteSet({0} \cup depths)
    BY <1>6, <1>7, FS_Union
  <2>3. 0 \in {0} \cup depths
    OBVIOUS
  <2> QED
    BY <2>1, <2>2, <2>3
<1>9. Max({0} \cup depths) \in {0} \cup depths /\ \A n \in {0} \cup depths : Max({0} \cup depths) >= n
  BY <1>8, GreatestIn
<1> QED
  BY <1>5, <1>8, <1>9 DEF P, depths

\* Without a customer who newly joins, the queue was never deeper.
LEMMA OnlyJoinsDeepen ==
  ASSUME NEW E, NEW F, LogOf(E), LogOf(F), E \subseteq F,
         VisitorsOf({e \in F \ E : e.type = "BILLING_QUEUE_JOIN"}) \cap Customers(F) = {}
  PROVE  MaxQueueDepth(F) <= MaxQueueDepth(E)
<1>1. Presences(F) \subseteq Presences(E)
  <2> SUFFICES ASSUME NEW p \in Presences(F) PROVE p \in Presences(E)
    OBVIOUS
  <2>1. p \in F /\ p.type = "BILLING_QUEUE_JOIN" /\ p.visitor \in Customers(F)
    BY DEF Presences
  <2>2. p \in E
    BY <2>1 DEF VisitorsOf
  <2>3. p.visitor \in Customers(E)
    BY <2>1, <2>2 DEF Customers, StaffIds, VisitorsOf
  <2> QED
    BY <2>1, <2>2, <2>3 DEF Presences
<1>2. MaxQueueDepth(F) \in {0} \cup {p.depth : p \in Presences(E)}
  BY <1>1, DeepestQueue
<1> QED
  BY <1>2, DeepestQueue

\* Events of known visitors who are not flagged change no customer, and what is
\* added to the log and to the sales only adds to the conversion.
LEMMA RateGrows ==
  ASSUME NEW E, NEW F, LogOf(E), LogOf(F), E \subseteq F,
         NEW T, NEW U, \A t \in T : \E u \in U : u.ts = t.ts,
         \A e \in F \ E : ~e.staff /\ e.visitor \in VisitorsOf(E)
  PROVE  /\ Customers(F) = Customers(E)
         /\ ConversionRate(Customers(E), Presences(E), T) <= ConversionRate(Customers(F), Presences(F), U)
         /\ ConversionRate(Customers(E), Presences(E), T) \in Nat
<1>1. VisitorsOf(F) = VisitorsOf(E) /\ StaffIds(F) = StaffIds(E)
  BY DEF StaffIds, VisitorsOf
<1>2. Customers(F) = Customers(E)
  BY <1>1 DEF Customers
<1>3. Converted(Presences(E), T) \subseteq Converted(Presences(F), U)
  <2>1. Presences(E) \subseteq Presences(F)
    BY <1>2 DEF Presences
  <2> QED
    BY <2>1 DEF Converted, VisitorsOf
<1>4. /\ Converted(Presences(F), U) \subseteq Customers(F)
      /\ IsFiniteSet(Customers(F))
  <2>1. IsFiniteSet(VisitorsOf(F)) /\ Customers(F) \subseteq VisitorsOf(F)
    BY FewVisitors DEF Customers, LogOf
  <2> QED
    BY <2>1, OnlyCustomersCount, FewerInPart
<1> DEFINE C == Customers(F)
           few == Cardinality(Converted(Presences(E), T))
           more == Cardinality(Converted(Presences(F), U))
           all == Cardinality(C)
<1>5. few \in Nat /\ more \in Nat /\ few <= more /\ all \in Nat
  <2>1. IsFiniteSet(Converted(Presences(F), U))
    BY <1>4, FewerInPart
  <2> QED
    BY <2>1, <1>3, <1>4, FewerInPart
<1>6. CASE C = {}
  BY <1>2, <1>6 DEF ConversionRate
<1>7. CASE C # {}
  <2>1. all # 0
    BY <1>4, <1>7, FS_EmptySet
  <2> DEFINE x == 10000 * few
             y == 10000 * more
             a == ConversionRate(C, Presences(E), T)
             b == ConversionRate(C, Presences(F), U)
  <2>2. x \in Nat /\ y \in Nat /\ x <= y /\ all \in Nat \ {0}
    BY <1>5, <2>1
  <2>3. a = Rounded(x, all) /\ b = Rounded(y, all)
    BY <1>7 DEF ConversionRate
  <2> HIDE DEF x, y, all, a, b
  <2>4. a <= b
    BY <2>2, <2>3, RoundedGrows
  <2>5. a \in Nat
    <3>1. AtMost(x, all, x)
      BY <2>2, SMTT(30) DEF AtMost
    <3> QED
      BY <3>1, <2>2, <2>3, RoundedBelow
  <2> QED
    BY <2>4, <2>5, <1>2 DEF a, b
<1> QED
  BY <1>2, <1>6, <1>7

\* No customer is in a dead zone at the latest moment.
LEMMA DeadZonesAreEmpty ==
  ASSUME NEW F, LogOf(F), NEW e \in Placed(ZoneEvents(F)), e.zone \in DeadZones(F)
  PROVE  e.ts # Latest(F)
<1>1. e \in F /\ e.ts \in Nat
  BY LogAssumption DEF LogOf, Placed, ZoneEvents
<1>2. Latest(F) - e.ts > Horizon
  BY DEF DeadZones, LastVisits
<1>3. Horizon \in Nat
  BY AnalyticsAssumption
<1> QED
  BY <1>1, <1>2, <1>3

\* A queue alarm that was not there before is of a customer who joined the queue.
LEMMA QueueAlarmsHaveACause ==
  ASSUME NEW E, NEW F, LogOf(E), LogOf(F), E \subseteq F,
         NEW a \in QueueAlerts(F), a \notin QueueAlerts(E),
         ~\E b \in QueueAlerts(E) : b.zone = a.zone /\ b.severity = "CRITICAL"
  PROVE  VisitorsOf({e \in F \ E : e.type = "BILLING_QUEUE_JOIN"}) \cap Customers(F) # {}
<1> SUFFICES ASSUME VisitorsOf({e \in F \ E : e.type = "BILLING_QUEUE_JOIN"}) \cap Customers(F) = {}
             PROVE  FALSE
  OBVIOUS
<1>1. MaxQueueDepth(F) <= MaxQueueDepth(E)
  BY OnlyJoinsDeepen
<1>2. MaxQueueDepth(F) \in Nat /\ MaxQueueDepth(E) \in Nat
  BY DeepestQueue
<1>3. QueueWarn \in Nat /\ QueueCritical \in Nat
  BY AnalyticsAssumption
<1>4. CASE MaxQueueDepth(F) >= QueueCritical
  <2>1. MaxQueueDepth(E) >= QueueCritical
    BY <1>1, <1>2, <1>3, <1>4
  <2> QED
    BY <1>4, <2>1 DEF QueueAlerts
<1>5. CASE ~(MaxQueueDepth(F) >= QueueCritical) /\ MaxQueueDepth(F) >= QueueWarn
  <2>1. MaxQueueDepth(E) >= QueueWarn
    BY <1>1, <1>2, <1>3, <1>5
  <2>2. a = Alert("QUEUE_SPIKE", "WARN", NoZone)
    BY <1>5 DEF QueueAlerts
  <2>3. CASE MaxQueueDepth(E) >= QueueCritical
    <3>1. Alert("QUEUE_SPIKE", "CRITICAL", NoZone) \in QueueAlerts(E)
      BY <2>3 DEF QueueAlerts
    <3> QED
      BY <3>1, <2>2 DEF Alert
  <2>4. CASE ~(MaxQueueDepth(E) >= QueueCritical)
    BY <2>1, <2>2, <2>4 DEF QueueAlerts
  <2> QED
    BY <2>3, <2>4
<1>6. CASE ~(MaxQueueDepth(F) >= QueueCritical) /\ ~(MaxQueueDepth(F) >= QueueWarn)
  BY <1>6 DEF QueueAlerts
<1> QED
  BY <1>4, <1>5, <1>6

\* A conversion alarm that was not there before is of a new visitor or of one who
\* turned out to be staff.
LEMMA ConversionAlarmsHaveACause ==
  ASSUME NEW E, NEW F, LogOf(E), LogOf(F), E \subseteq F,
         NEW T, NEW U, \A t \in T : \E u \in U : u.ts = t.ts,
         NEW a \in ConversionAlerts(F, U), a.severity # "INFO", a \notin ConversionAlerts(E, T),
         ~\E b \in ConversionAlerts(E, T) : b.zone = a.zone /\ b.severity = "CRITICAL"
  PROVE  \E e \in F \ E : e.staff \/ e.visitor \notin VisitorsOf(E)
<1> SUFFICES ASSUME \A e \in F \ E : ~e.staff /\ e.visitor \in VisitorsOf(E)
             PROVE  FALSE
  OBVIOUS
<1> DEFINE before == ConversionRate(Customers(E), Presences(E), T)
           after  == ConversionRate(Customers(F), Presences(F), U)
<1>1. Customers(F) = Customers(E) /\ before <= after /\ before \in Nat
  BY RateGrows
<1>2. after \in Nat
  <2>1. \A u \in U : \E t \in U : t.ts = u.ts
    OBVIOUS
  <2>2. \A e \in F \ F : ~e.staff /\ e.visitor \in VisitorsOf(F)
    OBVIOUS
  <2> QED
    BY <2>1, <2>2, RateGrows
<1>3. DropThreshold \in Nat
  BY AnalyticsAssumption
<1>4. /\ ConversionAlerts(E, T)
           = IF Confidence(Customers(E)) = "low" THEN {Alert("CONVERSION_DROP", "INFO", NoZone)}
             ELSE IF before > DropThreshold THEN {}
             ELSE IF before = 0 THEN {Alert("CONVERSION_DROP", "CRITICAL", NoZone)}
             ELSE {Alert("CONVERSION_DROP", "WARN", NoZone)}
      /\ ConversionAlerts(F, U)
           = IF Confidence(Customers(F)) = "low" THEN {Alert("CONVERSION_DROP", "INFO", NoZone)}
             ELSE IF after > DropThreshold THEN {}
             ELSE IF after = 0 THEN {Alert("CONVERSION_DROP", "CRITICAL", NoZone)}
             ELSE {Alert("CONVERSION_DROP", "WARN", NoZone)}
  BY DEF ConversionAlerts
<1> HIDE DEF before, after
<1>5. Confidence(Customers(F)) # "low" /\ Confidence(Customers(E)) # "low"
  <2>1. Confidence(Customers(F)) # "low"
    BY <1>4 DEF Alert
  <2> QED
    BY <2>1, <1>1
<1>6. ~(after > DropThreshold) /\ ~(before > DropThreshold)
  <2>1. ~(after > DropThreshold)
    BY <1>4, <1>5
  <2> QED
    BY <2>1, <1>1, <1>2, <1>3
<1>7. CASE before = 0
  <2>1. Alert("CONVERSION_DROP", "CRITICAL", NoZone) \in ConversionAlerts(E, T)
    BY <1>4, <1>5, <1>6, <1>7
  <2>2. a.zone = NoZone
    BY <1>4, <1>5, <1>6 DEF Alert
  <2> QED
    BY <2>1, <2>2 DEF Alert
<1>8. CASE before # 0
  <2>1. after # 0
    BY <1>8, <1>1, <1>2
  <2> QED
    BY <2>1, <1>4, <1>5, <1>6, <1>8
<1> QED
  BY <1>7, <1>8

\* A dead-zone alarm that was not there before is of a new event, but of no
\* customer who is in the zone.
LEMMA ZoneAlarmsHaveACause ==
  ASSUME NEW E, NEW F, LogOf(E), LogOf(F), E \subseteq F,
         NEW a \in DeadZoneAlerts(F), a.severity # "INFO", a \notin DeadZoneAlerts(E)
  PROVE  /\ F \ E # {}
         /\ \A e \in F \ E : ~(e.zone = a.zone /\ e.ts = Latest(F) /\ e \in Placed(ZoneEvents(F)))
<1>1. F \ E # {}
  <2> SUFFICES ASSUME F \ E = {} PROVE FALSE
    OBVIOUS
  <2>1. F = E
    OBVIOUS
  <2> QED
    BY <2>1
<1>2. PICK z \in DeadZones(F) : a = Alert("DEAD_ZONE", "WARN", z)
  <2>1. a \notin {Alert("DEAD_ZONE", "INFO", NoZone)}
    BY DEF Alert
  <2>2. a \in {Alert("DEAD_ZONE", "WARN", y) : y \in DeadZones(F)}
    BY <2>1 DEF DeadZoneAlerts
  <2> QED
    BY <2>2
<1>3. a.zone \in DeadZones(F)
  BY <1>2 DEF Alert
<1> QED
  BY <1>1, <1>3, DeadZonesAreEmpty

\* Which alerts are of which type.
LEMMA AlertTypes ==
  ASSUME NEW E, NEW T
  PROVE  /\ \A b \in QueueAlerts(E) : b.type = "QUEUE_SPIKE"
         /\ \A b \in ConversionAlerts(E, T) : b.type = "CONVERSION_DROP"
         /\ \A b \in DeadZoneAlerts(E) : b.type = "DEAD_ZONE"
<1>1. \A b \in QueueAlerts(E) : b.type = "QUEUE_SPIKE"
  BY DEF QueueAlerts, Alert
<1>2. \A b \in ConversionAlerts(E, T) : b.type = "CONVERSION_DROP"
  BY DEF ConversionAlerts, Alert
<1>3. \A b \in DeadZoneAlerts(E) : b.type = "DEAD_ZONE"
  BY DEF DeadZoneAlerts, Alert
<1> QED
  BY <1>1, <1>2, <1>3

\* What raises the alarm a, which is not one of E and T, when E and T become F.
CauseOf(a, E, F) ==
  CASE a.type = "QUEUE_SPIKE" ->
         VisitorsOf({e \in F \ E : e.type = "BILLING_QUEUE_JOIN"}) \cap Customers(F) # {}
    [] a.type = "CONVERSION_DROP" ->
         \E e \in F \ E : e.staff \/ e.visitor \notin VisitorsOf(E)
    [] a.type = "DEAD_ZONE" ->
         /\ F \ E # {}
         /\ \A e \in F \ E : ~(e.zone = a.zone /\ e.ts = Latest(F) /\ e \in Placed(ZoneEvents(F)))

\* AlarmsHaveACause for any growth of the log and of the sales.
LEMMA NewAlarmsHaveACause ==
  ASSUME NEW E, NEW F, LogOf(E), LogOf(F), E \subseteq F,
         NEW T, NEW U, \A t \in T : \E u \in U : u.ts = t.ts,
         NEW a \in Anomalies(F, U), a.severity # "INFO", a \notin Anomalies(E, T),
         ~\E b \in Anomalies(E, T) :
            b.severity # "INFO" /\ b.type = a.type /\ b.zone = a.zone /\ b.severity = "CRITICAL"
  PROVE  CauseOf(a, E, F)
<1>1. ~\E b \in Anomalies(E, T) : b.type = a.type /\ b.zone = a.zone /\ b.severity = "CRITICAL"
  OBVIOUS
<1>2. CASE a \in QueueAlerts(F)
  <2>1. a.type = "QUEUE_SPIKE"
    BY <1>2, AlertTypes
  <2>2. a \notin QueueAlerts(E)
    BY DEF Anomalies
  <2>3. ~\E b \in QueueAlerts(E) : b.zone = a.zone /\ b.severity = "CRITICAL"
    BY <1>1, <2>1, AlertTypes DEF Anomalies
  <2>4. VisitorsOf({e \in F \ E : e.type = "BILLING_QUEUE_JOIN"}) \cap Customers(F) # {}
    BY <1>2, <2>2, <2>3, QueueAlarmsHaveACause
  <2> QED
    BY <2>1, <2>4 DEF CauseOf
<1>3. CASE a \in ConversionAlerts(F, U)
  <2>1. a.type = "CONVERSION_DROP"
    BY <1>3, AlertTypes
  <2>2. a \notin ConversionAlerts(E, T)
    BY DEF Anomalies
  <2>3. ~\E b \in ConversionAlerts(E, T) : b.zone = a.zone /\ b.severity = "CRITICAL"
    BY <1>1, <2>1, AlertTypes DEF Anomalies
  <2>4. \E e \in F \ E : e.staff \/ e.visitor \notin VisitorsOf(E)
    BY <1>3, <2>2, <2>3, ConversionAlarmsHaveACause
  <2> QED
    BY <2>1, <2>4 DEF CauseOf
<1>4. CASE a \in DeadZoneAlerts(F)
  <2>1. a.type = "DEAD_ZONE"
    BY <1>4, AlertTypes
  <2>2. a \notin DeadZoneAlerts(E)
    BY DEF Anomalies
  <2>3. /\ F \ E # {}
        /\ \A e \in F \ E : ~(e.zone = a.zone /\ e.ts = Latest(F) /\ e \in Placed(ZoneEvents(F)))
    BY <1>4, <2>2, ZoneAlarmsHaveACause
  <2> QED
    BY <2>1, <2>3 DEF CauseOf
<1> QED
  BY <1>2, <1>3, <1>4 DEF Anomalies

\* The events are of the log, finitely many.
LEMMA LogStep == LogOf(events) /\ [Next]_vars => LogOf(events')
<1> SUFFICES ASSUME LogOf(events), [Next]_vars PROVE LogOf(events')
  OBVIOUS
<1>1. events' = events \/ \E e \in Log : events' = events \cup {e}
  BY DEF Next, Deliver, Replace, Start, StartWithoutSales, Stop, vars
<1> QED
  BY <1>1, FS_AddElement DEF LogOf

\* An alarm is raised by what it tells of, whatever the order of events, sales
\* files and restarts.
THEOREM AlarmsAreCaused == Spec => AlarmsHaveACause
<1> DEFINE Inv == TableInv /\ LogOf(events)
           Step == \A a \in Alarms' : Raised(a) => CauseOf(a, events, events')
<1>1. Init => Inv
  BY FS_EmptySet DEF Init, TableInv, LogOf
<1>2. Inv /\ [Next]_vars => Inv'
  <2>1. ASSUME Inv, [Next]_vars PROVE TableInv' /\ LogOf(events')
    BY <2>1, TableStep, LogStep
  <2> QED
    BY <2>1 DEF LogOf
<1>3. Inv /\ [Next]_vars => Step
  <2> SUFFICES ASSUME Inv, [Next]_vars, NEW a \in Alarms', Raised(a)
               PROVE  CauseOf(a, events, events')
    OBVIOUS
  <2>1. LogOf(events) /\ LogOf(events') /\ events \subseteq events'
    BY LogStep, EventsStay
  <2>2. \A t \in Sales : \E u \in Sales' : u.ts = t.ts
    BY SalesStay
  <2>3. a \in Anomalies(events', Sales') /\ a.severity # "INFO"
    BY DEF Alarms
  <2>4. a \notin Anomalies(events, Sales)
    BY <2>3 DEF Raised, Alarms
  <2>5. ~\E b \in Anomalies(events, Sales) :
           b.severity # "INFO" /\ b.type = a.type /\ b.zone = a.zone /\ b.severity = "CRITICAL"
    BY DEF Raised, Alarms
  <2> QED
    BY <2>1, <2>2, <2>3, <2>4, <2>5, NewAlarmsHaveACause
<1>4. Step => LET new == events' \ events IN
         \A a \in Alarms' :
           Raised(a) =>
             CASE a.type = "QUEUE_SPIKE" ->
                    VisitorsOf({e \in new : e.type = "BILLING_QUEUE_JOIN"})
                      \cap Customers(events') # {}
               [] a.type = "CONVERSION_DROP" ->
                    \E e \in new : e.staff \/ e.visitor \notin VisitorsOf(events)
               [] a.type = "DEAD_ZONE" ->
                    /\ new # {}
                    /\ \A e \in new : ~(e.zone = a.zone /\ e.ts = Latest(events')
                                          /\ e \in Placed(ZoneEvents(events')))
  BY DEF CauseOf
<1> QED
  BY <1>1, <1>2, <1>3, <1>4, PTL DEF Spec, AlarmsHaveACause

-------------------------------------------------------------------------------
(* Sums *)

\* How the library adds up the values of f: g has the sum of every set.
Chosen(s) == CHOOSE x \in s : TRUE
AddsUp(g, f, S) ==
  g = [s \in SUBSET S |-> IF s = {} THEN 0 ELSE f[Chosen(s)] + g[s \ {Chosen(s)}]]

\* Among finite sets there is one that no other is a part of.
LEMMA SmallestSet ==
  ASSUME NEW S, IsFiniteSet(S), NEW B \in SUBSET SUBSET S, B # {}
  PROVE  \E s \in B : \A t \in B : ~(t \subseteq s /\ t # s)
<1>1. B \subseteq FiniteSubsetsOf(S)
  BY FS_FiniteSubsetsOfFinite
<1>2. PICK s \in B : \A t \in B : ~(<<t, s>> \in StrictSubsetOrdering(S))
  BY <1>1, FS_StrictSubsetOrderingWellFounded, WFMin
<1>3. ASSUME NEW t \in B, t \subseteq s, t # s PROVE FALSE
  <2>1. <<t, s>> \in StrictSubsetOrdering(S)
    BY <1>3 DEF StrictSubsetOrdering
  <2> QED
    BY <2>1, <1>2
<1> QED
  BY <1>3

\* There is such a function, by the number of elements.
LEMMA SumsExist ==
  ASSUME NEW S, IsFiniteSet(S), NEW f
  PROVE  \E g : AddsUp(g, f, S)
<1> DEFINE Step(g, s) == IF s = {} THEN 0 ELSE f[Chosen(s)] + g[s \ {Chosen(s)}]
           UpTo(g, n) == \A s \in SUBSET S : Cardinality(s) <= n => g[s] = Step(g, s)
           Fails == {n \in Nat : ~\E g : UpTo(g, n)}
<1>1. \A s \in SUBSET S : /\ IsFiniteSet(s) /\ Cardinality(s) \in Nat
                          /\ Cardinality(s) <= Cardinality(S)
  BY FS_Subset, FS_CardinalityType
<1>2. \A s \in SUBSET S : s # {} => /\ s \ {Chosen(s)} \in SUBSET S
                                    /\ Cardinality(s \ {Chosen(s)}) = Cardinality(s) - 1
  <2> SUFFICES ASSUME NEW s \in SUBSET S, s # {}
               PROVE  /\ s \ {Chosen(s)} \in SUBSET S
                      /\ Cardinality(s \ {Chosen(s)}) = Cardinality(s) - 1
    OBVIOUS
  <2>1. Chosen(s) \in s
    BY DEF Chosen
  <2> QED
    BY <2>1, <1>1, FS_RemoveElement
<1>3. Fails = {}
  <2> SUFFICES ASSUME Fails # {} PROVE FALSE
    OBVIOUS
  <2>1. PICK n \in Fails : \A m \in Fails : ~(<<m, n>> \in OpToRel(<, Nat))
    <3>1. Fails \subseteq Nat
      OBVIOUS
    <3> QED
      BY <3>1, NatLessThanWellFounded, WFMin
  <2>2. n # 0
    <3> SUFFICES ASSUME n = 0 PROVE FALSE
      OBVIOUS
    <3> DEFINE g == [s \in SUBSET S |-> 0]
    <3>1. \A s \in SUBSET S : Cardinality(s) <= 0 => s = {}
      BY <1>1, FS_EmptySet
    <3>2. UpTo(g, 0)
      BY <3>1
    <3> QED
      BY <3>2
  <2>3. n - 1 \in Nat /\ n - 1 \notin Fails
    <3>1. n \in Nat /\ n - 1 \in Nat /\ n - 1 < n
      BY <2>2
    <3>2. <<n - 1, n>> \in OpToRel(<, Nat)
      BY <3>1 DEF OpToRel
    <3> QED
      BY <3>1, <3>2, <2>1
  <2>4. PICK g : UpTo(g, n - 1)
    BY <2>3
  <2> DEFINE h == [s \in SUBSET S |-> Step(g, s)]
  <2>5. UpTo(h, n)
    <3> SUFFICES ASSUME NEW s \in SUBSET S, Cardinality(s) <= n PROVE h[s] = Step(h, s)
      OBVIOUS
    <3>1. CASE s = {}
      BY <3>1
    <3>2. CASE s # {}
      <4> DEFINE r == s \ {Chosen(s)}
      <4>1. r \in SUBSET S /\ Cardinality(r) <= n - 1
        BY <3>2, <1>1, <1>2
      <4>2. g[r] = Step(g, r)
        BY <4>1, <2>4
      <4>3. h[r] = g[r]
        BY <4>1, <4>2
      <4> QED
        BY <4>3, <3>2
    <3> QED
      BY <3>1, <3>2
  <2> HIDE DEF h
  <2> QED
    BY <2>5
<1>4. PICK g : UpTo(g, Cardinality(S))
  BY <1>1, <1>3
<1> DEFINE h == [s \in SUBSET S |-> g[s]]
<1>5. ASSUME NEW s \in SUBSET S PROVE h[s] = Step(h, s)
  <2>1. g[s] = Step(g, s)
    BY <1>1, <1>4
  <2>2. s # {} => h[s \ {Chosen(s)}] = g[s \ {Chosen(s)}]
    OBVIOUS
  <2> QED
    BY <2>1, <2>2
<1>6. h = [s \in SUBSET S |-> Step(h, s)]
  BY <1>5
<1> HIDE DEF h
<1> QED
  BY <1>6 DEF AddsUp

\* What the library computes is the sum of the whole set.
LEMMA SumAddsUp ==
  ASSUME NEW f, IsFiniteSet(DOMAIN f)
  PROVE  \E g : AddsUp(g, f, DOMAIN f) /\ SumFunction(f) = g[DOMAIN f]
<1> DEFINE S == DOMAIN f
           It == CHOOSE g : g = [s \in SUBSET S |-> IF s = {} THEN 0
                              ELSE f[CHOOSE x \in s : TRUE] + g[s \ {CHOOSE x \in s : TRUE}]]
<1>1. \E g : AddsUp(g, f, S)
  BY SumsExist
<1>2. AddsUp(It, f, S)
  BY <1>1 DEF AddsUp, Chosen
<1>3. SumFunction(f) = It[S]
  BY DEF SumFunction, SumFunctionOnSet, FoldFunctionOnSet, MapThenFoldSet
<1> QED
  BY <1>2, <1>3

\* Which element comes first does not matter.
LEMMA AnyFirst ==
  ASSUME NEW S, IsFiniteSet(S), NEW f, \A x \in S : f[x] \in Int, NEW g, AddsUp(g, f, S)
  PROVE  \A s \in SUBSET S : g[s] \in Int /\ \A x \in s : g[s] = f[x] + g[s \ {x}]
<1> DEFINE Good(s) == g[s] \in Int /\ \A x \in s : g[s] = f[x] + g[s \ {x}]
           Bad == {s \in SUBSET S : ~Good(s)}
<1>1. \A s \in SUBSET S :
        g[s] = IF s = {} THEN 0 ELSE f[Chosen(s)] + g[s \ {Chosen(s)}]
  BY DEF AddsUp
<1> SUFFICES ASSUME Bad # {} PROVE FALSE
  OBVIOUS
<1>2. PICK s \in Bad : \A t \in Bad : ~(t \subseteq s /\ t # s)
  <2>1. Bad \in SUBSET SUBSET S /\ Bad # {}
    OBVIOUS
  <2> HIDE DEF Bad
  <2> QED
    BY <2>1, SmallestSet
<1>3. s \in SUBSET S /\ ~Good(s)
  OBVIOUS
<1>4. \A t \in SUBSET S : t \subseteq s /\ t # s => Good(t)
  BY <1>2
<1> HIDE DEF Bad
<1>5. s # {}
  <2> SUFFICES ASSUME s = {} PROVE Good(s)
    BY <1>3
  <2>1. g[s] = 0
    BY <1>1, <1>3
  <2> QED
    BY <2>1
<1> DEFINE c == Chosen(s)
<1>6. c \in s
  BY <1>5 DEF Chosen
<1>7. g[s] = f[c] + g[s \ {c}] /\ f[c] \in Int
  BY <1>1, <1>3, <1>5, <1>6
<1> HIDE DEF c
<1>8. Good(s \ {c})
  BY <1>3, <1>4, <1>6
<1>9. g[s] \in Int
  BY <1>7, <1>8
<1>10. ASSUME NEW x \in s PROVE g[s] = f[x] + g[s \ {x}]
  <2>1. CASE x = c
    BY <2>1, <1>7
  <2>2. CASE x # c
    <3> DEFINE r == (s \ {c}) \ {x}
    <3>1. g[s \ {c}] = f[x] + g[r]
      BY <1>8, <2>2
    <3>2. Good(s \ {x}) /\ (s \ {x}) \ {c} = r /\ c \in s \ {x}
      BY <1>3, <1>4, <1>6, <2>2
    <3>3. g[s \ {x}] = f[c] + g[r]
      BY <3>2
    <3>4. Good(r)
      BY <1>3, <1>4, <1>6
    <3>5. g[r] \in Int /\ f[x] \in Int
      BY <3>4, <1>3
    <3> HIDE DEF r
    <3> QED
      BY <3>1, <3>3, <3>5, <1>7
  <2> QED
    BY <2>1, <2>2
<1> QED
  BY <1>3, <1>9, <1>10

\* The sum of nothing, and a sum with one value taken out.
LEMMA SumStep ==
  ASSUME NEW S, IsFiniteSet(S), NEW f \in [S -> Int]
  PROVE  /\ S = {} => SumFunction(f) = 0
         /\ SumFunction(f) \in Int
         /\ \A x \in S : SumFunction(f) = f[x] + SumFunction([y \in S \ {x} |-> f[y]])
<1>1. PICK g : AddsUp(g, f, S) /\ SumFunction(f) = g[S]
  <2>1. DOMAIN f = S
    OBVIOUS
  <2> QED
    BY <2>1, SumAddsUp
<1>2. \A s \in SUBSET S : g[s] \in Int /\ \A x \in s : g[s] = f[x] + g[s \ {x}]
  <2>1. \A x \in S : f[x] \in Int
    OBVIOUS
  <2> QED
    BY <1>1, <2>1, AnyFirst
<1>3. S = {} => g[S] = 0
  BY <1>1 DEF AddsUp
<1>4. ASSUME NEW x \in S
      PROVE  g[S \ {x}] = SumFunction([y \in S \ {x} |-> f[y]])
  <2> DEFINE R == S \ {x}
             e == [y \in R |-> f[y]]
  <2>1. IsFiniteSet(R) /\ e \in [R -> Int] /\ DOMAIN e = R
    BY FS_RemoveElement
  <2>2. \A y \in R : e[y] = f[y]
    OBVIOUS
  <2> HIDE DEF e
  <2>3. PICK h : AddsUp(h, e, R) /\ SumFunction(e) = h[R]
    BY <2>1, SumAddsUp
  <2>4. \A s \in SUBSET R : h[s] \in Int /\ \A y \in s : h[s] = e[y] + h[s \ {y}]
    <3>1. \A y \in R : e[y] \in Int
      BY <2>1
    <3> HIDE DEF R
    <3> QED
      BY <2>1, <2>3, <3>1, AnyFirst
  <2> DEFINE Bad == {s \in SUBSET R : g[s] # h[s]}
  <2>5. Bad = {}
    <3> SUFFICES ASSUME Bad # {} PROVE FALSE
      OBVIOUS
    <3>1. PICK s \in Bad : \A t \in Bad : ~(t \subseteq s /\ t # s)
      <4>1. Bad \in SUBSET SUBSET R /\ Bad # {}
        OBVIOUS
      <4> HIDE DEF Bad
      <4> QED
        BY <2>1, <4>1, SmallestSet
    <3>2. s \in SUBSET R /\ g[s] # h[s] /\ s \in SUBSET S
      OBVIOUS
    <3>3. s # {}
      BY <3>2, <1>1, <2>3 DEF AddsUp
    <3>4. PICK y \in s : TRUE
      BY <3>3
    <3>5. s \ {y} \in SUBSET R /\ g[s \ {y}] = h[s \ {y}]
      BY <3>1, <3>2
    <3>6. g[s] = f[y] + g[s \ {y}] /\ h[s] = e[y] + h[s \ {y}] /\ e[y] = f[y]
      BY <3>2, <1>2, <2>2, <2>4
    <3> QED
      BY <3>2, <3>5, <3>6
  <2>6. g[R] = h[R]
    BY <2>5
  <2> QED
    BY <2>3, <2>6 DEF e
<1>5. S \in SUBSET S
  OBVIOUS
<1> QED
  BY <1>1, <1>2, <1>3, <1>4, <1>5

\* The sum of f over A.
SumOver(f, A) == SumFunction([x \in A |-> f[x]])

\* SumOver is a number, nothing for nothing, and may be taken apart anywhere.
LEMMA SumOverStep ==
  ASSUME NEW A, IsFiniteSet(A), NEW f, \A x \in A : f[x] \in Int
  PROVE  /\ A = {} => SumOver(f, A) = 0
         /\ SumOver(f, A) \in Int
         /\ \A x \in A : SumOver(f, A) = f[x] + SumOver(f, A \ {x})
<1> DEFINE e == [x \in A |-> f[x]]
<1>1. e \in [A -> Int]
  OBVIOUS
<1>2. \A x \in A : e[x] = f[x] /\ [y \in A \ {x} |-> e[y]] = [y \in A \ {x} |-> f[y]]
  OBVIOUS
<1> HIDE DEF e
<1>3. /\ A = {} => SumFunction(e) = 0
      /\ SumFunction(e) \in Int
      /\ \A x \in A : SumFunction(e) = e[x] + SumFunction([y \in A \ {x} |-> e[y]])
  BY <1>1, SumStep
<1>4. SumOver(f, A) = SumFunction(e)
  BY DEF SumOver, e
<1>5. \A x \in A : SumOver(f, A \ {x}) = SumFunction([y \in A \ {x} |-> e[y]])
  BY <1>2 DEF SumOver
<1> QED
  BY <1>2, <1>3, <1>4, <1>5

\* The sum of two sets that share nothing.
LEMMA SumOfTwo ==
  ASSUME NEW A, IsFiniteSet(A), NEW B, IsFiniteSet(B), A \cap B = {},
         NEW f, \A x \in A \cup B : f[x] \in Int
  PROVE  SumOver(f, A \cup B) = SumOver(f, A) + SumOver(f, B)
<1> DEFINE Good(C) == SumOver(f, C \cup B) = SumOver(f, C) + SumOver(f, B)
           Bad == {C \in SUBSET A : ~Good(C)}
<1>1. \A C \in SUBSET A : /\ IsFiniteSet(C) /\ IsFiniteSet(C \cup B)
                          /\ SumOver(f, C) \in Int /\ SumOver(f, C \cup B) \in Int
  <2> SUFFICES ASSUME NEW C \in SUBSET A
               PROVE  /\ IsFiniteSet(C) /\ IsFiniteSet(C \cup B)
                      /\ SumOver(f, C) \in Int /\ SumOver(f, C \cup B) \in Int
    OBVIOUS
  <2>1. IsFiniteSet(C)
    BY FS_Subset
  <2>2. IsFiniteSet(C \cup B)
    BY <2>1, FS_Union
  <2>3. (\A x \in C : f[x] \in Int) /\ \A x \in C \cup B : f[x] \in Int
    OBVIOUS
  <2> QED
    BY <2>1, <2>2, <2>3, SumOverStep
<1>2. SumOver(f, B) \in Int
  <2>1. \A x \in B : f[x] \in Int
    OBVIOUS
  <2> QED
    BY <2>1, SumOverStep
<1>3. ASSUME Bad # {} PROVE FALSE
  <2>1. PICK C \in Bad : \A t \in Bad : ~(t \subseteq C /\ t # C)
    <3>1. Bad \in SUBSET SUBSET A /\ Bad # {}
      BY <1>3
    <3> HIDE DEF Bad
    <3> QED
      BY <3>1, SmallestSet
  <2>2. C \in SUBSET A /\ ~Good(C)
    OBVIOUS
  <2>3. C # {}
    <3> SUFFICES ASSUME C = {} PROVE Good(C)
      BY <2>2
    <3>1. SumOver(f, C) = 0
      BY <2>2, <1>1, SumOverStep
    <3>2. C \cup B = B
      OBVIOUS
    <3> QED
      BY <3>1, <3>2, <1>2
  <2>4. PICK x \in C : TRUE
    BY <2>3
  <2> DEFINE D == C \ {x}
  <2>5. Good(D) /\ D \in SUBSET A
    BY <2>1, <2>2, <2>4
  <2>6. (C \cup B) \ {x} = D \cup B /\ x \in C \cup B
    BY <2>2, <2>4
  <2>7. (\A y \in C : f[y] \in Int) /\ (\A y \in C \cup B : f[y] \in Int)
    BY <2>2
  <2>8. SumOver(f, C) = f[x] + SumOver(f, D)
    BY <2>2, <2>4, <2>7, <1>1, SumOverStep
  <2>9. SumOver(f, C \cup B) = f[x] + SumOver(f, D \cup B)
    <3>1. SumOver(f, C \cup B) = f[x] + SumOver(f, (C \cup B) \ {x})
      BY <2>2, <2>6, <2>7, <1>1, SumOverStep
    <3> QED
      BY <3>1, <2>6
  <2>10. f[x] \in Int
    BY <2>4, <2>7
  <2> HIDE DEF D, Bad
  <2>11. SumOver(f, D) \in Int /\ SumOver(f, D \cup B) = SumOver(f, D) + SumOver(f, B)
    BY <2>5, <1>1
  <2> QED
    BY <2>2, <2>8, <2>9, <2>10, <2>11, <1>2
<1>4. A \in SUBSET A
  OBVIOUS
<1> QED
  BY <1>3, <1>4

\* Grouping: when F has for each of T the sum of its group, it sums up to all.
LEMMA SumOfGroups ==
  ASSUME NEW T, IsFiniteSet(T), NEW M, IsFiniteSet(M),
         NEW f, \A i \in M : f[i] \in Int,
         NEW K, \A i \in M : K[i] \in T,
         NEW F, \A t \in T : F[t] = SumOver(f, {i \in M : K[i] = t})
  PROVE  SumOver(F, T) = SumOver(f, M)
<1> DEFINE Part(U) == {i \in M : K[i] \in U}
           Good(U) == SumOver(F, U) = SumOver(f, Part(U))
           Bad == {U \in SUBSET T : ~Good(U)}
<1>1. \A A \in SUBSET M : /\ IsFiniteSet(A) /\ (\A i \in A : f[i] \in Int)
                          /\ SumOver(f, A) \in Int /\ (A = {} => SumOver(f, A) = 0)
  <2> SUFFICES ASSUME NEW A \in SUBSET M
               PROVE  /\ IsFiniteSet(A) /\ (\A i \in A : f[i] \in Int)
                      /\ SumOver(f, A) \in Int /\ (A = {} => SumOver(f, A) = 0)
    OBVIOUS
  <2>1. IsFiniteSet(A)
    BY FS_Subset
  <2>2. \A i \in A : f[i] \in Int
    OBVIOUS
  <2> QED
    BY <2>1, <2>2, SumOverStep
<1>2. \A t \in T : F[t] \in Int
  BY <1>1
<1>3. ASSUME Bad # {} PROVE FALSE
  <2>1. PICK U \in Bad : \A V \in Bad : ~(V \subseteq U /\ V # U)
    <3>1. Bad \in SUBSET SUBSET T /\ Bad # {}
      BY <1>3
    <3> HIDE DEF Bad
    <3> QED
      BY <3>1, SmallestSet
  <2>2. U \in SUBSET T /\ ~Good(U)
    OBVIOUS
  <2>3. IsFiniteSet(U) /\ \A t \in U : F[t] \in Int
    BY <2>2, <1>2, FS_Subset
  <2>4. U # {}
    <3> SUFFICES ASSUME U = {} PROVE Good(U)
      BY <2>2
    <3>1. SumOver(F, U) = 0
      BY <2>3, SumOverStep
    <3>2. Part(U) = {} /\ Part(U) \in SUBSET M
      OBVIOUS
    <3> HIDE DEF Part
    <3> QED
      BY <3>1, <3>2, <1>1
  <2>5. PICK t \in U : TRUE
    BY <2>4
  <2> DEFINE V == U \ {t}
             mine == {i \in M : K[i] = t}
  <2>6. Good(V)
    BY <2>1, <2>2, <2>5
  <2>7. SumOver(F, U) = F[t] + SumOver(F, V)
    BY <2>3, <2>5, SumOverStep
  <2>8. /\ mine \cap Part(V) = {} /\ mine \cup Part(V) = Part(U)
        /\ mine \in SUBSET M /\ Part(V) \in SUBSET M
    BY <2>5
  <2>9. F[t] = SumOver(f, mine)
    BY <2>2, <2>5
  <2>10. SumOver(f, Part(U)) = SumOver(f, mine) + SumOver(f, Part(V))
    <3>1. \A i \in mine \cup Part(V) : f[i] \in Int
      OBVIOUS
    <3> HIDE DEF mine, Part
    <3>2. IsFiniteSet(mine) /\ IsFiniteSet(Part(V))
      BY <2>8, <1>1
    <3>3. SumOver(f, mine \cup Part(V)) = SumOver(f, mine) + SumOver(f, Part(V))
      BY <2>8, <3>1, <3>2, SumOfTwo
    <3> QED
      BY <3>3, <2>8
  <2> QED
    BY <2>2, <2>6, <2>7, <2>9, <2>10
<1>4. T \in SUBSET T /\ Part(T) = M
  OBVIOUS
<1> HIDE DEF Part
<1> QED
  BY <1>3, <1>4

-------------------------------------------------------------------------------
(* What the sales add up to *)

\* As long as one file was loaded the table holds its baskets, however often and
\* with what failures between.
LoadedInv ==
  /\ file \in Files \cup {NoFile} /\ loaded \subseteq Files
  /\ loaded = {} => table = <<>>
  /\ \A f \in Files : loaded = {f} => table = Baskets(f)

\* Loading the same file again changes nothing, and the first one is all there is.
LEMMA LoadedStep == LoadedInv /\ [Next]_vars => LoadedInv'
<1> SUFFICES ASSUME LoadedInv, [Next]_vars PROVE LoadedInv'
  OBVIOUS
<1>1. CASE Start
  <2>1. /\ file \in Files /\ loaded' = loaded \cup {file} /\ file' = file
        /\ table' = Upserted(Baskets(file))
    BY <1>1 DEF Start, LoadedInv
  <2>2. ASSUME NEW f \in Files, loaded' = {f} PROVE table' = Baskets(f)
    <3>1. file = f /\ (loaded = {} \/ loaded = {f})
      BY <2>1, <2>2
    <3>2. Baskets(f) = [id \in DOMAIN Baskets(f) |-> Baskets(f)[id]]
      BY DEF Baskets
    <3>3. CASE loaded = {}
      <4>1. DOMAIN table = {}
        BY <3>3 DEF LoadedInv
      <4>2. DOMAIN table \cup DOMAIN Baskets(f) = DOMAIN Baskets(f)
        BY <4>1
      <4> QED
        BY <2>1, <3>1, <3>2, <4>2 DEF Upserted
    <3>4. CASE loaded = {f}
      <4>1. table = Baskets(f)
        BY <3>4 DEF LoadedInv
      <4>2. DOMAIN table \cup DOMAIN Baskets(f) = DOMAIN Baskets(f)
        BY <4>1
      <4> QED
        BY <2>1, <3>1, <3>2, <4>2 DEF Upserted
    <3> QED
      BY <3>1, <3>3, <3>4
  <2> QED
    BY <2>1, <2>2 DEF LoadedInv
<1>2. CASE UNCHANGED <<table, loaded>> /\ file' \in Files \cup {NoFile}
  BY <1>2 DEF LoadedInv
<1>3. Start \/ (UNCHANGED <<table, loaded>> /\ file' \in Files \cup {NoFile})
  BY DEF Next, Deliver, Replace, StartWithoutSales, Stop, vars, LoadedInv
<1> QED
  BY <1>1, <1>2, <1>3

\* The sales of a table that holds one file are its baskets at this store, and
\* their amounts are those of its line items.
LEMMA TakingsOfFile ==
  ASSUME NEW f \in Files, table = Baskets(f)
  PROVE  LET mine == {i \in Readable(f) : f[i].store \in MatchingStores}
         IN /\ DayFigures(Sales).gmv = SumFunction([i \in mine |-> f[i].amount])
            /\ DayFigures(Sales).transactions
                 = Cardinality({<<f[i].store, f[i].time>> : i \in mine})
<1> DEFINE mine == {i \in Readable(f) : f[i].store \in MatchingStores}
           ids == {<<f[i].store, f[i].time>> : i \in mine}
           Group(id) == {i \in Readable(f) : BasketId(f[i]) = id}
           Sale(id) == [id |-> id, ts |-> table[id].ts, amount |-> table[id].amount]
           sale == [id \in ids |-> Sale(id)]
           amounts == [i \in mine |-> f[i].amount]
           owner == [i \in mine |-> Sale(BasketId(f[i]))]
           takings == [t \in Sales |-> t.amount]
<1>1. IsFiniteSet(DOMAIN f) /\ \A i \in DOMAIN f : f[i].amount \in Int
  <2>1. f \in Seq({f[i] : i \in DOMAIN f}) /\ \A i \in DOMAIN f : f[i].amount \in Int
    BY FilesAssumption
  <2>2. DOMAIN f = 1..Len(f) /\ Len(f) \in Nat
    BY <2>1
  <2> QED
    BY <2>1, <2>2, FS_Interval
<1>2. IsFiniteSet(mine) /\ mine \subseteq DOMAIN f /\ mine \subseteq Readable(f)
  <2>1. mine \in SUBSET DOMAIN f /\ mine \subseteq Readable(f)
    BY DEF Readable
  <2> QED
    BY <1>1, <2>1, FS_Subset
<1>3. /\ DOMAIN table = {BasketId(f[i]) : i \in Readable(f)}
      /\ \A id \in DOMAIN table : table[id].amount = SumFunction([i \in Group(id) |-> f[i].amount])
  BY DEF Baskets
<1>4. ids = {b \in DOMAIN table : b[1] \in MatchingStores}
  BY <1>3 DEF BasketId
<1>5. Sales = {sale[id] : id \in ids}
  BY <1>4 DEF Sales
<1>6. IsFiniteSet(ids)
  <2> DEFINE key == [i \in mine |-> <<f[i].store, f[i].time>>]
  <2>1. DOMAIN key = mine /\ key = [i \in mine |-> key[i]] /\ ids = {key[i] : i \in mine}
    OBVIOUS
  <2> HIDE DEF key, mine, ids
  <2> QED
    BY <1>2, <2>1, FiniteImage
<1>7. IsFiniteSet(Sales) /\ Cardinality(Sales) = Cardinality(ids)
  <2>1. DOMAIN sale = ids /\ sale = [id \in ids |-> sale[id]] /\ \A id \in ids : sale[id].id = id
    OBVIOUS
  <2> HIDE DEF ids, sale
  <2>2. sale \in Bijection(ids, Sales)
    <3>1. sale \in [ids -> Sales]
      BY <1>5, <2>1
    <3>2. \A a, b \in ids : sale[a] = sale[b] => a = b
      BY <2>1
    <3>3. \A t \in Sales : \E id \in ids : sale[id] = t
      BY <1>5
    <3> QED
      BY <3>1, <3>2, <3>3, Fun_IsBij
  <2>3. ExistsBijection(ids, Sales)
    BY <2>2 DEF ExistsBijection
  <2> QED
    BY <1>6, <2>3, FS_Bijection
<1>8. \A i \in mine : /\ owner[i] \in Sales /\ owner[i].id = BasketId(f[i])
                      /\ amounts[i] \in Int
  BY <1>1, <1>2, <1>5 DEF BasketId
<1>9. ASSUME NEW t \in Sales
      PROVE  takings[t] = SumOver(amounts, {i \in mine : owner[i] = t})
  <2>1. PICK id \in ids : t = Sale(id)
    BY <1>5
  <2>2. id \in DOMAIN table /\ id[1] \in MatchingStores /\ t.amount = table[id].amount
    BY <2>1, <1>4
  <2>3. {i \in mine : owner[i] = t} = Group(id)
    <3>1. \A i \in Readable(f) : BasketId(f[i]) = id => i \in mine
      BY <2>2 DEF BasketId
    <3>2. \A i \in mine : owner[i] = t <=> BasketId(f[i]) = id
      BY <2>1, <1>8
    <3> QED
      BY <3>1, <3>2, <1>2
  <2>4. [i \in Group(id) |-> amounts[i]] = [i \in Group(id) |-> f[i].amount]
    BY <2>3
  <2>5. takings[t] = SumFunction([i \in Group(id) |-> f[i].amount])
    BY <2>2, <1>3
  <2> QED
    BY <2>3, <2>4, <2>5 DEF SumOver
<1> HIDE DEF mine, owner, amounts, takings, ids
<1>10. SumOver(takings, Sales) = SumOver(amounts, mine)
  BY <1>2, <1>7, <1>8, <1>9, SumOfGroups
<1>11. SumOver(takings, Sales) = DayFigures(Sales).gmv
  <2>1. [t \in Sales |-> takings[t]] = [t \in Sales |-> t.amount]
    BY DEF takings
  <2> QED
    BY <2>1 DEF SumOver, DayFigures
<1>12. SumOver(amounts, mine) = SumFunction([i \in mine |-> f[i].amount])
  <2>1. [i \in mine |-> amounts[i]] = [i \in mine |-> f[i].amount]
    BY DEF amounts
  <2> QED
    BY <2>1 DEF SumOver
<1>13. DayFigures(Sales).transactions = Cardinality(ids)
  BY <1>7 DEF DayFigures
<1> QED
  BY <1>10, <1>11, <1>12, <1>13 DEF ids, mine

\* A sales file counts once, whatever number of restarts load it, and every
\* readable line item of the store is in the takings.
THEOREM EachSaleCountsOnce == Spec => []TakingsCountOnce
<1>1. Init => LoadedInv
  BY DEF Init, LoadedInv
<1>2. LoadedInv /\ [Next]_vars => LoadedInv'
  BY LoadedStep
<1>3. LoadedInv => TakingsCountOnce
  <2> SUFFICES ASSUME LoadedInv, NEW f \in Files, loaded = {f}
               PROVE  LET mine == {i \in Readable(f) : f[i].store \in MatchingStores}
                      IN /\ Metrics(events, Sales).day.gmv
                              = SumFunction([i \in mine |-> f[i].amount])
                         /\ Metrics(events, Sales).day.transactions
                              = Cardinality({<<f[i].store, f[i].time>> : i \in mine})
    BY DEF TakingsCountOnce
  <2>1. table = Baskets(f)
    BY DEF LoadedInv
  <2>2. Metrics(events, Sales).day = DayFigures(Sales)
    BY DEF Metrics, MetricsOf
  <2> QED
    BY <2>1, <2>2, TakingsOfFile
<1> QED
  BY <1>1, <1>2, <1>3, PTL DEF Spec

===============================================================================
