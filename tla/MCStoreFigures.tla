---------------------------- MODULE MCStoreFigures ----------------------------
(* A store for the model checker: an afternoon of four people, one of whom is  *)
(* flagged as staff only at the checkout, and a sales file with a correction.  *)
EXTENDS StoreFigures, TLC

MCStoreCameras ==
  {[zone |-> "makeup",  customerArea |-> TRUE,  entrance |-> FALSE],
   [zone |-> "billing", customerArea |-> TRUE,  entrance |-> FALSE],
   [zone |-> "entry",   customerArea |-> TRUE,  entrance |-> TRUE],
   [zone |-> "stock",   customerArea |-> FALSE, entrance |-> FALSE]}

Event(v, type, ts, zone, dwell, depth, staff) ==
  [visitor |-> v, type |-> type, ts |-> ts, zone |-> zone, dwell |-> dwell,
   depth |-> depth, staff |-> staff]

\* 21:15 is 1275; the store closes at 22:00, 1320.
MCLog ==
  {Event("a", "ENTRY",              1275, NoZone,    0,  0, FALSE),
   Event("a", "ZONE_ENTER",         1276, "makeup",  0,  0, FALSE),
   Event("a", "ZONE_EXIT",          1310, "makeup",  34, 0, FALSE),
   Event("a", "BILLING_QUEUE_JOIN", 1312, "billing", 0,  5, FALSE),
   Event("b", "BILLING_QUEUE_JOIN", 1280, "billing", 0,  3, FALSE),
   Event("b", "ZONE_EXIT",          1283, "billing", 3,  0, FALSE),
   Event("c", "ZONE_DWELL",         1279, "makeup",  1,  0, FALSE),
   Event("c", "EXIT",               1330, NoZone,    0,  0, FALSE),
   Event("s", "ZONE_EXIT",          1305, "makeup",  5,  0, FALSE),
   Event("s", "BILLING_QUEUE_JOIN", 1311, "billing", 0,  6, TRUE)}

MCParsedTime == "t1" :> 1285 @@ "t2" :> 1317 @@ "t3" :> 1319

Item(store, time, amount) == [store |-> store, time |-> time, amount |-> amount]

MCFiles ==
  {<<Item("here", "t1", 3), Item("here", "t1", 3), Item("there", "t1", 9),
     Item("here", "?", 4), Item("here", "t2", 2)>>,
   <<Item("here", "t1", 3), Item("here", "t3", 0)>>}

===============================================================================
