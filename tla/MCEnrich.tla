------------------------------- MODULE MCEnrich ------------------------------
(* Three visitors of two stores, who arrive at any of six moments, one of    *)
(* whom may come a second time and waits at the checkout.                   *)
EXTENDS Enrich

Ev(store, visitor, type, ts) ==
  [store |-> store, visitor |-> visitor, type |-> type, ts |-> ts, zone |-> None, dwell |-> 0,
   labels |-> NoLabels]
AtCheckout(type, ts, dwell) ==
  [Ev("a", 1, type, ts) EXCEPT !.zone = "checkout", !.dwell = dwell]

Moments == 0..5

MCPasses ==
  {<<Ev("a", 1, "ENTRY", t1), Ev("a", 2, "ENTRY", t2), Ev(s3, 3, "ENTRY", t3)>>
     \o rest :
     t1 \in Moments, t2 \in Moments, t3 \in Moments, s3 \in {"a", "b"},
     rest \in {<<>>, <<Ev("a", 1, "ENTRY", 9)>>,
               <<AtCheckout("BILLING_QUEUE_JOIN", 7, 0), AtCheckout("ZONE_DWELL", 7, 1500),
                 AtCheckout("ZONE_EXIT", 8, 2500)>>}}

MCSidecars == {{}, {<<"a", 1>>}}

===============================================================================
