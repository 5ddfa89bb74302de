------------------------------- MODULE MCIngest -------------------------------
(* Three overlapping requests on two ids and two versions of each.          *)
EXTENDS Ingest

CONSTANTS a, b, v1, v2

Ev(id, ver) == [id |-> id, ver |-> ver]

\* Overlapping, reordered, with a repeated id, with an invalid entry, empty,
\* all invalid, and one too long.
MCBatches ==
  { <<Ev(a, v1), Ev(b, v1)>>,
    <<Ev(b, v2), Ev(a, v2)>>,
    <<Ev(b, v2), Invalid, Ev(b, v1)>>,
    <<Ev(a, v2)>>,
    <<Invalid>>,
    <<>>,
    <<Ev(a, v1), Ev(b, v1), Ev(a, v2), Ev(b, v2)>> }

===============================================================================
