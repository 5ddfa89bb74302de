----------------------------- MODULE MCDetector ------------------------------
(* An entrance camera, then one on the floor or at the checkout, and small   *)
(* clips in units of one frame.                                             *)
EXTENDS Detector

CONSTANTS t1, t2

Entrance(tracks) == [line |-> TRUE, checkout |-> FALSE, tracks |-> tracks]
Floor(tracks)    == [line |-> FALSE, checkout |-> FALSE, tracks |-> tracks]
Checkout(tracks) == [line |-> FALSE, checkout |-> TRUE, tracks |-> tracks]

MCTracks == {t1, t2}

EntranceThenFloor    == <<Entrance({t1}), Floor({t1})>>
EntranceThenCheckout == <<Entrance({t1}), Checkout(MCTracks)>>

\* Every track number is one person, on every camera.
PersonOfTrack == [k \in Keys |-> k[2]]

===============================================================================
