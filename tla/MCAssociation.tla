---------------------------- MODULE MCAssociation ----------------------------
(* Four tracks on a 30 fps clip sampled at 10 fps: a local can be continued  *)
(* after two or three missed frames, and not later.                         *)
EXTENDS Association, TLC

CONSTANTS t1, t2, t3, t4

MCTracks == {t1, t2, t3, t4}
Symmetry == Permutations(MCTracks)

===============================================================================
