-------------------------------- MODULE MCStaff --------------------------------
(* Three tracks, two of which are of one visitor.                               *)
EXTENDS Staff, TLC
CONSTANTS t1, t2, t3, v1, v2

MCVisitor == t1 :> v1 @@ t2 :> v1 @@ t3 :> v2

\* The two tracks of one visitor are alike.
Symmetry == Permutations({t1, t2})

===============================================================================
