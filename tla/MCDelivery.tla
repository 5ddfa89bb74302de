------------------------------ MODULE MCDelivery ------------------------------
(* Three events of two cameras, posted two at a time: the first camera ends  *)
(* with a partial batch, the second one with a full one.                    *)
EXTENDS Delivery

MCCameraEnds == {1, 3}

===============================================================================
