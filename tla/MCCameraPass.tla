----------------------------- MODULE MCCameraPass ----------------------------
(* One track on the two calibrated cameras of store ST1008, with boxes in    *)
(* the places that the gates tell apart, and two tracks on the checkout of   *)
(* store ST1009, which has neither line nor floor.                           *)
EXTENDS CameraPass

At(x, y) == [x |-> x, y |-> y]
Box(w, h, x, y) == [x1 |-> x - w \div 2, y1 |-> y - h, x2 |-> x + w \div 2, y2 |-> y]
Shopper(x, y) == Box(120, 300, x, y)
Only1(places) == <<places, {}>>
Frame == [w |-> 1920, h |-> 1080]

\* CAM3: outside in the mall, on the line, inside, and small behind the glass.
Entrance ==
  [frame |-> Frame, floor |-> <<>>, line |-> [from |-> At(320, 490), to |-> At(1140, 415)],
   boxes |-> Only1({Shopper(700, 900), Shopper(648, 460), Shopper(700, 430),
                    Box(38, 80, 700, 430)})]

\* CAM5: on the floor, the last at the height of a vertex; on the display to the
\* right and left of it at such a height; in the back doorway; on the lower
\* edge of the floor and of the picture; and small.
Checkout ==
  [frame |-> Frame, line |-> NoLine,
   floor |-> <<At(120, 1080), At(1310, 1080), At(1330, 700), At(1180, 460), At(740, 400),
               At(430, 470), At(170, 760)>>,
   boxes |-> Only1({Shopper(700, 900), Shopper(900, 700), Shopper(600, 470), Shopper(1500, 700),
                    Shopper(90, 760), Shopper(700, 330), Shopper(600, 1080),
                    Box(38, 80, 700, 900)})]

Unmasked ==
  [frame |-> [w |-> 960, h |-> 1080], line |-> NoLine, floor |-> <<>>,
   boxes |-> <<{Shopper(300, 700)}, {Shopper(500, 700)}>>]

MCCameras == {Entrance, Checkout, Unmasked}
MCTracks == {1, 2}
MCInsideSign == -1

\* The hypothesis about the floors that the theorem on who counts has: at the
\* places above, and at every tenth pixel of the picture, which takes in the
\* heights of all vertices.
ASSUME PlacesAreClear == FloorsAreClear
ASSUME CheckoutIsClear ==
  \A x \in 0..192, y \in 0..108 : TellsFloor(Checkout.floor, At(10 * x, 10 * y))

===============================================================================
