----------------------------- MODULE MCGroupSplit ----------------------------
(* Two boxes on a 30 fps clip sampled at 10 fps.  The left one may hold two  *)
(* people, one of whom stands in the right one too where the boxes overlap.  *)
EXTENDS GroupSplit

MCTracks == {1, 2, 10, 11}

Person(x, foot) == [cx |-> x, cy |-> 2, footX |-> foot]
Left  == Person(2, 1)
Right == Person(6, 7)
Far   == Person(20, 20)

Wide   == [id |-> 1, x |-> 0, y |-> 0, w |-> 8, h |-> 4]
Narrow == [id |-> 1, x |-> 0, y |-> 0, w |-> 3, h |-> 4]
Other  == [id |-> 2, x |-> 5, y |-> 0, w |-> 3, h |-> 4]

SceneOf(boxes, people) == [boxes |-> boxes, people |-> people]

MCScenes ==
  {SceneOf({}, <<>>), SceneOf({Other}, <<>>), SceneOf({Narrow}, <<Left, Right>>),
   SceneOf({Wide, Other}, <<Left, Far>>)}
  \cup {SceneOf(boxes, people) : boxes \in {{Wide}, {Wide, Other}},
          people \in {<<Left, Right>>, <<Right, Far, Left>>}}

===============================================================================
