--------------------------- MODULE MCQosmChannel ---------------------------
(* Instances of QosmChannel: two ends, two ports.                          *)
EXTENDS QosmChannel

CONSTANTS a, b, p1, p2

TwoTcids == {1, 2}
BothSides == (a :> 3) @@ (b :> 1)
AllPorts == (a :> {p1, p2}) @@ (b :> {p1})
=============================================================================
