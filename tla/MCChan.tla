-------------------------------- MODULE MCChan --------------------------------
(* Instances of Chan for TLC: threads and items are model values. *)
EXTENDS Chan

CONSTANTS p1, p2, c1, c2, a, b

TwoProducers == {p1, p2}
TwoConsumers == {c1, c2}
TwoItems == {a, b}
===============================================================================
