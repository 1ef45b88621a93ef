--------------------------- MODULE MCCreamQueue ---------------------------
(* Instances of CreamQueue for TLC. *)
EXTENDS CreamQueue

CONSTANTS p1, p2, c1, c2, d1, d2

MCProducers == {p1, p2}
MCConsumers == {c1, c2}
MCDestroyers == {d1, d2}
NoDestroyer == {}
=============================================================================
