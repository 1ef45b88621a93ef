--------------------------- MODULE MCCreamServer ---------------------------
(* Instances of CreamServer for TLC. *)
EXTENDS CreamServer

CONSTANTS u1, u2, u3, w1, w2, k1

TwoClients == {u1, u2}
ThreeClients == {u1, u2, u3}
TwoWorkers == {w1, w2}
OneKey == {k1}
PutGetOther == {"PUT", "GET", "OTHER"}

Symmetry == Permutations(Clients) \cup Permutations(Workers)

\* Bounds a run to connections that do not overlap.
InTurn == ~rushed
=============================================================================
