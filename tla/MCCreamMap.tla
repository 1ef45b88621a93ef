---------------------------- MODULE MCCreamMap ----------------------------
(* Instances of CreamMap for TLC. *)
EXTENDS CreamMap, TLC

CONSTANTS t1, t2, t3, k1, k2, k3

MCThreads == {t1, t2, t3}
TwoThreads == {t1, t2}
MCKeys == {k1, k2}

\* Both keys have the same home slot.
Colliding == [k \in MCKeys |-> 1]

\* Every key has a home slot of its own.
OwnSlots == k1 :> 1 @@ k2 :> 0

Symmetry == Permutations(MCThreads)
=============================================================================
