--------------------------- MODULE MCSfAllocator ---------------------------
(* Instances of SfAllocator for TLC. *)
EXTENDS SfAllocator

CONSTANTS u1, u2, u3

MCUsers == {u1, u2, u3}
Symmetry == Permutations(MCUsers)

\* What follows the harm is followed for a few calls only: the properties of the
\* passing run are about the histories without.
HarmedBriefly == harmed => calls <= 2
=============================================================================
