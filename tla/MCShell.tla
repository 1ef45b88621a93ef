------------------------------ MODULE MCShell ------------------------------
(* An instance of Shell for TLC. *)
EXTENDS Shell, TLC

CONSTANTS p1, p2

TwoPids == {p1, p2}
=============================================================================
