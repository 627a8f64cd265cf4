-------------------------- MODULE MCIRacingClient ---------------------------
(***************************************************************************)
(* IRacingClient, with the reads and the simulator, for TLC.               *)
(***************************************************************************)
EXTENDS IRacingClient, TLC

CONSTANTS w1, w2, h1, h2

\* Scalars and an array.
SomeVariables == {{w1}, {w2}, {w1, w2}}

Symmetry == Permutations({w1, w2}) \cup Permutations({h1, h2})
=============================================================================
