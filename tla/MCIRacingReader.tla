-------------------------- MODULE MCIRacingReader ---------------------------
(***************************************************************************)
(* IRacingReader for TLC.                                                  *)
(***************************************************************************)
EXTENDS IRacingReader, TLC

CONSTANTS w1, w2

\* Scalars and an array.
SomeVariables == {{w1}, {w2}, {w1, w2}}

Symmetry == Permutations({w1, w2})
=============================================================================
