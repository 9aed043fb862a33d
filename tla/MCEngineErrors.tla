--------------------------- MODULE MCEngineErrors ---------------------------
(* Two variables, one or two workers.                                       *)
EXTENDS EngineErrors, TLC

CONSTANTS x, y

MCVar == {x, y}
Symmetry == Permutations(MCVar)
=============================================================================
