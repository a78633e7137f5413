------------------------- MODULE MCReboundOptimizer -------------------------
(***************************************************************************)
(* ReboundOptimizer with slopes that are steep, flat and turned, and costs *)
(* that let the iterations run out one way and a single step go to its end *)
(* the other.                                                              *)
(***************************************************************************)
EXTENDS ReboundOptimizer

MCCosts == {-17, -1, 0, 1}
MCSlopes == {-8, -3, 1, 3}
=============================================================================
