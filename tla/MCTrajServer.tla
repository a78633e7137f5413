----------------------------- MODULE MCTrajServer -----------------------------
(* TrajServer on a line of five places and a circle of eight directions. *)
EXTENDS TrajServer

FewHeadings == {-3, 2}
=============================================================================
