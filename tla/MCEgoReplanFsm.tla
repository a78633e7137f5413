--------------------------- MODULE MCEgoReplanFsm ---------------------------
(***************************************************************************)
(* EgoReplanFsm on a 4 m box with one keep-out cylinder: two goals the     *)
(* gate lets in, one below the floor, one outside the box and one inside   *)
(* the keep-out; a preset tour of two waypoints.                           *)
(***************************************************************************)
EXTENDS EgoReplanFsm

P(px, py, pz) == [x |-> px, y |-> py, z |-> pz]

MCGateMin == P(-20, -20, -5)
MCGateMax == P(20, 20, 30)
MCKeepouts == {[x |-> 0, y |-> 10, r |-> 5]}
MCGoals == {P(10, 0, 10), P(-10, 0, 10), P(0, 0, -4), P(30, 0, 10), P(3, 12, 10)}
MCOpenGoals == {P(10, 0, 10), P(-10, 0, 10)}
MCWps == <<P(10, 0, 10), P(-10, 0, 10)>>
=============================================================================
