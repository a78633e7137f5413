--------------------------- MODULE MCBridgeAndWalk ---------------------------
(***************************************************************************)
(* The pose bridges and the walk along a guide path share no state, only   *)
(* exact vectors (Rotations); they are checked in one run.  A behaviour is *)
(* one of the bridges, or one of the walk.                                 *)
(***************************************************************************)
EXTENDS VisualBridge, GuideWalk

\* Level with two headings, rolled, nose up, and a combination.
SomeAttitudes == {Identity, Yaw, Roll, Pitch, Times(Yaw, InverseOf(Pitch))}
TwoHeadings == {Identity, Yaw}
Here == <<0, 0, 0>>
There == <<2, 4, -6>>
TwoPositions == {Here, There}
TwoVelocities == {<<1, 0, 0>>, <<0, 3, -2>>}
\* A map may lie in any way; a Z-up world has its Z axis along -down.
TwoMaps == {Times(Roll, Yaw), Pitch}
EastNorthUp == <<<<0, 1, 0>>, <<1, 0, 0>>, <<0, 0, -1>>>>
TwoWorlds == {EastNorthUp, Times(Yaw, EastNorthUp)}
Ahead == <<2, 0, 4>>
Tilted == Pitch

\* All segments of two to four control points in six cells of a plane, from one of
\* its corners on and in any order, with all paths of three and four cells between
\* their ends: straight ones, bent ones, ones that turn back or stand still.
Cells == {<<x, y, 0>> : x \in 0 .. 2, y \in 0 .. 1}
Segments(n) == {<< <<0, 0, 0>> >> \o rest : rest \in [1 .. n - 1 -> Cells]}
Between(pts, inner) == <<pts[1]>> \o inner \o <<pts[Len(pts)]>>
AllScenes ==
  UNION {{[points |-> pts, guide |-> Between(pts, inner)] :
            inner \in [1 .. n - 2 -> Cells], pts \in Segments(m)} :
         n \in 3 .. 4, m \in 2 .. 4}

NoWalk ==
  /\ points = << >> /\ guide = << >> /\ pushes = << >>
  /\ plane = 0 /\ at = 0 /\ val = 0 /\ last_val = 0
  /\ cut = Unset /\ got = None
  /\ step = "none"
OneBridge == Init /\ source = "optitrack" /\ frame = EastNorthUp

MCInit == (Init /\ NoWalk) \/ (OneBridge /\ WalkInit)
MCNext ==
  \/ step = "none" /\ Next /\ UNCHANGED walkVars
  \/ WalkNext /\ UNCHANGED vars
MCSpec == MCInit /\ [][MCNext]_<<vars, walkVars>>
=============================================================================
