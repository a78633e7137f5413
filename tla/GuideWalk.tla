------------------------------ MODULE GuideWalk ------------------------------
(***************************************************************************)
(* How BsplineOptimizer finds where a control point is to be pushed to     *)
(* (bspline_optimizer.cpp: initControlPoints, check_collision_and_rebound):*)
(* for each point between the ends of a segment, the crossing of its guide *)
(* path with the plane through the point, normal to the line between its   *)
(* neighbours; for a segment of two points, with the plane midway.  The    *)
(* walk starts at the middle of the path and reads it before the loop's    *)
(* guard sees the index.                                                   *)
(*                                                                         *)
(* One segment, its control points and its guide path wherever they are,   *)
(* in integers; points of the segment and cells of the path are numbered   *)
(* from 1.  What the code reads outside the path, or from an intersection  *)
(* it never set, may be anything.  A crossing nearer to the point than the *)
(* code's threshold is one at the point.  In a rebound fewer planes are    *)
(* looked at: those of a piece of the segment, none where that has two     *)
(* points.  (ControlPoints does the rest of a segment's treatment, for     *)
(* segments along a row.)                                                  *)
(***************************************************************************)
EXTENDS Rotations, Sequences

CONSTANT Scenes        \* a segment's control points and its guide path

ASSUME ScenesAssumption ==
  \A scene \in Scenes :
    /\ scene.points \in Seq(Vectors) /\ Len(scene.points) >= 2
    /\ scene.guide \in Seq(Vectors) /\ Len(scene.guide) >= 2

VARIABLES
  points, guide,       \* the segment's control points, its a_star_path
  plane,               \* j: the control point whose plane is looked at
  at, val, last_val,   \* Astar_id, and which side of the plane it is on
  cut,                 \* intersection_point: the cells of the path it lies between
  got,                 \* got_intersection_id
  pushes,              \* base_point and direction, point by point
  step                 \* where the loop is

walkVars == <<points, guide, plane, at, val, last_val, cut, got, pushes, step>>

Unset == [to |-> 0, from |-> 0]
None == 0

Short(pts) == Len(pts) = 2
FirstPlane(pts) == IF Short(pts) THEN 1 ELSE 2
LastPlane(pts) == Len(pts) - 1

\* ctrl_pts_law, and twice the point of the plane.
Normal(pts, j) ==
  IF Short(pts) THEN Minus(pts[2], pts[1]) ELSE Minus(pts[j + 1], pts[j - 1])
Twice(pts, j) == IF Short(pts) THEN Plus(pts[1], pts[2]) ELSE Scaled(2, pts[j])

\* On which side of a plane a place is: negative behind it, positive ahead.
Side(pts, j, place) == Dot(Minus(Scaled(2, place), Twice(pts, j)), Normal(pts, j))

OnGuide(k) == k \in 1 .. Len(guide)
Middle == Len(guide) \div 2 + 1

\* The crossing between two cells is the plane's own point.
AtThePoint(c) ==
  LET u == Side(points, plane, guide[c.to])
      v == Side(points, plane, guide[c.from])
  IN Minus(Scaled(u, Scaled(2, guide[c.from])), Scaled(v, Scaled(2, guide[c.to])))
       = Scaled(u - v, Twice(points, plane))

-----------------------------------------------------------------------------
WalkInit ==
  /\ \E scene \in Scenes : points = scene.points /\ guide = scene.guide
  /\ plane = FirstPlane(points) - 1
  /\ at = 1 /\ val = 0 /\ last_val = 0
  /\ cut = Unset
  /\ got = None
  /\ pushes = [j \in 1 .. Len(points) |-> << >>]
  /\ step = "plane"

\* The loop's declarations: the intersection point gets no value.
NextPlane ==
  /\ step = "plane"
  /\ plane < LastPlane(points)
  /\ plane' = plane + 1
  /\ at' = Middle
  /\ val' = Side(points, plane', guide[Middle])
  /\ last_val' = val'
  /\ cut' = Unset
  /\ step' = "walk"
  /\ UNCHANGED <<points, guide, got, pushes>>

\* Mutant: a cell in the plane counts as behind it.
WalkWhenAhead ==
  /\ step = "walk" /\ OnGuide(at)
  /\ at' = IF val > 0 THEN at - 1 ELSE at + 1
  /\ val' \in IF OnGuide(at') THEN {Side(points, plane, guide[at'])} ELSE {-1, 0, 1}
  /\ IF val' * last_val <= 0 /\ (val' # 0 \/ last_val # 0)
     THEN /\ cut' = [to |-> at', from |-> at]
          /\ got' = IF Short(points) THEN got ELSE plane
          /\ step' = "push"
     ELSE UNCHANGED <<cut, got, step>>
  /\ UNCHANGED <<points, guide, plane, last_val, pushes>>

\* One turn of the while: the first value stays in last_val.
Walk ==
  /\ step = "walk" /\ OnGuide(at)
  /\ at' = IF val >= 0 THEN at - 1 ELSE at + 1
  /\ val' \in IF OnGuide(at') THEN {Side(points, plane, guide[at'])} ELSE {-1, 0, 1}
  /\ IF val' * last_val <= 0 /\ (val' # 0 \/ last_val # 0)
     THEN /\ cut' = [to |-> at', from |-> at]
          /\ got' = IF Short(points) THEN got ELSE plane
          /\ step' = "push"
     ELSE UNCHANGED <<cut, got, step>>
  /\ UNCHANGED <<points, guide, plane, last_val, pushes>>

\* The guard fails.
LeaveGuide ==
  /\ step = "walk" /\ ~OnGuide(at)
  /\ step' = "push"
  /\ UNCHANGED <<points, guide, plane, at, val, last_val, cut, got, pushes>>

\* Once a point of the segment has had an intersection, each one after it is pushed
\* by what intersection_point holds.
Push ==
  /\ step = "push"
  /\ \E near \in IF OnGuide(cut.to) /\ OnGuide(cut.from) THEN {AtThePoint(cut)} ELSE BOOLEAN :
       \/ /\ got # None /\ ~near
          /\ pushes' = [pushes EXCEPT ![plane] = Append(@, cut)]
          /\ UNCHANGED got
       \/ /\ got # None /\ near
          /\ got' = None
          /\ UNCHANGED pushes
       \/ /\ Short(points) /\ cut # Unset /\ ~near
          /\ pushes' = [pushes EXCEPT ![1] = Append(@, cut)]
          /\ got' = 1
       \/ /\ got = None /\ (Short(points) => cut = Unset \/ near)
          /\ UNCHANGED <<got, pushes>>
  /\ step' = "plane"
  /\ UNCHANGED <<points, guide, plane, at, val, last_val, cut>>

WalkNext == NextPlane \/ Walk \/ LeaveGuide \/ Push

WalkSpec == WalkInit /\ [][WalkNext]_walkVars

-----------------------------------------------------------------------------
(* Properties *)

PlanesOf(pts) == FirstPlane(pts) .. LastPlane(pts)

\* The segment goes forward in the direction of each of its planes, and so does its
\* path, from behind the first plane to the last one: no turn back in between.
Advances(pts, way) ==
  \A j \in PlanesOf(pts) :
    /\ \A k, l \in PlanesOf(pts) :
         k <= l => Dot(Minus(Twice(pts, l), Twice(pts, k)), Normal(pts, j)) >= 0
    /\ Dot(Minus(Scaled(2, way[1]), Twice(pts, FirstPlane(pts))), Normal(pts, j)) < 0
    /\ Dot(Minus(Scaled(2, way[Len(way)]), Twice(pts, LastPlane(pts))), Normal(pts, j)) >= 0

\* Two neighbouring cells of the path with the plane between them.
Crosses(c, j) ==
  /\ OnGuide(c.to) /\ OnGuide(c.from) /\ c.to - c.from \in {-1, 1}
  /\ LET u == Side(points, j, guide[c.to])
         v == Side(points, j, guide[c.from])
     IN u # v /\ ((u <= 0 /\ 0 <= v) \/ (v <= 0 /\ 0 <= u))

\* On a segment that advances the walk never leaves the path, and a point is only
\* pushed by a crossing of its own plane with the path, never by what the point
\* before it left or what nobody set, nor by a division by zero.
WalkIsSound ==
  Advances(points, guide) =>
    /\ step = "walk" => OnGuide(at)
    /\ \A j \in 1 .. Len(points) : \A k \in 1 .. Len(pushes[j]) : Crosses(pushes[j][k], j)
=============================================================================
