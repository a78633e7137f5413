--------------------------- MODULE MCControlPoints ---------------------------
(***************************************************************************)
(* ControlPoints at the distances flown: control points 0.4 m apart on a   *)
(* map of 0.1 m, a slice 48 cells long and 7 high.  The obstacles lie on   *)
(* the initial path, low enough to pass over, leaning to one side, or as   *)
(* high as the pool; Walled ones can be passed on one side only, through   *)
(* their windows, which keeps searches short where the question is how     *)
(* segments meet: three close ones leave the middle segment empty, and a   *)
(* row of thin ones is a segment for each control point.  The ones Beside  *)
(* the path leave the solver's row only some cells for points: where two   *)
(* of its segments meet, the first keeps no point between its ends.        *)
(***************************************************************************)
EXTENDS ControlPoints

MCColumns == 0 .. 48
MCRows == -3 .. 3

Block(x1, x2, rows) == (x1 .. x2) \X rows
Walled(obstacles, windows) ==
  (obstacles \X {0}) \cup (MCColumns \X (MCRows \ {0, 1})) \cup ((MCColumns \ windows) \X {1})
Beside(windows) ==
  ((MCColumns \ windows) \X {-1}) \cup (MCColumns \X (MCRows \ {-1, 0}))

MCObstacles ==
  {\* one obstacle
   Block(20, 22, {0, 1}), Block(20, 20, {0}), Block(18, 20, {0, 1}), Block(20, 20, {-1, 0}),
   Walled(18 .. 22, 17 .. 23),
   \* two
   Walled({18} \cup 26 .. 28, (17 .. 19) \cup (25 .. 29)),
   Walled({14, 22}, (13 .. 15) \cup (21 .. 23)),
   \* close to one another
   Walled({10, 11, 12, 16, 17, 18, 22, 23, 24}, (9 .. 13) \cup (15 .. 19) \cup (21 .. 25)),
   Walled({10, 14, 18, 22, 26},
          {9, 10, 11, 13, 14, 15, 17, 18, 19, 21, 22, 23, 25, 26, 27}),
   \* beside the initial path, where the solver meets them
   Beside({12, 16, 24, 32, 36, 40}), Beside({12, 16, 24, 36, 40}),
   \* and right where its points begin to move
   Beside({16, 24, 32, 36, 40}),
   \* without an end, without room for one, and without a way past
   Block(22, 22, {-1, 0, 1}) \cup Block(30, 48, {0}),
   Walled(18 .. 36, {}), Walled({22}, {})}
MCSolverRows == {0, 2, -1}
==============================================================================
