---------------------------- MODULE ControlPoints ----------------------------
(***************************************************************************)
(* The obstacle handling of BsplineOptimizer (bspline_optimizer.cpp): the  *)
(* initial path is cut into the segments that collide, each segment gets a *)
(* guide path from DynAStar, its control points get a base point and a     *)
(* direction to be pushed in, the segments' other sides give alternative   *)
(* trajectories, and while the solver moves the points, new collisions add *)
(* pushes and make it start again.                                         *)
(*                                                                         *)
(* Abstracted: the path runs along a row of the map with evenly spaced     *)
(* points; what the solver does is to move the free points to a row, all   *)
(* to the same one.  The plane the code intersects a guide path with is    *)
(* normal to p(j+1) - p(j-1): a column where these lie in one row, and a   *)
(* push is then a row and a sign.  A bound: where a segment holds the bend *)
(* between the fixed points and the moved ones, a behaviour ends.          *)
(* (GuideWalk has the walk along a guide path for points anywhere.)        *)
(***************************************************************************)
EXTENDS DynAStar

CONSTANTS
  Size,          \* control points, numbered from 0 as in the code
  Spacing,       \* cells between two of them
  Samples,       \* samples of the initial scan between two of them
  Obstacles,     \* sets of occupied cells
  SolverRows,    \* rows the solver may move the free points to
  MaxPasses      \* bound: calls of the solver in a behaviour

ASSUME SizeAssumption == Size \in Nat /\ Size >= 9
ASSUME RowsAssumption == SolverRows \subseteq Int
ASSUME StepsAssumption == Spacing \in Nat \ {0} /\ Samples \in Nat \ {0}

VARIABLES
  row,           \* the row of the free points of cps_.points
  base,          \* cps_.base_point and cps_.direction, point by point
  job,           \* what asked for the segments: "init", "restart" or "rebound"
  pc,
  segments,      \* segment_ids
  paths,         \* a_star_pathes
  final,         \* what initControlPoints returned
  variants,      \* what distinctiveTrajs returned
  force_stop,    \* force_stop_type_
  passes,
  \* What the properties need to remember:
  lost           \* a search for the current segments failed

cpsVars == <<row, base, job, pc, segments, paths, final, variants, force_stop, passes,
             lost>>
controlVars == <<astarVars, cpsVars>>

order == 3
Points == 0 .. Size - 1
Last(s) == s[Len(s)]

RowOf(j) == IF j < order THEN 0 ELSE row
Column(j) == 2 * Spacing * j
Point(j) == <<Column(j), 2 * RowOf(j)>>

NoPushes == [j \in Points |-> << >>]

-----------------------------------------------------------------------------
(* Segments *)

\* initControlPoints: the closest two thirds are sampled, from each point up
\* to the next; three samples alike in a row confirm a change.
ENOUGH_INTERVAL == 2
LastScanned == Size - order - (Size - 2 * order) \div 3
ScanCount == Samples * (LastScanned - order + 1)
ScanSamples ==
  [k \in 1 .. ScanCount |->
     [i |-> order + (k - 1) \div Samples, s |-> (k - 1) % Samples]]
SampleOccupied(smp) ==
  Occupied(<<Column(smp.i - 1) + (2 * Spacing * smp.s) \div Samples,
             2 * RowOf(smp.i - 1) + (2 * (RowOf(smp.i) - RowOf(smp.i - 1)) * smp.s) \div Samples>>)

ScanStart == [in |-> -1, out |-> -1, same |-> ENOUGH_INTERVAL + 1, last |-> FALSE,
              started |-> FALSE, maybe |-> FALSE, ids |-> << >>]

Scanned(st, smp) ==
  LET occ == SampleOccupied(smp)
      enters == occ /\ ~st.last
      leaves == ~occ /\ st.last
      opens == enters /\ (st.same > ENOUGH_INTERVAL \/ smp.i = order)
      in == IF opens THEN smp.i - 1 ELSE st.in
      out == IF leaves THEN smp.i ELSE st.out
      same == IF enters \/ leaves THEN 0 ELSE Lesser(st.same + 1, ENOUGH_INTERVAL + 1)
      maybe == ~enters /\ (leaves \/ st.maybe)
      ends == maybe /\ (same > ENOUGH_INTERVAL \/ smp.i = Size - order)
      started == opens \/ st.started
  IN [in |-> in, out |-> out, same |-> same, last |-> occ,
      started |-> started /\ ~ends, maybe |-> maybe /\ ~ends,
      ids |-> IF started /\ ends THEN Append(st.ids, <<in, out>>) ELSE st.ids]

Scans ==
  LET after[k \in 0 .. ScanCount] ==
        IF k = 0 THEN ScanStart ELSE Scanned(after[k - 1], ScanSamples[k])
  IN after

\* check_collision_and_rebound: a colliding point that every push has already
\* moved a cell past its base lies in an obstacle nobody knew of.
NewCollision(i) ==
  /\ Occupied(Point(i))
  /\ \A k \in 1 .. Len(base[i]) : (RowOf(i) - base[i][k].row) * base[i][k].dir >= 1

FreeBefore(i) == {j \in Points : j < i /\ ~Occupied(Point(j))}
FreeAfter(i) == {j \in Points : j > i /\ ~Occupied(Point(j))}
Greatest(S) == CHOOSE j \in S : \A l \in S : l <= j
Least(S) == CHOOSE j \in S : \A l \in S : j <= l

\* The points are taken in turn, and after a segment from the second one past it.
\* When the rest of the trajectory is in obstacles there is no end to find.
LastChecked == Size - order - (Size - 2 * order) \div 3
CheckStart == [next |-> order - 1, endless |-> FALSE, ids |-> << >>]
Checked(st, i) ==
  IF st.endless \/ i < st.next \/ ~NewCollision(i) THEN st
  ELSE IF FreeAfter(i) = {} THEN [st EXCEPT !.endless = TRUE]
  ELSE LET in == IF FreeBefore(i) = {} THEN 0 ELSE Greatest(FreeBefore(i))
           out == Least(FreeAfter(i))
       IN [next |-> out + 2, endless |-> FALSE, ids |-> Append(st.ids, <<in, out>>)]
CheckCount == LastChecked - order + 2
Checks ==
  LET after[k \in 0 .. CheckCount] ==
        IF k = 0 THEN CheckStart ELSE Checked(after[k - 1], order - 2 + k)
  IN after

\* segment_ids.erase
Erased(segs, k) == SubSeq(segs, 1, k - 1) \o SubSeq(segs, k + 1, Len(segs))

\* Neighbouring segments that meet or overlap are cut apart at the middle.
Meets(segs, k) == segs[k][2] >= segs[k + 1][1]
Halfway(segs, k) == segs[k][2] + segs[k + 1][1]

\* Mutant: the pieces keep their overlap
Uncut(segs) == segs

Split(segs) ==
  [k \in 1 .. Len(segs) |->
     <<IF k > 1 /\ Meets(segs, k - 1) THEN Halfway(segs, k - 1) \div 2 + 1 ELSE segs[k][1],
       IF k < Len(segs) /\ Meets(segs, k) THEN (Halfway(segs, k) - 1) \div 2
       ELSE segs[k][2]>>]

-----------------------------------------------------------------------------
(* Base points and directions *)

\* The walk along the guide path from its middle to where it crosses a column:
\* where it may end, and the row there.
Crossed(path, column) ==
  LET val(k) == path[k][1] - column
      mid == Len(path) \div 2 + 1
      ahead == IF val(mid) >= 0 THEN 1 .. mid - 1 ELSE mid + 1 .. Len(path)
  IN {k \in ahead : val(k) * val(mid) <= 0 /\ (val(k) # 0 \/ val(mid) # 0)}
Crossing(path, column) ==
  LET back == path[Len(path) \div 2 + 1][1] >= column
      at == IF back THEN Greatest(Crossed(path, column)) ELSE Least(Crossed(path, column))
      before == IF back THEN at + 1 ELSE at - 1
  IN path[IF path[at][1] = column THEN at ELSE before][2] \div 2

\* Mutant: the direction leads back from the crossing
PushedBack(j, r) ==
  LET dir == IF r > RowOf(j) THEN 1 ELSE -1
      hits == {a \in 0 .. Abs(r - RowOf(j)) : Occupied(<<Column(j), 2 * (RowOf(j) + dir * a)>>)}
  IN [row |-> RowOf(j) + dir * (IF hits = {} THEN 0 ELSE Greatest(hits) + 1),
      dir |-> -dir]

\* From the crossing towards the point: the last free cell before an obstacle.
BaseTowards(j, r) ==
  LET dir == IF r > RowOf(j) THEN 1 ELSE -1
      hits == {a \in 0 .. Abs(r - RowOf(j)) : Occupied(<<Column(j), 2 * (RowOf(j) + dir * a)>>)}
  IN [row |-> RowOf(j) + dir * (IF hits = {} THEN 0 ELSE Greatest(hits) + 1),
      dir |-> dir]

\* One segment: [base, flag, got], the pushes, flag_temp and the last point
\* with a crossing of its own.
PushedAt(st, j, path) ==
  LET r == Crossing(path, Column(j))
  IN IF Crossed(path, Column(j)) = {} THEN st
     ELSE IF r = RowOf(j) THEN [st EXCEPT !.got = -1]
     ELSE [base |-> [st.base EXCEPT ![j] = Append(@, BaseTowards(j, r))],
           flag |-> st.flag \cup {j}, got |-> j]
PushInner(st, seg, path) ==
  LET after[j \in seg[1] .. seg[2] - 1] ==
        IF j = seg[1] THEN st ELSE PushedAt(after[j - 1], j, path)
  IN IF seg[1] < seg[2] THEN after[seg[2] - 1] ELSE st

\* A segment between neighbouring points is pushed from its middle.
PushShort(st, seg, path) ==
  LET middle == Column(seg[1]) + Spacing
      r == Crossing(path, middle)
  IN IF \/ job = "rebound" \/ seg[2] - seg[1] # 1
        \/ Crossed(path, middle) = {} \/ r = RowOf(seg[2]) THEN st
     ELSE [base |-> [st.base EXCEPT ![seg[1]] = Append(@,
              [row |-> RowOf(seg[1]), dir |-> IF r > RowOf(seg[2]) THEN 1 ELSE -1])],
           flag |-> st.flag \cup {seg[1]}, got |-> seg[1]]

\* The points without a crossing take the push of the neighbour, on the way from
\* the last one that has a crossing to either end.
SpreadPushes(st, seg) ==
  LET passed == {j \in Points : \/ st.got < j /\ j <= seg[2]
                                \/ seg[1] <= j /\ j < st.got}
      source(j) == IF j > st.got THEN st.got ELSE Least({l \in st.flag : l > j})
  IN [j \in Points |-> IF j \in passed \ st.flag
                        THEN Append(st.base[j], Last(st.base[source(j)])) ELSE st.base[j]]

PushSegment(b, seg, kept, path) ==
  LET st == PushShort(PushInner([base |-> b, flag |-> {}, got |-> -1], seg, path), seg, path)
  IN IF st.got < 0 THEN [base |-> st.base, pushed |-> FALSE]
     ELSE [base |-> SpreadPushes(st, kept), pushed |-> TRUE]

\* The pushes after all segments, and the segments that got some.  The pieces
\* initControlPoints works on keep their length, in the other the cut shows.
PushAll(kept) ==
  LET upto[k \in 0 .. Len(segments)] ==
        IF k = 0 THEN [base |-> base, final |-> << >>]
        ELSE LET before == upto[k - 1]
                 seg == IF job = "rebound" THEN kept[k] ELSE segments[k]
                 new == PushSegment(before.base, seg, kept[k], paths[k])
             IN [base |-> new.base,
                 final |-> IF new.pushed THEN Append(before.final, kept[k])
                           ELSE before.final]
  IN upto[Len(segments)]

-----------------------------------------------------------------------------
(* distinctiveTrajs: up to three segments, each pushed to either side *)

MaxVaried == 3
Kept == SubSeq(final, 1, Lesser(Len(final), MaxVaried))

\* The columns of a segment's first and last collision.
CollidingColumns(seg, step) ==
  {x \in Column(seg[1]) .. Column(seg[2]) : x % step = 0 /\ Occupied(<<x, 2 * row>>)}
FirstHit(seg) == Least(CollidingColumns(seg, 1))
LastHit(seg) == Greatest(CollidingColumns(seg, 2))
HasHits(seg) ==
  /\ CollidingColumns(<<seg[1], seg[2]>>, 1) \ {Column(seg[2])} # {}
  /\ CollidingColumns(<<seg[1], seg[2]>>, 2) \ {Column(seg[1])} # {}

\* The points from the first collision to the last one.
Colliding(seg) ==
  IF seg[1] = seg[2] THEN {seg[1]}
  ELSE FirstHit(seg) \div (2 * Spacing) .. (LastHit(seg) + 2 * Spacing - 1) \div (2 * Spacing)

\* Where the opposite base point of j is looked for first.
Opposite(seg, j) ==
  IF seg[1] # seg[2] /\ j = Least(Colliding(seg)) THEN <<FirstHit(seg), 2 * row>>
  ELSE IF seg[1] # seg[2] /\ j = Greatest(Colliding(seg)) THEN <<LastHit(seg), 2 * row>>
  ELSE <<Column(j), 2 * (RowOf(j) - base[j][1].dir * Abs(base[j][1].row - RowOf(j)))>>

\* The reversed push of one point, or why it has none.
Reversed(seg, j) ==
  LET dir == -base[j][1].dir
      pt == Opposite(seg, j)
      free == {l \in 0 .. 5 * Spacing : ~Occupied(<<pt[1], pt[2] + 2 * l * dir>>)}
  IN IF seg[1] # seg[2] /\ Len(base[j]) # 1 THEN [why |-> "wrong_number"]
     ELSE IF free = {} THEN [why |-> "too_far"]
     ELSE IF pt = Point(j) /\ 0 \in free THEN [why |-> "too_close"]
     ELSE [why |-> "reversed", push |-> [row |-> pt[2] \div 2 + Least(free) * dir, dir |-> dir]]

Failing(seg) == {j \in Colliding(seg) : Reversed(seg, j).why # "reversed"}
Reversible(seg) == (seg[1] = seg[2] \/ HasHits(seg)) /\ Failing(seg) = {}
WrongNumber(seg) ==
  /\ seg[1] = seg[2] \/ HasHits(seg)
  /\ Failing(seg) # {}
  /\ Reversed(seg, Least(Failing(seg))).why = "wrong_number"

\* The points before and after take the push of the first and the last one.
OtherSide(seg, j) ==
  LET near == IF j < Least(Colliding(seg)) THEN Least(Colliding(seg))
              ELSE Lesser(j, Greatest(Colliding(seg)))
  IN [base[j] EXCEPT ![1] = Reversed(seg, near).push]

Selected(n, k) == (n \div 2^(k - 1)) % 2 = 1
Assembled(segs, n) ==
  [j \in Points |->
     LET own == {k \in 1 .. Len(segs) : segs[k][1] <= j /\ j <= segs[k][2] /\ Selected(n, k)}
     IN IF own = {} THEN base[j] ELSE OtherSide(segs[Least(own)], j)]

\* The segments that have another side, in their order.
Varied ==
  LET upto[k \in 0 .. Len(Kept)] ==
        IF k = 0 THEN << >>
        ELSE IF Reversible(Kept[k]) THEN Append(upto[k - 1], Kept[k]) ELSE upto[k - 1]
  IN upto[Len(Kept)]

DistinctiveTrajs ==
  IF \E k \in 1 .. Len(Kept) : WrongNumber(Kept[k]) THEN << >>
  ELSE IF Varied = << >> THEN <<base>>
  ELSE [n \in 1 .. 2^Len(Varied) |-> Assembled(Varied, n - 1)]

-----------------------------------------------------------------------------
(* The optimiser *)

CpsInit ==
  /\ AStarInit
  /\ occupied \in Obstacles
  /\ row = 0
  /\ base = NoPushes
  /\ job = "init"
  /\ pc = "scan"
  /\ segments = << >>
  /\ paths = << >>
  /\ final = << >>
  /\ variants = << >>
  /\ force_stop = "DONT_STOP"
  /\ passes = 0
  /\ lost = FALSE

NextPc == IF job = "init" THEN "vary" ELSE IF job = "restart" THEN "solve" ELSE "judge"

\* initControlPoints and check_collision_and_rebound up to the searches
Scan ==
  /\ pc = "scan"
  /\ segments' = IF job # "rebound" THEN Scans[ScanCount].ids
                  ELSE IF Checks[CheckCount].endless THEN << >> ELSE Checks[CheckCount].ids
  /\ pc' = IF segments' = << >> THEN NextPc ELSE "guide"
  /\ force_stop' = IF job = "rebound" /\ Checks[CheckCount].endless THEN "STOP_FOR_ERROR"
                   ELSE "DONT_STOP"
  /\ paths' = << >>
  /\ lost' = FALSE
  /\ final' = IF job = "rebound" THEN final ELSE << >>
  /\ UNCHANGED <<astarVars, row, base, job, variants, passes>>

Guide ==
  /\ pc = "guide"
  /\ search = "idle"
  /\ Len(paths) < Len(segments)
  /\ LET seg == segments[Len(paths) + 1]
     IN AstarSearch(Point(seg[1]), Point(seg[2]))
  /\ UNCHANGED cpsVars

Searching == pc = "guide" /\ SearchStep /\ UNCHANGED cpsVars

TakePath ==
  /\ pc = "guide"
  /\ search = "found"
  /\ paths' = Append(paths, Path)
  /\ search' = "idle"
  /\ UNCHANGED <<occupied, rounds, nodes, openSet, misplaced, center, startIdx, endIdx, gridPath>>
  /\ UNCHANGED <<row, base, job, pc, segments, final, variants, force_stop, passes, lost>>

\* A failed search ends initControlPoints, and costs a rebound its segment.
LosePath ==
  /\ pc = "guide"
  /\ search \in Returned \ {"found"}
  /\ lost' = TRUE
  /\ search' = "idle"
  /\ IF job = "rebound"
       THEN /\ segments' = Erased(segments, Len(paths) + 1)
            /\ UNCHANGED <<pc, paths>>
       ELSE /\ segments' = << >>
            /\ paths' = << >>
            /\ pc' = NextPc
  /\ UNCHANGED <<occupied, rounds, nodes, openSet, misplaced, center, startIdx, endIdx, gridPath>>
  /\ UNCHANGED <<row, base, job, final, variants, force_stop, passes>>

\* A segment with fixed points and moved ones: planes between them lean.
Bent == \E k \in 1 .. Len(segments) : RowOf(segments[k][1]) # RowOf(segments[k][2])

LeaveRow ==
  /\ pc = "guide"
  /\ search = "idle"
  /\ Len(paths) = Len(segments)
  /\ Bent
  /\ pc' = "done"
  /\ UNCHANGED <<astarVars, row, base, job, segments, paths, final, variants, force_stop, passes, lost>>

Assign ==
  /\ pc = "guide"
  /\ search = "idle"
  /\ Len(paths) = Len(segments)
  /\ ~Bent
  /\ \E new \in {PushAll(Split(segments))} :
       /\ base' = new.base
       /\ final' = IF job = "rebound" THEN final ELSE new.final
  /\ force_stop' = IF job = "rebound" THEN "STOP_FOR_REBOUND" ELSE force_stop
  /\ pc' = NextPc
  /\ UNCHANGED <<astarVars, row, job, segments, paths, variants, passes, lost>>

Vary ==
  /\ pc = "vary"
  /\ variants' = DistinctiveTrajs
  /\ pc' = "choose"
  /\ UNCHANGED <<astarVars, row, base, job, segments, paths, final, force_stop, passes, lost>>

\* The planner manager optimises each of them; a behaviour follows one.
Choose ==
  /\ pc = "choose"
  /\ IF variants = << >>
       THEN pc' = "done" /\ UNCHANGED base
       ELSE pc' = "solve" /\ \E n \in 1 .. Len(variants) : base' = variants[n]
  /\ UNCHANGED <<astarVars, row, job, segments, paths, final, variants, force_stop, passes, lost>>

\* The solver evaluates the cost at new points, calcDistanceCostRebound checks.
Solve ==
  /\ pc = "solve"
  /\ passes < MaxPasses
  /\ passes' = passes + 1
  /\ row' \in SolverRows
  /\ job' = "rebound"
  /\ pc' = "scan"
  /\ UNCHANGED <<astarVars, base, segments, paths, final, variants, force_stop, lost>>

\* The curve through the points, over the first two thirds of its duration
CurveCollides ==
  \E x \in Column(1) .. Column(1) + (2 * (Column(Size - 2) - Column(1))) \div 3 :
    Occupied(<<x, 2 * row>>)

Judge ==
  /\ pc = "judge"
  /\ \/ /\ force_stop = "STOP_FOR_REBOUND"
        /\ pc' = "solve"
        /\ UNCHANGED job
     \/ /\ force_stop = "STOP_FOR_ERROR"
        /\ pc' = "done"
        /\ UNCHANGED job
     \/ /\ force_stop = "DONT_STOP"
        /\ CurveCollides
        /\ pc' = "scan"
        /\ job' = "restart"
     \/ /\ force_stop = "DONT_STOP"
        /\ ~CurveCollides
        /\ pc' = "done"
        /\ UNCHANGED job
  /\ UNCHANGED <<astarVars, row, base, segments, paths, final, variants, force_stop, passes, lost>>

CpsNext == Scan \/ Guide \/ Searching \/ TakePath \/ LosePath \/ LeaveRow \/ Assign \/ Vary \/ Choose
        \/ Solve \/ Judge

CpsSpec == CpsInit /\ [][CpsNext]_controlVars /\ WF_controlVars(Searching)

-----------------------------------------------------------------------------
(* Properties *)

\* Once they are cut, the pieces lie in the trajectory, in order and apart.  A piece
\* may be empty, its end right before its begin: between two neighbours that both
\* touch it.  (distinctiveTrajs drops it.)
InOrder(pieces) ==
  /\ \A k \in 1 .. Len(pieces) :
       0 <= pieces[k][1] /\ pieces[k][1] <= pieces[k][2] + 1 /\ pieces[k][2] < Size
  /\ \A k, l \in 1 .. Len(pieces) : k < l => pieces[k][2] < pieces[l][1]
SegmentsInOrder == InOrder(Split(segments))

\* What distinctiveTrajs counts on: a control point of a pushed segment has a push,
\* and just one, unless a segment ends where the one before it does; and a colliding
\* point between the ends of a segment is pushed from a free cell.
EndsDiffer == \A k \in 1 .. Len(segments) - 1 : segments[k][2] # segments[k + 1][2]
PushedOnce ==
  pc = "vary" =>
    /\ \A k \in 1 .. Len(final) : \A j \in final[k][1] .. final[k][2] :
         base[j] # << >> /\ (EndsDiffer => Len(base[j]) = 1)
    /\ EndsDiffer =>
         \A k \in 1 .. Len(segments) : \A j \in segments[k][1] + 1 .. segments[k][2] - 1 :
           Occupied(Point(j)) =>
             base[j] # << >> /\ ~Occupied(<<Column(j), 2 * base[j][1].row>>)

\* The alternatives differ from one another: each is worth a solver run.
VariantsDiffer ==
  /\ Len(variants) \in {0, 1, 2, 4, 8}
  /\ \A m, n \in 1 .. Len(variants) : m < n => variants[m] # variants[n]

\* A rebound leaves no collision without a push that takes the point out, but at two
\* places: the point right after a segment, which the check steps over, and an end of
\* a piece with no point between its ends to take a push for its row from.
Stranded(i) ==
  \E k \in 1 .. Len(segments) : \E piece \in {Split(segments)[k]} :
    /\ i \in {piece[1], piece[2]}
    /\ \A j \in piece[1] + 1 .. piece[2] - 1 : RowOf(j) # RowOf(i)
ReboundPushes ==
  pc = "judge" /\ force_stop = "STOP_FOR_REBOUND" /\ ~lost =>
    \A i \in order - 1 .. LastChecked :
      NewCollision(i) => Stranded(i) \/ \E k \in 1 .. Len(segments) : i = segments[k][2] + 1

\* What the solver is guided by: a push for each point of a segment, from a free cell
\* where the point collides; alternatives that differ; and no collision of a rebound
\* left without a push but at the places the check gives up.
GuidanceIsSound == PushedOnce /\ VariantsDiffer /\ ReboundPushes

\* Every search returns: found, dry, late or refused.  (AstarSearch)
SearchEnds == (search = "running") ~> (search # "running")
=============================================================================
