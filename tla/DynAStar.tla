------------------------------ MODULE DynAStar ------------------------------
(***************************************************************************)
(* The optimiser's path search: AStar (dyn_a_star.cpp) on a vertical slice *)
(* of the map.  The pool of nodes is allocated once and reused: a search   *)
(* only raises rounds_, and a node belongs to it when its rounds is that   *)
(* number; everything else in it is left from earlier searches.            *)
(*                                                                         *)
(* Abstracted: coordinates are half cells of the search step; the wall     *)
(* clock may or may not pass the time limit at each expansion.             *)
(***************************************************************************)
EXTENDS Integers, Sequences, FiniteSets

CONSTANTS
  PoolX, PoolY,   \* POOL_SIZE_
  Columns, Rows,  \* the cells of the map: outside, everything is occupied
  NoNode          \* the null cameFrom

ASSUME PoolAssumption == PoolX \in Nat \ {0} /\ PoolY \in Nat \ {0}
ASSUME CellsAssumption == Columns \subseteq Int /\ Rows \subseteq Int

Pool == (0 .. PoolX - 1) \X (0 .. PoolY - 1)
ASSUME NodeAssumption == NoNode \notin Pool

VARIABLES
  occupied,       \* the occupied (inflated) cells of the map
  rounds,         \* rounds_
  nodes,          \* GridNodeMap_
  openSet,        \* openSet_, as the set of its nodes
  misplaced,      \* a queued node's fScore was lowered: the heap order is lost
  center,         \* center_
  startIdx, endIdx,
  gridPath,       \* gridPath_: from the end to the start
  search          \* "idle", "running", or how the last search returned

astarVars == <<occupied, rounds, nodes, openSet, misplaced, center, startIdx,
               endIdx, gridPath, search>>

Returned == {"found", "no_endpoint", "late", "exhausted"}

UnusedNode == [rounds |-> 0, state |-> "UNDEFINED", gScore |-> 0, cameFrom |-> NoNode]

AStarInit ==
  /\ rounds = 0
  /\ nodes = [n \in Pool |-> UnusedNode]
  /\ openSet = {}
  /\ misplaced = FALSE
  /\ center = <<0, 0>>
  /\ startIdx = <<0, 0>>
  /\ endIdx = <<0, 0>>
  /\ gridPath = << >>
  /\ search = "idle"

-----------------------------------------------------------------------------
(* Coordinates: a point is a pair of half cells *)

\* getInflateOccupancy of a point: -1 outside the map, which reads as occupied
Occupied(pt) ==
  LET cell == <<pt[1] \div 2, pt[2] \div 2>>
  IN cell \in occupied \/ cell \notin Columns \X Rows

CenterIdx == <<PoolX \div 2, PoolY \div 2>>

\* The cast to int drops the fraction towards zero, on both sides of it.
Truncated(h) == IF h >= 0 THEN h \div 2 ELSE -((-h) \div 2)

\* Coord2Index; half a cell is added before the cast.
Coord2Index(pt, c) ==
  [d \in 1 .. 2 |-> Truncated(pt[d] - c[d] + 1) + CenterIdx[d]]

Index2Coord(idx, c) == [d \in 1 .. 2 |-> 2 * (idx[d] - CenterIdx[d]) + c[d]]

Midpoint(p, q) == [d \in 1 .. 2 |-> (p[d] + q[d]) \div 2]

\* One step_size from q through p, for points on one row or one column.
Towards(p, q) ==
  [d \in 1 .. 2 |-> IF p[d] > q[d] THEN 2 ELSE IF p[d] < q[d] THEN -2 ELSE 0]
Pushed(p, q, k) == [d \in 1 .. 2 |-> p[d] + k * Towards(p, q)[d]]

\* ConvertToIndexAndAdjustStartEndPoints, for one end: pushed away from the
\* other until it is free, or out of the pool.
Adjusted(p, q, c) ==
  LET stops == {k \in 0 .. PoolX + PoolY :
                  \/ Coord2Index(Pushed(p, q, k), c) \notin Pool
                  \/ ~Occupied(Index2Coord(Coord2Index(Pushed(p, q, k), c), c))}
  IN Pushed(p, q, CHOOSE k \in stops : \A l \in stops : k <= l)

-----------------------------------------------------------------------------
(* The search *)

Abs(i) == IF i < 0 THEN -i ELSE i
Lesser(i, j) == IF i < j THEN i ELSE j

Straight == 10
Diagonal == 14
Interior == {n \in Pool : n[1] \in 1 .. PoolX - 2 /\ n[2] \in 1 .. PoolY - 2}
Steps == ((-1 .. 1) \X (-1 .. 1)) \ {<<0, 0>>}
Neighbours(n) == {<<n[1] + d[1], n[2] + d[2]>> : d \in Steps} \cap Interior
StaticCost(n, m) == IF n[1] # m[1] /\ n[2] # m[2] THEN Diagonal ELSE Straight

\* getDiagHeu, and getHeu's tie breaker in the fScore
DiagHeu(n, m) ==
  LET dx == Abs(n[1] - m[1])
      dy == Abs(n[2] - m[2])
  IN Diagonal * Lesser(dx, dy) + Straight * Abs(dx - dy)
FScore(n) == 10000 * nodes[n].gScore + 10001 * DiagHeu(n, endIdx)

\* The top of the heap: the least fScore, unless the order was lost.
Tops == {n \in openSet : misplaced \/ \A m \in openSet : FScore(n) <= FScore(m)}

\* AstarSearch up to its loop.
AstarSearch(startPt, endPt) ==
  LET c == Midpoint(startPt, endPt)
      s == Adjusted(startPt, endPt, c)
      e == Adjusted(endPt, s, c)
      si == Coord2Index(s, c)
      ei == Coord2Index(e, c)
  IN /\ search' = IF {si, ei} \subseteq Pool THEN "running" ELSE "no_endpoint"
     /\ rounds' = rounds + 1
     /\ center' = c
     /\ IF search' = "running"
          THEN /\ startIdx' = si
               /\ endIdx' = ei
               /\ openSet' = {si}
               /\ misplaced' = FALSE
               /\ nodes' = [nodes EXCEPT ![si] =
                    [rounds |-> rounds', state |-> "OPENSET", gScore |-> 0,
                     cameFrom |-> NoNode]]
          ELSE UNCHANGED <<startIdx, endIdx, openSet, misplaced, nodes>>
     /\ UNCHANGED <<occupied, gridPath>>

\* retrievePath: back along cameFrom to the node that has none.  A step back costs
\* Straight at least, so there are no more of them than the gScore counts.
Previous(n) == IF nodes[n].cameFrom = NoNode THEN n ELSE nodes[n].cameFrom
Trail(n) ==
  LET back[k \in 0 .. nodes[n].gScore] == IF k = 0 THEN n ELSE Previous(back[k - 1])
  IN back
PathFrom(n) ==
  LET steps == CHOOSE k \in 0 .. nodes[n].gScore :
                 /\ nodes[Trail(n)[k]].cameFrom = NoNode
                 /\ \A l \in 0 .. k - 1 : nodes[Trail(n)[l]].cameFrom # NoNode
  IN [k \in 1 .. steps + 1 |-> Trail(n)[k - 1]]

Reach(current) ==
  /\ current = endIdx
  /\ gridPath' = PathFrom(current)
  /\ search' = "found"
  /\ openSet' = openSet \ {current}
  /\ UNCHANGED <<occupied, rounds, nodes, misplaced, center, startIdx, endIdx>>

\* Mutant: a node of any search counts as this one's
ExploredEver(n) == nodes[n].rounds > 0

Explored(n) == nodes[n].rounds = rounds
Closed(n) == Explored(n) /\ nodes[n].state = "CLOSEDSET"

\* What the loop over the neighbours leaves in one of them.
Tried(n, current) ==
  LET g == nodes[current].gScore + StaticCost(current, n)
      seen == [nodes[n] EXCEPT !.rounds = rounds]
      better == [seen EXCEPT !.gScore = g, !.cameFrom = current]
  IN IF Occupied(Index2Coord(n, center)) THEN seen
     ELSE IF ~Explored(n) THEN [better EXCEPT !.state = "OPENSET"]
     ELSE IF g < nodes[n].gScore THEN better ELSE seen

\* Mutant: a node taken from the queue goes back into it
NeverCloses(current) ==
  /\ current # endIdx
  /\ nodes' = [n \in Pool |->
       IF n \in Neighbours(current) THEN Tried(n, current) ELSE nodes[n]]
  /\ openSet' = openSet \cup {n \in Neighbours(current) : ~Occupied(Index2Coord(n, center))}
  /\ UNCHANGED <<occupied, rounds, misplaced, center, startIdx, endIdx, gridPath, search>>

Expand(current) ==
  LET tried == {n \in Neighbours(current) : ~Closed(n)}
      open == {n \in tried : ~Occupied(Index2Coord(n, center))}
  IN /\ current # endIdx
     /\ nodes' = [n \in Pool |->
          IF n = current THEN [nodes[n] EXCEPT !.state = "CLOSEDSET"]
          ELSE IF n \in tried THEN Tried(n, current) ELSE nodes[n]]
     /\ openSet' = (openSet \ {current}) \cup {n \in open : ~Explored(n)}
     /\ misplaced' = (misplaced \/ \E n \in open :
                        Explored(n) /\ nodes'[n].gScore < nodes[n].gScore)
     /\ \/ UNCHANGED search
        \/ search' = "late"     \* the time limit of 0.2 s
     /\ UNCHANGED <<occupied, rounds, center, startIdx, endIdx, gridPath>>

Exhaust ==
  /\ openSet = {}
  /\ search' = "exhausted"
  /\ UNCHANGED <<occupied, rounds, nodes, openSet, misplaced, center, startIdx,
                 endIdx, gridPath>>

SearchStep ==
  /\ search = "running"
  /\ \/ \E current \in Tops : Reach(current) \/ Expand(current)
     \/ Exhaust

\* getPath: from the start, as points
Path == [k \in 1 .. Len(gridPath) |->
           Index2Coord(gridPath[Len(gridPath) + 1 - k], center)]

-----------------------------------------------------------------------------
(* Properties *)

FreeNode(n) == ~Occupied(Index2Coord(n, center))

\* A path found leads from the start to the end of this search through free
\* neighbouring cells and visits none twice, whatever earlier searches left in
\* the nodes.
PathIsSound ==
  search = "found" =>
    /\ gridPath[1] = endIdx
    /\ gridPath[Len(gridPath)] = startIdx
    /\ \A k \in 1 .. Len(gridPath) : FreeNode(gridPath[k])
    /\ \A k \in 1 .. Len(gridPath) - 1 : gridPath[k] \in Neighbours(gridPath[k + 1])
    /\ \A j, k \in 1 .. Len(gridPath) : j # k => gridPath[j] # gridPath[k]

\* The nodes that free steps lead to from the start: as many steps as the pool has
\* nodes reach all there are.
FreeStep(S) == S \cup UNION {{m \in Neighbours(n) : FreeNode(m)} : n \in S}
Flooded ==
  LET flood[k \in 0 .. PoolX * PoolY] ==
        IF k = 0 THEN {startIdx} ELSE FreeStep(flood[k - 1])
  IN flood[PoolX * PoolY]

\* A search that runs dry had no path to find: the nodes of earlier searches,
\* closed there or blocked then, hide none.
DryMeansNoPath == search = "exhausted" => endIdx \notin Flooded

\* A search answers rightly, whatever the searches before it left.  (AstarSearch)
SearchIsSound == PathIsSound /\ DryMeansNoPath
=============================================================================
