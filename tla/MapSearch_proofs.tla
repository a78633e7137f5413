-------------------------- MODULE MapSearch_proofs --------------------------
(***************************************************************************)
(* What is proved of the occupancy map, of the grid search that reads it   *)
(* and of the optimiser that calls the search.  They are defined by        *)
(* recursion over pixels, rays, parents and samples, so the module opens   *)
(* with the induction they share.                                          *)
(***************************************************************************)
EXTENDS GridMap, ControlPoints, SequenceTheorems, WellFoundedInduction, TLAPS

-----------------------------------------------------------------------------
(* Induction on the naturals, and iteration *)

Less == OpToRel(<, Nat)

LEMMA LessIsWellFounded == IsWellFoundedOn(Less, Nat)
  BY NatLessThanWellFounded, Zenon DEF Less

LEMMA LessIs == \A x, y \in Nat : x < y => <<x, y>> \in Less
  BY Zenon DEF Less, OpToRel

\* A set of naturals that is not empty has a least element.
LEMMA LeastElement ==
  ASSUME NEW T, T \subseteq Nat, T # {}
  PROVE  \E x \in T : \A y \in T : x <= y
<1>1. PICK x \in T : \A y \in T : <<y, x>> \notin Less
  BY LessIsWellFounded, WFMin
<1>2. \A y \in T : ~(y < x)
  BY <1>1, LessIs
<1>3. \A y \in T : x <= y
  BY <1>2
<1> QED
  BY <1>3

LEMMA Induction ==
  ASSUME NEW T, T \subseteq Nat, 0 \in T, \A n \in T : n + 1 \in T
  PROVE  Nat \subseteq T
<1> DEFINE Bad == Nat \ T
<1> SUFFICES ASSUME Bad # {} PROVE FALSE
  OBVIOUS
<1>1. PICK x \in Bad : \A y \in Bad : x <= y
  BY LeastElement
<1>2. x \in Nat /\ x # 0
  OBVIOUS
<1>3. x - 1 \in Nat /\ x - 1 < x
  BY <1>2
<1>4. x - 1 \in T
  BY <1>1, <1>2, <1>3
<1>5. (x - 1) + 1 \in T
  BY <1>4
<1> QED
  BY <1>2, <1>5

\* A function defined by recursion on 0 .. N exists.
Recurs(S, x, step, N) ==
  \E f \in [0 .. N -> S] : f = [k \in 0 .. N |-> IF k = 0 THEN x ELSE step[k][f[k - 1]]]
LEMMA Recursion ==
  ASSUME NEW S, NEW x \in S, NEW N \in Nat, NEW step \in [1 .. N -> [S -> S]]
  PROVE  Recurs(S, x, step, N)
<1> DEFINE Good(f, n) == f \in [0 .. n -> S] /\ f[0] = x /\ \A k \in 1 .. n : f[k] = step[k][f[k - 1]]
           T == {n \in Nat : n <= N => \E f \in [0 .. n -> S] : Good(f, n)}
<1>1. 0 \in T
  <2> DEFINE f0 == [k \in 0 .. 0 |-> x]
  <2>1. Good(f0, 0)
    OBVIOUS
  <2> QED
    BY <2>1
<1>2. \A n \in T : n + 1 \in T
  <2> TAKE n \in T
  <2>1. n \in Nat /\ n + 1 \in Nat
    OBVIOUS
  <2> SUFFICES ASSUME n + 1 <= N PROVE \E f \in [0 .. n + 1 -> S] : Good(f, n + 1)
    BY <2>1
  <2>2. PICK f \in [0 .. n -> S] : Good(f, n)
    BY <2>1
  <2> DEFINE g == [k \in 0 .. n + 1 |-> IF k = n + 1 THEN step[n + 1][f[n]] ELSE f[k]]
  <2>3. g \in [0 .. n + 1 -> S]
    <3>1. n + 1 \in 1 .. N /\ f[n] \in S
      BY <2>1, <2>2
    <3>2. step[n + 1] \in [S -> S]
      BY <3>1
    <3>3. step[n + 1][f[n]] \in S
      BY <3>1, <3>2
    <3>4. \A k \in 0 .. n + 1 : k # n + 1 => f[k] \in S
      BY <2>1, <2>2
    <3> QED
      BY <3>3, <3>4
  <2>4. g[0] = x
    BY <2>1, <2>2
  <2>5. ASSUME NEW k \in 1 .. n + 1 PROVE g[k] = step[k][g[k - 1]]
    <3>1. CASE k = n + 1
      <4>1. g[k] = step[k][f[n]] /\ k - 1 = n /\ n \in 0 .. n + 1 /\ n # n + 1
        BY <2>1, <3>1
      <4>2. g[n] = f[n]
        BY <4>1
      <4> QED
        BY <4>1, <4>2
    <3>2. CASE k # n + 1
      <4>1. k \in 1 .. n /\ k \in 0 .. n + 1 /\ k - 1 \in 0 .. n + 1 /\ k - 1 # n + 1
        BY <2>1, <3>2
      <4>2. g[k] = f[k] /\ g[k - 1] = f[k - 1]
        BY <3>2, <4>1
      <4>3. f[k] = step[k][f[k - 1]]
        BY <2>2, <4>1
      <4> QED
        BY <4>2, <4>3
    <3> QED
      BY <3>1, <3>2
  <2>6. Good(g, n + 1)
    BY <2>3, <2>4, <2>5
  <2> QED
    BY <2>1, <2>6
<1>3. N \in T
  <2>1. Nat \subseteq T
    BY <1>1, <1>2, Induction
  <2> QED
    BY <2>1
<1>4. PICK f \in [0 .. N -> S] : Good(f, N)
  BY <1>3
<1>5. f = [k \in 0 .. N |-> IF k = 0 THEN x ELSE step[k][f[k - 1]]]
  <2>1. \A k \in 0 .. N : k = 0 \/ k \in 1 .. N
    OBVIOUS
  <2>2. \A k \in 0 .. N : f[k] = IF k = 0 THEN x ELSE step[k][f[k - 1]]
    BY <1>4, <2>1
  <2> QED
    BY <1>4, <2>2
<1> QED
  BY <1>5 DEF Recurs

\* So does one that takes the same step each time.
Iterates(S, x, step, N) ==
  \E f \in [0 .. N -> S] : f = [k \in 0 .. N |-> IF k = 0 THEN x ELSE step[f[k - 1]]]
LEMMA Iterate ==
  ASSUME NEW S, NEW x \in S, NEW step \in [S -> S], NEW N \in Nat
  PROVE  Iterates(S, x, step, N)
<1> DEFINE steps == [k \in 1 .. N |-> step]
<1>1. Recurs(S, x, steps, N)
  BY Recursion
<1>2. PICK f \in [0 .. N -> S] :
        f = [k \in 0 .. N |-> IF k = 0 THEN x ELSE steps[k][f[k - 1]]]
  BY <1>1 DEF Recurs
<1>3. \A k \in 0 .. N : k # 0 => steps[k] = step
  OBVIOUS
<1> HIDE DEF steps
<1>4. \A k \in 0 .. N : f[k] = IF k = 0 THEN x ELSE step[f[k - 1]]
  BY <1>2, <1>3
<1>5. f = [k \in 0 .. N |-> IF k = 0 THEN x ELSE step[f[k - 1]]]
  BY <1>4
<1> QED
  BY <1>5 DEF Iterates

\* What each step keeps holds all along.
LEMMA StepByStep ==
  ASSUME NEW N \in Nat, NEW b, NEW inv, b[0] \in inv[0],
         \A k \in 1 .. N : b[k - 1] \in inv[k - 1] => b[k] \in inv[k]
  PROVE  \A k \in 0 .. N : b[k] \in inv[k]
<1> DEFINE T == {k \in Nat : k <= N => b[k] \in inv[k]}
<1>1. 0 \in T
  OBVIOUS
<1>2. ASSUME NEW k \in T PROVE k + 1 \in T
  <2> SUFFICES ASSUME k + 1 <= N PROVE b[k + 1] \in inv[k + 1]
    OBVIOUS
  <2>1. k + 1 \in 1 .. N /\ (k + 1) - 1 = k /\ b[k] \in inv[k]
    OBVIOUS
  <2> QED
    BY <2>1
<1>3. Nat \subseteq T
  <2>1. T \subseteq Nat
    OBVIOUS
  <2> HIDE DEF T
  <2> QED
    BY <1>1, <1>2, <2>1, Induction
<1> QED
  BY <1>3

\* A recursion whose steps keep an invariant need only be one where it holds.
Keeps(S, x, step, inv, N) ==
  \E f \in [0 .. N -> S] :
    /\ f = [k \in 0 .. N |-> IF k = 0 THEN x ELSE step[k][f[k - 1]]]
    /\ \A k \in 0 .. N : f[k] \in inv[k]
LEMMA RecursionKeeps ==
  ASSUME NEW S, NEW N \in Nat, NEW inv \in [0 .. N -> SUBSET S], NEW x \in inv[0], NEW step,
         \A k \in 1 .. N : \A s \in inv[k - 1] : step[k][s] \in inv[k]
  PROVE  Keeps(S, x, step, inv, N)
<1> DEFINE safe == [k \in 1 .. N |-> [s \in S |-> IF s \in inv[k - 1] THEN step[k][s] ELSE s]]
<1>1. safe \in [1 .. N -> [S -> S]] /\ x \in S
  <2>1. \A k \in 1 .. N : k \in 0 .. N /\ k - 1 \in 0 .. N
    OBVIOUS
  <2>2. \A k \in 1 .. N : \A s \in S : (IF s \in inv[k - 1] THEN step[k][s] ELSE s) \in S
    BY <2>1
  <2>3. 0 \in 0 .. N
    OBVIOUS
  <2> QED
    BY <2>2, <2>3
<1>2. PICK f \in [0 .. N -> S] : f = [k \in 0 .. N |-> IF k = 0 THEN x ELSE safe[k][f[k - 1]]]
  <2>1. Recurs(S, x, safe, N)
    <3> HIDE DEF safe
    <3> QED
      BY <1>1, Recursion
  <2> QED
    BY <2>1 DEF Recurs
<1>3. f[0] = x /\ \A k \in 1 .. N : f[k] = safe[k][f[k - 1]]
  <2>1. 0 \in 0 .. N /\ \A k \in 1 .. N : k \in 0 .. N /\ k # 0
    OBVIOUS
  <2> HIDE DEF safe
  <2> QED
    BY <1>2, <2>1
<1>4. ASSUME NEW k \in 1 .. N, f[k - 1] \in inv[k - 1]
      PROVE  f[k] = step[k][f[k - 1]] /\ f[k] \in inv[k]
  <2>1. k - 1 \in 0 .. N
    OBVIOUS
  <2>2. f[k - 1] \in S
    BY <2>1
  <2>3. safe[k][f[k - 1]] = step[k][f[k - 1]]
    BY <1>4, <2>2
  <2> QED
    BY <1>3, <1>4, <2>3
<1>6. \A k \in 0 .. N : f[k] \in inv[k]
  <2>1. f[0] \in inv[0]
    BY <1>3
  <2>2. \A k \in 1 .. N : f[k - 1] \in inv[k - 1] => f[k] \in inv[k]
    BY <1>4
  <2> QED
    BY <2>1, <2>2, StepByStep
<1>7. \A k \in 0 .. N : f[k] = IF k = 0 THEN x ELSE step[k][f[k - 1]]
  <2> TAKE k \in 0 .. N
  <2>1. CASE k = 0
    BY <1>3, <2>1
  <2>2. CASE k # 0
    <3>1. k \in 1 .. N /\ k - 1 \in 0 .. N
      BY <2>2
    <3> QED
      BY <1>4, <1>6, <2>2, <3>1
  <2> QED
    BY <2>1, <2>2
<1>8. f = [k \in 0 .. N |-> IF k = 0 THEN x ELSE step[k][f[k - 1]]]
  BY <1>7
<1> QED
  BY <1>6, <1>8 DEF Keeps

-----------------------------------------------------------------------------
(* A caller of AStar *)

Coordinates == [1 .. 2 -> Int]

\* Whoever calls it: between two searches the map may be any other, and a search
\* is for two points that differ.
Call == search = "idle" /\ \E p, q \in Coordinates : p # q /\ AstarSearch(p, q)
Answer ==
  /\ search \in Returned
  /\ search' = "idle"
  /\ UNCHANGED <<occupied, rounds, nodes, openSet, misplaced, center, startIdx, endIdx, gridPath>>
MapMoves ==
  /\ search = "idle"
  /\ UNCHANGED <<rounds, nodes, openSet, misplaced, center, startIdx, endIdx, gridPath, search>>

AStarNext == Call \/ SearchStep \/ Answer \/ MapMoves
AStarSpec == AStarInit /\ [][AStarNext]_astarVars

-----------------------------------------------------------------------------
(* The invariant *)

Nodes ==
  [rounds : Nat, state : {"UNDEFINED", "OPENSET", "CLOSEDSET"}, gScore : Nat,
   cameFrom : Pool \cup {NoNode}]

AStarTypeOK ==
  /\ rounds \in Nat
  /\ nodes \in [Pool -> Nodes]
  /\ \A n \in Pool : nodes[n].rounds <= rounds
  /\ openSet \subseteq Pool
  /\ search \in {"idle", "running"} \cup Returned

\* The nodes this search has put in the queue, then or before.
Reached(n) == Explored(n) /\ FreeNode(n)

StartsHere ==
  /\ startIdx \in Pool /\ Reached(startIdx)
  /\ nodes[startIdx].gScore = 0 /\ nodes[startIdx].cameFrom = NoNode

\* What a search is while it runs, whatever the nodes it has not reached hold.
Frontier ==
  /\ \A n \in openSet : Reached(n)
  /\ \A n \in Pool : Reached(n) =>
       nodes[n].state = IF n \in openSet THEN "OPENSET" ELSE "CLOSEDSET"
\* A reached node was reached from a closed one that is nearer to the start.
Linked(n) ==
  /\ nodes[n].cameFrom \in Pool
  /\ Reached(nodes[n].cameFrom) /\ Closed(nodes[n].cameFrom)
  /\ n \in Neighbours(nodes[n].cameFrom)
  /\ nodes[nodes[n].cameFrom].gScore < nodes[n].gScore
\* A closed node is not the end and has no free neighbour that was not reached.
Done(n) == n # endIdx /\ \A m \in Neighbours(n) : FreeNode(m) => Explored(m)

SearchInv ==
  search \in {"running", "exhausted"} =>
    /\ StartsHere
    /\ Frontier
    /\ \A n \in Pool : Reached(n) /\ n # startIdx => Linked(n)
    /\ \A n \in Pool : Reached(n) /\ Closed(n) => Done(n)
    /\ search = "exhausted" => openSet = {}

SearchIInv == AStarTypeOK /\ SearchInv /\ PathIsSound

-----------------------------------------------------------------------------
(* The ends of a search *)

LEMMA TruncatedMoves ==
  ASSUME NEW h \in Int, NEW k \in Nat
  PROVE  /\ Truncated(h) \in Int
         /\ Truncated(h + 2 * k) >= Truncated(h) + k - 1
         /\ Truncated(h - 2 * k) <= Truncated(h) - k + 1
  BY DEF Truncated

LEMMA PushedIs ==
  ASSUME NEW p \in Coordinates, NEW q \in Coordinates, NEW k \in Nat, NEW d \in 1 .. 2
  PROVE  /\ p[d] \in Int /\ q[d] \in Int
         /\ p[d] > q[d] => Pushed(p, q, k)[d] = p[d] + 2 * k
         /\ p[d] < q[d] => Pushed(p, q, k)[d] = p[d] - 2 * k
         /\ p[d] = q[d] => Pushed(p, q, k)[d] = p[d]
<1>1. p[d] \in Int /\ q[d] \in Int
  BY DEF Coordinates
<1>2. Pushed(p, q, k)[d] = p[d] + k * Towards(p, q)[d]
  BY DEF Pushed
<1>3. Towards(p, q)[d] = IF p[d] > q[d] THEN 2 ELSE IF p[d] < q[d] THEN -2 ELSE 0
  BY DEF Towards
<1>4. CASE p[d] > q[d]
  BY <1>1, <1>2, <1>3, <1>4
<1>5. CASE p[d] < q[d]
  BY <1>1, <1>2, <1>3, <1>5
<1>6. CASE p[d] = q[d]
  BY <1>1, <1>2, <1>3, <1>6
<1> QED
  BY <1>1, <1>4, <1>5, <1>6

LEMMA PushedType ==
  ASSUME NEW p \in Coordinates, NEW q \in Coordinates, NEW k \in Nat
  PROVE  Pushed(p, q, k) \in Coordinates
<1>1. \A d \in 1 .. 2 : Pushed(p, q, k)[d] \in Int
  BY PushedIs
<1> QED
  BY <1>1 DEF Pushed, Coordinates

LEMMA PushedApart ==
  ASSUME NEW p \in Coordinates, NEW q \in Coordinates, NEW k \in Nat, p # q
  PROVE  Pushed(p, q, k) # q
<1>1. PICK d \in 1 .. 2 : p[d] # q[d]
  BY DEF Coordinates
<1>2. Pushed(p, q, k)[d] # q[d]
  BY <1>1, PushedIs
<1> QED
  BY <1>2

\* Enough pushes leave the pool.
LEMMA PushedLeaves ==
  ASSUME NEW p \in Coordinates, NEW q \in Coordinates, NEW c \in Coordinates, p # q,
         Coord2Index(p, c) \in Pool
  PROVE  Coord2Index(Pushed(p, q, PoolX + PoolY), c) \notin Pool
<1> DEFINE N == PoolX + PoolY
           P == Pushed(p, q, N)
<1>0. PoolX \in Nat /\ PoolY \in Nat /\ PoolX > 0 /\ PoolY > 0 /\ N \in Nat
  BY PoolAssumption
<1>1. PICK d \in 1 .. 2 : p[d] # q[d]
  BY DEF Coordinates
<1>2. p[d] \in Int /\ q[d] \in Int /\ c[d] \in Int /\ CenterIdx[d] \in Int
  BY <1>0 DEF Coordinates, CenterIdx
<1>3. /\ Coord2Index(p, c)[d] = Truncated(p[d] - c[d] + 1) + CenterIdx[d]
      /\ Coord2Index(P, c)[d] = Truncated(P[d] - c[d] + 1) + CenterIdx[d]
  BY DEF Coord2Index
<1>4. \A i \in Pool : /\ i[d] \in Int /\ i[d] >= 0
                      /\ d = 1 => i[d] <= PoolX - 1
                      /\ d = 2 => i[d] <= PoolY - 1
  BY <1>0 DEF Pool
<1>5. SUFFICES ASSUME Coord2Index(P, c) \in Pool PROVE FALSE
  OBVIOUS
<1> DEFINE i == Coord2Index(p, c)[d]
           j == Coord2Index(P, c)[d]
           h == p[d] - c[d] + 1
<1>6. /\ i \in Int /\ i >= 0 /\ i <= N - 2
      /\ j \in Int /\ j >= 0 /\ j <= N - 2
  <2>1. d = 1 \/ d = 2
    OBVIOUS
  <2>2. \A k \in Pool : k[d] \in Int /\ k[d] >= 0 /\ k[d] <= N - 1
    BY <1>0, <1>4, <2>1
  <2>3. \A k \in Pool : k[d] <= N - 2
    <3> TAKE k \in Pool
    <3>1. CASE d = 1
      BY <1>0, <1>4, <3>1
    <3>2. CASE d = 2
      BY <1>0, <1>4, <3>2
    <3> QED
      BY <2>1, <3>1, <3>2
  <2> QED
    BY <1>5, <2>2, <2>3
<1>7. h \in Int
  BY <1>2
<1>8. CASE p[d] > q[d]
  <2>1. P[d] = p[d] + 2 * N
    BY <1>0, <1>8, PushedIs
  <2> HIDE DEF P, N
  <2>2. P[d] - c[d] + 1 = h + 2 * N
    BY <1>0, <1>2, <2>1
  <2> HIDE DEF h
  <2>3. Truncated(h) \in Int /\ Truncated(h + 2 * N) >= Truncated(h) + N - 1
    BY <1>0, <1>7, TruncatedMoves
  <2>4. i = Truncated(h) + CenterIdx[d] /\ j = Truncated(h + 2 * N) + CenterIdx[d]
    BY <1>3, <2>2 DEF h
  <2>5. Truncated(h + 2 * N) \in Int
    BY <1>0, <1>7, TruncatedMoves
  <2> HIDE DEF i, j
  <2> QED
    BY <1>0, <1>2, <1>6, <2>3, <2>4, <2>5
<1>9. CASE p[d] < q[d]
  <2>1. P[d] = p[d] - 2 * N
    BY <1>0, <1>9, PushedIs
  <2> HIDE DEF P, N
  <2>2. P[d] - c[d] + 1 = h - 2 * N
    BY <1>0, <1>2, <2>1
  <2> HIDE DEF h
  <2>3. Truncated(h) \in Int /\ Truncated(h - 2 * N) <= Truncated(h) - N + 1
    BY <1>0, <1>7, TruncatedMoves
  <2>4. i = Truncated(h) + CenterIdx[d] /\ j = Truncated(h - 2 * N) + CenterIdx[d]
    BY <1>3, <2>2 DEF h
  <2>5. Truncated(h - 2 * N) \in Int
    BY <1>0, <1>7, TruncatedMoves
  <2> HIDE DEF i, j
  <2> QED
    BY <1>0, <1>2, <1>6, <2>3, <2>4, <2>5
<1> QED
  BY <1>1, <1>2, <1>8, <1>9

\* An adjusted end is free, or out of the pool.
LEMMA AdjustedIs ==
  ASSUME NEW p \in Coordinates, NEW q \in Coordinates, NEW c \in Coordinates, p # q
  PROVE  /\ Adjusted(p, q, c) \in Coordinates
         /\ Adjusted(p, q, c) # q
         /\ \E k \in Nat : Adjusted(p, q, c) = Pushed(p, q, k)
         /\ \/ Coord2Index(Adjusted(p, q, c), c) \notin Pool
            \/ ~Occupied(Index2Coord(Coord2Index(Adjusted(p, q, c), c), c))
<1> DEFINE Stop(k) == \/ Coord2Index(Pushed(p, q, k), c) \notin Pool
                      \/ ~Occupied(Index2Coord(Coord2Index(Pushed(p, q, k), c), c))
           stops == {k \in 0 .. PoolX + PoolY : Stop(k)}
           first == CHOOSE k \in stops : \A l \in stops : k <= l
<1>0. PoolX \in Nat /\ PoolY \in Nat
  BY PoolAssumption
<1>1. Adjusted(p, q, c) = Pushed(p, q, first)
  BY DEF Adjusted
<1>2. stops \subseteq Nat
  BY <1>0
<1>3. stops # {}
  <2>1. CASE Coord2Index(p, c) \in Pool
    BY <1>0, <2>1, PushedLeaves
  <2>2. CASE Coord2Index(p, c) \notin Pool
    <3>1. Pushed(p, q, 0) = p
      <4>1. \A d \in 1 .. 2 : Pushed(p, q, 0)[d] = p[d]
        <5> TAKE d \in 1 .. 2
        <5>1. p[d] \in Int /\ q[d] \in Int
          BY PushedIs
        <5>2. p[d] > q[d] \/ p[d] < q[d] \/ p[d] = q[d]
          BY <5>1
        <5>3. p[d] + 2 * 0 = p[d] /\ p[d] - 2 * 0 = p[d]
          BY <5>1
        <5>4. 0 \in Nat
          OBVIOUS
        <5> QED
          BY <5>2, <5>3, <5>4, PushedIs
      <4>2. Pushed(p, q, 0) \in Coordinates
        BY PushedType
      <4> QED
        BY <4>1, <4>2 DEF Coordinates
    <3>2. 0 \in 0 .. PoolX + PoolY
      BY <1>0
    <3> QED
      BY <2>2, <3>1, <3>2
  <2> QED
    BY <2>1, <2>2
<1>4. first \in stops
  <2>1. \E k \in stops : \A l \in stops : k <= l
    BY <1>2, <1>3, LeastElement
  <2> HIDE DEF stops
  <2> QED
    BY <2>1
<1>5. first \in Nat /\ Stop(first)
  BY <1>0, <1>4
<1> HIDE DEF first
<1> QED
  BY <1>1, <1>5, PushedType, PushedApart

-----------------------------------------------------------------------------
(* Calling *)

LEMMA SearchInitIInv == AStarInit => SearchIInv
<1> SUFFICES ASSUME AStarInit PROVE SearchIInv
  OBVIOUS
<1>1. UnusedNode \in Nodes /\ UnusedNode.rounds = 0
  BY DEF UnusedNode, Nodes
<1>2. AStarTypeOK
  BY <1>1 DEF AStarInit, AStarTypeOK
<1>3. search = "idle"
  BY DEF AStarInit
<1> QED
  BY <1>2, <1>3 DEF SearchIInv, SearchInv, PathIsSound

LEMMA MidpointType ==
  ASSUME NEW p \in Coordinates, NEW q \in Coordinates
  PROVE  Midpoint(p, q) \in Coordinates
<1>1. \A d \in 1 .. 2 : p[d] \in Int /\ q[d] \in Int
  BY DEF Coordinates
<1>2. \A d \in 1 .. 2 : (p[d] + q[d]) \div 2 \in Int
  BY <1>1
<1> QED
  BY <1>2 DEF Midpoint, Coordinates

LEMMA CallKeeps == ASSUME SearchIInv, Call PROVE SearchIInv'
<1>1. PICK p, q \in Coordinates : p # q /\ AstarSearch(p, q)
  BY DEF Call
<1> DEFINE c == Midpoint(p, q)
           s == Adjusted(p, q, c)
           e == Adjusted(q, s, c)
<1>2. c \in Coordinates /\ s \in Coordinates /\ s # q
  BY <1>1, MidpointType, AdjustedIs
<1> PICK si, ei : si = Coord2Index(s, c) /\ ei = Coord2Index(e, c)
  OBVIOUS
<1>3. si \in Pool => ~Occupied(Index2Coord(si, c))
  BY <1>1, MidpointType, AdjustedIs
<1>4. /\ search' = IF {si, ei} \subseteq Pool THEN "running" ELSE "no_endpoint"
      /\ rounds' = rounds + 1 /\ center' = c /\ occupied' = occupied /\ gridPath' = gridPath
  BY <1>1 DEF AstarSearch
<1>5. rounds' \in Nat /\ rounds' > rounds
  BY <1>4 DEF SearchIInv, AStarTypeOK
<1>6. CASE ~({si, ei} \subseteq Pool)
  <2>1. search' = "no_endpoint" /\ nodes' = nodes /\ openSet' = openSet
    BY <1>1, <1>4, <1>6 DEF AstarSearch
  <2>2. \A n \in Pool : nodes[n].rounds \in Nat
    BY DEF SearchIInv, AStarTypeOK, Nodes
  <2>3. \A n \in Pool : nodes'[n].rounds <= rounds'
    BY <1>4, <2>1, <2>2 DEF SearchIInv, AStarTypeOK
  <2>4. AStarTypeOK'
    BY <1>5, <2>1, <2>3 DEF SearchIInv, AStarTypeOK, Returned
  <2> QED
    BY <2>1, <2>4 DEF SearchIInv, SearchInv, PathIsSound
<1>7. CASE {si, ei} \subseteq Pool
  <2> DEFINE new == [rounds |-> rounds', state |-> "OPENSET", gScore |-> 0, cameFrom |-> NoNode]
  <2>1. /\ search' = "running" /\ startIdx' = si /\ endIdx' = ei /\ openSet' = {si}
        /\ nodes' = [nodes EXCEPT ![si] = new]
    BY <1>1, <1>4, <1>7 DEF AstarSearch
  <2>2. si \in Pool
    BY <1>7
  <2>3. new \in Nodes
    BY <1>5 DEF Nodes
  <2>4. nodes' \in [Pool -> Nodes] /\ nodes'[si] = new /\ \A n \in Pool : n # si => nodes'[n] = nodes[n]
    BY <2>1, <2>2, <2>3 DEF SearchIInv, AStarTypeOK
  <2>5. \A n \in Pool : nodes[n].rounds \in Nat /\ nodes[n].rounds <= rounds
    BY DEF SearchIInv, AStarTypeOK, Nodes
  <2>6. \A n \in Pool : n # si => nodes'[n].rounds < rounds'
    BY <1>4, <2>4, <2>5 DEF SearchIInv, AStarTypeOK
  <2>7. AStarTypeOK'
    <3>1. nodes'[si].rounds = rounds'
      BY <2>4
    <3>2. \A n \in Pool : nodes'[n].rounds <= rounds'
      <4> TAKE n \in Pool
      <4>1. CASE n = si
        BY <1>5, <3>1, <4>1
      <4>2. CASE n # si
        <5>1. nodes'[n].rounds \in Nat
          BY <2>4, <2>5, <4>2
        <5> QED
          BY <1>5, <2>6, <4>2, <5>1
      <4> QED
        BY <4>1, <4>2
    <3> QED
      BY <1>5, <2>1, <2>2, <2>4, <3>2 DEF AStarTypeOK
  <2>8. \A n \in Pool : n # si => ~Explored(n)'
    <3> SUFFICES ASSUME NEW n \in Pool, n # si PROVE nodes'[n].rounds # rounds'
      BY DEF Explored
    <3>1. nodes'[n].rounds < rounds' /\ nodes'[n].rounds \in Nat
      BY <2>4, <2>5, <2>6
    <3> QED
      BY <1>5, <3>1
  <2>9. Explored(si)' /\ FreeNode(si)'
    <3>1. Explored(si)'
      BY <2>4 DEF Explored
    <3>2. FreeNode(si)'
      BY <1>3, <1>4, <2>2 DEF FreeNode, Occupied
    <3> QED
      BY <3>1, <3>2
  <2>10. StartsHere'
    BY <2>1, <2>2, <2>4, <2>9 DEF StartsHere, Reached
  <2>11. Frontier'
    BY <2>1, <2>4, <2>8, <2>9 DEF Frontier, Reached
  <2>12. ~Closed(si)'
    BY <2>4 DEF Closed
  <2>13. SearchInv'
    BY <2>1, <2>8, <2>10, <2>11, <2>12 DEF SearchInv, Reached
  <2> QED
    BY <2>1, <2>7, <2>13 DEF SearchIInv, PathIsSound
<1> QED
  BY <1>6, <1>7

LEMMA AnswerKeeps == ASSUME SearchIInv, Answer PROVE SearchIInv'
  BY DEF Answer, SearchIInv, AStarTypeOK, SearchInv, PathIsSound

LEMMA MapMovesKeeps == ASSUME SearchIInv, MapMoves PROVE SearchIInv'
  BY DEF MapMoves, SearchIInv, AStarTypeOK, SearchInv, PathIsSound

LEMMA ExhaustKeeps == ASSUME SearchIInv, search = "running", Exhaust PROVE SearchIInv'
<1>1. /\ UNCHANGED <<occupied, rounds, nodes, openSet, center, startIdx, endIdx>>
      /\ search' = "exhausted" /\ openSet = {}
  BY DEF Exhaust
<1>2. AStarTypeOK'
  BY <1>1 DEF SearchIInv, AStarTypeOK, Returned
<1>3. SearchInv'
  BY <1>1 DEF SearchIInv, SearchInv, StartsHere, Frontier, Linked, Done, Reached, Explored, Closed,
     FreeNode, Occupied
<1> QED
  BY <1>1, <1>2, <1>3 DEF SearchIInv, PathIsSound

-----------------------------------------------------------------------------
(* Expanding *)

LEMMA NeighboursAre ==
  ASSUME NEW n \in Pool
  PROVE  Neighbours(n) \subseteq Pool /\ n \notin Neighbours(n)
<1>1. Neighbours(n) \subseteq Pool
  BY DEF Neighbours, Interior
<1>2. ASSUME n \in Neighbours(n) PROVE FALSE
  <2>1. PICK d \in Steps : n = <<n[1] + d[1], n[2] + d[2]>>
    BY <1>2 DEF Neighbours
  <2>2. d[1] \in Int /\ d[2] \in Int /\ (d[1] # 0 \/ d[2] # 0)
    BY DEF Steps
  <2>3. n[1] \in Int /\ n[2] \in Int
    BY PoolAssumption DEF Pool
  <2>4. n[1] = n[1] + d[1] /\ n[2] = n[2] + d[2]
    BY <2>1
  <2> QED
    BY <2>2, <2>3, <2>4
<1> QED
  BY <1>1, <1>2

\* What trying a neighbour leaves in it.
LEMMA TriedIs ==
  ASSUME AStarTypeOK, NEW n \in Pool, NEW current \in Pool, NEW r, r = Tried(n, current)
  PROVE  /\ r \in Nodes /\ r.rounds = rounds
         /\ ~FreeNode(n) \/ Explored(n) => r.state = nodes[n].state
         /\ FreeNode(n) /\ ~Explored(n) => r.state = "OPENSET"
         /\ \/ r.gScore = nodes[n].gScore /\ r.cameFrom = nodes[n].cameFrom
            \/ /\ r.gScore > nodes[current].gScore /\ r.cameFrom = current
               /\ Explored(n) => r.gScore < nodes[n].gScore
         /\ FreeNode(n) /\ ~Explored(n) =>
              r.gScore > nodes[current].gScore /\ r.cameFrom = current
<1> DEFINE g == nodes[current].gScore + StaticCost(current, n)
           seen == [nodes[n] EXCEPT !.rounds = rounds]
           better == [seen EXCEPT !.gScore = g, !.cameFrom = current]
           new == [better EXCEPT !.state = "OPENSET"]
<1>1. nodes[n] \in Nodes /\ nodes[current] \in Nodes /\ rounds \in Nat
  BY DEF AStarTypeOK
<1>2. StaticCost(current, n) \in Nat /\ StaticCost(current, n) > 0
  BY DEF StaticCost, Diagonal, Straight
<1>3. g \in Nat /\ g > nodes[current].gScore
  BY <1>1, <1>2 DEF Nodes
<1> HIDE DEF g
<1>4. /\ seen \in Nodes /\ seen.rounds = rounds /\ seen.state = nodes[n].state
      /\ seen.gScore = nodes[n].gScore /\ seen.cameFrom = nodes[n].cameFrom
  BY <1>1 DEF Nodes
<1>5. /\ better \in Nodes /\ better.rounds = rounds /\ better.state = nodes[n].state
      /\ better.gScore = g /\ better.cameFrom = current
  BY <1>1, <1>3 DEF Nodes
<1>6. /\ new \in Nodes /\ new.rounds = rounds /\ new.state = "OPENSET"
      /\ new.gScore = g /\ new.cameFrom = current
  BY <1>1, <1>3 DEF Nodes
<1>7. r = IF ~FreeNode(n) THEN seen
          ELSE IF ~Explored(n) THEN new
          ELSE IF g < nodes[n].gScore THEN better ELSE seen
  BY DEF Tried, FreeNode, g
<1> HIDE DEF seen, better, new
<1>8. CASE ~FreeNode(n)
  BY <1>4, <1>7, <1>8
<1>9. CASE FreeNode(n) /\ ~Explored(n)
  BY <1>3, <1>6, <1>7, <1>9
<1>10. CASE FreeNode(n) /\ Explored(n) /\ g < nodes[n].gScore
  BY <1>3, <1>5, <1>7, <1>10
<1>11. CASE FreeNode(n) /\ Explored(n) /\ ~(g < nodes[n].gScore)
  BY <1>4, <1>7, <1>11
<1> QED
  BY <1>8, <1>9, <1>10, <1>11

LEMMA ExpandKeeps ==
  ASSUME SearchIInv, search = "running", NEW current \in openSet, Expand(current)
  PROVE  SearchIInv'
<1> DEFINE tried == {n \in Neighbours(current) : ~Closed(n)}
           open == {n \in tried : FreeNode(n)}
<1>1. /\ AStarTypeOK /\ StartsHere /\ Frontier
      /\ \A n \in Pool : Reached(n) /\ n # startIdx => Linked(n)
      /\ \A n \in Pool : Reached(n) /\ Closed(n) => Done(n)
  BY DEF SearchIInv, SearchInv
<1>2. current \in Pool /\ Reached(current) /\ nodes[current].state = "OPENSET"
  BY <1>1 DEF AStarTypeOK, Frontier
<1>3. tried \subseteq Pool /\ current \notin tried
  BY <1>2, NeighboursAre
<1>4. /\ current # endIdx
      /\ nodes' = [n \in Pool |->
           IF n = current THEN [nodes[n] EXCEPT !.state = "CLOSEDSET"]
           ELSE IF n \in tried THEN Tried(n, current) ELSE nodes[n]]
      /\ openSet' = (openSet \ {current}) \cup {n \in open : ~Explored(n)}
      /\ search' \in {"running", "late"}
      /\ occupied' = occupied /\ rounds' = rounds /\ center' = center
      /\ startIdx' = startIdx /\ endIdx' = endIdx
  <2>1. open = {n \in tried : ~Occupied(Index2Coord(n, center))}
    BY DEF FreeNode
  <2> QED
    BY <2>1 DEF Expand
<1>5. \A n \in Pool : FreeNode(n)' <=> FreeNode(n)
  BY <1>4 DEF FreeNode, Occupied
<1>6. \A n \in Pool : nodes[n] \in Nodes
  BY <1>1 DEF AStarTypeOK
\* The three kinds of nodes.
<1>7. /\ nodes'[current] \in Nodes /\ nodes'[current].rounds = nodes[current].rounds
      /\ nodes'[current].state = "CLOSEDSET"
      /\ nodes'[current].gScore = nodes[current].gScore
      /\ nodes'[current].cameFrom = nodes[current].cameFrom
  <2>1. nodes'[current] = [nodes[current] EXCEPT !.state = "CLOSEDSET"]
    BY <1>2, <1>4
  <2> QED
    BY <1>2, <1>6, <2>1 DEF Nodes
<1>8. \A n \in tried : nodes'[n] = Tried(n, current)
  BY <1>3, <1>4
<1>9. \A n \in Pool : n # current /\ n \notin tried => nodes'[n] = nodes[n]
  BY <1>4
<1> HIDE DEF tried
<1>10. \A n \in tried :
         /\ nodes'[n] \in Nodes /\ nodes'[n].rounds = rounds
         /\ ~FreeNode(n) \/ Explored(n) => nodes'[n].state = nodes[n].state
         /\ FreeNode(n) /\ ~Explored(n) => nodes'[n].state = "OPENSET"
         /\ \/ nodes'[n].gScore = nodes[n].gScore /\ nodes'[n].cameFrom = nodes[n].cameFrom
            \/ /\ nodes'[n].gScore > nodes[current].gScore /\ nodes'[n].cameFrom = current
               /\ Explored(n) => nodes'[n].gScore < nodes[n].gScore
         /\ FreeNode(n) /\ ~Explored(n) =>
              nodes'[n].gScore > nodes[current].gScore /\ nodes'[n].cameFrom = current
  <2> TAKE n \in tried
  <2>1. n \in Pool
    BY <1>3
  <2>2. nodes'[n] = Tried(n, current)
    BY <1>8
  <2> QED
    BY <1>1, <1>2, <2>1, <2>2, TriedIs
<1>11. nodes' \in [Pool -> Nodes]
  <2>1. \A n \in Pool : nodes'[n] \in Nodes
    BY <1>3, <1>6, <1>7, <1>9, <1>10
  <2> QED
    BY <1>4, <2>1
<1>12. AStarTypeOK'
  <2>1. \A n \in Pool : nodes'[n].rounds <= rounds
    <3>1. rounds <= rounds
      BY <1>1 DEF AStarTypeOK
    <3> QED
      BY <1>1, <1>7, <1>9, <1>10, <3>1 DEF AStarTypeOK
  <2>2. openSet' \subseteq Pool
    BY <1>1, <1>3, <1>4 DEF AStarTypeOK
  <2> QED
    BY <1>1, <1>4, <1>11, <2>1, <2>2 DEF AStarTypeOK, Returned
<1>13. \A n \in Pool : Explored(n)' <=> Explored(n) \/ n \in tried
  <2> TAKE n \in Pool
  <2>1. CASE n = current
    BY <1>2, <1>3, <1>4, <1>7, <2>1 DEF Explored, Reached
  <2>2. CASE n \in tried
    BY <1>4, <1>10, <2>2 DEF Explored
  <2>3. CASE n # current /\ n \notin tried
    BY <1>4, <1>9, <2>3 DEF Explored
  <2> QED
    BY <2>1, <2>2, <2>3
<1>14. \A n \in tried : FreeNode(n) /\ Explored(n) => n \in openSet /\ nodes[n].state = "OPENSET"
  <2> TAKE n \in tried
  <2>1. n \in Pool /\ ~Closed(n)
    BY <1>3 DEF tried
  <2> QED
    BY <1>1, <2>1 DEF Frontier, Reached, Closed
<1>15. \A n \in Pool : Reached(n) /\ Closed(n) =>
         nodes'[n] = nodes[n] /\ n # current /\ Closed(n)' /\ Reached(n)'
  <2> TAKE n \in Pool
  <2> HAVE Reached(n) /\ Closed(n)
  <2>1. n # current
    BY <1>2 DEF Closed
  <2>2. n \notin tried
    BY DEF tried
  <2>3. nodes'[n] = nodes[n]
    BY <1>9, <2>1, <2>2
  <2> QED
    BY <1>4, <1>5, <2>1, <2>3 DEF Closed, Reached, Explored
<1>16. Reached(current)' /\ Closed(current)'
  BY <1>2, <1>5, <1>7, <1>13 DEF Reached, Closed
<1>17. ASSUME search' = "running" PROVE SearchInv'
  <2>1. StartsHere'
    <3>1. startIdx \in Pool /\ Reached(startIdx) /\ nodes[startIdx].gScore = 0
          /\ nodes[startIdx].cameFrom = NoNode
      BY <1>1 DEF StartsHere
    <3>2. Reached(startIdx)'
      BY <1>4, <1>5, <1>13, <3>1 DEF Reached
    <3>3. nodes'[startIdx].gScore = 0 /\ nodes'[startIdx].cameFrom = NoNode
      <4>1. CASE startIdx = current
        BY <1>7, <3>1, <4>1
      <4>2. CASE startIdx \in tried
        <5>1. nodes'[startIdx].gScore \in Nat
          BY <1>10, <4>2 DEF Nodes
        <5> QED
          BY <1>10, <3>1, <4>2, <5>1 DEF Reached
      <4>3. CASE startIdx # current /\ startIdx \notin tried
        BY <1>9, <3>1, <4>3
      <4> QED
        BY <4>1, <4>2, <4>3
    <3> QED
      BY <1>4, <3>1, <3>2, <3>3 DEF StartsHere, Reached, Explored, FreeNode, Occupied
  <2>2. Frontier'
    <3>1. ASSUME NEW n \in openSet' PROVE Reached(n)'
      <4>1. n \in Pool
        BY <1>12 DEF AStarTypeOK
      <4> QED
        BY <1>1, <1>4, <1>5, <1>13, <4>1 DEF Frontier, Reached
    <3>2. ASSUME NEW n \in Pool, Reached(n)'
          PROVE  nodes'[n].state = IF n \in openSet' THEN "OPENSET" ELSE "CLOSEDSET"
      <4>0. FreeNode(n)
        BY <1>5, <3>2 DEF Reached
      <4>1. CASE n = current
        BY <1>3, <1>4, <1>7, <4>1
      <4>2. CASE n \in tried
        <5>1. CASE Explored(n)
          BY <1>3, <1>4, <1>10, <1>14, <4>0, <4>2, <5>1
        <5>2. CASE ~Explored(n)
          BY <1>4, <1>10, <4>0, <4>2, <5>2
        <5> QED
          BY <5>1, <5>2
      <4>3. CASE n # current /\ n \notin tried
        <5>1. Reached(n)
          BY <1>5, <1>13, <3>2, <4>3 DEF Reached
        <5>2. n \in openSet' <=> n \in openSet
          BY <1>4, <4>3
        <5> QED
          BY <1>1, <1>9, <4>3, <5>1, <5>2 DEF Frontier
      <4> QED
        BY <4>1, <4>2, <4>3
    <3> QED
      BY <3>1, <3>2 DEF Frontier
  <2>3. ASSUME NEW n \in Pool, Reached(n)', n # startIdx PROVE Linked(n)'
    <3>0. FreeNode(n)
      BY <1>5, <2>3 DEF Reached
    \* A link that was there stays: its closed end does not change.
    <3>1. ASSUME Reached(n), nodes'[n].cameFrom = nodes[n].cameFrom,
                 nodes'[n].gScore = nodes[n].gScore
          PROVE  Linked(n)'
      <4>1. Linked(n)
        BY <1>1, <2>3, <3>1
      <4>2. PICK m \in Pool : /\ m = nodes[n].cameFrom /\ Reached(m) /\ Closed(m)
                              /\ n \in Neighbours(m) /\ nodes[m].gScore < nodes[n].gScore
        BY <4>1 DEF Linked
      <4>3. nodes'[m] = nodes[m] /\ Closed(m)' /\ Reached(m)'
        <5>1. \A k \in Pool : Reached(k) /\ Closed(k) =>
                nodes'[k] = nodes[k] /\ nodes'[k].rounds = rounds' /\ nodes'[k].state = "CLOSEDSET"
                /\ ~Occupied(Index2Coord(k, center))'
          BY <1>15 DEF Closed, Explored, Reached, FreeNode
        <5>2. /\ nodes'[m] = nodes[m] /\ nodes'[m].rounds = rounds'
              /\ nodes'[m].state = "CLOSEDSET" /\ ~Occupied(Index2Coord(m, center))'
          BY <4>2, <5>1 DEF Occupied
        <5> QED
          BY <5>2 DEF Closed, Explored, Reached, FreeNode, Occupied
      <4> QED
        BY <3>1, <4>2, <4>3 DEF Linked, Closed, Explored, Reached, FreeNode, Occupied
    <3>2. ASSUME nodes'[n].cameFrom = current, nodes'[n].gScore > nodes[current].gScore,
                 n \in tried
          PROVE  Linked(n)'
      <4>1. n \in Neighbours(current)
        BY <3>2 DEF tried
      <4>2. nodes'[current].gScore < nodes'[n].gScore
        <5>1. nodes[current].gScore \in Nat /\ nodes'[n].gScore \in Nat
          BY <1>2, <1>6, <1>10, <3>2 DEF Nodes
        <5> QED
          BY <1>7, <3>2, <5>1
      <4> QED
        BY <1>2, <1>16, <3>2, <4>1, <4>2 DEF Linked, Closed, Explored, Reached, FreeNode, Occupied
    <3>3. CASE n = current
      BY <1>2, <1>7, <3>1, <3>3
    <3>4. CASE n \in tried
      <4>1. CASE Explored(n)
        BY <1>10, <3>0, <3>1, <3>2, <3>4, <4>1 DEF Reached
      <4>2. CASE ~Explored(n)
        BY <1>10, <3>0, <3>2, <3>4, <4>2
      <4> QED
        BY <4>1, <4>2
    <3>5. CASE n # current /\ n \notin tried
      BY <1>5, <1>9, <1>13, <2>3, <3>1, <3>5 DEF Reached
    <3> QED
      BY <3>3, <3>4, <3>5
  <2>4. ASSUME NEW n \in Pool, Reached(n)', Closed(n)' PROVE Done(n)'
    <3>1. CASE n = current
      <4>1. \A m \in Neighbours(current) : FreeNode(m)' => Explored(m)'
        <5> TAKE m \in Neighbours(current)
        <5>1. m \in Pool
          BY <1>2, NeighboursAre
        <5>2. m \in tried \/ Explored(m)
          BY DEF tried, Closed
        <5> QED
          BY <1>13, <5>1, <5>2
      <4> QED
        BY <1>4, <3>1, <4>1 DEF Done
    <3>2. CASE n # current
      <4>1. Reached(n) /\ Closed(n)
        <5>1. CASE n \in tried
          <6>1. FreeNode(n) /\ nodes'[n].state = "CLOSEDSET"
            BY <1>5, <2>4 DEF Reached, Closed
          <6> QED
            BY <1>10, <1>14, <5>1, <6>1
        <5>2. CASE n \notin tried
          BY <1>4, <1>5, <1>9, <1>13, <2>4, <3>2, <5>2 DEF Reached, Closed
        <5> QED
          BY <5>1, <5>2
      <4>2. Done(n)
        BY <1>1, <4>1
      <4>3. \A m \in Neighbours(n) : FreeNode(m)' => Explored(m)'
        <5> TAKE m \in Neighbours(n)
        <5>1. m \in Pool
          BY NeighboursAre
        <5> QED
          BY <1>5, <1>13, <4>2, <5>1 DEF Done
      <4> QED
        BY <1>4, <4>2, <4>3 DEF Done
    <3> QED
      BY <3>1, <3>2
  <2> QED
    BY <1>4, <1>17, <2>1, <2>2, <2>3, <2>4 DEF SearchInv
<1>18. SearchInv' /\ PathIsSound'
  BY <1>4, <1>17 DEF SearchInv, PathIsSound
<1> QED
  BY <1>12, <1>18 DEF SearchIInv

-----------------------------------------------------------------------------
(* The path back *)

Links == \A n \in Pool : Reached(n) /\ n # startIdx => Linked(n)

LEMMA PreviousIs ==
  ASSUME AStarTypeOK, StartsHere, Links, NEW n \in Pool, Reached(n)
  PROVE  /\ Previous(n) \in Pool /\ Reached(Previous(n))
         /\ n # startIdx => /\ nodes[n].cameFrom # NoNode
                            /\ n \in Neighbours(Previous(n))
                            /\ nodes[Previous(n)].gScore < nodes[n].gScore
         /\ n = startIdx => nodes[n].cameFrom = NoNode /\ Previous(n) = n
<1>1. CASE n = startIdx
  BY <1>1 DEF StartsHere, Previous
<1>2. CASE n # startIdx
  <2>1. Linked(n)
    BY <1>2 DEF Links
  <2>2. nodes[n].cameFrom # NoNode
    BY <2>1, NodeAssumption DEF Linked
  <2> QED
    BY <1>2, <2>1, <2>2 DEF Linked, Previous
<1> QED
  BY <1>1, <1>2

\* The unfolding of the walk back.
LEMMA TrailIs ==
  ASSUME AStarTypeOK, StartsHere, Links, NEW n \in Pool, Reached(n)
  PROVE  Trail(n) = [k \in 0 .. nodes[n].gScore |->
                       IF k = 0 THEN n ELSE Previous(Trail(n)[k - 1])]
<1> DEFINE R == {m \in Pool : Reached(m)}
           step == [m \in R |-> Previous(m)]
           N == nodes[n].gScore
<1>1. N \in Nat
  BY DEF AStarTypeOK, Nodes
<1>2. step \in [R -> R]
  BY PreviousIs
<1>3. PICK f \in [0 .. N -> R] : f = [k \in 0 .. N |-> IF k = 0 THEN n ELSE step[f[k - 1]]]
  <2>1. n \in R
    OBVIOUS
  <2> HIDE DEF R, step, N
  <2>2. Iterates(R, n, step, N)
    BY <1>1, <1>2, <2>1, Iterate
  <2> QED
    BY <2>2 DEF Iterates
<1>4. f = [k \in 0 .. N |-> IF k = 0 THEN n ELSE Previous(f[k - 1])]
  <2>1. \A k \in 0 .. N : k # 0 => step[f[k - 1]] = Previous(f[k - 1])
    <3> TAKE k \in 0 .. N
    <3> HAVE k # 0
    <3>1. k - 1 \in 0 .. N
      BY <1>1
    <3>2. f[k - 1] \in R
      BY <1>3, <3>1
    <3> QED
      BY <3>2
  <2> HIDE DEF step, N, R
  <2>2. \A k \in 0 .. N : f[k] = IF k = 0 THEN n ELSE Previous(f[k - 1])
    BY <1>3, <2>1
  <2>3. f = [k \in 0 .. N |-> f[k]]
    BY <1>3
  <2> QED
    BY <2>2, <2>3
<1> DEFINE Unfolds(b) == b = [k \in 0 .. nodes[n].gScore |->
                                IF k = 0 THEN n ELSE Previous(b[k - 1])]
<1>5. Unfolds(f)
  BY <1>4
<1>6. Trail(n) = CHOOSE b : Unfolds(b)
  BY DEF Trail
<1> HIDE DEF Unfolds
<1>7. Unfolds(Trail(n))
  BY <1>5, <1>6
<1> QED
  BY <1>7 DEF Unfolds

\* Every place on the walk back was reached, nearer to the start at each step.
LEMMA TrailLeadsBack ==
  ASSUME AStarTypeOK, StartsHere, Links, NEW n \in Pool, Reached(n),
         NEW k \in 0 .. nodes[n].gScore
  PROVE  /\ Trail(n)[k] \in Pool /\ Reached(Trail(n)[k])
         /\ Trail(n)[k] = startIdx \/ nodes[Trail(n)[k]].gScore + k <= nodes[n].gScore
<1> DEFINE N == nodes[n].gScore
           Good(i) == /\ Trail(n)[i] \in Pool /\ Reached(Trail(n)[i])
                      /\ Trail(n)[i] = startIdx \/ nodes[Trail(n)[i]].gScore + i <= N
           T == {i \in Nat : i <= N => Good(i)}
<1>1. N \in Nat
  BY DEF AStarTypeOK, Nodes
<1>2. /\ Trail(n)[0] = n
      /\ \A i \in 0 .. N : i # 0 => Trail(n)[i] = Previous(Trail(n)[i - 1])
  <2> DEFINE b == Trail(n)
  <2>1. b = [i \in 0 .. N |-> IF i = 0 THEN n ELSE Previous(b[i - 1])]
    BY TrailIs
  <2>2. 0 \in 0 .. N
    BY <1>1
  <2> HIDE DEF b, N
  <2>3. b[0] = n /\ \A i \in 0 .. N : i # 0 => b[i] = Previous(b[i - 1])
    BY <2>1, <2>2
  <2> QED
    BY <2>3 DEF b
<1>3. 0 \in T
  BY <1>1, <1>2
<1>4. ASSUME NEW i \in T PROVE i + 1 \in T
  <2>1. SUFFICES ASSUME i + 1 <= N PROVE Good(i + 1)
    OBVIOUS
  <2>2. i \in Nat /\ i <= N /\ i + 1 \in 0 .. N /\ i + 1 # 0 /\ (i + 1) - 1 = i
    BY <1>1, <2>1
  <2> DEFINE m == Trail(n)[i]
  <2>3. m \in Pool /\ Reached(m) /\ (m = startIdx \/ nodes[m].gScore + i <= N)
    BY <2>2
  <2>4. Trail(n)[i + 1] = Previous(m)
    BY <1>2, <2>2
  <2>5. nodes[m].gScore \in Nat /\ \A j \in Pool : nodes[j].gScore \in Nat
    BY <2>3 DEF AStarTypeOK, Nodes
  <2> HIDE DEF m, N
  <2>6. CASE m = startIdx
    <3>1. Previous(m) = m
      BY <2>3, <2>6, PreviousIs
    <3> QED
      BY <2>3, <2>4, <2>6, <3>1
  <2>7. CASE m # startIdx
    <3>1. Previous(m) \in Pool /\ Reached(Previous(m))
          /\ nodes[Previous(m)].gScore < nodes[m].gScore
      BY <2>3, <2>7, PreviousIs
    <3>2. nodes[Previous(m)].gScore + (i + 1) <= N
      <4> DEFINE a == nodes[Previous(m)].gScore
                 c == nodes[m].gScore
      <4>1. a \in Nat /\ c \in Nat /\ a < c /\ c + i <= N
        BY <2>3, <2>5, <2>7, <3>1
      <4> HIDE DEF a, c
      <4>2. a + (i + 1) <= N
        BY <1>1, <2>2, <4>1
      <4> QED
        BY <4>2 DEF a
    <3> QED
      BY <2>4, <3>1, <3>2
  <2> QED
    BY <2>6, <2>7
<1>5. Nat \subseteq T
  <2>1. T \subseteq Nat
    OBVIOUS
  <2> HIDE DEF T
  <2> QED
    BY <1>3, <1>4, <2>1, Induction
<1>6. k \in Nat /\ k <= N
  BY <1>1
<1> QED
  BY <1>5, <1>6

\* The path back is a walk of free neighbouring nodes to the start that visits none
\* twice.
LEMMA PathFromIs ==
  ASSUME AStarTypeOK, StartsHere, Links, NEW n \in Pool, Reached(n), NEW p, p = PathFrom(n)
  PROVE  /\ p \in Seq(Pool) /\ p # << >>
         /\ p[1] = n /\ p[Len(p)] = startIdx
         /\ \A k \in 1 .. Len(p) : FreeNode(p[k])
         /\ \A k \in 1 .. Len(p) - 1 : p[k] \in Neighbours(p[k + 1])
         /\ \A j, k \in 1 .. Len(p) : j # k => p[j] # p[k]
<1> DEFINE N == nodes[n].gScore
           b == Trail(n)
           Ends(k) == /\ nodes[b[k]].cameFrom = NoNode
                      /\ \A l \in 0 .. k - 1 : nodes[b[l]].cameFrom # NoNode
           steps == CHOOSE k \in 0 .. N : Ends(k)
           stops == {k \in 0 .. N : nodes[b[k]].cameFrom = NoNode}
<1>1. N \in Nat /\ \A m \in Pool : nodes[m].gScore \in Nat
  BY DEF AStarTypeOK, Nodes
<1>2. \A k \in 0 .. N : /\ b[k] \in Pool /\ Reached(b[k])
                        /\ b[k] = startIdx \/ nodes[b[k]].gScore + k <= N
  BY TrailLeadsBack
<1>3. b[0] = n /\ \A i \in 0 .. N : i # 0 => b[i] = Previous(b[i - 1])
  <2>1. b = [i \in 0 .. N |-> IF i = 0 THEN n ELSE Previous(b[i - 1])]
    BY TrailIs
  <2>2. 0 \in 0 .. N
    BY <1>1
  <2> HIDE DEF b, N
  <2> QED
    BY <2>1, <2>2
<1>4. p = [k \in 1 .. steps + 1 |-> b[k - 1]]
  BY DEF PathFrom
<1> HIDE DEF b, N
<1>5. N \in stops
  <2>1. b[N] \in Pool /\ Reached(b[N]) /\ N \in 0 .. N
    BY <1>1, <1>2
  <2>2. CASE b[N] = startIdx
    BY <2>1, <2>2 DEF StartsHere
  <2>3. CASE b[N] # startIdx
    <3>1. nodes[b[N]].gScore + N <= N /\ nodes[b[N]].gScore \in Nat
      BY <1>1, <1>2, <2>1, <2>3
    <3>2. /\ Previous(b[N]) \in Pool
          /\ nodes[Previous(b[N])].gScore < nodes[b[N]].gScore
      BY <2>1, <2>3, PreviousIs
    <3>3. nodes[Previous(b[N])].gScore \in Nat
      BY <1>1, <3>2
    <3> QED
      BY <1>1, <3>1, <3>2, <3>3
  <2> QED
    BY <2>2, <2>3
<1>6. steps \in 0 .. N /\ Ends(steps)
  <2>1. stops \subseteq Nat
    BY <1>1
  <2>2. PICK k \in stops : \A l \in stops : k <= l
    BY <1>5, <2>1, LeastElement
  <2>3. k \in 0 .. N /\ Ends(k)
    <3>1. ASSUME NEW l \in 0 .. k - 1 PROVE l \in 0 .. N /\ ~(k <= l)
      BY <1>1, <2>2
    <3> QED
      BY <2>2, <3>1
  <2> QED
    BY <2>3
<1> HIDE DEF steps
<1>7. steps \in Nat /\ \A k \in 0 .. steps : k \in 0 .. N
  BY <1>1, <1>6
<1>8. b[steps] = startIdx
  <2>1. b[steps] \in Pool /\ Reached(b[steps]) /\ nodes[b[steps]].cameFrom = NoNode
    BY <1>2, <1>6
  <2> QED
    BY <2>1, PreviousIs
<1>9. \A k \in 0 .. steps : k # steps =>
        /\ b[k] \in Neighbours(b[k + 1]) /\ nodes[b[k + 1]].gScore < nodes[b[k]].gScore
  <2> TAKE k \in 0 .. steps
  <2> HAVE k # steps
  <2>1. k \in 0 .. steps - 1 /\ k \in 0 .. N /\ k + 1 \in 0 .. N /\ k + 1 # 0 /\ (k + 1) - 1 = k
    BY <1>6, <1>7
  <2>2. nodes[b[k]].cameFrom # NoNode
    BY <1>6, <2>1
  <2>3. b[k] # startIdx
    BY <2>2 DEF StartsHere
  <2>4. b[k + 1] = Previous(b[k])
    BY <1>3, <2>1
  <2>5. b[k] \in Pool /\ Reached(b[k])
    BY <1>2, <2>1
  <2> QED
    BY <2>3, <2>4, <2>5, PreviousIs
\* The scores fall along the walk.
<1>10. \A j, k \in 0 .. steps : j < k => nodes[b[k]].gScore < nodes[b[j]].gScore
  <2> DEFINE g(k) == nodes[b[k]].gScore
             T == {d \in Nat : \A j \in 0 .. steps : j + d + 1 <= steps => g(j + d + 1) < g(j)}
  <2>1. \A k \in 0 .. steps : g(k) \in Nat
    BY <1>1, <1>2, <1>7
  <2>2. \A k \in 0 .. steps : k # steps => g(k + 1) < g(k)
    BY <1>9
  <2> HIDE DEF g
  <2>3. 0 \in T
    <3> SUFFICES ASSUME NEW j \in 0 .. steps, j + 0 + 1 <= steps PROVE g(j + 0 + 1) < g(j)
      OBVIOUS
    <3>1. j # steps /\ j + 0 + 1 = j + 1
      BY <1>7
    <3> QED
      BY <2>2, <3>1
  <2>4. ASSUME NEW d \in T PROVE d + 1 \in T
    <3> SUFFICES ASSUME NEW j \in 0 .. steps, j + (d + 1) + 1 <= steps
                 PROVE  g(j + (d + 1) + 1) < g(j)
      OBVIOUS
    <3> DEFINE i == j + d + 1
    <3>1. d \in Nat /\ i \in 0 .. steps /\ i # steps /\ j + (d + 1) + 1 = i + 1 /\ i <= steps
      BY <1>7
    <3>2. g(i) < g(j)
      BY <3>1
    <3>3. g(i + 1) < g(i)
      BY <2>2, <3>1
    <3>4. i + 1 \in 0 .. steps
      BY <1>7, <3>1
    <3>5. g(i + 1) < g(j)
      <4> HIDE DEF i
      <4>1. g(i + 1) \in Nat /\ g(i) \in Nat /\ g(j) \in Nat
        BY <2>1, <3>1, <3>4
      <4> QED
        BY <3>2, <3>3, <4>1
    <3> QED
      BY <3>1, <3>5
  <2>5. Nat \subseteq T
    <3>1. T \subseteq Nat
      OBVIOUS
    <3> HIDE DEF T
    <3> QED
      BY <2>3, <2>4, <3>1, Induction
  <2>6. \A j, k \in 0 .. steps : j < k => g(k) < g(j)
    <3> TAKE j, k \in 0 .. steps
    <3> HAVE j < k
    <3> DEFINE d == k - j - 1
    <3>1. d \in Nat /\ j + d + 1 = k /\ k <= steps
      BY <1>7
    <3> HIDE DEF d
    <3> QED
      BY <2>5, <3>1
  <2> QED
    BY <2>6 DEF g
<1>11. Len(p) = steps + 1 /\ \A k \in 1 .. steps + 1 : p[k] = b[k - 1] /\ k - 1 \in 0 .. steps
  BY <1>4, <1>7
<1>16. p \in Seq(Pool) /\ p # << >>
  <2>1. \A k \in 1 .. steps + 1 : b[k - 1] \in Pool
    BY <1>2, <1>7, <1>11
  <2> HIDE DEF b
  <2>2. p = [k \in 1 .. steps + 1 |-> b[k - 1]] /\ steps + 1 \in Nat
    BY <1>4, <1>7
  <2>3. p \in Seq(Pool)
    BY <2>1, <2>2
  <2> QED
    BY <1>7, <1>11, <2>3
<1>12. p[1] = n /\ p[Len(p)] = startIdx
  BY <1>3, <1>7, <1>8, <1>11
<1>13. \A k \in 1 .. Len(p) : FreeNode(p[k])
  BY <1>2, <1>7, <1>11 DEF Reached
<1>14. \A k \in 1 .. Len(p) - 1 : p[k] \in Neighbours(p[k + 1])
  <2> TAKE k \in 1 .. Len(p) - 1
  <2>1. /\ k \in 1 .. steps + 1 /\ k + 1 \in 1 .. steps + 1 /\ (k - 1) + 1 = k
        /\ (k + 1) - 1 = k /\ k - 1 # steps
    BY <1>7, <1>11
  <2>2. p[k] = b[k - 1] /\ p[k + 1] = b[k] /\ k - 1 \in 0 .. steps
    BY <1>11, <2>1
  <2> QED
    BY <1>9, <2>1, <2>2
<1>15. \A j, k \in 1 .. Len(p) : j # k => p[j] # p[k]
  <2> TAKE j, k \in 1 .. Len(p)
  <2> HAVE j # k
  <2>1. /\ p[j] = b[j - 1] /\ p[k] = b[k - 1] /\ j - 1 \in 0 .. steps /\ k - 1 \in 0 .. steps
        /\ j - 1 < k - 1 \/ k - 1 < j - 1
    BY <1>7, <1>11
  <2>2. nodes[b[j - 1]].gScore \in Nat /\ nodes[b[k - 1]].gScore \in Nat
    BY <1>1, <1>2, <1>7, <2>1
  <2>3. nodes[b[j - 1]].gScore # nodes[b[k - 1]].gScore
    <3>1. CASE j - 1 < k - 1
      BY <1>10, <2>1, <2>2, <3>1
    <3>2. CASE k - 1 < j - 1
      BY <1>10, <2>1, <2>2, <3>2
    <3> QED
      BY <2>1, <3>1, <3>2
  <2> QED
    BY <2>1, <2>3
<1> QED
  BY <1>12, <1>13, <1>14, <1>15, <1>16

-----------------------------------------------------------------------------
(* The search *)

LEMMA ReachKeeps ==
  ASSUME SearchIInv, search = "running", NEW current \in openSet, Reach(current)
  PROVE  SearchIInv'
<1>1. /\ AStarTypeOK /\ StartsHere /\ Links /\ current \in Pool /\ Reached(current)
      /\ current = endIdx
  BY DEF SearchIInv, SearchInv, Links, AStarTypeOK, Frontier, Reach
<1>2. /\ gridPath' = PathFrom(current) /\ search' = "found"
      /\ UNCHANGED <<occupied, rounds, nodes, center, startIdx, endIdx>>
      /\ openSet' \subseteq openSet
  BY DEF Reach
<1>3. AStarTypeOK'
  BY <1>1, <1>2 DEF AStarTypeOK, Returned
<1>4. PathIsSound'
  <2>1. PICK p : p = gridPath'
    OBVIOUS
  <2>2. p = PathFrom(current)
    BY <1>2, <2>1
  <2>3. /\ p[1] = current /\ p[Len(p)] = startIdx
        /\ \A k \in 1 .. Len(p) : FreeNode(p[k])
        /\ \A k \in 1 .. Len(p) - 1 : p[k] \in Neighbours(p[k + 1])
        /\ \A j, k \in 1 .. Len(p) : j # k => p[j] # p[k]
    BY <1>1, <2>2, PathFromIs
  <2>4. \A k \in 1 .. Len(p) : ~Occupied(Index2Coord(p[k], center))
    BY <2>3 DEF FreeNode
  <2>5. \A k \in 1 .. Len(gridPath') : FreeNode(gridPath[k])'
    BY <1>2, <2>1, <2>4 DEF FreeNode, Occupied
  <2>6. /\ gridPath'[1] = endIdx' /\ gridPath'[Len(gridPath')] = startIdx'
        /\ \A k \in 1 .. Len(gridPath') - 1 : gridPath'[k] \in Neighbours(gridPath'[k + 1])
        /\ \A j, k \in 1 .. Len(gridPath') : j # k => gridPath'[j] # gridPath'[k]
    BY <1>1, <1>2, <2>1, <2>3
  <2> QED
    BY <2>5, <2>6 DEF PathIsSound
<1> QED
  BY <1>2, <1>3, <1>4 DEF SearchIInv, SearchInv

LEMMA SearchStepIInv == SearchIInv /\ [AStarNext]_astarVars => SearchIInv'
<1> SUFFICES ASSUME SearchIInv, [AStarNext]_astarVars PROVE SearchIInv'
  OBVIOUS
<1>1. CASE Call
  BY <1>1, CallKeeps
<1>2. CASE SearchStep
  <2>1. search = "running" /\ Tops \subseteq openSet
    BY <1>2 DEF SearchStep, Tops
  <2> QED
    BY <1>2, <2>1, ReachKeeps, ExpandKeeps, ExhaustKeeps DEF SearchStep
<1>3. CASE Answer
  BY <1>3, AnswerKeeps
<1>4. CASE MapMoves
  BY <1>4, MapMovesKeeps
<1>5. CASE UNCHANGED astarVars
  <2>1. AStarTypeOK'
    BY <1>5 DEF astarVars, SearchIInv, AStarTypeOK
  <2>2. SearchInv'
    BY <1>5 DEF astarVars, SearchIInv, SearchInv, StartsHere, Frontier, Linked, Done, Reached,
       Explored, Closed, FreeNode, Occupied
  <2>3. PathIsSound'
    BY <1>5 DEF astarVars, SearchIInv, PathIsSound, FreeNode, Occupied
  <2> QED
    BY <1>5, <2>1, <2>2, <2>3 DEF astarVars, SearchIInv
<1> QED
  BY <1>1, <1>2, <1>3, <1>4, <1>5 DEF AStarNext

-----------------------------------------------------------------------------
(* A dry search *)

\* No walk of free steps leaves the nodes that were reached.
LEMMA FloodStays ==
  ASSUME AStarTypeOK, NEW R, R \subseteq Pool, startIdx \in R,
         \A n \in R : \A m \in Neighbours(n) : FreeNode(m) => m \in R
  PROVE  Flooded \subseteq R
<1> DEFINE N == PoolX * PoolY
           step == [S \in SUBSET R |-> FreeStep(S)]
           Unfolds(f) == f = [k \in 0 .. N |-> IF k = 0 THEN {startIdx} ELSE FreeStep(f[k - 1])]
           flood == CHOOSE f : Unfolds(f)
<1>1. N \in Nat
  BY PoolAssumption
<1>2. step \in [SUBSET R -> SUBSET R]
  <2>1. \A S \in SUBSET R : FreeStep(S) \subseteq R
    BY DEF FreeStep
  <2> QED
    BY <2>1
<1>3. \E f : Unfolds(f)
  <2> DEFINE Sets == SUBSET R
             first == {startIdx}
  <2>1. first \in Sets /\ step \in [Sets -> Sets]
    BY <1>2
  <2>2. PICK f \in [0 .. N -> Sets] :
          f = [k \in 0 .. N |-> IF k = 0 THEN first ELSE step[f[k - 1]]]
    <3> HIDE DEF step, N, Sets, first, Unfolds, flood
    <3>1. Iterates(Sets, first, step, N)
      BY <1>1, <2>1, Iterate
    <3> QED
      BY <3>1 DEF Iterates
  <2>3. \A k \in 0 .. N : k # 0 => step[f[k - 1]] = FreeStep(f[k - 1])
    <3> TAKE k \in 0 .. N
    <3> HAVE k # 0
    <3>1. k - 1 \in 0 .. N
      <4> HIDE DEF N
      <4> QED
        BY <1>1
    <3>2. f[k - 1] \in SUBSET R
      <4> HIDE DEF N
      <4> QED
        BY <2>2, <3>1
    <3> QED
      BY <3>2
  <2>4. Unfolds(f)
    <3> HIDE DEF step, N
    <3>1. \A k \in 0 .. N : f[k] = IF k = 0 THEN {startIdx} ELSE FreeStep(f[k - 1])
      BY <2>2, <2>3
    <3>2. f = [k \in 0 .. N |-> f[k]]
      BY <2>2
    <3> QED
      BY <3>1, <3>2
  <2> QED
    BY <2>4
<1>4. Unfolds(flood)
  <2> HIDE DEF Unfolds
  <2> QED
    BY <1>3
<1>5. Flooded = flood[N]
  BY DEF Flooded
<1>6. flood[0] = {startIdx} /\ \A k \in 0 .. N : k # 0 => flood[k] = FreeStep(flood[k - 1])
  <2>1. flood = [k \in 0 .. N |-> IF k = 0 THEN {startIdx} ELSE FreeStep(flood[k - 1])]
    <3> HIDE DEF flood
    <3> QED
      BY <1>4
  <2> HIDE DEF flood, N
  <2>2. 0 \in 0 .. N
    BY <1>1
  <2> QED
    BY <2>1, <2>2, Zenon
<1> HIDE DEF flood, N
<1> DEFINE T == {k \in Nat : k <= N => flood[k] \subseteq R}
<1>7. 0 \in T
  BY <1>6
<1>8. ASSUME NEW k \in T PROVE k + 1 \in T
  <2>1. SUFFICES ASSUME k + 1 <= N PROVE flood[k + 1] \subseteq R
    OBVIOUS
  <2>2. k \in Nat /\ k <= N /\ k + 1 \in 0 .. N /\ k + 1 # 0 /\ (k + 1) - 1 = k
    BY <1>1, <2>1
  <2>3. flood[k] \subseteq R /\ flood[k + 1] = FreeStep(flood[k])
    BY <1>6, <2>2
  <2> QED
    BY <2>3 DEF FreeStep
<1>9. Nat \subseteq T
  <2>1. T \subseteq Nat
    OBVIOUS
  <2> HIDE DEF T
  <2> QED
    BY <1>7, <1>8, <2>1, Induction
<1> QED
  BY <1>1, <1>5, <1>9

LEMMA DryIsDry == SearchIInv => DryMeansNoPath
<1> SUFFICES ASSUME SearchIInv, search = "exhausted" PROVE endIdx \notin Flooded
  BY DEF DryMeansNoPath
<1> DEFINE R == {n \in Pool : Reached(n)}
<1>1. /\ AStarTypeOK /\ StartsHere /\ Frontier /\ openSet = {}
      /\ \A n \in Pool : Reached(n) /\ Closed(n) => Done(n)
  BY DEF SearchIInv, SearchInv
<1>2. \A n \in R : Closed(n)
  BY <1>1 DEF Frontier, Reached, Closed
<1>3. \A n \in R : Done(n)
  BY <1>1, <1>2
<1>4. \A n \in R : \A m \in Neighbours(n) : FreeNode(m) => m \in R
  <2> TAKE n \in R
  <2> TAKE m \in Neighbours(n)
  <2>1. m \in Pool
    BY NeighboursAre
  <2> QED
    BY <1>3, <2>1 DEF Done, Reached
<1>5. startIdx \in R
  BY <1>1 DEF StartsHere
<1>6. Flooded \subseteq R
  BY <1>1, <1>4, <1>5, FloodStays
<1>7. endIdx \notin R
  BY <1>3 DEF Done
<1> QED
  BY <1>6, <1>7

\* Whatever the pool, the map, the points and what the searches before it left in
\* the nodes, a search knows which nodes it has reached, from where, and which are
\* done with. (AStar::AstarSearch)
THEOREM SearchInvariance == AStarSpec => []SearchIInv
<1> QED
  BY SearchInitIInv, SearchStepIInv, PTL DEF AStarSpec

\* A path found is a walk through free neighbouring nodes from the start to the end
\* of its own search, without a repetition; a search that runs dry had none to find.
\* (retrievePath; the end of AstarSearch)
THEOREM SearchSound == AStarSpec => []SearchIsSound
<1>1. SearchIInv => SearchIsSound
  BY DryIsDry DEF SearchIInv, SearchIsSound
<1> QED
  BY <1>1, SearchInvariance, PTL
-----------------------------------------------------------------------------
(* Indices and addresses *)

LEMMA TimesGrows ==
  ASSUME NEW i \in Int, NEW j \in Int, NEW m \in Nat, i < j
  PROVE  i * m \in Int /\ j * m \in Int /\ i * m + m <= j * m
<1> DEFINE d == j - i - 1
<1>1. d \in Nat /\ j = i + 1 + d
  OBVIOUS
<1>2. d * m \in Nat
  BY <1>1
<1> HIDE DEF d
<1>3. j * m = i * m + m + d * m
  BY <1>1
<1> QED
  BY <1>2, <1>3

LEMMA AddressIs ==
  ASSUME NEW v \in Voxels
  PROVE  /\ v = <<v[1], v[2]>> /\ v[1] \in 0 .. NumX - 1 /\ v[2] \in 0 .. NumZ - 1
         /\ toAddress(v) \in Addresses
         /\ v \in Int \X Int
<1>1. v = <<v[1], v[2]>> /\ v[1] \in 0 .. NumX - 1 /\ v[2] \in 0 .. NumZ - 1
  BY DEF Voxels
<1>2. NumX \in Nat /\ NumZ \in Nat
  BY MapAssumption
<1>3. v[1] * NumZ + NumZ <= NumX * NumZ /\ v[1] * NumZ \in Nat /\ NumX * NumZ \in Nat
  BY <1>1, <1>2, TimesGrows
<1> QED
  BY <1>1, <1>2, <1>3 DEF toAddress, Addresses

\* Two voxels never share an address.
LEMMA AddressApart ==
  ASSUME NEW v \in Voxels, NEW w \in Voxels, toAddress(v) = toAddress(w)
  PROVE  v = w
<1>1. /\ v = <<v[1], v[2]>> /\ v[1] \in 0 .. NumX - 1 /\ v[2] \in 0 .. NumZ - 1
      /\ w = <<w[1], w[2]>> /\ w[1] \in 0 .. NumX - 1 /\ w[2] \in 0 .. NumZ - 1
  BY AddressIs
<1>2. NumX \in Nat /\ NumZ \in Nat
  BY MapAssumption
<1>3. v[1] * NumZ + v[2] = w[1] * NumZ + w[2]
  BY DEF toAddress
<1>4. ~(v[1] < w[1])
  <2> SUFFICES ASSUME v[1] < w[1] PROVE FALSE
    OBVIOUS
  <2>1. v[1] * NumZ + NumZ <= w[1] * NumZ /\ v[1] * NumZ \in Int /\ w[1] * NumZ \in Int
    BY <1>1, <1>2, TimesGrows
  <2> QED
    BY <1>1, <1>2, <1>3, <2>1
<1>5. ~(w[1] < v[1])
  <2> SUFFICES ASSUME w[1] < v[1] PROVE FALSE
    OBVIOUS
  <2>1. w[1] * NumZ + NumZ <= v[1] * NumZ /\ v[1] * NumZ \in Int /\ w[1] * NumZ \in Int
    BY <1>1, <1>2, TimesGrows
  <2> QED
    BY <1>1, <1>2, <1>3, <2>1
<1>6. v[1] = w[1]
  BY <1>1, <1>4, <1>5
<1>7. v[1] * NumZ \in Int
  BY <1>1, <1>2
<1>8. v[2] = w[2]
  BY <1>1, <1>3, <1>6, <1>7
<1> QED
  BY <1>1, <1>6, <1>8

LEMMA BoundIsInMap ==
  ASSUME NEW v \in Int \X Int
  PROVE  /\ boundIndex(v) \in Voxels
         /\ v \in Voxels => boundIndex(v) = v
<1>1. v = <<v[1], v[2]>> /\ v[1] \in Int /\ v[2] \in Int
  OBVIOUS
<1>2. NumX \in Nat \ {0} /\ NumZ \in Nat \ {0}
  BY MapAssumption
<1>3. boundIndex(v)[1] \in 0 .. NumX - 1 /\ boundIndex(v)[2] \in 0 .. NumZ - 1
  BY <1>1, <1>2 DEF boundIndex, Min2, Max2
<1>4. boundIndex(v) \in Voxels
  BY <1>3 DEF boundIndex, Voxels
<1>5. ASSUME v \in Voxels PROVE boundIndex(v) = v
  <2>1. v[1] \in 0 .. NumX - 1 /\ v[2] \in 0 .. NumZ - 1
    BY <1>5 DEF Voxels
  <2>2. boundIndex(v) = <<v[1], v[2]>>
    BY <1>2, <2>1 DEF boundIndex, Min2, Max2
  <2> QED
    BY <1>1, <2>2
<1> QED
  BY <1>4, <1>5

LEMMA PlusMinus ==
  ASSUME NEW v \in Int \X Int, NEW w \in Int \X Int
  PROVE  Plus(v, w) \in Int \X Int /\ Minus(v, w) \in Int \X Int
  BY DEF Plus, Minus

\* A bounded set of integers has a least and a greatest element.
LEMMA Extremes ==
  ASSUME NEW T, T \subseteq Int, T # {}, NEW L \in Int, NEW U \in Int,
         \A t \in T : L <= t /\ t <= U
  PROVE  /\ \E x \in T : \A y \in T : x <= y
         /\ \E x \in T : \A y \in T : x >= y
<1>1. \E x \in T : \A y \in T : x <= y
  <2> DEFINE R == {r \in Nat : r + L \in T}
  <2>1. \A y \in T : y - L \in Nat /\ (y - L) + L = y
    OBVIOUS
  <2>2. \A y \in T : y - L \in R
    BY <2>1
  <2>3. R \subseteq Nat /\ R # {}
    BY <2>2
  <2>4. PICK r \in R : \A s \in R : r <= s
    <3> HIDE DEF R
    <3> QED
      BY <2>3, LeastElement
  <2>5. r \in Nat /\ r + L \in T
    OBVIOUS
  <2>6. \A y \in T : r + L <= y
    <3> TAKE y \in T
    <3>1. r <= y - L
      BY <2>2, <2>4
    <3> QED
      BY <2>5, <3>1
  <2> QED
    BY <2>5, <2>6
<1>2. \E x \in T : \A y \in T : x >= y
  <2> DEFINE R == {r \in Nat : U - r \in T}
  <2>1. \A y \in T : U - y \in Nat /\ U - (U - y) = y
    OBVIOUS
  <2>2. \A y \in T : U - y \in R
    BY <2>1
  <2>3. R \subseteq Nat /\ R # {}
    BY <2>2
  <2>4. PICK r \in R : \A s \in R : r <= s
    <3> HIDE DEF R
    <3> QED
      BY <2>3, LeastElement
  <2>5. r \in Nat /\ U - r \in T
    OBVIOUS
  <2>6. \A y \in T : U - r >= y
    <3> TAKE y \in T
    <3>1. r <= U - y
      BY <2>2, <2>4
    <3> QED
      BY <2>5, <3>1
  <2> QED
    BY <2>5, <2>6
<1> QED
  BY <1>1, <1>2

-----------------------------------------------------------------------------
(* Rays *)

Between(n, i, j) == Min2(i, j) <= n /\ n <= Max2(i, j)

\* Going on along x crosses its nearest boundary, and only while there is one left;
\* else there is one left along z.
LEMMA BoundaryLeft ==
  ASSUME NEW dx \in Nat, NEW dz \in Nat, NEW i \in 0 .. dx, NEW k \in 0 .. dz, i + k < dx + dz
  PROVE  IF dz = 0 \/ (2 * i + 1) * dz < (2 * k + 1) * dx THEN i + 1 \in 0 .. dx
         ELSE k + 1 \in 0 .. dz
<1> DEFINE P == (2 * i + 1) * dz
           Q == (2 * k + 1) * dx
<1>0. P \in Int /\ Q \in Int
  OBVIOUS
<1>1. CASE dz = 0
  BY <1>1
<1>2. CASE dz # 0 /\ i = dx
  <2>1. k < dz
    BY <1>2
  <2>2. (2 * k + 1) * dx + dx <= (2 * dz) * dx /\ (2 * dz) * dx \in Int
    BY <2>1, TimesGrows
  <2>3. P = (2 * dz) * dx + dz
    BY <1>2
  <2>4. ~(P < Q)
    <3> HIDE DEF P
    <3> QED
      BY <1>0, <2>2, <2>3
  <2> QED
    BY <1>2, <2>1, <2>4
<1>3. CASE dz # 0 /\ k = dz
  <2>1. i < dx
    BY <1>3
  <2>2. (2 * i + 1) * dz + dz <= (2 * dx) * dz /\ (2 * dx) * dz \in Int
    BY <2>1, TimesGrows
  <2>3. Q = (2 * dx) * dz + dx
    BY <1>3
  <2>4. P < Q
    <3> HIDE DEF Q
    <3> QED
      BY <1>0, <1>3, <2>2, <2>3
  <2> QED
    BY <1>3, <2>1, <2>4
<1>4. CASE i # dx /\ k # dz
  BY <1>4
<1> QED
  BY <1>1, <1>2, <1>3, <1>4

LEMMA StepsBetween ==
  ASSUME NEW i \in Int, NEW j \in Int, NEW k \in 0 .. AbsOf(j - i)
  PROVE  Between(i + signum(j - i) * k, i, j)
<1>1. CASE i < j
  <2>1. signum(j - i) = 1 /\ AbsOf(j - i) = j - i
    BY <1>1 DEF signum, AbsOf
  <2> QED
    BY <1>1, <2>1 DEF Between, Min2, Max2
<1>2. CASE j < i
  <2>1. signum(j - i) = -1 /\ AbsOf(j - i) = i - j
    BY <1>2 DEF signum, AbsOf
  <2> QED
    BY <1>2, <2>1 DEF Between, Min2, Max2
<1>3. CASE j = i
  <2>1. signum(j - i) = 0
    BY <1>3 DEF signum
  <2> QED
    BY <1>3, <2>1 DEF Between, Min2, Max2
<1> QED
  BY <1>1, <1>2, <1>3

\* A ray stays between its ends.
LEMMA RayStays ==
  ASSUME NEW a \in Int \X Int, NEW b \in Int \X Int
  PROVE  /\ RayFrom(a, b) \in Seq(Int \X Int)
         /\ DOMAIN RayFrom(a, b) = 1 .. Len(RayFrom(a, b))
         /\ \A n \in 1 .. Len(RayFrom(a, b)) :
              /\ RayFrom(a, b)[n] \in Int \X Int
              /\ Between(RayFrom(a, b)[n][1], a[1], b[1])
              /\ Between(RayFrom(a, b)[n][2], a[2], b[2])
<1> DEFINE dx == AbsOf(b[1] - a[1])
           dz == AbsOf(b[2] - a[2])
           sx == signum(b[1] - a[1])
           sz == signum(b[2] - a[2])
           N == dx + dz
           Acr(w) == dz = 0 \/ (2 * w.i + 1) * dz < (2 * w.k + 1) * dx
           One(w) == IF Acr(w) THEN [w EXCEPT !.at[1] = @ + sx, !.i = @ + 1]
                     ELSE [w EXCEPT !.at[2] = @ + sz, !.k = @ + 1]
           Unfolds(f) == f = [n \in 0 .. N |->
                               IF n = 0 THEN [at |-> a, i |-> 0, k |-> 0]
                               ELSE LET w == f[n - 1]
                                        acrossX == dz = 0 \/ (2 * w.i + 1) * dz < (2 * w.k + 1) * dx
                                    IN IF acrossX
                                       THEN [w EXCEPT !.at[1] = @ + sx, !.i = @ + 1]
                                       ELSE [w EXCEPT !.at[2] = @ + sz, !.k = @ + 1]]
           walk == CHOOSE f : Unfolds(f)
           first == [at |-> a, i |-> 0, k |-> 0]
           W == {w \in [at : Int \X Int, i : Nat, k : Nat] :
                   w.at = <<a[1] + sx * w.i, a[2] + sz * w.k>>}
           step == [n \in 1 .. N |-> [w \in W |-> One(w)]]
<1>1. /\ a = <<a[1], a[2]>> /\ a[1] \in Int /\ a[2] \in Int
      /\ b = <<b[1], b[2]>> /\ b[1] \in Int /\ b[2] \in Int
  OBVIOUS
<1>2. dx \in Nat /\ dz \in Nat /\ N \in Nat
  BY <1>1 DEF AbsOf
<1>3. sx \in {-1, 0, 1} /\ sz \in {-1, 0, 1}
  BY <1>1 DEF signum
<1>5. RayFrom(a, b) = [n \in 1 .. N |-> walk[n - 1].at]
  BY DEF RayFrom
<1> HIDE DEF dx, dz, sx, sz, N
<1>6. first \in W
  BY <1>1, <1>2, <1>3
<1>7. ASSUME NEW w \in W PROVE One(w) \in W
  <2>1. /\ w.i \in Nat /\ w.k \in Nat /\ w.at \in Int \X Int
        /\ w.at = <<a[1] + sx * w.i, a[2] + sz * w.k>>
        /\ w = [at |-> w.at, i |-> w.i, k |-> w.k]
    OBVIOUS
  <2>2. w.at[1] + sx = a[1] + sx * (w.i + 1) /\ w.at[2] + sz = a[2] + sz * (w.k + 1)
    BY <1>1, <1>3, <2>1
  <2>9. \A p \in Int \X Int : /\ [p EXCEPT ![1] = @ + sx] = <<p[1] + sx, p[2]>>
                             /\ [p EXCEPT ![2] = @ + sz] = <<p[1], p[2] + sz>>
    OBVIOUS
  <2>3. CASE Acr(w)
    <3>1. One(w) = [at |-> <<w.at[1] + sx, w.at[2]>>, i |-> w.i + 1, k |-> w.k]
      BY <2>1, <2>3, <2>9
    <3> QED
      BY <1>1, <1>3, <2>1, <2>2, <3>1
  <2>4. CASE ~Acr(w)
    <3>1. One(w) = [at |-> <<w.at[1], w.at[2] + sz>>, i |-> w.i, k |-> w.k + 1]
      BY <2>1, <2>4, <2>9
    <3> QED
      BY <1>1, <1>3, <2>1, <2>2, <3>1
  <2> QED
    BY <2>3, <2>4
<1>8. step \in [1 .. N -> [W -> W]]
  <2> HIDE DEF One
  <2> QED
    BY <1>7
<1>9. \E f \in [0 .. N -> W] : Unfolds(f)
  <2> HIDE DEF W, One, first
  <2>1. Recurs(W, first, step, N)
    <3> HIDE DEF step
    <3> QED
      BY <1>2, <1>6, <1>8, Recursion
  <2>2. PICK f \in [0 .. N -> W] : f = [n \in 0 .. N |-> IF n = 0 THEN first ELSE step[n][f[n - 1]]]
    BY <2>1 DEF Recurs
  <2>3. ASSUME NEW n \in 0 .. N
        PROVE  f[n] = IF n = 0 THEN first ELSE One(f[n - 1])
    <3>1. CASE n = 0
      BY <2>2, <3>1
    <3>2. CASE n # 0
      <4>1. n \in 1 .. N /\ n - 1 \in 0 .. N
        BY <1>2, <3>2
      <4>2. f[n - 1] \in W
        BY <4>1
      <4>3. f[n] = step[n][f[n - 1]]
        <5> HIDE DEF step
        <5> QED
          BY <2>2, <3>2
      <4>4. step[n] = [w \in W |-> One(w)]
        BY <4>1
      <4> QED
        BY <3>2, <4>2, <4>3, <4>4
    <3> QED
      BY <3>1, <3>2
  <2>4. f = [n \in 0 .. N |-> IF n = 0 THEN first ELSE One(f[n - 1])]
    <3>1. f = [n \in 0 .. N |-> f[n]]
      OBVIOUS
    <3> QED
      BY <2>3, <3>1
  <2>5. Unfolds(f)
    BY <2>4 DEF One, first
  <2> QED
    BY <2>5
<1>10. Unfolds(walk)
  <2> HIDE DEF Unfolds
  <2> QED
    BY <1>9
<1>11. walk[0] = first /\ \A n \in 0 .. N : n # 0 => walk[n] = One(walk[n - 1])
  <2>1. walk = [n \in 0 .. N |-> IF n = 0 THEN first ELSE One(walk[n - 1])]
    <3> HIDE DEF walk
    <3> QED
      BY <1>10
  <2>2. 0 \in 0 .. N
    BY <1>2
  <2> HIDE DEF walk, first, One
  <2> QED
    BY <2>1, <2>2, Zenon
<1> HIDE DEF walk
<1> DEFINE Walked(w, n) == w \in W /\ w.i + w.k = n /\ w.i \in 0 .. dx /\ w.k \in 0 .. dz
           T == {n \in Nat : n <= N => Walked(walk[n], n)}
<1>12. 0 \in T
  <2>1. Walked(first, 0)
    BY <1>2, <1>6
  <2> HIDE DEF Walked, first
  <2> QED
    BY <1>11, <2>1
<1>13. ASSUME NEW n \in T PROVE n + 1 \in T
  <2> SUFFICES ASSUME n + 1 <= N PROVE Walked(walk[n + 1], n + 1)
    OBVIOUS
  <2>1. n \in Nat /\ n + 1 \in 0 .. N /\ n + 1 # 0 /\ (n + 1) - 1 = n /\ n < N
    BY <1>2
  <2>2. Walked(walk[n], n)
    <3> HIDE DEF Walked
    <3> QED
      BY <1>2, <2>1
  <2>3. walk[n + 1] = One(walk[n])
    <3> HIDE DEF One, first
    <3> QED
      BY <1>11, <2>1
  <2>4. PICK w : w = walk[n]
    OBVIOUS
  <2>5. Walked(w, n)
    BY <2>2, <2>4
  <2>6. IF Acr(w) THEN w.i + 1 \in 0 .. dx ELSE w.k + 1 \in 0 .. dz
    <3>1. n < dx + dz
      BY <2>1 DEF N
    <3> QED
      BY <1>2, <2>5, <3>1, BoundaryLeft
  <2>7. One(w) \in W
    BY <1>7, <2>5
  <2>8. IF Acr(w) THEN One(w).i = w.i + 1 /\ One(w).k = w.k
        ELSE One(w).i = w.i /\ One(w).k = w.k + 1
    BY <2>5
  <2>9. Walked(One(w), n + 1)
    <3> HIDE DEF One, W, Acr
    <3> QED
      BY <1>2, <2>1, <2>5, <2>6, <2>7, <2>8
  <2> QED
    BY <2>3, <2>4, <2>9
<1>14. Nat \subseteq T
  <2>1. T \subseteq Nat
    OBVIOUS
  <2> HIDE DEF T
  <2> QED
    BY <1>12, <1>13, <2>1, Induction
<1>15. ASSUME NEW n \in 1 .. N
       PROVE  /\ walk[n - 1].at \in Int \X Int
              /\ Between(walk[n - 1].at[1], a[1], b[1]) /\ Between(walk[n - 1].at[2], a[2], b[2])
  <2>1. n - 1 \in T /\ n - 1 <= N
    BY <1>2, <1>14
  <2>2. PICK w : w = walk[n - 1]
    OBVIOUS
  <2>3. Walked(w, n - 1)
    BY <2>1, <2>2
  <2>4. /\ w.at \in Int \X Int /\ w.at[1] = a[1] + sx * w.i /\ w.at[2] = a[2] + sz * w.k
        /\ w.i \in 0 .. dx /\ w.k \in 0 .. dz
    BY <2>3
  <2>5. Between(w.at[1], a[1], b[1])
    BY <1>1, <2>4, StepsBetween DEF dx, sx
  <2>6. Between(w.at[2], a[2], b[2])
    BY <1>1, <2>4, StepsBetween DEF dz, sz
  <2> QED
    BY <2>2, <2>4, <2>5, <2>6
<1> DEFINE ray == [n \in 1 .. N |-> walk[n - 1].at]
<1>16. ray \in Seq(Int \X Int) /\ DOMAIN ray = 1 .. N /\ Len(ray) = N
  BY <1>2, <1>15
<1>17. \A n \in 1 .. N : ray[n] = walk[n - 1].at
  OBVIOUS
<1> HIDE DEF ray
<1>18. RayFrom(a, b) = ray
  BY <1>5 DEF ray
<1> QED
  BY <1>15, <1>16, <1>17, <1>18

-----------------------------------------------------------------------------
(* What an image puts on the map *)

\* The k-th solid voxel and the last are both points of the line.
LEMMA ReturnType ==
  ASSUME NEW p \in Voxels, NEW w \in Worlds, NEW target \in Int \X Int
  PROVE  Return(p, w, target) \in [to : Int \X Int, hit : BOOLEAN]
<1> DEFINE ray == RayFrom(p, target)
           line == ray \o <<target>>
           solid == {n \in DOMAIN line : n > 1 /\ line[n] \in w}
           nearest == CHOOSE n \in solid : \A m \in solid : n <= m
<1>1. p \in Int \X Int
  BY AddressIs
<1>2. line \in Seq(Int \X Int)
  <2>1. ray \in Seq(Int \X Int)
    BY <1>1, RayStays
  <2>2. <<target>> \in Seq(Int \X Int)
    OBVIOUS
  <2> HIDE DEF ray
  <2> QED
    BY <2>1, <2>2, ConcatProperties
<1> HIDE DEF line
<1>3. \A n \in DOMAIN line : line[n] \in Int \X Int
  BY <1>2
<1>4. CASE solid = {}
  BY <1>1, <1>4, PlusMinus DEF Return, line
<1>5. CASE solid # {}
  <2>1. solid \subseteq Nat
    BY <1>2
  <2>2. \E n \in solid : \A m \in solid : n <= m
    <3> HIDE DEF solid
    <3> QED
      BY <1>5, <2>1, LeastElement
  <2>3. nearest \in solid
    <3> HIDE DEF solid
    <3> QED
      BY <2>2
  <2>4. line[nearest] \in Int \X Int
    <3> HIDE DEF nearest
    <3> QED
      BY <1>3, <2>3
  <2>5. Minus(line[nearest], p) \in Int \X Int
    <3> HIDE DEF nearest
    <3> QED
      BY <1>1, <2>4, PlusMinus
  <2>6. Return(p, w, target) = [to |-> Minus(line[nearest], p), hit |-> TRUE]
    BY <1>5 DEF Return, line
  <2> QED
    BY <2>5, <2>6
<1> QED
  BY <1>4, <1>5

Echo == [to : Int \X Int, hit : BOOLEAN]
SeenPoint == [at : Projected, hit : BOOLEAN]

LEMMA ImageType ==
  ASSUME NEW im \in Images
  PROVE  im.pose \in Poses /\ im.world \in Worlds /\ im.depth \in Seq(Echo)
<1>1. PICK p \in Poses, w \in Worlds :
        im = [pose |-> p, world |-> w,
              depth |-> [n \in DOMAIN Pixels[p] |-> Return(p, w, Pixels[p][n])]]
  BY DEF Images
<1>2. Pixels[p] \in Seq(Int \X Int) /\ p \in Voxels
  BY MapAssumption
<1>3. \A n \in DOMAIN Pixels[p] : Return(p, w, Pixels[p][n]) \in Echo
  BY <1>2, ReturnType DEF Echo
<1>4. DOMAIN Pixels[p] = 1 .. Len(Pixels[p]) /\ Len(Pixels[p]) \in Nat
  BY <1>2
<1>5. [n \in DOMAIN Pixels[p] |-> Return(p, w, Pixels[p][n])] \in Seq(Echo)
  BY <1>3, <1>4
<1> QED
  BY <1>1, <1>5

LEMMA ProjectedType == Projected \subseteq Int \X Int
<1>1. Measured \subseteq Echo
  <2> SUFFICES ASSUME NEW im \in Images, NEW r \in Range(im.depth) PROVE r \in Echo
    BY DEF Measured
  <2>1. im.depth \in Seq(Echo)
    BY ImageType
  <2> QED
    BY <2>1 DEF Range
<1>2. \A cam \in Poses : cam \in Int \X Int
  BY MapAssumption, AddressIs
<1>3. \A cam \in Poses, r \in Measured : Plus(cam, r.to) \in Int \X Int
  BY <1>1, <1>2, PlusMinus DEF Echo
<1> QED
  BY <1>3 DEF Projected

\* The points of an image, wherever the camera is thought to be.
LEMMA ProjPointsType ==
  ASSUME NEW im \in Images, NEW cam \in Poses
  PROVE  ProjPoints(im, cam) \in Seq(SeenPoint)
<1> DEFINE N == Len(im.depth)
           r(n) == im.depth[n]
           dropped(n) == r(n).hit /\ Depth(r(n)) < MinDepth
           placed(n) == [at |-> Plus(cam, r(n).to), hit |-> r(n).hit]
           Unfolds(f) == f = [n \in 0 .. N |->
                                IF n = 0 THEN << >>
                                ELSE LET e == im.depth[n]
                                     IN IF e.hit /\ Depth(e) < MinDepth THEN f[n - 1]
                                        ELSE Append(f[n - 1], [at |-> Plus(cam, e.to), hit |-> e.hit])]
           kept == CHOOSE f : Unfolds(f)
           S == Seq(SeenPoint)
           first == << >>
           One(n, s) == IF dropped(n) THEN s ELSE Append(s, placed(n))
           step == [n \in 1 .. N |-> [s \in S |-> One(n, s)]]
<1>1. ProjPoints(im, cam) = kept[N]
  BY DEF ProjPoints
<1>2. im.depth \in Seq(Echo) /\ N \in Nat
  BY ImageType
<1>3. \A n \in 1 .. N : placed(n) \in SeenPoint
  <2> TAKE n \in 1 .. N
  <2>1. n \in DOMAIN im.depth /\ im.depth[n] \in Echo
    BY <1>2
  <2>2. im.depth[n] \in Range(im.depth)
    BY <2>1 DEF Range
  <2>3. im.depth[n] \in Measured
    BY <2>2 DEF Measured
  <2>4. Plus(cam, im.depth[n].to) \in Projected
    BY <2>3 DEF Projected
  <2> QED
    BY <2>1, <2>4 DEF SeenPoint, Echo
<1>4. first \in S
  OBVIOUS
<1>5. \A n \in 1 .. N : \A s \in S : One(n, s) \in S
  <2> HIDE DEF dropped, placed
  <2> QED
    BY <1>3
<1>6. step \in [1 .. N -> [S -> S]]
  <2> HIDE DEF One, S, N
  <2> QED
    BY <1>5
<1> HIDE DEF N, S
<1>7. \E f \in [0 .. N -> S] : Unfolds(f)
  <2> HIDE DEF first
  <2>1. Recurs(S, first, step, N)
    <3> HIDE DEF step
    <3> QED
      BY <1>2, <1>4, <1>6, Recursion
  <2>2. PICK f \in [0 .. N -> S] : f = [n \in 0 .. N |-> IF n = 0 THEN first ELSE step[n][f[n - 1]]]
    BY <2>1 DEF Recurs
  <2> HIDE DEF One
  <2>3. ASSUME NEW n \in 0 .. N
        PROVE  f[n] = IF n = 0 THEN first ELSE One(n, f[n - 1])
    <3>1. CASE n = 0
      BY <2>2, <3>1
    <3>2. CASE n # 0
      <4>1. n \in 1 .. N /\ n - 1 \in 0 .. N
        BY <1>2, <3>2
      <4>2. f[n - 1] \in S
        BY <4>1
      <4>3. f[n] = step[n][f[n - 1]]
        <5> HIDE DEF step
        <5> QED
          BY <2>2, <3>2
      <4>4. step[n] = [s \in S |-> One(n, s)]
        BY <4>1
      <4> QED
        BY <3>2, <4>2, <4>3, <4>4
    <3> QED
      BY <3>1, <3>2
  <2>4. f = [n \in 0 .. N |-> IF n = 0 THEN first ELSE One(n, f[n - 1])]
    <3>1. f = [n \in 0 .. N |-> f[n]]
      OBVIOUS
    <3> QED
      BY <2>3, <3>1
  <2>5. Unfolds(f)
    BY <2>4 DEF One, first
  <2> QED
    BY <2>5
<1>8. Unfolds(kept)
  <2> HIDE DEF Unfolds
  <2> QED
    BY <1>7
<1>9. kept[0] = first /\ \A n \in 0 .. N : n # 0 => kept[n] = One(n, kept[n - 1])
  <2>1. kept = [n \in 0 .. N |-> IF n = 0 THEN first ELSE One(n, kept[n - 1])]
    <3> HIDE DEF kept
    <3> QED
      BY <1>8 DEF One, first
  <2>2. 0 \in 0 .. N
    BY <1>2
  <2> HIDE DEF kept, first, One
  <2> QED
    BY <2>1, <2>2, Zenon
<1> HIDE DEF kept
<1> DEFINE T == {n \in Nat : n <= N => kept[n] \in S}
<1>10. 0 \in T
  <2> HIDE DEF first
  <2> QED
    BY <1>4, <1>9
<1>11. ASSUME NEW n \in T PROVE n + 1 \in T
  <2> SUFFICES ASSUME n + 1 <= N PROVE kept[n + 1] \in S
    OBVIOUS
  <2>1. n \in Nat /\ n + 1 \in 0 .. N /\ n + 1 \in 1 .. N /\ n + 1 # 0 /\ (n + 1) - 1 = n /\ n <= N
    BY <1>2
  <2>2. kept[n] \in S /\ kept[n + 1] = One(n + 1, kept[n])
    <3> HIDE DEF One, first
    <3> QED
      BY <1>9, <2>1
  <2> HIDE DEF One
  <2> QED
    BY <1>5, <2>1, <2>2
<1>12. N \in T
  <2>1. T \subseteq Nat
    OBVIOUS
  <2> HIDE DEF T
  <2>2. Nat \subseteq T
    BY <1>10, <1>11, <2>1, Induction
  <2> QED
    BY <1>2, <2>2
<1> QED
  BY <1>1, <1>2, <1>12 DEF S

\* A point that a ray is cast to lies in the map.
LEMMA InMapIs ==
  ASSUME NEW p \in SeenPoint, NEW cam \in Poses
  PROVE  InMap(p, cam) \in [at : Voxels, hit : BOOLEAN]
<1> DEFINE ray == Rays[<<p.at, cam>>]
           back == ray \o <<cam>>
           inside == {n \in DOMAIN back : isInMap(back[n])}
           first == CHOOSE n \in DOMAIN back :
                      isInMap(back[n]) /\ \A m \in 1 .. n - 1 : ~isInMap(back[m])
<1>1. CASE isInMap(p.at)
  BY <1>1 DEF InMap, isInMap, SeenPoint
<1>2. CASE ~isInMap(p.at)
  <2>1. cam \in Voxels /\ cam \in Int \X Int /\ p.at \in Int \X Int
    BY MapAssumption, AddressIs, ProjectedType DEF SeenPoint
  <2>2. ray = RayFrom(p.at, cam)
    BY DEF Rays, SeenPoint
  <2>3. ray \in Seq(Int \X Int)
    BY <2>1, <2>2, RayStays
  <2>4. /\ Len(back) = Len(ray) + 1 /\ DOMAIN back = 1 .. Len(ray) + 1
        /\ Len(ray) \in Nat /\ back[Len(ray) + 1] = cam
    <3> HIDE DEF ray
    <3>1. <<cam>> \in Seq(Int \X Int) /\ Len(<<cam>>) = 1 /\ <<cam>>[1] = cam
      BY <2>1
    <3> QED
      BY <2>3, <3>1, ConcatProperties, LenProperties
  <2> HIDE DEF ray, back
  <2>5. inside \subseteq Nat /\ Len(ray) + 1 \in inside
    BY <2>1, <2>4 DEF isInMap
  <2>6. PICK k \in inside : \A m \in inside : k <= m
    <3> HIDE DEF inside
    <3> QED
      BY <2>5, LeastElement
  <2>7. \A m \in 1 .. k - 1 : ~isInMap(back[m])
    BY <2>4, <2>6
  <2>8. first \in DOMAIN back /\ isInMap(back[first])
    BY <2>6, <2>7
  <2>9. InMap(p, cam) = [at |-> back[first], hit |-> FALSE]
    BY <1>2 DEF InMap, back, ray
  <2> HIDE DEF first
  <2> QED
    BY <2>8, <2>9 DEF isInMap
<1> QED
  BY <1>1, <1>2

-----------------------------------------------------------------------------
(* The box of an update *)

Most(S) == CHOOSE a \in S : \A b \in S : a >= b

LEMMA LeastMost ==
  ASSUME NEW S, S \subseteq Int, S # {}, NEW L \in Int, NEW U \in Int,
         \A t \in S : L <= t /\ t <= U
  PROVE  /\ Least(S) \in S /\ \A t \in S : Least(S) <= t
         /\ Most(S) \in S /\ \A t \in S : t <= Most(S)
<1>1. /\ \E x \in S : \A y \in S : x <= y
      /\ \E x \in S : \A y \in S : x >= y
  BY Extremes
<1>2. Least(S) \in S /\ \A t \in S : Least(S) <= t
  BY <1>1 DEF Least
<1>3. Most(S) \in S /\ \A t \in S : Most(S) >= t
  BY <1>1 DEF Most
<1>4. \A t \in S : t <= Most(S)
  BY <1>3
<1> QED
  BY <1>2, <1>3, <1>4

\* The box lies in the map, and holds everything it was drawn around that does.
LEMMA BoxIs ==
  ASSUME NEW points, points \subseteq Int \X Int, NEW cam \in Int \X Int,
         NEW L \in Int, NEW U \in Int,
         \A v \in points \cup {cam} : L <= v[1] /\ v[1] <= U /\ L <= v[2] /\ v[2] <= U
  PROVE  /\ BoundingBox(points, cam).lo \in Voxels
         /\ BoundingBox(points, cam).hi \in Voxels
         /\ points \cup {cam} \subseteq Voxels =>
              points \cup {cam} \subseteq
                Box(BoundingBox(points, cam).lo, BoundingBox(points, cam).hi)
<1> DEFINE all == points \cup {cam}
           xs == {v[1] : v \in all}
           zs == {v[2] : v \in all}
           low == <<Least(xs), Least(zs)>>
           high == <<Most(xs), Most(zs)>>
           box == BoundingBox(points, cam)
<1>1. box = [lo |-> boundIndex(low), hi |-> boundIndex(high)]
  BY DEF BoundingBox, Least, Most
<1>2. all \subseteq Int \X Int /\ all # {}
  OBVIOUS
<1>3. /\ xs \subseteq Int /\ xs # {} /\ \A t \in xs : L <= t /\ t <= U
      /\ zs \subseteq Int /\ zs # {} /\ \A t \in zs : L <= t /\ t <= U
  BY <1>2
<1>4. /\ Least(xs) \in xs /\ (\A t \in xs : Least(xs) <= t)
      /\ Most(xs) \in xs /\ (\A t \in xs : t <= Most(xs))
  <2> HIDE DEF xs
  <2> QED
    BY <1>3, LeastMost
<1>5. /\ Least(zs) \in zs /\ (\A t \in zs : Least(zs) <= t)
      /\ Most(zs) \in zs /\ (\A t \in zs : t <= Most(zs))
  <2> HIDE DEF zs
  <2> QED
    BY <1>3, LeastMost
<1>6. \A v \in all : v[1] \in xs /\ v[2] \in zs
  OBVIOUS
<1>7. low \in Int \X Int /\ high \in Int \X Int
  <2> HIDE DEF xs, zs
  <2> QED
    BY <1>3, <1>4, <1>5
<1>8. box.lo \in Voxels /\ box.hi \in Voxels
  <2> HIDE DEF box, low, high
  <2> QED
    BY <1>1, <1>7, BoundIsInMap
<1>9. ASSUME all \subseteq Voxels PROVE all \subseteq Box(box.lo, box.hi)
  <2>1. \A v \in all : v[1] \in 0 .. NumX - 1 /\ v[2] \in 0 .. NumZ - 1
    BY <1>9, AddressIs
  <2>2. xs \subseteq 0 .. NumX - 1 /\ zs \subseteq 0 .. NumZ - 1
    BY <2>1
  <2>3. low \in Voxels /\ high \in Voxels
    <3> HIDE DEF xs, zs
    <3> QED
      BY <1>4, <1>5, <2>2 DEF Voxels
  <2>4. box.lo = low /\ box.hi = high
    <3> HIDE DEF box, low, high
    <3> QED
      BY <1>1, <1>7, <2>3, BoundIsInMap
  <2>5. ASSUME NEW v \in all PROVE v \in Box(low, high)
    <3>1. v = <<v[1], v[2]>> /\ v[1] \in Int /\ v[2] \in Int
      BY <1>2
    <3>2. Least(xs) <= v[1] /\ v[1] <= Most(xs) /\ Least(zs) <= v[2] /\ v[2] <= Most(zs)
      BY <1>4, <1>5, <1>6
    <3>3. /\ Least(xs) \in Int /\ Most(xs) \in Int /\ Least(zs) \in Int /\ Most(zs) \in Int
      BY <1>3, <1>4, <1>5
    <3> HIDE DEF xs, zs
    <3>4. v[1] \in Least(xs) .. Most(xs) /\ v[2] \in Least(zs) .. Most(zs)
      BY <3>1, <3>2, <3>3
    <3> QED
      BY <3>1, <3>4 DEF Box
  <2> QED
    BY <2>4, <2>5
<1> QED
  BY <1>8, <1>9

\* Boxes between voxels lie in the map, with what lies between two of their voxels.
LEMMA BoxInMap ==
  ASSUME NEW lo \in Voxels, NEW hi \in Voxels
  PROVE  Box(lo, hi) \subseteq Voxels
<1>1. /\ lo[1] \in 0 .. NumX - 1 /\ lo[2] \in 0 .. NumZ - 1
      /\ hi[1] \in 0 .. NumX - 1 /\ hi[2] \in 0 .. NumZ - 1
      /\ NumX \in Nat /\ NumZ \in Nat
  BY AddressIs, MapAssumption
<1>2. lo[1] .. hi[1] \subseteq 0 .. NumX - 1 /\ lo[2] .. hi[2] \subseteq 0 .. NumZ - 1
  BY <1>1
<1> QED
  BY <1>2 DEF Box, Voxels

LEMMA BoxHoldsBetween ==
  ASSUME NEW lo \in Voxels, NEW hi \in Voxels, NEW v \in Box(lo, hi), NEW w \in Box(lo, hi),
         NEW u \in Int \X Int, Between(u[1], v[1], w[1]), Between(u[2], v[2], w[2])
  PROVE  u \in Box(lo, hi)
<1>1. /\ lo[1] \in Int /\ lo[2] \in Int /\ hi[1] \in Int /\ hi[2] \in Int
  BY AddressIs
<1>2. /\ v[1] \in lo[1] .. hi[1] /\ v[2] \in lo[2] .. hi[2]
      /\ w[1] \in lo[1] .. hi[1] /\ w[2] \in lo[2] .. hi[2]
  BY DEF Box
<1>3. u[1] \in lo[1] .. hi[1] /\ u[2] \in lo[2] .. hi[2]
  BY <1>1, <1>2 DEF Between, Min2, Max2
<1> QED
  BY <1>3 DEF Box

-----------------------------------------------------------------------------
(* Casting an image *)

\* What casting accumulates, having counted voxels with addresses in B only.
Tallies(B) ==
  {acc \in [seen : [Addresses -> Nat], hits : [Addresses -> Nat],
            rayend : [Addresses -> Chars], traverse : [Addresses -> Chars], stop : BOOLEAN] :
     \A a \in Addresses : acc.seen[a] # 0 => a \in B}

LEMMA CharType == ASSUME NEW n \in Int PROVE Char(n) \in Chars
<1> DEFINE m == 2 * (CharMax + 1)
<1>1. m \in Nat \ {0} /\ CharMax \in Nat
  BY MapAssumption
<1>2. n + CharMax + 1 \in Int
  BY <1>1
<1>3. (n + CharMax + 1) % m \in 0 .. m - 1
  <2> HIDE DEF m
  <2> QED
    BY <1>1, <1>2
<1> DEFINE r == (n + CharMax + 1) % m
<1>4. r \in 0 .. 2 * (CharMax + 1) - 1
  BY <1>3
<1>5. Char(n) = r - (CharMax + 1)
  BY DEF Char
<1> HIDE DEF r
<1> QED
  BY <1>1, <1>4, <1>5 DEF Chars

LEMMA CacheKeeps ==
  ASSUME NEW B, NEW acc \in Tallies(B), NEW v \in Voxels, toAddress(v) \in B, NEW occ \in BOOLEAN
  PROVE  Cache(acc, v, occ) \in Tallies(B)
<1> DEFINE a == toAddress(v)
           more == IF occ THEN 1 ELSE 0
<1>1. a \in Addresses
  BY AddressIs
<1>2. acc.seen \in [Addresses -> Nat] /\ acc.hits \in [Addresses -> Nat] /\ more \in Nat
  BY DEF Tallies
<1> HIDE DEF a, more
<1> DEFINE seen == [acc.seen EXCEPT ![a] = @ + 1]
           hits == [acc.hits EXCEPT ![a] = @ + more]
<1>3. seen \in [Addresses -> Nat] /\ hits \in [Addresses -> Nat]
  BY <1>1, <1>2
<1>4. \A b \in Addresses : seen[b] # 0 => b \in B
  BY <1>1, <1>2 DEF Tallies, a
<1>5. Cache(acc, v, occ) = [acc EXCEPT !.seen = seen, !.hits = hits]
  BY <1>1, <1>2 DEF Cache, a, more, Tallies
<1> HIDE DEF seen, hits
<1> QED
  BY <1>3, <1>4, <1>5 DEF Tallies

LEMMA OnlyIs == \A x : Only({x}) = x
  BY DEF Only

LEMMA CrossKeeps ==
  ASSUME NEW B, NEW acc \in Tallies(B), NEW v \in Voxels, toAddress(v) \in B, NEW num \in Chars
  PROVE  Cross(num, acc, v) \in Tallies(B)
<1> DEFINE c == Cache(acc, v, FALSE)
<1>1. c \in Tallies(B)
  BY CacheKeeps
<1>2. toAddress(v) \in Addresses
  BY AddressIs
<1>3. Cross(num, acc, v) =
        IF acc.stop THEN acc
        ELSE [c EXCEPT !.stop = acc.traverse[toAddress(v)] = num,
                       !.traverse[toAddress(v)] = num]
  BY DEF Cross
<1> HIDE DEF c
<1>4. c.traverse \in [Addresses -> Chars]
  BY <1>1 DEF Tallies
<1> DEFINE t == [c.traverse EXCEPT ![toAddress(v)] = num]
           s == acc.traverse[toAddress(v)] = num
<1>5. t \in [Addresses -> Chars] /\ s \in BOOLEAN
  BY <1>2, <1>4
<1>6. [c EXCEPT !.stop = s, !.traverse[toAddress(v)] = num] = [c EXCEPT !.stop = s, !.traverse = t]
  BY <1>1 DEF Tallies
<1> HIDE DEF s, t
<1>7. [c EXCEPT !.stop = s, !.traverse = t] \in Tallies(B)
  BY <1>1, <1>5 DEF Tallies
<1> QED
  BY <1>3, <1>6, <1>7 DEF s

\* One point and its ray are counted where they lie.
LEMMA CastPointKeeps ==
  ASSUME NEW B, NEW num \in Chars, NEW acc \in Tallies(B), NEW p \in [at : Voxels, hit : BOOLEAN],
         toAddress(p.at) \in B, NEW ray \in Seq(Int \X Int),
         \A n \in 1 .. Len(ray) : ray[n] \in Voxels /\ toAddress(ray[n]) \in B
  PROVE  CastPoint(num, ray, acc, p) \in Tallies(B)
<1> DEFINE N == Len(ray)
           S == Tallies(B)
           first == [Cache(acc, p.at, p.hit) EXCEPT !.rayend[toAddress(p.at)] = num, !.stop = FALSE]
           One(n, s) == Only({Cross(num, a, ray[n]) : a \in {s}})
           Unfolds(f) == f = [n \in 0 .. N |->
                                IF n = 0
                                THEN [Cache(acc, p.at, p.hit) EXCEPT
                                        !.rayend[toAddress(p.at)] = num, !.stop = FALSE]
                                ELSE Only({Cross(num, a, ray[n]) : a \in {f[n - 1]}})]
           cast == CHOOSE f : Unfolds(f)
           step == [n \in 1 .. N |-> [s \in S |-> One(n, s)]]
<1>1. CastPoint(num, ray, acc, p) =
        IF acc.rayend[toAddress(p.at)] = num THEN Cache(acc, p.at, p.hit) ELSE cast[N]
  BY DEF CastPoint
<1>2. N \in Nat
  OBVIOUS
<1>3. Cache(acc, p.at, p.hit) \in S
  BY CacheKeeps
<1>4. first \in S
  <2> DEFINE c == Cache(acc, p.at, p.hit)
  <2>1. toAddress(p.at) \in Addresses
    BY AddressIs
  <2> HIDE DEF c
  <2>2. c \in Tallies(B) /\ c.rayend \in [Addresses -> Chars]
    BY <1>3 DEF c, Tallies
  <2> DEFINE r == [c.rayend EXCEPT ![toAddress(p.at)] = num]
  <2>3. r \in [Addresses -> Chars]
    BY <2>1, <2>2
  <2>4. [c EXCEPT !.rayend[toAddress(p.at)] = num, !.stop = FALSE]
          = [c EXCEPT !.rayend = r, !.stop = FALSE]
    BY <2>2 DEF Tallies
  <2> HIDE DEF r
  <2>5. [c EXCEPT !.rayend = r, !.stop = FALSE] \in Tallies(B)
    BY <2>2, <2>3 DEF Tallies
  <2> QED
    BY <2>4, <2>5 DEF c
<1>5. \A n \in 1 .. N : \A s \in S : One(n, s) \in S
  <2> TAKE n \in 1 .. N
  <2> TAKE s \in S
  <2>1. {Cross(num, a, ray[n]) : a \in {s}} = {Cross(num, s, ray[n])}
    OBVIOUS
  <2>2. One(n, s) = Cross(num, s, ray[n])
    BY <2>1, OnlyIs
  <2>3. ray[n] \in Voxels /\ toAddress(ray[n]) \in B
    OBVIOUS
  <2> HIDE DEF One
  <2> QED
    BY <2>2, <2>3, CrossKeeps
<1>6. step \in [1 .. N -> [S -> S]]
  <2> HIDE DEF One, S, N
  <2> QED
    BY <1>5
<1> HIDE DEF N, S
<1>7. \E f \in [0 .. N -> S] : Unfolds(f)
  <2> HIDE DEF first
  <2>1. Recurs(S, first, step, N)
    <3> HIDE DEF step
    <3> QED
      BY <1>2, <1>4, <1>6, Recursion
  <2>2. PICK f \in [0 .. N -> S] : f = [n \in 0 .. N |-> IF n = 0 THEN first ELSE step[n][f[n - 1]]]
    BY <2>1 DEF Recurs
  <2> HIDE DEF One
  <2>3. ASSUME NEW n \in 0 .. N
        PROVE  f[n] = IF n = 0 THEN first ELSE One(n, f[n - 1])
    <3>1. CASE n = 0
      BY <2>2, <3>1
    <3>2. CASE n # 0
      <4>1. n \in 1 .. N /\ n - 1 \in 0 .. N
        BY <1>2, <3>2
      <4>2. f[n - 1] \in S
        BY <4>1
      <4>3. f[n] = step[n][f[n - 1]]
        <5> HIDE DEF step
        <5> QED
          BY <2>2, <3>2
      <4>4. step[n] = [s \in S |-> One(n, s)]
        BY <4>1
      <4> QED
        BY <3>2, <4>2, <4>3, <4>4
    <3> QED
      BY <3>1, <3>2
  <2>4. f = [n \in 0 .. N |-> IF n = 0 THEN first ELSE One(n, f[n - 1])]
    <3>1. f = [n \in 0 .. N |-> f[n]]
      OBVIOUS
    <3> QED
      BY <2>3, <3>1
  <2>5. Unfolds(f)
    BY <2>4 DEF One, first
  <2> QED
    BY <2>5
<1>8. Unfolds(cast)
  <2> HIDE DEF Unfolds
  <2> QED
    BY <1>7
<1>9. cast[0] = first /\ \A n \in 0 .. N : n # 0 => cast[n] = One(n, cast[n - 1])
  <2>1. cast = [n \in 0 .. N |-> IF n = 0 THEN first ELSE One(n, cast[n - 1])]
    <3> HIDE DEF cast
    <3> QED
      BY <1>8 DEF One, first
  <2>2. 0 \in 0 .. N
    BY <1>2
  <2> HIDE DEF cast, first, One
  <2> QED
    BY <2>1, <2>2, Zenon
<1> HIDE DEF cast
<1> DEFINE T == {n \in Nat : n <= N => cast[n] \in S}
<1>10. 0 \in T
  <2> HIDE DEF first
  <2> QED
    BY <1>4, <1>9
<1>11. ASSUME NEW n \in T PROVE n + 1 \in T
  <2> SUFFICES ASSUME n + 1 <= N PROVE cast[n + 1] \in S
    OBVIOUS
  <2>1. n \in Nat /\ n + 1 \in 0 .. N /\ n + 1 \in 1 .. N /\ n + 1 # 0 /\ (n + 1) - 1 = n /\ n <= N
    BY <1>2
  <2>2. cast[n] \in S /\ cast[n + 1] = One(n + 1, cast[n])
    <3> HIDE DEF One, first
    <3> QED
      BY <1>9, <2>1
  <2> HIDE DEF One
  <2> QED
    BY <1>5, <2>1, <2>2
<1>12. N \in T
  <2>1. T \subseteq Nat
    OBVIOUS
  <2> HIDE DEF T
  <2>2. Nat \subseteq T
    BY <1>10, <1>11, <2>1, Induction
  <2> QED
    BY <1>2, <2>2
<1> QED
  BY <1>1, <1>2, <1>3, <1>12 DEF S

LEMMA CastAllKeeps ==
  ASSUME rayend \in [Addresses -> Chars], traverse \in [Addresses -> Chars],
         NEW num \in Chars, NEW cam \in Poses,
         NEW points \in Seq([at : Voxels, hit : BOOLEAN]),
         NEW lo \in Voxels, NEW hi \in Voxels, cam \in Box(lo, hi),
         \A n \in 1 .. Len(points) : points[n].at \in Box(lo, hi)
  PROVE  CastAll(num, cam, points) \in Tallies({toAddress(v) : v \in Box(lo, hi)})
<1> DEFINE B == {toAddress(v) : v \in Box(lo, hi)}
           N == Len(points)
           S == Tallies(B)
           zero == [a \in Addresses |-> 0]
           first == [seen |-> zero, hits |-> zero, rayend |-> rayend, traverse |-> traverse,
                     stop |-> FALSE]
           One(n, s) == Only({CastPoint(num, Rays[<<points[n].at, cam>>], a, points[n]) : a \in {s}})
           Unfolds(f) == f = [n \in 0 .. N |->
                                IF n = 0
                                THEN [seen |-> zero, hits |-> zero, rayend |-> rayend,
                                      traverse |-> traverse, stop |-> FALSE]
                                ELSE Only({CastPoint(num, Rays[<<points[n].at, cam>>], a, points[n]) :
                                             a \in {f[n - 1]}})]
           cast == CHOOSE f : Unfolds(f)
           step == [n \in 1 .. N |-> [s \in S |-> One(n, s)]]
<1>1. CastAll(num, cam, points) = cast[N]
  BY DEF CastAll
<1>2. N \in Nat
  OBVIOUS
<1>3. Box(lo, hi) \subseteq Voxels /\ cam \in Voxels
  BY BoxInMap
<1>4. first \in S
  BY DEF Tallies
<1>5. \A n \in 1 .. N : \A s \in S : One(n, s) \in S
  <2> TAKE n \in 1 .. N
  <2> TAKE s \in S
  <2> DEFINE p == points[n]
             ray == Rays[<<p.at, cam>>]
  <2>1. {CastPoint(num, ray, a, p) : a \in {s}} = {CastPoint(num, ray, s, p)}
    OBVIOUS
  <2>2. One(n, s) = CastPoint(num, ray, s, p)
    BY <2>1, OnlyIs
  <2>3. /\ p \in [at : Voxels, hit : BOOLEAN] /\ p.at \in Box(lo, hi) /\ p.at \in Int \X Int
        /\ cam \in Int \X Int
    <3>0. n \in 1 .. Len(points)
      BY DEF N
    <3>1. p \in [at : Voxels, hit : BOOLEAN] /\ p.at \in Box(lo, hi)
      BY <3>0, ElementOfSeq
    <3> HIDE DEF p
    <3>2. p.at \in Voxels
      BY <3>1
    <3> QED
      BY <1>3, <3>1, <3>2, AddressIs
  <2>4. ray = RayFrom(p.at, cam)
    BY <2>3 DEF Rays
  <2>5. ray \in Seq(Int \X Int)
    BY <2>3, <2>4, RayStays
  <2>6. ASSUME NEW m \in 1 .. Len(ray) PROVE ray[m] \in Box(lo, hi)
    <3>1. /\ ray[m] \in Int \X Int
          /\ Between(ray[m][1], p.at[1], cam[1]) /\ Between(ray[m][2], p.at[2], cam[2])
      BY <2>3, <2>4, <2>6, RayStays
    <3> HIDE DEF ray, p
    <3> QED
      BY <2>3, <3>1, BoxHoldsBetween
  <2>7. \A m \in 1 .. Len(ray) : ray[m] \in Voxels /\ toAddress(ray[m]) \in B
    <3> HIDE DEF ray
    <3> QED
      BY <1>3, <2>6
  <2>8. toAddress(p.at) \in B
    BY <2>3
  <2> HIDE DEF B, ray, p
  <2>9. CastPoint(num, ray, s, p) \in Tallies(B)
    BY <2>3, <2>5, <2>7, <2>8, CastPointKeeps
  <2> HIDE DEF One
  <2> QED
    BY <2>2, <2>9
<1>6. step \in [1 .. N -> [S -> S]]
  <2> HIDE DEF One, S, N
  <2> QED
    BY <1>5
<1> HIDE DEF N, S
<1>7. \E f \in [0 .. N -> S] : Unfolds(f)
  <2> HIDE DEF first
  <2>1. Recurs(S, first, step, N)
    <3> HIDE DEF step
    <3> QED
      BY <1>2, <1>4, <1>6, Recursion
  <2>2. PICK f \in [0 .. N -> S] : f = [n \in 0 .. N |-> IF n = 0 THEN first ELSE step[n][f[n - 1]]]
    BY <2>1 DEF Recurs
  <2> HIDE DEF One
  <2>3. ASSUME NEW n \in 0 .. N
        PROVE  f[n] = IF n = 0 THEN first ELSE One(n, f[n - 1])
    <3>1. CASE n = 0
      BY <2>2, <3>1
    <3>2. CASE n # 0
      <4>1. n \in 1 .. N /\ n - 1 \in 0 .. N
        BY <1>2, <3>2
      <4>2. f[n - 1] \in S
        BY <4>1
      <4>3. f[n] = step[n][f[n - 1]]
        <5> HIDE DEF step
        <5> QED
          BY <2>2, <3>2
      <4>4. step[n] = [s \in S |-> One(n, s)]
        BY <4>1
      <4> QED
        BY <3>2, <4>2, <4>3, <4>4
    <3> QED
      BY <3>1, <3>2
  <2>4. f = [n \in 0 .. N |-> IF n = 0 THEN first ELSE One(n, f[n - 1])]
    <3>1. f = [n \in 0 .. N |-> f[n]]
      OBVIOUS
    <3> QED
      BY <2>3, <3>1
  <2>5. Unfolds(f)
    BY <2>4 DEF One, first
  <2> QED
    BY <2>5
<1>8. Unfolds(cast)
  <2> HIDE DEF Unfolds
  <2> QED
    BY <1>7
<1>9. cast[0] = first /\ \A n \in 0 .. N : n # 0 => cast[n] = One(n, cast[n - 1])
  <2>1. cast = [n \in 0 .. N |-> IF n = 0 THEN first ELSE One(n, cast[n - 1])]
    <3> HIDE DEF cast
    <3> QED
      BY <1>8 DEF One, first
  <2>2. 0 \in 0 .. N
    BY <1>2
  <2> HIDE DEF cast, first, One
  <2> QED
    BY <2>1, <2>2, Zenon
<1> HIDE DEF cast
<1> DEFINE T == {n \in Nat : n <= N => cast[n] \in S}
<1>10. 0 \in T
  <2> HIDE DEF first
  <2> QED
    BY <1>4, <1>9
<1>11. ASSUME NEW n \in T PROVE n + 1 \in T
  <2> SUFFICES ASSUME n + 1 <= N PROVE cast[n + 1] \in S
    OBVIOUS
  <2>1. n \in Nat /\ n + 1 \in 0 .. N /\ n + 1 \in 1 .. N /\ n + 1 # 0 /\ (n + 1) - 1 = n /\ n <= N
    BY <1>2
  <2>2. cast[n] \in S /\ cast[n + 1] = One(n + 1, cast[n])
    <3> HIDE DEF One, first
    <3> QED
      BY <1>9, <2>1
  <2> HIDE DEF One
  <2> QED
    BY <1>5, <2>1, <2>2
<1>12. N \in T
  <2>1. T \subseteq Nat
    OBVIOUS
  <2> HIDE DEF T
  <2>2. Nat \subseteq T
    BY <1>10, <1>11, <2>1, Induction
  <2> QED
    BY <1>2, <2>2
<1> QED
  BY <1>1, <1>2, <1>12 DEF S

-----------------------------------------------------------------------------
(* The invariant *)

\* Where the camera is thought to be when an image is cast: in the map, and for the
\* two callbacks that fall back on odometry where the image was taken.
CameraInv ==
  /\ image \in Images /\ world \in Worlds
  /\ vehicle \in Poses \cup Outside /\ (mode # "pose" => vehicle \in Poses)
  /\ cameraPos \in Poses \cup Outside /\ (mode = "tf" => cameraPos \in Poses)
  /\ mode # "tf" /\ needUpdate /\ hasFirstDepth => cameraPos = image.pose

MapIInv == MapInv /\ CameraInv

LEMMA CameraInMap ==
  ASSUME MapIInv, needUpdate, hasFirstDepth
  PROVE  cameraPos \in Poses /\ cameraPos \in Voxels /\ (mode # "tf" => cameraPos = image.pose)
<1>1. CASE mode = "tf"
  BY <1>1, MapAssumption DEF MapIInv, CameraInv
<1>2. CASE mode # "tf"
  BY <1>2, ImageType, MapAssumption DEF MapIInv, CameraInv
<1> QED
  BY <1>1, <1>2

-----------------------------------------------------------------------------
(* Fusing an image *)

LogOdds == {o \in Int : o = ClampMinLog - UnknownFlag \/ (o >= ClampMinLog /\ o <= ClampMaxLog)}

\* A forgotten cell is unknown, which is not occupied.
LEMMA UnknownIsFree ==
  /\ ClampMinLog - UnknownFlag \in LogOdds
  /\ ~(ClampMinLog - UnknownFlag > MinOccupancyLog)
<1>1. /\ ClampMinLog \in Int /\ UnknownFlag \in Int /\ MinOccupancyLog \in Int
      /\ ClampMinLog < MinOccupancyLog /\ UnknownFlag > 0
  BY MapAssumption
<1>2. ClampMinLog - UnknownFlag \in Int /\ ~(ClampMinLog - UnknownFlag > MinOccupancyLog)
  BY <1>1
<1> QED
  BY <1>2 DEF LogOdds

LEMMA FuseClamps ==
  ASSUME NEW old \in LogOdds, NEW hits \in Nat, NEW seen \in Nat, NEW inLocal \in BOOLEAN
  PROVE  Fuse(old, hits, seen, inLocal) \in LogOdds
<1> DEFINE update == IF hits >= seen - hits THEN ProbHitLog ELSE ProbMissLog
           from == IF inLocal THEN old ELSE ClampMinLog
           sum == Min2(Max2(from + update, ClampMinLog), ClampMaxLog)
<1>1. /\ ProbHitLog \in Int /\ ProbMissLog \in Int /\ ClampMinLog \in Int /\ ClampMaxLog \in Int
      /\ UnknownFlag \in Int /\ MinOccupancyLog \in Int
      /\ ClampMinLog < MinOccupancyLog /\ MinOccupancyLog < ClampMaxLog /\ UnknownFlag > 0
  BY MapAssumption
<1>2. update \in Int /\ old \in Int
  BY <1>1 DEF LogOdds
<1>3. from \in Int
  BY <1>1, <1>2
<1>4. Fuse(old, hits, seen, inLocal) =
        CASE update >= 0 /\ old >= ClampMaxLog -> old
          [] update <= 0 /\ old <= ClampMinLog -> ClampMinLog
          [] OTHER -> sum
  BY DEF Fuse
<1> HIDE DEF update, from
<1>5. sum \in LogOdds
  BY <1>1, <1>2, <1>3 DEF Min2, Max2, LogOdds
<1>6. ClampMinLog \in LogOdds
  BY <1>1 DEF LogOdds
<1> HIDE DEF sum
<1>7. CASE update >= 0 /\ old >= ClampMaxLog
  <2>1. ~(update <= 0 /\ old <= ClampMinLog)
    BY <1>1, <1>2, <1>7
  <2> QED
    BY <1>4, <1>7, <2>1
<1>8. CASE update <= 0 /\ old <= ClampMinLog
  <2>1. ~(update >= 0 /\ old >= ClampMaxLog)
    BY <1>1, <1>2, <1>8
  <2> QED
    BY <1>4, <1>6, <1>8, <2>1
<1>9. CASE ~(update >= 0 /\ old >= ClampMaxLog) /\ ~(update <= 0 /\ old <= ClampMinLog)
  BY <1>4, <1>5, <1>9
<1> QED
  BY <1>7, <1>8, <1>9

\* An occupied voxel of the box is set, and outside it nothing is cleared.
LEMMA InflatedIs ==
  ASSUME NEW old \in [Addresses -> {0, 1}], NEW occ \in [Addresses -> Int],
         NEW box, box.lo \in Voxels, box.hi \in Voxels
  PROVE  /\ Inflated(old, occ, box) \in [Addresses -> {0, 1}]
         /\ \A v \in Box(box.lo, box.hi) :
              occ[toAddress(v)] > MinOccupancyLog => Inflated(old, occ, box)[toAddress(v)] = 1
         /\ \A v \in Voxels \ Box(box.lo, box.hi) :
              old[toAddress(v)] = 1 => Inflated(old, occ, box)[toAddress(v)] = 1
<1> DEFINE inBox == {toAddress(v) : v \in Box(box.lo, box.hi)}
           solid == {u \in Box(box.lo, box.hi) : occ[toAddress(u)] > MinOccupancyLog}
           blocked == UNION {InflatePoint(v) : v \in solid}
           new == Inflated(old, occ, box)
<1>1. new = [a \in Addresses |-> IF a \in blocked \cup Ceiling(box) THEN 1
                                 ELSE IF a \in inBox THEN 0 ELSE old[a]]
  BY DEF Inflated
<1>2. Box(box.lo, box.hi) \subseteq Voxels
  BY BoxInMap
<1> HIDE DEF new, blocked, inBox
<1>3. new \in [Addresses -> {0, 1}]
  BY <1>1
<1>4. ASSUME NEW v \in Box(box.lo, box.hi), occ[toAddress(v)] > MinOccupancyLog
      PROVE  new[toAddress(v)] = 1
  <2>1. v \in Voxels /\ v = <<v[1], v[2]>> /\ v[1] \in Int /\ v[2] \in Int /\ toAddress(v) \in Addresses
    BY <1>2, AddressIs
  <2>2. <<0, 0>> \in (-InfStep .. InfStep) \X (-InfStep .. InfStep) /\ Plus(v, <<0, 0>>) = v
    <3>1. 0 \in -InfStep .. InfStep
      BY MapAssumption
    <3>2. Plus(v, <<0, 0>>) = <<v[1] + 0, v[2] + 0>>
      BY DEF Plus
    <3> QED
      BY <2>1, <3>1, <3>2
  <2>3. toAddress(v) \in InflatePoint(v)
    BY <2>1, <2>2 DEF InflatePoint
  <2>4. toAddress(v) \in blocked
    BY <1>4, <2>3 DEF blocked
  <2> QED
    BY <1>1, <2>1, <2>4
<1>5. ASSUME NEW v \in Voxels \ Box(box.lo, box.hi), old[toAddress(v)] = 1
      PROVE  new[toAddress(v)] = 1
  <2>1. toAddress(v) \in Addresses
    BY AddressIs
  <2>2. toAddress(v) \notin inBox
    BY <1>2, AddressApart DEF inBox
  <2> QED
    BY <1>1, <1>5, <2>1, <2>2
<1> QED
  BY <1>3, <1>4, <1>5 DEF new

\* What is known of the buffers between two callbacks.
BuffersOK ==
  /\ occupancy \in [Addresses -> LogOdds] /\ inflate \in [Addresses -> {0, 1}]
  /\ raycastNum \in Chars
  /\ rayend \in [Addresses -> Chars] /\ traverse \in [Addresses -> Chars]
  /\ localBox.lo \in Voxels /\ localBox.hi \in Voxels

FlagsOK ==
  /\ mode \in {"tf", "pose", "odom"}
  /\ {needUpdate, hasFirstDepth, hasOdom, hasCloud, useFusion, timedOut} \subseteq BOOLEAN
  /\ age \in 0 .. OdomDepthTimeout + 1

LEMMA TypeIs == TypeOK <=> BuffersOK /\ FlagsOK
<1>1. ClampMinLog \in Int /\ UnknownFlag \in Int
  BY MapAssumption
<1>2. occupancy \in [Addresses -> LogOdds] <=>
        /\ occupancy \in [Addresses -> Int]
        /\ \A a \in Addresses :
              \/ occupancy[a] = ClampMinLog - UnknownFlag
              \/ occupancy[a] >= ClampMinLog /\ occupancy[a] <= ClampMaxLog
  BY <1>1 DEF LogOdds
<1> QED
  BY <1>2 DEF TypeOK, BuffersOK, FlagsOK, isInMap

LEMMA FuseImageKeeps ==
  ASSUME BuffersOK, OccupiedBlocks, cameraPos \in Poses, hasCloud' = hasCloud,
         NEW points \in Seq([at : Voxels, hit : BOOLEAN]), FuseImage(points)
  PROVE  BuffersOK' /\ OccupiedBlocks'
<1> DEFINE num == Char(raycastNum + 1)
           ats == {points[n].at : n \in DOMAIN points}
           local == InRange(cameraPos)
<1>1. PICK acc, box :
        /\ acc = CastAll(num, cameraPos, points)
        /\ box = BoundingBox(ats, cameraPos)
        /\ raycastNum' = num /\ rayend' = acc.rayend /\ traverse' = acc.traverse
        /\ localBox' = box
        /\ occupancy' =
              [a \in Addresses |->
                  IF a \in Forgotten(box) THEN ClampMinLog - UnknownFlag
                  ELSE IF acc.seen[a] = 0 THEN occupancy[a]
                  ELSE Fuse(occupancy[a], acc.hits[a], acc.seen[a], a \in local)]
        /\ inflate' = Inflated(inflate, occupancy', box)
  BY DEF FuseImage
<1>2. num \in Chars
  <2>1. raycastNum + 1 \in Int
    BY MapAssumption DEF BuffersOK, Chars
  <2>2. \A n \in Int : Char(n) \in Chars
    BY CharType
  <2> QED
    BY <2>1, <2>2
<1>3. DOMAIN points = 1 .. Len(points) /\ \A n \in 1 .. Len(points) : points[n] \in [at : Voxels, hit : BOOLEAN]
  BY ElementOfSeq, LenProperties
<1>4. ats \subseteq Voxels /\ cameraPos \in Voxels
  BY <1>3, MapAssumption
<1>5. box.lo \in Voxels /\ box.hi \in Voxels /\ ats \cup {cameraPos} \subseteq Box(box.lo, box.hi)
  <2> HIDE DEF ats
  <2>1. \A v \in ats \cup {cameraPos} : v \in Int \X Int /\ v[1] \in 0 .. NumX - 1 /\ v[2] \in 0 .. NumZ - 1
    BY <1>4, AddressIs
  <2>2. PICK U : U = NumX + NumZ
    OBVIOUS
  <2>3. U \in Int /\ \A v \in ats \cup {cameraPos} : 0 <= v[1] /\ v[1] <= U /\ 0 <= v[2] /\ v[2] <= U
    <3>1. NumX \in Nat /\ NumZ \in Nat
      BY MapAssumption
    <3>2. \A x \in 0 .. NumX - 1 : 0 <= x /\ x <= U
      BY <2>2, <3>1
    <3>3. \A z \in 0 .. NumZ - 1 : 0 <= z /\ z <= U
      BY <2>2, <3>1
    <3> QED
      BY <2>1, <2>2, <3>1, <3>2, <3>3
  <2>4. ats \subseteq Int \X Int /\ cameraPos \in Int \X Int /\ ats \cup {cameraPos} \subseteq Voxels
    BY <1>4, <2>1
  <2>5. PICK L : L = 0
    OBVIOUS
  <2>6. L \in Int /\ \A v \in ats \cup {cameraPos} : L <= v[1] /\ v[1] <= U /\ L <= v[2] /\ v[2] <= U
    BY <2>3, <2>5
  <2>7. box = BoundingBox(ats, cameraPos)
    BY <1>1 DEF ats
  <2> HIDE <1>1
  <2> QED
    BY <2>3, <2>4, <2>6, <2>7, BoxIs
<1> DEFINE B == {toAddress(v) : v \in Box(box.lo, box.hi)}
<1>6. acc \in Tallies(B)
  <2>1. \A n \in 1 .. Len(points) : points[n].at \in Box(box.lo, box.hi)
    BY <1>3, <1>5
  <2> HIDE DEF num
  <2> QED
    BY <1>1, <1>2, <1>5, <2>1, CastAllKeeps DEF BuffersOK
<1> HIDE DEF num, ats, local
<1>7. ASSUME NEW a \in Addresses PROVE occupancy'[a] \in LogOdds
  <2>1. /\ occupancy[a] \in LogOdds /\ acc.hits[a] \in Nat /\ acc.seen[a] \in Nat
        /\ (a \in local) \in BOOLEAN
    BY <1>6 DEF BuffersOK, Tallies
  <2>2. ClampMinLog - UnknownFlag \in LogOdds
    BY UnknownIsFree
  <2>3. Fuse(occupancy[a], acc.hits[a], acc.seen[a], a \in local) \in LogOdds
    BY <2>1, FuseClamps
  <2> QED
    BY <1>1, <2>1, <2>2, <2>3
<1>8. occupancy' \in [Addresses -> LogOdds] /\ occupancy' \in [Addresses -> Int]
  <2>1. occupancy' \in [Addresses -> LogOdds]
    BY <1>1, <1>7
  <2> QED
    BY <2>1 DEF LogOdds
<1>9. PICK occ : occ = occupancy'
  OBVIOUS
<1>10. /\ inflate' \in [Addresses -> {0, 1}]
       /\ \A v \in Box(box.lo, box.hi) :
            occ[toAddress(v)] > MinOccupancyLog => inflate'[toAddress(v)] = 1
       /\ \A v \in Voxels \ Box(box.lo, box.hi) :
            inflate[toAddress(v)] = 1 => inflate'[toAddress(v)] = 1
  <2>1. occ \in [Addresses -> Int] /\ inflate' = Inflated(inflate, occ, box)
        /\ inflate \in [Addresses -> {0, 1}]
    BY <1>1, <1>8, <1>9 DEF BuffersOK
  <2> QED
    BY <1>5, <2>1, InflatedIs
<1>11. BuffersOK'
  BY <1>1, <1>2, <1>5, <1>6, <1>8, <1>10 DEF BuffersOK, Tallies
<1>12. ASSUME ~hasCloud, NEW v \in Voxels, occ[toAddress(v)] > MinOccupancyLog
       PROVE  inflate'[toAddress(v)] = 1
  <2>1. CASE v \in Box(box.lo, box.hi)
    BY <1>10, <1>12, <2>1
  <2>2. CASE v \notin Box(box.lo, box.hi)
    <3> DEFINE a == toAddress(v)
    <3>1. a \in Addresses
      BY AddressIs
    <3>2. a \notin B
      <4>1. Box(box.lo, box.hi) \subseteq Voxels
        BY <1>5, BoxInMap
      <4> QED
        BY <2>2, <4>1, AddressApart
    <3>3. acc.seen[a] = 0
      <4> HIDE DEF B, a
      <4> QED
        BY <1>6, <3>1, <3>2 DEF Tallies
    <3>4. ~(ClampMinLog - UnknownFlag > MinOccupancyLog)
      BY UnknownIsFree
    <3>5. occ[a] = occupancy[a]
      <4> HIDE DEF a
      <4>1. occ[a] = IF a \in Forgotten(box) THEN ClampMinLog - UnknownFlag
                     ELSE IF acc.seen[a] = 0 THEN occupancy[a]
                     ELSE Fuse(occupancy[a], acc.hits[a], acc.seen[a], a \in local)
        BY <1>1, <1>9, <3>1
      <4> QED
        BY <1>12, <3>3, <3>4, <4>1 DEF a
    <3>6. inflate[a] = 1
      BY <1>12, <3>5 DEF OccupiedBlocks, Blocked, isInMap
    <3> QED
      BY <1>10, <2>2, <3>6
  <2> QED
    BY <2>1, <2>2
<1>13. OccupiedBlocks'
  BY <1>9, <1>12 DEF OccupiedBlocks, Blocked
<1> QED
  BY <1>11, <1>13

-----------------------------------------------------------------------------
(* Every callback keeps the invariant *)

LEMMA CameraIsPoint == ASSUME CameraInv PROVE cameraPos \in Int \X Int
<1>1. Poses \cup Outside \subseteq Int \X Int
  BY MapAssumption, AddressIs
<1> QED
  BY <1>1 DEF CameraInv

\* What leaves the buffers alone leaves the two invariants of them.
LEMMA BuffersUntouched ==
  ASSUME MapInv, UNCHANGED buffers, hasCloud' = hasCloud, FlagsOK'
  PROVE  MapInv'
<1>1. BuffersOK
  BY TypeIs DEF MapInv
<1>2. BuffersOK'
  BY <1>1 DEF BuffersOK, buffers
<1>3. TypeOK'
  BY <1>2, TypeIs DEF TypeOK, BuffersOK, FlagsOK, LogOdds, isInMap
<1>4. OccupiedBlocks'
  BY DEF MapInv, OccupiedBlocks, Blocked, buffers
<1> QED
  BY <1>3, <1>4 DEF MapInv

LEMMA MapInitIInv == ASSUME Init PROVE MapIInv
<1>1. FlagsOK
  <2>1. 0 \in 0 .. OdomDepthTimeout + 1
    BY MapAssumption
  <2> QED
    BY <2>1 DEF Init, FlagsOK
<1>2. BuffersOK
  <2>1. <<0, 0>> \in Voxels
    BY MapAssumption DEF Voxels
  <2>2. -1 \in Chars /\ 0 \in Chars
    BY MapAssumption DEF Chars
  <2>3. ClampMinLog - UnknownFlag \in LogOdds
    BY MapAssumption DEF LogOdds
  <2> QED
    BY <2>1, <2>2, <2>3 DEF Init, BuffersOK
<1>3. OccupiedBlocks
  <2>1. ~(ClampMinLog - UnknownFlag > MinOccupancyLog)
    BY MapAssumption
  <2>2. \A v \in Voxels : occupancy[toAddress(v)] = ClampMinLog - UnknownFlag
    BY AddressIs DEF Init
  <2> QED
    BY <2>1, <2>2 DEF OccupiedBlocks
<1>4. CameraInv
  BY DEF Init, CameraInv
<1> QED
  BY <1>1, <1>2, <1>3, <1>4, TypeIs DEF MapIInv, MapInv

\* The callbacks of images and of odometry.
LEMMA CameraCallbacksKeep ==
  ASSUME MapIInv,
         DepthPoseCallback \/ DepthOdomCallback \/ DepthTfCallback \/ DepthTfRejected
           \/ OdomCallback
  PROVE  MapIInv'
<1>1. FlagsOK /\ MapInv /\ CameraInv
  BY TypeIs DEF MapIInv, MapInv
<1> USE DEF MapIInv
<1>2. Outside \cap Voxels = {}
  BY MapAssumption
<1>3. ASSUME TakeImage PROVE image' \in Images /\ image'.pose = vehicle
  BY <1>3 DEF TakeImage
<1>4. CASE DepthPoseCallback
  <2>1. MapInv'
    <3>1. FlagsOK'
      BY <1>1, <1>4 DEF DepthPoseCallback, FlagsOK, clock
    <3> QED
      BY <1>1, <1>4, <3>1, BuffersUntouched DEF DepthPoseCallback
  <2>2. CameraInv'
    BY <1>1, <1>3, <1>4 DEF DepthPoseCallback, CameraInv, env
  <2> QED
    BY <2>1, <2>2
<1>5. CASE DepthOdomCallback
  <2>1. MapInv'
    <3>1. FlagsOK'
      BY <1>1, <1>5 DEF DepthOdomCallback, FlagsOK, clock
    <3> QED
      BY <1>1, <1>5, <3>1, BuffersUntouched DEF DepthOdomCallback
  <2>2. CameraInv'
    BY <1>1, <1>3, <1>5 DEF DepthOdomCallback, CameraInv, env
  <2> QED
    BY <2>1, <2>2
<1>6. CASE DepthTfCallback
  <2>1. MapInv'
    <3>1. FlagsOK'
      BY <1>1, <1>6 DEF DepthTfCallback, FlagsOK, clock
    <3> QED
      BY <1>1, <1>6, <3>1, BuffersUntouched DEF DepthTfCallback
  <2>2. CameraInv'
    BY <1>1, <1>3, <1>6 DEF DepthTfCallback, CameraInv, env
  <2> QED
    BY <2>1, <2>2
<1>7. CASE DepthTfRejected
  <2>1. MapInv'
    <3>1. FlagsOK'
      BY <1>1, <1>7 DEF DepthTfRejected, FlagsOK, clock, flags
    <3> QED
      BY <1>1, <1>7, <3>1, BuffersUntouched DEF DepthTfRejected, flags
  <2>2. CameraInv'
    BY <1>1, <1>7 DEF DepthTfRejected, CameraInv, env, flags
  <2> QED
    BY <2>1, <2>2
<1>8. CASE OdomCallback
  <2>1. MapInv'
    <3>1. FlagsOK'
      BY <1>1, <1>8 DEF OdomCallback, FlagsOK, clock
    <3> QED
      BY <1>1, <1>8, <3>1, BuffersUntouched DEF OdomCallback
  <2>2. CameraInv'
    BY <1>1, <1>8 DEF OdomCallback, CameraInv, env
  <2> QED
    BY <2>1, <2>2
<1> QED
  BY <1>4, <1>5, <1>6, <1>7, <1>8

\* The cloud is drawn within the update range of the camera.
LEMMA SpreadIsNear ==
  ASSUME NEW points, points \subseteq Int \X Int, NEW cam \in Int \X Int
  PROVE  /\ BoundingBox(Spread(points, cam), cam).lo \in Voxels
         /\ BoundingBox(Spread(points, cam), cam).hi \in Voxels
<1> DEFINE spread == Spread(points, cam)
<1>1. PICK r : r = UpdateRange[1] + UpdateRange[2] + InfStep + 1
  OBVIOUS
<1>2. /\ UpdateRange[1] \in Nat /\ UpdateRange[2] \in Nat /\ InfStep \in Nat /\ r \in Nat
      /\ cam[1] \in Int /\ cam[2] \in Int
  <2>1. UpdateRange \in Nat \X Nat /\ InfStep \in Nat
    BY MapAssumption
  <2>2. UpdateRange[1] \in Nat /\ UpdateRange[2] \in Nat
    BY <2>1
  <2> QED
    BY <1>1, <2>1, <2>2
<1>3. PICK L, U : L = Min2(cam[1], cam[2]) - r /\ U = Max2(cam[1], cam[2]) + r
  OBVIOUS
<1>4. L \in Int /\ U \in Int
  BY <1>2, <1>3 DEF Min2, Max2
<1>5. ASSUME NEW v \in spread
      PROVE  v \in Int \X Int /\ L <= v[1] /\ v[1] <= U /\ L <= v[2] /\ v[2] <= U
  <2>1. PICK p \in points, d \in (-InfStep .. InfStep) \X (-1 .. 1) :
          /\ \A i \in {1, 2} : AbsOf(p[i] - cam[i]) < UpdateRange[i]
          /\ v = Plus(p, d)
    BY DEF Spread
  <2>2. /\ p[1] \in Int /\ p[2] \in Int /\ d[1] \in -InfStep .. InfStep /\ d[2] \in -1 .. 1
        /\ v = <<p[1] + d[1], p[2] + d[2]>>
    BY <1>2, <2>1 DEF Plus
  <2>3. AbsOf(p[1] - cam[1]) < UpdateRange[1] /\ AbsOf(p[2] - cam[2]) < UpdateRange[2]
    BY <2>1
  <2>4. v \in Int \X Int /\ v[1] = p[1] + d[1] /\ v[2] = p[2] + d[2]
    BY <1>2, <2>2
  <2>5. L <= v[1] /\ v[1] <= U
    BY <1>1, <1>2, <1>3, <2>2, <2>3, <2>4 DEF AbsOf, Min2, Max2
  <2>6. L <= v[2] /\ v[2] <= U
    BY <1>1, <1>2, <1>3, <2>2, <2>3, <2>4 DEF AbsOf, Min2, Max2
  <2> QED
    BY <2>4, <2>5, <2>6
<1>6. L <= cam[1] /\ cam[1] <= U /\ L <= cam[2] /\ cam[2] <= U
  BY <1>2, <1>3 DEF Min2, Max2
<1>7. spread \subseteq Int \X Int
  BY <1>5
<1>8. \A v \in spread \cup {cam} : L <= v[1] /\ v[1] <= U /\ L <= v[2] /\ v[2] <= U
  BY <1>5, <1>6
<1> QED
  BY <1>4, <1>7, <1>8, BoxIs

LEMMA CloudCallbackKeeps ==
  ASSUME MapIInv, CloudCallback(world)
  PROVE  MapIInv'
<1>1. FlagsOK /\ BuffersOK /\ CameraInv
  BY TypeIs DEF MapIInv, MapInv
<1>2. FlagsOK'
  BY <1>1 DEF CloudCallback, FlagsOK, clock
<1>3. CameraInv'
  BY <1>1 DEF CloudCallback, CameraInv, env
<1>4. OccupiedBlocks'
  BY DEF CloudCallback, OccupiedBlocks
<1>5. inflate' \in [Addresses -> {0, 1}] /\ localBox'.lo \in Voxels /\ localBox'.hi \in Voxels
  <2>1. CASE ~hasOdom \/ world = {}
    BY <1>1, <2>1 DEF CloudCallback, BuffersOK
  <2>2. CASE ~(~hasOdom \/ world = {})
    <3> DEFINE spread == Spread(world, cameraPos)
               reach == BoundingBox(spread, cameraPos)
               drawn == {toAddress(v) : v \in {u \in spread : isInMap(u)}}
    <3>1. /\ localBox' = reach
          /\ inflate' = [a \in Addresses |->
                           IF a \in drawn \cup Ceiling(reach) THEN 1
                           ELSE IF a \in InRange(cameraPos) THEN 0 ELSE inflate[a]]
      BY <2>2 DEF CloudCallback
    <3>2. world \subseteq Int \X Int /\ cameraPos \in Int \X Int
      BY <1>1, CameraIsPoint, MapAssumption DEF CameraInv
    <3>3. reach.lo \in Voxels /\ reach.hi \in Voxels
      BY <3>2, SpreadIsNear
    <3> HIDE DEF reach, drawn
    <3> QED
      BY <1>1, <3>1, <3>3 DEF BuffersOK
  <2> QED
    BY <2>1, <2>2
<1>6. BuffersOK'
  BY <1>1, <1>5 DEF CloudCallback, BuffersOK
<1>7. TypeOK'
  BY <1>2, <1>6, TypeIs DEF TypeOK, BuffersOK, FlagsOK, LogOdds, isInMap
<1> QED
  BY <1>3, <1>4, <1>7 DEF MapIInv, MapInv

\* The timer, with no image waiting, with the first one and with any other.
LEMMA OccTimerKeeps ==
  ASSUME MapIInv, OccTimer
  PROVE  MapIInv'
<1>1. FlagsOK /\ BuffersOK /\ MapInv /\ CameraInv
  BY TypeIs DEF MapIInv, MapInv
<1>2. CASE OccTimerIdle
  <2>1. FlagsOK'
    <3>1. age' \in 0 .. OdomDepthTimeout + 1
      BY <1>1, <1>2, MapAssumption DEF OccTimerIdle, FlagsOK, Min2
    <3>2. timedOut' \in BOOLEAN
      BY <1>1, <1>2 DEF OccTimerIdle
    <3> QED
      BY <1>1, <1>2, <3>1, <3>2 DEF OccTimerIdle, FlagsOK, flags
  <2>2. MapInv'
    BY <1>1, <1>2, <2>1, BuffersUntouched DEF OccTimerIdle, flags
  <2>3. CameraInv'
    BY <1>1, <1>2 DEF OccTimerIdle, CameraInv, env, flags
  <2> QED
    BY <2>2, <2>3 DEF MapIInv
<1>3. CASE OccTimerFirst
  <2>1. FlagsOK'
    <3>1. 0 \in 0 .. OdomDepthTimeout + 1
      BY MapAssumption
    <3> QED
      BY <1>1, <1>3, <3>1 DEF OccTimerFirst, FlagsOK
  <2>2. MapInv'
    BY <1>1, <1>3, <2>1, BuffersUntouched DEF OccTimerFirst
  <2>3. CameraInv'
    BY <1>1, <1>3 DEF OccTimerFirst, CameraInv, env
  <2> QED
    BY <2>2, <2>3 DEF MapIInv
<1>4. CASE OccTimerFuses
  <2>1. FlagsOK'
    <3>1. 0 \in 0 .. OdomDepthTimeout + 1
      BY MapAssumption
    <3> QED
      BY <1>1, <1>4, <3>1 DEF OccTimerFuses, FlagsOK
  <2>2. CameraInv'
    BY <1>1, <1>4 DEF OccTimerFuses, CameraInv, env
  <2>3. PICK points : /\ points = ProjPoints(image, cameraPos)
                      /\ IF points = << >> THEN UNCHANGED buffers
                         ELSE FuseImage([n \in DOMAIN points |-> InMap(points[n], cameraPos)])
    BY <1>4 DEF OccTimerFuses
  <2>4. CASE points = << >>
    <3>1. MapInv'
      BY <1>1, <1>4, <2>1, <2>3, <2>4, BuffersUntouched DEF OccTimerFuses
    <3> QED
      BY <2>2, <3>1 DEF MapIInv
  <2>5. CASE points # << >>
    <3> DEFINE inMap == [n \in DOMAIN points |-> InMap(points[n], cameraPos)]
    <3>1. cameraPos \in Poses /\ image \in Images
      BY <1>1, <1>4, CameraInMap DEF OccTimerFuses, CameraInv
    <3>2. points \in Seq(SeenPoint)
      BY <2>3, <3>1, ProjPointsType
    <3>3. \A n \in DOMAIN points : InMap(points[n], cameraPos) \in [at : Voxels, hit : BOOLEAN]
      <4>1. \A n \in DOMAIN points : points[n] \in SeenPoint
        BY <3>2
      <4> QED
        BY <3>1, <4>1, InMapIs
    <3>4. inMap \in Seq([at : Voxels, hit : BOOLEAN])
      <4>1. DOMAIN points = 1 .. Len(points) /\ Len(points) \in Nat
        BY <3>2
      <4> QED
        BY <3>3, <4>1
    <3>5. FuseImage(inMap) /\ hasCloud' = hasCloud
      BY <1>4, <2>3, <2>5 DEF OccTimerFuses
    <3> HIDE DEF inMap
    <3>6. BuffersOK' /\ OccupiedBlocks'
      <4>1. OccupiedBlocks
        BY <1>1 DEF MapInv
      <4> QED
        BY <1>1, <3>1, <3>4, <3>5, <4>1, FuseImageKeeps
    <3>7. TypeOK'
      BY <2>1, <3>6, TypeIs DEF TypeOK, BuffersOK, FlagsOK, LogOdds, isInMap
    <3> QED
      BY <2>2, <3>6, <3>7 DEF MapIInv, MapInv
  <2> QED
    BY <2>4, <2>5
<1> QED
  BY <1>2, <1>3, <1>4 DEF OccTimer

\* The environment, and nothing at all.
LEMMA ChangeKeeps ==
  ASSUME MapIInv, Change \/ UNCHANGED vars
  PROVE  MapIInv'
<1>1. FlagsOK /\ MapInv /\ CameraInv
  BY TypeIs DEF MapIInv, MapInv
<1>2. CASE Change
  <2>1. FlagsOK'
    BY <1>1, <1>2 DEF Change, FlagsOK, clock, flags
  <2>2. MapInv'
    BY <1>1, <1>2, <2>1, BuffersUntouched DEF Change, flags
  <2>3. CameraInv'
    BY <1>1, <1>2 DEF Change, CameraInv, flags
  <2> QED
    BY <2>2, <2>3 DEF MapIInv
<1>3. CASE UNCHANGED vars
  <2>1. FlagsOK'
    BY <1>1, <1>3 DEF vars, FlagsOK, clock, flags
  <2>2. MapInv'
    BY <1>1, <1>3, <2>1, BuffersUntouched DEF vars, flags
  <2>3. CameraInv'
    BY <1>1, <1>3 DEF vars, CameraInv, flags, env
  <2> QED
    BY <2>2, <2>3 DEF MapIInv
<1> QED
  BY <1>2, <1>3

LEMMA MapNextIInv == ASSUME MapIInv, [Next]_vars PROVE MapIInv'
  BY CameraCallbacksKeep, CloudCallbackKeeps, OccTimerKeeps, ChangeKeeps
     DEF Next, DepthCallback

\* The map's inductive invariant: the buffers are well formed, an occupied voxel is
\* set in the inflated buffer, and the camera is where an image can be cast from.
THEOREM MapInvariance == Spec => []MapIInv
<1>1. Init => MapIInv
  BY MapInitIInv
<1>2. MapIInv /\ [Next]_vars => MapIInv'
  BY MapNextIInv
<1> QED
  BY <1>1, <1>2, PTL DEF Spec

\* For every size of map, every inflation, margin and update range, every camera and
\* every world: no obstacle the depth images established is open to the planner, and
\* the log-odds and the char flags keep their ranges (grid_map.cpp, OccupiedBlocks
\* and TypeOK).
THEOREM MapSound == Spec => []MapInv
<1>1. MapIInv => MapInv
  BY DEF MapIInv
<1> QED
  BY <1>1, MapInvariance, PTL

\* With the two depth callbacks that fall back on odometry, every image is cast from
\* the pose it was taken at (odomCallback's early return, grid_map.cpp).
THEOREM FallbackPose == Spec => FallbackKeepsPose
<1>1. MapIInv /\ [Next]_vars => [mode # "tf" => FusesAtOwnPose]_vars
  <2> SUFFICES ASSUME MapIInv, mode # "tf", OccTimerFuses PROVE cameraPos = image.pose
    BY DEF FusesAtOwnPose
  <2> QED
    BY CameraInMap DEF OccTimerFuses
<1> QED
  BY <1>1, MapInvariance, PTL DEF Spec, FallbackKeepsPose

-----------------------------------------------------------------------------
(* Segments *)

\* What the scans yield: segments that are not empty, begin in the order they end
\* in, and share at most the step from one point to the next.
Segment == Int \X Int
SegmentsOK(segs) ==
  /\ segs \in Seq(Segment)
  /\ \A k \in 1 .. Len(segs) : 0 <= segs[k][1] /\ segs[k][1] < segs[k][2] /\ segs[k][2] < Size
  /\ \A k, l \in 1 .. Len(segs) : k < l => segs[k][2] <= segs[l][1] + 1

LEMMA SegmentType ==
  ASSUME NEW segs \in Seq(Segment), NEW k \in 1 .. Len(segs)
  PROVE  segs[k][1] \in Int /\ segs[k][2] \in Int
<1>1. segs[k] \in Segment
  OBVIOUS
<1> QED
  BY <1>1 DEF Segment

\* The ends of a piece: where it was cut it gives up a point or two, and the cut
\* parts it from its neighbour.
LEMMA PieceIs ==
  ASSUME NEW segs, SegmentsOK(segs), NEW k \in 1 .. Len(segs)
  PROVE  /\ Split(segs)[k][1] \in Int /\ Split(segs)[k][2] \in Int
         /\ \/ Split(segs)[k][1] = segs[k][1] /\ (k > 1 => segs[k - 1][2] < segs[k][1])
            \/ Split(segs)[k][1] = segs[k][1] + 1 /\ k > 1 /\ segs[k - 1][2] >= segs[k][1]
         /\ \/ Split(segs)[k][2] = segs[k][2] /\ (k < Len(segs) => segs[k][2] < segs[k + 1][1])
            \/ /\ Split(segs)[k][2] = segs[k][2] - 1
               /\ k < Len(segs) /\ segs[k][2] >= segs[k + 1][1]
<1>1. Len(segs) \in Nat /\ segs \in Seq(Segment)
  BY DEF SegmentsOK
<1>2. Split(segs)[k] =
       <<IF k > 1 /\ Meets(segs, k - 1) THEN Halfway(segs, k - 1) \div 2 + 1 ELSE segs[k][1],
         IF k < Len(segs) /\ Meets(segs, k) THEN (Halfway(segs, k) - 1) \div 2
         ELSE segs[k][2]>>
  BY DEF Split
<1> DEFINE a == segs[k][1]
           b == segs[k][2]
<1>3. a \in Int /\ b \in Int
  BY <1>1, SegmentType
<1>4. \/ Split(segs)[k][1] = a /\ (k > 1 => segs[k - 1][2] < a)
      \/ Split(segs)[k][1] = a + 1 /\ k > 1 /\ segs[k - 1][2] >= a
  <2>1. CASE k > 1
    <3> DEFINE c == segs[k - 1][2]
    <3>1. k - 1 \in 1 .. Len(segs) /\ k - 1 < k /\ (k - 1) + 1 = k
      BY <1>1, <2>1
    <3>2. c \in Int /\ c <= a + 1
      BY <1>1, <3>1, SegmentType DEF SegmentsOK
    <3>3. Meets(segs, k - 1) <=> c >= a
      BY <3>1 DEF Meets
    <3>4. Halfway(segs, k - 1) = c + a
      BY <3>1 DEF Halfway
    <3>5. Split(segs)[k][1] = IF c >= a THEN (c + a) \div 2 + 1 ELSE a
      BY <1>2, <2>1, <3>3, <3>4
    <3> HIDE DEF a, c
    <3>6. c >= a => (c + a) \div 2 = a
      BY <1>3, <3>2
    <3>7. c < a \/ c >= a
      BY <1>3, <3>2
    <3> QED
      BY <2>1, <3>5, <3>6, <3>7 DEF a, c
  <2>2. CASE ~(k > 1)
    BY <1>2, <2>2
  <2> QED
    BY <2>1, <2>2
<1>5. \/ Split(segs)[k][2] = b /\ (k < Len(segs) => b < segs[k + 1][1])
      \/ Split(segs)[k][2] = b - 1 /\ k < Len(segs) /\ b >= segs[k + 1][1]
  <2>1. CASE k < Len(segs)
    <3> DEFINE c == segs[k + 1][1]
    <3>1. k + 1 \in 1 .. Len(segs) /\ k < k + 1
      BY <1>1, <2>1
    <3>2. c \in Int /\ b <= c + 1
      BY <1>1, <3>1, SegmentType DEF SegmentsOK
    <3>3. Meets(segs, k) <=> b >= c
      BY DEF Meets
    <3>4. Halfway(segs, k) = b + c
      BY DEF Halfway
    <3>5. /\ b >= c => Split(segs)[k][2] = (b + c - 1) \div 2
          /\ ~(b >= c) => Split(segs)[k][2] = b
      <4>1. b >= c => Split(segs)[k][2] = (Halfway(segs, k) - 1) \div 2
        BY <1>2, <2>1, <3>3
      <4>2. ~(b >= c) => Split(segs)[k][2] = b
        BY <1>2, <2>1, <3>3
      <4> HIDE DEF b, c
      <4> QED
        BY <1>3, <3>2, <3>4, <4>1, <4>2
    <3> HIDE DEF b, c
    <3>6. b >= c => (b + c - 1) \div 2 = b - 1
      BY <1>3, <3>2
    <3>7. b < c \/ b >= c
      BY <1>3, <3>2
    <3> QED
      BY <2>1, <3>5, <3>6, <3>7 DEF b, c
  <2>2. CASE ~(k < Len(segs))
    BY <1>2, <2>2
  <2> QED
    BY <2>1, <2>2
<1> QED
  BY <1>3, <1>4, <1>5

LEMMA SplitInOrder ==
  ASSUME NEW segs, SegmentsOK(segs)
  PROVE  InOrder(Split(segs))
<1>1. /\ Len(segs) \in Nat /\ segs \in Seq(Segment)
      /\ \A k \in 1 .. Len(segs) : segs[k][1] \in Int /\ segs[k][2] \in Int
  BY SegmentType DEF SegmentsOK
<1>2. Len(Split(segs)) = Len(segs)
  BY <1>1 DEF Split
<1>3. ASSUME NEW k \in 1 .. Len(segs)
      PROVE  /\ 0 <= Split(segs)[k][1] /\ Split(segs)[k][1] <= Split(segs)[k][2] + 1
             /\ Split(segs)[k][2] < Size
  <2>1. 0 <= segs[k][1] /\ segs[k][1] < segs[k][2] /\ segs[k][2] < Size
    BY DEF SegmentsOK
  <2>2. /\ Split(segs)[k][1] = segs[k][1] \/ Split(segs)[k][1] = segs[k][1] + 1
        /\ Split(segs)[k][2] = segs[k][2] \/ Split(segs)[k][2] = segs[k][2] - 1
    BY PieceIs
  <2>3. PICK s1, s2, k1, k2 : /\ s1 = segs[k][1] /\ s2 = segs[k][2]
                              /\ k1 = Split(segs)[k][1] /\ k2 = Split(segs)[k][2]
    OBVIOUS
  <2>4. s1 \in Int /\ s2 \in Int
    BY <1>1, <2>3
  <2>5. /\ 0 <= s1 /\ s1 < s2 /\ s2 < Size
        /\ k1 = s1 \/ k1 = s1 + 1
        /\ k2 = s2 \/ k2 = s2 - 1
    BY <2>1, <2>2, <2>3
  <2>6. 0 <= k1 /\ k1 <= k2 + 1 /\ k2 < Size
    BY <2>4, <2>5, SizeAssumption
  <2> QED
    BY <2>3, <2>6
\* The begins do not fall.
<1>4. \A k, l \in 1 .. Len(segs) : k < l => segs[k][1] <= segs[l][1]
  <2> TAKE k, l \in 1 .. Len(segs)
  <2> HAVE k < l
  <2>1. segs[k][1] < segs[k][2] /\ segs[k][2] <= segs[l][1] + 1
    BY DEF SegmentsOK
  <2> QED
    BY <1>1, <2>1
<1>5. ASSUME NEW k \in 1 .. Len(segs), NEW l \in 1 .. Len(segs), k < l
      PROVE  Split(segs)[k][2] < Split(segs)[l][1]
  <2>1. segs[k][2] <= segs[l][1] + 1 /\ k + 1 \in 1 .. Len(segs) /\ l - 1 \in 1 .. Len(segs)
    BY <1>1, <1>5 DEF SegmentsOK
  <2>2. k < Len(segs) /\ l > 1 /\ (k + 1 = l \/ k + 1 < l) /\ (l - 1 = k \/ k < l - 1)
    BY <1>1, <1>5
  <2>3. segs[k + 1][1] <= segs[l][1]
    BY <1>1, <1>4, <2>1, <2>2
  <2>4. /\ \/ Split(segs)[k][2] = segs[k][2] /\ segs[k][2] < segs[k + 1][1]
           \/ Split(segs)[k][2] = segs[k][2] - 1
        /\ \/ Split(segs)[l][1] = segs[l][1] /\ segs[l - 1][2] < segs[l][1]
           \/ Split(segs)[l][1] = segs[l][1] + 1
    BY <2>2, PieceIs
  <2>5. PICK k2, l1, p2, q1 : /\ k2 = segs[k][2] /\ l1 = segs[l][1]
                              /\ p2 = Split(segs)[k][2] /\ q1 = Split(segs)[l][1]
    OBVIOUS
  <2>6. PICK n1, m1, m2 : n1 = segs[k + 1][1] /\ m1 = segs[l - 1][1] /\ m2 = segs[l - 1][2]
    OBVIOUS
  <2>7. /\ k2 \in Int /\ l1 \in Int /\ n1 \in Int /\ m1 \in Int /\ m2 \in Int
        /\ k2 <= l1 + 1 /\ n1 <= l1
    BY <1>1, <2>1, <2>3, <2>5, <2>6
  <2>8. l - 1 = k => m2 = k2
    BY <2>5, <2>6
  <2>9. k < l - 1 => k2 <= m1 + 1 /\ m1 < m2
    BY <2>1, <2>5, <2>6 DEF SegmentsOK
  <2>10. /\ (p2 = k2 /\ k2 < n1) \/ p2 = k2 - 1
         /\ (q1 = l1 /\ m2 < l1) \/ q1 = l1 + 1
    BY <2>4, <2>5, <2>6
  <2>11. p2 < q1
    <3>1. CASE p2 = k2 /\ k2 < n1
      BY <2>7, <2>10, <3>1
    <3>2. CASE p2 = k2 - 1 /\ q1 = l1 + 1
      BY <2>7, <3>2
    <3>3. CASE p2 = k2 - 1 /\ q1 = l1 /\ m2 < l1 /\ l - 1 = k
      BY <2>7, <2>8, <3>3
    <3>4. CASE p2 = k2 - 1 /\ q1 = l1 /\ m2 < l1 /\ k < l - 1
      BY <2>7, <2>9, <3>4
    <3> QED
      BY <2>2, <2>10, <3>1, <3>2, <3>3, <3>4
  <2> QED
    BY <2>5, <2>11
<1> QED
  BY <1>2, <1>3, <1>5 DEF InOrder

LEMMA NoSegments == SegmentsOK(<< >>)
  BY DEF SegmentsOK

LEMMA SegmentAdded ==
  ASSUME NEW segs, SegmentsOK(segs), NEW in \in Int, NEW out \in Int,
         0 <= in, in < out, out < Size,
         \A k \in 1 .. Len(segs) : segs[k][2] <= in + 1
  PROVE  SegmentsOK(Append(segs, <<in, out>>))
<1> DEFINE more == Append(segs, <<in, out>>)
           n == Len(segs)
<1>1. segs \in Seq(Segment) /\ n \in Nat /\ <<in, out>> \in Segment
  BY DEF SegmentsOK, Segment
<1>2. /\ more \in Seq(Segment) /\ Len(more) = n + 1 /\ more[n + 1] = <<in, out>>
      /\ \A k \in 1 .. n : more[k] = segs[k]
  BY <1>1, AppendProperties
<1> HIDE DEF more, n
<1>3. \A k \in 1 .. n + 1 : k = n + 1 \/ k \in 1 .. n
  BY <1>1
<1>4. more[n + 1][1] = in /\ more[n + 1][2] = out
  BY <1>2
<1>5. \A k \in 1 .. Len(more) :
        0 <= more[k][1] /\ more[k][1] < more[k][2] /\ more[k][2] < Size
  BY <1>2, <1>3, <1>4 DEF SegmentsOK, n
<1>6. ASSUME NEW k \in 1 .. Len(more), NEW l \in 1 .. Len(more), k < l
      PROVE  more[k][2] <= more[l][1] + 1
  <2>1. k \in 1 .. n
    BY <1>1, <1>2, <1>6
  <2>2. CASE l \in 1 .. n
    BY <1>2, <1>6, <2>1, <2>2 DEF SegmentsOK, n
  <2>3. CASE l = n + 1
    BY <1>2, <1>4, <2>1, <2>3 DEF n
  <2> QED
    BY <1>2, <1>3, <2>2, <2>3
<1> QED
  BY <1>2, <1>5, <1>6 DEF SegmentsOK, more

LEMMA ErasedIs ==
  ASSUME NEW segs \in Seq(Segment), NEW m \in Nat, m < Len(segs)
  PROVE  /\ Erased(segs, m + 1) \in Seq(Segment) /\ Len(Erased(segs, m + 1)) = Len(segs) - 1
         /\ \A k \in 1 .. m : Erased(segs, m + 1)[k] = segs[k]
         /\ \A k \in m + 1 .. Len(segs) - 1 : Erased(segs, m + 1)[k] = segs[k + 1]
<1> DEFINE n == Len(segs)
<1>1. n \in Nat /\ m < n
  OBVIOUS
<1>2. PICK s1 : s1 = SubSeq(segs, 1, m)
  OBVIOUS
<1>3. PICK s2 : s2 = SubSeq(segs, m + 2, n)
  OBVIOUS
<1>4. s1 \in Seq(Segment) /\ Len(s1) = m /\ \A k \in 1 .. m : s1[k] = segs[k]
  BY <1>1, <1>2
<1>5. /\ s2 \in Seq(Segment) /\ Len(s2) = n - (m + 1)
      /\ \A k \in 1 .. n - (m + 1) : s2[k] = segs[m + 1 + k]
  BY <1>1, <1>3
<1>6. Erased(segs, m + 1) = s1 \o s2
  <2>1. (m + 1) - 1 = m /\ (m + 1) + 1 = m + 2
    OBVIOUS
  <2> QED
    BY <1>2, <1>3, <2>1 DEF Erased
<1> HIDE DEF n
<1>7. PICK rest : rest = s1 \o s2
  OBVIOUS
<1>8. PICK l1, l2 : l1 = Len(s1) /\ l2 = Len(s2)
  OBVIOUS
<1>9. /\ rest \in Seq(Segment) /\ Len(rest) = l1 + l2
      /\ \A k \in 1 .. l1 + l2 : rest[k] = IF k <= l1 THEN s1[k] ELSE s2[k - l1]
  <2>1. /\ s1 \o s2 \in Seq(Segment) /\ Len(s1 \o s2) = Len(s1) + Len(s2)
        /\ \A k \in 1 .. Len(s1) + Len(s2) :
             (s1 \o s2)[k] = IF k <= Len(s1) THEN s1[k] ELSE s2[k - Len(s1)]
    BY <1>4, <1>5, ConcatProperties, Zenon
  <2> QED
    BY <1>7, <1>8, <2>1, Zenon
<1>10. l1 = m /\ l2 = n - (m + 1) /\ l1 + l2 = n - 1
  BY <1>1, <1>4, <1>5, <1>8
<1>11. ASSUME NEW k \in 1 .. m PROVE rest[k] = segs[k]
  <2>1. k \in 1 .. l1 + l2 /\ k <= l1
    BY <1>1, <1>10
  <2> QED
    BY <1>4, <1>9, <2>1
<1>12. ASSUME NEW k \in m + 1 .. n - 1 PROVE rest[k] = segs[k + 1]
  <2>1. /\ k \in 1 .. l1 + l2 /\ ~(k <= l1) /\ k - l1 = k - m
        /\ k - m \in 1 .. n - (m + 1) /\ m + 1 + (k - m) = k + 1
    BY <1>1, <1>10
  <2> QED
    BY <1>5, <1>9, <2>1
<1> QED
  BY <1>6, <1>7, <1>9, <1>10, <1>11, <1>12 DEF n

\* What LosePath leaves.
LEMMA SegmentErased ==
  ASSUME NEW segs, SegmentsOK(segs), NEW m \in Nat, m < Len(segs)
  PROVE  SegmentsOK(Erased(segs, m + 1))
<1>1. PICK rest : rest = Erased(segs, m + 1)
  OBVIOUS
<1>2. PICK n : n = Len(segs)
  OBVIOUS
<1>3. segs \in Seq(Segment) /\ n \in Nat /\ m < n
  BY <1>2 DEF SegmentsOK
<1>4. /\ rest \in Seq(Segment) /\ Len(rest) = n - 1
      /\ \A k \in 1 .. m : rest[k] = segs[k]
      /\ \A k \in m + 1 .. n - 1 : rest[k] = segs[k + 1]
  BY <1>1, <1>2, <1>3, ErasedIs
\* The place a segment had before.
<1> DEFINE at(k) == IF k <= m THEN k ELSE k + 1
<1>5. \A k \in 1 .. n - 1 : at(k) \in 1 .. n /\ rest[k] = segs[at(k)]
  <2> TAKE k \in 1 .. n - 1
  <2>1. CASE k \in 1 .. m
    BY <1>3, <1>4, <2>1
  <2>2. CASE k \in m + 1 .. n - 1
    BY <1>3, <1>4, <2>2
  <2> QED
    BY <1>3, <2>1, <2>2
<1>6. \A k, l \in 1 .. n - 1 : k < l => at(k) < at(l)
  BY <1>3
<1> HIDE DEF at
<1>7. \A k \in 1 .. n - 1 :
        0 <= rest[k][1] /\ rest[k][1] < rest[k][2] /\ rest[k][2] < Size
  BY <1>2, <1>5 DEF SegmentsOK
<1>8. \A k, l \in 1 .. n - 1 : k < l => rest[k][2] <= rest[l][1] + 1
  BY <1>2, <1>5, <1>6 DEF SegmentsOK
<1> QED
  BY <1>1, <1>4, <1>7, <1>8 DEF SegmentsOK

-----------------------------------------------------------------------------
(* The scan and the check that find them *)

\* The scan of initControlPoints.
ScanStates ==
  [in : Int, out : Int, same : Int, last : BOOLEAN, started : BOOLEAN, maybe : BOOLEAN,
   ids : Seq(Segment)]

\* What the scan knows at point i: an open segment begins before i and not before
\* the step the last one ended in, and whoever is in an obstacle has begun one.
ScanOK(st, i) ==
  /\ SegmentsOK(st.ids)
  /\ \A k \in 1 .. Len(st.ids) : st.ids[k][2] <= i
  /\ st.maybe => ~st.last
  /\ ~st.started => ~st.last /\ st.same > ENOUGH_INTERVAL
  /\ st.started => /\ 0 <= st.in /\ st.in < i
                   /\ \A k \in 1 .. Len(st.ids) : st.ids[k][2] <= st.in + 1
  /\ st.started /\ st.maybe => st.in < st.out /\ st.out <= i

LEMMA OccupiedType == ASSUME NEW smp PROVE SampleOccupied(smp) \in BOOLEAN
  BY DEF SampleOccupied, Occupied

LEMMA ScannedKeeps ==
  ASSUME NEW st \in ScanStates, NEW smp \in [i : Int, s : Int], NEW h \in Int,
         ScanOK(st, h), h <= smp.i, order <= smp.i, smp.i <= LastScanned
  PROVE  Scanned(st, smp) \in ScanStates /\ ScanOK(Scanned(st, smp), smp.i)
<1> DEFINE occ == SampleOccupied(smp)
           enters == occ /\ ~st.last
           leaves == ~occ /\ st.last
           opens == enters /\ (st.same > ENOUGH_INTERVAL \/ smp.i = order)
           same == IF enters \/ leaves THEN 0 ELSE Lesser(st.same + 1, ENOUGH_INTERVAL + 1)
           maybe == ~enters /\ (leaves \/ st.maybe)
           ends == maybe /\ (same > ENOUGH_INTERVAL \/ smp.i = Size - order)
<1>1. occ \in BOOLEAN /\ st.last \in BOOLEAN /\ st.maybe \in BOOLEAN /\ st.same \in Int
  BY OccupiedType DEF ScanStates
<1>2. /\ enters \in BOOLEAN /\ leaves \in BOOLEAN /\ opens \in BOOLEAN /\ maybe \in BOOLEAN
      /\ ends \in BOOLEAN
  OBVIOUS
<1>3. same \in Int
  <2>1. Lesser(st.same + 1, ENOUGH_INTERVAL + 1) \in Int
    BY <1>1 DEF Lesser, ENOUGH_INTERVAL
  <2> HIDE DEF occ
  <2> QED
    BY <2>1
<1>4. Scanned(st, smp) =
        [in |-> IF opens THEN smp.i - 1 ELSE st.in,
         out |-> IF leaves THEN smp.i ELSE st.out,
         same |-> same, last |-> occ,
         started |-> (opens \/ st.started) /\ ~ends, maybe |-> maybe /\ ~ends,
         ids |-> IF (opens \/ st.started) /\ ends
                 THEN Append(st.ids, <<IF opens THEN smp.i - 1 ELSE st.in,
                                       IF leaves THEN smp.i ELSE st.out>>)
                 ELSE st.ids]
  BY Zenon DEF Scanned
<1>5. /\ enters <=> occ /\ ~st.last
      /\ leaves <=> ~occ /\ st.last
      /\ opens <=> enters /\ (st.same > ENOUGH_INTERVAL \/ smp.i = order)
      /\ same = IF enters \/ leaves THEN 0 ELSE Lesser(st.same + 1, ENOUGH_INTERVAL + 1)
      /\ maybe <=> ~enters /\ (leaves \/ st.maybe)
      /\ ends <=> maybe /\ (same > ENOUGH_INTERVAL \/ smp.i = Size - order)
  OBVIOUS
<1> HIDE DEF occ, enters, leaves, opens, same, maybe, ends
<1>6. PICK new : new = Scanned(st, smp)
  OBVIOUS
<1>7. PICK i : i = smp.i
  OBVIOUS
<1>8. /\ new.in = IF opens THEN i - 1 ELSE st.in
      /\ new.out = IF leaves THEN i ELSE st.out
      /\ new.same = same /\ new.last = occ
      /\ new.started = ((opens \/ st.started) /\ ~ends) /\ new.maybe = (maybe /\ ~ends)
      /\ new.ids = IF (opens \/ st.started) /\ ends
                   THEN Append(st.ids, <<new.in, new.out>>) ELSE st.ids
  BY <1>4, <1>6, <1>7
<1>9. /\ st.in \in Int /\ st.out \in Int /\ st.same \in Int /\ st.started \in BOOLEAN
      /\ st.ids \in Seq(Segment) /\ i \in Int
  BY <1>7 DEF ScanStates
<1>10. i < Size - order /\ i < Size /\ order <= i /\ h <= i
  BY <1>7, <1>9, SizeAssumption DEF LastScanned, order
<1>11. new \in ScanStates
  <2>1. new.ids \in Seq(Segment)
    <3>1. <<new.in, new.out>> \in Segment
      BY <1>8, <1>9 DEF Segment
    <3> QED
      BY <1>8, <1>9, <3>1
  <2>2. /\ new.in \in Int /\ new.out \in Int /\ new.same \in Int /\ new.last \in BOOLEAN
        /\ new.started \in BOOLEAN /\ new.maybe \in BOOLEAN
    BY <1>1, <1>3, <1>8, <1>9
  <2>3. new = [in |-> new.in, out |-> new.out, same |-> new.same, last |-> new.last,
               started |-> new.started, maybe |-> new.maybe, ids |-> new.ids]
    BY <1>4, <1>6
  <2> QED
    BY <2>1, <2>2, <2>3 DEF ScanStates
<1>12. ENOUGH_INTERVAL = 2
  BY DEF ENOUGH_INTERVAL
<1>13. st.maybe => ~st.last
  BY DEF ScanOK
<1>14. ~st.started => ~st.last /\ st.same > 2
  BY <1>12 DEF ScanOK
<1>15. ends => maybe /\ same > 2 /\ ~enters /\ ~leaves /\ st.maybe /\ ~occ
  <2>1. ends => maybe /\ same > 2
    <3>1. ~(i = Size - order)
      BY <1>9, <1>10, SizeAssumption DEF order
    <3> QED
      BY <1>5, <1>7, <1>12, <3>1
  <2>2. enters \/ leaves => same = 0
    BY <1>5
  <2>3. ends => ~enters /\ ~leaves
    BY <2>1, <2>2
  <2> QED
    BY <1>1, <1>2, <1>5, <1>13, <2>1, <2>3
\* A sample that opens no segment leaves none open only as it was.
<1>16. ~new.started => ~new.last /\ new.same > 2
  <2>1. CASE ends
    BY <1>8, <1>15, <2>1
  <2>2. CASE ~ends /\ ~opens /\ ~st.started
    <3>1. ~enters /\ ~leaves /\ ~occ
      BY <1>1, <1>2, <1>5, <1>12, <1>14, <2>2
    <3>2. same = Lesser(st.same + 1, 3)
      BY <1>5, <1>12, <3>1
    <3>3. same > 2
      BY <1>9, <1>14, <2>2, <3>2 DEF Lesser
    <3> QED
      BY <1>8, <3>1, <3>3
  <2> QED
    BY <1>2, <1>8, <2>1, <2>2
<1>17. new.maybe => ~new.last
  <2>1. maybe => ~occ
    BY <1>1, <1>2, <1>5, <1>13
  <2> QED
    BY <1>8, <2>1
<1>18. SegmentsOK(st.ids) /\ \A k \in 1 .. Len(st.ids) : st.ids[k][2] <= h
  BY DEF ScanOK
<1>19. \A k \in 1 .. Len(st.ids) : st.ids[k][2] \in Int
  BY <1>9, SegmentType
<1>24. \A k \in 1 .. Len(st.ids) : st.ids[k][2] <= i
  <2> TAKE k \in 1 .. Len(st.ids)
  <2>1. PICK e : e = st.ids[k][2]
    OBVIOUS
  <2>2. e \in Int /\ e <= h
    BY <1>18, <1>19, <2>1
  <2>3. e <= i
    BY <1>9, <1>10, <2>2
  <2> QED
    BY <2>1, <2>3
<1>20. opens \/ st.started =>
         /\ 0 <= new.in /\ new.in < i /\ \A k \in 1 .. Len(st.ids) : st.ids[k][2] <= new.in + 1
  <2>1. CASE opens
    <3>1. new.in = i - 1 /\ 0 <= i - 1
      BY <1>8, <1>9, <1>10, <2>1 DEF order
    <3>2. new.in + 1 = i
      BY <1>9, <3>1
    <3> QED
      BY <1>9, <1>24, <3>1, <3>2
  <2>2. CASE ~opens /\ st.started
    <3>1. /\ new.in = st.in /\ 0 <= st.in /\ st.in < h
          /\ \A k \in 1 .. Len(st.ids) : st.ids[k][2] <= st.in + 1
      BY <1>8, <2>2 DEF ScanOK
    <3> QED
      BY <1>9, <1>10, <3>1
  <2> QED
    BY <2>1, <2>2
<1>21. (opens \/ st.started) /\ maybe => new.in < new.out /\ new.out <= i
  <2> HAVE (opens \/ st.started) /\ maybe
  <2>1. ~opens /\ st.started
    BY <1>5
  <2>2. CASE leaves
    BY <1>8, <1>9, <1>20, <2>1, <2>2
  <2>3. CASE ~leaves
    <3>1. st.maybe
      BY <1>5, <2>3
    <3>2. st.in < st.out /\ st.out <= h /\ new.in = st.in /\ new.out = st.out
      BY <1>8, <2>1, <2>3, <3>1 DEF ScanOK
    <3> QED
      BY <1>9, <1>10, <3>2
  <2> QED
    BY <2>2, <2>3
<1>22. CASE (opens \/ st.started) /\ ends
  <2>1. /\ new.ids = Append(st.ids, <<new.in, new.out>>) /\ ~new.started /\ ~new.maybe
        /\ new.in \in Int /\ new.out \in Int
    BY <1>8, <1>11, <1>22 DEF ScanStates
  <2>2. /\ 0 <= new.in /\ new.in < new.out /\ new.out <= i /\ new.out < Size
        /\ \A k \in 1 .. Len(st.ids) : st.ids[k][2] <= new.in + 1
    <3>1. /\ 0 <= new.in /\ new.in < new.out /\ new.out <= i
          /\ \A k \in 1 .. Len(st.ids) : st.ids[k][2] <= new.in + 1
      BY <1>15, <1>20, <1>21, <1>22
    <3>2. new.out < Size
      <4>1. PICK o : o = new.out
        OBVIOUS
      <4>2. o < Size
        BY <1>9, <1>10, <2>1, <3>1, <4>1, SizeAssumption
      <4> QED
        BY <4>1, <4>2
    <3> QED
      BY <3>1, <3>2
  <2>3. SegmentsOK(new.ids)
    BY <1>18, <2>1, <2>2, SegmentAdded
  <2>4. ASSUME NEW k \in 1 .. Len(new.ids) PROVE new.ids[k][2] <= i
    <3>1. <<new.in, new.out>> \in Segment
      BY <2>1 DEF Segment
    <3>2. /\ Len(new.ids) = Len(st.ids) + 1 /\ new.ids[Len(st.ids) + 1] = <<new.in, new.out>>
          /\ \A l \in 1 .. Len(st.ids) : new.ids[l] = st.ids[l]
      BY <1>9, <2>1, <3>1, AppendProperties
    <3>3. Len(st.ids) \in Nat
      BY <1>9
    <3>4. k = Len(st.ids) + 1 \/ k \in 1 .. Len(st.ids)
      BY <3>2, <3>3
    <3>5. CASE k = Len(st.ids) + 1
      BY <2>2, <3>2, <3>5
    <3>6. CASE k \in 1 .. Len(st.ids)
      BY <1>24, <3>2, <3>6
    <3> QED
      BY <3>4, <3>5, <3>6
  <2> QED
    BY <1>6, <1>7, <1>11, <1>12, <1>16, <1>17, <2>1, <2>3, <2>4 DEF ScanOK
<1>23. CASE ~((opens \/ st.started) /\ ends)
  <2>1. new.ids = st.ids
    BY <1>8, <1>23
  <2>2. \A k \in 1 .. Len(new.ids) : new.ids[k][2] <= i
    BY <1>24, <2>1
  <2>3. new.started => opens \/ st.started
    BY <1>8
  <2>4. new.started /\ new.maybe => (opens \/ st.started) /\ maybe
    BY <1>8
  <2> QED
    BY <1>6, <1>7, <1>11, <1>12, <1>16, <1>17, <1>18, <1>20, <1>21, <2>1, <2>2, <2>3, <2>4
    DEF ScanOK
<1> QED
  BY <1>22, <1>23

LEMMA DivGrows ==
  ASSUME NEW n \in Nat, n > 0, NEW a \in Nat, NEW b \in Nat, a <= b
  PROVE  /\ a \div n \in Int /\ 0 <= a \div n /\ a \div n <= b \div n
         /\ a % n \in Int
<1>1. a \div n <= b \div n
  OBVIOUS
<1>2. a \div n \in Int /\ a % n \in Int
  OBVIOUS
<1>3. 0 <= a \div n
  OBVIOUS
<1> QED
  BY <1>1, <1>2, <1>3

LEMMA DivBelow ==
  ASSUME NEW n \in Nat, n > 0, NEW a \in Nat, NEW m \in Nat, a < n * m
  PROVE  a \div n < m
  OBVIOUS

\* Two thirds of the trajectory are scanned.
LEMMA LastScannedIs ==
  /\ LastScanned \in Int /\ order <= LastScanned /\ LastScanned < Size - order
  /\ ScanCount \in Nat /\ LastScanned - order + 1 \in Nat
<1> DEFINE t == (Size - 2 * order) \div 3
<1>1. Size \in Nat /\ Size >= 9 /\ Samples \in Nat /\ Samples > 0 /\ order = 3
  BY SizeAssumption, StepsAssumption DEF order
<1>2. t \in Int /\ 1 <= t /\ 3 * t <= Size - 6
  BY <1>1
<1>3. LastScanned = Size - 3 - t
  BY <1>1 DEF LastScanned
<1> HIDE DEF t
<1>4. /\ LastScanned \in Int /\ order <= LastScanned /\ LastScanned < Size - order
      /\ LastScanned - order + 1 \in Nat
  BY <1>1, <1>2, <1>3
<1>5. ScanCount \in Nat
  BY <1>1, <1>4 DEF ScanCount
<1> QED
  BY <1>4, <1>5

\* The samples are taken point by point.
LEMMA SampleIs ==
  ASSUME NEW k \in 1 .. ScanCount
  PROVE  /\ ScanSamples[k] \in [i : Int, s : Int]
         /\ order <= ScanSamples[k].i /\ ScanSamples[k].i <= LastScanned
         /\ k > 1 => ScanSamples[k - 1].i <= ScanSamples[k].i
<1>1. /\ Samples \in Nat /\ Samples > 0 /\ order = 3 /\ ScanCount \in Nat /\ LastScanned \in Int
      /\ LastScanned - order + 1 \in Nat
  BY LastScannedIs, StepsAssumption DEF order
<1>2. k - 1 \in Nat /\ k - 1 < ScanCount /\ k \in Nat
  BY <1>1
<1>3. ASSUME NEW l \in 1 .. ScanCount
      PROVE  ScanSamples[l] = [i |-> order + (l - 1) \div Samples, s |-> (l - 1) % Samples]
  BY DEF ScanSamples
<1>11. ASSUME NEW l \in 1 .. ScanCount, NEW d, d = (l - 1) \div Samples
       PROVE  ScanSamples[l].i = order + d
  <2>1. ScanSamples[l] = [i |-> order + d, s |-> (l - 1) % Samples]
    BY <1>3, <1>11, Zenon
  <2> QED
    BY <2>1
<1>4. PICK q : q = (k - 1) \div Samples
  OBVIOUS
<1>5. q \in Int /\ 0 <= q /\ (k - 1) % Samples \in Int
  BY <1>1, <1>2, <1>4, DivGrows
<1>6. q < LastScanned - order + 1
  <2>1. k - 1 < Samples * (LastScanned - order + 1)
    BY <1>2 DEF ScanCount
  <2> QED
    BY <1>1, <1>2, <1>4, <2>1, DivBelow
<1>7. ScanSamples[k].i = order + q
  BY <1>4, <1>11
<1>8. ScanSamples[k] \in [i : Int, s : Int]
  <2>1. order + q \in Int
    BY <1>1, <1>5
  <2>2. ScanSamples[k] = [i |-> order + q, s |-> (k - 1) % Samples]
    BY <1>3, <1>4, Zenon
  <2> QED
    BY <1>5, <2>1, <2>2
<1>9. order <= order + q /\ order + q <= LastScanned
  BY <1>1, <1>5, <1>6
<1>10. ASSUME k > 1 PROVE ScanSamples[k - 1].i <= ScanSamples[k].i
  <2>1. k - 1 \in 1 .. ScanCount /\ (k - 1) - 1 \in Nat /\ (k - 1) - 1 <= k - 1
    BY <1>1, <1>2, <1>10
  <2>2. PICK r : r = ((k - 1) - 1) \div Samples
    OBVIOUS
  <2>3. ScanSamples[k - 1].i = order + r
    BY <1>11, <2>1, <2>2
  <2>4. r \in Int /\ r <= q
    BY <1>1, <1>2, <1>4, <2>1, <2>2, DivGrows
  <2> QED
    BY <1>1, <1>5, <1>7, <2>3, <2>4
<1> QED
  BY <1>7, <1>8, <1>9, <1>10

\* The point of the sample the scan has taken last.
ScanAt == [k \in 0 .. ScanCount |-> IF k = 0 THEN order ELSE ScanSamples[k].i]

LEMMA ScansKeep ==
  /\ Scans[ScanCount] \in ScanStates
  /\ SegmentsOK(Scans[ScanCount].ids)
<1> DEFINE N == ScanCount
           step == [k \in 1 .. N |-> [st \in ScanStates |-> Scanned(st, ScanSamples[k])]]
           inv == [k \in 0 .. N |-> {st \in ScanStates : ScanOK(st, ScanAt[k])}]
           Unfolds(b) == b = [k \in 0 .. ScanCount |->
                                IF k = 0 THEN ScanStart ELSE Scanned(b[k - 1], ScanSamples[k])]
<1>1. N \in Nat /\ inv \in [0 .. N -> SUBSET ScanStates]
  BY LastScannedIs
<1>2. ScanStart \in inv[0]
  <2>1. ScanStart \in ScanStates
    <3>1. << >> \in Seq(Segment)
      OBVIOUS
    <3>2. -1 \in Int /\ ENOUGH_INTERVAL + 1 \in Int
      BY DEF ENOUGH_INTERVAL
    <3> QED
      BY <3>1, <3>2 DEF ScanStart, ScanStates
  <2>2. ScanOK(ScanStart, ScanAt[0])
    BY NoSegments DEF ScanStart, ScanOK, ENOUGH_INTERVAL
  <2> QED
    BY <1>1, <2>1, <2>2
<1>3. \A k \in 1 .. N : \A st \in inv[k - 1] :
        /\ step[k][st] = Scanned(st, ScanSamples[k]) /\ step[k][st] \in inv[k]
  <2> TAKE k \in 1 .. N
  <2> TAKE st \in inv[k - 1]
  <2>1. k \in 0 .. N /\ k - 1 \in 0 .. N /\ k # 0
    BY <1>1
  <2>2. st \in ScanStates /\ ScanOK(st, ScanAt[k - 1])
    BY <2>1
  <2>3. step[k][st] = Scanned(st, ScanSamples[k])
    BY <2>2
  <2>4. /\ ScanSamples[k] \in [i : Int, s : Int] /\ order <= ScanSamples[k].i
        /\ ScanSamples[k].i <= LastScanned
    BY SampleIs
  <2>5. ScanAt[k] = ScanSamples[k].i
    BY <2>1 DEF ScanAt
  <2>6. ScanAt[k - 1] \in Int /\ ScanAt[k - 1] <= ScanSamples[k].i
    <3>1. CASE k = 1
      <4>1. ScanAt[k - 1] = order
        BY <2>1, <3>1 DEF ScanAt
      <4> QED
        BY <2>4, <4>1 DEF order
    <3>2. CASE k > 1
      <4>1. k - 1 \in 1 .. N /\ k - 1 # 0
        BY <1>1, <3>2
      <4>2. ScanAt[k - 1] = ScanSamples[k - 1].i
        BY <2>1, <4>1 DEF ScanAt
      <4>3. ScanSamples[k - 1].i \in Int /\ ScanSamples[k - 1].i <= ScanSamples[k].i
        BY <3>2, <4>1, SampleIs
      <4> QED
        BY <4>2, <4>3
    <3> QED
      BY <1>1, <3>1, <3>2
  <2>7. /\ Scanned(st, ScanSamples[k]) \in ScanStates
        /\ ScanOK(Scanned(st, ScanSamples[k]), ScanSamples[k].i)
    <3> HIDE DEF N
    <3> QED
      BY <2>2, <2>4, <2>6, ScannedKeeps
  <2> QED
    BY <2>1, <2>3, <2>5, <2>7
<1>4. PICK f \in [0 .. N -> ScanStates] :
        /\ f = [k \in 0 .. N |-> IF k = 0 THEN ScanStart ELSE step[k][f[k - 1]]]
        /\ \A k \in 0 .. N : f[k] \in inv[k]
  <2> HIDE DEF N, inv, step
  <2>1. Keeps(ScanStates, ScanStart, step, inv, N)
    BY <1>1, <1>2, <1>3, RecursionKeeps
  <2> QED
    BY <2>1 DEF Keeps
<1>5. Unfolds(f)
  <2>1. \A k \in 0 .. N : k # 0 => step[k][f[k - 1]] = Scanned(f[k - 1], ScanSamples[k])
    <3> TAKE k \in 0 .. N
    <3> HAVE k # 0
    <3>1. k \in 1 .. N /\ k - 1 \in 0 .. N
      BY <1>1
    <3> HIDE DEF inv, step, N
    <3> QED
      BY <1>3, <1>4, <3>1
  <2> HIDE DEF inv, step
  <2>2. \A k \in 0 .. N : f[k] = IF k = 0 THEN ScanStart ELSE Scanned(f[k - 1], ScanSamples[k])
    BY <1>4, <2>1
  <2> QED
    BY <1>4, <2>2
<1>6. Scans = CHOOSE b : Unfolds(b)
  BY DEF Scans
<1> HIDE DEF step, inv
<1>7. Unfolds(Scans)
  <2> HIDE DEF Unfolds
  <2> QED
    BY <1>5, <1>6
<1>8. \A k \in 0 .. N : Scans[k] \in inv[k]
  <2>1. Scans[0] = ScanStart
    <3>1. 0 \in 0 .. ScanCount
      BY <1>1
    <3> QED
      BY <1>7, <3>1
  <2>2. ASSUME NEW k \in 1 .. N, Scans[k - 1] \in inv[k - 1] PROVE Scans[k] \in inv[k]
    <3>1. k \in 0 .. ScanCount /\ k # 0 /\ Scans[k - 1] \in ScanStates
      BY <1>1, <2>2 DEF inv
    <3>2. Scans[k] = Scanned(Scans[k - 1], ScanSamples[k])
      BY <1>7, <3>1
    <3> HIDE DEF N
    <3> QED
      BY <1>3, <2>2, <3>2
  <2> HIDE DEF N
  <2> QED
    BY <1>1, <1>2, <2>1, <2>2, StepByStep
<1> QED
  <2>1. ScanCount \in 0 .. N
    BY <1>1
  <2> QED
    BY <1>8, <2>1 DEF inv, ScanOK

LEMMA GreatestLeast ==
  ASSUME NEW S, S \subseteq Points, S # {}
  PROVE  /\ Greatest(S) \in S /\ \A j \in S : j <= Greatest(S)
         /\ Least(S) \in S /\ \A j \in S : Least(S) <= j
<1>1. S \subseteq Int /\ \A t \in S : 0 <= t /\ t <= Size
  BY SizeAssumption DEF Points
<1>2. 0 \in Int /\ Size \in Int
  BY SizeAssumption
<1>3. /\ \E x \in S : \A y \in S : x <= y
      /\ \E x \in S : \A y \in S : x >= y
  BY <1>1, <1>2, Extremes
<1>4. \E x \in S : \A y \in S : y <= x
  BY <1>1, <1>3
<1>5. Least(S) \in S /\ \A j \in S : Least(S) <= j
  BY <1>3 DEF Least
<1>6. Greatest(S) \in S /\ \A j \in S : j <= Greatest(S)
  BY <1>4 DEF Greatest
<1> QED
  BY <1>5, <1>6

\* The check of the rebound.
CheckStates == [next : Int, endless : BOOLEAN, ids : Seq(Segment)]

\* After a segment it goes on past its end, which is free.
CheckOK(st) ==
  /\ SegmentsOK(st.ids)
  /\ \A k \in 1 .. Len(st.ids) :
       st.ids[k][2] <= st.next - 2 /\ st.next - 2 \in Points /\ ~Occupied(Point(st.next - 2))

LEMMA CheckedKeeps ==
  ASSUME NEW st \in CheckStates, CheckOK(st), NEW i \in Points, 0 < i
  PROVE  Checked(st, i) \in CheckStates /\ CheckOK(Checked(st, i))
<1>1. i \in Int /\ i < Size /\ Size \in Nat
  BY SizeAssumption DEF Points
<1>2. CASE st.endless \/ i < st.next \/ ~NewCollision(i)
  BY <1>2 DEF Checked
<1>3. CASE ~(st.endless \/ i < st.next \/ ~NewCollision(i)) /\ FreeAfter(i) = {}
  <2>1. Checked(st, i) = [st EXCEPT !.endless = TRUE]
    BY <1>3 DEF Checked
  <2> QED
    BY <2>1 DEF CheckStates, CheckOK
<1>4. CASE ~(st.endless \/ i < st.next \/ ~NewCollision(i)) /\ FreeAfter(i) # {}
  <2>1. PICK in, out : /\ in = IF FreeBefore(i) = {} THEN 0 ELSE Greatest(FreeBefore(i))
                       /\ out = Least(FreeAfter(i))
    OBVIOUS
  <2>2. Checked(st, i) = [next |-> out + 2, endless |-> FALSE, ids |-> Append(st.ids, <<in, out>>)]
    BY <1>4, <2>1 DEF Checked
  <2>3. FreeBefore(i) \subseteq Points /\ FreeAfter(i) \subseteq Points
    BY DEF FreeBefore, FreeAfter
  <2>4. out \in FreeAfter(i)
    BY <1>4, <2>1, <2>3, GreatestLeast
  <2>5. out \in Int /\ i < out /\ out < Size /\ out \in Points /\ ~Occupied(Point(out))
    BY <1>1, <2>4 DEF FreeAfter, Points
  <2>6. in \in Int /\ 0 <= in /\ in < i /\ \A j \in FreeBefore(i) : j <= in
    <3>1. CASE FreeBefore(i) = {}
      BY <1>1, <2>1, <3>1
    <3>2. CASE FreeBefore(i) # {}
      <4>1. in \in FreeBefore(i) /\ \A j \in FreeBefore(i) : j <= in
        BY <2>1, <2>3, <3>2, GreatestLeast
      <4> QED
        BY <1>1, <4>1 DEF FreeBefore, Points
    <3> QED
      BY <3>1, <3>2
  <2>7. PICK ids : ids = st.ids
    OBVIOUS
  <2>8. SegmentsOK(ids) /\ ids \in Seq(Segment) /\ st.next \in Int
    BY <2>7 DEF CheckOK, CheckStates
  <2>9. ASSUME NEW k \in 1 .. Len(ids) PROVE ids[k][2] \in Int /\ ids[k][2] <= in
    <3>1. ids[k][2] \in Int
      BY <2>8, SegmentType
    <3>2. /\ ids[k][2] <= st.next - 2 /\ st.next - 2 \in Points
          /\ ~Occupied(Point(st.next - 2))
      BY <2>7 DEF CheckOK
    <3>3. st.next - 2 < i
      BY <1>1, <1>4, <2>8
    <3>4. st.next - 2 \in FreeBefore(i)
      BY <3>2, <3>3 DEF FreeBefore
    <3>5. st.next - 2 <= in
      BY <2>6, <3>4
    <3> QED
      BY <2>6, <2>8, <3>1, <3>2, <3>5
  <2>10. PICK more : more = Append(ids, <<in, out>>)
    OBVIOUS
  <2>11. \A k \in 1 .. Len(ids) : ids[k][2] <= in + 1
    BY <2>6, <2>9
  <2>12. SegmentsOK(more)
    BY <1>1, <2>5, <2>6, <2>8, <2>10, <2>11, SegmentAdded
  <2>13. ASSUME NEW k \in 1 .. Len(more) PROVE more[k][2] <= out
    <3>1. <<in, out>> \in Segment
      BY <2>5, <2>6 DEF Segment
    <3>2. /\ Len(more) = Len(ids) + 1 /\ more[Len(ids) + 1] = <<in, out>>
          /\ \A l \in 1 .. Len(ids) : more[l] = ids[l]
      BY <2>8, <2>10, <3>1, AppendProperties
    <3>3. Len(ids) \in Nat
      BY <2>8
    <3>4. k = Len(ids) + 1 \/ k \in 1 .. Len(ids)
      BY <3>2, <3>3
    <3>5. CASE k = Len(ids) + 1
      BY <2>5, <3>2, <3>5
    <3>6. CASE k \in 1 .. Len(ids)
      <4>1. more[k] = ids[k] /\ ids[k][2] \in Int /\ ids[k][2] <= in
        BY <2>9, <3>2, <3>6
      <4>2. ids[k][2] <= out
        <5>1. PICK e : e = ids[k][2]
          OBVIOUS
        <5>2. e \in Int /\ e <= in
          BY <4>1, <5>1
        <5>3. e <= out
          BY <1>1, <2>5, <2>6, <5>2
        <5> QED
          BY <5>1, <5>3
      <4> QED
        BY <4>1, <4>2
    <3> QED
      BY <3>4, <3>5, <3>6
  <2>14. (out + 2) - 2 = out /\ out + 2 \in Int
    BY <2>5
  <2>15. PICK new : new = Checked(st, i)
    OBVIOUS
  <2>16. new = [next |-> out + 2, endless |-> FALSE, ids |-> more]
    BY <2>2, <2>7, <2>10, <2>15
  <2>17. new.ids = more /\ new.next - 2 = out
    BY <2>14, <2>16
  <2>18. more \in Seq(Segment)
    BY <2>12 DEF SegmentsOK
  <2>19. new \in CheckStates
    BY <2>14, <2>16, <2>18 DEF CheckStates
  <2>20. CheckOK(new)
    BY <2>5, <2>12, <2>13, <2>17 DEF CheckOK
  <2> QED
    BY <2>15, <2>19, <2>20
<1> QED
  BY <1>2, <1>3, <1>4

LEMMA ChecksKeep == SegmentsOK(Checks[CheckCount].ids)
<1> DEFINE N == CheckCount
           OK == {st \in CheckStates : CheckOK(st)}
           step == [k \in 1 .. N |-> [st \in OK |-> Checked(st, order - 2 + k)]]
           Unfolds(b) == b = [k \in 0 .. CheckCount |->
                                IF k = 0 THEN CheckStart ELSE Checked(b[k - 1], order - 2 + k)]
<1>1. N \in Nat /\ \A k \in 1 .. N : order - 2 + k \in Points /\ 0 < order - 2 + k
  <2>1. LastChecked = LastScanned
    BY DEF LastChecked, LastScanned
  <2>2. /\ LastChecked \in Int /\ order <= LastChecked /\ LastChecked < Size - order /\ order = 3
        /\ Size \in Nat
    BY <2>1, LastScannedIs, SizeAssumption DEF order
  <2>3. N = LastChecked - order + 2
    BY DEF CheckCount
  <2> HIDE DEF N
  <2> QED
    BY <2>2, <2>3 DEF Points
<1>2. CheckStart \in OK
  <2>1. << >> \in Seq(Segment) /\ order - 1 \in Int
    BY DEF order
  <2> QED
    BY <2>1, NoSegments DEF CheckStart, CheckStates, CheckOK
<1>3. \A k \in 1 .. N : \A st \in OK :
        step[k][st] = Checked(st, order - 2 + k) /\ step[k][st] \in OK
  BY <1>1, CheckedKeeps
<1> HIDE DEF step, OK
<1>4. PICK f \in [0 .. N -> OK] : f = [k \in 0 .. N |-> IF k = 0 THEN CheckStart ELSE step[k][f[k - 1]]]
  <2>1. Recurs(OK, CheckStart, step, N)
    <3>1. step \in [1 .. N -> [OK -> OK]]
      <4>1. \A k \in 1 .. N : \A st \in OK : Checked(st, order - 2 + k) \in OK
        BY <1>3
      <4> HIDE DEF N
      <4> QED
        BY <4>1 DEF step
    <3> HIDE DEF N
    <3> QED
      BY <1>1, <1>2, <3>1, Recursion
  <2> QED
    BY <2>1 DEF Recurs
<1>5. Unfolds(f)
  <2>1. \A k \in 0 .. N : k # 0 => step[k][f[k - 1]] = Checked(f[k - 1], order - 2 + k)
    <3> TAKE k \in 0 .. N
    <3> HAVE k # 0
    <3>1. k \in 1 .. N /\ k - 1 \in 0 .. N
      BY <1>1
    <3> HIDE DEF N
    <3> QED
      BY <1>3, <1>4, <3>1
  <2>2. \A k \in 0 .. N : f[k] = IF k = 0 THEN CheckStart ELSE Checked(f[k - 1], order - 2 + k)
    BY <1>4, <2>1
  <2> QED
    BY <1>4, <2>2
<1>6. Checks = CHOOSE b : Unfolds(b)
  BY DEF Checks
<1>7. Unfolds(Checks)
  <2> HIDE DEF Unfolds
  <2> QED
    BY <1>5, <1>6
<1> DEFINE inv == [k \in 0 .. N |-> OK]
<1>8. \A k \in 0 .. N : Checks[k] \in inv[k]
  <2>1. Checks[0] = CheckStart /\ 0 \in 0 .. N
    <3>1. 0 \in 0 .. CheckCount
      BY <1>1
    <3> QED
      BY <1>7, <3>1
  <2>2. ASSUME NEW k \in 1 .. N, Checks[k - 1] \in inv[k - 1] PROVE Checks[k] \in inv[k]
    <3>1. k \in 0 .. CheckCount /\ k # 0 /\ Checks[k - 1] \in OK /\ k - 1 \in 0 .. N
      BY <1>1, <2>2
    <3>2. Checks[k] = Checked(Checks[k - 1], order - 2 + k)
      BY <1>7, <3>1
    <3> HIDE DEF N
    <3> QED
      BY <1>3, <3>1, <3>2
  <2>3. Checks[0] \in inv[0]
    BY <1>2, <2>1
  <2> HIDE DEF N, inv
  <2> QED
    BY <1>1, <2>2, <2>3, StepByStep
<1> QED
  <2>1. CheckCount \in 0 .. N
    BY <1>1
  <2> QED
    BY <1>8, <2>1 DEF OK, CheckOK

-----------------------------------------------------------------------------
(* Guide paths *)

Paths == Seq(Coordinates)

\* A guide path that begins no further than a step past the segment's first point
\* and ends at its last one or past it.
Leads(path, seg) ==
  /\ path \in Paths /\ path # << >>
  /\ path[1][1] <= Column(seg[1]) + 2
  /\ path[Len(path)][1] >= Column(seg[2])

LEMMA ColumnGrows ==
  ASSUME NEW j \in Int, NEW l \in Int, j < l
  PROVE  /\ Column(j) \in Int /\ Column(l) \in Int
         /\ Column(j) + 2 * Spacing <= Column(l)
<1>1. Spacing \in Nat
  BY StepsAssumption
<1>2. Column(j) = 2 * Spacing * j /\ Column(l) = 2 * Spacing * l
  BY DEF Column
<1>3. PICK n : n = 2 * Spacing
  OBVIOUS
<1>4. n \in Nat /\ n * j \in Int /\ n * l \in Int
  BY <1>1, <1>3
<1>5. n * (j + 1) <= n * l
  BY <1>4
<1>6. n * (j + 1) = n * j + n
  BY <1>4
<1> QED
  BY <1>2, <1>3, <1>4, <1>5, <1>6

\* From the middle of the path the walk goes to the end that lies beyond the column.
LEMMA WalkStays ==
  ASSUME Spacing >= 2, NEW seg \in Segment, NEW path, Leads(path, seg),
         NEW j \in seg[1] + 1 .. seg[2] - 1
  PROVE  Crossed(path, Column(j)) # {}
<1> DEFINE n == Len(path)
           mid == n \div 2 + 1
           c == Column(j)
           val(k) == path[k][1] - c
<1>1. seg[1] \in Int /\ seg[2] \in Int /\ j \in Int /\ seg[1] < j /\ j < seg[2]
  BY DEF Segment
<1>2. /\ c \in Int /\ Column(seg[1]) + 4 <= c /\ c + 4 <= Column(seg[2])
      /\ Column(seg[1]) \in Int /\ Column(seg[2]) \in Int
  <2>1. Spacing \in Nat
    BY StepsAssumption
  <2>2. PICK a, b : a = Column(seg[1]) /\ b = Column(seg[2])
    OBVIOUS
  <2>3. /\ a \in Int /\ b \in Int /\ c \in Int
        /\ a + 2 * Spacing <= c /\ c + 2 * Spacing <= b
    BY <1>1, <2>2, ColumnGrows
  <2> HIDE DEF c
  <2> QED
    BY <2>1, <2>2, <2>3
<1>3. n \in Nat /\ n >= 1 /\ path \in Seq(Coordinates)
  BY DEF Leads, Paths
<1>4. \A k \in 1 .. n : path[k][1] \in Int
  <2>1. \A k \in 1 .. n : path[k] \in Coordinates
    BY <1>3
  <2> QED
    BY <2>1 DEF Coordinates
<1>5. mid \in 1 .. n + 1 /\ (n > 1 => mid > 1) /\ (n = 1 => mid = 1) /\ mid \in 1 .. n
  <2> HIDE DEF n
  <2> QED
    BY <1>3
<1>6. val(1) < 0 /\ val(n) > 0 /\ val(1) \in Int /\ val(n) \in Int
  <2>1. 1 \in 1 .. n /\ n \in 1 .. n
    BY <1>3
  <2>2. PICK a, b, x, y : a = path[1][1] /\ b = path[n][1] /\ x = Column(seg[1]) /\ y = Column(seg[2])
    OBVIOUS
  <2>3. a \in Int /\ b \in Int /\ a <= x + 2 /\ b >= y
    BY <1>4, <2>1, <2>2 DEF Leads
  <2>4. val(1) = a - c /\ val(n) = b - c
    BY <2>2
  <2>5. PICK d : d = c
    OBVIOUS
  <2> HIDE DEF val, c, n
  <2>6. d \in Int /\ x + 4 <= d /\ d + 4 <= y /\ x \in Int /\ y \in Int
    BY <1>2, <2>2, <2>5
  <2>7. a - d < 0 /\ b - d > 0 /\ a - d \in Int /\ b - d \in Int
    BY <2>3, <2>6
  <2> QED
    BY <2>4, <2>5, <2>7
<1>7. val(mid) \in Int
  <2> HIDE DEF mid
  <2> QED
    BY <1>2, <1>4, <1>5
<1>8. Crossed(path, c) =
        {k \in IF val(mid) >= 0 THEN 1 .. mid - 1 ELSE mid + 1 .. n :
           val(k) * val(mid) <= 0 /\ (val(k) # 0 \/ val(mid) # 0)}
  BY DEF Crossed
<1> HIDE DEF val, mid, n
<1>9. CASE val(mid) >= 0
  <2>1. mid # 1
    BY <1>6, <1>7, <1>9
  <2>2. 1 \in 1 .. mid - 1
    BY <1>3, <1>5, <2>1
  <2>3. val(1) * val(mid) <= 0
    BY <1>6, <1>7, <1>9
  <2>4. 1 \in Crossed(path, c)
    BY <1>6, <1>8, <1>9, <2>2, <2>3
  <2> QED
    BY <2>4
<1>10. CASE val(mid) < 0
  <2>1. mid # n
    BY <1>6, <1>7, <1>10
  <2>2. n \in mid + 1 .. n
    BY <1>3, <1>5, <2>1
  <2>3. val(n) * val(mid) <= 0
    BY <1>6, <1>7, <1>10
  <2>4. ~(val(mid) >= 0)
    BY <1>7, <1>10
  <2>5. n \in Crossed(path, c)
    BY <1>6, <1>8, <2>2, <2>3, <2>4
  <2> QED
    BY <2>5
<1> QED
  BY <1>7, <1>9, <1>10

\* Where a search begins and ends, along the row of the points it is for.
LEMMA TruncatedIs ==
  ASSUME NEW h \in Int
  PROVE  Truncated(h) \in Int /\ h - 1 <= 2 * Truncated(h) /\ 2 * Truncated(h) <= h + 1
  BY DEF Truncated

\* The node of a point is at most a step from it.
NodeColumn(p, c) == Index2Coord(Coord2Index(p, c), c)[1]
LEMMA NodeColumnIs ==
  ASSUME NEW p \in Coordinates, NEW c \in Coordinates
  PROVE  NodeColumn(p, c) \in Int /\ p[1] <= NodeColumn(p, c) /\ NodeColumn(p, c) <= p[1] + 2
<1>1. p[1] \in Int /\ c[1] \in Int /\ CenterIdx[1] \in Int
  BY PoolAssumption DEF Coordinates, CenterIdx
<1>2. PICK a, b, m : a = p[1] /\ b = c[1] /\ m = CenterIdx[1]
  OBVIOUS
<1>3. PICK t : t = Truncated(a - b + 1)
  OBVIOUS
<1>4. a - b + 1 \in Int
  BY <1>1, <1>2
<1>5. t \in Int /\ (a - b + 1) - 1 <= 2 * t /\ 2 * t <= (a - b + 1) + 1
  BY <1>3, <1>4, TruncatedIs
<1>6. Coord2Index(p, c)[1] = t + m
  BY <1>2, <1>3 DEF Coord2Index
<1>7. NodeColumn(p, c) = 2 * ((t + m) - m) + b
  BY <1>2, <1>6 DEF NodeColumn, Index2Coord
<1> QED
  BY <1>1, <1>2, <1>5, <1>7

LEMMA EndsOfSearch ==
  ASSUME NEW p \in Coordinates, NEW q \in Coordinates, p[1] < q[1],
         AstarSearch(p, q), search' = "running"
  PROVE  /\ center' \in Coordinates
         /\ Index2Coord(startIdx', center')[1] <= p[1] + 2
         /\ Index2Coord(endIdx', center')[1] >= q[1]
<1> DEFINE c == Midpoint(p, q)
           s == Adjusted(p, q, c)
           e == Adjusted(q, s, c)
<1>1. center' = c /\ startIdx' = Coord2Index(s, c) /\ endIdx' = Coord2Index(e, c)
  BY DEF AstarSearch
<1>2. p[1] \in Int /\ q[1] \in Int /\ p # q
  BY DEF Coordinates
<1>3. c \in Coordinates
  BY MidpointType
<1> HIDE DEF c
<1>4. PICK k \in Nat : s = Pushed(p, q, k)
  BY <1>2, <1>3, AdjustedIs
<1>5. s \in Coordinates /\ s # q
  BY <1>2, <1>3, AdjustedIs
<1>6. s[1] = p[1] - 2 * k /\ s[1] \in Int
  <2>1. 1 \in 1 .. 2
    OBVIOUS
  <2> HIDE DEF s
  <2> QED
    BY <1>4, <1>5, <2>1, PushedIs DEF Coordinates
<1>7. s[1] <= p[1] /\ q[1] > s[1]
  <2> HIDE DEF s
  <2> QED
    BY <1>2, <1>6
<1> HIDE DEF s
<1>8. e \in Coordinates /\ \E l \in Nat : e = Pushed(q, s, l)
  BY <1>3, <1>5, AdjustedIs
<1> HIDE DEF e
<1>9. PICK l \in Nat : e = Pushed(q, s, l)
  BY <1>8
<1>10. e[1] = q[1] + 2 * l /\ e[1] \in Int
  <2>1. 1 \in 1 .. 2
    OBVIOUS
  <2> QED
    BY <1>5, <1>7, <1>8, <1>9, <2>1, PushedIs DEF Coordinates
<1>11. Index2Coord(startIdx', center')[1] = NodeColumn(s, c)
  BY <1>1 DEF NodeColumn
<1>12. Index2Coord(endIdx', center')[1] = NodeColumn(e, c)
  BY <1>1 DEF NodeColumn
<1>13. NodeColumn(s, c) \in Int /\ NodeColumn(s, c) <= s[1] + 2
  BY <1>3, <1>5, NodeColumnIs
<1>14. NodeColumn(e, c) \in Int /\ e[1] <= NodeColumn(e, c)
  BY <1>3, <1>8, NodeColumnIs
<1>15. Index2Coord(startIdx', center')[1] <= p[1] + 2
  BY <1>2, <1>6, <1>7, <1>11, <1>13
<1>16. Index2Coord(endIdx', center')[1] >= q[1]
  BY <1>2, <1>10, <1>12, <1>14
<1> QED
  BY <1>1, <1>3, <1>15, <1>16

-----------------------------------------------------------------------------
(* The optimiser's steps *)

\* Each guide path leads along its segment, and so will the one being searched.
GuideOK ==
  /\ row \in Int
  /\ SegmentsOK(segments)
  /\ paths \in Seq(Paths) /\ Len(paths) <= Len(segments)
  /\ \A k \in 1 .. Len(paths) : Leads(paths[k], segments[k])
  /\ search # "idle" => pc = "guide" /\ Len(paths) < Len(segments)
SearchLeads ==
  /\ search \in {"running", "found"} =>
       /\ center \in Coordinates
       /\ Index2Coord(startIdx, center)[1] <= Column(segments[Len(paths) + 1][1]) + 2
       /\ Index2Coord(endIdx, center)[1] >= Column(segments[Len(paths) + 1][2])
  /\ search = "found" => gridPath \in Seq(Pool) /\ gridPath # << >>
CpsIInv == SearchIInv /\ GuideOK /\ SearchLeads

LEMMA PathLeads ==
  ASSUME CpsIInv, search = "found"
  PROVE  Leads(Path, segments[Len(paths) + 1])
<1> DEFINE n == Len(gridPath)
<1>1. /\ gridPath \in Seq(Pool) /\ gridPath # << >> /\ center \in Coordinates
      /\ gridPath[1] = endIdx /\ gridPath[n] = startIdx
  BY DEF CpsIInv, SearchLeads, SearchIInv, PathIsSound
<1>2. n \in Nat /\ n >= 1
  BY <1>1
<1>3. ASSUME NEW i \in Pool PROVE Index2Coord(i, center) \in Coordinates
  <2>1. PoolX \in Nat /\ PoolY \in Nat
    BY PoolAssumption
  <2>2. \A d \in 1 .. 2 : i[d] \in Int /\ CenterIdx[d] \in Int /\ center[d] \in Int
    <3>1. i[1] \in Int /\ i[2] \in Int
      BY <2>1 DEF Pool
    <3>2. CenterIdx[1] \in Int /\ CenterIdx[2] \in Int
      BY <2>1 DEF CenterIdx
    <3> QED
      BY <1>1, <3>1, <3>2 DEF Coordinates
  <2>3. \A d \in 1 .. 2 : 2 * (i[d] - CenterIdx[d]) + center[d] \in Int
    <3> TAKE d \in 1 .. 2
    <3>1. PICK x, y, z : x = i[d] /\ y = CenterIdx[d] /\ z = center[d]
      OBVIOUS
    <3> QED
      BY <2>2, <3>1
  <2> QED
    BY <2>3 DEF Index2Coord, Coordinates
<1>4. Path = [k \in 1 .. n |-> Index2Coord(gridPath[n + 1 - k], center)]
  BY DEF Path
<1> HIDE DEF n
<1>5. \A k \in 1 .. n : n + 1 - k \in 1 .. n
  BY <1>2
<1>6. Path \in Seq(Coordinates) /\ Len(Path) = n
  <2>1. \A k \in 1 .. n : gridPath[n + 1 - k] \in Pool
    BY <1>1, <1>5 DEF n
  <2>2. \A k \in 1 .. n : Index2Coord(gridPath[n + 1 - k], center) \in Coordinates
    BY <1>3, <2>1
  <2> QED
    BY <1>2, <1>4, <2>2
<1>7. Path[1] = Index2Coord(startIdx, center) /\ Path[n] = Index2Coord(endIdx, center)
  <2>1. 1 \in 1 .. n /\ n \in 1 .. n /\ n + 1 - 1 = n /\ n + 1 - n = 1
    BY <1>2
  <2> QED
    BY <1>1, <1>4, <2>1
<1>8. Path # << >>
  BY <1>2, <1>6
<1> QED
  BY <1>6, <1>7, <1>8 DEF Leads, Paths, CpsIInv, SearchLeads

LEMMA CpsInitIInv == ASSUME CpsInit PROVE CpsIInv
<1>1. SearchIInv
  BY SearchInitIInv DEF CpsInit
<1>2. search = "idle" /\ row = 0 /\ segments = << >> /\ paths = << >>
  BY DEF CpsInit, AStarInit
<1>3. << >> \in Seq(Paths) /\ Len(<< >>) = 0
  OBVIOUS
<1>4. GuideOK
  BY <1>2, <1>3, NoSegments DEF GuideOK
<1> QED
  BY <1>1, <1>2, <1>4 DEF CpsIInv, SearchLeads

\* A step of the search stays within it.
LEMMA SearchStepLeads ==
  ASSUME CpsIInv, SearchStep, segments' = segments, paths' = paths
  PROVE  SearchLeads' /\ search = "running"
<1>1. search = "running" /\ UNCHANGED <<center, startIdx, endIdx>>
  BY DEF SearchStep, Reach, Expand, Exhaust
<1>2. ASSUME search' = "found" PROVE gridPath' \in Seq(Pool) /\ gridPath' # << >>
  <2>1. PICK current \in Tops : Reach(current)
    BY <1>1, <1>2 DEF SearchStep, Expand, Exhaust
  <2>2. current \in openSet
    BY <2>1 DEF Tops
  <2>3. /\ AStarTypeOK /\ StartsHere /\ Links /\ current \in Pool /\ Reached(current)
        /\ gridPath' = PathFrom(current)
    BY <1>1, <2>1, <2>2
       DEF CpsIInv, SearchIInv, SearchInv, Links, AStarTypeOK, Frontier, Reach
  <2> QED
    BY <2>3, PathFromIs
<1> QED
  BY <1>1, <1>2 DEF CpsIInv, SearchLeads

\* Guide calls it for two points that differ.
LEMMA GuideIsCall ==
  ASSUME CpsIInv, Guide
  PROVE  /\ Call /\ SearchLeads'
<1> DEFINE seg == segments[Len(paths) + 1]
           p == Point(seg[1])
           q == Point(seg[2])
<1>1. AstarSearch(p, q) /\ search = "idle" /\ Len(paths) < Len(segments) /\ UNCHANGED cpsVars
  BY DEF Guide
<1>2. Len(paths) + 1 \in 1 .. Len(segments)
  <2>1. Len(paths) \in Nat /\ Len(segments) \in Nat
    BY DEF CpsIInv, GuideOK, SegmentsOK
  <2> QED
    BY <1>1, <2>1
<1>3. seg[1] \in Int /\ seg[2] \in Int /\ seg[1] < seg[2]
  <2>1. SegmentsOK(segments)
    BY DEF CpsIInv, GuideOK
  <2> QED
    BY <1>2, <2>1, SegmentType DEF SegmentsOK
<1> HIDE DEF seg
<1>4. Column(seg[1]) \in Int /\ Column(seg[2]) \in Int /\ Column(seg[1]) < Column(seg[2])
  <2>1. Spacing \in Nat /\ Spacing > 0
    BY StepsAssumption
  <2>2. PICK a, b : a = Column(seg[1]) /\ b = Column(seg[2])
    OBVIOUS
  <2>3. a \in Int /\ b \in Int /\ a + 2 * Spacing <= b
    BY <1>3, <2>2, ColumnGrows
  <2>4. a < b
    BY <2>1, <2>3
  <2> QED
    BY <2>2, <2>3, <2>4
<1>5. p \in Coordinates /\ q \in Coordinates /\ p[1] = Column(seg[1]) /\ q[1] = Column(seg[2])
  <2>1. \A j \in Int : 2 * RowOf(j) \in Int
    BY DEF RowOf, CpsIInv, GuideOK
  <2>2. /\ p = <<Column(seg[1]), 2 * RowOf(seg[1])>>
        /\ q = <<Column(seg[2]), 2 * RowOf(seg[2])>>
    BY DEF Point
  <2> QED
    BY <1>3, <1>4, <2>1, <2>2 DEF Coordinates
<1> HIDE DEF p, q
<1>6. p[1] < q[1] /\ p # q
  BY <1>4, <1>5
<1>7. Call
  BY <1>1, <1>5, <1>6 DEF Call
<1>8. search' \in {"running", "no_endpoint"}
  BY <1>1 DEF AstarSearch
<1>9. segments' = segments /\ paths' = paths
  BY <1>1 DEF cpsVars
<1>10. search' = "running" =>
         /\ center' \in Coordinates
         /\ Index2Coord(startIdx', center')[1] <= Column(seg[1]) + 2
         /\ Index2Coord(endIdx', center')[1] >= Column(seg[2])
  BY <1>1, <1>5, <1>6, EndsOfSearch
<1>11. SearchLeads'
  <2>1. segments'[Len(paths') + 1] = seg /\ \A j : Column(j)' = Column(j)
    BY <1>9 DEF seg, Column
  <2>2. Index2Coord(startIdx, center)' = Index2Coord(startIdx', center')
    BY DEF Index2Coord, CenterIdx
  <2>3. Index2Coord(endIdx, center)' = Index2Coord(endIdx', center')
    BY DEF Index2Coord, CenterIdx
  <2> QED
    BY <1>8, <1>9, <1>10 DEF SearchLeads, seg
<1> QED
  BY <1>7, <1>11

\* To the search the optimiser is a caller that never speaks out of turn.
LEMMA CpsStepIsAStar == ASSUME CpsIInv, [CpsNext]_controlVars PROVE [AStarNext]_astarVars
<1>1. CASE Guide
  BY <1>1, GuideIsCall DEF AStarNext
<1>2. CASE Searching
  BY <1>2 DEF Searching, AStarNext
<1>3. CASE TakePath \/ LosePath
  <2>1. Answer
    BY <1>3 DEF TakePath, LosePath, Answer, Returned
  <2> QED
    BY <2>1 DEF AStarNext
<1>4. CASE ~(Guide \/ Searching \/ TakePath \/ LosePath)
  BY <1>4 DEF CpsNext, controlVars, Scan, LeaveRow, Assign, Vary, Choose, Solve, Judge
<1> QED
  BY <1>1, <1>2, <1>3, <1>4

LEMMA CpsStepIInv == CpsIInv /\ [CpsNext]_controlVars => CpsIInv'
<1> SUFFICES ASSUME CpsIInv, [CpsNext]_controlVars PROVE CpsIInv'
  OBVIOUS
<1>1. SearchIInv /\ GuideOK /\ SearchLeads /\ SegmentsOK(segments)
  BY DEF CpsIInv, GuideOK
<1>2. SearchIInv'
  BY <1>1, CpsStepIsAStar, SearchStepIInv
<1>3. CASE Scan
  <2>1. search = "idle"
    BY <1>1, <1>3 DEF Scan, GuideOK
  <2>2. UNCHANGED astarVars /\ paths' = << >> /\ row' = row
    BY <1>3 DEF Scan
  <2>3. SegmentsOK(segments')
    BY <1>3, ScansKeep, ChecksKeep, NoSegments DEF Scan
  <2>4. << >> \in Seq(Paths) /\ Len(<< >>) = 0 /\ Len(segments') \in Nat
    BY <2>3 DEF SegmentsOK
  <2>5. GuideOK'
    <3>1. \A k \in 1 .. Len(paths') : Leads(paths'[k], segments'[k])
      BY <2>2, <2>4
    <3> QED
      BY <1>1, <2>1, <2>2, <2>3, <2>4, <3>1 DEF GuideOK, astarVars
  <2>6. SearchLeads'
    BY <2>1, <2>2 DEF SearchLeads, astarVars
  <2> QED
    BY <1>2, <2>5, <2>6 DEF CpsIInv
<1>4. CASE Guide
  <2>1. SearchLeads'
    BY <1>4, GuideIsCall
  <2>2. GuideOK'
    BY <1>1, <1>4 DEF Guide, GuideOK, cpsVars
  <2> QED
    BY <1>2, <2>1, <2>2 DEF CpsIInv
<1>5. CASE Searching
  <2>1. SearchStep /\ UNCHANGED cpsVars /\ pc = "guide"
    BY <1>5 DEF Searching
  <2>2. SearchLeads' /\ search = "running"
    BY <2>1, SearchStepLeads DEF cpsVars
  <2>3. GuideOK'
    BY <1>1, <2>1, <2>2 DEF GuideOK, cpsVars
  <2> QED
    BY <1>2, <2>2, <2>3 DEF CpsIInv
<1>6. CASE TakePath
  <2>1. /\ search = "found" /\ search' = "idle" /\ segments' = segments
        /\ paths' = Append(paths, Path) /\ row' = row
    BY <1>6 DEF TakePath
  <2>3. Leads(Path, segments[Len(paths) + 1])
    BY <2>1, PathLeads
  <2>4. paths \in Seq(Paths) /\ Len(paths) < Len(segments)
    BY <1>1, <2>1 DEF GuideOK
  <2>5. Path \in Paths
    BY <2>3 DEF Leads
  <2>6. /\ paths' \in Seq(Paths) /\ Len(paths') = Len(paths) + 1
        /\ paths'[Len(paths) + 1] = Path /\ \A k \in 1 .. Len(paths) : paths'[k] = paths[k]
    BY <2>1, <2>4, <2>5, AppendProperties
  <2>7. Len(paths) \in Nat /\ Len(segments) \in Nat
    BY <1>1, <2>4 DEF SegmentsOK
  <2>8. ASSUME NEW k \in 1 .. Len(paths') PROVE Leads(paths'[k], segments[k])
    <3>1. k = Len(paths) + 1 \/ k \in 1 .. Len(paths)
      BY <2>6, <2>7
    <3> QED
      BY <1>1, <2>3, <2>6, <3>1 DEF GuideOK
  <2>9. Len(paths') <= Len(segments)
    BY <2>4, <2>6, <2>7
  <2>10. GuideOK'
    <3>1. \A k \in 1 .. Len(paths') : Leads(paths[k], segments[k])'
      BY <2>1, <2>8 DEF Leads, Column
    <3> QED
      BY <1>1, <2>1, <2>6, <2>9, <3>1 DEF GuideOK, SegmentsOK
  <2>11. SearchLeads'
    BY <2>1 DEF SearchLeads
  <2> QED
    BY <1>2, <2>10, <2>11 DEF CpsIInv
<1>7. CASE LosePath
  <2>1. search # "idle" /\ search' = "idle" /\ row' = row
    BY <1>7 DEF LosePath, Returned
  <2>3. SearchLeads'
    BY <2>1 DEF SearchLeads
  <2>4. Len(paths) < Len(segments) /\ paths \in Seq(Paths) /\ Len(paths) \in Nat
    BY <1>1, <2>1 DEF GuideOK
  <2>5. CASE job = "rebound"
    <3>1. segments' = Erased(segments, Len(paths) + 1) /\ paths' = paths
      BY <1>7, <2>5 DEF LosePath
    <3>2. segments \in Seq(Segment)
      BY <1>1 DEF SegmentsOK
    <3>3. SegmentsOK(segments')
      BY <1>1, <2>4, <3>1, SegmentErased
    <3>4. /\ Len(segments') = Len(segments) - 1
          /\ \A k \in 1 .. Len(paths) : segments'[k] = segments[k]
      BY <2>4, <3>1, <3>2, ErasedIs
    <3>5. Len(paths') <= Len(segments')
      BY <2>4, <3>1, <3>2, <3>4
    <3>6. \A k \in 1 .. Len(paths') : Leads(paths'[k], segments'[k])
      BY <1>1, <3>1, <3>4 DEF GuideOK
    <3>7. GuideOK'
      BY <1>1, <2>1, <3>1, <3>3, <3>5, <3>6 DEF GuideOK
    <3> QED
      BY <1>2, <2>3, <3>7 DEF CpsIInv
  <2>6. CASE job # "rebound"
    <3>1. segments' = << >> /\ paths' = << >>
      BY <1>7, <2>6 DEF LosePath
    <3>2. << >> \in Seq(Paths) /\ Len(<< >>) = 0
      OBVIOUS
    <3>3. GuideOK'
      <4>1. \A k \in 1 .. Len(paths') : Leads(paths'[k], segments'[k])
        BY <3>1, <3>2
      <4> QED
        BY <1>1, <2>1, <3>1, <3>2, <4>1, NoSegments DEF GuideOK
    <3> QED
      BY <1>2, <2>3, <3>3 DEF CpsIInv
  <2> QED
    BY <2>5, <2>6
\* The steps that leave the segments and their paths alone.
<1>8. ASSUME UNCHANGED <<astarVars, segments, paths>>, row' \in Int, search = "idle" \/ pc' = pc
      PROVE  CpsIInv'
  <2>1. search' = search /\ SearchLeads'
    BY <1>1, <1>8 DEF SearchLeads, astarVars
  <2>2. GuideOK'
    BY <1>1, <1>8, <2>1 DEF GuideOK
  <2> QED
    BY <1>2, <2>1, <2>2 DEF CpsIInv
<1>9. pc # "guide" => search = "idle"
  BY <1>1 DEF GuideOK
<1>10. row \in Int
  BY <1>1 DEF GuideOK
<1>11. CASE Assign \/ LeaveRow
  BY <1>8, <1>10, <1>11 DEF Assign, LeaveRow
<1>12. CASE Vary \/ Choose \/ Judge
  <2>1. UNCHANGED <<astarVars, segments, paths>> /\ row' = row /\ pc # "guide"
    BY <1>12 DEF Vary, Choose, Judge
  <2> QED
    BY <1>8, <1>9, <1>10, <2>1
<1>13. CASE Solve
  <2>1. UNCHANGED <<astarVars, segments, paths>> /\ row' \in Int /\ pc # "guide"
    BY <1>13, RowsAssumption DEF Solve
  <2> QED
    BY <1>8, <1>9, <2>1
<1>14. CASE UNCHANGED controlVars
  <2>1. UNCHANGED <<astarVars, segments, paths>> /\ row' = row /\ pc' = pc
    BY <1>14 DEF controlVars, cpsVars
  <2> QED
    BY <1>8, <1>10, <2>1
<1> QED
  BY <1>3, <1>4, <1>5, <1>6, <1>7, <1>11, <1>12, <1>13, <1>14 DEF CpsNext

\* The optimiser's inductive invariant: the search is sound and its caller in turn,
\* segments are in order and each path found leads along its own.
THEOREM ControlInvariance == CpsSpec => []CpsIInv
<1>1. CpsInit => CpsIInv
  BY CpsInitIInv
<1>2. CpsIInv /\ [CpsNext]_controlVars => CpsIInv'
  BY CpsStepIInv
<1> QED
  BY <1>1, <1>2, PTL DEF CpsSpec

\* The optimiser uses the search as the search expects: one call at a time, for two
\* points that differ, and it takes each answer before the next one.  What is proved
\* of AStarSpec holds of every search it asks for.
THEOREM OptimiserCallsAStar == CpsSpec => AStarSpec
<1>1. CpsInit => AStarInit
  BY DEF CpsInit
<1>2. CpsIInv /\ [CpsNext]_controlVars => [AStarNext]_astarVars
  BY CpsStepIsAStar
<1> QED
  BY <1>1, <1>2, ControlInvariance, PTL DEF CpsSpec, AStarSpec

\* Every search initControlPoints and check_collision_and_rebound ask for answers
\* rightly, whatever the ones before it left in the nodes.
THEOREM GuidedSearchSound == CpsSpec => []SearchIsSound
<1> QED
  BY OptimiserCallsAStar, SearchSound, PTL

\* For every size, spacing and sampling, every world and every move of the solver: the
\* pieces initControlPoints and check_collision_and_rebound push lie in the trajectory,
\* in order and apart.
THEOREM PiecesInOrder == CpsSpec => []SegmentsInOrder
<1>1. CpsIInv => SegmentsInOrder
  BY SplitInOrder DEF CpsIInv, GuideOK, SegmentsInOrder
<1> QED
  BY <1>1, ControlInvariance, PTL

\* Between columns a walk finds its crossing.
WalksStayOnPath ==
  \A k \in 1 .. Len(paths) : \A j \in segments[k][1] + 1 .. segments[k][2] - 1 :
    Crossed(paths[k], Column(j)) # {}

LEMMA WalksStay == ASSUME Spacing >= 2, CpsIInv PROVE WalksStayOnPath
<1> SUFFICES ASSUME NEW k \in 1 .. Len(paths),
                    NEW j \in segments[k][1] + 1 .. segments[k][2] - 1
             PROVE  Crossed(paths[k], Column(j)) # {}
  BY DEF WalksStayOnPath
<1>1. segments[k] \in Segment /\ Leads(paths[k], segments[k])
  <2>1. /\ segments \in Seq(Segment) /\ paths \in Seq(Paths) /\ Len(paths) <= Len(segments)
        /\ Leads(paths[k], segments[k])
    BY DEF CpsIInv, GuideOK, SegmentsOK
  <2>2. k \in 1 .. Len(segments)
    BY <2>1
  <2> QED
    BY <2>1, <2>2
<1> QED
  BY <1>1, WalkStays

-----------------------------------------------------------------------------
(* Where guide paths cross *)

Push == [row : Int, dir : {-1, 1}]
Bases == [Points -> Seq(Push)]

Even(x) == x % 2 = 0

\* With control points an even number of cells apart a guide path steps from column to
\* column of the points, over free cells.
StepsBy(path, k) == /\ path[k + 1][1] <= path[k][1] + 2
                    /\ path[k + 1][1] >= path[k][1] - 2
Smooth(path) ==
  /\ path \in Seq(Coordinates)
  /\ \A k \in 1 .. Len(path) : Even(path[k][1]) /\ ~Occupied(path[k])
  /\ \A k \in 1 .. Len(path) - 1 : StepsBy(path, k)

LEMMA ExtremesAre ==
  ASSUME NEW S, S \subseteq Int, S # {}, NEW L \in Int, NEW U \in Int,
         \A j \in S : L <= j /\ j <= U
  PROVE  /\ Greatest(S) \in S /\ \A j \in S : j <= Greatest(S)
         /\ Least(S) \in S /\ \A j \in S : Least(S) <= j
<1>1. /\ \E x \in S : \A y \in S : x <= y
      /\ \E x \in S : \A y \in S : x >= y
  BY Extremes
<1>2. \E x \in S : \A y \in S : y <= x
  BY <1>1
<1>3. Least(S) \in S /\ \A j \in S : Least(S) <= j
  BY <1>1 DEF Least
<1>4. Greatest(S) \in S /\ \A j \in S : j <= Greatest(S)
  BY <1>2 DEF Greatest
<1> QED
  BY <1>3, <1>4

\* A point's cell is occupied or not by its row's cell.
LEMMA SameCell ==
  ASSUME NEW p \in Coordinates, NEW c \in Int, p[1] = c
  PROVE  /\ p[2] \div 2 \in Int
         /\ Occupied(<<c, 2 * (p[2] \div 2)>>) <=> Occupied(p)
<1>1. p[2] \in Int
  BY DEF Coordinates
<1>2. PICK y : y = p[2]
  OBVIOUS
<1>3. y \div 2 \in Int /\ (2 * (y \div 2)) \div 2 = y \div 2
  BY <1>1, <1>2
<1> QED
  BY <1>2, <1>3 DEF Occupied

\* Signs of integers: a product that is not positive.
LEMMA SignsDiffer ==
  ASSUME NEW x \in Int, NEW y \in Int
  PROVE  /\ x > 0 => (y * x <= 0 <=> y <= 0)
         /\ x < 0 => (y * x <= 0 <=> y >= 0)
         /\ x = 0 => y * x <= 0
  OBVIOUS

LEMMA EvenStep ==
  ASSUME NEW x \in Int, NEW y \in Int, NEW c \in Int, Even(x), Even(y), Even(c)
  PROVE  /\ x <= c /\ c < y /\ y <= x + 2 => x = c
         /\ x >= c /\ c > y /\ y >= x - 2 => x = c
  BY DEF Even

\* The walk ends at a node of the column, which is free.
LEMMA CrossingIs ==
  ASSUME NEW path, Smooth(path), NEW c \in Int, Even(c), Crossed(path, c) # {}
  PROVE  Crossing(path, c) \in Int /\ ~Occupied(<<c, 2 * Crossing(path, c)>>)
<1> DEFINE n == Len(path)
           mid == n \div 2 + 1
           val(k) == path[k][1] - c
           back == path[mid][1] >= c
           at == IF back THEN Greatest(Crossed(path, c)) ELSE Least(Crossed(path, c))
           before == IF back THEN at + 1 ELSE at - 1
           e == IF path[at][1] = c THEN at ELSE before
<1>1. n \in Nat /\ path \in Seq(Coordinates)
  BY DEF Smooth
<1>2. \A k \in 1 .. n : path[k] \in Coordinates /\ path[k][1] \in Int /\ Even(path[k][1])
  BY <1>1 DEF Coordinates, Smooth
<1>3. Crossed(path, c) =
        {k \in IF val(mid) >= 0 THEN 1 .. mid - 1 ELSE mid + 1 .. n :
           val(k) * val(mid) <= 0 /\ (val(k) # 0 \/ val(mid) # 0)}
  BY DEF Crossed
<1>4. mid \in Nat /\ mid >= 1 /\ mid <= n + 1 /\ (n >= 1 => mid <= n) /\ (n = 0 => mid = 1)
  <2> HIDE DEF n
  <2> QED
    BY <1>1
<1>5. n >= 1 /\ mid \in 1 .. n
  <2>1. n = 0 => (1 .. mid - 1) = {} /\ (mid + 1 .. n) = {}
    BY <1>4
  <2> HIDE DEF val, mid, n
  <2>2. n # 0
    BY <1>3, <2>1
  <2> QED
    BY <1>1, <1>4, <2>2
<1>6. Crossing(path, c) = path[e][2] \div 2
  BY DEF Crossing
<1>7. \A k \in 1 .. n : val(k) \in Int
  BY <1>2
<1>8. back <=> val(mid) >= 0
  <2>1. path[mid][1] \in Int
    BY <1>2, <1>5
  <2> QED
    BY <2>1
<1>9. /\ Crossed(path, c) \subseteq 1 .. n
      /\ back => Crossed(path, c) \subseteq 1 .. mid - 1
      /\ ~back => Crossed(path, c) \subseteq mid + 1 .. n
  <2> HIDE DEF val, mid, n, back
  <2> QED
    BY <1>1, <1>3, <1>5, <1>8
<1>10. /\ Greatest(Crossed(path, c)) \in Crossed(path, c)
       /\ \A k \in Crossed(path, c) : k <= Greatest(Crossed(path, c))
       /\ Least(Crossed(path, c)) \in Crossed(path, c)
       /\ \A k \in Crossed(path, c) : Least(Crossed(path, c)) <= k
  <2>1. Crossed(path, c) \subseteq Int /\ \A k \in Crossed(path, c) : 1 <= k /\ k <= n
    BY <1>1, <1>9
  <2>2. 1 \in Int /\ n \in Int
    BY <1>1
  <2> HIDE DEF n
  <2> QED
    BY <2>1, <2>2, ExtremesAre
<1>11. at \in Crossed(path, c)
  BY <1>10
<1>12. \A k \in 1 .. n - 1 : /\ path[k + 1][1] <= path[k][1] + 2
                             /\ path[k + 1][1] >= path[k][1] - 2
  BY DEF Smooth, StepsBy
<1>13. e \in 1 .. n /\ path[e][1] = c
  <2>1. CASE back
    <3>1. at = Greatest(Crossed(path, c)) /\ before = at + 1
      BY <2>1
    <3>2. at \in 1 .. mid - 1 /\ val(mid) >= 0 /\ val(at) * val(mid) <= 0
      BY <1>3, <1>8, <1>9, <1>11, <2>1
    <3>3. \A k \in Crossed(path, c) : k <= at
      BY <1>10, <3>1
    <3> HIDE DEF at
    <3>4. at \in 1 .. n - 1 /\ at + 1 \in 1 .. mid /\ at + 1 \in 1 .. n /\ at \in 1 .. n
      <4> HIDE DEF mid, n
      <4> QED
        BY <1>1, <1>5, <3>2
    <3>5. at + 1 = mid \/ at + 1 \in 1 .. mid - 1
      <4> HIDE DEF mid
      <4> QED
        BY <1>4, <3>4
    <3>6. at + 1 \in 1 .. mid - 1 => ~(val(at + 1) * val(mid) <= 0 /\ (val(at + 1) # 0 \/ val(mid) # 0))
      <4>1. ~(at + 1 <= at)
        BY <3>4
      <4>2. at + 1 \notin Crossed(path, c)
        BY <3>3, <4>1
      <4> HIDE DEF val
      <4> QED
        BY <1>3, <1>8, <2>1, <4>2
    <3>7. val(mid) \in Int /\ val(at) \in Int /\ val(at + 1) \in Int
      BY <1>5, <1>7, <3>4
    <3>8. CASE val(mid) = 0
      <4>1. val(at + 1) = 0
        <5>1. CASE at + 1 = mid
          BY <3>8, <5>1
        <5>2. CASE at + 1 \in 1 .. mid - 1
          <6> HIDE DEF val
          <6>1. val(at + 1) * val(mid) <= 0
            BY <3>7, <3>8, SignsDiffer
          <6> QED
            BY <3>6, <5>2, <6>1
        <5> QED
          BY <3>5, <5>1, <5>2
      <4>2. path[at + 1][1] = c
        <5>1. path[at + 1][1] \in Int
          BY <1>2, <3>4
        <5> QED
          BY <4>1, <5>1
      <4> QED
        BY <2>1, <3>4, <4>2
    <3>9. CASE val(mid) # 0
      <4>1. val(mid) > 0
        BY <3>2, <3>7, <3>9
      <4>2. val(at) <= 0 /\ val(at + 1) > 0
        <5> HIDE DEF val, mid
        <5>1. val(at) <= 0
          BY <3>2, <3>7, <4>1, SignsDiffer
        <5>2. at + 1 \in 1 .. mid - 1 => ~(val(at + 1) <= 0)
          BY <3>6, <3>7, <3>9, <4>1, SignsDiffer
        <5> QED
          BY <3>5, <3>7, <4>1, <5>1, <5>2
      <4>3. path[at][1] = c
        <5>1. PICK x, y : x = path[at][1] /\ y = path[at + 1][1]
          OBVIOUS
        <5>2. x \in Int /\ y \in Int /\ Even(x) /\ Even(y) /\ y <= x + 2
          BY <1>2, <1>12, <3>4, <5>1
        <5>3. x <= c /\ c < y
          BY <4>2, <5>1, <5>2
        <5> QED
          BY <5>1, <5>2, <5>3, EvenStep
      <4> QED
        BY <3>4, <4>3
    <3> QED
      BY <3>8, <3>9
  <2>2. CASE ~back
    <3>1. at = Least(Crossed(path, c)) /\ before = at - 1
      BY <2>2
    <3>2. at \in mid + 1 .. n /\ ~(val(mid) >= 0) /\ val(at) * val(mid) <= 0
      BY <1>3, <1>8, <1>9, <1>11, <2>2
    <3>3. \A k \in Crossed(path, c) : at <= k
      BY <1>10, <3>1
    <3> HIDE DEF at
    <3>4. /\ at \in 1 .. n /\ at - 1 \in 1 .. n - 1 /\ at - 1 \in 1 .. n /\ (at - 1) + 1 = at
          /\ at - 1 = mid \/ at - 1 \in mid + 1 .. n
      <4> HIDE DEF mid, n
      <4> QED
        BY <1>1, <1>5, <3>2
    <3>5. val(mid) \in Int /\ val(at) \in Int /\ val(at - 1) \in Int /\ val(mid) < 0
      <4>1. val(mid) \in Int
        BY <1>5, <1>7
      <4> HIDE DEF val
      <4> QED
        BY <1>7, <3>2, <3>4, <4>1
    <3>6. val(at) >= 0 /\ val(at - 1) < 0
      <4>1. at - 1 \in mid + 1 .. n => ~(val(at - 1) * val(mid) <= 0)
        <5>1. ~(at <= at - 1)
          BY <3>4
        <5>2. at - 1 \notin Crossed(path, c)
          BY <3>3, <5>1
        <5> HIDE DEF val
        <5> QED
          BY <1>3, <3>2, <3>5, <5>2
      <4> HIDE DEF val, mid
      <4>2. val(at) >= 0
        BY <3>2, <3>5, SignsDiffer
      <4>3. at - 1 \in mid + 1 .. n => ~(val(at - 1) >= 0)
        BY <3>5, <4>1, SignsDiffer
      <4> QED
        BY <3>4, <3>5, <4>2, <4>3
    <3>7. path[at][1] = c
      <4>1. PICK x, y : x = path[at][1] /\ y = path[at - 1][1]
        OBVIOUS
      <4>2. x \in Int /\ y \in Int /\ Even(x) /\ Even(y) /\ x <= y + 2
        BY <1>2, <1>12, <3>4, <4>1
      <4>3. x >= c /\ c > y /\ y >= x - 2
        BY <3>6, <4>1, <4>2
      <4> QED
        BY <4>1, <4>2, <4>3, EvenStep
    <3> QED
      BY <3>4, <3>7
  <2> QED
    BY <2>1, <2>2
<1> HIDE DEF e
<1>14. path[e] \in Coordinates /\ ~Occupied(path[e])
  BY <1>2, <1>13 DEF Smooth
<1> QED
  BY <1>6, <1>13, <1>14, SameCell

-----------------------------------------------------------------------------
(* What a push does *)

\* A push takes its point out of the collisions it was made for: the point is not past
\* the base yet.
Clears(j, p) == ~((RowOf(j) - p.row) * p.dir >= 1)
FromFree(j, p) == Occupied(Point(j)) => ~Occupied(<<Column(j), 2 * p.row>>)
OwnPush(j, p) == p \in Push /\ Clears(j, p) /\ FromFree(j, p)

LEMMA RowType == ASSUME row \in Int, NEW j \in Int PROVE RowOf(j) \in Int
  BY DEF RowOf

LEMMA BaseIs ==
  ASSUME row \in Int, NEW j \in Points, NEW r \in Int, r # RowOf(j),
         ~Occupied(<<Column(j), 2 * r>>)
  PROVE  OwnPush(j, BaseTowards(j, r))
<1> DEFINE q == RowOf(j)
           dir == IF r > q THEN 1 ELSE -1
           N == Abs(r - q)
           Hit(a) == Occupied(<<Column(j), 2 * (q + dir * a)>>)
           hits == {a \in 0 .. N : Hit(a)}
           out == IF hits = {} THEN 0 ELSE Greatest(hits) + 1
           p == BaseTowards(j, r)
<1>1. q \in Int
  BY RowType DEF Points
<1>2. p = [row |-> q + dir * out, dir |-> dir]
  BY DEF BaseTowards
<1>3. dir \in {-1, 1} /\ dir \in Int /\ N \in Nat /\ q + dir * N = r
  <2> HIDE DEF q
  <2>1. CASE r > q
    BY <1>1, <2>1 DEF Abs
  <2>2. CASE ~(r > q)
    BY <1>1, <2>2 DEF Abs
  <2> QED
    BY <2>1, <2>2
<1>4. ~Hit(N)
  BY <1>3
<1>5. hits \subseteq 0 .. N
  OBVIOUS
<1>6. hits # {} => Greatest(hits) \in hits /\ \A a \in hits : a <= Greatest(hits)
  <2>1. hits \subseteq Int /\ \A a \in hits : 0 <= a /\ a <= N
    BY <1>3
  <2>2. 0 \in Int /\ N \in Int
    BY <1>3
  <2> HIDE DEF hits, N
  <2> QED
    BY <2>1, <2>2, ExtremesAre
<1>7. Point(j) = <<Column(j), 2 * q>>
  BY DEF Point
<1>8. out \in 0 .. N /\ (hits # {} => ~Hit(out))
  <2>1. CASE hits = {}
    <3>1. out = 0
      BY <2>1
    <3> QED
      BY <1>3, <2>1, <3>1
  <2>2. CASE hits # {}
    <3>1. Greatest(hits) \in 0 .. N /\ Hit(Greatest(hits))
      BY <1>6, <2>2
    <3>2. Greatest(hits) # N
      BY <1>4, <3>1
    <3>3. out = Greatest(hits) + 1
      BY <2>2
    <3> HIDE DEF out, hits, N
    <3>4. out \in 0 .. N /\ ~(out <= Greatest(hits))
      BY <1>3, <3>1, <3>2, <3>3
    <3>5. out \notin hits
      BY <1>6, <2>2, <3>4
    <3> QED
      BY <3>4, <3>5 DEF hits
  <2> QED
    BY <2>1, <2>2
<1>9. Hit(0) => hits # {}
  BY <1>3
<1>10. Hit(0) <=> Occupied(Point(j))
  <2>1. q + dir * 0 = q
    BY <1>1, <1>3
  <2> QED
    BY <1>7, <2>1
<1>11. p \in Push
  <2> HIDE DEF q, out, N
  <2>1. q + dir * out \in Int
    BY <1>1, <1>3, <1>8
  <2> QED
    BY <1>2, <1>3, <2>1 DEF Push
<1>12. Clears(j, p)
  <2> HIDE DEF q, out, N
  <2>1. out \in Int /\ out >= 0
    BY <1>3, <1>8
  <2>2. p.row = q + dir * out /\ p.dir = dir
    BY <1>2
  <2>3. ~((q - p.row) * p.dir >= 1)
    <3> HIDE DEF dir
    <3>1. CASE dir = 1
      BY <1>1, <2>1, <2>2, <3>1
    <3>2. CASE dir = -1
      BY <1>1, <2>1, <2>2, <3>2
    <3> QED
      BY <1>3, <3>1, <3>2
  <2> QED
    BY <2>3 DEF Clears, q
<1>13. FromFree(j, p)
  <2>1. p.row = q + dir * out
    BY <1>2
  <2>2. Occupied(Point(j)) => ~Hit(out)
    BY <1>8, <1>9, <1>10
  <2> HIDE DEF q, out, N, dir
  <2> QED
    BY <2>1, <2>2 DEF FromFree
<1> QED
  BY <1>11, <1>12, <1>13 DEF OwnPush

-----------------------------------------------------------------------------
(* What one segment gives its points *)

Pushing == [base : Bases, flag : SUBSET Points, got : Int]

Pushed1(b, new, j) == \E p \in Push : new[j] = Append(b[j], p)
PushedOwn(b, new, j) == \E p : OwnPush(j, p) /\ new[j] = Append(b[j], p)

\* After the points lo .. hi with a crossing of their own.
OnlyOwn(b, base1, flag) ==
  \A j \in Points : IF j \in flag THEN PushedOwn(b, base1, j) ELSE base1[j] = b[j]
Within(flag, lo, hi) == \A j \in flag : lo <= j /\ j <= hi
AllColliding(flag, lo, hi) ==
  \A j \in Points : lo <= j /\ j <= hi /\ Occupied(Point(j)) => j \in flag
LastColliding(got, lo, hi) == (lo <= hi /\ hi \in Points /\ Occupied(Point(hi))) => got = hi
OwnBy(b, lo, hi, st) ==
  /\ st \in Pushing
  /\ Within(st.flag, lo, hi)
  /\ st.got = -1 \/ st.got \in st.flag
  /\ OnlyOwn(b, st.base, st.flag)
  /\ AllColliding(st.flag, lo, hi)
  /\ LastColliding(st.got, lo, hi)

LEMMA AppendPush ==
  ASSUME NEW s \in Seq(Push), NEW p \in Push
  PROVE  Append(s, p) \in Seq(Push) /\ Append(s, p)[Len(Append(s, p))] = p
         /\ Len(Append(s, p)) = Len(s) + 1 /\ \A k \in 1 .. Len(s) : Append(s, p)[k] = s[k]
  BY AppendProperties

LEMMA ColumnEven == ASSUME Even(Spacing), NEW j \in Int PROVE Column(j) \in Int /\ Even(Column(j))
<1>1. Spacing \in Nat
  BY StepsAssumption
<1>2. PICK m : m = Spacing * j
  OBVIOUS
<1>3. m \in Int
  BY <1>1, <1>2
<1>4. Column(j) = 2 * m
  BY <1>1, <1>2 DEF Column
<1> QED
  BY <1>3, <1>4 DEF Even

LEMMA PushedAtIs ==
  ASSUME row \in Int, Even(Spacing), NEW path, Smooth(path), NEW b \in Bases,
         NEW lo \in Int, NEW j \in Points, lo <= j,
         Crossed(path, Column(j)) # {}, NEW st, OwnBy(b, lo, j - 1, st)
  PROVE  OwnBy(b, lo, j, PushedAt(st, j, path))
<1> DEFINE r == Crossing(path, Column(j))
<1>0. PICK new : new = PushedAt(st, j, path)
  OBVIOUS
<1>1. r \in Int /\ ~Occupied(<<Column(j), 2 * r>>) /\ j \in Int
  BY ColumnEven, CrossingIs DEF Points
<1>2. st \in Pushing /\ j \notin st.flag
  BY <1>1 DEF OwnBy, Within
<1>3. Point(j) = <<Column(j), 2 * RowOf(j)>>
  BY DEF Point
<1> HIDE DEF r
<1>4. CASE r = RowOf(j)
  <2>1. new = [st EXCEPT !.got = -1]
    BY <1>0, <1>4 DEF PushedAt, r
  <2>2. ~Occupied(Point(j))
    BY <1>1, <1>3, <1>4
  <2>3. new.base = st.base /\ new.flag = st.flag /\ new.got = -1 /\ new \in Pushing
    BY <1>2, <2>1 DEF Pushing
  <2>4. \A i \in Points : lo <= i /\ i <= j /\ Occupied(Point(i)) => i \in new.flag
    <3> TAKE i \in Points
    <3> HAVE lo <= i /\ i <= j /\ Occupied(Point(i))
    <3>1. i # j /\ i \in Int
      BY <2>2 DEF Points
    <3>2. i <= j - 1
      BY <1>1, <3>1
    <3> QED
      BY <2>3, <3>2 DEF OwnBy, AllColliding
  <2>5. \A i \in new.flag : lo <= i /\ i <= j
    <3> TAKE i \in new.flag
    <3>1. i \in st.flag /\ i \in Points
      BY <2>3, <1>2 DEF Pushing
    <3>2. lo <= i /\ i <= j - 1 /\ i \in Int
      BY <3>1 DEF OwnBy, Within, Points
    <3> QED
      BY <1>1, <3>2
  <2>6. Within(new.flag, lo, j) /\ AllColliding(new.flag, lo, j) /\ LastColliding(new.got, lo, j)
    BY <2>2, <2>4, <2>5 DEF Within, AllColliding, LastColliding
  <2>7. OnlyOwn(b, new.base, new.flag)
    BY <2>3 DEF OwnBy
  <2> QED
    BY <1>0, <2>3, <2>6, <2>7 DEF OwnBy
<1>5. CASE r # RowOf(j)
  <2>1. PICK p : p = BaseTowards(j, r)
    OBVIOUS
  <2>2. OwnPush(j, p) /\ p \in Push
    BY <1>1, <1>5, <2>1, BaseIs DEF OwnPush
  <2>3. new = [base |-> [st.base EXCEPT ![j] = Append(@, p)],
               flag |-> st.flag \cup {j}, got |-> j]
    BY <1>0, <1>5, <2>1 DEF PushedAt, r
  <2>4. st.base \in Bases /\ st.flag \subseteq Points
    BY <1>2 DEF Pushing
  <2>5. st.base[j] \in Seq(Push) /\ st.base[j] = b[j]
    BY <1>2, <2>4 DEF Bases, OwnBy, OnlyOwn
  <2>6. Append(st.base[j], p) \in Seq(Push)
    BY <2>2, <2>5
  <2>7. new.flag = st.flag \cup {j} /\ new.got = j /\ new.base = [st.base EXCEPT ![j] = Append(@, p)]
    BY <2>3
  <2>8. new.base \in Bases /\ new.base[j] = Append(b[j], p)
        /\ \A i \in Points : i # j => new.base[i] = st.base[i]
    BY <2>4, <2>5, <2>6, <2>7 DEF Bases
  <2>9. new \in Pushing
    BY <1>1, <2>3, <2>4, <2>7, <2>8 DEF Pushing
  <2>10. \A i \in new.flag : lo <= i /\ i <= j
    <3> TAKE i \in new.flag
    <3>1. i = j \/ (i \in st.flag /\ i \in Points)
      BY <2>7, <2>4
    <3>2. i \in st.flag => lo <= i /\ i <= j - 1
      BY DEF OwnBy, Within
    <3>3. i \in Int
      BY <1>1, <3>1 DEF Points
    <3> QED
      BY <1>1, <3>1, <3>2, <3>3
  <2>11. \A i \in Points : IF i \in new.flag THEN PushedOwn(b, new.base, i) ELSE new.base[i] = b[i]
    <3> TAKE i \in Points
    <3>1. CASE i = j
      BY <2>2, <2>7, <2>8, <3>1 DEF PushedOwn
    <3>2. CASE i # j
      <4>1. new.base[i] = st.base[i] /\ (i \in new.flag <=> i \in st.flag)
        BY <2>7, <2>8, <3>2
      <4>2. IF i \in st.flag THEN PushedOwn(b, st.base, i) ELSE st.base[i] = b[i]
        BY DEF OwnBy, OnlyOwn
      <4> QED
        BY <4>1, <4>2 DEF PushedOwn
    <3> QED
      BY <3>1, <3>2
  <2>12. \A i \in Points : lo <= i /\ i <= j /\ Occupied(Point(i)) => i \in new.flag
    <3> TAKE i \in Points
    <3> HAVE lo <= i /\ i <= j /\ Occupied(Point(i))
    <3>1. CASE i = j
      BY <2>7, <3>1
    <3>2. CASE i # j
      <4>1. i \in Int
        BY DEF Points
      <4>2. i <= j - 1
        BY <1>1, <3>2, <4>1
      <4> QED
        BY <2>7, <4>2 DEF OwnBy, AllColliding
    <3> QED
      BY <3>1, <3>2
  <2>13. Within(new.flag, lo, j) /\ AllColliding(new.flag, lo, j) /\ LastColliding(new.got, lo, j)
    BY <2>7, <2>10, <2>12 DEF Within, AllColliding, LastColliding
  <2>14. OnlyOwn(b, new.base, new.flag)
    BY <2>11 DEF OnlyOwn
  <2>15. new.got \in new.flag
    BY <2>7
  <2> QED
    BY <1>0, <2>9, <2>13, <2>14, <2>15 DEF OwnBy
<1> QED
  BY <1>4, <1>5

Unpushed(b) == [base |-> b, flag |-> {}, got |-> -1]

LEMMA NoneYet ==
  ASSUME NEW b \in Bases, NEW lo \in Int, NEW hi \in Int, hi < lo
  PROVE  OwnBy(b, lo, hi, Unpushed(b))
<1>1. PICK st : st = Unpushed(b)
  OBVIOUS
<1>2. st.base = b /\ st.flag = {} /\ st.got = -1 /\ st \in Pushing
  BY <1>1 DEF Unpushed, Pushing
<1>3. AllColliding({}, lo, hi)
  BY DEF AllColliding, Points
<1>4. OnlyOwn(b, b, {}) /\ Within({}, lo, hi) /\ LastColliding(-1, lo, hi)
  BY DEF OnlyOwn, Within, LastColliding
<1> QED
  BY <1>1, <1>2, <1>3, <1>4 DEF OwnBy

\* The walk over a segment's inner points.
LEMMA PushInnerIs ==
  ASSUME row \in Int, Even(Spacing), NEW path, Smooth(path), NEW b \in Bases,
         NEW seg \in Segment, 0 <= seg[1], seg[2] < Size,
         \A j \in seg[1] + 1 .. seg[2] - 1 : Crossed(path, Column(j)) # {}
  PROVE  OwnBy(b, seg[1] + 1, seg[2] - 1, PushInner(Unpushed(b), seg, path))
<1>1. PICK s1, s2 : s1 = seg[1] /\ s2 = seg[2]
  OBVIOUS
<1>2. s1 \in Int /\ s2 \in Int /\ 0 <= s1 /\ s2 < Size /\ Size \in Nat
  BY <1>1, SizeAssumption DEF Segment
<1>3. PICK start : start = Unpushed(b)
  OBVIOUS
<1> DEFINE Unfolds(a) == a = [j \in seg[1] .. seg[2] - 1 |->
                                IF j = seg[1] THEN start ELSE PushedAt(a[j - 1], j, path)]
           after == CHOOSE a : Unfolds(a)
<1>4. PushInner(start, seg, path) = IF s1 < s2 THEN after[s2 - 1] ELSE start
  BY <1>1 DEF PushInner
<1>5. CASE ~(s1 < s2)
  <2>1. s2 - 1 < s1 + 1 /\ s2 - 1 \in Int /\ s1 + 1 \in Int
    BY <1>2, <1>5
  <2> QED
    BY <1>1, <1>3, <1>4, <1>5, <2>1, NoneYet
<1>6. CASE s1 < s2
  <2> DEFINE N == s2 - 1 - s1
             inv == [k \in 0 .. N |-> {st \in Pushing : OwnBy(b, s1 + 1, s1 + k, st)}]
             step == [k \in 1 .. N |-> [st \in Pushing |-> PushedAt(st, s1 + k, path)]]
  <2>1. N \in Nat /\ \A k \in 1 .. N : s1 + k \in Points /\ s1 + k \in s1 + 1 .. s2 - 1
    BY <1>2, <1>6 DEF Points
  <2>2. ASSUME NEW k \in 1 .. N, NEW st \in inv[k - 1]
        PROVE  PushedAt(st, s1 + k, path) \in inv[k] /\ step[k][st] = PushedAt(st, s1 + k, path)
    <3>1. k - 1 \in 0 .. N /\ k \in 0 .. N
      BY <2>1
    <3>2. st \in Pushing /\ OwnBy(b, s1 + 1, s1 + (k - 1), st)
      BY <3>1
    <3>3. s1 + (k - 1) = (s1 + k) - 1 /\ s1 + 1 <= s1 + k /\ s1 + 1 \in Int /\ s1 + k \in Points
      BY <1>2, <2>1
    <3>4. Crossed(path, Column(s1 + k)) # {}
      BY <1>1, <2>1
    <3>5. OwnBy(b, s1 + 1, s1 + k, PushedAt(st, s1 + k, path))
      <4>1. PICK j : j = s1 + k
        OBVIOUS
      <4>2. PICK lo : lo = s1 + 1
        OBVIOUS
      <4>3. j \in Points /\ lo \in Int /\ lo <= j /\ Crossed(path, Column(j)) # {}
            /\ OwnBy(b, lo, j - 1, st)
        BY <3>2, <3>3, <3>4, <4>1, <4>2
      <4>4. OwnBy(b, lo, j, PushedAt(st, j, path))
        BY <4>3, PushedAtIs
      <4> QED
        BY <4>1, <4>2, <4>4
    <3>6. PushedAt(st, s1 + k, path) \in Pushing
      BY <3>5 DEF OwnBy
    <3> QED
      BY <3>1, <3>2, <3>5, <3>6
  <2>3. start \in inv[0]
    <3>1. s1 + 0 < s1 + 1 /\ s1 + 0 \in Int /\ s1 + 1 \in Int /\ 0 \in 0 .. N
      BY <1>2, <2>1
    <3>2. OwnBy(b, s1 + 1, s1 + 0, start)
      BY <1>3, <3>1, NoneYet
    <3>3. start \in Pushing
      BY <3>2 DEF OwnBy
    <3> QED
      BY <3>1, <3>2, <3>3
  <2>4. inv \in [0 .. N -> SUBSET Pushing]
    OBVIOUS
  <2>5. Keeps(Pushing, start, step, inv, N)
    <3>1. \A k \in 1 .. N : \A st \in inv[k - 1] : step[k][st] \in inv[k]
      BY <2>2
    <3> HIDE DEF N, inv, step
    <3> QED
      BY <2>1, <2>3, <2>4, <3>1, RecursionKeeps
  <2>6. PICK f \in [0 .. N -> Pushing] :
          /\ f = [k \in 0 .. N |-> IF k = 0 THEN start ELSE step[k][f[k - 1]]]
          /\ \A k \in 0 .. N : f[k] \in inv[k]
    BY <2>5 DEF Keeps
  <2>7. f[0] = start /\ \A k \in 1 .. N : f[k] = PushedAt(f[k - 1], s1 + k, path)
    <3>1. \A k \in 1 .. N : k \in 0 .. N /\ k # 0 /\ k - 1 \in 0 .. N
      BY <2>1
    <3>2. 0 \in 0 .. N
      BY <2>1
    <3> HIDE DEF N, inv, step
    <3>3. \A k \in 1 .. N : f[k] = step[k][f[k - 1]]
      BY <2>6, <3>1
    <3> QED
      BY <2>2, <2>6, <3>1, <3>2, <3>3
  <2> DEFINE g == [j \in seg[1] .. seg[2] - 1 |-> f[j - s1]]
  <2>8. Unfolds(g)
    <3>1. ASSUME NEW j \in seg[1] .. seg[2] - 1, j # seg[1]
          PROVE  g[j] = PushedAt(g[j - 1], j, path)
      <4>1. j - s1 \in 1 .. N /\ s1 + (j - s1) = j /\ j - 1 \in seg[1] .. seg[2] - 1
            /\ (j - 1) - s1 = (j - s1) - 1
        <5>1. j \in Int /\ s1 <= j /\ j <= s2 - 1 /\ j # s1
          BY <1>1, <1>2, <3>1
        <5> HIDE DEF g, Unfolds, step, inv
        <5>2. j - s1 \in 1 .. s2 - 1 - s1 /\ s1 + (j - s1) = j /\ j - 1 \in s1 .. s2 - 1
              /\ (j - 1) - s1 = (j - s1) - 1
          <6> HIDE DEF N
          <6> QED
            BY <1>2, <5>1
        <5> QED
          BY <1>1, <5>2
      <4> HIDE DEF N
      <4> QED
        BY <2>7, <4>1
    <3>2. seg[1] \in seg[1] .. seg[2] - 1 => g[seg[1]] = start
      <4>1. s1 - s1 = 0
        BY <1>2
      <4> QED
        BY <1>1, <2>7, <4>1
    <3>3. \A j \in seg[1] .. seg[2] - 1 :
            g[j] = IF j = seg[1] THEN start ELSE PushedAt(g[j - 1], j, path)
      <4> HIDE DEF g
      <4> QED
        BY <3>1, <3>2
    <3>4. g = [j \in seg[1] .. seg[2] - 1 |-> g[j]]
      OBVIOUS
    <3> HIDE DEF g
    <3> QED
      BY <3>3, <3>4
  <2>9. Unfolds(after)
    <3> HIDE DEF Unfolds, g
    <3> QED
      BY <2>8
  <2> HIDE DEF after
  <2> DEFINE sh == [k \in 0 .. N |-> after[s1 + k]]
  <2>10. sh[0] = start /\ \A k \in 1 .. N : sh[k] = PushedAt(sh[k - 1], s1 + k, path)
    <3>1. 0 \in 0 .. N /\ s1 + 0 = s1 /\ s1 \in s1 .. s2 - 1
      BY <1>2, <1>6, <2>1
    <3>2. sh[0] = start
      BY <1>1, <2>9, <3>1
    <3>3. ASSUME NEW k \in 1 .. N PROVE sh[k] = PushedAt(sh[k - 1], s1 + k, path)
      <4>1. k \in 0 .. N /\ k - 1 \in 0 .. N /\ s1 + k \in s1 .. s2 - 1 /\ s1 + k # s1
            /\ (s1 + k) - 1 = s1 + (k - 1)
        BY <1>2, <2>1
      <4>2. after[s1 + k] = PushedAt(after[(s1 + k) - 1], s1 + k, path)
        BY <1>1, <2>9, <4>1
      <4> HIDE DEF N
      <4> QED
        BY <4>1, <4>2
    <3> QED
      BY <3>2, <3>3
  <2>11. \A k \in 0 .. N : sh[k] \in inv[k]
    <3>1. \A k \in 1 .. N : sh[k - 1] \in inv[k - 1] => sh[k] \in inv[k]
      <4> HIDE DEF inv, sh, N, step
      <4> QED
        BY <2>2, <2>10
    <3>2. sh[0] \in inv[0]
      <4> HIDE DEF inv, sh, N, step
      <4> QED
        BY <2>3, <2>10
    <3> HIDE DEF inv, sh, N
    <3> QED
      BY <2>1, <3>1, <3>2, StepByStep
  <2>12. N \in 0 .. N /\ s1 + N = s2 - 1
    BY <1>2, <2>1
  <2>13. sh[N] = after[s2 - 1]
    <3> HIDE DEF N
    <3> QED
      BY <2>12
  <2>14. OwnBy(b, s1 + 1, s1 + N, sh[N])
    <3>1. sh[N] \in inv[N]
      <4> HIDE DEF inv, sh, N
      <4> QED
        BY <2>11, <2>12
    <3> HIDE DEF sh, N
    <3> QED
      BY <2>12, <3>1
  <2> HIDE DEF sh, N, inv
  <2> QED
    BY <1>1, <1>3, <1>4, <1>6, <2>12, <2>13, <2>14
<1> QED
  BY <1>2, <1>5, <1>6

\* What a segment may push itself, and what it may push at all: in initControlPoints one
\* between neighbours pushes its first point.
Inside(seg, j) == seg[1] < j /\ j < seg[2]
Short(seg) == job # "rebound" /\ seg[2] = seg[1] + 1
Pushes(seg, j) == Inside(seg, j) \/ (Short(seg) /\ j = seg[1])
Touches(seg, kept, j) == Pushes(seg, j) \/ (kept[1] <= j /\ j <= kept[2])

OnlyPushed(b, base1, flag) ==
  \A j \in Points : IF j \in flag THEN Pushed1(b, base1, j) ELSE base1[j] = b[j]
InsideOwn(b, base1, seg) ==
  \A j \in Points : Inside(seg, j) /\ Occupied(Point(j)) => PushedOwn(b, base1, j)
\* Before the pushes are spread.
SegmentOwn(b, seg, st) ==
  /\ st \in Pushing
  /\ \A j \in st.flag : Pushes(seg, j)
  /\ st.got = -1 \/ st.got \in st.flag
  /\ OnlyPushed(b, st.base, st.flag)
  /\ \A j \in st.flag : Inside(seg, j) => PushedOwn(b, st.base, j)
  /\ AllColliding(st.flag, seg[1] + 1, seg[2] - 1)
  /\ LastColliding(st.got, seg[1] + 1, seg[2] - 1)

LEMMA OwnIsPush == ASSUME NEW b, NEW base1, NEW j, PushedOwn(b, base1, j) PROVE Pushed1(b, base1, j)
  BY DEF PushedOwn, Pushed1, OwnPush

LEMMA InnerIsOwn ==
  ASSUME NEW b \in Bases, NEW seg \in Segment, NEW st, OwnBy(b, seg[1] + 1, seg[2] - 1, st)
  PROVE  SegmentOwn(b, seg, st) /\ \A j \in st.flag : Inside(seg, j)
<1>1. seg[1] \in Int /\ seg[2] \in Int
  BY DEF Segment
<1>2. st \in Pushing /\ st.flag \subseteq Points
  BY DEF OwnBy, Pushing
<1>3. ASSUME NEW j \in st.flag PROVE Inside(seg, j) /\ Pushes(seg, j) /\ PushedOwn(b, st.base, j)
  <2>1. j \in Int /\ j \in Points
    BY <1>2 DEF Points
  <2>2. seg[1] + 1 <= j /\ j <= seg[2] - 1
    BY DEF OwnBy, Within
  <2>3. Inside(seg, j)
    BY <1>1, <2>1, <2>2 DEF Inside
  <2>4. PushedOwn(b, st.base, j)
    BY <2>1 DEF OwnBy, OnlyOwn
  <2> QED
    BY <2>3, <2>4 DEF Pushes
<1>4. OnlyPushed(b, st.base, st.flag)
  <2> SUFFICES ASSUME NEW j \in Points
               PROVE IF j \in st.flag THEN Pushed1(b, st.base, j) ELSE st.base[j] = b[j]
    BY DEF OnlyPushed
  <2>1. IF j \in st.flag THEN PushedOwn(b, st.base, j) ELSE st.base[j] = b[j]
    BY DEF OwnBy, OnlyOwn
  <2> QED
    BY <2>1, OwnIsPush
<1> QED
  BY <1>3, <1>4 DEF SegmentOwn, OwnBy

LEMMA PushShortIs ==
  ASSUME row \in Int, Even(Spacing), NEW path, Smooth(path), NEW b \in Bases,
         NEW seg \in Segment, 0 <= seg[1], seg[2] < Size,
         NEW st, OwnBy(b, seg[1] + 1, seg[2] - 1, st)
  PROVE  SegmentOwn(b, seg, PushShort(st, seg, path))
<1> DEFINE middle == Column(seg[1]) + Spacing
           r == Crossing(path, middle)
           same == \/ job = "rebound" \/ seg[2] - seg[1] # 1
                   \/ Crossed(path, middle) = {} \/ r = RowOf(seg[2])
           p == [row |-> RowOf(seg[1]), dir |-> IF r > RowOf(seg[2]) THEN 1 ELSE -1]
<1>0. PICK new : new = PushShort(st, seg, path)
  OBVIOUS
<1>1. CASE same
  <2>1. new = st
    BY <1>0, <1>1 DEF PushShort
  <2> QED
    BY <1>0, <2>1, InnerIsOwn
<1>2. CASE ~same
  <2>1. seg[1] \in Int /\ seg[2] \in Int
    BY DEF Segment
  <2>2. Short(seg)
    BY <1>2, <2>1 DEF Short
  <2>3. seg[1] \in Points /\ seg[2] - 1 < seg[1] + 1
    BY <2>1, <2>2, SizeAssumption DEF Points, Short
  <2>4. st \in Pushing /\ st.flag = {} /\ OnlyOwn(b, st.base, st.flag)
    <3>1. st.flag \subseteq Points
      BY DEF OwnBy, Pushing
    <3>2. \A j \in st.flag : j \in Int /\ seg[1] + 1 <= j /\ j <= seg[2] - 1
      BY <3>1 DEF OwnBy, Within, Points
    <3>3. st.flag = {}
      BY <2>1, <2>3, <3>2
    <3> QED
      BY <3>3 DEF OwnBy
  <2>5. p \in Push
    BY <2>1, RowType DEF Push
  <2>6. PICK q : q = p
    OBVIOUS
  <2>7. new = [base |-> [st.base EXCEPT ![seg[1]] = Append(@, q)],
               flag |-> st.flag \cup {seg[1]}, got |-> seg[1]]
    BY <1>0, <1>2, <2>6 DEF PushShort
  <2>8. PICK s : s = seg[1]
    OBVIOUS
  <2>9. /\ new.base = [st.base EXCEPT ![s] = Append(@, q)] /\ new.flag = {s} /\ new.got = s
        /\ DOMAIN new = {"base", "flag", "got"} /\ s \in Points /\ s \in Int /\ q \in Push
        /\ new = [base |-> new.base, flag |-> new.flag, got |-> new.got]
    BY <2>1, <2>3, <2>4, <2>5, <2>6, <2>7, <2>8
  <2>10. st.base \in Bases /\ \A j \in Points : st.base[j] = b[j]
    BY <2>4 DEF Pushing, OnlyOwn
  <2>11. st.base[s] \in Seq(Push)
    BY <2>9, <2>10 DEF Bases
  <2>12. Append(st.base[s], q) \in Seq(Push)
    BY <2>9, <2>11
  <2>13. /\ new.base \in Bases /\ new.base[s] = Append(b[s], q)
         /\ \A j \in Points : j # s => new.base[j] = b[j]
    BY <2>9, <2>10, <2>12 DEF Bases
  <2>14. new \in Pushing
    BY <2>9, <2>13 DEF Pushing
  <2>15. OnlyPushed(b, new.base, new.flag)
    BY <2>9, <2>13 DEF OnlyPushed, Pushed1
  <2>16. \A j \in new.flag : Pushes(seg, j) /\ ~Inside(seg, j)
    BY <2>2, <2>8, <2>9 DEF Pushes, Inside
  <2>17. AllColliding(new.flag, seg[1] + 1, seg[2] - 1)
    <3> SUFFICES ASSUME NEW j \in Points, seg[1] + 1 <= j, j <= seg[2] - 1 PROVE FALSE
      BY DEF AllColliding
    <3> QED
      BY <2>1, <2>3 DEF Points
  <2>18. LastColliding(new.got, seg[1] + 1, seg[2] - 1)
    BY <2>1, <2>3 DEF LastColliding
  <2>19. new.got \in new.flag
    BY <2>9
  <2> QED
    BY <1>0, <2>14, <2>15, <2>16, <2>17, <2>18, <2>19 DEF SegmentOwn
<1> QED
  BY <1>1, <1>2

-----------------------------------------------------------------------------
(* ... and spread over its piece *)

\* The piece of a segment loses a point at either end at the most.
PieceOf(seg, kept) ==
  /\ kept \in Segment
  /\ seg[1] <= kept[1] /\ kept[1] <= seg[1] + 1
  /\ seg[2] - 1 <= kept[2] /\ kept[2] <= seg[2]

SpreadTo(b, base1, j, l) == \E p : OwnPush(l, p) /\ base1[j] = Append(b[j], p)

LEMMA SpreadIs ==
  ASSUME NEW b \in Bases, NEW seg \in Segment, 0 <= seg[1], seg[2] < Size,
         NEW kept, PieceOf(seg, kept), NEW st, SegmentOwn(b, seg, st), st.got >= 0
  PROVE  LET new == SpreadPushes(st, kept) IN
         /\ new \in Bases
         /\ \A j \in Points : new[j] = b[j] \/ (Touches(seg, kept, j) /\ Pushed1(b, new, j))
         /\ InsideOwn(b, new, seg)
         /\ \A j \in kept[1] .. kept[2] : Pushed1(b, new, j)
<1> DEFINE source(j) == IF j > st.got THEN st.got ELSE Least({l \in st.flag : l > j})
           passed == {j \in Points : \/ st.got < j /\ j <= kept[2]
                                     \/ kept[1] <= j /\ j < st.got}
<1>0. PICK new : new = SpreadPushes(st, kept)
  OBVIOUS
<1>1. new = [j \in Points |-> IF j \in passed \ st.flag
                               THEN Append(st.base[j], Last(st.base[source(j)])) ELSE st.base[j]]
  BY <1>0 DEF SpreadPushes
<1>2. /\ st \in Pushing /\ st.base \in Bases /\ st.flag \subseteq Points /\ st.got \in st.flag
      /\ st.got \in Int /\ st.got \in Points /\ OnlyPushed(b, st.base, st.flag)
  BY DEF SegmentOwn, Pushing, Points
<1>3. /\ seg[1] \in Int /\ seg[2] \in Int /\ kept[1] \in Int /\ kept[2] \in Int
      /\ seg[1] <= kept[1] /\ kept[1] <= seg[1] + 1 /\ seg[2] - 1 <= kept[2] /\ kept[2] <= seg[2]
  BY DEF PieceOf, Segment
<1>4. kept[1] <= st.got + 1 /\ st.got <= kept[2]
  <2>1. Pushes(seg, st.got)
    BY <1>2 DEF SegmentOwn
  <2>2. seg[1] <= st.got /\ st.got < seg[2]
    BY <1>2, <1>3, <2>1 DEF Pushes, Inside, Short
  <2> QED
    BY <1>2, <1>3, <2>2
\* Where a push is taken from there is one.
<1>5. ASSUME NEW j \in passed \ st.flag
      PROVE  /\ source(j) \in st.flag /\ new[j] = Append(b[j], Last(st.base[source(j)]))
             /\ Touches(seg, kept, j)
  <2>1. j \in Points /\ j \in Int /\ j # st.got
    BY <1>2 DEF Points
  <2>2. source(j) \in st.flag
    <3>1. CASE j > st.got
      BY <1>2, <3>1
    <3>2. CASE ~(j > st.got)
      <4> DEFINE S == {l \in st.flag : l > j}
      <4>1. st.got \in S
        BY <1>2, <2>1, <3>2
      <4>2. S \subseteq Points /\ S # {}
        BY <1>2, <4>1
      <4> HIDE DEF S
      <4>3. Least(S) \in S
        BY <4>2, GreatestLeast
      <4>4. source(j) = Least(S)
        BY <3>2 DEF S
      <4> HIDE DEF source
      <4> QED
        BY <4>3, <4>4 DEF S
    <3> QED
      BY <3>1, <3>2
  <2>3. st.base[j] = b[j]
    BY <1>2, <2>1 DEF OnlyPushed
  <2>4. new[j] = Append(st.base[j], Last(st.base[source(j)]))
    <3> HIDE DEF source
    <3> QED
      BY <1>1, <2>1
  <2>5. kept[1] <= j /\ j <= kept[2]
    BY <1>2, <1>3, <1>4, <2>1
  <2> HIDE DEF source
  <2> QED
    BY <2>2, <2>3, <2>4, <2>5 DEF Touches
<1>6. \A j \in Points : j \notin passed \ st.flag => new[j] = st.base[j]
  <2> HIDE DEF source, passed
  <2> QED
    BY <1>1
\* What is taken is the push just made.
<1>7. ASSUME NEW l \in st.flag PROVE Last(st.base[l]) \in Push
  <2>1. l \in Points /\ Pushed1(b, st.base, l) /\ b[l] \in Seq(Push)
    BY <1>2 DEF OnlyPushed, Bases
  <2>2. PICK p \in Push : st.base[l] = Append(b[l], p)
    BY <2>1 DEF Pushed1
  <2> QED
    BY <2>1, <2>2, AppendPush DEF Last
<1>8. \A j \in passed \ st.flag : Pushed1(b, new, j)
  <2> HIDE DEF source, passed
  <2> QED
    BY <1>5, <1>7 DEF Pushed1
<1>9. \A j \in st.flag : Pushed1(b, new, j) /\ new[j] = st.base[j] /\ Touches(seg, kept, j)
  <2> TAKE j \in st.flag
  <2>1. new[j] = st.base[j] /\ Pushed1(b, st.base, j)
    BY <1>2, <1>6 DEF OnlyPushed
  <2> QED
    BY <2>1 DEF Pushed1, Touches, SegmentOwn
<1>10. \A j \in Points : j \notin (passed \ st.flag) \cup st.flag => new[j] = b[j]
  <2> HIDE DEF passed
  <2> QED
    BY <1>2, <1>6 DEF OnlyPushed
<1> HIDE DEF source
<1>11. \A j \in Points : new[j] = b[j] \/ (Touches(seg, kept, j) /\ Pushed1(b, new, j))
  <2> HIDE DEF passed
  <2> QED
    BY <1>5, <1>8, <1>9, <1>10
<1>12. new \in Bases
  <2>1. \A j \in Points : new[j] \in Seq(Push)
    <3> TAKE j \in Points
    <3>1. b[j] \in Seq(Push)
      BY DEF Bases
    <3>2. CASE new[j] = b[j]
      BY <3>1, <3>2
    <3>3. CASE Pushed1(b, new, j)
      BY <3>1, <3>3, AppendPush DEF Pushed1
    <3> QED
      BY <1>11, <3>2, <3>3
  <2>2. new = [j \in Points |-> new[j]]
    <3> HIDE DEF passed
    <3> QED
      BY <1>1
  <2> QED
    BY <2>1, <2>2 DEF Bases
<1>13. InsideOwn(b, new, seg)
  <2> SUFFICES ASSUME NEW j \in Points, Inside(seg, j), Occupied(Point(j))
               PROVE  PushedOwn(b, new, j)
    BY DEF InsideOwn
  <2>1. j \in Int /\ seg[1] + 1 <= j /\ j <= seg[2] - 1
    BY <1>3 DEF Inside, Points
  <2>2. j \in st.flag
    BY <2>1 DEF SegmentOwn, AllColliding
  <2>3. PushedOwn(b, st.base, j)
    BY <2>2 DEF SegmentOwn
  <2> QED
    BY <1>9, <2>2, <2>3 DEF PushedOwn
<1>14. \A j \in kept[1] .. kept[2] : Pushed1(b, new, j)
  <2> TAKE j \in kept[1] .. kept[2]
  <2>1. j \in Points /\ j \in Int
    BY <1>3, SizeAssumption DEF Points
  <2>2. j \in passed \/ j \in st.flag
    BY <1>2, <1>3, <2>1
  <2> HIDE DEF passed
  <2> QED
    BY <1>8, <1>9, <2>2
<1> QED
  BY <1>0, <1>11, <1>12, <1>13, <1>14

\* In a rebound the ends of a segment are free points: they take the push of the point
\* next to them.
AllInside(seg) == \A j \in Points : Inside(seg, j) => Occupied(Point(j))
LEMMA SpreadsToEnds ==
  ASSUME job = "rebound", NEW b \in Bases, NEW seg \in Segment, 0 <= seg[1], seg[2] < Size,
         seg[1] + 1 < seg[2], AllInside(seg), NEW st, SegmentOwn(b, seg, st)
  PROVE  /\ st.got >= 0
         /\ SpreadTo(b, SpreadPushes(st, seg), seg[1], seg[1] + 1)
         /\ SpreadTo(b, SpreadPushes(st, seg), seg[2], seg[2] - 1)
<1>1. PICK s1, s2 : s1 = seg[1] /\ s2 = seg[2]
  OBVIOUS
<1>2. PICK new : new = SpreadPushes(st, seg)
  OBVIOUS
<1>3. /\ s1 \in Int /\ s2 \in Int /\ 0 <= s1 /\ s2 < Size /\ s1 + 1 < s2 /\ Size \in Nat
      /\ s1 \in Points /\ s2 \in Points /\ s1 + 1 \in Points /\ s2 - 1 \in Points
  BY <1>1, SizeAssumption DEF Segment, Points
<1>4. /\ st \in Pushing /\ st.flag \subseteq Points /\ st.base \in Bases
      /\ OnlyPushed(b, st.base, st.flag)
  BY DEF SegmentOwn, Pushing
<1>5. \A j \in st.flag : s1 < j /\ j < s2
  BY <1>1 DEF SegmentOwn, Pushes, Inside, Short
<1>6. \A j \in Points : s1 < j /\ j < s2 => j \in st.flag /\ PushedOwn(b, st.base, j)
  <2> TAKE j \in Points
  <2> HAVE s1 < j /\ j < s2
  <2>1. Inside(seg, j) /\ j \in Int /\ s1 + 1 <= j /\ j <= s2 - 1
    BY <1>1, <1>3 DEF Inside, Points
  <2>2. Occupied(Point(j))
    BY <2>1 DEF AllInside
  <2>3. j \in st.flag
    BY <1>1, <2>1, <2>2 DEF SegmentOwn, AllColliding
  <2> QED
    BY <2>1, <2>3 DEF SegmentOwn
<1>7. st.got = s2 - 1
  <2>1. s1 + 1 <= s2 - 1 /\ s1 < s2 - 1 /\ s2 - 1 < s2
    BY <1>3
  <2>2. Occupied(Point(s2 - 1))
    BY <1>1, <1>3, <2>1 DEF AllInside, Inside
  <2> QED
    BY <1>1, <1>3, <2>1, <2>2 DEF SegmentOwn, LastColliding
\* A push taken from a neighbour.
<1>8. ASSUME NEW j \in Points, NEW l \in Points, s1 < l, l < s2, j \notin st.flag,
             new[j] = Append(st.base[j], Last(st.base[l]))
      PROVE  SpreadTo(b, new, j, l)
  <2>1. PICK p : OwnPush(l, p) /\ st.base[l] = Append(b[l], p)
    BY <1>6, <1>8 DEF PushedOwn
  <2>2. b[l] \in Seq(Push) /\ p \in Push
    BY <2>1 DEF Bases, OwnPush
  <2>3. Last(st.base[l]) = p
    BY <2>1, <2>2, AppendPush DEF Last
  <2>4. st.base[j] = b[j]
    BY <1>4, <1>8 DEF OnlyPushed
  <2> QED
    BY <1>8, <2>1, <2>3, <2>4 DEF SpreadTo
<1> DEFINE source(j) == IF j > st.got THEN st.got ELSE Least({l \in st.flag : l > j})
<1>9. \A j \in Points :
        ((st.got < j /\ j <= s2) \/ (s1 <= j /\ j < st.got)) /\ j \notin st.flag
          => new[j] = Append(st.base[j], Last(st.base[source(j)]))
  BY <1>1, <1>2 DEF SpreadPushes
<1>10. s1 \notin st.flag /\ s2 \notin st.flag
  BY <1>3, <1>5
<1>11. source(s2) = s2 - 1 /\ st.got < s2
  BY <1>3, <1>7
<1>12. source(s1) = s1 + 1
  <2> DEFINE S == {l \in st.flag : l > s1}
  <2>1. s1 + 1 \in S
    BY <1>3, <1>6
  <2>2. S \subseteq Points
    BY <1>4
  <2>3. Least(S) \in S /\ \A l \in S : Least(S) <= l
    <3> HIDE DEF S
    <3> QED
      BY <2>1, <2>2, GreatestLeast
  <2>4. Least(S) = s1 + 1
    <3>1. Least(S) > s1 /\ Least(S) <= s1 + 1
      BY <2>1, <2>3
    <3>2. Least(S) \in Int
      BY <2>2, <2>3 DEF Points
    <3> HIDE DEF S
    <3> QED
      BY <1>3, <3>1, <3>2
  <2>5. ~(s1 > st.got)
    BY <1>3, <1>7
  <2> QED
    BY <2>4, <2>5
<1>13. SpreadTo(b, new, s1, s1 + 1)
  <2>1. s1 <= s1 /\ s1 < st.got /\ s1 < s1 + 1
    BY <1>3, <1>7
  <2>2. new[s1] = Append(st.base[s1], Last(st.base[s1 + 1]))
    <3> HIDE DEF source
    <3> QED
      BY <1>3, <1>9, <1>10, <1>12, <2>1
  <2> QED
    BY <1>3, <1>8, <1>10, <2>1, <2>2
<1>14. SpreadTo(b, new, s2, s2 - 1)
  <2>1. s2 <= s2 /\ s2 - 1 < s2 /\ s1 < s2 - 1
    BY <1>3
  <2>2. new[s2] = Append(st.base[s2], Last(st.base[s2 - 1]))
    <3> HIDE DEF source
    <3> QED
      BY <1>3, <1>9, <1>10, <1>11, <2>1
  <2> QED
    BY <1>3, <1>8, <1>10, <2>1, <2>2
<1>15. st.got >= 0
  BY <1>3, <1>7
<1> QED
  BY <1>1, <1>2, <1>13, <1>14, <1>15

\* One segment, all in all.
EndsPushed(b, base1, seg) ==
  job = "rebound" /\ seg[1] + 1 < seg[2] /\ AllInside(seg)
    => SpreadTo(b, base1, seg[1], seg[1] + 1) /\ SpreadTo(b, base1, seg[2], seg[2] - 1)
SegmentPushed(b, seg, kept, new) ==
  /\ new.base \in Bases /\ new.pushed \in BOOLEAN
  /\ \A j \in Points : \/ new.base[j] = b[j]
                       \/ Touches(seg, kept, j) /\ Pushed1(b, new.base, j)
  /\ InsideOwn(b, new.base, seg)
  /\ new.pushed => \A j \in kept[1] .. kept[2] : Pushed1(b, new.base, j)
  /\ seg = kept => EndsPushed(b, new.base, seg)

LEMMA PushSegmentIs ==
  ASSUME row \in Int, Even(Spacing), NEW path, Smooth(path), NEW b \in Bases,
         NEW seg \in Segment, 0 <= seg[1], seg[2] < Size,
         \A j \in seg[1] + 1 .. seg[2] - 1 : Crossed(path, Column(j)) # {},
         NEW kept, PieceOf(seg, kept)
  PROVE  SegmentPushed(b, seg, kept, PushSegment(b, seg, kept, path))
<1>1. PICK st : st = PushShort(PushInner(Unpushed(b), seg, path), seg, path)
  OBVIOUS
<1>2. SegmentOwn(b, seg, st)
  BY <1>1, PushInnerIs, PushShortIs
<1>3. PICK new : new = PushSegment(b, seg, kept, path)
  OBVIOUS
<1>4. new = IF st.got < 0 THEN [base |-> st.base, pushed |-> FALSE]
            ELSE [base |-> SpreadPushes(st, kept), pushed |-> TRUE]
  BY <1>1, <1>3 DEF PushSegment, Unpushed
<1>5. st \in Pushing /\ st.base \in Bases /\ st.got \in Int /\ OnlyPushed(b, st.base, st.flag)
  BY <1>2 DEF SegmentOwn, Pushing
<1>6. seg = kept => EndsPushed(b, SpreadPushes(st, kept), seg)
                    /\ (job = "rebound" /\ seg[1] + 1 < seg[2] /\ AllInside(seg) => st.got >= 0)
  BY <1>2, SpreadsToEnds DEF EndsPushed
<1>7. CASE st.got < 0
  <2>1. new.base = st.base /\ new.pushed = FALSE
    BY <1>4, <1>7
  <2>2. \A j \in Points : st.base[j] = b[j] \/ (Touches(seg, kept, j) /\ Pushed1(b, st.base, j))
    BY <1>2, <1>5 DEF OnlyPushed, SegmentOwn, Touches
  <2>3. InsideOwn(b, st.base, seg)
    <3> SUFFICES ASSUME NEW j \in Points, Inside(seg, j), Occupied(Point(j))
                 PROVE  PushedOwn(b, st.base, j)
      BY DEF InsideOwn
    <3>1. j \in Int /\ seg[1] \in Int /\ seg[2] \in Int
      BY DEF Points, Segment
    <3>2. seg[1] + 1 <= j /\ j <= seg[2] - 1
      BY <3>1 DEF Inside
    <3> QED
      BY <1>2, <3>2 DEF SegmentOwn, AllColliding
  <2>4. seg = kept => EndsPushed(b, st.base, seg)
    BY <1>5, <1>6, <1>7 DEF EndsPushed
  <2> QED
    BY <1>3, <1>5, <2>1, <2>2, <2>3, <2>4 DEF SegmentPushed
<1>8. CASE ~(st.got < 0)
  <2>1. PICK sp : sp = SpreadPushes(st, kept)
    OBVIOUS
  <2>2. new.base = sp /\ new.pushed = TRUE
    BY <1>4, <1>8, <2>1
  <2>3. st.got >= 0
    BY <1>5, <1>8
  <2>4. /\ sp \in Bases
        /\ \A j \in Points : sp[j] = b[j] \/ (Touches(seg, kept, j) /\ Pushed1(b, sp, j))
        /\ InsideOwn(b, sp, seg)
        /\ \A j \in kept[1] .. kept[2] : Pushed1(b, sp, j)
    BY <1>2, <2>1, <2>3, SpreadIs
  <2> QED
    BY <1>3, <1>6, <2>1, <2>2, <2>4 DEF SegmentPushed
<1> QED
  BY <1>7, <1>8

-----------------------------------------------------------------------------
(* All segments of a call *)

PushedNext(before, k, kept) ==
  LET seg == IF job = "rebound" THEN kept[k] ELSE segments[k]
      new == PushSegment(before.base, seg, kept[k], paths[k])
  IN [base |-> new.base,
      final |-> IF new.pushed THEN Append(before.final, kept[k]) ELSE before.final]

\* What each segment keeps holds after all of them.
LEMMA PushAllKeeps ==
  ASSUME Len(segments) \in Nat, NEW kept, NEW S, NEW inv \in [0 .. Len(segments) -> SUBSET S],
         [base |-> base, final |-> << >>] \in inv[0],
         \A k \in 1 .. Len(segments) : \A s \in inv[k - 1] : PushedNext(s, k, kept) \in inv[k]
  PROVE  PushAll(kept) \in inv[Len(segments)]
<1> DEFINE N == Len(segments)
           start == [base |-> base, final |-> << >>]
           step == [k \in 1 .. N |-> [s \in S |-> PushedNext(s, k, kept)]]
           Unfolds(u) == u = [k \in 0 .. Len(segments) |->
                                IF k = 0 THEN start ELSE PushedNext(u[k - 1], k, kept)]
           upto == CHOOSE u : Unfolds(u)
<1>1. PushAll(kept) = upto[N]
  BY DEF PushAll, PushedNext
<1>2. N \in Nat /\ start \in inv[0]
  OBVIOUS
<1>3. \A k \in 1 .. N : \A s \in inv[k - 1] : step[k][s] = PushedNext(s, k, kept)
  <2>1. \A k \in 1 .. N : k - 1 \in 0 .. N
    BY <1>2
  <2>2. \A k \in 1 .. N : inv[k - 1] \subseteq S
    BY <2>1
  <2> QED
    BY <2>2
<1>4. \A k \in 1 .. N : \A s \in inv[k - 1] : step[k][s] \in inv[k]
  <2> HIDE DEF step
  <2> QED
    BY <1>3
<1>5. PICK f \in [0 .. N -> S] :
        /\ f = [k \in 0 .. N |-> IF k = 0 THEN start ELSE step[k][f[k - 1]]]
        /\ \A k \in 0 .. N : f[k] \in inv[k]
  <2>1. Keeps(S, start, step, inv, N)
    <3>1. inv \in [0 .. N -> SUBSET S]
      OBVIOUS
    <3> HIDE DEF N, step, start
    <3> QED
      BY <1>2, <1>4, <3>1, RecursionKeeps
  <2> QED
    BY <2>1 DEF Keeps
<1> HIDE DEF step, start
<1>6. Unfolds(f)
  <2>1. \A k \in 0 .. N : f[k] = IF k = 0 THEN start ELSE PushedNext(f[k - 1], k, kept)
    <3> TAKE k \in 0 .. N
    <3>1. CASE k = 0
      BY <1>5, <3>1
    <3>2. CASE k # 0
      <4>1. k \in 1 .. N /\ k - 1 \in 0 .. N
        BY <1>2, <3>2
      <4>2. f[k - 1] \in inv[k - 1]
        BY <1>5, <4>1
      <4>3. f[k] = step[k][f[k - 1]]
        BY <1>5, <3>2
      <4> QED
        BY <1>3, <3>2, <4>1, <4>2, <4>3
    <3> QED
      BY <3>1, <3>2
  <2>2. f = [k \in 0 .. N |-> f[k]]
    BY <1>5
  <2>3. f = [k \in 0 .. N |-> IF k = 0 THEN start ELSE PushedNext(f[k - 1], k, kept)]
    BY <2>1, <2>2
  <2> QED
    BY <2>3
<1>7. Unfolds(upto)
  <2> HIDE DEF Unfolds
  <2> QED
    BY <1>6
<1> HIDE DEF upto
<1>8. \A k \in 0 .. N : upto[k] \in inv[k]
  <2>1. upto[0] = start
    <3>1. 0 \in 0 .. Len(segments)
      BY <1>2
    <3> QED
      BY <1>7, <3>1
  <2>2. ASSUME NEW k \in 1 .. N, upto[k - 1] \in inv[k - 1] PROVE upto[k] \in inv[k]
    <3>1. k \in 0 .. Len(segments) /\ k # 0
      BY <1>2
    <3>2. upto[k] = PushedNext(upto[k - 1], k, kept)
      BY <1>7, <3>1
    <3> QED
      BY <2>2, <3>2
  <2> HIDE DEF N
  <2>3. upto[0] \in inv[0]
    BY <1>2, <2>1
  <2>4. \A k \in 1 .. N : upto[k - 1] \in inv[k - 1] => upto[k] \in inv[k]
    BY <2>2
  <2> QED
    BY <1>2, <2>3, <2>4, StepByStep
<1>9. N \in 0 .. N
  BY <1>2
<1> QED
  BY <1>1, <1>8, <1>9

\* The segments of a call with a guide path each.
Guided ==
  /\ row \in Int /\ Even(Spacing)
  /\ SegmentsOK(segments)
  /\ Len(paths) = Len(segments) /\ \A k \in 1 .. Len(paths) : Smooth(paths[k])
  /\ WalksStayOnPath
SegOf(k) == IF job = "rebound" THEN Split(segments)[k] ELSE segments[k]

LEMMA PieceOfIs ==
  ASSUME NEW segs, SegmentsOK(segs), NEW k \in 1 .. Len(segs)
  PROVE  /\ PieceOf(segs[k], Split(segs)[k]) /\ PieceOf(Split(segs)[k], Split(segs)[k])
         /\ segs[k] \in Segment /\ Split(segs)[k] \in Segment
         /\ 0 <= segs[k][1] /\ segs[k][2] < Size
         /\ 0 <= Split(segs)[k][1] /\ Split(segs)[k][2] < Size
<1>1. segs \in Seq(Segment) /\ Len(segs) \in Nat /\ segs[k] \in Segment
  BY DEF SegmentsOK
<1>2. PICK s1, s2, k1, k2 : /\ s1 = segs[k][1] /\ s2 = segs[k][2]
                            /\ k1 = Split(segs)[k][1] /\ k2 = Split(segs)[k][2]
  OBVIOUS
<1>3. s1 \in Int /\ s2 \in Int
  BY <1>1, <1>2, SegmentType
<1>4. /\ k1 \in Int /\ k2 \in Int /\ (k1 = s1 \/ k1 = s1 + 1) /\ (k2 = s2 \/ k2 = s2 - 1)
  BY <1>2, PieceIs
<1>5. 0 <= s1 /\ s2 < Size /\ Size \in Nat
  BY <1>2, SizeAssumption DEF SegmentsOK
<1>6. Split(segs)[k] = <<k1, k2>>
  BY <1>2 DEF Split
<1>7. Split(segs)[k] \in Segment
  BY <1>4, <1>6 DEF Segment
<1>8. s1 <= k1 /\ k1 <= s1 + 1 /\ s2 - 1 <= k2 /\ k2 <= s2 /\ 0 <= k1 /\ k2 < Size
      /\ k1 <= k1 /\ k1 <= k1 + 1 /\ k2 - 1 <= k2 /\ k2 <= k2
  BY <1>3, <1>4, <1>5
<1> QED
  BY <1>1, <1>2, <1>5, <1>7, <1>8 DEF PieceOf

LEMMA SegmentNext ==
  ASSUME Guided, NEW b \in Bases, NEW k \in 1 .. Len(segments)
  PROVE  SegmentPushed(b, SegOf(k), Split(segments)[k],
                       PushSegment(b, SegOf(k), Split(segments)[k], paths[k]))
<1>1. SegmentsOK(segments) /\ k \in 1 .. Len(paths) /\ Smooth(paths[k])
  BY DEF Guided
<1>2. PICK seg : seg = SegOf(k)
  OBVIOUS
<1>3. PICK kept : kept = Split(segments)[k]
  OBVIOUS
<1>4. /\ PieceOf(seg, kept) /\ seg \in Segment /\ 0 <= seg[1] /\ seg[2] < Size
      /\ seg = segments[k] \/ seg = kept
      /\ PieceOf(segments[k], kept) /\ segments[k] \in Segment /\ kept \in Segment
  BY <1>1, <1>2, <1>3, PieceOfIs DEF SegOf
<1>5. \A j \in seg[1] + 1 .. seg[2] - 1 : Crossed(paths[k], Column(j)) # {}
  <2> TAKE j \in seg[1] + 1 .. seg[2] - 1
  <2>1. PICK s1, s2, k1, k2 : s1 = segments[k][1] /\ s2 = segments[k][2] /\ k1 = kept[1] /\ k2 = kept[2]
    OBVIOUS
  <2>2. s1 \in Int /\ s2 \in Int /\ k1 \in Int /\ k2 \in Int /\ s1 <= k1 /\ k2 <= s2
    BY <1>4, <2>1 DEF PieceOf, Segment
  <2>3. j \in s1 + 1 .. s2 - 1
    <3>1. CASE seg = segments[k]
      BY <2>1, <3>1
    <3>2. CASE seg = kept
      <4>1. j \in k1 + 1 .. k2 - 1
        BY <2>1, <3>2
      <4> QED
        BY <2>2, <4>1
    <3> QED
      BY <1>4, <3>1, <3>2
  <2> QED
    BY <1>1, <2>1, <2>3 DEF Guided, WalksStayOnPath
<1>6. PICK path : path = paths[k]
  OBVIOUS
<1>7. SegmentPushed(b, seg, kept, PushSegment(b, seg, kept, path))
  BY <1>1, <1>4, <1>5, <1>6, PushSegmentIs DEF Guided
<1> QED
  BY <1>2, <1>3, <1>6, <1>7

-----------------------------------------------------------------------------
(* A rebound: what it is asked to push it pushes *)

Cleared(b, j) == \E m \in 1 .. Len(b[j]) : Clears(j, b[j][m])
StrandedAt(piece, i) ==
  /\ i \in {piece[1], piece[2]}
  /\ \A j \in piece[1] + 1 .. piece[2] - 1 : RowOf(j) # RowOf(i)
Answered(b, l) ==
  job = "rebound" /\ AllInside(segments[l]) =>
    \A i \in Points : Inside(segments[l], i) => Cleared(b, i) \/ StrandedAt(Split(segments)[l], i)

LEMMA LastIsClear ==
  ASSUME NEW b \in Bases, NEW new, NEW j \in Points, NEW p \in Push, new[j] = Append(b[j], p),
         Clears(j, p)
  PROVE  Cleared(new, j)
<1>1. b[j] \in Seq(Push)
  BY DEF Bases
<1>2. new[j][Len(new[j])] = p /\ Len(new[j]) = Len(b[j]) + 1 /\ Len(b[j]) \in Nat
  BY <1>1, AppendPush
<1>3. PICK n : n = Len(new[j])
  OBVIOUS
<1>4. n \in 1 .. n
  BY <1>2, <1>3
<1> QED
  BY <1>2, <1>3, <1>4 DEF Cleared

LEMMA StillClear ==
  ASSUME NEW b \in Bases, NEW new, NEW j \in Points, new[j] = b[j] \/ Pushed1(b, new, j),
         Cleared(b, j)
  PROVE  Cleared(new, j)
<1>1. CASE new[j] = b[j]
  BY <1>1 DEF Cleared
<1>2. CASE Pushed1(b, new, j)
  <2>1. PICK p \in Push : new[j] = Append(b[j], p)
    BY <1>2 DEF Pushed1
  <2>2. b[j] \in Seq(Push)
    BY DEF Bases
  <2>3. PICK m \in 1 .. Len(b[j]) : Clears(j, b[j][m])
    BY DEF Cleared
  <2>4. Len(new[j]) = Len(b[j]) + 1 /\ new[j][m] = b[j][m] /\ Len(b[j]) \in Nat
    BY <2>1, <2>2, AppendPush
  <2>5. m \in 1 .. Len(new[j])
    BY <2>4
  <2> QED
    BY <2>3, <2>4, <2>5 DEF Cleared
<1> QED
  BY <1>1, <1>2

\* Points between two of one row are of that row.
LEMMA RowsBetween ==
  ASSUME row \in Int, NEW i \in Int, NEW l \in Int, NEW j \in Int,
         \/ i <= l /\ l <= j
         \/ j <= l /\ l <= i,
         RowOf(j) = RowOf(i)
  PROVE  RowOf(l) = RowOf(i)
  BY DEF RowOf, order

LEMMA PieceAnswered ==
  ASSUME row \in Int, job = "rebound", NEW b \in Bases, NEW seg \in Segment, AllInside(seg),
         NEW piece, PieceOf(seg, piece), 0 <= piece[1], piece[2] < Size,
         NEW new, SegmentPushed(b, piece, piece, new), NEW i \in Points, Inside(seg, i)
  PROVE  Cleared(new.base, i) \/ StrandedAt(piece, i)
<1>1. PICK s1, s2, k1, k2 : s1 = seg[1] /\ s2 = seg[2] /\ k1 = piece[1] /\ k2 = piece[2]
  OBVIOUS
<1>2. /\ s1 \in Int /\ s2 \in Int /\ k1 \in Int /\ k2 \in Int /\ i \in Int
      /\ s1 <= k1 /\ k1 <= s1 + 1 /\ s2 - 1 <= k2 /\ k2 <= s2 /\ s1 < i /\ i < s2
      /\ 0 <= k1 /\ k2 < Size /\ Size \in Nat
  BY <1>1, SizeAssumption DEF PieceOf, Segment, Points, Inside
<1>3. new.base \in Bases
  BY DEF SegmentPushed
\* A push of a neighbour on the same row clears the point as well.
<1>4. ASSUME NEW l \in Int, RowOf(l) = RowOf(i), SpreadTo(b, new.base, i, l)
      PROVE  Cleared(new.base, i)
  <2>1. PICK p : OwnPush(l, p) /\ new.base[i] = Append(b[i], p)
    BY <1>4 DEF SpreadTo
  <2>2. p \in Push /\ Clears(i, p)
    BY <1>4, <2>1 DEF OwnPush, Clears
  <2> QED
    BY <2>1, <2>2, LastIsClear
<1>5. CASE k1 < i /\ i < k2
  <2>1. PushedOwn(b, new.base, i)
    BY <1>1, <1>5 DEF SegmentPushed, InsideOwn, AllInside, Inside
  <2>2. PICK p : OwnPush(i, p) /\ new.base[i] = Append(b[i], p)
    BY <2>1 DEF PushedOwn
  <2> QED
    BY <2>2, LastIsClear DEF OwnPush
<1>6. CASE ~(k1 < i /\ i < k2)
  <2>1. i = k1 \/ i = k2
    BY <1>2, <1>6
  <2> SUFFICES ASSUME NEW j \in k1 + 1 .. k2 - 1, RowOf(j) = RowOf(i)
               PROVE  Cleared(new.base, i)
    BY <1>1, <2>1 DEF StrandedAt
  <2>2. j \in Int /\ k1 + 1 <= j /\ j <= k2 - 1 /\ k1 + 1 < k2
    BY <1>2
  <2>3. AllInside(piece)
    <3> SUFFICES ASSUME NEW x \in Points, Inside(piece, x) PROVE Occupied(Point(x))
      BY DEF AllInside
    <3>1. x \in Int /\ k1 < x /\ x < k2
      BY <1>1 DEF Points, Inside
    <3>2. s1 < x /\ x < s2
      BY <1>2, <3>1
    <3> QED
      BY <1>1, <3>2 DEF AllInside, Inside
  <2>4. SpreadTo(b, new.base, k1, k1 + 1) /\ SpreadTo(b, new.base, k2, k2 - 1)
    BY <1>1, <2>2, <2>3 DEF SegmentPushed, EndsPushed
  <2>5. CASE i = k1
    <3>1. PICK l : l = k1 + 1
      OBVIOUS
    <3>2. l \in Int /\ i <= l /\ l <= j
      BY <1>2, <2>2, <2>5, <3>1
    <3>3. RowOf(l) = RowOf(i)
      BY <1>2, <2>2, <3>2, RowsBetween
    <3> QED
      BY <1>4, <2>4, <2>5, <3>1, <3>2, <3>3
  <2>6. CASE i = k2
    <3>1. PICK l : l = k2 - 1
      OBVIOUS
    <3>2. l \in Int /\ j <= l /\ l <= i
      BY <1>2, <2>2, <2>6, <3>1
    <3>3. RowOf(l) = RowOf(i)
      BY <1>2, <2>2, <3>2, RowsBetween
    <3> QED
      BY <1>4, <2>4, <2>6, <3>1, <3>2, <3>3
  <2> QED
    BY <2>1, <2>5, <2>6
<1> QED
  BY <1>5, <1>6

AllPushed == [base : Bases, final : Seq(Segment)]
AnsweredUpTo(st, k) ==
  /\ \A l \in 1 .. Len(segments) : l <= k => Answered(st.base, l)
  /\ \A i \in Points : Cleared(base, i) => Cleared(st.base, i)

LEMMA PushedNextIs ==
  ASSUME Guided, NEW st \in AllPushed, NEW k \in 1 .. Len(segments)
  PROVE  \E new : /\ SegmentPushed(st.base, SegOf(k), Split(segments)[k], new)
                  /\ PushedNext(st, k, Split(segments)).base = new.base
                  /\ PushedNext(st, k, Split(segments)).final =
                       IF new.pushed THEN Append(st.final, Split(segments)[k]) ELSE st.final
                  /\ PushedNext(st, k, Split(segments)) \in AllPushed
<1>1. PICK new : new = PushSegment(st.base, SegOf(k), Split(segments)[k], paths[k])
  OBVIOUS
<1>2. st.base \in Bases /\ st.final \in Seq(Segment)
  BY DEF AllPushed
<1>3. SegmentPushed(st.base, SegOf(k), Split(segments)[k], new)
  BY <1>1, <1>2, SegmentNext
<1>4. PICK kept : kept = Split(segments)[k]
  OBVIOUS
<1>5. kept \in Segment
  BY <1>4, PieceOfIs DEF Guided
<1>6. PICK next : next = PushedNext(st, k, Split(segments))
  OBVIOUS
<1>7. next = [base |-> new.base,
              final |-> IF new.pushed THEN Append(st.final, kept) ELSE st.final]
  BY <1>1, <1>4, <1>6 DEF PushedNext, SegOf
<1>8. Append(st.final, kept) \in Seq(Segment) /\ new.base \in Bases
  BY <1>2, <1>3, <1>5 DEF SegmentPushed
<1>9. next \in AllPushed
  BY <1>2, <1>7, <1>8 DEF AllPushed
<1> QED
  BY <1>3, <1>4, <1>6, <1>7, <1>9

LEMMA AnswersNext ==
  ASSUME Guided, NEW st \in AllPushed, NEW k \in 1 .. Len(segments), AnsweredUpTo(st, k - 1)
  PROVE  AnsweredUpTo(PushedNext(st, k, Split(segments)), k)
<1>1. PICK next : next = PushedNext(st, k, Split(segments))
  OBVIOUS
<1>2. PICK new : /\ SegmentPushed(st.base, SegOf(k), Split(segments)[k], new)
                 /\ next.base = new.base
  BY <1>1, PushedNextIs
<1>3. st.base \in Bases /\ Len(segments) \in Nat
  BY DEF AllPushed, Guided, SegmentsOK
<1>4. \A j \in Points : new.base[j] = st.base[j] \/ Pushed1(st.base, new.base, j)
  BY <1>2 DEF SegmentPushed
<1>5. ASSUME NEW l \in 1 .. Len(segments), l <= k, job = "rebound", AllInside(segments[l]),
             NEW i \in Points, Inside(segments[l], i)
      PROVE  Cleared(new.base, i) \/ StrandedAt(Split(segments)[l], i)
  <2>1. CASE l <= k - 1
    <3>1. Cleared(st.base, i) \/ StrandedAt(Split(segments)[l], i)
      BY <1>5, <2>1 DEF AnsweredUpTo, Answered
    <3> QED
      BY <1>3, <1>4, <3>1, StillClear
  <2>2. CASE ~(l <= k - 1)
    <3>1. l = k
      BY <1>3, <1>5, <2>2
    <3>2. PICK piece, seg : piece = Split(segments)[k] /\ seg = segments[k]
      OBVIOUS
    <3>3. /\ PieceOf(seg, piece) /\ seg \in Segment /\ 0 <= piece[1] /\ piece[2] < Size
      BY <3>2, PieceOfIs DEF Guided
    <3>4. SegmentPushed(st.base, piece, piece, new)
      BY <1>2, <1>5, <3>2 DEF SegOf
    <3>5. Cleared(new.base, i) \/ StrandedAt(piece, i)
      BY <1>3, <1>5, <3>1, <3>2, <3>3, <3>4, PieceAnswered DEF Guided
    <3> QED
      BY <3>1, <3>2, <3>5
  <2> QED
    BY <2>1, <2>2
<1>6. \A i \in Points : Cleared(base, i) => Cleared(new.base, i)
  BY <1>3, <1>4, StillClear DEF AnsweredUpTo
<1> QED
  BY <1>1, <1>2, <1>5, <1>6 DEF AnsweredUpTo, Answered

LEMMA PushAllAnswers ==
  ASSUME Guided, base \in Bases
  PROVE  /\ PushAll(Split(segments)) \in AllPushed
         /\ \A l \in 1 .. Len(segments) : Answered(PushAll(Split(segments)).base, l)
         /\ \A i \in Points : Cleared(base, i) => Cleared(PushAll(Split(segments)).base, i)
<1> DEFINE N == Len(segments)
           kept == Split(segments)
           inv == [k \in 0 .. N |-> {st \in AllPushed : AnsweredUpTo(st, k)}]
           start == [base |-> base, final |-> << >>]
<1>1. N \in Nat
  BY DEF Guided, SegmentsOK
<1>2. start \in inv[0]
  <2>1. start \in AllPushed
    BY DEF AllPushed
  <2>2. AnsweredUpTo(start, 0)
    <3>1. \A l \in 1 .. Len(segments) : ~(l <= 0)
      BY <1>1
    <3>2. start.base = base
      OBVIOUS
    <3> QED
      BY <3>1, <3>2 DEF AnsweredUpTo
  <2>3. 0 \in 0 .. N
    BY <1>1
  <2> QED
    BY <2>1, <2>2, <2>3
<1>3. ASSUME NEW k \in 1 .. N, NEW st \in inv[k - 1] PROVE PushedNext(st, k, kept) \in inv[k]
  <2>1. k - 1 \in 0 .. N /\ k \in 0 .. N
    BY <1>1
  <2>2. st \in AllPushed /\ AnsweredUpTo(st, k - 1)
    BY <2>1
  <2>3. PushedNext(st, k, kept) \in AllPushed
    BY <2>2, PushedNextIs
  <2>4. AnsweredUpTo(PushedNext(st, k, kept), k)
    BY <2>2, AnswersNext
  <2> QED
    BY <2>1, <2>3, <2>4
<1>4. PushAll(kept) \in inv[N]
  <2>1. inv \in [0 .. N -> SUBSET AllPushed]
    OBVIOUS
  <2>2. \A k \in 1 .. N : \A st \in inv[k - 1] : PushedNext(st, k, kept) \in inv[k]
    BY <1>3
  <2> HIDE DEF inv, kept
  <2> QED
    BY <1>1, <1>2, <2>1, <2>2, PushAllKeeps
<1>5. PushAll(kept) \in AllPushed /\ AnsweredUpTo(PushAll(kept), N)
  <2>1. N \in 0 .. N
    BY <1>1
  <2> HIDE DEF kept
  <2> QED
    BY <1>4, <2>1
<1>6. \A l \in 1 .. N : l <= N
  BY <1>1
<1> QED
  BY <1>5, <1>6 DEF AnsweredUpTo

-----------------------------------------------------------------------------
(* The first call: one push for a point *)

\* Some of the pieces, in their order.
Picked(v, pieces, k) ==
  /\ v \in Seq(Segment) /\ Len(v) <= k
  /\ \A m \in 1 .. Len(v) : \E a \in 1 .. k : v[m] = pieces[a]
  /\ \A m, n \in 1 .. Len(v) : m < n => v[m][2] < v[n][1]

LEMMA PickedAdded ==
  ASSUME NEW pieces, InOrder(pieces), Len(pieces) \in Nat, NEW k \in 1 .. Len(pieces),
         pieces[k] \in Segment, NEW v, Picked(v, pieces, k - 1)
  PROVE  /\ Picked(v, pieces, k) /\ Picked(Append(v, pieces[k]), pieces, k)
         /\ \A m \in 1 .. Len(Append(v, pieces[k])) :
              \/ Append(v, pieces[k])[m] = pieces[k]
              \/ m \in 1 .. Len(v) /\ Append(v, pieces[k])[m] = v[m]
<1>1. v \in Seq(Segment) /\ Len(v) \in Nat /\ Len(v) <= k - 1 /\ k \in Int
  BY DEF Picked
<1>2. ASSUME NEW m \in 1 .. Len(v)
      PROVE  \E a \in 1 .. k - 1 : a \in 1 .. k /\ a \in 1 .. Len(pieces) /\ a < k /\ v[m] = pieces[a]
  <2>1. PICK a \in 1 .. k - 1 : v[m] = pieces[a]
    BY DEF Picked
  <2>2. a \in 1 .. k /\ a \in 1 .. Len(pieces) /\ a < k
    OBVIOUS
  <2> QED
    BY <2>1, <2>2
<1>3. Picked(v, pieces, k)
  <2>1. \A m \in 1 .. Len(v) : \E a \in 1 .. k : v[m] = pieces[a]
    BY <1>2
  <2>2. Len(v) <= k
    BY <1>1
  <2> QED
    BY <1>1, <2>1, <2>2 DEF Picked
<1>4. PICK new, n : new = Append(v, pieces[k]) /\ n = Len(v)
  OBVIOUS
<1>5. /\ new \in Seq(Segment) /\ Len(new) = n + 1 /\ new[n + 1] = pieces[k] /\ n \in Nat
      /\ \A m \in 1 .. n : new[m] = v[m]
  BY <1>1, <1>4, AppendProperties
<1>6. \A m \in 1 .. Len(new) : (m = n + 1 /\ new[m] = pieces[k]) \/ (m \in 1 .. n /\ new[m] = v[m])
  BY <1>5
<1>7. \A m \in 1 .. Len(new) : \E a \in 1 .. k : new[m] = pieces[a]
  <2> TAKE m \in 1 .. Len(new)
  <2>1. k \in 1 .. k
    OBVIOUS
  <2> QED
    BY <1>2, <1>4, <1>6, <2>1
<1>8. ASSUME NEW m \in 1 .. Len(new), NEW l \in 1 .. Len(new), m < l PROVE new[m][2] < new[l][1]
  <2>1. m \in 1 .. n
    BY <1>5, <1>8
  <2>2. new[m] = v[m]
    BY <1>5, <2>1
  <2>3. CASE l \in 1 .. n
    <3>1. v[m][2] < v[l][1]
      BY <1>4, <1>8, <2>1, <2>3 DEF Picked
    <3> QED
      BY <1>5, <2>2, <2>3, <3>1
  <2>4. CASE l = n + 1
    <3>1. PICK a \in 1 .. k - 1 : a \in 1 .. Len(pieces) /\ a < k /\ v[m] = pieces[a]
      BY <1>2, <1>4, <2>1
    <3>2. pieces[a][2] < pieces[k][1]
      BY <3>1 DEF InOrder
    <3> QED
      BY <1>5, <2>2, <2>4, <3>1, <3>2
  <2> QED
    BY <1>6, <2>3, <2>4
<1>9. Len(new) <= k
  BY <1>1, <1>4, <1>5
<1>10. Picked(new, pieces, k)
  BY <1>5, <1>7, <1>8, <1>9 DEF Picked
<1> QED
  BY <1>3, <1>4, <1>6, <1>10

\* No point is touched by two segments whose ends differ.
LEMMA ReachIs ==
  ASSUME NEW seg \in Segment, NEW kept, PieceOf(seg, kept), NEW j \in Points, Touches(seg, kept, j)
  PROVE  /\ j \in Int /\ j <= kept[2]
         /\ kept[1] <= j \/ (j = seg[1] /\ seg[2] = seg[1] + 1)
<1>1. PICK s1, s2, k1, k2 : s1 = seg[1] /\ s2 = seg[2] /\ k1 = kept[1] /\ k2 = kept[2]
  OBVIOUS
<1>2. /\ s1 \in Int /\ s2 \in Int /\ k1 \in Int /\ k2 \in Int /\ j \in Int
      /\ s1 <= k1 /\ k1 <= s1 + 1 /\ s2 - 1 <= k2 /\ k2 <= s2
  BY <1>1 DEF PieceOf, Segment, Points
<1>3. \/ s1 < j /\ j < s2
      \/ s2 = s1 + 1 /\ j = s1
      \/ k1 <= j /\ j <= k2
  BY <1>1 DEF Touches, Pushes, Inside, Short
<1>4. j <= k2 /\ (k1 <= j \/ (j = s1 /\ s2 = s1 + 1))
  BY <1>2, <1>3
<1> QED
  BY <1>1, <1>2, <1>4

LEMMA TouchApart ==
  ASSUME SegmentsOK(segments), EndsDiffer, NEW k \in 1 .. Len(segments),
         NEW l \in 1 .. Len(segments), k < l, NEW j \in Points,
         Touches(segments[k], Split(segments)[k], j),
         Touches(segments[l], Split(segments)[l], j)
  PROVE  FALSE
<1>1. Len(segments) \in Nat /\ segments \in Seq(Segment)
  BY DEF SegmentsOK
<1>2. PICK n : n = l - 1
  OBVIOUS
<1>3. n \in 1 .. Len(segments) /\ n < l /\ n + 1 = l /\ n < Len(segments)
      /\ n \in 1 .. Len(segments) - 1 /\ (k = n \/ k < n)
  BY <1>1, <1>2
<1>4. PICK t1, t2, v1, v2, k1, k2, l1, l2, n1, n2 :
        /\ t1 = segments[l][1] /\ t2 = segments[l][2]
        /\ v1 = segments[n][1] /\ v2 = segments[n][2]
        /\ k1 = Split(segments)[k][1] /\ k2 = Split(segments)[k][2]
        /\ l1 = Split(segments)[l][1] /\ l2 = Split(segments)[l][2]
        /\ n1 = Split(segments)[n][1] /\ n2 = Split(segments)[n][2]
  OBVIOUS
<1>5. /\ t1 \in Int /\ t2 \in Int /\ v1 \in Int /\ v2 \in Int /\ v2 <= t1 + 1 /\ v2 # t2
  BY <1>1, <1>3, <1>4, SegmentType DEF SegmentsOK, EndsDiffer
<1>6. /\ l1 \in Int /\ (l1 = t1 \/ (l1 = t1 + 1 /\ v2 >= t1))
  BY <1>2, <1>4, PieceIs
<1>7. /\ n1 \in Int /\ n2 \in Int /\ ((n2 = v2 /\ v2 < t1) \/ n2 = v2 - 1)
  BY <1>3, <1>4, PieceIs
<1>8. k1 \in Int /\ k2 \in Int
  BY <1>4, PieceIs
<1>9. InOrder(Split(segments)) /\ Len(Split(segments)) = Len(segments)
  BY <1>1, SplitInOrder DEF Split
<1>10. k2 < l1 /\ n1 <= n2 + 1 /\ (k < n => k2 < n1)
  BY <1>3, <1>4, <1>9 DEF InOrder
<1>11. j \in Int /\ j <= k2
  <2>1. segments[k] \in Segment /\ PieceOf(segments[k], Split(segments)[k])
    BY PieceOfIs
  <2> QED
    BY <1>4, <2>1, ReachIs
<1>12. l1 <= j \/ (j = t1 /\ t2 = t1 + 1)
  <2>1. segments[l] \in Segment /\ PieceOf(segments[l], Split(segments)[l])
    BY PieceOfIs
  <2> QED
    BY <1>4, <2>1, ReachIs
<1>13. j = t1 /\ t2 = t1 + 1 /\ l1 = t1 + 1 /\ v2 >= t1
  BY <1>5, <1>6, <1>8, <1>10, <1>11, <1>12
<1>14. n2 = t1 - 1
  BY <1>5, <1>7, <1>13
<1>15. CASE k = n
  <2>1. k2 = n2
    BY <1>4, <1>15
  <2> QED
    BY <1>5, <1>11, <1>13, <1>14, <2>1
<1>16. CASE k < n
  BY <1>5, <1>7, <1>8, <1>10, <1>11, <1>13, <1>14, <1>16
<1> QED
  BY <1>3, <1>15, <1>16

OwnOnly(b, j) == \E p : OwnPush(j, p) /\ b[j] = <<p>>
Assigned(b, final1) ==
  \A m \in 1 .. Len(final1) : \A j \in Points :
    final1[m][1] <= j /\ j <= final1[m][2] => b[j] # << >>
Fresh(b, k) ==
  \A j \in Points : \/ b[j] = << >>
                    \/ \E l \in 1 .. k : Touches(segments[l], Split(segments)[l], j)
OnceAtMost(b) == \A j \in Points : Len(b[j]) <= 1
OwnUpTo(b, k) ==
  \A l \in 1 .. k : \A j \in Points :
    Inside(segments[l], j) /\ Occupied(Point(j)) => OwnOnly(b, j)
FirstPushes(st, k) ==
  /\ st \in AllPushed
  /\ Picked(st.final, Split(segments), k)
  /\ Assigned(st.base, st.final)
  /\ Fresh(st.base, k)
  /\ EndsDiffer => OnceAtMost(st.base) /\ OwnUpTo(st.base, k)

LEMMA FirstPushesNext ==
  ASSUME Guided, job # "rebound", NEW k \in 1 .. Len(segments), NEW st, FirstPushes(st, k - 1)
  PROVE  FirstPushes(PushedNext(st, k, Split(segments)), k)
<1>1. /\ Len(segments) \in Nat /\ SegmentsOK(segments) /\ st \in AllPushed /\ st.base \in Bases
      /\ k \in Int
  BY DEF Guided, SegmentsOK, FirstPushes, AllPushed
<1>2. PICK next, kept, seg : /\ next = PushedNext(st, k, Split(segments))
                             /\ kept = Split(segments)[k] /\ seg = segments[k]
  OBVIOUS
<1>3. PICK new : /\ SegmentPushed(st.base, seg, kept, new)
                 /\ next.base = new.base
                 /\ next.final = IF new.pushed THEN Append(st.final, kept) ELSE st.final
                 /\ next \in AllPushed
  BY <1>1, <1>2, PushedNextIs DEF SegOf
<1>4. PICK b, b1 : b = st.base /\ b1 = new.base
  OBVIOUS
<1>5. /\ b \in Bases /\ b1 \in Bases
      /\ \A j \in Points : b1[j] = b[j] \/ (Touches(seg, kept, j) /\ Pushed1(b, b1, j))
      /\ InsideOwn(b, b1, seg)
      /\ new.pushed => \A j \in kept[1] .. kept[2] : Pushed1(b, b1, j)
  BY <1>1, <1>3, <1>4 DEF SegmentPushed
<1>6. \A j \in Points : Pushed1(b, b1, j) => /\ b1[j] # << >> /\ Len(b1[j]) = Len(b[j]) + 1
  <2> TAKE j \in Points
  <2> HAVE Pushed1(b, b1, j)
  <2>1. PICK p \in Push : b1[j] = Append(b[j], p)
    BY DEF Pushed1
  <2>2. b[j] \in Seq(Push)
    BY <1>5 DEF Bases
  <2>3. Len(b1[j]) = Len(b[j]) + 1 /\ Len(b[j]) \in Nat
    BY <2>1, <2>2, AppendPush
  <2>4. Len(b1[j]) # 0 /\ Len(<< >>) = 0
    BY <2>3
  <2> QED
    BY <2>3, <2>4
<1>7. /\ InOrder(Split(segments)) /\ Len(Split(segments)) = Len(segments) /\ kept \in Segment
  BY <1>1, <1>2, SplitInOrder, PieceOfIs DEF Split
<1>8. PICK pieces : pieces = Split(segments)
  OBVIOUS
<1>9. /\ Picked(st.final, pieces, k) /\ Picked(Append(st.final, kept), pieces, k)
      /\ \A m \in 1 .. Len(Append(st.final, kept)) :
           \/ Append(st.final, kept)[m] = kept
           \/ m \in 1 .. Len(st.final) /\ Append(st.final, kept)[m] = st.final[m]
  <2>1. Picked(st.final, pieces, k - 1) /\ kept = pieces[k] /\ InOrder(pieces)
        /\ Len(pieces) \in Nat /\ k \in 1 .. Len(pieces)
    BY <1>1, <1>2, <1>7, <1>8 DEF FirstPushes
  <2>2. pieces[k] \in Segment
    BY <1>7, <2>1
  <2> QED
    BY <2>1, <2>2, PickedAdded
<1>10. Picked(next.final, pieces, k)
  BY <1>3, <1>9
\* Pushes stay.
<1>11. Assigned(b1, next.final)
  <2> SUFFICES ASSUME NEW m \in 1 .. Len(next.final), NEW j \in Points,
                      next.final[m][1] <= j, j <= next.final[m][2]
               PROVE  b1[j] # << >>
    BY DEF Assigned
  <2>1. b[j] # << >> => b1[j] # << >>
    BY <1>5, <1>6
  <2>2. CASE m \in 1 .. Len(st.final) /\ next.final[m] = st.final[m]
    <3>1. b[j] # << >>
      BY <1>4, <2>2 DEF FirstPushes, Assigned
    <3> QED
      BY <2>1, <3>1
  <2>3. CASE new.pushed /\ next.final[m] = kept
    <3>1. kept[1] \in Int /\ kept[2] \in Int /\ j \in Int
      BY <1>7 DEF Segment, Points
    <3>2. j \in kept[1] .. kept[2]
      BY <2>3, <3>1
    <3> QED
      BY <1>5, <1>6, <2>3, <3>2
  <2>4. \/ m \in 1 .. Len(st.final) /\ next.final[m] = st.final[m]
        \/ new.pushed /\ next.final[m] = kept
    <3>1. CASE new.pushed
      BY <1>3, <1>9, <3>1
    <3>2. CASE ~new.pushed
      BY <1>3, <3>2
    <3> QED
      BY <3>1, <3>2
  <2> QED
    BY <2>2, <2>3, <2>4
<1>12. Fresh(b1, k)
  <2> SUFFICES ASSUME NEW j \in Points, b1[j] # << >>
               PROVE  \E l \in 1 .. k : Touches(segments[l], Split(segments)[l], j)
    BY DEF Fresh
  <2>1. CASE b1[j] = b[j]
    <3>1. PICK l \in 1 .. k - 1 : Touches(segments[l], Split(segments)[l], j)
      BY <1>4, <2>1 DEF FirstPushes, Fresh
    <3>2. l \in 1 .. k
      BY <1>1
    <3> QED
      BY <3>1, <3>2
  <2>2. CASE Touches(seg, kept, j)
    <3>1. k \in 1 .. k
      BY <1>1
    <3> QED
      BY <1>2, <2>2, <3>1
  <2> QED
    BY <1>5, <2>1, <2>2
<1>13. ASSUME EndsDiffer PROVE OnceAtMost(b1) /\ OwnUpTo(b1, k)
  <2>1. OnceAtMost(b) /\ OwnUpTo(b, k - 1) /\ Fresh(b, k - 1)
    BY <1>4, <1>13 DEF FirstPushes
  <2>2. ASSUME NEW j \in Points, Touches(seg, kept, j) PROVE b[j] = << >>
    <3> SUFFICES ASSUME NEW l \in 1 .. k - 1, Touches(segments[l], Split(segments)[l], j)
                 PROVE  FALSE
      BY <2>1 DEF Fresh
    <3>1. l \in 1 .. Len(segments) /\ l < k
      BY <1>1
    <3> QED
      BY <1>1, <1>2, <1>13, <2>2, <3>1, TouchApart
  <2>3. OnceAtMost(b1)
    <3> SUFFICES ASSUME NEW j \in Points PROVE Len(b1[j]) <= 1
      BY DEF OnceAtMost
    <3>1. CASE b1[j] = b[j]
      BY <2>1, <3>1 DEF OnceAtMost
    <3>2. CASE Touches(seg, kept, j) /\ Pushed1(b, b1, j)
      <4>1. b[j] = << >> /\ Len(b1[j]) = Len(b[j]) + 1
        BY <1>6, <2>2, <3>2
      <4> QED
        BY <4>1
    <3> QED
      BY <1>5, <3>1, <3>2
  <2>4. OwnUpTo(b1, k)
    <3> SUFFICES ASSUME NEW l \in 1 .. k, NEW j \in Points, Inside(segments[l], j), Occupied(Point(j))
                 PROVE  OwnOnly(b1, j)
      BY DEF OwnUpTo
    <3>1. CASE l \in 1 .. k - 1
      <4>1. OwnOnly(b, j)
        BY <2>1, <3>1 DEF OwnUpTo
      <4>2. b[j] # << >>
        <5>1. PICK p : b[j] = <<p>>
          BY <4>1 DEF OwnOnly
        <5>2. <<p>> # << >>
          OBVIOUS
        <5> QED
          BY <5>1, <5>2
      <4>3. b1[j] = b[j]
        BY <1>5, <2>2, <4>2
      <4> QED
        BY <4>1, <4>3 DEF OwnOnly
    <3>2. CASE l = k
      <4>1. Inside(seg, j) /\ Touches(seg, kept, j)
        BY <1>2, <3>2 DEF Touches, Pushes
      <4>2. PushedOwn(b, b1, j) /\ b[j] = << >>
        BY <1>5, <2>2, <4>1 DEF InsideOwn
      <4>3. PICK p : OwnPush(j, p) /\ b1[j] = Append(<< >>, p)
        BY <4>2 DEF PushedOwn
      <4>4. Append(<< >>, p) = <<p>>
        OBVIOUS
      <4> QED
        BY <4>3, <4>4 DEF OwnOnly
    <3>3. l = k \/ l \in 1 .. k - 1
      BY <1>1
    <3> QED
      BY <3>1, <3>2, <3>3
  <2> QED
    BY <2>3, <2>4
<1> QED
  BY <1>2, <1>3, <1>4, <1>8, <1>10, <1>11, <1>12, <1>13 DEF FirstPushes

LEMMA PickedInOrder ==
  ASSUME NEW v, NEW pieces, NEW k \in Nat, Len(pieces) \in Nat, Picked(v, pieces, k),
         InOrder(pieces), k <= Len(pieces)
  PROVE  InOrder(v)
<1>1. \A m \in 1 .. Len(v) : \E a \in 1 .. Len(pieces) : v[m] = pieces[a]
  <2>1. \A a \in 1 .. k : a \in 1 .. Len(pieces)
    OBVIOUS
  <2> QED
    BY <2>1 DEF Picked
<1> QED
  BY <1>1 DEF Picked, InOrder

LEMMA PushAllFirst ==
  ASSUME Guided, job # "rebound", base = NoPushes
  PROVE  FirstPushes(PushAll(Split(segments)), Len(segments))
<1> DEFINE N == Len(segments)
           kept == Split(segments)
           inv == [k \in 0 .. N |-> {st \in AllPushed : FirstPushes(st, k)}]
           start == [base |-> base, final |-> << >>]
<1>1. N \in Nat
  BY DEF Guided, SegmentsOK
<1>2. start \in inv[0]
  <2>1. base \in Bases /\ \A j \in Points : base[j] = << >> /\ Len(base[j]) = 0
    BY DEF Bases, NoPushes
  <2>2. start \in AllPushed /\ start.base = base /\ start.final = << >>
    BY <2>1 DEF AllPushed
  <2>3. Picked(<< >>, kept, 0)
    BY DEF Picked
  <2>4. Assigned(base, << >>) /\ Fresh(base, 0) /\ OnceAtMost(base) /\ OwnUpTo(base, 0)
    BY <2>1 DEF Assigned, Fresh, OnceAtMost, OwnUpTo
  <2>5. 0 \in 0 .. N
    BY <1>1
  <2>6. FirstPushes(start, 0)
    BY <2>2, <2>3, <2>4 DEF FirstPushes
  <2> QED
    BY <2>2, <2>5, <2>6
<1>3. ASSUME NEW k \in 1 .. N, NEW st \in inv[k - 1] PROVE PushedNext(st, k, kept) \in inv[k]
  <2>1. k - 1 \in 0 .. N /\ k \in 0 .. N
    BY <1>1
  <2>2. FirstPushes(st, k - 1)
    BY <2>1
  <2>3. FirstPushes(PushedNext(st, k, kept), k)
    BY <2>2, FirstPushesNext
  <2>4. PushedNext(st, k, kept) \in AllPushed
    BY <2>3 DEF FirstPushes
  <2> QED
    BY <2>1, <2>3, <2>4
<1>4. PushAll(kept) \in inv[N]
  <2>1. inv \in [0 .. N -> SUBSET AllPushed]
    OBVIOUS
  <2>2. \A k \in 1 .. N : \A st \in inv[k - 1] : PushedNext(st, k, kept) \in inv[k]
    BY <1>3
  <2> HIDE DEF inv, kept
  <2> QED
    BY <1>1, <1>2, <2>1, <2>2, PushAllKeeps
<1>5. N \in 0 .. N
  BY <1>1
<1> HIDE DEF kept
<1>6. FirstPushes(PushAll(kept), N)
  BY <1>4, <1>5
<1> QED
  BY <1>6 DEF kept

\* What PushedOnce says of the pushes b and the pieces fin.
OnceFor(b, fin) ==
  /\ \A k \in 1 .. Len(fin) : \A j \in fin[k][1] .. fin[k][2] :
       b[j] # << >> /\ (EndsDiffer => Len(b[j]) = 1)
  /\ EndsDiffer =>
       \A k \in 1 .. Len(segments) : \A j \in segments[k][1] + 1 .. segments[k][2] - 1 :
         Occupied(Point(j)) => b[j] # << >> /\ ~Occupied(<<Column(j), 2 * b[j][1].row>>)
PiecesOK(fin) == fin \in Seq(Segment) /\ InOrder(fin)

LEMMA FirstPushesOnce ==
  ASSUME SegmentsOK(segments), NEW st, FirstPushes(st, Len(segments))
  PROVE  OnceFor(st.base, st.final) /\ PiecesOK(st.final)
<1>1. PICK b, fin : b = st.base /\ fin = st.final
  OBVIOUS
<1>2. /\ b \in Bases /\ fin \in Seq(Segment) /\ Picked(fin, Split(segments), Len(segments))
      /\ Assigned(b, fin) /\ (EndsDiffer => OnceAtMost(b) /\ OwnUpTo(b, Len(segments)))
  BY <1>1 DEF FirstPushes, AllPushed
<1>3. /\ Len(segments) \in Nat /\ segments \in Seq(Segment)
      /\ Len(Split(segments)) = Len(segments) /\ InOrder(Split(segments))
  BY SplitInOrder DEF SegmentsOK, Split
<1>4. InOrder(fin)
  <2>1. PICK n, pieces : n = Len(segments) /\ pieces = Split(segments)
    OBVIOUS
  <2>2. n \in Nat /\ Len(pieces) = n /\ n <= Len(pieces) /\ Picked(fin, pieces, n) /\ InOrder(pieces)
    BY <1>2, <1>3, <2>1
  <2> QED
    BY <2>2, PickedInOrder
<1>5. ASSUME NEW k \in 1 .. Len(fin), NEW j \in fin[k][1] .. fin[k][2]
      PROVE  b[j] # << >> /\ (EndsDiffer => Len(b[j]) = 1)
  <2>1. fin[k] \in Segment
    BY <1>2
  <2>2. fin[k][1] \in Int /\ fin[k][2] \in Int /\ 0 <= fin[k][1] /\ fin[k][2] < Size /\ Size \in Nat
    BY <1>4, <2>1, SizeAssumption DEF Segment, InOrder
  <2>3. j \in Points /\ fin[k][1] <= j /\ j <= fin[k][2]
    BY <2>2 DEF Points
  <2>4. b[j] # << >> /\ b[j] \in Seq(Push)
    BY <1>2, <2>3 DEF Assigned, Bases
  <2>5. Len(b[j]) \in Nat /\ Len(b[j]) # 0
    BY <2>4
  <2>6. EndsDiffer => Len(b[j]) <= 1
    BY <1>2, <2>3 DEF OnceAtMost
  <2>7. ASSUME EndsDiffer PROVE Len(b[j]) = 1
    <3>1. PICK n : n = Len(b[j])
      OBVIOUS
    <3>2. n \in Nat /\ n # 0 /\ n <= 1
      BY <2>5, <2>6, <2>7, <3>1
    <3>3. n = 1
      BY <3>2
    <3> QED
      BY <3>1, <3>3
  <2> QED
    BY <2>4, <2>7
<1>6. ASSUME EndsDiffer, NEW k \in 1 .. Len(segments),
             NEW j \in segments[k][1] + 1 .. segments[k][2] - 1, Occupied(Point(j))
      PROVE  b[j] # << >> /\ ~Occupied(<<Column(j), 2 * b[j][1].row>>)
  <2>1. /\ segments[k][1] \in Int /\ segments[k][2] \in Int
        /\ 0 <= segments[k][1] /\ segments[k][2] < Size /\ Size \in Nat
    BY <1>3, SegmentType, SizeAssumption DEF SegmentsOK
  <2>2. j \in Int /\ segments[k][1] + 1 <= j /\ j <= segments[k][2] - 1
    BY <2>1
  <2>3. j \in Points /\ segments[k][1] < j /\ j < segments[k][2]
    BY <2>1, <2>2 DEF Points
  <2>4. OwnOnly(b, j)
    BY <1>2, <1>6, <2>3 DEF OwnUpTo, Inside
  <2>5. PICK p : OwnPush(j, p) /\ b[j] = <<p>>
    BY <2>4 DEF OwnOnly
  <2>6. b[j][1] = p /\ <<p>> # << >>
    BY <2>5
  <2>7. ~Occupied(<<Column(j), 2 * p.row>>)
    BY <1>6, <2>5 DEF OwnPush, FromFree
  <2> QED
    BY <2>5, <2>6, <2>7
<1> QED
  BY <1>1, <1>2, <1>4, <1>5, <1>6 DEF OnceFor, PiecesOK

-----------------------------------------------------------------------------
(* What a rebound's check finds *)

Solid(segs) == \A l \in 1 .. Len(segs) : AllInside(segs[l])
FoundBy(segs, i) == \E l \in 1 .. Len(segs) : Inside(segs[l], i) \/ i = segs[l][2] + 1
\* A point the check has passed.
Passed(st, at, i) == order - 1 <= i /\ (i <= at \/ i < st.next)
CoverOK(st, at) ==
  /\ st \in CheckStates /\ CheckOK(st) /\ Solid(st.ids)
  /\ ~st.endless =>
       \A i \in Points : Passed(st, at, i) /\ NewCollision(i) => FoundBy(st.ids, i)

LEMMA MoreSolid ==
  ASSUME NEW segs \in Seq(Segment), Solid(segs), NEW seg \in Segment, AllInside(seg)
  PROVE  /\ Solid(Append(segs, seg))
         /\ \A i \in Points : FoundBy(segs, i) \/ Inside(seg, i) \/ i = seg[2] + 1
                                => FoundBy(Append(segs, seg), i)
<1>1. PICK more, n : more = Append(segs, seg) /\ n = Len(segs)
  OBVIOUS
<1>2. /\ more \in Seq(Segment) /\ Len(more) = n + 1 /\ more[n + 1] = seg /\ n \in Nat
      /\ \A m \in 1 .. n : more[m] = segs[m]
  BY <1>1, AppendProperties
<1>3. /\ \A m \in 1 .. Len(more) : m = n + 1 \/ m \in 1 .. n
      /\ n + 1 \in 1 .. Len(more) /\ \A m \in 1 .. n : m \in 1 .. Len(more)
  BY <1>2
<1>4. Solid(more)
  BY <1>1, <1>2, <1>3 DEF Solid
<1>5. \A i \in Points : FoundBy(segs, i) => FoundBy(more, i)
  BY <1>1, <1>2, <1>3 DEF FoundBy
<1>6. \A i \in Points : Inside(seg, i) \/ i = seg[2] + 1 => FoundBy(more, i)
  BY <1>2, <1>3 DEF FoundBy
<1> QED
  BY <1>1, <1>4, <1>5, <1>6

\* The segment found around a colliding point has only colliding ones inside.
LEMMA FoundSolid ==
  ASSUME NEW i \in Points, Occupied(Point(i)), FreeAfter(i) # {}, NEW in, NEW out,
         in = IF FreeBefore(i) = {} THEN 0 ELSE Greatest(FreeBefore(i)),
         out = Least(FreeAfter(i)), 0 < i
  PROVE  /\ <<in, out>> \in Segment /\ AllInside(<<in, out>>)
         /\ in < i /\ i < out /\ out \in Points /\ ~Occupied(Point(out))
<1>1. FreeBefore(i) \subseteq Points /\ FreeAfter(i) \subseteq Points /\ i \in Int
  BY DEF FreeBefore, FreeAfter, Points
<1>2. out \in FreeAfter(i) /\ \A j \in FreeAfter(i) : out <= j
  BY <1>1, GreatestLeast
<1>3. out \in Int /\ i < out /\ out \in Points /\ ~Occupied(Point(out))
  BY <1>2 DEF FreeAfter, Points
<1>4. in \in Int /\ in < i /\ \A j \in FreeBefore(i) : j <= in
  <2>1. CASE FreeBefore(i) = {}
    BY <1>1, <2>1
  <2>2. CASE FreeBefore(i) # {}
    <3>1. in \in FreeBefore(i) /\ \A j \in FreeBefore(i) : j <= in
      BY <1>1, <2>2, GreatestLeast
    <3> QED
      BY <1>1, <3>1 DEF FreeBefore, Points
  <2> QED
    BY <2>1, <2>2
<1>5. PICK seg : seg = <<in, out>>
  OBVIOUS
<1>6. seg \in Segment /\ seg[1] = in /\ seg[2] = out
  BY <1>3, <1>4, <1>5 DEF Segment
<1>7. ASSUME NEW j \in Points, in < j, j < out PROVE Occupied(Point(j))
  <2>1. j \in Int
    BY DEF Points
  <2>2. CASE j < i
    <3>1. j \notin FreeBefore(i)
      BY <1>4, <1>7, <2>1
    <3> QED
      BY <2>2, <3>1 DEF FreeBefore
  <2>3. CASE j > i
    <3>1. j \notin FreeAfter(i)
      BY <1>2, <1>3, <1>7, <2>1
    <3> QED
      BY <2>3, <3>1 DEF FreeAfter
  <2>4. j = i \/ j < i \/ j > i
    BY <1>1, <2>1
  <2> QED
    BY <2>2, <2>3, <2>4
<1>8. AllInside(seg)
  BY <1>6, <1>7 DEF AllInside, Inside
<1> QED
  BY <1>3, <1>4, <1>5, <1>6, <1>8

LEMMA CoverNext ==
  ASSUME NEW at \in Int, NEW i \in Points, i = at + 1, 0 < i, order - 1 <= i,
         NEW st, CoverOK(st, at)
  PROVE  CoverOK(Checked(st, i), i)
<1>1. /\ st \in CheckStates /\ CheckOK(st) /\ Solid(st.ids) /\ st.next \in Int /\ i \in Int
      /\ st.ids \in Seq(Segment)
  BY DEF CoverOK, CheckStates, Points
<1>2. PICK new : new = Checked(st, i)
  OBVIOUS
<1>3. new \in CheckStates /\ CheckOK(new)
  BY <1>1, <1>2, CheckedKeeps
\* Passed by now.
<1>4. ASSUME NEW j \in Points, Passed(st, i, j), j # i PROVE Passed(st, at, j)
  <2>1. j \in Int
    BY DEF Points
  <2>2. j <= i => j <= at
    BY <1>1, <1>4, <2>1
  <2> QED
    BY <1>4, <2>2 DEF Passed
<1>5. CASE st.endless
  <2>1. new = st
    BY <1>2, <1>5 DEF Checked
  <2> QED
    BY <1>1, <1>2, <1>3, <1>5, <2>1 DEF CoverOK
<1>6. CASE ~st.endless /\ (i < st.next \/ ~NewCollision(i))
  <2>1. new = st
    BY <1>2, <1>6 DEF Checked
  <2>2. ASSUME NEW j \in Points, Passed(st, i, j), NewCollision(j) PROVE FoundBy(st.ids, j)
    <3>1. CASE j = i
      <4>1. i < st.next
        BY <1>6, <2>2, <3>1
      <4>2. Passed(st, at, j)
        BY <3>1, <4>1 DEF Passed
      <4> QED
        BY <1>6, <2>2, <4>2 DEF CoverOK
    <3>2. CASE j # i
      BY <1>4, <1>6, <2>2, <3>2 DEF CoverOK
    <3> QED
      BY <3>1, <3>2
  <2> QED
    BY <1>1, <1>2, <1>3, <2>1, <2>2 DEF CoverOK
<1>7. CASE ~(st.endless \/ i < st.next \/ ~NewCollision(i)) /\ FreeAfter(i) = {}
  <2>1. new = [st EXCEPT !.endless = TRUE]
    BY <1>2, <1>7 DEF Checked
  <2>2. new.endless = TRUE /\ new.ids = st.ids
    BY <1>1, <2>1 DEF CheckStates
  <2> QED
    BY <1>1, <1>2, <1>3, <2>2 DEF CoverOK
<1>8. CASE ~(st.endless \/ i < st.next \/ ~NewCollision(i)) /\ FreeAfter(i) # {}
  <2>1. PICK in, out : /\ in = IF FreeBefore(i) = {} THEN 0 ELSE Greatest(FreeBefore(i))
                       /\ out = Least(FreeAfter(i))
    OBVIOUS
  <2>2. PICK seg, more : seg = <<in, out>> /\ more = Append(st.ids, seg)
    OBVIOUS
  <2>3. new = [next |-> out + 2, endless |-> FALSE, ids |-> more]
    BY <1>2, <1>8, <2>1, <2>2 DEF Checked
  <2>4. Occupied(Point(i))
    BY <1>8 DEF NewCollision
  <2>5. seg \in Segment /\ AllInside(seg) /\ in < i /\ i < out /\ out \in Points /\ ~Occupied(Point(out))
    BY <1>8, <2>1, <2>2, <2>4, FoundSolid
  <2>6. /\ Solid(more)
        /\ \A j \in Points : FoundBy(st.ids, j) \/ Inside(seg, j) \/ j = seg[2] + 1 => FoundBy(more, j)
    BY <1>1, <2>2, <2>5, MoreSolid
  <2>7. seg[1] = in /\ seg[2] = out /\ in \in Int /\ out \in Int
    <3>1. seg[1] = in /\ seg[2] = out
      BY <2>2
    <3> QED
      BY <2>5, <3>1 DEF Segment
  <2>8. new.next = out + 2 /\ new.ids = more
    BY <2>3
  <2>9. ASSUME NEW j \in Points, Passed(new, i, j), NewCollision(j) PROVE FoundBy(more, j)
    <3>1. j \in Int /\ j # out
      BY <2>5, <2>9 DEF Points, NewCollision
    <3>2. j <= i \/ j < out + 2
      BY <2>8, <2>9 DEF Passed
    <3>3. CASE j < i
      <4>1. Passed(st, i, j) /\ j # i
        BY <1>1, <2>9, <3>1, <3>3 DEF Passed
      <4>2. FoundBy(st.ids, j)
        BY <1>4, <1>8, <2>9, <4>1 DEF CoverOK
      <4> QED
        BY <2>6, <4>2
    <3>4. CASE ~(j < i)
      <4>1. (in < j /\ j < out) \/ j = out + 1
        BY <1>1, <2>5, <2>7, <3>1, <3>2, <3>4
      <4> QED
        BY <2>6, <2>7, <4>1 DEF Inside
    <3> QED
      BY <3>3, <3>4
  <2> QED
    BY <1>2, <1>3, <2>6, <2>8, <2>9 DEF CoverOK
<1> QED
  BY <1>5, <1>6, <1>7, <1>8

\* The whole check.
LEMMA ChecksCover ==
  /\ Solid(Checks[CheckCount].ids)
  /\ ~Checks[CheckCount].endless =>
       \A i \in order - 1 .. LastChecked : NewCollision(i) => FoundBy(Checks[CheckCount].ids, i)
<1> DEFINE N == CheckCount
           inv == [k \in 0 .. N |-> {st \in CheckStates : CoverOK(st, order - 2 + k)}]
           step == [k \in 1 .. N |-> [st \in CheckStates |-> Checked(st, order - 2 + k)]]
           Unfolds(b) == b = [k \in 0 .. CheckCount |->
                                IF k = 0 THEN CheckStart ELSE Checked(b[k - 1], order - 2 + k)]
<1>1. /\ N \in Nat /\ order = 3 /\ order - 2 + N = LastChecked /\ LastChecked \in Int
      /\ \A k \in 1 .. N : /\ order - 2 + k \in Points /\ 0 < order - 2 + k
                           /\ order - 1 <= order - 2 + k /\ order - 2 + (k - 1) \in Int
                           /\ order - 2 + k = (order - 2 + (k - 1)) + 1
  <2>1. LastChecked = LastScanned
    BY DEF LastChecked, LastScanned
  <2>2. /\ LastChecked \in Int /\ order <= LastChecked /\ LastChecked < Size - order /\ order = 3
        /\ Size \in Nat
    BY <2>1, LastScannedIs, SizeAssumption DEF order
  <2>3. N = LastChecked - order + 2
    BY DEF CheckCount
  <2> HIDE DEF N
  <2> QED
    BY <2>2, <2>3 DEF Points
<1>2. CheckStart \in inv[0]
  <2>1. << >> \in Seq(Segment) /\ order - 1 \in Int /\ 0 \in 0 .. N /\ order - 2 + 0 = 1 /\ order - 1 = 2
    BY <1>1
  <2>2. CheckStart \in CheckStates /\ CheckOK(CheckStart) /\ Solid(CheckStart.ids)
        /\ CheckStart.next = 2
    BY <2>1, NoSegments DEF CheckStart, CheckStates, CheckOK, Solid
  <2>3. \A i \in Points : ~Passed(CheckStart, 1, i)
    <3> TAKE i \in Points
    <3>1. i \in Int
      BY DEF Points
    <3> QED
      BY <2>1, <2>2, <3>1 DEF Passed
  <2>4. CoverOK(CheckStart, order - 2 + 0)
    BY <2>1, <2>2, <2>3 DEF CoverOK
  <2> QED
    BY <2>1, <2>2, <2>4
<1>3. ASSUME NEW k \in 1 .. N, NEW st \in inv[k - 1]
      PROVE  Checked(st, order - 2 + k) \in inv[k] /\ step[k][st] = Checked(st, order - 2 + k)
  <2>1. k - 1 \in 0 .. N /\ k \in 0 .. N
    BY <1>1
  <2>2. st \in CheckStates /\ CoverOK(st, order - 2 + (k - 1))
    BY <2>1
  <2>3. PICK at, i : at = order - 2 + (k - 1) /\ i = order - 2 + k
    OBVIOUS
  <2>4. at \in Int /\ i \in Points /\ i = at + 1 /\ 0 < i /\ order - 1 <= i /\ CoverOK(st, at)
    BY <1>1, <2>2, <2>3
  <2>5. CoverOK(Checked(st, i), i)
    BY <2>4, CoverNext
  <2>6. Checked(st, i) \in CheckStates
    BY <2>5 DEF CoverOK
  <2> QED
    BY <2>1, <2>2, <2>3, <2>5, <2>6
<1>4. Keeps(CheckStates, CheckStart, step, inv, N)
  <2>1. \A k \in 1 .. N : \A st \in inv[k - 1] : step[k][st] \in inv[k]
    BY <1>3
  <2>2. inv \in [0 .. N -> SUBSET CheckStates]
    OBVIOUS
  <2> HIDE DEF N, inv, step
  <2> QED
    BY <1>1, <1>2, <2>1, <2>2, RecursionKeeps
<1>5. PICK f \in [0 .. N -> CheckStates] :
        /\ f = [k \in 0 .. N |-> IF k = 0 THEN CheckStart ELSE step[k][f[k - 1]]]
        /\ \A k \in 0 .. N : f[k] \in inv[k]
  BY <1>4 DEF Keeps
<1> HIDE DEF step, inv
<1>6. Unfolds(f)
  <2>1. \A k \in 0 .. N : f[k] = IF k = 0 THEN CheckStart ELSE Checked(f[k - 1], order - 2 + k)
    <3> TAKE k \in 0 .. N
    <3>1. CASE k = 0
      BY <1>5, <3>1
    <3>2. CASE k # 0
      <4>1. k \in 1 .. N /\ k - 1 \in 0 .. N
        BY <1>1, <3>2
      <4>2. f[k - 1] \in inv[k - 1]
        BY <1>5, <4>1
      <4>3. f[k] = step[k][f[k - 1]]
        BY <1>5, <3>2
      <4> HIDE DEF N
      <4> QED
        BY <1>3, <3>2, <4>1, <4>2, <4>3
    <3> QED
      BY <3>1, <3>2
  <2>2. f = [k \in 0 .. N |-> f[k]]
    BY <1>5
  <2>3. f = [k \in 0 .. N |-> IF k = 0 THEN CheckStart ELSE Checked(f[k - 1], order - 2 + k)]
    BY <2>1, <2>2
  <2> QED
    BY <2>3
<1>7. Checks = CHOOSE b : Unfolds(b)
  BY DEF Checks
<1>8. Unfolds(Checks)
  <2> HIDE DEF Unfolds
  <2> QED
    BY <1>6, <1>7
<1>9. \A k \in 0 .. N : Checks[k] \in inv[k]
  <2>1. Checks[0] = CheckStart
    <3>1. 0 \in 0 .. CheckCount
      BY <1>1
    <3> QED
      BY <1>8, <3>1
  <2>2. ASSUME NEW k \in 1 .. N, Checks[k - 1] \in inv[k - 1] PROVE Checks[k] \in inv[k]
    <3>1. k \in 0 .. CheckCount /\ k # 0
      BY <1>1
    <3>2. Checks[k] = Checked(Checks[k - 1], order - 2 + k)
      BY <1>8, <3>1
    <3> HIDE DEF N
    <3> QED
      BY <1>3, <2>2, <3>2
  <2>3. Checks[0] \in inv[0]
    BY <1>2, <2>1
  <2>4. \A k \in 1 .. N : Checks[k - 1] \in inv[k - 1] => Checks[k] \in inv[k]
    BY <2>2
  <2> HIDE DEF N, Unfolds
  <2> QED
    BY <1>1, <2>3, <2>4, StepByStep
<1>10. CoverOK(Checks[N], LastChecked)
  <2>1. N \in 0 .. N
    BY <1>1
  <2>2. Checks[N] \in inv[N]
    BY <1>9, <2>1
  <2>3. CoverOK(Checks[N], order - 2 + N)
    BY <2>1, <2>2 DEF inv
  <2> HIDE DEF N
  <2> QED
    BY <1>1, <2>3
<1>11. \A i \in order - 1 .. LastChecked : i \in Points /\ Passed(Checks[N], LastChecked, i)
  <2> TAKE i \in order - 1 .. LastChecked
  <2>1. LastChecked < Size /\ Size \in Nat
    <3>1. LastChecked = LastScanned
      BY DEF LastChecked, LastScanned
    <3>2. LastChecked < Size - order
      BY <3>1, LastScannedIs DEF order
    <3> QED
      BY <1>1, <3>2, SizeAssumption
  <2>2. i \in Int /\ 2 <= i /\ i <= LastChecked
    BY <1>1
  <2> QED
    BY <1>1, <2>1, <2>2 DEF Points, Passed
<1> QED
  BY <1>10, <1>11 DEF CoverOK

-----------------------------------------------------------------------------
(* The guide paths found *)

EvenCenter == search \in {"running", "found"} => Even(center[1])

LEMMA PathIsSmooth ==
  ASSUME CpsIInv, EvenCenter, search = "found"
  PROVE  Smooth(Path)
<1> DEFINE n == Len(gridPath)
<1>1. /\ gridPath \in Seq(Pool) /\ center \in Coordinates /\ Even(center[1])
      /\ \A k \in 1 .. n : FreeNode(gridPath[k])
      /\ \A k \in 1 .. n - 1 : gridPath[k] \in Neighbours(gridPath[k + 1])
  BY DEF CpsIInv, SearchLeads, SearchIInv, PathIsSound, EvenCenter
<1>2. Path \in Seq(Coordinates)
  BY PathLeads DEF Leads, Paths
<1>3. Path = [k \in 1 .. n |-> Index2Coord(gridPath[n + 1 - k], center)]
  BY DEF Path
<1>4. n \in Nat
  BY <1>1
<1>5. Len(Path) = n
  <2> HIDE DEF n
  <2> QED
    BY <1>3, <1>4
<1>6. center[1] \in Int /\ CenterIdx[1] \in Int
  BY <1>1, PoolAssumption DEF Coordinates, CenterIdx
<1>7. \A k \in 1 .. n : gridPath[k] \in Pool /\ gridPath[k][1] \in Int
  <2>1. \A i \in Pool : i[1] \in Int
    BY PoolAssumption DEF Pool
  <2> QED
    BY <1>1, <2>1
<1>8. \A k \in 1 .. n : /\ n + 1 - k \in 1 .. n
                        /\ Path[k] = Index2Coord(gridPath[n + 1 - k], center)
                        /\ Path[k][1] = 2 * (gridPath[n + 1 - k][1] - CenterIdx[1]) + center[1]
  <2> HIDE DEF n
  <2>1. \A k \in 1 .. n : n + 1 - k \in 1 .. n
    BY <1>4
  <2>2. \A k \in 1 .. n : Path[k] = Index2Coord(gridPath[n + 1 - k], center)
    BY <1>3
  <2> QED
    BY <2>1, <2>2 DEF Index2Coord
<1> HIDE DEF n
<1>9. \A k \in 1 .. n : Even(Path[k][1]) /\ ~Occupied(Path[k])
  <2> TAKE k \in 1 .. n
  <2>1. ~Occupied(Path[k])
    BY <1>1, <1>8 DEF FreeNode
  <2>2. PICK x, y, z : x = gridPath[n + 1 - k][1] /\ y = CenterIdx[1] /\ z = center[1]
    OBVIOUS
  <2>3. x \in Int /\ y \in Int /\ z \in Int /\ Even(z) /\ Path[k][1] = 2 * (x - y) + z
    BY <1>1, <1>6, <1>7, <1>8, <2>2
  <2>4. Even(2 * (x - y) + z)
    BY <2>3 DEF Even
  <2> QED
    BY <2>1, <2>3, <2>4
<1>10. \A k \in 1 .. n - 1 : StepsBy(Path, k)
  <2> TAKE k \in 1 .. n - 1
  <2>1. /\ k \in 1 .. n /\ k + 1 \in 1 .. n /\ n - k \in 1 .. n - 1 /\ n + 1 - (k + 1) = n - k
        /\ (n - k) + 1 = n + 1 - k
    BY <1>4
  <2>2. gridPath[n - k] \in Neighbours(gridPath[n + 1 - k])
    BY <1>1, <2>1
  <2>3. PICK d \in Steps : gridPath[n - k][1] = gridPath[n + 1 - k][1] + d[1]
    BY <2>2 DEF Neighbours
  <2>4. d[1] \in -1 .. 1
    BY DEF Steps
  <2>5. PICK x, y, z, e : /\ x = gridPath[n + 1 - k][1] /\ y = CenterIdx[1] /\ z = center[1]
                          /\ e = d[1]
    OBVIOUS
  <2>6. /\ x \in Int /\ y \in Int /\ z \in Int /\ e \in -1 .. 1
        /\ Path[k][1] = 2 * (x - y) + z /\ Path[k + 1][1] = 2 * ((x + e) - y) + z
    BY <1>6, <1>7, <1>8, <2>1, <2>3, <2>4, <2>5
  <2>7. /\ 2 * ((x + e) - y) + z <= 2 * (x - y) + z + 2
        /\ 2 * ((x + e) - y) + z >= 2 * (x - y) + z - 2
    BY <2>6
  <2> QED
    BY <2>6, <2>7 DEF StepsBy
<1> QED
  BY <1>2, <1>5, <1>9, <1>10 DEF Smooth

\* Control points an even number of cells apart have a node halfway.
LEMMA GuideCenter ==
  ASSUME Even(Spacing), CpsIInv, Guide
  PROVE  EvenCenter'
<1> DEFINE seg == segments[Len(paths) + 1]
<1>1. AstarSearch(Point(seg[1]), Point(seg[2])) /\ Len(paths) < Len(segments)
  BY DEF Guide
<1>2. Len(paths) + 1 \in 1 .. Len(segments) /\ segments \in Seq(Segment)
  <2>1. Len(paths) \in Nat /\ Len(segments) \in Nat /\ segments \in Seq(Segment)
    BY DEF CpsIInv, GuideOK, SegmentsOK
  <2> QED
    BY <1>1, <2>1
<1>3. seg[1] \in Int /\ seg[2] \in Int
  BY <1>2, SegmentType
<1> HIDE DEF seg
<1>4. center' = Midpoint(Point(seg[1]), Point(seg[2]))
  BY <1>1 DEF AstarSearch
<1>5. center'[1] = (Column(seg[1]) + Column(seg[2])) \div 2
  BY <1>4 DEF Midpoint, Point
<1>6. Spacing \in Nat
  BY StepsAssumption
<1>7. PICK a, b, s : a = seg[1] /\ b = seg[2] /\ s = Spacing
  OBVIOUS
<1>8. PICK h \in Int : s = 2 * h
  <2>1. s % 2 = 0 /\ s \in Int
    BY <1>6, <1>7 DEF Even
  <2>2. s = 2 * (s \div 2) /\ s \div 2 \in Int
    BY <2>1
  <2> QED
    BY <2>2
<1>9. Column(seg[1]) + Column(seg[2]) = 2 * (2 * (h * (a + b)))
  <2>1. a \in Int /\ b \in Int
    BY <1>3, <1>7
  <2>2. Column(seg[1]) = 2 * (2 * h) * a /\ Column(seg[2]) = 2 * (2 * h) * b
    BY <1>7, <1>8 DEF Column
  <2>3. 2 * (2 * h) * a + 2 * (2 * h) * b = 2 * (2 * (h * (a + b)))
    <3>1. PICK x, y : x = h * a /\ y = h * b
      OBVIOUS
    <3>2. x \in Int /\ y \in Int /\ h * (a + b) = x + y
      BY <2>1, <3>1
    <3>3. 2 * (2 * h) * a = 4 * x /\ 2 * (2 * h) * b = 4 * y
      BY <2>1, <3>1
    <3> QED
      BY <3>2, <3>3
  <2> QED
    BY <2>2, <2>3
<1>10. h * (a + b) \in Int
  BY <1>3, <1>7
<1>11. center'[1] = 2 * (h * (a + b))
  <2>1. PICK m : m = h * (a + b)
    OBVIOUS
  <2>2. (2 * (2 * m)) \div 2 = 2 * m
    BY <1>10, <2>1
  <2> QED
    BY <1>5, <1>9, <2>1, <2>2
<1>12. Even(center'[1])
  <2>1. PICK m : m = h * (a + b)
    OBVIOUS
  <2>2. (2 * m) % 2 = 0
    BY <1>10, <2>1
  <2> QED
    BY <1>11, <2>1, <2>2 DEF Even
<1> QED
  BY <1>12 DEF EvenCenter, Even

-----------------------------------------------------------------------------
(* The other side of a segment *)

LEMMA DivBetween ==
  ASSUME NEW n \in Nat, n > 0, NEW a \in Nat, NEW m \in Nat
  PROVE  /\ n * m <= a => m <= a \div n
         /\ a <= n * m => (a + n - 1) \div n <= m
         /\ a < n * m => a \div n < m
<1>1. n * m <= a => m <= a \div n
  OBVIOUS
<1>2. a < n * m => a \div n < m
  BY DivBelow
<1>3. a <= n * m => (a + n - 1) \div n <= m
  <2> SUFFICES ASSUME a <= n * m PROVE (a + n - 1) \div n <= m
    OBVIOUS
  <2>1. PICK c, l : c = a + n - 1 /\ l = m + 1
    OBVIOUS
  <2>2. c \in Nat /\ l \in Nat /\ n * l = n * m + n
    BY <2>1
  <2>3. n * m \in Int
    OBVIOUS
  <2>4. c < n * l
    BY <2>1, <2>2, <2>3
  <2>5. c \div n < l /\ c \div n \in Int
    BY <2>2, <2>4, DivBelow
  <2> QED
    BY <2>1, <2>5
<1> QED
  BY <1>1, <1>2, <1>3

\* The points between a segment's first collision and its last one lie in it.
LEMMA CollidingIs ==
  ASSUME row \in Int, NEW seg \in Segment, 0 <= seg[1], Reversible(seg)
  PROVE  /\ Colliding(seg) \subseteq seg[1] .. seg[2] /\ Colliding(seg) # {}
         /\ \E lo, hi \in Int : Colliding(seg) = lo .. hi
<1>1. PICK s1, s2 : s1 = seg[1] /\ s2 = seg[2]
  OBVIOUS
<1>2. s1 \in Int /\ s2 \in Int /\ 0 <= s1
  BY <1>1 DEF Segment
<1>3. CASE s1 = s2
  <2>1. Colliding(seg) = s1 .. s1
    BY <1>1, <1>2, <1>3 DEF Colliding
  <2> QED
    BY <1>1, <1>2, <1>3, <2>1
<1>4. CASE s1 # s2
  <2> DEFINE C1 == CollidingColumns(seg, 1)
             C2 == CollidingColumns(seg, 2)
             F == FirstHit(seg)
             L == LastHit(seg)
  <2>1. PICK w : w = 2 * Spacing
    OBVIOUS
  <2>2. w \in Nat /\ w > 0
    BY <2>1, StepsAssumption
  <2>3. Column(s1) = w * s1 /\ Column(s2) = w * s2 /\ w * s1 \in Int /\ w * s2 \in Int /\ 0 <= w * s1
    BY <1>2, <2>1, <2>2 DEF Column
  <2>4. C1 \subseteq Column(s1) .. Column(s2) /\ C2 \subseteq Column(s1) .. Column(s2)
    BY <1>1 DEF CollidingColumns
  <2>5. C2 \subseteq C1
    <3>1. \A x \in Int : x % 1 = 0
      OBVIOUS
    <3>2. \A x \in C2 : x \in Int
      BY <2>3, <2>4
    <3> QED
      BY <1>1, <3>1, <3>2 DEF CollidingColumns
  <2>6. HasHits(seg)
    BY <1>1, <1>4 DEF Reversible
  <2>7. C1 \ {Column(s2)} # {} /\ C2 \ {Column(s1)} # {}
    <3>1. <<seg[1], seg[2]>>[1] = seg[1] /\ <<seg[1], seg[2]>>[2] = seg[2]
      OBVIOUS
    <3> QED
      BY <1>1, <2>6, <3>1 DEF HasHits, CollidingColumns
  <2>8. PICK e, g : e \in C1 /\ e # Column(s2) /\ g \in C2 /\ g # Column(s1)
    BY <2>7
  <2> HIDE DEF C1, C2
  <2>9. F = Least(C1) /\ L = Greatest(C2)
    BY DEF FirstHit, LastHit, C1, C2
  <2>10. F \in C1 /\ (\A x \in C1 : F <= x) /\ L \in C2 /\ \A x \in C2 : x <= L
    <3>1. \A x \in C1 : x \in Int /\ w * s1 <= x /\ x <= w * s2
      BY <2>3, <2>4
    <3>2. \A x \in C2 : x \in Int /\ w * s1 <= x /\ x <= w * s2
      BY <2>3, <2>4
    <3>3. C1 \subseteq Int /\ C1 # {} /\ C2 \subseteq Int /\ C2 # {}
      BY <2>8, <3>1, <3>2
    <3>4. Least(C1) \in C1 /\ \A x \in C1 : Least(C1) <= x
      BY <2>3, <3>1, <3>3, ExtremesAre
    <3>5. Greatest(C2) \in C2 /\ \A x \in C2 : x <= Greatest(C2)
      BY <2>3, <3>2, <3>3, ExtremesAre
    <3> QED
      BY <2>9, <3>4, <3>5
  <2> HIDE DEF F, L
  <2>11. /\ F \in Int /\ L \in Int /\ e \in Int /\ g \in Int
         /\ w * s1 <= F /\ F <= L /\ L <= w * s2 /\ F <= e /\ e <= w * s2 /\ e # w * s2
    BY <2>3, <2>4, <2>5, <2>8, <2>10
  <2>12. PICK lo, hi : lo = F \div w /\ hi = (L + w - 1) \div w
    OBVIOUS
  <2>13. Colliding(seg) = lo .. hi
    BY <1>1, <1>4, <2>1, <2>12 DEF Colliding, F, L
  <2>14. F \in Nat /\ L \in Nat /\ F < w * s2 /\ s1 \in Nat
    BY <1>2, <2>3, <2>11
  <2>15. s2 \in Nat
    <3>1. s2 > 0
      <4>1. 0 < w * s2
        BY <2>3, <2>14
      <4>2. s2 <= 0 => w * s2 <= 0
        BY <1>2, <2>2
      <4> QED
        BY <1>2, <2>3, <4>1, <4>2
    <3> QED
      BY <1>2, <3>1
  <2>16. lo \in Int /\ s1 <= lo /\ lo < s2
    <3>1. lo \in Int
      BY <2>2, <2>12, <2>14
    <3>2. s1 <= lo
      BY <2>2, <2>11, <2>12, <2>14, DivBetween
    <3>3. lo < s2
      BY <2>2, <2>12, <2>14, <2>15, DivBetween
    <3> QED
      BY <3>1, <3>2, <3>3
  <2>17. hi \in Int /\ hi <= s2 /\ lo <= hi
    <3>1. L + w - 1 \in Nat /\ F <= L + w - 1
      BY <2>2, <2>11, <2>14
    <3>2. hi \in Int
      BY <2>2, <2>12, <3>1
    <3>3. hi <= s2
      BY <2>2, <2>11, <2>12, <2>14, <2>15, DivBetween
    <3>4. lo <= hi
      <4>1. PICK c : c = L + w - 1
        OBVIOUS
      <4>2. c \in Nat /\ F <= c /\ hi = c \div w
        BY <2>12, <3>1, <4>1
      <4> QED
        BY <2>2, <2>12, <2>14, <4>2, DivGrows
    <3> QED
      BY <3>2, <3>3, <3>4
  <2>18. lo \in lo .. hi /\ lo .. hi \subseteq s1 .. s2
    BY <1>2, <2>16, <2>17
  <2> QED
    BY <1>1, <2>13, <2>16, <2>17, <2>18
<1> QED
  BY <1>3, <1>4

LEMMA ReplaceFirst ==
  ASSUME NEW s \in Seq(Push), NEW p \in Push
  PROVE  /\ [s EXCEPT ![1] = p] \in Seq(Push)
         /\ s # << >> => [s EXCEPT ![1] = p][1] = p
<1>1. PICK n : n = Len(s)
  OBVIOUS
<1>2. n \in Nat /\ s = [i \in 1 .. n |-> s[i]] /\ DOMAIN s = 1 .. n
  BY <1>1
<1>3. [s EXCEPT ![1] = p] = [i \in 1 .. n |-> IF i = 1 THEN p ELSE s[i]]
  BY <1>2
<1>4. \A i \in 1 .. n : (IF i = 1 THEN p ELSE s[i]) \in Push
  BY <1>1
<1>5. [s EXCEPT ![1] = p] \in Seq(Push)
  <2>1. PICK t : t = [s EXCEPT ![1] = p]
    OBVIOUS
  <2>2. t \in [1 .. n -> Push]
    BY <1>3, <1>4, <2>1
  <2> QED
    BY <1>2, <2>1, <2>2
<1>6. s # << >> => 1 \in 1 .. n
  BY <1>1, <1>2
<1> QED
  BY <1>3, <1>5, <1>6

\* The crossing of segment seg at point c has another side.
HasOtherSide(seg, c) == Reversed(seg, c).why = "reversed"

LEMMA ReversedIs ==
  ASSUME row \in Int, base \in Bases, NEW seg, NEW c \in Points, base[c] # << >>,
         HasOtherSide(seg, c)
  PROVE  Reversed(seg, c).push \in Push /\ Reversed(seg, c).push.dir # base[c][1].dir
<1> DEFINE dir == -base[c][1].dir
           pt == Opposite(seg, c)
           free == {l \in 0 .. 5 * Spacing : ~Occupied(<<pt[1], pt[2] + 2 * l * dir>>)}
           p == [row |-> pt[2] \div 2 + Least(free) * dir, dir |-> dir]
<1>1. base[c] \in Seq(Push) /\ Len(base[c]) \in Nat /\ Len(base[c]) # 0
  BY DEF Bases
<1>2. base[c][1] \in Push
  BY <1>1
<1>3. dir \in {-1, 1} /\ dir # base[c][1].dir /\ base[c][1].row \in Int
  BY <1>2 DEF Push
<1>4. Reversed(seg, c) =
        IF seg[1] # seg[2] /\ Len(base[c]) # 1 THEN [why |-> "wrong_number"]
        ELSE IF free = {} THEN [why |-> "too_far"]
        ELSE IF pt = Point(c) /\ 0 \in free THEN [why |-> "too_close"]
        ELSE [why |-> "reversed", push |-> p]
  BY DEF Reversed
<1> HIDE DEF p, free, pt, dir
<1>5. free # {} /\ Reversed(seg, c).push = p
  <2>1. CASE seg[1] # seg[2] /\ Len(base[c]) # 1
    BY <1>4, <2>1 DEF HasOtherSide
  <2>2. CASE ~(seg[1] # seg[2] /\ Len(base[c]) # 1) /\ free = {}
    BY <1>4, <2>2 DEF HasOtherSide
  <2>3. CASE ~(seg[1] # seg[2] /\ Len(base[c]) # 1) /\ free # {} /\ pt = Point(c) /\ 0 \in free
    BY <1>4, <2>3 DEF HasOtherSide
  <2>4. CASE ~(seg[1] # seg[2] /\ Len(base[c]) # 1) /\ free # {} /\ ~(pt = Point(c) /\ 0 \in free)
    <3>1. \A w : [why |-> w, push |-> p].push = p
      OBVIOUS
    <3>2. Reversed(seg, c) = [why |-> "reversed", push |-> p]
      BY <1>4, <2>4, Zenon
    <3> QED
      BY <2>4, <3>1, <3>2, Zenon
  <2> QED
    BY <2>1, <2>2, <2>3, <2>4
<1>6. Least(free) \in Int
  <2>1. Spacing \in Nat /\ 5 * Spacing \in Int
    BY StepsAssumption
  <2>2. free \subseteq Int /\ \A l \in free : 0 <= l /\ l <= 5 * Spacing
    BY <2>1 DEF free
  <2>3. PICK hi : hi = 5 * Spacing
    OBVIOUS
  <2>4. hi \in Int /\ 0 \in Int /\ \A l \in free : 0 <= l /\ l <= hi
    BY <2>1, <2>2, <2>3
  <2>5. Least(free) \in free
    BY <1>5, <2>2, <2>4, ExtremesAre
  <2> QED
    BY <2>2, <2>5
<1>7. pt[2] \div 2 \in Int
  <2>1. \E y \in Int : pt[2] = 2 * y
    <3>1. CASE pt = <<FirstHit(seg), 2 * row>> \/ pt = <<LastHit(seg), 2 * row>>
      BY <3>1
    <3>2. CASE pt = <<Column(c), 2 * (RowOf(c) - base[c][1].dir * Abs(base[c][1].row - RowOf(c)))>>
      <4>1. PICK q, d, r : q = RowOf(c) /\ d = base[c][1].dir /\ r = base[c][1].row
        OBVIOUS
      <4>2. q \in Int /\ d \in {-1, 1} /\ r \in Int
        BY <1>2, <4>1, RowType DEF Push, Points
      <4>3. Abs(r - q) \in Int
        BY <4>2 DEF Abs
      <4>4. q - d * Abs(r - q) \in Int
        BY <4>2, <4>3
      <4>5. pt[2] = 2 * (q - d * Abs(r - q))
        BY <3>2, <4>1
      <4> QED
        BY <4>4, <4>5
    <3> QED
      BY <3>1, <3>2 DEF pt, Opposite
  <2> QED
    BY <2>1
<1>8. pt[2] \div 2 + Least(free) * dir \in Int
  <2>1. PICK a, b : a = pt[2] \div 2 /\ b = Least(free)
    OBVIOUS
  <2> QED
    BY <1>3, <1>6, <1>7, <2>1
<1>9. p \in Push /\ p.dir = dir
  BY <1>3, <1>8 DEF p, Push
<1> QED
  BY <1>3, <1>5, <1>9

\* A segment with a push for each of its points.
Backed(seg) ==
  seg \in Segment /\ 0 <= seg[1] /\ \A j \in seg[1] .. seg[2] : j \in Points /\ base[j] # << >>

LEMMA OtherSideIs ==
  ASSUME row \in Int, base \in Bases, NEW seg, Backed(seg), Reversible(seg),
         NEW j \in seg[1] .. seg[2]
  PROVE  /\ OtherSide(seg, j) \in Seq(Push)
         /\ j = Least(Colliding(seg)) => OtherSide(seg, j) # base[j]
<1>1. seg \in Segment /\ 0 <= seg[1] /\ j \in Points /\ base[j] # << >> /\ j \in Int
  BY DEF Backed, Points
<1>2. PICK C : C = Colliding(seg)
  OBVIOUS
<1>3. C \subseteq seg[1] .. seg[2] /\ C # {} /\ \E lo, hi \in Int : C = lo .. hi
  BY <1>1, <1>2, CollidingIs
<1>4. PICK lo \in Int, hi \in Int : C = lo .. hi
  BY <1>3
<1>5. /\ Least(C) \in C /\ Greatest(C) \in C /\ \A x \in C : Least(C) <= x /\ x <= Greatest(C)
      /\ Least(C) \in Int /\ Greatest(C) \in Int
  <2>1. C \subseteq Int /\ \A x \in C : lo <= x /\ x <= hi
    BY <1>4
  <2> QED
    BY <1>3, <1>4, <2>1, ExtremesAre
<1>6. PICK near : near = IF j < Least(C) THEN Least(C) ELSE Lesser(j, Greatest(C))
  OBVIOUS
<1>7. near \in C /\ (j = Least(C) => near = j)
  <2>1. CASE j < Least(C)
    BY <1>1, <1>5, <1>6, <2>1
  <2>2. CASE ~(j < Least(C)) /\ j <= Greatest(C)
    <3>1. near = j
      BY <1>1, <1>5, <1>6, <2>2 DEF Lesser
    <3>2. j \in lo .. hi
      BY <1>1, <1>4, <1>5, <2>2
    <3> QED
      BY <1>4, <3>1, <3>2
  <2>3. CASE ~(j < Least(C)) /\ ~(j <= Greatest(C))
    <3>1. near = Greatest(C)
      BY <1>1, <1>5, <1>6, <2>3 DEF Lesser
    <3>2. j # Least(C)
      BY <1>5, <2>3
    <3> QED
      BY <1>5, <3>1, <3>2
  <2> QED
    BY <2>1, <2>2, <2>3
<1>8. near \in Points /\ base[near] # << >>
  BY <1>3, <1>7 DEF Backed
<1>9. HasOtherSide(seg, near)
  BY <1>2, <1>7 DEF Reversible, Failing, HasOtherSide
<1>10. PICK p : p = Reversed(seg, near).push
  OBVIOUS
<1>11. p \in Push /\ p.dir # base[near][1].dir
  BY <1>8, <1>9, <1>10, ReversedIs
<1>12. OtherSide(seg, j) = [base[j] EXCEPT ![1] = p]
  BY <1>2, <1>6, <1>10 DEF OtherSide
<1>13. base[j] \in Seq(Push)
  BY <1>1 DEF Bases
<1>14. OtherSide(seg, j) \in Seq(Push) /\ OtherSide(seg, j)[1] = p
  BY <1>1, <1>11, <1>12, <1>13, ReplaceFirst
<1> QED
  BY <1>2, <1>7, <1>11, <1>14

-----------------------------------------------------------------------------
(* The alternatives *)

LEMMA KeptIs ==
  ASSUME PiecesOK(final)
  PROVE  /\ Kept \in Seq(Segment) /\ Len(Kept) \in Nat /\ Len(Kept) <= 3 /\ InOrder(Kept)
         /\ \A k \in 1 .. Len(Kept) : k \in 1 .. Len(final) /\ Kept[k] = final[k]
<1>1. PICK n : n = Len(final)
  OBVIOUS
<1>2. final \in Seq(Segment) /\ n \in Nat /\ InOrder(final)
  BY <1>1 DEF PiecesOK
<1>3. PICK m : m = Lesser(n, MaxVaried)
  OBVIOUS
<1>4. m \in Nat /\ m <= n /\ m <= 3
  BY <1>2, <1>3 DEF Lesser, MaxVaried
<1>5. PICK kept : kept = SubSeq(final, 1, m)
  OBVIOUS
<1>6. kept \in Seq(Segment) /\ Len(kept) = m /\ \A k \in 1 .. m : kept[k] = final[k]
  BY <1>1, <1>2, <1>4, <1>5
<1>7. \A k \in 1 .. m : k \in 1 .. n
  BY <1>2, <1>4
<1>8. InOrder(kept)
  BY <1>1, <1>2, <1>6, <1>7 DEF InOrder
<1>9. kept = Kept
  BY <1>1, <1>3, <1>5 DEF Kept
<1> QED
  BY <1>1, <1>4, <1>6, <1>7, <1>8, <1>9

\* Some of the pieces, each with another side.
Turned(v, k) ==
  Picked(v, Kept, k) /\ \A m \in 1 .. Len(v) : Reversible(v[m])
VariedNext(v, k) == IF Reversible(Kept[k]) THEN Append(v, Kept[k]) ELSE v

LEMMA VariedTurned ==
  ASSUME PiecesOK(final)
  PROVE  Turned(Varied, Len(Kept))
<1> DEFINE N == Len(Kept)
           S == Seq(Segment)
           inv == [k \in 0 .. N |-> {v \in S : Turned(v, k)}]
           step == [k \in 1 .. N |-> [s \in S |-> VariedNext(s, k)]]
           Unfolds(u) == u = [k \in 0 .. Len(Kept) |->
                                IF k = 0 THEN << >> ELSE VariedNext(u[k - 1], k)]
           upto == CHOOSE u : Unfolds(u)
<1>1. Varied = upto[N]
  BY DEF Varied, VariedNext
<1>2. N \in Nat /\ Kept \in Seq(Segment) /\ InOrder(Kept)
  BY KeptIs
<1>3. inv \in [0 .. N -> SUBSET S]
  OBVIOUS
<1>4. << >> \in inv[0]
  <2>1. << >> \in S /\ Turned(<< >>, 0)
    BY DEF Turned, Picked
  <2>2. 0 \in 0 .. N
    BY <1>2
  <2> QED
    BY <2>1, <2>2
<1>5. \A k \in 1 .. N : \A v \in inv[k - 1] : v \in S /\ VariedNext(v, k) \in inv[k]
  <2> TAKE k \in 1 .. N
  <2> TAKE v \in inv[k - 1]
  <2>1. k - 1 \in 0 .. N /\ k \in 0 .. N
    BY <1>2
  <2>2. v \in S /\ Turned(v, k - 1)
    BY <2>1
  <2>3. Kept[k] \in Segment
    BY <1>2
  <2>4. PICK new : new = Append(v, Kept[k])
    OBVIOUS
  <2>5. /\ Picked(v, Kept, k) /\ Picked(new, Kept, k)
        /\ \A m \in 1 .. Len(new) : new[m] = Kept[k] \/ (m \in 1 .. Len(v) /\ new[m] = v[m])
    <3>1. Picked(v, Kept, k - 1)
      BY <2>2 DEF Turned
    <3> QED
      BY <1>2, <2>3, <2>4, <3>1, PickedAdded
  <2>6. Turned(v, k)
    BY <2>2, <2>5 DEF Turned
  <2>7. Reversible(Kept[k]) => Turned(new, k)
    BY <2>2, <2>5 DEF Turned
  <2>8. Turned(VariedNext(v, k), k)
    BY <2>4, <2>6, <2>7 DEF VariedNext
  <2>9. VariedNext(v, k) \in S
    BY <2>8 DEF Turned, Picked
  <2> QED
    BY <2>1, <2>2, <2>8, <2>9
<1>6. \A k \in 1 .. N : \A s \in inv[k - 1] : step[k][s] = VariedNext(s, k)
  BY <1>5
<1>7. \A k \in 1 .. N : \A s \in inv[k - 1] : step[k][s] \in inv[k]
  <2> HIDE DEF step, inv
  <2> QED
    BY <1>5, <1>6
<1>8. Keeps(S, << >>, step, inv, N)
  <2> HIDE DEF step, inv
  <2> QED
    BY <1>2, <1>3, <1>4, <1>7, RecursionKeeps
<1>9. PICK f \in [0 .. N -> S] :
        /\ f = [k \in 0 .. N |-> IF k = 0 THEN << >> ELSE step[k][f[k - 1]]]
        /\ \A k \in 0 .. N : f[k] \in inv[k]
  BY <1>8 DEF Keeps
<1>10. \A k \in 0 .. N : (IF k = 0 THEN << >> ELSE step[k][f[k - 1]])
                        = (IF k = 0 THEN << >> ELSE VariedNext(f[k - 1], k))
  <2> TAKE k \in 0 .. N
  <2>1. CASE k = 0
    BY <2>1
  <2>2. CASE k # 0
    <3>1. k \in 1 .. N /\ k - 1 \in 0 .. N
      BY <1>2, <2>2
    <3>2. f[k - 1] \in inv[k - 1]
      BY <1>9, <3>1
    <3> HIDE DEF step, inv
    <3> QED
      BY <1>6, <2>2, <3>1, <3>2
  <2> QED
    BY <2>1, <2>2
<1>11. Unfolds(f)
  <2> HIDE DEF step, inv
  <2> QED
    BY <1>9, <1>10
<1>12. Unfolds(upto)
  <2> HIDE DEF Unfolds
  <2> QED
    BY <1>11
<1> HIDE DEF upto
<1>13. \A k \in 0 .. N : upto[k] \in inv[k]
  <2>1. upto[0] = << >>
    <3>1. 0 \in 0 .. Len(Kept)
      BY <1>2
    <3> QED
      BY <1>12, <3>1
  <2>2. ASSUME NEW k \in 1 .. N, upto[k - 1] \in inv[k - 1] PROVE upto[k] \in inv[k]
    <3>1. k \in 0 .. Len(Kept) /\ k # 0
      BY <1>2
    <3>2. upto[k] = VariedNext(upto[k - 1], k)
      BY <1>12, <3>1
    <3> HIDE DEF inv
    <3> QED
      BY <1>5, <2>2, <3>2
  <2> HIDE DEF N, inv
  <2>3. upto[0] \in inv[0]
    BY <1>4, <2>1
  <2>4. \A k \in 1 .. N : upto[k - 1] \in inv[k - 1] => upto[k] \in inv[k]
    BY <2>2
  <2> QED
    BY <1>2, <2>3, <2>4, StepByStep
<1>14. N \in 0 .. N
  BY <1>2
<1>15. Varied \in inv[N]
  BY <1>1, <1>13, <1>14
<1> QED
  BY <1>14, <1>15

\* What the alternatives are built from: up to three pieces with pushes, each with
\* another side, apart from one another.
VariedOK(V) ==
  /\ V \in Seq(Segment) /\ Len(V) \in Nat /\ Len(V) <= 3
  /\ \A k \in 1 .. Len(V) : Backed(V[k]) /\ Reversible(V[k])
  /\ \A k, l \in 1 .. Len(V) : k < l => V[k][2] < V[l][1]

LEMMA VariedIs ==
  ASSUME PiecesOK(final), OnceFor(base, final)
  PROVE  VariedOK(Varied)
<1>1. PICK V, n : V = Varied /\ n = Len(Kept)
  OBVIOUS
<1>2. n \in Nat /\ n <= 3 /\ \A k \in 1 .. n : k \in 1 .. Len(final) /\ Kept[k] = final[k]
  BY <1>1, KeptIs
<1>3. Picked(V, Kept, n) /\ \A m \in 1 .. Len(V) : Reversible(V[m])
  BY <1>1, VariedTurned DEF Turned
<1>4. /\ V \in Seq(Segment) /\ Len(V) \in Nat /\ Len(V) <= 3
      /\ \A k, l \in 1 .. Len(V) : k < l => V[k][2] < V[l][1]
  BY <1>2, <1>3 DEF Picked
<1>5. ASSUME NEW m \in 1 .. Len(V) PROVE Backed(V[m])
  <2>1. PICK a \in 1 .. n : V[m] = Kept[a]
    BY <1>3 DEF Picked
  <2>2. a \in 1 .. Len(final) /\ V[m] = final[a] /\ V[m] \in Segment
    BY <1>2, <1>4, <2>1
  <2>3. PICK seg : seg = V[m]
    OBVIOUS
  <2>4. 0 <= seg[1] /\ seg[2] < Size
    BY <2>2, <2>3 DEF PiecesOK, InOrder
  <2>5. seg[1] \in Int /\ seg[2] \in Int /\ Size \in Nat
    BY <2>2, <2>3, SizeAssumption DEF Segment
  <2>6. \A j \in seg[1] .. seg[2] : j \in Points
    BY <2>4, <2>5 DEF Points
  <2>7. \A j \in seg[1] .. seg[2] : base[j] # << >>
    BY <2>2, <2>3 DEF OnceFor
  <2>8. Backed(seg)
    BY <2>2, <2>3, <2>4, <2>6, <2>7 DEF Backed
  <2> QED
    BY <2>3, <2>8
<1>6. VariedOK(V)
  BY <1>3, <1>4, <1>5 DEF VariedOK
<1> QED
  BY <1>1, <1>6

\* The pieces whose other side the n-th alternative takes at point j.
Own(V, n, j) == {k \in 1 .. Len(V) : V[k][1] <= j /\ j <= V[k][2] /\ Selected(n, k)}

LEMMA AssembledIs ==
  ASSUME row \in Int, base \in Bases, NEW V, VariedOK(V), NEW n
  PROVE  Assembled(V, n) \in Bases
<1>1. ASSUME NEW j \in Points, Own(V, n, j) # {}
      PROVE  OtherSide(V[Least(Own(V, n, j))], j) \in Seq(Push)
  <2>1. PICK L, own : L = Len(V) /\ own = Own(V, n, j)
    OBVIOUS
  <2>2. L \in Nat /\ own \subseteq 1 .. L /\ own # {}
    BY <1>1, <2>1 DEF VariedOK, Own
  <2>3. own \subseteq Int /\ 1 \in Int /\ L \in Int /\ \A k \in own : 1 <= k /\ k <= L
    BY <2>2
  <2>4. PICK k : k = Least(own)
    OBVIOUS
  <2>5. k \in own
    BY <2>2, <2>3, <2>4, ExtremesAre
  <2>6. k \in 1 .. Len(V) /\ V[k][1] <= j /\ j <= V[k][2]
    BY <2>1, <2>5 DEF Own
  <2>7. PICK seg : seg = V[k]
    OBVIOUS
  <2>8. seg \in Segment /\ Backed(seg) /\ Reversible(seg)
    BY <2>6, <2>7 DEF VariedOK
  <2>9. seg[1] \in Int /\ seg[2] \in Int /\ j \in Int
    BY <2>8 DEF Segment, Points
  <2>10. j \in seg[1] .. seg[2]
    BY <2>6, <2>7, <2>9
  <2>11. OtherSide(seg, j) \in Seq(Push)
    BY <2>8, <2>10, OtherSideIs
  <2> QED
    BY <2>1, <2>4, <2>7, <2>11
<1>2. \A j \in Points : base[j] \in Seq(Push)
  BY DEF Bases
<1>3. Assembled(V, n) =
        [j \in Points |-> IF Own(V, n, j) = {} THEN base[j]
                          ELSE OtherSide(V[Least(Own(V, n, j))], j)]
  BY DEF Assembled, Own
<1>4. \A j \in Points : (IF Own(V, n, j) = {} THEN base[j]
                         ELSE OtherSide(V[Least(Own(V, n, j))], j)) \in Seq(Push)
  BY <1>1, <1>2
<1> QED
  BY <1>3, <1>4 DEF Bases

\* An alternative shows at a point of each piece whether it takes its other side.
LEMMA AssembledShows ==
  ASSUME row \in Int, base \in Bases, NEW V, VariedOK(V), NEW k \in 1 .. Len(V)
  PROVE  \E j \in Points : \A n : Assembled(V, n)[j] = base[j] <=> ~Selected(n, k)
<1>1. PICK seg : seg = V[k]
  OBVIOUS
<1>2. /\ seg \in Segment /\ Backed(seg) /\ Reversible(seg) /\ 0 <= seg[1]
      /\ Len(V) \in Nat
  BY <1>1 DEF VariedOK, Backed
<1>3. PICK s1, s2 : s1 = seg[1] /\ s2 = seg[2]
  OBVIOUS
<1>4. s1 \in Int /\ s2 \in Int
  BY <1>2, <1>3 DEF Segment
<1>5. PICK C : C = Colliding(seg)
  OBVIOUS
<1>6. C \subseteq s1 .. s2 /\ C # {}
  BY <1>2, <1>3, <1>5, CollidingIs
<1>7. PICK j : j = Least(C)
  OBVIOUS
<1>8. j \in s1 .. s2
  <2>1. C \subseteq Int /\ \A x \in C : s1 <= x /\ x <= s2
    BY <1>4, <1>6
  <2> QED
    BY <1>4, <1>6, <1>7, <2>1, ExtremesAre
<1>9. j \in Int /\ s1 <= j /\ j <= s2 /\ j \in Points
  BY <1>2, <1>3, <1>4, <1>8 DEF Backed
<1>10. OtherSide(seg, j) # base[j]
  BY <1>2, <1>3, <1>5, <1>7, <1>8, OtherSideIs
<1>11. ASSUME NEW n PROVE Own(V, n, j) = IF Selected(n, k) THEN {k} ELSE {}
  <2>1. ASSUME NEW l \in Own(V, n, j) PROVE l = k
    <3>1. l \in 1 .. Len(V) /\ V[l][1] <= j /\ j <= V[l][2]
      BY DEF Own
    <3>2. PICK t1, t2 : t1 = V[l][1] /\ t2 = V[l][2]
      OBVIOUS
    <3>3. V[l] \in Segment
      BY <3>1 DEF VariedOK
    <3>4. t1 \in Int /\ t2 \in Int /\ t1 <= j /\ j <= t2 /\ l \in Int /\ k \in Int
      BY <1>2, <3>1, <3>2, <3>3 DEF Segment
    <3>5. l < k => t2 < s1
      BY <1>1, <1>3, <3>1, <3>2 DEF VariedOK
    <3>6. k < l => s2 < t1
      BY <1>1, <1>3, <3>1, <3>2 DEF VariedOK
    <3> QED
      BY <1>4, <1>9, <3>4, <3>5, <3>6
  <2>2. k \in Own(V, n, j) <=> Selected(n, k)
    BY <1>1, <1>3, <1>9 DEF Own
  <2> QED
    BY <2>1, <2>2
<1>12. Least({k}) = k
  <2>1. {k} \subseteq Int /\ {k} # {} /\ k \in Int /\ \A x \in {k} : k <= x /\ x <= k
    BY <1>2
  <2>2. Least({k}) \in {k}
    BY <2>1, ExtremesAre
  <2> QED
    BY <2>2
<1>13. ASSUME NEW n PROVE Assembled(V, n)[j] = base[j] <=> ~Selected(n, k)
  <2>1. Assembled(V, n)[j] = IF Own(V, n, j) = {} THEN base[j]
                             ELSE OtherSide(V[Least(Own(V, n, j))], j)
    BY <1>9 DEF Assembled, Own
  <2>2. CASE Selected(n, k)
    <3>1. Own(V, n, j) = {k}
      BY <1>11, <2>2
    <3>2. Assembled(V, n)[j] = OtherSide(seg, j)
      BY <1>1, <1>12, <2>1, <3>1
    <3> QED
      BY <1>10, <2>2, <3>2
  <2>3. CASE ~Selected(n, k)
    BY <1>11, <2>1, <2>3
  <2> QED
    BY <2>2, <2>3
<1> QED
  BY <1>9, <1>13

\* Two numbers below 2^L differ in one of L bits.
LEMMA BitsDiffer ==
  ASSUME NEW L \in {1, 2, 3}
  PROVE  /\ 2^L \in {2, 4, 8}
         /\ \A m, n \in 0 .. 2^L - 1 :
              m # n => \E k \in 1 .. L : ~(Selected(m, k) <=> Selected(n, k))
<1>1. 2^0 = 1 /\ 2^1 = 2 /\ 2^2 = 4 /\ 2^3 = 8
  OBVIOUS
<1>2. \A m \in Int : /\ Selected(m, 1) <=> m % 2 = 1
                     /\ Selected(m, 2) <=> (m \div 2) % 2 = 1
                     /\ Selected(m, 3) <=> (m \div 4) % 2 = 1
  <2>1. 1 - 1 = 0 /\ 2 - 1 = 1 /\ 3 - 1 = 2 /\ \A m \in Int : m \div 1 = m
    OBVIOUS
  <2> QED
    BY <1>1, <2>1 DEF Selected
<1>3. CASE L = 1
  <2>1. \A m, n \in 0 .. 1 : m # n => ~(m % 2 = 1 <=> n % 2 = 1)
    OBVIOUS
  <2>2. 1 \in 1 .. L /\ 2^L - 1 = 1 /\ 2^L = 2 /\ 0 .. 1 \subseteq Int
    BY <1>1, <1>3
  <2> QED
    BY <1>2, <2>1, <2>2
<1>4. CASE L = 2
  <2>1. \A m, n \in 0 .. 3 : m # n => \/ ~(m % 2 = 1 <=> n % 2 = 1)
                                      \/ ~((m \div 2) % 2 = 1 <=> (n \div 2) % 2 = 1)
    OBVIOUS
  <2>2. 1 \in 1 .. L /\ 2 \in 1 .. L /\ 2^L - 1 = 3 /\ 2^L = 4 /\ 0 .. 3 \subseteq Int
    BY <1>1, <1>4
  <2> QED
    BY <1>2, <2>1, <2>2
<1>5. CASE L = 3
  <2>1. \A m, n \in 0 .. 7 : m # n => \/ ~(m % 2 = 1 <=> n % 2 = 1)
                                      \/ ~((m \div 2) % 2 = 1 <=> (n \div 2) % 2 = 1)
                                      \/ ~((m \div 4) % 2 = 1 <=> (n \div 4) % 2 = 1)
    OBVIOUS
  <2>2. /\ 1 \in 1 .. L /\ 2 \in 1 .. L /\ 3 \in 1 .. L
        /\ 2^L - 1 = 7 /\ 2^L = 8 /\ 0 .. 7 \subseteq Int
    BY <1>1, <1>5
  <2> QED
    BY <1>2, <2>1, <2>2
<1> QED
  BY <1>3, <1>4, <1>5

\* The alternatives are pushes of all points, in a number that is a power of two, and
\* no two are the same.
Alternatives(trajs) ==
  /\ trajs \in Seq(Bases) /\ Len(trajs) \in {0, 1, 2, 4, 8}
  /\ \A m, n \in 1 .. Len(trajs) : m < n => trajs[m] # trajs[n]

LEMMA DistinctiveIs ==
  ASSUME row \in Int, base \in Bases, PiecesOK(final), OnceFor(base, final)
  PROVE  Alternatives(DistinctiveTrajs)
<1>1. PICK V, L : V = Varied /\ L = Len(V)
  OBVIOUS
<1>2. VariedOK(V)
  BY <1>1, VariedIs
<1>3. CASE \E k \in 1 .. Len(Kept) : WrongNumber(Kept[k])
  <2>1. DistinctiveTrajs = << >>
    BY <1>3 DEF DistinctiveTrajs
  <2> QED
    BY <2>1 DEF Alternatives
<1>4. CASE ~(\E k \in 1 .. Len(Kept) : WrongNumber(Kept[k])) /\ V = << >>
  <2>1. DistinctiveTrajs = <<base>>
    BY <1>1, <1>4 DEF DistinctiveTrajs
  <2>2. <<base>> \in Seq(Bases) /\ Len(<<base>>) = 1
    OBVIOUS
  <2> QED
    BY <2>1, <2>2 DEF Alternatives
<1>5. CASE ~(\E k \in 1 .. Len(Kept) : WrongNumber(Kept[k])) /\ V # << >>
  <2>1. DistinctiveTrajs = [n \in 1 .. 2^L |-> Assembled(V, n - 1)]
    BY <1>1, <1>5 DEF DistinctiveTrajs
  <2>2. L \in {1, 2, 3}
    <3>1. V \in Seq(Segment) /\ L \in Nat /\ L <= 3
      BY <1>1, <1>2 DEF VariedOK
    <3>2. L # 0
      BY <1>1, <1>5, <3>1
    <3> QED
      BY <3>1, <3>2
  <2>3. PICK N : N = 2^L
    OBVIOUS
  <2>4. N \in {2, 4, 8}
    BY <2>2, <2>3, BitsDiffer
  <2>5. PICK trajs : trajs = [n \in 1 .. N |-> Assembled(V, n - 1)]
    OBVIOUS
  <2>6. trajs \in [1 .. N -> Bases]
    <3>1. \A n \in 1 .. N : Assembled(V, n - 1) \in Bases
      BY <1>2, AssembledIs
    <3> QED
      BY <2>5, <3>1
  <2>7. trajs \in Seq(Bases) /\ Len(trajs) = N
    BY <2>4, <2>6
  <2>8. ASSUME NEW m \in 1 .. N, NEW n \in 1 .. N, m < n PROVE trajs[m] # trajs[n]
    <3>1. PICK m1, n1 : m1 = m - 1 /\ n1 = n - 1
      OBVIOUS
    <3>2. m1 \in 0 .. 2^L - 1 /\ n1 \in 0 .. 2^L - 1 /\ m1 # n1
      BY <2>3, <2>4, <2>8, <3>1
    <3>3. PICK k \in 1 .. L : ~(Selected(m1, k) <=> Selected(n1, k))
      BY <2>2, <3>2, BitsDiffer
    <3>4. PICK j \in Points : \A i : Assembled(V, i)[j] = base[j] <=> ~Selected(i, k)
      BY <1>1, <1>2, AssembledShows
    <3>5. Assembled(V, m1) # Assembled(V, n1)
      BY <3>3, <3>4
    <3>6. trajs[m] = Assembled(V, m1) /\ trajs[n] = Assembled(V, n1)
      BY <2>5, <3>1
    <3> QED
      BY <3>5, <3>6
  <2>9. trajs = DistinctiveTrajs
    BY <2>1, <2>3, <2>5
  <2> QED
    BY <2>4, <2>7, <2>8, <2>9 DEF Alternatives
<1> QED
  BY <1>3, <1>4, <1>5

-----------------------------------------------------------------------------
(* The pushes all along *)

\* What the first call starts from.
StartsFresh ==
  job = "init" =>
    /\ pc \in {"scan", "guide"} => base = NoPushes
    /\ pc = "guide" => final = << >>
\* What distinctiveTrajs is called on.
VaryReady == pc = "vary" => PiecesOK(final) /\ OnceFor(base, final)
\* What a rebound works on: segments in obstacles, which hold the collisions found.
ReboundReady ==
  pc = "guide" /\ job = "rebound" /\ ~lost =>
    /\ Solid(segments)
    /\ \A i \in order - 1 .. LastChecked : NewCollision(i) => FoundBy(segments, i)
PathsSmooth == \A k \in 1 .. Len(paths) : Smooth(paths[k])
GuidanceInv ==
  /\ base \in Bases
  /\ job \in {"init", "restart", "rebound"}
  /\ EvenCenter
  /\ PathsSmooth
  /\ StartsFresh
  /\ VaryReady
  /\ Alternatives(variants)
  /\ ReboundReady
  /\ ReboundPushes

LEMMA CheckedPoints ==
  /\ LastChecked \in Int /\ LastChecked < Size - 3 /\ Size \in Nat
  /\ \A i \in order - 1 .. LastChecked : i \in Points
<1>1. LastChecked = LastScanned
  BY DEF LastChecked, LastScanned
<1>2. LastChecked \in Int /\ LastChecked < Size - order /\ order = 3 /\ Size \in Nat
  BY <1>1, LastScannedIs, SizeAssumption DEF order
<1>3. PICK l : l = LastChecked
  OBVIOUS
<1>4. \A i \in order - 1 .. l : i \in Points
  BY <1>2, <1>3 DEF Points
<1> QED
  BY <1>2, <1>3, <1>4

\* What reads the map and the row only.
LEMMA SameMap ==
  ASSUME UNCHANGED <<occupied, row>>
  PROVE  /\ \A i : RowOf(i)' = RowOf(i)
         /\ \A pt : Occupied(pt)' = Occupied(pt)
         /\ \A i : Point(i)' = Point(i)
         /\ \A i : Occupied(Point(i))' = Occupied(Point(i))
<1>1. \A i : RowOf(i)' = RowOf(i)
  BY DEF RowOf
<1>2. \A i : Point(i)' = Point(i)
  BY <1>1 DEF Point, Column
<1>3. \A pt : Occupied(pt)' = Occupied(pt)
  BY DEF Occupied
<1>4. \A i : Occupied(Point(i))' = Occupied(Point(i))
  BY <1>1 DEF Occupied, Point, Column
<1> QED
  BY <1>1, <1>2, <1>3, <1>4

LEMMA SmoothKeeps ==
  ASSUME occupied' = occupied, NEW path, Smooth(path)
  PROVE  Smooth(path)'
<1>1. \A k : Occupied(path[k])' = Occupied(path[k])
  BY DEF Occupied
<1> QED
  BY <1>1 DEF Smooth, StepsBy, Even, Coordinates

LEMMA NewCollisionKeeps ==
  ASSUME UNCHANGED <<occupied, row, base>>
  PROVE  \A i : NewCollision(i)' <=> NewCollision(i)
<1> SUFFICES ASSUME NEW i PROVE NewCollision(i)' <=> NewCollision(i)
  OBVIOUS
<1>1. Occupied(Point(i))' = Occupied(Point(i)) /\ RowOf(i)' = RowOf(i)
  BY SameMap
<1> QED
  BY <1>1 DEF NewCollision

LEMMA SolidKeeps ==
  ASSUME UNCHANGED <<occupied, row>>, NEW segs, Solid(segs)
  PROVE  Solid(segs)'
<1>1. \A j : Occupied(Point(j))' = Occupied(Point(j))
  BY SameMap
<1> QED
  BY <1>1 DEF Solid, AllInside, Points, Inside

LEMMA OnceNext ==
  ASSUME UNCHANGED <<occupied, row, segments>>, NEW b, NEW fin, b = base', fin = final',
         OnceFor(b, fin)
  PROVE  OnceFor(base, final)'
<1>1. \A j : Occupied(Point(j))' = Occupied(Point(j))
  BY SameMap
<1>2. \A j : Occupied(<<Column(j), 2 * base[j][1].row>>)' = Occupied(<<Column(j), 2 * b[j][1].row>>)
  BY DEF Occupied, Column
<1>3. EndsDiffer' <=> EndsDiffer
  BY DEF EndsDiffer
<1> QED
  BY <1>1, <1>2, <1>3 DEF OnceFor

LEMMA StrandedKeeps ==
  ASSUME UNCHANGED <<row, segments>>
  PROVE  \A i : Stranded(i)' <=> Stranded(i)
<1> SUFFICES ASSUME NEW i PROVE Stranded(i)' <=> Stranded(i)
  OBVIOUS
<1>1. \A j : RowOf(j)' = RowOf(j)
  BY DEF RowOf
<1>2. Split(segments)' = Split(segments)
  BY DEF Split, Meets, Halfway
<1> QED
  BY <1>1, <1>2 DEF Stranded

LEMMA ReboundKeeps ==
  ASSUME GuidanceInv, UNCHANGED <<occupied, cpsVars>>
  PROVE  ReboundReady' /\ ReboundPushes'
<1>1. UNCHANGED <<occupied, row, base, segments, pc, job, lost, force_stop>>
  BY DEF cpsVars
<1>2. LastChecked' = LastChecked /\ order' = order
  BY DEF LastChecked, order
<1>3. \A i : NewCollision(i)' <=> NewCollision(i)
  BY <1>1, NewCollisionKeeps
<1>4. Solid(segments) => Solid(segments)'
  BY <1>1, SolidKeeps
<1>5. \A i : FoundBy(segments, i)' <=> FoundBy(segments, i)
  BY <1>1 DEF FoundBy, Inside
<1>6. \A i : Stranded(i)' <=> Stranded(i)
  BY <1>1, StrandedKeeps
<1>7. ReboundReady'
  BY <1>1, <1>2, <1>3, <1>4, <1>5 DEF GuidanceInv, ReboundReady
<1>8. ReboundPushes'
  BY <1>1, <1>2, <1>3, <1>6 DEF GuidanceInv, ReboundPushes
<1> QED
  BY <1>7, <1>8

LEMMA SearchingKeeps ==
  ASSUME GuidanceInv, UNCHANGED <<occupied, cpsVars>>, EvenCenter'
  PROVE  GuidanceInv'
<1>1. UNCHANGED <<occupied, row, base, job, pc, segments, paths, final, variants>>
  BY DEF cpsVars
<1>2. base' \in Bases /\ job' \in {"init", "restart", "rebound"} /\ Alternatives(variants')
  BY <1>1 DEF GuidanceInv
<1>3. PathsSmooth'
  <2>1. \A k \in 1 .. Len(paths) : Smooth(paths[k])'
    BY <1>1, SmoothKeeps DEF GuidanceInv, PathsSmooth
  <2> QED
    BY <1>1, <2>1 DEF PathsSmooth, Smooth, StepsBy
<1>4. StartsFresh'
  BY <1>1 DEF GuidanceInv, StartsFresh, NoPushes, Points
<1>5. VaryReady'
  <2>1. pc = "vary" => OnceFor(base, final)'
    <3>1. PICK b, fin : b = base /\ fin = final
      OBVIOUS
    <3>2. b = base' /\ fin = final' /\ UNCHANGED <<occupied, row, segments>>
      BY <1>1, <3>1
    <3>3. pc = "vary" => OnceFor(b, fin)
      BY <3>1 DEF GuidanceInv, VaryReady
    <3> QED
      BY <3>2, <3>3, OnceNext
  <2>2. PiecesOK(final)' <=> PiecesOK(final)
    BY <1>1 DEF PiecesOK, InOrder, Segment
  <2> QED
    BY <1>1, <2>1, <2>2 DEF GuidanceInv, VaryReady
<1>6. ReboundReady' /\ ReboundPushes'
  BY ReboundKeeps
<1>7. Alternatives(variants)' /\ (base \in Bases)'
  BY <1>1, <1>2 DEF Alternatives, Bases, Points, Push
<1> QED
  BY <1>2, <1>3, <1>4, <1>5, <1>6, <1>7 DEF GuidanceInv

\* A call that finds no segments, or loses one, pushes nothing.
LEMMA NothingPushed ==
  ASSUME final' = << >>, segments' = << >>
  PROVE  PiecesOK(final)' /\ OnceFor(base, final)'
<1>1. Len(<< >>) = 0 /\ << >> \in Seq(Segment)
  OBVIOUS
<1>2. PiecesOK(final)'
  BY <1>1 DEF PiecesOK, InOrder, Segment
<1>3. OnceFor(base, final)'
  BY <1>1 DEF OnceFor
<1> QED
  BY <1>2, <1>3

LEMMA ScanKeepsGuidance == ASSUME CpsIInv, GuidanceInv, Scan PROVE GuidanceInv'
<1>1. /\ pc = "scan" /\ paths' = << >> /\ lost' = FALSE
      /\ UNCHANGED <<astarVars, row, base, job, variants>>
  BY DEF Scan
<1>2. occupied' = occupied /\ search' = search /\ center' = center
  BY <1>1 DEF astarVars
<1>3. base' \in Bases /\ job' \in {"init", "restart", "rebound"} /\ Alternatives(variants)'
  BY <1>1 DEF GuidanceInv, Alternatives, Bases, Points, Push
<1>4. EvenCenter'
  BY <1>2 DEF GuidanceInv, EvenCenter, Even
<1>5. PathsSmooth'
  <2>1. Len(<< >>) = 0
    OBVIOUS
  <2> QED
    BY <1>1, <2>1 DEF PathsSmooth
<1>6. StartsFresh'
  <2>1. job = "init" => base = NoPushes /\ final' = << >>
    BY <1>1 DEF GuidanceInv, StartsFresh, Scan
  <2>2. NoPushes' = NoPushes
    BY DEF NoPushes, Points
  <2> QED
    BY <1>1, <2>1, <2>2 DEF StartsFresh
<1>7. VaryReady'
  <2> SUFFICES ASSUME pc' = "vary" PROVE PiecesOK(final)' /\ OnceFor(base, final)'
    BY DEF VaryReady
  <2>1. segments' = << >> /\ NextPc = "vary"
    BY DEF Scan
  <2>2. job # "rebound"
    BY <2>1 DEF NextPc
  <2>3. final' = << >>
    BY <2>2 DEF Scan
  <2> QED
    BY <2>1, <2>3, NothingPushed
<1>8. ReboundReady'
  <2>1. LastChecked' = LastChecked /\ order' = order
    BY DEF LastChecked, order
  <2>2. \A i : NewCollision(i)' <=> NewCollision(i)
    BY <1>1, <1>2, NewCollisionKeeps
  <2>3. ASSUME pc' = "guide", job = "rebound"
        PROVE  segments' = Checks[CheckCount].ids /\ ~Checks[CheckCount].endless
    <3>1. segments' # << >>
      BY <1>3, <2>3 DEF Scan, NextPc
    <3> QED
      BY <2>3, <3>1 DEF Scan
  <2>4. PICK ids : ids = Checks[CheckCount].ids
    OBVIOUS
  <2>5. Solid(ids) /\ (~Checks[CheckCount].endless =>
                         \A i \in order - 1 .. LastChecked : NewCollision(i) => FoundBy(ids, i))
    BY <2>4, ChecksCover
  <2>6. Solid(ids)'
    BY <1>1, <1>2, <2>5, SolidKeeps
  <2>7. ASSUME pc' = "guide", job = "rebound"
        PROVE  /\ Solid(segments)'
               /\ (\A i \in order - 1 .. LastChecked : NewCollision(i) => FoundBy(segments, i))'
    <3>1. segments' = ids
      BY <2>3, <2>4, <2>7
    <3>2. Solid(segments)'
      BY <2>6, <3>1 DEF Solid, AllInside
    <3>3. \A i : FoundBy(segments, i)' <=> FoundBy(ids, i)
      BY <3>1 DEF FoundBy, Inside
    <3> QED
      BY <2>1, <2>2, <2>3, <2>5, <2>7, <3>2, <3>3
  <2> QED
    BY <1>1, <2>7 DEF ReboundReady
<1>9. ReboundPushes'
  <2>1. force_stop' # "STOP_FOR_REBOUND"
    BY DEF Scan
  <2> QED
    BY <2>1 DEF ReboundPushes
<1> QED
  BY <1>3, <1>4, <1>5, <1>6, <1>7, <1>8, <1>9 DEF GuidanceInv, Bases, Points, Push

LEMMA TakePathKeepsGuidance == ASSUME CpsIInv, GuidanceInv, TakePath PROVE GuidanceInv'
<1>1. /\ search = "found" /\ search' = "idle" /\ paths' = Append(paths, Path) /\ occupied' = occupied
      /\ UNCHANGED <<row, base, job, pc, segments, final, variants, force_stop, lost>>
      /\ pc = "guide"
  BY DEF TakePath
<1>2. base' \in Bases /\ job' \in {"init", "restart", "rebound"} /\ Alternatives(variants)'
  BY <1>1 DEF GuidanceInv, Alternatives, Bases, Points, Push
<1>3. EvenCenter'
  BY <1>1 DEF EvenCenter
<1>4. PathsSmooth'
  <2>1. Smooth(Path) /\ \A k \in 1 .. Len(paths) : Smooth(paths[k])
    BY <1>1, PathIsSmooth DEF GuidanceInv, PathsSmooth
  <2>2. PICK path, n : path = Path /\ n = Len(paths)
    OBVIOUS
  <2>3. paths \in Seq(Paths) /\ path \in Paths
    BY <1>1, <2>2, PathLeads DEF CpsIInv, GuideOK, Leads
  <2>4. /\ Len(paths') = n + 1 /\ paths'[n + 1] = path /\ n \in Nat
        /\ \A k \in 1 .. n : paths'[k] = paths[k]
    BY <1>1, <2>2, <2>3, AppendProperties
  <2>5. \A k \in 1 .. n + 1 : k = n + 1 \/ k \in 1 .. n
    BY <2>4
  <2>6. \A k \in 1 .. n + 1 : Smooth(paths'[k])
    BY <2>1, <2>2, <2>4, <2>5
  <2>7. \A k \in 1 .. n + 1 : Smooth(paths[k])'
    <3> TAKE k \in 1 .. n + 1
    <3>1. PICK q : q = paths'[k]
      OBVIOUS
    <3>2. Smooth(q)'
      BY <1>1, <2>6, <3>1, SmoothKeeps
    <3> QED
      BY <3>1, <3>2 DEF Smooth, StepsBy
  <2> QED
    BY <2>4, <2>7 DEF PathsSmooth
<1>5. StartsFresh'
  BY <1>1 DEF GuidanceInv, StartsFresh, NoPushes, Points
<1>6. VaryReady' /\ ReboundPushes'
  BY <1>1 DEF VaryReady, ReboundPushes
<1>7. ReboundReady'
  <2>1. LastChecked' = LastChecked /\ order' = order
    BY DEF LastChecked, order
  <2>2. \A i : NewCollision(i)' <=> NewCollision(i)
    BY <1>1, NewCollisionKeeps
  <2>3. Solid(segments) => Solid(segments)'
    BY <1>1, SolidKeeps
  <2>4. \A i : FoundBy(segments, i)' <=> FoundBy(segments, i)
    BY <1>1 DEF FoundBy, Inside
  <2> QED
    BY <1>1, <2>1, <2>2, <2>3, <2>4 DEF GuidanceInv, ReboundReady
<1> QED
  BY <1>2, <1>3, <1>4, <1>5, <1>6, <1>7 DEF GuidanceInv, Bases, Points, Push

LEMMA LosePathKeepsGuidance == ASSUME CpsIInv, GuidanceInv, LosePath PROVE GuidanceInv'
<1>1. /\ search' = "idle" /\ occupied' = occupied /\ lost' = TRUE /\ pc = "guide"
      /\ UNCHANGED <<row, base, job, final, variants, force_stop>>
  BY DEF LosePath
<1>2. base' \in Bases /\ job' \in {"init", "restart", "rebound"} /\ Alternatives(variants)'
  BY <1>1 DEF GuidanceInv, Alternatives, Bases, Points, Push
<1>3. EvenCenter'
  BY <1>1 DEF EvenCenter
<1>4. ReboundReady' /\ ReboundPushes'
  BY <1>1 DEF ReboundReady, ReboundPushes
<1>5. CASE job = "rebound"
  <2>1. paths' = paths /\ pc' = pc
    BY <1>5 DEF LosePath
  <2>2. PathsSmooth'
    <3>1. \A k \in 1 .. Len(paths) : Smooth(paths[k])'
      <4> TAKE k \in 1 .. Len(paths)
      <4>1. PICK q : q = paths[k]
        OBVIOUS
      <4>2. Smooth(q)'
        BY <1>1, <4>1, SmoothKeeps DEF GuidanceInv, PathsSmooth
      <4> QED
        BY <2>1, <4>1, <4>2 DEF Smooth, StepsBy
    <3> QED
      BY <2>1, <3>1 DEF PathsSmooth
  <2>3. StartsFresh' /\ VaryReady'
    BY <1>1, <1>5, <2>1 DEF StartsFresh, VaryReady
  <2> QED
    BY <1>2, <1>3, <1>4, <2>2, <2>3 DEF GuidanceInv, Bases, Points, Push
<1>6. CASE job # "rebound"
  <2>1. paths' = << >> /\ segments' = << >> /\ pc' = NextPc
    BY <1>6 DEF LosePath
  <2>2. PathsSmooth'
    <3>1. Len(<< >>) = 0
      OBVIOUS
    <3> QED
      BY <2>1, <3>1 DEF PathsSmooth
  <2>3. pc' \notin {"scan", "guide"} /\ (pc' = "vary" => job = "init")
    BY <1>6, <2>1 DEF NextPc
  <2>4. StartsFresh'
    BY <2>3 DEF StartsFresh
  <2>5. VaryReady'
    <3>1. job = "init" => final' = << >>
      BY <1>1 DEF GuidanceInv, StartsFresh
    <3> QED
      BY <2>1, <2>3, <3>1, NothingPushed DEF VaryReady
  <2> QED
    BY <1>2, <1>3, <1>4, <2>2, <2>4, <2>5 DEF GuidanceInv, Bases, Points, Push
<1> QED
  BY <1>5, <1>6

LEMMA GuidedHere ==
  ASSUME Even(Spacing), CpsIInv, GuidanceInv, Len(paths) = Len(segments)
  PROVE  Guided
<1>1. Spacing >= 2
  BY StepsAssumption DEF Even
<1>2. WalksStayOnPath
  BY <1>1, WalksStay
<1> QED
  BY <1>2 DEF Guided, CpsIInv, GuideOK, GuidanceInv, PathsSmooth

\* A collision that no push answers was one before the rebound, so the check found it.
LEMMA AssignAnswers ==
  ASSUME Guided, GuidanceInv, pc = "guide", job = "rebound", ~lost,
         UNCHANGED <<occupied, row, segments>>, base' = PushAll(Split(segments)).base,
         NEW i \in order - 1 .. LastChecked, NewCollision(i)'
  PROVE  Stranded(i)' \/ \E k \in 1 .. Len(segments) : i = segments[k][2] + 1
<1>1. i \in Points
  BY CheckedPoints
<1>2. PICK b : b = PushAll(Split(segments)).base
  OBVIOUS
<1>3. /\ \A l \in 1 .. Len(segments) : Answered(b, l)
      /\ \A j \in Points : Cleared(base, j) => Cleared(b, j)
  BY <1>2, PushAllAnswers DEF GuidanceInv
<1>4. Occupied(Point(i))' = Occupied(Point(i)) /\ RowOf(i)' = RowOf(i)
  BY SameMap
<1>5. Occupied(Point(i)) /\ ~Cleared(b, i)
  BY <1>2, <1>4 DEF NewCollision, Cleared, Clears
<1>6. NewCollision(i)
  BY <1>1, <1>3, <1>5 DEF NewCollision, Cleared, Clears
<1>7. Solid(segments) /\ FoundBy(segments, i)
  BY <1>6 DEF GuidanceInv, ReboundReady
<1>8. PICK l \in 1 .. Len(segments) : Inside(segments[l], i) \/ i = segments[l][2] + 1
  BY <1>7 DEF FoundBy
<1>9. CASE i = segments[l][2] + 1
  BY <1>9
<1>10. CASE Inside(segments[l], i)
  <2>1. StrandedAt(Split(segments)[l], i)
    BY <1>1, <1>3, <1>5, <1>7, <1>10 DEF Answered, Solid
  <2>2. Stranded(i)
    BY <2>1 DEF StrandedAt, Stranded
  <2> QED
    BY <2>2, StrandedKeeps
<1> QED
  BY <1>8, <1>9, <1>10

LEMMA AssignKeepsGuidance ==
  ASSUME Even(Spacing), CpsIInv, GuidanceInv, Assign
  PROVE  GuidanceInv'
<1>1. /\ pc = "guide" /\ search = "idle" /\ pc' = NextPc /\ Len(paths) = Len(segments)
      /\ UNCHANGED <<astarVars, row, job, segments, paths, variants, lost>>
  BY DEF Assign
<1>2. occupied' = occupied /\ search' = search
  BY <1>1 DEF astarVars
<1>3. PICK new : /\ new = PushAll(Split(segments)) /\ base' = new.base
                 /\ final' = IF job = "rebound" THEN final ELSE new.final
  BY DEF Assign
<1>4. Guided
  BY <1>1, GuidedHere
<1>5. new \in AllPushed
  BY <1>3, <1>4, PushAllAnswers DEF GuidanceInv
<1>6. base' \in Bases /\ job' \in {"init", "restart", "rebound"} /\ Alternatives(variants)'
  BY <1>1, <1>3, <1>5 DEF GuidanceInv, Alternatives, Bases, Points, Push, AllPushed
<1>7. EvenCenter'
  BY <1>1, <1>2 DEF EvenCenter
<1>8. PathsSmooth'
  <2>1. \A k \in 1 .. Len(paths) : Smooth(paths[k])'
    <3> TAKE k \in 1 .. Len(paths)
    <3>1. PICK q : q = paths[k]
      OBVIOUS
    <3>2. Smooth(q)'
      BY <1>2, <3>1, SmoothKeeps DEF GuidanceInv, PathsSmooth
    <3> QED
      BY <1>1, <3>1, <3>2 DEF Smooth, StepsBy
  <2> QED
    BY <1>1, <2>1 DEF PathsSmooth
<1>9. pc' \in {"vary", "solve", "judge"} /\ (pc' = "vary" => job = "init")
      /\ (pc' = "judge" => job = "rebound")
  BY <1>1 DEF NextPc, GuidanceInv
<1>10. StartsFresh'
  BY <1>9 DEF StartsFresh
<1>11. VaryReady'
  <2> SUFFICES ASSUME pc' = "vary" PROVE PiecesOK(final)' /\ OnceFor(base, final)'
    BY DEF VaryReady
  <2>1. job = "init" /\ base = NoPushes
    BY <1>1, <1>9 DEF GuidanceInv, StartsFresh
  <2>2. FirstPushes(new, Len(segments))
    BY <1>3, <1>4, <2>1, PushAllFirst
  <2>3. OnceFor(new.base, new.final) /\ PiecesOK(new.final)
    BY <1>4, <2>2, FirstPushesOnce DEF Guided
  <2>4. PICK b, fin : b = new.base /\ fin = new.final
    OBVIOUS
  <2>5. b = base' /\ fin = final'
    BY <1>3, <2>1, <2>4
  <2>6. OnceFor(base, final)'
    BY <1>1, <1>2, <2>3, <2>4, <2>5, OnceNext
  <2>7. PiecesOK(final)'
    BY <2>3, <2>4, <2>5 DEF PiecesOK, InOrder, Segment
  <2> QED
    BY <2>6, <2>7
<1>12. ReboundReady'
  BY <1>9 DEF ReboundReady
<1>13. ReboundPushes'
  <2>1. LastChecked' = LastChecked /\ order' = order
    BY DEF LastChecked, order
  <2>2. ASSUME pc' = "judge", ~lost, NEW i \in order - 1 .. LastChecked, NewCollision(i)'
        PROVE  Stranded(i)' \/ \E k \in 1 .. Len(segments) : i = segments[k][2] + 1
    BY <1>1, <1>2, <1>3, <1>4, <1>9, <2>2, AssignAnswers
  <2> QED
    BY <1>1, <2>1, <2>2 DEF ReboundPushes
<1> QED
  BY <1>6, <1>7, <1>8, <1>10, <1>11, <1>12, <1>13 DEF GuidanceInv, Bases, Points, Push

\* The steps that call no search.
LEMMA OtherStepsKeepGuidance ==
  ASSUME CpsIInv, GuidanceInv, Vary \/ Choose \/ Solve \/ Judge \/ LeaveRow
  PROVE  GuidanceInv'
<1>1. /\ pc \in {"vary", "choose", "solve", "judge"} \/ search = "idle"
      /\ pc' \in {"choose", "done", "solve", "scan"}
      /\ UNCHANGED <<astarVars, segments, paths, final, force_stop, lost>>
  BY DEF Vary, Choose, Solve, Judge, LeaveRow
<1>2. occupied' = occupied /\ search' = search /\ search = "idle"
  BY <1>1 DEF astarVars, CpsIInv, GuideOK
<1>3. EvenCenter'
  BY <1>2 DEF EvenCenter
<1>4. PathsSmooth'
  <2>1. \A k \in 1 .. Len(paths) : Smooth(paths[k])'
    <3> TAKE k \in 1 .. Len(paths)
    <3>1. PICK q : q = paths[k]
      OBVIOUS
    <3>2. Smooth(q)'
      BY <1>2, <3>1, SmoothKeeps DEF GuidanceInv, PathsSmooth
    <3> QED
      BY <1>1, <3>1, <3>2 DEF Smooth, StepsBy
  <2> QED
    BY <1>1, <2>1 DEF PathsSmooth
<1>5. VaryReady' /\ ReboundReady' /\ ReboundPushes'
  BY <1>1 DEF VaryReady, ReboundReady, ReboundPushes
<1>6. StartsFresh'
  <2>1. CASE Solve \/ Judge
    <3>1. pc' = "scan" => job' # "init"
      BY <2>1 DEF Solve, Judge
    <3> QED
      BY <1>1, <3>1 DEF StartsFresh
  <2>2. CASE Vary \/ Choose \/ LeaveRow
    <3>1. pc' \notin {"scan", "guide"}
      BY <2>2 DEF Vary, Choose, LeaveRow
    <3> QED
      BY <3>1 DEF StartsFresh
  <2> QED
    BY <2>1, <2>2
<1>7. job' \in {"init", "restart", "rebound"}
  BY DEF GuidanceInv, Vary, Choose, Solve, Judge, LeaveRow
<1>8. Alternatives(variants')
  <2>1. CASE Vary
    <3>1. row \in Int /\ base \in Bases /\ PiecesOK(final) /\ OnceFor(base, final)
      BY <2>1 DEF CpsIInv, GuideOK, GuidanceInv, VaryReady, Vary
    <3>2. variants' = DistinctiveTrajs
      BY <2>1 DEF Vary
    <3> QED
      BY <3>1, <3>2, DistinctiveIs
  <2>2. CASE Choose \/ Solve \/ Judge \/ LeaveRow
    BY <2>2 DEF Choose, Solve, Judge, LeaveRow, GuidanceInv
  <2> QED
    BY <2>1, <2>2
<1>9. base' \in Bases
  <2>1. CASE Choose
    <3>1. variants \in Seq(Bases) /\ base \in Bases
      BY DEF GuidanceInv, Alternatives
    <3>2. \A n \in 1 .. Len(variants) : variants[n] \in Bases
      BY <3>1
    <3> QED
      BY <2>1, <3>1, <3>2 DEF Choose
  <2>2. CASE Vary \/ Solve \/ Judge \/ LeaveRow
    BY <2>2 DEF Vary, Solve, Judge, LeaveRow, GuidanceInv
  <2> QED
    BY <2>1, <2>2
<1>10. Alternatives(variants)'
  BY <1>8 DEF Alternatives, Bases, Points, Push
<1> QED
  BY <1>3, <1>4, <1>5, <1>6, <1>7, <1>9, <1>10 DEF GuidanceInv, Bases, Points, Push

LEMMA GuidanceInit == CpsInit => GuidanceInv
<1> SUFFICES ASSUME CpsInit PROVE GuidanceInv
  OBVIOUS
<1>1. /\ search = "idle" /\ base = NoPushes /\ job = "init" /\ pc = "scan" /\ paths = << >>
      /\ variants = << >>
  BY DEF CpsInit, AStarInit
<1>2. Len(<< >>) = 0 /\ << >> \in Seq(Bases) /\ << >> \in Seq(Push)
  OBVIOUS
<1>3. base \in Bases
  BY <1>1, <1>2 DEF NoPushes, Bases
<1>4. EvenCenter /\ PathsSmooth /\ StartsFresh /\ VaryReady /\ ReboundReady /\ ReboundPushes
  BY <1>1, <1>2 DEF EvenCenter, PathsSmooth, StartsFresh, VaryReady, ReboundReady, ReboundPushes
<1>5. Alternatives(variants)
  BY <1>1, <1>2 DEF Alternatives
<1> QED
  BY <1>1, <1>3, <1>4, <1>5 DEF GuidanceInv

LEMMA GuidanceStep ==
  ASSUME Even(Spacing), CpsIInv, GuidanceInv, [CpsNext]_controlVars
  PROVE  GuidanceInv'
<1>1. CASE Guide
  <2>1. occupied' = occupied /\ UNCHANGED cpsVars
    BY <1>1 DEF Guide, AstarSearch
  <2> QED
    BY <1>1, <2>1, GuideCenter, SearchingKeeps
<1>2. CASE Searching
  <2>1. UNCHANGED cpsVars /\ occupied' = occupied /\ center' = center /\ search = "running"
    BY <1>2 DEF Searching, SearchStep, Reach, Expand, Exhaust
  <2>2. EvenCenter'
    BY <2>1 DEF GuidanceInv, EvenCenter, Even
  <2> QED
    BY <2>1, <2>2, SearchingKeeps
<1>3. CASE UNCHANGED controlVars
  <2>1. UNCHANGED cpsVars /\ occupied' = occupied /\ center' = center /\ search' = search
    BY <1>3 DEF controlVars, astarVars
  <2>2. EvenCenter'
    BY <2>1 DEF GuidanceInv, EvenCenter, Even
  <2> QED
    BY <2>1, <2>2, SearchingKeeps
<1> QED
  BY <1>1, <1>2, <1>3, ScanKeepsGuidance, TakePathKeepsGuidance, LosePathKeepsGuidance,
     AssignKeepsGuidance, OtherStepsKeepGuidance DEF CpsNext

LEMMA GuidanceIs == CpsIInv /\ GuidanceInv => GuidanceIsSound
<1> SUFFICES ASSUME CpsIInv, GuidanceInv PROVE GuidanceIsSound
  OBVIOUS
<1>1. PushedOnce
  BY DEF GuidanceInv, VaryReady, OnceFor, PushedOnce
<1>2. VariantsDiffer
  BY DEF GuidanceInv, Alternatives, VariantsDiffer
<1>3. ReboundPushes
  BY DEF GuidanceInv
<1> QED
  BY <1>1, <1>2, <1>3 DEF GuidanceIsSound

\* With control points an even number of cells apart (four are flown), for every size
\* and sampling, every world and every move of the solver: each point of a segment that
\* is varied has a push, from a free cell where the point collides; the alternatives
\* differ from one another; and a rebound leaves no collision without a push that takes
\* the point out, but where the check gives up.
THEOREM GuidanceSound == ASSUME Even(Spacing) PROVE CpsSpec => []GuidanceIsSound
<1>1. CpsInit => GuidanceInv
  BY GuidanceInit
<1>2. CpsIInv /\ GuidanceInv /\ [CpsNext]_controlVars => GuidanceInv'
  BY GuidanceStep
<1>3. CpsIInv /\ GuidanceInv => GuidanceIsSound
  BY GuidanceIs
<1>4. CpsSpec => []CpsIInv
  BY ControlInvariance
<1> QED
  BY <1>1, <1>2, <1>3, <1>4, PTL DEF CpsSpec
=============================================================================
